------------------------------- MODULE Calls --------------------------------
(***************************************************************************)
(* What clientset.Client promises the driver (clientset.go:85-92): any     *)
(* number of workers may have a call in flight, and each call ends with an *)
(* error or with the answer to that very call, told by the length of its   *)
(* body.                                                                   *)
(***************************************************************************)
EXTENDS Integers

CONSTANTS Workers, Lengths

VARIABLES asked,        \* per worker: the length of its call's answer, or Idle
          result        \* per worker: what its last call returned

Idle == -1

Fail == -2

TypeOK == /\ asked \in [Workers -> Lengths \cup {Idle}]
          /\ result \in [Workers -> Lengths \cup {Idle, Fail}]

Init == /\ asked = [w \in Workers |-> Idle]
        /\ result = [w \in Workers |-> Idle]

Begin(w) == /\ asked[w] = Idle
            /\ \E n \in Lengths: asked' = [asked EXCEPT ![w] = n]
            /\ result' = [result EXCEPT ![w] = Idle]

Return(w) == /\ asked[w] # Idle
             /\ \E r \in {asked[w], Fail}: result' = [result EXCEPT ![w] = r]
             /\ asked' = [asked EXCEPT ![w] = Idle]

Next == \E w \in Workers: Begin(w) \/ Return(w)

Spec == Init /\ [][Next]_<<asked, result>>
=============================================================================
