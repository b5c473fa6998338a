--------------------------- MODULE ClientsProofs ----------------------------
(***************************************************************************)
(* Proofs about Clients, for any number of workers, objects, connections   *)
(* and streams: it is well typed, each call returns an error or the length *)
(* of its own body, no stream is refused, and each leg speaks its          *)
(* protocol.                                                               *)
(***************************************************************************)
EXTENDS Clients, FiniteSetTheorems, TLAPS

\* A worker reading a body fills an object that is nobody else's and not in
\* the pool, and it holds what the worker has read; what is in the pool is
\* empty; what a call is about to return is an error or its length.
HoldInv ==
    /\ \A w \in Workers: pc[w] = "idle" => hold[w] = NoObject
    /\ \A w \in Workers: pc[w] = "body" => hold[w] # NoObject
    /\ \A w \in Workers: Adapter = "response" /\ pc[w] # "idle"
                             => hold[w] # NoObject
    /\ \A v, w \in Workers: hold[v] = hold[w] /\ hold[v] # NoObject => v = w
    /\ \A w \in Workers: hold[w] \notin pool
    /\ \A o \in pool: content[o] = 0
    /\ \A w \in Workers: pc[w] = "want" \/ pc[w] = "sent" => left[w] = want[w]
    /\ \A w \in Workers:
          pc[w] \in {"want", "sent", "body"} /\ hold[w] # NoObject =>
              content[hold[w]] = want[w] - left[w]
    /\ \A w \in Workers: pc[w] = "closing" => ret[w] \in {want[w], Fail, Refused}

IInv == TypeOK /\ HoldInv

LEMMA IInit == Init => IInv
BY ClientsAssumption
   DEF Init, IInv, TypeOK, HoldInv, Regimes, ParseableArms, Arms, Pc, Idle

LEMMA ConnLimitType == ConnLimit \in Nat \ {0} /\ ConnLimit <= Conns
BY ClientsAssumption DEF ConnLimit

\* An object obtained is nobody else's, and empty.
LEMMA ObtainGives ==
    ASSUME IInv, NEW w \in Workers, Obtain(w)
    PROVE  \E o \in Objects:
              /\ hold' = [hold EXCEPT ![w] = o]
              /\ \A v \in Workers: hold[v] # o
              /\ content' \in [Objects -> Nat] /\ content'[o] = 0
              /\ \A p \in Objects: p # o => content'[p] = content[p]
              /\ pool' = pool \ {o}
<1>0. /\ pool \subseteq Objects /\ content \in [Objects -> Nat]
      /\ \A v \in Workers: hold[v] \notin pool
      /\ \A o \in pool: content[o] = 0
    BY DEF IInv, TypeOK, HoldInv
<1>1. CASE \E o \in pool: /\ hold' = [hold EXCEPT ![w] = o]
                          /\ pool' = pool \ {o}
                          /\ UNCHANGED content
    <2>1. PICK o \in pool: /\ hold' = [hold EXCEPT ![w] = o]
                           /\ pool' = pool \ {o}
                           /\ UNCHANGED content
        BY <1>1
    <2>2. o \in Objects /\ \A v \in Workers: hold[v] # o
        BY <1>0
    <2> QED BY <1>0, <2>1, <2>2
<1>2. CASE LET o == CHOOSE o \in Objects \ (pool \cup Held): TRUE
           IN  /\ Objects \ (pool \cup Held) # {}
               /\ hold' = [hold EXCEPT ![w] = o]
               /\ content' = [content EXCEPT ![o] = 0]
               /\ UNCHANGED pool
    <2> DEFINE o == CHOOSE o \in Objects \ (pool \cup Held): TRUE
    <2>1. o \in Objects /\ o \notin pool /\ o \notin Held
        BY <1>2
    <2>2. /\ hold' = [hold EXCEPT ![w] = o] /\ content' = [content EXCEPT ![o] = 0]
          /\ pool' = pool
        BY <1>2
    <2> HIDE DEF o
    <2>3. \A v \in Workers: hold[v] # o
        BY <2>1 DEF Held
    <2>4. pool' = pool \ {o}
        BY <2>1, <2>2
    <2>5. /\ content' \in [Objects -> Nat] /\ content'[o] = 0
          /\ \A p \in Objects: p # o => content'[p] = content[p]
        BY <1>0, <2>1, <2>2
    <2> QED BY <2>1, <2>2, <2>3, <2>4, <2>5
<1> QED BY <1>1, <1>2 DEF Obtain

LEMMA TypeStep == IInv /\ [Next]_vars => TypeOK'
<1> SUFFICES ASSUME IInv, [Next]_vars PROVE TypeOK'
    OBVIOUS
<1> USE DEF TypeOK, IInv, Pc
<1> USE DEF cell, workVars, poolVars, connVars, Goto
<1>0. /\ 0 \in 0..MaxLen /\ 1 \in ConnIds /\ 1..ConnLimit \subseteq ConnIds
      /\ {Idle, Fail, Refused} \subseteq Nat \cup {Idle, Fail, Refused}
    BY ClientsAssumption, ConnLimitType DEF ConnIds
<1>1. CASE New
    BY <1>0, <1>1 DEF New
<1>2. CASE Close
    BY <1>2 DEF Close
<1>3. ASSUME NEW w \in Workers, Begin(w) PROVE TypeOK'
    <2>1. /\ hold' \in [Workers -> Objects \cup {NoObject}]
          /\ content' \in [Objects -> Nat] /\ pool' \subseteq Objects
        <3>1. CASE Obtain(w)
            BY <3>1, ObtainGives
        <3>2. CASE UNCHANGED <<hold, poolVars>>
            BY <3>2
        <3> QED BY <1>3, <3>1, <3>2 DEF Begin
    <2>2. want' \in [Workers -> 0..MaxLen] /\ left' \in [Workers -> 0..MaxLen]
        BY <1>3 DEF Begin
    <2> QED BY <1>0, <1>3, <2>1, <2>2 DEF Begin
<1>4. ASSUME NEW w \in Workers, Connect(w) PROVE TypeOK'
    <2>1. /\ conn' \in [Workers -> ConnIds \cup {0}] /\ open' \subseteq ConnIds
          /\ ret' \in [Workers -> Nat \cup {Idle, Fail, Refused}]
          /\ pc' \in [Workers -> Pc]
        BY <1>0, <1>4 DEF Connect
    <2> QED BY <1>4, <2>1 DEF Connect
<1>5. ASSUME NEW w \in Workers, Headers(w) PROVE TypeOK'
    <2>1. /\ hold' \in [Workers -> Objects \cup {NoObject}]
          /\ content' \in [Objects -> Nat] /\ pool' \subseteq Objects
        <3>1. CASE Obtain(w)
            BY <3>1, ObtainGives
        <3>2. CASE UNCHANGED <<hold, poolVars>>
            BY <3>2
        <3> QED BY <1>5, <3>1, <3>2 DEF Headers
    <2> QED BY <1>5, <2>1 DEF Headers
<1>6. ASSUME NEW w \in Workers, Part(w) PROVE TypeOK'
    <2>0. left[w] \in 0..MaxLen /\ left[w] > 0
        BY <1>6 DEF Part
    <2>1. left' \in [Workers -> 0..MaxLen]
        <3>1. left[w] - 1 \in 0..MaxLen
            BY <2>0, ClientsAssumption
        <3> QED BY <1>6, <3>1 DEF Part
    <2>2. content' \in [Objects -> Nat]
        <3>1. hold[w] \in Objects
            BY <1>6 DEF Part, HoldInv
        <3>2. content[hold[w]] + 1 \in Nat
            BY <3>1
        <3> QED BY <1>6, <3>1, <3>2 DEF Part
    <2> QED BY <1>6, <2>1, <2>2 DEF Part
<1>7. ASSUME NEW w \in Workers, Eof(w) PROVE TypeOK'
    <2>1. Length(w) \in Nat
        <3>1. hold[w] \in Objects
            BY <1>7 DEF Eof, HoldInv
        <3>2. want[w] - left[w] \in Nat
            BY <1>7, ClientsAssumption DEF Eof
        <3> QED BY <3>1, <3>2 DEF Length
    <2>2. lag' \in [ConnIds -> {0, 1}]
        BY <1>7 DEF Eof
    <2> HIDE DEF Pc
    <2>3. pc' \in [Workers -> Pc]
        BY <1>7 DEF Eof, Pc
    <2> QED BY <1>7, <2>1, <2>2, <2>3 DEF Eof
<1>8. ASSUME NEW w \in Workers, Break(w) PROVE TypeOK'
    <2>1. open' \subseteq ConnIds /\ conn' \in [Workers -> ConnIds \cup {0}]
        BY <1>8 DEF Break, Severed
    <2> QED BY <1>8, <2>1 DEF Break
<1>9. ASSUME NEW w \in Workers, Deferred(w) PROVE TypeOK'
    <2>1. open' \subseteq ConnIds /\ conn' \in [Workers -> ConnIds \cup {0}]
        BY <1>9 DEF Deferred, Severed
    <2>2. content' \in [Objects -> Nat] /\ pool' \subseteq Objects
        BY <1>9 DEF Deferred, Leaves
    <2>3. want' \in [Workers -> 0..MaxLen] /\ left' \in [Workers -> 0..MaxLen]
        BY <1>0, <1>9 DEF Deferred
    <2> QED BY <1>9, <2>1, <2>2, <2>3 DEF Deferred
<1>10. ASSUME NEW o \in Objects, Evict(o) PROVE TypeOK'
    BY <1>10 DEF Evict
<1>11. ASSUME NEW c \in ConnIds, Drop(c) PROVE TypeOK'
    BY <1>11 DEF Drop
<1>12. ASSUME NEW c \in ConnIds, Settle(c) PROVE TypeOK'
    BY <1>12 DEF Settle
<1>13. CASE UNCHANGED vars
    BY <1>13 DEF vars
<1> QED BY <1>1, <1>2, <1>3, <1>4, <1>5, <1>6, <1>7, <1>8, <1>9, <1>10, <1>11,
           <1>12, <1>13 DEF Next, Served, Exited

-----------------------------------------------------------------------------
(* Objects in their hands *)

\* An object that w has obtained keeps HoldInv, whatever w does next but end.
LEMMA ObtainHolds ==
    ASSUME IInv, TypeOK', NEW w \in Workers, Obtain(w),
           UNCHANGED <<regime, arm>>,
           \A v \in Workers: v # w => /\ pc'[v] = pc[v] /\ want'[v] = want[v]
                                      /\ left'[v] = left[v] /\ ret'[v] = ret[v],
           pc'[w] \in {"want", "body"}, left'[w] = want'[w]
    PROVE  HoldInv'
<1>1. PICK o \in Objects:
          /\ hold' = [hold EXCEPT ![w] = o]
          /\ \A v \in Workers: hold[v] # o
          /\ content' \in [Objects -> Nat] /\ content'[o] = 0
          /\ \A p \in Objects: p # o => content'[p] = content[p]
          /\ pool' = pool \ {o}
    BY ObtainGives
<1>2. hold \in [Workers -> Objects \cup {NoObject}] /\ pool \subseteq Objects
      /\ o # NoObject /\ hold'[w] = o
    BY <1>1, ClientsAssumption DEF IInv, TypeOK
<1>3. \A v \in Workers: v # w => hold'[v] = hold[v]
    BY <1>1, <1>2
<1>4. Adapter' = Adapter
    BY DEF Adapter
<1>5. want'[w] - left'[w] = 0
    BY DEF TypeOK
<1> QED BY <1>1, <1>2, <1>3, <1>4, <1>5 DEF IInv, HoldInv

LEMMA HoldStep == IInv /\ TypeOK' /\ [Next]_vars => HoldInv'
<1> SUFFICES ASSUME IInv, TypeOK', [Next]_vars PROVE HoldInv'
    OBVIOUS
<1> USE DEF IInv
<1> USE DEF cell, workVars, poolVars, connVars, Goto
<1>f. /\ pc \in [Workers -> Pc]
      /\ want \in [Workers -> 0..MaxLen] /\ left \in [Workers -> 0..MaxLen]
      /\ hold \in [Workers -> Objects \cup {NoObject}]
      /\ ret \in [Workers -> Nat \cup {Idle, Fail, Refused}]
      /\ content \in [Objects -> Nat] /\ pool \subseteq Objects
    BY DEF TypeOK
<1>a. UNCHANGED <<regime, arm>>
    BY DEF Next, New, Close, Exited, Begin, Connect, Served, Headers, Part, Eof,
           Break, Deferred, Evict, Drop, Settle, vars
<1>b. Adapter' = Adapter
    BY <1>a DEF Adapter
<1>1. CASE UNCHANGED <<workVars, poolVars>>
    BY <1>1, <1>b DEF HoldInv
<1>2. ASSUME NEW w \in Workers, Begin(w) PROVE HoldInv'
    <2>1. PICK n \in 0..MaxLen: /\ want' = [want EXCEPT ![w] = n]
                                /\ left' = [left EXCEPT ![w] = n]
        BY <1>2 DEF Begin
    <2>2. /\ pc' = [pc EXCEPT ![w] = "want"] /\ ret' = [ret EXCEPT ![w] = Idle]
          /\ pc[w] = "idle"
        BY <1>2 DEF Begin
    <2>3. CASE Adapter = "response"
        <3>1. Obtain(w)
            BY <1>2, <2>3 DEF Begin
        <3> QED BY <1>f, <1>a, <2>1, <2>2, <3>1, ObtainHolds
    <2>4. CASE Adapter # "response"
        <3>1. UNCHANGED <<hold, content, pool>>
            BY <1>2, <2>4 DEF Begin
        <3>2. hold[w] = NoObject
            BY <2>2 DEF HoldInv
        <3> QED BY <1>f, <1>b, <2>1, <2>2, <2>4, <3>1, <3>2 DEF HoldInv
    <2> QED BY <2>3, <2>4
<1>3. ASSUME NEW w \in Workers, Connect(w) PROVE HoldInv'
    <2>1. /\ pc[w] = "want" /\ UNCHANGED <<want, left, hold, content, pool>>
          /\ \/ pc' = [pc EXCEPT ![w] = "sent"] /\ ret' = ret
             \/ /\ pc' = [pc EXCEPT ![w] = "closing"]
                /\ ret' = [ret EXCEPT ![w] = Refused]
        BY <1>3 DEF Connect
    <2> QED BY <1>f, <1>b, <2>1 DEF HoldInv
<1>4. ASSUME NEW w \in Workers, Headers(w) PROVE HoldInv'
    <2>1. /\ pc' = [pc EXCEPT ![w] = "body"] /\ pc[w] = "sent"
          /\ UNCHANGED <<want, left, ret>> /\ left[w] = want[w]
        BY <1>4 DEF Headers, HoldInv
    <2>2. CASE Adapter = "response"
        <3>1. UNCHANGED <<hold, content, pool>>
            BY <1>4, <2>2 DEF Headers
        <3> QED BY <1>f, <1>b, <2>1, <2>2, <3>1 DEF HoldInv
    <2>3. CASE Adapter # "response"
        <3>1. Obtain(w)
            BY <1>4, <2>3 DEF Headers
        <3> QED BY <1>f, <1>a, <2>1, <3>1, ObtainHolds
    <2> QED BY <2>2, <2>3
<1>5. ASSUME NEW w \in Workers, Part(w) PROVE HoldInv'
    <2>1. /\ pc[w] = "body" /\ left[w] > 0 /\ hold[w] \in Objects
          /\ left' = [left EXCEPT ![w] = left[w] - 1]
          /\ content' = [content EXCEPT ![hold[w]] = content[hold[w]] + 1]
          /\ UNCHANGED <<pc, want, hold, ret, pool>>
        BY <1>f, <1>5 DEF Part, HoldInv
    <2>2. content'[hold[w]] = want'[w] - left'[w]
        BY <1>f, <2>1, ClientsAssumption DEF HoldInv
    <2>3. \A v \in Workers: v # w => /\ left'[v] = left[v]
                                     /\ hold[v] # NoObject =>
                                            content'[hold[v]] = content[hold[v]]
        BY <1>f, <2>1 DEF HoldInv
    <2>4. \A o \in pool: content'[o] = content[o]
        BY <1>f, <2>1 DEF HoldInv
    <2> QED BY <1>f, <1>b, <2>1, <2>2, <2>3, <2>4 DEF HoldInv
<1>6. ASSUME NEW w \in Workers, Eof(w) PROVE HoldInv'
    <2>1. /\ pc[w] = "body" /\ left[w] = 0
          /\ pc' = [pc EXCEPT ![w] = "closing"]
          /\ ret' = [ret EXCEPT ![w] = Length(w)]
          /\ UNCHANGED <<want, left, hold, content, pool>>
        BY <1>6 DEF Eof
    <2>2. Length(w) = want[w]
        <3>1. content[hold[w]] = want[w] - left[w]
            BY <2>1 DEF HoldInv
        <3> QED BY <1>f, <2>1, <3>1 DEF Length
    <2> QED BY <1>f, <1>b, <2>1, <2>2 DEF HoldInv
<1>7. ASSUME NEW w \in Workers, Break(w) PROVE HoldInv'
    <2>1. /\ pc[w] # "idle" /\ pc' = [pc EXCEPT ![w] = "closing"]
          /\ ret' = [ret EXCEPT ![w] = Fail]
          /\ UNCHANGED <<want, left, hold, content, pool>>
        BY <1>7 DEF Break
    <2> QED BY <1>f, <1>b, <2>1 DEF HoldInv
<1>8. ASSUME NEW w \in Workers, Deferred(w) PROVE HoldInv'
    <2>1. /\ pc[w] = "closing" /\ pc' = [pc EXCEPT ![w] = "idle"]
          /\ hold' = [hold EXCEPT ![w] = NoObject]
          /\ want' = [want EXCEPT ![w] = 0] /\ left' = [left EXCEPT ![w] = 0]
          /\ ret' = ret
        BY <1>8 DEF Deferred
    <2>2. CASE Pooled /\ hold[w] # NoObject
        <3>1. /\ content' = [content EXCEPT ![hold[w]] = 0]
              /\ pool' = pool \cup {hold[w]} /\ hold[w] \in Objects
            BY <1>f, <1>8, <2>2 DEF Deferred, Leaves
        <3>2. \A v \in Workers: v # w /\ hold[v] # NoObject =>
                  hold[v] # hold[w] /\ content'[hold[v]] = content[hold[v]]
            BY <1>f, <2>2, <3>1 DEF HoldInv
        <3>3. \A o \in pool': content'[o] = 0
            BY <1>f, <3>1 DEF HoldInv
        <3>4. \A v \in Workers: hold'[v] \notin pool'
            BY <1>f, <2>1, <3>1, <3>2, ClientsAssumption DEF HoldInv
        <3> QED BY <1>f, <1>b, <2>1, <3>2, <3>3, <3>4 DEF HoldInv
    <2>3. CASE ~(Pooled /\ hold[w] # NoObject)
        <3>1. UNCHANGED <<content, pool>>
            BY <1>8, <2>3 DEF Deferred
        <3> QED BY <1>f, <1>b, <2>1, <3>1, ClientsAssumption DEF HoldInv
    <2> QED BY <2>2, <2>3
<1>9. ASSUME NEW o \in Objects, Evict(o) PROVE HoldInv'
    BY <1>9, <1>b DEF Evict, HoldInv
<1>10. ASSUME NEW c \in ConnIds, Drop(c) PROVE HoldInv'
    <2>1. \A w \in Workers: \/ pc'[w] = pc[w] /\ ret'[w] = ret[w]
                            \/ /\ pc[w] # "idle" /\ pc'[w] = "closing"
                               /\ ret'[w] = Fail
        BY <1>10 DEF Drop, Cut
    <2>2. UNCHANGED <<want, left, hold, content, pool>>
        BY <1>10 DEF Drop
    <2> QED BY <1>b, <2>1, <2>2 DEF HoldInv
<1> QED BY <1>1, <1>2, <1>3, <1>4, <1>5, <1>6, <1>7, <1>8, <1>9, <1>10
        DEF Next, Served, Exited, New, Close, Settle, vars

LEMMA IInvariant == SafetySpec => []IInv
<1>1. IInv /\ [Next]_vars => IInv'
    BY TypeStep, HoldStep DEF IInv
<1> QED BY <1>1, IInit, PTL DEF SafetySpec

\* The clients' state is well typed (clientset.go:67-142).
THEOREM ClientsTypeOK == SafetySpec => []TypeOK
<1>1. IInv => TypeOK
    BY DEF IInv
<1> QED BY <1>1, IInvariant, PTL

-----------------------------------------------------------------------------
(* The promise *)

\* What Clients shows of itself as Calls.
Asked == [w \in Workers |-> IF pc[w] = "idle" THEN Idle ELSE want[w]]

Result == [w \in Workers |-> IF pc[w] # "idle" THEN Idle
                             ELSE IF ret[w] = Refused THEN Fail ELSE ret[w]]

LEMMA PromiseInit == Init => Promise!Init
BY DEF Init, Promise!Init, Promise!Idle, Idle, Refused

\* A step that begins and ends no call, and gives no idle worker a result, does
\* not show.
LEMMA Unseen ==
    ASSUME \A w \in Workers: /\ (pc'[w] = "idle") = (pc[w] = "idle")
                             /\ pc[w] # "idle" => want'[w] = want[w]
                             /\ pc[w] = "idle" => ret'[w] = ret[w]
    PROVE  UNCHANGED <<Asked, Result>>
BY DEF Asked, Result

LEMMA PromiseStep ==
    IInv /\ [Next]_vars => [Promise!Next]_<<Asked, Result>>
<1> SUFFICES ASSUME IInv, [Next]_vars
             PROVE  Promise!Next \/ UNCHANGED <<Asked, Result>>
    OBVIOUS
<1> USE DEF cell, workVars, poolVars, connVars, Goto
<1>f. /\ pc \in [Workers -> Pc] /\ want \in [Workers -> 0..MaxLen]
      /\ ret \in [Workers -> Nat \cup {Idle, Fail, Refused}]
    BY DEF IInv, TypeOK
<1>1. CASE UNCHANGED workVars
    BY <1>1, Unseen
<1>2. ASSUME NEW w \in Workers, Begin(w) PROVE Promise!Next
    <2>1. PICK n \in 0..MaxLen: want' = [want EXCEPT ![w] = n]
        BY <1>2 DEF Begin
    <2>2. /\ pc[w] = "idle" /\ pc' = [pc EXCEPT ![w] = "want"]
          /\ ret' = [ret EXCEPT ![w] = Idle]
        BY <1>2 DEF Begin
    <2>3. Asked[w] = Idle /\ Asked' = [Asked EXCEPT ![w] = n]
        BY <1>f, <2>1, <2>2 DEF Asked
    <2>4. Result' = [Result EXCEPT ![w] = Idle]
        BY <1>f, <2>2 DEF Result
    <2>5. Promise!Begin(w)
        BY <2>3, <2>4 DEF Promise!Begin, Promise!Idle, Idle, Asked, Result
    <2> QED BY <2>5 DEF Promise!Next
<1>3. ASSUME NEW w \in Workers,
             Connect(w) \/ Headers(w) \/ Part(w) \/ Eof(w) \/ Break(w)
      PROVE UNCHANGED <<Asked, Result>>
    <2>1. \A v \in Workers: v # w => pc'[v] = pc[v] /\ ret'[v] = ret[v]
        BY <1>f, <1>3 DEF Connect, Headers, Part, Eof, Break
    <2>2. pc[w] # "idle" /\ pc'[w] # "idle" /\ want' = want
        BY <1>f, <1>3 DEF Connect, Headers, Part, Eof, Break
    <2> QED BY <2>1, <2>2, Unseen
<1>4. ASSUME NEW w \in Workers, Deferred(w) PROVE Promise!Next
    <2>1. /\ pc[w] = "closing" /\ pc' = [pc EXCEPT ![w] = "idle"]
          /\ want' = [want EXCEPT ![w] = 0] /\ ret' = ret
        BY <1>4 DEF Deferred
    <2> DEFINE r == IF ret[w] = Refused THEN Fail ELSE ret[w]
    <2>2. r \in {want[w], Fail} /\ want[w] \in Nat
        BY <1>f, <2>1 DEF IInv, HoldInv, Fail, Refused
    <2>3. /\ Asked[w] = want[w] /\ Asked[w] # Idle
          /\ Asked' = [Asked EXCEPT ![w] = Idle]
        <3>1. want[w] # Idle
            BY <2>2 DEF Idle
        <3> QED BY <1>f, <2>1, <3>1 DEF Asked
    <2>4. Result' = [Result EXCEPT ![w] = r]
        BY <1>f, <2>1 DEF Result
    <2> HIDE DEF r
    <2>5. Promise!Return(w)
        BY <2>2, <2>3, <2>4
           DEF Promise!Return, Promise!Idle, Promise!Fail, Idle, Fail, Asked, Result
    <2> QED BY <2>5 DEF Promise!Next
<1>5. ASSUME NEW o \in Objects, Evict(o) PROVE UNCHANGED <<Asked, Result>>
    BY <1>5, Unseen DEF Evict
<1>6. ASSUME NEW c \in ConnIds, Drop(c) PROVE UNCHANGED <<Asked, Result>>
    <2>1. \A w \in Workers: \/ pc'[w] = pc[w] /\ ret'[w] = ret[w]
                            \/ pc[w] # "idle" /\ pc'[w] # "idle"
        BY <1>6 DEF Drop, Cut
    <2>2. want' = want
        BY <1>6 DEF Drop
    <2> QED BY <2>1, <2>2, Unseen
<1> QED BY <1>1, <1>2, <1>3, <1>4, <1>5, <1>6
        DEF Next, Served, Exited, New, Close, Settle, vars

\* Every adapter keeps the promise of Client.Do: an error, or the length of the
\* answer to that call, for any number of workers sharing any number of
\* objects (poseidon.go:31-53, standard.go:27-69, standard_pooled.go:42-79).
THEOREM Refinement == SafetySpec => ImplementsCalls
<1>1. IInv /\ [Next]_vars => [Promise!Next]_<<Asked, Result>>
    BY PromiseStep
<1> QED BY <1>1, IInvariant, PromiseInit, PTL
        DEF SafetySpec, ImplementsCalls, Promise!Spec, Asked, Result

-----------------------------------------------------------------------------
(* Streams *)

\* A worker that still wants a connection has none, and none was refused.
RoomInv ==
    /\ \A w \in Workers: pc[w] \in {"idle", "want"} => conn[w] = 0
    /\ NoRefusedStream

LEMMA RoomInit == Init => RoomInv
BY DEF Init, RoomInv, NoRefusedStream, Idle, Refused

\* The target has room for one more stream of a worker that has none.
LEMMA RoomForOne ==
    ASSUME TypeOK, NEW w \in Workers, conn[w] = 0, NEW c \in ConnIds
    PROVE  Accepts(c)
<1> DEFINE S == {v \in Workers: conn[v] = c}
<1>1. c # 0 /\ lag[c] \in {0, 1}
    BY DEF TypeOK, ConnIds
<1>2. S \subseteq Workers \ {w}
    BY <1>1
<1>3. /\ IsFiniteSet(Workers \ {w}) /\ Cardinality(Workers) \in Nat
      /\ Cardinality(Workers \ {w}) = Cardinality(Workers) - 1
    BY FS_RemoveElement, FS_CardinalityType, ClientsAssumption
<1>4. /\ Cardinality(S) <= Cardinality(Workers \ {w})
      /\ Cardinality(S) \in Nat
    BY <1>2, <1>3, FS_Subset, FS_CardinalityType
<1>5. Cardinality(S) + lag[c] < ServerStreams
    BY <1>1, <1>3, <1>4, StreamsAssumption, ClientsAssumption
<1> QED BY <1>5 DEF Accepts, Load, ServerLimit

LEMMA RoomStep == IInv /\ RoomInv /\ [Next]_vars => RoomInv'
<1> SUFFICES ASSUME IInv, RoomInv, [Next]_vars PROVE RoomInv'
    OBVIOUS
<1> USE DEF RoomInv, NoRefusedStream
<1> USE DEF cell, workVars, poolVars, connVars, Goto
<1>f. /\ pc \in [Workers -> Pc] /\ conn \in [Workers -> ConnIds \cup {0}]
      /\ ret \in [Workers -> Nat \cup {Idle, Fail, Refused}]
    BY DEF IInv, TypeOK
<1>1. CASE UNCHANGED workVars
    BY <1>1
<1>2. ASSUME NEW w \in Workers, Begin(w) PROVE RoomInv'
    BY <1>f, <1>2 DEF Begin, Idle, Refused
<1>3. ASSUME NEW w \in Workers, Connect(w) PROVE RoomInv'
    <2>1. PICK c \in 1..ConnLimit:
              Accepts(c) => /\ conn' = [conn EXCEPT ![w] = c]
                            /\ pc' = [pc EXCEPT ![w] = "sent"] /\ ret' = ret
        BY <1>3 DEF Connect
    <2>2. c \in ConnIds
        BY ConnLimitType, ClientsAssumption DEF ConnIds
    <2>3. conn[w] = 0
        BY <1>3 DEF Connect
    <2>4. Accepts(c)
        BY <2>2, <2>3, RoomForOne DEF IInv
    <2> QED BY <1>f, <2>1, <2>4
<1>4. ASSUME NEW w \in Workers, Headers(w) \/ Part(w) PROVE RoomInv'
    BY <1>f, <1>4 DEF Headers, Part
<1>5. ASSUME NEW w \in Workers, Eof(w) PROVE RoomInv'
    <2>1. Length(w) # Refused
        <3>1. hold[w] \in Objects
            BY <1>5 DEF Eof, IInv, HoldInv, TypeOK
        <3>2. want[w] - left[w] \in Nat
            BY <1>5, ClientsAssumption DEF Eof, IInv, TypeOK
        <3>3. Length(w) \in Nat
            BY <3>1, <3>2 DEF Length, IInv, TypeOK
        <3> QED BY <3>3 DEF Refused
    <2> QED BY <1>f, <1>5, <2>1 DEF Eof
<1>6. ASSUME NEW w \in Workers, Break(w) PROVE RoomInv'
    <2>1. /\ pc' = [pc EXCEPT ![w] = "closing"]
          /\ ret' = [ret EXCEPT ![w] = Fail]
          /\ \A v \in Workers: v # w => conn'[v] = conn[v]
        BY <1>f, <1>6 DEF Break
    <2> QED BY <1>f, <2>1 DEF Fail, Refused
<1>7. ASSUME NEW w \in Workers, Deferred(w) PROVE RoomInv'
    <2>1. /\ pc' = [pc EXCEPT ![w] = "idle"] /\ ret' = ret
          /\ conn' = [conn EXCEPT ![w] = 0]
        <3>1. CASE conn[w] = 0
            BY <1>f, <1>7, <3>1 DEF Deferred, Releases
        <3>2. CASE conn[w] # 0
            BY <1>7, <3>2 DEF Deferred, Releases
        <3> QED BY <3>1, <3>2
    <2> QED BY <1>f, <2>1
<1>8. ASSUME NEW o \in Objects, Evict(o) PROVE RoomInv'
    BY <1>8 DEF Evict
<1>9. ASSUME NEW c \in ConnIds, Drop(c) PROVE RoomInv'
    <2>1. \A w \in Workers:
              /\ \/ pc'[w] = pc[w] /\ ret'[w] = ret[w]
                 \/ pc'[w] = "closing" /\ ret'[w] = Fail
              /\ conn'[w] \in {conn[w], 0}
        BY <1>9 DEF Drop, Cut
    <2> QED BY <2>1 DEF Fail, Refused
<1> QED BY <1>1, <1>2, <1>3, <1>4, <1>5, <1>6, <1>7, <1>8, <1>9
        DEF Next, Served, Exited, New, Close, Settle, vars

\* No stream is refused for being one too many, for any number of connections
\* and any limit of the target's above the number of workers.
THEOREM StreamsAccepted == SafetySpec => []NoRefusedStream
<1>1. RoomInv => NoRefusedStream
    BY DEF RoomInv
<1> QED BY <1>1, IInvariant, RoomInit, RoomStep, PTL DEF SafetySpec

-----------------------------------------------------------------------------

\* The server's first choice among the offers, where it has one or two.
LEMMA FirstChoice ==
    ASSUME NEW p, NEW q, NEW r
    PROVE  /\ NextProtos = <<p>> /\ p \in Offers => Negotiated = p
           /\ NextProtos = <<q, r>> /\ q \in Offers => Negotiated = q
           /\ NextProtos = <<q, r>> /\ q \notin Offers /\ r \in Offers
                => Negotiated = r
<1> DEFINE common == {i \in DOMAIN NextProtos: NextProtos[i] \in Offers}
           first == CHOOSE i \in common: \A j \in common: i <= j
<1>1. common # {} => Negotiated = NextProtos[first]
    BY DEF Negotiated
<1>2. ASSUME NextProtos = <<p>>, p \in Offers PROVE Negotiated = p
    <2>1. common = {1}
        BY <1>2
    <2>2. first = 1
        BY <2>1
    <2> QED BY <1>1, <1>2, <2>1, <2>2
<1>3. ASSUME NextProtos = <<q, r>>, q \in Offers PROVE Negotiated = q
    <2>1. 1 \in common /\ common \subseteq {1, 2}
        BY <1>3
    <2>2. first = 1
        BY <2>1
    <2> QED BY <1>1, <1>3, <2>1, <2>2
<1>4. ASSUME NextProtos = <<q, r>>, q \notin Offers, r \in Offers
      PROVE  Negotiated = r
    <2>1. common = {2}
        BY <1>4
    <2>2. first = 2
        BY <2>1
    <2> QED BY <1>1, <1>4, <2>1, <2>2
<1> QED BY <1>2, <1>3, <1>4

\* The connections of a leg speak the protocol it is named for, in every cell
\* and whatever the listener of H1 and H2 would rather speak
\* (poseidon.go:57-77, standard.go:76-86).
THEOREM LegsKeepTheirProtocol == SafetySpec => []SpeaksItsProtocol
<1>1. TypeOK => SpeaksItsProtocol
    <2> SUFFICES ASSUME TypeOK
                 PROVE  Negotiated = CASE regime = "h1" -> "http/1.1"
                                       [] regime = "h3" -> "h3"
                                       [] OTHER -> "h2"
        BY DEF SpeaksItsProtocol
    <2>1. CASE regime = "h1"
        BY <2>1, FirstChoice DEF NextProtos, Offers, H1Dialer
    <2>2. CASE regime = "h3"
        BY <2>2, FirstChoice DEF NextProtos, Offers
    <2>3. CASE regime = "h2" \/ regime = "grpc"
        BY <2>3, FirstChoice DEF NextProtos, Offers
    <2> QED BY <2>1, <2>2, <2>3 DEF TypeOK, Regimes
<1> QED BY <1>1, IInvariant, PTL DEF IInv
=============================================================================
