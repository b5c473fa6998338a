---------------------------- MODULE TargetProofs ----------------------------
(***************************************************************************)
(* Proofs about Target, for any number of calls in hand, any messages and  *)
(* any budget: it is well typed, a drain cuts only what it may, and a gRPC *)
(* call is answered with its own message.                                  *)
(***************************************************************************)
EXTENDS Target, TLAPS

LEMMA TypeInit == Init => TypeOK
BY TargetAssumption DEF Init, TypeOK, Legs, Homes, Calls

\* What a step of one call may change.
LEMMA BecomesType ==
    ASSUME TypeOK, NEW k \in Slots, NEW c \in Calls, NEW h \in Homes,
           Becomes(k, c, h)
    PROVE  /\ call' \in [Slots -> Calls] /\ on' \in [Slots -> Homes]
           /\ age' \in [Slots -> 0..Grace]
           /\ UNCHANGED <<leg, main, budget>>
<1>1. 0 \in 0..Grace
    BY TargetAssumption
<1> QED BY <1>1 DEF TypeOK, Becomes

LEMMA StartsType ==
    ASSUME TypeOK, NEW k \in Slots, NEW l \in Homes, NEW c \in Calls,
           Starts(k, l, c)
    PROVE  TypeOK'
<1>1. 0 \in 0..Grace
    BY TargetAssumption
<1> QED BY <1>1 DEF TypeOK, Starts

LEMMA TypeStep == TypeOK /\ [Next]_vars => TypeOK'
<1> SUFFICES ASSUME TypeOK, [Next]_vars PROVE TypeOK'
    OBVIOUS
<1> USE DEF TypeOK
<1>0. Legs \subseteq Homes /\ "h2c" \in Homes /\ "grpc" \in Homes
    BY DEF Homes, Legs
<1>1. ASSUME NEW l \in Legs, Listen(l) PROVE TypeOK'
    BY <1>1 DEF Listen, callVars
<1>2. ASSUME NEW l \in Legs, ListenFails(l) PROVE TypeOK'
    BY <1>2 DEF ListenFails, callVars
<1>3. ASSUME NEW k \in Slots, NEW l \in Legs, Accept(k, l) PROVE TypeOK'
    <2>1. Starts(k, l, "conn") /\ "conn" \in Calls
        BY <1>3 DEF Accept, Calls
    <2> QED BY <1>0, <2>1, StartsType
<1>4. ASSUME NEW k \in Slots, NextStream(k) PROVE TypeOK'
    <2>1. Starts(k, "h2c", "open") /\ "open" \in Calls
        BY <1>4 DEF NextStream, Calls
    <2> QED BY <1>0, <2>1, StartsType
<1>5. ASSUME NEW k \in Slots,
             Request(k) \/ Begin(k) \/ Hangup(k) \/ CloseIdle(k) \/ GoAway(k)
      PROVE TypeOK'
    <2>1. PICK c \in Calls, h \in Homes: Becomes(k, c, h)
        BY <1>0, <1>5
           DEF Request, Begin, Hangup, CloseIdle, GoAway, Calls, HomesOf
    <2>2. UNCHANGED <<body, req, echo, buffer>>
        BY <1>5 DEF Request, Begin, Hangup, CloseIdle, GoAway
    <2> QED BY <2>1, <2>2, BecomesType
<1>6. ASSUME NEW k \in Slots, NEW b \in Bodies, Message(k, b) PROVE TypeOK'
    <2>1. Becomes(k, "open", "grpc") /\ "open" \in Calls
        BY <1>6 DEF Message, Calls
    <2>2. /\ body' = [body EXCEPT ![k] = b] /\ req' = [req EXCEPT ![k] = b]
          /\ buffer' = b /\ UNCHANGED echo
        BY <1>6 DEF Message, Unmarshal
    <2> QED BY <1>0, <2>1, <2>2, BecomesType
<1>7. ASSUME NEW k \in Slots, Answer(k) PROVE TypeOK'
    <2>1. Found(k) \in Bodies \cup {NoBody}
        BY DEF Found
    <2>2. PICK c \in Calls: Becomes(k, c, on[k])
        BY <1>7 DEF Answer, Calls
    <2>3. echo' \in [Slots -> Bodies \cup {NoBody}]
        BY <1>7, <2>1 DEF Answer
    <2>4. UNCHANGED <<body, req, buffer>>
        BY <1>7 DEF Answer
    <2> QED BY <2>2, <2>3, <2>4, BecomesType
<1>8. CASE Drain
    <2>1. After[main] \in {"exit"} \cup Legs
        BY <1>8 DEF Drain, After, Legs
    <2>2. \A k \in Slots: Fate(k, After[main]) \in Calls
        BY DEF Fate, Calls
    <2>3. 0 \in 0..Grace
        BY TargetAssumption
    <2> QED BY <1>8, <2>1, <2>2, <2>3 DEF Drain
<1>9. CASE Tick
    <2>1. budget' \in 0..Budget
        BY <1>9, TargetAssumption DEF Tick
    <2>2. \A k \in Slots: age[k] < Grace => age[k] + 1 \in 0..Grace
        BY TargetAssumption
    <2>3. age' \in [Slots -> 0..Grace]
        BY <1>9, <2>2 DEF Tick
    <2> QED BY <1>9, <2>1, <2>3 DEF Tick
<1>10. CASE UNCHANGED vars
    BY <1>10 DEF vars, callVars
<1> QED BY <1>1, <1>2, <1>3, <1>4, <1>5, <1>6, <1>7, <1>8, <1>9, <1>10
        DEF Next, Exited

\* The target's state is well typed (main.go:47-153).
THEOREM TargetTypeOK == SafetySpec => []TypeOK
BY TypeInit, TypeStep, PTL DEF SafetySpec

-----------------------------------------------------------------------------
(* The drain *)

\* Whether main has come as far as leg l, and whether it has left it.
Reached(l) == CASE l = "plain" -> main # "run"
                [] l = "tls" -> main \notin {"run", "plain"}
                [] l = "h3" -> main \in {"h3", "grpc", "exit"}
                [] l = "grpc" -> main \in {"grpc", "exit"}

Left(l) == CASE l = "plain" -> main \in {"tls", "h3", "grpc", "exit"}
             [] l = "tls" -> main \in {"h3", "grpc", "exit"}
             [] OTHER -> FALSE

\* What DrainInv says of one call: of the two legs under the budget, one that
\* main has left has connections only if the budget is spent.
Within(k) ==
    /\ InUse(k) /\ on[k] \in {"plain", "tls"} /\ Left(on[k]) => budget = 0
    /\ call[k] = "cut" => \/ on[k] = "h3"
                          \/ on[k] = "h2c" /\ main = "exit"
                          \/ on[k] \in {"plain", "tls"} /\ budget = 0

\* A leg that main has reached accepts no more.
DrainInv == /\ \A l \in Legs: Reached(l) => leg[l] = "shut"
            /\ \A k \in Slots: Within(k)

\* A step that leaves main and the legs alone and moves one call to a state
\* that needs no more of its home than the one before.
LEMMA OneCall ==
    ASSUME TypeOK, DrainInv, NEW k \in Slots, NEW c \in Calls \ {"cut"},
           NEW h \in Homes,
           call' = [call EXCEPT ![k] = c], on' = [on EXCEPT ![k] = h],
           UNCHANGED <<leg, main, budget>>,
           c \in {"conn", "begun", "open"} /\ h \in {"plain", "tls"} =>
               (Left(h) => budget = 0)
    PROVE  DrainInv'
<1>1. ASSUME NEW j \in Slots PROVE Within(j)'
    <2>1. CASE j = k
        BY <2>1 DEF TypeOK, Within, InUse, Left
    <2>2. CASE j # k
        BY <2>2 DEF TypeOK, DrainInv, Within, InUse, Left
    <2> QED BY <2>1, <2>2
<1> QED BY <1>1 DEF DrainInv, Reached

LEMMA DrainStep == TypeOK /\ DrainInv /\ Drain => DrainInv'
<1> SUFFICES ASSUME TypeOK, DrainInv, Drain PROVE DrainInv'
    OBVIOUS
<1> USE DEF TypeOK, DrainInv
<1> DEFINE l == After[main]
           From(f, t) == main = f /\ main' = t
<1>1. /\ main # "exit" /\ Done /\ main' = l
      /\ leg' = [m \in Legs |-> IF m = l THEN "shut" ELSE leg[m]]
      /\ call' = [k \in Slots |-> Fate(k, l)]
      /\ UNCHANGED <<budget, on>>
    BY DEF Drain
<1>2. \/ From("run", "plain") \/ From("plain", "tls") \/ From("tls", "h3")
      \/ From("h3", "grpc") \/ From("grpc", "exit")
    BY <1>1 DEF After, Legs
<1>3. \A m \in Legs: Reached(m)' => leg'[m] = "shut"
    <2>1. ASSUME NEW m \in Legs, Reached(m)' PROVE Reached(m) \/ m = l
        BY <1>1, <1>2, <2>1 DEF Reached, Legs
    <2> QED BY <1>1, <2>1
<1>4. ASSUME NEW k \in Slots PROVE Within(k)'
    <2>1. InUse(k) /\ on[k] = main /\ main \in {"plain", "tls"} => budget = 0
        BY <1>1 DEF Done, ShutdownReturns, Busy
    <2>2. InUse(k) /\ on[k] = "grpc" => main # "grpc"
        BY <1>1 DEF Done, GracefulStopReturns, Busy
    <2>3. call'[k] = Fate(k, l) /\ on'[k] = on[k]
        BY <1>1
    <2>4. InUse(k)' => InUse(k)
        BY <2>3 DEF Fate, InUse
    <2>5. on[k] \in {"plain", "tls"} /\ Left(on[k])' => Left(on[k]) \/ on[k] = main
        BY <1>1, <1>2, <2>3 DEF Left
    <2>6. call'[k] = "cut" =>
              \/ call[k] = "cut"
              \/ InUse(k) /\ l = "exit"
              \/ on[k] = "h3"
        BY <2>3 DEF Fate
    <2>7. l = "exit" => main = "grpc"
        BY <1>1, <1>2
    <2>8. main = "grpc" => Left("plain") /\ Left("tls")
        BY DEF Left
    <2>9. InUse(k)' /\ on'[k] \in {"plain", "tls"} /\ Left(on[k])'
                 => budget' = 0
        BY <1>1, <2>1, <2>3, <2>4, <2>5 DEF Within
    <2>10. CASE call[k] = "cut" /\ call'[k] = "cut"
        BY <1>1, <2>3, <2>9, <2>10 DEF Within
    <2>11. CASE InUse(k) /\ l = "exit" /\ call'[k] = "cut"
        <3>1. on[k] # "grpc" /\ main = "grpc"
            BY <2>2, <2>7, <2>11
        <3>2. on[k] \in {"plain", "tls"} => budget = 0
            BY <2>8, <2>11, <3>1 DEF Within
        <3>3. on[k] \in {"h3", "h2c", "plain", "tls"}
            BY <3>1 DEF Homes, Legs
        <3>4. main' = "exit" /\ budget' = budget
            BY <1>1, <2>11
        <3>5. \/ on'[k] = "h3"
              \/ on'[k] = "h2c" /\ main' = "exit"
              \/ on'[k] \in {"plain", "tls"} /\ budget' = 0
            BY <2>3, <3>2, <3>3, <3>4
        <3> QED BY <2>9, <3>5 DEF Within
    <2> QED BY <2>3, <2>6, <2>9, <2>10, <2>11 DEF Within
<1> QED BY <1>3, <1>4

LEMMA DrainInvStep == TypeOK /\ DrainInv /\ [Next]_vars => DrainInv'
<1> SUFFICES ASSUME TypeOK, DrainInv, [Next]_vars PROVE DrainInv'
    OBVIOUS
<1>0. Legs \subseteq Homes /\ "h2c" \in Homes /\ "grpc" \in Homes
    BY DEF Homes, Legs
<1>1. ASSUME NEW l \in Legs, Listen(l) \/ ListenFails(l) PROVE DrainInv'
    <2>1. UNCHANGED <<main, budget, call, on>>
        BY <1>1 DEF Listen, ListenFails, callVars
    <2>2. \A m \in Legs: leg[m] = "shut" => leg'[m] = "shut"
        BY <1>1 DEF Listen, ListenFails, TypeOK
    <2>3. \A k \in Slots: Within(k)'
        BY <2>1 DEF DrainInv, Within, InUse, Left
    <2> QED BY <2>1, <2>2, <2>3 DEF DrainInv, Reached
<1>2. ASSUME NEW k \in Slots, NEW l \in Legs, Accept(k, l) PROVE DrainInv'
    <2>1. ~Left(l)
        BY <1>2 DEF Accept, DrainInv, Reached, Left, Legs
    <2>2. /\ call' = [call EXCEPT ![k] = "conn"] /\ on' = [on EXCEPT ![k] = l]
          /\ UNCHANGED <<leg, main, budget>>
        BY <1>2 DEF Accept, Starts
    <2>3. "conn" \in Calls \ {"cut"} /\ l \in Homes
        BY <1>0 DEF Calls
    <2> QED BY <2>1, <2>2, <2>3, OneCall
<1>3. ASSUME NEW k \in Slots, NextStream(k) PROVE DrainInv'
    <2>1. /\ call' = [call EXCEPT ![k] = "open"] /\ on' = [on EXCEPT ![k] = "h2c"]
          /\ UNCHANGED <<leg, main, budget>>
        BY <1>3 DEF NextStream, Starts
    <2>2. "open" \in Calls \ {"cut"}
        BY DEF Calls
    <2> QED BY <1>0, <2>1, <2>2, OneCall
<1>4. ASSUME NEW k \in Slots,
             \/ Request(k) \/ Begin(k) \/ (\E b \in Bodies: Message(k, b))
             \/ Hangup(k) \/ Answer(k) \/ CloseIdle(k) \/ GoAway(k)
      PROVE DrainInv'
    <2>1. PICK c \in Calls \ {"cut"}, h \in Homes:
              /\ Becomes(k, c, h)
              /\ h \in {"plain", "tls"} => h = on[k]
        BY <1>0, <1>4
           DEF Request, Begin, Message, Hangup, Answer, CloseIdle, GoAway, Calls,
               HomesOf, TypeOK
    <2>2. InUse(k)
        BY <1>4 DEF Request, Begin, Message, Hangup, Answer, CloseIdle, GoAway,
                    InUse
    <2>3. /\ call' = [call EXCEPT ![k] = c] /\ on' = [on EXCEPT ![k] = h]
          /\ UNCHANGED <<leg, main, budget>>
        BY <2>1 DEF Becomes
    <2>4. h \in {"plain", "tls"} => (Left(h) => budget = 0)
        BY <2>1, <2>2 DEF DrainInv, Within
    <2> QED BY <2>3, <2>4, OneCall
<1>5. CASE Drain
    BY <1>5, DrainStep
<1>6. CASE Tick
    <2>1. /\ UNCHANGED <<leg, main, call, on>>
          /\ budget = 0 => budget' = 0
        BY <1>6 DEF Tick
    <2>2. \A k \in Slots: Within(k)'
        BY <2>1 DEF DrainInv, Within, InUse, Left
    <2> QED BY <2>1, <2>2 DEF DrainInv, Reached
<1>7. CASE UNCHANGED vars
    BY <1>7 DEF vars, callVars, DrainInv, Within, InUse, Reached, Left
<1> QED BY <1>1, <1>2, <1>3, <1>4, <1>5, <1>6, <1>7 DEF Next, Exited

\* A drain cuts gRPC calls never, H1 and H2 calls that the servers know of only
\* when its ten seconds are spent, and hijacked ones only with the process, for
\* any number of calls and any length of the budget.
THEOREM DrainCuts == SafetySpec => []CutOnlyOutOfTime
<1>1. Init => DrainInv
    BY DEF Init, DrainInv, Within, Reached, InUse, Legs
<1>2. SafetySpec => []DrainInv
    BY <1>1, TargetTypeOK, DrainInvStep, PTL DEF SafetySpec
<1>3. DrainInv => CutOnlyOutOfTime
    BY DEF DrainInv, Within, CutOnlyOutOfTime
<1> QED BY <1>2, <1>3, PTL

-----------------------------------------------------------------------------
(* The codec *)

\* An open gRPC call's handler holds what its client sent, and an answered one
\* has echoed it.
Echoed(k) ==
    on[k] = "grpc" =>
        /\ call[k] = "open" => body[k] \in Bodies /\ req[k] = body[k]
        /\ call[k] = "done" => echo[k] = body[k] /\ body[k] \notin Malformed
        /\ call[k] = "refused" => body[k] \in Malformed

EchoInv == \A k \in Slots: Echoed(k)

\* A step of one call is a matter of that call.
LEMMA OneEcho ==
    ASSUME TypeOK, EchoInv, NEW k \in Slots,
           \A j \in Slots \ {k}:
               UNCHANGED <<call[j], on[j], body[j], req[j], echo[j]>>,
           Echoed(k)'
    PROVE  EchoInv'
BY DEF EchoInv, Echoed

LEMMA EchoInvStep == TypeOK /\ EchoInv /\ [Next]_vars => EchoInv'
<1> SUFFICES ASSUME TypeOK, EchoInv, [Next]_vars PROVE EchoInv'
    OBVIOUS
<1> USE DEF TypeOK
<1>1. ASSUME NEW l \in Legs, Listen(l) \/ ListenFails(l) PROVE EchoInv'
    BY <1>1 DEF Listen, ListenFails, callVars, EchoInv, Echoed
<1>2. ASSUME NEW k \in Slots, NEW l \in Legs, Accept(k, l) PROVE EchoInv'
    BY <1>2, OneEcho DEF Accept, Starts, Echoed
<1>3. ASSUME NEW k \in Slots, NextStream(k) PROVE EchoInv'
    BY <1>3, OneEcho DEF NextStream, Starts, Echoed
<1>4. ASSUME NEW k \in Slots, Request(k) PROVE EchoInv'
    <2>1. on'[k] # "grpc"
        BY <1>4 DEF Request, Becomes, HomesOf
    <2> QED BY <1>4, <2>1, OneEcho DEF Request, Becomes, Echoed
<1>5. ASSUME NEW k \in Slots, Begin(k) \/ Hangup(k) \/ CloseIdle(k) \/ GoAway(k)
      PROVE EchoInv'
    <2>1. call'[k] \in {"begun", "none"}
        BY <1>5 DEF Begin, Hangup, CloseIdle, GoAway, Becomes
    <2>2. \A j \in Slots \ {k}:
              UNCHANGED <<call[j], on[j], body[j], req[j], echo[j]>>
        BY <1>5 DEF Begin, Hangup, CloseIdle, GoAway, Becomes
    <2> QED BY <2>1, <2>2, OneEcho DEF Echoed
<1>6. ASSUME NEW k \in Slots, NEW b \in Bodies, Message(k, b) PROVE EchoInv'
    <2>1. /\ call' = [call EXCEPT ![k] = "open"] /\ on' = [on EXCEPT ![k] = "grpc"]
          /\ body' = [body EXCEPT ![k] = b] /\ req' = [req EXCEPT ![k] = b]
          /\ UNCHANGED echo
        BY <1>6 DEF Message, Becomes, Unmarshal
    <2>2. Echoed(k)'
        BY <2>1 DEF Echoed
    <2> QED BY <2>1, <2>2, OneEcho
<1>7. ASSUME NEW k \in Slots, Answer(k) PROVE EchoInv'
    <2>1. on[k] = "grpc" => Found(k) = body[k]
        BY <1>7, TargetAssumption DEF Answer, Found, EchoInv, Echoed
    <2>2. /\ UNCHANGED <<on, body, req>>
          /\ \A j \in Slots \ {k}: UNCHANGED <<call[j], echo[j]>>
        BY <1>7 DEF Answer, Becomes
    <2>3. Echoed(k)'
        BY <1>7, <2>1, <2>2 DEF Answer, Becomes, Echoed
    <2> QED BY <2>2, <2>3, OneEcho
<1>8. CASE Drain
    <2>1. \A k \in Slots: call'[k] \in {"open", "done", "refused"} =>
                              call'[k] = call[k]
        BY <1>8 DEF Drain, Fate
    <2>2. UNCHANGED <<on, body, req, echo>>
        BY <1>8 DEF Drain
    <2> QED BY <2>1, <2>2 DEF EchoInv, Echoed
<1>9. CASE Tick
    BY <1>9 DEF Tick, EchoInv, Echoed
<1>10. CASE UNCHANGED vars
    BY <1>10 DEF vars, callVars, EchoInv, Echoed
<1> QED BY <1>1, <1>2, <1>3, <1>4, <1>5, <1>6, <1>7, <1>8, <1>9, <1>10
        DEF Next, Exited

\* A gRPC call is answered with its own message, and refused only for its own,
\* whatever else was read into the buffer meanwhile, for any number of calls and
\* any messages.
THEOREM Echo == SafetySpec => []EchoesOwn
<1>1. Init => EchoInv
    BY DEF Init, EchoInv, Echoed
<1>2. SafetySpec => []EchoInv
    BY <1>1, TargetTypeOK, EchoInvStep, PTL DEF SafetySpec
<1>3. EchoInv => EchoesOwn
    BY DEF EchoInv, Echoed, EchoesOwn
<1> QED BY <1>2, <1>3, PTL
=============================================================================
