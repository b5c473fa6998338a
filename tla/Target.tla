------------------------------- MODULE Target -------------------------------
(***************************************************************************)
(* cmd/target/main.go: the process that answers the driver.  Four          *)
(* listeners are started side by side, each may fail and is then only      *)
(* logged; a signal starts the drain, which shuts them one after the       *)
(* other: two under one budget of ten seconds, the QUIC server at once,    *)
(* the gRPC server when its last call has ended.  With main the process    *)
(* ends, and every call that is left.                                      *)
(*                                                                         *)
(* The servers are external: Shutdown stops the listener, closes what is   *)
(* idle and returns when no connection it knows of is in use or the budget *)
(* is spent; Close cuts what is in use; GracefulStop tells every client to *)
(* go and waits for the calls that were begun.  A connection that h2c took *)
(* over is none that Shutdown knows of (main.go:77).  grpc-go hands every  *)
(* message to the codec in a buffer it uses again (rawgrpc.go:50).         *)
(***************************************************************************)
EXTENDS Integers, FiniteSets

CONSTANTS Slots,        \* bound: calls in hand at a time
          Bodies,       \* what a gRPC call may carry
          Malformed,    \* those of them that are no JSON body
          NoBody,
          Budget,       \* ticks the two Shutdowns share: ten seconds
          Grace         \* ticks after which Shutdown takes a connection that
                        \* never sent anything for an idle one: five seconds

\* What a handler holds when it does not hold a copy: the buffer itself.
Alias == "alias"

ASSUME TargetAssumption ==
    /\ Budget \in Nat /\ Grace \in Nat
    /\ NoBody \notin Bodies /\ Alias \notin Bodies
    /\ Malformed \subseteq Bodies

VARIABLES leg,          \* per leg: starting, listening, failed, shut
          main,         \* where main is: run, the leg it drains, exit
          budget,       \* ticks left in shutCtx
          call,         \* per slot: none, conn (nothing read yet), begun (a
                        \* stream without its message), open, done, refused,
                        \* cut
          on,           \* per slot: the leg of its connection, or h2c
          age,          \* per slot: ticks it has been a new connection
          body,         \* per gRPC call: what its client sent
          req,          \* per gRPC call: what its handler holds
          echo,         \* per gRPC call: what it is answered
          buffer        \* grpc-go's read buffer

callVars == <<call, on, age, body, req, echo, buffer>>
vars == <<leg, main, budget, callVars>>

\* The drain's order.
Legs == {"plain", "tls", "h3", "grpc"}

\* A connection of the cleartext leg that turned out to be HTTP/2 is hijacked.
Homes == Legs \cup {"h2c"}

Calls == {"none", "conn", "begun", "open", "done", "refused", "cut"}

\* Where main goes from each leg it drains.
After == [run |-> "plain", plain |-> "tls", tls |-> "h3", h3 |-> "grpc",
          grpc |-> "exit"]

TypeOK ==
    /\ leg \in [Legs -> {"starting", "listening", "failed", "shut"}]
    /\ main \in {"run", "exit"} \cup Legs
    /\ budget \in 0..Budget
    /\ call \in [Slots -> Calls] /\ on \in [Slots -> Homes]
    /\ age \in [Slots -> 0..Grace]
    /\ body \in [Slots -> Bodies \cup {NoBody}]
    /\ req \in [Slots -> Bodies \cup {NoBody, Alias}]
    /\ echo \in [Slots -> Bodies \cup {NoBody}]
    /\ buffer \in Bodies \cup {NoBody}

Init ==
    /\ leg = [l \in Legs |-> "starting"]
    /\ main = "run"
    /\ budget = Budget
    /\ call = [k \in Slots |-> "none"]
    /\ on = [k \in Slots |-> "plain"] /\ age = [k \in Slots |-> 0]
    /\ body = [k \in Slots |-> NoBody] /\ req = [k \in Slots |-> NoBody]
    /\ echo = [k \in Slots |-> NoBody] /\ buffer = NoBody

-----------------------------------------------------------------------------
(* The listeners, serve *)

\* ListenAndServe has its socket; a server that was shut before never listens.
Listen(l) ==
    /\ main # "exit" /\ leg[l] = "starting"
    /\ leg' = [leg EXCEPT ![l] = "listening"]
    /\ UNCHANGED <<main, budget, callVars>>

\* The address is taken, or Accept fails: the error is logged and the others
\* go on, as do the leg's own connections.
ListenFails(l) ==
    /\ main # "exit" /\ leg[l] \in {"starting", "listening"}
    /\ leg' = [leg EXCEPT ![l] = "failed"]
    /\ UNCHANGED <<main, budget, callVars>>

-----------------------------------------------------------------------------
(* A call *)

InUse(k) == call[k] \in {"conn", "begun", "open"}

\* A call that the client has begun.
InHand(k) == call[k] \in {"begun", "open"}

\* k is taken for a connection on l, in state c.
Starts(k, l, c) ==
    /\ ~InUse(k)
    /\ call' = [call EXCEPT ![k] = c] /\ on' = [on EXCEPT ![k] = l]
    /\ age' = [age EXCEPT ![k] = 0]
    /\ body' = [body EXCEPT ![k] = NoBody] /\ req' = [req EXCEPT ![k] = NoBody]
    /\ echo' = [echo EXCEPT ![k] = NoBody]
    /\ UNCHANGED <<leg, main, budget, buffer>>

\* A connection; its request has yet to arrive.
Accept(k, l) ==
    /\ main # "exit" /\ leg[l] = "listening"
    /\ Starts(k, l, "conn")

\* A hijacked connection carries another request, whatever became of its leg.
NextStream(k) ==
    /\ main # "exit"
    /\ \E j \in Slots: on[j] = "h2c" /\ call[j] \in {"open", "done"}
    /\ Starts(k, "h2c", "open")

\* k's call comes to state c, on a connection of home h.
Becomes(k, c, h) ==
    /\ call' = [call EXCEPT ![k] = c] /\ on' = [on EXCEPT ![k] = h]
    /\ age' = [age EXCEPT ![k] = 0]
    /\ UNCHANGED <<leg, main, budget>>

\* h2c.NewHandler takes over a cleartext connection that speaks HTTP/2.
HomesOf(l) == IF l = "plain" THEN {"plain", "h2c"} ELSE {l}

\* The request is read.
Request(k) ==
    /\ main # "exit" /\ call[k] = "conn" /\ on[k] # "grpc"
    /\ \E h \in HomesOf(on[k]): Becomes(k, "open", h)
    /\ UNCHANGED <<body, req, echo, buffer>>

\* The headers of a gRPC call; its handler waits for the message in dec.
Begin(k) ==
    /\ main # "exit" /\ call[k] = "conn" /\ on[k] = "grpc"
    /\ Becomes(k, "begun", "grpc")
    /\ UNCHANGED <<body, req, echo, buffer>>

\* Mutant: Unmarshal keeps the slice it is given.
UnmarshalAlias(b) == Alias

\* Codec.Unmarshal: *b = append((*b)[:0], data...)
Unmarshal(b) == b

\* Its message, through the read buffer: dec returns.
Message(k, b) ==
    /\ main # "exit" /\ call[k] = "begun"
    /\ Becomes(k, "open", "grpc")
    /\ body' = [body EXCEPT ![k] = b]
    /\ req' = [req EXCEPT ![k] = Unmarshal(b)]
    /\ buffer' = b
    /\ UNCHANGED echo

\* The client goes away anywhere, or never gets its headers done in time.
Hangup(k) ==
    /\ main # "exit" /\ InUse(k)
    /\ Becomes(k, "none", on[k])
    /\ UNCHANGED <<body, req, echo, buffer>>

\* What the handler finds in the request.
Found(k) == IF req[k] = Alias THEN buffer ELSE req[k]

\* The handler answers with the items of the request, or with an error if a
\* gRPC message is no JSON body.
Answer(k) ==
    /\ main # "exit" /\ call[k] = "open"
    /\ \/ /\ on[k] = "grpc" /\ Found(k) \in Malformed
          /\ Becomes(k, "refused", on[k])
          /\ UNCHANGED echo
       \/ /\ on[k] = "grpc" => Found(k) \notin Malformed
          /\ Becomes(k, "done", on[k])
          /\ echo' = [echo EXCEPT ![k] = Found(k)]
    /\ UNCHANGED <<body, req, buffer>>

-----------------------------------------------------------------------------
(* main: the signal, and the drain *)

\* Whether l's server knows of a connection in use.
Busy(l) == \E k \in Slots: InUse(k) /\ on[k] = l

\* Shutdown polls its connections and closes the idle ones; one on which
\* nothing was read counts as idle when it is five seconds old.
CloseIdle(k) ==
    /\ main \in {"plain", "tls"} /\ on[k] = main
    /\ call[k] = "conn" /\ age[k] = Grace
    /\ Becomes(k, "none", on[k])
    /\ UNCHANGED <<body, req, echo, buffer>>

\* Mutant: Shutdown without a deadline.
ShutdownUnbounded(l) == ~Busy(l)

\* Shutdown(shutCtx) returns.
ShutdownReturns(l) == ~Busy(l) \/ budget = 0

\* GracefulStop lets a connection go on which no call was begun; until it has,
\* one may begin.
GoAway(k) ==
    /\ main = "grpc" /\ on[k] = "grpc" /\ call[k] = "conn"
    /\ Becomes(k, "none", on[k])
    /\ UNCHANGED <<body, req, echo, buffer>>

\* Mutant: Stop in the place of GracefulStop.
GracefulStopAtOnce == TRUE

\* It waits for every connection to go, and with it for every call begun: for
\* a stream whose message is not sent, as long as its client stays.
GracefulStopReturns == ~Busy("grpc")

\* The leg that main is at lets it go on; before the drain, a signal does.
Done == CASE main = "run" -> TRUE
          [] main \in {"plain", "tls"} -> ShutdownReturns(main)
          [] main = "h3" -> TRUE
          [] main = "grpc" -> GracefulStopReturns

\* What becomes of k when main comes to l: h3Srv.Close and the end of the
\* process cut the calls in hand and take the other connections away.
Fate(k, l) ==
    IF InUse(k) /\ (l = "exit" \/ (l = "h3" /\ on[k] = "h3"))
    THEN IF InHand(k) THEN "cut" ELSE "none"
    ELSE call[k]

\* Main goes on to the next leg and shuts its listener, or returns.
Drain ==
    /\ main # "exit" /\ Done
    /\ LET l == After[main]
       IN /\ main' = l
          /\ leg' = [m \in Legs |-> IF m = l THEN "shut" ELSE leg[m]]
          /\ call' = [k \in Slots |-> Fate(k, l)]
    /\ age' = [k \in Slots |-> IF call'[k] = "conn" THEN age[k] ELSE 0]
    /\ UNCHANGED <<budget, on, body, req, echo, buffer>>

\* Time passes: for the deadline, once it is set, and for new connections.
Tick ==
    /\ main # "exit"
    /\ budget' = IF main \in {"plain", "tls"} /\ budget > 0 THEN budget - 1
                                                         ELSE budget
    /\ age' = [k \in Slots |->
                 IF call[k] = "conn" /\ on[k] \in {"plain", "tls"} /\ age[k] < Grace
                 THEN age[k] + 1 ELSE age[k]]
    /\ UNCHANGED <<leg, main, call, on, body, req, echo, buffer>>

-----------------------------------------------------------------------------
Exited == main = "exit" /\ UNCHANGED vars

Next == \/ \E l \in Legs: Listen(l) \/ ListenFails(l)
        \/ \E k \in Slots: \/ \E l \in Legs: Accept(k, l)
                           \/ \E b \in Bodies: Message(k, b)
                           \/ NextStream(k) \/ Request(k) \/ Begin(k)
                           \/ Hangup(k) \/ Answer(k)
                           \/ CloseIdle(k) \/ GoAway(k)
        \/ Drain \/ Tick \/ Exited

SafetySpec == Init /\ [][Next]_vars

\* A drain runs on, time passes in it, a handler that has its message answers,
\* and GracefulStop gets rid of the connections without a call.  No client is
\* asked to do anything, a call on another leg may take for ever, and a signal
\* need not come.
Fairness ==
    /\ WF_vars(main # "run" /\ Drain)
    /\ WF_vars(Tick)
    /\ \A k \in Slots: WF_vars(on[k] = "grpc" /\ Answer(k)) /\ WF_vars(GoAway(k))

Spec == SafetySpec /\ Fairness

-----------------------------------------------------------------------------
(* Properties *)

\* A drain cuts no gRPC call, and an H1 or H2 call over TLS, or an H1 call over
\* cleartext, only when the ten seconds that the two Shutdowns share are spent,
\* whatever was accepted while another leg was being drained.  Cut out of hand
\* are QUIC calls, and what h2c took over from the cleartext server, though not
\* before the process ends.  A listener's failure cuts nothing
\* (main.go:77, 124-131, 147-153).
CutOnlyOutOfTime ==
    \A k \in Slots:
        call[k] = "cut" => \/ on[k] = "h3"
                           \/ on[k] = "h2c" /\ main = "exit"
                           \/ on[k] \in {"plain", "tls"} /\ budget = 0

\* A gRPC call is answered with its own items, or refused because its own
\* message is no JSON body, although the next message is read into the same
\* buffer before its handler has looked at the request (rawgrpc.go:45-53,
\* main.go:116-122).
EchoesOwn ==
    \A k \in Slots: on[k] = "grpc" =>
        /\ call[k] = "done" => echo[k] = body[k] /\ body[k] \notin Malformed
        /\ call[k] = "refused" => body[k] \in Malformed

\* A gRPC stream whose client has not sent its message.
HalfSent(k) == call[k] = "begun" /\ on[k] = "grpc"

\* Once begun the drain ends, although calls on the other legs may never do and
\* any listener may have failed, unless a gRPC client leaves a stream half sent
\* for ever: that is the one thing GracefulStop, which has no deadline, waits
\* for and nothing here brings about (main.go:144-153, rawgrpc.go:74).
DrainEnds ==
    (\A k \in Slots: []<>~HalfSent(k)) => (main # "run" ~> main = "exit")
=============================================================================
