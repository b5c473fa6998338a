------------------------------ MODULE Clients -------------------------------
(***************************************************************************)
(* internal/clientset: the adapters behind Client.Do, one per cell of the  *)
(* matrix, each called by all workers at once.                             *)
(*                                                                         *)
(*   response   poseidonHTTP    a Response out of a sync.Pool, filled by   *)
(*                              c.Do, put back by a deferred call          *)
(*   fresh      stdHTTP         io.ReadAll into a buffer of its own        *)
(*   buffer     stdHTTPPooled   a bytes.Buffer out of a sync.Pool, taken   *)
(*                              once the headers are there                 *)
(*   message    both gRPC arms  Invoke returns the message                 *)
(*                                                                         *)
(* The libraries beneath are external: connections come and go within the  *)
(* limits the constructors set, a call may fail anywhere, a body arrives   *)
(* in parts, and a sync.Pool hands out any of its objects or none.  On the *)
(* H2 leg the target counts streams itself, and counts one as open for a   *)
(* moment after the client has seen it end (target/main.go:88-93).         *)
(***************************************************************************)
EXTENDS Integers, FiniteSets

CONSTANTS Workers,
          Objects,          \* identities for Responses and buffers
          NoObject,
          Conns,            \* Config.Conns
          MaxStreams,       \* Config.MaxStreamsPerConn
          ServerStreams,    \* the target's MaxConcurrentStreams on H2
          MaxLen            \* bound: parts in a body

ASSUME ClientsAssumption ==
    /\ IsFiniteSet(Workers) /\ NoObject \notin Objects
    /\ Conns \in Nat \ {0} /\ MaxStreams \in Nat \ {0}
    /\ ServerStreams \in Nat /\ MaxLen \in Nat

\* "well above what any client arm requests" (target/main.go:88): 1000, for
\* the 64 workers of a run.
ASSUME StreamsAssumption == Cardinality(Workers) < ServerStreams

VARIABLES regime, arm,      \* the cell, chosen by flags
          up,               \* the client: new, up, closed, or failed to build
          pc,               \* per worker: where its Do stands
          want, left,       \* per worker: parts of its answer, still to come
          conn,             \* per worker: the connection it holds, or 0
          hold,             \* per worker: the object it fills
          ret,              \* per worker: what Do returns, and has returned
          content,          \* per object: parts in it
          pool,             \* the sync.Pool
          open,             \* established connections
          lag               \* per connection: a stream the server still counts

cell      == <<regime, arm>>
workVars  == <<pc, want, left, conn, hold, ret>>
poolVars  == <<content, pool>>
connVars  == <<open, lag>>
vars == <<cell, up, workVars, poolVars, connVars>>

Regimes == {"h1", "h2", "h3", "grpc"}

Arms == {"poseidon", "standard"}

ParseableArms == Arms \cup {"standard-pooled"}

ConnIds == 1..Conns

-----------------------------------------------------------------------------
(* New: which cells have a client, and how it is built *)

HasClient == arm \in Arms \/ regime \in {"h1", "h2"}

Adapter == IF regime = "grpc" THEN "message"
           ELSE CASE arm = "poseidon" -> "response"
                  [] arm = "standard" -> "fresh"
                  [] arm = "standard-pooled" -> "buffer"

Pooled == Adapter \in {"response", "buffer"}

\* Streams as many as there are callers: no limit of the client's own.
Unlimited == Cardinality(Workers)

\* Connections a client may hold.  poseidon pools Conns of them on H1 and H2,
\* net/http on H1; http2.Transport with StrictMaxConcurrentStreams, both QUIC
\* clients and both gRPC clients hold one.
ConnLimit ==
    IF regime = "h1" \/ (regime = "h2" /\ arm = "poseidon") THEN Conns ELSE 1

\* Mutant: the target keeps http2's default, which is what the client asks for.
ServerLimitDefault == MaxStreams

\* What the target's SETTINGS announce on the H2 leg.
ServerLimit == ServerStreams

\* Calls a client puts on one connection at a time.
StreamLimit ==
    CASE regime = "h1" -> 1
      [] regime = "h2" -> IF arm = "poseidon" /\ MaxStreams < ServerLimit
                          THEN MaxStreams ELSE ServerLimit
      [] regime = "h3" -> IF arm = "poseidon" THEN MaxStreams ELSE Unlimited
      [] regime = "grpc" -> Unlimited

\* Mutant: the dialer of #334, which put h2 before what it was given.
H1DialerPrepends == {"h2", "http/1.1"}

\* What H1TLSDialer fills in for a config that names no protocol.
H1Dialer == {"http/1.1"}

\* The protocols a client offers in ALPN.
Offers == CASE regime \in {"h2", "grpc"} -> {"h2"}
            [] regime = "h3" -> {"h3"}
            [] OTHER -> IF arm = "poseidon" THEN H1Dialer ELSE {"http/1.1"}

\* The protocols of the leg's listener, in its order of preference.
NextProtos == IF regime \in {"h1", "h2"} THEN <<"h2", "http/1.1">>
              ELSE IF regime = "h3" THEN <<"h3">> ELSE <<"h2">>

\* The handshake settles on the server's first choice among the offers.
Negotiated ==
    LET common == {i \in DOMAIN NextProtos: NextProtos[i] \in Offers}
    IN IF common = {} THEN "none"
       ELSE NextProtos[CHOOSE i \in common: \A j \in common: i <= j]

-----------------------------------------------------------------------------

\* No call, and the errors a call may return, beside the lengths.
Idle == -1

Fail == -2

Refused == -3

Pc == {"idle", "want", "sent", "body", "closing"}

TypeOK ==
    /\ regime \in Regimes /\ arm \in ParseableArms
    /\ up \in {"new", "up", "closed", "failed"}
    /\ pc \in [Workers -> Pc]
    /\ want \in [Workers -> 0..MaxLen] /\ left \in [Workers -> 0..MaxLen]
    /\ conn \in [Workers -> ConnIds \cup {0}]
    /\ hold \in [Workers -> Objects \cup {NoObject}]
    /\ ret \in [Workers -> Nat \cup {Idle, Fail, Refused}]
    /\ content \in [Objects -> Nat] /\ pool \subseteq Objects
    /\ open \subseteq ConnIds /\ lag \in [ConnIds -> {0, 1}]

Init ==
    /\ regime \in Regimes /\ arm \in ParseableArms
    /\ up = "new"
    /\ pc = [w \in Workers |-> "idle"]
    /\ want = [w \in Workers |-> 0] /\ left = [w \in Workers |-> 0]
    /\ conn = [w \in Workers |-> 0]
    /\ hold = [w \in Workers |-> NoObject]
    /\ ret = [w \in Workers |-> Idle]
    /\ content = [o \in Objects |-> 0] /\ pool = {}
    /\ open = {} /\ lag = [c \in ConnIds |-> 0]

-----------------------------------------------------------------------------
(* Objects and connections *)

Held == {hold[w]: w \in Workers}

\* Put one of the pool's objects, or a new one, into w's hands.
Obtain(w) ==
    \/ \E o \in pool: /\ hold' = [hold EXCEPT ![w] = o]
                     /\ pool' = pool \ {o}
                     /\ UNCHANGED content
    \/ LET unused == Objects \ (pool \cup Held)
           o == CHOOSE o \in unused: TRUE
       IN /\ unused # {}
          /\ hold' = [hold EXCEPT ![w] = o]
          /\ content' = [content EXCEPT ![o] = 0]
          /\ UNCHANGED pool

\* Calls on connection c, as the client counts them.
Load(c) == Cardinality({w \in Workers: conn[w] = c})

\* The target takes one more stream on c.
Accepts(c) == regime = "h2" => Load(c) + lag[c] < ServerLimit

\* An HTTP/1.1 connection whose exchange was cut short is of no more use.
Severed(w) == IF regime = "h1" THEN open \ {conn[w]} ELSE open

\* A response whose body is not at its end keeps its connection or stream
\* until resp.Body.Close(); the other libraries let go when they return.
KeepsConn(w) == pc[w] = "body" /\ Adapter \in {"fresh", "buffer"}

-----------------------------------------------------------------------------
(* The client's life: New, and the driver's deferred Close *)

\* poseidon's gRPC client dials in its constructor.
Eager == regime = "grpc" /\ arm = "poseidon"

\* The constructors that hand on an error; those over net/http have none.
MayFail == ~HasClient \/ arm = "poseidon" \/ regime = "grpc"

New ==
    /\ up = "new"
    /\ \/ HasClient /\ up' = "up" /\ open' = IF Eager THEN {1} ELSE {}
       \/ MayFail /\ up' = "failed" /\ UNCHANGED open
    /\ UNCHANGED <<cell, workVars, poolVars, lag>>

Close ==
    /\ up = "up" /\ \A w \in Workers: pc[w] = "idle"
    /\ up' = "closed" /\ open' = {}
    /\ UNCHANGED <<cell, workVars, poolVars, lag>>

-----------------------------------------------------------------------------
(* One call: Do *)

Goto(w, p) == pc' = [pc EXCEPT ![w] = p]

\* Do is entered; poseidonHTTP takes its Response at once.
Begin(w) ==
    /\ up = "up" /\ pc[w] = "idle"
    /\ \E n \in 0..MaxLen: /\ want' = [want EXCEPT ![w] = n]
                           /\ left' = [left EXCEPT ![w] = n]
    /\ ret' = [ret EXCEPT ![w] = Idle]
    /\ Goto(w, "want")
    /\ IF Adapter = "response" THEN Obtain(w) ELSE UNCHANGED <<hold, poolVars>>
    /\ UNCHANGED <<cell, up, conn, connVars>>

\* A connection with room, or a new one; the target may refuse the stream.
Connect(w) ==
    /\ pc[w] = "want"
    /\ \E c \in 1..ConnLimit:
          /\ Load(c) < StreamLimit
          /\ open' = open \cup {c}
          /\ IF Accepts(c)
             THEN /\ conn' = [conn EXCEPT ![w] = c]
                  /\ Goto(w, "sent") /\ UNCHANGED ret
             ELSE /\ ret' = [ret EXCEPT ![w] = Refused]
                  /\ Goto(w, "closing") /\ UNCHANGED conn
    /\ UNCHANGED <<cell, up, want, left, hold, poolVars, lag>>

\* The status is there; whoever has no object for the body takes one now.
Headers(w) ==
    /\ pc[w] = "sent"
    /\ Goto(w, "body")
    /\ IF Adapter = "response" THEN UNCHANGED <<hold, poolVars>> ELSE Obtain(w)
    /\ UNCHANGED <<cell, up, want, left, conn, ret, connVars>>

Part(w) ==
    /\ pc[w] = "body" /\ left[w] > 0
    /\ left' = [left EXCEPT ![w] = @ - 1]
    /\ content' = [content EXCEPT ![hold[w]] = @ + 1]
    /\ UNCHANGED <<cell, up, pc, want, conn, hold, ret, pool,
                   connVars>>

\* len(resp.Body) of what the object holds; ReadFrom says how much it read.
Length(w) == IF Adapter = "buffer" THEN want[w] - left[w] ELSE content[hold[w]]

\* The body is at its end, and the result evaluated before what is deferred.
\* An H2 target has one frame in flight: until it has accounted for the last
\* stream's end it ends no other.
Eof(w) ==
    /\ pc[w] = "body" /\ left[w] = 0
    /\ IF regime = "h2" THEN /\ lag[conn[w]] = 0
                             /\ lag' = [lag EXCEPT ![conn[w]] = 1]
                        ELSE UNCHANGED lag
    /\ ret' = [ret EXCEPT ![w] = Length(w)]
    /\ conn' = [conn EXCEPT ![w] = 0]
    /\ Goto(w, "closing")
    /\ UNCHANGED <<cell, up, want, left, hold, poolVars, open>>

\* The dial, the stream or the reading of the body fails, or ctx is done.
Break(w) ==
    /\ pc[w] \in {"want", "sent", "body"}
    /\ ret' = [ret EXCEPT ![w] = Fail]
    /\ IF KeepsConn(w) THEN UNCHANGED <<conn, open>>
       ELSE conn' = [conn EXCEPT ![w] = 0] /\ open' = Severed(w)
    /\ Goto(w, "closing")
    /\ UNCHANGED <<cell, up, want, left, hold, poolVars, lag>>

\* Mutant: only a call that succeeded closes its body.
ReleasesOnSuccess(w) == conn[w] # 0 /\ ret[w] # Fail

\* defer resp.Body.Close(): the connection goes, whatever came of the call.
Releases(w) == conn[w] # 0

\* Mutant: a call that failed puts its object back as it is.
LeavesOnError(w) == IF ret[w] = Fail THEN content[hold[w]] ELSE 0

\* What Reset leaves in the object.
Leaves(w) == 0

\* The deferred calls: Reset and Put, then Body.Close.
Deferred(w) ==
    /\ pc[w] = "closing"
    /\ IF Pooled /\ hold[w] # NoObject
       THEN /\ content' = [content EXCEPT ![hold[w]] = Leaves(w)]
            /\ pool' = pool \cup {hold[w]}
       ELSE UNCHANGED poolVars
    /\ hold' = [hold EXCEPT ![w] = NoObject]
    /\ IF Releases(w) THEN conn' = [conn EXCEPT ![w] = 0] /\ open' = Severed(w)
                      ELSE UNCHANGED <<conn, open>>
    /\ want' = [want EXCEPT ![w] = 0] /\ left' = [left EXCEPT ![w] = 0]
    /\ Goto(w, "idle")
    /\ UNCHANGED <<cell, up, ret, lag>>

-----------------------------------------------------------------------------
(* What happens beneath: a garbage collection empties the pool, a connection
   is lost with every call on it, the target accounts for an ended stream *)

Evict(o) == /\ o \in pool /\ pool' = pool \ {o}
            /\ UNCHANGED <<cell, up, workVars, content, connVars>>

\* A call that has yet to see the end of its answer.
Cut(w, c) == conn[w] = c /\ pc[w] \in {"sent", "body"}

Drop(c) ==
    /\ up = "up" /\ c \in open
    /\ open' = open \ {c} /\ lag' = [lag EXCEPT ![c] = 0]
    /\ pc' = [w \in Workers |-> IF Cut(w, c) THEN "closing" ELSE pc[w]]
    /\ ret' = [w \in Workers |-> IF Cut(w, c) THEN Fail ELSE ret[w]]
    /\ conn' = [w \in Workers |-> IF conn[w] = c THEN 0 ELSE conn[w]]
    /\ UNCHANGED <<cell, up, want, left, hold, poolVars>>

Settle(c) == /\ lag[c] = 1 /\ lag' = [lag EXCEPT ![c] = 0]
             /\ UNCHANGED <<cell, up, workVars, poolVars, open>>

-----------------------------------------------------------------------------
\* No client could be built, or the run is over.
Exited == up \in {"failed", "closed"} /\ UNCHANGED vars

Served(w) == Headers(w) \/ Part(w) \/ Eof(w)

Next == \/ New \/ Close \/ Exited
        \/ \E w \in Workers: \/ Begin(w) \/ Connect(w) \/ Served(w)
                             \/ Break(w) \/ Deferred(w)
        \/ \E o \in Objects: Evict(o)
        \/ \E c \in ConnIds: Drop(c) \/ Settle(c)

SafetySpec == Init /\ [][Next]_vars

\* A call runs on, and its library queues fairly for a connection; the target
\* accounts for what it has sent, answers what it has accepted, and takes its
\* streams in turn.
Fairness ==
    /\ \A w \in Workers: /\ SF_vars(Connect(w)) /\ SF_vars(Served(w))
                         /\ WF_vars(Deferred(w))
    /\ \A c \in ConnIds: WF_vars(Settle(c))

Spec == SafetySpec /\ Fairness

-----------------------------------------------------------------------------
(* Properties *)

\* Each call returns an error or the length of its own body, although objects
\* wander between workers, failed calls leave bodies half read, and the value
\* is computed from an object that is reset and handed on in the same breath
\* (poseidon.go:31-53, standard_pooled.go:61-78, clientset.go:85-90).
Promise == INSTANCE Calls WITH
    Lengths <- 0..MaxLen,
    asked <- [w \in Workers |-> IF pc[w] = "idle" THEN Idle ELSE want[w]],
    result <- [w \in Workers |-> IF pc[w] # "idle" THEN Idle
                                 ELSE IF ret[w] = Refused THEN Fail ELSE ret[w]]

ImplementsCalls == Promise!Spec

\* No stream is refused for being one too many, although the client reuses the
\* place of an ended stream before the target has accounted for its end
\* (target/main.go:88-93).
NoRefusedStream == \A w \in Workers: ret[w] # Refused

\* Whatever a client offers on the listener that H1 and H2 share, the
\* connections of a leg speak the protocol the leg is named for
\* (poseidon.go:57-77, standard.go:76-86).
SpeaksItsProtocol ==
    open # {} => Negotiated = CASE regime = "h1" -> "http/1.1"
                                [] regime = "h3" -> "h3"
                                [] OTHER -> "h2"

\* Every call ends, although fewer connections than workers are to be had and
\* calls fail with connections in hand: none is kept by a call that is over.
CallsReturn == \A w \in Workers: pc[w] # "idle" ~> pc[w] = "idle"
=============================================================================
