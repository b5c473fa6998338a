------------------------------ MODULE Workload ------------------------------
(***************************************************************************)
(* internal/payload, internal/scenario and the way runWorker draws from    *)
(* them: what the two arms of one regime send.  Both arms are started with *)
(* the same seed, so their generators yield the same numbers; what differs *)
(* between them is which worker gets which permit.  A body or a response   *)
(* counts its items or chunks.                                             *)
(***************************************************************************)
EXTENDS Integers, Sequences, FiniteSets, Functions

CONSTANTS Workers,          \* worker ids
          PoolSize,         \* bodies in the payload pool, and in the path pool
          Regimes,          \* the regimes a pair of arms may be run for
          MaxCalls,         \* bound: calls of one worker
          MixDraws,         \* the streams of IntN(100) a worker's Mix may draw
          GenDraws          \* the streams of the generator: for each body its
                            \* class out of 100 and its place among the sizes

ASSUME WorkloadAssumption ==
    /\ IsFiniteSet(Workers) /\ Workers \subseteq Nat
    /\ PoolSize \in Nat \ {0} /\ MaxCalls \in Nat
    /\ MixDraws \subseteq [1..MaxCalls -> 0..99]
    /\ GenDraws \subseteq [0..(PoolSize - 1) -> [class: 0..99, item: Nat]]

\* What Pool.For relies on: its two factors, 2654435761 and 40503, can be undone
\* modulo the size of the pool (1024; both are odd), and the pool is larger than
\* any worker's number (64 workers).
Invertible(m) == \E u \in 0..(PoolSize - 1): (m * u) % PoolSize = 1 % PoolSize

Arms == {"poseidon", "standard"}

VARIABLES regime,           \* the regime both arms run
          draws,            \* per worker: the numbers its Mix draws
          genDraws,         \* the numbers the pool's generator draws
          buf,              \* per arm: the generator's reusable buffer
          bodies,           \* per arm: the payload pool, in order
          calls             \* per arm and worker: the calls issued, in order

input == <<regime, draws, genDraws>>
vars == <<input, buf, bodies, calls>>

-----------------------------------------------------------------------------
(* Weighted choice: pickClass and Mix.Next subtract one weight after another *)

\* What is left of n once the first k weights are subtracted from it.
Left(weights, n) ==
    LET left[k \in 0..Len(weights)] ==
            IF k = 0 THEN n ELSE left[k - 1] - weights[k]
    IN  left

\* The entry whose weight takes n below zero; the loop's way out behind the
\* last entry is not taken for an n below the total.
Picked(weights, n) ==
    CHOOSE k \in DOMAIN weights:
        /\ Left(weights, n)[k] < 0
        /\ \A j \in 1..(k - 1): Left(weights, n)[j] >= 0

DefaultMix == <<[kind |-> "fetch", weight |-> 40],
                [kind |-> "echo", weight |-> 25],
                [kind |-> "ingest", weight |-> 20],
                [kind |-> "stream", weight |-> 10],
                [kind |-> "notfound", weight |-> 5]>>

GRPCMix == <<[kind |-> "echo", weight |-> 100]>>

\* Mutant: every regime runs the HTTP mix.
MixForAll(r) == DefaultMix

MixFor(r) == IF r = "grpc" THEN GRPCMix ELSE DefaultMix

\* Mutant: the scenario is drawn by the number of calls of all workers.
DrawOfArm(a, w) ==
    draws[w][1 + (FoldFunction(LAMBDA s, t: Len(s) + t, 0, calls[a]) % MaxCalls)]

\* The number the worker's own Mix draws next.
Draw(a, w) == draws[w][Len(calls[a][w]) + 1]

NextKind(a, w) ==
    LET mix == MixFor(regime)
    IN  mix[Picked([k \in DOMAIN mix |-> mix[k].weight], Draw(a, w))].kind

HasBody(kind) == kind \in {"echo", "ingest"}

-----------------------------------------------------------------------------
(* The pools *)

DefaultSizeClasses == <<[min |-> 1, max |-> 8, weight |-> 60],
                        [min |-> 20, max |-> 120, weight |-> 30],
                        [min |-> 400, max |-> 1200, weight |-> 10]>>

\* Generator.Next: the number of items of a body; the upper bound of a class is
\* never reached.
Items(d) ==
    LET c == DefaultSizeClasses[Picked([k \in 1..3 |->
                                    DefaultSizeClasses[k].weight], d.class)]
    IN  c.min + (d.item % (c.max - c.min))

\* Mutant: the pool keeps the slice that Next returned.
StoredAlias(n) == [owned |-> FALSE, items |-> 0]

\* append([]byte(nil), b...)
Stored(n) == [owned |-> TRUE, items |-> n]

\* NewPool, one body: each arm generates its own pool from the shared seed.
Generate(a) ==
    /\ Len(bodies[a]) < PoolSize
    /\ LET n == Items(genDraws[Len(bodies[a])])
       IN  /\ buf' = [buf EXCEPT ![a] = n]
           /\ bodies' = [bodies EXCEPT ![a] = Append(@, Stored(n))]
    /\ UNCHANGED <<input, calls>>

\* What a reader of a pooled slice sees.
BodyAt(a, i) == LET b == bodies[a][i + 1]
                IN  IF b.owned THEN b.items ELSE buf[a]

\* 2654435761 in two factors, an integer of 32 bits being too small for it.
Golden == ((26544 % PoolSize) * (100000 % PoolSize) + 35761) % PoolSize

ASSUME PoolAssumption ==
    /\ Invertible(Golden) /\ Invertible(40503)
    /\ \A w \in Workers: w < PoolSize

\* Mutant: the worker is left out of the hash.
ForAnyWorker(w, seq) == (seq * Golden) % PoolSize

\* Mutant: the product is reduced, and the worker added to it.
ForBeyond(w, seq) == ((seq * Golden) % PoolSize) + w * 40503

\* Pool.For: which body; uint64 does not wrap for any seq below 2^32.
For(w, seq) == (seq * Golden + w * 40503) % PoolSize

\* NewPathPool: items or chunks asked for by the i-th path.
FetchItems(i) == 4 + (i % 200)
StreamChunks(i) == 2 + (i % 16)

-----------------------------------------------------------------------------
(* The arms *)

NoBody == -1

Call == [kind: {"fetch", "echo", "ingest", "stream", "notfound"},
         path: 0..(PoolSize - 1), body: (0..(PoolSize - 1)) \cup {NoBody}]

\* The types; a body index outside the pool would be a panic of the driver.
TypeOK ==
    /\ regime \in Regimes
    /\ DOMAIN draws = Workers /\ DOMAIN genDraws = 0..(PoolSize - 1)
    /\ buf \in [Arms -> Nat]
    /\ bodies \in [Arms -> Seq([owned: BOOLEAN, items: Nat])]
    /\ calls \in [Arms -> [Workers -> Seq(Call)]]

Init ==
    /\ regime \in Regimes
    /\ draws \in [Workers -> MixDraws]
    /\ genDraws \in GenDraws
    /\ buf = [a \in Arms |-> 0]
    /\ bodies = [a \in Arms |-> <<>>]
    /\ calls = [a \in Arms |-> [w \in Workers |-> <<>>]]

\* One turn of runWorker's loop, for whichever worker got the permit.
Issue(a, w) ==
    /\ Len(bodies[a]) = PoolSize /\ Len(calls[a][w]) < MaxCalls
    /\ LET seq == Len(calls[a][w]) + 1
           kind == NextKind(a, w)
       IN  calls' = [calls EXCEPT ![a][w] = Append(@,
                        [kind |-> kind, path |-> seq % PoolSize,
                         body |-> IF HasBody(kind) THEN For(w, seq)
                                                   ELSE NoBody])]
    /\ UNCHANGED <<input, buf, bodies>>

Next == \E a \in Arms: Generate(a) \/ \E w \in Workers: Issue(a, w)

Spec == Init /\ [][Next]_vars

-----------------------------------------------------------------------------
(* What the target makes of a call *)

\* The routes of internal/api, and the gRPC Echo; a call without the JSON body
\* its route decodes is a bad request, or a failed call for gRPC.
Answer(a, c) ==
    CASE c.kind = "fetch" /\ regime # "grpc" ->
            [status |-> 200, size |-> FetchItems(c.path)]
      [] c.kind = "stream" /\ regime # "grpc" ->
            [status |-> 200, size |-> StreamChunks(c.path)]
      [] c.kind = "notfound" /\ regime # "grpc" -> [status |-> 404, size |-> 0]
      [] c.kind = "ingest" /\ regime # "grpc" -> [status |-> 200, size |-> 0]
      [] c.body # NoBody /\ (c.kind = "echo" \/ regime = "grpc") ->
            [status |-> 200, size |-> BodyAt(a, c.body)]
      [] OTHER -> [status |-> 400, size |-> 0]

-----------------------------------------------------------------------------
(* Properties *)

\* However the permits fall, the two arms ask the same of the target as far as
\* each worker got: the same scenario, path and body at every place of its
\* sequence (runWorker, main.go:233-252; TestDeterminism, TestMixDeterminism).
SameCallsPerWorker ==
    \A w \in Workers:
        LET p == calls["poseidon"][w]
            s == calls["standard"][w]
        IN  \A i \in DOMAIN p \cap DOMAIN s:
                p[i] = s[i] /\ Answer("poseidon", p[i]) = Answer("standard", s[i])

\* The workers walk the shared pool out of step: no two of them send the same
\* body at the same place of their sequences, and a worker sends a body again
\* only a whole number of pools later in its sequence, in which the calls
\* without a body count as well (Pool.For, payload.go:106-122; main.go:242-252).
PoolWalk ==
    \A a \in Arms, v, w \in Workers:
        \A i \in DOMAIN calls[a][v], j \in DOMAIN calls[a][w]:
            calls[a][v][i].body # NoBody
              /\ calls[a][v][i].body = calls[a][w][j].body =>
                IF v = w THEN (i - j) % PoolSize = 0 ELSE i # j

\* Every call but the one meant to fail is one the target can answer: the mix
\* of the gRPC regime never sends a call without a body (scenario.go:67-79).
OnlyTheErrorPathFails ==
    \A a \in Arms, w \in Workers: \A i \in DOMAIN calls[a][w]:
        LET c == calls[a][w][i]
        IN  Answer(a, c).status # 200 => c.kind = "notfound" /\ regime # "grpc"

\* The pool holds every body as it was generated, although the generator hands
\* out one buffer that it overwrites (NewPool, payload.go:91-97).
PoolHoldsGenerated ==
    \A a \in Arms: \A i \in DOMAIN bodies[a]:
        BodyAt(a, i - 1) = Items(genDraws[i - 1])
=============================================================================
