------------------------- MODULE SelfMetricsProofs --------------------------
(***************************************************************************)
(* Proofs about SelfMetrics, for any number of processors, any horizon and *)
(* any number of collections: it is well typed, the runtime's figures      *)
(* stand still without a collection, and usable ones cover their window.   *)
(***************************************************************************)
EXTENDS SelfMetrics, TLAPS

\* The only arithmetic that is not linear: a process is never busier than its
\* processors, and a multiple of their number is divided exactly.
LEMMA Busy ==
    ASSUME NEW a \in Nat, NEW b \in Nat, NEW n \in Nat, a <= b
    PROVE  a * n \in Nat /\ b * n \in Nat /\ a * n <= b * n
OBVIOUS

LEMMA Exact ==
    ASSUME NEW g \in Nat \ {0}, NEW t \in Int PROVE (g * t) \div g = t
OBVIOUS

LEMMA Apart ==
    ASSUME NEW g \in Nat \ {0}, NEW s \in Int, NEW t \in Int
    PROVE  (g * t - g * s) \div g = t - s
<1>1. g * t - g * s = g * (t - s)
    OBVIOUS
<1> QED BY <1>1, Exact

-----------------------------------------------------------------------------
(* Types, and the instants the runtime's figures are of *)

\* A figure of the runtime is what the processors had to give up to an instant.
Dated(r) == \E t \in Nat: r.total = GOMAXPROCS * t

DateInv == Dated(stats) /\ Dated(cur) /\ Dated(start) /\ Dated(end)

TInv == TypeOK /\ DateInv

LEMMA TInit == Init => TInv
<1>1. GOMAXPROCS * 0 = 0
    BY SelfMetricsAssumption
<1> QED BY <1>1, SelfMetricsAssumption
        DEF Init, TInv, TypeOK, DateInv, Dated, Stats, Snapshot, NoSnapshot, Steps

LEMMA RefreshTyped ==
    ASSUME TypeOK, Refresh
    PROVE  /\ stats' \in Stats /\ stats'.busy <= stats'.total /\ Dated(stats')
           /\ cycles' \in Nat
<1>1. now \in Nat /\ load \in Nat /\ load <= GOMAXPROCS /\ GOMAXPROCS \in Nat
    BY SelfMetricsAssumption DEF TypeOK
<1>2. /\ load * now \in Nat /\ GOMAXPROCS * now \in Nat
      /\ load * now <= GOMAXPROCS * now
    BY <1>1, Busy
<1> QED BY <1>1, <1>2 DEF TypeOK, Refresh, work, Stats, Dated

LEMMA TStep == TInv /\ [Next]_vars => TInv'
<1> SUFFICES ASSUME TInv, [Next]_vars PROVE TInv'
    OBVIOUS
<1> USE DEF TInv, TypeOK, DateInv, Dated
<1>0. Dated(NoSnapshot)
    <2>1. GOMAXPROCS * 0 = 0
        BY SelfMetricsAssumption
    <2> QED BY <2>1 DEF NoSnapshot
<1>1. CASE Run
    <2>1. now' \in 0..Horizon /\ UNCHANGED <<load, stats, cycles, osCPU, pc, cur,
                                            start, end>>
        BY <1>1, SelfMetricsAssumption DEF Run
    <2> QED BY <2>1
<1>2. CASE Collect \/ ForcedGC
    <2>1. Refresh /\ UNCHANGED <<now, load, osCPU, cur, start, end>>
          /\ pc' \in Steps
        BY <1>2 DEF Collect, ForcedGC, Steps
    <2>2. /\ stats' \in Stats /\ stats'.busy <= stats'.total /\ Dated(stats')
          /\ cycles' \in Nat
        BY <2>1, RefreshTyped
    <2> QED BY <2>1, <2>2
<1>3. CASE ReadRuntime
    <2>1. /\ cur' \in Snapshot /\ cur'.total = stats.total
          /\ cur'.busy = stats.busy
        BY <1>3 DEF ReadRuntime, Snapshot, NoSnapshot, Stats
    <2> QED BY <1>3, <2>1 DEF ReadRuntime, Steps
<1>4. CASE ReadCPU
    <2>1. work \in Nat
        BY Busy, SelfMetricsAssumption DEF work
    <2>2. /\ cur' \in Snapshot /\ cur'.total = cur.total /\ cur'.busy = cur.busy
        BY <1>4, <2>1 DEF ReadCPU, Snapshot
    <2> QED BY <1>4, <2>2 DEF ReadCPU, Steps
<1>5. CASE ReadClock
    <2> DEFINE snap == [cur EXCEPT !.at = now]
    <2>1. snap \in Snapshot /\ snap.total = cur.total /\ snap.busy = cur.busy
        BY SelfMetricsAssumption DEF Snapshot
    <2>2. /\ start' \in {start, snap} /\ end' \in {end, snap}
          /\ cur' = NoSnapshot /\ pc' \in Steps
          /\ UNCHANGED <<now, load, stats, cycles, osCPU>>
        BY <1>5 DEF ReadClock, At, Steps
    <2>3. NoSnapshot \in Snapshot /\ NoSnapshot.busy <= NoSnapshot.total
        BY DEF NoSnapshot, Snapshot
    <2> HIDE DEF snap
    <2> QED BY <1>0, <2>1, <2>2, <2>3
<1>6. CASE UNCHANGED vars
    BY <1>6 DEF vars
<1> QED BY <1>1, <1>2, <1>3, <1>4, <1>5, <1>6 DEF Next

LEMMA TInvariant == Spec => []TInv
BY TInit, TStep, PTL DEF Spec

\* The two snapshots and the runtime's figures are well typed, and no figure
\* has the process busier than its processors (selfmetrics.go:48-97).
THEOREM SelfMetricsTypeOK == Spec => []TypeOK
<1>1. TInv => TypeOK
    BY DEF TInv
<1> QED BY <1>1, TInvariant, PTL

-----------------------------------------------------------------------------
(* No collection, no figures *)

\* b was read no earlier than a, and shows the same if no cycle ended between.
Follows(a, b) ==
    /\ a.cycles <= b.cycles
    /\ a.cycles = b.cycles => a.total = b.total /\ a.busy = b.busy

\* What the runtime would show now.
Present == [total |-> stats.total, busy |-> stats.busy, cycles |-> cycles]

\* Off Linux the CPU figure is the runtime's.
FellBack(snap) == ~osCPU => snap.cpu = snap.busy

FrozenInv ==
    /\ pc \in {"os1", "at1", "os2", "at2"} => Follows(cur, Present)
    /\ pc \in {"window", "os2", "at2"} => Follows(start, Present)
    /\ pc \in {"os2", "at2"} => Follows(start, cur)
    /\ pc \in {"at1", "at2"} => FellBack(cur)
    /\ pc \in {"window", "os2", "at2", "done"} => FellBack(start)
    /\ pc = "done" => Follows(start, end) /\ FellBack(end)

LEMMA FrozenInit == Init => FrozenInv
BY DEF Init, FrozenInv

LEMMA FrozenStep == TypeOK /\ FrozenInv /\ [Next]_vars => FrozenInv'
<1> SUFFICES ASSUME TypeOK, FrozenInv, [Next]_vars PROVE FrozenInv'
    OBVIOUS
<1> USE DEF TypeOK, FrozenInv, Follows, FellBack, Present
<1>1. CASE Run
    BY <1>1 DEF Run
<1>2. CASE Collect
    <2>1. cycles' = cycles + 1 /\ UNCHANGED <<osCPU, pc, cur, start, end>>
        BY <1>2 DEF Collect, Refresh
    <2>2. cur.cycles \in Nat /\ start.cycles \in Nat
        BY DEF Snapshot
    <2> QED BY <2>1, <2>2
<1>3. CASE ForcedGC
    BY <1>3 DEF ForcedGC
<1>4. CASE ReadRuntime
    <2>1. /\ cur' = [at |-> 0, cpu |-> 0, total |-> stats.total,
                     busy |-> stats.busy, cycles |-> cycles]
          /\ \/ pc = "rt1" /\ pc' = "os1"
             \/ pc = "window" /\ pc' = "os2"
          /\ UNCHANGED <<stats, cycles, osCPU, start, end>>
        BY <1>4 DEF ReadRuntime, NoSnapshot
    <2> QED BY <2>1
<1>5. CASE ReadCPU
    <2>0. PICK ok \in {osCPU, FALSE}:
              cur' = [cur EXCEPT !.cpu = IF ok THEN work ELSE cur.busy]
        BY <1>5 DEF ReadCPU
    <2>1. /\ cur'.total = cur.total /\ cur'.busy = cur.busy
          /\ cur'.cycles = cur.cycles /\ (~osCPU => cur'.cpu = cur.busy)
        <3>1. /\ cur'.total = cur.total /\ cur'.busy = cur.busy
              /\ cur'.cycles = cur.cycles
              /\ cur'.cpu = IF ok THEN work ELSE cur.busy
            BY <2>0 DEF Snapshot
        <3>2. ok = osCPU \/ ok = FALSE
            BY <2>0
        <3>3. CASE ok = osCPU
            BY <3>1, <3>3, Zenon
        <3>4. CASE ok = FALSE
            BY <3>1, <3>4
        <3> QED BY <3>2, <3>3, <3>4, Zenon
    <2>2. \/ pc = "os1" /\ pc' = "at1"
          \/ pc = "os2" /\ pc' = "at2"
        BY <1>5 DEF ReadCPU
    <2>3. UNCHANGED <<stats, cycles, osCPU, start, end>>
        BY <1>5 DEF ReadCPU
    <2> QED BY <2>1, <2>2, <2>3
<1>6. CASE ReadClock
    <2> DEFINE snap == [cur EXCEPT !.at = now]
    <2>1. /\ snap.total = cur.total /\ snap.busy = cur.busy
          /\ snap.cycles = cur.cycles /\ snap.cpu = cur.cpu
        BY DEF Snapshot
    <2>2. \/ pc = "at1" /\ pc' = "window" /\ start' = snap
          \/ pc = "at2" /\ pc' = "done" /\ end' = snap /\ start' = start
        BY <1>6 DEF ReadClock, At
    <2>3. UNCHANGED <<stats, cycles, osCPU>>
        BY <1>6 DEF ReadClock
    <2> HIDE DEF snap
    <2> QED BY <2>1, <2>2, <2>3
<1>7. CASE UNCHANGED vars
    BY <1>7 DEF vars
<1> QED BY <1>1, <1>2, <1>3, <1>4, <1>5, <1>6, <1>7 DEF Next

\* Without a collection in the window the runtime's figures are exactly zero
\* and not usable, for any process and any window.
THEOREM Frozen == Spec => []FrozenWithoutGC
<1>1. TInv /\ FrozenInv => FrozenWithoutGC
    <2> SUFFICES ASSUME TInv, FrozenInv, Measured, Sub.gcCycles = 0
                 PROVE  /\ Sub.runtime = 0
                        /\ ~RuntimeCPUUsable(Sub)
                        /\ ~osCPU => Sub.cpu = 0
        BY DEF FrozenWithoutGC
    <2>1. start \in Snapshot /\ end \in Snapshot
        BY DEF TInv, TypeOK
    <2>2. start.cycles = end.cycles
        BY <2>1 DEF Sub, Snapshot
    <2>3. /\ start.total = end.total /\ start.busy = end.busy
          /\ ~osCPU => start.cpu = start.busy /\ end.cpu = end.busy
        BY <2>2 DEF FrozenInv, Measured, Follows, FellBack
    <2>4. RuntimeWindow = 0
        <3>1. end.total - start.total = GOMAXPROCS * 0
            BY <2>1, <2>3, SelfMetricsAssumption DEF Snapshot
        <3> QED BY <3>1, Exact, SelfMetricsAssumption DEF RuntimeWindow
    <2> QED BY <2>1, <2>3, <2>4 DEF Sub, Snapshot, RuntimeCPUUsable
<1>2. TInv => TypeOK
    BY DEF TInv
<1> QED BY <1>1, <1>2, TInvariant, FrozenInit, FrozenStep, PTL DEF Spec

\* Figures called usable describe more than eight tenths of the window, if the
\* start snapshot was fresh, for any process and any window.
THEOREM Covers == Spec => []FreshUsableCovers
<1>1. TInv => FreshUsableCovers
    <2> SUFFICES ASSUME TInv, RuntimeCPUUsable(Sub),
                        (start.at - AsOf(start)) * 10 <= Sub.duration
                 PROVE  Covered * 10 > Sub.duration * 8
        BY DEF FreshUsableCovers
    <2>1. PICK s \in Nat: start.total = GOMAXPROCS * s
        BY DEF TInv, DateInv, Dated
    <2>2. PICK e \in Nat: end.total = GOMAXPROCS * e
        BY DEF TInv, DateInv, Dated
    <2>3. AsOf(start) = s /\ AsOf(end) = e
        <3>1. (GOMAXPROCS * s) \div GOMAXPROCS = s
            BY Exact, SelfMetricsAssumption
        <3>2. (GOMAXPROCS * e) \div GOMAXPROCS = e
            BY Exact, SelfMetricsAssumption
        <3> QED BY <2>1, <2>2, <3>1, <3>2, Zenon DEF AsOf
    <2>4. Sub.window = e - s
        <3>0. s \in Int /\ e \in Int /\ GOMAXPROCS \in Nat \ {0}
            BY SelfMetricsAssumption
        <3>1. (GOMAXPROCS * e - GOMAXPROCS * s) \div GOMAXPROCS = e - s
            BY <3>0, Apart, Zenon
        <3>2. RuntimeWindow = e - s
            BY <2>1, <2>2, <3>1, Zenon DEF RuntimeWindow
        <3> QED BY <3>2 DEF Sub
    <2>5. start.at \in Nat /\ end.at \in Nat /\ Sub.duration = end.at - start.at
        BY DEF TInv, TypeOK, Snapshot, Sub
    <2>6. Sub.duration > 0 /\ Sub.window * 10 > Sub.duration * 9
        BY DEF RuntimeCPUUsable
    <2> HIDE DEF Sub
    <2> QED BY <2>3, <2>4, <2>5, <2>6 DEF Covered
<1> QED BY <1>1, TInvariant, PTL
=============================================================================
