---------------------------- MODULE SelfMetrics ----------------------------
(***************************************************************************)
(* internal/selfmetrics: the two CPU instruments behind a report and the   *)
(* two snapshots it subtracts.  The OS counts CPU time as it is spent; the *)
(* Go runtime publishes what it knows only when a GC cycle ends, so its    *)
(* figures describe the window between two collections and not the one     *)
(* that was measured.  A snapshot reads the runtime first, then the OS,    *)
(* then the clock, and the process runs on between those reads.            *)
(***************************************************************************)
EXTENDS Integers

CONSTANTS GOMAXPROCS,
          Horizon,          \* bound: units of wall time
          MaxGC             \* bound: collections of the runtime's own

ASSUME SelfMetricsAssumption ==
    GOMAXPROCS \in Nat \ {0} /\ Horizon \in Nat /\ MaxGC \in Nat

VARIABLES now,              \* wall time since procStart
          load,             \* processors the process keeps busy
          stats,            \* what runtime/metrics holds since the last GC
          cycles,           \* GC cycles completed
          osCPU,            \* /proc/self/stat can be read
          pc,               \* the measuring goroutine
          cur,              \* the snapshot being filled in
          start, end        \* the two snapshots

vars == <<now, load, stats, cycles, osCPU, pc, cur, start, end>>

\* CPUStatsTotalSeconds and CPURuntimeSeconds, as of the last refresh.
Stats == [total: Nat, busy: Nat]

Snapshot == [at: Nat, cpu: Nat, total: Nat, busy: Nat, cycles: Nat]

NoSnapshot == [at |-> 0, cpu |-> 0, total |-> 0, busy |-> 0, cycles |-> 0]

\* The order of the reads in a run: the profile that forces a GC, if any, comes
\* before the start snapshot.
Steps == {"profile", "rt1", "os1", "at1", "window", "os2", "at2", "done"}

\* The types, and a process never busier than its processors allow.
TypeOK ==
    /\ now \in 0..Horizon /\ load \in 0..GOMAXPROCS /\ cycles \in Nat
    /\ stats \in Stats /\ osCPU \in BOOLEAN
    /\ pc \in Steps
    /\ {cur, start, end} \subseteq Snapshot
    /\ \A s \in {stats, cur, start, end}: s.busy <= s.total

Init ==
    /\ now = 0 /\ load \in {0, GOMAXPROCS} /\ cycles = 0
    /\ stats = [total |-> 0, busy |-> 0]
    /\ osCPU \in BOOLEAN
    /\ pc \in {"profile", "rt1"}
    /\ cur = NoSnapshot /\ start = NoSnapshot /\ end = NoSnapshot

-----------------------------------------------------------------------------
(* The process and its runtime *)

\* CPU time the process has spent, at a constant load.
work == load * now

\* Time passes.
Run ==
    /\ now < Horizon
    /\ now' = now + 1
    /\ UNCHANGED <<load, stats, cycles, osCPU, pc, cur, start, end>>

\* GC mark termination, the only place that refreshes /cpu/classes/*.
Refresh ==
    /\ stats' = [total |-> GOMAXPROCS * now, busy |-> work]
    /\ cycles' = cycles + 1

\* A collection of the runtime's own; two at one instant are one to the stats.
Collect ==
    /\ stats.total # GOMAXPROCS * now
    /\ cycles < MaxGC
    /\ Refresh
    /\ UNCHANGED <<now, load, osCPU, pc, cur, start, end>>

-----------------------------------------------------------------------------
(* The measuring goroutine *)

\* writeProfile before the start snapshot: runtime.GC().
ForcedGC ==
    /\ pc = "profile" /\ pc' = "rt1"
    /\ Refresh
    /\ UNCHANGED <<now, load, osCPU, cur, start, end>>

\* metrics.Read(samples)
ReadRuntime ==
    /\ \/ pc = "rt1" /\ pc' = "os1"
       \/ pc = "window" /\ pc' = "os2"
    /\ cur' = [NoSnapshot EXCEPT !.total = stats.total, !.busy = stats.busy,
                                 !.cycles = cycles]
    /\ UNCHANGED <<now, load, stats, cycles, osCPU, start, end>>

\* processCPUSplit(), or the runtime's figure where the OS has none, which on
\* Linux may be at either read.
ReadCPU ==
    /\ \/ pc = "os1" /\ pc' = "at1"
       \/ pc = "os2" /\ pc' = "at2"
    /\ \E ok \in {osCPU, FALSE}:
          cur' = [cur EXCEPT !.cpu = IF ok THEN work ELSE cur.busy]
    /\ UNCHANGED <<now, load, stats, cycles, osCPU, start, end>>

\* At: time.Now()
At == now

ReadClock ==
    LET snap == [cur EXCEPT !.at = At]
    IN  /\ \/ pc = "at1" /\ pc' = "window" /\ start' = snap /\ UNCHANGED end
           \/ pc = "at2" /\ pc' = "done" /\ end' = snap /\ UNCHANGED start
        /\ cur' = NoSnapshot
        /\ UNCHANGED <<now, load, stats, cycles, osCPU>>

Next == Run \/ Collect \/ ForcedGC \/ ReadRuntime \/ ReadCPU \/ ReadClock

Spec == Init /\ [][Next]_vars

-----------------------------------------------------------------------------
(* Sub and RuntimeCPUUsable *)

\* Mutant: the runtime window is taken from the wall clock.
RuntimeWindowOfClock == end.at - start.at

\* The wall interval the runtime's figures span.
RuntimeWindow == (end.total - start.total) \div GOMAXPROCS

Sub == [duration |-> end.at - start.at,
        cpu |-> end.cpu - start.cpu,
        runtime |-> end.busy - start.busy,
        window |-> RuntimeWindow,
        gcCycles |-> end.cycles - start.cycles]

\* Mutant: any window that is not too long will do.
UsableWhenShort(d) == d.window * 10 < d.duration * 11

\* The ratio of the two lengths is between 0.9 and 1.1.
RuntimeCPUUsable(d) ==
    /\ d.duration > 0 /\ d.window > 0
    /\ d.window * 10 > d.duration * 9
    /\ d.window * 10 < d.duration * 11

-----------------------------------------------------------------------------
(* Properties *)

Measured == pc = "done"

\* The instant the runtime's figures of a snapshot describe.
AsOf(snap) == snap.total \div GOMAXPROCS

\* How much of the measured window the runtime's figures describe.
Covered == IF AsOf(end) > start.at THEN AsOf(end) - start.at ELSE 0

\* A window in which no GC cycle ended yields runtime figures of exactly zero,
\* however busy the process was, and is never called usable; off Linux the
\* same zero is the CPU figure itself (selfmetrics.go:65-73, 130-136).
FrozenWithoutGC ==
    Measured /\ Sub.gcCycles = 0 =>
        /\ Sub.runtime = 0
        /\ ~RuntimeCPUUsable(Sub)
        /\ ~osCPU => Sub.cpu = 0

\* The runtime's window can be shifted against the measured one, and by how
\* much is known: it reaches back before the window by the staleness of the
\* start snapshot.  If that is within a tenth of the window, usable figures
\* describe more than eight tenths of it (selfmetrics.go:220-236).
FreshUsableCovers ==
    Measured /\ RuntimeCPUUsable(Sub)
             /\ (start.at - AsOf(start)) * 10 <= Sub.duration =>
        Covered * 10 > Sub.duration * 8
=============================================================================
