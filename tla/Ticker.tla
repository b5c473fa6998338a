------------------------------- MODULE Ticker -------------------------------
(***************************************************************************)
(* internal/load/load.go: the generator goroutine that paces the run, the  *)
(* permits channel, and the workers blocked in Wait.                       *)
(*                                                                         *)
(* Time is discrete and kept in two saturating timers: elapsed counts up   *)
(* to the end of the profile (every later instant is alike to the code),   *)
(* and left counts down to the deadline the generator sleeps towards.      *)
(* Nothing bounds how long a ready generator or worker is delayed, so a    *)
(* late wake-up, a GC pause or a blocked send are all behaviours.          *)
(***************************************************************************)
EXTENDS Integers

CONSTANTS Cap,              \* capacity of the permits channel
          Slice,            \* the 100ms cadence, in time units
          Workers,          \* callers of Wait
          Profiles          \* the load profiles a run may be started with

ASSUME TickerAssumption ==
    /\ Cap \in Nat \ {0}
    /\ Slice \in Nat \ {0}
    /\ Profiles \subseteq [target: Nat, ramp: Nat, plateau: Nat]

VARIABLES profile,          \* Profile{TargetRPS, Ramp, Plateau}, fixed
          elapsed,          \* time.Since(t.start), saturating at Total
          left,             \* time until sliceEnd, saturating at 0
          gen,              \* control point of the generator goroutine
          n, i,             \* permits of the current slice, and those sent
          avail, closed,    \* the permits channel
          stopped,          \* t.done is closed
          cancelled,        \* the ctx the workers pass to Wait
          waiting, refused, \* workers inside Wait, workers told FALSE
          sent, late        \* history: permits sent, and sent after Total

genVars  == <<left, gen, n, i>>
chanVars == <<avail, closed>>
waitVars == <<waiting, refused>>
history  == <<sent, late>>
vars == <<profile, elapsed, genVars, chanVars, stopped, cancelled, waitVars,
          history>>

Total == profile.ramp + profile.plateau

\* Slices per second: rates are per second, a slice is 100ms.
PerSecond == 10

Larger(a, b) == IF a >= b THEN a ELSE b

\* int(rateAt(t) * slice.Seconds()), at least 1: the ramp scales the target by
\* t/Ramp but never by less than 0.02, and the product is truncated.
PermitsAt(p, t) ==
    LET perSlice == IF t >= p.ramp
                      THEN p.target \div PerSecond
                      ELSE (p.target * Larger(50 * t, p.ramp))
                              \div (50 * p.ramp * PerSecond)
    IN  Larger(perSlice, 1)

\* The gap between two permits of a slice of k permits, truncated.
Interval(k) == Slice \div k

\* Mutant: the deadline of a permit is taken one interval early.
RestAfterEarly(j) == (n - j) * Interval(n)

\* Permit j (from 0) of the slice is followed by a sleep until this much of the
\* slice is left.
RestAfter(j) == (n - j - 1) * Interval(n)

\* Mutant: a late generator makes up for lost time.
RestedAtOnce == TRUE

\* time.Until of that deadline is not positive.
Rested == left <= RestAfter(i)

\* Mutants: the run never ends; the run ends with the ramp.
OverNever == FALSE
OverWithRamp == elapsed >= profile.ramp

\* elapsed >= t.profile.Total()
Over == elapsed >= Total

Room == avail < Cap

\* Mutant: a receiver is told of the close while permits are left.
DrainedOnClose == closed

\* A receive on the channel yields ok = FALSE.
Drained == closed /\ avail = 0

TypeOK ==
    /\ profile \in Profiles
    /\ elapsed \in 0..Total
    /\ left \in 0..Slice
    /\ gen \in {"poll", "measure", "idle", "open", "send", "sleep", "exit"}
    /\ n \in Nat \ {0} /\ i \in 0..n
    /\ gen \in {"open", "send", "sleep"} => i < n
    /\ avail \in 0..Cap
    /\ closed \in BOOLEAN /\ stopped \in BOOLEAN /\ cancelled \in BOOLEAN
    /\ waiting \subseteq Workers /\ refused \subseteq Workers
    /\ sent \in Nat /\ late \in Nat

\* NewTicker: the generator is started at once.
Init ==
    /\ profile \in Profiles
    /\ elapsed = 0 /\ left = 0
    /\ gen = "poll" /\ n = 1 /\ i = 0
    /\ avail = 0 /\ closed = FALSE
    /\ stopped = FALSE /\ cancelled = FALSE
    /\ waiting = {} /\ refused = {}
    /\ sent = 0 /\ late = 0

-----------------------------------------------------------------------------
(* The generator, run() *)

\* Mutant: no deferred close.
ReturnOpen == gen' = "exit" /\ UNCHANGED closed

\* Returning runs the deferred close(t.permits).
Return == gen' = "exit" /\ closed' = TRUE

\* The non-blocking look at t.done at the head of the loop.
Poll ==
    /\ gen = "poll"
    /\ \/ stopped /\ Return
       \/ ~stopped /\ gen' = "measure" /\ UNCHANGED closed
    /\ UNCHANGED <<profile, elapsed, left, n, i, avail, stopped, cancelled,
                   waitVars, history>>

\* Read the clock: end of the run, a rate of zero, or the size of a slice.
Measure ==
    /\ gen = "measure"
    /\ \/ Over /\ Return /\ UNCHANGED <<left, n>>
       \/ /\ ~Over /\ profile.target = 0
          /\ gen' = "idle" /\ left' = Slice
          /\ UNCHANGED <<n, closed>>
       \/ /\ ~Over /\ profile.target > 0
          /\ n' = PermitsAt(profile, elapsed)
          /\ gen' = "open"
          /\ UNCHANGED <<left, closed>>
    /\ i' = 0
    /\ UNCHANGED <<profile, elapsed, avail, stopped, cancelled, waitVars,
                   history>>

\* time.Sleep(slice) of a rate of zero is over.
IdleDone ==
    /\ gen = "idle" /\ left = 0
    /\ gen' = "poll"
    /\ UNCHANGED <<profile, elapsed, left, n, i, chanVars, stopped, cancelled,
                   waitVars, history>>

\* sliceEnd := time.Now().Add(slice)
OpenSlice ==
    /\ gen = "open"
    /\ left' = Slice /\ gen' = "send"
    /\ UNCHANGED <<profile, elapsed, n, i, chanVars, stopped, cancelled,
                   waitVars, history>>

\* t.permits <- struct{}{}: blocks while the buffer is full.
Send ==
    /\ gen = "send" /\ Room
    /\ avail' = avail + 1
    /\ gen' = "sleep"
    /\ sent' = sent + 1
    /\ late' = IF elapsed >= Total THEN late + 1 ELSE late
    /\ UNCHANGED <<profile, elapsed, left, n, i, closed, stopped, cancelled,
                   waitVars>>

\* Mutant: a plain send, deaf to t.done.
SendAbortedNever == FALSE

\* The other branch of the same select; with both ready either may be taken.
SendAborted ==
    /\ gen = "send" /\ stopped
    /\ Return
    /\ UNCHANGED <<profile, elapsed, left, n, i, avail, stopped, cancelled,
                   waitVars, history>>

\* The sleep after a permit: none when its deadline has passed already.
Wake ==
    /\ gen = "sleep" /\ Rested
    /\ i' = i + 1
    /\ gen' = IF i + 1 < n THEN "send" ELSE "poll"
    /\ UNCHANGED <<profile, elapsed, left, n, chanVars, stopped, cancelled,
                   waitVars, history>>

Generator == \/ Poll \/ Measure \/ IdleDone \/ OpenSlice
             \/ Send \/ SendAborted \/ Wake

-----------------------------------------------------------------------------
(* The workers, the caller of Stop, and the clock *)

CallWait(w) ==
    /\ w \notin waiting \cup refused
    /\ waiting' = waiting \cup {w}
    /\ UNCHANGED <<profile, elapsed, genVars, chanVars, stopped, cancelled,
                   refused, history>>

\* Wait returns TRUE: one permit received, also from a closed channel that
\* still holds some.
Released(w) ==
    /\ w \in waiting /\ avail > 0
    /\ avail' = avail - 1
    /\ waiting' = waiting \ {w}
    /\ UNCHANGED <<profile, elapsed, genVars, closed, stopped, cancelled,
                   refused, history>>

\* Wait returns FALSE: the channel is closed and empty, or ctx is done.
Refused(w) ==
    /\ w \in waiting
    /\ Drained \/ cancelled
    /\ waiting' = waiting \ {w} /\ refused' = refused \cup {w}
    /\ UNCHANGED <<profile, elapsed, genVars, chanVars, stopped, cancelled,
                   history>>

Stop ==
    /\ ~stopped /\ stopped' = TRUE
    /\ UNCHANGED <<profile, elapsed, genVars, chanVars, cancelled, waitVars,
                   history>>

Cancel ==
    /\ ~cancelled /\ cancelled' = TRUE
    /\ UNCHANGED <<profile, elapsed, genVars, chanVars, stopped, waitVars,
                   history>>

Tick ==
    /\ elapsed < Total \/ left > 0
    /\ elapsed' = IF elapsed < Total THEN elapsed + 1 ELSE elapsed
    /\ left' = IF left > 0 THEN left - 1 ELSE left
    /\ UNCHANGED <<profile, gen, n, i, chanVars, stopped, cancelled, waitVars,
                   history>>

WaitReturn(w) == Released(w) \/ Refused(w)

Next == \/ Generator \/ Stop \/ Cancel \/ Tick
        \/ \E w \in Workers: CallWait(w) \/ Released(w) \/ Refused(w)

\* The clock runs, the Go scheduler runs a runnable generator, and a worker
\* whose Wait can return is woken.  No worker has to call Wait again, and
\* nobody has to cancel or to stop the run.
Fairness == /\ WF_vars(Generator)
            /\ WF_vars(Tick)
            /\ \A w \in Workers: WF_vars(WaitReturn(w))

Spec == Init /\ [][Next]_vars /\ Fairness

-----------------------------------------------------------------------------
(* Properties *)

\* The most permits one slice of this run may hold.
MaxPermits == Larger(profile.target \div PerSecond, 1)

\* The generator never catches up: however late it wakes and however long it
\* was blocked, it has never sent more than one full slice of permits for each
\* slice of time that has begun (sliceEnd is taken from the clock of each
\* slice, load.go:101).
NeverAhead == sent <= MaxPermits * ((elapsed \div Slice) + 1)

\* Within a slice permit i is not sent before its predecessor's deadline, so a
\* slice that is on time is spread over its whole length and not sent in one
\* burst (load.go:108).
Paced == gen = "send" /\ i > 0 => left <= (n - i) * Interval(n)

\* After the end of the profile the generator finishes at most the slice it
\* was in: the overrun is never more than one slice of permits (load.go:85).
OverrunBounded == late <= n

\* No Wait returns FALSE while the run goes on or a permit is left, unless the
\* run was cancelled: a worker never leaves the run early (load.go:118-123).
NoEarlyRefusal == refused # {} /\ ~cancelled => closed /\ avail = 0

\* Stop ends the generator even when the buffer is full and nobody receives,
\* the case the select on t.done is there for (load.go:103-107).
StopHalts == stopped ~> closed

\* Every Wait returns: a permit arrives, or the run ends and closes the
\* channel, whatever the other workers do (load.go:73, 117-124).
WaitReturns == \A w \in Workers: w \in waiting ~> w \notin waiting

\* To an observer of the channel the generator is the bounded permit source
\* that the driver is built on: it closes once, and only when over or stopped.
PS == INSTANCE PermitSource WITH
        phase <- IF elapsed < profile.ramp THEN "ramp"
                 ELSE IF elapsed < Total THEN "plateau" ELSE "over"

ImplementsPermitSource == PS!Spec
=============================================================================
