---------------------------- MODULE DriverProofs ----------------------------
(***************************************************************************)
(* The accounting of a run, for any number of workers, permits and         *)
(* readings: type correctness, where every call is counted when the report *)
(* is made, the bound on the skew of the four latches, the bound on the    *)
(* requests a report does not pay for, the two ends of the window, and     *)
(* that the paced driver implements the one all this is proved of.         *)
(*                                                                         *)
(* The three bounds rest on one inductive invariant, IInv, which follows   *)
(* the calls in flight through the counters and says what each latched     *)
(* baseline may have missed.                                               *)
(***************************************************************************)
EXTENDS PacedDriver, FiniteSetTheorems, TLAPS

-----------------------------------------------------------------------------
(* How many workers stand at a set of control points *)

Count(f, S) == Cardinality({v \in Workers: f[v] \in S})

\* 1 when pc is one of S, 0 otherwise.
Member(pc, S) == IF pc \in S THEN 1 ELSE 0

\* A count of workers is a number of at most W.
LEMMA CountBound ==
    ASSUME NEW f, NEW S
    PROVE  Count(f, S) \in Nat /\ W \in Nat /\ Count(f, S) <= W
<1>1. {v \in Workers: f[v] \in S} \subseteq Workers
  OBVIOUS
<1>2. IsFiniteSet(Workers)
  BY DriverAssumption
<1> QED
  BY <1>1, <1>2, FS_Subset, FS_CardinalityType DEF Count, W

\* One worker that moves changes the count of S by what it leaves and enters.
LEMMA CountMove ==
    ASSUME NEW f \in [Workers -> WorkerPc], NEW w \in Workers,
           NEW pc \in WorkerPc, NEW S
    PROVE  Count([f EXCEPT ![w] = pc], S)
             = Count(f, S) + Member(pc, S) - Member(f[w], S)
<1> DEFINE g == [f EXCEPT ![w] = pc]
           A == {v \in Workers: f[v] \in S}
           B == {v \in Workers: g[v] \in S}
<1>1. IsFiniteSet(A) /\ IsFiniteSet(B)
  BY DriverAssumption, FS_Subset
<1>2. Cardinality(A) \in Nat /\ Cardinality(B) \in Nat
  BY <1>1, FS_CardinalityType
<1>3. CASE pc \in S /\ f[w] \in S
  <2>1. B = A
    BY <1>3
  <2> QED
    BY <1>2, <1>3, <2>1 DEF Count, Member
<1>4. CASE pc \notin S /\ f[w] \notin S
  <2>1. B = A
    BY <1>4
  <2> QED
    BY <1>2, <1>4, <2>1 DEF Count, Member
<1>5. CASE pc \in S /\ f[w] \notin S
  <2>1. B = A \cup {w} /\ w \notin A
    BY <1>5
  <2>2. Cardinality(B) = Cardinality(A) + 1
    BY <1>1, <2>1, FS_AddElement
  <2> QED
    BY <1>2, <1>5, <2>2 DEF Count, Member
<1>6. CASE pc \notin S /\ f[w] \in S
  <2>1. B = A \ {w} /\ w \in A
    BY <1>6
  <2>2. Cardinality(B) = Cardinality(A) - 1
    BY <1>1, <2>1, FS_RemoveElement
  <2> QED
    BY <1>2, <1>6, <2>2 DEF Count, Member
<1> QED
  BY <1>3, <1>4, <1>5, <1>6

-----------------------------------------------------------------------------
(* Type correctness *)

\* The initial states are well typed,
LEMMA TypeInit == Init => TypeOK
<1> SUFFICES ASSUME Init PROVE TypeOK
  OBVIOUS
<1>1. Source!TypeOK
  <2>1. avail \in 0..Cap
    BY DriverAssumption DEF Init, Source!Init
  <2>2. phase \in Source!Phases
    BY DEF Init, Source!Init
  <2>3. closed \in BOOLEAN /\ stopped \in BOOLEAN
    BY Zenon DEF Init, Source!Init
  <2> QED
    BY <2>1, <2>2, <2>3 DEF Source!TypeOK
<1>2. main \in MainPc
  BY DEF Init, MainPc
<1>3. NoSnap \in Snapshots
  BY DEF NoSnap, Snapshots, Source!Phases
<1>4. rep \in [made: BOOLEAN, requests: Int, errors: Int, non2xx: Int,
               body: Int, sample: BOOLEAN, resident: Nat]
  BY DEF Init, NoReport
<1>5. wk \in [Workers -> WorkerPc] /\ out \in [Workers -> Outcomes]
  BY DEF Init, WorkerPc, Outcomes
<1> QED
  BY <1>1, <1>2, <1>3, <1>4, <1>5 DEF Init, TypeOK

\* and every step leaves it well typed.
LEMMA TypeNext == TypeOK /\ [Next]_vars => TypeOK'
<1> SUFFICES ASSUME TypeOK, [Next]_vars PROVE TypeOK'
  OBVIOUS
<1> USE DriverAssumption DEF TypeOK, Source!TypeOK, Source!Phases
<1> USE DEF srcVars, counters, latches, snapVars, mainVars, smpVars, workVars
<1>1. CASE Emit
  BY <1>1 DEF Emit, Source!Emit
<1>2. CASE Close
  BY <1>2 DEF Close, Source!Close
<1>3. CASE AdvanceClock
  BY <1>3 DEF AdvanceClock, Source!AdvanceClock
<1>4. CASE Signal
  BY <1>4 DEF Signal
<1>5. ASSUME NEW w \in Workers, Return(w) \/ WorkerStep(w) PROVE TypeOK'
  <2> USE DEF Goto, Forget, WorkerPc, Outcomes
  <2>1. CASE Return(w)
    BY <2>1 DEF Return
  <2>2. CASE Permit(w)
    BY <2>2 DEF Permit, Source!Take
  <2>3. CASE Leave(w)
    BY <2>3 DEF Leave
  <2>4. CASE CountTotal(w)
    BY <2>4 DEF CountTotal
  <2>5. CASE Abort(w)
    BY <2>5 DEF Abort
  <2>6. CASE CountError(w)
    BY <2>6 DEF CountError, ErrorNext
  <2>7. CASE KeepSample(w)
    BY <2>7 DEF KeepSample
  <2>8. CASE CountStatus(w)
    BY <2>8 DEF CountStatus
  <2>9. CASE CountBody(w)
    BY <2>9 DEF CountBody
  <2>10. CASE Blame(w)
    BY <2>10 DEF Blame
  <2> QED
    BY <1>5, <2>1, <2>2, <2>3, <2>4, <2>5, <2>6, <2>7, <2>8, <2>9, <2>10
    DEF WorkerStep
<1>6. CASE MainStep
  <2> USE DEF MainGoto, MainPc, Then
  <2>1. CASE RampSkipped
    BY <2>1 DEF RampSkipped
  <2>2. CASE RampOver
    BY <2>2 DEF RampOver
  <2>3. ASSUME NEW pc \in {"profile", "endProfile"}, WriteProfile(pc)
        PROVE  TypeOK'
    BY <2>3 DEF WriteProfile
  <2>4. CASE StartSnap
    BY <2>4 DEF StartSnap, Read, Snapshots
  <2>5. CASE LatchTotal
    BY <2>5 DEF LatchTotal
  <2>6. CASE LatchErrs
    BY <2>6 DEF LatchErrs, ErrsBaseline
  <2>7. CASE LatchNon2xx
    BY <2>7 DEF LatchNon2xx
  <2>8. CASE LatchBody
    BY <2>8 DEF LatchBody
  <2>9. CASE Join
    BY <2>9 DEF Join
  <2>10. CASE EndSnap
    BY <2>10 DEF EndSnap, Read, Snapshots
  <2>11. CASE BuildReport
    BY <2>11 DEF BuildReport
  <2>12. CASE Resident
    BY <2>12 DEF Resident
  <2>13. CASE StopTicker
    BY <2>13 DEF StopTicker, Source!Stop
  <2>14. CASE CancelContext
    BY <2>14 DEF CancelContext
  <2> QED
    BY <1>6, <2>1, <2>2, <2>3, <2>4, <2>5, <2>6, <2>7, <2>8, <2>9, <2>10,
       <2>11, <2>12, <2>13, <2>14 DEF MainStep
<1>7. CASE Sampler
  BY <1>7 DEF Sampler, SampleTick, SampleRead, SampleAdd, SamplerExit
<1>8. CASE UNCHANGED vars
  BY <1>8 DEF vars
<1> QED
  BY <1>1, <1>2, <1>3, <1>4, <1>5, <1>6, <1>7, <1>8 DEF Next, Exited

\* The state of every run is well typed, whatever the number of workers, the
\* capacity of the channel and the length of the run.
THEOREM DriverTypeOK == SafetySpec => []TypeOK
  BY TypeInit, TypeNext, PTL DEF SafetySpec

-----------------------------------------------------------------------------
(* The inductive invariant *)

\* Calls counted in total that have not been tallied to the end, calls that
\* have returned and are not in total yet, and so on, by control point.
Pending   == {"tally", "blame", "body"}
Untallied == {"tally", "blame"}
Uncounted == {"count"}
Gone      == {"exit"}

\* The control points of main after a given step.
AfterBuild == {"resident", "stop", "cancel", "exit"}
AfterEnd   == {"endProfile", "build"} \cup AfterBuild
AfterJoin  == {"endSnap"} \cup AfterEnd
AfterTotal == {"latchErrs", "latchNon2xx", "latchBody", "join"} \cup AfterJoin
AfterSnap  == {"latchTotal"} \cup AfterTotal

\* The baselines the report will use, for those not latched yet the counter.
BaseErrs   == IF main = "latchErrs" THEN errs ELSE startErrs
BaseNon2xx == IF main \in {"latchErrs", "latchNon2xx"} THEN non2xx
                                                      ELSE startNon2xx
BaseBody   == IF main \in {"latchErrs", "latchNon2xx", "latchBody"} THEN bodyByte
                                                                   ELSE startBody

\* Every counted call is in one place, every returned call is counted or about
\* to be; a worker aborts once and only in a cancelled run; an error leaves a
\* sample, or a worker about to leave one.
WorkInv ==
    /\ total = bodyByte + errs + aborted + Count(wk, Pending)
    /\ served = total + Count(wk, Uncounted)
    /\ aborted <= Count(wk, Gone)
    /\ aborted > 0 => cancelled
    /\ errs > 0 => firstErr \/ \E w \in Workers: wk[w] = "sample"

\* What the baselines may have missed: at most one call per worker.
WindowInv ==
    /\ main \in AfterSnap => startSnap.served <= served
    /\ main \in AfterTotal =>
         /\ startSnap.served <= startTotal + W
         /\ startTotal <= BaseErrs + BaseBody + aborted + W
         /\ errs + non2xx + Count(wk, Untallied) + startTotal
               <= total + BaseErrs + BaseNon2xx + W

\* The end of the window: all workers gone, the snapshot and the report final.
EndInv ==
    /\ main \in AfterJoin => \A w \in Workers: wk[w] = "exit"
    /\ endSnap.taken => main \in AfterEnd
    /\ main \in AfterEnd => endSnap.served = served
    /\ rep.made => /\ main \in AfterBuild
                   /\ rep.requests = total - startTotal
                   /\ rep.errors = errs - startErrs
                   /\ rep.non2xx = non2xx - startNon2xx
                   /\ rep.body = bodyByte - startBody
                   /\ rep.sample = firstErr

IInv == TypeOK /\ WorkInv /\ WindowInv /\ EndInv

\* The four counts are numbers of at most W.
LEMMA Counts ==
    /\ W \in Nat
    /\ Count(wk, Pending) \in 0..W /\ Count(wk, Untallied) \in 0..W
    /\ Count(wk, Uncounted) \in 0..W /\ Count(wk, Gone) \in 0..W
<1>1. \A S: Count(wk, S) \in Nat /\ W \in Nat /\ Count(wk, S) <= W
  BY CountBound
<1>2. \A S: Count(wk, S) \in 0..W
  BY <1>1
<1> QED
  BY <1>1, <1>2

\* What a worker's move does to the four counts.
LEMMA Moves ==
    ASSUME TypeOK, NEW w \in Workers, NEW pc \in WorkerPc, Goto(w, pc)
    PROVE  /\ Count(wk, Pending)' = Count(wk, Pending)
                + Member(pc, Pending) - Member(wk[w], Pending)
           /\ Count(wk, Untallied)' = Count(wk, Untallied)
                + Member(pc, Untallied) - Member(wk[w], Untallied)
           /\ Count(wk, Uncounted)' = Count(wk, Uncounted)
                + Member(pc, Uncounted) - Member(wk[w], Uncounted)
           /\ Count(wk, Gone)' = Count(wk, Gone)
                + Member(pc, Gone) - Member(wk[w], Gone)
<1>1. wk \in [Workers -> WorkerPc] /\ wk' = [wk EXCEPT ![w] = pc]
  BY DEF TypeOK, Goto
<1>2. \A S: Count([wk EXCEPT ![w] = pc], S)
              = Count(wk, S) + Member(pc, S) - Member(wk[w], S)
  BY <1>1, CountMove
<1>3. \A S: Count(wk', S) = Count(wk, S) + Member(pc, S) - Member(wk[w], S)
  BY <1>1, <1>2
<1>4. /\ Count(wk, Pending)' = Count(wk', Pending)
      /\ Count(wk, Untallied)' = Count(wk', Untallied)
      /\ Count(wk, Uncounted)' = Count(wk', Uncounted)
      /\ Count(wk, Gone)' = Count(wk', Gone)
  BY DEF Count, Pending, Untallied, Uncounted, Gone
<1> QED
  BY <1>3, <1>4

\* A step of a worker preserves the invariant: it moves one call from one place
\* of the balance to the next, and none is taken once main has joined.
LEMMA WorkerPreserves ==
    ASSUME IInv, TypeOK', NEW w \in Workers, Return(w) \/ WorkerStep(w)
    PROVE  IInv'
<1> USE DEF IInv
<1>0. TypeOK /\ WorkInv /\ WindowInv /\ EndInv
  OBVIOUS
<1>a. ASSUME wk[w] # "exit", UNCHANGED mainVars
      PROVE  EndInv'
  <2>1. main \notin AfterJoin
    BY <1>a DEF EndInv
  <2>2. ~endSnap.taken /\ main \notin AfterEnd /\ ~rep.made
    BY <2>1 DEF EndInv, AfterJoin, AfterEnd
  <2>3. main' = main /\ endSnap' = endSnap /\ rep' = rep
    BY <1>a DEF mainVars, snapVars
  <2> QED
    BY <2>1, <2>2, <2>3 DEF EndInv
<1>1. CASE Return(w)
  <2>1. /\ Count(wk, Pending)' = Count(wk, Pending)
        /\ Count(wk, Untallied)' = Count(wk, Untallied)
        /\ Count(wk, Uncounted)' = Count(wk, Uncounted) + 1
        /\ Count(wk, Gone)' = Count(wk, Gone)
    <3>1. wk[w] = "call" /\ Goto(w, "count") /\ "count" \in WorkerPc
      BY <1>1 DEF Return, WorkerPc
    <3> QED
      BY <3>1, Moves, Counts
      DEF Member, Pending, Untallied, Uncounted, Gone
  <2>2. wk[w] = "call" /\ UNCHANGED mainVars
    BY <1>1 DEF Return
  <2>3. WorkInv'
    BY <1>1, <2>1, <1>0, Counts
    DEF Return, Goto, counters, WorkInv, TypeOK
  <2>4. WindowInv'
    BY <1>1, <2>1, <1>0, Counts
    DEF Return, counters, mainVars, latches, snapVars, WindowInv, TypeOK,
        BaseErrs, BaseNon2xx, BaseBody, Snapshots
  <2> QED
    BY <1>0, <1>a, <2>2, <2>3, <2>4
<1>2. CASE Permit(w)
  <2>1. /\ Count(wk, Pending)' = Count(wk, Pending)
        /\ Count(wk, Untallied)' = Count(wk, Untallied)
        /\ Count(wk, Uncounted)' = Count(wk, Uncounted)
        /\ Count(wk, Gone)' = Count(wk, Gone)
    <3>1. wk[w] = "wait" /\ Goto(w, "call") /\ "call" \in WorkerPc
      BY <1>2 DEF Permit, WorkerPc
    <3> QED
      BY <3>1, Moves, Counts
      DEF Member, Pending, Untallied, Uncounted, Gone
  <2>2. wk[w] = "wait" /\ UNCHANGED mainVars
    BY <1>2 DEF Permit
  <2>3. WorkInv'
    BY <1>2, <2>1, <1>0, Counts
    DEF Permit, Goto, counters, WorkInv, TypeOK
  <2>4. WindowInv'
    BY <1>2, <2>1, <1>0, Counts
    DEF Permit, counters, mainVars, latches, snapVars, WindowInv, TypeOK,
        BaseErrs, BaseNon2xx, BaseBody, Snapshots
  <2> QED
    BY <1>0, <1>a, <2>2, <2>3, <2>4
<1>3. CASE Leave(w)
  <2>1. /\ Count(wk, Pending)' = Count(wk, Pending)
        /\ Count(wk, Untallied)' = Count(wk, Untallied)
        /\ Count(wk, Uncounted)' = Count(wk, Uncounted)
        /\ Count(wk, Gone)' = Count(wk, Gone) + 1
    <3>1. wk[w] = "wait" /\ Goto(w, "exit") /\ "exit" \in WorkerPc
      BY <1>3 DEF Leave, WorkerPc
    <3> QED
      BY <3>1, Moves, Counts
      DEF Member, Pending, Untallied, Uncounted, Gone
  <2>2. wk[w] = "wait" /\ UNCHANGED mainVars
    BY <1>3 DEF Leave
  <2>3. WorkInv'
    BY <1>3, <2>1, <1>0, Counts
    DEF Leave, Goto, counters, WorkInv, TypeOK
  <2>4. WindowInv'
    BY <1>3, <2>1, <1>0, Counts
    DEF Leave, counters, mainVars, latches, snapVars, WindowInv, TypeOK,
        BaseErrs, BaseNon2xx, BaseBody, Snapshots
  <2> QED
    BY <1>0, <1>a, <2>2, <2>3, <2>4
<1>4. CASE CountTotal(w)
  <2>1. /\ Count(wk, Pending)' = Count(wk, Pending) + 1
        /\ Count(wk, Untallied)' = Count(wk, Untallied) + 1
        /\ Count(wk, Uncounted)' = Count(wk, Uncounted) - 1
        /\ Count(wk, Gone)' = Count(wk, Gone)
    <3>1. wk[w] = "count" /\ Goto(w, "tally") /\ "tally" \in WorkerPc
      BY <1>4 DEF CountTotal, WorkerPc
    <3> QED
      BY <3>1, Moves, Counts
      DEF Member, Pending, Untallied, Uncounted, Gone
  <2>2. wk[w] = "count" /\ UNCHANGED mainVars
    BY <1>4 DEF CountTotal
  <2>3. WorkInv'
    BY <1>4, <2>1, <1>0, Counts
    DEF CountTotal, Goto, counters, WorkInv, TypeOK
  <2>4. WindowInv'
    BY <1>4, <2>1, <1>0, Counts
    DEF CountTotal, counters, mainVars, latches, snapVars, WindowInv, TypeOK,
        BaseErrs, BaseNon2xx, BaseBody, Snapshots
  <2> QED
    BY <1>0, <1>a, <2>2, <2>3, <2>4
<1>5. CASE Abort(w)
  <2>1. /\ Count(wk, Pending)' = Count(wk, Pending) - 1
        /\ Count(wk, Untallied)' = Count(wk, Untallied) - 1
        /\ Count(wk, Uncounted)' = Count(wk, Uncounted)
        /\ Count(wk, Gone)' = Count(wk, Gone) + 1
    <3>1. wk[w] = "tally" /\ Goto(w, "exit") /\ "exit" \in WorkerPc
      BY <1>5 DEF Abort, WorkerPc
    <3> QED
      BY <3>1, Moves, Counts
      DEF Member, Pending, Untallied, Uncounted, Gone
  <2>2. wk[w] = "tally" /\ UNCHANGED mainVars
    BY <1>5 DEF Abort
  <2>3. WorkInv'
    BY <1>5, <2>1, <1>0, Counts
    DEF Abort, Goto, counters, WorkInv, TypeOK
  <2>4. WindowInv'
    BY <1>5, <2>1, <1>0, Counts
    DEF Abort, counters, mainVars, latches, snapVars, WindowInv, TypeOK,
        BaseErrs, BaseNon2xx, BaseBody, Snapshots
  <2> QED
    BY <1>0, <1>a, <2>2, <2>3, <2>4
<1>6. CASE CountError(w)
  <2>1. /\ Count(wk, Pending)' = Count(wk, Pending) - 1
        /\ Count(wk, Untallied)' = Count(wk, Untallied) - 1
        /\ Count(wk, Uncounted)' = Count(wk, Uncounted)
        /\ Count(wk, Gone)' = Count(wk, Gone)
    <3>1. wk[w] = "blame" /\ Goto(w, "sample") /\ "sample" \in WorkerPc
      BY <1>6 DEF CountError, ErrorNext, WorkerPc
    <3> QED
      BY <3>1, Moves, Counts
      DEF Member, Pending, Untallied, Uncounted, Gone
  <2>2. wk[w] = "blame" /\ UNCHANGED mainVars
    BY <1>6 DEF CountError
  <2>3. WorkInv'
    BY <1>6, <2>1, <1>0, Counts
    DEF CountError, ErrorNext, Goto, counters, WorkInv, TypeOK
  <2>4. WindowInv'
    BY <1>6, <2>1, <1>0, Counts
    DEF CountError, counters, mainVars, latches, snapVars, WindowInv, TypeOK,
        BaseErrs, BaseNon2xx, BaseBody, Snapshots
  <2> QED
    BY <1>0, <1>a, <2>2, <2>3, <2>4
<1>7. CASE KeepSample(w)
  <2>1. /\ Count(wk, Pending)' = Count(wk, Pending)
        /\ Count(wk, Untallied)' = Count(wk, Untallied)
        /\ Count(wk, Uncounted)' = Count(wk, Uncounted)
        /\ Count(wk, Gone)' = Count(wk, Gone)
    <3>1. wk[w] = "sample" /\ Goto(w, "wait") /\ "wait" \in WorkerPc
      BY <1>7 DEF KeepSample, WorkerPc
    <3> QED
      BY <3>1, Moves, Counts
      DEF Member, Pending, Untallied, Uncounted, Gone
  <2>2. wk[w] = "sample" /\ UNCHANGED mainVars
    BY <1>7 DEF KeepSample
  <2>3. WorkInv'
    BY <1>7, <2>1, <1>0, Counts
    DEF KeepSample, Goto, counters, WorkInv, TypeOK
  <2>4. WindowInv'
    BY <1>7, <2>1, <1>0, Counts
    DEF KeepSample, counters, mainVars, latches, snapVars, WindowInv, TypeOK,
        BaseErrs, BaseNon2xx, BaseBody, Snapshots
  <2> QED
    BY <1>0, <1>a, <2>2, <2>3, <2>4
<1>8. CASE CountStatus(w)
  <2>1. /\ Count(wk, Pending)' = Count(wk, Pending)
        /\ Count(wk, Untallied)' = Count(wk, Untallied) - 1
        /\ Count(wk, Uncounted)' = Count(wk, Uncounted)
        /\ Count(wk, Gone)' = Count(wk, Gone)
    <3>1. wk[w] = "tally" /\ Goto(w, "body") /\ "body" \in WorkerPc
      BY <1>8 DEF CountStatus, WorkerPc
    <3> QED
      BY <3>1, Moves, Counts
      DEF Member, Pending, Untallied, Uncounted, Gone
  <2>2. wk[w] = "tally" /\ UNCHANGED mainVars
    BY <1>8 DEF CountStatus
  <2>3. WorkInv'
    BY <1>8, <2>1, <1>0, Counts
    DEF CountStatus, Goto, counters, WorkInv, TypeOK
  <2>4. WindowInv'
    BY <1>8, <2>1, <1>0, Counts
    DEF CountStatus, counters, mainVars, latches, snapVars, WindowInv, TypeOK,
        BaseErrs, BaseNon2xx, BaseBody, Snapshots
  <2> QED
    BY <1>0, <1>a, <2>2, <2>3, <2>4
<1>9. CASE CountBody(w)
  <2>1. /\ Count(wk, Pending)' = Count(wk, Pending) - 1
        /\ Count(wk, Untallied)' = Count(wk, Untallied)
        /\ Count(wk, Uncounted)' = Count(wk, Uncounted)
        /\ Count(wk, Gone)' = Count(wk, Gone)
    <3>1. wk[w] = "body" /\ Goto(w, "wait") /\ "wait" \in WorkerPc
      BY <1>9 DEF CountBody, WorkerPc
    <3> QED
      BY <3>1, Moves, Counts
      DEF Member, Pending, Untallied, Uncounted, Gone
  <2>2. wk[w] = "body" /\ UNCHANGED mainVars
    BY <1>9 DEF CountBody
  <2>3. WorkInv'
    BY <1>9, <2>1, <1>0, Counts
    DEF CountBody, Goto, counters, WorkInv, TypeOK
  <2>4. WindowInv'
    BY <1>9, <2>1, <1>0, Counts
    DEF CountBody, counters, mainVars, latches, snapVars, WindowInv, TypeOK,
        BaseErrs, BaseNon2xx, BaseBody, Snapshots
  <2> QED
    BY <1>0, <1>a, <2>2, <2>3, <2>4
<1>10. CASE Blame(w)
  <2>1. /\ Count(wk, Pending)' = Count(wk, Pending)
        /\ Count(wk, Untallied)' = Count(wk, Untallied)
        /\ Count(wk, Uncounted)' = Count(wk, Uncounted)
        /\ Count(wk, Gone)' = Count(wk, Gone)
    <3>1. wk[w] = "tally" /\ Goto(w, "blame") /\ "blame" \in WorkerPc
      BY <1>10 DEF Blame, WorkerPc
    <3> QED
      BY <3>1, Moves, Counts
      DEF Member, Pending, Untallied, Uncounted, Gone
  <2>2. wk[w] = "tally" /\ UNCHANGED mainVars
    BY <1>10 DEF Blame
  <2>3. WorkInv'
    BY <1>10, <2>1, <1>0, Counts
    DEF Blame, Goto, counters, WorkInv, TypeOK
  <2>4. WindowInv'
    BY <1>10, <2>1, <1>0, Counts
    DEF Blame, counters, mainVars, latches, snapVars, WindowInv, TypeOK,
        BaseErrs, BaseNon2xx, BaseBody, Snapshots
  <2> QED
    BY <1>0, <1>a, <2>2, <2>3, <2>4
<1> QED
  BY <1>1, <1>2, <1>3, <1>4, <1>5, <1>6, <1>7, <1>8, <1>9, <1>10 DEF WorkerStep

\* A step that moves neither a worker nor main preserves the invariant.
LEMMA OtherPreserves ==
    ASSUME IInv, TypeOK', UNCHANGED <<workVars, mainVars>>,
           cancelled => cancelled'
    PROVE  IInv'
<1>1. /\ UNCHANGED <<wk, total, errs, non2xx, bodyByte, firstErr, served, aborted>>
      /\ UNCHANGED <<main, startTotal, startErrs, startNon2xx, startBody>>
      /\ UNCHANGED <<startSnap, endSnap, rep>>
  BY DEF workVars, counters, mainVars, latches, snapVars
<1>2. WorkInv'
  BY <1>1 DEF IInv, WorkInv, Count
<1>3. WindowInv'
  BY <1>1 DEF IInv, WindowInv, Count, BaseErrs, BaseNon2xx, BaseBody
<1>4. EndInv'
  BY <1>1 DEF IInv, EndInv
<1> QED
  BY <1>2, <1>3, <1>4 DEF IInv

\* A step of main preserves it: a latch turns a running baseline into a fixed
\* one of the same value, and past the join nothing moves any more.
LEMMA MainPreserves ==
    ASSUME IInv, TypeOK', MainStep
    PROVE  IInv'
<1>0. TypeOK /\ WorkInv /\ WindowInv /\ EndInv
  BY DEF IInv
<1>1. /\ UNCHANGED <<wk, total, errs, non2xx, bodyByte, firstErr, served, aborted>>
      /\ cancelled => cancelled'
  BY DEF MainStep, RampSkipped, RampOver, WriteProfile, StartSnap, LatchTotal,
     LatchErrs, LatchNon2xx, LatchBody, Join, EndSnap, BuildReport, Resident,
     StopTicker, CancelContext, workVars, counters
<1>2. WorkInv'
  BY <1>0, <1>1 DEF WorkInv, Count
<1>3. UNCHANGED <<Count(wk, Pending), Count(wk, Untallied),
                  Count(wk, Uncounted), Count(wk, Gone)>>
  BY <1>1 DEF Count, Pending, Untallied, Uncounted, Gone
<1> USE DEF MainGoto, Then, latches, snapVars, AfterSnap, AfterTotal, AfterJoin,
            AfterEnd, AfterBuild
<1>4. CASE RampSkipped
  <2>1. WindowInv'
    BY <1>4, <1>0, <1>1, <1>3, Counts
    DEF RampSkipped, WindowInv, WorkInv, BaseErrs, BaseNon2xx, BaseBody, TypeOK
  <2>2. EndInv'
    BY <1>4, <1>0, <1>1 DEF RampSkipped, EndInv
  <2> QED
    BY <1>0, <1>2, <2>1, <2>2 DEF IInv
<1>5. CASE RampOver
  <2>1. WindowInv'
    BY <1>5, <1>0, <1>1, <1>3, Counts
    DEF RampOver, RampCutNow, WindowInv, WorkInv, BaseErrs, BaseNon2xx, BaseBody, TypeOK
  <2>2. EndInv'
    BY <1>5, <1>0, <1>1 DEF RampOver, RampCutNow, EndInv
  <2> QED
    BY <1>0, <1>2, <2>1, <2>2 DEF IInv
<1>6. CASE StartSnap
  <2>1. WindowInv'
    BY <1>6, <1>0, <1>1, <1>3, Counts
    DEF StartSnap, Read, WindowInv, WorkInv, BaseErrs, BaseNon2xx, BaseBody, TypeOK
  <2>2. EndInv'
    BY <1>6, <1>0, <1>1 DEF StartSnap, Read, EndInv
  <2> QED
    BY <1>0, <1>2, <2>1, <2>2 DEF IInv
<1>7. CASE LatchTotal
  <2>1. main = "latchTotal" /\ main' = "latchErrs" /\ startTotal' = total
        /\ startSnap' = startSnap /\ total' = total /\ served' = served
    BY <1>7, <1>1 DEF LatchTotal
  <2>2. BaseErrs' = errs /\ BaseNon2xx' = non2xx /\ BaseBody' = bodyByte
    BY <2>1, <1>1 DEF BaseErrs, BaseNon2xx, BaseBody
  <2>3. startSnap.served \in Nat /\ total \in Nat /\ served \in Nat
    BY <1>0 DEF TypeOK, Snapshots
  <2>4. startSnap.served <= total + W
    BY <2>1, <2>3, <1>0, Counts DEF WindowInv, WorkInv
  <2>5. total <= errs + bodyByte + aborted + W
    BY <1>0, Counts DEF WorkInv, TypeOK
  <2>6. errs + non2xx + Count(wk, Untallied) + total
          <= total + errs + non2xx + W
    BY <1>0, Counts DEF TypeOK
  <2>7. WindowInv'
    <3>1. startSnap'.served <= served'
      BY <2>1, <1>0 DEF WindowInv
    <3>2. startSnap'.served <= startTotal' + W
      BY <2>1, <2>4
    <3>3. startTotal' <= BaseErrs' + BaseBody' + aborted' + W
      BY <2>1, <2>2, <2>5, <1>1
    <3>4. errs' + non2xx' + Count(wk, Untallied)' + startTotal'
            <= total' + BaseErrs' + BaseNon2xx' + W
      BY <2>1, <2>2, <2>6, <1>1, <1>3
    <3> QED
      BY <3>1, <3>2, <3>3, <3>4 DEF WindowInv
  <2>8. EndInv'
    BY <1>7, <1>0, <1>1 DEF LatchTotal, EndInv
  <2> QED
    BY <1>0, <1>2, <2>7, <2>8 DEF IInv
<1>8. CASE LatchErrs
  <2>1. WindowInv'
    BY <1>8, <1>0, <1>1, <1>3, Counts
    DEF LatchErrs, ErrsBaseline, WindowInv, WorkInv, BaseErrs, BaseNon2xx, BaseBody, TypeOK
  <2>2. EndInv'
    BY <1>8, <1>0, <1>1 DEF LatchErrs, ErrsBaseline, EndInv
  <2> QED
    BY <1>0, <1>2, <2>1, <2>2 DEF IInv
<1>9. CASE LatchNon2xx
  <2>1. WindowInv'
    BY <1>9, <1>0, <1>1, <1>3, Counts
    DEF LatchNon2xx, WindowInv, WorkInv, BaseErrs, BaseNon2xx, BaseBody, TypeOK
  <2>2. EndInv'
    BY <1>9, <1>0, <1>1 DEF LatchNon2xx, EndInv
  <2> QED
    BY <1>0, <1>2, <2>1, <2>2 DEF IInv
<1>10. CASE LatchBody
  <2>1. WindowInv'
    BY <1>10, <1>0, <1>1, <1>3, Counts
    DEF LatchBody, WindowInv, WorkInv, BaseErrs, BaseNon2xx, BaseBody, TypeOK
  <2>2. EndInv'
    BY <1>10, <1>0, <1>1 DEF LatchBody, EndInv
  <2> QED
    BY <1>0, <1>2, <2>1, <2>2 DEF IInv
<1>11. CASE Join
  <2>1. WindowInv'
    BY <1>11, <1>0, <1>1, <1>3, Counts
    DEF Join, WindowInv, WorkInv, BaseErrs, BaseNon2xx, BaseBody, TypeOK
  <2>2. ASSUME NEW w \in Workers PROVE wk'[w] = "exit"
    <3>1. w \in {v \in Workers: wk[v] \in {"exit"}}
      BY <1>11 DEF Join, AllExited, At
    <3> QED
      BY <3>1, <1>1
  <2>3. EndInv'
    BY <1>11, <1>0, <1>1, <2>2 DEF Join, EndInv
  <2> QED
    BY <1>0, <1>2, <2>1, <2>3 DEF IInv
<1>12. CASE EndSnap
  <2>1. WindowInv'
    BY <1>12, <1>0, <1>1, <1>3, Counts
    DEF EndSnap, Read, WindowInv, WorkInv, BaseErrs, BaseNon2xx, BaseBody, TypeOK
  <2>2. EndInv'
    BY <1>12, <1>0, <1>1 DEF EndSnap, Read, EndInv
  <2> QED
    BY <1>0, <1>2, <2>1, <2>2 DEF IInv
<1>13. CASE BuildReport
  <2>1. WindowInv'
    BY <1>13, <1>0, <1>1, <1>3, Counts
    DEF BuildReport, WindowInv, WorkInv, BaseErrs, BaseNon2xx, BaseBody, TypeOK
  <2>2. EndInv'
    BY <1>13, <1>0, <1>1 DEF BuildReport, EndInv
  <2> QED
    BY <1>0, <1>2, <2>1, <2>2 DEF IInv
<1>14. CASE Resident
  <2>1. WindowInv'
    BY <1>14, <1>0, <1>1, <1>3, Counts
    DEF Resident, WindowInv, WorkInv, BaseErrs, BaseNon2xx, BaseBody, TypeOK
  <2>2. EndInv'
    BY <1>14, <1>0, <1>1 DEF Resident, EndInv
  <2> QED
    BY <1>0, <1>2, <2>1, <2>2 DEF IInv
<1>15. CASE StopTicker
  <2>1. WindowInv'
    BY <1>15, <1>0, <1>1, <1>3, Counts
    DEF StopTicker, WindowInv, WorkInv, BaseErrs, BaseNon2xx, BaseBody, TypeOK
  <2>2. EndInv'
    BY <1>15, <1>0, <1>1 DEF StopTicker, EndInv
  <2> QED
    BY <1>0, <1>2, <2>1, <2>2 DEF IInv
<1>16. CASE CancelContext
  <2>1. WindowInv'
    BY <1>16, <1>0, <1>1, <1>3, Counts
    DEF CancelContext, WindowInv, WorkInv, BaseErrs, BaseNon2xx, BaseBody, TypeOK
  <2>2. EndInv'
    BY <1>16, <1>0, <1>1 DEF CancelContext, EndInv
  <2> QED
    BY <1>0, <1>2, <2>1, <2>2 DEF IInv
<1>17. ASSUME NEW pc \in {"profile", "endProfile"}, WriteProfile(pc)
      PROVE  IInv'
  <2>1. WindowInv'
    BY <1>17, <1>0, <1>1, <1>3, Counts
    DEF WriteProfile, WindowInv, WorkInv, BaseErrs, BaseNon2xx, BaseBody, TypeOK
  <2>2. EndInv'
    BY <1>17, <1>0, <1>1 DEF WriteProfile, EndInv
  <2> QED
    BY <1>0, <1>2, <2>1, <2>2 DEF IInv
<1> QED
  BY <1>4, <1>5, <1>6, <1>7, <1>8, <1>9, <1>10, <1>11,
     <1>12, <1>13, <1>14, <1>15, <1>16, <1>17 DEF MainStep

\* The initial states satisfy IInv.
LEMMA InvInit == Init => IInv
<1> SUFFICES ASSUME Init PROVE IInv
  OBVIOUS
<1>1. \A S: "wait" \notin S => Count(wk, S) = 0
  <2> SUFFICES ASSUME NEW S, "wait" \notin S PROVE Count(wk, S) = 0
    OBVIOUS
  <2>1. {v \in Workers: wk[v] \in S} = {}
    BY DEF Init
  <2> QED
    BY <2>1, FS_EmptySet DEF Count
<1>2. /\ Count(wk, Pending) = 0 /\ Count(wk, Uncounted) = 0
      /\ Count(wk, Gone) = 0
  BY <1>1 DEF Pending, Uncounted, Gone
<1>3. WorkInv
  BY <1>2 DEF Init, WorkInv
<1>4. WindowInv /\ EndInv
  BY DEF Init, WindowInv, EndInv, NoSnap, NoReport, AfterSnap, AfterTotal,
     AfterJoin, AfterEnd, AfterBuild
<1> QED
  BY <1>3, <1>4, TypeInit DEF IInv

\* IInv is inductive.
LEMMA InvNext == IInv /\ [Next]_vars => IInv'
<1> SUFFICES ASSUME IInv, [Next]_vars PROVE IInv'
  OBVIOUS
<1>1. TypeOK'
  BY TypeNext DEF IInv
<1>2. CASE Emit \/ Close \/ AdvanceClock
  BY <1>1, <1>2, OtherPreserves DEF Emit, Close, AdvanceClock
<1>3. CASE Signal
  BY <1>1, <1>3, OtherPreserves DEF Signal
<1>4. ASSUME NEW w \in Workers, Return(w) \/ WorkerStep(w) PROVE IInv'
  BY <1>1, <1>4, WorkerPreserves
<1>5. CASE MainStep
  BY <1>1, <1>5, MainPreserves
<1>6. CASE Sampler
  BY <1>1, <1>6, OtherPreserves
  DEF Sampler, SampleTick, SampleRead, SampleAdd, SamplerExit
<1>7. CASE UNCHANGED vars
  BY <1>1, <1>7, OtherPreserves DEF vars
<1> QED
  BY <1>2, <1>3, <1>4, <1>5, <1>6, <1>7 DEF Next, Exited

-----------------------------------------------------------------------------
(* The theorems *)

\* IInv holds throughout every run.
THEOREM Invariance == SafetySpec => []IInv
  BY InvInit, InvNext, PTL DEF SafetySpec

\* When the report is made nothing is in flight any more.
LEMMA ReportInv ==
    ASSUME IInv, rep.made
    PROVE  /\ Count(wk, Pending) = 0 /\ Count(wk, Untallied) = 0
           /\ Count(wk, Uncounted) = 0
           /\ main \notin {"latchErrs", "latchNon2xx", "latchBody"}
           /\ main \in AfterTotal /\ main \in AfterSnap /\ main \in AfterEnd
<1>1. main \in AfterBuild
  BY DEF IInv, EndInv
<1>2. main \in AfterJoin /\ main \in AfterTotal /\ main \in AfterSnap
      /\ main \in AfterEnd
      /\ main \notin {"latchErrs", "latchNon2xx", "latchBody"}
  BY <1>1 DEF AfterBuild, AfterEnd, AfterJoin, AfterTotal, AfterSnap
<1>3. \A w \in Workers: wk[w] = "exit"
  BY <1>2 DEF IInv, EndInv
<1>4. \A S: "exit" \notin S => Count(wk, S) = 0
  <2> SUFFICES ASSUME NEW S, "exit" \notin S PROVE Count(wk, S) = 0
    OBVIOUS
  <2>1. {v \in Workers: wk[v] \in S} = {}
    BY <1>3
  <2> QED
    BY <2>1, FS_EmptySet DEF Count
<1> QED
  BY <1>2, <1>4 DEF Pending, Untallied, Uncounted

\* Every call of a reported run is in exactly one place (main.go:255-268).
THEOREM Accounting == SafetySpec => []AccountingAtReport
<1>1. IInv => AccountingAtReport
  <2> SUFFICES ASSUME IInv, rep.made
               PROVE  /\ total = bodyByte + errs + aborted
                      /\ aborted <= W
                      /\ aborted > 0 => cancelled
    BY DEF AccountingAtReport
  <2>1. Count(wk, Pending) = 0
    BY ReportInv
  <2> QED
    BY <2>1, Counts DEF IInv, WorkInv, TypeOK
<1> QED
  BY <1>1, Invariance, PTL

\* The skew of the latches is at most one call per worker (main.go:217-220).
THEOREM Skew == SafetySpec => []ReportSkew
<1>1. IInv => ReportSkew
  <2> SUFFICES ASSUME IInv, rep.made
               PROVE  /\ rep.errors + rep.body <= rep.requests + W
                      /\ rep.errors + rep.non2xx <= rep.requests + W
    BY DEF ReportSkew
  <2>1. /\ BaseErrs = startErrs /\ BaseNon2xx = startNon2xx
        /\ BaseBody = startBody
    BY ReportInv DEF BaseErrs, BaseNon2xx, BaseBody
  <2>2. /\ startTotal <= startErrs + startBody + aborted + W
        /\ errs + non2xx + startTotal <= total + startErrs + startNon2xx + W
        /\ total = bodyByte + errs + aborted
    BY <2>1, ReportInv, Counts DEF IInv, WindowInv, WorkInv, TypeOK
  <2>3. /\ rep.requests = total - startTotal /\ rep.errors = errs - startErrs
        /\ rep.non2xx = non2xx - startNon2xx
        /\ rep.body = bodyByte - startBody
    BY DEF IInv, EndInv
  <2> QED
    BY <2>2, <2>3, Counts DEF IInv, TypeOK
<1> QED
  BY <1>1, Invariance, PTL

\* A report never spreads the cost of the window over requests paid for before
\* it, but for one call per worker (main.go:210-217, 361-364).
THEOREM Undiluted == SafetySpec => []NeverDiluted
<1>1. IInv => NeverDiluted
  <2> SUFFICES ASSUME IInv, rep.made
               PROVE rep.requests <= (endSnap.served - startSnap.served) + W
    BY DEF NeverDiluted
  <2>1. rep.requests = total - startTotal /\ endSnap.served = served
    BY ReportInv DEF IInv, EndInv
  <2>2. startSnap.served <= startTotal + W
    BY ReportInv DEF IInv, WindowInv
  <2>3. served = total
    BY ReportInv DEF IInv, WorkInv, TypeOK
  <2>4. startSnap.served \in Nat
    BY DEF IInv, TypeOK, Snapshots
  <2> QED
    BY <2>1, <2>2, <2>3, <2>4, Counts DEF IInv, TypeOK
<1> QED
  BY <1>1, Invariance, PTL

\* A report with errors carries a sample (main.go:261-262, 339-341).
THEOREM Sampled == SafetySpec => []SampleErrorExplains
<1>1. IInv => SampleErrorExplains
  <2> SUFFICES ASSUME IInv, rep.made, rep.errors > 0 PROVE rep.sample
    BY DEF SampleErrorExplains
  <2>1. rep.errors = errs - startErrs /\ rep.sample = firstErr
    BY DEF IInv, EndInv
  <2>2. errs > 0
    BY <2>1 DEF IInv, TypeOK
  <2>3. \A w \in Workers: wk[w] # "sample"
    BY DEF IInv, EndInv, AfterBuild, AfterEnd, AfterJoin
  <2> QED
    BY <2>1, <2>2, <2>3 DEF IInv, WorkInv
<1> QED
  BY <1>1, Invariance, PTL

\* Main leaves waitUntil without a cancellation only when the ramp is over, and
\* neither the phase nor ctx goes back.
RampInv ==
    /\ main \in {"profile", "snap"} => phase # "ramp" \/ cancelled
    /\ WindowOpensOnPlateau

\* A window that opens in the ramp is that of a cancelled run (main.go:206-224).
THEOREM OnPlateau == SafetySpec => []WindowOpensOnPlateau
<1>1. Init => RampInv
  BY DEF Init, RampInv, WindowOpensOnPlateau, NoSnap
<1>2. RampInv /\ [Next]_vars => RampInv'
  <2> SUFFICES ASSUME RampInv, [Next]_vars PROVE RampInv'
    OBVIOUS
  <2> USE DEF RampInv, WindowOpensOnPlateau, mainVars, latches, snapVars, srcVars
  <2>1. CASE Emit \/ Close \/ AdvanceClock \/ Signal
    BY <2>1 DEF Emit, Close, AdvanceClock, Signal, Source!Emit, Source!Close,
       Source!AdvanceClock
  <2>2. ASSUME NEW w \in Workers, Return(w) \/ WorkerStep(w) PROVE RampInv'
    BY <2>2 DEF Return, WorkerStep, Permit, Leave, CountTotal, Abort, Blame, CountError,
       KeepSample, CountStatus, CountBody, Source!Take
  <2>3. CASE RampSkipped \/ RampOver \/ \E pc \in {"profile", "endProfile"}: WriteProfile(pc)
    BY <2>3 DEF RampSkipped, RampOver, TimerFired, RampCutNow, WriteProfile,
       MainGoto, Then
  <2>4. CASE StartSnap \/ LatchTotal \/ LatchErrs \/ LatchNon2xx \/ LatchBody
    BY <2>4 DEF StartSnap, LatchTotal, LatchErrs, LatchNon2xx, LatchBody, Read,
       MainGoto, Then
  <2>5. CASE \/ Join \/ EndSnap \/ BuildReport \/ Resident \/ StopTicker
             \/ CancelContext
    BY <2>5 DEF Join, EndSnap, BuildReport, Resident, StopTicker, CancelContext,
       Source!Stop, MainGoto, Then
  <2>6. CASE Sampler
    BY <2>6 DEF Sampler, SampleTick, SampleRead, SampleAdd, SamplerExit
  <2>7. CASE UNCHANGED vars
    BY <2>7 DEF vars
  <2> QED
    BY <2>1, <2>2, <2>3, <2>4, <2>5, <2>6, <2>7 DEF Next, MainStep, Exited
<1> QED
  BY <1>1, <1>2, PTL DEF SafetySpec, RampInv

\* The channel is closed for a reason, a worker has left for a reason, and main
\* is past wg.Wait for the reason of the worker that left last.
LeaveInv ==
    /\ stopped => main \in {"cancel", "exit"}
    /\ closed => phase = "over" \/ stopped
    /\ \A w \in Workers: wk[w] = "exit" => cancelled \/ closed
    /\ main \in AfterJoin => phase = "over" \/ cancelled
    /\ WindowClosesAtTheEnd

\* A run with workers that nobody cancels is measured to the end of its profile.
THEOREM MeasuredToTheEnd ==
    ASSUME Workers # {}
    PROVE  SafetySpec => []WindowClosesAtTheEnd
<1>1. Init => LeaveInv
  BY DEF Init, Source!Init, LeaveInv, WindowClosesAtTheEnd, NoSnap, AfterJoin,
     AfterEnd, AfterBuild
<1>2. TypeOK /\ LeaveInv /\ [Next]_vars => LeaveInv'
  <2> SUFFICES ASSUME TypeOK, LeaveInv, [Next]_vars PROVE LeaveInv'
    OBVIOUS
  <2>0. wk \in [Workers -> WorkerPc]
    BY DEF TypeOK
  <2> USE DEF LeaveInv, WindowClosesAtTheEnd, mainVars, latches, snapVars,
              srcVars, workVars, AfterJoin, AfterEnd, AfterBuild
  <2>1. CASE Emit \/ Close \/ AdvanceClock \/ Signal
    BY <2>1 DEF Emit, Close, AdvanceClock, Signal, Source!Emit, Source!Close,
       Source!AdvanceClock
  <2>2. ASSUME NEW w \in Workers, Return(w) \/ WorkerStep(w) PROVE LeaveInv'
    <3>1. UNCHANGED <<closed, phase, stopped, cancelled, mainVars>>
      BY <2>2 DEF Return, WorkerStep, Permit, Leave, CountTotal, Abort,
         Blame, CountError, KeepSample, CountStatus, CountBody, Source!Take
    <3>2. PICK pc \in WorkerPc:
             /\ wk' = [wk EXCEPT ![w] = pc]
             /\ pc = "exit" => cancelled \/ closed
      BY <2>2 DEF Return, WorkerStep, Permit, Leave, RunOver, CountTotal, Abort,
         Blame, CountError, ErrorNext, KeepSample, CountStatus, CountBody, Goto, WorkerPc
    <3>3. \A v \in Workers: wk'[v] = "exit" => cancelled \/ closed
      <4> TAKE v \in Workers
      <4>1. wk[v] = "exit" => cancelled \/ closed
        OBVIOUS
      <4>2. wk'[v] = IF v = w THEN pc ELSE wk[v]
        BY <2>0, <3>2
      <4> QED
        BY <3>2, <4>1, <4>2
    <3> QED
      BY <3>1, <3>3
  <2>3. CASE RampSkipped \/ RampOver \/ \E pc \in {"profile", "endProfile"}: WriteProfile(pc)
    BY <2>3 DEF RampSkipped, RampOver, TimerFired, RampCutNow, WriteProfile,
       MainGoto, Then
  <2>4. CASE StartSnap \/ LatchTotal \/ LatchErrs \/ LatchNon2xx \/ LatchBody
    BY <2>4 DEF StartSnap, LatchTotal, LatchErrs, LatchNon2xx, LatchBody, Read,
       MainGoto, Then
  <2>5. CASE Join
    <3>1. PICK w \in Workers: wk[w] = "exit"
      BY <2>5 DEF Join, AllExited, At
    <3>2. main = "join" /\ (phase = "over" \/ cancelled)
      BY <2>5, <3>1 DEF Join
    <3> QED
      BY <2>5, <3>2 DEF Join, MainGoto, Then
  <2>6. CASE EndSnap \/ BuildReport \/ Resident
    BY <2>6 DEF EndSnap, BuildReport, Resident, Read, MainGoto, Then
  <2>7. CASE StopTicker \/ CancelContext
    BY <2>7 DEF StopTicker, CancelContext, Source!Stop, MainGoto, Then
  <2>8. CASE Sampler
    BY <2>8 DEF Sampler, SampleTick, SampleRead, SampleAdd, SamplerExit
  <2>9. CASE UNCHANGED vars
    BY <2>9 DEF vars
  <2> QED
    BY <2>1, <2>2, <2>3, <2>4, <2>5, <2>6, <2>7, <2>8, <2>9
    DEF Next, MainStep, Exited
<1>3. LeaveInv => WindowClosesAtTheEnd
  BY DEF LeaveInv
<1> QED
  BY <1>1, <1>2, <1>3, DriverTypeOK, PTL DEF SafetySpec

\* After the end snapshot the workers change nothing (main.go:225-229).
THEOREM Frozen == SafetySpec => CountersFrozen
<1>1. IInv /\ [Next]_vars => [endSnap.taken => UNCHANGED workVars]_vars
  <2> SUFFICES ASSUME IInv, Next, endSnap.taken PROVE UNCHANGED workVars
    BY DEF vars
  <2>1. \A w \in Workers: wk[w] = "exit"
    BY DEF IInv, EndInv, AfterJoin
  <2>2. ASSUME NEW w \in Workers, Return(w) \/ WorkerStep(w) PROVE FALSE
    BY <2>1, <2>2 DEF Return, WorkerStep, Permit, Leave, CountTotal, Abort,
       Blame, CountError, KeepSample, CountStatus, CountBody
  <2>3. CASE Emit \/ Close \/ AdvanceClock \/ Signal
    BY <2>3 DEF Emit, Close, AdvanceClock, Signal
  <2>4. CASE MainStep
    BY <2>4 DEF MainStep, RampSkipped, RampOver, WriteProfile, StartSnap,
       LatchTotal, LatchErrs, LatchNon2xx, LatchBody, Join, EndSnap,
       BuildReport, Resident, StopTicker, CancelContext
  <2>5. CASE Sampler
    BY <2>5 DEF Sampler, SampleTick, SampleRead, SampleAdd, SamplerExit
  <2>6. CASE Exited
    BY <2>6 DEF Exited, vars
  <2> QED
    BY <2>2, <2>3, <2>4, <2>5, <2>6 DEF Next
<1> QED
  BY <1>1, Invariance, PTL DEF SafetySpec, CountersFrozen
-----------------------------------------------------------------------------
(* The paced driver *)

\* The phase is where the generator's clock stands, and the channel is closed
\* exactly when the generator has returned.
PaceInv ==
    /\ profile \in [target: Nat, ramp: Nat, plateau: Nat]
    /\ elapsed \in Nat
    /\ phase = PhaseAt(profile, elapsed)
    /\ closed \in BOOLEAN
    /\ closed <=> gen = "exit"

\* A step of the generator is a permit, the end of the permits, or none of the
\* driver's business.
LEMMA GeneratorStep ==
    ASSUME TypeOK, PaceInv, Generate
    PROVE  PaceInv' /\ (Emit \/ Close \/ UNCHANGED vars)
<1> USE DEF PaceInv, srcVars, vars
<1>0. /\ UNCHANGED <<phase, workVars, mainVars, smpVars>>
      /\ Pacer!Generator /\ avail \in Nat
      /\ avail' > avail => Issued < MaxCalls
  BY DriverAssumption DEF Generate, TypeOK, Source!TypeOK
<1> USE DEF Pacer!history, Pacer!chanVars, Pacer!waitVars
<1>1. CASE Pacer!Poll
  <2>1. CASE stopped /\ Pacer!Return
    BY <1>0, <1>1, <2>1 DEF Pacer!Poll, Pacer!Return, Close, Source!Close
  <2>2. CASE gen' # "exit" /\ UNCHANGED closed
    BY <1>0, <1>1, <2>2 DEF Pacer!Poll
  <2> QED
    BY <1>1, <2>1, <2>2 DEF Pacer!Poll
<1>2. CASE Pacer!Measure
  <2>1. CASE Pacer!Over /\ Pacer!Return
    <3>1. phase = "over"
      BY <2>1 DEF Pacer!Over, Pacer!Total, PhaseAt
    <3> QED
      BY <1>0, <1>2, <2>1, <3>1
      DEF Pacer!Measure, Pacer!Return, Close, Source!Close
  <2>2. CASE gen' # "exit" /\ UNCHANGED closed
    BY <1>0, <1>2, <2>2 DEF Pacer!Measure
  <2> QED
    BY <1>2, <2>1, <2>2 DEF Pacer!Measure
<1>3. CASE Pacer!IdleDone
  BY <1>0, <1>3 DEF Pacer!IdleDone
<1>4. CASE Pacer!OpenSlice
  BY <1>0, <1>4 DEF Pacer!OpenSlice
<1>5. CASE Pacer!Send
  BY <1>0, <1>5 DEF Pacer!Send, Pacer!Room, Emit, Source!Emit
<1>6. CASE Pacer!SendAborted
  BY <1>0, <1>6 DEF Pacer!SendAborted, Pacer!Return, Close, Source!Close
<1>7. CASE Pacer!Wake
  BY <1>0, <1>7 DEF Pacer!Wake
<1> QED
  BY <1>0, <1>1, <1>2, <1>3, <1>4, <1>5, <1>6, <1>7 DEF Pacer!Generator

\* A step of the clock leaves the phase or takes it across a boundary.
LEMMA ClockStep ==
    ASSUME PaceInv, Clock
    PROVE  PaceInv' /\ (AdvanceClock \/ UNCHANGED vars)
<1>1. /\ UNCHANGED <<cancelled, workVars, mainVars, smpVars>>
      /\ UNCHANGED <<profile, gen>>
      /\ UNCHANGED <<avail, closed, stopped>>
      /\ phase' = PhaseAt(profile, elapsed')
      /\ elapsed' \in {elapsed, elapsed + 1}
  BY DEF Clock, Pacer!Tick, Pacer!chanVars
<1>2. PaceInv'
  BY <1>1 DEF PaceInv
<1>3. CASE phase' = phase
  BY <1>1, <1>2, <1>3 DEF vars, srcVars
<1>4. CASE phase' # phase
  <2>1. \/ phase = "ramp" /\ phase' \in {"plateau", "over"}
        \/ phase = "plateau" /\ phase' = "over"
    BY <1>1, <1>4 DEF PaceInv, PhaseAt
  <2> QED
    BY <1>1, <1>2, <2>1 DEF AdvanceClock, Source!AdvanceClock
<1> QED
  BY <1>3, <1>4

\* What the driver's own goroutines do leaves the generator alone.
LEMMA DriverStep ==
    ASSUME PaceInv, UNCHANGED pace, UNCHANGED <<phase, closed>>
    PROVE  PaceInv'
  BY DEF PaceInv, pace

\* Every step of the paced driver is one of the driver, or none.
LEMMA PacedStep ==
    ASSUME TypeOK, PaceInv, [PacedNext]_pacedVars
    PROVE  PaceInv' /\ [Next]_vars
<1>1. CASE Generate
  BY <1>1, GeneratorStep DEF Generate, Next
<1>2. CASE Clock
  BY <1>2, ClockStep DEF Clock, Next
<1> USE DEF srcVars, Source!Take
<1>3. ASSUME main # "exit", Main PROVE PaceInv' /\ Next
  <2>1. UNCHANGED <<phase, closed>>
    BY <1>3
    DEF Main, MainStep, RampSkipped, RampOver, WriteProfile, StartSnap,
        LatchTotal, LatchErrs, LatchNon2xx, LatchBody, Join, EndSnap,
        BuildReport, Resident, StopTicker, Source!Stop, CancelContext
  <2> QED
    BY <1>3, <2>1, DriverStep DEF Main, Next
<1>4. ASSUME main # "exit", NEW w \in Workers, Work(w) \/ CallReturns(w)
      PROVE  PaceInv' /\ Next
  <2>1. UNCHANGED <<phase, closed>>
    BY <1>4
    DEF Work, CallReturns, Return, WorkerStep, Permit, Leave, CountTotal,
        Abort, Blame, CountError, KeepSample, CountStatus, CountBody
  <2> QED
    BY <1>4, <2>1, DriverStep DEF Work, CallReturns, Next
<1>5. ASSUME main # "exit", Signal \/ Sampler, UNCHANGED pace
      PROVE  PaceInv' /\ Next
  <2>1. UNCHANGED <<phase, closed>>
    BY <1>5 DEF Signal, Sampler, SampleTick, SampleRead, SampleAdd, SamplerExit
  <2> QED
    BY <1>5, <2>1, DriverStep DEF Next
<1>6. ASSUME Exited \/ UNCHANGED vars, UNCHANGED pace
      PROVE  PaceInv' /\ UNCHANGED vars
  BY <1>6, DriverStep DEF Exited, vars
<1> QED
  BY <1>1, <1>2, <1>3, <1>4, <1>5, <1>6 DEF PacedNext, pacedVars

\* A paced run starts as a run of the driver does.
LEMMA PacedStart == PacedInit => Init /\ PaceInv
<1> SUFFICES ASSUME PacedInit PROVE PaceInv
  BY DEF PacedInit
<1>1. profile \in [target: Nat, ramp: Nat, plateau: Nat]
  BY PacedAssumption DEF PacedInit
<1> QED
  BY <1>1 DEF PacedInit, PaceInv, Init, Source!Init

\* The driver with the pacing generator in its place is a driver: whatever the
\* profile and the clock, every theorem above holds of it.
THEOREM PacedRefinement == PacedSafety => ImplementsDriver
<1>1. PacedInit => TypeOK /\ PaceInv
  BY PacedStart, TypeInit
<1>2. TypeOK /\ PaceInv /\ [PacedNext]_pacedVars => (TypeOK /\ PaceInv)'
  BY PacedStep, TypeNext
<1>3. TypeOK /\ PaceInv /\ [PacedNext]_pacedVars => [Next]_vars
  BY PacedStep
<1> QED
  BY <1>1, <1>2, <1>3, PacedStart, PTL
  DEF PacedSafety, ImplementsDriver, SafetySpec
=============================================================================
