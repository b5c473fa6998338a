------------------------------- MODULE Driver -------------------------------
(***************************************************************************)
(* cmd/driver/main.go: one run of the measuring process.  The workers take *)
(* permits from the pacing source and tally each call in shared atomic     *)
(* counters, one atomic at a time; main waits for the plateau, snapshots   *)
(* the process, latches the counters one by one, waits for the workers,    *)
(* snapshots again and reports the differences; a sampler goroutine reads  *)
(* the memory in the background; a signal may cancel the run anywhere.     *)
(*                                                                         *)
(* The pacing is PermitSource, which Ticker implements.  What a call does  *)
(* is left open: it returns a response with a 2xx status, one without, or  *)
(* an error, at any time.                                                  *)
(***************************************************************************)
EXTENDS Integers, FiniteSets

CONSTANTS Cap,              \* capacity of the permits channel
          Workers,          \* the worker goroutines
          MaxCalls,         \* bound: permits issued in a run
          MaxSamples        \* bound: readings the sampler takes

ASSUME DriverAssumption == /\ Cap \in Nat \ {0}
                           /\ IsFiniteSet(Workers)
                           /\ MaxCalls \in Nat
                           /\ MaxSamples \in Nat

VARIABLES avail, closed, phase, stopped,    \* the permit source
          cancelled,        \* ctx is done: a signal, or the deferred stop()
          wk, out,          \* per worker: control point, result of its call
          total, errs, non2xx, bodyByte,    \* counters, a body counting 1
          firstErr,         \* firstErr holds a sample
          main,             \* control point of main
          startTotal, startErrs, startNon2xx, startBody,  \* plateauStart*
          startSnap, endSnap,               \* the two process snapshots
          smp, samples,     \* the sampler: control point, readings kept
          rep,              \* the report
          served,           \* history: calls that have returned
          aborted           \* history: calls counted in total only

srcVars   == <<avail, closed, phase, stopped>>
counters  == <<total, errs, non2xx, bodyByte>>
latches   == <<startTotal, startErrs, startNon2xx, startBody>>
snapVars  == <<startSnap, endSnap>>
mainVars  == <<main, latches, snapVars, rep>>
smpVars   == <<smp, samples>>
workVars  == <<wk, out, counters, firstErr, served, aborted>>
vars == <<srcVars, cancelled, workVars, mainVars, smpVars>>

Source == INSTANCE PermitSource

Outcomes == {"ok", "non2xx", "err"}

WorkerPc == {"wait", "call", "count", "tally", "blame", "body", "sample", "exit"}

\* Mutant: the counters are latched before the snapshot is taken.
ThenLatchFirst ==
    [profile |-> "latchTotal", snap |-> "join", latchTotal |-> "latchErrs",
     latchErrs |-> "latchNon2xx", latchNon2xx |-> "latchBody",
     latchBody |-> "snap", join |-> "endSnap", endSnap |-> "endProfile",
     endProfile |-> "build", build |-> "resident", resident |-> "stop",
     stop |-> "cancel", cancel |-> "exit"]

\* Mutant: the end snapshot and the report do not wait for the workers.
ThenNoJoin ==
    [profile |-> "snap", snap |-> "latchTotal", latchTotal |-> "latchErrs",
     latchErrs |-> "latchNon2xx", latchNon2xx |-> "latchBody",
     latchBody |-> "endSnap", join |-> "stop", endSnap |-> "endProfile",
     endProfile |-> "build", build |-> "resident", resident |-> "join",
     stop |-> "cancel", cancel |-> "exit"]

\* The straight line of main, and its deferred calls in reverse order.
Then ==
    [profile |-> "snap", snap |-> "latchTotal", latchTotal |-> "latchErrs",
     latchErrs |-> "latchNon2xx", latchNon2xx |-> "latchBody",
     latchBody |-> "join", join |-> "endSnap", endSnap |-> "endProfile",
     endProfile |-> "build", build |-> "resident", resident |-> "stop",
     stop |-> "cancel", cancel |-> "exit"]

MainPc == {"start", "ramp", "exit"} \cup DOMAIN Then

NoReport == [made |-> FALSE, requests |-> 0, errors |-> 0, non2xx |-> 0,
             body |-> 0, sample |-> FALSE, resident |-> 0]

NoSnap == [taken |-> FALSE, served |-> 0, phase |-> "ramp"]

Snapshots == [taken: BOOLEAN, served: Nat, phase: Source!Phases]

TypeOK ==
    /\ Source!TypeOK
    /\ cancelled \in BOOLEAN
    /\ wk \in [Workers -> WorkerPc]
    /\ out \in [Workers -> Outcomes]
    /\ total \in Nat /\ errs \in Nat /\ non2xx \in Nat /\ bodyByte \in Nat
    /\ firstErr \in BOOLEAN
    /\ main \in MainPc
    /\ startTotal \in Nat /\ startErrs \in Nat
    /\ startNon2xx \in Nat /\ startBody \in Nat
    /\ startSnap \in Snapshots /\ endSnap \in Snapshots
    /\ smp \in {"tick", "read", "add", "exit"}
    /\ samples \in Nat
    /\ rep \in [made: BOOLEAN, requests: Int, errors: Int, non2xx: Int,
                body: Int, sample: BOOLEAN, resident: Nat]
    /\ served \in Nat /\ aborted \in Nat

Init ==
    /\ Source!Init
    /\ cancelled = FALSE
    /\ wk = [w \in Workers |-> "wait"]
    /\ out = [w \in Workers |-> "ok"]
    /\ total = 0 /\ errs = 0 /\ non2xx = 0 /\ bodyByte = 0
    /\ firstErr = FALSE
    /\ main = "start"
    /\ startTotal = 0 /\ startErrs = 0 /\ startNon2xx = 0 /\ startBody = 0
    /\ startSnap = NoSnap /\ endSnap = NoSnap
    /\ smp = "tick" /\ samples = 0
    /\ rep = NoReport
    /\ served = 0 /\ aborted = 0

-----------------------------------------------------------------------------
(* The permit source, and signals *)

At(pcs) == {w \in Workers: wk[w] \in pcs}

\* Permits issued so far: still buffered, in a call, or in total.
Issued == avail + Cardinality(At({"call", "count"})) + total

Emit == /\ Source!Emit
        /\ Issued < MaxCalls
        /\ UNCHANGED <<cancelled, workVars, mainVars, smpVars>>

Close == Source!Close /\ UNCHANGED <<cancelled, workVars, mainVars, smpVars>>

AdvanceClock ==
    /\ Source!AdvanceClock
    /\ UNCHANGED <<cancelled, workVars, mainVars, smpVars>>

\* SIGINT or SIGTERM, turned into a cancelled ctx by NotifyContext.
Signal ==
    /\ ~cancelled /\ cancelled' = TRUE
    /\ UNCHANGED <<srcVars, workVars, mainVars, smpVars>>

-----------------------------------------------------------------------------
(* A worker, runWorker *)

Goto(w, pc) == wk' = [wk EXCEPT ![w] = pc]

\* res and err are local to one turn of the loop.
Forget(w) == out' = [out EXCEPT ![w] = "ok"]

\* Wait returns TRUE.
Permit(w) ==
    /\ wk[w] = "wait"
    /\ Source!Take
    /\ Goto(w, "call")
    /\ UNCHANGED <<cancelled, out, counters, firstErr, served, aborted,
                   mainVars, smpVars>>

\* Mutant: a worker that only leaves when the ctx is cancelled.
RunOverNever == FALSE

\* Mutant: a worker leaves when it finds the channel empty.
RunOverOnEmpty == avail = 0

\* The channel yields ok = FALSE.
RunOver == closed /\ avail = 0

\* Wait returns FALSE.
Leave(w) ==
    /\ wk[w] = "wait"
    /\ RunOver \/ cancelled
    /\ Goto(w, "exit")
    /\ UNCHANGED <<srcVars, cancelled, out, counters, firstErr, served,
                   aborted, mainVars, smpVars>>

\* c.Do returns; the work it did is on the process's account from here on.
Return(w) ==
    /\ wk[w] = "call"
    /\ \E r \in Outcomes: out' = [out EXCEPT ![w] = r]
    /\ served' = served + 1
    /\ Goto(w, "count")
    /\ UNCHANGED <<srcVars, cancelled, counters, firstErr, aborted, mainVars,
                   smpVars>>

\* cs.total.Add(1)
CountTotal(w) ==
    /\ wk[w] = "count"
    /\ total' = total + 1
    /\ Goto(w, "tally")
    /\ UNCHANGED <<srcVars, cancelled, out, errs, non2xx, bodyByte, firstErr,
                   served, aborted, mainVars, smpVars>>

\* ctx.Err() # nil: an error of a cancelled run is the run's, not the client's;
\* it is not counted and the worker leaves.
Abort(w) ==
    /\ wk[w] = "tally" /\ out[w] = "err" /\ cancelled
    /\ Forget(w)
    /\ aborted' = aborted + 1
    /\ Goto(w, "exit")
    /\ UNCHANGED <<srcVars, cancelled, counters, firstErr, served,
                   mainVars, smpVars>>

\* ctx.Err() = nil: the error will count, although ctx may end before it does.
Blame(w) ==
    /\ wk[w] = "tally" /\ out[w] = "err" /\ ~cancelled
    /\ Forget(w)
    /\ Goto(w, "blame")
    /\ UNCHANGED <<srcVars, cancelled, counters, firstErr, served, aborted,
                   mainVars, smpVars>>

\* Mutant: no sample of the errors is kept.
ErrorNextWait == "wait"

\* After cs.errs.Add(1) comes errOnce.Do.
ErrorNext == "sample"

\* cs.errs.Add(1)
CountError(w) ==
    /\ wk[w] = "blame"
    /\ errs' = errs + 1
    /\ Goto(w, ErrorNext)
    /\ UNCHANGED <<srcVars, cancelled, out, total, non2xx, bodyByte, firstErr,
                   served, aborted, mainVars, smpVars>>

\* cs.errOnce.Do(...)
KeepSample(w) ==
    /\ wk[w] = "sample"
    /\ firstErr' = TRUE
    /\ Goto(w, "wait")
    /\ UNCHANGED <<srcVars, cancelled, out, counters, served, aborted,
                   mainVars, smpVars>>

\* Mutant: the body of a non-2xx response is not counted.
CountStatusOnly(w) ==
    /\ wk[w] = "tally" /\ out[w] # "err"
    /\ Forget(w)
    /\ non2xx' = IF out[w] = "non2xx" THEN non2xx + 1 ELSE non2xx
    /\ Goto(w, IF out[w] = "non2xx" THEN "wait" ELSE "body")
    /\ UNCHANGED <<srcVars, cancelled, total, errs, bodyByte, firstErr,
                   served, aborted, mainVars, smpVars>>

\* cs.non2xx.Add(1), for a status outside 200..299.
CountStatus(w) ==
    /\ wk[w] = "tally" /\ out[w] # "err"
    /\ Forget(w)
    /\ non2xx' = IF out[w] = "non2xx" THEN non2xx + 1 ELSE non2xx
    /\ Goto(w, "body")
    /\ UNCHANGED <<srcVars, cancelled, total, errs, bodyByte, firstErr,
                   served, aborted, mainVars, smpVars>>

\* cs.bodyByte.Add(...)
CountBody(w) ==
    /\ wk[w] = "body"
    /\ bodyByte' = bodyByte + 1
    /\ Goto(w, "wait")
    /\ UNCHANGED <<srcVars, cancelled, out, total, errs, non2xx, firstErr,
                   served, aborted, mainVars, smpVars>>

WorkerStep(w) == \/ Permit(w) \/ Leave(w) \/ CountTotal(w) \/ Abort(w)
                 \/ Blame(w) \/ CountError(w) \/ KeepSample(w) \/ CountStatus(w)
                 \/ CountBody(w)

-----------------------------------------------------------------------------
(* main *)

MainGoto(pc) == main' = pc

\* waitUntil, its first look: the plateau has begun already.
RampSkipped ==
    /\ main = "start"
    /\ MainGoto(IF phase = "ramp" THEN "ramp" ELSE "profile")
    /\ UNCHANGED <<srcVars, cancelled, workVars, latches, snapVars, rep,
                   smpVars>>

\* Mutant: main sleeps through a signal.
RampCutNever == FALSE

\* ctx.Done() wins the select; with both ready either branch may.
RampCutNow == cancelled

\* Mutant: the timer is not waited for.
TimerFiredEarly == TRUE

\* <-timer.C
TimerFired == phase # "ramp"

\* waitUntil, the select: the timer fired, or ctx ended first; only a run that
\* reached the plateau writes the start profile.
RampOver ==
    /\ main = "ramp"
    /\ \/ TimerFired /\ MainGoto("profile")
       \/ RampCutNow /\ MainGoto("snap")
    /\ UNCHANGED <<srcVars, cancelled, workVars, latches, snapVars, rep,
                   smpVars>>

\* writeProfile, before and after the window: nothing the report reads.
WriteProfile(pc) ==
    /\ pc \in {"profile", "endProfile"}
    /\ main = pc
    /\ MainGoto(Then[pc])
    /\ UNCHANGED <<srcVars, cancelled, workVars, latches, snapVars, rep,
                   smpVars>>

\* selfmetrics.Read(): the process's account, and the phase it is read in.
Read == [taken |-> TRUE, served |-> served, phase |-> phase]

StartSnap ==
    /\ main = "snap"
    /\ startSnap' = Read
    /\ MainGoto(Then.snap)
    /\ UNCHANGED <<srcVars, cancelled, workVars, latches, endSnap, rep,
                   smpVars>>

LatchTotal ==
    /\ main = "latchTotal"
    /\ startTotal' = total
    /\ MainGoto(Then.latchTotal)
    /\ UNCHANGED <<srcVars, cancelled, workVars, startErrs, startNon2xx,
                   startBody, snapVars, rep, smpVars>>

\* Mutant: the error count has no baseline.
NoBaseline == 0

\* cs.errs.Load()
ErrsBaseline == errs

LatchErrs ==
    /\ main = "latchErrs"
    /\ startErrs' = ErrsBaseline
    /\ MainGoto(Then.latchErrs)
    /\ UNCHANGED <<srcVars, cancelled, workVars, startTotal, startNon2xx,
                   startBody, snapVars, rep, smpVars>>

LatchNon2xx ==
    /\ main = "latchNon2xx"
    /\ startNon2xx' = non2xx
    /\ MainGoto(Then.latchNon2xx)
    /\ UNCHANGED <<srcVars, cancelled, workVars, startTotal, startErrs,
                   startBody, snapVars, rep, smpVars>>

LatchBody ==
    /\ main = "latchBody"
    /\ startBody' = bodyByte
    /\ MainGoto(Then.latchBody)
    /\ UNCHANGED <<srcVars, cancelled, workVars, startTotal, startErrs,
                   startNon2xx, snapVars, rep, smpVars>>

AllExited == At({"exit"}) = Workers

\* wg.Wait()
Join ==
    /\ main = "join" /\ AllExited
    /\ MainGoto(Then.join)
    /\ UNCHANGED <<srcVars, cancelled, workVars, latches, snapVars, rep,
                   smpVars>>

EndSnap ==
    /\ main = "endSnap"
    /\ endSnap' = Read
    /\ MainGoto(Then.endSnap)
    /\ UNCHANGED <<srcVars, cancelled, workVars, latches, startSnap, rep,
                   smpVars>>

\* buildReport up to the resident figures: every count is a difference.
BuildReport ==
    /\ main = "build"
    /\ rep' = [made |-> TRUE,
               requests |-> total - startTotal,
               errors |-> errs - startErrs,
               non2xx |-> non2xx - startNon2xx,
               body |-> bodyByte - startBody,
               sample |-> firstErr,
               resident |-> 0]
    /\ MainGoto(Then.build)
    /\ UNCHANGED <<srcVars, cancelled, workVars, latches, snapVars, smpVars>>

\* sampler.result() under its lock, then emit.
Resident ==
    /\ main = "resident"
    /\ rep' = [rep EXCEPT !.resident = samples]
    /\ MainGoto(Then.resident)
    /\ UNCHANGED <<srcVars, cancelled, workVars, latches, snapVars, smpVars>>

\* Deferred: ticker.Stop()
StopTicker ==
    /\ main = "stop"
    /\ Source!Stop
    /\ MainGoto(Then.stop)
    /\ UNCHANGED <<cancelled, workVars, latches, snapVars, rep, smpVars>>

\* Deferred: stop(), which cancels ctx, then client.Close() and the exit.
CancelContext ==
    /\ main = "cancel"
    /\ cancelled' = TRUE
    /\ MainGoto(Then.cancel)
    /\ UNCHANGED <<srcVars, workVars, latches, snapVars, rep, smpVars>>

MainStep == \/ RampSkipped \/ RampOver
            \/ \E pc \in {"profile", "endProfile"}: WriteProfile(pc)
            \/ StartSnap \/ LatchTotal \/ LatchErrs \/ LatchNon2xx
            \/ LatchBody \/ Join \/ EndSnap \/ BuildReport \/ Resident
            \/ StopTicker \/ CancelContext

-----------------------------------------------------------------------------
(* The sampler, residentSampler.run *)

\* A tick during the ramp is skipped; when ctx is done as well either branch of
\* the select may be taken.
SampleTick ==
    /\ smp = "tick" /\ phase # "ramp" /\ samples < MaxSamples
    /\ smp' = "read"
    /\ UNCHANGED <<srcVars, cancelled, workVars, mainVars, samples>>

SampleRead ==
    /\ smp = "read"
    /\ smp' = "add"
    /\ UNCHANGED <<srcVars, cancelled, workVars, mainVars, samples>>

SampleAdd ==
    /\ smp = "add"
    /\ smp' = "tick"
    /\ samples' = samples + 1
    /\ UNCHANGED <<srcVars, cancelled, workVars, mainVars>>

SamplerExit ==
    /\ smp = "tick" /\ cancelled
    /\ smp' = "exit"
    /\ UNCHANGED <<srcVars, cancelled, workVars, mainVars, samples>>

Sampler == SampleTick \/ SampleRead \/ SampleAdd \/ SamplerExit

-----------------------------------------------------------------------------
\* The process has exited and its goroutines with it.
Exited == main = "exit" /\ UNCHANGED vars

Next == \/ /\ main # "exit"
           /\ \/ Emit \/ Close \/ AdvanceClock \/ Signal
              \/ \E w \in Workers: Return(w) \/ WorkerStep(w)
              \/ MainStep \/ Sampler
        \/ Exited

SafetySpec == Init /\ [][Next]_vars

-----------------------------------------------------------------------------
(* Properties *)

W == Cardinality(Workers)

\* When the report is made every call is in exactly one place: a consumed
\* body, an error, or an error of the cancelled run, of which there is at most
\* one per worker and none without a cancellation.  (Between total.Add and the
\* tally, main.go:255-268, a call is in total only.)
AccountingAtReport ==
    rep.made => /\ total = bodyByte + errs + aborted
                /\ aborted <= W
                /\ aborted > 0 => cancelled

\* The four latches are not one instant (main.go:217-220): a call tallied
\* between two of them has one foot in the window.  The skew is bounded by
\* the number of workers, however long main is delayed between two latches.
ReportSkew ==
    rep.made => /\ rep.errors + rep.body <= rep.requests + W
                /\ rep.errors + rep.non2xx <= rep.requests + W

\* The reported requests were paid for inside the window, except for the calls
\* in flight when it opened: cost per request is never diluted by requests
\* whose cost lies before the start snapshot (main.go:210-217, 361-364).
NeverDiluted ==
    rep.made => rep.requests <= (endSnap.served - startSnap.served) + W

\* A report with errors carries a sample of one of the run's errors, although
\* the count and the sample are published by two separate steps
\* (main.go:261-262, 336-341).
SampleErrorExplains == rep.made /\ rep.errors > 0 => rep.sample

\* Once the end snapshot is taken no worker changes a counter or finishes a
\* call: the two ends of every difference are the same window
\* (main.go:225-229).
CountersFrozen == [][endSnap.taken => UNCHANGED workVars]_vars

\* The window opens during the ramp only in a run that was cancelled there:
\* such a run takes its start snapshot and reports all the same, without the
\* start profile (main.go:206-224, 459-473).
WindowOpensOnPlateau ==
    startSnap.taken /\ startSnap.phase = "ramp" => cancelled

\* The window of a run that nobody cancelled closes only when the profile is
\* over: no worker leaves before the generator has closed the channel, and the
\* end snapshot waits for them all (main.go:225-229, 240-244; load.go:117-124).
WindowClosesAtTheEnd ==
    endSnap.taken /\ endSnap.phase # "over" => cancelled
=============================================================================
