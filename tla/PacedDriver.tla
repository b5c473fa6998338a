---------------------------- MODULE PacedDriver ----------------------------
(***************************************************************************)
(* The driver as it runs: cmd/driver/main.go with the generator of         *)
(* internal/load in the place of the abstract permit source.  The two      *)
(* share the permits channel, Stop and the cancelled ctx; what the driver  *)
(* calls the phase is the place of the generator's clock in its profile.   *)
(***************************************************************************)
EXTENDS Driver

CONSTANTS Slice,            \* the 100ms cadence, in time units
          Profiles          \* the load profiles a run may be started with

ASSUME PacedAssumption ==
    /\ Slice \in Nat \ {0}
    /\ Profiles \subseteq [target: Nat, ramp: Nat, plateau: Nat]

VARIABLES profile, elapsed, left, gen, n, i, sent, late     \* of Ticker

pace == <<profile, elapsed, left, gen, n, i, sent, late>>
pacedVars == <<vars, pace>>

\* The workers inside Wait are those at "wait"; Ticker's history of those that
\* were told FALSE has no part in the composition.
Pacer == INSTANCE Ticker WITH waiting <- At({"wait"}), refused <- {}

PhaseAt(p, t) == IF t < p.ramp THEN "ramp"
                 ELSE IF t < p.ramp + p.plateau THEN "plateau" ELSE "over"

PacedInit ==
    /\ Init
    /\ profile \in Profiles
    /\ elapsed = 0 /\ left = 0
    /\ gen = "poll" /\ n = 1 /\ i = 0
    /\ sent = 0 /\ late = 0
    /\ phase = PhaseAt(profile, elapsed)

\* A step of the generator goroutine.  MaxCalls is a bound of the model.
Generate ==
    /\ main # "exit"
    /\ UNCHANGED <<phase, workVars, mainVars, smpVars>>
    /\ Pacer!Generator
    /\ avail' > avail => Issued < MaxCalls

Clock ==
    /\ main # "exit"
    /\ UNCHANGED <<workVars, mainVars, smpVars>>
    /\ Pacer!Tick
    /\ phase' = PhaseAt(profile, elapsed')

Main == MainStep /\ UNCHANGED pace

Work(w) == WorkerStep(w) /\ UNCHANGED pace

CallReturns(w) == Return(w) /\ UNCHANGED pace

PacedNext ==
    \/ Generate \/ Clock
    \/ /\ main # "exit"
       /\ \/ Main
          \/ \E w \in Workers: Work(w) \/ CallReturns(w)
          \/ (Signal \/ Sampler) /\ UNCHANGED pace
    \/ Exited /\ UNCHANGED pace

PacedSafety == PacedInit /\ [][PacedNext]_pacedVars

\* Runnable goroutines run, and every call returns: nothing in the code bounds
\* a call, the ctx has no deadline.  That the clock runs is said where it is
\* needed.
PacedFairness ==
    /\ WF_pacedVars(Generate)
    /\ WF_pacedVars(Main)
    /\ \A w \in Workers: WF_pacedVars(Work(w)) /\ WF_pacedVars(CallReturns(w))

PacedSpec == PacedSafety /\ PacedFairness

-----------------------------------------------------------------------------
(* Properties *)

\* Nothing the generator does with the driver is more than Driver allows its
\* permit source, so that what holds of every run of Driver holds of the paced
\* one (load.go:73-124, main.go:188-252).
ImplementsDriver == SafetySpec

\* A cancelled run still comes to its end, without the clock: also from the
\* ramp, with every worker blocked on an empty channel, or with the generator
\* blocked on a full one (main.go:221-229, 464-472; load.go:103-107).
CancelledRunEnds == cancelled ~> main = "exit"

\* If the clock runs, every run comes to its end, also one that nobody cancels:
\* the generator notices the end of the profile, closes the channel, and the
\* workers drain it and leave (load.go:84-87, main.go:225, 241).
RunEnds == WF_pacedVars(Clock) => <>(main = "exit")
=============================================================================
