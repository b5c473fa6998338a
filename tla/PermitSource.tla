---------------------------- MODULE PermitSource ----------------------------
(***************************************************************************)
(* What internal/load promises to the driver, without the pacing: a        *)
(* bounded buffer of permits, filled by one generator and emptied by the   *)
(* workers, that is closed once, and only when the run is over or has been *)
(* stopped.  Ticker implements it and Driver is composed with it.          *)
(***************************************************************************)
EXTENDS Naturals

CONSTANT Cap                \* capacity of the permits channel (64 in the code)

VARIABLES avail,            \* permits buffered in the channel
          closed,           \* the generator has returned: close(t.permits)
          phase,            \* where the wall clock stands in the profile
          stopped           \* Stop() has closed t.done

vars == <<avail, closed, phase, stopped>>

Phases == {"ramp", "plateau", "over"}

TypeOK == /\ avail \in 0..Cap
          /\ closed \in BOOLEAN
          /\ phase \in Phases
          /\ stopped \in BOOLEAN

\* A profile may have no ramp, and then no plateau either.
Init == /\ avail = 0
        /\ closed = FALSE
        /\ phase \in Phases
        /\ stopped = FALSE

\* One send on the permits channel.  After Stop the select of the generator
\* may still take the send branch, so Emit does not ask for ~stopped.
Emit == /\ ~closed
        /\ avail < Cap
        /\ avail' = avail + 1
        /\ UNCHANGED <<closed, phase, stopped>>

\* One receive by a worker; a closed channel is drained first.
Take == /\ avail > 0
        /\ avail' = avail - 1
        /\ UNCHANGED <<closed, phase, stopped>>

Close == /\ ~closed
         /\ phase = "over" \/ stopped
         /\ closed' = TRUE
         /\ UNCHANGED <<avail, phase, stopped>>

\* The clock crosses a boundary of the profile (both at once without plateau).
AdvanceClock == /\ \/ phase = "ramp" /\ phase' \in {"plateau", "over"}
                   \/ phase = "plateau" /\ phase' = "over"
                /\ UNCHANGED <<avail, closed, stopped>>

Stop == /\ ~stopped
        /\ stopped' = TRUE
        /\ UNCHANGED <<avail, closed, phase>>

Next == Emit \/ Take \/ Close \/ AdvanceClock \/ Stop

Spec == Init /\ [][Next]_vars
=============================================================================
