------------------------------- MODULE Matrix -------------------------------
(***************************************************************************)
(* scripts/run.sh, the Jobs it applies and the results directory it fills: *)
(* one pass over the matrix deletes, applies, awaits and collects one Job  *)
(* per cell, in order, and ends with report.py.  The directory and the     *)
(* cluster outlive a pass, and a second pass may follow a finished, failed *)
(* or interrupted one.  Every kubectl call may fail; `set -euo pipefail`   *)
(* decides which failures end the script.                                  *)
(***************************************************************************)
EXTENDS Naturals, Sequences, FiniteSets

CONSTANTS Order,            \* the cells, in the order of the two loops
          MaxPasses         \* bound: runs of the script

ASSUME MatrixAssumption ==
    /\ Order \in Seq(Nat) /\ Len(Order) > 0
    /\ \A j, k \in 1..Len(Order): Order[j] = Order[k] => j = k
    /\ MaxPasses \in Nat \ {0}

Cells == {Order[k]: k \in 1..Len(Order)}

VARIABLES pc, pos,          \* control point of the script, place in Order
          pass,             \* runs of the script so far
          job,              \* per cell: the state of the Job of that name
          born,             \* history: the pass that created the Job
          pods,             \* the driver pods running: cell and pass
          file,             \* per cell: the result file
          failed,           \* cells of this pass whose wait failed
          collected,        \* cells of this pass whose report was collected
          undeleted,        \* history: cells whose delete failed
          flagged           \* cells the comparison table calls missing

script  == <<pc, pos, pass>>
cluster == <<job, born, pods>>
history == <<failed, collected, undeleted>>
vars == <<script, cluster, file, history, flagged>>

cell == Order[pos]

\* A complete Job is silent when its log holds no report line.
JobStates == {"none", "running", "complete", "silent", "failed"}

Pod(c, p) == [cell |-> c, pass |-> p]

Pcs == {"delete", "apply", "wait", "collect", "summary", "next", "report",
        "done", "aborted"}

\* A result file: none, truncated and empty, a line that breaks off, or the
\* report of a Job.
Absent == [kind |-> "absent", pass |-> 0]
Empty  == [kind |-> "empty", pass |-> 0]
Cut    == [kind |-> "cut", pass |-> 0]
ReportOf(p) == [kind |-> "report", pass |-> p]

\* The types; the script stays inside the matrix.
TypeOK ==
    /\ pc \in Pcs /\ pos \in 1..Len(Order) /\ pass \in 1..MaxPasses
    /\ job \in [Cells -> JobStates] /\ born \in [Cells -> 0..MaxPasses]
    /\ pods \subseteq [cell: Cells, pass: 1..MaxPasses]
    /\ file \in [Cells -> {Absent, Empty, Cut} \cup
                          {ReportOf(p): p \in 1..MaxPasses}]
    /\ failed \subseteq Cells /\ collected \subseteq Cells
    /\ undeleted \subseteq Cells /\ flagged \subseteq Cells

Init ==
    /\ pc = "delete" /\ pos = 1 /\ pass = 1
    /\ job = [c \in Cells |-> "none"] /\ born = [c \in Cells |-> 0]
    /\ pods = {}
    /\ file = [c \in Cells |-> Absent]
    /\ failed = {} /\ collected = {} /\ undeleted = {} /\ flagged = {}

-----------------------------------------------------------------------------
(* The script *)

Goto(next) == pc' = next /\ UNCHANGED <<pos, pass>>

\* set -e: the pipeline or command failed.
Abort == Goto("aborted")

\* Mutant: no delete before the apply.
DeletesNever == FALSE

\* The API answers the delete.
Deletes == TRUE

\* kubectl delete job --ignore-not-found || true: a failure is ignored, and a
\* success removes the Job while its pod may still be terminating.
Delete ==
    /\ pc = "delete" /\ Goto("apply")
    /\ \/ /\ Deletes
          /\ job' = [job EXCEPT ![cell] = "none"]
          /\ UNCHANGED undeleted
       \/ /\ undeleted' = IF Deletes THEN undeleted \cup {cell} ELSE undeleted
          /\ UNCHANGED job
    /\ UNCHANGED <<born, pods, file, failed, collected, flagged>>

\* envsubst | kubectl apply: creates the Job, or leaves one of the same
\* template as it is; a changed template is refused, being immutable.
Apply ==
    /\ pc = "apply"
    /\ \/ /\ job[cell] = "none"
          /\ job' = [job EXCEPT ![cell] = "running"]
          /\ born' = [born EXCEPT ![cell] = pass]
          /\ pods' = pods \cup {Pod(cell, pass)}
          /\ Goto("wait")
       \/ /\ job[cell] # "none"
          /\ Goto("wait")
          /\ UNCHANGED cluster
       \/ Abort /\ UNCHANGED cluster
    /\ UNCHANGED <<file, history, flagged>>

\* Mutant: wait for the pod instead of the Job.
AwaitedStarted == job[cell] # "none"

\* The condition kubectl wait is waiting for.
Awaited == job[cell] \in {"complete", "silent"}

WaitDone ==
    /\ pc = "wait" /\ Awaited
    /\ Goto("collect")
    /\ UNCHANGED <<cluster, file, history, flagged>>

\* Mutant: a wait without a timeout.
GivesUpNever == FALSE

\* The timeout has passed, or kubectl wait fails.
GivesUp == TRUE

\* continue: the Job is left as it is, and so is the file of the cell.
WaitFailed ==
    /\ pc = "wait" /\ GivesUp
    /\ failed' = failed \cup {cell}
    /\ Goto("next")
    /\ UNCHANGED <<cluster, file, collected, undeleted, flagged>>

\* What a pipeline that fails leaves in the file, which the redirection emptied
\* first: nothing, or what kubectl had printed of the report when it failed.
Remains == IF job[cell] = "silent" THEN {Empty}
                                   ELSE {Empty, Cut, ReportOf(born[cell])}

\* The pipeline logs | grep | sed | tail > file: with pipefail a failing
\* kubectl, or a grep that matches nothing, fails it and with it the script.
Collect ==
    /\ pc = "collect"
    /\ \/ /\ job[cell] # "silent"
          /\ file' = [file EXCEPT ![cell] = ReportOf(born[cell])]
          /\ collected' = collected \cup {cell}
          /\ Goto("summary")
       \/ /\ \E f \in Remains: file' = [file EXCEPT ![cell] = f]
          /\ Abort
          /\ UNCHANGED collected
    /\ UNCHANGED <<cluster, failed, undeleted, flagged>>

\* The one-line summary, or a warning for an empty file.
Summary ==
    /\ pc = "summary"
    /\ \/ Goto("next")
       \/ file[cell] # Empty /\ Abort
    /\ UNCHANGED <<cluster, file, history, flagged>>

\* Mutant: the last cell of the matrix is left out.
LastButOne == Len(Order) - 1

Last == Len(Order)

NextCell ==
    /\ pc = "next"
    /\ IF pos < Last THEN pc' = "delete" /\ pos' = pos + 1 /\ UNCHANGED pass
                     ELSE Goto("report")
    /\ UNCHANGED <<cluster, file, history, flagged>>

\* report.py: a cell without a readable file is missing or unusable.
MakeReport ==
    /\ pc = "report" /\ Goto("done")
    /\ flagged' = {c \in Cells: file[c].kind # "report"}
    /\ UNCHANGED <<cluster, file, history>>

\* The operator starts the script again with the same output directory.
Again ==
    /\ pc \in {"done", "aborted"} /\ pass < MaxPasses
    /\ pc' = "delete" /\ pos' = 1 /\ pass' = pass + 1
    /\ failed' = {} /\ collected' = {} /\ undeleted' = {} /\ flagged' = {}
    /\ UNCHANGED <<cluster, file>>

\* The operator interrupts it.
Interrupt ==
    /\ pc \notin {"done", "aborted"}
    /\ Abort
    /\ UNCHANGED <<cluster, file, history, flagged>>

Script == \/ Delete \/ Apply \/ WaitDone \/ WaitFailed \/ Collect \/ Summary
          \/ NextCell \/ MakeReport

-----------------------------------------------------------------------------
\* The driver pod of a Job ends: backoffLimit is 0, so a failed pod fails the
\* Job and is not retried.
PodEnds(p) ==
    /\ p \in pods
    /\ pods' = pods \ {p}
    /\ IF job[p.cell] = "running" /\ born[p.cell] = p.pass
         THEN \E s \in {"complete", "silent", "failed"}:
                job' = [job EXCEPT ![p.cell] = s]
         ELSE UNCHANGED job
    /\ UNCHANGED <<script, born, file, history, flagged>>

\* Nothing is left to do; what still runs in the cluster ends by itself.
Finished ==
    /\ pc \in {"done", "aborted"} /\ pass = MaxPasses /\ pods = {}
    /\ UNCHANGED vars

Next == Script \/ Again \/ Interrupt \/ (\E p \in pods: PodEnds(p)) \/ Finished

SafetySpec == Init /\ [][Next]_vars

\* The script runs on; a pod need not end, and nobody need start the script.
Spec == SafetySpec /\ WF_vars(Script)

-----------------------------------------------------------------------------
(* Properties *)

\* Two drivers measure at once only after a cell of this pass timed out, could
\* not be deleted, or an earlier pass left its Job behind: the wait is what
\* keeps the matrix sequential (run.sh:4-7, 82).
SequentialUnlessLeftBehind ==
    Cardinality(pods) > 1 =>
        \E p \in pods: p.cell \in failed \cup undeleted \/ p.pass < pass

\* What is collected in this pass was measured in this pass, unless the old
\* Job could not be deleted: the delete whose failure is ignored is what keeps
\* an old report out of the results (run.sh:75-79, 93).
CollectedIsFresh ==
    \A c \in collected \ undeleted: file[c] = ReportOf(pass)

\* Only the report of a Job that completed is collected: the report of a
\* driver that still runs, or failed, is never in the results (run.sh:82-87).
CollectedIsComplete == [][\A c \in Cells:
    c \in collected' \ collected =>
        job[c] = "complete" /\ Pod(c, born[c]) \notin pods]_vars

\* A pass that ends settles every cell: its report is collected, or its wait
\* failed; nothing is skipped silently (run.sh:69-108).
EveryCellSettled == pc = "done" => collected \cup failed = Cells

\* The script ends, also when a driver never does: the wait has a timeout
\* (run.sh:56, 82).
ScriptEnds == pc \notin {"done", "aborted"} ~> pc \in {"done", "aborted"}

\* "continuing; report.py will flag this cell as missing" (run.sh:85).
FailedCellFlagged == pc = "done" => failed \subseteq flagged

\* "WARNING: empty report for $regime/$arm" (run.sh:98-99): a completed Job
\* whose log holds no report line costs a warning, and not the rest of the
\* matrix.
EmptyReportWarns ==
    pc = "aborted" /\ file[cell] = Empty => job[cell] # "silent"
=============================================================================
