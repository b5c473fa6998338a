---------------------------- MODULE MatrixProofs ----------------------------
(***************************************************************************)
(* Proofs about Matrix, for any order of any number of cells and any       *)
(* number of passes: it is well typed, what it collects is complete and of *)
(* this pass, it settles every cell, and it measures one cell at a time    *)
(* unless one was left behind.                                             *)
(***************************************************************************)
EXTENDS Matrix, FiniteSetTheorems, TLAPS

\* A Job's pod is gone when the Job has ended; the present pass is the last.
JobInv ==
    /\ \A c \in Cells:
          /\ born[c] <= pass
          /\ job[c] # "none" => born[c] >= 1
          /\ job[c] \in {"complete", "silent", "failed"} =>
                 Pod(c, born[c]) \notin pods
    /\ \A p \in pods: p.pass <= pass
    /\ pc = "collect" => job[cell] \in {"complete", "silent"}

TInv == TypeOK /\ JobInv

LEMMA CellsHaveOrder == \A k \in 1..Len(Order): Order[k] \in Cells
BY DEF Cells

LEMMA CellIsCell == TypeOK => cell \in Cells
BY CellsHaveOrder DEF TypeOK, cell

LEMMA TInit == Init => TInv
BY MatrixAssumption
   DEF Init, TInv, TypeOK, JobInv, Pcs, JobStates, Absent, Empty, Cut

LEMMA TStep == TInv /\ [Next]_vars => TInv'
<1> SUFFICES ASSUME TInv, [Next]_vars PROVE TInv'
    OBVIOUS
<1> USE DEF TInv, TypeOK, JobInv, Pcs, JobStates
<1>c. cell \in Cells /\ pos \in 1..Len(Order) /\ pass \in Nat /\ Len(Order) \in Nat
    BY CellIsCell, MatrixAssumption
<1>1. CASE Delete
    BY <1>c, <1>1 DEF Delete, Goto, cell
<1>2. CASE Apply
    <2>1. /\ pos' = pos /\ pass' = pass /\ pc' \in {"wait", "aborted"}
          /\ UNCHANGED <<file, failed, collected, undeleted, flagged>>
        BY <1>2 DEF Apply, Goto, Abort, history
    <2>2. CASE UNCHANGED <<job, born, pods>>
        BY <2>1, <2>2
    <2>3. CASE /\ job' = [job EXCEPT ![cell] = "running"]
               /\ born' = [born EXCEPT ![cell] = pass]
               /\ pods' = pods \cup {Pod(cell, pass)}
        BY <1>c, <2>1, <2>3 DEF Pod
    <2> QED BY <1>2, <2>2, <2>3 DEF Apply, cluster
<1>3. CASE WaitDone
    BY <1>c, <1>3 DEF WaitDone, Goto, Awaited, cluster, history, cell
<1>4. CASE WaitFailed
    BY <1>c, <1>4 DEF WaitFailed, Goto, cluster
<1>5. CASE Collect
    <2>1. /\ pos' = pos /\ pass' = pass /\ pc' \in {"summary", "aborted"}
          /\ UNCHANGED <<job, born, pods, failed, undeleted, flagged>>
          /\ collected' \in {collected, collected \cup {cell}}
        BY <1>5 DEF Collect, Goto, Abort, cluster
    <2>2. born[cell] \in 1..MaxPasses
        BY <1>c, <1>5, MatrixAssumption DEF Collect
    <2>3. \E f \in {Empty, Cut, ReportOf(born[cell])}:
              file' = [file EXCEPT ![cell] = f]
        BY <1>5 DEF Collect, Remains
    <2> QED BY <1>c, <2>1, <2>2, <2>3
<1>6. CASE Summary
    BY <1>6 DEF Summary, Goto, Abort, cluster, history
<1>7. CASE NextCell
    <2>1. pos' \in 1..Len(Order)
        BY <1>c, <1>7 DEF NextCell, Goto, Last
    <2> QED BY <1>7, <2>1 DEF NextCell, Goto, cluster, history
<1>8. CASE MakeReport
    BY <1>8 DEF MakeReport, Goto, cluster, history
<1>9. CASE Again
    BY <1>c, <1>9, MatrixAssumption DEF Again, cluster
<1>10. CASE Interrupt
    BY <1>10 DEF Interrupt, Goto, Abort, cluster, history
<1>11. ASSUME NEW p \in pods, PodEnds(p) PROVE TInv'
    <2>1. /\ UNCHANGED <<pc, pos, pass, born, file, failed, collected,
                         undeleted, flagged>>
          /\ pods' = pods \ {p}
        BY <1>11 DEF PodEnds, script, history
    <2>2. CASE job[p.cell] = "running" /\ born[p.cell] = p.pass
        <3>1. PICK s \in {"complete", "silent", "failed"}:
                  job' = [job EXCEPT ![p.cell] = s]
            BY <1>11, <2>2 DEF PodEnds
        <3>2. p = Pod(p.cell, born[p.cell]) /\ p.cell \in Cells
            BY <2>2 DEF Pod
        <3>3. pc = "collect" => cell # p.cell
            BY <2>2
        <3>4. JobInv'
            <4>1. ASSUME NEW c \in Cells PROVE
                      /\ job'[c] # "none" => job[c] # "none"
                      /\ job'[c] \in {"complete", "silent", "failed"} =>
                             Pod(c, born[c]) \notin pods'
                <5>1. CASE c = p.cell
                    BY <2>1, <2>2, <3>1, <3>2, <5>1
                <5>2. CASE c # p.cell
                    BY <2>1, <3>1, <5>2
                <5> QED BY <5>1, <5>2
            <4>2. pc' = "collect" => (job[cell] \in {"complete", "silent"})'
                BY <1>c, <2>1, <3>1, <3>3 DEF cell
            <4> QED BY <2>1, <4>1, <4>2 DEF cell
        <3> QED BY <2>1, <3>1, <3>2, <3>4
    <2>3. CASE ~(job[p.cell] = "running" /\ born[p.cell] = p.pass)
        <3>1. job' = job
            BY <1>11, <2>3 DEF PodEnds
        <3> QED BY <2>1, <3>1 DEF cell
    <2> QED BY <2>2, <2>3
<1>12. CASE UNCHANGED vars
    BY <1>12 DEF vars, script, cluster, history, cell
<1> QED BY <1>1, <1>2, <1>3, <1>4, <1>5, <1>6, <1>7, <1>8, <1>9, <1>10, <1>11,
           <1>12 DEF Next, Script, Finished

LEMMA TInvariant == SafetySpec => []TInv
BY TInit, TStep, PTL DEF SafetySpec

\* The script's state is well typed, and it stays inside the matrix
\* (run.sh:36-112).
THEOREM MatrixTypeOK == SafetySpec => []TypeOK
<1>1. TInv => TypeOK
    BY DEF TInv
<1> QED BY <1>1, TInvariant, PTL

\* Only the report of a Job that has completed, and whose pod is gone, is
\* collected, for any matrix (run.sh:82-93).
THEOREM Complete == SafetySpec => CollectedIsComplete
<1> DEFINE Fits == \A c \in Cells: c \in collected' \ collected =>
                       job[c] = "complete" /\ Pod(c, born[c]) \notin pods
<1>1. TInv /\ [Next]_vars => [Fits]_vars
    <2> SUFFICES ASSUME TInv, [Next]_vars, NEW c \in Cells,
                        c \in collected' \ collected
                 PROVE job[c] = "complete" /\ Pod(c, born[c]) \notin pods
        OBVIOUS
    <2>1. Collect
        BY DEF Next, Script, Delete, Apply, WaitDone, WaitFailed, Summary,
               NextCell, MakeReport, Again, Interrupt, PodEnds, Finished,
               history, vars
    <2>2. c = cell /\ pc = "collect" /\ job[cell] # "silent"
        BY <2>1 DEF Collect
    <2> QED BY <2>2 DEF TInv, JobInv
<1> QED BY <1>1, TInvariant, PTL DEF SafetySpec, CollectedIsComplete

-----------------------------------------------------------------------------
(* Every cell in its turn *)

\* The cells of the first n places.
Visited(n) == {Order[k]: k \in 1..n}

\* The cell at pos is still ahead, or dealt with, or the pass is over.
Ahead == pc \in {"delete", "apply", "wait", "collect"}

Behind == pc \in {"summary", "next"}

TurnInv ==
    /\ Ahead => collected \cup failed = Visited(pos - 1)
    /\ Behind => collected \cup failed = Visited(pos)
    /\ pc \in {"report", "done"} => collected \cup failed = Cells

LEMMA VisitedStep ==
    ASSUME NEW n \in 1..Len(Order)
    PROVE  /\ Visited(n) = Visited(n - 1) \cup {Order[n]}
           /\ Order[n] \notin Visited(n - 1)
           /\ Visited(0) = {} /\ Visited(Len(Order)) = Cells
BY MatrixAssumption DEF Visited, Cells

LEMMA TurnInit == Init => TurnInv
BY VisitedStep, MatrixAssumption DEF Init, TurnInv, Visited, Ahead, Behind

LEMMA TurnStep == TInv /\ TurnInv /\ [Next]_vars => TurnInv'
<1> SUFFICES ASSUME TInv, TurnInv, [Next]_vars PROVE TurnInv'
    OBVIOUS
<1> USE DEF TurnInv, Ahead, Behind, Pcs
<1>c. pos \in 1..Len(Order) /\ Len(Order) \in Nat
    BY MatrixAssumption DEF TInv, TypeOK
<1>v. Visited(pos) = Visited(pos - 1) \cup {cell}
    BY <1>c, VisitedStep DEF cell
<1>1. CASE Delete \/ Apply \/ WaitDone
    <2>1. /\ UNCHANGED <<pos, failed, collected>>
          /\ Ahead /\ pc' \in {"apply", "wait", "collect", "aborted"}
        BY <1>1 DEF Delete, Apply, WaitDone, Goto, Abort, history
    <2> QED BY <2>1 DEF Visited
<1>2. CASE WaitFailed \/ Collect
    <2>1. /\ UNCHANGED pos /\ Ahead
          /\ \/ pc' = "aborted"
             \/ /\ pc' \in {"next", "summary"}
                /\ collected' \cup failed' = collected \cup failed \cup {cell}
        BY <1>2 DEF WaitFailed, Collect, Goto, Abort
    <2>2. Visited(pos)' = Visited(pos)
        BY <2>1 DEF Visited
    <2> QED BY <1>v, <2>1, <2>2
<1>3. CASE Summary
    BY <1>3 DEF Summary, Goto, Abort, history, Visited
<1>4. CASE NextCell
    <2>1. UNCHANGED <<collected, failed>> /\ pc = "next"
        BY <1>4 DEF NextCell, history
    <2>2. CASE pos < Len(Order)
        <3>1. pc' = "delete" /\ pos' = pos + 1
            BY <1>4, <2>2 DEF NextCell, Last
        <3>2. Visited(pos' - 1) = Visited(pos)
            BY <1>c, <3>1 DEF Visited
        <3> QED BY <2>1, <3>1, <3>2 DEF Visited
    <2>3. CASE pos = Len(Order)
        <3>1. pc' = "report" /\ Visited(pos) = Cells
            BY <1>4, <1>c, <2>3, VisitedStep DEF NextCell, Last, Goto
        <3> QED BY <2>1, <3>1
    <2> QED BY <1>c, <2>2, <2>3
<1>5. CASE MakeReport \/ Interrupt
    BY <1>5 DEF MakeReport, Interrupt, Goto, Abort, history
<1>6. CASE Again
    BY <1>6, <1>c, VisitedStep, MatrixAssumption DEF Again, Visited
<1>7. CASE UNCHANGED <<pc, pos, collected, failed>>
    BY <1>7 DEF Visited
<1> QED BY <1>1, <1>2, <1>3, <1>4, <1>5, <1>6, <1>7
        DEF Next, Script, PodEnds, Finished, vars, script, history

\* A pass that ends has dealt with every cell, for any matrix (run.sh:69-108).
THEOREM Settled == SafetySpec => []EveryCellSettled
<1>1. TurnInv => EveryCellSettled
    BY DEF TurnInv, EveryCellSettled
<1> QED BY <1>1, TInvariant, TurnInit, TurnStep, PTL DEF SafetySpec

-----------------------------------------------------------------------------
(* The reports are of this pass *)

\* A cell whose delete succeeded has no Job before the apply, and after it one
\* of this pass.
FreshInv ==
    /\ pc = "apply" => cell \in undeleted \/ job[cell] = "none"
    /\ pc \in {"wait", "collect"} => cell \in undeleted \/ born[cell] = pass
    /\ CollectedIsFresh

LEMMA FreshInit == Init => FreshInv
BY DEF Init, FreshInv, CollectedIsFresh

LEMMA FreshStep == TInv /\ TurnInv /\ FreshInv /\ [Next]_vars => FreshInv'
<1> SUFFICES ASSUME TInv, TurnInv, FreshInv, [Next]_vars PROVE FreshInv'
    OBVIOUS
<1> USE DEF FreshInv, CollectedIsFresh, TInv, TypeOK
<1>c. cell \in Cells /\ pos \in 1..Len(Order) /\ pass \in Nat
    BY CellIsCell, MatrixAssumption
<1>n. Ahead => cell \notin collected
    BY <1>c, VisitedStep DEF TurnInv, cell
<1>1. CASE Delete
    <2>1. /\ pc' = "apply" /\ UNCHANGED <<pos, pass, file, collected>>
          /\ undeleted \subseteq undeleted'
          /\ cell \in undeleted' \/ job'[cell] = "none"
        BY <1>c, <1>1 DEF Delete, Deletes, Goto
    <2> QED BY <2>1 DEF cell
<1>2. CASE Apply
    <2>1. /\ pc = "apply" /\ pc' \in {"wait", "aborted"}
          /\ UNCHANGED <<pos, pass, file, collected, undeleted>>
          /\ pc' = "wait" => \/ job[cell] # "none" /\ born' = born
                             \/ born'[cell] = pass
        BY <1>c, <1>2 DEF Apply, Goto, Abort, history, cluster
    <2> QED BY <2>1 DEF cell
<1>3. CASE WaitDone
    BY <1>3 DEF WaitDone, Goto, cluster, history, cell
<1>4. CASE WaitFailed
    BY <1>4 DEF WaitFailed, Goto, cluster
<1>5. CASE Collect
    <2>1. /\ pc = "collect" /\ pc' \in {"summary", "aborted"}
          /\ UNCHANGED <<pos, pass, undeleted>>
          /\ \/ /\ file' = [file EXCEPT ![cell] = ReportOf(born[cell])]
                /\ collected' = collected \cup {cell}
             \/ \E f \in Remains: file' = [file EXCEPT ![cell] = f]
                                  /\ collected' = collected
        BY <1>5 DEF Collect, Goto, Abort
    <2>2. cell \notin collected
        BY <1>n, <2>1 DEF Ahead
    <2>3. ASSUME NEW c \in collected' \ undeleted' PROVE file'[c] = ReportOf(pass')
        <3>1. CASE c = cell
            BY <1>c, <2>1, <2>2, <3>1
        <3>2. CASE c # cell
            BY <1>c, <2>1, <3>2
        <3> QED BY <3>1, <3>2
    <2> QED BY <2>1, <2>3
<1>6. CASE Summary \/ MakeReport \/ Interrupt
    BY <1>6 DEF Summary, MakeReport, Interrupt, Goto, Abort, history
<1>7. CASE NextCell
    BY <1>7 DEF NextCell, Goto, history
<1>8. CASE Again
    BY <1>8 DEF Again
<1>9. ASSUME NEW p \in pods, PodEnds(p) PROVE FreshInv'
    <2>1. /\ UNCHANGED <<pc, pos, pass, born, file, collected, undeleted>>
          /\ \A c \in Cells: job[c] = "none" => job'[c] = "none"
        BY <1>9 DEF PodEnds, script, history
    <2> QED BY <1>c, <2>1 DEF cell
<1>10. CASE UNCHANGED vars
    BY <1>10 DEF vars, script, cluster, history, cell
<1> QED BY <1>1, <1>2, <1>3, <1>4, <1>5, <1>6, <1>7, <1>8, <1>9, <1>10
        DEF Next, Script, Finished

\* What a pass collects was measured in that pass, unless the delete of the old
\* Job failed, for any matrix and any number of passes (run.sh:75-93).
THEOREM Fresh == SafetySpec => []CollectedIsFresh
<1>1. FreshInv => CollectedIsFresh
    BY DEF FreshInv
<1> QED BY <1>1, TInvariant, TurnInit, TurnStep, FreshInit, FreshStep, PTL
        DEF SafetySpec

-----------------------------------------------------------------------------
(* One cell at a time *)

\* A pod of this pass whose cell was neither given up nor left undeleted.
Expected(p) == p.pass = pass /\ p.cell \notin failed \cup undeleted

\* Such a pod is the one the script is waiting for, or was when it was stopped.
SoleInv ==
    \A p \in pods: Expected(p) => p.cell = cell /\ pc \in {"wait", "aborted"}

LEMMA SoleInit == Init => SoleInv
BY DEF Init, SoleInv

LEMMA SoleStep == TInv /\ FreshInv /\ SoleInv /\ [Next]_vars => SoleInv'
<1> SUFFICES ASSUME TInv, FreshInv, SoleInv, [Next]_vars PROVE SoleInv'
    OBVIOUS
<1> USE DEF SoleInv, Expected, TInv, TypeOK
<1>c. cell \in Cells /\ pos \in 1..Len(Order) /\ pass \in Nat
    BY CellIsCell, MatrixAssumption
<1>1. CASE Delete
    BY <1>1 DEF Delete, Goto
<1>2. CASE Apply
    <2>1. /\ pc = "apply" /\ pc' \in {"wait", "aborted"}
          /\ UNCHANGED <<pos, pass, failed, undeleted>>
          /\ \/ pods' = pods
             \/ pc' = "wait" /\ pods' = pods \cup {Pod(cell, pass)}
        BY <1>2 DEF Apply, Goto, Abort, history, cluster
    <2> QED BY <2>1 DEF Pod, cell
<1>3. CASE WaitDone
    <2>1. /\ pc = "wait" /\ pc' = "collect"
          /\ UNCHANGED <<pos, pass, pods, failed, undeleted>>
          /\ job[cell] \in {"complete", "silent"}
        BY <1>3 DEF WaitDone, Goto, Awaited, cluster, history
    <2>2. ASSUME NEW p \in pods, Expected(p) PROVE FALSE
        <3>1. p.cell = cell /\ p.pass = pass
            BY <2>2
        <3>2. born[cell] = pass
            BY <2>1, <2>2, <3>1 DEF FreshInv
        <3>3. p = Pod(cell, born[cell])
            BY <3>1, <3>2 DEF Pod
        <3> QED BY <1>c, <2>1, <3>3 DEF JobInv
    <2> QED BY <2>1, <2>2
<1>4. CASE WaitFailed
    BY <1>4 DEF WaitFailed, Goto, cluster
<1>5. CASE Collect \/ Summary \/ MakeReport
    BY <1>5 DEF Collect, Summary, MakeReport, Goto, Abort, cluster, history
<1>6. CASE NextCell
    BY <1>6 DEF NextCell, Goto, cluster, history
<1>7. CASE Again
    BY <1>7, <1>c DEF Again, cluster, JobInv
<1>8. CASE Interrupt
    BY <1>8 DEF Interrupt, Goto, Abort, cluster, history, cell
<1>9. ASSUME NEW p \in pods, PodEnds(p) PROVE SoleInv'
    BY <1>9 DEF PodEnds, script, history, cell
<1>10. CASE UNCHANGED vars
    BY <1>10 DEF vars, script, cluster, history, cell
<1> QED BY <1>1, <1>2, <1>3, <1>4, <1>5, <1>6, <1>7, <1>8, <1>9, <1>10
        DEF Next, Script, Finished

\* Two drivers measure at once only if a cell was left behind, for any matrix
\* and any number of passes (run.sh:75, 82).
THEOREM Sequential == SafetySpec => []SequentialUnlessLeftBehind
<1>1. TInv /\ SoleInv => SequentialUnlessLeftBehind
    <2> SUFFICES ASSUME TInv, SoleInv, Cardinality(pods) > 1,
                        \A p \in pods: /\ p.cell \notin failed \cup undeleted
                                       /\ ~(p.pass < pass)
                 PROVE FALSE
        BY DEF SequentialUnlessLeftBehind
    <2>1. pods \subseteq {Pod(cell, pass)}
        <3> SUFFICES ASSUME NEW p \in pods PROVE p = Pod(cell, pass)
            OBVIOUS
        <3>1. p.pass \in Nat /\ pass \in Nat /\ p.pass <= pass
            BY MatrixAssumption DEF TInv, TypeOK, JobInv
        <3>2. p.pass = pass
            BY <3>1
        <3>3. p.cell = cell
            BY <3>2 DEF SoleInv, Expected
        <3> QED BY <3>2, <3>3 DEF Pod, TInv, TypeOK
    <2>2. /\ IsFiniteSet({Pod(cell, pass)})
          /\ Cardinality({Pod(cell, pass)}) = 1
        BY FS_Singleton
    <2>3. Cardinality(pods) \in Nat /\ Cardinality(pods) <= 1
        BY <2>1, <2>2, FS_Subset, FS_CardinalityType
    <2> QED BY <2>3
<1> QED BY <1>1, TInvariant, TurnInit, TurnStep, FreshInit, FreshStep,
           SoleInit, SoleStep, PTL DEF SafetySpec
=============================================================================
