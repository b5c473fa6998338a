----------------------------- MODULE Comparison -----------------------------
(***************************************************************************)
(* scripts/report.py: the results directory is read file by file, flat     *)
(* files first and replicates after them, and turned into one verdict per  *)
(* regime and metric and into a list of reasons not to trust them.  A      *)
(* report is reduced to one metric, the work it did and its own problems.  *)
(***************************************************************************)
EXTENDS Integers, Sequences, FiniteSets, Functions

CONSTANTS Regimes,
          Strays,           \* the pairs name.rpartition("-") makes of other files
          Paths,            \* the name of each file, in the order visited
          Directories,      \* the contents those files may have
          Floors            \* NOISE_FLOOR_PCT of a metric, else EQUAL_BAND_PCT

Arms == {"poseidon", "standard"}
Cells == Regimes \X Arms
Names == Cells \cup Strays

\* What a report may show about itself: plateau errors, a host that lost
\* time, runtime CPU figures that do not span the plateau, a missed rate.
Problems == {"errors", "drift", "runtime", "rate"}

NoValue == -1               \* the key is absent or no number
Figure == Nat \cup {NoValue}
Report == [value: Figure, body: Figure, requests: Figure, rps: Figure,
           problems: SUBSET Problems]

EQUAL_BAND_PCT == 5

ASSUME ComparisonAssumption ==
    /\ Strays \cap Cells = {}
    /\ Paths \in Seq(Names)
    /\ Directories \subseteq
          [DOMAIN Paths -> [kind: {"none", "bad", "good"}, data: Report]]
    /\ Floors \subseteq Nat

VARIABLES dir,              \* the directory being read
          k,                \* the next path
          reps,             \* per cell: all its reports, in order
          runs,             \* per cell: its representative, at most one
          extra_files,
          load_errors,      \* names of the files that could not be used
          table,            \* per floor and regime: the verdict
          findings,         \* the Validity section
          rendered

loaded == <<reps, runs, extra_files, load_errors>>
output == <<table, findings, rendered>>
vars == <<dir, k, loaded, output>>

Verdicts == {"none", "n/a", "below noise floor", "~equal", "overlapping",
             "poseidon better", "standard better"}
FindingKinds == {"unreadable", "unrecognized", "unusable", "missing", "body",
                 "requests", "rps"} \cup Problems

\* The types, and at most one representative for each cell.
TypeOK ==
    /\ DOMAIN dir = DOMAIN Paths /\ k \in 1..(Len(Paths) + 1)
    /\ reps \in [Cells -> Seq(Report)]
    /\ runs \in [Cells -> Seq(Report)] /\ \A c \in Cells: Len(runs[c]) <= 1
    /\ extra_files \subseteq Strays /\ load_errors \subseteq Names
    /\ table \in [Floors \X Regimes -> Verdicts]
    /\ findings \subseteq (FindingKinds \X Names)
    /\ rendered \in BOOLEAN

Init ==
    /\ dir \in Directories /\ k = 1
    /\ reps = [c \in Cells |-> <<>>] /\ runs = [c \in Cells |-> <<>>]
    /\ extra_files = {} /\ load_errors = {}
    /\ table = [x \in Floors \X Regimes |-> "none"]
    /\ findings = {} /\ rendered = FALSE

-----------------------------------------------------------------------------
(* load_reports *)

\* runs.setdefault(...)
Representative(old, r) == IF old = <<>> THEN <<r>> ELSE old

\* Mutant: a replicate replaces the one before it.
CollectedLast(s, r) == <<r>>

\* reps.setdefault(..., []).append(data)
Collected(s, r) == Append(s, r)

LoadFile ==
    /\ k <= Len(Paths) /\ k' = k + 1
    /\ LET n == Paths[k]
           f == dir[k]
       IN  \/ /\ f.kind = "none"
              /\ UNCHANGED loaded
           \/ /\ f.kind = "bad"                 \* unreadable, or no object
              /\ load_errors' = load_errors \cup {n}
              /\ UNCHANGED <<reps, runs, extra_files>>
           \/ /\ f.kind = "good" /\ n \in Cells
              /\ reps' = [reps EXCEPT ![n] = Collected(@, f.data)]
              /\ runs' = [runs EXCEPT ![n] = Representative(@, f.data)]
              /\ UNCHANGED <<extra_files, load_errors>>
           \/ /\ f.kind = "good" /\ n \in Strays
              /\ extra_files' = extra_files \cup {n}
              /\ UNCHANGED <<reps, runs, load_errors>>
    /\ UNCHANGED <<dir, output>>

-----------------------------------------------------------------------------
(* The verdict of one regime *)

\* The values among the first n records of a cell.
Values(records) ==
    LET values[n \in 0..Len(records)] ==
            IF n = 0 THEN <<>>
            ELSE IF records[n].value = NoValue THEN values[n - 1]
            ELSE Append(values[n - 1], records[n].value)
    IN  values

\* cell_series
Series(c) == Values(reps[c])[Len(reps[c])]

Sum(s) == SumFunction(s)

Abs(x) == IF x < 0 THEN -x ELSE x

\* The difference of the means, and the baseline mean, of two series, both
\* scaled by the product of the series' lengths.
Diff(p, s) == Sum(p) * Len(s) - Sum(s) * Len(p)
Base(p, s) == Sum(s) * Len(p)

\* abs(delta) < pct
Within(p, s, pct) == Abs(Diff(p, s)) * 100 < pct * Base(p, s)

Better(p, s) == IF Diff(p, s) < 0 THEN "poseidon better" ELSE "standard better"

\* Mutant: the tie is tested before the floor.
DeltaVerdictTieFirst(p, s, floor) ==
    CASE p = <<>> \/ s = <<>> \/ Sum(s) = 0 -> "n/a"
      [] OTHER -> IF Within(p, s, EQUAL_BAND_PCT) THEN "~equal"
                  ELSE IF Within(p, s, floor) THEN "below noise floor"
                  ELSE Better(p, s)

\* delta_and_verdict
DeltaVerdict(p, s, floor) ==
    CASE p = <<>> \/ s = <<>> \/ Sum(s) = 0 -> "n/a"
      [] OTHER -> IF Within(p, s, floor) /\ floor > EQUAL_BAND_PCT
                    THEN "below noise floor"
                  ELSE IF Within(p, s, EQUAL_BAND_PCT) THEN "~equal"
                  ELSE IF Within(p, s, floor) THEN "below noise floor"
                  ELSE Better(p, s)

Below(a, b) == \A x \in Range(a), y \in Range(b): x < y

\* Mutant: one replicate of an arm beats every one of the other.
SeparatedByBest(a, b) == \/ \E x \in Range(a): Below(<<x>>, b)
                         \/ \E y \in Range(b): Below(<<y>>, a)

\* separated, for two samples or more on each side
Separated(a, b) == Below(a, b) \/ Below(b, a)

\* render_metric_table, the verdict column
Verdict(r, floor) ==
    LET p == Series(<<r, "poseidon">>)
        s == Series(<<r, "standard">>)
        replicated == \E c \in Cells: Len(reps[c]) > 1
    IN  IF ~replicated \/ Len(p) < 2 \/ Len(s) < 2 THEN DeltaVerdict(p, s, floor)
        ELSE IF ~Separated(p, s) THEN "overlapping"
        ELSE Better(p, s)

-----------------------------------------------------------------------------
(* validity_findings *)

Has(c) == runs[c] # <<>>
Run(c) == Head(runs[c])

FileFindings ==
    {<<"unreadable", n>>: n \in load_errors} \cup
    {<<"unrecognized", n>>: n \in extra_files} \cup
    {<<IF c \in load_errors THEN "unusable" ELSE "missing", c>>:
        c \in {c \in Cells: ~Has(c)}}

\* Mutant: the standard arm is not asked for errors and the like.
OwnFindingsOneArm == {x \in Problems \X (Regimes \X {"poseidon"}):
                        Has(x[2]) /\ x[1] \in Run(x[2]).problems}

\* Plateau errors, clock drift, runtime CPU figures, achieved rate.
OwnFindings == {x \in Problems \X Cells:
                  Has(x[2]) /\ x[1] \in Run(x[2]).problems}

\* relative_gap_pct(a, b) is None.
Unstated(a, b) == NoValue \in {a, b}

\* relative_gap_pct(a, b) > permille / 10
Apart(a, b, permille) ==
    ~Unstated(a, b) /\ Abs(a - b) * 1000 > permille * (IF a > b THEN a ELSE b)

\* Body volume (BODY_TOLERANCE_PCT), requests and rate (PAIR_TOLERANCE_PCT).  A
\* missing figure is a finding for the last two; for the first, the regime is
\* passed over.
PairFindings ==
    {f \in {"body", "requests", "rps"} \X (Regimes \X {"poseidon"}):
        LET p == f[2]
            s == <<p[1], "standard">>
        IN  /\ Has(p) /\ Has(s)
            /\ \/ f[1] = "body" /\ Apart(Run(p).body, Run(s).body, 5)
               \/ /\ f[1] = "requests"
                  /\ \/ Unstated(Run(p).requests, Run(s).requests)
                     \/ Apart(Run(p).requests, Run(s).requests, 20)
               \/ /\ f[1] = "rps"
                  /\ \/ Unstated(Run(p).rps, Run(s).rps)
                     \/ Apart(Run(p).rps, Run(s).rps, 20)}

\* build_document
Render ==
    /\ k > Len(Paths) /\ ~rendered
    /\ table' = [x \in Floors \X Regimes |-> Verdict(x[2], x[1])]
    /\ findings' = FileFindings \cup OwnFindings \cup PairFindings
    /\ rendered' = TRUE
    /\ UNCHANGED <<dir, k, loaded>>

Next == LoadFile \/ Render

Spec == Init /\ [][Next]_vars

-----------------------------------------------------------------------------
(* Properties, stated against the directory and not against what was read *)

Files(c) == {j \in DOMAIN Paths: Paths[j] = c /\ dir[j].kind = "good"}
First(c) == {j \in Files(c): \A i \in Files(c): j <= i}
Broken(c) == \E j \in DOMAIN Paths: Paths[j] = c /\ dir[j].kind = "bad"
Measured(c) == {j \in Files(c): dir[j].data.value # NoValue}
Total(c) == Sum([j \in Measured(c) |-> dir[j].data.value])
Won(arm) == IF arm = "poseidon" THEN "poseidon better" ELSE "standard better"
Other(arm) == IF arm = "poseidon" THEN "standard" ELSE "poseidon"

\* A verdict for an arm is never won by the choice of a replicate: the mean of
\* all the arm's files is the lower one, and where both arms were measured more
\* than once every file of the winner beats every file of the loser
\* (render_metric_table, separated).
WinnerBeatsEveryFile ==
    \A x \in Floors \X Regimes, arm \in Arms:
        LET w == <<x[2], arm>>
            l == <<x[2], Other(arm)>>
        IN  table[x] = Won(arm) =>
              /\ Total(w) * Cardinality(Measured(l))
                   < Total(l) * Cardinality(Measured(w))
              /\ Cardinality(Measured(w)) > 1 /\ Cardinality(Measured(l)) > 1 =>
                   \A i \in Measured(w), j \in Measured(l):
                       dir[i].data.value < dir[j].data.value

\* "~equal" is a claim, made only for a metric that can resolve the band and
\* for means that lie inside it (delta_and_verdict).
TieIsResolved ==
    \A x \in Floors \X Regimes:
        LET p == <<x[2], "poseidon">>
            s == <<x[2], "standard">>
            np == Cardinality(Measured(p))
            ns == Cardinality(Measured(s))
        IN  table[x] = "~equal" =>
              /\ x[1] <= EQUAL_BAND_PCT
              /\ 100 * Abs(Total(p) * ns - Total(s) * np)
                   < EQUAL_BAND_PCT * Total(s) * np

\* Every file of the directory is in the average that its cell is judged by, once
\* and with its own value, or the document names it; a file of a cell that does
\* not have the metric is in neither, only the table's n is smaller.  A cell
\* without a usable file is named too, as unusable if it has a broken one
\* (load_reports, cell_series, validity_findings).
NothingVanishes ==
    rendered =>
        /\ \A c \in Cells:
              /\ Len(Series(c)) = Cardinality(Measured(c))
              /\ Sum(Series(c)) = Total(c)
              /\ Range(Series(c)) = {dir[j].data.value: j \in Measured(c)}
        /\ \A j \in DOMAIN Paths:
              /\ dir[j].kind = "bad" => <<"unreadable", Paths[j]>> \in findings
              /\ dir[j].kind = "good" /\ Paths[j] \in Strays =>
                    <<"unrecognized", Paths[j]>> \in findings
        /\ \A c \in Cells: Files(c) = {} =>
              IF Broken(c) THEN <<"unusable", c>> \in findings
                           ELSE <<"missing", c>> \in findings

\* A document without findings has a report of both arms for every regime, and
\* of each arm the report that is read first shows no problem and states its
\* requests and its rate, which agree with the other arm's.  So do the bodies
\* where both state them; where one does not, no finding tells that the arms
\* were not compared for the work they did (validity_findings).
CleanMeansComparable ==
    rendered /\ findings = {} =>
        \A r \in Regimes:
            \E i \in First(<<r, "poseidon">>), j \in First(<<r, "standard">>):
                LET p == dir[i].data
                    s == dir[j].data
                IN  /\ p.problems = {} /\ s.problems = {}
                    /\ ~Unstated(p.requests, s.requests)
                    /\ ~Apart(p.requests, s.requests, 20)
                    /\ ~Unstated(p.rps, s.rps) /\ ~Apart(p.rps, s.rps, 20)
                    /\ ~Apart(p.body, s.body, 5)

\* Violated: "a Validity section flagging anything that would make the
\* comparison untrustworthy (errored runs, ...)" (report.py:16-17).  An errored
\* replicate after the first is averaged and not flagged.
ErroredRunsFlagged ==
    rendered => \A c \in Cells: \A j \in Files(c):
        "errors" \in dir[j].data.problems => <<"errors", c>> \in findings
=============================================================================
