---------------------------- MODULE MCComparison ----------------------------
(* Two replicates of h1, one of h2 whose standard arm may be missing, and a  *)
(* stray file.  The values lie 4, 7 and 12 percent below the baseline of 100.*)
(* A report may lack the metric, or a figure the arms are compared by; one   *)
(* without a rate shows neither drift nor a missed rate (report.py:481-490,  *)
(* 547-549).                                                                 *)
EXTENDS Comparison

P(r) == <<r, "poseidon">>
S(r) == <<r, "standard">>
Stray == <<"", "notes">>

\* Flat files of h1, h2 and the stray, then rep1: the order of
\* sorted(glob("*.json")) + sorted(glob("rep*/*.json")).
MCPaths == <<P("h1"), S("h1"), P("h2"), S("h2"), Stray, P("h1"), S("h1")>>
MCStrays == {Stray}

Clean(v) == [value |-> v, body |-> 1000, requests |-> 1000, rps |-> 100,
             problems |-> {}]
Showing(ps) == [Clean(93) EXCEPT !.problems = ps]
NoFile == [kind |-> "none", data |-> Clean(0)]
BadFile == [kind |-> "bad", data |-> Clean(0)]
Good(r) == [kind |-> "good", data |-> r]

Plain == {NoFile, BadFile} \cup {Good(Clean(v)): v \in {100, 96, 93, 88}}
Odd == {Good(Showing({"errors"})), Good(Showing({"drift", "rate"})),
        Good([Clean(100) EXCEPT !.body = 1010]),
        Good([Clean(100) EXCEPT !.requests = 970, !.rps = 97]),
        Good([Clean(100) EXCEPT !.body = NoValue]),
        Good([Clean(96) EXCEPT !.requests = NoValue]),
        Good([Clean(93) EXCEPT !.rps = NoValue]),
        Good([Clean(NoValue) EXCEPT !.problems = {"runtime"}])}

MCDirectories ==
    {<<a, b, Good(Clean(95)), g, n, c, d>>:
        a \in Plain \cup Odd, b \in Plain \cup Odd,
        c \in Plain \cup {Good(Showing({"errors"}))}, d \in Plain,
        g \in {NoFile, Good(Clean(100))}, n \in {NoFile, BadFile, Good(Clean(0))}}
=============================================================================
