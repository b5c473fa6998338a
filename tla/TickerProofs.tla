---------------------------- MODULE TickerProofs ----------------------------
(***************************************************************************)
(* The pacing generator, for every set of profiles, slice length, buffer   *)
(* size and set of workers: type correctness, that it implements the       *)
(* bounded permit source the driver is built on, and the safety of the     *)
(* pacing: spacing within a slice, bounded overrun, no early refusal.      *)
(***************************************************************************)
EXTENDS Ticker, TLAPS

\* A slice always holds at least one permit.
LEMMA PermitsPositive ==
    ASSUME NEW p \in Profiles, NEW t \in Nat
    PROVE  PermitsAt(p, t) \in Nat \ {0}
<1>1. p.target \in Nat /\ p.ramp \in Nat
  BY TickerAssumption
<1>2. CASE t >= p.ramp
  <2>1. p.target \div PerSecond \in Int
    BY <1>1 DEF PerSecond
  <2> QED
    BY <1>2, <2>1 DEF PermitsAt, Larger
<1>3. CASE t < p.ramp
  <2>1. 50 * p.ramp * PerSecond \in Nat \ {0}
    BY <1>1, <1>3 DEF PerSecond
  <2>2. p.target * Larger(50 * t, p.ramp) \in Nat
    BY <1>1 DEF Larger
  <2>3. (p.target * Larger(50 * t, p.ramp)) \div (50 * p.ramp * PerSecond) \in Int
    BY <2>1, <2>2
  <2> QED
    BY <1>1, <1>3, <2>3 DEF PermitsAt, Larger
<1> QED
  BY <1>1, <1>2, <1>3

\* The initial states are well typed,
LEMMA TypeInit == Init => TypeOK
<1> SUFFICES ASSUME Init PROVE TypeOK
  OBVIOUS
<1>1. profile \in [target: Nat, ramp: Nat, plateau: Nat]
  BY TickerAssumption DEF Init
<1>2. elapsed \in 0..Total
  BY <1>1 DEF Init, Total
<1>3. closed \in BOOLEAN /\ stopped \in BOOLEAN /\ cancelled \in BOOLEAN
  BY Zenon DEF Init
<1>4. left \in 0..Slice /\ avail \in 0..Cap /\ i \in 0..n
  BY TickerAssumption DEF Init
<1> QED
  BY <1>2, <1>3, <1>4 DEF Init, TypeOK

\* and every step leaves it well typed.
LEMMA TypeNext == TypeOK /\ [Next]_vars => TypeOK'
<1> SUFFICES ASSUME TypeOK, [Next]_vars PROVE TypeOK'
  OBVIOUS
<1>0. profile \in Profiles /\ profile \in [target: Nat, ramp: Nat, plateau: Nat]
      /\ Total \in Nat
  BY TickerAssumption DEF TypeOK, Total
<1> USE TickerAssumption DEF TypeOK, genVars, chanVars, waitVars, history
<1>1. CASE Poll
  BY <1>0, <1>1 DEF Poll, Return, Total
<1>2. CASE Measure
  <2>1. profile' = profile /\ elapsed' = elapsed /\ Total' = Total /\ i' = 0
    BY <1>2 DEF Measure, Total
  <2>2. n' \in Nat \ {0}
    BY <1>0, <1>2, PermitsPositive DEF Measure
  <2>3. left' \in 0..Slice /\ gen' \in {"idle", "open", "exit"}
    BY <1>2 DEF Measure, Return
  <2>4. closed' \in BOOLEAN
    BY <1>2, Zenon DEF Measure, Return
  <2>5. UNCHANGED <<avail, stopped, cancelled, waiting, refused, sent, late>>
    BY <1>2 DEF Measure
  <2> QED
    BY <2>1, <2>2, <2>3, <2>4, <2>5
<1>3. CASE IdleDone
  BY <1>0, <1>3 DEF IdleDone, Total
<1>4. CASE OpenSlice
  BY <1>0, <1>4 DEF OpenSlice, Total
<1>5. CASE Send
  BY <1>0, <1>5 DEF Send, Room, Total
<1>6. CASE SendAborted
  BY <1>0, <1>6 DEF SendAborted, Return, Total
<1>7. CASE Wake
  BY <1>0, <1>7 DEF Wake, Total
<1>8. CASE Stop \/ Cancel
  BY <1>0, <1>8 DEF Stop, Cancel, Total
<1>9. CASE Tick
  BY <1>0, <1>9 DEF Tick, Total
<1>10. ASSUME NEW w \in Workers, CallWait(w) \/ Released(w) \/ Refused(w)
       PROVE  TypeOK'
  BY <1>0, <1>10 DEF CallWait, Released, Refused, Total
<1>11. CASE UNCHANGED vars
  BY <1>0, <1>11 DEF vars, Total
<1> QED
  BY <1>1, <1>2, <1>3, <1>4, <1>5, <1>6, <1>7, <1>8, <1>9, <1>10, <1>11
  DEF Next, Generator

\* The state of every run of the generator is well typed.
THEOREM TickerTypeOK == Spec => []TypeOK
  BY TypeInit, TypeNext, PTL DEF Spec

-----------------------------------------------------------------------------
(* The inductive invariant *)

\* The channel is closed exactly when the generator has returned.
ClosedOnReturn == closed <=> gen = "exit"

\* Permits are late only once the profile is over, and then they all belong to
\* the slice that was open: no slice is opened after that.
LateInv ==
    /\ late > 0 => elapsed >= Total
    /\ late <= n
    /\ gen = "open" => i = 0
    /\ gen \in {"open", "send"} => late <= i
    /\ gen = "sleep" => late <= i + 1

IInv == TypeOK /\ ClosedOnReturn /\ LateInv /\ Paced /\ NoEarlyRefusal

\* The initial states satisfy IInv.
LEMMA InvInit == Init => IInv
<1> SUFFICES ASSUME Init PROVE IInv
  OBVIOUS
<1>1. ClosedOnReturn
  BY Zenon DEF Init, ClosedOnReturn
<1>2. LateInv
  BY DEF Init, LateInv
<1>3. Paced
  BY DEF Init, Paced
<1>4. NoEarlyRefusal
  BY DEF Init, NoEarlyRefusal
<1> QED
  BY <1>1, <1>2, <1>3, <1>4, TypeInit DEF IInv

\* IInv is inductive.
LEMMA InvNext == IInv /\ [Next]_vars => IInv'
<1> SUFFICES ASSUME IInv, [Next]_vars PROVE IInv'
  OBVIOUS
<1>0. /\ TypeOK /\ ClosedOnReturn /\ LateInv /\ Paced /\ NoEarlyRefusal
      /\ TypeOK'
      /\ profile \in [target: Nat, ramp: Nat, plateau: Nat]
  BY TypeNext, TickerAssumption DEF IInv, TypeOK
<1> USE DEF genVars, chanVars, waitVars, history, Total
<1>1. CASE Poll
  <2>1. ClosedOnReturn'
    BY <1>0, <1>1 DEF Poll, Return, ClosedOnReturn
  <2>2. LateInv'
    BY <1>0, <1>1 DEF Poll, Return, LateInv, TypeOK
  <2>3. Paced'
    BY <1>0, <1>1 DEF Poll, Return, Paced, Interval, TypeOK
  <2>4. NoEarlyRefusal'
    BY <1>0, <1>1 DEF Poll, Return, NoEarlyRefusal, ClosedOnReturn, TypeOK
  <2> QED
    BY <1>0, <2>1, <2>2, <2>3, <2>4 DEF IInv
<1>2. CASE Measure
  <2>1. ClosedOnReturn'
    BY <1>0, <1>2 DEF Measure, Over, Return, ClosedOnReturn
  <2>2. LateInv'
    BY <1>0, <1>2 DEF Measure, Over, Return, LateInv, TypeOK
  <2>3. Paced'
    BY <1>0, <1>2 DEF Measure, Over, Return, Paced, Interval, TypeOK
  <2>4. NoEarlyRefusal'
    BY <1>0, <1>2 DEF Measure, Over, Return, NoEarlyRefusal, ClosedOnReturn, TypeOK
  <2> QED
    BY <1>0, <2>1, <2>2, <2>3, <2>4 DEF IInv
<1>3. CASE IdleDone
  <2>1. ClosedOnReturn'
    BY <1>0, <1>3 DEF IdleDone, ClosedOnReturn
  <2>2. LateInv'
    BY <1>0, <1>3 DEF IdleDone, LateInv, TypeOK
  <2>3. Paced'
    BY <1>0, <1>3 DEF IdleDone, Paced, Interval, TypeOK
  <2>4. NoEarlyRefusal'
    BY <1>0, <1>3 DEF IdleDone, NoEarlyRefusal, ClosedOnReturn, TypeOK
  <2> QED
    BY <1>0, <2>1, <2>2, <2>3, <2>4 DEF IInv
<1>4. CASE OpenSlice
  <2>1. ClosedOnReturn'
    BY <1>0, <1>4 DEF OpenSlice, ClosedOnReturn
  <2>2. LateInv'
    BY <1>0, <1>4 DEF OpenSlice, LateInv, TypeOK
  <2>3. Paced'
    BY <1>0, <1>4 DEF OpenSlice, Paced, LateInv
  <2>4. NoEarlyRefusal'
    BY <1>0, <1>4 DEF OpenSlice, NoEarlyRefusal, ClosedOnReturn, TypeOK
  <2> QED
    BY <1>0, <2>1, <2>2, <2>3, <2>4 DEF IInv
<1>5. CASE Send
  <2>1. ClosedOnReturn'
    BY <1>0, <1>5 DEF Send, Room, ClosedOnReturn
  <2>2. LateInv'
    BY <1>0, <1>5 DEF Send, Room, LateInv, TypeOK
  <2>3. Paced'
    BY <1>0, <1>5 DEF Send, Room, Paced, Interval, TypeOK
  <2>4. NoEarlyRefusal'
    BY <1>0, <1>5 DEF Send, Room, NoEarlyRefusal, ClosedOnReturn, TypeOK
  <2> QED
    BY <1>0, <2>1, <2>2, <2>3, <2>4 DEF IInv
<1>6. CASE SendAborted
  <2>1. ClosedOnReturn'
    BY <1>0, <1>6 DEF SendAborted, Return, ClosedOnReturn
  <2>2. LateInv'
    BY <1>0, <1>6 DEF SendAborted, Return, LateInv, TypeOK
  <2>3. Paced'
    BY <1>0, <1>6 DEF SendAborted, Return, Paced, Interval, TypeOK
  <2>4. NoEarlyRefusal'
    BY <1>0, <1>6 DEF SendAborted, Return, NoEarlyRefusal, ClosedOnReturn, TypeOK
  <2> QED
    BY <1>0, <2>1, <2>2, <2>3, <2>4 DEF IInv
<1>7. CASE Wake
  <2>1. ClosedOnReturn'
    BY <1>0, <1>7 DEF Wake, Rested, RestAfter, ClosedOnReturn
  <2>2. LateInv'
    BY <1>0, <1>7 DEF Wake, Rested, RestAfter, LateInv, TypeOK
  <2>3. Paced'
    BY <1>0, <1>7 DEF Wake, Rested, RestAfter, Paced, Interval, TypeOK
  <2>4. NoEarlyRefusal'
    BY <1>0, <1>7 DEF Wake, Rested, RestAfter, NoEarlyRefusal, ClosedOnReturn, TypeOK
  <2> QED
    BY <1>0, <2>1, <2>2, <2>3, <2>4 DEF IInv
<1>8. CASE Stop
  <2>1. ClosedOnReturn'
    BY <1>0, <1>8 DEF Stop, ClosedOnReturn
  <2>2. LateInv'
    BY <1>0, <1>8 DEF Stop, LateInv, TypeOK
  <2>3. Paced'
    BY <1>0, <1>8 DEF Stop, Paced, Interval, TypeOK
  <2>4. NoEarlyRefusal'
    BY <1>0, <1>8 DEF Stop, NoEarlyRefusal, ClosedOnReturn, TypeOK
  <2> QED
    BY <1>0, <2>1, <2>2, <2>3, <2>4 DEF IInv
<1>9. CASE Cancel
  <2>1. ClosedOnReturn'
    BY <1>0, <1>9 DEF Cancel, ClosedOnReturn
  <2>2. LateInv'
    BY <1>0, <1>9 DEF Cancel, LateInv, TypeOK
  <2>3. Paced'
    BY <1>0, <1>9 DEF Cancel, Paced, Interval, TypeOK
  <2>4. NoEarlyRefusal'
    BY <1>0, <1>9 DEF Cancel, NoEarlyRefusal, ClosedOnReturn, TypeOK
  <2> QED
    BY <1>0, <2>1, <2>2, <2>3, <2>4 DEF IInv
<1>10. CASE Tick
  <2>1. ClosedOnReturn'
    BY <1>0, <1>10 DEF Tick, ClosedOnReturn
  <2>2. LateInv'
    BY <1>0, <1>10 DEF Tick, LateInv, TypeOK
  <2>3. Paced'
    <3>1. left' <= left /\ left \in Nat /\ left' \in Nat
          /\ UNCHANGED <<gen, n, i>>
      BY <1>0, <1>10, TickerAssumption DEF Tick, TypeOK
    <3>2. (n - i) * Interval(n) \in Int
      BY <1>0, TickerAssumption DEF TypeOK, Interval
    <3> QED
      BY <1>0, <3>1, <3>2 DEF Paced, Interval
  <2>4. NoEarlyRefusal'
    BY <1>0, <1>10 DEF Tick, NoEarlyRefusal, ClosedOnReturn, TypeOK
  <2> QED
    BY <1>0, <2>1, <2>2, <2>3, <2>4 DEF IInv
<1>11. ASSUME NEW w \in Workers, CallWait(w) \/ Released(w) \/ Refused(w)
       PROVE  IInv'
  <2>1. ClosedOnReturn'
    BY <1>0, <1>11 DEF CallWait, Released, Refused, Drained, ClosedOnReturn
  <2>2. LateInv'
    BY <1>0, <1>11 DEF CallWait, Released, Refused, Drained, LateInv, TypeOK
  <2>3. Paced'
    BY <1>0, <1>11 DEF CallWait, Released, Refused, Drained, Paced, Interval, TypeOK
  <2>4. NoEarlyRefusal'
    BY <1>0, <1>11 DEF CallWait, Released, Refused, Drained, NoEarlyRefusal, ClosedOnReturn, TypeOK
  <2> QED
    BY <1>0, <2>1, <2>2, <2>3, <2>4 DEF IInv
<1>12. CASE UNCHANGED vars
  <2>1. ClosedOnReturn'
    BY <1>0, <1>12 DEF vars, ClosedOnReturn
  <2>2. LateInv'
    BY <1>0, <1>12 DEF vars, LateInv, TypeOK
  <2>3. Paced'
    BY <1>0, <1>12 DEF vars, Paced, Interval, TypeOK
  <2>4. NoEarlyRefusal'
    BY <1>0, <1>12 DEF vars, NoEarlyRefusal, ClosedOnReturn, TypeOK
  <2> QED
    BY <1>0, <2>1, <2>2, <2>3, <2>4 DEF IInv
<1> QED
  BY <1>1, <1>2, <1>3, <1>4, <1>5, <1>6, <1>7, <1>8, <1>9, <1>10, <1>11, <1>12
  DEF Next, Generator

\* IInv holds throughout every run.
THEOREM Invariance == Spec => []IInv
  BY InvInit, InvNext, PTL DEF Spec

\* Within a slice no permit is sent before the deadline of its predecessor
\* (load.go:108).
THEOREM Spacing == Spec => []Paced
  BY Invariance, PTL DEF IInv

\* The overrun of a profile is at most one slice of permits (load.go:85).
THEOREM Overrun == Spec => []OverrunBounded
<1>1. IInv => OverrunBounded
  BY DEF IInv, LateInv, OverrunBounded
<1> QED
  BY <1>1, Invariance, PTL

\* No worker leaves an uncancelled run that still has permits to hand out
\* (load.go:118-123).
THEOREM Refusal == Spec => []NoEarlyRefusal
  BY Invariance, PTL DEF IInv

-----------------------------------------------------------------------------
(* The generator never runs ahead of the clock *)

\* What fits a times ten into b fits into the quotient.
LEMMA TenthBound ==
    ASSUME NEW a \in Int, NEW b \in Int, a * 10 <= b
    PROVE  a <= b \div 10
<1> QED
  BY SMT

\* A slice never holds more permits than one at the full rate.
LEMMA PermitsBounded ==
    ASSUME NEW p \in Profiles, NEW t \in Nat
    PROVE  PermitsAt(p, t) <= Larger(p.target \div PerSecond, 1)
<1>1. p.target \in Nat /\ p.ramp \in Nat /\ p.target \div PerSecond \in Int
  BY TickerAssumption DEF PerSecond
<1>2. CASE t >= p.ramp
  BY <1>1, <1>2 DEF PermitsAt, Larger
<1>3. CASE t < p.ramp
  <2> DEFINE x == Larger(50 * t, p.ramp)
             B == 50 * p.ramp
             q == (p.target * x) \div (B * PerSecond)
  <2>1. x \in Nat /\ B \in Nat \ {0} /\ x <= B
    BY <1>1, <1>3 DEF Larger
  <2>2. p.target * x \in Nat /\ p.target * x <= p.target * B
    BY <1>1, <2>1
  <2>3. q \in Int /\ q * (B * PerSecond) <= p.target * x
    BY <2>1, <2>2 DEF PerSecond
  <2>4. B * (q * PerSecond) <= B * p.target
    BY <1>1, <2>1, <2>2, <2>3 DEF PerSecond
  <2>5. q * PerSecond <= p.target
    BY <1>1, <2>1, <2>3, <2>4 DEF PerSecond
  <2>6. q <= p.target \div PerSecond
    <3> HIDE DEF q
    <3>1. q * 10 <= p.target /\ p.target \in Int
      BY <1>1, <2>5 DEF PerSecond
    <3>2. q \in Int
      BY <2>3
    <3>3. q <= p.target \div 10
      BY ONLY <3>1, <3>2, TenthBound, Zenon
    <3>4. PerSecond = 10
      BY DEF PerSecond
    <3> QED
      BY <3>3, <3>4, Zenon
  <2>7. PermitsAt(p, t) = Larger(q, 1)
    <3>1. ~(t >= p.ramp)
      BY <1>1, <1>3
    <3> QED
      BY <3>1, Zenon DEF PermitsAt
  <2> HIDE DEF q
  <2> QED
    BY <1>1, <2>3, <2>6, <2>7 DEF Larger
<1> QED
  BY <1>1, <1>2, <1>3

\* k slices have been completed, each of them in its full time, and what was
\* sent fits into them and the one that is open; the slice open at the end of
\* the profile is the last.
Completed(k) ==
    /\ Slice * k <= elapsed
    /\ gen \in {"poll", "measure", "idle", "open"} =>
           \/ sent <= MaxPermits * k
           \/ gen # "open" /\ elapsed >= Total /\ sent <= MaxPermits * k + MaxPermits
    /\ gen \in {"open", "send", "sleep"} => n <= MaxPermits
    /\ gen \in {"send", "sleep"} =>
           Slice * k + Slice - left <= elapsed \/ elapsed >= Total
    /\ gen = "send" => sent <= MaxPermits * k + i
    /\ gen = "sleep" => sent <= MaxPermits * k + i + 1
    /\ gen = "exit" => sent <= MaxPermits * k + MaxPermits

AheadInv == \E k \in Nat: Completed(k)

LEMMA AheadInit == Init => AheadInv
<1> SUFFICES ASSUME Init PROVE Completed(0)
  BY DEF AheadInv
<1>1. MaxPermits \in Nat /\ MaxPermits * 0 = 0 /\ Slice * 0 = 0
  BY TickerAssumption DEF Init, MaxPermits, Larger, PerSecond
<1> QED
  BY <1>1 DEF Init, Completed

LEMMA AheadNext == IInv /\ AheadInv /\ [Next]_vars => AheadInv'
<1> SUFFICES ASSUME IInv, [Next]_vars, NEW k \in Nat, Completed(k)
             PROVE  AheadInv'
  BY DEF AheadInv
<1>t. TypeOK
  BY DEF IInv
<1>0. /\ profile \in [target: Nat, ramp: Nat, plateau: Nat]
      /\ elapsed \in Nat /\ left \in 0..Slice /\ Slice \in Nat \ {0}
      /\ n \in Nat \ {0} /\ i \in Nat /\ sent \in Nat /\ Total \in Nat
  BY <1>t, TickerAssumption DEF TypeOK, Total
<1>p. profile' = profile /\ Total' = Total /\ MaxPermits' = MaxPermits
  BY DEF Next, Generator, Poll, Measure, IdleDone, OpenSlice, Send, SendAborted,
         Wake, Stop, Cancel, Tick, CallWait, Released, Refused, vars, Total,
         MaxPermits
<1>m. MaxPermits \in Nat \ {0}
  BY <1>0 DEF MaxPermits, Larger, PerSecond
<1>k. MaxPermits * k \in Nat /\ Slice * k \in Nat
  BY <1>0, <1>m
<1> USE DEF genVars, chanVars, waitVars, history
<1>1. CASE UNCHANGED <<elapsed, left, gen, n, i, sent>>
  <2>1. Completed(k)'
    BY <1>p, <1>1 DEF Completed
  <2> QED BY <2>1 DEF AheadInv
<1>2. CASE Poll
  <2>1. /\ gen = "poll" /\ gen' \in {"exit", "measure"}
        /\ UNCHANGED <<elapsed, left, n, i, sent>>
    BY <1>2 DEF Poll, Return
  <2>2. Completed(k)'
    BY <1>0, <1>p, <1>m, <1>k, <2>1 DEF Completed
  <2> QED BY <2>2 DEF AheadInv
<1>3. CASE Measure
  <2>1. /\ gen = "measure" /\ UNCHANGED <<elapsed, sent>>
        /\ \/ gen' = "exit"
           \/ gen' = "idle" /\ ~(elapsed >= Total)
           \/ /\ gen' = "open" /\ ~(elapsed >= Total)
              /\ n' = PermitsAt(profile, elapsed)
    BY <1>3 DEF Measure, Return, Over
  <2>2. gen' = "open" => n' <= MaxPermits
    BY <1>t, <1>0, <2>1, PermitsBounded DEF TypeOK, MaxPermits
  <2>3. Completed(k)'
    BY <1>0, <1>p, <1>m, <1>k, <2>1, <2>2 DEF Completed
  <2> QED BY <2>3 DEF AheadInv
<1>4. CASE IdleDone
  <2>1. gen = "idle" /\ gen' = "poll" /\ UNCHANGED <<elapsed, sent>>
    BY <1>4 DEF IdleDone
  <2>2. Completed(k)'
    BY <1>0, <1>p, <1>k, <2>1 DEF Completed
  <2> QED BY <2>2 DEF AheadInv
<1>5. CASE OpenSlice
  <2>1. /\ gen = "open" /\ gen' = "send" /\ left' = Slice
        /\ UNCHANGED <<elapsed, n, i, sent>>
    BY <1>5 DEF OpenSlice
  <2>2. Completed(k)'
    BY <1>0, <1>p, <1>k, <2>1 DEF Completed
  <2> QED BY <2>2 DEF AheadInv
<1>6. CASE Send
  <2>1. /\ gen = "send" /\ gen' = "sleep" /\ sent' = sent + 1
        /\ UNCHANGED <<elapsed, left, n, i>>
    BY <1>6 DEF Send
  <2>2. Completed(k)'
    BY <1>0, <1>p, <1>k, <2>1 DEF Completed
  <2> QED BY <2>2 DEF AheadInv
<1>7. CASE SendAborted
  <2>1. /\ gen = "send" /\ gen' = "exit" /\ UNCHANGED <<elapsed, sent>> /\ i < n
    BY <1>t, <1>7 DEF SendAborted, Return, TypeOK
  <2>2. Completed(k)'
    BY <1>0, <1>p, <1>m, <1>k, <2>1 DEF Completed
  <2> QED BY <2>2 DEF AheadInv
<1>8. CASE Wake
  <2>1. /\ gen = "sleep" /\ i' = i + 1 /\ i < n
        /\ gen' = IF i + 1 < n THEN "send" ELSE "poll"
        /\ UNCHANGED <<elapsed, left, n, sent>>
    BY <1>t, <1>8 DEF Wake, TypeOK
  <2>2. CASE i + 1 < n
    <3>1. Completed(k)'
      BY <1>0, <1>p, <1>k, <2>1, <2>2 DEF Completed
    <3> QED BY <3>1 DEF AheadInv
  <2>3. CASE i + 1 = n
    <3>1. RestAfter(i) = 0
      <4>1. n - i - 1 = 0 /\ Slice \div n \in Int
        BY <1>0, <2>3
      <4> QED BY <4>1 DEF RestAfter, Interval
    <3>2. left = 0
      BY <1>0, <1>8, <3>1 DEF Wake, Rested
    <3>3. sent <= MaxPermits * k + MaxPermits
      BY <1>0, <1>m, <1>k, <2>1, <2>3 DEF Completed
    <3>4. CASE elapsed >= Total
      <4>1. Completed(k)'
        BY <1>0, <1>p, <1>k, <2>1, <2>3, <3>3, <3>4 DEF Completed
      <4> QED BY <4>1 DEF AheadInv
    <3>5. CASE Slice * k + Slice <= elapsed
      <4>1. /\ Slice * (k + 1) = Slice * k + Slice
            /\ MaxPermits * (k + 1) = MaxPermits * k + MaxPermits
        BY <1>0, <1>m
      <4>2. Completed(k + 1)'
        BY <1>0, <1>p, <1>k, <2>1, <2>3, <3>3, <3>5, <4>1 DEF Completed
      <4> QED BY <4>2 DEF AheadInv
    <3> QED
      BY <1>0, <1>k, <2>1, <3>2, <3>4, <3>5 DEF Completed
  <2> QED BY <1>0, <2>1, <2>2, <2>3
<1>9. CASE Tick
  <2>1. /\ UNCHANGED <<gen, n, i, sent>>
        /\ elapsed' = IF elapsed < Total THEN elapsed + 1 ELSE elapsed
        /\ left' = IF left > 0 THEN left - 1 ELSE left
    BY <1>9 DEF Tick
  <2>2. Completed(k)'
    BY <1>0, <1>p, <1>m, <1>k, <2>1 DEF Completed
  <2> QED BY <2>2 DEF AheadInv
<1>10. CASE Stop \/ Cancel \/ \E w \in Workers: CallWait(w) \/ Released(w) \/ Refused(w)
  BY <1>1, <1>10 DEF Stop, Cancel, CallWait, Released, Refused
<1>11. CASE UNCHANGED vars
  BY <1>1, <1>11 DEF vars
<1> QED
  BY <1>2, <1>3, <1>4, <1>5, <1>6, <1>7, <1>8, <1>9, <1>10, <1>11
  DEF Next, Generator

\* The generator never sends more than one full slice of permits for each slice
\* of time that has begun, however late it wakes (load.go:101-111).
THEOREM NoCatchingUp == Spec => []NeverAhead
<1>1. IInv /\ AheadInv => NeverAhead
  <2> SUFFICES ASSUME IInv, NEW k \in Nat, Completed(k) PROVE NeverAhead
    BY DEF AheadInv
  <2>1. /\ elapsed \in Nat /\ Slice \in Nat \ {0} /\ n \in Nat /\ i \in Nat
        /\ sent \in Nat /\ profile.target \in Nat
        /\ gen \in {"poll", "measure", "idle", "open", "send", "sleep", "exit"}
        /\ gen \in {"open", "send", "sleep"} => i < n
    BY TickerAssumption DEF IInv, TypeOK, Total
  <2>2. MaxPermits \in Nat \ {0} /\ MaxPermits * k \in Nat
    BY <2>1 DEF MaxPermits, Larger, PerSecond
  <2>3. sent <= MaxPermits * k + MaxPermits
    BY <2>1, <2>2 DEF Completed
  <2>4. elapsed \div Slice \in Nat /\ k <= elapsed \div Slice
    BY <2>1 DEF Completed
  <2>5. /\ MaxPermits * (k + 1) = MaxPermits * k + MaxPermits
        /\ MaxPermits * (k + 1) <= MaxPermits * ((elapsed \div Slice) + 1)
        /\ MaxPermits * ((elapsed \div Slice) + 1) \in Nat
    BY <2>2, <2>4
  <2> QED BY <2>1, <2>2, <2>3, <2>5 DEF NeverAhead
<1> QED
  BY <1>1, Invariance, AheadInit, AheadNext, PTL DEF Spec

-----------------------------------------------------------------------------
(* The generator is a bounded permit source *)

\* A run of the generator starts as a permit source does,
LEMMA RefinesInit == Init => PS!Init
  BY DEF Init, PS!Init, PS!Phases

\* and each of its steps is a step of the source or none.
LEMMA RefinesNext == IInv /\ [Next]_vars => [PS!Next]_(PS!vars)
<1> SUFFICES ASSUME IInv, [Next]_vars
             PROVE  PS!Next \/ UNCHANGED PS!vars
  OBVIOUS
<1>0. profile \in [target: Nat, ramp: Nat, plateau: Nat] /\ elapsed \in 0..Total
      /\ avail \in 0..Cap /\ ClosedOnReturn
  BY TickerAssumption DEF IInv, TypeOK
<1> USE DEF genVars, chanVars, waitVars, history, Total, PS!vars, ClosedOnReturn
<1>1. CASE Poll
  <2>1. CASE stopped /\ Return
    BY <1>0, <1>1, <2>1 DEF Poll, Return, PS!Next, PS!Close
  <2> QED
    BY <1>1, <2>1 DEF Poll
<1>2. CASE Measure
  BY <1>0, <1>2 DEF Measure, Over, Return, PS!Next, PS!Close
<1>3. CASE IdleDone \/ OpenSlice \/ Wake \/ Cancel
  BY <1>3 DEF IdleDone, OpenSlice, Wake, Cancel
<1>4. CASE Send
  BY <1>0, <1>4 DEF Send, Room, PS!Next, PS!Emit
<1>5. CASE SendAborted
  BY <1>0, <1>5 DEF SendAborted, Return, PS!Next, PS!Close
<1>6. CASE Stop
  BY <1>6 DEF Stop, PS!Next, PS!Stop
<1>7. CASE Tick
  BY <1>0, <1>7 DEF Tick, PS!Next, PS!AdvanceClock
<1>8. ASSUME NEW w \in Workers, CallWait(w) \/ Released(w) \/ Refused(w)
      PROVE  PS!Next \/ UNCHANGED PS!vars
  BY <1>8 DEF CallWait, Released, Refused, PS!Next, PS!Take
<1>9. CASE UNCHANGED vars
  BY <1>9 DEF vars
<1> QED
  BY <1>1, <1>2, <1>3, <1>4, <1>5, <1>6, <1>7, <1>8, <1>9 DEF Next, Generator

\* The generator implements the bounded permit source: it sends into a buffer
\* that has room, and closes once, and only when over or stopped.
THEOREM Refinement == Spec => ImplementsPermitSource
  BY RefinesInit, RefinesNext, Invariance, PTL
  DEF Spec, ImplementsPermitSource, PS!Spec

=============================================================================
