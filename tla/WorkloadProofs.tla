--------------------------- MODULE WorkloadProofs ---------------------------
(***************************************************************************)
(* Proofs about Workload, for any workers, any size of the pools and any   *)
(* numbers drawn: a weighted choice follows its weights, the pool holds    *)
(* what was generated, the two arms ask the same, walk the pool out of     *)
(* step, and ask nothing the target cannot answer but what is meant so.    *)
(***************************************************************************)
EXTENDS Workload, SequenceTheorems, WellFoundedInduction, TLAPS

(* Weighted choice *)

\* A set of naturals has a least element.
LEMMA LeastNat ==
    ASSUME NEW T, T \subseteq Nat, T # {}
    PROVE  \E x \in T: \A y \in T: x <= y
<1>1. PICK x \in T: \A y \in T: ~(<<y, x>> \in OpToRel(<, Nat))
  BY NatLessThanWellFounded, WFMin
<1>2. \A y \in T: y < x => <<y, x>> \in OpToRel(<, Nat)
  BY DEF OpToRel
<1>3. \A y \in T: x <= y
  <2> TAKE y \in T
  <2>1. x \in Nat /\ y \in Nat /\ ~(y < x)
    BY <1>1, <1>2
  <2> QED
    BY <2>1
<1> QED
  BY <1>3

\* A set that holds 0, and with each number the next, holds them all.
LEMMA Induction ==
    ASSUME NEW S, 0 \in S, \A n \in Nat: n \in S => n + 1 \in S
    PROVE  Nat \subseteq S
<1> SUFFICES ASSUME Nat \ S # {} PROVE FALSE
  OBVIOUS
<1>1. PICK x \in Nat \ S: \A y \in Nat \ S: x <= y
  BY LeastNat
<1>2. x - 1 \in Nat /\ x = (x - 1) + 1 /\ ~(x <= x - 1)
  BY <1>1
<1> QED
  BY <1>1, <1>2

\* The recursion that subtracts the weights is well defined.
LEMMA LeftStep ==
    ASSUME NEW w \in Seq(Nat), NEW n \in Int
    PROVE  /\ \A k \in 0..Len(w): Left(w, n)[k] \in Int
           /\ Left(w, n)[0] = n
           /\ \A k \in 1..Len(w): Left(w, n)[k] = Left(w, n)[k - 1] - w[k]
<1> DEFINE L == Len(w)
           Solves(g) == g = [k \in 0..L |-> IF k = 0 THEN n ELSE g[k - 1] - w[k]]
           Upto(m) == {g \in [0..L -> Int]:
                          /\ g[0] = n
                          /\ \A k \in 1..L: k <= m => g[k] = g[k - 1] - w[k]}
           Begun == {m \in Nat: Upto(m) # {}}
<1>0. L \in Nat /\ \A k \in 1..L: w[k] \in Nat
  OBVIOUS
<1>1. 0 \in Begun
  <2>1. [k \in 0..L |-> n] \in Upto(0)
    BY <1>0
  <2> QED
    BY <2>1
<1>2. ASSUME NEW m \in Nat, m \in Begun PROVE m + 1 \in Begun
  <2>1. PICK g: g \in Upto(m)
    BY <1>2
  <2>2. CASE m + 1 <= L
    <3> DEFINE h == [g EXCEPT ![m + 1] = g[m] - w[m + 1]]
    <3>1. m \in 0..L /\ m + 1 \in 1..L /\ m + 1 \in 0..L
      BY <1>0, <2>2
    <3>2. g \in [0..L -> Int] /\ g[m] - w[m + 1] \in Int
      <4>1. g \in [0..L -> Int]
        BY <2>1
      <4>2. g[m] \in Int /\ w[m + 1] \in Nat
        BY <1>0, <3>1, <4>1
      <4> QED
        BY <4>1, <4>2
    <3>3. /\ h \in [0..L -> Int] /\ h[m + 1] = g[m] - w[m + 1]
          /\ \A k \in 0..L: k # m + 1 => h[k] = g[k]
      BY <3>1, <3>2
    <3>4. \A k \in 1..L: k <= m + 1 => h[k] = h[k - 1] - w[k]
      <4> TAKE k \in 1..L
      <4>1. k - 1 \in 0..L /\ k \in 0..L /\ (k <= m => k # m + 1 /\ k - 1 # m + 1)
        BY <1>0
      <4>2. CASE k <= m
        <5>1. g[k] = g[k - 1] - w[k]
          BY <2>1, <4>2
        <5> QED
          BY <3>3, <4>1, <4>2, <5>1
      <4>3. CASE k = m + 1
        <5>1. k - 1 = m /\ m # m + 1 /\ m \in 0..L
          BY <3>1, <4>3
        <5> QED
          BY <3>3, <4>3, <5>1
      <4> QED
        BY <1>0, <4>2, <4>3
    <3>5. h[0] = n
      <4>1. g[0] = n
        BY <2>1
      <4>2. 0 \in 0..L /\ 0 # m + 1
        BY <1>0
      <4> QED
        BY <3>3, <4>1, <4>2
    <3>6. h \in Upto(m + 1)
      BY <3>3, <3>4, <3>5
    <3> HIDE DEF h, Upto
    <3> QED
      BY <3>6
  <2>3. CASE ~(m + 1 <= L)
    BY <1>0, <2>1, <2>3
  <2> QED
    BY <2>2, <2>3
<1>3. PICK g: g \in Upto(L)
  <2> HIDE DEF Begun
  <2>1. L \in Begun
    BY <1>0, <1>1, <1>2, Induction
  <2> QED
    BY <2>1 DEF Begun
<1>4. Solves(g)
  <2>1. \A k \in 0..L: g[k] = IF k = 0 THEN n ELSE g[k - 1] - w[k]
    BY <1>0, <1>3
  <2> QED
    BY <1>3, <2>1
<1>5. Left(w, n) = CHOOSE h: Solves(h)
  BY DEF Left
<1>6. Solves(Left(w, n))
  <2> HIDE DEF Solves
  <2> QED
    BY <1>4, <1>5
<1>7. /\ Left(w, n)[0] = n
      /\ \A k \in 1..L: Left(w, n)[k] = Left(w, n)[k - 1] - w[k]
  <2> DEFINE f == Left(w, n)
  <2> HIDE DEF f
  <2>1. f = [k \in 0..L |-> IF k = 0 THEN n ELSE f[k - 1] - w[k]]
    BY <1>6 DEF f
  <2>2. \A k \in 0..L: f[k] = IF k = 0 THEN n ELSE f[k - 1] - w[k]
    BY <2>1
  <2>3. f[0] = n /\ \A k \in 1..L: f[k] = f[k - 1] - w[k]
    BY <1>0, <2>2
  <2> QED
    BY <2>3 DEF f
<1>8. \A k \in 0..L: Left(w, n)[k] \in Int
  <2> DEFINE f == Left(w, n)
             Typed == {m \in Nat: m <= L => f[m] \in Int}
  <2> HIDE DEF f
  <2>1. f[0] = n /\ \A k \in 1..L: f[k] = f[k - 1] - w[k]
    BY <1>7 DEF f
  <2>2. 0 \in Typed
    BY <2>1
  <2>3. ASSUME NEW m \in Nat, m \in Typed PROVE m + 1 \in Typed
    <3>1. CASE m + 1 \in 1..L
      <4>1. f[m + 1] = f[(m + 1) - 1] - w[m + 1] /\ f[m] \in Int
        BY <2>1, <2>3, <3>1
      <4> QED
        BY <1>0, <3>1, <4>1
    <3>2. CASE m + 1 \notin 1..L
      BY <3>2
    <3> QED
      BY <3>1, <3>2
  <2>4. Nat \subseteq Typed
    <3> HIDE DEF Typed
    <3> QED BY <2>2, <2>3, Induction
  <2> QED
    BY <1>0, <2>4 DEF f
<1> QED
  BY <1>7, <1>8

\* The more weights are subtracted, the less is left.
LEMMA LeftFalls ==
    ASSUME NEW w \in Seq(Nat), NEW n \in Int,
           NEW i \in 0..Len(w), NEW j \in 0..Len(w), i <= j
    PROVE  Left(w, n)[j] <= Left(w, n)[i]
<1> DEFINE f == Left(w, n)
           Below == {m \in Nat: i <= m /\ m <= Len(w) => f[m] <= f[i]}
<1>0. Len(w) \in Nat /\ i \in Nat /\ j \in Nat /\ \A k \in 1..Len(w): w[k] \in Nat
  OBVIOUS
<1>1. /\ \A k \in 0..Len(w): f[k] \in Int
      /\ \A k \in 1..Len(w): f[k] = f[k - 1] - w[k]
  BY LeftStep
<1> HIDE DEF f
<1>2. 0 \in Below
  BY <1>0, <1>1
<1>3. ASSUME NEW m \in Nat, m \in Below PROVE m + 1 \in Below
  <2> SUFFICES ASSUME i <= m + 1, m + 1 <= Len(w) PROVE f[m + 1] <= f[i]
    OBVIOUS
  <2>1. /\ m + 1 \in 1..Len(w) /\ m \in 0..Len(w) /\ (m + 1) - 1 = m
    BY <1>0
  <2>2. f[m + 1] <= f[m] /\ f[m] \in Int /\ f[i] \in Int /\ f[m + 1] \in Int
    <3>1. f[m] \in Int /\ f[i] \in Int
      BY <1>1, <2>1
    <3>2. f[m + 1] = f[m] - w[m + 1]
      BY <1>1, <2>1
    <3>3. w[m + 1] \in Nat
      BY <1>0, <2>1
    <3> QED
      BY <3>1, <3>2, <3>3
  <2>3. i = m + 1 \/ f[m] <= f[i]
    BY <1>0, <1>3, <2>1
  <2> QED
    BY <2>2, <2>3
<1>4. Nat \subseteq Below
  <2> HIDE DEF Below
  <2> QED
    BY <1>2, <1>3, Induction
<1> QED
  BY <1>0, <1>4 DEF f

\* Below the sum of the weights there is exactly one entry to pick.
LEMMA PickedEntry ==
    ASSUME NEW w \in Seq(Nat), NEW n \in Nat, Left(w, n)[Len(w)] < 0
    PROVE  /\ Picked(w, n) \in 1..Len(w)
           /\ \A k \in 1..Len(w):
                 Picked(w, n) = k <=> Left(w, n)[k] < 0 /\ Left(w, n)[k - 1] >= 0
<1> DEFINE f == Left(w, n)
           Under == {k \in 1..Len(w): f[k] < 0}
           Falls(k) == f[k] < 0 /\ \A j \in 1..(k - 1): f[j] >= 0
<1>0. Len(w) \in Nat /\ DOMAIN w = 1..Len(w)
  OBVIOUS
<1>1. f[0] = n /\ (\A k \in 0..Len(w): f[k] \in Int) /\ f[Len(w)] < 0
  BY LeftStep
<1>2. \A i, j \in 0..Len(w): i <= j => f[j] <= f[i]
  BY LeftFalls
<1>3. Picked(w, n) = CHOOSE k \in 1..Len(w): Falls(k)
  BY <1>0 DEF Picked
<1> HIDE DEF f
<1>4. Len(w) \in Under
  BY <1>0, <1>1
<1>5. PICK x \in Under: \A y \in Under: x <= y
  <2>1. Under \subseteq Nat /\ Under # {}
    BY <1>0, <1>4
  <2> HIDE DEF Under
  <2> QED
    BY <2>1, LeastNat
<1>6. \E k \in 1..Len(w): Falls(k)
  <2>1. \A j \in 1..(x - 1): j \in 1..Len(w) /\ j \notin Under
    BY <1>0, <1>5
  <2>2. \A j \in 1..(x - 1): f[j] >= 0
    BY <1>0, <1>1, <2>1
  <2>3. Falls(x)
    BY <1>5, <2>2
  <2> QED
    BY <1>5, <2>3
<1>7. Picked(w, n) \in 1..Len(w) /\ Falls(Picked(w, n))
  <2> HIDE DEF Falls
  <2> QED
    BY <1>3, <1>6
<1>8. ASSUME NEW k \in 1..Len(w)
      PROVE  Falls(k) <=> f[k] < 0 /\ f[k - 1] >= 0
  <2>1. ASSUME Falls(k) PROVE f[k - 1] >= 0
    <3>1. CASE k = 1
      BY <1>1, <3>1
    <3>2. CASE k # 1
      BY <1>0, <2>1, <3>2
    <3> QED
      BY <3>1, <3>2
  <2>2. ASSUME f[k - 1] >= 0, NEW j \in 1..(k - 1) PROVE f[j] >= 0
    <3>1. /\ j \in 0..Len(w) /\ k - 1 \in 0..Len(w) /\ j <= k - 1
      BY <1>0
    <3>2. f[k - 1] <= f[j] /\ f[j] \in Int /\ f[k - 1] \in Int
      BY <1>1, <1>2, <3>1
    <3> QED
      BY <2>2, <3>2
  <2> QED
    BY <2>1, <2>2
<1>9. ASSUME NEW k \in 1..Len(w), NEW l \in 1..Len(w), k < l, Falls(k), Falls(l)
      PROVE  FALSE
  <2>1. k \in 1..(l - 1)
    BY <1>0, <1>9
  <2>2. f[k] \in Int
    BY <1>0, <1>1
  <2> QED
    BY <1>9, <2>1, <2>2
<1>10. ASSUME NEW k \in 1..Len(w) PROVE Picked(w, n) = k <=> Falls(k)
  <2> HIDE DEF Falls
  <2>1. Picked(w, n) \in Nat /\ k \in Nat
    BY <1>0, <1>7
  <2>2. ~(Falls(k) /\ Picked(w, n) < k) /\ ~(Falls(k) /\ k < Picked(w, n))
    BY <1>7, <1>9
  <2> QED
    BY <1>7, <2>1, <2>2
<1> QED
  BY <1>7, <1>8, <1>10 DEF f

\* What is left depends on n by n alone.
LEMMA LeftShift ==
    ASSUME NEW w \in Seq(Nat), NEW n \in Int, NEW k \in 0..Len(w)
    PROVE  Left(w, n)[k] = n + Left(w, 0)[k] /\ Left(w, 0)[k] \in Int
<1> DEFINE f == Left(w, n)
           g == Left(w, 0)
           Same == {m \in Nat: m <= Len(w) => f[m] = n + g[m]}
<1>0. Len(w) \in Nat /\ k \in Nat /\ \A i \in 1..Len(w): w[i] \in Nat
  OBVIOUS
<1>1. /\ f[0] = n /\ g[0] = 0
      /\ \A i \in 0..Len(w): f[i] \in Int /\ g[i] \in Int
      /\ \A i \in 1..Len(w): f[i] = f[i - 1] - w[i] /\ g[i] = g[i - 1] - w[i]
  BY LeftStep
<1> HIDE DEF f, g
<1>2. 0 \in Same
  BY <1>1
<1>3. ASSUME NEW m \in Nat, m \in Same PROVE m + 1 \in Same
  <2> SUFFICES ASSUME m + 1 <= Len(w) PROVE f[m + 1] = n + g[m + 1]
    OBVIOUS
  <2>1. m + 1 \in 1..Len(w) /\ m \in 0..Len(w) /\ (m + 1) - 1 = m
    BY <1>0
  <2>2. f[m] \in Int /\ g[m] \in Int /\ f[m] = n + g[m] /\ w[m + 1] \in Nat
    BY <1>0, <1>1, <1>3, <2>1
  <2>3. f[m + 1] = f[m] - w[m + 1] /\ g[m + 1] = g[m] - w[m + 1]
    BY <1>1, <2>1
  <2> QED
    BY <2>2, <2>3
<1>4. Nat \subseteq Same
  <2> HIDE DEF Same
  <2> QED
    BY <1>2, <1>3, Induction
<1> QED
  BY <1>0, <1>1, <1>4 DEF f, g

\* An entry is picked for as many of the numbers below the total as its weight
\* says, and for no other (pickClass, payload.go:161-172; Mix.Next,
\* scenario.go:179-189).
THEOREM WeightedChoice ==
    ASSUME NEW w \in Seq(Nat), NEW k \in 1..Len(w)
    PROVE  LET total == -Left(w, 0)[Len(w)]
               before == -Left(w, 0)[k - 1]
           IN  {n \in 0..(total - 1): Picked(w, n) = k}
                  = before..(before + w[k] - 1)
<1> DEFINE g == Left(w, 0)
           total == -g[Len(w)]
           before == -g[k - 1]
<1>0. /\ Len(w) \in Nat /\ Len(w) \in 0..Len(w) /\ w[k] \in Nat
      /\ k \in 0..Len(w) /\ k - 1 \in 0..Len(w) /\ 0 \in 0..Len(w)
  OBVIOUS
<1>1. /\ g[0] = 0 /\ g[Len(w)] \in Int /\ g[k - 1] \in Int
      /\ g[k] = g[k - 1] - w[k]
  BY <1>0, LeftStep
<1>2. g[k - 1] <= 0 /\ g[Len(w)] <= g[k]
  BY <1>0, <1>1, LeftFalls
<1>3. \A n \in Nat: /\ Left(w, n)[Len(w)] = n + g[Len(w)]
                    /\ Left(w, n)[k] = n + g[k]
                    /\ Left(w, n)[k - 1] = n + g[k - 1]
  BY <1>0, LeftShift
<1>4. /\ total \in Int /\ before \in Nat /\ before + w[k] <= total
      /\ g[Len(w)] = -total /\ g[k - 1] = -before /\ g[k] = -(before + w[k])
  <2> HIDE DEF g
  <2>1. w[k] \in Nat
    BY <1>0
  <2>2. total \in Int /\ before \in Nat
    BY <1>1, <1>2
  <2>3. g[Len(w)] = -total /\ g[k - 1] = -before
    BY <1>1
  <2>4. g[k] = -(before + w[k])
    BY <1>1, <2>1
  <2>5. before + w[k] <= total
    BY <1>1, <1>2, <2>1, <2>4
  <2> QED
    BY <2>1, <2>2, <2>3, <2>4, <2>5
<1> HIDE DEF g, total, before
<1>5. ASSUME NEW n \in 0..(total - 1)
      PROVE  Picked(w, n) = k <=> n \in before..(before + w[k] - 1)
  <2>0. total \in Int /\ n \in Int /\ 0 <= n /\ n <= total - 1
    BY <1>4
  <2>1. n \in Nat /\ n + g[Len(w)] < 0
    BY <1>4, <2>0
  <2>2. Picked(w, n) = k <=> n + g[k] < 0 /\ n + g[k - 1] >= 0
    BY <1>3, <2>1, PickedEntry DEF g
  <2>3. w[k] \in Nat /\ before + w[k] \in Nat
    <3>1. w[k] \in Nat
      BY <1>0
    <3> QED
      BY <1>4, <3>1
  <2>4. Picked(w, n) = k <=> n < before + w[k] /\ n >= before
    <3>1. /\ n + g[k] < 0 <=> n < before + w[k]
          /\ n + g[k - 1] >= 0 <=> n >= before
      <4> DEFINE b == before + w[k]
      <4>1. b \in Int /\ before \in Int /\ n \in Int
        BY <1>4, <2>0, <2>3
      <4>2. g[k] = -b /\ g[k - 1] = -before
        BY <1>4
      <4> HIDE DEF b
      <4>3. /\ n + g[k] < 0 <=> n < b
            /\ n + g[k - 1] >= 0 <=> n >= before
        BY <4>1, <4>2
      <4> QED
        BY <4>3 DEF b
    <3> QED
      BY <2>2, <3>1
  <2>5. n \in Nat /\ before \in Nat
    BY <1>4, <2>1
  <2>6. n \in before..(before + w[k] - 1) <=> n < before + w[k] /\ n >= before
    BY <2>3, <2>5
  <2> QED
    BY <2>4, <2>6
<1>6. {n \in 0..(total - 1): Picked(w, n) = k} = before..(before + w[k] - 1)
  <2>1. w[k] \in Nat /\ total \in Int /\ before \in Nat /\ before + w[k] <= total
    <3>1. w[k] \in Nat
      BY <1>0
    <3> QED
      BY <1>4, <3>1
  <2>2. \A n \in before..(before + w[k] - 1): n \in 0..(total - 1)
    BY <2>1
  <2> QED
    BY <1>5, <2>2
<1> QED
  BY <1>6 DEF g, total, before

-----------------------------------------------------------------------------
\* The kind a worker draws for the i-th of its calls, and the call.
KindAt(w, i) ==
    LET mix == MixFor(regime)
    IN  mix[Picked([k \in DOMAIN mix |-> mix[k].weight], draws[w][i])].kind

CallAt(w, i) == [kind |-> KindAt(w, i), path |-> i % PoolSize,
                 body |-> IF HasBody(KindAt(w, i)) THEN For(w, i) ELSE NoBody]

Sendable == {CallAt(w, i): w \in Workers, i \in Nat}

Pooled(i) == Stored(Items(genDraws[i]))

Poolable == {Pooled(i): i \in 0..(PoolSize - 1)}

-----------------------------------------------------------------------------
(* The pools *)

\* The pool so far is made of the numbers drawn so far, in their order.
PoolInv ==
    /\ bodies \in [Arms -> Seq(Poolable)]
    /\ \A a \in Arms: /\ Len(bodies[a]) <= PoolSize
                      /\ \A i \in 1..Len(bodies[a]): bodies[a][i] = Pooled(i - 1)

LEMMA PoolInit == Init => PoolInv
<1> SUFFICES ASSUME Init PROVE PoolInv
  OBVIOUS
<1>1. <<>> \in Seq(Poolable) /\ Len(<<>>) = 0
  OBVIOUS
<1>2. bodies = [a \in Arms |-> <<>>]
  BY DEF Init
<1>3. \A a \in Arms: bodies[a] = <<>>
  BY <1>2
<1> QED
  BY <1>1, <1>2, <1>3, WorkloadAssumption DEF PoolInv

LEMMA PoolNext == PoolInv /\ [Next]_vars => PoolInv'
<1> SUFFICES ASSUME PoolInv, [Next]_vars PROVE PoolInv'
  OBVIOUS
<1>p. Poolable' = Poolable /\ \A i: Pooled(i)' = Pooled(i)
  BY DEF Next, Generate, Issue, vars, input, Pooled, Poolable, Items, Stored
<1>1. ASSUME NEW a \in Arms, Generate(a) PROVE PoolInv'
  <2> DEFINE s == bodies[a]
             e == Pooled(Len(s))
  <2>1. /\ s \in Seq(Poolable) /\ Len(s) \in Nat /\ Len(s) < PoolSize
        /\ \A i \in 1..Len(s): s[i] = Pooled(i - 1)
    BY <1>1 DEF Generate, PoolInv
  <2>2. e \in Poolable
    BY <2>1, WorkloadAssumption DEF Poolable
  <2>3. bodies' = [bodies EXCEPT ![a] = Append(s, e)]
    BY <1>1 DEF Generate, Pooled
  <2> HIDE DEF s, e
  <2>4. /\ Append(s, e) \in Seq(Poolable) /\ Len(Append(s, e)) = Len(s) + 1
        /\ \A i \in 1..Len(s): Append(s, e)[i] = s[i]
        /\ Append(s, e)[Len(s) + 1] = e
    BY <2>1, <2>2, AppendProperties
  <2>5. \A i \in 1..(Len(s) + 1): Append(s, e)[i] = Pooled(i - 1)
    <3> TAKE i \in 1..(Len(s) + 1)
    <3>1. CASE i \in 1..Len(s)
      BY <2>1, <2>4, <3>1
    <3>2. CASE i = Len(s) + 1
      BY <2>1, <2>4, <3>2 DEF e
    <3> QED
      BY <2>1, <3>1, <3>2
  <2>6. bodies' \in [Arms -> Seq(Poolable)]
    BY <2>3, <2>4 DEF PoolInv
  <2>7. ASSUME NEW b \in Arms
        PROVE  /\ Len(bodies'[b]) <= PoolSize
               /\ \A i \in 1..Len(bodies'[b]): bodies'[b][i] = Pooled(i - 1)
    <3>1. CASE b = a
      <4>1. bodies'[b] = Append(s, e)
        BY <2>3, <3>1 DEF PoolInv
      <4> QED
        BY <2>1, <2>4, <2>5, <4>1, WorkloadAssumption
    <3>2. CASE b # a
      BY <2>3, <3>2 DEF PoolInv
    <3> QED
      BY <3>1, <3>2
  <2> QED
    BY <1>p, <2>6, <2>7 DEF PoolInv
<1>2. CASE UNCHANGED bodies
  BY <1>p, <1>2 DEF PoolInv
<1> QED
  BY <1>1, <1>2 DEF Next, Issue, vars

\* Every body of a pool is its own copy, as long as its numbers say.
LEMMA PoolContent ==
    ASSUME PoolInv, NEW a \in Arms, NEW i \in 1..Len(bodies[a])
    PROVE  BodyAt(a, i - 1) = Items(genDraws[i - 1])
<1>1. bodies[a][i] = Pooled(i - 1) /\ i - 1 + 1 = i
  BY DEF PoolInv
<1>2. bodies[a][(i - 1) + 1] = [owned |-> TRUE, items |-> Items(genDraws[i - 1])]
  BY <1>1 DEF Pooled, Stored
<1> QED
  BY <1>2 DEF BodyAt

\* The pool holds every body as it was generated, whatever was generated after
\* it into the same buffer (payload.go:91-97).
THEOREM PoolIntact == Spec => []PoolHoldsGenerated
<1>1. PoolInv => PoolHoldsGenerated
  <2> SUFFICES ASSUME PoolInv, NEW a \in Arms, NEW i \in DOMAIN bodies[a]
               PROVE  BodyAt(a, i - 1) = Items(genDraws[i - 1])
    BY DEF PoolHoldsGenerated
  <2>1. i \in 1..Len(bodies[a])
    BY DEF PoolInv
  <2> QED
    BY <2>1, PoolContent
<1> QED
  BY <1>1, PoolInit, PoolNext, PTL DEF Spec

-----------------------------------------------------------------------------
(* The arms *)

\* A worker's i-th call is the same in both arms, and is only issued out of a
\* pool that is complete.
CallsInv ==
    /\ calls \in [Arms -> [Workers -> Seq(Sendable)]]
    /\ \A a \in Arms, w \in Workers:
          /\ \A i \in 1..Len(calls[a][w]): calls[a][w][i] = CallAt(w, i)
          /\ Len(calls[a][w]) > 0 => Len(bodies[a]) = PoolSize

ArmsInv == PoolInv /\ CallsInv

LEMMA ArmsInit == Init => ArmsInv
<1> SUFFICES ASSUME Init PROVE CallsInv
  BY PoolInit DEF ArmsInv
<1>1. <<>> \in Seq(Sendable) /\ Len(<<>>) = 0
  OBVIOUS
<1>2. calls = [a \in Arms |-> [w \in Workers |-> <<>>]]
  BY DEF Init
<1>3. \A a \in Arms, w \in Workers: calls[a][w] = <<>>
  BY <1>2
<1> QED
  BY <1>1, <1>2, <1>3 DEF CallsInv

LEMMA ArmsNext == ArmsInv /\ [Next]_vars => ArmsInv'
<1> SUFFICES ASSUME PoolInv, CallsInv, [Next]_vars PROVE CallsInv'
  BY PoolNext DEF ArmsInv
<1>p. Sendable' = Sendable /\ \A w, i: CallAt(w, i)' = CallAt(w, i)
  <2>1. regime' = regime /\ draws' = draws
    BY DEF Next, Generate, Issue, vars, input
  <2>2. \A w, i: KindAt(w, i)' = KindAt(w, i)
    BY <2>1 DEF KindAt, MixFor
  <2>3. \A w, i: CallAt(w, i)' = CallAt(w, i)
    BY <2>2 DEF CallAt
  <2> QED
    BY <2>3 DEF Sendable
<1>1. ASSUME NEW a \in Arms, Generate(a) PROVE CallsInv'
  <2>1. /\ calls' = calls /\ Len(bodies[a]) # PoolSize
        /\ \A b \in Arms \ {a}: bodies'[b] = bodies[b]
    BY <1>1, WorkloadAssumption DEF Generate, PoolInv
  <2> QED
    BY <1>p, <2>1 DEF CallsInv
<1>2. ASSUME NEW a \in Arms, NEW w \in Workers, Issue(a, w) PROVE CallsInv'
  <2> DEFINE s == calls[a][w]
             e == CallAt(w, Len(s) + 1)
  <2>1. /\ s \in Seq(Sendable) /\ Len(s) \in Nat
        /\ \A i \in 1..Len(s): s[i] = CallAt(w, i)
        /\ Len(bodies[a]) = PoolSize /\ bodies' = bodies
    BY <1>2 DEF Issue, CallsInv
  <2>2. e \in Sendable
    BY <2>1 DEF Sendable
  <2>3. calls' = [calls EXCEPT ![a][w] = Append(s, e)]
    BY <1>2 DEF Issue, CallAt, KindAt, NextKind, Draw
  <2> HIDE DEF s, e
  <2>4. /\ Append(s, e) \in Seq(Sendable) /\ Len(Append(s, e)) = Len(s) + 1
        /\ \A i \in 1..Len(s): Append(s, e)[i] = s[i]
        /\ Append(s, e)[Len(s) + 1] = e
    BY <2>1, <2>2, AppendProperties
  <2>5. \A i \in 1..(Len(s) + 1): Append(s, e)[i] = CallAt(w, i)
    <3> TAKE i \in 1..(Len(s) + 1)
    <3>1. CASE i \in 1..Len(s)
      BY <2>1, <2>4, <3>1
    <3>2. CASE i = Len(s) + 1
      BY <2>1, <2>4, <3>2 DEF e
    <3> QED
      BY <2>1, <3>1, <3>2
  <2>6. calls' \in [Arms -> [Workers -> Seq(Sendable)]]
    BY <2>3, <2>4 DEF CallsInv
  <2>7. ASSUME NEW b \in Arms, NEW v \in Workers
        PROVE  /\ \A i \in 1..Len(calls'[b][v]): calls'[b][v][i] = CallAt(v, i)
               /\ Len(calls'[b][v]) > 0 => Len(bodies'[b]) = PoolSize
    <3>1. CASE b = a /\ v = w
      <4>1. calls'[b][v] = Append(s, e)
        BY <2>3, <3>1 DEF CallsInv
      <4> QED
        BY <2>1, <2>4, <2>5, <3>1, <4>1
    <3>2. CASE b # a \/ v # w
      <4>1. calls'[b][v] = calls[b][v]
        BY <2>3, <3>2 DEF CallsInv
      <4> QED
        BY <2>1, <4>1 DEF CallsInv
    <3> QED
      BY <3>1, <3>2
  <2> QED
    BY <1>p, <2>6, <2>7 DEF CallsInv
<1>3. CASE UNCHANGED vars
  BY <1>p, <1>3 DEF vars, CallsInv
<1> QED
  BY <1>1, <1>2, <1>3 DEF Next

\* Pool.For never leaves the pool (payload.go:116-122).
LEMMA ForInPool ==
    ASSUME NEW w \in Workers, NEW i \in Nat
    PROVE  For(w, i) \in 0..(PoolSize - 1)
<1>1. w \in Nat /\ PoolSize \in Nat \ {0}
  BY WorkloadAssumption
<1>2. Golden \in Int
  BY <1>1 DEF Golden
<1>3. i * Golden + w * 40503 \in Int
  BY <1>1, <1>2
<1> QED
  BY <1>1, <1>3 DEF For

\* The target answers a worker's i-th call alike in both arms.
LEMMA SameAnswer ==
    ASSUME PoolInv, NEW w \in Workers, NEW i \in Nat,
           Len(bodies["poseidon"]) = PoolSize, Len(bodies["standard"]) = PoolSize
    PROVE  Answer("poseidon", CallAt(w, i)) = Answer("standard", CallAt(w, i))
<1> DEFINE c == CallAt(w, i)
<1>1. c.body = NoBody \/ c.body \in 0..(PoolSize - 1)
  BY ForInPool DEF CallAt
<1> HIDE DEF c
<1>2. ASSUME c.body \in 0..(PoolSize - 1)
      PROVE  BodyAt("poseidon", c.body) = BodyAt("standard", c.body)
  <2>1. c.body + 1 \in 1..PoolSize /\ (c.body + 1) - 1 = c.body
    BY <1>2, WorkloadAssumption
  <2>2. \A a \in Arms: Len(bodies[a]) = PoolSize
    BY DEF Arms
  <2>3. \A a \in Arms: BodyAt(a, c.body) = Items(genDraws[c.body])
    BY <2>1, <2>2, PoolContent
  <2> QED
    BY <2>3 DEF Arms
<1>3. CASE c.body = NoBody
  BY <1>3 DEF Answer
<1>4. CASE c.body # NoBody
  BY <1>1, <1>2, <1>4 DEF Answer
<1> QED
  BY <1>3, <1>4 DEF c

\* However the permits fall, the two arms ask the same of the target as far as
\* each worker got, and are answered alike (main.go:233-252).
THEOREM SameWork == Spec => []SameCallsPerWorker
<1>1. ArmsInv => SameCallsPerWorker
  <2> SUFFICES ASSUME ArmsInv, NEW w \in Workers,
                      NEW i \in DOMAIN calls["poseidon"][w]
                                  \cap DOMAIN calls["standard"][w]
               PROVE  /\ calls["poseidon"][w][i] = calls["standard"][w][i]
                      /\ Answer("poseidon", calls["poseidon"][w][i])
                           = Answer("standard", calls["standard"][w][i])
    BY DEF SameCallsPerWorker
  <2>1. \A a \in Arms: i \in 1..Len(calls[a][w])
    BY DEF ArmsInv, CallsInv, Arms
  <2>2. \A a \in Arms: calls[a][w][i] = CallAt(w, i) /\ Len(bodies[a]) = PoolSize
    BY <2>1 DEF ArmsInv, CallsInv
  <2>3. i \in Nat
    BY <2>1 DEF Arms
  <2> QED
    BY <2>2, <2>3, SameAnswer DEF ArmsInv, Arms
<1> QED
  BY <1>1, ArmsInit, ArmsNext, PTL DEF Spec

-----------------------------------------------------------------------------
(* Types, answers and the walk through the pool *)

\* The weights of the mixes and of the size classes add up to 100: every number
\* below it picks an entry.
LEMMA PickedOutOf100 ==
    ASSUME NEW w \in Seq(Nat), NEW n \in Nat
    PROVE  n < 100 =>
             /\ Len(w) = 1 /\ w[1] = 100 => Picked(w, n) \in 1..1
             /\ Len(w) = 3 /\ w[1] = 60 /\ w[2] = 30 /\ w[3] = 10
                  => Picked(w, n) \in 1..3
             /\ Len(w) = 5 /\ w[1] = 40 /\ w[2] = 25 /\ w[3] = 20 /\ w[4] = 10
                  /\ w[5] = 5 => Picked(w, n) \in 1..5
<1> DEFINE f == Left(w, n)
<1>1. f[0] = n /\ \A k \in 1..Len(w): f[k] = f[k - 1] - w[k]
  BY LeftStep
<1>2. f[Len(w)] < 0 => Picked(w, n) \in 1..Len(w)
  BY PickedEntry
<1> HIDE DEF f
<1>3. Len(w) = 1 /\ w[1] = 100 => f[Len(w)] = n - 100
  BY <1>1
<1>4. Len(w) = 3 /\ w[1] = 60 /\ w[2] = 30 /\ w[3] = 10 => f[Len(w)] = n - 100
  <2> SUFFICES ASSUME Len(w) = 3, w[1] = 60, w[2] = 30, w[3] = 10
               PROVE  f[3] = n - 100
    OBVIOUS
  <2>1. f[1] = f[0] - 60 /\ f[2] = f[1] - 30 /\ f[3] = f[2] - 10
    BY <1>1
  <2> QED
    BY <1>1, <2>1
<1>5. Len(w) = 5 /\ w[1] = 40 /\ w[2] = 25 /\ w[3] = 20 /\ w[4] = 10 /\ w[5] = 5
        => f[Len(w)] = n - 100
  <2> SUFFICES ASSUME Len(w) = 5, w[1] = 40, w[2] = 25, w[3] = 20, w[4] = 10,
                      w[5] = 5
               PROVE  f[5] = n - 100
    OBVIOUS
  <2>1. /\ f[1] = f[0] - 40 /\ f[2] = f[1] - 25 /\ f[3] = f[2] - 20
        /\ f[4] = f[3] - 10 /\ f[5] = f[4] - 5
    BY <1>1
  <2> QED
    BY <1>1, <2>1
<1>6. f[Len(w)] = n - 100 /\ n < 100 => Picked(w, n) \in 1..Len(w)
  BY <1>2
<1> DEFINE p == Picked(w, n)
<1> HIDE DEF p
<1>7. \A m \in {1, 3, 5}:
         Len(w) = m /\ f[Len(w)] = n - 100 /\ n < 100 => p \in 1..m
  BY <1>6 DEF p
<1> QED
  BY <1>3, <1>4, <1>5, <1>7 DEF p

\* What a number out of 100 picks from the mix of a regime.
LEMMA KindPicked ==
    ASSUME NEW w \in Workers, NEW i, draws[w][i] \in 0..99
    PROVE  /\ KindAt(w, i) \in {"fetch", "echo", "ingest", "stream", "notfound"}
           /\ regime = "grpc" => KindAt(w, i) = "echo"
<1> DEFINE mix == MixFor(regime)
           weights == [k \in DOMAIN mix |-> mix[k].weight]
           n == draws[w][i]
<1>0. n \in Nat /\ n < 100
  OBVIOUS
<1>1. KindAt(w, i) = mix[Picked(weights, n)].kind
  BY DEF KindAt
<1> HIDE DEF n
<1>2. CASE regime = "grpc"
  <2>1. mix = <<[kind |-> "echo", weight |-> 100]>>
    BY <1>2 DEF MixFor, GRPCMix
  <2>2. weights \in Seq(Nat) /\ Len(weights) = 1 /\ weights[1] = 100
    BY <2>1
  <2>3. mix[1].kind = "echo"
    BY <2>1
  <2> HIDE DEF mix, weights
  <2>4. Picked(weights, n) = 1
    BY <1>0, <2>2, PickedOutOf100
  <2> QED
    BY <1>1, <2>3, <2>4
<1>3. CASE regime # "grpc"
  <2>1. mix = DefaultMix
    BY <1>3 DEF MixFor
  <2>2. /\ weights \in Seq(Nat) /\ Len(weights) = 5
        /\ weights[1] = 40 /\ weights[2] = 25 /\ weights[3] = 20
        /\ weights[4] = 10 /\ weights[5] = 5
    BY <2>1 DEF DefaultMix
  <2>3. \A k \in 1..5: mix[k].kind
                         \in {"fetch", "echo", "ingest", "stream", "notfound"}
    BY <2>1 DEF DefaultMix
  <2> HIDE DEF mix, weights
  <2>4. Picked(weights, n) \in 1..5
    BY <1>0, <2>2, PickedOutOf100
  <2> QED
    BY <1>1, <1>3, <2>3, <2>4
<1> QED
  BY <1>2, <1>3

\* A body has some number of items.
LEMMA ItemsType ==
    ASSUME NEW d \in [class: 0..99, item: Nat]
    PROVE  Items(d) \in Nat
<1> DEFINE weights == [k \in 1..3 |-> DefaultSizeClasses[k].weight]
           c == DefaultSizeClasses[Picked(weights, d.class)]
<1>1. /\ weights \in Seq(Nat) /\ Len(weights) = 3
      /\ weights[1] = 60 /\ weights[2] = 30 /\ weights[3] = 10
  BY DEF DefaultSizeClasses
<1>2. d.class \in Nat /\ d.class < 100 /\ d.item \in Nat
  OBVIOUS
<1>3. Picked(weights, d.class) \in 1..3
  <2> HIDE DEF weights
  <2> QED
    BY <1>1, <1>2, PickedOutOf100
<1>4. \A k \in 1..3: /\ DefaultSizeClasses[k].min \in Nat
                     /\ DefaultSizeClasses[k].max - DefaultSizeClasses[k].min
                          \in Nat \ {0}
  BY DEF DefaultSizeClasses
<1>5. c.min \in Nat /\ c.max - c.min \in Nat \ {0}
  BY <1>3, <1>4
<1>6. Items(d) = c.min + (d.item % (c.max - c.min))
  BY DEF Items
<1> HIDE DEF c
<1> QED
  BY <1>2, <1>5, <1>6

\* What is drawn is what was drawn beforehand, and no more calls than numbers.
DrawnInv ==
    /\ regime \in Regimes
    /\ draws \in [Workers -> MixDraws] /\ genDraws \in GenDraws
    /\ buf \in [Arms -> Nat]
    /\ \A a \in Arms, w \in Workers: Len(calls[a][w]) <= MaxCalls

LEMMA DrawnInit == Init => DrawnInv
<1> SUFFICES ASSUME Init PROVE DrawnInv
  OBVIOUS
<1>1. calls = [a \in Arms |-> [w \in Workers |-> <<>>]]
  BY DEF Init
<1>2. \A a \in Arms, w \in Workers: Len(calls[a][w]) = 0
  BY <1>1
<1> QED
  BY <1>2, WorkloadAssumption DEF Init, DrawnInv

LEMMA DrawType ==
    ASSUME DrawnInv
    PROVE  /\ \A i \in 0..(PoolSize - 1): genDraws[i] \in [class: 0..99, item: Nat]
           /\ \A w \in Workers, i \in 1..MaxCalls: draws[w][i] \in 0..99
<1>1. genDraws \in [0..(PoolSize - 1) -> [class: 0..99, item: Nat]]
  BY WorkloadAssumption DEF DrawnInv
<1>2. \A w \in Workers: draws[w] \in [1..MaxCalls -> 0..99]
  BY WorkloadAssumption DEF DrawnInv
<1> QED
  BY <1>1, <1>2

LEMMA DrawnNext == ArmsInv /\ DrawnInv /\ [Next]_vars => DrawnInv'
<1> SUFFICES ASSUME PoolInv, CallsInv, DrawnInv, [Next]_vars PROVE DrawnInv'
  BY DEF ArmsInv
<1>0. regime' = regime /\ draws' = draws /\ genDraws' = genDraws
  BY DEF Next, Generate, Issue, vars, input
<1>1. ASSUME NEW a \in Arms, Generate(a) PROVE DrawnInv'
  <2> DEFINE n == Items(genDraws[Len(bodies[a])])
  <2>1. Len(bodies[a]) \in 0..(PoolSize - 1)
    <3>1. Len(bodies[a]) \in Nat /\ Len(bodies[a]) < PoolSize
      BY <1>1 DEF Generate, PoolInv
    <3> QED
      BY <3>1, WorkloadAssumption
  <2>2. n \in Nat
    BY <2>1, DrawType, ItemsType
  <2>3. buf' = [buf EXCEPT ![a] = n] /\ calls' = calls
    BY <1>1 DEF Generate
  <2> HIDE DEF n
  <2> QED
    BY <1>0, <2>2, <2>3 DEF DrawnInv
<1>2. ASSUME NEW a \in Arms, NEW w \in Workers, Issue(a, w) PROVE DrawnInv'
  <2>1. PICK e \in Sendable: calls' = [calls EXCEPT ![a][w] = Append(@, e)]
    <3>1. CallAt(w, Len(calls[a][w]) + 1) \in Sendable
      <4>1. calls[a][w] \in Seq(Sendable)
        BY DEF CallsInv
      <4>2. Len(calls[a][w]) + 1 \in Nat
        BY <4>1
      <4> QED
        BY <4>2 DEF Sendable
    <3>2. calls' = [calls EXCEPT ![a][w]
                      = Append(@, CallAt(w, Len(calls[a][w]) + 1))]
      BY <1>2 DEF Issue, CallAt, KindAt, NextKind, Draw
    <3> QED
      BY <3>1, <3>2
  <2>2. /\ calls[a][w] \in Seq(Sendable) /\ Len(calls[a][w]) < MaxCalls
        /\ buf' = buf
    BY <1>2 DEF Issue, CallsInv
  <2>3. Len(Append(calls[a][w], e)) <= MaxCalls
    BY <2>2, WorkloadAssumption
  <2>4. \A b \in Arms, v \in Workers:
           calls'[b][v] = IF b = a /\ v = w THEN Append(calls[a][w], e)
                                            ELSE calls[b][v]
    BY <2>1 DEF CallsInv
  <2> QED
    BY <1>0, <2>2, <2>3, <2>4 DEF DrawnInv
<1>3. CASE UNCHANGED vars
  BY <1>0, <1>3 DEF vars, DrawnInv
<1> QED
  BY <1>1, <1>2, <1>3 DEF Next

LEMMA WorkInvariance == Spec => [](ArmsInv /\ DrawnInv)
BY ArmsInit, ArmsNext, DrawnInit, DrawnNext, PTL DEF Spec

\* What the workers send is a call of the mix, with a path and a body of the
\* pools.
LEMMA CallType ==
    ASSUME DrawnInv, NEW w \in Workers, NEW i \in 1..MaxCalls
    PROVE  CallAt(w, i) \in Call
<1>1. KindAt(w, i) \in {"fetch", "echo", "ingest", "stream", "notfound"}
  BY DrawType, KindPicked
<1>2. i \in Nat /\ PoolSize \in Nat \ {0}
  BY WorkloadAssumption
<1>3. i % PoolSize \in 0..(PoolSize - 1)
  BY <1>2
<1>4. For(w, i) \in 0..(PoolSize - 1)
  BY <1>2, ForInPool
<1> QED
  BY <1>1, <1>3, <1>4 DEF CallAt, Call

\* A call issued is the one its place calls for, within the numbers drawn.
LEMMA Issued ==
    ASSUME ArmsInv, DrawnInv, NEW a \in Arms, NEW w \in Workers,
           NEW i \in DOMAIN calls[a][w]
    PROVE  /\ i \in 1..MaxCalls /\ i \in 1..Len(calls[a][w])
           /\ calls[a][w][i] = CallAt(w, i)
           /\ Len(bodies[a]) = PoolSize
<1>1. calls[a][w] \in Seq(Sendable) /\ Len(calls[a][w]) <= MaxCalls
  BY DEF ArmsInv, CallsInv, DrawnInv
<1>2. i \in 1..Len(calls[a][w]) /\ Len(calls[a][w]) \in Nat
  BY <1>1
<1> QED
  BY <1>1, <1>2, WorkloadAssumption DEF ArmsInv, CallsInv

\* For any mixes, workers and pools every call is well formed: no worker draws
\* an entry beside the mix or a body beside the pool.
THEOREM WorkloadTypeOK == Spec => []TypeOK
<1>1. ArmsInv /\ DrawnInv => TypeOK
  <2> SUFFICES ASSUME ArmsInv, DrawnInv PROVE TypeOK
    OBVIOUS
  <2>1. bodies \in [Arms -> Seq([owned: BOOLEAN, items: Nat])]
    <3>1. \A i \in 0..(PoolSize - 1): Pooled(i) \in [owned: BOOLEAN, items: Nat]
      BY DrawType, ItemsType DEF Pooled, Stored
    <3>2. Poolable \subseteq [owned: BOOLEAN, items: Nat]
      BY <3>1 DEF Poolable
    <3>3. \A a \in Arms: bodies[a] \in Seq(Poolable)
      BY DEF ArmsInv, PoolInv
    <3>4. \A a \in Arms: bodies[a] \in Seq([owned: BOOLEAN, items: Nat])
      BY <3>2, <3>3, SeqMonotonic
    <3> QED
      BY <3>4 DEF ArmsInv, PoolInv
  <2>2. calls \in [Arms -> [Workers -> Seq(Call)]]
    <3>1. ASSUME NEW a \in Arms, NEW w \in Workers PROVE calls[a][w] \in Seq(Call)
      <4>1. calls[a][w] \in Seq(Sendable)
        BY DEF ArmsInv, CallsInv
      <4>2. \A i \in 1..Len(calls[a][w]): calls[a][w][i] \in Call
        BY <4>1, Issued, CallType
      <4> QED
        BY <4>1, <4>2, SeqMonotonic
    <3> QED
      BY <3>1 DEF ArmsInv, CallsInv
  <2>3. DOMAIN draws = Workers /\ DOMAIN genDraws = 0..(PoolSize - 1)
    BY WorkloadAssumption DEF DrawnInv
  <2> QED
    BY <2>1, <2>2, <2>3 DEF TypeOK, DrawnInv
<1> QED
  BY <1>1, WorkInvariance, PTL

\* For any numbers drawn, a call that the target turns down is the one meant to
\* be turned down (scenario.go:67-79, api.go).
THEOREM OnlyMeantToFail == Spec => []OnlyTheErrorPathFails
<1>1. ArmsInv /\ DrawnInv => OnlyTheErrorPathFails
  <2> SUFFICES ASSUME ArmsInv, DrawnInv, NEW a \in Arms, NEW w \in Workers,
                      NEW i \in DOMAIN calls[a][w],
                      Answer(a, calls[a][w][i]).status # 200
               PROVE  calls[a][w][i].kind = "notfound" /\ regime # "grpc"
    BY DEF OnlyTheErrorPathFails
  <2> DEFINE c == CallAt(w, i)
  <2>1. calls[a][w][i] = c /\ i \in 1..MaxCalls
    BY Issued
  <2>2. /\ c.kind \in {"fetch", "echo", "ingest", "stream", "notfound"}
        /\ regime = "grpc" => c.kind = "echo"
    BY <2>1, DrawType, KindPicked DEF CallAt
  <2>3. c.kind \in {"echo", "ingest"} => c.body # NoBody
    <3>1. i \in Nat
      BY <2>1
    <3>2. For(w, i) \in 0..(PoolSize - 1) /\ NoBody \notin 0..(PoolSize - 1)
      BY <3>1, ForInPool, WorkloadAssumption DEF NoBody
    <3> QED
      BY <3>2 DEF CallAt, HasBody
  <2> HIDE DEF c
  <2>4. Answer(a, c).status = 200 \/ (c.kind = "notfound" /\ regime # "grpc")
    BY <2>2, <2>3 DEF Answer
  <2> QED
    BY <2>1, <2>4
<1> QED
  BY <1>1, WorkInvariance, PTL

\* Numbers with the same remainder differ by a multiple.
LEMMA Congruent ==
    ASSUME NEW p \in Nat \ {0}, NEW a \in Int, NEW b \in Int, a % p = b % p
    PROVE  \E q \in Int: a - b = q * p
<1>1. /\ a \div p \in Int /\ b \div p \in Int /\ a % p \in Int
      /\ a = p * (a \div p) + (a % p) /\ b = p * (b \div p) + (b % p)
  OBVIOUS
<1> DEFINE q == (a \div p) - (b \div p)
<1>2. q \in Int /\ a - b = q * p
  BY <1>1
<1> HIDE DEF q
<1> QED
  BY <1>2

LEMMA Multiple ==
    ASSUME NEW p \in Nat \ {0}, NEW q \in Int
    PROVE  (q * p) % p = 0
OBVIOUS

\* A factor that can be undone can be taken off both sides.
LEMMA Cancel ==
    ASSUME NEW p \in Nat \ {0}, NEW m \in Int, NEW u \in Int,
           (m * u) % p = 1 % p,
           NEW d \in Int, NEW q \in Int, d * m = q * p
    PROVE  d % p = 0
<1>1. PICK t \in Int: m * u - 1 = t * p
  <2> DEFINE a == m * u
  <2>1. a \in Int /\ 1 \in Int /\ a % p = 1 % p
    OBVIOUS
  <2> HIDE DEF a
  <2>2. \E t \in Int: a - 1 = t * p
    BY <2>1, Congruent
  <2> QED
    BY <2>2 DEF a
<1>2. d = (q * u - d * t) * p
  <2>1. (d * m) * u = (q * p) * u
    OBVIOUS
  <2>2. d * (m * u) = d + d * (t * p)
    <3>1. m * u = 1 + t * p
      BY <1>1
    <3>2. d * (1 + t * p) = d + d * (t * p)
      OBVIOUS
    <3> QED
      BY <3>1, <3>2
  <2>3. d * (m * u) = (d * m) * u
    OBVIOUS
  <2>4. (q * p) * u = (q * u) * p /\ d * (t * p) = (d * t) * p
    OBVIOUS
  <2>5. d = (q * u) * p - (d * t) * p
    BY <2>1, <2>2, <2>3, <2>4
  <2>6. (q * u) * p - (d * t) * p = (q * u - d * t) * p
    OBVIOUS
  <2> QED
    BY <2>5, <2>6
<1>3. q * u - d * t \in Int
  OBVIOUS
<1> QED
  BY <1>2, <1>3, Multiple

\* For any pool that the two factors of Pool.For suit and that is larger than
\* any worker's number, no two workers are at the same body at the same place of
\* their sequences, and one is at a body again only a multiple of the pool's size
\* later (payload.go:106-122).
THEOREM OutOfStep == Spec => []PoolWalk
<1>1. ArmsInv /\ DrawnInv => PoolWalk
  <2> SUFFICES ASSUME ArmsInv, DrawnInv, NEW a \in Arms,
                      NEW v \in Workers, NEW w \in Workers,
                      NEW i \in DOMAIN calls[a][v], NEW j \in DOMAIN calls[a][w],
                      calls[a][v][i].body # NoBody,
                      calls[a][v][i].body = calls[a][w][j].body
               PROVE  IF v = w THEN (i - j) % PoolSize = 0 ELSE i # j
    BY DEF PoolWalk
  <2>0. PoolSize \in Nat \ {0} /\ v \in Nat /\ w \in Nat
    BY WorkloadAssumption
  <2>1. /\ i \in Nat /\ j \in Nat
        /\ calls[a][v][i] = CallAt(v, i) /\ calls[a][w][j] = CallAt(w, j)
    BY Issued
  <2>2. For(v, i) = For(w, j)
    BY <2>1 DEF CallAt
  <2>3. Golden \in Int
    BY <2>0 DEF Golden
  <2> DEFINE x == i * Golden + v * 40503
             y == j * Golden + w * 40503
  <2>4. x \in Int /\ y \in Int
    BY <2>0, <2>1, <2>3
  <2>5. x % PoolSize = y % PoolSize
    BY <2>2 DEF For
  <2>6. PICK q \in Int: x - y = q * PoolSize
    <3> HIDE DEF x, y
    <3> QED
      BY <2>0, <2>4, <2>5, Congruent
  <2>7. CASE v = w
    <3>1. (i - j) * Golden = q * PoolSize
      BY <2>0, <2>1, <2>3, <2>6, <2>7
    <3>2. PICK u \in Int: (Golden * u) % PoolSize = 1 % PoolSize
      BY PoolAssumption, <2>0 DEF Invertible
    <3>3. i - j \in Int
      BY <2>1
    <3>4. (i - j) % PoolSize = 0
      BY <2>0, <2>3, <3>1, <3>2, <3>3, Cancel
    <3> QED
      BY <2>7, <3>4
  <2>8. CASE v # w
    <3> SUFFICES ASSUME i = j PROVE FALSE
      BY <2>8
    <3> DEFINE m == 40503
    <3>1. m \in Int /\ (v - w) * m = q * PoolSize
      BY <2>0, <2>1, <2>3, <2>6
    <3>2. PICK u \in Int: (m * u) % PoolSize = 1 % PoolSize
      BY PoolAssumption, <2>0 DEF Invertible
    <3>3. v - w \in Int
      BY <2>0
    <3> HIDE DEF m
    <3>4. (v - w) % PoolSize = 0
      BY <2>0, <3>1, <3>2, <3>3, Cancel
    <3>5. v < PoolSize /\ w < PoolSize
      BY PoolAssumption
    <3>6. v - w = PoolSize * ((v - w) \div PoolSize) /\ (v - w) \div PoolSize \in Int
      BY <2>0, <3>3, <3>4
    <3> QED
      BY <2>0, <2>8, <3>5, <3>6
  <2> QED
    BY <2>7, <2>8
<1> QED
  BY <1>1, WorkInvariance, PTL
=============================================================================
