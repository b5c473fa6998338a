-------------------------- MODULE ComparisonProofs --------------------------
(***************************************************************************)
(* Proofs about Comparison, for any regimes, any order of the files and    *)
(* any directories: what is in a directory is averaged or named, the first *)
(* reports of a document without findings agree, and a verdict in it is    *)
(* earned by all the files of a cell.                                      *)
(***************************************************************************)
EXTENDS Comparison, FiniteSetTheorems, SequenceTheorems, WellFoundedInduction,
        TLAPS

(* Induction and sums *)

\* A set of naturals has a least element.
LEMMA LeastNat ==
    ASSUME NEW T, T \subseteq Nat, T # {}
    PROVE  \E x \in T: \A y \in T: x <= y
<1>1. PICK x \in T: \A y \in T: ~(<<y, x>> \in OpToRel(<, Nat))
  BY NatLessThanWellFounded, WFMin
<1>2. \A y \in T: y < x => <<y, x>> \in OpToRel(<, Nat)
  BY DEF OpToRel
<1>3. \A y \in T: x <= y
  <2> TAKE y \in T
  <2>1. x \in Nat /\ y \in Nat /\ ~(y < x)
    BY <1>1, <1>2
  <2> QED
    BY <2>1
<1> QED
  BY <1>3

\* A set that holds 0, and with each number the next, holds them all.
LEMMA Induction ==
    ASSUME NEW S, 0 \in S, \A n \in Nat: n \in S => n + 1 \in S
    PROVE  Nat \subseteq S
<1> SUFFICES ASSUME Nat \ S # {} PROVE FALSE
  OBVIOUS
<1>1. PICK x \in Nat \ S: \A y \in Nat \ S: x <= y
  BY LeastNat
<1>2. x - 1 \in Nat /\ x = (x - 1) + 1 /\ ~(x <= x - 1)
  BY <1>1
<1> QED
  BY <1>1, <1>2

\* What holds of the empty set, and of a set if of all sets with one element
\* less, holds of all subsets of a finite set.
LEMMA RemovalInduction ==
    ASSUME NEW I, IsFiniteSet(I), NEW A, {} \in A,
           \A T \in SUBSET I: T # {} /\ (\A x \in T: T \ {x} \in A) => T \in A
    PROVE  SUBSET I \subseteq A
<1> SUFFICES ASSUME (SUBSET I) \ A # {} PROVE FALSE
  OBVIOUS
<1> DEFINE R == StrictSubsetOrdering(I)
           Rest == (SUBSET I) \ A
<1>1. IsWellFoundedOn(R, SUBSET I)
  <2>1. IsWellFoundedOn(R, FiniteSubsetsOf(I))
    BY FS_StrictSubsetOrderingWellFounded
  <2> HIDE DEF R
  <2> QED
    BY <2>1, FS_FiniteSubsetsOfFinite
<1>2. PICK T \in Rest: \A U \in Rest: ~(<<U, T>> \in R)
  <2> HIDE DEF R
  <2>1. Rest \subseteq SUBSET I /\ Rest # {}
    OBVIOUS
  <2> HIDE DEF Rest
  <2> QED
    BY <1>1, <2>1, WFMin
<1>3. ASSUME NEW x \in T PROVE T \ {x} \in A
  <2>1. T \ {x} \in SUBSET I /\ T \ {x} \subseteq T /\ T \ {x} # T
    OBVIOUS
  <2>2. <<T \ {x}, T>> \in R
    BY <2>1 DEF StrictSubsetOrdering
  <2> QED
    BY <1>2, <2>1, <2>2
<1> QED
  BY <1>2, <1>3

Some(S) == CHOOSE x \in S: TRUE
\* The function the library's fold defines by recursion over the subsets of I.
Folds(g, f, I) ==
    g = [S \in SUBSET I |-> IF S = {} THEN 0 ELSE f[Some(S)] + g[S \ {Some(S)}]]

LEMMA SumUnfolds == ASSUME NEW f, NEW I
    PROVE SumFunctionOnSet(f, I) = (CHOOSE g: Folds(g, f, I))[I]
BY DEF SumFunctionOnSet, FoldFunctionOnSet, MapThenFoldSet, Folds, Some

LEMMA SomeIn == ASSUME NEW S, S # {} PROVE Some(S) \in S
BY DEF Some

\* The recursion is well defined on the subsets of a finite set.
LEMMA FoldsExists ==
    ASSUME NEW f, NEW I, IsFiniteSet(I)
    PROVE  \E g: Folds(g, f, I)
<1> DEFINE Value(g, S) == IF S = {} THEN 0 ELSE f[Some(S)] + g[S \ {Some(S)}]
           Solves(g, n) == \A S \in SUBSET I: Cardinality(S) <= n => g[S] = Value(g, S)
           Sizes == {n \in Nat: \E g: Solves(g, n)}
<1>0. \A S \in SUBSET I: /\ IsFiniteSet(S) /\ Cardinality(S) \in Nat
                         /\ Cardinality(S) <= Cardinality(I)
                         /\ Cardinality(S) = 0 <=> S = {}
  BY FS_Subset, FS_CardinalityType, FS_EmptySet
<1>1. 0 \in Sizes
  <2>1. Solves([S \in SUBSET I |-> 0], 0)
    <3> SUFFICES ASSUME NEW S \in SUBSET I, Cardinality(S) <= 0 PROVE S = {}
      OBVIOUS
    <3> QED
      BY <1>0
  <2> QED
    BY <2>1
<1>2. ASSUME NEW n \in Nat, n \in Sizes PROVE n + 1 \in Sizes
  <2>1. PICK g: Solves(g, n)
    BY <1>2
  <2> DEFINE h == [S \in SUBSET I |-> Value(g, S)]
  <2>2. ASSUME NEW S \in SUBSET I, Cardinality(S) <= n + 1
        PROVE  h[S] = Value(h, S)
    <3>1. CASE S = {}
      BY <3>1
    <3>2. CASE S # {}
      <4> DEFINE T == S \ {Some(S)}
      <4>1. Some(S) \in S /\ T \in SUBSET I
        BY <3>2, SomeIn
      <4>2. Cardinality(T) = Cardinality(S) - 1
        BY <1>0, <4>1, FS_RemoveElement
      <4>3. Cardinality(T) <= n
        BY <1>0, <2>2, <4>2
      <4>4. g[T] = Value(g, T) /\ h[T] = Value(g, T)
        BY <2>1, <4>1, <4>3
      <4>5. h[S] = f[Some(S)] + g[T] /\ Value(h, S) = f[Some(S)] + h[T]
        BY <3>2
      <4> QED
        BY <4>4, <4>5
    <3> QED
      BY <3>1, <3>2
  <2> HIDE DEF h, Value
  <2> QED
    BY <2>2
<1>3. PICK g: Solves(g, Cardinality(I))
  <2>1. Nat \subseteq Sizes
    <3> HIDE DEF Sizes
    <3> QED
      BY <1>1, <1>2, Induction
  <2> QED
    BY <1>0, <2>1
<1> DEFINE h == [S \in SUBSET I |-> Value(g, S)]
<1>4. \A S \in SUBSET I: h[S] = g[S]
  BY <1>0, <1>3
<1>5. \A S \in SUBSET I: S # {} => S \ {Some(S)} \in SUBSET I
  OBVIOUS
<1>6. \A S \in SUBSET I: Value(g, S) = Value(h, S)
  <2> HIDE DEF h
  <2> QED
    BY <1>4, <1>5
<1>7. h = [S \in SUBSET I |-> Value(h, S)]
  <2> HIDE DEF Value
  <2> QED
    BY <1>6
<1> HIDE DEF h
<1>8. Folds(h, f, I)
  BY <1>7 DEF Folds
<1> QED
  BY <1>8

\* It has one solution, whatever else of the set there is to sum.
LEMMA FoldsUnique ==
    ASSUME NEW f, NEW I, NEW J, IsFiniteSet(I), IsFiniteSet(J),
           NEW g, NEW h, Folds(g, f, I), Folds(h, f, J),
           NEW S \in SUBSET (I \cap J)
    PROVE  g[S] = h[S]
<1> DEFINE Same == {T \in SUBSET (I \cap J): g[T] = h[T]}
<1>0. IsFiniteSet(I \cap J)
  <2>1. I \cap J \in SUBSET I
    OBVIOUS
  <2> QED
    BY <2>1, FS_Subset
<1>1. {} \in Same
  <2>1. g[{}] = 0 /\ h[{}] = 0
    BY DEF Folds
  <2> QED
    BY <2>1
<1>2. ASSUME NEW T \in SUBSET (I \cap J), T # {}, \A x \in T: T \ {x} \in Same
      PROVE  T \in Same
  <2>1. Some(T) \in T
    BY <1>2, SomeIn
  <2>2. /\ g[T] = f[Some(T)] + g[T \ {Some(T)}]
        /\ h[T] = f[Some(T)] + h[T \ {Some(T)}]
    BY <1>2 DEF Folds
  <2>3. g[T \ {Some(T)}] = h[T \ {Some(T)}]
    BY <1>2, <2>1
  <2> QED
    BY <2>2, <2>3
<1>3. SUBSET (I \cap J) \subseteq Same
  <2> HIDE DEF Same
  <2> QED
    BY <1>0, <1>1, <1>2, RemovalInduction
<1> QED
  BY <1>3

LEMMA SumFolds ==
    ASSUME NEW f, NEW I, IsFiniteSet(I), NEW g, Folds(g, f, I), NEW S \in SUBSET I
    PROVE  SumFunctionOnSet(f, S) = g[S]
<1>1. IsFiniteSet(S)
  BY FS_Subset
<1> DEFINE h == CHOOSE h: Folds(h, f, S)
<1>2. Folds(h, f, S)
  BY <1>1, FoldsExists
<1>3. SumFunctionOnSet(f, S) = h[S]
  BY SumUnfolds
<1> HIDE DEF h
<1>4. S \in SUBSET (S \cap I)
  OBVIOUS
<1>5. h[S] = g[S]
  BY <1>1, <1>2, <1>4, FoldsUnique
<1> QED
  BY <1>3, <1>5

LEMMA SumStep ==
    ASSUME NEW f, NEW S, IsFiniteSet(S)
    PROVE  SumFunctionOnSet(f, S) =
             IF S = {} THEN 0
             ELSE f[Some(S)] + SumFunctionOnSet(f, S \ {Some(S)})
<1>1. PICK g: Folds(g, f, S)
  BY FoldsExists
<1>2. S \in SUBSET S /\ S \ {Some(S)} \in SUBSET S
  OBVIOUS
<1>3. g[S] = IF S = {} THEN 0 ELSE f[Some(S)] + g[S \ {Some(S)}]
  BY <1>1, <1>2 DEF Folds
<1> QED
  BY <1>1, <1>2, <1>3, SumFolds

\* A sum depends on the summands only.
LEMMA SumSame ==
    ASSUME NEW f, NEW h, NEW S, IsFiniteSet(S), \A x \in S: f[x] = h[x]
    PROVE  SumFunctionOnSet(f, S) = SumFunctionOnSet(h, S)
<1> DEFINE Same == {T \in SUBSET S: SumFunctionOnSet(f, T) = SumFunctionOnSet(h, T)}
<1>1. {} \in Same
  BY FS_EmptySet, SumStep
<1>2. ASSUME NEW T \in SUBSET S, T # {}, \A x \in T: T \ {x} \in Same
      PROVE  T \in Same
  <2>1. Some(T) \in T /\ IsFiniteSet(T)
    BY <1>2, SomeIn, FS_Subset
  <2>2. SumFunctionOnSet(f, T \ {Some(T)}) = SumFunctionOnSet(h, T \ {Some(T)})
    BY <1>2, <2>1
  <2>3. /\ SumFunctionOnSet(f, T)
             = f[Some(T)] + SumFunctionOnSet(f, T \ {Some(T)})
        /\ SumFunctionOnSet(h, T)
             = h[Some(T)] + SumFunctionOnSet(h, T \ {Some(T)})
    BY <1>2, <2>1, SumStep
  <2>4. f[Some(T)] = h[Some(T)]
    BY <2>1
  <2> QED
    BY <2>2, <2>3, <2>4
<1>3. SUBSET S \subseteq Same
  <2> HIDE DEF Same
  <2> QED
    BY <1>1, <1>2, RemovalInduction
<1> QED
  BY <1>3

\* A sum of integers is an integer.
LEMMA SumInt ==
    ASSUME NEW f, NEW S, IsFiniteSet(S), \A x \in S: f[x] \in Int
    PROVE  SumFunctionOnSet(f, S) \in Int
<1> DEFINE Good == {T \in SUBSET S: SumFunctionOnSet(f, T) \in Int}
<1>1. {} \in Good
  <2>1. SumFunctionOnSet(f, {}) = 0
    BY FS_EmptySet, SumStep
  <2> QED
    BY <2>1
<1>2. ASSUME NEW T \in SUBSET S, T # {}, \A x \in T: T \ {x} \in Good
      PROVE  T \in Good
  <2>1. Some(T) \in T /\ IsFiniteSet(T)
    BY <1>2, SomeIn, FS_Subset
  <2>2. SumFunctionOnSet(f, T)
          = f[Some(T)] + SumFunctionOnSet(f, T \ {Some(T)})
    BY <1>2, <2>1, SumStep
  <2>3. f[Some(T)] \in Int /\ SumFunctionOnSet(f, T \ {Some(T)}) \in Int
    BY <1>2, <2>1
  <2> QED
    BY <2>2, <2>3
<1>3. SUBSET S \subseteq Good
  <2> HIDE DEF Good
  <2> QED
    BY <1>1, <1>2, RemovalInduction
<1> QED
  BY <1>3

\* A sum is the same whichever summand is taken off first.
LEMMA SumRemove ==
    ASSUME NEW f, NEW S, IsFiniteSet(S), \A x \in S: f[x] \in Int
    PROVE  \A x \in S:
              SumFunctionOnSet(f, S) = f[x] + SumFunctionOnSet(f, S \ {x})
<1> DEFINE F(T) == SumFunctionOnSet(f, T)
           Good == {T \in SUBSET S: \A x \in T: F(T) = f[x] + F(T \ {x})}
<1>0. \A T \in SUBSET S: F(T) \in Int
  BY SumInt, FS_Subset
<1>1. {} \in Good
  OBVIOUS
<1>2. ASSUME NEW T \in SUBSET S, T # {}, \A x \in T: T \ {x} \in Good
      PROVE  T \in Good
  <2> DEFINE c == Some(T)
  <2>1. c \in T /\ f[c] \in Int /\ IsFiniteSet(T)
    BY <1>2, SomeIn, FS_Subset
  <2>2. F(T) = f[c] + F(T \ {c})
    BY <1>2, <2>1, SumStep
  <2> HIDE DEF F, c
  <2>5. ASSUME NEW x \in T, x # c PROVE F(T) = f[x] + F(T \ {x})
    <3>1. x \in T \ {c} /\ c \in T \ {x} /\ (T \ {c}) \ {x} = (T \ {x}) \ {c}
      BY <2>1, <2>5
    <3>2. T \ {c} \in Good /\ T \ {x} \in Good
      BY <1>2, <2>1
    <3>3. /\ F(T \ {c}) = f[x] + F((T \ {c}) \ {x})
          /\ F(T \ {x}) = f[c] + F((T \ {x}) \ {c})
      BY <3>1, <3>2
    <3>4. F((T \ {c}) \ {x}) \in Int /\ F(T \ {x}) \in Int /\ F(T \ {c}) \in Int
      BY <1>0
    <3>5. f[x] \in Int
      OBVIOUS
    <3> QED
      BY <2>1, <2>2, <3>1, <3>3, <3>4, <3>5
  <2> QED
    BY <2>2, <2>5
<1>3. SUBSET S \subseteq Good
  <2> HIDE DEF Good
  <2> QED
    BY <1>1, <1>2, RemovalInduction
<1> QED
  BY <1>3

\* A sum and one more summand.
LEMMA SumAdd ==
    ASSUME NEW f, NEW S, IsFiniteSet(S), NEW x, x \notin S,
           \A y \in S \cup {x}: f[y] \in Int
    PROVE  SumFunctionOnSet(f, S \cup {x}) = SumFunctionOnSet(f, S) + f[x]
<1>1. IsFiniteSet(S \cup {x}) /\ (S \cup {x}) \ {x} = S /\ x \in S \cup {x}
  BY FS_AddElement
<1>2. SumFunctionOnSet(f, S \cup {x}) = f[x] + SumFunctionOnSet(f, (S \cup {x}) \ {x})
  BY <1>1, SumRemove
<1>3. SumFunctionOnSet(f, S) \in Int
  BY SumInt
<1>4. f[x] \in Int
  OBVIOUS
<1>5. SumFunctionOnSet(f, S \cup {x}) = f[x] + SumFunctionOnSet(f, S)
  BY <1>1, <1>2, Zenon
<1> QED
  BY <1>3, <1>4, <1>5

\* A sum lies between as many times its least and as its greatest summand.
LEMMA SumBounds ==
    ASSUME NEW f, NEW S, IsFiniteSet(S), NEW lo \in Int, NEW hi \in Int,
           \A x \in S: f[x] \in Int
    PROVE  /\ (\A x \in S: lo <= f[x])
                => lo * Cardinality(S) <= SumFunctionOnSet(f, S)
           /\ (\A x \in S: f[x] <= hi)
                => SumFunctionOnSet(f, S) <= hi * Cardinality(S)
<1> DEFINE F(T) == SumFunctionOnSet(f, T)
           Above == \A x \in S: lo <= f[x]
           Under == \A x \in S: f[x] <= hi
           Good == {T \in SUBSET S: /\ Above => lo * Cardinality(T) <= F(T)
                                    /\ Under => F(T) <= hi * Cardinality(T)}
<1>1. {} \in Good
  <2>1. F({}) = 0 /\ Cardinality({}) = 0
    BY FS_EmptySet, SumStep
  <2> HIDE DEF F
  <2> QED
    BY <2>1
<1>2. ASSUME NEW T \in SUBSET S, T # {}, \A x \in T: T \ {x} \in Good
      PROVE  T \in Good
  <2> DEFINE c == Some(T)
             n == Cardinality(T)
             m == F(T \ {c})
  <2>1. c \in T /\ IsFiniteSet(T) /\ IsFiniteSet(T \ {c})
    BY <1>2, SomeIn, FS_Subset
  <2>2. F(T) = f[c] + m
    BY <1>2, <2>1, SumStep
  <2>3. m \in Int
    BY <2>1, SumInt
  <2>4. n \in Nat /\ Cardinality(T \ {c}) = n - 1
    BY <2>1, FS_CardinalityType, FS_RemoveElement
  <2>5. (Above => lo * (n - 1) <= m) /\ (Under => m <= hi * (n - 1))
    BY <1>2, <2>1, <2>4
  <2>6. f[c] \in Int /\ (Above => lo <= f[c]) /\ (Under => f[c] <= hi)
    BY <2>1
  <2> HIDE DEF F, c, n, m, Above, Under
  <2>7. lo * n = lo * (n - 1) + lo /\ hi * n = hi * (n - 1) + hi
    BY <2>4
  <2>8. lo * (n - 1) \in Int /\ hi * (n - 1) \in Int
    BY <2>4
  <2>9. (Above => lo * n <= F(T)) /\ (Under => F(T) <= hi * n)
    BY <2>2, <2>3, <2>5, <2>6, <2>7, <2>8
  <2> QED
    BY <2>9 DEF n
<1>3. SUBSET S \subseteq Good
  <2> HIDE DEF Good
  <2> QED
    BY <1>1, <1>2, RemovalInduction
<1> QED
  BY <1>3

-----------------------------------------------------------------------------
(* Series *)

\* The loop of cell_series is well defined, and yields numbers.
LEMMA ValuesStep ==
    ASSUME NEW s \in Seq(Report)
    PROVE  /\ Values(s)[0] = <<>>
           /\ \A n \in 1..Len(s):
                 Values(s)[n] = IF s[n].value = NoValue THEN Values(s)[n - 1]
                                ELSE Append(Values(s)[n - 1], s[n].value)
<1> DEFINE Value(g, n) == IF n = 0 THEN <<>>
                          ELSE IF s[n].value = NoValue THEN g[n - 1]
                          ELSE Append(g[n - 1], s[n].value)
           Solves(g, m) == \A n \in 0..Len(s): n <= m => g[n] = Value(g, n)
           Ends == {m \in Nat: \E g: Solves(g, m)}
           Fixed(g) == g = [n \in 0..Len(s) |-> Value(g, n)]
<1>0. Len(s) \in Nat
  OBVIOUS
<1>1. 0 \in Ends
  <2>1. Solves([n \in 0..Len(s) |-> <<>>], 0)
    BY <1>0
  <2> QED
    BY <2>1
<1>2. ASSUME NEW m \in Nat, m \in Ends PROVE m + 1 \in Ends
  <2>1. PICK g: Solves(g, m)
    BY <1>2
  <2> DEFINE h == [n \in 0..Len(s) |-> Value(g, n)]
  <2>2. ASSUME NEW n \in 0..Len(s), n <= m + 1 PROVE h[n] = Value(h, n)
    <3>1. CASE n = 0
      BY <3>1
    <3>2. CASE n # 0
      <4>1. n - 1 \in 0..Len(s) /\ n - 1 <= m
        BY <1>0, <2>2, <3>2
      <4>2. g[n - 1] = Value(g, n - 1) /\ h[n - 1] = Value(g, n - 1)
        BY <2>1, <4>1
      <4>3. h[n - 1] = g[n - 1] /\ h[n] = Value(g, n)
        BY <4>2
      <4> HIDE DEF h
      <4> QED
        BY <3>2, <4>3
    <3> QED
      BY <3>1, <3>2
  <2> HIDE DEF h, Value
  <2> QED
    BY <2>2
<1>3. PICK g: Solves(g, Len(s))
  <2>1. Nat \subseteq Ends
    <3> HIDE DEF Ends
    <3> QED
      BY <1>1, <1>2, Induction
  <2> QED
    BY <1>0, <2>1
<1> DEFINE h == [n \in 0..Len(s) |-> Value(g, n)]
<1>4. \A n \in 0..Len(s): h[n] = g[n]
  BY <1>0, <1>3
<1>5. \A n \in 0..Len(s): Value(g, n) = Value(h, n)
  <2> HIDE DEF h
  <2> TAKE n \in 0..Len(s)
  <2>1. n # 0 => n - 1 \in 0..Len(s)
    BY <1>0
  <2> QED
    BY <1>4, <2>1
<1>6. Fixed(h)
  <2> HIDE DEF Value
  <2> QED
    BY <1>5
<1> HIDE DEF h
<1>7. Values(s) = CHOOSE f: Fixed(f)
  BY DEF Values
<1>8. Fixed(Values(s))
  <2> HIDE DEF Fixed
  <2> QED
    BY <1>6, <1>7
<1> DEFINE V == Values(s)
<1> HIDE DEF V
<1>9. \A n \in 0..Len(s): V[n] = Value(V, n)
  <2> HIDE DEF Value
  <2> QED
    BY <1>8 DEF V
<1>10. /\ V[0] = <<>>
       /\ \A n \in 1..Len(s): V[n] = IF s[n].value = NoValue THEN V[n - 1]
                                     ELSE Append(V[n - 1], s[n].value)
  BY <1>0, <1>9
<1> QED
  BY <1>10 DEF V

LEMMA ValuesType ==
    ASSUME NEW s \in Seq(Report), NEW n \in 0..Len(s)
    PROVE  Values(s)[n] \in Seq(Nat)
<1> DEFINE V == Values(s)
           Typed == {m \in Nat: m <= Len(s) => V[m] \in Seq(Nat)}
<1>0. Len(s) \in Nat /\ \A m \in 1..Len(s): s[m].value \in Nat \cup {NoValue}
  <2>1. Len(s) \in Nat /\ \A m \in 1..Len(s): s[m] \in Report
    BY ElementOfSeq
  <2>2. \A r \in Report: r.value \in Nat \cup {NoValue}
    BY DEF Report, Figure
  <2> QED
    BY <2>1, <2>2
<1>1. /\ V[0] = <<>>
      /\ \A m \in 1..Len(s): V[m] = IF s[m].value = NoValue THEN V[m - 1]
                                    ELSE Append(V[m - 1], s[m].value)
  BY ValuesStep
<1> HIDE DEF V
<1>2. 0 \in Typed
  <2>1. V[0] \in Seq(Nat)
    BY <1>1, EmptySeq
  <2> QED
    BY <2>1
<1>3. ASSUME NEW m \in Nat, m \in Typed PROVE m + 1 \in Typed
  <2> SUFFICES ASSUME m + 1 <= Len(s) PROVE V[m + 1] \in Seq(Nat)
    OBVIOUS
  <2>1. m + 1 \in 1..Len(s) /\ (m + 1) - 1 = m /\ V[m] \in Seq(Nat)
    BY <1>0, <1>3
  <2>2. V[m + 1] = IF s[m + 1].value = NoValue THEN V[m]
                   ELSE Append(V[m], s[m + 1].value)
    BY <1>1, <2>1
  <2>3. s[m + 1].value # NoValue => s[m + 1].value \in Nat
    BY <1>0, <2>1
  <2> QED
    BY <2>1, <2>2, <2>3, AppendProperties
<1>4. Nat \subseteq Typed
  <2> HIDE DEF Typed
  <2> QED
    BY <1>2, <1>3, Induction
<1> QED
  BY <1>0, <1>4 DEF V

\* One record more adds its value to the series, if it has one.
LEMMA ValuesAppend ==
    ASSUME NEW s \in Seq(Report), NEW r \in Report
    PROVE  LET t == Append(s, r)
               v == Values(s)[Len(s)]
           IN  Values(t)[Len(t)]
                  = IF r.value = NoValue THEN v ELSE Append(v, r.value)
<1> DEFINE t == Append(s, r)
           V == Values(s)
           W == Values(t)
           Same == {m \in Nat: m <= Len(s) => W[m] = V[m]}
<1>0. /\ t \in Seq(Report) /\ Len(s) \in Nat /\ Len(t) = Len(s) + 1
      /\ t[Len(s) + 1] = r /\ \A m \in 1..Len(s): t[m] = s[m]
  BY AppendProperties
<1> HIDE DEF t
<1>1. /\ V[0] = <<>>
      /\ \A m \in 1..Len(s): V[m] = IF s[m].value = NoValue THEN V[m - 1]
                                    ELSE Append(V[m - 1], s[m].value)
  BY ValuesStep
<1>2. /\ W[0] = <<>>
      /\ \A m \in 1..Len(t): W[m] = IF t[m].value = NoValue THEN W[m - 1]
                                    ELSE Append(W[m - 1], t[m].value)
  BY <1>0, ValuesStep
<1> HIDE DEF V, W
<1>3. 0 \in Same
  BY <1>1, <1>2
<1>4. ASSUME NEW m \in Nat, m \in Same PROVE m + 1 \in Same
  <2> SUFFICES ASSUME m + 1 <= Len(s) PROVE W[m + 1] = V[m + 1]
    OBVIOUS
  <2>1. /\ m + 1 \in 1..Len(s) /\ m + 1 \in 1..Len(t) /\ (m + 1) - 1 = m
        /\ W[m] = V[m]
    BY <1>0, <1>4
  <2>2. t[m + 1] = s[m + 1]
    BY <1>0, <2>1
  <2>3. W[m + 1] = IF t[m + 1].value = NoValue THEN W[m]
                   ELSE Append(W[m], t[m + 1].value)
    BY <1>2, <2>1
  <2>4. V[m + 1] = IF s[m + 1].value = NoValue THEN V[m]
                   ELSE Append(V[m], s[m + 1].value)
    BY <1>1, <2>1
  <2> QED
    BY <2>1, <2>2, <2>3, <2>4
<1>5. Nat \subseteq Same
  <2> HIDE DEF Same
  <2> QED
    BY <1>3, <1>4, Induction
<1>6. W[Len(s)] = V[Len(s)]
  BY <1>0, <1>5
<1>7. /\ Len(s) + 1 \in 1..Len(t) /\ (Len(s) + 1) - 1 = Len(s)
      /\ t[Len(s) + 1] = r
  BY <1>0
<1>8. W[Len(s) + 1] = IF r.value = NoValue THEN W[Len(s)]
                      ELSE Append(W[Len(s)], r.value)
  BY <1>2, <1>7
<1>9. W[Len(t)] = IF r.value = NoValue THEN V[Len(s)]
                  ELSE Append(V[Len(s)], r.value)
  BY <1>0, <1>6, <1>8
<1> QED
  BY <1>9 DEF t, V, W

LEMMA SumEmptySeq == Sum(<<>>) = 0
<1>1. DOMAIN <<>> = {}
  OBVIOUS
<1> QED
  BY <1>1, FS_EmptySet, SumStep DEF Sum, SumFunction

LEMMA SumAppend ==
    ASSUME NEW v \in Seq(Nat), NEW x \in Nat
    PROVE  Sum(Append(v, x)) = Sum(v) + x
<1> DEFINE n == Len(v)
           u == Append(v, x)
<1>1. /\ n \in Nat /\ DOMAIN v = 1..n /\ DOMAIN u = 1..(n + 1)
      /\ \A i \in 1..n: u[i] = v[i] /\ v[i] \in Nat
      /\ u[n + 1] = x
  BY AppendProperties
<1>2. 1..(n + 1) = (1..n) \cup {n + 1} /\ n + 1 \notin 1..n
  BY <1>1
<1>3. IsFiniteSet(1..n)
  BY <1>1, FS_Interval
<1> HIDE DEF n, u
<1>4. \A y \in (1..n) \cup {n + 1}: u[y] \in Int
  BY <1>1
<1>5. SumFunctionOnSet(u, (1..n) \cup {n + 1})
        = SumFunctionOnSet(u, 1..n) + u[n + 1]
  <2> DEFINE D == 1..n
             e == n + 1
  <2>1. IsFiniteSet(D) /\ e \notin D /\ \A y \in D \cup {e}: u[y] \in Int
    BY <1>2, <1>3, <1>4
  <2> HIDE DEF D, e
  <2>2. SumFunctionOnSet(u, D \cup {e}) = SumFunctionOnSet(u, D) + u[e]
    BY <2>1, SumAdd
  <2> QED
    BY <2>2 DEF D, e
<1>6. SumFunctionOnSet(u, 1..n) = SumFunctionOnSet(v, 1..n)
  BY <1>1, <1>3, SumSame
<1>7. SumFunctionOnSet(u, DOMAIN u) = SumFunctionOnSet(v, DOMAIN v) + x
  BY <1>1, <1>2, <1>5, <1>6
<1> QED
  BY <1>7 DEF Sum, SumFunction, u

\* One more place adds its value to a sum over places.
LEMMA SumInsert ==
    ASSUME NEW val, NEW S, IsFiniteSet(S), NEW x, x \notin S,
           \A y \in S \cup {x}: val[y] \in Int
    PROVE  Sum([j \in S \cup {x} |-> val[j]]) = Sum([j \in S |-> val[j]]) + val[x]
<1> DEFINE f == [j \in S |-> val[j]]
           g == [j \in S \cup {x} |-> val[j]]
<1>1. IsFiniteSet(S \cup {x})
  BY FS_AddElement
<1>2. /\ DOMAIN f = S /\ DOMAIN g = S \cup {x}
      /\ \A y \in S: f[y] = val[y]
      /\ \A y \in S \cup {x}: g[y] = val[y]
  OBVIOUS
<1> HIDE DEF f, g
<1>3. SumFunctionOnSet(f, S) = SumFunctionOnSet(val, S)
  BY <1>2, SumSame
<1>4. SumFunctionOnSet(g, S \cup {x}) = SumFunctionOnSet(val, S \cup {x})
  BY <1>1, <1>2, SumSame
<1>5. SumFunctionOnSet(val, S \cup {x}) = SumFunctionOnSet(val, S) + val[x]
  BY SumAdd
<1>6. Sum(f) = SumFunctionOnSet(val, S)
      /\ Sum(g) = SumFunctionOnSet(val, S \cup {x})
  BY <1>2, <1>3, <1>4 DEF Sum, SumFunction
<1> QED
  BY <1>5, <1>6 DEF f, g

LEMMA SeqSum ==
    ASSUME NEW v \in Seq(Nat)
    PROVE  /\ Sum(v) \in Nat
           /\ \A lo \in Int: (\A i \in 1..Len(v): lo <= v[i])
                                => lo * Len(v) <= Sum(v)
           /\ \A hi \in Int: (\A i \in 1..Len(v): v[i] <= hi)
                                => Sum(v) <= hi * Len(v)
<1> DEFINE D == DOMAIN v
<1>1. D = 1..Len(v) /\ Len(v) \in Nat /\ \A i \in D: v[i] \in Nat
  OBVIOUS
<1>2. IsFiniteSet(D) /\ Cardinality(D) = Len(v)
  <2> DEFINE n == Len(v)
  <2>1. n \in Nat /\ D = 1..n
    BY <1>1
  <2> HIDE DEF n, D
  <2>2. /\ IsFiniteSet(1..n)
        /\ Cardinality(1..n) = IF 1 > n THEN 0 ELSE n - 1 + 1
    BY <2>1, FS_Interval
  <2>3. Cardinality(D) = n
    BY <2>1, <2>2
  <2> QED
    BY <2>1, <2>2, <2>3 DEF n
<1>3. Sum(v) = SumFunctionOnSet(v, D)
  BY DEF Sum, SumFunction
<1> HIDE DEF D
<1>4. /\ \A lo \in Int: (\A i \in D: lo <= v[i]) => lo * Cardinality(D) <= Sum(v)
      /\ \A hi \in Int: (\A i \in D: v[i] <= hi) => Sum(v) <= hi * Cardinality(D)
  <2>1. \A i \in D: v[i] \in Int
    BY <1>1
  <2>2. \A x \in Int:
           /\ (\A i \in D: x <= v[i])
                => x * Cardinality(D) <= SumFunctionOnSet(v, D)
           /\ (\A i \in D: v[i] <= x)
                => SumFunctionOnSet(v, D) <= x * Cardinality(D)
    BY <1>2, <2>1, SumBounds
  <2> QED
    BY <1>3, <2>2
<1>5. Sum(v) \in Int
  BY <1>1, <1>2, <1>3, SumInt
<1>6. 0 * Cardinality(D) <= Sum(v)
  <2>1. \A i \in D: 0 <= v[i]
    BY <1>1
  <2>2. (\A i \in D: 0 <= v[i]) => 0 * Cardinality(D) <= Sum(v)
    BY <1>4
  <2> QED
    BY <2>1, <2>2
<1>7. Sum(v) \in Nat
  BY <1>1, <1>2, <1>5, <1>6
<1> QED
  BY <1>1, <1>2, <1>4, <1>7

-----------------------------------------------------------------------------
(* The verdict of two series *)

LEMMA Scaled ==
    ASSUME NEW x \in Int, NEW y \in Int, NEW n \in Nat, x <= y
    PROVE  x * n <= y * n
<1> DEFINE d == y - x
<1>1. d \in Nat /\ y = x + d
  OBVIOUS
<1> HIDE DEF d
<1>2. d * n \in Nat /\ x * n \in Int /\ y * n = x * n + d * n
  BY <1>1
<1> QED
  BY <1>2

\* Where all of one series lies below all of the other, so does its mean.
LEMMA BelowMeans ==
    ASSUME NEW a \in Seq(Nat), NEW b \in Seq(Nat), Len(a) > 0, Len(b) > 0,
           Below(a, b)
    PROVE  Sum(a) * Len(b) < Sum(b) * Len(a)
<1> DEFINE B == {b[i]: i \in 1..Len(b)}
<1>1. PICK m \in B: \A y \in B: m <= y
  <2>1. B \subseteq Nat /\ b[1] \in B
    OBVIOUS
  <2> HIDE DEF B
  <2> QED
    BY <2>1, LeastNat
<1>2. m \in Nat /\ \A i \in 1..Len(b): m <= b[i]
  BY <1>1
<1>3. \A i \in 1..Len(a): a[i] <= m - 1
  <2> TAKE i \in 1..Len(a)
  <2>1. a[i] \in Range(a) /\ m \in Range(b) /\ a[i] \in Nat
    BY <1>1 DEF Range
  <2>2. a[i] < m
    BY <2>1 DEF Below
  <2> QED
    BY <1>2, <2>1, <2>2
<1> DEFINE la == Len(a)
           lb == Len(b)
           sa == Sum(a)
           sb == Sum(b)
<1>4. la \in Nat \ {0} /\ lb \in Nat \ {0} /\ sa \in Nat /\ sb \in Nat
  BY SeqSum
<1>5. sa <= (m - 1) * la /\ m * lb <= sb
  <2>1. m \in Int /\ m - 1 \in Int
    BY <1>2
  <2>2. Sum(a) <= (m - 1) * Len(a)
    BY <1>3, <2>1, SeqSum
  <2>3. m * Len(b) <= Sum(b)
    BY <1>2, <2>1, SeqSum
  <2> QED
    BY <2>2, <2>3
<1> HIDE DEF la, lb, sa, sb
<1>6. sa * lb <= ((m - 1) * la) * lb
  <2>1. (m - 1) * la \in Int /\ sa \in Int /\ lb \in Nat
    BY <1>2, <1>4
  <2> QED
    BY <1>5, <2>1, Scaled
<1>7. (m * lb) * la <= sb * la
  <2>1. m * lb \in Int /\ sb \in Int /\ la \in Nat
    BY <1>2, <1>4
  <2> QED
    BY <1>5, <2>1, Scaled
<1>8. ((m - 1) * la) * lb = (m * lb) * la - la * lb /\ la * lb > 0
      /\ (m * lb) * la \in Int /\ la * lb \in Int /\ sa * lb \in Int
      /\ sb * la \in Int
  BY <1>2, <1>4
<1>9. sa * lb < sb * la
  BY <1>6, <1>7, <1>8
<1> QED
  BY <1>9 DEF la, lb, sa, sb

\* The mean of a lies below the mean of b.
MeanBelow(a, b) == Sum(a) * Len(b) < Sum(b) * Len(a)

LEMMA MeansType ==
    ASSUME NEW p \in Seq(Nat), NEW s \in Seq(Nat)
    PROVE  /\ Sum(p) * Len(s) \in Nat /\ Sum(s) * Len(p) \in Nat
           /\ Diff(p, s) \in Int /\ Base(p, s) \in Nat
           /\ Diff(p, s) < 0 <=> MeanBelow(p, s)
           /\ Diff(p, s) > 0 <=> MeanBelow(s, p)
           /\ p # <<>> /\ s # <<>> /\ Sum(s) # 0 => Base(p, s) > 0
<1> DEFINE x == Sum(p)
           y == Sum(s)
           m == Len(p)
           n == Len(s)
<1>1. x \in Nat /\ y \in Nat /\ m \in Nat /\ n \in Nat
  BY SeqSum
<1>2. p # <<>> => m > 0
  BY EmptySeq
<1> HIDE DEF x, y, m, n
<1>3. x * n \in Nat /\ y * m \in Nat /\ (y # 0 /\ m > 0 => y * m > 0)
  BY <1>1
<1>4. Diff(p, s) = x * n - y * m /\ Base(p, s) = y * m
  BY DEF Diff, Base, x, y, m, n
<1>5. /\ MeanBelow(p, s) <=> x * n < y * m
      /\ MeanBelow(s, p) <=> y * m < x * n
  BY DEF MeanBelow, x, y, m, n
<1>6. /\ Sum(p) * Len(s) \in Nat /\ Sum(s) * Len(p) \in Nat
      /\ Sum(s) # 0 <=> y # 0
  BY <1>3 DEF x, y, m, n
<1> QED
  BY <1>2, <1>3, <1>4, <1>5, <1>6

LEMMA AbsType == \A x \in Int: Abs(x) \in Nat
  BY DEF Abs

\* A tie is claimed inside the band, by a metric that resolves it.
LEMMA Tie ==
    ASSUME NEW p \in Seq(Nat), NEW s \in Seq(Nat), NEW floor \in Nat,
           DeltaVerdict(p, s, floor) = "~equal"
    PROVE  floor <= EQUAL_BAND_PCT /\ Within(p, s, EQUAL_BAND_PCT)
<1>1. /\ ~(Within(p, s, floor) /\ floor > EQUAL_BAND_PCT)
      /\ Within(p, s, EQUAL_BAND_PCT)
  BY DEF DeltaVerdict, Better
<1>2. ASSUME floor > EQUAL_BAND_PCT PROVE Within(p, s, floor)
  <2> DEFINE b == Base(p, s)
             d == Abs(Diff(p, s)) * 100
  <2>1. b \in Nat /\ d \in Int
    <3>1. Diff(p, s) \in Int /\ b \in Nat
      BY MeansType
    <3>2. Abs(Diff(p, s)) \in Nat
      BY <3>1, AbsType
    <3> DEFINE e == Abs(Diff(p, s))
    <3> HIDE DEF e, b
    <3>3. e * 100 \in Int
      BY <3>2 DEF e
    <3> QED
      BY <3>1, <3>3 DEF e
  <2>2. d < 5 * b
    BY <1>1 DEF Within, EQUAL_BAND_PCT
  <2> HIDE DEF b, d
  <2>3. 5 * b <= floor * b
    BY <1>2, <2>1, Scaled DEF EQUAL_BAND_PCT
  <2>4. floor * b \in Int
    BY <2>1
  <2>5. d < floor * b
    BY <2>1, <2>2, <2>3, <2>4
  <2> QED
    BY <2>5 DEF Within, b, d
<1>3. EQUAL_BAND_PCT \in Nat
  BY DEF EQUAL_BAND_PCT
<1> QED
  BY <1>1, <1>2, <1>3

LEMMA Positive == \A x \in Int: ~(x < 0) /\ x # 0 => x > 0
OBVIOUS

\* A winner by the difference of the means has the lower mean.
LEMMA DeltaWinner ==
    ASSUME NEW p \in Seq(Nat), NEW s \in Seq(Nat), NEW floor \in Nat
    PROVE  /\ DeltaVerdict(p, s, floor) = "poseidon better" => MeanBelow(p, s)
           /\ DeltaVerdict(p, s, floor) = "standard better" => MeanBelow(s, p)
<1> DEFINE v == DeltaVerdict(p, s, floor)
           d == Diff(p, s)
           b == Base(p, s)
<1>1. /\ d \in Int /\ b \in Nat
      /\ d < 0 <=> MeanBelow(p, s)
      /\ d > 0 <=> MeanBelow(s, p)
      /\ p # <<>> /\ s # <<>> /\ Sum(s) # 0 => b > 0
  BY MeansType
<1>2. Within(p, s, EQUAL_BAND_PCT) <=> Abs(d) * 100 < 5 * b
  BY DEF Within, EQUAL_BAND_PCT
<1>3. v \in {"poseidon better", "standard better"} =>
         /\ p # <<>> /\ s # <<>> /\ Sum(s) # 0
         /\ ~Within(p, s, EQUAL_BAND_PCT)
         /\ v = Better(p, s)
  BY DEF DeltaVerdict
<1>4. Better(p, s) = IF d < 0 THEN "poseidon better" ELSE "standard better"
  BY DEF Better
<1> HIDE DEF v, d, b
<1>5. b > 0 /\ d = 0 => Abs(d) * 100 < 5 * b
  BY <1>1 DEF Abs
<1>6. v \in {"poseidon better", "standard better"} => d # 0
  BY <1>1, <1>2, <1>3, <1>5
<1>7. v = "poseidon better" => d < 0
  BY <1>3, <1>4
<1>8. v = "standard better" => d > 0
  <2> SUFFICES ASSUME v = "standard better" PROVE d > 0
    OBVIOUS
  <2>1. ~(d < 0)
    BY <1>3, <1>4
  <2>2. d # 0
    BY <1>6
  <2>3. d \in Int
    BY <1>1
  <2> QED
    BY <2>1, <2>2, <2>3, Positive
<1> QED
  BY <1>1, <1>7, <1>8 DEF v

\* A winner of separated series has every sample below every one of the loser.
LEMMA SeparatedWinner ==
    ASSUME NEW p \in Seq(Nat), NEW s \in Seq(Nat), Len(p) > 0, Len(s) > 0,
           Separated(p, s)
    PROVE  /\ Better(p, s) = "poseidon better" => MeanBelow(p, s) /\ Below(p, s)
           /\ Better(p, s) = "standard better" => MeanBelow(s, p) /\ Below(s, p)
<1>1. /\ Below(p, s) => MeanBelow(p, s)
      /\ Below(s, p) => MeanBelow(s, p)
  BY BelowMeans DEF MeanBelow
<1>2. Below(p, s) \/ Below(s, p)
  BY DEF Separated
<1>3. ~(MeanBelow(p, s) /\ MeanBelow(s, p))
  <2> DEFINE d == Diff(p, s)
  <2>1. d \in Int /\ (d < 0 <=> MeanBelow(p, s)) /\ (d > 0 <=> MeanBelow(s, p))
    BY MeansType
  <2> HIDE DEF d
  <2> QED
    BY <2>1
<1> QED
  BY <1>1, <1>2, <1>3, MeansType DEF Better

\* The verdict column: what each of its claims means for the two series.
LEMMA VerdictMeans ==
    ASSUME NEW r \in Regimes, NEW floor \in Nat,
           \A c \in Cells: /\ Series(c) \in Seq(Nat) /\ Len(reps[c]) \in Nat
                          /\ Len(Series(c)) <= Len(reps[c])
    PROVE  LET p == Series(<<r, "poseidon">>)
               s == Series(<<r, "standard">>)
               v == Verdict(r, floor)
           IN  /\ v \in Verdicts
               /\ v = "~equal" => /\ floor <= EQUAL_BAND_PCT
                                  /\ Within(p, s, EQUAL_BAND_PCT)
               /\ v = "poseidon better" =>
                     /\ MeanBelow(p, s)
                     /\ Len(p) > 1 /\ Len(s) > 1 => Below(p, s)
               /\ v = "standard better" =>
                     /\ MeanBelow(s, p)
                     /\ Len(p) > 1 /\ Len(s) > 1 => Below(s, p)
<1> DEFINE p == Series(<<r, "poseidon">>)
           s == Series(<<r, "standard">>)
           v == Verdict(r, floor)
           replicated == \E c \in Cells: Len(reps[c]) > 1
           single == ~replicated \/ Len(p) < 2 \/ Len(s) < 2
<1>1. <<r, "poseidon">> \in Cells /\ <<r, "standard">> \in Cells
  BY DEF Cells, Arms
<1>2. p \in Seq(Nat) /\ s \in Seq(Nat) /\ Len(p) \in Nat /\ Len(s) \in Nat
  BY <1>1
<1>3. single => ~(Len(p) > 1 /\ Len(s) > 1)
  <2> DEFINE c == <<r, "poseidon">>
  <2>1. /\ c \in Cells /\ Len(reps[c]) \in Nat
        /\ Len(p) <= Len(reps[c]) /\ Len(p) \in Nat
    BY <1>1, <1>2
  <2> HIDE DEF c, p
  <2>2. Len(p) > 1 => Len(reps[c]) > 1
    BY <2>1
  <2>3. Len(p) > 1 => replicated
    BY <2>1, <2>2
  <2> QED
    BY <1>2, <2>1, <2>3
<1>4. v = IF single THEN DeltaVerdict(p, s, floor)
          ELSE IF ~Separated(p, s) THEN "overlapping" ELSE Better(p, s)
  BY DEF Verdict
<1>5. ~single => Len(p) > 0 /\ Len(s) > 0
  BY <1>2
<1> HIDE DEF p, s, v, single
<1>6. CASE single
  <2>1. v = DeltaVerdict(p, s, floor)
    BY <1>4, <1>6
  <2>2. v \in Verdicts
    BY <2>1 DEF DeltaVerdict, Better, Verdicts
  <2> QED
    BY <1>2, <1>3, <1>6, <2>1, <2>2, Tie, DeltaWinner DEF p, s, v
<1>7. CASE ~single /\ Separated(p, s)
  <2>1. v = Better(p, s)
    BY <1>4, <1>7
  <2>2. v \in {"poseidon better", "standard better"}
    BY <2>1 DEF Better
  <2>3. /\ v = "poseidon better" => MeanBelow(p, s) /\ Below(p, s)
        /\ v = "standard better" => MeanBelow(s, p) /\ Below(s, p)
    BY <1>2, <1>5, <1>7, <2>1, SeparatedWinner
  <2> QED
    BY <2>2, <2>3 DEF Verdicts, p, s, v
<1>8. CASE ~single /\ ~Separated(p, s)
  <2>1. v = "overlapping"
    BY <1>4, <1>8
  <2> QED
    BY <2>1 DEF Verdicts, v
<1> QED
  BY <1>6, <1>7, <1>8

-----------------------------------------------------------------------------
(* What was read *)

\* The files of a cell among those visited so far.
Seen(c) == {j \in Files(c): j < k}

\* What was read so far is what the directory held.
LoadedInv ==
    /\ dir \in Directories /\ k \in 1..(Len(Paths) + 1)
    /\ reps \in [Cells -> Seq(Report)]
    /\ runs \in [Cells -> Seq(Report)]
    /\ \A c \in Cells:
          /\ Len(reps[c]) = Cardinality(Seen(c))
          /\ Seen(c) # {} => runs[c] # <<>>
          /\ runs[c] # <<>> => \E j \in Seen(c): /\ Run(c) = dir[j].data
                                                /\ \A i \in Seen(c): j <= i
    /\ \A x: x \in load_errors <=>
          \E j \in DOMAIN Paths: j < k /\ dir[j].kind = "bad" /\ x = Paths[j]
    /\ \A j \in DOMAIN Paths:
          j < k /\ dir[j].kind = "good" /\ Paths[j] \in Strays =>
              Paths[j] \in extra_files

\* The document is the last thing made, of everything that was read.
RenderedInv ==
    rendered => /\ k = Len(Paths) + 1
                /\ findings = FileFindings \cup OwnFindings \cup PairFindings

IInv == LoadedInv /\ RenderedInv

LEMMA PathsType ==
    /\ Len(Paths) \in Nat /\ DOMAIN Paths = 1..Len(Paths)
    /\ \A j \in DOMAIN Paths: Paths[j] \in Names
<1> QED
  BY ComparisonAssumption

LEMMA DirType ==
    ASSUME dir \in Directories, NEW j \in DOMAIN Paths
    PROVE  dir[j].kind \in {"none", "bad", "good"} /\ dir[j].data \in Report
<1>1. dir \in [DOMAIN Paths -> [kind: {"none", "bad", "good"}, data: Report]]
  BY ComparisonAssumption
<1> QED
  BY <1>1

LEMMA FilesFinite == \A c: IsFiniteSet(Files(c)) /\ IsFiniteSet(Seen(c))
<1> TAKE c
<1>1. IsFiniteSet(1..Len(Paths))
  BY PathsType, FS_Interval
<1>2. Files(c) \in SUBSET (1..Len(Paths)) /\ Seen(c) \in SUBSET (1..Len(Paths))
  BY PathsType DEF Files, Seen
<1> QED
  BY <1>1, <1>2, FS_Subset

LEMMA InvInit == Init => IInv
<1> SUFFICES ASSUME Init PROVE IInv
  OBVIOUS
<1>1. /\ dir \in Directories /\ k = 1 /\ rendered = FALSE
      /\ \A c \in Cells: reps[c] = <<>> /\ runs[c] = <<>>
      /\ load_errors = {}
  BY DEF Init
<1>2. \A c: Seen(c) = {}
  BY <1>1, PathsType DEF Seen, Files
<1>3. <<>> \in Seq(Report) /\ Len(<<>>) = 0
  OBVIOUS
<1>4. reps \in [Cells -> Seq(Report)] /\ runs \in [Cells -> Seq(Report)]
  BY <1>3 DEF Init
<1>5. \A j \in DOMAIN Paths: ~(j < k)
  BY <1>1, PathsType
<1>6. k \in 1..(Len(Paths) + 1)
  BY <1>1, PathsType
<1> QED
  BY <1>1, <1>2, <1>3, <1>4, <1>5, <1>6, FS_EmptySet
     DEF IInv, LoadedInv, RenderedInv

LEMMA InvNext == IInv /\ [Next]_vars => IInv'
<1> SUFFICES ASSUME LoadedInv, RenderedInv, [Next]_vars PROVE IInv'
  BY DEF IInv
<1>0. Len(Paths) \in Nat /\ k \in Nat
  BY PathsType DEF LoadedInv
<1>1. CASE LoadFile
  <2>1. /\ k \in DOMAIN Paths /\ k' = k + 1 /\ dir' = dir
        /\ findings' = findings /\ rendered' = rendered
        /\ k \in 1..Len(Paths)
    BY <1>0, <1>1, PathsType DEF LoadFile, output, LoadedInv
  <2>2. ~rendered
    BY <1>0, <2>1 DEF RenderedInv
  <2>3. k' \in 1..(Len(Paths) + 1)
    BY <1>0, <2>1
  <2> DEFINE n == Paths[k]
             f == dir[k]
  <2>4. f.kind \in {"none", "bad", "good"} /\ f.data \in Report /\ n \in Names
    BY <2>1, DirType, PathsType DEF LoadedInv
  <2>5. \A c: Files(c)' = Files(c)
    BY <2>1 DEF Files
  <2>6. \A c: Seen(c)' = IF k \in Files(c) THEN Seen(c) \cup {k} ELSE Seen(c)
    BY <1>0, <2>1, <2>5, PathsType DEF Seen, Files
  <2>7. \A j \in DOMAIN Paths: j < k' <=> j < k \/ j = k
    BY <1>0, <2>1, PathsType
  <2>8. CASE f.kind = "good" /\ n \in Cells
    <3>1. /\ reps' = [reps EXCEPT ![n] = Append(@, f.data)]
          /\ runs' = [runs EXCEPT ![n] = Representative(@, f.data)]
          /\ load_errors' = load_errors
      BY <1>1, <2>8, ComparisonAssumption DEF LoadFile, Collected
    <3>2. /\ Append(reps[n], f.data) \in Seq(Report)
          /\ Len(Append(reps[n], f.data)) = Len(reps[n]) + 1
      BY <2>4, <2>8, AppendProperties DEF LoadedInv
    <3>3. Representative(runs[n], f.data) \in Seq(Report)
      BY <2>4, <2>8 DEF LoadedInv, Representative
    <3>4. /\ reps' \in [Cells -> Seq(Report)]
          /\ runs' \in [Cells -> Seq(Report)]
      BY <3>1, <3>2, <3>3 DEF LoadedInv
    <3>5. ASSUME NEW c \in Cells
          PROVE  /\ Len(reps'[c]) = Cardinality(Seen(c)')
                 /\ Seen(c)' # {} => runs'[c] # <<>>
                 /\ runs'[c] # <<>> =>
                      \E j \in Seen(c)': /\ Head(runs'[c]) = dir[j].data
                                         /\ \A i \in Seen(c)': j <= i
      <4>1. CASE c = n
        <5>1. Seen(c)' = Seen(c) \cup {k} /\ k \notin Seen(c)
          BY <1>0, <2>1, <2>6, <2>8, <4>1 DEF Files, Seen
        <5>2. Cardinality(Seen(c)') = Cardinality(Seen(c)) + 1
          BY <5>1, FilesFinite, FS_AddElement
        <5>3. reps'[c] = Append(reps[n], f.data)
          BY <3>1, <4>1 DEF LoadedInv
        <5>4. runs'[c] = Representative(runs[c], f.data)
          BY <3>1, <4>1 DEF LoadedInv
        <5>5. Len(reps'[c]) = Cardinality(Seen(c)')
          BY <3>2, <4>1, <5>2, <5>3 DEF LoadedInv
        <5>6. runs'[c] # <<>>
          BY <5>4 DEF Representative
        <5>7. CASE runs[c] = <<>>
          <6>1. Seen(c)' = {k}
            BY <5>1, <5>7 DEF LoadedInv
          <6>2. Head(runs'[c]) = dir[k].data /\ k <= k
            BY <1>0, <5>4, <5>7 DEF Representative
          <6> QED
            BY <5>5, <5>6, <6>1, <6>2
        <5>8. CASE runs[c] # <<>>
          <6>1. PICK j \in Seen(c): /\ Run(c) = dir[j].data
                                    /\ \A i \in Seen(c): j <= i
            BY <5>8 DEF LoadedInv
          <6>2. j <= k
            BY <1>0, <6>1, PathsType DEF Seen, Files
          <6>3. Head(runs'[c]) = dir[j].data
            BY <5>4, <5>8, <6>1 DEF Representative, Run
          <6> QED
            BY <5>1, <5>5, <5>6, <6>1, <6>2, <6>3
        <5> QED
          BY <5>7, <5>8
      <4>2. CASE c # n
        <5>1. Seen(c)' = Seen(c)
          BY <2>6, <4>2 DEF Files
        <5>2. reps'[c] = reps[c] /\ runs'[c] = runs[c]
          BY <3>1, <4>2 DEF LoadedInv
        <5> QED
          BY <5>1, <5>2 DEF LoadedInv, Run
      <4> QED
        BY <4>1, <4>2
    <3>6. \A x: x \in load_errors' <=>
             \E j \in DOMAIN Paths: j < k' /\ dir[j].kind = "bad" /\ x = Paths[j]
      BY <2>7, <2>8, <3>1 DEF LoadedInv
    <3>7. \A j \in DOMAIN Paths:
             j < k' /\ dir[j].kind = "good" /\ Paths[j] \in Strays =>
                 Paths[j] \in extra_files'
      <4>1. n \notin Strays /\ extra_files' = extra_files
        BY <1>1, <2>8, ComparisonAssumption DEF LoadFile
      <4> QED
        BY <2>7, <4>1 DEF LoadedInv
    <3> QED
      BY <2>1, <2>2, <2>3, <3>4, <3>5, <3>6, <3>7
         DEF IInv, LoadedInv, RenderedInv, Run
  <2>9. CASE ~(f.kind = "good" /\ n \in Cells)
    <3>1. reps' = reps /\ runs' = runs
      BY <1>1, <2>9 DEF LoadFile, loaded
    <3>2. \A c \in Cells: Seen(c)' = Seen(c)
      BY <2>6, <2>9 DEF Files
    <3>3. load_errors' = IF f.kind = "bad" THEN load_errors \cup {n}
                                          ELSE load_errors
      BY <1>1 DEF LoadFile, loaded
    <3>4. /\ \A x \in extra_files: x \in extra_files'
          /\ f.kind = "good" => n \in extra_files'
      BY <1>1, <2>9 DEF LoadFile, loaded
    <3>5. \A x: x \in load_errors' <=>
             \E j \in DOMAIN Paths: j < k' /\ dir[j].kind = "bad" /\ x = Paths[j]
      <4>1. \A x: x \in load_errors' <=>
               x \in load_errors \/ (f.kind = "bad" /\ x = n)
        BY <3>3
      <4> QED
        BY <2>1, <2>7, <4>1 DEF LoadedInv
    <3>6. \A j \in DOMAIN Paths:
             j < k' /\ dir[j].kind = "good" /\ Paths[j] \in Strays =>
                 Paths[j] \in extra_files'
      BY <2>7, <3>4 DEF LoadedInv
    <3> QED
      BY <2>1, <2>2, <2>3, <3>1, <3>2, <3>5, <3>6
         DEF IInv, LoadedInv, RenderedInv, Run
  <2> QED
    BY <2>8, <2>9
<1>2. CASE Render
  <2>1. /\ k' = k /\ dir' = dir /\ reps' = reps /\ runs' = runs
        /\ extra_files' = extra_files /\ load_errors' = load_errors
        /\ k > Len(Paths)
        /\ findings' = FileFindings \cup OwnFindings \cup PairFindings
    BY <1>2 DEF Render, loaded
  <2>2. k = Len(Paths) + 1
    BY <1>0, <2>1 DEF LoadedInv
  <2>3. \A c: Has(c)' = Has(c) /\ Run(c)' = Run(c) /\ Seen(c)' = Seen(c)
    BY <2>1 DEF Has, Run, Seen, Files
  <2>4. LoadedInv'
    BY <2>1, <2>3 DEF LoadedInv
  <2>5. /\ FileFindings' = FileFindings /\ OwnFindings' = OwnFindings
        /\ PairFindings' = PairFindings
    BY <2>1, <2>3 DEF FileFindings, OwnFindings, PairFindings
  <2> QED
    BY <2>1, <2>2, <2>4, <2>5 DEF IInv, RenderedInv
<1>3. CASE UNCHANGED vars
  <2>1. /\ k' = k /\ dir' = dir /\ reps' = reps /\ runs' = runs
        /\ extra_files' = extra_files /\ load_errors' = load_errors
        /\ findings' = findings /\ rendered' = rendered
    BY <1>3 DEF vars, loaded, output
  <2>2. \A c: Has(c)' = Has(c) /\ Run(c)' = Run(c) /\ Seen(c)' = Seen(c)
    BY <2>1 DEF Has, Run, Seen, Files
  <2>3. LoadedInv'
    BY <2>1, <2>2 DEF LoadedInv
  <2>4. /\ FileFindings' = FileFindings /\ OwnFindings' = OwnFindings
        /\ PairFindings' = PairFindings
    BY <2>1, <2>2 DEF FileFindings, OwnFindings, PairFindings
  <2> QED
    BY <2>1, <2>3, <2>4 DEF IInv, RenderedInv
<1> QED
  BY <1>1, <1>2, <1>3 DEF Next

LEMMA Invariance == Spec => []IInv
<1> QED
  BY InvInit, InvNext, PTL DEF Spec

-----------------------------------------------------------------------------
(* The series and the table *)

\* The files among those visited so far that have a value.
Sampled(c) == {j \in Seen(c): dir[j].data.value # NoValue}
Sample == [j \in DOMAIN Paths |-> dir[j].data.value]

\* The series v is the samples at S: as many, with the same sum, and of the
\* same values.
Holds(v, S, sample) ==
    /\ Len(v) = Cardinality(S)
    /\ Sum(v) = Sum([j \in S |-> sample[j]])
    /\ Range(v) = {sample[j]: j \in S}

SeriesInv == \A c \in Cells: Holds(Series(c), Sampled(c), Sample)

\* The table is the verdict on what was read.
TableInv ==
    table = [x \in Floors \X Regimes |->
                IF rendered THEN Verdict(x[2], x[1]) ELSE "none"]

\* What is left of the types.
OutputInv ==
    /\ \A c \in Cells: Len(runs[c]) <= 1
    /\ extra_files \subseteq Strays /\ load_errors \subseteq Names
    /\ findings \subseteq (FindingKinds \X Names) /\ rendered \in BOOLEAN

LEMMA SeriesType ==
    ASSUME LoadedInv, NEW c \in Cells
    PROVE  Series(c) \in Seq(Nat) /\ reps[c] \in Seq(Report) /\ Len(reps[c]) \in Nat
<1>1. reps[c] \in Seq(Report)
  BY DEF LoadedInv
<1>2. Len(reps[c]) \in Nat /\ Len(reps[c]) \in 0..Len(reps[c])
  BY <1>1
<1> QED
  BY <1>1, <1>2, ValuesType DEF Series

LEMMA SampledType ==
    ASSUME LoadedInv
    PROVE  \A c: /\ IsFiniteSet(Sampled(c)) /\ Cardinality(Sampled(c)) \in Nat
                /\ Cardinality(Sampled(c)) <= Cardinality(Seen(c))
                /\ \A j \in Sampled(c):
                      j \in DOMAIN Paths /\ Sample[j] \in Nat
                        /\ Sample[j] = dir[j].data.value
<1> TAKE c
<1>1. Sampled(c) \in SUBSET Seen(c)
  BY DEF Sampled
<1>2. ASSUME NEW j \in Sampled(c)
      PROVE  /\ j \in DOMAIN Paths /\ Sample[j] \in Nat
             /\ Sample[j] = dir[j].data.value
  <2>1. j \in DOMAIN Paths /\ dir[j].data.value # NoValue
    BY DEF Sampled, Seen, Files
  <2>2. dir[j].data \in Report
    BY <2>1, DirType DEF LoadedInv
  <2>3. dir[j].data.value \in Nat
    BY <2>1, <2>2 DEF Report, Figure
  <2> QED
    BY <2>1, <2>3 DEF Sample
<1> QED
  BY <1>1, <1>2, FilesFinite, FS_Subset, FS_CardinalityType

LEMMA RangeAppend ==
    ASSUME NEW v \in Seq(Nat), NEW x \in Nat
    PROVE  Range(Append(v, x)) = Range(v) \cup {x}
<1> DEFINE n == Len(v)
           u == Append(v, x)
<1>1. /\ n \in Nat /\ DOMAIN v = 1..n /\ DOMAIN u = 1..(n + 1)
      /\ \A i \in 1..n: u[i] = v[i]
      /\ u[n + 1] = x
  BY AppendProperties
<1>2. 1..(n + 1) = (1..n) \cup {n + 1}
  BY <1>1
<1> HIDE DEF n, u
<1>3. Range(u) = Range(v) \cup {x}
  BY <1>1, <1>2 DEF Range
<1> QED
  BY <1>3 DEF u

\* One more sample, in the series and in the set.
LEMMA OneMore ==
    ASSUME NEW v \in Seq(Nat), NEW S, IsFiniteSet(S), NEW x, x \notin S,
           NEW val, \A j \in S \cup {x}: val[j] \in Nat, Holds(v, S, val)
    PROVE  Holds(Append(v, val[x]), S \cup {x}, val)
<1>0. /\ Len(v) = Cardinality(S) /\ Sum(v) = Sum([j \in S |-> val[j]])
      /\ Range(v) = {val[j]: j \in S}
  BY DEF Holds
<1>1. val[x] \in Nat /\ \A j \in S \cup {x}: val[j] \in Int
  OBVIOUS
<1>2. Len(Append(v, val[x])) = Len(v) + 1
  BY <1>1, AppendProperties
<1>3. Cardinality(S \cup {x}) = Cardinality(S) + 1
  BY FS_AddElement
<1>4. Sum(Append(v, val[x])) = Sum(v) + val[x]
  BY <1>1, SumAppend
<1>5. Sum([j \in S \cup {x} |-> val[j]]) = Sum([j \in S |-> val[j]]) + val[x]
  BY <1>1, SumInsert
<1>6. Range(Append(v, val[x])) = Range(v) \cup {val[x]}
  BY <1>1, RangeAppend
<1>7. {val[j]: j \in S \cup {x}} = {val[j]: j \in S} \cup {val[x]}
  OBVIOUS
<1>8. Len(Append(v, val[x])) = Cardinality(S \cup {x})
  BY <1>0, <1>2, <1>3
<1>9. Sum(Append(v, val[x])) = Sum([j \in S \cup {x} |-> val[j]])
  BY <1>0, <1>4, <1>5, Zenon
<1>10. Range(Append(v, val[x])) = {val[j]: j \in S \cup {x}}
  BY <1>0, <1>6, <1>7, Zenon
<1> QED
  BY <1>8, <1>9, <1>10 DEF Holds

\* A file adds its report to the series of its cell, and of no other.
LEMMA LoadStep ==
    ASSUME LoadedInv, LoadFile, NEW c \in Cells
    PROVE  /\ k \in DOMAIN Paths /\ k \notin Seen(c) /\ dir' = dir
           /\ \/ Seen(c)' = Seen(c) /\ reps'[c] = reps[c]
              \/ /\ Seen(c)' = Seen(c) \cup {k} /\ dir[k].data \in Report
                 /\ reps'[c] = Append(reps[c], dir[k].data)
<1>0. Len(Paths) \in Nat /\ k \in Nat
  BY PathsType DEF LoadedInv
<1>1. k \in DOMAIN Paths /\ k' = k + 1 /\ dir' = dir
  BY <1>0, PathsType DEF LoadFile, LoadedInv
<1>2. Files(c)' = Files(c)
  BY <1>1 DEF Files
<1>3. Seen(c)' = IF k \in Files(c) THEN Seen(c) \cup {k} ELSE Seen(c)
  BY <1>0, <1>1, <1>2, PathsType DEF Seen, Files
<1>4. k \notin Seen(c)
  BY <1>0 DEF Seen
<1>5. dir[k].data \in Report
  BY <1>1, DirType DEF LoadedInv
<1>6. CASE dir[k].kind = "good" /\ Paths[k] = c
  <2>1. reps' = [reps EXCEPT ![c] = Append(@, dir[k].data)]
    BY <1>6, ComparisonAssumption DEF LoadFile, Collected
  <2>2. reps'[c] = Append(reps[c], dir[k].data)
    BY <2>1 DEF LoadedInv
  <2>3. k \in Files(c)
    BY <1>1, <1>6 DEF Files
  <2> QED
    BY <1>1, <1>3, <1>4, <1>5, <2>2, <2>3
<1>7. CASE ~(dir[k].kind = "good" /\ Paths[k] = c)
  <2>1. k \notin Files(c)
    BY <1>7 DEF Files
  <2>2. reps'[c] = reps[c]
    BY <1>7 DEF LoadFile, loaded, LoadedInv
  <2> QED
    BY <1>1, <1>3, <1>4, <2>1, <2>2
<1> QED
  BY <1>6, <1>7

LEMMA SeriesNext == LoadedInv /\ SeriesInv /\ [Next]_vars => SeriesInv'
<1> SUFFICES ASSUME LoadedInv, SeriesInv, [Next]_vars PROVE SeriesInv'
  OBVIOUS
<1>0. ASSUME dir' = dir, NEW c \in Cells, Seen(c)' = Seen(c), reps'[c] = reps[c]
      PROVE  Holds(Series(c)', Sampled(c)', Sample')
  <2>1. Sampled(c)' = Sampled(c) /\ Sample' = Sample /\ Series(c)' = Series(c)
    BY <1>0 DEF Sampled, Sample, Series
  <2> QED
    BY <2>1 DEF SeriesInv
<1>1. CASE LoadFile
  <2> SUFFICES ASSUME NEW c \in Cells
               PROVE  Holds(Series(c)', Sampled(c)', Sample')
    BY DEF SeriesInv, Holds
  <2>1. /\ k \in DOMAIN Paths /\ k \notin Seen(c) /\ dir' = dir
        /\ \/ Seen(c)' = Seen(c) /\ reps'[c] = reps[c]
           \/ /\ Seen(c)' = Seen(c) \cup {k} /\ dir[k].data \in Report
              /\ reps'[c] = Append(reps[c], dir[k].data)
    BY <1>1, LoadStep
  <2>2. CASE Seen(c)' = Seen(c) /\ reps'[c] = reps[c]
    BY <1>0, <2>1, <2>2
  <2>3. CASE /\ Seen(c)' = Seen(c) \cup {k} /\ dir[k].data \in Report
             /\ reps'[c] = Append(reps[c], dir[k].data)
    <3> DEFINE r == dir[k].data
               S == Sampled(c)
               v == Series(c)
    <3>1. Sample' = Sample /\ Sample[k] = r.value
      BY <2>1 DEF Sample
    <3>2. v \in Seq(Nat) /\ reps[c] \in Seq(Report)
      BY SeriesType
    <3>3. Series(c)' = IF r.value = NoValue THEN v ELSE Append(v, r.value)
      BY <2>3, <3>2, ValuesAppend DEF Series
    <3>4. Sampled(c)' = IF r.value = NoValue THEN S ELSE S \cup {k}
      BY <2>1, <2>3 DEF Sampled
    <3>5. IsFiniteSet(S) /\ k \notin S /\ \A j \in S: Sample[j] \in Nat
      BY <2>1, SampledType DEF Sampled
    <3>6. r.value # NoValue => Sample[k] \in Nat
      BY <2>3, <3>1 DEF Report, Figure
    <3>7. Holds(v, S, Sample)
      BY DEF SeriesInv
    <3> HIDE DEF S, v, r
    <3>8. CASE r.value = NoValue
      <4>1. Series(c)' = v /\ Sampled(c)' = S
        BY <3>3, <3>4, <3>8
      <4> QED
        BY <3>1, <3>7, <4>1
    <3>9. CASE r.value # NoValue
      <4>1. Series(c)' = Append(v, Sample[k]) /\ Sampled(c)' = S \cup {k}
        BY <3>1, <3>3, <3>4, <3>9
      <4>2. \A j \in S \cup {k}: Sample[j] \in Nat
        BY <3>5, <3>6, <3>9
      <4>3. Holds(Append(v, Sample[k]), S \cup {k}, Sample)
        BY <3>2, <3>5, <3>7, <4>2, OneMore
      <4> QED
        BY <3>1, <4>1, <4>3
    <3> QED
      BY <3>8, <3>9
  <2> QED
    BY <2>1, <2>2, <2>3
<1>2. CASE Render \/ UNCHANGED vars
  <2>1. dir' = dir /\ k' = k /\ reps' = reps
    BY <1>2 DEF Render, vars, loaded
  <2>2. \A c \in Cells: Seen(c)' = Seen(c) /\ reps'[c] = reps[c]
    BY <2>1 DEF Seen, Files
  <2> QED
    BY <1>0, <2>1, <2>2 DEF SeriesInv, Holds
<1> QED
  BY <1>1, <1>2 DEF Next

LEMMA FloorsType == Floors \subseteq Nat /\ Strays \cap Cells = {}
BY ComparisonAssumption

LEMMA TableNext == IInv /\ TableInv /\ [Next]_vars => TableInv'
<1> SUFFICES ASSUME LoadedInv, RenderedInv, TableInv, [Next]_vars PROVE TableInv'
  BY DEF IInv
<1>1. CASE LoadFile
  <2>1. ~rendered
    BY <1>1, PathsType DEF LoadFile, LoadedInv, RenderedInv
  <2>2. table' = table /\ rendered' = rendered
    BY <1>1 DEF LoadFile, output
  <2> QED
    BY <2>1, <2>2 DEF TableInv
<1>2. ASSUME reps' = reps PROVE \A r, f: Verdict(r, f)' = Verdict(r, f)
  <2>1. \A c: Series(c)' = Series(c)
    BY <1>2 DEF Series
  <2> QED
    BY <1>2, <2>1 DEF Verdict
<1>3. CASE Render
  <2>1. /\ table' = [x \in Floors \X Regimes |-> Verdict(x[2], x[1])]
        /\ rendered' = TRUE /\ reps' = reps
    BY <1>3 DEF Render, loaded
  <2> QED
    BY <1>2, <2>1 DEF TableInv
<1>4. CASE UNCHANGED vars
  <2>1. table' = table /\ rendered' = rendered /\ reps' = reps
    BY <1>4 DEF vars, loaded, output
  <2> QED
    BY <1>2, <2>1 DEF TableInv
<1> QED
  BY <1>1, <1>3, <1>4 DEF Next

LEMMA OutputNext == IInv /\ OutputInv /\ [Next]_vars => OutputInv'
<1> SUFFICES ASSUME LoadedInv, RenderedInv, OutputInv, [Next]_vars PROVE OutputInv'
  BY DEF IInv
<1>1. CASE LoadFile
  <2>1. findings' = findings /\ rendered' = rendered
    BY <1>1 DEF LoadFile, output
  <2>2. k \in DOMAIN Paths /\ Paths[k] \in Names
    BY <1>1, PathsType DEF LoadFile, LoadedInv
  <2>3. extra_files' \subseteq Strays /\ load_errors' \subseteq Names
    BY <1>1, <2>2 DEF LoadFile, loaded, OutputInv
  <2>4. ASSUME NEW c \in Cells PROVE Len(runs'[c]) <= 1
    <3>1. Len(runs[c]) <= 1
      BY DEF OutputInv
    <3>2. CASE runs' = runs
      BY <3>1, <3>2
    <3>3. CASE /\ Paths[k] \in Cells
               /\ runs' = [runs EXCEPT ![Paths[k]] = Representative(@, dir[k].data)]
      <4>1. runs'[c] = runs[c] \/ runs'[c] = Representative(runs[c], dir[k].data)
        BY <3>3 DEF LoadedInv
      <4>2. Len(<<dir[k].data>>) <= 1
        OBVIOUS
      <4> QED
        BY <3>1, <4>1, <4>2 DEF Representative
    <3> QED
      BY <1>1, <3>2, <3>3 DEF LoadFile, loaded
  <2> QED
    BY <2>1, <2>3, <2>4 DEF OutputInv
<1>2. CASE Render
  <2>1. /\ runs' = runs /\ extra_files' = extra_files
        /\ load_errors' = load_errors /\ rendered' = TRUE
        /\ findings' = FileFindings \cup OwnFindings \cup PairFindings
    BY <1>2 DEF Render, loaded
  <2>2. FileFindings \subseteq FindingKinds \X Names
    BY DEF FileFindings, FindingKinds, Names, OutputInv
  <2>3. OwnFindings \subseteq FindingKinds \X Names
    BY DEF OwnFindings, FindingKinds, Names
  <2>4. PairFindings \subseteq FindingKinds \X Names
    BY DEF PairFindings, FindingKinds, Names, Cells, Arms
  <2> QED
    BY <2>1, <2>2, <2>3, <2>4 DEF OutputInv
<1>3. CASE UNCHANGED vars
  BY <1>3 DEF vars, loaded, output, OutputInv
<1> QED
  BY <1>1, <1>2, <1>3 DEF Next

ReportInv == IInv /\ SeriesInv /\ TableInv /\ OutputInv

LEMMA ReportInit == Init => ReportInv
<1> SUFFICES ASSUME Init PROVE ReportInv
  OBVIOUS
<1>1. IInv /\ LoadedInv
  BY InvInit DEF IInv
<1>2. /\ k = 1 /\ rendered = FALSE /\ extra_files = {} /\ load_errors = {}
      /\ findings = {} /\ table = [x \in Floors \X Regimes |-> "none"]
      /\ \A c \in Cells: reps[c] = <<>> /\ runs[c] = <<>>
  BY DEF Init
<1>3. ASSUME NEW c \in Cells PROVE Holds(Series(c), Sampled(c), Sample)
  <2>1. Sampled(c) = {}
    BY <1>2, PathsType DEF Sampled, Seen, Files
  <2>2. Series(c) = <<>>
    <3>1. <<>> \in Seq(Report) /\ Len(<<>>) = 0
      OBVIOUS
    <3>2. Values(<<>>)[0] = <<>>
      BY <3>1, ValuesStep
    <3> QED
      BY <1>2, <3>1, <3>2 DEF Series
  <2>3. Len(<<>>) = Cardinality({})
    BY FS_EmptySet
  <2>4. Sum([j \in {} |-> Sample[j]]) = 0
    <3> DEFINE f == [j \in {} |-> Sample[j]]
    <3>1. DOMAIN f = {}
      OBVIOUS
    <3> HIDE DEF f
    <3>2. Sum(f) = 0
      BY <3>1, FS_EmptySet, SumStep DEF Sum, SumFunction
    <3> QED
      BY <3>2 DEF f
  <2>5. Range(<<>>) = {Sample[j]: j \in {}}
    BY DEF Range
  <2> QED
    BY <2>1, <2>2, <2>3, <2>4, <2>5, SumEmptySeq DEF Holds
<1>4. TableInv
  BY <1>2 DEF TableInv
<1>5. OutputInv
  <2>1. Len(<<>>) <= 1
    OBVIOUS
  <2>2. \A c \in Cells: Len(runs[c]) <= 1
    BY <1>2, <2>1, Zenon
  <2>3. rendered \in BOOLEAN
    BY <1>2
  <2> QED
    BY <1>2, <2>2, <2>3 DEF OutputInv
<1> QED
  BY <1>1, <1>3, <1>4, <1>5 DEF ReportInv, SeriesInv

LEMMA ReportInvariance == Spec => []ReportInv
<1>1. ReportInv /\ [Next]_vars => ReportInv'
  <2>1. IInv => LoadedInv
    BY DEF IInv
  <2> QED
    BY <2>1, InvNext, SeriesNext, TableNext, OutputNext DEF ReportInv
<1> QED
  BY <1>1, ReportInit, PTL DEF Spec

-----------------------------------------------------------------------------

\* Once everything is read, what was seen of a cell are its files.
LEMMA AllSeen ==
    ASSUME LoadedInv, k = Len(Paths) + 1
    PROVE  \A c: Seen(c) = Files(c)
<1>1. \A j \in DOMAIN Paths: j < k
  BY PathsType
<1> QED
  BY <1>1 DEF Seen, Files

\* A cell has a representative exactly if it has a file, and it is the first.
LEMMA Represented ==
    ASSUME LoadedInv, k = Len(Paths) + 1, NEW c \in Cells
    PROVE  /\ Has(c) <=> Files(c) # {}
           /\ Has(c) => \E j \in First(c): /\ Run(c) = dir[j].data
                                         /\ dir[j].data \in Report
<1>1. Seen(c) = Files(c)
  BY AllSeen
<1>2. ASSUME Has(c) PROVE \E j \in First(c): Run(c) = dir[j].data /\ dir[j].data \in Report
  <2>1. PICK j \in Files(c): Run(c) = dir[j].data /\ \A i \in Files(c): j <= i
    BY <1>1, <1>2 DEF LoadedInv, Has
  <2>2. j \in First(c) /\ j \in DOMAIN Paths
    BY <2>1 DEF First, Files
  <2> QED
    BY <2>1, <2>2, DirType DEF LoadedInv
<1> QED
  BY <1>1, <1>2 DEF LoadedInv, Has

\* What the document says of a cell is computed from all its measured files.
LEMMA AllMeasured ==
    ASSUME ReportInv, k = Len(Paths) + 1, NEW c \in Cells
    PROVE  /\ Len(Series(c)) = Cardinality(Measured(c))
           /\ Sum(Series(c)) = Total(c)
           /\ Series(c) \in Seq(Nat) /\ Len(reps[c]) \in Nat
           /\ Len(Series(c)) <= Len(reps[c])
           /\ Range(Series(c)) = {dir[j].data.value: j \in Measured(c)}
           /\ \A j \in Measured(c): dir[j].data.value \in Range(Series(c))
<1>1. LoadedInv /\ Holds(Series(c), Sampled(c), Sample)
  BY DEF ReportInv, IInv, SeriesInv
<1>2. Sampled(c) = Measured(c)
  BY <1>1, AllSeen DEF Sampled, Measured
<1>3. \A j \in Measured(c): Sample[j] = dir[j].data.value
  BY <1>1, <1>2, SampledType
<1>4. [j \in Sampled(c) |-> Sample[j]] = [j \in Measured(c) |-> dir[j].data.value]
  BY <1>2, <1>3
<1>5. Sum(Series(c)) = Total(c)
  BY <1>1, <1>4 DEF Holds, Total
<1>6. /\ Len(Series(c)) = Cardinality(Measured(c))
      /\ Range(Series(c)) = {dir[j].data.value: j \in Measured(c)}
  <2>1. {Sample[j]: j \in Measured(c)} = {dir[j].data.value: j \in Measured(c)}
    BY <1>3
  <2> QED
    BY <1>1, <1>2, <2>1 DEF Holds
<1>7. /\ Len(reps[c]) = Cardinality(Seen(c))
      /\ Cardinality(Sampled(c)) <= Cardinality(Seen(c))
  BY <1>1, SampledType DEF LoadedInv
<1>8. Len(Series(c)) <= Len(reps[c])
  BY <1>2, <1>6, <1>7
<1> QED
  BY <1>1, <1>5, <1>6, <1>8, SeriesType

\* A verdict in the table is one on all measured files.
LEMMA Judged ==
    ASSUME ReportInv, NEW x \in Floors \X Regimes, table[x] # "none"
    PROVE  LET p == Series(<<x[2], "poseidon">>)
               s == Series(<<x[2], "standard">>)
           IN  /\ k = Len(Paths) + 1
               /\ table[x] = "~equal" => /\ x[1] <= EQUAL_BAND_PCT
                                         /\ Within(p, s, EQUAL_BAND_PCT)
               /\ table[x] = "poseidon better" =>
                     /\ MeanBelow(p, s)
                     /\ Len(p) > 1 /\ Len(s) > 1 => Below(p, s)
               /\ table[x] = "standard better" =>
                     /\ MeanBelow(s, p)
                     /\ Len(p) > 1 /\ Len(s) > 1 => Below(s, p)
<1>1. rendered /\ table[x] = Verdict(x[2], x[1])
  BY DEF ReportInv, TableInv
<1>2. k = Len(Paths) + 1
  BY <1>1 DEF ReportInv, IInv, RenderedInv
<1>3. x[1] \in Nat /\ x[2] \in Regimes
  BY FloorsType
<1>4. \A c \in Cells: /\ Series(c) \in Seq(Nat) /\ Len(reps[c]) \in Nat
                     /\ Len(Series(c)) <= Len(reps[c])
  BY <1>2, AllMeasured
<1> QED
  BY <1>1, <1>2, <1>3, <1>4, VerdictMeans

\* The types, for any regimes, files and directories.
THEOREM ComparisonTypeOK == Spec => []TypeOK
<1>1. ReportInv => TypeOK
  <2> SUFFICES ASSUME ReportInv PROVE TypeOK
    OBVIOUS
  <2>1. LoadedInv /\ OutputInv /\ TableInv
    BY DEF ReportInv, IInv
  <2>2. DOMAIN dir = DOMAIN Paths
    BY <2>1, ComparisonAssumption DEF LoadedInv
  <2>3. ASSUME NEW x \in Floors \X Regimes, rendered
        PROVE  Verdict(x[2], x[1]) \in Verdicts
    <3>1. k = Len(Paths) + 1
      BY <2>3 DEF ReportInv, IInv, RenderedInv
    <3>2. x[1] \in Nat /\ x[2] \in Regimes
      BY FloorsType
    <3>3. \A c \in Cells: /\ Series(c) \in Seq(Nat) /\ Len(reps[c]) \in Nat
                         /\ Len(Series(c)) <= Len(reps[c])
      BY <3>1, AllMeasured
    <3> QED
      BY <3>2, <3>3, VerdictMeans
  <2>4. table \in [Floors \X Regimes -> Verdicts]
    BY <2>1, <2>3 DEF TableInv, Verdicts
  <2> QED
    BY <2>1, <2>2, <2>4 DEF TypeOK, LoadedInv, OutputInv
<1> QED
  BY <1>1, ReportInvariance, PTL

\* A verdict for an arm is a lower mean over all its files, and with several
\* files on each side it beats every one (render_metric_table,
\* report.py:339-390).
THEOREM Winner == Spec => []WinnerBeatsEveryFile
<1>1. ReportInv => WinnerBeatsEveryFile
  <2> SUFFICES ASSUME ReportInv, NEW x \in Floors \X Regimes, NEW arm \in Arms,
                      table[x] = Won(arm)
               PROVE  LET w == <<x[2], arm>>
                          l == <<x[2], Other(arm)>>
                      IN  /\ Total(w) * Cardinality(Measured(l))
                               < Total(l) * Cardinality(Measured(w))
                          /\ Cardinality(Measured(w)) > 1
                               /\ Cardinality(Measured(l)) > 1 =>
                               \A i \in Measured(w), j \in Measured(l):
                                   dir[i].data.value < dir[j].data.value
    BY DEF WinnerBeatsEveryFile
  <2> DEFINE w == <<x[2], arm>>
             l == <<x[2], Other(arm)>>
             a == Series(w)
             b == Series(l)
  <2>1. w \in Cells /\ l \in Cells
    BY DEF Cells, Arms, Other
  <2>2. table[x] # "none"
    BY DEF Won
  <2>3. /\ k = Len(Paths) + 1 /\ MeanBelow(a, b)
        /\ Len(a) > 1 /\ Len(b) > 1 => Below(a, b)
    <3>1. CASE arm = "poseidon"
      BY <2>2, <3>1, Judged DEF Won, Other
    <3>2. CASE arm = "standard"
      BY <2>2, <3>2, Judged DEF Won, Other
    <3> QED
      BY <3>1, <3>2 DEF Arms
  <2>4. /\ Len(a) = Cardinality(Measured(w)) /\ Sum(a) = Total(w)
        /\ \A j \in Measured(w): dir[j].data.value \in Range(a)
    BY <2>1, <2>3, AllMeasured
  <2>5. /\ Len(b) = Cardinality(Measured(l)) /\ Sum(b) = Total(l)
        /\ \A j \in Measured(l): dir[j].data.value \in Range(b)
    BY <2>1, <2>3, AllMeasured
  <2> HIDE DEF w, l, a, b
  <2>6. Total(w) * Cardinality(Measured(l)) < Total(l) * Cardinality(Measured(w))
    BY <2>3, <2>4, <2>5 DEF MeanBelow
  <2>7. ASSUME Cardinality(Measured(w)) > 1, Cardinality(Measured(l)) > 1,
               NEW i \in Measured(w), NEW j \in Measured(l)
        PROVE  dir[i].data.value < dir[j].data.value
    BY <2>3, <2>4, <2>5, <2>7 DEF Below
  <2> QED
    BY <2>6, <2>7 DEF w, l
<1> QED
  BY <1>1, ReportInvariance, PTL

\* "~equal" is printed only of means inside the band, by a metric that resolves
\* it (delta_and_verdict, report.py:273-300).
THEOREM ResolvedTie == Spec => []TieIsResolved
<1>1. ReportInv => TieIsResolved
  <2> SUFFICES ASSUME ReportInv, NEW x \in Floors \X Regimes, table[x] = "~equal"
               PROVE  LET p == <<x[2], "poseidon">>
                          s == <<x[2], "standard">>
                          np == Cardinality(Measured(p))
                          ns == Cardinality(Measured(s))
                      IN  /\ x[1] <= EQUAL_BAND_PCT
                          /\ 100 * Abs(Total(p) * ns - Total(s) * np)
                               < EQUAL_BAND_PCT * Total(s) * np
    BY DEF TieIsResolved
  <2> DEFINE p == <<x[2], "poseidon">>
             s == <<x[2], "standard">>
             a == Series(p)
             b == Series(s)
  <2>1. p \in Cells /\ s \in Cells
    BY DEF Cells, Arms
  <2>2. table[x] # "none"
    OBVIOUS
  <2>3. /\ k = Len(Paths) + 1 /\ x[1] <= EQUAL_BAND_PCT
        /\ Within(a, b, EQUAL_BAND_PCT)
    BY <2>2, Judged
  <2>4. /\ Len(a) = Cardinality(Measured(p)) /\ Sum(a) = Total(p)
        /\ Len(b) = Cardinality(Measured(s)) /\ Sum(b) = Total(s)
        /\ a \in Seq(Nat) /\ b \in Seq(Nat)
    BY <2>1, <2>3, AllMeasured
  <2> DEFINE d == Diff(a, b)
             m == Total(s)
             n == Cardinality(Measured(p))
  <2>5. d = Total(p) * Cardinality(Measured(s)) - Total(s) * Cardinality(Measured(p))
    BY <2>4 DEF Diff
  <2>6. d \in Int /\ Base(a, b) = m * n /\ m \in Nat /\ n \in Nat
    <3>1. Sum(b) \in Nat /\ Len(a) \in Nat
      BY <2>4, SeqSum
    <3> QED
      BY <2>4, <3>1, MeansType DEF Base
  <2>7. Abs(d) * 100 < 5 * (m * n)
    BY <2>3, <2>6 DEF Within, EQUAL_BAND_PCT
  <2> HIDE DEF d, m, n
  <2>8. Abs(d) \in Int
    BY <2>6 DEF Abs
  <2>9. 100 * Abs(d) = Abs(d) * 100 /\ 5 * (m * n) = 5 * m * n
    BY <2>6, <2>8
  <2>10. 100 * Abs(d) < EQUAL_BAND_PCT * m * n
    BY <2>7, <2>9 DEF EQUAL_BAND_PCT
  <2> QED
    BY <2>3, <2>5, <2>10 DEF m, n
<1> QED
  BY <1>1, ReportInvariance, PTL

\* Every measured file of a cell is in the average the cell is judged by, every
\* broken or stray file is named, and every cell without a usable file is, as
\* unusable or as missing (load_reports, report.py:215-270; cell_series;
\* validity_findings).
THEOREM Vanishing == Spec => []NothingVanishes
<1>1. ReportInv => NothingVanishes
  <2> SUFFICES ASSUME ReportInv, rendered PROVE NothingVanishes
    BY DEF NothingVanishes
  <2>1. /\ LoadedInv /\ k = Len(Paths) + 1
        /\ FileFindings \subseteq findings
    BY DEF ReportInv, IInv, RenderedInv
  <2>2. \A j \in DOMAIN Paths: j < k
    BY <2>1, PathsType
  <2>3. ASSUME NEW c \in Cells
        PROVE  /\ Len(Series(c)) = Cardinality(Measured(c))
               /\ Sum(Series(c)) = Total(c)
               /\ Range(Series(c)) = {dir[j].data.value: j \in Measured(c)}
    BY <2>1, AllMeasured
  <2>4. ASSUME NEW j \in DOMAIN Paths, dir[j].kind = "bad"
        PROVE  <<"unreadable", Paths[j]>> \in findings
    <3>1. Paths[j] \in load_errors
      BY <2>1, <2>2, <2>4 DEF LoadedInv
    <3> QED
      BY <2>1, <3>1 DEF FileFindings
  <2>5. ASSUME NEW j \in DOMAIN Paths, dir[j].kind = "good", Paths[j] \in Strays
        PROVE  <<"unrecognized", Paths[j]>> \in findings
    <3>1. Paths[j] \in extra_files
      BY <2>1, <2>2, <2>5 DEF LoadedInv
    <3> QED
      BY <2>1, <3>1 DEF FileFindings
  <2>6. ASSUME NEW c \in Cells, Files(c) = {}
        PROVE  IF Broken(c) THEN <<"unusable", c>> \in findings
                            ELSE <<"missing", c>> \in findings
    <3>1. c \in {x \in Cells: ~Has(x)}
      BY <2>1, <2>6, Represented
    <3>2. <<IF c \in load_errors THEN "unusable" ELSE "missing", c>> \in findings
      BY <2>1, <3>1 DEF FileFindings
    <3>3. c \in load_errors <=> Broken(c)
      BY <2>1, <2>2 DEF LoadedInv, Broken
    <3> QED
      BY <3>2, <3>3
  <2> QED
    BY <2>3, <2>4, <2>5, <2>6 DEF NothingVanishes
<1> QED
  BY <1>1, ReportInvariance, PTL

\* A document without findings has a report of both arms for every regime, and
\* the first of each arm shows no problem and states figures that agree with the
\* other's; bodies agree where both are stated (validity_findings,
\* report.py:399-601).
THEOREM CleanDocument == Spec => []CleanMeansComparable
<1>1. IInv => CleanMeansComparable
  <2> SUFFICES ASSUME LoadedInv, RenderedInv, rendered, findings = {}
               PROVE  CleanMeansComparable
    BY DEF IInv, CleanMeansComparable
  <2>1. /\ k = Len(Paths) + 1
        /\ FileFindings = {} /\ OwnFindings = {} /\ PairFindings = {}
    BY DEF RenderedInv
  <2>2. \A c \in Cells: Has(c)
    <3> SUFFICES ASSUME NEW c \in Cells, ~Has(c) PROVE FALSE
      OBVIOUS
    <3>1. <<IF c \in load_errors THEN "unusable" ELSE "missing", c>>
             \in FileFindings
      BY DEF FileFindings
    <3> QED
      BY <2>1, <3>1
  <2>3. ASSUME NEW c \in Cells
        PROVE  \E j \in First(c): Run(c) = dir[j].data /\ dir[j].data.problems = {}
    <3>1. PICK j \in First(c): Run(c) = dir[j].data /\ dir[j].data \in Report
      BY <2>1, <2>2, Represented
    <3>2. dir[j].data.problems \subseteq Problems
      BY <3>1 DEF Report
    <3>3. \A x \in Problems: x \notin Run(c).problems
      <4> SUFFICES ASSUME NEW x \in Problems, x \in Run(c).problems
                   PROVE  <<x, c>> \in OwnFindings
        BY <2>1
      <4> QED
        BY <2>2 DEF OwnFindings
    <3> QED
      BY <3>1, <3>2, <3>3
  <2>4. ASSUME NEW r \in Regimes
        PROVE  \E i \in First(<<r, "poseidon">>), j \in First(<<r, "standard">>):
                 LET p == dir[i].data
                     s == dir[j].data
                 IN  /\ p.problems = {} /\ s.problems = {}
                     /\ ~Unstated(p.requests, s.requests)
                     /\ ~Apart(p.requests, s.requests, 20)
                     /\ ~Unstated(p.rps, s.rps) /\ ~Apart(p.rps, s.rps, 20)
                     /\ ~Apart(p.body, s.body, 5)
    <3> DEFINE a == <<r, "poseidon">>
               b == <<r, "standard">>
    <3>1. a \in Cells /\ b \in Cells /\ Has(a) /\ Has(b)
      BY <2>2 DEF Cells, Arms
    <3>2. PICK i \in First(a): Run(a) = dir[i].data /\ dir[i].data.problems = {}
      BY <2>3, <3>1
    <3>3. PICK j \in First(b): Run(b) = dir[j].data /\ dir[j].data.problems = {}
      BY <2>3, <3>1
    <3>4. \A x \in {"body", "requests", "rps"}:
             /\ <<x, a>> \notin PairFindings
             /\ <<x, a>> \in {"body", "requests", "rps"} \X (Regimes \X {"poseidon"})
      BY <2>1
    <3>5. ~Apart(Run(a).body, Run(b).body, 5)
      BY <3>1, <3>4 DEF PairFindings
    <3>6. ~Unstated(Run(a).requests, Run(b).requests)
            /\ ~Apart(Run(a).requests, Run(b).requests, 20)
      BY <3>1, <3>4 DEF PairFindings
    <3>7. ~Unstated(Run(a).rps, Run(b).rps) /\ ~Apart(Run(a).rps, Run(b).rps, 20)
      BY <3>1, <3>4 DEF PairFindings
    <3> HIDE DEF a, b
    <3> QED
      BY <3>2, <3>3, <3>5, <3>6, <3>7 DEF a, b
  <2> QED
    BY <2>4 DEF CleanMeansComparable
<1> QED
  BY <1>1, Invariance, PTL
=============================================================================
