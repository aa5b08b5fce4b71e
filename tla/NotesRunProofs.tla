---------------------------- MODULE NotesRunProofs ----------------------------
(***************************************************************************)
(* Theorems about the run of a notes job, from two audio tracks to notes:  *)
(* Transcription, for tracks of any length and any answers of whisper and  *)
(* of the diarizer, and NotesPipeline, for any transcript, any thresholds  *)
(* and any answers of the provider.                                        *)
(*                                                                         *)
(* Both are loops over lists.  What a loop leaves behind is proved from    *)
(* its steps (FoldSteps): a least step at which a claim about the result   *)
(* so far fails cannot exist (Induction, InductionUpTo).  The lists are    *)
(* then described by where their parts are cut (Bounds, Chain): no order   *)
(* of the steps and no number of parts is assumed.                         *)
(***************************************************************************)
EXTENDS Transcription, NotesPipeline, SequenceTheorems, FiniteSetTheorems,
        WellFoundedInduction, TLAPS

-----------------------------------------------------------------------------
\* Induction, folds and sorting.

\* A set that has 0, and n + 1 with n, has every natural number.
LEMMA Induction ==
  ASSUME NEW T, 0 \in T, \A n \in Nat : n \in T => n + 1 \in T
  PROVE  \A n \in Nat : n \in T
<1>. DEFINE Bad == {n \in Nat : n \notin T}
<1>. SUFFICES ASSUME Bad # {} PROVE FALSE
  OBVIOUS
<1>1. PICK x \in Bad : \A y \in Bad : <<y, x>> \notin OpToRel(<, Nat)
  BY WFMin, NatLessThanWellFounded
<1>2. x \in Nat /\ x # 0
  OBVIOUS
<1>3. x - 1 \in Nat /\ x - 1 < x /\ (x - 1) + 1 = x
  BY <1>2
<1>4. x - 1 \in Bad
  BY <1>3
<1>5. <<x - 1, x>> \in OpToRel(<, Nat)
  BY <1>2, <1>3 DEF OpToRel
<1>. QED  BY <1>1, <1>4, <1>5

\* The same up to a bound.
LEMMA InductionUpTo ==
  ASSUME NEW N \in Nat, NEW T, 0 \in T, \A n \in 0 .. N - 1 : n \in T => n + 1 \in T
  PROVE  \A n \in 0 .. N : n \in T
<1>. DEFINE U == {n \in Nat : n <= N => n \in T}
<1>1. 0 \in U
  OBVIOUS
<1>2. ASSUME NEW n \in Nat, n \in U PROVE n + 1 \in U
  BY <1>2
<1>3. \A n \in Nat : n \in U
  <2>. HIDE DEF U
  <2>. QED  BY <1>1, <1>2, Induction
<1>. QED  BY <1>3

LEMMA MinOfNaturals ==
  ASSUME NEW T, T \subseteq Nat, T # {}
  PROVE  Min(T) \in T /\ \A y \in T : Min(T) <= y
<1>1. PICK x \in T : \A y \in T : <<y, x>> \notin OpToRel(<, Nat)
  BY WFMin, NatLessThanWellFounded
<1>2. \A y \in T : y < x => <<y, x>> \in OpToRel(<, Nat)
  BY DEF OpToRel
<1>3. \A y \in T : ~ (y < x)
  BY <1>1, <1>2, Zenon
<1>4. \A y \in T : x =< y
  BY <1>3
<1>. QED  BY <1>4 DEF Min

LEMMA MaxUpTo ==
  ASSUME NEW n \in Nat, NEW T \in SUBSET (0 .. n), T # {}
  PROVE  Max(T) \in T /\ \A y \in T : y <= Max(T)
<1>. DEFINE Above == {b \in Nat : \A y \in T : y <= b}
<1>1. Above \subseteq Nat /\ n \in Above
  OBVIOUS
<1>2. Min(Above) \in Above /\ \A y \in Above : Min(Above) <= y
  BY <1>1, MinOfNaturals
<1>3. PICK b \in Above : \A y \in Above : b <= y
  BY <1>2
<1>4. b \in T
  <2>. SUFFICES ASSUME b \notin T PROVE FALSE
    OBVIOUS
  <2>1. PICK z \in T : TRUE
    OBVIOUS
  <2>2. z \in Nat /\ z < b
    BY <1>3
  <2>3. b - 1 \in Nat /\ \A y \in T : y <= b - 1
    BY <1>3, <2>2
  <2>. QED  BY <2>3, <1>3
<1>. QED  BY <1>3, <1>4 DEF Max

\* Of two.
LEMMA MaxOfTwo ==
  ASSUME NEW a \in Nat, NEW b \in Nat
  PROVE  Max({a, b}) = IF a >= b THEN a ELSE b
<1>. DEFINE m == IF a >= b THEN a ELSE b
<1>1. m \in {a, b} /\ \A y \in {a, b} : y <= m
  OBVIOUS
<1>2. \A x \in {a, b} : (\A y \in {a, b} : y <= x) => x = m
  OBVIOUS
<1>. QED  BY <1>1, <1>2 DEF Max

LEMMA MinOfTwo ==
  ASSUME NEW a \in Nat, NEW b \in Nat
  PROVE  Min({a, b}) = IF a <= b THEN a ELSE b
<1>. DEFINE m == IF a <= b THEN a ELSE b
<1>1. m \in {a, b} /\ \A y \in {a, b} : m <= y
  OBVIOUS
<1>2. \A x \in {a, b} : (\A y \in {a, b} : x <= y) => x = m
  OBVIOUS
<1>. QED  BY <1>1, <1>2 DEF Min

\* A fold whose step k is the function F[k] on S satisfies its equation.
FoldEquation(g, n, b, F) ==
  g = [T \in SUBSET (1 .. n) |-> IF T = {} THEN b ELSE F[Max(T)][g[T \ {Max(T)}]]]

LEMMA FoldExists ==
  ASSUME NEW S, NEW b \in S, NEW N \in Nat, NEW F \in [1 .. N -> [S -> S]]
  PROVE  \E g \in [SUBSET (1 .. N) -> S] : FoldEquation(g, N, b, F)
<1>. DEFINE P(n) == \E g \in [SUBSET (1 .. n) -> S] : FoldEquation(g, n, b, F)
            Good == {n \in Nat : n <= N => P(n)}
<1>1. P(0)
  <2>. DEFINE g == [T \in SUBSET (1 .. 0) |-> b]
  <2>1. SUBSET (1 .. 0) = {{}}
    OBVIOUS
  <2>2. g \in [SUBSET (1 .. 0) -> S] /\ FoldEquation(g, 0, b, F)
    BY <2>1 DEF FoldEquation
  <2>. QED  BY <2>2
<1>2. ASSUME NEW n \in Nat, n + 1 <= N, P(n) PROVE P(n + 1)
  <2>1. PICK g \in [SUBSET (1 .. n) -> S] : FoldEquation(g, n, b, F)
    BY <1>2
  <2>. DEFINE h == [T \in SUBSET (1 .. n + 1) |->
                      IF n + 1 \in T THEN F[n + 1][g[T \ {n + 1}]] ELSE g[T]]
  <2>2. \A T \in SUBSET (1 .. n + 1) :
          /\ T \ {n + 1} \in SUBSET (1 .. n)
          /\ n + 1 \notin T => T \in SUBSET (1 .. n)
    OBVIOUS
  <2>3. h \in [SUBSET (1 .. n + 1) -> S]
    <3>1. F[n + 1] \in [S -> S]
      BY <1>2
    <3>. QED  BY <2>2, <3>1
  <2>4. ASSUME NEW T \in SUBSET (1 .. n + 1), T # {}
        PROVE  /\ Max(T) \in T
               /\ n + 1 \in T => Max(T) = n + 1
    <3>1. n + 1 \in Nat /\ T \in SUBSET (0 .. n + 1)
      OBVIOUS
    <3>2. Max(T) \in T /\ \A y \in T : y <= Max(T)
      BY <3>1, <2>4, MaxUpTo
    <3>. QED
      <4>. HIDE DEF h
      <4>1. Max(T) \in 1 .. n + 1
        BY <3>2
      <4>2. n + 1 \in T => n + 1 <= Max(T)
        BY <3>2
      <4>. QED  BY <3>2, <4>1, <4>2
  <2>5. ASSUME NEW T \in SUBSET (1 .. n + 1)
        PROVE  h[T] = IF T = {} THEN b ELSE F[Max(T)][h[T \ {Max(T)}]]
    <3>1. CASE T = {}
      <4>1. g[T] = b
        BY <3>1, <2>1 DEF FoldEquation
      <4>. QED  BY <3>1, <4>1
    <3>2. CASE T # {} /\ n + 1 \in T
      <4>1. Max(T) = n + 1
        BY <2>4, <3>2
      <4>2. h[T \ {n + 1}] = g[T \ {n + 1}]
        BY <2>2
      <4>. QED  BY <3>2, <4>1, <4>2
    <3>3. CASE T # {} /\ n + 1 \notin T
      <4>1. T \in SUBSET (1 .. n) /\ Max(T) \in T /\ n + 1 \notin T \ {Max(T)}
        BY <2>2, <2>4, <3>3
      <4>2. g[T] = F[Max(T)][g[T \ {Max(T)}]]
        BY <2>1, <3>3, <4>1 DEF FoldEquation
      <4>3. h[T] = g[T] /\ h[T \ {Max(T)}] = g[T \ {Max(T)}]
        BY <4>1, <3>3
      <4>. QED  BY <3>3, <4>2, <4>3
    <3>. QED  BY <3>1, <3>2, <3>3
  <2>6. FoldEquation(h, n + 1, b, F)
    BY <2>5 DEF FoldEquation
  <2>. QED  BY <2>3, <2>6
<1>. HIDE DEF P
<1>3. 0 \in Good /\ \A n \in Nat : n \in Good => n + 1 \in Good
  BY <1>1, <1>2
<1>4. \A n \in Nat : n \in Good
  <2>. HIDE DEF Good
  <2>. QED  BY <1>3, Induction
<1>5. P(N)
  BY <1>4
<1>. QED  BY <1>5 DEF P

LEMMA MaxOfPart ==
  ASSUME NEW n \in Nat, NEW T \in SUBSET (1 .. n), T # {}
  PROVE  Max(T) \in 1 .. n /\ T \ {Max(T)} \in SUBSET (1 .. n)
<1>1. T \in SUBSET (0 .. n)
  OBVIOUS
<1>2. Max(T) \in T
  BY <1>1, MaxUpTo
<1>. QED  BY <1>2

\* What folds to it[1 .. n] passes through n + 1 values, each a step from the last.
Steps(h, n, S, b, F) ==
  /\ h \in [0 .. n -> S]
  /\ h[0] = b
  /\ \A k \in 1 .. n : h[k - 1] \in S /\ h[k] = F[k][h[k - 1]]

Folds(it, n, S, b, F) ==
  /\ it[{}] = b
  /\ \A T \in SUBSET (1 .. n) : T # {} /\ it[T \ {Max(T)}] \in S =>
        it[T] = F[Max(T)][it[T \ {Max(T)}]]

LEMMA FoldSteps ==
  ASSUME NEW S, NEW b \in S, NEW n \in Nat, NEW F \in [1 .. n -> [S -> S]], NEW it,
         Folds(it, n, S, b, F)
  PROVE  \E h : Steps(h, n, S, b, F) /\ it[1 .. n] = h[n]
<1>. DEFINE h == [k \in 0 .. n |-> it[1 .. k]]
            Good == {k \in Nat : it[1 .. k] \in S}
<1>. USE DEF Folds
<1>1. h[0] = b /\ 0 \in Good
  <2>1. 1 .. 0 = {}
    OBVIOUS
  <2>. QED  BY <2>1
<1>2. ASSUME NEW k \in 1 .. n, k - 1 \in Good
      PROVE  it[1 .. k] = F[k][it[1 .. k - 1]] /\ k \in Good
  <2>1. k \in Nat /\ 1 .. k \in SUBSET (0 .. k) /\ k \in 1 .. k /\ 1 .. k \in SUBSET (1 .. n)
    OBVIOUS
  <2>2. Max(1 .. k) \in 1 .. k /\ k <= Max(1 .. k)
    BY <2>1, MaxUpTo
  <2>3. Max(1 .. k) = k
    BY <2>2
  <2>4. (1 .. k) \ {k} = 1 .. k - 1 /\ 1 .. k # {}
    BY <2>1
  <2>5. it[1 .. k] = F[k][it[1 .. k - 1]]
    BY <1>2, <2>1, <2>3, <2>4
  <2>. QED  BY <1>2, <2>5
<1>3. \A k \in 0 .. n : k \in Good
  <2>1. \A k \in 0 .. n - 1 : k \in Good => k + 1 \in Good
    <3>. SUFFICES ASSUME NEW k \in 0 .. n - 1, k \in Good PROVE k + 1 \in Good
      OBVIOUS
    <3>1. k + 1 \in 1 .. n /\ (k + 1) - 1 = k
      OBVIOUS
    <3>. QED  BY <1>2, <3>1
  <2>. HIDE DEF Good
  <2>. QED  BY <1>1, <2>1, InductionUpTo
<1>4. \A k \in 1 .. n : h[k - 1] \in S /\ h[k] = F[k][h[k - 1]]
  <2>. SUFFICES ASSUME NEW k \in 1 .. n PROVE h[k - 1] \in S /\ h[k] = F[k][h[k - 1]]
    OBVIOUS
  <2>1. k - 1 \in 0 .. n /\ k \in 0 .. n
    OBVIOUS
  <2>2. k - 1 \in Good
    BY <2>1, <1>3
  <2>. QED  BY <1>2, <2>1, <2>2
<1>5. h \in [0 .. n -> S]
  BY <1>3
<1>6. h[n] = it[1 .. n]
  OBVIOUS
<1>. HIDE DEF h
<1>. QED  BY <1>1, <1>4, <1>5, <1>6 DEF Steps

-----------------------------------------------------------------------------
\* Sorting by start: a rearrangement of the same elements, in order.

LEMMA RankProperties ==
  ASSUME NEW S, NEW s \in Seq(S), \A i \in DOMAIN s : s[i].start \in Nat
  PROVE  /\ \A i \in DOMAIN s : Cardinality(Before(s, i)) \in 0 .. Len(s) - 1
         /\ \A i, j \in DOMAIN s : i \in Before(s, j) =>
               Cardinality(Before(s, i)) < Cardinality(Before(s, j))
         /\ \A i, j \in DOMAIN s : i = j \/ i \in Before(s, j) \/ j \in Before(s, i)
<1>. DEFINE n == Len(s)
<1>1. n \in Nat /\ DOMAIN s = 1 .. n
  OBVIOUS
<1>2. IsFiniteSet(1 .. n) /\ Cardinality(1 .. n) = n
  BY <1>1, FS_Interval
<1>3. \A i \in DOMAIN s : Before(s, i) \in SUBSET (1 .. n) /\ i \notin Before(s, i)
  BY <1>1 DEF Before
<1>4. \A i \in DOMAIN s : IsFiniteSet(Before(s, i)) /\ Cardinality(Before(s, i)) \in Nat
  BY <1>2, <1>3, FS_Subset, FS_CardinalityType
<1>5. ASSUME NEW i \in DOMAIN s PROVE Cardinality(Before(s, i)) \in 0 .. n - 1
  <2>1. Before(s, i) # 1 .. n /\ Before(s, i) \in SUBSET (1 .. n)
    BY <1>1, <1>3
  <2>2. Cardinality(Before(s, i)) <= n /\ Cardinality(Before(s, i)) # n
    BY <1>2, <2>1, FS_Subset
  <2>. QED  BY <1>1, <1>4, <2>2
<1>6. ASSUME NEW i \in DOMAIN s, NEW j \in DOMAIN s, i \in Before(s, j)
      PROVE  Cardinality(Before(s, i)) < Cardinality(Before(s, j))
  <2>1. Before(s, i) \subseteq Before(s, j)
    BY <1>1, <1>6 DEF Before
  <2>2. Before(s, i) # Before(s, j)
    BY <1>3, <1>6
  <2>3. /\ Cardinality(Before(s, i)) <= Cardinality(Before(s, j))
        /\ Cardinality(Before(s, j)) # Cardinality(Before(s, i))
    BY <1>4, <2>1, <2>2, FS_Subset
  <2>. QED  BY <1>4, <2>3
<1>7. \A i, j \in DOMAIN s : i = j \/ i \in Before(s, j) \/ j \in Before(s, i)
  BY <1>1 DEF Before
<1>. QED  BY <1>5, <1>6, <1>7

LEMMA Sorted ==
  ASSUME NEW S, NEW s \in Seq(S), \A i \in DOMAIN s : s[i].start \in Nat
  PROVE  /\ SortByStart(s) \in Seq(S) /\ Len(SortByStart(s)) = Len(s)
         /\ \A k \in DOMAIN SortByStart(s) : \E i \in DOMAIN s : SortByStart(s)[k] = s[i]
         /\ \A i \in DOMAIN s : \E k \in DOMAIN SortByStart(s) : SortByStart(s)[k] = s[i]
         /\ \A k, l \in DOMAIN SortByStart(s) :
               k < l => SortByStart(s)[k].start <= SortByStart(s)[l].start
<1>. DEFINE n == Len(s)
            rank == [i \in 1 .. n |-> Cardinality(Before(s, i))]
            pos(k) == CHOOSE i \in DOMAIN s : Cardinality(Before(s, i)) = k - 1
<1>1. n \in Nat /\ DOMAIN s = 1 .. n
  OBVIOUS
<1>2. /\ \A i \in 1 .. n : rank[i] \in 0 .. n - 1
      /\ \A i, j \in 1 .. n : i \in Before(s, j) => rank[i] < rank[j]
      /\ \A i, j \in 1 .. n : i = j \/ i \in Before(s, j) \/ j \in Before(s, i)
  BY <1>1, RankProperties
<1>3. \A i, j \in 1 .. n : rank[i] = rank[j] => i = j
  <2>1. \A i \in 1 .. n : rank[i] \in Nat
    BY <1>2
  <2>. HIDE DEF rank
  <2>. QED  BY <1>2, <2>1
<1>4. rank \in Injection(1 .. n, 0 .. n - 1)
  <2>1. rank \in [1 .. n -> 0 .. n - 1]
    BY <1>2
  <2>. HIDE DEF rank
  <2>. QED  BY <1>3, <2>1 DEF Injection, IsInjective
<1>5. rank \in Surjection(1 .. n, 0 .. n - 1)
  <2>1. IsFiniteSet(0 .. n - 1) /\ Cardinality(0 .. n - 1) = n
    <3>. HIDE DEF n
    <3>1. 0 \in Int /\ n - 1 \in Int
      BY <1>1
    <3>2. /\ IsFiniteSet(0 .. n - 1)
          /\ Cardinality(0 .. n - 1) = IF 0 > n - 1 THEN 0 ELSE (n - 1) - 0 + 1
      BY <3>1, FS_Interval
    <3>. QED  BY <1>1, <3>2
  <2>2. Cardinality(1 .. n) = n
    BY <1>1, FS_Interval
  <2>. HIDE DEF rank, n
  <2>. QED  BY <1>4, <2>1, <2>2, FS_Injection
<1>6. ASSUME NEW k \in 1 .. n PROVE pos(k) \in 1 .. n /\ rank[pos(k)] = k - 1
  <2>1. k - 1 \in 0 .. n - 1
    BY <1>1
  <2>2. \E i \in 1 .. n : rank[i] = k - 1
    <3>. HIDE DEF rank
    <3>. QED  BY <1>5, <2>1 DEF Surjection
  <2>3. \E i \in DOMAIN s : Cardinality(Before(s, i)) = k - 1
    BY <1>1, <2>2
  <2>4. pos(k) \in DOMAIN s /\ Cardinality(Before(s, pos(k))) = k - 1
    BY <2>3
  <2>. QED  BY <1>1, <2>4
<1>7. SortByStart(s) = [k \in 1 .. n |-> s[pos(k)]]
  BY <1>1 DEF SortByStart
<1>. HIDE DEF rank, pos
<1>8. SortByStart(s) \in Seq(S) /\ Len(SortByStart(s)) = n /\ DOMAIN SortByStart(s) = 1 .. n
  BY <1>1, <1>6, <1>7
<1>9. ASSUME NEW i \in 1 .. n PROVE \E k \in 1 .. n : SortByStart(s)[k] = s[i]
  <2>1. rank[i] + 1 \in 1 .. n /\ (rank[i] + 1) - 1 = rank[i]
    BY <1>1, <1>2
  <2>2. pos(rank[i] + 1) = i
    BY <1>3, <1>6, <2>1
  <2>. QED  BY <1>7, <2>1, <2>2
<1>10. ASSUME NEW k \in 1 .. n, NEW l \in 1 .. n, k < l
       PROVE  SortByStart(s)[k].start <= SortByStart(s)[l].start
  <2>. DEFINE i == pos(k)
              j == pos(l)
  <2>1. i \in 1 .. n /\ j \in 1 .. n /\ rank[i] < rank[j]
    BY <1>1, <1>6, <1>10
  <2>. HIDE DEF i, j
  <2>2. rank[i] \in Nat /\ rank[j] \in Nat
    BY <1>2, <2>1
  <2>3. i \in Before(s, j)
    BY <1>2, <2>1, <2>2
  <2>4. s[i].start <= s[j].start
    BY <1>1, <2>1, <2>3 DEF Before
  <2>. QED  BY <1>7, <2>4 DEF i, j
<1>. QED  BY <1>1, <1>6, <1>7, <1>8, <1>9, <1>10

-----------------------------------------------------------------------------
\* The folds of Transcription.

Region == [start : Nat, end : Nat]
NonEmptyStep(out, r) == IF r.end > r.start THEN Append(out, r) ELSE out

\* The loop of detect_speech.
LEMMA NonEmptySteps ==
  ASSUME NEW rs \in Seq(Region)
  PROVE  \E h : /\ h \in [0 .. Len(rs) -> Seq(Region)] /\ h[0] = <<>>
                /\ \A k \in 1 .. Len(rs) :
                     /\ h[k - 1] \in Seq(Region)
                     /\ h[k] = NonEmptyStep(h[k - 1], rs[k])
                /\ NonEmpty(rs) = h[Len(rs)]
<1>. DEFINE xs == rs
            n == Len(xs)
            S == Seq(Region)
            b == <<>>
            F == [k \in 1 .. n |-> [x \in S |-> NonEmptyStep(x, xs[k])]]
            Def(g) == [T \in SUBSET (1 .. n) |->
                         IF T = {} THEN b ELSE NonEmptyStep(g[T \ {Max(T)}], xs[Max(T)])]
            it == CHOOSE g : g = Def(g)
<1>1. n \in Nat /\ DOMAIN xs = 1 .. n /\ b \in S
  OBVIOUS
<1>2. \A k \in 1 .. n, x \in S : NonEmptyStep(x, xs[k]) \in S
  BY DEF NonEmptyStep
<1>3. F \in [1 .. n -> [S -> S]]
  BY <1>2
<1>4. NonEmpty(rs) = it[1 .. n]
  BY <1>1 DEF NonEmpty, NonEmptyStep, FoldLeft, MapThenFoldSet
<1>5. \E g : g = Def(g)
  <2>1. PICK g \in [SUBSET (1 .. n) -> S] : FoldEquation(g, n, b, F)
    <3>. HIDE DEF F, n, S, b
    <3>. QED  BY <1>1, <1>3, FoldExists
  <2>2. \A T \in SUBSET (1 .. n) : T # {} =>
          F[Max(T)][g[T \ {Max(T)}]] = NonEmptyStep(g[T \ {Max(T)}], xs[Max(T)])
    <3>. HIDE DEF n, S, b
    <3>. QED  BY <1>1, MaxOfPart
  <2>. QED  BY <2>1, <2>2 DEF FoldEquation
<1>6. it = Def(it)
  BY <1>5
<1>. HIDE DEF it
<1>7. Folds(it, n, S, b, F)
  BY <1>1, <1>6, MaxOfPart DEF Folds
<1>8. PICK h : Steps(h, n, S, b, F) /\ it[1 .. n] = h[n]
  <2>. HIDE DEF F, n, S, b, Def
  <2>1. \A G \in [1 .. n -> [S -> S]] : \A g : Folds(g, n, S, b, G) =>
           \E h : Steps(h, n, S, b, G) /\ g[1 .. n] = h[n]
    BY <1>1, FoldSteps
  <2>. QED  BY <1>3, <1>7, <2>1
<1>9. \A k \in 1 .. n : h[k - 1] \in S /\ h[k] = NonEmptyStep(h[k - 1], xs[k])
  BY <1>8 DEF Steps
<1>. QED  BY <1>1, <1>4, <1>8, <1>9 DEF Steps

MergeStep(out, r) ==
  IF out # <<>> /\ r.start <= Last(out).end + GapMs
  THEN [out EXCEPT ![Len(out)].end = Max({@, r.end})]
  ELSE Append(out, r)

LEMMA MergeStepType ==
  ASSUME NEW out \in Seq(Region), NEW r \in Region
  PROVE  MergeStep(out, r) \in Seq(Region)
<1>1. CASE out # <<>> /\ r.start <= Last(out).end + GapMs
  <2>1. Len(out) \in 1 .. Len(out) /\ out[Len(out)] \in Region
    BY <1>1
  <2>2. Max({out[Len(out)].end, r.end}) \in Nat
    BY <2>1, MaxOfTwo DEF Region
  <2>3. [out[Len(out)] EXCEPT !.end = Max({out[Len(out)].end, r.end})] \in Region
    BY <2>1, <2>2 DEF Region
  <2>. QED  BY <1>1, <2>1, <2>3 DEF MergeStep
<1>2. CASE ~(out # <<>> /\ r.start <= Last(out).end + GapMs)
  BY <1>2 DEF MergeStep
<1>. QED  BY <1>1, <1>2

\* The loop of merge_adjacent_regions.
LEMMA MergeSteps ==
  ASSUME NEW rs \in Seq(Region)
  PROVE  \E h : /\ h \in [0 .. Len(SortByStart(rs)) -> Seq(Region)] /\ h[0] = <<>>
                /\ \A k \in 1 .. Len(SortByStart(rs)) :
                     /\ h[k - 1] \in Seq(Region)
                     /\ h[k] = MergeStep(h[k - 1], SortByStart(rs)[k])
                /\ merge_adjacent_regions(rs) = h[Len(SortByStart(rs))]
<1>. DEFINE xs == SortByStart(rs)
            n == Len(xs)
            S == Seq(Region)
            b == <<>>
            F == [k \in 1 .. n |-> [x \in S |-> MergeStep(x, xs[k])]]
            Def(g) == [T \in SUBSET (1 .. n) |->
                         IF T = {} THEN b ELSE MergeStep(g[T \ {Max(T)}], xs[Max(T)])]
            it == CHOOSE g : g = Def(g)
<1>0. xs \in Seq(Region)
  <2>1. \A i \in DOMAIN rs : rs[i] \in Region
    OBVIOUS
  <2>2. \A r \in Region : r.start \in Nat
    BY DEF Region
  <2>3. \A i \in DOMAIN rs : rs[i].start \in Nat
    BY <2>1, <2>2
  <2>. QED  BY <2>3, Sorted
<1>1. n \in Nat /\ DOMAIN xs = 1 .. n /\ b \in S
  BY <1>0
<1>2. \A k \in 1 .. n, x \in S : MergeStep(x, xs[k]) \in S
  BY <1>0, <1>1, MergeStepType
<1>3. F \in [1 .. n -> [S -> S]]
  BY <1>2
<1>4. merge_adjacent_regions(rs) = it[1 .. n]
  BY <1>1 DEF merge_adjacent_regions, MergeStep, FoldLeft, MapThenFoldSet
<1>5. \E g : g = Def(g)
  <2>1. PICK g \in [SUBSET (1 .. n) -> S] : FoldEquation(g, n, b, F)
    <3>. HIDE DEF F, n, S, b
    <3>. QED  BY <1>1, <1>3, FoldExists
  <2>2. \A T \in SUBSET (1 .. n) : T # {} =>
          F[Max(T)][g[T \ {Max(T)}]] = MergeStep(g[T \ {Max(T)}], xs[Max(T)])
    <3>. HIDE DEF n, S, b
    <3>. QED  BY <1>1, MaxOfPart
  <2>. QED  BY <2>1, <2>2 DEF FoldEquation
<1>6. it = Def(it)
  BY <1>5
<1>. HIDE DEF it
<1>7. Folds(it, n, S, b, F)
  BY <1>1, <1>6, MaxOfPart DEF Folds
<1>8. PICK h : Steps(h, n, S, b, F) /\ it[1 .. n] = h[n]
  <2>. HIDE DEF F, n, S, b, Def, xs
  <2>1. \A G \in [1 .. n -> [S -> S]] : \A g : Folds(g, n, S, b, G) =>
           \E h : Steps(h, n, S, b, G) /\ g[1 .. n] = h[n]
    BY <1>1, FoldSteps
  <2>. QED  BY <1>3, <1>7, <2>1
<1>9. \A k \in 1 .. n : h[k - 1] \in S /\ h[k] = MergeStep(h[k - 1], xs[k])
  BY <1>8 DEF Steps
<1>. QED  BY <1>1, <1>4, <1>8, <1>9 DEF Steps

Turn == [start : Nat, end : Nat, speaker : Nat]

RunStep(out, t) ==
  IF out # <<>> /\ Last(out).speaker = t.speaker
  THEN [out EXCEPT ![Len(out)].end = Max({@, t.end})]
  ELSE Append(out, t)

LEMMA RunStepType ==
  ASSUME NEW out \in Seq(Turn), NEW t \in Turn
  PROVE  RunStep(out, t) \in Seq(Turn)
<1>1. CASE out # <<>> /\ Last(out).speaker = t.speaker
  <2>1. Len(out) \in 1 .. Len(out) /\ out[Len(out)] \in Turn
    BY <1>1
  <2>2. Max({out[Len(out)].end, t.end}) \in Nat
    BY <2>1, MaxOfTwo DEF Turn
  <2>3. [out[Len(out)] EXCEPT !.end = Max({out[Len(out)].end, t.end})] \in Turn
    BY <2>1, <2>2 DEF Turn
  <2>. QED  BY <1>1, <2>1, <2>3 DEF RunStep
<1>2. CASE ~(out # <<>> /\ Last(out).speaker = t.speaker)
  BY <1>2 DEF RunStep
<1>. QED  BY <1>1, <1>2

\* The runs of one speaker.
LEMMA RunSteps ==
  ASSUME NEW ts \in Seq(Turn)
  PROVE  \E h : /\ h \in [0 .. Len(ts) -> Seq(Turn)] /\ h[0] = <<>>
                /\ \A k \in 1 .. Len(ts) : h[k - 1] \in Seq(Turn) /\ h[k] = RunStep(h[k - 1], ts[k])
                /\ MergedRuns(ts) = h[Len(ts)]
<1>. DEFINE xs == ts
            n == Len(xs)
            S == Seq(Turn)
            b == <<>>
            F == [k \in 1 .. n |-> [x \in S |-> RunStep(x, xs[k])]]
            Def(g) == [T \in SUBSET (1 .. n) |->
                         IF T = {} THEN b ELSE RunStep(g[T \ {Max(T)}], xs[Max(T)])]
            it == CHOOSE g : g = Def(g)
<1>1. n \in Nat /\ DOMAIN xs = 1 .. n /\ b \in S
  OBVIOUS
<1>2. \A k \in 1 .. n, x \in S : RunStep(x, xs[k]) \in S
  BY <1>1, RunStepType
<1>3. F \in [1 .. n -> [S -> S]]
  BY <1>2
<1>4. MergedRuns(ts) = it[1 .. n]
  BY <1>1 DEF MergedRuns, RunStep, FoldLeft, MapThenFoldSet
<1>5. \E g : g = Def(g)
  <2>1. PICK g \in [SUBSET (1 .. n) -> S] : FoldEquation(g, n, b, F)
    <3>. HIDE DEF F, n, S, b
    <3>. QED  BY <1>1, <1>3, FoldExists
  <2>2. \A T \in SUBSET (1 .. n) : T # {} =>
          F[Max(T)][g[T \ {Max(T)}]] = RunStep(g[T \ {Max(T)}], xs[Max(T)])
    <3>. HIDE DEF n, S, b
    <3>. QED  BY <1>1, MaxOfPart
  <2>. QED  BY <2>1, <2>2 DEF FoldEquation
<1>6. it = Def(it)
  BY <1>5
<1>. HIDE DEF it
<1>7. Folds(it, n, S, b, F)
  BY <1>1, <1>6, MaxOfPart DEF Folds
<1>8. PICK h : Steps(h, n, S, b, F) /\ it[1 .. n] = h[n]
  <2>. HIDE DEF F, n, S, b, Def
  <2>1. \A G \in [1 .. n -> [S -> S]] : \A g : Folds(g, n, S, b, G) =>
           \E h : Steps(h, n, S, b, G) /\ g[1 .. n] = h[n]
    BY <1>1, FoldSteps
  <2>. QED  BY <1>3, <1>7, <2>1
<1>9. \A k \in 1 .. n : h[k - 1] \in S /\ h[k] = RunStep(h[k - 1], xs[k])
  BY <1>8 DEF Steps
<1>. QED  BY <1>1, <1>4, <1>8, <1>9 DEF Steps

ClampStep(out, t) ==
  LET s == IF out = <<>> THEN t.start ELSE Max({t.start, Last(out).end})
  IN  Append(out, [t EXCEPT !.start = s, !.end = Max({@, s})])

LEMMA ClampStepType ==
  ASSUME NEW out \in Seq(Turn), NEW t \in Turn
  PROVE  ClampStep(out, t) \in Seq(Turn)
<1>. DEFINE s == IF out = <<>> THEN t.start ELSE Max({t.start, Last(out).end})
<1>1. s \in Nat
  <2>1. CASE out = <<>>
    BY <2>1 DEF Turn
  <2>2. CASE out # <<>>
    <3>1. Last(out) \in Turn
      BY <2>2 DEF Last
    <3>2. Last(out).end \in Nat /\ t.start \in Nat
      BY <3>1 DEF Turn
    <3>. QED  BY <2>2, <3>2, MaxOfTwo
  <2>. QED  BY <2>1, <2>2
<1>2. Max({t.end, s}) \in Nat
  BY <1>1, MaxOfTwo DEF Turn
<1>. HIDE DEF s
<1>3. [t EXCEPT !.start = s, !.end = Max({t.end, s})] \in Turn
  BY <1>1, <1>2 DEF Turn
<1>. QED  BY <1>3 DEF ClampStep, s

\* The clamp at the end of diarize.
LEMMA ClampSteps ==
  ASSUME NEW ts \in Seq(Turn)
  PROVE  \E h : /\ h \in [0 .. Len(ts) -> Seq(Turn)] /\ h[0] = <<>>
                /\ \A k \in 1 .. Len(ts) :
                     /\ h[k - 1] \in Seq(Turn)
                     /\ h[k] = ClampStep(h[k - 1], ts[k])
                /\ Clamped(ts) = h[Len(ts)]
<1>. DEFINE xs == ts
            n == Len(xs)
            S == Seq(Turn)
            b == <<>>
            F == [k \in 1 .. n |-> [x \in S |-> ClampStep(x, xs[k])]]
            Def(g) == [T \in SUBSET (1 .. n) |->
                         IF T = {} THEN b ELSE ClampStep(g[T \ {Max(T)}], xs[Max(T)])]
            it == CHOOSE g : g = Def(g)
<1>1. n \in Nat /\ DOMAIN xs = 1 .. n /\ b \in S
  OBVIOUS
<1>2. \A k \in 1 .. n, x \in S : ClampStep(x, xs[k]) \in S
  BY <1>1, ClampStepType
<1>3. F \in [1 .. n -> [S -> S]]
  BY <1>2
<1>4. Clamped(ts) = it[1 .. n]
  BY <1>1 DEF Clamped, ClampStep, FoldLeft, MapThenFoldSet
<1>5. \E g : g = Def(g)
  <2>1. PICK g \in [SUBSET (1 .. n) -> S] : FoldEquation(g, n, b, F)
    <3>. HIDE DEF F, n, S, b
    <3>. QED  BY <1>1, <1>3, FoldExists
  <2>2. \A T \in SUBSET (1 .. n) : T # {} =>
          F[Max(T)][g[T \ {Max(T)}]] = ClampStep(g[T \ {Max(T)}], xs[Max(T)])
    <3>. HIDE DEF n, S, b
    <3>. QED  BY <1>1, MaxOfPart
  <2>. QED  BY <2>1, <2>2 DEF FoldEquation
<1>6. it = Def(it)
  BY <1>5
<1>. HIDE DEF it
<1>7. Folds(it, n, S, b, F)
  BY <1>1, <1>6, MaxOfPart DEF Folds
<1>8. PICK h : Steps(h, n, S, b, F) /\ it[1 .. n] = h[n]
  <2>. HIDE DEF F, n, S, b, Def
  <2>1. \A G \in [1 .. n -> [S -> S]] : \A g : Folds(g, n, S, b, G) =>
           \E h : Steps(h, n, S, b, G) /\ g[1 .. n] = h[n]
    BY <1>1, FoldSteps
  <2>. QED  BY <1>3, <1>7, <2>1
<1>9. \A k \in 1 .. n : h[k - 1] \in S /\ h[k] = ClampStep(h[k - 1], xs[k])
  BY <1>8 DEF Steps
<1>. QED  BY <1>1, <1>4, <1>8, <1>9 DEF Steps

-----------------------------------------------------------------------------
\* Regions and turns.

\* No region is empty and each ends before the next one starts.
InOrder(rs) ==
  /\ \A i \in DOMAIN rs : rs[i].start < rs[i].end
  /\ \A i, j \in DOMAIN rs : i < j => rs[i].end <= rs[j].start

Covers(rs, x) == \E i \in DOMAIN rs : x \in Instants(rs[i])

LEMMA RegionFields == \A r \in Region : r.start \in Nat /\ r.end \in Nat
BY DEF Region

LEMMA SpeechKept ==
  ASSUME NEW raw \in Seq(Region)
  PROVE  LET out == detect_speech(raw)
         IN  /\ out \in Seq(Region)
             /\ \A i \in DOMAIN out : out[i].start < out[i].end
             /\ \A i \in DOMAIN raw : raw[i].start < raw[i].end =>
                   \E j \in DOMAIN out : out[j] = raw[i]
<1>. DEFINE n == Len(raw)
<1>1. PICK h : /\ h \in [0 .. n -> Seq(Region)] /\ h[0] = <<>>
               /\ \A k \in 1 .. n :
                    /\ h[k - 1] \in Seq(Region)
                    /\ h[k] = NonEmptyStep(h[k - 1], raw[k])
               /\ NonEmpty(raw) = h[n]
  BY NonEmptySteps
<1>. DEFINE Good(k) == /\ h[k] \in Seq(Region)
                       /\ \A i \in DOMAIN h[k] : h[k][i].start < h[k][i].end
                       /\ \A i \in 1 .. k : raw[i].start < raw[i].end =>
                             \E j \in DOMAIN h[k] : h[k][j] = raw[i]
            All == {k \in 0 .. n : Good(k)}
<1>2. n \in Nat /\ DOMAIN raw = 1 .. n /\ \A k \in 1 .. n : raw[k] \in Region
  OBVIOUS
<1>3. Good(0)
  BY <1>1
<1>4. ASSUME NEW k \in 0 .. n - 1, Good(k) PROVE Good(k + 1)
  <2>. DEFINE r == raw[k + 1]
  <2>1. k + 1 \in 1 .. n /\ (k + 1) - 1 = k /\ r \in Region
    BY <1>2
  <2>2. h[k + 1] = NonEmptyStep(h[k], r)
    BY <1>1, <2>1
  <2>3. r.start \in Nat /\ r.end \in Nat
    BY <2>1 DEF Region
  <2>4. CASE r.end > r.start
    <3>1. h[k + 1] = Append(h[k], r)
      BY <2>2, <2>4 DEF NonEmptyStep
    <3>2. /\ h[k + 1] \in Seq(Region) /\ Len(h[k + 1]) = Len(h[k]) + 1
          /\ \A i \in 1 .. Len(h[k]) : h[k + 1][i] = h[k][i]
          /\ h[k + 1][Len(h[k]) + 1] = r
      BY <1>4, <2>1, <3>1, AppendProperties
    <3>3. DOMAIN h[k + 1] = 1 .. Len(h[k]) + 1 /\ DOMAIN h[k] = 1 .. Len(h[k])
      BY <1>4, <3>2
    <3>4. \A i \in DOMAIN h[k + 1] : h[k + 1][i].start < h[k + 1][i].end
      <4>1. \A i \in 1 .. Len(h[k]) : h[k + 1][i].start < h[k + 1][i].end
        BY <1>4, <3>2, <3>3
      <4>2. Len(h[k]) \in Nat /\ h[k + 1][Len(h[k]) + 1].start < h[k + 1][Len(h[k]) + 1].end
        BY <1>4, <2>3, <2>4, <3>2
      <4>3. \A i \in 1 .. Len(h[k]) + 1 : i \in 1 .. Len(h[k]) \/ i = Len(h[k]) + 1
        BY <4>2
      <4>. QED  BY <3>3, <4>1, <4>2, <4>3
    <3>5. ASSUME NEW i \in 1 .. k + 1, raw[i].start < raw[i].end
          PROVE  \E j \in DOMAIN h[k + 1] : h[k + 1][j] = raw[i]
      <4>1. CASE i \in 1 .. k
        <5>1. PICK j \in 1 .. Len(h[k]) : h[k][j] = raw[i]
          BY <1>4, <3>3, <3>5, <4>1
        <5>. QED  BY <3>2, <3>3, <5>1
      <4>2. CASE i = k + 1
        BY <3>2, <3>3, <4>2
      <4>. QED  BY <4>1, <4>2
    <3>. QED  BY <3>2, <3>4, <3>5
  <2>5. CASE ~(r.end > r.start)
    <3>1. h[k + 1] = h[k]
      BY <2>2, <2>5 DEF NonEmptyStep
    <3>. QED  BY <1>4, <2>1, <2>3, <2>5, <3>1
  <2>. QED  BY <2>4, <2>5
<1>5. \A k \in 0 .. n : k \in All
  <2>1. 0 \in All /\ \A k \in 0 .. n - 1 : k \in All => k + 1 \in All
    BY <1>2, <1>3, <1>4
  <2>. HIDE DEF All
  <2>. QED  BY <1>2, <2>1, InductionUpTo
<1>6. Good(n)
  BY <1>2, <1>5
<1>7. \A r \in Region : r.start \in Nat
  BY DEF Region
<1>. DEFINE s == h[n]
<1>8. \A i \in DOMAIN s : s[i].start \in Nat
  BY <1>6, <1>7
<1>9. detect_speech(raw) = SortByStart(s)
  BY <1>1 DEF detect_speech
<1>10. /\ SortByStart(s) \in Seq(Region)
       /\ \A k \in DOMAIN SortByStart(s) : \E i \in DOMAIN s : SortByStart(s)[k] = s[i]
       /\ \A i \in DOMAIN s : \E k \in DOMAIN SortByStart(s) : SortByStart(s)[k] = s[i]
  BY <1>6, <1>8, Sorted
<1>11. /\ \A i \in DOMAIN s : s[i].start < s[i].end
       /\ \A i \in DOMAIN raw : raw[i].start < raw[i].end => \E j \in DOMAIN s : s[j] = raw[i]
  BY <1>2, <1>6
<1>. HIDE DEF s
<1>12. \A k \in DOMAIN SortByStart(s) : SortByStart(s)[k].start < SortByStart(s)[k].end
  BY <1>10, <1>11
<1>. QED  BY <1>9, <1>10, <1>11, <1>12

LEMMA MergeStepKeeps ==
  ASSUME NEW out \in Seq(Region), NEW r \in Region, r.start < r.end, InOrder(out),
         out # <<>> => Last(out).start <= r.start
  PROVE  LET new == MergeStep(out, r)
         IN  /\ new \in Seq(Region) /\ InOrder(new)
             /\ new # <<>> /\ Last(new).start <= r.start
             /\ \A x \in Nat : Covers(out, x) \/ x \in Instants(r) => Covers(new, x)
<1>. DEFINE new == MergeStep(out, r)
            n == Len(out)
<1>1. n \in Nat /\ DOMAIN out = 1 .. n /\ r.start \in Nat /\ r.end \in Nat
  BY RegionFields
<1>2. \A i \in 1 .. n : out[i] \in Region /\ out[i].start \in Nat /\ out[i].end \in Nat
  BY <1>1, RegionFields
<1>0. /\ \A i \in 1 .. n : out[i].start < out[i].end
      /\ \A i, j \in 1 .. n : i < j => out[i].end <= out[j].start
  BY <1>1 DEF InOrder
<1>3. CASE out # <<>> /\ r.start <= Last(out).end + GapMs
  <2>. DEFINE e == Max({out[n].end, r.end})
              l == [out[n] EXCEPT !.end = e]
  <2>1. n \in 1 .. n /\ Last(out) = out[n] /\ n \in Nat
    BY <1>1, <1>3 DEF Last
  <2>2. e \in Nat /\ e >= out[n].end /\ e >= r.end /\ (e = out[n].end \/ e = r.end)
    BY <1>1, <1>2, <2>1, MaxOfTwo
  <2>3. l \in Region /\ l.start = out[n].start /\ l.end = e
    BY <1>2, <2>1, <2>2 DEF Region
  <2>4. new = [out EXCEPT ![n] = l]
    BY <1>3, <2>1 DEF MergeStep
  <2>. HIDE DEF e, l, new
  <2>5. new \in Seq(Region) /\ Len(new) = n /\ \A i \in 1 .. n : new[i] = IF i = n THEN l ELSE out[i]
    BY <2>1, <2>3, <2>4, ExceptSeq
  <2>. HIDE DEF n
  <2>6. DOMAIN new = 1 .. n /\ new # <<>> /\ Last(new) = l
    <3>1. DOMAIN new = 1 .. n
      BY <2>5
    <3>2. new # <<>>
      BY <2>1, <2>5, EmptySeq
    <3>. QED  BY <2>1, <2>5, <3>1, <3>2 DEF Last
  <2>10. \A i \in 1 .. n :
           /\ new[i].start = out[i].start /\ new[i].end \in Nat
           /\ out[i].end <= new[i].end
           /\ i # n => new[i].end = out[i].end
    <3>. SUFFICES ASSUME NEW i \in 1 .. n
                  PROVE  /\ new[i].start = out[i].start /\ new[i].end \in Nat
                         /\ out[i].end <= new[i].end
                         /\ i # n => new[i].end = out[i].end
      OBVIOUS
    <3>1. CASE i = n
      BY <1>2, <2>2, <2>3, <2>5, <3>1
    <3>2. CASE i # n
      <4>1. new[i] = out[i]
        BY <2>5, <3>2
      <4>. QED  BY <1>2, <4>1
    <3>. QED  BY <3>1, <3>2
  <2>7. InOrder(new)
    <3>1. \A i \in 1 .. n : new[i].start < new[i].end
      <4>. SUFFICES ASSUME NEW i \in 1 .. n PROVE new[i].start < new[i].end
        OBVIOUS
      <4>1. /\ new[i].start = out[i].start /\ out[i].end <= new[i].end /\ new[i].end \in Nat
            /\ out[i].start < out[i].end /\ out[i].start \in Nat /\ out[i].end \in Nat
        BY <1>0, <1>2, <2>10
      <4>. QED  BY <4>1
    <3>2. \A i, j \in 1 .. n : i < j => new[i].end <= new[j].start
      <4>. SUFFICES ASSUME NEW i \in 1 .. n, NEW j \in 1 .. n, i < j
                    PROVE  new[i].end <= new[j].start
        OBVIOUS
      <4>1. i # n
        BY <2>1
      <4>2. new[i].end = out[i].end /\ new[j].start = out[j].start /\ out[i].end <= out[j].start
        BY <1>0, <2>10, <4>1
      <4>. QED  BY <4>2
    <3>. QED  BY <2>6, <3>1, <3>2 DEF InOrder
  <2>8. Last(new).start <= r.start
    BY <1>3, <2>1, <2>3, <2>6
  <2>9. ASSUME NEW x \in Nat, Covers(out, x) \/ x \in Instants(r) PROVE Covers(new, x)
    <3>1. CASE x \in Instants(r)
      <4>1. r.start <= x /\ x < r.end
        BY <1>1, <3>1 DEF Instants
      <4>2. CASE out[n].start <= x
        <5>1. new[n].start <= x /\ x < new[n].end /\ new[n].end \in Nat
          BY <1>1, <2>1, <2>2, <2>3, <2>5, <2>10, <4>1, <4>2
        <5>. QED  BY <1>2, <2>1, <2>6, <2>10, <5>1 DEF Covers, Instants
      <4>3. out[n].start <= r.start
        BY <1>3, <2>1
      <4>. QED  BY <1>1, <1>2, <2>1, <4>1, <4>2, <4>3
    <3>2. CASE Covers(out, x)
      <4>1. PICK i \in 1 .. n : out[i].start <= x /\ x < out[i].end
        BY <1>1, <1>2, <3>2 DEF Covers, Instants
      <4>2. new[i].start <= x /\ x < new[i].end /\ new[i].end \in Nat
        <5>1. /\ new[i].start = out[i].start /\ out[i].end <= new[i].end /\ new[i].end \in Nat
              /\ out[i].start \in Nat /\ out[i].end \in Nat
          BY <1>2, <2>10
        <5>. QED  BY <4>1, <5>1
      <4>3. new[i].start \in Nat /\ i \in DOMAIN new
        BY <1>2, <2>6, <2>10
      <4>4. x \in Instants(new[i])
        BY <4>2, <4>3 DEF Instants
      <4>. QED  BY <4>3, <4>4 DEF Covers
    <3>. QED  BY <2>9, <3>1, <3>2
  <2>. QED  BY <2>5, <2>6, <2>7, <2>8, <2>9 DEF new
<1>4. CASE ~(out # <<>> /\ r.start <= Last(out).end + GapMs)
  <2>1. new = Append(out, r)
    BY <1>4 DEF MergeStep
  <2>. HIDE DEF new
  <2>2. /\ new \in Seq(Region) /\ new # <<>> /\ Len(new) = n + 1
        /\ \A i \in 1 .. n : new[i] = out[i]
        /\ new[n + 1] = r
    BY <2>1, AppendProperties
  <2>3. DOMAIN new = 1 .. n + 1 /\ Last(new) = r
    BY <1>1, <2>2 DEF Last
  <2>4. \A i \in 1 .. n : out[i].end <= r.start
    <3>. SUFFICES ASSUME NEW i \in 1 .. n PROVE out[i].end <= r.start
      OBVIOUS
    <3>1. out # <<>> /\ Last(out) = out[n] /\ n \in 1 .. n
      BY <1>1 DEF Last
    <3>2. GapMs \in Nat
      BY BoundsArePositive
    <3>3. out[n].end <= r.start
      BY <1>1, <1>2, <1>4, <3>1, <3>2
    <3>4. i < n => out[i].end <= out[n].start /\ out[n].start < out[n].end
      BY <1>1, <3>1 DEF InOrder
    <3>. QED  BY <1>1, <1>2, <3>1, <3>3, <3>4
  <2>5. InOrder(new)
    <3>1. \A i \in 1 .. n + 1 : new[i].start < new[i].end
      BY <1>1, <2>2 DEF InOrder
    <3>2. \A i, j \in 1 .. n + 1 : i < j => new[i].end <= new[j].start
      BY <1>1, <2>2, <2>4 DEF InOrder
    <3>. QED  BY <2>3, <3>1, <3>2 DEF InOrder
  <2>6. \A x \in Nat : Covers(out, x) \/ x \in Instants(r) => Covers(new, x)
    BY <1>1, <2>2, <2>3 DEF Covers
  <2>. QED  BY <1>1, <2>2, <2>3, <2>5, <2>6 DEF new
<1>. QED  BY <1>3, <1>4

\* merge_adjacent_regions leaves disjoint regions, in order, that hold all the speech.
LEMMA MergeKeepsSpeech ==
  ASSUME NEW rs \in Seq(Region), \A i \in DOMAIN rs : rs[i].start < rs[i].end
  PROVE  LET out == merge_adjacent_regions(rs)
         IN  /\ out \in Seq(Region) /\ InOrder(out)
             /\ \A x \in Nat : Covers(rs, x) => Covers(out, x)
<1>. DEFINE ss == SortByStart(rs)
            n == Len(ss)
<1>1. PICK h : /\ h \in [0 .. n -> Seq(Region)] /\ h[0] = <<>>
               /\ \A k \in 1 .. n : h[k - 1] \in Seq(Region) /\ h[k] = MergeStep(h[k - 1], ss[k])
               /\ merge_adjacent_regions(rs) = h[n]
  BY MergeSteps
<1>2. /\ ss \in Seq(Region)
      /\ \A k \in DOMAIN ss : \E i \in DOMAIN rs : ss[k] = rs[i]
      /\ \A i \in DOMAIN rs : \E k \in DOMAIN ss : ss[k] = rs[i]
      /\ \A k, l \in DOMAIN ss : k < l => ss[k].start <= ss[l].start
  <2>1. \A i \in DOMAIN rs : rs[i].start \in Nat
    BY RegionFields
  <2>. HIDE DEF ss
  <2>. QED  BY <2>1, Sorted DEF ss
<1>. HIDE DEF ss
<1>3. n \in Nat /\ DOMAIN ss = 1 .. n /\ \A k \in 1 .. n : ss[k] \in Region /\ ss[k].start < ss[k].end
  BY <1>2
<1>. DEFINE Good(k) == /\ h[k] \in Seq(Region) /\ InOrder(h[k])
                       /\ h[k] # <<>> /\ k < n => Last(h[k]).start <= ss[k + 1].start
                       /\ \A i \in 1 .. k, x \in Nat : x \in Instants(ss[i]) => Covers(h[k], x)
            All == {k \in 0 .. n : Good(k)}
<1>4. Good(0)
  BY <1>1 DEF InOrder
<1>5. ASSUME NEW k \in 0 .. n - 1, Good(k) PROVE Good(k + 1)
  <2>. DEFINE r == ss[k + 1]
              new == h[k + 1]
  <2>. HIDE DEF n
  <2>1. k + 1 \in 1 .. n /\ (k + 1) - 1 = k /\ k < n
    BY <1>3
  <2>2. r \in Region /\ r.start < r.end /\ new = MergeStep(h[k], r)
    BY <1>1, <1>3, <2>1
  <2>3. /\ h[k] \in Seq(Region) /\ InOrder(h[k])
        /\ h[k] # <<>> => Last(h[k]).start <= r.start
    BY <1>5, <2>1
  <2>. HIDE DEF r, new
  <2>4. /\ new \in Seq(Region) /\ InOrder(new)
        /\ new # <<>> /\ Last(new).start <= r.start
        /\ \A x \in Nat : Covers(h[k], x) \/ x \in Instants(r) => Covers(new, x)
    BY <2>2, <2>3, MergeStepKeeps
  <2>5. k + 1 < n => Last(new).start <= ss[(k + 1) + 1].start
    <3>. SUFFICES ASSUME k + 1 < n PROVE Last(new).start <= ss[(k + 1) + 1].start
      OBVIOUS
    <3>1. (k + 1) + 1 \in 1 .. n
      BY <1>3, <2>1
    <3>2. r.start <= ss[(k + 1) + 1].start
      BY <1>2, <1>3, <2>1, <3>1 DEF r
    <3>3. r.start \in Nat /\ ss[(k + 1) + 1].start \in Nat /\ Last(new).start \in Nat
      <4>1. Last(new) \in Region
        BY <2>4 DEF Last
      <4>. QED  BY <1>3, <2>2, <3>1, <4>1, RegionFields
    <3>. QED  BY <2>4, <3>2, <3>3
  <2>6. ASSUME NEW i \in 1 .. k + 1, NEW x \in Nat, x \in Instants(ss[i]) PROVE Covers(new, x)
    <3>1. CASE i \in 1 .. k
      <4>1. Covers(h[k], x)
        BY <1>5, <2>6, <3>1
      <4>. QED  BY <2>4, <4>1
    <3>2. CASE i = k + 1
      BY <2>4, <2>6, <3>2 DEF r
    <3>. QED  BY <3>1, <3>2
  <2>. QED  BY <2>4, <2>5, <2>6 DEF new
<1>6. \A k \in 0 .. n : k \in All
  <2>1. 0 \in All /\ \A k \in 0 .. n - 1 : k \in All => k + 1 \in All
    BY <1>3, <1>4, <1>5
  <2>. HIDE DEF All, n
  <2>. QED  BY <1>3, <2>1, InductionUpTo
<1>7. Good(n)
  BY <1>3, <1>6
<1>8. ASSUME NEW x \in Nat, Covers(rs, x) PROVE Covers(h[n], x)
  <2>1. PICK i \in DOMAIN rs : x \in Instants(rs[i])
    BY <1>8 DEF Covers
  <2>2. PICK k \in 1 .. n : ss[k] = rs[i]
    BY <1>2, <1>3
  <2>. QED  BY <1>7, <2>1, <2>2
<1>. QED  BY <1>1, <1>7, <1>8

\* What LoadTrack keeps of the VAD's answer.
LEMMA LoadedRegions ==
  ASSUME NEW raw \in Seq(Region)
  PROVE  LET out == merge_adjacent_regions(detect_speech(raw))
         IN  /\ out \in Seq(Region) /\ InOrder(out)
             /\ \A x \in Nat : Covers(raw, x) => Covers(out, x)
<1>. DEFINE s == detect_speech(raw)
<1>1. /\ s \in Seq(Region)
      /\ \A i \in DOMAIN s : s[i].start < s[i].end
      /\ \A i \in DOMAIN raw : raw[i].start < raw[i].end => \E j \in DOMAIN s : s[j] = raw[i]
  BY SpeechKept
<1>. HIDE DEF s
<1>2. /\ merge_adjacent_regions(s) \in Seq(Region) /\ InOrder(merge_adjacent_regions(s))
      /\ \A x \in Nat : Covers(s, x) => Covers(merge_adjacent_regions(s), x)
  BY <1>1, MergeKeepsSpeech
<1>3. ASSUME NEW x \in Nat, Covers(raw, x) PROVE Covers(s, x)
  <2>1. PICK i \in DOMAIN raw : x \in Instants(raw[i])
    BY <1>3 DEF Covers
  <2>2. raw[i].start \in Nat /\ raw[i].end \in Nat
    BY RegionFields
  <2>3. raw[i].start < raw[i].end
    BY <2>1, <2>2 DEF Instants
  <2>. QED  BY <1>1, <2>1, <2>3 DEF Covers
<1>. QED  BY <1>2, <1>3 DEF s

\* Relabelling, joining runs, renumbering and clamping give turns again.
LEMMA RelabelledType ==
  ASSUME NEW ts \in Seq(Turn), Majors(ts) # {}
  PROVE  Relabelled(ts) \in Seq(Turn)
<1>. DEFINE n == Len(ts)
            major == {i \in DOMAIN ts : ts[i].speaker \in Majors(ts)}
            before(i) == {j \in major : j <= i}
            target(i) == IF before(i) # {} THEN Max(before(i)) ELSE Min(major)
<1>1. n \in Nat /\ DOMAIN ts = 1 .. n /\ \A i \in 1 .. n : ts[i] \in Turn
  OBVIOUS
<1>2. major \subseteq 1 .. n /\ major # {}
  BY <1>1 DEF Majors, SpeakersOf
<1>. HIDE DEF major
<1>3. ASSUME NEW i \in 1 .. n PROVE target(i) \in 1 .. n
  <2>1. CASE before(i) # {}
    <3>. HIDE DEF n
    <3>0. before(i) \subseteq major
      OBVIOUS
    <3>1. before(i) \in SUBSET (0 .. n)
      <4>1. \A j \in 1 .. n : j \in 0 .. n
        BY <1>1
      <4>. QED  BY <1>2, <3>0, <4>1
    <3>2. Max(before(i)) \in before(i)
      BY <1>1, <2>1, <3>1, MaxUpTo
    <3>. QED  BY <1>2, <2>1, <3>2
  <2>2. CASE before(i) = {}
    <3>1. Min(major) \in major
      <4>1. major \subseteq Nat
        BY <1>2
      <4>. QED  BY <1>2, <4>1, MinOfNaturals
    <3>. QED  BY <1>2, <2>2, <3>1
  <2>. QED  BY <2>1, <2>2
<1>4. Relabelled(ts) = [i \in 1 .. n |-> [ts[i] EXCEPT !.speaker = ts[target(i)].speaker]]
  BY <1>1 DEF Relabelled, major
<1>. HIDE DEF target
<1>. DEFINE new == [i \in 1 .. n |-> [ts[i] EXCEPT !.speaker = ts[target(i)].speaker]]
<1>5. \A i \in 1 .. n : new[i] \in Turn
  BY <1>1, <1>3 DEF Turn
<1>6. new \in [1 .. n -> Turn]
  BY <1>5
<1>. HIDE DEF n, new
<1>7. new \in Seq(Turn)
  BY <1>1, <1>6
<1>. QED  BY <1>4, <1>7 DEF new

LEMMA SpeakersFinite ==
  ASSUME NEW ts \in Seq(Turn)
  PROVE  Cardinality(SpeakersOf(ts)) \in Nat
<1>. DEFINE n == Len(ts)
            f == [i \in 1 .. n |-> ts[i].speaker]
<1>1. n \in Nat /\ DOMAIN ts = 1 .. n
  OBVIOUS
<1>2. f \in Surjection(1 .. n, SpeakersOf(ts))
  BY <1>1 DEF Surjection, SpeakersOf
<1>3. IsFiniteSet(1 .. n)
  BY <1>1, FS_Interval
<1>. HIDE DEF f
<1>4. IsFiniteSet(SpeakersOf(ts))
  BY <1>2, <1>3, FS_Surjection
<1>. QED  BY <1>4, FS_CardinalityType

LEMMA RenumberedType ==
  ASSUME NEW ts \in Seq(Turn)
  PROVE  Renumbered(ts) \in Seq(Turn)
<1>. DEFINE n == Len(ts)
            first(who) == Min({i \in DOMAIN ts : ts[i].speaker = who})
            id(who) == Cardinality(SpeakersOf(SubSeq(ts, 1, first(who) - 1)))
<1>1. n \in Nat /\ DOMAIN ts = 1 .. n /\ \A i \in 1 .. n : ts[i] \in Turn
  OBVIOUS
<1>2. ASSUME NEW i \in 1 .. n PROVE id(ts[i].speaker) \in Nat
  <2>. DEFINE T == {j \in DOMAIN ts : ts[j].speaker = ts[i].speaker}
              m == Min(T)
  <2>1. T \subseteq 1 .. n /\ T # {}
    BY <1>1, <1>2
  <2>2. m \in 1 .. n
    <3>1. T \subseteq Nat
      BY <2>1
    <3>. HIDE DEF T
    <3>. QED  BY <2>1, <3>1, MinOfNaturals
  <2>. HIDE DEF T, m
  <2>3. SubSeq(ts, 1, m - 1) \in Seq(Turn)
    <3>1. m - 1 \in Int /\ \A j \in 1 .. m - 1 : ts[j] \in Turn
      BY <1>1, <2>2
    <3>. QED  BY <3>1, SubSeqProperties
  <2>4. Cardinality(SpeakersOf(SubSeq(ts, 1, m - 1))) \in Nat
    BY <2>3, SpeakersFinite
  <2>. QED  BY <2>4 DEF T, m
<1>3. Renumbered(ts) = [i \in 1 .. n |-> [ts[i] EXCEPT !.speaker = id(ts[i].speaker)]]
  BY <1>1 DEF Renumbered
<1>. HIDE DEF id
<1>4. \A i \in 1 .. n : [ts[i] EXCEPT !.speaker = id(ts[i].speaker)] \in Turn
  BY <1>1, <1>2 DEF Turn
<1>. QED  BY <1>1, <1>3, <1>4

LEMMA DiarizeType ==
  ASSUME NEW raw \in Seq(Turn)
  PROVE  diarize(raw) \in Seq(Turn)
<1>. DEFINE ts == SortByStart(raw)
            c == collapse_minor_speakers(ts)
<1>1. ts \in Seq(Turn)
  <2>1. \A i \in DOMAIN raw : raw[i] \in Turn
    OBVIOUS
  <2>2. \A i \in DOMAIN raw : raw[i].start \in Nat
    BY <2>1 DEF Turn
  <2>. QED  BY <2>2, Sorted
<1>. HIDE DEF ts
<1>2. c \in Seq(Turn)
  <2>1. CASE Speech(ts) = 0 \/ Majors(ts) \in {{}, SpeakersOf(ts)}
    BY <1>1, <2>1 DEF collapse_minor_speakers
  <2>2. CASE ~(Speech(ts) = 0 \/ Majors(ts) \in {{}, SpeakersOf(ts)})
    <3>1. c = Renumbered(MergedRuns(Relabelled(ts)))
      BY <2>2 DEF collapse_minor_speakers
    <3>2. Relabelled(ts) \in Seq(Turn)
      BY <1>1, <2>2, RelabelledType
    <3>3. MergedRuns(Relabelled(ts)) \in Seq(Turn)
      <4>. DEFINE m == Relabelled(ts)
      <4>. HIDE DEF m
      <4>1. \E h : /\ h \in [0 .. Len(m) -> Seq(Turn)] /\ MergedRuns(m) = h[Len(m)]
        BY <3>2, RunSteps DEF m
      <4>2. Len(m) \in 0 .. Len(m)
        BY <3>2 DEF m
      <4>. QED  BY <4>1, <4>2 DEF m
    <3>. QED  BY <3>1, <3>3, RenumberedType
  <2>. QED  BY <2>1, <2>2
<1>. HIDE DEF c
<1>3. Clamped(c) \in Seq(Turn)
  <2>1. \E h : /\ h \in [0 .. Len(c) -> Seq(Turn)] /\ Clamped(c) = h[Len(c)]
    BY <1>2, ClampSteps
  <2>2. Len(c) \in 0 .. Len(c)
    BY <1>2
  <2>. QED  BY <2>1, <2>2
<1>. QED  BY <1>3 DEF diarize, c, ts

-----------------------------------------------------------------------------
\* Attributing segments to speakers.

Segment == [start : Nat, end : Nat, track : Tracks, speaker : Nat \cup {Nobody}]

LEMMA DominantSpeakerType ==
  ASSUME NEW seg, NEW ts, NEW n \in Nat, DOMAIN ts = 1 .. n
  PROVE  \/ dominant_speaker(seg, ts) = Nobody
         \/ \E i \in 1 .. n : dominant_speaker(seg, ts) = ts[i].speaker
<1>. DEFINE overlap(t) == LET lo == Max({seg.start, t.start})
                              hi == Min({seg.end, t.end})
                          IN  IF hi <= lo THEN 0 ELSE hi - lo
            best == {i \in DOMAIN ts : /\ overlap(ts[i]) > 0
                                       /\ \A j \in DOMAIN ts : overlap(ts[j]) <= overlap(ts[i])}
<1>1. dominant_speaker(seg, ts) = IF best = {} THEN Nobody ELSE ts[Min(best)].speaker
  BY DEF dominant_speaker
<1>2. best \subseteq 1 .. n /\ best \subseteq Nat
  OBVIOUS
<1>. HIDE DEF best
<1>3. best # {} => Min(best) \in 1 .. n
  BY <1>2, MinOfNaturals
<1>. QED  BY <1>1, <1>3

\* The same segments, in the same order, under the speakers of some of the turns.
LEMMA MergedSpeakers ==
  ASSUME NEW ss \in Seq(Segment), NEW ts \in Seq(Turn)
  PROVE  /\ merge_speaker_turns(ss, ts) \in Seq(Segment)
         /\ Len(merge_speaker_turns(ss, ts)) = Len(ss)
         /\ \A i \in DOMAIN ss :
              LET new == merge_speaker_turns(ss, ts)[i]
              IN  /\ new.start = ss[i].start /\ new.end = ss[i].end /\ new.track = ss[i].track
                  /\ \/ new.speaker = Nobody
                     \/ \E j \in DOMAIN ts : new.speaker = ts[j].speaker
<1>. DEFINE n == Len(ss)
            who(i) == dominant_speaker(ss[i], ts)
<1>1. n \in Nat /\ DOMAIN ss = 1 .. n /\ \A i \in 1 .. n : ss[i] \in Segment
  OBVIOUS
<1>2. Len(ts) \in Nat /\ DOMAIN ts = 1 .. Len(ts) /\ \A j \in DOMAIN ts : ts[j] \in Turn
  OBVIOUS
<1>3. \A i \in 1 .. n : who(i) = Nobody \/ \E j \in DOMAIN ts : who(i) = ts[j].speaker
  BY <1>2, DominantSpeakerType
<1>4. merge_speaker_turns(ss, ts) = [i \in 1 .. n |-> [ss[i] EXCEPT !.speaker = who(i)]]
  BY <1>1 DEF merge_speaker_turns
<1>. HIDE DEF who
<1>5. \A i \in 1 .. n : who(i) \in Nat \cup {Nobody}
  BY <1>2, <1>3 DEF Turn
<1>6. \A i \in 1 .. n : LET new == [ss[i] EXCEPT !.speaker = who(i)]
                        IN  /\ new \in Segment /\ new.start = ss[i].start /\ new.end = ss[i].end
                            /\ new.track = ss[i].track /\ new.speaker = who(i)
  BY <1>1, <1>5 DEF Segment
<1>. DEFINE m == merge_speaker_turns(ss, ts)
<1>7. m = [i \in 1 .. n |-> [ss[i] EXCEPT !.speaker = who(i)]]
  BY <1>4
<1>. HIDE DEF m
<1>8. \A i \in 1 .. n : /\ m[i] \in Segment /\ m[i].start = ss[i].start /\ m[i].end = ss[i].end
                       /\ m[i].track = ss[i].track /\ m[i].speaker = who(i)
  BY <1>6, <1>7
<1>9. m \in Seq(Segment) /\ Len(m) = n
  <2>1. m \in [1 .. n -> Segment]
    BY <1>7, <1>8
  <2>. HIDE DEF n
  <2>. QED  BY <1>1, <2>1
<1>. QED  BY <1>1, <1>3, <1>8, <1>9 DEF m

Placed(s) == \A i \in DOMAIN s : s[i].start <= s[i].end /\ s[i].end <= Length[s[i].track]
ByStart(s) == \A i, j \in DOMAIN s : i < j => s[i].start <= s[j].start
MicIsLocal(s) == \A i \in DOMAIN s : (s[i].speaker = 0) = (s[i].track = "mic")

LEMMA TwoTracks ==
  ASSUME NEW mic \in Seq(Segment), NEW system \in Seq(Segment), NEW ts \in Seq(Turn),
         \A i \in DOMAIN mic : mic[i].track = "mic",
         \A i \in DOMAIN system : system[i].track = "system",
         Placed(mic), Placed(system)
  PROVE  LET m == merge_two_track(mic, system, ts)
         IN  m \in Seq(Segment) /\ Placed(m) /\ ByStart(m) /\ MicIsLocal(m)
<1>. DEFINE remote == [i \in DOMAIN ts |-> [ts[i] EXCEPT !.speaker = @ + 1]]
            you == [i \in DOMAIN mic |-> [mic[i] EXCEPT !.speaker = 0]]
            they == merge_speaker_turns(system, remote)
            all == you \o they
<1>1. merge_two_track(mic, system, ts) = SortByStart(all)
  BY DEF merge_two_track
<1>2. remote \in Seq(Turn) /\ \A i \in DOMAIN remote : remote[i].speaker # 0
  <2>. DEFINE n == Len(ts)
  <2>1. n \in Nat /\ DOMAIN ts = 1 .. n /\ \A i \in 1 .. n : ts[i] \in Turn
    OBVIOUS
  <2>2. \A i \in 1 .. n : [ts[i] EXCEPT !.speaker = @ + 1] \in Turn
    <3>. SUFFICES ASSUME NEW i \in 1 .. n PROVE [ts[i] EXCEPT !.speaker = @ + 1] \in Turn
      OBVIOUS
    <3>. DEFINE t == ts[i]
    <3>1. t \in Turn /\ t.speaker + 1 \in Nat
      BY <2>1 DEF Turn
    <3>. HIDE DEF t
    <3>2. [t EXCEPT !.speaker = t.speaker + 1] \in Turn
      BY <3>1 DEF Turn
    <3>. QED  BY <3>2 DEF t
  <2>3. \A i \in 1 .. n : [ts[i] EXCEPT !.speaker = @ + 1].speaker # 0
    BY <2>1 DEF Turn
  <2>4. remote = [i \in 1 .. n |-> [ts[i] EXCEPT !.speaker = @ + 1]]
    BY <2>1
  <2>. HIDE DEF n, remote
  <2>5. remote \in [1 .. n -> Turn] /\ \A i \in 1 .. n : remote[i].speaker # 0
    BY <2>2, <2>3, <2>4
  <2>. QED  BY <2>1, <2>5
<1>3. /\ you \in Seq(Segment)
      /\ \A i \in DOMAIN you : you[i].speaker = 0 /\ you[i].track = "mic"
      /\ Placed(you)
  <2>. DEFINE n == Len(mic)
  <2>1. n \in Nat /\ DOMAIN mic = 1 .. n /\ \A i \in 1 .. n : mic[i] \in Segment
    OBVIOUS
  <2>2. \A i \in 1 .. n :
          LET new == [mic[i] EXCEPT !.speaker = 0]
          IN  /\ new \in Segment /\ new.speaker = 0 /\ new.track = mic[i].track
              /\ new.start = mic[i].start /\ new.end = mic[i].end
    BY <2>1 DEF Segment
  <2>3. you = [i \in 1 .. n |-> [mic[i] EXCEPT !.speaker = 0]]
    BY <2>1
  <2>. HIDE DEF n, you
  <2>4. \A i \in 1 .. n : /\ you[i] \in Segment /\ you[i].speaker = 0 /\ you[i].track = mic[i].track
                          /\ you[i].start = mic[i].start /\ you[i].end = mic[i].end
    BY <2>2, <2>3
  <2>5. you \in [1 .. n -> Segment]
    BY <2>3, <2>4
  <2>6. you \in Seq(Segment) /\ DOMAIN you = 1 .. n
    BY <2>1, <2>5
  <2>. QED  BY <2>1, <2>4, <2>6 DEF Placed
<1>. HIDE DEF remote
<1>4. /\ they \in Seq(Segment)
      /\ \A i \in DOMAIN they : they[i].speaker # 0 /\ they[i].track = "system"
      /\ Placed(they)
  <2>1. /\ they \in Seq(Segment) /\ Len(they) = Len(system)
        /\ \A i \in DOMAIN system :
             /\ they[i].start = system[i].start /\ they[i].end = system[i].end
             /\ they[i].track = system[i].track
             /\ they[i].speaker = Nobody \/ \E j \in DOMAIN remote : they[i].speaker = remote[j].speaker
    BY <1>2, MergedSpeakers
  <2>. HIDE DEF they
  <2>2. DOMAIN they = DOMAIN system
    BY <2>1
  <2>3. Nobody # 0
    BY BoundsArePositive
  <2>4. \A i \in DOMAIN they : they[i].speaker # 0
    BY <1>2, <2>1, <2>2, <2>3
  <2>5. \A i \in DOMAIN they : they[i].track = "system"
    BY <2>1, <2>2
  <2>6. Placed(they)
    BY <2>1, <2>2 DEF Placed
  <2>. QED  BY <2>1, <2>4, <2>5, <2>6
<1>. HIDE DEF you, they
<1>5. /\ all \in Seq(Segment)
      /\ \A k \in DOMAIN all : \/ \E i \in DOMAIN you : all[k] = you[i]
                               \/ \E i \in DOMAIN they : all[k] = they[i]
  <2>1. /\ all \in Seq(Segment) /\ Len(all) = Len(you) + Len(they)
        /\ \A i \in 1 .. Len(you) + Len(they) :
             all[i] = IF i <= Len(you) THEN you[i] ELSE they[i - Len(you)]
    BY <1>3, <1>4, ConcatProperties
  <2>2. /\ Len(you) \in Nat /\ DOMAIN you = 1 .. Len(you)
        /\ Len(they) \in Nat /\ DOMAIN they = 1 .. Len(they)
    BY <1>3, <1>4
  <2>. HIDE DEF all
  <2>3. ASSUME NEW k \in DOMAIN all
        PROVE  \/ \E i \in DOMAIN you : all[k] = you[i]
               \/ \E i \in DOMAIN they : all[k] = they[i]
    <3>1. k \in 1 .. Len(you) + Len(they)
      BY <2>1
    <3>2. CASE k <= Len(you)
      <4>1. k \in DOMAIN you /\ all[k] = you[k]
        BY <2>1, <2>2, <3>1, <3>2
      <4>. QED  BY <4>1
    <3>3. CASE ~(k <= Len(you))
      <4>1. k - Len(you) \in DOMAIN they /\ all[k] = they[k - Len(you)]
        BY <2>1, <2>2, <3>1, <3>3
      <4>. QED  BY <4>1
    <3>. QED  BY <3>2, <3>3
  <2>. QED  BY <2>1, <2>3
<1>. HIDE DEF all
<1>6. \A k \in DOMAIN all : /\ all[k].start \in Nat
                            /\ all[k].start <= all[k].end /\ all[k].end <= Length[all[k].track]
                            /\ (all[k].speaker = 0) = (all[k].track = "mic")
  <2>. SUFFICES ASSUME NEW k \in DOMAIN all
                PROVE  /\ all[k].start \in Nat
                       /\ all[k].start <= all[k].end /\ all[k].end <= Length[all[k].track]
                       /\ (all[k].speaker = 0) = (all[k].track = "mic")
    OBVIOUS
  <2>1. all[k] \in Segment
    BY <1>5
  <2>2. all[k].start \in Nat
    BY <2>1 DEF Segment
  <2>3. CASE \E i \in DOMAIN you : all[k] = you[i]
    BY <1>3, <2>2, <2>3 DEF Placed
  <2>4. CASE \E i \in DOMAIN they : all[k] = they[i]
    BY <1>4, <2>2, <2>4 DEF Placed
  <2>. QED  BY <1>5, <2>3, <2>4
<1>. DEFINE m == SortByStart(all)
<1>7. /\ m \in Seq(Segment)
      /\ \A k \in DOMAIN m : \E i \in DOMAIN all : m[k] = all[i]
      /\ \A k, l \in DOMAIN m : k < l => m[k].start <= m[l].start
  BY <1>5, <1>6, Sorted
<1>. HIDE DEF m
<1>8. Placed(m) /\ MicIsLocal(m)
  BY <1>6, <1>7 DEF Placed, MicIsLocal
<1>. QED  BY <1>1, <1>7, <1>8 DEF ByStart, m

-----------------------------------------------------------------------------
\* The invariant of Transcription.

Plans == [todo : {<<"file">>, <<"mic">>, <<"system">>, <<"mic", "system">>},
          two_track : BOOLEAN, hint : BOOLEAN, diarize : BOOLEAN]
Frame == [start : Nat, end : Nat, depth : Nat]
Behind(a, b) == \A i \in DOMAIN a, j \in DOMAIN b : a[i].end <= b[j].start
StartsBy(ss, b) == \A i \in DOMAIN ss, j \in DOMAIN b : ss[i].start <= b[j].start
LongEnough(fs) == \A i \in DOMAIN fs : fs[i].depth > 0 => Duration(fs[i]) >= MIN_REGION_MS

RunTypes ==
  /\ plan \in Plans
  /\ phase \in {"load", "regions", "recurse", "diarize", "merge", "done", "failed"}
  /\ regions \in Seq(Region) /\ stack \in Seq(Frame) /\ leaves \in Seq(Frame)
  /\ heard \in SUBSET Nat /\ turns \in Seq(Turn)
  /\ segs \in [Tracks -> Seq(Segment)] /\ merged \in Seq(Segment)
  /\ phase = "recurse" <=> stack # <<>>

\* A track starts empty, and holds its own segments, in order.
TracksKept ==
  /\ \A t \in Tracks : /\ Placed(segs[t]) /\ ByStart(segs[t])
                       /\ \A i \in DOMAIN segs[t] : segs[t][i].track = t
  /\ phase = "load" => segs[track] = <<>> /\ leaves = <<>>
  /\ plan.todo = <<"mic", "system">> => segs["system"] = <<>>

\* What was transcribed, what is being cut and what is still to do follow one another.
WorkOrdered ==
  /\ InOrder(regions) /\ InOrder(stack) /\ InOrder(leaves)
  /\ Behind(leaves, stack) /\ Behind(leaves, regions) /\ Behind(stack, regions)
  /\ StartsBy(segs[track], stack) /\ StartsBy(segs[track], regions)
  /\ \A i \in DOMAIN stack : stack[i].end <= Length[track]
  /\ LongEnough(stack) /\ LongEnough(leaves)

SpeechPlaced ==
  \A x \in heard : /\ x < Length[track]
                   /\ Covers(leaves, x) \/ Covers(stack, x) \/ Covers(regions, x)

MergedSound ==
  Placed(merged) /\ ByStart(merged) /\ (plan.two_track => MicIsLocal(merged))

RunInv == RunTypes /\ TracksKept /\ WorkOrdered /\ SpeechPlaced /\ MergedSound

LEMMA TrackLength ==
  ASSUME RunTypes
  PROVE  track \in Tracks /\ Length[track] \in Nat
<1>1. track \in Tracks
  BY DEF RunTypes, Plans, track, Tracks
<1>. QED  BY <1>1, BoundsArePositive

\* What the adapters may answer.
LEMMA RawRegionsType ==
  ASSUME RunTypes, NEW raw \in RawRegions
  PROVE  raw \in Seq(Region)
<1>. DEFINE R == {r \in [start : 0 .. Length[track], end : 0 .. Length[track] + 1] : r.start <= r.end}
<1>1. \E n \in 0 .. MaxRegions : raw \in [1 .. n -> R]
  BY DEF RawRegions
<1>2. R \subseteq Region
  BY TrackLength DEF Region
<1>. HIDE DEF R
<1>3. \E n \in Nat : raw \in [1 .. n -> Region]
  BY <1>1, <1>2, BoundsArePositive
<1>. QED  BY <1>3, SeqDef

Piece == [start : Nat, end : Nat, low : BOOLEAN]

\* A sequence of numbers none of which is below the one before it.
LEMMA NeverFalls ==
  ASSUME NEW m \in Nat, NEW b \in [1 .. m -> Nat],
         \A i \in 1 .. m : i > 1 => b[i - 1] <= b[i]
  PROVE  \A i, j \in 1 .. m : i <= j => b[i] <= b[j]
<1>. DEFINE Up == {d \in Nat : \A i \in 1 .. m : i + d <= m => b[i] <= b[i + d]}
<1>1. 0 \in Up
  OBVIOUS
<1>2. ASSUME NEW d \in Nat, d \in Up PROVE d + 1 \in Up
  <2>. SUFFICES ASSUME NEW i \in 1 .. m, i + (d + 1) <= m PROVE b[i] <= b[i + (d + 1)]
    OBVIOUS
  <2>. DEFINE k == i + (d + 1)
  <2>1. k \in 1 .. m /\ k > 1 /\ i + d = k - 1 /\ k - 1 \in 1 .. m /\ i + d <= m
    OBVIOUS
  <2>2. b[i] <= b[k - 1] /\ b[k - 1] <= b[k]
    BY <1>2, <2>1
  <2>3. b[i] \in Nat /\ b[k - 1] \in Nat /\ b[k] \in Nat
    BY <2>1
  <2>. QED  BY <2>2, <2>3
<1>3. \A d \in Nat : d \in Up
  <2>. HIDE DEF Up
  <2>. QED  BY <1>1, <1>2, Induction
<1>4. ASSUME NEW i \in 1 .. m, NEW j \in 1 .. m, i <= j PROVE b[i] <= b[j]
  <2>1. j - i \in Nat /\ i + (j - i) = j /\ j <= m
    BY <1>4
  <2>2. j - i \in Up
    BY <1>3, <2>1
  <2>. QED  BY <2>1, <2>2
<1>. QED  BY <1>4

LEMMA AnswersType ==
  ASSUME NEW d \in Nat, NEW raw \in Answers(d)
  PROVE  /\ raw \in Seq(Piece)
         /\ \A i \in DOMAIN raw : raw[i].start <= raw[i].end
         /\ ByStart(raw)
<1>0. PICK n \in 0 .. MaxPieces :
        \E b \in Edges(n, d + 1), low \in [1 .. n -> BOOLEAN] : raw = PiecesOf(n, b, low)
  BY DEF Answers
<1>1. PICK b \in Edges(n, d + 1), low \in [1 .. n -> BOOLEAN] :
        raw = [i \in 1 .. n |-> [start |-> b[2 * i - 1], end |-> b[2 * i], low |-> low[i]]]
  BY <1>0 DEF PiecesOf
<1>2. n \in Nat /\ 2 * n \in Nat
  BY BoundsArePositive
<1>3. /\ b \in [1 .. 2 * n -> 0 .. d + 1]
      /\ \A i \in 1 .. 2 * n : i > 1 => b[i - 1] <= b[i]
  BY DEF Edges
<1>4. b \in [1 .. 2 * n -> Nat]
  BY <1>3
<1>5. \A i, j \in 1 .. 2 * n : i <= j => b[i] <= b[j]
  BY <1>2, <1>3, <1>4, NeverFalls
<1>6. \A i \in 1 .. n : 2 * i - 1 \in 1 .. 2 * n /\ 2 * i \in 1 .. 2 * n
  BY <1>2
<1>7. ASSUME NEW i \in 1 .. n
      PROVE  /\ raw[i] \in Piece /\ raw[i].start = b[2 * i - 1]
             /\ raw[i].start <= raw[i].end
  <2>1. b[2 * i - 1] \in Nat /\ b[2 * i] \in Nat
    BY <1>4, <1>6
  <2>2. b[2 * i - 1] <= b[2 * i]
    BY <1>5, <1>6
  <2>3. raw[i] = [start |-> b[2 * i - 1], end |-> b[2 * i], low |-> low[i]] /\ low[i] \in BOOLEAN
    BY <1>1
  <2>. QED  BY <2>1, <2>2, <2>3 DEF Piece
<1>8. ASSUME NEW i \in 1 .. n, NEW j \in 1 .. n, i < j
      PROVE  raw[i].start <= raw[j].start
  <2>1. 2 * i - 1 <= 2 * j - 1
    BY <1>8
  <2>2. b[2 * i - 1] <= b[2 * j - 1]
    BY <1>5, <1>6, <2>1
  <2>. QED  BY <1>7, <2>2
<1>9. raw \in [1 .. n -> Piece]
  BY <1>1, <1>7
<1>10. raw \in Seq(Piece) /\ DOMAIN raw = 1 .. n
  BY <1>2, <1>9
<1>. QED  BY <1>7, <1>8, <1>10 DEF ByStart

LEMMA ClustersType ==
  ASSUME NEW len \in Nat, NEW raw \in Clusters(len)
  PROVE  raw \in Seq(Turn)
<1>0. PICK n \in 0 .. MaxTurns :
        \E b \in WholeTrack(n, len), who \in [1 .. n -> 0 .. MaxTurns - 1], over \in {0, 1} :
          raw = TurnsOf(n, b, who, over)
  BY DEF Clusters
<1>1. PICK b \in Stretches(n, len), who \in [1 .. n -> 0 .. MaxTurns - 1], over \in {0, 1} :
        raw = [i \in 1 .. n |-> [start |-> b[i], end |-> b[i + 1] + over, speaker |-> who[i]]]
  BY <1>0 DEF WholeTrack, TurnsOf
<1>2. n \in Nat /\ over \in Nat
  BY BoundsArePositive
<1>3. \A i \in 1 .. n : b[i] \in Nat /\ b[i + 1] \in Nat
  BY <1>2 DEF Stretches
<1>4. \A i \in 1 .. n : who[i] \in Nat /\ b[i + 1] + over \in Nat
  BY <1>2, <1>3
<1>5. \A i \in 1 .. n : raw[i] \in Turn
  BY <1>1, <1>3, <1>4 DEF Turn
<1>6. raw \in [1 .. n -> Turn]
  BY <1>1, <1>5
<1>. QED  BY <1>2, <1>6

\* The first element of a sequence and the rest.
LEMMA HeadAndTail ==
  ASSUME NEW S, NEW s \in Seq(S), s # <<>>
  PROVE  /\ 1 \in DOMAIN s /\ Head(s) = s[1] /\ s[1] \in S
         /\ Tail(s) \in Seq(S)
         /\ \A i \in DOMAIN Tail(s) : i \in Nat /\ i + 1 \in DOMAIN s /\ Tail(s)[i] = s[i + 1]
         /\ \A i \in DOMAIN s : i = 1 \/ (i - 1 \in DOMAIN Tail(s) /\ s[i] = Tail(s)[i - 1])
<1>1. Len(s) \in Nat /\ Len(s) # 0 /\ DOMAIN s = 1 .. Len(s)
  OBVIOUS
<1>2. /\ Tail(s) \in Seq(S) /\ Len(Tail(s)) = Len(s) - 1
      /\ \A i \in 1 .. Len(Tail(s)) : Tail(s)[i] = s[i + 1]
  BY HeadTailProperties
<1>3. DOMAIN Tail(s) = 1 .. Len(s) - 1
  BY <1>2
<1>4. 1 \in DOMAIN s /\ Head(s) = s[1] /\ s[1] \in S
  BY <1>1
<1>5. \A i \in DOMAIN Tail(s) : i \in Nat /\ i + 1 \in DOMAIN s /\ Tail(s)[i] = s[i + 1]
  BY <1>1, <1>2, <1>3
<1>6. ASSUME NEW i \in DOMAIN s, i # 1 PROVE i - 1 \in DOMAIN Tail(s) /\ s[i] = Tail(s)[i - 1]
  <2>1. i - 1 \in 1 .. Len(s) - 1 /\ (i - 1) + 1 = i
    BY <1>1, <1>6
  <2>. QED  BY <1>3, <1>5, <2>1
<1>. QED  BY <1>2, <1>4, <1>5, <1>6

LEMMA TailInOrder ==
  ASSUME NEW S, NEW s \in Seq(S), s # <<>>, InOrder(s),
         \A e \in S : e.start \in Nat /\ e.end \in Nat
  PROVE  /\ InOrder(Tail(s))
         /\ \A i \in DOMAIN Tail(s) : s[1].end <= Tail(s)[i].start
<1>1. \A i \in DOMAIN Tail(s) : i \in Nat /\ i + 1 \in DOMAIN s /\ Tail(s)[i] = s[i + 1]
  BY HeadAndTail
<1>2. 1 \in DOMAIN s
  BY HeadAndTail
<1>3. \A i \in DOMAIN Tail(s) : Tail(s)[i].start < Tail(s)[i].end /\ s[1].end <= Tail(s)[i].start
  BY <1>1, <1>2 DEF InOrder
<1>4. \A i, j \in DOMAIN Tail(s) : i < j => Tail(s)[i].end <= Tail(s)[j].start
  BY <1>1 DEF InOrder
<1>. QED  BY <1>3, <1>4 DEF InOrder

LEMMA AppendInOrder ==
  ASSUME NEW S, NEW s \in Seq(S), InOrder(s), NEW e \in S, e.start < e.end,
         \A i \in DOMAIN s : s[i].end <= e.start
  PROVE  /\ InOrder(Append(s, e)) /\ Append(s, e) \in Seq(S)
         /\ \A i \in DOMAIN Append(s, e) : Append(s, e)[i] = e \/ \E j \in DOMAIN s : Append(s, e)[i] = s[j]
         /\ \A i \in DOMAIN s : i \in DOMAIN Append(s, e) /\ Append(s, e)[i] = s[i]
         /\ \E i \in DOMAIN Append(s, e) : Append(s, e)[i] = e
<1>. DEFINE n == Len(s)
            a == Append(s, e)
<1>1. n \in Nat /\ DOMAIN s = 1 .. n
  OBVIOUS
<1>2. /\ a \in Seq(S) /\ Len(a) = n + 1 /\ \A i \in 1 .. n : a[i] = s[i]
      /\ a[n + 1] = e
  BY AppendProperties
<1>3. DOMAIN a = 1 .. n + 1
  BY <1>2
<1>. HIDE DEF a, n
<1>4. \A i \in 1 .. n + 1 : i \in 1 .. n \/ i = n + 1
  BY <1>1
<1>5. \A i \in 1 .. n + 1 : a[i].start < a[i].end
  BY <1>1, <1>2, <1>4 DEF InOrder
<1>6. ASSUME NEW i \in 1 .. n + 1, NEW j \in 1 .. n + 1, i < j PROVE a[i].end <= a[j].start
  <2>1. i \in 1 .. n
    BY <1>1, <1>6
  <2>2. CASE j \in 1 .. n
    BY <1>1, <1>2, <1>6, <2>1, <2>2 DEF InOrder
  <2>3. CASE j = n + 1
    BY <1>1, <1>2, <2>1, <2>3
  <2>. QED  BY <1>4, <2>2, <2>3
<1>7. n + 1 \in 1 .. n + 1 /\ \A i \in 1 .. n : i \in 1 .. n + 1
  BY <1>1
<1>. QED  BY <1>1, <1>2, <1>3, <1>4, <1>5, <1>6, <1>7 DEF InOrder, a

\* What a leaf adds to its track lies in its frame.
LEMMA SegmentsAdded ==
  ASSUME RunTypes, NEW f \in Frame, f.start < f.end, f.end <= Length[track],
         NEW raw \in Answers(Duration(f)), NEW old \in Seq(Segment),
         Placed(old), ByStart(old), \A i \in DOMAIN old : old[i].track = track,
         \A i \in DOMAIN old : old[i].start <= f.start
  PROVE  LET new == old \o [i \in DOMAIN raw |-> offset_segment(raw[i], f)]
         IN  /\ new \in Seq(Segment) /\ Placed(new) /\ ByStart(new)
             /\ \A i \in DOMAIN new : new[i].track = track /\ new[i].start <= f.end
<1>. DEFINE m == Len(raw)
            seg(i) == offset_segment(raw[i], f)
            add == [i \in DOMAIN raw |-> seg(i)]
            new == old \o add
<1>1. f.start \in Nat /\ f.end \in Nat /\ track \in Tracks
  BY TrackLength DEF Frame
<1>2. /\ raw \in Seq(Piece) /\ \A i \in DOMAIN raw : raw[i].start <= raw[i].end
      /\ ByStart(raw)
  <2>1. Duration(f) \in Nat
    BY <1>1 DEF Duration
  <2>. QED  BY <2>1, AnswersType
<1>3. m \in Nat /\ DOMAIN raw = 1 .. m /\ \A i \in 1 .. m : raw[i] \in Piece
  BY <1>2
<1>4. ASSUME NEW i \in 1 .. m
      PROVE  /\ seg(i) \in Segment /\ seg(i).track = track
             /\ seg(i).start <= seg(i).end /\ seg(i).end <= f.end /\ f.start <= seg(i).start
             /\ seg(i).start = Min({raw[i].start + f.start, f.end})
  <2>. DEFINE a == raw[i].start + f.start
              b == raw[i].end + f.start
  <2>1. raw[i].start \in Nat /\ raw[i].end \in Nat /\ raw[i].start <= raw[i].end
    BY <1>2, <1>3 DEF Piece
  <2>2. a \in Nat /\ b \in Nat /\ a <= b /\ f.start <= a
    BY <1>1, <2>1
  <2>. HIDE DEF a, b
  <2>3. /\ Min({a, f.end}) = IF a <= f.end THEN a ELSE f.end
        /\ Min({b, f.end}) = IF b <= f.end THEN b ELSE f.end
    BY <1>1, <2>2, MinOfTwo
  <2>4. seg(i) = [start |-> Min({a, f.end}), end |-> Min({b, f.end}), track |-> track, speaker |-> Nobody]
    BY DEF offset_segment, a, b
  <2>5. Min({a, f.end}) \in Nat /\ Min({b, f.end}) \in Nat
    BY <1>1, <2>2, <2>3
  <2>6. seg(i) \in Segment
    BY <1>1, <2>4, <2>5 DEF Segment
  <2>7. Min({a, f.end}) <= Min({b, f.end}) /\ Min({b, f.end}) <= f.end /\ f.start <= Min({a, f.end})
    BY <1>1, <2>2, <2>3
  <2>8. /\ seg(i).track = track /\ seg(i).start = Min({a, f.end}) /\ seg(i).end = Min({b, f.end})
    BY <2>4
  <2>. QED  BY <2>6, <2>7, <2>8 DEF a
<1>5. ASSUME NEW i \in 1 .. m, NEW j \in 1 .. m, i < j PROVE seg(i).start <= seg(j).start
  <2>. DEFINE a == raw[i].start + f.start
              b == raw[j].start + f.start
  <2>1. raw[i].start \in Nat /\ raw[j].start \in Nat /\ raw[i].start <= raw[j].start
    BY <1>2, <1>3, <1>5 DEF Piece, ByStart
  <2>2. a \in Nat /\ b \in Nat /\ a <= b
    BY <1>1, <2>1
  <2>3. seg(i).start = Min({a, f.end}) /\ seg(j).start = Min({b, f.end})
    BY <1>4
  <2>. HIDE DEF seg, a, b
  <2>4. /\ Min({a, f.end}) = IF a <= f.end THEN a ELSE f.end
        /\ Min({b, f.end}) = IF b <= f.end THEN b ELSE f.end
    BY <1>1, <2>2, MinOfTwo
  <2>. QED  BY <1>1, <2>2, <2>3, <2>4
<1>. HIDE DEF seg
<1>6. add \in Seq(Segment) /\ Len(add) = m /\ \A i \in 1 .. m : add[i] = seg(i)
  <2>1. add \in [1 .. m -> Segment] /\ \A i \in 1 .. m : add[i] = seg(i)
    BY <1>3, <1>4
  <2>. HIDE DEF add, m
  <2>. QED  BY <1>3, <2>1
<1>. DEFINE n == Len(old)
<1>7. n \in Nat /\ DOMAIN old = 1 .. n
  OBVIOUS
<1>. HIDE DEF add, m
<1>8. /\ new \in Seq(Segment) /\ Len(new) = n + m
      /\ \A i \in 1 .. n + m : new[i] = IF i <= n THEN old[i] ELSE add[i - n]
  BY <1>6, ConcatProperties
<1>. HIDE DEF n, new
<1>9. DOMAIN new = 1 .. n + m
  BY <1>3, <1>7, <1>8
<1>10. ASSUME NEW i \in 1 .. n + m
       PROVE  \/ i \in 1 .. n /\ new[i] = old[i]
              \/ i - n \in 1 .. m /\ new[i] = seg(i - n)
  BY <1>3, <1>6, <1>7, <1>8
<1>11. ASSUME NEW i \in 1 .. n + m
       PROVE  /\ new[i].start <= new[i].end /\ new[i].end <= Length[new[i].track]
              /\ new[i].track = track /\ new[i].start <= f.end
  <2>1. CASE i \in 1 .. n /\ new[i] = old[i]
    <3>1. /\ old[i].start <= old[i].end /\ old[i].end <= Length[old[i].track]
          /\ old[i].track = track /\ old[i].start <= f.start
      BY <1>7, <2>1 DEF Placed
    <3>2. old[i].start \in Nat
      <4>1. old[i] \in Segment
        BY <1>7, <2>1
      <4>. QED  BY <4>1 DEF Segment
    <3>. QED  BY <1>1, <2>1, <3>1, <3>2
  <2>2. CASE i - n \in 1 .. m /\ new[i] = seg(i - n)
    <3>. DEFINE g == seg(i - n)
    <3>1. /\ g \in Segment /\ g.track = track /\ g.start <= g.end /\ g.end <= f.end
      BY <1>4, <2>2
    <3>2. g.start \in Nat /\ g.end \in Nat /\ Length[track] \in Nat
      BY <3>1, TrackLength DEF Segment
    <3>. HIDE DEF g
    <3>3. new[i] = g
      BY <2>2 DEF g
    <3>. QED  BY <1>1, <3>1, <3>2, <3>3
  <2>. QED  BY <1>10, <2>1, <2>2
<1>12. ASSUME NEW i \in 1 .. n + m, NEW j \in 1 .. n + m, i < j PROVE new[i].start <= new[j].start
  <2>1. CASE i \in 1 .. n /\ new[i] = old[i] /\ j \in 1 .. n /\ new[j] = old[j]
    BY <1>7, <1>12, <2>1 DEF ByStart
  <2>2. CASE i \in 1 .. n /\ new[i] = old[i] /\ j - n \in 1 .. m /\ new[j] = seg(j - n)
    <3>1. old[i].start <= f.start /\ f.start <= seg(j - n).start
      BY <1>4, <1>7, <2>2
    <3>2. old[i] \in Segment /\ seg(j - n) \in Segment
      <4>1. i \in DOMAIN old
        BY <1>7, <2>2
      <4>2. old[i] \in Segment
        BY <4>1
      <4>3. seg(j - n) \in Segment
        BY <1>4, <2>2
      <4>. QED  BY <4>2, <4>3
    <3>3. old[i].start \in Nat /\ seg(j - n).start \in Nat
      BY <3>2 DEF Segment
    <3>. QED  BY <1>1, <2>2, <3>1, <3>3
  <2>3. CASE i - n \in 1 .. m /\ new[i] = seg(i - n) /\ j - n \in 1 .. m /\ new[j] = seg(j - n)
    <3>1. i - n < j - n
      BY <1>7, <1>12
    <3>. QED  BY <1>5, <2>3, <3>1
  <2>4. ~(i - n \in 1 .. m /\ j \in 1 .. n)
    BY <1>3, <1>7, <1>12
  <2>. QED  BY <1>10, <2>1, <2>2, <2>3, <2>4
<1>. QED  BY <1>8, <1>9, <1>11, <1>12 DEF Placed, ByStart, new, add, seg

\* The cut is MIN_REGION_MS away from both ends.
LEMMA CutPlace ==
  ASSUME NEW f \in Frame, f.start < f.end, NEW raw \in Answers(Duration(f)), ~Keeps(f, raw)
  PROVE  /\ SplitAt(f, raw) \in Nat
         /\ f.start + MIN_REGION_MS <= SplitAt(f, raw)
         /\ SplitAt(f, raw) + MIN_REGION_MS <= f.end
<1>. DEFINE L == {i \in DOMAIN raw : raw[i].low}
            wanted == IF confidence_trigger(raw)
                      THEN raw[Min(L)].start + f.start
                      ELSE f.start + Duration(f) \div 2
            last == f.end - MIN_REGION_MS
            first == f.start + MIN_REGION_MS
<1>1. f.start \in Nat /\ f.end \in Nat /\ MIN_REGION_MS \in Nat
  BY BoundsArePositive DEF Frame
<1>2. Duration(f) = f.end - f.start /\ Duration(f) \in Nat
  BY <1>1 DEF Duration
<1>3. Duration(f) >= 2 * MIN_REGION_MS
  BY <1>1, <1>2 DEF Keeps
<1>4. raw \in Seq(Piece)
  BY <1>2, AnswersType
<1>5. wanted \in Nat
  <2>1. CASE confidence_trigger(raw)
    <3>1. L \subseteq Nat /\ L # {}
      BY <1>4, <2>1 DEF confidence_trigger
    <3>. HIDE DEF L
    <3>2. Min(L) \in L
      BY <3>1, MinOfNaturals
    <3>3. raw[Min(L)] \in Piece
      BY <1>4, <3>2 DEF L
    <3>4. raw[Min(L)].start \in Nat
      BY <3>3 DEF Piece
    <3>. QED  BY <1>1, <2>1, <3>4
  <2>2. CASE ~confidence_trigger(raw)
    <3>1. Duration(f) \div 2 \in Nat
      BY <1>2
    <3>. QED  BY <1>1, <2>2, <3>1
  <2>. QED  BY <2>1, <2>2
<1>6. SplitAt(f, raw) = Max({first, Min({wanted, last})})
  BY DEF SplitAt
<1>7. first \in Nat /\ last \in Nat /\ first <= last
  BY <1>1, <1>2, <1>3
<1>. HIDE DEF first, last, wanted
<1>8. Min({wanted, last}) = IF wanted <= last THEN wanted ELSE last
  BY <1>5, <1>7, MinOfTwo
<1>9. Min({wanted, last}) \in Nat /\ Min({wanted, last}) <= last
  BY <1>5, <1>7, <1>8
<1>10. Max({first, Min({wanted, last})}) = IF first >= Min({wanted, last}) THEN first ELSE Min({wanted, last})
  BY <1>7, <1>9, MaxOfTwo
<1>11. SplitAt(f, raw) \in Nat /\ first <= SplitAt(f, raw) /\ SplitAt(f, raw) <= last
  BY <1>6, <1>7, <1>9, <1>10
<1>. QED  BY <1>1, <1>11 DEF first, last

-----------------------------------------------------------------------------
\* Every step preserves the invariant.

LEMMA RunInitially == Init => RunInv
<1>. SUFFICES ASSUME Init PROVE RunInv
  OBVIOUS
<1>1. RunTypes
  <2>1. plan \in Plans
    BY DEF Init, run_notes, run_notes_pipeline, Plans
  <2>2. \A S : <<>> \in Seq(S)
    OBVIOUS
  <2>. QED  BY <2>1, <2>2 DEF Init, RunTypes
<1>2. \A t \in Tracks : segs[t] = <<>>
  BY DEF Init
<1>3. track \in Tracks
  BY <1>1, TrackLength
<1>4. DOMAIN <<>> = {}
  OBVIOUS
<1>5. TracksKept
  <2>1. "system" \in Tracks
    BY DEF Tracks
  <2>. QED  BY <1>2, <1>3, <1>4, <2>1 DEF Init, TracksKept, Placed, ByStart
<1>6. WorkOrdered
  BY <1>2, <1>3, <1>4 DEF Init, WorkOrdered, InOrder, Behind, StartsBy, LongEnough
<1>7. SpeechPlaced /\ MergedSound
  BY <1>4 DEF Init, SpeechPlaced, MergedSound, Placed, ByStart, MicIsLocal
<1>. QED  BY <1>1, <1>5, <1>6, <1>7 DEF RunInv

LEMMA RunFails ==
  ASSUME RunInv, AdapterFails
  PROVE  RunInv'
<1>. USE DEF RunInv
<1>1. RunTypes'
  <2>1. \A S : <<>> \in Seq(S)
    OBVIOUS
  <2>. QED  BY <2>1 DEF AdapterFails, RunTypes
<1>2. \A t \in Tracks : segs'[t] = <<>>
  BY DEF AdapterFails
<1>3. track' \in Tracks
  BY TrackLength DEF AdapterFails, track
<1>4. DOMAIN <<>> = {}
  OBVIOUS
<1>5. TracksKept'
  <2>1. "system" \in Tracks
    BY DEF Tracks
  <2>. QED  BY <1>2, <1>3, <1>4, <2>1 DEF AdapterFails, TracksKept, Placed, ByStart
<1>6. WorkOrdered'
  BY <1>2, <1>3, <1>4 DEF AdapterFails, WorkOrdered, InOrder, Behind, StartsBy, LongEnough
<1>7. SpeechPlaced' /\ MergedSound'
  BY DEF AdapterFails, SpeechPlaced, MergedSound, Placed, ByStart, MicIsLocal
<1>. QED  BY <1>1, <1>5, <1>6, <1>7

LEMMA RunLoads ==
  ASSUME RunInv, NEW raw \in RawRegions, LoadTrack(raw)
  PROVE  RunInv'
<1>. USE DEF RunInv
<1>. DEFINE out == merge_adjacent_regions(detect_speech(raw))
<1>1. raw \in Seq(Region)
  BY RawRegionsType
<1>2. out \in Seq(Region) /\ InOrder(out) /\ \A x \in Nat : Covers(raw, x) => Covers(out, x)
  BY <1>1, LoadedRegions
<1>. HIDE DEF out
<1>3. /\ phase = "load" /\ phase' = "regions" /\ regions' = out
      /\ plan' = plan /\ stack' = stack /\ segs' = segs /\ turns' = turns /\ merged' = merged
      /\ leaves' = leaves
      /\ heard' = (UNION {Instants(raw[i]) : i \in DOMAIN raw}) \cap (0 .. Length[track] - 1)
  BY DEF LoadTrack, out
<1>4. track' = track /\ track \in Tracks /\ Length[track] \in Nat
  BY <1>3, TrackLength DEF track
<1>5. stack = <<>> /\ leaves = <<>> /\ segs[track] = <<>> /\ DOMAIN <<>> = {}
  BY <1>3 DEF RunTypes, TracksKept
<1>6. heard' \in SUBSET Nat /\ \A x \in heard' : x < Length[track] /\ Covers(raw, x)
  <2>. DEFINE A == UNION {Instants(raw[i]) : i \in DOMAIN raw}
              B == 0 .. Length[track] - 1
  <2>0. heard' = A \cap B
    BY <1>3
  <2>1. \A x \in heard' : x \in B
    <3>. HIDE DEF A, B
    <3>. QED  BY <2>0
  <2>2. \A x \in heard' : \E i \in DOMAIN raw : x \in Instants(raw[i])
    BY <1>3
  <2>3. \A x \in 0 .. Length[track] - 1 : x \in Nat /\ x < Length[track]
    BY <1>4
  <2>. QED  BY <2>1, <2>2, <2>3 DEF Covers
<1>7. RunTypes'
  BY <1>2, <1>3, <1>6 DEF RunTypes
<1>8. TracksKept'
  BY <1>3, <1>4 DEF TracksKept, Placed, ByStart
<1>9. WorkOrdered'
  BY <1>2, <1>3, <1>4, <1>5 DEF WorkOrdered, InOrder, Behind, StartsBy, LongEnough
<1>10. SpeechPlaced'
  BY <1>2, <1>3, <1>4, <1>6 DEF SpeechPlaced
<1>11. MergedSound'
  BY <1>3 DEF MergedSound
<1>. QED  BY <1>7, <1>8, <1>9, <1>10, <1>11

LEMMA FrameFields == \A f \in Frame : f.start \in Nat /\ f.end \in Nat /\ f.depth \in Nat
BY DEF Frame

LEMMA RunNextRegion ==
  ASSUME RunInv, NextRegion
  PROVE  RunInv'
<1>. USE DEF RunInv
<1>. DEFINE L == Length[track]
            h == regions[1]
            r == clamp_to(h, L)
            f == [start |-> r.start, end |-> r.end, depth |-> 0]
<1>1. /\ phase = "regions" /\ regions # <<>> /\ regions' = Tail(regions)
      /\ plan' = plan /\ segs' = segs /\ turns' = turns /\ merged' = merged /\ heard' = heard
      /\ leaves' = leaves /\ regions \in Seq(Region) /\ stack = <<>>
  BY DEF NextRegion, RunTypes
<1>2. track' = track /\ track \in Tracks /\ L \in Nat
  BY <1>1, TrackLength DEF track
<1>3. /\ 1 \in DOMAIN regions /\ Head(regions) = h /\ h \in Region
      /\ Tail(regions) \in Seq(Region)
      /\ \A i \in DOMAIN Tail(regions) :
           i \in Nat /\ i + 1 \in DOMAIN regions /\ Tail(regions)[i] = regions[i + 1]
      /\ \A i \in DOMAIN regions :
           i = 1 \/ (i - 1 \in DOMAIN Tail(regions) /\ regions[i] = Tail(regions)[i - 1])
  BY <1>1, HeadAndTail
<1>4. h.start \in Nat /\ h.end \in Nat /\ h.start < h.end
  BY <1>3, RegionFields DEF WorkOrdered, InOrder
<1>5. InOrder(Tail(regions)) /\ \A i \in DOMAIN Tail(regions) : h.end <= Tail(regions)[i].start
  BY <1>1, RegionFields, TailInOrder DEF WorkOrdered
<1>6. IF r.start >= r.end
      THEN phase' = "regions" /\ stack' = <<>>
      ELSE stack' = <<f>> /\ phase' = "recurse"
  BY <1>1, <1>3 DEF NextRegion
<1>. HIDE DEF L, h
<1>7. /\ r.start = IF h.start <= L THEN h.start ELSE L
      /\ r.end = IF h.end <= L THEN h.end ELSE L
  <2>1. r.start = Min({h.start, L}) /\ r.end = Min({h.end, L})
    BY DEF clamp_to
  <2>. HIDE DEF r
  <2>. QED  BY <1>2, <1>4, <2>1, MinOfTwo
<1>. HIDE DEF r
<1>8. r.start \in Nat /\ r.end \in Nat /\ r.end <= L /\ r.end <= h.end
  BY <1>2, <1>4, <1>7
<1>9. f \in Frame /\ f.start = r.start /\ f.end = r.end /\ f.depth = 0
  BY <1>8 DEF Frame
<1>. HIDE DEF f
<1>10. \A i \in DOMAIN stack' : stack'[i] = f /\ r.start < r.end /\ r.start = h.start /\ i = 1
  <2>1. DOMAIN <<>> = {} /\ DOMAIN <<f>> = {1} /\ <<f>>[1] = f
    OBVIOUS
  <2>2. r.start >= r.end \/ (r.start < r.end /\ r.start = h.start)
    BY <1>2, <1>4, <1>7
  <2>. QED  BY <1>6, <1>8, <2>1, <2>2
<1>11. RunTypes'
  <2>1. stack' \in Seq(Frame)
    <3>1. <<>> \in Seq(Frame) /\ <<f>> \in Seq(Frame)
      BY <1>9
    <3>. QED  BY <1>6, <3>1
  <2>2. phase' \in {"regions", "recurse"} /\ (phase' = "recurse" <=> stack' # <<>>)
    BY <1>6
  <2>. QED  BY <1>1, <1>3, <2>1, <2>2 DEF RunTypes
<1>12. TracksKept'
  BY <1>1, <1>2, <1>6 DEF TracksKept, Placed, ByStart
<1>13. WorkOrdered'
  <2>1. InOrder(regions') /\ InOrder(stack') /\ InOrder(leaves')
    BY <1>1, <1>5, <1>9, <1>10 DEF WorkOrdered, InOrder
  <2>2. Behind(leaves', stack')
    BY <1>1, <1>3, <1>9, <1>10 DEF WorkOrdered, Behind, h
  <2>3. Behind(leaves', regions')
    BY <1>1, <1>3 DEF WorkOrdered, Behind
  <2>4. Behind(stack', regions')
    <3>. SUFFICES ASSUME NEW i \in DOMAIN stack', NEW j \in DOMAIN regions'
                  PROVE  stack'[i].end <= regions'[j].start
      BY DEF Behind
    <3>1. stack'[i].end <= h.end /\ h.end <= regions'[j].start
      BY <1>1, <1>5, <1>8, <1>9, <1>10
    <3>2. regions'[j] \in Region /\ stack'[i] = f
      BY <1>1, <1>3, <1>10
    <3>. QED  BY <1>4, <1>8, <1>9, <3>1, <3>2, RegionFields
  <2>5. StartsBy(segs'[track'], stack')
    BY <1>1, <1>2, <1>3, <1>9, <1>10 DEF WorkOrdered, StartsBy, h
  <2>6. StartsBy(segs'[track'], regions')
    BY <1>1, <1>2, <1>3 DEF WorkOrdered, StartsBy
  <2>7. \A i \in DOMAIN stack' : stack'[i].end <= Length[track']
    BY <1>2, <1>8, <1>9, <1>10 DEF L
  <2>8. LongEnough(stack') /\ LongEnough(leaves')
    BY <1>1, <1>9, <1>10 DEF WorkOrdered, LongEnough
  <2>. QED  BY <2>1, <2>2, <2>3, <2>4, <2>5, <2>6, <2>7, <2>8 DEF WorkOrdered
<1>14. SpeechPlaced'
  <2>. SUFFICES ASSUME NEW x \in heard'
                PROVE  /\ x < Length[track']
                       /\ Covers(leaves', x) \/ Covers(stack', x) \/ Covers(regions', x)
    BY DEF SpeechPlaced
  <2>1. x \in Nat /\ x < L /\ (Covers(leaves, x) \/ Covers(stack, x) \/ Covers(regions, x))
    BY <1>1 DEF SpeechPlaced, RunTypes, L
  <2>2. ~Covers(stack, x)
    BY <1>1 DEF Covers
  <2>3. ASSUME Covers(regions, x) PROVE Covers(stack', x) \/ Covers(regions', x)
    <3>1. PICK i \in DOMAIN regions : x \in Instants(regions[i])
      BY <2>3 DEF Covers
    <3>2. CASE i = 1
      <4>1. h.start <= x /\ x < h.end
        BY <1>4, <2>1, <3>1, <3>2 DEF Instants, h
      <4>2. r.start <= x /\ x < r.end /\ ~(r.start >= r.end)
        BY <1>2, <1>4, <1>7, <2>1, <4>1
      <4>3. x \in Instants(f)
        BY <1>8, <1>9, <2>1, <4>2 DEF Instants
      <4>4. 1 \in DOMAIN stack' /\ stack'[1] = f
        BY <1>6, <4>2
      <4>. QED  BY <4>3, <4>4 DEF Covers
    <3>3. CASE i # 1
      BY <1>1, <1>3, <3>1, <3>3 DEF Covers
    <3>. QED  BY <3>2, <3>3
  <2>. QED  BY <1>1, <1>2, <2>1, <2>2, <2>3 DEF L
<1>15. MergedSound'
  BY <1>1 DEF MergedSound
<1>. QED  BY <1>11, <1>12, <1>13, <1>14, <1>15

LEMMA RunLeaf ==
  ASSUME RunInv, phase = "recurse", NEW raw \in Answers(Duration(Head(stack))), TranscribeLeaf(raw)
  PROVE  RunInv'
<1>. USE DEF RunInv
<1>. DEFINE f == stack[1]
            rest == Tail(stack)
            old == segs[track]
            new == old \o [i \in DOMAIN raw |-> offset_segment(raw[i], f)]
<1>1. /\ stack # <<>> /\ stack \in Seq(Frame) /\ leaves \in Seq(Frame) /\ regions \in Seq(Region)
      /\ InOrder(stack) /\ InOrder(leaves)
  BY DEF RunTypes, WorkOrdered
<1>2. /\ 1 \in DOMAIN stack /\ Head(stack) = f /\ f \in Frame
      /\ rest \in Seq(Frame)
      /\ \A i \in DOMAIN rest : i \in Nat /\ i + 1 \in DOMAIN stack /\ rest[i] = stack[i + 1]
      /\ \A i \in DOMAIN stack : i = 1 \/ (i - 1 \in DOMAIN rest /\ stack[i] = rest[i - 1])
  BY <1>1, HeadAndTail
<1>3. f.start \in Nat /\ f.end \in Nat /\ f.start < f.end /\ f.end <= Length[track]
  BY <1>1, <1>2, FrameFields DEF WorkOrdered, InOrder
<1>4. InOrder(rest) /\ \A i \in DOMAIN rest : f.end <= rest[i].start
  BY <1>1, FrameFields, TailInOrder
<1>5. /\ plan' = plan /\ regions' = regions /\ turns' = turns /\ merged' = merged /\ heard' = heard
      /\ segs' = [segs EXCEPT ![track] = new] /\ leaves' = Append(leaves, f) /\ stack' = rest
      /\ phase' = IF rest = <<>> THEN "regions" ELSE "recurse"
  BY <1>2 DEF TranscribeLeaf
<1>6. track' = track /\ track \in Tracks
  BY <1>5, TrackLength DEF track
<1>7. /\ old \in Seq(Segment) /\ Placed(old) /\ ByStart(old)
      /\ \A i \in DOMAIN old : old[i].track = track /\ old[i].start <= f.start
  BY <1>2, <1>6 DEF RunTypes, TracksKept, WorkOrdered, StartsBy
<1>8. /\ new \in Seq(Segment) /\ Placed(new) /\ ByStart(new)
      /\ \A i \in DOMAIN new : new[i].track = track /\ new[i].start <= f.end
  <2>1. raw \in Answers(Duration(f))
    BY <1>2
  <2>. HIDE DEF f, old
  <2>. QED  BY <1>2, <1>3, <1>7, <2>1, SegmentsAdded
<1>9. /\ Append(leaves, f) \in Seq(Frame) /\ InOrder(Append(leaves, f))
      /\ \A i \in DOMAIN leaves' : leaves'[i] = f \/ \E j \in DOMAIN leaves : leaves'[i] = leaves[j]
      /\ \A i \in DOMAIN leaves : i \in DOMAIN leaves' /\ leaves'[i] = leaves[i]
      /\ \E i \in DOMAIN leaves' : leaves'[i] = f
  <2>1. \A i \in DOMAIN leaves : leaves[i].end <= f.start
    BY <1>2 DEF WorkOrdered, Behind
  <2>. DEFINE a == Append(leaves, f)
  <2>. HIDE DEF f
  <2>2. /\ a \in Seq(Frame) /\ InOrder(a)
        /\ \A i \in DOMAIN a : a[i] = f \/ \E j \in DOMAIN leaves : a[i] = leaves[j]
        /\ \A i \in DOMAIN leaves : i \in DOMAIN a /\ a[i] = leaves[i]
        /\ \E i \in DOMAIN a : a[i] = f
    <3>1. leaves \in Seq(Frame) /\ InOrder(leaves)
      BY <1>1
    <3>2. f \in Frame
      BY <1>2
    <3>3. f.start < f.end
      BY <1>3
    <3>. QED  BY <2>1, <3>1, <3>2, <3>3, AppendInOrder
  <2>3. leaves' = a
    BY <1>5
  <2>. QED  BY <2>2, <2>3
<1>10. Behind(<<>>, <<>>) /\ \A j \in DOMAIN regions : f.end <= regions[j].start
  BY <1>2 DEF WorkOrdered, Behind
<1>. HIDE DEF f, rest, new, old
<1>11. /\ segs' \in [Tracks -> Seq(Segment)] /\ segs'[track] = new
       /\ \A t \in Tracks : t # track => segs'[t] = segs[t]
  BY <1>5, <1>6, <1>8 DEF RunTypes
<1>12. RunTypes'
  BY <1>2, <1>5, <1>9, <1>11 DEF RunTypes
<1>13. TracksKept'
  <2>1. ASSUME NEW t \in Tracks
        PROVE  Placed(segs'[t]) /\ ByStart(segs'[t]) /\ \A i \in DOMAIN segs'[t] : segs'[t][i].track = t
    <3>1. CASE t = track
      BY <1>8, <1>11, <3>1
    <3>2. CASE t # track
      BY <1>11, <3>2 DEF TracksKept
    <3>. QED  BY <3>1, <3>2
  <2>2. phase' # "load"
    BY <1>5
  <2>3. plan'.todo = <<"mic", "system">> => segs'["system"] = <<>>
    <3>1. plan.todo = <<"mic", "system">> => track = "mic" /\ segs["system"] = <<>>
      BY DEF TracksKept, track
    <3>. QED  BY <1>5, <1>11, <3>1 DEF Tracks
  <2>. QED  BY <2>1, <2>2, <2>3 DEF TracksKept
<1>14. WorkOrdered'
  <2>1. InOrder(regions') /\ InOrder(stack') /\ InOrder(leaves')
    BY <1>4, <1>5, <1>9 DEF WorkOrdered
  <2>2. Behind(leaves', stack')
    <3>. SUFFICES ASSUME NEW i \in DOMAIN leaves', NEW j \in DOMAIN stack'
                  PROVE  leaves'[i].end <= stack'[j].start
      BY DEF Behind
    <3>1. j + 1 \in DOMAIN stack /\ stack'[j] = stack[j + 1] /\ f.end <= stack'[j].start
      BY <1>2, <1>4, <1>5
    <3>. QED  BY <1>9, <3>1 DEF WorkOrdered, Behind
  <2>3. Behind(leaves', regions')
    BY <1>5, <1>9, <1>10 DEF WorkOrdered, Behind
  <2>4. Behind(stack', regions')
    BY <1>2, <1>5 DEF WorkOrdered, Behind
  <2>5. StartsBy(segs'[track'], stack')
    <3>. SUFFICES ASSUME NEW i \in DOMAIN new, NEW j \in DOMAIN stack'
                  PROVE  new[i].start <= stack'[j].start
      BY <1>6, <1>11 DEF StartsBy
    <3>1. new[i].start <= f.end /\ f.end <= stack'[j].start
      BY <1>4, <1>5, <1>8
    <3>2. new[i] \in Segment /\ stack'[j] \in Frame
      BY <1>2, <1>5, <1>8
    <3>3. new[i].start \in Nat /\ stack'[j].start \in Nat
      BY <3>2, FrameFields DEF Segment
    <3>. QED  BY <1>3, <3>1, <3>3
  <2>6. StartsBy(segs'[track'], regions')
    <3>. SUFFICES ASSUME NEW i \in DOMAIN new, NEW j \in DOMAIN regions
                  PROVE  new[i].start <= regions[j].start
      BY <1>5, <1>6, <1>11 DEF StartsBy
    <3>1. new[i].start <= f.end /\ f.end <= regions[j].start
      BY <1>8, <1>10
    <3>2. new[i] \in Segment /\ regions[j] \in Region
      BY <1>1, <1>8
    <3>3. new[i].start \in Nat /\ regions[j].start \in Nat
      BY <3>2, RegionFields DEF Segment
    <3>. QED  BY <1>3, <3>1, <3>3
  <2>7. \A i \in DOMAIN stack' : stack'[i].end <= Length[track']
    BY <1>2, <1>5, <1>6 DEF WorkOrdered
  <2>8. LongEnough(stack')
    BY <1>2, <1>5 DEF WorkOrdered, LongEnough
  <2>9. LongEnough(leaves')
    BY <1>2, <1>9 DEF WorkOrdered, LongEnough, f
  <2>. QED  BY <2>1, <2>2, <2>3, <2>4, <2>5, <2>6, <2>7, <2>8, <2>9 DEF WorkOrdered
<1>15. SpeechPlaced'
  <2>1. ASSUME NEW x, Covers(stack, x) PROVE Covers(stack', x) \/ Covers(leaves', x)
    <3>1. PICK i \in DOMAIN stack : x \in Instants(stack[i])
      BY <2>1 DEF Covers
    <3>2. CASE i = 1
      BY <1>9, <3>1, <3>2 DEF Covers, f
    <3>3. CASE i # 1
      BY <1>2, <1>5, <3>1, <3>3 DEF Covers
    <3>. QED  BY <3>2, <3>3
  <2>2. \A x : Covers(leaves, x) => Covers(leaves', x)
    BY <1>9 DEF Covers
  <2>. QED  BY <1>5, <1>6, <2>1, <2>2 DEF SpeechPlaced
<1>16. MergedSound'
  BY <1>5 DEF MergedSound
<1>. QED  BY <1>12, <1>13, <1>14, <1>15, <1>16

LEMMA RunSplit ==
  ASSUME RunInv, phase = "recurse", NEW raw \in Answers(Duration(Head(stack))), TranscribeSplit(raw)
  PROVE  RunInv'
<1>. USE DEF RunInv
<1>. DEFINE f == stack[1]
            rest == Tail(stack)
            cut == SplitAt(f, raw)
            a == [start |-> f.start, end |-> cut, depth |-> f.depth + 1]
            b == [start |-> cut, end |-> f.end, depth |-> f.depth + 1]
            new == <<a, b>> \o rest
<1>1. /\ stack # <<>> /\ stack \in Seq(Frame) /\ leaves \in Seq(Frame) /\ regions \in Seq(Region)
      /\ InOrder(stack)
  BY DEF RunTypes, WorkOrdered
<1>2. /\ 1 \in DOMAIN stack /\ Head(stack) = f /\ f \in Frame
      /\ rest \in Seq(Frame)
      /\ \A i \in DOMAIN rest : i \in Nat /\ i + 1 \in DOMAIN stack /\ rest[i] = stack[i + 1]
      /\ \A i \in DOMAIN stack : i = 1 \/ (i - 1 \in DOMAIN rest /\ stack[i] = rest[i - 1])
  BY <1>1, HeadAndTail
<1>3. /\ f.start \in Nat /\ f.end \in Nat /\ f.depth \in Nat
      /\ f.start < f.end /\ f.end <= Length[track]
  BY <1>1, <1>2, FrameFields DEF WorkOrdered, InOrder
<1>4. InOrder(rest) /\ \A i \in DOMAIN rest : f.end <= rest[i].start
  BY <1>1, FrameFields, TailInOrder
<1>5. /\ plan' = plan /\ regions' = regions /\ turns' = turns /\ merged' = merged /\ heard' = heard
      /\ segs' = segs /\ leaves' = leaves /\ stack' = new /\ phase' = phase /\ ~Keeps(f, raw)
  BY <1>2 DEF TranscribeSplit
<1>6. track' = track /\ track \in Tracks /\ Length[track] \in Nat
  BY <1>5, TrackLength DEF track
<1>7. MIN_REGION_MS \in Nat \ {0}
  BY BoundsArePositive
<1>8. cut \in Nat /\ f.start + MIN_REGION_MS <= cut /\ cut + MIN_REGION_MS <= f.end
  <2>1. raw \in Answers(Duration(f))
    BY <1>2
  <2>. HIDE DEF f
  <2>. QED  BY <1>2, <1>3, <1>5, <2>1, CutPlace
<1>. HIDE DEF f, rest, cut
<1>9. /\ a \in Frame /\ a.start = f.start /\ a.end = cut
      /\ b \in Frame /\ b.start = cut /\ b.end = f.end
  BY <1>3, <1>8 DEF Frame
<1>10. Duration(a) >= MIN_REGION_MS /\ Duration(b) >= MIN_REGION_MS
  BY <1>3, <1>7, <1>8, <1>9 DEF Duration
<1>11. cut \in Nat /\ f.start < cut /\ cut < f.end
  BY <1>3, <1>7, <1>8
<1>. HIDE DEF a, b
<1>12. /\ new \in Seq(Frame) /\ Len(new) = 2 + Len(rest)
       /\ \A i \in 1 .. 2 + Len(rest) : new[i] = IF i <= 2 THEN <<a, b>>[i] ELSE rest[i - 2]
  <2>1. <<a, b>> \in Seq(Frame) /\ Len(<<a, b>>) = 2
    BY <1>9
  <2>. QED  BY <1>2, <2>1, ConcatProperties
<1>13. Len(rest) \in Nat /\ DOMAIN rest = 1 .. Len(rest) /\ DOMAIN new = 1 .. 2 + Len(rest)
  BY <1>2, <1>12
<1>. HIDE DEF new
<1>14. ASSUME NEW i \in DOMAIN new
       PROVE  \/ i = 1 /\ new[i] = a
              \/ i = 2 /\ new[i] = b
              \/ i > 2 /\ i - 2 \in DOMAIN rest /\ new[i] = rest[i - 2]
  <2>1. CASE i = 1
    BY <1>12, <1>13, <2>1
  <2>2. CASE i = 2
    BY <1>12, <1>13, <2>2
  <2>3. CASE i > 2
    <3>1. i - 2 \in 1 .. Len(rest) /\ ~(i <= 2)
      BY <1>13, <2>3
    <3>. QED  BY <1>12, <1>13, <2>3, <3>1
  <2>4. i \in Nat /\ i >= 1
    BY <1>13
  <2>. QED  BY <2>1, <2>2, <2>3, <2>4
<1>15. /\ 1 \in DOMAIN new /\ new[1] = a /\ 2 \in DOMAIN new /\ new[2] = b
       /\ \A k \in DOMAIN rest : k + 2 \in DOMAIN new /\ new[k + 2] = rest[k]
  <2>1. 1 \in DOMAIN new /\ 2 \in DOMAIN new
    BY <1>13
  <2>2. \A k \in DOMAIN rest : k + 2 \in DOMAIN new /\ k + 2 > 2 /\ (k + 2) - 2 = k
    BY <1>13
  <2>3. new[1] = a /\ new[2] = b
    BY <1>14, <2>1
  <2>4. \A k \in DOMAIN rest : new[k + 2] = rest[k]
    <3>. SUFFICES ASSUME NEW k \in DOMAIN rest PROVE new[k + 2] = rest[k]
      OBVIOUS
    <3>1. k \in Nat /\ ~(k + 2 = 1) /\ ~(k + 2 = 2)
      BY <1>13
    <3>. QED  BY <1>14, <2>2, <3>1
  <2>. QED  BY <2>1, <2>2, <2>3, <2>4
<1>16. \A i \in DOMAIN rest : /\ rest[i].start \in Nat /\ rest[i].end \in Nat /\ f.end <= rest[i].start
                              /\ rest[i].start < rest[i].end
  BY <1>2, <1>4, FrameFields DEF InOrder
<1>17. \A i \in DOMAIN new : /\ new[i].start \in Nat /\ new[i].end \in Nat
                             /\ f.start <= new[i].start /\ new[i].start < new[i].end
  <2>. SUFFICES ASSUME NEW i \in DOMAIN new
                PROVE  /\ new[i].start \in Nat /\ new[i].end \in Nat
                       /\ f.start <= new[i].start /\ new[i].start < new[i].end
    OBVIOUS
  <2>1. CASE new[i] = a
    BY <1>3, <1>9, <1>11, <2>1
  <2>2. CASE new[i] = b
    BY <1>3, <1>9, <1>11, <2>2
  <2>3. CASE i - 2 \in DOMAIN rest /\ new[i] = rest[i - 2]
    BY <1>3, <1>16, <2>3
  <2>. QED  BY <1>14, <2>1, <2>2, <2>3
<1>18. RunTypes'
  <2>1. new # <<>>
    BY <1>15
  <2>. QED  BY <1>5, <1>12, <2>1 DEF RunTypes
<1>19. TracksKept'
  BY <1>5, <1>6 DEF TracksKept, Placed, ByStart
<1>20. WorkOrdered'
  <2>1. InOrder(regions') /\ InOrder(leaves') /\ Behind(leaves', regions')
    BY <1>5 DEF WorkOrdered
  <2>2. InOrder(stack')
    <3>1. ASSUME NEW i \in DOMAIN new, NEW j \in DOMAIN new, i < j PROVE new[i].end <= new[j].start
      <4>0. i \in Nat /\ j \in Nat
        BY <1>13
      <4>1. CASE i = 1 /\ new[i] = a
        <5>1. j # 1
          BY <3>1, <4>0, <4>1
        <5>2. CASE new[j] = b
          BY <1>9, <1>11, <4>1, <5>2
        <5>3. CASE j - 2 \in DOMAIN rest /\ new[j] = rest[j - 2]
          BY <1>3, <1>9, <1>11, <1>16, <4>1, <5>3
        <5>. QED  BY <1>14, <5>1, <5>2, <5>3
      <4>2. CASE i = 2 /\ new[i] = b
        <5>1. j - 2 \in DOMAIN rest /\ new[j] = rest[j - 2]
          BY <1>14, <3>1, <4>0, <4>2
        <5>. QED  BY <1>9, <1>16, <4>2, <5>1
      <4>3. CASE i > 2 /\ i - 2 \in DOMAIN rest /\ new[i] = rest[i - 2]
        <5>1. j - 2 \in DOMAIN rest /\ new[j] = rest[j - 2] /\ i - 2 < j - 2
          <6>1. j # 1 /\ j # 2 /\ i - 2 < j - 2
            BY <3>1, <4>0, <4>3
          <6>. QED  BY <1>14, <6>1
        <5>. QED  BY <1>4, <4>3, <5>1 DEF InOrder
      <4>. QED  BY <1>14, <4>1, <4>2, <4>3
    <3>. QED  BY <1>5, <1>17, <3>1 DEF InOrder
  <2>3. Behind(leaves', stack')
    <3>. SUFFICES ASSUME NEW i \in DOMAIN leaves, NEW j \in DOMAIN new
                  PROVE  leaves[i].end <= new[j].start
      BY <1>5 DEF Behind
    <3>1. leaves[i].end <= f.start /\ f.start <= new[j].start
      BY <1>2, <1>17 DEF WorkOrdered, Behind, f
    <3>2. leaves[i].end \in Nat
      BY <1>1, FrameFields
    <3>. QED  BY <1>3, <1>17, <3>1, <3>2
  <2>4. Behind(stack', regions')
    <3>. SUFFICES ASSUME NEW i \in DOMAIN new, NEW j \in DOMAIN regions
                  PROVE  new[i].end <= regions[j].start
      BY <1>5 DEF Behind
    <3>1. f.end <= regions[j].start /\ regions[j].start \in Nat
      BY <1>1, <1>2, RegionFields DEF WorkOrdered, Behind, f
    <3>2. CASE new[i] = a
      BY <1>3, <1>9, <1>11, <3>1, <3>2
    <3>3. CASE new[i] = b
      BY <1>3, <1>9, <3>1, <3>3
    <3>4. CASE i - 2 \in DOMAIN rest /\ new[i] = rest[i - 2]
      <4>1. (i - 2) + 1 \in DOMAIN stack /\ new[i] = stack[(i - 2) + 1]
        BY <1>2, <3>4
      <4>. QED  BY <4>1 DEF WorkOrdered, Behind
    <3>. QED  BY <1>14, <3>2, <3>3, <3>4
  <2>5. StartsBy(segs'[track'], stack')
    <3>. SUFFICES ASSUME NEW i \in DOMAIN segs[track], NEW j \in DOMAIN new
                  PROVE  segs[track][i].start <= new[j].start
      BY <1>5, <1>6 DEF StartsBy
    <3>1. segs[track][i].start <= f.start /\ f.start <= new[j].start
      BY <1>2, <1>17 DEF WorkOrdered, StartsBy, f
    <3>2. segs[track][i] \in Segment
      BY <1>6 DEF RunTypes
    <3>3. segs[track][i].start \in Nat
      BY <3>2 DEF Segment
    <3>. QED  BY <1>3, <1>17, <3>1, <3>3
  <2>6. StartsBy(segs'[track'], regions')
    BY <1>5, <1>6 DEF WorkOrdered
  <2>7. \A i \in DOMAIN stack' : stack'[i].end <= Length[track']
    <3>. SUFFICES ASSUME NEW i \in DOMAIN new PROVE new[i].end <= Length[track]
      BY <1>5, <1>6
    <3>1. CASE new[i] = a
      BY <1>3, <1>6, <1>9, <1>11, <3>1
    <3>2. CASE new[i] = b
      BY <1>3, <1>9, <3>2
    <3>3. CASE i - 2 \in DOMAIN rest /\ new[i] = rest[i - 2]
      <4>1. (i - 2) + 1 \in DOMAIN stack /\ new[i] = stack[(i - 2) + 1]
        BY <1>2, <3>3
      <4>. QED  BY <4>1 DEF WorkOrdered
    <3>. QED  BY <1>14, <3>1, <3>2, <3>3
  <2>8. LongEnough(stack')
    <3>. SUFFICES ASSUME NEW i \in DOMAIN new, new[i].depth > 0 PROVE Duration(new[i]) >= MIN_REGION_MS
      BY <1>5 DEF LongEnough
    <3>1. CASE new[i] = a \/ new[i] = b
      BY <1>10, <3>1
    <3>2. CASE i - 2 \in DOMAIN rest /\ new[i] = rest[i - 2]
      <4>1. (i - 2) + 1 \in DOMAIN stack /\ new[i] = stack[(i - 2) + 1]
        BY <1>2, <3>2
      <4>. QED  BY <4>1 DEF WorkOrdered, LongEnough
    <3>. QED  BY <1>14, <3>1, <3>2
  <2>9. LongEnough(leaves')
    BY <1>5 DEF WorkOrdered
  <2>. QED  BY <2>1, <2>2, <2>3, <2>4, <2>5, <2>6, <2>7, <2>8, <2>9 DEF WorkOrdered
<1>21. SpeechPlaced'
  <2>1. ASSUME NEW x \in Nat, Covers(stack, x) PROVE Covers(new, x)
    <3>1. PICK i \in DOMAIN stack : x \in Instants(stack[i])
      BY <2>1 DEF Covers
    <3>2. CASE i = 1
      <4>1. f.start <= x /\ x < f.end
        BY <1>3, <3>1, <3>2 DEF Instants, f
      <4>2. x \in Instants(a) \/ x \in Instants(b)
        BY <1>3, <1>9, <1>11, <2>1, <4>1 DEF Instants
      <4>. QED  BY <1>15, <4>2 DEF Covers
    <3>3. CASE i # 1
      <4>1. i - 1 \in DOMAIN rest /\ stack[i] = rest[i - 1]
        BY <1>2, <3>3
      <4>. QED  BY <1>15, <3>1, <4>1 DEF Covers
    <3>. QED  BY <3>2, <3>3
  <2>2. heard \subseteq Nat
    BY DEF RunTypes
  <2>. QED  BY <1>5, <1>6, <2>1, <2>2 DEF SpeechPlaced
<1>22. MergedSound'
  BY <1>5 DEF MergedSound
<1>. QED  BY <1>18, <1>19, <1>20, <1>21, <1>22

LEMMA RunFinish ==
  ASSUME RunInv, FinishTrack
  PROVE  RunInv'
<1>. USE DEF RunInv
<1>1. /\ phase = "regions" /\ regions = <<>> /\ regions' = <<>> /\ stack = <<>> /\ stack' = <<>>
      /\ segs' = segs /\ turns' = turns /\ merged' = merged /\ heard' = {} /\ leaves' = <<>>
      /\ phase' \in {"diarize", "load", "merge"} /\ DOMAIN <<>> = {}
  BY DEF FinishTrack, RunTypes
<1>2. plan' \in Plans /\ plan'.two_track = plan.two_track /\ plan'.todo # <<"mic", "system">>
  <2>1. plan \in Plans
    BY DEF RunTypes
  <2>2. CASE plan.todo = <<"mic", "system">>
    <3>1. plan' = [plan EXCEPT !.todo = <<"system">>]
      <4>1. Len(<<"mic", "system">>) > 1 /\ Tail(<<"mic", "system">>) = <<"system">>
        OBVIOUS
      <4>2. plan' = [plan EXCEPT !.todo = Tail(plan.todo)]
        BY <2>2, <4>1 DEF FinishTrack
      <4>. QED  BY <2>2, <4>1, <4>2
    <3>2. <<"system">> # <<"mic", "system">>
      <4>1. Len(<<"system">>) # Len(<<"mic", "system">>)
        OBVIOUS
      <4>. QED  BY <4>1
    <3>. QED  BY <2>1, <3>1, <3>2 DEF Plans
  <2>3. CASE plan.todo # <<"mic", "system">>
    <3>1. ~(Len(plan.todo) > 1)
      <4>1. Len(<<"file">>) = 1 /\ Len(<<"mic">>) = 1 /\ Len(<<"system">>) = 1
        OBVIOUS
      <4>2. plan.todo \in {<<"file">>, <<"mic">>, <<"system">>}
        BY <2>1, <2>3 DEF Plans
      <4>3. Len(plan.todo) = 1
        BY <4>1, <4>2, Zenon
      <4>. QED  BY <4>3
    <3>. QED  BY <2>1, <2>3, <3>1 DEF FinishTrack
  <2>. QED  BY <2>2, <2>3
<1>3. phase' = "load" => track' = "system" /\ segs["system"] = <<>>
  <2>. SUFFICES ASSUME phase' = "load" PROVE track' = "system" /\ segs["system"] = <<>>
    OBVIOUS
  <2>1. Len(plan.todo) > 1
    BY DEF FinishTrack
  <2>2. plan.todo = <<"mic", "system">>
    <3>1. Len(<<"file">>) = 1 /\ Len(<<"mic">>) = 1 /\ Len(<<"system">>) = 1
      OBVIOUS
    <3>2. plan.todo \in {<<"file">>, <<"mic">>, <<"system">>, <<"mic", "system">>}
      BY DEF RunTypes, Plans
    <3>. QED  BY <2>1, <3>1, <3>2
  <2>3. plan'.todo = <<"system">>
    <3>1. plan' = [plan EXCEPT !.todo = Tail(plan.todo)]
      BY <2>1 DEF FinishTrack
    <3>2. Tail(<<"mic", "system">>) = <<"system">>
      OBVIOUS
    <3>. QED  BY <2>2, <3>1, <3>2 DEF RunTypes, Plans
  <2>. QED  BY <2>2, <2>3 DEF track, TracksKept
<1>4. RunTypes'
  <2>1. <<>> \in Seq(Frame) /\ <<>> \in Seq(Region)
    OBVIOUS
  <2>. QED  BY <1>1, <1>2, <2>1 DEF RunTypes
<1>5. TracksKept'
  BY <1>1, <1>2, <1>3 DEF TracksKept, Placed, ByStart
<1>6. WorkOrdered'
  BY <1>1 DEF WorkOrdered, InOrder, Behind, StartsBy, LongEnough
<1>7. SpeechPlaced' /\ MergedSound'
  BY <1>1, <1>2 DEF SpeechPlaced, MergedSound, Placed, ByStart, MicIsLocal
<1>. QED  BY <1>4, <1>5, <1>6, <1>7

LEMMA RunDiarize ==
  ASSUME RunInv, phase = "diarize", NEW raw \in Clusters(Length[track]), Diarize(raw)
  PROVE  RunInv'
<1>. USE DEF RunInv
<1>1. track \in Tracks /\ Length[track] \in Nat
  BY TrackLength
<1>2. diarize(raw) \in Seq(Turn)
  <2>1. raw \in Seq(Turn)
    BY <1>1, ClustersType
  <2>. QED  BY <2>1, DiarizeType
<1>. DEFINE out == diarize(raw)
<1>3. /\ phase' = "merge" /\ turns' = out /\ plan' = plan /\ regions' = regions /\ stack' = stack
      /\ segs' = segs /\ merged' = merged /\ heard' = heard /\ leaves' = leaves
  BY DEF Diarize
<1>. HIDE DEF out
<1>4. out \in Seq(Turn)
  BY <1>2 DEF out
<1>5. track' = track
  BY <1>3 DEF track
<1>6. RunTypes'
  BY <1>3, <1>4 DEF RunTypes
<1>7. TracksKept' /\ WorkOrdered' /\ SpeechPlaced' /\ MergedSound'
  BY <1>3, <1>5 DEF TracksKept, WorkOrdered, SpeechPlaced, MergedSound
<1>. QED  BY <1>6, <1>7

LEMMA RunMerge ==
  ASSUME RunInv, Merge
  PROVE  RunInv'
<1>. USE DEF RunInv
<1>1. /\ phase' = "done" /\ plan' = plan /\ regions' = regions /\ stack' = stack
      /\ heard' = heard /\ leaves' = leaves /\ turns' = <<>> /\ stack = <<>>
      /\ \A t \in Tracks : segs'[t] = <<>>
      /\ segs' = [t \in Tracks |-> <<>>]
  BY DEF Merge, RunTypes
<1>2. track' = track /\ track' \in Tracks
  BY <1>1, TrackLength DEF track
<1>3. /\ "mic" \in Tracks /\ "system" \in Tracks /\ "file" \in Tracks
      /\ segs \in [Tracks -> Seq(Segment)] /\ turns \in Seq(Turn)
  BY DEF Tracks, RunTypes
<1>4. merged' \in Seq(Segment) /\ MergedSound'
  <2>1. CASE plan.two_track
    <3>. DEFINE m == merge_two_track(segs["mic"], segs["system"], turns)
    <3>1. merged' = m
      BY <2>1 DEF Merge
    <3>2. m \in Seq(Segment) /\ Placed(m) /\ ByStart(m) /\ MicIsLocal(m)
      <4>1. /\ segs["mic"] \in Seq(Segment) /\ segs["system"] \in Seq(Segment)
            /\ \A i \in DOMAIN segs["mic"] : segs["mic"][i].track = "mic"
            /\ \A i \in DOMAIN segs["system"] : segs["system"][i].track = "system"
            /\ Placed(segs["mic"]) /\ Placed(segs["system"])
        BY <1>3 DEF TracksKept
      <4>. QED  BY <1>3, <4>1, TwoTracks
    <3>. HIDE DEF m
    <3>. QED  BY <3>1, <3>2 DEF MergedSound
  <2>2. CASE ~plan.two_track /\ plan.diarize
    <3>. DEFINE m == merge_speaker_turns(segs["file"], turns)
    <3>1. merged' = m
      BY <2>2 DEF Merge
    <3>2. /\ m \in Seq(Segment) /\ Len(m) = Len(segs["file"])
          /\ \A i \in DOMAIN segs["file"] :
               /\ m[i].start = segs["file"][i].start /\ m[i].end = segs["file"][i].end
               /\ m[i].track = segs["file"][i].track
      <4>1. segs["file"] \in Seq(Segment)
        BY <1>3
      <4>. QED  BY <1>3, <4>1, MergedSpeakers
    <3>3. DOMAIN m = DOMAIN segs["file"]
      BY <1>3, <3>2
    <3>. HIDE DEF m
    <3>4. Placed(segs["file"]) /\ ByStart(segs["file"])
      BY <1>3 DEF TracksKept
    <3>5. Placed(m) /\ ByStart(m)
      BY <3>2, <3>3, <3>4 DEF Placed, ByStart
    <3>. QED  BY <1>1, <2>2, <3>1, <3>2, <3>5 DEF MergedSound
  <2>3. CASE ~plan.two_track /\ ~plan.diarize
    <3>1. merged' = segs["file"]
      BY <2>3 DEF Merge
    <3>. QED  BY <1>1, <1>3, <2>3, <3>1 DEF MergedSound, TracksKept
  <2>. QED  BY <2>1, <2>2, <2>3
<1>5. RunTypes'
  <2>1. <<>> \in Seq(Turn) /\ <<>> \in Seq(Segment)
    OBVIOUS
  <2>. QED  BY <1>1, <1>4, <2>1 DEF RunTypes
<1>6. DOMAIN <<>> = {}
  OBVIOUS
<1>7. TracksKept'
  BY <1>1, <1>3, <1>6 DEF TracksKept, Placed, ByStart
<1>8. StartsBy(segs'[track'], stack') /\ StartsBy(segs'[track'], regions')
  BY <1>1, <1>2, <1>6 DEF StartsBy
<1>9. WorkOrdered'
  BY <1>1, <1>2, <1>8 DEF WorkOrdered
<1>10. SpeechPlaced'
  BY <1>1, <1>2 DEF SpeechPlaced
<1>. QED  BY <1>4, <1>5, <1>7, <1>9, <1>10

LEMMA RunInvariant == RunInv /\ [Next]_vars => RunInv'
<1>. SUFFICES ASSUME RunInv, [Next]_vars PROVE RunInv'
  OBVIOUS
<1>1. ASSUME NEW raw \in RawRegions, LoadTrack(raw) PROVE RunInv'
  BY <1>1, RunLoads
<1>2. CASE NextRegion
  BY <1>2, RunNextRegion
<1>3. ASSUME phase = "recurse", NEW raw \in Answers(Duration(Head(stack))), TranscribeLeaf(raw)
      PROVE  RunInv'
  BY <1>3, RunLeaf
<1>4. ASSUME phase = "recurse", NEW raw \in Answers(Duration(Head(stack))), TranscribeSplit(raw)
      PROVE  RunInv'
  BY <1>4, RunSplit
<1>5. CASE FinishTrack
  BY <1>5, RunFinish
<1>6. ASSUME phase = "diarize", NEW raw \in Clusters(Length[track]), Diarize(raw) PROVE RunInv'
  BY <1>6, RunDiarize
<1>7. CASE Merge
  BY <1>7, RunMerge
<1>8. CASE AdapterFails
  BY <1>8, RunFails
<1>9. CASE UNCHANGED vars
  BY <1>9 DEF vars, RunInv, RunTypes, TracksKept, WorkOrdered, SpeechPlaced, MergedSound, track
<1>. QED  BY <1>1, <1>2, <1>3, <1>4, <1>5, <1>6, <1>7, <1>8, <1>9 DEF Next

\* Speech found by the VAD is in what was transcribed, in what is being cut or in
\* what is still to do; these follow one another, and so do the chunks of each.
THEOREM RunKept == Spec => []RunInv
<1>. QED  BY RunInitially, RunInvariant, PTL DEF Spec

\* handlers.rs transcribe_track_labeled, recursive_asr.rs recurse: when a track is
\* finished all the speech the VAD found has been in exactly one chunk whose
\* segments were kept, and a chunk cut from a region is long enough to recognise.
THEOREM SpeechIsTranscribedOnce == Spec => []SpeechTranscribedOnce
<1>1. RunInv => SpeechTranscribedOnce
  <2>. SUFFICES ASSUME RunInv PROVE SpeechTranscribedOnce
    OBVIOUS
  <2>. USE DEF RunInv
  <2>1. ASSUME phase = "regions", regions = <<>>, NEW t \in heard
        PROVE  Cardinality({i \in DOMAIN leaves : t \in Instants(leaves[i])}) = 1
    <3>1. stack = <<>> /\ DOMAIN <<>> = {} /\ t \in Nat
      BY <2>1 DEF RunTypes
    <3>2. Covers(leaves, t)
      BY <2>1, <3>1 DEF SpeechPlaced, Covers
    <3>3. PICK i \in DOMAIN leaves : t \in Instants(leaves[i])
      BY <3>2 DEF Covers
    <3>4. \A k \in DOMAIN leaves : /\ k \in Nat /\ leaves[k].start \in Nat /\ leaves[k].end \in Nat
                                   /\ leaves[k].start < leaves[k].end
      <4>1. leaves \in Seq(Frame)
        BY DEF RunTypes
      <4>2. \A k \in DOMAIN leaves : k \in Nat /\ leaves[k] \in Frame
        BY <4>1
      <4>. QED  BY <4>2, FrameFields DEF WorkOrdered, InOrder
    <3>5. ASSUME NEW j \in DOMAIN leaves, t \in Instants(leaves[j]) PROVE j = i
      <4>1. leaves[i].start <= t /\ t < leaves[i].end /\ leaves[j].start <= t /\ t < leaves[j].end
        BY <3>1, <3>3, <3>4, <3>5 DEF Instants
      <4>2. CASE i < j
        <5>1. leaves[i].end <= leaves[j].start
          BY <4>2 DEF WorkOrdered, InOrder
        <5>. QED  BY <3>1, <3>4, <4>1, <5>1
      <4>3. CASE j < i
        <5>1. leaves[j].end <= leaves[i].start
          BY <4>3 DEF WorkOrdered, InOrder
        <5>. QED  BY <3>1, <3>4, <4>1, <5>1
      <4>. QED  BY <3>4, <4>2, <4>3
    <3>6. {k \in DOMAIN leaves : t \in Instants(leaves[k])} = {i}
      BY <3>3, <3>5
    <3>. QED  BY <3>6, FS_Singleton
  <2>2. \A i \in DOMAIN leaves : leaves[i].depth > 0 => Duration(leaves[i]) >= MIN_REGION_MS
    BY DEF WorkOrdered, LongEnough
  <2>. QED  BY <2>1, <2>2 DEF SpeechTranscribedOnce
<1>. QED  BY <1>1, RunKept, PTL

\* merge.rs and the handlers around it: the transcript is ordered by start, and no
\* segment of it is inverted or past the end of its track.
THEOREM TranscriptIsOrdered == Spec => []TranscriptOrdered
<1>1. RunInv => TranscriptOrdered
  <2>. SUFFICES ASSUME RunInv PROVE TranscriptOrdered
    OBVIOUS
  <2>1. Placed(merged) /\ ByStart(merged) /\ merged \in Seq(Segment)
    BY DEF RunInv, MergedSound, RunTypes
  <2>2. \A i \in DOMAIN merged : i > 1 => i - 1 \in DOMAIN merged /\ i - 1 < i
    BY <2>1
  <2>. QED  BY <2>1, <2>2 DEF TranscriptOrdered, Placed, ByStart
<1>. QED  BY <1>1, RunKept, PTL

\* merge_two_track: speaker 0 is the microphone's and only its, whatever the
\* diarizer answers for the system track.
THEOREM LocalSpeakerIsMic == Spec => []LocalSpeakerIsTheMic
<1>1. RunInv => LocalSpeakerIsTheMic
  BY DEF RunInv, MergedSound, MicIsLocal, LocalSpeakerIsTheMic
<1>. QED  BY <1>1, RunKept, PTL

-----------------------------------------------------------------------------
\* Sequences put end to end.

\* What grows by one sequence of seqs at a time is their concatenation.
Chain(h, seqs, S) ==
  /\ h \in [0 .. Len(seqs) -> Seq(S)] /\ h[0] = <<>>
  /\ \A k \in 1 .. Len(seqs) : h[k] = h[k - 1] \o seqs[k]

LEMMA ChainsAgree ==
  ASSUME NEW S, NEW seqs \in Seq(Seq(S)), NEW h, Chain(h, seqs, S), NEW g, Chain(g, seqs, S)
  PROVE  h[Len(seqs)] = g[Len(seqs)]
<1>. DEFINE n == Len(seqs)
            Good == {k \in Nat : h[k] = g[k]}
<1>1. n \in Nat
  OBVIOUS
<1>2. 0 \in Good
  BY DEF Chain
<1>3. \A k \in 0 .. n - 1 : k \in Good => k + 1 \in Good
  <2>. SUFFICES ASSUME NEW k \in 0 .. n - 1, k \in Good PROVE k + 1 \in Good
    OBVIOUS
  <2>1. k + 1 \in 1 .. Len(seqs) /\ (k + 1) - 1 = k /\ k + 1 \in Nat
    OBVIOUS
  <2>2. h[k + 1] = h[k] \o seqs[k + 1]
    BY <2>1 DEF Chain
  <2>3. g[k + 1] = g[k] \o seqs[k + 1]
    BY <2>1 DEF Chain
  <2>4. h[k + 1] = g[k + 1]
    BY <2>2, <2>3
  <2>. QED  BY <2>1, <2>4
<1>4. \A k \in 0 .. n : k \in Good
  <2>. HIDE DEF n, Good
  <2>. QED  BY <1>1, <1>2, <1>3, InductionUpTo
<1>. QED  BY <1>1, <1>4

LEMMA ChainExists ==
  ASSUME NEW S, NEW seqs \in Seq(Seq(S))
  PROVE  \E h : Chain(h, seqs, S)
<1>. DEFINE n == Len(seqs)
            P(m) == \E h \in [0 .. m -> Seq(S)] :
                      h[0] = <<>> /\ \A k \in 1 .. m : h[k] = h[k - 1] \o seqs[k]
            Good == {m \in Nat : P(m)}
<1>1. n \in Nat /\ \A k \in 1 .. n : seqs[k] \in Seq(S)
  OBVIOUS
<1>2. P(0)
  <2>. DEFINE h == [k \in 0 .. 0 |-> <<>>]
  <2>1. <<>> \in Seq(S)
    OBVIOUS
  <2>2. h \in [0 .. 0 -> Seq(S)] /\ h[0] = <<>> /\ 1 .. 0 = {}
    BY <2>1
  <2>. HIDE DEF h
  <2>. QED  BY <2>2
<1>3. ASSUME NEW m \in 0 .. n - 1, P(m) PROVE P(m + 1)
  <2>1. PICK h \in [0 .. m -> Seq(S)] :
          h[0] = <<>> /\ \A k \in 1 .. m : h[k] = h[k - 1] \o seqs[k]
    BY <1>3
  <2>. DEFINE g == [k \in 0 .. m + 1 |-> IF k = m + 1 THEN h[m] \o seqs[m + 1] ELSE h[k]]
  <2>2. m \in Nat /\ m + 1 \in 1 .. n
    BY <1>1
  <2>. HIDE DEF n
  <2>3. h[m] \in Seq(S) /\ seqs[m + 1] \in Seq(S)
    BY <1>1, <2>1, <2>2
  <2>4. h[m] \o seqs[m + 1] \in Seq(S)
    BY <2>3
  <2>5. g \in [0 .. m + 1 -> Seq(S)]
    BY <2>1, <2>2, <2>4
  <2>6. ASSUME NEW k \in 1 .. m + 1 PROVE g[k] = g[k - 1] \o seqs[k]
    <3>1. CASE k = m + 1
      <4>1. k - 1 = m /\ g[m] = h[m] /\ g[k] = h[m] \o seqs[m + 1]
        BY <2>2, <3>1
      <4>. QED  BY <3>1, <4>1
    <3>2. CASE k # m + 1
      <4>1. k \in 1 .. m /\ k - 1 \in 0 .. m /\ k - 1 # m + 1
        BY <2>2, <3>2
      <4>2. g[k] = h[k] /\ g[k - 1] = h[k - 1]
        BY <2>2, <3>2, <4>1
      <4>3. h[k] = h[k - 1] \o seqs[k]
        BY <2>1, <4>1
      <4>. QED  BY <4>2, <4>3
    <3>. QED  BY <3>1, <3>2
  <2>7. g[0] = <<>>
    BY <2>1, <2>2
  <2>. HIDE DEF g
  <2>. QED  BY <2>5, <2>6, <2>7
<1>. HIDE DEF P
<1>4. 0 \in Good /\ \A m \in 0 .. n - 1 : m \in Good => m + 1 \in Good
  <2>. HIDE DEF n
  <2>. QED  BY <1>1, <1>2, <1>3
<1>5. \A m \in 0 .. n : m \in Good
  <2>. HIDE DEF n, Good
  <2>. QED  BY <1>1, <1>4, InductionUpTo
<1>6. P(n)
  BY <1>1, <1>5
<1>. QED  BY <1>1, <1>6 DEF P, Chain

LEMMA FlattenIs ==
  ASSUME NEW S, NEW seqs \in Seq(Seq(S)), NEW h, Chain(h, seqs, S)
  PROVE  FlattenSeq(seqs) = h[Len(seqs)]
<1>. DEFINE n == Len(seqs)
            Def(f) == [i \in 1 .. n |-> IF i = 1 THEN seqs[i] ELSE f[i - 1] \o seqs[i]]
            flatten == CHOOSE f : f = Def(f)
<1>1. n \in Nat /\ \A k \in 1 .. n : seqs[k] \in Seq(S)
  OBVIOUS
<1>2. CASE n = 0
  BY <1>2 DEF FlattenSeq, Chain
<1>3. CASE n # 0
  <2>1. FlattenSeq(seqs) = flatten[n]
    BY <1>1, <1>3 DEF FlattenSeq
  <2>. HIDE DEF n
  <2>2. \E f : f = Def(f)
    <3>. DEFINE f == [i \in 1 .. n |-> h[i]]
    <3>1. ASSUME NEW i \in 1 .. n
          PROVE  f[i] = IF i = 1 THEN seqs[i] ELSE f[i - 1] \o seqs[i]
      <4>1. h[i] = h[i - 1] \o seqs[i] /\ h[0] = <<>>
        BY DEF Chain, n
      <4>2. CASE i = 1
        <5>1. <<>> \o seqs[i] = seqs[i]
          BY <1>1, ConcatEmptySeq
        <5>2. h[i - 1] = <<>>
          BY <4>1, <4>2
        <5>3. h[i] = seqs[i]
          BY <4>1, <5>1, <5>2
        <5>. QED  BY <4>2, <5>3
      <4>3. CASE i # 1
        <5>1. i - 1 \in 1 .. n
          BY <1>1, <4>3
        <5>. QED  BY <4>1, <4>3, <5>1
      <4>. QED  BY <4>2, <4>3
    <3>2. f = Def(f)
      BY <3>1
    <3>. QED  BY <3>2
  <2>3. flatten = Def(flatten)
    BY <2>2
  <2>. HIDE DEF flatten
  <2>. DEFINE Good == {k \in Nat : k > 0 => flatten[k] = h[k]}
  <2>4. 0 \in Good
    OBVIOUS
  <2>5. \A k \in 0 .. n - 1 : k \in Good => k + 1 \in Good
    <3>. SUFFICES ASSUME NEW k \in 0 .. n - 1, k \in Good PROVE k + 1 \in Good
      OBVIOUS
    <3>1. k + 1 \in 1 .. n /\ (k + 1) - 1 = k /\ k \in Nat
      BY <1>1
    <3>2. h[k + 1] = h[k] \o seqs[k + 1] /\ h[0] = <<>>
      BY <3>1 DEF Chain, n
    <3>3. flatten[k + 1] = IF k + 1 = 1 THEN seqs[k + 1] ELSE flatten[k] \o seqs[k + 1]
      BY <2>3, <3>1
    <3>4. CASE k = 0
      <4>1. <<>> \o seqs[k + 1] = seqs[k + 1]
        BY <1>1, <3>1, ConcatEmptySeq
      <4>2. h[k + 1] = seqs[k + 1]
        <5>1. h[k] = <<>>
          BY <3>2, <3>4
        <5>. QED  BY <3>2, <4>1, <5>1
      <4>3. flatten[k + 1] = seqs[k + 1]
        BY <3>3, <3>4
      <4>. QED  BY <3>1, <4>2, <4>3
    <3>5. CASE k # 0
      <4>1. flatten[k] = h[k] /\ k + 1 # 1
        BY <3>1, <3>5
      <4>2. flatten[k + 1] = h[k + 1]
        BY <3>2, <3>3, <4>1
      <4>. QED  BY <3>1, <4>2
    <3>. QED  BY <3>4, <3>5
  <2>6. \A k \in 0 .. n : k \in Good
    <3>. HIDE DEF Good
    <3>. QED  BY <1>1, <2>4, <2>5, InductionUpTo
  <2>7. n \in Good
    BY <1>1, <2>6
  <2>. QED  BY <1>1, <1>3, <2>1, <2>7 DEF n
<1>. QED  BY <1>2, <1>3

LEMMA FlattenType ==
  ASSUME NEW S, NEW seqs \in Seq(Seq(S))
  PROVE  FlattenSeq(seqs) \in Seq(S)
<1>1. PICK h : Chain(h, seqs, S)
  BY ChainExists
<1>2. FlattenSeq(seqs) = h[Len(seqs)]
  BY <1>1, FlattenIs
<1>3. Len(seqs) \in 0 .. Len(seqs)
  OBVIOUS
<1>. QED  BY <1>1, <1>2, <1>3 DEF Chain

LEMMA FlattenEmpty == FlattenSeq(<<>>) = <<>>
BY DEF FlattenSeq

LEMMA FlattenOne ==
  ASSUME NEW S, NEW c \in Seq(S)
  PROVE  FlattenSeq(<<c>>) = c
<1>. DEFINE seqs == <<c>>
            h == [k \in 0 .. 1 |-> IF k = 0 THEN <<>> ELSE c]
<1>1. seqs \in Seq(Seq(S)) /\ Len(seqs) = 1 /\ seqs[1] = c
  OBVIOUS
<1>2. <<>> \in Seq(S) /\ <<>> \o c = c
  BY ConcatEmptySeq
<1>3. h \in [0 .. 1 -> Seq(S)] /\ h[0] = <<>> /\ h[1] = c
  BY <1>2
<1>. HIDE DEF h, seqs
<1>4. \A k \in 1 .. 1 : k = 1 /\ k - 1 = 0
  OBVIOUS
<1>5. \A k \in 1 .. 1 : h[k] = h[k - 1] \o seqs[k]
  BY <1>1, <1>2, <1>3, <1>4
<1>6. Chain(h, seqs, S)
  BY <1>1, <1>3, <1>5 DEF Chain
<1>7. FlattenSeq(seqs) = h[Len(seqs)]
  BY <1>1, <1>6, FlattenIs
<1>. QED  BY <1>1, <1>3, <1>7 DEF seqs

LEMMA FlattenConcat ==
  ASSUME NEW S, NEW a \in Seq(Seq(S)), NEW b \in Seq(Seq(S))
  PROVE  FlattenSeq(a \o b) = FlattenSeq(a) \o FlattenSeq(b)
<1>1. PICK h : Chain(h, a, S)
  BY ChainExists
<1>2. PICK g : Chain(g, b, S)
  BY ChainExists
<1>. DEFINE m == Len(a)
            n == Len(b)
            all == a \o b
            f == [k \in 0 .. m + n |-> IF k <= m THEN h[k] ELSE h[m] \o g[k - m]]
<1>3. m \in Nat /\ n \in Nat /\ \A k \in 1 .. n : b[k] \in Seq(S)
  OBVIOUS
<1>4. /\ all \in Seq(Seq(S)) /\ Len(all) = m + n
      /\ \A k \in 1 .. m + n : all[k] = IF k <= m THEN a[k] ELSE b[k - m]
  BY ConcatProperties
<1>5. /\ h \in [0 .. m -> Seq(S)] /\ h[0] = <<>>
      /\ \A k \in 1 .. m : h[k] = h[k - 1] \o a[k]
  BY <1>1 DEF Chain
<1>6. /\ g \in [0 .. n -> Seq(S)] /\ g[0] = <<>>
      /\ \A k \in 1 .. n : g[k] = g[k - 1] \o b[k]
  BY <1>2 DEF Chain
<1>. HIDE DEF m, n, all
<1>7. h[m] \in Seq(S) /\ h[m] \o <<>> = h[m]
  <2>1. h[m] \in Seq(S)
    BY <1>3, <1>5
  <2>. QED  BY <2>1, ConcatEmptySeq
<1>8. \A k \in 0 .. n : h[m] \o g[k] \in Seq(S)
  BY <1>6, <1>7
<1>9. f \in [0 .. m + n -> Seq(S)]
  <2>1. ASSUME NEW k \in 0 .. m + n PROVE (IF k <= m THEN h[k] ELSE h[m] \o g[k - m]) \in Seq(S)
    <3>1. CASE k <= m
      BY <1>3, <1>5, <3>1
    <3>2. CASE ~(k <= m)
      <4>1. k - m \in 0 .. n
        BY <1>3, <3>2
      <4>. QED  BY <1>8, <3>2, <4>1
    <3>. QED  BY <3>1, <3>2
  <2>. QED  BY <2>1
<1>10. \A k \in 0 .. n : m + k \in 0 .. m + n /\ f[m + k] = h[m] \o g[k]
  <2>. SUFFICES ASSUME NEW k \in 0 .. n PROVE m + k \in 0 .. m + n /\ f[m + k] = h[m] \o g[k]
    OBVIOUS
  <2>1. m + k \in 0 .. m + n /\ (m + k) - m = k
    BY <1>3
  <2>2. CASE k = 0
    <3>1. m + k = m /\ m <= m
      BY <1>3, <2>2
    <3>2. f[m] = h[m]
      BY <2>1, <3>1
    <3>. QED  BY <1>6, <1>7, <2>1, <2>2, <3>1, <3>2
  <2>3. CASE k # 0
    <3>1. ~(m + k <= m)
      BY <1>3, <2>3
    <3>. QED  BY <2>1, <3>1
  <2>. QED  BY <2>2, <2>3
<1>11. ASSUME NEW k \in 1 .. m + n PROVE f[k] = f[k - 1] \o all[k]
  <2>1. CASE k <= m
    <3>1. k \in 1 .. m /\ k - 1 <= m /\ k - 1 \in 0 .. m + n /\ k \in 0 .. m + n
      BY <1>3, <2>1
    <3>2. f[k] = h[k] /\ f[k - 1] = h[k - 1] /\ all[k] = a[k]
      BY <1>4, <2>1, <3>1
    <3>3. h[k] = h[k - 1] \o a[k]
      BY <1>5, <3>1
    <3>. QED  BY <3>2, <3>3
  <2>2. CASE ~(k <= m)
    <3>. DEFINE j == k - m
    <3>1. j \in 1 .. n /\ j \in 0 .. n /\ j - 1 \in 0 .. n /\ m + j = k /\ m + (j - 1) = k - 1
      BY <1>3, <2>2
    <3>2. all[k] = b[j]
      BY <1>4, <2>2
    <3>. HIDE DEF j, f
    <3>3. f[k] = h[m] \o g[j]
      <4>1. f[m + j] = h[m] \o g[j]
        BY <1>10, <3>1
      <4>. QED  BY <3>1, <4>1
    <3>4. f[k - 1] = h[m] \o g[j - 1]
      <4>1. f[m + (j - 1)] = h[m] \o g[j - 1]
        BY <1>10, <3>1
      <4>. QED  BY <3>1, <4>1
    <3>5. g[j] = g[j - 1] \o b[j]
      BY <1>6, <3>1
    <3>6. g[j - 1] \in Seq(S) /\ b[j] \in Seq(S)
      BY <1>3, <1>6, <3>1
    <3>7. (h[m] \o g[j - 1]) \o b[j] = h[m] \o (g[j - 1] \o b[j])
      <4>. DEFINE p == h[m]
                  q == g[j - 1]
                  r == b[j]
      <4>1. p \in Seq(S) /\ q \in Seq(S) /\ r \in Seq(S)
        BY <1>7, <3>6
      <4>. HIDE DEF p, q, r
      <4>2. (p \o q) \o r = p \o (q \o r)
        <5>1. \A x, y, z \in Seq(S) : (x \o y) \o z = x \o (y \o z)
          BY ConcatAssociative
        <5>. QED  BY <4>1, <5>1
      <4>. QED  BY <4>2 DEF p, q, r
    <3>. QED  BY <3>2, <3>3, <3>4, <3>5, <3>7
  <2>. QED  BY <2>1, <2>2
<1>12. f[0] = <<>>
  BY <1>3, <1>5
<1>. HIDE DEF f
<1>13. f[m + n] = h[m] \o g[n]
  <2>1. n \in 0 .. n
    BY <1>3
  <2>. QED  BY <1>10, <2>1
<1>14. Chain(f, all, S)
  BY <1>4, <1>9, <1>11, <1>12 DEF Chain
<1>15. FlattenSeq(all) = f[m + n]
  BY <1>4, <1>14, FlattenIs
<1>16. FlattenSeq(a) = h[m] /\ FlattenSeq(b) = g[n]
  BY <1>1, <1>2, FlattenIs DEF m, n
<1>. QED  BY <1>13, <1>15, <1>16 DEF all

LEMMA FlattenAppend ==
  ASSUME NEW S, NEW cs \in Seq(Seq(S)), NEW c \in Seq(S)
  PROVE  FlattenSeq(Append(cs, c)) = FlattenSeq(cs) \o c
<1>. DEFINE one == <<c>>
<1>1. one \in Seq(Seq(S)) /\ Append(cs, c) = cs \o one
  OBVIOUS
<1>2. FlattenSeq(one) = c
  BY FlattenOne
<1>. HIDE DEF one
<1>3. FlattenSeq(cs \o one) = FlattenSeq(cs) \o FlattenSeq(one)
  BY <1>1, FlattenConcat
<1>. QED  BY <1>1, <1>2, <1>3

LEMMA FlattenTail ==
  ASSUME NEW S, NEW cs \in Seq(Seq(S)), cs # <<>>
  PROVE  /\ cs[1] \in Seq(S) /\ Tail(cs) \in Seq(Seq(S))
         /\ FlattenSeq(cs) = cs[1] \o FlattenSeq(Tail(cs))
<1>. DEFINE one == <<cs[1]>>
<1>1. Len(cs) \in Nat \ {0}
  BY EmptySeq
<1>2. cs[1] \in Seq(S)
  BY <1>1
<1>3. Tail(cs) \in Seq(Seq(S)) /\ one \in Seq(Seq(S))
  BY <1>1, <1>2
<1>4. cs = one \o Tail(cs)
  BY <1>1, <1>2, <1>3
<1>5. FlattenSeq(one) = cs[1]
  BY <1>2, FlattenOne
<1>. HIDE DEF one
<1>6. FlattenSeq(one \o Tail(cs)) = FlattenSeq(one) \o FlattenSeq(Tail(cs))
  BY <1>3, FlattenConcat
<1>. QED  BY <1>2, <1>3, <1>4, <1>5, <1>6

-----------------------------------------------------------------------------
\* The transcript a run of the notes pipeline is given.

Words == [start : Nat, end : Nat, speaker : Speakers \cup {None}, size : Nat]
Shape == [step : Nat, len : Nat, speaker : Speakers \cup {None}, size : Nat]
NoneInverted(s) == \A i \in DOMAIN s : s[i].start <= s[i].end

LEMMA WordsFields ==
  \A w \in Words : w.start \in Nat /\ w.end \in Nat /\ w.size \in Nat
BY DEF Words

PlaceStep(said, h) ==
  LET at == (IF said = <<>> THEN 0 ELSE Last(said).start) + h.step
  IN  Append(said, [start |-> at, end |-> at + h.len, speaker |-> h.speaker, size |-> h.size])

LEMMA PlaceStepType ==
  ASSUME NEW said \in Seq(Words), NEW h \in Shape
  PROVE  /\ PlaceStep(said, h) \in Seq(Words)
         /\ NoneInverted(said) /\ ByStart(said) =>
              NoneInverted(PlaceStep(said, h)) /\ ByStart(PlaceStep(said, h))
<1>. DEFINE n == Len(said)
            before == IF said = <<>> THEN 0 ELSE said[n].start
            new == [start |-> before + h.step, end |-> (before + h.step) + h.len,
                    speaker |-> h.speaker, size |-> h.size]
            out == Append(said, new)
<1>1. n \in Nat /\ DOMAIN said = 1 .. n /\ \A i \in 1 .. n : said[i] \in Words
  OBVIOUS
<1>2. said # <<>> => n \in 1 .. n
  OBVIOUS
<1>. HIDE DEF n
<1>3. before \in Nat /\ h.step \in Nat /\ h.len \in Nat
  BY <1>1, <1>2, WordsFields DEF Shape
<1>4. PlaceStep(said, h) = out
  BY DEF PlaceStep, Last, n
<1>. HIDE DEF before
<1>5. new \in Words /\ new.start = before + h.step /\ new.end = (before + h.step) + h.len
  BY <1>3 DEF Words, Shape
<1>. HIDE DEF new
<1>6. /\ out \in Seq(Words) /\ Len(out) = n + 1
      /\ out[n + 1] = new /\ \A i \in 1 .. n : out[i] = said[i]
  BY <1>5 DEF n
<1>7. DOMAIN out = 1 .. n + 1
  BY <1>6
<1>. HIDE DEF out
<1>8. ASSUME NoneInverted(said), ByStart(said) PROVE NoneInverted(out) /\ ByStart(out)
  <2>1. new.start <= new.end
    BY <1>3, <1>5
  <2>2. NoneInverted(out)
    BY <1>1, <1>6, <1>7, <1>8, <2>1 DEF NoneInverted
  <2>3. ASSUME NEW i \in 1 .. n PROVE said[i].start <= new.start
    <3>1. said # <<>> /\ n \in 1 .. n /\ (i = n \/ i < n)
      BY <1>1, <2>3
    <3>2. said[i].start <= said[n].start
      BY <1>1, <1>8, <3>1, WordsFields DEF ByStart
    <3>3. before = said[n].start
      BY <3>1 DEF before
    <3>. QED  BY <1>1, <1>3, <1>5, <3>2, <3>3, WordsFields
  <2>4. ByStart(out)
    <3>. SUFFICES ASSUME NEW i \in 1 .. n + 1, NEW j \in 1 .. n + 1, i < j
                  PROVE  out[i].start <= out[j].start
      BY <1>7 DEF ByStart
    <3>1. CASE j = n + 1
      BY <1>1, <1>6, <2>3, <3>1
    <3>2. CASE j # n + 1
      <4>1. i \in 1 .. n /\ j \in 1 .. n
        BY <1>1, <3>2
      <4>. QED  BY <1>1, <1>6, <1>8, <4>1 DEF ByStart
    <3>. QED  BY <3>1, <3>2
  <2>. QED  BY <2>2, <2>4
<1>. QED  BY <1>4, <1>6, <1>8

\* The segments of a transcript, one after the other.
LEMMA PlaceSteps ==
  ASSUME NEW shapes \in Seq(Shape)
  PROVE  \E h : /\ h \in [0 .. Len(shapes) -> Seq(Words)] /\ h[0] = <<>>
                /\ \A k \in 1 .. Len(shapes) :
                     /\ h[k - 1] \in Seq(Words)
                     /\ h[k] = PlaceStep(h[k - 1], shapes[k])
                /\ place(shapes) = h[Len(shapes)]
<1>. DEFINE xs == shapes
            n == Len(xs)
            S == Seq(Words)
            b == <<>>
            F == [k \in 1 .. n |-> [x \in S |-> PlaceStep(x, xs[k])]]
            Def(g) == [T \in SUBSET (1 .. n) |->
                         IF T = {} THEN b ELSE PlaceStep(g[T \ {Max(T)}], xs[Max(T)])]
            it == CHOOSE g : g = Def(g)
<1>1. n \in Nat /\ DOMAIN xs = 1 .. n /\ b \in S
  OBVIOUS
<1>2. \A k \in 1 .. n, x \in S : PlaceStep(x, xs[k]) \in S
  BY <1>1, PlaceStepType
<1>3. F \in [1 .. n -> [S -> S]]
  BY <1>2
<1>4. place(shapes) = it[1 .. n]
  BY <1>1 DEF place, PlaceStep, FoldLeft, MapThenFoldSet
<1>5. \E g : g = Def(g)
  <2>1. PICK g \in [SUBSET (1 .. n) -> S] : FoldEquation(g, n, b, F)
    <3>. HIDE DEF F, n, S, b
    <3>. QED  BY <1>1, <1>3, FoldExists
  <2>2. \A T \in SUBSET (1 .. n) : T # {} =>
          F[Max(T)][g[T \ {Max(T)}]] = PlaceStep(g[T \ {Max(T)}], xs[Max(T)])
    <3>. HIDE DEF n, S, b
    <3>. QED  BY <1>1, MaxOfPart
  <2>. QED  BY <2>1, <2>2 DEF FoldEquation
<1>6. it = Def(it)
  BY <1>5
<1>. HIDE DEF it
<1>7. Folds(it, n, S, b, F)
  BY <1>1, <1>6, MaxOfPart DEF Folds
<1>8. PICK h : Steps(h, n, S, b, F) /\ it[1 .. n] = h[n]
  <2>. HIDE DEF F, n, S, b, Def
  <2>1. \A G \in [1 .. n -> [S -> S]] : \A g : Folds(g, n, S, b, G) =>
           \E h : Steps(h, n, S, b, G) /\ g[1 .. n] = h[n]
    BY <1>1, FoldSteps
  <2>. QED  BY <1>3, <1>7, <2>1
<1>9. \A k \in 1 .. n : h[k - 1] \in S /\ h[k] = PlaceStep(h[k - 1], xs[k])
  BY <1>8 DEF Steps
<1>. QED  BY <1>1, <1>4, <1>8, <1>9 DEF Steps

LEMMA TranscriptsType ==
  ASSUME NEW t \in Transcripts
  PROVE  t \in Seq(Words) /\ NoneInverted(t) /\ ByStart(t)
<1>1. PICK shapes \in UNION {[1 .. n -> Shapes] : n \in 0 .. MaxSegments} : t = place(shapes)
  BY DEF Transcripts
<1>2. shapes \in Seq(Shape)
  <2>1. PICK n \in 0 .. MaxSegments : shapes \in [1 .. n -> Shapes]
    BY <1>1
  <2>2. n \in Nat /\ Shapes \subseteq Shape
    <3>1. MaxSegments \in Nat
      BY BudgetIsPositive
    <3>2. Shapes \subseteq Shape
      BY BudgetIsPositive, Zenon DEF Shape
    <3>. QED  BY <3>1, <3>2
  <2>3. shapes \in [1 .. n -> Shape]
    BY <2>1, <2>2
  <2>. QED  BY <2>2, <2>3
<1>. DEFINE n == Len(shapes)
<1>3. n \in Nat /\ \A k \in 1 .. n : shapes[k] \in Shape
  BY <1>2
<1>4. PICK h :
        /\ h \in [0 .. n -> Seq(Words)] /\ h[0] = <<>>
        /\ \A k \in 1 .. n : h[k - 1] \in Seq(Words) /\ h[k] = PlaceStep(h[k - 1], shapes[k])
        /\ place(shapes) = h[n]
  BY <1>2, PlaceSteps
<1>. HIDE DEF n
<1>. DEFINE Good == {k \in Nat : NoneInverted(h[k]) /\ ByStart(h[k])}
<1>5. 0 \in Good
  <2>1. DOMAIN <<>> = {}
    OBVIOUS
  <2>2. NoneInverted(h[0]) /\ ByStart(h[0])
    BY <1>4, <2>1 DEF NoneInverted, ByStart
  <2>. QED  BY <2>2
<1>6. \A k \in 0 .. n - 1 : k \in Good => k + 1 \in Good
  <2>. SUFFICES ASSUME NEW k \in 0 .. n - 1, k \in Good PROVE k + 1 \in Good
    OBVIOUS
  <2>1. k + 1 \in 1 .. n /\ (k + 1) - 1 = k /\ k + 1 \in Nat
    BY <1>3
  <2>2. h[k] \in Seq(Words) /\ h[k + 1] = PlaceStep(h[k], shapes[k + 1])
    BY <1>4, <2>1
  <2>3. shapes[k + 1] \in Shape
    BY <1>3, <2>1
  <2>4. NoneInverted(h[k]) /\ ByStart(h[k])
    OBVIOUS
  <2>5. NoneInverted(h[k + 1]) /\ ByStart(h[k + 1])
    BY <2>2, <2>3, <2>4, PlaceStepType
  <2>. QED  BY <2>1, <2>5
<1>7. \A k \in 0 .. n : k \in Good
  <2>. HIDE DEF Good
  <2>. QED  BY <1>3, <1>5, <1>6, InductionUpTo
<1>8. n \in Good /\ n \in 0 .. n
  BY <1>3, <1>7
<1>9. NoneInverted(h[n]) /\ ByStart(h[n])
  BY <1>8
<1>10. h[n] \in Seq(Words)
  BY <1>4, <1>8
<1>11. t = h[n]
  <2>1. t = place(shapes)
    BY <1>1
  <2>2. place(shapes) = h[n]
    BY <1>4
  <2>. QED  BY <2>1, <2>2, Zenon
<1>. QED  BY <1>9, <1>10, <1>11

-----------------------------------------------------------------------------
\* The sections of a transcript.

Consec(lo, hi) == [j \in 1 .. hi - lo |-> lo + j]
Part(lo, hi) ==
  [start |-> transcript[lo + 1].start, end |-> transcript[hi].end, idx |-> Consec(lo, hi)]
Section == [start : Nat, end : Nat, idx : Seq(Nat)]

\* The sections are consecutive non-empty parts of the first n segments; b[k] is
\* where section k ends.
Bounds(b, ss, n) ==
  /\ b \in [0 .. Len(ss) -> 0 .. n] /\ b[0] = 0 /\ b[Len(ss)] = n
  /\ \A k \in 1 .. Len(ss) : b[k - 1] < b[k] /\ ss[k] = Part(b[k - 1], b[k])
Tiles(ss, n) == ss \in Seq(Section) /\ \E b : Bounds(b, ss, n)

LEMMA ConsecType ==
  ASSUME NEW lo \in Nat, NEW hi \in Nat, lo <= hi
  PROVE  Consec(lo, hi) \in Seq(Nat) /\ Len(Consec(lo, hi)) = hi - lo
<1>1. hi - lo \in Nat /\ \A j \in 1 .. hi - lo : lo + j \in Nat
  OBVIOUS
<1>. DEFINE n == hi - lo
            c == [j \in 1 .. n |-> lo + j]
<1>2. c \in [1 .. n -> Nat]
  BY <1>1
<1>. HIDE DEF n
<1>3. c \in Seq(Nat) /\ Len(c) = n
  BY <1>1, <1>2 DEF n
<1>. QED  BY <1>3 DEF Consec, n

LEMMA ConsecConcat ==
  ASSUME NEW lo \in Nat, NEW mid \in Nat, NEW hi \in Nat, lo <= mid, mid <= hi
  PROVE  Consec(lo, mid) \o Consec(mid, hi) = Consec(lo, hi)
<1>. DEFINE a == Consec(lo, mid)
            c == Consec(mid, hi)
            all == Consec(lo, hi)
<1>1. /\ a \in Seq(Nat) /\ Len(a) = mid - lo /\ c \in Seq(Nat) /\ Len(c) = hi - mid
      /\ all \in Seq(Nat) /\ Len(all) = hi - lo
  <2>1. a \in Seq(Nat) /\ Len(a) = mid - lo
    BY ConsecType
  <2>2. c \in Seq(Nat) /\ Len(c) = hi - mid
    BY ConsecType
  <2>3. lo <= hi
    OBVIOUS
  <2>4. all \in Seq(Nat) /\ Len(all) = hi - lo
    BY <2>3, ConsecType
  <2>. QED  BY <2>1, <2>2, <2>4
<1>2. /\ \A j \in 1 .. mid - lo : a[j] = lo + j
      /\ \A j \in 1 .. hi - mid : c[j] = mid + j
      /\ \A j \in 1 .. hi - lo : all[j] = lo + j
  BY DEF Consec
<1>. HIDE DEF a, c, all
<1>. DEFINE ac == a \o c
<1>3. /\ ac \in Seq(Nat) /\ Len(ac) = (mid - lo) + (hi - mid)
      /\ \A i \in 1 .. (mid - lo) + (hi - mid) : ac[i] = IF i <= mid - lo THEN a[i] ELSE c[i - (mid - lo)]
  <2>1. /\ ac \in Seq(Nat) /\ Len(ac) = Len(a) + Len(c)
        /\ \A i \in 1 .. Len(a) + Len(c) : ac[i] = IF i <= Len(a) THEN a[i] ELSE c[i - Len(a)]
    BY <1>1, ConcatProperties
  <2>2. Len(a) = mid - lo /\ Len(c) = hi - mid
    BY <1>1
  <2>. HIDE DEF ac
  <2>. QED  BY <2>1, <2>2
<1>. HIDE DEF ac
<1>4. (mid - lo) + (hi - mid) = hi - lo
  OBVIOUS
<1>5. ASSUME NEW i \in 1 .. hi - lo PROVE ac[i] = all[i]
  <2>1. CASE i <= mid - lo
    <3>1. i \in 1 .. mid - lo
      BY <2>1
    <3>. QED  BY <1>2, <1>3, <1>4, <2>1, <3>1
  <2>2. CASE ~(i <= mid - lo)
    <3>1. i - (mid - lo) \in 1 .. hi - mid /\ mid + (i - (mid - lo)) = lo + i
      BY <2>2
    <3>2. ac[i] = c[i - (mid - lo)]
      BY <1>3, <1>4, <2>2
    <3>. QED  BY <1>2, <3>1, <3>2
  <2>. QED  BY <2>1, <2>2
<1>6. Len(ac) = Len(all)
  BY <1>1, <1>3, <1>4
<1>7. ac = all
  BY <1>1, <1>3, <1>4, <1>5, <1>6
<1>. QED  BY <1>7 DEF a, c, all, ac

LEMMA PartType ==
  ASSUME transcript \in Seq(Words), NEW lo \in Nat, NEW hi \in 1 .. Len(transcript), lo < hi
  PROVE  Part(lo, hi) \in Section
<1>1. lo + 1 \in 1 .. Len(transcript) /\ lo + 1 \in Nat /\ hi \in Nat
  OBVIOUS
<1>2. transcript[lo + 1] \in Words /\ transcript[hi] \in Words
  BY <1>1
<1>3. Consec(lo, hi) \in Seq(Nat)
  BY <1>1, ConsecType
<1>4. transcript[lo + 1].start \in Nat /\ transcript[hi].end \in Nat
  BY <1>2, WordsFields
<1>. QED  BY <1>3, <1>4 DEF Part, Section

\* A section begun behind the others.
LEMMA TilesAppend ==
  ASSUME transcript \in Seq(Words), NEW ss, NEW lo \in Nat, Tiles(ss, lo),
         NEW hi \in 1 .. Len(transcript), lo < hi
  PROVE  Tiles(Append(ss, Part(lo, hi)), hi)
<1>. DEFINE new == Part(lo, hi)
            out == Append(ss, new)
            n == Len(ss)
<1>1. new \in Section
  BY PartType
<1>2. ss \in Seq(Section) /\ n \in Nat
  BY DEF Tiles
<1>3. PICK b : Bounds(b, ss, lo)
  BY DEF Tiles
<1>4. hi \in Nat
  OBVIOUS
<1>. HIDE DEF new
<1>5. /\ out \in Seq(Section) /\ Len(out) = n + 1
      /\ out[n + 1] = new /\ \A i \in 1 .. n : out[i] = ss[i]
  BY <1>1, <1>2
<1>6. /\ b \in [0 .. n -> 0 .. lo] /\ b[0] = 0 /\ b[n] = lo
      /\ \A k \in 1 .. n : b[k - 1] < b[k] /\ ss[k] = Part(b[k - 1], b[k])
  BY <1>3 DEF Bounds
<1>. HIDE DEF n, out
<1>. DEFINE c == [k \in 0 .. n + 1 |-> IF k = n + 1 THEN hi ELSE b[k]]
<1>7. c \in [0 .. n + 1 -> 0 .. hi] /\ c[0] = 0 /\ c[n + 1] = hi
  BY <1>2, <1>4, <1>6
<1>8. \A k \in 0 .. n : c[k] = b[k]
  BY <1>2
<1>. HIDE DEF c
<1>9. ASSUME NEW k \in 1 .. n + 1 PROVE c[k - 1] < c[k] /\ out[k] = Part(c[k - 1], c[k])
  <2>1. CASE k = n + 1
    <3>1. k - 1 = n /\ n \in 0 .. n
      BY <1>2, <2>1
    <3>2. c[k - 1] = lo
      BY <1>6, <1>8, <3>1
    <3>3. c[k] = hi /\ out[k] = new
      BY <1>5, <1>7, <2>1
    <3>. QED  BY <3>2, <3>3 DEF new
  <2>2. CASE k # n + 1
    <3>1. k \in 1 .. n /\ k \in 0 .. n /\ k - 1 \in 0 .. n
      BY <1>2, <2>2
    <3>2. c[k] = b[k] /\ c[k - 1] = b[k - 1] /\ out[k] = ss[k]
      BY <1>5, <1>8, <3>1
    <3>. QED  BY <1>6, <3>1, <3>2
  <2>. QED  BY <2>1, <2>2
<1>10. Bounds(c, out, hi)
  BY <1>5, <1>7, <1>9 DEF Bounds
<1>. QED  BY <1>5, <1>10 DEF Tiles, out, new

\* The last section made longer.
LEMMA TilesExtend ==
  ASSUME transcript \in Seq(Words), NEW ss, NEW mid \in Nat, Tiles(ss, mid), ss # <<>>,
         NEW hi \in 1 .. Len(transcript), mid < hi
  PROVE  Tiles([ss EXCEPT ![Len(ss)] = Extend(@, transcript[hi].end, Consec(mid, hi))], hi)
<1>. DEFINE n == Len(ss)
            new == Extend(ss[n], transcript[hi].end, Consec(mid, hi))
            out == [ss EXCEPT ![n] = new]
<1>1. ss \in Seq(Section) /\ n \in Nat /\ n \in 1 .. n /\ n - 1 \in 0 .. n
  <2>1. ss \in Seq(Section)
    BY DEF Tiles
  <2>2. n \in Nat \ {0}
    BY <2>1, EmptySeq
  <2>. QED  BY <2>1, <2>2
<1>2. PICK b : Bounds(b, ss, mid)
  BY DEF Tiles
<1>3. hi \in Nat
  OBVIOUS
<1>4. /\ b \in [0 .. n -> 0 .. mid] /\ b[0] = 0 /\ b[n] = mid
      /\ \A k \in 1 .. n : b[k - 1] < b[k] /\ ss[k] = Part(b[k - 1], b[k])
  BY <1>2 DEF Bounds
<1>. HIDE DEF n
<1>. DEFINE lo == b[n - 1]
<1>5. lo \in Nat /\ lo < mid /\ ss[n] = Part(lo, mid)
  BY <1>1, <1>4
<1>. HIDE DEF lo
<1>6. new = Part(lo, hi) /\ new \in Section
  <2>1. Consec(lo, mid) \o Consec(mid, hi) = Consec(lo, hi)
    <3>1. lo <= mid /\ mid <= hi
      BY <1>3, <1>5
    <3>. QED  BY <1>3, <1>5, <3>1, ConsecConcat
  <2>2. ss[n] \in Section /\ ss[n].start = transcript[lo + 1].start /\ ss[n].idx = Consec(lo, mid)
    <3>1. ss[n] \in Section
      BY <1>1 DEF n
    <3>. QED  BY <1>5, <3>1 DEF Part
  <2>3. new = [start |-> transcript[lo + 1].start, end |-> transcript[hi].end,
               idx |-> Consec(lo, mid) \o Consec(mid, hi)]
    BY <2>2 DEF Extend
  <2>4. lo < hi
    BY <1>3, <1>5
  <2>. QED  BY <1>5, <2>1, <2>3, <2>4, PartType DEF Part
<1>. HIDE DEF new
<1>7. /\ out \in Seq(Section) /\ Len(out) = n
      /\ out[n] = new /\ \A i \in 1 .. n : i # n => out[i] = ss[i]
  BY <1>1, <1>6 DEF n
<1>. HIDE DEF out
<1>. DEFINE c == [k \in 0 .. n |-> IF k = n THEN hi ELSE b[k]]
<1>8. c \in [0 .. n -> 0 .. hi] /\ c[0] = 0 /\ c[n] = hi
  BY <1>1, <1>3, <1>4
<1>9. \A k \in 0 .. n : k # n => c[k] = b[k]
  OBVIOUS
<1>. HIDE DEF c
<1>10. ASSUME NEW k \in 1 .. n PROVE c[k - 1] < c[k] /\ out[k] = Part(c[k - 1], c[k])
  <2>1. CASE k = n
    <3>1. n - 1 # n
      BY <1>1
    <3>2. c[n - 1] = lo
      BY <1>1, <1>9, <3>1 DEF lo
    <3>3. lo < hi
      BY <1>3, <1>5
    <3>. QED  BY <1>6, <1>7, <1>8, <2>1, <3>2, <3>3
  <2>2. CASE k # n
    <3>1. k \in 0 .. n /\ k - 1 \in 0 .. n /\ k - 1 # n
      BY <1>1, <2>2
    <3>2. c[k] = b[k] /\ c[k - 1] = b[k - 1] /\ out[k] = ss[k]
      BY <1>7, <1>9, <2>2, <3>1
    <3>. QED  BY <1>4, <3>1, <3>2
  <2>. QED  BY <2>1, <2>2
<1>11. Bounds(c, out, hi)
  BY <1>7, <1>8, <1>10 DEF Bounds
<1>12. Tiles(out, hi)
  BY <1>7, <1>11 DEF Tiles
<1>. QED  BY <1>12 DEF out, new, n

ScanStep(n, s) == n + Len(s.idx)

\* The count of the segments scanned.
LEMMA ScanSteps ==
  ASSUME sections \in Seq(Section)
  PROVE  \E h : /\ h \in [0 .. Len(sections) -> Nat] /\ h[0] = 0
                /\ \A k \in 1 .. Len(sections) :
                     /\ h[k - 1] \in Nat
                     /\ h[k] = ScanStep(h[k - 1], sections[k])
                /\ Scanned = h[Len(sections)]
<1>. DEFINE xs == sections
            n == Len(xs)
            S == Nat
            b == 0
            F == [k \in 1 .. n |-> [x \in S |-> ScanStep(x, xs[k])]]
            Def(g) == [T \in SUBSET (1 .. n) |->
                         IF T = {} THEN b ELSE ScanStep(g[T \ {Max(T)}], xs[Max(T)])]
            it == CHOOSE g : g = Def(g)
<1>1. n \in Nat /\ DOMAIN xs = 1 .. n /\ b \in S
  OBVIOUS
<1>2. \A k \in 1 .. n, x \in S : ScanStep(x, xs[k]) \in S
  <2>1. \A s \in Section : Len(s.idx) \in Nat
    <3>1. \A s \in Section : s.idx \in Seq(Nat)
      BY DEF Section
    <3>. QED  BY <3>1
  <2>2. \A k \in 1 .. n : xs[k] \in Section
    BY <1>1
  <2>. HIDE DEF n, xs
  <2>. QED  BY <2>1, <2>2 DEF ScanStep
<1>3. F \in [1 .. n -> [S -> S]]
  BY <1>2
<1>4. Scanned = it[1 .. n]
  BY <1>1 DEF Scanned, ScanStep, FoldLeft, MapThenFoldSet
<1>5. \E g : g = Def(g)
  <2>1. PICK g \in [SUBSET (1 .. n) -> S] : FoldEquation(g, n, b, F)
    <3>. HIDE DEF F, n, S, b
    <3>. QED  BY <1>1, <1>3, FoldExists
  <2>2. \A T \in SUBSET (1 .. n) : T # {} =>
          F[Max(T)][g[T \ {Max(T)}]] = ScanStep(g[T \ {Max(T)}], xs[Max(T)])
    <3>. HIDE DEF n, S, b
    <3>. QED  BY <1>1, MaxOfPart
  <2>. QED  BY <2>1, <2>2 DEF FoldEquation
<1>6. it = Def(it)
  BY <1>5
<1>. HIDE DEF it
<1>7. Folds(it, n, S, b, F)
  BY <1>1, <1>6, MaxOfPart DEF Folds
<1>8. PICK h : Steps(h, n, S, b, F) /\ it[1 .. n] = h[n]
  <2>. HIDE DEF F, n, S, b, Def
  <2>1. \A G \in [1 .. n -> [S -> S]] : \A g : Folds(g, n, S, b, G) =>
           \E h : Steps(h, n, S, b, G) /\ g[1 .. n] = h[n]
    BY <1>1, FoldSteps
  <2>. QED  BY <1>3, <1>7, <2>1
<1>9. \A k \in 1 .. n : h[k - 1] \in S /\ h[k] = ScanStep(h[k - 1], xs[k])
  BY <1>8 DEF Steps
<1>. QED  BY <1>1, <1>4, <1>8, <1>9 DEF Steps

LEMMA TilesScanned ==
  ASSUME NEW n \in Nat, Tiles(sections, n)
  PROVE  Scanned = n
<1>. DEFINE m == Len(sections)
<1>1. sections \in Seq(Section) /\ m \in Nat
  BY DEF Tiles
<1>2. PICK b : Bounds(b, sections, n)
  BY DEF Tiles
<1>3. PICK h :
        /\ h \in [0 .. m -> Nat] /\ h[0] = 0
        /\ \A k \in 1 .. m : h[k - 1] \in Nat /\ h[k] = ScanStep(h[k - 1], sections[k])
        /\ Scanned = h[m]
  BY <1>1, ScanSteps
<1>4. /\ b \in [0 .. m -> 0 .. n] /\ b[0] = 0 /\ b[m] = n
      /\ \A k \in 1 .. m : b[k - 1] < b[k] /\ sections[k] = Part(b[k - 1], b[k])
  BY <1>2 DEF Bounds
<1>. HIDE DEF m
<1>. DEFINE Good == {k \in Nat : h[k] = b[k]}
<1>5. 0 \in Good
  BY <1>3, <1>4
<1>6. \A k \in 0 .. m - 1 : k \in Good => k + 1 \in Good
  <2>. SUFFICES ASSUME NEW k \in 0 .. m - 1, k \in Good PROVE k + 1 \in Good
    OBVIOUS
  <2>1. k + 1 \in 1 .. m /\ (k + 1) - 1 = k /\ k + 1 \in Nat /\ k \in 0 .. m /\ k + 1 \in 0 .. m
    BY <1>1
  <2>2. b[k] < b[k + 1] /\ sections[k + 1] = Part(b[k], b[k + 1])
    BY <1>4, <2>1
  <2>3. b[k] \in Nat /\ b[k + 1] \in Nat
    BY <1>4, <2>1
  <2>4. Len(sections[k + 1].idx) = b[k + 1] - b[k]
    <3>1. sections[k + 1].idx = Consec(b[k], b[k + 1])
      BY <2>2 DEF Part
    <3>2. b[k] <= b[k + 1]
      BY <2>2, <2>3
    <3>3. Len(Consec(b[k], b[k + 1])) = b[k + 1] - b[k]
      BY <2>3, <3>2, ConsecType
    <3>. QED  BY <3>1, <3>3
  <2>5. h[k + 1] = ScanStep(h[k], sections[k + 1])
    BY <1>3, <2>1
  <2>6. h[k] = b[k]
    OBVIOUS
  <2>7. h[k + 1] = b[k + 1]
    BY <2>3, <2>4, <2>5, <2>6 DEF ScanStep
  <2>. QED  BY <2>1, <2>7
<1>7. \A k \in 0 .. m : k \in Good
  <2>. HIDE DEF Good
  <2>. QED  BY <1>1, <1>5, <1>6, InductionUpTo
<1>8. m \in Good
  BY <1>1, <1>7
<1>. QED  BY <1>3, <1>4, <1>8

JoinStep(out, s) ==
  IF Monus(s.end, s.start) < min_section_ms /\ out # <<>>
  THEN [out EXCEPT ![Len(out)] = Extend(@, s.end, s.idx)]
  ELSE Append(out, s)

LEMMA JoinStepType ==
  ASSUME NEW out \in Seq(Section), NEW s \in Section
  PROVE  JoinStep(out, s) \in Seq(Section)
<1>1. CASE Monus(s.end, s.start) < min_section_ms /\ out # <<>>
  <2>1. Len(out) \in 1 .. Len(out) /\ out[Len(out)] \in Section
    BY <1>1
  <2>2. Extend(out[Len(out)], s.end, s.idx) \in Section
    <3>. DEFINE p == out[Len(out)]
    <3>1. p \in Section
      BY <2>1
    <3>. HIDE DEF p
    <3>2. p.start \in Nat /\ p.idx \in Seq(Nat) /\ s.end \in Nat /\ s.idx \in Seq(Nat)
      BY <3>1 DEF Section
    <3>3. p.idx \o s.idx \in Seq(Nat)
      BY <3>2
    <3>4. Extend(p, s.end, s.idx) \in Section
      BY <3>2, <3>3 DEF Section, Extend
    <3>. QED  BY <3>4 DEF p
  <2>. QED  BY <1>1, <2>1, <2>2 DEF JoinStep
<1>2. CASE ~(Monus(s.end, s.start) < min_section_ms /\ out # <<>>)
  BY <1>2 DEF JoinStep
<1>. QED  BY <1>1, <1>2

\* The loop of merge_short_sections.
LEMMA JoinSteps ==
  ASSUME NEW ss \in Seq(Section)
  PROVE  \E h : /\ h \in [0 .. Len(ss) -> Seq(Section)] /\ h[0] = <<>>
                /\ \A k \in 1 .. Len(ss) :
                     /\ h[k - 1] \in Seq(Section)
                     /\ h[k] = JoinStep(h[k - 1], ss[k])
                /\ merge_short_sections(ss) = h[Len(ss)]
<1>. DEFINE xs == ss
            n == Len(xs)
            S == Seq(Section)
            b == <<>>
            F == [k \in 1 .. n |-> [x \in S |-> JoinStep(x, xs[k])]]
            Def(g) == [T \in SUBSET (1 .. n) |->
                         IF T = {} THEN b ELSE JoinStep(g[T \ {Max(T)}], xs[Max(T)])]
            it == CHOOSE g : g = Def(g)
<1>1. n \in Nat /\ DOMAIN xs = 1 .. n /\ b \in S
  OBVIOUS
<1>2. \A k \in 1 .. n, x \in S : JoinStep(x, xs[k]) \in S
  BY <1>1, JoinStepType
<1>3. F \in [1 .. n -> [S -> S]]
  BY <1>2
<1>4. merge_short_sections(ss) = it[1 .. n]
  BY <1>1 DEF merge_short_sections, JoinStep, FoldLeft, MapThenFoldSet
<1>5. \E g : g = Def(g)
  <2>1. PICK g \in [SUBSET (1 .. n) -> S] : FoldEquation(g, n, b, F)
    <3>. HIDE DEF F, n, S, b
    <3>. QED  BY <1>1, <1>3, FoldExists
  <2>2. \A T \in SUBSET (1 .. n) : T # {} =>
          F[Max(T)][g[T \ {Max(T)}]] = JoinStep(g[T \ {Max(T)}], xs[Max(T)])
    <3>. HIDE DEF n, S, b
    <3>. QED  BY <1>1, MaxOfPart
  <2>. QED  BY <2>1, <2>2 DEF FoldEquation
<1>6. it = Def(it)
  BY <1>5
<1>. HIDE DEF it
<1>7. Folds(it, n, S, b, F)
  BY <1>1, <1>6, MaxOfPart DEF Folds
<1>8. PICK h : Steps(h, n, S, b, F) /\ it[1 .. n] = h[n]
  <2>. HIDE DEF F, n, S, b, Def
  <2>1. \A G \in [1 .. n -> [S -> S]] : \A g : Folds(g, n, S, b, G) =>
           \E h : Steps(h, n, S, b, G) /\ g[1 .. n] = h[n]
    BY <1>1, FoldSteps
  <2>. QED  BY <1>3, <1>7, <2>1
<1>9. \A k \in 1 .. n : h[k - 1] \in S /\ h[k] = JoinStep(h[k - 1], xs[k])
  BY <1>8 DEF Steps
<1>. QED  BY <1>1, <1>4, <1>8, <1>9 DEF Steps

\* Joining short sections to the ones before them leaves out no segment.
LEMMA TilesMerged ==
  ASSUME transcript \in Seq(Words), NEW ss, NEW n \in 0 .. Len(transcript), Tiles(ss, n)
  PROVE  Tiles(merge_short_sections(ss), n)
<1>. DEFINE m == Len(ss)
<1>1. ss \in Seq(Section) /\ m \in Nat
  BY DEF Tiles
<1>2. PICK b : Bounds(b, ss, n)
  BY DEF Tiles
<1>3. PICK h :
        /\ h \in [0 .. m -> Seq(Section)] /\ h[0] = <<>>
        /\ \A k \in 1 .. m : h[k - 1] \in Seq(Section) /\ h[k] = JoinStep(h[k - 1], ss[k])
        /\ merge_short_sections(ss) = h[m]
  BY <1>1, JoinSteps
<1>4. /\ b \in [0 .. m -> 0 .. n] /\ b[0] = 0 /\ b[m] = n
      /\ \A k \in 1 .. m : b[k - 1] < b[k] /\ ss[k] = Part(b[k - 1], b[k])
  BY <1>2 DEF Bounds
<1>5. Len(transcript) \in Nat /\ n \in Nat
  OBVIOUS
<1>. HIDE DEF m
<1>. DEFINE Good == {k \in Nat : Tiles(h[k], b[k])}
<1>6. 0 \in Good
  <2>. DEFINE e == <<>>
              c == [k \in 0 .. 0 |-> 0]
  <2>1. e \in Seq(Section) /\ Len(e) = 0
    OBVIOUS
  <2>2. c \in [0 .. 0 -> 0 .. 0] /\ c[0] = 0 /\ 1 .. 0 = {}
    OBVIOUS
  <2>. HIDE DEF e, c
  <2>3. Tiles(e, 0)
    BY <2>1, <2>2 DEF Tiles, Bounds
  <2>. QED  BY <1>3, <1>4, <2>3 DEF e
<1>7. \A k \in 0 .. m - 1 : k \in Good => k + 1 \in Good
  <2>. SUFFICES ASSUME NEW k \in 0 .. m - 1, k \in Good PROVE k + 1 \in Good
    OBVIOUS
  <2>. DEFINE lo == b[k]
              hi == b[k + 1]
              out == h[k]
              s == ss[k + 1]
  <2>1. k + 1 \in 1 .. m /\ (k + 1) - 1 = k /\ k + 1 \in Nat /\ k \in 0 .. m /\ k + 1 \in 0 .. m
    BY <1>1
  <2>2. lo < hi /\ s = Part(lo, hi)
    BY <1>4, <2>1
  <2>3. lo \in 0 .. n /\ hi \in 0 .. n
    BY <1>4, <2>1
  <2>4. out \in Seq(Section) /\ h[k + 1] = JoinStep(out, s)
    BY <1>3, <2>1
  <2>5. Tiles(out, lo)
    OBVIOUS
  <2>. HIDE DEF lo, hi, out, s
  <2>6. lo \in Nat /\ hi \in 1 .. Len(transcript)
    BY <1>5, <2>2, <2>3
  <2>7. Tiles(JoinStep(out, s), hi)
    <3>1. CASE Monus(s.end, s.start) < min_section_ms /\ out # <<>>
      <4>1. s.end = transcript[hi].end /\ s.idx = Consec(lo, hi)
        BY <2>2 DEF Part
      <4>2. JoinStep(out, s) = [out EXCEPT ![Len(out)] = Extend(@, transcript[hi].end, Consec(lo, hi))]
        BY <3>1, <4>1 DEF JoinStep
      <4>3. Tiles([out EXCEPT ![Len(out)] = Extend(@, transcript[hi].end, Consec(lo, hi))], hi)
        BY <2>2, <2>5, <2>6, <3>1, TilesExtend
      <4>. QED  BY <4>2, <4>3
    <3>2. CASE ~(Monus(s.end, s.start) < min_section_ms /\ out # <<>>)
      <4>1. JoinStep(out, s) = Append(out, Part(lo, hi))
        BY <2>2, <3>2 DEF JoinStep
      <4>2. Tiles(Append(out, Part(lo, hi)), hi)
        BY <2>2, <2>5, <2>6, TilesAppend
      <4>. QED  BY <4>1, <4>2
    <3>. QED  BY <3>1, <3>2
  <2>. QED  BY <2>1, <2>4, <2>7 DEF hi
<1>8. \A k \in 0 .. m : k \in Good
  <2>. HIDE DEF Good
  <2>. QED  BY <1>1, <1>6, <1>7, InductionUpTo
<1>9. m \in Good
  BY <1>1, <1>8
<1>. QED  BY <1>3, <1>4, <1>9

\* What a reader of the sections relies on.
LEMMA TilesFlatten ==
  ASSUME NEW n \in Nat, Tiles(sections, n)
  PROVE  FlattenSeq([k \in DOMAIN sections |-> sections[k].idx]) = Consec(0, n)
<1>. DEFINE m == Len(sections)
            seqs == [k \in DOMAIN sections |-> sections[k].idx]
<1>1. sections \in Seq(Section) /\ m \in Nat /\ DOMAIN sections = 1 .. m
  BY DEF Tiles
<1>2. PICK b : Bounds(b, sections, n)
  BY DEF Tiles
<1>3. /\ b \in [0 .. m -> 0 .. n] /\ b[0] = 0 /\ b[m] = n
      /\ \A k \in 1 .. m : b[k - 1] < b[k] /\ sections[k] = Part(b[k - 1], b[k])
  BY <1>2 DEF Bounds
<1>4. \A k \in 1 .. m : sections[k] \in Section
  BY <1>1
<1>5. \A k \in 1 .. m : sections[k].idx \in Seq(Nat)
  BY <1>4 DEF Section
<1>. HIDE DEF m
<1>6. seqs \in [1 .. m -> Seq(Nat)] /\ \A k \in 1 .. m : seqs[k] = sections[k].idx
  BY <1>1, <1>5
<1>. HIDE DEF seqs
<1>7. seqs \in Seq(Seq(Nat)) /\ Len(seqs) = m
  BY <1>1, <1>6
<1>. DEFINE h == [k \in 0 .. m |-> Consec(0, b[k])]
<1>8. \A k \in 0 .. m : b[k] \in Nat /\ 0 <= b[k]
  BY <1>3
<1>9. \A k \in 0 .. m : Consec(0, b[k]) \in Seq(Nat)
  BY <1>8, ConsecType
<1>10. h \in [0 .. m -> Seq(Nat)] /\ \A k \in 0 .. m : h[k] = Consec(0, b[k])
  BY <1>9
<1>. HIDE DEF h
<1>11. h[0] = <<>>
  <2>1. 0 \in 0 .. m /\ 0 \in Nat
    BY <1>1
  <2>2. Consec(0, 0) \in Seq(Nat) /\ Len(Consec(0, 0)) = 0
    BY <2>1, ConsecType
  <2>3. Consec(0, 0) = <<>>
    BY <2>2, EmptySeq
  <2>. QED  BY <1>3, <1>10, <2>1, <2>3
<1>12. ASSUME NEW k \in 1 .. m PROVE h[k] = h[k - 1] \o seqs[k]
  <2>1. k \in 0 .. m /\ k - 1 \in 0 .. m
    BY <1>1
  <2>2. b[k - 1] \in Nat /\ b[k] \in Nat /\ 0 <= b[k - 1] /\ b[k - 1] <= b[k] /\ 0 \in Nat
    BY <1>3, <1>8, <2>1
  <2>3. Consec(0, b[k - 1]) \o Consec(b[k - 1], b[k]) = Consec(0, b[k])
    BY <2>2, ConsecConcat
  <2>4. seqs[k] = Consec(b[k - 1], b[k])
    <3>1. sections[k] = Part(b[k - 1], b[k])
      BY <1>3
    <3>2. sections[k].idx = Consec(b[k - 1], b[k])
      BY <3>1 DEF Part
    <3>. QED  BY <1>6, <3>2
  <2>. QED  BY <1>10, <2>1, <2>3, <2>4
<1>13. Chain(h, seqs, Nat)
  BY <1>7, <1>10, <1>11, <1>12 DEF Chain
<1>14. FlattenSeq(seqs) = h[m]
  BY <1>7, <1>13, FlattenIs
<1>15. m \in 0 .. m
  BY <1>1
<1>. QED  BY <1>3, <1>10, <1>14, <1>15 DEF seqs

LEMMA TilesUpright ==
  ASSUME transcript \in Seq(Words), NoneInverted(transcript), ByStart(transcript),
         Tiles(sections, Len(transcript))
  PROVE  \A k \in DOMAIN sections : sections[k].start <= sections[k].end
<1>. DEFINE n == Len(transcript)
<1>1. n \in Nat /\ DOMAIN transcript = 1 .. n /\ \A i \in 1 .. n : transcript[i] \in Words
  OBVIOUS
<1>2. PICK b : Bounds(b, sections, n)
  BY DEF Tiles
<1>3. sections \in Seq(Section)
  BY DEF Tiles
<1>. HIDE DEF n
<1>. SUFFICES ASSUME NEW k \in DOMAIN sections PROVE sections[k].start <= sections[k].end
  OBVIOUS
<1>4. k \in 1 .. Len(sections) /\ k \in 0 .. Len(sections) /\ k - 1 \in 0 .. Len(sections)
  BY <1>3
<1>5. b[k - 1] \in 0 .. n /\ b[k] \in 0 .. n /\ b[k - 1] < b[k] /\ sections[k] = Part(b[k - 1], b[k])
  BY <1>2, <1>4 DEF Bounds
<1>. DEFINE i == b[k - 1] + 1
            j == b[k]
<1>6. i \in 1 .. n /\ j \in 1 .. n /\ (i = j \/ i < j)
  BY <1>1, <1>5
<1>7. sections[k].start = transcript[i].start /\ sections[k].end = transcript[j].end
  BY <1>5 DEF Part
<1>. HIDE DEF i, j
<1>8. transcript[i].start \in Nat /\ transcript[j].start \in Nat /\ transcript[j].end \in Nat
  BY <1>1, <1>6, WordsFields
<1>9. transcript[i].start <= transcript[j].start
  BY <1>1, <1>6, <1>8 DEF ByStart
<1>10. transcript[j].start <= transcript[j].end
  BY <1>1, <1>6 DEF NoneInverted
<1>. QED  BY <1>7, <1>8, <1>9, <1>10

LEMMA SectionSegments ==
  ASSUME transcript \in Seq(Words), NEW ss, Tiles(ss, Len(transcript)), NEW k \in DOMAIN ss
  PROVE  SegmentsOf(ss[k]) \in Seq(Words) /\ SegmentsOf(ss[k]) # <<>>
<1>. DEFINE n == Len(transcript)
<1>1. n \in Nat /\ \A i \in 1 .. n : transcript[i] \in Words
  OBVIOUS
<1>2. PICK b : Bounds(b, ss, n)
  BY DEF Tiles
<1>3. ss \in Seq(Section)
  BY DEF Tiles
<1>. HIDE DEF n
<1>4. k \in 1 .. Len(ss) /\ k \in 0 .. Len(ss) /\ k - 1 \in 0 .. Len(ss)
  BY <1>3
<1>. DEFINE lo == b[k - 1]
            hi == b[k]
<1>5. lo \in 0 .. n /\ hi \in 0 .. n /\ lo < hi /\ ss[k] = Part(lo, hi)
  BY <1>2, <1>4 DEF Bounds
<1>. HIDE DEF lo, hi
<1>6. lo \in Nat /\ hi \in Nat /\ lo <= hi /\ hi - lo \in Nat \ {0}
  BY <1>1, <1>5
<1>7. /\ Consec(lo, hi) \in Seq(Nat) /\ Len(Consec(lo, hi)) = hi - lo
      /\ DOMAIN Consec(lo, hi) = 1 .. hi - lo
  <2>1. Consec(lo, hi) \in Seq(Nat) /\ Len(Consec(lo, hi)) = hi - lo
    BY <1>6, ConsecType
  <2>. QED  BY <2>1 DEF Consec
<1>8. \A j \in 1 .. hi - lo : Consec(lo, hi)[j] = lo + j /\ lo + j \in 1 .. n
  BY <1>1, <1>5, <1>6 DEF Consec
<1>. DEFINE m == hi - lo
            segs_k == [j \in 1 .. m |-> transcript[Consec(lo, hi)[j]]]
<1>9. SegmentsOf(ss[k]) = segs_k
  BY <1>5, <1>7 DEF SegmentsOf, Part
<1>10. segs_k \in [1 .. m -> Words]
  BY <1>1, <1>8
<1>11. m \in Nat \ {0}
  BY <1>6
<1>. HIDE DEF m, segs_k
<1>12. segs_k \in Seq(Words) /\ Len(segs_k) = m
  BY <1>10, <1>11
<1>13. segs_k # <<>>
  BY <1>11, <1>12, EmptySeq
<1>. QED  BY <1>9, <1>12, <1>13

-----------------------------------------------------------------------------
\* Cutting the segments of a section into chunks.

Packing == [chunks : Seq(Seq(Words)), current : Seq(Words)]
CutAt(acc, seg) == [chunks |-> Append(acc.chunks, acc.current), current |-> <<seg>>]
AddTo(acc, seg) == [acc EXCEPT !.current = Append(@, seg)]
All(cs, G) == \A i \in DOMAIN cs : cs[i] \in G

\* A loop that adds each segment to the current chunk or begins a new one with it.
Packs(h, segs_k, G) ==
  /\ h \in [0 .. Len(segs_k) -> Packing]
  /\ h[0] = [chunks |-> <<>>, current |-> <<>>]
  /\ \A k \in 1 .. Len(segs_k) :
       \/ /\ h[k - 1].current # <<>> /\ h[k] = CutAt(h[k - 1], segs_k[k])
          /\ <<segs_k[k]>> \in G
       \/ /\ h[k] = AddTo(h[k - 1], segs_k[k])
          /\ Append(h[k - 1].current, segs_k[k]) \in G

LEMMA PackingFields ==
  ASSUME NEW acc \in Packing, NEW seg \in Words
  PROVE  /\ acc.chunks \in Seq(Seq(Words)) /\ acc.current \in Seq(Words)
         /\ CutAt(acc, seg) \in Packing /\ CutAt(acc, seg).current = <<seg>>
         /\ CutAt(acc, seg).chunks = Append(acc.chunks, acc.current)
         /\ AddTo(acc, seg) \in Packing /\ AddTo(acc, seg).current = Append(acc.current, seg)
         /\ AddTo(acc, seg).chunks = acc.chunks
<1>1. acc.chunks \in Seq(Seq(Words)) /\ acc.current \in Seq(Words)
  BY DEF Packing
<1>2. <<seg>> \in Seq(Words) /\ Append(acc.current, seg) \in Seq(Words)
  BY <1>1
<1>3. Append(acc.chunks, acc.current) \in Seq(Seq(Words))
  BY <1>1
<1>4. CutAt(acc, seg) \in Packing
  BY <1>2, <1>3 DEF CutAt, Packing
<1>5. /\ CutAt(acc, seg).current = <<seg>>
      /\ CutAt(acc, seg).chunks = Append(acc.chunks, acc.current)
  BY DEF CutAt
<1>. DEFINE more == Append(acc.current, seg)
<1>6. AddTo(acc, seg) = [acc EXCEPT !.current = more]
  BY DEF AddTo
<1>7. more \in Seq(Words)
  BY <1>2
<1>. HIDE DEF more
<1>8. /\ [acc EXCEPT !.current = more] \in Packing
      /\ [acc EXCEPT !.current = more].current = more
      /\ [acc EXCEPT !.current = more].chunks = acc.chunks
  BY <1>1, <1>7 DEF Packing
<1>. QED  BY <1>1, <1>4, <1>5, <1>6, <1>8 DEF more

LEMMA AllAppend ==
  ASSUME NEW S, NEW cs \in Seq(S), NEW c \in S, NEW G, All(cs, G), c \in G
  PROVE  All(Append(cs, c), G)
<1>. DEFINE n == Len(cs)
            out == Append(cs, c)
<1>1. n \in Nat /\ DOMAIN cs = 1 .. n /\ DOMAIN out = 1 .. n + 1
  OBVIOUS
<1>2. out[n + 1] = c /\ \A i \in 1 .. n : out[i] = cs[i]
  OBVIOUS
<1>. HIDE DEF n, out
<1>3. ASSUME NEW i \in 1 .. n + 1 PROVE out[i] \in G
  <2>1. i = n + 1 \/ i \in 1 .. n
    BY <1>1
  <2>. QED  BY <1>1, <1>2, <2>1 DEF All
<1>. QED  BY <1>1, <1>3 DEF All, out

\* No segment is lost, moved or repeated.
LEMMA PackedAll ==
  ASSUME NEW segs_k \in Seq(Words), segs_k # <<>>, NEW G, G \subseteq Seq(Words) \ {<<>>},
         NEW h, Packs(h, segs_k, G)
  PROVE  LET last == h[Len(segs_k)]
             cs == Append(last.chunks, last.current)
         IN  cs \in Seq(Seq(Words)) /\ All(cs, G) /\ FlattenSeq(cs) = segs_k
<1>. DEFINE n == Len(segs_k)
            flat(k) == FlattenSeq(h[k].chunks) \o h[k].current
            Good == {k \in Nat : /\ k > 0 => h[k].current \in G
                                 /\ All(h[k].chunks, G)
                                 /\ flat(k) = SubSeq(segs_k, 1, k)}
<1>1. n \in Nat \ {0} /\ \A k \in 1 .. n : segs_k[k] \in Words
  BY EmptySeq
<1>2. /\ h \in [0 .. n -> Packing]
      /\ h[0] = [chunks |-> <<>>, current |-> <<>>]
      /\ \A k \in 1 .. n :
           \/ /\ h[k - 1].current # <<>> /\ h[k] = CutAt(h[k - 1], segs_k[k])
              /\ <<segs_k[k]>> \in G
           \/ /\ h[k] = AddTo(h[k - 1], segs_k[k])
              /\ Append(h[k - 1].current, segs_k[k]) \in G
  BY DEF Packs
<1>3. \A k \in 0 .. n : /\ h[k].chunks \in Seq(Seq(Words)) /\ h[k].current \in Seq(Words)
                        /\ FlattenSeq(h[k].chunks) \in Seq(Words)
  <2>. SUFFICES ASSUME NEW k \in 0 .. n
                PROVE  /\ h[k].chunks \in Seq(Seq(Words)) /\ h[k].current \in Seq(Words)
                       /\ FlattenSeq(h[k].chunks) \in Seq(Words)
    OBVIOUS
  <2>1. h[k] \in Packing
    BY <1>2
  <2>2. h[k].chunks \in Seq(Seq(Words)) /\ h[k].current \in Seq(Words)
    BY <2>1 DEF Packing
  <2>. QED  BY <2>2, FlattenType
<1>4. \A k \in 0 .. n - 1 : SubSeq(segs_k, 1, k + 1) = SubSeq(segs_k, 1, k) \o <<segs_k[k + 1]>>
  <2>. SUFFICES ASSUME NEW k \in 0 .. n - 1
                PROVE  SubSeq(segs_k, 1, k + 1) = SubSeq(segs_k, 1, k) \o <<segs_k[k + 1]>>
    OBVIOUS
  <2>1. 1 \in 1 .. n /\ k + 1 \in 1 .. n /\ (k + 1) - 1 = k
    BY <1>1
  <2>2. SubSeq(segs_k, 1, k + 1) = SubSeq(segs_k, 1, (k + 1) - 1) \o <<segs_k[k + 1]>>
    BY <2>1, SubSeqRecursiveSecond
  <2>. QED  BY <2>1, <2>2
<1>5. 0 \in Good
  <2>1. h[0].chunks = <<>> /\ h[0].current = <<>>
    BY <1>2
  <2>2. <<>> \in Seq(Words) /\ <<>> \o <<>> = <<>> /\ DOMAIN <<>> = {} /\ SubSeq(segs_k, 1, 0) = <<>>
    BY SubSeqEmpty
  <2>3. flat(0) = SubSeq(segs_k, 1, 0)
    BY <2>1, <2>2, FlattenEmpty
  <2>4. All(h[0].chunks, G)
    BY <2>1, <2>2 DEF All
  <2>. HIDE DEF flat
  <2>. QED  BY <2>3, <2>4
<1>6. \A k \in 0 .. n - 1 : k \in Good => k + 1 \in Good
  <2>. SUFFICES ASSUME NEW k \in 0 .. n - 1, k \in Good PROVE k + 1 \in Good
    OBVIOUS
  <2>. DEFINE acc == h[k]
              new == h[k + 1]
              seg == segs_k[k + 1]
              fl == FlattenSeq(acc.chunks)
              pre == SubSeq(segs_k, 1, k)
  <2>1. k + 1 \in 1 .. n /\ (k + 1) - 1 = k /\ k + 1 \in Nat /\ k \in 0 .. n
    BY <1>1
  <2>2. acc \in Packing /\ seg \in Words
    BY <1>1, <1>2, <2>1
  <2>3. \/ acc.current # <<>> /\ new = CutAt(acc, seg) /\ <<seg>> \in G
        \/ new = AddTo(acc, seg) /\ Append(acc.current, seg) \in G
    BY <1>2, <2>1
  <2>4. /\ k > 0 => acc.current \in G
        /\ All(acc.chunks, G) /\ fl \o acc.current = pre
    OBVIOUS
  <2>5. acc.chunks \in Seq(Seq(Words)) /\ acc.current \in Seq(Words) /\ fl \in Seq(Words)
    BY <1>3, <2>1
  <2>6. k = 0 => acc.current = <<>>
    BY <1>2
  <2>7. SubSeq(segs_k, 1, k + 1) = pre \o <<seg>>
    BY <1>4
  <2>. HIDE DEF acc, new, seg, pre, fl
  <2>8. /\ CutAt(acc, seg).current = <<seg>>
        /\ CutAt(acc, seg).chunks = Append(acc.chunks, acc.current)
        /\ AddTo(acc, seg).current = Append(acc.current, seg)
        /\ AddTo(acc, seg).chunks = acc.chunks
    BY <2>2, PackingFields
  <2>9. /\ new.current \in G /\ All(new.chunks, G)
        /\ FlattenSeq(new.chunks) \o new.current = pre \o <<seg>>
    <3>1. CASE acc.current # <<>> /\ new = CutAt(acc, seg) /\ <<seg>> \in G
      <4>1. acc.current \in G
        BY <2>1, <2>4, <2>6, <3>1
      <4>2. All(Append(acc.chunks, acc.current), G)
        BY <2>4, <2>5, <4>1, AllAppend
      <4>3. FlattenSeq(Append(acc.chunks, acc.current)) = fl \o acc.current
        BY <2>5, FlattenAppend DEF fl
      <4>. QED  BY <2>4, <2>8, <3>1, <4>2, <4>3
    <3>2. CASE new = AddTo(acc, seg) /\ Append(acc.current, seg) \in G
      <4>. DEFINE one == <<seg>>
      <4>1. one \in Seq(Words) /\ Append(acc.current, seg) = acc.current \o one
        BY <2>2, <2>5
      <4>. HIDE DEF one
      <4>2. (fl \o acc.current) \o one = fl \o (acc.current \o one)
        <5>. DEFINE cur == acc.current
        <5>1. cur \in Seq(Words) /\ fl \in Seq(Words) /\ one \in Seq(Words)
          BY <2>5, <4>1
        <5>. HIDE DEF cur
        <5>2. \A T : fl \in Seq(T) /\ cur \in Seq(T) /\ one \in Seq(T) =>
                        (fl \o cur) \o one = fl \o (cur \o one)
          BY ConcatAssociative
        <5>. QED  BY <5>1, <5>2 DEF cur
      <4>3. FlattenSeq(new.chunks) = fl
        BY <2>8, <3>2 DEF fl
      <4>4. new.current = acc.current \o one
        BY <2>8, <3>2, <4>1
      <4>5. FlattenSeq(new.chunks) \o new.current = pre \o one
        BY <2>4, <4>2, <4>3, <4>4
      <4>6. new.current \in G /\ All(new.chunks, G)
        BY <2>4, <2>8, <3>2
      <4>. QED  BY <4>5, <4>6 DEF one
    <3>. QED  BY <2>3, <3>1, <3>2
  <2>10. flat(k + 1) = SubSeq(segs_k, 1, k + 1)
    BY <2>7, <2>9 DEF new
  <2>. HIDE DEF flat
  <2>. QED  BY <2>1, <2>9, <2>10 DEF new
<1>7. \A k \in 0 .. n : k \in Good
  <2>. HIDE DEF Good, n
  <2>. QED  BY <1>1, <1>5, <1>6, InductionUpTo
<1>8. n \in Good /\ n \in 0 .. n /\ n > 0
  <2>. HIDE DEF Good, n
  <2>1. n \in 0 .. n /\ n > 0
    BY <1>1
  <2>. QED  BY <1>7, <2>1
<1>. DEFINE last == h[n]
            cs == Append(last.chunks, last.current)
<1>9. last.current \in G /\ All(last.chunks, G) /\ flat(n) = SubSeq(segs_k, 1, n)
  BY <1>8
<1>10. last.chunks \in Seq(Seq(Words)) /\ last.current \in Seq(Words)
  BY <1>3, <1>8
<1>11. SubSeq(segs_k, 1, n) = segs_k
  BY SubSeqFull
<1>12. FlattenSeq(last.chunks) \o last.current = segs_k
  BY <1>9, <1>11
<1>. HIDE DEF last, n, flat
<1>13. cs \in Seq(Seq(Words)) /\ All(cs, G)
  BY <1>9, <1>10, AllAppend
<1>14. FlattenSeq(cs) = segs_k
  BY <1>10, <1>12, FlattenAppend
<1>. QED  BY <1>13, <1>14 DEF last, n

SplitStep(acc, seg) ==
  LET full == /\ acc.current # <<>>
              /\ Total(acc.current) + seg.size > SECTION_CHUNK_THRESHOLD_CHARS
  IN  IF full \/ NaturalBreak(acc.current, seg)
      THEN [chunks |-> Append(acc.chunks, acc.current), current |-> <<seg>>]
      ELSE [acc EXCEPT !.current = Append(@, seg)]

PushStep(acc, seg) ==
  IF acc.current # <<>> /\ ~SegmentsFit(Append(acc.current, seg))
  THEN [chunks |-> Append(acc.chunks, acc.current), current |-> <<seg>>]
  ELSE [acc EXCEPT !.current = Append(@, seg)]

LEMMA SplitStepIs ==
  ASSUME NEW acc \in Packing, NEW seg \in Words
  PROVE  /\ SplitStep(acc, seg) \in Packing
         /\ \/ acc.current # <<>> /\ SplitStep(acc, seg) = CutAt(acc, seg)
            \/ SplitStep(acc, seg) = AddTo(acc, seg)
<1>1. \/ acc.current # <<>> /\ SplitStep(acc, seg) = CutAt(acc, seg)
      \/ SplitStep(acc, seg) = AddTo(acc, seg)
  BY DEF SplitStep, NaturalBreak, CutAt, AddTo
<1>. QED  BY <1>1, PackingFields

LEMMA PushStepIs ==
  ASSUME NEW acc \in Packing, NEW seg \in Words
  PROVE  /\ PushStep(acc, seg) \in Packing
         /\ \/ acc.current # <<>> /\ PushStep(acc, seg) = CutAt(acc, seg)
            \/ /\ acc.current = <<>> \/ SegmentsFit(Append(acc.current, seg))
               /\ PushStep(acc, seg) = AddTo(acc, seg)
<1>1. \/ acc.current # <<>> /\ PushStep(acc, seg) = CutAt(acc, seg)
      \/ /\ acc.current = <<>> \/ SegmentsFit(Append(acc.current, seg))
         /\ PushStep(acc, seg) = AddTo(acc, seg)
  BY DEF PushStep, CutAt, AddTo
<1>. QED  BY <1>1, PackingFields

\* The loop of split_segments_for_chunking.
LEMMA SplitSteps ==
  ASSUME NEW segs_k \in Seq(Words)
  PROVE  \E h : /\ h \in [0 .. Len(segs_k) -> Packing] /\ h[0] = [chunks |-> <<>>, current |-> <<>>]
                /\ \A k \in 1 .. Len(segs_k) :
                     /\ h[k - 1] \in Packing
                     /\ h[k] = SplitStep(h[k - 1], segs_k[k])
                /\ split_segments_for_chunking(segs_k) =
                      IF Total(segs_k) <= SECTION_CHUNK_THRESHOLD_CHARS
                      THEN <<segs_k>>
                      ELSE Append(h[Len(segs_k)].chunks, h[Len(segs_k)].current)
<1>. DEFINE xs == segs_k
            n == Len(xs)
            S == Packing
            b == [chunks |-> <<>>, current |-> <<>>]
            F == [k \in 1 .. n |-> [x \in S |-> SplitStep(x, xs[k])]]
            Def(g) == [T \in SUBSET (1 .. n) |->
                         IF T = {} THEN b ELSE SplitStep(g[T \ {Max(T)}], xs[Max(T)])]
            it == CHOOSE g : g = Def(g)
<1>1. n \in Nat /\ DOMAIN xs = 1 .. n /\ b \in S
    <2>1. <<>> \in Seq(Words) /\ <<>> \in Seq(Seq(Words))
    OBVIOUS
  <2>. QED  BY <2>1 DEF Packing
<1>2. \A k \in 1 .. n, x \in S : SplitStep(x, xs[k]) \in S
  <2>1. \A k \in 1 .. n : xs[k] \in Words
    BY <1>1
  <2>. HIDE DEF n, xs
  <2>. QED  BY <2>1, SplitStepIs
<1>3. F \in [1 .. n -> [S -> S]]
  BY <1>2
<1>4. split_segments_for_chunking(segs_k) =
                      IF Total(segs_k) <= SECTION_CHUNK_THRESHOLD_CHARS
                      THEN <<segs_k>>
                      ELSE Append(it[1 .. n].chunks, it[1 .. n].current)
  BY <1>1 DEF split_segments_for_chunking, SplitStep, FoldLeft, MapThenFoldSet
<1>5. \E g : g = Def(g)
  <2>1. PICK g \in [SUBSET (1 .. n) -> S] : FoldEquation(g, n, b, F)
    <3>. HIDE DEF F, n, S, b
    <3>. QED  BY <1>1, <1>3, FoldExists
  <2>2. \A T \in SUBSET (1 .. n) : T # {} =>
          F[Max(T)][g[T \ {Max(T)}]] = SplitStep(g[T \ {Max(T)}], xs[Max(T)])
    <3>. HIDE DEF n, S, b
    <3>. QED  BY <1>1, MaxOfPart
  <2>. HIDE DEF F, n, S, b
  <2>3. ASSUME NEW T \in SUBSET (1 .. n)
        PROVE  g[T] = IF T = {} THEN b ELSE SplitStep(g[T \ {Max(T)}], xs[Max(T)])
    <3>1. g[T] = IF T = {} THEN b ELSE F[Max(T)][g[T \ {Max(T)}]]
      BY <2>1 DEF FoldEquation
    <3>. QED  BY <2>2, <3>1
  <2>4. DOMAIN g = SUBSET (1 .. n) /\ g = [T \in SUBSET (1 .. n) |-> g[T]]
    BY <2>1
  <2>5. g = Def(g)
    BY <2>3, <2>4, Zenon
  <2>. QED  BY <2>5
<1>6. it = Def(it)
  BY <1>5
<1>. HIDE DEF it
<1>7. Folds(it, n, S, b, F)
  BY <1>1, <1>6, MaxOfPart DEF Folds
<1>8. PICK h : Steps(h, n, S, b, F) /\ it[1 .. n] = h[n]
  <2>. HIDE DEF F, n, S, b, Def
  <2>1. \A G \in [1 .. n -> [S -> S]] : \A g : Folds(g, n, S, b, G) =>
           \E h : Steps(h, n, S, b, G) /\ g[1 .. n] = h[n]
    BY <1>1, FoldSteps
  <2>. QED  BY <1>3, <1>7, <2>1
<1>9. \A k \in 1 .. n : h[k - 1] \in S /\ h[k] = SplitStep(h[k - 1], xs[k])
  BY <1>8 DEF Steps
<1>. QED  BY <1>1, <1>4, <1>8, <1>9 DEF Steps

\* The loop of push_rendered_budget_chunk.
LEMMA PushSteps ==
  ASSUME NEW chunk \in Seq(Words)
  PROVE  \E h : /\ h \in [0 .. Len(chunk) -> Packing] /\ h[0] = [chunks |-> <<>>, current |-> <<>>]
                /\ \A k \in 1 .. Len(chunk) :
                     /\ h[k - 1] \in Packing
                     /\ h[k] = PushStep(h[k - 1], chunk[k])
                /\ push_rendered_budget_chunk(chunk) =
                      IF Len(chunk) <= 1 \/ SegmentsFit(chunk)
                      THEN <<chunk>>
                      ELSE Append(h[Len(chunk)].chunks, h[Len(chunk)].current)
<1>. DEFINE xs == chunk
            n == Len(xs)
            S == Packing
            b == [chunks |-> <<>>, current |-> <<>>]
            F == [k \in 1 .. n |-> [x \in S |-> PushStep(x, xs[k])]]
            Def(g) == [T \in SUBSET (1 .. n) |->
                         IF T = {} THEN b ELSE PushStep(g[T \ {Max(T)}], xs[Max(T)])]
            it == CHOOSE g : g = Def(g)
<1>1. n \in Nat /\ DOMAIN xs = 1 .. n /\ b \in S
    <2>1. <<>> \in Seq(Words) /\ <<>> \in Seq(Seq(Words))
    OBVIOUS
  <2>. QED  BY <2>1 DEF Packing
<1>2. \A k \in 1 .. n, x \in S : PushStep(x, xs[k]) \in S
  <2>1. \A k \in 1 .. n : xs[k] \in Words
    BY <1>1
  <2>. HIDE DEF n, xs
  <2>. QED  BY <2>1, PushStepIs
<1>3. F \in [1 .. n -> [S -> S]]
  BY <1>2
<1>4. push_rendered_budget_chunk(chunk) =
                      IF Len(chunk) <= 1 \/ SegmentsFit(chunk)
                      THEN <<chunk>>
                      ELSE Append(it[1 .. n].chunks, it[1 .. n].current)
  BY <1>1 DEF push_rendered_budget_chunk, PushStep, FoldLeft, MapThenFoldSet
<1>5. \E g : g = Def(g)
  <2>1. PICK g \in [SUBSET (1 .. n) -> S] : FoldEquation(g, n, b, F)
    <3>. HIDE DEF F, n, S, b
    <3>. QED  BY <1>1, <1>3, FoldExists
  <2>2. \A T \in SUBSET (1 .. n) : T # {} =>
          F[Max(T)][g[T \ {Max(T)}]] = PushStep(g[T \ {Max(T)}], xs[Max(T)])
    <3>. HIDE DEF n, S, b
    <3>. QED  BY <1>1, MaxOfPart
  <2>. HIDE DEF F, n, S, b
  <2>3. ASSUME NEW T \in SUBSET (1 .. n)
        PROVE  g[T] = IF T = {} THEN b ELSE PushStep(g[T \ {Max(T)}], xs[Max(T)])
    <3>1. g[T] = IF T = {} THEN b ELSE F[Max(T)][g[T \ {Max(T)}]]
      BY <2>1 DEF FoldEquation
    <3>. QED  BY <2>2, <3>1
  <2>4. DOMAIN g = SUBSET (1 .. n) /\ g = [T \in SUBSET (1 .. n) |-> g[T]]
    BY <2>1
  <2>5. g = Def(g)
    BY <2>3, <2>4, Zenon
  <2>. QED  BY <2>5
<1>6. it = Def(it)
  BY <1>5
<1>. HIDE DEF it
<1>7. Folds(it, n, S, b, F)
  BY <1>1, <1>6, MaxOfPart DEF Folds
<1>8. PICK h : Steps(h, n, S, b, F) /\ it[1 .. n] = h[n]
  <2>. HIDE DEF F, n, S, b, Def
  <2>1. \A G \in [1 .. n -> [S -> S]] : \A g : Folds(g, n, S, b, G) =>
           \E h : Steps(h, n, S, b, G) /\ g[1 .. n] = h[n]
    BY <1>1, FoldSteps
  <2>. QED  BY <1>3, <1>7, <2>1
<1>9. \A k \in 1 .. n : h[k - 1] \in S /\ h[k] = PushStep(h[k - 1], xs[k])
  BY <1>8 DEF Steps
<1>. QED  BY <1>1, <1>4, <1>8, <1>9 DEF Steps

Chunk == Seq(Words) \ {<<>>}
\* What may be sent: within the budget, or a single segment.
Sendable == {c \in Seq(Words) : c # <<>> /\ (SegmentsFit(c) \/ Len(c) = 1)}

LEMMA SingletonSendable ==
  ASSUME NEW seg \in Words
  PROVE  <<seg>> \in Seq(Words) /\ <<seg>> # <<>> /\ Len(<<seg>>) = 1
OBVIOUS

LEMMA AppendedWords ==
  ASSUME NEW c \in Seq(Words), NEW seg \in Words
  PROVE  /\ Append(c, seg) \in Seq(Words) /\ Append(c, seg) # <<>>
         /\ c = <<>> => Append(c, seg) = <<seg>>
<1>1. Append(c, seg) \in Seq(Words) /\ Append(c, seg) # <<>>
  <2>. DEFINE S == Words
              more == Append(c, seg)
  <2>1. S = Words
    OBVIOUS
  <2>. HIDE DEF S
  <2>2. c \in Seq(S) /\ seg \in S
    BY <2>1
  <2>3. Len(c) \in Nat /\ more \in Seq(S) /\ Len(more) = Len(c) + 1
    BY <2>2
  <2>. HIDE DEF more
  <2>4. more # <<>>
    BY <2>3, EmptySeq
  <2>. QED  BY <2>1, <2>3, <2>4 DEF more
<1>2. Append(<<>>, seg) = <<seg>>
  OBVIOUS
<1>. QED  BY <1>1, <1>2

LEMMA AllOne ==
  ASSUME NEW G, NEW c \in G
  PROVE  All(<<c>>, G)
<1>1. DOMAIN <<c>> = {1} /\ <<c>>[1] = c
  OBVIOUS
<1>. QED  BY <1>1 DEF All

LEMMA SplitKept ==
  ASSUME NEW segs_k \in Seq(Words), segs_k # <<>>
  PROVE  LET cs == split_segments_for_chunking(segs_k)
         IN  cs \in Seq(Seq(Words)) /\ All(cs, Chunk) /\ FlattenSeq(cs) = segs_k
<1>1. CASE Total(segs_k) <= SECTION_CHUNK_THRESHOLD_CHARS
  <2>1. split_segments_for_chunking(segs_k) = <<segs_k>>
    BY <1>1 DEF split_segments_for_chunking
  <2>2. <<segs_k>> \in Seq(Seq(Words)) /\ segs_k \in Chunk
    BY DEF Chunk
  <2>3. FlattenSeq(<<segs_k>>) = segs_k /\ All(<<segs_k>>, Chunk)
    BY <2>2, FlattenOne, AllOne
  <2>. QED  BY <2>1, <2>2, <2>3
<1>2. CASE ~(Total(segs_k) <= SECTION_CHUNK_THRESHOLD_CHARS)
  <2>. DEFINE n == Len(segs_k)
  <2>1. PICK h :
          /\ h \in [0 .. n -> Packing] /\ h[0] = [chunks |-> <<>>, current |-> <<>>]
          /\ \A k \in 1 .. n : h[k - 1] \in Packing /\ h[k] = SplitStep(h[k - 1], segs_k[k])
          /\ split_segments_for_chunking(segs_k) =
                IF Total(segs_k) <= SECTION_CHUNK_THRESHOLD_CHARS
                THEN <<segs_k>>
                ELSE Append(h[n].chunks, h[n].current)
    BY SplitSteps
  <2>2. \A k \in 1 .. n : segs_k[k] \in Words
    OBVIOUS
  <2>. HIDE DEF n
  <2>3. ASSUME NEW k \in 1 .. n
        PROVE  \/ /\ h[k - 1].current # <<>> /\ h[k] = CutAt(h[k - 1], segs_k[k])
                  /\ <<segs_k[k]>> \in Chunk
               \/ /\ h[k] = AddTo(h[k - 1], segs_k[k])
                  /\ Append(h[k - 1].current, segs_k[k]) \in Chunk
    <3>. DEFINE acc == h[k - 1]
                seg == segs_k[k]
    <3>1. acc \in Packing /\ seg \in Words /\ h[k] = SplitStep(acc, seg)
      BY <2>1, <2>2
    <3>. HIDE DEF acc, seg
    <3>2. acc.current \in Seq(Words)
      BY <3>1 DEF Packing
    <3>3. <<seg>> \in Chunk /\ Append(acc.current, seg) \in Chunk
      BY <3>1, <3>2, SingletonSendable, AppendedWords DEF Chunk
    <3>4. \/ acc.current # <<>> /\ h[k] = CutAt(acc, seg)
          \/ h[k] = AddTo(acc, seg)
      BY <3>1, SplitStepIs
    <3>. QED  BY <3>3, <3>4 DEF acc, seg
  <2>4. Packs(h, segs_k, Chunk)
    BY <2>1, <2>3 DEF Packs, n
  <2>5. LET last == h[Len(segs_k)]
            cs == Append(last.chunks, last.current)
        IN  cs \in Seq(Seq(Words)) /\ All(cs, Chunk) /\ FlattenSeq(cs) = segs_k
    <3>1. Chunk \subseteq Seq(Words) \ {<<>>}
      BY DEF Chunk
    <3>. QED  BY <2>4, <3>1, PackedAll
  <2>6. split_segments_for_chunking(segs_k) = Append(h[Len(segs_k)].chunks, h[Len(segs_k)].current)
    BY <1>2, <2>1 DEF n
  <2>. QED  BY <2>5, <2>6
<1>. QED  BY <1>1, <1>2

LEMMA PushKept ==
  ASSUME NEW chunk \in Seq(Words)
  PROVE  LET cs == push_rendered_budget_chunk(chunk)
         IN  /\ cs \in Seq(Seq(Words))
             /\ chunk # <<>> => All(cs, Sendable) /\ FlattenSeq(cs) = chunk
<1>1. CASE Len(chunk) <= 1 \/ SegmentsFit(chunk)
  <2>1. push_rendered_budget_chunk(chunk) = <<chunk>>
    BY <1>1 DEF push_rendered_budget_chunk
  <2>2. <<chunk>> \in Seq(Seq(Words))
    OBVIOUS
  <2>3. FlattenSeq(<<chunk>>) = chunk
    BY FlattenOne
  <2>4. chunk # <<>> => chunk \in Sendable
    <3>1. chunk # <<>> => Len(chunk) \in Nat \ {0}
      BY EmptySeq
    <3>2. chunk # <<>> => Len(chunk) = 1 \/ SegmentsFit(chunk)
      <4>1. CASE Len(chunk) <= 1
        <5>. DEFINE n == Len(chunk)
        <5>1. n \in Nat /\ (chunk # <<>> => n # 0) /\ n <= 1
          <6>1. n \in Nat
            OBVIOUS
          <6>. QED  BY <3>1, <4>1, <6>1
        <5>. HIDE DEF n
        <5>2. chunk # <<>> => n = 1
          BY <5>1
        <5>3. chunk # <<>> => Len(chunk) = 1
          BY <5>2 DEF n
        <5>. QED  BY <5>3, Zenon
      <4>2. CASE SegmentsFit(chunk)
        BY <4>2, Zenon
      <4>. QED  BY <1>1, <4>1, <4>2
    <3>. QED  BY <3>2 DEF Sendable
  <2>. QED  BY <2>1, <2>2, <2>3, <2>4, AllOne
<1>2. CASE ~(Len(chunk) <= 1 \/ SegmentsFit(chunk))
  <2>. DEFINE n == Len(chunk)
  <2>0. chunk # <<>>
    BY <1>2
  <2>1. PICK h :
          /\ h \in [0 .. n -> Packing] /\ h[0] = [chunks |-> <<>>, current |-> <<>>]
          /\ \A k \in 1 .. n : h[k - 1] \in Packing /\ h[k] = PushStep(h[k - 1], chunk[k])
          /\ push_rendered_budget_chunk(chunk) =
                IF Len(chunk) <= 1 \/ SegmentsFit(chunk)
                THEN <<chunk>>
                ELSE Append(h[n].chunks, h[n].current)
    BY PushSteps
  <2>2. \A k \in 1 .. n : chunk[k] \in Words
    OBVIOUS
  <2>. HIDE DEF n
  <2>3. ASSUME NEW k \in 1 .. n
        PROVE  \/ /\ h[k - 1].current # <<>> /\ h[k] = CutAt(h[k - 1], chunk[k])
                  /\ <<chunk[k]>> \in Sendable
               \/ /\ h[k] = AddTo(h[k - 1], chunk[k])
                  /\ Append(h[k - 1].current, chunk[k]) \in Sendable
    <3>. DEFINE acc == h[k - 1]
                seg == chunk[k]
                more == Append(acc.current, seg)
    <3>1. acc \in Packing /\ seg \in Words /\ h[k] = PushStep(acc, seg)
      BY <2>1, <2>2
    <3>. HIDE DEF acc, seg
    <3>2. acc.current \in Seq(Words)
      BY <3>1 DEF Packing
    <3>3. <<seg>> \in Sendable
      BY <3>1, SingletonSendable DEF Sendable
    <3>4. \/ acc.current # <<>> /\ h[k] = CutAt(acc, seg)
          \/ /\ acc.current = <<>> \/ SegmentsFit(more)
             /\ h[k] = AddTo(acc, seg)
      BY <3>1, PushStepIs
    <3>5. more \in Seq(Words) /\ more # <<>> /\ (acc.current = <<>> => Len(more) = 1)
      BY <3>1, <3>2, AppendedWords, SingletonSendable
    <3>. HIDE DEF more
    <3>6. acc.current = <<>> \/ SegmentsFit(more) => more \in Sendable
      BY <3>5 DEF Sendable
    <3>. QED  BY <3>3, <3>4, <3>6 DEF acc, seg, more
  <2>4. Packs(h, chunk, Sendable)
    BY <2>1, <2>3 DEF Packs, n
  <2>5. LET last == h[Len(chunk)]
            cs == Append(last.chunks, last.current)
        IN  cs \in Seq(Seq(Words)) /\ All(cs, Sendable) /\ FlattenSeq(cs) = chunk
    <3>1. Sendable \subseteq Seq(Words) \ {<<>>}
      BY DEF Sendable
    <3>. QED  BY <2>0, <2>4, <3>1, PackedAll
  <2>6. push_rendered_budget_chunk(chunk) = Append(h[Len(chunk)].chunks, h[Len(chunk)].current)
    BY <1>2, <2>1 DEF n
  <2>. QED  BY <2>5, <2>6
<1>. QED  BY <1>1, <1>2

\* The loop of split_chunks_to_rendered_budget.
LEMMA BudgetSteps ==
  ASSUME NEW chunks \in Seq(Seq(Words))
  PROVE  \E h : /\ h \in [0 .. Len(chunks) -> Seq(Seq(Words))] /\ h[0] = <<>>
                /\ \A k \in 1 .. Len(chunks) :
                     /\ h[k - 1] \in Seq(Seq(Words))
                     /\ h[k] = h[k - 1] \o push_rendered_budget_chunk(chunks[k])
                /\ split_chunks_to_rendered_budget(chunks) = h[Len(chunks)]
<1>. DEFINE xs == chunks
            n == Len(xs)
            S == Seq(Seq(Words))
            b == <<>>
            F == [k \in 1 .. n |-> [x \in S |-> x \o push_rendered_budget_chunk(xs[k])]]
            Def(g) == [T \in SUBSET (1 .. n) |->
                         IF T = {} THEN b ELSE g[T \ {Max(T)}] \o push_rendered_budget_chunk(xs[Max(T)])]
            it == CHOOSE g : g = Def(g)
<1>1. n \in Nat /\ DOMAIN xs = 1 .. n /\ b \in S
  OBVIOUS
<1>2. \A k \in 1 .. n, x \in S : x \o push_rendered_budget_chunk(xs[k]) \in S
  <2>1. \A k \in 1 .. n : xs[k] \in Seq(Words)
    BY <1>1
  <2>2. \A c \in Seq(Words) : push_rendered_budget_chunk(c) \in Seq(Seq(Words))
    BY PushKept
  <2>3. \A k \in 1 .. n : push_rendered_budget_chunk(xs[k]) \in Seq(Seq(Words))
    BY <2>1, <2>2
  <2>. HIDE DEF n, xs
  <2>. QED  BY <2>3
<1>3. F \in [1 .. n -> [S -> S]]
  BY <1>2
<1>4. split_chunks_to_rendered_budget(chunks) = it[1 .. n]
  BY <1>1 DEF split_chunks_to_rendered_budget, FoldLeft, MapThenFoldSet
<1>5. \E g : g = Def(g)
  <2>1. PICK g \in [SUBSET (1 .. n) -> S] : FoldEquation(g, n, b, F)
    <3>. HIDE DEF F, n, S, b
    <3>. QED  BY <1>1, <1>3, FoldExists
  <2>2. \A T \in SUBSET (1 .. n) : T # {} =>
          F[Max(T)][g[T \ {Max(T)}]] = g[T \ {Max(T)}] \o push_rendered_budget_chunk(xs[Max(T)])
    <3>. HIDE DEF n, S, b
    <3>. QED  BY <1>1, MaxOfPart
  <2>. QED  BY <2>1, <2>2 DEF FoldEquation
<1>6. it = Def(it)
  BY <1>5
<1>. HIDE DEF it
<1>7. Folds(it, n, S, b, F)
  BY <1>1, <1>6, MaxOfPart DEF Folds
<1>8. PICK h : Steps(h, n, S, b, F) /\ it[1 .. n] = h[n]
  <2>. HIDE DEF F, n, S, b, Def, xs
  <2>1. \A G \in [1 .. n -> [S -> S]] : \A g : Folds(g, n, S, b, G) =>
           \E h : Steps(h, n, S, b, G) /\ g[1 .. n] = h[n]
    BY <1>1, FoldSteps
  <2>. QED  BY <1>3, <1>7, <2>1
<1>9. \A k \in 1 .. n : h[k - 1] \in S /\ h[k] = h[k - 1] \o push_rendered_budget_chunk(xs[k])
  BY <1>8 DEF Steps
<1>. QED  BY <1>1, <1>4, <1>8, <1>9 DEF Steps

LEMMA AllConcat ==
  ASSUME NEW S, NEW a \in Seq(S), NEW b \in Seq(S), NEW G, All(a, G), All(b, G)
  PROVE  All(a \o b, G)
<1>. DEFINE m == Len(a)
            n == Len(b)
            all == a \o b
<1>1. m \in Nat /\ n \in Nat /\ DOMAIN a = 1 .. m /\ DOMAIN b = 1 .. n
  OBVIOUS
<1>2. /\ all \in Seq(S) /\ Len(all) = m + n
      /\ \A i \in 1 .. m + n : all[i] = IF i <= m THEN a[i] ELSE b[i - m]
  BY ConcatProperties
<1>. HIDE DEF m, n, all
<1>3. ASSUME NEW i \in DOMAIN all PROVE all[i] \in G
  <2>1. i \in 1 .. m + n
    BY <1>2
  <2>2. CASE i <= m
    <3>1. i \in DOMAIN a /\ all[i] = a[i]
      BY <1>1, <1>2, <2>1, <2>2
    <3>. QED  BY <3>1 DEF All
  <2>3. CASE ~(i <= m)
    <3>1. i - m \in DOMAIN b /\ all[i] = b[i - m]
      BY <1>1, <1>2, <2>1, <2>3
    <3>. QED  BY <3>1 DEF All
  <2>. QED  BY <2>2, <2>3
<1>. QED  BY <1>3 DEF All, all

LEMMA BudgetKept ==
  ASSUME NEW chunks \in Seq(Seq(Words)), All(chunks, Chunk)
  PROVE  LET cs == split_chunks_to_rendered_budget(chunks)
         IN  cs \in Seq(Seq(Words)) /\ All(cs, Sendable) /\ FlattenSeq(cs) = FlattenSeq(chunks)
<1>. DEFINE n == Len(chunks)
<1>1. n \in Nat /\ DOMAIN chunks = 1 .. n
  OBVIOUS
<1>2. PICK h :
        /\ h \in [0 .. n -> Seq(Seq(Words))] /\ h[0] = <<>>
        /\ \A k \in 1 .. n : /\ h[k - 1] \in Seq(Seq(Words))
                             /\ h[k] = h[k - 1] \o push_rendered_budget_chunk(chunks[k])
        /\ split_chunks_to_rendered_budget(chunks) = h[n]
  BY BudgetSteps
<1>3. PICK g : Chain(g, chunks, Words)
  BY ChainExists
<1>4. g[0] = <<>> /\ \A k \in 1 .. n : g[k] = g[k - 1] \o chunks[k]
  BY <1>3 DEF Chain
<1>5. FlattenSeq(chunks) = g[n]
  BY <1>3, FlattenIs
<1>6. \A k \in 1 .. n : chunks[k] \in Seq(Words) /\ chunks[k] # <<>>
  BY <1>1 DEF All, Chunk
<1>. HIDE DEF n
<1>. DEFINE Good == {k \in Nat : All(h[k], Sendable) /\ FlattenSeq(h[k]) = g[k]}
<1>7. 0 \in Good
  <2>1. DOMAIN <<>> = {}
    OBVIOUS
  <2>2. All(h[0], Sendable)
    BY <1>2, <2>1 DEF All
  <2>3. FlattenSeq(h[0]) = g[0]
    BY <1>2, <1>4, FlattenEmpty
  <2>. QED  BY <2>2, <2>3
<1>8. \A k \in 0 .. n - 1 : k \in Good => k + 1 \in Good
  <2>. SUFFICES ASSUME NEW k \in 0 .. n - 1, k \in Good PROVE k + 1 \in Good
    OBVIOUS
  <2>. DEFINE a == h[k]
              c == chunks[k + 1]
              b == push_rendered_budget_chunk(c)
  <2>1. k + 1 \in 1 .. n /\ (k + 1) - 1 = k /\ k + 1 \in Nat
    BY <1>1
  <2>2. a \in Seq(Seq(Words)) /\ h[k + 1] = a \o b
    BY <1>2, <2>1
  <2>3. c \in Seq(Words) /\ c # <<>>
    BY <1>6, <2>1
  <2>4. g[k + 1] = g[k] \o c
    BY <1>4, <2>1
  <2>5. All(a, Sendable) /\ FlattenSeq(a) = g[k]
    OBVIOUS
  <2>. HIDE DEF a, c
  <2>6. b \in Seq(Seq(Words)) /\ All(b, Sendable) /\ FlattenSeq(b) = c
    BY <2>3, PushKept
  <2>. HIDE DEF b
  <2>7. All(a \o b, Sendable)
    BY <2>2, <2>5, <2>6, AllConcat
  <2>8. FlattenSeq(a \o b) = FlattenSeq(a) \o FlattenSeq(b)
    BY <2>2, <2>6, FlattenConcat
  <2>9. FlattenSeq(h[k + 1]) = g[k + 1]
    BY <2>2, <2>4, <2>5, <2>6, <2>8
  <2>. QED  BY <2>1, <2>2, <2>7, <2>9
<1>9. \A k \in 0 .. n : k \in Good
  <2>. HIDE DEF Good
  <2>. QED  BY <1>1, <1>7, <1>8, InductionUpTo
<1>10. n \in Good /\ n \in 0 .. n
  <2>. HIDE DEF Good
  <2>. QED  BY <1>1, <1>9
<1>11. All(h[n], Sendable) /\ FlattenSeq(h[n]) = g[n]
  BY <1>10
<1>12. h[n] \in Seq(Seq(Words))
  BY <1>2, <1>10
<1>. QED  BY <1>2, <1>5, <1>11, <1>12

\* Chunks are within the budget or a single segment, and hold the whole section.
LEMMA ChunksKept ==
  ASSUME NEW segs_k \in Seq(Words), segs_k # <<>>
  PROVE  /\ Chunks(segs_k) \in Seq(Seq(Words)) /\ Chunks(segs_k) # <<>>
         /\ All(Chunks(segs_k), Sendable) /\ FlattenSeq(Chunks(segs_k)) = segs_k
<1>. DEFINE cs == split_segments_for_chunking(segs_k)
            out == split_chunks_to_rendered_budget(cs)
<1>1. cs \in Seq(Seq(Words)) /\ All(cs, Chunk) /\ FlattenSeq(cs) = segs_k
  BY SplitKept
<1>2. Chunks(segs_k) = out
  BY DEF Chunks
<1>. HIDE DEF cs
<1>3. out \in Seq(Seq(Words)) /\ All(out, Sendable) /\ FlattenSeq(out) = FlattenSeq(cs)
  BY <1>1, BudgetKept
<1>. HIDE DEF out
<1>4. out # <<>>
  BY <1>1, <1>3, FlattenEmpty
<1>. QED  BY <1>1, <1>2, <1>3, <1>4

LEMMA ReverseIs ==
  ASSUME NEW S, NEW s \in Seq(S)
  PROVE  /\ Len(Reverse(s)) = Len(s)
         /\ \A i \in 1 .. Len(s) : Reverse(s)[i] = s[(Len(s) - i) + 1] /\ Reverse(s)[i] \in S
<1>. DEFINE n == Len(s)
            r == [i \in 1 .. n |-> s[(n - i) + 1]]
<1>1. n \in Nat /\ \A i \in 1 .. n : s[i] \in S
  OBVIOUS
<1>2. Reverse(s) = r
  BY DEF Reverse
<1>. HIDE DEF n
<1>3. \A i \in 1 .. n : (n - i) + 1 \in 1 .. n
  BY <1>1
<1>4. r \in [1 .. n -> S]
  BY <1>1, <1>3
<1>5. Len(r) = n
  BY <1>1, <1>4
<1>. QED  BY <1>1, <1>2, <1>3, <1>5 DEF n

LEMMA SuffixOfConcat ==
  ASSUME NEW S, NEW p \in Seq(S), NEW s \in Seq(S)
  PROVE  IsSuffix(s, p \o s)
<1>. DEFINE t == p \o s
            m == Len(p)
            n == Len(s)
            rs == Reverse(s)
            rt == Reverse(t)
<1>1. m \in Nat /\ n \in Nat
  OBVIOUS
<1>2. /\ t \in Seq(S) /\ Len(t) = m + n
      /\ \A i \in 1 .. m + n : t[i] = IF i <= m THEN p[i] ELSE s[i - m]
  BY ConcatProperties
<1>3. Len(rs) = n /\ \A i \in 1 .. n : rs[i] = s[(n - i) + 1] /\ rs[i] \in S
  BY ReverseIs
<1>. HIDE DEF t, m, n, rs
<1>4. Len(rt) = m + n /\ \A i \in 1 .. m + n : rt[i] = t[((m + n) - i) + 1] /\ rt[i] \in S
  BY <1>2, ReverseIs
<1>. HIDE DEF rt
<1>5. ASSUME NEW i \in 1 .. n PROVE i \in 1 .. m + n /\ rs[i] = rt[i]
  <2>1. i \in 1 .. m + n /\ ((m + n) - i) + 1 \in 1 .. m + n
    BY <1>1
  <2>2. ~(((m + n) - i) + 1 <= m) /\ (((m + n) - i) + 1) - m = (n - i) + 1
    BY <1>1
  <2>3. t[((m + n) - i) + 1] = s[(n - i) + 1]
    BY <1>2, <2>1, <2>2
  <2>. QED  BY <1>3, <1>4, <2>1, <2>3
<1>6. /\ SubSeq(rs, 1, n) \in Seq(S) /\ Len(SubSeq(rs, 1, n)) = n
      /\ \A i \in 1 .. n : SubSeq(rs, 1, n)[i] = rs[i]
  <2>1. \A i \in 1 .. n : rs[i] \in S
    BY <1>3
  <2>2. /\ SubSeq(rs, 1, n) \in Seq(S)
        /\ Len(SubSeq(rs, 1, n)) = IF 1 <= n THEN n - 1 + 1 ELSE 0
        /\ \A i \in 1 .. n - 1 + 1 : SubSeq(rs, 1, n)[i] = rs[1 + i - 1]
    BY <1>1, <2>1, SubSeqProperties
  <2>. QED  BY <1>1, <2>2
<1>7. /\ SubSeq(rt, 1, n) \in Seq(S) /\ Len(SubSeq(rt, 1, n)) = n
      /\ \A i \in 1 .. n : SubSeq(rt, 1, n)[i] = rt[i]
  <2>1. \A i \in 1 .. n : rt[i] \in S
    BY <1>1, <1>4
  <2>2. /\ SubSeq(rt, 1, n) \in Seq(S)
        /\ Len(SubSeq(rt, 1, n)) = IF 1 <= n THEN n - 1 + 1 ELSE 0
        /\ \A i \in 1 .. n - 1 + 1 : SubSeq(rt, 1, n)[i] = rt[1 + i - 1]
    BY <1>1, <2>1, SubSeqProperties
  <2>. QED  BY <1>1, <2>2
<1>8. SubSeq(rs, 1, n) = SubSeq(rt, 1, n)
  <2>. DEFINE u == SubSeq(rs, 1, n)
              v == SubSeq(rt, 1, n)
  <2>1. u \in Seq(S) /\ v \in Seq(S) /\ Len(u) = n /\ Len(v) = n /\ \A i \in 1 .. n : u[i] = v[i]
    BY <1>5, <1>6, <1>7
  <2>. HIDE DEF u, v
  <2>2. u = v
    BY <1>1, <2>1
  <2>. QED  BY <2>2 DEF u, v
<1>9. n <= m + n
  BY <1>1
<1>10. IsPrefix(rs, rt)
  BY <1>3, <1>4, <1>8, <1>9 DEF IsPrefix
<1>. QED  BY <1>10 DEF IsSuffix, rs, rt, t

-----------------------------------------------------------------------------
\* Anchoring screenshots.

Anchored(V) ==
  {out \in [DOMAIN sections -> Seq(V)] :
     \A k \in DOMAIN sections : \A i \in DOMAIN out[k] : section_for_timestamp(out[k][i]) = k}

AnchorStep(out, ms) == [out EXCEPT ![section_for_timestamp(ms)] = Append(@, ms)]

LEMMA AnchorStepType ==
  ASSUME NEW V, NEW out \in Anchored(V), NEW ms \in V
  PROVE  AnchorStep(out, ms) \in Anchored(V)
<1>. DEFINE at == section_for_timestamp(ms)
            new == [out EXCEPT ![at] = Append(@, ms)]
            D == DOMAIN sections
<1>1. out \in [D -> Seq(V)] /\ \A k \in D : \A i \in DOMAIN out[k] : section_for_timestamp(out[k][i]) = k
  BY DEF Anchored
<1>2. at = section_for_timestamp(ms)
  OBVIOUS
<1>. HIDE DEF at, D
<1>3. CASE at \notin D
  <2>1. new = out
    BY <1>1, <1>3
  <2>. QED  BY <2>1 DEF AnchorStep, at
<1>4. CASE at \in D
  <2>. DEFINE more == Append(out[at], ms)
              n == Len(out[at])
  <2>1. out[at] \in Seq(V)
    BY <1>1, <1>4
  <2>2. /\ more \in Seq(V) /\ n \in Nat /\ DOMAIN more = 1 .. n + 1 /\ DOMAIN out[at] = 1 .. n
        /\ more[n + 1] = ms /\ \A i \in 1 .. n : more[i] = out[at][i]
    BY <2>1
  <2>3. new = [out EXCEPT ![at] = more]
    OBVIOUS
  <2>. HIDE DEF more, n, new
  <2>4. \A i \in DOMAIN more : section_for_timestamp(more[i]) = at
    <3>. SUFFICES ASSUME NEW i \in 1 .. n + 1 PROVE section_for_timestamp(more[i]) = at
      BY <2>2
    <3>1. CASE i = n + 1
      <4>1. more[i] = ms
        BY <2>2, <3>1
      <4>. QED  BY <1>2, <4>1
    <3>2. CASE i # n + 1
      <4>1. i \in 1 .. n
        BY <2>2, <3>2
      <4>2. more[i] = out[at][i] /\ i \in DOMAIN out[at]
        BY <2>2, <4>1
      <4>3. section_for_timestamp(out[at][i]) = at
        BY <1>1, <1>4, <4>2
      <4>. QED  BY <4>2, <4>3
    <3>. QED  BY <3>1, <3>2
  <2>5. new \in [D -> Seq(V)] /\ new[at] = more /\ \A k \in D : k # at => new[k] = out[k]
    BY <1>1, <1>4, <2>2, <2>3
  <2>6. ASSUME NEW k \in D, NEW i \in DOMAIN new[k] PROVE section_for_timestamp(new[k][i]) = k
    <3>1. CASE k = at
      <4>1. new[k] = more
        BY <2>5, <3>1
      <4>2. i \in DOMAIN more /\ new[k][i] = more[i]
        BY <2>6, <4>1
      <4>3. section_for_timestamp(more[i]) = at
        BY <2>4, <4>2
      <4>. QED  BY <3>1, <4>2, <4>3
    <3>2. CASE k # at
      <4>1. new[k] = out[k]
        BY <2>5, <3>2
      <4>2. i \in DOMAIN out[k] /\ new[k][i] = out[k][i]
        BY <2>6, <4>1
      <4>3. section_for_timestamp(out[k][i]) = k
        BY <1>1, <4>2
      <4>. QED  BY <4>2, <4>3
    <3>. QED  BY <3>1, <3>2
  <2>7. new \in Anchored(V)
    BY <2>5, <2>6 DEF Anchored, D
  <2>. QED  BY <2>7 DEF AnchorStep, new, at
<1>. QED  BY <1>3, <1>4

\* The loop of anchor_screenshots.
LEMMA AnchorSteps ==
  ASSUME NEW V, NEW times \in Seq(V)
  PROVE  \E h : /\ h \in [0 .. Len(times) -> Anchored(V)] /\ h[0] = [k \in DOMAIN sections |-> <<>>]
                /\ \A k \in 1 .. Len(times) :
                     /\ h[k - 1] \in Anchored(V)
                     /\ h[k] = AnchorStep(h[k - 1], times[k])
                /\ anchor_screenshots(times) = h[Len(times)]
<1>. DEFINE xs == times
            n == Len(xs)
            S == Anchored(V)
            b == [k \in DOMAIN sections |-> <<>>]
            F == [k \in 1 .. n |-> [x \in S |-> AnchorStep(x, xs[k])]]
            Def(g) == [T \in SUBSET (1 .. n) |->
                         IF T = {} THEN b ELSE AnchorStep(g[T \ {Max(T)}], xs[Max(T)])]
            it == CHOOSE g : g = Def(g)
<1>1. n \in Nat /\ DOMAIN xs = 1 .. n /\ b \in S
    <2>1. n \in Nat /\ DOMAIN xs = 1 .. n
    OBVIOUS
  <2>2. <<>> \in Seq(V) /\ DOMAIN <<>> = {}
    OBVIOUS
  <2>3. b \in [DOMAIN sections -> Seq(V)] /\ \A k \in DOMAIN sections : b[k] = <<>>
    BY <2>2
  <2>. HIDE DEF b
  <2>4. b \in Anchored(V)
    BY <2>2, <2>3 DEF Anchored
  <2>. QED  BY <2>1, <2>4
<1>2. \A k \in 1 .. n, x \in S : AnchorStep(x, xs[k]) \in S
  <2>1. \A k \in 1 .. n : xs[k] \in V
    BY <1>1
  <2>. HIDE DEF n, xs
  <2>. QED  BY <2>1, AnchorStepType
<1>3. F \in [1 .. n -> [S -> S]]
  BY <1>2
<1>4. anchor_screenshots(times) = it[1 .. n]
  BY <1>1 DEF anchor_screenshots, AnchorStep, FoldLeft, MapThenFoldSet
<1>5. \E g : g = Def(g)
  <2>1. PICK g \in [SUBSET (1 .. n) -> S] : FoldEquation(g, n, b, F)
    <3>. HIDE DEF F, n, S, b
    <3>. QED  BY <1>1, <1>3, FoldExists
  <2>2. \A T \in SUBSET (1 .. n) : T # {} =>
          F[Max(T)][g[T \ {Max(T)}]] = AnchorStep(g[T \ {Max(T)}], xs[Max(T)])
    <3>. HIDE DEF n, S, b
    <3>. QED  BY <1>1, MaxOfPart
  <2>. HIDE DEF F, n, S, b
  <2>3. ASSUME NEW T \in SUBSET (1 .. n)
        PROVE  g[T] = IF T = {} THEN b ELSE AnchorStep(g[T \ {Max(T)}], xs[Max(T)])
    <3>1. g[T] = IF T = {} THEN b ELSE F[Max(T)][g[T \ {Max(T)}]]
      BY <2>1 DEF FoldEquation
    <3>. QED  BY <2>2, <3>1
  <2>4. DOMAIN g = SUBSET (1 .. n) /\ g = [T \in SUBSET (1 .. n) |-> g[T]]
    BY <2>1
  <2>5. g = Def(g)
    BY <2>3, <2>4, Zenon
  <2>. QED  BY <2>5
<1>6. it = Def(it)
  BY <1>5
<1>. HIDE DEF it
<1>7. Folds(it, n, S, b, F)
  BY <1>1, <1>6, MaxOfPart DEF Folds
<1>8. PICK h : Steps(h, n, S, b, F) /\ it[1 .. n] = h[n]
  <2>. HIDE DEF F, n, S, b, Def
  <2>1. \A G \in [1 .. n -> [S -> S]] : \A g : Folds(g, n, S, b, G) =>
           \E h : Steps(h, n, S, b, G) /\ g[1 .. n] = h[n]
    BY <1>1, FoldSteps
  <2>. QED  BY <1>3, <1>7, <2>1
<1>9. \A k \in 1 .. n : h[k - 1] \in S /\ h[k] = AnchorStep(h[k - 1], xs[k])
  BY <1>8 DEF Steps
<1>. QED  BY <1>1, <1>4, <1>8, <1>9 DEF Steps

LEMMA AnchorsWhere ==
  ASSUME sections \in Seq(Section), NEW ms, NEW k, section_for_timestamp(ms) = k
  PROVE  \/ sections[k].start <= ms /\ ms < sections[k].end
         \/ \A j \in DOMAIN sections : ms \notin sections[j].start .. (sections[j].end - 1)
<1>. DEFINE around == {j \in DOMAIN sections : sections[j].start <= ms /\ ms < sections[j].end}
<1>1. around # {} => section_for_timestamp(ms) = Min(around)
  BY DEF section_for_timestamp
<1>2. around \subseteq Nat
  <2>1. DOMAIN sections \subseteq Nat
    OBVIOUS
  <2>. QED  BY <2>1
<1>3. around # {} => Min(around) \in around
  <2>. HIDE DEF around
  <2>. QED  BY <1>2, MinOfNaturals
<1>4. CASE around # {}
  <2>1. k \in around
    BY <1>1, <1>3, <1>4
  <2>. QED  BY <2>1
<1>5. CASE around = {}
  <2>. SUFFICES ASSUME NEW j \in DOMAIN sections, ms \in sections[j].start .. (sections[j].end - 1)
                PROVE  FALSE
    BY Zenon
  <2>1. sections[j] \in Section
    OBVIOUS
  <2>2. sections[j].start \in Nat /\ sections[j].end \in Nat
    BY <2>1 DEF Section
  <2>3. sections[j].start <= ms /\ ms < sections[j].end
    BY <2>2
  <2>4. j \in around
    BY <2>3
  <2>. QED  BY <1>5, <2>4
<1>. QED  BY <1>4, <1>5

LEMMA AnchorsType ==
  ASSUME NEW V, NEW times \in Seq(V)
  PROVE  anchor_screenshots(times) \in Anchored(V)
<1>1. PICK h : /\ h \in [0 .. Len(times) -> Anchored(V)]
               /\ anchor_screenshots(times) = h[Len(times)]
  BY AnchorSteps
<1>2. Len(times) \in 0 .. Len(times)
  OBVIOUS
<1>. QED  BY <1>1, <1>2

-----------------------------------------------------------------------------
\* The invariant of NotesPipeline.

Summary == [kind : {"json"}, size : SummarySizes, cites : Speakers \cup {None}]
Outcome == [kind : {"draft", "fallback"}, cites : Speakers \cup {None}]
Work == [step : {"single", "chunk", "merge", "done"}, chunks : Seq(Seq(Words)),
         sums : Seq(Summary), rest : Seq(Summary), round : [len : Nat, size : Nat] \cup {None},
         out : Outcome \cup {None}, failed : BOOLEAN]

\* What a section's narrative is at every step: only what may be sent is waiting to be
\* sent, a narrative that is done cites only the allowed, and only one that the provider
\* failed is failed.
WorkSound(w, allowed) ==
  /\ w.step = "done" => w.out \in Outcome /\ w.out.cites \in allowed \cup {None}
  /\ w.failed => w.step = "done" /\ w.out.kind = "fallback"
  /\ All(w.chunks, Sendable)
  /\ w.step = "chunk" => w.chunks # <<>>

\* What is waiting is the end of the section.
WorkLeft(w, segs_k) ==
  w.step \in {"single", "chunk"} => \E p \in Seq(Words) : segs_k = p \o FlattenSeq(w.chunks)

PipelineTypes ==
  /\ transcript \in Seq(Words) /\ NoneInverted(transcript) /\ ByStart(transcript)
  /\ stage \in {"topics", "narratives", "frontmatter", "done"}
  /\ work \in Seq(Work)
  /\ result \in {None, "EmptyTranscript", "LlmUnavailable", "notes", "untitled notes"}

Tiled ==
  /\ IF stage = "topics" \/ transcript = <<>>
     THEN work = <<>> /\ \E n \in 0 .. Len(transcript) : Tiles(sections, n)
     ELSE Tiles(sections, Len(transcript)) /\ DOMAIN work = DOMAIN sections
  /\ stage \in {"topics", "narratives"} => shots = <<>>
  /\ \A k \in DOMAIN shots : /\ k \in DOMAIN sections
                             /\ \A i \in DOMAIN shots[k] : section_for_timestamp(shots[k][i]) = k

Narratives ==
  \A k \in DOMAIN work : /\ WorkSound(work[k], allowed_speakers)
                         /\ WorkLeft(work[k], SegmentsOf(sections[k]))

Ending ==
  /\ stage \in {"topics", "narratives", "frontmatter"} => result = None
  /\ stage = "frontmatter" \/ result \in {"notes", "untitled notes"} =>
       (\A k \in DOMAIN work : work[k].step = "done") /\ \E k \in DOMAIN work : ~work[k].failed
  /\ result = "LlmUnavailable" => \A k \in DOMAIN work : work[k].failed

PipelineInv == PipelineTypes /\ Tiled /\ Narratives /\ Ending

TotalStep(n, x) == n + x.size

\* The size of a sequence of texts.
LEMMA TotalSteps ==
  ASSUME NEW U, \A x \in U : x.size \in Nat, NEW s \in Seq(U)
  PROVE  \E h : /\ h \in [0 .. Len(s) -> Nat] /\ h[0] = 0
                /\ \A k \in 1 .. Len(s) : h[k - 1] \in Nat /\ h[k] = TotalStep(h[k - 1], s[k])
                /\ Total(s) = h[Len(s)]
<1>. DEFINE xs == s
            n == Len(xs)
            S == Nat
            b == 0
            F == [k \in 1 .. n |-> [x \in S |-> TotalStep(x, xs[k])]]
            Def(g) == [T \in SUBSET (1 .. n) |->
                         IF T = {} THEN b ELSE TotalStep(g[T \ {Max(T)}], xs[Max(T)])]
            it == CHOOSE g : g = Def(g)
<1>1. n \in Nat /\ DOMAIN xs = 1 .. n /\ b \in S
  OBVIOUS
<1>2. \A k \in 1 .. n, x \in S : TotalStep(x, xs[k]) \in S
  <2>1. \A k \in 1 .. n : xs[k] \in U
    BY <1>1
  <2>. HIDE DEF n, xs
  <2>. QED  BY <2>1 DEF TotalStep
<1>3. F \in [1 .. n -> [S -> S]]
  BY <1>2
<1>4. Total(s) = it[1 .. n]
  BY <1>1 DEF Total, TotalStep, FoldLeft, MapThenFoldSet
<1>5. \E g : g = Def(g)
  <2>1. PICK g \in [SUBSET (1 .. n) -> S] : FoldEquation(g, n, b, F)
    <3>. HIDE DEF F, n, S, b
    <3>. QED  BY <1>1, <1>3, FoldExists
  <2>2. \A T \in SUBSET (1 .. n) : T # {} =>
          F[Max(T)][g[T \ {Max(T)}]] = TotalStep(g[T \ {Max(T)}], xs[Max(T)])
    <3>. HIDE DEF n, S, b
    <3>. QED  BY <1>1, MaxOfPart
  <2>. QED  BY <2>1, <2>2 DEF FoldEquation
<1>6. it = Def(it)
  BY <1>5
<1>. HIDE DEF it
<1>7. Folds(it, n, S, b, F)
  BY <1>1, <1>6, MaxOfPart DEF Folds
<1>8. PICK h : Steps(h, n, S, b, F) /\ it[1 .. n] = h[n]
  <2>. HIDE DEF F, n, S, b, Def
  <2>1. \A G \in [1 .. n -> [S -> S]] : \A g : Folds(g, n, S, b, G) =>
           \E h : Steps(h, n, S, b, G) /\ g[1 .. n] = h[n]
    BY <1>1, FoldSteps
  <2>. QED  BY <1>3, <1>7, <2>1
<1>9. \A k \in 1 .. n : h[k - 1] \in S /\ h[k] = TotalStep(h[k - 1], xs[k])
  BY <1>8 DEF Steps
<1>. QED  BY <1>1, <1>4, <1>8, <1>9 DEF Steps

LEMMA SummaryFields ==
  \A v \in Summary : v.size \in Nat /\ v.cites \in Speakers \cup {None}
<1>1. SummarySizes \subseteq Nat
  BY BudgetIsPositive
<1>. QED  BY <1>1 DEF Summary

LEMMA TotalType ==
  ASSUME NEW s \in Seq(Summary)
  PROVE  Total(s) \in Nat
<1>1. PICK h : h \in [0 .. Len(s) -> Nat] /\ Total(s) = h[Len(s)]
  <2>1. \A v \in Summary : v.size \in Nat
    BY SummaryFields
  <2>. QED  BY <2>1, TotalSteps
<1>2. Len(s) \in 0 .. Len(s)
  OBVIOUS
<1>. QED  BY <1>1, <1>2

LEMMA ReplyIs ==
  ASSUME NEW v \in Replies, v.kind = "json"
  PROVE  v \in Summary
BY DEF Replies, Summary

LEMMA AllEmpty == \A G : All(<<>>, G)
<1>1. DOMAIN <<>> = {}
  OBVIOUS
<1>. QED  BY <1>1 DEF All

LEMMA WorkFields ==
  ASSUME NEW w \in Work
  PROVE  /\ w.step \in {"single", "chunk", "merge", "done"} /\ w.chunks \in Seq(Seq(Words))
         /\ w.sums \in Seq(Summary) /\ w.rest \in Seq(Summary) /\ w.failed \in BOOLEAN
BY DEF Work

LEMMA DraftIs ==
  ASSUME NEW w \in Work, NEW v \in Summary, ~w.failed, Allowed(v)
  PROVE  LET new == Draft(w, v)
         IN  new \in Work /\ WorkSound(new, allowed_speakers) /\ new.step = "done"
<1>. DEFINE new == Draft(w, v)
            o == [kind |-> "draft", cites |-> v.cites]
<1>1. o \in Outcome /\ o.cites \in allowed_speakers \cup {None}
  BY SummaryFields DEF Outcome, Allowed
<1>2. <<>> \in Seq(Summary) /\ <<>> \in Seq(Seq(Words))
  OBVIOUS
<1>3. new = [w EXCEPT !.step = "done", !.out = o, !.chunks = <<>>, !.sums = <<>>, !.rest = <<>>,
                      !.round = None]
  BY DEF Draft
<1>. HIDE DEF o, new
<1>4. /\ new \in Work /\ new.step = "done" /\ new.out = o /\ new.chunks = <<>>
      /\ new.failed = w.failed
  BY <1>1, <1>2, <1>3 DEF Work
<1>. QED  BY <1>1, <1>4, AllEmpty DEF WorkSound, new

LEMMA FallbackIs ==
  ASSUME NEW w \in Work, NEW failed \in BOOLEAN
  PROVE  LET new == Fallback(w, failed)
         IN  new \in Work /\ WorkSound(new, allowed_speakers) /\ new.step = "done"
<1>. DEFINE new == Fallback(w, failed)
            o == [kind |-> "fallback", cites |-> None]
<1>1. o \in Outcome /\ o.cites \in allowed_speakers \cup {None} /\ o.kind = "fallback"
  BY DEF Outcome
<1>2. <<>> \in Seq(Summary) /\ <<>> \in Seq(Seq(Words))
  OBVIOUS
<1>3. new = [w EXCEPT !.step = "done", !.failed = failed, !.out = o, !.chunks = <<>>, !.sums = <<>>,
                      !.rest = <<>>, !.round = None]
  BY DEF Fallback
<1>. HIDE DEF o, new
<1>4. /\ new \in Work /\ new.step = "done" /\ new.out = o /\ new.chunks = <<>>
  BY <1>1, <1>2, <1>3 DEF Work
<1>. QED  BY <1>1, <1>4, AllEmpty DEF WorkSound, new

LEMMA VerifiedIs ==
  ASSUME NEW w \in Work, NEW v \in Summary, ~w.failed
  PROVE  LET new == Verified(w, v)
         IN  new \in Work /\ WorkSound(new, allowed_speakers) /\ new.step = "done"
<1>1. CASE Allowed(v)
  BY <1>1, DraftIs DEF Verified
<1>2. CASE ~Allowed(v)
  BY <1>2, FallbackIs DEF Verified
<1>. QED  BY <1>1, <1>2

LEMMA FirstSummary ==
  ASSUME NEW s \in Seq(Summary), Len(s) = 1
  PROVE  s[1] \in Summary
OBVIOUS

LEMMA EnterMergeIs ==
  ASSUME NEW w \in Work, ~w.failed
  PROVE  LET new == EnterMerge(w)
         IN  new \in Work /\ WorkSound(new, allowed_speakers) /\ new.step \in {"merge", "done"}
<1>1. w.sums \in Seq(Summary) /\ w.failed \in BOOLEAN
  BY WorkFields
<1>2. CASE Len(w.sums) = 1
  <2>1. w.sums[1] \in Summary
    BY <1>1, <1>2, FirstSummary
  <2>2. EnterMerge(w) = Verified(w, w.sums[1])
    BY <1>2 DEF EnterMerge
  <2>. QED  BY <2>1, <2>2, VerifiedIs
<1>3. CASE Len(w.sums) # 1
  <2>. DEFINE new == EnterMerge(w)
              r == [len |-> Len(w.sums), size |-> Total(w.sums)]
              s == w.sums
  <2>1. r \in [len : Nat, size : Nat]
    BY <1>1, TotalType
  <2>2. <<>> \in Seq(Summary) /\ <<>> \in Seq(Seq(Words)) /\ s \in Seq(Summary)
    BY <1>1
  <2>3. new = [w EXCEPT !.step = "merge", !.rest = s, !.sums = <<>>, !.chunks = <<>>, !.round = r]
    BY <1>3 DEF EnterMerge
  <2>. HIDE DEF r, new, s
  <2>4. new \in Work /\ new.step = "merge" /\ new.chunks = <<>> /\ new.failed = w.failed
    BY <2>1, <2>2, <2>3 DEF Work
  <2>. QED  BY <2>4, AllEmpty DEF WorkSound, new
<1>. QED  BY <1>2, <1>3

LEMMA EndRoundIs ==
  ASSUME NEW w \in Work, ~w.failed, w.step = "merge", WorkSound(w, allowed_speakers)
  PROVE  LET new == EndRound(w)
         IN  new \in Work /\ WorkSound(new, allowed_speakers) /\ new.step \in {"merge", "done"}
<1>1. w.sums \in Seq(Summary)
  BY WorkFields
<1>. DEFINE stuck == Len(w.sums) = w.round.len /\ Total(w.sums) >= w.round.size
<1>2. CASE stuck
  BY <1>2, FallbackIs DEF EndRound
<1>3. CASE ~stuck /\ Len(w.sums) = 1
  <2>1. w.sums[1] \in Summary
    BY <1>1, <1>3, FirstSummary
  <2>2. EndRound(w) = Verified(w, w.sums[1])
    BY <1>3 DEF EndRound
  <2>. QED  BY <2>1, <2>2, VerifiedIs
<1>4. CASE ~stuck /\ Len(w.sums) # 1
  <2>. DEFINE new == EndRound(w)
              r == [len |-> Len(w.sums), size |-> Total(w.sums)]
              s == w.sums
  <2>1. r \in [len : Nat, size : Nat]
    BY <1>1, TotalType
  <2>2. <<>> \in Seq(Summary) /\ s \in Seq(Summary)
    BY <1>1
  <2>3. new = [w EXCEPT !.rest = s, !.sums = <<>>, !.round = r]
    BY <1>4 DEF EndRound
  <2>. HIDE DEF r, new, s
  <2>4. new \in Work /\ new.step = w.step /\ new.chunks = w.chunks /\ new.failed = w.failed
    BY <2>1, <2>2, <2>3 DEF Work
  <2>. QED  BY <2>4 DEF WorkSound, new
<1>. HIDE DEF stuck
<1>. QED  BY <1>2, <1>3, <1>4

\* A batch holds at least one summary, and no more than there are.
LEMMA BatchLenIs ==
  ASSUME NEW w \in Work, w.rest # <<>>
  PROVE  BatchLen(w) \in 1 .. Len(w.rest)
<1>. DEFINE n == Len(w.rest)
            T == {m \in 1 .. n : m = 1 \/ Fits(build_merge_section_prompt(SubSeq(w.rest, 1, m)))}
<1>1. w.rest \in Seq(Summary)
  BY WorkFields
<1>2. n \in Nat \ {0}
  BY <1>1, EmptySeq
<1>3. BatchLen(w) = Max(T)
  BY DEF BatchLen
<1>. HIDE DEF n
<1>4. T \subseteq 1 .. n /\ 1 \in T
  BY <1>2
<1>. HIDE DEF T
<1>5. T \in SUBSET (1 .. n) /\ T # {}
  BY <1>4
<1>6. Max(T) \in 1 .. n
  BY <1>2, <1>5, MaxOfPart
<1>. QED  BY <1>3, <1>6 DEF n

\* One summary more, and the rest of the round.
LEMMA MergedMore ==
  ASSUME NEW w \in Work, WorkSound(w, allowed_speakers), w.step = "merge",
         NEW sums \in Seq(Summary), NEW rest \in Seq(Summary), NEW new,
         new = [w EXCEPT !.sums = sums, !.rest = rest]
  PROVE  new \in Work /\ WorkSound(new, allowed_speakers) /\ new.step = "merge"
<1>1. /\ new \in Work /\ new.step = w.step /\ new.chunks = w.chunks /\ new.failed = w.failed
      /\ new.out = w.out
  BY DEF Work
<1>. QED  BY <1>1 DEF WorkSound

\* A step of one section's narrative.
LEMMA WorkStepped ==
  ASSUME PipelineInv, stage = "narratives", NEW k \in DOMAIN work, NEW new \in Work,
         WorkSound(new, allowed_speakers), WorkLeft(new, SegmentsOf(sections[k])),
         work' = [work EXCEPT ![k] = new],
         UNCHANGED <<transcript, stage, sections, shots, result>>
  PROVE  PipelineInv'
<1>. USE DEF PipelineInv
<1>1. work' \in Seq(Work) /\ DOMAIN work' = DOMAIN work
  <2>0. work \in Seq(Work)
    BY DEF PipelineTypes
  <2>1. work \in Seq(Work) /\ k \in 1 .. Len(work)
    BY <2>0
  <2>2. [work EXCEPT ![k] = new] \in Seq(Work)
    BY <2>1
  <2>3. DOMAIN [work EXCEPT ![k] = new] = DOMAIN work
    OBVIOUS
  <2>. QED  BY <2>2, <2>3
<1>2. \A j \in DOMAIN work : work'[j] = IF j = k THEN new ELSE work[j]
  BY DEF PipelineTypes
<1>3. PipelineTypes'
  BY <1>1 DEF PipelineTypes
<1>4. allowed_speakers' = allowed_speakers
  BY DEF allowed_speakers, Voices
<1>5. \A s : SegmentsOf(s)' = SegmentsOf(s)
  BY DEF SegmentsOf
<1>6. Narratives'
  <2>1. \A j \in DOMAIN work : /\ WorkSound(work'[j], allowed_speakers)
                               /\ WorkLeft(work'[j], SegmentsOf(sections[j]))
    BY <1>2 DEF Narratives
  <2>. QED  BY <1>1, <1>4, <2>1 DEF Narratives, SegmentsOf
<1>7. Tiled'
  <2>1. work # <<>>
    <3>1. DOMAIN <<>> = {}
      OBVIOUS
    <3>. QED  BY <3>1
  <2>2. /\ ~(stage = "topics" \/ transcript = <<>>)
        /\ Tiles(sections, Len(transcript)) /\ DOMAIN work = DOMAIN sections
    BY <2>1 DEF Tiled
  <2>3. Tiles(sections, Len(transcript))'
    BY <2>2 DEF Tiles, Bounds, Part
  <2>4. shots = <<>> /\ shots' = <<>> /\ DOMAIN <<>> = {}
    BY DEF Tiled
  <2>. QED  BY <1>1, <2>2, <2>3, <2>4 DEF Tiled
<1>8. Ending'
  <2>1. result = None
    BY DEF Ending
  <2>. QED  BY <2>1, BudgetIsPositive DEF Ending
<1>. QED  BY <1>3, <1>6, <1>7, <1>8

-----------------------------------------------------------------------------
\* The steps of the pipeline, one by one.

LEMMA TilesNone == Tiles(<<>>, 0)
<1>. DEFINE b == [k \in 0 .. 0 |-> 0]
<1>1. <<>> \in Seq(Section) /\ Len(<<>>) = 0
  OBVIOUS
<1>2. b \in [0 .. 0 -> 0 .. 0] /\ b[0] = 0 /\ 1 .. 0 = {}
  OBVIOUS
<1>. HIDE DEF b
<1>3. Bounds(b, <<>>, 0)
  BY <1>1, <1>2 DEF Bounds
<1>. QED  BY <1>1, <1>3 DEF Tiles

LEMMA PipelineInitially == PipelineInit => PipelineInv
<1>. SUFFICES ASSUME PipelineInit PROVE PipelineInv
  OBVIOUS
<1>. USE DEF PipelineInit
<1>0. DOMAIN <<>> = {} /\ <<>> \in Seq(Work)
  OBVIOUS
<1>1. PipelineTypes
  BY <1>0, TranscriptsType DEF PipelineTypes
<1>2. Tiled
  <2>1. Len(transcript) \in Nat
    BY <1>1 DEF PipelineTypes
  <2>2. 0 \in 0 .. Len(transcript)
    BY <2>1
  <2>. QED  BY <1>0, <2>2, TilesNone DEF Tiled
<1>3. Narratives
  BY <1>0 DEF Narratives
<1>4. Ending
  BY BudgetIsPositive DEF Ending
<1>. QED  BY <1>1, <1>2, <1>3, <1>4 DEF PipelineInv

\* Where nothing is cut and nothing said is changed, the tiling stands.
LEMMA TilesStand ==
  ASSUME sections' = sections, transcript' = transcript
  PROVE  /\ Tiles(sections, Len(transcript))' <=> Tiles(sections, Len(transcript))
         /\ (\E m \in 0 .. Len(transcript) : Tiles(sections, m))'
              <=> \E m \in 0 .. Len(transcript) : Tiles(sections, m)
<1>1. Tiles(sections, Len(transcript))' <=> Tiles(sections, Len(transcript))
  BY DEF Tiles, Bounds, Part
<1>2. (\E m \in 0 .. Len(transcript) : Tiles(sections, m))'
        <=> \E m \in 0 .. Len(transcript) : Tiles(sections, m)
  BY DEF Tiles, Bounds, Part
<1>. QED  BY <1>1, <1>2

LEMMA EmptyStep ==
  ASSUME PipelineInv, EmptyTranscript
  PROVE  PipelineInv'
<1>. USE DEF EmptyTranscript
<1>0. DOMAIN <<>> = {} /\ work = <<>>
  BY DEF PipelineInv, Tiled
<1>1. PipelineTypes'
  BY DEF PipelineInv, PipelineTypes
<1>2. Tiled'
  <2>1. \E n \in 0 .. Len(transcript) : Tiles(sections, n)
    BY DEF PipelineInv, Tiled
  <2>2. (\E n \in 0 .. Len(transcript) : Tiles(sections, n))'
    BY <2>1, TilesStand
  <2>3. shots' = <<>>
    BY DEF PipelineInv, Tiled
  <2>. QED  BY <1>0, <2>2, <2>3 DEF Tiled
<1>3. Narratives'
  BY <1>0 DEF Narratives
<1>4. Ending'
  BY DEF Ending
<1>. QED  BY <1>1, <1>2, <1>3, <1>4 DEF PipelineInv

LEMMA ConsecOne ==
  ASSUME NEW i \in Nat
  PROVE  <<i + 1>> = Consec(i, i + 1)
<1>. DEFINE c == Consec(i, i + 1)
<1>1. c \in Seq(Nat) /\ Len(c) = 1 /\ c[1] = i + 1
  <2>1. (i + 1) - i = 1
    OBVIOUS
  <2>. QED  BY <2>1 DEF Consec
<1>. HIDE DEF c
<1>2. <<c[1]>> = c
  BY <1>1
<1>. QED  BY <1>1, <1>2 DEF c

\* Nothing is promised before the parallel stage has ended.
LEMMA NothingEnded ==
  ASSUME stage' \in {"topics", "narratives"}, result' = None
  PROVE  Ending'
<1>1. stage' # "frontmatter" /\ stage' # "done"
  OBVIOUS
<1>2. None \notin {"notes", "untitled notes", "LlmUnavailable"}
  BY BudgetIsPositive
<1>3. result' \notin {"notes", "untitled notes"} /\ result' # "LlmUnavailable"
  BY <1>2
<1>. QED  BY <1>1, <1>3 DEF Ending

LEMMA ScanSegmentStep ==
  ASSUME PipelineInv, ScanSegment
  PROVE  PipelineInv'
<1>. USE DEF ScanSegment
<1>0. DOMAIN <<>> = {} /\ transcript \in Seq(Words)
  <2>1. transcript \in Seq(Words)
    BY DEF PipelineInv, PipelineTypes
  <2>2. DOMAIN <<>> = {}
    OBVIOUS
  <2>. QED  BY <2>1, <2>2
<1>1. work = <<>> /\ shots = <<>> /\ stage = "topics"
  BY DEF PipelineInv, Tiled
<1>2. PICK n \in 0 .. Len(transcript) : Tiles(sections, n)
  BY DEF PipelineInv, Tiled
<1>3. n \in Nat /\ Len(transcript) \in Nat
  BY <1>0, <1>2
<1>4. Scanned = n
  BY <1>2, <1>3, TilesScanned
<1>. DEFINE hi == n + 1
<1>5. hi \in 1 .. Len(transcript) /\ n < hi
  BY <1>3, <1>4
<1>6. NewSection(hi) = Part(n, hi) /\ <<hi>> = Consec(n, hi)
  BY <1>3, ConsecOne DEF NewSection, Part
<1>7. n = 0 <=> sections = <<>>
  <2>1. PICK b : Bounds(b, sections, n)
    BY <1>2 DEF Tiles
  <2>. DEFINE m == Len(sections)
  <2>2. sections \in Seq(Section) /\ m \in Nat
    BY <1>2 DEF Tiles
  <2>3. b[0] = 0 /\ b[m] = n
    BY <2>1 DEF Bounds
  <2>4. CASE sections = <<>>
    <3>1. m = 0
      BY <2>4
    <3>. QED  BY <2>3, <2>4, <3>1
  <2>5. CASE sections # <<>>
    <3>1. m \in 1 .. m
      BY <2>2, <2>5, EmptySeq
    <3>2. b[m - 1] < b[m] /\ b[m - 1] \in 0 .. n
      <4>1. m - 1 \in 0 .. m
        BY <2>2, <3>1
      <4>. QED  BY <2>1, <3>1, <4>1 DEF Bounds
    <3>. QED  BY <1>3, <2>3, <2>5, <3>2
  <2>. QED  BY <2>4, <2>5
<1>8. Tiles(sections', hi)
  <2>1. CASE n = 0
    <3>1. sections' = <<NewSection(hi)>> /\ sections = <<>>
      BY <1>4, <1>7, <2>1
    <3>2. sections' = Append(sections, Part(n, hi))
      BY <1>6, <3>1
    <3>3. Tiles(Append(sections, Part(n, hi)), hi)
      BY <1>0, <1>2, <1>3, <1>5, TilesAppend
    <3>. QED  BY <3>2, <3>3
  <2>2. CASE n # 0
    <3>1. sections # <<>>
      BY <1>7, <2>2
    <3>. DEFINE more == [sections EXCEPT ![Len(sections)] = Extend(@, transcript[hi].end, Consec(n, hi))]
    <3>2. hi # 1 /\ hi = Scanned + 1
      BY <1>3, <1>4, <2>2
    <3>. HIDE DEF hi
    <3>3. \/ sections' = Append(sections, Part(n, hi))
          \/ sections' = more
      BY <1>6, <3>2
    <3>4. Tiles(Append(sections, Part(n, hi)), hi)
      BY <1>0, <1>2, <1>3, <1>5, TilesAppend
    <3>5. Tiles(more, hi)
      BY <1>0, <1>2, <1>3, <1>5, <3>1, TilesExtend
    <3>. QED  BY <3>3, <3>4, <3>5
  <2>. QED  BY <2>1, <2>2
<1>. HIDE DEF hi
<1>9. PipelineTypes'
  BY <1>1 DEF PipelineInv, PipelineTypes
<1>10. Tiled'
  <2>1. hi \in 0 .. Len(transcript)
    BY <1>3, <1>5
  <2>2. \E m \in 0 .. Len(transcript) : Tiles(sections', m)
    BY <1>8, <2>1
  <2>3. (\E m \in 0 .. Len(transcript) : Tiles(sections, m))'
    BY <2>2 DEF Tiles, Bounds, Part
  <2>. QED  BY <1>0, <1>1, <2>3 DEF Tiled
<1>11. Narratives'
  BY <1>0, <1>1 DEF Narratives
<1>12. Ending'
  <2>1. result = None
    BY <1>1 DEF PipelineInv, Ending
  <2>2. stage' = "topics" /\ result' = None
    BY <1>1, <2>1
  <2>. QED  BY <2>2, NothingEnded
<1>. QED  BY <1>9, <1>10, <1>11, <1>12 DEF PipelineInv

\* What the parallel stage starts from.
LEMMA FirstWorkIs ==
  ASSUME NEW s \in Section, NEW said \in Seq(Words), said # <<>>, SegmentsOf(s) = said
  PROVE  /\ FirstWork(s) \in Work /\ WorkSound(FirstWork(s), allowed_speakers)
         /\ WorkLeft(FirstWork(s), said)
<1>. DEFINE w == FirstWork(s)
            cs == IF SegmentsFit(said) THEN <<said>> ELSE Chunks(said)
            st == IF SegmentsFit(said) THEN "single" ELSE "chunk"
<1>1. /\ cs \in Seq(Seq(Words)) /\ cs # <<>> /\ All(cs, Sendable) /\ FlattenSeq(cs) = said
  <2>1. CASE SegmentsFit(said)
    <3>1. cs = <<said>>
      BY <2>1
    <3>2. <<said>> \in Seq(Seq(Words)) /\ <<said>> # <<>>
      OBVIOUS
    <3>3. said \in Sendable
      BY <2>1 DEF Sendable, Chunk
    <3>4. All(<<said>>, Sendable)
      BY <3>3, AllOne
    <3>5. FlattenSeq(<<said>>) = said
      BY FlattenOne
    <3>. HIDE DEF cs
    <3>. QED  BY <3>1, <3>2, <3>4, <3>5
  <2>2. CASE ~SegmentsFit(said)
    <3>1. cs = Chunks(said)
      BY <2>2
    <3>. HIDE DEF cs
    <3>. QED  BY <3>1, ChunksKept
  <2>. QED  BY <2>1, <2>2
<1>2. w = [step |-> st, chunks |-> cs, sums |-> <<>>, rest |-> <<>>, round |-> None, out |-> None,
           failed |-> FALSE]
  BY DEF FirstWork
<1>3. st \in {"single", "chunk"} /\ <<>> \in Seq(Summary)
  OBVIOUS
<1>. HIDE DEF w, cs, st
<1>4. w \in Work /\ w.step \in {"single", "chunk"} /\ w.chunks = cs /\ w.failed = FALSE
  BY <1>1, <1>2, <1>3 DEF Work
<1>5. WorkSound(w, allowed_speakers)
  BY <1>1, <1>4 DEF WorkSound
<1>6. said = <<>> \o FlattenSeq(w.chunks)
  BY <1>1, <1>4
<1>7. WorkLeft(w, said)
  <2>1. <<>> \in Seq(Words)
    OBVIOUS
  <2>. QED  BY <1>6, <2>1 DEF WorkLeft
<1>. QED  BY <1>4, <1>5, <1>7 DEF w

LEMMA EndTopicsStep ==
  ASSUME PipelineInv, EndTopics
  PROVE  PipelineInv'
<1>. DEFINE joined == merge_short_sections(sections)
            N == Len(transcript)
<1>0. /\ stage = "topics" /\ transcript # <<>> /\ Scanned = N /\ sections' = joined
      /\ work' = [k \in DOMAIN joined |-> FirstWork(joined[k])] /\ stage' = "narratives"
      /\ transcript' = transcript /\ shots' = shots /\ result' = result
  BY DEF EndTopics
<1>1. /\ transcript \in Seq(Words) /\ work = <<>> /\ shots = <<>> /\ DOMAIN <<>> = {}
      /\ \E n \in 0 .. N : Tiles(sections, n)
  <2>1. transcript \in Seq(Words)
    BY DEF PipelineInv, PipelineTypes
  <2>2. Tiled
    BY DEF PipelineInv
  <2>3. work = <<>> /\ shots = <<>> /\ \E n \in 0 .. N : Tiles(sections, n)
    BY <1>0, <2>2 DEF Tiled
  <2>. QED  BY <2>1, <2>3
<1>2. PICK n \in 0 .. N : Tiles(sections, n)
  BY <1>1
<1>3. n \in Nat /\ N \in Nat
  BY <1>1, <1>2
<1>4. n = N
  BY <1>0, <1>2, <1>3, TilesScanned
<1>5. Tiles(joined, N)
  BY <1>1, <1>2, <1>4, TilesMerged
<1>. HIDE DEF joined, N
<1>6. ASSUME NEW k \in DOMAIN joined
      PROVE  /\ FirstWork(joined[k]) \in Work /\ WorkSound(FirstWork(joined[k]), allowed_speakers)
             /\ WorkLeft(FirstWork(joined[k]), SegmentsOf(joined[k]))
  <2>1. SegmentsOf(joined[k]) \in Seq(Words) /\ SegmentsOf(joined[k]) # <<>>
    BY <1>1, <1>5, SectionSegments DEF N
  <2>2. joined[k] \in Section
    <3>1. joined \in Seq(Section)
      BY <1>5 DEF Tiles
    <3>. QED  BY <3>1
  <2>. QED  BY <2>1, <2>2, FirstWorkIs
<1>7. work' \in Seq(Work) /\ DOMAIN work' = DOMAIN joined
  <2>1. joined \in Seq(Section)
    BY <1>5 DEF Tiles
  <2>. DEFINE m == Len(joined)
  <2>2. m \in Nat /\ DOMAIN joined = 1 .. m
    BY <2>1
  <2>. HIDE DEF m
  <2>3. work' \in [1 .. m -> Work]
    BY <1>0, <1>6, <2>2
  <2>. QED  BY <1>0, <2>2, <2>3
<1>8. PipelineTypes'
  BY <1>0, <1>7 DEF PipelineInv, PipelineTypes
<1>9. Tiled'
  <2>1. Tiles(sections, N)'
    BY <1>0, <1>5 DEF Tiles, Bounds, Part, N
  <2>. QED  BY <1>0, <1>1, <1>7, <2>1 DEF Tiled, N
<1>10. Narratives'
  <2>1. \A k \in DOMAIN work' : /\ WorkSound(work'[k], allowed_speakers)
                                /\ WorkLeft(work'[k], SegmentsOf(joined[k]))
    BY <1>0, <1>6, <1>7
  <2>2. allowed_speakers' = allowed_speakers
    BY <1>0 DEF allowed_speakers, Voices
  <2>3. \A k \in DOMAIN work' : SegmentsOf(sections[k])' = SegmentsOf(joined[k])
    BY <1>0 DEF SegmentsOf
  <2>. QED  BY <1>0, <2>1, <2>2 DEF Narratives, SegmentsOf
<1>11. Ending'
  <2>1. result = None
    BY <1>0 DEF PipelineInv, Ending
  <2>2. stage' = "narratives" /\ result' = None
    BY <1>0, <2>1
  <2>. QED  BY <2>2, NothingEnded
<1>. QED  BY <1>8, <1>9, <1>10, <1>11 DEF PipelineInv

\* The action of one section's narrative, by what its narrative becomes.
LEMMA NarrativeOf ==
  ASSUME PipelineInv, stage = "narratives", NEW k \in DOMAIN work
  PROVE  /\ work[k] \in Work /\ WorkSound(work[k], allowed_speakers)
         /\ WorkLeft(work[k], SegmentsOf(sections[k]))
         /\ work[k].step # "done" => ~work[k].failed
<1>1. work \in Seq(Work)
  BY DEF PipelineInv, PipelineTypes
<1>2. work[k] \in Work
  BY <1>1
<1>3. WorkSound(work[k], allowed_speakers) /\ WorkLeft(work[k], SegmentsOf(sections[k]))
  BY DEF PipelineInv, Narratives
<1>. QED  BY <1>2, <1>3 DEF WorkSound

\* A narrative that is merged or done has nothing left to send.
LEMMA NothingLeft ==
  ASSUME NEW w, NEW said, w.step \in {"merge", "done"}
  PROVE  WorkLeft(w, said)
BY DEF WorkLeft

LEMMA AskSingleStep ==
  ASSUME PipelineInv, NEW k \in DOMAIN work, NEW v \in Replies, AskSingle(k, v)
  PROVE  PipelineInv'
<1>. DEFINE w == work[k]
            new == IF v.kind = "json" THEN Verified(w, v) ELSE Fallback(w, v.kind = "error")
<1>1. /\ stage = "narratives" /\ w.step = "single" /\ work' = [work EXCEPT ![k] = new]
      /\ UNCHANGED <<transcript, stage, sections, shots, result>>
  BY DEF AskSingle
<1>2. w \in Work /\ ~w.failed
  BY <1>1, NarrativeOf
<1>. HIDE DEF w
<1>3. new \in Work /\ WorkSound(new, allowed_speakers) /\ new.step = "done"
  <2>1. CASE v.kind = "json"
    <3>1. v \in Summary
      BY <2>1, ReplyIs
    <3>2. new = Verified(w, v)
      BY <2>1
    <3>. QED  BY <1>2, <3>1, <3>2, VerifiedIs
  <2>2. CASE v.kind # "json"
    <3>1. new = Fallback(w, v.kind = "error") /\ (v.kind = "error") \in BOOLEAN
      BY <2>2
    <3>. QED  BY <1>2, <3>1, FallbackIs
  <2>. QED  BY <2>1, <2>2
<1>. HIDE DEF new
<1>4. WorkLeft(new, SegmentsOf(sections[k]))
  BY <1>3, NothingLeft
<1>. QED  BY <1>1, <1>3, <1>4, WorkStepped

\* A provider that fails, or answers with no JSON, ends the section.
LEMMA AnsweredBadly ==
  ASSUME NEW w \in Work, NEW v \in Replies
  PROVE  LET new == Fallback(w, v.kind = "error")
         IN  new \in Work /\ WorkSound(new, allowed_speakers) /\ new.step = "done"
<1>1. (v.kind = "error") \in BOOLEAN
  OBVIOUS
<1>. QED  BY <1>1, FallbackIs

LEMMA AskChunkStep ==
  ASSUME PipelineInv, NEW k \in DOMAIN work, NEW v \in Replies, AskChunk(k, v)
  PROVE  PipelineInv'
<1>. DEFINE w == work[k]
            said == SegmentsOf(sections[k])
            rest == Tail(w.chunks)
            sums == Append(w.sums, v)
            more == [w EXCEPT !.chunks = Tail(@), !.sums = Append(@, v)]
            new == IF v.kind # "json" THEN Fallback(w, v.kind = "error")
                   ELSE IF more.chunks = <<>> THEN EnterMerge(more) ELSE more
<1>1. /\ stage = "narratives" /\ w.step = "chunk" /\ work' = [work EXCEPT ![k] = new]
      /\ UNCHANGED <<transcript, stage, sections, shots, result>>
  BY DEF AskChunk
<1>2. w \in Work /\ ~w.failed /\ WorkSound(w, allowed_speakers) /\ WorkLeft(w, said)
  BY <1>1, NarrativeOf
<1>3. w.chunks \in Seq(Seq(Words)) /\ w.chunks # <<>> /\ All(w.chunks, Sendable) /\ w.sums \in Seq(Summary)
  BY <1>1, <1>2, WorkFields DEF WorkSound
<1>4. more = [w EXCEPT !.chunks = rest, !.sums = sums]
  BY DEF rest, sums
<1>. HIDE DEF w, said, more
<1>5. CASE v.kind # "json"
  <2>1. new = Fallback(w, v.kind = "error")
    BY <1>5
  <2>2. new \in Work /\ WorkSound(new, allowed_speakers) /\ new.step = "done"
    BY <1>2, <2>1, AnsweredBadly
  <2>. HIDE DEF new
  <2>3. WorkLeft(new, SegmentsOf(sections[k]))
    BY <2>2, NothingLeft
  <2>. QED  BY <1>1, <2>2, <2>3, WorkStepped
<1>6. CASE v.kind = "json"
  <2>1. sums \in Seq(Summary)
    <3>1. v \in Summary
      BY <1>6, ReplyIs
    <3>. QED  BY <1>3, <3>1
  <2>2. /\ w.chunks[1] \in Seq(Words) /\ rest \in Seq(Seq(Words))
        /\ FlattenSeq(w.chunks) = w.chunks[1] \o FlattenSeq(rest)
    <3>. DEFINE cs == w.chunks
    <3>1. cs \in Seq(Seq(Words)) /\ cs # <<>>
      BY <1>3
    <3>. HIDE DEF cs
    <3>2. /\ cs[1] \in Seq(Words) /\ Tail(cs) \in Seq(Seq(Words))
          /\ FlattenSeq(cs) = cs[1] \o FlattenSeq(Tail(cs))
      BY <3>1, FlattenTail
    <3>. QED  BY <3>2 DEF cs
  <2>3. All(rest, Sendable)
    <3>. DEFINE cs == w.chunks
                n == Len(cs)
    <3>1. cs \in Seq(Seq(Words)) /\ cs # <<>> /\ n \in Nat \ {0} /\ All(cs, Sendable) /\ DOMAIN cs = 1 .. n
      <4>1. cs \in Seq(Seq(Words)) /\ cs # <<>> /\ All(cs, Sendable)
        BY <1>3
      <4>. HIDE DEF cs
      <4>. QED  BY <4>1, EmptySeq
    <3>2. rest = Tail(cs)
      OBVIOUS
    <3>. HIDE DEF cs, rest
    <3>3. DOMAIN rest = 1 .. n - 1 /\ \A i \in 1 .. n - 1 : rest[i] = cs[i + 1]
      BY <3>1, <3>2
    <3>. HIDE DEF n
    <3>4. \A i \in 1 .. n - 1 : cs[i + 1] \in Sendable
      BY <3>1 DEF All
    <3>. QED  BY <3>3, <3>4 DEF All
  <2>. HIDE DEF rest, sums
  <2>4. more \in Work /\ more.step = "chunk" /\ more.chunks = rest /\ more.failed = FALSE
    <3>1. w.failed \in BOOLEAN
      BY <1>2, WorkFields
    <3>. QED  BY <1>1, <1>2, <1>4, <2>1, <2>2, <3>1 DEF Work
  <2>5. CASE rest = <<>>
    <3>1. new = EnterMerge(more)
      BY <1>6, <2>4, <2>5
    <3>. HIDE DEF new
    <3>2. new \in Work /\ WorkSound(new, allowed_speakers) /\ new.step \in {"merge", "done"}
      BY <2>4, <3>1, EnterMergeIs
    <3>3. WorkLeft(new, SegmentsOf(sections[k]))
      BY <3>2, NothingLeft
    <3>. QED  BY <1>1, <3>2, <3>3, WorkStepped
  <2>6. CASE rest # <<>>
    <3>1. new = more
      BY <1>6, <2>4, <2>6
    <3>. HIDE DEF new
    <3>2. WorkSound(new, allowed_speakers)
      BY <2>3, <2>4, <2>6, <3>1 DEF WorkSound
    <3>3. PICK p \in Seq(Words) : said = p \o FlattenSeq(w.chunks)
      BY <1>1, <1>2 DEF WorkLeft
    <3>. DEFINE c == w.chunks[1]
                f == FlattenSeq(rest)
    <3>4. c \in Seq(Words) /\ f \in Seq(Words) /\ said = p \o (c \o f)
      BY <2>2, <3>3, FlattenType
    <3>. HIDE DEF c
    <3>5. (p \o c) \o f = p \o (c \o f) /\ p \o c \in Seq(Words)
      <4>. HIDE DEF f
      <4>1. \A T : p \in Seq(T) /\ c \in Seq(T) /\ f \in Seq(T) => (p \o c) \o f = p \o (c \o f)
        BY ConcatAssociative
      <4>. QED  BY <3>4, <4>1
    <3>6. said = (p \o c) \o FlattenSeq(new.chunks)
      BY <2>4, <3>1, <3>4, <3>5
    <3>7. WorkLeft(new, SegmentsOf(sections[k]))
      BY <3>5, <3>6 DEF WorkLeft, said
    <3>. QED  BY <1>1, <2>4, <3>1, <3>2, <3>7, WorkStepped
  <2>. QED  BY <2>5, <2>6
<1>. QED  BY <1>5, <1>6

LEMMA PassSingletonStep ==
  ASSUME PipelineInv, NEW k \in DOMAIN work, PassSingleton(k)
  PROVE  PipelineInv'
<1>. DEFINE w == work[k]
            sums == Append(w.sums, Head(w.rest))
            rest == Tail(w.rest)
            new == [w EXCEPT !.sums = sums, !.rest = rest]
<1>1. /\ stage = "narratives" /\ w.step = "merge" /\ w.rest # <<>> /\ work' = [work EXCEPT ![k] = new]
      /\ UNCHANGED <<transcript, stage, sections, shots, result>>
  BY DEF PassSingleton
<1>2. w \in Work /\ WorkSound(w, allowed_speakers)
  BY <1>1, NarrativeOf
<1>3. w.sums \in Seq(Summary) /\ w.rest \in Seq(Summary)
  BY <1>2, WorkFields
<1>4. sums \in Seq(Summary) /\ rest \in Seq(Summary)
  BY <1>1, <1>3
<1>5. new = [w EXCEPT !.sums = sums, !.rest = rest]
  OBVIOUS
<1>. HIDE DEF w, sums, rest, new
<1>6. new \in Work /\ WorkSound(new, allowed_speakers) /\ new.step = "merge"
  BY <1>1, <1>2, <1>4, <1>5, MergedMore
<1>7. WorkLeft(new, SegmentsOf(sections[k]))
  BY <1>6, NothingLeft
<1>. QED  BY <1>1, <1>6, <1>7, WorkStepped

LEMMA AskMergeStep ==
  ASSUME PipelineInv, NEW k \in DOMAIN work, NEW v \in Replies, AskMerge(k, v)
  PROVE  PipelineInv'
<1>. DEFINE w == work[k]
            sums == Append(w.sums, v)
            rest == SubSeq(w.rest, BatchLen(w) + 1, Len(w.rest))
            more == [w EXCEPT !.sums = sums, !.rest = rest]
            new == IF v.kind # "json" THEN Fallback(w, v.kind = "error") ELSE more
<1>1. /\ stage = "narratives" /\ w.step = "merge" /\ w.rest # <<>> /\ work' = [work EXCEPT ![k] = new]
      /\ UNCHANGED <<transcript, stage, sections, shots, result>>
  BY DEF AskMerge
<1>2. w \in Work /\ WorkSound(w, allowed_speakers)
  BY <1>1, NarrativeOf
<1>3. w.sums \in Seq(Summary) /\ w.rest \in Seq(Summary)
  BY <1>2, WorkFields
<1>4. new \in Work /\ WorkSound(new, allowed_speakers) /\ new.step \in {"merge", "done"}
  <2>1. CASE v.kind # "json"
    <3>1. new = Fallback(w, v.kind = "error")
      BY <2>1
    <3>. HIDE DEF w, new
    <3>. QED  BY <1>2, <3>1, AnsweredBadly
  <2>2. CASE v.kind = "json"
    <3>1. v \in Summary
      BY <2>2, ReplyIs
    <3>2. BatchLen(w) \in 1 .. Len(w.rest)
      BY <1>1, <1>2, BatchLenIs
    <3>3. sums \in Seq(Summary)
      BY <1>3, <3>1
    <3>4. rest \in Seq(Summary)
      <4>. DEFINE r == w.rest
                  b == BatchLen(w)
      <4>1. r \in Seq(Summary) /\ b \in 1 .. Len(r)
        BY <1>3, <3>2
      <4>. HIDE DEF r, b
      <4>2. SubSeq(r, b + 1, Len(r)) \in Seq(Summary)
        BY <4>1
      <4>. QED  BY <4>2 DEF r, b
    <3>5. new = more /\ more = [w EXCEPT !.sums = sums, !.rest = rest]
      BY <2>2
    <3>. HIDE DEF w, sums, rest, more, new
    <3>6. more \in Work /\ WorkSound(more, allowed_speakers) /\ more.step = "merge"
      BY <1>1, <1>2, <3>3, <3>4, <3>5, MergedMore
    <3>. QED  BY <3>5, <3>6
  <2>. QED  BY <2>1, <2>2
<1>. HIDE DEF w, new
<1>5. WorkLeft(new, SegmentsOf(sections[k]))
  BY <1>4, NothingLeft
<1>. QED  BY <1>1, <1>4, <1>5, WorkStepped

LEMMA EndMergeRoundStep ==
  ASSUME PipelineInv, NEW k \in DOMAIN work, EndMergeRound(k)
  PROVE  PipelineInv'
<1>. DEFINE w == work[k]
            new == EndRound(w)
<1>1. /\ stage = "narratives" /\ w.step = "merge" /\ work' = [work EXCEPT ![k] = new]
      /\ UNCHANGED <<transcript, stage, sections, shots, result>>
  BY DEF EndMergeRound
<1>2. w \in Work /\ WorkSound(w, allowed_speakers) /\ ~w.failed
  BY <1>1, NarrativeOf
<1>. HIDE DEF w
<1>3. new \in Work /\ WorkSound(new, allowed_speakers) /\ new.step \in {"merge", "done"}
  BY <1>1, <1>2, EndRoundIs
<1>. HIDE DEF new
<1>4. WorkLeft(new, SegmentsOf(sections[k]))
  BY <1>3, NothingLeft
<1>. QED  BY <1>1, <1>3, <1>4, WorkStepped

\* No section of the narratives is missing, and the transcript is not empty.
LEMMA TiledThen ==
  ASSUME PipelineInv, stage \in {"narratives", "frontmatter"}, work # <<>>
  PROVE  /\ transcript # <<>> /\ Tiles(sections, Len(transcript)) /\ DOMAIN work = DOMAIN sections
BY DEF PipelineInv, Tiled

LEMMA GatherStep ==
  ASSUME PipelineInv, NEW n, NEW duration, n \in 0 .. MaxShots, duration \in Durations,
         Gather(n, duration)
  PROVE  PipelineInv'
<1>. DEFINE times == collect_screenshots(n, duration)
            xs == [i \in DOMAIN times |-> IF duration = 0 THEN times[i] ELSE Min({times[i], duration})]
<1>1. /\ stage = "narratives" /\ \A k \in DOMAIN work : work[k].step = "done"
      /\ transcript' = transcript /\ sections' = sections /\ work' = work
  BY DEF Gather
<1>2. \/ Unavailable /\ stage' = "done" /\ result' = "LlmUnavailable" /\ shots' = shots
      \/ ~Unavailable /\ stage' = "frontmatter" /\ shots' = anchor_screenshots(xs) /\ result' = result
  BY DEF Gather
<1>3. result = None /\ shots = <<>> /\ DOMAIN <<>> = {}
  <2>1. Ending /\ Tiled
    BY DEF PipelineInv
  <2>2. result = None
    BY <1>1, <2>1 DEF Ending
  <2>3. shots = <<>>
    BY <1>1, <2>1 DEF Tiled
  <2>4. DOMAIN <<>> = {}
    OBVIOUS
  <2>. QED  BY <2>2, <2>3, <2>4
<1>4. \A k \in DOMAIN shots' : /\ k \in DOMAIN sections
                               /\ \A i \in DOMAIN shots'[k] : section_for_timestamp(shots'[k][i]) = k
  <2>1. CASE shots' = shots
    BY <1>3, <2>1
  <2>2. CASE shots' = anchor_screenshots(xs)
    <3>. DEFINE V == {xs[i] : i \in 1 .. n}
    <3>1. n \in Nat /\ DOMAIN times = 1 .. n
      <4>1. n \in Nat
        <5>1. MaxShots \in Nat
          BY BudgetIsPositive
        <5>. QED  BY <5>1
      <4>. QED  BY <4>1 DEF collect_screenshots
    <3>2. xs \in Seq(V)
      <4>1. DOMAIN xs = 1 .. n
        BY <3>1
      <4>2. xs = [i \in 1 .. n |-> xs[i]]
        BY <3>1
      <4>. HIDE DEF xs
      <4>3. xs \in [1 .. n -> V]
        BY <4>1, <4>2
      <4>. HIDE DEF V
      <4>. QED  BY <3>1, <4>3
    <3>. HIDE DEF xs, V
    <3>3. shots' \in Anchored(V)
      BY <2>2, <3>2, AnchorsType
    <3>. QED  BY <3>3 DEF Anchored
  <2>. QED  BY <1>2, <2>1, <2>2
<1>5. PipelineTypes'
  <2>1. /\ transcript \in Seq(Words) /\ NoneInverted(transcript) /\ ByStart(transcript)
        /\ work \in Seq(Work)
    BY DEF PipelineInv, PipelineTypes
  <2>2. stage' \in {"done", "frontmatter"} /\ result' \in {"LlmUnavailable", None}
    BY <1>2, <1>3
  <2>. HIDE DEF times, xs
  <2>. QED  BY <1>1, <2>1, <2>2 DEF PipelineTypes
<1>6. \A ms : section_for_timestamp(ms)' = section_for_timestamp(ms)
  BY <1>1 DEF section_for_timestamp
<1>7. Narratives'
  <2>1. allowed_speakers' = allowed_speakers
    BY <1>1 DEF allowed_speakers, Voices
  <2>2. \A s : SegmentsOf(s)' = SegmentsOf(s)
    BY <1>1 DEF SegmentsOf
  <2>3. Narratives
    BY DEF PipelineInv
  <2>. QED  BY <1>1, <2>1, <2>2, <2>3 DEF Narratives, SegmentsOf
<1>8. Ending'
  BY <1>1, <1>2, <1>3, BudgetIsPositive DEF Ending, Unavailable
<1>9. Tiled'
  <2>1. Tiled /\ stage' \notin {"topics", "narratives"}
    BY <1>2 DEF PipelineInv
  <2>2. (\A k \in DOMAIN shots : /\ k \in DOMAIN sections
                                 /\ \A i \in DOMAIN shots[k] : section_for_timestamp(shots[k][i]) = k)'
    BY <1>1, <1>4 DEF section_for_timestamp
  <2>. HIDE DEF times, xs
  <2>3. transcript = <<>> => work = <<>> /\ \E m \in 0 .. Len(transcript) : Tiles(sections, m)
    BY <2>1 DEF Tiled
  <2>4. (transcript = <<>> => work = <<>> /\ \E m \in 0 .. Len(transcript) : Tiles(sections, m))'
    BY <1>1, <2>3, TilesStand
  <2>5. transcript # <<>> => Tiles(sections, Len(transcript)) /\ DOMAIN work = DOMAIN sections
    BY <1>1, <2>1 DEF Tiled
  <2>6. (transcript # <<>> => Tiles(sections, Len(transcript)) /\ DOMAIN work = DOMAIN sections)'
    BY <1>1, <2>5, TilesStand
  <2>. QED  BY <2>1, <2>2, <2>4, <2>6 DEF Tiled
<1>. QED  BY <1>5, <1>7, <1>8, <1>9 DEF PipelineInv


LEMMA AnchorsMoved ==
  ASSUME sections' = sections,
         \A k \in DOMAIN shots' : /\ k \in DOMAIN sections
                                  /\ \A i \in DOMAIN shots'[k] : section_for_timestamp(shots'[k][i]) = k
  PROVE  (\A k \in DOMAIN shots : /\ k \in DOMAIN sections
                                  /\ \A i \in DOMAIN shots[k] : section_for_timestamp(shots[k][i]) = k)'
BY DEF section_for_timestamp

\* Of the sections and the work nothing is changed.
LEMMA KeptAsTheyAre ==
  ASSUME PipelineInv, UNCHANGED <<transcript, sections, work, shots>>,
         stage' \in {"topics", "narratives", "frontmatter", "done"},
         stage = "topics" <=> stage' = "topics", stage' = "narratives" => stage = "narratives"
  PROVE  Tiled' /\ Narratives'
<1>1. Tiled /\ Narratives
  BY DEF PipelineInv
<1>2. Narratives'
  BY <1>1 DEF Narratives, SegmentsOf, allowed_speakers, Voices
<1>3. Tiled'
  <2>1. (\A k \in DOMAIN shots : /\ k \in DOMAIN sections
                                 /\ \A i \in DOMAIN shots[k] : section_for_timestamp(shots[k][i]) = k)'
    <3>1. \A k \in DOMAIN shots : /\ k \in DOMAIN sections
                                  /\ \A i \in DOMAIN shots[k] : section_for_timestamp(shots[k][i]) = k
      BY <1>1 DEF Tiled
    <3>2. sections' = sections /\ shots' = shots
      OBVIOUS
    <3>3. \A k \in DOMAIN shots' : /\ k \in DOMAIN sections
                                   /\ \A i \in DOMAIN shots'[k] : section_for_timestamp(shots'[k][i]) = k
      BY <3>1, <3>2
    <3>. QED  BY <3>2, <3>3, AnchorsMoved
  <2>. DEFINE before == stage = "topics" \/ transcript = <<>>
  <2>2. before => work = <<>> /\ \E m \in 0 .. Len(transcript) : Tiles(sections, m)
    BY <1>1 DEF Tiled
  <2>3. (before => work = <<>> /\ \E m \in 0 .. Len(transcript) : Tiles(sections, m))'
    BY <2>2, TilesStand
  <2>4. ~before => Tiles(sections, Len(transcript)) /\ DOMAIN work = DOMAIN sections
    BY <1>1 DEF Tiled
  <2>5. (~before => Tiles(sections, Len(transcript)) /\ DOMAIN work = DOMAIN sections)'
    BY <2>4, TilesStand
  <2>6. stage' \in {"topics", "narratives"} => shots' = <<>>
    BY <1>1 DEF Tiled
  <2>. QED  BY <2>1, <2>3, <2>5, <2>6 DEF Tiled
<1>. QED  BY <1>2, <1>3

LEMMA FrontmatterStep ==
  ASSUME PipelineInv, NEW v \in Replies, AskFrontmatter(v)
  PROVE  PipelineInv'
<1>1. /\ stage = "frontmatter" /\ stage' = "done" /\ result' \in {"notes", "untitled notes"}
      /\ UNCHANGED <<transcript, sections, work, shots>>
  BY DEF AskFrontmatter
<1>2. Tiled' /\ Narratives'
  BY <1>1, KeptAsTheyAre
<1>3. PipelineTypes'
  BY <1>1 DEF PipelineInv, PipelineTypes
<1>4. Ending'
  <2>1. Ending
    BY DEF PipelineInv
  <2>. QED  BY <1>1, <2>1 DEF Ending
<1>. QED  BY <1>2, <1>3, <1>4 DEF PipelineInv

LEMMA PipelineStutters ==
  ASSUME PipelineInv, UNCHANGED pipelineVars
  PROVE  PipelineInv'
<1>1. UNCHANGED <<transcript, stage, sections, work, shots, result>>
  BY DEF pipelineVars
<1>2. PipelineTypes'
  BY <1>1 DEF PipelineInv, PipelineTypes
<1>3. stage' \in {"topics", "narratives", "frontmatter", "done"}
  BY <1>1 DEF PipelineInv, PipelineTypes
<1>4. Tiled' /\ Narratives'
  BY <1>1, <1>3, KeptAsTheyAre
<1>5. Ending'
  BY <1>1 DEF PipelineInv, Ending
<1>. QED  BY <1>2, <1>4, <1>5 DEF PipelineInv

LEMMA PipelineKeeps == PipelineInv /\ [PipelineNext]_pipelineVars => PipelineInv'
<1>. SUFFICES ASSUME PipelineInv, [PipelineNext]_pipelineVars PROVE PipelineInv'
  OBVIOUS
<1>1. CASE EmptyTranscript
  BY <1>1, EmptyStep
<1>2. CASE ScanSegment
  BY <1>2, ScanSegmentStep
<1>3. CASE EndTopics
  BY <1>3, EndTopicsStep
<1>4. ASSUME NEW k \in DOMAIN work, NEW v \in Replies, AskSingle(k, v) PROVE PipelineInv'
  BY <1>4, AskSingleStep
<1>5. ASSUME NEW k \in DOMAIN work, NEW v \in Replies, AskChunk(k, v) PROVE PipelineInv'
  BY <1>5, AskChunkStep
<1>6. ASSUME NEW k \in DOMAIN work, NEW v \in Replies, AskMerge(k, v) PROVE PipelineInv'
  BY <1>6, AskMergeStep
<1>7. ASSUME NEW k \in DOMAIN work, PassSingleton(k) PROVE PipelineInv'
  BY <1>7, PassSingletonStep
<1>8. ASSUME NEW k \in DOMAIN work, EndMergeRound(k) PROVE PipelineInv'
  BY <1>8, EndMergeRoundStep
<1>9. ASSUME NEW n \in 0 .. MaxShots, NEW duration \in Durations, Gather(n, duration) PROVE PipelineInv'
  BY <1>9, GatherStep
<1>10. ASSUME NEW v \in Replies, AskFrontmatter(v) PROVE PipelineInv'
  BY <1>10, FrontmatterStep
<1>11. CASE UNCHANGED pipelineVars
  BY <1>11, PipelineStutters
<1>. QED  BY <1>1, <1>2, <1>3, <1>4, <1>5, <1>6, <1>7, <1>8, <1>9, <1>10, <1>11 DEF PipelineNext

-----------------------------------------------------------------------------
\* What holds of every behaviour of the notes pipeline, whatever the transcript,
\* the thresholds and the provider's answers: the scanned segments are tiled by
\* the sections, what a section still has to send is the end of it, and a
\* narrative is failed only by the provider.
THEOREM PipelineKept == PipelineSpec => []PipelineInv
<1>. QED  BY PipelineInitially, PipelineKeeps, PTL DEF PipelineSpec

LEMMA NotesCompleteNow == PipelineInv => NotesComplete
<1>. SUFFICES ASSUME PipelineInv, stage # "topics", transcript # <<>>
              PROVE  /\ FlattenSeq([k \in DOMAIN sections |-> sections[k].idx])
                         = [i \in DOMAIN transcript |-> i]
                     /\ \A k \in DOMAIN sections : sections[k].start <= sections[k].end
                     /\ \A k \in DOMAIN shots : \A i \in DOMAIN shots[k] :
                          \/ sections[k].start <= shots[k][i] /\ shots[k][i] < sections[k].end
                          \/ \A j \in DOMAIN sections :
                               shots[k][i] \notin sections[j].start .. (sections[j].end - 1)
  BY DEF NotesComplete
<1>. DEFINE n == Len(transcript)
<1>1. transcript \in Seq(Words) /\ NoneInverted(transcript) /\ ByStart(transcript)
  BY DEF PipelineInv, PipelineTypes
<1>2. Tiled
  BY DEF PipelineInv
<1>3. Tiles(sections, n)
  BY <1>2 DEF Tiled
<1>4. n \in Nat /\ DOMAIN transcript = 1 .. n
  BY <1>1
<1>5. FlattenSeq([k \in DOMAIN sections |-> sections[k].idx]) = [i \in DOMAIN transcript |-> i]
  <2>. HIDE DEF n
  <2>1. FlattenSeq([k \in DOMAIN sections |-> sections[k].idx]) = Consec(0, n)
    BY <1>3, <1>4, TilesFlatten
  <2>2. Consec(0, n) = [i \in 1 .. n |-> i]
    <3>1. Consec(0, n) = [i \in 1 .. n - 0 |-> 0 + i]
      BY DEF Consec
    <3>. QED  BY <1>4, <3>1
  <2>. QED  BY <1>4, <2>1, <2>2
<1>6. \A k \in DOMAIN sections : sections[k].start <= sections[k].end
  BY <1>1, <1>3, TilesUpright
<1>7. ASSUME NEW k \in DOMAIN shots, NEW i \in DOMAIN shots[k]
      PROVE  \/ sections[k].start <= shots[k][i] /\ shots[k][i] < sections[k].end
             \/ \A j \in DOMAIN sections :
                  shots[k][i] \notin sections[j].start .. (sections[j].end - 1)
  <2>1. section_for_timestamp(shots[k][i]) = k
    BY <1>2 DEF Tiled
  <2>2. sections \in Seq(Section)
    BY <1>3 DEF Tiles
  <2>. QED  BY <2>1, <2>2, AnchorsWhere
<1>. QED  BY <1>5, <1>6, <1>7

\* The sections hold every segment of the transcript once and in order, none
\* with an inverted range, and screenshots are anchored where they were taken:
\* segment_topics, merge_short_sections and anchor_screenshots lose nothing.
THEOREM NotesAreComplete == PipelineSpec => []NotesComplete
<1>. QED  BY PipelineKept, NotesCompleteNow, PTL

LEMMA PromptsFitNow == PipelineInv => PromptsFit
<1>. SUFFICES ASSUME PipelineInv, NEW k \in DOMAIN work
              PROVE  /\ \A c \in Range(work[k].chunks) : SegmentsFit(c) \/ Len(c) = 1
                     /\ work[k].step \in {"single", "chunk"} =>
                          IsSuffix(FlattenSeq(work[k].chunks), SegmentsOf(sections[k]))
  BY DEF PromptsFit
<1>1. WorkSound(work[k], allowed_speakers) /\ WorkLeft(work[k], SegmentsOf(sections[k]))
  BY DEF PipelineInv, Narratives
<1>2. work[k].chunks \in Seq(Seq(Words))
  <2>1. work \in Seq(Work)
    BY DEF PipelineInv, PipelineTypes
  <2>2. work[k] \in Work
    BY <2>1
  <2>. QED  BY <2>2, WorkFields
<1>3. ASSUME NEW c \in Range(work[k].chunks) PROVE SegmentsFit(c) \/ Len(c) = 1
  <2>1. All(work[k].chunks, Sendable)
    BY <1>1 DEF WorkSound
  <2>2. PICK i \in DOMAIN work[k].chunks : c = work[k].chunks[i]
    BY DEF Range
  <2>3. c \in Sendable
    BY <2>1, <2>2 DEF All
  <2>. QED  BY <2>3 DEF Sendable
<1>4. ASSUME work[k].step \in {"single", "chunk"}
      PROVE  IsSuffix(FlattenSeq(work[k].chunks), SegmentsOf(sections[k]))
  <2>. DEFINE f == FlattenSeq(work[k].chunks)
              segs_k == SegmentsOf(sections[k])
  <2>1. PICK p \in Seq(Words) : segs_k = p \o f
    BY <1>1, <1>4 DEF WorkLeft
  <2>2. f \in Seq(Words)
    BY <1>2, FlattenType
  <2>. HIDE DEF f, segs_k
  <2>3. IsSuffix(f, p \o f)
    BY <2>2, SuffixOfConcat
  <2>. QED  BY <2>1, <2>3 DEF f, segs_k
<1>. QED  BY <1>3, <1>4

\* Every prompt waiting to be sent is within the context threshold or of one
\* segment, and what a section has not sent is the end of it: splitting at the
\* target, at gaps and at the rendered budget loses and repeats nothing.
THEOREM PromptsAlwaysFit == PipelineSpec => []PromptsFit
<1>. QED  BY PipelineKept, PromptsFitNow, PTL

LEMMA NotesHonestNow == PipelineInv => NotesHonest
<1>. SUFFICES ASSUME PipelineInv PROVE NotesHonest
  OBVIOUS
<1>1. Ending /\ Narratives
  BY DEF PipelineInv
<1>2. ASSUME result \in {"notes", "untitled notes"}
      PROVE  /\ \E k \in DOMAIN work : ~work[k].failed
             /\ \A k \in DOMAIN work : work[k].out.cites \in allowed_speakers \cup {None}
  <2>1. \A k \in DOMAIN work : work[k].step = "done"
    BY <1>1, <1>2 DEF Ending
  <2>2. \A k \in DOMAIN work : WorkSound(work[k], allowed_speakers)
    BY <1>1 DEF Narratives
  <2>3. \E k \in DOMAIN work : ~work[k].failed
    BY <1>1, <1>2 DEF Ending
  <2>. QED  BY <2>1, <2>2, <2>3 DEF WorkSound
<1>3. ASSUME result = "LlmUnavailable", NEW k \in DOMAIN work
      PROVE  work[k].out.kind = "fallback"
  <2>1. work[k].failed
    BY <1>1, <1>3 DEF Ending
  <2>2. WorkSound(work[k], allowed_speakers)
    BY <1>1 DEF Narratives
  <2>. QED  BY <2>1, <2>2 DEF WorkSound
<1>. QED  BY <1>2, <1>3 DEF NotesHonest

\* Notes are reported only when the provider answered for some section and cite
\* only the transcript's speakers; LlmUnavailable only when it failed for all.
THEOREM NotesAreHonest == PipelineSpec => []NotesHonest
<1>. QED  BY PipelineKept, NotesHonestNow, PTL

=============================================================================
