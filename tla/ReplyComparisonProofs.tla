------------------------ MODULE ReplyComparisonProofs ------------------------
(***************************************************************************)
(* The comparison of replies, for replies of any depth and integers of any *)
(* width: sorting by the rendering puts the members of a set in an order,  *)
(* and matching does not depend on which target is the baseline.           *)
(***************************************************************************)
EXTENDS ReplyComparison, ReplyTreeProofs, FiniteSetTheorems

-----------------------------------------------------------------------------
\* Integers.

\* The exact set of differences it accepts: besides -1, 0 and 1 the half-range
\* difference, whose absolute value overflows, and the full-range one, whose
\* subtraction wraps to one.
THEOREM ApproxExactly ==
  ASSUME NEW x \in Ints, NEW y \in Ints
  PROVE  IntApprox(x, y) <=>
           x - y \in {-1, 0, 1, Half, -Half, 2 * Half - 1, 1 - 2 * Half}
BY HalfAssumption DEF IntApprox, Difference, Wrap, Ints

\* It does not matter which of the two servers is the baseline.
THEOREM ApproxSymmetric ==
  ASSUME NEW x \in Ints, NEW y \in Ints
  PROVE  IntApprox(x, y) <=> IntApprox(y, x)
BY HalfAssumption DEF IntApprox, Difference, Wrap, Ints

-----------------------------------------------------------------------------
\* Go's < orders the texts.

Texts == Seq(Nat)

LEMMA LessIrreflexive ==
  ASSUME NEW s \in Texts
  PROVE  ~Less(s, s)
<1>1. \A i \in DOMAIN s : s[i] \in Nat
  BY ElementOfSeq, LenProperties DEF Texts
<1>. QED
  BY <1>1 DEF Less

LEMMA LessTransitive ==
  ASSUME NEW s \in Texts, NEW t \in Texts, NEW u \in Texts, Less(s, t), Less(t, u)
  PROVE  Less(s, u)
<1>1. /\ DOMAIN s = 1..Len(s) /\ Len(s) \in Nat /\ \A i \in DOMAIN s : s[i] \in Nat
      /\ DOMAIN t = 1..Len(t) /\ Len(t) \in Nat /\ \A i \in DOMAIN t : t[i] \in Nat
      /\ DOMAIN u = 1..Len(u) /\ Len(u) \in Nat /\ \A i \in DOMAIN u : u[i] \in Nat
  BY ElementOfSeq, LenProperties DEF Texts
<1>2. PICK i \in DOMAIN t :
        /\ \A j \in 1..(i - 1) : j \in DOMAIN s /\ s[j] = t[j]
        /\ i \in DOMAIN s => s[i] < t[i]
  BY DEF Less
<1>3. PICK k \in DOMAIN u :
        /\ \A j \in 1..(k - 1) : j \in DOMAIN t /\ t[j] = u[j]
        /\ k \in DOMAIN t => t[k] < u[k]
  BY DEF Less
<1>4. CASE i < k
  <2>1. i \in 1..(k - 1) /\ i \in DOMAIN u /\ t[i] = u[i]
    BY <1>1, <1>3, <1>4
  <2>2. \A j \in 1..(i - 1) : j \in DOMAIN s /\ s[j] = u[j]
    BY <1>1, <1>2, <1>3, <1>4
  <2>. QED
    BY <1>2, <2>1, <2>2 DEF Less
<1>5. CASE k <= i
  <2>1. k \in DOMAIN t
    BY <1>1, <1>5
  <2>2. \A j \in 1..(k - 1) : j \in DOMAIN s /\ s[j] = u[j]
    BY <1>1, <1>2, <1>3, <1>5
  <2>3. ASSUME k \in DOMAIN s PROVE s[k] < u[k]
    <3>1. CASE k = i
      BY <1>1, <1>2, <1>3, <2>1, <2>3, <3>1
    <3>2. CASE k < i
      BY <1>1, <1>2, <1>3, <2>1, <3>2
    <3>. QED
      BY <1>1, <1>5, <3>1, <3>2
  <2>. QED
    BY <2>2, <2>3 DEF Less
<1>. QED
  BY <1>1, <1>4, <1>5

LEMMA LessTotal ==
  ASSUME NEW s \in Texts, NEW t \in Texts, s # t
  PROVE  Less(s, t) \/ Less(t, s)
<1>1. /\ DOMAIN s = 1..Len(s) /\ Len(s) \in Nat /\ \A i \in DOMAIN s : s[i] \in Nat
      /\ DOMAIN t = 1..Len(t) /\ Len(t) \in Nat /\ \A i \in DOMAIN t : t[i] \in Nat
  BY ElementOfSeq, LenProperties DEF Texts
<1>. DEFINE Alone(i) == ~(i \in DOMAIN s /\ i \in DOMAIN t /\ s[i] = t[i])
            D == {i \in DOMAIN s \cup DOMAIN t : Alone(i)}
<1>2. D \in SUBSET Nat
  BY <1>1
<1>3. D # {}
  <2>1. SUFFICES ASSUME D = {} PROVE FALSE
    OBVIOUS
  <2>2. \A i \in DOMAIN s \cup DOMAIN t : i \in DOMAIN s /\ i \in DOMAIN t /\ s[i] = t[i]
    BY <2>1
  <2>3. DOMAIN s = DOMAIN t
    BY <2>2
  <2>4. Len(s) = Len(t)
    <3>1. \A m, n \in Nat : 1..m = 1..n => m = n
      <4>1. \A m, n \in Nat : 1..m = 1..n /\ m < n => n \in 1..m
        OBVIOUS
      <4>. QED
        BY <4>1
    <3>. QED
      BY <1>1, <2>3, <3>1
  <2>5. s = t
    BY <1>1, <2>2, <2>4, SeqEqual DEF Texts
  <2>. QED
    BY <2>5
<1>4. PICK i \in D : \A j \in D : i <= j
  BY <1>2, <1>3, LeastNumber
<1>5. i \in DOMAIN s \cup DOMAIN t /\ Alone(i) /\ i \in Nat
  BY <1>2
<1>6. \A j \in 1..(i - 1) : j \in DOMAIN s /\ j \in DOMAIN t /\ s[j] = t[j]
  <2>. TAKE j \in 1..(i - 1)
  <2>1. j \notin D
    BY <1>2, <1>4, <1>5
  <2>2. j \in DOMAIN s \cup DOMAIN t
    BY <1>1, <1>5
  <2>. QED
    BY <2>1, <2>2
<1>. HIDE DEF D
<1>7. CASE i \in DOMAIN s /\ i \in DOMAIN t
  <2>1. s[i] < t[i] \/ t[i] < s[i]
    BY <1>1, <1>5, <1>7
  <2>. QED
    BY <1>6, <1>7, <2>1 DEF Less
<1>8. CASE i \notin DOMAIN s
  BY <1>5, <1>6, <1>8 DEF Less
<1>9. CASE i \notin DOMAIN t
  BY <1>5, <1>6, <1>9 DEF Less
<1>. QED
  BY <1>7, <1>8, <1>9

-----------------------------------------------------------------------------
\* sort.Slice by the texts.  The place of a member is one more than the number
\* of members before it.

Before(texts, i, j) == Less(texts[i], texts[j]) \/ (texts[i] = texts[j] /\ i < j)

Earlier(n, texts, i) == {j \in 1..n : Before(texts, j, i)}

Place(n, texts, i) == 1 + Cardinality(Earlier(n, texts, i))

LEMMA BeforeIsOrder ==
  ASSUME NEW n \in Nat, NEW texts \in [1..n -> Texts],
         NEW i \in 1..n, NEW j \in 1..n, NEW k \in 1..n
  PROVE  /\ ~Before(texts, i, i)
         /\ Before(texts, i, j) /\ Before(texts, j, k) => Before(texts, i, k)
         /\ i # j => Before(texts, i, j) \/ Before(texts, j, i)
<1>. DEFINE a == texts[i]
            b == texts[j]
            c == texts[k]
<1>1. a \in Texts /\ b \in Texts /\ c \in Texts
  OBVIOUS
<1>. HIDE DEF a, b, c
<1>2. ~Less(a, a)
  BY <1>1, LessIrreflexive
<1>3. Less(a, b) /\ Less(b, c) => Less(a, c)
  BY <1>1, LessTransitive
<1>4. a # b => Less(a, b) \/ Less(b, a)
  BY <1>1, LessTotal
<1>5. /\ Before(texts, i, i) <=> Less(a, a)
      /\ Before(texts, i, j) <=> Less(a, b) \/ (a = b /\ i < j)
      /\ Before(texts, j, i) <=> Less(b, a) \/ (b = a /\ j < i)
      /\ Before(texts, j, k) <=> Less(b, c) \/ (b = c /\ j < k)
      /\ Before(texts, i, k) <=> Less(a, c) \/ (a = c /\ i < k)
  BY DEF Before, a, b, c
<1>6. (i < j /\ j < k => i < k) /\ (i # j => i < j \/ j < i)
  OBVIOUS
<1>. QED
  BY <1>2, <1>3, <1>4, <1>5, <1>6

LEMMA Places ==
  ASSUME NEW n \in Nat, NEW texts \in [1..n -> Texts]
  PROVE  /\ \A i \in 1..n : Place(n, texts, i) \in 1..n
         /\ \A i, j \in 1..n :
              Before(texts, i, j) => Place(n, texts, i) < Place(n, texts, j)
<1>1. IsFiniteSet(1..n) /\ Cardinality(1..n) = n
  BY FS_Interval
<1>2. \A i \in 1..n : /\ IsFiniteSet(Earlier(n, texts, i))
                      /\ Cardinality(Earlier(n, texts, i)) \in Nat
  BY <1>1, FS_Subset, FS_CardinalityType DEF Earlier
<1>3. ASSUME NEW i \in 1..n PROVE Place(n, texts, i) \in 1..n
  <2>1. Earlier(n, texts, i) \in SUBSET (1..n \ {i})
    BY BeforeIsOrder DEF Earlier
  <2>2. IsFiniteSet(1..n \ {i}) /\ Cardinality(1..n \ {i}) = n - 1
    BY <1>1, FS_RemoveElement
  <2>3. Cardinality(Earlier(n, texts, i)) <= n - 1
    BY <2>1, <2>2, FS_Subset
  <2>. QED
    BY <1>2, <2>3 DEF Place
<1>4. ASSUME NEW i \in 1..n, NEW j \in 1..n, Before(texts, i, j)
      PROVE  Place(n, texts, i) < Place(n, texts, j)
  <2>1. Earlier(n, texts, i) \cup {i} \in SUBSET Earlier(n, texts, j)
    <3>1. \A k \in Earlier(n, texts, i) : k \in Earlier(n, texts, j)
      BY <1>4, BeforeIsOrder DEF Earlier
    <3>2. i \in Earlier(n, texts, j)
      BY <1>4 DEF Earlier
    <3>. QED
      BY <3>1, <3>2
  <2>2. i \notin Earlier(n, texts, i)
    BY BeforeIsOrder DEF Earlier
  <2>3. Cardinality(Earlier(n, texts, i) \cup {i}) = Cardinality(Earlier(n, texts, i)) + 1
    BY <1>2, <2>2, FS_AddElement
  <2>4. Cardinality(Earlier(n, texts, i) \cup {i}) <= Cardinality(Earlier(n, texts, j))
    BY <1>2, <2>1, FS_Subset
  <2>. QED
    BY <1>2, <2>3, <2>4 DEF Place
<1>. QED
  BY <1>3, <1>4

\* The member at place p.
At(n, texts, p) == CHOOSE i \in 1..n : Place(n, texts, i) = p

LEMMA OneTooMany ==
  ASSUME NEW n \in Nat, NEW m \in 1..n
  PROVE  \A f \in [1..n -> 1..n \ {m}] : \E i, j \in 1..n : i # j /\ f[i] = f[j]
<1>. DEFINE S == 1..n
            R == S \ {m}
<1>1. IsFiniteSet(S) /\ Cardinality(S) = n
  BY FS_Interval
<1>2. IsFiniteSet(R) /\ Cardinality(R) = n - 1
  BY <1>1, FS_RemoveElement
<1>. HIDE DEF R, S
<1>3. \A f \in [S -> R] : \E i, j \in S : i # j /\ f[i] = f[j]
  BY <1>1, <1>2, FS_PigeonHole
<1>. QED
  BY <1>3 DEF R, S

\* Every place has one member.
LEMMA OneAtEachPlace ==
  ASSUME NEW n \in Nat, NEW texts \in [1..n -> Texts]
  PROVE  /\ \A p \in 1..n : /\ At(n, texts, p) \in 1..n
                            /\ Place(n, texts, At(n, texts, p)) = p
         /\ \A i \in 1..n : At(n, texts, Place(n, texts, i)) = i
<1>1. /\ \A i \in 1..n : Place(n, texts, i) \in 1..n
      /\ \A i, j \in 1..n : Place(n, texts, i) = Place(n, texts, j) => i = j
  <2>1. \A i \in 1..n : Place(n, texts, i) \in 1..n
    BY Places
  <2>2. ASSUME NEW i \in 1..n, NEW j \in 1..n, i # j
        PROVE  Place(n, texts, i) # Place(n, texts, j)
    <3>1. Before(texts, i, j) \/ Before(texts, j, i)
      BY <2>2, BeforeIsOrder
    <3>. QED
      BY <2>1, <3>1, Places
  <2>. QED
    BY <2>1, <2>2
<1>2. ASSUME NEW p \in 1..n PROVE \E i \in 1..n : Place(n, texts, i) = p
  <2>1. SUFFICES ASSUME \A i \in 1..n : Place(n, texts, i) # p PROVE FALSE
    OBVIOUS
  <2>. DEFINE f == [i \in 1..n |-> Place(n, texts, i)]
  <2>2. f \in [1..n -> 1..n \ {p}]
    BY <1>1, <2>1
  <2>. HIDE DEF f
  <2>3. \E i, j \in 1..n : i # j /\ f[i] = f[j]
    BY <2>2, OneTooMany
  <2>. QED
    BY <1>1, <2>3 DEF f
<1>3. \A p \in 1..n : /\ At(n, texts, p) \in 1..n
                      /\ Place(n, texts, At(n, texts, p)) = p
  BY <1>2 DEF At
<1>. QED
  BY <1>1, <1>3

LEMMA SortedMembership ==
  ASSUME NEW S, NEW s \in Seq(S), NEW texts \in [1..Len(s) -> Texts]
  PROVE  /\ SortedBy(s, texts) = [p \in 1..Len(s) |-> s[At(Len(s), texts, p)]]
         /\ SortedBy(s, texts) \in Seq(S)
         /\ Len(SortedBy(s, texts)) = Len(s)
<1>1. DOMAIN s = 1..Len(s) /\ Len(s) \in Nat
  BY LenProperties
<1>2. SortedBy(s, texts) = [p \in 1..Len(s) |-> s[At(Len(s), texts, p)]]
  BY <1>1 DEF SortedBy, At, Place, Earlier, Before
<1>3. \A p \in 1..Len(s) : s[At(Len(s), texts, p)] \in S
  <2>. TAKE p \in 1..Len(s)
  <2>1. At(Len(s), texts, p) \in 1..Len(s)
    BY <1>1, OneAtEachPlace
  <2>. QED
    BY <1>1, <2>1, ElementOfSeq
<1>. QED
  BY <1>1, <1>2, <1>3

\* Of two collections of which every text of the first is one of the second, no
\* text of the first comes before that of the second at the same place.
LEMMA NotBefore ==
  ASSUME NEW n \in Nat, NEW a \in [1..n -> Texts], NEW b \in [1..n -> Texts],
         NEW f \in [1..n -> 1..n],
         \A i, j \in 1..n : f[i] = f[j] => i = j,
         \A i \in 1..n : a[i] = b[f[i]],
         NEW p \in 1..n
  PROVE  ~Less(a[At(n, a, p)], b[At(n, b, p)])
<1>. DEFINE x == At(n, a, p)
            y == At(n, b, p)
            L == Earlier(n, a, x) \cup {x}
            E == Earlier(n, b, y)
<1>1. x \in 1..n /\ Place(n, a, x) = p /\ y \in 1..n /\ Place(n, b, y) = p
  BY OneAtEachPlace
<1>. HIDE DEF x, y
<1>2. IsFiniteSet(1..n)
  BY FS_Interval
<1>3. /\ IsFiniteSet(Earlier(n, a, x)) /\ Cardinality(Earlier(n, a, x)) \in Nat
      /\ IsFiniteSet(E) /\ Cardinality(E) \in Nat
  BY <1>2, FS_Subset, FS_CardinalityType DEF Earlier
<1>4. Cardinality(Earlier(n, a, x)) = p - 1 /\ Cardinality(E) = p - 1
  <2>1. 1 + Cardinality(Earlier(n, a, x)) = p /\ 1 + Cardinality(E) = p
    BY <1>1 DEF Place
  <2>2. \A c \in Nat : 1 + c = p => c = p - 1
    OBVIOUS
  <2>. QED
    BY <1>3, <2>1, <2>2
<1>5. x \notin Earlier(n, a, x)
  BY <1>1, BeforeIsOrder DEF Earlier
<1>6. IsFiniteSet(L) /\ Cardinality(L) = p
  <2>1. IsFiniteSet(L) /\ Cardinality(L) = Cardinality(Earlier(n, a, x)) + 1
    BY <1>3, <1>5, FS_AddElement
  <2>2. (p - 1) + 1 = p
    OBVIOUS
  <2>. QED
    BY <1>4, <2>1, <2>2
<1>7. SUFFICES ASSUME Less(a[x], b[y]) PROVE FALSE
  BY DEF x, y
<1>8. ASSUME NEW i \in L PROVE i \in 1..n /\ f[i] \in E
  <2>1. i \in 1..n
    BY <1>1 DEF Earlier
  <2>2. i = x \/ Before(a, i, x)
    BY DEF Earlier
  <2>3. a[i] = a[x] \/ Less(a[i], a[x])
    BY <2>2 DEF Before
  <2>4. a[i] \in Texts /\ a[x] \in Texts /\ b[y] \in Texts
    BY <1>1, <2>1
  <2>5. Less(a[i], b[y])
    BY <1>7, <2>3, <2>4, LessTransitive
  <2>6. Less(b[f[i]], b[y]) /\ f[i] \in 1..n
    BY <2>1, <2>5
  <2>. QED
    BY <2>1, <2>6 DEF Earlier, Before
<1>. DEFINE g == [i \in L |-> f[i]]
<1>9. g \in [L -> E]
  BY <1>8
<1>10. Cardinality(E) < Cardinality(L)
  BY <1>4, <1>6
<1>. HIDE DEF L, E, g
<1>11. \E i, j \in L : i # j /\ g[i] = g[j]
  BY <1>3, <1>6, <1>9, <1>10, FS_PigeonHole
<1>. QED
  BY <1>8, <1>11 DEF g

\* What Permutes chooses is a permutation.
LEMMA OntoIsOneToOne ==
  ASSUME NEW n \in Nat, NEW f \in [1..n -> 1..n],
         \A i \in 1..n : \E j \in 1..n : f[j] = i
  PROVE  \A i, j \in 1..n : f[i] = f[j] => i = j
<1>2. SUFFICES ASSUME NEW i \in 1..n, NEW j \in 1..n, f[i] = f[j], i # j PROVE FALSE
  OBVIOUS
<1>. DEFINE R == 1..n \ {j}
            g == [k \in 1..n |-> CHOOSE m \in R : f[m] = k]
<1>3. ASSUME NEW k \in 1..n PROVE g[k] \in R /\ f[g[k]] = k
  <2>1. PICK m \in 1..n : f[m] = k
    OBVIOUS
  <2>2. \E m1 \in R : f[m1] = k
    BY <1>2, <2>1
  <2>. QED
    BY <2>2
<1>4. g \in [1..n -> R]
  BY <1>3
<1>. HIDE DEF g
<1>5. \E k, m \in 1..n : k # m /\ g[k] = g[m]
  BY <1>4, OneTooMany
<1>. QED
  BY <1>3, <1>5

\* Two collections with the same texts, however often and in whatever order,
\* have the same text at every place.
LEMMA SameTextsSameOrder ==
  ASSUME NEW n \in Nat, NEW a \in [1..n -> Texts], NEW b \in [1..n -> Texts],
         NEW f \in [1..n -> 1..n],
         \A i \in 1..n : \E j \in 1..n : f[j] = i,
         \A i \in 1..n : a[i] = b[f[i]],
         NEW p \in 1..n
  PROVE  a[At(n, a, p)] = b[At(n, b, p)]
<1>1. \A i, j \in 1..n : f[i] = f[j] => i = j
  BY OntoIsOneToOne
<1>2. ~Less(a[At(n, a, p)], b[At(n, b, p)])
  BY <1>1, NotBefore
<1>. DEFINE g == [i \in 1..n |-> CHOOSE j \in 1..n : f[j] = i]
<1>3. \A i \in 1..n : g[i] \in 1..n /\ f[g[i]] = i
  OBVIOUS
<1>4. g \in [1..n -> 1..n]
  BY <1>3
<1>5. \A i, j \in 1..n : g[i] = g[j] => i = j
  BY <1>3
<1>. HIDE DEF g
<1>6. \A i \in 1..n : b[i] = a[g[i]]
  BY <1>3
<1>7. ~Less(b[At(n, b, p)], a[At(n, a, p)])
  BY <1>4, <1>5, <1>6, NotBefore
<1>8. a[At(n, a, p)] \in Texts /\ b[At(n, b, p)] \in Texts
  BY OneAtEachPlace
<1>. QED
  BY <1>2, <1>7, <1>8, LessTotal

-----------------------------------------------------------------------------
\* The rendering of a reply is a text.

LEMMA Flattened ==
  ASSUME NEW S, NEW ss \in Seq(Seq(S))
  PROVE  FlattenSeq(ss) \in Seq(S)
<1>. DEFINE n == Len(ss)
            Next1(g, i) == IF i = 1 THEN ss[i] ELSE g[i - 1] \o ss[i]
            flat == CHOOSE g : g = [i \in 1..n |-> Next1(g, i)]
<1>1. n \in Nat /\ \A i \in 1..n : ss[i] \in Seq(S)
  BY ElementOfSeq
<1>2. CASE n = 0
  <2>1. ss = <<>>
    BY <1>2, EmptySeq
  <2>2. FlattenSeq(ss) = ss
    BY <1>2 DEF FlattenSeq
  <2>3. <<>> \in Seq(S)
    OBVIOUS
  <2>. HIDE DEF n
  <2>. QED
    BY <2>1, <2>2, <2>3
<1>3. CASE n # 0
  <2>. DEFINE Flat1(m) ==
                \E g \in [1..m -> Seq(S)] : \A i \in 1..m : g[i] = Next1(g, i)
              T == {m \in Nat : m <= n => Flat1(m)}
  <2>1. 0 \in T
    <3>. DEFINE none == [i \in 1..0 |-> <<>>]
    <3>1. none \in [1..0 -> Seq(S)] /\ \A i \in 1..0 : FALSE
      OBVIOUS
    <3>. HIDE DEF none, Next1
    <3>2. Flat1(0)
      BY <3>1
    <3>. HIDE DEF Flat1
    <3>. QED
      BY <3>2
  <2>2. ASSUME NEW m \in Nat, m \in T PROVE m + 1 \in T
    <3>1. SUFFICES ASSUME m + 1 <= n PROVE Flat1(m + 1)
      <4>. HIDE DEF Flat1
      <4>. QED
        OBVIOUS
    <3>2. m <= n
      BY <1>1, <3>1
    <3>3. PICK g \in [1..m -> Seq(S)] : \A i \in 1..m : g[i] = Next1(g, i)
      BY <2>2, <3>2
    <3>. DEFINE last == IF m = 0 THEN ss[1] ELSE g[m] \o ss[m + 1]
                h == [i \in 1..(m + 1) |-> IF i = m + 1 THEN last ELSE g[i]]
    <3>4. last \in Seq(S)
      <4>1. CASE m = 0
        BY <1>1, <1>3, <4>1
      <4>2. CASE m # 0
        <5>1. g[m] \in Seq(S) /\ ss[m + 1] \in Seq(S)
          BY <1>1, <3>1, <4>2
        <5>. QED
          BY <4>2, <5>1, ConcatProperties
      <4>. QED
        BY <4>1, <4>2
    <3>. HIDE DEF last
    <3>5. h \in [1..(m + 1) -> Seq(S)]
      BY <3>4
    <3>6. ASSUME NEW i \in 1..(m + 1) PROVE h[i] = Next1(h, i)
      <4>1. CASE i = m + 1
        <5>1. h[i] = last
          BY <4>1
        <5>2. CASE m = 0
          BY <4>1, <5>1, <5>2 DEF last
        <5>3. CASE m # 0
          <6>1. i # 1 /\ i - 1 = m /\ m \in 1..(m + 1) /\ m # m + 1
            BY <4>1, <5>3
          <6>2. h[i - 1] = g[m]
            BY <6>1
          <6>. QED
            BY <4>1, <5>1, <5>3, <6>1, <6>2 DEF last
        <5>. QED
          BY <5>2, <5>3
      <4>2. CASE i # m + 1
        <5>1. i \in 1..m /\ h[i] = g[i]
          BY <4>2
        <5>2. g[i] = Next1(g, i)
          BY <3>3, <5>1
        <5>3. i # 1 => i - 1 \in 1..(m + 1) /\ i - 1 # m + 1
          BY <4>2
        <5>4. i # 1 => h[i - 1] = g[i - 1]
          BY <5>3
        <5>. QED
          BY <5>1, <5>2, <5>4
      <4>. QED
        BY <4>1, <4>2
    <3>. HIDE DEF h, Next1
    <3>. QED
      BY <3>5, <3>6
  <2>. HIDE DEF T
  <2>3. n \in T
    BY <1>1, <2>1, <2>2, CountUp
  <2>4. PICK g \in [1..n -> Seq(S)] : \A i \in 1..n : g[i] = Next1(g, i)
    BY <1>1, <2>3 DEF T
  <2>5. g = [i \in 1..n |-> Next1(g, i)]
    BY <2>4
  <2>6. flat = [i \in 1..n |-> Next1(flat, i)]
    BY <2>5
  <2>7. FlattenSeq(ss) = flat[n]
    BY <1>3 DEF FlattenSeq
  <2>. HIDE DEF flat
  <2>8. \A i \in 1..n : flat[i] = Next1(flat, i)
    BY <2>6
  <2>. DEFINE U == {m \in Nat : m \in 1..n => flat[m] \in Seq(S)}
  <2>9. 0 \in U
    OBVIOUS
  <2>10. ASSUME NEW m \in Nat, m \in U PROVE m + 1 \in U
    <3>1. SUFFICES ASSUME m + 1 \in 1..n PROVE flat[m + 1] \in Seq(S)
      OBVIOUS
    <3>2. flat[m + 1] = IF m + 1 = 1 THEN ss[m + 1] ELSE flat[(m + 1) - 1] \o ss[m + 1]
      BY <2>8, <3>1
    <3>3. ss[m + 1] \in Seq(S) /\ (m + 1) - 1 = m
      BY <1>1, <3>1
    <3>4. CASE m = 0
      BY <3>2, <3>3, <3>4
    <3>5. CASE m # 0
      <4>1. m \in 1..n /\ m + 1 # 1
        BY <1>1, <3>1, <3>5
      <4>2. flat[m] \in Seq(S)
        BY <2>10, <4>1
      <4>. QED
        BY <3>2, <3>3, <4>1, <4>2, ConcatProperties
    <3>. QED
      BY <3>4, <3>5
  <2>. HIDE DEF U
  <2>11. n \in U
    BY <1>1, <2>9, <2>10, CountUp
  <2>12. n \in 1..n
    BY <1>1, <1>3
  <2>. QED
    BY <2>7, <2>11, <2>12 DEF U
<1>. QED
  BY <1>2, <1>3

LEMMA JoinedTexts ==
  ASSUME NEW n \in Nat, NEW parts \in [1..n -> Texts]
  PROVE  Joined(parts) \in Texts
<1>. DEFINE ss == [i \in DOMAIN parts |->
                     IF i = 1 THEN parts[i] ELSE <<32>> \o parts[i]]
<1>1. \A i \in 1..n : parts[i] \in Seq(Nat)
  BY DEF Texts
<1>2. <<32>> \in Seq(Nat)
  OBVIOUS
<1>3. \A i \in 1..n : <<32>> \o parts[i] \in Seq(Nat)
  BY <1>1, <1>2, ConcatProperties
<1>4. ss \in Seq(Seq(Nat))
  BY <1>1, <1>3
<1>. HIDE DEF ss
<1>5. FlattenSeq(ss) \in Seq(Nat)
  BY <1>4, Flattened
<1>. QED
  BY <1>5 DEF Joined, ss, Texts

LEMMA TextParts ==
  /\ \A t, u \in Texts : t \o u \in Texts
  /\ \A t \in Texts : Quoted(t) \in Texts
  /\ \A n \in Int : Digits(n) \in Texts
  /\ \A k \in Lists : Opening(k) \in Texts /\ Closing(k) \in Texts
<1>1. \A t, u \in Texts : t \o u \in Texts
  BY ConcatProperties DEF Texts
<1>2. ASSUME NEW t \in Texts PROVE Quoted(t) \in Texts
  <2>1. <<34>> \in Texts
    BY DEF Texts
  <2>. QED
    BY <1>1, <2>1 DEF Quoted
<1>3. ASSUME NEW n \in Int PROVE Digits(n) \in Texts
  <2>1. CASE n < 0
    <3>1. 48 - n \in Nat
      BY <2>1
    <3>2. <<45, 48 - n>> \in Seq(Nat)
      BY <3>1
    <3>. QED
      BY <2>1, <3>2 DEF Digits, Texts
  <2>2. CASE ~(n < 0)
    <3>1. 48 + n \in Nat
      BY <2>2
    <3>2. <<48 + n>> \in Seq(Nat)
      BY <3>1
    <3>. QED
      BY <2>2, <3>2 DEF Digits, Texts
  <2>. QED
    BY <2>1, <2>2
<1>4. \A k \in Lists : Opening(k) \in Texts /\ Closing(k) \in Texts
  <2>1. /\ <<91>> \in Texts /\ <<123>> \in Texts /\ <<62, 91>> \in Texts
        /\ <<93>> \in Texts /\ <<125>> \in Texts
    BY DEF Texts
  <2>2. Opening("*") = <<91>> /\ Opening("~") = <<123>> /\ Opening(">") = <<62, 91>>
    BY DEF Opening
  <2>3. \A k : Closing(k) \in {<<93>>, <<125>>}
    BY DEF Closing
  <2>. QED
    BY <2>1, <2>2, <2>3 DEF Lists
<1>. QED
  BY <1>1, <1>2, <1>3, <1>4

LEMMA RenderingByKind ==
  ASSUME NEW v
  PROVE  /\ v.kind = "+" => Rendering(v) = <<43>> \o v.str
         /\ v.kind \in {"-", "!"} => Rendering(v) = <<45>> \o v.str
         /\ v.kind = ":" => Rendering(v) = <<58>> \o Digits(v.int)
         /\ v.kind = "$" => Rendering(v) = <<36>> \o Quoted(v.str)
         /\ v.kind = "_" => Rendering(v) = <<40, 110, 117, 108, 108, 41>>
         /\ v.kind = "#" => Rendering(v) = <<35, IF v.bool THEN 116 ELSE 102>>
         /\ v.kind = "," => Rendering(v) = <<44>> \o v.str
         /\ v.kind = "(" => Rendering(v) = <<40>> \o v.str
         /\ v.kind = "=" => Rendering(v) = <<61, 116, 120, 116, 58>> \o Quoted(v.str)
         /\ v.kind \in Lists =>
              Rendering(v) = Opening(v.kind)
                \o Joined([i \in DOMAIN v.elems |-> String(v.elems[i])])
                \o Closing(v.kind)
         /\ v.kind = "%" =>
              Rendering(v) = <<37, 123>>
                \o Joined([i \in DOMAIN v.map |->
                             String(v.map[i][1]) \o <<61, 62>> \o String(v.map[i][2])])
                \o <<125>>
  BY DEF Rendering, Lists

LEMMA RenderedTexts ==
  ASSUME MatchEquations
  PROVE  \A v \in Replies : String(v) \in Texts
<1>. DEFINE Good == {v \in Replies : String(v) \in Texts}
<1>0. \A t, u \in Texts : t \o u \in Texts
  BY TextParts
<1>1. ASSUME NEW v \in Replies,
             v.kind \in Lists => \A i \in DOMAIN v.elems : v.elems[i] \in Good,
             v.kind = "%" =>
               \A i \in DOMAIN v.map : v.map[i][1] \in Good /\ v.map[i][2] \in Good
      PROVE  v \in Good
  <2>0. SUFFICES Rendering(v) \in Texts
    BY DEF MatchEquations
  <2>1. CASE v.kind \in Scalars
    <3>1. v.str \in Texts /\ Quoted(v.str) \in Texts
      BY <2>1, KindOfReply, TextParts DEF Texts
    <3>2. /\ <<43>> \in Texts /\ <<45>> \in Texts /\ <<36>> \in Texts /\ <<44>> \in Texts
          /\ <<40>> \in Texts /\ <<61, 116, 120, 116, 58>> \in Texts
      BY DEF Texts
    <3>3. /\ v.kind = "+" => Rendering(v) = <<43>> \o v.str
          /\ v.kind \in {"-", "!"} => Rendering(v) = <<45>> \o v.str
          /\ v.kind = "$" => Rendering(v) = <<36>> \o Quoted(v.str)
          /\ v.kind = "," => Rendering(v) = <<44>> \o v.str
          /\ v.kind = "(" => Rendering(v) = <<40>> \o v.str
          /\ v.kind = "=" => Rendering(v) = <<61, 116, 120, 116, 58>> \o Quoted(v.str)
      BY RenderingByKind
    <3>4. /\ <<43>> \o v.str \in Texts /\ <<45>> \o v.str \in Texts
          /\ <<36>> \o Quoted(v.str) \in Texts /\ <<44>> \o v.str \in Texts
          /\ <<40>> \o v.str \in Texts
          /\ <<61, 116, 120, 116, 58>> \o Quoted(v.str) \in Texts
      BY <1>0, <3>1, <3>2
    <3>. QED
      BY <2>1, <3>3, <3>4 DEF Scalars
  <2>2. CASE v.kind = ":"
    <3>1. v.int \in Int
      BY <2>2, KindOfReply
    <3>2. Digits(v.int) \in Texts
      BY <3>1, TextParts
    <3>3. <<58>> \in Texts
      BY DEF Texts
    <3>. QED
      BY <1>0, <2>2, <3>2, <3>3, RenderingByKind
  <2>3. CASE v.kind = "#"
    <3>. DEFINE c == IF v.bool THEN 116 ELSE 102
    <3>1. c \in Nat
      OBVIOUS
    <3>. HIDE DEF c
    <3>2. <<35, c>> \in Seq(Nat)
      BY <3>1
    <3>. QED
      BY <2>3, <3>2, RenderingByKind DEF c, Texts
  <2>4. CASE v.kind = "_"
    <3>1. <<40, 110, 117, 108, 108, 41>> \in Seq(Nat)
      OBVIOUS
    <3>. QED
      BY <2>4, <3>1, RenderingByKind DEF Texts
  <2>5. CASE v.kind \in Lists
    <3>. DEFINE parts == [i \in DOMAIN v.elems |-> String(v.elems[i])]
                j == Joined(parts)
    <3>1. DOMAIN v.elems = 1..Len(v.elems) /\ Len(v.elems) \in Nat
      BY <2>5, KindOfReply, LenProperties
    <3>2. parts \in [1..Len(v.elems) -> Texts]
      BY <1>1, <2>5, <3>1
    <3>3. j \in Texts
      BY <3>1, <3>2, JoinedTexts
    <3>. HIDE DEF j, parts
    <3>4. Opening(v.kind) \in Texts /\ Closing(v.kind) \in Texts
      BY <2>5, TextParts
    <3>5. Rendering(v) = Opening(v.kind) \o j \o Closing(v.kind)
      BY <2>5, RenderingByKind DEF j, parts
    <3>. QED
      BY <1>0, <3>3, <3>4, <3>5
  <2>6. CASE v.kind = "%"
    <3>. DEFINE parts == [i \in DOMAIN v.map |->
                            String(v.map[i][1]) \o <<61, 62>> \o String(v.map[i][2])]
                j == Joined(parts)
    <3>1. DOMAIN v.map = 1..Len(v.map) /\ Len(v.map) \in Nat
      BY <2>6, KindOfReply, LenProperties
    <3>2. ASSUME NEW i \in DOMAIN v.map
          PROVE  String(v.map[i][1]) \o <<61, 62>> \o String(v.map[i][2]) \in Texts
      <4>1. String(v.map[i][1]) \in Texts /\ String(v.map[i][2]) \in Texts
        BY <1>1, <2>6
      <4>2. <<61, 62>> \in Texts
        BY DEF Texts
      <4>. QED
        BY <1>0, <4>1, <4>2
    <3>3. parts \in [1..Len(v.map) -> Texts]
      BY <3>1, <3>2
    <3>4. j \in Texts
      BY <3>1, <3>3, JoinedTexts
    <3>. HIDE DEF j, parts
    <3>5. <<37, 123>> \in Texts /\ <<125>> \in Texts
      BY DEF Texts
    <3>6. Rendering(v) = <<37, 123>> \o j \o <<125>>
      BY <2>6, RenderingByKind DEF j, parts
    <3>. QED
      BY <1>0, <3>4, <3>5, <3>6
  <2>7. v.kind \in Scalars \cup Lists \cup Atoms \cup {"%"}
    BY KindOfReply
  <2>. QED
    BY <2>1, <2>2, <2>3, <2>4, <2>5, <2>6, <2>7 DEF Atoms
<1>. HIDE DEF Good
<1>2. Replies \subseteq Good
  BY <1>1, PartInduction
<1>. QED
  BY <1>2 DEF Good

-----------------------------------------------------------------------------
\* Normalize keeps the kind of a reply, and its members but for their order.

\* Replies has whatever can be built of replies.
Complete == ReplyOver(Replies) \subseteq Replies

Each(s)      == [i \in DOMAIN s |-> Normalize(s[i])]
EachPair(ps) == [i \in DOMAIN ps |-> <<Normalize(ps[i][1]), Normalize(ps[i][2])>>]
TextsOf(s)   == [i \in DOMAIN s |-> String(s[i])]
KeyTexts(ps) == [i \in DOMAIN ps |-> String(ps[i][1])]

LEMMA PairNormalized ==
  ASSUME NEW S, NEW p \in S \X S
  PROVE  [k \in DOMAIN p |-> Normalize(p[k])] = <<Normalize(p[1]), Normalize(p[2])>>
<1>1. p = <<p[1], p[2]>> /\ DOMAIN p = 1..2
  OBVIOUS
<1>2. [k \in 1..2 |-> Normalize(p[k])] = <<Normalize(p[1]), Normalize(p[2])>>
  OBVIOUS
<1>. QED
  BY <1>1, <1>2

LEMMA NormalizingByKind ==
  ASSUME NEW v \in Replies
  PROVE  /\ v.kind \in {"*", ">"} => Normalizing(v) = List(v.kind, Each(v.elems))
         /\ v.kind = "~" =>
              Normalizing(v) =
                List("~", SortedBy(Each(v.elems), TextsOf(Each(v.elems))))
         /\ v.kind = "%" =>
              Normalizing(v) =
                Map(SortedBy(EachPair(v.map), KeyTexts(EachPair(v.map))))
         /\ v.kind \in Scalars \cup Atoms => Normalizing(v) = v
<1>1. v.kind \in {"*", ">"} => Normalizing(v) = List(v.kind, Each(v.elems))
  BY DEF Normalizing, Each
<1>2. v.kind = "~" =>
        Normalizing(v) = List("~", SortedBy(Each(v.elems), TextsOf(Each(v.elems))))
  BY DEF Normalizing, Each, SortedMembers, TextsOf
<1>3. ASSUME v.kind = "%"
      PROVE  Normalizing(v) = Map(SortedBy(EachPair(v.map), KeyTexts(EachPair(v.map))))
  <2>. DEFINE ps == [i \in DOMAIN v.map |->
                       [k \in DOMAIN v.map[i] |-> Normalize(v.map[i][k])]]
  <2>1. \A i \in DOMAIN v.map : v.map[i] \in Replies \X Replies
    BY <1>3, KeysAndValues
  <2>2. \A i \in DOMAIN v.map :
          [k \in DOMAIN v.map[i] |-> Normalize(v.map[i][k])] =
            <<Normalize(v.map[i][1]), Normalize(v.map[i][2])>>
    BY <2>1, PairNormalized
  <2>3. ps = EachPair(v.map)
    BY <2>2 DEF EachPair
  <2>4. Normalizing(v) = Map(SortedPairs(ps))
    BY <1>3 DEF Normalizing
  <2>. HIDE DEF ps
  <2>. QED
    BY <2>3, <2>4 DEF SortedPairs, KeyTexts
<1>4. v.kind \in Scalars \cup Atoms => Normalizing(v) = v
  BY DEF Normalizing, Scalars, Atoms
<1>. QED
  BY <1>1, <1>2, <1>3, <1>4

\* The parts of a reply, normalized.
LEMMA NormalParts ==
  ASSUME MatchEquations, NEW v \in Replies,
         v.kind \in Lists => \A i \in DOMAIN v.elems : Normalize(v.elems[i]) \in Replies,
         v.kind = "%" => \A i \in DOMAIN v.map : /\ Normalize(v.map[i][1]) \in Replies
                                               /\ Normalize(v.map[i][2]) \in Replies
  PROVE  /\ v.kind \in Lists =>
              /\ Each(v.elems) \in Seq(Replies) /\ Len(Each(v.elems)) = Len(v.elems)
              /\ TextsOf(Each(v.elems)) \in [1..Len(v.elems) -> Texts]
         /\ v.kind = "%" =>
              /\ EachPair(v.map) \in Seq(Replies \X Replies)
              /\ Len(EachPair(v.map)) = Len(v.map)
              /\ KeyTexts(EachPair(v.map)) \in [1..Len(v.map) -> Texts]
<1>0. \A w \in Replies : String(w) \in Texts
  BY RenderedTexts
<1>1. ASSUME v.kind \in Lists
      PROVE  /\ Each(v.elems) \in Seq(Replies) /\ Len(Each(v.elems)) = Len(v.elems)
             /\ TextsOf(Each(v.elems)) \in [1..Len(v.elems) -> Texts]
  <2>. DEFINE m == Each(v.elems)
  <2>1. DOMAIN v.elems = 1..Len(v.elems) /\ Len(v.elems) \in Nat
    BY <1>1, KindOfReply, LenProperties
  <2>2. m = [i \in 1..Len(v.elems) |-> Normalize(v.elems[i])]
    BY <2>1 DEF Each
  <2>3. \A i \in 1..Len(v.elems) : Normalize(v.elems[i]) \in Replies
    BY <1>1, <2>1
  <2>4. m \in Seq(Replies) /\ Len(m) = Len(v.elems) /\ DOMAIN m = 1..Len(v.elems)
    BY <2>1, <2>2, <2>3
  <2>5. \A i \in 1..Len(v.elems) : m[i] \in Replies
    BY <2>2, <2>3
  <2>. HIDE DEF m
  <2>6. TextsOf(m) \in [1..Len(v.elems) -> Texts]
    BY <1>0, <2>4, <2>5 DEF TextsOf
  <2>. QED
    BY <2>4, <2>6 DEF m
<1>2. ASSUME v.kind = "%"
      PROVE  /\ EachPair(v.map) \in Seq(Replies \X Replies)
             /\ Len(EachPair(v.map)) = Len(v.map)
             /\ KeyTexts(EachPair(v.map)) \in [1..Len(v.map) -> Texts]
  <2>. DEFINE q == EachPair(v.map)
  <2>1. DOMAIN v.map = 1..Len(v.map) /\ Len(v.map) \in Nat
    BY <1>2, KindOfReply, LenProperties
  <2>2. q = [i \in 1..Len(v.map) |-> <<Normalize(v.map[i][1]), Normalize(v.map[i][2])>>]
    BY <2>1 DEF EachPair
  <2>3. \A i \in 1..Len(v.map) :
          <<Normalize(v.map[i][1]), Normalize(v.map[i][2])>> \in Replies \X Replies
    BY <1>2, <2>1
  <2>4. q \in Seq(Replies \X Replies) /\ Len(q) = Len(v.map) /\ DOMAIN q = 1..Len(v.map)
    BY <2>1, <2>2, <2>3
  <2>5. \A i \in 1..Len(v.map) : q[i] \in Replies \X Replies
    BY <2>2, <2>3
  <2>. HIDE DEF q
  <2>6. \A i \in 1..Len(v.map) : q[i][1] \in Replies
    BY <2>5
  <2>7. KeyTexts(q) \in [1..Len(v.map) -> Texts]
    BY <1>0, <2>4, <2>6 DEF KeyTexts
  <2>. QED
    BY <2>4, <2>7 DEF q
<1>. QED
  BY <1>1, <1>2

LEMMA NormalizedReplies ==
  ASSUME MatchEquations, Complete
  PROVE  \A v \in Replies : Normalize(v) \in Replies /\ Normalize(v).kind = v.kind
<1>. DEFINE Good == {v \in Replies : Normalize(v) \in Replies /\ Normalize(v).kind = v.kind}
<1>1. ASSUME NEW v \in Replies,
             v.kind \in Lists => \A i \in DOMAIN v.elems : v.elems[i] \in Good,
             v.kind = "%" =>
               \A i \in DOMAIN v.map : v.map[i][1] \in Good /\ v.map[i][2] \in Good
      PROVE  v \in Good
  <2>0. SUFFICES Normalizing(v) \in Replies /\ Normalizing(v).kind = v.kind
    BY DEF MatchEquations
  <2>a. /\ v.kind \in Lists => \A i \in DOMAIN v.elems : Normalize(v.elems[i]) \in Replies
        /\ v.kind = "%" => \A i \in DOMAIN v.map : /\ Normalize(v.map[i][1]) \in Replies
                                                 /\ Normalize(v.map[i][2]) \in Replies
    BY <1>1
  <2>1. CASE v.kind \in {"*", ">"}
    <3>1. Each(v.elems) \in Seq(Replies)
      BY <2>1, <2>a, NormalParts DEF Lists
    <3>2. List(v.kind, Each(v.elems)) \in ReplyOver(Replies)
      BY <2>1, <3>1 DEF List, ReplyOver, Lists
    <3>3. List(v.kind, Each(v.elems)).kind = v.kind
      BY DEF List
    <3>. QED
      BY <2>1, <3>2, <3>3, NormalizingByKind DEF Complete
  <2>2. CASE v.kind = "~"
    <3>. DEFINE m == Each(v.elems)
                s == SortedBy(m, TextsOf(m))
    <3>1. m \in Seq(Replies) /\ TextsOf(m) \in [1..Len(m) -> Texts]
      BY <2>2, <2>a, NormalParts DEF Lists
    <3>. HIDE DEF m
    <3>2. s \in Seq(Replies)
      BY <3>1, SortedMembership
    <3>3. Normalizing(v) = List("~", s)
      BY <2>2, NormalizingByKind DEF m
    <3>. HIDE DEF s
    <3>4. List("~", s) \in ReplyOver(Replies) /\ List("~", s).kind = "~"
      BY <3>2 DEF List, ReplyOver, Lists
    <3>. QED
      BY <2>2, <3>3, <3>4 DEF Complete
  <2>3. CASE v.kind = "%"
    <3>. DEFINE q == EachPair(v.map)
                s == SortedBy(q, KeyTexts(q))
    <3>1. q \in Seq(Replies \X Replies) /\ KeyTexts(q) \in [1..Len(q) -> Texts]
      BY <2>3, <2>a, NormalParts
    <3>. HIDE DEF q
    <3>2. s \in Seq(Replies \X Replies)
      BY <3>1, SortedMembership
    <3>3. Normalizing(v) = Map(s)
      BY <2>3, NormalizingByKind DEF q
    <3>. HIDE DEF s
    <3>4. Map(s) \in ReplyOver(Replies) /\ Map(s).kind = "%"
      BY <3>2 DEF Map, ReplyOver
    <3>. QED
      BY <2>3, <3>3, <3>4 DEF Complete
  <2>4. CASE v.kind \in Scalars \cup Atoms
    BY <2>4, NormalizingByKind
  <2>5. v.kind \in Scalars \cup Lists \cup Atoms \cup {"%"}
    BY KindOfReply
  <2>. QED
    BY <2>1, <2>2, <2>3, <2>4, <2>5 DEF Lists
<1>. HIDE DEF Good
<1>2. Replies \subseteq Good
  BY <1>1, PartInduction
<1>. QED
  BY <1>2 DEF Good

-----------------------------------------------------------------------------
\* equalRaw is an equality: it takes equal parts for equal, whatever the replies.

LEMMA SamePairs ==
  ASSUME NEW p \in Replies \X Replies, NEW q \in Replies \X Replies
  PROVE  (Len(p) = Len(q) /\ \A j \in DOMAIN p : EqualRaw(p[j], q[j]))
           <=> EqualRaw(p[1], q[1]) /\ EqualRaw(p[2], q[2])
<1>1. Len(p) = 2 /\ Len(q) = 2 /\ DOMAIN p = {1, 2}
  OBVIOUS
<1>. QED
  BY <1>1

EqualElems(s, t) == Len(s) = Len(t) /\ \A i \in DOMAIN s : EqualRaw(s[i], t[i])

EqualPairs(s, t) ==
  /\ Len(s) = Len(t)
  /\ \A i \in DOMAIN s : EqualRaw(s[i][1], t[i][1]) /\ EqualRaw(s[i][2], t[i][2])

LEMMA ComparingByKind ==
  ASSUME MatchEquations, NEW a \in Replies, NEW b \in Replies
  PROVE  EqualRaw(a, b) <=>
           /\ a.kind = b.kind
           /\ a.kind \in Scalars => a.str = b.str
           /\ a.kind = ":" => a.int = b.int
           /\ a.kind = "#" => a.bool = b.bool
           /\ a.kind \in Lists => EqualElems(a.elems, b.elems)
           /\ a.kind = "%" => EqualPairs(a.map, b.map)
<1>1. ASSUME a.kind = "%", b.kind = "%", Len(a.map) = Len(b.map), NEW i \in DOMAIN a.map
      PROVE  (Len(a.map[i]) = Len(b.map[i])
                /\ \A j \in DOMAIN a.map[i] : EqualRaw(a.map[i][j], b.map[i][j]))
               <=> EqualRaw(a.map[i][1], b.map[i][1]) /\ EqualRaw(a.map[i][2], b.map[i][2])
  <2>1. DOMAIN a.map = 1..Len(a.map) /\ DOMAIN b.map = 1..Len(b.map)
    BY <1>1, KindOfReply, LenProperties
  <2>2. a.map[i] \in Replies \X Replies /\ b.map[i] \in Replies \X Replies
    BY <1>1, <2>1, KeysAndValues
  <2>. QED
    BY <2>2, SamePairs
<1>2. EqualRaw(a, b) <=> Comparing(a, b)
  BY DEF MatchEquations
<1>3. CASE a.kind = "%" /\ b.kind = "%"
  BY <1>1, <1>2, <1>3 DEF Comparing, EqualPairs, Scalars, Lists
<1>4. CASE ~(a.kind = "%" /\ b.kind = "%")
  BY <1>2, <1>4 DEF Comparing, EqualElems
<1>. QED
  BY <1>3, <1>4

LEMMA PartsAt ==
  ASSUME NEW a \in Replies, NEW b \in Replies, a.kind = b.kind
  PROVE  /\ a.kind \in Lists /\ Len(a.elems) = Len(b.elems) =>
              /\ DOMAIN a.elems = DOMAIN b.elems
              /\ \A i \in DOMAIN a.elems : a.elems[i] \in Replies /\ b.elems[i] \in Replies
         /\ a.kind = "%" /\ Len(a.map) = Len(b.map) =>
              /\ DOMAIN a.map = DOMAIN b.map
              /\ \A i \in DOMAIN a.map :
                   /\ a.map[i][1] \in Replies /\ a.map[i][2] \in Replies
                   /\ b.map[i][1] \in Replies /\ b.map[i][2] \in Replies
<1>1. ASSUME a.kind \in Lists, Len(a.elems) = Len(b.elems)
      PROVE  /\ DOMAIN a.elems = DOMAIN b.elems
             /\ \A i \in DOMAIN a.elems : a.elems[i] \in Replies /\ b.elems[i] \in Replies
  <2>1. a.elems \in Seq(Replies) /\ b.elems \in Seq(Replies)
    BY <1>1, KindOfReply
  <2>. QED
    BY <1>1, <2>1, LenProperties, ElementOfSeq
<1>2. ASSUME a.kind = "%", Len(a.map) = Len(b.map)
      PROVE  /\ DOMAIN a.map = DOMAIN b.map
             /\ \A i \in DOMAIN a.map :
                  /\ a.map[i][1] \in Replies /\ a.map[i][2] \in Replies
                  /\ b.map[i][1] \in Replies /\ b.map[i][2] \in Replies
  <2>1. a.map \in Seq(Replies \X Replies) /\ b.map \in Seq(Replies \X Replies)
    BY <1>2, KindOfReply
  <2>2. DOMAIN a.map = DOMAIN b.map
    BY <1>2, <2>1, LenProperties
  <2>3. \A i \in DOMAIN a.map : a.map[i] \in Replies \X Replies /\ b.map[i] \in Replies \X Replies
    BY <1>2, <2>2, KeysAndValues
  <2>. QED
    BY <2>2, <2>3
<1>. QED
  BY <1>1, <1>2

LEMMA EqualSymmetric ==
  ASSUME MatchEquations
  PROVE  \A a, b \in Replies : EqualRaw(a, b) => EqualRaw(b, a)
<1>. DEFINE Good == {a \in Replies : \A b \in Replies : EqualRaw(a, b) => EqualRaw(b, a)}
<1>1. ASSUME NEW a \in Replies,
             a.kind \in Lists => \A i \in DOMAIN a.elems : a.elems[i] \in Good,
             a.kind = "%" =>
               \A i \in DOMAIN a.map : a.map[i][1] \in Good /\ a.map[i][2] \in Good
      PROVE  a \in Good
  <2>1. SUFFICES ASSUME NEW b \in Replies, EqualRaw(a, b) PROVE EqualRaw(b, a)
    OBVIOUS
  <2>2. /\ a.kind = b.kind
        /\ a.kind \in Scalars => a.str = b.str
        /\ a.kind = ":" => a.int = b.int
        /\ a.kind = "#" => a.bool = b.bool
        /\ a.kind \in Lists => EqualElems(a.elems, b.elems)
        /\ a.kind = "%" => EqualPairs(a.map, b.map)
    BY <2>1, ComparingByKind
  <2>3. ASSUME a.kind \in Lists PROVE EqualElems(b.elems, a.elems)
    BY <1>1, <2>2, <2>3, PartsAt DEF EqualElems
  <2>4. ASSUME a.kind = "%" PROVE EqualPairs(b.map, a.map)
    BY <1>1, <2>2, <2>4, PartsAt DEF EqualPairs
  <2>. QED
    BY <2>2, <2>3, <2>4, ComparingByKind
<1>. HIDE DEF Good
<1>2. Replies \subseteq Good
  BY <1>1, PartInduction
<1>. QED
  BY <1>2 DEF Good

LEMMA EqualTransitive ==
  ASSUME MatchEquations
  PROVE  \A a, b, c \in Replies : EqualRaw(a, b) /\ EqualRaw(b, c) => EqualRaw(a, c)
<1>. DEFINE Good == {a \in Replies : \A b, c \in Replies :
                        EqualRaw(a, b) /\ EqualRaw(b, c) => EqualRaw(a, c)}
<1>1. ASSUME NEW a \in Replies,
             a.kind \in Lists => \A i \in DOMAIN a.elems : a.elems[i] \in Good,
             a.kind = "%" =>
               \A i \in DOMAIN a.map : a.map[i][1] \in Good /\ a.map[i][2] \in Good
      PROVE  a \in Good
  <2>1. SUFFICES ASSUME NEW b \in Replies, NEW c \in Replies, EqualRaw(a, b), EqualRaw(b, c)
                 PROVE  EqualRaw(a, c)
    OBVIOUS
  <2>2. /\ a.kind = b.kind
        /\ a.kind \in Scalars => a.str = b.str
        /\ a.kind = ":" => a.int = b.int
        /\ a.kind = "#" => a.bool = b.bool
        /\ a.kind \in Lists => EqualElems(a.elems, b.elems)
        /\ a.kind = "%" => EqualPairs(a.map, b.map)
    BY <2>1, ComparingByKind
  <2>3. /\ b.kind = c.kind
        /\ b.kind \in Scalars => b.str = c.str
        /\ b.kind = ":" => b.int = c.int
        /\ b.kind = "#" => b.bool = c.bool
        /\ b.kind \in Lists => EqualElems(b.elems, c.elems)
        /\ b.kind = "%" => EqualPairs(b.map, c.map)
    BY <2>1, ComparingByKind
  <2>4. ASSUME a.kind \in Lists PROVE EqualElems(a.elems, c.elems)
    <3>1. EqualElems(a.elems, b.elems) /\ EqualElems(b.elems, c.elems)
      BY <2>2, <2>3, <2>4
    <3>2. /\ DOMAIN a.elems = DOMAIN b.elems
          /\ \A i \in DOMAIN a.elems : b.elems[i] \in Replies /\ c.elems[i] \in Replies
      BY <2>2, <2>3, <2>4, <3>1, PartsAt DEF EqualElems
    <3>. QED
      BY <1>1, <2>4, <3>1, <3>2 DEF EqualElems
  <2>5. ASSUME a.kind = "%" PROVE EqualPairs(a.map, c.map)
    <3>1. EqualPairs(a.map, b.map) /\ EqualPairs(b.map, c.map)
      BY <2>2, <2>3, <2>5
    <3>2. /\ DOMAIN a.map = DOMAIN b.map
          /\ \A i \in DOMAIN a.map :
               /\ b.map[i][1] \in Replies /\ b.map[i][2] \in Replies
               /\ c.map[i][1] \in Replies /\ c.map[i][2] \in Replies
      BY <2>2, <2>3, <2>5, <3>1, PartsAt DEF EqualPairs
    <3>. QED
      BY <1>1, <2>5, <3>1, <3>2 DEF EqualPairs
  <2>. QED
    BY <2>2, <2>3, <2>4, <2>5, ComparingByKind
<1>. HIDE DEF Good
<1>2. Replies \subseteq Good
  BY <1>1, PartInduction
<1>. QED
  BY <1>2 DEF Good

-----------------------------------------------------------------------------
\* Runner.match.

LEMMA EqualIsEquality ==
  ASSUME MatchEquations, Complete
  PROVE  /\ \A a, b \in Replies : Equal(a, b) => Equal(b, a)
         /\ \A a, b, c \in Replies : Equal(a, b) /\ Equal(b, c) => Equal(a, c)
<1>1. \A v \in Replies : Normalize(v) \in Replies
  BY NormalizedReplies
<1>2. \A a, b \in Replies : Equal(a, b) => Equal(b, a)
  BY <1>1, EqualSymmetric DEF Equal
<1>3. \A a, b, c \in Replies : Equal(a, b) /\ Equal(b, c) => Equal(a, c)
  BY <1>1, EqualTransitive DEF Equal
<1>. QED
  BY <1>2, <1>3

LEMMA SetsOfMembers ==
  ASSUME Complete, NEW v \in Replies
  PROVE  AsSet(v) \in Replies
<1>1. Elems(v) \in Seq(Replies)
  <2>1. <<>> \in Seq(Replies)
    OBVIOUS
  <2>2. v.kind \in Lists => v.elems \in Seq(Replies)
    BY KindOfReply
  <2>. QED
    BY <2>1, <2>2 DEF Elems
<1>2. List("~", Elems(v)) \in ReplyOver(Replies)
  BY <1>1 DEF List, ReplyOver, Lists
<1>. QED
  BY <1>2 DEF AsSet, Complete

LEMMA MatchByTolerance ==
  ASSUME NEW a, NEW b
  PROVE  /\ Match(a, b, "intApprox") <=> BothKind(a, b, ":") /\ IntApprox(a.int, b.int)
         /\ Match(a, b, "errPrefix") <=>
              IsError(a) /\ IsError(b) /\ FirstWord(a.str) = FirstWord(b.str)
         /\ Match(a, b, "unordered") <=> BothKind(a, b, "*") /\ Equal(AsSet(a), AsSet(b))
         /\ Match(a, b, "encoding") <=> BothKind(a, b, "$")
         /\ Match(a, b, "any")
         /\ Match(a, b, "scan") <=> MatchScan(a, b)
         /\ Match(a, b, "exact") <=> Equal(a, b)
  BY DEF Match, MatchUnordered

LEMMA PairOfScan ==
  ASSUME NEW v \in Replies, v.kind = "*", Len(v.elems) = 2
  PROVE  v.elems[2] \in Replies
<1>1. v.elems \in Seq(Replies)
  BY KindOfReply DEF Lists
<1>. QED
  BY <1>1, ElementOfSeq

LEMMA MatchSymmetric ==
  ASSUME MatchEquations, Complete, NEW t \in AllTolerances,
         NEW a \in Replies, NEW b \in Replies,
         a.kind = ":" => a.int \in Ints, b.kind = ":" => b.int \in Ints,
         Match(a, b, t)
  PROVE  Match(b, a, t)
<1>1. CASE t = "intApprox"
  BY <1>1, MatchByTolerance, ApproxSymmetric DEF BothKind
<1>2. CASE t \in {"errPrefix", "encoding", "any"}
  BY <1>2, MatchByTolerance DEF BothKind
<1>3. CASE t = "unordered"
  BY <1>3, MatchByTolerance, SetsOfMembers, EqualIsEquality DEF BothKind
<1>4. CASE t = "scan"
  <2>1. /\ BothKind(a, b, "*") /\ Len(a.elems) = 2 /\ Len(b.elems) = 2
        /\ Str(a.elems[1]) = Str(b.elems[1])
        /\ Equal(AsSet(a.elems[2]), AsSet(b.elems[2]))
    BY <1>4, MatchByTolerance DEF MatchScan
  <2>2. AsSet(a.elems[2]) \in Replies /\ AsSet(b.elems[2]) \in Replies
    BY <2>1, PairOfScan, SetsOfMembers DEF BothKind
  <2>3. Equal(AsSet(b.elems[2]), AsSet(a.elems[2]))
    BY <2>1, <2>2, EqualIsEquality
  <2>. QED
    BY <1>4, <2>1, <2>3, MatchByTolerance DEF MatchScan, BothKind
<1>5. CASE t = "exact"
  BY <1>5, MatchByTolerance, EqualIsEquality
<1>. QED
  BY <1>1, <1>2, <1>3, <1>4, <1>5 DEF AllTolerances

LEMMA MatchTransitive ==
  ASSUME MatchEquations, Complete, NEW t \in AllTolerances, t # "intApprox",
         NEW a \in Replies, NEW b \in Replies, NEW c \in Replies,
         Match(a, b, t), Match(b, c, t)
  PROVE  Match(a, c, t)
<1>2. CASE t \in {"errPrefix", "encoding", "any"}
  BY <1>2, MatchByTolerance DEF BothKind
<1>3. CASE t = "unordered"
  <2>1. /\ BothKind(a, b, "*") /\ Equal(AsSet(a), AsSet(b))
        /\ BothKind(b, c, "*") /\ Equal(AsSet(b), AsSet(c))
    BY <1>3, MatchByTolerance
  <2>2. AsSet(a) \in Replies /\ AsSet(b) \in Replies /\ AsSet(c) \in Replies
    BY SetsOfMembers
  <2>3. Equal(AsSet(a), AsSet(c))
    BY <2>1, <2>2, EqualIsEquality
  <2>. QED
    BY <1>3, <2>1, <2>3, MatchByTolerance DEF BothKind
<1>4. CASE t = "scan"
  <2>1. /\ BothKind(a, b, "*") /\ Len(a.elems) = 2 /\ Len(b.elems) = 2
        /\ Str(a.elems[1]) = Str(b.elems[1])
        /\ Equal(AsSet(a.elems[2]), AsSet(b.elems[2]))
        /\ BothKind(b, c, "*") /\ Len(c.elems) = 2
        /\ Str(b.elems[1]) = Str(c.elems[1])
        /\ Equal(AsSet(b.elems[2]), AsSet(c.elems[2]))
    BY <1>4, MatchByTolerance DEF MatchScan
  <2>2. /\ AsSet(a.elems[2]) \in Replies /\ AsSet(b.elems[2]) \in Replies
        /\ AsSet(c.elems[2]) \in Replies
    BY <2>1, PairOfScan, SetsOfMembers DEF BothKind
  <2>3. Equal(AsSet(a.elems[2]), AsSet(c.elems[2]))
    BY <2>1, <2>2, EqualIsEquality
  <2>. QED
    BY <1>4, <2>1, <2>3, MatchByTolerance DEF MatchScan, BothKind
<1>5. CASE t = "exact"
  BY <1>5, MatchByTolerance, EqualIsEquality
<1>. QED
  BY <1>2, <1>3, <1>4, <1>5 DEF AllTolerances

-----------------------------------------------------------------------------
\* The verdict is that of match, on replies considered for the tolerance.
Judgement ==
  /\ tol \in DOMAIN Values /\ base \in Values[tol] /\ got \in Values[tol]
  /\ verdict # "none" => (Same <=> Match(base, got, tol))

LEMMA JudgementInv ==
  Spec => []Judgement
<1>1. Init => Judgement
  BY DEF Init, Judgement
<1>2. Judgement /\ [Next]_vars => Judgement'
  BY DEF Judgement, Next, Compare, vars, Same
<1>. QED
  BY <1>1, <1>2, PTL DEF Spec

\* Which target is the baseline changes no verdict, for replies of any depth,
\* any texts and integers of any width: matching is symmetric, and two replies
\* that match, but for approximate integers, are matched by the same replies of
\* a third target (case.go:118-120, 149-160; value.go:108-160).
THEOREM BaselineIrrelevant ==
  ASSUME MatchEquations, Complete
  PROVE  Spec => []BaselineDoesNotMatter
<1>1. ASSUME Judgement PROVE BaselineDoesNotMatter
  <2>1. /\ tol \in AllTolerances /\ Values[tol] \subseteq Replies
        /\ \A v \in Values[tol] : v.kind = ":" => v.int \in Ints
    BY <1>1, ValuesAssumption DEF Judgement
  <2>2. base \in Values[tol] /\ got \in Values[tol] /\ base \in Replies /\ got \in Replies
    BY <1>1, <2>1 DEF Judgement
  <2>3. \A a, b \in Values[tol] : Match(a, b, tol) => Match(b, a, tol)
    BY <2>1, MatchSymmetric
  <2>4. tol # "intApprox" =>
          \A a, b, c \in Values[tol] :
            Match(a, b, tol) /\ Match(b, c, tol) => Match(a, c, tol)
    BY <2>1, MatchTransitive
  <2>. QED
    BY <1>1, <2>2, <2>3, <2>4 DEF Judgement, BaselineDoesNotMatter
<1>. QED
  BY <1>1, JudgementInv, PTL

-----------------------------------------------------------------------------
\* Sorting decides equality up to order.

\* i and j are equal, if at all, when they have the same text, and i is equal to
\* every k that has the text of a j it is equal to.
DecidedByText(n, a, b, E) ==
  /\ \A i, j \in 1..n : <<i, j>> \in E => a[i] = b[j]
  /\ \A i, j, k \in 1..n : <<i, j>> \in E /\ b[j] = b[k] => <<i, k>> \in E

LEMMA SortingPermutes ==
  ASSUME NEW n \in Nat, NEW a \in [1..n -> Texts], NEW b \in [1..n -> Texts], NEW E,
         DecidedByText(n, a, b, E)
  PROVE  (\A p \in 1..n : <<At(n, a, p), At(n, b, p)>> \in E) <=>
           \E f \in [1..n -> 1..n] :
             /\ \A i \in 1..n : \E j \in 1..n : f[j] = i
             /\ \A i \in 1..n : <<i, f[i]>> \in E
<1>1. ASSUME \A p \in 1..n : <<At(n, a, p), At(n, b, p)>> \in E
      PROVE  \E f \in [1..n -> 1..n] :
               /\ \A i \in 1..n : \E j \in 1..n : f[j] = i
               /\ \A i \in 1..n : <<i, f[i]>> \in E
  <2>. DEFINE f == [i \in 1..n |-> At(n, b, Place(n, a, i))]
  <2>1. \A i \in 1..n : Place(n, a, i) \in 1..n /\ Place(n, b, i) \in 1..n
    BY Places
  <2>2. f \in [1..n -> 1..n]
    BY <2>1, OneAtEachPlace
  <2>3. \A i \in 1..n : f[i] = At(n, b, Place(n, a, i))
    OBVIOUS
  <2>. HIDE DEF f
  <2>4. ASSUME NEW i \in 1..n PROVE \E j \in 1..n : f[j] = i
    <3>. DEFINE j == At(n, a, Place(n, b, i))
    <3>1. j \in 1..n /\ Place(n, a, j) = Place(n, b, i)
      BY <2>1, OneAtEachPlace
    <3>. HIDE DEF j
    <3>2. f[j] = At(n, b, Place(n, b, i))
      BY <2>3, <3>1
    <3>3. f[j] = i
      BY <3>2, OneAtEachPlace
    <3>. QED
      BY <3>1, <3>3
  <2>5. ASSUME NEW i \in 1..n PROVE <<i, f[i]>> \in E
    <3>1. <<At(n, a, Place(n, a, i)), At(n, b, Place(n, a, i))>> \in E
      BY <1>1, <2>1
    <3>2. At(n, a, Place(n, a, i)) = i
      BY OneAtEachPlace
    <3>. QED
      BY <2>3, <3>1, <3>2
  <2>. QED
    BY <2>2, <2>4, <2>5
<1>2. ASSUME NEW f \in [1..n -> 1..n],
             \A i \in 1..n : \E j \in 1..n : f[j] = i,
             \A i \in 1..n : <<i, f[i]>> \in E,
             NEW p \in 1..n
      PROVE  <<At(n, a, p), At(n, b, p)>> \in E
  <2>. DEFINE x == At(n, a, p)
              y == At(n, b, p)
  <2>1. \A i \in 1..n : a[i] = b[f[i]]
    BY <1>2 DEF DecidedByText
  <2>2. \A i \in 1..n : \E j \in 1..n : f[j] = i
    BY <1>2
  <2>3. a[x] = b[y]
    BY <2>1, <2>2, SameTextsSameOrder
  <2>4. x \in 1..n /\ y \in 1..n
    BY OneAtEachPlace
  <2>. HIDE DEF x, y
  <2>5. b[f[x]] = b[y] /\ f[x] \in 1..n /\ <<x, f[x]>> \in E
    BY <1>2, <2>1, <2>3, <2>4
  <2>6. <<x, y>> \in E
    BY <2>4, <2>5 DEF DecidedByText
  <2>. QED
    BY <2>6 DEF x, y
<1>. QED
  BY <1>1, <1>2

\* Replies that equalRaw takes for equal render alike.
LEMMA EqualRendersAlike ==
  ASSUME MatchEquations
  PROVE  \A a, b \in Replies : EqualRaw(a, b) => String(a) = String(b)
<1>. DEFINE Good == {a \in Replies : \A b \in Replies :
                        EqualRaw(a, b) => String(a) = String(b)}
<1>1. ASSUME NEW a \in Replies,
             a.kind \in Lists => \A i \in DOMAIN a.elems : a.elems[i] \in Good,
             a.kind = "%" =>
               \A i \in DOMAIN a.map : a.map[i][1] \in Good /\ a.map[i][2] \in Good
      PROVE  a \in Good
  <2>1. SUFFICES ASSUME NEW b \in Replies, EqualRaw(a, b) PROVE Rendering(a) = Rendering(b)
    BY DEF MatchEquations
  <2>2. /\ a.kind = b.kind
        /\ a.kind \in Scalars => a.str = b.str
        /\ a.kind = ":" => a.int = b.int
        /\ a.kind = "#" => a.bool = b.bool
        /\ a.kind \in Lists => EqualElems(a.elems, b.elems)
        /\ a.kind = "%" => EqualPairs(a.map, b.map)
    BY <2>1, ComparingByKind
  <2>3. CASE a.kind \in Lists
    <3>1. /\ DOMAIN a.elems = DOMAIN b.elems
          /\ \A i \in DOMAIN a.elems : /\ b.elems[i] \in Replies
                                       /\ EqualRaw(a.elems[i], b.elems[i])
      BY <2>2, <2>3, PartsAt DEF EqualElems
    <3>2. \A i \in DOMAIN a.elems : String(a.elems[i]) = String(b.elems[i])
      BY <1>1, <2>3, <3>1
    <3>3. [i \in DOMAIN a.elems |-> String(a.elems[i])] =
            [i \in DOMAIN b.elems |-> String(b.elems[i])]
      BY <3>1, <3>2
    <3>4. /\ Rendering(a) = Opening(a.kind)
               \o Joined([i \in DOMAIN a.elems |-> String(a.elems[i])]) \o Closing(a.kind)
          /\ Rendering(b) = Opening(b.kind)
               \o Joined([i \in DOMAIN b.elems |-> String(b.elems[i])]) \o Closing(b.kind)
      BY <2>2, <2>3, RenderingByKind
    <3>. QED
      BY <2>2, <3>3, <3>4
  <2>4. CASE a.kind = "%"
    <3>. DEFINE one(ps, i) == String(ps[i][1]) \o <<61, 62>> \o String(ps[i][2])
                all(ps) == [i \in DOMAIN ps |-> one(ps, i)]
    <3>1. /\ DOMAIN a.map = DOMAIN b.map
          /\ \A i \in DOMAIN a.map :
               /\ b.map[i][1] \in Replies /\ b.map[i][2] \in Replies
               /\ EqualRaw(a.map[i][1], b.map[i][1]) /\ EqualRaw(a.map[i][2], b.map[i][2])
      BY <2>2, <2>4, PartsAt DEF EqualPairs
    <3>2. \A i \in DOMAIN a.map : /\ String(a.map[i][1]) = String(b.map[i][1])
                                  /\ String(a.map[i][2]) = String(b.map[i][2])
      BY <1>1, <2>4, <3>1
    <3>3. \A i \in DOMAIN a.map : one(a.map, i) = one(b.map, i)
      BY <3>2
    <3>4. \A v : v.kind = "%" => Rendering(v) = <<37, 123>> \o Joined(all(v.map)) \o <<125>>
      BY DEF Rendering, Lists
    <3>. HIDE DEF one
    <3>5. all(a.map) = all(b.map)
      BY <3>1, <3>3
    <3>. HIDE DEF all
    <3>. QED
      BY <2>2, <2>4, <3>4, <3>5
  <2>5. CASE a.kind \in Scalars
    BY <2>2, <2>5 DEF Rendering, Scalars, Lists
  <2>6. CASE a.kind \in Atoms
    BY <2>2, <2>6 DEF Rendering, Atoms, Lists
  <2>7. a.kind \in Scalars \cup Lists \cup Atoms \cup {"%"}
    BY KindOfReply
  <2>. QED
    BY <2>3, <2>4, <2>5, <2>6, <2>7
<1>. HIDE DEF Good
<1>2. Replies \subseteq Good
  BY <1>1, PartInduction
<1>. QED
  BY <1>2 DEF Good

\* The reference definition, by kind, with the permutations as functions.
Onto(n) == {f \in [1..n -> 1..n] : \A i \in 1..n : \E j \in 1..n : f[j] = i}

LEMMA AlikeAtoms ==
  ASSUME MatchEquations, NEW a \in Replies, NEW b \in Replies, a.kind = b.kind
  PROVE  /\ a.kind \in Scalars => (SameReply(a, b) <=> a.str = b.str)
         /\ a.kind = ":" => (SameReply(a, b) <=> a.int = b.int)
         /\ a.kind = "#" => (SameReply(a, b) <=> a.bool = b.bool)
         /\ a.kind = "_" => SameReply(a, b)
<1>1. SameReply(a, b) <=> Alike(a, b)
  BY DEF MatchEquations
<1>2. ASSUME a.kind \in Scalars PROVE SameReply(a, b) <=> a.str = b.str
  <2>1. /\ a = [kind |-> a.kind, str |-> a.str]
        /\ b = [kind |-> b.kind, str |-> b.str]
    BY <1>2, KindOfReply
  <2>2. a = b <=> a.str = b.str
    BY <2>1
  <2>. QED
    BY <1>1, <1>2, <2>2 DEF Alike, Scalars, Lists
<1>3. ASSUME a.kind = ":" PROVE SameReply(a, b) <=> a.int = b.int
  <2>1. /\ a = [kind |-> ":", int |-> a.int]
        /\ b = [kind |-> ":", int |-> b.int]
    BY <1>3, KindOfReply
  <2>2. a = b <=> a.int = b.int
    BY <2>1
  <2>. QED
    BY <1>1, <1>3, <2>2 DEF Alike, Scalars, Lists
<1>4. ASSUME a.kind = "#" PROVE SameReply(a, b) <=> a.bool = b.bool
  <2>1. /\ a = [kind |-> "#", bool |-> a.bool]
        /\ b = [kind |-> "#", bool |-> b.bool]
    BY <1>4, KindOfReply
  <2>2. a = b <=> a.bool = b.bool
    BY <2>1
  <2>. QED
    BY <1>1, <1>4, <2>2 DEF Alike, Scalars, Lists
<1>5. ASSUME a.kind = "_" PROVE SameReply(a, b)
  BY <1>1, <1>5 DEF Alike, Scalars, Lists
<1>. QED
  BY <1>2, <1>3, <1>4, <1>5

LEMMA AlikeArrays ==
  ASSUME MatchEquations, NEW a \in Replies, NEW b \in Replies, a.kind = b.kind,
         a.kind \in {"*", ">"}
  PROVE  SameReply(a, b) <=>
           /\ Len(a.elems) = Len(b.elems)
           /\ \A i \in DOMAIN a.elems : SameReply(a.elems[i], b.elems[i])
  BY DEF MatchEquations, Alike, Scalars, Lists

LEMMA AlikeSets ==
  ASSUME MatchEquations, NEW a \in Replies, NEW b \in Replies, a.kind = "~", b.kind = "~"
  PROVE  SameReply(a, b) <=>
           /\ Len(a.elems) = Len(b.elems)
           /\ \E f \in Onto(Len(a.elems)) :
                \A i \in 1..Len(a.elems) : SameReply(a.elems[i], b.elems[f[i]])
<1>1. SameReply(a, b) <=> Alike(a, b)
  BY DEF MatchEquations
<1>2. /\ DOMAIN a.elems = 1..Len(a.elems)
      /\ DOMAIN b.elems = 1..Len(b.elems)
  BY KindOfReply, LenProperties DEF Lists
<1>3. Alike(a, b) <=> /\ Len(a.elems) = Len(b.elems)
                      /\ Permutes(a.elems, b.elems, SameReply)
  BY DEF Alike, Scalars, Lists
<1>4. ASSUME Len(a.elems) = Len(b.elems)
      PROVE  Permutes(a.elems, b.elems, SameReply) <=>
               \E f \in Onto(Len(a.elems)) :
                 \A i \in 1..Len(a.elems) : SameReply(a.elems[i], b.elems[f[i]])
  BY <1>2, <1>4 DEF Permutes, Onto
<1>. QED
  BY <1>1, <1>3, <1>4

LEMMA AlikeMaps ==
  ASSUME MatchEquations, NEW a \in Replies, NEW b \in Replies, a.kind = "%", b.kind = "%"
  PROVE  SameReply(a, b) <=>
           /\ Len(a.map) = Len(b.map)
           /\ \E f \in Onto(Len(a.map)) : \A i \in 1..Len(a.map) :
                /\ SameReply(a.map[i][1], b.map[f[i]][1])
                /\ SameReply(a.map[i][2], b.map[f[i]][2])
<1>. DEFINE samePairs(p, q) == SameReply(p[1], q[1]) /\ SameReply(p[2], q[2])
<1>1. SameReply(a, b) <=> Alike(a, b)
  BY DEF MatchEquations
<1>2. /\ DOMAIN a.map = 1..Len(a.map)
      /\ DOMAIN b.map = 1..Len(b.map)
  BY KindOfReply, LenProperties
<1>3. Alike(a, b) <=> /\ Len(a.map) = Len(b.map)
                      /\ Permutes(a.map, b.map, samePairs)
  BY DEF Alike, Scalars, Lists
<1>4. ASSUME Len(a.map) = Len(b.map)
      PROVE  Permutes(a.map, b.map, samePairs) <=>
               \E f \in Onto(Len(a.map)) : \A i \in 1..Len(a.map) :
                 /\ SameReply(a.map[i][1], b.map[f[i]][1])
                 /\ SameReply(a.map[i][2], b.map[f[i]][2])
  BY <1>2, <1>4 DEF Permutes, Onto
<1>. QED
  BY <1>1, <1>3, <1>4

\* Equal, by kind: sets and maps are compared place by place.
LEMMA EqualAtoms ==
  ASSUME MatchEquations, NEW a \in Replies, NEW b \in Replies, a.kind = b.kind
  PROVE  /\ a.kind \in Scalars => (Equal(a, b) <=> a.str = b.str)
         /\ a.kind = ":" => (Equal(a, b) <=> a.int = b.int)
         /\ a.kind = "#" => (Equal(a, b) <=> a.bool = b.bool)
         /\ a.kind = "_" => Equal(a, b)
<1>1. ASSUME a.kind \in Scalars \cup Atoms PROVE Normalize(a) = a /\ Normalize(b) = b
  BY <1>1, NormalizingByKind DEF MatchEquations
<1>2. a.kind \in Scalars \cup Atoms => (Equal(a, b) <=> EqualRaw(a, b))
  BY <1>1 DEF Equal
<1>. QED
  BY <1>2, ComparingByKind DEF Scalars, Atoms, Lists

LEMMA EqualArrays ==
  ASSUME MatchEquations, Complete, NEW a \in Replies, NEW b \in Replies,
         a.kind = b.kind, a.kind \in {"*", ">"}
  PROVE  Equal(a, b) <=>
           /\ Len(a.elems) = Len(b.elems)
           /\ \A i \in DOMAIN a.elems : Equal(a.elems[i], b.elems[i])
<1>. DEFINE x == Normalize(a)
            y == Normalize(b)
<1>1. x \in Replies /\ y \in Replies /\ x.kind = a.kind /\ y.kind = a.kind
  BY NormalizedReplies
<1>2. x.elems = Each(a.elems) /\ y.elems = Each(b.elems)
  BY NormalizingByKind DEF MatchEquations, List
<1>. HIDE DEF x, y
<1>3. EqualRaw(x, y) <=> EqualElems(Each(a.elems), Each(b.elems))
  <2>1. /\ x.kind = y.kind /\ x.kind \in Lists /\ x.kind \notin Scalars
        /\ x.kind # ":" /\ x.kind # "#" /\ x.kind # "%"
    BY <1>1 DEF Scalars, Lists
  <2>2. EqualRaw(x, y) <=> EqualElems(x.elems, y.elems)
    BY <1>1, <2>1, ComparingByKind
  <2>. QED
    BY <1>2, <2>2
<1>4. \A v \in Replies : v.kind \in {"*", ">"} =>
        /\ DOMAIN Each(v.elems) = DOMAIN v.elems /\ Len(Each(v.elems)) = Len(v.elems)
        /\ DOMAIN v.elems = 1..Len(v.elems)
        /\ \A i \in DOMAIN v.elems : Each(v.elems)[i] = Normalize(v.elems[i])
  <2>. TAKE v \in Replies
  <2>1. SUFFICES ASSUME v.kind \in {"*", ">"}
                 PROVE  /\ DOMAIN Each(v.elems) = DOMAIN v.elems
                        /\ Len(Each(v.elems)) = Len(v.elems)
                        /\ DOMAIN v.elems = 1..Len(v.elems)
                        /\ \A i \in DOMAIN v.elems : Each(v.elems)[i] = Normalize(v.elems[i])
    OBVIOUS
  <2>2. v.elems \in Seq(Replies)
    BY <2>1, KindOfReply DEF Lists
  <2>3. \A i \in DOMAIN v.elems : Normalize(v.elems[i]) \in Replies
    BY <2>2, LenProperties, ElementOfSeq, NormalizedReplies
  <2>4. Len(Each(v.elems)) = Len(v.elems)
    BY <2>1, <2>3, NormalParts DEF Lists
  <2>. QED
    BY <2>2, <2>4, LenProperties DEF Each
<1>5. EqualElems(Each(a.elems), Each(b.elems)) <=>
        /\ Len(a.elems) = Len(b.elems)
        /\ \A i \in DOMAIN a.elems : EqualRaw(Normalize(a.elems[i]), Normalize(b.elems[i]))
  BY <1>4 DEF EqualElems
<1>. QED
  BY <1>3, <1>5 DEF Equal, x, y

LEMMA NormalizedSet ==
  ASSUME MatchEquations, Complete, NEW v \in Replies, v.kind = "~"
  PROVE  LET n == Len(v.elems)
             t == TextsOf(Each(v.elems))
         IN  /\ n \in Nat /\ DOMAIN v.elems = 1..n
             /\ t \in [1..n -> Texts]
             /\ \A i \in 1..n : t[i] = String(Normalize(v.elems[i]))
             /\ Normalize(v) \in Replies /\ Normalize(v).kind = "~"
             /\ Len(Normalize(v).elems) = n
             /\ \A p \in 1..n : /\ At(n, t, p) \in 1..n
                                /\ Normalize(v).elems[p] = Normalize(v.elems[At(n, t, p)])
<1>. DEFINE n == Len(v.elems)
            m == Each(v.elems)
            t == TextsOf(m)
<1>1. v.elems \in Seq(Replies)
  BY KindOfReply DEF Lists
<1>2. n \in Nat /\ DOMAIN v.elems = 1..n
  BY <1>1, LenProperties
<1>3. \A i \in DOMAIN v.elems : Normalize(v.elems[i]) \in Replies
  BY <1>1, LenProperties, ElementOfSeq, NormalizedReplies
<1>4. m \in Seq(Replies) /\ Len(m) = n /\ t \in [1..n -> Texts]
  BY <1>3, NormalParts DEF Lists
<1>5. DOMAIN m = 1..n /\ \A i \in 1..n : m[i] = Normalize(v.elems[i])
  BY <1>2 DEF Each
<1>6. Normalize(v) = List("~", SortedBy(m, t))
  BY NormalizingByKind DEF MatchEquations
<1>7. Normalize(v) \in Replies /\ Normalize(v).kind = "~"
  BY NormalizedReplies
<1>8. \A p \in 1..n : At(n, t, p) \in 1..n
  BY <1>2, <1>4, OneAtEachPlace
<1>. HIDE DEF m, n
<1>9. \A i \in 1..n : t[i] = String(Normalize(v.elems[i]))
  BY <1>5 DEF TextsOf
<1>. HIDE DEF t
<1>10. /\ SortedBy(m, t) = [p \in 1..n |-> m[At(n, t, p)]]
       /\ Len(SortedBy(m, t)) = n
  BY <1>4, SortedMembership
<1>11. Normalize(v).elems = SortedBy(m, t)
  BY <1>6 DEF List
<1>12. \A p \in 1..n : Normalize(v).elems[p] = Normalize(v.elems[At(n, t, p)])
  BY <1>5, <1>8, <1>10, <1>11
<1>. QED
  BY <1>2, <1>4, <1>7, <1>8, <1>9, <1>10, <1>11, <1>12 DEF m, n, t

LEMMA NormalizedMap ==
  ASSUME MatchEquations, Complete, NEW v \in Replies, v.kind = "%"
  PROVE  LET n == Len(v.map)
             t == KeyTexts(EachPair(v.map))
         IN  /\ n \in Nat /\ DOMAIN v.map = 1..n
             /\ t \in [1..n -> Texts]
             /\ \A i \in 1..n : t[i] = String(Normalize(v.map[i][1]))
             /\ Normalize(v) \in Replies /\ Normalize(v).kind = "%"
             /\ Len(Normalize(v).map) = n
             /\ \A p \in 1..n :
                  /\ At(n, t, p) \in 1..n
                  /\ Normalize(v).map[p] = <<Normalize(v.map[At(n, t, p)][1]),
                                             Normalize(v.map[At(n, t, p)][2])>>
<1>. DEFINE n == Len(v.map)
            m == EachPair(v.map)
            t == KeyTexts(m)
<1>1. v.map \in Seq(Replies \X Replies)
  BY KindOfReply
<1>2. n \in Nat /\ DOMAIN v.map = 1..n
  BY <1>1, LenProperties
<1>3. \A i \in DOMAIN v.map : /\ Normalize(v.map[i][1]) \in Replies
                              /\ Normalize(v.map[i][2]) \in Replies
  BY KeysAndValues, NormalizedReplies
<1>4. m \in Seq(Replies \X Replies) /\ Len(m) = n /\ t \in [1..n -> Texts]
  BY <1>3, NormalParts DEF Lists
<1>5. /\ DOMAIN m = 1..n
      /\ \A i \in 1..n : m[i] = <<Normalize(v.map[i][1]), Normalize(v.map[i][2])>>
  BY <1>2 DEF EachPair
<1>6. Normalize(v) = Map(SortedBy(m, t))
  BY NormalizingByKind DEF MatchEquations
<1>7. Normalize(v) \in Replies /\ Normalize(v).kind = "%"
  BY NormalizedReplies
<1>8. \A p \in 1..n : At(n, t, p) \in 1..n
  BY <1>2, <1>4, OneAtEachPlace
<1>. HIDE DEF m, n
<1>9. \A i \in 1..n : t[i] = String(Normalize(v.map[i][1]))
  BY <1>5 DEF KeyTexts
<1>. HIDE DEF t
<1>10. /\ SortedBy(m, t) = [p \in 1..n |-> m[At(n, t, p)]]
       /\ Len(SortedBy(m, t)) = n
  BY <1>4, SortedMembership
<1>11. Normalize(v).map = SortedBy(m, t)
  BY <1>6 DEF Map
<1>12. \A p \in 1..n : Normalize(v).map[p] =
         <<Normalize(v.map[At(n, t, p)][1]), Normalize(v.map[At(n, t, p)][2])>>
  BY <1>5, <1>8, <1>10, <1>11
<1>. QED
  BY <1>2, <1>4, <1>7, <1>8, <1>9, <1>10, <1>11, <1>12 DEF m, n, t

LEMMA EqualSets ==
  ASSUME MatchEquations, Complete, NEW a \in Replies, NEW b \in Replies,
         a.kind = "~", b.kind = "~",
         \A i \in DOMAIN a.elems, j \in DOMAIN b.elems :
           String(Normalize(a.elems[i])) = String(Normalize(b.elems[j]))
             => Equal(a.elems[i], b.elems[j])
  PROVE  Equal(a, b) <=>
           /\ Len(a.elems) = Len(b.elems)
           /\ \E f \in Onto(Len(a.elems)) :
                \A i \in 1..Len(a.elems) : Equal(a.elems[i], b.elems[f[i]])
<1>. DEFINE x == Normalize(a)
            y == Normalize(b)
            n == Len(a.elems)
            t == TextsOf(Each(a.elems))
            u == TextsOf(Each(b.elems))
<1>1. /\ n \in Nat /\ DOMAIN a.elems = 1..n /\ t \in [1..n -> Texts]
      /\ \A i \in 1..n : t[i] = String(Normalize(a.elems[i]))
      /\ x \in Replies /\ x.kind = "~" /\ Len(x.elems) = n
      /\ \A p \in 1..n : /\ At(n, t, p) \in 1..n
                         /\ x.elems[p] = Normalize(a.elems[At(n, t, p)])
  BY NormalizedSet
<1>2. /\ DOMAIN b.elems = 1..Len(b.elems) /\ u \in [1..Len(b.elems) -> Texts]
      /\ \A i \in 1..Len(b.elems) : u[i] = String(Normalize(b.elems[i]))
      /\ y \in Replies /\ y.kind = "~" /\ Len(y.elems) = Len(b.elems)
      /\ \A p \in 1..Len(b.elems) :
           /\ At(Len(b.elems), u, p) \in 1..Len(b.elems)
           /\ y.elems[p] = Normalize(b.elems[At(Len(b.elems), u, p)])
  BY NormalizedSet
<1>. HIDE DEF x, y, n, t, u
<1>3. EqualRaw(x, y) <=> EqualElems(x.elems, y.elems)
  BY <1>1, <1>2, ComparingByKind DEF Scalars, Lists
<1>4. DOMAIN x.elems = 1..n
  <2>1. x.elems \in Seq(Replies)
    BY <1>1, KindOfReply DEF Lists
  <2>. QED
    BY <1>1, <2>1, LenProperties
<1>5. CASE Len(b.elems) # n
  BY <1>1, <1>2, <1>3, <1>5 DEF EqualElems, Equal, x, y, n
<1>6. CASE Len(b.elems) = n
  <2>. DEFINE E == {e \in (1..n) \X (1..n) : Equal(a.elems[e[1]], b.elems[e[2]])}
  <2>1. \A i, j \in 1..n : <<i, j>> \in E <=> Equal(a.elems[i], b.elems[j])
    OBVIOUS
  <2>. HIDE DEF E
  <2>2. \A i, j \in 1..n : <<i, j>> \in E => t[i] = u[j]
    <3>. TAKE i, j \in 1..n
    <3>1. Normalize(a.elems[i]) \in Replies /\ Normalize(b.elems[j]) \in Replies
      <4>1. a.elems \in Seq(Replies) /\ b.elems \in Seq(Replies)
        BY KindOfReply DEF Lists
      <4>2. a.elems[i] \in Replies /\ b.elems[j] \in Replies
        BY <1>1, <1>2, <1>6, <4>1, ElementOfSeq, LenProperties
      <4>. QED
        BY <4>2, NormalizedReplies
    <3>. QED
      BY <1>1, <1>2, <1>6, <2>1, <3>1, EqualRendersAlike DEF Equal
  <2>3. \A i, j \in 1..n : t[i] = u[j] => <<i, j>> \in E
    <3>. TAKE i, j \in 1..n
    <3>1. t[i] = String(Normalize(a.elems[i])) /\ u[j] = String(Normalize(b.elems[j]))
      BY <1>1, <1>2, <1>6
    <3>2. i \in DOMAIN a.elems /\ j \in DOMAIN b.elems
      BY <1>1, <1>2, <1>6
    <3>3. t[i] = u[j] => Equal(a.elems[i], b.elems[j])
      BY <3>1, <3>2
    <3>. QED
      BY <2>1, <3>3
  <2>4. DecidedByText(n, t, u, E)
    BY <2>2, <2>3 DEF DecidedByText
  <2>5. (\A p \in 1..n : <<At(n, t, p), At(n, u, p)>> \in E) <=>
          \E f \in [1..n -> 1..n] :
            /\ \A i \in 1..n : \E j \in 1..n : f[j] = i
            /\ \A i \in 1..n : <<i, f[i]>> \in E
    <3>1. n \in Nat /\ t \in [1..n -> Texts] /\ u \in [1..n -> Texts]
      BY <1>1, <1>2, <1>6
    <3>. QED
      BY <2>4, <3>1, SortingPermutes
  <2>6. (\E f \in [1..n -> 1..n] : /\ \A i \in 1..n : \E j \in 1..n : f[j] = i
                                   /\ \A i \in 1..n : <<i, f[i]>> \in E) <=>
          \E f \in Onto(n) : \A i \in 1..n : Equal(a.elems[i], b.elems[f[i]])
    BY <2>1 DEF Onto
  <2>7. (\A p \in 1..n : <<At(n, t, p), At(n, u, p)>> \in E) <=>
          \A p \in 1..n : EqualRaw(x.elems[p], y.elems[p])
    BY <1>1, <1>2, <1>6, <2>1 DEF Equal
  <2>8. EqualElems(x.elems, y.elems) <=> \A p \in 1..n : EqualRaw(x.elems[p], y.elems[p])
    BY <1>1, <1>2, <1>4, <1>6 DEF EqualElems
  <2>. QED
    BY <1>3, <1>6, <2>5, <2>6, <2>7, <2>8 DEF Equal, x, y, n
<1>. QED
  BY <1>5, <1>6

LEMMA EqualMaps ==
  ASSUME MatchEquations, Complete, NEW a \in Replies, NEW b \in Replies,
         a.kind = "%", b.kind = "%",
         \A i, j \in DOMAIN b.map :
           String(Normalize(b.map[i][1])) = String(Normalize(b.map[j][1])) => i = j
  PROVE  Equal(a, b) <=>
           /\ Len(a.map) = Len(b.map)
           /\ \E f \in Onto(Len(a.map)) : \A i \in 1..Len(a.map) :
                /\ Equal(a.map[i][1], b.map[f[i]][1])
                /\ Equal(a.map[i][2], b.map[f[i]][2])
<1>. DEFINE x == Normalize(a)
            y == Normalize(b)
            n == Len(a.map)
            t == KeyTexts(EachPair(a.map))
            u == KeyTexts(EachPair(b.map))
            Alike2(i, j) == /\ Equal(a.map[i][1], b.map[j][1])
                            /\ Equal(a.map[i][2], b.map[j][2])
<1>1. /\ n \in Nat /\ DOMAIN a.map = 1..n /\ t \in [1..n -> Texts]
      /\ \A i \in 1..n : t[i] = String(Normalize(a.map[i][1]))
      /\ x \in Replies /\ x.kind = "%" /\ Len(x.map) = n
      /\ \A p \in 1..n :
           /\ At(n, t, p) \in 1..n
           /\ x.map[p] = <<Normalize(a.map[At(n, t, p)][1]),
                           Normalize(a.map[At(n, t, p)][2])>>
  BY NormalizedMap
<1>2. /\ DOMAIN b.map = 1..Len(b.map) /\ u \in [1..Len(b.map) -> Texts]
      /\ \A i \in 1..Len(b.map) : u[i] = String(Normalize(b.map[i][1]))
      /\ y \in Replies /\ y.kind = "%" /\ Len(y.map) = Len(b.map)
      /\ \A p \in 1..Len(b.map) :
           /\ At(Len(b.map), u, p) \in 1..Len(b.map)
           /\ y.map[p] = <<Normalize(b.map[At(Len(b.map), u, p)][1]),
                           Normalize(b.map[At(Len(b.map), u, p)][2])>>
  BY NormalizedMap
<1>. HIDE DEF x, y, n, t, u
<1>3. EqualRaw(x, y) <=> EqualPairs(x.map, y.map)
  BY <1>1, <1>2, ComparingByKind DEF Scalars, Lists
<1>4. DOMAIN x.map = 1..n
  <2>1. x.map \in Seq(Replies \X Replies)
    BY <1>1, KindOfReply
  <2>. QED
    BY <1>1, <2>1, LenProperties
<1>5. CASE Len(b.map) # n
  BY <1>1, <1>2, <1>3, <1>5 DEF EqualPairs, Equal, x, y, n
<1>6. CASE Len(b.map) = n
  <2>. DEFINE E == {e \in (1..n) \X (1..n) : Alike2(e[1], e[2])}
  <2>1. \A i, j \in 1..n : <<i, j>> \in E <=> Alike2(i, j)
    OBVIOUS
  <2>. HIDE DEF E
  <2>2. \A i, j \in 1..n : <<i, j>> \in E => t[i] = u[j]
    <3>. TAKE i, j \in 1..n
    <3>1. Normalize(a.map[i][1]) \in Replies /\ Normalize(b.map[j][1]) \in Replies
      <4>1. a.map[i] \in Replies \X Replies /\ b.map[j] \in Replies \X Replies
        BY <1>1, <1>2, <1>6, KeysAndValues
      <4>2. a.map[i][1] \in Replies /\ b.map[j][1] \in Replies
        BY <4>1
      <4>. QED
        BY <4>2, NormalizedReplies
    <3>. QED
      BY <1>1, <1>2, <1>6, <2>1, <3>1, EqualRendersAlike DEF Equal
  <2>3. \A j, k \in 1..n : u[j] = u[k] => j = k
    BY <1>2, <1>6
  <2>4. DecidedByText(n, t, u, E)
    BY <2>2, <2>3 DEF DecidedByText
  <2>5. (\A p \in 1..n : <<At(n, t, p), At(n, u, p)>> \in E) <=>
          \E f \in [1..n -> 1..n] :
            /\ \A i \in 1..n : \E j \in 1..n : f[j] = i
            /\ \A i \in 1..n : <<i, f[i]>> \in E
    <3>1. n \in Nat /\ t \in [1..n -> Texts] /\ u \in [1..n -> Texts]
      BY <1>1, <1>2, <1>6
    <3>. QED
      BY <2>4, <3>1, SortingPermutes
  <2>6. (\E f \in [1..n -> 1..n] : /\ \A i \in 1..n : \E j \in 1..n : f[j] = i
                                   /\ \A i \in 1..n : <<i, f[i]>> \in E) <=>
          \E f \in Onto(n) : \A i \in 1..n : Alike2(i, f[i])
    <3>. HIDE DEF Alike2
    <3>. QED
      BY <2>1 DEF Onto
  <2>7. (\A p \in 1..n : <<At(n, t, p), At(n, u, p)>> \in E) <=>
          \A p \in 1..n : /\ EqualRaw(x.map[p][1], y.map[p][1])
                          /\ EqualRaw(x.map[p][2], y.map[p][2])
    <3>. SUFFICES ASSUME NEW p \in 1..n
                  PROVE  <<At(n, t, p), At(n, u, p)>> \in E <=>
                           /\ EqualRaw(x.map[p][1], y.map[p][1])
                           /\ EqualRaw(x.map[p][2], y.map[p][2])
      OBVIOUS
    <3>1. /\ x.map[p][1] = Normalize(a.map[At(n, t, p)][1])
          /\ x.map[p][2] = Normalize(a.map[At(n, t, p)][2])
          /\ y.map[p][1] = Normalize(b.map[At(n, u, p)][1])
          /\ y.map[p][2] = Normalize(b.map[At(n, u, p)][2])
      <4>1. x.map[p] = <<Normalize(a.map[At(n, t, p)][1]), Normalize(a.map[At(n, t, p)][2])>>
        BY <1>1
      <4>2. y.map[p] = <<Normalize(b.map[At(n, u, p)][1]), Normalize(b.map[At(n, u, p)][2])>>
        BY <1>2, <1>6
      <4>. QED
        BY <4>1, <4>2
    <3>2. At(n, t, p) \in 1..n /\ At(n, u, p) \in 1..n
      BY <1>1, <1>2, <1>6
    <3>. QED
      BY <2>1, <3>1, <3>2 DEF Equal
  <2>8. EqualPairs(x.map, y.map) <=>
          \A p \in 1..n : /\ EqualRaw(x.map[p][1], y.map[p][1])
                          /\ EqualRaw(x.map[p][2], y.map[p][2])
    BY <1>1, <1>2, <1>4, <1>6 DEF EqualPairs
  <2>. QED
    BY <1>3, <1>6, <2>5, <2>6, <2>7, <2>8 DEF Equal, x, y, n
<1>. QED
  BY <1>5, <1>6

\* Members of replies in C are in C, those of a map pair by pair.
LEMMA MembersApart ==
  ASSUME NEW C, C \subseteq Replies, RendersApart(C), NEW v \in C
  PROVE  /\ v.kind \in Lists =>
              DOMAIN v.elems = 1..Len(v.elems) /\ \A i \in DOMAIN v.elems : v.elems[i] \in C
         /\ v.kind = "%" =>
              /\ DOMAIN v.map = 1..Len(v.map)
              /\ \A i \in DOMAIN v.map : v.map[i][1] \in C /\ v.map[i][2] \in C
<1>1. ASSUME v.kind \in Lists
      PROVE  DOMAIN v.elems = 1..Len(v.elems) /\ \A i \in DOMAIN v.elems : v.elems[i] \in C
  <2>1. v.elems \in Seq(Replies)
    BY <1>1, KindOfReply
  <2>. QED
    BY <1>1, <2>1, LenProperties DEF RendersApart
<1>2. ASSUME v.kind = "%"
      PROVE  /\ DOMAIN v.map = 1..Len(v.map)
             /\ \A i \in DOMAIN v.map : v.map[i][1] \in C /\ v.map[i][2] \in C
  <2>1. v.map \in Seq(Replies \X Replies)
    BY <1>2, KindOfReply
  <2>. QED
    BY <1>2, <2>1, LenProperties DEF RendersApart
<1>. QED
  BY <1>1, <1>2

\* The replies of a class that the rendering tells apart are equal exactly when
\* they are the same up to the order of sets and maps.
LEMMA EqualIsSameReply ==
  ASSUME MatchEquations, Complete, NEW C, C \subseteq Replies, RendersApart(C)
  PROVE  \A a, b \in C : Equal(a, b) <=> SameReply(a, b)
<1>. DEFINE Good == {a \in Replies : a \in C =>
                       \A b \in C : Equal(a, b) <=> SameReply(a, b)}
<1>0. \A a \in Good : a \in C => \A b \in C : Equal(a, b) <=> SameReply(a, b)
  OBVIOUS
<1>1. ASSUME NEW a \in Replies,
             a.kind \in Lists => \A i \in DOMAIN a.elems : a.elems[i] \in Good,
             a.kind = "%" =>
               \A i \in DOMAIN a.map : a.map[i][1] \in Good /\ a.map[i][2] \in Good
      PROVE  a \in Good
  <2>1. SUFFICES ASSUME a \in C, NEW b \in C PROVE Equal(a, b) <=> SameReply(a, b)
    OBVIOUS
  <2>. HIDE DEF Good
  <2>2. b \in Replies
    OBVIOUS
  <2>3. CASE a.kind # b.kind
    <3>1. ~SameReply(a, b)
      BY <2>2, <2>3 DEF MatchEquations, Alike
    <3>2. /\ Normalize(a) \in Replies /\ Normalize(a).kind = a.kind
          /\ Normalize(b) \in Replies /\ Normalize(b).kind = b.kind
      BY <2>2, NormalizedReplies
    <3>3. ~Equal(a, b)
      BY <2>3, <3>2, ComparingByKind DEF Equal
    <3>. QED
      BY <3>1, <3>3
  <2>4. CASE a.kind = b.kind /\ a.kind \in Scalars \cup Atoms
    <3>1. a.kind \in Scalars \/ a.kind = ":" \/ a.kind = "#" \/ a.kind = "_"
      BY <2>4 DEF Atoms
    <3>. QED
      BY <2>2, <2>4, <3>1, EqualAtoms, AlikeAtoms
  <2>5. CASE a.kind = b.kind /\ a.kind \in {"*", ">"}
    <3>1. SameReply(a, b) <=>
            /\ Len(a.elems) = Len(b.elems)
            /\ \A i \in DOMAIN a.elems : SameReply(a.elems[i], b.elems[i])
      BY <2>2, <2>5, AlikeArrays
    <3>2. Equal(a, b) <=>
            /\ Len(a.elems) = Len(b.elems)
            /\ \A i \in DOMAIN a.elems : Equal(a.elems[i], b.elems[i])
      BY <2>2, <2>5, EqualArrays
    <3>3. ASSUME Len(a.elems) = Len(b.elems), NEW i \in DOMAIN a.elems
          PROVE  Equal(a.elems[i], b.elems[i]) <=> SameReply(a.elems[i], b.elems[i])
      <4>1. a.elems[i] \in C /\ b.elems[i] \in C
        BY <2>1, <2>5, <3>3, MembersApart DEF Lists
      <4>2. a.elems[i] \in Good
        BY <1>1, <2>5 DEF Lists
      <4>. QED
        BY <1>0, <4>1, <4>2
    <3>. QED
      BY <3>1, <3>2, <3>3
  <2>6. CASE a.kind = "~" /\ b.kind = "~"
    <3>. DEFINE n == Len(a.elems)
    <3>1. SameReply(a, b) <=>
            /\ n = Len(b.elems)
            /\ \E f \in Onto(n) : \A i \in 1..n : SameReply(a.elems[i], b.elems[f[i]])
      BY <2>2, <2>6, AlikeSets
    <3>2. Equal(a, b) <=>
            /\ n = Len(b.elems)
            /\ \E f \in Onto(n) : \A i \in 1..n : Equal(a.elems[i], b.elems[f[i]])
      <4>1. \A i \in DOMAIN a.elems, j \in DOMAIN b.elems :
              String(Normalize(a.elems[i])) = String(Normalize(b.elems[j]))
                => Equal(a.elems[i], b.elems[j])
        BY <2>1, <2>6 DEF RendersApart
      <4>. QED
        BY <2>2, <2>6, <4>1, EqualSets
    <3>3. ASSUME n = Len(b.elems), NEW i \in 1..n, NEW j \in 1..n
          PROVE  Equal(a.elems[i], b.elems[j]) <=> SameReply(a.elems[i], b.elems[j])
      <4>1. /\ a.elems[i] \in C /\ b.elems[j] \in C
            /\ i \in DOMAIN a.elems
        BY <2>1, <2>6, <3>3, MembersApart DEF Lists
      <4>2. a.elems[i] \in Good
        BY <1>1, <2>6, <4>1 DEF Lists
      <4>. QED
        BY <1>0, <4>1, <4>2
    <3>4. \A f \in Onto(n) : \A i \in 1..n : f[i] \in 1..n
      BY DEF Onto
    <3>. HIDE DEF n
    <3>. QED
      BY <3>1, <3>2, <3>3, <3>4
  <2>7. CASE a.kind = "%" /\ b.kind = "%"
    <3>. DEFINE n == Len(a.map)
    <3>1. SameReply(a, b) <=>
            /\ n = Len(b.map)
            /\ \E f \in Onto(n) : \A i \in 1..n :
                 /\ SameReply(a.map[i][1], b.map[f[i]][1])
                 /\ SameReply(a.map[i][2], b.map[f[i]][2])
      BY <2>2, <2>7, AlikeMaps
    <3>2. Equal(a, b) <=>
            /\ n = Len(b.map)
            /\ \E f \in Onto(n) : \A i \in 1..n :
                 /\ Equal(a.map[i][1], b.map[f[i]][1])
                 /\ Equal(a.map[i][2], b.map[f[i]][2])
      <4>1. \A i, j \in DOMAIN b.map :
              String(Normalize(b.map[i][1])) = String(Normalize(b.map[j][1])) => i = j
        BY <2>1, <2>7 DEF RendersApart
      <4>. QED
        BY <2>2, <2>7, <4>1, EqualMaps
    <3>3. ASSUME n = Len(b.map), NEW i \in 1..n, NEW j \in 1..n
          PROVE  /\ Equal(a.map[i][1], b.map[j][1]) <=> SameReply(a.map[i][1], b.map[j][1])
                 /\ Equal(a.map[i][2], b.map[j][2]) <=> SameReply(a.map[i][2], b.map[j][2])
      <4>1. /\ a.map[i][1] \in C /\ b.map[j][1] \in C
            /\ a.map[i][2] \in C /\ b.map[j][2] \in C
            /\ i \in DOMAIN a.map
        BY <2>1, <2>7, <3>3, MembersApart
      <4>2. a.map[i][1] \in Good /\ a.map[i][2] \in Good
        BY <1>1, <2>7, <4>1
      <4>. QED
        BY <1>0, <4>1, <4>2
    <3>4. \A f \in Onto(n) : \A i \in 1..n : f[i] \in 1..n
      BY DEF Onto
    <3>. HIDE DEF n
    <3>. QED
      BY <3>1, <3>2, <3>3, <3>4
  <2>8. a.kind \in Scalars \cup Atoms \cup {"*", ">", "~", "%"}
    BY KindOfReply DEF Lists
  <2>. QED
    BY <2>3, <2>4, <2>5, <2>6, <2>7, <2>8
<1>. HIDE DEF Good
<1>2. Replies \subseteq Good
  BY <1>1, PartInduction
<1>. QED
  BY <1>0, <1>2

-----------------------------------------------------------------------------
\* Two replies that are compared in C match exactly when they should.
DecidedIn(C) ==
  verdict # "none" /\ ComparedOf(base, tol, C) /\ ComparedOf(got, tol, C) =>
    ExactIsSameReply /\ UnorderedIsPermutation

\* The sets of two lists are the same reply when the lists are permuted.
LEMMA SameSets ==
  ASSUME MatchEquations, NEW s, NEW t,
         List("~", s) \in Replies, List("~", t) \in Replies
  PROVE  SameReply(List("~", s), List("~", t)) <=> SameElements(s, t)
<1>. DEFINE a == List("~", s)
            b == List("~", t)
<1>1. a.kind = "~" /\ b.kind = "~" /\ a.elems = s /\ b.elems = t
  BY DEF List
<1>2. SameReply(a, b) <=> Alike(a, b)
  BY DEF MatchEquations
<1>. HIDE DEF a, b
<1>3. Alike(a, b) <=> Len(s) = Len(t) /\ Permutes(s, t, SameReply)
  BY <1>1 DEF Alike, Scalars, Lists
<1>. QED
  BY <1>2, <1>3 DEF SameElements, a, b

LEMMA NoneAlike == SameElements(<<>>, <<>>)
<1>. DEFINE none == [i \in DOMAIN <<>> |-> i]
<1>1. DOMAIN <<>> = {}
  OBVIOUS
<1>2. none \in [DOMAIN <<>> -> DOMAIN <<>>]
  OBVIOUS
<1>3. Permutes(<<>>, <<>>, SameReply)
  BY <1>1, <1>2 DEF Permutes
<1>. QED
  BY <1>3 DEF SameElements

LEMMA NoElements ==
  ASSUME NEW s \in Seq(Replies)
  PROVE  /\ SameElements(s, <<>>) <=> s = <<>>
         /\ SameElements(<<>>, s) <=> s = <<>>
<1>1. Len(s) = 0 <=> s = <<>>
  BY EmptySeq
<1>2. Len(<<>>) = 0
  OBVIOUS
<1>3. /\ SameElements(s, <<>>) => s = <<>>
      /\ SameElements(<<>>, s) => s = <<>>
  BY <1>1, <1>2 DEF SameElements
<1>. QED
  BY <1>3, NoneAlike

LEMMA ApartDecides ==
  ASSUME MatchEquations, Complete, NEW C, C \subseteq Replies, RendersApart(C)
  PROVE  Judgement => DecidedIn(C)
<1>. SUFFICES ASSUME Judgement, verdict # "none", ComparedOf(base, tol, C),
                     ComparedOf(got, tol, C)
     PROVE  ExactIsSameReply /\ UnorderedIsPermutation
  BY DEF DecidedIn
<1>0. base \in Replies /\ got \in Replies /\ (Same <=> Match(base, got, tol))
  BY ValuesAssumption DEF Judgement
<1>1. ExactIsSameReply
  <2>1. ASSUME tol = "exact" PROVE Same <=> SameReply(base, got)
    <3>1. base \in C /\ got \in C
      BY <2>1 DEF ComparedOf
    <3>2. Equal(base, got) <=> SameReply(base, got)
      BY <3>1, EqualIsSameReply
    <3>. QED
      BY <1>0, <2>1, <3>2, MatchByTolerance
  <2>. QED
    BY <2>1 DEF ExactIsSameReply, Judged
<1>2. ASSUME NEW s, NEW t, List("~", s) \in C, List("~", t) \in C
      PROVE  Equal(List("~", s), List("~", t)) <=> SameElements(s, t)
  <2>1. Equal(List("~", s), List("~", t)) <=> SameReply(List("~", s), List("~", t))
    BY <1>2, EqualIsSameReply
  <2>. QED
    BY <1>2, <2>1, SameSets
<1>3. ASSUME tol = "unordered"
      PROVE  Same <=> BothKind(base, got, "*") /\ SameElements(base.elems, got.elems)
  <2>1. Same <=> BothKind(base, got, "*") /\ Equal(AsSet(base), AsSet(got))
    BY <1>0, <1>3, MatchByTolerance
  <2>2. ASSUME BothKind(base, got, "*")
        PROVE  Equal(AsSet(base), AsSet(got)) <=> SameElements(base.elems, got.elems)
    <3>1. List("~", base.elems) \in C /\ List("~", got.elems) \in C
      BY <1>3, <2>2 DEF BothKind, ComparedOf
    <3>2. AsSet(base) = List("~", base.elems) /\ AsSet(got) = List("~", got.elems)
      BY <2>2 DEF AsSet, Elems, BothKind, Lists
    <3>. QED
      BY <1>2, <3>1, <3>2
  <2>. QED
    BY <2>1, <2>2
<1>4. ASSUME tol = "scan"
      PROVE  Same <=> /\ BothKind(base, got, "*")
                      /\ Len(base.elems) = 2 /\ Len(got.elems) = 2
                      /\ SameText(base.elems[1], got.elems[1])
                      /\ SameList(base.elems[2], got.elems[2])
  <2>1. Same <=> MatchScan(base, got)
    BY <1>0, <1>4, MatchByTolerance
  <2>2. SUFFICES ASSUME BothKind(base, got, "*"),
                        Len(base.elems) = 2, Len(got.elems) = 2
        PROVE  /\ Str(base.elems[1]) = Str(got.elems[1])
                    <=> SameText(base.elems[1], got.elems[1])
               /\ Equal(AsSet(base.elems[2]), AsSet(got.elems[2]))
                    <=> SameList(base.elems[2], got.elems[2])
    BY <2>1 DEF MatchScan
  <2>3. Str(base.elems[1]) = Str(got.elems[1]) <=> SameText(base.elems[1], got.elems[1])
    BY DEF Str, SameText
  <2>. DEFINE u == base.elems[2]
              w == got.elems[2]
  <2>4. u \in Replies /\ w \in Replies
    BY <1>0, <2>2, PairOfScan DEF BothKind
  <2>5. /\ List("~", <<>>) \in C
        /\ u.kind \in Lists => List("~", u.elems) \in C
        /\ w.kind \in Lists => List("~", w.elems) \in C
    BY <1>4, <2>2 DEF ComparedOf, BothKind
  <2>. HIDE DEF u, w
  <2>6. /\ u.kind \in Lists => u.elems \in Seq(Replies)
        /\ w.kind \in Lists => w.elems \in Seq(Replies)
    BY <2>4, KindOfReply
  <2>7. List("~", Elems(u)) \in C /\ List("~", Elems(w)) \in C
    BY <2>5 DEF Elems
  <2>8. Equal(AsSet(u), AsSet(w)) <=> SameElements(Elems(u), Elems(w))
    BY <1>2, <2>7 DEF AsSet
  <2>9. SameElements(Elems(u), Elems(w)) <=> SameList(u, w)
    <3>1. CASE u.kind \in Lists /\ w.kind \in Lists
      <4>1. u.elems = <<>> /\ w.elems = <<>> => SameElements(u.elems, w.elems)
        BY <2>6, <3>1, NoElements
      <4>. QED
        BY <3>1, <4>1 DEF Elems, SameList
    <3>2. CASE u.kind \in Lists /\ w.kind \notin Lists
      BY <2>6, <3>2, NoElements DEF Elems, SameList
    <3>3. CASE u.kind \notin Lists /\ w.kind \in Lists
      BY <2>6, <3>3, NoElements DEF Elems, SameList
    <3>4. CASE u.kind \notin Lists /\ w.kind \notin Lists
      BY <3>4, NoneAlike DEF Elems, SameList
    <3>. QED
      BY <3>1, <3>2, <3>3, <3>4
  <2>. QED
    BY <2>3, <2>8, <2>9 DEF u, w
<1>5. UnorderedIsPermutation
  BY <1>3, <1>4 DEF UnorderedIsPermutation, Judged
<1>. QED
  BY <1>1, <1>5

\* Under the hypotheses every verdict is that of the two properties.
LEMMA Decided ==
  ASSUME MatchEquations, Complete, NEW C, C \subseteq Replies,
         RendersApart(C), ComparedIn(C)
  PROVE  Judgement => ExactIsSameReply /\ UnorderedIsPermutation
<1>. SUFFICES ASSUME Judgement PROVE ExactIsSameReply /\ UnorderedIsPermutation
  OBVIOUS
<1>1. ComparedOf(base, tol, C) /\ ComparedOf(got, tol, C)
  BY DEF Judgement, ComparedIn
<1>2. verdict # "none" => ExactIsSameReply /\ UnorderedIsPermutation
  BY <1>1, ApartDecides DEF DecidedIn
<1>. QED
  BY <1>2 DEF ExactIsSameReply, UnorderedIsPermutation, Judged

\* Two replies match exactly when they are the same up to the order of sets and
\* maps at every depth, for replies of any size whose sets and keys have members
\* that the rendering tells apart (value.go:108-160).
THEOREM ExactDecidesSameReply ==
  ASSUME MatchEquations, Complete, NEW C, C \subseteq Replies,
         RendersApart(C), ComparedIn(C)
  PROVE  Spec => []ExactIsSameReply
<1>1. Judgement => ExactIsSameReply
  BY Decided
<1>. QED
  BY <1>1, JudgementInv, PTL

\* Under the unordered tolerance two replies match exactly when both are arrays
\* and one has the elements of the other in some order: no error, no null, no
\* reply of another type passes.  Under the scan tolerance they match exactly when
\* both are pairs with the same text in the first place and permuted lists in the
\* second, where what is no list counts as an empty one (case.go:46-48, 60-65,
\* 254-290).
THEOREM UnorderedDecidesPermutation ==
  ASSUME MatchEquations, Complete, NEW C, C \subseteq Replies,
         RendersApart(C), ComparedIn(C)
  PROVE  Spec => []UnorderedIsPermutation
<1>1. Judgement => UnorderedIsPermutation
  BY Decided
<1>. QED
  BY <1>1, JudgementInv, PTL

-----------------------------------------------------------------------------
(***************************************************************************)
(* Members of the plain kinds are told apart by the rendering: by the      *)
(* first byte if they are of two kinds, and otherwise by what follows it.  *)
(***************************************************************************)

LEMMA CancelLeft ==
  ASSUME NEW a \in Texts, NEW s \in Texts, NEW t \in Texts, a \o s = a \o t
  PROVE  s = t
<1>1. /\ Len(a) \in Nat /\ Len(s) \in Nat /\ Len(t) \in Nat
      /\ Len(a \o s) = Len(a) + Len(s) /\ Len(a \o t) = Len(a) + Len(t)
  BY ConcatProperties DEF Texts
<1>2. Len(s) = Len(t)
  BY <1>1
<1>3. ASSUME NEW i \in 1..Len(s) PROVE s[i] = t[i]
  <2>1. (a \o s)[Len(a) + i] = s[i] /\ (a \o t)[Len(a) + i] = t[i]
    BY <1>1, <1>2 DEF Texts
  <2>. QED
    BY <2>1
<1>. QED
  BY <1>2, <1>3, SeqEqual DEF Texts

LEMMA CancelRight ==
  ASSUME NEW a \in Texts, NEW s \in Texts, NEW t \in Texts, s \o a = t \o a
  PROVE  s = t
<1>1. /\ Len(a) \in Nat /\ Len(s) \in Nat /\ Len(t) \in Nat
      /\ Len(s \o a) = Len(s) + Len(a) /\ Len(t \o a) = Len(t) + Len(a)
  BY ConcatProperties DEF Texts
<1>2. Len(s) = Len(t)
  BY <1>1
<1>3. ASSUME NEW i \in 1..Len(s) PROVE s[i] = t[i]
  <2>1. (s \o a)[i] = s[i] /\ (t \o a)[i] = t[i]
    BY <1>1, <1>2 DEF Texts
  <2>. QED
    BY <2>1
<1>. QED
  BY <1>2, <1>3, SeqEqual DEF Texts

LEMMA QuotedApart ==
  ASSUME NEW s \in Texts, NEW t \in Texts, Quoted(s) = Quoted(t)
  PROVE  s = t
<1>1. <<34>> \in Texts
  BY DEF Texts
<1>2. <<34>> \o s \in Texts /\ <<34>> \o t \in Texts
  BY <1>1, TextParts
<1>3. <<34>> \o s = <<34>> \o t
  BY <1>1, <1>2, CancelRight DEF Quoted
<1>. QED
  BY <1>1, <1>3, CancelLeft

LEMMA DigitsApart ==
  ASSUME NEW m \in Int, NEW n \in Int, Digits(m) = Digits(n)
  PROVE  m = n
<1>1. \A k \in Int : /\ k < 0 => Len(Digits(k)) = 2 /\ Digits(k)[2] = 48 - k
                     /\ ~(k < 0) => Len(Digits(k)) = 1 /\ Digits(k)[1] = 48 + k
  BY DEF Digits
<1>2. Len(Digits(m)) = Len(Digits(n)) /\ Digits(m)[1] = Digits(n)[1]
        /\ Digits(m)[2] = Digits(n)[2]
  OBVIOUS
<1>. QED
  BY <1>1, <1>2

\* The kind of a double by a name: the SMT solver does not take its literal.
Double == ","

WithoutDouble == {"+", "-", ":", "$", "#", "="}

LEMMA DoubleApart ==
  /\ Double \notin WithoutDouble
  /\ PlainKinds = WithoutDouble \cup {Double}
  /\ {"+", "-", "$", "=", Double} \subseteq Scalars
BY Zenon DEF Double, WithoutDouble, PlainKinds, Scalars

\* The byte the rendering of a plain kind starts with.
FirstByte(k) ==
  CASE k = "+" -> 43 [] k = "-" -> 45 [] k = ":" -> 58 [] k = "$" -> 36
    [] k = "#" -> 35 [] k = Double -> 44 [] k = "=" -> 61

LEMMA FirstBytes ==
  /\ FirstByte("+") = 43 /\ FirstByte("-") = 45 /\ FirstByte(":") = 58
  /\ FirstByte("$") = 36 /\ FirstByte("#") = 35 /\ FirstByte("=") = 61
  /\ FirstByte(Double) = 44
BY DoubleApart DEF FirstByte, WithoutDouble

LEMMA FirstBytesApart ==
  \A k, l \in PlainKinds : FirstByte(k) = FirstByte(l) => k = l
BY DoubleApart, FirstBytes DEF WithoutDouble

LEMMA PlainRendering ==
  ASSUME NEW v
  PROVE  /\ v.kind = "+" => Rendering(v) = <<43>> \o v.str
         /\ v.kind = "-" => Rendering(v) = <<45>> \o v.str
         /\ v.kind = Double => Rendering(v) = <<44>> \o v.str
         /\ v.kind = ":" => Rendering(v) = <<58>> \o Digits(v.int)
         /\ v.kind = "$" => Rendering(v) = <<36>> \o Quoted(v.str)
         /\ v.kind = "=" => Rendering(v) = <<61, 116, 120, 116, 58>> \o Quoted(v.str)
         /\ v.kind = "#" => Rendering(v) = <<35, IF v.bool THEN 116 ELSE 102>>
BY Zenon, RenderingByKind DEF Double

LEMMA PlainText ==
  ASSUME NEW v \in Replies, v.kind \in PlainKinds
  PROVE  /\ v.kind \in Scalars => v.str \in Texts
         /\ Rendering(v)[1] = FirstByte(v.kind)
<1>1. \A s \in Texts :
        /\ (<<43>> \o s)[1] = 43 /\ (<<45>> \o s)[1] = 45 /\ (<<44>> \o s)[1] = 44
        /\ (<<58>> \o s)[1] = 58 /\ (<<36>> \o s)[1] = 36
        /\ (<<61, 116, 120, 116, 58>> \o s)[1] = 61
  BY DEF Texts
<1>2. v.kind \in Scalars => v.str \in Texts /\ Quoted(v.str) \in Texts
  <2>1. v.kind \in Scalars => v.str \in Texts
    BY KindOfReply DEF Texts
  <2>. QED
    BY <2>1, TextParts
<1>3. CASE v.kind \in {"+", "-", "$", "=", Double}
  <2>1. v.str \in Texts /\ Quoted(v.str) \in Texts
    BY <1>2, <1>3, DoubleApart
  <2>2. CASE v.kind = "+"
    BY <1>1, <2>1, <2>2, PlainRendering, FirstBytes
  <2>3. CASE v.kind = "-"
    BY <1>1, <2>1, <2>3, PlainRendering, FirstBytes
  <2>4. CASE v.kind = "$"
    BY <1>1, <2>1, <2>4, PlainRendering, FirstBytes
  <2>5. CASE v.kind = "="
    BY <1>1, <2>1, <2>5, PlainRendering, FirstBytes
  <2>6. CASE v.kind = Double
    BY <1>1, <2>1, <2>6, PlainRendering, FirstBytes
  <2>. QED
    BY <1>3, <2>1, <2>2, <2>3, <2>4, <2>5, <2>6
<1>4. CASE v.kind = ":"
  <2>1. Digits(v.int) \in Texts
    BY <1>4, KindOfReply, TextParts
  <2>2. Rendering(v)[1] = FirstByte(v.kind)
    BY <1>1, <1>4, <2>1, PlainRendering, FirstBytes
  <2>. QED
    BY <1>2, <2>2
<1>5. CASE v.kind = "#"
  <2>1. Rendering(v)[1] = FirstByte(v.kind)
    BY <1>5, PlainRendering, FirstBytes
  <2>. QED
    BY <1>2, <2>1
<1>. QED
  BY <1>3, <1>4, <1>5, DoubleApart DEF WithoutDouble

\* Replies of the plain kinds that render alike are the same, and equal.
LEMMA PlainApart ==
  ASSUME MatchEquations, NEW v \in Replies, NEW w \in Replies,
         v.kind \in PlainKinds, w.kind \in PlainKinds,
         String(Normalize(v)) = String(Normalize(w))
  PROVE  Equal(v, w) /\ SameReply(v, w)
<1>1. Normalize(v) = v /\ Normalize(w) = w
  <2>1. PlainKinds \subseteq Scalars \cup Atoms
    BY Zenon DEF PlainKinds, Scalars, Atoms
  <2>. QED
    BY <2>1, NormalizingByKind DEF MatchEquations
<1>2. Rendering(v) = Rendering(w)
  BY <1>1 DEF MatchEquations
<1>3. v.kind = w.kind
  BY <1>2, PlainText, FirstBytesApart
<1>4. CASE v.kind \in {"+", "-", "$", "=", Double}
  <2>1. v.kind \in Scalars
    BY <1>4, DoubleApart
  <2>2. /\ v.str \in Texts /\ w.str \in Texts
        /\ Quoted(v.str) \in Texts /\ Quoted(w.str) \in Texts
    <3>1. v.str \in Texts /\ w.str \in Texts
      BY <1>3, <2>1, PlainText
    <3>. QED
      BY <3>1, TextParts
  <2>3. /\ <<43>> \in Texts /\ <<45>> \in Texts /\ <<44>> \in Texts /\ <<36>> \in Texts
        /\ <<61, 116, 120, 116, 58>> \in Texts
    BY DEF Texts
  <2>4. v.str = w.str
    <3>1. CASE v.kind = "+"
      <4>1. <<43>> \o v.str = <<43>> \o w.str
        <5>1. Rendering(v) = <<43>> \o v.str
          BY <3>1, PlainRendering
        <5>2. Rendering(w) = <<43>> \o w.str
          BY <1>3, <3>1, PlainRendering
        <5>. QED
          BY <1>2, <5>1, <5>2
      <4>. QED
        BY <2>2, <2>3, <4>1, CancelLeft
    <3>2. CASE v.kind = "-"
      <4>1. <<45>> \o v.str = <<45>> \o w.str
        <5>1. Rendering(v) = <<45>> \o v.str
          BY <3>2, PlainRendering
        <5>2. Rendering(w) = <<45>> \o w.str
          BY <1>3, <3>2, PlainRendering
        <5>. QED
          BY <1>2, <5>1, <5>2
      <4>. QED
        BY <2>2, <2>3, <4>1, CancelLeft
    <3>3. CASE v.kind = Double
      <4>1. <<44>> \o v.str = <<44>> \o w.str
        <5>1. Rendering(v) = <<44>> \o v.str
          BY <3>3, PlainRendering
        <5>2. Rendering(w) = <<44>> \o w.str
          BY <1>3, <3>3, PlainRendering
        <5>. QED
          BY <1>2, <5>1, <5>2
      <4>. QED
        BY <2>2, <2>3, <4>1, CancelLeft
    <3>4. CASE v.kind = "$"
      <4>1. <<36>> \o Quoted(v.str) = <<36>> \o Quoted(w.str)
        <5>1. Rendering(v) = <<36>> \o Quoted(v.str)
          BY <3>4, PlainRendering
        <5>2. Rendering(w) = <<36>> \o Quoted(w.str)
          BY <1>3, <3>4, PlainRendering
        <5>. QED
          BY <1>2, <5>1, <5>2
      <4>. QED
        BY <2>2, <2>3, <4>1, CancelLeft, QuotedApart
    <3>5. CASE v.kind = "="
      <4>1. <<61, 116, 120, 116, 58>> \o Quoted(v.str) =
              <<61, 116, 120, 116, 58>> \o Quoted(w.str)
        <5>1. Rendering(v) = <<61, 116, 120, 116, 58>> \o Quoted(v.str)
          BY <3>5, PlainRendering
        <5>2. Rendering(w) = <<61, 116, 120, 116, 58>> \o Quoted(w.str)
          BY <1>3, <3>5, PlainRendering
        <5>. QED
          BY <1>2, <5>1, <5>2
      <4>2. Quoted(v.str) = Quoted(w.str)
        BY <2>2, <2>3, <4>1, CancelLeft
      <4>. QED
        BY <2>2, <4>2, QuotedApart
    <3>. QED
      BY <1>4, <3>1, <3>2, <3>3, <3>4, <3>5
  <2>. QED
    BY <1>3, <2>1, <2>4, EqualAtoms, AlikeAtoms
<1>5. CASE v.kind = ":"
  <2>1. v.int \in Int /\ w.int \in Int
    BY <1>3, <1>5, KindOfReply
  <2>2. Digits(v.int) \in Texts /\ Digits(w.int) \in Texts /\ <<58>> \in Texts
    BY <2>1, TextParts DEF Texts
  <2>3. <<58>> \o Digits(v.int) = <<58>> \o Digits(w.int)
    <3>1. Rendering(v) = <<58>> \o Digits(v.int)
      BY <1>5, PlainRendering
    <3>2. Rendering(w) = <<58>> \o Digits(w.int)
      BY <1>3, <1>5, PlainRendering
    <3>. QED
      BY <1>2, <3>1, <3>2
  <2>4. v.int = w.int
    BY <2>1, <2>2, <2>3, CancelLeft, DigitsApart
  <2>. QED
    BY <1>3, <1>5, <2>4, EqualAtoms, AlikeAtoms
<1>6. CASE v.kind = "#"
  <2>1. v.bool \in BOOLEAN /\ w.bool \in BOOLEAN
    BY <1>3, <1>6, KindOfReply
  <2>2. <<35, IF v.bool THEN 116 ELSE 102>> = <<35, IF w.bool THEN 116 ELSE 102>>
    <3>1. Rendering(v) = <<35, IF v.bool THEN 116 ELSE 102>>
      BY <1>6, PlainRendering
    <3>2. Rendering(w) = <<35, IF w.bool THEN 116 ELSE 102>>
      BY <1>3, <1>6, PlainRendering
    <3>. QED
      BY <1>2, <3>1, <3>2
  <2>3. v.bool = w.bool
    BY <2>1, <2>2
  <2>. QED
    BY <1>3, <1>6, <2>3, EqualAtoms, AlikeAtoms
<1>. QED
  BY <1>4, <1>5, <1>6, DoubleApart DEF WithoutDouble

\* What RendersApart asks for holds of every class with plain members.
LEMMA PlainRendersApart ==
  ASSUME MatchEquations, NEW C, C \subseteq Replies, PlainMembers(C)
  PROVE  RendersApart(C)
<1>. SUFFICES ASSUME NEW v \in C
     PROVE  /\ v.kind \in Lists => \A i \in DOMAIN v.elems : v.elems[i] \in C
            /\ v.kind = "%" =>
                 /\ \A i \in DOMAIN v.map : v.map[i][1] \in C /\ v.map[i][2] \in C
                 /\ \A i, j \in DOMAIN v.map :
                      String(Normalize(v.map[i][1])) = String(Normalize(v.map[j][1])) => i = j
            /\ v.kind = "~" =>
                 \A w \in C : w.kind = "~" =>
                   \A i \in DOMAIN v.elems, j \in DOMAIN w.elems :
                     String(Normalize(v.elems[i])) = String(Normalize(w.elems[j]))
                       => Equal(v.elems[i], w.elems[j])
  BY DEF RendersApart
<1>1. v.kind \in Lists => \A i \in DOMAIN v.elems : v.elems[i] \in C
  BY DEF PlainMembers
<1>2. v.kind = "%" =>
        \A i \in DOMAIN v.map :
          /\ v.map[i][1] \in C /\ v.map[i][2] \in C
          /\ v.map[i][1].kind \in PlainKinds
          /\ \A j \in DOMAIN v.map : SameReply(v.map[i][1], v.map[j][1]) => i = j
  BY DEF PlainMembers
<1>3. ASSUME v.kind = "%", NEW i \in DOMAIN v.map, NEW j \in DOMAIN v.map,
             String(Normalize(v.map[i][1])) = String(Normalize(v.map[j][1]))
      PROVE  i = j
  <2>. DEFINE k == v.map[i][1]
              l == v.map[j][1]
  <2>1. k \in Replies /\ l \in Replies /\ k.kind \in PlainKinds /\ l.kind \in PlainKinds
    BY <1>2, <1>3
  <2>2. String(Normalize(k)) = String(Normalize(l))
    BY <1>3
  <2>3. SameReply(k, l) => i = j
    BY <1>2, <1>3
  <2>. HIDE DEF k, l
  <2>. QED
    BY <2>1, <2>2, <2>3, PlainApart
<1>4. ASSUME v.kind = "~", NEW w \in C, w.kind = "~",
             NEW i \in DOMAIN v.elems, NEW j \in DOMAIN w.elems,
             String(Normalize(v.elems[i])) = String(Normalize(w.elems[j]))
      PROVE  Equal(v.elems[i], w.elems[j])
  <2>. DEFINE k == v.elems[i]
              l == w.elems[j]
  <2>1. k \in Replies /\ l \in Replies /\ k.kind \in PlainKinds /\ l.kind \in PlainKinds
    BY <1>4 DEF PlainMembers, Lists
  <2>2. String(Normalize(k)) = String(Normalize(l))
    BY <1>4
  <2>. HIDE DEF k, l
  <2>3. Equal(k, l)
    BY <2>1, <2>2, PlainApart
  <2>. QED
    BY <2>3 DEF k, l
<1>. QED
  BY <1>1, <1>2, <1>3, <1>4

\* With plain members nothing need be asked of the rendering: replies match
\* exactly when they are the same up to the order of sets and maps, under the
\* unordered tolerance exactly when they are arrays of permuted elements, and
\* under the scan tolerance exactly when they are pairs of the same cursor and
\* permuted lists (value.go:108-160, case.go:46-48, 60-65).
THEOREM PlainRepliesDecided ==
  ASSUME MatchEquations, Complete, NEW C, C \subseteq Replies, PlainMembers(C)
  PROVE  Spec => []DecidedIn(C)
<1>1. RendersApart(C)
  BY PlainRendersApart
<1>2. Judgement => DecidedIn(C)
  BY <1>1, ApartDecides
<1>. QED
  BY <1>2, JudgementInv, PTL
=============================================================================
