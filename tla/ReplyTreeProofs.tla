--------------------------- MODULE ReplyTreeProofs ---------------------------
(***************************************************************************)
(* Induction over replies, which are trees of any depth.                   *)
(***************************************************************************)
EXTENDS ReplyTree, SequenceTheorems, WellFoundedInduction, TLAPS

-----------------------------------------------------------------------------
\* Induction, without an operator for the induction hypothesis.

LEMMA LeastNumber ==
  ASSUME NEW T \in SUBSET Nat, T # {}
  PROVE  \E n \in T : \A m \in T : n <= m
<1>. DEFINE R == OpToRel(<, Nat)
<1>1. IsWellFoundedOn(R, Nat)
  BY NatLessThanWellFounded
<1>2. \A m, n \in Nat : m < n => <<m, n>> \in R
  BY DEF OpToRel
<1>. HIDE DEF R
<1>3. PICK n \in T : \A m \in T : ~(<<m, n>> \in R)
  BY <1>1, WFMin
<1>4. \A m \in T : ~(m < n)
  BY <1>2, <1>3
<1>. QED
  BY <1>4

\* A set that has 0 and, with a number, the next one has them all.
LEMMA CountUp ==
  ASSUME NEW T, 0 \in T, \A n \in Nat : n \in T => n + 1 \in T
  PROVE  Nat \subseteq T
<1>1. SUFFICES ASSUME Nat \ T # {} PROVE FALSE
  OBVIOUS
<1>2. PICK n \in Nat \ T : \A m \in Nat \ T : n <= m
  BY <1>1, LeastNumber
<1>3. n # 0 /\ n - 1 \in Nat /\ ~(n <= n - 1)
  OBVIOUS
<1>4. n - 1 \in T
  BY <1>2, <1>3
<1>5. (n - 1) + 1 \in T
  BY <1>3, <1>4
<1>. QED
  BY <1>2, <1>5

-----------------------------------------------------------------------------
\* The replies as trees.

LEMMA KindOfReply ==
  ASSUME NEW v \in Replies
  PROVE  /\ v.kind \in Scalars => v \in [kind : Scalars, str : Seq(Nat)]
         /\ v.kind = ":" => v \in [kind : {":"}, int : Int]
         /\ v.kind = "#" => v \in [kind : {"#"}, bool : BOOLEAN]
         /\ v.kind = "_" => v \in [kind : {"_"}, nullFrom : NullKinds]
         /\ v.kind \in Lists => v \in [kind : Lists, elems : Seq(Replies)]
         /\ v.kind = "%" => v \in [kind : {"%"}, map : Seq(Replies \X Replies)]
         /\ v.kind \in Scalars \cup Lists \cup Atoms \cup {"%"}
  BY RepliesAssumption DEF ReplyOver, Scalars, Lists, Atoms

\* The place of a member of a map among its keys and values.
LEMMA PairIndex ==
  ASSUME NEW n \in Nat, NEW i \in 1..(2 * n)
  PROVE  /\ (i + 1) \div 2 \in 1..n
         /\ 2 - (i % 2) \in 1..2
  OBVIOUS

LEMMA MapMembers ==
  ASSUME NEW S, NEW ps \in Seq(S \X S)
  PROVE  [i \in 1..(2 * Len(ps)) |-> ps[(i + 1) \div 2][2 - (i % 2)]] \in Seq(S)
<1>1. \A i \in 1..(2 * Len(ps)) : ps[(i + 1) \div 2][2 - (i % 2)] \in S
  <2>. TAKE i \in 1..(2 * Len(ps))
  <2>1. (i + 1) \div 2 \in 1..Len(ps) /\ 2 - (i % 2) \in 1..2
    BY PairIndex
  <2>2. ps[(i + 1) \div 2] \in S \X S
    BY <2>1
  <2>. DEFINE p == ps[(i + 1) \div 2]
  <2>3. p \in S \X S
    BY <2>2
  <2>. HIDE DEF p
  <2>4. p[1] \in S /\ p[2] \in S
    BY <2>3
  <2>. QED
    BY <2>1, <2>4 DEF p
<1>2. 2 * Len(ps) \in Nat
  OBVIOUS
<1>. QED
  BY <1>1, <1>2

LEMMA MembersAreReplies ==
  ASSUME NEW v \in Replies
  PROVE  /\ Members(v) \in Seq(Replies)
         /\ v.kind = "%" => Len(Members(v)) = 2 * Len(v.map)
<1>1. CASE v.kind \in Lists
  BY <1>1, KindOfReply DEF Members, Lists
<1>2. CASE v.kind = "%"
  <2>1. v.map \in Seq(Replies \X Replies)
    BY <1>2, KindOfReply
  <2>2. Members(v) =
          [i \in 1..(2 * Len(v.map)) |-> v.map[(i + 1) \div 2][2 - (i % 2)]]
    BY <1>2 DEF Members, Lists
  <2>3. Members(v) \in Seq(Replies)
    BY <2>1, <2>2, MapMembers
  <2>4. 2 * Len(v.map) \in Nat
    BY <2>1
  <2>5. DOMAIN Members(v) = 1..(2 * Len(v.map))
    BY <2>2
  <2>. QED
    BY <2>3, <2>4, <2>5, LenProperties
<1>3. CASE v.kind \notin Lists \cup {"%"}
  BY <1>3 DEF Members
<1>. QED
  BY <1>1, <1>2, <1>3

\* What holds of a reply whenever it holds of its members holds of every reply.
LEMMA DepthInduction ==
  ASSUME NEW Good,
         \A v \in Replies :
           (\A i \in DOMAIN Members(v) : Members(v)[i] \in Good) => v \in Good
  PROVE  Replies \subseteq Good
<1>1. SUFFICES ASSUME Replies \ Good # {} PROVE FALSE
  OBVIOUS
<1>. DEFINE D == {Depth(v) : v \in Replies \ Good}
<1>2. D \in SUBSET Nat /\ D # {}
  BY <1>1, RepliesAssumption
<1>3. PICK n \in D : \A m \in D : n <= m
  BY <1>2, LeastNumber
<1>4. PICK v \in Replies \ Good : Depth(v) = n
  BY <1>3
<1>5. \A i \in DOMAIN Members(v) : Members(v)[i] \in Good
  <2>. TAKE i \in DOMAIN Members(v)
  <2>1. Members(v)[i] \in Replies
    BY MembersAreReplies, ElementOfSeq, LenProperties
  <2>2. Depth(Members(v)[i]) < n /\ Depth(Members(v)[i]) \in Nat /\ n \in Nat
    BY <1>4, <2>1, RepliesAssumption
  <2>. HIDE DEF D
  <2>3. Depth(Members(v)[i]) \notin D
    BY <1>3, <2>2
  <2>. QED
    BY <2>1, <2>3 DEF D
<1>. QED
  BY <1>4, <1>5

LEMMA PairPlaces ==
  ASSUME NEW n \in Nat, NEW i \in 1..n
  PROVE  /\ 2 * i - 1 \in 1..(2 * n) /\ 2 * i \in 1..(2 * n)
         /\ ((2 * i - 1) + 1) \div 2 = i /\ 2 - ((2 * i - 1) % 2) = 1
         /\ (2 * i + 1) \div 2 = i /\ 2 - ((2 * i) % 2) = 2
  OBVIOUS

\* The keys and values of a map among its members.
LEMMA KeysAndValues ==
  ASSUME NEW v \in Replies, v.kind = "%", NEW i \in DOMAIN v.map
  PROVE  /\ v.map[i] \in Replies \X Replies
         /\ 2 * i - 1 \in DOMAIN Members(v) /\ Members(v)[2 * i - 1] = v.map[i][1]
         /\ 2 * i \in DOMAIN Members(v) /\ Members(v)[2 * i] = v.map[i][2]
<1>. DEFINE n == Len(v.map)
<1>1. v.map \in Seq(Replies \X Replies)
  BY KindOfReply
<1>2. n \in Nat /\ i \in 1..n /\ v.map[i] \in Replies \X Replies
  BY <1>1, LenProperties, ElementOfSeq
<1>3. Members(v) = [k \in 1..(2 * n) |-> v.map[(k + 1) \div 2][2 - (k % 2)]]
  BY DEF Members, Lists
<1>. HIDE DEF n
<1>4. /\ 2 * i - 1 \in 1..(2 * n) /\ 2 * i \in 1..(2 * n)
      /\ ((2 * i - 1) + 1) \div 2 = i /\ 2 - ((2 * i - 1) % 2) = 1
      /\ (2 * i + 1) \div 2 = i /\ 2 - ((2 * i) % 2) = 2
  BY <1>2, PairPlaces
<1>. QED
  BY <1>2, <1>3, <1>4

\* The same by the parts of a reply.
LEMMA PartInduction ==
  ASSUME NEW Good,
         \A v \in Replies :
           /\ v.kind \in Lists => \A i \in DOMAIN v.elems : v.elems[i] \in Good
           /\ v.kind = "%" =>
                \A i \in DOMAIN v.map : v.map[i][1] \in Good /\ v.map[i][2] \in Good
           => v \in Good
  PROVE  Replies \subseteq Good
<1>1. ASSUME NEW v \in Replies,
             \A i \in DOMAIN Members(v) : Members(v)[i] \in Good
      PROVE  v \in Good
  <2>1. v.kind \in Lists => \A i \in DOMAIN v.elems : v.elems[i] \in Good
    BY <1>1 DEF Members
  <2>2. ASSUME v.kind = "%", NEW i \in DOMAIN v.map
        PROVE  v.map[i][1] \in Good /\ v.map[i][2] \in Good
    BY <1>1, <2>2, KeysAndValues
  <2>. QED
    BY <2>1, <2>2
<1>. QED
  BY <1>1, DepthInduction
=============================================================================
