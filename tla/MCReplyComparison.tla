-------------------------- MODULE MCReplyComparison --------------------------
(***************************************************************************)
(* Finite universes of replies for ReplyComparison.                        *)
(***************************************************************************)
EXTENDS ReplyComparison

A == <<97>>
B == <<98>>
AB == <<97, 32, 98>>
AC == <<97, 32, 99>>

Bulk(t) == Text("$", t)

SeqsUpTo(S, n) == UNION {[1..m -> S] : m \in 0..n}

\* Scalars that look alike in different types.
MCScalars ==
  {Text(k, A) : k \in Scalars} \cup
  {Bulk(<<>>), Bulk(B), Text("+", B), Integer(1), Integer(-1), Bool(TRUE),
   Bool(FALSE), Null("$"), Null("*")}

MCMembers == {Bulk(A), Bulk(B), Text("+", A), Integer(1)}

\* The last one is sorted between the two orders of the other.
MCInnerSets ==
  {List("~", <<Bulk(A), Bulk(B)>>), List("~", <<Bulk(B), Bulk(A)>>),
   List("~", <<Bulk(A)>>)}

MCMaps ==
  {Map(<<>>)} \cup
  {Map(<< <<Bulk(A), v>>, <<Bulk(B), w>> >>) : v, w \in {Integer(1), Bulk(A)}} \cup
  {Map(<< <<Bulk(B), w>>, <<Bulk(A), v>> >>) : v, w \in {Integer(1), Bulk(A)}} \cup
  {Map(<< <<Bulk(B), w>>, <<Integer(1), v>> >>) : v, w \in MCInnerSets}

\* Replies without errors inside a set: members that render alike are equal.
MCCompared ==
  MCScalars \cup MCMaps \cup
  {List(k, s) : k \in Lists, s \in SeqsUpTo(MCMembers, 2)} \cup
  {List("~", s) : s \in SeqsUpTo(MCInnerSets, 3)} \cup
  {List("~", s) : s \in SeqsUpTo({Map(<<>>), Bulk(A)}, 2)}

MCIntegers == {Integer(n) : n \in Ints}

MCErrors == {Text(k, t) : k \in {"-", "!"}, t \in {A, B, AB, AC}}

\* Two element replies of [cursor, elements], and pairs that are none.
MCScans ==
  {List("*", <<c, e>>) :
     c \in {Bulk(A), Bulk(B)},
     e \in {List("*", s) : s \in SeqsUpTo({Bulk(A), Bulk(B)}, 2)}
             \cup {List("~", <<Bulk(B), Bulk(A)>>), Bulk(A), Text("-", A), Null("*")}}
  \cup {List("*", <<c, List("*", <<>>)>>) : c \in {Text("+", A), Bulk(<<>>), Integer(1)}}

MCTolerated ==
  MCErrors \cup MCScans \cup {Bulk(A), Bulk(B), Null("$"), Null("*")}
    \cup {List("*", s) : s \in SeqsUpTo({Bulk(A), Bulk(B)}, 3)}

MCValues ==
  [t \in AllTolerances |->
     CASE t = "exact" -> MCCompared
       [] t = "intApprox" -> MCIntegers \cup {Bulk(A), Null("$")}
       [] OTHER -> MCTolerated \cup {Integer(0)}]

MCMembersOf(S) == UNION {{Members(v)[i] : i \in DOMAIN Members(v)} : v \in S}

\* What is compared, with its members and theirs.
MCReplies ==
  LET all == UNION {MCValues[t] : t \in AllTolerances}
  IN  all \cup MCMembersOf(all) \cup MCMembersOf(MCMembersOf(all))

MCDepth(v) ==
  CASE Members(v) = <<>> -> 0
    [] \A w \in MCMembersOf({v}) : Members(w) = <<>> -> 1
    [] OTHER -> 2

\* What is compared with Equal: the rendering tells apart what its sets and its
\* keys are made of.
MCApart ==
  MCCompared
    \cup {List("~", v.elems) : v \in {w \in MCTolerated : w.kind = "*"}}
    \cup {List("~", v.elems[2].elems) : v \in {w \in MCScans : w.elems[2].kind \in Lists}}

ASSUME ApartAssumption == RendersApart(MCApart) /\ ComparedIn(MCApart)

\* Much of it has plain members.
MCPlain ==
  MCScalars \cup MCMaps \cup MCInnerSets
    \cup {List(k, s) : k \in Lists, s \in SeqsUpTo(MCMembers, 2)}
    \cup {List("~", s) : s \in SeqsUpTo({Bulk(A), Bulk(B)}, 3)}

ASSUME PlainAssumption == PlainMembers(MCPlain)

\* The recursive calls.  TLC's coverage would follow them from one to the next
\* for ever; it does not look into a LET.
MCString(v)       == LET text == Rendering(v) IN text
MCNormalize(v)    == LET normal == Normalizing(v) IN normal
MCEqualRaw(a, b)  == LET equal == Comparing(a, b) IN equal
MCSameReply(a, b) == LET same == Alike(a, b) IN same
=============================================================================
