------------------------------ MODULE CaseSuite ------------------------------
(***************************************************************************)
(* What the tables of differential/ are worth: every case, run against a   *)
(* baseline and one other target, each a server of CommandServer on a      *)
(* flushed database.  The baseline is right.  The other target is right,   *)
(* or has one defect: a single wrong reply, or a generic key operation     *)
(* that corrupts the large collection it carries.  A case should report    *)
(* the defect, and nothing else.                                           *)
(*                                                                         *)
(* A right server gives any reply that Replies allows, so a tolerance that *)
(* is missing or on the wrong step reports a server that is right, and one *)
(* that is too wide hides a wrong reply.  Both happen; where, is listed in *)
(* ExactWhereRightServersDiffer and in Unseen.                             *)
(***************************************************************************)
EXTENDS BaseCases, SurfaceCases, CollectionCases

CONSTANT
  Pairs  \* which baseline is compared with which target, [base, other]

AllCases ==
  CasesOfBaseTable \o CasesOfSurfaceTable \o CasesOfEdgeTable
    \o CasesOfSetZsetTable \o CasesOfKeyopTable \o CasesOfScanTable

ASSUME SuiteAssumption ==
  Pairs \subseteq [base : {"redis", "valkey", "aki"}, other : {"redis", "valkey", "aki"}]

-----------------------------------------------------------------------------
(***************************************************************************)
(* The replies that stand for an answer.  Texts are one byte; the elements *)
(* of a collection come in two orders, because an order that shows is seen *)
(* with any two.                                                           *)
(***************************************************************************)
A == <<65>>
B == <<66>>
Bulk(t) == Text("$", t)
Array(s) == List("*", s)
Status == Text("+", A)
Error(word) == Text("-", word \o <<32, 65>>)

\* The element i of a collection and what it is paired with.
Member(i) == Bulk(<<96 + i>>)
Partner(i) == Bulk(<<48 + i>>)

Members(n) == [i \in 1..n |-> Member(i)]
PairsOf(n) == [i \in 1..n |-> <<Member(i), Partner(i)>>]
Orders(s) == {s, Reverse(s)}

Shape3(proto, kind) == IF proto = 3 THEN kind ELSE "*"

Cursor0 == Bulk(<<48>>)
Scanned(elems) == Array(<<Cursor0, Array(elems)>>)

Left == 6  \* time to live, in units of the reply

\* The replies of a right server, who.
Replies(answer, who, proto) ==
  LET n == Cardinality(answer.of)
      lists == Orders(Members(n))
      pairs == Orders(PairsOf(n))
  IN  CASE answer.kind = "status"  -> {Status}
        [] answer.kind = "bulk"    -> {Bulk(A)}
        [] answer.kind = "int"     -> {Integer(3)}
        [] answer.kind = "nil"     -> {Null("$")}
        [] answer.kind = "array"   -> {Array(Members(2))}
        [] answer.kind = "empty"   -> {Array(<<>>)}
        [] answer.kind = "error"   -> {Error(A)}
        [] answer.kind = "unknown command" -> {Error(A), Text("-", A)}
        [] answer.kind = "version" -> {Integer(3), Bulk(A), Array(Members(2))}
        [] answer.kind = "name"    -> {Bulk(A), Bulk(B)}
        [] answer.kind = "none or error" -> {Null("$"), Error(A)}
        [] answer.kind = "counter" -> {Integer(0), Integer(1)}
        [] answer.kind = "pinned"  -> {IF who = "valkey" THEN Bulk(B) ELSE Bulk(A)}
        [] answer.kind = "countdown" -> {Integer(Left), Integer(Left - 1)}
        [] answer.kind = "no deadline" -> {Integer(-1)}
        [] answer.kind = "no such" -> {Integer(-2)}
        [] answer.kind = "[countdown]" ->
             {Array(<<Integer(Left)>>), Array(<<Integer(Left - 1)>>)}
        [] answer.kind = "[no deadline]" -> {Array(<<Integer(-1)>>)}
        [] answer.kind = "[no such]" -> {Array(<<Integer(-2)>>)}
        [] answer.kind = "members" -> {Array(s) : s \in lists}
        [] answer.kind = "set"     -> {List(Shape3(proto, "~"), s) : s \in lists}
        [] answer.kind = "map"     ->
             {IF proto = 3 THEN Map(ps) ELSE Array(FlattenSeq(ps)) : ps \in pairs}
        [] answer.kind = "pairs"   -> {Array(FlattenSeq(ps)) : ps \in pairs}
        [] answer.kind = "scan"    -> {Scanned(s) : s \in lists}
        [] answer.kind = "scan of pairs" -> {Scanned(FlattenSeq(ps)) : ps \in pairs}
        [] answer.kind = "one of"  -> {Member(i) : i \in 1..n}

-----------------------------------------------------------------------------
\* A list of elements gone wrong: one is missing, one is not of the collection.
Spoilt(s) ==
  IF s = <<>> THEN {<<Bulk(B)>>} ELSE {Front(s), Front(s) \o <<Bulk(B)>>}

\* Every field with the value of another one.
Exchanged(n) == [i \in 1..n |-> <<Member(i), Partner(n + 1 - i)>>]

\* A wrong reply that is of the right kind.
Changed(answer, proto) ==
  LET n == Cardinality(answer.of)
      lists == Spoilt(Members(n))
      pairs == Spoilt(FlattenSeq(PairsOf(n)))
  IN  CASE answer.kind = "status"  -> {Text("+", B)}
        [] answer.kind = "bulk"    -> {Bulk(B), Bulk(<<>>)}
        [] answer.kind = "int"     -> {Integer(2), Integer(4), Integer(-3)}
        [] answer.kind = "nil"     -> {Bulk(<<>>), Array(<<>>)}
        [] answer.kind = "array"   ->
             {Array(s) : s \in {Reverse(Members(2))} \cup Spoilt(Members(2))}
        [] answer.kind = "empty"   -> {Null("*"), Array(Members(1))}
        [] answer.kind \in {"error", "unknown command"} -> {Error(B), Status}
        [] answer.kind = "counter" -> {Integer(Left)}
        [] answer.kind = "pinned"  -> {Bulk(B)}
        [] answer.kind = "countdown" ->
             {Integer(i) : i \in {-2, -1, Left - 3, Left + 2}}
        [] answer.kind = "no deadline" -> {Integer(-2), Integer(Left)}
        [] answer.kind = "no such" -> {Integer(-1), Integer(Left)}
        [] answer.kind \in {"[countdown]", "[no deadline]"} -> {Array(<<Integer(-2)>>)}
        [] answer.kind = "[no such]" -> {Array(<<Integer(-1)>>)}
        [] answer.kind = "members" -> {Array(s) : s \in lists}
        [] answer.kind = "set"     -> {List(Shape3(proto, "~"), s) : s \in lists}
        [] answer.kind = "map"     ->
             IF proto = 3
             THEN {Map(Exchanged(n)), Map(Front(PairsOf(n)))}
             ELSE {Array(s) : s \in pairs}
        [] answer.kind = "pairs"   -> {Array(s) : s \in pairs}
        [] answer.kind = "scan"    ->
             {Scanned(s) : s \in lists} \cup {Array(<<Bulk(B), Array(Members(n))>>)}
        [] answer.kind = "scan of pairs" ->
             {Scanned(s) : s \in pairs}
               \cup {Array(<<Bulk(B), Array(FlattenSeq(PairsOf(n)))>>)}
        [] OTHER -> {}

\* Replies that belong nowhere.
Foreign == {Error(A), Status, Integer(9), Bulk(<<122>>), Null("*"), Array(<<>>)}

\* The wrong replies that pass for right ones.  They are what is given up where
\* right servers differ: of a random member and of a name of the implementation
\* what it is, of a flat list of fields and values which belongs to which, of a
\* number that runs down one unit; of a scan the type of the cursor.  A null of
\* another type is equal everywhere.  And where any reply is accepted an error
\* is too, although case.go:56 says "any two non-error replies" and the cases
\* "verify both respond" (cases.go:788, 840, 907).
Unseen(answer, proto) ==
  LET n == Cardinality(answer.of)
      exchanged == FlattenSeq(Exchanged(n))
  IN  CASE answer.kind = "version" -> {Error(A)}
        [] answer.kind = "none or error" -> Foreign
        [] answer.kind = "nil" -> {Null("*")}
        [] answer.kind \in {"name", "one of"} -> {Bulk(<<>>), Bulk(<<122>>)}
        [] answer.kind = "counter" -> {Integer(-1), Integer(2)}
        [] answer.kind = "countdown" -> {Integer(Left - 2), Integer(Left + 1)}
        [] answer.kind = "pairs" \/ (answer.kind = "map" /\ proto = 2) ->
             {Array(exchanged)}
        [] answer.kind = "scan" ->
             {Array(<<Text("+", <<48>>), Array(Members(n))>>)}
        [] answer.kind = "scan of pairs" -> {Scanned(exchanged)}
        [] OTHER -> {}

\* Everything that is wrong: a change, seen or not, a reply of another type, an
\* error where none is due.  Where any reply may be right only the error is wrong.
Wrong(answer, who, proto) ==
  IF answer.kind = "version" THEN {Error(A)}
  ELSE (Changed(answer, proto) \cup Unseen(answer, proto) \cup Foreign)
         \ Replies(answer, who, proto)

-----------------------------------------------------------------------------
VARIABLES
  case,    \* the case, an index of AllCases
  pair,    \* the baseline and the other target
  defect,  \* of the other target: "none", "reply", or how it corrupts a value
  shown,   \* whether the defect has had an effect
  unseen,  \* history: the wrong reply was one that passes for a right one
  at,      \* the index of the next step
  base,    \* the baseline server
  other,   \* the other server
  failed   \* whether a step has diverged

vars == <<case, pair, defect, shown, unseen, at, base, other, failed>>

Corruptions == {"miscounted", "scrambled"}

This == AllCases[case]

Init ==
  /\ case \in DOMAIN AllCases
  /\ pair \in Pairs
  /\ defect \in {"none", "reply"} \cup Corruptions
  /\ defect # "none" => pair.other = "aki"
  /\ shown = FALSE /\ unseen = FALSE
  /\ at = 0
  /\ base \in {Server(This.proto, cached) : cached \in BOOLEAN}
  /\ other \in {Server(This.proto, cached) : cached \in BOOLEAN}
  /\ failed = FALSE

Finished == at = Len(This.steps)
Step == This.steps[at + 1]

\* Mutant: every second step is skipped.
NextButOne(i) == i + 2

Following(i) == i + 1

\* The other target is not asked when the case skips it.
Agree(b, g) ==
  \/ pair.other \in This.skip
  \/ Match(b, g, ToleranceOf(This, at))

Compared(b, g) == failed' = (failed \/ ~Agree(b, g))

Advance ==
  /\ at' = Following(at)
  /\ base' = After(base, Step)
  /\ UNCHANGED <<case, pair, defect>>

RightReplies == Replies(Answer(base, Step), pair.base, base.proto)
OtherReplies == Replies(Answer(other, Step), pair.other, other.proto)

\* The steps, by case and index, that are compared exactly where right servers
\* differ: HGETALL of a hash of two fields on RESP2, whose order is free
\* (case.go:44-46), and the name of an encoding (case.go:48-52).
ExactWhereRightServersDiffer ==
  {<<"hash-set-get", 3>>, <<"object-encoding-set-listpack", 1>>,
   <<"object-encoding-set-intset-to-hashtable", 1>>,
   <<"object-encoding-set-intset-to-hashtable", 3>>}

ExactByMistake(i) == <<This.name, i>> \in ExactWhereRightServersDiffer

WrongReplies == Wrong(Answer(other, Step), pair.other, other.proto)
UnseenReplies ==
  IF ExactByMistake(at) THEN {}
  ELSE WrongReplies \cap Unseen(Answer(other, Step), other.proto)

\* A corrupted value is read: its size, or what is in it.
SizeVerbs == {"HLEN", "SCARD", "ZCARD", "LLEN"}

ReadsCorrupted ==
  /\ Step.keys # <<>> /\ Has(other, Step.keys[1])
  /\ Step.verb \in TypedVerbs
  /\ ValueAt(other, Step.keys[1]).form =
       (IF Step.verb \in SizeVerbs THEN "miscounted" ELSE "scrambled")

RightReply ==
  /\ ~Finished
  /\ ~ReadsCorrupted
  /\ \E b \in RightReplies, g \in OtherReplies : Compared(b, g)
  /\ other' = After(other, Step)
  /\ Advance
  /\ UNCHANGED <<shown, unseen>>

WrongReply ==
  /\ ~Finished
  /\ defect = "reply" /\ ~shown
  /\ \E b \in RightReplies, g \in WrongReplies :
       Compared(b, g) /\ unseen' = (g \in UnseenReplies)
  /\ shown' = TRUE
  /\ other' = After(other, Step)
  /\ Advance

\* Where an operation of coll_keyops.go leaves the value it works on.
Place ==
  IF Step.verb \in Carrying THEN Destination(other, Step)
  ELSE <<other.sel, Step.keys[1]>>

CorruptingReply ==
  /\ ~Finished
  /\ defect \in Corruptions /\ ~shown
  /\ Step.verb \in Carrying \cup {"EXPIRE", "PERSIST"}
  /\ LET after == After(other, Step)
         value == after.keys[Place]
     IN  /\ Place \in DOMAIN after.keys
         /\ value.form = "heavy"
         /\ IF Step.verb \in Carrying /\ Place \in DOMAIN other.keys
            THEN other.keys[Place] # value
            ELSE TRUE
         /\ other' = [after EXCEPT !.keys[Place].form = defect]
  /\ \E b \in RightReplies, g \in OtherReplies : Compared(b, g)
  /\ shown' = TRUE /\ UNCHANGED unseen
  /\ Advance

CorruptedRead ==
  /\ ~Finished
  /\ ReadsCorrupted
  /\ \E b \in RightReplies, g \in Changed(Answer(other, Step), other.proto) : Compared(b, g)
  /\ other' = After(other, Step)
  /\ Advance
  /\ UNCHANGED <<shown, unseen>>

Next == RightReply \/ WrongReply \/ CorruptingReply \/ CorruptedRead

Spec == Init /\ [][Next]_vars

-----------------------------------------------------------------------------
ServerOK(s) ==
  /\ s.sel \in {"0", "1"} /\ s.proto \in {2, 3} /\ s.scripts \in BOOLEAN
  /\ ~s.multi => s.queue = <<>>
  /\ \A x \in DOMAIN s.keys :
       /\ s.keys[x].form \in {"inline", "heavy"} \cup Corruptions
       /\ DOMAIN s.keys[x].ttl \subseteq s.keys[x].elems \cup {Self}

\* The variables keep their types; a deadline belongs to a key or to a field
\* that is there.
TypeOK ==
  /\ case \in DOMAIN AllCases
  /\ pair \in Pairs
  /\ defect \in {"none", "reply"} \cup Corruptions
  /\ shown \in BOOLEAN /\ unseen \in BOOLEAN /\ failed \in BOOLEAN
  /\ at \in 0..Len(This.steps)
  /\ ServerOK(base) /\ ServerOK(other)

\* Two servers that are right pass every case, whatever they reply where right
\* servers may differ, but for the four steps of ExactWhereRightServersDiffer:
\* each other tolerance is there, and on the step that needs it (case.go:80-88).
\* Those four do report servers that are right.  What an earlier run left in a
\* script cache, which FLUSHDB does not clear, is no excuse either.
RightServersPass ==
  /\ failed => shown \/ \E i \in 0..(at - 1) : ExactByMistake(i)
  /\ ~Finished /\ ~shown /\ ExactByMistake(at) =>
       \E b \in RightReplies, g \in OtherReplies : ~Agree(b, g)

\* A wrong reply of aki at any step of any case is reported, unless it is one of
\* Unseen: no tolerance is wider than that, and no case leaves aki out
\* (case.go:28-31, 87-88).  Those of Unseen, the error of a step that accepts any
\* reply among them, do pass.
WrongReplyIsReported ==
  /\ defect = "reply" /\ shown => failed \/ unseen
  /\ ~Finished /\ ~shown =>
       \A g \in UnseenReplies : \E b \in RightReplies : Agree(b, g)

\* A collection that EXPIRE, PERSIST or a carrying operation corrupts, in its
\* size or in its elements, is reported by the case that does it: the case reads
\* both back from where the value went (coll_keyops.go:11-19).
CorruptionIsReported == defect \in Corruptions /\ shown /\ Finished => failed

\* When a case is over it has left keys in database 0 only, the one that the
\* FLUSHDB before the next case clears, and its connection in no transaction
\* (case.go:70-72, coll_keyops.go:107-109).
LeavesDatabase0Only ==
  Finished =>
    \A s \in {base, other} :
      ~s.multi /\ \A x \in DOMAIN s.keys : x[1] = "0"
-----------------------------------------------------------------------------
\* What the documentation says and the code does not do.

\* "A case that asserts the 7.4 behavior skips Valkey rather than reporting a
\* false failure." (case.go:86-87), whichever targets are there.
SkippedForkIsNotReported == This.skip # {} => (failed => shown)
=============================================================================
