------------------------------ MODULE ReplyTree ------------------------------
(***************************************************************************)
(* Replies as trees: what value.go and decode.go recurse over.             *)
(***************************************************************************)
EXTENDS RespValue

CONSTANTS
  Replies,  \* the replies considered, with their members
  Depth(_)  \* how deep a reply is nested

\* The members of a list, or the keys and values of a map one after the other.
Members(v) ==
  IF v.kind \in Lists THEN v.elems
  ELSE IF v.kind # "%" THEN <<>>
  ELSE [i \in 1..(2 * Len(v.map)) |-> v.map[(i + 1) \div 2][2 - (i % 2)]]

ReplyOver(S) ==
  [kind : Scalars, str : Seq(Nat)] \cup [kind : {":"}, int : Int]
    \cup [kind : {"#"}, bool : BOOLEAN] \cup [kind : {"_"}, nullFrom : NullKinds]
    \cup [kind : Lists, elems : Seq(S)] \cup [kind : {"%"}, map : Seq(S \X S)]

ASSUME RepliesAssumption ==
  /\ Replies \subseteq ReplyOver(Replies)
  /\ \A v \in Replies :
       /\ Depth(v) \in Nat
       /\ \A i \in DOMAIN Members(v) : Depth(Members(v)[i]) < Depth(v)
=============================================================================
