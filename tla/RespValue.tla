------------------------------ MODULE RespValue ------------------------------
(***************************************************************************)
(* A decoded reply, the type Value of respwire/value.go: a record whose    *)
(* kind is its RESP leading byte.  Text is a sequence of byte values, and  *)
(* every verbatim string is a txt.                                         *)
(***************************************************************************)
EXTENDS Integers, Sequences

Scalars == {"+", "-", "!", "$", ",", "(", "="}
Lists   == {"*", "~", ">"}
Atoms   == {":", "#", "_"}

\* The leading bytes a null arrives with.
NullKinds == {"_", "$", "*", "%"}

\* Text(k, t) is a string-like reply, List(k, s) an array, a set or a push,
\* Map(ps) a map of pairs, Null(from) a null that arrived as $, *, % or _.
Text(k, t) == [kind |-> k, str |-> t]
Integer(n) == [kind |-> ":", int |-> n]
Bool(b)    == [kind |-> "#", bool |-> b]
Null(from) == [kind |-> "_", nullFrom |-> from]
List(k, s) == [kind |-> k, elems |-> s]
Map(ps)    == [kind |-> "%", map |-> ps]

IsError(v) == v.kind \in {"-", "!"}
=============================================================================
