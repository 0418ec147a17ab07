------------------------------ MODULE CaseTable ------------------------------
(***************************************************************************)
(* What the tables of differential/ are written in: type Case of case.go.  *)
(* A table keeps of a step what CommandServer needs of it.  Step indices   *)
(* are the 0-based ones of the source; every Tolerate map of the tables    *)
(* has one tolerance, on a set of steps.                                   *)
(***************************************************************************)
EXTENDS CommandServer

Loose(name, tolerance, indices, steps) ==
  [name |-> name, proto |-> 2, tolerance |-> tolerance, at |-> indices,
   skip |-> {}, steps |-> steps]

Case(name, steps) == Loose(name, "exact", {}, steps)

Resp3(c)       == [c EXCEPT !.proto = 3]

\* Mutant: neither Valkey nor the server under test is asked.
SkipsAllOthers(c) == [c EXCEPT !.skip = {"valkey", "aki"}]

SkipsValkey(c) == [c EXCEPT !.skip = {"valkey"}]

\* A step not in the map is compared exactly.
ToleranceOf(c, i) == IF i \in c.at THEN c.tolerance ELSE "exact"
=============================================================================
