--------------------------- MODULE MCCaseIsolation ---------------------------
(***************************************************************************)
(* CaseIsolation on the scripts of KeyopCases.                             *)
(***************************************************************************)
EXTENDS CaseIsolation, KeyopCases, TLC

CONSTANTS redis, aki, absent, nothing

MCKinds == {redis, aki}

\* A step is reported if not all replies are equal, whichever is the baseline's, so
\* the targets can be exchanged.
MCSymmetry == Permutations(MCKinds)

Fresh == [d \in DbIds |-> EmptyDb]

\* A server the harness is pointed at with data of its own in both databases, in
\* database 1 in the key that coll-hash-move takes there.
InUse ==
  [Fresh EXCEPT ![0]["h2"] = "list", ![0]["s"] = "occupied", ![1]["h"] = "occupied"]

MCFreshOrInUse == {Fresh, InUse}

\* A case by itself, step by step.
MCAlone ==
  [i \in DOMAIN Suite |->
     LET stage[n \in 1..(Len(Suite[i]) + 1)] ==
           IF n = 1 THEN [dbs |-> Fresh, sel |-> 0]
           ELSE LET after == Execute(Suite[i][n - 1], stage[n - 1].dbs, stage[n - 1].sel)
                IN  [dbs |-> after.dbs, sel |-> after.sel]
     IN  stage]
=============================================================================
