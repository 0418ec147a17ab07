------------------------ MODULE MCDifferentialRunner ------------------------
(***************************************************************************)
(* Finite instances of DifferentialRunner.                                 *)
(***************************************************************************)
EXTENDS DifferentialRunner

CONSTANTS redis, valkey, aki, none

MCKinds == {redis, valkey, aki}

\* The order main.go opens targets in, with any of them missing.
AllThree      == [targets |-> <<redis, valkey, aki>>, baseline |-> redis]
NoRedis       == [targets |-> <<valkey, aki>>, baseline |-> valkey]
NoAki         == [targets |-> <<redis, valkey>>, baseline |-> redis]
NoValkey      == [targets |-> <<redis, aki>>, baseline |-> redis]
\* A baseline that was not opened: NewRunner falls back on the first target.
BaselineGone  == [targets |-> <<valkey, aki>>, baseline |-> redis]

MCPairRunners == {NoRedis, NoAki, NoValkey, BaselineGone}
MCAllRunners == MCPairRunners \cup {AllThree}

MCTolerances == {"exact", "approx"}
\* Only Valkey may refuse FLUSHDB: the others must have been flushed.
MCRefuses == {valkey}

MCReplies == 1..2

\* Two replies: "exact" tells them apart, "approx" does not.
MCMatch(base, got, tol) == tol = "approx" \/ base = got

CaseOf(n, proto, tol, skip) ==
  [steps |-> n, proto |-> proto, tolerate |-> tol, skip |-> skip]

Exact(n) == [i \in 1..n |-> "exact"]

MCCases ==
  { CaseOf(0, 0, Exact(0), {}),
    CaseOf(3, 0, Exact(3), {valkey}),
    CaseOf(3, 0, [i \in 1..3 |-> IF i = 1 THEN "approx" ELSE "exact"], {}),
    CaseOf(2, 3, Exact(2), {}) }
=============================================================================
