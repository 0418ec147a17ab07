--------------------------- MODULE CaseComparison ---------------------------
(***************************************************************************)
(* What differential/case.go takes as given when it judges a case: the     *)
(* runner (the opened targets in order and the requested baseline), the    *)
(* case (how many steps, protocol, tolerances, skipped kinds), and the     *)
(* comparison of two replies.  The detailed runner and the abstract        *)
(* verdict both extend this module.                                        *)
(*                                                                         *)
(* Step numbers are 1-based here; the code's stepIdx is one less, and its  *)
(* Mismatch of -1 is 0 here.                                               *)
(***************************************************************************)
EXTENDS Integers, Sequences

CONSTANTS
  Kinds,          \* the target kinds: redis, valkey, aki
  Runners,        \* the runners considered: [targets, baseline]
  Cases,          \* the cases considered: [steps, proto, tolerate, skip]
  Tolerances,     \* the values of type Tolerance
  Replies,        \* the decoded replies a server may give to a step
  Match(_, _, _)  \* Match(base, got, tol): Runner.match

(***************************************************************************)
(* The runner's targets are distinct kinds: main.go and                    *)
(* differential_test.go open at most one target for each of the three      *)
(* kinds, and give up before NewRunner when there are fewer than two.      *)
(***************************************************************************)
ASSUME RunnersAssumption ==
  \A r \in Runners :
    /\ r.targets \in Seq(Kinds)
    /\ r.targets # <<>>
    /\ \A i, j \in DOMAIN r.targets : r.targets[i] = r.targets[j] => i = j
    /\ r.baseline \in Kinds

(***************************************************************************)
(* A step that the table's Tolerate map does not name is compared exactly, *)
(* so tolerate is total here.                                              *)
(***************************************************************************)
ASSUME CasesAssumption ==
  \A c \in Cases :
    /\ c.steps \in Nat
    /\ c.proto \in {0, 2, 3}
    /\ c.tolerate \in [1..c.steps -> Tolerances]
    /\ c.skip \in SUBSET Kinds

TargetKinds(r) == {r.targets[i] : i \in DOMAIN r.targets}

\* The kind every other target is compared to: the requested one when it is
\* among the targets, otherwise the first target.
BaselineKind(r) ==
  IF r.baseline \in TargetKinds(r) THEN r.baseline ELSE r.targets[1]

\* Mutant: the case's Skip list also silences the baseline.
SkipsWithoutBaselineGuard(r, c, k) == k \in c.skip

Skips(r, c, k) == k \in c.skip /\ k # BaselineKind(r)

\* The targets that are sent the commands of a case.
Asked(r, c) == {k \in TargetKinds(r) : ~Skips(r, c, k)}

\* What StepResult.Replies can be: the replies of some of the targets.
StepReplies == UNION {[S -> Replies] : S \in SUBSET Kinds}

\* Some target's reply to step n does not match the baseline's.  Without a
\* baseline reply nothing is compared.
Diverges(r, c, step, n) ==
  /\ BaselineKind(r) \in DOMAIN step
  /\ \E k \in DOMAIN step \ {BaselineKind(r)} :
       ~Match(step[BaselineKind(r)], step[k], c.tolerate[n])

FirstDivergence(r, c, steps, i) ==
  /\ i \in DOMAIN steps
  /\ Diverges(r, c, steps[i], i)
  /\ \A j \in 1..(i - 1) : ~Diverges(r, c, steps[j], j)
=============================================================================
