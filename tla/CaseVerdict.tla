----------------------------- MODULE CaseVerdict -----------------------------
(***************************************************************************)
(* What Runner.Run promises, without connections, deadlines, phases or     *)
(* incremental bookkeeping: replies are observed one whole step at a time, *)
(* and the verdict is a function of the whole transcript.  A run that      *)
(* cannot complete ends in an error and gives no verdict, whatever it had  *)
(* observed; the last step it reports may be a part of one.                *)
(***************************************************************************)
EXTENDS CaseComparison

VARIABLES
  runner,      \* the runner, fixed
  case,        \* the case, fixed
  transcript,  \* the steps reported: what each target answered
  outcome      \* [status, at]: at is the step of a failure, otherwise 0

vars == <<runner, case, transcript, outcome>>

Running == [status |-> "running", at |-> 0]
Passed  == [status |-> "pass", at |-> 0]
Errored == [status |-> "error", at |-> 0]
FailedAt(i) == [status |-> "fail", at |-> i]

Init ==
  /\ runner \in Runners
  /\ case \in Cases
  /\ transcript = <<>>
  /\ outcome = Running

Observe ==
  /\ outcome = Running
  /\ Len(transcript) < case.steps
  /\ \E step \in [Asked(runner, case) -> Replies] :
       transcript' = Append(transcript, step)
  /\ UNCHANGED <<runner, case, outcome>>

Conclude ==
  /\ outcome = Running
  /\ Len(transcript) = case.steps
  /\ \/ /\ \A i \in DOMAIN transcript : ~Diverges(runner, case, transcript[i], i)
        /\ outcome' = Passed
     \/ \E i \in DOMAIN transcript :
          /\ FirstDivergence(runner, case, transcript, i)
          /\ outcome' = FailedAt(i)
  /\ UNCHANGED <<runner, case, transcript>>

Abort ==
  /\ outcome = Running
  /\ outcome' = Errored
  /\ \/ UNCHANGED transcript
     \/ /\ Len(transcript) < case.steps
        /\ \E S \in SUBSET Asked(runner, case) :
             /\ S # Asked(runner, case)
             /\ \E step \in [S -> Replies] :
                  transcript' = Append(transcript, step)
  /\ UNCHANGED <<runner, case>>

Next == Observe \/ Conclude \/ Abort

Spec == Init /\ [][Next]_vars
=============================================================================
