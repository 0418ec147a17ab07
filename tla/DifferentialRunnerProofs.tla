----------------------- MODULE DifferentialRunnerProofs -----------------------
(***************************************************************************)
(* Proofs about DifferentialRunner, for any runners, cases and replies and *)
(* whatever Match is.  IInv is inductive; the safety properties and the    *)
(* refinement of CaseVerdict follow from it.                               *)
(***************************************************************************)
EXTENDS DifferentialRunner, SequenceTheorems, TLAPS

\* The baseline is always one of the targets (case.go:150-160).
LEMMA BaselineIsTarget ==
  ASSUME NEW r \in Runners
  PROVE  BaselineKind(r) \in TargetKinds(r)
<1>1. r.targets \in Seq(Kinds) /\ r.targets # <<>>
  BY RunnersAssumption
<1>2. 1 \in DOMAIN r.targets
  BY <1>1
<1> QED
  BY <1>2 DEF BaselineKind, TargetKinds

\* The targets are kinds.
LEMMA TargetsAreKinds ==
  ASSUME NEW r \in Runners
  PROVE  /\ TargetKinds(r) \subseteq Kinds
         /\ Len(r.targets) \in Nat \ {0}
         /\ DOMAIN r.targets = 1..Len(r.targets)
         /\ \A i \in 1..Len(r.targets) : r.targets[i] \in TargetKinds(r)
<1>1. r.targets \in Seq(Kinds) /\ r.targets # <<>>
  BY RunnersAssumption
<1>2. \A i \in DOMAIN r.targets : r.targets[i] \in Kinds
  BY <1>1
<1> QED
  BY <1>1, <1>2 DEF TargetKinds

\* The targets asked are targets, the baseline among them (case.go:194).
LEMMA AskedTargets ==
  ASSUME NEW r \in Runners, NEW c \in Cases
  PROVE  /\ Asked(r, c) \subseteq Kinds
         /\ BaselineKind(r) \in Asked(r, c)
         /\ Asked(r, c) = TargetKinds(r) \ (c.skip \ {BaselineKind(r)})
BY BaselineIsTarget, TargetsAreKinds DEF Asked, Skips

\* A step's replies are a function on some of the kinds.
LEMMA StepReplyShape ==
  /\ \A f \in StepReplies :
       DOMAIN f \subseteq Kinds /\ f \in [DOMAIN f -> Replies]
  /\ \A S \in SUBSET Kinds : [S -> Replies] \subseteq StepReplies
BY DEF StepReplies

-----------------------------------------------------------------------------
LEMMA InitIInv == Init => IInv
<1> SUFFICES ASSUME Init PROVE IInv
  OBVIOUS
<1> USE DEF Init
<1>1. TypeOK
  <2>1. NoReplies \in StepReplies
    BY StepReplyShape DEF NoReplies
  <2>2. 1 \in 1..(Len(runner.targets) + 1)
    BY TargetsAreKinds
  <2> QED
    BY <2>1, <2>2 DEF TypeOK, Phases, Errors
<1>2. SetupInv
  BY TargetsAreKinds DEF SetupInv
<1>3. RoundInv
  BY DEF RoundInv
<1>4. ProgressInv
  BY CasesAssumption DEF ProgressInv
<1>5. FlushInv
  BY DEF FlushInv
<1>6. VerdictIsFirstDivergence /\ EveryStepIsCompared
  BY DEF VerdictIsFirstDivergence, EveryStepIsCompared, Compared
<1> QED
  BY <1>1, <1>2, <1>3, <1>4, <1>5, <1>6 DEF IInv

-----------------------------------------------------------------------------
\* What every step may use: the invariant's parts and the facts about the
\* runner and the case.
LEMMA Facts ==
  ASSUME IInv
  PROVE  /\ Current \in Kinds \/ pc \in {"step", "done"}
         /\ pc \in {"dial", "hello", "flush"} =>
              setup \in 1..Len(runner.targets) /\ Current \in TargetKinds(runner)
         /\ Asked(runner, case) \subseteq Kinds
         /\ Base \in Asked(runner, case)
         /\ Asked(runner, case) = TargetKinds(runner) \ (case.skip \ {Base})
         /\ TargetKinds(runner) \subseteq Kinds
         /\ Len(res.steps) \in Nat
         /\ case.steps \in Nat
         /\ NoKind \notin Kinds
<1> USE DEF IInv, TypeOK
<1>1. runner \in Runners /\ case \in Cases
  OBVIOUS
<1>2. case.steps \in Nat
  BY <1>1, CasesAssumption
<1>3. pc \in {"dial", "hello", "flush"} =>
        setup \in 1..Len(runner.targets) /\ Current \in TargetKinds(runner)
  BY <1>1, TargetsAreKinds DEF SetupInv, Current
<1>4. Len(res.steps) \in Nat
  OBVIOUS
<1>5. pc \in Phases
  OBVIOUS
<1> QED
  BY <1>1, <1>2, <1>3, <1>4, <1>5, AskedTargets, TargetsAreKinds,
     NoKindAssumption DEF Base, Phases

\* A failed set-up keeps the invariant: nothing was compared, and the
\* connections it closes are all there are.
LEMMA SetupFailsKeepsIInv ==
  ASSUME IInv, NEW err \in {"dial", "flushdb"},
         \/ pc \in {"hello", "flush"}
         \/ pc = "dial",
         SetupFails(err)
  PROVE  IInv'
<1> USE DEF SetupFails, args, round, IInv
<1>1. TypeOK'
  BY Facts DEF TypeOK, Phases, Errors, OpenAfterFailedSetup
<1>2. SetupInv'
  BY DEF SetupInv, OpenAfterFailedSetup, Current
<1>3. RoundInv'
  BY Facts DEF RoundInv, TypeOK
<1>4. ProgressInv'
  BY Facts DEF ProgressInv, TypeOK
<1>5. FlushInv'
  BY DEF FlushInv
<1>6. VerdictIsFirstDivergence' /\ EveryStepIsCompared'
  <2>1. res.err = "none" /\ Compared' = Compared /\ Base' = Base
    BY DEF ProgressInv, Compared, TypeOK, Base
  <2>2. /\ res'.steps = res.steps
        /\ res'.mismatch = res.mismatch
        /\ res'.pass = FALSE
        /\ res'.err = err
    BY DEF TypeOK
  <2> QED
    BY <2>1, <2>2 DEF VerdictIsFirstDivergence, EveryStepIsCompared
<1> QED
  BY <1>1, <1>2, <1>3, <1>4, <1>5, <1>6

\* Adding one more asked target to the clients finishes its set-up.
LEMMA FlushReturnsKeepsIInv ==
  ASSUME IInv, FlushReturns
  PROVE  IInv'
<1> USE DEF FlushReturns, args, round, IInv, FlushedWith
<1>1. /\ setup \in 1..Len(runner.targets)
      /\ Len(runner.targets) \in Nat
      /\ Current \in Kinds
      /\ runner' = runner /\ case' = case /\ res' = res
  BY Facts, TargetsAreKinds DEF TypeOK
<1>2. TypeOK'
  BY <1>1, Facts DEF TypeOK, Phases
<1>3. SetupInv'
  <2>1. clients' = {runner.targets[i] : i \in 1..setup}
    BY <1>1 DEF SetupInv, Current
  <2>2. setup' - 1 = setup
    BY <1>1
  <2>3. open' = clients'
    BY DEF SetupInv
  <2>4. setup' <= Len(runner.targets) \/ setup' = Len(runner.targets) + 1
    BY <1>1
  <2>5. pc' = "dial" => setup' <= Len(runner.targets)
    BY <1>1
  <2>6. pc' = "step" => setup' = Len(runner.targets) + 1
    BY <1>1
  <2>7. pc' \in {"dial", "step"}
    OBVIOUS
  <2> QED
    BY <1>1, <2>1, <2>2, <2>3, <2>5, <2>6, <2>7 DEF SetupInv
<1>4. RoundInv'
  <2>1. asking = NoKind
    BY DEF RoundInv
  <2>2. replies = NoReplies
    BY DEF RoundInv
  <2> QED
    BY <1>1, <2>1, <2>2 DEF RoundInv, NoReplies
<1>5. ProgressInv'
  BY <1>1, Facts DEF ProgressInv
<1>6. FlushInv'
  BY DEF FlushInv
<1>7. VerdictIsFirstDivergence' /\ EveryStepIsCompared'
  BY <1>1 DEF VerdictIsFirstDivergence, EveryStepIsCompared, Compared, Base
<1> QED
  BY <1>2, <1>3, <1>4, <1>5, <1>6, <1>7

\* A reply moves its kind from the pending ones to those answered.
LEMMA ReceiveReplyKeepsIInv ==
  ASSUME IInv, NEW v \in Replies, ReceiveReply(v)
  PROVE  IInv'
<1> USE DEF ReceiveReply, args, IInv
<1>1. /\ asking \in pending /\ asking \in Kinds
      /\ pc = "step"
  BY Facts DEF RoundInv
<1>2. /\ DOMAIN replies' = DOMAIN replies \cup {asking}
      /\ replies' \in [DOMAIN replies' -> Replies]
      /\ replies' \in StepReplies
  <2>1. replies \in [DOMAIN replies -> Replies] /\ DOMAIN replies \subseteq Kinds
    BY StepReplyShape DEF TypeOK
  <2>2. replies' \in [DOMAIN replies \cup {asking} -> Replies]
    BY <2>1 DEF RepliesWith
  <2> QED
    BY <1>1, <2>1, <2>2, StepReplyShape
<1>3. TypeOK'
  BY <1>2, Facts DEF TypeOK
<1>4. SetupInv'
  BY DEF SetupInv, Current
<1>5. RoundInv'
  BY <1>1, <1>2, Facts DEF RoundInv
<1>6. ProgressInv' /\ FlushInv'
  BY DEF ProgressInv, FlushInv
<1>7. VerdictIsFirstDivergence' /\ EveryStepIsCompared'
  BY DEF VerdictIsFirstDivergence, EveryStepIsCompared, Compared, Base
<1> QED
  BY <1>3, <1>4, <1>5, <1>6, <1>7

\* A failed call appends an incomplete step that is not compared, and no
\* connection is left.
LEMMA StepFailsKeepsIInv ==
  ASSUME IInv, StepFails
  PROVE  IInv'
<1> USE DEF StepFails, args, IInv
<1>1. /\ pc = "step" /\ res.err = "none" /\ asking \in Kinds
      /\ Len(res.steps) < case.steps
      /\ Len(res.steps) \in Nat /\ case.steps \in Nat
  BY Facts DEF RoundInv, ProgressInv
<1>2. /\ res'.steps = Append(res.steps, replies)
      /\ res'.mismatch = res.mismatch
      /\ res'.pass = FALSE
      /\ res'.err = "step"
      /\ res' \in [steps : Seq(StepReplies), pass : BOOLEAN, mismatch : Nat,
                  err : Errors]
  <2>1. Append(res.steps, replies) \in Seq(StepReplies)
    BY DEF TypeOK
  <2> QED
    BY <2>1 DEF WithFailure, TypeOK, Errors
<1>3. /\ Len(res'.steps) = Len(res.steps) + 1
      /\ \A i \in 1..Len(res.steps) : res'.steps[i] = res.steps[i]
      /\ DOMAIN res.steps = 1..Len(res.steps)
      /\ DOMAIN res'.steps = 1..(Len(res.steps) + 1)
  BY <1>2 DEF TypeOK
<1>4. TypeOK'
  BY <1>2, Facts, StepReplyShape DEF TypeOK, Phases, NoReplies
<1>5. SetupInv'
  BY <1>1 DEF SetupInv, Current
<1>6. RoundInv'
  BY DEF RoundInv
<1>7. ProgressInv' /\ FlushInv'
  BY <1>1, <1>2, <1>3 DEF ProgressInv, FlushInv
<1>8. Compared' = Compared /\ Compared = Len(res.steps) /\ Base' = Base
  BY <1>1, <1>2, <1>3 DEF Compared, Base
<1>9. EveryStepIsCompared'
  BY <1>3, <1>8 DEF EveryStepIsCompared
<1>10. VerdictIsFirstDivergence'
  BY <1>1, <1>2, <1>3, <1>8 DEF VerdictIsFirstDivergence, FirstDivergence, TypeOK
<1> QED
  BY <1>4, <1>5, <1>6, <1>7, <1>9, <1>10

\* A complete step holds every asked target's reply, and Mismatch moves only
\* if it is the first one that diverged.
LEMMA CompareStepKeepsIInv ==
  ASSUME IInv, CompareStep
  PROVE  IInv'
<1> USE DEF CompareStep, args, IInv
<1> DEFINE n == Len(res.steps) + 1
           diverged == Diverges(runner, case, replies, n)
<1>1. /\ res.err = "none" /\ Len(res.steps) < case.steps
      /\ Len(res.steps) \in Nat /\ case.steps \in Nat
      /\ replies \in StepReplies
      /\ DOMAIN replies = Asked(runner, case)
      /\ runner' = runner /\ case' = case
  BY Facts DEF RoundInv, ProgressInv, TypeOK
<1>2. /\ res'.steps = Append(res.steps, replies)
      /\ res'.mismatch = FirstMismatch(res.mismatch, n, diverged)
      /\ res'.pass = PassSoFar(res.pass, diverged)
      /\ res'.err = "none"
      /\ res' = [steps    |-> Append(res.steps, replies),
                 pass     |-> PassSoFar(res.pass, diverged),
                 mismatch |-> FirstMismatch(res.mismatch, n, diverged),
                 err      |-> res.err]
  BY <1>1
<1>3. diverged \in BOOLEAN
  BY DEF Diverges
<1>4. res' \in [steps : Seq(StepReplies), pass : BOOLEAN, mismatch : Nat,
               err : Errors]
  <2>1. Append(res.steps, replies) \in Seq(StepReplies)
    BY DEF TypeOK
  <2>2. FirstMismatch(res.mismatch, n, diverged) \in Nat
    BY <1>1 DEF FirstMismatch, TypeOK
  <2>3. PassSoFar(res.pass, diverged) \in BOOLEAN
    BY DEF PassSoFar, TypeOK
  <2>4. res.err \in Errors
    BY DEF TypeOK
  <2> HIDE DEF diverged, n, CompareStep, IInv
  <2> QED
    BY <1>2, <2>1, <2>2, <2>3, <2>4
<1>5. /\ Len(res'.steps) = n
      /\ \A i \in 1..Len(res.steps) : res'.steps[i] = res.steps[i]
      /\ res'.steps[n] = replies
      /\ DOMAIN res.steps = 1..Len(res.steps)
      /\ DOMAIN res'.steps = 1..n
  BY <1>1, <1>2 DEF TypeOK
<1>6. TypeOK'
  BY <1>4, Facts, StepReplyShape DEF TypeOK, NoReplies
<1>7. SetupInv'
  BY DEF SetupInv, Current
<1>8. RoundInv'
  BY <1>1 DEF RoundInv, NoReplies
<1>9. ProgressInv' /\ FlushInv'
  BY <1>1, <1>2, <1>5 DEF ProgressInv, FlushInv
<1>10. Compared = Len(res.steps) /\ Compared' = n /\ Base' = Base
  BY <1>1, <1>2, <1>5 DEF Compared, Base
<1>11. EveryStepIsCompared'
  <2>1. ASSUME NEW i \in 1..n
        PROVE  /\ Base \in DOMAIN res'.steps[i]
               /\ DOMAIN res'.steps[i] = TargetKinds(runner) \ (case.skip \ {Base})
    <3>1. CASE i = n
      BY <3>1, <1>1, <1>5, Facts
    <3>2. CASE i # n
      <4>1. i \in 1..Len(res.steps)
        BY <3>2, <1>1
      <4> QED
        BY <4>1, <1>5, <1>10 DEF EveryStepIsCompared
    <3> QED
      BY <3>1, <3>2
  <2> QED
    BY <1>1, <1>10, <2>1 DEF EveryStepIsCompared
<1>12. VerdictIsFirstDivergence'
  <2> HIDE DEF diverged
  <2>1. \A i \in 1..Len(res.steps) :
          Diverges(runner, case, res'.steps[i], i)
            <=> Diverges(runner, case, res.steps[i], i)
    BY <1>5
  <2>2. Diverges(runner, case, res'.steps[n], n) <=> diverged
    BY <1>5 DEF diverged
  <2>3. res.mismatch \in Nat /\ n \in Nat /\ n # 0 /\ n - 1 = Len(res.steps)
    BY <1>1 DEF TypeOK
  <2>4. /\ res.mismatch = 0 => \A i \in 1..Len(res.steps) :
                                  ~Diverges(runner, case, res.steps[i], i)
        /\ res.mismatch # 0 => /\ res.mismatch \in 1..Len(res.steps)
                               /\ FirstDivergence(runner, case, res.steps, res.mismatch)
        /\ res.pass <=> res.mismatch = 0
    BY <1>1, <1>10 DEF VerdictIsFirstDivergence
  <2>5. res'.mismatch = 0 =>
          \A i \in 1..n : ~Diverges(runner, case, res'.steps[i], i)
    <3> SUFFICES ASSUME res'.mismatch = 0, NEW i \in 1..n
                 PROVE  ~Diverges(runner, case, res'.steps[i], i)
      OBVIOUS
    <3>1. res.mismatch = 0 /\ ~diverged
      BY <1>2, <2>3 DEF FirstMismatch
    <3>2. i = n \/ i \in 1..Len(res.steps)
      BY <2>3
    <3> QED
      BY <2>1, <2>2, <2>4, <3>1, <3>2
  <2>6. res'.mismatch # 0 =>
          /\ res'.mismatch \in 1..n
          /\ FirstDivergence(runner, case, res'.steps, res'.mismatch)
    <3>1. CASE res.mismatch # 0
      <4>1. res'.mismatch = res.mismatch
        BY <3>1, <1>2 DEF FirstMismatch
      <4> QED
        BY <3>1, <4>1, <1>5, <2>1, <2>3, <2>4 DEF FirstDivergence
    <3>2. CASE res.mismatch = 0 /\ diverged
      <4>1. res'.mismatch = n
        BY <3>2, <1>2 DEF FirstMismatch
      <4>2. \A j \in 1..(n - 1) : ~Diverges(runner, case, res'.steps[j], j)
        BY <3>2, <2>1, <2>3, <2>4
      <4> QED
        BY <3>2, <4>1, <4>2, <1>5, <2>2, <2>3 DEF FirstDivergence
    <3>3. CASE res.mismatch = 0 /\ ~diverged
      BY <3>3, <1>2 DEF FirstMismatch
    <3> QED
      BY <3>1, <3>2, <3>3
  <2>7. res'.pass <=> res'.mismatch = 0
    BY <1>2, <1>3, <2>3, <2>4 DEF FirstMismatch, PassSoFar, TypeOK
  <2> QED
    BY <1>1, <1>2, <1>10, <2>5, <2>6, <2>7 DEF VerdictIsFirstDivergence
<1> QED
  BY <1>6, <1>7, <1>8, <1>9, <1>11, <1>12

\* Every step of Run and of the servers keeps the invariant.
LEMMA NextKeepsIInv == IInv /\ [Next]_vars => IInv'
<1> SUFFICES ASSUME IInv, [Next]_vars PROVE IInv'
  OBVIOUS
<1>1. CASE DialOpens
  <2> USE <1>1 DEF DialOpens, args, round, IInv
  <2>1. TypeOK'
    BY Facts DEF TypeOK, Phases
  <2>2. SetupInv'
    BY DEF SetupInv, Current
  <2>3. RoundInv' /\ ProgressInv' /\ FlushInv'
    BY DEF RoundInv, ProgressInv, FlushInv
  <2>4. VerdictIsFirstDivergence' /\ EveryStepIsCompared'
    BY DEF VerdictIsFirstDivergence, EveryStepIsCompared, Compared, Base
  <2> QED
    BY <2>1, <2>2, <2>3, <2>4
<1>2. CASE DialFails \/ HelloFails \/ FlushFails
  BY <1>2, SetupFailsKeepsIInv DEF DialFails, HelloFails, FlushFails
<1>3. CASE HelloAgrees
  <2> USE <1>3 DEF HelloAgrees, args, round, IInv
  <2>1. TypeOK'
    BY DEF TypeOK, Phases
  <2>2. SetupInv'
    BY DEF SetupInv, Current
  <2>3. RoundInv' /\ ProgressInv' /\ FlushInv'
    BY DEF RoundInv, ProgressInv, FlushInv
  <2>4. VerdictIsFirstDivergence' /\ EveryStepIsCompared'
    BY DEF VerdictIsFirstDivergence, EveryStepIsCompared, Compared, Base
  <2> QED
    BY <2>1, <2>2, <2>3, <2>4
<1>4. CASE FlushReturns
  BY <1>4, FlushReturnsKeepsIInv
<1>5. CASE \E k \in Kinds : SendCommand(k)
  <2> PICK k \in Kinds : SendCommand(k)
    BY <1>5
  <2> USE DEF SendCommand, args, IInv
  <2>1. TypeOK'
    BY DEF TypeOK, ArmedFor
  <2>2. SetupInv'
    BY DEF SetupInv, Current
  <2>3. RoundInv' /\ ProgressInv' /\ FlushInv'
    BY DEF RoundInv, ProgressInv, FlushInv
  <2>4. VerdictIsFirstDivergence' /\ EveryStepIsCompared'
    BY DEF VerdictIsFirstDivergence, EveryStepIsCompared, Compared, Base
  <2> QED
    BY <2>1, <2>2, <2>3, <2>4
<1>6. CASE \E v \in Replies : ReceiveReply(v)
  BY <1>6, ReceiveReplyKeepsIInv
<1>7. CASE StepFails
  BY <1>7, StepFailsKeepsIInv
<1>8. CASE CompareStep
  BY <1>8, CompareStepKeepsIInv
<1>9. CASE ReturnVerdict
  <2> USE <1>9 DEF ReturnVerdict, args, IInv
  <2>1. TypeOK'
    BY DEF TypeOK, Phases
  <2>2. SetupInv'
    BY DEF SetupInv, Current
  <2>3. RoundInv' /\ ProgressInv' /\ FlushInv'
    BY Facts DEF RoundInv, ProgressInv, FlushInv
  <2>4. VerdictIsFirstDivergence' /\ EveryStepIsCompared'
    BY DEF VerdictIsFirstDivergence, EveryStepIsCompared, Compared, Base
  <2> QED
    BY <2>1, <2>2, <2>3, <2>4
<1>10. CASE \E k \in Kinds : ServerHangs(k)
  <2> PICK k \in Kinds : ServerHangs(k)
    BY <1>10
  <2> USE DEF ServerHangs, args, round, IInv
  <2>1. TypeOK'
    BY DEF TypeOK
  <2>2. SetupInv'
    BY DEF SetupInv, Current
  <2>3. RoundInv' /\ ProgressInv' /\ FlushInv'
    BY DEF RoundInv, ProgressInv, FlushInv
  <2>4. VerdictIsFirstDivergence' /\ EveryStepIsCompared'
    BY DEF VerdictIsFirstDivergence, EveryStepIsCompared, Compared, Base
  <2> QED
    BY <2>1, <2>2, <2>3, <2>4
<1>11. CASE Done \/ UNCHANGED vars
  <2> USE <1>11 DEF Done, vars, IInv
  <2>1. TypeOK' /\ SetupInv'
    BY DEF TypeOK, SetupInv, Current
  <2>2. RoundInv' /\ ProgressInv' /\ FlushInv'
    BY DEF RoundInv, ProgressInv, FlushInv
  <2>3. VerdictIsFirstDivergence' /\ EveryStepIsCompared'
    BY DEF VerdictIsFirstDivergence, EveryStepIsCompared, Compared, Base
  <2> QED
    BY <2>1, <2>2, <2>3
<1> QED
  BY <1>1, <1>2, <1>3, <1>4, <1>5, <1>6, <1>7, <1>8, <1>9, <1>10, <1>11
     DEF Next, RunnerStep

\* The strengthened invariant holds in every reachable state.
THEOREM Inductive == Spec => []IInv
<1>1. Init => IInv
  BY InitIInv
<1>2. IInv /\ [Next]_vars => IInv'
  BY NextKeepsIInv
<1> QED
  BY <1>1, <1>2, PTL DEF Spec

-----------------------------------------------------------------------------
\* The variables of Run have their types.
THEOREM TypeCorrect == Spec => []TypeOK
<1>1. IInv => TypeOK
  BY DEF IInv
<1> QED
  BY <1>1, Inductive, PTL

\* The verdict Run builds step by step is the one the whole trace calls for.
THEOREM VerdictCorrect == Spec => []VerdictIsFirstDivergence
<1>1. IInv => VerdictIsFirstDivergence
  BY DEF IInv
<1> QED
  BY <1>1, Inductive, PTL

\* No step that counts was compared without the baseline or without a target
\* the case does not skip.
THEOREM ComparisonComplete == Spec => []EveryStepIsCompared
<1>1. IInv => EveryStepIsCompared
  BY DEF IInv
<1> QED
  BY <1>1, Inductive, PTL

\* Run leaves no connection open, on any of its paths.
THEOREM NoLeak == Spec => []NoConnectionLeft
<1>1. IInv => NoConnectionLeft
  BY DEF IInv, SetupInv, NoConnectionLeft
<1> QED
  BY <1>1, Inductive, PTL

\* Callers may index Steps by the Mismatch of a failure.
THEOREM ReportSafe == Spec => []ReportIsInRange
<1>1. IInv => ReportIsInRange
  BY DEF IInv, TypeOK, ProgressInv, VerdictIsFirstDivergence, FirstDivergence,
         ReportIsInRange
<1> QED
  BY <1>1, Inductive, PTL

\* Steps run only after every target that accepts FLUSHDB was flushed.
THEOREM FlushedFirst == Spec => []StepsRunOnFlushedDatabases
<1>1. IInv => StepsRunOnFlushedDatabases
  <2> SUFFICES ASSUME IInv, pc = "step"
               PROVE  TargetKinds(runner) \ MayRefuse \subseteq flushed
    BY DEF StepsRunOnFlushedDatabases
  <2>1. runner \in Runners
    BY DEF IInv, TypeOK
  <2>2. setup - 1 = Len(runner.targets) /\ DOMAIN runner.targets = 1..(setup - 1)
    BY <2>1, TargetsAreKinds DEF IInv, SetupInv
  <2>3. clients = TargetKinds(runner)
    BY <2>2 DEF IInv, SetupInv, TargetKinds
  <2> QED
    BY <2>3 DEF IInv, FlushInv
<1> QED
  BY <1>1, Inductive, PTL

-----------------------------------------------------------------------------
\* Which actions touch the result: the failures, and CompareStep.
LEMMA ResultChanges ==
  ASSUME IInv, [Next]_vars, res' # res
  PROVE  \/ \E err \in {"dial", "flushdb"} :
              pc \in {"dial", "hello", "flush"} /\ SetupFails(err)
         \/ StepFails
         \/ CompareStep
BY DEF Next, RunnerStep, vars, DialOpens, DialFails, HelloAgrees, HelloFails,
       FlushReturns, FlushFails, SendCommand, ReceiveReply, ReturnVerdict,
       ServerHangs, Done

\* A divergence or an error, once recorded, stays as it was recorded.
THEOREM VerdictStable == Spec => VerdictNeverRetracted
<1> DEFINE Kept == /\ ~res.pass => ~res'.pass
                   /\ res.mismatch # 0 => res'.mismatch = res.mismatch
                   /\ res.err # "none" => res' = res
<1>1. IInv /\ [Next]_vars => [Kept]_vars
  <2> SUFFICES ASSUME IInv, [Next]_vars PROVE Kept
    OBVIOUS
  <2>1. CASE res' = res
    BY <2>1
  <2>2. CASE \E err \in {"dial", "flushdb"} :
               pc \in {"dial", "hello", "flush"} /\ SetupFails(err)
    BY <2>2 DEF IInv, TypeOK, ProgressInv, SetupFails
  <2>3. CASE StepFails
    <3>1. res.err = "none"
      BY <2>3 DEF StepFails, IInv, RoundInv, ProgressInv
    <3>2. res'.pass = FALSE /\ res'.mismatch = res.mismatch
      BY <2>3 DEF StepFails, WithFailure, IInv, TypeOK
    <3> QED
      BY <3>1, <3>2
  <2>4. CASE CompareStep
    <3>1. res.err = "none"
      BY <2>4 DEF CompareStep, IInv, ProgressInv
    <3>2. PICK n, d : /\ res'.pass = PassSoFar(res.pass, d)
                      /\ res'.mismatch = FirstMismatch(res.mismatch, n, d)
      BY <2>4 DEF CompareStep
    <3> QED
      BY <3>1, <3>2 DEF PassSoFar, FirstMismatch, IInv, TypeOK
  <2> QED
    BY <2>1, <2>2, <2>3, <2>4, ResultChanges
<1>2. Spec => [][Kept]_vars
  BY <1>1, Inductive, PTL DEF Spec
<1> QED
  BY <1>2 DEF VerdictNeverRetracted

-----------------------------------------------------------------------------
\* The abstract verdict compares replies the way the runner does.
LEMMA SameComparison ==
  /\ V!Asked(runner, case) = Asked(runner, case)
  /\ \A step, n : V!Diverges(runner, case, step, n)
                   <=> Diverges(runner, case, step, n)
  /\ \A steps, i : V!FirstDivergence(runner, case, steps, i)
                   <=> FirstDivergence(runner, case, steps, i)
BY DEF V!Asked, Asked, V!Skips, Skips, V!TargetKinds, TargetKinds,
       V!BaselineKind, BaselineKind, V!Diverges, Diverges,
       V!FirstDivergence, FirstDivergence

\* While Run has not returned the abstract run is going on.
LEMMA OutcomeRunning == pc # "done" => Outcome = V!Running
BY DEF Outcome, V!Running

LEMMA SetupFailsAborts ==
  ASSUME IInv, NEW err \in {"dial", "flushdb"}, pc # "done", SetupFails(err)
  PROVE  V!Abort
<1>1. res'.steps = res.steps /\ res'.err # "none" /\ pc' = "done"
  BY DEF SetupFails, IInv, TypeOK
<1>2. Outcome' = V!Errored
  BY <1>1 DEF Outcome, V!Errored
<1> QED
  BY <1>1, <1>2, OutcomeRunning DEF V!Abort, SetupFails, args

LEMMA StepFailsAborts ==
  ASSUME IInv, StepFails
  PROVE  V!Abort
<1>1. /\ pc = "step" /\ asking \in pending /\ pending \subseteq Asked(runner, case)
      /\ Len(res.steps) < case.steps
      /\ DOMAIN replies = Asked(runner, case) \ pending
      /\ replies \in [DOMAIN replies -> Replies]
  BY StepReplyShape DEF StepFails, IInv, RoundInv, TypeOK
<1>2. /\ res'.steps = Append(res.steps, replies)
      /\ res'.err = "step"
      /\ pc' = "done"
  BY DEF StepFails, WithFailure, IInv, TypeOK
<1>3. Outcome' = V!Errored
  BY <1>2 DEF Outcome, V!Errored
<1>4. \E S \in SUBSET V!Asked(runner, case) :
        /\ S # V!Asked(runner, case)
        /\ \E step \in [S -> Replies] : res'.steps = Append(res.steps, step)
  BY <1>1, <1>2, SameComparison
<1> QED
  BY <1>1, <1>3, <1>4, OutcomeRunning DEF V!Abort, StepFails, args

LEMMA CompareStepObserves ==
  ASSUME IInv, CompareStep
  PROVE  V!Observe
<1>1. /\ pc = "step" /\ pc' = "step"
      /\ Len(res.steps) < case.steps
      /\ replies \in [Asked(runner, case) -> Replies]
  BY StepReplyShape DEF CompareStep, IInv, RoundInv, TypeOK
<1>2. res'.steps = Append(res.steps, replies)
  BY DEF CompareStep
<1>3. Outcome = V!Running /\ Outcome' = V!Running
  BY <1>1 DEF Outcome, V!Running
<1> QED
  BY <1>1, <1>2, <1>3, SameComparison DEF V!Observe, CompareStep, args

LEMMA ReturnVerdictConcludes ==
  ASSUME IInv, ReturnVerdict
  PROVE  V!Conclude
<1>1. /\ pc = "step" /\ pc' = "done" /\ res' = res /\ res.err = "none"
      /\ runner' = runner /\ case' = case
      /\ Len(res.steps) = case.steps
      /\ DOMAIN res.steps = 1..Len(res.steps)
      /\ Compared = Len(res.steps)
  BY DEF ReturnVerdict, args, IInv, ProgressInv, TypeOK, Compared
<1>2. Outcome = V!Running
  BY <1>1, OutcomeRunning
<1>3. CASE res.mismatch = 0
  <2>1. Outcome' = V!Passed
    BY <1>1, <1>3 DEF Outcome, V!Passed, IInv, VerdictIsFirstDivergence
  <2>2. \A i \in DOMAIN res.steps : ~V!Diverges(runner, case, res.steps[i], i)
    BY <1>1, <1>3, SameComparison DEF IInv, VerdictIsFirstDivergence
  <2> QED
    BY <1>1, <1>2, <2>1, <2>2 DEF V!Conclude
<1>4. CASE res.mismatch # 0
  <2>1. /\ ~res.pass
        /\ res.mismatch \in DOMAIN res.steps
        /\ V!FirstDivergence(runner, case, res.steps, res.mismatch)
    BY <1>1, <1>4, SameComparison DEF IInv, VerdictIsFirstDivergence
  <2>2. Outcome' = V!FailedAt(res.mismatch)
    BY <1>1, <2>1 DEF Outcome, V!FailedAt
  <2> QED
    BY <1>1, <1>2, <2>1, <2>2 DEF V!Conclude
<1> QED
  BY <1>3, <1>4

\* Every other step leaves what the abstract specification sees.
LEMMA OtherStepsStutter ==
  ASSUME IInv,
         \/ DialOpens \/ HelloAgrees \/ FlushReturns
         \/ \E k \in Kinds : SendCommand(k)
         \/ \E v \in Replies : ReceiveReply(v)
         \/ \E k \in Kinds : ServerHangs(k)
         \/ Done
         \/ UNCHANGED vars
  PROVE  UNCHANGED V!vars
<1>1. runner' = runner /\ case' = case /\ res' = res
  BY DEF DialOpens, HelloAgrees, FlushReturns, SendCommand, ReceiveReply,
         ServerHangs, Done, vars, args
<1>2. pc' = pc \/ (pc # "done" /\ pc' # "done")
  BY DEF DialOpens, HelloAgrees, FlushReturns, SendCommand, ReceiveReply,
         ServerHangs, Done, vars
<1>3. Outcome' = Outcome
  BY <1>1, <1>2 DEF Outcome
<1> QED
  BY <1>1, <1>3 DEF V!vars

\* Runner.Run, with its phases, map iteration and failures, implements the
\* abstract verdict over whole steps (case.go:162-228).
THEOREM Refinement == Spec => ImplementsVerdict
<1>1. Init => V!Init
  BY DEF Init, V!Init, Outcome, V!Running
<1>2. IInv /\ [Next]_vars => [V!Next]_(V!vars)
  <2> SUFFICES ASSUME IInv, [Next]_vars PROVE V!Next \/ UNCHANGED V!vars
    OBVIOUS
  <2>1. CASE DialFails \/ HelloFails \/ FlushFails
    BY <2>1, SetupFailsAborts DEF DialFails, HelloFails, FlushFails, V!Next
  <2>2. CASE StepFails
    BY <2>2, StepFailsAborts DEF V!Next
  <2>3. CASE CompareStep
    BY <2>3, CompareStepObserves DEF V!Next
  <2>4. CASE ReturnVerdict
    BY <2>4, ReturnVerdictConcludes DEF V!Next
  <2> QED
    BY <2>1, <2>2, <2>3, <2>4, OtherStepsStutter DEF Next, RunnerStep
<1> QED
  BY <1>1, <1>2, Inductive, PTL DEF Spec, V!Spec, ImplementsVerdict
=============================================================================
