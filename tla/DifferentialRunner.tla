-------------------------- MODULE DifferentialRunner --------------------------
(***************************************************************************)
(* Runner.Run of differential/case.go: one case against every opened       *)
(* target.  For each target in order it dials, negotiates RESP3 when the   *)
(* case asks for it, and flushes the database; then, for every step, it    *)
(* sends the command to each client in the order of a Go map iteration,    *)
(* which is arbitrary, and compares the replies to the baseline's.         *)
(*                                                                         *)
(* The servers are the environment.  A server answers with any reply, may  *)
(* fail a call (reset, undecodable reply, deadline), may answer FLUSHDB    *)
(* with an error reply if it is in MayRefuse, and may stop answering for   *)
(* good if it is in MayHang.  A call to a server that hangs returns only   *)
(* if a deadline was set on its connection.                                *)
(***************************************************************************)
EXTENDS CaseComparison

CONSTANTS
  MayHang,    \* the targets that may stop answering
  MayRefuse,  \* the targets that may answer FLUSHDB with an error reply
  NoKind      \* no target

ASSUME NoKindAssumption == NoKind \notin Kinds

VARIABLES
  runner,   \* the receiver of Run, fixed
  case,     \* the argument of Run, fixed
  pc,       \* "dial", "hello", "flush", "step" or "done"
  setup,    \* the index in runner.targets of the set-up loop
  clients,  \* the kinds in the clients map
  open,     \* the kinds Run holds an open connection to
  armed,    \* the kinds whose connection has a deadline
  asking,   \* the kind whose reply Do is waiting for in a step, or NoKind
  pending,  \* the kinds the range over clients has yet to finish
  replies,  \* step.Replies
  res,      \* the CaseResult: [steps, pass, mismatch, err]
  hung,     \* the servers that have stopped answering
  flushed   \* the servers that emptied their database for this run

vars == <<runner, case, pc, setup, clients, open, armed, asking, pending,
          replies, res, hung, flushed>>

args == <<runner, case>>
round == <<asking, pending, replies>>

Base == BaselineKind(runner)
Current == runner.targets[setup]
NoReplies == [k \in {} |-> NoKind]

\* A call fails at any time on a server that answers, and on one that does
\* not only through a deadline.
CanFail(k) == k \notin hung \/ k \in armed

-----------------------------------------------------------------------------
Init ==
  /\ runner \in Runners
  /\ case \in Cases
  /\ pc = "dial"
  /\ setup = 1
  /\ clients = {}
  /\ open = {}
  /\ armed = {}
  /\ asking = NoKind
  /\ pending = {}
  /\ replies = NoReplies
  /\ res = [steps |-> <<>>, pass |-> TRUE, mismatch |-> 0, err |-> "none"]
  /\ hung = {}
  /\ flushed = {}

\* Mutant: the connection that failed its FLUSHDB is forgotten.
KeepsFailedConnection == open \ clients

\* A set-up failure closes the connection at hand and all the clients.
OpenAfterFailedSetup == open \ (clients \cup {Current})

\* Run returns an error before the first step.
SetupFails(err) ==
  /\ res' = [res EXCEPT !.pass = FALSE, !.err = err]
  /\ open' = OpenAfterFailedSetup
  /\ pc' = "done"
  /\ UNCHANGED <<args, setup, clients, armed, round, hung, flushed>>

DialOpens ==
  /\ pc = "dial"
  /\ open' = open \cup {Current}
  /\ armed' = armed \ {Current}
  /\ pc' = IF case.proto = 3 THEN "hello" ELSE "flush"
  /\ UNCHANGED <<args, setup, clients, round, res, hung, flushed>>

\* DialTimeout bounds the dial, so it can fail on any target.
DialFails == pc = "dial" /\ SetupFails("dial")

HelloAgrees ==
  /\ pc = "hello"
  /\ Current \notin hung
  /\ pc' = "flush"
  /\ UNCHANGED <<args, setup, clients, open, armed, round, res, hung, flushed>>

\* The server refuses HELLO 3, or the call fails.
HelloFails == pc = "hello" /\ CanFail(Current) /\ SetupFails("dial")

\* Mutant: only the baseline's database is flushed.
FlushesBaselineOnly(k) == IF k = Base THEN flushed \cup {k} ELSE flushed

FlushedWith(k) == flushed \cup {k}

\* Do returned a reply.  The code drops it, so an error reply counts too.
FlushReturns ==
  /\ pc = "flush"
  /\ Current \notin hung
  /\ \/ flushed' = FlushedWith(Current)
     \/ Current \in MayRefuse /\ UNCHANGED flushed
  /\ clients' = clients \cup {Current}
  /\ setup' = setup + 1
  /\ IF setup < Len(runner.targets)
     THEN pc' = "dial" /\ UNCHANGED pending
     ELSE pc' = "step" /\ pending' = Asked(runner, case)
  /\ UNCHANGED <<args, open, armed, asking, replies, res, hung>>

FlushFails == pc = "flush" /\ CanFail(Current) /\ SetupFails("flushdb")

-----------------------------------------------------------------------------
\* Mutant: no deadline is set before a command.
ArmedNever(k) == armed

ArmedFor(k) == armed \cup {k}

\* SetDeadline, then Do writes the command.
SendCommand(k) ==
  /\ pc = "step"
  /\ Len(res.steps) < case.steps
  /\ asking = NoKind
  /\ k \in pending
  /\ armed' = ArmedFor(k)
  /\ asking' = k
  /\ UNCHANGED <<args, pc, setup, clients, open, pending, replies, res, hung,
                 flushed>>

RepliesWith(k, v) ==
  [j \in DOMAIN replies \cup {k} |-> IF j = k THEN v ELSE replies[j]]

ReceiveReply(v) ==
  /\ asking # NoKind
  /\ asking \notin hung
  /\ replies' = RepliesWith(asking, v)
  /\ pending' = pending \ {asking}
  /\ asking' = NoKind
  /\ UNCHANGED <<args, pc, setup, clients, open, armed, res, hung, flushed>>

\* Mutant: a failed call keeps the verdict reached so far.
FailureKeepsVerdict(r) ==
  [r EXCEPT !.err = "step", !.steps = Append(@, replies)]

WithFailure(r) ==
  [r EXCEPT !.pass = FALSE, !.err = "step", !.steps = Append(@, replies)]

\* Do failed: Run reports the part of the step it has, without comparing it,
\* and the deferred closeClients runs.
StepFails ==
  /\ asking # NoKind
  /\ CanFail(asking)
  /\ res' = WithFailure(res)
  /\ pc' = "done"
  /\ open' = open \ clients
  /\ asking' = NoKind
  /\ pending' = {}
  /\ replies' = NoReplies
  /\ UNCHANGED <<args, setup, clients, armed, hung, flushed>>

\* Mutant: Mismatch points at the last step that diverged.
LastMismatch(old, n, diverged) == IF diverged THEN n ELSE old

\* Mutant: Mismatch points one step too early.
MismatchBefore(old, n, diverged) ==
  IF diverged /\ old = 0 THEN n - 2 ELSE old

FirstMismatch(old, n, diverged) == IF diverged /\ old = 0 THEN n ELSE old

\* Mutant: a later step that agrees clears the failure.
PassOfLatestStep(old, diverged) == ~diverged

PassSoFar(old, diverged) == old /\ ~diverged

\* The range over clients is complete: record the step and compare it.
CompareStep ==
  /\ pc = "step"
  /\ Len(res.steps) < case.steps
  /\ asking = NoKind
  /\ pending = {}
  /\ LET n == Len(res.steps) + 1
         diverged == Diverges(runner, case, replies, n)
     IN  res' = [steps    |-> Append(res.steps, replies),
                 pass     |-> PassSoFar(res.pass, diverged),
                 mismatch |-> FirstMismatch(res.mismatch, n, diverged),
                 err      |-> res.err]
  /\ pending' = Asked(runner, case)
  /\ replies' = NoReplies
  /\ UNCHANGED <<args, pc, setup, clients, open, armed, asking, hung, flushed>>

\* All steps are done: the deferred closeClients runs and Run returns.
ReturnVerdict ==
  /\ pc = "step"
  /\ Len(res.steps) = case.steps
  /\ pc' = "done"
  /\ open' = open \ clients
  /\ pending' = {}
  /\ UNCHANGED <<args, setup, clients, armed, asking, replies, res, hung,
                 flushed>>

-----------------------------------------------------------------------------
\* Run itself: every step needs only the runner and a server that answers.
RunnerStep ==
  \/ DialOpens \/ DialFails
  \/ HelloAgrees \/ HelloFails
  \/ FlushReturns \/ FlushFails
  \/ \E k \in Kinds : SendCommand(k)
  \/ \E v \in Replies : ReceiveReply(v)
  \/ StepFails
  \/ CompareStep
  \/ ReturnVerdict

\* The environment: a server stops answering.
ServerHangs(k) ==
  /\ pc # "done"
  /\ k \in (MayHang \cap TargetKinds(runner)) \ hung
  /\ hung' = hung \cup {k}
  /\ UNCHANGED <<args, pc, setup, clients, open, armed, round, res, flushed>>

Done == pc = "done" /\ UNCHANGED vars

Next == RunnerStep \/ (\E k \in Kinds : ServerHangs(k)) \/ Done

Spec == Init /\ [][Next]_vars

\* Run is one goroutine and its calls to a server that answers return, so it
\* does not stop while it has a step to take.  Nothing is asked of ServerHangs.
FairSpec == Spec /\ WF_vars(RunnerStep)

-----------------------------------------------------------------------------
Phases == {"dial", "hello", "flush", "step", "done"}
Errors == {"none", "dial", "flushdb", "step"}

\* Every variable has its type.
TypeOK ==
  /\ runner \in Runners
  /\ case \in Cases
  /\ pc \in Phases
  /\ setup \in 1..(Len(runner.targets) + 1)
  /\ clients \in SUBSET Kinds
  /\ open \in SUBSET Kinds
  /\ armed \in SUBSET Kinds
  /\ asking \in Kinds \cup {NoKind}
  /\ pending \in SUBSET Kinds
  /\ replies \in StepReplies
  /\ res \in [steps : Seq(StepReplies), pass : BOOLEAN, mismatch : Nat,
              err : Errors]
  /\ hung \in SUBSET Kinds
  /\ flushed \in SUBSET Kinds

\* The steps that were compared: a failed call leaves a last one that was not.
Compared == IF res.err = "step" THEN Len(res.steps) - 1 ELSE Len(res.steps)

\* The verdict is about the whole trace, whatever the order of the replies
\* within a step and however many divergences there were: Mismatch is the
\* first compared step at which some target disagreed with the baseline, none
\* if there is no such step; and Pass holds exactly when there is none and
\* every call returned (case.go:118-120, 162-164).
VerdictIsFirstDivergence ==
  /\ res.mismatch = 0 =>
       \A i \in 1..Compared : ~Diverges(runner, case, res.steps[i], i)
  /\ res.mismatch # 0 =>
       /\ res.mismatch \in 1..Compared
       /\ FirstDivergence(runner, case, res.steps, res.mismatch)
  /\ res.pass <=> res.mismatch = 0 /\ res.err = "none"

\* A step that counts towards the verdict holds the reply of the baseline and
\* of every target the case does not skip, so the "no baseline reply, nothing
\* to compare" branch (case.go:210-213) is never what makes a case pass.
EveryStepIsCompared ==
  \A i \in 1..Compared :
    /\ Base \in DOMAIN res.steps[i]
    /\ DOMAIN res.steps[i] = TargetKinds(runner) \ (case.skip \ {Base})

\* When Run returns, on whichever of its four paths, every connection it
\* opened is closed (case.go:171-187).
NoConnectionLeft == pc = "done" => open = {}

\* A step runs only when the database of every target was emptied first, if
\* the servers accept FLUSHDB (case.go:177-184, README.md:19).
StepsRunOnFlushedDatabases ==
  pc = "step" => TargetKinds(runner) \ MayRefuse \subseteq flushed

\* A returned verdict of a completed run covers every step, and its Mismatch
\* is an index into Steps, which main.go:88 and differential_test.go:71 use
\* without a check.
ReportIsInRange ==
  pc = "done" /\ res.err = "none" =>
    /\ Len(res.steps) = case.steps
    /\ ~res.pass => res.mismatch \in DOMAIN res.steps

\* A verdict is never taken back: once a divergence or an error is recorded
\* no later step changes it (case.go:220-223).
VerdictNeverRetracted ==
  [][ /\ ~res.pass => ~res'.pass
      /\ res.mismatch # 0 => res'.mismatch = res.mismatch
      /\ res.err # "none" => res' = res ]_vars

\* A server that stops answering ends the case, not the suite: Run returns
\* unless the server stopped before it answered HELLO or FLUSHDB
\* (case.go:197, client.go:43-45).
RunEndsUnlessHungInSetup ==
  \/ <>(pc = "done")
  \/ <>[](pc \in {"hello", "flush"} /\ Current \in hung)

-----------------------------------------------------------------------------
\* The outcome the abstract specification sees.
Outcome ==
  IF pc # "done" THEN [status |-> "running", at |-> 0]
  ELSE IF res.err # "none" THEN [status |-> "error", at |-> 0]
  ELSE IF res.pass THEN [status |-> "pass", at |-> 0]
  ELSE [status |-> "fail", at |-> res.mismatch]

V == INSTANCE CaseVerdict WITH transcript <- res.steps, outcome <- Outcome

\* Run implements the abstract verdict.
ImplementsVerdict == V!Spec

-----------------------------------------------------------------------------
\* What an inductive proof of the properties above needs to know.

\* The clients map holds the targets that were set up, in their order, and
\* Run holds the connections of those and of the one being set up.
SetupInv ==
  /\ clients = {runner.targets[i] : i \in 1..(setup - 1)}
  /\ pc \in {"dial", "hello", "flush"} => setup <= Len(runner.targets)
  /\ pc = "step" => setup = Len(runner.targets) + 1
  /\ pc \in {"dial", "step"} => open = clients
  /\ pc \in {"hello", "flush"} => open = clients \cup {Current}
  /\ pc = "done" => open = {}

\* Within a step the replies held and the kinds pending split the targets
\* that are asked.
RoundInv ==
  /\ pending \subseteq Asked(runner, case)
  /\ pc \in {"dial", "hello", "flush"} => replies = NoReplies
  /\ pc = "step" => DOMAIN replies = Asked(runner, case) \ pending
  /\ asking # NoKind =>
       pc = "step" /\ asking \in pending /\ Len(res.steps) < case.steps

\* How far the transcript is.
ProgressInv ==
  /\ Len(res.steps) <= case.steps
  /\ pc # "done" => res.err = "none"
  /\ pc = "done" /\ res.err = "none" => Len(res.steps) = case.steps
  /\ res.err = "step" => res.steps # <<>>

\* Every server set up so far that accepts FLUSHDB was flushed.
FlushInv == pc # "done" => clients \ MayRefuse \subseteq flushed

IInv ==
  /\ TypeOK
  /\ SetupInv
  /\ RoundInv
  /\ ProgressInv
  /\ FlushInv
  /\ VerdictIsFirstDivergence
  /\ EveryStepIsCompared

-----------------------------------------------------------------------------
\* A hung server fails the case instead of the whole run (client.go:43-44).
HungServerEndsRun == <>(pc = "done")

\* Cases do not leak into each other: every step of a case runs on databases
\* that were emptied for it (README.md:19).
CasesDoNotLeak == pc = "step" => flushed = TargetKinds(runner)

\* A case does not report a failure over a kind it skips (case.go:82-87).
SkippedKindFailsNoCase ==
  pc = "done" /\ res.mismatch # 0 => Base \notin case.skip

\* A case that passes compared some target to the baseline (case.go:87,
\* main.go:4-6).
PassComparesSomething ==
  pc = "done" /\ res.pass => Asked(runner, case) # {Base}
=============================================================================
