---------------------------- MODULE CaseIsolation ----------------------------
(***************************************************************************)
(* The whole suite against servers that live on: one case after another,   *)
(* each on a flushed database 0, on servers that all do the right thing.   *)
(* What the table of differential/coll_keyops.go and Runner.Run owe the    *)
(* user here is that such servers never look different, whatever an        *)
(* earlier case or an earlier run of the harness left behind.              *)
(*                                                                         *)
(* A case ends early when a call fails: the command was not executed, or   *)
(* was and its reply is lost, or is executed later, by a server that had   *)
(* it in its input when the deadline passed.  The harness may also be      *)
(* killed and started again on the same servers (Connect).                 *)
(***************************************************************************)
EXTENDS Keyspace

CONSTANTS
  Kinds,         \* the targets
  BaselineKind,  \* the one the others are compared to
  Suite,         \* the cases, each a sequence of commands
  Alone,         \* Alone[i][n]: what a server that runs case i only, on empty
                 \* databases, holds and has selected before step n
  FirstDbs,      \* what the databases of a server may hold at first
  Failures,      \* a subset of {"lost", "late", "killed"}
  Runs,          \* bound: how often the harness is started
  MaxBroken,     \* bound: how often a case is broken off
  Nothing        \* no command

ASSUME SuiteAssumption ==
  /\ BaselineKind \in Kinds
  /\ Failures \subseteq {"lost", "late", "killed"}
  /\ Runs \in Nat \ {0}
  /\ MaxBroken \in Nat
  /\ FirstDbs \subseteq [DbIds -> Database]
  /\ Suite \in Seq(Seq(Commands) \ {<<>>})

ASSUME AloneAssumption ==
  \A i \in DOMAIN Suite :
    /\ Alone[i][1] = [dbs |-> [d \in DbIds |-> EmptyDb], sel |-> 0]
    /\ \A n \in DOMAIN Suite[i] :
         LET after == Execute(Suite[i][n], Alone[i][n].dbs, Alone[i][n].sel)
         IN  Alone[i][n + 1] = [dbs |-> after.dbs, sel |-> after.sel]

VARIABLES
  dbs,      \* each server's databases
  sel,      \* the database the harness' connection to a server selected
  late,     \* a command a server has yet to execute for a closed connection
  run,      \* how often the harness was started
  at,       \* the case it is at
  step,     \* the step, or 0 before the set-up of the case
  pending,  \* the targets that have yet to answer the step
  replies,  \* their replies, {} for none yet
  failed,   \* the case, or before its set-up the last one, is reported as FAIL
  broken,   \* how many cases were broken off
  disturbed, \* history: in the middle of this case a server executed the command
             \* of an earlier one
  strayed   \* history: database 1 of a server was in use at first, or a case
            \* that works on it was broken off or disturbed

vars ==
  <<dbs, sel, late, run, at, step, pending, replies, failed, broken, disturbed, strayed>>

servers == <<dbs, sel, late>>

history == <<disturbed, strayed>>

NoReplies == [k \in Kinds |-> {}]

Init ==
  /\ dbs \in [Kinds -> FirstDbs]
  /\ sel = [k \in Kinds |-> 0]
  /\ late = [k \in Kinds |-> Nothing]
  /\ run = 1
  /\ at = 1
  /\ step = 0
  /\ pending = {}
  /\ replies = NoReplies
  /\ failed = FALSE
  /\ broken = 0
  /\ strayed = (\E k \in Kinds : dbs[k][1] # EmptyDb)
  /\ disturbed = FALSE

Flushed(S) ==
  [k \in Kinds |-> IF k \in S THEN [dbs[k] EXCEPT ![0] = EmptyDb] ELSE dbs[k]]

\* Mutant: a case starts on the database the last one left.
NotFlushed == dbs

FlushedForCase == Flushed(Kinds)

\* A fresh connection to every target, which selects database 0, and FLUSHDB.
StartCase ==
  /\ at <= Len(Suite)
  /\ step = 0
  /\ dbs' = FlushedForCase
  /\ sel' = [k \in Kinds |-> 0]
  /\ step' = 1
  /\ pending' = Kinds
  /\ replies' = NoReplies
  /\ failed' = FALSE
  /\ UNCHANGED <<late, run, at, broken, history>>

\* Run returned: the loop over Cases() goes on.
NextCase ==
  /\ at' = at + 1
  /\ step' = 0
  /\ pending' = {}
  /\ replies' = NoReplies
  /\ disturbed' = FALSE
  /\ UNCHANGED run

\* The set-up fails at some target, after the ones before it were flushed.
SetupFails ==
  /\ "lost" \in Failures
  /\ broken < MaxBroken
  /\ broken' = broken + 1
  /\ at <= Len(Suite)
  /\ step = 0
  /\ \E S \in SUBSET Kinds : S # Kinds /\ dbs' = Flushed(S)
  /\ NextCase
  /\ UNCHANGED <<sel, late, failed, strayed>>

Command == Suite[at][step]

\* Server k executes command c on its connection's database s.
Executes(k, c, s) ==
  LET after == Execute(c, dbs[k], s)
  IN  /\ dbs' = [dbs EXCEPT ![k] = after.dbs]
      /\ sel' = [sel EXCEPT ![k] = after.sel]

Ask(k) ==
  /\ step # 0
  /\ k \in pending
  /\ Executes(k, Command, sel[k])
  /\ replies' = [replies EXCEPT ![k] = Execute(Command, dbs[k], sel[k]).reply]
  /\ pending' = pending \ {k}
  /\ UNCHANGED <<late, run, at, step, failed, broken, history>>

\* Mutant: the loop over c.Steps runs one step too far.
PastLastStep(n) == n > Len(Suite[at])

LastStep(n) == n = Len(Suite[at])

CompareStep ==
  /\ step # 0
  /\ pending = {}
  /\ failed' = (failed \/ \E k \in Kinds : replies[k] # replies[BaselineKind])
  /\ IF LastStep(step)
     THEN NextCase
     ELSE /\ step' = step + 1
          /\ pending' = Kinds
          /\ replies' = NoReplies
          /\ UNCHANGED <<at, run, disturbed>>
  /\ UNCHANGED <<servers, broken, strayed>>

StaysInDatabase0(i) == \A n \in DOMAIN Suite[i] : Suite[i][n] \in LocalCommands

\* A case is broken off in the middle.  What it leaves in another database than
\* 0 outlives the FLUSHDB of the next one.
BrokenOff ==
  /\ broken < MaxBroken
  /\ broken' = broken + 1
  /\ strayed' = (strayed \/ ~StaysInDatabase0(at))

\* A call fails in the middle of a case: the command was never executed, or it
\* was, or it is left in the input of the server.
CallFails(k) ==
  /\ step # 0
  /\ k \in pending
  /\ \/ "lost" \in Failures /\ UNCHANGED servers
     \/ /\ "lost" \in Failures
        /\ Executes(k, Command, sel[k])
        /\ UNCHANGED late
     \/ /\ "late" \in Failures
        /\ late[k] = Nothing
        /\ late' = [late EXCEPT ![k] = [cmd |-> Command, sel |-> sel[k]]]
        /\ UNCHANGED <<dbs, sel>>
  /\ BrokenOff
  /\ NextCase
  /\ UNCHANGED failed

\* Between two cases this disturbs none: the next one flushes first.
ExecuteLate(k) ==
  /\ late[k] # Nothing
  /\ dbs' = [dbs EXCEPT ![k] = Execute(late[k].cmd, dbs[k], late[k].sel).dbs]
  /\ late' = [late EXCEPT ![k] = Nothing]
  /\ disturbed' = (step # 0)
  /\ strayed' = (strayed \/ (step # 0 /\ ~StaysInDatabase0(at)))
  /\ UNCHANGED <<sel, run, at, step, pending, replies, failed, broken>>

\* The harness is started again, after its last case or because it was killed.
Rerun ==
  /\ run < Runs
  /\ at > Len(Suite) \/ "killed" \in Failures
  /\ run' = run + 1
  /\ at' = 1
  /\ step' = 0
  /\ pending' = {}
  /\ replies' = NoReplies
  /\ failed' = FALSE
  /\ disturbed' = FALSE
  /\ IF step = 0 THEN UNCHANGED <<broken, strayed>> ELSE BrokenOff
  /\ UNCHANGED servers

Next ==
  \/ StartCase
  \/ SetupFails
  \/ CompareStep
  \/ Rerun
  \/ \E k \in Kinds : Ask(k) \/ CallFails(k) \/ ExecuteLate(k)

Spec == Init /\ [][Next]_vars

-----------------------------------------------------------------------------
\* Every variable has its type.
TypeOK ==
  /\ dbs \in [Kinds -> [DbIds -> Database]]
  /\ sel \in [Kinds -> DbIds]
  /\ late \in [Kinds -> {Nothing} \cup [cmd : Commands, sel : DbIds]]
  /\ run \in 1..Runs
  /\ at \in 1..(Len(Suite) + 1)
  /\ step = 0 \/ (at \in DOMAIN Suite /\ step \in DOMAIN Suite[at])
  /\ pending \subseteq Kinds
  /\ DOMAIN replies = Kinds
  /\ failed \in BOOLEAN
  /\ broken \in 0..MaxBroken
  /\ strayed \in BOOLEAN /\ disturbed \in BOOLEAN

\* Servers that behave alike are reported as different in two cases only: in a
\* case in the middle of which a server executes a command that an earlier one
\* left in its input, and in a case that works on database 1, if that was in use
\* when the harness first met the servers or an earlier such case was broken
\* off or disturbed.  In database 0 only the first can happen, whatever the
\* databases held at first (README.md:19, case.go:70-72, target.go:85).
NoFalseFailure ==
  [][failed' /\ ~failed => disturbed \/ (strayed /\ ~StaysInDatabase0(at))]_vars

\* Between two cases database 1, which the runner does not flush, is as empty
\* as it was at first, unless a case that works on it was broken off or disturbed,
\* even if the commands of other cases are executed late (coll_keyops.go:107-109).
NoResidue ==
  step = 0 /\ ~strayed => \A k \in Kinds : dbs[k][1] = EmptyDb

\* No server executed an earlier case's command in this one, and it does not
\* depend on what an earlier one, or the user, left in database 1.
Undisturbed == ~disturbed /\ (strayed => StaysInDatabase0(at))

\* Targets that have answered the same steps of a case agree on database 0 and
\* on the database selected: the order in which a step asks them is invisible.
AnsweredAlike ==
  step # 0 /\ Undisturbed =>
    \A k, l \in Kinds :
      (k \in pending <=> l \in pending) =>
        dbs[k][0] = dbs[l][0] /\ sel[k] = sel[l]

\* A case runs as if it were the only one, on servers that were never used:
\* nothing an earlier case, a failed call or an earlier run of the harness did
\* shows in what its commands find in database 0, do there or reply, and unless
\* database 1 is in use, in database 1 (README.md:19, case.go:70-72).
RunsAsAlone ==
  step # 0 /\ Undisturbed =>
    \A k \in Kinds :
      LET asked == Alone[at][step]
          now == Alone[at][IF k \in pending THEN step ELSE step + 1]
      IN  /\ dbs[k][0] = now.dbs[0] /\ sel[k] = now.sel
          /\ ~strayed => dbs[k] = now.dbs
          /\ k \notin pending =>
               replies[k] = Execute(Command, asked.dbs, asked.sel).reply

\* What this takes of the scripts: database 1, which no set-up flushes, is empty
\* again at the end of a case.
CleanScripts ==
  \A i \in DOMAIN Suite : Alone[i][Len(Suite[i]) + 1].dbs[1] = EmptyDb

-----------------------------------------------------------------------------
\* What the documentation says and the code does not do.

\* "so cases do not leak into each other" (README.md:19)
CasesDoNotLeak == ~failed

\* "so it leaves no residue" (coll_keyops.go:108-109)
MoveLeavesNoResidue == step = 0 => \A k \in Kinds : dbs[k][1] = EmptyDb
=============================================================================
