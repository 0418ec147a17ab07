------------------------------- MODULE Harness -------------------------------
(***************************************************************************)
(* A whole run of the suite: the command of cmd/aki-compat and the test of *)
(* differential_test.go, which open the same targets through target.go,    *)
(* run every case and close the targets.  Servers and the machine they run *)
(* on are the environment.                                                 *)
(*                                                                         *)
(* A case is one step here, with one of the three results that             *)
(* DifferentialRunner computes, or no step at all while its set-up waits   *)
(* for a target that listens and does not answer: HELLO and FLUSHDB have   *)
(* no deadline.  A wait for a listener is one step too: at its last dial   *)
(* somebody listens, or nobody does.                                       *)
(***************************************************************************)
EXTENDS Integers, Sequences, FiniteSets, SequencesExt

CONSTANTS
  Order,    \* the targets in the order of the specs
  Redis,    \* the preferred baseline, the first of the specs
  Entries,  \* a subset of {"command", "test"}
  Mishaps,  \* a subset of {"crash", "hang", "refusal", "stranger", "removal", "killed"}
  Cases     \* how many cases there are

Kinds == ToSet(Order)

ASSUME HarnessAssumption ==
  /\ Order \in Seq(Kinds) /\ IsInjective(Order)
  /\ Order # <<>> /\ Redis = Order[1]
  /\ Cases \in Nat \ {0}

VARIABLES
  entry,      \* who runs the suite
  addressed,  \* the targets given by an address
  onPath,     \* the targets whose binary is on PATH
  listener,   \* who listens at a target's address: "none", "server", "stranger"
  mute,       \* the targets whose listener takes connections and answers none
  process,    \* the process the harness spawned: "none", "running", "exited"
  dirs,       \* the targets that have a temporary directory
  unremoved,  \* history: the targets whose directory could not be removed
  pc,
  at,         \* index in Order of the target being opened
  opened,     \* the targets opened and not closed
  baseline,   \* {} or the one baseline
  passed, failed,
  lost,       \* history: a case was run while an opened target did not listen
  exit        \* "none", "ok", "error", "skipped", "killed"

config == <<entry, addressed, onPath>>
outside == <<listener, mute, process>>
disk == <<dirs, unremoved>>
counts == <<passed, failed, lost>>
vars == <<config, outside, disk, pc, at, opened, baseline, counts, exit>>

Init ==
  /\ entry \in Entries
  /\ addressed \in SUBSET Kinds
  /\ onPath \in SUBSET Kinds
  /\ listener \in [Kinds -> {"none", "server"}]
  /\ \A k \in Kinds \ addressed : listener[k] = "none"
  /\ mute = {}
  /\ process = [k \in Kinds |-> "none"]
  /\ dirs = {} /\ unremoved = {}
  /\ pc = "available"
  /\ at = 1
  /\ opened = <<>>
  /\ baseline = {}
  /\ passed = 0 /\ failed = 0 /\ lost = FALSE
  /\ exit = "none"

Listens(k) == listener[k] # "none"

-----------------------------------------------------------------------------
\* The environment.

\* A spawned server binds its port, or finds it taken and exits.
Binds(k) ==
  /\ process[k] = "running"
  /\ \/ /\ listener[k] = "none"
        /\ listener' = [listener EXCEPT ![k] = "server"]
        /\ UNCHANGED process
     \/ /\ listener[k] = "stranger"
        /\ process' = [process EXCEPT ![k] = "exited"]
        /\ UNCHANGED listener
  /\ UNCHANGED <<config, mute, disk, pc, at, opened, baseline, counts, exit>>

\* The server at an address is gone, and its connections with it.
ServerGone(k) ==
  /\ listener' = IF listener[k] = "server"
                 THEN [listener EXCEPT ![k] = "none"] ELSE listener
  /\ mute' = IF listener[k] = "server" THEN mute \ {k} ELSE mute

\* A server goes away, spawned or not.
Crashes(k) ==
  /\ "crash" \in Mishaps
  /\ process[k] = "running" \/ listener[k] = "server"
  /\ process' = IF process[k] = "running"
                THEN [process EXCEPT ![k] = "exited"] ELSE process
  /\ ServerGone(k)
  /\ UNCHANGED <<config, disk, pc, at, opened, baseline, counts, exit>>

\* A server, or whoever else listens, answers no more.
Hangs(k) ==
  /\ "hang" \in Mishaps
  /\ Listens(k)
  /\ mute' = mute \cup {k}
  /\ UNCHANGED <<config, listener, process, disk, pc, at, opened, baseline,
                 counts, exit>>

\* freePort has closed its listener: another program is given the port.
TakesPort(k) ==
  /\ "stranger" \in Mishaps
  /\ pc \in {"start", "wait"} /\ Order[at] = k
  /\ listener[k] = "none"
  /\ listener' = [listener EXCEPT ![k] = "stranger"]
  /\ UNCHANGED <<config, mute, process, disk, pc, at, opened, baseline, counts,
                 exit>>

Environment ==
  \E k \in Kinds : Binds(k) \/ Crashes(k) \/ Hangs(k) \/ TakesPort(k)

-----------------------------------------------------------------------------
\* Opening the targets.

GoOn ==
  /\ at' = at + 1
  /\ pc' = IF at = Len(Order) THEN "baseline" ELSE "available"

SkipTarget == GoOn /\ UNCHANGED opened

OpenTarget == GoOn /\ opened' = Append(opened, Order[at])

\* The error of RemoveAll is dropped; what it leaves is left.
RemoveDir(k) ==
  \/ dirs' = dirs \ {k} /\ UNCHANGED unremoved
  \/ "removal" \in Mishaps /\ unremoved' = unremoved \cup {k} /\ UNCHANGED dirs

\* Mutant: Close of a spawned target leaves its process running.
LeavesProcess(k) ==
  /\ RemoveDir(k)
  /\ UNCHANGED outside

\* Target.Close, of a target that is owned.
StopServer(k) ==
  /\ RemoveDir(k)
  /\ process' = [process EXCEPT ![k] = "none"]
  /\ ServerGone(k)

Available(k) == IF k \in addressed THEN Listens(k) ELSE k \in onPath

Check ==
  /\ pc = "available"
  /\ \/ ~Available(Order[at]) /\ SkipTarget
     \/ Available(Order[at]) /\ pc' = "open" /\ UNCHANGED <<at, opened>>
  /\ UNCHANGED <<config, outside, disk, baseline, counts, exit>>

Connect ==
  /\ pc = "open"
  /\ Order[at] \in addressed
  /\ IF Listens(Order[at]) THEN OpenTarget ELSE SkipTarget
  /\ UNCHANGED <<config, outside, disk, baseline, counts, exit>>

\* Spawn up to MkdirTemp; without a port or a directory the target is skipped.
Prepare ==
  /\ pc = "open"
  /\ Order[at] \notin addressed
  /\ \/ "refusal" \in Mishaps /\ SkipTarget /\ UNCHANGED dirs
     \/ dirs' = dirs \cup {Order[at]} /\ pc' = "start" /\ UNCHANGED <<at, opened>>
  /\ UNCHANGED <<config, outside, unremoved, baseline, counts, exit>>

\* cmd.Start; a directory without a process is removed.
Start ==
  /\ pc = "start"
  /\ \/ /\ "refusal" \in Mishaps
        /\ SkipTarget
        /\ RemoveDir(Order[at])
        /\ UNCHANGED process
     \/ /\ process' = [process EXCEPT ![Order[at]] = "running"]
        /\ pc' = "wait"
        /\ UNCHANGED <<at, opened, disk>>
  /\ UNCHANGED <<config, listener, mute, baseline, counts, exit>>

\* Mutant: the wait has no deadline.
NeverExpires(k) == FALSE

Expires(k) == ~Listens(k)

AwaitListener ==
  /\ pc = "wait"
  /\ \/ Listens(Order[at]) /\ OpenTarget /\ UNCHANGED <<outside, disk>>
     \/ Expires(Order[at]) /\ SkipTarget /\ StopServer(Order[at])
  /\ UNCHANGED <<config, baseline, counts, exit>>

-----------------------------------------------------------------------------
\* Running the cases.

\* Mutant: the last target opened is the baseline.
LastOpened(s) == s[Len(s)]

PreferRedis(s) == IF Redis \in ToSet(s) THEN Redis ELSE s[1]

\* Mutant: one target is enough.
EnoughAlone(s) == Len(s) >= 1

Enough(s) == Len(s) >= 2

ChooseBaseline ==
  /\ pc = "baseline"
  /\ \/ /\ Enough(opened)
        /\ baseline' = {PreferRedis(opened)}
        /\ pc' = "case"
        /\ UNCHANGED exit
     \/ /\ ~Enough(opened)
        /\ exit' = IF entry = "test" THEN "skipped" ELSE "error"
        /\ pc' = "close"
        /\ UNCHANGED baseline
  /\ UNCHANGED <<config, outside, disk, at, opened, counts>>

\* Mutant: a case that could not be run is not counted as a failure.
ErrorsUncounted == {"fail"}

CountedAsFailed == {"fail", "error"}

\* Mutant: one case too many.
OneMoreCase == passed + failed <= Cases

CasesLeft == passed + failed < Cases

\* The set-up of a case dials the targets in turn and waits for the replies of
\* each to HELLO and FLUSHDB: it fails at the first target that does not listen,
\* unless it has to wait for a mute one before.
SetupReturns ==
  \A i \in DOMAIN opened :
    opened[i] \in mute => \E j \in 1..(i - 1) : ~Listens(opened[j])

\* A case passes only if every target listens; whether it does then is up to
\* the servers.
RunCase ==
  /\ pc = "case"
  /\ CasesLeft
  /\ SetupReturns
  /\ LET reachable == \A k \in ToSet(opened) : Listens(k)
     IN  /\ \E result \in {"pass", "fail", "error"} :
              /\ ~reachable => result = "error"
              /\ failed' = failed + (IF result \in CountedAsFailed THEN 1 ELSE 0)
              /\ passed' = passed + (IF result \in CountedAsFailed THEN 0 ELSE 1)
         /\ lost' = (lost \/ ~reachable)
  /\ UNCHANGED <<config, outside, disk, pc, at, opened, baseline, exit>>

Report ==
  /\ pc = "case"
  /\ ~CasesLeft
  /\ exit' = IF failed > 0 THEN "error" ELSE "ok"
  /\ pc' = "close"
  /\ UNCHANGED <<config, outside, disk, at, opened, baseline, counts>>

\* The deferred calls of Close, in reverse order.
CloseLast ==
  /\ pc = "close"
  /\ opened # <<>>
  /\ opened' = Front(opened)
  /\ IF Last(opened) \in addressed
     THEN UNCHANGED <<outside, disk>>
     ELSE StopServer(Last(opened))
  /\ UNCHANGED <<config, pc, at, baseline, counts, exit>>

Return ==
  /\ pc = "close"
  /\ opened = <<>>
  /\ pc' = "ended"
  /\ UNCHANGED <<config, outside, disk, at, opened, baseline, counts, exit>>

\* The process of the harness is interrupted; no deferred call is made.
Killed ==
  /\ "killed" \in Mishaps
  /\ pc # "ended"
  /\ pc' = "ended"
  /\ exit' = "killed"
  /\ UNCHANGED <<config, outside, disk, at, opened, baseline, counts>>

Run ==
  \/ Check \/ Connect \/ Prepare \/ Start \/ AwaitListener
  \/ ChooseBaseline \/ RunCase \/ Report \/ CloseLast \/ Return

Next == Environment \/ Run \/ Killed

Spec == Init /\ [][Next]_vars

\* Every step of the harness returns whenever it can: dials, waits and the steps
\* of a case have a deadline, and SetupReturns says when the exchanges without
\* one do.  The servers owe nothing.
FairSpec == Spec /\ WF_vars(Run)

-----------------------------------------------------------------------------
\* Every variable has its type.
TypeOK ==
  /\ entry \in Entries
  /\ addressed \subseteq Kinds /\ onPath \subseteq Kinds
  /\ listener \in [Kinds -> {"none", "server", "stranger"}]
  /\ process \in [Kinds -> {"none", "running", "exited"}]
  /\ mute \subseteq Kinds
  /\ dirs \subseteq Kinds /\ unremoved \subseteq Kinds
  /\ pc \in {"available", "open", "start", "wait", "baseline", "case", "close", "ended"}
  /\ at \in 1..(Len(Order) + 1)
  /\ opened \in Seq(Kinds)
  /\ baseline \subseteq Kinds
  /\ passed \in 0..Cases /\ failed \in 0..Cases /\ lost \in BOOLEAN
  /\ exit \in {"none", "ok", "error", "skipped", "killed"}

\* Some of the targets, in the order of the specs.
InOrder(s) ==
  \A i, j \in DOMAIN s : i < j =>
    \E m, n \in DOMAIN Order : m < n /\ s[i] = Order[m] /\ s[j] = Order[n]

\* What DifferentialRunner takes for granted (main.go:61-73, README.md:14-15):
\* at least two targets, no kind twice, in the order of the specs, and the first
\* of them the baseline, which is Redis whenever Redis was opened.
RunnerIsWellFormed ==
  pc = "case" =>
    /\ Len(opened) >= 2
    /\ InOrder(opened)
    /\ baseline = {opened[1]}
    /\ Redis \in ToSet(opened) => Redis \in baseline

\* A run that returns leaves no process, and no directory but one that could
\* not be removed, whatever was refused, crashed, hung or never listened
\* (target.go:106-129, 173-192).
NothingLeftBehind ==
  pc = "ended" /\ exit # "killed" =>
    dirs \subseteq unremoved /\ \A k \in Kinds : process[k] = "none"

\* The directories that the run has not tried to remove.
ToBeRemoved == dirs \ unremoved

\* Until the run is interrupted there is no process without a directory, and no
\* directory of a target that is not open or being opened, but one that could
\* not be removed.
EverythingIsOwned ==
  exit # "killed" =>
    /\ \A k \in Kinds : process[k] # "none" => k \in ToBeRemoved
    /\ ToBeRemoved \subseteq
         ToSet(opened) \cup {Order[i] : i \in {at} \cap DOMAIN Order}

\* A run is a success only if every case passed while all of at least two
\* targets listened (main.go:74-102).
OkMeansCompared ==
  exit = "ok" => baseline # {} /\ passed = Cases /\ ~lost

\* The run ends, whatever is refused, crashes or never listens, unless a case
\* waits for ever in its set-up for an opened target that took the connection
\* and does not answer: HELLO and FLUSHDB have no deadline (case.go:171-178).
EndsUnlessMute ==
  \/ <>(pc = "ended")
  \/ <>[](pc = "case" /\ ToSet(opened) \cap mute # {})

-----------------------------------------------------------------------------
\* The servers the run holds: the opened ones and the one being spawned, which
\* has its directory.
Held ==
  opened \o (IF at \in DOMAIN Order /\ Order[at] \in ToBeRemoved \ ToSet(opened)
             THEN <<Order[at]>> ELSE <<>>)

Phase ==
  CASE pc = "case" -> "comparing"
    [] pc = "close" -> "closing"
    [] pc = "ended" -> "over"
    [] OTHER -> "opening"

L == INSTANCE SuiteLifecycle WITH held <- Held, phase <- Phase, verdict <- exit

\* A run holds its servers like a stack, all of them until the verdict, gives
\* one verdict, and returns with none (main.go:45-102, target.go:92-192).
ImplementsLifecycle == L!Spec

-----------------------------------------------------------------------------
\* What an inductive proof of the properties above needs to know.

Opening == {"available", "open", "start", "wait"}

\* Where the run is: opening the target at, after the ones opened so far; when
\* it returns, every deferred Close was made.
PhaseInv ==
  /\ pc \in Opening => at \in DOMAIN Order
  /\ ToSet(opened) \cup unremoved \subseteq {Order[i] : i \in 1..(at - 1)}
  /\ pc \in {"start", "wait"} => Order[at] \notin addressed
  /\ pc \in Opening \cup {"baseline", "case"} => exit = "none"
  /\ exit = "killed" => pc = "ended"
  /\ pc = "ended" => opened = <<>> \/ exit = "killed"

\* The target that Spawn has a directory of.
Spawning == IF pc \in {"start", "wait"} THEN {Order[at]} ELSE {}

\* Every process has a directory, and every directory has someone to remove it;
\* Spawn starts one process.
OwnerInv ==
  exit # "killed" =>
    /\ \A k \in Kinds : process[k] # "none" => k \in ToBeRemoved
    /\ ToBeRemoved \subseteq (ToSet(opened) \cup Spawning) \ addressed
    /\ Spawning \subseteq ToBeRemoved
    /\ pc = "start" => process[Order[at]] = "none"

\* How the counts and the exit status follow from the cases.
CountInv ==
  /\ passed + failed <= Cases
  /\ lost => failed > 0
  /\ pc = "case" => baseline # {}
  /\ exit = "ok" => baseline # {} /\ passed = Cases /\ ~lost

IInv == TypeOK /\ PhaseInv /\ OwnerInv /\ CountInv

\* The targets are opened in the order of the specs, and the runner gets them
\* as they are.
RunnerInv ==
  /\ pc \in Opening \cup {"baseline", "case"} => InOrder(opened)
  /\ RunnerIsWellFormed

-----------------------------------------------------------------------------
\* What the documentation says and the code does not do.

\* "so a test run leaves nothing behind" (target.go:133-134)
RunLeavesNothing ==
  pc = "ended" => dirs = {} /\ \A k \in Kinds : process[k] = "none"

\* "Spawn starts a fresh server process on a free loopback port with a private
\* temp data dir." (target.go:92-93)
SpawnedIsFresh ==
  \A k \in ToSet(opened) \ addressed : listener[k] # "stranger"

\* "a green result means aki matches 7.4" (ci.yml:46), of a job that gives no
\* addresses and has installed the servers it compares.
GreenMeansCompared ==
  /\ pc = "ended" /\ exit \in {"ok", "skipped"}
  /\ addressed = {} /\ Cardinality(onPath) >= 2
  => passed = Cases
=============================================================================
