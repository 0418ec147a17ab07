# TLA+ models of aki-compat

aki-compat is a differential compatibility suite: it opens the same Redis
commands to Redis 7.4, Valkey and aki, and reports every reply in which a target
differs from the baseline.  A harness like this one is itself hard to test: what
it must not do is report a failure that is none, or stay green over one that is.
The modules here state what that means and check it, on the source at `src/`.

Contents: [system](#the-system) ·
[modules](#modules-and-the-code-they-model) · [runs](#runs) ·
[bounds](#bounds-and-why-they-are-enough) · [fairness](#fairness) ·
[proofs](#proofs) · [findings](#where-code-and-documentation-disagree) ·
[limits](#what-is-not-modelled-and-why) · [plan](#plan)

## The system

One process, one goroutine; the concurrency is that of the servers it talks to
and of the machine it runs on.

    main.go / differential_test.go
        |  Available, Open, Close            (target.go: addresses, spawned servers)
        |  Run(case), for every case         (differential/case.go)
        |        |  Client, Do, SetDeadline  (respwire/client.go, decode.go)  --TCP--> servers
        |        |  match, Equal, Normalize  (case.go, respwire/value.go)
        v        v
    exit status, report of the first divergence

| Component | State | Operations | What is hard | What makes it correct |
|---|---|---|---|---|
| Differential runner (`differential/case.go`) | the clients map, `CaseResult` | `Run`: dial, HELLO, FLUSHDB, the steps, compare, close | replies in map order; a call fails at any point; servers hang; baseline absent; `Skip` | the verdict is the first divergence of the whole trace and is not taken back; every step is compared; connections are closed; the run ends |
| Reply comparison (`respwire/value.go`, `case.go:228-288`) | none | `String`, `Normalize`, `Equal`, `match` | nested sets and maps in any order; nulls of three forms; int64 limits; what a tolerance may ignore | two replies match exactly when they are the same reply up to what is ignored on purpose, whichever is the baseline |
| Case isolation (`case.go`, the key cases of `coll_keyops.go`, `cases.go`, `scan74.go`) | the databases of the servers, between cases and between runs | flush, steps, next case, run again | a case that leaves database 0; a call that fails; a command executed late; a harness killed | servers that behave alike are reported only after a late command, or over a database that no flush clears |
| Expiry tolerances (`case.go:234-243`, `cases.go`, `edge74.go`) | clocks and deadlines of the servers | set a time to live, read it back | targets are asked one after the other, in another order each step | right servers agree, wrong ones are caught |
| RESP client (`respwire/client.go`, `decode.go`, `Target.Client`) | the connection, its reader, the protocol | `Client`, `Hello`, `Do`, `Close` | replies arrive in pieces, are cut, are nested; HELLO is refused | every command gets its own reply; nothing is left unread |
| Targets and entry points (`target/target.go`, `cmd/aki-compat/main.go`, `differential_test.go`) | addresses, child processes, temporary directories, counts | `Available`, `Open`, `Connect`, `Spawn`, `Close`; the loop over the cases; the exit status | a server never listens, crashes, loses its port; interruption | success means every case was compared; nothing is left behind that could be removed; the run ends unless a server hangs in a set-up |
| Case tables (six files of `differential/`) | none (data) | `Cases` | hand-counted `Tolerate` indices; a case reads back less than it changes; a script cache that FLUSHDB does not clear | right servers pass every case, a wrong reply at any step is reported unless a tolerance gives it up knowingly, no case leaves another database or a transaction behind |
| `goredis` | none | none (a package kept for later) | | not modelled |
| CI workflow (`.github/workflows/ci.yml`) | none | builds the servers, runs the test | a green job that compared nothing | only its claim is checked, in Harness |
| Servers (external) | databases, clocks, script cache, transaction | commands | replies that differ between right servers: order, choice, clock, version | assumed, as far as the cases observe them |

How they interact: the entry points call `target` to open servers and `Run` for
each case, in one thread, one case at a time; `Run` opens a new connection per
target and case and closes it; the databases and script caches of the servers are
what outlives a case, and, when a server is given by address, the whole run.

The hazards behind the properties are listed with their lines in
`PROJECT.json`.  The ones no property covers say why.

## Modules and the code they model

`MC*` modules hold the finite values of the constants, `*Proofs` the theorems.

**`CaseComparison`, `CaseVerdict`, `DifferentialRunner`** (case.go:60-225).
`CaseComparison` has what `Run` is given: a runner `[targets, baseline]`, a case
`[steps, proto, tolerate, skip]`, and the comparison of one step.  `Match` and
`Replies` are constants: the runner does not depend on what a reply is.
`DifferentialRunner` has one action for each call of `Run`:
`DialOpens/DialFails`, `HelloAgrees/HelloFails`, `FlushReturns/FlushFails` over
`setup` (the loop at 167-187), `SendCommand`/`ReceiveReply`/`StepFails` over
`pending` (what the range over the map has yet to visit, 194-209),
`CompareStep` (210-224) and `ReturnVerdict`.  `Mismatch` is 0 for the code's -1
and one higher elsewhere.  `open` and `armed` are the connections and those with
a deadline; `hung` is the servers' side.
`CaseVerdict` is the abstract specification: a transcript grows by complete
steps, and the outcome, once there, is *pass*, *failed at the first step that
diverges* or *error*.  `ImplementsVerdict` says that `Run` implements it, with
`outcome` the state function `Outcome`.

**`RespValue`, `ReplyTree`, `IntTolerance`, `RunnerMatch`, `ReplyComparison`**
(value.go, case.go:228-288).  Values are records by kind; texts are sequences of byte
values, since the order of `sort.Slice` by `String()` matters.  `ReplyTree` has the
members of a reply and the set `Replies` of those considered, which is closed under
members and of finite depth.  `RunnerMatch` has `Rendering`, `Normalizing`,
`Comparing` and `Match`: the bodies of `String`, `Normalize`, `equalRaw` and `match`.
These functions call themselves for the members of a value, and a `RECURSIVE` operator
is out of the prover's reach.  So the calls are constants with the functions' names;
an instance gives each its body (`String <- MCString`, which is `Rendering`), which
closes the recursion for TLC, and `MatchEquations` says of every reply that the call is
the body, which is what the proofs use.  `IntTolerance` is the arithmetic of `ToleranceIntApprox` on integers of
`2 * Half` values, which wrap as int64 does.  `ReplyComparison` has one action,
`Compare`, on a pair of replies and a tolerance; its reference definition,
`SameReply` with the body `Alike`, is equality up to permutations of sets and maps,
without any rendering or sorting.  What the tolerances for order accept is said without
the code's retagging as a set: `SameElements`, `SameText` and `SameList` name each kind
of reply, so a null or an error that passes for an empty list shows in the statement.

**`Keyspace`, `KeyopCases`, `CaseIsolation`** (case.go, coll_keyops.go,
cases.go, scan74.go).  `Keyspace` is what RENAME, COPY, MOVE, SELECT, FLUSHDB and
KEYS do to a server with two databases (external).  `KeyopCases` has the scripts
of the cases that carry a key to another name or database or list the keys.
`CaseIsolation` runs a suite of such scripts on every target: `StartCase` is the
set-up of `Run` on fresh connections, `Ask` one call, `CompareStep` the verdict of
a step, `CallFails` a call that fails without effect, with it, or with its effect
still to come (`ExecuteLate`), `SetupFails` a set-up that flushed some targets,
and `Rerun` the harness started again on the same servers.  Two history variables
name what the code does not guard against: `disturbed`, in the middle of this case a
server executed the command of an earlier one, and `strayed`, database 1 of a server was
in use when the harness first met it, or a case that works on it was broken off or
disturbed.  Late commands and servers in use are part of every property: `NoFalseFailure` says
that these are the only two causes of a false report, case by case, and that the second
concerns the cases that work on database 1 only.
The constant `Alone` is what a server holds and has selected before each step when it
runs one case only, on empty databases: the reference that `RunsAsAlone` compares a
case in the suite with (`AloneAssumption` defines it from `Execute`).

**`CommandServer`, `CaseTable`, `BaseCases`, `SurfaceCases`, `CollectionCases`,
`CaseSuite`** (the six tables; `RunnerMatch` for the comparison).  `CaseTable` is
the record of a case.  The next three modules are the tables, case by case and
step by step: the name, the commands, the tolerance of each step, the protocol and
the targets skipped; of the arguments they keep what decides the shape, the order
or the effect of a reply.  `BaseCases` is cases.go, `SurfaceCases` is edge74.go and
redis74_surface.go, `CollectionCases` is setzset_ops.go, coll_keyops.go and
scan74.go.  `CommandServer` (external) is a server that executes them: which keys
there are, of which type, with which members, deadlines, and in which form; the
transaction and the script cache; and for each command the *answer*, the kind of
reply that is right.  `CaseSuite` runs one case against a baseline and one other
target.  A right server gives any reply its answer allows (either order of a set, a
unit more or less on a countdown, any random member, its own version).  A wrong reply is
any other (`Wrong`): a change of the right kind, a reply of another type, an error.  The
ones that pass all the same are listed, by the kind of the answer, in `Unseen`, and the
four steps that report right servers in `ExactWhereRightServersDiffer`; the properties
name both lists and say that what is in them does pass, or does report.  A defect is
one wrong reply at any step (`WrongReply`), or a value that a key operation carried
and spoilt, seen by the commands that read its size or its members
(`CorruptingReply`, `CorruptedRead`).

**`Countdown`** (case.go:194-243; cases.go, edge74.go for the cases).  Two steps,
`SetExpiry` and `ReadExpiry`, ask the targets in any order while the clock ticks;
servers round what is left to the unit of the reply.  The comparison is
`IntApprox` of `IntTolerance`.

**`RespCodec`, `RequestReply`, `RespClient`** (client.go, decode.go, `Target.Client`).  A reply is
encoded into chunks (a line, or a payload with its CRLF) that arrive one at a time.
`Decoding`, `DecodeBulk`, `DecodeVerbatim`, `DecodingMany` follow decode.go on what
has arrived and are "short" where the code blocks.  As in `RunnerMatch` the recursive
calls, `Encode`, `Decode` and their plurals, are constants; `CodecEquations` gives them
their bodies.  `Dial` is the connection,
`Send` and `Receive` are the halves of `Do`, `Fail` any of its errors; the results keep the number of
the command they were returned for, so that a late reply cannot pass for another.
`RequestReply` is the abstract specification: calls, one at a time, each of which
returns the answer to its own command or gives the connection up for good.
`ImplementsRequestReply` maps the answers the server has begun to send to its answers,
the replies of `results` to what it has returned, and a connection that is not closed
to one that is open; chunks, the protocol and the other states disappear.

**`SuiteLifecycle`, `Harness`** (main.go, target.go, differential_test.go).  One
target after the other goes through `Check` (`Available`), `Connect` or `Prepare`,
`Start`, `AwaitListener` (`Spawn`); then `ChooseBaseline`, `RunCase` for every
case, `Report`, and the deferred `CloseLast` in reverse.  A case is one step with
one of the results `DifferentialRunner` computes, and is only taken when its set-up
returns (`SetupReturns`): HELLO and FLUSHDB have no deadline, so a target that took the
connection and answers no more (`mute`) holds it for good, unless the dial of one before
it fails.  The environment binds ports, crashes and hangs servers, takes ports;
`RemoveDir` may fail, as `RemoveAll` may, and its error is dropped (`unremoved`);
`Killed` is an interruption.  `SuiteLifecycle` is the
abstract specification: servers are held like a stack, all of them while cases are
compared, the verdict is given once, and a run that is not interrupted ends with
none.  `ImplementsLifecycle` says that the harness implements it; `Held` counts the
target being spawned, whose directory is there before it is opened.

## Runs

Passing runs.

| Run | Question | Distinct states |
|---|---|---|
| `RunnerRun` | Is the verdict the first divergence of the trace, kept, with every step compared, on flushed databases, and every connection closed; does `Run` implement `CaseVerdict`; does it end unless a server hangs in its set-up? | 154,900 |
| `ReplyMatch` | Is sorting by rendering the same as equality up to order, for all pairs of a universe with sets of sets and maps with set values; do the unordered and the scan tolerance accept exactly what they should, errors and nulls included; is every verdict independent of which target is the baseline? | 65,858 |
| `IsolationRun` | Every key case, twice, on servers that are new or in use in both databases, with calls lost or late and the harness killed anywhere: is a late command in the middle of a case, or a database 1 that was in use or left in use, the only cause of a false failure; does every other case run as if alone, with the order of targets invisible? | 1,715,132 |
| `TableRun` | Every case of every table: do right servers pass but for four steps, is every wrong reply outside `Unseen` and every corrupted collection reported, is nothing left that FLUSHDB does not clear? | 22,030 |
| `TtlTolerance` | Does ±1 absorb the skews of two steps, and hide no error of three units? | 258,120 |
| `ClientFraming` | Does each command get its own reply, whatever arrives when, on the protocol that was asked for; does the client implement `RequestReply`? | 155,011 |
| `HarnessRun` | Is the runner well formed, is success what it says, is everything owned and released, does the harness implement `SuiteLifecycle`, and does it end unless a set-up waits for a server that hangs? | 532,466 |

Each property of a passing run has a mutant in `PROJECT.json`: an operator next
to the one it replaces, commented *Mutant*, with the slip it stands for.

Five runs (`HungSetup`, `ShapesNotFolded`, `PttlTolerance`, `GreenSkip`,
`SkipWithoutRedis`) end in a violation: they show a disagreement between the code
and what it says of itself; see
[below](#where-code-and-documentation-disagree).

## Bounds and why they are enough

- *Runner*: three targets in the order of main.go, or two with the baseline among
  them or not opened (`BaselineGone`); any of them may hang, and Valkey may refuse
  FLUSHDB (so that the others must have been flushed); cases of up to three steps with and without
  RESP3, `Skip` and a tolerance; two replies that one tolerance tells apart and the
  other does not.  A verdict depends on the first divergence, on what comes after
  it, and on a failure: three steps hold all three.  The safety properties are
  proved for every value of these constants.
- *Comparison*: lists of up to two (sets of sets up to three) members, maps of two
  pairs, scalars of every kind with the same text, `Half = 8`.  Sorting goes wrong,
  if at all, between two members; the texts include one that starts with the other
  and pairs that render alike.  The arithmetic is proved for every width, the
  comparison for replies of any size.
- *Isolation*: two targets, all scripts, servers that are both new or in use in
  either database in any combination, two runs (the second finds what the first left), and at most two cases broken off (`MaxBroken`), so that what the first left
  meets a second one; any call of any case may be the one that fails.  One command
  at most is late per server.  The safety properties are proved for every suite, number
  of targets, runs and failures.  The two targets can be exchanged (`MCSymmetry`): a
  step is reported if not all replies are equal, whichever is the baseline's.
- *Tables*: all cases, each with one defect at most, at any of its steps: every
  divergence is recorded for good, so two defects show no less than one.  The two
  elements of a collection that a reply shows are enough to see an order, a missing
  element and a foreign one.  A countdown stands at 6 units and moves by one between
  two targets.  `Pairs` are redis-valkey, where both servers are right, and
  redis-aki, where aki may have the defect; valkey-aki is the pair of
  `SkipWithoutRedis`.  No case is left out: the three with a step that compares exactly
  where right servers may differ ([below](#where-code-and-documentation-disagree)) are
  run like the others, and `RightServersPass` names the four steps.
- *Countdown*: a unit of four ticks and a skew of two per step, so that the two
  skews together are one unit; seven ticks of clock; errors of three units to both
  sides.  With `Skew = Unit = 1` (PTTL) it fails, which is a finding.
- *Client*: three commands on a connection, so that a reply misread has another
  one behind it; every kind alone, one of each shape nested one or two deep.  The safety
  properties are proved for replies of any depth and any number of commands.
- *Harness*: the three targets of main.go in its order, two cases, every subset of them given
  by address and on PATH, and every mishap: a crash, a refused port, directory or
  process, a directory that cannot be removed, a stranger on the port, a server that
  answers no more, an interruption.

`CHECK_DEADLOCK FALSE` is set because every one of these programs ends, and
because a server that hangs in the set-up stops `Run` for good; the liveness
properties say that `Run` and the harness stop nowhere else.

## Fairness

Runs without liveness properties use `Spec`.  `DifferentialRunner!FairSpec` is weak
fairness of `RunnerStep`: `Run` is one goroutine that is never blocked but in a
call, and a call to a server that has not stopped answering returns; a call to
one that has returns only through a deadline, and then only if one was set.
`Harness!FairSpec` is weak fairness of `Run`, the harness's own steps: dials, waits
and the steps of a case have deadlines.  The set-up of a case has none, and `RunCase`
is enabled only when it returns, so fairness does not drive it past a server that
hangs: `EndsUnlessMute` says that the run ends or stays in a case for ever with a mute
target opened, and `HungSetup` shows that this happens.  Nothing is assumed of the
environment: servers need not bind, answer or crash.

## Proofs

Checked by TLAPS, for every value of the constants allowed by the assumptions.

*`DifferentialRunnerProofs`.*  Assumptions: a runner has at least one target and
targets are kinds, a case has a number of steps and a tolerance for each, and
`NoKind` is no kind.  The properties are not inductive: that a complete step
holds the replies of all targets asked needs to know what the round so far holds
(`RoundInv`), that connections are closed needs to know which are open at every
point of the set-up (`SetupInv`), and the report needs the length of the
transcript (`ProgressInv`).  `IInv` is their conjunction with the type, with
`FlushInv`, and with the two verdict properties.  `Inductive` is its invariance,
with one lemma for each action that disturbs it; `TypeCorrect`, `VerdictCorrect`,
`ComparisonComplete`, `NoLeak`, `ReportSafe`, `FlushedFirst` follow.
`VerdictStable` is the action property.  `Refinement` maps every action to
`Observe`, `Conclude`, `Abort` or a stutter of `CaseVerdict`.

*`CountdownProofs`.*  Assumptions: nothing expires while the case runs and no time
leaves the integers (`Lasting`), and twice the skew of a step is at most one unit.
`Absorbed`: right servers agree.  `Caught`: an error of three units is reported.
The invariant follows when each target was given its key (`SetInv`, `DeadlineInv`:
the deadlines of right servers are within one skew) and when it answered
(`ReadInv`, `ReplyInv`: within another); `OneUnit` carries the sum through the
rounding, `AcceptsOneUnit` through the two's complement.  `PttlTolerance` shows that
the bound on the skew cannot be dropped.  `ApproxInRange` is the part of the arithmetic
it needs.

*`CaseIsolationProofs`.*  For any suite, number of targets and runs, any failures, late
commands among them, and anything in the databases at first, alike or not.
`NeverReported`: a case reports servers that behave alike only if one of them executed
an earlier command in its middle, or if it works on database 1 and that was in use
at first or a case that works on it was broken off or disturbed.  `OrderInvisible`:
without such a cause targets that answered the same steps agree.  `LocalSuite`:
if every case stays in database 0 and no command is late, no case is ever reported.
`TypeCorrect`.  None of them assumes anything of the servers' databases: what a case sees
of them is `Seen`, database 0 only if it stays there; a command of such a case neither
reads nor writes more (`ExecuteSees`), and targets that look alike answer alike
(`SeenAlike`).  The invariant, `IsolationInv`,
says that targets that have answered a step look the same and gave the same reply, and
that those that have not are one command behind (`LockStep`); a late command in
database 0 between two cases is flushed, and one of a case that works on database 1
has made the servers stray when it was broken off (`LateIsLocal`).  `CasesRunAsAlone`:
under the same conditions a case finds, does and is answered what it would be if it ran
alone on empty servers, and `LeavesNoResidue`: database 1 is empty between two cases
until something strays.  Both assume that each script, run alone and to its end, leaves
database 1 empty (`CleanScripts`; what the uninterrupted cases of `IsolationRun` do).
`EmptiedInv` adds to `IsolationInv` that a server in a case is at the stage of the script
that its answers say, with the replies of that stage (`AtStage`), and that one between
two cases has database 1 empty.

*`HarnessProofs`.*  For any targets, number of cases and mishaps: `CleansUp`,
`Owned`, `SuccessIsEarned`, `TypeCorrect`.  The assumptions are that there are
targets, no kind twice, Redis first, and a case.  `IInv` adds to the properties that `Spawn` is
at a target that was not opened before (`PhaseInv`), so that the process it starts
is the only one of that directory; that a directory is that of an opened target or
of the one being spawned, and never of one given by address (`OwnerInv`), so that
the deferred calls of `Close` find all of them, and that one that could not be removed
belongs to a target that was passed already (`unremoved` in `PhaseInv`); and that a lost server has cost a
case (`CountInv`), so that success excludes it.
The targets are opened in the order of the specs, which has Redis first, so the first
one opened is the baseline (`WellFormed`, from `RunnerInv`).  `Lifecycle` maps every
action of `Harness` to an action or a stutter of `SuiteLifecycle`; a target being
spawned is held, which is what `HeldIs` draws from `IInv`.

*`ReplyTreeProofs`.*  What holds of a reply when it holds of its members holds of every
reply (`DepthInduction`, and `PartInduction`, which has keys and values apart): a set of
replies that leaves one out leaves out one of least depth (`LeastNumber`).  The property
is given as a set, not as an operator, so the provers can use it.

*`RespCodecProofs`.*  `RepliesRoundTrip`: the decoder reads an encoded reply of any
depth and length back as it was and leaves what follows it, and of any part that is not
all it makes nothing but a wait.  Assumed are `CodecEquations` and that replies are
trees (`RepliesAssumption`).  By induction on the depth; the members of a list are
counted up (`ManyMembers`), one more at a time (`OneMore`), and a part of a sequence of
chunks ends before, in or after the first member (`TwoCuts`).

*`RespClientProofs`.*  From it, for every set of answers and any number of commands:
`RepliesInSync`, `NothingLeftUnread`, `PartsAreNotMalformed`, `ProtocolAgreed`,
`TypeCorrect`, and `Refinement`: the client implements `RequestReply`.  Under way is at most one reply; what has arrived of it and what has not
are together its encoding (`InFlight`), so that `Decode` waits or returns it whole.
Results carry the answers in the order of the commands (`Returned`).  For the refinement
there is a lemma for each action: `Send` is `Ask`, `Receive` is `Return`, because what is
decoded is the one answer that was not returned yet (`WhatArrived`, `Counted`), a call
that fails, a failed dial and `Close` give up, and an arriving chunk is a stutter.

*`ReplyComparisonProofs`.*  The arithmetic first: for integers of any width,
`ToleranceIntApprox` accepts exactly the differences -1, 0 and 1, and those that
overflow to the least integer (`ApproxExactly`), and is symmetric (`ApproxSymmetric`).
Then the comparison, with `MatchEquations`, and with `Replies` all the trees there are
(`Complete`: whatever is built of replies is one, as what `Normalize` returns is).
`BaselineIrrelevant`: match is symmetric and, but for approximate integers, transitive.
`ExactDecidesSameReply`: sorting by rendering decides equality up to order, at every
depth.  `UnorderedDecidesPermutation`: the unordered tolerance accepts two arrays of the
same elements and no other pair of replies, of whatever kind, and the scan tolerance
exactly the pairs with the same cursor text whose lists have the same elements, where a
reply that lists nothing, an error or a null too, counts as an empty list (`Decided`,
with `SameSets`, `NoneAlike` and `NoElements` for the retagging).  The argument has three parts.  The order of texts
is total, so every member has one place and every place one member (`LessTotal`,
`Places`, `OneAtEachPlace`).  If equal members have equal texts and a text decides what
a member is equal to (`DecidedByText`), then comparing place by place finds a
permutation exactly when there is one (`SortingPermutes`).  Equal replies have equal
texts (`EqualRendersAlike`); the converse is false, as `Text("-", A)` and
`Text("!", A)` show, and is therefore a hypothesis: the rendering tells apart the
members of the sets that are compared and the keys of a map (`RendersApart`).  It is asked of what
match compares (`ComparedIn`), not of every reply.  For what servers send it can be
dropped: `PlainRepliesDecided` has it for every class of replies whose sets have members,
and whose maps have keys, of the `PlainKinds`, no key twice (`PlainMembers`), nested in
arrays and in the values of maps as deep as they may be.  Two of those kinds differ in the
first byte of the rendering (`FirstBytesApart`), and within one kind the rest decides
(`PlainApart`).  `ApartAssumption` and `PlainAssumption` have TLC check
the hypotheses on what `ReplyMatch` compares; the [finding](#where-code-and-documentation-disagree)
about sets of errors shows that it cannot be dropped for other kinds.  `sort.Slice` is stable,
as `SortedBy` is, up to twelve members only.  Beyond that nothing changes: under
`RendersApart` members that render alike are equal, in whatever order they are put, and
`BaselineIrrelevant` needs no more of `Normalize` than that it is a function.

Only model-checked: liveness (`RunEndsUnlessHungInSetup`, `EndsUnlessMute`), which
rests on fairness and ENABLED, out of the prover's reach; and `CaseSuite`, whose
properties are about the data of the tables: `TableRun` evaluates every case there is,
and there is no larger instance for a theorem to speak of.  The step from one command to
the next is not out of it either: EXEC folds `Effect` over the queued commands, so its
type would be an induction over data.

## Where code and documentation disagree

Five have a run of their own, whose counterexample shows them, and a quotation in
`PROJECT.json`.

- `HungSetup`: HELLO and FLUSHDB have no deadline; a server that hangs there
  hangs the suite (client.go:43-44 says it fails the case).
- `ShapesNotFolded`: the RESP2 and RESP3 shapes of a reply are not folded
  (README.md:24 of the repository says they are).
- `PttlTolerance`: ±1 is one millisecond for PTTL, less than the time between two
  calls made one after the other (case.go:39-40).
- `GreenSkip`: with the servers installed, one that does not listen in time is skipped
  like one that is missing, and the test is green when it compared nothing (ci.yml:46).
- `SkipWithoutRedis`: without Redis, a case that skips Valkey is compared with Valkey
  and reports aki for being right (case.go:86-87).

The others are stated in the modules, under *What the documentation says and the
code does not do*, or follow from a stated property.  To see one, add the
definition to the INVARIANTS of the cfg, or change the constant:

| The source says | Add or change | In | What the code does |
|---|---|---|---|
| Cases do not leak into each other (README.md:19) | `CasesDoNotLeak` | `RunnerRun.cfg` | an error reply to FLUSHDB is dropped (case.go:178) |
| A case that skips Valkey reports no false failure over it (case.go:85-87) | `SkippedKindFailsNoCase` | `RunnerRun.cfg` | it is asserted when it is the baseline (case.go:195) |
| The baseline and aki are always compared (case.go:87) | `PassComparesSomething` | `RunnerRun.cfg` | a case whose `Skip` leaves only the baseline passes |
| A null bulk and a RESP3 null are told apart (value.go:6-7) | `NullsToldApart` | `ReplyMatch.cfg` | `equalRaw` ignores `NullFrom` |
| An empty array and a null array are told apart (value.go:7) | `ScanTellsEmptyFromNull` | `ReplyMatch.cfg` | a scan step takes a null, an error or a text in the place of the list for an empty one (case.go:277; `SameList` in `UnorderedIsPermutation`) |
| Approximate integers have the same sign (case.go:30-31) | `ApproxKeepsSign` | `ReplyMatch.cfg` | 0 and -1 match |
| ... and differ by at most one (case.go:39) | `ApproxWithinOne` | `ReplyMatch.cfg` | integers 2^63 apart match: the difference overflows; see `ApproxExactly` |
| `ToleranceAny` accepts non-error replies (case.go:56), "verify both respond" (cases.go:788, 840, 907) | `AnyNeedsSuccess` | `ReplyMatch.cfg` | it accepts every reply, an error too (case.go:260-262; `Unseen` in `WrongReplyIsReported`) |
| Set members are sorted (README.md:25) | sets of `Text("-", A)` and `Text("!", A)` in `MCCompared`: `ApartAssumption`, and without it `ExactIsSameReply` | `ReplyMatch.cfg` | both render alike and keep their order |
| The MOVE case leaves no residue (coll_keyops.go:108-109) | `MoveLeavesNoResidue` | `IsolationRun.cfg` | after a failed call the key stays in database 1, and the next run reports it |
| Cases do not leak into each other (README.md:19) | `CasesDoNotLeak` | `IsolationRun.cfg` | also a command executed after its deadline, in the next case |
| Encodings may differ between right servers (case.go:48-53, cases.go:462-463) | nothing: the second part of `RightServersPass` | `TableRun.cfg` | two set-encoding cases compare the name exactly, in three steps |
| The order of HGETALL on RESP2 is free (case.go:44-46 of such replies) | the same | `TableRun.cfg` | `hash-set-get` compares the order of two fields, which another case tolerates for HKEYS and HVALS |
| A run leaves nothing behind (target.go:133-134) | `RunLeavesNothing` | `HarnessRun.cfg` | an interrupted one leaves servers and directories |
| Spawn starts a fresh server (target.go:92-93) | `SpawnedIsFresh` | `HarnessRun.cfg` | the target may be a program that took the port |

What a tolerance lets through is part of `WrongReplyIsReported`, which says of each reply
in `Unseen` that it is wrong and passes: HSCAN, ZSCAN and HRANDFIELD WITHVALUES
replies are compared as multisets of a flat list, so values exchanged between two fields
go unnoticed (case.go:281; case.go:28-31 says a tolerance never relaxes what matters); a
random member is compared with `ToleranceEncoding`, so nobody checks that it is a
member; where any reply is accepted an error is.  `ToleranceErrPrefix` is used on
steps whose comments speak of an exact error.

Seen while reading: README.md:81-83 says CI installs the servers with apt where
ci.yml builds them; the comment at coll_keyops.go:47-48 has the first TTL at step 3,
the map below it, rightly, at 4 (`HashExpirePersistAsCommented` is the mutant that
follows the comment); the case named intset-to-hashtable never grows its set to the
size of a hashtable; LOLWUT is said to be checked for OK or a bulk, and OK is
refused (cases.go:900, case.go:50-53); `Client.Proto` is not updated by a RESET or
HELLO sent through `Do`, and nothing reads it; the loop in main.go that looks for
Redis among the opened targets can only find it at the front (`WellFormed`).

## What is not modelled and why

- The text of lines, number parsing, `%q` escapes in `String` and the encoding of
  commands: pure conversions on which no property depends beyond what the tags
  and lengths say.
- The values commands compute.  `CommandServer` knows which keys and members there
  are and what kind of reply is right, not what INCRBYFLOAT adds up to: right
  servers agree on it, and whether aki does is what the suite finds out.
- RESP3 pushes, which `Do` would return as the reply to the next command: no case
  makes a server send one.  RESET and HELLO sent through `Do`: the two cases that
  send them are RESP2 cases, and stay there.
- Servers that come back empty in the middle of a run.
- `goredis`, an empty package, and the CI workflow, whose claim `GreenSkip` tests.

## Plan

The order was: what decides a verdict (`DifferentialRunner`), what a verdict is
made of (`RunnerMatch`, `ReplyComparison`), what a verdict rests on across cases
(`CaseIsolation`, `Countdown`), what surrounds it (`RespClient`, `Harness`,
`SuiteLifecycle`), and what the cases are worth (`CaseSuite`).  All are written.
What would come next:

1. *Compose* `RespClient` with the call of `DifferentialRunner`: a runner whose
   `StepFails` is a `Fail` of the connection, and a refinement from the
   composition to `DifferentialRunner`.
2. *Extend* `CaseIsolation` with keys that carry a time to live and may expire
   before the next case flushes them.
3. *Prove* that the counts of `Harness` and the verdicts of `DifferentialRunner`
   compose: the exit status is a success exactly when every case passes.
4. *Prove* that the bodies determine the recursive calls: that two operators that
   satisfy `MatchEquations`, or `CodecEquations`, agree on `Replies`.
