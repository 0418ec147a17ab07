------------------------- MODULE CaseIsolationProofs -------------------------
(***************************************************************************)
(* The cases are isolated from each other, for any suite, any targets and  *)
(* whatever their databases hold at first, except that a case suffers from *)
(* a command of an earlier one that is executed in its middle, and a case  *)
(* away from database 0 from what is in database 1.                        *)
(***************************************************************************)
EXTENDS CaseIsolation, TLAPS

\* What a case can see of the databases d of a server.
Seen(d) == IF StaysInDatabase0(at) THEN d[0] ELSE d

\* All targets are where some databases d and selected database s led, as far as
\* the case sees: the pending ones at the beginning of the step, the others one
\* command further.
LockStep ==
  \E d \in [DbIds -> Database], s \in DbIds :
    \A k \in Kinds :
      /\ k \in pending => Seen(dbs[k]) = Seen(d) /\ sel[k] = s
      /\ k \notin pending =>
           /\ Seen(dbs[k]) = Seen(Execute(Command, d, s).dbs)
           /\ sel[k] = Execute(Command, d, s).sel
           /\ replies[k] = Execute(Command, d, s).reply

\* The targets agree on the database that no set-up flushes.
AgreeElsewhere == \A k, l \in Kinds : dbs[k][1] = dbs[l][1]

\* No server still has a command to execute that works away from database 0.
LateIsLocal ==
  \A k \in Kinds :
    late[k] # Nothing => late[k].cmd \in LocalCommands /\ late[k].sel = 0

Isolated ==
  /\ step # 0 /\ Undisturbed => LockStep
  /\ step # 0 /\ StaysInDatabase0(at) => \A k \in Kinds : sel[k] = 0
  /\ step = 0 => ~disturbed
  /\ disturbed /\ ~strayed => StaysInDatabase0(at)
  /\ ~strayed => LateIsLocal
  /\ ~strayed /\ (step = 0 \/ StaysInDatabase0(at)) => AgreeElsewhere

IsolationInv == TypeOK /\ Isolated

-----------------------------------------------------------------------------
\* The result of a command that writes one database.
LEMMA WithOne ==
  ASSUME NEW d \in [DbIds -> Database], NEW s \in DbIds, NEW db \in Database, NEW r
  PROVE  /\ With(d, s, db, r).dbs \in [DbIds -> Database]
         /\ With(d, s, db, r).sel = s
         /\ s = 0 => With(d, s, db, r).dbs[1] = d[1]
  BY DEF With, Result, DbIds

\* What every local command preserves.
LEMMA ExecuteLocal ==
  ASSUME NEW c \in LocalCommands, NEW d \in [DbIds -> Database], NEW s \in DbIds
  PROVE  /\ Execute(c, d, s).dbs \in [DbIds -> Database]
         /\ Execute(c, d, s).sel = s
         /\ s = 0 => Execute(c, d, s).dbs[1] = d[1]
<1> DEFINE Good(r) == /\ r.dbs \in [DbIds -> Database]
                      /\ r.sel = s
                      /\ s = 0 => r.dbs[1] = d[1]
<1>00. d[s] \in Database
  OBVIOUS
<1> USE <1>00
<1>0. ASSUME NEW reply
      PROVE  Good(Result(d, s, reply))
  BY DEF Result
<1>01. ASSUME NEW db \in Database, NEW reply
       PROVE  Good(With(d, s, db, reply))
  BY WithOne
<1> HIDE DEF Good
<1>1. CASE c \in [op : {"add"}, key : Names, val : Values]
  <2>1. [d[s] EXCEPT ![c.key] = c.val] \in Database
    BY <1>1 DEF Database
  <2>2. Good(DoAdd(c, d, s))
    BY <2>1, <1>0, <1>01 DEF DoAdd
  <2>3. Execute(c, d, s) = DoAdd(c, d, s)
    BY <1>1 DEF Execute
  <2> QED
    BY <2>2, <2>3 DEF Good
<1>2. CASE c \in [op : {"read"}, key : Names]
  <2>1. Execute(c, d, s) = DoRead(c, d, s)
    BY <1>2 DEF Execute
  <2> QED
    BY <2>1, <1>0 DEF DoRead, Good
<1>3. CASE c = Keys
  <2>1. Execute(c, d, s) = DoKeys(d, s)
    BY <1>3 DEF Execute, Keys
  <2> QED
    BY <2>1, <1>0 DEF DoKeys, Good
<1>4. CASE c \in [op : {"rename", "renamenx", "copy", "replace"}, key : Names,
                  dst : Names]
  <2>1. Carried(d[s], c) \in Database /\ Copied(d[s], c) \in Database
    BY <1>4 DEF Carried, Copied, Database
  <2>2. Good(DoRename(c, d, s)) /\ Good(DoRenameNX(c, d, s)) /\ Good(DoCopy(c, d, s))
    BY <2>1, <1>0, <1>01 DEF DoRename, DoRenameNX, DoCopy
  <2>3. Execute(c, d, s) \in {DoRename(c, d, s), DoRenameNX(c, d, s), DoCopy(c, d, s)}
    BY <1>4 DEF Execute
  <2> QED
    BY <2>2, <2>3 DEF Good
<1>5. CASE c = FlushDb
  <2>1. EmptyDb \in Database
    BY DEF EmptyDb, Database
  <2>2. Execute(c, d, s) = With(d, s, EmptyDb, OK)
    BY <1>5 DEF Execute, FlushDb
  <2> QED
    BY <2>1, <2>2, <1>01 DEF Good
<1> QED
  BY <1>1, <1>2, <1>3, <1>4, <1>5 DEF LocalCommands

\* A command leads from databases to databases.
LEMMA ExecuteType ==
  ASSUME NEW c \in Commands, NEW d \in [DbIds -> Database], NEW s \in DbIds
  PROVE  /\ Execute(c, d, s).dbs \in [DbIds -> Database]
         /\ Execute(c, d, s).sel \in DbIds
<1>1. CASE c \in LocalCommands
  BY <1>1, ExecuteLocal
<1>2. CASE c \in [op : {"move"}, key : Names, db : DbIds]
  <2>1. Moved(c, d, s) \in [DbIds -> Database]
    BY <1>2 DEF Moved, Database
  <2>2. Execute(c, d, s) = DoMove(c, d, s)
    BY <1>2 DEF Execute
  <2> QED
    BY <2>1, <2>2 DEF DoMove, Result
<1>3. CASE c \in [op : {"select"}, db : DbIds]
  <2>1. Execute(c, d, s) = Result(d, c.db, OK)
    BY <1>3 DEF Execute
  <2> QED
    BY <1>3, <2>1 DEF Result
<1> QED
  BY <1>1, <1>2, <1>3 DEF Commands

-----------------------------------------------------------------------------
LEMMA CommandType ==
  ASSUME TypeOK, step # 0
  PROVE  /\ at \in DOMAIN Suite /\ step \in DOMAIN Suite[at]
         /\ Suite[at] \in Seq(Commands) /\ Suite[at] # <<>>
         /\ Command \in Commands
         /\ StaysInDatabase0(at) => Command \in LocalCommands
<1>1. at \in DOMAIN Suite /\ step \in DOMAIN Suite[at]
  BY DEF TypeOK
<1>2. Suite[at] \in Seq(Commands) /\ Suite[at] # <<>>
  BY <1>1, SuiteAssumption
<1> QED
  BY <1>1, <1>2 DEF Command, StaysInDatabase0

LEMMA FlushedType ==
  ASSUME TypeOK, NEW S \in SUBSET Kinds
  PROVE  /\ Flushed(S) \in [Kinds -> [DbIds -> Database]]
         /\ \A k \in Kinds : Flushed(S)[k][1] = dbs[k][1]
         /\ \A k \in S : Flushed(S)[k][0] = EmptyDb
<1>1. EmptyDb \in Database
  BY DEF EmptyDb, Database
<1> QED
  BY <1>1 DEF TypeOK, Flushed, DbIds

\* A case may be broken off once more.
LEMMA BrokenOffType ==
  ASSUME TypeOK, BrokenOff
  PROVE  /\ broken' \in 0..MaxBroken /\ strayed' \in BOOLEAN
         /\ ~strayed' => ~strayed /\ StaysInDatabase0(at)
<1>1. broken' \in 0..MaxBroken
  BY SuiteAssumption DEF TypeOK, BrokenOff
<1>2. strayed' \in BOOLEAN /\ (~strayed' => ~strayed /\ StaysInDatabase0(at))
  BY DEF BrokenOff, TypeOK
<1> QED
  BY <1>1, <1>2

-----------------------------------------------------------------------------
(***************************************************************************)
(* Every action keeps the types.                                           *)
(***************************************************************************)

LEMMA TypeInitially == Init => TypeOK
<1> SUFFICES ASSUME Init PROVE TypeOK
  OBVIOUS
<1>1. Len(Suite) \in Nat /\ Runs \in Nat \ {0} /\ MaxBroken \in Nat
  BY SuiteAssumption
<1>2. 1 \in 1..Runs /\ 1 \in 1..(Len(Suite) + 1) /\ 0 \in 0..MaxBroken
  BY <1>1
<1>3. dbs \in [Kinds -> [DbIds -> Database]]
  BY SuiteAssumption DEF Init
<1> QED
  BY <1>2, <1>3 DEF Init, TypeOK, NoReplies, DbIds

LEMMA StartCaseType == ASSUME TypeOK, StartCase PROVE TypeOK'
<1>1. dbs' \in [Kinds -> [DbIds -> Database]]
  BY FlushedType DEF StartCase, FlushedForCase
<1>2. at \in DOMAIN Suite /\ 1 \in DOMAIN Suite[at]
  <2>1. at \in 1..Len(Suite)
    BY SuiteAssumption DEF TypeOK, StartCase
  <2>2. Suite[at] \in Seq(Commands) /\ Suite[at] # <<>>
    BY <2>1, SuiteAssumption
  <2> QED
    BY <2>1, <2>2, SuiteAssumption
<1> QED
  BY <1>1, <1>2 DEF StartCase, TypeOK, NoReplies, DbIds, history

LEMMA ExecutesType ==
  ASSUME TypeOK, step # 0, NEW k \in Kinds, Executes(k, Command, sel[k])
  PROVE  dbs' \in [Kinds -> [DbIds -> Database]] /\ sel' \in [Kinds -> DbIds]
<1> DEFINE after == Execute(Command, dbs[k], sel[k])
<1>1. after.dbs \in [DbIds -> Database] /\ after.sel \in DbIds
  BY CommandType, ExecuteType DEF TypeOK
<1> HIDE DEF after
<1>2. dbs' = [dbs EXCEPT ![k] = after.dbs] /\ sel' = [sel EXCEPT ![k] = after.sel]
  BY DEF Executes, after
<1> QED
  BY <1>1, <1>2 DEF TypeOK

LEMMA AskType == ASSUME TypeOK, NEW k \in Kinds, Ask(k) PROVE TypeOK'
<1>1. dbs' \in [Kinds -> [DbIds -> Database]] /\ sel' \in [Kinds -> DbIds]
  BY ExecutesType DEF Ask
<1>2. DOMAIN replies' = Kinds /\ pending' \subseteq Kinds
  BY DEF TypeOK, Ask
<1> QED
  BY <1>1, <1>2 DEF TypeOK, Ask, history

LEMMA NextCaseType == ASSUME TypeOK, NextCase, at \in DOMAIN Suite
  PROVE  /\ run' \in 1..Runs
         /\ at' \in 1..(Len(Suite) + 1)
         /\ step' = 0 /\ pending' \subseteq Kinds /\ DOMAIN replies' = Kinds
         /\ disturbed' = FALSE
<1>1. Len(Suite) \in Nat /\ DOMAIN Suite = 1..Len(Suite)
  BY SuiteAssumption
<1> QED
  BY <1>1 DEF NextCase, TypeOK, NoReplies

LEMMA CompareStepType == ASSUME TypeOK, CompareStep PROVE TypeOK'
<1>1. at \in DOMAIN Suite /\ step \in DOMAIN Suite[at] /\ Suite[at] \in Seq(Commands)
  BY CommandType DEF CompareStep
<1>2. failed' \in BOOLEAN
  BY DEF TypeOK, CompareStep
<1>3. UNCHANGED <<dbs, sel, late, broken, strayed>>
  BY DEF CompareStep, servers
<1>4. CASE LastStep(step)
  <2>1. NextCase
    BY <1>4 DEF CompareStep
  <2> QED
    BY <1>1, <1>2, <1>3, <2>1, NextCaseType DEF TypeOK
<1>5. CASE ~LastStep(step)
  <2>1. /\ step' = step + 1 /\ pending' = Kinds /\ replies' = NoReplies
        /\ UNCHANGED <<at, run, disturbed>>
    BY <1>5 DEF CompareStep
  <2>2. step + 1 \in DOMAIN Suite[at]
    BY <1>1, <1>5 DEF LastStep
  <2> QED
    BY <1>1, <1>2, <1>3, <2>1, <2>2 DEF TypeOK, NoReplies
<1> QED
  BY <1>4, <1>5

\* The case of a step that is about to begin, or whose set-up is.
LEMMA AtCase == ASSUME TypeOK, step # 0 \/ at <= Len(Suite) PROVE at \in DOMAIN Suite
<1>1. Len(Suite) \in Nat /\ DOMAIN Suite = 1..Len(Suite)
  BY SuiteAssumption
<1> QED
  BY <1>1 DEF TypeOK

LEMMA SetupFailsType == ASSUME TypeOK, SetupFails PROVE TypeOK'
<1>1. at \in DOMAIN Suite /\ NextCase
  BY AtCase DEF SetupFails
<1>2. dbs' \in [Kinds -> [DbIds -> Database]]
  BY FlushedType DEF SetupFails
<1>3. broken' \in 0..MaxBroken
  BY SuiteAssumption DEF TypeOK, SetupFails
<1> QED
  BY <1>1, <1>2, <1>3, NextCaseType DEF TypeOK, SetupFails

LEMMA CallFailsType == ASSUME TypeOK, NEW k \in Kinds, CallFails(k) PROVE TypeOK'
<1>1. step # 0 /\ NextCase /\ at \in DOMAIN Suite
  BY CommandType DEF CallFails
<1>2. broken' \in 0..MaxBroken /\ strayed' \in BOOLEAN
  BY BrokenOffType DEF CallFails
<1>3. dbs' \in [Kinds -> [DbIds -> Database]] /\ sel' \in [Kinds -> DbIds]
  BY <1>1, ExecutesType DEF CallFails, servers, TypeOK
<1>4. late' \in [Kinds -> {Nothing} \cup [cmd : Commands, sel : DbIds]]
  <2>1. [cmd |-> Command, sel |-> sel[k]] \in [cmd : Commands, sel : DbIds]
    BY <1>1, CommandType DEF TypeOK
  <2> QED
    BY <2>1 DEF CallFails, servers, TypeOK
<1> QED
  BY <1>1, <1>2, <1>3, <1>4, NextCaseType DEF TypeOK, CallFails

LEMMA ExecuteLateType ==
  ASSUME TypeOK, NEW k \in Kinds, ExecuteLate(k) PROVE TypeOK'
<1>1. late[k] \in [cmd : Commands, sel : DbIds]
  BY DEF TypeOK, ExecuteLate
<1>2. late[k].cmd \in Commands /\ late[k].sel \in DbIds
  BY <1>1
<1>3. Execute(late[k].cmd, dbs[k], late[k].sel).dbs \in [DbIds -> Database]
  BY <1>2, ExecuteType DEF TypeOK
<1>4. dbs' \in [Kinds -> [DbIds -> Database]]
  BY <1>3 DEF TypeOK, ExecuteLate
<1>5. late' \in [Kinds -> {Nothing} \cup [cmd : Commands, sel : DbIds]]
  BY DEF TypeOK, ExecuteLate
<1>6. strayed' \in BOOLEAN /\ disturbed' \in BOOLEAN
  BY DEF TypeOK, ExecuteLate
<1> QED
  BY <1>4, <1>5, <1>6 DEF TypeOK, ExecuteLate

LEMMA RerunType == ASSUME TypeOK, Rerun PROVE TypeOK'
<1>1. Runs \in Nat /\ Len(Suite) \in Nat
  BY SuiteAssumption
<1>2. broken' \in 0..MaxBroken /\ strayed' \in BOOLEAN
  BY BrokenOffType DEF Rerun, TypeOK
<1>3. /\ run < Runs /\ run' = run + 1 /\ at' = 1 /\ step' = 0 /\ pending' = {}
      /\ replies' = NoReplies /\ failed' = FALSE /\ disturbed' = FALSE
      /\ UNCHANGED <<dbs, sel, late>>
  BY DEF Rerun, servers
<1>4. DOMAIN replies' = Kinds /\ failed' \in BOOLEAN /\ disturbed' \in BOOLEAN
  BY <1>3 DEF NoReplies
<1>5. run' \in 1..Runs /\ at' \in 1..(Len(Suite) + 1)
  BY <1>1, <1>3 DEF TypeOK
<1> QED
  BY <1>2, <1>3, <1>4, <1>5 DEF TypeOK

LEMMA TypeStep == ASSUME TypeOK, [Next]_vars PROVE TypeOK'
<1>1. CASE UNCHANGED vars
  BY <1>1 DEF vars, TypeOK
<1>2. CASE StartCase
  BY <1>2, StartCaseType
<1>3. CASE SetupFails
  BY <1>3, SetupFailsType
<1>4. CASE CompareStep
  BY <1>4, CompareStepType
<1>5. CASE Rerun
  BY <1>5, RerunType
<1>6. ASSUME NEW k \in Kinds, Ask(k) PROVE TypeOK'
  BY <1>6, AskType
<1>7. ASSUME NEW k \in Kinds, CallFails(k) PROVE TypeOK'
  BY <1>7, CallFailsType
<1>8. ASSUME NEW k \in Kinds, ExecuteLate(k) PROVE TypeOK'
  BY <1>8, ExecuteLateType
<1> QED
  BY <1>1, <1>2, <1>3, <1>4, <1>5, <1>6, <1>7, <1>8 DEF Next

-----------------------------------------------------------------------------
(***************************************************************************)
(* Every action keeps the isolation.                                       *)
(***************************************************************************)

\* A local command in database 0 reads and writes database 0 only.
LEMMA ExecuteSees ==
  ASSUME NEW c \in LocalCommands, NEW d \in [DbIds -> Database],
         NEW e \in [DbIds -> Database], e[0] = d[0]
  PROVE  /\ Execute(c, e, 0).dbs[0] = Execute(c, d, 0).dbs[0]
         /\ Execute(c, e, 0).reply = Execute(c, d, 0).reply
<1> DEFINE Same(p, q) == p.dbs[0] = q.dbs[0] /\ p.reply = q.reply
<1>0. ASSUME NEW reply PROVE Same(Result(e, 0, reply), Result(d, 0, reply))
  BY DEF Result
<1>01. ASSUME NEW db, NEW reply PROVE Same(With(e, 0, db, reply), With(d, 0, db, reply))
  BY DEF With, Result, DbIds
<1> HIDE DEF Same
<1>1. CASE c \in [op : {"add"}, key : Names, val : Values]
  <2>1. Same(DoAdd(c, e, 0), DoAdd(c, d, 0))
    BY <1>0, <1>01 DEF DoAdd
  <2>2. Execute(c, e, 0) = DoAdd(c, e, 0) /\ Execute(c, d, 0) = DoAdd(c, d, 0)
    BY <1>1 DEF Execute
  <2> QED
    BY <2>1, <2>2 DEF Same
<1>2. CASE c \in [op : {"read"}, key : Names]
  <2>1. Same(DoRead(c, e, 0), DoRead(c, d, 0))
    BY <1>0 DEF DoRead
  <2>2. Execute(c, e, 0) = DoRead(c, e, 0) /\ Execute(c, d, 0) = DoRead(c, d, 0)
    BY <1>2 DEF Execute
  <2> QED
    BY <2>1, <2>2 DEF Same
<1>3. CASE c = Keys
  <2>1. Same(DoKeys(e, 0), DoKeys(d, 0))
    BY <1>0 DEF DoKeys
  <2>2. Execute(c, e, 0) = DoKeys(e, 0) /\ Execute(c, d, 0) = DoKeys(d, 0)
    BY <1>3 DEF Execute, Keys
  <2> QED
    BY <2>1, <2>2 DEF Same
<1>4. CASE c \in [op : {"rename", "renamenx", "copy", "replace"}, key : Names,
                  dst : Names]
  <2>1. /\ Same(DoRename(c, e, 0), DoRename(c, d, 0))
        /\ Same(DoRenameNX(c, e, 0), DoRenameNX(c, d, 0))
        /\ Same(DoCopy(c, e, 0), DoCopy(c, d, 0))
    BY <1>0, <1>01 DEF DoRename, DoRenameNX, DoCopy
  <2>2. \/ Execute(c, e, 0) = DoRename(c, e, 0) /\ Execute(c, d, 0) = DoRename(c, d, 0)
        \/ Execute(c, e, 0) = DoRenameNX(c, e, 0) /\ Execute(c, d, 0) = DoRenameNX(c, d, 0)
        \/ Execute(c, e, 0) = DoCopy(c, e, 0) /\ Execute(c, d, 0) = DoCopy(c, d, 0)
    BY <1>4 DEF Execute
  <2> QED
    BY <2>1, <2>2 DEF Same
<1>5. CASE c = FlushDb
  <2>1. /\ Execute(c, e, 0) = With(e, 0, EmptyDb, OK)
        /\ Execute(c, d, 0) = With(d, 0, EmptyDb, OK)
    BY <1>5 DEF Execute, FlushDb
  <2> QED
    BY <2>1, <1>01 DEF Same
<1> QED
  BY <1>1, <1>2, <1>3, <1>4, <1>5 DEF LocalCommands

\* Two servers that look alike to a case look alike after its next command.
LEMMA SeenAlike ==
  ASSUME TypeOK, step # 0, NEW d \in [DbIds -> Database],
         NEW e \in [DbIds -> Database], NEW s \in DbIds,
         StaysInDatabase0(at) => s = 0, Seen(e) = Seen(d)
  PROVE  /\ Seen(Execute(Command, e, s).dbs) = Seen(Execute(Command, d, s).dbs)
         /\ Execute(Command, e, s).sel = Execute(Command, d, s).sel
         /\ Execute(Command, e, s).reply = Execute(Command, d, s).reply
<1>1. CASE StaysInDatabase0(at)
  <2>1. s = 0 /\ e[0] = d[0] /\ Command \in LocalCommands
    BY <1>1, CommandType DEF Seen
  <2>2. /\ Execute(Command, e, 0).dbs[0] = Execute(Command, d, 0).dbs[0]
        /\ Execute(Command, e, 0).reply = Execute(Command, d, 0).reply
    BY <2>1, ExecuteSees
  <2>3. Execute(Command, e, 0).sel = 0 /\ Execute(Command, d, 0).sel = 0
    BY <2>1, ExecuteLocal DEF DbIds
  <2> QED
    BY <1>1, <2>1, <2>2, <2>3 DEF Seen
<1>2. CASE ~StaysInDatabase0(at)
  <2>1. e = d
    BY <1>2 DEF Seen
  <2> QED
    BY <2>1
<1> QED
  BY <1>1, <1>2

LEMMA Initially == Init => Isolated
  BY DEF Init, Isolated, AgreeElsewhere, LateIsLocal

LEMMA StartCaseKeeps ==
  ASSUME TypeOK, Isolated, StartCase PROVE Isolated'
<1> DEFINE D == Flushed(Kinds)
<1>1. /\ D \in [Kinds -> [DbIds -> Database]]
      /\ \A k \in Kinds : D[k][0] = EmptyDb /\ D[k][1] = dbs[k][1]
  BY FlushedType
<1>2. /\ step = 0 /\ step' = 1 /\ dbs' = D /\ sel' = [k \in Kinds |-> 0]
      /\ pending' = Kinds
      /\ UNCHANGED <<at, late, disturbed, strayed>>
  BY DEF StartCase, FlushedForCase, history
<1> HIDE DEF D
<1>3. StaysInDatabase0(at)' = StaysInDatabase0(at)
  BY <1>2 DEF StaysInDatabase0
<1>4. ASSUME Undisturbed' PROVE LockStep'
  <2>1. PICK b \in Kinds : TRUE
    BY SuiteAssumption
  <2>2. PICK d \in [DbIds -> Database] : d = D[b]
    BY <1>1
  <2>3. ASSUME NEW k \in Kinds PROVE Seen(dbs[k])' = Seen(d)'
    <3>1. CASE StaysInDatabase0(at)
      <4>1. dbs'[k][0] = d[0]
        BY <1>1, <1>2, <2>2
      <4> QED
        BY <1>3, <3>1, <4>1 DEF Seen
    <3>2. CASE ~StaysInDatabase0(at)
      <4>1. D[k][1] = D[b][1]
        BY <1>1, <1>2, <1>3, <1>4, <3>2 DEF Undisturbed, Isolated, AgreeElsewhere
      <4>2. \A i \in DbIds : D[k][i] = D[b][i]
        BY <1>1, <4>1 DEF DbIds
      <4>3. dbs'[k] = d
        BY <1>1, <1>2, <2>2, <4>2
      <4> QED
        BY <1>3, <3>2, <4>3 DEF Seen
    <3> QED
      BY <3>1, <3>2
  <2>4. 0 \in DbIds
    BY DEF DbIds
  <2>5. \A k \in Kinds : k \in pending' /\ sel'[k] = 0
    BY <1>2
  <2> QED
    BY <2>3, <2>4, <2>5 DEF LockStep
<1>5. ~strayed => AgreeElsewhere'
  BY <1>1, <1>2 DEF Isolated, AgreeElsewhere
<1>6. LateIsLocal' = LateIsLocal
  BY <1>2 DEF LateIsLocal
<1> QED
  BY <1>2, <1>4, <1>5, <1>6 DEF Isolated

LEMMA AskKeeps ==
  ASSUME TypeOK, Isolated, NEW k \in Kinds, Ask(k) PROVE Isolated'
<1> DEFINE after == Execute(Command, dbs[k], sel[k])
<1>1. /\ step # 0 /\ k \in pending /\ pending' = pending \ {k}
      /\ dbs' = [dbs EXCEPT ![k] = after.dbs]
      /\ sel' = [sel EXCEPT ![k] = after.sel]
      /\ replies' = [replies EXCEPT ![k] = after.reply]
      /\ UNCHANGED <<at, step, late, disturbed, strayed>>
  BY DEF Ask, Executes, history
<1>2. /\ Command' = Command /\ StaysInDatabase0(at)' = StaysInDatabase0(at)
      /\ Undisturbed' = Undisturbed
  BY <1>1 DEF Command, StaysInDatabase0, Undisturbed
<1>3. dbs[k] \in [DbIds -> Database] /\ sel[k] \in DbIds
  BY DEF TypeOK
<1>4. StaysInDatabase0(at) => sel[k] = 0 /\ after.sel = 0 /\ after.dbs[1] = dbs[k][1]
  BY <1>1, <1>3, CommandType, ExecuteLocal DEF Isolated
<1>5. ASSUME Undisturbed PROVE LockStep'
  <2>1. PICK d \in [DbIds -> Database], s \in DbIds :
          \A j \in Kinds :
            /\ j \in pending => Seen(dbs[j]) = Seen(d) /\ sel[j] = s
            /\ j \notin pending =>
                 /\ Seen(dbs[j]) = Seen(Execute(Command, d, s).dbs)
                 /\ sel[j] = Execute(Command, d, s).sel
                 /\ replies[j] = Execute(Command, d, s).reply
    BY <1>1, <1>5 DEF Isolated, LockStep
  <2> DEFINE next == Execute(Command, d, s)
  <2>2. Seen(dbs[k]) = Seen(d) /\ sel[k] = s
    BY <1>1, <2>1
  <2>3. /\ Seen(after.dbs) = Seen(next.dbs)
        /\ after.sel = next.sel /\ after.reply = next.reply
    BY <1>1, <1>3, <1>4, <2>2, SeenAlike
  <2>4. ASSUME NEW x PROVE Seen(x)' = Seen(x')
    BY <1>2 DEF Seen
  <2>5. \A j \in Kinds :
          /\ j \in pending' => Seen(dbs'[j]) = Seen(d) /\ sel'[j] = s
          /\ j \notin pending' =>
               /\ Seen(dbs'[j]) = Seen(next.dbs)
               /\ sel'[j] = next.sel /\ replies'[j] = next.reply
    <3> HIDE DEF next, after
    <3> SUFFICES ASSUME NEW j \in Kinds
                 PROVE  /\ j \in pending' => Seen(dbs'[j]) = Seen(d) /\ sel'[j] = s
                        /\ j \notin pending' =>
                             /\ Seen(dbs'[j]) = Seen(next.dbs)
                             /\ sel'[j] = next.sel /\ replies'[j] = next.reply
      OBVIOUS
    <3>1. CASE j = k
      BY <1>1, <2>3, <3>1 DEF TypeOK
    <3>2. CASE j # k
      <4>1. /\ dbs'[j] = dbs[j] /\ sel'[j] = sel[j] /\ replies'[j] = replies[j]
            /\ j \in pending' <=> j \in pending
        BY <1>1, <3>2 DEF TypeOK
      <4>2. j \notin pending =>
              Seen(dbs[j]) = Seen(next.dbs) /\ sel[j] = next.sel /\ replies[j] = next.reply
        BY <2>1 DEF next
      <4> QED
        BY <2>1, <4>1, <4>2
    <3> QED
      BY <3>1, <3>2
  <2> QED
    BY <1>2, <2>5 DEF LockStep, Seen
<1>6. StaysInDatabase0(at) /\ ~strayed => AgreeElsewhere'
  <2> HIDE DEF after
  <2> QED
    BY <1>1, <1>4 DEF Isolated, AgreeElsewhere, TypeOK
<1>7. StaysInDatabase0(at) => \A j \in Kinds : sel'[j] = 0
  <2> HIDE DEF after
  <2> QED
    BY <1>1, <1>4 DEF Isolated, TypeOK
<1>8. LateIsLocal' = LateIsLocal
  BY <1>1 DEF LateIsLocal
<1> QED
  BY <1>1, <1>2, <1>5, <1>6, <1>7, <1>8 DEF Isolated

\* Once every target has answered, all look alike and have answered alike.
LEMMA AllAnswered ==
  ASSUME Isolated, step # 0, Undisturbed, pending = {}
  PROVE  \A j, k \in Kinds : /\ Seen(dbs[j]) = Seen(dbs[k]) /\ sel[j] = sel[k]
                             /\ replies[j] = replies[k]
  BY DEF Isolated, LockStep

LEMMA CompareStepKeeps ==
  ASSUME TypeOK, Isolated, CompareStep PROVE Isolated'
<1>1. /\ step # 0 /\ pending = {} /\ UNCHANGED <<dbs, sel, late, strayed>>
  BY DEF CompareStep, servers
<1>2. LateIsLocal' = LateIsLocal
  BY <1>1 DEF LateIsLocal
<1>3. ~strayed => AgreeElsewhere'
  <2>1. CASE StaysInDatabase0(at)
    BY <1>1, <2>1 DEF Isolated, AgreeElsewhere
  <2>2. CASE ~StaysInDatabase0(at)
    <3>1. ~strayed => Undisturbed
      BY <2>2 DEF Isolated, Undisturbed
    <3>2. ~strayed => \A j, k \in Kinds : dbs[j] = dbs[k]
      BY <1>1, <2>2, <3>1, AllAnswered DEF Seen
    <3> QED
      BY <1>1, <3>2 DEF AgreeElsewhere
  <2> QED
    BY <2>1, <2>2
<1>4. CASE LastStep(step)
  <2>1. step' = 0 /\ disturbed' = FALSE
    BY <1>4 DEF CompareStep, NextCase
  <2> QED
    BY <1>1, <1>2, <1>3, <2>1 DEF Isolated
<1>5. CASE ~LastStep(step)
  <2>1. pending' = Kinds /\ step' = step + 1 /\ UNCHANGED <<at, dbs, sel, disturbed, strayed>>
    BY <1>1, <1>5 DEF CompareStep
  <2>2. StaysInDatabase0(at)' = StaysInDatabase0(at) /\ Undisturbed' = Undisturbed
    BY <2>1 DEF StaysInDatabase0, Undisturbed
  <2>3. step' # 0
    BY <1>1, <2>1, CommandType
  <2>4. ASSUME Undisturbed PROVE LockStep'
    <3>1. PICK b \in Kinds : TRUE
      BY SuiteAssumption
    <3>2. /\ dbs[b] \in [DbIds -> Database] /\ sel[b] \in DbIds
          /\ \A k \in Kinds : Seen(dbs[k]) = Seen(dbs[b]) /\ sel[k] = sel[b]
      BY <1>1, <2>4, <3>1, AllAnswered DEF TypeOK
    <3>3. \A k \in Kinds : /\ k \in pending'
                           /\ Seen(dbs[k])' = Seen(dbs[b])' /\ sel'[k] = sel[b]
      BY <2>1, <2>2, <3>2 DEF Seen
    <3> QED
      BY <2>1, <3>2, <3>3 DEF LockStep
  <2>5. StaysInDatabase0(at) => \A k \in Kinds : sel'[k] = 0
    BY <1>1, <2>1 DEF Isolated
  <2> QED
    BY <1>1, <1>2, <1>3, <2>1, <2>2, <2>3, <2>4, <2>5 DEF Isolated
<1> QED
  BY <1>4, <1>5

LEMMA SetupFailsKeeps ==
  ASSUME TypeOK, Isolated, SetupFails PROVE Isolated'
<1>1. PICK S \in SUBSET Kinds : dbs' = Flushed(S)
  BY DEF SetupFails
<1>2. \A k \in Kinds : dbs'[k][1] = dbs[k][1]
  BY <1>1, FlushedType
<1>3. step = 0 /\ step' = 0 /\ disturbed' = FALSE /\ UNCHANGED <<late, strayed>>
  BY DEF SetupFails, NextCase
<1>4. ~strayed => AgreeElsewhere'
  BY <1>2, <1>3 DEF Isolated, AgreeElsewhere
<1>5. LateIsLocal' = LateIsLocal
  BY <1>3 DEF LateIsLocal
<1> QED
  BY <1>3, <1>4, <1>5 DEF Isolated

LEMMA CallFailsKeeps ==
  ASSUME TypeOK, Isolated, NEW k \in Kinds, CallFails(k)
  PROVE  Isolated'
<1>1. step # 0 /\ step' = 0 /\ disturbed' = FALSE /\ BrokenOff
  BY DEF CallFails, NextCase
<1>2. SUFFICES ASSUME ~strayed' PROVE AgreeElsewhere' /\ LateIsLocal'
  BY <1>1 DEF Isolated
<1>3. ~strayed /\ StaysInDatabase0(at)
  BY <1>1, <1>2, BrokenOffType
<1>4. /\ sel[k] = 0 /\ dbs[k] \in [DbIds -> Database] /\ Command \in LocalCommands
      /\ AgreeElsewhere /\ LateIsLocal
  BY <1>1, <1>3, CommandType DEF Isolated, TypeOK
<1> DEFINE after == Execute(Command, dbs[k], sel[k])
<1>5. after.dbs[1] = dbs[k][1]
  BY <1>4, ExecuteLocal DEF DbIds
<1>6. dbs' = dbs \/ dbs' = [dbs EXCEPT ![k] = after.dbs]
  BY DEF CallFails, Executes, servers
<1> HIDE DEF after
<1>7. \A j \in Kinds : dbs'[j][1] = dbs[j][1]
  BY <1>5, <1>6 DEF TypeOK
<1>8. late' = late \/ late' = [late EXCEPT ![k] = [cmd |-> Command, sel |-> sel[k]]]
  BY DEF CallFails, servers
<1>9. LateIsLocal'
  BY <1>4, <1>8 DEF LateIsLocal, TypeOK
<1> QED
  BY <1>4, <1>7, <1>9 DEF AgreeElsewhere

LEMMA ExecuteLateKeeps ==
  ASSUME TypeOK, Isolated, NEW k \in Kinds, ExecuteLate(k)
  PROVE  Isolated'
<1> DEFINE after == Execute(late[k].cmd, dbs[k], late[k].sel)
<1>1. /\ late[k] # Nothing
      /\ dbs' = [dbs EXCEPT ![k] = after.dbs] /\ late' = [late EXCEPT ![k] = Nothing]
      /\ disturbed' = (step # 0)
      /\ strayed' = (strayed \/ (step # 0 /\ ~StaysInDatabase0(at)))
      /\ UNCHANGED <<sel, at, step>>
  BY DEF ExecuteLate
<1>2. StaysInDatabase0(at)' = StaysInDatabase0(at)
  BY <1>1 DEF StaysInDatabase0
<1>3. LateIsLocal => LateIsLocal'
  BY <1>1 DEF LateIsLocal, TypeOK
<1>4. ASSUME ~strayed PROVE after.dbs[1] = dbs[k][1]
  <2>1. /\ late[k].cmd \in LocalCommands /\ late[k].sel = 0
        /\ dbs[k] \in [DbIds -> Database] /\ 0 \in DbIds
    BY <1>1, <1>4 DEF Isolated, LateIsLocal, TypeOK, DbIds
  <2> QED
    BY <2>1, ExecuteLocal
<1> HIDE DEF after
<1>5. ASSUME ~strayed, AgreeElsewhere PROVE AgreeElsewhere'
  BY <1>1, <1>4, <1>5 DEF AgreeElsewhere, TypeOK
<1>6. step # 0 => ~Undisturbed'
  BY <1>1 DEF Undisturbed
<1> QED
  BY <1>1, <1>2, <1>3, <1>5, <1>6 DEF Isolated

LEMMA RerunKeeps ==
  ASSUME TypeOK, Isolated, Rerun PROVE Isolated'
<1>1. step' = 0 /\ disturbed' = FALSE /\ UNCHANGED <<dbs, late>>
  BY DEF Rerun, servers
<1>2. LateIsLocal' = LateIsLocal /\ AgreeElsewhere' = AgreeElsewhere
  BY <1>1 DEF LateIsLocal, AgreeElsewhere
<1>3. ~strayed' => ~strayed /\ (step = 0 \/ StaysInDatabase0(at))
  BY BrokenOffType DEF Rerun
<1> QED
  BY <1>1, <1>2, <1>3 DEF Isolated

LEMMA IsolationStep ==
  ASSUME IsolationInv, [Next]_vars PROVE IsolationInv'
<1> SUFFICES Isolated'
  BY TypeStep DEF IsolationInv
<1> USE DEF IsolationInv
<1>1. CASE UNCHANGED vars
  BY <1>1 DEF vars, Isolated, LockStep, Seen, AgreeElsewhere, LateIsLocal, Undisturbed,
              Command, StaysInDatabase0
<1>2. CASE StartCase
  BY <1>2, StartCaseKeeps
<1>3. CASE SetupFails
  BY <1>3, SetupFailsKeeps
<1>4. CASE CompareStep
  BY <1>4, CompareStepKeeps
<1>5. CASE Rerun
  BY <1>5, RerunKeeps
<1>6. ASSUME NEW k \in Kinds, Ask(k) PROVE Isolated'
  BY <1>6, AskKeeps
<1>7. ASSUME NEW k \in Kinds, CallFails(k) PROVE Isolated'
  BY <1>7, CallFailsKeeps
<1>8. ASSUME NEW k \in Kinds, ExecuteLate(k) PROVE Isolated'
  BY <1>8, ExecuteLateKeeps
<1> QED
  BY <1>1, <1>2, <1>3, <1>4, <1>5, <1>6, <1>7, <1>8 DEF Next

-----------------------------------------------------------------------------
\* Every variable of the suite and its servers keeps its type.
THEOREM TypeCorrect == Spec => []TypeOK
<1>1. Init => TypeOK
  BY TypeInitially
<1>2. TypeOK /\ [Next]_vars => TypeOK'
  BY TypeStep
<1> QED
  BY <1>1, <1>2, PTL DEF Spec

\* The inductive invariant.
LEMMA Isolation == Spec => []IsolationInv
<1>1. Init => IsolationInv
  BY TypeInitially, Initially DEF IsolationInv
<1>2. IsolationInv /\ [Next]_vars => IsolationInv'
  BY IsolationStep
<1> QED
  BY <1>1, <1>2, PTL DEF Spec

\* A step makes a case fail only if it is disturbed or strayed.
LEMMA FailsDisturbed ==
  ASSUME IsolationInv, [Next]_vars, failed', ~failed
  PROVE  disturbed \/ (strayed /\ ~StaysInDatabase0(at))
<1>1. CompareStep
  BY DEF Next, StartCase, SetupFails, Ask, CallFails, ExecuteLate, Rerun, vars
<1>2. step # 0 /\ pending = {} /\ \E k \in Kinds : replies[k] # replies[BaselineKind]
  BY <1>1 DEF CompareStep
<1>3. ~Undisturbed
  BY <1>2, AllAnswered, SuiteAssumption DEF IsolationInv
<1> QED
  BY <1>3, Zenon DEF Undisturbed

\* Servers that behave alike are never reported as different (the flush before
\* each case, case.go:178, is all the isolation a case in database 0 needs),
\* whatever their databases held at first, whatever calls fail and whenever the
\* harness is killed, but for a case in whose middle a server executes an earlier
\* one's command, and a case away from database 0 after database 1 was in use at
\* first or such a case was broken off or disturbed.
THEOREM NeverReported == Spec => NoFalseFailure
<1>1. IsolationInv /\ [Next]_vars =>
        [failed' /\ ~failed => disturbed \/ (strayed /\ ~StaysInDatabase0(at))]_vars
  BY FailsDisturbed
<1> QED
  BY <1>1, Isolation, PTL DEF Spec, NoFalseFailure

\* The order in which a step asks the targets cannot be seen: two targets that
\* have answered the same steps of a case agree on what the next reply depends on
\* (case.go:194-208).
THEOREM OrderInvisible == Spec => []AnsweredAlike
<1>1. IsolationInv => AnsweredAlike
  BY DEF IsolationInv, Isolated, LockStep, AnsweredAlike, Seen
<1> QED
  BY <1>1, Isolation, PTL

\* In a suite of cases that stay in database 0 no case is ever reported, whatever
\* the databases held at first, whatever calls fail and whenever the harness is
\* killed, if no command is executed late.
THEOREM LocalSuite ==
  ASSUME "late" \notin Failures, \A i \in DOMAIN Suite : StaysInDatabase0(i)
  PROVE  Spec => []~failed
<1> DEFINE Prompt == /\ IsolationInv
                     /\ \A k \in Kinds : late[k] = Nothing
                     /\ ~disturbed /\ ~failed
<1>1. Init => Prompt
  BY TypeInitially, Initially DEF IsolationInv, Init
<1>2. Prompt /\ [Next]_vars => Prompt'
  <2> SUFFICES ASSUME Prompt, [Next]_vars
               PROVE  /\ \A k \in Kinds : late'[k] = Nothing
                      /\ ~disturbed' /\ ~failed'
    BY IsolationStep
  <2>1. UNCHANGED late
    BY DEF Next, StartCase, SetupFails, CompareStep, Ask, CallFails, ExecuteLate, Rerun,
           servers, vars
  <2>2. ~disturbed'
    BY DEF Next, StartCase, SetupFails, CompareStep, NextCase, Ask, CallFails, ExecuteLate,
           Rerun, history, vars
  <2>3. CompareStep => StaysInDatabase0(at)
    BY CommandType DEF CompareStep, IsolationInv
  <2>4. ~CompareStep => ~failed'
    BY DEF Next, StartCase, SetupFails, Ask, CallFails, ExecuteLate, Rerun, vars
  <2>5. ~failed'
    BY <2>3, <2>4, FailsDisturbed
  <2> QED
    BY <2>1, <2>2, <2>5
<1>3. Prompt => ~failed
  OBVIOUS
<1> QED
  BY <1>1, <1>2, <1>3, PTL DEF Spec

-----------------------------------------------------------------------------
(***************************************************************************)
(* A case as if it were the only one.  What is asked of a script is that   *)
(* it leaves database 1, which no set-up flushes, empty when nothing goes  *)
(* wrong; that it does so in the suite, with failed calls and              *)
(* interruptions, and is not disturbed by the others, is what is proved.   *)
(***************************************************************************)

OneIsEmpty == \A k \in Kinds : dbs[k][1] = EmptyDb

\* A target is at the stage of the step, or one further once it has answered,
\* and then with the reply of that stage.
AtStage ==
  \A k \in Kinds :
    LET asked == Alone[at][step]
        now == Alone[at][IF k \in pending THEN step ELSE step + 1]
    IN  /\ dbs[k][0] = now.dbs[0] /\ sel[k] = now.sel
        /\ ~strayed => dbs[k] = now.dbs
        /\ k \notin pending => replies[k] = Execute(Command, asked.dbs, asked.sel).reply

\* The case by itself is in some databases before the step, in database 0 if it
\* stays there.
StageType ==
  /\ Alone[at][step].dbs \in [DbIds -> Database]
  /\ Alone[at][step].sel \in DbIds
  /\ StaysInDatabase0(at) => Alone[at][step].sel = 0

Emptied ==
  /\ ~strayed /\ (step = 0 \/ StaysInDatabase0(at)) => OneIsEmpty
  /\ step # 0 => StageType
  /\ step # 0 /\ Undisturbed => AtStage

EmptiedInv == IsolationInv /\ Emptied

\* What a case is in by itself after the step.
LEMMA NextStage ==
  ASSUME TypeOK, step # 0
  PROVE  /\ Alone[at][step + 1].dbs =
              Execute(Command, Alone[at][step].dbs, Alone[at][step].sel).dbs
         /\ Alone[at][step + 1].sel =
              Execute(Command, Alone[at][step].dbs, Alone[at][step].sel).sel
<1>1. at \in DOMAIN Suite /\ step \in DOMAIN Suite[at]
  BY CommandType
<1> DEFINE next == Execute(Command, Alone[at][step].dbs, Alone[at][step].sel)
<1>2. Alone[at][step + 1] = [dbs |-> next.dbs, sel |-> next.sel]
  BY <1>1, AloneAssumption DEF Command
<1> HIDE DEF next
<1>3. Alone[at][step + 1].dbs = next.dbs /\ Alone[at][step + 1].sel = next.sel
  BY <1>2
<1> QED
  BY <1>3 DEF next

LEMMA StartCaseEmpties ==
  ASSUME TypeOK, Emptied, StartCase
  PROVE  Emptied'
<1>1. /\ at \in DOMAIN Suite
      /\ step = 0 /\ step' = 1 /\ at' = at /\ pending' = Kinds
      /\ dbs' = Flushed(Kinds) /\ sel' = [k \in Kinds |-> 0]
      /\ UNCHANGED <<disturbed, strayed>>
  BY AtCase DEF StartCase, FlushedForCase, history
<1>2. /\ Flushed(Kinds) \in [Kinds -> [DbIds -> Database]]
      /\ \A k \in Kinds : Flushed(Kinds)[k][0] = EmptyDb
      /\ \A k \in Kinds : Flushed(Kinds)[k][1] = dbs[k][1]
  BY FlushedType
<1>3. ~strayed => OneIsEmpty /\ OneIsEmpty'
  BY <1>1, <1>2 DEF Emptied, OneIsEmpty
<1>. DEFINE fresh == [d \in DbIds |-> EmptyDb]
<1>4. fresh \in [DbIds -> Database] /\ fresh[0] = EmptyDb /\ fresh[1] = EmptyDb
        /\ 0 \in DbIds
  BY DEF DbIds, EmptyDb, Database
<1>5. Alone[at][1].dbs = fresh /\ Alone[at][1].sel = 0
  BY <1>1, AloneAssumption
<1>. HIDE DEF fresh
<1>6. ASSUME NEW k \in Kinds, ~strayed PROVE dbs'[k] = fresh
  <2>1. dbs'[k] \in [DbIds -> Database]
    BY <1>1, <1>2
  <2>2. dbs'[k][0] = EmptyDb /\ dbs'[k][1] = EmptyDb
    BY <1>1, <1>2, <1>3, <1>6 DEF OneIsEmpty
  <2>3. \A d \in DbIds : dbs'[k][d] = fresh[d]
    BY <1>4, <2>2 DEF DbIds
  <2>. QED
    BY <1>4, <2>1, <2>3
<1>7. AtStage'
  <2>. SUFFICES ASSUME NEW k \in Kinds
                PROVE  /\ k \in pending'
                       /\ dbs'[k][0] = Alone[at][1].dbs[0]
                       /\ sel'[k] = Alone[at][1].sel
                       /\ ~strayed => dbs'[k] = Alone[at][1].dbs
    BY <1>1 DEF AtStage
  <2>. QED
    BY <1>1, <1>2, <1>4, <1>5, <1>6
<1>8. StageType'
  BY <1>1, <1>4, <1>5 DEF StageType
<1>. QED
  BY <1>1, <1>3, <1>7, <1>8 DEF Emptied

LEMMA AskEmpties ==
  ASSUME TypeOK, Isolated, Emptied, NEW k \in Kinds, Ask(k)
  PROVE  Emptied'
<1>. DEFINE after == Execute(Command, dbs[k], sel[k])
            stage == Alone[at][step]
            next == Execute(Command, stage.dbs, stage.sel)
<1>1. /\ step # 0 /\ k \in pending /\ pending' = pending \ {k}
      /\ UNCHANGED <<at, step, disturbed, strayed>>
      /\ dbs' = [dbs EXCEPT ![k] = after.dbs]
      /\ sel' = [sel EXCEPT ![k] = after.sel]
      /\ replies' = [replies EXCEPT ![k] = after.reply]
  BY DEF Ask, Executes, history
<1>2. /\ StaysInDatabase0(at) => Command \in LocalCommands
      /\ dbs[k] \in [DbIds -> Database] /\ StageType
  BY <1>1, CommandType DEF Emptied, TypeOK
<1>3. /\ Command' = Command /\ StaysInDatabase0(at)' = StaysInDatabase0(at)
      /\ Undisturbed' = Undisturbed /\ StageType' = StageType
  BY <1>1 DEF Command, StaysInDatabase0, Undisturbed, StageType
<1>4. Alone[at][step + 1].dbs = next.dbs /\ Alone[at][step + 1].sel = next.sel
  BY <1>1, NextStage
<1>5. ASSUME Undisturbed
      PROVE  /\ after.dbs[0] = next.dbs[0] /\ after.sel = next.sel
             /\ after.reply = next.reply
             /\ ~strayed => after.dbs = next.dbs
  <2>1. /\ dbs[k][0] = stage.dbs[0] /\ sel[k] = stage.sel
        /\ ~strayed => dbs[k] = stage.dbs
    BY <1>1, <1>5 DEF Emptied, AtStage
  <2>2. CASE ~strayed
    BY <2>1, <2>2
  <2>3. CASE StaysInDatabase0(at)
    <3>1. /\ sel[k] = 0 /\ stage.sel = 0 /\ stage.dbs \in [DbIds -> Database]
          /\ Command \in LocalCommands /\ 0 \in DbIds
      BY <1>2, <2>1, <2>3 DEF StageType, DbIds
    <3>2. /\ Execute(Command, dbs[k], 0).dbs[0] = Execute(Command, stage.dbs, 0).dbs[0]
          /\ Execute(Command, dbs[k], 0).reply = Execute(Command, stage.dbs, 0).reply
      BY <1>2, <2>1, <3>1, ExecuteSees
    <3>3. /\ Execute(Command, dbs[k], 0).sel = 0
          /\ Execute(Command, stage.dbs, 0).sel = 0
      BY <1>2, <3>1, ExecuteLocal
    <3>. QED
      BY <2>1, <3>1, <3>2, <3>3
  <2>. QED
    BY <1>5, <2>2, <2>3 DEF Undisturbed
<1>6. StaysInDatabase0(at) => after.dbs[1] = dbs[k][1]
  BY <1>1, <1>2, ExecuteLocal DEF Isolated, DbIds
<1>7. StaysInDatabase0(at) /\ ~strayed => OneIsEmpty'
  <2>. HIDE DEF after
  <2>. QED
    BY <1>1, <1>6 DEF Emptied, OneIsEmpty, TypeOK
<1>8. ASSUME Undisturbed PROVE AtStage'
  <2>. SUFFICES ASSUME NEW j \in Kinds
                PROVE  LET now == Alone[at][IF j \in pending' THEN step ELSE step + 1]
                       IN  /\ dbs'[j][0] = now.dbs[0] /\ sel'[j] = now.sel
                           /\ ~strayed => dbs'[j] = now.dbs
                           /\ j \notin pending' => replies'[j] = next.reply
    BY <1>1, <1>3 DEF AtStage
  <2>. HIDE DEF after
  <2>1. CASE j = k
    <3>1. /\ dbs'[j] = after.dbs /\ sel'[j] = after.sel /\ replies'[j] = after.reply
          /\ j \notin pending'
      BY <1>1, <2>1 DEF TypeOK
    <3>. HIDE DEF next
    <3>. QED
      BY <1>4, <1>5, <1>8, <3>1
  <2>2. CASE j # k
    <3>1. /\ dbs'[j] = dbs[j] /\ sel'[j] = sel[j] /\ replies'[j] = replies[j]
          /\ (j \in pending' <=> j \in pending)
      BY <1>1, <2>2 DEF TypeOK
    <3>. QED
      BY <1>1, <1>8, <3>1 DEF Emptied, AtStage
  <2>. QED
    BY <2>1, <2>2
<1>. QED
  BY <1>1, <1>2, <1>3, <1>7, <1>8 DEF Emptied

LEMMA CompareStepEmpties ==
  ASSUME CleanScripts, TypeOK, Isolated, Emptied, CompareStep
  PROVE  Emptied'
<1>1. step # 0 /\ pending = {} /\ UNCHANGED <<dbs, sel, strayed>>
  BY DEF CompareStep, servers
<1>2. at \in DOMAIN Suite /\ step \in DOMAIN Suite[at] /\ Suite[at] \in Seq(Commands)
  BY <1>1, CommandType
<1>3. ASSUME Undisturbed
      PROVE  \A k \in Kinds : /\ dbs[k][0] = Alone[at][step + 1].dbs[0]
                              /\ sel[k] = Alone[at][step + 1].sel
                              /\ ~strayed => dbs[k] = Alone[at][step + 1].dbs
  BY <1>1, <1>3 DEF Emptied, AtStage
<1>4. CASE LastStep(step)
  <2>1. step' = 0 /\ step = Len(Suite[at])
    BY <1>4 DEF CompareStep, NextCase, LastStep
  <2>2. Alone[at][step + 1].dbs[1] = EmptyDb
    BY <1>2, <2>1 DEF CleanScripts
  <2>3. ASSUME ~strayed PROVE OneIsEmpty
    <3>1. CASE StaysInDatabase0(at)
      BY <2>3, <3>1 DEF Emptied
    <3>2. CASE ~StaysInDatabase0(at)
      <4>1. Undisturbed
        BY <2>3, <3>2 DEF Isolated, Undisturbed
      <4>. QED
        BY <1>3, <2>2, <2>3, <4>1 DEF OneIsEmpty
    <3>. QED
      BY <3>1, <3>2
  <2>4. OneIsEmpty' = OneIsEmpty
    BY <1>1 DEF OneIsEmpty
  <2>. QED
    BY <1>1, <2>1, <2>3, <2>4 DEF Emptied
<1>5. CASE ~LastStep(step)
  <2>1. /\ step' = step + 1 /\ step' # 0 /\ pending' = Kinds
        /\ UNCHANGED <<at, disturbed>>
    BY <1>2, <1>5 DEF CompareStep
  <2>2. StaysInDatabase0(at)' = StaysInDatabase0(at) /\ Undisturbed' = Undisturbed
    BY <1>1, <2>1 DEF StaysInDatabase0, Undisturbed
  <2>3. Undisturbed => AtStage'
    BY <1>1, <1>3, <2>1 DEF AtStage
  <2>4. StageType'
    <3>. DEFINE stage == Alone[at][step]
                next == Execute(Command, stage.dbs, stage.sel)
    <3>1. /\ stage.dbs \in [DbIds -> Database] /\ stage.sel \in DbIds
          /\ StaysInDatabase0(at) => stage.sel = 0
      BY <1>1 DEF Emptied, StageType
    <3>2. next.dbs \in [DbIds -> Database] /\ next.sel \in DbIds
      BY <1>1, <3>1, CommandType, ExecuteType
    <3>3. StaysInDatabase0(at) => next.sel = 0
      BY <1>1, <3>1, CommandType, ExecuteLocal
    <3>4. Alone[at][step + 1].dbs = next.dbs /\ Alone[at][step + 1].sel = next.sel
      BY <1>1, NextStage
    <3>. HIDE DEF next
    <3>. QED
      BY <2>1, <2>2, <3>2, <3>3, <3>4 DEF StageType
  <2>5. OneIsEmpty' = OneIsEmpty
    BY <1>1 DEF OneIsEmpty
  <2>. QED
    BY <1>1, <2>1, <2>2, <2>3, <2>4, <2>5 DEF Emptied
<1>. QED
  BY <1>4, <1>5

LEMMA SetupFailsEmpties ==
  ASSUME TypeOK, Emptied, SetupFails
  PROVE  Emptied'
<1>1. PICK S \in SUBSET Kinds : dbs' = Flushed(S)
  BY DEF SetupFails
<1>2. \A k \in Kinds : dbs'[k][1] = dbs[k][1]
  BY <1>1, FlushedType
<1>3. step = 0 /\ step' = 0 /\ strayed' = strayed
  BY DEF SetupFails, NextCase
<1>. QED
  BY <1>2, <1>3 DEF OneIsEmpty, Emptied

LEMMA CallFailsEmpties ==
  ASSUME TypeOK, Isolated, Emptied, NEW k \in Kinds, CallFails(k)
  PROVE  Emptied'
<1>1. step # 0 /\ step' = 0 /\ BrokenOff
  BY DEF CallFails, NextCase
<1>. SUFFICES ASSUME ~strayed' PROVE OneIsEmpty'
  BY <1>1 DEF Emptied
<1>2. /\ sel[k] = 0 /\ dbs[k] \in [DbIds -> Database] /\ OneIsEmpty
      /\ Command \in LocalCommands
  BY <1>1, BrokenOffType, CommandType DEF Isolated, Emptied, TypeOK
<1>. DEFINE after == Execute(Command, dbs[k], sel[k])
<1>3. after.dbs[1] = dbs[k][1]
  BY <1>2, ExecuteLocal DEF DbIds
<1>4. dbs' = dbs \/ dbs' = [dbs EXCEPT ![k] = after.dbs]
  BY DEF CallFails, Executes, servers
<1>. HIDE DEF after
<1>5. \A j \in Kinds : dbs'[j][1] = dbs[j][1]
  BY <1>3, <1>4 DEF TypeOK
<1>. QED
  BY <1>2, <1>5 DEF OneIsEmpty

LEMMA ExecuteLateEmpties ==
  ASSUME TypeOK, Isolated, Emptied, NEW k \in Kinds, ExecuteLate(k)
  PROVE  Emptied'
<1>. DEFINE after == Execute(late[k].cmd, dbs[k], late[k].sel)
<1>1. /\ late[k] # Nothing /\ dbs' = [dbs EXCEPT ![k] = after.dbs]
      /\ disturbed' = (step # 0) /\ UNCHANGED <<at, step>>
      /\ strayed' = (strayed \/ (step # 0 /\ ~StaysInDatabase0(at)))
  BY DEF ExecuteLate
<1>2. ASSUME ~strayed PROVE after.dbs[1] = dbs[k][1]
  <2>1. /\ late[k].cmd \in LocalCommands /\ late[k].sel = 0
        /\ dbs[k] \in [DbIds -> Database] /\ 0 \in DbIds
    BY <1>1, <1>2 DEF Isolated, LateIsLocal, TypeOK, DbIds
  <2>. QED
    BY <2>1, ExecuteLocal
<1>. HIDE DEF after
<1>3. ~strayed /\ OneIsEmpty => OneIsEmpty'
  BY <1>1, <1>2 DEF OneIsEmpty, TypeOK
<1>4. step # 0 => ~Undisturbed'
  BY <1>1 DEF Undisturbed
<1>5. StageType' = StageType /\ StaysInDatabase0(at)' = StaysInDatabase0(at)
  BY <1>1 DEF StageType, StaysInDatabase0
<1>. QED
  BY <1>1, <1>3, <1>4, <1>5 DEF Emptied

LEMMA RerunEmpties ==
  ASSUME Emptied, Rerun
  PROVE  Emptied'
<1>1. ~strayed' => ~strayed /\ (step = 0 \/ StaysInDatabase0(at))
  BY DEF Rerun, BrokenOff
<1>2. step' = 0 /\ OneIsEmpty' = OneIsEmpty
  BY DEF Rerun, servers, OneIsEmpty
<1>. QED
  BY <1>1, <1>2 DEF Emptied

LEMMA EmptiedStep ==
  ASSUME CleanScripts, EmptiedInv, [Next]_vars
  PROVE  EmptiedInv'
<1>. SUFFICES Emptied'
  BY IsolationStep DEF EmptiedInv
<1>. USE DEF EmptiedInv, IsolationInv
<1>1. CASE UNCHANGED vars
  BY <1>1 DEF vars, Emptied, OneIsEmpty, AtStage, StageType, Undisturbed,
              StaysInDatabase0, Command
<1>2. CASE StartCase
  BY <1>2, StartCaseEmpties
<1>3. CASE SetupFails
  BY <1>3, SetupFailsEmpties
<1>4. CASE CompareStep
  BY <1>4, CompareStepEmpties
<1>5. CASE Rerun
  BY <1>5, RerunEmpties
<1>6. ASSUME NEW k \in Kinds, Ask(k) PROVE Emptied'
  BY <1>6, AskEmpties
<1>7. ASSUME NEW k \in Kinds, CallFails(k) PROVE Emptied'
  BY <1>7, CallFailsEmpties
<1>8. ASSUME NEW k \in Kinds, ExecuteLate(k) PROVE Emptied'
  BY <1>8, ExecuteLateEmpties
<1>. QED
  BY <1>1, <1>2, <1>3, <1>4, <1>5, <1>6, <1>7, <1>8 DEF Next

LEMMA Emptying ==
  ASSUME CleanScripts
  PROVE  Spec => []EmptiedInv
<1>1. Init => EmptiedInv
  <2>1. Init => IsolationInv
    BY TypeInitially, Initially DEF IsolationInv
  <2>2. Init => Emptied
    BY DEF Init, Emptied, OneIsEmpty
  <2>. QED
    BY <2>1, <2>2 DEF EmptiedInv
<1>2. EmptiedInv /\ [Next]_vars => EmptiedInv'
  BY EmptiedStep
<1>. QED
  BY <1>1, <1>2, PTL DEF Spec

\* Database 1 is empty between any two cases if it was at first and each script
\* run to its end by itself leaves it empty, whatever calls failed, even with
\* commands executed late, and whenever the harness was killed, until a case that
\* works on it is broken off or disturbed: the set-up of the next case flushes
\* the rest (case.go:178, coll_keyops.go:107-109).
THEOREM LeavesNoResidue == ASSUME CleanScripts PROVE Spec => []NoResidue
<1>1. EmptiedInv => NoResidue
  BY DEF EmptiedInv, Emptied, OneIsEmpty, NoResidue
<1>. QED
  BY <1>1, Emptying, PTL

\* Every case that is not disturbed by a late command, and does not work on a
\* database 1 that was in use or was left as it was, runs as if it were the only
\* one, on servers that were never used, for any suite, any failed calls and
\* interruptions, and whatever the databases held at first: its commands find, do
\* and reply what they find, do and reply there (README.md:19, case.go:70-72, 178).
THEOREM CasesRunAsAlone == ASSUME CleanScripts PROVE Spec => []RunsAsAlone
<1>1. EmptiedInv => RunsAsAlone
  BY DEF EmptiedInv, Emptied, AtStage, RunsAsAlone
<1>. QED
  BY <1>1, Emptying, PTL
=============================================================================
