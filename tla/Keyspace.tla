------------------------------- MODULE Keyspace -------------------------------
(***************************************************************************)
(* A correct server as the generic key cases of differential/ use it: an   *)
(* external system, of which only what a case can observe is kept.  A      *)
(* collection is one value of its type, since the cases ask whether a key  *)
(* operation carries it intact, not what is in it.                         *)
(***************************************************************************)
EXTENDS FiniteSets, Integers, Sequences

CONSTANTS
  Names,   \* the key names
  Values,  \* what a key may hold: a collection of some type, or a string
  Absent   \* what a name that is no key holds

ASSUME AbsentAssumption == Absent \notin Values

DbIds == {0, 1}

Database == [Names -> Values \cup {Absent}]

EmptyDb == [n \in Names |-> Absent]

\* The commands.  add stands for HSET, SADD, ZADD, RPUSH and SET of a key the
\* case has not written yet; read for any command that only reads one key.
Add(n, v)     == [op |-> "add", key |-> n, val |-> v]
Read(n)       == [op |-> "read", key |-> n]
Rename(n, m)  == [op |-> "rename", key |-> n, dst |-> m]
RenameNX(n, m) == [op |-> "renamenx", key |-> n, dst |-> m]
Copy(n, m)    == [op |-> "copy", key |-> n, dst |-> m]
CopyReplace(n, m) == [op |-> "replace", key |-> n, dst |-> m]
Move(n, db)   == [op |-> "move", key |-> n, db |-> db]
Select(db)    == [op |-> "select", db |-> db]
FlushDb       == [op |-> "flushdb"]
Keys          == [op |-> "keys"]

\* The commands that stay in the selected database, and all of them.
LocalCommands ==
  [op : {"add"}, key : Names, val : Values]
    \cup [op : {"read"}, key : Names]
    \cup [op : {"rename", "renamenx", "copy", "replace"}, key : Names, dst : Names]
    \cup {FlushDb, Keys}

Commands ==
  LocalCommands \cup [op : {"move"}, key : Names, db : DbIds]
                \cup [op : {"select"}, db : DbIds]

\* A reply is the set of words in it, so the order of KEYS is not part of it.
OK == {"OK"}
One == {"1"}
Zero == {"0"}
NoSuchKey == {"ERR"}

(***************************************************************************)
(* What a command does to the databases of a server whose connection       *)
(* selected database s.                                                    *)
(***************************************************************************)
Result(dbs, s, reply) == [dbs |-> dbs, sel |-> s, reply |-> reply]

With(dbs, s, db, reply) == Result([dbs EXCEPT ![s] = db], s, reply)

Carried(db, c) == [db EXCEPT ![c.dst] = db[c.key], ![c.key] = Absent]

Copied(db, c) == [db EXCEPT ![c.dst] = db[c.key]]

Moved(c, dbs, s) ==
  [dbs EXCEPT ![c.db][c.key] = dbs[s][c.key], ![s][c.key] = Absent]

DoAdd(c, dbs, s) ==
  IF dbs[s][c.key] = Absent
  THEN With(dbs, s, [dbs[s] EXCEPT ![c.key] = c.val], One)
  ELSE Result(dbs, s, Zero)

DoRead(c, dbs, s) == Result(dbs, s, {dbs[s][c.key]} \ {Absent})

DoKeys(dbs, s) == Result(dbs, s, {n \in Names : dbs[s][n] # Absent})

DoRename(c, dbs, s) ==
  IF dbs[s][c.key] = Absent THEN Result(dbs, s, NoSuchKey)
  ELSE With(dbs, s, Carried(dbs[s], c), OK)

DoRenameNX(c, dbs, s) ==
  IF dbs[s][c.key] = Absent THEN Result(dbs, s, NoSuchKey)
  ELSE IF dbs[s][c.dst] # Absent THEN Result(dbs, s, Zero)
  ELSE With(dbs, s, Carried(dbs[s], c), One)

DoCopy(c, dbs, s) ==
  IF dbs[s][c.key] = Absent \/ (c.op = "copy" /\ dbs[s][c.dst] # Absent)
  THEN Result(dbs, s, Zero)
  ELSE With(dbs, s, Copied(dbs[s], c), One)

DoMove(c, dbs, s) ==
  IF dbs[s][c.key] = Absent \/ dbs[c.db][c.key] # Absent \/ c.db = s
  THEN Result(dbs, s, Zero)
  ELSE Result(Moved(c, dbs, s), s, One)

Execute(c, dbs, s) ==
  CASE c.op = "add" -> DoAdd(c, dbs, s)
    [] c.op = "read" -> DoRead(c, dbs, s)
    [] c.op = "keys" -> DoKeys(dbs, s)
    [] c.op = "rename" -> DoRename(c, dbs, s)
    [] c.op = "renamenx" -> DoRenameNX(c, dbs, s)
    [] c.op \in {"copy", "replace"} -> DoCopy(c, dbs, s)
    [] c.op = "move" -> DoMove(c, dbs, s)
    [] c.op = "select" -> Result(dbs, c.db, OK)
    [] c.op = "flushdb" -> With(dbs, s, EmptyDb, OK)
=============================================================================
