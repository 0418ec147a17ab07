------------------------------ MODULE KeyopCases ------------------------------
(***************************************************************************)
(* The cases of differential/coll_keyops.go that carry a large collection  *)
(* through a generic key operation, and the cases of cases.go and          *)
(* scan74.go that list the keyspace, as scripts of Keyspace commands.      *)
(* Consecutive reads of one key are one Read; EXPIRE, PERSIST and TTL are  *)
(* left out, so coll-hash-survives-expire-persist is not here.             *)
(***************************************************************************)
EXTENDS Keyspace

KeyNames == {"h", "h2", "s", "s2", "z", "z2", "l", "l2"}
Held == {"hash", "set", "zset", "list", "occupied"}

ASSUME KeyopAssumption == KeyNames \subseteq Names /\ Held \subseteq Values

HashRename ==
  <<Add("h", "hash"), Rename("h", "h2"), Read("h"), Read("h2")>>

HashRenameNX ==
  <<Add("h", "hash"), RenameNX("h", "h2"), Read("h2")>>

HashCopy ==
  <<Add("h", "hash"), Copy("h", "h2"), Read("h2"), Read("h")>>

HashCopyReplace ==
  <<Add("h", "hash"), Add("h2", "occupied"), Copy("h", "h2"), Read("h2"),
    CopyReplace("h", "h2"), Read("h2")>>

\* Mutant: database 1 is not flushed before the case returns to database 0.
HashMoveWithoutFlush ==
  <<Add("h", "hash"), Move("h", 1), Read("h"), Select(1), Read("h"), Select(0)>>

HashMove ==
  <<Add("h", "hash"), Move("h", 1), Read("h"), Select(1), Read("h"), FlushDb,
    Select(0)>>

SetRename  == <<Add("s", "set"), Rename("s", "s2"), Read("s2")>>
ZSetRename == <<Add("z", "zset"), Rename("z", "z2"), Read("z2")>>
ListRename == <<Add("l", "list"), Rename("l", "l2"), Read("l2")>>
ZSetCopy   == <<Add("z", "zset"), Copy("z", "z2"), Read("z2")>>

\* The cases of cases.go that do the same to strings.
StringRename ==
  <<Add("s", "occupied"), Rename("s", "s2"), Read("s"), Read("s2"),
    Rename("h", "s2")>>
StringRenameNX ==
  <<Add("h", "occupied"), Add("s", "occupied"), RenameNX("h", "l"),
    RenameNX("s", "l"), Read("h"), Read("s"), Read("l")>>
StringCopy ==
  <<Add("s", "occupied"), Copy("s", "s2"), Read("s2"), Copy("s", "s2"),
    CopyReplace("s", "s2")>>

\* KEYS, DBSIZE or SCAN of all of a keyspace the case has filled.
KeysPattern == <<Add("h", "occupied"), Add("s", "occupied"), Keys>>
ScanKeyspace ==
  <<Add("h", "occupied"), Add("s", "occupied"), Add("z", "occupied"),
    Add("l", "occupied"), Keys>>

CollKeyopCases ==
  <<HashRename, HashRenameNX, HashCopy, HashCopyReplace, HashMove,
    SetRename, ZSetRename, ListRename, ZSetCopy>>

\* In the order Cases() gives them: its own, coll_keyops.go's, scan74.go's.
AllKeyCases ==
  <<StringRename, StringRenameNX, StringCopy, KeysPattern>>
    \o CollKeyopCases \o <<ScanKeyspace>>
=============================================================================
