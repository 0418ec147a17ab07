--------------------------- MODULE CollectionCases ---------------------------
(***************************************************************************)
(* The tables of differential/setzset_ops.go, scan74.go and coll_keyops.go.*)
(***************************************************************************)
EXTENDS CaseTable

OneToFour == {"1", "2", "3", "4"}
Five == DoWith("ZADD", "z", {"a", "b", "c", "d", "e"})

SetAlgebraCases ==
  << Loose("sinter-sunion-sdiff", "unordered", 2..7,
       <<DoWith("SADD", "a", OneToFour), DoWith("SADD", "b", {"3", "4", "5", "6"}),
         DoOn("SINTER", <<"a", "b">>), DoOn("SUNION", <<"a", "b">>),
         DoOn("SDIFF", <<"a", "b">>), DoOn("SDIFF", <<"b", "a">>),
         DoOn("SINTER", <<"a", "missing">>), DoOn("SUNION", <<"a", "missing">>)>>),
     Loose("sinterstore-then-read", "unordered", {3},
       <<DoWith("SADD", "a", {"x", "y", "z"}), DoWith("SADD", "b", {"y", "z", "w"}),
         DoOn("SINTERSTORE", <<"dest", "a", "b">>), Do("SMEMBERS", "dest"),
         Do("SCARD", "dest"), Do("TYPE", "dest")>>),
     Case("sinterstore-empty-deletes-dest",
       <<Do("SET", "dest"), DoWith("SADD", "a", {"1", "2"}), DoWith("SADD", "b", {"3", "4"}),
         DoOn("SINTERSTORE", <<"dest", "a", "b">>), Do("EXISTS", "dest")>>),
     Case("sintercard-limit",
       <<DoWith("SADD", "a", OneToFour \cup {"5"}), DoWith("SADD", "b", OneToFour \cup {"5", "6"}),
         DoOn("SINTERCARD", <<"a", "b">>), DoOn("SINTERCARD", <<"a", "b">>),
         DoOn("SINTERCARD", <<"a", "b">>)>>) >>

ZSetAlgebraCases ==
  << Case("zunion-zinter-zdiff",
       <<DoWith("ZADD", "z1", {"a", "b", "c"}), DoWith("ZADD", "z2", {"b", "c", "d"}),
         DoOn("ZUNION", <<"z1", "z2">>), DoOn("ZUNION", <<"z1", "z2">>),
         DoOn("ZINTER", <<"z1", "z2">>), DoOn("ZDIFF", <<"z1", "z2">>)>>),
     Case("zunion-aggregate-weights",
       <<DoWith("ZADD", "z1", {"x", "y"}), DoWith("ZADD", "z2", {"x", "y"}),
         DoOn("ZUNION", <<"z1", "z2">>), DoOn("ZUNION", <<"z1", "z2">>),
         DoOn("ZUNION", <<"z1", "z2">>), DoOn("ZINTERCARD", <<"z1", "z2">>),
         DoOn("ZINTERCARD", <<"z1", "z2">>)>>) >>

ZRangeCases ==
  << Case("zcount-score-range",
       <<Five, Do("ZCOUNT", "z"), Do("ZCOUNT", "z"), Do("ZCOUNT", "z"), Do("ZCOUNT", "z"),
         Do("ZCOUNT", "z")>>),
     Case("zlexcount-lex-range",
       <<Five, Do("ZLEXCOUNT", "z"), Do("ZLEXCOUNT", "z"), Do("ZLEXCOUNT", "z"),
         Do("ZLEXCOUNT", "z")>>),
     Case("zrevrange-zrevrank",
       <<DoWith("ZADD", "z", {"a", "b", "c"}), Do("ZREVRANGE", "z"), Do("ZREVRANGE", "z"),
         Do("ZREVRANGE", "z"), Do("ZREVRANK", "z"), Do("ZREVRANK", "z"),
         DoOpt("ZREVRANK", "z", "nil")>>),
     Case("zremrangebyrank",
       <<Five, DoWith("ZREMRANGEBYRANK", "z", {"a", "b"}), Do("ZRANGE", "z"),
         DoWith("ZREMRANGEBYRANK", "z", {"e"}), Do("ZRANGE", "z")>>),
     Case("zremrangebyscore",
       <<Five, DoWith("ZREMRANGEBYSCORE", "z", {"b", "c", "d"}), Do("ZRANGE", "z"),
         DoWith("ZREMRANGEBYSCORE", "z", {"e"}), Do("ZRANGE", "z")>>),
     Case("zremrangebylex",
       <<Five, DoWith("ZREMRANGEBYLEX", "z", {"b", "c", "d"}), Do("ZRANGE", "z"),
         DoWith("ZREMRANGEBYLEX", "z", {"a", "e"}), Do("EXISTS", "z")>>) >>

CasesOfSetZsetTable == SetAlgebraCases \o ZSetAlgebraCases \o ZRangeCases

-----------------------------------------------------------------------------
\* Every COUNT is larger than the collection, so the cursor is "0".
ScanOf(verb, k) == Do(verb, k)
ScanMatching(verb, k, es) == Command(verb, <<k>>, "match", es)
KeysMatching(es) == Command("SCAN", <<>>, "match", es)

ScanCases ==
  << Loose("scan-keyspace", "scan", 1..4,
       <<DoOn("MSET", <<"k:1", "k:2", "k:3", "other">>), Say("SCAN"),
         KeysMatching({"k:1", "k:2", "k:3"}), KeysMatching({}), Say("SCAN")>>),
     Loose("sscan-members", "scan", 1..3,
       <<DoWith("SADD", "s", {"alpha", "beta", "gamma", "delta"}), ScanOf("SSCAN", "s"),
         ScanOf("SSCAN", "s"), ScanOf("SSCAN", "missing")>>),
     Loose("hscan-fields-and-novalues", "scan", 1..5,
       <<DoWith("HSET", "h", {"f1", "f2", "f3"}), ScanOf("HSCAN", "h"),
         ScanOf("HSCAN NOVALUES", "h"), ScanMatching("HSCAN", "h", {"f1"}),
         ScanOf("HSCAN NOVALUES", "h"), ScanOf("HSCAN", "missing")>>),
     Loose("zscan-members", "scan", 1..3,
       <<DoWith("ZADD", "z", {"one", "two", "three"}), ScanOf("ZSCAN", "z"),
         ScanMatching("ZSCAN", "z", {"two", "three"}), ScanOf("ZSCAN", "missing")>>) >>

PushAndTouchCases ==
  << Loose("rpoplpush-move-and-rotate", "errPrefix", {9},
       <<Do("RPUSH", "src"), DoOn("RPOPLPUSH", <<"src", "dst">>), Do("LRANGE", "src"),
         Do("LRANGE", "dst"), DoOn("RPOPLPUSH", <<"self", "self">>), Do("RPUSH", "rot"),
         DoOn("RPOPLPUSH", <<"rot", "rot">>), Do("LRANGE", "rot"), Do("SET", "str"),
         DoOn("RPOPLPUSH", <<"str", "dst">>)>>),
     Loose("lpushx-rpushx", "errPrefix", {10},
       <<Do("LPUSHX", "missing"), Do("RPUSHX", "missing"), Do("EXISTS", "missing"),
         Do("RPUSH", "l"), Do("LPUSHX", "l"), Do("RPUSHX", "l"), Do("LRANGE", "l"),
         Do("LPUSHX", "l"), Do("LRANGE", "l"), Do("SET", "str"), Do("LPUSHX", "str")>>),
     Case("touch-counts-existing",
       <<DoOn("MSET", <<"t1", "t2">>), Do("TOUCH", "t1"), DoOn("TOUCH", <<"t1", "t2">>),
         DoOn("TOUCH", <<"t1", "missing", "t2">>), DoOn("TOUCH", <<"missing1", "missing2">>),
         DoOn("TOUCH", <<"t1", "t1">>)>>) >>

RandomCases ==
  << Loose("hrandfield-withvalues", "unordered", 1..4,
       <<DoWith("HSET", "h", {"f1", "f2", "f3"}), DoOpt("HRANDFIELD", "h", "all"),
         Do("HRANDFIELD WITHVALUES", "h"), DoOpt("HRANDFIELD", "h", "all"),
         Do("HRANDFIELD WITHVALUES", "h"), DoOpt("HRANDFIELD", "missing", "all"),
         Do("HRANDFIELD", "missing")>>),
     Loose("srandmember-counts", "unordered", {1, 2},
       <<DoWith("SADD", "s", {"a", "b", "c"}), DoOpt("SRANDMEMBER", "s", "all"),
         DoOpt("SRANDMEMBER", "s", "all"), DoOpt("SRANDMEMBER", "s", "empty"),
         DoOpt("SRANDMEMBER", "missing", "all"), Do("SRANDMEMBER", "missing")>>) >>

CasesOfScanTable == ScanCases \o PushAndTouchCases \o RandomCases

-----------------------------------------------------------------------------
\* A collection past the inline threshold of every server.
Big(verb, k) == Command(verb, <<k>>, "heavy", {"m00100", "m00200"})

\* Mutant: the index its comment gives.
HashExpirePersistAsCommented ==
  Loose("coll-hash-survives-expire-persist", "intApprox", {3},
    <<Big("HSET", "h"), Do("EXPIRE", "h"), Do("HLEN", "h"), Do("HGET", "h"), Do("TTL", "h"),
      Do("PERSIST", "h"), Do("HLEN", "h"), Do("HGET", "h"), Do("TTL", "h")>>)

HashExpirePersist ==
  Loose("coll-hash-survives-expire-persist", "intApprox", {4},
    <<Big("HSET", "h"), Do("EXPIRE", "h"), Do("HLEN", "h"), Do("HGET", "h"), Do("TTL", "h"),
      Do("PERSIST", "h"), Do("HLEN", "h"), Do("HGET", "h"), Do("TTL", "h")>>)

\* Mutant: the copy is not read back.
HashCopyUnread ==
  Case("coll-hash-survives-copy",
    <<Big("HSET", "h"), DoOn("COPY", <<"h", "h2">>), Do("HLEN", "h"), Do("HGET", "h")>>)

HashCopied ==
  Case("coll-hash-survives-copy",
    <<Big("HSET", "h"), DoOn("COPY", <<"h", "h2">>), Do("HLEN", "h2"), Do("HGET", "h2"),
      Do("HLEN", "h"), Do("HGET", "h")>>)

\* Mutant: database 1 is left as it is.
HashMovedUnflushed ==
  Case("coll-hash-survives-move",
    <<Big("HSET", "h"), DoOpt("MOVE", "h", "1"), Do("EXISTS", "h"), SayOpt("SELECT", "1"),
      Do("HLEN", "h"), Do("HGET", "h"), SayOpt("SELECT", "0")>>)

HashMoved ==
  Case("coll-hash-survives-move",
    <<Big("HSET", "h"), DoOpt("MOVE", "h", "1"), Do("EXISTS", "h"), SayOpt("SELECT", "1"),
      Do("HLEN", "h"), Do("HGET", "h"), Say("FLUSHDB"), SayOpt("SELECT", "0")>>)

HashCarried ==
  << Case("coll-hash-survives-rename",
       <<Big("HSET", "h"), DoOn("RENAME", <<"h", "h2">>), Do("EXISTS", "h"), Do("HLEN", "h2"),
         Do("HGET", "h2"), Do("HGET", "h2")>>),
     Case("coll-hash-survives-renamenx",
       <<Big("HSET", "h"), DoOn("RENAMENX", <<"h", "h2">>), Do("HLEN", "h2"),
         Do("HGET", "h2")>>),
     HashCopied,
     Case("coll-hash-survives-copy-replace",
       <<Big("HSET", "h"), Do("SET", "h2"), DoOn("COPY", <<"h", "h2">>), Do("GET", "h2"),
         DoOnOpt("COPY", <<"h", "h2">>, "REPLACE"), Do("HLEN", "h2"), Do("HGET", "h2")>>),
     HashMoved >>

OthersCarried ==
  << Case("coll-set-survives-rename",
       <<Big("SADD", "s"), DoOn("RENAME", <<"s", "s2">>), Do("SCARD", "s2"),
         Do("SISMEMBER", "s2"), Do("SISMEMBER", "s2")>>),
     Case("coll-zset-survives-rename",
       <<Big("ZADD", "z"), DoOn("RENAME", <<"z", "z2">>), Do("ZCARD", "z2"),
         Do("ZSCORE", "z2"), Do("ZRANK", "z2")>>),
     Case("coll-list-survives-rename",
       <<Big("RPUSH", "l"), DoOn("RENAME", <<"l", "l2">>), Do("LLEN", "l2"),
         Do("LINDEX", "l2"), Do("LINDEX", "l2")>>),
     Case("coll-zset-survives-copy",
       <<Big("ZADD", "z"), DoOn("COPY", <<"z", "z2">>), Do("ZCARD", "z2"),
         Do("ZSCORE", "z2")>>) >>

CasesOfKeyopTable == <<HashExpirePersist>> \o HashCarried \o OthersCarried
=============================================================================
