----------------------------- MODULE SurfaceCases -----------------------------
(***************************************************************************)
(* The tables of differential/redis74_surface.go and edge74.go.            *)
(***************************************************************************)
EXTENDS CaseTable

HashOf(fields) == DoWith("HSET", "h", fields)
OnField(verb, f) == DoWith(verb, "h", {f})
OnFieldOpt(verb, f, opt) == Command(verb, <<"h">>, opt, {f})

FieldExpiryCases ==
  << Case("hexpire-httl-hpersist",
       <<HashOf({"f1", "f2"}), OnField("HEXPIRE", "f1"), OnField("HEXPIRE", "nofield"),
         OnField("HTTL", "f2"), OnField("HTTL", "nofield"), OnField("HPERSIST", "f1"),
         OnField("HTTL", "f1"), OnField("HPERSIST", "f2")>>),
     Case("hexpireat-hexpiretime",
       <<HashOf({"f1"}), OnField("HEXPIREAT", "f1"), OnField("HEXPIRETIME", "f1"),
         OnField("HPEXPIRETIME", "f1"), OnField("HEXPIRETIME", "nofield")>>),
     Case("hexpire-nx-xx-gt-lt",
       <<HashOf({"f1"}), OnField("HEXPIREAT", "f1"), OnField("HEXPIREAT", "f1"),
         OnField("HEXPIREAT", "f1"), OnField("HEXPIREAT", "f1"), OnField("HEXPIREAT", "f1"),
         OnField("HEXPIREAT", "f1"), OnField("HEXPIRETIME", "f1")>>) >>

OverEbuckets ==
  SkipsValkey(Case("hexpireat-over-ebuckets-max",
    <<HashOf({"f1"}), OnFieldOpt("HEXPIREAT", "f1", "pinned"), OnField("HTTL", "f1")>>))

FieldDeletionCase ==
  Case("hexpire-past-deletes-field",
    <<HashOf({"f1", "f2"}), OnFieldOpt("HEXPIRE", "f1", "past"), Do("HEXISTS", "h"),
      Do("HGET", "h"), OnFieldOpt("HEXPIREAT", "f2", "past"), Do("EXISTS", "h")>>)

SurfaceCommandCases ==
  << Resp3(Case("lcs",
       <<DoOn("MSET", <<"key1", "key2">>), DoOn("LCS", <<"key1", "key2">>),
         DoOnOpt("LCS", <<"key1", "key2">>, "int"), DoOnOpt("LCS", <<"key1", "key2">>, "array"),
         DoOnOpt("LCS", <<"key1", "key2">>, "array"),
         DoOnOpt("LCS", <<"key1", "key2">>, "array")>>)),
     Case("sintercard",
       <<DoWith("SADD", "s1", {"a", "b", "c", "d"}), DoWith("SADD", "s2", {"b", "c", "d", "e"}),
         DoOn("SINTERCARD", <<"s1", "s2">>), DoOn("SINTERCARD", <<"s1", "s2">>),
         DoOn("SINTERCARD", <<"s1", "s2">>)>>),
     Loose("zrandmember-count", "unordered", {1, 3},
       <<DoWith("ZADD", "z", {"a", "b", "c"}), DoOpt("ZRANDMEMBER", "z", "all"),
         DoOpt("ZRANDMEMBER", "z", "empty"), DoOpt("ZRANDMEMBER", "z", "all"),
         DoOpt("ZRANDMEMBER", "missing", "all")>>),
     Loose("smove", "unordered", {6, 7},
       <<DoWith("SADD", "src", {"a", "b", "c"}), DoWith("SADD", "dst", {"x"}),
         Command("SMOVE", <<"src", "dst">>, "", {"b"}),
         Command("SMOVE", <<"src", "dst">>, "", {"nope"}), Do("SISMEMBER", "dst"),
         Do("SISMEMBER", "src"), Do("SMEMBERS", "src"), Do("SMEMBERS", "dst")>>),
     Case("zadd-gt-lt-ch",
       <<DoWith("ZADD", "z", {"m"}), DoWith("ZADD", "z", {"m"}), Do("ZSCORE", "z"),
         DoWith("ZADD", "z", {"m"}), Do("ZSCORE", "z"), DoWith("ZADD", "z", {"m"}),
         Do("ZSCORE", "z"), DoWith("ZADD", "z", {"m"}), Do("ZSCORE", "z")>>),
     Case("sort-ro",
       <<Do("RPUSH", "l"), Do("SORT_RO", "l"), Do("SORT_RO", "l"), Do("SORT_RO", "l")>>),
     Case("bitfield-ro", <<Do("SET", "bf"), Do("BITFIELD_RO", "bf"), Do("BITFIELD_RO", "bf")>>) >>

\* They compare the names exactly.
SetEncodingCases ==
  << Case("object-encoding-set-listpack",
       <<DoWith("SADD", "s", {"a", "b", "c"}), Do("OBJECT ENCODING", "s")>>),
     Case("object-encoding-set-intset-to-hashtable",
       <<DoWith("SADD", "s", {"1", "2", "3"}), Do("OBJECT ENCODING", "s"),
         DoWith("SADD", "s", {"notanumber"}), Do("OBJECT ENCODING", "s")>>) >>

ServerCases ==
  << Case("role-standalone-master", <<Say("ROLE")>>),
     SkipsValkey(Case("module-list-empty", <<SayOpt("MODULE LIST", "pinned")>>)),
     Loose("restore-asking-bad-payload", "errPrefix", {0},
       <<DoOpt("RESTORE-ASKING", "dst", "refused")>>) >>

CasesOfSurfaceTable ==
  FieldExpiryCases \o <<OverEbuckets, FieldDeletionCase>>
    \o SurfaceCommandCases \o SetEncodingCases \o ServerCases

-----------------------------------------------------------------------------
EdgeStringCases ==
  << Loose("strlen-basic", "errPrefix", {4},
       <<DoOpt("STRLEN", "missing", "int"), Do("SET", "s"), Do("STRLEN", "s"),
         Do("RPUSH", "l"), Do("STRLEN", "l")>>),
     Case("setrange-extend",
       <<Do("SETRANGE", "k"), Do("GET", "k"), Do("SET", "k2"), Do("SETRANGE", "k2"),
         Do("GET", "k2")>>),
     Case("getrange-negative",
       <<Do("SET", "k"), Do("GETRANGE", "k"), Do("GETRANGE", "k"), Do("GETRANGE", "k"),
         Do("GETRANGE", "k"), DoOpt("GETRANGE", "missing", "bulk")>>),
     Loose("set-exat-pxat", "intApprox", {2, 4},
       <<DoOpt("SET", "k", "EXAT"), Do("GET", "k"), Do("TTL", "k"), DoOpt("SET", "k2", "EXAT"),
         Do("PTTL", "k2")>>),
     Loose("setex-invalid-seconds", "errPrefix", {0, 1, 2},
       <<DoOpt("SETEX", "k", "refused"), DoOpt("SETEX", "k", "refused"),
         DoOpt("PSETEX", "k", "refused")>>),
     Loose("expire-options-conflict", "errPrefix", {1, 2},
       <<Do("SET", "k"), DoOpt("EXPIRE", "k", "refused"), DoOpt("EXPIRE", "k", "refused")>>),
     Loose("incr-overflow", "errPrefix", {1, 3, 5},
       <<Do("SET", "k"), DoOpt("INCR", "k", "refused"), Do("SET", "k2"),
         DoOpt("DECR", "k2", "refused"), Do("SET", "k3"), DoOpt("INCRBY", "k3", "refused")>>) >>

EdgeNumberCases ==
  << SkipsValkey(Case("incrbyfloat-format",
       <<Do("SET", "k"), DoOpt("INCRBYFLOAT", "k", "pinned"), Do("SET", "k2"),
         DoOpt("INCRBYFLOAT", "k2", "pinned"), Do("SET", "k3"), Do("INCRBYFLOAT", "k3")>>)),
     Loose("incrbyfloat-nan-inf", "errPrefix", {1, 2, 4},
       <<Do("SET", "k"), DoOpt("INCRBYFLOAT", "k", "refused"),
         DoOpt("INCRBYFLOAT", "k", "refused"), HashOf({"f"}),
         DoOpt("HINCRBYFLOAT", "h", "refused")>>),
     Loose("zadd-zincrby-nan", "errPrefix", {0, 2},
       <<DoOpt("ZADD", "z", "refused"), DoWith("ZADD", "z", {"m"}),
         DoOpt("ZINCRBY", "z", "refused")>>),
     Case("zrangebyscore-inf-exclusive",
       <<DoWith("ZADD", "z", {"a", "b", "c", "d"}), Do("ZRANGEBYSCORE", "z"),
         Do("ZRANGEBYSCORE", "z"), Do("ZRANGEBYSCORE", "z"), Do("ZRANGEBYSCORE", "z")>>),
     Case("bitcount-bit-unit",
       <<Do("SET", "k"), Do("BITCOUNT", "k"), Do("BITCOUNT", "k"), Do("BITCOUNT", "k"),
         Do("BITCOUNT", "k"), Do("BITCOUNT", "k")>>),
     Case("bitpos-bit-unit",
       <<Do("SET", "k"), Do("BITPOS", "k"), Do("BITPOS", "k"), Do("BITPOS", "k"),
         Do("BITPOS", "k")>>) >>

EdgeCollectionCases ==
  << Case("lpos-rank-count",
       <<Do("RPUSH", "l"), Do("LPOS", "l"), Do("LPOS", "l"), DoOpt("LPOS", "l", "array"),
         DoOpt("LPOS", "l", "array"), DoOpt("LPOS", "l", "nil"),
         DoOpt("LPOS", "missing", "empty")>>),
     Loose("linsert-lset-edges", "errPrefix", {3, 4},
       <<Do("RPUSH", "l"), Do("LINSERT", "l"), Do("LINSERT", "missing"),
         DoOpt("LSET", "l", "refused"), DoOpt("LSET", "missing", "refused")>>),
     Loose("sort-alpha-limit", "errPrefix", {4},
       <<Do("RPUSH", "l"), Do("SORT", "l"), Do("SORT", "l"), Do("SORT", "l"),
         DoOpt("SORT", "l", "refused")>>),
     Loose("getdel-getex-wrongtype", "errPrefix", {1, 2},
       <<Do("RPUSH", "l"), Do("GETDEL", "l"), Do("GETEX", "l")>>),
     Case("smismember-order",
       <<DoWith("SADD", "s", {"a", "b", "c"}), Do("SMISMEMBER", "s"),
         Do("SMISMEMBER", "missing")>>),
     Case("append-grows",
       <<Do("APPEND", "k"), Do("APPEND", "k"), Do("GET", "k"), Do("STRLEN", "k")>>) >>

CasesOfEdgeTable == EdgeStringCases \o EdgeNumberCases \o EdgeCollectionCases
=============================================================================
