------------------------------ MODULE BaseCases ------------------------------
(***************************************************************************)
(* The table of differential/cases.go, in its order.                       *)
(***************************************************************************)
EXTENDS CaseTable

StringCases ==
  << Case("ping", <<Say("PING"), SayOpt("PING", "bulk")>>),
     Case("echo", <<Say("ECHO")>>),
     Case("set-get", <<Do("SET", "k"), Do("GET", "k"), Do("GET", "missing")>>),
     Case("append", <<Do("APPEND", "s"), Do("APPEND", "s"), Do("GET", "s")>>),
     Case("getrange-setrange",
       <<Do("SET", "k"), Do("GETRANGE", "k"), Do("GETRANGE", "k"),
         Do("SETRANGE", "k"), Do("GET", "k")>>),
     Case("incr",
       <<Do("SET", "n"), Do("INCR", "n"), Do("INCRBY", "n"), Do("DECR", "n"),
         Do("GET", "n")>>),
     Case("incrbyfloat",
       <<Do("SET", "f"), Do("INCRBYFLOAT", "f"), Do("INCRBYFLOAT", "f")>>),
     Case("incr-not-an-integer", <<Do("SET", "k"), DoOpt("INCR", "k", "refused")>>) >>

ExpirePersist ==
  Loose("expire-ttl-persist", "intApprox", {2},
    <<Do("SET", "k"), Do("EXPIRE", "k"), Do("TTL", "k"), Do("PERSIST", "k"),
      Do("TTL", "k"), Do("TTL", "missing")>>)

FirstKeyCases ==
  << ExpirePersist,
     Case("del-exists-type",
       <<Do("SET", "a"), Do("SET", "b"), DoOn("EXISTS", <<"a", "b", "missing">>),
         Do("TYPE", "a"), DoOn("DEL", <<"a", "b", "missing">>), Do("EXISTS", "a")>>),
     Case("list-push-range",
       <<Do("RPUSH", "l"), Do("LPUSH", "l"), Do("LRANGE", "l"), Do("LLEN", "l")>>) >>

\* Its HGETALL is compared in the order the server gives.
HashSetGet ==
  Case("hash-set-get",
    <<DoWith("HSET", "h", {"f1", "f2"}), Do("HGET", "h"), DoOpt("HGET", "h", "nil"),
      Do("HGETALL", "h")>>)

HashGetAllResp3 ==
  Resp3(Case("hash-getall-resp3",
    <<DoWith("HSET", "h", {"f1", "f2"}), Do("HGETALL", "h")>>))

SetAddMembers ==
  Loose("set-add-members", "unordered", {2},
    <<DoWith("SADD", "s", {"a", "b", "c"}), Do("SCARD", "s"), Do("SMEMBERS", "s"),
      Do("SISMEMBER", "s"), Do("SISMEMBER", "s")>>)

SMembersResp3 ==
  Resp3(Case("smembers-resp3",
    <<DoWith("SADD", "s", {"a", "b", "c"}), Do("SMEMBERS", "s")>>))

ScoreAndEncodingCases ==
  << Case("zset-add-range-score",
       <<DoWith("ZADD", "z", {"a", "b", "c"}), Do("ZRANGE", "z"), Do("ZRANGE", "z"),
         Do("ZSCORE", "z"), DoOpt("ZSCORE", "z", "nil")>>),
     Loose("object-encoding-int", "encoding", {1},
       <<Do("SET", "k"), Do("OBJECT ENCODING", "k")>>),
     Loose("object-encoding-list", "encoding", {1},
       <<Do("RPUSH", "l"), Do("OBJECT ENCODING", "l")>>),
     Case("wrongtype-list-on-string", <<Do("SET", "k"), Do("LPUSH", "k")>>),
     Case("wrongtype-get-on-list", <<Do("RPUSH", "k"), Do("GET", "k")>>) >>

TransactionCases ==
  << Case("multi-exec",
       <<Say("MULTI"), Do("SET", "k"), Do("INCR", "n"), Say("EXEC"), Do("GET", "k"),
         Do("GET", "n")>>),
     Case("multi-discard",
       <<Say("MULTI"), Do("SET", "k"), Say("DISCARD"), Do("EXISTS", "k")>>) >>

WrongArity == Case("wrong-arity", <<SayOpt("GET", "refused")>>)

UnknownCommand ==
  Loose("unknown-command", "errPrefix", {0}, <<Say("NOSUCHCOMMAND")>>)

SetOptionCases ==
  << Case("set-nx", <<DoOpt("SET", "k", "NX"), DoOpt("SET", "k", "NX"), Do("GET", "k")>>),
     Case("set-xx",
       <<DoOpt("SET", "k", "XX"), Do("SET", "k"), DoOpt("SET", "k", "XX"), Do("GET", "k")>>),
     Case("set-get-option", <<Do("SET", "k"), DoOpt("SET", "k", "GET"), Do("GET", "k")>>),
     Case("set-get-missing", <<DoOpt("SET", "k", "GET")>>),
     Loose("set-ex-px", "intApprox", {2, 3},
       <<DoOpt("SET", "k1", "EX"), DoOpt("SET", "k2", "EX"), Do("TTL", "k1"),
         Do("PTTL", "k2")>>),
     Loose("set-keepttl", "intApprox", {2},
       <<DoOpt("SET", "k", "EX"), DoOpt("SET", "k", "KEEPTTL"), Do("TTL", "k")>>),
     Loose("getex", "intApprox", {2},
       <<Do("SET", "k"), DoOpt("GETEX", "k", "EX"), Do("TTL", "k"),
         DoOpt("GETEX", "k", "PERSIST"), Do("TTL", "k")>>),
     Case("getdel",
       <<Do("SET", "k"), Do("GETDEL", "k"), Do("EXISTS", "k"), Do("GETDEL", "missing")>>),
     Case("mset-mget",
       <<DoOn("MSET", <<"k1", "k2", "k3">>), DoOn("MGET", <<"k1", "k2", "missing", "k3">>)>>),
     Case("msetnx",
       <<DoOn("MSETNX", <<"a", "b">>), DoOn("MSETNX", <<"b", "c">>),
         DoOn("MGET", <<"a", "b", "c">>)>>),
     Loose("setnx-setex", "intApprox", {4},
       <<Do("SETNX", "k"), Do("SETNX", "k"), Do("GET", "k"), Do("SETEX", "e"),
         Do("TTL", "e")>>),
     Case("getset", <<Do("SET", "k"), Do("GETSET", "k"), Do("GET", "k")>>) >>

ExpiryCases ==
  << Loose("pexpire-pttl", "intApprox", {2, 3},
       <<Do("SET", "k"), Do("PEXPIRE", "k"), Do("PTTL", "k"), Do("TTL", "k")>>),
     Case("expiretime-pexpiretime",
       <<Do("SET", "k"), Do("EXPIREAT", "k"), Do("EXPIRETIME", "k"),
         Do("PEXPIRETIME", "k")>>),
     Loose("expire-nx-xx-gt-lt", "intApprox", {5},
       <<Do("SET", "k"), Do("EXPIRE", "k"), Do("EXPIRE", "k"), Do("EXPIRE", "k"),
         Do("EXPIRE", "k"), Do("TTL", "k"), Do("EXPIRE", "missing")>>) >>

CarryStringCases ==
  << Case("rename",
       <<Do("SET", "src"), DoOn("RENAME", <<"src", "dst">>), Do("EXISTS", "src"),
         Do("GET", "dst"), DoOn("RENAME", <<"missing", "dst">>)>>),
     Case("renamenx",
       <<Do("SET", "a"), Do("SET", "b"), DoOn("RENAMENX", <<"a", "c">>),
         DoOn("RENAMENX", <<"b", "c">>), DoOn("MGET", <<"a", "b", "c">>)>>),
     Case("copy",
       <<Do("SET", "src"), DoOn("COPY", <<"src", "dst">>), Do("GET", "dst"),
         DoOn("COPY", <<"src", "dst">>), DoOnOpt("COPY", <<"src", "dst">>, "REPLACE")>>),
     Case("unlink-scan",
       <<Do("SET", "k1"), Do("SET", "k2"), DoOn("UNLINK", <<"k1", "k2", "missing">>),
         DoOn("EXISTS", <<"k1", "k2">>)>>) >>

EncodingCases ==
  << Loose("object-encoding-missing", "any", {0}, <<Do("OBJECT ENCODING", "missing")>>),
     Loose("object-encoding-embstr-raw", "encoding", {1},
       <<Do("SET", "short"), Do("OBJECT ENCODING", "short")>>),
     Loose("object-encoding-hash-listpack", "encoding", {1},
       <<DoWith("HSET", "h", {"f"}), Do("OBJECT ENCODING", "h")>>),
     Loose("object-encoding-intset", "encoding", {1},
       <<DoWith("SADD", "s", {"1", "2", "3"}), Do("OBJECT ENCODING", "s")>>),
     Loose("object-encoding-zset-listpack", "encoding", {1},
       <<DoWith("ZADD", "z", {"a"}), Do("OBJECT ENCODING", "z")>>) >>

ListCases ==
  << Case("lpop-rpop-count",
       <<Do("RPUSH", "l"), DoOpt("LPOP", "l", "array"), DoOpt("RPOP", "l", "array"),
         Do("LRANGE", "l")>>),
     Case("lpos",
       <<Do("RPUSH", "l"), Do("LPOS", "l"), Do("LPOS", "l"), DoOpt("LPOS", "l", "array")>>),
     Case("lmove",
       <<Do("RPUSH", "src"), DoOn("LMOVE", <<"src", "dst">>), DoOn("LMOVE", <<"src", "dst">>),
         Do("LRANGE", "src"), Do("LRANGE", "dst")>>),
     Case("lindex-lset-linsert",
       <<Do("RPUSH", "l"), Do("LINDEX", "l"), Do("LINDEX", "l"), Do("LSET", "l"),
         Do("LINSERT", "l"), Do("LRANGE", "l")>>),
     Case("lrem", <<Do("RPUSH", "l"), Do("LREM", "l"), Do("LRANGE", "l")>>),
     Case("ltrim", <<Do("RPUSH", "l"), Do("LTRIM", "l"), Do("LRANGE", "l")>>) >>

HashCases ==
  << Case("hmget-hmset",
       <<DoWith("HMSET", "h", {"f1", "f2"}), Do("HMGET", "h"), Do("HLEN", "h"),
         Do("HEXISTS", "h"), Do("HEXISTS", "h")>>),
     Loose("hkeys-hvals", "unordered", {1, 2},
       <<DoWith("HSET", "h", {"a", "b", "c"}), Do("HKEYS", "h"), Do("HVALS", "h")>>),
     Case("hincrby-hincrbyfloat",
       <<DoWith("HSET", "h", {"n"}), DoWith("HINCRBY", "h", {"n"}),
         DoWith("HINCRBYFLOAT", "h", {"f"}), DoWith("HINCRBYFLOAT", "h", {"f"}),
         Do("HMGET", "h")>>),
     Case("hdel",
       <<DoWith("HSET", "h", {"a", "b", "c"}), DoWith("HDEL", "h", {"a", "b", "missing"}),
         Do("HGETALL", "h")>>),
     Loose("hrandfield", "encoding", {1},
       <<DoWith("HSET", "h", {"a", "b"}), Do("HRANDFIELD", "h")>>),
     Case("hsetnx",
       <<DoWith("HSETNX", "h", {"f"}), DoWith("HSETNX", "h", {"f"}), Do("HGET", "h")>>) >>

SetCases ==
  << Case("sinter-sunion-sdiff",
       <<DoWith("SADD", "a", {"1", "2", "3"}), DoWith("SADD", "b", {"2", "3", "4"}),
         DoOn("SINTERCARD", <<"a", "b">>), DoOn("SINTERCARD", <<"a", "b">>)>>),
     Case("smismember", <<DoWith("SADD", "s", {"a", "b", "c"}), Do("SMISMEMBER", "s")>>),
     Loose("srandmember", "encoding", {1},
       <<DoWith("SADD", "s", {"a", "b", "c"}), Do("SRANDMEMBER", "s")>>),
     Case("spop",
       <<DoWith("SADD", "s", {"a"}), DoWith("SPOP", "s", {"a"}), Do("SCARD", "s")>>),
     Case("sunionstore-sdiffstore",
       <<DoWith("SADD", "a", {"1", "2"}), DoWith("SADD", "b", {"2", "3"}),
         DoOn("SUNIONSTORE", <<"dst", "a", "b">>), DoOn("SDIFFSTORE", <<"diff", "a", "b">>),
         Do("SCARD", "dst"), Do("SCARD", "diff")>>) >>

ZAbc == DoWith("ZADD", "z", {"a", "b", "c"})

ZSetCases ==
  << Case("zadd-options",
       <<DoWith("ZADD", "z", {"a"}), DoWith("ZADD", "z", {"a"}), DoWith("ZADD", "z", {"a"}),
         Do("ZSCORE", "z"), DoWith("ZADD", "z", {"a"}), DoWith("ZADD", "z", {"a"}),
         Do("ZSCORE", "z"), DoWith("ZADD", "z", {"a", "b"})>>),
     Case("zincrby-zrank-zcard",
       <<ZAbc, DoWith("ZINCRBY", "z", {"a"}), Do("ZRANK", "z"), Do("ZCARD", "z"),
         DoOpt("ZRANK", "z", "array")>>),
     Case("zrangebyscore",
       <<DoWith("ZADD", "z", {"a", "b", "c", "d"}), Do("ZRANGEBYSCORE", "z"),
         Do("ZRANGEBYSCORE", "z"), Do("ZREVRANGEBYSCORE", "z"), Do("ZRANGEBYSCORE", "z")>>),
     Case("zrange-byscore-bylex",
       <<DoWith("ZADD", "z", {"a", "b", "c", "d"}), Do("ZRANGE", "z"),
         DoOpt("ZRANGE", "z", "empty")>>),
     Case("zrem-zpopmin-zpopmax",
       <<ZAbc, DoWith("ZREM", "z", {"b", "missing"}), DoWith("ZPOPMIN", "z", {"a"}),
         DoWith("ZPOPMAX", "z", {"c"}), Do("ZCARD", "z")>>),
     Case("zrangebylex",
       <<DoWith("ZADD", "z", {"a", "b", "c", "d", "e"}), Do("ZRANGEBYLEX", "z"),
         Do("ZRANGEBYLEX", "z"), Do("ZRANGEBYLEX", "z"), Do("ZREVRANGEBYLEX", "z")>>),
     Case("zdiff-zunion-zinter",
       <<DoWith("ZADD", "a", {"x", "y"}), DoWith("ZADD", "b", {"y", "z"}),
         DoOn("ZUNIONSTORE", <<"dst", "a", "b">>), DoOn("ZINTERSTORE", <<"dsti", "a", "b">>),
         Do("ZRANGE", "dst"), Do("ZRANGE", "dsti")>>),
     Case("zrangestore",
       <<DoWith("ZADD", "src", {"a", "b", "c"}), DoOn("ZRANGESTORE", <<"dst", "src">>),
         Do("ZRANGE", "dst")>>),
     Case("zmscore", <<DoWith("ZADD", "z", {"a", "b"}), Do("ZMSCORE", "z")>>),
     Case("zdiffstore",
       <<DoWith("ZADD", "a", {"x", "y"}), DoWith("ZADD", "b", {"y"}),
         DoOn("ZDIFFSTORE", <<"dst", "a", "b">>), Do("ZRANGE", "dst")>>) >>

KeyspaceCases ==
  << Loose("keys-pattern", "unordered", {1},
       <<DoOn("MSET", <<"ka", "kb", "xc">>), Command("KEYS", <<>>, "match", {"ka", "kb"})>>),
     Case("scan-basic", <<Do("SET", "k1"), Do("SET", "k2"), Say("DBSIZE")>>),
     Case("sort-basic", <<Do("RPUSH", "l"), Do("SORT", "l"), Do("SORT", "l"), Do("SORT", "l")>>),
     Loose("object-refcount-idletime", "intApprox", {1, 2},
       <<Do("SET", "k"), Do("OBJECT REFCOUNT", "k"), Do("OBJECT IDLETIME", "k")>>),
     Loose("command-count", "any", {0}, <<Say("COMMAND COUNT")>>),
     Case("dump-restore", <<Do("SET", "src"), Do("DUMP", "missing")>>),
     Case("type-all",
       <<Do("SET", "s"), Do("RPUSH", "l"), DoWith("HSET", "h", {"f"}),
         DoWith("SADD", "st", {"a"}), DoWith("ZADD", "z", {"a"}), Do("TYPE", "s"),
         Do("TYPE", "l"), Do("TYPE", "h"), Do("TYPE", "st"), Do("TYPE", "z"),
         Do("TYPE", "missing")>>),
     Case("substr", <<Do("SET", "k"), Do("SUBSTR", "k")>>),
     Loose("wait", "intApprox", {0}, <<Say("WAIT")>>),
     Loose("object-help", "any", {0}, <<Say("OBJECT HELP")>>),
     Loose("object-encoding-stream", "any", {0},
       <<DoOpt("XADD", "s", "version"), Do("TYPE", "s")>>) >>

BitAndConnectionCases ==
  << Case("bitcount-bitpos",
       <<Do("SET", "k"), Do("BITCOUNT", "k"), Do("BITCOUNT", "k"), Do("BITPOS", "k"),
         Do("BITPOS", "k")>>),
     Case("setbit-getbit",
       <<Do("SETBIT", "k"), Do("GETBIT", "k"), Do("GETBIT", "k"), Do("BITCOUNT", "k")>>),
     Case("lmpop",
       <<Do("RPUSH", "l1"), Do("RPUSH", "l2"), DoOn("LMPOP", <<"l1", "l2">>),
         DoOn("LMPOP", <<"l1", "l2">>)>>),
     Case("zmpop", <<DoWith("ZADD", "z1", {"a", "b", "c"}), Do("ZMPOP", "z1"), Do("ZMPOP", "z1")>>),
     Loose("lolwut", "encoding", {0}, <<Say("LOLWUT")>>),
     Loose("hello", "any", {0}, <<Say("HELLO")>>),
     Case("reset", <<Say("MULTI"), Say("RESET"), Do("SET", "k"), Do("GET", "k")>>) >>

HyperLogLogCases ==
  << Case("pfadd-pfcount",
       <<Do("PFADD", "hll"), Do("PFCOUNT", "hll"), Do("PFADD", "hll"), Do("PFCOUNT", "hll"),
         Do("TYPE", "hll")>>),
     Case("pfmerge",
       <<Do("PFADD", "h1"), Do("PFADD", "h2"), DoOn("PFMERGE", <<"dest", "h1", "h2">>),
         Do("PFCOUNT", "dest"), DoOn("PFCOUNT", <<"h1", "h2">>)>>) >>

BitmapCases ==
  << Case("bitop",
       <<Do("SET", "a"), Do("SET", "b"), DoOn("BITOP", <<"d_and", "a", "b">>),
         Do("GET", "d_and"), DoOn("BITOP", <<"d_or", "a", "b">>), Do("GET", "d_or"),
         DoOn("BITOP", <<"d_xor", "a", "b">>), Do("GET", "d_xor"),
         DoOn("BITOP", <<"d_not", "a">>), Do("STRLEN", "d_not")>>),
     Case("bitfield", <<Do("BITFIELD", "bf"), Do("BITFIELD", "bf2"), Do("BITFIELD_RO", "bf")>>) >>

ScriptCases ==
  << Case("eval-basic",
       <<SayOpt("EVAL", "int"), SayOpt("EVAL", "bulk"), SayOpt("EVAL", "array"),
         SayOpt("EVAL", "int"), SayOpt("EVAL", "bulk"), SayOpt("EVAL", "status"),
         SayOpt("EVAL", "bulk")>>),
     Case("eval-redis-call",
       <<DoOpt("EVAL", "sk", "status"), Do("GET", "sk"), DoOpt("EVAL", "ctr", "int"),
         Do("GET", "ctr")>>),
     Case("eval-error-reply",
       <<SayOpt("EVAL", "refused"), SayOpt("EVAL", "refused"), SayOpt("EVAL", "refused"),
         SayOpt("EVAL", "refused"), SayOpt("EVAL", "refused")>>) >>

\* Mutant: the case relies on a script an earlier run has loaded.
UnloadedScript ==
  Case("script-load-evalsha", <<SayOpt("EVALSHA", "int"), Say("SCRIPT EXISTS")>>)

ScriptLoadEvalSha ==
  Case("script-load-evalsha",
    <<Say("SCRIPT LOAD"), SayOpt("EVALSHA", "int"), Say("SCRIPT EXISTS")>>)

StreamCases ==
  << Case("xgroup-readgroup-ack",
       <<Do("XADD", "st"), Do("XADD", "st"), Do("XGROUP", "st"), Do("XREADGROUP", "st"),
         Do("XACK", "st"), Do("XPENDING", "st"), Do("XINFO", "st"), Do("XLEN", "st")>>),
     Case("xinfo-stream-groups-count",
       <<Do("XADD", "st"), Do("XADD", "st"), Do("XGROUP", "st"), Do("XGROUP", "st"),
         Do("XINFO", "st")>>),
     Case("xsetid",
       <<Do("XADD", "st"), Do("XSETID", "st"), DoOpt("XSETID", "st", "refused"),
         Do("XSETID", "st")>>) >>

CasesOfBaseTable ==
  StringCases \o FirstKeyCases
    \o <<HashSetGet, HashGetAllResp3, SetAddMembers, SMembersResp3>>
    \o ScoreAndEncodingCases \o TransactionCases \o <<WrongArity, UnknownCommand>>
    \o SetOptionCases \o ExpiryCases \o CarryStringCases \o EncodingCases
    \o ListCases \o HashCases \o SetCases \o ZSetCases \o KeyspaceCases
    \o BitAndConnectionCases \o HyperLogLogCases \o BitmapCases \o ScriptCases
    \o <<ScriptLoadEvalSha>> \o StreamCases

=============================================================================
