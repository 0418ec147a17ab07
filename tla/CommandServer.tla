---------------------------- MODULE CommandServer ----------------------------
(***************************************************************************)
(* A server as the case tables of differential/ use it: an external system,*)
(* of which two things are kept.  After says what a command does to the    *)
(* keys, the connection and the script cache.  Answer says which replies   *)
(* servers that are all right may give to it, and so where two of them may *)
(* differ: a time to live that runs down, an order or a cursor nobody      *)
(* fixes, a random member, a name or text of the implementation.           *)
(*                                                                         *)
(* A string, a list or a stream is one value; of a hash, a set and a       *)
(* sorted set the fields or members are kept, because how many there are   *)
(* decides whether their order shows.  What a deterministic command        *)
(* computes is one value of the right kind.                                *)
(***************************************************************************)
EXTENDS RunnerMatch

\* A step of a case.  opt is the option or the kind of argument that decides
\* what the command does, elems the fields, members or matching names given.
Command(verb, keys, opt, elems) ==
  [verb |-> verb, keys |-> keys, opt |-> opt, elems |-> elems]

Say(verb)            == Command(verb, <<>>, "", {})
SayOpt(verb, opt)    == Command(verb, <<>>, opt, {})
Do(verb, k)          == Command(verb, <<k>>, "", {})
DoOpt(verb, k, opt)  == Command(verb, <<k>>, opt, {})
DoWith(verb, k, es)  == Command(verb, <<k>>, "", es)
DoOn(verb, ks)       == Command(verb, ks, "", {})
DoOnOpt(verb, ks, opt) == Command(verb, ks, opt, {})

(***************************************************************************)
(* Verbs by what they need, do and reply.                                  *)
(***************************************************************************)
StringVerbs ==
  {"GET", "APPEND", "GETRANGE", "SETRANGE", "SUBSTR", "STRLEN", "INCR", "INCRBY",
   "DECR", "INCRBYFLOAT", "GETEX", "GETDEL", "GETSET", "LCS", "BITCOUNT",
   "BITPOS", "SETBIT", "GETBIT", "BITFIELD", "BITFIELD_RO", "PFADD", "PFCOUNT"}
ListVerbs ==
  {"RPUSH", "LPUSH", "RPUSHX", "LPUSHX", "LRANGE", "LLEN", "LPOP", "RPOP", "LPOS",
   "LMOVE", "RPOPLPUSH", "LINDEX", "LSET", "LINSERT", "LREM", "LTRIM", "LMPOP",
   "SORT", "SORT_RO"}
HashVerbs ==
  {"HSET", "HMSET", "HSETNX", "HGET", "HMGET", "HGETALL", "HKEYS", "HVALS", "HLEN",
   "HEXISTS", "HDEL", "HINCRBY", "HINCRBYFLOAT", "HRANDFIELD",
   "HRANDFIELD WITHVALUES", "HSCAN", "HSCAN NOVALUES", "HEXPIRE", "HEXPIREAT",
   "HPERSIST", "HTTL", "HEXPIRETIME", "HPEXPIRETIME"}
SetVerbs ==
  {"SADD", "SCARD", "SMEMBERS", "SISMEMBER", "SMISMEMBER", "SRANDMEMBER", "SPOP",
   "SMOVE", "SINTER", "SUNION", "SDIFF", "SINTERCARD", "SSCAN"}
ZSetVerbs ==
  {"ZADD", "ZINCRBY", "ZSCORE", "ZMSCORE", "ZCARD", "ZCOUNT", "ZLEXCOUNT", "ZRANK",
   "ZREVRANK", "ZRANGE", "ZREVRANGE", "ZRANGEBYSCORE", "ZREVRANGEBYSCORE",
   "ZRANGEBYLEX", "ZREVRANGEBYLEX", "ZREM", "ZPOPMIN", "ZPOPMAX",
   "ZREMRANGEBYRANK", "ZREMRANGEBYSCORE", "ZREMRANGEBYLEX", "ZUNION", "ZINTER",
   "ZDIFF", "ZINTERCARD", "ZMPOP", "ZRANDMEMBER", "ZSCAN"}
StreamVerbs ==
  {"XADD", "XLEN", "XGROUP", "XREADGROUP", "XACK", "XPENDING", "XINFO", "XSETID"}

TypeOf(verb) ==
  CASE verb \in ListVerbs -> "list"
    [] verb \in HashVerbs -> "hash"
    [] verb \in SetVerbs \cup {"SUNIONSTORE", "SINTERSTORE", "SDIFFSTORE"} -> "set"
    [] verb \in ZSetVerbs
         \cup {"ZUNIONSTORE", "ZINTERSTORE", "ZDIFFSTORE", "ZRANGESTORE"} -> "zset"
    [] verb \in StreamVerbs -> "stream"
    [] OTHER -> "string"

TypedVerbs ==
  StringVerbs \cup ListVerbs \cup HashVerbs \cup SetVerbs \cup ZSetVerbs \cup StreamVerbs

\* They write their keys anew, or add to what is there.
Overwriting == {"SET", "SETNX", "SETEX", "PSETEX", "GETSET", "MSET", "MSETNX"}
Adding ==
  {"APPEND", "SETRANGE", "INCR", "INCRBY", "DECR", "INCRBYFLOAT", "SETBIT",
   "BITFIELD", "PFADD", "RPUSH", "LPUSH", "HSET", "HMSET", "HSETNX", "HINCRBY",
   "HINCRBYFLOAT", "SADD", "ZADD", "ZINCRBY", "XADD", "EVAL"}
Removing ==
  {"HDEL", "SPOP", "ZREM", "ZPOPMIN", "ZPOPMAX", "ZREMRANGEBYRANK",
   "ZREMRANGEBYSCORE", "ZREMRANGEBYLEX"}
Unions        == {"SUNION", "SUNIONSTORE", "ZUNIONSTORE"}
Intersections == {"SINTER", "SINTERSTORE", "ZINTERSTORE"}
Differences   == {"SDIFF", "SDIFFSTORE", "ZDIFFSTORE"}
Algebra       == {"SUNION", "SINTER", "SDIFF"}
Storing ==
  (Unions \cup Intersections \cup Differences \cup {"ZRANGESTORE"}) \ Algebra

StatusVerbs ==
  {"PING", "SET", "SETEX", "PSETEX", "MSET", "HMSET", "RENAME", "TYPE", "LSET",
   "LTRIM", "XGROUP", "XSETID", "PFMERGE", "MULTI", "DISCARD", "RESET", "SELECT",
   "FLUSHDB"}
ArrayVerbs ==
  {"MGET", "HMGET", "SMISMEMBER", "LRANGE", "LMPOP", "ZMPOP", "SORT", "SORT_RO",
   "ZRANGE", "ZREVRANGE", "ZRANGEBYSCORE", "ZREVRANGEBYSCORE", "ZRANGEBYLEX",
   "ZREVRANGEBYLEX", "ZPOPMIN", "ZPOPMAX", "ZMSCORE", "ZUNION", "ZINTER", "ZDIFF",
   "BITFIELD", "BITFIELD_RO", "EXEC", "SCRIPT EXISTS", "XREADGROUP", "XPENDING",
   "XINFO", "ROLE"}
BulkVerbs ==
  {"ECHO", "GET", "GETRANGE", "SUBSTR", "INCRBYFLOAT", "HINCRBYFLOAT", "GETEX",
   "GETDEL", "GETSET", "LCS", "LINDEX", "LPOP", "RPOP", "LMOVE", "RPOPLPUSH", "HGET",
   "ZSCORE", "ZINCRBY", "SCRIPT LOAD", "XADD", "SPOP", "DUMP"}
\* Every other deterministic reply is an integer.

(***************************************************************************)
(* The state of a server and of the connection of the case: the keys that  *)
(* exist, by database and name; the database selected; the protocol; the   *)
(* commands queued by MULTI; whether the script of the cases is cached.    *)
(* A value's ttl has the deadlines of the key (Self) and of its fields; its*)
(* form is "inline" or "heavy", or how it was corrupted.                   *)
(* No case reads a list it has emptied, so a list stays until it is        *)
(* deleted.                                                                *)
(***************************************************************************)
Self == ""
Empty == [k \in {} |-> {}]  \* no keys, no deadlines

Server(proto, scripts) ==
  [keys |-> Empty, sel |-> "0", proto |-> proto, multi |-> FALSE, queue |-> <<>>,
   scripts |-> scripts]

Has(s, k) == <<s.sel, k>> \in DOMAIN s.keys
ValueAt(s, k) == s.keys[<<s.sel, k>>]
MembersAt(s, k) == IF Has(s, k) THEN ValueAt(s, k).elems ELSE {}
Names(s) == {k \in {x[2] : x \in DOMAIN s.keys} : Has(s, k)}
DeadlineOf(v, f) == IF f \in DOMAIN v.ttl THEN v.ttl[f] ELSE "none"

Put(s, k, v) == [s EXCEPT !.keys = (<<s.sel, k>> :> v) @@ s.keys]
Without(s, ks) ==
  [s EXCEPT !.keys = Restrict(s.keys, DOMAIN s.keys \ {<<s.sel, k>> : k \in ks})]

New(type, es, form) == [type |-> type, elems |-> es, ttl |-> Empty, form |-> form]
Timed(v, fs, deadline) == [v EXCEPT !.ttl = [f \in fs |-> deadline] @@ v.ttl]
Untimed(v, fs) == [v EXCEPT !.ttl = Restrict(v.ttl, DOMAIN v.ttl \ fs)]

\* A collection goes with its last member.
PutMembers(s, k, v, es) ==
  IF es = {} THEN Without(s, {k})
  ELSE Put(s, k, [Untimed(v, v.elems \ es) EXCEPT !.elems = es])

-----------------------------------------------------------------------------
Refused(s, c) ==
  \/ c.opt = "refused"
  \/ c.verb = "EVALSHA" /\ ~s.scripts
  \/ c.verb = "RENAME" /\ ~Has(s, c.keys[1])
  \/ /\ c.verb \in TypedVerbs
     /\ c.keys # <<>> /\ Has(s, c.keys[1])
     /\ ValueAt(s, c.keys[1]).type # TypeOf(c.verb)

\* A conditional write whose condition does not hold.
Unmet(s, c) ==
  \/ (c.opt = "NX" \/ c.verb = "SETNX") /\ Has(s, c.keys[1])
  \/ c.opt = "XX" /\ ~Has(s, c.keys[1])
  \/ c.verb = "MSETNX" /\ \E k \in Range(c.keys) : Has(s, k)

Written(s, c) ==
  LET new == New("string", {}, "inline")
  IN  CASE c.opt = "EX" \/ c.verb \in {"SETEX", "PSETEX"} -> Timed(new, {Self}, "relative")
        [] c.opt = "EXAT" -> Timed(new, {Self}, "absolute")
        [] c.opt = "KEEPTTL" -> ValueAt(s, c.keys[1])
        [] OTHER -> new

Overwrite(s, c) ==
  IF Unmet(s, c) THEN s
  ELSE [s EXCEPT !.keys =
          [x \in {<<s.sel, k>> : k \in Range(c.keys)} |-> Written(s, c)] @@ s.keys]

Add(s, c, k) ==
  IF Has(s, k)
  THEN Put(s, k, [ValueAt(s, k) EXCEPT !.elems = @ \cup c.elems])
  ELSE Put(s, k, New(TypeOf(c.verb), c.elems,
                     IF c.opt = "heavy" THEN "heavy" ELSE "inline"))

Combined(s, c, sources) ==
  LET sets == {MembersAt(s, k) : k \in Range(sources)}
  IN  CASE c.verb \in Intersections -> {e \in UNION sets : \A es \in sets : e \in es}
        [] c.verb \in Differences ->
             MembersAt(s, Head(sources))
               \ UNION {MembersAt(s, k) : k \in Range(Tail(sources))}
        [] OTHER -> UNION sets

\* The verbs that carry a value from one name or database to another.
Carrying == {"RENAME", "RENAMENX", "COPY", "MOVE"}

\* Where a carried value goes: a database and a name.
Destination(s, c) ==
  IF c.verb = "MOVE" THEN <<c.opt, c.keys[1]>> ELSE <<s.sel, c.keys[2]>>

Carry(s, c) ==
  LET to == Destination(s, c)
      occupied == to \in DOMAIN s.keys
      stays == IF c.verb = "COPY" THEN s ELSE Without(s, {c.keys[1]})
  IN  IF \/ ~Has(s, c.keys[1])
         \/ occupied /\ c.verb # "RENAME" /\ c.opt # "REPLACE"
      THEN s
      ELSE [stays EXCEPT !.keys = (to :> ValueAt(s, c.keys[1])) @@ stays.keys]

\* EXPIRE and its kin, on the key or, for the H forms, on fields of it.  A
\* deadline in the past deletes the field.
Expiring == {"EXPIRE", "PEXPIRE", "EXPIREAT", "PERSIST", "GETEX",
             "HEXPIRE", "HEXPIREAT", "HPERSIST"}

Expire(s, c, k) ==
  LET v == ValueAt(s, k)
      fs == IF c.verb \in HashVerbs THEN c.elems \cap v.elems ELSE {Self}
  IN  CASE ~Has(s, k) \/ c.opt = "pinned" -> s
        [] c.verb \in {"PERSIST", "HPERSIST"} \/ c.opt = "PERSIST" ->
             Put(s, k, Untimed(v, fs))
        [] c.opt = "past" -> PutMembers(s, k, v, v.elems \ fs)
        [] c.verb \in {"EXPIREAT", "HEXPIREAT"} -> Put(s, k, Timed(v, fs, "absolute"))
        [] c.verb = "GETEX" /\ c.opt # "EX" -> s
        [] OTHER -> Put(s, k, Timed(v, fs, "relative"))

SMove(s, c) ==
  LET from == MembersAt(s, c.keys[1])
      moved == c.elems \cap from
      to == Add(s, [c EXCEPT !.elems = moved], c.keys[2])
  IN  IF moved = {} THEN s
      ELSE PutMembers(to, c.keys[1], ValueAt(s, c.keys[1]), from \ moved)

\* What a command that is executed does.
Effect(s, c) ==
  LET k == c.keys[1]
  IN  CASE Refused(s, c) -> s
        [] c.verb \in Overwriting -> Overwrite(s, c)
        [] c.verb \in Adding /\ c.keys # <<>> -> Add(s, c, k)
        [] c.verb \in Removing /\ Has(s, k) ->
             PutMembers(s, k, ValueAt(s, k), MembersAt(s, k) \ c.elems)
        [] c.verb \in {"DEL", "UNLINK", "GETDEL"} -> Without(s, Range(c.keys))
        [] c.verb \in Storing ->
             PutMembers(s, k, New(TypeOf(c.verb), {}, "inline"),
                        Combined(s, c, Tail(c.keys)))
        [] c.verb \in {"BITOP", "PFMERGE"} -> Put(s, k, New("string", {}, "inline"))
        [] c.verb \in {"LMOVE", "RPOPLPUSH"} /\ Has(s, k) -> Add(s, c, c.keys[2])
        [] c.verb = "SMOVE" -> SMove(s, c)
        [] c.verb \in Carrying -> Carry(s, c)
        [] c.verb \in Expiring -> Expire(s, c, k)
        [] c.verb = "SELECT" -> [s EXCEPT !.sel = c.opt]
        [] c.verb = "FLUSHDB" -> Without(s, Names(s))
        [] c.verb = "SCRIPT LOAD" -> [s EXCEPT !.scripts = TRUE]
        [] OTHER -> s

Unqueued(s) == [s EXCEPT !.multi = FALSE, !.queue = <<>>]
EndsMulti == {"EXEC", "DISCARD", "RESET"}

After(s, c) ==
  CASE c.verb = "MULTI" -> [s EXCEPT !.multi = TRUE]
    [] c.verb = "EXEC" -> FoldLeft(Effect, Unqueued(s), s.queue)
    [] c.verb = "DISCARD" -> Unqueued(s)
    [] c.verb = "RESET" -> [Unqueued(s) EXCEPT !.sel = "0", !.proto = 2]
    [] s.multi /\ c.verb \notin EndsMulti -> [s EXCEPT !.queue = Append(@, c)]
    [] OTHER -> Effect(s, c)

-----------------------------------------------------------------------------
(***************************************************************************)
(* The answer to a command: what kind of reply it is and, where its order  *)
(* or choice is free, what it is made of.                                  *)
(***************************************************************************)
Answered(kind, es) == [kind |-> kind, of |-> es]
Fixed(kind) == Answered(kind, {})

TimeVerbs == {"TTL", "PTTL", "EXPIRETIME", "PEXPIRETIME"}
FieldTimeVerbs == {"HTTL", "HEXPIRETIME", "HPEXPIRETIME"}

\* A time left runs down; a point in time only differs when it was relative to
\* the clock of the server.
TimeAnswer(verb, deadline) ==
  CASE deadline = "none" -> Fixed("no deadline")
    [] verb \in {"TTL", "PTTL", "HTTL"} \/ deadline = "relative" -> Fixed("countdown")
    [] OTHER -> Fixed("int")

FieldTimeAnswer(s, c) ==
  LET v == ValueAt(s, c.keys[1])
      f == CHOOSE f \in c.elems : TRUE
  IN  IF f \notin v.elems THEN Fixed("[no such]")
      ELSE CASE TimeAnswer(c.verb, DeadlineOf(v, f)).kind = "countdown" -> Fixed("[countdown]")
             [] DeadlineOf(v, f) = "none" -> Fixed("[no deadline]")
             [] OTHER -> Fixed("array")

\* The names, fields or members that a scan or KEYS selects.
Selected(s, c) ==
  LET all == IF c.keys = <<>> THEN Names(s) ELSE MembersAt(s, c.keys[1])
  IN  IF c.opt = "match" THEN all \cap c.elems ELSE all

\* A random reader without a count returns one member, with a count of at
\* least the size all of them.
RandomVerbs == {"SRANDMEMBER", "HRANDFIELD", "ZRANDMEMBER", "SPOP",
                "HRANDFIELD WITHVALUES"}

RandomAnswer(s, c) ==
  LET es == MembersAt(s, c.keys[1])
  IN  CASE c.verb = "HRANDFIELD WITHVALUES" -> Answered("pairs", es)
        [] c.opt = "all" -> Answered("members", es)
        [] es = {} -> Fixed("nil")
        [] Cardinality(es) = 1 -> Fixed("bulk")
        [] OTHER -> Answered("one of", es)

ListingVerbs ==
  Algebra \cup {"SMEMBERS", "KEYS", "HKEYS", "HVALS", "HGETALL"}
ScanVerbs == {"SCAN", "SSCAN", "HSCAN", "HSCAN NOVALUES", "ZSCAN"}

ListingAnswer(s, c) ==
  CASE c.verb \in {"HSCAN", "ZSCAN"} -> Answered("scan of pairs", Selected(s, c))
    [] c.verb \in ScanVerbs -> Answered("scan", Selected(s, c))
    [] c.verb \in Algebra -> Answered("set", Combined(s, c, c.keys))
    [] c.verb = "SMEMBERS" -> Answered("set", Selected(s, c))
    [] c.verb = "HGETALL" -> Answered("map", Selected(s, c))
    [] OTHER -> Answered("members", Selected(s, c))

\* Replies that are the implementation's own.
OwnVerbs ==
  {"OBJECT ENCODING", "OBJECT HELP", "OBJECT REFCOUNT", "OBJECT IDLETIME", "WAIT",
   "LOLWUT", "HELLO", "COMMAND COUNT"}

OwnAnswer(s, c) ==
  CASE c.verb = "OBJECT ENCODING" ->
         IF Has(s, c.keys[1]) THEN Fixed("name") ELSE Fixed("none or error")
    [] c.verb = "LOLWUT" -> Fixed("name")
    [] c.verb \in {"OBJECT REFCOUNT", "OBJECT IDLETIME", "WAIT"} -> Fixed("counter")
    [] OTHER -> Fixed("version")

GivenKinds == {"status", "int", "bulk", "array", "nil", "empty", "version", "pinned"}

PlainAnswer(s, c) ==
  LET missing == c.keys # <<>> /\ ~Has(s, c.keys[1])
  IN  CASE c.opt = "GET" \/ c.verb = "GETSET" -> Fixed(IF missing THEN "nil" ELSE "bulk")
        [] c.verb = "SET" /\ Unmet(s, c) -> Fixed("nil")
        [] c.verb \in StatusVerbs -> Fixed("status")
        [] c.verb \in ArrayVerbs -> Fixed("array")
        [] c.verb \in BulkVerbs ->
             Fixed(IF missing /\ c.verb \notin Adding THEN "nil" ELSE "bulk")
        [] OTHER -> Fixed("int")

Answer(s, c) ==
  CASE s.multi /\ c.verb \notin EndsMulti -> Fixed("status")
    [] c.verb = "NOSUCHCOMMAND" -> Fixed("unknown command")
    [] Refused(s, c) -> Fixed("error")
    [] c.opt \in GivenKinds -> Fixed(c.opt)
    [] c.verb \in TimeVerbs ->
         IF Has(s, c.keys[1])
         THEN TimeAnswer(c.verb, DeadlineOf(ValueAt(s, c.keys[1]), Self))
         ELSE Fixed("no such")
    [] c.verb \in FieldTimeVerbs -> FieldTimeAnswer(s, c)
    [] c.verb \in RandomVerbs -> RandomAnswer(s, c)
    [] c.verb \in ListingVerbs \cup ScanVerbs -> ListingAnswer(s, c)
    [] c.verb \in OwnVerbs -> OwnAnswer(s, c)
    [] OTHER -> PlainAnswer(s, c)

=============================================================================
