----------------------------- MODULE RespCodec ------------------------------
(***************************************************************************)
(* A reply on the wire: a sequence of chunks, a chunk being a line or the  *)
(* payload of a bulk, with its CRLF.  Decoding follows decode.go on the    *)
(* chunks that have arrived, and blocks, which here is the status "short", *)
(* until they hold a complete value.  Integers are those of RESP, which    *)
(* int64 holds.                                                            *)
(*                                                                         *)
(* The codec calls itself for the members of a reply.  Encode, Decode and  *)
(* their plurals are constants for these calls: an instance gives Encode   *)
(* the value Encoding, and so on, and CodecEquations says just that.       *)
(***************************************************************************)
EXTENDS ReplyTree

CONSTANTS
  Encode(_), EncodeMany(_),   \* the recursive calls of the server
  Decode(_), DecodeMany(_, _) \* and of decode.go

-----------------------------------------------------------------------------
\* The wire format, as the server writes it.

Line(k, arg) == [kind |-> k, arg |-> arg]
Payload(t)   == [kind |-> "payload", arg |-> t]

Encoding(v) ==
  LET bulk(k, t) == <<Line(k, Len(t)), Payload(t)>>
  IN  CASE v.kind \in {"+", "-", ",", "("} -> <<Line(v.kind, v.str)>>
        [] v.kind = ":" -> <<Line(":", v.int)>>
        [] v.kind = "#" -> <<Line("#", IF v.bool THEN <<116>> ELSE <<102>>)>>
        [] v.kind = "_" -> <<Line(v.nullFrom, IF v.nullFrom = "_" THEN <<>> ELSE -1)>>
        [] v.kind \in {"$", "!"} -> bulk(v.kind, v.str)
        [] v.kind = "=" -> bulk("=", <<116, 120, 116, 58>> \o v.str)
        [] v.kind \in Lists -> <<Line(v.kind, Len(v.elems))>> \o EncodeMany(Members(v))
        [] v.kind = "%" -> <<Line("%", Len(v.map))>> \o EncodeMany(Members(v))

EncodingMany(s) ==
  IF s = <<>> THEN <<>> ELSE Encode(Head(s)) \o EncodeMany(Tail(s))

-----------------------------------------------------------------------------
\* decode.go.

Decoded(v, rest) == [status |-> "ok", value |-> v, rest |-> rest]
Stopped(status)  == [status |-> status, value |-> Null("_"), rest |-> <<>>]

\* Mutant: a bulk without bytes is taken for a null.
EmptyIsNull(k, n, rest) ==
  IF n <= 0 THEN Decoded(Null("$"), rest)
  ELSE IF rest = <<>> THEN Stopped("short")
  ELSE Decoded(Text(k, rest[1].arg), Tail(rest))

\* After the header of a bulk: its payload has the length announced, unless the
\* server is broken.
DecodeBulk(k, n, rest) ==
  IF n < 0 THEN Decoded(Null("$"), rest)
  ELSE IF rest = <<>> THEN Stopped("short")
  ELSE IF Len(rest[1].arg) # n THEN Stopped("malformed")
  ELSE Decoded(Text(k, rest[1].arg), Tail(rest))

\* Mutant: a verbatim string needs a byte after its encoding.
NeedsText(t) == Len(t) < 5 \/ t[4] # 58

LacksEncoding(t) == Len(t) < 4 \/ t[4] # 58

DecodeVerbatim(n, rest) ==
  LET d == DecodeBulk("=", n, rest)
  IN  IF d.status # "ok" THEN d
      ELSE IF d.value.kind # "=" THEN Stopped("malformed")
      ELSE IF LacksEncoding(d.value.str) THEN Stopped("malformed")
      ELSE Decoded(Text("=", SubSeq(d.value.str, 5, Len(d.value.str))), d.rest)

\* Mutant: a map of n pairs is read as n values.
PairsAsValues(n) == n

ValuesOfPairs(n) == 2 * n

Pairs(s) == [i \in 1..(Len(s) \div 2) |-> <<s[2 * i - 1], s[2 * i]>>]

\* n values, one after the other, as a list.
DecodingMany(n, chunks) ==
  IF n = 0 THEN Decoded(<<>>, chunks)
  ELSE LET first == Decode(chunks)
           others == DecodeMany(n - 1, first.rest)
       IN  IF first.status # "ok" THEN first
           ELSE IF others.status # "ok" THEN others
           ELSE Decoded(<<first.value>> \o others.value, others.rest)

Decoding(chunks) ==
  IF chunks = <<>> THEN Stopped("short")
  ELSE
    LET k == chunks[1].kind
        arg == chunks[1].arg
        rest == Tail(chunks)
        many(n) == DecodeMany(n, rest)
    IN CASE k \in {"+", "-", ",", "("} -> Decoded(Text(k, arg), rest)
         [] k = ":" -> Decoded(Integer(arg), rest)
         [] k = "_" -> Decoded(Null("_"), rest)
         [] k = "#" ->
              IF arg \in {<<116>>, <<102>>} THEN Decoded(Bool(arg = <<116>>), rest)
              ELSE Stopped("malformed")
         [] k \in {"$", "!"} -> DecodeBulk(k, arg, rest)
         [] k = "=" -> DecodeVerbatim(arg, rest)
         [] k \in Lists ->
              IF arg < 0 THEN Decoded(Null("*"), rest)
              ELSE IF many(arg).status # "ok" THEN many(arg)
              ELSE Decoded(List(k, many(arg).value), many(arg).rest)
         [] k = "%" ->
              IF arg < 0 THEN Decoded(Null("%"), rest)
              ELSE LET all == many(ValuesOfPairs(arg))
                   IN  IF all.status # "ok" THEN all
                       ELSE Decoded(Map(Pairs(all.value)), all.rest)
         [] OTHER -> Stopped("malformed")

-----------------------------------------------------------------------------
Chunk ==
  [kind : Scalars \cup Lists \cup Atoms \cup {"%", "payload"},
   arg : Int \cup Seq(Nat)]

\* Every recursive call is the call it stands for.
CodecEquations ==
  /\ \A v \in Replies : Encode(v) = Encoding(v)
  /\ \A s \in Seq(Replies) : EncodeMany(s) = EncodingMany(s)
  /\ \A c \in Seq(Chunk) : Decode(c) = Decoding(c)
  /\ \A n \in Nat, c \in Seq(Chunk) : DecodeMany(n, c) = DecodingMany(n, c)

\* All of an encoded reply, whatever follows it, decodes to the reply and leaves
\* what follows; a part of it that is not all decodes to nothing but a wait.
RoundTrips(v) ==
  /\ Encode(v) \in Seq(Chunk)
  /\ \A t \in Seq(Chunk) : Decode(Encode(v) \o t) = Decoded(v, t)
  /\ \A p, q \in Seq(Chunk) :
       Encode(v) = p \o q /\ q # <<>> => Decode(p) = Stopped("short")
=============================================================================
