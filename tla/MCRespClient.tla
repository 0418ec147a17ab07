---------------------------- MODULE MCRespClient ----------------------------
(***************************************************************************)
(* A reply of every kind, alone and nested, for RespClient.                *)
(***************************************************************************)
EXTENDS RespClient

A == <<97>>

Plain == {Text("+", A), Text("-", A), Text("$", A), Text("$", <<>>), Integer(0)}

Resp2 == Plain \cup {Null("$"), Null("*")}

Resp3 ==
  Plain \cup {Text(k, A) : k \in Scalars}
        \cup {Text("=", <<>>), Bool(TRUE), Bool(FALSE), Null("_")}

\* Lists of at most two members, and maps of at most one pair, of these.
ListsOf(ks, S) ==
  {List(k, <<>>) : k \in ks} \cup {List(k, <<v>>) : k \in ks, v \in S}
    \cup {List(k, <<v, w>>) : k \in ks, v, w \in S}
MapsOf(S) == {Map(<<>>)} \cup {Map(<< <<v, w>> >>) : v, w \in S}

\* Inside a list a few kinds stand for all.
Inner2 == {Text("$", A), Null("$"), List("*", <<Integer(0), Null("*")>>)}
Inner3 == {Text("=", A), Null("_"), Map(<< <<Text("$", A), Integer(0)>> >>),
           List("~", <<Bool(TRUE)>>)}

MCAnswers ==
  [p \in {2, 3} |->
     IF p = 2 THEN Resp2 \cup ListsOf({"*"}, Inner2)
     ELSE Resp3 \cup ListsOf({"*", "~"}, Inner3) \cup MapsOf(Inner3)]

MCGreetings == {Map(<< <<Text("$", A), Integer(3)>> >>), Text("-", A)}

\* The recursive calls of the codec.  TLC's coverage would follow them from one
\* to the next for ever; it does not look into a LET.
MCEncode(v)             == LET chunks == Encoding(v) IN chunks
MCEncodeMany(s)         == LET chunks == EncodingMany(s) IN chunks
MCDecode(chunks)        == LET d == Decoding(chunks) IN d
MCDecodeMany(n, chunks) == LET d == DecodingMany(n, chunks) IN d

MCReplies == Resp2 \cup Resp3 \cup Inner2 \cup Inner3 \cup
  MCAnswers[2] \cup MCAnswers[3] \cup MCGreetings \cup {Integer(3)}

MCDepth(v) ==
  CASE Members(v) = <<>> -> 0
    [] v \in Inner2 \cup Inner3 \cup MCGreetings -> 1
    [] OTHER -> 2
=============================================================================
