--------------------------- MODULE RespCodecProofs ---------------------------
(***************************************************************************)
(* decode.go reads back what was encoded, whatever arrives of it first:    *)
(* for replies of any depth, by induction on their depth, and on the       *)
(* number of members of each.                                              *)
(***************************************************************************)
EXTENDS RespCodec, ReplyTreeProofs

-----------------------------------------------------------------------------
\* Sequences cut in two.

LEMMA Cons ==
  ASSUME NEW S, NEW c \in S, NEW r \in Seq(S)
  PROVE  /\ <<c>> \o r \in Seq(S)
         /\ <<c>> \o r # <<>>
         /\ (<<c>> \o r)[1] = c
         /\ Tail(<<c>> \o r) = r
<1>. DEFINE s == <<c>> \o r
<1>1. <<c>> \in Seq(S) /\ Len(<<c>>) = 1 /\ <<c>>[1] = c
  OBVIOUS
<1>2. s \in Seq(S) /\ Len(s) = 1 + Len(r) /\ s[1] = c
  BY <1>1, ConcatProperties
<1>3. \A i \in 1..Len(r) : s[i + 1] = r[i]
  <2>. TAKE i \in 1..Len(r)
  <2>1. i + 1 \in 1..(Len(<<c>>) + Len(r)) /\ ~(i + 1 <= Len(<<c>>))
    BY <1>1
  <2>2. s[i + 1] = r[(i + 1) - Len(<<c>>)]
    BY <1>1, <2>1, ConcatProperties
  <2>. QED
    BY <1>1, <2>2
<1>. HIDE DEF s
<1>4. Len(r) \in Nat /\ s # <<>>
  BY <1>2
<1>5. /\ Tail(s) \in Seq(S)
      /\ Len(Tail(s)) = Len(r)
      /\ \A i \in 1..Len(Tail(s)) : Tail(s)[i] = s[i + 1]
  BY <1>2, <1>4, HeadTailProperties
<1>6. Tail(s) = r
  BY <1>3, <1>5, SeqEqual
<1>. QED
  BY <1>2, <1>4, <1>6 DEF s

LEMMA HeadAndTail ==
  ASSUME NEW S, NEW s \in Seq(S), s # <<>>
  PROVE  /\ s[1] \in S /\ Head(s) = s[1] /\ Tail(s) \in Seq(S)
         /\ Len(s) = Len(Tail(s)) + 1
         /\ s = <<s[1]>> \o Tail(s)
<1>1. s[1] \in S /\ Head(s) = s[1] /\ Len(s) \in Nat \ {0}
  BY EmptySeq
<1>2. /\ Tail(s) \in Seq(S) /\ Len(Tail(s)) = Len(s) - 1
      /\ \A i \in 1..Len(Tail(s)) : Tail(s)[i] = s[i + 1]
  BY HeadTailProperties
<1>3. s = <<s[1]>> \o Tail(s)
  <2>. DEFINE u == <<s[1]>> \o Tail(s)
  <2>1. <<s[1]>> \in Seq(S) /\ Len(<<s[1]>>) = 1 /\ <<s[1]>>[1] = s[1]
    BY <1>1
  <2>2. /\ u \in Seq(S) /\ Len(u) = 1 + Len(Tail(s))
        /\ \A i \in 1..(1 + Len(Tail(s))) :
             u[i] = IF i <= 1 THEN <<s[1]>>[i] ELSE Tail(s)[i - 1]
    BY <1>2, <2>1, ConcatProperties
  <2>. HIDE DEF u
  <2>3. \A i \in 1..Len(s) : u[i] = s[i]
    <3>. TAKE i \in 1..Len(s)
    <3>1. CASE i = 1
      BY <1>1, <1>2, <2>1, <2>2, <3>1
    <3>2. CASE i # 1
      <4>1. i - 1 \in 1..Len(Tail(s)) /\ i \in 1..(1 + Len(Tail(s))) /\ ~(i <= 1)
        BY <1>1, <1>2, <3>2
      <4>2. u[i] = Tail(s)[i - 1] /\ Tail(s)[i - 1] = s[(i - 1) + 1]
        BY <1>2, <2>2, <4>1
      <4>3. (i - 1) + 1 = i
        OBVIOUS
      <4>. QED
        BY <4>2, <4>3
    <3>. QED
      BY <3>1, <3>2
  <2>4. Len(u) = Len(s)
    BY <1>1, <1>2, <2>2
  <2>. QED
    BY <2>2, <2>3, <2>4, SeqEqual DEF u
<1>. QED
  BY <1>1, <1>2, <1>3

LEMMA CutAt ==
  ASSUME NEW S, NEW s \in Seq(S), NEW n \in 0..Len(s)
  PROVE  \E u, r \in Seq(S) :
           s = u \o r /\ Len(u) = n /\ Len(r) = Len(s) - n
<1>. DEFINE u == [i \in 1..n |-> s[i]]
            r == [i \in 1..(Len(s) - n) |-> s[n + i]]
<1>1. Len(s) \in Nat /\ n \in Nat /\ Len(s) - n \in Nat
  OBVIOUS
<1>2. u \in Seq(S) /\ Len(u) = n
  BY <1>1
<1>3. r \in Seq(S) /\ Len(r) = Len(s) - n
  BY <1>1
<1>4. /\ u \o r \in Seq(S) /\ Len(u \o r) = Len(s)
      /\ \A i \in 1..(n + (Len(s) - n)) :
           (u \o r)[i] = IF i <= n THEN u[i] ELSE r[i - n]
  <2>. HIDE DEF u, r
  <2>. QED
    BY <1>1, <1>2, <1>3, ConcatProperties
<1>5. \A i \in 1..Len(s) : (u \o r)[i] = s[i]
  <2>. TAKE i \in 1..Len(s)
  <2>. DEFINE w == u \o r
  <2>1. w[i] = IF i <= n THEN u[i] ELSE r[i - n]
    BY <1>1, <1>4
  <2>. HIDE DEF w
  <2>2. CASE i <= n
    BY <1>1, <2>1, <2>2 DEF w
  <2>3. CASE ~(i <= n)
    <3>1. i - n \in 1..(Len(s) - n) /\ n + (i - n) = i
      BY <1>1, <2>3
    <3>2. r[i - n] = s[n + (i - n)]
      BY <3>1
    <3>. QED
      BY <2>1, <2>3, <3>1, <3>2 DEF w
  <2>. QED
    BY <2>2, <2>3
<1>. HIDE DEF u, r
<1>6. u \o r = s
  BY <1>4, <1>5, SeqEqual
<1>. QED
  BY <1>2, <1>3, <1>6

\* The beginnings of the same length of a sequence are the same.
LEMMA SameBeginning ==
  ASSUME NEW S, NEW p \in Seq(S), NEW q \in Seq(S),
         NEW a \in Seq(S), NEW b \in Seq(S), p \o q = a \o b, Len(p) = Len(a)
  PROVE  p = a /\ q = b
<1>1. \A i \in 1..Len(p) : p[i] = a[i]
  <2>. TAKE i \in 1..Len(p)
  <2>1. Len(p) \in Nat /\ Len(q) \in Nat /\ Len(a) \in Nat /\ Len(b) \in Nat
    OBVIOUS
  <2>2. (p \o q)[i] = p[i]
    BY <2>1, ConcatProperties
  <2>3. (a \o b)[i] = a[i]
    BY <2>1, ConcatProperties
  <2>. QED
    BY <2>2, <2>3
<1>2. p = a
  BY <1>1, SeqEqual
<1>. QED
  BY <1>2, ConcatSimplifications

\* p ends before a does, or a is a part of p and x the rest of p.
EndsWithin(S, p, a) == \E x \in Seq(S) : x # <<>> /\ a = p \o x
GoesBeyond(S, p, q, a, b) == \E x \in Seq(S) : p = a \o x /\ b = x \o q

\* The first of two ways to cut a sequence ends within the first part of the
\* second way, or not before it.
LEMMA TwoCuts ==
  ASSUME NEW S, NEW p \in Seq(S), NEW q \in Seq(S),
         NEW a \in Seq(S), NEW b \in Seq(S), NEW e
  PROVE  e = p \o q /\ e = a \o b => EndsWithin(S, p, a) \/ GoesBeyond(S, p, q, a, b)
<1>1. \A x, y, z \in Seq(S) : (x \o y) \o z = x \o (y \o z) /\ y \o z \in Seq(S)
  OBVIOUS
<1>2. \A s \in Seq(S) : \A n \in 0..Len(s) :
        \E u, r \in Seq(S) : s = u \o r /\ Len(u) = n /\ Len(r) = Len(s) - n
  BY CutAt
<1>3. Len(p) \in Nat /\ Len(a) \in Nat
  OBVIOUS
<1>4. CASE Len(p) < Len(a)
  <2>1. Len(p) \in 0..Len(a)
    BY <1>3, <1>4
  <2>2. PICK u, r \in Seq(S) : a = u \o r /\ Len(u) = Len(p) /\ Len(r) = Len(a) - Len(p)
    BY <1>2, <2>1
  <2>3. a \o b = u \o (r \o b) /\ r \o b \in Seq(S)
    BY <1>1, <2>2
  <2>4. p \o q = a \o b => p = u
    <3>. DEFINE y == r \o b
    <3>1. y \in Seq(S) /\ a \o b = u \o y
      BY <2>3
    <3>. HIDE DEF y
    <3>2. p \o q = u \o y => p = u
      BY <2>2, SameBeginning, <3>1
    <3>. QED
      BY <3>1, <3>2
  <2>5. r # <<>>
    BY <1>3, <1>4, <2>2
  <2>. QED
    BY <2>2, <2>4, <2>5 DEF EndsWithin
<1>5. CASE ~(Len(p) < Len(a))
  <2>1. Len(a) \in 0..Len(p)
    BY <1>3, <1>5
  <2>2. PICK u, r \in Seq(S) : p = u \o r /\ Len(u) = Len(a) /\ Len(r) = Len(p) - Len(a)
    BY <1>2, <2>1
  <2>3. p \o q = u \o (r \o q) /\ r \o q \in Seq(S)
    BY <1>1, <2>2
  <2>4. p \o q = a \o b => u = a /\ r \o q = b
    <3>. DEFINE y == r \o q
    <3>1. y \in Seq(S) /\ p \o q = u \o y
      BY <2>3
    <3>. HIDE DEF y
    <3>2. u \o y = a \o b => u = a /\ y = b
      BY <2>2, <3>1, SameBeginning
    <3>. QED
      BY <3>1, <3>2 DEF y
  <2>. QED
    BY <2>2, <2>4 DEF GoesBeyond
<1>. QED
  BY <1>4, <1>5

LEMMA TwoOne ==
  ASSUME NEW S, NEW c \in S, NEW d \in S
  PROVE  /\ <<c>> \in Seq(S) /\ <<d>> \in Seq(S) /\ <<c, d>> \in Seq(S)
         /\ <<c, d>> = <<c>> \o <<d>>
         /\ \A t, u \in Seq(S) : u = <<d>> \o t => <<c, d>> \o t = <<c>> \o u
<1>1. <<c>> \in Seq(S) /\ <<d>> \in Seq(S) /\ <<c, d>> \in Seq(S)
  OBVIOUS
<1>2. <<c, d>> = <<c>> \o <<d>>
  <2>. DEFINE u == <<c>> \o <<d>>
              w == <<c, d>>
  <2>1. /\ Len(<<c>>) = 1 /\ Len(<<d>>) = 1 /\ <<c>>[1] = c /\ <<d>>[1] = d
        /\ Len(w) = 2 /\ w[1] = c /\ w[2] = d
    OBVIOUS
  <2>2. /\ u \in Seq(S) /\ Len(u) = Len(<<c>>) + Len(<<d>>)
        /\ \A i \in 1..(Len(<<c>>) + Len(<<d>>)) :
             u[i] = IF i <= Len(<<c>>) THEN <<c>>[i] ELSE <<d>>[i - Len(<<c>>)]
    BY <1>1, ConcatProperties
  <2>. HIDE DEF u, w
  <2>3. Len(u) = 2 /\ u[1] = c /\ u[2] = d
    BY <2>1, <2>2
  <2>4. \A i \in 1..Len(w) : w[i] = u[i]
    BY <2>1, <2>3
  <2>5. w \in Seq(S)
    BY <1>1 DEF w
  <2>6. w = u
    BY <2>1, <2>2, <2>3, <2>4, <2>5, SeqEqual
  <2>. QED
    BY <2>6 DEF u, w
<1>3. \A x, y, z \in Seq(S) : (x \o y) \o z = x \o (y \o z)
  BY ConcatAssociative
<1>4. \A t, u \in Seq(S) : u = <<d>> \o t => <<c, d>> \o t = <<c>> \o u
  BY <1>1, <1>2, <1>3
<1>. QED
  BY <1>1, <1>2, <1>4

LEMMA OneLong ==
  ASSUME NEW S, NEW p \in Seq(S), Len(p) = 1
  PROVE  p # <<>> /\ p = <<p[1]>>
<1>1. p # <<>> /\ p[1] \in S
  BY EmptySeq, ElementOfSeq
<1>2. /\ <<p[1]>> \in Seq(S) /\ Len(<<p[1]>>) = 1
      /\ \A i \in 1..1 : <<p[1]>>[i] = p[1]
  BY <1>1
<1>3. \A i \in 1..Len(p) : p[i] = <<p[1]>>[i]
  BY <1>2
<1>. QED
  BY <1>1, <1>2, <1>3, SeqEqual

\* A cut of a sequence with a first element is before or after this element.
\* The equations under a name, for the provers to instantiate the lemma.
IsCons(e, c, r) == e = <<c>> \o r
IsCut(e, p, q)  == e = p \o q

LEMMA CutOfCons ==
  ASSUME NEW e, NEW c \in Chunk, NEW r \in Seq(Chunk),
         NEW p \in Seq(Chunk), NEW q \in Seq(Chunk),
         IsCons(e, c, r), IsCut(e, p, q), p # <<>>
  PROVE  p[1] = c /\ Tail(p) \in Seq(Chunk) /\ IsCut(r, Tail(p), q)
<1>0. e = <<c>> \o r /\ e = p \o q
  BY DEF IsCons, IsCut
<1>1. p = <<p[1]>> \o Tail(p) /\ Tail(p) \in Seq(Chunk) /\ p[1] \in Chunk
  BY HeadAndTail
<1>2. <<p[1]>> \in Seq(Chunk) /\ Tail(p) \o q \in Seq(Chunk)
  BY <1>1, ConcatProperties
<1>. DEFINE u == Tail(p) \o q
<1>3. e = <<p[1]>> \o u
  <2>. DEFINE h == <<p[1]>>
              b == Tail(p)
  <2>1. h \in Seq(Chunk) /\ b \in Seq(Chunk) /\ p = h \o b /\ e = p \o q
    BY <1>0, <1>1, <1>2
  <2>. HIDE DEF h, b
  <2>2. h \in Seq(Chunk) /\ b \in Seq(Chunk)
    BY <2>1
  <2>3. (h \o b) \o q = h \o (b \o q)
    BY <2>2, ConcatAssociative
  <2>4. e = h \o (b \o q)
    BY <2>1, <2>3
  <2>. QED
    BY <2>4 DEF h, b
<1>4. u \in Seq(Chunk)
  BY <1>2
<1>5. e[1] = c /\ Tail(e) = r
  BY <1>0, Cons
<1>. HIDE DEF u
<1>6. e[1] = p[1] /\ Tail(e) = u
  BY <1>1, <1>3, <1>4, Cons
<1>. QED
  BY <1>1, <1>5, <1>6 DEF u, IsCut

-----------------------------------------------------------------------------
\* The codec, one kind of reply after the other.

LEMMA Results ==
  /\ Stopped("short").status # "ok"
  /\ \A v, r : /\ Decoded(v, r).status = "ok"
               /\ Decoded(v, r).value = v
               /\ Decoded(v, r).rest = r
  BY DEF Stopped, Decoded

LEMMA NothingDecoded ==
  ASSUME CodecEquations
  PROVE  Decode(<<>>) = Stopped("short")
<1>1. <<>> \in Seq(Chunk)
  OBVIOUS
<1>2. Decode(<<>>) = Decoding(<<>>)
  BY <1>1 DEF CodecEquations
<1>3. Decoding(<<>>) = Stopped("short")
  BY DEF Decoding
<1>. QED
  BY <1>2, <1>3

\* What Decoding does with the first chunk, by its leading byte.
LEMMA DecodingByKind ==
  ASSUME NEW cs, cs # <<>>
  PROVE  LET k    == cs[1].kind
             arg  == cs[1].arg
             rest == Tail(cs)
             list == DecodeMany(arg, rest)
             map  == DecodeMany(ValuesOfPairs(arg), rest)
         IN  /\ k \in {"+", "-", ",", "("} => Decoding(cs) = Decoded(Text(k, arg), rest)
             /\ k = ":" => Decoding(cs) = Decoded(Integer(arg), rest)
             /\ k = "#" /\ arg \in {<<116>>, <<102>>} =>
                  Decoding(cs) = Decoded(Bool(arg = <<116>>), rest)
             /\ k \in NullKinds /\ (k # "_" => arg = -1) =>
                  Decoding(cs) = Decoded(Null(k), rest)
             /\ k \in {"$", "!"} => Decoding(cs) = DecodeBulk(k, arg, rest)
             /\ k = "=" => Decoding(cs) = DecodeVerbatim(arg, rest)
             /\ k \in Lists /\ ~(arg < 0) =>
                  Decoding(cs) = IF list.status # "ok" THEN list
                                 ELSE Decoded(List(k, list.value), list.rest)
             /\ k = "%" /\ ~(arg < 0) =>
                  Decoding(cs) = IF map.status # "ok" THEN map
                                 ELSE Decoded(Map(Pairs(map.value)), map.rest)
<1>1. ASSUME cs[1].kind \in {"+", "-", ",", "("}
      PROVE  Decoding(cs) = Decoded(Text(cs[1].kind, cs[1].arg), Tail(cs))
  BY <1>1 DEF Decoding, Lists
<1>2. ASSUME cs[1].kind = ":"
      PROVE  Decoding(cs) = Decoded(Integer(cs[1].arg), Tail(cs))
  BY <1>2 DEF Decoding, Lists
<1>3. cs[1].kind = "#" /\ cs[1].arg \in {<<116>>, <<102>>} =>
        Decoding(cs) = Decoded(Bool(cs[1].arg = <<116>>), Tail(cs))
  BY DEF Decoding, Lists
<1>4. ASSUME cs[1].kind \in NullKinds, cs[1].kind # "_" => cs[1].arg = -1
      PROVE  Decoding(cs) = Decoded(Null(cs[1].kind), Tail(cs))
  <2>1. CASE cs[1].kind = "_"
    BY <2>1 DEF Decoding, Lists
  <2>2. CASE cs[1].kind = "$"
    BY <1>4, <2>2 DEF Decoding, Lists, DecodeBulk
  <2>3. CASE cs[1].kind = "*"
    BY <1>4, <2>3 DEF Decoding, Lists
  <2>4. CASE cs[1].kind = "%"
    BY <1>4, <2>4 DEF Decoding, Lists
  <2>. QED
    BY <1>4, <2>1, <2>2, <2>3, <2>4 DEF NullKinds
<1>5. ASSUME cs[1].kind \in {"$", "!"}
      PROVE  Decoding(cs) = DecodeBulk(cs[1].kind, cs[1].arg, Tail(cs))
  BY <1>5 DEF Decoding, Lists
<1>6. ASSUME cs[1].kind = "="
      PROVE  Decoding(cs) = DecodeVerbatim(cs[1].arg, Tail(cs))
  BY <1>6 DEF Decoding, Lists
<1>. DEFINE list == DecodeMany(cs[1].arg, Tail(cs))
            map == DecodeMany(ValuesOfPairs(cs[1].arg), Tail(cs))
<1>7. ASSUME cs[1].kind \in Lists, ~(cs[1].arg < 0)
      PROVE  Decoding(cs) = IF list.status # "ok" THEN list
                            ELSE Decoded(List(cs[1].kind, list.value), list.rest)
  BY <1>7 DEF Decoding, Lists
<1>8. ASSUME cs[1].kind = "%", ~(cs[1].arg < 0)
      PROVE  Decoding(cs) = IF map.status # "ok" THEN map
                            ELSE Decoded(Map(Pairs(map.value)), map.rest)
  BY <1>8 DEF Decoding, Lists
<1>. QED
  BY <1>1, <1>2, <1>3, <1>4, <1>5, <1>6, <1>7, <1>8

\* The same of a header c that r follows.
LEMMA AfterHeader ==
  ASSUME CodecEquations, NEW c \in Chunk, NEW r \in Seq(Chunk)
  PROVE  LET cs   == <<c>> \o r
             list == DecodeMany(c.arg, r)
             map  == DecodeMany(ValuesOfPairs(c.arg), r)
         IN  /\ c.kind \in {"+", "-", ",", "("} =>
                  Decode(cs) = Decoded(Text(c.kind, c.arg), r)
             /\ c.kind = ":" => Decode(cs) = Decoded(Integer(c.arg), r)
             /\ c.kind = "#" /\ c.arg \in {<<116>>, <<102>>} =>
                  Decode(cs) = Decoded(Bool(c.arg = <<116>>), r)
             /\ c.kind \in NullKinds /\ (c.kind # "_" => c.arg = -1) =>
                  Decode(cs) = Decoded(Null(c.kind), r)
             /\ c.kind \in {"$", "!"} => Decode(cs) = DecodeBulk(c.kind, c.arg, r)
             /\ c.kind = "=" => Decode(cs) = DecodeVerbatim(c.arg, r)
             /\ c.kind \in Lists /\ ~(c.arg < 0) =>
                  Decode(cs) = IF list.status # "ok" THEN list
                               ELSE Decoded(List(c.kind, list.value), list.rest)
             /\ c.kind = "%" /\ ~(c.arg < 0) =>
                  Decode(cs) = IF map.status # "ok" THEN map
                               ELSE Decoded(Map(Pairs(map.value)), map.rest)
<1>. DEFINE cs == <<c>> \o r
<1>1. cs \in Seq(Chunk) /\ cs # <<>> /\ cs[1] = c /\ Tail(cs) = r
  BY Cons
<1>2. Decode(cs) = Decoding(cs)
  BY <1>1 DEF CodecEquations
<1>. HIDE DEF cs
<1>. DEFINE list == DecodeMany(c.arg, r)
            map == DecodeMany(ValuesOfPairs(c.arg), r)
<1>3. /\ c.kind \in {"+", "-", ",", "("} =>
           Decode(cs) = Decoded(Text(c.kind, c.arg), r)
      /\ c.kind = ":" => Decode(cs) = Decoded(Integer(c.arg), r)
      /\ c.kind = "#" /\ c.arg \in {<<116>>, <<102>>} =>
           Decode(cs) = Decoded(Bool(c.arg = <<116>>), r)
      /\ c.kind \in NullKinds /\ (c.kind # "_" => c.arg = -1) =>
           Decode(cs) = Decoded(Null(c.kind), r)
      /\ c.kind \in {"$", "!"} => Decode(cs) = DecodeBulk(c.kind, c.arg, r)
      /\ c.kind = "=" => Decode(cs) = DecodeVerbatim(c.arg, r)
      /\ c.kind \in Lists /\ ~(c.arg < 0) =>
           Decode(cs) = IF list.status # "ok" THEN list
                        ELSE Decoded(List(c.kind, list.value), list.rest)
      /\ c.kind = "%" /\ ~(c.arg < 0) =>
           Decode(cs) = IF map.status # "ok" THEN map
                        ELSE Decoded(Map(Pairs(map.value)), map.rest)
  BY <1>1, <1>2, DecodingByKind
<1>. QED
  BY <1>3 DEF cs

\* A reply of one line.
LEMMA OneLine ==
  ASSUME CodecEquations, NEW v, NEW c \in Chunk, Encode(v) = <<c>>,
         \A t \in Seq(Chunk) : Decode(<<c>> \o t) = Decoded(v, t)
  PROVE  RoundTrips(v)
<1>1. Encode(v) \in Seq(Chunk)
  OBVIOUS
<1>2. \A p, q \in Seq(Chunk) : <<c>> = p \o q /\ q # <<>> => p = <<>>
  <2>. TAKE p, q \in Seq(Chunk)
  <2>1. Len(p \o q) = Len(p) + Len(q) /\ Len(p) \in Nat /\ Len(q) \in Nat
    OBVIOUS
  <2>2. q # <<>> => Len(q) # 0
    OBVIOUS
  <2>3. Len(<<c>>) = 1
    OBVIOUS
  <2>4. <<c>> = p \o q /\ q # <<>> => Len(p) = 0
    BY <2>1, <2>2, <2>3
  <2>. QED
    BY <2>4
<1>. QED
  BY <1>1, <1>2, NothingDecoded DEF RoundTrips

LEMMA SmallTexts ==
  /\ <<116>> \in Seq(Nat) /\ <<102>> \in Seq(Nat) /\ <<116>> # <<102>>
  /\ <<>> \in Seq(Nat) /\ -1 \in Int
<1>1. <<116>> # <<102>>
  OBVIOUS
<1>2. <<116>> \in Seq(Nat) /\ <<102>> \in Seq(Nat) /\ <<>> \in Seq(Nat) /\ -1 \in Int
  OBVIOUS
<1>. QED
  BY <1>1, <1>2

LEMMA Lines ==
  ASSUME CodecEquations, NEW v \in Replies,
         v.kind \in {"+", "-", ",", "("} \cup Atoms
  PROVE  RoundTrips(v)
<1>0. Encode(v) = Encoding(v)
  BY DEF CodecEquations
<1>1. CASE v.kind \in {"+", "-", ",", "("}
  <2>. DEFINE c == Line(v.kind, v.str)
  <2>1. v \in [kind : Scalars, str : Seq(Nat)]
    BY <1>1, KindOfReply DEF Scalars
  <2>2. c \in Chunk
    BY <2>1 DEF Chunk, Line
  <2>3. Encode(v) = <<c>>
    BY <1>0, <1>1 DEF Encoding, Lists
  <2>4. c.kind = v.kind /\ v = Text(c.kind, c.arg)
    BY <2>1 DEF Text, Line
  <2>. HIDE DEF c
  <2>5. \A t \in Seq(Chunk) : Decode(<<c>> \o t) = Decoded(v, t)
    BY <1>1, <2>2, <2>4, AfterHeader
  <2>. QED
    BY <2>2, <2>3, <2>5, OneLine
<1>2. CASE v.kind = ":"
  <2>. DEFINE c == Line(":", v.int)
  <2>1. v \in [kind : {":"}, int : Int]
    BY <1>2, KindOfReply
  <2>2. c \in Chunk
    BY <2>1 DEF Chunk, Line, Atoms
  <2>3. Encode(v) = <<c>>
    BY <1>0, <1>2 DEF Encoding, Lists
  <2>4. c.kind = ":" /\ v = Integer(c.arg)
    BY <2>1 DEF Integer, Line
  <2>. HIDE DEF c
  <2>5. \A t \in Seq(Chunk) : Decode(<<c>> \o t) = Decoded(v, t)
    BY <2>2, <2>4, AfterHeader
  <2>. QED
    BY <2>2, <2>3, <2>5, OneLine
<1>3. CASE v.kind = "#"
  <2>. DEFINE c == Line("#", IF v.bool THEN <<116>> ELSE <<102>>)
  <2>1. v \in [kind : {"#"}, bool : BOOLEAN]
    BY <1>3, KindOfReply
  <2>1a. <<116>> \in Seq(Nat) /\ <<102>> \in Seq(Nat) /\ <<116>> # <<102>>
    BY SmallTexts
  <2>2. c \in Chunk
    BY <2>1a DEF Chunk, Line, Atoms
  <2>3. Encode(v) = <<c>>
    BY <1>0, <1>3 DEF Encoding, Lists
  <2>4. c.kind = "#" /\ c.arg \in {<<116>>, <<102>>} /\ v = Bool(c.arg = <<116>>)
    <3>1. v.bool \in BOOLEAN /\ v = Bool(v.bool)
      BY <2>1 DEF Bool
    <3>2. c.arg = IF v.bool THEN <<116>> ELSE <<102>>
      BY DEF Line
    <3>3. (c.arg = <<116>>) = v.bool
      BY <2>1a, <3>1, <3>2
    <3>. QED
      BY <3>1, <3>2, <3>3 DEF Line
  <2>. HIDE DEF c
  <2>5. \A t \in Seq(Chunk) : Decode(<<c>> \o t) = Decoded(v, t)
    BY <2>2, <2>4, AfterHeader
  <2>. QED
    BY <2>2, <2>3, <2>5, OneLine
<1>4. CASE v.kind = "_"
  <2>. DEFINE c == Line(v.nullFrom, IF v.nullFrom = "_" THEN <<>> ELSE -1)
  <2>1. v \in [kind : {"_"}, nullFrom : NullKinds]
    BY <1>4, KindOfReply
  <2>2. c \in Chunk
    <3>1. <<>> \in Seq(Nat) /\ -1 \in Int
      BY SmallTexts
    <3>2. v.nullFrom \in Scalars \cup Lists \cup Atoms \cup {"%", "payload"}
      BY <2>1 DEF Atoms, Scalars, Lists, NullKinds
    <3>. QED
      BY <3>1, <3>2 DEF Chunk, Line
  <2>3. Encode(v) = <<c>>
    BY <1>0, <1>4 DEF Encoding, Lists
  <2>4. /\ c.kind \in NullKinds /\ v = Null(c.kind)
        /\ c.kind # "_" => c.arg = -1
    BY <2>1 DEF Null, Line
  <2>. HIDE DEF c
  <2>5. \A t \in Seq(Chunk) : Decode(<<c>> \o t) = Decoded(v, t)
    BY <2>2, <2>4, AfterHeader
  <2>. QED
    BY <2>2, <2>3, <2>5, OneLine
<1>. QED
  BY <1>1, <1>2, <1>3, <1>4 DEF Atoms

\* A bulk of text t under the leading byte k, as a plain or a bulk error.
LEMMA BulkChunks ==
  ASSUME NEW k \in {"$", "!", "="}, NEW t \in Seq(Nat)
  PROVE  /\ Line(k, Len(t)) \in Chunk /\ Line(k, Len(t)).kind = k
         /\ Line(k, Len(t)).arg = Len(t)
         /\ Payload(t) \in Chunk /\ Payload(t).arg = t
<1>1. Len(t) \in Int
  OBVIOUS
<1>2. k \in Scalars
  BY DEF Scalars
<1>. QED
  BY <1>1, <1>2 DEF Line, Payload, Chunk

LEMMA BulkRead ==
  ASSUME NEW k, NEW t \in Seq(Nat), NEW r \in Seq(Chunk)
  PROVE  /\ DecodeBulk(k, Len(t), <<>>) = Stopped("short")
         /\ DecodeBulk(k, Len(t), <<Payload(t)>> \o r) = Decoded(Text(k, t), r)
<1>1. Payload(t) \in Chunk /\ Payload(t).arg = t
  BY DEF Payload, Chunk
<1>2. /\ <<Payload(t)>> \o r # <<>>
      /\ (<<Payload(t)>> \o r)[1] = Payload(t)
      /\ Tail(<<Payload(t)>> \o r) = r
  BY <1>1, Cons
<1>3. ~(Len(t) < 0)
  OBVIOUS
<1>. QED
  BY <1>1, <1>2, <1>3 DEF DecodeBulk

\* A reply of a header and a payload, if the header's part of Decoding reads it.
LEMMA TwoChunks ==
  ASSUME CodecEquations, NEW v, NEW c \in Chunk, NEW d \in Chunk,
         Encode(v) = <<c, d>>,
         Decode(<<c>>) = Stopped("short"),
         \A t, u \in Seq(Chunk) :
           u = <<d>> \o t => Decode(<<c>> \o u) = Decoded(v, t)
  PROVE  RoundTrips(v)
<1>0. \A t, u \in Seq(Chunk) : u = <<d>> \o t => <<c, d>> \o t = <<c>> \o u
  BY TwoOne
<1>1. <<c, d>> \in Seq(Chunk)
  BY TwoOne
<1>2. \A t \in Seq(Chunk) : Decode(<<c, d>> \o t) = Decoded(v, t)
  <2>. TAKE t \in Seq(Chunk)
  <2>1. PICK u \in Seq(Chunk) : u = <<d>> \o t
    BY Cons
  <2>2. <<c, d>> \o t = <<c>> \o u
    BY <1>0, <2>1, Zenon
  <2>. QED
    BY <2>1, <2>2
<1>3. \A p, q \in Seq(Chunk) : <<c, d>> = p \o q /\ q # <<>> => p \in {<<>>, <<c>>}
  <2>. TAKE p, q \in Seq(Chunk)
  <2>1. Len(p \o q) = Len(p) + Len(q) /\ Len(p) \in Nat /\ Len(q) \in Nat
    OBVIOUS
  <2>2. q # <<>> => Len(q) # 0
    OBVIOUS
  <2>. DEFINE w == <<c, d>>
  <2>3. Len(w) = 2
    OBVIOUS
  <2>. HIDE DEF w
  <2>4. w = p \o q /\ q # <<>> => Len(p) = 0 \/ Len(p) = 1
    BY <2>1, <2>2, <2>3
  <2>5. ASSUME <<c, d>> = p \o q, Len(p) = 1 PROVE p = <<c>>
    <3>1. p # <<>> /\ p = <<p[1]>>
      BY <2>5, OneLong
    <3>2. <<d>> \in Seq(Chunk)
      OBVIOUS
    <3>3. IsCons(w, c, <<d>>) /\ IsCut(w, p, q)
      BY <2>5, TwoOne DEF w, IsCons, IsCut
    <3>4. p[1] = c
      BY <3>1, <3>2, <3>3, CutOfCons
    <3>. QED
      BY <3>1, <3>4
  <2>. QED
    BY <2>4, <2>5 DEF w
<1>. QED
  BY <1>1, <1>2, <1>3, NothingDecoded DEF RoundTrips

LEMMA Bulks ==
  ASSUME CodecEquations, NEW v \in Replies, v.kind \in {"$", "!"}
  PROVE  RoundTrips(v)
<1>. DEFINE c == Line(v.kind, Len(v.str))
            d == Payload(v.str)
<1>1. v \in [kind : Scalars, str : Seq(Nat)]
  BY KindOfReply DEF Scalars
<1>2. /\ c \in Chunk /\ c.kind = v.kind /\ c.arg = Len(v.str)
      /\ d \in Chunk /\ v = Text(v.kind, v.str)
  BY <1>1, BulkChunks DEF Text
<1>3. Encode(v) = <<c, d>>
  BY DEF CodecEquations, Encoding, Lists
<1>. HIDE DEF c
<1>4. \A r \in Seq(Chunk) : Decode(<<c>> \o r) = DecodeBulk(v.kind, Len(v.str), r)
  BY <1>2, AfterHeader
<1>5. Decode(<<c>>) = Stopped("short")
  <2>1. <<c>> = <<c>> \o <<>> /\ <<>> \in Seq(Chunk)
    BY <1>2
  <2>. QED
    BY <1>1, <1>4, <2>1, BulkRead
<1>6. \A t, u \in Seq(Chunk) :
        u = <<d>> \o t => Decode(<<c>> \o u) = Decoded(v, t)
  <2>. TAKE t, u \in Seq(Chunk)
  <2>1. u = <<d>> \o t =>
          DecodeBulk(v.kind, Len(v.str), u) = Decoded(Text(v.kind, v.str), t)
    BY <1>1, BulkRead
  <2>. QED
    BY <1>2, <1>4, <2>1
<1>. HIDE DEF d
<1>. QED
  BY <1>2, <1>3, <1>5, <1>6, TwoChunks

LEMMA VerbatimText ==
  ASSUME NEW t \in Seq(Nat), NEW x, x = <<116, 120, 116, 58>> \o t
  PROVE  /\ x \in Seq(Nat) /\ Len(x) >= 4 /\ x[4] = 58
         /\ SubSeq(x, 5, Len(x)) = t
<1>. DEFINE e == <<116, 120, 116, 58>>
<1>1. e \in Seq(Nat) /\ Len(e) = 4 /\ e[4] = 58
  OBVIOUS
<1>2. x = e \o t
  OBVIOUS
<1>. HIDE DEF e
<1>3. /\ x \in Seq(Nat) /\ Len(x) = 4 + Len(t) /\ Len(t) \in Nat
      /\ \A i \in 1..(4 + Len(t)) : x[i] = IF i <= 4 THEN e[i] ELSE t[i - 4]
  BY <1>1, <1>2, ConcatProperties
<1>4. x[4] = 58
  BY <1>1, <1>3
<1>5. \A i \in 5..Len(x) : x[i] \in Nat
  BY <1>3
<1>. DEFINE y == SubSeq(x, 5, Len(x))
<1>6. /\ y \in Seq(Nat)
      /\ Len(y) = IF 5 <= Len(x) THEN Len(x) - 5 + 1 ELSE 0
      /\ \A i \in 1..(Len(x) - 5 + 1) : y[i] = x[5 + i - 1]
  BY <1>3, <1>5, SubSeqProperties
<1>. HIDE DEF y
<1>7. Len(y) = Len(t)
  BY <1>3, <1>6
<1>8. \A i \in 1..Len(y) : y[i] = t[i]
  <2>. TAKE i \in 1..Len(y)
  <2>1. y[i] = x[i + 4] /\ i + 4 \in 1..(4 + Len(t)) /\ ~(i + 4 <= 4)
    BY <1>3, <1>6, <1>7
  <2>2. x[i + 4] = t[(i + 4) - 4] /\ (i + 4) - 4 = i
    BY <1>3, <2>1
  <2>. QED
    BY <2>1, <2>2
<1>9. y = t
  BY <1>6, <1>7, <1>8, SeqEqual
<1>. QED
  BY <1>3, <1>4, <1>9 DEF y

LEMMA Verbatims ==
  ASSUME CodecEquations, NEW v \in Replies, v.kind = "="
  PROVE  RoundTrips(v)
<1>. DEFINE x == <<116, 120, 116, 58>> \o v.str
            c == Line("=", Len(x))
            d == Payload(x)
<1>1. v \in [kind : Scalars, str : Seq(Nat)]
  BY KindOfReply DEF Scalars
<1>2. Encode(v) = <<c, d>>
  BY DEF CodecEquations, Encoding, Lists
<1>3. /\ x \in Seq(Nat) /\ Len(x) >= 4 /\ x[4] = 58
      /\ SubSeq(x, 5, Len(x)) = v.str
  BY <1>1, VerbatimText
<1>3a. x \in Seq(Nat)
  BY <1>3
<1>. HIDE DEF x
<1>4. c \in Chunk /\ c.kind = "=" /\ c.arg = Len(x) /\ d \in Chunk
  BY <1>3, BulkChunks
<1>. HIDE DEF c
<1>5. \A r \in Seq(Chunk) : Decode(<<c>> \o r) = DecodeVerbatim(Len(x), r)
  BY <1>4, AfterHeader
<1>6. Decode(<<c>>) = Stopped("short")
  <2>1. <<c>> = <<c>> \o <<>> /\ <<>> \in Seq(Chunk)
    BY <1>4
  <2>2. DecodeBulk("=", Len(x), <<>>) = Stopped("short")
    BY <1>3a, <2>1, BulkRead
  <2>. QED
    BY <1>5, <2>1, <2>2, Results DEF DecodeVerbatim
<1>7. \A t, u \in Seq(Chunk) :
        u = <<d>> \o t => Decode(<<c>> \o u) = Decoded(v, t)
  <2>. TAKE t, u \in Seq(Chunk)
  <2>1. u = <<d>> \o t => DecodeBulk("=", Len(x), u) = Decoded(Text("=", x), t)
    <3>1. DecodeBulk("=", Len(x), <<Payload(x)>> \o t) = Decoded(Text("=", x), t)
      BY <1>3a, BulkRead
    <3>. QED
      BY <3>1
  <2>2. ~LacksEncoding(x)
    BY <1>3 DEF LacksEncoding
  <2>3. u = <<d>> \o t =>
          DecodeVerbatim(Len(x), u) = Decoded(Text("=", SubSeq(x, 5, Len(x))), t)
    <3>1. Text("=", x).kind = "=" /\ Text("=", x).str = x
      BY DEF Text
    <3>. QED
      BY <2>1, <2>2, <3>1, Results DEF DecodeVerbatim
  <2>4. v = Text("=", v.str)
    BY <1>1 DEF Text
  <2>. QED
    BY <1>3, <1>5, <2>3, <2>4
<1>. HIDE DEF d
<1>. QED
  BY <1>2, <1>4, <1>6, <1>7, TwoChunks

-----------------------------------------------------------------------------
\* The members of a reply.

ManyRoundTrip(s) ==
  /\ EncodeMany(s) \in Seq(Chunk)
  /\ \A t \in Seq(Chunk) :
       DecodeMany(Len(s), EncodeMany(s) \o t) = Decoded(s, t)
  /\ \A p, q \in Seq(Chunk) :
       EncodeMany(s) = p \o q /\ q # <<>> =>
         DecodeMany(Len(s), p) = Stopped("short")

LEMMA NoMembers ==
  ASSUME CodecEquations
  PROVE  ManyRoundTrip(<<>>)
<1>1. <<>> \in Seq(Replies) /\ Len(<<>>) = 0 /\ <<>> \in Seq(Chunk)
  OBVIOUS
<1>2. EncodeMany(<<>>) = <<>>
  BY <1>1 DEF CodecEquations, EncodingMany
<1>3. \A c \in Seq(Chunk) : DecodeMany(0, c) = Decoded(<<>>, c)
  BY DEF CodecEquations, DecodingMany
<1>4. \A t \in Seq(Chunk) : <<>> \o t = t
  BY ConcatEmptySeq
<1>5. \A p, q \in Seq(Chunk) : <<>> = p \o q => q = <<>>
  BY ConcatSimplifications
<1>. QED
  BY <1>1, <1>2, <1>3, <1>4, <1>5 DEF ManyRoundTrip

\* One round of the loop of decodeAggregate and decodeMap.
LEMMA ManyStep ==
  ASSUME CodecEquations, NEW n \in Nat, n # 0, NEW c \in Seq(Chunk)
  PROVE  /\ Decode(c) = Stopped("short") => DecodeMany(n, c) = Stopped("short")
         /\ \A v, x :
              Decode(c) = Decoded(v, x) /\ DecodeMany(n - 1, x) = Stopped("short")
                => DecodeMany(n, c) = Stopped("short")
         /\ \A v, x, w, y :
              Decode(c) = Decoded(v, x) /\ DecodeMany(n - 1, x) = Decoded(w, y)
                => DecodeMany(n, c) = Decoded(<<v>> \o w, y)
<1>. DEFINE first == Decode(c)
            others == DecodeMany(n - 1, first.rest)
<1>1. DecodeMany(n, c) = IF first.status # "ok" THEN first
                         ELSE IF others.status # "ok" THEN others
                         ELSE Decoded(<<first.value>> \o others.value, others.rest)
  BY DEF CodecEquations, DecodingMany
<1>2. first = Stopped("short") => DecodeMany(n, c) = Stopped("short")
  BY <1>1, Results
<1>3. ASSUME NEW v, NEW x, first = Decoded(v, x)
      PROVE  first.status = "ok" /\ first.value = v /\ first.rest = x
  BY <1>3, Results
<1>4. ASSUME NEW v, NEW x, first = Decoded(v, x), DecodeMany(n - 1, x) = Stopped("short")
      PROVE  DecodeMany(n, c) = Stopped("short")
  BY <1>1, <1>3, <1>4, Results
<1>5. ASSUME NEW v, NEW x, NEW w, NEW y,
             first = Decoded(v, x), DecodeMany(n - 1, x) = Decoded(w, y)
      PROVE  DecodeMany(n, c) = Decoded(<<v>> \o w, y)
  <2>1. first.status = "ok" /\ first.value = v /\ others = Decoded(w, y)
    BY <1>3, <1>5
  <2>2. others.status = "ok" /\ others.value = w /\ others.rest = y
    BY <2>1, Results
  <2>. QED
    BY <1>1, <2>1, <2>2
<1>. QED
  BY <1>2, <1>4, <1>5

\* One member more.
LEMMA OneMore ==
  ASSUME CodecEquations, NEW s \in Seq(Replies), s # <<>>,
         RoundTrips(s[1]), ManyRoundTrip(Tail(s))
  PROVE  ManyRoundTrip(s)
<1>. DEFINE h == s[1]
            r == Tail(s)
            n == Len(s)
            eh == Encode(h)
            er == EncodeMany(r)
<1>1. /\ h \in Replies /\ Head(s) = h /\ r \in Seq(Replies)
      /\ n = Len(r) + 1 /\ s = <<h>> \o r
  BY HeadAndTail
<1>2. Len(r) \in Nat /\ n \in Nat /\ n # 0 /\ n - 1 = Len(r)
  BY <1>1
<1>3. EncodeMany(s) = eh \o er
  BY <1>1 DEF CodecEquations, EncodingMany
<1>4. /\ eh \in Seq(Chunk)
      /\ \A t \in Seq(Chunk) : Decode(eh \o t) = Decoded(h, t)
      /\ \A p, q \in Seq(Chunk) : eh = p \o q /\ q # <<>> => Decode(p) = Stopped("short")
  BY DEF RoundTrips
<1>5. /\ er \in Seq(Chunk)
      /\ \A t \in Seq(Chunk) : DecodeMany(Len(r), er \o t) = Decoded(r, t)
      /\ \A p, q \in Seq(Chunk) :
           er = p \o q /\ q # <<>> => DecodeMany(Len(r), p) = Stopped("short")
  BY DEF ManyRoundTrip
<1>5a. eh \in Seq(Chunk) /\ er \in Seq(Chunk)
  BY <1>4, <1>5
<1>6. \A c \in Seq(Chunk) :
        /\ Decode(c) = Stopped("short") => DecodeMany(n, c) = Stopped("short")
        /\ \A v, x :
             Decode(c) = Decoded(v, x) /\ DecodeMany(Len(r), x) = Stopped("short")
               => DecodeMany(n, c) = Stopped("short")
        /\ \A v, x, w, y :
             Decode(c) = Decoded(v, x) /\ DecodeMany(Len(r), x) = Decoded(w, y)
               => DecodeMany(n, c) = Decoded(<<v>> \o w, y)
  BY <1>2, ManyStep
<1>. HIDE DEF h, r, n, eh, er
<1>7. eh \o er \in Seq(Chunk)
  BY <1>4, <1>5, ConcatProperties
<1>8. ASSUME NEW t \in Seq(Chunk)
      PROVE  DecodeMany(n, (eh \o er) \o t) = Decoded(s, t)
  <2>. DEFINE u == er \o t
              c == eh \o u
  <2>1. u \in Seq(Chunk) /\ c \in Seq(Chunk) /\ (eh \o er) \o t = c
    BY <1>4, <1>5, ConcatProperties, ConcatAssociative
  <2>2. Decode(c) = Decoded(h, u)
    BY <1>4, <2>1
  <2>3. DecodeMany(Len(r), u) = Decoded(r, t)
    BY <1>5
  <2>. HIDE DEF u, c
  <2>4. DecodeMany(n, c) = Decoded(<<h>> \o r, t)
    BY <1>6, <2>1, <2>2, <2>3
  <2>. QED
    BY <1>1, <2>1, <2>4
<1>9. ASSUME NEW p \in Seq(Chunk), NEW q \in Seq(Chunk), eh \o er = p \o q, q # <<>>
      PROVE  DecodeMany(n, p) = Stopped("short")
  <2>1. CASE EndsWithin(Chunk, p, eh)
    <3>1. Decode(p) = Stopped("short")
      BY <1>4, <2>1 DEF EndsWithin
    <3>. QED
      BY <1>6, <3>1
  <2>2. CASE GoesBeyond(Chunk, p, q, eh, er)
    <3>1. PICK x \in Seq(Chunk) : p = eh \o x /\ er = x \o q
      BY <2>2 DEF GoesBeyond
    <3>2. Decode(p) = Decoded(h, x)
      BY <1>4, <3>1
    <3>3. DecodeMany(Len(r), x) = Stopped("short")
      BY <1>5, <1>9, <3>1
    <3>. QED
      BY <1>6, <3>2, <3>3
  <2>. QED
    BY <1>5a, <1>9, <2>1, <2>2, TwoCuts
<1>. QED
  BY <1>3, <1>7, <1>8, <1>9 DEF ManyRoundTrip, n

LEMMA ManyMembers ==
  ASSUME CodecEquations, NEW s \in Seq(Replies),
         \A i \in DOMAIN s : RoundTrips(s[i])
  PROVE  ManyRoundTrip(s)
<1>. DEFINE T == {n \in Nat : \A u \in Seq(Replies) :
                    Len(u) = n /\ (\A i \in DOMAIN u : RoundTrips(u[i]))
                      => ManyRoundTrip(u)}
<1>1. 0 \in T
  <2>1. \A u \in Seq(Replies) : Len(u) = 0 => u = <<>>
    BY EmptySeq
  <2>. QED
    BY <2>1, NoMembers
<1>2. ASSUME NEW n \in Nat, n \in T PROVE n + 1 \in T
  <2>1. n + 1 \in Nat
    OBVIOUS
  <2>2. SUFFICES ASSUME NEW u \in Seq(Replies), Len(u) = n + 1,
                        \A i \in DOMAIN u : RoundTrips(u[i])
                 PROVE  ManyRoundTrip(u)
    BY <2>1
  <2>3. u # <<>>
    BY <2>2, EmptySeq
  <2>4. /\ Tail(u) \in Seq(Replies) /\ Len(Tail(u)) = n
        /\ \A i \in 1..n : Tail(u)[i] = u[i + 1]
    BY <2>2, <2>3, HeadTailProperties
  <2>5. DOMAIN u = 1..(n + 1) /\ DOMAIN Tail(u) = 1..n
    BY <2>2, <2>4, LenProperties
  <2>6. \A i \in DOMAIN Tail(u) : RoundTrips(Tail(u)[i])
    BY <2>2, <2>4, <2>5
  <2>7. ManyRoundTrip(Tail(u))
    BY <1>2, <2>4, <2>6
  <2>8. RoundTrips(u[1])
    BY <2>2, <2>5
  <2>. QED
    BY <2>3, <2>7, <2>8, OneMore
<1>. HIDE DEF T
<1>3. Len(s) \in T
  BY <1>1, <1>2, CountUp
<1>. QED
  BY <1>3 DEF T

\* A reply of a header c and its members.
LEMMA HeaderAndMembers ==
  ASSUME CodecEquations, NEW v, NEW c \in Chunk, NEW s \in Seq(Replies),
         ManyRoundTrip(s),
         Encode(v) = <<c>> \o EncodeMany(s),
         \A r \in Seq(Chunk) :
           DecodeMany(Len(s), r) = Stopped("short") =>
             Decode(<<c>> \o r) = Stopped("short"),
         \A r, t \in Seq(Chunk) :
           DecodeMany(Len(s), r) = Decoded(s, t) =>
             Decode(<<c>> \o r) = Decoded(v, t)
  PROVE  RoundTrips(v)
<1>. DEFINE es == EncodeMany(s)
<1>1. /\ es \in Seq(Chunk)
      /\ \A t \in Seq(Chunk) : DecodeMany(Len(s), es \o t) = Decoded(s, t)
      /\ \A p, q \in Seq(Chunk) :
           es = p \o q /\ q # <<>> => DecodeMany(Len(s), p) = Stopped("short")
  BY DEF ManyRoundTrip
<1>2. Encode(v) = <<c>> \o es
  OBVIOUS
<1>3. es \in Seq(Chunk)
  BY <1>1
<1>. HIDE DEF es
<1>6. Encode(v) \in Seq(Chunk)
  <2>1. <<c>> \o es \in Seq(Chunk)
    BY <1>3, Cons
  <2>. QED
    BY <2>1, <1>2
<1>4. ASSUME NEW t \in Seq(Chunk) PROVE Decode(Encode(v) \o t) = Decoded(v, t)
  <2>1. <<c>> \in Seq(Chunk)
    OBVIOUS
  <2>2. es \o t \in Seq(Chunk)
    BY <1>1, ConcatProperties
  <2>3. Encode(v) \o t = <<c>> \o (es \o t)
    BY <1>1, <1>2, <2>1, ConcatAssociative
  <2>. QED
    BY <1>1, <2>2, <2>3
<1>5. ASSUME NEW p \in Seq(Chunk), NEW q \in Seq(Chunk), Encode(v) = p \o q, q # <<>>
      PROVE  Decode(p) = Stopped("short")
  <2>1. CASE p = <<>>
    BY <2>1, NothingDecoded
  <2>2. CASE p # <<>>
    <3>0. IsCons(Encode(v), c, es) /\ IsCut(Encode(v), p, q)
      BY <1>2, <1>5 DEF IsCons, IsCut
    <3>1. p[1] = c /\ Tail(p) \in Seq(Chunk) /\ IsCut(es, Tail(p), q)
      BY <1>3, <2>2, <3>0, CutOfCons
    <3>2. DecodeMany(Len(s), Tail(p)) = Stopped("short")
      BY <1>1, <1>5, <3>1 DEF IsCut
    <3>3. p = <<c>> \o Tail(p)
      BY <2>2, <3>1, HeadAndTail
    <3>. QED
      BY <3>1, <3>2, <3>3
  <2>. QED
    BY <2>1, <2>2
<1>. QED
  BY <1>6, <1>4, <1>5 DEF RoundTrips

LEMMA ListReplies ==
  ASSUME CodecEquations, NEW v \in Replies, v.kind \in Lists,
         \A i \in DOMAIN Members(v) : RoundTrips(Members(v)[i])
  PROVE  RoundTrips(v)
<1>. DEFINE s == v.elems
            c == Line(v.kind, Len(s))
<1>1. v \in [kind : Lists, elems : Seq(Replies)] /\ Members(v) = s
  BY KindOfReply DEF Members
<1>2. v = List(v.kind, s) /\ s \in Seq(Replies) /\ Len(s) \in Nat
  BY <1>1 DEF List
<1>3. Encode(v) = <<c>> \o EncodeMany(s)
  BY <1>1 DEF CodecEquations, Encoding, Lists
<1>4. c \in Chunk /\ c.kind = v.kind /\ c.arg = Len(s)
  <2>1. Len(s) \in Int
    BY <1>2
  <2>. QED
    BY <2>1 DEF Chunk, Line
<1>5. ManyRoundTrip(s)
  BY <1>1, <1>2, ManyMembers
<1>. HIDE DEF s, c
<1>6. ~(c.arg < 0)
  BY <1>2, <1>4
<1>7. \A r \in Seq(Chunk) :
        LET list == DecodeMany(Len(s), r)
        IN  Decode(<<c>> \o r) = IF list.status # "ok" THEN list
                                 ELSE Decoded(List(v.kind, list.value), list.rest)
  <2>. TAKE r \in Seq(Chunk)
  <2>. QED
    BY <1>4, <1>6, AfterHeader
<1>8. ASSUME NEW r \in Seq(Chunk), DecodeMany(Len(s), r) = Stopped("short")
      PROVE  Decode(<<c>> \o r) = Stopped("short")
  BY <1>7, <1>8, Results
<1>9. ASSUME NEW r \in Seq(Chunk), NEW t \in Seq(Chunk),
             DecodeMany(Len(s), r) = Decoded(s, t)
      PROVE  Decode(<<c>> \o r) = Decoded(v, t)
  BY <1>2, <1>7, <1>9, Results
<1>. QED
  BY <1>2, <1>3, <1>4, <1>5, <1>8, <1>9, HeaderAndMembers

\* The pairs of a map from its keys and values one after the other.
LEMMA PairsOfMembers ==
  ASSUME NEW S, NEW ps \in Seq(S \X S), NEW m,
         m = [i \in 1..(2 * Len(ps)) |-> ps[(i + 1) \div 2][2 - (i % 2)]]
  PROVE  Pairs(m) = ps
<1>. DEFINE n == Len(ps)
<1>1. n \in Nat /\ 2 * n \in Nat
  OBVIOUS
<1>2. m \in Seq(S)
  BY MapMembers
<1>3. DOMAIN m = 1..(2 * n) /\ Len(m) \in Nat /\ DOMAIN m = 1..Len(m)
  BY <1>2, LenProperties
<1>4. Len(m) = 2 * n
  BY <1>1, <1>3
<1>5. (2 * n) \div 2 = n
  BY <1>1
<1>6. ASSUME NEW i \in 1..n
      PROVE  /\ 2 * i - 1 \in 1..(2 * n) /\ 2 * i \in 1..(2 * n)
             /\ ((2 * i - 1) + 1) \div 2 = i /\ 2 - ((2 * i - 1) % 2) = 1
             /\ (2 * i + 1) \div 2 = i /\ 2 - ((2 * i) % 2) = 2
  BY <1>1, PairPlaces
<1>7. ASSUME NEW i \in 1..n
      PROVE  <<m[2 * i - 1], m[2 * i]>> = ps[i]
  <2>1. m[2 * i - 1] = ps[i][1]
    BY <1>6
  <2>2. m[2 * i] = ps[i][2]
    BY <1>6
  <2>3. ps[i] \in S \X S
    BY <1>1
  <2>. QED
    BY <2>1, <2>2, <2>3
<1>8. ps = [i \in 1..n |-> ps[i]]
  BY <1>1
<1>. HIDE DEF n
<1>9. Pairs(m) = [i \in 1..n |-> <<m[2 * i - 1], m[2 * i]>>]
  BY <1>4, <1>5 DEF Pairs
<1>. QED
  BY <1>7, <1>8, <1>9

LEMMA MapReplies ==
  ASSUME CodecEquations, NEW v \in Replies, v.kind = "%",
         \A i \in DOMAIN Members(v) : RoundTrips(Members(v)[i])
  PROVE  RoundTrips(v)
<1>. DEFINE s == Members(v)
            c == Line("%", Len(v.map))
<1>1. v \in [kind : {"%"}, map : Seq(Replies \X Replies)]
  BY KindOfReply
<1>2. /\ v = Map(v.map) /\ v.map \in Seq(Replies \X Replies)
      /\ Len(v.map) \in Nat
  BY <1>1 DEF Map
<1>3. Encode(v) = <<c>> \o EncodeMany(s)
  BY DEF CodecEquations, Encoding, Lists
<1>4. c \in Chunk /\ c.kind = "%" /\ c.arg = Len(v.map)
  <2>1. Len(v.map) \in Int
    BY <1>2
  <2>. QED
    BY <2>1 DEF Chunk, Line
<1>5. s \in Seq(Replies) /\ Len(s) = 2 * Len(v.map)
  BY MembersAreReplies
<1>6. ValuesOfPairs(c.arg) = Len(s)
  BY <1>4, <1>5 DEF ValuesOfPairs
<1>7. Pairs(s) = v.map
  BY <1>2, PairsOfMembers DEF Members, Lists
<1>8. ManyRoundTrip(s)
  BY <1>5, ManyMembers
<1>. HIDE DEF s, c
<1>9. ~(c.arg < 0)
  BY <1>2, <1>4
<1>10. \A r \in Seq(Chunk) :
         LET all == DecodeMany(Len(s), r)
         IN  Decode(<<c>> \o r) = IF all.status # "ok" THEN all
                                  ELSE Decoded(Map(Pairs(all.value)), all.rest)
  <2>. TAKE r \in Seq(Chunk)
  <2>. QED
    BY <1>4, <1>6, <1>9, AfterHeader
<1>11. ASSUME NEW r \in Seq(Chunk), DecodeMany(Len(s), r) = Stopped("short")
       PROVE  Decode(<<c>> \o r) = Stopped("short")
  BY <1>10, <1>11, Results
<1>12. ASSUME NEW r \in Seq(Chunk), NEW t \in Seq(Chunk),
              DecodeMany(Len(s), r) = Decoded(s, t)
       PROVE  Decode(<<c>> \o r) = Decoded(v, t)
  BY <1>2, <1>7, <1>10, <1>12, Results
<1>. QED
  BY <1>3, <1>4, <1>5, <1>8, <1>11, <1>12, HeaderAndMembers

-----------------------------------------------------------------------------
\* Whatever follows a reply on the wire, and however little of it has arrived,
\* decode.go returns the reply that was encoded and leaves what follows, or
\* waits: for a reply of any kind and any depth (decode.go:9-170).
THEOREM RepliesRoundTrip ==
  ASSUME CodecEquations
  PROVE  \A v \in Replies : RoundTrips(v)
<1>. DEFINE Good == {v \in Replies : RoundTrips(v)}
<1>1. ASSUME NEW v \in Replies,
             \A i \in DOMAIN Members(v) : Members(v)[i] \in Good
      PROVE  v \in Good
  <2>1. \A i \in DOMAIN Members(v) : RoundTrips(Members(v)[i])
    BY <1>1
  <2>2. v.kind \in Scalars \cup Lists \cup Atoms \cup {"%"}
    BY KindOfReply
  <2>3. CASE v.kind \in Lists
    BY <2>1, <2>3, ListReplies
  <2>4. CASE v.kind = "%"
    BY <2>1, <2>4, MapReplies
  <2>5. CASE v.kind = "="
    BY <2>5, Verbatims
  <2>6. CASE v.kind \in {"$", "!"}
    BY <2>6, Bulks
  <2>7. CASE v.kind \in {"+", "-", ",", "("} \cup Atoms
    BY <2>7, Lines
  <2>. QED
    BY <2>2, <2>3, <2>4, <2>5, <2>6, <2>7 DEF Scalars
<1>. HIDE DEF Good
<1>2. Replies \subseteq Good
  BY <1>1, DepthInduction
<1>. QED
  BY <1>2 DEF Good
=============================================================================
