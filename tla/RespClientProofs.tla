-------------------------- MODULE RespClientProofs --------------------------
(***************************************************************************)
(* Proofs about RespClient, for any replies, of any depth and length, cut  *)
(* into chunks and delayed in any way: Do returns the reply to its own     *)
(* command or an error, and a case runs on the protocol it wants.          *)
(***************************************************************************)
EXTENDS RespClient, RespCodecProofs

Result == [command : Nat, reply : Replies]

Typed ==
  /\ want \in {2, 3} /\ proto \in {2, 3}
  /\ state \in {"new", "hello", "ready", "waiting", "closed"}
  /\ asked \in 0..Commands
  /\ results \in Seq(Result)
  /\ wire \in Seq(Chunk)
  /\ server \in [sent : Seq(Replies), speaks : {2, 3}, rest : Seq(Chunk)]

\* One command is under way while the client waits, or after a call of Do that
\* failed, and none otherwise.
Counted ==
  /\ asked - Len(server.sent) \in {0, 1}
  /\ asked - Len(results) \in {0, 1}
  /\ Len(results) <= Len(server.sent)
  /\ state \in {"new", "hello", "ready"} => Len(results) = asked
  /\ state = "waiting" => Len(results) < asked
  /\ state \in {"new", "hello"} => asked = 0
  /\ state = "hello" => want = 3

\* What is between the server and the client is the reply to the last command,
\* whole, or nothing once it was returned.
InFlight ==
  wire \o server.rest =
    IF Len(results) < Len(server.sent) THEN Encode(server.sent[Len(server.sent)])
    ELSE <<>>

Returned ==
  \A i \in DOMAIN results :
    results[i].command = i /\ results[i].reply = server.sent[i]

\* HELLO 3 is the first command, and was answered with no error; s is what was
\* answered, or returned, so far.
Agreed(s) == want = 3 /\ s # <<>> /\ ~IsError(server.sent[1])

Spoken ==
  /\ server.speaks = IF Agreed(server.sent) THEN 3 ELSE 2
  /\ proto = IF Agreed(results) THEN 3 ELSE 2
  /\ state = "ready" /\ want = 3 => Agreed(results)
  /\ state = "waiting" /\ want = 3 /\ results # <<>> => Agreed(results)

IInv == Typed /\ Counted /\ InFlight /\ Returned /\ Spoken

-----------------------------------------------------------------------------
\* An encoded reply is not empty: nothing decodes to no reply.
LEMMA EncodingNotEmpty ==
  ASSUME CodecEquations, NEW v \in Replies
  PROVE  Encode(v) \in Seq(Chunk) /\ Encode(v) # <<>>
<1>1. RoundTrips(v)
  BY RepliesRoundTrip
<1>2. Encode(v) \in Seq(Chunk)
  BY <1>1 DEF RoundTrips
<1>3. <<>> \in Seq(Chunk)
  OBVIOUS
<1>4. Decode(Encode(v) \o <<>>) = Decoded(v, <<>>)
  BY <1>1, <1>3 DEF RoundTrips
<1>5. Encode(v) = <<>> => Encode(v) \o <<>> = <<>>
  OBVIOUS
<1>6. Decode(<<>>).status # "ok"
  BY NothingDecoded, Results
<1>. QED
  BY <1>2, <1>4, <1>5, <1>6, Results

\* What has arrived is a whole reply, and decodes to it, or decoding waits.
LEMMA WhatArrived ==
  ASSUME CodecEquations, Typed, Counted, InFlight
  PROVE  \/ /\ Len(results) < Len(server.sent)
            /\ server.rest = <<>>
            /\ Decode(wire) = Decoded(server.sent[Len(server.sent)], <<>>)
         \/ Decode(wire) = Stopped("short")
<1>. DEFINE v == server.sent[Len(server.sent)]
<1>1. /\ wire \in Seq(Chunk) /\ server.rest \in Seq(Chunk)
      /\ server.sent \in Seq(Replies) /\ results \in Seq(Result)
  BY DEF Typed
<1>2. Len(results) \in Nat /\ Len(server.sent) \in Nat
  BY <1>1
<1>3. CASE Len(results) >= Len(server.sent)
  <2>1. wire \o server.rest = <<>>
    BY <1>2, <1>3 DEF InFlight
  <2>2. wire = <<>>
    BY <1>1, <2>1, ConcatProperties, EmptySeq
  <2>. QED
    BY <2>2, NothingDecoded
<1>4. CASE Len(results) < Len(server.sent)
  <2>1. v \in Replies /\ wire \o server.rest = Encode(v)
    BY <1>1, <1>2, <1>4 DEF InFlight
  <2>2. RoundTrips(v)
    BY <2>1, RepliesRoundTrip
  <2>. HIDE DEF v
  <2>3. CASE server.rest # <<>>
    <3>1. \A p, q \in Seq(Chunk) :
            Encode(v) = p \o q /\ q # <<>> => Decode(p) = Stopped("short")
      BY <2>2 DEF RoundTrips
    <3>. QED
      BY <1>1, <2>1, <2>3, <3>1
  <2>4. CASE server.rest = <<>>
    <3>1. wire \o <<>> = wire /\ <<>> \in Seq(Chunk)
      BY <1>1, ConcatEmptySeq
    <3>2. Encode(v) = wire
      BY <2>1, <2>4, <3>1
    <3>3. Decode(Encode(v) \o <<>>) = Decoded(v, <<>>)
      BY <2>2, <3>1 DEF RoundTrips
    <3>. QED
      BY <1>4, <2>4, <3>1, <3>2, <3>3 DEF v
  <2>. QED
    BY <2>3, <2>4
<1>. QED
  BY <1>2, <1>3, <1>4

-----------------------------------------------------------------------------
LEMMA InitIInv == Init => IInv
<1>. SUFFICES ASSUME Init PROVE IInv
  OBVIOUS
<1>. USE ClientAssumption DEF Init
<1>1. Typed
  BY DEF Typed
<1>2. Counted
  <2>1. Len(server.sent) = 0 /\ Len(results) = 0 /\ asked = 0 /\ state = "new"
    OBVIOUS
  <2>2. asked - 0 \in {0, 1}
    BY <2>1
  <2>. HIDE DEF Init
  <2>. QED
    BY <2>1, <2>2 DEF Counted
<1>3. InFlight
  BY DEF InFlight
<1>4. Returned
  BY DEF Returned
<1>5. Spoken
  BY DEF Spoken, Agreed
<1>. QED
  BY <1>1, <1>2, <1>3, <1>4, <1>5 DEF IInv

\* Only the state of the client changes.
LEMMA StateKeepsIInv == IInv /\ (Dial \/ Fail \/ Close) => IInv'
<1>. SUFFICES ASSUME IInv, Dial \/ Fail \/ Close PROVE IInv'
  OBVIOUS
<1>. USE DEF IInv, Dial, Fail, AfterFailure, Close
<1>1. Typed'
  BY DEF Typed
<1>2. Counted'
  BY DEF Counted
<1>3. InFlight'
  BY DEF InFlight
<1>4. Returned'
  BY DEF Returned
<1>5. Spoken'
  <2>1. state = "new" => results = <<>>
    BY DEF Typed, Counted
  <2>. QED
    BY <2>1 DEF Spoken, Agreed, Typed
<1>. QED
  BY <1>1, <1>2, <1>3, <1>4, <1>5 DEF IInv

LEMMA SendKeepsIInv == IInv /\ Send => IInv'
<1>. SUFFICES ASSUME IInv, Send PROVE IInv'
  OBVIOUS
<1>. USE ClientAssumption DEF IInv, Send
<1>1. Typed'
  BY DEF Typed
<1>2. Counted'
  BY DEF Counted, Typed
<1>3. InFlight'
  BY DEF InFlight
<1>4. Returned'
  BY DEF Returned
<1>5. Spoken'
  <2>1. state = "hello" => results = <<>>
    BY DEF Typed, Counted
  <2>. QED
    BY <2>1 DEF Spoken, Agreed
<1>. QED
  BY <1>1, <1>2, <1>3, <1>4, <1>5 DEF IInv

LEMMA AnswerKeepsIInv ==
  ASSUME CodecEquations, IInv, Answer
  PROVE  IInv'
<1>. USE ClientAssumption
<1>1. PICK v \in Replies :
        server' = [sent |-> Append(server.sent, v),
                   speaks |-> IF want = 3 /\ server.sent = <<>> /\ ~IsError(v)
                              THEN 3 ELSE server.speaks,
                   rest |-> Encode(v)]
  BY DEF Answer, IInv, Typed
<1>2. /\ server.rest = <<>> /\ Len(server.sent) < asked
      /\ UNCHANGED <<want, state, asked, proto, results, wire>>
  BY DEF Answer
<1>3. server.sent \in Seq(Replies) /\ results \in Seq(Result) /\ asked \in Nat
  BY DEF IInv, Typed
<1>4. /\ server'.sent \in Seq(Replies)
      /\ Len(server'.sent) = Len(server.sent) + 1
      /\ server'.sent[Len(server.sent) + 1] = v
      /\ \A i \in 1..Len(server.sent) : server'.sent[i] = server.sent[i]
      /\ Len(server.sent) \in Nat /\ Len(results) \in Nat
  BY <1>1, <1>3
<1>5. Encode(v) \in Seq(Chunk) /\ Encode(v) # <<>>
  BY EncodingNotEmpty
<1>6. Len(server.sent) = asked - 1 /\ Len(results) = Len(server.sent)
  BY <1>2, <1>3, <1>4 DEF IInv, Counted
<1>7. Typed'
  BY <1>1, <1>2, <1>4, <1>5 DEF IInv, Typed
<1>8. Counted'
  BY <1>2, <1>3, <1>4, <1>6 DEF IInv, Counted
<1>9. InFlight'
  <2>1. wire \in Seq(Chunk) /\ wire \o <<>> = <<>>
    BY <1>2, <1>6, <1>4 DEF IInv, Typed, InFlight
  <2>2. wire = <<>>
    BY <2>1, ConcatEmptySeq
  <2>3. wire' \o server'.rest = Encode(v)
    BY <1>1, <1>2, <1>5, <2>2, ConcatEmptySeq
  <2>. QED
    BY <1>2, <1>4, <1>6, <2>3 DEF InFlight
<1>10. Returned'
  BY <1>2, <1>3, <1>4, <1>6 DEF IInv, Returned
<1>11. Spoken'
  <2>1. server.sent = <<>> => results = <<>>
    BY <1>3, <1>6
  <2>2. server.sent # <<>> => server'.sent[1] = server.sent[1]
    BY <1>3, <1>4
  <2>3. server.sent = <<>> => server'.sent[1] = v
    BY <1>3, <1>4
  <2>4. server'.sent # <<>>
    BY <1>4
  <2>5. server'.speaks = IF want = 3 /\ server.sent = <<>> /\ ~IsError(v)
                         THEN 3 ELSE server.speaks
    BY <1>1
  <2>. QED
    BY <1>2, <2>1, <2>2, <2>3, <2>4, <2>5 DEF IInv, Spoken, Agreed
<1>. QED
  BY <1>7, <1>8, <1>9, <1>10, <1>11 DEF IInv

LEMMA ArriveKeepsIInv == IInv /\ Arrive => IInv'
<1>. SUFFICES ASSUME IInv, Arrive PROVE IInv'
  OBVIOUS
<1>. DEFINE r == server.rest
<1>1. /\ wire \in Seq(Chunk) /\ r \in Seq(Chunk) /\ r # <<>>
      /\ wire' = Append(wire, Head(r))
      /\ server' = [server EXCEPT !.rest = Tail(r)]
      /\ UNCHANGED <<want, state, asked, proto, results>>
      /\ server \in [sent : Seq(Replies), speaks : {2, 3}, rest : Seq(Chunk)]
  BY DEF IInv, Typed, Arrive
<1>2. /\ server'.sent = server.sent /\ server'.speaks = server.speaks
      /\ server'.rest = Tail(r)
  BY <1>1
<1>. HIDE DEF r
<1>3. /\ r[1] \in Chunk /\ Head(r) = r[1] /\ Tail(r) \in Seq(Chunk)
      /\ r = <<r[1]>> \o Tail(r)
  BY <1>1, HeadAndTail
<1>4. wire' \o Tail(r) = wire \o r
  <2>. DEFINE h == <<r[1]>>
              t == Tail(r)
  <2>1. h \in Seq(Chunk) /\ t \in Seq(Chunk) /\ wire' = wire \o h
    BY <1>1, <1>3
  <2>2. r = h \o t
    BY <1>3
  <2>. HIDE DEF h, t
  <2>3. wire \in Seq(Chunk) /\ h \in Seq(Chunk) /\ t \in Seq(Chunk)
    BY <1>1, <2>1
  <2>5. (wire \o h) \o t = wire \o (h \o t)
    BY <2>3, ConcatAssociative
  <2>4. wire' \o t = wire \o r
    BY <2>1, <2>2, <2>5
  <2>. QED
    BY <2>4 DEF t
<1>5. Typed'
  <2>1. wire' \in Seq(Chunk)
    BY <1>1, <1>3, AppendProperties
  <2>. QED
    BY <1>1, <1>3, <2>1 DEF IInv, Typed
<1>6. Counted'
  BY <1>1, <1>2 DEF IInv, Counted
<1>7. InFlight'
  BY <1>1, <1>2, <1>4 DEF IInv, InFlight, r
<1>8. Returned'
  BY <1>1, <1>2 DEF IInv, Returned
<1>9. Spoken'
  BY <1>1, <1>2 DEF IInv, Spoken, Agreed
<1>. QED
  BY <1>5, <1>6, <1>7, <1>8, <1>9 DEF IInv

LEMMA ReceiveKeepsIInv ==
  ASSUME CodecEquations, IInv, Receive
  PROVE  IInv'
<1>. USE ClientAssumption
<1>. DEFINE v == server.sent[Len(server.sent)]
<1>1. /\ state = "waiting" /\ Decode(wire).status = "ok"
      /\ wire' = Decode(wire).rest
      /\ results' = Append(results, [command |-> asked, reply |-> Decode(wire).value])
      /\ UNCHANGED <<want, asked, server>>
  BY DEF Receive, Remaining
<1>2. /\ Len(results) < Len(server.sent) /\ server.rest = <<>>
      /\ Decode(wire) = Decoded(v, <<>>)
  BY <1>1, WhatArrived, Results DEF IInv
<1>3. /\ wire' = <<>>
      /\ results' = Append(results, [command |-> asked, reply |-> v])
      /\ IF ~IsHello THEN state' = "ready" /\ UNCHANGED proto
         ELSE IF ~IsError(v) THEN state' = "ready" /\ proto' = 3
         ELSE state' = "closed" /\ UNCHANGED proto
  BY <1>1, <1>2, Results DEF Receive, Accepts
<1>4. /\ server.sent \in Seq(Replies) /\ results \in Seq(Result)
      /\ asked \in 0..Commands /\ asked \in Nat
      /\ Len(server.sent) \in Nat /\ Len(results) \in Nat
  BY DEF IInv, Typed
<1>5. /\ Len(server.sent) = asked /\ Len(results) = asked - 1
      /\ asked # 0
  BY <1>1, <1>2, <1>4 DEF IInv, Counted
<1>6. v \in Replies /\ v = server.sent[asked]
  BY <1>4, <1>5
<1>. HIDE DEF v
<1>7. /\ results' \in Seq(Result)
      /\ Len(results') = asked
      /\ results'[asked] = [command |-> asked, reply |-> v]
      /\ \A i \in 1..Len(results) : results'[i] = results[i]
  <2>. DEFINE e == [command |-> asked, reply |-> v]
  <2>1. e \in Result
    BY <1>4, <1>6 DEF Result
  <2>. HIDE DEF e
  <2>2. results' = Append(results, e)
    BY <1>3 DEF e
  <2>3. /\ results' \in Seq(Result)
        /\ Len(results') = asked
        /\ results'[asked] = e
        /\ \A i \in 1..Len(results) : results'[i] = results[i]
    BY <1>4, <1>5, <2>1, <2>2, AppendProperties
  <2>. QED
    BY <2>3 DEF e
<1>8. Typed'
  BY <1>1, <1>3, <1>7 DEF IInv, Typed
<1>9. Counted'
  BY <1>1, <1>3, <1>4, <1>5, <1>7 DEF IInv, Counted
<1>10. InFlight'
  BY <1>1, <1>2, <1>3, <1>5, <1>7 DEF InFlight
<1>11. Returned'
  BY <1>1, <1>4, <1>5, <1>6, <1>7 DEF IInv, Returned
<1>12. Spoken'
  <2>1. IsHello => v = server.sent[1]
    BY <1>4, <1>5, <1>6 DEF IsHello
  <2>2. results' # <<>> /\ server.sent # <<>>
    BY <1>4, <1>5, <1>7
  <2>. QED
    BY <1>1, <1>3, <2>1, <2>2 DEF IInv, Spoken, Agreed, IsHello, Typed
<1>. QED
  BY <1>8, <1>9, <1>10, <1>11, <1>12 DEF IInv

LEMMA NextKeepsIInv ==
  ASSUME CodecEquations
  PROVE  IInv /\ [Next]_vars => IInv'
<1>. SUFFICES ASSUME IInv, [Next]_vars PROVE IInv'
  OBVIOUS
<1>1. CASE Dial \/ Fail \/ Close
  BY <1>1, StateKeepsIInv
<1>2. CASE Send
  BY <1>2, SendKeepsIInv
<1>3. CASE Answer
  BY <1>3, AnswerKeepsIInv
<1>4. CASE Arrive
  BY <1>4, ArriveKeepsIInv
<1>5. CASE Receive
  BY <1>5, ReceiveKeepsIInv
<1>6. CASE UNCHANGED vars
  BY <1>6 DEF vars, IInv, Typed, Counted, InFlight, Returned, Spoken, Agreed
<1>. QED
  BY <1>1, <1>2, <1>3, <1>4, <1>5, <1>6 DEF Next

LEMMA Invariance ==
  ASSUME CodecEquations
  PROVE  Spec => []IInv
<1>1. Init => IInv
  BY InitIInv
<1>2. IInv /\ [Next]_vars => IInv'
  BY NextKeepsIInv
<1>. QED
  BY <1>1, <1>2, PTL DEF Spec

-----------------------------------------------------------------------------
\* Types, and at most one command under way (client.go:47-57).
THEOREM TypeCorrect ==
  ASSUME CodecEquations
  PROVE  Spec => []TypeOK
<1>1. IInv => TypeOK
  BY DEF IInv, Typed, Counted, TypeOK
<1>. QED
  BY <1>1, Invariance, PTL

\* What Do returns is the server's answer to the command Do sent, for replies of
\* any depth and any number of chunks (client.go:11-14, decode.go:9-11).
THEOREM RepliesInSync ==
  ASSUME CodecEquations
  PROVE  Spec => []InSync
<1>1. IInv => InSync
  <2>. SUFFICES ASSUME IInv, NEW i \in DOMAIN results
                PROVE  /\ results[i].command \in DOMAIN server.sent
                       /\ results[i].reply = server.sent[results[i].command]
    BY DEF InSync
  <2>1. server.sent \in Seq(Replies) /\ results \in Seq(Result)
    BY DEF IInv, Typed
  <2>2. Len(results) <= Len(server.sent)
    BY DEF IInv, Counted
  <2>3. i \in DOMAIN server.sent
    BY <2>1, <2>2
  <2>. QED
    BY <2>3 DEF IInv, Returned
<1>. QED
  BY <1>1, Invariance, PTL

\* Nothing is left of a reply when the next command is sent (client.go:47-57).
THEOREM NothingLeftUnread ==
  ASSUME CodecEquations
  PROVE  Spec => []NothingUnread
<1>1. IInv => NothingUnread
  <2>. SUFFICES ASSUME IInv, state = "ready"
                PROVE  wire = <<>> /\ server.rest = <<>>
    BY DEF NothingUnread
  <2>1. wire \in Seq(Chunk) /\ server.rest \in Seq(Chunk)
    BY DEF IInv, Typed
  <2>2. wire \o server.rest = <<>>
    BY DEF IInv, Typed, Counted, InFlight
  <2>. QED
    BY <2>1, <2>2, ConcatProperties, EmptySeq
<1>. QED
  BY <1>1, Invariance, PTL

\* No part of a correct server's replies is taken for malformed
\* (decode.go:17-106, 114-124).
THEOREM PartsAreNotMalformed ==
  ASSUME CodecEquations
  PROVE  Spec => []NeverMalformed
<1>1. IInv => NeverMalformed
  <2>1. Stopped("short").status # "malformed"
    BY DEF Stopped
  <2>2. \A v, r : Decoded(v, r).status # "malformed"
    BY DEF Decoded
  <2>. QED
    BY <2>1, <2>2, WhatArrived DEF IInv, NeverMalformed
<1>. QED
  BY <1>1, Invariance, PTL

\* A step runs on the protocol its case wants (target.go:161-173,
\* client.go:59-72).
THEOREM ProtocolAgreed ==
  ASSUME CodecEquations
  PROVE  Spec => []SpeaksWhatWasWanted
<1>1. IInv => SpeaksWhatWasWanted
  <2>1. state = "ready" /\ want = 3 /\ Typed /\ Counted /\ results # <<>> =>
          server.sent # <<>>
    BY DEF Typed, Counted
  <2>. QED
    BY <2>1 DEF IInv, Typed, Spoken, Agreed, SpeaksWhatWasWanted
<1>. QED
  BY <1>1, Invariance, PTL

-----------------------------------------------------------------------------
(***************************************************************************)
(* The refinement of RequestReply: the chunks, the protocol and the states *)
(* of a client disappear.                                                  *)
(***************************************************************************)

LEMMA RepliedType ==
  ASSUME Typed
  PROVE  /\ Replied \in Seq(Replies)
         /\ Len(Replied) = Len(results) /\ Len(results) \in Nat
<1>1. results \in Seq(Result)
  BY DEF Typed
<1>2. \A i \in 1..Len(results) : results[i] \in Result
  BY <1>1
<1>3. \A e \in Result : e.reply \in Replies
  BY DEF Result
<1>. QED
  BY <1>1, <1>2, <1>3 DEF Replied

LEMMA InitCalls == Init => Calls!Init
BY DEF Init, Calls!Init, Replied

\* Dialling and closing, and a call that fails, give up or go unnoticed.
LEMMA StateGivesUp ==
  ASSUME IInv, Dial \/ Fail \/ Close
  PROVE  Calls!GiveUp \/ UNCHANGED Calls!vars
<1>1. UNCHANGED <<asked, results, server>> /\ state # "closed"
  BY DEF Dial, Fail, Close
<1>2. Replied' = Replied
  BY <1>1 DEF Replied
<1>. QED
  BY <1>1, <1>2 DEF Calls!GiveUp, Calls!vars

LEMMA SendAsks ==
  ASSUME IInv, Send
  PROVE  Calls!Ask
<1>1. Replied' = Replied
  BY DEF Send, Replied
<1>2. Len(Replied) = asked
  BY RepliedType DEF IInv, Counted, Send
<1>. QED
  BY <1>1, <1>2 DEF Send, Calls!Ask

LEMMA AnswerAnswers ==
  ASSUME IInv, Answer
  PROVE  Calls!Answer
<1>1. PICK v \in Replies : server'.sent = Append(server.sent, v)
  BY ClientAssumption DEF Answer, IInv, Typed
<1>2. Replied' = Replied
  BY DEF Answer, Replied
<1>. QED
  BY <1>1, <1>2 DEF Answer, Calls!Answer

\* The reply that is decoded is the one answer that was not returned yet.
LEMMA ReceiveReturns ==
  ASSUME CodecEquations, IInv, Receive
  PROVE  Calls!Return
<1>. DEFINE n == Len(results) + 1
            v == server.sent[n]
<1>1. /\ state = "waiting" /\ Decode(wire).status = "ok"
      /\ results' = Append(results, [command |-> asked, reply |-> Decode(wire).value])
      /\ UNCHANGED <<asked, server>>
      /\ (state' # "closed") \in BOOLEAN
  BY DEF Receive
<1>2. /\ Len(results) < Len(server.sent)
      /\ Decode(wire).value = server.sent[Len(server.sent)]
  BY <1>1, WhatArrived, Results DEF IInv
<1>3. /\ results \in Seq(Result) /\ server.sent \in Seq(Replies) /\ asked \in Nat
      /\ Len(results) \in Nat /\ Len(server.sent) \in Nat
  BY ClientAssumption DEF IInv, Typed
<1>4. Len(server.sent) = n
  BY <1>2, <1>3 DEF IInv, Counted
<1>5. results' = Append(results, [command |-> asked, reply |-> v])
  BY <1>1, <1>2, <1>4
<1>6. Replied' = Append(Replied, v)
  <2>. DEFINE e == [command |-> asked, reply |-> v]
  <2>1. v \in Replies
    BY <1>3, <1>4
  <2>2. e \in Result /\ e.reply = v
    BY <1>3, <2>1 DEF Result
  <2>. HIDE DEF e, v
  <2>3. /\ results' \in Seq(Result) /\ Len(results') = n
        /\ results'[n] = e
        /\ \A i \in 1..Len(results) : results'[i] = results[i]
    BY <1>3, <1>5, <2>2, AppendProperties DEF e
  <2>4. Replied' = [i \in 1..n |-> results'[i].reply]
    BY <2>3 DEF Replied
  <2>5. Replied = [i \in 1..Len(results) |-> results[i].reply]
    BY <1>3 DEF Replied
  <2>6. Replied \in Seq(Replies) /\ Len(Replied) = Len(results)
    BY RepliedType DEF IInv
  <2>. DEFINE a == Append(Replied, v)
  <2>7. /\ a \in Seq(Replies) /\ Len(a) = n
        /\ a[n] = v
        /\ \A i \in 1..Len(results) : a[i] = Replied[i]
    BY <2>1, <2>6, AppendProperties
  <2>. HIDE DEF a
  <2>8. a = [i \in 1..n |-> a[i]]
    BY <2>7
  <2>9. ASSUME NEW i \in 1..n
        PROVE  results'[i].reply = a[i]
    <3>1. CASE i = n
      BY <2>2, <2>3, <2>7, <3>1
    <3>2. CASE i # n
      <4>1. i \in 1..Len(results)
        BY <1>3, <3>2
      <4>. QED
        BY <2>3, <2>5, <2>7, <4>1
    <3>. QED
      BY <3>1, <3>2
  <2>10. Replied' = a
    BY <2>4, <2>8, <2>9
  <2>. QED
    BY <2>10 DEF a
<1>7. Len(Replied) + 1 = n /\ Len(Replied) < Len(server.sent)
  BY <1>2, RepliedType DEF IInv
<1>. HIDE DEF n
<1>8. v = server.sent[Len(Replied) + 1]
  BY <1>7
<1>. QED
  BY <1>1, <1>6, <1>7, <1>8 DEF Calls!Return

\* The client, with its chunks, cuts, deadlines and protocols, implements a
\* caller that is given the answers themselves, one command at a time, and none
\* after a call that failed (client.go:47-57, case.go:199-204).
THEOREM Refinement ==
  ASSUME CodecEquations
  PROVE  Spec => ImplementsRequestReply
<1>1. Init => Calls!Init
  BY InitCalls
<1>2. IInv /\ [Next]_vars => [Calls!Next]_(Calls!vars)
  <2>. SUFFICES ASSUME IInv, [Next]_vars
                PROVE  Calls!Next \/ UNCHANGED Calls!vars
    OBVIOUS
  <2>1. CASE Dial \/ Fail \/ Close
    BY <2>1, StateGivesUp DEF Calls!Next
  <2>2. CASE Send
    BY <2>2, SendAsks DEF Calls!Next
  <2>3. CASE Answer
    BY <2>3, AnswerAnswers DEF Calls!Next
  <2>4. CASE Receive
    BY <2>4, ReceiveReturns DEF Calls!Next
  <2>5. CASE Arrive \/ UNCHANGED vars
    <3>1. UNCHANGED <<asked, results, state>> /\ server'.sent = server.sent
      BY <2>5 DEF Arrive, vars, IInv, Typed
    <3>. QED
      BY <3>1 DEF Calls!vars, Replied
  <2>. QED
    BY <2>1, <2>2, <2>3, <2>4, <2>5 DEF Next
<1>. QED
  BY <1>1, <1>2, Invariance, PTL DEF Spec, Calls!Spec, ImplementsRequestReply
=============================================================================
