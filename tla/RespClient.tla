----------------------------- MODULE RespClient -----------------------------
(***************************************************************************)
(* One connection of respwire/client.go to a server: Target.Client dials   *)
(* it and says HELLO, Do sends a command and decodes one reply.  A reply   *)
(* arrives in the chunks of RespCodec; the connection may stall or be cut  *)
(* after any of them.                                                      *)
(***************************************************************************)
EXTENDS RespCodec

CONSTANTS
  Answers,   \* what a server may answer a command with, for each protocol
  Greetings, \* and HELLO 3; the errors among them leave the connection at RESP2
  Commands   \* bound: how many commands a connection carries

ASSUME ClientAssumption ==
  /\ DOMAIN Answers = {2, 3}
  /\ Answers[2] \cup Answers[3] \cup Greetings \subseteq Replies
  /\ Commands \in Nat \ {0}

VARIABLES
  want,     \* the protocol the case wants
  state,    \* "new", "hello", "ready", "waiting" or "closed"
  asked,    \* the number of commands sent, HELLO included
  proto,    \* Client.proto
  results,  \* what Do has returned, with the number of the command
  wire,     \* the chunks that have arrived and are not consumed
  server    \* [sent, speaks, rest]: the answers, the protocol, unsent chunks

vars == <<want, state, asked, proto, results, wire, server>>

-----------------------------------------------------------------------------
Init ==
  /\ want \in {2, 3}
  /\ state = "new"
  /\ asked = 0
  /\ proto = 2
  /\ results = <<>>
  /\ wire = <<>>
  /\ server = [sent |-> <<>>, speaks |-> 2, rest |-> <<>>]

\* Target.Client: a server that is not reached leaves nothing to close.
Dial ==
  /\ state = "new"
  /\ state' \in {IF want = 3 THEN "hello" ELSE "ready", "closed"}
  /\ UNCHANGED <<want, asked, proto, results, wire, server>>

\* Do, up to the flush; Target.Client sends HELLO 3 first if the case is RESP3.
Send ==
  /\ state \in {"hello", "ready"}
  /\ asked < Commands
  /\ asked' = asked + 1
  /\ state' = "waiting"
  /\ UNCHANGED <<want, proto, results, wire, server>>

\* The server answers the next command it has received.
Answer ==
  /\ server.rest = <<>>
  /\ Len(server.sent) < asked
  /\ LET hello == want = 3 /\ server.sent = <<>>
     IN  \E v \in IF hello THEN Greetings ELSE Answers[server.speaks] :
           server' = [sent |-> Append(server.sent, v),
                      speaks |-> IF hello /\ ~IsError(v) THEN 3 ELSE server.speaks,
                      rest |-> Encode(v)]
  /\ UNCHANGED <<want, state, asked, proto, results, wire>>

Arrive ==
  /\ server.rest # <<>>
  /\ wire' = Append(wire, Head(server.rest))
  /\ server' = [server EXCEPT !.rest = Tail(server.rest)]
  /\ UNCHANGED <<want, state, asked, proto, results>>

IsHello == want = 3 /\ results = <<>>

\* Mutant: Hello returns the reply without looking at it.
AcceptsAny(v) == TRUE

Accepts(v) == ~IsError(v)

\* Mutant: the bytes of a reply are read again for the next command.
Unconsumed(d) == wire

Remaining(d) == d.rest

\* Do returns a reply; Hello fails on an error, and then Client closes.
Receive ==
  /\ state = "waiting"
  /\ LET d == Decode(wire)
     IN  /\ d.status = "ok"
         /\ wire' = Remaining(d)
         /\ results' = Append(results, [command |-> asked, reply |-> d.value])
         /\ IF ~IsHello THEN state' = "ready" /\ UNCHANGED proto
            ELSE IF Accepts(d.value) THEN state' = "ready" /\ proto' = 3
            ELSE state' = "closed" /\ UNCHANGED proto
  /\ UNCHANGED <<want, asked, server>>

\* Mutant: the case goes on after a call that failed.
GoesOn == "ready"

AfterFailure == "closed"

\* Do returns an error, at the deadline, when the connection is cut or on bytes
\* that are no reply; the reply may still come.  Whoever called Do closes the
\* client.
Fail ==
  /\ state = "waiting"
  /\ state' = AfterFailure
  /\ UNCHANGED <<want, asked, proto, results, wire, server>>

\* The case is over.
Close ==
  /\ state = "ready"
  /\ state' = "closed"
  /\ UNCHANGED <<want, asked, proto, results, wire, server>>

Next == Dial \/ Send \/ Answer \/ Arrive \/ Receive \/ Fail \/ Close

Spec == Init /\ [][Next]_vars

-----------------------------------------------------------------------------
\* Every variable has its type, and no server is behind or ahead by more than
\* the one command a client sends at a time.
TypeOK ==
  /\ want \in {2, 3} /\ proto \in {2, 3} /\ server.speaks \in {2, 3}
  /\ state \in {"new", "hello", "ready", "waiting", "closed"}
  /\ asked \in 0..Commands
  /\ asked - Len(server.sent) \in {0, 1}
  /\ asked - Len(results) \in {0, 1}

\* What Do returns for a command is exactly what the server answered to that
\* command: no reply is cut short, merged with the next one, changed by the way
\* it arrives, or taken for the reply to a later command when it is late
\* (client.go:11-14, decode.go:9-11, case.go:199-204).
InSync ==
  \A i \in DOMAIN results :
    /\ results[i].command \in DOMAIN server.sent
    /\ results[i].reply = server.sent[results[i].command]

\* Between two commands nothing is left of a reply, at the server, on the wire
\* or in the reader, so the next reply read is the next command's.
NothingUnread == state = "ready" => wire = <<>> /\ server.rest = <<>>

\* What has arrived of the replies of a correct server is never taken for
\* malformed, wherever it ends: decoding can only be short of chunks
\* (decode.go:17-106, 114-124).
NeverMalformed == Decode(wire).status # "malformed"

\* A case that wants RESP3 never runs a step on a RESP2 connection, and Proto
\* is what the server speaks (target.go:161-173, client.go:59-72).
SpeaksWhatWasWanted == state = "ready" => proto = want /\ server.speaks = want

-----------------------------------------------------------------------------
Replied == [i \in DOMAIN results |-> results[i].reply]

Calls == INSTANCE RequestReply
           WITH answered <- server.sent, returned <- Replied, open <- state # "closed"

\* Whatever way replies arrive, and wherever they are cut off, the calls on a
\* connection are those of a caller that is given the answers themselves: one
\* at a time, in order, none skipped, and none after one that failed
\* (client.go:47-57, case.go:199-204).
ImplementsRequestReply == Calls!Spec
=============================================================================
