---------------------------- MODULE RequestReply ----------------------------
(***************************************************************************)
(* What Client.Do promises its caller, without bytes, chunks, protocols or *)
(* deadlines: calls, one at a time, each of which returns the answer to    *)
(* its own command, the first time it is asked for, or gives the           *)
(* connection up for good.  The server may still answer the last command   *)
(* then; nobody is given that answer.                                      *)
(***************************************************************************)
EXTENDS Naturals, Sequences

CONSTANT Replies

VARIABLES
  asked,     \* the number of commands sent
  answered,  \* the server's answers, in the order of the commands
  returned,  \* what the calls have returned
  open       \* whether the caller may still use the connection

vars == <<asked, answered, returned, open>>

Init ==
  /\ asked = 0
  /\ answered = <<>>
  /\ returned = <<>>
  /\ open = TRUE

Ask ==
  /\ open
  /\ Len(returned) = asked
  /\ asked' = asked + 1
  /\ UNCHANGED <<answered, returned, open>>

Answer ==
  /\ Len(answered) < asked
  /\ \E v \in Replies : answered' = Append(answered, v)
  /\ UNCHANGED <<asked, returned, open>>

\* A caller that was refused the protocol it wants gives up with the answer.
Return ==
  /\ open
  /\ Len(returned) < Len(answered)
  /\ returned' = Append(returned, answered[Len(returned) + 1])
  /\ open' \in BOOLEAN
  /\ UNCHANGED <<asked, answered>>

GiveUp ==
  /\ open
  /\ open' = FALSE
  /\ UNCHANGED <<asked, answered, returned>>

Next == Ask \/ Answer \/ Return \/ GiveUp

Spec == Init /\ [][Next]_vars
=============================================================================
