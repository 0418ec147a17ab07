--------------------------- MODULE SuiteLifecycle ---------------------------
(***************************************************************************)
(* What a run of the suite promises of the servers it uses, without        *)
(* addresses, processes, directories or counts: they are acquired one      *)
(* after the other, kept as long as cases are compared, and released in    *)
(* reverse; the verdict is given once, before the first release; and a run *)
(* that is not interrupted ends with none.                                 *)
(***************************************************************************)
EXTENDS Naturals, Sequences, SequencesExt

CONSTANT Kinds

VARIABLES
  held,     \* the servers, in the order they were acquired
  phase,    \* "opening", "comparing", "closing" or "over"
  verdict   \* "none", "ok", "error", "skipped" or "killed"

vars == <<held, phase, verdict>>

Init ==
  /\ held = <<>>
  /\ phase = "opening"
  /\ verdict = "none"

Acquire ==
  /\ phase = "opening"
  /\ \E k \in Kinds \ ToSet(held) : held' = Append(held, k)
  /\ UNCHANGED <<phase, verdict>>

\* The server acquired last did not start.
Abandon ==
  /\ phase = "opening"
  /\ held # <<>>
  /\ held' = Front(held)
  /\ UNCHANGED <<phase, verdict>>

Begin ==
  /\ phase = "opening"
  /\ Len(held) >= 2
  /\ phase' = "comparing"
  /\ UNCHANGED <<held, verdict>>

GiveUp ==
  /\ phase = "opening"
  /\ Len(held) < 2
  /\ phase' = "closing"
  /\ verdict' \in {"error", "skipped"}
  /\ UNCHANGED held

Decide ==
  /\ phase = "comparing"
  /\ phase' = "closing"
  /\ verdict' \in {"ok", "error"}
  /\ UNCHANGED held

Release ==
  /\ phase = "closing"
  /\ held # <<>>
  /\ held' = Front(held)
  /\ UNCHANGED <<phase, verdict>>

End ==
  /\ phase = "closing"
  /\ held = <<>>
  /\ phase' = "over"
  /\ UNCHANGED <<held, verdict>>

Interrupt ==
  /\ phase # "over"
  /\ phase' = "over"
  /\ verdict' = "killed"
  /\ UNCHANGED held

Next ==
  \/ Acquire \/ Abandon \/ Begin \/ GiveUp
  \/ Decide \/ Release \/ End \/ Interrupt

Spec == Init /\ [][Next]_vars
=============================================================================
