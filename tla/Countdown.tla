------------------------------ MODULE Countdown ------------------------------
(***************************************************************************)
(* A case that gives a key a time to live and reads it back with TTL or    *)
(* PTTL: the runner asks the targets of a step one after the other, in any *)
(* order (it ranges over a map), while every server's clock runs on.       *)
(*                                                                         *)
(* A server rounds the time that is left to the unit of the reply.  The    *)
(* skew of a step, the time between its first call and its last, is what   *)
(* the code leaves open below its deadline of 5 s per call.                *)
(***************************************************************************)
EXTENDS IntTolerance

CONSTANTS
  Kinds, BaselineKind,
  Unit,      \* ticks of a clock in one unit of the reply: 1 for PTTL
  Lifetime,  \* in ticks
  Skew,      \* bound on the skew of a step
  Drifts,    \* by how many ticks a server may be wrong
  MaxNow     \* bound on the clock

ASSUME CountdownAssumption ==
  /\ BaselineKind \in Kinds
  /\ {Unit, Lifetime, MaxNow} \subseteq Nat \ {0}
  /\ Skew \in Nat
  /\ Drifts \subseteq Int

VARIABLES
  absolute,  \* EXAT or EX, EXPIREAT or EXPIRE
  drift,     \* a server's error
  now,
  step,      \* "set", "read" or "done"
  pending,   \* the targets the step has yet to ask
  skew,      \* ticks since the first call of the step
  deadline,  \* when a server lets the key expire
  reply

vars == <<absolute, drift, now, step, pending, skew, deadline, reply>>

Init ==
  /\ absolute \in BOOLEAN
  /\ drift \in [Kinds -> Drifts]
  /\ now = 0
  /\ step = "set"
  /\ pending = Kinds
  /\ skew = 0
  /\ deadline = [k \in Kinds |-> 0]
  /\ reply = [k \in Kinds |-> 0]

\* Time passes within a step and between two steps.
Tick ==
  /\ now < MaxNow
  /\ step # "done"
  /\ now' = now + 1
  /\ \/ pending = Kinds /\ UNCHANGED skew
     \/ pending # Kinds /\ skew < Skew /\ skew' = skew + 1
  /\ UNCHANGED <<absolute, drift, step, pending, deadline, reply>>

\* The loop over the targets goes on, or the loop over the steps does.
Asked(k, next) ==
  IF pending = {k}
  THEN pending' = Kinds /\ step' = next /\ skew' = 0
  ELSE pending' = pending \ {k} /\ UNCHANGED <<step, skew>>

SetExpiry(k) ==
  /\ step = "set" /\ k \in pending
  /\ deadline' = [deadline EXCEPT ![k] =
                    (IF absolute THEN 0 ELSE now) + Lifetime + drift[k]]
  /\ Asked(k, "read")
  /\ UNCHANGED <<absolute, drift, now, reply>>

\* TTL and PTTL: -2 once the key is gone, otherwise the time left, rounded.
TimeLeft(d) ==
  IF d <= now THEN -2 ELSE (d - now + Unit \div 2) \div Unit

ReadExpiry(k) ==
  /\ step = "read" /\ k \in pending
  /\ reply' = [reply EXCEPT ![k] = TimeLeft(deadline[k])]
  /\ Asked(k, "done")
  /\ UNCHANGED <<absolute, drift, now, deadline>>

Next == Tick \/ \E k \in Kinds : SetExpiry(k) \/ ReadExpiry(k)

Spec == Init /\ [][Next]_vars

-----------------------------------------------------------------------------
Distance(x, y) == IF x < y THEN y - x ELSE x - y

Matched(k) == IntApprox(reply[BaselineKind], reply[k])

\* Servers that are right agree with the baseline under ToleranceIntApprox,
\* in whatever order the two steps ask them, as long as the skews of the two
\* steps together stay within one unit of the reply (case.go:39-41, 194-225).
RightServersAgree ==
  step = "done" =>
    \A k \in Kinds : drift[k] = drift[BaselineKind] => Matched(k)

\* The same tolerance never hides a time to live that is off by three units: no
\* skew within a unit explains it away, above the baseline's or below it.
WrongServersAreCaught ==
  step = "done" =>
    \A k \in Kinds :
      Distance(drift[k], drift[BaselineKind]) >= 3 * Unit => ~Matched(k)

\* "It is for TTL and PTTL style replies that tick down between the two
\* calls." (case.go:40): of servers that are right none is reported.
PttlAgrees == step = "done" => \A k \in Kinds : Matched(k)
=============================================================================
