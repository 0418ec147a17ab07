---------------------------- MODULE CountdownProofs ----------------------------
(***************************************************************************)
(* What ToleranceIntApprox does to a countdown, for any targets, unit,     *)
(* lifetime, skew and errors: it absorbs the skews of the two steps, if    *)
(* together they are at most one unit of the reply, and hides no error of  *)
(* three units.                                                            *)
(***************************************************************************)
EXTENDS Countdown, TLAPS

\* Where the subtraction does not overflow, the tolerance is the documented
\* one: the integers differ by at most one (case.go:39, 238-242).
THEOREM ApproxInRange ==
  ASSUME NEW x \in Ints, NEW y \in Ints, x - y \in Ints, x - y # -Half
  PROVE  IntApprox(x, y) <=> x - y \in {-1, 0, 1}
BY HalfAssumption DEF IntApprox, Difference, Wrap, Ints

\* Nothing expires while the case runs, and every reply is an integer of the
\* client.
Lasting ==
  \A d \in Drifts :
    /\ MaxNow < Lifetime + d
    /\ MaxNow + Lifetime + d + Unit < Half

\* A reply, of a key with deadline d, that was given at time t.
Left(d, t) == (d - t + Unit \div 2) \div Unit

\* How late a target was given the key, relative to the first instant.
Offset(k) == deadline[k] - Lifetime - drift[k]

TypeInv ==
  /\ absolute \in BOOLEAN
  /\ drift \in [Kinds -> Drifts]
  /\ now \in 0..MaxNow
  /\ step \in {"set", "read", "done"}
  /\ pending \subseteq Kinds
  /\ skew \in 0..Skew /\ skew <= now
  /\ pending = Kinds => skew = 0
  /\ deadline \in [Kinds -> Int]
  /\ reply \in [Kinds -> Int]

\* The targets that were given the key in the step that is going on.
SetInv ==
  step = "set" =>
    \A k \in Kinds \ pending :
      Offset(k) \in 0..now /\ (absolute => Offset(k) = 0)
        /\ (~absolute => now - skew <= Offset(k))

\* Once all were given it, the deadlines of right servers are within the skew.
DeadlineInv ==
  step # "set" =>
    \A k, j \in Kinds :
      Offset(k) \in 0..now /\ Offset(k) - Offset(j) <= Skew

\* Those that have answered did so within the skew of this step.
ReadInv ==
  step = "read" =>
    \A k \in Kinds \ pending :
      \E t \in (now - skew)..now : t >= 0 /\ reply[k] = Left(deadline[k], t)

ReplyInv ==
  step = "done" =>
    \A k, j \in Kinds :
      \E t, u \in 0..now :
        /\ t - u <= Skew /\ u - t <= Skew
        /\ reply[k] = Left(deadline[k], t)
        /\ reply[j] = Left(deadline[j], u)

IInv == TypeInv /\ SetInv /\ DeadlineInv /\ ReadInv /\ ReplyInv

-----------------------------------------------------------------------------
LEMMA Constants ==
  /\ Unit \in Nat \ {0} /\ Lifetime \in Nat \ {0} /\ MaxNow \in Nat \ {0}
  /\ Skew \in Nat /\ Drifts \subseteq Int /\ BaselineKind \in Kinds
BY CountdownAssumption

\* Division rounds down.
LEMMA Rounds ==
  ASSUME NEW u \in Nat \ {0}, NEW a \in Int
  PROVE  /\ a \div u \in Int
         /\ u * (a \div u) <= a
         /\ a < u * (a \div u) + u
OBVIOUS

LEMMA Ordered ==
  ASSUME NEW u \in Nat \ {0}, NEW p \in Int, NEW q \in Int, p <= q
  PROVE  u * p <= u * q
OBVIOUS

\* Times that differ by at most a unit are at most one apart in units, and at
\* least one if they differ by a unit.
LEMMA OneUnit ==
  ASSUME NEW u \in Nat \ {0}, NEW a \in Int, NEW b \in Int
  PROVE  /\ a - b <= u => a \div u - b \div u <= 1
         /\ a - b >= 2 * u => a \div u - b \div u >= 2
<1> DEFINE p == a \div u
           q == b \div u
<1>1. /\ p \in Int /\ u * p <= a /\ a < u * p + u
      /\ q \in Int /\ u * q <= b /\ b < u * q + u
  BY Rounds
<1> HIDE DEF p, q
<1>2. ASSUME a - b <= u, p - q > 1 PROVE FALSE
  <2>1. u * (q + 2) <= u * p
    BY <1>1, <1>2, Ordered
  <2>2. u * (q + 2) = u * q + 2 * u
    BY <1>1
  <2> QED
    BY <1>1, <1>2, <2>1, <2>2
<1>3. ASSUME a - b >= 2 * u, p - q < 2 PROVE FALSE
  <2>1. u * p <= u * (q + 1)
    BY <1>1, <1>3, Ordered
  <2>2. u * (q + 1) = u * q + u
    BY <1>1
  <2> QED
    BY <1>1, <1>3, <2>1, <2>2
<1>4. (a - b <= u => p - q <= 1) /\ (a - b >= 2 * u => p - q >= 2)
  BY <1>1, <1>2, <1>3
<1> QED
  BY <1>4 DEF p, q
\* What is known of one target.
LEMMA OfTarget ==
  ASSUME TypeInv, NEW k \in Kinds
  PROVE  /\ drift[k] \in Drifts /\ drift[k] \in Int
         /\ deadline[k] \in Int
         /\ Offset(k) \in Int /\ deadline[k] = Offset(k) + Lifetime + drift[k]
<1>1. drift[k] \in Drifts /\ deadline[k] \in Int
  BY DEF TypeInv
<1>2. \A d \in Drifts : d \in Int
  BY Constants
<1>3. drift[k] \in Int
  BY <1>1, <1>2
<1>4. Lifetime \in Int
  BY Constants
<1> QED
  BY <1>1, <1>3, <1>4 DEF Offset

-----------------------------------------------------------------------------
LEMMA InitIInv == Init => IInv
<1> SUFFICES ASSUME Init PROVE IInv
  OBVIOUS
<1>1. TypeInv
  BY Constants DEF Init, TypeInv
<1> QED
  BY <1>1 DEF Init, IInv, SetInv, DeadlineInv, ReadInv, ReplyInv

LEMMA TickKeepsIInv == IInv /\ Tick => IInv'
<1> SUFFICES ASSUME IInv, Tick PROVE IInv'
  OBVIOUS
<1>1. /\ now \in Nat /\ now < MaxNow /\ now' = now + 1 /\ step # "done"
      /\ UNCHANGED <<absolute, drift, step, pending, deadline, reply>>
      /\ skew \in Nat /\ skew <= now /\ skew <= Skew
      /\ \/ pending = Kinds /\ skew' = skew
         \/ pending # Kinds /\ skew < Skew /\ skew' = skew + 1
  BY Constants DEF Tick, IInv, TypeInv
<1>2. TypeInv'
  BY <1>1, Constants DEF IInv, TypeInv
<1>3. \A k \in Kinds : Offset(k) \in Int /\ Offset(k)' = Offset(k)
  <2>1. \A k \in Kinds : Offset(k) \in Int
    BY OfTarget DEF IInv
  <2> QED
    BY <1>1, <2>1 DEF Offset
<1>4. pending # Kinds => now' - skew' = now - skew
  BY <1>1, Constants
<1>5. pending = Kinds => Kinds \ pending = {}
  OBVIOUS
<1>6. SetInv'
  BY <1>1, <1>3, <1>4, <1>5, Constants DEF IInv, SetInv
<1>7. DeadlineInv'
  BY <1>1, <1>3, Constants DEF IInv, DeadlineInv
<1>8. ReadInv'
  <2> SUFFICES ASSUME step = "read", NEW k \in Kinds \ pending
      PROVE  \E t \in (now' - skew')..now' : t >= 0 /\ reply[k] = Left(deadline[k], t)
    BY <1>1 DEF ReadInv, Left
  <2>1. PICK t \in (now - skew)..now : t >= 0 /\ reply[k] = Left(deadline[k], t)
    BY DEF IInv, ReadInv
  <2>2. t \in (now' - skew')..now'
    BY <1>1, <1>4, <1>5, Constants
  <2> QED
    BY <2>1, <2>2
<1>9. ReplyInv'
  BY <1>1 DEF ReplyInv
<1> QED
  BY <1>2, <1>6, <1>7, <1>8, <1>9 DEF IInv

\* A step asks one target more, or was at its last.
LEMMA AskedOne ==
  ASSUME TypeInv, NEW k \in pending, NEW next, Asked(k, next)
  PROVE  /\ pending' \subseteq Kinds
         /\ skew' \in 0..skew
         /\ pending' = Kinds => skew' = 0
         /\ \/ pending = {k} /\ step' = next /\ Kinds \ pending' = {}
            \/ /\ step' = step /\ skew' = skew
               /\ Kinds \ pending' = (Kinds \ pending) \cup {k}
<1>1. skew \in Nat /\ k \in Kinds
  BY Constants DEF TypeInv
<1> QED
  BY <1>1 DEF Asked, TypeInv

LEMMA SetKeepsIInv ==
  ASSUME IInv, NEW k \in Kinds, SetExpiry(k)
  PROVE  IInv'
<1>1. /\ step = "set" /\ k \in pending /\ Asked(k, "read")
      /\ UNCHANGED <<absolute, drift, now, reply>>
  BY DEF SetExpiry
<1>2. /\ now \in Nat /\ now <= MaxNow /\ skew \in Nat /\ skew <= now /\ skew <= Skew
      /\ drift[k] \in Int /\ deadline \in [Kinds -> Int]
  BY Constants, OfTarget DEF IInv, TypeInv
<1>3. /\ deadline' \in [Kinds -> Int]
      /\ deadline'[k] = (IF absolute THEN 0 ELSE now) + Lifetime + drift[k]
      /\ \A j \in Kinds \ {k} : deadline'[j] = deadline[j]
  BY <1>2, Constants DEF SetExpiry
<1>4. /\ pending' \subseteq Kinds /\ skew' \in 0..skew
      /\ pending' = Kinds => skew' = 0
      /\ \/ pending = {k} /\ step' = "read" /\ Kinds \ pending' = {}
         \/ /\ step' = "set" /\ skew' = skew
            /\ Kinds \ pending' = (Kinds \ pending) \cup {k}
  BY <1>1, AskedOne DEF IInv
<1>5. TypeInv'
  BY <1>1, <1>2, <1>3, <1>4, Constants DEF IInv, TypeInv
<1>6. /\ Offset(k)' = IF absolute THEN 0 ELSE now
      /\ \A j \in Kinds \ {k} : Offset(j)' = Offset(j)
  <2>1. Offset(k)' = deadline'[k] - Lifetime - drift[k]
    BY <1>1 DEF Offset
  <2>2. Offset(k)' = IF absolute THEN 0 ELSE now
    BY <1>2, <1>3, <2>1, Constants
  <2> QED
    BY <1>1, <1>3, <2>2 DEF Offset
<1>7. \A j \in (Kinds \ pending) \cup {k} :
        /\ Offset(j)' \in 0..now /\ (absolute => Offset(j)' = 0)
        /\ (~absolute => now - skew <= Offset(j)')
  <2>1. CASE absolute
    BY <1>1, <1>2, <1>6, <2>1 DEF IInv, SetInv
  <2>2. CASE ~absolute
    BY <1>1, <1>2, <1>6, <2>2 DEF IInv, SetInv
  <2> QED
    BY <2>1, <2>2
<1>8. SetInv'
  BY <1>1, <1>4, <1>7 DEF SetInv
<1>9. DeadlineInv'
  <2> SUFFICES ASSUME step' # "set", NEW i \in Kinds, NEW j \in Kinds
      PROVE  Offset(i)' \in 0..now' /\ Offset(i)' - Offset(j)' <= Skew
    BY DEF DeadlineInv
  <2>1. Kinds \subseteq (Kinds \ pending) \cup {k}
    BY <1>4
  <2>2. /\ Offset(i)' \in 0..now /\ (absolute => Offset(i)' = 0)
        /\ Offset(j)' \in 0..now /\ (absolute => Offset(j)' = 0)
        /\ (~absolute => now - skew <= Offset(j)')
    BY <1>7, <2>1
  <2>3. Offset(i)' - Offset(j)' <= Skew
    <3> DEFINE x == Offset(i)'
               y == Offset(j)'
    <3>1. x \in 0..now /\ y \in 0..now /\ (absolute => x = 0 /\ y = 0)
          /\ (~absolute => now - skew <= y)
      BY <2>2
    <3> HIDE DEF x, y
    <3>2. x - y <= Skew
      BY <1>2, <3>1, Constants
    <3> QED
      BY <3>2 DEF x, y
  <2> QED
    BY <1>1, <2>2, <2>3
<1>10. ReadInv' /\ ReplyInv'
  BY <1>1, <1>4 DEF ReadInv, ReplyInv
<1> QED
  BY <1>5, <1>8, <1>9, <1>10 DEF IInv

LEMMA ReadKeepsIInv ==
  ASSUME Lasting, IInv, NEW k \in Kinds, ReadExpiry(k)
  PROVE  IInv'
<1>1. /\ step = "read" /\ k \in pending /\ Asked(k, "done")
      /\ reply' = [reply EXCEPT ![k] = TimeLeft(deadline[k])]
      /\ UNCHANGED <<absolute, drift, now, deadline>>
  BY DEF ReadExpiry
<1>2. /\ now \in Nat /\ now <= MaxNow /\ skew \in Nat /\ skew <= now /\ skew <= Skew
      /\ drift[k] \in Drifts /\ deadline[k] \in Int /\ reply \in [Kinds -> Int]
  BY Constants DEF IInv, TypeInv
<1>3. now < deadline[k]
  <2>1. Offset(k) \in 0..now /\ MaxNow < Lifetime + drift[k]
    BY <1>1, <1>2 DEF IInv, DeadlineInv, Lasting
  <2> QED
    BY <1>2, <2>1, Constants, OfTarget DEF IInv
<1>4. TimeLeft(deadline[k]) = Left(deadline[k], now)
  BY <1>2, <1>3 DEF TimeLeft, Left
<1>5. Left(deadline[k], now) \in Int
  <2>1. Unit \div 2 \in Int
    BY Constants
  <2>2. deadline[k] - now + Unit \div 2 \in Int
    BY <1>2, <2>1
  <2> QED
    BY <2>2, Rounds, Constants DEF Left
<1>6. /\ pending' \subseteq Kinds /\ skew' \in 0..skew
      /\ pending' = Kinds => skew' = 0
      /\ \/ pending = {k} /\ step' = "done" /\ Kinds \ pending' = {}
         \/ /\ step' = "read" /\ skew' = skew
            /\ Kinds \ pending' = (Kinds \ pending) \cup {k}
  BY <1>1, AskedOne DEF IInv
<1>7. TypeInv'
  BY <1>1, <1>2, <1>4, <1>5, <1>6, Constants DEF IInv, TypeInv
<1>8. SetInv' /\ DeadlineInv'
  BY <1>1, <1>6 DEF IInv, SetInv, DeadlineInv, Offset
<1>9. \A j \in (Kinds \ pending) \cup {k} :
        \E t \in (now - skew)..now : t >= 0 /\ reply'[j] = Left(deadline[j], t)
  <2>1. now \in (now - skew)..now /\ now >= 0
    BY <1>2
  <2>2. reply'[k] = Left(deadline[k], now)
    BY <1>1, <1>2, <1>4
  <2>3. \A j \in Kinds \ pending : reply'[j] = reply[j]
    BY <1>1, <1>2
  <2> QED
    BY <1>1, <2>1, <2>2, <2>3 DEF IInv, ReadInv
<1>10. ReadInv'
  <2> SUFFICES ASSUME step' = "read", NEW j \in Kinds \ pending'
      PROVE  \E t \in (now - skew')..now : t >= 0 /\ reply'[j] = Left(deadline[j], t)
    BY <1>1 DEF ReadInv, Left
  <2> QED
    BY <1>6, <1>9
<1>11. ReplyInv'
  <2> SUFFICES ASSUME step' = "done", NEW i \in Kinds, NEW j \in Kinds
      PROVE  \E t, u \in 0..now :
               /\ t - u <= Skew /\ u - t <= Skew
               /\ reply'[i] = Left(deadline[i], t)
               /\ reply'[j] = Left(deadline[j], u)
    BY <1>1 DEF ReplyInv, Left
  <2>1. i \in (Kinds \ pending) \cup {k} /\ j \in (Kinds \ pending) \cup {k}
    BY <1>6
  <2>2. PICK t \in (now - skew)..now : t >= 0 /\ reply'[i] = Left(deadline[i], t)
    BY <1>9, <2>1
  <2>3. PICK u \in (now - skew)..now : u >= 0 /\ reply'[j] = Left(deadline[j], u)
    BY <1>9, <2>1
  <2>4. t \in 0..now /\ u \in 0..now /\ t - u <= Skew /\ u - t <= Skew
    BY <1>2, <2>2, <2>3, Constants
  <2> QED
    BY <2>2, <2>3, <2>4
<1> QED
  BY <1>7, <1>8, <1>10, <1>11 DEF IInv

LEMMA Inductive ==
  ASSUME Lasting
  PROVE  Spec => []IInv
<1>1. IInv /\ [Next]_vars => IInv'
  <2> SUFFICES ASSUME IInv, [Next]_vars PROVE IInv'
    OBVIOUS
  <2>1. CASE UNCHANGED vars
    BY <2>1 DEF vars, IInv, TypeInv, SetInv, DeadlineInv, ReadInv, ReplyInv,
                Offset, Left
  <2> QED
    BY <2>1, TickKeepsIInv, SetKeepsIInv, ReadKeepsIInv DEF Next
<1> QED
  BY <1>1, InitIInv, PTL DEF Spec

-----------------------------------------------------------------------------
\* Two replies are times, in units, that differ by the servers' errors up to
\* the skews of the two steps.
LEMMA Replies ==
  ASSUME Lasting, IInv, step = "done", NEW k \in Kinds, NEW j \in Kinds
  PROVE  \E a, b \in Nat :
           /\ a < Half /\ b < Half
           /\ reply[k] = a \div Unit /\ reply[j] = b \div Unit
           /\ a - b <= drift[k] - drift[j] + 2 * Skew
           /\ b - a <= drift[j] - drift[k] + 2 * Skew
<1>1. PICK t, u \in 0..now :
        /\ t - u <= Skew /\ u - t <= Skew
        /\ reply[k] = Left(deadline[k], t)
        /\ reply[j] = Left(deadline[j], u)
  BY DEF IInv, ReplyInv
<1> DEFINE h == Unit \div 2
           a == deadline[k] - t + h
           b == deadline[j] - u + h
<1>2. h \in Nat /\ h <= Unit
  BY Constants
<1>3. /\ Offset(k) \in 0..now /\ Offset(j) \in 0..now
      /\ Offset(k) - Offset(j) <= Skew /\ Offset(j) - Offset(k) <= Skew
  BY DEF IInv, DeadlineInv
<1>4. /\ now \in Nat /\ now <= MaxNow
      /\ drift[k] \in Drifts /\ drift[j] \in Drifts
      /\ drift[k] \in Int /\ drift[j] \in Int
      /\ deadline[k] \in Int /\ deadline[j] \in Int
  BY Constants, OfTarget DEF IInv, TypeInv
<1>5. /\ MaxNow < Lifetime + drift[k] /\ MaxNow + Lifetime + drift[k] + Unit < Half
      /\ MaxNow < Lifetime + drift[j] /\ MaxNow + Lifetime + drift[j] + Unit < Half
  BY <1>4 DEF Lasting
<1>6. /\ deadline[k] = Offset(k) + Lifetime + drift[k]
      /\ deadline[j] = Offset(j) + Lifetime + drift[j]
  BY OfTarget DEF IInv
<1> HIDE DEF h
<1>7. a \in Nat /\ a < Half /\ b \in Nat /\ b < Half
  BY <1>2, <1>3, <1>4, <1>5, <1>6, Constants, HalfAssumption
<1>8. /\ a - b <= drift[k] - drift[j] + 2 * Skew
      /\ b - a <= drift[j] - drift[k] + 2 * Skew
  BY <1>1, <1>2, <1>3, <1>4, <1>6, Constants
<1>9. reply[k] = a \div Unit /\ reply[j] = b \div Unit
  BY <1>1 DEF Left, h
<1> QED
  BY <1>7, <1>8, <1>9

\* Of two times below Half the tolerance accepts exactly those one unit apart.
LEMMA AcceptsOneUnit ==
  ASSUME NEW u \in Nat \ {0}, NEW a \in Nat, NEW b \in Nat, a < Half, b < Half
  PROVE  /\ a \div u \in Int /\ b \div u \in Int
         /\ IntApprox(a \div u, b \div u) <=> a \div u - b \div u \in {-1, 0, 1}
<1>1. \A c \in Nat : c < Half => c \div u \in 0..(Half - 1)
  <2> SUFFICES ASSUME NEW c \in Nat, c < Half PROVE c \div u \in 0..(Half - 1)
    OBVIOUS
  <2> DEFINE q == c \div u
  <2>1. q \in Int /\ u * q <= c /\ c < u * q + u
    BY Rounds
  <2> HIDE DEF q
  <2>2. q >= 0
    <3> SUFFICES ASSUME q <= -1 PROVE FALSE
      BY <2>1
    <3>1. u * q <= u * (-1)
      BY <2>1, Ordered
    <3> QED
      BY <2>1, <3>1
  <2>3. q <= u * q
    BY <2>1, <2>2
  <2>4. q \in 0..(Half - 1)
    BY <2>1, <2>2, <2>3, HalfAssumption
  <2> QED
    BY <2>4 DEF q
<1> DEFINE x == a \div u
           y == b \div u
<1>2. x \in 0..(Half - 1) /\ y \in 0..(Half - 1)
  BY <1>1
<1> HIDE DEF x, y
<1>3. x \in Ints /\ y \in Ints /\ x - y \in Ints /\ x - y # -Half
  BY <1>2, HalfAssumption DEF Ints
<1>4. x \in Int /\ y \in Int /\ (IntApprox(x, y) <=> x - y \in {-1, 0, 1})
  BY <1>2, <1>3, ApproxInRange, HalfAssumption
<1> QED
  BY <1>4 DEF x, y

\* Servers that are right agree with the baseline, in whatever order they are
\* asked, if the skews of the two steps are at most half a unit each
\* (case.go:39-41, 194-225).
THEOREM Absorbed ==
  ASSUME Lasting, 2 * Skew <= Unit
  PROVE  Spec => []RightServersAgree
<1>1. IInv => RightServersAgree
  <2> SUFFICES ASSUME IInv, step = "done", NEW k \in Kinds, drift[k] = drift[BaselineKind]
      PROVE  Matched(k)
    BY DEF RightServersAgree
  <2>1. PICK a, b \in Nat :
          /\ a < Half /\ b < Half
          /\ reply[BaselineKind] = a \div Unit /\ reply[k] = b \div Unit
          /\ a - b <= drift[BaselineKind] - drift[k] + 2 * Skew
          /\ b - a <= drift[k] - drift[BaselineKind] + 2 * Skew
    BY Replies, Constants
  <2>2. drift[k] \in Int
    BY OfTarget DEF IInv
  <2>3. a - b <= Unit /\ b - a <= Unit
    BY <2>1, <2>2, Constants
  <2>4. a \div Unit - b \div Unit <= 1 /\ b \div Unit - a \div Unit <= 1
    BY <2>3, OneUnit, Constants
  <2>5. /\ a \div Unit \in Int /\ b \div Unit \in Int
        /\ IntApprox(a \div Unit, b \div Unit)
             <=> a \div Unit - b \div Unit \in {-1, 0, 1}
    BY <2>1, AcceptsOneUnit, Constants
  <2>6. reply[BaselineKind] - reply[k] \in {-1, 0, 1}
    BY <2>1, <2>4, <2>5
  <2> QED
    BY <2>1, <2>5, <2>6 DEF Matched
<1> QED
  BY <1>1, Inductive, PTL

\* Under the same bound no error of three units is hidden, on either side of
\* the baseline (case.go:238-242).
THEOREM Caught ==
  ASSUME Lasting, 2 * Skew <= Unit
  PROVE  Spec => []WrongServersAreCaught
<1>1. IInv => WrongServersAreCaught
  <2> SUFFICES ASSUME IInv, step = "done", NEW k \in Kinds,
                      Distance(drift[k], drift[BaselineKind]) >= 3 * Unit
      PROVE  ~Matched(k)
    BY DEF WrongServersAreCaught
  <2>1. PICK a, b \in Nat :
          /\ a < Half /\ b < Half
          /\ reply[BaselineKind] = a \div Unit /\ reply[k] = b \div Unit
          /\ a - b <= drift[BaselineKind] - drift[k] + 2 * Skew
          /\ b - a <= drift[k] - drift[BaselineKind] + 2 * Skew
    BY Replies, Constants
  <2>2. drift[k] \in Int /\ drift[BaselineKind] \in Int
    BY OfTarget, Constants DEF IInv
  <2>3. \/ drift[BaselineKind] - drift[k] >= 3 * Unit
        \/ drift[k] - drift[BaselineKind] >= 3 * Unit
    BY <2>2 DEF Distance
  <2>4. a - b >= 2 * Unit \/ b - a >= 2 * Unit
    BY <2>1, <2>2, <2>3, Constants
  <2>5. a \div Unit - b \div Unit >= 2 \/ b \div Unit - a \div Unit >= 2
    BY <2>4, OneUnit, Constants
  <2>6. /\ a \div Unit \in Int /\ b \div Unit \in Int
        /\ IntApprox(a \div Unit, b \div Unit)
             <=> a \div Unit - b \div Unit \in {-1, 0, 1}
    BY <2>1, AcceptsOneUnit, Constants
  <2>7. reply[BaselineKind] - reply[k] \notin {-1, 0, 1}
    BY <2>1, <2>5, <2>6
  <2> QED
    BY <2>1, <2>6, <2>7 DEF Matched
<1> QED
  BY <1>1, Inductive, PTL
=============================================================================
