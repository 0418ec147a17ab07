---------------------------- MODULE HarnessProofs ----------------------------
(***************************************************************************)
(* Proofs about Harness, for any targets, number of cases and mishaps:     *)
(* whatever fails, a run that returns leaves nothing behind, success means *)
(* that every case was compared with all the targets there, and the servers*)
(* are held as SuiteLifecycle says.                                        *)
(***************************************************************************)
EXTENDS Harness, TLAPS

\* Opening one more target.
LEMMA AppendSet ==
  ASSUME NEW S, NEW s \in Seq(S), NEW e \in S
  PROVE  /\ Append(s, e) \in Seq(S)
         /\ ToSet(Append(s, e)) = ToSet(s) \cup {e}
<1>1. /\ Append(s, e) \in Seq(S)
      /\ DOMAIN Append(s, e) = 1..(Len(s) + 1)
      /\ Append(s, e)[Len(s) + 1] = e
      /\ \A i \in 1..Len(s) : Append(s, e)[i] = s[i]
  OBVIOUS
<1>2. DOMAIN s = 1..Len(s) /\ Len(s) \in Nat
  OBVIOUS
<1> QED
  BY <1>1, <1>2 DEF ToSet

\* Closing the last one.
LEMMA FrontAndLast ==
  ASSUME NEW S, NEW s \in Seq(S), s # <<>>
  PROVE  /\ Front(s) \in Seq(S)
         /\ Last(s) \in S
         /\ ToSet(s) = ToSet(Front(s)) \cup {Last(s)}
<1>1. Len(s) \in Nat \ {0} /\ DOMAIN s = 1..Len(s)
  OBVIOUS
<1>2. /\ Front(s) \in Seq(S)
      /\ DOMAIN Front(s) = 1..(Len(s) - 1)
      /\ \A i \in 1..(Len(s) - 1) : Front(s)[i] = s[i]
  BY <1>1 DEF Front
<1>3. Last(s) \in S
  BY <1>1 DEF Last
<1> QED
  BY <1>1, <1>2, <1>3 DEF ToSet, Last

LEMMA OrderFacts ==
  /\ Len(Order) \in Nat \ {0}
  /\ DOMAIN Order = 1..Len(Order)
  /\ \A i \in DOMAIN Order : Order[i] \in Kinds
  /\ \A i, j \in DOMAIN Order : Order[i] = Order[j] => i = j
<1>1. Order \in Seq(Kinds) /\ Order # <<>>
  BY HarnessAssumption DEF Kinds, ToSet
<1>2. \A i, j \in DOMAIN Order : Order[i] = Order[j] => i = j
  BY HarnessAssumption DEF IsInjective
<1> QED
  BY <1>1, <1>2 DEF Kinds, ToSet

-----------------------------------------------------------------------------
LEMMA InitIInv == Init => IInv
<1> SUFFICES ASSUME Init PROVE IInv
  OBVIOUS
<1> USE HarnessAssumption, OrderFacts DEF Init
<1>1. TypeOK
  <2>1. at \in 1..(Len(Order) + 1) /\ opened \in Seq(Kinds)
    OBVIOUS
  <2>2. passed \in 0..Cases /\ failed \in 0..Cases
    OBVIOUS
  <2>3. process \in [Kinds -> {"none", "running", "exited"}]
    OBVIOUS
  <2>4. listener \in [Kinds -> {"none", "server", "stranger"}]
    OBVIOUS
  <2> QED
    BY <2>1, <2>2, <2>3, <2>4 DEF TypeOK
<1>2. PhaseInv /\ CountInv
  <2>1. ToSet(opened) = {}
    BY DEF ToSet
  <2> QED
    BY <2>1 DEF PhaseInv, CountInv, Opening
<1>3. OwnerInv
  BY DEF OwnerInv, Spawning, ToBeRemoved
<1> QED
  BY <1>1, <1>2, <1>3 DEF IInv

\* The environment touches the processes and the listeners alone, and starts no
\* process.
LEMMA EnvironmentKeepsIInv == IInv /\ Environment => IInv'
<1> SUFFICES ASSUME IInv, Environment PROVE IInv'
  OBVIOUS
<1>1. /\ UNCHANGED <<config, disk, pc, at, opened, baseline, counts, exit>>
      /\ process' \in [Kinds -> {"none", "running", "exited"}]
      /\ listener' \in [Kinds -> {"none", "server", "stranger"}]
      /\ mute' \subseteq Kinds
      /\ \A k \in Kinds : process'[k] # "none" => process[k] # "none"
  <2>1. PICK k \in Kinds : Binds(k) \/ Crashes(k) \/ Hangs(k) \/ TakesPort(k)
    BY DEF Environment
  <2> USE DEF IInv, TypeOK
  <2>2. CASE Binds(k)
    BY <2>2 DEF Binds
  <2>3. CASE Crashes(k)
    BY <2>3 DEF Crashes, ServerGone
  <2>4. CASE Hangs(k)
    BY <2>4 DEF Hangs
  <2>5. CASE TakesPort(k)
    BY <2>5 DEF TakesPort
  <2> QED
    BY <2>1, <2>2, <2>3, <2>4, <2>5
<1> USE <1>1 DEF IInv, config, counts, disk, ToBeRemoved
<1>2. TypeOK'
  BY DEF TypeOK
<1>3. PhaseInv' /\ CountInv'
  BY DEF PhaseInv, CountInv, Opening
<1>4. pc = "start" => Order[at] \in Kinds
  BY OrderFacts DEF PhaseInv, Opening
<1>5. OwnerInv'
  BY <1>4 DEF OwnerInv, Spawning
<1> QED
  BY <1>2, <1>3, <1>5

\* Moving on to the next target, opened or not.
LEMMA GoesOn ==
  ASSUME IInv, pc \in Opening, SkipTarget \/ OpenTarget
  PROVE  /\ at' \in 1..(Len(Order) + 1)
         /\ unremoved \cup {Order[at]} \subseteq {Order[i] : i \in 1..(at' - 1)}
         /\ pc' \in {"available", "baseline"}
         /\ pc' = "available" => at' \in DOMAIN Order
         /\ opened' \in Seq(Kinds)
         /\ SkipTarget => opened' = opened
         /\ OpenTarget => ToSet(opened') = ToSet(opened) \cup {Order[at]}
         /\ ToSet(opened') \subseteq {Order[i] : i \in 1..(at' - 1)}
<1>1. at \in 1..Len(Order) /\ Order[at] \in Kinds /\ opened \in Seq(Kinds)
  BY OrderFacts DEF IInv, TypeOK, PhaseInv
<1> DEFINE last == Len(Order)
<1>10. last \in Nat /\ DOMAIN Order = 1..last
  BY OrderFacts
<1>2. GoOn
  BY DEF SkipTarget, OpenTarget
<1>3. /\ at' \in 1..(Len(Order) + 1)
      /\ pc' \in {"available", "baseline"}
      /\ pc' = "available" => at' \in DOMAIN Order
  <2>1. at' = at + 1 /\ pc' = IF at = last THEN "baseline" ELSE "available"
    BY <1>2 DEF GoOn
  <2>2. at \in 1..last
    BY <1>1
  <2> HIDE DEF last
  <2>3. at' \in 1..(last + 1) /\ (at # last => at' \in 1..last)
    BY <1>10, <2>1, <2>2
  <2> QED
    BY <1>10, <2>1, <2>3 DEF last
<1>4. SkipTarget => opened' = opened
  BY DEF SkipTarget
<1>5. OpenTarget =>
        opened' \in Seq(Kinds) /\ ToSet(opened') = ToSet(opened) \cup {Order[at]}
  <2> SUFFICES ASSUME OpenTarget
      PROVE opened' \in Seq(Kinds) /\ ToSet(opened') = ToSet(opened) \cup {Order[at]}
    OBVIOUS
  <2>1. opened' = Append(opened, Order[at])
    BY DEF OpenTarget
  <2> QED
    BY <1>1, <2>1, AppendSet
<1>6. /\ ToSet(opened') \subseteq {Order[i] : i \in 1..(at' - 1)}
      /\ unremoved \cup {Order[at]} \subseteq {Order[i] : i \in 1..(at' - 1)}
  <2>1. ToSet(opened') \subseteq ToSet(opened) \cup {Order[at]}
    BY <1>4, <1>5
  <2>2. at' - 1 = at /\ at \in Nat
    BY <1>1, <1>2 DEF GoOn
  <2>3. ToSet(opened) \cup unremoved \subseteq {Order[i] : i \in 1..(at - 1)}
    BY DEF IInv, PhaseInv
  <2>4. {Order[i] : i \in 1..(at - 1)} \cup {Order[at]}
          \subseteq {Order[i] : i \in 1..(at' - 1)}
    BY <1>1, <2>2
  <2> QED
    BY <2>1, <2>3, <2>4
<1> QED
  BY <1>1, <1>3, <1>4, <1>5, <1>6

\* Removing a directory is tried once, and touches no other.
LEMMA RemovesDir ==
  ASSUME TypeOK, NEW k \in Kinds, RemoveDir(k)
  PROVE  /\ ToBeRemoved' = ToBeRemoved \ {k}
         /\ dirs' \subseteq Kinds /\ unremoved' \subseteq Kinds
         /\ unremoved' \subseteq unremoved \cup {k}
BY DEF RemoveDir, ToBeRemoved, TypeOK

\* Close removes the directory and the process of a target, and no others.
LEMMA StopsServer ==
  ASSUME TypeOK, NEW k \in Kinds, StopServer(k)
  PROVE  /\ ToBeRemoved' = ToBeRemoved \ {k}
         /\ dirs' \subseteq Kinds /\ unremoved' \subseteq Kinds
         /\ unremoved' \subseteq unremoved \cup {k}
         /\ mute' \subseteq Kinds
         /\ process' \in [Kinds -> {"none", "running", "exited"}]
         /\ listener' \in [Kinds -> {"none", "server", "stranger"}]
         /\ \A j \in Kinds : process'[j] # "none" => process[j] # "none" /\ j # k
<1>1. RemoveDir(k) /\ ServerGone(k) /\ process' = [process EXCEPT ![k] = "none"]
  BY DEF StopServer
<1>2. /\ ToBeRemoved' = ToBeRemoved \ {k}
      /\ dirs' \subseteq Kinds /\ unremoved' \subseteq Kinds
      /\ unremoved' \subseteq unremoved \cup {k}
  BY <1>1, RemovesDir
<1> QED
  BY <1>1, <1>2 DEF ServerGone, TypeOK

-----------------------------------------------------------------------------
LEMMA CheckKeepsIInv == IInv /\ Check => IInv'
<1> SUFFICES ASSUME IInv, Check PROVE IInv'
  OBVIOUS
<1>1. pc \in Opening
  BY DEF Check, Opening
<1> USE DEF config, outside, disk, counts, ToBeRemoved
<1>2. /\ opened' = opened /\ at' \in 1..(Len(Order) + 1)
      /\ pc' \in {"available", "open", "baseline"}
      /\ pc' \in {"available", "open"} => at' \in DOMAIN Order
      /\ ToSet(opened') \cup unremoved \subseteq {Order[i] : i \in 1..(at' - 1)}
      /\ UNCHANGED <<config, outside, disk, baseline, counts, exit>>
  BY <1>1, GoesOn DEF Check, IInv, TypeOK, PhaseInv, SkipTarget
<1>3. TypeOK'
  BY <1>2 DEF IInv, TypeOK
<1>4. PhaseInv' /\ CountInv'
  BY <1>1, <1>2 DEF IInv, PhaseInv, CountInv, Opening
<1>5. OwnerInv'
  BY <1>2 DEF IInv, OwnerInv, Spawning, Check
<1> QED
  BY <1>3, <1>4, <1>5 DEF IInv

LEMMA ConnectKeepsIInv == IInv /\ Connect => IInv'
<1> SUFFICES ASSUME IInv, Connect PROVE IInv'
  OBVIOUS
<1>1. pc \in Opening /\ (SkipTarget \/ OpenTarget)
  BY DEF Connect, Opening
<1> USE DEF config, outside, disk, counts, ToBeRemoved
<1>2. UNCHANGED <<config, outside, disk, baseline, counts, exit>>
  BY DEF Connect
<1>3. TypeOK'
  BY <1>1, <1>2, GoesOn DEF IInv, TypeOK
<1>4. PhaseInv' /\ CountInv'
  BY <1>1, <1>2, GoesOn DEF IInv, PhaseInv, CountInv, Opening
<1>5. OwnerInv'
  BY <1>1, <1>2, GoesOn DEF IInv, OwnerInv, Spawning, Connect
<1> QED
  BY <1>3, <1>4, <1>5 DEF IInv

LEMMA PrepareKeepsIInv == IInv /\ Prepare => IInv'
<1> SUFFICES ASSUME IInv, Prepare PROVE IInv'
  OBVIOUS
<1> USE DEF config, outside, disk, counts, ToBeRemoved
<1>1. pc = "open" /\ at \in DOMAIN Order /\ Order[at] \in Kinds
  BY OrderFacts DEF Prepare, IInv, PhaseInv, Opening
<1>2. UNCHANGED <<config, outside, unremoved, baseline, counts, exit>>
  BY DEF Prepare
<1>3. CASE SkipTarget /\ UNCHANGED dirs
  <2>1. TypeOK'
    BY <1>1, <1>2, <1>3, GoesOn DEF IInv, TypeOK, Opening
  <2>2. PhaseInv' /\ CountInv'
    BY <1>1, <1>2, <1>3, GoesOn DEF IInv, PhaseInv, CountInv, Opening
  <2>3. OwnerInv'
    BY <1>1, <1>2, <1>3, GoesOn DEF IInv, OwnerInv, Spawning, Opening
  <2> QED
    BY <2>1, <2>2, <2>3 DEF IInv
<1>4. CASE dirs' = dirs \cup {Order[at]} /\ pc' = "start" /\ UNCHANGED <<at, opened>>
  <2>1. TypeOK'
    BY <1>1, <1>2, <1>4 DEF IInv, TypeOK
  <2>2. PhaseInv' /\ CountInv'
    BY <1>1, <1>2, <1>4 DEF IInv, PhaseInv, CountInv, Opening, Prepare
  <2>3. Order[at] \notin ToSet(opened) \cup unremoved
    <3>1. \A i \in 1..(at - 1) : i \in DOMAIN Order /\ i # at
      BY <1>1, OrderFacts
    <3>2. \A i \in 1..(at - 1) : Order[i] # Order[at]
      BY <1>1, <3>1, OrderFacts
    <3> QED
      BY <3>2 DEF IInv, PhaseInv
  <2>4. exit # "killed" => Order[at] \notin ToBeRemoved
    BY <1>1, <2>3 DEF IInv, OwnerInv, Spawning
  <2>5. exit # "killed" => process[Order[at]] = "none"
    BY <1>1, <2>4 DEF IInv, OwnerInv
  <2>7. ToBeRemoved' = ToBeRemoved \cup {Order[at]}
    BY <1>2, <1>4, <2>3
  <2> HIDE DEF ToBeRemoved
  <2>6. OwnerInv'
    BY <1>1, <1>2, <1>4, <2>5, <2>7 DEF IInv, OwnerInv, Spawning, Prepare
  <2> QED
    BY <2>1, <2>2, <2>6 DEF IInv
<1> QED
  BY <1>3, <1>4 DEF Prepare

LEMMA StartKeepsIInv == IInv /\ Start => IInv'
<1> SUFFICES ASSUME IInv, Start PROVE IInv'
  OBVIOUS
<1> USE DEF config, counts
<1>1. pc = "start" /\ at \in DOMAIN Order /\ Order[at] \in Kinds
  BY OrderFacts DEF Start, IInv, PhaseInv, Opening
<1>2. UNCHANGED <<config, listener, mute, baseline, counts, exit>>
  BY DEF Start
<1>3. CASE SkipTarget /\ RemoveDir(Order[at]) /\ UNCHANGED process
  <2>4. /\ ToBeRemoved' = ToBeRemoved \ {Order[at]}
        /\ dirs' \subseteq Kinds /\ unremoved' \subseteq Kinds
        /\ unremoved' \subseteq unremoved \cup {Order[at]}
    BY <1>1, <1>3, RemovesDir DEF IInv
  <2>1. TypeOK'
    BY <1>1, <1>2, <1>3, <2>4, GoesOn DEF IInv, TypeOK, Opening
  <2>2. PhaseInv' /\ CountInv'
    BY <1>1, <1>2, <1>3, <2>4, GoesOn DEF IInv, PhaseInv, CountInv, Opening
  <2>3. OwnerInv'
    BY <1>1, <1>2, <1>3, <2>4, GoesOn DEF IInv, OwnerInv, Spawning, Opening
  <2> QED
    BY <2>1, <2>2, <2>3 DEF IInv
<1>4. CASE /\ process' = [process EXCEPT ![Order[at]] = "running"]
           /\ pc' = "wait"
           /\ UNCHANGED <<at, opened, disk>>
  <2> USE DEF disk, ToBeRemoved
  <2>1. TypeOK'
    BY <1>1, <1>2, <1>4 DEF IInv, TypeOK
  <2>2. PhaseInv' /\ CountInv'
    BY <1>1, <1>2, <1>4 DEF IInv, PhaseInv, CountInv, Opening
  <2>3. OwnerInv'
    BY <1>1, <1>2, <1>4 DEF IInv, TypeOK, OwnerInv, Spawning
  <2> QED
    BY <2>1, <2>2, <2>3 DEF IInv
<1> QED
  BY <1>3, <1>4 DEF Start

LEMMA AwaitListenerKeepsIInv == IInv /\ AwaitListener => IInv'
<1> SUFFICES ASSUME IInv, AwaitListener PROVE IInv'
  OBVIOUS
<1> USE DEF config, counts
<1>1. pc = "wait" /\ pc \in Opening /\ at \in DOMAIN Order /\ Order[at] \in Kinds
  BY OrderFacts DEF AwaitListener, IInv, PhaseInv, Opening
<1>2. UNCHANGED <<config, baseline, counts, exit>>
  BY DEF AwaitListener
<1>3. CASE OpenTarget /\ UNCHANGED <<outside, disk>>
  <2> USE DEF outside, disk, ToBeRemoved
  <2>1. TypeOK'
    BY <1>1, <1>2, <1>3, GoesOn DEF IInv, TypeOK
  <2>2. PhaseInv' /\ CountInv'
    BY <1>1, <1>2, <1>3, GoesOn DEF IInv, PhaseInv, CountInv, Opening
  <2>3. OwnerInv'
    BY <1>1, <1>2, <1>3, GoesOn DEF IInv, PhaseInv, OwnerInv, Spawning
  <2> QED
    BY <2>1, <2>2, <2>3 DEF IInv
<1>4. CASE SkipTarget /\ StopServer(Order[at])
  <2>1. TypeOK'
    BY <1>1, <1>2, <1>4, GoesOn, StopsServer DEF IInv, TypeOK
  <2>2. PhaseInv' /\ CountInv'
    BY <1>1, <1>2, <1>4, GoesOn, StopsServer DEF IInv, PhaseInv, CountInv, Opening
  <2>3. OwnerInv'
    BY <1>1, <1>2, <1>4, GoesOn, StopsServer DEF IInv, OwnerInv, Spawning
  <2> QED
    BY <2>1, <2>2, <2>3 DEF IInv
<1> QED
  BY <1>3, <1>4 DEF AwaitListener

LEMMA ChooseBaselineKeepsIInv == IInv /\ ChooseBaseline => IInv'
<1> SUFFICES ASSUME IInv, ChooseBaseline PROVE IInv'
  OBVIOUS
<1> USE DEF config, outside, disk, counts, ToBeRemoved
<1>1. /\ pc = "baseline"
      /\ pc' \in {"case", "close"}
      /\ pc' = "case" => baseline' # {} /\ exit' = exit
      /\ pc' = "close" => exit' \in {"skipped", "error"}
      /\ UNCHANGED <<config, outside, disk, at, opened, counts>>
  BY DEF ChooseBaseline
<1>2. baseline' \subseteq Kinds
  <2>1. CASE ~Enough(opened)
    BY <2>1 DEF ChooseBaseline, IInv, TypeOK
  <2>2. CASE Enough(opened)
    <3>1. opened \in Seq(Kinds) /\ Len(opened) >= 2
      BY <2>2 DEF Enough, IInv, TypeOK
    <3>2. opened[1] \in Kinds
      BY <3>1
    <3>3. PreferRedis(opened) \in Kinds
      BY <3>2, HarnessAssumption, OrderFacts DEF PreferRedis
    <3> QED
      BY <2>2, <3>3 DEF ChooseBaseline
  <2> QED
    BY <2>1, <2>2
<1>3. TypeOK'
  BY <1>1, <1>2 DEF IInv, TypeOK
<1>4. PhaseInv' /\ CountInv'
  BY <1>1 DEF IInv, PhaseInv, CountInv, Opening
<1>5. OwnerInv'
  BY <1>1 DEF IInv, PhaseInv, OwnerInv, Spawning
<1> QED
  BY <1>3, <1>4, <1>5 DEF IInv

\* A case adds one to exactly one count, and to the failures if some target is
\* gone.
LEMMA RunCaseKeepsIInv == IInv /\ RunCase => IInv'
<1> SUFFICES ASSUME IInv, RunCase PROVE IInv'
  OBVIOUS
<1> USE DEF config, outside, disk, ToBeRemoved
<1>1. /\ pc = "case"
      /\ UNCHANGED <<config, outside, disk, pc, at, opened, baseline, exit>>
  BY DEF RunCase
<1>2. passed \in Nat /\ failed \in Nat /\ passed + failed < Cases /\ Cases \in Nat
  BY HarnessAssumption DEF RunCase, CasesLeft, IInv, TypeOK
<1>3. /\ \/ passed' = passed + 1 /\ failed' = failed
         \/ passed' = passed /\ failed' = failed + 1
      /\ lost' \in BOOLEAN
      /\ lost' => lost \/ failed' = failed + 1
  <2> DEFINE reachable == \A k \in ToSet(opened) : Listens(k)
  <2>1. PICK result \in {"pass", "fail", "error"} :
          /\ ~reachable => result = "error"
          /\ failed' = failed + (IF result \in CountedAsFailed THEN 1 ELSE 0)
          /\ passed' = passed + (IF result \in CountedAsFailed THEN 0 ELSE 1)
    BY DEF RunCase
  <2>2. lost' = (lost \/ ~reachable)
    BY DEF RunCase
  <2>3. lost \in BOOLEAN
    BY DEF IInv, TypeOK
  <2> HIDE DEF reachable
  <2>4. lost' \in BOOLEAN /\ (lost' => lost \/ result = "error")
    BY <2>1, <2>2, <2>3
  <2>5. CASE result \in CountedAsFailed
    BY <1>2, <2>1, <2>4, <2>5
  <2>6. CASE result \notin CountedAsFailed
    <3>1. result # "error"
      BY <2>6 DEF CountedAsFailed
    <3> QED
      BY <1>2, <2>1, <2>4, <2>6, <3>1
  <2> QED
    BY <2>5, <2>6
<1>4. TypeOK'
  <2>1. passed' \in 0..Cases /\ failed' \in 0..Cases
    BY <1>2, <1>3
  <2> QED
    BY <1>1, <1>3, <2>1 DEF IInv, TypeOK
<1>5. PhaseInv'
  BY <1>1 DEF IInv, PhaseInv
<1>6. CountInv'
  <2>1. passed' + failed' <= Cases
    BY <1>2, <1>3
  <2>2. lost' => failed' > 0
    BY <1>2, <1>3 DEF IInv, CountInv
  <2>3. exit' = "none" /\ baseline' # {}
    BY <1>1 DEF IInv, PhaseInv, CountInv
  <2> QED
    BY <2>1, <2>2, <2>3 DEF CountInv
<1>7. OwnerInv'
  BY <1>1 DEF IInv, OwnerInv, Spawning
<1> QED
  BY <1>4, <1>5, <1>6, <1>7 DEF IInv

LEMMA ReportKeepsIInv == IInv /\ Report => IInv'
<1> SUFFICES ASSUME IInv, Report PROVE IInv'
  OBVIOUS
<1> USE DEF config, outside, disk, counts, ToBeRemoved
<1>1. /\ pc = "case" /\ pc' = "close"
      /\ exit' = IF failed > 0 THEN "error" ELSE "ok"
      /\ UNCHANGED <<config, outside, disk, at, opened, baseline, counts>>
  BY DEF Report
<1>2. TypeOK'
  BY <1>1 DEF IInv, TypeOK
<1>3. PhaseInv'
  BY <1>1 DEF IInv, PhaseInv, Opening
<1>4. CountInv'
  <2>1. passed \in Nat /\ failed \in Nat /\ Cases \in Nat /\ ~(passed + failed < Cases)
    BY HarnessAssumption DEF Report, CasesLeft, IInv, TypeOK
  <2>2. failed = 0 => passed = Cases /\ ~lost
    BY <2>1 DEF IInv, CountInv
  <2> QED
    BY <1>1, <2>1, <2>2 DEF IInv, CountInv
<1>5. OwnerInv'
  BY <1>1 DEF IInv, PhaseInv, OwnerInv, Spawning
<1> QED
  BY <1>2, <1>3, <1>4, <1>5 DEF IInv

LEMMA CloseLastKeepsIInv == IInv /\ CloseLast => IInv'
<1> SUFFICES ASSUME IInv, CloseLast PROVE IInv'
  OBVIOUS
<1> USE DEF config, counts
<1> DEFINE k == Last(opened)
<1>1. /\ pc = "close"
      /\ UNCHANGED <<config, pc, at, baseline, counts, exit>>
      /\ opened \in Seq(Kinds) /\ opened # <<>> /\ opened' = Front(opened)
  BY DEF CloseLast, IInv, TypeOK
<1>2. /\ opened' \in Seq(Kinds)
      /\ k \in Kinds
      /\ ToSet(opened) = ToSet(opened') \cup {k}
  BY <1>1, FrontAndLast
<1>3. \/ k \in addressed /\ UNCHANGED <<outside, disk>>
      \/ StopServer(k)
  BY DEF CloseLast
<1> HIDE DEF k
<1>4. TypeOK'
  BY <1>1, <1>2, <1>3, StopsServer DEF IInv, TypeOK, outside, disk
<1>5. PhaseInv' /\ CountInv'
  <2>1. unremoved' \subseteq unremoved \cup {k}
    BY <1>2, <1>3, StopsServer DEF IInv, disk
  <2> QED
    BY <1>1, <1>2, <2>1 DEF IInv, PhaseInv, CountInv, Opening
<1>6. OwnerInv'
  <2>1. /\ ToBeRemoved' = ToBeRemoved \ {k} \/ ToBeRemoved' = ToBeRemoved
        /\ \A j \in Kinds : process'[j] # "none" => process[j] # "none"
        /\ k \notin addressed =>
             /\ ToBeRemoved' = ToBeRemoved \ {k}
             /\ \A j \in Kinds : process'[j] # "none" => j # k
    BY <1>2, <1>3, StopsServer DEF IInv, ToBeRemoved, outside, disk
  <2> QED
    BY <1>1, <1>2, <2>1 DEF IInv, OwnerInv, Spawning
<1> QED
  BY <1>4, <1>5, <1>6 DEF IInv

LEMMA EndKeepsIInv == IInv /\ (Return \/ Killed) => IInv'
<1> SUFFICES ASSUME IInv, Return \/ Killed PROVE IInv'
  OBVIOUS
<1> USE DEF config, outside, disk, counts, ToBeRemoved
<1>1. /\ pc' = "ended"
      /\ UNCHANGED <<config, outside, disk, at, opened, baseline, counts>>
      /\ exit' \in {exit, "killed"}
      /\ exit' # "killed" => opened = <<>> /\ pc = "close"
  BY DEF Return, Killed
<1>2. TypeOK'
  BY <1>1 DEF IInv, TypeOK
<1>3. PhaseInv' /\ CountInv'
  BY <1>1 DEF IInv, PhaseInv, CountInv, Opening
<1>4. OwnerInv'
  BY <1>1 DEF IInv, PhaseInv, OwnerInv, Spawning
<1> QED
  BY <1>2, <1>3, <1>4 DEF IInv

LEMMA NextKeepsIInv == IInv /\ [Next]_vars => IInv'
<1> SUFFICES ASSUME IInv, [Next]_vars PROVE IInv'
  OBVIOUS
<1>1. CASE Environment
  BY <1>1, EnvironmentKeepsIInv
<1>2. CASE Check \/ Connect \/ Prepare \/ Start \/ AwaitListener
  BY <1>2, CheckKeepsIInv, ConnectKeepsIInv, PrepareKeepsIInv, StartKeepsIInv,
     AwaitListenerKeepsIInv
<1>3. CASE ChooseBaseline \/ RunCase \/ Report
  BY <1>3, ChooseBaselineKeepsIInv, RunCaseKeepsIInv, ReportKeepsIInv
<1>4. CASE CloseLast \/ Return \/ Killed
  BY <1>4, CloseLastKeepsIInv, EndKeepsIInv
<1>5. CASE UNCHANGED vars
  <2> USE <1>5 DEF vars, config, outside, disk, counts, ToBeRemoved, IInv
  <2>1. TypeOK'
    BY DEF TypeOK
  <2>2. PhaseInv' /\ CountInv'
    BY DEF PhaseInv, CountInv
  <2>3. OwnerInv'
    BY DEF OwnerInv, Spawning
  <2> QED
    BY <2>1, <2>2, <2>3
<1> QED
  BY <1>1, <1>2, <1>3, <1>4, <1>5 DEF Next, Run

\* The strengthened invariant holds in every reachable state.
THEOREM Inductive == Spec => []IInv
<1> QED
  BY InitIInv, NextKeepsIInv, PTL DEF Spec

-----------------------------------------------------------------------------
\* The variables of the harness have their types.
THEOREM TypeCorrect == Spec => []TypeOK
<1>1. IInv => TypeOK
  BY DEF IInv
<1> QED
  BY <1>1, Inductive, PTL

\* A run that returns leaves no process and no directory behind
\* (target.go:106-129, 173-192).
THEOREM CleansUp == Spec => []NothingLeftBehind
<1>1. IInv => NothingLeftBehind
  <2> SUFFICES ASSUME IInv, pc = "ended", exit # "killed"
      PROVE  dirs \subseteq unremoved /\ \A k \in Kinds : process[k] = "none"
    BY DEF NothingLeftBehind
  <2>1. opened = <<>> /\ Spawning = {}
    BY DEF IInv, PhaseInv, Spawning
  <2>2. ToSet(opened) = {}
    BY <2>1 DEF ToSet
  <2> QED
    BY <2>1, <2>2 DEF IInv, OwnerInv, ToBeRemoved
<1> QED
  BY <1>1, Inductive, PTL

\* No process is without a directory, and no directory without a target that is
\* open or being opened.
THEOREM Owned == Spec => []EverythingIsOwned
<1>1. IInv => EverythingIsOwned
  <2> SUFFICES ASSUME IInv, exit # "killed"
      PROVE  /\ \A k \in Kinds : process[k] # "none" => k \in ToBeRemoved
             /\ ToBeRemoved \subseteq
                  ToSet(opened) \cup {Order[i] : i \in {at} \cap DOMAIN Order}
    BY DEF EverythingIsOwned
  <2>1. Spawning \subseteq {Order[i] : i \in {at} \cap DOMAIN Order}
    BY DEF Spawning, IInv, PhaseInv, Opening
  <2> QED
    BY <2>1 DEF IInv, OwnerInv
<1> QED
  BY <1>1, Inductive, PTL

\* Success means that every case passed with every target there
\* (main.go:74-102).
THEOREM SuccessIsEarned == Spec => []OkMeansCompared
<1>1. IInv => OkMeansCompared
  BY DEF IInv, CountInv, OkMeansCompared
<1> QED
  BY <1>1, Inductive, PTL

-----------------------------------------------------------------------------
\* Harness gives the runner what it takes for granted, and implements
\* SuiteLifecycle.

\* The target being opened is not among the opened ones.
LEMMA NotOpenedYet ==
  ASSUME IInv, pc \in Opening
  PROVE  Order[at] \in Kinds /\ Order[at] \notin ToSet(opened)
<1>1. at \in DOMAIN Order /\ at \in Nat
  BY OrderFacts DEF IInv, PhaseInv
<1>2. \A i \in 1..(at - 1) : i \in DOMAIN Order /\ i # at
  BY <1>1, OrderFacts
<1>3. \A i \in 1..(at - 1) : Order[i] # Order[at]
  BY <1>1, <1>2, OrderFacts
<1> QED
  BY <1>1, <1>3, OrderFacts DEF IInv, PhaseInv

-----------------------------------------------------------------------------
\* The targets are in the order of the specs.

\* The next target comes after the ones opened so far.
LEMMA AppendInOrder ==
  ASSUME IInv, pc \in Opening, InOrder(opened)
  PROVE  InOrder(Append(opened, Order[at]))
<1> DEFINE s == Append(opened, Order[at])
           len == Len(opened)
<1>1. opened \in Seq(Kinds) /\ Order[at] \in Kinds
  BY NotOpenedYet DEF IInv, TypeOK
<1>2. len \in Nat /\ DOMAIN opened = 1..len /\ DOMAIN s = 1..(len + 1)
  BY <1>1
<1>3. s[len + 1] = Order[at] /\ \A i \in 1..len : s[i] = opened[i]
  BY <1>1
<1>4. at \in DOMAIN Order /\ at \in Nat
  BY OrderFacts DEF IInv, PhaseInv
<1>5. \A i \in 1..len : \E m \in DOMAIN Order : m < at /\ opened[i] = Order[m]
  <2>1. \A i \in 1..len : opened[i] \in {Order[m] : m \in 1..(at - 1)}
    BY <1>2 DEF IInv, PhaseInv, ToSet
  <2>2. \A m \in 1..(at - 1) : m \in DOMAIN Order /\ m < at
    BY <1>4, OrderFacts
  <2> QED
    BY <2>1, <2>2
<1> SUFFICES ASSUME NEW i \in DOMAIN s, NEW j \in DOMAIN s, i < j
    PROVE  \E m, n \in DOMAIN Order : m < n /\ s[i] = Order[m] /\ s[j] = Order[n]
  BY DEF InOrder
<1> HIDE DEF s, len
<1>6. i \in 1..len
  BY <1>2
<1>7. CASE j = len + 1
  BY <1>3, <1>4, <1>5, <1>6, <1>7
<1>8. CASE j # len + 1
  <2>1. j \in 1..len
    BY <1>2, <1>8
  <2> QED
    BY <1>2, <1>3, <1>6, <2>1 DEF InOrder
<1> QED
  BY <1>7, <1>8

\* Redis, the first of the specs, is the first opened if it is opened.
LEMMA BaselineIsFirst ==
  ASSUME opened \in Seq(Kinds), Len(opened) >= 2, InOrder(opened)
  PROVE  /\ PreferRedis(opened) = opened[1]
         /\ Redis \in ToSet(opened) => Redis = opened[1]
<1>1. Redis \in ToSet(opened) => Redis = opened[1]
  <2> SUFFICES ASSUME NEW i \in DOMAIN opened, opened[i] = Redis, i # 1 PROVE FALSE
    BY DEF ToSet
  <2>1. 1 \in DOMAIN opened /\ i \in Nat /\ 1 < i
    OBVIOUS
  <2>2. PICK m, n \in DOMAIN Order : m < n /\ opened[i] = Order[n]
    BY <2>1 DEF InOrder
  <2>3. Order[n] = Order[1] /\ 1 \in DOMAIN Order
    <3>1. Order[1] = Redis
      BY HarnessAssumption
    <3> QED
      BY <2>2, <3>1, OrderFacts
  <2>4. n = 1
    BY <2>2, <2>3, OrderFacts
  <2> QED
    BY <2>2, <2>4, OrderFacts
<1> QED
  BY <1>1 DEF PreferRedis

LEMMA NextKeepsRunnerInv == IInv /\ RunnerInv /\ [Next]_vars => RunnerInv'
<1> SUFFICES ASSUME IInv, RunnerInv, [Next]_vars PROVE RunnerInv'
  OBVIOUS
<1>1. CASE Check \/ Connect \/ Prepare \/ Start \/ AwaitListener
  <2>1. pc \in Opening /\ pc' \in Opening \cup {"baseline"}
    BY <1>1 DEF Check, Connect, Prepare, Start, AwaitListener, SkipTarget,
                OpenTarget, GoOn, Opening
  <2>2. opened' = opened \/ opened' = Append(opened, Order[at])
    BY <1>1 DEF Check, Connect, Prepare, Start, AwaitListener, SkipTarget,
                OpenTarget
  <2>3. InOrder(opened')
    BY <2>1, <2>2, AppendInOrder DEF RunnerInv
  <2>4. pc' # "case" /\ InOrder(opened)'
    BY <2>1, <2>3 DEF Opening, InOrder
  <2> QED
    BY <2>4 DEF RunnerInv, RunnerIsWellFormed
<1>2. CASE ChooseBaseline
  <2>1. pc = "baseline" /\ opened' = opened /\ InOrder(opened)
    BY <1>2 DEF ChooseBaseline, RunnerInv
  <2>2. CASE Enough(opened)
    <3>1. baseline' = {PreferRedis(opened)} /\ Len(opened) >= 2
      BY <1>2, <2>2 DEF ChooseBaseline, Enough
    <3>2. /\ PreferRedis(opened) = opened[1]
          /\ Redis \in ToSet(opened) => Redis = opened[1]
      BY <2>1, <3>1, BaselineIsFirst DEF IInv, TypeOK
    <3> QED
      BY <2>1, <3>1, <3>2 DEF RunnerInv, RunnerIsWellFormed, InOrder
  <2>3. CASE ~Enough(opened)
    <3>1. pc' = "close"
      BY <1>2, <2>3 DEF ChooseBaseline
    <3> QED
      BY <3>1 DEF RunnerInv, RunnerIsWellFormed, Opening
  <2> QED
    BY <2>2, <2>3
<1>3. CASE Report \/ CloseLast \/ Return \/ Killed
  <2>1. pc' \in {"close", "ended"}
    BY <1>3 DEF Report, CloseLast, Return, Killed
  <2> QED
    BY <2>1 DEF RunnerInv, RunnerIsWellFormed, Opening
<1>4. CASE Environment \/ RunCase \/ UNCHANGED vars
  <2>1. UNCHANGED <<pc, opened, baseline>>
    BY <1>4 DEF Environment, Binds, Crashes, Hangs, TakesPort, RunCase, vars
  <2> QED
    BY <2>1 DEF RunnerInv, RunnerIsWellFormed, InOrder
<1> QED
  BY <1>1, <1>2, <1>3, <1>4 DEF Next, Run

\* The runner is given at least two targets, in the order of the specs, and the
\* first of them is the baseline, which is Redis if Redis was opened
\* (main.go:61-73).
THEOREM WellFormed == Spec => []RunnerIsWellFormed
<1>1. Init => RunnerInv
  BY DEF Init, RunnerInv, RunnerIsWellFormed, InOrder
<1>2. RunnerInv => RunnerIsWellFormed
  BY DEF RunnerInv
<1> QED
  BY <1>1, <1>2, Inductive, NextKeepsRunnerInv, PTL DEF Spec

-----------------------------------------------------------------------------
\* Harness implements SuiteLifecycle.

\* What the run holds: the target being spawned is held too.
LEMMA HeldIs ==
  ASSUME IInv, exit # "killed"
  PROVE  /\ pc \notin {"start", "wait"} => Held = opened
         /\ pc \in {"start", "wait"} => Held = Append(opened, Order[at])
<1>1. opened \in Seq(Kinds)
  BY DEF IInv, TypeOK
<1>2. CASE pc \notin {"start", "wait"}
  <2>1. ToBeRemoved \ ToSet(opened) = {}
    BY <1>2 DEF IInv, OwnerInv, Spawning
  <2> QED
    BY <1>1, <1>2, <2>1 DEF Held
<1>3. CASE pc \in {"start", "wait"}
  <2>1. /\ at \in DOMAIN Order /\ Order[at] \in ToBeRemoved
        /\ Order[at] \in Kinds /\ Order[at] \notin ToSet(opened)
    BY <1>3, NotOpenedYet DEF IInv, PhaseInv, OwnerInv, Spawning, Opening
  <2> QED
    BY <1>1, <1>3, <2>1 DEF Held
<1> QED
  BY <1>2, <1>3

LEMMA FrontOfAppend ==
  ASSUME NEW S, NEW s \in Seq(S), NEW e \in S
  PROVE  Front(Append(s, e)) = s /\ Append(s, e) # <<>>
BY DEF Front

\* Opening a target acquires it, abandons it or is not seen.
LEMMA OpeningImplements ==
  ASSUME IInv, IInv', Check \/ Connect \/ Prepare \/ Start \/ AwaitListener
  PROVE  L!Acquire \/ L!Abandon \/ UNCHANGED L!vars
<1>1. /\ pc \in Opening /\ pc' \in Opening \cup {"baseline"}
      /\ exit = "none" /\ exit' = "none"
  BY DEF Check, Connect, Prepare, Start, AwaitListener, SkipTarget, OpenTarget,
         GoOn, Opening, IInv, PhaseInv
<1>2. Phase = "opening" /\ Phase' = "opening"
  BY <1>1 DEF Phase, Opening
<1>3. /\ opened \in Seq(Kinds)
      /\ Order[at] \in Kinds /\ Order[at] \notin ToSet(opened)
  BY <1>1, NotOpenedYet DEF IInv, TypeOK
<1>4. /\ pc \notin {"start", "wait"} => Held = opened
      /\ pc \in {"start", "wait"} => Held = Append(opened, Order[at])
  BY <1>1, HeldIs
<1>5. /\ pc' \notin {"start", "wait"} => Held' = opened'
      /\ pc' \in {"start", "wait"} => Held' = Append(opened', Order[at'])
  <2>1. (IInv /\ exit # "killed" /\ pc \notin {"start", "wait"} => Held = opened)'
    BY HeldIs, PTL
  <2>2. (IInv /\ exit # "killed" /\ pc \in {"start", "wait"}
           => Held = Append(opened, Order[at]))'
    BY HeldIs, PTL
  <2> QED
    BY <1>1, <2>1, <2>2
<1>6. Front(Append(opened, Order[at])) = opened /\ Append(opened, Order[at]) # <<>>
  BY <1>3, FrontOfAppend
<1>7. \/ Held' = Held
      \/ Held = opened /\ Held' = Append(opened, Order[at])
      \/ Held = Append(opened, Order[at]) /\ Held' = opened
  BY <1>4, <1>5 DEF Check, Connect, Prepare, Start, AwaitListener, SkipTarget,
                    OpenTarget, GoOn
<1>8. CASE Held' = Held
  BY <1>1, <1>2, <1>8 DEF L!vars
<1>9. CASE Held = opened /\ Held' = Append(opened, Order[at])
  BY <1>1, <1>2, <1>3, <1>9 DEF L!Acquire, L!ToSet, ToSet
<1>10. CASE Held = Append(opened, Order[at]) /\ Held' = opened
  BY <1>1, <1>2, <1>6, <1>10 DEF L!Abandon, L!Front, Front
<1> QED
  BY <1>7, <1>8, <1>9, <1>10

\* The other steps of the run; no target is being spawned in them.
LEMMA RunningImplements ==
  ASSUME IInv, IInv', ChooseBaseline \/ RunCase \/ Report \/ CloseLast \/ Return
  PROVE  L!Next \/ UNCHANGED L!vars
<1>1. /\ pc \in {"baseline", "case", "close"}
      /\ pc' \in {"case", "close", "ended"}
      /\ exit # "killed" /\ exit' # "killed"
  BY DEF ChooseBaseline, RunCase, Report, CloseLast, Return, IInv, PhaseInv
<1>2. Held = opened
  BY <1>1, HeldIs
<1>3. Held' = opened'
  <2>1. (IInv /\ exit # "killed" /\ pc \notin {"start", "wait"} => Held = opened)'
    BY HeldIs, PTL
  <2> QED
    BY <1>1, <2>1
<1>4. CASE ChooseBaseline
  <2>1. Phase = "opening" /\ Held' = Held
    BY <1>2, <1>3, <1>4 DEF ChooseBaseline, Phase
  <2>2. CASE Enough(opened)
    BY <1>2, <1>4, <2>1, <2>2 DEF ChooseBaseline, Phase, Enough, L!Begin, L!Next
  <2>3. CASE ~Enough(opened)
    <3>1. Len(opened) < 2
      BY <2>3 DEF Enough, IInv, TypeOK
    <3>2. exit' \in {"error", "skipped"} /\ Phase' = "closing"
      BY <1>4, <2>3 DEF ChooseBaseline, Phase
    <3> QED
      BY <1>2, <2>1, <3>1, <3>2 DEF L!GiveUp, L!Next
  <2> QED
    BY <2>2, <2>3
<1>5. CASE RunCase
  BY <1>2, <1>3, <1>5 DEF RunCase, Phase, L!vars
<1>6. CASE Report
  <2>1. Phase = "comparing" /\ Phase' = "closing" /\ Held' = Held
    BY <1>2, <1>3, <1>6 DEF Report, Phase
  <2>2. exit' \in {"ok", "error"}
    BY <1>6 DEF Report
  <2> QED
    BY <2>1, <2>2 DEF L!Decide, L!Next
<1>7. CASE CloseLast
  <2>1. Phase = "closing" /\ Phase' = "closing" /\ exit' = exit
    BY <1>7 DEF CloseLast, Phase, counts
  <2> QED
    BY <1>2, <1>3, <1>7, <2>1 DEF CloseLast, L!Release, L!Next, L!Front, Front
<1>8. CASE Return
  BY <1>2, <1>3, <1>8 DEF Return, Phase, L!End, L!Next
<1> QED
  BY <1>4, <1>5, <1>6, <1>7, <1>8

\* Interruptions, and what the environment does.
LEMMA OthersImplement ==
  ASSUME IInv, Killed \/ Environment \/ UNCHANGED vars
  PROVE  L!Interrupt \/ UNCHANGED L!vars
<1>1. CASE Killed
  <2>1. Held' = Held /\ Phase' = "over" /\ exit' = "killed"
    BY <1>1 DEF Killed, disk, Held, ToBeRemoved, Phase
  <2>2. Phase # "over"
    BY <1>1 DEF Killed, Phase
  <2> QED
    BY <2>1, <2>2 DEF L!Interrupt
<1>2. CASE Environment \/ UNCHANGED vars
  <2>1. UNCHANGED <<pc, opened, at, dirs, unremoved, exit>>
    BY <1>2 DEF Environment, Binds, Crashes, Hangs, TakesPort, disk, vars
  <2> QED
    BY <2>1 DEF Held, ToBeRemoved, Phase, L!vars
<1> QED
  BY <1>1, <1>2

\* The command and the test, whatever fails around them, hold their servers as
\* SuiteLifecycle says (main.go:45-102, target.go:92-192).
THEOREM Lifecycle == Spec => ImplementsLifecycle
<1>1. Init => L!Init
  <2> SUFFICES ASSUME Init PROVE L!Init
    OBVIOUS
  <2>1. IInv /\ exit # "killed" /\ pc = "available" /\ opened = <<>>
    BY InitIInv DEF Init
  <2> QED
    BY <2>1, HeldIs DEF Init, Phase, L!Init
<1>2. IInv /\ IInv' /\ [Next]_vars => [L!Next]_(L!vars)
  BY OpeningImplements, RunningImplements, OthersImplement DEF Next, Run, L!Next
<1> QED
  BY <1>1, <1>2, Inductive, PTL DEF Spec, L!Spec, ImplementsLifecycle
=============================================================================
