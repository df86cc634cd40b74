-------------------------- MODULE GovernanceProofs --------------------------
(***************************************************************************)
(* Proofs about what the operators may change, on the chain and off it.    *)
(*                                                                         *)
(* Module GateGovernance, for any number of validators, accounts, assets   *)
(* and implementations and for any delays: the storage stays well typed, a *)
(* quorum stays reachable, and no power is ever taken without a live       *)
(* announcement of exactly that power.                                     *)
(*                                                                         *)
(* Module Allowlist, for any tokens, pairs and operator sessions: no       *)
(* interleaving of their transactions empties a list, and what a validator *)
(* signs under lists that are on was on both of them.                      *)
(***************************************************************************)
EXTENDS GateGovernance, Allowlist, FiniteSetTheorems, TLAPS

\* A timelock entry is always backed by an announcement of the same action, made
\* Delay before and, for an upgrade, of the pinned code and calldata.
NoticeMatches ==
  \A a \in ActionId : readyAt[a] # 0 =>
    /\ notice[a].at # 0
    /\ readyAt[a] = notice[a].at + Delay

PinMatches ==
  \A i \in Impl : readyAt[<<"upgrade", i>>] # 0 => notice[<<"upgrade", i>>].what = pin[i]

IInv == TypeOK /\ NoticeMatches /\ PinMatches

-----------------------------------------------------------------------------
(* The identifiers *)

LEMMA Ids ==
  /\ \A v \in Validator : <<"addValidator", v>> \in ActionId
  /\ \A t \in 1 .. Cardinality(Validator) : <<"lowerThreshold", t>> \in ActionId
  /\ \A d \in Asset, t \in Token : <<"setLocalToken", d, t>> \in ActionId
  /\ \A t \in Token, s \in Scale : <<"setBridgeDecimals", t, s>> \in ActionId
  /\ \A h \in Account \cup {NoAccount} : <<"setGuardian", h>> \in ActionId
  /\ \A i \in Impl : <<"upgrade", i>> \in ActionId
BY DEF ActionId

\* An identifier that says it is an upgrade is one.
LEMMA UpgradeIds ==
  ASSUME NEW a \in ActionId, a[1] = "upgrade"
  PROVE  \E i \in Impl : a = <<"upgrade", i>> /\ a[2] = i
BY DEF ActionId

-----------------------------------------------------------------------------
(* Powers and the timelock *)

\* What a call that takes one announced power does to the timelock.
Takes(a) ==
  /\ a[1] # "upgrade"
  /\ consume(a)
  /\ Gained \subseteq {a}
  /\ UNCHANGED pin

Installs(i, data) ==
  /\ AsPinned(i, data)
  /\ consume(<<"upgrade", i>>)
  /\ pin' = [pin EXCEPT ![i] = NoPin]
  /\ installed' = <<i, [code |-> codehash[i], data |-> data]>>
  /\ Gained \subseteq {<<"upgrade", i>>}

\* Every step but a schedule and a veto either grants nothing and leaves the
\* timelock alone, or takes exactly one matured entry.
LEMMA GainIsConsumed ==
  ASSUME TypeOK, OwnerCall \/ Environment
  PROVE  \/ Gained = {} /\ UNCHANGED <<readyAt, pin>>
         \/ \E a \in ActionId : Takes(a)
         \/ \E i \in Impl, data \in Data : Installs(i, data)
<1> USE DEF TypeOK
<1>1. ASSUME NEW v \in Validator, AddValidator(v)
      PROVE  Takes(<<"addValidator", v>>)
  BY <1>1 DEF AddValidator, Takes, Gained, consume, roles, registry, upgrades
<1>2. ASSUME NEW v \in Validator, RemoveValidator(v)
      PROVE  Gained = {} /\ UNCHANGED <<readyAt, pin>>
  BY <1>2 DEF RemoveValidator, Gained, roles, registry, upgrades
<1>3. ASSUME NEW t \in 0 .. Cardinality(Validator), setThreshold(t), t < threshold
      PROVE  Takes(<<"lowerThreshold", t>>)
  BY <1>3 DEF setThreshold, Takes, Gained, consume, roles, registry, upgrades
<1>4. ASSUME NEW t \in 0 .. Cardinality(Validator), setThreshold(t), ~(t < threshold)
      PROVE  Gained = {} /\ UNCHANGED <<readyAt, pin>>
  BY <1>4 DEF setThreshold, Gained, roles, registry, upgrades
<1>5. ASSUME NEW d \in Asset, NEW t \in Token, setLocalToken(d, t)
      PROVE  \/ Gained = {} /\ UNCHANGED <<readyAt, pin>>
             \/ Takes(<<"setLocalToken", d, t>>)
  BY <1>5 DEF setLocalToken, register, free, Takes, Gained, consume, roles, quorum, upgrades
<1>6. ASSUME NEW t \in Token, NEW s \in Scale, setBridgeDecimals(t, s)
      PROVE  \/ Gained = {} /\ UNCHANGED <<readyAt, pin>>
             \/ Takes(<<"setBridgeDecimals", t, s>>)
  BY <1>6 DEF setBridgeDecimals, register, Takes, Gained, consume, roles, quorum, upgrades
<1>7. ASSUME NEW g \in Account \cup {NoAccount}, setGuardian(g)
      PROVE  \/ Gained = {} /\ UNCHANGED <<readyAt, pin>>
             \/ Takes(<<"setGuardian", g>>)
  BY <1>7 DEF setGuardian, mayAppoint, Takes, Gained, consume, quorum, registry, upgrades
<1>8. ASSUME NEW i \in Impl, NEW data \in Data, upgradeToAndCall(i, data)
      PROVE  Installs(i, data)
  BY <1>8 DEF upgradeToAndCall, Installs, Gained, consume, roles, quorum, registry
<1>9. ASSUME \/ \E o \in Account : transferOwnership(o)
             \/ seal
             \/ Environment
      PROVE  Gained = {} /\ UNCHANGED <<readyAt, pin>>
  BY <1>9 DEF transferOwnership, seal, Environment, acceptOwnership, Redeploy, Tick, Gained,
              roles, quorum, registry, upgrades
<1>10. \A t \in 0 .. Cardinality(Validator) :
         setThreshold(t) => t \in 1 .. Cardinality(Validator)
  BY DEF setThreshold
<1>11. QED
  BY <1>1, <1>2, <1>3, <1>4, <1>5, <1>6, <1>7, <1>8, <1>9, <1>10, Ids DEF OwnerCall

-----------------------------------------------------------------------------
(* Type correctness *)

LEMMA InitType == Init => TypeOK
<1> SUFFICES ASSUME Init PROVE TypeOK
  OBVIOUS
<1>1. Cardinality(Founders) \in Nat
  BY GovernanceAssumption, FS_Subset, FS_CardinalityType
<1>2. NoPin \in Pin
  BY DEF Pin
<1>3. NoNotice \in [at: 0 .. MaxTime, what: Pin]
  BY <1>2, GovernanceAssumption DEF NoNotice
<1>4. notice \in [ActionId -> [at: 0 .. MaxTime, what: Pin]]
  BY <1>3 DEF Init
<1>5. readyAt \in [ActionId -> 0 .. (MaxTime + Delay)]
  BY GovernanceAssumption DEF Init
<1>6. isValidator \subseteq Validator /\ validatorCount \in Nat /\ threshold \in Nat
  BY <1>1, GovernanceAssumption DEF Init
<1>7. pin \in [Impl -> Pin] /\ codehash \in [Impl -> Code] /\ installed \in (Impl \cup {Unset}) \X Pin
  BY <1>2 DEF Init
<1>8. /\ now \in 1 .. MaxTime /\ owner \in Account
      /\ pendingOwner \in Account \cup {NoAccount} /\ guardian \in Account \cup {NoAccount}
      /\ tokenOf \in [Asset -> Token \cup {Unset}] /\ scaleOf \in [Token -> Scale \cup {Unset}]
  BY GovernanceAssumption DEF Init
<1>9. setupDeadline = 1 + SetupWindow /\ schedules \in 0 .. MaxSchedules
  BY GovernanceAssumption DEF Init
<1>10. isSealed \in BOOLEAN /\ unguarded \in BOOLEAN
  BY Zenon DEF Init
<1>11. QED
  BY <1>4, <1>5, <1>6, <1>7, <1>8, <1>9, <1>10, Zenon DEF TypeOK

LEMMA TypeStep ==
  ASSUME TypeOK, Next
  PROVE  TypeOK'
<1> USE GovernanceAssumption DEF TypeOK
<1>1. NoPin \in Pin /\ \A k \in Code, data \in Data : [code |-> k, data |-> data] \in Pin
  BY DEF Pin
<1>2. ASSUME OwnerCall \/ Environment, Withdraw(Gained)
      PROVE  readyAt' \in [ActionId -> 0 .. (MaxTime + Delay)]
  <2>1. \A a \in ActionId : consume(a) => readyAt' \in [ActionId -> 0 .. (MaxTime + Delay)]
    BY DEF consume
  <2>2. QED
    BY <1>2, <2>1, GainIsConsumed, Ids DEF Takes, Installs
<1>3. ASSUME OwnerCall \/ Environment, Withdraw(Gained)
      PROVE  notice' \in [ActionId -> [at: 0 .. MaxTime, what: Pin]]
  BY <1>1, <1>3 DEF Withdraw, NoNotice
<1>4. unguarded' \in BOOLEAN
  BY DEF Next, Watch
<1>5. ASSUME OwnerCall, Withdraw(Gained)
      PROVE  TypeOK'
  <2>1. ASSUME NEW v \in Validator, AddValidator(v) PROVE TypeOK'
    BY <1>2, <1>3, <1>4, <1>5, <2>1 DEF AddValidator, roles, registry, upgrades
  <2>2. ASSUME NEW v \in Validator, RemoveValidator(v) PROVE TypeOK'
    BY <1>2, <1>3, <1>4, <1>5, <2>2 DEF RemoveValidator, mayRemove, roles, registry, upgrades
  <2>3. ASSUME NEW t \in 0 .. Cardinality(Validator), setThreshold(t) PROVE TypeOK'
    <3>1. t \in Nat
      BY FS_CardinalityType
    <3>2. QED
      BY <1>2, <1>3, <1>4, <1>5, <2>3, <3>1 DEF setThreshold, roles, registry, upgrades
  <2>4. ASSUME NEW d \in Asset, NEW t \in Token, setLocalToken(d, t) PROVE TypeOK'
    BY <1>2, <1>3, <1>4, <1>5, <2>4 DEF setLocalToken, roles, quorum, upgrades
  <2>5. ASSUME NEW t \in Token, NEW s \in Scale, setBridgeDecimals(t, s) PROVE TypeOK'
    BY <1>2, <1>3, <1>4, <1>5, <2>5 DEF setBridgeDecimals, roles, quorum, upgrades
  <2>6. ASSUME NEW g \in Account \cup {NoAccount}, setGuardian(g) PROVE TypeOK'
    BY <1>2, <1>3, <1>4, <1>5, <2>6 DEF setGuardian, quorum, registry, upgrades
  <2>7. ASSUME NEW o \in Account, transferOwnership(o) PROVE TypeOK'
    BY <1>2, <1>3, <1>4, <1>5, <2>7 DEF transferOwnership, quorum, registry, upgrades
  <2>8. ASSUME NEW i \in Impl, NEW data \in Data, upgradeToAndCall(i, data) PROVE TypeOK'
    BY <1>1, <1>2, <1>3, <1>4, <1>5, <2>8 DEF upgradeToAndCall, roles, quorum, registry
  <2>9. ASSUME seal PROVE TypeOK'
    BY <1>2, <1>3, <1>4, <1>5, <2>9 DEF seal, roles, quorum, registry, upgrades
  <2>10. QED
    BY <1>5, <2>1, <2>2, <2>3, <2>4, <2>5, <2>6, <2>7, <2>8, <2>9 DEF OwnerCall
<1>6. ASSUME Environment, Withdraw(Gained)
      PROVE  TypeOK'
  <2>1. ASSUME acceptOwnership PROVE TypeOK'
    BY <1>2, <1>3, <1>4, <1>6, <2>1 DEF acceptOwnership, quorum, registry, upgrades
  <2>2. ASSUME NEW i \in Impl, NEW k \in Code, Redeploy(i, k) PROVE TypeOK'
    BY <1>2, <1>3, <1>4, <1>6, <2>2 DEF Redeploy, roles, quorum, registry
  <2>3. ASSUME Tick PROVE TypeOK'
    BY <1>2, <1>3, <1>4, <1>6, <2>3 DEF Tick, roles, quorum, registry, upgrades
  <2>4. QED
    BY <1>6, <2>1, <2>2, <2>3 DEF Environment
<1>7. ASSUME NEW a \in ActionId, ScheduleGovernance(a), Announce(a)
      PROVE  TypeOK'
  <2>1. notice' \in [ActionId -> [at: 0 .. MaxTime, what: Pin]]
    <3>1. [at |-> now, what |-> NoPin] \in [at: 0 .. MaxTime, what: Pin]
      BY <1>1
    <3>2. QED
      BY <1>7, <3>1 DEF ScheduleGovernance, Announce
  <2>2. readyAt' \in [ActionId -> 0 .. (MaxTime + Delay)]
    BY <1>7 DEF ScheduleGovernance, schedule
  <2>3. schedules' \in 0 .. MaxSchedules
    BY <1>7 DEF ScheduleGovernance, schedule
  <2>4. QED
    BY <1>4, <1>7, <2>1, <2>2, <2>3 DEF ScheduleGovernance, roles, quorum, registry, upgrades
<1>8. ASSUME NEW i \in Impl, NEW data \in Data, scheduleUpgrade(i, data),
             Announce(<<"upgrade", i>>)
      PROVE  TypeOK'
  <2>1. pin' \in [Impl -> Pin]
    BY <1>1, <1>8 DEF scheduleUpgrade
  <2>2. notice' \in [ActionId -> [at: 0 .. MaxTime, what: Pin]]
    <3>1. [at |-> now, what |-> pin'[i]] \in [at: 0 .. MaxTime, what: Pin]
      BY <2>1
    <3>2. QED
      BY <1>8, <3>1 DEF Announce
  <2>3. readyAt' \in [ActionId -> 0 .. (MaxTime + Delay)]
    BY <1>8, Ids DEF scheduleUpgrade, schedule
  <2>4. schedules' \in 0 .. MaxSchedules
    BY <1>8 DEF scheduleUpgrade, schedule
  <2>5. QED
    BY <1>4, <1>8, <2>1, <2>2, <2>3, <2>4 DEF scheduleUpgrade, roles, quorum, registry
<1>9. ASSUME NEW a \in ActionId, CancelScheduled(a), Withdraw({a})
      PROVE  TypeOK'
  <2>1. notice' \in [ActionId -> [at: 0 .. MaxTime, what: Pin]]
    BY <1>1, <1>9 DEF Withdraw, NoNotice
  <2>2. pin' \in [Impl -> Pin]
    BY <1>1, <1>9, UpgradeIds DEF CancelScheduled
  <2>3. readyAt' \in [ActionId -> 0 .. (MaxTime + Delay)]
    BY <1>9 DEF CancelScheduled
  <2>4. QED
    BY <1>4, <1>9, <2>1, <2>2, <2>3 DEF CancelScheduled, roles, quorum, registry
<1>10. QED
  BY <1>5, <1>6, <1>7, <1>8, <1>9 DEF Next, Schedule, Veto

\* The governance storage is well typed in every reachable state.
THEOREM GovernanceTypeCorrect == Spec => []TypeOK
<1>1. TypeOK /\ [Next]_vars => TypeOK'
  <2>1. ASSUME TypeOK, UNCHANGED vars PROVE TypeOK'
    BY <2>1 DEF TypeOK, vars
  <2>2. QED
    BY <2>1, TypeStep
<1>2. QED
  BY <1>1, InitType, PTL DEF Spec

-----------------------------------------------------------------------------
(* Validators and threshold *)

QuorumInv == isValidator \subseteq Validator /\ threshold \in Nat /\ ThresholdReachable

LEMMA QuorumStep ==
  ASSUME TypeOK, QuorumInv, Next
  PROVE  QuorumInv'
<1> USE GovernanceAssumption DEF QuorumInv, ThresholdReachable, TypeOK
<1>1. IsFiniteSet(isValidator) /\ Cardinality(isValidator) \in Nat
  BY FS_Subset, FS_CardinalityType
<1>2. ASSUME NEW v \in Validator, AddValidator(v) PROVE QuorumInv'
  <2>1. Cardinality(isValidator \cup {v}) = Cardinality(isValidator) + 1
    BY <1>1, <1>2, FS_AddElement DEF AddValidator
  <2>2. QED
    BY <1>1, <1>2, <2>1 DEF AddValidator
<1>3. ASSUME NEW v \in Validator, RemoveValidator(v) PROVE QuorumInv'
  <2>1. Cardinality(isValidator \ {v}) = Cardinality(isValidator) - 1
    BY <1>1, <1>3, FS_RemoveElement DEF RemoveValidator
  <2>2. QED
    BY <1>1, <1>3, <2>1 DEF RemoveValidator, mayRemove
<1>4. ASSUME NEW t \in 0 .. Cardinality(Validator), setThreshold(t) PROVE QuorumInv'
  <2>1. t \in Nat
    BY FS_CardinalityType
  <2>2. QED
    BY <1>4, <2>1 DEF setThreshold
<1>5. ASSUME UNCHANGED quorum PROVE QuorumInv'
  BY <1>5 DEF quorum
<1>6. ASSUME NEW d \in Asset, NEW t \in Token, setLocalToken(d, t) PROVE UNCHANGED quorum
  BY <1>6 DEF setLocalToken
<1>7. ASSUME NEW t \in Token, NEW s \in Scale, setBridgeDecimals(t, s) PROVE UNCHANGED quorum
  BY <1>7 DEF setBridgeDecimals
<1>8. ASSUME NEW g \in Account \cup {NoAccount}, setGuardian(g) PROVE UNCHANGED quorum
  BY <1>8 DEF setGuardian
<1>9. ASSUME \/ \E o \in Account : transferOwnership(o)
             \/ \E i \in Impl, data \in Data : upgradeToAndCall(i, data)
             \/ seal
             \/ Environment
             \/ Schedule
             \/ Veto
      PROVE  UNCHANGED quorum
  BY <1>9 DEF transferOwnership, upgradeToAndCall, seal, Environment, acceptOwnership, Redeploy,
              Tick, Schedule, ScheduleGovernance, scheduleUpgrade, Veto, CancelScheduled
<1>10. QED
  BY <1>2, <1>3, <1>4, <1>5, <1>6, <1>7, <1>8, <1>9, Zenon DEF Next, OwnerCall

\* setValidator and setThreshold keep a quorum reachable: whatever the owner calls,
\* 1 <= threshold <= validatorCount, and validatorCount counts the validators.
THEOREM QuorumStaysReachable == Spec => []ThresholdReachable
<1>1. Init => QuorumInv
  <2>1. ASSUME Init PROVE QuorumInv
    <3>1. Cardinality(Founders) \in Nat
      BY GovernanceAssumption, FS_Subset, FS_CardinalityType
    <3>2. QED
      BY <2>1, <3>1, GovernanceAssumption DEF Init, QuorumInv, ThresholdReachable
  <2>2. QED
    BY <2>1
<1>2. TypeOK /\ QuorumInv /\ [Next]_vars => QuorumInv'
  <2>1. ASSUME QuorumInv, UNCHANGED vars PROVE QuorumInv'
    BY <2>1 DEF QuorumInv, ThresholdReachable, vars
  <2>2. QED
    BY <2>1, QuorumStep
<1>3. QuorumInv => ThresholdReachable
  BY DEF QuorumInv
<1>4. QED
  BY <1>1, <1>2, <1>3, GovernanceTypeCorrect, PTL DEF Spec

-----------------------------------------------------------------------------
(* The timelock *)

LEMMA NoticeInit == Init => IInv
<1> SUFFICES ASSUME Init PROVE IInv
  OBVIOUS
<1>1. \A a \in ActionId : readyAt[a] = 0
  BY DEF Init
<1>2. QED
  BY <1>1, InitType, Ids DEF IInv, NoticeMatches, PinMatches

LEMMA NoticeStep ==
  ASSUME IInv, Next
  PROVE  IInv'
<1> USE DEF IInv
<1>1. TypeOK'
  BY TypeStep
<1>2. ASSUME OwnerCall \/ Environment, Withdraw(Gained)
      PROVE  NoticeMatches' /\ PinMatches'
  <2>1. CASE Gained = {} /\ UNCHANGED <<readyAt, pin>>
    BY <1>2, <2>1, Ids DEF Withdraw, NoticeMatches, PinMatches
  <2>2. ASSUME NEW a \in ActionId, Takes(a)
        PROVE  NoticeMatches' /\ PinMatches'
    <3>1. \A b \in ActionId : readyAt'[b] # 0 =>
            b # a /\ readyAt'[b] = readyAt[b] /\ notice'[b] = notice[b]
      BY <1>2, <2>2 DEF Takes, consume, Withdraw, TypeOK
    <3>2. QED
      BY <2>2, <3>1, Ids DEF Takes, NoticeMatches, PinMatches
  <2>3. ASSUME NEW i \in Impl, NEW data \in Data, Installs(i, data)
        PROVE  NoticeMatches' /\ PinMatches'
    <3>1. \A b \in ActionId : readyAt'[b] # 0 =>
            b # <<"upgrade", i>> /\ readyAt'[b] = readyAt[b] /\ notice'[b] = notice[b]
      BY <1>2, <2>3, Ids DEF Installs, consume, Withdraw, TypeOK
    <3>2. \A j \in Impl : j # i => pin'[j] = pin[j]
      BY <2>3 DEF Installs, TypeOK
    <3>3. QED
      BY <3>1, <3>2, Ids DEF NoticeMatches, PinMatches
  <2>4. QED
    BY <1>2, <2>1, <2>2, <2>3, GainIsConsumed
<1>3. ASSUME NEW a \in ActionId, ScheduleGovernance(a), Announce(a)
      PROVE  NoticeMatches' /\ PinMatches'
  <2>1. \A b \in ActionId : b # a => readyAt'[b] = readyAt[b] /\ notice'[b] = notice[b]
    BY <1>3 DEF ScheduleGovernance, schedule, Announce, TypeOK
  <2>2. readyAt'[a] = now + Delay /\ notice'[a].at = now /\ now # 0
    BY <1>3 DEF ScheduleGovernance, schedule, Announce, TypeOK
  <2>3. \A i \in Impl : <<"upgrade", i>> # a
    BY <1>3 DEF ScheduleGovernance
  <2>4. pin' = pin
    BY <1>3 DEF ScheduleGovernance, upgrades
  <2>5. QED
    BY <2>1, <2>2, <2>3, <2>4, Ids DEF NoticeMatches, PinMatches
<1>4. ASSUME NEW i \in Impl, NEW data \in Data, scheduleUpgrade(i, data),
             Announce(<<"upgrade", i>>)
      PROVE  NoticeMatches' /\ PinMatches'
  <2> DEFINE a == <<"upgrade", i>>
  <2>1. \A b \in ActionId : b # a => readyAt'[b] = readyAt[b] /\ notice'[b] = notice[b]
    BY <1>4, Ids DEF scheduleUpgrade, schedule, Announce, TypeOK
  <2>2. readyAt'[a] = now + Delay /\ now # 0
    BY <1>4, Ids DEF scheduleUpgrade, schedule, TypeOK
  <2>3. notice'[a].at = now /\ notice'[a].what = pin'[i]
    BY <1>4, Ids DEF Announce, TypeOK
  <2>4. \A j \in Impl : j # i => pin'[j] = pin[j] /\ <<"upgrade", j>> # a
    BY <1>4 DEF scheduleUpgrade, TypeOK
  <2>5. QED
    BY <2>1, <2>2, <2>3, <2>4, Ids DEF NoticeMatches, PinMatches
<1>5. ASSUME NEW a \in ActionId, CancelScheduled(a), Withdraw({a})
      PROVE  NoticeMatches' /\ PinMatches'
  <2>1. \A b \in ActionId : readyAt'[b] # 0 =>
          b # a /\ readyAt'[b] = readyAt[b] /\ notice'[b] = notice[b]
    BY <1>5 DEF CancelScheduled, Withdraw, TypeOK
  <2>2. \A j \in Impl : a # <<"upgrade", j>> => pin'[j] = pin[j]
    BY <1>5, UpgradeIds DEF CancelScheduled, TypeOK
  <2>3. QED
    BY <2>1, <2>2, Ids DEF NoticeMatches, PinMatches
<1>6. QED
  BY <1>1, <1>2, <1>3, <1>4, <1>5 DEF Next, Schedule, Veto

\* One step takes only announced powers.
LEMMA TakenAsAnnounced ==
  ASSUME IInv, Next, NEW a \in Gained
  PROVE  /\ notice[a].at # 0
         /\ notice[a].at + Delay <= now /\ now <= notice[a].at + Delay + Grace
         /\ a[1] = "upgrade" => installed'[2] = notice[a].what
<1> USE DEF IInv
<1>1. CASE Schedule \/ Veto
  <2>1. UNCHANGED <<roles, quorum, registry, installed>>
    BY <1>1 DEF Schedule, ScheduleGovernance, scheduleUpgrade, Veto, CancelScheduled, upgrades
  <2>2. Gained = {}
    BY <2>1 DEF TypeOK, Gained, roles, quorum, registry
  <2>3. QED
    BY <2>2
<1>2. CASE OwnerCall \/ Environment
  <2>1. ASSUME NEW b \in ActionId, Takes(b), a = b
        PROVE  /\ notice[a].at # 0
               /\ notice[a].at + Delay <= now /\ now <= notice[a].at + Delay + Grace
               /\ a[1] # "upgrade"
    BY <2>1 DEF Takes, consume, Matured, NoticeMatches
  <2>2. ASSUME NEW i \in Impl, NEW data \in Data, Installs(i, data), a = <<"upgrade", i>>
        PROVE  /\ notice[a].at # 0
               /\ notice[a].at + Delay <= now /\ now <= notice[a].at + Delay + Grace
               /\ installed'[2] = notice[a].what
    <3>1. notice[a].at # 0 /\ readyAt[a] = notice[a].at + Delay
      BY <2>2, Ids DEF Installs, consume, Matured, NoticeMatches
    <3>2. notice[a].what = pin[i]
      BY <2>2 DEF Installs, consume, Matured, PinMatches
    <3>3. QED
      BY <2>2, <3>1, <3>2 DEF Installs, AsPinned, consume, Matured
  <2>3. QED
    BY <1>2, <2>1, <2>2, GainIsConsumed DEF Takes, Installs
<1>3. QED
  BY <1>1, <1>2 DEF Next

\* The timelock cannot be walked around: a new validator, a lower threshold, an
\* upgrade and, after setup, a registration or a new guardian, is taken only as it
\* was announced, Delay to Delay + Grace before, and at most once per announcement.
THEOREM TimelockHolds == Spec => EveryPowerWasAnnounced
<1>1. IInv /\ [Next]_vars => IInv'
  <2>1. ASSUME IInv, UNCHANGED vars PROVE IInv'
    BY <2>1 DEF IInv, TypeOK, NoticeMatches, PinMatches, vars
  <2>2. QED
    BY <2>1, NoticeStep
<1>2. IInv /\ [Next]_vars =>
        [\A a \in Gained :
           /\ notice[a].at # 0
           /\ notice[a].at + Delay <= now /\ now <= notice[a].at + Delay + Grace
           /\ a[1] = "upgrade" => installed'[2] = notice[a].what]_vars
  BY TakenAsAnnounced
<1>3. QED
  BY <1>1, <1>2, NoticeInit, PTL DEF Spec, EveryPowerWasAnnounced

-----------------------------------------------------------------------------
(* A hostile owner *)

\* While a vigilant guardian was seated whenever something matured, nothing that is
\* scheduled is ripe: it was vetoed at the latest when its delay ran out.
NothingRipe ==
  Vigilant /\ ~unguarded => \A a \in ActionId : readyAt[a] # 0 => readyAt[a] > now

\* A registered token has a wire scale.
Scaled == \A d \in Asset : tokenOf[d] # Unset => scaleOf[tokenOf[d]] # Unset

\* No step but the clock's makes a schedule ripe, and the clock's only past an empty seat.
LEMMA RipeStep ==
  ASSUME TypeOK, NothingRipe, Next
  PROVE  NothingRipe'
<1> SUFFICES ASSUME Vigilant, ~unguarded', NEW a \in ActionId, readyAt'[a] # 0
             PROVE  readyAt'[a] > now'
  BY DEF NothingRipe
<1> USE GovernanceAssumption DEF TypeOK
<1>1. ~unguarded /\ (guardian' = NoAccount => ~(readyAt'[a] <= now'))
  BY DEF Next, Watch
<1>2. readyAt[a] # 0 => readyAt[a] > now
  BY <1>1 DEF NothingRipe
<1>3. CASE Schedule
  <2>1. now' = now /\ (readyAt'[a] = now + Delay \/ readyAt'[a] = readyAt[a])
    BY <1>3, Ids DEF Schedule, ScheduleGovernance, scheduleUpgrade, schedule
  <2>2. QED
    BY <1>2, <2>1
<1>4. CASE Veto
  BY <1>2, <1>4 DEF Veto, CancelScheduled
<1>5. CASE Tick
  <2>1. readyAt' = readyAt /\ now' = now + 1 /\ guardian' = guardian
    BY <1>5 DEF Tick, roles
  <2>2. CASE guardian = NoAccount
    BY <1>1, <2>1, <2>2
  <2>3. CASE guardian # NoAccount
    <3>1. readyAt[a] # now + 1
      BY <1>5, <2>3 DEF Tick
    <3>2. QED
      BY <1>2, <2>1, <3>1
  <2>4. QED
    BY <2>2, <2>3
<1>6. CASE (OwnerCall \/ Environment) /\ ~Tick
  <2>1. now' = now
    BY <1>6 DEF OwnerCall, Environment, AddValidator, RemoveValidator, setThreshold,
                setLocalToken, setBridgeDecimals, setGuardian, transferOwnership,
                upgradeToAndCall, seal, acceptOwnership, Redeploy
  <2>2. readyAt'[a] = readyAt[a]
    <3>1. \A b \in ActionId : consume(b) => readyAt'[a] \in {0, readyAt[a]}
      BY DEF consume
    <3>2. QED
      BY <1>6, <3>1, GainIsConsumed, Ids DEF Takes, Installs
  <2>3. QED
    BY <1>2, <2>1, <2>2
<1>7. QED
  BY <1>3, <1>4, <1>5, <1>6 DEF Next

\* Where nothing is ripe, no call grants a power.
LEMMA NothingGained ==
  ASSUME TypeOK, NothingRipe, Next, Vigilant, ~unguarded
  PROVE  Gained = {}
<1>1. CASE Schedule \/ Veto
  <2>1. UNCHANGED <<roles, quorum, registry, installed>>
    BY <1>1 DEF Schedule, ScheduleGovernance, scheduleUpgrade, Veto, CancelScheduled, upgrades
  <2>2. QED
    BY <2>1 DEF TypeOK, Gained, roles, quorum, registry
<1>2. CASE OwnerCall \/ Environment
  <2>1. \A a \in ActionId : ~Matured(a)
    BY DEF NothingRipe, Matured, TypeOK
  <2>2. QED
    BY <1>2, <2>1, GainIsConsumed, Ids DEF Takes, Installs, consume
<1>3. QED
  BY <1>1, <1>2 DEF Next

\* What a step may do to the registry: fill an empty entry, a token's only if it has a scale.
LEMMA RegistryStep ==
  ASSUME TypeOK, Scaled, Next
  PROVE  /\ \A d \in Asset : tokenOf[d] # Unset => tokenOf'[d] = tokenOf[d]
         /\ \A t \in Token : scaleOf[t] # Unset => scaleOf'[t] = scaleOf[t]
         /\ Scaled'
<1> USE DEF TypeOK, Scaled
<1>1. CASE UNCHANGED registry
  BY <1>1 DEF registry
<1>2. ASSUME NEW d \in Asset, NEW t \in Token, setLocalToken(d, t)
      PROVE  /\ \A e \in Asset : tokenOf[e] # Unset => tokenOf'[e] = tokenOf[e]
             /\ scaleOf' = scaleOf
             /\ Scaled'
  BY <1>2 DEF setLocalToken, free
<1>3. ASSUME NEW t \in Token, NEW s \in Scale, setBridgeDecimals(t, s)
      PROVE  /\ tokenOf' = tokenOf
             /\ \A u \in Token : scaleOf[u] # Unset => scaleOf'[u] = scaleOf[u]
             /\ Scaled'
  BY <1>3 DEF setBridgeDecimals
<1>4. ASSUME \/ \E v \in Validator : AddValidator(v) \/ RemoveValidator(v)
             \/ \E t \in 0 .. Cardinality(Validator) : setThreshold(t)
             \/ \E g \in Account \cup {NoAccount} : setGuardian(g)
             \/ \E o \in Account : transferOwnership(o)
             \/ \E i \in Impl, data \in Data : upgradeToAndCall(i, data)
             \/ seal \/ Environment \/ Schedule \/ Veto
      PROVE  UNCHANGED registry
  BY <1>4 DEF AddValidator, RemoveValidator, setThreshold, setGuardian, transferOwnership,
              upgradeToAndCall, seal, Environment, acceptOwnership, Redeploy, Tick, Schedule,
              ScheduleGovernance, scheduleUpgrade, Veto, CancelScheduled
<1>5. QED
  BY <1>1, <1>2, <1>3, <1>4 DEF Next, OwnerCall

\* Timelock and veto together (_consumeGovernance, cancelScheduledGovernance), and the write-once
\* registry (setLocalToken, setBridgeDecimals): under a guardian who watches, a hostile owner gains
\* nothing, and with or without one it rewrites no registration.
THEOREM HostileOwnerTheorem == Spec => HostileOwnerIsContained
<1>1. Init => NothingRipe /\ Scaled
  BY DEF Init, NothingRipe, Scaled
<1>2. TypeOK /\ NothingRipe /\ Scaled /\ [Next]_vars => NothingRipe' /\ Scaled'
  <2>1. ASSUME NothingRipe, Scaled, UNCHANGED vars PROVE NothingRipe' /\ Scaled'
    BY <2>1 DEF NothingRipe, Scaled, vars
  <2>2. QED
    BY <2>1, RipeStep, RegistryStep
<1>3. TypeOK /\ NothingRipe /\ [Next]_vars =>
        [Vigilant /\ guardian # NoAccount /\ ~unguarded => Gained = {}]_vars
  BY NothingGained
<1>4. TypeOK /\ Scaled /\ [Next]_vars =>
        [/\ \A d \in Asset : tokenOf[d] # Unset => tokenOf'[d] = tokenOf[d]
         /\ \A t \in Token : scaleOf[t] # Unset => scaleOf'[t] = scaleOf[t]
         /\ \A d \in Asset : tokenOf'[d] # Unset => scaleOf'[tokenOf'[d]] # Unset]_vars
  BY RegistryStep DEF Scaled
<1>5. QED
  BY <1>1, <1>2, <1>3, <1>4, GovernanceTypeCorrect, PTL
     DEF Spec, HostileOwnerIsContained, VigilantGuardianHolds, RegistryIsFinal

-----------------------------------------------------------------------------
(* The allowlists of the sig-store                                           *)

Row == Tokens \cup Pairs
Transaction == [step : {"deleted", "counted"}, table : Dimension, row : Row]
List == [tokens : SUBSET Row, chains : SUBSET Row]
Fetched == {NoView} \cup [step : {"tokens"}, tokens : SUBSET Row] \cup [step : {"off", "enforce"}, list : List]

ListsOK ==
    /\ table \in List /\ locked \in [Dimension -> Sessions \cup {Free}]
    /\ edit \in [Sessions -> {NoEdit} \cup Transaction]
    /\ listed \in [tokens : SUBSET Row, chains : SUBSET Row, on : BOOLEAN]
    /\ fetched \in Fetched

\* A removal has the table to itself, and leaves something.
RemovalsOK ==
    \A s \in Sessions : edit[s] # NoEdit =>
      /\ locked[edit[s].table] = s
      /\ edit[s].step = "counted" => table[edit[s].table] \ {edit[s].row} # {}

\* Both lists had entries when they were asked for, or are insisted on.
Enforced == required \/ listed.on

Pinned(list) == policy.tokens \subseteq list.tokens /\ policy.chains \subseteq list.chains

\* What a fetch saw was listed at some time since it began.
FetchOK ==
    /\ fetched # NoView => /\ table.tokens \subseteq listed.tokens /\ table.chains \subseteq listed.chains
                           /\ listed.on => table.chains # {}
    /\ fetched.step = "tokens" => /\ fetched.tokens \subseteq listed.tokens
                                  /\ listed.on /\ ~ required => fetched.tokens # {}
    /\ fetched.step = "off" => ~ Enforced
    /\ fetched.step = "enforce" =>
         /\ fetched.list.tokens \subseteq listed.tokens /\ fetched.list.chains \subseteq listed.chains
         /\ Enforced => fetched.list.tokens # {} /\ fetched.list.chains # {}
         /\ required => Pinned(fetched.list)

AllowlistInv == ListsOK /\ RemovalsOK /\ FetchOK /\ foreign = {} /\ configured # {}

LEMMA ListFields ==
    ASSUME ListsOK, NEW d \in Dimension
    PROVE  /\ table[d] \in SUBSET Row
           /\ table = [tokens |-> table.tokens, chains |-> table.chains]
           /\ listed = [tokens |-> listed.tokens, chains |-> listed.chains, on |-> listed.on]
BY DEF ListsOK, List, Dimension

\* Only an operator's credential adds or removes.
LEMMA OnlyOperatorsEdit ==
    ASSUME configured # {}, NEW c, may(c, "add") \/ may(c, "remove")
    PROVE  c \in {"admin", "legacy"}
BY DEF may, allows, build_app, auth

LEMMA AddInductive ==
    ASSUME AllowlistInv, NEW c, NEW d \in Dimension, NEW r \in Rows(d), add(c, d, r)
    PROVE  AllowlistInv' /\ (\A x \in Dimension : table[x] # {} => table'[x] # {})
<1> USE DEF AllowlistInv
<1>1. /\ table' = [table EXCEPT ![d] = @ \cup {r}] /\ listed' = [listed EXCEPT ![d] = @ \cup {r}]
      /\ locked[d] = Free
      /\ UNCHANGED <<configured, policy, locked, edit, fetched, todo, signed, passed>>
  BY DEF add, table_unlocked
<1>2. r \in Row
  BY DEF Rows, Row
<1>3. foreign' = {}
  BY OnlyOperatorsEdit DEF add
<1>4. /\ table' \in List /\ \A x \in Dimension : table[x] \subseteq table'[x]
      /\ listed' \in [tokens : SUBSET Row, chains : SUBSET Row, on : BOOLEAN]
  <2>1. CASE d = "tokens"
    BY <1>1, <1>2, <2>1 DEF ListsOK, List, Dimension
  <2>2. CASE d = "chains"
    BY <1>1, <1>2, <2>2 DEF ListsOK, List, Dimension
  <2>3. QED
    BY <2>1, <2>2 DEF Dimension
<1>5. ListsOK'
  BY <1>1, <1>4 DEF ListsOK
<1>6. RemovalsOK'
  <2>1. SUFFICES ASSUME NEW s \in Sessions, edit[s] # NoEdit
                 PROVE  /\ locked[edit[s].table] = s
                        /\ edit[s].step = "counted" => table'[edit[s].table] \ {edit[s].row} # {}
    BY <1>1 DEF RemovalsOK
  <2>2. edit[s].table \in Dimension /\ table[edit[s].table] \subseteq table'[edit[s].table]
    BY <1>4, <2>1 DEF ListsOK, Transaction
  <2>3. QED
    BY <2>1, <2>2 DEF RemovalsOK
<1>7. /\ fetched # NoView => table'.tokens \subseteq listed'.tokens /\ table'.chains \subseteq listed'.chains
      /\ listed.tokens \subseteq listed'.tokens /\ listed.chains \subseteq listed'.chains /\ listed'.on = listed.on
      /\ table.chains \subseteq table'.chains
  <2>1. CASE d = "tokens"
    BY <1>1, <2>1 DEF ListsOK, List, FetchOK
  <2>2. CASE d = "chains"
    BY <1>1, <2>2 DEF ListsOK, List, FetchOK
  <2>3. QED
    BY <2>1, <2>2 DEF Dimension
<1>8. FetchOK'
  BY <1>1, <1>7 DEF FetchOK, Enforced, required, Pinned
<1>9. \A x \in Dimension : table[x] # {} => table'[x] # {}
  BY <1>4
<1>10. QED
  BY <1>1, <1>3, <1>5, <1>6, <1>8, <1>9

\* A step that leaves the lists and the fetch alone.
LEMMA FetchUntouched ==
    ASSUME FetchOK, UNCHANGED <<policy, table, fetched, listed>>
    PROVE  FetchOK'
BY DEF FetchOK, Enforced, required, Pinned

LEMMA RemoveInductive ==
    ASSUME AllowlistInv, NEW s \in Sessions, NEW c, NEW d \in Dimension, NEW r \in Rows(d), remove(s, c, d, r)
    PROVE  AllowlistInv' /\ UNCHANGED table
<1> USE DEF AllowlistInv
<1>1. /\ locked[d] = Free /\ edit[s] = NoEdit
      /\ locked' = [locked EXCEPT ![d] = s]
      /\ edit' = [edit EXCEPT ![s] = [step |-> "deleted", table |-> d, row |-> r]]
      /\ UNCHANGED <<configured, policy, table, fetched, listed, foreign>>
  BY DEF remove, table_unlocked
<1>2. r \in Row
  BY DEF Rows, Row
<1>3. ListsOK'
  BY <1>1, <1>2 DEF ListsOK, Transaction
<1>4. RemovalsOK'
  <2>1. SUFFICES ASSUME NEW x \in Sessions, edit'[x] # NoEdit
                 PROVE  /\ locked'[edit'[x].table] = x
                        /\ edit'[x].step = "counted" => table[edit'[x].table] \ {edit'[x].row} # {}
    BY <1>1 DEF RemovalsOK
  <2>2. CASE x = s
    BY <1>1, <2>2 DEF ListsOK
  <2>3. CASE x # s
    <3>1. edit'[x] = edit[x] /\ locked[edit[x].table] = x
      BY <1>1, <2>1, <2>3 DEF ListsOK, RemovalsOK
    <3>2. edit[x].table # d
      BY <1>1, <3>1, AllowlistAssumption
    <3>3. edit[x].table \in Dimension
      BY <2>1, <3>1 DEF ListsOK, Transaction
    <3>4. QED
      BY <1>1, <2>1, <3>1, <3>2, <3>3 DEF ListsOK, RemovalsOK
  <2>4. QED
    BY <2>2, <2>3
<1>5. FetchOK'
  BY <1>1, FetchUntouched
<1>6. QED
  BY <1>1, <1>3, <1>4, <1>5


\* The end of a removal frees its table; the others' are different ones.
LEMMA Released ==
    ASSUME AllowlistInv, NEW s \in Sessions, edit[s] # NoEdit, Release(s),
           \A d \in Dimension : d # edit[s].table => table'[d] = table[d]
    PROVE  /\ RemovalsOK'
           /\ locked' \in [Dimension -> Sessions \cup {Free}]
           /\ edit' \in [Sessions -> {NoEdit} \cup Transaction]
<1> USE DEF AllowlistInv
<1> DEFINE own == edit[s].table
<1>1. own \in Dimension /\ locked[own] = s
  BY DEF ListsOK, RemovalsOK, Transaction
<1>2. /\ edit' = [edit EXCEPT ![s] = NoEdit]
      /\ locked' = [locked EXCEPT ![own] = Free]
  BY <1>1 DEF Release
<1> HIDE DEF own
<1>3. /\ locked' \in [Dimension -> Sessions \cup {Free}]
      /\ edit' \in [Sessions -> {NoEdit} \cup Transaction]
  BY <1>1, <1>2 DEF ListsOK
<1>4. ASSUME NEW x \in Sessions, edit'[x] # NoEdit
      PROVE  /\ locked'[edit'[x].table] = x
             /\ edit'[x].step = "counted" => table'[edit'[x].table] \ {edit'[x].row} # {}
  <2>1. x # s /\ edit'[x] = edit[x]
    BY <1>2, <1>4 DEF ListsOK
  <2>2. locked[edit[x].table] = x /\ edit[x].table \in Dimension
    BY <1>4, <2>1 DEF RemovalsOK, ListsOK, Transaction
  <2>3. edit[x].table # own
    BY <1>1, <2>1, <2>2
  <2>4. locked'[edit[x].table] = x
    BY <1>2, <2>2, <2>3 DEF ListsOK
  <2>5. table'[edit[x].table] = table[edit[x].table]
    BY <2>2, <2>3 DEF own
  <2>6. QED
    BY <1>4, <2>1, <2>4, <2>5 DEF RemovalsOK
<1>5. QED
  BY <1>3, <1>4 DEF RemovalsOK

LEMMA RefuseInductive ==
    ASSUME AllowlistInv, NEW s \in Sessions, refuse_if_emptied(s)
    PROVE  AllowlistInv' /\ UNCHANGED table
<1> USE DEF AllowlistInv
<1>1. /\ edit[s].step = "deleted"
      /\ UNCHANGED <<configured, policy, table, fetched, listed, foreign>>
  BY DEF refuse_if_emptied
<1>2. edit[s] # NoEdit /\ edit[s] \in Transaction
  BY <1>1 DEF ListsOK, NoEdit
<1>3. FetchOK'
  BY <1>1, FetchUntouched
<1>4. CASE table[edit[s].table] \ {edit[s].row} = {}
  <2>1. Release(s)
    BY <1>4 DEF refuse_if_emptied
  <2>2. /\ RemovalsOK' /\ locked' \in [Dimension -> Sessions \cup {Free}]
        /\ edit' \in [Sessions -> {NoEdit} \cup Transaction]
    BY <1>1, <1>2, <2>1, Released
  <2>3. QED
    BY <1>1, <1>3, <2>2 DEF ListsOK
<1>5. CASE table[edit[s].table] \ {edit[s].row} # {}
  <2>1. edit' = [edit EXCEPT ![s].step = "counted"] /\ locked' = locked
    BY <1>5 DEF refuse_if_emptied
  <2>2. /\ edit' \in [Sessions -> {NoEdit} \cup Transaction]
        /\ edit'[s].table = edit[s].table /\ edit'[s].row = edit[s].row
        /\ \A x \in Sessions \ {s} : edit'[x] = edit[x]
    BY <1>2, <2>1 DEF ListsOK, Transaction
  <2>3. RemovalsOK'
    <3>1. SUFFICES ASSUME NEW x \in Sessions, edit'[x] # NoEdit
                   PROVE  /\ locked[edit'[x].table] = x
                          /\ edit'[x].step = "counted" => table[edit'[x].table] \ {edit'[x].row} # {}
      BY <1>1, <2>1 DEF RemovalsOK
    <3>2. CASE x = s
      BY <1>2, <1>5, <2>2, <3>2 DEF RemovalsOK
    <3>3. CASE x # s
      BY <2>2, <3>1, <3>3 DEF RemovalsOK
    <3>4. QED
      BY <3>2, <3>3
  <2>4. QED
    BY <1>1, <1>3, <2>1, <2>2, <2>3 DEF ListsOK
<1>6. QED
  BY <1>4, <1>5

LEMMA CommitRemovalInductive ==
    ASSUME AllowlistInv, NEW s \in Sessions, commit_removal(s)
    PROVE  AllowlistInv' /\ (\A x \in Dimension : table[x] # {} => table'[x] # {})
<1> USE DEF AllowlistInv
<1> DEFINE own == edit[s].table
           row == edit[s].row
<1>1. /\ edit[s].step = "counted" /\ Release(s)
      /\ table' = [table EXCEPT ![own] = @ \ {row}]
      /\ UNCHANGED <<configured, policy, fetched, listed, foreign>>
  BY DEF commit_removal
<1>2. edit[s] # NoEdit /\ edit[s] \in Transaction
  BY <1>1 DEF ListsOK, NoEdit
<1>3. own \in Dimension /\ table[own] \ {row} # {}
  BY <1>1, <1>2 DEF RemovalsOK, Transaction
<1> HIDE DEF own, row
<1>4. /\ table' \in List /\ table'[own] = table[own] \ {row}
      /\ \A x \in Dimension : x # own => table'[x] = table[x]
  <2>1. CASE own = "tokens"
    BY <1>1, <2>1 DEF ListsOK, List, Dimension
  <2>2. CASE own = "chains"
    BY <1>1, <2>2 DEF ListsOK, List, Dimension
  <2>3. QED
    BY <1>3, <2>1, <2>2 DEF Dimension
<1>5. /\ RemovalsOK' /\ locked' \in [Dimension -> Sessions \cup {Free}]
      /\ edit' \in [Sessions -> {NoEdit} \cup Transaction]
  BY <1>1, <1>2, <1>4, Released DEF own
<1>6. ListsOK'
  BY <1>1, <1>4, <1>5 DEF ListsOK
<1>7. \A x \in Dimension : table'[x] \subseteq table[x] /\ (table[x] # {} => table'[x] # {})
  BY <1>3, <1>4
<1>8. FetchOK'
  <2>1. /\ table'.tokens \subseteq table.tokens /\ table'.chains \subseteq table.chains
        /\ table.chains # {} => table'.chains # {}
    BY <1>7 DEF Dimension
  <2>2. QED
    BY <1>1, <2>1 DEF FetchOK, Enforced, required, Pinned
<1>9. QED
  BY <1>1, <1>5, <1>6, <1>7, <1>8

LEMMA RollbackInductive ==
    ASSUME AllowlistInv, NEW s \in Sessions, rollback(s)
    PROVE  AllowlistInv' /\ UNCHANGED table
<1> USE DEF AllowlistInv
<1>1. /\ edit[s] # NoEdit /\ Release(s)
      /\ UNCHANGED <<configured, policy, table, fetched, listed, foreign>>
  BY DEF rollback
<1>2. /\ RemovalsOK' /\ locked' \in [Dimension -> Sessions \cup {Free}]
      /\ edit' \in [Sessions -> {NoEdit} \cup Transaction]
  BY <1>1, Released
<1>3. FetchOK'
  BY <1>1, FetchUntouched
<1>4. QED
  BY <1>1, <1>2, <1>3 DEF ListsOK

LEMMA AllowedTokensInductive ==
    ASSUME AllowlistInv, allowed_tokens
    PROVE  AllowlistInv' /\ UNCHANGED table
<1> USE DEF AllowlistInv
<1>1. PICK t \in served_rows("tokens") : fetched' = [step |-> "tokens", tokens |-> t]
  BY DEF allowed_tokens
<1>2. /\ listed' = [tokens |-> table.tokens, chains |-> table.chains,
                    on |-> table.tokens # {} /\ table.chains # {}]
      /\ UNCHANGED <<configured, policy, table, locked, edit, foreign>>
  BY DEF allowed_tokens
<1>3. t \subseteq table.tokens /\ (~ required => t = table.tokens)
  BY DEF served_rows
<1>4. table.tokens \subseteq Row /\ table.chains \subseteq Row
  BY DEF ListsOK, List
<1>5. (table.tokens # {} /\ table.chains # {}) \in BOOLEAN
  BY Zenon
<1>6. ListsOK'
  BY <1>1, <1>2, <1>3, <1>4, <1>5 DEF ListsOK, Fetched
<1>7. RemovalsOK'
  BY <1>2 DEF RemovalsOK
<1>8. FetchOK'
  BY <1>1, <1>2, <1>3 DEF FetchOK, required
<1>9. QED
  BY <1>2, <1>6, <1>7, <1>8

LEMMA FetchAllowlistInductive ==
    ASSUME AllowlistInv, fetch_allowlist
    PROVE  AllowlistInv' /\ UNCHANGED table
<1> USE DEF AllowlistInv
<1>1. PICK p \in served_rows("chains") :
        LET list == [tokens |-> fetched.tokens, chains |-> p]
        IN  fetched' = IF check(list) = "refuse" THEN NoView ELSE [step |-> check(list), list |-> list]
  BY DEF fetch_allowlist
<1> DEFINE list == [tokens |-> fetched.tokens, chains |-> p]
<1>2. /\ fetched.step = "tokens"
      /\ UNCHANGED <<configured, policy, table, locked, edit, listed, foreign>>
  BY DEF fetch_allowlist
<1>3. p \subseteq table.chains /\ (~ required => p = table.chains)
  BY DEF served_rows
<1>4. /\ fetched # NoView /\ fetched.tokens \subseteq Row /\ table.chains \subseteq Row
      /\ fetched.tokens \subseteq listed.tokens /\ table.chains \subseteq listed.chains
      /\ listed.on => table.chains # {}
      /\ listed.on /\ ~ required => fetched.tokens # {}
      /\ table.tokens \subseteq listed.tokens
  BY <1>2 DEF ListsOK, List, Fetched, FetchOK, NoView
<1>5. list.tokens = fetched.tokens /\ list.chains = p /\ list \in List
  BY <1>3, <1>4 DEF List
<1>6. /\ list.tokens \subseteq listed.tokens /\ list.chains \subseteq listed.chains
      /\ listed.on /\ ~ required => list.tokens # {} /\ list.chains # {}
  BY <1>3, <1>4, <1>5
<1> HIDE DEF list
<1>7. CASE check(list) = "refuse"
  <2>1. fetched' = NoView
    BY <1>1, <1>7 DEF list
  <2>2. QED
    BY <1>2, <2>1 DEF ListsOK, Fetched, RemovalsOK, FetchOK, NoView
<1>8. CASE check(list) = "off"
  <2>1. fetched' = [step |-> "off", list |-> list]
    BY <1>1, <1>8 DEF list
  <2>2. ~ required /\ list = NoList
    BY <1>8 DEF check
  <2>3. ~ Enforced
    BY <1>6, <2>2 DEF Enforced, NoList
  <2>4. FetchOK'
    BY <1>2, <1>4, <2>1, <2>3 DEF FetchOK, Enforced, required, NoView
  <2>5. ListsOK' /\ RemovalsOK'
    BY <1>2, <1>5, <2>1 DEF ListsOK, Fetched, RemovalsOK
  <2>6. QED
    BY <1>2, <2>4, <2>5
<1>9. CASE check(list) = "enforce"
  <2>1. fetched' = [step |-> "enforce", list |-> list]
    BY <1>1, <1>9 DEF list
  <2>2. /\ required => list.tokens # {} /\ list.chains # {}
        /\ Pinned(list)
    BY <1>9 DEF check, Pinned, has_token, has_chain, NoList
  <2>3. Enforced => list.tokens # {} /\ list.chains # {}
    BY <1>6, <2>2 DEF Enforced
  <2>4. FetchOK'
    BY <1>2, <1>4, <1>6, <2>1, <2>2, <2>3 DEF FetchOK, Enforced, required, NoView, Pinned
  <2>5. ListsOK' /\ RemovalsOK'
    BY <1>2, <1>5, <2>1 DEF ListsOK, Fetched, RemovalsOK
  <2>6. QED
    BY <1>2, <2>4, <2>5
<1>10. check(list) \in {"refuse", "off", "enforce"}
  BY DEF check
<1>11. QED
  BY <1>7, <1>8, <1>9, <1>10

LEMMA HandleInductive ==
    ASSUME AllowlistInv, NEW x \in Transfers, handle(x)
    PROVE  /\ AllowlistInv' /\ UNCHANGED table
           /\ x \in signed' \ signed /\ Enforced => x.token \in listed.tokens /\ x.pair \in listed.chains
           /\ x \in passed' \ passed => ~ (x.token \in policy.tokens /\ x.pair \in policy.chains)
           /\ signed' \subseteq signed \cup {x} /\ passed' \subseteq passed \cup {x}
<1> USE DEF AllowlistInv
<1>1. /\ fetched.step \in {"off", "enforce"}
      /\ UNCHANGED <<configured, policy, table, locked, edit, fetched, listed, foreign>>
  BY DEF handle
<1>2. AllowlistInv'
  BY <1>1, FetchUntouched DEF ListsOK, RemovalsOK
<1>3. signed' \subseteq signed \cup {x} /\ passed' \subseteq passed \cup {x}
  BY DEF handle
<1>4. CASE fetched.step = "off"
  BY <1>1, <1>2, <1>3, <1>4 DEF handle, FetchOK
<1>5. CASE fetched.step = "enforce"
  <2>1. ASSUME x \in signed' \ signed, Enforced PROVE x.token \in listed.tokens /\ x.pair \in listed.chains
    BY <1>5, <2>1 DEF handle, FetchOK, token_allowed, chain_allowed
  <2>2. ASSUME x \in passed' \ passed, x.token \in policy.tokens, x.pair \in policy.chains PROVE FALSE
    <3>1. Pinned(fetched.list)
      BY <1>5, <2>2 DEF FetchOK, required
    <3>2. token_allowed(fetched.list, x.token) /\ chain_allowed(fetched.list, x.pair)
      BY <2>2, <3>1 DEF Pinned, token_allowed, chain_allowed
    <3>3. QED
      BY <2>2, <3>2 DEF handle
  <2>3. QED
    BY <1>1, <1>2, <1>3, <2>1, <2>2
<1>6. QED
  BY <1>1, <1>4, <1>5


\* What one step promises of the lists, of what is signed and of what is passed over.
ListsKeepFaith ==
    /\ \A d \in Dimension : table[d] # {} => table'[d] # {}
    /\ \A x \in signed' \ signed :
         required \/ listed.on => x.token \in listed.tokens \ foreign /\ x.pair \in listed.chains \ foreign
    /\ \A x \in passed' \ passed : ~ (x.token \in policy.tokens /\ x.pair \in policy.chains)

LEMMA AllowlistStarts ==
    ASSUME AllowlistInit
    PROVE  AllowlistInv
<1>1. /\ table \in [tokens : SUBSET Tokens, chains : SUBSET Pairs]
      /\ locked = [d \in Dimension |-> Free] /\ edit = [s \in Sessions |-> NoEdit]
      /\ fetched = NoView /\ foreign = {} /\ listed = [tokens |-> {}, chains |-> {}, on |-> FALSE]
      /\ configured # {}
  BY DEF AllowlistInit, require_credentials
<1>2. table \in List
  BY <1>1 DEF List, Row
<1>3. ListsOK
  BY <1>1, <1>2 DEF ListsOK, Fetched
<1>4. RemovalsOK
  BY <1>1 DEF RemovalsOK
<1>5. FetchOK
  BY <1>1 DEF FetchOK, NoView
<1>6. QED
  BY <1>1, <1>3, <1>4, <1>5 DEF AllowlistInv

LEMMA AllowlistInductive ==
    ASSUME AllowlistInv, [AllowlistNext]_allowlistVars
    PROVE  AllowlistInv' /\ ListsKeepFaith
<1>1. ASSUME AllowlistInv', \A d \in Dimension : table[d] # {} => table'[d] # {}, signed' = signed, passed' = passed
      PROVE  AllowlistInv' /\ ListsKeepFaith
  BY <1>1 DEF ListsKeepFaith
<1>2. ASSUME NEW c \in configured, NEW d \in Dimension, NEW r \in Rows(d), add(c, d, r)
      PROVE  AllowlistInv' /\ ListsKeepFaith
  BY <1>1, <1>2, AddInductive DEF add
<1>3. ASSUME NEW s \in Sessions, NEW c \in configured, NEW d \in Dimension, NEW r \in Rows(d), remove(s, c, d, r)
      PROVE  AllowlistInv' /\ ListsKeepFaith
  <2>1. AllowlistInv' /\ table' = table /\ signed' = signed /\ passed' = passed
    BY <1>3, RemoveInductive DEF remove
  <2>2. QED
    BY <1>1, <2>1
<1>4. ASSUME NEW s \in Sessions, refuse_if_emptied(s) PROVE AllowlistInv' /\ ListsKeepFaith
  <2>1. AllowlistInv' /\ table' = table /\ signed' = signed /\ passed' = passed
    BY <1>4, RefuseInductive DEF refuse_if_emptied
  <2>2. QED
    BY <1>1, <2>1
<1>5. ASSUME NEW s \in Sessions, commit_removal(s) PROVE AllowlistInv' /\ ListsKeepFaith
  BY <1>1, <1>5, CommitRemovalInductive DEF commit_removal
<1>6. ASSUME NEW s \in Sessions, rollback(s) PROVE AllowlistInv' /\ ListsKeepFaith
  <2>1. AllowlistInv' /\ table' = table /\ signed' = signed /\ passed' = passed
    BY <1>6, RollbackInductive DEF rollback
  <2>2. QED
    BY <1>1, <2>1
<1>7. CASE allowed_tokens
  <2>1. AllowlistInv' /\ table' = table /\ signed' = signed /\ passed' = passed
    BY <1>7, AllowedTokensInductive DEF allowed_tokens
  <2>2. QED
    BY <1>1, <2>1
<1>8. CASE fetch_allowlist
  <2>1. AllowlistInv' /\ table' = table /\ signed' = signed /\ passed' = passed
    BY <1>8, FetchAllowlistInductive DEF fetch_allowlist
  <2>2. QED
    BY <1>1, <2>1
<1>9. ASSUME NEW x \in Transfers, handle(x) PROVE AllowlistInv' /\ ListsKeepFaith
  <2>1. /\ AllowlistInv' /\ table' = table /\ foreign = {}
        /\ x \in signed' \ signed /\ Enforced => x.token \in listed.tokens /\ x.pair \in listed.chains
        /\ x \in passed' \ passed => ~ (x.token \in policy.tokens /\ x.pair \in policy.chains)
        /\ signed' \subseteq signed \cup {x} /\ passed' \subseteq passed \cup {x}
    BY <1>9, HandleInductive DEF AllowlistInv
  <2>2. QED
    BY <2>1 DEF ListsKeepFaith, Enforced
<1>10. CASE end_batch \/ UNCHANGED allowlistVars
  <2>1. /\ UNCHANGED <<configured, policy, table, locked, edit, signed, passed, listed, foreign>>
        /\ fetched' = NoView \/ fetched' = fetched
    BY <1>10 DEF end_batch, allowlistVars
  <2>2. ListsOK' /\ RemovalsOK'
    BY <2>1 DEF AllowlistInv, ListsOK, RemovalsOK, Fetched
  <2>3. FetchOK'
    <3>1. CASE fetched' = NoView
      BY <3>1 DEF FetchOK, NoView
    <3>2. CASE fetched' = fetched
      BY <2>1, <3>2, FetchUntouched DEF AllowlistInv
    <3>3. QED
      BY <2>1, <3>1, <3>2
  <2>4. AllowlistInv'
    BY <2>1, <2>2, <2>3 DEF AllowlistInv
  <2>5. QED
    BY <1>1, <2>1, <2>4
<1>11. QED
  BY <1>2, <1>3, <1>4, <1>5, <1>6, <1>7, <1>8, <1>9, <1>10 DEF AllowlistNext

\* A list that has entries keeps one whatever edits run at a time, and what a node signs under
\* lists that are on was on both of them, whatever a store leaves out: for any lists, edits,
\* sessions, credentials and policies (Allowlist!AllowlistsHold).
THEOREM AllowlistTheorem == AllowlistSpec => AllowlistsHold
<1>1. AllowlistInit => AllowlistInv
  BY AllowlistStarts
<1>2. AllowlistInv /\ [AllowlistNext]_allowlistVars => AllowlistInv' /\ [ListsKeepFaith]_allowlistVars
  BY AllowlistInductive
<1>3. AllowlistSpec => [][ListsKeepFaith]_allowlistVars
  BY <1>1, <1>2, PTL DEF AllowlistSpec
<1>4. ListsKeepFaith => \A d \in Dimension : table[d] # {} => table'[d] # {}
  BY DEF ListsKeepFaith
<1>5. ListsKeepFaith =>
        /\ \A x \in signed' \ signed :
             required \/ listed.on => /\ x.token \in listed.tokens \ foreign
                                     /\ x.pair \in listed.chains \ foreign
        /\ \A x \in passed' \ passed :
             ~ (x.token \in policy.tokens /\ x.pair \in policy.chains)
  BY DEF ListsKeepFaith
<1>6. [][ListsKeepFaith]_allowlistVars => EnforcementStaysOn
  BY <1>4, PTL DEF EnforcementStaysOn
<1>7. [][ListsKeepFaith]_allowlistVars => AllowlistIsHonoured
  BY <1>5, PTL DEF AllowlistIsHonoured
<1>8. QED
  BY <1>3, <1>6, <1>7 DEF AllowlistsHold
=============================================================================
