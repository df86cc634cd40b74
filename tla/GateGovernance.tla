--------------------------- MODULE GateGovernance ---------------------------
(***************************************************************************)
(* The governance of one Gate (contracts/src/Gate.sol): how its validator  *)
(* set, threshold, asset registry, guardian and code may change, through   *)
(* the timelock that the guardian and the owner can veto.  Module Gate     *)
(* treats all of these as constants.                                       *)
(*                                                                         *)
(* Time is block.timestamp in ticks; the delays are CONSTANTS, so that     *)
(* their order (48 hours, 7 days, 7 days) can be kept and their size cut.  *)
(* Every owner entry point may be called at any moment: nothing is assumed *)
(* of the owner.  initializeV2, the per-token minimum and the corridor     *)
(* switch are left out: they are neither timelocked nor read here.         *)
(***************************************************************************)
EXTENDS Naturals, FiniteSets

CONSTANTS
  Validator,       \* addresses that may ever become validators
  Founders,        \* validators of initialize
  Quorum0,         \* threshold_ of initialize
  Account,         \* accounts that may own or guard the gate
  Deployer,        \* msg.sender of initialize
  NoAccount,       \* address(0), no account
  Asset,           \* debridgeIds
  Token,           \* local tokens
  Scale,           \* bridgeDecimals a token admits
  Unset,           \* an unwritten storage slot
  Impl,            \* implementation addresses
  Code, Data,      \* codehashes and upgrade calldata
  Delay,           \* GOVERNANCE_DELAY and UPGRADE_DELAY
  Grace,           \* SCHEDULE_GRACE
  SetupWindow,     \* SETUP_WINDOW
  Vigilant,        \* whether the guardian vetoes every schedule before it matures
  MaxTime,         \* bound: timestamp
  MaxSchedules     \* bound: schedule calls

ASSUME GovernanceAssumption ==
  /\ IsFiniteSet(Validator)
  /\ Founders \subseteq Validator
  /\ Quorum0 \in 1 .. Cardinality(Founders)
  /\ Deployer \in Account /\ NoAccount \notin Account
  /\ Unset \notin Token \cup Scale
  /\ Delay \in Nat \ {0} /\ Grace \in Nat /\ SetupWindow \in Nat
  /\ Vigilant \in BOOLEAN
  /\ MaxTime \in Nat \ {0} /\ MaxSchedules \in Nat

VARIABLES
  now,             \* block.timestamp
  owner, pendingOwner, guardian,
  isValidator,     \* the set of validators
  validatorCount, threshold,
  tokenOf,         \* asset -> local token
  scaleOf,         \* bridgeDecimalsOf: token -> wire scale
  isSealed, setupDeadline,
  readyAt,         \* governanceReadyAt and upgradeReadyAt: action -> time, 0 if none
  pin,             \* upgradeCodehash and upgradeDataHash
  codehash,        \* what is deployed at each implementation address
  installed,       \* the implementation the proxy runs, its code and its calldata
  schedules,       \* schedule calls so far
  notice,          \* history: action -> its announcement, if not yet used or vetoed
  unguarded        \* history: some schedule matured while nobody guarded

vars == <<now, owner, pendingOwner, guardian, isValidator, validatorCount, threshold,
          tokenOf, scaleOf, isSealed, setupDeadline, readyAt, pin, codehash, installed,
          schedules, notice, unguarded>>

roles == <<owner, pendingOwner, guardian>>
quorum == <<isValidator, validatorCount, threshold>>
registry == <<tokenOf, scaleOf>>
upgrades == <<pin, codehash, installed>>

\* addValidatorActionId and its siblings; upgrades have a table of their own.
ActionId ==
  ({"addValidator"} \X Validator)
    \cup ({"lowerThreshold"} \X (1 .. Cardinality(Validator)))
    \cup ({"setLocalToken"} \X Asset \X Token)
    \cup ({"setBridgeDecimals"} \X Token \X Scale)
    \cup ({"setGuardian"} \X (Account \cup {NoAccount}))
    \cup ({"upgrade"} \X Impl)

NoPin == [code |-> Unset, data |-> Unset]
NoNotice == [at |-> 0, what |-> NoPin]

\* initialize.
Init ==
  /\ now = 1
  /\ owner = Deployer /\ pendingOwner = NoAccount /\ guardian = NoAccount
  /\ isValidator = Founders
  /\ validatorCount = Cardinality(Founders)
  /\ threshold = Quorum0
  /\ tokenOf = [d \in Asset |-> Unset]
  /\ scaleOf = [t \in Token |-> Unset]
  /\ isSealed = FALSE
  /\ setupDeadline = 1 + SetupWindow
  /\ readyAt = [a \in ActionId |-> 0]
  /\ pin = [i \in Impl |-> NoPin]
  /\ codehash \in [Impl -> Code]
  /\ installed = <<Unset, NoPin>>
  /\ schedules = 0
  /\ notice = [a \in ActionId |-> NoNotice]
  /\ unguarded = FALSE

-----------------------------------------------------------------------------
(* Timelock *)

inSetupPhase == ~isSealed /\ now <= setupDeadline

\* Mutant: a schedule may be used as soon as it is made.
Matured_AtOnce(a) == readyAt[a] # 0 /\ now <= readyAt[a] + Grace

\* Scheduled, past its delay and not yet void.
Matured(a) == readyAt[a] # 0 /\ now >= readyAt[a] /\ now <= readyAt[a] + Grace

\* _schedule: scheduling again restarts the clock.
schedule(a) ==
  /\ schedules < MaxSchedules
  /\ schedules' = schedules + 1
  /\ readyAt' = [readyAt EXCEPT ![a] = now + Delay]

\* Mutant: a used schedule stays usable.
consume_Keep(a) == Matured(a) /\ UNCHANGED readyAt

\* _consumeGovernance.
consume(a) == Matured(a) /\ readyAt' = [readyAt EXCEPT ![a] = 0]

\* scheduleAddValidator, scheduleLowerThreshold, scheduleSetLocalToken,
\* scheduleSetBridgeDecimals and scheduleSetGuardian.
ScheduleGovernance(a) ==
  /\ a[1] # "upgrade"
  /\ a[1] = "setLocalToken" => tokenOf[a[2]] = Unset
  /\ a[1] = "setBridgeDecimals" => scaleOf[a[2]] = Unset
  /\ schedule(a)
  /\ UNCHANGED <<now, roles, quorum, registry, isSealed, setupDeadline, upgrades>>

\* cancelScheduledGovernance and cancelScheduledUpgrade, by owner or guardian.
CancelScheduled(a) ==
  /\ readyAt[a] # 0
  /\ readyAt' = [readyAt EXCEPT ![a] = 0]
  /\ pin' = IF a[1] = "upgrade" THEN [pin EXCEPT ![a[2]] = NoPin] ELSE pin
  /\ UNCHANGED <<now, roles, quorum, registry, isSealed, setupDeadline,
                 codehash, installed, schedules>>

-----------------------------------------------------------------------------
(* Validator set and threshold *)

AddValidator(v) ==
  /\ v \notin isValidator
  /\ consume(<<"addValidator", v>>)
  /\ isValidator' = isValidator \cup {v}
  /\ validatorCount' = validatorCount + 1
  /\ UNCHANGED <<now, roles, threshold, registry, isSealed, setupDeadline, upgrades, schedules>>

\* Mutant: the last validators may go.
mayRemove_Always == TRUE

\* The set must stay able to reach the threshold.
mayRemove == validatorCount - 1 >= threshold

RemoveValidator(v) ==
  /\ v \in isValidator
  /\ mayRemove
  /\ isValidator' = isValidator \ {v}
  /\ validatorCount' = validatorCount - 1
  /\ UNCHANGED <<now, roles, threshold, registry, isSealed, setupDeadline, upgrades,
                 readyAt, schedules>>

\* Raising is immediate; lowering consumes its schedule.
setThreshold(t) ==
  /\ t # 0 /\ t <= validatorCount
  /\ t # threshold
  /\ \/ t < threshold /\ consume(<<"lowerThreshold", t>>)
     \/ t > threshold /\ UNCHANGED readyAt
  /\ threshold' = t
  /\ UNCHANGED <<now, roles, isValidator, validatorCount, registry, isSealed,
                 setupDeadline, upgrades, schedules>>

-----------------------------------------------------------------------------
(* Registry *)

\* Instant while the gate is being set up, timelocked afterwards.
register(a) ==
  \/ inSetupPhase /\ UNCHANGED readyAt
  \/ ~inSetupPhase /\ consume(a)

\* Mutant: a registration may be replaced.
free_Always(d) == TRUE

free(d) == tokenOf[d] = Unset

setLocalToken(d, t) ==
  /\ free(d)
  /\ register(<<"setLocalToken", d, t>>)
  /\ scaleOf[t] # Unset
  /\ tokenOf' = [tokenOf EXCEPT ![d] = t]
  /\ UNCHANGED <<now, roles, quorum, scaleOf, isSealed, setupDeadline, upgrades, schedules>>

setBridgeDecimals(t, s) ==
  /\ scaleOf[t] = Unset
  /\ register(<<"setBridgeDecimals", t, s>>)
  /\ scaleOf' = [scaleOf EXCEPT ![t] = s]
  /\ UNCHANGED <<now, roles, quorum, tokenOf, isSealed, setupDeadline, upgrades, schedules>>

seal ==
  /\ ~isSealed
  /\ isSealed' = TRUE
  /\ UNCHANGED <<now, roles, quorum, registry, setupDeadline, readyAt, upgrades, schedules>>

-----------------------------------------------------------------------------
(* Roles *)

\* Mutant: the owner may dismiss the guardian at will.
mayAppoint_Freely(g) == UNCHANGED readyAt

\* Filling an empty seat is instant; replacing a guardian is timelocked.
mayAppoint(g) ==
  \/ (guardian = NoAccount \/ inSetupPhase) /\ UNCHANGED readyAt
  \/ guardian # NoAccount /\ ~inSetupPhase /\ consume(<<"setGuardian", g>>)

setGuardian(g) ==
  /\ g # guardian
  /\ mayAppoint(g)
  /\ guardian' = g
  /\ UNCHANGED <<now, owner, pendingOwner, quorum, registry, isSealed, setupDeadline,
                 upgrades, schedules>>

transferOwnership(o) ==
  /\ pendingOwner' = o
  /\ UNCHANGED <<now, owner, guardian, quorum, registry, isSealed, setupDeadline, readyAt,
                 upgrades, schedules>>

\* Mutant: the caller is not compared with the pending owner.
acceptOwnership_ByAnyone ==
  /\ owner' = pendingOwner
  /\ pendingOwner' = NoAccount
  /\ UNCHANGED <<now, guardian, quorum, registry, isSealed, setupDeadline, readyAt,
                 upgrades, schedules>>

acceptOwnership ==
  /\ pendingOwner # NoAccount
  /\ owner' = pendingOwner
  /\ pendingOwner' = NoAccount
  /\ UNCHANGED <<now, guardian, quorum, registry, isSealed, setupDeadline, readyAt,
                 upgrades, schedules>>

-----------------------------------------------------------------------------
(* Upgrades *)

scheduleUpgrade(i, data) ==
  /\ schedule(<<"upgrade", i>>)
  /\ pin' = [pin EXCEPT ![i] = [code |-> codehash[i], data |-> data]]
  /\ UNCHANGED <<now, roles, quorum, registry, isSealed, setupDeadline, codehash, installed>>

\* Mutant: only the address is checked.
AsPinned_AddressOnly(i, data) == TRUE

\* Code and calldata are the ones that were announced.
AsPinned(i, data) == pin[i] = [code |-> codehash[i], data |-> data]

\* upgradeToAndCall and the _authorizeUpgrade it reaches.
upgradeToAndCall(i, data) ==
  /\ AsPinned(i, data)
  /\ consume(<<"upgrade", i>>)
  /\ pin' = [pin EXCEPT ![i] = NoPin]
  /\ installed' = <<i, [code |-> codehash[i], data |-> data]>>
  /\ UNCHANGED <<now, roles, quorum, registry, isSealed, setupDeadline, codehash, schedules>>

\* The code at an implementation address is replaced (external).
Redeploy(i, k) ==
  /\ codehash' = [codehash EXCEPT ![i] = k]
  /\ UNCHANGED <<now, roles, quorum, registry, isSealed, setupDeadline, readyAt, pin,
                 installed, schedules>>

\* Time passes.  A vigilant guardian has vetoed what would mature next.
Tick ==
  /\ now < MaxTime
  /\ Vigilant /\ guardian # NoAccount => \A a \in ActionId : readyAt[a] # now + 1
  /\ now' = now + 1
  /\ UNCHANGED <<roles, quorum, registry, isSealed, setupDeadline, readyAt, upgrades, schedules>>

-----------------------------------------------------------------------------

\* The powers a step grants that had to be announced: read off the storage it
\* changed, whatever it did with the timelock.
Gained ==
  {<<"addValidator", v>> : v \in isValidator' \ isValidator}
    \cup {<<"lowerThreshold", t>> : t \in {threshold'} \cap (0 .. threshold - 1)}
    \cup {<<"upgrade", i>> : i \in {j \in Impl : installed' # installed /\ installed'[1] = j}}
    \cup IF inSetupPhase THEN {} ELSE
            {<<"setLocalToken", d, tokenOf'[d]>> : d \in {e \in Asset : tokenOf'[e] # tokenOf[e]}}
              \cup {<<"setBridgeDecimals", t, scaleOf'[t]>> :
                        t \in {u \in Token : scaleOf'[u] # scaleOf[u]}}
              \cup {<<"setGuardian", h>> : h \in IF guardian = NoAccount THEN {}
                                                 ELSE {guardian'} \ {guardian}}

\* The history: a schedule call is an announcement; the change it announced, or a
\* veto, uses it up.
Announce(a) ==
  notice' = [notice EXCEPT ![a] =
               [at |-> now, what |-> IF a[1] = "upgrade" THEN pin'[a[2]] ELSE NoPin]]

Withdraw(S) == notice' = [a \in ActionId |-> IF a \in S THEN NoNotice ELSE notice[a]]

Watch ==
  unguarded' = (unguarded \/ (guardian' = NoAccount /\ \E a \in ActionId :
                                readyAt'[a] # 0 /\ readyAt'[a] <= now'))

Schedule ==
  \/ \E a \in ActionId : ScheduleGovernance(a) /\ Announce(a)
  \/ \E i \in Impl, data \in Data : scheduleUpgrade(i, data) /\ Announce(<<"upgrade", i>>)

Veto == \E a \in ActionId : CancelScheduled(a) /\ Withdraw({a})

OwnerCall ==
  \/ \E v \in Validator : AddValidator(v) \/ RemoveValidator(v)
  \/ \E t \in 0 .. Cardinality(Validator) : setThreshold(t)
  \/ \E d \in Asset, t \in Token : setLocalToken(d, t)
  \/ \E t \in Token, s \in Scale : setBridgeDecimals(t, s)
  \/ \E g \in Account \cup {NoAccount} : setGuardian(g)
  \/ \E o \in Account : transferOwnership(o)
  \/ \E i \in Impl, data \in Data : upgradeToAndCall(i, data)
  \/ seal

Environment ==
  \/ acceptOwnership
  \/ \E i \in Impl, k \in Code : Redeploy(i, k)
  \/ Tick

Next ==
  /\ Schedule \/ Veto \/ ((OwnerCall \/ Environment) /\ Withdraw(Gained))
  /\ Watch

Spec == Init /\ [][Next]_vars

-----------------------------------------------------------------------------
(* Properties *)

Pin == [code: Code, data: Data] \cup {NoPin}

\* Type correctness of the governance storage.
TypeOK ==
  /\ now \in 1 .. MaxTime
  /\ owner \in Account
  /\ pendingOwner \in Account \cup {NoAccount}
  /\ guardian \in Account \cup {NoAccount}
  /\ isValidator \subseteq Validator
  /\ validatorCount \in Nat
  /\ threshold \in Nat
  /\ tokenOf \in [Asset -> Token \cup {Unset}]
  /\ scaleOf \in [Token -> Scale \cup {Unset}]
  /\ isSealed \in BOOLEAN
  /\ setupDeadline = 1 + SetupWindow
  /\ readyAt \in [ActionId -> 0 .. (MaxTime + Delay)]
  /\ pin \in [Impl -> Pin]
  /\ codehash \in [Impl -> Code]
  /\ installed \in (Impl \cup {Unset}) \X Pin
  /\ schedules \in 0 .. MaxSchedules
  /\ notice \in [ActionId -> [at: 0 .. MaxTime, what: Pin]]
  /\ unguarded \in BOOLEAN

\* setValidator and setThreshold: whatever the owner does, in whatever order, a
\* quorum takes at least one signature and the validators can reach it.
ThresholdReachable ==
  /\ validatorCount = Cardinality(isValidator)
  /\ 1 <= threshold /\ threshold <= validatorCount

\* The timelock and the veto together: while a vigilant guardian has been in its
\* seat whenever something matured, an owner who turns hostile gains nothing: no
\* validator, no lower threshold, no code and, once the gate is set up, no token
\* and no friendlier guardian.
VigilantGuardianHolds ==
  [][Vigilant /\ guardian # NoAccount /\ ~unguarded => Gained = {}]_vars

\* _consumeGovernance and _requireMaturedUpgrade: every power was announced, exactly
\* as it is taken (for an upgrade: the code and the calldata, whatever was redeployed
\* since), a full delay before and not longer ago than the grace period, by an
\* announcement that was neither vetoed nor used before.
EveryPowerWasAnnounced ==
  [][\A a \in Gained :
       /\ notice[a].at # 0
       /\ notice[a].at + Delay <= now /\ now <= notice[a].at + Delay + Grace
       /\ a[1] = "upgrade" => installed'[2] = notice[a].what]_vars

\* setLocalToken and setBridgeDecimals: an asset's token and a token's wire scale
\* never change once a transfer may rely on them, and a token never has no scale.
RegistryIsFinal ==
  [][/\ \A d \in Asset : tokenOf[d] # Unset => tokenOf'[d] = tokenOf[d]
     /\ \A t \in Token : scaleOf[t] # Unset => scaleOf'[t] = scaleOf[t]
     /\ \A d \in Asset : tokenOf'[d] # Unset => scaleOf'[tokenOf'[d]] # Unset]_vars

\* Both of these: with a guardian who watches, a hostile owner gains no power, and with or
\* without one it rewrites no registration that a transfer in flight relies on.
HostileOwnerIsContained == VigilantGuardianHolds /\ RegistryIsFinal
=============================================================================
