----------------------------- MODULE SolanaGate -----------------------------
(***************************************************************************)
(* The Solana end of the bridge: the program in crates/solana-gate.  Its   *)
(* accounts are the config, one record per asset, one commitment per       *)
(* vault, a marker per settled transfer, an origin proof per lock, and one *)
(* schedule per announced change.                                          *)
(*                                                                         *)
(* Accounts are addressed by program-derived keys, so the caller's choice  *)
(* of config, asset, marker and schedule account is checked by its key and *)
(* leaves no choice; the vault is the account a caller may choose.  A      *)
(* vault holds one mint, so naming the vault names the mint.  An id is the *)
(* record of the fields hashed into it.  Signatures are not tracked: a     *)
(* caller may present any set of signers, the worst that can have been     *)
(* signed.  What honest validators sign is the subject of Bridge.  The     *)
(* lamports anyone may park at an address are left out: no check reads     *)
(* them.  An instruction that fails is no step.                            *)
(***************************************************************************)
EXTENDS Integers, FiniteSets, Functions, Sequences

CONSTANTS
  Key,            \* signing keys
  Account,        \* accounts that may be appointed guardian
  NoAccount,      \* Pubkey::default()
  Genesis,        \* arguments init is tried with
  MAX_THRESHOLD, MaxValidators, MaxCorridors,
  Self,           \* SOLANA_CHAIN_ID
  Peer,           \* other chain ids
  DebridgeId,     \* asset ids
  Vault,          \* token accounts the vault authority controls
  Decimals,       \* decimals of each vault's mint
  Scale,          \* bridge_decimals an owner tries to register
  Legacy,         \* records of the pre-decimals program: ids -> vaults
  Liquidity,      \* what each vault holds at first
  LocalAmount,    \* amounts users try to lock
  Inbound,        \* ids sent towards this gate
  MaxU64,
  Delay, Grace, SetupWindow,
  MaxTime, MaxNonce, MaxSchedules  \* bounds

ASSUME SolanaGateAssumption ==
  /\ IsFiniteSet(Key)
  /\ NoAccount \notin Vault
  /\ Genesis \subseteq [validators: Seq(Key), threshold: Int, guardian: Account \cup {NoAccount}]
  /\ Decimals \in [Vault -> Nat]
  /\ Scale \subseteq Nat
  /\ DOMAIN Legacy \subseteq DebridgeId
  /\ Legacy \in [DOMAIN Legacy -> Vault]
  /\ Liquidity \in [Vault -> Nat]
  /\ LocalAmount \subseteq Nat
  /\ \A id \in Inbound : id.debridge_id \in DebridgeId /\ id.bridge \in Nat /\ id.amount \in Nat
  /\ {MAX_THRESHOLD, MaxValidators, MaxCorridors, Delay, Grace, SetupWindow} \subseteq Nat

VARIABLES
  now,        \* Clock::unix_timestamp
  cfg,        \* Config
  asset,      \* ["asset", id]: AssetConfig, or NoAsset
  binding,    \* ["vault", v]: the scale the vault is committed to, or -1
  sent,       \* ["sent", id]: live origin proofs
  executed,   \* ["executed", id] markers: claimed or cancelled
  refunded,   \* ["refunded", id] markers
  balance,    \* tokens in each vault
  gov,        \* ["gov", action]: ready_at, 0 if none
  schedules,  \* bound: schedule calls so far
  notice      \* history: when each action was announced, unless vetoed or used

vars == <<now, cfg, asset, binding, sent, executed, refunded, balance, gov, schedules, notice>>
money == <<sent, executed, refunded, balance>>
registry == <<asset, binding>>

NoAsset == [vault |-> NoAccount, bridge |-> 0, local |-> 0, legacy |-> FALSE]

\* decode_asset_config: a record of the old layout reads as 0/0, so its unit is 1.
decode_asset_config(v) == [vault |-> v, bridge |-> 0, local |-> 0, legacy |-> TRUE]

NoConfig ==
  [owned |-> FALSE, guardian |-> NoAccount, validators |-> {}, threshold |-> 0,
   paused |-> FALSE, nonce_to |-> <<>>, sealed |-> FALSE, setup_deadline |-> 0]

\* The changes that wait, with all that each decides.
GovernanceAction ==
  ({"addValidator"} \X Key)
    \cup ({"lowerThreshold"} \X (1 .. Cardinality(Key)))
    \cup ({"registerAsset"} \X DebridgeId \X Vault \X Scale)
    \cup ({"setGuardian"} \X (Account \cup {NoAccount}))

\* The id a change is scheduled and consumed under: it commits to every field.
ActionId == GovernanceAction

\* The preimage of an id: its scale and both chains are in it.
submission_id(d, bridge, amount, from, to, nonce) ==
  [debridge_id |-> d, bridge |-> bridge, amount |-> amount,
   from |-> from, to |-> to, nonce |-> nonce]

\* The program has just been deployed, or upgraded over one that left Legacy behind.
Init ==
  /\ now = 1
  /\ cfg = NoConfig
  /\ asset = [d \in DebridgeId |->
                IF d \in DOMAIN Legacy THEN decode_asset_config(Legacy[d]) ELSE NoAsset]
  /\ binding = [v \in Vault |-> -1]
  /\ sent = {} /\ executed = <<>> /\ refunded = {}
  /\ balance = Liquidity
  /\ gov = [a \in ActionId |-> 0]
  /\ schedules = 0
  /\ notice = [a \in ActionId |-> 0]

-----------------------------------------------------------------------------
(* Pure rules *)

\* The one config account there is, once the program has written it.
load_config == cfg.owned

\* The record of an asset; reading one that was never written fails.
load_asset(d) == asset[d]

\* The record registration writes: the mint's own decimals go into it.
AssetConfig(v, s) == [vault |-> v, bridge |-> s, local |-> Decimals[v], legacy |-> FALSE]

\* The proof of a lock, and where the money goes back to.
SentRecord(id, v, a) == [id |-> id, vault |-> v, amount |-> a]

\* A record that was never written, or was zeroed by its refund, does not load.
load_sent_record(x) == x \in sent

\* Whoever deployed the program.
require_upgrade_authority(who) == who = "upgrade authority"

in_setup_phase == ~cfg.sealed /\ cfg.setup_deadline # 0 /\ now <= cfg.setup_deadline

guardian_change_needs_schedule == ~in_setup_phase /\ cfg.guardian # NoAccount

\* Mutant: a matured schedule never expires.
governance_consumable_ForEver(ready_at) == ready_at # 0 /\ now >= ready_at

governance_consumable(ready_at) ==
  ready_at # 0 /\ now >= ready_at /\ now <= ready_at + Grace

bridge_unit(local, bridge) == 10 ^ (local - bridge)

\* Local amount a has an exact wire form for record r.
to_wire_exact(r, a) == a % bridge_unit(r.local, r.bridge) = 0
to_wire(r, a) == a \div bridge_unit(r.local, r.bridge)
to_local(r, w) == w * bridge_unit(r.local, r.bridge)

\* Mutant: a binding may be replaced.
asset_write_allowed_Always(old, new) == TRUE

\* Write-once: an empty slot, or the very same record again.
asset_write_allowed(old, new) == old.vault = NoAccount \/ old = new

\* A record of the old layout may be rewritten at identity scale only.
legacy_asset_upgrade_allowed(old, new) ==
  old.legacy /\ old.vault = new.vault /\ new.bridge = new.local

\* Mutant: a vault may be committed to a second scale.
vault_binding_allowed_Always(v, s) == TRUE

\* Every id on a vault pays in the units the vault was committed to.
vault_binding_allowed(v, s) == binding[v] \in {-1, s}

\* The mint admits the scale.
check_asset_accounts(v, s) == s <= Decimals[v]

check_threshold_cap(t) == t <= MAX_THRESHOLD

validate_validator_set(V, t) ==
  /\ 1 <= t /\ t <= Len(V) /\ check_threshold_cap(t)
  /\ \A i, j \in DOMAIN V : V[i] = V[j] => i = j

\* Ascending distinct signers, no more than there are validators.
verify_threshold(S) ==
  /\ Cardinality(S) <= Cardinality(cfg.validators)
  /\ Cardinality(S \cap cfg.validators) >= cfg.threshold

\* One marker serves claim and cancel.
is_already_executed(id) == id \in DOMAIN executed

\* Bytes of the config, up to the part that never changes.
config_space(validators, corridors) == 20 * validators + 16 * corridors

\* Config::store: a config that has outgrown its account cannot be written.
store(c) ==
  /\ config_space(Cardinality(c.validators), Cardinality(DOMAIN c.nonce_to))
       <= config_space(MaxValidators, MaxCorridors) + 64
  /\ cfg' = c

corridor_registered(c) == c \in DOMAIN cfg.nonce_to

authorized_to_set_paused(is_owner, paused) == is_owner \/ paused

-----------------------------------------------------------------------------
(* The timelock *)

consume_governance(a) == governance_consumable(gov[a]) /\ gov' = [gov EXCEPT ![a] = 0]

\* Scheduling again restarts the delay.
write_schedule(a) ==
  /\ schedules < MaxSchedules
  /\ schedules' = schedules + 1
  /\ gov' = [gov EXCEPT ![a] = now + Delay]

\* What execution would refuse is refused now.
schedulable(a) ==
  /\ a[1] = "addValidator" =>
       a[2] \notin cfg.validators /\ Cardinality(cfg.validators) < MaxValidators
  /\ a[1] = "lowerThreshold" => a[2] < cfg.threshold
  /\ a[1] = "registerAsset" => check_asset_accounts(a[3], a[4])

process_schedule_action(a) ==
  /\ load_config /\ schedulable(a)
  /\ write_schedule(a)
  /\ notice' = [notice EXCEPT ![a] = now]
  /\ UNCHANGED <<now, cfg, registry, money>>

\* By the owner or the guardian.
process_cancel_scheduled_governance(a) ==
  /\ load_config /\ gov[a] # 0
  /\ gov' = [gov EXCEPT ![a] = 0]
  /\ notice' = [notice EXCEPT ![a] = 0]
  /\ UNCHANGED <<now, cfg, registry, money, schedules>>

-----------------------------------------------------------------------------
(* Governance instructions *)

\* By the upgrade authority, who becomes the owner.
process_init(g, who) ==
  /\ ~load_config /\ require_upgrade_authority(who)
  /\ validate_validator_set(g.validators, g.threshold)
  /\ Len(g.validators) <= MaxValidators
  /\ store([NoConfig EXCEPT !.owned = TRUE, !.guardian = g.guardian,
               !.validators = Range(g.validators), !.threshold = g.threshold,
               !.setup_deadline = now + SetupWindow])
  /\ UNCHANGED <<now, registry, money, gov, schedules>>

process_register_corridor(c) ==
  /\ load_config /\ c # Self
  /\ ~corridor_registered(c)
  /\ Cardinality(DOMAIN cfg.nonce_to) < MaxCorridors
  /\ store([cfg EXCEPT !.nonce_to = [d \in DOMAIN @ \cup {c} |-> IF d = c THEN 0 ELSE @[d]]])
  /\ UNCHANGED <<now, registry, money, gov, schedules>>

\* By the owner, or by the guardian.
process_set_paused(is_owner, paused) ==
  /\ load_config /\ (is_owner \/ cfg.guardian # NoAccount)
  /\ authorized_to_set_paused(is_owner, paused)
  /\ cfg.paused # paused
  /\ store([cfg EXCEPT !.paused = paused])
  /\ UNCHANGED <<now, registry, money, gov, schedules>>

process_set_guardian(g) ==
  /\ load_config /\ g # cfg.guardian
  /\ IF guardian_change_needs_schedule THEN consume_governance(<<"setGuardian", g>>)
                                       ELSE UNCHANGED gov
  /\ store([cfg EXCEPT !.guardian = g])
  /\ UNCHANGED <<now, registry, money, schedules>>

AddValidator(k) ==
  /\ load_config /\ k \notin cfg.validators
  /\ Cardinality(cfg.validators) < MaxValidators
  /\ consume_governance(<<"addValidator", k>>)
  /\ store([cfg EXCEPT !.validators = @ \cup {k}])
  /\ UNCHANGED <<now, registry, money, schedules>>

\* Mutant: the last validators may go.
mayRemove_Always == TRUE

mayRemove == Cardinality(cfg.validators) - 1 >= cfg.threshold

RemoveValidator(k) ==
  /\ load_config /\ k \in cfg.validators /\ mayRemove
  /\ store([cfg EXCEPT !.validators = @ \ {k}])
  /\ UNCHANGED <<now, registry, money, gov, schedules>>

process_set_validator(k) == AddValidator(k) \/ RemoveValidator(k)

process_set_threshold(t) ==
  /\ load_config /\ 1 <= t /\ t <= Cardinality(cfg.validators) /\ check_threshold_cap(t)
  /\ t # cfg.threshold
  /\ IF t < cfg.threshold THEN consume_governance(<<"lowerThreshold", t>>) ELSE UNCHANGED gov
  /\ store([cfg EXCEPT !.threshold = t])
  /\ UNCHANGED <<now, registry, money, schedules>>

\* bind_vault comes before the record is written, and on a rerun too.
bind_vault(v, s) ==
  /\ vault_binding_allowed(v, s)
  /\ binding' = [binding EXCEPT ![v] = s]

\* The three outcomes: a new record, the same record again, a lifted old one.
process_register_asset(d, v, s) ==
  LET new == AssetConfig(v, s)
      lifted == legacy_asset_upgrade_allowed(asset[d], new)
  IN
  /\ load_config /\ check_asset_accounts(v, s)
  /\ lifted \/ asset_write_allowed(asset[d], new)
  /\ IF ~lifted /\ asset[d] # new /\ ~in_setup_phase
       THEN consume_governance(<<"registerAsset", d, v, s>>) ELSE UNCHANGED gov
  /\ bind_vault(v, s)
  /\ asset' = [asset EXCEPT ![d] = new]
  /\ UNCHANGED <<now, cfg, money, schedules>>

process_seal ==
  /\ load_config /\ ~cfg.sealed
  /\ store([cfg EXCEPT !.sealed = TRUE])
  /\ UNCHANGED <<now, registry, money, gov, schedules>>

-----------------------------------------------------------------------------
(* Instructions that move money *)

\* The vault passed in is the registered one.
verify_asset_binding(d, v) == asset[d].vault = v

\* A record that was zeroed still occupies its address.
create_sent_record(id, v, a) ==
  /\ id \notin {x.id : x \in sent} \cup refunded
  /\ sent' = sent \cup {SentRecord(id, v, a)}

create_marker(id, state) ==
  executed' = [i \in DOMAIN executed \cup {id} |-> IF i = id THEN state ELSE executed[i]]

process_send(d, a, c, v) ==
  LET r == load_asset(d)
      id == submission_id(d, r.bridge, to_wire(r, a), Self, c, cfg.nonce_to[c])
  IN
  /\ load_config /\ ~cfg.paused /\ cfg.sealed
  /\ a # 0
  /\ corridor_registered(c) /\ cfg.nonce_to[c] < MaxNonce
  /\ verify_asset_binding(d, v) /\ to_wire_exact(r, a)
  /\ store([cfg EXCEPT !.nonce_to[c] = @ + 1])
  /\ create_sent_record(id, v, a)
  /\ balance' = [balance EXCEPT ![v] = @ + a]
  /\ UNCHANGED <<now, registry, executed, refunded, gov, schedules>>

\* Mutant: the scale in the id is not compared with the registered one.
SameScale_Unchecked(id) == TRUE

\* The id's scale is the one this gate converts with.
SameScale(id) == id.bridge = asset[id.debridge_id].bridge

process_claim(id, S, v) ==
  LET paid == to_local(load_asset(id.debridge_id), id.amount) IN
  /\ load_config /\ ~cfg.paused /\ cfg.sealed
  /\ verify_asset_binding(id.debridge_id, v) /\ SameScale(id)
  /\ ~is_already_executed(id)
  /\ verify_threshold(S)
  /\ paid <= MaxU64 /\ paid <= balance[v]
  /\ create_marker(id, "claimed")
  /\ balance' = [balance EXCEPT ![v] = @ - paid]
  /\ UNCHANGED <<now, cfg, registry, sent, refunded, gov, schedules>>

\* Moves no money, so it asks neither for the seal nor for the registry.
process_cancel(id, S) ==
  /\ load_config /\ ~cfg.paused
  /\ ~is_already_executed(id)
  /\ verify_threshold(S)
  /\ create_marker(id, "cancelled")
  /\ UNCHANGED <<now, cfg, registry, sent, refunded, balance, gov, schedules>>

\* The marker is written and the origin proof zeroed.
Retire(x) == sent' = sent \ {x} /\ refunded' = refunded \cup {x.id}

\* Pays the recorded amount back, also while paused.
process_refund(x, S, v) ==
  /\ load_config
  /\ load_sent_record(x) /\ x.id \notin refunded
  /\ verify_threshold(S)
  /\ verify_asset_binding(x.id.debridge_id, v)
  /\ x.amount <= balance[v]
  /\ Retire(x)
  /\ balance' = [balance EXCEPT ![v] = @ - x.amount]
  /\ UNCHANGED <<now, cfg, registry, executed, gov, schedules>>

-----------------------------------------------------------------------------

Tick ==
  /\ now < MaxTime
  /\ now' = now + 1
  /\ UNCHANGED <<cfg, registry, money, gov, schedules>>

\* The powers a step grants that had to be announced, read off what it changed.
\* Lifting a record of the old layout grants none: it changes no amount.
Gained ==
  IF ~cfg.owned THEN {} ELSE
    {<<"addValidator", k>> : k \in cfg'.validators \ cfg.validators}
      \cup {<<"lowerThreshold", t>> : t \in {cfg'.threshold} \cap (1 .. cfg.threshold - 1)}
      \cup IF in_setup_phase THEN {} ELSE
             {<<"registerAsset", d, asset'[d].vault, asset'[d].bridge>> :
                d \in {e \in DebridgeId : asset'[e] # asset[e] /\ ~asset[e].legacy}}
               \cup {<<"setGuardian", g>> :
                       g \in IF cfg.guardian = NoAccount THEN {} ELSE {cfg'.guardian} \ {cfg.guardian}}

OwnerCall ==
  \/ \E g \in Genesis, who \in {"upgrade authority", "anyone"} : process_init(g, who)
  \/ \E c \in Peer \cup {Self} : process_register_corridor(c)
  \/ \E o, p \in BOOLEAN : process_set_paused(o, p)
  \/ \E g \in Account \cup {NoAccount} : process_set_guardian(g)
  \/ \E k \in Key : process_set_validator(k)
  \/ \E t \in 1 .. Cardinality(Key) : process_set_threshold(t)
  \/ \E d \in DebridgeId, v \in Vault, s \in Scale : process_register_asset(d, v, s)
  \/ process_seal

UserCall ==
  \/ \E d \in DebridgeId, a \in LocalAmount, c \in Peer, v \in Vault : process_send(d, a, c, v)
  \/ \E id \in Inbound, S \in SUBSET Key :
       process_cancel(id, S) \/ \E v \in Vault : process_claim(id, S, v)
  \/ \E x \in sent, S \in SUBSET Key, v \in Vault : process_refund(x, S, v)

Next ==
  \/ \E a \in ActionId : process_schedule_action(a) \/ process_cancel_scheduled_governance(a)
  \/ /\ OwnerCall \/ UserCall \/ Tick
     /\ notice' = [a \in ActionId |-> IF a \in Gained THEN 0 ELSE notice[a]]

Spec == Init /\ [][Next]_vars

-----------------------------------------------------------------------------
(* Properties *)

\* What id is worth in its vault's mint: its own scale says.  A transfer of the old
\* layout carries scale 0 and local amounts.
Worth(id, v) == IF id.bridge = 0 /\ id.debridge_id \in DOMAIN Legacy THEN id.amount
                ELSE id.amount * bridge_unit(Decimals[v], id.bridge)

\* Locks that vault v backs, and what they are worth.
LocksOn(locks, v) == {x \in locks : x.vault = v}
LockedOn(locks, v) == SumFunctionOnSet([x \in locks |-> x.amount], LocksOn(locks, v))

\* Claims that registry r paid out of vault v, and what they are worth.
ClaimsOn(markers, r, v) ==
  {id \in DOMAIN markers : markers[id] = "claimed" /\ r[id.debridge_id].vault = v}
PaidFrom(markers, r, v) ==
  SumFunctionOnSet([id \in DOMAIN markers |-> Worth(id, v)], ClaimsOn(markers, r, v))

\* process_send, process_claim, process_refund and the registry together: a vault
\* holds what it began with and every lock that was not refunded, less every claim
\* at exactly the value its id states, whatever was registered, lifted or repeated
\* in between; and every lock can still be refunded from its own vault.
VaultBooks ==
  \A v \in Vault :
    balance[v] = Liquidity[v] + LockedOn(sent, v) - PaidFrom(executed, asset, v)

\* bind_vault: any two ids on one vault pay out in the same units, so that no
\* registration lets one transfer draw a power of ten of another's backing.
VaultsAgree ==
  \A d, e \in DebridgeId :
    /\ asset[d].vault = asset[e].vault /\ asset[d].vault # NoAccount
    /\ ~asset[d].legacy /\ ~asset[e].legacy
    => asset[d].bridge = asset[e].bridge /\ asset[d].local = asset[e].local

\* The ids of the locks made so far, refunded or not.
LockIds == {x.id : x \in sent} \cup refunded

\* The markers, the origin proofs, the registry and the seal are one-way: no
\* instruction reopens a slot, revives a refunded lock, moves a registered asset to
\* another vault or unseals the gate; and process_send never hands out a corridor's
\* nonce again, for whichever asset, not even after the first lock was refunded.
SlotsAreFinal ==
  [][/\ \A id \in DOMAIN executed : id \in DOMAIN executed' /\ executed'[id] = executed[id]
     /\ refunded \subseteq refunded' /\ {x.id : x \in sent'} \cap refunded' = {}
     /\ \A x \in sent : x \in sent' \/ x.id \in refunded'
     /\ \A d \in DebridgeId : asset[d].vault # NoAccount => asset'[d].vault = asset[d].vault
     /\ cfg.sealed => cfg'.sealed
     /\ \A x \in sent' \ sent :
          \A id \in LockIds : id.to = x.id.to => id.nonce < x.id.nonce]_vars

\* consume_governance: every validator added, threshold lowered and, after the setup
\* phase, asset bound and guardian replaced was announced a full delay before and
\* not longer ago than the grace period, neither vetoed nor used since.
EveryPowerWasAnnounced ==
  [][\A a \in Gained :
       notice[a] # 0 /\ notice[a] + Delay <= now /\ now <= notice[a] + Delay + Grace]_vars

\* validate_validator_set and the governance instructions: in whatever order the
\* owner adds, removes, raises, lowers and registers, the validators can reach the
\* threshold, and there are never more of them, or of corridors, than the account
\* was given room for at init.
ConfigStaysUsable ==
  cfg.owned =>
    /\ 1 <= cfg.threshold /\ cfg.threshold <= Cardinality(cfg.validators)
    /\ Cardinality(cfg.validators) <= MaxValidators
    /\ Cardinality(DOMAIN cfg.nonce_to) <= MaxCorridors

\* Every vault's balance agrees with the lifecycle records, and the ids that share a vault
\* pay out in the same units (process_send, process_claim, process_refund, process_set_asset).
VaultsAreSound == VaultBooks /\ VaultsAgree
=============================================================================
