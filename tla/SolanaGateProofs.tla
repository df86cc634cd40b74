-------------------------- MODULE SolanaGateProofs --------------------------
(***************************************************************************)
(* Proofs about module SolanaGate, for any number of keys, assets, vaults  *)
(* and transfers, and for signers that sign anything.  The invariant has   *)
(* four parts, each about accounts of its own: the config (ConfigInv), the *)
(* schedules (TimelockInv), the registry (RegistryInv) and the lifecycle   *)
(* records with the vaults they move money of (MoneyInv).  An instruction  *)
(* is shown to keep the parts it writes; the others it leaves alone.       *)
(* The last part is about the relayer that reads the gate's log (module    *)
(* SolanaScanner), for any transactions, assets, pages and failures.       *)
(***************************************************************************)
EXTENDS SolanaGate, SolanaScanner, Sums

Corridors == UNION {[D -> Nat] : D \in SUBSET Peer}

Config ==
  [owned: BOOLEAN, guardian: Account \cup {NoAccount}, validators: SUBSET Key, threshold: Int,
   paused: BOOLEAN, nonce_to: Corridors, sealed: BOOLEAN, setup_deadline: Nat]

\* What the owner can do to a config that is in use.
Usable(c) ==
  /\ 1 <= c.threshold /\ c.threshold <= Cardinality(c.validators)
  /\ c.threshold <= MAX_THRESHOLD
  /\ Cardinality(c.validators) <= MaxValidators
  /\ IsFiniteSet(DOMAIN c.nonce_to) /\ Cardinality(DOMAIN c.nonce_to) <= MaxCorridors

\* The config is typed, usable once it is owned, and empty before.
ConfigInv ==
  /\ cfg \in Config
  /\ cfg.owned => Usable(cfg)
  /\ ~cfg.owned => cfg = NoConfig

\* The clock runs, and what is scheduled was announced one delay before it matures.
TimelockInv ==
  /\ now \in Nat \ {0}
  /\ gov \in [ActionId -> Nat]
  /\ notice \in [ActionId -> Nat]
  /\ \A a \in ActionId : gov[a] # 0 => notice[a] # 0 /\ gov[a] = notice[a] + Delay

AssetRecord ==
  [vault: Vault \cup {NoAccount}, bridge: Nat, local: Nat, legacy: BOOLEAN]

\* A record of asset d as decode_asset_config or registration may have left it:
\* an old one has a vault and no scale, and may have been lifted to identity scale;
\* a new one carries its mint's decimals and the scale its vault is committed to.
GoodRecord(d, r, b) ==
  /\ r \in AssetRecord
  /\ r.legacy => d \in DOMAIN Legacy /\ r.bridge = 0 /\ r.local = 0
  /\ d \in DOMAIN Legacy => r.vault # NoAccount /\ (r.legacy \/ r.bridge = r.local)
  /\ r.vault # NoAccount /\ ~r.legacy =>
       r.local = Decimals[r.vault] /\ r.bridge <= r.local /\ b[r.vault] = r.bridge

RegistryInv ==
  /\ binding \in [Vault -> Nat \cup {-1}]
  /\ asset \in [DebridgeId -> AssetRecord]
  /\ \A d \in DebridgeId : GoodRecord(d, asset[d], binding)

\* Origin proofs name their asset's vault, no two share an id, and none is retired;
\* what was claimed has a vault and a worth; and the vaults' books are right.
ProofsTrue(locks, retired, r) ==
  /\ IsFiniteSet(locks)
  /\ \A x \in locks : /\ x.id.debridge_id \in DebridgeId /\ x.amount \in Nat
                      /\ x.vault \in Vault /\ r[x.id.debridge_id].vault = x.vault
                      /\ x.id \notin retired
  /\ \A x, y \in locks : x.id = y.id => x = y

MarkersTrue(markers, r) ==
  /\ IsFiniteSet(DOMAIN markers)
  /\ \A id \in DOMAIN markers : id \in Inbound
  /\ \A id \in DOMAIN markers : markers[id] = "claimed" =>
       /\ r[id.debridge_id].vault \in Vault
       /\ Worth(id, r[id.debridge_id].vault) \in Int

MoneyInv ==
  /\ ProofsTrue(sent, refunded, asset)
  /\ MarkersTrue(executed, asset)
  /\ balance \in [Vault -> Int]
  /\ VaultBooks

GateInv == ConfigInv /\ TimelockInv /\ RegistryInv /\ MoneyInv

-----------------------------------------------------------------------------
(* The config *)

LEMMA NoConfigIsConfig == NoConfig \in Config
<1>1. <<>> \in [{} -> Nat]
  OBVIOUS
<1>2. <<>> \in Corridors
  BY <1>1 DEF Corridors
<1> QED
  BY <1>2 DEF NoConfig, Config

\* The fields of a typed config.
LEMMA ConfigFields ==
  ASSUME NEW c \in Config
  PROVE  /\ c.owned \in BOOLEAN /\ c.guardian \in Account \cup {NoAccount}
         /\ c.validators \subseteq Key /\ c.threshold \in Int /\ c.paused \in BOOLEAN
         /\ c.nonce_to \in Corridors /\ c.sealed \in BOOLEAN /\ c.setup_deadline \in Nat
         /\ IsFiniteSet(c.validators) /\ Cardinality(c.validators) \in Nat
<1>1. c.validators \subseteq Key
  BY DEF Config
<1>2. IsFiniteSet(c.validators)
  BY <1>1, FS_Subset, SolanaGateAssumption
<1> QED
  BY <1>1, <1>2, FS_CardinalityType DEF Config

\* A distinct list of keys has as many keys as entries.
LEMMA DistinctKeys ==
  ASSUME NEW V \in Seq(Key), \A i, j \in DOMAIN V : V[i] = V[j] => i = j
  PROVE  IsFiniteSet(Range(V)) /\ Cardinality(Range(V)) = Len(V) /\ Range(V) \subseteq Key
<1> DEFINE I == 1 .. Len(V)
<1>1. Len(V) \in Nat /\ DOMAIN V = I /\ V \in [I -> Key]
  OBVIOUS
<1>2. IsFiniteSet(I) /\ Cardinality(I) = Len(V)
  <2>1. Cardinality(1 .. Len(V)) = IF 1 > Len(V) THEN 0 ELSE Len(V) - 1 + 1
    BY <1>1, FS_Interval
  <2> QED BY <1>1, <2>1, FS_Interval
<1>3. Range(V) \subseteq Key
  BY <1>1 DEF Range
<1>4. V \in Surjection(I, Range(V)) /\ V \in Injection(I, Range(V))
  <2>1. Range(V) = {V[i] : i \in I}
    BY <1>1 DEF Range
  <2>2. V \in [I -> Range(V)]
    BY <1>1, <2>1
  <2>3. \A i, j \in I : V[i] = V[j] => i = j
    BY <1>1
  <2> HIDE DEF I
  <2> QED BY <2>1, <2>2, <2>3 DEF Injection, Surjection, IsInjective
<1>5. IsFiniteSet(Range(V)) /\ Cardinality(Range(V)) = Cardinality(I)
  BY <1>2, <1>4, FS_Surjection
<1> QED
  BY <1>2, <1>3, <1>5

\* A function of corridors maps finitely or infinitely many peers to nonces.
LEMMA CorridorFields ==
  ASSUME NEW f
  PROVE  f \in Corridors <=> DOMAIN f \in SUBSET Peer /\ f \in [DOMAIN f -> Nat]
BY DEF Corridors

\* init writes a usable config over the empty one.
LEMMA InitKeepsConfig ==
  ASSUME ConfigInv, now \in Nat, NEW g \in Genesis, NEW who, process_init(g, who)
  PROVE  ConfigInv'
<1> DEFINE V == g.validators
<1>1. V \in Seq(Key) /\ g.threshold \in Int /\ g.guardian \in Account \cup {NoAccount}
  BY SolanaGateAssumption
<1>2. /\ 1 <= g.threshold /\ g.threshold <= Len(V) /\ g.threshold <= MAX_THRESHOLD
      /\ \A i, j \in DOMAIN V : V[i] = V[j] => i = j
      /\ Len(V) <= MaxValidators
      /\ cfg' = [NoConfig EXCEPT !.owned = TRUE, !.guardian = g.guardian,
                   !.validators = Range(V), !.threshold = g.threshold,
                   !.setup_deadline = now + SetupWindow]
  BY DEF process_init, validate_validator_set, check_threshold_cap, store
<1>3. Range(V) \subseteq Key /\ Cardinality(Range(V)) = Len(V)
  BY <1>1, <1>2, DistinctKeys
<1> HIDE DEF V
<1>4. now + SetupWindow \in Nat
  BY SolanaGateAssumption
<1>5. NoConfig \in Config /\ NoConfig.nonce_to = <<>>
  BY NoConfigIsConfig DEF NoConfig
<1>6. /\ cfg' \in Config /\ cfg'.owned = TRUE /\ cfg'.threshold = g.threshold
      /\ cfg'.validators = Range(V) /\ cfg'.nonce_to = <<>>
  BY <1>1, <1>2, <1>3, <1>4, <1>5 DEF Config
<1>7. IsFiniteSet(DOMAIN <<>>) /\ Cardinality(DOMAIN <<>>) = 0 /\ MaxCorridors \in Nat
  <2>1. DOMAIN <<>> = {}
    OBVIOUS
  <2> QED BY <2>1, FS_EmptySet, SolanaGateAssumption
<1>8. Cardinality(DOMAIN <<>>) <= MaxCorridors
  BY <1>7
<1>9. Usable(cfg)'
  BY <1>2, <1>3, <1>6, <1>7, <1>8 DEF Usable
<1> QED
  BY <1>6, <1>9 DEF ConfigInv

\* A config that changes nothing its usability depends on stays usable.
LEMMA SwitchKeepsConfig ==
  ASSUME ConfigInv, cfg.owned, cfg' \in Config, cfg'.owned = TRUE,
         cfg'.validators = cfg.validators, cfg'.threshold = cfg.threshold,
         DOMAIN cfg'.nonce_to = DOMAIN cfg.nonce_to
  PROVE  ConfigInv'
<1>1. Usable(cfg)'
  BY DEF ConfigInv, Usable
<1> QED
  BY <1>1 DEF ConfigInv

\* Pausing, sealing and a new guardian.
LEMMA SettingKeepsConfig ==
  ASSUME ConfigInv,
         \/ \E o, p \in BOOLEAN : process_set_paused(o, p)
         \/ \E g \in Account \cup {NoAccount} : process_set_guardian(g)
         \/ process_seal
  PROVE  ConfigInv'
<1>1. cfg \in Config
  BY DEF ConfigInv
<1>2. cfg.owned
  BY DEF process_set_paused, process_set_guardian, process_seal, load_config
<1>3. \/ \E p \in BOOLEAN : cfg' = [cfg EXCEPT !.paused = p]
      \/ \E g \in Account \cup {NoAccount} : cfg' = [cfg EXCEPT !.guardian = g]
      \/ cfg' = [cfg EXCEPT !.sealed = TRUE]
  BY DEF process_set_paused, process_set_guardian, process_seal, store
<1>4. /\ cfg' \in Config /\ cfg'.owned = cfg.owned /\ cfg'.validators = cfg.validators
      /\ cfg'.threshold = cfg.threshold /\ cfg'.nonce_to = cfg.nonce_to
  BY <1>1, <1>3 DEF Config
<1> QED
  BY <1>1, <1>2, <1>4, SwitchKeepsConfig, ConfigFields

\* send moves one corridor's nonce on.
LEMMA SendKeepsConfig ==
  ASSUME ConfigInv, NEW d, NEW a, NEW c \in Peer, NEW v, process_send(d, a, c, v)
  PROVE  ConfigInv'
<1>1. cfg \in Config /\ cfg.nonce_to \in Corridors
  BY DEF ConfigInv, Config
<1>2. /\ cfg.owned /\ c \in DOMAIN cfg.nonce_to
      /\ cfg' = [cfg EXCEPT !.nonce_to = [cfg.nonce_to EXCEPT ![c] = @ + 1]]
  BY DEF process_send, load_config, corridor_registered, store
<1> DEFINE n == [cfg.nonce_to EXCEPT ![c] = @ + 1]
<1>3. n \in Corridors /\ DOMAIN n = DOMAIN cfg.nonce_to
  <2>1. DOMAIN cfg.nonce_to \in SUBSET Peer /\ cfg.nonce_to \in [DOMAIN cfg.nonce_to -> Nat]
    BY <1>1, CorridorFields
  <2>2. n \in [DOMAIN cfg.nonce_to -> Nat] /\ DOMAIN n = DOMAIN cfg.nonce_to
    BY <1>2, <2>1
  <2> HIDE DEF n
  <2> QED BY <2>1, <2>2, CorridorFields
<1>4. cfg' = [cfg EXCEPT !.nonce_to = n]
  BY <1>2
<1> HIDE DEF n
<1>5. /\ cfg' \in Config /\ cfg'.owned = cfg.owned /\ cfg'.validators = cfg.validators
      /\ cfg'.threshold = cfg.threshold /\ cfg'.nonce_to = n
  BY <1>1, <1>3, <1>4 DEF Config
<1> QED
  BY <1>2, <1>3, <1>5, SwitchKeepsConfig

\* A corridor is added while there is room for one.
LEMMA CorridorKeepsConfig ==
  ASSUME ConfigInv, NEW c \in Peer \cup {Self}, process_register_corridor(c)
  PROVE  ConfigInv'
<1> DEFINE D == DOMAIN cfg.nonce_to
           n == [d \in D \cup {c} |-> IF d = c THEN 0 ELSE cfg.nonce_to[d]]
<1>1. /\ cfg \in Config /\ cfg.nonce_to \in Corridors /\ Usable(cfg)
      /\ c \in Peer /\ cfg.owned /\ c \notin D /\ Cardinality(D) < MaxCorridors
      /\ cfg' = [cfg EXCEPT !.nonce_to = n]
  BY DEF ConfigInv, Config, process_register_corridor, load_config, corridor_registered, store
<1>2. n \in Corridors /\ DOMAIN n = D \cup {c}
  <2>1. D \in SUBSET Peer /\ cfg.nonce_to \in [D -> Nat]
    BY <1>1, CorridorFields
  <2>2. n \in [D \cup {c} -> Nat] /\ DOMAIN n = D \cup {c}
    BY <2>1
  <2>3. D \cup {c} \in SUBSET Peer
    BY <1>1, <2>1
  <2> HIDE DEF n, D
  <2> QED BY <2>2, <2>3, CorridorFields
<1> HIDE DEF n
<1>3. /\ cfg' \in Config /\ cfg'.owned = cfg.owned /\ cfg'.validators = cfg.validators
      /\ cfg'.threshold = cfg.threshold /\ cfg'.nonce_to = n
  BY <1>1, <1>2 DEF Config
<1>4. IsFiniteSet(D \cup {c}) /\ Cardinality(D \cup {c}) <= MaxCorridors
  <2>1. IsFiniteSet(D) /\ MaxCorridors \in Nat
    BY <1>1, SolanaGateAssumption DEF Usable
  <2> HIDE DEF D
  <2>2. Cardinality(D) \in Nat /\ Cardinality(D \cup {c}) = Cardinality(D) + 1
        /\ IsFiniteSet(D \cup {c})
    BY <1>1, <2>1, FS_AddElement, FS_CardinalityType
  <2> QED BY <1>1, <2>1, <2>2
<1>5. Usable(cfg)'
  BY <1>1, <1>2, <1>3, <1>4 DEF Usable
<1> QED
  BY <1>1, <1>3, <1>5 DEF ConfigInv

\* A validator joins while there is room, and leaves while the rest reach the
\* threshold.
LEMMA ValidatorKeepsConfig ==
  ASSUME ConfigInv, NEW k \in Key, process_set_validator(k)
  PROVE  ConfigInv'
<1> DEFINE V == cfg.validators
<1>1. /\ cfg \in Config /\ IsFiniteSet(V) /\ V \subseteq Key /\ Cardinality(V) \in Nat
      /\ cfg.threshold \in Int
  BY ConfigFields DEF ConfigInv
<1>2. cfg.owned /\ Usable(cfg)
  BY DEF ConfigInv, process_set_validator, AddValidator, RemoveValidator, load_config
<1>3. CASE AddValidator(k)
  <2>1. k \notin V /\ Cardinality(V) < MaxValidators /\ cfg' = [cfg EXCEPT !.validators = V \cup {k}]
    BY <1>3 DEF AddValidator, store
  <2>2. Cardinality(V \cup {k}) = Cardinality(V) + 1 /\ MaxValidators \in Nat
    BY <1>1, <2>1, FS_AddElement, SolanaGateAssumption
  <2>3. /\ cfg' \in Config /\ cfg'.owned = cfg.owned /\ cfg'.validators = V \cup {k}
        /\ cfg'.threshold = cfg.threshold /\ cfg'.nonce_to = cfg.nonce_to
    BY <1>1, <2>1 DEF Config
  <2> HIDE DEF V
  <2>4. cfg.threshold <= Cardinality(V \cup {k}) /\ Cardinality(V \cup {k}) <= MaxValidators
    BY <1>1, <1>2, <2>1, <2>2 DEF Usable, V
  <2>5. Usable(cfg)'
    BY <1>2, <2>3, <2>4 DEF Usable
  <2> QED BY <1>2, <2>3, <2>5 DEF ConfigInv
<1>4. CASE RemoveValidator(k)
  <2>1. /\ k \in V /\ Cardinality(V) - 1 >= cfg.threshold
        /\ cfg' = [cfg EXCEPT !.validators = V \ {k}]
    BY <1>4 DEF RemoveValidator, mayRemove, store
  <2>2. Cardinality(V \ {k}) = Cardinality(V) - 1 /\ MaxValidators \in Nat
    BY <1>1, <2>1, FS_RemoveElement, SolanaGateAssumption
  <2>3. /\ cfg' \in Config /\ cfg'.owned = cfg.owned /\ cfg'.validators = V \ {k}
        /\ cfg'.threshold = cfg.threshold /\ cfg'.nonce_to = cfg.nonce_to
    BY <1>1, <2>1 DEF Config
  <2>4. Cardinality(V) <= MaxValidators
    BY <1>2 DEF Usable
  <2> HIDE DEF V
  <2>5. cfg.threshold <= Cardinality(V \ {k}) /\ Cardinality(V \ {k}) <= MaxValidators
    BY <1>1, <2>1, <2>2, <2>4
  <2>6. Usable(cfg)'
    BY <1>2, <2>3, <2>5 DEF Usable
  <2> QED BY <1>2, <2>3, <2>6 DEF ConfigInv
<1> QED
  BY <1>3, <1>4 DEF process_set_validator

LEMMA ThresholdKeepsConfig ==
  ASSUME ConfigInv, NEW t \in Int, process_set_threshold(t)
  PROVE  ConfigInv'
<1>1. /\ cfg \in Config /\ cfg.owned /\ Usable(cfg)
      /\ 1 <= t /\ t <= Cardinality(cfg.validators) /\ t <= MAX_THRESHOLD
      /\ cfg' = [cfg EXCEPT !.threshold = t]
  BY DEF ConfigInv, process_set_threshold, load_config, check_threshold_cap, store
<1>2. /\ cfg' \in Config /\ cfg'.owned = cfg.owned /\ cfg'.validators = cfg.validators
      /\ cfg'.threshold = t /\ cfg'.nonce_to = cfg.nonce_to
  BY <1>1 DEF Config
<1>3. Usable(cfg)'
  BY <1>1, <1>2 DEF Usable
<1> QED
  BY <1>1, <1>2, <1>3 DEF ConfigInv

\* The instructions that leave the config alone.
LEMMA ConfigStep ==
  ASSUME ConfigInv, now \in Nat, Next \/ UNCHANGED vars
  PROVE  ConfigInv'
<1>1. CASE cfg' = cfg
  BY <1>1 DEF ConfigInv, Usable
<1>2. ASSUME NEW g \in Genesis, NEW who, process_init(g, who) PROVE ConfigInv'
  BY <1>2, InitKeepsConfig
<1>3. ASSUME OwnerCall PROVE ConfigInv' \/ cfg' = cfg
  <2>1. \A t \in 1 .. Cardinality(Key) : t \in Int
    OBVIOUS
  <2> QED BY <1>2, <1>3, <2>1, CorridorKeepsConfig, SettingKeepsConfig, ValidatorKeepsConfig,
             ThresholdKeepsConfig DEF OwnerCall, process_register_asset
<1>4. ASSUME UserCall PROVE ConfigInv' \/ cfg' = cfg
  BY <1>4, SendKeepsConfig DEF UserCall, process_cancel, process_claim, process_refund
<1> QED
  BY <1>1, <1>3, <1>4 DEF Next, vars, Tick, process_schedule_action,
     process_cancel_scheduled_governance

-----------------------------------------------------------------------------
(* The timelock *)

\* A schedule used now was due now and is gone afterwards.
Spends(a) ==
  /\ governance_consumable(gov[a])
  /\ gov' = [gov EXCEPT ![a] = 0]

\* A step that changes no validator, threshold, guardian or asset gains no power.
LEMMA NothingGained ==
  ASSUME ConfigInv, cfg'.validators \subseteq cfg.validators, cfg'.threshold \in Int,
         cfg'.threshold >= cfg.threshold, cfg'.guardian = cfg.guardian, asset' = asset
  PROVE  Gained = {}
<1>1. cfg.threshold \in Int
  BY ConfigFields DEF ConfigInv
<1>2. {cfg'.threshold} \cap (1 .. cfg.threshold - 1) = {}
  BY <1>1
<1>3. cfg'.validators \ cfg.validators = {} /\ {cfg'.guardian} \ {cfg.guardian} = {}
  OBVIOUS
<1>4. {e \in DebridgeId : asset'[e] # asset[e] /\ ~asset[e].legacy} = {}
  OBVIOUS
<1> QED
  BY <1>2, <1>3, <1>4 DEF Gained

\* A step that leaves config and registry alone gains no power.
LEMMA NoChangeGainsNothing ==
  ASSUME ConfigInv, cfg' = cfg, asset' = asset
  PROVE  Gained = {}
<1>1. cfg.threshold \in Int
  BY ConfigFields DEF ConfigInv
<1> QED
  BY <1>1, NothingGained

\* Each instruction gains at most the one power it spends a schedule for.
LEMMA GuardianGains ==
  ASSUME ConfigInv, NEW g \in Account \cup {NoAccount}, process_set_guardian(g)
  PROVE  \/ Gained = {} /\ gov' = gov
         \/ Gained = {<<"setGuardian", g>>} /\ Spends(<<"setGuardian", g>>)
<1>1. /\ cfg \in Config /\ cfg.owned /\ cfg.threshold \in Int
      /\ cfg' = [cfg EXCEPT !.guardian = g] /\ g # cfg.guardian /\ asset' = asset
  BY ConfigFields DEF ConfigInv, process_set_guardian, load_config, store, registry
<1>2. /\ cfg'.validators = cfg.validators /\ cfg'.threshold = cfg.threshold
      /\ cfg'.guardian = g
  BY <1>1 DEF Config
<1>3. /\ cfg'.validators \ cfg.validators = {}
      /\ {cfg'.threshold} \cap (1 .. cfg.threshold - 1) = {}
      /\ {e \in DebridgeId : asset'[e] # asset[e] /\ ~asset[e].legacy} = {}
      /\ {cfg'.guardian} \ {cfg.guardian} = {g}
  BY <1>1, <1>2
<1>4. CASE guardian_change_needs_schedule
  <2>1. ~in_setup_phase /\ cfg.guardian # NoAccount /\ Spends(<<"setGuardian", g>>)
    BY <1>4 DEF guardian_change_needs_schedule, process_set_guardian, consume_governance, Spends
  <2> QED BY <1>1, <1>3, <2>1 DEF Gained
<1>5. CASE ~guardian_change_needs_schedule
  <2>1. (in_setup_phase \/ cfg.guardian = NoAccount) /\ gov' = gov
    BY <1>5 DEF guardian_change_needs_schedule, process_set_guardian
  <2> QED BY <1>1, <1>3, <2>1 DEF Gained
<1> QED
  BY <1>4, <1>5

LEMMA ValidatorGains ==
  ASSUME ConfigInv, NEW k \in Key, process_set_validator(k)
  PROVE  \/ Gained = {} /\ gov' = gov
         \/ Gained = {<<"addValidator", k>>} /\ Spends(<<"addValidator", k>>)
<1>1. cfg \in Config /\ cfg.threshold \in Int
  BY ConfigFields DEF ConfigInv
<1>2. CASE AddValidator(k)
  <2>1. /\ cfg.owned /\ k \notin cfg.validators /\ Spends(<<"addValidator", k>>)
        /\ cfg' = [cfg EXCEPT !.validators = cfg.validators \cup {k}] /\ asset' = asset
    BY <1>2 DEF AddValidator, load_config, store, consume_governance, Spends, registry
  <2>2. /\ cfg'.validators = cfg.validators \cup {k} /\ cfg'.threshold = cfg.threshold
        /\ cfg'.guardian = cfg.guardian
    BY <1>1, <2>1 DEF Config
  <2>3. /\ cfg'.validators \ cfg.validators = {k}
        /\ {cfg'.threshold} \cap (1 .. cfg.threshold - 1) = {}
        /\ {e \in DebridgeId : asset'[e] # asset[e] /\ ~asset[e].legacy} = {}
        /\ {cfg'.guardian} \ {cfg.guardian} = {}
    BY <1>1, <2>1, <2>2
  <2> QED BY <2>1, <2>3 DEF Gained
<1>3. CASE RemoveValidator(k)
  <2>1. /\ cfg' = [cfg EXCEPT !.validators = cfg.validators \ {k}] /\ asset' = asset /\ gov' = gov
    BY <1>3 DEF RemoveValidator, store, registry
  <2>2. /\ cfg'.validators = cfg.validators \ {k} /\ cfg'.threshold = cfg.threshold
        /\ cfg'.guardian = cfg.guardian
    BY <1>1, <2>1 DEF Config
  <2> QED BY <1>1, <2>1, <2>2, NothingGained
<1> QED
  BY <1>2, <1>3 DEF process_set_validator

LEMMA ThresholdGains ==
  ASSUME ConfigInv, NEW t \in Int, process_set_threshold(t)
  PROVE  \/ Gained = {} /\ gov' = gov
         \/ Gained = {<<"lowerThreshold", t>>} /\ Spends(<<"lowerThreshold", t>>)
<1>1. /\ cfg \in Config /\ cfg.owned /\ cfg.threshold \in Int /\ 1 <= t
      /\ cfg' = [cfg EXCEPT !.threshold = t] /\ asset' = asset
  BY ConfigFields DEF ConfigInv, process_set_threshold, load_config, store, registry
<1>2. /\ cfg'.validators = cfg.validators /\ cfg'.threshold = t
      /\ cfg'.guardian = cfg.guardian
  BY <1>1 DEF Config
<1>3. CASE t < cfg.threshold
  <2>1. Spends(<<"lowerThreshold", t>>)
    BY <1>3 DEF process_set_threshold, consume_governance, Spends
  <2>2. /\ cfg'.validators \ cfg.validators = {}
        /\ {cfg'.threshold} \cap (1 .. cfg.threshold - 1) = {t}
        /\ {e \in DebridgeId : asset'[e] # asset[e] /\ ~asset[e].legacy} = {}
        /\ {cfg'.guardian} \ {cfg.guardian} = {}
    BY <1>1, <1>2, <1>3
  <2> QED BY <1>1, <2>1, <2>2 DEF Gained
<1>4. CASE ~(t < cfg.threshold)
  <2>1. gov' = gov
    BY <1>4 DEF process_set_threshold
  <2> QED BY <1>1, <1>2, <1>4, <2>1, NothingGained
<1> QED
  BY <1>3, <1>4

LEMMA RegistrationGains ==
  ASSUME ConfigInv, RegistryInv, NEW d \in DebridgeId, NEW v \in Vault, NEW s \in Scale,
         process_register_asset(d, v, s)
  PROVE  \/ Gained = {} /\ gov' = gov
         \/ /\ Gained \subseteq {<<"registerAsset", d, v, s>>}
            /\ Spends(<<"registerAsset", d, v, s>>)
<1> DEFINE new == AssetConfig(v, s)
           lifted == legacy_asset_upgrade_allowed(asset[d], new)
           changed == {e \in DebridgeId : asset'[e] # asset[e] /\ ~asset[e].legacy}
<1>1. /\ cfg' = cfg /\ asset' = [asset EXCEPT ![d] = new] /\ asset \in [DebridgeId -> AssetRecord]
      /\ cfg.owned /\ cfg.threshold \in Int
  BY ConfigFields DEF ConfigInv, RegistryInv, process_register_asset, load_config
<1>2. new.vault = v /\ new.bridge = s
  BY DEF AssetConfig
<1>3. lifted => asset[d].legacy
  BY DEF legacy_asset_upgrade_allowed
<1>4. IF ~lifted /\ asset[d] # new /\ ~in_setup_phase
        THEN Spends(<<"registerAsset", d, v, s>>) ELSE gov' = gov
  BY DEF process_register_asset, consume_governance, Spends
<1> HIDE DEF new, lifted
<1>5. \A e \in DebridgeId : asset'[e] = IF e = d THEN new ELSE asset[e]
  BY <1>1
<1>6. /\ cfg'.validators \ cfg.validators = {}
      /\ {cfg'.threshold} \cap (1 .. cfg.threshold - 1) = {}
      /\ {cfg'.guardian} \ {cfg.guardian} = {}
  BY <1>1
<1>7. Gained = IF in_setup_phase THEN {}
               ELSE {<<"registerAsset", e, asset'[e].vault, asset'[e].bridge>> : e \in changed}
  BY <1>1, <1>6 DEF Gained
<1>8. CASE ~lifted /\ asset[d] # new /\ ~in_setup_phase
  <2>1. changed \subseteq {d}
    BY <1>5
  <2>2. asset'[d].vault = v /\ asset'[d].bridge = s
    BY <1>2, <1>5
  <2>3. Gained \subseteq {<<"registerAsset", d, v, s>>}
    <3> HIDE DEF changed
    <3> QED BY <1>7, <1>8, <2>1, <2>2
  <2> QED BY <1>4, <1>8, <2>3
<1>9. CASE ~(~lifted /\ asset[d] # new /\ ~in_setup_phase)
  <2>1. in_setup_phase \/ changed = {}
    BY <1>3, <1>5, <1>9
  <2>2. Gained = {}
    <3> HIDE DEF changed
    <3> QED BY <1>7, <2>1
  <2> QED BY <1>4, <1>9, <2>2
<1> QED
  BY <1>8, <1>9

\* Every step gains at most one power and spends its schedule, or gains none and
\* spends none.
Pays ==
  \/ Gained = {} /\ gov' = gov
  \/ \E a \in ActionId : Gained \subseteq {a} /\ Spends(a)

LEMMA InitGains ==
  ASSUME ConfigInv, NEW g, NEW who, process_init(g, who)
  PROVE  Pays
<1>1. ~cfg.owned /\ gov' = gov
  BY DEF process_init, load_config
<1> QED
  BY <1>1 DEF Gained, Pays

\* The switches, the corridors and the nonces grant nothing.
LEMMA SettingGains ==
  ASSUME ConfigInv,
         \/ \E c \in Peer \cup {Self} : process_register_corridor(c)
         \/ \E o, p \in BOOLEAN : process_set_paused(o, p)
         \/ process_seal
         \/ \E d \in DebridgeId, a \in LocalAmount, c \in Peer, v \in Vault : process_send(d, a, c, v)
  PROVE  Pays
<1>1. cfg \in Config /\ cfg.threshold \in Int
  BY ConfigFields DEF ConfigInv
<1>2. /\ \/ \E n : cfg' = [cfg EXCEPT !.nonce_to = n]
         \/ \E p : cfg' = [cfg EXCEPT !.paused = p]
         \/ cfg' = [cfg EXCEPT !.sealed = TRUE]
      /\ asset' = asset /\ gov' = gov
  BY DEF process_register_corridor, process_set_paused, process_seal, process_send, store, registry
<1>3. /\ cfg'.validators = cfg.validators /\ cfg'.threshold = cfg.threshold
      /\ cfg'.guardian = cfg.guardian
  BY <1>1, <1>2 DEF Config
<1> QED
  BY <1>1, <1>2, <1>3, NothingGained DEF Pays

LEMMA CallPays ==
  ASSUME ConfigInv, RegistryInv, OwnerCall \/ UserCall \/ Tick
  PROVE  Pays
<1>1. ASSUME NEW g \in Account \cup {NoAccount}, process_set_guardian(g) PROVE Pays
  <2>1. <<"setGuardian", g>> \in ActionId
    BY DEF ActionId, GovernanceAction
  <2> QED BY <1>1, <2>1, GuardianGains DEF Pays
<1>2. ASSUME NEW k \in Key, process_set_validator(k) PROVE Pays
  <2>1. <<"addValidator", k>> \in ActionId
    BY DEF ActionId, GovernanceAction
  <2> QED BY <1>2, <2>1, ValidatorGains DEF Pays
<1>3. ASSUME NEW t \in 1 .. Cardinality(Key), process_set_threshold(t) PROVE Pays
  <2>1. <<"lowerThreshold", t>> \in ActionId
    BY DEF ActionId, GovernanceAction
  <2> QED BY <1>3, <2>1, ThresholdGains DEF Pays
<1>4. ASSUME NEW d \in DebridgeId, NEW v \in Vault, NEW s \in Scale, process_register_asset(d, v, s)
      PROVE  Pays
  <2>1. <<"registerAsset", d, v, s>> \in ActionId
    BY DEF ActionId, GovernanceAction
  <2>2. \/ Gained = {} /\ gov' = gov
        \/ Gained \subseteq {<<"registerAsset", d, v, s>>} /\ Spends(<<"registerAsset", d, v, s>>)
    BY <1>4, RegistrationGains
  <2> QED BY <2>1, <2>2 DEF Pays
<1>5. ASSUME cfg' = cfg, asset' = asset, gov' = gov PROVE Pays
  BY <1>5, NoChangeGainsNothing DEF Pays
<1>6. CASE OwnerCall
  BY <1>1, <1>2, <1>3, <1>4, <1>6, InitGains, SettingGains DEF OwnerCall
<1>7. CASE UserCall
  <2>1. ASSUME NEW id \in Inbound, NEW S \in SUBSET Key, NEW v \in Vault,
               process_cancel(id, S) \/ process_claim(id, S, v)
        PROVE  cfg' = cfg /\ asset' = asset /\ gov' = gov
    BY <2>1 DEF process_cancel, process_claim, registry
  <2>2. ASSUME NEW id \in Inbound, NEW S \in SUBSET Key, process_cancel(id, S)
        PROVE  cfg' = cfg /\ asset' = asset /\ gov' = gov
    BY <2>2 DEF process_cancel, registry
  <2>3. ASSUME NEW x \in sent, NEW S \in SUBSET Key, NEW v \in Vault, process_refund(x, S, v)
        PROVE  cfg' = cfg /\ asset' = asset /\ gov' = gov
    BY <2>3 DEF process_refund, registry
  <2> QED BY <1>5, <1>7, <2>1, <2>2, <2>3, SettingGains DEF UserCall
<1>8. CASE Tick
  BY <1>5, <1>8 DEF Tick, registry
<1> QED
  BY <1>6, <1>7, <1>8

\* What is spent is due, and what is due was announced in time.
LEMMA PaidWasAnnounced ==
  ASSUME TimelockInv, Pays, NEW a \in Gained
  PROVE  /\ a \in ActionId /\ gov'[a] = 0
         /\ notice[a] # 0 /\ notice[a] + Delay <= now /\ now <= notice[a] + Delay + Grace
<1>1. a \in ActionId /\ Spends(a)
  BY DEF Pays
<1>2. /\ gov[a] # 0 /\ now >= gov[a] /\ now <= gov[a] + Grace
      /\ gov' = [gov EXCEPT ![a] = 0]
  BY <1>1 DEF Spends, governance_consumable
<1>3. /\ notice[a] # 0 /\ gov[a] = notice[a] + Delay /\ notice[a] \in Nat /\ gov[a] \in Nat
      /\ gov \in [ActionId -> Nat]
  BY <1>1, <1>2 DEF TimelockInv
<1>4. notice[a] + Delay <= now /\ now <= notice[a] + Delay + Grace
  BY <1>2, <1>3
<1>5. gov'[a] = 0
  BY <1>1, <1>2, <1>3
<1> QED
  BY <1>1, <1>3, <1>4, <1>5

LEMMA TimelockStep ==
  ASSUME ConfigInv, RegistryInv, TimelockInv, Next \/ UNCHANGED vars
  PROVE  TimelockInv'
<1>1. /\ now \in Nat \ {0} /\ Delay \in Nat
      /\ gov \in [ActionId -> Nat] /\ notice \in [ActionId -> Nat]
      /\ \A a \in ActionId : gov[a] # 0 => notice[a] # 0 /\ gov[a] = notice[a] + Delay
  BY SolanaGateAssumption DEF TimelockInv
<1>2. ASSUME NEW a \in ActionId, process_schedule_action(a) PROVE TimelockInv'
  <2>1. /\ gov' = [gov EXCEPT ![a] = now + Delay] /\ notice' = [notice EXCEPT ![a] = now]
        /\ now' = now
    BY <1>2 DEF process_schedule_action, write_schedule
  <2>2. now + Delay \in Nat
    BY <1>1
  <2>3. gov' \in [ActionId -> Nat] /\ notice' \in [ActionId -> Nat]
    BY <1>1, <2>1, <2>2
  <2>4. \A b \in ActionId : gov'[b] # 0 => notice'[b] # 0 /\ gov'[b] = notice'[b] + Delay
    BY <1>1, <2>1
  <2> QED BY <1>1, <2>1, <2>3, <2>4 DEF TimelockInv
<1>3. ASSUME NEW a \in ActionId, process_cancel_scheduled_governance(a) PROVE TimelockInv'
  <2>1. gov' = [gov EXCEPT ![a] = 0] /\ notice' = [notice EXCEPT ![a] = 0] /\ now' = now
    BY <1>3 DEF process_cancel_scheduled_governance
  <2>2. gov' \in [ActionId -> Nat] /\ notice' \in [ActionId -> Nat]
    BY <1>1, <2>1
  <2>3. \A b \in ActionId : gov'[b] # 0 => notice'[b] # 0 /\ gov'[b] = notice'[b] + Delay
    BY <1>1, <2>1
  <2> QED BY <1>1, <2>1, <2>2, <2>3 DEF TimelockInv
<1>4. ASSUME OwnerCall \/ UserCall \/ Tick,
             notice' = [a \in ActionId |-> IF a \in Gained THEN 0 ELSE notice[a]]
      PROVE  TimelockInv'
  <2>1. Pays
    BY <1>4, CallPays
  <2>2. now' \in Nat \ {0}
    <3>1. now' = now \/ now' = now + 1
      BY <1>4 DEF OwnerCall, UserCall, Tick, process_init, process_register_corridor,
         process_set_paused, process_set_guardian, process_set_validator, AddValidator,
         RemoveValidator, process_set_threshold, process_register_asset, process_seal,
         process_send, process_claim, process_cancel, process_refund
    <3> QED BY <1>1, <3>1
  <2>3. gov' \in [ActionId -> Nat] /\ \A a \in ActionId : gov'[a] = gov[a] \/ gov'[a] = 0
    BY <1>1, <2>1 DEF Pays, Spends
  <2>4. notice' \in [ActionId -> Nat]
    BY <1>1, <1>4
  <2>5. ASSUME NEW a \in ActionId, gov'[a] # 0
        PROVE  notice'[a] # 0 /\ gov'[a] = notice'[a] + Delay
    <3>1. a \notin Gained
      BY <2>1, <2>5, PaidWasAnnounced
    <3>2. notice'[a] = notice[a] /\ gov'[a] = gov[a]
      BY <1>4, <2>3, <2>5, <3>1
    <3> QED BY <1>1, <2>5, <3>2
  <2> QED BY <2>2, <2>3, <2>4, <2>5 DEF TimelockInv
<1>5. CASE UNCHANGED vars
  BY <1>5 DEF TimelockInv, vars
<1> QED
  BY <1>2, <1>3, <1>4, <1>5 DEF Next

-----------------------------------------------------------------------------
(* The registry *)

\* A record registration writes over r for asset d: one that commits the vault to
\* the scale of every record already on it.
LEMMA RecordStep ==
  ASSUME RegistryInv, NEW d \in DebridgeId, NEW v \in Vault, NEW s \in Scale,
         process_register_asset(d, v, s)
  PROVE  /\ asset' = [asset EXCEPT ![d] = AssetConfig(v, s)]
         /\ binding' = [binding EXCEPT ![v] = s]
         /\ asset[d].vault # NoAccount => asset[d].vault = v
         /\ binding[v] \in {-1, s}
         /\ s \in Nat /\ s <= Decimals[v] /\ Decimals[v] \in Nat
         /\ d \in DOMAIN Legacy => s = Decimals[v]
<1> DEFINE new == AssetConfig(v, s)
<1>1. /\ new.vault = v /\ new.bridge = s /\ new.local = Decimals[v] /\ new.legacy = FALSE
  BY DEF AssetConfig
<1>2. s \in Nat /\ Decimals[v] \in Nat
  BY SolanaGateAssumption
<1> HIDE DEF new
<1>3. /\ asset' = [asset EXCEPT ![d] = new] /\ binding' = [binding EXCEPT ![v] = s]
      /\ binding[v] \in {-1, s} /\ s <= Decimals[v]
      /\ \/ asset[d].legacy /\ asset[d].vault = new.vault /\ new.bridge = new.local
         \/ asset[d].vault = NoAccount \/ asset[d] = new
  BY DEF process_register_asset, bind_vault, vault_binding_allowed, check_asset_accounts,
         legacy_asset_upgrade_allowed, asset_write_allowed, new
<1>4. GoodRecord(d, asset[d], binding)
  BY DEF RegistryInv
<1>5. asset[d].vault # NoAccount => asset[d].vault = v
  BY <1>1, <1>3
<1>6. d \in DOMAIN Legacy => s = Decimals[v]
  <2> SUFFICES ASSUME d \in DOMAIN Legacy PROVE s = Decimals[v]
    OBVIOUS
  <2>1. asset[d].vault # NoAccount /\ (asset[d].legacy \/ asset[d].bridge = asset[d].local)
    BY <1>4 DEF GoodRecord
  <2> QED BY <1>1, <1>3, <2>1
<1> QED
  BY <1>2, <1>3, <1>5, <1>6 DEF new

LEMMA RegistrationKeepsRegistry ==
  ASSUME RegistryInv, NEW d \in DebridgeId, NEW v \in Vault, NEW s \in Scale,
         process_register_asset(d, v, s)
  PROVE  RegistryInv'
<1> DEFINE new == AssetConfig(v, s)
<1>1. /\ new.vault = v /\ new.bridge = s /\ new.local = Decimals[v] /\ new.legacy = FALSE
      /\ new = [vault |-> v, bridge |-> s, local |-> Decimals[v], legacy |-> FALSE]
  BY DEF AssetConfig
<1>2. /\ asset' = [asset EXCEPT ![d] = new] /\ binding' = [binding EXCEPT ![v] = s]
      /\ binding[v] \in {-1, s} /\ s \in Nat /\ s <= Decimals[v] /\ Decimals[v] \in Nat
      /\ d \in DOMAIN Legacy => s = Decimals[v]
  BY RecordStep
<1>3. new \in AssetRecord
  BY <1>1, <1>2 DEF AssetRecord
<1> HIDE DEF new
<1>4. /\ binding \in [Vault -> Nat \cup {-1}] /\ asset \in [DebridgeId -> AssetRecord]
      /\ \A e \in DebridgeId : GoodRecord(e, asset[e], binding)
  BY DEF RegistryInv
<1>5. binding' \in [Vault -> Nat \cup {-1}] /\ asset' \in [DebridgeId -> AssetRecord]
  BY <1>2, <1>3, <1>4
<1>6. binding'[v] = s /\ \A w \in Vault : w # v => binding'[w] = binding[w]
  BY <1>2, <1>4
<1>7. NoAccount \notin Vault
  BY SolanaGateAssumption
<1>8. GoodRecord(d, new, binding')
  BY <1>1, <1>2, <1>3, <1>6, <1>7 DEF GoodRecord
<1>9. ASSUME NEW e \in DebridgeId, e # d PROVE GoodRecord(e, asset[e], binding')
  <2>1. GoodRecord(e, asset[e], binding) /\ asset[e] \in AssetRecord
    BY <1>4
  <2>2. asset[e].vault # NoAccount => asset[e].vault \in Vault
    BY <2>1 DEF AssetRecord
  <2>3. ASSUME asset[e].vault # NoAccount, ~asset[e].legacy
        PROVE  binding'[asset[e].vault] = asset[e].bridge
    <3>1. binding[asset[e].vault] = asset[e].bridge /\ asset[e].bridge \in Nat
      BY <2>1, <2>3 DEF GoodRecord, AssetRecord
    <3>2. CASE asset[e].vault = v
      BY <1>2, <1>6, <3>1, <3>2
    <3>3. CASE asset[e].vault # v
      BY <1>6, <2>2, <2>3, <3>1, <3>3
    <3> QED BY <3>2, <3>3
  <2> QED BY <2>1, <2>3 DEF GoodRecord
<1>10. \A e \in DebridgeId : GoodRecord(e, asset'[e], binding')
  <2>1. \A e \in DebridgeId : asset'[e] = IF e = d THEN new ELSE asset[e]
    BY <1>2, <1>4
  <2> QED BY <1>8, <1>9, <2>1
<1> QED
  BY <1>5, <1>10 DEF RegistryInv

\* Only registration writes the registry.
LEMMA RegistryIsWrittenBy ==
  ASSUME Next \/ UNCHANGED vars
  PROVE  \/ UNCHANGED registry
         \/ \E d \in DebridgeId, v \in Vault, s \in Scale : process_register_asset(d, v, s)
BY DEF Next, vars, OwnerCall, UserCall, Tick, process_schedule_action,
       process_cancel_scheduled_governance, process_init, process_register_corridor,
       process_set_paused, process_set_guardian, process_set_validator, AddValidator,
       RemoveValidator, process_set_threshold, process_seal, process_send, process_claim,
       process_cancel, process_refund, registry

LEMMA RegistryStep ==
  ASSUME RegistryInv, Next \/ UNCHANGED vars
  PROVE  RegistryInv'
<1>1. CASE UNCHANGED registry
  BY <1>1 DEF RegistryInv, registry
<1> QED
  BY <1>1, RegistryIsWrittenBy, RegistrationKeepsRegistry

\* A vault, once an asset has it, stays that asset's vault.
LEMMA VaultStays ==
  ASSUME RegistryInv, Next \/ UNCHANGED vars
  PROVE  \A d \in DebridgeId : asset[d].vault # NoAccount => asset'[d].vault = asset[d].vault
<1>1. CASE UNCHANGED registry
  BY <1>1 DEF registry
<1>2. ASSUME NEW d \in DebridgeId, NEW v \in Vault, NEW s \in Scale, process_register_asset(d, v, s)
      PROVE  \A e \in DebridgeId : asset[e].vault # NoAccount => asset'[e].vault = asset[e].vault
  <2>1. AssetConfig(v, s).vault = v
    BY DEF AssetConfig
  <2>2. \A e \in DebridgeId : asset'[e] = IF e = d THEN AssetConfig(v, s) ELSE asset[e]
    BY <1>2, RecordStep DEF RegistryInv
  <2>3. asset[d].vault # NoAccount => asset[d].vault = v
    BY <1>2, RecordStep
  <2> QED BY <2>1, <2>2, <2>3
<1> QED
  BY <1>1, <1>2, RegistryIsWrittenBy

-----------------------------------------------------------------------------
(* The books of the vaults *)

\* What vault v backs grows by a new lock on it and shrinks by a retired one.
LEMMA LockedType ==
  ASSUME NEW S, IsFiniteSet(S), \A y \in S : y.amount \in Nat, NEW v
  PROVE  LockedOn(S, v) \in Int
<1> DEFINE f == [y \in S |-> y.amount]
<1>1. IsFiniteSet(LocksOn(S, v)) /\ \A y \in LocksOn(S, v) : f[y] \in Int
  BY FS_Subset DEF LocksOn
<1> HIDE DEF f
<1>2. SumFunctionOnSet(f, LocksOn(S, v)) \in Int
  BY <1>1, SumType
<1> QED
  BY <1>2 DEF LockedOn, f

LEMMA LockedWithout ==
  ASSUME NEW S, IsFiniteSet(S), \A y \in S : y.amount \in Nat, NEW x \in S, NEW v
  PROVE  LockedOn(S \ {x}, v) = LockedOn(S, v) - (IF x.vault = v THEN x.amount ELSE 0)
<1> DEFINE f == [y \in S |-> y.amount]
           g == [y \in S \ {x} |-> y.amount]
           L == LocksOn(S, v)
           M == LocksOn(S \ {x}, v)
<1>1. IsFiniteSet(L) /\ IsFiniteSet(M)
  BY FS_Subset DEF LocksOn
<1>2. (\A y \in L : f[y] \in Int) /\ (\A y \in M : f[y] = g[y]) /\ f[x] = x.amount
  BY DEF LocksOn
<1>3. M = L \ {x} /\ (x \in L <=> x.vault = v)
  BY DEF LocksOn
<1> HIDE DEF f, g, L, M
<1>4. SumFunctionOnSet(f, M) = SumFunctionOnSet(g, M)
  BY <1>1, <1>2, SumOfEquals
<1>5. SumFunctionOnSet(f, L) \in Int
  BY <1>1, <1>2, SumType
<1>6. CASE x.vault = v
  <2>1. SumFunctionOnSet(f, L \ {x}) = SumFunctionOnSet(f, L) - f[x]
    BY <1>1, <1>2, <1>3, <1>6, SumWithout
  <2> QED BY <1>2, <1>3, <1>4, <1>6, <2>1 DEF LockedOn, f, g, L, M
<1>7. CASE x.vault # v
  <2>1. M = L
    BY <1>3, <1>7
  <2>2. SumFunctionOnSet(f, M) = SumFunctionOnSet(f, L) - 0
    BY <1>5, <2>1
  <2> QED BY <1>4, <1>7, <2>2 DEF LockedOn, f, g, L, M
<1> QED
  BY <1>6, <1>7

LEMMA LockedWith ==
  ASSUME NEW S, IsFiniteSet(S), NEW x, x \notin S, \A y \in S \cup {x} : y.amount \in Nat, NEW v
  PROVE  LockedOn(S \cup {x}, v) = LockedOn(S, v) + (IF x.vault = v THEN x.amount ELSE 0)
<1> DEFINE T == S \cup {x}
<1>1. IsFiniteSet(T) /\ x \in T /\ T \ {x} = S /\ \A y \in T : y.amount \in Nat
  BY FS_AddElement
<1> HIDE DEF T
<1>2. LockedOn(S, v) = LockedOn(T, v) - (IF x.vault = v THEN x.amount ELSE 0)
  BY <1>1, LockedWithout
<1>3. LockedOn(T, v) \in Int /\ x.amount \in Nat
  BY <1>1, LockedType
<1> QED
  BY <1>2, <1>3 DEF T

\* What the claims on v took, when a marker is written.
Marked(m, id, state) == [i \in DOMAIN m \cup {id} |-> IF i = id THEN state ELSE m[i]]

LEMMA PaidType ==
  ASSUME NEW m, NEW r, NEW v \in Vault, MarkersTrue(m, r)
  PROVE  /\ PaidFrom(m, r, v) \in Int
         /\ IsFiniteSet(ClaimsOn(m, r, v))
         /\ \A i \in ClaimsOn(m, r, v) : i \in DOMAIN m /\ Worth(i, v) \in Int
<1> DEFINE f == [i \in DOMAIN m |-> Worth(i, v)]
           K == ClaimsOn(m, r, v)
<1>1. IsFiniteSet(K) /\ \A i \in K : i \in DOMAIN m /\ Worth(i, v) \in Int
  <2>1. K \subseteq DOMAIN m /\ IsFiniteSet(DOMAIN m)
    BY DEF MarkersTrue, ClaimsOn
  <2>2. \A i \in K : Worth(i, v) \in Int
    BY DEF MarkersTrue, ClaimsOn
  <2> HIDE DEF K
  <2>3. IsFiniteSet(K)
    BY <2>1, FS_Subset
  <2> QED BY <2>1, <2>2, <2>3
<1>2. \A i \in K : f[i] \in Int
  BY <1>1
<1> HIDE DEF f, K
<1>3. SumFunctionOnSet(f, K) \in Int
  BY <1>1, <1>2, SumType
<1> QED
  BY <1>1, <1>3 DEF PaidFrom, f, K

LEMMA PaidWith ==
  ASSUME NEW m, NEW r, NEW v \in Vault, MarkersTrue(m, r), NEW id, id \notin DOMAIN m, NEW state,
         state = "claimed" /\ r[id.debridge_id].vault = v => Worth(id, v) \in Int
  PROVE  PaidFrom(Marked(m, id, state), r, v)
           = PaidFrom(m, r, v)
             + (IF state = "claimed" /\ r[id.debridge_id].vault = v THEN Worth(id, v) ELSE 0)
<1> DEFINE n == Marked(m, id, state)
           f == [i \in DOMAIN m |-> Worth(i, v)]
           g == [i \in DOMAIN n |-> Worth(i, v)]
           K == ClaimsOn(m, r, v)
           J == ClaimsOn(n, r, v)
<1>1. DOMAIN n = DOMAIN m \cup {id} /\ n[id] = state /\ \A i \in DOMAIN m : n[i] = m[i]
  BY DEF Marked
<1> HIDE DEF n
<1>2. /\ IsFiniteSet(K) /\ \A i \in K : i \in DOMAIN m /\ Worth(i, v) \in Int
      /\ PaidFrom(m, r, v) \in Int
  BY PaidType
<1>3. J = K \cup (IF state = "claimed" /\ r[id.debridge_id].vault = v THEN {id} ELSE {})
  BY <1>1 DEF ClaimsOn
<1>4. /\ \A i \in K : f[i] = g[i] /\ g[i] \in Int
      /\ g[id] = Worth(id, v) /\ id \notin K
  BY <1>1, <1>2
<1> HIDE DEF f, g, K, J
<1>5. SumFunctionOnSet(f, K) = SumFunctionOnSet(g, K)
  BY <1>2, <1>4, SumOfEquals
<1>6. PaidFrom(m, r, v) = SumFunctionOnSet(g, K) /\ PaidFrom(n, r, v) = SumFunctionOnSet(g, J)
  BY <1>5 DEF PaidFrom, f, g, K, J
<1>7. CASE state = "claimed" /\ r[id.debridge_id].vault = v
  <2>1. \A i \in K \cup {id} : g[i] \in Int
    BY <1>4, <1>7
  <2>2. SumFunctionOnSet(g, K \cup {id}) = SumFunctionOnSet(g, K) + g[id]
    BY <1>2, <1>4, <2>1, SumWith
  <2> QED BY <1>3, <1>4, <1>6, <1>7, <2>2 DEF n
<1>8. CASE ~(state = "claimed" /\ r[id.debridge_id].vault = v)
  <2>1. J = K
    BY <1>3, <1>8
  <2> QED BY <1>2, <1>6, <1>8, <2>1 DEF n
<1> QED
  BY <1>7, <1>8

\* A registration that leaves every claimed asset's vault where it is leaves the
\* claims where they are.
LEMMA PaidStays ==
  ASSUME NEW m, NEW r, NEW s, NEW v,
         \A i \in DOMAIN m : m[i] = "claimed" => s[i.debridge_id].vault = r[i.debridge_id].vault
  PROVE  PaidFrom(m, s, v) = PaidFrom(m, r, v)
<1>1. ClaimsOn(m, s, v) = ClaimsOn(m, r, v)
  BY DEF ClaimsOn
<1> QED
  BY <1>1 DEF PaidFrom

-----------------------------------------------------------------------------
(* The instructions that move money *)

\* An amount in a registered record's units is a number.
LEMMA LocalIsInt ==
  ASSUME RegistryInv, NEW d \in DebridgeId, asset[d].vault # NoAccount, NEW w \in Nat
  PROVE  to_local(asset[d], w) \in Int
<1> DEFINE r == asset[d]
<1>1. GoodRecord(d, r, binding) /\ r \in AssetRecord /\ r.vault # NoAccount
  BY DEF RegistryInv
<1> HIDE DEF r
<1>2. r.local \in Nat /\ r.bridge \in Nat /\ r.local - r.bridge \in Nat
  <2>1. r.local \in Nat /\ r.bridge \in Nat
    BY <1>1 DEF AssetRecord
  <2>2. r.bridge <= r.local
    BY <1>1, <2>1 DEF GoodRecord
  <2> QED BY <2>1, <2>2
<1>3. 10 ^ (r.local - r.bridge) \in Int
  BY <1>2
<1> QED
  BY <1>3 DEF to_local, bridge_unit, r

\* A claim pays exactly what its id is worth: the scale in the id is the registered
\* one, and a record without a scale, or lifted from one, converts one to one.
LEMMA ClaimPaysWorth ==
  ASSUME RegistryInv, NEW id \in Inbound, NEW v \in Vault,
         verify_asset_binding(id.debridge_id, v), SameScale(id)
  PROVE  /\ to_local(load_asset(id.debridge_id), id.amount) = Worth(id, v)
         /\ Worth(id, v) \in Int
<1> DEFINE d == id.debridge_id
           r == asset[d]
<1>1. d \in DebridgeId /\ id.amount \in Nat /\ id.bridge \in Nat /\ NoAccount \notin Vault
  BY SolanaGateAssumption
<1>2. r.vault = v /\ id.bridge = r.bridge
  BY DEF verify_asset_binding, SameScale
<1>3. GoodRecord(d, r, binding) /\ r \in AssetRecord
  BY <1>1 DEF RegistryInv
<1>4. to_local(r, id.amount) \in Int
  BY <1>1, <1>2, LocalIsInt
<1>5. to_local(r, id.amount) = id.amount * 10 ^ (r.local - r.bridge)
  BY DEF to_local, bridge_unit
<1> HIDE DEF r, d
<1>6. r.local \in Nat /\ r.bridge \in Nat
  BY <1>3 DEF AssetRecord
<1>7. CASE id.bridge = 0 /\ d \in DOMAIN Legacy
  <2>1. r.local = 0 /\ r.bridge = 0
    BY <1>2, <1>3, <1>6, <1>7 DEF GoodRecord
  <2>2. 10 ^ (r.local - r.bridge) = 1
    <3>1. r.local - r.bridge = 0
      BY <2>1
    <3>2. \A n \in Int : n = 0 => 10 ^ n = 1
      OBVIOUS
    <3> QED BY <3>1, <3>2
  <2>3. to_local(r, id.amount) = id.amount
    BY <1>1, <1>5, <2>2
  <2> QED BY <1>1, <1>7, <2>3 DEF Worth, load_asset, r, d
<1>8. CASE ~(id.bridge = 0 /\ d \in DOMAIN Legacy)
  <2>1. ~r.legacy
    BY <1>2, <1>3, <1>8 DEF GoodRecord
  <2>2. r.local = Decimals[v]
    BY <1>1, <1>2, <1>3, <2>1 DEF GoodRecord
  <2>3. Worth(id, v) = id.amount * 10 ^ (Decimals[v] - id.bridge)
    BY <1>8 DEF Worth, bridge_unit, d
  <2>4. to_local(r, id.amount) = Worth(id, v)
    BY <1>2, <1>5, <2>2, <2>3
  <2> QED BY <1>4, <2>4 DEF load_asset, r, d
<1> QED
  BY <1>7, <1>8

\* send locks under an id that no live or retired lock carries.
LEMMA SendKeepsMoney ==
  ASSUME RegistryInv, MoneyInv, NEW d \in DebridgeId, NEW a \in LocalAmount, NEW c \in Peer,
         NEW v \in Vault, process_send(d, a, c, v)
  PROVE  MoneyInv'
<1> DEFINE id == submission_id(d, load_asset(d).bridge, to_wire(load_asset(d), a), Self, c,
                               cfg.nonce_to[c])
           x == SentRecord(id, v, a)
<1>1. id.debridge_id = d /\ x.id = id /\ x.vault = v /\ x.amount = a
  BY DEF submission_id, SentRecord
<1>2. /\ asset[d].vault = v /\ id \notin {y.id : y \in sent} \cup refunded
      /\ sent' = sent \cup {x} /\ balance' = [balance EXCEPT ![v] = @ + a]
      /\ UNCHANGED <<asset, executed, refunded>>
  BY DEF process_send, verify_asset_binding, create_sent_record, registry
<1>3. a \in Nat
  BY SolanaGateAssumption
<1> HIDE DEF x, id
<1>4. /\ IsFiniteSet(sent) /\ \A y \in sent : y.amount \in Nat /\ y.id \notin refunded
      /\ balance \in [Vault -> Int] /\ Liquidity \in [Vault -> Nat]
  BY SolanaGateAssumption DEF MoneyInv, ProofsTrue
<1>5. ProofsTrue(sent', refunded', asset')
  <2>1. IsFiniteSet(sent')
    BY <1>2, <1>4, FS_AddElement
  <2>2. \A y \in sent' : /\ y.id.debridge_id \in DebridgeId /\ y.amount \in Nat
                         /\ y.vault \in Vault /\ asset'[y.id.debridge_id].vault = y.vault
                         /\ y.id \notin refunded'
    BY <1>1, <1>2, <1>3 DEF MoneyInv, ProofsTrue
  <2>3. \A y, z \in sent' : y.id = z.id => y = z
    BY <1>1, <1>2 DEF MoneyInv, ProofsTrue
  <2> QED BY <2>1, <2>2, <2>3 DEF ProofsTrue
<1>6. MarkersTrue(executed', asset')
  BY <1>2 DEF MoneyInv
<1>7. balance' \in [Vault -> Int]
  BY <1>2, <1>3, <1>4
<1>8. ASSUME NEW u \in Vault
      PROVE  balance'[u] = Liquidity[u] + LockedOn(sent', u) - PaidFrom(executed', asset', u)
  <2>1. balance[u] = Liquidity[u] + LockedOn(sent, u) - PaidFrom(executed, asset, u)
    BY DEF MoneyInv, VaultBooks
  <2>2. x \notin sent /\ \A y \in sent \cup {x} : y.amount \in Nat
    BY <1>1, <1>2, <1>3, <1>4
  <2>3. LockedOn(sent', u) = LockedOn(sent, u) + (IF x.vault = u THEN x.amount ELSE 0)
    <3>1. LockedOn(sent \cup {x}, u) = LockedOn(sent, u) + (IF x.vault = u THEN x.amount ELSE 0)
      BY <1>4, <2>2, LockedWith
    <3> QED BY <1>2, <3>1
  <2>4. LockedOn(sent, u) \in Int /\ PaidFrom(executed, asset, u) \in Int
    BY <1>4, LockedType, PaidType DEF MoneyInv
  <2>5. balance'[u] = balance[u] + (IF v = u THEN a ELSE 0) /\ balance[u] \in Int
    BY <1>2, <1>3, <1>4
  <2>6. PaidFrom(executed', asset', u) = PaidFrom(executed, asset, u)
    BY <1>2
  <2>7. Liquidity[u] \in Int
    BY <1>4
  <2>8. LockedOn(sent', u) = LockedOn(sent, u) + (IF v = u THEN a ELSE 0)
    BY <1>1, <2>3
  <2> QED BY <1>3, <2>1, <2>4, <2>5, <2>6, <2>7, <2>8
<1> QED
  BY <1>5, <1>6, <1>7, <1>8 DEF MoneyInv, VaultBooks

\* A marker keeps the markers true when what it claims has a vault and a worth.
LEMMA MarkerStep ==
  ASSUME NEW m, NEW r, MarkersTrue(m, r), NEW id \in Inbound, NEW state,
         state = "claimed" =>
           r[id.debridge_id].vault \in Vault /\ Worth(id, r[id.debridge_id].vault) \in Int
  PROVE  MarkersTrue(Marked(m, id, state), r)
<1>1. DOMAIN Marked(m, id, state) = DOMAIN m \cup {id}
  BY DEF Marked
<1>2. IsFiniteSet(DOMAIN m \cup {id})
  BY FS_AddElement DEF MarkersTrue
<1>3. /\ \A i \in DOMAIN m : i # id => Marked(m, id, state)[i] = m[i]
      /\ Marked(m, id, state)[id] = state
  BY DEF Marked
<1> QED
  BY <1>1, <1>2, <1>3 DEF MarkersTrue

LEMMA ClaimKeepsMoney ==
  ASSUME RegistryInv, MoneyInv, NEW id \in Inbound, NEW S, NEW v \in Vault, process_claim(id, S, v)
  PROVE  MoneyInv'
<1> DEFINE w == Worth(id, v)
<1>1. /\ asset[id.debridge_id].vault = v /\ id \notin DOMAIN executed
      /\ executed' = Marked(executed, id, "claimed")
      /\ verify_asset_binding(id.debridge_id, v) /\ SameScale(id)
      /\ balance' = [balance EXCEPT ![v] = @ - to_local(load_asset(id.debridge_id), id.amount)]
      /\ UNCHANGED <<asset, sent, refunded>>
  BY DEF process_claim, verify_asset_binding, is_already_executed, create_marker, Marked, registry
<1>2. w \in Int /\ to_local(load_asset(id.debridge_id), id.amount) = w
  BY <1>1, ClaimPaysWorth
<1>3. balance' = [balance EXCEPT ![v] = @ - w]
  BY <1>1, <1>2
<1>4. /\ balance \in [Vault -> Int] /\ Liquidity \in [Vault -> Nat] /\ MarkersTrue(executed, asset)
      /\ IsFiniteSet(sent) /\ \A y \in sent : y.amount \in Nat
  BY SolanaGateAssumption DEF MoneyInv, ProofsTrue
<1>5. ProofsTrue(sent', refunded', asset')
  BY <1>1 DEF MoneyInv
<1>6. MarkersTrue(executed', asset')
  BY <1>1, <1>2, <1>4, MarkerStep
<1> HIDE DEF w
<1>7. balance' \in [Vault -> Int]
  BY <1>2, <1>3, <1>4
<1>8. ASSUME NEW u \in Vault
      PROVE  balance'[u] = Liquidity[u] + LockedOn(sent', u) - PaidFrom(executed', asset', u)
  <2>1. balance[u] = Liquidity[u] + LockedOn(sent, u) - PaidFrom(executed, asset, u)
    BY DEF MoneyInv, VaultBooks
  <2>2. PaidFrom(executed', asset', u) = PaidFrom(executed, asset, u) + (IF v = u THEN w ELSE 0)
    <3>1. v = u => Worth(id, u) = w
      BY DEF w
    <3>2. PaidFrom(Marked(executed, id, "claimed"), asset, u)
            = PaidFrom(executed, asset, u)
              + (IF "claimed" = "claimed" /\ asset[id.debridge_id].vault = u THEN Worth(id, u) ELSE 0)
      BY <1>1, <1>2, <1>4, <3>1, PaidWith
    <3> QED BY <1>1, <3>1, <3>2
  <2>3. LockedOn(sent, u) \in Int /\ PaidFrom(executed, asset, u) \in Int
    BY <1>4, LockedType, PaidType
  <2>4. balance'[u] = balance[u] - (IF v = u THEN w ELSE 0) /\ balance[u] \in Int
    BY <1>2, <1>3, <1>4
  <2>5. LockedOn(sent', u) = LockedOn(sent, u) /\ Liquidity[u] \in Int
    BY <1>1, <1>4
  <2> QED BY <1>2, <2>1, <2>2, <2>3, <2>4, <2>5
<1> QED
  BY <1>5, <1>6, <1>7, <1>8 DEF MoneyInv, VaultBooks

\* A cancel takes a slot and no money.
LEMMA CancelKeepsMoney ==
  ASSUME RegistryInv, MoneyInv, NEW id \in Inbound, NEW S, process_cancel(id, S)
  PROVE  MoneyInv'
<1>1. /\ id \notin DOMAIN executed /\ executed' = Marked(executed, id, "cancelled")
      /\ UNCHANGED <<asset, sent, refunded, balance>>
  BY DEF process_cancel, is_already_executed, create_marker, Marked, registry
<1>2. MarkersTrue(executed, asset)
  BY DEF MoneyInv
<1>3. MarkersTrue(executed', asset')
  BY <1>1, <1>2, MarkerStep
<1>4. ASSUME NEW u \in Vault PROVE PaidFrom(executed', asset', u) = PaidFrom(executed, asset, u)
  <2>1. PaidFrom(Marked(executed, id, "cancelled"), asset, u)
          = PaidFrom(executed, asset, u)
            + (IF "cancelled" = "claimed" /\ asset[id.debridge_id].vault = u THEN Worth(id, u) ELSE 0)
    BY <1>1, <1>2, PaidWith
  <2>2. PaidFrom(executed, asset, u) \in Int
    BY <1>2, PaidType
  <2> QED BY <1>1, <2>1, <2>2
<1> QED
  BY <1>1, <1>3, <1>4 DEF MoneyInv, ProofsTrue, VaultBooks

\* A refund retires one lock and pays its own vault's money.
LEMMA RefundKeepsMoney ==
  ASSUME RegistryInv, MoneyInv, NEW x \in sent, NEW S, NEW v \in Vault, process_refund(x, S, v)
  PROVE  MoneyInv'
<1>1. /\ asset[x.id.debridge_id].vault = v
      /\ sent' = sent \ {x} /\ refunded' = refunded \cup {x.id}
      /\ balance' = [balance EXCEPT ![v] = @ - x.amount]
      /\ UNCHANGED <<asset, executed>>
  BY DEF process_refund, verify_asset_binding, Retire, registry
<1>2. /\ balance \in [Vault -> Int] /\ Liquidity \in [Vault -> Nat]
      /\ IsFiniteSet(sent) /\ \A y \in sent : y.amount \in Nat
      /\ x.vault = v /\ MarkersTrue(executed, asset)
  BY <1>1, SolanaGateAssumption DEF MoneyInv, ProofsTrue
<1>3. ProofsTrue(sent', refunded', asset')
  <2>1. IsFiniteSet(sent')
    BY <1>1, <1>2, FS_RemoveElement
  <2>2. \A y \in sent' : y.id # x.id
    BY <1>1 DEF MoneyInv, ProofsTrue
  <2> QED BY <1>1, <2>1, <2>2 DEF MoneyInv, ProofsTrue
<1>4. balance' \in [Vault -> Int]
  BY <1>1, <1>2
<1>5. ASSUME NEW u \in Vault
      PROVE  balance'[u] = Liquidity[u] + LockedOn(sent', u) - PaidFrom(executed', asset', u)
  <2>1. balance[u] = Liquidity[u] + LockedOn(sent, u) - PaidFrom(executed, asset, u)
    BY DEF MoneyInv, VaultBooks
  <2>2. LockedOn(sent', u) = LockedOn(sent, u) - (IF v = u THEN x.amount ELSE 0)
    <3>1. LockedOn(sent \ {x}, u) = LockedOn(sent, u) - (IF x.vault = u THEN x.amount ELSE 0)
      BY <1>2, LockedWithout
    <3> QED BY <1>1, <1>2, <3>1
  <2>3. LockedOn(sent, u) \in Int /\ PaidFrom(executed, asset, u) \in Int
    BY <1>2, LockedType, PaidType
  <2>4. balance'[u] = balance[u] - (IF v = u THEN x.amount ELSE 0) /\ balance[u] \in Int
    BY <1>1, <1>2
  <2>5. PaidFrom(executed', asset', u) = PaidFrom(executed, asset, u)
        /\ Liquidity[u] \in Int /\ x.amount \in Int
    BY <1>1, <1>2
  <2> QED BY <2>1, <2>2, <2>3, <2>4, <2>5
<1> QED
  BY <1>1, <1>2, <1>3, <1>4, <1>5 DEF MoneyInv, VaultBooks

\* Registration moves no money, and no asset that has a vault to another one.
LEMMA RegistrationKeepsMoney ==
  ASSUME RegistryInv, MoneyInv, NEW d \in DebridgeId, NEW v \in Vault, NEW s \in Scale,
         process_register_asset(d, v, s)
  PROVE  MoneyInv'
<1>1. UNCHANGED <<sent, executed, refunded, balance>>
  BY DEF process_register_asset, money
<1>2. \A e \in DebridgeId : asset[e].vault # NoAccount => asset'[e].vault = asset[e].vault
  <2>1. AssetConfig(v, s).vault = v
    BY DEF AssetConfig
  <2>2. \A e \in DebridgeId : asset'[e] = IF e = d THEN AssetConfig(v, s) ELSE asset[e]
    BY RecordStep DEF RegistryInv
  <2>3. asset[d].vault # NoAccount => asset[d].vault = v
    BY RecordStep
  <2> QED BY <2>1, <2>2, <2>3
<1>3. NoAccount \notin Vault /\ \A id \in Inbound : id.debridge_id \in DebridgeId
  BY SolanaGateAssumption
<1>4. \A x \in sent : asset'[x.id.debridge_id].vault = asset[x.id.debridge_id].vault
  BY <1>2, <1>3 DEF MoneyInv, ProofsTrue
<1>5. \A i \in DOMAIN executed : executed[i] = "claimed" =>
        asset'[i.debridge_id].vault = asset[i.debridge_id].vault
  BY <1>2, <1>3 DEF MoneyInv, MarkersTrue
<1>6. ProofsTrue(sent', refunded', asset')
  BY <1>1, <1>4 DEF MoneyInv, ProofsTrue
<1>7. MarkersTrue(executed', asset')
  BY <1>1, <1>5 DEF MoneyInv, MarkersTrue
<1>8. \A u \in Vault : PaidFrom(executed', asset', u) = PaidFrom(executed, asset, u)
  BY <1>1, <1>5, PaidStays
<1> QED
  BY <1>1, <1>6, <1>7, <1>8 DEF MoneyInv, VaultBooks

LEMMA MoneyIsMovedBy ==
  ASSUME Next \/ UNCHANGED vars
  PROVE  \/ UNCHANGED <<asset, sent, executed, refunded, balance>>
         \/ \E d \in DebridgeId, v \in Vault, s \in Scale : process_register_asset(d, v, s)
         \/ UserCall
BY DEF Next, vars, OwnerCall, Tick, process_schedule_action,
       process_cancel_scheduled_governance, process_init, process_register_corridor,
       process_set_paused, process_set_guardian, process_set_validator, AddValidator,
       RemoveValidator, process_set_threshold, process_seal, registry, money

LEMMA MoneyStep ==
  ASSUME RegistryInv, MoneyInv, Next \/ UNCHANGED vars
  PROVE  MoneyInv'
<1>1. CASE UNCHANGED <<asset, sent, executed, refunded, balance>>
  BY <1>1 DEF MoneyInv, VaultBooks
<1>2. CASE UserCall
  BY <1>2, SendKeepsMoney, ClaimKeepsMoney, CancelKeepsMoney, RefundKeepsMoney DEF UserCall
<1> QED
  BY <1>1, <1>2, MoneyIsMovedBy, RegistrationKeepsMoney

-----------------------------------------------------------------------------
(* The invariant and what follows from it *)

\* What the program finds when it is deployed, also over an older version's records.
LEMMA InitialInv == Init => GateInv
<1> SUFFICES ASSUME Init PROVE GateInv
  OBVIOUS
<1>1. ConfigInv
  BY NoConfigIsConfig DEF Init, ConfigInv, NoConfig
<1>2. TimelockInv
  BY DEF Init, TimelockInv
<1>3. RegistryInv
  <2>1. ASSUME NEW d \in DebridgeId PROVE GoodRecord(d, asset[d], binding)
    <3>1. NoAccount \notin Vault /\ (d \in DOMAIN Legacy => Legacy[d] \in Vault)
      BY SolanaGateAssumption
    <3>2. CASE d \in DOMAIN Legacy
      <4>1. asset[d] = [vault |-> Legacy[d], bridge |-> 0, local |-> 0, legacy |-> TRUE]
        BY <3>2 DEF Init, decode_asset_config
      <4> QED BY <3>1, <3>2, <4>1 DEF GoodRecord, AssetRecord
    <3>3. CASE d \notin DOMAIN Legacy
      <4>1. asset[d] = [vault |-> NoAccount, bridge |-> 0, local |-> 0, legacy |-> FALSE]
        BY <3>3 DEF Init, NoAsset
      <4> QED BY <3>1, <3>3, <4>1 DEF GoodRecord, AssetRecord
    <3> QED BY <3>2, <3>3
  <2>2. DOMAIN asset = DebridgeId /\ asset = [d \in DebridgeId |-> asset[d]]
    BY DEF Init
  <2>3. asset \in [DebridgeId -> AssetRecord]
    BY <2>1, <2>2 DEF GoodRecord
  <2>4. binding \in [Vault -> Nat \cup {-1}]
    BY DEF Init
  <2> QED BY <2>1, <2>3, <2>4 DEF RegistryInv
<1>4. MoneyInv
  <2>1. sent = {} /\ executed = <<>> /\ refunded = {} /\ balance = Liquidity
    BY DEF Init
  <2>2. DOMAIN executed = {}
    BY <2>1
  <2>3. ProofsTrue(sent, refunded, asset)
    BY <2>1, FS_EmptySet DEF ProofsTrue
  <2>4. MarkersTrue(executed, asset)
    BY <2>2, FS_EmptySet DEF MarkersTrue
  <2>5. balance \in [Vault -> Int] /\ \A v \in Vault : balance[v] = Liquidity[v] /\ Liquidity[v] \in Int
    BY <2>1, SolanaGateAssumption
  <2>6. ASSUME NEW v \in Vault PROVE LockedOn(sent, v) = 0 /\ PaidFrom(executed, asset, v) = 0
    <3>1. LocksOn(sent, v) = {} /\ ClaimsOn(executed, asset, v) = {}
      BY <2>1, <2>2 DEF LocksOn, ClaimsOn
    <3> QED BY <3>1, SumOfNothing DEF LockedOn, PaidFrom
  <2> QED BY <2>3, <2>4, <2>5, <2>6 DEF MoneyInv, VaultBooks
<1> QED
  BY <1>1, <1>2, <1>3, <1>4 DEF GateInv

THEOREM GateInvariant == Spec => []GateInv
<1>1. GateInv /\ [Next]_vars => GateInv'
  <2> SUFFICES ASSUME GateInv, Next \/ UNCHANGED vars PROVE GateInv'
    OBVIOUS
  <2>1. ConfigInv /\ TimelockInv /\ RegistryInv /\ MoneyInv /\ now \in Nat
    BY DEF GateInv, TimelockInv
  <2> QED BY <2>1, ConfigStep, TimelockStep, RegistryStep, MoneyStep DEF GateInv
<1> QED
  BY <1>1, InitialInv, PTL DEF Spec

\* Whatever the owner adds, removes, raises, lowers or registers, and in whatever
\* order: the validators can reach the threshold, and neither they nor the corridors
\* outnumber the room the config's account was given.
THEOREM UsableTheorem == Spec => []ConfigStaysUsable
<1>1. GateInv => ConfigStaysUsable
  BY DEF GateInv, ConfigInv, Usable, ConfigStaysUsable
<1> QED
  BY <1>1, GateInvariant, PTL

\* MAX_THRESHOLD: the signatures a quorum needs fit one transaction, whichever of
\* init and process_set_threshold set the threshold.
THEOREM QuorumFitsTheorem == Spec => [](cfg.owned => cfg.threshold <= MAX_THRESHOLD)
<1>1. GateInv => (cfg.owned => cfg.threshold <= MAX_THRESHOLD)
  BY DEF GateInv, ConfigInv, Usable
<1> QED
  BY <1>1, GateInvariant, PTL

\* Every vault holds its liquidity and the locks that were not refunded, less the
\* claims at the value their ids state, and the ids on one vault share one scale.
THEOREM VaultsTheorem == Spec => []VaultsAreSound
<1>1. RegistryInv => VaultsAgree
  <2> SUFFICES ASSUME RegistryInv, NEW d \in DebridgeId, NEW e \in DebridgeId,
                      asset[d].vault = asset[e].vault, asset[d].vault # NoAccount,
                      ~asset[d].legacy, ~asset[e].legacy
               PROVE  asset[d].bridge = asset[e].bridge /\ asset[d].local = asset[e].local
    BY DEF VaultsAgree
  <2>1. GoodRecord(d, asset[d], binding) /\ GoodRecord(e, asset[e], binding)
    BY DEF RegistryInv
  <2> QED BY <2>1 DEF GoodRecord
<1>2. GateInv => VaultsAreSound
  BY <1>1 DEF GateInv, MoneyInv, VaultsAreSound
<1> QED
  BY <1>2, GateInvariant, PTL

\* No validator is added, threshold lowered, or asset bound and guardian replaced
\* after the setup phase, without an announcement that is a full delay old, not yet
\* stale, and neither vetoed nor used before.
THEOREM AnnouncedTheorem == Spec => EveryPowerWasAnnounced
<1> DEFINE Announced == \A a \in Gained :
             notice[a] # 0 /\ notice[a] + Delay <= now /\ now <= notice[a] + Delay + Grace
<1>1. GateInv /\ Next => Announced
  <2> SUFFICES ASSUME GateInv, Next PROVE Announced
    OBVIOUS
  <2>1. ConfigInv /\ RegistryInv /\ TimelockInv
    BY DEF GateInv
  <2>2. CASE cfg' = cfg /\ asset' = asset
    BY <2>1, <2>2, NoChangeGainsNothing
  <2>3. CASE OwnerCall \/ UserCall \/ Tick
    BY <2>1, <2>3, CallPays, PaidWasAnnounced
  <2> QED BY <2>2, <2>3 DEF Next, process_schedule_action, process_cancel_scheduled_governance,
             registry
<1>2. GateInv /\ [Next]_vars => [Announced]_vars
  BY <1>1
<1> QED
  BY <1>2, GateInvariant, PTL DEF Spec, EveryPowerWasAnnounced

\* A lock's nonce is below the counter of the corridor it left through.
NonceInv ==
  \A id \in LockIds :
    id.to \in DOMAIN cfg.nonce_to /\ id.nonce \in Nat /\ id.nonce < cfg.nonce_to[id.to]

\* The nonces of the locks a step makes are new to their corridors.
NewNonces ==
  \A x \in sent' \ sent : \A id \in LockIds : id.to = x.id.to => id.nonce < x.id.nonce

\* What is not a send makes no lock, and a refund moves its lock's id to refunded.
LEMMA LocksAreMadeBySend ==
  ASSUME Next \/ UNCHANGED vars
  PROVE  \/ LockIds' = LockIds /\ sent' \subseteq sent
         \/ \E d \in DebridgeId, a \in LocalAmount, c \in Peer, v \in Vault : process_send(d, a, c, v)
<1>1. CASE UNCHANGED <<sent, refunded>>
  BY <1>1 DEF LockIds
<1>2. ASSUME NEW x \in sent, NEW S \in SUBSET Key, NEW v \in Vault, process_refund(x, S, v)
      PROVE  LockIds' = LockIds /\ sent' \subseteq sent
  BY <1>2 DEF process_refund, Retire, LockIds
<1>3. CASE UserCall
  BY <1>1, <1>2, <1>3 DEF UserCall, process_cancel, process_claim
<1>4. UserCall \/ UNCHANGED <<sent, refunded>>
  <2>1. ASSUME NEW d \in DebridgeId, NEW v \in Vault, NEW s \in Scale, process_register_asset(d, v, s)
        PROVE  UNCHANGED <<sent, refunded>>
    BY <2>1 DEF process_register_asset, money
  <2> QED BY <2>1, MoneyIsMovedBy
<1> QED
  BY <1>1, <1>3, <1>4

\* A corridor's counter is never taken back, and no corridor is closed.
LEMMA CountersStay ==
  ASSUME ConfigInv, Next \/ UNCHANGED vars
  PROVE  \/ ~cfg.owned
         \/ /\ DOMAIN cfg.nonce_to \subseteq DOMAIN cfg'.nonce_to
            /\ \A c \in DOMAIN cfg.nonce_to : cfg'.nonce_to[c] = cfg.nonce_to[c]
         \/ \E d \in DebridgeId, a \in LocalAmount, c \in Peer, v \in Vault : process_send(d, a, c, v)
<1>1. cfg \in Config
  BY DEF ConfigInv
<1>2. CASE cfg'.nonce_to = cfg.nonce_to
  BY <1>2
<1>3. ASSUME NEW c \in Peer \cup {Self}, process_register_corridor(c)
      PROVE  /\ DOMAIN cfg.nonce_to \subseteq DOMAIN cfg'.nonce_to
             /\ \A e \in DOMAIN cfg.nonce_to : cfg'.nonce_to[e] = cfg.nonce_to[e]
  <2> DEFINE n == [e \in DOMAIN cfg.nonce_to \cup {c} |-> IF e = c THEN 0 ELSE cfg.nonce_to[e]]
  <2>1. cfg' = [cfg EXCEPT !.nonce_to = n] /\ c \notin DOMAIN cfg.nonce_to
    BY <1>3 DEF process_register_corridor, corridor_registered, store
  <2>2. cfg'.nonce_to = n
    BY <1>1, <2>1 DEF Config
  <2> QED BY <2>1, <2>2
<1>4. \/ cfg' = cfg
      \/ ~cfg.owned
      \/ \E c \in Peer \cup {Self} : process_register_corridor(c)
      \/ \E d \in DebridgeId, a \in LocalAmount, c \in Peer, v \in Vault : process_send(d, a, c, v)
      \/ \E p : cfg' = [cfg EXCEPT !.paused = p]
      \/ \E g : cfg' = [cfg EXCEPT !.guardian = g]
      \/ \E V : cfg' = [cfg EXCEPT !.validators = V]
      \/ \E t : cfg' = [cfg EXCEPT !.threshold = t]
      \/ cfg' = [cfg EXCEPT !.sealed = TRUE]
  <2>1. CASE OwnerCall
    BY <2>1 DEF OwnerCall, process_init, process_set_paused, process_set_guardian,
       process_set_validator, AddValidator, RemoveValidator, process_set_threshold,
       process_register_asset, process_seal, store, load_config
  <2>2. CASE UserCall
    BY <2>2 DEF UserCall, process_claim, process_cancel, process_refund
  <2> QED BY <2>1, <2>2 DEF Next, Tick, process_schedule_action,
             process_cancel_scheduled_governance, vars
<1> QED
  BY <1>1, <1>2, <1>3, <1>4 DEF Config

\* A send takes the nonce its corridor's counter shows, and moves the counter on.
LEMMA SendTakesANonce ==
  ASSUME ConfigInv, NonceInv, NEW d \in DebridgeId, NEW a \in LocalAmount, NEW c \in Peer,
         NEW v \in Vault, process_send(d, a, c, v)
  PROVE  NonceInv' /\ NewNonces
<1> DEFINE id == submission_id(d, load_asset(d).bridge, to_wire(load_asset(d), a), Self, c,
                               cfg.nonce_to[c])
<1>1. id.to = c /\ id.nonce = cfg.nonce_to[c] /\ SentRecord(id, v, a).id = id
  BY DEF submission_id, SentRecord
<1>2. /\ sent' = sent \cup {SentRecord(id, v, a)} /\ UNCHANGED refunded
      /\ c \in DOMAIN cfg.nonce_to
      /\ cfg' = [cfg EXCEPT !.nonce_to[c] = @ + 1]
  BY DEF process_send, create_sent_record, corridor_registered, store
<1>3. cfg \in Config /\ cfg.nonce_to[c] \in Nat
  BY <1>2, CorridorFields DEF ConfigInv, Config, Corridors
<1>4. /\ DOMAIN cfg'.nonce_to = DOMAIN cfg.nonce_to
      /\ \A e \in DOMAIN cfg.nonce_to :
           cfg'.nonce_to[e] = IF e = c THEN cfg.nonce_to[c] + 1 ELSE cfg.nonce_to[e]
  BY <1>2, <1>3 DEF Config
<1> HIDE DEF id
<1>5. LockIds' = LockIds \cup {id}
  BY <1>1, <1>2 DEF LockIds
<1>6. \A i \in LockIds :
        i.to \in DOMAIN cfg.nonce_to /\ i.nonce \in Nat /\ i.nonce < cfg.nonce_to[i.to]
  BY DEF NonceInv
<1>7. NewNonces
  BY <1>1, <1>2, <1>6 DEF NewNonces
<1>8. \A i \in LockIds' :
        i.to \in DOMAIN cfg'.nonce_to /\ i.nonce \in Nat /\ i.nonce < cfg'.nonce_to[i.to]
  BY <1>1, <1>2, <1>3, <1>4, <1>5, <1>6
<1> QED
  BY <1>7, <1>8 DEF NonceInv

LEMMA NonceStep ==
  ASSUME ConfigInv, NonceInv, Next \/ UNCHANGED vars
  PROVE  NonceInv' /\ NewNonces
<1>1. ASSUME NEW d \in DebridgeId, NEW a \in LocalAmount, NEW c \in Peer, NEW v \in Vault,
             process_send(d, a, c, v)
      PROVE  NonceInv' /\ NewNonces
  BY <1>1, SendTakesANonce
<1>2. ASSUME LockIds' = LockIds, sent' \subseteq sent,
             ~ \E d \in DebridgeId, a \in LocalAmount, c \in Peer, v \in Vault : process_send(d, a, c, v)
      PROVE  NonceInv' /\ NewNonces
  <2>1. CASE ~cfg.owned
    <3>1. DOMAIN cfg.nonce_to = {}
      BY <2>1 DEF ConfigInv, NoConfig
    <3>2. LockIds = {}
      BY <3>1 DEF NonceInv
    <3> QED BY <3>2, <1>2 DEF NonceInv, NewNonces
  <2>2. CASE /\ DOMAIN cfg.nonce_to \subseteq DOMAIN cfg'.nonce_to
             /\ \A c \in DOMAIN cfg.nonce_to : cfg'.nonce_to[c] = cfg.nonce_to[c]
    BY <2>2, <1>2 DEF NonceInv, NewNonces
  <2> QED BY <1>2, <2>1, <2>2, CountersStay
<1> QED
  BY <1>1, <1>2, LocksAreMadeBySend

\* No instruction reopens a consumed slot or a retired lock, moves an asset to another
\* vault, unseals the gate, or gives two locks of a corridor one nonce.
THEOREM FinalTheorem == Spec => SlotsAreFinal
<1> DEFINE Slots == \A id \in DOMAIN executed : id \in DOMAIN executed' /\ executed'[id] = executed[id]
           Locks == /\ refunded \subseteq refunded'
                    /\ \A x \in sent : x \in sent' \/ x.id \in refunded'
           Apart == {x.id : x \in sent'} \cap refunded' = {}
           Homes == \A d \in DebridgeId : asset[d].vault # NoAccount => asset'[d].vault = asset[d].vault
           Sealed == cfg.sealed => cfg'.sealed
<1>1. GateInv /\ GateInv' /\ Next => Slots /\ Locks /\ Apart /\ Homes /\ Sealed
  <2> SUFFICES ASSUME GateInv, GateInv', Next PROVE Slots /\ Locks /\ Apart /\ Homes /\ Sealed
    OBVIOUS
  <2>1. Slots /\ Locks
    <3>1. CASE UNCHANGED <<sent, executed, refunded>>
      BY <3>1
    <3>2. ASSUME NEW d \in DebridgeId, NEW a \in LocalAmount, NEW c \in Peer, NEW v \in Vault,
                 process_send(d, a, c, v)
          PROVE  Slots /\ Locks
      BY <3>2 DEF process_send, create_sent_record
    <3>3. ASSUME NEW id \in Inbound, NEW S \in SUBSET Key, process_cancel(id, S)
          PROVE  Slots /\ Locks
      BY <3>3 DEF process_cancel, is_already_executed, create_marker
    <3>4. ASSUME NEW id \in Inbound, NEW S \in SUBSET Key, NEW v \in Vault, process_claim(id, S, v)
          PROVE  Slots /\ Locks
      BY <3>4 DEF process_claim, is_already_executed, create_marker
    <3>5. ASSUME NEW x \in sent, NEW S \in SUBSET Key, NEW v \in Vault, process_refund(x, S, v)
          PROVE  Slots /\ Locks
      BY <3>5 DEF process_refund, Retire
    <3>6. CASE UserCall
      <4> HIDE DEF Slots, Locks
      <4> QED BY <3>2, <3>3, <3>4, <3>5, <3>6 DEF UserCall
    <3>7. UserCall \/ UNCHANGED <<sent, executed, refunded>>
      <4>1. ASSUME NEW d \in DebridgeId, NEW v \in Vault, NEW s \in Scale, process_register_asset(d, v, s)
            PROVE  UNCHANGED <<sent, executed, refunded>>
        BY <4>1 DEF process_register_asset, money
      <4> QED BY <4>1, MoneyIsMovedBy
    <3> QED BY <3>1, <3>6, <3>7
  <2>2. Apart
    BY DEF GateInv, MoneyInv, ProofsTrue
  <2>3. Homes
    BY VaultStays DEF GateInv
  <2>4. Sealed
    <3>1. cfg \in Config /\ (~cfg.owned => ~cfg.sealed)
      BY DEF GateInv, ConfigInv, NoConfig
    <3>2. \/ cfg' = cfg
          \/ ~cfg.owned
          \/ \E n : cfg' = [cfg EXCEPT !.nonce_to = n]
          \/ \E p : cfg' = [cfg EXCEPT !.paused = p]
          \/ \E g : cfg' = [cfg EXCEPT !.guardian = g]
          \/ \E V : cfg' = [cfg EXCEPT !.validators = V]
          \/ \E t : cfg' = [cfg EXCEPT !.threshold = t]
          \/ cfg' = [cfg EXCEPT !.sealed = TRUE]
      <4>1. CASE OwnerCall
        BY <4>1 DEF OwnerCall, process_init, process_register_corridor, process_set_paused,
           process_set_guardian, process_set_validator, AddValidator, RemoveValidator,
           process_set_threshold, process_register_asset, process_seal, store, load_config
      <4>2. CASE UserCall
        BY <4>2 DEF UserCall, process_send, process_claim, process_cancel, process_refund, store
      <4> QED BY <4>1, <4>2 DEF Next, Tick, process_schedule_action,
                 process_cancel_scheduled_governance
    <3> QED BY <3>1, <3>2 DEF Config
  <2> QED BY <2>1, <2>2, <2>3, <2>4
<1>2. Init => NonceInv
  BY DEF Init, NonceInv, LockIds
<1>3. GateInv /\ NonceInv /\ [Next]_vars => NonceInv' /\ (NewNonces \/ UNCHANGED vars)
  BY NonceStep DEF GateInv
<1>4. GateInv /\ GateInv' /\ NonceInv /\ [Next]_vars
        => [Slots /\ Locks /\ Apart /\ Homes /\ Sealed /\ NewNonces]_vars
  BY <1>1, <1>3
<1>5. [Slots /\ Locks /\ Apart /\ Homes /\ Sealed /\ NewNonces]_vars
        => [/\ Slots /\ refunded \subseteq refunded' /\ Apart
            /\ \A x \in sent : x \in sent' \/ x.id \in refunded'
            /\ Homes /\ Sealed
            /\ \A x \in sent' \ sent :
                 \A id \in LockIds : id.to = x.id.to => id.nonce < x.id.nonce]_vars
  BY DEF NewNonces
<1> QED
  BY <1>2, <1>3, <1>4, <1>5, GateInvariant, PTL DEF Spec, SlotsAreFinal

-----------------------------------------------------------------------------
(* The relayer's scan of the gate's log (SolanaScanner).                     *)

Logged == [version: Nat, decodes: BOOLEAN, bound: BOOLEAN, recorded: BOOLEAN,
           token: Tokens, refused: BOOLEAN]
Cursor == [last: Nat, quarantined: Seq(Nat \X Nat)]

\* What the scan owes an event of this relayer's version: a signature, or a
\* place in the quarantine list.
Payable(ev) ==
  ev.recorded /\ to_sent(ev) /\ ev.bound /\ ev.token \in Steady /\ asset_for(ev.token)
MustSign(ev) == Payable(ev) /\ ~ev.refused
MustList(ev) == (Payable(ev) /\ ev.refused) \/ ~to_sent(ev) \/ ~ev.bound

\* The scan is done with event e, as far as signed and the list q record.
Settled(e, q) ==
  /\ ~ahead(Event(e))
  /\ MustSign(Event(e)) => e \in signed
  /\ MustList(Event(e)) => Listed(e, q)

\* A list is bounded and in the order of its transactions.
Sorted(q) ==
  /\ Len(q) <= MAX_QUARANTINED
  /\ \A i, j \in DOMAIN q : i <= j => q[i][1] <= q[j][1]

\* The transaction to be read next, above everything that was listed.
Upcoming(c) == IF c.last = 0 THEN begins ELSE c.last + 1
Ordered(c) ==
  /\ Sorted(c.quarantined)
  /\ \A i \in DOMAIN c.quarantined : c.quarantined[i][1] <= Upcoming(c)

Covers(c) ==
  \A e \in Events : begins <= e[1] /\ e[1] <= c.last => Settled(e, c.quarantined)

ScanTypeOK ==
  /\ history \in Seq(Txs)
  /\ signed \subseteq Events
  /\ file \in Cursor /\ cursor \in Cursor
  /\ pc \in {"start", "idle", "collect", "process", "post"}
  /\ walk \in [lo: Int, hi: Int, pages: Nat]
  /\ line \in Nat \ {0} /\ begins \in Nat \ {0}

\* The loop has left the start for a gate of the right chain, with an allowlist.
Admitted ==
  /\ pc # "start" => gateConfig.chain_id = ChainId
  /\ pc \in {"collect", "process", "post"} => view \in Lists

\* Both cursors account for what is behind them, and the file is behind memory.
CursorsInv ==
  /\ file.last <= cursor.last /\ cursor.last <= Len(history)
  /\ Ordered(file) /\ Ordered(cursor)
  /\ Covers(file) /\ Covers(cursor)

\* A scan from the start begins at the first transaction; one from the tip a
\* page below it, and the tip only moves up.
BeginsInv ==
  /\ ~start_at_tip => begins = 1
  /\ begins = 1 \/ begins <= Len(history) + 1 - MaxBatch
  /\ pc = "collect" /\ start_at_tip /\ cursor.last = 0 => walk.pages = 0

\* A walk never reaches down to what the cursor passed; the transaction in hand is
\* the first after the cursor, and its lines above the current one are settled.
WalkInv ==
  /\ pc = "collect" /\ walk.pages > 0 => cursor.last < walk.lo /\ walk.hi <= Len(history)
  /\ pc \in {"process", "post"} =>
       /\ 1 <= walk.lo /\ walk.lo <= walk.hi /\ walk.hi <= Len(history)
       /\ walk.lo = Upcoming(cursor)
       /\ \A n \in 1..Len(Lines(walk.lo)) : n < line => Settled(<<walk.lo, n>>, cursor.quarantined)

\* What is about to be posted has passed every check.
Vetted(ev) ==
  /\ to_sent(ev) /\ ev.bound /\ ev.recorded
  /\ asset_for(ev.token) /\ scale_agrees(ev.token)
PostInv ==
  pc = "post" => line <= Len(Lines(walk.lo)) /\ Vetted(Event(<<walk.lo, line>>))

ScanInv ==
  ScanTypeOK /\ Admitted /\ CursorsInv /\ BeginsInv /\ WalkInv /\ PostInv /\ SignedIsReal

-----------------------------------------------------------------------------
LEMMA LinesType ==
  ASSUME ScanTypeOK, NEW tx \in 1..Len(history)
  PROVE  /\ Lines(tx) \in Seq(Logged)
         /\ Len(Lines(tx)) \in Nat
         /\ \A n \in 1..Len(Lines(tx)) : Event(<<tx, n>>) \in Logged
<1>1. history[tx] \in Txs
  BY DEF ScanTypeOK
<1>2. Lines(tx) \in Seq(Logged)
  BY <1>1, SolanaScannerAssumption DEF Lines, Logged
<1>3. QED
  BY <1>2 DEF Event

LEMMA EventType ==
  ASSUME ScanTypeOK, NEW e \in Events
  PROVE  /\ e[1] \in 1..Len(history) /\ e[2] \in 1..Len(Lines(e[1]))
         /\ e = <<e[1], e[2]>> /\ e[1] \in Nat /\ e[2] \in Nat
         /\ Event(e) \in Logged
<1>1. PICK tx \in 1..Len(history) : e \in {<<tx, m>> : m \in 1..Len(Lines(tx))}
  BY DEF Events
<1> PICK n \in 1..Len(Lines(tx)) : e = <<tx, n>>
  BY <1>1
<1>2. tx \in Nat /\ n \in Nat /\ Event(<<tx, n>>) \in Logged
  BY LinesType DEF ScanTypeOK
<1>3. QED
  BY <1>1, <1>2

LEMMA EventIsOne ==
  ASSUME NEW tx \in 1..Len(history), NEW n \in 1..Len(Lines(tx))
  PROVE  <<tx, n>> \in Events
BY DEF Events

\* What is vetted is real, and passing over what is payable needs a reason.
LEMMA VettedIsReal ==
  ASSUME NEW ev \in Logged, Vetted(ev)
  PROVE  ev.token \in Reader /\ Corridor[ev.token] = Asset[ev.token].bridge_decimals
BY SolanaScannerAssumption DEF Vetted, scale_agrees, bridge_decimals_for, NoScale, Logged

LEMMA PayableIsTaken ==
  ASSUME NEW ev \in Logged, Payable(ev), view \in Lists
  PROVE  asset_for(ev.token) /\ ev.recorded /\ scale_agrees(ev.token) /\ allowlist_permits(ev.token)
BY DEF Payable, Steady, scale_agrees, bridge_decimals_for, allowlist_permits, token_allowed

LEMMA CoversIsNoHoles == Covers(file) => NoHoles
BY DEF Covers, Settled, MustSign, MustList, Payable, NoHoles, Owed, Known, Newer, ahead

-----------------------------------------------------------------------------
(* Steps that touch neither the chain, the store nor the cursors.             *)

LEMMA QuietStep ==
  ASSUME ScanInv, UNCHANGED <<chain, signed, file, cursor, begins>>
  PROVE  CursorsInv' /\ SignedIsReal' /\ (signed \subseteq Events)'
<1>1. history' = history /\ signed' = signed /\ begins' = begins /\ file' = file /\ cursor' = cursor
  BY DEF chain
<1>2. Events' = Events
  BY <1>1 DEF Events, Lines
<1>3. CursorsInv'
  BY <1>1, <1>2 DEF ScanInv, CursorsInv, Covers, Settled, Event, Lines, Ordered, Upcoming
<1>4. SignedIsReal'
  BY <1>1 DEF ScanInv, SignedIsReal, Event, Lines
<1>5. QED
  BY <1>1, <1>2, <1>3, <1>4 DEF ScanInv, ScanTypeOK

LEMMA StartScan == ASSUME ScanInv, Start PROVE ScanInv'
<1>1. CursorsInv' /\ SignedIsReal' /\ (signed \subseteq Events)'
  BY QuietStep DEF Start
<1>2. ScanTypeOK' /\ Admitted' /\ BeginsInv' /\ WalkInv' /\ PostInv'
  BY <1>1 DEF ScanInv, ScanTypeOK, Start, Admitted, BeginsInv, WalkInv, Upcoming, PostInv, load_bridge_domain, chain
<1>3. QED
  BY <1>1, <1>2 DEF ScanInv

LEMMA TickScan == ASSUME ScanInv, tick PROVE ScanInv'
<1>1. CursorsInv' /\ SignedIsReal' /\ (signed \subseteq Events)'
  BY QuietStep DEF tick
<1>2. ScanTypeOK' /\ Admitted' /\ BeginsInv' /\ WalkInv' /\ PostInv'
  BY <1>1 DEF ScanInv, ScanTypeOK, tick, Admitted, BeginsInv, WalkInv, Upcoming, PostInv, NoWalk, chain
<1>3. QED
  BY <1>1, <1>2 DEF ScanInv

LEMMA FaultScan == ASSUME ScanInv, Fault PROVE ScanInv'
<1>1. CursorsInv' /\ SignedIsReal' /\ (signed \subseteq Events)'
  BY QuietStep DEF Fault
<1>2. ScanTypeOK' /\ Admitted' /\ BeginsInv' /\ WalkInv' /\ PostInv'
  BY <1>1 DEF ScanInv, ScanTypeOK, Fault, Admitted, BeginsInv, WalkInv, Upcoming, PostInv, chain
<1>3. QED
  BY <1>1, <1>2 DEF ScanInv

LEMMA CrashScan == ASSUME ScanInv, Crash PROVE ScanInv'
<1>1. history' = history /\ signed' = signed /\ begins' = begins /\ file' = file /\ cursor' = file
      /\ Events' = Events
  BY DEF Crash, chain, Events, Lines
<1>2. CursorsInv'
  BY <1>1 DEF ScanInv, ScanTypeOK, Cursor, CursorsInv, Covers, Settled, Event, Lines, Ordered, Upcoming
<1>3. SignedIsReal'
  BY <1>1 DEF ScanInv, SignedIsReal, Event, Lines
<1>4. ScanTypeOK' /\ Admitted' /\ BeginsInv' /\ WalkInv' /\ PostInv'
  BY <1>1 DEF ScanInv, ScanTypeOK, Crash, Admitted, BeginsInv, WalkInv, PostInv, chain, NoWalk
<1>5. QED
  BY <1>2, <1>3, <1>4 DEF ScanInv

-----------------------------------------------------------------------------
(* Transactions land at the tip, above both cursors and the walk.             *)

LEMMA LandScan == ASSUME ScanInv, Land PROVE ScanInv'
<1> PICK x \in Txs : history' = Append(history, x)
  BY DEF Land
<1>1. /\ signed' = signed /\ begins' = begins /\ file' = file /\ cursor' = cursor /\ gateConfig' = gateConfig
      /\ view' = view /\ pc' = pc /\ walk' = walk /\ line' = line
  BY DEF Land
<1>t. ScanTypeOK
  BY DEF ScanInv
<1>2. /\ history' \in Seq(Txs) /\ Len(history') = Len(history) + 1 /\ Len(history) \in Nat
      /\ \A i \in 1..Len(history) : history'[i] = history[i]
  BY <1>t DEF ScanTypeOK
<1>3. \A i \in 1..Len(history) : Lines(i)' = Lines(i)
  BY <1>2 DEF Lines
<1>4. Events \subseteq Events'
  BY <1>2, <1>3 DEF Events
<1>5. ASSUME NEW e \in Events', e[1] <= Len(history) PROVE e \in Events
  <2>1. PICK i \in 1..Len(history') : e \in {<<i, m>> : m \in 1..Len(Lines(i)')}
    BY DEF Events
  <2>2. i \in 1..Len(history)
    BY <1>2, <1>5, <2>1
  <2>3. QED
    BY <1>3, <2>1, <2>2 DEF Events
<1>6. \A e \in Events : Event(e)' = Event(e)
  BY <1>3, <1>t, EventType DEF Event
<1>7. CursorsInv'
  <2>1. \A c \in {file, cursor} : c.last \in Nat /\ c.last <= Len(history)
    BY <1>2, <1>t DEF ScanInv, ScanTypeOK, Cursor, CursorsInv
  <2>2. ASSUME NEW c \in {file, cursor}, NEW e \in Events', begins <= e[1], e[1] <= c.last
        PROVE  /\ ~ahead(Event(e)')
               /\ MustSign(Event(e)') => e \in signed
               /\ MustList(Event(e)') => Listed(e, c.quarantined)
    <3>1. e \in Events
      <4>1. PICK i \in 1..Len(history') : e \in {<<i, m>> : m \in 1..Len(Lines(i)')}
        BY DEF Events
      <4>2. e[1] \in Nat
        BY <4>1, <1>2
      <4>3. QED
        BY <1>2, <1>5, <2>1, <2>2, <4>2
    <3>2. Settled(e, c.quarantined)
      BY <2>2, <3>1 DEF ScanInv, CursorsInv, Covers
    <3>3. QED
      BY <1>6, <3>1, <3>2 DEF Settled
  <2>3. Covers(file)'
    BY <1>1, <2>2 DEF Covers, Settled
  <2>4. Covers(cursor)'
    BY <1>1, <2>2 DEF Covers, Settled
  <2>5. Ordered(file)' /\ Ordered(cursor)'
    BY <1>1 DEF ScanInv, CursorsInv, Ordered, Upcoming
  <2>6. QED
    BY <1>1, <1>2, <2>1, <2>3, <2>4, <2>5 DEF ScanInv, CursorsInv
<1>8. WalkInv' /\ PostInv'
  <2>1. ASSUME pc \in {"process", "post"}
        PROVE  /\ walk.lo \in 1..Len(history) /\ Lines(walk.lo)' = Lines(walk.lo)
               /\ \A n \in 1..Len(Lines(walk.lo)) : <<walk.lo, n>> \in Events
    BY <1>1, <1>2, <1>3, <1>t, <2>1, EventIsOne DEF ScanInv, WalkInv, ScanTypeOK
  <2>2. WalkInv'
    BY <1>1, <1>2, <1>t, <2>1 DEF ScanInv, WalkInv, ScanTypeOK, Settled, Event, Upcoming
  <2>3. PostInv'
    BY <1>1, <1>2, <1>t, <2>1 DEF ScanInv, PostInv, ScanTypeOK, Event
  <2>4. QED
    BY <2>2, <2>3
<1>9. SignedIsReal' /\ ScanTypeOK' /\ Admitted'
  <2>1. SignedIsReal'
    BY <1>1, <1>6, <1>t DEF ScanInv, ScanTypeOK, SignedIsReal
  <2>2. ScanTypeOK' /\ Admitted'
    BY <1>1, <1>2, <1>4 DEF ScanInv, ScanTypeOK, Admitted
  <2>3. QED
    BY <2>1, <2>2
<1>b. BeginsInv'
  BY <1>1, <1>2, <1>t, SolanaScannerAssumption DEF Land, ScanInv, ScanTypeOK, BeginsInv
<1>10. QED
  BY <1>7, <1>8, <1>9, <1>b DEF ScanInv

-----------------------------------------------------------------------------
(* Collecting pages: the walk stays above the cursor, and ends next to it.    *)

LEMMA CollectScan == ASSUME ScanInv, collect_since_cursor PROVE ScanInv'
<1> DEFINE hi == IF walk.pages = 0 THEN Len(history) ELSE walk.hi
           before == IF walk.pages = 0 THEN hi + 1 ELSE walk.lo
           room == before - 1 - cursor.last
           len == IF room < MaxBatch THEN room ELSE MaxBatch
           action == next_page_action(len, walk.pages)
           read == [lo |-> before - len, hi |-> hi, pages |-> walk.pages + 1]
<1>1. /\ pc = "collect" /\ line' = 1
      /\ history' = history /\ signed' = signed /\ file' = file /\ cursor' = cursor
      /\ gateConfig' = gateConfig /\ view' = view
      /\ walk' = IF action = "TooDeep" THEN NoWalk ELSE read
      /\ pc' = IF action = "KeepWalking" THEN "collect"
               ELSE IF action = "TooDeep" \/ read.lo > hi THEN "idle" ELSE "process"
      /\ begins' = IF action = "Complete" /\ cursor.last = NoTip THEN read.lo ELSE begins
  BY DEF collect_since_cursor, chain
<1>s. start_at_tip' = start_at_tip
  BY DEF collect_since_cursor, chain
<1>2. /\ hi \in Int /\ hi <= Len(history) /\ before - len \in Int /\ len \in Int
      /\ cursor.last < before - len
      /\ len < MaxBatch => before - len = cursor.last + 1
  <2>1. Len(history) \in Nat /\ cursor.last \in Nat /\ cursor.last <= Len(history) /\ MaxBatch \in Nat
    BY SolanaScannerAssumption DEF ScanInv, ScanTypeOK, Cursor, CursorsInv
  <2>2. hi \in Int /\ before \in Int /\ hi <= Len(history) /\ cursor.last < before
    BY <1>1, <2>1 DEF ScanInv, ScanTypeOK, WalkInv
  <2> HIDE DEF hi, before
  <2>3. room \in Nat
    BY <2>1, <2>2
  <2>4. len \in Nat /\ len <= room /\ (len < MaxBatch => len = room)
    BY <2>1, <2>3
  <2> HIDE DEF len
  <2>5. QED
    BY <2>1, <2>2, <2>4
<1>3. /\ action \in {"Complete", "TooDeep", "KeepWalking"}
      /\ action = "Complete" => len < MaxBatch \/ (cursor.last = NoTip /\ start_at_tip)
      /\ start_at_tip /\ cursor.last = NoTip => action = "Complete"
  BY DEF next_page_action, walks_to_start
<1>4. /\ cursor.last \in Nat /\ Len(history) \in Nat /\ walk.pages \in Nat
      /\ file.last \in Nat /\ file.last <= cursor.last
  BY DEF ScanInv, ScanTypeOK, Cursor, CursorsInv
<1>b. /\ begins <= begins' /\ begins' \in Nat \ {0}
      /\ ~start_at_tip => begins' = 1
      /\ begins' = 1 \/ begins' <= Len(history) + 1 - MaxBatch
  <2>1. /\ begins \in Nat \ {0} /\ MaxBatch \in Nat
        /\ ~start_at_tip => begins = 1
        /\ begins = 1 \/ begins <= Len(history) + 1 - MaxBatch
    BY SolanaScannerAssumption DEF ScanInv, ScanTypeOK, BeginsInv
  <2>2. CASE action = "Complete" /\ cursor.last = NoTip
    <3>1. begins' = before - len /\ cursor.last = 0
      BY <1>1, <2>2 DEF NoTip
    <3>2. CASE len < MaxBatch
      <4>1. begins' = 1
        BY <1>2, <3>1, <3>2
      <4>2. begins = 1
        <5>1. CASE ~start_at_tip
          BY <2>1, <5>1
        <5>2. CASE start_at_tip
          <6>1. walk.pages = 0
            BY <1>1, <3>1, <5>2 DEF ScanInv, BeginsInv
          <6>2. room = Len(history) /\ Len(history) < MaxBatch
            BY <1>4, <2>1, <3>1, <3>2, <6>1
          <6>3. QED
            BY <1>4, <2>1, <6>2
        <5>3. QED
          BY <5>1, <5>2
      <4>3. QED
        BY <4>1, <4>2
    <3>3. CASE ~(len < MaxBatch)
      <4>1. start_at_tip
        BY <1>3, <2>2, <3>3
      <4>2. walk.pages = 0
        BY <1>1, <3>1, <4>1 DEF ScanInv, BeginsInv
      <4>3. room = Len(history) /\ len = MaxBatch /\ MaxBatch <= Len(history) /\ before = Len(history) + 1
        BY <1>4, <2>1, <3>1, <3>3, <4>2
      <4>e. len = MaxBatch /\ before = Len(history) + 1
        BY <4>3
      <4> HIDE DEF before, len
      <4>4. begins' = Len(history) + 1 - MaxBatch
        BY <1>4, <2>1, <3>1, <4>e
      <4>5. QED
        BY <1>4, <2>1, <4>1, <4>3, <4>4
    <3>4. QED
      BY <3>2, <3>3
  <2>3. CASE ~(action = "Complete" /\ cursor.last = NoTip)
    BY <1>1, <2>1, <2>3
  <2>4. QED
    BY <2>2, <2>3
<1> HIDE DEF hi, before, room, len, action
<1>5. CursorsInv'
  <2>1. Events' = Events
    BY <1>1 DEF Events, Lines
  <2>2. CASE begins' = begins
    BY <1>1, <2>1, <2>2 DEF ScanInv, CursorsInv, Covers, Settled, Event, Lines, Ordered, Upcoming
  <2>3. CASE cursor.last = 0
    <3>1. \A e \in Events : e[1] \in Nat \ {0}
      BY EventType DEF ScanInv
    <3>2. file.last = 0
      BY <1>4, <2>3
    <3>3. \A e \in Events' : ~(e[1] <= file'.last) /\ ~(e[1] <= cursor'.last)
      BY <1>1, <2>1, <2>3, <3>1, <3>2
    <3>4. Covers(file)' /\ Covers(cursor)'
      BY <3>3 DEF Covers
    <3>5. Ordered(file)' /\ Ordered(cursor)'
      <4>1. ASSUME NEW c \in {file, cursor}
            PROVE  /\ Sorted(c.quarantined)
                   /\ \A i \in DOMAIN c.quarantined : c.quarantined[i][1] <= begins'
        <5>1. Ordered(c) /\ Upcoming(c) = begins /\ c.quarantined \in Seq(Nat \X Nat)
          BY <2>3, <3>2 DEF ScanInv, ScanTypeOK, Cursor, CursorsInv, Upcoming
        <5>2. \A i \in DOMAIN c.quarantined : c.quarantined[i][1] \in Nat
          BY <5>1
        <5>3. begins \in Nat
          BY DEF ScanInv, ScanTypeOK
        <5>4. QED
          BY <1>b, <5>1, <5>2, <5>3 DEF Ordered
      <4>2. QED
        BY <1>1, <2>3, <3>2, <4>1 DEF Ordered, Upcoming
    <3>6. QED
      BY <1>1, <3>4, <3>5 DEF ScanInv, CursorsInv
  <2>4. QED
    BY <1>1, <2>2, <2>3 DEF NoTip
<1>6. SignedIsReal'
  BY <1>1 DEF ScanInv, SignedIsReal, Event, Lines
<1>7. ScanTypeOK' /\ Admitted'
  <2>1. walk' \in [lo: Int, hi: Int, pages: Nat] /\ begins' \in Nat \ {0}
    BY <1>1, <1>2, <1>4, <1>b DEF NoWalk, ScanInv, ScanTypeOK
  <2>2. (signed \subseteq Events)'
    BY <1>1 DEF ScanInv, ScanTypeOK, Events, Lines
  <2>3. QED
    BY <1>1, <2>1, <2>2 DEF ScanInv, ScanTypeOK, Admitted
<1>8. WalkInv' /\ PostInv'
  <2>1. CASE pc' = "process"
    <3>1. /\ action = "Complete" /\ walk' = read /\ read.lo <= hi
          /\ begins' = IF cursor.last = NoTip THEN read.lo ELSE begins
      BY <1>1, <1>2, <1>3, <2>1
    <3>2. walk'.lo = Upcoming(cursor)'
      BY <1>1, <1>2, <1>3, <3>1 DEF NoTip, Upcoming
    <3>3. 1 <= walk'.lo /\ walk'.lo <= walk'.hi /\ walk'.hi <= Len(history)
      BY <1>2, <1>4, <3>1
    <3>4. \A n \in 1..Len(Lines(walk.lo)') : ~(n < line')
      BY <1>1
    <3>5. QED
      BY <1>1, <2>1, <3>2, <3>3, <3>4 DEF WalkInv, PostInv
  <2>2. CASE pc' = "collect"
    <3>1. walk' = read
      BY <1>1, <1>3, <2>2
    <3>2. QED
      BY <1>1, <1>2, <2>2, <3>1 DEF WalkInv, PostInv
  <2>3. CASE pc' = "idle"
    BY <2>3 DEF WalkInv, PostInv
  <2>4. QED
    BY <1>1, <2>1, <2>2, <2>3
<1>9. BeginsInv'
  <2>1. CASE pc' = "collect"
    BY <1>1, <1>3, <1>b, <1>s, <2>1 DEF BeginsInv, NoTip
  <2>2. CASE pc' # "collect"
    BY <1>1, <1>b, <1>s, <2>2 DEF BeginsInv
  <2>3. QED
    BY <2>1, <2>2
<1>10. QED
  BY <1>5, <1>6, <1>7, <1>8, <1>9 DEF ScanInv

-----------------------------------------------------------------------------
(* The line in hand.                                                          *)

\* What a full list lets go is its oldest entry, and what it takes is newer than
\* all it holds.
LEMMA DrainedList ==
  ASSUME NEW q \in Seq(Nat \X Nat), NEW x \in Nat \X Nat, Sorted(q),
         \A i \in DOMAIN q : q[i][1] <= x[1]
  PROVE  LET r == Drained(Append(q, x))
         IN  /\ r \in Seq(Nat \X Nat) /\ Sorted(r) /\ x \in Range(r)
             /\ \A i \in DOMAIN r : r[i][1] <= x[1]
             /\ \A e \in Nat \X Nat : e[1] <= x[1] /\ Listed(e, q) => Listed(e, r)
<1> DEFINE a == Append(q, x)
           r == Drained(a)
<1>n. Len(q) \in Nat
  OBVIOUS
<1>1. /\ a \in Seq(Nat \X Nat) /\ Len(a) = Len(q) + 1
      /\ DOMAIN a = 1..(Len(q) + 1) /\ DOMAIN q = 1..Len(q)
      /\ a[Len(q) + 1] = x /\ \A i \in 1..Len(q) : a[i] = q[i]
  OBVIOUS
<1>2. \A i, j \in 1..(Len(q) + 1) : i <= j => a[i][1] <= a[j][1]
  <2>1. x[1] \in Nat /\ \A i \in 1..Len(q) : q[i][1] \in Nat
    BY <1>1
  <2>2. ASSUME NEW i \in 1..(Len(q) + 1), NEW j \in 1..(Len(q) + 1), i <= j PROVE a[i][1] <= a[j][1]
    <3>1. CASE j \in 1..Len(q)
      <4>1. i \in 1..Len(q) /\ j \in 1..Len(q)
        BY <1>n, <2>2, <3>1
      <4>2. q[i][1] <= q[j][1]
        BY <1>1, <2>2, <4>1 DEF Sorted
      <4>3. QED
        BY <1>1, <4>1, <4>2
    <3>2. CASE j = Len(q) + 1 /\ i \in 1..Len(q)
      BY <1>1, <3>2
    <3>3. CASE j = Len(q) + 1 /\ i = Len(q) + 1
      BY <1>1, <2>1, <3>3
    <3>4. QED
      BY <1>n, <2>2, <3>1, <3>2, <3>3
  <2>3. QED
    BY <2>2
<1>3. MAX_QUARANTINED \in Nat \ {0} /\ Len(q) <= MAX_QUARANTINED
  BY SolanaScannerAssumption DEF Sorted
<1>4. \A i \in 1..(Len(q) + 1) : a[i][1] <= x[1]
  BY <1>1, <1>2
<1> HIDE DEF a
<1>5. CASE Len(q) < MAX_QUARANTINED
  <2>1. r = a /\ Len(a) <= MAX_QUARANTINED
    BY <1>1, <1>3, <1>5 DEF Drained
  <2>2. Sorted(a)
    BY <1>1, <1>2, <2>1 DEF Sorted
  <2>3. x \in Range(a)
    <3>1. Len(q) + 1 \in DOMAIN a
      BY <1>n, <1>1
    <3>2. QED
      BY <1>1, <3>1 DEF Range
  <2>4. \A e \in Nat \X Nat : Listed(e, q) => Listed(e, a)
    <3>1. ASSUME NEW e \in Range(q) PROVE e \in Range(a)
      <4>1. PICK k \in 1..Len(q) : e = q[k]
        BY <1>1 DEF Range
      <4>2. k \in DOMAIN a /\ a[k] = e
        BY <1>n, <1>1, <4>1
      <4>3. QED
        BY <4>2 DEF Range
    <3>2. Len(q) # MAX_QUARANTINED
      BY <1>n, <1>3, <1>5
    <3>3. QED
      BY <3>1, <3>2 DEF Listed
  <2>5. QED
    BY <1>1, <1>4, <2>1, <2>2, <2>3, <2>4 DEF a
<1>6. CASE Len(q) = MAX_QUARANTINED
  <2>1. r = Tail(a) /\ a # <<>>
    BY <1>1, <1>3, <1>6 DEF Drained
  <2>2. /\ r \in Seq(Nat \X Nat) /\ Len(r) = Len(q) /\ DOMAIN r = 1..Len(q)
        /\ \A i \in 1..Len(q) : r[i] = a[i + 1]
    BY <1>1, <2>1
  <2> HIDE DEF r
  <2>s. \A i \in 1..Len(q) : i + 1 \in 1..(Len(q) + 1)
    BY <1>n
  <2>3. \A i, j \in 1..Len(q) : i <= j => r[i][1] <= r[j][1]
    <3>1. ASSUME NEW i \in 1..Len(q), NEW j \in 1..Len(q), i <= j PROVE r[i][1] <= r[j][1]
      <4>1. i + 1 <= j + 1 /\ i + 1 \in 1..(Len(q) + 1) /\ j + 1 \in 1..(Len(q) + 1)
        BY <1>n, <2>s, <3>1
      <4>2. a[i + 1][1] <= a[j + 1][1]
        BY <1>2, <4>1
      <4>3. QED
        BY <2>2, <4>2
    <3>2. QED
      BY <3>1
  <2>4. Sorted(r)
    BY <1>3, <2>2, <2>3 DEF Sorted
  <2>5. x \in Range(r)
    <3>1. Len(q) \in 1..Len(q)
      BY <1>n, <1>3, <1>6
    <3>2. r[Len(q)] = x
      BY <1>1, <2>2, <3>1
    <3>3. QED
      BY <2>2, <3>1, <3>2 DEF Range
  <2>6. \A i \in DOMAIN r : r[i][1] <= x[1]
    BY <1>4, <2>2, <2>s
  <2>7. ASSUME NEW e \in Nat \X Nat, e[1] <= x[1], Listed(e, q) PROVE Listed(e, r)
    <3>1. CASE \A i \in 1..Len(q) : e[1] <= q[i][1]
      <4>1. \A i \in 1..Len(q) : e[1] <= r[i][1]
        <5>1. ASSUME NEW i \in 1..Len(q) PROVE e[1] <= r[i][1]
          <6>1. CASE i = Len(q)
            BY <1>1, <2>2, <2>7, <6>1
          <6>2. CASE i # Len(q)
            <7>1. i + 1 \in 1..Len(q)
              BY <1>n, <6>2
            <7>2. QED
              BY <1>1, <2>2, <3>1, <7>1
          <6>3. QED
            BY <6>1, <6>2
        <5>2. QED
          BY <5>1
      <4>2. QED
        BY <1>6, <2>2, <4>1 DEF Listed
    <3>2. CASE e \in Range(q)
      <4>1. PICK k \in 1..Len(q) : e = q[k]
        BY <1>1, <3>2 DEF Range
      <4>2. CASE k = 1
        <5>1. \A i \in 1..Len(q) : q[1][1] <= q[i][1]
          <6>1. \A i \in 1..Len(q) : 1 <= i /\ 1 \in 1..Len(q)
            BY <1>n
          <6>2. QED
            BY <1>1, <6>1 DEF Sorted
        <5>2. QED
          BY <3>1, <4>1, <4>2, <5>1
      <4>3. CASE k # 1
        <5>1. k - 1 \in 1..Len(q) /\ k - 1 + 1 = k
          BY <1>n, <4>3
        <5>2. r[k - 1] = e
          BY <1>1, <2>2, <4>1, <5>1
        <5>3. QED
          BY <2>2, <5>1, <5>2 DEF Listed, Range
      <4>4. QED
        BY <4>2, <4>3
    <3>3. QED
      BY <1>1, <2>7, <3>1, <3>2 DEF Listed
  <2>8. QED
    BY <2>2, <2>4, <2>5, <2>6, <2>7 DEF r, a
<1>7. QED
  BY <1>n, <1>3, <1>5, <1>6

\* The line in hand is put in the list: all that was listed up to its transaction
\* stays so.
LEMMA QuarantineStep ==
  ASSUME ScanInv, pc \in {"process", "post"}, quarantine(walk.lo, line), begins' = begins,
         <<walk.lo, line>> \in Nat \X Nat
  PROVE  /\ cursor' \in Cursor /\ cursor'.last = cursor.last /\ Ordered(cursor)'
         /\ <<walk.lo, line>> \in Range(cursor'.quarantined)
         /\ \A e \in Nat \X Nat : e[1] <= walk.lo /\ Listed(e, cursor.quarantined)
                                     => Listed(e, cursor'.quarantined)
<1> DEFINE q == cursor.quarantined
           x == <<walk.lo, line>>
           r == Drained(Append(q, x))
<1>1. /\ cursor \in Cursor /\ cursor = [last |-> cursor.last, quarantined |-> q]
      /\ q \in Seq(Nat \X Nat) /\ Ordered(cursor) /\ Sorted(q)
      /\ walk.lo = Upcoming(cursor) /\ x[1] = walk.lo
  BY DEF ScanInv, ScanTypeOK, Cursor, CursorsInv, WalkInv, Ordered
<1>2. \A i \in DOMAIN q : q[i][1] <= x[1]
  BY <1>1 DEF Ordered
<1>3. CASE x \in Range(q)
  <2>1. cursor' = cursor
    BY <1>3 DEF quarantine
  <2>2. QED
    BY <1>1, <1>3, <2>1 DEF Ordered, Upcoming
<1>4. CASE x \notin Range(q)
  <2>1. /\ r \in Seq(Nat \X Nat) /\ Sorted(r) /\ x \in Range(r)
        /\ \A i \in DOMAIN r : r[i][1] <= x[1]
        /\ \A e \in Nat \X Nat : e[1] <= x[1] /\ Listed(e, q) => Listed(e, r)
    BY <1>1, <1>2, DrainedList
  <2> HIDE DEF r
  <2>2. cursor' = [last |-> cursor.last, quarantined |-> r]
    <3>1. cursor' = [cursor EXCEPT !.quarantined = r]
      BY <1>4 DEF quarantine, r
    <3>2. QED
      BY <1>1, <3>1 DEF Cursor
  <2>3. cursor'.quarantined = r /\ cursor'.last = cursor.last /\ cursor' \in Cursor
    BY <1>1, <2>1, <2>2 DEF Cursor
  <2>4. Ordered(cursor)'
    BY <1>1, <2>1, <2>3 DEF Ordered, Upcoming
  <2>5. QED
    BY <1>1, <2>1, <2>3, <2>4
<1>5. QED
  BY <1>3, <1>4

\* The cursors after such a step, if they did not move.
LEMMA CoverStays ==
  ASSUME ScanInv, pc \in {"process", "post"},
         history' = history, begins' = begins, signed \subseteq signed',
         cursor' \in Cursor, cursor'.last = cursor.last, Ordered(cursor)',
         \A e \in Nat \X Nat : e[1] <= walk.lo /\ Listed(e, cursor.quarantined)
                                => Listed(e, cursor'.quarantined),
         file' = file \/ file' = cursor'
  PROVE  CursorsInv'
<1>1. Events' = Events
  BY DEF Events, Lines
<1>2. Covers(cursor)'
  <2>1. ASSUME NEW e \in Events, begins <= e[1], e[1] <= cursor.last
        PROVE  /\ ~ahead(Event(e))
               /\ MustSign(Event(e)) => e \in signed'
               /\ MustList(Event(e)) => Listed(e, cursor'.quarantined)
    <3>1. e \in Nat \X Nat /\ e[1] \in Nat \ {0}
      BY EventType DEF ScanInv
    <3>2. e[1] <= walk.lo
      BY <2>1, <3>1 DEF ScanInv, ScanTypeOK, Cursor, WalkInv, Upcoming
    <3>3. Settled(e, cursor.quarantined)
      BY <2>1 DEF ScanInv, CursorsInv, Covers
    <3>4. QED
      BY <3>1, <3>2, <3>3 DEF Settled
  <2>2. ASSUME NEW e \in Events PROVE Event(e)' = Event(e)
    BY DEF Event, Lines
  <2>3. QED
    BY <1>1, <2>1, <2>2 DEF Covers, Settled
<1>3. Covers(file)'
  <2>1. CASE file' = cursor'
    BY <1>2, <2>1 DEF Covers, Settled
  <2>2. CASE file' = file
    BY <1>1, <2>2 DEF ScanInv, CursorsInv, Covers, Settled, Event, Lines
  <2>3. QED
    BY <2>1, <2>2
<1>4. Ordered(file)'
  BY DEF ScanInv, CursorsInv, Ordered, Upcoming
<1>5. QED
  BY <1>2, <1>3, <1>4 DEF ScanInv, CursorsInv, ScanTypeOK, Cursor

LEMMA CoverKept ==
  ASSUME ScanInv, pc \in {"process", "post"},
         history' = history, begins' = begins, signed \subseteq signed', cursor' = cursor, file' = file
  PROVE  CursorsInv' /\ Ordered(cursor)'
<1>1. cursor \in Cursor /\ Ordered(cursor)'
  BY DEF ScanInv, ScanTypeOK, CursorsInv, Ordered, Upcoming
<1>2. QED
  BY <1>1, CoverStays

\* The line in hand is of a logged event.
LEMMA InHand ==
  ASSUME ScanInv, pc \in {"process", "post"}, line <= Len(Lines(walk.lo))
  PROVE  /\ walk.lo \in 1..Len(history) /\ line \in 1..Len(Lines(walk.lo))
         /\ <<walk.lo, line>> \in Events /\ Event(<<walk.lo, line>>) \in Logged
         /\ <<walk.lo, line>> \in Nat \X Nat
<1>1. walk.lo \in 1..Len(history)
  BY DEF ScanInv, ScanTypeOK, WalkInv
<1>2. Len(Lines(walk.lo)) \in Nat /\ \A n \in 1..Len(Lines(walk.lo)) : Event(<<walk.lo, n>>) \in Logged
  BY <1>1, LinesType DEF ScanInv
<1>3. line \in 1..Len(Lines(walk.lo))
  BY <1>2 DEF ScanInv, ScanTypeOK
<1>4. QED
  BY <1>1, <1>2, <1>3, EventIsOne

\* One more line is settled.
LEMMA LineDone ==
  ASSUME ScanInv, pc \in {"process", "post"}, pc' \in {"idle", "process"},
         UNCHANGED <<chain, walk, begins>>, signed \subseteq signed',
         cursor' \in Cursor, cursor'.last = cursor.last, Ordered(cursor)',
         \A e \in Nat \X Nat : e[1] <= walk.lo /\ Listed(e, cursor.quarantined)
                                => Listed(e, cursor'.quarantined),
         file' = file \/ file' = cursor',
         line <= Len(Lines(walk.lo)), line' = line + 1,
         ~ahead(Event(<<walk.lo, line>>)),
         MustSign(Event(<<walk.lo, line>>)) => <<walk.lo, line>> \in signed',
         MustList(Event(<<walk.lo, line>>)) => Listed(<<walk.lo, line>>, cursor'.quarantined)
  PROVE  CursorsInv' /\ WalkInv' /\ PostInv'
<1>1. history' = history /\ begins' = begins /\ walk' = walk
  BY DEF chain
<1>2. CursorsInv'
  BY <1>1, CoverStays
<1>3. /\ walk.lo \in 1..Len(history) /\ Len(Lines(walk.lo)) \in Nat /\ line \in Nat
      /\ \A n \in 1..Len(Lines(walk.lo)) : n < line => Settled(<<walk.lo, n>>, cursor.quarantined)
  BY LinesType DEF ScanInv, ScanTypeOK, WalkInv
<1>4. ASSUME NEW n \in 1..Len(Lines(walk.lo)), n < line + 1
      PROVE  /\ ~ahead(Event(<<walk.lo, n>>))
             /\ MustSign(Event(<<walk.lo, n>>)) => <<walk.lo, n>> \in signed'
             /\ MustList(Event(<<walk.lo, n>>)) => Listed(<<walk.lo, n>>, cursor'.quarantined)
  <2>1. CASE n = line
    BY <2>1
  <2>2. CASE n < line
    <3>1. <<walk.lo, n>> \in Nat \X Nat /\ <<walk.lo, n>>[1] <= walk.lo
      BY <1>3
    <3>2. QED
      BY <1>3, <2>2, <3>1 DEF Settled
  <2>3. QED
    BY <1>3, <1>4, <2>1, <2>2
<1>5. Lines(walk.lo)' = Lines(walk.lo)
      /\ \A n \in 1..Len(Lines(walk.lo)) : Event(<<walk.lo, n>>)' = Event(<<walk.lo, n>>)
  BY <1>1 DEF Lines, Event
<1>6. \A n \in 1..Len(Lines(walk.lo)') : n < line' => Settled(<<walk.lo, n>>, cursor.quarantined)'
  BY <1>1, <1>4, <1>5 DEF Settled
<1>7. WalkInv' /\ PostInv'
  BY <1>1, <1>6 DEF ScanInv, WalkInv, PostInv, Upcoming
<1>8. QED
  BY <1>2, <1>7

LEMMA ProcessScan == ASSUME ScanInv, process_line PROVE ScanInv'
<1> DEFINE e == <<walk.lo, line>>
           ev == Event(e)
<1>1. /\ pc = "process" /\ line <= Len(Lines(walk.lo)) /\ line \in Nat \ {0} /\ cursor \in Cursor
      /\ UNCHANGED <<chain, walk, begins>> /\ history' = history /\ gateConfig' = gateConfig
      /\ walk' = walk /\ begins' = begins /\ signed' = signed /\ view' = view
  BY DEF process_line, chain, ScanInv, ScanTypeOK
<1>2. e \in Events /\ ev \in Logged /\ e \in Nat \X Nat
  BY <1>1, InHand
<1>3. gateConfig.chain_id = ChainId /\ view \in Lists
  BY <1>1 DEF ScanInv, Admitted
<1>4. Events' = Events /\ SignedIsReal'
  BY <1>1 DEF ScanInv, SignedIsReal, Events, Event, Lines
<1>5. ASSUME pc' \in {"idle", "process", "post"}, line' \in Nat \ {0}, cursor' \in Cursor,
             file' = file \/ file' = cursor'
      PROVE  ScanTypeOK' /\ Admitted' /\ BeginsInv'
  BY <1>1, <1>3, <1>4, <1>5 DEF ScanInv, ScanTypeOK, Admitted, BeginsInv, chain
<1> HIDE DEF e, ev
<1>6. CASE ahead(ev) /\ pc' = "idle" /\ UNCHANGED <<file, cursor, line, bounds>>
  <2>1. CursorsInv'
    BY <1>1, <1>6, CoverKept
  <2>2. WalkInv' /\ PostInv'
    BY <1>6 DEF WalkInv, PostInv
  <2>3. QED
    BY <1>1, <1>4, <1>5, <1>6, <2>1, <2>2 DEF ScanInv
<1>7. CASE /\ ~ahead(ev) /\ (~to_sent(ev) \/ ~signable(ev))
           /\ quarantine(walk.lo, line) /\ line' = line + 1
           /\ pc' \in {"idle", "process"} /\ (file' = file \/ file' = cursor')
  <2>1. /\ cursor' \in Cursor /\ cursor'.last = cursor.last /\ Ordered(cursor)'
        /\ Listed(e, cursor'.quarantined)
        /\ \A x \in Nat \X Nat : x[1] <= walk.lo /\ Listed(x, cursor.quarantined)
                                    => Listed(x, cursor'.quarantined)
    BY <1>1, <1>2, <1>7, QuarantineStep DEF e, Listed
  <2>2. ~MustSign(ev)
    BY <1>3, <1>7 DEF MustSign, Payable, signable
  <2>3. CursorsInv' /\ WalkInv' /\ PostInv'
    BY <1>1, <1>7, <2>1, <2>2, LineDone DEF e, ev
  <2>4. QED
    BY <1>1, <1>4, <1>5, <1>7, <2>1, <2>3 DEF ScanInv
<1>8. CASE to_sent(ev) /\ signable(ev) /\ UNCHANGED <<file, cursor, bounds>>
           /\ asset_for(ev.token) /\ origin_proof_holds(e) /\ scale_agrees(ev.token)
           /\ pc' = "post" /\ line' = line
  <2>1. Vetted(ev)
    BY <1>8 DEF Vetted, signable, origin_proof_holds, verify_sent_record, ev
  <2>2. CursorsInv'
    BY <1>1, <1>8, CoverKept
  <2>3. Lines(walk.lo)' = Lines(walk.lo) /\ Event(<<walk.lo, line>>)' = ev
    BY <1>1, <1>8 DEF Lines, Event, e, ev
  <2>4. PostInv'
    BY <1>1, <1>8, <2>1, <2>3 DEF PostInv
  <2>5. WalkInv'
    BY <1>1, <1>8 DEF ScanInv, WalkInv, Settled, Event, Lines, Upcoming
  <2>6. QED
    BY <1>1, <1>4, <1>5, <1>8, <2>2, <2>4, <2>5 DEF ScanInv
<1>9. CASE to_sent(ev) /\ signable(ev) /\ UNCHANGED <<file, cursor, bounds>>
           /\ ~(/\ asset_for(ev.token) /\ origin_proof_holds(e)
                /\ scale_agrees(ev.token) /\ allowlist_permits(ev.token))
           /\ pc' = pc /\ line' = line + 1
  <2>1. ~Payable(ev)
    BY <1>2, <1>3, <1>9, PayableIsTaken DEF origin_proof_holds, verify_sent_record, ev
  <2>2. ~MustSign(ev) /\ ~MustList(ev) /\ ~ahead(ev)
    BY <1>2, <1>9, <2>1 DEF MustSign, MustList, ahead, to_sent, signable, SENT_EVENT_VERSION
  <2>3. CursorsInv' /\ WalkInv' /\ PostInv'
    BY <1>1, <1>9, <2>2, CoverKept, LineDone DEF e, ev
  <2>4. QED
    BY <1>1, <1>4, <1>5, <1>9, <2>3 DEF ScanInv
<1>10. QED
  BY <1>1, <1>6, <1>7, <1>8, <1>9 DEF process_line, Save, e, ev

LEMMA UpsertScan == ASSUME ScanInv, upsert PROVE ScanInv'
<1> DEFINE e == <<walk.lo, line>>
           ev == Event(e)
<1>1. /\ pc = "post" /\ line <= Len(Lines(walk.lo)) /\ line \in Nat \ {0} /\ cursor \in Cursor
      /\ UNCHANGED <<chain, walk, begins>> /\ history' = history /\ gateConfig' = gateConfig
      /\ walk' = walk /\ begins' = begins /\ view' = view
  BY DEF upsert, chain, ScanInv, ScanTypeOK, PostInv
<1>2. e \in Events /\ ev \in Logged /\ e \in Nat \X Nat
  BY <1>1, InHand
<1>3. Vetted(ev) /\ ~ahead(ev)
  BY <1>1, <1>2 DEF ScanInv, PostInv, Vetted, to_sent, ahead, SENT_EVENT_VERSION
<1>4. Events' = Events /\ \A x \in Events : Event(x)' = Event(x)
  BY <1>1 DEF Events, Event, Lines
<1>5. ASSUME signed' = signed \/ signed' = signed \cup {e} PROVE SignedIsReal' /\ (signed \subseteq Events)'
  <2>1. ev.recorded /\ ev.bound /\ ev.token \in Reader /\ Corridor[ev.token] = Asset[ev.token].bridge_decimals
    BY <1>2, <1>3, VettedIsReal DEF Vetted
  <2>2. signed \subseteq Events
    BY DEF ScanInv, ScanTypeOK
  <2>3. QED
    BY <1>2, <1>4, <1>5, <2>1, <2>2 DEF ScanInv, SignedIsReal
<1>6. ASSUME pc' \in {"idle", "process"}, line' \in Nat \ {0}, cursor' \in Cursor,
             file' = file \/ file' = cursor', signed' = signed \/ signed' = signed \cup {e}
      PROVE  ScanTypeOK' /\ Admitted' /\ BeginsInv'
  BY <1>1, <1>5, <1>6 DEF ScanInv, ScanTypeOK, Admitted, BeginsInv, chain
<1> HIDE DEF e, ev
<1>7. CASE /\ ev.refused /\ quarantine(walk.lo, line) /\ line' = line + 1 /\ signed' = signed
           /\ pc' \in {"idle", "process"} /\ (file' = file \/ file' = cursor')
  <2>1. /\ cursor' \in Cursor /\ cursor'.last = cursor.last /\ Ordered(cursor)'
        /\ Listed(e, cursor'.quarantined)
        /\ \A x \in Nat \X Nat : x[1] <= walk.lo /\ Listed(x, cursor.quarantined)
                                    => Listed(x, cursor'.quarantined)
    BY <1>1, <1>2, <1>7, QuarantineStep DEF e, Listed
  <2>2. ~MustSign(ev)
    BY <1>7 DEF MustSign
  <2>3. CursorsInv' /\ WalkInv' /\ PostInv'
    BY <1>1, <1>3, <1>7, <2>1, <2>2, LineDone DEF e, ev
  <2>4. QED
    BY <1>1, <1>5, <1>6, <1>7, <2>1, <2>3 DEF ScanInv
<1>8. CASE /\ ~ev.refused /\ signed' = signed \cup {e} /\ UNCHANGED <<file, cursor>>
           /\ line' = line + 1 /\ pc' = "process"
  <2>1. ~MustList(ev)
    BY <1>3, <1>8 DEF MustList, Vetted
  <2>2. CursorsInv' /\ WalkInv' /\ PostInv'
    BY <1>1, <1>3, <1>8, <2>1, CoverKept, LineDone DEF e, ev
  <2>3. QED
    BY <1>1, <1>5, <1>6, <1>8, <2>2 DEF ScanInv
<1>9. CASE /\ ~ev.refused /\ signed' = signed \cup {e} /\ UNCHANGED <<file, cursor>>
           /\ line' = line /\ pc' = "idle"
  <2>1. CursorsInv'
    BY <1>1, <1>9, CoverKept
  <2>2. WalkInv' /\ PostInv'
    BY <1>9 DEF WalkInv, PostInv
  <2>3. QED
    BY <1>1, <1>5, <1>6, <1>9, <2>1, <2>2 DEF ScanInv
<1>10. QED
  BY <1>1, <1>7, <1>8, <1>9 DEF upsert, Save, is_permanent, e, ev

-----------------------------------------------------------------------------
(* The cursor moves past a transaction all of whose lines are settled.        *)

LEMMA AdvanceScan == ASSUME ScanInv, advance PROVE ScanInv'
<1>1. /\ pc = "process" /\ line > Len(Lines(walk.lo)) /\ line' = 1
      /\ cursor' = [cursor EXCEPT !.last = walk.lo] /\ cursor \in Cursor
      /\ history' = history /\ gateConfig' = gateConfig
      /\ begins' = begins /\ signed' = signed /\ view' = view
      /\ walk' = IF pc' = "process" THEN [walk EXCEPT !.lo = @ + 1] ELSE walk
      /\ walk \in [lo: Int, hi: Int, pages: Nat]
  BY DEF advance, Done, chain, ScanInv, ScanTypeOK
<1>2. /\ pc' \in {"idle", "process"} /\ (file' = file \/ file' = cursor')
      /\ pc' = "process" => walk.lo # walk.hi
  BY DEF advance, Save
<1>3. /\ walk.lo \in 1..Len(history) /\ walk.lo <= walk.hi /\ walk.hi <= Len(history)
      /\ walk.lo = Upcoming(cursor)
      /\ \A n \in 1..Len(Lines(walk.lo)) : n < line => Settled(<<walk.lo, n>>, cursor.quarantined)
      /\ Len(history) \in Nat
  BY <1>1 DEF ScanInv, ScanTypeOK, WalkInv
<1>4. /\ cursor' \in Cursor /\ cursor'.last = walk.lo /\ cursor'.quarantined = cursor.quarantined
      /\ cursor.last \in Nat
  <2>1. walk.lo \in Nat
    BY <1>3
  <2>2. QED
    BY <1>1, <2>1 DEF Cursor
<1>5. Events' = Events
  BY <1>1 DEF Events, Lines
<1>6. ASSUME NEW e \in Events, begins <= e[1], e[1] <= walk.lo PROVE Settled(e, cursor.quarantined)
  <2>1. /\ e[1] \in Nat \ {0} /\ e = <<e[1], e[2]>> /\ e[2] \in 1..Len(Lines(e[1]))
    BY EventType DEF ScanInv
  <2>2. CASE e[1] = walk.lo
    <3>1. Len(Lines(walk.lo)) \in Nat /\ line \in Nat
      BY <1>3, LinesType DEF ScanInv, ScanTypeOK
    <3>2. e[2] < line
      BY <1>1, <2>1, <2>2, <3>1
    <3>3. QED
      BY <1>3, <2>1, <2>2, <3>2
  <2>3. CASE e[1] < walk.lo
    <3>1. begins \in Int
      BY DEF ScanInv, ScanTypeOK
    <3>2. e[1] <= cursor.last
      BY <1>3, <1>4, <1>6, <2>1, <2>3, <3>1 DEF Upcoming
    <3>3. QED
      BY <1>6, <3>2 DEF ScanInv, CursorsInv, Covers
  <2>4. QED
    BY <1>3, <1>6, <2>1, <2>2, <2>3
<1>7. CursorsInv'
  <2>1. Covers(cursor)'
    BY <1>1, <1>4, <1>5, <1>6 DEF Covers, Settled, Event, Lines
  <2>2. Covers(file)'
    <3>1. CASE file' = cursor'
      BY <2>1, <3>1 DEF Covers, Settled
    <3>2. CASE file' = file
      BY <1>1, <1>5, <3>2 DEF ScanInv, CursorsInv, Covers, Settled, Event, Lines
    <3>3. QED
      BY <1>2, <3>1, <3>2
  <2>3. file'.last <= cursor'.last
    BY <1>2, <1>3, <1>4 DEF ScanInv, CursorsInv, ScanTypeOK, Cursor, Upcoming
  <2>4. cursor'.last <= Len(history')
    BY <1>1, <1>3, <1>4
  <2>5. Ordered(cursor)'
    <3>1. /\ cursor.quarantined \in Seq(Nat \X Nat) /\ Sorted(cursor.quarantined)
          /\ \A i \in DOMAIN cursor.quarantined : cursor.quarantined[i][1] <= walk.lo
      BY <1>1, <1>3 DEF ScanInv, CursorsInv, Ordered, Cursor
    <3>2. \A i \in DOMAIN cursor.quarantined : cursor.quarantined[i][1] \in Nat
      BY <3>1
    <3>3. Upcoming(cursor)' = walk.lo + 1
      BY <1>3, <1>4 DEF Upcoming
    <3>4. QED
      BY <1>3, <1>4, <3>1, <3>2, <3>3 DEF Ordered
  <2>6. Ordered(file)'
    <3>1. CASE file' = cursor'
      BY <2>5, <3>1 DEF Ordered, Upcoming
    <3>2. CASE file' = file
      BY <1>1, <3>2 DEF ScanInv, CursorsInv, Ordered, Upcoming
    <3>3. QED
      BY <1>2, <3>1, <3>2
  <2>7. QED
    BY <2>1, <2>2, <2>3, <2>4, <2>5, <2>6 DEF CursorsInv
<1>8. SignedIsReal'
  BY <1>1 DEF ScanInv, SignedIsReal, Event, Lines
<1>9. ScanTypeOK' /\ Admitted' /\ BeginsInv'
  <2>1. walk' \in [lo: Int, hi: Int, pages: Nat]
    BY <1>1
  <2>2. ScanTypeOK' /\ Admitted'
    BY <1>1, <1>2, <1>4, <1>5, <2>1 DEF ScanInv, ScanTypeOK, Admitted
  <2>3. BeginsInv'
    BY <1>1, <1>2 DEF advance, chain, ScanInv, BeginsInv
  <2>4. QED
    BY <2>2, <2>3
<1>10. WalkInv' /\ PostInv'
  <2>1. CASE pc' = "process"
    <3>1. walk'.lo = walk.lo + 1 /\ walk'.hi = walk.hi
      BY <1>1, <2>1
    <3>2. 1 <= walk'.lo /\ walk'.lo <= walk'.hi /\ walk'.hi <= Len(history') /\ walk'.lo = Upcoming(cursor)'
      BY <1>1, <1>2, <1>3, <1>4, <2>1, <3>1 DEF Upcoming
    <3>3. \A n \in 1..Len(Lines(walk.lo)') : ~(n < line')
      BY <1>1
    <3>4. QED
      BY <2>1, <3>2, <3>3 DEF WalkInv, PostInv
  <2>2. CASE pc' = "idle"
    BY <2>2 DEF WalkInv, PostInv
  <2>3. QED
    BY <1>2, <2>1, <2>2
<1>11. QED
  BY <1>7, <1>8, <1>9, <1>10 DEF ScanInv

-----------------------------------------------------------------------------
LEMMA ScanStarts == ScannerInit => ScanInv
<1> SUFFICES ASSUME ScannerInit PROVE ScanInv
  OBVIOUS
<1>1. history = <<>> /\ signed = {} /\ Events = {}
  BY DEF ScannerInit, Events
<1>2. file = NoCursor /\ cursor = NoCursor /\ NoCursor \in Cursor
  BY DEF ScannerInit, NoCursor, NoTip, Cursor
<1>3. ScanTypeOK
  BY <1>1, <1>2 DEF ScanTypeOK, ScannerInit, NoWalk
<1>4. CursorsInv
  BY <1>1, <1>2, SolanaScannerAssumption DEF CursorsInv, Covers, NoCursor, NoTip, Ordered, Sorted
<1>5. QED
  BY <1>1, <1>3, <1>4 DEF ScannerInit, ScanInv, Admitted, BeginsInv, WalkInv, PostInv, SignedIsReal

LEMMA ScanSteps == ScanInv /\ [ScannerNext]_scannerVars => ScanInv'
<1> SUFFICES ASSUME ScanInv, [ScannerNext]_scannerVars PROVE ScanInv'
  OBVIOUS
<1>1. CASE UNCHANGED scannerVars
  <2>1. CursorsInv' /\ SignedIsReal' /\ (signed \subseteq Events)'
    BY <1>1, QuietStep DEF scannerVars
  <2>2. ScanTypeOK' /\ Admitted' /\ BeginsInv'
    BY <1>1, <2>1 DEF scannerVars, chain, ScanInv, ScanTypeOK, Admitted, BeginsInv
  <2>3. WalkInv' /\ PostInv'
    BY <1>1 DEF scannerVars, chain, ScanInv, WalkInv, PostInv, Settled, Event, Lines, Upcoming
  <2>4. QED
    BY <2>1, <2>2, <2>3 DEF ScanInv
<1>2. QED
  BY <1>1, StartScan, TickScan, CollectScan, ProcessScan, UpsertScan, AdvanceScan, FaultScan, CrashScan,
     LandScan DEF ScannerNext

\* Whatever lands while a walk goes down its pages, whatever other programs print,
\* and wherever a read, a post, a save or the process fails (`tick`,
\* `collect_since_cursor`, `handle`): nothing at or below the saved cursor is left
\* undone, what can never be signed leaves the quarantine list only for entries
\* as new (`Cursor::quarantine`), and nothing unreal is signed.
THEOREM ScanTheorem == ScannerSpec => []ScanIsFaithful
<1>1. ScannerSpec => []ScanInv
  BY ScanStarts, ScanSteps, PTL DEF ScannerSpec
<1>2. ScanInv => ScanIsFaithful
  BY CoversIsNoHoles DEF ScanInv, CursorsInv, ScanIsFaithful
<1>3. QED
  BY <1>1, <1>2, PTL
=============================================================================
