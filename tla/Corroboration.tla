---------------------------- MODULE Corroboration ----------------------------
(***************************************************************************)
(* How a validator decides what a source chain's logs are, and whether a   *)
(* destination counts an asset in the same unit, from RPC endpoints that   *)
(* may lag, fail or lie (crates/validator/src/provider.rs, scale.rs, and   *)
(* the part of scan_source that acts on the verdicts).                     *)
(*                                                                         *)
(* One endpoint of the source and one of each destination, chosen at the   *)
(* start, may say anything.  The others say what is true, of a chain up to *)
(* MaxLag blocks old.  Module Scanner takes the window this one returns    *)
(* and models what happens to it event by event.                           *)
(***************************************************************************)
EXTENDS Integers, FiniteSets, FiniteSetsExt, Functions

CONSTANTS
  N,              \* endpoints configured, of each destination and, unless it has one, of the source
  Event,          \* block -> the destination of the transfer sent in it
  Scale,          \* destination -> the bridge decimals it has registered, or None
  SourceScale,    \* the bridge decimals the source counts in
  Via,            \* destination -> "evm" or "solana"
  None,
  require,        \* [corroborate] require
  Confirmations, HEAD_LAG_ROTATE, max_block_range,
  MaxBlock,       \* bound: blocks
  MaxLag,         \* how far an honest endpoint may trail
  MaxFaults       \* bound: calls that fail

Dest == DOMAIN Scale
Block == 1 .. MaxBlock
Values == {Scale[d] : d \in Dest} \cup {SourceScale, None}

ASSUME CorroborationAssumption ==
  /\ N \in Nat \ {0} /\ DOMAIN Event \subseteq Block
  /\ \A b \in DOMAIN Event : Event[b] \in Dest
  /\ \A d \in Dest : Via[d] \in {"evm", "solana"}
  /\ require \in BOOLEAN
  /\ {Confirmations, HEAD_LAG_ROTATE, MaxBlock, MaxLag, MaxFaults} \subseteq Nat
  /\ max_block_range \in Nat \ {0}
  /\ None # {}

VARIABLES
  configured,  \* endpoints the source is configured with
  n,        \* those that passed the startup probe; 0 before
  domain,   \* bridge_domain as read at the start, or None
  liar,     \* the endpoint that lies, here and at every destination; 0 for none
  stuck,    \* the head that endpoint always reports, or None if that varies too
  height,   \* the chain
  active,   \* Failover.active, from 1
  cursor,   \* from_block
  cached,   \* cached_latest, or None
  cap,      \* window_cap
  window,   \* what get_logs_corroborated has settled so far, or None
  batch,    \* logs of an agreed window still to be judged, or None
  scales,   \* ScaleGuard.dest_cache
  signed, withheld,
  faults

scanVars == <<configured, n, domain, liar, stuck, height, active, cursor, cached, cap, window, batch, scales,
              signed, withheld>>
corroborationVars == <<scanVars, faults>>

Log(b, i, real) == [block |-> b, index |-> i, real |-> real]
Truth(a, b) == {Log(x, 0, TRUE) : x \in (DOMAIN Event) \cap (a .. b)}
Mined(a, b) == {log \in Truth(a, b) : log.block <= height}
Fail == -1
Domain == 1     \* Gate.bridgeDomain(); a liar may say another
fixed == <<configured, n, domain, liar, stuck>>

CorroborationInit ==
  /\ configured \in {1, N} /\ n = 0 /\ domain = None /\ liar \in 0 .. configured
  /\ stuck \in IF liar = 0 THEN {None} ELSE {None, 1, MaxBlock + 1}
  /\ height = 1 /\ active = 1 /\ cursor = 1 /\ cached = None /\ cap = max_block_range
  /\ window = None /\ batch = None /\ scales = [d \in Dest |-> None]
  /\ signed = {} /\ withheld = {} /\ faults = 0

\* Endpoints (external) ------------------------------------------------------
\* One answer of each endpoint: the honest ones say the truth, the liar anything.
Said(endpoints, truths, lies) ==
  {[e \in endpoints |-> IF e = liar THEN lie ELSE honest[e]] :
      honest \in [endpoints \ {liar} -> truths], lie \in lies}

\* The heads reported; an honest endpoint may trail.
Heads == Said(1 .. n, (IF height > MaxLag THEN height - MaxLag ELSE 0) .. height,
              IF stuck = None THEN {Fail} \cup 0 .. (MaxBlock + 1) ELSE {stuck})

\* The eth_getLogs answers: the logs, and whether one is there twice; or none.
NoAnswer == [ok |-> FALSE, logs |-> {}, twice |-> FALSE]
Answers(a, b) ==
  LET honest == [ok |-> TRUE, logs |-> Mined(a, b), twice |-> FALSE]
      fake == Log(b, 1, FALSE)
  IN  Said(1 .. n, {honest},
           {honest, [honest EXCEPT !.logs = {}], [honest EXCEPT !.logs = @ \cup {fake}],
            [honest EXCEPT !.logs = {fake}], [honest EXCEPT !.twice = Mined(a, b) # {}]})

\* What a destination's endpoints say of an asset's scale, or Fail: what the EVM gate has
\* registered, or the asset account of the Solana gate if it can be read.
evm_scale_on(d) == Scale[d]
solana_asset_scale(d) == Scale[d]
ScaleAnswers(d) ==
  Said(1 .. N, {IF Via[d] = "evm" THEN evm_scale_on(d) ELSE solana_asset_scale(d)},
       Values \cup {Fail})

\* Any set of calls may fail, at the cost of a fault.
Unreachable(urls) == {down \in SUBSET (1 .. urls) : down = {} \/ faults < MaxFaults}
Cost(down) == faults' = IF down = {} THEN faults ELSE faults + 1

\* Every endpoint is asked; the ones that fail have no say.
ask_all(said, down) == [e \in {x \in DOMAIN said \ down : said[x] # Fail} |-> said[e]]

\* Decisions -------------------------------------------------------------------
Lower(a, b) == IF a < b THEN a ELSE b
Higher(a, b) == IF a < b THEN b ELSE a

clamp_scan_window(from, to, head) ==
  IF head - Confirmations < from THEN None ELSE Lower(to, head - Confirmations)

\* The largest value that a strict majority of the answers are at or above.
majority_floor(said) ==
  Max({v \in Range(said) :
         2 * Cardinality({e \in DOMAIN said : said[e] >= v}) > Cardinality(DOMAIN said)})

\* The answer of at least min_agree endpoints that are a strict majority, or "none".
min_agree(urls) == IF urls >= 2 THEN 2 ELSE 1
Backers(said, v) == {e \in DOMAIN said : said[e] = v}
majority(said, agree) ==
  {v \in Range(said) : /\ Cardinality(Backers(said, v)) >= agree
                       /\ 2 * Cardinality(Backers(said, v)) > Cardinality(DOMAIN said)}

\* On Solana "there is no usable record" must be unanimous.
settle_solana(said) ==
  {v \in majority(said, min_agree(N)) : v # None \/ \A e \in DOMAIN said : said[e] = None}

\* The endpoints that answered decide; the others are left out of the count.
read_agreed(said, down, agree) == majority(ask_all(said, down), agree)

evm_destination_scale(said, down) == read_agreed(said, down, min_agree(N))
solana_destination_scale(said, down) == settle_solana(ask_all(said, down))

destination_scale(d, said, down) ==
  IF Via[d] = "evm" THEN evm_destination_scale(said, down)
  ELSE solana_destination_scale(said, down)

\* Endpoints are asked in turn, beginning after the serving one; the first of a set of them.
Turn(s, e) == IF e > s THEN e - s ELSE e - s + n
First(s, set) == CHOOSE e \in set : \A f \in set : Turn(s, e) <= Turn(s, f)
Following(s) == IF s < n THEN s + 1 ELSE 1

\* The window ends where the first peer that has any of it confirmed can check it.
corroborated_window_end(s, from, to, heads) ==
  LET able == {e \in DOMAIN heads : heads[e] - Confirmations >= from}
  IN  IF able = {} THEN None ELSE clamp_scan_window(from, to, heads[First(s, able)])

\* Two different logs at one position, which dedupe_logs refuses; a second copy it drops.
Conflict(a) == \E x, y \in a.logs : x # y /\ x.block = y.block /\ x.index = y.index

\* A position that holds two logs, alike or not: nothing an honest node returns.
duplicate_positions(a) == a.twice \/ Conflict(a)

tally_OneIsEnough(s, served, answers) ==
  IF \E e \in DOMAIN answers : answers[e] = served THEN [verdict |-> "Agreed"]
  ELSE IF DOMAIN answers = {} THEN [verdict |-> "Agreed"]
  ELSE [verdict |-> "Disagreed", promote |-> {}]

\* The served logs need a strict majority of all that answered, the serving endpoint counted.
\* A different majority is named, and one of it, other than the first to dissent, is to serve.
tally(s, served, answers) ==
  LET total == Cardinality(DOMAIN answers) + 1
      for == {e \in DOMAIN answers : answers[e] = served}
      rivals == {e \in DOMAIN answers \ for :
                   2 * Cardinality(Backers(answers, answers[e])) > total}
  IN  IF DOMAIN answers = {} THEN [verdict |-> "NoAnswer"]
      ELSE IF 2 * (1 + Cardinality(for)) > total THEN [verdict |-> "Agreed"]
      ELSE [verdict |-> "Disagreed", promote |-> rivals \ {First(s, DOMAIN answers \ for)}]

-----------------------------------------------------------------------------
\* scan_source -----------------------------------------------------------------
\* A source configured with a second endpoint does not start on one.
may_start(healthy) == healthy >= min_agree(configured)

\* The endpoints are probed once; what the probe drops stays dropped.
connect_for_gate ==
  /\ n = 0
  /\ \E healthy \in 1 .. configured : may_start(healthy) /\ n' = healthy
  /\ UNCHANGED <<configured, domain, liar, stuck, height, active, cursor, cached, cap, window, batch,
                 scales, signed, withheld, faults>>

\* The generation every submissionId is recomputed under is what the endpoints agree on; until
\* they do nothing is scanned.
read_domain ==
  /\ n > 0 /\ domain = None
  /\ \E down \in Unreachable(n) : \E said \in Said(1 .. n, {Domain}, {Domain, Domain + 1, Fail}) :
       /\ Cost(down)
       /\ LET agreed == read_agreed(said, down, min_agree(configured))
          IN  domain' \in IF agreed = {} THEN {None} ELSE agreed
  /\ UNCHANGED <<configured, n, liar, stuck, height, active, cursor, cached, cap, window, batch,
                 scales, signed, withheld>>

Idle == domain # None /\ window = None /\ batch = None
NeedsHead == cached # None => cursor + Confirmations > cached

trails_IfDown(heads, head) == active \notin DOMAIN heads
trails(heads, head) == active \in DOMAIN heads => heads[active] + HEAD_LAG_ROTATE < head

\* Every endpoint is asked for its head; one that trails the majority's by too much no longer
\* serves.
scan_head ==
  /\ Idle /\ NeedsHead
  /\ \E down \in Unreachable(n) : \E said \in Heads :
       LET heads == ask_all(said, down)
           up == DOMAIN heads
           head == majority_floor(heads)
           ahead == {e \in up \ {active} : heads[e] >= head}
       IN  /\ Cost(down)
           /\ IF up = {} THEN UNCHANGED <<cached, active>>
              ELSE /\ cached' = head
                   /\ active' = IF trails(heads, head) /\ ahead # {} THEN First(active, ahead) ELSE active
  /\ UNCHANGED <<fixed, height, cursor, cap, window, batch, scales, signed, withheld>>

\* The active endpoint, or the first after it that answers.
with_failover(up) == IF active \in up THEN active ELSE First(active, up)

\* The end of the range to ask for, by the head that is cached.
to_block == Lower(cached - Confirmations, cursor + cap - 1)

\* get_logs_corroborated as far as the heads: who serves, and where the window ends.
Serve ==
  /\ Idle /\ ~ NeedsHead
  /\ \E down \in Unreachable(n) : \E said \in Heads :
       LET up == DOMAIN ask_all(said, down)
           s == with_failover(up)
           serving == clamp_scan_window(cursor, to_block, said[s])
           peers == [e \in up \ {s} |-> said[e]]
           end == corroborated_window_end(s, cursor, serving, peers)
       IN  /\ Cost(down)
           /\ IF up = {} THEN UNCHANGED <<active, cached, cap, window>>
              ELSE /\ active' = s
                   /\ cached' = IF serving = None THEN None ELSE cached
                   /\ cap' = IF serving # None /\ n > 1 /\ end = None THEN Higher(cap \div 2, 1)
                             ELSE cap
                   /\ window' = IF serving = None \/ (n > 1 /\ end = None) THEN None
                                ELSE [to |-> IF n = 1 THEN serving ELSE end, heads |-> peers]
  /\ UNCHANGED <<fixed, height, cursor, batch, scales, signed, withheld>>

\* The logs of the window are fetched from the serving endpoint and compared: the first peer's
\* agreement is enough, its dissent is put to all who have the window confirmed.
Judge(served, answers) ==
  LET able == {e \in DOMAIN window.heads : window.heads[e] - Confirmations >= window.to}
      asked == {e \in able : answers[e].ok}
      first == First(active, asked)
      heard == IF asked # {} /\ answers[first] = served THEN {first} ELSE asked
  IN  tally(active, served, [e \in heard |-> answers[e]])

\* One of an outvoting majority serves from now on; a split promotes nobody.
promote(to) == active' \in IF to = {} THEN {active} ELSE to

Withhold == window' = None /\ UNCHANGED batch

get_logs_corroborated ==
  /\ window # None /\ batch = None
  /\ \E down \in Unreachable(n) : \E said \in Answers(cursor, window.to) :
       LET answers == [e \in 1 .. n |-> IF e \in down THEN NoAnswer ELSE said[e]]
           served == answers[active]
           v == Judge(served, answers)
       IN  /\ Cost(down)
           /\ IF ~ served.ok \/ (n > 1 /\ duplicate_positions(served))
              THEN active' = Following(active) /\ Withhold /\ UNCHANGED cap
              ELSE IF n = 1
              THEN /\ UNCHANGED <<active, cap>>
                   /\ IF require \/ Conflict(served) THEN Withhold
                      ELSE batch' = served.logs /\ UNCHANGED window
              ELSE \/ /\ v.verdict = "NoAnswer" /\ Withhold
                      /\ cap' = Higher(cap \div 2, 1) /\ UNCHANGED active
                   \/ /\ v.verdict = "Agreed" /\ batch' = served.logs
                      /\ cap' = Lower(cap * 2, max_block_range) /\ UNCHANGED <<active, window>>
                   \/ /\ v.verdict = "Disagreed" /\ Withhold
                      /\ promote(v.promote) /\ UNCHANGED cap
  /\ UNCHANGED <<fixed, height, cursor, cached, scales, signed, withheld>>

\* The next log of an agreed window: the destination's scale decides.  What the destination did not
\* settle fails the batch, and the cursor stays.  Under a wrong domain no id matches, and the
\* log is skipped.
ScaleVerdict_Any(d, v) == "Agree"
ScaleVerdict(d, v) ==
  IF v = SourceScale THEN "Agree" ELSE IF v = None THEN "Unknown" ELSE "Mismatch"

Earlier(x, y) == x.block < y.block \/ (x.block = y.block /\ x.index < y.index)

Verdict(log) ==
  LET d == IF log.real THEN Event[log.block] ELSE CHOOSE x \in Dest : TRUE
      known == scales[d] # None
  IN  /\ \A other \in batch \ {log} : Earlier(log, other)
      /\ \E down \in Unreachable(N) : \E said \in ScaleAnswers(d) :
           LET agreed == IF known THEN {scales[d]} ELSE destination_scale(d, said, down)
           IN  /\ known => down = {}
               /\ Cost(down)
               /\ IF agreed = {}
                  THEN batch' = None /\ window' = None /\ UNCHANGED <<scales, signed, withheld>>
                  ELSE \E v \in agreed :
                    /\ batch' = batch \ {log}
                    /\ scales' = [scales EXCEPT ![d] = v]
                    /\ IF domain = Domain /\ ScaleVerdict(d, v) = "Agree"
                       THEN signed' = signed \cup {log} /\ UNCHANGED withheld
                       ELSE withheld' = withheld \cup {log} /\ UNCHANGED signed
                    /\ UNCHANGED window
      /\ UNCHANGED <<fixed, height, active, cursor, cached, cap>>

verdict == batch # None /\ \E log \in batch : Verdict(log)

\* The batch is done: the cursor moves past the window.
CloseWindow ==
  /\ batch = {}
  /\ cursor' = window.to + 1 /\ window' = None /\ batch' = None
  /\ UNCHANGED <<fixed, height, active, cached, cap, scales, signed, withheld, faults>>

Grow ==
  /\ height < MaxBlock /\ height' = height + 1
  /\ UNCHANGED <<fixed, active, cursor, cached, cap, window, batch, scales, signed, withheld,
                 faults>>

Scan == connect_for_gate \/ read_domain \/ scan_head \/ Serve \/ get_logs_corroborated \/ verdict \/ CloseWindow
CorroborationNext == Scan \/ Grow

-----------------------------------------------------------------------------
\* With at most one lying endpoint, of the source and of the destination, a validator signs
\* only transfers that were really sent and are confirmed, and only to a destination that
\* counts alike.
SignedIsReal ==
  \A log \in signed : /\ log \in Truth(1, height - Confirmations)
                      /\ Scale[Event[log.block]] = SourceScale

\* ... and passes over no transfer it should have signed: a liar can delay a window and not
\* empty it, nor have a good destination taken for a bad one.
NothingPassedOver ==
  \A b \in DOMAIN Event :
     b < cursor /\ Scale[Event[b]] = SourceScale => Log(b, 0, TRUE) \in signed

\* With three endpoints, one whose head is stuck, too low or too high, does not stop the scan,
\* whether it serves or checks and whatever logs it returns: everything the others have had
\* confirmed for a while is scanned in the end.
Reach == MaxBlock - Confirmations - MaxLag - HEAD_LAG_ROTATE
StuckCannotStall == (n >= 3 /\ (liar # 0 => stuck # None)) ~> (cursor > Reach)
=============================================================================
