------------------------------ MODULE SwapPool ------------------------------
(* The oracle-priced swap pool and the keeper that prices it: the Solana    *)
(* program (solana-swap), its arithmetic (swap-math), the plan both price   *)
(* keepers share (swap-math/refresh.rs) and their loops (price-keeper for   *)
(* EVM pools, solana-price-keeper for Solana).  One token is traded against *)
(* the hub, whose price is fixed.  The EVM pool differs here in two guards: *)
(* it bounds a price step by the fee as well, where the Solana program      *)
(* leaves that to its keeper, and a maxPriceAge of zero switches its        *)
(* staleness check off, where the Solana program refuses a zero.            *)
(*                                                                          *)
(* The endpoint the keeper reads from may lie about the price and the fee.  *)
(* Times are ages, saturated past the longest bound.                        *)
EXTENDS Integers, FiniteSets, FiniteSetsExt

CONSTANTS
  PRICE_ONE, BPS_DENOM, MAX_FEE_BPS,
  Unit,                    \* token -> 10^decimals
  Prices,                  \* prices an endpoint may report
  Fees, Deviations, Intervals, Ages,   \* what the owner may set
  margin,                  \* seconds before staleness at which to refresh
  Seeds, Stakes,           \* token -> reserve, token -> the trader's stake
  MaxAdmin, MaxFaults, MaxInFlight

Token == {"hub", "tok"}

ASSUME PoolAssumption ==
  /\ PRICE_ONE \in Nat \ {0} /\ BPS_DENOM \in Nat \ {0} /\ MAX_FEE_BPS \in 0..BPS_DENOM
  /\ \A t \in Token : Unit[t] \in Nat \ {0} /\ Stakes[t] \in Nat
  /\ Seeds \in [Token -> Nat] /\ Prices \subseteq Nat /\ Fees \subseteq Nat
  /\ \A d \in Deviations : d \in 1..BPS_DENOM
  /\ Ages \subseteq Nat /\ \E s \in Ages : s > 0

VARIABLES
  vm,          \* "evm" or "solana"
  target,      \* the price the keeper is configured to keep
  pool,        \* fee, dev, interval, max_age, paused, oracle
  price, price_age, last,    \* the token's price, its age, time since a reprice
  reserve,     \* token -> the pool's reserve
  keeper,      \* "idle", "planned" (the plan in `draft`) or "await"
  draft,       \* the plan, or the transaction awaited
  tracked,     \* transactions whose receipt never came
  txs,         \* setPrice transactions in flight
  trader,      \* one round trip
  admin, faults

config == <<vm, target>>
token == <<price, price_age, last>>
oracle == <<keeper, draft, tracked>>
poolVars == <<config, pool, token, reserve, oracle, txs, trader, admin, faults>>

Older(t, bound) == IF t < bound THEN t + 1 ELSE t
Nothing == [from |-> 0, price |-> 0, fee |-> 0]

-----------------------------------------------------------------------------
(* Arithmetic.                                                              *)

mul_div_floor(a, b, d) == (a * b) \div d
mul_div_ceil(a, b, d) == (a * b + d - 1) \div d

PriceOf(t) == IF t = "hub" THEN PRICE_ONE ELSE price

\* Every rounding is against the user.
payout_Ceil(usd, out) == mul_div_ceil(usd, Unit[out], PriceOf(out))
payout(usd, out) == mul_div_floor(usd, Unit[out], PriceOf(out))
amount_out(amount, in, out, fee) ==
  LET usd == mul_div_floor(amount, PriceOf(in), Unit[in])
  IN  payout(usd - mul_div_ceil(usd, fee, BPS_DENOM), out)

-----------------------------------------------------------------------------
(* The pool.                                                                *)

\* No bound: only an EVM pool can be told so.
unbounded == vm = "evm" /\ pool.max_age = 0
price_is_fresh == unbounded \/ price_age <= pool.max_age

process_swap(in, out, amount, got) ==
  /\ ~pool.paused /\ in /= out /\ amount > 0
  /\ price_is_fresh
  /\ got = amount_out(amount, in, out, pool.fee) /\ got > 0
  /\ got <= reserve[out]                                   \* the lock
  /\ reserve' = [reserve EXCEPT ![in] = @ + amount, ![out] = @ - got]

\* Owner only.  What arrives is credited, what leaves is debited first.
process_liquidity(t, amount, inward) ==
  /\ admin < MaxAdmin /\ admin' = admin + 1
  /\ amount > 0 /\ (inward \/ amount <= reserve[t])
  /\ reserve' = [reserve EXCEPT ![t] = IF inward THEN @ + amount ELSE @ - amount]
  /\ UNCHANGED <<config, pool, token, oracle, txs, trader, faults>>

\* The fee a round trip meets: how often it changed under one.
set_fee(f) ==
  /\ f <= MAX_FEE_BPS /\ pool' = [pool EXCEPT !.fee = f]
  /\ trader' = [trader EXCEPT !.refees = IF trader.at = "in" THEN @ + 1 ELSE @]

\* Owner only, within the bounds Init holds its own arguments to.
process_set_role ==
  /\ admin < MaxAdmin /\ admin' = admin + 1
  /\ \/ \E f \in Fees : set_fee(f)
     \/ /\ \/ \E d \in Deviations : pool' = [pool EXCEPT !.dev = d]
           \/ \E s \in Ages : (vm = "evm" \/ s > 0) /\ pool' = [pool EXCEPT !.max_age = s]
           \/ \E s \in Intervals : pool' = [pool EXCEPT !.interval = s]
           \/ \E b \in BOOLEAN : pool' = [pool EXCEPT !.oracle = b]
        /\ UNCHANGED trader
  /\ pool' /= pool
  /\ UNCHANGED <<config, token, reserve, oracle, txs, faults>>

\* The guardian may only stop the pool.
process_set_paused ==
  /\ admin < MaxAdmin /\ admin' = admin + 1
  /\ pool' = [pool EXCEPT !.paused = ~@]
  /\ UNCHANGED <<config, token, reserve, oracle, txs, trader, faults>>

\* The chain's cap on a step.
priceStepCapBps == IF vm = "evm" /\ pool.fee < pool.dev THEN pool.fee ELSE pool.dev

expected_Any(tx) == TRUE
expected(tx) == tx.from = price
Distance(a, b) == IF a > b THEN a - b ELSE b - a

may_set_price(tx) ==
  /\ pool.oracle /\ tx.price > 0
  /\ expected(tx)
  /\ last >= pool.interval
  /\ Distance(tx.price, price) <= mul_div_floor(price, priceStepCapBps, BPS_DENOM)

\* A setPrice transaction is executed: it lands or reverts.
process_set_price(tx) ==
  /\ tx \in txs /\ txs' = txs \ {tx}
  /\ IF may_set_price(tx)
     THEN /\ price' = tx.price /\ price_age' = 0 /\ last' = 0
          /\ trader' = [trader EXCEPT !.moves = IF trader.at = "in" /\ tx.price /= price THEN @ + 1 ELSE @,
                                      !.slip = @ \/ tx.fee /= pool.fee]
     ELSE UNCHANGED <<token, trader>>
  /\ IF keeper = "await" /\ draft = tx
     THEN keeper' = "idle" /\ draft' = Nothing ELSE UNCHANGED <<keeper, draft>>
  /\ UNCHANGED <<config, pool, reserve, tracked, admin, faults>>

Tick ==
  /\ price_age' = Older(price_age, Max(Ages) + 1) /\ last' = Older(last, Max(Intervals))
  /\ UNCHANGED <<config, pool, price, reserve, oracle, txs, trader, admin, faults>>

-----------------------------------------------------------------------------
(* The keeper.                                                              *)

\* The fee bounds the step: a round trip around one update must not pay.
step_cap_bps_Deviation(fee) == pool.dev
step_cap_bps(fee) == IF fee < pool.dev THEN fee ELSE pool.dev

due == ~unbounded /\ price_age >= (IF pool.max_age > margin THEN pool.max_age - margin ELSE 0)

plan(seen, fee) ==
  LET cap == mul_div_floor(seen, step_cap_bps(fee), BPS_DENOM)
      next == IF Distance(seen, target) <= cap THEN target
              ELSE IF target > seen THEN seen + cap ELSE seen - cap
  IN  IF (seen = target /\ ~due) \/ last < pool.interval \/ (next = seen /\ ~due) THEN Nothing
      ELSE [from |-> seen, price |-> next, fee |-> fee]

\* One token's turn of a tick; a lie is a price or a fee that is not there.
refresh_token(seen, fee) ==
  /\ keeper = "idle" /\ pool.oracle
  /\ LET lies == (IF seen = price THEN 0 ELSE 1) + (IF fee = pool.fee THEN 0 ELSE 1)
     IN  faults + lies <= MaxFaults /\ faults' = faults + lies
  /\ plan(seen, fee) /= Nothing
  /\ keeper' = "planned" /\ draft' = plan(seen, fee)
  /\ UNCHANGED <<config, pool, token, reserve, tracked, txs, trader, admin>>

\* EVM: a remembered transaction that may still be in flight holds the next
\* one back, until a probe finds it mined or gone.
may_submit_Forgotten == tracked = {}
may_submit == tracked \cap txs = {}
submit ==
  /\ keeper = "planned" /\ (vm = "evm" => may_submit)
  /\ Cardinality(txs \cup {draft}) <= MaxInFlight
  /\ txs' = txs \cup {draft} /\ keeper' = "await" /\ tracked' = {}
  /\ UNCHANGED <<config, pool, token, reserve, draft, trader, admin, faults>>

InFlight ==
  /\ keeper = "planned" /\ vm = "evm" /\ ~may_submit
  /\ keeper' = "idle" /\ draft' = Nothing
  /\ UNCHANGED <<config, pool, token, reserve, tracked, txs, trader, admin, faults>>

\* No receipt in time.  Only the EVM keeper remembers the transaction.
receipt_timeout ==
  /\ keeper = "await" /\ keeper' = "idle" /\ draft' = Nothing
  /\ tracked' = IF vm = "evm" THEN tracked \cup {draft} ELSE tracked
  /\ UNCHANGED <<config, pool, token, reserve, txs, trader, admin, faults>>

Drop(tx) ==
  /\ tx \in txs /\ faults < MaxFaults
  /\ txs' = txs \ {tx} /\ faults' = faults + 1
  /\ UNCHANGED <<config, pool, token, reserve, oracle, trader, admin>>

Restart ==
  /\ faults < MaxFaults /\ <<keeper, tracked>> /= <<"idle", {}>>
  /\ faults' = faults + 1 /\ keeper' = "idle" /\ draft' = Nothing /\ tracked' = {}
  /\ UNCHANGED <<config, pool, token, reserve, txs, trader, admin>>

-----------------------------------------------------------------------------
(* A trader: all of the stake in, and all that came of it back.             *)

Other(t) == IF t = "hub" THEN "tok" ELSE "hub"

Enter ==
  /\ trader.at = "out" /\ trader.held = Stakes[trader.base]
  /\ \E got \in 1..reserve[Other(trader.base)] :
       /\ process_swap(trader.base, Other(trader.base), trader.held, got)
       /\ trader' = [trader EXCEPT !.at = "in", !.held = got, !.slip = FALSE]
  /\ UNCHANGED <<config, pool, token, oracle, txs, admin, faults>>

Leave ==
  /\ trader.at = "in"
  /\ \E got \in 1..reserve[trader.base] :
       /\ process_swap(Other(trader.base), trader.base, trader.held, got)
       /\ trader' = [trader EXCEPT !.at = "done", !.held = got]
  /\ UNCHANGED <<config, pool, token, oracle, txs, admin, faults>>

Greatest(S) == {x \in S : \A y \in S : y <= x}
Extreme(S) == Greatest(S) \cup {x \in S : \A y \in S : x <= y}

PoolInit ==
  /\ vm \in {"evm", "solana"}
  /\ target \in Extreme(Prices \ {0}) /\ price \in Extreme(Prices \ {0})
  /\ pool \in [fee : {f \in Fees : f <= MAX_FEE_BPS}, dev : Greatest(Deviations), interval : Greatest(Intervals),
               max_age : Greatest(Ages), paused : {FALSE}, oracle : {TRUE}]
  /\ price_age = 0 /\ last = pool.interval
  /\ reserve = Seeds
  /\ keeper = "idle" /\ draft = Nothing /\ tracked = {} /\ txs = {}
  /\ \E b \in Token :
       trader = [base |-> b, at |-> "out", held |-> Stakes[b], moves |-> 0, refees |-> 0, slip |-> FALSE]
  /\ admin = 0 /\ faults = 0

Admin ==
  \/ \E t \in Token : process_liquidity(t, 1, TRUE) \/ process_liquidity(t, reserve[t], FALSE)
  \/ process_set_role \/ process_set_paused

Keeper ==
  \/ \E seen \in Prices, fee \in Fees : refresh_token(seen, fee)
  \/ submit \/ InFlight

PoolNext ==
  \/ Admin \/ Keeper \/ receipt_timeout \/ Restart
  \/ \E tx \in txs : process_set_price(tx) \/ Drop(tx)
  \/ Tick \/ Enter \/ Leave

PoolSpec == PoolInit /\ [][PoolNext]_poolVars

\* The keeper's loop runs, time passes and a transaction that is not dropped
\* is executed.
PoolLiveSpec ==
  /\ PoolSpec
  /\ WF_poolVars(refresh_token(price, pool.fee)) /\ WF_poolVars(submit) /\ WF_poolVars(InFlight)
  /\ WF_poolVars(receipt_timeout) /\ WF_poolVars(Tick)
  /\ WF_poolVars(\E tx \in txs : process_set_price(tx))

-----------------------------------------------------------------------------
(* Properties.                                                              *)

\* The reserves at the pool's own prices, free of fractions.
Value == reserve["hub"] * PRICE_ONE * Unit["tok"] + reserve["tok"] * price * Unit["hub"]

\* No swap takes value out of the pool, down to the last fraction that the
\* conversion between two scales rounds (`amount_out`).
SwapsLoseNothing == [][price' = price /\ trader' /= trader => Value' >= Value]_poolVars

\* A round trip around one price update does not pay, however the update and
\* the two swaps interleave, while the fee is changed at most once between them
\* and, on Solana, the update lands under the fee it was planned with.
NoSandwich ==
  trader.at = "done" /\ trader.held > Stakes[trader.base]
    => trader.moves > 1 \/ trader.refees > 1 \/ (vm = "solana" /\ trader.slip)

\* No update, however old or however misled its plan, takes the price further
\* from the target than it was (`expected`).
StepsTowardTarget == [][Distance(price', target) <= Distance(price, target)]_poolVars

\* While the keeper holds the role and the fee leaves room to move, the price
\* reaches the target and is confirmed again and again.
PriceConverges ==
  <>[](pool.oracle /\ pool.fee > 0) => []<>(price = target /\ price_is_fresh)

\* The price only ever moves toward the target, and arrives there (StepsTowardTarget and
\* PriceConverges: `expected` and the keeper's pending update).
PriceFollows == StepsTowardTarget /\ PriceConverges
=============================================================================
