----------------------------- MODULE SwapRouter -----------------------------
(***************************************************************************)
(* The SwapRouter contract (contracts/src/SwapRouter.sol), which holds the *)
(* stable of transfers on their way: of an Incoming one between the gate's *)
(* claim and the swap into the token its receiver wants, of an Outgoing    *)
(* one between the gate's refund and its sender.                           *)
(*                                                                         *)
(* The stable is fungible and the contract knows an incoming transfer only *)
(* once finalize has seen it, so its books (owedStable, stableSettledOut)  *)
(* and the owner's rescue decide together what is whose.  The pool is one  *)
(* flag, whether a swap of the final token would fail now, for whatever    *)
(* reason: not being quotable and failing anyway end in the same branch.   *)
(* Amounts are those the claim released; gas, routes, ownership and the    *)
(* rescue of other tokens are left out.  A reverting call is no step.      *)
(***************************************************************************)
EXTENDS Integers, FiniteSets, Functions

CONSTANTS
  Incoming, Outgoing,    \* transfers into this router, and out of it
  Traffic,               \* sets of transfers that occur together
  Worth,                 \* transfer -> its stable
  Intent,                \* incoming transfer -> "stable", "token" or "malformed"
  Sizes,                 \* amounts an owner may try to sweep
  FALLBACK_GRACE, STABLE_RESCUE_DELAY, STABLE_RESCUE_WINDOW,
  MaxTime,               \* bound: timestamp
  MaxBlockages           \* bound: times the swap becomes impossible

ASSUME RouterAssumption ==
  /\ Incoming \cap Outgoing = {} /\ IsFiniteSet(Incoming \cup Outgoing)
  /\ Traffic \subseteq SUBSET (Incoming \cup Outgoing)
  /\ Worth \in [Incoming \cup Outgoing -> Nat \ {0}]
  /\ \A t \in Incoming : Intent[t] \in {"stable", "token", "malformed"}
  /\ FALLBACK_GRACE \in Nat \ {0} /\ STABLE_RESCUE_DELAY \in Nat /\ STABLE_RESCUE_WINDOW \in Nat
  /\ Sizes \subseteq Nat

Caller == {"receiver", "owner", "guardian", "anyone"}

VARIABLES
  traffic,             \* the transfers of this behaviour
  transit,             \* per transfer, where the gates have it
  held,                \* the router's balance of the stable
  finalized,
  deferredSince,       \* per incoming transfer; 0 for never
  owedStable, stableSettledOut,
  refundOf,            \* outgoing transfers whose sender is recorded
  pendingStableRescue,
  clock,               \* block.timestamp
  blocked,             \* would the swap fail now?
  blockages,
  fellBack,            \* history: <<transfer, caller>> of a delivery in stable instead
  exposed,             \* history: what the latest notice counted as free
  swept                \* history: has a rescue been paid?

books == <<finalized, deferredSince, owedStable, stableSettledOut, fellBack>>
rescueVars == <<pendingStableRescue, exposed, swept>>
world == <<clock, blocked, blockages>>
routerVars == <<traffic, transit, held, books, refundOf, rescueVars, world>>

NoRescue == [readyAt |-> 0, scheduledAt |-> 0]

RouterInit ==
  /\ traffic \in Traffic
  /\ transit = [t \in traffic |-> "open"]
  /\ held = 0 /\ finalized = {} /\ deferredSince = [t \in Incoming |-> 0]
  /\ owedStable = 0 /\ stableSettledOut = 0
  /\ refundOf = {} /\ pendingStableRescue = NoRescue
  /\ clock = 1 /\ blocked \in BOOLEAN /\ blockages = 0
  /\ fellBack = {} /\ exposed = {} /\ swept = FALSE

-----------------------------------------------------------------------------
(* Around the router: its gate, the pool, time.                            *)

\* The gate pays a quorum's claim into the router, or burns its slot.
gate_claim(t) ==
  /\ t \in Incoming /\ transit[t] = "open"
  /\ transit' = [transit EXCEPT ![t] = "executed"]
  /\ held' = held + Worth[t]
  /\ UNCHANGED <<traffic, books, refundOf, rescueVars, world>>

gate_cancel(t) ==
  /\ t \in Incoming /\ transit[t] = "open"
  /\ transit' = [transit EXCEPT ![t] = "cancelled"]
  /\ UNCHANGED <<traffic, held, books, refundOf, rescueVars, world>>

gate_refund(t) ==
  /\ t \in Outgoing /\ transit[t] = "sent"
  /\ transit' = [transit EXCEPT ![t] = "refunded"]
  /\ held' = held + Worth[t]
  /\ UNCHANGED <<traffic, books, refundOf, rescueVars, world>>

\* The pool is paused, drained or priced away, or none of it any more.
PoolMoves ==
  /\ blocked \/ blockages < MaxBlockages
  /\ blocked' = ~ blocked
  /\ blockages' = IF blocked THEN blockages ELSE blockages + 1
  /\ UNCHANGED <<traffic, transit, held, books, refundOf, rescueVars, clock>>

Tick ==
  /\ clock < MaxTime /\ clock' = clock + 1
  /\ UNCHANGED <<traffic, transit, held, books, refundOf, rescueVars, blocked, blockages>>

-----------------------------------------------------------------------------
(* The source leg.  What the router pulls in it locks at the gate in the   *)
(* same call.                                                              *)

swapAndBridge(t) ==
  /\ t \in Outgoing /\ transit[t] = "open"
  /\ transit' = [transit EXCEPT ![t] = "sent"]
  /\ refundOf' = refundOf \cup {t}
  /\ UNCHANGED <<traffic, held, books, rescueVars, world>>

\* The sender is paid and a pending rescue's cap debited.
PayRefund(t, stable) ==
  /\ t \in refundOf /\ stable >= Worth[t]
  /\ refundOf' = refundOf \ {t}
  /\ stableSettledOut' = stableSettledOut + Worth[t]
  /\ held' = stable - Worth[t]
  /\ UNCHANGED <<traffic, finalized, deferredSince, owedStable, fellBack, rescueVars, world>>

forwardRefund(t) ==
  /\ t \in Outgoing /\ transit[t] = "refunded"
  /\ PayRefund(t, held)
  /\ UNCHANGED transit

refundAndForward(t) ==
  /\ t \in Outgoing /\ transit[t] = "sent"
  /\ transit' = [transit EXCEPT ![t] = "refunded"]
  /\ PayRefund(t, held + Worth[t])

-----------------------------------------------------------------------------
(* The destination leg.                                                    *)

mayFallBack(by) == by \in {"receiver", "owner", "guardian"}

GraceIsOver(t) == deferredSince[t] # 0 /\ clock >= deferredSince[t] + FALLBACK_GRACE

debits_Never(since) == FALSE

\* Does a settlement debit the cap of the pending rescue?  Not if the stable was owed before
\* the notice, and so never free.
debits(since) ==
  LET noticed == pendingStableRescue.scheduledAt
  IN  since = 0 \/ noticed = 0 \/ since >= noticed

\* A terminal outcome.
Deliver(t, stable) ==
  /\ stable >= Worth[t]
  /\ held' = stable - Worth[t]
  /\ finalized' = finalized \cup {t}
  /\ owedStable' = IF deferredSince[t] # 0 THEN owedStable - Worth[t] ELSE owedStable
  /\ stableSettledOut' = IF debits(deferredSince[t]) THEN stableSettledOut + Worth[t]
                                                     ELSE stableSettledOut
  /\ UNCHANGED deferredSince

\* The clock starts once, and the debt is booked once.
deferOrFallBack(t, by, stable) ==
  IF GraceIsOver(t) /\ mayFallBack(by)
  THEN Deliver(t, stable) /\ fellBack' = fellBack \cup {<<t, by>>}
  ELSE /\ deferredSince' = [deferredSince EXCEPT ![t] = IF @ = 0 THEN clock ELSE @]
       /\ owedStable' = IF deferredSince[t] = 0 THEN owedStable + Worth[t] ELSE owedStable
       /\ held' = stable
       /\ UNCHANGED <<finalized, stableSettledOut, fellBack>>

\* A swap the router cannot fund fails in the pool.
settle(t, by, stable) ==
  /\ t \notin finalized /\ Intent[t] # "malformed"
  /\ IF Intent[t] = "token" /\ (blocked \/ stable < Worth[t])
     THEN deferOrFallBack(t, by, stable)
     ELSE Deliver(t, stable) /\ UNCHANGED fellBack
  /\ UNCHANGED <<traffic, refundOf, rescueVars, world>>

isDelivered_Executed(t) == transit[t] \in {"executed", "cancelled"}

\* executed alone is not delivery: a cancel sets it too.
isDelivered(t) == transit[t] = "executed"

finalize(t, by) ==
  /\ t \in Incoming /\ isDelivered(t)
  /\ settle(t, by, held)
  /\ UNCHANGED transit

claimAndFinalize(t, by) ==
  /\ t \in Incoming /\ transit[t] = "open"
  /\ transit' = [transit EXCEPT ![t] = "executed"]
  /\ settle(t, by, held + Worth[t])

-----------------------------------------------------------------------------
(* The rescue of stranded stable.                                          *)

free == IF held > owedStable THEN held - owedStable ELSE 0

\* Stable in the router that belongs to somebody, of which what finalize has not seen, and
\* refunds, count as free.
Due == {t \in traffic \cap Incoming : transit[t] = "executed" /\ t \notin finalized
                                      /\ Intent[t] # "malformed"}
         \cup {t \in traffic \cap refundOf : transit[t] = "refunded"}
Unseen == {t \in Due : t \in Outgoing \/ deferredSince[t] = 0}

scheduleStableRescue(x) ==
  /\ x > 0 /\ x <= free
  /\ pendingStableRescue' =
       [amount |-> x, readyAt |-> clock + STABLE_RESCUE_DELAY, freeAtSchedule |-> free,
        scheduledAt |-> clock, settledOutAtSchedule |-> stableSettledOut]
  /\ exposed' = Unseen
  /\ UNCHANGED <<traffic, transit, held, books, refundOf, swept, world>>

\* The owner or the guardian.
cancelStableRescue ==
  /\ pendingStableRescue.readyAt # 0
  /\ pendingStableRescue' = NoRescue
  /\ UNCHANGED <<traffic, transit, held, books, refundOf, exposed, swept, world>>

\* What was free at the notice less what was settled since.
stillFree(r) ==
  LET settledSince == stableSettledOut - r.settledOutAtSchedule
  IN  IF r.freeAtSchedule > settledSince THEN r.freeAtSchedule - settledSince ELSE 0

executeStableRescue ==
  LET r == pendingStableRescue IN
  /\ r.readyAt # 0 /\ clock >= r.readyAt /\ clock <= r.readyAt + STABLE_RESCUE_WINDOW
  /\ r.amount <= free /\ r.amount <= stillFree(r)
  /\ pendingStableRescue' = NoRescue
  /\ held' = held - r.amount
  /\ swept' = TRUE
  /\ UNCHANGED <<traffic, transit, books, refundOf, exposed, world>>

-----------------------------------------------------------------------------
Gates(t) == gate_claim(t) \/ gate_cancel(t) \/ gate_refund(t) \/ swapAndBridge(t)
Users(t) ==
  \/ forwardRefund(t) \/ refundAndForward(t)
  \/ \E by \in Caller : finalize(t, by) \/ claimAndFinalize(t, by)
Owner == (\E x \in Sizes : scheduleStableRescue(x)) \/ cancelStableRescue \/ executeStableRescue

RouterNext ==
  \/ \E t \in traffic : Gates(t) \/ Users(t)
  \/ Owner \/ PoolMoves \/ Tick

RouterSpec == RouterInit /\ [][RouterNext]_routerVars

-----------------------------------------------------------------------------
Total(S) == SumFunctionOnSet(Worth, S)

\* owedStable is what has been deferred and not delivered, and until the owner has swept
\* something, the router holds the stable of everything claimed or refunded into it: a
\* cancelled slot, a second finalize or a deferred one takes nobody else's.
RouterIsSolvent ==
  /\ owedStable = Total({t \in Due \cap Incoming : deferredSince[t] # 0})
  /\ ~ swept => held >= Total(Due)

\* executeStableRescue: a sweep of a solvent router leaves enough for everything that was owed
\* at its notice or came after it, whatever was settled, deferred or replaced in between, and
\* enough for everything that is owed now.
SweepIsBounded ==
  [][swept' /\ ~ swept => held' >= Total(Due \ exposed) /\ held' >= owedStable]_routerVars

\* Both of these.
RouterKeepsFaith == []RouterIsSolvent /\ SweepIsBounded

\* What the comment on stableSettledOut says of the rescue: any finalize call in the window
\* protects a transfer, and the sweep never takes a later arrival.  So it leaves enough for
\* everything but the transfers that were there at the notice and that no finalize has seen.
FinalizeProtects ==
  [][swept' /\ ~ swept => held' >= Total(Due \ (exposed \cap Unseen))]_routerVars
=============================================================================
