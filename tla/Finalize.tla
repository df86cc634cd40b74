------------------------------ MODULE Finalize ------------------------------
(***************************************************************************)
(* How one delivery into the router reaches its receiver and how that is   *)
(* shown: the keeper's finalize queue (crates/keeper/src/finalize.rs, and  *)
(* the part of run_target that feeds it), and the record of the swap in    *)
(* the database, written by the indexers of both chains                    *)
(* (handle_router_log, bridge-db's record_swap_bridge_intent and           *)
(* record_finalized).                                                      *)
(*                                                                         *)
(* Entries of the queue do not touch each other but for PER_TICK, which    *)
(* takes the soonest first.  The delivery is above the claim floor and the *)
(* store is a database.  A keeper step is one await, a database step one   *)
(* statement; back-off and intervals are flags that time raises.  Copies   *)
(* of the keeper's transaction are one.                                    *)
(***************************************************************************)
EXTENDS SwapRouter

CONSTANTS
  Followed,      \* the delivery
  Deployments,   \* who is configured for routers, as [keeper, indexer, turns]
  MaxOutages     \* bound: failed calls and statements, lost transactions, crashes

\* The keeper finalizes ("anyone", or "guardian" if its account is the router's guardian) or
\* has no routers ("off"); the indexers follow the router or not, one at a time or not.
ASSUME FinalizeAssumption ==
  /\ Followed \in Incoming
  /\ Deployments \subseteq [keeper : {"anyone", "guardian", "off"}, indexer : BOOLEAN, turns : BOOLEAN]

VARIABLES
  setup,         \* this deployment
  at,            \* the keeper's step
  entry,         \* its queue entry: "none", "due", "waiting"
  seeded,        \* seeded_at: "never", "lately", "long ago"
  floating,      \* is a finalize transaction of it in the node's pool?
  receipt,       \* "none", "ok", "reverted"
  rowStatus,     \* of its submissions row: "pending", "claimed", "cancelled"
  intentRow,     \* its swap_bridges row: "none", "open", "finalized"
  parked,        \* is there a pending_finalize marker?
  writing,       \* the statements of the two indexers: "src" and "dst"
  collected, outages

keeperMemory == <<at, entry, seeded, receipt>>
swapRecord == <<intentRow, parked, writing, collected>>
finalizeVars == <<routerVars, setup, keeperMemory, floating, rowStatus, swapRecord, outages>>

FinalizeInit ==
  /\ RouterInit
  /\ setup \in Deployments /\ Followed \in traffic
  /\ at = "claims" /\ entry = "none" /\ seeded = "never" /\ receipt = "none"
  /\ floating = FALSE /\ rowStatus = "pending"
  /\ intentRow = "none" /\ parked = FALSE /\ writing = [c \in {"src", "dst"} |-> "wait"]
  /\ collected = FALSE /\ outages = 0

Outage == outages < MaxOutages /\ outages' = outages + 1

-----------------------------------------------------------------------------
(* The keeper: claims, then the seed, then what is due.                    *)

enqueue == IF entry = "none" THEN "due" ELSE entry

\* run_target's outcome of try_claim, for a transfer the work queue still lists: submitted,
\* executed already (a cancel counts), or neither.  The keeper's report of its claim is a note
\* and does not move the row.
claims ==
  /\ setup.keeper # "off"
  /\ at = "claims" /\ at' = "seed"
  /\ \/ /\ rowStatus = "pending" /\ gate_claim(Followed)
        /\ entry' = enqueue
     \/ /\ rowStatus = "pending" /\ transit[Followed] # "open"
        /\ entry' = enqueue /\ UNCHANGED routerVars
     \/ UNCHANGED <<routerVars, entry>>
  /\ UNCHANGED <<setup, seeded, receipt, floating, rowStatus, swapRecord, outages>>

seed_due_Once == seeded = "never"

seed_due == seeded # "lately"

\* The history's rows that were claimed and are not known to be finalized.
seed ==
  /\ at = "seed" /\ at' = "run"
  /\ IF seed_due
     THEN /\ seeded' = "lately"
          /\ \/ /\ entry' = IF rowStatus = "claimed" /\ intentRow # "finalized" THEN enqueue
                                                                               ELSE entry
                /\ UNCHANGED outages
             \/ UNCHANGED entry /\ Outage
     ELSE UNCHANGED <<seeded, entry, outages>>
  /\ UNCHANGED <<routerVars, setup, receipt, floating, rowStatus, swapRecord>>

Keep == UNCHANGED <<routerVars, setup, seeded, rowStatus, swapRecord>>

run ==
  /\ at = "run" /\ at' = IF entry = "due" THEN "finalized" ELSE "claims"
  /\ UNCHANGED <<entry, receipt, floating, outages>> /\ Keep

\* What finalize_one concluded: Done and Drop remove the entry, the rest backs off.
remove == at' = "claims" /\ entry' = "none"
back_off == at' = "claims" /\ entry' = "waiting"
Go(next) == at' = next /\ UNCHANGED entry

isOwnersAccount_Never == FALSE

isOwnersAccount == setup.keeper = "guardian"

\* The reads before the transaction, each an await of its own.
Read ==
  /\ \/ at = "finalized" /\ IF Followed \in finalized THEN remove ELSE Go("cancelled")
     \/ at = "cancelled" /\ IF transit[Followed] = "cancelled" THEN remove ELSE Go("executed")
     \/ at = "executed" /\ IF transit[Followed] = "open" THEN back_off ELSE Go("owner")
     \/ at = "owner" /\ IF isOwnersAccount THEN remove ELSE Go("send")
     \/ at = "check" /\ IF Followed \in finalized THEN remove ELSE back_off
  /\ UNCHANGED <<receipt, floating, outages>> /\ Keep

Reverts == ~ isDelivered(Followed) \/ Followed \in finalized \/ Intent[Followed] = "malformed"

\* A call that would revert fails before it is sent.
SendFinalize ==
  /\ at = "send"
  /\ IF Reverts THEN back_off /\ UNCHANGED <<floating, receipt>>
                ELSE Go("receipt") /\ floating' = TRUE /\ receipt' = "none"
  /\ UNCHANGED outages /\ Keep

Confirmed ==
  /\ at = "receipt" /\ receipt # "none"
  /\ IF receipt = "ok" THEN Go("check") ELSE back_off
  /\ receipt' = "none" /\ UNCHANGED <<floating, outages>> /\ Keep

\* The transaction is not remembered; it may still be included.
FinalizeTimeout ==
  /\ at = "receipt" /\ receipt = "none" /\ back_off
  /\ UNCHANGED <<receipt, floating, outages>> /\ Keep

CallFails ==
  /\ at \in {"finalized", "cancelled", "executed", "owner", "send", "receipt", "check"}
  /\ back_off /\ Outage
  /\ UNCHANGED <<receipt, floating>> /\ Keep

\* Included, and carried out as things then are; or lost from the pool.
LandFinalize ==
  /\ floating /\ floating' = FALSE
  /\ IF Reverts THEN receipt' = "reverted" /\ UNCHANGED routerVars
                ELSE receipt' = "ok" /\ finalize(Followed, setup.keeper)
  /\ UNCHANGED <<setup, at, entry, seeded, rowStatus, swapRecord, outages>>

Lose ==
  /\ floating /\ floating' = FALSE /\ Outage
  /\ UNCHANGED <<receipt, at, entry>> /\ Keep

\* The back-off is over, or the interval between two seeds.
BackOffEnds ==
  /\ entry = "waiting" /\ entry' = "due"
  /\ UNCHANGED <<at, receipt, floating, outages>> /\ Keep

IntervalEnds ==
  /\ seeded = "lately" /\ seeded' = "long ago"
  /\ UNCHANGED <<routerVars, setup, at, entry, receipt, floating, rowStatus, swapRecord,
                 outages>>

Restart ==
  /\ setup.keeper # "off" /\ Outage
  /\ at' = "claims" /\ entry' = "none" /\ seeded' = "never" /\ receipt' = "none"
  /\ UNCHANGED <<routerVars, setup, floating, rowStatus, swapRecord>>

Keeper == claims \/ seed \/ run \/ Read \/ SendFinalize \/ Confirmed \/ FinalizeTimeout

-----------------------------------------------------------------------------
(* The database.                                                           *)

Aside == UNCHANGED <<routerVars, setup, keeperMemory, floating>>

\* The row follows the destination gate's events, and no others.
IndexStatus ==
  /\ transit[Followed] # "open"
  /\ rowStatus' = IF transit[Followed] = "executed" THEN "claimed" ELSE "cancelled"
  /\ UNCHANGED <<swapRecord, outages>> /\ Aside

OtherSide(c) == IF c = "src" THEN "dst" ELSE "src"

\* SwapBridged was emitted before the delivery could be claimed; Finalized when it settled.
handle_router_log(c) ==
  /\ setup.indexer /\ writing[c] = "wait"
  /\ c = "dst" => Followed \in finalized
  /\ setup.turns => writing[OtherSide(c)] \in {"wait", "done"}
  /\ writing' = [writing EXCEPT ![c] = IF c = "src" THEN "insert" ELSE "update"]
  /\ UNCHANGED <<intentRow, parked, collected, rowStatus, outages>> /\ Aside

Then(c, next) == writing' = [writing EXCEPT ![c] = next]

record_swap_bridge_intent ==
  /\ writing.src = "insert"
  /\ intentRow' = IF intentRow = "none" THEN "open" ELSE intentRow
  /\ Then("src", "apply") /\ UNCHANGED parked

\* The update, the test that it lost a race, the marker, and the test that it lost another.
record_finalized ==
  \/ /\ writing.dst \in {"update", "retry"}
     /\ intentRow' = IF intentRow = "none" THEN "none" ELSE "finalized"
     /\ Then("dst", IF intentRow = "none" /\ writing.dst = "update" THEN "exists" ELSE "done")
     /\ UNCHANGED parked
  \/ /\ writing.dst = "exists"
     /\ Then("dst", IF intentRow = "none" THEN "park" ELSE "retry") /\ UNCHANGED <<intentRow, parked>>
  \/ /\ writing.dst = "park"
     /\ parked' = TRUE /\ Then("dst", "recheck") /\ UNCHANGED intentRow
  \/ /\ writing.dst = "recheck"
     /\ Then("dst", IF intentRow = "none" THEN "done" ELSE "apply") /\ UNCHANGED <<intentRow, parked>>

fold_NotOpen == intentRow

\* What a marker makes of the row.
fold == IF parked /\ intentRow = "open" THEN "finalized" ELSE intentRow

apply_pending_finalize(c) ==
  \/ /\ writing[c] = "apply"
     /\ intentRow' = fold /\ Then(c, "clear") /\ UNCHANGED parked
  \/ /\ writing[c] = "clear"
     /\ parked' = FALSE /\ Then(c, "done") /\ UNCHANGED intentRow

Write(c) ==
  /\ \/ c = "src" /\ record_swap_bridge_intent
     \/ c = "dst" /\ record_finalized
     \/ apply_pending_finalize(c)
  /\ UNCHANGED <<collected, rowStatus, outages>> /\ Aside

\* A failed statement ends the window, and its events come again.
WriteFails(c) ==
  /\ writing[c] \notin {"wait", "done"} /\ Outage
  /\ Then(c, "wait")
  /\ UNCHANGED <<intentRow, parked, collected, rowStatus>> /\ Aside

\* Long after, and with no row to apply it to.
gc_parked_markers ==
  /\ parked /\ intentRow = "none" /\ writing.dst = "done"
  /\ parked' = FALSE /\ collected' = TRUE
  /\ UNCHANGED <<intentRow, writing, rowStatus, outages>> /\ Aside

Recorder(c) == handle_router_log(c) \/ Write(c)

-----------------------------------------------------------------------------
\* The others: the gate's and the router's callers, the pool, and time once it counts.  An
\* account that the keeper holds calls nothing but what the keeper sends.
Around ==
  /\ \/ gate_claim(Followed) \/ gate_cancel(Followed) \/ PoolMoves
     \/ deferredSince[Followed] # 0 /\ Tick
     \/ \E by \in Caller \ (IF setup.keeper = "guardian" THEN {"guardian"} ELSE {}) :
          finalize(Followed, by) \/ claimAndFinalize(Followed, by)
  /\ UNCHANGED <<setup, keeperMemory, floating, rowStatus, swapRecord, outages>>

FinalizeNext ==
  \/ Keeper \/ CallFails \/ LandFinalize \/ Lose \/ BackOffEnds \/ IntervalEnds \/ Restart
  \/ IndexStatus \/ (\E c \in {"src", "dst"} : Recorder(c) \/ WriteFails(c)) \/ gc_parked_markers
  \/ Around

Reopens == blocked /\ Around /\ ~ blocked'

\* The keeper and the indexers run, time passes, transactions are included, and what blocks
\* the pool ends.
FinalizeSpec ==
  /\ FinalizeInit /\ [][FinalizeNext]_finalizeVars
  /\ WF_finalizeVars(Keeper) /\ WF_finalizeVars(LandFinalize)
  /\ WF_finalizeVars(BackOffEnds) /\ WF_finalizeVars(IntervalEnds)
  /\ WF_finalizeVars(IndexStatus) /\ WF_finalizeVars(Reopens)
  /\ \A c \in {"src", "dst"} : WF_finalizeVars(Recorder(c))

-----------------------------------------------------------------------------
\* What the queue is for: a delivery the gate has paid into the router is settled, through
\* restarts, lost and late transactions, claims by others and blocked swaps, unless it can
\* never be or the keeper may not.
DeliveriesSettle ==
  (transit[Followed] = "executed" /\ setup.keeper = "anyone" /\ Intent[Followed] # "malformed")
    ~> Followed \in finalized

\* finalize_one: it is never the keeper that has a user paid in stable instead, though its
\* account would be entitled to and its transaction may land when the grace is over.
KeeperChoosesNothing == setup.keeper = "guardian" => <<Followed, "guardian">> \notin fellBack

\* pending_finalize: once both events have been handled, in either order and with failures in
\* between, the swap is shown as finalized; where the two indexers do not overlap, and unless
\* the marker was collected before the intent came.
OutcomeIsShown ==
  setup.turns /\ ~ collected /\ writing.src = "done" /\ writing.dst = "done" => intentRow = "finalized"

\* All of these.
DeliveriesReachTheUser == DeliveriesSettle /\ []KeeperChoosesNothing /\ []OutcomeIsShown

\* What record_finalized says of its double check: an intent row inserted concurrently cannot
\* slip between the check and the park.
IntentCannotSlip ==
  ~ collected /\ writing.src = "done" /\ writing.dst = "done" => intentRow = "finalized"
=============================================================================
