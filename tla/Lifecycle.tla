------------------------------ MODULE Lifecycle ------------------------------
(***************************************************************************)
(* The lifecycle columns of one row of the submissions table               *)
(* (crates/bridge-db/src/lib.rs) and the writers that race for it: the     *)
(* validators' POSTs, the indexer's loop over the source chain, the loop   *)
(* over the destination chain (or the Solana observer reporting through    *)
(* the /observed routes of the sig-store), the refund sweep, the marker    *)
(* collector and the keeper's advisory note.                               *)
(*                                                                         *)
(* Every statement outside a transaction commits by itself, so a step of a *)
(* writer is one SQL statement and other writers run between two of them.  *)
(* All statements are keyed by the submission id: rows do not interfere,   *)
(* and one row is enough.  Transaction hashes and timestamps are left out. *)
(***************************************************************************)
EXTENDS Naturals, FiniteSets

CONSTANTS
  Poster,         \* validators that POST a signature of this transfer
  Site,           \* the deployments to consider
  MaxFailed,      \* bound: writes that fail half-way (crash, lost connection)
  MaxCollected    \* bound: parked markers the collector deletes

Reporter == {"src", "dst"}

\* A deployment: per reporter, what it does without a row (an EVM indexer parks the
\* event, a Solana observer is rejected); whether an EVM indexer reads the source
\* chain; whether writers happen to run one at a time.
Deployment ==
  [onMissing: [Reporter -> {"park", "reject"}], sourceIndexed: BOOLEAN, serial: BOOLEAN]

ASSUME LifecycleAssumption ==
  /\ Poster \cap Reporter = {}
  /\ Site \subseteq Deployment
  /\ \A s \in Site : s.sourceIndexed <=> s.onMissing["src"] = "park"
  /\ MaxFailed \in Nat /\ MaxCollected \in Nat

VARIABLES
  deployed,  \* the deployment, fixed from the start
  chain,     \* how far the transfer has come on its two chains
  entry,     \* its row in submissions
  marker,    \* its row in pending_lifecycle; NoMarker if there is none
  work,      \* work[p]: the event writer p works on and its next statement
  handled,   \* events the two reporters are done with
  failed,    \* failed writes so far
  collected  \* collected markers so far

lifecycleVars == <<deployed, chain, entry, marker, work, handled, failed, collected>>

Writer == Reporter \cup Poster

ChainState == {"none", "sent", "claimed", "burned", "refunded"}

\* What a reporter reports, and a validator's POST.
LifecycleEvent == {"sent", "claimed", "cancelled", "refunded"}
Duty == LifecycleEvent \cup {"post"}

Statement == {"insert", "vouch", "update", "exists", "retry", "park", "recheck", "apply", "clear"}

AtRest == [task |-> "none", next |-> "none"]

\* Columns: "" stands for NULL; aged stands for created_at < now() - timeout.
Row == [present: BOOLEAN, status: {"signed", "claimed"},
        refund_status: {"none", "eligible", "cancelled", "refunded"},
        sent_observed: BOOLEAN, keeper_claim_tx: BOOLEAN, aged: BOOLEAN]

Marker == [status: {"", "claimed"}, refund_status: {"", "cancelled", "refunded"}]

NoEntry == [present |-> FALSE, status |-> "signed", refund_status |-> "none",
          sent_observed |-> FALSE, keeper_claim_tx |-> FALSE, aged |-> FALSE]

NoMarker == [status |-> "", refund_status |-> ""]

LifecycleInit ==
  /\ deployed \in Site
  /\ chain = "none"
  /\ entry = NoEntry
  /\ marker = NoMarker
  /\ work = [p \in Writer |-> AtRest]
  /\ handled = {}
  /\ failed = 0
  /\ collected = 0

-----------------------------------------------------------------------------
(* SQL statements *)

COALESCE(x, y) == IF x # "" THEN x ELSE y

\* Mutant: a late claim leaves the stuck flag up.
markClaimed_KeepsFlag(r) == [r EXCEPT !.status = "claimed"]

\* UPDATE of mark_claimed.
markClaimed(r) ==
  [r EXCEPT !.status = "claimed",
            !.refund_status = IF @ = "eligible" THEN "none" ELSE @]

\* UPDATE of mark_cancelled and of mark_refunded.
markRefundStatus(r, e) == [r EXCEPT !.refund_status = e]

\* Mutant: a burn seen late overwrites the refund.
matches_Any(e, r) == r.present

\* WHERE clause of the three lifecycle updates.
matches(e, r) == r.present /\ (e = "cancelled" => r.refund_status # "refunded")

lifecycle_update(e) ==
  entry' = IF ~matches(e, entry) THEN entry
         ELSE IF e = "claimed" THEN markClaimed(entry) ELSE markRefundStatus(entry, e)

\* The marker of an event, as park_if_missing's callers build it.
markerFor(e) ==
  IF e = "claimed" THEN [status |-> "claimed", refund_status |-> ""]
                   ELSE [status |-> "", refund_status |-> e]

\* INSERT ... ON CONFLICT DO UPDATE into pending_lifecycle.
mergeMarker(m, n) ==
  [status |-> COALESCE(n.status, m.status),
   refund_status |-> COALESCE(n.refund_status, m.refund_status)]

\* Mutant: columns the marker does not set are overwritten too.
applyMarker_Overwrites(r, m) ==
  IF ~r.present THEN r
  ELSE [r EXCEPT !.status = m.status, !.refund_status = m.refund_status]

\* The UPDATE half of apply_pending_lifecycle.
applyMarker(r, m) ==
  IF ~r.present THEN r
  ELSE [r EXCEPT !.status = COALESCE(m.status, @),
                 !.refund_status = COALESCE(m.refund_status, @)]

\* Mutant: a row is nominated whoever wrote it.
VOUCHED_Always(r) == TRUE

\* The indexer saw the Sent, or no indexer reads this source chain.
VOUCHED(r) == r.sent_observed \/ ~deployed.sourceIndexed

-----------------------------------------------------------------------------
(* Writers: starting, moving from statement to statement, ending *)

Goto(p, s) == work' = [work EXCEPT ![p].next = s]

Rest(p) == work' = [work EXCEPT ![p] = AtRest]

\* Writer p is done with its task: a reporter does not come back to the event.
Finish(p) ==
  /\ Rest(p)
  /\ handled' = IF p \in Reporter THEN handled \cup {work[p].task} ELSE handled

At(p, s) == work[p].next = s

\* Events a reporter reads on its chain, in that chain's order.
Readable(p) ==
  IF p = "dst"
    THEN {e \in {"claimed", "cancelled"} :
            IF e = "claimed" THEN chain = "claimed" ELSE chain \in {"burned", "refunded"}}
    ELSE {e \in {"sent", "refunded"} :
            IF e = "sent" THEN deployed.sourceIndexed /\ chain # "none"
            ELSE chain = "refunded" /\ (deployed.sourceIndexed => "sent" \in handled)}

MayStart(p) == work[p] = AtRest /\ (deployed.serial => \A q \in Writer : work[q] = AtRest)

\* handle_gate_log (indexer) or Observer.tick (Solana): take up an event.
Report(p) ==
  /\ MayStart(p)
  /\ \E e \in Readable(p) \ handled :
       work' = [work EXCEPT ![p] = [task |-> e, next |-> IF e = "sent" THEN "insert" ELSE "update"]]
  /\ UNCHANGED <<deployed, chain, entry, marker, handled, failed, collected>>

\* upsert_signature: a validator POSTs record and signature, at any time.
Post(p) ==
  /\ MayStart(p)
  /\ work' = [work EXCEPT ![p] = [task |-> "post", next |-> "insert"]]
  /\ UNCHANGED <<deployed, chain, entry, marker, handled, failed, collected>>

-----------------------------------------------------------------------------
(* observe_submission and upsert_signature *)

\* insert_submission_row: ON CONFLICT keeps the lifecycle columns.
Insert(p) ==
  /\ At(p, "insert")
  /\ entry' = [entry EXCEPT !.present = TRUE]
  /\ Goto(p, IF work[p].task = "sent" THEN "vouch" ELSE "apply")
  /\ UNCHANGED <<deployed, chain, marker, handled, failed, collected>>

\* Only observe_submission vouches for the transfer.
Vouch(p) ==
  /\ At(p, "vouch")
  /\ entry' = [entry EXCEPT !.sent_observed = TRUE]
  /\ Goto(p, "apply")
  /\ UNCHANGED <<deployed, chain, marker, handled, failed, collected>>

-----------------------------------------------------------------------------
(* mark_claimed, mark_cancelled, mark_refunded and park_if_missing *)

Update(p) ==
  /\ At(p, "update")
  /\ lifecycle_update(work[p].task)
  /\ \/ matches(work[p].task, entry) /\ Finish(p)
     \/ ~matches(work[p].task, entry) /\ Goto(p, "exists") /\ UNCHANGED handled
  /\ UNCHANGED <<deployed, chain, marker, failed, collected>>

\* Mutant: a refused report counts as reported.
Exists_Handled(p) ==
  /\ At(p, "exists")
  /\ \/ entry.present /\ Goto(p, "retry") /\ UNCHANGED handled
     \/ ~entry.present /\ deployed.onMissing[p] = "park" /\ Goto(p, "park") /\ UNCHANGED handled
     \/ ~entry.present /\ deployed.onMissing[p] = "reject" /\ Finish(p)
  /\ UNCHANGED <<deployed, chain, entry, marker, failed, collected>>

\* Where park_if_missing goes on: a refused report is tried again later.
Exists(p) ==
  /\ At(p, "exists")
  /\ \/ entry.present /\ Goto(p, "retry")
     \/ ~entry.present /\ deployed.onMissing[p] = "park" /\ Goto(p, "park")
     \/ ~entry.present /\ deployed.onMissing[p] = "reject" /\ Rest(p)
  /\ UNCHANGED <<deployed, chain, entry, marker, handled, failed, collected>>

Retry(p) ==
  /\ At(p, "retry")
  /\ lifecycle_update(work[p].task)
  /\ Finish(p)
  /\ UNCHANGED <<deployed, chain, marker, failed, collected>>

\* Mutant: the marker is not written.
Park_Nothing(p) ==
  /\ At(p, "park")
  /\ Goto(p, "recheck")
  /\ UNCHANGED <<deployed, chain, entry, marker, handled, failed, collected>>

Park(p) ==
  /\ At(p, "park")
  /\ marker' = mergeMarker(marker, markerFor(work[p].task))
  /\ Goto(p, "recheck")
  /\ UNCHANGED <<deployed, chain, entry, handled, failed, collected>>

Recheck(p) ==
  /\ At(p, "recheck")
  /\ \/ entry.present /\ Goto(p, "apply") /\ UNCHANGED handled
     \/ ~entry.present /\ Finish(p)
  /\ UNCHANGED <<deployed, chain, entry, marker, failed, collected>>

-----------------------------------------------------------------------------
(* apply_pending_lifecycle: two statements *)

Apply(p) ==
  /\ At(p, "apply")
  /\ entry' = applyMarker(entry, marker)
  /\ Goto(p, "clear")
  /\ UNCHANGED <<deployed, chain, marker, handled, failed, collected>>

Clear(p) ==
  /\ At(p, "clear")
  /\ marker' = NoMarker
  /\ Finish(p)
  /\ UNCHANGED <<deployed, chain, entry, failed, collected>>

-----------------------------------------------------------------------------
(* The rest of the world *)

\* A statement fails or the process dies.  The reporters come back to the event
\* (their cursor has not moved); a POST is simply over.
Fail(p) ==
  /\ work[p] # AtRest
  /\ failed < MaxFailed
  /\ failed' = failed + 1
  /\ Rest(p)
  /\ UNCHANGED <<deployed, chain, entry, marker, handled, collected>>

\* An indexer dies between handling a batch and saving its cursor, and reads the
\* batch again: its events are handled a second time.
Replay(p) ==
  /\ work[p] = AtRest
  /\ failed < MaxFailed
  /\ failed' = failed + 1
  /\ handled' = handled \ (IF p = "dst" THEN {"claimed", "cancelled"} ELSE {"sent", "refunded"})
  /\ UNCHANGED <<deployed, chain, entry, marker, work, collected>>

\* The refund timeout passes.  It is hours long: no write in progress spans it.
Age ==
  /\ entry.present
  /\ ~entry.aged
  /\ \A p \in Writer : work[p] = AtRest
  /\ entry' = [entry EXCEPT !.aged = TRUE]
  /\ UNCHANGED <<deployed, chain, marker, work, handled, failed, collected>>

\* sweep_refund_eligible.
Sweep ==
  /\ entry.present
  /\ entry.aged
  /\ entry.status # "claimed"
  /\ entry.refund_status = "none"
  /\ VOUCHED(entry)
  /\ entry' = [entry EXCEPT !.refund_status = "eligible"]
  /\ UNCHANGED <<deployed, chain, marker, work, handled, failed, collected>>

\* gc_parked_markers; the marker is always old enough.
Collect ==
  /\ marker # NoMarker
  /\ ~entry.present
  /\ collected < MaxCollected
  /\ collected' = collected + 1
  /\ marker' = NoMarker
  /\ UNCHANGED <<deployed, chain, entry, work, handled, failed>>

\* Mutant: the keeper's word counts as delivery.
noteKeeperClaim_Authoritative(r) == [r EXCEPT !.keeper_claim_tx = TRUE, !.status = "claimed"]

\* note_keeper_claim: an annotation, whatever the chain says.
noteKeeperClaim(r) == [r EXCEPT !.keeper_claim_tx = TRUE]

KeeperNote ==
  /\ entry.present
  /\ entry' = noteKeeperClaim(entry)
  /\ UNCHANGED <<deployed, chain, marker, work, handled, failed, collected>>

\* The two gates (module Gate): what can happen to a transfer on chain.
ChainStep ==
  /\ \E s \in ChainState :
       /\ <<chain, s>> \in {<<"none", "sent">>, <<"sent", "claimed">>,
                            <<"sent", "burned">>, <<"burned", "refunded">>}
       /\ chain' = s
  /\ UNCHANGED <<deployed, entry, marker, work, handled, failed, collected>>

Work(p) ==
  \/ Insert(p) \/ Vouch(p) \/ Update(p) \/ Exists(p) \/ Retry(p)
  \/ Park(p) \/ Recheck(p) \/ Apply(p) \/ Clear(p)

LifecycleNext ==
  \/ ChainStep
  \/ \E p \in Reporter : Report(p) \/ Replay(p)
  \/ \E p \in Poster : Post(p)
  \/ \E p \in Writer : Work(p) \/ Fail(p)
  \/ Age \/ Sweep \/ Collect \/ KeeperNote

LifecycleSpec == LifecycleInit /\ [][LifecycleNext]_lifecycleVars

\* Statements that have begun come to an end, and both reporters keep polling.
\* Polling is strongly fair because a serial run turns a reporter away whenever
\* another writer is busy; nothing is assumed of validators, sweep or collector.
LifecycleFairness ==
  /\ \A p \in Writer : WF_lifecycleVars(Work(p))
  /\ \A p \in Reporter : SF_lifecycleVars(Report(p))

LifecycleLiveSpec == LifecycleSpec /\ LifecycleFairness

-----------------------------------------------------------------------------
(* Properties *)

\* Type correctness of the tables and the writers' program counters.
LifecycleTypeOK ==
  /\ deployed \in Site
  /\ chain \in ChainState
  /\ entry \in Row
  /\ marker \in Marker
  /\ work \in [Writer -> [task: Duty, next: Statement] \cup {AtRest}]
  /\ handled \subseteq LifecycleEvent
  /\ failed \in 0 .. MaxFailed
  /\ collected \in 0 .. MaxCollected

\* pending_claims and refund_candidates.
InPendingClaims == entry.present /\ entry.status # "claimed" /\ entry.refund_status \notin {"cancelled", "refunded"}
InRefundQueue ==
  /\ entry.present
  /\ entry.status # "claimed"
  /\ entry.refund_status = "cancelled" \/ (entry.refund_status = "eligible" /\ VOUCHED(entry))

\* pending_claims is a hint that may only err one way: a row it leaves out is one
\* the destination chain has settled.  No crash, replay or keeper's note hides a
\* transfer that still needs its claim.
HiddenOnlyIfSettled == entry.present /\ ~InPendingClaims => chain \in {"claimed", "burned", "refunded"}

\* refund_candidates: where an indexer reads the source, the refund loops are
\* never sent after a transfer that no chain emitted, whoever posted its row.
QueueOnlyRealTransfers == deployed.sourceIndexed /\ InRefundQueue => chain # "none"

\* Two deployments in which no marker can be parked or applied behind a writer's
\* back: writers that take turns over a source an indexer reads, and a destination
\* whose reports are never parked.  (A row that only POSTs make, one of which fails
\* before it applies the marker, may be refunded with the burn still parked.)
TakingTurns ==
  (deployed.serial /\ deployed.sourceIndexed) \/ deployed.onMissing["dst"] = "reject"

\* park_if_missing: a burn that is reported late never takes a refunded row back.
NoRegress == entry.refund_status = "refunded" => entry'.refund_status = "refunded"

\* mark_cancelled and park_if_missing: no writer takes a refunded row back to an
\* earlier state, so a settled transfer never returns to the refund queue.
RefundedIsTerminal == [][TakingTurns => NoRegress]_lifecycleVars

\* The same for writers that overlap, as park_if_missing's comment has it.
RefundIsNeverRegressed == [][NoRegress]_lifecycleVars

\* Whether row r shows event e.
Shows(r, e) ==
  CASE e = "claimed" -> r.status = "claimed"
    [] e = "cancelled" -> r.refund_status \in {"cancelled", "refunded"}
    [] e = "refunded" -> r.refund_status = "refunded"
    [] OTHER -> r.sent_observed

\* park_if_missing's comment: one of two overlapping writers always observes the
\* other.  When nobody is writing, every event a reporter is done with is in the
\* row, or parked for the row to pick up.
OneSideObserves ==
  (\A p \in Writer : work[p] = AtRest) /\ collected = 0 =>
    \A e \in handled : Shows(applyMarker([entry EXCEPT !.present = TRUE], marker), e)

\* park_if_missing and apply_pending_lifecycle: the same where writers take turns,
\* through every crash, retry and replay.
EventsReachTheRow == TakingTurns => OneSideObserves

\* mark_claimed and the refund_status column: where claims are not parked, a
\* delivered transfer is not also shown as stuck, however the sweep falls.
ClaimedIsNotEligible ==
  deployed.onMissing["dst"] = "reject" /\ entry.status = "claimed" => entry.refund_status # "eligible"

\* Every settlement on chain shows in the history in the end, however often the
\* reporters crash, repeat themselves or are turned away, unless the collector took
\* its marker.
SettlementShows ==
  []<>(TakingTurns /\ collected = 0 =>
         /\ chain = "claimed" => entry.status = "claimed"
         /\ chain = "refunded" => entry.refund_status = "refunded")

\* What the queues and the history show of a transfer is true of the chains: pending_claims
\* hides only what is settled, refund_candidates holds only what was sent and not delivered,
\* and where writers take turns every event a reporter is done with is in the row or waits for it.
QueuesAreTrue ==
  HiddenOnlyIfSettled /\ QueueOnlyRealTransfers /\ ClaimedIsNotEligible /\ EventsReachTheRow

\* A settlement shows in the end, and for good.
SettlementIsShown == SettlementShows /\ RefundedIsTerminal
=============================================================================
