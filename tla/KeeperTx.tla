------------------------------ MODULE KeeperTx ------------------------------
(***************************************************************************)
(* The keeper on one chain (crates/keeper/src/main.rs).                    *)
(* Two loops, run_target ("claim") and run_source_refunds ("refund"), send *)
(* from one account.  A loop remembers a transaction whose receipt did not *)
(* arrive (PendingTxs), raises its fee, and gives the nonces it tracks to  *)
(* the HeadWatch both loops share, which clears a stuck nonce that nobody  *)
(* tracks.  All of that memory is lost in a crash; the node's pool and the *)
(* chain are not.  The queue of deliveries to finalize is not modelled.    *)
(*                                                                         *)
(* A step is one await: the reads that decide what to send, the send under *)
(* the lock both loops share, the receipt.  Time is the flag `due', raised *)
(* when a receipt window has passed.  Signature quorums are module         *)
(* SigStore's; here a quorum is there from the start, or appears.          *)
(***************************************************************************)
EXTENDS Integers, Sequences, FiniteSets, FiniteSetsExt, SequencesExt

CONSTANTS
  Claims,        \* transfers to this chain with a quorum of transfer signatures
  Refunds,       \* transfers from this chain with a quorum of refund signatures
  Backlog,       \* sets of transfers that may have a quorum: cases to consider
  Routed,        \* the ones a configured SwapRouter receives or sent
  Unpayable,     \* claims this gate can never pay, is told not to, or below min_claim
  Price,         \* fees per gas the market may ask
  FEE_BUMP_DIVISOR, MAX_FEE_BUMPS, MAX_FEE_MULTIPLE,
  MaxMoves,      \* bound: price changes
  MaxFaults      \* bound: crashes, dropped transactions, failed calls, others' calls

ASSUME KeeperAssumption ==
  /\ Claims \cap Refunds = {} /\ Routed \subseteq Claims \cup Refunds /\ Unpayable \subseteq Claims
  /\ Backlog \subseteq SUBSET (Claims \cup Refunds)
  /\ Price \subseteq Nat \ {0} /\ Price # {}
  /\ {FEE_BUMP_DIVISOR, MAX_FEE_MULTIPLE} \subseteq Nat \ {0}
  /\ {MAX_FEE_BUMPS, MaxMoves, MaxFaults} \subseteq Nat

VARIABLES
  slot,      \* per transfer: "open", "claimed", "cancelled"; "sent", "held", "refunded"
  burning,   \* claims with a quorum of cancel signatures
  queue,     \* transfers the store still lists as pending
  mined,     \* the account's transactions on the chain; the nonce is the position
  pool,      \* the account's transactions in the node's pool, one per nonce
  price,     \* the least fee a block includes
  pc, todo, seen, tx,  \* per loop: where it is and the locals of its tick
  pending,   \* PendingTxs of both loops: key -> InFlight
  tracked,   \* ChainSendState.tracked
  head,      \* ChainSendState.head: the stall it watches
  forgotten, \* history: keys whose transaction was lost from memory
  moves, faults

chain == <<slot, mined, pool>>
market == <<price, moves>>
keeperVars == <<slot, burning, queue, mined, pool, price, pc, todo, seen, tx, pending,
          tracked, head, forgotten, moves, faults>>

Role == {"claim", "refund"}
Ids == [claim |-> Claims, refund |-> Refunds]
RoleOf(id) == IF id \in Claims THEN "claim" ELSE "refund"
NoTx == [call |-> "none"]
NoStall == [nonce |-> -1]
Self == "keeper"

\* SigKind of a call: what PendingTxs is keyed by, with the transfer.
CallKind(call) == IF call = "forward" THEN "refund" ELSE call
Key(t) == <<t.id, CallKind(t.call)>>
Keys == (Claims \X {"claim", "cancel"}) \cup (Refunds \X {"refund"})

\* The functions a transaction may call, and what they need of the gate and router.
Works(call, id) ==
  \/ call \in {"claim", "cancel"} /\ slot[id] = "open"
  \/ call = "refund" /\ slot[id] = "sent"
  \/ call = "forward" /\ slot[id] = "held"
  \/ call = "self"

After(call) == [claim |-> "claimed", cancel |-> "cancelled", refund |-> "refunded",
                forward |-> "refunded"][call]

\* eth_getTransactionCount at "latest" and at "pending": a gap in the pool ends the count.
latestCount == Len(mined)
pendingCount == Min({n \in latestCount .. latestCount + Cardinality(pool) :
                       \A t \in pool : t.nonce # n})

\* Calls -----------------------------------------------------------------
\* A node keeps a replacement only if it raises the fee by a tenth.
Accepts(t) ==
  /\ t.nonce >= latestCount
  /\ \A u \in pool : u.nonce = t.nonce => 10 * t.fee >= 11 * u.fee

Broadcast(t) == {u \in pool : u.nonce # t.nonce} \cup {t}

\* A replacement's fee: at least an eighth more, the market's if higher, never over the
\* ceiling; 0 if that cannot be.  `estimate' is 0 when the node gave none.
bumped_fee(current, estimate, ceiling) ==
  LET least == current + (current \div FEE_BUMP_DIVISOR) + 1
  IN  IF least > ceiling THEN 0 ELSE Min({Max({estimate, least}), ceiling})

\* The same request with only its fee raised; the fee is 0 if the ceiling forbids it.
reprice(t, estimate, ceiling) == [t EXCEPT !.fee = bumped_fee(@, estimate, ceiling)]

\* What the node says of a transaction; Unknown if it does not answer.
probe_tx(t) ==
  IF \E n \in DOMAIN mined : n = t.nonce + 1 /\ mined[n].tx = t
  THEN (IF mined[t.nonce + 1].ok THEN "landed" ELSE "reverted")
  ELSE IF t \in pool THEN "mempool" ELSE "gone"

\* One verdict for a nonce from every transaction sent at it.
combine_probes(txs) ==
  LET said == {probe_tx(t) : t \in txs}
  IN  IF "landed" \in said THEN "landed"
      ELSE IF "reverted" \in said THEN "reverted"
      ELSE IF "mempool" \in said THEN "mempool" ELSE "gone"

InFlight(t, sent) == [tx |-> t, sent |-> sent, bumps |-> 0, due |-> TRUE,
                      ceiling |-> t.fee * MAX_FEE_MULTIPLE]

\* Entries of PendingTxs that belong to a loop.
Mine(role) == {k \in DOMAIN pending : k[1] \in Ids[role]}
nonces(role) == {pending[k].tx.nonce : k \in Mine(role)}

Forget(keys) == [k \in DOMAIN pending \ keys |-> pending[k]]
Put(f, k, v) == [x \in DOMAIN f \cup {k} |-> IF x = k THEN v ELSE f[x]]

-----------------------------------------------------------------------------
\* The loops as they start, and start again: not connected, nothing in hand, nothing remembered.
Fresh(where, records, listed, call, remembered, nonce, stall) ==
  /\ where = [r \in Role |-> "connect"] /\ records = [r \in Role |-> {}]
  /\ listed = [r \in Role |-> {}] /\ call = [r \in Role |-> NoTx]
  /\ remembered = << >> /\ nonce = [r \in Role |-> {}] /\ stall = NoStall

KeeperInit ==
  /\ queue \in Backlog /\ burning = {}
  /\ slot = [id \in queue |-> IF id \in Claims THEN "open" ELSE "sent"]
  /\ mined = << >> /\ pool = {} /\ price \in Price
  /\ Fresh(pc, todo, seen, tx, pending, tracked, head)
  /\ forgotten = {} /\ moves = 0 /\ faults = 0

Fault == faults < MaxFaults /\ faults' = faults + 1

Goto(role, where) == pc' = [pc EXCEPT ![role] = where]

\* run_target and run_source_refunds --------------------------------------
\* The node answers, for the configured chain, and the gate's parameters are read; until then
\* the loop asks again and the other one runs without it.
connect_gate(role) ==
  /\ pc[role] = "connect" /\ Goto(role, "idle")
  /\ UNCHANGED <<chain, burning, queue, market, todo, seen, tx, pending, tracked, head,
                 forgotten, faults>>

\* The records of a tick are read once; `seen' is what was listed.
BeginTick(role) ==
  /\ pc[role] = "idle"
  /\ todo' = [todo EXCEPT ![role] = queue \cap Ids[role]]
  /\ seen' = [seen EXCEPT ![role] = queue \cap Ids[role]]
  /\ Goto(role, "records")
  /\ UNCHANGED <<chain, burning, queue, market, tx, pending, tracked, head, forgotten,
                 faults>>

\* A quorum to cancel goes before one to claim; the refund loop has its own.
Wanted(id) == IF id \in Refunds THEN "refund" ELSE IF id \in burning THEN "cancel" ELSE "claim"

Skipped(role, id) == todo' = [todo EXCEPT ![role] = @ \ {id}] /\ UNCHANGED <<pc, tx>>

\* What each handler decides to call, having read the gate; none if the work is done.
try_claim(id) == IF slot[id] = "open" THEN "claim" ELSE "none"
try_cancel(id) == IF slot[id] = "open" THEN "cancel" ELSE "none"
\* A refund someone paid straight to a router is forwarded to the router's user.
try_refund(id) ==
  CASE slot[id] = "sent" -> "refund"
    [] slot[id] = "held" /\ id \in Routed -> "forward"
    [] OTHER -> "none"

Decide(id) ==
  CASE Wanted(id) = "claim" -> try_claim(id)
    [] Wanted(id) = "cancel" -> try_cancel(id)
    [] Wanted(id) = "refund" -> try_refund(id)

\* A record that is not claimed: unpayable here, blocked by the allowlist, too small.
PassOver(role, id) ==
  /\ pc[role] = "records" /\ id \in todo[role]
  /\ Wanted(id) = "claim" /\ id \in Unpayable
  /\ Skipped(role, id)
  /\ UNCHANGED <<chain, burning, queue, market, seen, pending, tracked, head, forgotten,
                 faults>>

MayTry(role, id) ==
  /\ pc[role] = "records" /\ id \in todo[role]
  /\ ~ (Wanted(id) = "claim" /\ id \in Unpayable)

may_submit_Always(k) == TRUE

\* may_submit says yes: nothing is remembered, or what is will not land again.  The gate is
\* read, and unless the work is done the call is built.
may_submit(k) ==
  k \in DOMAIN pending => combine_probes(pending[k].sent) \in {"landed", "reverted", "gone"}

Try(role, id) ==
  LET k == <<id, Wanted(id)>>
  IN  /\ MayTry(role, id) /\ may_submit(k)
      /\ pending' = Forget({k})
      /\ IF Decide(id) = "none"
         THEN Skipped(role, id)
         ELSE /\ tx' = [tx EXCEPT ![role] = [call |-> Decide(id), id |-> id]]
              /\ Goto(role, "send")
              /\ UNCHANGED todo
      /\ UNCHANGED <<chain, burning, queue, market, seen, tracked, head, forgotten, faults>>

\* The transaction is still in the pool; maybe_replace sends it again for more, at most once
\* a window and only at the head of the account's queue.  An attempt counts before it is sent.
maybe_replace(k, estimate) ==
  LET f == pending[k]
      t == reprice(f.tx, estimate, f.ceiling)
  IN  IF ~ f.due \/ (f.bumps < MAX_FEE_BUMPS /\ latestCount # f.tx.nonce)
      THEN UNCHANGED <<pending, pool>>
      ELSE IF f.bumps >= MAX_FEE_BUMPS
      THEN pending' = [pending EXCEPT ![k].due = FALSE] /\ UNCHANGED pool
      ELSE IF t.fee = 0
      THEN pending' = [pending EXCEPT ![k].due = FALSE, ![k].bumps = MAX_FEE_BUMPS]
           /\ UNCHANGED pool
      ELSE IF Accepts(t)
      THEN /\ pool' = Broadcast(t)
           /\ pending' = [pending EXCEPT ![k].due = FALSE, ![k].bumps = @ + 1,
                                         ![k].tx = t, ![k].sent = @ \cup {t}]
      ELSE pending' = [pending EXCEPT ![k].due = FALSE, ![k].bumps = @ + 1] /\ UNCHANGED pool

\* The node takes the replacement and its reply is lost: the pool has changed, and the entry
\* still names the transaction it displaced.
replace_unanswered(k, estimate) ==
  LET f == pending[k]
      t == reprice(f.tx, estimate, f.ceiling)
  IN  /\ f.due /\ f.bumps < MAX_FEE_BUMPS /\ latestCount = f.tx.nonce
      /\ t.fee # 0 /\ Accepts(t) /\ pool' = Broadcast(t)
      /\ pending' = [pending EXCEPT ![k].due = FALSE, ![k].bumps = @ + 1]
      /\ forgotten' = forgotten \cup {k}

Wait(role, id) ==
  LET k == <<id, Wanted(id)>>
  IN  /\ MayTry(role, id) /\ ~ may_submit(k)
      /\ \/ maybe_replace(k, price) /\ UNCHANGED <<faults, forgotten>>
         \/ maybe_replace(k, 0) /\ Fault /\ UNCHANGED forgotten
         \/ replace_unanswered(k, price) /\ Fault
      /\ Skipped(role, id)
      /\ UNCHANGED <<slot, mined, burning, queue, market, seen, tracked, head>>

\* The node does not answer a probe: the record waits for the next tick.
Unanswered(role, id) ==
  /\ MayTry(role, id) /\ <<id, Wanted(id)>> \in DOMAIN pending
  /\ Fault /\ Skipped(role, id)
  /\ UNCHANGED <<chain, burning, queue, market, seen, pending, tracked, head, forgotten>>

\* The call has ended: the record is done with for this tick.
Finished(role) ==
  /\ Goto(role, "records")
  /\ todo' = [todo EXCEPT ![role] = @ \ {tx[role].id}]
  /\ tx' = [tx EXCEPT ![role] = NoTx]

Track_Not(role, n) == UNCHANGED tracked
Track(role, n) == tracked' = [tracked EXCEPT ![role] = @ \cup {n}]

populate(role) ==
  [call |-> tx[role].call, id |-> tx[role].id, nonce |-> pendingCount, fee |-> price]

\* confirm: populate and send, under the lock, and track the nonce.
Send(role) ==
  LET t == populate(role)
  IN  /\ pc[role] = "send" /\ Works(t.call, t.id)
      /\ pool' = Broadcast(t)
      /\ tx' = [tx EXCEPT ![role] = t]
      /\ Track(role, t.nonce)
      /\ Goto(role, "wait")
      /\ UNCHANGED <<slot, mined, burning, queue, market, todo, seen, pending, head, forgotten, faults>>

\* A call that would revert fails in estimate_gas and sends nothing; an answer that does not
\* come fails too, before the node has the transaction or after, and nothing is remembered.
SendFails(role) ==
  /\ pc[role] = "send" /\ Finished(role)
  /\ \/ ~ Works(tx[role].call, tx[role].id) /\ UNCHANGED <<pool, forgotten, faults>>
     \/ Works(tx[role].call, tx[role].id) /\ Fault /\ UNCHANGED <<pool, forgotten>>
     \/ /\ Works(tx[role].call, tx[role].id) /\ Fault
        /\ pool' = Broadcast(populate(role))
        /\ forgotten' = forgotten \cup {Key(tx[role])}
  /\ UNCHANGED <<slot, mined, burning, queue, market, seen, pending, tracked, head>>

\* The receipt came.  A claim that succeeded is marked and leaves the queue.
Receipt(role) ==
  /\ pc[role] = "wait" /\ probe_tx(tx[role]) \in {"landed", "reverted"}
  /\ Finished(role)
  /\ queue' = queue \ {id \in {tx[role].id} : tx[role].call = "claim"
                                              /\ probe_tx(tx[role]) = "landed"}
  /\ UNCHANGED <<chain, burning, market, seen, pending, tracked, head, forgotten, faults>>

\* No receipt within the window: note_failure remembers the transaction.
note_failure(t) == pending' = Put(pending, Key(t), InFlight(t, {t}))

ReceiptTimeout(role) ==
  /\ pc[role] = "wait" /\ probe_tx(tx[role]) \notin {"landed", "reverted"}
  /\ note_failure(tx[role]) /\ Finished(role)
  /\ UNCHANGED <<chain, burning, queue, market, seen, tracked, head, forgotten, faults>>

\* Waiting for the receipt fails in another way: nothing is remembered.
ReceiptError(role) ==
  /\ pc[role] = "wait" /\ Fault
  /\ forgotten' = forgotten \cup {Key(tx[role])}
  /\ Finished(role)
  /\ UNCHANGED <<chain, burning, queue, market, seen, pending, tracked, head>>

\* The records are done: entries whose transfer left the queue are dropped.
retain_seen(role) ==
  LET gone == {k \in Mine(role) : k[1] \notin seen[role]}
  IN  /\ pc[role] = "records" /\ todo[role] = {}
      /\ pending' = Forget(gone)
      /\ forgotten' = forgotten \cup gone
      /\ seen' = [seen EXCEPT ![role] = {}]
      /\ Goto(role, "head")
      /\ UNCHANGED <<chain, burning, queue, market, todo, tx, tracked, head, faults>>

\* unwedge_head -------------------------------------------------------------
\* The tick ends by saying which nonces this loop still tracks.
EndTick(role) ==
  /\ pc[role] = "head" /\ Goto(role, "idle")
  /\ tracked' = [tracked EXCEPT ![role] = nonces(role)]
  /\ UNCHANGED <<slot, mined, burning, queue, market, todo, seen, tx, pending,
                 forgotten>>

Stall == [nonce |-> latestCount, due |-> FALSE, bumps |-> 0, fee |-> 0, ceiling |-> 0]

isTracked(role) == \E r \in Role : latestCount \in (IF r = role THEN nonces(r) ELSE tracked[r])


\* HeadWatch::observe: is the head of the account's queue stuck with nobody tracking it?
observe(role) ==
  IF pendingCount <= latestCount \/ isTracked(role) THEN "Idle"
  ELSE IF head.nonce # latestCount THEN "New"
  ELSE IF ~ head.due THEN "Wait"
  ELSE IF head.bumps >= MAX_FEE_BUMPS THEN "Exhausted"
  ELSE "Replace"

\* The self-transfer's fee: over the market the first time, over its last try after that; 0 if
\* there is no estimate or the ceiling is reached.
head_replacement(estimate) ==
  IF head.fee # 0 THEN bumped_fee(head.fee, estimate, head.ceiling)
  ELSE IF estimate = 0 THEN 0
  ELSE bumped_fee(estimate, 0, estimate * MAX_FEE_MULTIPLE)

Replace(estimate) ==
  LET fee == head_replacement(estimate)
      t == [call |-> "self", id |-> Self, nonce |-> latestCount, fee |-> fee]
      cap == IF head.fee # 0 THEN head.ceiling ELSE estimate * MAX_FEE_MULTIPLE
  IN  IF fee = 0
      THEN head' = [head EXCEPT !.due = FALSE, !.bumps = MAX_FEE_BUMPS] /\ UNCHANGED pool
      ELSE /\ head' = [head EXCEPT !.due = FALSE, !.bumps = @ + 1, !.fee = fee, !.ceiling = cap]
           /\ pool' = IF Accepts(t) THEN Broadcast(t) ELSE pool

unwedge_head(role) ==
  /\ EndTick(role)
  /\ CASE observe(role) = "Idle" -> head' = NoStall /\ UNCHANGED <<pool, faults>>
       [] observe(role) = "New" -> head' = Stall /\ UNCHANGED <<pool, faults>>
       [] observe(role) = "Wait" -> UNCHANGED <<head, pool, faults>>
       [] observe(role) = "Exhausted" -> head' = [head EXCEPT !.due = FALSE]
                                         /\ UNCHANGED <<pool, faults>>
       [] OTHER -> \/ Replace(price) /\ UNCHANGED faults
                   \/ Replace(0) /\ Fault

\* The nonce reads failed: this tick does not look at the head.
NotLooked(role) == EndTick(role) /\ Fault /\ UNCHANGED <<head, pool>>

\* The chain, the node, the store and the clock (external) -----------------
\* A transaction at the head that pays the price is included, and succeeds or reverts.
Include(t) ==
  /\ t.nonce = latestCount /\ t.fee >= price
  /\ pool' = pool \ {t}
  /\ mined' = Append(mined, [tx |-> t, ok |-> Works(t.call, t.id)])
  /\ IF Works(t.call, t.id) /\ t.call # "self"
     THEN slot' = [slot EXCEPT ![t.id] = After(t.call)]
     ELSE UNCHANGED slot
  /\ UNCHANGED <<burning, queue, market, pc, todo, seen, tx, pending, tracked, head,
                 forgotten, faults>>

\* The node drops a transaction.
Evict(t) ==
  /\ Fault /\ pool' = pool \ {t}
  /\ UNCHANGED <<slot, mined, burning, queue, market, pc, todo, seen, tx, pending,
                 tracked, head, forgotten>>

MovePrice(p) ==
  /\ moves < MaxMoves /\ p # price /\ price' = p /\ moves' = moves + 1
  /\ UNCHANGED <<chain, burning, queue, pc, todo, seen, tx, pending, tracked, head,
                 forgotten, faults>>

\* Another keeper claims, cancels or refunds; a router's refund paid straight to it is held.
Other(id) ==
  /\ Fault
  /\ \/ slot[id] = "open" /\ \E s \in {"claimed", "cancelled"} :
          slot' = [slot EXCEPT ![id] = s]
     \/ slot[id] = "sent" /\ slot' = [slot EXCEPT ![id] = IF id \in Routed THEN "held" ELSE "refunded"]
  /\ UNCHANGED <<mined, pool, burning, queue, market, pc, todo, seen, tx, pending,
                 tracked, head, forgotten>>

CancelQuorum(id) ==
  /\ id \in (queue \cap Claims) \ burning /\ Fault /\ burning' = burning \cup {id}
  /\ UNCHANGED <<chain, queue, market, pc, todo, seen, tx, pending, tracked, head, forgotten>>

\* The indexer has seen the transfer settled: the store no longer lists it.
Settled(id) == id \in DOMAIN slot /\ slot[id] \in {"claimed", "cancelled", "refunded"}
Unlist(id) ==
  /\ id \in queue /\ Settled(id) /\ queue' = queue \ {id}
  /\ UNCHANGED <<chain, burning, market, pc, todo, seen, tx, pending, tracked, head,
                 forgotten, faults>>

\* A receipt window has passed since a transaction was last sent, or the head last seen to
\* move or last replaced.
TxWindow(k) ==
  /\ k \in DOMAIN pending /\ ~ pending[k].due /\ pending' = [pending EXCEPT ![k].due = TRUE]
  /\ UNCHANGED <<chain, burning, queue, market, pc, todo, seen, tx, tracked, head, forgotten,
                 faults>>

HeadWindow ==
  /\ head # NoStall /\ ~ head.due /\ head' = [head EXCEPT !.due = TRUE]
  /\ UNCHANGED <<chain, burning, queue, market, pc, todo, seen, tx, pending, tracked, forgotten,
                 faults>>

\* The process is killed and started again; its sends stay in the pool.
Crash ==
  /\ Fault
  /\ forgotten' = forgotten \cup DOMAIN pending
                            \cup {Key(tx[r]) : r \in {x \in Role : pc[x] = "wait"}}
  /\ Fresh(pc', todo', seen', tx', pending', tracked', head')
  /\ UNCHANGED <<chain, burning, queue, market>>

-----------------------------------------------------------------------------
Step(role) ==
  \/ connect_gate(role) \/ BeginTick(role) \/ Send(role) \/ SendFails(role) \/ Receipt(role)
  \/ ReceiptTimeout(role) \/ ReceiptError(role) \/ retain_seen(role)
  \/ unwedge_head(role) \/ NotLooked(role)
  \/ \E id \in Ids[role] : PassOver(role, id) \/ Try(role, id) \/ Wait(role, id)
                           \/ Unanswered(role, id)

KeeperNext ==
  \/ \E role \in Role : Step(role)
  \/ \E t \in pool : Include(t) \/ Evict(t)
  \/ \E p \in Price : MovePrice(p)
  \/ \E id \in DOMAIN slot : Other(id) \/ CancelQuorum(id) \/ Unlist(id)
  \/ \E k \in DOMAIN pending : TxWindow(k)
  \/ HeadWindow \/ Crash

\* The loops run on, time passes, and a transaction that pays the price at the head of the
\* queue is included.
KeeperFairness ==
  /\ \A role \in Role : WF_keeperVars(Step(role))
  /\ WF_keeperVars(HeadWindow) /\ \A k \in Keys : WF_keeperVars(TxWindow(k))
  /\ WF_keeperVars(\E t \in pool : Include(t))

KeeperSpec == KeeperInit /\ [][KeeperNext]_keeperVars
KeeperLiveSpec == KeeperSpec /\ KeeperFairness

-----------------------------------------------------------------------------
\* A transfer's call is never in the pool twice at two nonces, unless the keeper lost its
\* memory of the first: a crash, a failed wait, a transfer that left the queue, a send or a
\* replacement the node took without its reply arriving, which note_failure does not remember.
\* A receipt that is late does not make the next tick pay for a second claim, cancel or refund.
NoCompetingTxs ==
  \A t, u \in pool :
     /\ t.nonce # u.nonce /\ Key(t) = Key(u)
     /\ t.call # "self"
     => Key(t) \in forgotten

\* The head watch of one loop never displaces a transaction that the other loop, or itself, is
\* waiting for or keeps in PendingTxs: those are raised by their owner.
HeadSparesTracked ==
  [][\A t \in pool :
       /\ t \notin pool' /\ t.call # "self"
       /\ \E s \in pool' : s.nonce = t.nonce /\ s.call = "self"
       => /\ \A r \in Role : pc[r] = "wait" => tx[r] # t
          /\ \A k \in DOMAIN pending : t \notin pending[k].sent]_keeperVars

\* The head watch stopped for want of a fee estimate and does not try that nonce again.
GaveUp == head # NoStall /\ head.bumps = MAX_FEE_BUMPS /\ head.fee = 0

\* PendingTxs still holds a claim of a transfer that is now to be cancelled.
Orphaned == \E id \in burning : <<id, "claim">> \in DOMAIN pending

\* What is at the head of the account's queue pays less than the market, and the ceiling set
\* when it was first sent keeps whoever looks after it from paying the market.
PricedOut ==
  \E t \in pool :
     /\ t.nonce = latestCount /\ t.fee < price
     /\ \/ \E k \in DOMAIN pending : t \in pending[k].sent /\ pending[k].ceiling < price
        \/ head.nonce = latestCount /\ head.fee # 0 /\ head.ceiling < price


\* What HeadWatch::observe says of a nonce it leaves alone because a loop tracks it: that
\* maybe_replace handles it.  So a tracked nonce at the head that pays too little does not stay
\* there until the price falls.
Underpriced(n) == \E t \in pool : t.nonce = n /\ t.fee < price
TrackedHeadIsHandled ==
  \A n \in 0 .. 1 :
     (latestCount = n /\ Underpriced(n) /\ \E k \in DOMAIN pending : pending[k].tx.nonce = n)
     ~> (~ Underpriced(n) \/ GaveUp)
=============================================================================
