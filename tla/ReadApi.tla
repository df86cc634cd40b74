------------------------------- MODULE ReadApi -------------------------------
(***************************************************************************)
(* The read side of graphql-api: the caches that stand between anonymous   *)
(* requests and the operator's RPC endpoints.                              *)
(*                                                                         *)
(*   - Upstream (upstream.rs): a cap on concurrent calls, a short-lived    *)
(*     answer cache and one lock per key being asked, so that identical    *)
(*     questions arriving together share one call;                         *)
(*   - TerminalCache (chain.rs): the memo of the two write-once flags of a *)
(*     submission on its destination gate, filled by three resolvers;      *)
(*   - the scale check (schema.rs, chain.rs): the registry's figure for an *)
(*     asset, served only once the gate agrees;                            *)
(*   - the pool listing (swap.rs): a bounded replay of the pool's log,     *)
(*     continued by later requests or by one background task.              *)
(*                                                                         *)
(* The four share nothing but the call slots, so one behaviour asks the    *)
(* questions of one load only (Loads); the world moves under it.           *)
(***************************************************************************)
EXTENDS Integers, FiniteSets, FiniteSetsExt, Sequences

CONSTANTS
    Callers,            \* concurrent requests
    UPSTREAM_CONCURRENCY,
    CACHE_MAX_ENTRIES,
    Loads,              \* sets of questions asked together
    Vms,                \* what the destination gate may be: "evm", "solana"
    Figures,            \* bridge decimals a registry or a gate may name
    Tokens,             \* tokens the pool may list
    MAX_RANGE,          \* blocks per getLogs chunk
    MAX_CHUNKS_PER_CALL,
    MaxBlocks,          \* bound: blocks of the pool's chain
    MaxFaults           \* bound: failed reads and dropped requests

\* The fields a request may be for; "long" is a quote spelled in a key over CACHE_MAX_KEY.
Questions == {"sigstatus", "quote", "long", "listed", "pool", "executed", "cancelled", "status"}

ASSUME ReadApiAssumption ==
    /\ IsFiniteSet(Callers) /\ Loads \subseteq SUBSET Questions
    /\ UPSTREAM_CONCURRENCY \in Nat \ {0}
    /\ CACHE_MAX_ENTRIES \in Nat \ {0}
    /\ MAX_RANGE \in Nat \ {0} /\ MAX_CHUNKS_PER_CALL \in Nat \ {0}
    /\ Vms \subseteq {"evm", "solana"} /\ Figures \subseteq Nat \ {0}

VARIABLES
    load,       \* the questions of this behaviour
    vm, flags,  \* the destination gate's kind; its flags for the submission
    tx,         \* cluster state of the watched Solana signature
    listed,     \* the registry's figure, 0 = none
    scale,      \* the gate's registered figure, 0 = none
    log,        \* the pool's log, one event a block
    faults,
    pc, q, lock, val,       \* the requests
    answers,    \* key -> kept answer, "none", or "expired"
    inflight,   \* key -> lock, 0 = no entry
    memo,       \* TerminalCache entry
    scales,     \* memo of registered figures, 0 = none
    listing,    \* Swaps::cache entry: what was replayed, and how far
    backfill    \* the background scan: its snapshot and tip, or None

world == <<vm, flags, tx, listed, scale, log>>
reqs  == <<pc, q, lock, val>>
up    == <<answers, inflight>>
vars  == <<load, world, faults, reqs, up, memo, scales, listing, backfill>>

Keys  == {"sigstatus", "quote", "scale", "pool"}
Locks == 1..(Cardinality(Callers) + Cardinality(Keys))

\* the Upstream key a question is asked under
Key(x) == IF x \in {"listed", "gate"} THEN "scale" ELSE x

None == [kind |-> "none"]
Some(k, v) == [kind |-> k, v |-> v]

-----------------------------------------------------------------------------
(* Upstream *)

Held(l)   == {c \in Callers : lock[c] = l}
InTurn(l) == {c \in Held(l) : pc[c] \in {"slot", "calling", "scanning"}}
Deduped   == {c \in Callers : pc[c] \in {"calling", "scanning"}}
Calling   == Deduped \cup {c \in Callers : pc[c] = "uncached"}

lookup(k) == answers[k]
Hit(k)    == lookup(k).kind \notin {"none", "expired"}

\* the entry's handles: the map's own, and one per request that cloned it
strong_count(l) == 1 + Cardinality(Held(l))

\* mutant: the entry goes away although another request still waits on it
dropEntry_Always(c, k) == inflight[k] # 0
dropEntry(c, k) == inflight[k] # 0 /\ strong_count(inflight[k]) <= 2

\* cached(): take the key's lock handle, evicting idle entries at the bound
Entry(k) ==
    LET used == {x \in Keys : inflight[x] # 0}
        kept == IF Cardinality(used) >= CACHE_MAX_ENTRIES
                THEN {x \in used : strong_count(inflight[x]) > 1} ELSE used
        base == [x \in Keys |-> IF x \in kept THEN inflight[x] ELSE 0]
        free == Locks \ ({base[x] : x \in Keys} \cup {lock[c] : c \in Callers})
    IN  IF base[k] # 0 THEN base ELSE [base EXCEPT ![k] = Min(free)]

\* ttl: zero for a signature status that is not settled
keeps(k, a) == k = "sigstatus" => a.v \in {"finalized", "failed"}

\* what the answer cache holds once k was answered with a
Keep(k, a) ==
    LET full(m) == Cardinality({x \in Keys : m[x].kind # "none"}) >= CACHE_MAX_ENTRIES
        fresh   == [x \in Keys |-> IF answers[x].kind = "expired" THEN None ELSE answers[x]]
        room    == IF ~full(answers) THEN answers
                   ELSE IF ~full(fresh) THEN fresh
                   ELSE [x \in Keys |-> None]
    IN  IF keeps(k, a) THEN [room EXCEPT ![k] = a] ELSE answers

-----------------------------------------------------------------------------
(* The scale of an asset *)

\* the registry's figure against what the gate said
\* mutant: the registry is believed
served_bridge_decimals_Unchecked(registry, gate) == registry
served_bridge_decimals(registry, gate) ==
    CASE gate.kind = "r" -> IF gate.v = registry THEN registry ELSE 0
      [] gate.kind = "u" -> 0
      [] gate.kind = "x" -> registry

gate_bridge_decimals == IF scale # 0 THEN Some("r", scale) ELSE Some("u", 0)

\* amount_scale: the checked registry figure, else ("gate") the gate's alone
amount_scale(x, gate) ==
    IF x = "listed" THEN served_bridge_decimals(listed, gate)
    ELSE IF gate.kind = "r" THEN gate.v ELSE 0

-----------------------------------------------------------------------------
(* The terminal flags of a submission *)

marker_state(account) ==
    [executed  |-> account \in {"claimed", "cancelled"},
     cancelled |-> account = "cancelled"]

executed_marker == marker_state(flags)

Unsettled == [executed |-> FALSE, cancelled |-> "none"]

note_executed(m, v) == IF v THEN [m EXCEPT !.executed = TRUE] ELSE m

note_cancelled(m, v) ==
    CASE v               -> [executed |-> TRUE, cancelled |-> "yes"]
      [] ~v /\ m.executed -> [m EXCEPT !.cancelled = "no"]
      [] OTHER           -> m

\* the memo's answer for one flag
Memoised(f) == IF f = "executed" THEN memo.executed ELSE memo.cancelled # "none"
MemoFlag(f) == IF f = "executed" THEN memo.executed ELSE memo.cancelled = "yes"

-----------------------------------------------------------------------------
(* The pool listing *)

NeverScanned == [live |-> {}, scanned_to |-> 0]
tip == Len(log)

\* events of the log at blocks bs applied in chain order to the tokens in live
Replay(live, bs) ==
    {t \in Tokens :
        LET about == {b \in bs : log[b].token = t}
        IN  IF about = {} THEN t \in live ELSE log[Max(about)].on}

\* mutant: the cursor passes the chunk that failed
reached_Anyway(from, chunks, to, ok) ==
    Min({from + (chunks + (IF ok THEN 0 ELSE 1)) * MAX_RANGE, to})
\* where `chunks` good chunks after block `from` leave the cursor
reached(from, chunks, to, ok) == Min({from + chunks * MAX_RANGE, to})

Budget(snap, to) ==
    Min({MAX_CHUNKS_PER_CALL, (to - snap.scanned_to + MAX_RANGE - 1) \div MAX_RANGE})

\* collect_chunk: a chunk after `good` that fails on its second filter leaves its
\* TokenListed events behind
collect_chunk(good, to, end) ==
    {b \in (good + 1)..Min({good + MAX_RANGE, to}) : end = "half" /\ log[b].on}

\* scan_step: `chunks` chunks succeed; a failing one may have delivered its
\* TokenListed half, which is applied although the cursor stays before it
scan_step(snap, to, chunks, end) ==
    LET from == snap.scanned_to
        good == Min({from + chunks * MAX_RANGE, to})
    IN  [live       |-> Replay(snap.live, ((from + 1)..good) \cup collect_chunk(good, to, end)),
         scanned_to |-> reached(from, chunks, to, end = "ok")]

\* what scan_step can end in: the budget is spent, or a chunk fails early
ScanOutcomes(snap, to) ==
    {<<Budget(snap, to), "ok">>} \cup
    (IF faults = MaxFaults THEN {}
     ELSE (0..(Budget(snap, to) - 1)) \X {"failed", "half"})

store_state(new) == IF new.scanned_to >= listing.scanned_to THEN new ELSE listing

-----------------------------------------------------------------------------
Init ==
    /\ load \in Loads
    /\ vm \in Vms /\ (vm = "evm" \/ "status" \in load)
    /\ listed \in Figures \cup {0} /\ (listed = 0 \/ "listed" \in load)
    /\ flags = "pending" /\ tx = "pending" /\ scale = 0
    /\ \E t \in Tokens : log = <<[token |-> t, on |-> TRUE]>>
    /\ faults = 0
    /\ pc = [c \in Callers |-> "idle"] /\ q = [c \in Callers |-> "none"]
    /\ lock = [c \in Callers |-> 0] /\ val = [c \in Callers |-> None]
    /\ answers = [k \in Keys |-> None] /\ inflight = [k \in Keys |-> 0]
    /\ memo = Unsettled /\ scales = 0
    /\ listing = NeverScanned /\ backfill = None

Fault == faults < MaxFaults /\ faults' = faults + 1

Goto(c, p) == pc' = [pc EXCEPT ![c] = p]
Hold(c, v) == val' = [val EXCEPT ![c] = v]

\* gate_bridge_decimals answered `gate`: serve a figure, or ask the gate alone
Scaled(c, gate) ==
    LET d == amount_scale(q[c], gate) IN
    IF d = 0 /\ q[c] = "listed"
    THEN /\ Goto(c, "ask") /\ q' = [q EXCEPT ![c] = "gate"] /\ Hold(c, None)
    ELSE /\ Goto(c, "done") /\ UNCHANGED q
         /\ Hold(c, [kind |-> "served", v |-> d, gate |-> gate])

\* cached() returned: a scale is checked, any other answer is simply sent
Returned(c, a) ==
    IF Key(q[c]) = "scale"
    THEN LET gate == IF a.kind = "none" THEN Some("x", 0) ELSE a
         IN  /\ Scaled(c, gate)
             /\ scales' = IF gate.kind = "r" THEN gate.v ELSE scales
    ELSE /\ Goto(c, "idle") /\ Hold(c, None) /\ q' = [q EXCEPT ![c] = "none"]
         /\ UNCHANGED scales

-----------------------------------------------------------------------------
(* Requests *)

\* A request arrives for one field.
Request(c, x) ==
    /\ pc[c] = "idle" /\ x \in load
    /\ IF x \in {"executed", "cancelled", "status"}
       THEN Goto(c, IF x = "cancelled" THEN "cancelled" ELSE "executed")
       ELSE Goto(c, IF x = "long" THEN "metered" ELSE "ask")
    /\ q' = [q EXCEPT ![c] = IF x = "listed" /\ listed = 0 THEN "gate" ELSE x]
    /\ UNCHANGED <<load, world, faults, lock, val, up, memo, scales, listing, backfill>>

\* cached(): an answer that is still fresh, or the key's lock handle
Ask(c) ==
    LET k == Key(q[c]) IN
    /\ pc[c] = "ask"
    /\ CASE k = "scale" /\ scales # 0 ->
              Scaled(c, Some("r", scales)) /\ UNCHANGED <<lock, up, scales>>
         [] ~(k = "scale" /\ scales # 0) /\ Hit(k) ->
              Returned(c, lookup(k)) /\ UNCHANGED <<lock, up>>
         [] OTHER ->
              /\ inflight' = Entry(k)
              /\ lock' = [lock EXCEPT ![c] = inflight'[k]]
              /\ Goto(c, "queued") /\ UNCHANGED <<q, val, answers, scales>>
    /\ UNCHANGED <<load, world, faults, memo, listing, backfill>>

\* ask_once: the lock is ours; the request ahead may have answered already
TakeTurn(c) ==
    /\ pc[c] = "queued" /\ InTurn(lock[c]) = {}
    /\ IF Hit(Key(q[c])) THEN Goto(c, "leaving") /\ Hold(c, lookup(Key(q[c])))
                         ELSE Goto(c, "slot") /\ UNCHANGED val
    /\ UNCHANGED <<load, world, faults, q, lock, up, memo, scales, listing, backfill>>

TakeSlot(c) ==
    /\ pc[c] = "slot" /\ Cardinality(Calling) < UPSTREAM_CONCURRENCY
    /\ Goto(c, "calling")
    /\ UNCHANGED <<load, world, faults, q, lock, val, up, memo, scales, listing, backfill>>

\* UPSTREAM_WAIT passes first: null
TimeOut(c) ==
    /\ \/ pc[c] = "queued" /\ InTurn(lock[c]) # {}
       \/ pc[c] = "slot" /\ Cardinality(Calling) >= UPSTREAM_CONCURRENCY
    /\ Goto(c, "leaving")
    /\ UNCHANGED <<load, world, faults, q, lock, val, up, memo, scales, listing, backfill>>

\* metered: a slot and nothing else, for a key too long to cache; the call is then answered,
\* fails or is dropped, and nobody else learns of it
Metered(c) ==
    /\ \/ pc[c] = "metered" /\ Cardinality(Calling) < UPSTREAM_CONCURRENCY
          /\ Goto(c, "uncached") /\ UNCHANGED q
       \/ /\ pc[c] = "uncached" \/ (pc[c] = "metered" /\ Cardinality(Calling) >= UPSTREAM_CONCURRENCY)
          /\ Goto(c, "idle") /\ q' = [q EXCEPT ![c] = "none"]
    /\ UNCHANGED <<load, world, faults, lock, val, up, memo, scales, listing, backfill>>

\* the answer a proxied read gives now
signature_status == Some("status", tx)
quote_uncached   == Some("quote", "amount")
Upstreams(k) ==
    CASE k = "sigstatus" -> signature_status
      [] k = "quote"     -> quote_uncached
      [] k = "scale"     -> gate_bridge_decimals

\* one read: answered, kept for its TTL, and the turn and slot are given up
Call(c) ==
    LET k == Key(q[c]) IN
    /\ pc[c] = "calling" /\ k # "pool"
    /\ Hold(c, Upstreams(k)) /\ answers' = Keep(k, Upstreams(k))
    /\ Goto(c, "leaving")
    /\ UNCHANGED <<load, world, faults, q, lock, inflight, memo, scales, listing, backfill>>

\* the read fails: a scale becomes "x", briefly kept; anything else null
CallFails(c) ==
    LET k == Key(q[c]) IN
    /\ pc[c] = "calling" /\ Fault
    /\ Goto(c, "leaving")
    /\ IF k = "scale" THEN Hold(c, Some("x", 0)) /\ answers' = Keep(k, Some("x", 0))
                      ELSE UNCHANGED <<val, answers>>
    /\ UNCHANGED <<load, world, q, lock, inflight, memo, scales, listing, backfill>>

\* cached(): the handle is dropped, and the entry if nobody else holds it
Leave(c) ==
    LET k == Key(q[c]) IN
    /\ pc[c] = "leaving"
    /\ inflight' = IF dropEntry(c, k) THEN [inflight EXCEPT ![k] = 0] ELSE inflight
    /\ lock' = [lock EXCEPT ![c] = 0]
    /\ Returned(c, val[c])
    /\ UNCHANGED <<load, world, faults, answers, memo, listing, backfill>>

\* a figure was served
Done(c) ==
    /\ pc[c] = "done"
    /\ Goto(c, "idle") /\ Hold(c, None) /\ q' = [q EXCEPT ![c] = "none"]
    /\ UNCHANGED <<load, world, faults, lock, up, memo, scales, listing, backfill>>

\* The client goes away: the request is dropped where it waits, its handle,
\* turn and slot with it, but the entry is not cleaned up.
Drop(c) ==
    /\ pc[c] \in {"queued", "slot", "calling", "scanning", "metered", "executed", "cancelled"} /\ Fault
    /\ Goto(c, "idle") /\ Hold(c, None)
    /\ q' = [q EXCEPT ![c] = "none"] /\ lock' = [lock EXCEPT ![c] = 0]
    /\ UNCHANGED <<load, world, up, memo, scales, listing, backfill>>

-----------------------------------------------------------------------------
(* The pool call, and its background continuation *)

\* the listed tokens; their prices and reserves are not kept apart
evm_pool_tokens(tokens) == Some("listing", tokens)

\* pool_info: one snapshot for every caller of the next READ_TTL
pool_info(c, tokens) ==
    /\ Hold(c, evm_pool_tokens(tokens)) /\ answers' = Keep("pool", evm_pool_tokens(tokens))
    /\ Goto(c, "leaving")

\* listed_tokens: a listing whose cursor has been set is served at once and continued behind
\* the request; otherwise, what half a first chunk left behind included, the request scans
\* from a snapshot of the cache
CallPool(c) ==
    /\ pc[c] = "calling" /\ q[c] = "pool"
    /\ IF listing.scanned_to > 0 /\ listing.live # {}
       THEN /\ pool_info(c, listing.live)
            /\ backfill' = IF listing.scanned_to < tip /\ backfill = None
                           THEN Some("spawned", tip) ELSE backfill
       ELSE /\ Hold(c, [kind |-> "scan", v |-> listing, to |-> tip])
            /\ Goto(c, "scanning") /\ UNCHANGED <<answers, backfill>>
    /\ UNCHANGED <<load, world, faults, q, lock, inflight, memo, scales, listing>>

\* the scan ends; a failure is null only if nothing at all is listed
Scan(c) ==
    /\ pc[c] = "scanning"
    /\ \E o \in ScanOutcomes(val[c].v, val[c].to) :
          LET new == scan_step(val[c].v, val[c].to, o[1], o[2]) IN
          /\ listing' = store_state(new)
          /\ faults' = IF o[2] = "ok" THEN faults ELSE faults + 1
          /\ IF o[2] # "ok" /\ new.live = {}
             THEN Hold(c, None) /\ Goto(c, "leaving") /\ UNCHANGED answers
             ELSE pool_info(c, new.live)
    /\ UNCHANGED <<load, world, q, lock, inflight, memo, scales, backfill>>

\* spawn_backfill's task: a snapshot, a scan, the store and the running mark
BackfillStart ==
    /\ backfill.kind = "spawned"
    /\ backfill' = [kind |-> "scan", v |-> listing, to |-> backfill.v]
    /\ UNCHANGED <<load, world, faults, reqs, up, memo, scales, listing>>

BackfillStore ==
    /\ backfill.kind = "scan"
    /\ \E o \in ScanOutcomes(backfill.v, backfill.to) :
          /\ listing' = store_state(scan_step(backfill.v, backfill.to, o[1], o[2]))
          /\ faults' = IF o[2] = "ok" THEN faults ELSE faults + 1
    /\ backfill' = Some("stored", 0)
    /\ UNCHANGED <<load, world, reqs, up, memo, scales>>

BackfillEnd ==
    /\ backfill.kind = "stored" /\ backfill' = None
    /\ UNCHANGED <<load, world, faults, reqs, up, memo, scales, listing>>

-----------------------------------------------------------------------------
(* The submission's flags *)

\* the flag is settled for this request: status goes on to ask which it was
Answered(c, f, v) ==
    IF f = "executed" /\ v /\ q[c] = "status"
    THEN Goto(c, "cancelled") /\ Hold(c, None) /\ UNCHANGED q
    ELSE Goto(c, "idle") /\ Hold(c, None) /\ q' = [q EXCEPT ![c] = "none"]

\* what is done with a read of flag f: a Solana marker tells both flags
Noting(f) ==
    IF vm = "solana" THEN "note_marker"
    ELSE IF f = "executed" THEN "note_executed" ELSE "note_cancelled"

\* executed / cancelled: the memo, else one read of the destination gate
ReadFlag(c) ==
    LET f == pc[c] IN
    /\ f \in {"executed", "cancelled"}
    /\ IF Memoised(f) THEN Answered(c, f, MemoFlag(f))
       ELSE /\ Goto(c, Noting(f))
            /\ Hold(c, [kind |-> f, v |-> executed_marker]) /\ UNCHANGED q
    /\ UNCHANGED <<load, world, faults, lock, up, memo, scales, listing, backfill>>

ReadFlagFails(c) ==
    /\ pc[c] \in {"executed", "cancelled"} /\ ~Memoised(pc[c]) /\ Fault
    /\ Goto(c, "idle") /\ q' = [q EXCEPT ![c] = "none"]
    /\ UNCHANGED <<load, world, lock, val, up, memo, scales, listing, backfill>>

\* the read's answer enters the memo; a Solana marker enters in two updates
NoteFlag(c) ==
    LET m == val[c].v  f == val[c].kind IN
    /\ \/ /\ pc[c] = "note_executed" /\ memo' = note_executed(memo, m.executed)
          /\ Answered(c, f, m.executed)
       \/ /\ pc[c] = "note_cancelled" /\ memo' = note_cancelled(memo, m.cancelled)
          /\ Answered(c, f, m.cancelled)
       \/ /\ pc[c] = "note_marker" /\ memo' = note_executed(memo, m.executed)
          /\ Goto(c, "note_both") /\ UNCHANGED <<q, val>>
       \/ /\ pc[c] = "note_both" /\ memo' = note_cancelled(memo, m.cancelled)
          /\ Answered(c, f, IF f = "executed" THEN m.executed ELSE m.cancelled)
    /\ UNCHANGED <<load, world, faults, lock, up, scales, listing, backfill>>

\* another id's entry overflows MAX_ENTRIES and the whole memo is dropped
MemoOverflows ==
    /\ memo # Unsettled /\ Fault
    /\ memo' = Unsettled
    /\ UNCHANGED <<load, world, reqs, up, scales, listing, backfill>>

-----------------------------------------------------------------------------
(* The world: time, the chains *)

Expire(k) ==
    /\ Hit(k) /\ answers' = [answers EXCEPT ![k] = Some("expired", 0)]
    /\ UNCHANGED <<load, world, faults, reqs, inflight, memo, scales, listing, backfill>>

\* the destination gate settles; on Solana anyone may fund the marker first
GateMoves ==
    /\ load \cap {"executed", "cancelled", "status"} # {}
    /\ \/ flags = "pending" /\ vm = "solana" /\ flags' = "funded"
       \/ flags \in {"pending", "funded"} /\ flags' \in {"claimed", "cancelled"}
    /\ UNCHANGED <<load, vm, tx, listed, scale, log, faults, reqs, up, memo, scales, listing, backfill>>

\* A transaction is included, or included with an error, and dropped again with the fork it was
\* on or finalized; an error reads the same before and after.
TxMoves ==
    /\ "sigstatus" \in load
    /\ \/ tx = "pending" /\ tx' \in {"processed", "failed"}
       \/ tx = "processed" /\ tx' \in {"pending", "finalized"}
       \/ tx = "failed" /\ tx' = "pending"
    /\ UNCHANGED <<load, vm, flags, listed, scale, log, faults, reqs, up, memo, scales, listing, backfill>>

\* setBridgeDecimals: once
ScaleRegistered ==
    /\ "listed" \in load /\ scale = 0 /\ scale' \in Figures
    /\ UNCHANGED <<load, vm, flags, tx, listed, log, faults, reqs, up, memo, scales, listing, backfill>>

\* a block lists or delists a token of the pool
PoolMoves ==
    /\ "pool" \in load /\ tip < MaxBlocks
    /\ \E t \in Tokens :
          log' = Append(log, [token |-> t, on |-> t \notin Replay({}, 1..tip)])
    /\ UNCHANGED <<load, vm, flags, tx, listed, scale, faults, reqs, up, memo, scales, listing, backfill>>

-----------------------------------------------------------------------------
Serve(c) ==
    \/ Ask(c) \/ TakeTurn(c) \/ TakeSlot(c) \/ TimeOut(c) \/ Call(c) \/ Leave(c) \/ Done(c)
    \/ CallPool(c) \/ Scan(c) \/ ReadFlag(c) \/ NoteFlag(c) \/ Metered(c)

Backfilling == BackfillStart \/ BackfillStore \/ BackfillEnd

Next ==
    \/ \E c \in Callers :
          \/ \E x \in load : Request(c, x)
          \/ Serve(c) \/ CallFails(c) \/ Drop(c) \/ ReadFlagFails(c)
    \/ Backfilling \/ MemoOverflows \/ \E k \in Keys : Expire(k)
    \/ GateMoves \/ TxMoves \/ ScaleRegistered \/ PoolMoves

Spec == Init /\ [][Next]_vars

\* Every accepted request runs on, the background task too, answers grow old,
\* and pages keep polling.
LiveSpec ==
    /\ Spec
    /\ \A c \in Callers :
          WF_vars(Serve(c)) /\ WF_vars(\E x \in load : Request(c, x))
    /\ WF_vars(Backfilling) /\ \A k \in Keys : WF_vars(Expire(k))

-----------------------------------------------------------------------------
(* Properties *)

\* At most one upstream call is under way for one key, whatever requests time
\* out or are dropped while others wait on the key's lock (upstream.rs `cached`,
\* whose cleanup counts the handles of an entry it may not own any more). Keys over
\* CACHE_MAX_KEY take no lock: they are only counted against the slots.
OneCallPerKey ==
    \A c, d \in Deduped : Key(q[c]) = Key(q[d]) => c = d

\* A signature status is kept only as `finalized', which is then the cluster's for good, or as
\* `failed', of which that cannot be said (FailedIsFinal).
KeptStatusIsFinal ==
    Hit("sigstatus") =>
        \/ answers["sigstatus"].v = "finalized" /\ tx = "finalized"
        \/ answers["sigstatus"].v = "failed"

\* A figure that is served is the gate's, unless the gate could not be read.
WrongScaleOnlyIfUnread ==
    \A c \in Callers : pc[c] = "done" /\ val[c].v # 0 =>
        val[c].v = scale \/ val[c].gate.kind = "x"

\* The memo never calls a pending submission settled, nor a delivered one
\* burned. (That it never calls a burned one delivered is BurnedIsNeverDelivered,
\* which the code does not keep.)
MemoIsRight ==
    /\ memo.executed => flags \in {"claimed", "cancelled"}
    /\ memo.cancelled = "yes" => flags = "cancelled"

\* What the API keeps or serves about settled things is what the chains say, a failed
\* transaction excepted
\* (swap.rs SETTLED_TTL, schema.rs served_bridge_decimals, chain.rs TerminalCache).
SettledAnswersAreRight == KeptStatusIsFinal /\ WrongScaleOnlyIfUnread /\ MemoIsRight

\* The replayed listing ends up being the pool's, through failing chunks, half
\* delivered ones, dropped requests and the budget of chunks a call may spend
\* (swap.rs listed_tokens, scan_step, spawn_backfill).
ListingConverges == "pool" \in load => <>[](listing.live = Replay({}, 1..tip))

\* chain.rs: "`cancelled == false` is also final once `executed == true`". A read
\* taken before the burn and noted after another request noted `executed` makes
\* the memo call a burned submission delivered.
BurnedIsNeverDelivered == memo.cancelled = "no" => flags = "claimed"

\* swap.rs: "`finalized` and `failed` never change, so they are kept". signature_status says
\* `failed` of an error at any commitment, and a fork takes back what is not finalized.
FailedIsFinal ==
    Hit("sigstatus") /\ answers["sigstatus"].v = "failed" => tx = "failed"
=============================================================================
