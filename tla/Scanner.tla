------------------------------- MODULE Scanner -------------------------------
(***************************************************************************)
(* One validator's scan loop over one source chain                         *)
(* (crates/validator/src/main.rs, scan_source and handle_log), the state   *)
(* it shares with the operator API behind a mutex (state.rs, api.rs), and  *)
(* the state file it restarts from.                                        *)
(*                                                                         *)
(* A step is what happens between two releases of the mutex, or one await: *)
(* reading the cursor, reading a window of logs, checking one event's      *)
(* nonce, signing and storing that event, and closing the batch.  The      *)
(* operator's calls and a crash may come between any two.                  *)
(*                                                                         *)
(* The gate numbers its transfers per destination (module Gate).  What     *)
(* get_logs_corroborated returns is the window's events in chain order; an *)
(* endpoint nobody contradicts may leave some out or forge one.            *)
(***************************************************************************)
EXTENDS Integers, Sequences, FiniteSets, SequencesExt, FiniteSetsExt

CONSTANTS
  Log,          \* the gate's Sent events, in chain order
  MaxBlock,     \* bound: blocks
  Patience,     \* whether the operator waits until no batch runs: cases to consider
  RescanFrom,   \* blocks the operator asks to rescan from
  MaxCalls,     \* bound: pauses and rescans
  MaxFailures,  \* bound: events whose signing or storing fails
  MaxCrashes,   \* bound: crashes
  MaxLies       \* bound: windows with dropped events or a forged one

Event == {Log[i] : i \in DOMAIN Log}
Dest == {e.to : e \in Event}

\* Module Gate: a transfer takes the next number of its corridor.
GateNumbers ==
  \A i, j \in DOMAIN Log : i < j =>
    /\ Log[i].block <= Log[j].block
    /\ Log[i].to = Log[j].to =>
         /\ Log[i].nonce < Log[j].nonce
         /\ \E k \in i + 1 .. j : Log[k].to = Log[i].to /\ Log[k].nonce = Log[i].nonce + 1

ASSUME ScannerAssumption ==
  /\ DOMAIN Log = 1 .. Len(Log) /\ Len(Log) \in Nat /\ MaxBlock \in Nat
  /\ \A e \in Event : e.block \in 1 .. MaxBlock /\ e.nonce \in Nat /\ e.signable \in BOOLEAN
  /\ GateNumbers
  /\ RescanFrom \subseteq 0 .. MaxBlock
  /\ Patience \subseteq BOOLEAN
  /\ {MaxCalls, MaxFailures, MaxCrashes, MaxLies} \subseteq Nat

VARIABLES
  patient,    \* the operator calls between batches only; fixed from the start
  confirmed,  \* the newest block with block_confirmation blocks on top
  mem,        \* Runtime.persist: block cursor, nonce cursors, pause
  disk,       \* the state file
  loop,       \* where scan_source is, and its locals
  progress,   \* BatchProgress: the window it was kept for and what it stored
  signed,     \* events whose signature the store holds
  kept,       \* history: events accepted by a batch that went through
  owed,       \* history: block a rescan was asked from and not yet begun; 0 if none
  halted,     \* history: a pause nobody has lifted
  rescanned,  \* history: some rescan was asked for
  calls, failures, crashes, lies

vars == <<patient, confirmed, mem, disk, loop, progress, signed, kept, owed, halted, rescanned,
          calls, failures, crashes, lies>>

history == <<owed, halted, rescanned>>
bounds == <<calls, failures, crashes, lies>>

\* No nonce accepted yet in a corridor.
Unseen == -1

Reason == {"none", "operator", "missed", "duplicated", "mismatch"}

Idle == [phase |-> "poll", from |-> 0, to |-> 0, before |-> [d \in Dest |-> Unseen],
         todo |-> {}, forged |-> {}, taken |-> {}, ok |-> TRUE]

NoProgress == [from |-> 0, stored |-> {}]

\* load_or_init without a state file; the chain is scanned from block 1.
Fresh == [last |-> 0, nonces |-> [d \in Dest |-> Unseen], pause |-> "none"]

Init ==
  /\ patient \in Patience
  /\ confirmed = 0
  /\ mem = Fresh
  /\ disk = Fresh
  /\ loop = Idle
  /\ progress = NoProgress
  /\ signed = {} /\ kept = {}
  /\ owed = 0
  /\ halted = FALSE /\ rescanned = FALSE
  /\ calls = 0 /\ failures = 0 /\ crashes = 0 /\ lies = 0

-----------------------------------------------------------------------------
(* Runtime *)

next_block(m) == m.last + 1

paused(m) == m.pause # "none"

\* Mutant: a gap in the sequence is let through.
check_nonce_NoGap(m, e) ==
  IF m.nonces[e.to] # Unseen /\ e.nonce <= m.nonces[e.to] THEN "duplicated" ELSE "accept"

\* The first event of a corridor is always accepted.
check_nonce(m, e) ==
  IF m.nonces[e.to] = Unseen \/ e.nonce = m.nonces[e.to] + 1 THEN "accept"
  ELSE IF e.nonce <= m.nonces[e.to] THEN "duplicated"
  ELSE "missed"

accept_nonce(m, e) == [m EXCEPT !.nonces[e.to] = e.nonce]

\* Mutant: nothing is rolled back.
restore_nonces_Not(m, before) == m

restore_nonces(m, before) == [m EXCEPT !.nonces = before]

pause(m, why) == [m EXCEPT !.pause = why]

resume(m) == [m EXCEPT !.pause = "none"]

\* Mutant: the subtraction is not saturating.
rescan_from_Wraps(m, b) ==
  [m EXCEPT !.last = b - 1, !.nonces = [d \in Dest |-> Unseen], !.pause = "none"]

\* Mutant: the block cursor stays.
rescan_from_NoncesOnly(m, b) == [m EXCEPT !.nonces = [d \in Dest |-> Unseen], !.pause = "none"]

rescan_from(m, b) ==
  [m EXCEPT !.last = IF b = 0 THEN 0 ELSE b - 1,
            !.nonces = [d \in Dest |-> Unseen], !.pause = "none"]

\* Change the shared state and save it.
Persist(m) == mem' = m /\ disk' = m

\* Mutant: the stop is kept in memory only.
PersistPause_MemoryOnly(why) == mem' = pause(mem, why) /\ UNCHANGED disk

PersistPause(why) == Persist(pause(mem, why))

-----------------------------------------------------------------------------
(* scan_source *)

\* The loop's head: stop if paused, read the cursor, see whether it is confirmed.
Poll ==
  /\ loop.phase = "poll"
  /\ ~paused(mem)
  /\ confirmed >= next_block(mem)
  /\ loop' = [Idle EXCEPT !.phase = "fetch", !.from = next_block(mem)]
  /\ owed' = IF next_block(mem) <= owed THEN 0 ELSE owed
  /\ UNCHANGED <<patient, confirmed, mem, disk, progress, signed, kept, halted, rescanned, bounds>>

\* No answer, endpoints that disagree, no second opinion, no usable allowlist.
FetchNothing ==
  /\ loop.phase = "fetch"
  /\ loop' = Idle
  /\ UNCHANGED <<patient, confirmed, mem, disk, progress, signed, kept, history, bounds>>

InWindow(from, to) == {i \in DOMAIN Log : Log[i].block \in from .. to}

\* BatchProgress::for_window.
for_window(from) == IF progress.from = from THEN progress ELSE [from |-> from, stored |-> {}]

\* The window as read, clamped by the window cap and by what the endpoint has
\* confirmed; then the snapshot of the nonce cursors.
StartBatch(to, logs, forged) ==
  /\ loop' = [loop EXCEPT !.phase = "check", !.to = to, !.before = mem.nonces,
                          !.todo = logs, !.forged = forged]
  /\ progress' = for_window(loop.from)

Fetch ==
  /\ loop.phase = "fetch"
  /\ \E to \in loop.from .. confirmed : StartBatch(to, InWindow(loop.from, to), {})
  /\ UNCHANGED <<patient, confirmed, mem, disk, signed, kept, history, bounds>>

\* The answer of an endpoint that nobody contradicts (one endpoint, or all wrong).
FetchLie ==
  /\ loop.phase = "fetch"
  /\ lies < MaxLies
  /\ lies' = lies + 1
  /\ \E to \in loop.from .. confirmed :
       LET window == InWindow(loop.from, to)
       IN  \/ \E some \in SUBSET window : some # window /\ StartBatch(to, some, {})
           \/ \E i \in window : StartBatch(to, window, {Log[i]})
  /\ UNCHANGED <<patient, confirmed, mem, disk, signed, kept, history, calls, failures, crashes>>

\* Events are handled in chain order; this is the next one.
next_log == Log[Min(loop.todo)]

\* handle_log, first lock: the nonce sequence.
CheckNonce ==
  /\ loop.phase = "check"
  /\ loop.todo # {}
  /\ LET d == check_nonce(mem, next_log)
     IN \/ /\ d = "accept"
           /\ loop' = [loop EXCEPT !.phase = "store"]
           /\ UNCHANGED <<mem, disk, halted>>
        \/ /\ d # "accept"
           /\ PersistPause(d)
           /\ halted' = TRUE
           /\ loop' = [loop EXCEPT !.phase = "commit", !.ok = FALSE]
  /\ UNCHANGED <<patient, confirmed, progress, signed, kept, owed, rescanned, bounds>>

\* handle_log: an id that cannot be reproduced stops the scanner.
RefuseForged ==
  /\ loop.phase = "store"
  /\ next_log \in loop.forged
  /\ PersistPause("mismatch")
  /\ halted' = TRUE
  /\ loop' = [loop EXCEPT !.phase = "commit", !.ok = FALSE]
  /\ UNCHANGED <<patient, confirmed, progress, signed, kept, owed, rescanned, bounds>>

\* handle_log, the rest: withhold, or sign and store, then accept the nonce.
Store ==
  /\ loop.phase = "store"
  /\ LET e == next_log
     IN /\ e \notin loop.forged
        /\ IF e.signable /\ e \notin progress.stored
             THEN /\ signed' = signed \cup {e}
                  /\ progress' = [progress EXCEPT !.stored = @ \cup {e}]
             ELSE UNCHANGED <<signed, progress>>
        /\ mem' = accept_nonce(mem, e)
        /\ loop' = [loop EXCEPT !.phase = "check", !.todo = @ \ {Min(@)}, !.taken = @ \cup {e}]
  /\ UNCHANGED <<patient, confirmed, disk, kept, history, bounds>>

\* The scale read, the signer or the store fails; the store may have kept the
\* signature all the same.
StoreFails ==
  /\ loop.phase = "store"
  /\ next_log \notin loop.forged
  /\ failures < MaxFailures
  /\ failures' = failures + 1
  /\ signed' \in {signed, signed \cup {e \in {next_log} : e.signable}}
  /\ loop' = [loop EXCEPT !.phase = "commit", !.ok = FALSE]
  /\ UNCHANGED <<patient, confirmed, mem, disk, progress, kept, history, calls, crashes, lies>>

BatchDone ==
  /\ loop.phase = "check"
  /\ loop.todo = {}
  /\ loop' = [loop EXCEPT !.phase = "commit"]
  /\ UNCHANGED <<patient, confirmed, mem, disk, progress, signed, kept, history, bounds>>

\* Mutant: the cursor jumps to the head that was cached before the read.
scanned_to_Cached == confirmed

scanned_to == loop.to

\* The batch's last lock: advance the block cursor, or put the nonces back.
Commit ==
  /\ loop.phase = "commit"
  /\ Persist(IF loop.ok THEN [mem EXCEPT !.last = scanned_to]
                        ELSE restore_nonces(mem, loop.before))
  /\ kept' = IF loop.ok THEN kept \cup loop.taken ELSE kept
  /\ loop' = Idle
  /\ UNCHANGED <<patient, confirmed, progress, signed, history, bounds>>

-----------------------------------------------------------------------------
(* Operator API *)

Attending == patient => loop.phase = "poll"

pause_one ==
  /\ Attending
  /\ calls < MaxCalls
  /\ calls' = calls + 1
  /\ PersistPause("operator")
  /\ halted' = TRUE
  /\ UNCHANGED <<patient, confirmed, loop, progress, signed, kept, owed, rescanned, failures, crashes, lies>>

resume_one ==
  /\ Attending
  /\ Persist(resume(mem))
  /\ halted' = FALSE
  /\ UNCHANGED <<patient, confirmed, loop, progress, signed, kept, owed, rescanned, bounds>>

\* An operator rescans what was scanned (a later block would be told to skip some).
rescan_one(b) ==
  /\ Attending
  /\ b <= next_block(mem)
  /\ calls < MaxCalls
  /\ calls' = calls + 1
  /\ Persist(rescan_from(mem, b))
  /\ halted' = FALSE
  /\ owed' = IF b = 0 THEN 1 ELSE b
  /\ rescanned' = TRUE
  /\ UNCHANGED <<patient, confirmed, loop, progress, signed, kept, failures, crashes, lies>>

-----------------------------------------------------------------------------
(* Chain and process *)

NewBlock ==
  /\ confirmed < MaxBlock
  /\ confirmed' = confirmed + 1
  /\ UNCHANGED <<patient, mem, disk, loop, progress, signed, kept, history, bounds>>

\* The process dies and starts again from its state file (load_or_init).
Restart ==
  /\ crashes < MaxCrashes
  /\ crashes' = crashes + 1
  /\ mem' = disk
  /\ loop' = Idle
  /\ progress' = NoProgress
  /\ UNCHANGED <<patient, confirmed, disk, signed, kept, history, calls, failures, lies>>

Batch == CheckNonce \/ RefuseForged \/ Store \/ BatchDone \/ Commit

Next ==
  \/ Poll \/ Fetch \/ FetchNothing \/ FetchLie
  \/ Batch \/ StoreFails
  \/ pause_one \/ resume_one \/ (\E b \in RescanFrom : rescan_one(b))
  \/ NewBlock \/ Restart

Spec == Init /\ [][Next]_vars

\* The loop runs on, some window is eventually readable, and the operator lifts
\* the pauses.
Fairness == WF_vars(Poll) /\ SF_vars(Fetch) /\ WF_vars(Batch) /\ SF_vars(resume_one)

LiveSpec == Spec /\ Fairness

-----------------------------------------------------------------------------
(* Properties *)

State == [last: 0 .. MaxBlock, nonces: [Dest -> {Unseen} \cup {e.nonce : e \in Event}],
          pause: Reason]

\* Type correctness of the shared state, the file and the loop's locals.
TypeOK ==
  /\ confirmed \in 0 .. MaxBlock
  /\ mem \in State /\ disk \in State
  /\ loop.phase \in {"poll", "fetch", "check", "store", "commit"}
  /\ loop.from \in 0 .. MaxBlock /\ loop.to \in 0 .. MaxBlock
  /\ loop.todo \subseteq DOMAIN Log /\ loop.forged \subseteq Event
  /\ loop.phase = "store" => loop.todo # {}
  /\ progress.from \in 0 .. MaxBlock /\ progress.stored \subseteq signed
  /\ signed \subseteq Event /\ kept \subseteq Event
  /\ owed \in 0 .. MaxBlock /\ {halted, rescanned, patient} \subseteq BOOLEAN

\* The block cursor, in memory and on disk, is only ever past events whose
\* signature is in the store, however crashes, failures and operator calls fall,
\* unless an endpoint nobody contradicted hid one.
CursorIsCovered ==
  lies = 0 =>
    \A e \in Event : e.signable /\ (e.block <= mem.last \/ e.block <= disk.last) => e \in signed

\* check_nonce: a transfer hidden between two others is noticed.  Without rescans, nothing is
\* missing between two transfers of a corridor that were accepted for good, whatever the
\* endpoints left out.  (A first transfer whose batch failed leaves no cursor to compare with.)
NoHoles ==
  ~rescanned =>
    \A e, g \in kept : \A f \in Event :
      /\ e.to = f.to /\ f.to = g.to /\ e.nonce < f.nonce /\ f.nonce < g.nonce
      /\ f.signable
      => f \in signed

\* Persist::paused: a safety stop holds until an operator lifts it, across crashes
\* and across the batch that was running when it was set.
SafetyStopHolds == halted => paused(mem) /\ paused(disk)

\* The comments on nonce_snapshot and restore_nonces: with endpoints that tell the
\* truth, the scanner never stops itself.
CursorsAdvanceTogether == lies = 0 => mem.pause \in {"none", "operator"}

\* check_nonce, nonce_snapshot and restore_nonces: there is no such false alarm when
\* the operator's calls fall between batches, whatever fails or crashes.
NoFalseAlarm == patient => CursorsAdvanceTogether

\* rescan_from's comment: the block cursor stays at or before the block a rescan was
\* asked from until a window from there has been begun.
RescanTakesEffect == owed # 0 => next_block(mem) <= owed

\* rescan_from: the same when the operator's calls fall between batches.
RescanIsHonoured == patient => RescanTakesEffect

\* The scanner catches up again and again: every transfer the gate confirms is signed in
\* the end, unless an endpoint hid it, as long as paused scanners are resumed and operators
\* call between batches.
EverySendIsSigned ==
  []<>(patient /\ lies = 0 =>
         \A e \in Event : e.signable /\ e.block <= confirmed => e \in signed)

\* Neither the cursor nor a hidden event makes the scanner skip a transfer it could sign.
NothingSkipped == CursorIsCovered /\ NoHoles

\* What the operator stopped stays stopped, what the operator asked to rescan is rescanned, and
\* nothing but evidence stops the scanner.
OperatorIsObeyed == SafetyStopHolds /\ RescanIsHonoured /\ NoFalseAlarm
=============================================================================
