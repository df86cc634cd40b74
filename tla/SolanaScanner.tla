--------------------------- MODULE SolanaScanner ---------------------------
(* The source half of solana-relayer (source.rs, state.rs): one process     *)
(* that walks the gate program's transactions, decides which logged `Sent`  *)
(* events are real, and posts its signature for them to the sig-store.      *)
(*                                                                          *)
(* A transaction is known by its place in `history`, an event by <<tx, n>>, *)
(* the n-th line that the gate printed in it.  What an event says is        *)
(* abstracted to the answers the scanner's checks give about it:            *)
(*   version   the version byte of the payload                              *)
(*   decodes   the payload deserializes as a SentEvent                      *)
(*   bound     its id reproduces under the gate's domain and chain id       *)
(*   recorded  the gate's live ["sent", id] record agrees with it           *)
(*   token     the asset it names                                           *)
(*   refused   the store answers 400, 409, 413 or 422 to its record         *)
(* Awaits are where the steps are cut: other actors run between the reads   *)
(* of the allowlist, of a page, of an event's facts, the post and the save. *)
EXTENDS Integers, Sequences, FiniteSets, SequencesExt

CONSTANTS
  Txs,           \* what a transaction that mentions the gate may look like
  Tokens,        \* assets
  Asset,         \* token -> its ["asset", id] account: layout and scale
  Corridor,      \* token -> the scale its destination registered, or NoScale
  Reader,        \* the tokens whose destination this relayer has a reader for
  Lists,         \* the allowlists the store may serve; empty restricts nothing
  Configs,       \* gate configurations this relayer may be pointed at
  ChainId,       \* [source].chain_id
  MaxBatch,      \* [source].max_batch
  MaxPages,      \* MAX_PAGES
  MAX_QUARANTINED,  \* the entries the quarantine list holds
  MaxTxs, MaxFaults, MaxCrashes    \* bounds of the model

SENT_EVENT_VERSION == 2
NoScale == -1
NoTip == 0

VARIABLES
  history,       \* the program's finalized transactions, oldest first
  signed,        \* events whose record, with our signature, is in the store
  gateConfig,    \* the config account at this relayer's program_id
  start_at_tip,  \* [source].start_at_tip
  file,          \* the cursor file: [last, quarantined]
  cursor,        \* the same in memory
  view,          \* the allowlist fetched for this tick
  pc,            \* where the loop stands
  walk,          \* the range read so far: [lo, hi, pages]
  line,          \* index of the next line of transaction walk.lo
  begins,        \* the oldest transaction a start at the tip reached
  faults, crashes

chain == <<history, gateConfig, start_at_tip>>
bounds == <<faults, crashes>>
scannerVars == <<chain, signed, file, cursor, view, pc, walk, line, begins, bounds>>

NoWalk == [lo |-> 1, hi |-> 0, pages |-> 0]
NoCursor == [last |-> NoTip, quarantined |-> <<>>]

-----------------------------------------------------------------------------
(* Logs and events.                                                         *)

\* The runtime brackets what each program prints with an invoke line and a
\* terminator; a data line belongs to the innermost program.
Read(state, entry) ==
  CASE entry.kind = "invoke" -> [state EXCEPT !.stack = Append(@, entry.who)]
    [] entry.kind = "end"    -> IF state.stack = <<>> THEN state
                                ELSE [state EXCEPT !.stack = Front(@)]
    [] entry.kind = "data"   -> IF state.stack /= <<>> /\ Last(state.stack) = "gate"
                                THEN [state EXCEPT !.out = Append(@, entry.event)]
                                ELSE state

gate_program_data_lines(logs) ==
  FoldLeft(Read, [stack |-> <<>>, out |-> <<>>], logs).out

\* What the gate program prints for a send, and only for one.
emit_sent(token) ==
  [version |-> SENT_EVENT_VERSION, decodes |-> TRUE, bound |-> TRUE, recorded |-> TRUE,
   token |-> token, refused |-> FALSE]

\* A failed transaction committed no event.
LinesOf == [tx \in Txs |-> IF tx.err THEN <<>> ELSE gate_program_data_lines(tx.logs)]

\* Each transaction holds a list of events, and a registered scale is a number.
ASSUME SolanaScannerAssumption ==
  /\ LinesOf \in [Txs -> Seq([version: Nat, decodes: BOOLEAN, bound: BOOLEAN, recorded: BOOLEAN,
                              token: Tokens, refused: BOOLEAN])]
  /\ Asset \in [Tokens -> [layout: STRING, bridge_decimals: Nat]]
  /\ MaxBatch \in Nat /\ MAX_QUARANTINED \in Nat \ {0}
Lines(tx) == LinesOf[history[tx]]
Events == UNION {{<<tx, n>> : n \in 1..Len(Lines(tx))} : tx \in 1..Len(history)}
Event(e) == Lines(e[1])[e[2]]

\* The event is of a later program than this relayer can read.
ahead_OrBad(ev) == ev.version /= SENT_EVENT_VERSION \/ ~ev.decodes \/ ~ev.bound
ahead(ev) == ev.version > SENT_EVENT_VERSION

\* It parses, at this relayer's version, and its id can be reproduced here.
to_sent(ev) == ev.decodes /\ ev.version = SENT_EVENT_VERSION
signable(ev) == ev.bound /\ gateConfig.chain_id = ChainId

\* What a log names against the program's own record of it: only a `send`
\* writes the record, and one a refund has zeroed proves nothing.
verify_sent_record_Any(e) == TRUE
verify_sent_record(e) == Event(e).recorded

origin_proof_holds(e) == verify_sent_record(e)

\* The reader decodes the current layout of an asset account only.
asset_for(token) == Asset[token].layout = "current"

\* What the destination gate answers; a read that fails in transit is a Fault.
\* A registration is written once, so a cached answer is the current one.
bridge_decimals_for(token) == IF token \in Reader THEN Corridor[token] ELSE NoScale
scale_agrees(token) == bridge_decimals_for(token) = Asset[token].bridge_decimals

token_allowed(list, token) == list = {} \/ token \in list
allowlist_permits(token) == token_allowed(view, token)

-----------------------------------------------------------------------------
(* The cursor.                                                              *)

\* The save may fail: the error ends the tick, memory keeps what it has.
Save(next) ==
  \/ file' = cursor' /\ pc' = next /\ UNCHANGED bounds
  \/ /\ faults < MaxFaults
     /\ faults' = faults + 1 /\ pc' = "idle"
     /\ UNCHANGED <<file, crashes>>

\* The list takes an event once while it is there, and a full list lets its
\* oldest entry go.
Drained(list) == IF Len(list) > MAX_QUARANTINED THEN Tail(list) ELSE list
quarantine(tx, n) ==
  cursor' = IF <<tx, n>> \in Range(cursor.quarantined) THEN cursor
            ELSE [cursor EXCEPT !.quarantined = Drained(Append(@, <<tx, n>>))]

Fault ==
  /\ faults < MaxFaults
  /\ faults' = faults + 1
  /\ pc' = IF pc = "start" THEN "start" ELSE "idle"
  /\ UNCHANGED <<chain, signed, file, cursor, view, walk, line, begins, crashes>>

-----------------------------------------------------------------------------
(* The loop.                                                                *)

\* A gate of another chain, or one with no domain, is never scanned.
load_bridge_domain ==
  gateConfig.owned /\ gateConfig.chain_id = ChainId /\ gateConfig.bridge_domain /= 0

Start ==
  /\ pc = "start" /\ load_bridge_domain
  /\ pc' = "idle"
  /\ UNCHANGED <<chain, signed, file, cursor, view, walk, line, begins, bounds>>

\* A tick begins by fetching the allowlist that is in force; without it there
\* is no tick.  The operator may change it at any time after.
tick ==
  /\ pc = "idle" /\ view' \in Lists
  /\ pc' = "collect" /\ walk' = NoWalk
  /\ UNCHANGED <<chain, signed, file, cursor, line, begins, bounds>>

walks_to_start(has_cursor) == has_cursor \/ ~start_at_tip

next_page_action_OnePage(page_len, page_index) == "Complete"
next_page_action(page_len, page_index) ==
  IF page_len < MaxBatch \/ ~walks_to_start(cursor.last /= NoTip) THEN "Complete"
  ELSE IF page_index + 1 >= MaxPages THEN "TooDeep" ELSE "KeepWalking"

\* One page: the newest MaxBatch transactions before the last one read, down
\* to the cursor.  New ones may land at the tip while the walk goes down.
collect_since_cursor ==
  /\ pc = "collect"
  /\ LET hi == IF walk.pages = 0 THEN Len(history) ELSE walk.hi
         before == IF walk.pages = 0 THEN hi + 1 ELSE walk.lo
         room == before - 1 - cursor.last
         len == IF room < MaxBatch THEN room ELSE MaxBatch
         action == next_page_action(len, walk.pages)
         read == [lo |-> before - len, hi |-> hi, pages |-> walk.pages + 1]
     IN  /\ walk' = IF action = "TooDeep" THEN NoWalk ELSE read
         /\ pc' = IF action = "KeepWalking" THEN "collect"
                  ELSE IF action = "TooDeep" \/ read.lo > hi THEN "idle" ELSE "process"
         /\ begins' = IF action = "Complete" /\ cursor.last = NoTip THEN read.lo ELSE begins
  /\ line' = 1
  /\ UNCHANGED <<chain, signed, file, cursor, view, bounds>>

\* One gate-attributed line of transaction walk.lo; the whole decision but
\* the post.  An event of a newer program ends the tick with the cursor put.
process_line ==
  /\ pc = "process" /\ line <= Len(Lines(walk.lo))
  /\ LET e == <<walk.lo, line>>
         ev == Event(e)
         t == ev.token
     IN  \/ /\ ahead(ev)
            /\ pc' = "idle" /\ UNCHANGED <<file, cursor, line, bounds>>
         \/ /\ ~ahead(ev) /\ (~to_sent(ev) \/ ~signable(ev))
            /\ quarantine(walk.lo, line)
            /\ line' = line + 1
            /\ IF cursor' = cursor THEN pc' = pc /\ UNCHANGED <<file, bounds>> ELSE Save("process")
         \/ /\ to_sent(ev) /\ signable(ev)
            /\ IF /\ asset_for(t) /\ origin_proof_holds(e)
                  /\ scale_agrees(t) /\ allowlist_permits(t)
               THEN pc' = "post" /\ line' = line
               ELSE pc' = pc /\ line' = line + 1
            /\ UNCHANGED <<file, cursor, bounds>>
  /\ UNCHANGED <<chain, signed, view, walk, begins>>

is_permanent(ev) == ev.refused

\* The post: taken; taken although the answer is lost; or refused, for good
\* (the event is quarantined) or not (the tick ends).
upsert ==
  /\ pc = "post"
  /\ LET e == <<walk.lo, line>>
     IN  IF is_permanent(Event(e))
         THEN /\ quarantine(walk.lo, line)
              /\ line' = line + 1
              /\ IF cursor' = cursor THEN pc' = "process" /\ UNCHANGED <<file, bounds>> ELSE Save("process")
              /\ UNCHANGED signed
         ELSE /\ signed' = signed \cup {e}
              /\ \/ line' = line + 1 /\ pc' = "process" /\ UNCHANGED bounds
                 \/ /\ faults < MaxFaults
                    /\ faults' = faults + 1 /\ pc' = "idle"
                    /\ UNCHANGED <<line, crashes>>
              /\ UNCHANGED <<file, cursor>>
  /\ UNCHANGED <<chain, view, walk, begins>>

\* All lines handled (a failed transaction has none): the cursor moves past
\* the transaction and is saved, and the next one is taken.
Done == pc = "process" /\ line > Len(Lines(walk.lo))

advance ==
  /\ Done
  /\ cursor' = [cursor EXCEPT !.last = walk.lo]
  /\ Save(IF walk.lo = walk.hi THEN "idle" ELSE "process")
  /\ walk' = IF pc' = "process" THEN [walk EXCEPT !.lo = @ + 1] ELSE walk
  /\ line' = 1
  /\ UNCHANGED <<chain, signed, view, begins>>

\* The process dies and starts again from its cursor file.
Crash ==
  /\ crashes < MaxCrashes
  /\ crashes' = crashes + 1
  /\ cursor' = file /\ pc' = "start" /\ view' = {} /\ walk' = NoWalk /\ line' = 1
  /\ UNCHANGED <<chain, signed, file, begins, faults>>

-----------------------------------------------------------------------------
(* The world around it.                                                     *)

Land ==
  /\ Len(history) < MaxTxs
  /\ \E tx \in Txs : history' = Append(history, tx)
  /\ UNCHANGED <<gateConfig, start_at_tip, signed, file, cursor,
                 view, pc, walk, line, begins, bounds>>

ScannerInit ==
  /\ history = <<>> /\ signed = {}
  /\ gateConfig \in Configs /\ start_at_tip \in BOOLEAN
  /\ file = NoCursor /\ cursor = NoCursor
  /\ view = {}
  /\ pc = "start" /\ walk = NoWalk /\ line = 1 /\ begins = 1
  /\ faults = 0 /\ crashes = 0

ScannerNext ==
  \/ Start \/ tick \/ collect_since_cursor \/ process_line \/ upsert \/ advance
  \/ Fault \/ Crash
  \/ Land

ScannerSpec == ScannerInit /\ [][ScannerNext]_scannerVars

\* The loop never sleeps for good: each of its steps happens once it can.
LiveSpec ==
  /\ ScannerSpec
  /\ WF_scannerVars(Start) /\ WF_scannerVars(tick) /\ WF_scannerVars(collect_since_cursor)
  /\ WF_scannerVars(process_line) /\ WF_scannerVars(upsert) /\ WF_scannerVars(advance)

-----------------------------------------------------------------------------
(* Properties.                                                              *)

\* Tokens nothing stands in the way of, whenever a transfer of them is read.
Steady ==
  {t \in Reader :
     Corridor[t] = Asset[t].bridge_decimals /\ \A l \in Lists : l = {} \/ t \in l}

\* A transfer the gate locked, of such a token, whose event is readable here.
Owed(e) == LET ev == Event(e) IN ev.recorded /\ to_sent(ev) /\ ev.bound /\ ev.token \in Steady
Newer(e) == Event(e).version > SENT_EVENT_VERSION
Known(e) == asset_for(Event(e).token)

\* The list still names the event, or is full of ones that were put there
\* later, none of them from an older transaction.
Listed(e, list) ==
  \/ e \in Range(list)
  \/ Len(list) = MAX_QUARANTINED /\ \A i \in DOMAIN list : e[1] <= list[i][1]

\* Everything at or below the saved cursor has been dealt with, although
\* pages are read newest first while transactions land, saves and reads fail
\* and the process dies anywhere: a transfer that can be signed is signed,
\* one that never can be was put in the quarantine list of the same file and
\* is there until newer ones fill it, and an event of a newer program is
\* never scanned past (`tick`, `process_line`, `Cursor::quarantine`).
NoHoles ==
  \A e \in Events : begins <= e[1] /\ e[1] <= file.last =>
    LET ev == Event(e)
        lost == Owed(e) /\ Known(e)
    IN  /\ ~Newer(e)
        /\ lost /\ ~ev.refused => e \in signed
        /\ (lost /\ ev.refused) \/ ~to_sent(ev) \/ ~ev.bound => Listed(e, file.quarantined)

\* Only transfers the gate recorded, at the scale their destination pays, are
\* ever signed, whatever other programs print in the same transaction
\* (`gate_program_data_lines`, `handle`).
SignedIsReal ==
  \A e \in signed :
    LET ev == Event(e) IN
    /\ ev.recorded /\ ev.bound
    /\ ev.token \in Reader /\ Corridor[ev.token] = Asset[ev.token].bridge_decimals

\* Neither misses nor invents: NoHoles and SignedIsReal (`tick`, `handle`).
ScanIsFaithful == NoHoles /\ SignedIsReal

\* The backlog is deeper than one walk goes, or an upgraded gate is ahead of
\* this relayer: both wait for the operator.
Halted ==
  \/ Len(history) - cursor.last >= MaxBatch * MaxPages
  \/ \E e \in Events : Newer(e)
  \/ start_at_tip \/ gateConfig.chain_id /= ChainId

\* No event, however malformed, forged or refused, stops the ones behind it:
\* every transfer owed a signature gets it (`process_line`, `quarantine`).
EverySendIsSigned ==
  \A tx \in 1..MaxTxs :
    (tx <= Len(history))
      ~> (Halted \/ \A e \in Events : e[1] = tx /\ Owed(e) /\ Known(e) /\ ~Event(e).refused => e \in signed)

\* What `asset_for` says of an account it does not decode: no genuine `send`
\* could have produced it.  So nothing the gate locked is passed over as forged.
RejectedIsForged ==
  \A e \in Events :
    begins <= e[1] /\ e[1] <= file.last /\ Owed(e) /\ ~Event(e).refused
      => e \in signed
=============================================================================
