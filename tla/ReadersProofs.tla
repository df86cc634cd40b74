---------------------------- MODULE ReadersProofs ----------------------------
(***************************************************************************)
(* Proofs about the two that follow a gate's events.                       *)
(*                                                                         *)
(* Module Scanner, for any log the gate can have written and any number of *)
(* operator calls, failures, crashes and lying endpoints: the cursor       *)
(* passes only what is signed, a hidden transfer is noticed, and the       *)
(* operator's stops and rescans hold.                                      *)
(*                                                                         *)
(* Module Lifecycle, for any deployment and any number of validators,      *)
(* failed writes and collected markers: the queues and the history say     *)
(* what the chains say, and a refunded row stays refunded.                 *)
(***************************************************************************)
EXTENDS Scanner, Lifecycle, WellFoundedInduction, TLAPS

-----------------------------------------------------------------------------
(* The scanner's inductive invariant *)

Cursors == [last : Nat, nonces : [Dest -> Int], pause : Reason]
Loops == [phase : {"poll", "fetch", "check", "store", "commit"}, from : Nat, to : Nat,
          before : [Dest -> Int], todo : SUBSET DOMAIN Log, forged : SUBSET Event,
          taken : SUBSET Event, ok : BOOLEAN]
InBatch == loop.phase \in {"check", "store", "commit"}

\* Memory and file hold the same block cursor; what a batch remembers to have stored is stored.
ScanTypes ==
  /\ mem \in Cursors /\ disk \in Cursors /\ disk.last = mem.last
  /\ loop \in Loops /\ confirmed \in Nat /\ {lies, owed} \subseteq Nat
  /\ progress \in [from : Nat, stored : SUBSET Event] /\ progress.stored \subseteq signed
  /\ kept \subseteq Event
  /\ loop.phase = "store" => loop.todo # {}
  /\ loop.phase = "commit" /\ loop.ok => loop.todo = {}
  /\ loop.phase # "poll" => loop.from # 0

StopHolds == halted => paused(mem) /\ paused(disk)

\* A patient operator's rescan is taken up by the next batch.
RescanWaits == patient /\ owed # 0 => loop.phase = "poll" /\ mem.last < owed

\* Everything behind the cursor is signed, and behind a running batch, and what that batch has
\* already handled.
Covered(n) == \A i \in DOMAIN Log : Log[i].signable /\ Log[i].block <= n => Log[i] \in signed
AllCovered ==
  lies = 0 =>
    /\ Covered(mem.last)
    /\ loop.phase # "poll" => Covered(loop.from - 1)
    /\ InBatch => \A i \in InWindow(loop.from, loop.to) :
                    Log[i].signable => i \in loop.todo \/ Log[i] \in signed

\* From an event of K on, what a nonce cursor has passed is in S.
Unbroken(nonces, K, S) ==
  \A e \in K : /\ e.nonce <= nonces[e.to]
               /\ \A f \in Event : /\ f.to = e.to /\ f.signable
                                   /\ e.nonce < f.nonce /\ f.nonce <= nonces[e.to]
                                   => f \in S

\* The cursors never fall back behind what was accepted for good.
AllUnbroken ==
  ~ rescanned =>
    /\ Unbroken(mem.nonces, kept \cup loop.taken, signed)
    /\ Unbroken(disk.nonces, kept, signed)
    /\ InBatch => Unbroken(loop.before, kept, signed)
    /\ loop.phase = "store" => check_nonce(mem, next_log) = "accept"

\* A nonce cursor is that of the last event of its corridor among those in D.
InSync(nonces, D) ==
  \A d \in Dest : nonces[d] # Unseen =>
    \E i \in D : /\ Log[i].to = d /\ Log[i].nonce = nonces[d]
                 /\ \A k \in D : Log[k].to = d => k <= i
Behind(n) == {i \in DOMAIN Log : Log[i].block <= n}

\* With endpoints that tell the truth and operators who wait, nonces and blocks agree.
AllInSync ==
  patient /\ lies = 0 =>
    /\ mem.pause \in {"none", "operator"} /\ disk.pause \in {"none", "operator"}
    /\ InSync(disk.nonces, Behind(disk.last))
    /\ loop.phase \in {"poll", "fetch"} => InSync(mem.nonces, Behind(mem.last))
    /\ loop.phase # "poll" => loop.from = mem.last + 1
    /\ InBatch =>
         /\ loop.forged = {} /\ loop.from <= loop.to
         /\ InSync(loop.before, Behind(mem.last))
         /\ InSync(mem.nonces, Behind(loop.to) \ loop.todo)
         /\ loop.todo \subseteq InWindow(loop.from, loop.to)
         /\ \A j \in loop.todo : \A i \in InWindow(loop.from, loop.to) : j <= i => i \in loop.todo

ScanInv == ScanTypes /\ StopHolds /\ RescanWaits /\ AllCovered /\ AllUnbroken /\ AllInSync

-----------------------------------------------------------------------------
(* Operators *)

LEMMA LeastOfNat ==
  ASSUME NEW S, S \subseteq Nat, S # {}
  PROVE  Min(S) \in S /\ \A i \in S : Min(S) <= i
<1>1. PICK m \in S : \A i \in S : ~(<<i, m>> \in OpToRel(<, Nat))
  BY NatLessThanWellFounded, WFMin
<1>2. \A i \in S : ~(i < m)
  BY <1>1 DEF OpToRel
<1>3. \E x \in S : \A y \in S : x <= y
  BY <1>2
<1>4. QED
  BY <1>3 DEF Min

\* The next log of a batch is one it has not handled, and the earliest of them.
LEMMA NextLog ==
  ASSUME loop.todo \subseteq DOMAIN Log, loop.todo # {}
  PROVE  /\ Min(loop.todo) \in loop.todo /\ \A i \in loop.todo : Min(loop.todo) <= i
         /\ next_log = Log[Min(loop.todo)] /\ next_log \in Event
<1>1. loop.todo \subseteq Nat
  BY ScannerAssumption
<1>2. QED
  BY <1>1, LeastOfNat DEF next_log, Event

LEMMA Events ==
  /\ DOMAIN Log \subseteq Nat
  /\ \A i \in DOMAIN Log : /\ Log[i] \in Event /\ Log[i].to \in Dest
                            /\ Log[i].block \in Nat \ {0} /\ Log[i].nonce \in Nat
  /\ \A e \in Event : e.nonce \in Nat /\ e.block \in Nat \ {0} /\ e.to \in Dest
BY ScannerAssumption DEF Event, Dest

\* check_nonce lets through the first of a corridor, and then only the next.
LEMMA Accepted ==
  ASSUME NEW m, NEW e, m.nonces[e.to] \in Int, e.nonce \in Nat
  PROVE  /\ check_nonce(m, e) \in {"accept", "duplicated", "missed"}
         /\ check_nonce(m, e) = "accept" <=> m.nonces[e.to] = Unseen \/ e.nonce = m.nonces[e.to] + 1
BY DEF check_nonce

-----------------------------------------------------------------------------
(* What each action does to the cursors and to the loop *)

LEMMA IdleFields ==
  /\ Idle \in Loops /\ Idle.phase = "poll" /\ Idle.todo = {} /\ Idle.taken = {}
  /\ Idle.forged = {} /\ Idle.ok = TRUE
<1> DEFINE f == [d \in Dest |-> Unseen]
<1>1. f \in [Dest -> Int]
  BY DEF Unseen
<1>2. Idle = [phase |-> "poll", from |-> 0, to |-> 0, before |-> f,
              todo |-> {}, forged |-> {}, taken |-> {}, ok |-> TRUE]
  BY DEF Idle
<1> HIDE DEF f
<1>3. QED
  BY <1>1, <1>2 DEF Loops

LEMMA PollFields ==
  ASSUME ScanTypes, Poll
  PROVE  /\ UNCHANGED <<patient, confirmed, mem, disk, progress, signed, kept, halted, rescanned, bounds>>
         /\ loop.phase = "poll" /\ loop' \in Loops /\ loop'.phase = "fetch" /\ loop'.from = mem.last + 1
         /\ loop'.todo = {} /\ loop'.taken = {}
         /\ owed' = IF mem.last + 1 <= owed THEN 0 ELSE owed
<1>1. loop' = [Idle EXCEPT !.phase = "fetch", !.from = mem.last + 1] /\ mem.last + 1 \in Nat
  BY DEF Poll, ScanTypes, Cursors, next_block
<1> DEFINE n == mem.last + 1
<1> HIDE DEF n
<1>2. loop' \in Loops /\ loop'.phase = "fetch" /\ loop'.from = n /\ loop'.todo = {} /\ loop'.taken = {}
  BY <1>1, IdleFields DEF Loops, n
<1>3. QED
  BY <1>2 DEF Poll, next_block, n

LEMMA BatchFields ==
  ASSUME ScanTypes, Fetch \/ FetchLie
  PROVE  /\ UNCHANGED <<patient, confirmed, mem, disk, signed, kept, history, calls, failures, crashes>>
         /\ loop.phase = "fetch" /\ loop' \in Loops /\ loop'.phase = "check" /\ loop'.from = loop.from
         /\ loop'.to >= loop.from /\ loop'.before = mem.nonces /\ loop'.taken = loop.taken
         /\ \/ /\ UNCHANGED lies /\ loop'.forged = {} /\ loop'.todo = InWindow(loop.from, loop'.to)
            \/ lies' = lies + 1
         /\ progress' \in [from : Nat, stored : SUBSET Event] /\ progress'.stored \subseteq signed
<1> USE DEF ScanTypes, Loops
<1>1. for_window(loop.from) \in [from : Nat, stored : SUBSET Event] /\ for_window(loop.from).stored \subseteq signed
  BY DEF for_window
<1>2. ASSUME NEW to \in loop.from .. confirmed, NEW some \in SUBSET DOMAIN Log,
             NEW F \in SUBSET Event, StartBatch(to, some, F)
      PROVE  /\ loop' \in Loops /\ loop'.phase = "check" /\ loop'.from = loop.from
             /\ loop'.to = to /\ to >= loop.from /\ loop'.before = mem.nonces
             /\ loop'.taken = loop.taken /\ loop'.forged = F /\ loop'.todo = some
             /\ progress' = for_window(loop.from)
  <2>1. mem.nonces \in [Dest -> Int] /\ to \in Nat /\ to >= loop.from
    BY DEF Cursors
  <2>2. loop' = [loop EXCEPT !.phase = "check", !.to = to, !.before = mem.nonces,
                             !.todo = some, !.forged = F]
        /\ progress' = for_window(loop.from)
    BY <1>2 DEF StartBatch
  <2>3. QED
    BY <2>1, <2>2
<1>3. CASE Fetch
  <2>1. PICK to \in loop.from .. confirmed : StartBatch(to, InWindow(loop.from, to), {})
    BY <1>3 DEF Fetch
  <2>2. InWindow(loop.from, to) \subseteq DOMAIN Log
    BY DEF InWindow
  <2>3. QED
    BY <1>1, <1>2, <1>3, <2>1, <2>2 DEF Fetch, bounds
<1>4. CASE FetchLie
  <2>1. PICK to \in loop.from .. confirmed, some \in SUBSET DOMAIN Log, F \in SUBSET Event :
           StartBatch(to, some, F)
    <3>1. PICK to \in loop.from .. confirmed :
             \/ \E some \in SUBSET InWindow(loop.from, to) : StartBatch(to, some, {})
             \/ \E i \in InWindow(loop.from, to) : StartBatch(to, InWindow(loop.from, to), {Log[i]})
      BY <1>4 DEF FetchLie
    <3>2. /\ InWindow(loop.from, to) \in SUBSET DOMAIN Log
          /\ \A i \in InWindow(loop.from, to) : {Log[i]} \in SUBSET Event
      BY DEF InWindow, Event
    <3>3. QED
      BY <3>1, <3>2
  <2>2. QED
    BY <1>1, <1>2, <1>4, <2>1 DEF FetchLie
<1>5. QED
  BY <1>3, <1>4

\* A log is accepted for handling, or the scanner stops itself: a break in the sequence, an id
\* that is not reproduced.
LEMMA CheckFields ==
  ASSUME ScanTypes, CheckNonce \/ RefuseForged
  PROVE  /\ UNCHANGED <<patient, confirmed, progress, signed, kept, owed, rescanned, bounds>>
         /\ loop.phase \in {"check", "store"} /\ loop.todo # {} /\ loop' \in Loops
         /\ loop'.from = loop.from /\ loop'.to = loop.to /\ loop'.before = loop.before
         /\ loop'.todo = loop.todo /\ loop'.forged = loop.forged /\ loop'.taken = loop.taken
         /\ \/ /\ loop.phase = "check" /\ check_nonce(mem, next_log) = "accept"
               /\ loop'.phase = "store" /\ UNCHANGED <<mem, disk, halted>>
            \/ /\ (loop.phase = "check" /\ check_nonce(mem, next_log) # "accept")
                  \/ (loop.phase = "store" /\ next_log \in loop.forged)
               /\ loop'.phase = "commit" /\ ~ loop'.ok /\ halted' = TRUE
               /\ mem' \in Cursors /\ mem'.last = mem.last /\ mem'.nonces = mem.nonces
               /\ paused(mem') /\ disk' = mem'
<1> USE DEF ScanTypes
<1>1. next_log \in Event /\ loop.todo # {}
  BY NextLog DEF CheckNonce, RefuseForged, Loops
<1>2. mem.nonces[next_log.to] \in Int /\ next_log.nonce \in Nat
  BY <1>1, Events DEF Cursors
<1>3. ASSUME NEW why \in {"missed", "duplicated", "mismatch"}, PersistPause(why)
      PROVE  /\ mem' \in Cursors /\ mem'.last = mem.last /\ mem'.nonces = mem.nonces
             /\ paused(mem') /\ disk' = mem'
  BY <1>3 DEF PersistPause, Persist, pause, paused, Cursors, Reason
<1>4. CASE CheckNonce /\ check_nonce(mem, next_log) = "accept"
  BY <1>1, <1>4 DEF CheckNonce, Loops
<1>5. ASSUME NEW why \in {"missed", "duplicated", "mismatch"}, PersistPause(why),
             loop' = [loop EXCEPT !.phase = "commit", !.ok = FALSE]
      PROVE  /\ loop' \in Loops
             /\ loop'.from = loop.from /\ loop'.to = loop.to /\ loop'.before = loop.before
             /\ loop'.todo = loop.todo /\ loop'.forged = loop.forged /\ loop'.taken = loop.taken
             /\ loop'.phase = "commit" /\ ~ loop'.ok
  BY <1>5 DEF Loops
<1>6. CASE CheckNonce /\ check_nonce(mem, next_log) # "accept"
  <2>1. check_nonce(mem, next_log) \in {"missed", "duplicated", "mismatch"}
    BY <1>2, <1>6, Accepted
  <2>2. /\ PersistPause(check_nonce(mem, next_log)) /\ halted' = TRUE /\ loop.phase = "check"
        /\ loop' = [loop EXCEPT !.phase = "commit", !.ok = FALSE]
        /\ UNCHANGED <<patient, confirmed, progress, signed, kept, owed, rescanned, bounds>>
    BY <1>6 DEF CheckNonce
  <2>3. QED
    BY <1>1, <1>3, <1>5, <1>6, <2>1, <2>2
<1>7. CASE RefuseForged
  BY <1>1, <1>3, <1>5, <1>7 DEF RefuseForged
<1>8. QED
  BY <1>4, <1>6, <1>7

LEMMA StoreFields ==
  ASSUME ScanTypes, Store
  PROVE  /\ UNCHANGED <<patient, confirmed, disk, kept, history, bounds>>
         /\ loop.phase = "store" /\ loop' \in Loops /\ loop'.phase = "check"
         /\ loop'.from = loop.from /\ loop'.to = loop.to /\ loop'.before = loop.before
         /\ loop'.forged = loop.forged /\ loop'.taken = loop.taken \cup {next_log}
         /\ loop'.todo = loop.todo \ {Min(loop.todo)}
         /\ mem' \in Cursors /\ mem'.last = mem.last /\ mem'.pause = mem.pause
         /\ mem'.nonces = [mem.nonces EXCEPT ![next_log.to] = next_log.nonce]
         /\ signed \subseteq signed' /\ (next_log.signable => next_log \in signed')
         /\ progress' \in [from : Nat, stored : SUBSET Event] /\ progress'.stored \subseteq signed'
<1> USE DEF ScanTypes
<1>1. next_log \in Event /\ loop.phase = "store"
  BY NextLog DEF Store, Loops
<1>2. next_log.nonce \in Nat
  BY <1>1, Events
<1>3. /\ loop' = [loop EXCEPT !.phase = "check", !.todo = @ \ {Min(@)}, !.taken = @ \cup {next_log}]
      /\ mem' = [mem EXCEPT !.nonces[next_log.to] = next_log.nonce]
      /\ UNCHANGED <<patient, confirmed, disk, kept, history, bounds>>
  BY DEF Store, accept_nonce
<1> DEFINE ns == [mem.nonces EXCEPT ![next_log.to] = next_log.nonce]
           td == loop.todo \ {Min(loop.todo)}
           tk == loop.taken \cup {next_log}
<1>4. ns \in [Dest -> Int] /\ td \in SUBSET DOMAIN Log /\ tk \in SUBSET Event
  <2>1. mem.nonces \in [Dest -> Int] /\ next_log.nonce \in Int
    BY <1>2 DEF Cursors
  <2>2. ns \in [Dest -> Int]
    BY <2>1
  <2>3. td \in SUBSET DOMAIN Log /\ tk \in SUBSET Event
    BY <1>1 DEF Loops
  <2>4. QED
    BY <2>2, <2>3
<1>5. mem' = [mem EXCEPT !.nonces = ns] /\ loop' = [loop EXCEPT !.phase = "check", !.todo = td, !.taken = tk]
  BY <1>3 DEF Cursors, Loops
<1> HIDE DEF ns, td, tk
<1>6. mem' \in Cursors /\ mem'.last = mem.last /\ mem'.pause = mem.pause /\ mem'.nonces = ns
  BY <1>4, <1>5 DEF Cursors
<1>7. /\ loop' \in Loops /\ loop'.phase = "check"
      /\ loop'.from = loop.from /\ loop'.to = loop.to /\ loop'.before = loop.before
      /\ loop'.forged = loop.forged /\ loop'.taken = tk /\ loop'.todo = td
  BY <1>4, <1>5 DEF Loops
<1>8. /\ signed \subseteq signed' /\ (next_log.signable => next_log \in signed')
      /\ progress' \in [from : Nat, stored : SUBSET Event] /\ progress'.stored \subseteq signed'
  <2>1. CASE next_log.signable /\ next_log \notin progress.stored
    <3>1. signed' = signed \cup {next_log}
          /\ progress' = [progress EXCEPT !.stored = @ \cup {next_log}]
      BY <2>1 DEF Store
    <3>2. QED
      BY <1>1, <3>1
  <2>2. CASE ~ (next_log.signable /\ next_log \notin progress.stored)
    BY <2>2 DEF Store
  <2>3. QED
    BY <2>1, <2>2
<1>9. QED
  BY <1>1, <1>3, <1>6, <1>7, <1>8 DEF ns, td, tk

LEMMA EndFields ==
  ASSUME ScanTypes, StoreFails \/ BatchDone
  PROVE  /\ UNCHANGED <<patient, confirmed, mem, disk, progress, kept, history, lies>>
         /\ loop.phase \in {"check", "store"} /\ loop' \in Loops /\ loop'.phase = "commit"
         /\ loop'.from = loop.from /\ loop'.to = loop.to /\ loop'.before = loop.before
         /\ loop'.forged = loop.forged /\ loop'.taken = loop.taken /\ loop'.todo = loop.todo
         /\ (loop'.ok => loop'.todo = {}) /\ signed \subseteq signed'
<1> USE DEF ScanTypes
<1>1. CASE StoreFails
  <2>1. loop.phase = "store" /\ loop' = [loop EXCEPT !.phase = "commit", !.ok = FALSE]
        /\ UNCHANGED <<patient, confirmed, mem, disk, progress, kept, history, lies>>
    BY <1>1 DEF StoreFails
  <2>2. signed \subseteq signed'
    BY <1>1 DEF StoreFails
  <2>3. QED
    BY <2>1, <2>2 DEF Loops
<1>2. CASE BatchDone
  BY <1>2 DEF BatchDone, Loops, bounds
<1>3. QED
  BY <1>1, <1>2

LEMMA CommitFields ==
  ASSUME ScanTypes, Commit
  PROVE  /\ UNCHANGED <<patient, confirmed, progress, signed, history, bounds>>
         /\ loop.phase = "commit" /\ loop' = Idle
         /\ mem' \in Cursors /\ disk' = mem' /\ mem'.pause = mem.pause
         /\ \/ /\ loop.ok /\ mem'.last = loop.to /\ mem'.nonces = mem.nonces
               /\ kept' = kept \cup loop.taken
            \/ /\ ~ loop.ok /\ mem'.last = mem.last /\ mem'.nonces = loop.before
               /\ kept' = kept
<1> USE DEF ScanTypes
<1>1. CASE loop.ok
  BY <1>1 DEF Commit, Persist, scanned_to, Cursors, Loops
<1>2. CASE ~ loop.ok
  BY <1>2 DEF Commit, Persist, restore_nonces, Cursors, Loops
<1>3. QED
  BY <1>1, <1>2

LEMMA OperatorFields ==
  ASSUME ScanTypes, pause_one \/ resume_one \/ \E b \in RescanFrom : rescan_one(b)
  PROVE  /\ UNCHANGED <<patient, confirmed, loop, progress, signed, kept, lies>>
         /\ patient => loop.phase = "poll"
         /\ mem' \in Cursors /\ disk' = mem' /\ mem'.pause \in {"none", "operator"}
         /\ halted' => paused(mem')
         /\ \/ UNCHANGED <<owed, rescanned>> /\ mem'.last = mem.last /\ mem'.nonces = mem.nonces
            \/ /\ rescanned' = TRUE /\ owed' \in Nat
               /\ mem'.last <= mem.last /\ mem'.last < owed'
               /\ \A d \in Dest : mem'.nonces[d] = Unseen
<1> USE DEF ScanTypes
<1>1. CASE pause_one
  BY <1>1 DEF pause_one, Attending, PersistPause, Persist, pause, paused, Cursors, Reason
<1>2. CASE resume_one
  BY <1>2 DEF resume_one, Attending, Persist, resume, paused, Cursors, Reason, bounds
<1>3. ASSUME NEW b \in RescanFrom, rescan_one(b)
      PROVE  /\ UNCHANGED <<patient, confirmed, loop, progress, signed, kept, lies>>
             /\ patient => loop.phase = "poll"
             /\ mem' \in Cursors /\ disk' = mem' /\ mem'.pause = "none"
             /\ halted' = FALSE
             /\ rescanned' = TRUE /\ owed' \in Nat
             /\ mem'.last <= mem.last /\ mem'.last < owed'
             /\ \A d \in Dest : mem'.nonces[d] = Unseen
  <2> DEFINE ns == [d \in Dest |-> Unseen]
             l == IF b = 0 THEN 0 ELSE b - 1
             o == IF b = 0 THEN 1 ELSE b
  <2>1. b \in Nat /\ b <= mem.last + 1 /\ mem.last \in Nat
    BY <1>3, ScannerAssumption DEF rescan_one, next_block, Cursors
  <2>2. ns \in [Dest -> Int] /\ (\A d \in Dest : ns[d] = Unseen)
        /\ l \in Nat /\ o \in Nat /\ l < o /\ l <= mem.last
    BY <2>1 DEF Unseen
  <2>3. mem' = [mem EXCEPT !.last = l, !.nonces = ns, !.pause = "none"] /\ disk' = mem' /\ owed' = o
    BY <1>3 DEF rescan_one, rescan_from, Persist
  <2> HIDE DEF ns, l, o
  <2>4. mem' \in Cursors /\ mem'.last = l /\ mem'.nonces = ns /\ mem'.pause = "none"
    BY <2>2, <2>3 DEF Cursors, Reason
  <2>5. QED
    BY <1>3, <2>2, <2>3, <2>4 DEF rescan_one, Attending
<1>4. QED
  BY <1>1, <1>2, <1>3

\* The other steps: nothing came, a block, a restart from the file.
LEMMA RestFields ==
  ASSUME ScanTypes, FetchNothing \/ NewBlock \/ Restart \/ UNCHANGED vars
  PROVE  /\ UNCHANGED <<patient, disk, signed, kept, history, lies>> /\ confirmed' \in Nat
         /\ \/ UNCHANGED <<mem, loop, progress>>
            \/ /\ mem' \in {mem, disk} /\ loop' = Idle /\ progress' \in {progress, NoProgress}
               /\ loop.phase = "fetch" \/ mem' = disk
<1> USE DEF ScanTypes
<1>1. CASE FetchNothing \/ UNCHANGED vars
  BY <1>1 DEF FetchNothing, vars, bounds, history
<1>2. CASE NewBlock
  BY <1>2 DEF NewBlock, bounds
<1>3. CASE Restart
  BY <1>3 DEF Restart
<1>4. QED
  BY <1>1, <1>2, <1>3

-----------------------------------------------------------------------------
(* The steps *)

ScanAction == \/ Poll \/ Fetch \/ FetchLie \/ CheckNonce \/ RefuseForged \/ Store \/ StoreFails
       \/ BatchDone \/ Commit \/ pause_one \/ resume_one \/ (\E b \in RescanFrom : rescan_one(b))
       \/ FetchNothing \/ NewBlock \/ Restart \/ UNCHANGED vars

LEMMA NextIsAction == [Next]_vars => ScanAction
BY DEF Next, Batch, ScanAction

LEMMA TypesStep ==
  ASSUME ScanTypes, ScanAction
  PROVE  ScanTypes'
<1>1. CASE Poll
  BY <1>1, PollFields DEF ScanTypes, bounds, Cursors
<1>2. CASE Fetch \/ FetchLie
  <2>1. loop'.phase = "check" /\ loop'.from # 0 /\ lies' \in Nat
    BY <1>2, BatchFields DEF ScanTypes
  <2>2. QED
    BY <1>2, <2>1, BatchFields DEF ScanTypes, history
<1>3. CASE CheckNonce \/ RefuseForged
  BY <1>3, CheckFields DEF ScanTypes, bounds
<1>4. CASE Store
  BY <1>4, StoreFields DEF ScanTypes, bounds, history
<1>5. CASE StoreFails \/ BatchDone
  BY <1>5, EndFields DEF ScanTypes, history
<1>6. CASE Commit
  BY <1>6, CommitFields, IdleFields DEF ScanTypes, bounds, history, Loops
<1>7. CASE pause_one \/ resume_one \/ \E b \in RescanFrom : rescan_one(b)
  BY <1>7, OperatorFields DEF ScanTypes
<1>8. CASE FetchNothing \/ NewBlock \/ Restart \/ UNCHANGED vars
  <2>1. NoProgress \in [from : Nat, stored : SUBSET Event] /\ NoProgress.stored = {}
    BY DEF NoProgress
  <2>2. QED
    BY <1>8, <2>1, RestFields, IdleFields DEF ScanTypes, history
<1>9. QED
  BY <1>1, <1>2, <1>3, <1>4, <1>5, <1>6, <1>7, <1>8 DEF ScanAction

\* A stop is written to the file before anything else, and no batch lifts it.
LEMMA StopStep ==
  ASSUME ScanTypes, StopHolds, ScanAction
  PROVE  StopHolds'
<1>1. CASE Poll
  BY <1>1, PollFields DEF StopHolds, paused
<1>2. CASE Fetch \/ FetchLie
  BY <1>2, BatchFields DEF StopHolds, history, paused
<1>3. CASE CheckNonce \/ RefuseForged
  BY <1>3, CheckFields DEF StopHolds, paused
<1>4. CASE Store
  BY <1>4, StoreFields DEF StopHolds, history, paused
<1>5. CASE StoreFails \/ BatchDone
  BY <1>5, EndFields DEF StopHolds, history, paused
<1>6. CASE Commit
  BY <1>6, CommitFields DEF StopHolds, history, paused
<1>7. CASE pause_one \/ resume_one \/ \E b \in RescanFrom : rescan_one(b)
  BY <1>7, OperatorFields DEF StopHolds, paused
<1>8. CASE FetchNothing \/ NewBlock \/ Restart \/ UNCHANGED vars
  BY <1>8, RestFields DEF StopHolds, history, paused
<1>9. QED
  BY <1>1, <1>2, <1>3, <1>4, <1>5, <1>6, <1>7, <1>8 DEF ScanAction

LEMMA RescanStep ==
  ASSUME ScanTypes, RescanWaits, ScanAction
  PROVE  RescanWaits'
<1>0. mem.last \in Nat /\ disk.last = mem.last /\ owed \in Nat
  BY DEF ScanTypes, Cursors
<1>1. CASE Poll
  <2>1. patient' = patient /\ owed' = IF mem.last + 1 <= owed THEN 0 ELSE owed
    BY <1>1, PollFields
  <2>2. ASSUME patient PROVE owed' = 0
    <3>1. owed = 0 \/ mem.last + 1 <= owed
      BY <1>0, <2>2 DEF RescanWaits
    <3>2. QED
      BY <2>1, <3>1
  <2>3. QED
    BY <2>1, <2>2 DEF RescanWaits
<1>2. CASE Fetch \/ FetchLie
  BY <1>2, BatchFields DEF RescanWaits, history
<1>3. CASE CheckNonce \/ RefuseForged
  BY <1>3, CheckFields DEF RescanWaits
<1>4. CASE Store
  BY <1>4, StoreFields DEF RescanWaits, history
<1>5. CASE StoreFails \/ BatchDone
  BY <1>5, EndFields DEF RescanWaits, history
<1>6. CASE Commit
  BY <1>6, CommitFields DEF RescanWaits, history
<1>7. CASE pause_one \/ resume_one \/ \E b \in RescanFrom : rescan_one(b)
  BY <1>7, OperatorFields DEF RescanWaits
<1>8. CASE FetchNothing \/ NewBlock \/ Restart \/ UNCHANGED vars
  BY <1>0, <1>8, RestFields, IdleFields DEF RescanWaits, history
<1>9. QED
  BY <1>1, <1>2, <1>3, <1>4, <1>5, <1>6, <1>7, <1>8 DEF ScanAction

\* The cursor moves over a window only once every event in it is stored.
LEMMA CoveredStep ==
  ASSUME ScanTypes, AllCovered, ScanAction
  PROVE  AllCovered'
<1> SUFFICES ASSUME lies' = 0 PROVE AllCovered'
  BY DEF AllCovered
<1>0. /\ {mem.last, loop.from, loop.to, lies} \subseteq Nat /\ disk.last = mem.last
      /\ loop.phase # "poll" => loop.from # 0
      /\ DOMAIN Log \subseteq Nat /\ \A i \in DOMAIN Log : Log[i].block \in Nat
  BY Events DEF ScanTypes, Cursors, Loops
<1>1. CASE Poll
  <2>1. loop'.from - 1 = mem.last /\ UNCHANGED <<mem, signed, lies>> /\ loop'.phase = "fetch"
    BY <1>0, <1>1, PollFields DEF bounds
  <2>2. QED
    BY <2>1 DEF AllCovered, Covered, InBatch
<1>2. CASE Fetch \/ FetchLie
  <2>1. UNCHANGED <<mem, signed, lies>> /\ loop.phase = "fetch" /\ loop'.from = loop.from
        /\ loop'.todo = InWindow(loop.from, loop'.to)
    BY <1>0, <1>2, BatchFields
  <2>2. QED
    BY <2>1 DEF AllCovered, Covered, InWindow
<1>3. CASE CheckNonce \/ RefuseForged
  <2>1. UNCHANGED <<signed, lies>> /\ mem'.last = mem.last /\ loop'.from = loop.from
        /\ loop'.to = loop.to /\ loop'.todo = loop.todo /\ InBatch /\ loop.phase # "poll"
    BY <1>3, CheckFields DEF bounds, InBatch
  <2>2. QED
    BY <2>1 DEF AllCovered, Covered, InWindow
<1>4. CASE Store
  <2>1. UNCHANGED lies /\ mem'.last = mem.last /\ loop'.from = loop.from
        /\ loop'.to = loop.to /\ loop'.todo = loop.todo \ {Min(loop.todo)} /\ loop.phase = "store"
        /\ signed \subseteq signed' /\ (next_log.signable => next_log \in signed')
    BY <1>4, StoreFields DEF bounds
  <2>2. next_log = Log[Min(loop.todo)]
    BY DEF next_log
  <2>3. QED
    BY <2>1, <2>2 DEF AllCovered, Covered, InWindow, InBatch
<1>5. CASE StoreFails \/ BatchDone
  <2>1. UNCHANGED <<mem, lies>> /\ loop'.from = loop.from /\ loop'.to = loop.to
        /\ loop'.todo = loop.todo /\ InBatch /\ loop.phase # "poll" /\ signed \subseteq signed'
    BY <1>5, EndFields DEF InBatch
  <2>2. QED
    BY <2>1 DEF AllCovered, Covered, InWindow
<1>6. CASE Commit
  <2>1. UNCHANGED <<signed, lies>> /\ loop.phase = "commit" /\ loop'.phase = "poll"
    BY <1>6, CommitFields, IdleFields DEF bounds
  <2>2. Covered(mem.last) /\ Covered(loop.from - 1)
        /\ \A i \in InWindow(loop.from, loop.to) :
              Log[i].signable => i \in loop.todo \/ Log[i] \in signed
    BY <2>1 DEF AllCovered, InBatch
  <2>3. CASE loop.ok
    <3>1. mem'.last = loop.to /\ loop.todo = {}
      BY <1>6, <2>1, <2>3, CommitFields DEF ScanTypes
    <3>2. Covered(loop.to)
      BY <1>0, <2>2, <3>1 DEF Covered, InWindow
    <3>3. QED
      BY <2>1, <3>1, <3>2 DEF AllCovered, Covered, InBatch
  <2>4. CASE ~ loop.ok
    <3>1. mem'.last = mem.last
      BY <1>6, <2>4, CommitFields
    <3>2. QED
      BY <2>1, <2>2, <3>1 DEF AllCovered, Covered, InBatch
  <2>5. QED
    BY <2>3, <2>4
<1>7. CASE pause_one \/ resume_one \/ \E b \in RescanFrom : rescan_one(b)
  <2>1. UNCHANGED <<loop, signed, lies>> /\ mem' \in Cursors
        /\ (mem'.last = mem.last \/ mem'.last <= mem.last)
    BY <1>7, OperatorFields
  <2>2. mem'.last <= mem.last /\ mem'.last \in Nat
    BY <1>0, <2>1 DEF Cursors
  <2>3. QED
    BY <1>0, <2>1, <2>2 DEF AllCovered, Covered, InBatch, InWindow
<1>8. CASE FetchNothing \/ NewBlock \/ Restart \/ UNCHANGED vars
  <2>1. UNCHANGED <<signed, lies>> /\ mem'.last = mem.last /\ (UNCHANGED loop \/ loop'.phase = "poll")
    BY <1>0, <1>8, RestFields, IdleFields
  <2>2. CASE UNCHANGED loop
    BY <2>1, <2>2 DEF AllCovered, Covered, InBatch, InWindow
  <2>3. CASE loop'.phase = "poll"
    BY <2>1, <2>3 DEF AllCovered, Covered, InBatch
  <2>4. QED
    BY <2>1, <2>2, <2>3
<1>9. QED
  BY <1>1, <1>2, <1>3, <1>4, <1>5, <1>6, <1>7, <1>8 DEF ScanAction

\* Signing more breaks no sequence.
LEMMA UnbrokenGrows ==
  ASSUME NEW ns, NEW K, NEW L, NEW S, NEW T, Unbroken(ns, K, S), L \subseteq K, S \subseteq T
  PROVE  Unbroken(ns, L, T)
BY DEF Unbroken

\* Accepting the next event of a corridor, once it is stored, breaks none.
LEMMA UnbrokenAccept ==
  ASSUME NEW ns \in [Dest -> Int], NEW K, K \subseteq Event, NEW S, NEW T, NEW e \in Event,
         Unbroken(ns, K, S), S \subseteq T, e.signable => e \in T,
         ns[e.to] = Unseen \/ e.nonce = ns[e.to] + 1
  PROVE  Unbroken([ns EXCEPT ![e.to] = e.nonce], K \cup {e}, T)
<1> DEFINE ms == [ns EXCEPT ![e.to] = e.nonce]
<1>1. ms[e.to] = e.nonce /\ \A d \in Dest : d # e.to => ms[d] = ns[d]
  BY Events
<1> HIDE DEF ms
<1>2. \A f, g \in Event : f.to = g.to /\ f.nonce = g.nonce => f = g
  <2>1. \A i, j \in DOMAIN Log : Log[i].to = Log[j].to /\ Log[i].nonce = Log[j].nonce => i = j
    <3>1. \A i, j \in DOMAIN Log : i < j => ~ (Log[i].to = Log[j].to /\ Log[i].nonce = Log[j].nonce)
      <4>1. \A i, j \in DOMAIN Log : i < j /\ Log[i].to = Log[j].to => Log[i].nonce < Log[j].nonce
        BY ScannerAssumption DEF GateNumbers
      <4>2. QED
        BY <4>1, Events
    <3>2. \A i, j \in DOMAIN Log : i < j \/ j < i \/ i = j
      BY Events
    <3>3. QED
      BY <3>1, <3>2
  <2>2. QED
    BY <2>1 DEF Event
<1>3. ASSUME NEW x \in K, x.to = e.to
      PROVE  /\ x.nonce <= ms[x.to]
             /\ \A f \in Event : /\ f.to = x.to /\ f.signable
                                 /\ x.nonce < f.nonce /\ f.nonce <= ms[x.to]
                                 => f \in T
  <2>1. x.nonce <= ns[e.to] /\ ns[e.to] \in Int /\ e.nonce \in Nat /\ x.nonce \in Nat
    BY <1>3, Events DEF Unbroken
  <2>2. e.nonce = ns[e.to] + 1
    BY <2>1 DEF Unseen
  <2>3. ASSUME NEW f \in Event, f.to = x.to, f.signable, x.nonce < f.nonce, f.nonce <= ms[x.to]
        PROVE  f \in T
    <3>1. f.nonce \in Nat /\ (f.nonce = e.nonce \/ f.nonce <= ns[e.to])
      BY <1>1, <1>3, <2>1, <2>2, <2>3, Events
    <3>2. CASE f.nonce = e.nonce
      BY <1>2, <1>3, <2>3, <3>2
    <3>3. CASE f.nonce <= ns[e.to]
      BY <1>3, <2>3, <3>3 DEF Unbroken
    <3>4. QED
      BY <3>1, <3>2, <3>3
  <2>4. QED
    BY <1>1, <1>3, <2>1, <2>2, <2>3
<1>4. ASSUME NEW x \in K, x.to # e.to
      PROVE  /\ x.nonce <= ms[x.to]
             /\ \A f \in Event : /\ f.to = x.to /\ f.signable
                                 /\ x.nonce < f.nonce /\ f.nonce <= ms[x.to]
                                 => f \in T
  BY <1>1, <1>4, Events DEF Unbroken
<1>5. /\ e.nonce <= ms[e.to]
      /\ \A f \in Event : /\ f.to = e.to /\ f.signable
                          /\ e.nonce < f.nonce /\ f.nonce <= ms[e.to]
                          => f \in T
  BY <1>1, Events
<1>6. Unbroken(ms, K \cup {e}, T)
  BY <1>3, <1>4, <1>5 DEF Unbroken
<1>7. QED
  BY <1>6 DEF ms

\* check_nonce and restore_nonces: every cursor the scanner can fall back on is at or past what
\* was accepted for good.
LEMMA UnbrokenStep ==
  ASSUME ScanTypes, AllUnbroken, ScanAction
  PROVE  AllUnbroken'
<1> SUFFICES ASSUME ~ rescanned' PROVE AllUnbroken'
  BY DEF AllUnbroken
<1>1. CASE Poll
  <2>1. UNCHANGED <<mem, disk, signed, kept, rescanned>> /\ loop'.phase = "fetch" /\ loop'.taken = {}
    BY <1>1, PollFields
  <2>2. Unbroken(mem.nonces, kept \cup {}, signed)
    BY <2>1, UnbrokenGrows DEF AllUnbroken
  <2>3. QED
    BY <2>1, <2>2 DEF AllUnbroken, InBatch
<1>2. CASE Fetch \/ FetchLie
  <2>1. UNCHANGED <<mem, disk, signed, kept, rescanned>> /\ loop'.phase = "check"
        /\ loop'.taken = loop.taken /\ loop'.before = mem.nonces
    BY <1>2, BatchFields DEF history
  <2>2. Unbroken(mem.nonces, kept, signed)
    BY <2>1, UnbrokenGrows DEF AllUnbroken
  <2>3. QED
    BY <2>1, <2>2 DEF AllUnbroken, InBatch
<1>3. CASE CheckNonce \/ RefuseForged
  <2>1. UNCHANGED <<signed, kept, rescanned>> /\ loop'.taken = loop.taken /\ loop'.before = loop.before
        /\ InBatch /\ mem'.nonces = mem.nonces /\ disk'.nonces \in {disk.nonces, mem.nonces}
    BY <1>3, CheckFields DEF InBatch
  <2>2. Unbroken(mem.nonces, kept, signed)
    BY <2>1, UnbrokenGrows DEF AllUnbroken
  <2>3. loop'.phase = "store" => check_nonce(mem, next_log)' = "accept"
    BY <1>3, CheckFields DEF check_nonce, next_log
  <2>4. QED
    BY <2>1, <2>2, <2>3 DEF AllUnbroken
<1>4. CASE Store
  <2>1. UNCHANGED <<disk, kept, rescanned>> /\ loop.phase = "store" /\ loop'.phase = "check"
        /\ loop'.taken = loop.taken \cup {next_log} /\ loop'.before = loop.before
        /\ mem'.nonces = [mem.nonces EXCEPT ![next_log.to] = next_log.nonce]
        /\ signed \subseteq signed' /\ (next_log.signable => next_log \in signed')
    BY <1>4, StoreFields DEF history
  <2>2. next_log \in Event /\ mem.nonces \in [Dest -> Int] /\ kept \cup loop.taken \subseteq Event
    BY <2>1, NextLog DEF ScanTypes, Loops, Cursors
  <2>3. mem.nonces[next_log.to] = Unseen \/ next_log.nonce = mem.nonces[next_log.to] + 1
    BY <2>1, <2>2, Accepted, Events DEF AllUnbroken
  <2>4. Unbroken(mem'.nonces, (kept \cup loop.taken) \cup {next_log}, signed')
    <3>1. Unbroken(mem.nonces, kept \cup loop.taken, signed)
      BY <2>1 DEF AllUnbroken
    <3>2. Unbroken([mem.nonces EXCEPT ![next_log.to] = next_log.nonce],
                   (kept \cup loop.taken) \cup {next_log}, signed')
      BY <2>1, <2>2, <2>3, <3>1, UnbrokenAccept
    <3>3. QED
      BY <2>1, <3>2
  <2>5. Unbroken(mem'.nonces, kept' \cup loop'.taken, signed')
    BY <2>1, <2>4, UnbrokenGrows
  <2>6. Unbroken(disk.nonces, kept, signed') /\ Unbroken(loop.before, kept, signed')
    BY <2>1, UnbrokenGrows DEF AllUnbroken, InBatch
  <2>7. QED
    BY <2>1, <2>5, <2>6 DEF AllUnbroken
<1>5. CASE StoreFails \/ BatchDone
  <2>1. UNCHANGED <<mem, disk, kept, rescanned>> /\ loop'.taken = loop.taken /\ loop'.before = loop.before
        /\ InBatch /\ loop'.phase = "commit" /\ signed \subseteq signed'
    BY <1>5, EndFields DEF history, InBatch
  <2>2. Unbroken(mem.nonces, kept \cup loop.taken, signed') /\ Unbroken(disk.nonces, kept, signed')
        /\ Unbroken(loop.before, kept, signed')
    BY <2>1, UnbrokenGrows DEF AllUnbroken
  <2>3. QED
    BY <2>1, <2>2 DEF AllUnbroken
<1>6. CASE Commit
  <2>1. UNCHANGED <<signed, rescanned>> /\ loop.phase = "commit" /\ loop'.phase = "poll"
        /\ loop'.taken = {} /\ disk' = mem'
        /\ \/ mem'.nonces = mem.nonces /\ kept' = kept \cup loop.taken
           \/ mem'.nonces = loop.before /\ kept' = kept
    BY <1>6, CommitFields, IdleFields DEF history
  <2>2. Unbroken(mem'.nonces, kept', signed)
    BY <2>1 DEF AllUnbroken, InBatch
  <2>3. Unbroken(mem'.nonces, kept' \cup {}, signed)
    BY <2>2, UnbrokenGrows
  <2>4. QED
    BY <2>1, <2>2, <2>3 DEF AllUnbroken, InBatch
<1>7. CASE pause_one \/ resume_one \/ \E b \in RescanFrom : rescan_one(b)
  <2>1. UNCHANGED <<loop, signed, kept, rescanned>> /\ mem'.nonces = mem.nonces /\ disk' = mem'
    BY <1>7, OperatorFields
  <2>2. Unbroken(mem.nonces, kept, signed)
    BY <2>1, UnbrokenGrows DEF AllUnbroken
  <2>3. loop'.phase = "store" => check_nonce(mem, next_log)' = "accept"
    BY <2>1 DEF AllUnbroken, check_nonce, next_log
  <2>4. QED
    BY <2>1, <2>2, <2>3 DEF AllUnbroken, InBatch
<1>8. CASE FetchNothing \/ NewBlock \/ Restart \/ UNCHANGED vars
  <2>1. UNCHANGED <<disk, signed, kept, rescanned>>
        /\ (UNCHANGED <<mem, loop>> \/ (mem' \in {mem, disk} /\ loop'.phase = "poll" /\ loop'.taken = {}))
    BY <1>8, RestFields, IdleFields DEF history
  <2>2. CASE UNCHANGED <<mem, loop>>
    BY <2>1, <2>2 DEF AllUnbroken, InBatch, check_nonce, next_log
  <2>3. CASE mem' \in {mem, disk} /\ loop'.phase = "poll" /\ loop'.taken = {}
    <3>1. Unbroken(mem.nonces, kept \cup {}, signed) /\ Unbroken(disk.nonces, kept \cup {}, signed)
      BY <2>1, UnbrokenGrows DEF AllUnbroken
    <3>2. QED
      BY <2>1, <2>3, <3>1 DEF AllUnbroken, InBatch
  <2>4. QED
    BY <2>1, <2>2, <2>3
<1>9. QED
  BY <1>1, <1>2, <1>3, <1>4, <1>5, <1>6, <1>7, <1>8 DEF ScanAction

\* The next event in chain order is the one its corridor's cursor expects.
LEMMA NextIsExpected ==
  ASSUME NEW ns \in [Dest -> Int], NEW D \in SUBSET DOMAIN Log, InSync(ns, D),
         NEW m \in DOMAIN Log, m \notin D, \A k \in DOMAIN Log : k < m => k \in D,
         \A k \in D : k < m
  PROVE  ns[Log[m].to] = Unseen \/ Log[m].nonce = ns[Log[m].to] + 1
<1> SUFFICES ASSUME ns[Log[m].to] # Unseen PROVE Log[m].nonce = ns[Log[m].to] + 1
  OBVIOUS
<1>1. PICK i \in D : /\ Log[i].to = Log[m].to /\ Log[i].nonce = ns[Log[m].to]
                     /\ \A k \in D : Log[k].to = Log[m].to => k <= i
  BY Events DEF InSync
<1>2. i \in DOMAIN Log /\ i < m /\ i \in Nat /\ m \in Nat
  BY Events
<1>3. PICK k \in i + 1 .. m : Log[k].to = Log[i].to /\ Log[k].nonce = Log[i].nonce + 1
  BY <1>1, <1>2, ScannerAssumption DEF GateNumbers
<1>4. k \in DOMAIN Log
  BY <1>2, <1>3, ScannerAssumption
<1>5. k = m
  BY <1>1, <1>2, <1>3, <1>4
<1>6. QED
  BY <1>1, <1>3, <1>5

\* Accepting it keeps the cursors in step.
LEMMA SyncAccept ==
  ASSUME NEW ns \in [Dest -> Int], NEW D \in SUBSET DOMAIN Log, InSync(ns, D),
         NEW m \in DOMAIN Log, \A k \in D : k < m
  PROVE  InSync([ns EXCEPT ![Log[m].to] = Log[m].nonce], D \cup {m})
<1> DEFINE ms == [ns EXCEPT ![Log[m].to] = Log[m].nonce]
<1>1. ms[Log[m].to] = Log[m].nonce /\ \A d \in Dest : d # Log[m].to => ms[d] = ns[d]
  BY Events
<1> HIDE DEF ms
<1>2. ASSUME NEW d \in Dest, ms[d] # Unseen
      PROVE  \E i \in D \cup {m} : /\ Log[i].to = d /\ Log[i].nonce = ms[d]
                                   /\ \A k \in D \cup {m} : Log[k].to = d => k <= i
  <2>1. CASE d = Log[m].to
    BY <1>1, <2>1, Events
  <2>2. CASE d # Log[m].to
    <3>1. ns[d] # Unseen /\ ms[d] = ns[d]
      BY <1>1, <1>2, <2>2
    <3>2. PICK i \in D : /\ Log[i].to = d /\ Log[i].nonce = ns[d]
                         /\ \A k \in D : Log[k].to = d => k <= i
      BY <3>1 DEF InSync
    <3>3. QED
      BY <2>2, <3>1, <3>2
  <2>3. QED
    BY <2>1, <2>2
<1>3. QED
  BY <1>2 DEF InSync, ms

\* Behind a batch is what lies before its window and what it has handled of it.
LEMMA BatchOrder ==
  ASSUME ScanTypes, AllInSync, patient, lies = 0, InBatch, loop.todo # {}
  PROVE  LET D == Behind(loop.to) \ loop.todo
             m == Min(loop.todo)
         IN  /\ m \in DOMAIN Log /\ m \in loop.todo /\ m \notin D /\ D \in SUBSET DOMAIN Log
             /\ \A k \in DOMAIN Log : k < m => k \in D
             /\ \A k \in D : k < m
             /\ Behind(loop.to) \ (loop.todo \ {m}) = D \cup {m}
<1> DEFINE D == Behind(loop.to) \ loop.todo
           m == Min(loop.todo)
<1>1. /\ loop.todo \subseteq InWindow(loop.from, loop.to)
      /\ \A j \in loop.todo : \A i \in InWindow(loop.from, loop.to) : j <= i => i \in loop.todo
  BY DEF AllInSync
<1>2. m \in loop.todo /\ \A i \in loop.todo : m <= i
  BY NextLog DEF ScanTypes, Loops
<1>3. loop.from \in Nat /\ loop.to \in Nat
  BY DEF ScanTypes, Loops
<1> HIDE DEF m
<1>4. m \in DOMAIN Log /\ Log[m].block \in loop.from .. loop.to
  BY <1>1, <1>2 DEF InWindow
<1>5. ASSUME NEW k \in DOMAIN Log, k < m PROVE k \in D
  <2>1. Log[k].block <= Log[m].block
    BY <1>4, <1>5, ScannerAssumption DEF GateNumbers
  <2>2. Log[k].block <= loop.to
    BY <1>3, <1>4, <2>1, Events
  <2>3. k \notin loop.todo
    BY <1>2, <1>4, <1>5, Events
  <2>4. QED
    BY <2>2, <2>3 DEF Behind
<1>6. ASSUME NEW k \in D PROVE k < m
  <2>1. k \in DOMAIN Log /\ k \notin loop.todo /\ Log[k].block <= loop.to /\ k # m
    BY <1>2 DEF Behind
  <2>2. SUFFICES ASSUME m < k PROVE FALSE
    BY <1>4, <2>1, Events
  <2>3. Log[m].block <= Log[k].block
    BY <1>4, <2>1, <2>2, ScannerAssumption DEF GateNumbers
  <2>4. k \in InWindow(loop.from, loop.to)
    BY <1>3, <1>4, <2>1, <2>3, Events DEF InWindow
  <2>5. QED
    BY <1>1, <1>2, <1>4, <2>1, <2>2, <2>4, Events
<1>7. D \in SUBSET DOMAIN Log /\ m \notin D /\ Behind(loop.to) \ (loop.todo \ {m}) = D \cup {m}
  BY <1>2, <1>3, <1>4, Events DEF Behind
<1>8. QED
  BY <1>2, <1>4, <1>5, <1>6, <1>7 DEF m

\* for_window and next_block: a batch that goes through leaves both cursors at its end, one that
\* does not leaves both at its start.
LEMMA SyncStep ==
  ASSUME ScanTypes, AllInSync, ScanAction
  PROVE  AllInSync'
<1> SUFFICES ASSUME patient', lies' = 0 PROVE AllInSync'
  BY DEF AllInSync
<1>0. /\ mem.last \in Nat /\ loop.from \in Nat /\ loop.to \in Nat /\ lies \in Nat
      /\ mem.nonces \in [Dest -> Int] /\ disk.last = mem.last
  BY DEF ScanTypes, Cursors, Loops
<1>1. CASE Poll
  <2>1. UNCHANGED <<patient, mem, disk, lies>> /\ loop.phase = "poll" /\ loop'.phase = "fetch"
        /\ loop'.from = mem.last + 1
    BY <1>1, PollFields DEF bounds
  <2>2. QED
    BY <2>1 DEF AllInSync, InBatch
<1>2. CASE Fetch \/ FetchLie
  <2>0. lies' # lies + 1
    BY <1>0
  <2>1. UNCHANGED <<patient, mem, disk, lies>> /\ loop.phase = "fetch" /\ loop'.phase = "check"
        /\ loop'.from = loop.from /\ loop'.to >= loop.from /\ loop'.before = mem.nonces
        /\ loop'.forged = {} /\ loop'.todo = InWindow(loop.from, loop'.to) /\ loop' \in Loops
    BY <1>2, <2>0, BatchFields
  <2>2. loop.from = mem.last + 1 /\ InSync(mem.nonces, Behind(mem.last))
        /\ mem.pause \in {"none", "operator"} /\ disk.pause \in {"none", "operator"}
        /\ InSync(disk.nonces, Behind(disk.last))
    BY <2>1 DEF AllInSync
  <2>3. loop'.to \in Nat /\ loop'.from <= loop'.to
    BY <1>0, <2>1 DEF Loops
  <2>4. Behind(loop'.to) \ loop'.todo = Behind(mem.last)
    BY <1>0, <2>1, <2>2, <2>3, Events DEF Behind, InWindow
  <2>5. /\ loop'.todo \subseteq InWindow(loop'.from, loop'.to)
        /\ \A j \in loop'.todo : \A i \in InWindow(loop'.from, loop'.to) : j <= i => i \in loop'.todo
    BY <2>1
  <2>6. QED
    BY <2>1, <2>2, <2>3, <2>4, <2>5 DEF AllInSync
<1>3. CASE CheckNonce \/ RefuseForged
  <2>1. UNCHANGED <<patient, lies>> /\ InBatch /\ loop.phase # "poll" /\ loop.todo # {}
        /\ loop'.from = loop.from /\ loop'.to = loop.to /\ loop'.before = loop.before
        /\ loop'.todo = loop.todo /\ loop'.forged = loop.forged
    BY <1>3, CheckFields DEF bounds, InBatch
  <2>2. check_nonce(mem, next_log) = "accept"
    <3> DEFINE D == Behind(loop.to) \ loop.todo
               m == Min(loop.todo)
    <3>1. /\ m \in DOMAIN Log /\ m \notin D /\ D \in SUBSET DOMAIN Log
          /\ (\A k \in DOMAIN Log : k < m => k \in D) /\ (\A k \in D : k < m)
      BY <2>1, BatchOrder
    <3>2. InSync(mem.nonces, D)
      BY <2>1 DEF AllInSync
    <3> HIDE DEF D, m
    <3>3. mem.nonces[Log[m].to] = Unseen \/ Log[m].nonce = mem.nonces[Log[m].to] + 1
      BY <1>0, <3>1, <3>2, NextIsExpected
    <3>4. next_log = Log[m] /\ mem.nonces[Log[m].to] \in Int /\ Log[m].nonce \in Nat
      BY <1>0, <3>1, Events DEF next_log, m
    <3>5. QED
      BY <3>3, <3>4, Accepted
  <2>3. loop.forged = {}
    BY <2>1 DEF AllInSync
  <2>4. UNCHANGED <<mem, disk>> /\ loop'.phase = "store"
    BY <1>3, <2>2, <2>3, CheckFields
  <2>5. QED
    BY <2>1, <2>4 DEF AllInSync, InBatch
<1>4. CASE Store
  <2>1. UNCHANGED <<patient, disk, lies>> /\ InBatch /\ loop.phase = "store" /\ loop'.phase = "check"
        /\ loop'.from = loop.from /\ loop'.to = loop.to /\ loop'.before = loop.before
        /\ loop'.forged = loop.forged /\ loop'.todo = loop.todo \ {Min(loop.todo)}
        /\ mem'.last = mem.last /\ mem'.pause = mem.pause
        /\ mem'.nonces = [mem.nonces EXCEPT ![next_log.to] = next_log.nonce]
    BY <1>4, StoreFields DEF bounds, InBatch
  <2>2. InSync(mem'.nonces, Behind(loop'.to) \ loop'.todo)
    <3> DEFINE D == Behind(loop.to) \ loop.todo
               m == Min(loop.todo)
    <3>1. /\ m \in DOMAIN Log /\ D \in SUBSET DOMAIN Log /\ (\A k \in D : k < m)
          /\ Behind(loop.to) \ (loop.todo \ {m}) = D \cup {m}
      BY <2>1, BatchOrder DEF ScanTypes
    <3>2. InSync(mem.nonces, D) /\ next_log = Log[m]
      BY <2>1 DEF AllInSync, next_log
    <3>3. Behind(loop'.to) \ loop'.todo = D \cup {m}
      BY <2>1, <3>1
    <3> HIDE DEF D, m
    <3>4. InSync([mem.nonces EXCEPT ![Log[m].to] = Log[m].nonce], D \cup {m})
      BY <1>0, <3>1, <3>2, SyncAccept
    <3>5. QED
      BY <2>1, <3>2, <3>3, <3>4
  <2>3. /\ loop.todo \subseteq InWindow(loop.from, loop.to)
        /\ \A j \in loop.todo : \A i \in InWindow(loop.from, loop.to) : j <= i => i \in loop.todo
        /\ Min(loop.todo) \in loop.todo /\ \A i \in loop.todo : Min(loop.todo) <= i
    BY <2>1, NextLog DEF AllInSync, ScanTypes, Loops
  <2>4. /\ loop'.todo \subseteq InWindow(loop'.from, loop'.to)
        /\ \A j \in loop'.todo : \A i \in InWindow(loop'.from, loop'.to) : j <= i => i \in loop'.todo
    <3>1. loop.todo \subseteq Nat
      BY <2>3, Events DEF InWindow
    <3>2. QED
      BY <2>1, <2>3, <3>1
  <2>5. QED
    BY <2>1, <2>2, <2>4 DEF AllInSync
<1>5. CASE StoreFails \/ BatchDone
  <2>1. UNCHANGED <<patient, mem, disk, lies>> /\ InBatch /\ loop.phase # "poll" /\ loop'.phase = "commit"
        /\ loop'.from = loop.from /\ loop'.to = loop.to /\ loop'.before = loop.before
        /\ loop'.forged = loop.forged /\ loop'.todo = loop.todo
    BY <1>5, EndFields DEF InBatch
  <2>2. QED
    BY <2>1 DEF AllInSync
<1>6. CASE Commit
  <2>1. UNCHANGED <<patient, lies>> /\ loop.phase = "commit" /\ loop'.phase = "poll" /\ InBatch
        /\ disk' = mem' /\ mem'.pause = mem.pause
    BY <1>6, CommitFields, IdleFields DEF bounds, InBatch
  <2>2. InSync(mem'.nonces, Behind(mem'.last))
    <3>1. CASE loop.ok
      <4>1. mem'.last = loop.to /\ mem'.nonces = mem.nonces /\ loop.todo = {}
        BY <1>6, <2>1, <3>1, CommitFields DEF ScanTypes
      <4>2. InSync(mem.nonces, Behind(loop.to) \ loop.todo) /\ Behind(loop.to) \ loop.todo = Behind(loop.to)
        BY <2>1, <4>1 DEF AllInSync
      <4>3. QED
        BY <4>1, <4>2
    <3>2. CASE ~ loop.ok
      <4>1. mem'.last = mem.last /\ mem'.nonces = loop.before
        BY <1>6, <3>2, CommitFields
      <4>2. QED
        BY <2>1, <4>1 DEF AllInSync
    <3>3. QED
      BY <3>1, <3>2
  <2>3. QED
    BY <2>1, <2>2 DEF AllInSync, InBatch
<1>7. CASE pause_one \/ resume_one \/ \E b \in RescanFrom : rescan_one(b)
  <2>1. UNCHANGED <<patient, loop, lies>> /\ loop.phase = "poll" /\ disk' = mem'
        /\ mem'.pause \in {"none", "operator"}
    BY <1>7, OperatorFields
  <2>2. InSync(mem'.nonces, Behind(mem'.last))
    <3>1. CASE mem'.last = mem.last /\ mem'.nonces = mem.nonces
      BY <2>1, <3>1 DEF AllInSync
    <3>2. CASE \A d \in Dest : mem'.nonces[d] = Unseen
      BY <3>2 DEF InSync
    <3>3. QED
      BY <1>7, <3>1, <3>2, OperatorFields
  <2>3. QED
    BY <2>1, <2>2 DEF AllInSync, InBatch
<1>8. CASE FetchNothing \/ NewBlock \/ Restart \/ UNCHANGED vars
  <2>1. UNCHANGED <<patient, disk, lies>>
        /\ \/ UNCHANGED <<mem, loop>>
           \/ loop'.phase = "poll" /\ (mem' = disk \/ (mem' = mem /\ loop.phase = "fetch"))
    BY <1>8, RestFields, IdleFields
  <2>2. CASE UNCHANGED <<mem, loop>>
    BY <2>1, <2>2 DEF AllInSync, InBatch
  <2>3. CASE loop'.phase = "poll" /\ mem' = disk
    BY <2>1, <2>3 DEF AllInSync, InBatch
  <2>4. CASE loop'.phase = "poll" /\ mem' = mem /\ loop.phase = "fetch"
    BY <2>1, <2>4 DEF AllInSync, InBatch
  <2>5. QED
    BY <2>1, <2>2, <2>3, <2>4
<1>9. QED
  BY <1>1, <1>2, <1>3, <1>4, <1>5, <1>6, <1>7, <1>8 DEF ScanAction

-----------------------------------------------------------------------------
(* The theorems about the scanner *)

\* load_or_init without a state file.
LEMMA ScanStarts ==
  ASSUME Init
  PROVE  ScanInv
<1>1. /\ Fresh \in Cursors /\ Fresh.last = 0 /\ Fresh.pause = "none"
      /\ \A d \in Dest : Fresh.nonces[d] = Unseen
  <2> DEFINE ns == [d \in Dest |-> Unseen]
  <2>1. ns \in [Dest -> Int] /\ \A d \in Dest : ns[d] = Unseen
    BY DEF Unseen
  <2>2. Fresh = [last |-> 0, nonces |-> ns, pause |-> "none"]
    BY DEF Fresh
  <2> HIDE DEF ns
  <2>3. QED
    BY <2>1, <2>2 DEF Cursors, Reason
<1>2. /\ mem = Fresh /\ disk = Fresh /\ loop = Idle /\ progress = NoProgress /\ signed = {}
      /\ kept = {} /\ owed = 0 /\ halted = FALSE /\ rescanned = FALSE /\ confirmed = 0 /\ lies = 0
  BY DEF Init
<1>3. ScanTypes
  BY <1>1, <1>2, IdleFields DEF ScanTypes, NoProgress
<1>4. StopHolds /\ RescanWaits
  BY <1>2 DEF StopHolds, RescanWaits
<1>5. AllCovered
  BY <1>1, <1>2, IdleFields, Events DEF AllCovered, Covered, InBatch
<1>6. AllUnbroken
  BY <1>2, IdleFields DEF AllUnbroken, Unbroken, InBatch
<1>7. AllInSync
  <2>1. InSync(Fresh.nonces, Behind(Fresh.last))
    BY <1>1 DEF InSync
  <2>2. QED
    BY <1>1, <1>2, <2>1, IdleFields DEF AllInSync, InBatch
<1>8. QED
  BY <1>3, <1>4, <1>5, <1>6, <1>7 DEF ScanInv

\* The scanner's memory, its file and the store agree in every reachable state.
THEOREM ScanInvariant == Spec => []ScanInv
<1>1. Init => ScanInv
  BY ScanStarts
<1>2. ScanInv /\ [Next]_vars => ScanInv'
  BY NextIsAction, TypesStep, StopStep, RescanStep, CoveredStep, UnbrokenStep, SyncStep DEF ScanInv
<1>3. QED
  BY <1>1, <1>2, PTL DEF Spec

\* What was accepted for good is at or behind its corridor's cursor, and so is all between.
LEMMA InvGivesNothingSkipped ==
  ASSUME ScanInv
  PROVE  NothingSkipped
<1> USE DEF ScanInv
<1>1. CursorIsCovered
  <2>1. disk.last = mem.last
    BY DEF ScanTypes
  <2>2. QED
    BY <2>1 DEF CursorIsCovered, AllCovered, Covered, Event
<1>2. NoHoles
  <2> SUFFICES ASSUME ~ rescanned, NEW e \in kept, NEW g \in kept, NEW f \in Event,
                      e.to = f.to, f.to = g.to, e.nonce < f.nonce, f.nonce < g.nonce, f.signable
               PROVE  f \in signed
    BY DEF NoHoles
  <2>1. e \in Event /\ g \in Event /\ disk.nonces[e.to] \in Int
    BY Events DEF ScanTypes, Cursors
  <2>2. g.nonce <= disk.nonces[e.to]
    BY DEF AllUnbroken, Unbroken
  <2>3. f.nonce <= disk.nonces[e.to]
    BY <2>1, <2>2, Events
  <2>4. QED
    BY <2>3 DEF AllUnbroken, Unbroken
<1>3. QED
  BY <1>1, <1>2 DEF NothingSkipped

\* NothingSkipped, for every log, however crashes, failing stores, operators and lying endpoints
\* fall: scan_source's cursor leaves nothing unsigned behind it, and check_nonce lets no hidden
\* transfer through between two it accepted.
THEOREM NothingSkippedTheorem == Spec => []NothingSkipped
<1>1. ScanInv => NothingSkipped
  BY InvGivesNothingSkipped
<1>2. QED
  BY <1>1, ScanInvariant, PTL

LEMMA InvGivesOperatorIsObeyed ==
  ASSUME ScanInv
  PROVE  OperatorIsObeyed
<1> USE DEF ScanInv
<1>1. SafetyStopHolds
  BY DEF SafetyStopHolds, StopHolds
<1>2. RescanIsHonoured
  <2>1. mem.last \in Nat /\ owed \in Nat
    BY DEF ScanTypes, Cursors
  <2>2. QED
    BY <2>1 DEF RescanIsHonoured, RescanTakesEffect, RescanWaits, next_block
<1>3. NoFalseAlarm
  BY DEF NoFalseAlarm, CursorsAdvanceTogether, AllInSync
<1>4. QED
  BY <1>1, <1>2, <1>3 DEF OperatorIsObeyed

\* OperatorIsObeyed, for every log and any number of calls and crashes: a stop holds until it is
\* lifted, a rescan is begun where it was asked, and truthful endpoints never stop the scanner.
THEOREM OperatorIsObeyedTheorem == Spec => []OperatorIsObeyed
<1>1. ScanInv => OperatorIsObeyed
  BY InvGivesOperatorIsObeyed
<1>2. QED
  BY <1>1, ScanInvariant, PTL

-----------------------------------------------------------------------------
(* The row's inductive invariant *)

Works == [task : Duty \cup {"none"}, next : Statement \cup {"none"}]

RowTypes ==
  /\ deployed \in Site /\ chain \in ChainState
  /\ entry \in Row /\ marker \in Marker /\ marker.refund_status # "refunded"
  /\ work \in [Writer -> Works] /\ handled \subseteq LifecycleEvent
  /\ failed \in Nat /\ collected \in Nat

TasksOf(p) ==
  IF p = "src" THEN {"sent", "refunded", "none"}
  ELSE IF p = "dst" THEN {"claimed", "cancelled", "none"} ELSE {"post", "none"}

\* Where each writer can be with its task.
OnCourse(w) ==
  /\ w.task = "none" <=> w.next = "none"
  /\ w.next = "insert" => w.task \in {"sent", "post"}
  /\ w.next = "vouch" => w.task = "sent"
  /\ w.next \in {"update", "exists", "retry"} => w.task \in {"claimed", "cancelled", "refunded"}
  /\ w.next \in {"park", "recheck"} => w.task \in {"claimed", "cancelled"}
  /\ w.next \in {"apply", "clear"} => w.task # "refunded"

Indexed == deployed.sourceIndexed
Parks == deployed.onMissing["dst"] = "park"

\* A statement behind the insert has its row, one behind the vouching has it vouched; a refund of
\* an indexed source comes after its Sent; only the destination's reporter parks anything.
Courses ==
  /\ \A p \in Writer : work[p].task \in TasksOf(p) /\ OnCourse(work[p])
  /\ \A p \in Writer : work[p].next \in {"vouch", "apply", "clear", "retry"} => entry.present
  /\ \A p \in Writer : work[p].task = "sent" /\ work[p].next \in {"apply", "clear"} => entry.sent_observed
  /\ "sent" \in handled => entry.present
  /\ Indexed /\ work["src"].task = "refunded" => entry.present /\ work["src"].next = "update"
  /\ ~ Parks => /\ marker.status = "" /\ marker.refund_status = ""
                /\ work["dst"].next \notin {"park", "recheck", "apply", "clear"}
                /\ (entry.status = "claimed" => entry.refund_status # "eligible")

\* What a writer works on, what is parked and what the row says has happened.
Happened(c, e) ==
  IF e = "sent" THEN c # "none"
  ELSE IF e = "claimed" THEN c = "claimed"
  ELSE IF e = "cancelled" THEN c \in {"burned", "refunded"}
  ELSE c = "refunded"
RowIsTrue ==
  /\ \A p \in Reporter : work[p].task # "none" => Happened(chain, work[p].task)
  /\ marker.status # "" => Happened(chain, "claimed")
  /\ marker.refund_status # "" => Happened(chain, "cancelled")
  /\ entry.status = "claimed" => Happened(chain, "claimed")
  /\ entry.refund_status \in {"cancelled", "refunded"} => Happened(chain, entry.refund_status)
  /\ entry.sent_observed => Happened(chain, "sent")

\* Writers that take turns: nothing is parked or applied by a reporter beside a row, and what is applied stays until the
\* marker is cleared.
InTurn ==
  deployed.serial =>
    /\ \A p, q \in Writer : work[p].task # "none" /\ work[q].task # "none" => p = q
    /\ \A p \in Writer : work[p].next \in {"park", "recheck"} => ~ entry.present
    /\ work["dst"].next \notin {"apply", "clear"}
    /\ \A p \in Writer : work[p].next = "clear" =>
         /\ marker.status # "" => entry.status = "claimed"
         /\ marker.refund_status # "" => entry.refund_status = "cancelled"
    /\ Indexed /\ ("sent" \in handled \/ work["src"].task = "refunded"
                   \/ entry.refund_status = "refunded")
       => entry.present /\ marker.status = "" /\ marker.refund_status = ""

\* The row, once its marker is applied, shows event e.
Reached(m, r, e) ==
  IF e = "claimed" THEN m.status = "claimed" \/ r.status = "claimed"
  ELSE IF e = "cancelled"
  THEN m.refund_status = "cancelled" \/ r.refund_status \in {"cancelled", "refunded"}
  ELSE IF e = "refunded" THEN m.refund_status = "" /\ r.refund_status = "refunded"
  ELSE r.sent_observed
RowShows ==
  TakingTurns /\ collected = 0 =>
    /\ \A e \in handled : Reached(marker, entry, e)
    /\ work["dst"].next = "recheck" => Reached(marker, entry, work["dst"].task)

LifeInv == RowTypes /\ Courses /\ RowIsTrue /\ InTurn /\ RowShows

-----------------------------------------------------------------------------
(* What each statement does to the row and to its writer *)

LEMMA Moved ==
  ASSUME RowTypes, NEW p \in Writer, NEW s \in Statement, Goto(p, s)
  PROVE  /\ work' \in [Writer -> Works] /\ work'[p].task = work[p].task /\ work'[p].next = s
         /\ \A q \in Writer : q # p => work'[q] = work[q]
<1> DEFINE w == [work[p] EXCEPT !.next = s]
<1>1. w \in Works /\ w.task = work[p].task /\ w.next = s
  BY DEF RowTypes, Works
<1>2. work' = [work EXCEPT ![p] = w]
  BY DEF Goto, RowTypes
<1> HIDE DEF w
<1>3. QED
  BY <1>1, <1>2 DEF RowTypes

LEMMA Rested ==
  ASSUME RowTypes, NEW p \in Writer, Rest(p)
  PROVE  /\ work' \in [Writer -> Works] /\ work'[p].task = "none" /\ work'[p].next = "none"
         /\ \A q \in Writer : q # p => work'[q] = work[q]
<1>1. AtRest \in Works /\ AtRest.task = "none" /\ AtRest.next = "none"
  BY DEF AtRest, Works
<1>2. QED
  BY <1>1 DEF Rest, RowTypes

LEMMA Started ==
  ASSUME RowTypes, NEW p \in Writer, NEW t \in Duty, NEW s \in Statement,
         work' = [work EXCEPT ![p] = [task |-> t, next |-> s]]
  PROVE  /\ work' \in [Writer -> Works] /\ work'[p].task = t /\ work'[p].next = s
         /\ \A q \in Writer : q # p => work'[q] = work[q]
<1> DEFINE w == [task |-> t, next |-> s]
<1>1. w \in Works /\ w.task = t /\ w.next = s
  BY DEF Works
<1> HIDE DEF w
<1>2. QED
  BY <1>1 DEF RowTypes, w

InsertDoes(p) ==
  /\ UNCHANGED <<deployed, chain, marker, handled, failed, collected>>
  /\ work[p].next = "insert" /\ entry' \in Row /\ entry'.present
  /\ entry'.status = entry.status /\ entry'.refund_status = entry.refund_status
  /\ entry'.sent_observed = entry.sent_observed
  /\ work' \in [Writer -> Works] /\ work'[p].task = work[p].task
  /\ work'[p].next = (IF work[p].task = "sent" THEN "vouch" ELSE "apply")
  /\ \A q \in Writer : q # p => work'[q] = work[q]

LEMMA InsertFields ==
  ASSUME RowTypes, NEW p \in Writer, Insert(p)
  PROVE  InsertDoes(p)
<1> USE DEF InsertDoes
<1>1. entry' = [entry EXCEPT !.present = TRUE] /\ work[p].next = "insert"
      /\ UNCHANGED <<deployed, chain, marker, handled, failed, collected>>
      /\ Goto(p, IF work[p].task = "sent" THEN "vouch" ELSE "apply")
  BY DEF Insert, At
<1>2. entry' \in Row /\ entry'.present
      /\ entry'.status = entry.status /\ entry'.refund_status = entry.refund_status
      /\ entry'.sent_observed = entry.sent_observed
  BY <1>1 DEF RowTypes, Row
<1>3. (IF work[p].task = "sent" THEN "vouch" ELSE "apply") \in Statement
  BY DEF Statement
<1>4. QED
  BY <1>1, <1>2, <1>3, Moved

VouchDoes(p) ==
  /\ UNCHANGED <<deployed, chain, marker, handled, failed, collected>>
  /\ work[p].next = "vouch" /\ entry' \in Row /\ entry'.present = entry.present
  /\ entry'.status = entry.status /\ entry'.refund_status = entry.refund_status
  /\ entry'.sent_observed
  /\ work' \in [Writer -> Works] /\ work'[p].task = work[p].task
  /\ work'[p].next = "apply"
  /\ \A q \in Writer : q # p => work'[q] = work[q]

LEMMA VouchFields ==
  ASSUME RowTypes, NEW p \in Writer, Vouch(p)
  PROVE  VouchDoes(p)
<1> USE DEF VouchDoes
<1>1. entry' = [entry EXCEPT !.sent_observed = TRUE] /\ work[p].next = "vouch"
      /\ UNCHANGED <<deployed, chain, marker, handled, failed, collected>>
      /\ Goto(p, "apply")
  BY DEF Vouch, At
<1>2. entry' \in Row /\ entry'.present = entry.present
      /\ entry'.status = entry.status /\ entry'.refund_status = entry.refund_status
      /\ entry'.sent_observed
  BY <1>1 DEF RowTypes, Row
<1>3. "apply" \in Statement
  BY DEF Statement
<1>4. QED
  BY <1>1, <1>2, <1>3, Moved

\* The UPDATE of a lifecycle event.
MarkedBy(e) ==
  /\ entry' \in Row /\ entry'.present = entry.present
  /\ entry'.sent_observed = entry.sent_observed
  /\ ~ matches(e, entry) => entry' = entry
  /\ matches(e, entry) =>
       /\ entry.present
       /\ entry'.status = (IF e = "claimed" THEN "claimed" ELSE entry.status)
       /\ entry'.refund_status =
            (IF e # "claimed" THEN e
             ELSE IF entry.refund_status = "eligible" THEN "none" ELSE entry.refund_status)

LEMMA MarkFields ==
  ASSUME RowTypes, NEW e \in {"claimed", "cancelled", "refunded"}, lifecycle_update(e)
  PROVE  MarkedBy(e)
<1> USE DEF MarkedBy
<1>1. CASE ~ matches(e, entry)
  BY <1>1 DEF lifecycle_update, RowTypes
<1>2. CASE matches(e, entry) /\ e = "claimed"
  <2>1. entry' = [entry EXCEPT !.status = "claimed",
                    !.refund_status = IF entry.refund_status = "eligible" THEN "none" ELSE entry.refund_status]
    BY <1>2 DEF lifecycle_update, markClaimed
  <2>2. QED
    BY <2>1, <1>2 DEF RowTypes, Row, matches
<1>3. CASE matches(e, entry) /\ e # "claimed"
  <2>1. entry' = [entry EXCEPT !.refund_status = e]
    BY <1>3 DEF lifecycle_update, markRefundStatus
  <2>2. QED
    BY <2>1, <1>3 DEF RowTypes, Row, matches
<1>4. QED
  BY <1>1, <1>2, <1>3

\* A reporter's task is the event it reports.
LEMMA TaskIsEvent ==
  ASSUME RowTypes, Courses, NEW p \in Writer, work[p].next \in {"update", "exists", "retry", "park", "recheck"}
  PROVE  /\ work[p].task \in {"claimed", "cancelled", "refunded"} /\ p \in Reporter
         /\ work[p].task = "refunded" <=> p = "src"
         /\ work[p].next \in {"park", "recheck"} => p = "dst" /\ work[p].task # "refunded"
<1>1. p = "src" \/ p = "dst" \/ p \in Poster
  BY DEF Writer, Reporter
<1>2. work[p].task \in TasksOf(p) /\ OnCourse(work[p])
  BY DEF Courses
<1>3. p \in Poster => p # "src" /\ p # "dst"
  BY LifecycleAssumption DEF Reporter
<1>4. QED
  BY <1>1, <1>2, <1>3 DEF TasksOf, OnCourse, Reporter

LEMMA Finished ==
  ASSUME RowTypes, NEW p \in Writer, Finish(p)
  PROVE  /\ work' \in [Writer -> Works] /\ work'[p].task = "none" /\ work'[p].next = "none"
         /\ \A q \in Writer : q # p => work'[q] = work[q]
         /\ p \in Reporter => handled' = handled \cup {work[p].task}
         /\ p \notin Reporter => handled' = handled
  BY Rested DEF Finish

UpdateDoes(p) ==
  /\ UNCHANGED <<deployed, chain, marker, failed, collected>>
  /\ work[p].next = "update" /\ lifecycle_update(work[p].task)
  /\ work' \in [Writer -> Works]
  /\ \A q \in Writer : q # p => work'[q] = work[q]
  /\ \/ /\ matches(work[p].task, entry) /\ handled' = handled \cup {work[p].task}
        /\ work'[p].task = "none" /\ work'[p].next = "none"
     \/ /\ ~ matches(work[p].task, entry) /\ handled' = handled
        /\ work'[p].task = work[p].task /\ work'[p].next = "exists"

LEMMA UpdateFields ==
  ASSUME RowTypes, Courses, NEW p \in Writer, Update(p)
  PROVE  UpdateDoes(p)
<1> USE DEF UpdateDoes
<1>1. /\ UNCHANGED <<deployed, chain, marker, failed, collected>>
      /\ work[p].next = "update" /\ lifecycle_update(work[p].task)
      /\ \/ matches(work[p].task, entry) /\ Finish(p)
         \/ ~ matches(work[p].task, entry) /\ Goto(p, "exists") /\ handled' = handled
  BY DEF Update, At
<1>2. p \in Reporter
  BY <1>1, TaskIsEvent
<1>3. "exists" \in Statement
  BY DEF Statement
<1>4. QED
  BY <1>1, <1>2, <1>3, Finished, Moved

ExistsDoes(p) ==
  /\ UNCHANGED <<deployed, chain, entry, marker, handled, failed, collected>>
  /\ work[p].next = "exists" /\ work' \in [Writer -> Works]
  /\ \A q \in Writer : q # p => work'[q] = work[q]
  /\ \/ entry.present /\ work'[p].task = work[p].task /\ work'[p].next = "retry"
     \/ /\ ~ entry.present /\ deployed.onMissing[p] = "park"
        /\ work'[p].task = work[p].task /\ work'[p].next = "park"
     \/ ~ entry.present /\ work'[p].task = "none" /\ work'[p].next = "none"

LEMMA ExistsFields ==
  ASSUME RowTypes, NEW p \in Writer, Exists(p)
  PROVE  ExistsDoes(p)
<1> USE DEF ExistsDoes
<1>1. /\ UNCHANGED <<deployed, chain, entry, marker, handled, failed, collected>>
      /\ work[p].next = "exists"
      /\ \/ entry.present /\ Goto(p, "retry")
         \/ ~ entry.present /\ deployed.onMissing[p] = "park" /\ Goto(p, "park")
         \/ ~ entry.present /\ Rest(p)
  BY DEF Exists, At
<1>2. "retry" \in Statement /\ "park" \in Statement
  BY DEF Statement
<1>3. QED
  BY <1>1, <1>2, Rested, Moved

RetryDoes(p) ==
  /\ UNCHANGED <<deployed, chain, marker, failed, collected>>
  /\ work[p].next = "retry" /\ lifecycle_update(work[p].task)
  /\ work' \in [Writer -> Works]
  /\ \A q \in Writer : q # p => work'[q] = work[q]
  /\ handled' = handled \cup {work[p].task}
  /\ work'[p].task = "none" /\ work'[p].next = "none"

LEMMA RetryFields ==
  ASSUME RowTypes, Courses, NEW p \in Writer, Retry(p)
  PROVE  RetryDoes(p)
<1> USE DEF RetryDoes
<1>1. /\ UNCHANGED <<deployed, chain, marker, failed, collected>>
      /\ work[p].next = "retry" /\ lifecycle_update(work[p].task) /\ Finish(p)
  BY DEF Retry, At
<1>2. p \in Reporter
  BY <1>1, TaskIsEvent
<1>3. QED
  BY <1>1, <1>2, Finished

ParkDoes(p) ==
  /\ UNCHANGED <<deployed, chain, entry, handled, failed, collected>>
  /\ work[p].next = "park" /\ p = "dst" /\ work[p].task \in {"claimed", "cancelled"}
  /\ work' \in [Writer -> Works]
  /\ \A q \in Writer : q # p => work'[q] = work[q]
  /\ work'[p].task = work[p].task /\ work'[p].next = "recheck"
  /\ marker' \in Marker
  /\ marker'.status = (IF work[p].task = "claimed" THEN "claimed" ELSE marker.status)
  /\ marker'.refund_status = (IF work[p].task = "cancelled" THEN "cancelled" ELSE marker.refund_status)

LEMMA ParkFields ==
  ASSUME RowTypes, Courses, NEW p \in Writer, Park(p)
  PROVE  ParkDoes(p)
<1> USE DEF ParkDoes
<1>1. /\ UNCHANGED <<deployed, chain, entry, handled, failed, collected>>
      /\ work[p].next = "park" /\ Goto(p, "recheck")
      /\ marker' = mergeMarker(marker, markerFor(work[p].task))
  BY DEF Park, At
<1>2. p = "dst" /\ work[p].task \in {"claimed", "cancelled"}
  BY <1>1, TaskIsEvent
<1>3. "recheck" \in Statement
  BY DEF Statement
<1>4. /\ marker' \in Marker
      /\ marker'.status = (IF work[p].task = "claimed" THEN "claimed" ELSE marker.status)
      /\ marker'.refund_status = (IF work[p].task = "cancelled" THEN "cancelled" ELSE marker.refund_status)
  BY <1>1, <1>2 DEF RowTypes, Marker, mergeMarker, markerFor, COALESCE
<1>5. QED
  BY <1>1, <1>2, <1>3, <1>4, Moved

RecheckDoes(p) ==
  /\ UNCHANGED <<deployed, chain, entry, marker, failed, collected>>
  /\ work[p].next = "recheck" /\ p = "dst" /\ work[p].task \in {"claimed", "cancelled"}
  /\ work' \in [Writer -> Works]
  /\ \A q \in Writer : q # p => work'[q] = work[q]
  /\ \/ /\ entry.present /\ handled' = handled
        /\ work'[p].task = work[p].task /\ work'[p].next = "apply"
     \/ /\ ~ entry.present /\ handled' = handled \cup {work[p].task}
        /\ work'[p].task = "none" /\ work'[p].next = "none"

LEMMA RecheckFields ==
  ASSUME RowTypes, Courses, NEW p \in Writer, Recheck(p)
  PROVE  RecheckDoes(p)
<1> USE DEF RecheckDoes
<1>1. /\ UNCHANGED <<deployed, chain, entry, marker, failed, collected>>
      /\ work[p].next = "recheck"
      /\ \/ entry.present /\ Goto(p, "apply") /\ handled' = handled
         \/ ~ entry.present /\ Finish(p)
  BY DEF Recheck, At
<1>2. p = "dst" /\ work[p].task \in {"claimed", "cancelled"} /\ p \in Reporter
  BY <1>1, TaskIsEvent
<1>3. "apply" \in Statement
  BY DEF Statement
<1>4. QED
  BY <1>1, <1>2, <1>3, Finished, Moved

ApplyDoes(p) ==
  /\ UNCHANGED <<deployed, chain, marker, handled, failed, collected>>
  /\ work[p].next = "apply" /\ entry.present
  /\ work' \in [Writer -> Works]
  /\ \A q \in Writer : q # p => work'[q] = work[q]
  /\ work'[p].task = work[p].task /\ work'[p].next = "clear"
  /\ entry' \in Row /\ entry'.present /\ entry'.sent_observed = entry.sent_observed
  /\ entry'.status = (IF marker.status # "" THEN marker.status ELSE entry.status)
  /\ entry'.refund_status =
       (IF marker.refund_status # "" THEN marker.refund_status ELSE entry.refund_status)

LEMMA ApplyFields ==
  ASSUME RowTypes, Courses, NEW p \in Writer, Apply(p)
  PROVE  ApplyDoes(p)
<1> USE DEF ApplyDoes
<1>1. /\ UNCHANGED <<deployed, chain, marker, handled, failed, collected>>
      /\ work[p].next = "apply" /\ Goto(p, "clear") /\ entry' = applyMarker(entry, marker)
  BY DEF Apply, At
<1>2. entry.present
  BY <1>1 DEF Courses
<1>3. "clear" \in Statement
  BY DEF Statement
<1>4. /\ entry' \in Row /\ entry'.present /\ entry'.sent_observed = entry.sent_observed
      /\ entry'.status = (IF marker.status # "" THEN marker.status ELSE entry.status)
      /\ entry'.refund_status =
           (IF marker.refund_status # "" THEN marker.refund_status ELSE entry.refund_status)
  BY <1>1, <1>2 DEF RowTypes, Row, Marker, applyMarker, COALESCE
<1>5. QED
  BY <1>1, <1>2, <1>3, <1>4, Moved

ClearDoes(p) ==
  /\ UNCHANGED <<deployed, chain, entry, failed, collected>>
  /\ work[p].next = "clear" /\ work' \in [Writer -> Works]
  /\ \A q \in Writer : q # p => work'[q] = work[q]
  /\ work'[p].task = "none" /\ work'[p].next = "none"
  /\ p \in Reporter => handled' = handled \cup {work[p].task}
  /\ p \notin Reporter => handled' = handled
  /\ marker' \in Marker /\ marker'.status = "" /\ marker'.refund_status = ""

LEMMA ClearFields ==
  ASSUME RowTypes, NEW p \in Writer, Clear(p)
  PROVE  ClearDoes(p)
<1> USE DEF ClearDoes
<1>1. marker' \in Marker /\ marker'.status = "" /\ marker'.refund_status = ""
  BY DEF Clear, NoMarker, Marker
<1>2. QED
  BY <1>1, Finished DEF Clear, At
-----------------------------------------------------------------------------
(* Every step keeps the invariant *)

LEMMA WhoWrites ==
  /\ "src" \in Writer /\ "dst" \in Writer /\ "src" \in Reporter /\ "dst" \in Reporter
  /\ \A p \in Writer : p = "src" \/ p = "dst" \/ (p \in Poster /\ p # "src" /\ p # "dst")
  /\ \A p \in Writer : p \in Reporter <=> (p = "src" \/ p = "dst")
  BY LifecycleAssumption DEF Writer, Reporter

\* Writer p is the only one to move.
Only(p) == work' \in [Writer -> Works] /\ \A q \in Writer : q # p => work'[q] = work[q]

\* What a step of writer p must see to for the courses to hold on.
LEMMA CoursesStep ==
  ASSUME Courses, NEW p \in Writer, Only(p), deployed' = deployed,
         entry.present => entry'.present, entry.sent_observed => entry'.sent_observed,
         work'[p].task \in TasksOf(p), OnCourse(work'[p]),
         work'[p].next \in {"vouch", "apply", "clear", "retry"} => entry'.present,
         work'[p].task = "sent" /\ work'[p].next \in {"apply", "clear"} => entry'.sent_observed,
         "sent" \in handled' => entry'.present,
         p = "src" /\ Indexed /\ work'[p].task = "refunded" => entry'.present /\ work'[p].next = "update",
         ~ Parks => /\ marker'.status = "" /\ marker'.refund_status = ""
                    /\ p = "dst" => work'[p].next \notin {"park", "recheck", "apply", "clear"}
                    /\ entry'.status = "claimed" => entry'.refund_status # "eligible"
  PROVE  Courses'
<1>1. \A q \in Writer : work'[q].task \in TasksOf(q) /\ OnCourse(work'[q])
  BY DEF Courses, Only
<1>2. \A q \in Writer : work'[q].next \in {"vouch", "apply", "clear", "retry"} => entry'.present
  BY DEF Courses, Only
<1>3. \A q \in Writer :
        work'[q].task = "sent" /\ work'[q].next \in {"apply", "clear"} => entry'.sent_observed
  BY DEF Courses, Only
<1>4. Indexed /\ work'["src"].task = "refunded" => entry'.present /\ work'["src"].next = "update"
  BY WhoWrites DEF Courses, Only
<1>5. ~ Parks => /\ marker'.status = "" /\ marker'.refund_status = ""
                 /\ work'["dst"].next \notin {"park", "recheck", "apply", "clear"}
                 /\ entry'.status = "claimed" => entry'.refund_status # "eligible"
  BY WhoWrites DEF Courses, Only
<1>6. QED
  BY <1>1, <1>2, <1>3, <1>4, <1>5 DEF Courses, Indexed, Parks

\* A writer at work is alone where writers take turns.
LEMMA Alone ==
  ASSUME Courses, InTurn, NEW p \in Writer, work[p].task # "none", deployed.serial
  PROVE  \A q \in Writer : q # p => work[q].task = "none" /\ work[q].next = "none"
  BY DEF Courses, InTurn, OnCourse

LEMMA InTurnStep ==
  ASSUME Courses, InTurn, NEW p \in Writer, Only(p), deployed' = deployed,
         deployed.serial =>
           /\ \A q \in Writer : q # p => work[q].task = "none" /\ work[q].next = "none"
           /\ work'[p].next \in {"park", "recheck"} => ~ entry'.present
           /\ p = "dst" => work'[p].next \notin {"apply", "clear"}
           /\ work'[p].next = "clear" =>
                /\ marker'.status # "" => entry'.status = "claimed"
                /\ marker'.refund_status # "" => entry'.refund_status = "cancelled"
           /\ Indexed /\ ("sent" \in handled' \/ (p = "src" /\ work'[p].task = "refunded")
                          \/ entry'.refund_status = "refunded")
              => entry'.present /\ marker'.status = "" /\ marker'.refund_status = ""
  PROVE  InTurn'
<1> SUFFICES ASSUME deployed.serial PROVE InTurn'
  BY DEF InTurn
<1>1. \A q \in Writer : q # p => work'[q].task = "none" /\ work'[q].next = "none"
  BY DEF Only
<1>2. QED
  BY <1>1, WhoWrites DEF InTurn, Indexed

LEMMA ShowsStep ==
  ASSUME RowShows, deployed' = deployed,
         TakingTurns /\ collected' = 0 =>
           /\ collected = 0
           /\ \A e \in handled : Reached(marker, entry, e) => Reached(marker', entry', e)
           /\ \A e \in handled' : e \notin handled => Reached(marker', entry', e)
           /\ work'["dst"].next = "recheck" => Reached(marker', entry', work'["dst"].task)
  PROVE  RowShows'
<1> SUFFICES ASSUME TakingTurns, collected' = 0
             PROVE  /\ \A e \in handled' : Reached(marker', entry', e)
                    /\ work'["dst"].next = "recheck" => Reached(marker', entry', work'["dst"].task)
  BY DEF RowShows, TakingTurns
<1>1. \A e \in handled : Reached(marker', entry', e)
  BY DEF RowShows
<1>2. QED
  BY <1>1

\* The events writer p works on, what is parked and what the row says stay true.
LEMMA TruthStep ==
  ASSUME RowIsTrue, NEW p \in Writer, Only(p), chain' = chain,
         p \in Reporter /\ work'[p].task # "none" => Happened(chain, work'[p].task),
         marker'.status # "" => Happened(chain, "claimed"),
         marker'.refund_status # "" => Happened(chain, "cancelled"),
         entry'.status = "claimed" => Happened(chain, "claimed"),
         entry'.refund_status \in {"cancelled", "refunded"} => Happened(chain, entry'.refund_status),
         entry'.sent_observed => Happened(chain, "sent")
  PROVE  RowIsTrue'
<1>1. \A q \in Reporter : work'[q].task # "none" => Happened(chain, work'[q].task)
  BY WhoWrites DEF RowIsTrue, Only, Writer
<1>2. QED
  BY <1>1 DEF RowIsTrue

LEMMA InsertKeeps ==
  ASSUME LifeInv, NEW p \in Writer, Insert(p)
  PROVE  LifeInv'
<1> USE WhoWrites DEF LifeInv
<1>0. InsertDoes(p) /\ Only(p) /\ deployed' = deployed
  BY InsertFields DEF InsertDoes, Only
<1>1. work[p].task \in TasksOf(p) /\ OnCourse(work[p]) /\ work[p].task # "none"
  BY <1>0 DEF Courses, OnCourse, InsertDoes
<1>2. RowTypes'
  BY <1>0 DEF RowTypes, InsertDoes
<1>3. Courses'
  <2>1. work'[p].task \in TasksOf(p) /\ OnCourse(work'[p])
    BY <1>0, <1>1 DEF OnCourse, TasksOf, InsertDoes
  <2>2. QED
    BY <1>0, <1>1, <2>1, CoursesStep DEF Courses, TasksOf, OnCourse, InsertDoes, RowTypes
<1>4. RowIsTrue'
  <2>1. p \in Reporter /\ work'[p].task # "none" => Happened(chain, work'[p].task)
    BY <1>0 DEF RowIsTrue, InsertDoes
  <2>2. QED
    BY <1>0, <1>1, <2>1, TruthStep DEF RowIsTrue, TasksOf, RowTypes, Row, Marker, InsertDoes
<1>5. InTurn'
  BY <1>0, <1>1, Alone, InTurnStep DEF InTurn, OnCourse, TasksOf, Courses, RowTypes, Marker, InsertDoes
<1>6. RowShows'
  <2>1. \A e : Reached(marker, entry, e) => Reached(marker', entry', e)
    BY <1>0 DEF Reached, InsertDoes
  <2>2. TakingTurns /\ work'["dst"].next = "recheck" => work'["dst"] = work["dst"]
    BY <1>0 DEF Only, InsertDoes
  <2>3. QED
    BY <1>0, <2>1, <2>2, ShowsStep DEF RowShows, InsertDoes
<1>7. QED
  BY <1>2, <1>3, <1>4, <1>5, <1>6

LEMMA VouchKeeps ==
  ASSUME LifeInv, NEW p \in Writer, Vouch(p)
  PROVE  LifeInv'
<1> USE WhoWrites DEF LifeInv
<1>0. VouchDoes(p) /\ Only(p) /\ deployed' = deployed
  BY VouchFields DEF VouchDoes, Only
<1>1. work[p].task \in TasksOf(p) /\ OnCourse(work[p]) /\ work[p].task # "none"
  BY <1>0 DEF Courses, OnCourse, VouchDoes
<1>2. RowTypes'
  BY <1>0 DEF RowTypes, VouchDoes
<1>3. Courses'
  <2>1. work'[p].task \in TasksOf(p) /\ OnCourse(work'[p])
    BY <1>0, <1>1 DEF OnCourse, TasksOf, VouchDoes
  <2>2. QED
    BY <1>0, <1>1, <2>1, CoursesStep DEF Courses, TasksOf, OnCourse, VouchDoes, RowTypes
<1>4. RowIsTrue'
  <2>1. p \in Reporter /\ work'[p].task # "none" => Happened(chain, work'[p].task)
    BY <1>0 DEF RowIsTrue, VouchDoes
  <2>2. p = "src" /\ work[p].task = "sent"
    BY <1>0, <1>1 DEF TasksOf, OnCourse, VouchDoes
  <2>3. Happened(chain, "sent")
    BY <1>1, <2>2 DEF RowIsTrue
  <2>4. QED
    BY <1>0, <2>1, <2>3, TruthStep DEF RowIsTrue, VouchDoes
<1>5. InTurn'
  BY <1>0, <1>1, Alone, InTurnStep DEF InTurn, OnCourse, TasksOf, Courses, RowTypes, Marker, VouchDoes
<1>6. RowShows'
  <2>1. \A e : Reached(marker, entry, e) => Reached(marker', entry', e)
    BY <1>0 DEF Reached, VouchDoes
  <2>2. TakingTurns /\ work'["dst"].next = "recheck" => work'["dst"] = work["dst"]
    BY <1>0 DEF Only, VouchDoes
  <2>3. QED
    BY <1>0, <2>1, <2>2, ShowsStep DEF RowShows, VouchDoes
<1>7. QED
  BY <1>2, <1>3, <1>4, <1>5, <1>6

LEMMA ExistsKeeps ==
  ASSUME LifeInv, NEW p \in Writer, Exists(p)
  PROVE  LifeInv'
<1> USE WhoWrites DEF LifeInv
<1>0. ExistsDoes(p) /\ Only(p) /\ deployed' = deployed
  BY ExistsFields DEF ExistsDoes, Only
<1>1. work[p].task \in TasksOf(p) /\ OnCourse(work[p]) /\ work[p].task # "none"
  BY <1>0 DEF Courses, OnCourse, ExistsDoes
<1>2. RowTypes'
  BY <1>0 DEF RowTypes, ExistsDoes
<1>3. Courses'
  <2>1. work'[p].task \in TasksOf(p) /\ OnCourse(work'[p])
    <3>1. p = "src" => deployed.onMissing[p] # "park"
      BY <1>0, TaskIsEvent, LifecycleAssumption DEF Courses, Indexed, RowTypes, ExistsDoes
    <3>2. QED
      BY <1>0, <1>1, <3>1, TaskIsEvent DEF OnCourse, TasksOf, ExistsDoes
  <2>2. QED
    <3>1. ~ (p = "src" /\ Indexed /\ work[p].task = "refunded")
      BY <1>0 DEF Courses, ExistsDoes
    <3>2. ~ Parks /\ p = "dst" => deployed.onMissing[p] # "park"
      BY DEF Parks
    <3>3. QED
      BY <1>0, <1>1, <2>1, <3>1, <3>2, CoursesStep DEF Courses, ExistsDoes
<1>4. RowIsTrue'
  <2>1. p \in Reporter /\ work'[p].task # "none" => Happened(chain, work'[p].task)
    BY <1>0 DEF RowIsTrue, ExistsDoes
  <2>2. QED
    BY <1>0, <1>1, <2>1, TruthStep DEF RowIsTrue, TasksOf, RowTypes, Row, Marker, ExistsDoes
<1>5. InTurn'
  BY <1>0, <1>1, Alone, InTurnStep DEF InTurn, OnCourse, TasksOf, Courses, RowTypes, Marker, ExistsDoes
<1>6. RowShows'
  <2>1. \A e : Reached(marker, entry, e) => Reached(marker', entry', e)
    BY <1>0 DEF Reached, ExistsDoes
  <2>2. TakingTurns /\ work'["dst"].next = "recheck" => work'["dst"] = work["dst"]
    BY <1>0 DEF Only, ExistsDoes
  <2>3. QED
    BY <1>0, <2>1, <2>2, ShowsStep DEF RowShows, ExistsDoes
<1>7. QED
  BY <1>2, <1>3, <1>4, <1>5, <1>6

LEMMA ParkKeeps ==
  ASSUME LifeInv, NEW p \in Writer, Park(p)
  PROVE  LifeInv'
<1> USE WhoWrites DEF LifeInv
<1>0. ParkDoes(p) /\ Only(p) /\ deployed' = deployed
  BY ParkFields DEF ParkDoes, Only
<1>1. work[p].task \in TasksOf(p) /\ OnCourse(work[p]) /\ work[p].task # "none"
  BY <1>0 DEF Courses, OnCourse, ParkDoes
<1>2. RowTypes'
  BY <1>0 DEF RowTypes, ParkDoes
<1>3. Courses'
  <2>1. work'[p].task \in TasksOf(p) /\ OnCourse(work'[p])
    BY <1>0, <1>1 DEF OnCourse, TasksOf, ParkDoes
  <2>2. QED
    BY <1>0, <1>1, <2>1, CoursesStep DEF Courses, TasksOf, OnCourse, ParkDoes, RowTypes
<1>4. RowIsTrue'
  <2>1. p \in Reporter /\ work'[p].task # "none" => Happened(chain, work'[p].task)
    BY <1>0 DEF RowIsTrue, ParkDoes
  <2>2. QED
    BY <1>0, <1>1, <2>1, TruthStep DEF RowIsTrue, TasksOf, RowTypes, Row, Marker, ParkDoes
<1>5. InTurn'
  BY <1>0, <1>1, Alone, InTurnStep DEF InTurn, OnCourse, TasksOf, Courses, RowTypes, Marker, ParkDoes
<1>6. RowShows'
  <2> SUFFICES ASSUME TakingTurns, collected = 0 PROVE RowShows'
    BY <1>0, ShowsStep DEF ParkDoes
  <2>1. Parks
    BY <1>0 DEF Courses, ParkDoes
  <2>2. deployed.serial /\ Indexed
    BY <2>1 DEF TakingTurns, Parks, Indexed
  <2>3. entry.refund_status # "refunded"
    BY <1>0, <2>2 DEF InTurn, ParkDoes
  <2>4. \A e : Reached(marker, entry, e) => Reached(marker', entry', e)
    BY <1>0, <2>3 DEF Reached, ParkDoes
  <2>5. Reached(marker', entry', work'["dst"].task)
    BY <1>0 DEF Reached, ParkDoes
  <2>6. QED
    BY <1>0, <2>4, <2>5, ShowsStep DEF RowShows, ParkDoes
<1>7. QED
  BY <1>2, <1>3, <1>4, <1>5, <1>6

LEMMA RecheckKeeps ==
  ASSUME LifeInv, NEW p \in Writer, Recheck(p)
  PROVE  LifeInv'
<1> USE WhoWrites DEF LifeInv
<1>0. RecheckDoes(p) /\ Only(p) /\ deployed' = deployed
  BY RecheckFields DEF RecheckDoes, Only
<1>1. work[p].task \in TasksOf(p) /\ OnCourse(work[p]) /\ work[p].task # "none"
  BY <1>0 DEF Courses, OnCourse, RecheckDoes
<1>2. RowTypes'
  <2>1. handled' \subseteq LifecycleEvent
    BY <1>0 DEF RowTypes, LifecycleEvent, RecheckDoes
  <2>2. QED
    BY <1>0, <2>1 DEF RowTypes, RecheckDoes
<1>3. Courses'
  <2>1. work'[p].task \in TasksOf(p) /\ OnCourse(work'[p])
    BY <1>0, <1>1 DEF OnCourse, TasksOf, RecheckDoes
  <2>2. QED
    BY <1>0, <1>1, <2>1, CoursesStep DEF Courses, TasksOf, OnCourse, RecheckDoes, RowTypes
<1>4. RowIsTrue'
  <2>1. p \in Reporter /\ work'[p].task # "none" => Happened(chain, work'[p].task)
    BY <1>0 DEF RowIsTrue, RecheckDoes
  <2>2. QED
    BY <1>0, <1>1, <2>1, TruthStep DEF RowIsTrue, TasksOf, RowTypes, Row, Marker, RecheckDoes
<1>5. InTurn'
  <2>1. deployed.serial => work'[p].task = "none" /\ work'[p].next = "none" /\ handled' = handled \cup {work[p].task}
    BY <1>0 DEF InTurn, RecheckDoes
  <2>2. deployed.serial => \A q \in Writer : q # p => work[q].task = "none" /\ work[q].next = "none"
    BY <1>1, Alone
  <2>3. work[p].task # "sent"
    BY <1>0 DEF RecheckDoes
  <2>4. QED
    <3>1. deployed.serial /\ "sent" \in handled' => "sent" \in handled
      BY <2>1, <2>3
    <3>2. QED
      BY <1>0, <2>1, <2>2, <3>1, InTurnStep DEF InTurn, RecheckDoes
<1>6. RowShows'
  <2> SUFFICES ASSUME TakingTurns, collected = 0 PROVE RowShows'
    BY <1>0, ShowsStep DEF RecheckDoes
  <2>1. \A e : Reached(marker, entry, e) => Reached(marker', entry', e)
    BY <1>0 DEF RecheckDoes
  <2>2. Reached(marker, entry, work["dst"].task)
    BY <1>0 DEF RowShows, RecheckDoes
  <2>3. QED
    BY <1>0, <2>1, <2>2, ShowsStep DEF RowShows, RecheckDoes
<1>7. QED
  BY <1>2, <1>3, <1>4, <1>5, <1>6

LEMMA ApplyKeeps ==
  ASSUME LifeInv, NEW p \in Writer, Apply(p)
  PROVE  LifeInv'
<1> USE WhoWrites DEF LifeInv
<1>0. ApplyDoes(p) /\ Only(p) /\ deployed' = deployed
  BY ApplyFields DEF ApplyDoes, Only
<1>1. work[p].task \in TasksOf(p) /\ OnCourse(work[p]) /\ work[p].task # "none"
  BY <1>0 DEF Courses, OnCourse, ApplyDoes
<1>2. RowTypes'
  BY <1>0 DEF RowTypes, ApplyDoes
<1>3. Courses'
  <2>1. work'[p].task \in TasksOf(p) /\ OnCourse(work'[p])
    BY <1>0, <1>1 DEF OnCourse, TasksOf, ApplyDoes
  <2>2. QED
    BY <1>0, <1>1, <2>1, CoursesStep DEF Courses, TasksOf, OnCourse, ApplyDoes, RowTypes
<1>4. RowIsTrue'
  <2>1. p \in Reporter /\ work'[p].task # "none" => Happened(chain, work'[p].task)
    BY <1>0 DEF RowIsTrue, ApplyDoes
  <2>2. QED
    BY <1>0, <1>1, <2>1, TruthStep DEF RowIsTrue, TasksOf, RowTypes, Row, Marker, ApplyDoes
<1>5. InTurn'
  BY <1>0, <1>1, Alone, InTurnStep DEF InTurn, OnCourse, TasksOf, Courses, RowTypes, Marker, ApplyDoes
<1>6. RowShows'
  <2>1. \A e : Reached(marker, entry, e) => Reached(marker', entry', e)
    BY <1>0 DEF Reached, RowTypes, Marker, ApplyDoes
  <2>2. work'["dst"].next = "recheck" => work'["dst"] = work["dst"]
    BY <1>0 DEF Only, ApplyDoes
  <2>3. QED
    BY <1>0, <2>1, <2>2, ShowsStep DEF RowShows, ApplyDoes
<1>7. QED
  BY <1>2, <1>3, <1>4, <1>5, <1>6

LEMMA ClearKeeps ==
  ASSUME LifeInv, NEW p \in Writer, Clear(p)
  PROVE  LifeInv'
<1> USE WhoWrites DEF LifeInv
<1>0. ClearDoes(p) /\ Only(p) /\ deployed' = deployed
  BY ClearFields DEF ClearDoes, Only
<1>1. work[p].task \in TasksOf(p) /\ OnCourse(work[p]) /\ work[p].task # "none"
  BY <1>0 DEF Courses, OnCourse, ClearDoes
<1>2. RowTypes'
  <2>1. handled' \subseteq LifecycleEvent
    BY <1>0, <1>1 DEF RowTypes, LifecycleEvent, TasksOf, ClearDoes
  <2>2. QED
    BY <1>0, <2>1 DEF RowTypes, ClearDoes
<1>3. Courses'
  <2>1. work'[p].task \in TasksOf(p) /\ OnCourse(work'[p])
    BY <1>0, <1>1 DEF OnCourse, TasksOf, ClearDoes
  <2>2. QED
    BY <1>0, <1>1, <2>1, CoursesStep DEF Courses, TasksOf, OnCourse, ClearDoes, RowTypes
<1>4. RowIsTrue'
  <2>1. p \in Reporter /\ work'[p].task # "none" => Happened(chain, work'[p].task)
    BY <1>0 DEF RowIsTrue, ClearDoes
  <2>2. QED
    BY <1>0, <1>1, <2>1, TruthStep DEF RowIsTrue, TasksOf, RowTypes, Row, Marker, ClearDoes
<1>5. InTurn'
  BY <1>0, <1>1, Alone, InTurnStep DEF InTurn, OnCourse, TasksOf, Courses, RowTypes, Marker, ClearDoes
<1>6. RowShows'
  <2> SUFFICES ASSUME TakingTurns, collected = 0 PROVE RowShows'
    BY <1>0, ShowsStep DEF ClearDoes
  <2>1. /\ marker.status # "" => entry.status = "claimed"
        /\ marker.refund_status # "" => entry.refund_status = "cancelled"
    BY <1>0 DEF TakingTurns, InTurn, Courses, Parks, ClearDoes
  <2>2. \A e : Reached(marker, entry, e) => Reached(marker', entry', e)
    BY <1>0, <2>1 DEF Reached, ClearDoes
  <2>3. p # "dst"
    BY <1>0 DEF TakingTurns, InTurn, Courses, Parks, ClearDoes
  <2>4. p = "src" => work[p].task = "sent" /\ entry.sent_observed
    BY <1>0, <1>1 DEF TasksOf, OnCourse, Courses, ClearDoes
  <2>5. \A e \in handled' : e \notin handled => Reached(marker', entry', e)
    BY <1>0, <2>3, <2>4 DEF Reached, ClearDoes
  <2>6. QED
    BY <1>0, <2>2, <2>3, <2>5, ShowsStep DEF RowShows, Only, ClearDoes
<1>7. QED
  BY <1>2, <1>3, <1>4, <1>5, <1>6

LEMMA UpdateKeeps ==
  ASSUME LifeInv, NEW p \in Writer, Update(p)
  PROVE  LifeInv'
<1> USE WhoWrites DEF LifeInv
<1> DEFINE e == work[p].task
<1>0. UpdateDoes(p) /\ Only(p) /\ deployed' = deployed
  BY UpdateFields DEF UpdateDoes, Only
<1>1. /\ e \in {"claimed", "cancelled", "refunded"} /\ (e = "refunded" <=> p = "src")
      /\ (p = "src" \/ p = "dst")
  BY <1>0, TaskIsEvent DEF UpdateDoes
<1>2. MarkedBy(e)
  BY <1>0, <1>1, MarkFields DEF UpdateDoes
<1>3. /\ e \in handled' => matches(e, entry) \/ e \in handled
      /\ handled' \subseteq handled \cup {e}
      /\ (work'[p].task = "none" /\ work'[p].next = "none")
         \/ (work'[p].task = e /\ work'[p].next = "exists" /\ ~ matches(e, entry))
  BY <1>0 DEF Courses, UpdateDoes
<1>4. RowTypes'
  <2>1. handled' \subseteq LifecycleEvent
    BY <1>1, <1>3 DEF RowTypes, LifecycleEvent
  <2>2. QED
    BY <1>0, <1>2, <2>1 DEF RowTypes, MarkedBy, UpdateDoes
<1>5. Courses'
  <2>1. work'[p].task \in TasksOf(p) /\ OnCourse(work'[p])
    BY <1>1, <1>3 DEF OnCourse, TasksOf
  <2>2. "sent" \in handled' => entry'.present
    BY <1>1, <1>2, <1>3 DEF Courses, MarkedBy
  <2>3. p = "src" /\ Indexed /\ work'[p].task = "refunded" => FALSE
    BY <1>0, <1>3 DEF Courses, matches, UpdateDoes
  <2>4. ~ Parks => (entry'.status = "claimed" => entry'.refund_status # "eligible")
    BY <1>1, <1>2 DEF Courses, MarkedBy
  <2>5. QED
    BY <1>0, <1>2, <1>3, <2>1, <2>2, <2>3, <2>4, CoursesStep DEF Courses, MarkedBy, UpdateDoes
<1>6. RowIsTrue'
  <2>1. Happened(chain, e)
    BY <1>1 DEF RowIsTrue
  <2>2. p \in Reporter /\ work'[p].task # "none" => Happened(chain, work'[p].task)
    BY <1>3, <2>1
  <2>3. QED
    BY <1>0, <1>1, <1>2, <2>1, <2>2, TruthStep DEF RowIsTrue, MarkedBy, UpdateDoes
<1>7. InTurn'
  <2>1. deployed.serial => \A q \in Writer : q # p => work[q].task = "none" /\ work[q].next = "none"
    BY <1>1, Alone
  <2>2. "sent" \in handled' => "sent" \in handled
    BY <1>1, <1>3
  <2>3. entry'.refund_status = "refunded" => entry.refund_status = "refunded" \/ work["src"].task = "refunded"
    BY <1>1, <1>2 DEF MarkedBy
  <2>4. p = "src" /\ work'[p].task = "refunded" => work["src"].task = "refunded"
    BY <1>3
  <2>5. QED
    BY <1>0, <1>2, <1>3, <2>1, <2>2, <2>3, <2>4, InTurnStep DEF InTurn, MarkedBy, UpdateDoes
<1>8. RowShows'
  <2> SUFFICES ASSUME TakingTurns, collected = 0 PROVE RowShows'
    BY <1>0, ShowsStep DEF UpdateDoes
  <2>1. e = "refunded" => marker.refund_status = ""
    BY <1>1 DEF TakingTurns, InTurn, Courses, Parks, Indexed
  <2>2. \A f : Reached(marker, entry, f) => Reached(marker', entry', f)
    BY <1>0, <1>1, <1>2, <2>1 DEF Reached, MarkedBy, matches, UpdateDoes
  <2>3. e \in handled' /\ e \notin handled => Reached(marker', entry', e)
    BY <1>0, <1>1, <1>2, <1>3, <2>1 DEF Reached, MarkedBy, matches, UpdateDoes
  <2>4. work'["dst"].next = "recheck" => work'["dst"] = work["dst"]
    BY <1>0, <1>3 DEF Only
  <2>5. QED
    BY <1>0, <1>3, <2>2, <2>3, <2>4, ShowsStep DEF RowShows, UpdateDoes
<1>9. QED
  BY <1>4, <1>5, <1>6, <1>7, <1>8

LEMMA RetryKeeps ==
  ASSUME LifeInv, NEW p \in Writer, Retry(p)
  PROVE  LifeInv'
<1> USE WhoWrites DEF LifeInv
<1> DEFINE e == work[p].task
<1>0. RetryDoes(p) /\ Only(p) /\ deployed' = deployed
  BY RetryFields DEF RetryDoes, Only
<1>1. /\ e \in {"claimed", "cancelled", "refunded"} /\ (e = "refunded" <=> p = "src")
      /\ (p = "src" \/ p = "dst")
  BY <1>0, TaskIsEvent DEF RetryDoes
<1>2. MarkedBy(e)
  BY <1>0, <1>1, MarkFields DEF RetryDoes
<1>3. handled' = handled \cup {e} /\ work'[p].task = "none" /\ work'[p].next = "none" /\ entry.present
  BY <1>0 DEF Courses, RetryDoes
<1>4. RowTypes'
  <2>1. handled' \subseteq LifecycleEvent
    BY <1>1, <1>3 DEF RowTypes, LifecycleEvent
  <2>2. QED
    BY <1>0, <1>2, <2>1 DEF RowTypes, MarkedBy, RetryDoes
<1>5. Courses'
  <2>1. work'[p].task \in TasksOf(p) /\ OnCourse(work'[p])
    BY <1>1, <1>3 DEF OnCourse, TasksOf
  <2>2. "sent" \in handled' => entry'.present
    BY <1>1, <1>2, <1>3 DEF Courses, MarkedBy
  <2>3. p = "src" /\ Indexed /\ work'[p].task = "refunded" => FALSE
    BY <1>3
  <2>4. ~ Parks => (entry'.status = "claimed" => entry'.refund_status # "eligible")
    BY <1>1, <1>2 DEF Courses, MarkedBy
  <2>5. QED
    BY <1>0, <1>2, <1>3, <2>1, <2>2, <2>3, <2>4, CoursesStep DEF Courses, MarkedBy, RetryDoes
<1>6. RowIsTrue'
  <2>1. Happened(chain, e)
    BY <1>1 DEF RowIsTrue
  <2>2. p \in Reporter /\ work'[p].task # "none" => Happened(chain, work'[p].task)
    BY <1>3, <2>1
  <2>3. QED
    BY <1>0, <1>1, <1>2, <2>1, <2>2, TruthStep DEF RowIsTrue, MarkedBy, RetryDoes
<1>7. InTurn'
  <2>1. deployed.serial => \A q \in Writer : q # p => work[q].task = "none" /\ work[q].next = "none"
    BY <1>1, Alone
  <2>2. "sent" \in handled' => "sent" \in handled
    BY <1>1, <1>3
  <2>3. entry'.refund_status = "refunded" => entry.refund_status = "refunded" \/ work["src"].task = "refunded"
    BY <1>1, <1>2 DEF MarkedBy
  <2>4. p = "src" /\ work'[p].task = "refunded" => work["src"].task = "refunded"
    BY <1>3
  <2>5. QED
    BY <1>0, <1>2, <1>3, <2>1, <2>2, <2>3, <2>4, InTurnStep DEF InTurn, MarkedBy, RetryDoes
<1>8. RowShows'
  <2> SUFFICES ASSUME TakingTurns, collected = 0 PROVE RowShows'
    BY <1>0, ShowsStep DEF RetryDoes
  <2>1. e = "refunded" => marker.refund_status = ""
    BY <1>1 DEF TakingTurns, InTurn, Courses, Parks, Indexed
  <2>2. \A f : Reached(marker, entry, f) => Reached(marker', entry', f)
    BY <1>0, <1>1, <1>2, <2>1 DEF Reached, MarkedBy, matches, RetryDoes
  <2>3. e \in handled' /\ e \notin handled => Reached(marker', entry', e)
    BY <1>0, <1>1, <1>2, <1>3, <2>1 DEF Reached, MarkedBy, matches, RetryDoes
  <2>4. work'["dst"].next = "recheck" => work'["dst"] = work["dst"]
    BY <1>0, <1>3 DEF Only
  <2>5. QED
    BY <1>0, <1>3, <2>2, <2>3, <2>4, ShowsStep DEF RowShows, RetryDoes
<1>9. QED
  BY <1>4, <1>5, <1>6, <1>7, <1>8

\* A writer takes up a task: e at its first statement.
LEMMA StartKeeps ==
  ASSUME LifeInv, NEW p \in Writer, MayStart(p), NEW e \in Duty, NEW n \in Statement,
         work' = [work EXCEPT ![p] = [task |-> e, next |-> n]],
         UNCHANGED <<deployed, chain, entry, marker, handled, failed, collected>>,
         e \in TasksOf(p), n = (IF e \in {"sent", "post"} THEN "insert" ELSE "update"),
         p \in Reporter => Happened(chain, e),
         Indexed /\ e = "refunded" => "sent" \in handled
  PROVE  LifeInv'
<1> USE WhoWrites DEF LifeInv
<1>1. Only(p) /\ work'[p].task = e /\ work'[p].next = n
  BY Started DEF Only
<1>2. RowTypes'
  BY <1>1 DEF RowTypes, Only
<1>3. Courses'
  <2>1. OnCourse(work'[p])
    BY <1>1 DEF OnCourse, TasksOf, Duty, LifecycleEvent
  <2>2. QED
    <3>1. work'[p].next \in {"insert", "update"} /\ (e = "refunded" => work'[p].next = "update")
      BY <1>1
    <3>2. Indexed /\ e = "refunded" => entry.present
      BY DEF Courses
    <3>3. QED
      BY <1>1, <2>1, <3>1, <3>2, CoursesStep DEF Courses
<1>4. RowIsTrue'
  BY <1>1, TruthStep DEF RowIsTrue
<1>5. InTurn'
  <2>1. deployed.serial => \A q \in Writer : work[q].task = "none" /\ work[q].next = "none"
    BY DEF MayStart, AtRest
  <2>2. p = "src" /\ Indexed /\ work'[p].task = "refunded" => "sent" \in handled
    BY <1>1
  <2>3. work'[p].next \in {"insert", "update"}
    BY <1>1
  <2>4. QED
    BY <1>1, <2>1, <2>2, <2>3, InTurnStep DEF InTurn
<1>6. RowShows'
  <2>1. work'["dst"].next = "recheck" => work'["dst"] = work["dst"]
    BY <1>1 DEF Only
  <2>2. QED
    BY <2>1, ShowsStep DEF RowShows
<1>7. QED
  BY <1>2, <1>3, <1>4, <1>5, <1>6

LEMMA ReportKeeps ==
  ASSUME LifeInv, NEW p \in Reporter, Report(p)
  PROVE  LifeInv'
<1>1. PICK e \in Readable(p) \ handled :
        work' = [work EXCEPT ![p] = [task |-> e, next |-> IF e = "sent" THEN "insert" ELSE "update"]]
  BY DEF Report
<1> DEFINE n == IF e = "sent" THEN "insert" ELSE "update"
<1>2. /\ MayStart(p) /\ p \in Writer /\ (p = "src" \/ p = "dst")
      /\ UNCHANGED <<deployed, chain, entry, marker, handled, failed, collected>>
  BY DEF Report, Writer, Reporter
<1>3. /\ e \in Duty /\ e \in TasksOf(p) /\ e # "post" /\ Happened(chain, e)
      /\ Indexed /\ e = "refunded" => "sent" \in handled
  BY <1>1, <1>2 DEF Readable, Duty, LifecycleEvent, TasksOf, Happened, Indexed
<1>4. n \in Statement /\ n = (IF e \in {"sent", "post"} THEN "insert" ELSE "update")
  BY <1>3 DEF Statement
<1>5. QED
  BY <1>1, <1>2, <1>3, <1>4, StartKeeps

LEMMA PostKeeps ==
  ASSUME LifeInv, NEW p \in Poster, Post(p)
  PROVE  LifeInv'
<1>1. /\ MayStart(p) /\ p \in Writer /\ p \notin Reporter /\ p # "src" /\ p # "dst"
      /\ work' = [work EXCEPT ![p] = [task |-> "post", next |-> "insert"]]
      /\ UNCHANGED <<deployed, chain, entry, marker, handled, failed, collected>>
  BY LifecycleAssumption DEF Post, Writer, Reporter
<1>2. "post" \in Duty /\ "post" \in TasksOf(p) /\ "insert" \in Statement
  BY <1>1 DEF Duty, TasksOf, Statement
<1>3. QED
  BY <1>1, <1>2, StartKeeps

LEMMA FailKeeps ==
  ASSUME LifeInv, NEW p \in Writer, Fail(p)
  PROVE  LifeInv'
<1> USE WhoWrites DEF LifeInv
<1>1. /\ Only(p) /\ work'[p].task = "none" /\ work'[p].next = "none" /\ failed' = failed + 1
      /\ UNCHANGED <<deployed, chain, entry, marker, handled, collected>>
  BY Rested DEF Fail, Only
<1>2. work[p].task # "none"
  <2>1. work[p] \in Works /\ work[p] # AtRest /\ OnCourse(work[p])
    BY DEF RowTypes, Fail, Courses
  <2>2. QED
    BY <2>1 DEF Works, OnCourse, AtRest
<1>3. RowTypes'
  BY <1>1 DEF RowTypes, Only
<1>4. Courses'
  <2>1. work'[p].task \in TasksOf(p) /\ OnCourse(work'[p])
    BY <1>1 DEF OnCourse, TasksOf
  <2>2. QED
    BY <1>1, <2>1, CoursesStep DEF Courses
<1>5. RowIsTrue'
  BY <1>1, TruthStep DEF RowIsTrue
<1>6. InTurn'
  BY <1>1, <1>2, Alone, InTurnStep DEF InTurn
<1>7. RowShows'
  <2>1. work'["dst"].next = "recheck" => work'["dst"] = work["dst"]
    BY <1>1 DEF Only
  <2>2. QED
    BY <1>1, <2>1, ShowsStep DEF RowShows
<1>8. QED
  BY <1>3, <1>4, <1>5, <1>6, <1>7

\* A step between the writers' statements: what they wrote stays.
LEMMA QuietKeeps ==
  ASSUME LifeInv, deployed' = deployed, work' = work, handled' \subseteq handled,
         entry' \in Row, entry'.present = entry.present, entry'.status = entry.status,
         entry'.sent_observed = entry.sent_observed,
         entry'.refund_status = entry.refund_status \/
           (entry.refund_status = "none" /\ entry'.refund_status = "eligible" /\ entry.status # "claimed"),
         marker' = marker \/ (~ entry.present /\ collected' # 0
                              /\ marker' \in Marker /\ marker'.status = "" /\ marker'.refund_status = ""),
         chain' \in ChainState, \A e : Happened(chain, e) => Happened(chain', e),
         failed' \in Nat, collected' \in Nat, collected' = 0 => collected = 0
  PROVE  LifeInv'
<1> USE WhoWrites DEF LifeInv
<1>1. RowTypes'
  BY DEF RowTypes, LifecycleEvent
<1>2. Courses'
  BY DEF Courses, Indexed, Parks
<1>3. RowIsTrue'
  BY DEF RowIsTrue
<1>4. InTurn'
  BY DEF InTurn, Indexed, Courses
<1>5. RowShows'
  <2>1. collected' = 0 => \A e : Reached(marker, entry, e) => Reached(marker', entry', e)
    BY DEF Reached
  <2>2. QED
    BY <2>1, ShowsStep DEF RowShows
<1>6. QED
  BY <1>1, <1>2, <1>3, <1>4, <1>5

LEMMA WorldKeeps ==
  ASSUME LifeInv,
         ChainStep \/ Age \/ Sweep \/ Collect \/ KeeperNote \/ UNCHANGED lifecycleVars
           \/ \E p \in Reporter : Replay(p)
  PROVE  LifeInv'
<1>t. RowTypes
  BY DEF LifeInv
<1>1. CASE ChainStep
  <2>1. chain' \in ChainState /\ \A e : Happened(chain, e) => Happened(chain', e)
    BY <1>1 DEF ChainStep, ChainState, Happened
  <2>2. QED
    BY <1>1, <1>t, <2>1, QuietKeeps DEF ChainStep, RowTypes
<1>2. CASE Age
  <2>1. /\ entry' \in Row /\ entry'.present = entry.present /\ entry'.status = entry.status
        /\ entry'.sent_observed = entry.sent_observed /\ entry'.refund_status = entry.refund_status
    BY <1>2, <1>t DEF Age, RowTypes, Row
  <2>2. QED
    BY <1>2, <1>t, <2>1, QuietKeeps DEF Age, RowTypes
<1>3. CASE Sweep
  <2>1. /\ entry' \in Row /\ entry'.present = entry.present /\ entry'.status = entry.status
        /\ entry'.sent_observed = entry.sent_observed /\ entry.status # "claimed"
        /\ entry.refund_status = "none" /\ entry'.refund_status = "eligible"
    BY <1>3, <1>t DEF Sweep, RowTypes, Row
  <2>2. QED
    BY <1>3, <1>t, <2>1, QuietKeeps DEF Sweep, RowTypes
<1>4. CASE Collect
  <2>1. marker' \in Marker /\ marker'.status = "" /\ marker'.refund_status = ""
    BY <1>4 DEF Collect, NoMarker, Marker
  <2>2. collected' \in Nat /\ collected' # 0
    BY <1>4, <1>t DEF Collect, RowTypes
  <2>3. QED
    BY <1>4, <1>t, <2>1, <2>2, QuietKeeps DEF Collect, RowTypes
<1>5. CASE KeeperNote
  <2>1. /\ entry' \in Row /\ entry'.present = entry.present /\ entry'.status = entry.status
        /\ entry'.sent_observed = entry.sent_observed /\ entry'.refund_status = entry.refund_status
    BY <1>5, <1>t DEF KeeperNote, noteKeeperClaim, RowTypes, Row
  <2>2. QED
    BY <1>5, <1>t, <2>1, QuietKeeps DEF KeeperNote, RowTypes
<1>6. CASE UNCHANGED lifecycleVars
  BY <1>6, <1>t, QuietKeeps DEF lifecycleVars, RowTypes
<1>7. CASE \E p \in Reporter : Replay(p)
  <2>1. handled' \subseteq handled /\ failed' \in Nat
    BY <1>7, <1>t DEF Replay, RowTypes
  <2>2. QED
    BY <1>7, <1>t, <2>1, QuietKeeps DEF Replay, RowTypes
<1>8. QED
  BY <1>1, <1>2, <1>3, <1>4, <1>5, <1>6, <1>7

LEMMA LifeStarts == LifecycleInit => LifeInv
<1> SUFFICES ASSUME LifecycleInit PROVE LifeInv
  OBVIOUS
<1>1. /\ deployed \in Site /\ chain = "none" /\ handled = {} /\ failed = 0 /\ collected = 0
      /\ entry \in Row /\ entry.status = "signed" /\ entry.refund_status = "none"
      /\ ~ entry.sent_observed
      /\ marker \in Marker /\ marker.status = "" /\ marker.refund_status = ""
  BY DEF LifecycleInit, NoEntry, Row, NoMarker, Marker
<1>2. AtRest \in Works /\ AtRest.task = "none" /\ AtRest.next = "none"
  BY DEF AtRest, Works
<1>3. work \in [Writer -> Works] /\ \A p \in Writer : work[p].task = "none" /\ work[p].next = "none"
  BY <1>2 DEF LifecycleInit
<1> USE WhoWrites
<1>4. RowTypes
  BY <1>1, <1>3 DEF RowTypes, ChainState
<1>5. Courses
  <2>1. \A p \in Writer : work[p].task \in TasksOf(p) /\ OnCourse(work[p])
    BY <1>3 DEF TasksOf, OnCourse
  <2>2. QED
    BY <1>1, <1>3, <2>1 DEF Courses
<1>6. RowIsTrue
  <2>1. \A p \in Reporter : work[p].task = "none"
    BY <1>3 DEF Writer
  <2>2. QED
    BY <1>1, <2>1 DEF RowIsTrue
<1>7. InTurn
  BY <1>1, <1>3 DEF InTurn
<1>8. RowShows
  BY <1>1, <1>3 DEF RowShows
<1>9. QED
  BY <1>4, <1>5, <1>6, <1>7, <1>8 DEF LifeInv

\* The row's invariant holds in every reachable state: of any number of posting validators, any
\* deployment, any number of failed writes, replays and collected markers.
THEOREM LifeInvariant == LifecycleSpec => []LifeInv
<1>1. LifeInv /\ [LifecycleNext]_lifecycleVars => LifeInv'
  <2> SUFFICES ASSUME LifeInv, [LifecycleNext]_lifecycleVars PROVE LifeInv'
    OBVIOUS
  <2>1. ASSUME NEW p \in Writer, Work(p) PROVE LifeInv'
    BY <2>1, InsertKeeps, VouchKeeps, UpdateKeeps, ExistsKeeps, RetryKeeps, ParkKeeps,
       RecheckKeeps, ApplyKeeps, ClearKeeps DEF Work
  <2>2. QED
    BY <2>1, ReportKeeps, PostKeeps, FailKeeps, WorldKeeps DEF LifecycleNext
<1>2. QED
  BY <1>1, LifeStarts, PTL DEF LifecycleSpec

LEMMA LifeInvGivesQueues ==
  ASSUME LifeInv
  PROVE  QueuesAreTrue
<1> USE DEF LifeInv
<1>1. HiddenOnlyIfSettled
  BY DEF HiddenOnlyIfSettled, InPendingClaims, RowIsTrue, Happened
<1>2. QueueOnlyRealTransfers
  BY DEF QueueOnlyRealTransfers, InRefundQueue, VOUCHED, RowIsTrue, Happened
<1>3. ClaimedIsNotEligible
  BY DEF ClaimedIsNotEligible, Courses, Parks
<1>4. EventsReachTheRow
  <2> SUFFICES ASSUME TakingTurns, collected = 0, NEW e \in handled
               PROVE  Shows(applyMarker([entry EXCEPT !.present = TRUE], marker), e)
    BY DEF EventsReachTheRow, OneSideObserves
  <2> DEFINE r == applyMarker([entry EXCEPT !.present = TRUE], marker)
  <2>1. /\ r.sent_observed = entry.sent_observed
        /\ r.status = (IF marker.status # "" THEN marker.status ELSE entry.status)
        /\ r.refund_status = (IF marker.refund_status # "" THEN marker.refund_status ELSE entry.refund_status)
    BY DEF RowTypes, Row, Marker, applyMarker, COALESCE
  <2>2. Reached(marker, entry, e) /\ e \in {"sent", "claimed", "cancelled", "refunded"}
    BY DEF RowShows, RowTypes, LifecycleEvent
  <2> HIDE DEF r
  <2>3. Shows(r, e)
    BY <2>1, <2>2 DEF Shows, Reached, RowTypes, Marker
  <2>4. QED
    BY <2>3 DEF r
<1>5. QED
  BY <1>1, <1>2, <1>3, <1>4 DEF QueuesAreTrue

\* QueuesAreTrue, for any number of validators, failures and replays.  In every deployment what
\* the queues and the history show of a transfer has happened.  That no report is lost is part
\* of it only where TakingTurns holds: overlapping writers of park_if_missing and
\* apply_pending_lifecycle can lose one.
THEOREM QueuesAreTrueTheorem == LifecycleSpec => []QueuesAreTrue
<1>1. LifeInv => QueuesAreTrue
  BY LifeInvGivesQueues
<1>2. QED
  BY <1>1, LifeInvariant, PTL

LEMMA NoRegressStep ==
  ASSUME LifeInv, [LifecycleNext]_lifecycleVars, TakingTurns, entry.refund_status = "refunded"
  PROVE  entry'.refund_status = "refunded"
<1> USE DEF LifeInv
<1>1. marker.refund_status = ""
  BY DEF Courses, InTurn, TakingTurns, Parks, Indexed
<1>2. ASSUME NEW p \in Writer, Update(p) \/ Retry(p) PROVE entry'.refund_status = "refunded"
  <2>1. work[p].task \in {"claimed", "cancelled", "refunded"} /\ lifecycle_update(work[p].task)
    BY <1>2, TaskIsEvent DEF Update, Retry, At
  <2>2. QED
    BY <2>1, MarkFields DEF MarkedBy, matches
<1>3. ASSUME NEW p \in Writer, Work(p) PROVE entry'.refund_status = "refunded"
  BY <1>1, <1>2, <1>3, InsertFields, VouchFields, ApplyFields
     DEF Work, InsertDoes, VouchDoes, ApplyDoes, Exists, Park, Recheck, Clear
<1>4. Age \/ Sweep \/ KeeperNote => entry'.refund_status = "refunded"
  BY DEF Age, Sweep, KeeperNote, noteKeeperClaim, RowTypes, Row
<1>5. QED
  BY <1>3, <1>4 DEF LifecycleNext, Work, ChainStep, Report, Replay, Post, Fail, Collect, lifecycleVars

\* RefundedIsTerminal, for every deployment in which writers take turns or nothing is parked.
THEOREM RefundedIsTerminalTheorem == LifecycleSpec => RefundedIsTerminal
<1>1. LifeInv /\ [LifecycleNext]_lifecycleVars => [TakingTurns => NoRegress]_lifecycleVars
  BY NoRegressStep DEF NoRegress
<1>2. QED
  BY <1>1, LifeInvariant, PTL DEF LifecycleSpec, RefundedIsTerminal
=============================================================================
