---------------------------- MODULE ReadApiProofs ----------------------------
(***************************************************************************)
(* Proofs about module ReadApi, for any number of requests, any cap and    *)
(* any size of the caches: two requests never ask the same question        *)
(* upstream at the same time, and what the API keeps or serves about       *)
(* settled things is what the chains say.                                  *)
(***************************************************************************)
EXTENDS ReadApi, FiniteSetTheorems, WellFoundedInduction, TLAPS

-----------------------------------------------------------------------------
(* The lock of a key *)

\* Where a request holds a handle of its key's lock, and where it has the turn.
Waiting == {"queued", "slot", "calling", "scanning", "leaving"}
Turn == {"slot", "calling", "scanning"}
Places == Waiting \cup {"idle", "ask", "done", "metered", "uncached", "executed", "cancelled", "note_executed",
                        "note_cancelled", "note_marker", "note_both"}

\* Questions that go through Upstream.
Asked == {"sigstatus", "quote", "listed", "gate", "pool"}

ReqsOK ==
    /\ load \subseteq Questions
    /\ pc \in [Callers -> Places]
    /\ q \in [Callers -> Questions \cup {"gate", "none"}]
    /\ lock \in [Callers -> Nat]
    /\ inflight \in [Keys -> Nat]
    /\ \A c \in Callers : pc[c] \in Waiting \cup {"ask"} => q[c] \in Asked
    /\ \A c \in Callers : pc[c] \in {"executed", "cancelled"} => q[c] \notin Asked

\* A request holds a handle of the entry that is in the map, and only while it waits.
HandlesAreCurrent ==
    \A c \in Callers :
        IF pc[c] \in Waiting THEN lock[c] # 0 /\ inflight[Key(q[c])] = lock[c]
                             ELSE lock[c] = 0

\* Two keys never share a lock.
LocksAreApart ==
    \A j, k \in Keys : inflight[j] # 0 /\ inflight[j] = inflight[k] => j = k

\* A lock has one owner.
TurnsAreApart ==
    \A c, d \in Callers : pc[c] \in Turn /\ pc[d] \in Turn /\ lock[c] = lock[d] => c = d

LockInv == ReqsOK /\ HandlesAreCurrent /\ LocksAreApart /\ TurnsAreApart

\* An Upstream question has a key.
LEMMA KeyType == \A x \in Asked : Key(x) \in Keys
BY DEF Key, Keys, Asked

\* A non-empty set of naturals has a minimum, and Min finds it.
LEMMA MinIsIn ==
  ASSUME NEW S \in SUBSET Nat, S # {}
  PROVE  Min(S) \in S /\ \A y \in S : Min(S) <= y
<1>1. PICK x \in S : \A y \in S : ~(<<y, x>> \in OpToRel(<, Nat))
  BY NatLessThanWellFounded, WFMin
<1>2. \A y \in S : ~(y < x)
  BY <1>1 DEF OpToRel
<1>3. \A y \in S : x <= y
  BY <1>2
<1>4. QED
  BY <1>3 DEF Min

\* strong_count: an entry that somebody holds counts at least two handles, and the entry of
\* the last holder counts exactly two.
LEMMA Handles ==
  ASSUME NEW l
  PROVE  /\ Held(l) # {} <=> strong_count(l) > 1
         /\ \A c \in Held(l) : strong_count(l) <= 2 => Held(l) = {c}
<1>1. IsFiniteSet(Held(l))
  BY ReadApiAssumption, FS_Subset DEF Held
<1>2. Cardinality(Held(l)) \in Nat
  BY <1>1, FS_CardinalityType
<1>3. Cardinality(Held(l)) = 0 <=> Held(l) = {}
  BY <1>1, FS_EmptySet
<1>4. Cardinality(Held(l)) = 1 <=> \E x : Held(l) = {x}
  BY <1>1, FS_Singleton
<1>5. \A c \in Held(l) : strong_count(l) <= 2 => Cardinality(Held(l)) = 1
  BY <1>2, <1>3 DEF strong_count
<1>6. QED
  BY <1>2, <1>3, <1>4, <1>5 DEF strong_count

\* There are enough locks for every key.
LEMMA FourLocks == 1..4 \subseteq Locks /\ Locks \subseteq Nat \ {0}
<1>1. Cardinality(Callers) \in Nat
  BY ReadApiAssumption, FS_CardinalityType
<1>2. IsFiniteSet({"sigstatus"}) /\ Cardinality({"sigstatus"}) = 1
  BY FS_Singleton
<1>3. /\ IsFiniteSet({"sigstatus"} \cup {"quote"})
      /\ Cardinality({"sigstatus"} \cup {"quote"}) = 2
  BY <1>2, FS_AddElement
<1>4. /\ IsFiniteSet({"sigstatus"} \cup {"quote"} \cup {"scale"})
      /\ Cardinality({"sigstatus"} \cup {"quote"} \cup {"scale"}) = 3
  BY <1>3, FS_AddElement
<1>5. Cardinality({"sigstatus"} \cup {"quote"} \cup {"scale"} \cup {"pool"}) = 4
  BY <1>4, FS_AddElement
<1>6. Keys = {"sigstatus"} \cup {"quote"} \cup {"scale"} \cup {"pool"}
  BY DEF Keys
<1>7. QED
  BY <1>1, <1>5, <1>6 DEF Locks

\* cached(): taking the entry of a key gives its lock, keeps every entry that is held, and a new
\* lock is nobody else's.
LEMMA EntryIsSound ==
  ASSUME LockInv, NEW k \in Keys
  PROVE  /\ Entry(k) \in [Keys -> Nat]
         /\ Entry(k)[k] # 0
         /\ \A c \in Callers : lock[c] # 0 => Entry(k)[Key(q[c])] = lock[c]
         /\ \A i, j \in Keys : Entry(k)[i] # 0 /\ Entry(k)[i] = Entry(k)[j] => i = j
         /\ \A c \in Callers : lock[c] # 0 /\ Key(q[c]) # k => Entry(k)[k] # lock[c]
<1> USE DEF LockInv, ReqsOK
<1> DEFINE used == {x \in Keys : inflight[x] # 0}
           kept == IF Cardinality(used) >= CACHE_MAX_ENTRIES
                   THEN {x \in used : strong_count(inflight[x]) > 1} ELSE used
           base == [x \in Keys |-> IF x \in kept THEN inflight[x] ELSE 0]
           free == Locks \ ({base[x] : x \in Keys} \cup {lock[c] : c \in Callers})
<1>1. \A c \in Callers : lock[c] # 0 =>
        /\ pc[c] \in Waiting /\ Key(q[c]) \in Keys /\ inflight[Key(q[c])] = lock[c]
  BY KeyType DEF HandlesAreCurrent
<1>2. \A c \in Callers : lock[c] # 0 => Key(q[c]) \in kept
  <2>1. \A c \in Callers : lock[c] # 0 => strong_count(inflight[Key(q[c])]) > 1
    BY <1>1, Handles DEF Held
  <2>2. QED
    BY <1>1, <2>1
<1>3. base \in [Keys -> Nat]
  OBVIOUS
<1> HIDE DEF kept
<1>4. \A c \in Callers : lock[c] # 0 => base[Key(q[c])] = lock[c]
  BY <1>1, <1>2
<1>5. \A i, j \in Keys : base[i] # 0 /\ base[i] = base[j] => i = j
  BY DEF LocksAreApart
<1> HIDE DEF base
<1>6. ASSUME base[k] = 0
      PROVE  Min(free) \in free
  <2>1. free \in SUBSET Nat
    BY FourLocks
  <2>2. PICK l \in 1..4 : \A x \in Keys : base[x] # l
    BY <1>3, <1>6 DEF Keys
  <2>3. l \in free
    BY <1>1, <1>4, <2>2, FourLocks
  <2>4. QED
    BY <2>1, <2>3, MinIsIn
<1>7. Entry(k) = IF base[k] # 0 THEN base ELSE [base EXCEPT ![k] = Min(free)]
  BY DEF Entry, base, kept
<1>8. CASE base[k] # 0
  BY <1>1, <1>3, <1>4, <1>5, <1>7, <1>8
<1>9. CASE base[k] = 0
  <2> DEFINE m == Min(free)
  <2>1. m \in Nat /\ m # 0 /\ (\A x \in Keys : base[x] # m) /\ (\A c \in Callers : lock[c] # m)
    BY <1>6, <1>9, FourLocks
  <2> HIDE DEF m
  <2>2. Entry(k) = [base EXCEPT ![k] = m]
    BY <1>7, <1>9 DEF m
  <2>3. \A c \in Callers : lock[c] # 0 => Key(q[c]) # k
    BY <1>4, <1>9
  <2>4. QED
    BY <1>1, <1>3, <1>4, <1>5, <2>1, <2>2, <2>3
<1>10. QED
  BY <1>8, <1>9

-----------------------------------------------------------------------------
(* The three ways a request moves *)

\* Among the places where it holds a handle: the turn is taken only when nobody has it.
LEMMA MovesInside ==
  ASSUME LockInv, NEW c \in Callers, NEW p \in Waiting, pc[c] \in Waiting,
         p \in Turn => pc[c] \in Turn \/ InTurn(lock[c]) = {},
         pc' = [pc EXCEPT ![c] = p], UNCHANGED <<load, q, lock, inflight>>
  PROVE  LockInv'
<1> USE DEF LockInv
<1>1. ReqsOK'
  BY DEF ReqsOK, Waiting, Places
<1>2. HandlesAreCurrent'
  BY DEF ReqsOK, HandlesAreCurrent
<1>3. TurnsAreApart'
  BY DEF ReqsOK, TurnsAreApart, InTurn, Held, Turn
<1>4. QED
  BY <1>1, <1>2, <1>3 DEF LocksAreApart

\* Outside them.
LEMMA MovesOutside ==
  ASSUME LockInv, NEW c \in Callers, NEW p \in Places \ Waiting, pc[c] \notin Waiting,
         NEW x \in Questions \cup {"gate", "none"}, p = "ask" => x \in Asked,
         p \in {"executed", "cancelled"} => x \notin Asked,
         pc' = [pc EXCEPT ![c] = p], q' = [q EXCEPT ![c] = x],
         UNCHANGED <<load, lock, inflight>>
  PROVE  LockInv'
<1> USE DEF LockInv
<1>1. ReqsOK'
  BY DEF ReqsOK
<1>2. HandlesAreCurrent'
  BY DEF ReqsOK, HandlesAreCurrent
<1>3. TurnsAreApart'
  BY DEF ReqsOK, TurnsAreApart, Turn, Waiting
<1>4. QED
  BY <1>1, <1>2, <1>3 DEF LocksAreApart

\* Out of them: the handle is dropped, and the entry only with its last handle.
LEMMA MovesOut ==
  ASSUME LockInv, NEW c \in Callers, NEW p \in Places \ Waiting, pc[c] \in Waiting,
         NEW x \in Questions \cup {"gate", "none"}, p = "ask" => x \in Asked,
         p \in {"executed", "cancelled"} => x \notin Asked,
         pc' = [pc EXCEPT ![c] = p], q' = [q EXCEPT ![c] = x],
         lock' = [lock EXCEPT ![c] = 0], UNCHANGED load,
         \/ UNCHANGED inflight
         \/ dropEntry(c, Key(q[c])) /\ inflight' = [inflight EXCEPT ![Key(q[c])] = 0]
  PROVE  LockInv'
<1> USE DEF LockInv
<1>1. Key(q[c]) \in Keys
  BY KeyType DEF ReqsOK
<1>2. ReqsOK'
  BY <1>1 DEF ReqsOK
<1>3. LocksAreApart' /\ TurnsAreApart'
  BY <1>1 DEF ReqsOK, LocksAreApart, TurnsAreApart, Turn, Waiting
<1>4. ASSUME NEW d \in Callers, d # c, pc[d] \in Waiting
      PROVE  inflight'[Key(q[d])] = lock[d]
  <2>1. inflight[Key(q[d])] = lock[d] /\ lock[d] # 0 /\ Key(q[d]) \in Keys
    BY <1>4, KeyType DEF HandlesAreCurrent, ReqsOK
  <2>2. CASE UNCHANGED inflight
    BY <2>1, <2>2
  <2>3. CASE dropEntry(c, Key(q[c])) /\ inflight' = [inflight EXCEPT ![Key(q[c])] = 0]
    <3>1. lock[c] = inflight[Key(q[c])]
      BY DEF HandlesAreCurrent
    <3>2. Held(inflight[Key(q[c])]) = {c}
      BY <2>3, <3>1, Handles DEF dropEntry, Held
    <3>3. lock[d] # lock[c]
      BY <1>4, <3>1, <3>2 DEF Held
    <3>4. Key(q[d]) # Key(q[c])
      BY <2>1, <3>1, <3>3
    <3>5. QED
      BY <1>1, <2>1, <2>3, <3>4 DEF ReqsOK
  <2>4. QED
    BY <2>2, <2>3
<1>5. HandlesAreCurrent'
  BY <1>4 DEF ReqsOK, HandlesAreCurrent
<1>6. QED
  BY <1>2, <1>3, <1>5

-----------------------------------------------------------------------------
(* One call per key *)

\* What cached() returning leads to: the request is answered, or it asks the gate alone.
LEMMA ScaledGoes ==
  ASSUME NEW c, NEW gate, Scaled(c, gate)
  PROVE  \E p \in {"ask", "done"}, x \in {"gate", q[c]} :
           /\ p = "ask" => x = "gate"
           /\ pc' = [pc EXCEPT ![c] = p]
           /\ (q' = [q EXCEPT ![c] = x] \/ (x = q[c] /\ q' = q))
<1>1. CASE amount_scale(q[c], gate) = 0 /\ q[c] = "listed"
  BY <1>1 DEF Scaled, Goto
<1>2. CASE ~(amount_scale(q[c], gate) = 0 /\ q[c] = "listed")
  BY <1>2 DEF Scaled, Goto
<1>3. QED
  BY <1>1, <1>2

LEMMA ReturnedGoes ==
  ASSUME ReqsOK, NEW c \in Callers, NEW a, Returned(c, a)
  PROVE  \E p \in {"ask", "done", "idle"}, x \in Questions \cup {"gate", "none"} :
           /\ p = "ask" => x \in Asked
           /\ pc' = [pc EXCEPT ![c] = p] /\ q' = [q EXCEPT ![c] = x]
<1>1. ASSUME NEW gate, Scaled(c, gate)
      PROVE  \E p \in {"ask", "done"}, x \in Questions \cup {"gate", "none"} :
               /\ p = "ask" => x \in Asked
               /\ pc' = [pc EXCEPT ![c] = p] /\ q' = [q EXCEPT ![c] = x]
  <2>1. PICK p \in {"ask", "done"}, x \in {"gate", q[c]} :
               /\ p = "ask" => x = "gate"
               /\ pc' = [pc EXCEPT ![c] = p]
               /\ (q' = [q EXCEPT ![c] = x] \/ (x = q[c] /\ q' = q))
    BY <1>1, ScaledGoes
  <2>2. q' = [q EXCEPT ![c] = x] /\ x \in Questions \cup {"gate", "none"}
    BY <2>1 DEF ReqsOK
  <2>3. QED
    BY <2>1, <2>2 DEF Asked
<1>2. CASE Key(q[c]) = "scale"
  BY <1>1, <1>2 DEF Returned
<1>3. CASE Key(q[c]) # "scale"
  BY <1>3 DEF Returned, Goto
<1>4. QED
  BY <1>2, <1>3

LEMMA AskKeepsLocks ==
  ASSUME LockInv, NEW c \in Callers, Ask(c)
  PROVE  LockInv'
<1> DEFINE k == Key(q[c])
<1>1. pc[c] = "ask" /\ q[c] \in Asked /\ k \in Keys /\ UNCHANGED load
  BY KeyType DEF Ask, LockInv, ReqsOK
<1>2. CASE k = "scale" /\ scales # 0
  <2>1. Scaled(c, Some("r", scales)) /\ UNCHANGED <<lock, inflight>>
    BY <1>2 DEF Ask, up
  <2>2. PICK p \in {"ask", "done"}, x \in {"gate", q[c]} :
               /\ p = "ask" => x = "gate"
               /\ pc' = [pc EXCEPT ![c] = p]
               /\ (q' = [q EXCEPT ![c] = x] \/ (x = q[c] /\ q' = q))
    BY <2>1, ScaledGoes
  <2>3. q' = [q EXCEPT ![c] = x] /\ x \in Questions \cup {"gate", "none"}
    BY <2>2 DEF LockInv, ReqsOK
  <2>4. QED
    BY <1>1, <2>1, <2>2, <2>3, MovesOutside DEF Waiting, Places, Asked
<1>3. CASE ~(k = "scale" /\ scales # 0) /\ Hit(k)
  <2>1. Returned(c, lookup(k)) /\ UNCHANGED <<lock, inflight>>
    BY <1>3 DEF Ask, up
  <2>2. QED
    BY <1>1, <2>1, ReturnedGoes, MovesOutside DEF Waiting, Places, LockInv
<1>4. CASE ~(k = "scale" /\ scales # 0) /\ ~Hit(k)
  <2>1. /\ inflight' = Entry(k)
        /\ lock' = [lock EXCEPT ![c] = Entry(k)[k]]
        /\ pc' = [pc EXCEPT ![c] = "queued"] /\ q' = q
    BY <1>4 DEF Ask, Goto
  <2>2. /\ Entry(k) \in [Keys -> Nat]
        /\ Entry(k)[k] # 0
        /\ \A d \in Callers : lock[d] # 0 => Entry(k)[Key(q[d])] = lock[d]
        /\ \A i, j \in Keys : Entry(k)[i] # 0 /\ Entry(k)[i] = Entry(k)[j] => i = j
    BY <1>1, EntryIsSound
  <2> HIDE DEF k
  <2>3. ReqsOK'
    BY <1>1, <2>1, <2>2 DEF LockInv, ReqsOK, Waiting, Places
  <2>4. LocksAreApart'
    BY <2>1, <2>2 DEF LocksAreApart
  <2>5. HandlesAreCurrent'
    <3>1. ASSUME NEW d \in Callers, d # c
          PROVE  IF pc'[d] \in Waiting THEN lock'[d] # 0 /\ inflight'[Key(q'[d])] = lock'[d]
                                       ELSE lock'[d] = 0
      <4>1. pc'[d] = pc[d] /\ lock'[d] = lock[d] /\ q'[d] = q[d]
        BY <2>1, <3>1 DEF LockInv, ReqsOK
      <4>2. QED
        BY <2>1, <2>2, <4>1 DEF LockInv, HandlesAreCurrent
    <3>2. pc'[c] = "queued" /\ lock'[c] = Entry(k)[k] /\ Key(q'[c]) = k
      BY <2>1 DEF LockInv, ReqsOK, k
    <3>3. QED
      BY <2>1, <2>2, <3>1, <3>2 DEF HandlesAreCurrent, Waiting
  <2>6. TurnsAreApart'
    BY <2>1 DEF LockInv, ReqsOK, TurnsAreApart, Turn
  <2>7. QED
    BY <2>3, <2>4, <2>5, <2>6 DEF LockInv
<1>5. QED
  BY <1>2, <1>3, <1>4

\* The proxied call in its turn: only the places of the request change.
LEMMA CallKeepsLocks ==
  ASSUME LockInv, NEW c \in Callers,
         TakeTurn(c) \/ TakeSlot(c) \/ TimeOut(c) \/ Call(c) \/ CallFails(c) \/ CallPool(c) \/ Scan(c)
  PROVE  LockInv'
<1>1. \E p \in Waiting :
        /\ pc[c] \in Waiting
        /\ p \in Turn => pc[c] \in Turn \/ InTurn(lock[c]) = {}
        /\ pc' = [pc EXCEPT ![c] = p] /\ UNCHANGED <<load, q, lock, inflight>>
  <2>1. CASE TakeTurn(c)
    BY <2>1 DEF TakeTurn, Goto, Waiting, Turn, up
  <2>2. CASE TakeSlot(c)
    BY <2>2 DEF TakeSlot, Goto, Waiting, Turn, up
  <2>3. CASE TimeOut(c)
    BY <2>3 DEF TimeOut, Goto, Waiting, Turn, up
  <2>4. CASE Call(c)
    BY <2>4 DEF Call, Goto, Waiting, Turn
  <2>5. CASE CallFails(c)
    BY <2>5 DEF CallFails, Goto, Waiting, Turn
  <2>6. CASE CallPool(c)
    BY <2>6 DEF CallPool, pool_info, Goto, Waiting, Turn
  <2>7. CASE Scan(c)
    BY <2>7 DEF Scan, pool_info, Goto, Waiting, Turn
  <2>8. QED
    BY <2>1, <2>2, <2>3, <2>4, <2>5, <2>6, <2>7
<1>2. QED
  BY <1>1, MovesInside

LEMMA RequestKeepsLocks ==
  ASSUME LockInv, NEW c \in Callers, NEW x \in load, Request(c, x)
  PROVE  LockInv'
<1> DEFINE y == IF x = "listed" /\ listed = 0 THEN "gate" ELSE x
<1>1. /\ pc[c] = "idle" /\ q' = [q EXCEPT ![c] = y] /\ UNCHANGED <<load, lock, inflight>>
  BY DEF Request, up
<1>2. \E p \in {"ask", "metered", "executed", "cancelled"} :
        /\ pc' = [pc EXCEPT ![c] = p]
        /\ p = "ask" => y \in Asked
        /\ p \in {"executed", "cancelled"} => y \notin Asked
  BY DEF Request, Goto, LockInv, ReqsOK, Questions, Asked
<1>3. y \in Questions \cup {"gate", "none"}
  BY DEF LockInv, ReqsOK
<1> HIDE DEF y
<1>4. QED
  BY <1>1, <1>2, <1>3, MovesOutside DEF Waiting, Places

LEMMA LeaveKeepsLocks ==
  ASSUME LockInv, NEW c \in Callers, Leave(c) \/ Drop(c)
  PROVE  LockInv'
<1>1. CASE Leave(c)
  <2>1. /\ pc[c] = "leaving" /\ lock' = [lock EXCEPT ![c] = 0] /\ UNCHANGED load
        /\ \/ UNCHANGED inflight
           \/ dropEntry(c, Key(q[c])) /\ inflight' = [inflight EXCEPT ![Key(q[c])] = 0]
    BY <1>1 DEF Leave
  <2>2. Returned(c, val[c])
    BY <1>1 DEF Leave
  <2>3. PICK p \in {"ask", "done", "idle"}, x \in Questions \cup {"gate", "none"} :
           /\ p = "ask" => x \in Asked
           /\ pc' = [pc EXCEPT ![c] = p] /\ q' = [q EXCEPT ![c] = x]
    BY <2>2, ReturnedGoes DEF LockInv
  <2>4. QED
    BY <2>1, <2>3, MovesOut DEF Waiting, Places
<1>2. CASE Drop(c) /\ pc[c] \in Waiting
  BY <1>2, MovesOut DEF Drop, Goto, Waiting, Places, up
<1>3. CASE Drop(c) /\ pc[c] \notin Waiting
  <2>1. lock' = lock
    BY <1>3 DEF Drop, LockInv, ReqsOK, HandlesAreCurrent
  <2>2. QED
    BY <1>3, <2>1, MovesOutside DEF Drop, Goto, Waiting, Places, up
<1>4. QED
  BY <1>1, <1>2, <1>3

\* The submission's flags are read outside Upstream.
LEMMA AnsweredGoes ==
  ASSUME ReqsOK, NEW c \in Callers, NEW f, NEW v, Answered(c, f, v)
  PROVE  \E p \in {"idle", "cancelled"}, x \in Questions \cup {"gate", "none"} :
           /\ p = "cancelled" => x \notin Asked
           /\ pc' = [pc EXCEPT ![c] = p] /\ q' = [q EXCEPT ![c] = x]
<1>1. CASE f = "executed" /\ v /\ q[c] = "status"
  BY <1>1 DEF Answered, Goto, ReqsOK, Asked, Questions
<1>2. CASE ~(f = "executed" /\ v /\ q[c] = "status")
  BY <1>2 DEF Answered, Goto
<1>3. QED
  BY <1>1, <1>2

LEMMA FlagsKeepLocks ==
  ASSUME LockInv, NEW c \in Callers,
         Done(c) \/ ReadFlag(c) \/ NoteFlag(c) \/ ReadFlagFails(c) \/ Metered(c)
  PROVE  LockInv'
<1>1. /\ pc[c] \in {"done", "metered", "uncached", "executed", "cancelled", "note_executed", "note_cancelled",
                    "note_marker", "note_both"}
      /\ UNCHANGED <<load, lock, inflight>>
  BY DEF Done, ReadFlag, NoteFlag, ReadFlagFails, Metered, up
<1>2. \E p \in Places \ Waiting, x \in Questions \cup {"gate", "none"} :
        /\ p # "ask"
        /\ p \in {"executed", "cancelled"} => x \notin Asked
        /\ pc' = [pc EXCEPT ![c] = p] /\ q' = [q EXCEPT ![c] = x]
  <2>1. CASE Done(c) \/ ReadFlagFails(c)
    BY <2>1 DEF Done, ReadFlagFails, Goto, Places, Waiting
  <2>2. CASE \E f, v : Answered(c, f, v)
    BY <2>2, AnsweredGoes DEF LockInv, Places, Waiting
  <2>3. CASE ReadFlag(c) /\ ~Memoised(pc[c])
    <3>1. pc' = [pc EXCEPT ![c] = Noting(pc[c])] /\ q' = [q EXCEPT ![c] = q[c]]
      BY <2>3 DEF ReadFlag, Goto, LockInv, ReqsOK
    <3>2. Noting(pc[c]) \in {"note_marker", "note_executed", "note_cancelled"}
      BY DEF Noting
    <3>3. QED
      BY <3>1, <3>2 DEF LockInv, ReqsOK, Places, Waiting
  <2>4. CASE NoteFlag(c) /\ pc[c] = "note_marker"
    <3>1. pc' = [pc EXCEPT ![c] = "note_both"] /\ q' = [q EXCEPT ![c] = q[c]]
      BY <2>4 DEF NoteFlag, Goto, LockInv, ReqsOK
    <3>2. QED
      BY <3>1 DEF LockInv, ReqsOK, Places, Waiting
  <2>5. CASE Metered(c)
    <3> DEFINE x == IF q' = q THEN q[c] ELSE "none"
    <3>1. PICK p \in {"uncached", "idle"} : pc' = [pc EXCEPT ![c] = p]
      BY <2>5 DEF Metered, Goto
    <3>2. q' = [q EXCEPT ![c] = x] /\ x \in Questions \cup {"gate", "none"}
      BY <2>5 DEF Metered, LockInv, ReqsOK
    <3> HIDE DEF x
    <3>3. p \in Places \ Waiting /\ p \notin {"ask", "executed", "cancelled"}
      BY DEF Places, Waiting
    <3>4. QED
      BY <3>1, <3>2, <3>3
  <2>6. QED
    BY <2>1, <2>2, <2>3, <2>4, <2>5 DEF ReadFlag, NoteFlag
<1>3. pc[c] \notin Waiting
  BY <1>1 DEF Waiting
<1>4. QED
  BY <1>1, <1>2, <1>3, MovesOutside

\* The steps of nobody's request.
Others == Backfilling \/ MemoOverflows \/ (\E k \in Keys : Expire(k))
          \/ GateMoves \/ TxMoves \/ ScaleRegistered \/ PoolMoves

LEMMA OthersKeepRequests ==
  ASSUME Others
  PROVE  UNCHANGED <<load, pc, q, lock, val, inflight>>
BY DEF Others, Backfilling, BackfillStart, BackfillStore, BackfillEnd, MemoOverflows, Expire,
       GateMoves, TxMoves, ScaleRegistered, PoolMoves, reqs, up

LEMMA LockStep ==
  ASSUME LockInv, [Next]_vars
  PROVE  LockInv'
<1>1. ASSUME UNCHANGED <<load, pc, q, lock, inflight>> PROVE LockInv'
  BY <1>1 DEF LockInv, ReqsOK, HandlesAreCurrent, LocksAreApart, TurnsAreApart
<1>2. ASSUME NEW c \in Callers, Serve(c) \/ CallFails(c) \/ Drop(c) \/ ReadFlagFails(c)
      PROVE  LockInv'
  BY <1>2, AskKeepsLocks, CallKeepsLocks, LeaveKeepsLocks, FlagsKeepLocks DEF Serve
<1>3. QED
  BY <1>1, <1>2, RequestKeepsLocks, OthersKeepRequests DEF Next, Others, vars, reqs, up

LEMMA LockInit == Init => LockInv
<1> SUFFICES ASSUME Init PROVE LockInv
  OBVIOUS
<1>1. ReqsOK
  BY ReadApiAssumption DEF Init, ReqsOK, Places, Waiting
<1>2. HandlesAreCurrent /\ TurnsAreApart /\ LocksAreApart
  BY DEF Init, HandlesAreCurrent, TurnsAreApart, LocksAreApart, Waiting, Turn
<1>3. QED
  BY <1>1, <1>2 DEF LockInv

\* upstream.rs `cached`: whatever requests time out, are dropped or come back while others wait
\* on the key's lock, and whatever entries are evicted, one key is asked once at a time.
THEOREM OneCallPerKeyTheorem == Spec => []OneCallPerKey
<1>1. LockInv => OneCallPerKey
  <2> SUFFICES ASSUME LockInv, NEW c \in Deduped, NEW d \in Deduped, Key(q[c]) = Key(q[d])
               PROVE  c = d
    BY DEF OneCallPerKey
  <2>1. c \in Callers /\ d \in Callers /\ {pc[c], pc[d]} \subseteq Turn \cap Waiting
    BY DEF Deduped, Turn, Waiting
  <2>2. lock[c] = lock[d]
    BY <2>1 DEF LockInv, HandlesAreCurrent
  <2>3. QED
    BY <2>1, <2>2 DEF LockInv, TurnsAreApart
<1>2. QED
  BY <1>1, LockInit, LockStep, PTL DEF Spec

-----------------------------------------------------------------------------
(* What is kept and served *)

\* What the gate said of a scale: a figure is the registered one, which is for good.
GateSaid(a) ==
    /\ a.kind \in {"none", "expired", "r", "u", "x"}
    /\ a.kind = "r" => a.v = scale /\ scale # 0

\* A read of the destination gate, still true: its flags are never withdrawn.
StillTrue(m) ==
    /\ m \in [executed : BOOLEAN, cancelled : BOOLEAN]
    /\ m.executed => flags \in {"claimed", "cancelled"}
    /\ m.cancelled => flags = "cancelled"

\* What a request has in hand, where it is.
InHand(c) ==
    /\ pc[c] \in {"idle", "ask", "queued", "slot", "calling", "metered", "uncached", "executed",
                "cancelled"} =>
          val[c].kind = "none"
    /\ pc[c] = "scanning" => q[c] = "pool"
    /\ pc[c] = "leaving" /\ Key(q[c]) = "scale" => GateSaid(val[c]) /\ val[c].kind # "expired"
    /\ pc[c] = "done" /\ val[c].v # 0 => val[c].v = scale \/ val[c].gate.kind = "x"
    /\ pc[c] \in {"note_executed", "note_cancelled", "note_marker", "note_both"} =>
          StillTrue(val[c].v)

StatusInv ==
    answers["sigstatus"].kind \notin {"none", "expired"} =>
        \/ answers["sigstatus"].v = "finalized" /\ tx = "finalized"
        \/ answers["sigstatus"].v = "failed"

ScaleInv == GateSaid(answers["scale"]) /\ (scales # 0 => scales = scale)

MemoInv ==
    /\ memo \in [executed : BOOLEAN, cancelled : {"none", "yes", "no"}]
    /\ flags \in {"pending", "funded", "claimed", "cancelled"}
    /\ MemoIsRight

Maps == val = [c \in Callers |-> val[c]] /\ answers = [k \in Keys |-> answers[k]]

TruthInv == Maps /\ StatusInv /\ ScaleInv /\ MemoInv /\ \A c \in Callers : InHand(c)

\* What Keep may do to the answers: an entry is the old one, the new one, or gone.
LEMMA KeepIsSound ==
  ASSUME Maps, NEW k \in Keys, NEW a
  PROVE  /\ Keep(k, a) = [x \in Keys |-> Keep(k, a)[x]]
         /\ \A x \in Keys : \/ Keep(k, a)[x] = answers[x] \/ Keep(k, a)[x] = None
                            \/ x = k /\ Keep(k, a)[x] = a /\ keeps(k, a)
<1> DEFINE full(m) == Cardinality({x \in Keys : m[x].kind # "none"}) >= CACHE_MAX_ENTRIES
           fresh == [x \in Keys |-> IF answers[x].kind = "expired" THEN None ELSE answers[x]]
           blank == [x \in Keys |-> None]
           room == IF ~full(answers) THEN answers ELSE IF ~full(fresh) THEN fresh ELSE blank
<1>1. room = [x \in Keys |-> room[x]] /\ \A x \in Keys : room[x] = answers[x] \/ room[x] = None
  <2> HIDE DEF full
  <2>1. room = answers \/ room = fresh \/ room = blank
    OBVIOUS
  <2>2. fresh = [x \in Keys |-> fresh[x]] /\ \A x \in Keys : fresh[x] = answers[x] \/ fresh[x] = None
    OBVIOUS
  <2>3. blank = [x \in Keys |-> blank[x]] /\ \A x \in Keys : blank[x] = None
    OBVIOUS
  <2> HIDE DEF room, fresh, blank
  <2>4. QED
    BY <2>1, <2>2, <2>3 DEF Maps
<1>2. Keep(k, a) = IF keeps(k, a) THEN [room EXCEPT ![k] = a] ELSE answers
  BY DEF Keep
<1> HIDE DEF room
<1>3. QED
  BY <1>1, <1>2 DEF Maps

\* Requests do not disturb each other's hands.
LEMMA OneHand ==
  ASSUME TruthInv, ReqsOK, NEW c \in Callers, NEW p, NEW x, NEW v,
         pc' = [pc EXCEPT ![c] = p], q' = [q EXCEPT ![c] = x], val' = [val EXCEPT ![c] = v],
         UNCHANGED world, InHand(c)'
  PROVE  /\ \A d \in Callers : InHand(d)'
         /\ val' = [d \in Callers |-> val'[d]]
<1>1. \A d \in Callers : d # c => pc'[d] = pc[d] /\ q'[d] = q[d] /\ val'[d] = val[d]
  BY DEF TruthInv, Maps, ReqsOK
<1>2. scale' = scale /\ flags' = flags
  BY DEF world
<1>3. ASSUME NEW d \in Callers, d # c PROVE InHand(d)'
  <2>1. InHand(d)
    BY DEF TruthInv
  <2>2. QED
    BY <1>1, <1>2, <1>3, <2>1 DEF InHand, GateSaid, StillTrue, Key
<1>4. QED
  BY <1>3 DEF TruthInv, Maps

\* served_bridge_decimals and the gate's own figure: a scale that is served is the gate's,
\* or the registry's when the gate could not be read.
LEMMA ScaledIsRight ==
  ASSUME TruthInv, ReqsOK, NEW c \in Callers, NEW gate, Scaled(c, gate), UNCHANGED world,
         gate.kind \in {"r", "u", "x"}, gate.kind = "r" => gate.v = scale /\ scale # 0,
         Key(q[c]) = "scale"
  PROVE  /\ \A d \in Callers : InHand(d)'
         /\ val' = [d \in Callers |-> val'[d]]
<1>1. scale' = scale
  BY DEF world
<1>2. CASE amount_scale(q[c], gate) = 0 /\ q[c] = "listed"
  <2>1. /\ pc' = [pc EXCEPT ![c] = "ask"] /\ q' = [q EXCEPT ![c] = "gate"]
        /\ val' = [val EXCEPT ![c] = None]
    BY <1>2 DEF Scaled, Goto, Hold
  <2>2. InHand(c)'
    BY <2>1 DEF InHand, TruthInv, Maps, ReqsOK, None
  <2>3. QED
    BY <2>1, <2>2, OneHand
<1>3. CASE ~(amount_scale(q[c], gate) = 0 /\ q[c] = "listed")
  <2> DEFINE d == amount_scale(q[c], gate)
             v == [kind |-> "served", v |-> d, gate |-> gate]
  <2>1. /\ pc' = [pc EXCEPT ![c] = "done"] /\ q' = [q EXCEPT ![c] = q[c]]
        /\ val' = [val EXCEPT ![c] = v]
    BY <1>3 DEF Scaled, Goto, Hold, ReqsOK
  <2>2. d # 0 => d = scale \/ gate.kind = "x"
    BY DEF amount_scale, served_bridge_decimals
  <2>3. v.v = d /\ v.gate = gate
    OBVIOUS
  <2> HIDE DEF d, v
  <2>4. pc'[c] = "done" /\ val'[c] = v
    BY <2>1 DEF TruthInv, Maps, ReqsOK
  <2>5. InHand(c)'
    BY <1>1, <2>2, <2>3, <2>4 DEF InHand
  <2>6. QED
    BY <2>1, <2>5, OneHand
<1>4. QED
  BY <1>2, <1>3

LEMMA ReturnedIsRight ==
  ASSUME TruthInv, ReqsOK, NEW c \in Callers, NEW a, Returned(c, a), UNCHANGED world,
         Key(q[c]) = "scale" => GateSaid(a) /\ a.kind # "expired"
  PROVE  /\ \A d \in Callers : InHand(d)'
         /\ val' = [d \in Callers |-> val'[d]]
         /\ scales' # 0 => scales' = scale
<1>1. CASE Key(q[c]) = "scale"
  <2> DEFINE gate == IF a.kind = "none" THEN Some("x", 0) ELSE a
  <2>1. Scaled(c, gate) /\ scales' = IF gate.kind = "r" THEN gate.v ELSE scales
    BY <1>1 DEF Returned
  <2>2. gate.kind \in {"r", "u", "x"} /\ (gate.kind = "r" => gate.v = scale /\ scale # 0)
    BY <1>1 DEF GateSaid, Some
  <2> HIDE DEF gate
  <2>3. QED
    BY <1>1, <2>1, <2>2, ScaledIsRight DEF TruthInv, ScaleInv
<1>2. CASE Key(q[c]) # "scale"
  <2>1. /\ pc' = [pc EXCEPT ![c] = "idle"] /\ val' = [val EXCEPT ![c] = None]
        /\ q' = [q EXCEPT ![c] = "none"] /\ scales' = scales
    BY <1>2 DEF Returned, Goto, Hold
  <2>2. InHand(c)'
    BY <2>1 DEF InHand, TruthInv, Maps, ReqsOK, None
  <2>3. QED
    BY <2>1, <2>2, OneHand DEF TruthInv, ScaleInv, world
<1>3. QED
  BY <1>1, <1>2

-----------------------------------------------------------------------------
(* One lemma for each group of actions *)

\* A step of request c that leaves the world, the answers, the scale and the memo alone.
LEMMA HandOnly ==
  ASSUME TruthInv, ReqsOK, NEW c \in Callers, NEW p, NEW x, NEW v,
         pc' = [pc EXCEPT ![c] = p], q' = [q EXCEPT ![c] = x], val' = [val EXCEPT ![c] = v],
         UNCHANGED <<world, answers, scales, memo>>, InHand(c)'
  PROVE  TruthInv'
<1>1. (\A d \in Callers : InHand(d)') /\ val' = [d \in Callers |-> val'[d]]
  BY OneHand
<1>2. scale' = scale /\ flags' = flags /\ tx' = tx
  BY DEF world
<1>3. Maps' /\ StatusInv' /\ ScaleInv' /\ MemoInv'
  BY <1>1, <1>2 DEF TruthInv, Maps, StatusInv, ScaleInv, GateSaid, MemoInv, MemoIsRight
<1>4. QED
  BY <1>1, <1>3 DEF TruthInv

LEMMA AskIsTrue ==
  ASSUME TruthInv, LockInv, NEW c \in Callers, Ask(c)
  PROVE  TruthInv'
<1> DEFINE k == Key(q[c])
<1>1. pc[c] = "ask" /\ k \in Keys /\ UNCHANGED <<world, memo>> /\ ReqsOK
  BY KeyType DEF Ask, LockInv, ReqsOK
<1>2. UNCHANGED answers
  BY DEF Ask, up
<1>3. scale' = scale /\ flags' = flags /\ tx' = tx
  BY <1>1 DEF world
<1>4. /\ \A d \in Callers : InHand(d)'
      /\ val' = [d \in Callers |-> val'[d]]
      /\ scales' # 0 => scales' = scale
  <2>1. CASE k = "scale" /\ scales # 0
    <3>1. Scaled(c, Some("r", scales)) /\ UNCHANGED scales
      BY <2>1 DEF Ask
    <3>2. Some("r", scales).kind = "r" /\ Some("r", scales).v = scales
      BY DEF Some
    <3>3. QED
      BY <1>1, <2>1, <3>1, <3>2, ScaledIsRight DEF TruthInv, ScaleInv
  <2>2. CASE ~(k = "scale" /\ scales # 0) /\ Hit(k)
    <3>1. Returned(c, lookup(k))
      BY <2>2 DEF Ask
    <3>2. k = "scale" => GateSaid(lookup(k)) /\ lookup(k).kind # "expired"
      BY <2>2 DEF Hit, lookup, TruthInv, ScaleInv
    <3>3. QED
      BY <1>1, <3>1, <3>2, ReturnedIsRight
  <2>3. CASE ~(k = "scale" /\ scales # 0) /\ ~Hit(k)
    <3>1. /\ pc' = [pc EXCEPT ![c] = "queued"] /\ UNCHANGED <<q, val, scales>>
      BY <2>3 DEF Ask, Goto
    <3>2. q' = [q EXCEPT ![c] = q[c]] /\ val' = [val EXCEPT ![c] = val[c]]
      BY <3>1 DEF TruthInv, Maps, LockInv, ReqsOK
    <3>3. InHand(c)'
      BY <1>1, <3>1 DEF InHand, TruthInv, LockInv, ReqsOK
    <3>4. QED
      BY <1>1, <3>1, <3>2, <3>3, OneHand DEF TruthInv, ScaleInv
  <2>4. QED
    BY <2>1, <2>2, <2>3
<1>5. Maps' /\ StatusInv' /\ ScaleInv' /\ MemoInv'
  BY <1>1, <1>2, <1>3, <1>4
     DEF TruthInv, Maps, StatusInv, ScaleInv, GateSaid, MemoInv, MemoIsRight
<1>6. QED
  BY <1>4, <1>5 DEF TruthInv

\* A request that is answered, and the answer perhaps kept.
LEMMA KeptIsTrue ==
  ASSUME TruthInv, ReqsOK, NEW k \in Keys, NEW a, UNCHANGED <<world, scales, memo>>,
         answers' = Keep(k, a),
         k = "scale" => GateSaid(a),
         k = "sigstatus" /\ a.v = "finalized" => tx = "finalized"
  PROVE  answers' = [x \in Keys |-> answers'[x]] /\ StatusInv' /\ ScaleInv' /\ MemoInv'
<1>1. /\ answers' = [x \in Keys |-> answers'[x]]
      /\ \A x \in Keys : \/ answers'[x] = answers[x] \/ answers'[x] = None
                         \/ x = k /\ answers'[x] = a /\ keeps(k, a)
  BY KeepIsSound DEF TruthInv
<1>2. scale' = scale /\ flags' = flags /\ tx' = tx
  BY DEF world
<1>3. None.kind = "none"
  BY DEF None
<1>4. StatusInv'
  <2>1. "sigstatus" \in Keys
    BY DEF Keys
  <2>2. keeps("sigstatus", a) => a.v \in {"finalized", "failed"}
    BY DEF keeps
  <2>3. QED
    BY <1>1, <1>2, <1>3, <2>1, <2>2 DEF TruthInv, StatusInv
<1>5. ScaleInv'
  <2>1. "scale" \in Keys
    BY DEF Keys
  <2>2. QED
    BY <1>1, <1>2, <1>3, <2>1 DEF TruthInv, ScaleInv, GateSaid
<1>6. MemoInv'
  BY <1>2 DEF TruthInv, MemoInv, MemoIsRight
<1>7. QED
  BY <1>1, <1>4, <1>5, <1>6

LEMMA CallIsTrue ==
  ASSUME TruthInv, LockInv, NEW c \in Callers, Call(c) \/ CallFails(c)
  PROVE  TruthInv'
<1> DEFINE k == Key(q[c])
<1>1. /\ pc[c] = "calling" /\ k \in Keys /\ UNCHANGED <<world, scales, memo, q>> /\ ReqsOK
      /\ pc' = [pc EXCEPT ![c] = "leaving"] /\ val[c].kind = "none"
  BY KeyType DEF Call, CallFails, Goto, LockInv, ReqsOK, TruthInv, InHand, Waiting
<1>2. q' = [q EXCEPT ![c] = q[c]] /\ q'[c] = q[c] /\ pc'[c] = "leaving"
  BY <1>1 DEF ReqsOK
<1>3. scale' = scale
  BY <1>1 DEF world
<1> HIDE DEF k
<1>4. ASSUME NEW a, val' = [val EXCEPT ![c] = a], answers' = Keep(k, a),
             k = "scale" => GateSaid(a) /\ a.kind # "expired",
             k = "sigstatus" /\ a.v = "finalized" => tx = "finalized"
      PROVE  TruthInv'
  <2>1. val'[c] = a
    BY <1>4 DEF TruthInv, Maps
  <2>2. InHand(c)'
    BY <1>2, <1>3, <1>4, <2>1 DEF InHand, GateSaid, k
  <2>3. (\A d \in Callers : InHand(d)') /\ val' = [d \in Callers |-> val'[d]]
    BY <1>1, <1>2, <1>4, <2>2, OneHand
  <2>4. answers' = [x \in Keys |-> answers'[x]] /\ StatusInv' /\ ScaleInv' /\ MemoInv'
    BY <1>1, <1>4, KeptIsTrue
  <2>5. QED
    BY <2>3, <2>4 DEF TruthInv, Maps
<1>5. CASE Call(c)
  <2>1. val' = [val EXCEPT ![c] = Upstreams(k)] /\ answers' = Keep(k, Upstreams(k)) /\ k # "pool"
    BY <1>5 DEF Call, Hold, k
  <2>2. k = "scale" => GateSaid(Upstreams(k)) /\ Upstreams(k).kind # "expired"
    <3>1. k = "scale" => Upstreams(k) = gate_bridge_decimals
      BY DEF Upstreams
    <3>2. GateSaid(gate_bridge_decimals) /\ gate_bridge_decimals.kind # "expired"
      BY DEF gate_bridge_decimals, GateSaid, Some
    <3>3. QED
      BY <3>1, <3>2
  <2>3. k = "sigstatus" /\ Upstreams(k).v = "finalized" => tx = "finalized"
    BY DEF Upstreams, signature_status, Some
  <2>4. QED
    BY <1>4, <2>1, <2>2, <2>3
<1>6. CASE CallFails(c) /\ k = "scale"
  <2>1. val' = [val EXCEPT ![c] = Some("x", 0)] /\ answers' = Keep(k, Some("x", 0))
    BY <1>6 DEF CallFails, Hold, k
  <2>2. GateSaid(Some("x", 0)) /\ Some("x", 0).kind # "expired"
    BY DEF GateSaid, Some
  <2>3. QED
    BY <1>4, <1>6, <2>1, <2>2
<1>7. CASE CallFails(c) /\ k # "scale"
  <2>1. UNCHANGED <<val, answers>>
    BY <1>7 DEF CallFails, k
  <2>2. val' = [val EXCEPT ![c] = val[c]]
    BY <2>1 DEF TruthInv, Maps
  <2>3. InHand(c)'
    BY <1>2, <1>7 DEF InHand, k
  <2>4. QED
    BY <1>1, <1>2, <2>1, <2>2, <2>3, HandOnly
<1>8. QED
  BY <1>5, <1>6, <1>7

LEMMA TurnIsTrue ==
  ASSUME TruthInv, LockInv, NEW c \in Callers, TakeTurn(c) \/ TakeSlot(c) \/ TimeOut(c)
  PROVE  TruthInv'
<1>1. /\ pc[c] \in {"queued", "slot"} /\ Key(q[c]) \in Keys /\ ReqsOK
      /\ UNCHANGED <<world, answers, scales, memo, q>> /\ val[c].kind = "none"
  BY KeyType DEF TakeTurn, TakeSlot, TimeOut, up, LockInv, ReqsOK, TruthInv, InHand, Waiting
<1>2. q' = [q EXCEPT ![c] = q[c]]
  BY <1>1 DEF ReqsOK
<1>3. scale' = scale
  BY <1>1 DEF world
<1>4. CASE TakeTurn(c) /\ Hit(Key(q[c]))
  <2>1. /\ pc' = [pc EXCEPT ![c] = "leaving"] /\ val' = [val EXCEPT ![c] = lookup(Key(q[c]))]
    BY <1>4 DEF TakeTurn, Goto, Hold
  <2>2. pc'[c] = "leaving" /\ q'[c] = q[c] /\ val'[c] = lookup(Key(q[c]))
    BY <1>1, <2>1 DEF ReqsOK, TruthInv, Maps
  <2>3. Key(q[c]) = "scale" => GateSaid(lookup(Key(q[c]))) /\ lookup(Key(q[c])).kind # "expired"
    BY <1>4 DEF Hit, lookup, TruthInv, ScaleInv
  <2>4. InHand(c)'
    BY <1>3, <2>2, <2>3 DEF InHand, GateSaid
  <2>5. QED
    BY <1>1, <1>2, <2>1, <2>4, HandOnly
<1>5. CASE ~(TakeTurn(c) /\ Hit(Key(q[c])))
  <2>1. PICK p \in {"slot", "calling", "leaving"} : pc' = [pc EXCEPT ![c] = p] /\ UNCHANGED val
    BY <1>5 DEF TakeTurn, TakeSlot, TimeOut, Goto
  <2>2. val' = [val EXCEPT ![c] = val[c]]
    BY <2>1 DEF TruthInv, Maps
  <2>3. pc'[c] = p /\ q'[c] = q[c] /\ val'[c] = val[c]
    BY <1>1, <2>1 DEF ReqsOK
  <2>4. InHand(c)'
    BY <1>1, <2>3 DEF InHand, GateSaid
  <2>5. QED
    BY <1>1, <1>2, <2>1, <2>2, <2>4, HandOnly
<1>6. QED
  BY <1>4, <1>5

LEMMA PoolIsTrue ==
  ASSUME TruthInv, LockInv, NEW c \in Callers, CallPool(c) \/ Scan(c)
  PROVE  TruthInv'
<1>1. /\ ReqsOK /\ q[c] = "pool" /\ UNCHANGED <<world, scales, memo, q>>
  BY DEF CallPool, Scan, LockInv, TruthInv, InHand
<1>2. q' = [q EXCEPT ![c] = q[c]] /\ q'[c] = "pool" /\ Key(q[c]) = "pool"
  BY <1>1 DEF ReqsOK, Key
<1>3. \/ \E a : /\ val' = [val EXCEPT ![c] = a] /\ answers' = Keep("pool", a)
                /\ pc' = [pc EXCEPT ![c] = "leaving"]
      \/ \E a : /\ val' = [val EXCEPT ![c] = a] /\ UNCHANGED answers
                /\ (pc' = [pc EXCEPT ![c] = "scanning"] \/ pc' = [pc EXCEPT ![c] = "leaving"])
  <2>1. CASE CallPool(c)
    BY <2>1 DEF CallPool, pool_info, Goto, Hold
  <2>2. CASE Scan(c)
    <3>1. PICK o \in ScanOutcomes(val[c].v, val[c].to) :
            LET new == scan_step(val[c].v, val[c].to, o[1], o[2])
            IN  IF o[2] # "ok" /\ new.live = {}
                THEN Hold(c, None) /\ Goto(c, "leaving") /\ UNCHANGED answers
                ELSE pool_info(c, new.live)
      BY <2>2 DEF Scan
    <3>2. QED
      BY <3>1 DEF pool_info, Goto, Hold
  <2>3. QED
    BY <2>1, <2>2
<1>4. ASSUME NEW p \in {"scanning", "leaving"}, pc' = [pc EXCEPT ![c] = p]
      PROVE  InHand(c)'
  <2>1. pc'[c] = p
    BY <1>1, <1>4 DEF ReqsOK
  <2>2. QED
    BY <1>1, <1>2, <2>1 DEF InHand
<1>5. ASSUME NEW a, val' = [val EXCEPT ![c] = a], answers' = Keep("pool", a),
             pc' = [pc EXCEPT ![c] = "leaving"]
      PROVE  TruthInv'
  <2>1. (\A d \in Callers : InHand(d)') /\ val' = [d \in Callers |-> val'[d]]
    BY <1>1, <1>2, <1>4, <1>5, OneHand
  <2>2. answers' = [x \in Keys |-> answers'[x]] /\ StatusInv' /\ ScaleInv' /\ MemoInv'
    <3>1. "pool" \in Keys
      BY DEF Keys
    <3>2. QED
      BY <1>1, <1>5, <3>1, KeptIsTrue
  <2>3. QED
    BY <2>1, <2>2 DEF TruthInv, Maps
<1>6. QED
  BY <1>1, <1>2, <1>3, <1>4, <1>5, HandOnly

LEMMA LeaveIsTrue ==
  ASSUME TruthInv, LockInv, NEW c \in Callers, Leave(c)
  PROVE  TruthInv'
<1>1. ReqsOK /\ Returned(c, val[c]) /\ UNCHANGED <<world, answers, memo>>
  BY DEF Leave, LockInv
<1>2. Key(q[c]) = "scale" => GateSaid(val[c]) /\ val[c].kind # "expired"
  BY DEF Leave, TruthInv, InHand
<1>3. /\ \A d \in Callers : InHand(d)'
      /\ val' = [d \in Callers |-> val'[d]]
      /\ scales' # 0 => scales' = scale
  BY <1>1, <1>2, ReturnedIsRight
<1>4. scale' = scale /\ flags' = flags /\ tx' = tx
  BY <1>1 DEF world
<1>5. Maps' /\ StatusInv' /\ ScaleInv' /\ MemoInv'
  BY <1>1, <1>3, <1>4 DEF TruthInv, Maps, StatusInv, ScaleInv, GateSaid, MemoInv, MemoIsRight
<1>6. QED
  BY <1>3, <1>5 DEF TruthInv

\* A request that starts, ends or goes away has nothing in hand.
LEMMA EmptyHand ==
  ASSUME TruthInv, LockInv, NEW c \in Callers,
         (\E x \in load : Request(c, x)) \/ Done(c) \/ Drop(c) \/ ReadFlagFails(c) \/ Metered(c)
  PROVE  TruthInv'
<1>1. ReqsOK /\ UNCHANGED <<world, answers, scales, memo>>
  BY DEF Request, Done, Drop, ReadFlagFails, Metered, LockInv, up
<1>2. PICK p \in {"idle", "ask", "metered", "uncached", "executed", "cancelled"} :
         pc' = [pc EXCEPT ![c] = p]
  BY DEF Request, Done, Drop, ReadFlagFails, Metered, Goto
<1>3. PICK x : q' = [q EXCEPT ![c] = x]
  <2>1. q = [q EXCEPT ![c] = q[c]]
    BY <1>1 DEF ReqsOK
  <2>2. QED
    BY <2>1 DEF Request, Done, Drop, ReadFlagFails, Metered
<1>4. \E v : val' = [val EXCEPT ![c] = v] /\ v.kind = "none"
  <2>1. CASE (\E y \in load : Request(c, y)) \/ ReadFlagFails(c) \/ Metered(c)
    <3>1. val' = val /\ pc[c] \in {"idle", "metered", "uncached", "executed", "cancelled"}
      BY <2>1 DEF Request, ReadFlagFails, Metered
    <3>2. val' = [val EXCEPT ![c] = val[c]] /\ val[c].kind = "none"
      BY <3>1 DEF TruthInv, Maps, InHand
    <3>3. QED
      BY <3>2
  <2>2. CASE Done(c) \/ Drop(c)
    <3>1. val' = [val EXCEPT ![c] = None]
      BY <2>2 DEF Done, Drop, Hold
    <3>2. None.kind = "none"
      BY DEF None
    <3>3. QED
      BY <3>1, <3>2
  <2>3. QED
    BY <2>1, <2>2
<1>5. PICK v : val' = [val EXCEPT ![c] = v] /\ v.kind = "none"
  BY <1>4
<1>6. pc'[c] = p /\ val'[c] = v
  BY <1>1, <1>2, <1>5 DEF ReqsOK, TruthInv, Maps
<1>7. InHand(c)'
  BY <1>5, <1>6 DEF InHand
<1>8. QED
  BY <1>1, <1>2, <1>3, <1>5, <1>7, HandOnly

\* TerminalCache: a read that is noted late is still true of a settled submission.
LEMMA NotesAreRight ==
  ASSUME MemoInv, NEW m, StillTrue(m)
  PROVE  /\ note_executed(memo, m.executed) \in [executed : BOOLEAN, cancelled : {"none", "yes", "no"}]
         /\ note_cancelled(memo, m.cancelled) \in [executed : BOOLEAN, cancelled : {"none", "yes", "no"}]
         /\ \A n \in {note_executed(memo, m.executed), note_cancelled(memo, m.cancelled)} :
              /\ n.executed => flags \in {"claimed", "cancelled"}
              /\ n.cancelled = "yes" => flags = "cancelled"
<1>1. m.executed \in BOOLEAN /\ m.cancelled \in BOOLEAN
  BY DEF StillTrue
<1>2. note_cancelled(memo, m.cancelled) =
        IF m.cancelled THEN [executed |-> TRUE, cancelled |-> "yes"]
        ELSE IF memo.executed THEN [memo EXCEPT !.cancelled = "no"] ELSE memo
  <2>1. CASE m.cancelled
    BY <2>1 DEF note_cancelled
  <2>2. CASE ~m.cancelled /\ memo.executed
    BY <2>2 DEF note_cancelled
  <2>3. CASE ~m.cancelled /\ ~memo.executed
    BY <2>3 DEF note_cancelled
  <2>4. QED
    BY <2>1, <2>2, <2>3
<1>3. /\ note_executed(memo, m.executed) \in [executed : BOOLEAN, cancelled : {"none", "yes", "no"}]
      /\ note_executed(memo, m.executed).executed => flags \in {"claimed", "cancelled"}
      /\ note_executed(memo, m.executed).cancelled = "yes" => flags = "cancelled"
  BY <1>1 DEF note_executed, MemoInv, MemoIsRight, StillTrue
<1>4. /\ note_cancelled(memo, m.cancelled) \in [executed : BOOLEAN, cancelled : {"none", "yes", "no"}]
      /\ note_cancelled(memo, m.cancelled).executed => flags \in {"claimed", "cancelled"}
      /\ note_cancelled(memo, m.cancelled).cancelled = "yes" => flags = "cancelled"
  BY <1>1, <1>2 DEF MemoInv, MemoIsRight, StillTrue
<1>5. QED
  BY <1>3, <1>4

LEMMA AnsweredIsTrue ==
  ASSUME TruthInv, ReqsOK, NEW c \in Callers, NEW f, NEW v, Answered(c, f, v), UNCHANGED world
  PROVE  /\ \A d \in Callers : InHand(d)'
         /\ val' = [d \in Callers |-> val'[d]]
<1>1. PICK p \in {"idle", "cancelled"}, x \in Questions \cup {"gate", "none"} :
         pc' = [pc EXCEPT ![c] = p] /\ q' = [q EXCEPT ![c] = x]
  BY AnsweredGoes
<1>2. val' = [val EXCEPT ![c] = None]
  BY DEF Answered, Hold
<1>3. pc'[c] = p /\ val'[c].kind = "none"
  BY <1>1, <1>2 DEF ReqsOK, TruthInv, Maps, None
<1>4. InHand(c)'
  BY <1>3 DEF InHand
<1>5. QED
  BY <1>1, <1>2, <1>4, OneHand

LEMMA FlagsAreTrue ==
  ASSUME TruthInv, LockInv, NEW c \in Callers, ReadFlag(c) \/ NoteFlag(c)
  PROVE  TruthInv'
<1>1. ReqsOK /\ UNCHANGED <<world, answers, scales>>
  BY DEF ReadFlag, NoteFlag, LockInv, up
<1>2. scale' = scale /\ flags' = flags /\ tx' = tx
  BY <1>1 DEF world
<1>3. ASSUME \A d \in Callers : InHand(d)', val' = [d \in Callers |-> val'[d]], MemoInv'
      PROVE  TruthInv'
  BY <1>1, <1>2, <1>3 DEF TruthInv, Maps, StatusInv, ScaleInv, GateSaid
<1>4. ASSUME UNCHANGED memo PROVE MemoInv'
  BY <1>2, <1>4 DEF TruthInv, MemoInv, MemoIsRight
<1>5. CASE ReadFlag(c) /\ Memoised(pc[c])
  <2>1. Answered(c, pc[c], MemoFlag(pc[c])) /\ UNCHANGED memo
    BY <1>5 DEF ReadFlag
  <2>2. QED
    BY <1>1, <1>3, <1>4, <2>1, AnsweredIsTrue
<1>6. CASE ReadFlag(c) /\ ~Memoised(pc[c])
  <2> DEFINE v == [kind |-> pc[c], v |-> executed_marker]
  <2>1. /\ pc' = [pc EXCEPT ![c] = Noting(pc[c])] /\ UNCHANGED <<q, memo>>
        /\ val' = [val EXCEPT ![c] = v]
    BY <1>6 DEF ReadFlag, Goto, Hold
  <2>2. StillTrue(executed_marker)
    <3> DEFINE e == flags \in {"claimed", "cancelled"}
               b == flags = "cancelled"
    <3>1. e \in BOOLEAN /\ b \in BOOLEAN
      OBVIOUS
    <3>2. executed_marker = [executed |-> e, cancelled |-> b]
      BY Zenon DEF executed_marker, marker_state
    <3>3. (e => flags \in {"claimed", "cancelled"}) /\ (b => flags = "cancelled")
      OBVIOUS
    <3> HIDE DEF e, b
    <3>4. QED
      BY <3>1, <3>2, <3>3 DEF StillTrue
  <2>3. v.v = executed_marker
    OBVIOUS
  <2> HIDE DEF v
  <2>4. pc'[c] \in {"note_executed", "note_cancelled", "note_marker"} /\ val'[c] = v
    BY <1>1, <2>1 DEF Noting, ReqsOK, TruthInv, Maps
  <2>5. q' = [q EXCEPT ![c] = q[c]]
    BY <1>1, <2>1 DEF ReqsOK
  <2>6. StillTrue(val[c].v)'
    BY <1>2, <2>2, <2>3, <2>4 DEF StillTrue
  <2>7. InHand(c)'
    BY <2>4, <2>6 DEF InHand
  <2>8. QED
    BY <1>1, <1>3, <1>4, <2>1, <2>5, <2>7, OneHand
<1>7. CASE NoteFlag(c)
  <2>1. StillTrue(val[c].v)
    BY <1>7 DEF NoteFlag, TruthInv, InHand
  <2>2. memo' \in {note_executed(memo, val[c].v.executed), note_cancelled(memo, val[c].v.cancelled)}
    BY <1>7 DEF NoteFlag
  <2>3. MemoInv'
    <3>1. MemoInv
      BY DEF TruthInv
    <3>2. /\ memo' \in [executed : BOOLEAN, cancelled : {"none", "yes", "no"}]
          /\ memo'.executed => flags \in {"claimed", "cancelled"}
          /\ memo'.cancelled = "yes" => flags = "cancelled"
      BY <2>1, <2>2, <3>1, NotesAreRight
    <3>3. QED
      BY <1>2, <3>1, <3>2 DEF MemoInv, MemoIsRight
  <2>4. CASE pc[c] = "note_marker"
    <3>1. pc' = [pc EXCEPT ![c] = "note_both"] /\ UNCHANGED <<q, val>>
      BY <1>7, <2>4 DEF NoteFlag, Goto
    <3>2. q' = [q EXCEPT ![c] = q[c]] /\ val' = [val EXCEPT ![c] = val[c]] /\ pc'[c] = "note_both"
      BY <1>1, <3>1 DEF ReqsOK, TruthInv, Maps
    <3>3. StillTrue(val[c].v)'
      BY <1>2, <2>1, <3>1 DEF StillTrue
    <3>4. InHand(c)'
      BY <3>2, <3>3 DEF InHand
    <3>5. QED
      BY <1>1, <1>3, <2>3, <3>1, <3>2, <3>4, OneHand
  <2>5. CASE \E f, v : Answered(c, f, v)
    BY <1>1, <1>3, <2>3, <2>5, AnsweredIsTrue
  <2>6. QED
    BY <1>7, <2>4, <2>5 DEF NoteFlag
<1>8. QED
  BY <1>5, <1>6, <1>7

\* The world moves only forward, and the caches only forget.
LEMMA OthersAreTrue ==
  ASSUME TruthInv, LockInv, Others
  PROVE  TruthInv'
<1>1. UNCHANGED <<pc, q, val>>
  BY OthersKeepRequests
<1>2. CASE Backfilling
  <2>1. UNCHANGED <<world, answers, memo, scales>>
    BY <1>2 DEF Backfilling, BackfillStart, BackfillStore, BackfillEnd, up
  <2>2. QED
    BY <1>1, <2>1 DEF TruthInv, Maps, StatusInv, ScaleInv, MemoInv, MemoIsRight, InHand, GateSaid,
                      StillTrue, world
<1>3. CASE MemoOverflows
  <2>1. UNCHANGED <<world, answers, scales>> /\ memo' = Unsettled
    BY <1>3 DEF MemoOverflows, up
  <2>2. MemoInv'
    BY <2>1 DEF TruthInv, MemoInv, MemoIsRight, Unsettled, world
  <2>3. QED
    BY <1>1, <2>1, <2>2 DEF TruthInv, Maps, StatusInv, ScaleInv, InHand, GateSaid, StillTrue, world
<1>4. ASSUME NEW k \in Keys, Expire(k) PROVE TruthInv'
  <2>1. UNCHANGED <<world, scales, memo>> /\ answers' = [answers EXCEPT ![k] = Some("expired", 0)]
    BY <1>4 DEF Expire
  <2>2. Some("expired", 0).kind = "expired"
    BY DEF Some
  <2>3. Maps' /\ \A x \in Keys : answers'[x] = answers[x] \/ answers'[x].kind = "expired"
    BY <1>1, <2>1, <2>2 DEF TruthInv, Maps
  <2>4. StatusInv' /\ ScaleInv'
    BY <2>1, <2>3 DEF TruthInv, StatusInv, ScaleInv, GateSaid, world, Keys
  <2>5. QED
    BY <1>1, <2>1, <2>3, <2>4 DEF TruthInv, MemoInv, MemoIsRight, InHand, GateSaid, StillTrue, world
<1>5. CASE GateMoves
  <2>1. /\ UNCHANGED <<tx, scale, answers, scales, memo>>
        /\ flags \in {"pending", "funded"} /\ flags' \in {"funded", "claimed", "cancelled"}
    BY <1>5 DEF GateMoves, up
  <2>2. \A m : StillTrue(m) => m \in [executed : BOOLEAN, cancelled : BOOLEAN]
                                /\ ~m.executed /\ ~m.cancelled
    BY <2>1 DEF StillTrue
  <2>3. \A c \in Callers : InHand(c)'
    BY <1>1, <2>1, <2>2 DEF TruthInv, InHand, GateSaid, StillTrue
  <2>4. MemoInv'
    BY <2>1 DEF TruthInv, MemoInv, MemoIsRight
  <2>5. QED
    BY <1>1, <2>1, <2>3, <2>4 DEF TruthInv, Maps, StatusInv, ScaleInv, GateSaid
<1>6. CASE TxMoves
  <2>1. UNCHANGED <<flags, scale, answers, scales, memo>> /\ tx # "finalized"
    BY <1>6 DEF TxMoves, up
  <2>2. StatusInv'
    BY <2>1 DEF TruthInv, StatusInv
  <2>3. QED
    BY <1>1, <2>1, <2>2 DEF TruthInv, Maps, ScaleInv, MemoInv, MemoIsRight, InHand, GateSaid, StillTrue
<1>7. CASE ScaleRegistered
  <2>1. UNCHANGED <<flags, tx, answers, scales, memo>> /\ scale = 0
    BY <1>7 DEF ScaleRegistered, up
  <2>2. \A a : GateSaid(a) => a.kind \in {"none", "expired", "u", "x"}
    BY <2>1 DEF GateSaid
  <2>3. \A c \in Callers : InHand(c)'
    BY <1>1, <2>1, <2>2 DEF TruthInv, InHand, GateSaid, StillTrue
  <2>4. ScaleInv'
    BY <2>1, <2>2 DEF TruthInv, ScaleInv, GateSaid
  <2>5. QED
    BY <1>1, <2>1, <2>3, <2>4 DEF TruthInv, Maps, StatusInv, MemoInv, MemoIsRight
<1>8. CASE PoolMoves
  <2>1. UNCHANGED <<flags, tx, scale, answers, scales, memo>>
    BY <1>8 DEF PoolMoves, up
  <2>2. QED
    BY <1>1, <2>1 DEF TruthInv, Maps, StatusInv, ScaleInv, MemoInv, MemoIsRight, InHand, GateSaid,
                      StillTrue
<1>9. QED
  BY <1>2, <1>3, <1>4, <1>5, <1>6, <1>7, <1>8 DEF Others

LEMMA TruthStep ==
  ASSUME TruthInv, LockInv, [Next]_vars
  PROVE  TruthInv'
<1>1. ASSUME UNCHANGED vars PROVE TruthInv'
  BY <1>1 DEF vars, world, reqs, up, TruthInv, Maps, StatusInv, ScaleInv, MemoInv, MemoIsRight,
              InHand, GateSaid, StillTrue
<1>2. ASSUME NEW c \in Callers, Serve(c) \/ CallFails(c) PROVE TruthInv'
  BY <1>2, AskIsTrue, TurnIsTrue, CallIsTrue, LeaveIsTrue, EmptyHand, PoolIsTrue, FlagsAreTrue
     DEF Serve
<1>3. QED
  BY <1>1, <1>2, EmptyHand, OthersAreTrue DEF Next, Others

LEMMA TruthInit == Init => TruthInv
<1> SUFFICES ASSUME Init PROVE TruthInv
  OBVIOUS
<1>1. None.kind = "none"
  BY DEF None
<1>2. \A c \in Callers : pc[c] = "idle" /\ val[c].kind = "none"
  BY <1>1 DEF Init
<1>3. Maps /\ StatusInv /\ ScaleInv
  BY <1>1 DEF Init, Maps, StatusInv, ScaleInv, GateSaid, Keys
<1>4. MemoInv
  BY DEF Init, MemoInv, MemoIsRight, Unsettled
<1>5. QED
  BY <1>2, <1>3, <1>4 DEF TruthInv, InHand

\* What the API keeps or serves about settled things is what the chains say: a signature kept as
\* `finalized' is, a served scale is the gate's unless the gate could not be read, and the memo
\* of a submission's flags is filled only with what the destination gate said for good.
THEOREM SettledAnswersTheorem == Spec => []SettledAnswersAreRight
<1>1. TruthInv => SettledAnswersAreRight
  BY DEF TruthInv, StatusInv, MemoInv, InHand, SettledAnswersAreRight, KeptStatusIsFinal, Hit,
         lookup, WrongScaleOnlyIfUnread
<1>2. LockInv /\ TruthInv /\ [Next]_vars => LockInv' /\ TruthInv'
  BY LockStep, TruthStep
<1>3. QED
  BY <1>1, <1>2, LockInit, TruthInit, PTL DEF Spec
=============================================================================
