---------------------------- MODULE KeeperProofs ----------------------------
(***************************************************************************)
(* Proofs about module KeeperTx, for any transfers, prices and limits and  *)
(* any number of crashes: the two loops never pay for the same call twice  *)
(* while they remember the first, and the head watch they share never      *)
(* displaces a transaction one of them is looking after.  Then the         *)
(* contract the keeper finalizes into, SwapRouter: what it holds covers    *)
(* what it owes, and an owner's rescue cannot change that.  Then the store *)
(* of the signatures the keeper submits, SigStore: concurrent writers      *)
(* neither overfill a bucket nor lose a signature.  Last the queue that    *)
(* finalizes deliveries, Finalize: it is one more caller of the router,    *)
(* never chooses for a user, and what it achieves is shown.                *)
(***************************************************************************)
EXTENDS KeeperTx, Finalize, SigStore, Sums

Id == Claims \cup Refunds
CallsOf(role) == IF role = "claim" THEN {"claim", "cancel"} ELSE {"refund", "forward"}
Tx == [call : {"claim", "cancel", "refund", "forward", "self"}, id : Id \cup {Self},
       nonce : Nat, fee : Int]
Entry == [tx : Tx, sent : SUBSET Tx, bumps : Nat, due : BOOLEAN, ceiling : Int]
Stalls == [nonce : Nat, due : BOOLEAN, bumps : Nat, fee : Int, ceiling : Int]

-----------------------------------------------------------------------------
(* The inductive invariant *)

ChainOK ==
  /\ mined \in Seq([tx : Tx, ok : BOOLEAN])
  /\ pool \subseteq Tx /\ IsFiniteSet(pool)
  /\ price \in Price

LoopsOK ==
  /\ pc \in [Role -> {"connect", "idle", "records", "send", "wait", "head"}]
  /\ tx = [r \in Role |-> tx[r]]
  /\ tracked \in [Role -> SUBSET Nat]
  /\ head \in Stalls \cup {NoStall}
  /\ \A r \in Role : pc[r] \in {"send", "wait"} => tx[r].call \in CallsOf(r) /\ tx[r].id \in Ids[r]
  /\ \A r \in Role : pc[r] = "wait" => tx[r] \in Tx

\* An entry of PendingTxs is about the call it is filed under: every transaction in it is one
\* attempt at that call, at one nonce.
PendingOK ==
  /\ pending = [k \in DOMAIN pending |-> pending[k]]
  /\ DOMAIN pending \subseteq Keys
  /\ \A k \in DOMAIN pending :
       /\ pending[k] \in Entry
       /\ Key(pending[k].tx) = k
       /\ \A t \in pending[k].sent : t.nonce = pending[k].tx.nonce

\* The node's pool: one transaction a nonce, none that is already on the chain.
PoolOK ==
  /\ \A t \in pool : t.nonce >= latestCount
  /\ \A t, u \in pool : t.nonce = u.nonce => t = u

\* Every transaction in the pool is remembered by a loop, or known to be forgotten.
Remembered(t) ==
  \/ Key(t) \in forgotten
  \/ Key(t) \in DOMAIN pending /\ t \in pending[Key(t)].sent
  \/ \E r \in Role : pc[r] = "wait" /\ tx[r] = t

PoolIsRemembered == \A t \in pool : t.call # "self" => Remembered(t)

\* A call that is being made is not at the same time one that is waited for.
OneAttempt == \A r \in Role : pc[r] \in {"send", "wait"} => Key(tx[r]) \notin DOMAIN pending

\* ... and before it is sent nothing of it is in the pool.
NothingSentYet ==
  \A r \in Role : pc[r] = "send" =>
    \A t \in pool : t.call # "self" /\ Key(t) = Key(tx[r]) => Key(t) \in forgotten

\* ChainSendState.tracked holds every nonce a loop looks after.
NoncesAreTracked ==
  /\ \A r \in Role : pc[r] = "wait" => tx[r].nonce \in tracked[r]
  /\ \A r \in Role : \A k \in Mine(r) : pending[k].tx.nonce \in tracked[r]

KeeperInv ==
  /\ ChainOK /\ LoopsOK /\ PendingOK /\ PoolOK
  /\ PoolIsRemembered /\ OneAttempt /\ NothingSentYet /\ NoncesAreTracked

-----------------------------------------------------------------------------
(* Operators *)

LEMMA RolesAreApart ==
  /\ \A r \in Role : Ids[r] \subseteq Id
  /\ \A r, s \in Role : Ids[r] \cap Ids[s] # {} => r = s
BY KeeperAssumption DEF Role, Ids, Id

\* A call of a loop is filed under one of that loop's keys.
LEMMA CallKeys ==
  ASSUME NEW r \in Role, NEW t, t.call \in CallsOf(r), t.id \in Ids[r]
  PROVE  Key(t) \in Keys /\ Key(t)[1] = t.id /\ t.call # "self"
BY DEF Role, CallsOf, Ids, Key, Keys, CallKind

LEMMA TwoOfInt ==
  ASSUME NEW a \in Int, NEW b \in Int
  PROVE  Min({a, b}) \in {a, b} /\ Max({a, b}) \in {a, b}
<1>1. \E x \in {a, b} : \A y \in {a, b} : x <= y
  OBVIOUS
<1>2. \E x \in {a, b} : \A y \in {a, b} : x >= y
  OBVIOUS
<1>3. QED
  BY <1>1, <1>2 DEF Min, Max

LEMMA FeeType ==
  ASSUME NEW a \in Int, NEW b \in Int, NEW c \in Int
  PROVE  bumped_fee(a, b, c) \in Int
<1> DEFINE least == a + (a \div FEE_BUMP_DIVISOR) + 1
<1>1. least \in Int
  BY KeeperAssumption
<1> HIDE DEF least
<1>2. Max({b, least}) \in Int
  BY <1>1, TwoOfInt
<1>3. Min({Max({b, least}), c}) \in Int
  BY <1>2, TwoOfInt
<1>4. QED
  BY <1>3 DEF bumped_fee, least

\* Raising a fee keeps the nonce and the call.
LEMMA RepriceKeeps ==
  ASSUME NEW t \in Tx, NEW e \in Int, NEW c \in Int
  PROVE  /\ reprice(t, e, c) \in Tx
         /\ reprice(t, e, c).nonce = t.nonce
         /\ reprice(t, e, c).call = t.call
         /\ Key(reprice(t, e, c)) = Key(t)
<1>1. bumped_fee(t.fee, e, c) \in Int
  BY FeeType DEF Tx
<1>2. reprice(t, e, c) = [t EXCEPT !.fee = bumped_fee(t.fee, e, c)]
  BY DEF reprice
<1> DEFINE f == bumped_fee(t.fee, e, c)
<1> HIDE DEF f
<1>3. QED
  BY <1>1, <1>2 DEF Tx, Key, f

\* The pool has a first free nonce, at the chain's count or above it.
LEMMA NextNonce ==
  ASSUME ChainOK
  PROVE  pendingCount \in Nat /\ pendingCount >= latestCount /\ \A t \in pool : t.nonce # pendingCount
<1> DEFINE n == Cardinality(pool)
           I == latestCount .. latestCount + n
           S == {m \in I : \A t \in pool : t.nonce # m}
<1>1. n \in Nat /\ latestCount \in Nat
  BY FS_CardinalityType DEF ChainOK, latestCount
<1>2. IsFiniteSet(I) /\ Cardinality(I) = n + 1
  BY <1>1, FS_Interval
<1> HIDE DEF n
<1>3. S # {}
  <2> SUFFICES ASSUME S = {} PROVE FALSE
    OBVIOUS
  <2> DEFINE f == [m \in I |-> CHOOSE t \in pool : t.nonce = m]
  <2>1. \A m \in I : f[m] \in pool /\ f[m].nonce = m
    <3>1. \A m \in I : \E t \in pool : t.nonce = m
      OBVIOUS
    <3>2. QED
      BY <3>1
  <2>2. f \in [I -> pool]
    BY <2>1
  <2> HIDE DEF f, I
  <2>3. \E x, y \in I : x # y /\ f[x] = f[y]
    BY <1>1, <1>2, <2>2, FS_PigeonHole DEF ChainOK, n
  <2>4. QED
    BY <2>1, <2>3
<1>4. S \subseteq Nat
  BY <1>1
<1>5. \E x \in S : \A y \in S : x <= y
  <2>1. PICK x \in S : \A y \in S : ~(<<y, x>> \in OpToRel(<, Nat))
    BY <1>3, <1>4, NatLessThanWellFounded, WFMin
  <2>2. \A y \in S : ~(y < x)
    BY <1>4, <2>1 DEF OpToRel
  <2>3. QED
    BY <1>4, <2>2
<1>6. Min(S) \in S
  BY <1>5 DEF Min
<1>7. pendingCount = Min(S)
  BY DEF pendingCount, n
<1>8. QED
  BY <1>1, <1>6, <1>7

-----------------------------------------------------------------------------
(* Steps *)

Places == {"connect", "idle", "records", "send", "wait", "head"}

\* A step that sends nothing and forgets nothing.
LEMMA QuietStep ==
  ASSUME KeeperInv, UNCHANGED <<mined, pool, tx, pending, tracked, forgotten>>,
         price' \in Price, head' \in Stalls \cup {NoStall}, pc' \in [Role -> Places],
         \A r \in Role : pc'[r] = pc[r] \/ (pc'[r] \notin {"send", "wait"} /\ pc[r] # "wait")
  PROVE  KeeperInv'
<1> USE DEF KeeperInv
<1>1. ChainOK' /\ PoolOK' /\ PendingOK'
  BY DEF ChainOK, PoolOK, PendingOK, latestCount
<1>2. LoopsOK'
  BY DEF LoopsOK, Places
<1>3. PoolIsRemembered'
  BY DEF PoolIsRemembered, Remembered
<1>4. OneAttempt' /\ NothingSentYet' /\ NoncesAreTracked'
  BY DEF OneAttempt, NothingSentYet, NoncesAreTracked, Mine
<1>5. QED
  BY <1>1, <1>2, <1>3, <1>4

LEMMA QuietActions ==
  ASSUME KeeperInv,
         \/ \E role \in Role : connect_gate(role) \/ BeginTick(role)
              \/ \E id \in Ids[role] : PassOver(role, id) \/ Unanswered(role, id)
         \/ \E p \in Price : MovePrice(p)
         \/ \E id \in DOMAIN slot : Other(id) \/ CancelQuorum(id) \/ Unlist(id)
         \/ HeadWindow
  PROVE  KeeperInv'
<1>1. price \in Price /\ head \in Stalls \cup {NoStall} /\ pc \in [Role -> Places]
  BY DEF KeeperInv, ChainOK, LoopsOK, Places
<1>2. CASE \E role \in Role : connect_gate(role) \/ BeginTick(role)
  BY <1>1, <1>2, QuietStep DEF connect_gate, BeginTick, Goto, chain, market, Places
<1>3. CASE \E role \in Role : \E id \in Ids[role] : PassOver(role, id) \/ Unanswered(role, id)
  BY <1>1, <1>3, QuietStep DEF PassOver, Unanswered, Skipped, chain, market
<1>4. CASE (\E p \in Price : MovePrice(p)) \/ \E id \in DOMAIN slot : Other(id) \/ CancelQuorum(id) \/ Unlist(id)
  BY <1>1, <1>4, QuietStep DEF MovePrice, Other, CancelQuorum, Unlist, chain, market
<1>5. CASE HeadWindow
  <2>1. head' \in Stalls
    BY <1>1, <1>5 DEF HeadWindow, Stalls
  <2>2. QED
    BY <1>1, <1>5, <2>1, QuietStep DEF HeadWindow, chain, market
<1>6. QED
  BY <1>2, <1>3, <1>4, <1>5

-----------------------------------------------------------------------------
(* Deciding what to send *)

\* may_submit: where it says yes, nothing that was sent for the call is still in the pool.
LEMMA MaySubmitIsSafe ==
  ASSUME KeeperInv, NEW k \in DOMAIN pending, may_submit(k), NEW t \in pending[k].sent
  PROVE  t \notin pool
<1> SUFFICES ASSUME t \in pool PROVE FALSE
  OBVIOUS
<1> USE DEF KeeperInv
<1> DEFINE said == {probe_tx(u) : u \in pending[k].sent}
<1>1. t.nonce >= latestCount /\ t.nonce = pending[k].tx.nonce
  BY DEF PoolOK, PendingOK
<1>2. DOMAIN mined = 1 .. latestCount /\ latestCount \in Nat
  BY DEF ChainOK, latestCount
<1>3. \A u \in pending[k].sent : u.nonce \in Nat /\ u.nonce >= latestCount
  BY <1>1 DEF PendingOK, Entry, Tx
<1>4. \A u \in pending[k].sent : probe_tx(u) = IF u \in pool THEN "mempool" ELSE "gone"
  <2>1. ASSUME NEW u \in pending[k].sent
        PROVE  ~ \E n \in DOMAIN mined : n = u.nonce + 1 /\ mined[n].tx = u
    BY <1>2, <1>3
  <2>2. QED
    BY <2>1 DEF probe_tx
<1>5. "landed" \notin said /\ "reverted" \notin said /\ "mempool" \in said
  BY <1>4
<1>6. combine_probes(pending[k].sent) = "mempool"
  BY <1>5 DEF combine_probes
<1>7. QED
  BY <1>6 DEF may_submit

\* What a handler decides is the call its record is filed under.
LEMMA DecidedCall ==
  ASSUME NEW role \in Role, NEW id \in Ids[role], Decide(id) # "none"
  PROVE  /\ Decide(id) \in CallsOf(role)
         /\ CallKind(Decide(id)) = Wanted(id)
<1>1. CASE role = "claim"
  <2>1. id \notin Refunds
    BY <1>1, KeeperAssumption DEF Ids
  <2>2. Wanted(id) \in {"claim", "cancel"}
    BY <2>1 DEF Wanted
  <2>3. Decide(id) = Wanted(id)
    BY <2>2 DEF Decide, try_claim, try_cancel
  <2>4. QED
    BY <1>1, <2>2, <2>3 DEF CallsOf, CallKind
<1>2. CASE role = "refund"
  <2>1. Wanted(id) = "refund"
    BY <1>2 DEF Ids, Wanted
  <2>2. Decide(id) \in {"refund", "forward"}
    BY <2>1 DEF Decide, try_refund
  <2>3. QED
    BY <1>2, <2>1, <2>2 DEF CallsOf, CallKind
<1>3. QED
  BY <1>1, <1>2 DEF Role

\* Dropping entries leaves the others as they are.
LEMMA ForgetKeeps ==
  ASSUME PendingOK, NEW S, pending' = Forget(S)
  PROVE  /\ DOMAIN pending' = DOMAIN pending \ S
         /\ \A k \in DOMAIN pending' : pending'[k] = pending[k]
         /\ PendingOK'
<1>1. /\ DOMAIN pending' = DOMAIN pending \ S
      /\ \A k \in DOMAIN pending' : pending'[k] = pending[k]
      /\ pending' = [k \in DOMAIN pending' |-> pending'[k]]
  BY DEF Forget
<1>2. QED
  BY <1>1 DEF PendingOK

LEMMA TryStep ==
  ASSUME KeeperInv, NEW role \in Role, NEW id \in Ids[role], Try(role, id)
  PROVE  KeeperInv'
<1> USE DEF KeeperInv
<1> DEFINE k == <<id, Wanted(id)>>
<1>1. /\ pc[role] = "records" /\ may_submit(k) /\ pending' = Forget({k})
      /\ UNCHANGED <<mined, pool, price, tracked, head, forgotten>>
  BY DEF Try, MayTry, chain, market
<1>2. /\ DOMAIN pending' = DOMAIN pending \ {k}
      /\ \A j \in DOMAIN pending' : pending'[j] = pending[j]
      /\ PendingOK'
  BY <1>1, ForgetKeeps
<1>3. ChainOK' /\ PoolOK'
  BY <1>1 DEF ChainOK, PoolOK, latestCount
<1>4. \/ UNCHANGED <<pc, tx>>
      \/ /\ Decide(id) # "none"
         /\ pc' = [pc EXCEPT ![role] = "send"]
         /\ tx' = [tx EXCEPT ![role] = [call |-> Decide(id), id |-> id]]
  BY DEF Try, Skipped, Goto
<1>5. \A r \in Role : pc[r] \in {"send", "wait"} => r # role /\ pc'[r] = pc[r] /\ tx'[r] = tx[r]
  BY <1>1, <1>4 DEF LoopsOK
<1>6. PoolIsRemembered'
  <2>1. ASSUME NEW t \in pool, t.call # "self" PROVE Remembered(t)'
    <3>1. Remembered(t)
      BY <2>1 DEF PoolIsRemembered
    <3>2. CASE Key(t) \in forgotten
      BY <1>1, <3>2 DEF Remembered
    <3>3. CASE Key(t) \in DOMAIN pending /\ t \in pending[Key(t)].sent
      <4>1. Key(t) # k
        BY <1>1, <3>3, MaySubmitIsSafe
      <4>2. QED
        BY <1>2, <3>3, <4>1 DEF Remembered
    <3>4. CASE \E r \in Role : pc[r] = "wait" /\ tx[r] = t
      BY <1>5, <3>4 DEF Remembered
    <3>5. QED
      BY <3>1, <3>2, <3>3, <3>4 DEF Remembered
  <2>2. QED
    BY <1>1, <2>1 DEF PoolIsRemembered
<1>7. NoncesAreTracked'
  <2>1. \A r \in Role : pc'[r] = "wait" => pc[r] = "wait"
    BY <1>4 DEF LoopsOK
  <2>2. \A r \in Role : Mine(r)' \subseteq Mine(r)
    BY <1>2 DEF Mine
  <2>3. \A r \in Role : \A j \in Mine(r)' : pending'[j] = pending[j]
    BY <1>2 DEF Mine
  <2>4. QED
    BY <1>1, <1>5, <2>1, <2>2, <2>3 DEF NoncesAreTracked
<1>8. CASE UNCHANGED <<pc, tx>>
  <2>1. LoopsOK' /\ OneAttempt' /\ NothingSentYet'
    BY <1>1, <1>2, <1>8 DEF LoopsOK, OneAttempt, NothingSentYet
  <2>2. QED
    BY <1>2, <1>3, <1>6, <1>7, <2>1
<1>9. CASE /\ Decide(id) # "none"
           /\ pc' = [pc EXCEPT ![role] = "send"]
           /\ tx' = [tx EXCEPT ![role] = [call |-> Decide(id), id |-> id]]
  <2>1. /\ tx'[role].call = Decide(id) /\ tx'[role].id = id /\ pc'[role] = "send"
        /\ tx' = [r \in Role |-> tx'[r]]
    BY <1>9 DEF LoopsOK
  <2>2. Decide(id) \in CallsOf(role) /\ CallKind(Decide(id)) = Wanted(id)
    BY <1>9, DecidedCall
  <2>3. Key(tx'[role]) = k
    BY <2>1, <2>2 DEF Key
  <2>4. \A r \in Role : r # role => pc'[r] = pc[r] /\ tx'[r] = tx[r]
    BY <1>9 DEF LoopsOK
  <2>5. LoopsOK'
    BY <1>1, <1>9, <2>1, <2>2, <2>4 DEF LoopsOK
  <2>6. OneAttempt'
    BY <1>2, <2>3, <2>4 DEF OneAttempt
  <2>7. ASSUME NEW t \in pool, t.call # "self", Key(t) = k PROVE Key(t) \in forgotten
    <3>1. Remembered(t)
      BY <2>7 DEF PoolIsRemembered
    <3>2. ~(Key(t) \in DOMAIN pending /\ t \in pending[Key(t)].sent)
      BY <1>1, <2>7, MaySubmitIsSafe
    <3>3. ASSUME NEW r \in Role, pc[r] = "wait", tx[r] = t PROVE FALSE
      <4>1. t.id \in Ids[r] /\ r # role
        BY <1>1, <3>3 DEF LoopsOK
      <4>2. t.id = id
        BY <2>7 DEF Key
      <4>3. QED
        BY <4>1, <4>2, RolesAreApart
    <3>4. QED
      BY <3>1, <3>2, <3>3 DEF Remembered
  <2>8. NothingSentYet'
    <3>1. \A r \in Role : r # role => pc'[r] = pc[r] /\ Key(tx'[r]) = Key(tx[r])
      BY <2>4
    <3>2. QED
      BY <1>1, <2>3, <2>7, <3>1 DEF NothingSentYet
  <2>9. QED
    BY <1>2, <1>3, <1>6, <1>7, <2>5, <2>6, <2>8
<1>10. QED
  BY <1>4, <1>8, <1>9

\* maybe_replace keeps the nonce: the entry gains an attempt, the pool trades one for another.
LEMMA ReplaceStep ==
  ASSUME KeeperInv, NEW role \in Role, NEW id \in Ids[role], Wait(role, id)
  PROVE  KeeperInv'
<1> USE DEF KeeperInv
<1> DEFINE k == <<id, Wanted(id)>>
           f == pending[k]
<1>1. /\ pc[role] = "records" /\ k \in DOMAIN pending
      /\ UNCHANGED <<mined, price, tracked, head, pc, tx>>
  BY DEF Wait, MayTry, may_submit, Skipped, market
<1>2. f \in Entry /\ Key(f.tx) = k /\ price \in Int /\ f.tx \in Tx
  BY <1>1, KeeperAssumption DEF PendingOK, ChainOK, Entry
<1>3. PICK e \in {price, 0} : \/ maybe_replace(k, e) /\ UNCHANGED forgotten
                             \/ replace_unanswered(k, e)
  BY DEF Wait
<1> DEFINE t == reprice(f.tx, e, f.ceiling)
<1>4. t \in Tx /\ t.nonce = f.tx.nonce /\ t.call = f.tx.call /\ Key(t) = k
  <2>1. e \in Int /\ f.ceiling \in Int
    BY <1>2 DEF Entry
  <2> HIDE DEF f, k
  <2>2. QED
    BY <1>2, <2>1, RepriceKeeps
<1> HIDE DEF k, f
<1>5. DOMAIN pending' = DOMAIN pending /\ PendingOK'
      /\ (\A j \in DOMAIN pending : pending'[j].tx.nonce = pending[j].tx.nonce
                                    /\ pending[j].sent \subseteq pending'[j].sent)
      /\ forgotten \subseteq forgotten'
      /\ (pool' = pool \/ (pool' = Broadcast(t) /\ (t \in pending'[k].sent \/ k \in forgotten')))
  <2>1. CASE UNCHANGED <<pending, pool, forgotten>>
    BY <2>1 DEF PendingOK
  <2>2. CASE pending' = [pending EXCEPT ![k].due = FALSE] /\ UNCHANGED <<pool, forgotten>>
    BY <1>1, <1>2, <2>2 DEF PendingOK, Entry, f
  <2>3. CASE /\ pending' = [pending EXCEPT ![k].due = FALSE, ![k].bumps = MAX_FEE_BUMPS]
             /\ UNCHANGED <<pool, forgotten>>
    BY <1>1, <1>2, <2>3, KeeperAssumption DEF PendingOK, Entry, f
  <2>4. CASE /\ pending' = [pending EXCEPT ![k].due = FALSE, ![k].bumps = @ + 1]
             /\ \/ UNCHANGED <<pool, forgotten>>
                \/ pool' = Broadcast(t) /\ forgotten' = forgotten \cup {k}
    <3> HIDE DEF t
    <3> DEFINE b == f.bumps + 1
               g == [f EXCEPT !.due = FALSE, !.bumps = b]
    <3>1. b \in Nat
      BY <1>2 DEF Entry
    <3>2. pending' = [pending EXCEPT ![k] = g]
      BY <1>2, <2>4 DEF f, Entry
    <3> HIDE DEF b
    <3>3. g \in Entry /\ g.tx = f.tx /\ g.sent = f.sent
      BY <1>2, <3>1 DEF Entry
    <3> HIDE DEF g
    <3>4. PendingOK'
      BY <1>1, <1>2, <3>2, <3>3 DEF PendingOK, f
    <3>5. QED
      BY <1>1, <2>4, <3>2, <3>3, <3>4 DEF PendingOK, f
  <2>5. CASE /\ pool' = Broadcast(t) /\ UNCHANGED forgotten
             /\ pending' = [pending EXCEPT ![k].due = FALSE, ![k].bumps = @ + 1,
                                           ![k].tx = t, ![k].sent = @ \cup {t}]
    <3> DEFINE b == f.bumps + 1
               S == f.sent \cup {t}
               g == [f EXCEPT !.due = FALSE, !.bumps = b, !.tx = t, !.sent = S]
    <3> HIDE DEF t
    <3>1. pending' = [pending EXCEPT ![k] = g]
      BY <1>2, <2>5 DEF f, Entry
    <3>2. g \in Entry /\ g.tx = t /\ g.sent = f.sent \cup {t}
      <4>1. b \in Nat /\ S \in SUBSET Tx
        BY <1>2, <1>4 DEF Entry
      <4> HIDE DEF b, S
      <4>2. g \in Entry /\ g.tx = t /\ g.sent = S
        BY <1>2, <1>4, <4>1 DEF Entry
      <4>3. QED
        BY <4>2 DEF S
    <3> HIDE DEF g
    <3>3. \A u \in f.sent : u.nonce = f.tx.nonce
      BY <1>1 DEF PendingOK, f
    <3>4. PendingOK'
      BY <1>1, <1>4, <3>1, <3>2, <3>3 DEF PendingOK
    <3>5. QED
      BY <1>1, <1>4, <2>5, <3>1, <3>2, <3>4 DEF PendingOK, f
  <2>6. QED
    BY <1>3, <2>1, <2>2, <2>3, <2>4, <2>5 DEF maybe_replace, replace_unanswered, f
<1>6. ASSUME pool' = Broadcast(t)
      PROVE  ChainOK' /\ PoolOK'
  <2>1. f.tx.nonce >= latestCount
    <3>1. CASE UNCHANGED pool
      BY <1>4, <1>6, <3>1 DEF Broadcast, PoolOK
    <3>2. CASE pool' # pool
      BY <1>3, <1>4, <3>2 DEF maybe_replace, replace_unanswered, Accepts, f
    <3>3. QED
      BY <3>1, <3>2
  <2> HIDE DEF t
  <2>2. ChainOK'
    <3>1. IsFiniteSet({u \in pool : u.nonce # t.nonce})
      BY FS_Subset DEF ChainOK
    <3>2. IsFiniteSet(pool')
      BY <1>6, <3>1, FS_AddElement DEF Broadcast
    <3>3. QED
      BY <1>1, <1>4, <1>6, <3>2 DEF ChainOK, Broadcast
  <2>3. PoolOK'
    BY <1>1, <1>4, <1>6, <2>1 DEF PoolOK, Broadcast, latestCount
  <2>4. QED
    BY <2>2, <2>3
<1>7. ChainOK' /\ PoolOK'
  BY <1>1, <1>5, <1>6 DEF ChainOK, PoolOK, latestCount
<1> HIDE DEF t
<1>8. PoolIsRemembered'
  <2>1. ASSUME NEW u \in pool', u.call # "self", u \in pool PROVE Remembered(u)'
    BY <1>1, <1>5, <2>1 DEF PoolIsRemembered, Remembered
  <2>2. ASSUME NEW u \in pool', u \notin pool PROVE Remembered(u)'
    BY <1>1, <1>4, <1>5, <2>2 DEF Broadcast, Remembered
  <2>3. QED
    BY <2>1, <2>2 DEF PoolIsRemembered
<1>9. LoopsOK' /\ OneAttempt'
  BY <1>1, <1>5 DEF LoopsOK, OneAttempt
<1>10. NothingSentYet'
  <2>1. \A r \in Role : pc[r] \in {"send", "wait"} => Key(tx[r]) # k
    BY <1>1 DEF OneAttempt
  <2>2. \A u \in pool' : u \in pool \/ Key(u) = k
    BY <1>4, <1>5 DEF Broadcast
  <2>3. QED
    BY <1>1, <1>5, <2>1, <2>2 DEF NothingSentYet
<1>11. NoncesAreTracked'
  BY <1>1, <1>5 DEF NoncesAreTracked, Mine
<1>12. QED
  BY <1>5, <1>7, <1>8, <1>9, <1>10, <1>11

-----------------------------------------------------------------------------
(* Sending *)

\* A broadcast replaces the transaction at its nonce and keeps the pool a pool.
LEMMA BroadcastKeepsPool ==
  ASSUME ChainOK, PoolOK, NEW t \in Tx, t.nonce >= latestCount,
         UNCHANGED <<mined, price>>, pool' = Broadcast(t)
  PROVE  ChainOK' /\ PoolOK'
<1>1. IsFiniteSet({u \in pool : u.nonce # t.nonce})
  BY FS_Subset DEF ChainOK
<1>2. IsFiniteSet(pool')
  BY <1>1, FS_AddElement DEF Broadcast
<1>3. ChainOK'
  BY <1>2 DEF ChainOK, Broadcast
<1>4. PoolOK'
  BY DEF PoolOK, Broadcast, latestCount
<1>5. QED
  BY <1>3, <1>4

\* What is about to be sent takes the first free nonce, under the loop's own key.
LEMMA PopulateFits ==
  ASSUME KeeperInv, NEW role \in Role, pc[role] = "send"
  PROVE  /\ populate(role) \in Tx
         /\ populate(role).call = tx[role].call /\ populate(role).call # "self"
         /\ Key(populate(role)) = Key(tx[role]) /\ Key(tx[role]) \in Keys
         /\ populate(role).nonce >= latestCount
         /\ \A u \in pool : u.nonce # populate(role).nonce
<1> USE DEF KeeperInv
<1>1. tx[role].call \in CallsOf(role) /\ tx[role].id \in Ids[role]
  BY DEF LoopsOK
<1>2. /\ pendingCount \in Nat /\ pendingCount >= latestCount
      /\ \A u \in pool : u.nonce # pendingCount
  BY NextNonce
<1> DEFINE t == populate(role)
<1>3. t = [call |-> tx[role].call, id |-> tx[role].id, nonce |-> pendingCount, fee |-> price]
  BY DEF populate
<1>4. t.call = tx[role].call /\ t.id = tx[role].id /\ t.nonce = pendingCount
  BY <1>3
<1>5. t \in Tx
  <2>1. price \in Int
    BY KeeperAssumption DEF ChainOK
  <2>2. tx[role].call \in {"claim", "cancel", "refund", "forward", "self"} /\ tx[role].id \in Id \cup {Self}
    BY <1>1, RolesAreApart DEF CallsOf
  <2>3. QED
    BY <1>2, <1>3, <2>1, <2>2 DEF Tx
<1>6. Key(t) = Key(tx[role]) /\ Key(tx[role]) \in Keys /\ t.call # "self"
  BY <1>1, <1>4, CallKeys DEF Key
<1> HIDE DEF t
<1>7. QED
  BY <1>2, <1>4, <1>5, <1>6 DEF t

LEMMA SendStep ==
  ASSUME KeeperInv, NEW role \in Role, Send(role)
  PROVE  KeeperInv'
<1> USE DEF KeeperInv
<1> DEFINE t == populate(role)
<1>1. /\ pc[role] = "send" /\ pool' = Broadcast(t) /\ tx' = [tx EXCEPT ![role] = t]
      /\ tracked' = [tracked EXCEPT ![role] = @ \cup {t.nonce}]
      /\ pc' = [pc EXCEPT ![role] = "wait"]
      /\ UNCHANGED <<mined, price, pending, head, forgotten>>
  BY DEF Send, Track, Goto, market
<1>2. tx[role].call \in CallsOf(role) /\ tx[role].id \in Ids[role]
  BY <1>1 DEF LoopsOK
<1>3. /\ t \in Tx /\ t.call = tx[role].call /\ t.nonce >= latestCount
      /\ \A u \in pool : u.nonce # t.nonce
  BY <1>1, PopulateFits
<1>4. t.nonce \in Nat
  BY <1>3 DEF Tx
<1>5. t.id = tx[role].id
  BY DEF populate
<1>6. Key(t) = Key(tx[role])
  BY <1>1, PopulateFits
<1> HIDE DEF t
<1>7. ChainOK' /\ PoolOK'
  BY <1>1, <1>3, BroadcastKeepsPool
<1>8. \A r \in Role : r # role => pc'[r] = pc[r] /\ tx'[r] = tx[r] /\ tracked'[r] = tracked[r]
  BY <1>1 DEF LoopsOK
<1>9. /\ pc'[role] = "wait" /\ tx'[role] = t /\ t.nonce \in tracked'[role]
      /\ tracked[role] \subseteq tracked'[role] /\ tracked' \in [Role -> SUBSET Nat]
      /\ tx' = [r \in Role |-> tx'[r]]
  BY <1>1, <1>3, <1>4 DEF LoopsOK
<1>10. LoopsOK'
  BY <1>1, <1>2, <1>3, <1>5, <1>8, <1>9 DEF LoopsOK
<1>11. PendingOK' /\ OneAttempt'
  BY <1>1, <1>6, <1>8, <1>9 DEF PendingOK, OneAttempt
<1>12. PoolIsRemembered'
  <2>1. ASSUME NEW u \in pool, u.call # "self" PROVE Remembered(u)'
    <3>1. Remembered(u)
      BY <2>1 DEF PoolIsRemembered
    <3>2. \A r \in Role : pc[r] = "wait" => r # role
      BY <1>1
    <3>3. QED
      BY <1>1, <1>8, <3>1, <3>2 DEF Remembered
  <2>2. ASSUME NEW u, u = t PROVE Remembered(u)'
    BY <1>9, <2>2 DEF Remembered
  <2>3. QED
    BY <1>1, <2>1, <2>2 DEF PoolIsRemembered, Broadcast
<1>13. NothingSentYet'
  <2>1. ASSUME NEW r \in Role, pc'[r] = "send" PROVE Key(t) # Key(tx[r]) /\ r # role
    <3>1. r # role /\ pc[r] = "send" /\ tx[r].call \in CallsOf(r) /\ tx[r].id \in Ids[r]
      BY <1>8, <1>9, <2>1 DEF LoopsOK
    <3>2. Key(t)[1] # Key(tx[r])[1]
      BY <1>2, <1>6, <3>1, CallKeys, RolesAreApart
    <3>3. QED
      BY <3>1, <3>2
  <2>2. QED
    BY <1>1, <1>8, <2>1 DEF NothingSentYet, Broadcast
<1>14. NoncesAreTracked'
  BY <1>1, <1>8, <1>9 DEF NoncesAreTracked, Mine
<1>15. QED
  BY <1>7, <1>10, <1>11, <1>12, <1>13, <1>14

-----------------------------------------------------------------------------
(* The end of a call *)

\* A call ends: its transaction is accounted for in another way, or was never in the pool.
LEMMA FinishStep ==
  ASSUME KeeperInv, NEW role \in Role, pc[role] \in {"send", "wait"}, Finished(role),
         UNCHANGED <<mined, price, tracked, head>>, ChainOK', PoolOK',
         \A u \in pool' : u \in pool \/ (Key(u) = Key(tx[role]) /\ Key(u) \in forgotten'),
         PendingOK', forgotten \subseteq forgotten',
         \/ UNCHANGED pending
         \/ pc[role] = "wait" /\ pending' = Put(pending, Key(tx[role]), InFlight(tx[role], {tx[role]})),
         pc[role] = "wait" /\ tx[role] \in pool =>
            \/ Key(tx[role]) \in forgotten'
            \/ pending' = Put(pending, Key(tx[role]), InFlight(tx[role], {tx[role]}))
  PROVE  KeeperInv'
<1> USE DEF KeeperInv
<1> DEFINE t == tx[role]
           k == Key(t)
<1>1. pc' = [pc EXCEPT ![role] = "records"] /\ tx' = [tx EXCEPT ![role] = NoTx]
  BY DEF Finished, Goto
<1>2. \A r \in Role : r # role => pc'[r] = pc[r] /\ tx'[r] = tx[r]
  BY <1>1 DEF LoopsOK
<1>3. pc'[role] = "records" /\ tx' = [r \in Role |-> tx'[r]]
  BY <1>1 DEF LoopsOK
<1>4. LoopsOK'
  BY <1>1, <1>2, <1>3 DEF LoopsOK
<1>5. t.call \in CallsOf(role) /\ t.id \in Ids[role] /\ k \in Keys /\ k[1] = t.id
  BY CallKeys DEF LoopsOK
<1>6. k \notin DOMAIN pending
  BY DEF OneAttempt
<1> HIDE DEF k
<1>7. /\ \A j \in DOMAIN pending : j \in DOMAIN pending' /\ pending'[j] = pending[j]
      /\ DOMAIN pending' \subseteq DOMAIN pending \cup {k}
      /\ k \in DOMAIN pending' => pc[role] = "wait" /\ pending'[k] = InFlight(t, {t})
      /\ pending' = Put(pending, k, InFlight(t, {t})) => k \in DOMAIN pending'
  BY <1>6 DEF Put, k
<1>8. InFlight(t, {t}).sent = {t} /\ InFlight(t, {t}).tx = t
  BY DEF InFlight
<1>9. PoolIsRemembered'
  <2>1. ASSUME NEW u \in pool, u.call # "self" PROVE Remembered(u)'
    <3>1. Remembered(u)
      BY <2>1 DEF PoolIsRemembered
    <3>2. CASE Key(u) \in forgotten \/ (Key(u) \in DOMAIN pending /\ u \in pending[Key(u)].sent)
      BY <1>7, <3>2 DEF Remembered
    <3>3. ASSUME NEW r \in Role, pc[r] = "wait", tx[r] = u PROVE Remembered(u)'
      <4>1. CASE r # role
        BY <1>2, <3>3, <4>1 DEF Remembered
      <4>2. CASE r = role
        BY <1>7, <1>8, <3>3, <4>2 DEF Remembered, k
      <4>3. QED
        BY <4>1, <4>2
    <3>4. QED
      BY <3>1, <3>2, <3>3 DEF Remembered
  <2>2. ASSUME NEW u \in pool', u \notin pool PROVE Remembered(u)'
    BY <2>2 DEF Remembered
  <2>3. QED
    BY <2>1, <2>2 DEF PoolIsRemembered
<1>10. \A r \in Role : pc'[r] \in {"send", "wait"} =>
         r # role /\ pc[r] = pc'[r] /\ tx'[r] = tx[r] /\ Key(tx[r]) # k
  <2>1. ASSUME NEW r \in Role, pc'[r] \in {"send", "wait"}
        PROVE  r # role /\ pc[r] = pc'[r] /\ tx'[r] = tx[r] /\ Key(tx[r]) # k
    <3>1. r # role /\ pc[r] = pc'[r] /\ tx'[r] = tx[r]
      BY <1>2, <1>3, <2>1
    <3>2. tx[r].call \in CallsOf(r) /\ tx[r].id \in Ids[r]
      BY <2>1, <3>1 DEF LoopsOK
    <3>3. Key(tx[r])[1] # k[1]
      BY <1>5, <3>1, <3>2, CallKeys, RolesAreApart
    <3>4. QED
      BY <3>1, <3>3
  <2>2. QED
    BY <2>1
<1>11. OneAttempt' /\ NothingSentYet'
  <2>1. OneAttempt'
    BY <1>7, <1>10 DEF OneAttempt
  <2>2. ASSUME NEW r \in Role, pc'[r] = "send",
               NEW u \in pool', u.call # "self", Key(u) = Key(tx'[r])
        PROVE  Key(u) \in forgotten'
    <3>1. u \in pool /\ pc[r] = "send" /\ tx'[r] = tx[r]
      BY <1>10, <2>2 DEF k
    <3>2. QED
      BY <2>2, <3>1 DEF NothingSentYet
  <2>3. QED
    BY <2>1, <2>2 DEF NothingSentYet
<1>12. NoncesAreTracked'
  <2>1. ASSUME NEW r \in Role, NEW j \in Mine(r)' PROVE pending'[j].tx.nonce \in tracked[r]
    <3>1. CASE j = k
      <4>1. k \in DOMAIN pending' /\ k[1] \in Ids[r]
        BY <2>1, <3>1 DEF Mine
      <4>2. r = role
        BY <1>5, <4>1, RolesAreApart
      <4>3. QED
        BY <1>7, <1>8, <3>1, <4>1, <4>2 DEF NoncesAreTracked
    <3>2. CASE j # k
      BY <1>7, <2>1, <3>2 DEF NoncesAreTracked, Mine
    <3>3. QED
      BY <3>1, <3>2
  <2>2. QED
    BY <1>10, <2>1 DEF NoncesAreTracked
<1>13. QED
  BY <1>4, <1>9, <1>11, <1>12

LEMMA CallEnds ==
  ASSUME KeeperInv, NEW role \in Role,
         SendFails(role) \/ Receipt(role) \/ ReceiptTimeout(role) \/ ReceiptError(role)
  PROVE  KeeperInv'
<1> USE DEF KeeperInv
<1>1. /\ pc[role] \in {"send", "wait"} /\ Finished(role)
      /\ UNCHANGED <<mined, price, tracked, head>>
      /\ UNCHANGED pool => ChainOK' /\ PoolOK'
  BY DEF SendFails, Receipt, ReceiptTimeout, ReceiptError, chain, market, ChainOK, PoolOK, latestCount
<1>2. CASE SendFails(role)
  <2>1. pc[role] = "send" /\ UNCHANGED pending
    BY <1>2 DEF SendFails
  <2>2. PendingOK'
    BY <2>1 DEF PendingOK
  <2>3. CASE UNCHANGED <<pool, forgotten>>
    BY <1>1, <2>1, <2>2, <2>3, FinishStep
  <2>4. CASE pool' = Broadcast(populate(role)) /\ forgotten' = forgotten \cup {Key(tx[role])}
    <3> DEFINE t == populate(role)
    <3>1. t \in Tx /\ t.nonce >= latestCount /\ Key(t) = Key(tx[role])
      BY <2>1, PopulateFits
    <3> HIDE DEF t
    <3>2. ChainOK' /\ PoolOK'
      BY <1>1, <2>4, <3>1, BroadcastKeepsPool DEF t
    <3>3. \A u \in pool' : u \in pool \/ u = t
      BY <2>4 DEF Broadcast, t
    <3>4. \A u \in pool' : u \in pool \/ (Key(u) = Key(tx[role]) /\ Key(u) \in forgotten')
      BY <2>4, <3>1, <3>3
    <3>5. forgotten \subseteq forgotten' /\ pc[role] # "wait"
      BY <2>1, <2>4
    <3>6. QED
      BY <1>1, <2>1, <2>2, <3>2, <3>4, <3>5, FinishStep
  <2>5. QED
    BY <1>2, <2>3, <2>4 DEF SendFails
<1>3. CASE Receipt(role)
  <2>1. /\ pc[role] = "wait" /\ UNCHANGED <<pool, pending, forgotten>>
        /\ probe_tx(tx[role]) \in {"landed", "reverted"}
    BY <1>3 DEF Receipt, chain
  <2>2. PendingOK'
    BY <2>1 DEF PendingOK
  <2>3. tx[role] \notin pool
    <3>1. \E n \in DOMAIN mined : n = tx[role].nonce + 1
      BY <2>1 DEF probe_tx
    <3>2. DOMAIN mined = 1 .. latestCount /\ latestCount \in Nat
      BY DEF ChainOK, latestCount
    <3>3. tx[role].nonce \in Nat
      BY <2>1 DEF LoopsOK, Tx
    <3>4. QED
      BY <3>1, <3>2, <3>3 DEF PoolOK
  <2>4. QED
    BY <1>1, <2>1, <2>2, <2>3, FinishStep
<1>4. CASE ReceiptTimeout(role)
  <2> DEFINE t == tx[role]
  <2>1. /\ pc[role] = "wait" /\ UNCHANGED <<pool, forgotten>>
        /\ pending' = Put(pending, Key(t), InFlight(t, {t}))
    BY <1>4 DEF ReceiptTimeout, note_failure, chain
  <2>2. t \in Tx /\ Key(t) \in Keys
    BY <2>1, CallKeys DEF LoopsOK
  <2>3. InFlight(t, {t}) \in Entry /\ InFlight(t, {t}).tx = t /\ InFlight(t, {t}).sent = {t}
    <3>1. t.fee * MAX_FEE_MULTIPLE \in Int
      BY <2>2, KeeperAssumption DEF Tx
    <3>2. QED
      BY <2>2, <3>1 DEF InFlight, Entry
  <2> HIDE DEF t
  <2>4. PendingOK'
    BY <2>1, <2>2, <2>3 DEF PendingOK, Put
  <2>5. QED
    BY <1>1, <2>1, <2>4, FinishStep DEF t
<1>5. CASE ReceiptError(role)
  <2>1. /\ pc[role] = "wait" /\ UNCHANGED <<pool, pending>>
        /\ forgotten' = forgotten \cup {Key(tx[role])}
    BY <1>5 DEF ReceiptError, chain
  <2>2. PendingOK'
    BY <2>1 DEF PendingOK
  <2>3. QED
    BY <1>1, <2>1, <2>2, FinishStep
<1>6. QED
  BY <1>2, <1>3, <1>4, <1>5

\* retain_seen: what is dropped is known to be forgotten.
LEMMA RetainStep ==
  ASSUME KeeperInv, NEW role \in Role, retain_seen(role)
  PROVE  KeeperInv'
<1> USE DEF KeeperInv
<1> DEFINE gone == {k \in Mine(role) : k[1] \notin seen[role]}
<1>1. /\ pc[role] = "records" /\ pending' = Forget(gone) /\ forgotten' = forgotten \cup gone
      /\ pc' = [pc EXCEPT ![role] = "head"]
      /\ UNCHANGED <<mined, pool, price, tx, tracked, head>>
  BY DEF retain_seen, Goto, chain, market
<1> HIDE DEF gone
<1>2. /\ DOMAIN pending' = DOMAIN pending \ gone
      /\ \A j \in DOMAIN pending' : pending'[j] = pending[j]
      /\ PendingOK'
  BY <1>1, ForgetKeeps
<1>3. ChainOK' /\ PoolOK' /\ LoopsOK'
  BY <1>1 DEF ChainOK, PoolOK, latestCount, LoopsOK
<1>4. \A r \in Role : pc[r] \in {"send", "wait"} <=> pc'[r] \in {"send", "wait"}
  BY <1>1 DEF LoopsOK
<1>5. \A r \in Role : pc[r] \in {"send", "wait"} => pc'[r] = pc[r]
  BY <1>1 DEF LoopsOK
<1>6. PoolIsRemembered'
  <2>1. ASSUME NEW t \in pool, t.call # "self" PROVE Remembered(t)'
    <3>1. Remembered(t)
      BY <2>1 DEF PoolIsRemembered
    <3>2. QED
      BY <1>1, <1>2, <1>5, <3>1 DEF Remembered
  <2>2. QED
    BY <1>1, <2>1 DEF PoolIsRemembered
<1>7. OneAttempt' /\ NothingSentYet'
  BY <1>1, <1>2, <1>4, <1>5 DEF OneAttempt, NothingSentYet
<1>8. NoncesAreTracked'
  BY <1>1, <1>2, <1>4, <1>5 DEF NoncesAreTracked, Mine
<1>9. QED
  BY <1>2, <1>3, <1>6, <1>7, <1>8

-----------------------------------------------------------------------------
(* The head watch *)

\* unwedge_head sends at most one self-transfer, at the head, and only where no loop tracks it.
LEMMA HeadChoices ==
  ASSUME KeeperInv, NEW role \in Role, unwedge_head(role) \/ NotLooked(role)
  PROVE  /\ EndTick(role)
         /\ head' \in Stalls \cup {NoStall}
         /\ \/ UNCHANGED pool
            \/ /\ ~ isTracked(role)
               /\ \E t \in Tx : t.call = "self" /\ t.nonce = latestCount /\ pool' = Broadcast(t)
<1> USE DEF KeeperInv
<1>1. EndTick(role) /\ head \in Stalls \cup {NoStall} /\ latestCount \in Nat /\ price \in Int
  BY KeeperAssumption DEF unwedge_head, NotLooked, LoopsOK, ChainOK, latestCount
<1>2. CASE NotLooked(role)
  BY <1>1, <1>2 DEF NotLooked
<1>3. CASE unwedge_head(role) /\ observe(role) = "Idle"
  BY <1>1, <1>3 DEF unwedge_head
<1>4. CASE unwedge_head(role) /\ observe(role) = "New"
  <2>1. head' = Stall /\ UNCHANGED pool
    BY <1>4 DEF unwedge_head
  <2>2. Stall \in Stalls
    BY <1>1 DEF Stall, Stalls
  <2>3. QED
    BY <1>1, <2>1, <2>2
<1>5. CASE unwedge_head(role) /\ observe(role) = "Wait"
  BY <1>1, <1>5 DEF unwedge_head
<1>6. ASSUME observe(role) \in {"Exhausted", "Replace"}
      PROVE  head \in Stalls /\ ~ isTracked(role)
  <2>1. ~ isTracked(role) /\ head.nonce = latestCount
    BY <1>6 DEF observe
  <2>2. head # NoStall
    BY <1>1, <2>1 DEF NoStall
  <2>3. QED
    BY <1>1, <2>1, <2>2
<1>7. CASE unwedge_head(role) /\ observe(role) = "Exhausted"
  <2>1. head' = [head EXCEPT !.due = FALSE] /\ UNCHANGED pool
    BY <1>7 DEF unwedge_head
  <2>2. QED
    BY <1>1, <1>6, <1>7, <2>1 DEF Stalls
<1>8. CASE unwedge_head(role) /\ observe(role) = "Replace"
  <2>1. PICK e \in {price, 0} : Replace(e)
    BY <1>8 DEF unwedge_head
  <2>2. head \in Stalls /\ e \in Int
    BY <1>1, <1>6, <1>8
  <2> DEFINE fee == head_replacement(e)
             cap == IF head.fee # 0 THEN head.ceiling ELSE e * MAX_FEE_MULTIPLE
             t == [call |-> "self", id |-> Self, nonce |-> latestCount, fee |-> fee]
             b == head.bumps + 1
  <2>3. fee \in Int /\ cap \in Int /\ b \in Nat
    <3>1. e * MAX_FEE_MULTIPLE \in Int /\ head.fee \in Int /\ head.ceiling \in Int /\ b \in Nat
      BY <2>2, KeeperAssumption DEF Stalls
    <3>2. QED
      BY <2>2, <3>1, FeeType DEF head_replacement
  <2>4. \/ head' = [head EXCEPT !.due = FALSE, !.bumps = MAX_FEE_BUMPS] /\ UNCHANGED pool
        \/ /\ head' = [head EXCEPT !.due = FALSE, !.bumps = b, !.fee = fee, !.ceiling = cap]
           /\ (pool' = Broadcast(t) \/ UNCHANGED pool)
    BY <2>1, <2>2 DEF Replace, Stalls
  <2> HIDE DEF fee, cap, b
  <2>5. t \in Tx /\ t.call = "self" /\ t.nonce = latestCount
    BY <1>1, <2>3 DEF Tx
  <2> HIDE DEF t
  <2>6. head' \in Stalls
    BY <2>2, <2>3, <2>4, KeeperAssumption DEF Stalls
  <2>7. QED
    BY <1>1, <1>6, <1>8, <2>4, <2>5, <2>6
<1>9. observe(role) \in {"Idle", "New", "Wait", "Exhausted", "Replace"}
  BY DEF observe
<1>10. QED
  BY <1>2, <1>3, <1>4, <1>5, <1>7, <1>8, <1>9

LEMMA HeadStep ==
  ASSUME KeeperInv, NEW role \in Role, unwedge_head(role) \/ NotLooked(role)
  PROVE  KeeperInv'
<1> USE DEF KeeperInv
<1>1. /\ pc[role] = "head" /\ pc' = [pc EXCEPT ![role] = "idle"]
      /\ tracked' = [tracked EXCEPT ![role] = nonces(role)]
      /\ UNCHANGED <<mined, price, tx, pending, forgotten>>
  BY HeadChoices DEF EndTick, Goto, market
<1>2. /\ head' \in Stalls \cup {NoStall}
      /\ \/ UNCHANGED pool
         \/ \E t \in Tx : t.call = "self" /\ t.nonce = latestCount /\ pool' = Broadcast(t)
  BY HeadChoices
<1>3. ChainOK' /\ PoolOK' /\ \A u \in pool' : u \in pool \/ u.call = "self"
  <2>1. CASE UNCHANGED pool
    BY <1>1, <2>1 DEF ChainOK, PoolOK, latestCount
  <2>2. ASSUME NEW t \in Tx, t.call = "self", t.nonce = latestCount, pool' = Broadcast(t)
        PROVE  ChainOK' /\ PoolOK' /\ \A u \in pool' : u \in pool \/ u.call = "self"
    <3>1. t.nonce >= latestCount
      BY <2>2 DEF Tx
    <3>2. QED
      BY <1>1, <2>2, <3>1, BroadcastKeepsPool DEF Broadcast
  <2>3. QED
    BY <1>2, <2>1, <2>2
<1>4. nonces(role) \subseteq Nat
  BY DEF nonces, Mine, PendingOK, Entry, Tx
<1>5. LoopsOK'
  BY <1>1, <1>2, <1>4 DEF LoopsOK
<1>6. \A r \in Role : pc'[r] \in {"send", "wait"} \/ pc[r] \in {"send", "wait"} => r # role /\ pc'[r] = pc[r]
  BY <1>1 DEF LoopsOK
<1>7. PendingOK' /\ OneAttempt'
  BY <1>1, <1>6 DEF PendingOK, OneAttempt
<1>8. PoolIsRemembered'
  BY <1>1, <1>3, <1>6 DEF PoolIsRemembered, Remembered
<1>9. NothingSentYet'
  BY <1>1, <1>3, <1>6 DEF NothingSentYet
<1>10. NoncesAreTracked'
  <2>1. \A r \in Role : tracked'[r] = IF r = role THEN nonces(role) ELSE tracked[r]
    BY <1>1 DEF LoopsOK
  <2>2. \A r \in Role : Mine(r)' = Mine(r)
    BY <1>1 DEF Mine
  <2>3. QED
    BY <1>1, <1>6, <2>1, <2>2 DEF NoncesAreTracked, nonces
<1>11. QED
  BY <1>3, <1>5, <1>7, <1>8, <1>9, <1>10

-----------------------------------------------------------------------------
(* The node, the clock and the crash *)

LEMMA NodeStep ==
  ASSUME KeeperInv, NEW t \in pool, Include(t) \/ Evict(t)
  PROVE  KeeperInv'
<1> USE DEF KeeperInv
<1>1. pool' = pool \ {t} /\ UNCHANGED <<price, pc, tx, pending, tracked, head, forgotten>>
  BY DEF Include, Evict, market
<1>2. IsFiniteSet(pool') /\ pool' \subseteq Tx
  BY <1>1, FS_RemoveElement DEF ChainOK
<1>3. \/ UNCHANGED mined
      \/ t.nonce = latestCount /\ \E b \in BOOLEAN : mined' = Append(mined, [tx |-> t, ok |-> b])
  <2>1. Works(t.call, t.id) \in BOOLEAN
    BY DEF Works
  <2>2. QED
    BY <2>1 DEF Include, Evict
<1>4. ChainOK'
  <2> DEFINE R == [tx : Tx, ok : BOOLEAN]
  <2>1. \A b \in BOOLEAN : [tx |-> t, ok |-> b] \in R
    BY DEF ChainOK
  <2>2. mined \in Seq(R)
    BY DEF ChainOK
  <2> HIDE DEF R
  <2>3. mined' \in Seq(R)
    <3>1. ASSUME NEW x \in R PROVE Append(mined, x) \in Seq(R)
      BY <2>2
    <3>2. QED
      BY <1>3, <2>1, <2>2, <3>1
  <2>4. QED
    BY <1>1, <1>2, <2>3 DEF ChainOK, R
<1>5. PoolOK'
  <2>1. CASE UNCHANGED mined
    BY <1>1, <2>1 DEF PoolOK, latestCount
  <2>2. ASSUME NEW b \in BOOLEAN, mined' = Append(mined, [tx |-> t, ok |-> b]), t.nonce = latestCount
        PROVE  PoolOK'
    <3>1. Len(mined') = Len(mined) + 1 /\ Len(mined) \in Nat
      BY <2>2 DEF ChainOK
    <3>2. \A u \in pool' : u.nonce # t.nonce /\ u.nonce >= Len(mined) /\ u.nonce \in Nat
      BY <1>1 DEF PoolOK, ChainOK, Tx, latestCount
    <3>3. QED
      BY <1>1, <2>2, <3>1, <3>2 DEF PoolOK, latestCount
  <2>3. QED
    BY <1>3, <2>1, <2>2
<1>6. LoopsOK' /\ PendingOK'
  BY <1>1 DEF LoopsOK, PendingOK
<1>7. PoolIsRemembered' /\ OneAttempt' /\ NothingSentYet' /\ NoncesAreTracked'
  BY <1>1 DEF PoolIsRemembered, Remembered, OneAttempt, NothingSentYet, NoncesAreTracked, Mine
<1>8. QED
  BY <1>4, <1>5, <1>6, <1>7

LEMMA WindowStep ==
  ASSUME KeeperInv, NEW k \in DOMAIN pending, TxWindow(k)
  PROVE  KeeperInv'
<1> USE DEF KeeperInv
<1>1. /\ pending' = [pending EXCEPT ![k].due = TRUE]
      /\ UNCHANGED <<mined, pool, price, pc, tx, tracked, head, forgotten>>
  BY DEF TxWindow, chain, market
<1>2. /\ DOMAIN pending' = DOMAIN pending
      /\ \A j \in DOMAIN pending : pending'[j] \in Entry /\ pending'[j].tx = pending[j].tx
                                   /\ pending'[j].sent = pending[j].sent
      /\ pending' = [j \in DOMAIN pending' |-> pending'[j]]
  BY <1>1 DEF PendingOK, Entry
<1>3. PendingOK'
  BY <1>2 DEF PendingOK
<1>4. ChainOK' /\ PoolOK' /\ LoopsOK'
  BY <1>1 DEF ChainOK, PoolOK, latestCount, LoopsOK
<1>5. PoolIsRemembered' /\ OneAttempt' /\ NothingSentYet' /\ NoncesAreTracked'
  BY <1>1, <1>2 DEF PoolIsRemembered, Remembered, OneAttempt, NothingSentYet, NoncesAreTracked, Mine
<1>6. QED
  BY <1>3, <1>4, <1>5

\* The loops as they start hold nothing.
LEMMA FreshLoops ==
  ASSUME NEW where, NEW records, NEW list, NEW call, NEW remembered, NEW nonce, NEW stall,
         Fresh(where, records, list, call, remembered, nonce, stall)
  PROVE  /\ where \in [Role -> {"connect"}] /\ call = [r \in Role |-> call[r]]
         /\ DOMAIN remembered = {} /\ remembered = [k \in DOMAIN remembered |-> remembered[k]]
         /\ nonce \in [Role -> SUBSET Nat] /\ stall = NoStall
BY DEF Fresh

LEMMA CrashStep ==
  ASSUME KeeperInv, Crash
  PROVE  KeeperInv'
<1> USE DEF KeeperInv
<1>1. /\ UNCHANGED <<mined, pool, price>>
      /\ DOMAIN pending \subseteq forgotten' /\ forgotten \subseteq forgotten'
      /\ \A r \in Role : pc[r] = "wait" => Key(tx[r]) \in forgotten'
  BY DEF Crash, chain, market
<1>2. /\ pc' \in [Role -> {"connect"}] /\ tx' = [r \in Role |-> tx'[r]]
      /\ DOMAIN pending' = {} /\ pending' = [k \in DOMAIN pending' |-> pending'[k]]
      /\ tracked' \in [Role -> SUBSET Nat] /\ head' = NoStall
  BY FreshLoops DEF Crash
<1>3. ChainOK' /\ PoolOK' /\ LoopsOK' /\ PendingOK'
  BY <1>1, <1>2 DEF ChainOK, PoolOK, latestCount, LoopsOK, PendingOK
<1>4. PoolIsRemembered'
  BY <1>1 DEF PoolIsRemembered, Remembered
<1>5. OneAttempt' /\ NothingSentYet' /\ NoncesAreTracked'
  BY <1>2 DEF OneAttempt, NothingSentYet, NoncesAreTracked, Mine
<1>6. QED
  BY <1>3, <1>4, <1>5

-----------------------------------------------------------------------------
(* The theorems *)

\* The loops start with nothing in hand and nothing in the pool.
LEMMA KeeperStarts ==
  ASSUME KeeperInit
  PROVE  KeeperInv
<1>1. /\ pc \in [Role -> {"connect"}] /\ tx = [r \in Role |-> tx[r]]
      /\ DOMAIN pending = {} /\ pending = [k \in DOMAIN pending |-> pending[k]]
      /\ tracked \in [Role -> SUBSET Nat] /\ head = NoStall
  BY FreshLoops DEF KeeperInit
<1>2. mined = << >> /\ pool = {} /\ price \in Price
  BY DEF KeeperInit
<1>3. ChainOK /\ PoolOK
  BY <1>2, FS_EmptySet DEF ChainOK, PoolOK
<1>4. LoopsOK /\ PendingOK
  BY <1>1 DEF LoopsOK, PendingOK
<1>5. PoolIsRemembered /\ OneAttempt /\ NothingSentYet /\ NoncesAreTracked
  BY <1>1, <1>2 DEF PoolIsRemembered, OneAttempt, NothingSentYet, NoncesAreTracked, Mine
<1>6. QED
  BY <1>3, <1>4, <1>5 DEF KeeperInv

\* Every step of the loops, the node, the market and the store keeps the invariant.
LEMMA KeeperStep ==
  ASSUME KeeperInv, [KeeperNext]_keeperVars
  PROVE  KeeperInv'
<1>1. CASE UNCHANGED keeperVars
  <2>1. /\ UNCHANGED <<mined, pool, tx, pending, tracked, forgotten, price, head, pc>>
        /\ price \in Price /\ head \in Stalls \cup {NoStall} /\ pc \in [Role -> Places]
    BY <1>1 DEF keeperVars, KeeperInv, ChainOK, LoopsOK, Places
  <2>2. QED
    BY <2>1, QuietStep
<1>2. ASSUME NEW role \in Role, Step(role)
      PROVE  KeeperInv'
  <2>1. CASE connect_gate(role) \/ BeginTick(role)
             \/ \E id \in Ids[role] : PassOver(role, id) \/ Unanswered(role, id)
    BY <2>1, QuietActions
  <2>2. CASE Send(role)
    BY <2>2, SendStep
  <2>3. CASE SendFails(role) \/ Receipt(role) \/ ReceiptTimeout(role) \/ ReceiptError(role)
    BY <2>3, CallEnds
  <2>4. CASE retain_seen(role)
    BY <2>4, RetainStep
  <2>5. CASE unwedge_head(role) \/ NotLooked(role)
    BY <2>5, HeadStep
  <2>6. CASE \E id \in Ids[role] : Try(role, id)
    BY <2>6, TryStep
  <2>7. CASE \E id \in Ids[role] : Wait(role, id)
    BY <2>7, ReplaceStep
  <2>8. QED
    BY <1>2, <2>1, <2>2, <2>3, <2>4, <2>5, <2>6, <2>7 DEF Step
<1>3. CASE \E t \in pool : Include(t) \/ Evict(t)
  BY <1>3, NodeStep
<1>4. CASE \/ \E p \in Price : MovePrice(p)
           \/ \E id \in DOMAIN slot : Other(id) \/ CancelQuorum(id) \/ Unlist(id)
           \/ HeadWindow
  BY <1>4, QuietActions
<1>5. CASE \E k \in DOMAIN pending : TxWindow(k)
  BY <1>5, WindowStep
<1>6. CASE Crash
  BY <1>6, CrashStep
<1>7. QED
  BY <1>1, <1>2, <1>3, <1>4, <1>5, <1>6 DEF KeeperNext

\* The keeper's memory and the node's pool agree in every reachable state.
THEOREM KeeperInvariant == KeeperSpec => []KeeperInv
<1>1. KeeperInit => KeeperInv
  BY KeeperStarts
<1>2. KeeperInv /\ [KeeperNext]_keeperVars => KeeperInv'
  BY KeeperStep
<1>3. QED
  BY <1>1, <1>2, PTL DEF KeeperSpec

\* What a loop remembers of one call is one attempt at one nonce.
LEMMA InvGivesNoCompetingTxs ==
  ASSUME KeeperInv
  PROVE  NoCompetingTxs
<1> USE DEF KeeperInv
<1> SUFFICES ASSUME NEW t \in pool, NEW u \in pool, t.nonce # u.nonce, Key(t) = Key(u),
                    t.call # "self", Key(t) \notin forgotten
             PROVE  FALSE
  BY DEF NoCompetingTxs
<1>1. u.call # "self"
  BY DEF Key, CallKind
<1>2. Remembered(t) /\ Remembered(u)
  BY <1>1 DEF PoolIsRemembered
<1>3. CASE Key(t) \in DOMAIN pending
  <2>1. ~ \E r \in Role : pc[r] = "wait" /\ (tx[r] = t \/ tx[r] = u)
    BY <1>3 DEF OneAttempt
  <2>2. t \in pending[Key(t)].sent /\ u \in pending[Key(t)].sent
    BY <1>2, <2>1 DEF Remembered
  <2>3. QED
    BY <1>3, <2>2 DEF PendingOK
<1>4. CASE Key(t) \notin DOMAIN pending
  <2>1. PICK r \in Role : pc[r] = "wait" /\ tx[r] = t
    BY <1>2, <1>4 DEF Remembered
  <2>2. PICK s \in Role : pc[s] = "wait" /\ tx[s] = u
    BY <1>2, <1>4 DEF Remembered
  <2>3. t.id \in Ids[r] /\ u.id \in Ids[s] /\ t.id = u.id
    BY <2>1, <2>2 DEF LoopsOK, Key
  <2>4. r = s
    BY <2>3, RolesAreApart
  <2>5. QED
    BY <2>1, <2>2, <2>4
<1>5. QED
  BY <1>3, <1>4

\* NoCompetingTxs, for any number of transfers, fee moves and failures: a late receipt never
\* makes a loop pay for the same claim, cancel or refund at a second nonce.
THEOREM NoCompetingTxsTheorem == KeeperSpec => []NoCompetingTxs
<1>1. KeeperInv => NoCompetingTxs
  BY InvGivesNoCompetingTxs
<1>2. QED
  BY <1>1, KeeperInvariant, PTL

\* Only unwedge_head sends a self-transfer, and only at a head that no loop tracks.
LEMMA OnlyHeadSendsSelf ==
  ASSUME KeeperInv, [KeeperNext]_keeperVars, NEW s \in pool', s \notin pool, s.call = "self"
  PROVE  \E role \in Role : pc[role] = "head" /\ ~ isTracked(role) /\ s.nonce = latestCount
<1>1. CASE \/ UNCHANGED keeperVars
           \/ \E t \in pool : Include(t) \/ Evict(t)
           \/ \E p \in Price : MovePrice(p)
           \/ \E id \in DOMAIN slot : Other(id) \/ CancelQuorum(id) \/ Unlist(id)
           \/ \E k \in DOMAIN pending : TxWindow(k)
           \/ HeadWindow \/ Crash
  BY <1>1 DEF keeperVars, Include, Evict, MovePrice, Other, CancelQuorum, Unlist, TxWindow,
              HeadWindow, Crash, chain
<1>2. ASSUME NEW role \in Role, Step(role)
      PROVE  pc[role] = "head" /\ ~ isTracked(role) /\ s.nonce = latestCount
  <2>1. CASE connect_gate(role) \/ BeginTick(role) \/ Receipt(role)
             \/ ReceiptTimeout(role) \/ ReceiptError(role) \/ retain_seen(role)
             \/ \E id \in Ids[role] : PassOver(role, id) \/ Try(role, id) \/ Unanswered(role, id)
    BY <2>1 DEF connect_gate, BeginTick, Receipt, ReceiptTimeout, ReceiptError,
                retain_seen, PassOver, Try, Unanswered, chain
  <2>2. CASE Send(role) \/ SendFails(role)
    <3> DEFINE t == populate(role)
    <3>1. pc[role] = "send" /\ (UNCHANGED pool \/ pool' = Broadcast(t))
      BY <2>2 DEF Send, SendFails
    <3>2. t.call # "self"
      BY <3>1, PopulateFits
    <3> HIDE DEF t
    <3>3. QED
      BY <3>1, <3>2 DEF Broadcast
  <2>3. ASSUME NEW id \in Ids[role], Wait(role, id)
        PROVE  FALSE
    <3> DEFINE k == <<id, Wanted(id)>>
    <3>1. k \in DOMAIN pending /\ k \in Keys /\ pending[k] \in Entry /\ Key(pending[k].tx) = k
          /\ price \in Int
      BY <2>3, KeeperAssumption DEF Wait, may_submit, KeeperInv, PendingOK, ChainOK
    <3>2. PICK e \in {price, 0} : maybe_replace(k, e) \/ replace_unanswered(k, e)
      BY <2>3 DEF Wait
    <3> HIDE DEF k
    <3> DEFINE t == reprice(pending[k].tx, e, pending[k].ceiling)
    <3>3. Key(t) = k
      <4>1. e \in Int /\ pending[k].ceiling \in Int /\ pending[k].tx \in Tx
        BY <3>1 DEF Entry
      <4>2. QED
        BY <3>1, <4>1, RepriceKeeps
    <3>4. t.call # "self"
      BY <3>1, <3>3 DEF Key, CallKind, Keys
    <3>5. UNCHANGED pool \/ pool' = Broadcast(t)
      BY <3>2 DEF maybe_replace, replace_unanswered
    <3> HIDE DEF t
    <3>6. QED
      BY <3>4, <3>5 DEF Broadcast
  <2>4. CASE unwedge_head(role) \/ NotLooked(role)
    <3>1. pc[role] = "head"
      BY <2>4, HeadChoices DEF EndTick
    <3>2. ~ isTracked(role) /\ \E t \in Tx : t.nonce = latestCount /\ pool' = Broadcast(t)
      BY <2>4, HeadChoices
    <3>3. QED
      BY <3>1, <3>2 DEF Broadcast
  <2>5. QED
    BY <1>2, <2>1, <2>2, <2>3, <2>4 DEF Step
<1>3. QED
  BY <1>1, <1>2 DEF KeeperNext

\* HeadSparesTracked as one step: what a loop waits for or keeps is at a tracked nonce.
LEMMA SparingStep ==
  ASSUME KeeperInv, [KeeperNext]_keeperVars,
         NEW t \in pool, t \notin pool', t.call # "self",
         NEW s \in pool', s.nonce = t.nonce, s.call = "self"
  PROVE  /\ \A r \in Role : pc[r] = "wait" => tx[r] # t
         /\ \A k \in DOMAIN pending : t \notin pending[k].sent
<1> USE DEF KeeperInv
<1>1. s \notin pool
  BY DEF PoolOK
<1>2. PICK role \in Role : pc[role] = "head" /\ ~ isTracked(role) /\ t.nonce = latestCount
  BY <1>1, OnlyHeadSendsSelf
<1>3. ASSUME NEW r \in Role, pc[r] = "wait", tx[r] = t
      PROVE  FALSE
  <2>1. r # role /\ t.nonce \in tracked[r]
    BY <1>2, <1>3 DEF NoncesAreTracked
  <2>2. QED
    BY <1>2, <2>1 DEF isTracked
<1>4. ASSUME NEW k \in DOMAIN pending, t \in pending[k].sent
      PROVE  FALSE
  <2>1. pending[k].tx.nonce = latestCount /\ k \in Keys
    BY <1>2, <1>4 DEF PendingOK
  <2>2. PICK r \in Role : k[1] \in Ids[r]
    BY <2>1 DEF Keys, Ids, Role
  <2>3. k \in Mine(r)
    BY <2>2 DEF Mine
  <2>4. latestCount \in tracked[r] /\ latestCount \in nonces(r)
    BY <2>1, <2>3 DEF NoncesAreTracked, nonces
  <2>5. QED
    BY <1>2, <2>4 DEF isTracked
<1>5. QED
  BY <1>3, <1>4

\* HeadSparesTracked, for any interleaving of the two loops: the self-transfer that clears a
\* stuck nonce never takes the place of a transaction one of them is looking after.
THEOREM HeadSparesTrackedTheorem == KeeperSpec => HeadSparesTracked
<1> DEFINE Spares ==
      \A t \in pool :
        /\ t \notin pool' /\ t.call # "self"
        /\ \E s \in pool' : s.nonce = t.nonce /\ s.call = "self"
        => /\ \A r \in Role : pc[r] = "wait" => tx[r] # t
           /\ \A k \in DOMAIN pending : t \notin pending[k].sent
<1>1. KeeperInv /\ [KeeperNext]_keeperVars => [Spares]_keeperVars
  BY SparingStep
<1>2. QED
  BY <1>1, KeeperInvariant, PTL DEF KeeperSpec, HeadSparesTracked

-----------------------------------------------------------------------------
(* The router (SwapRouter).                                                  *)

Transfers == Incoming \cup Outgoing
Stages == {"open", "executed", "cancelled", "sent", "refunded"}
Notice == [amount: Nat \ {0}, readyAt: Nat \ {0}, freeAtSchedule: Int, scheduledAt: Nat \ {0},
           settledOutAtSchedule: Int]

RouterTypeOK ==
  /\ traffic \subseteq Transfers /\ transit \in [traffic -> Stages]
  /\ held \in Int /\ owedStable \in Int /\ stableSettledOut \in Int
  /\ finalized \subseteq Incoming /\ deferredSince \in [Incoming -> Nat]
  /\ refundOf \subseteq Outgoing /\ exposed \subseteq Transfers
  /\ pendingStableRescue \in Notice \cup {NoRescue}
  /\ clock \in Nat \ {0} /\ swept \in BOOLEAN

\* Only what the gate has paid out is ever deferred.
DeferredInv ==
  \A t \in traffic \cap Incoming : deferredSince[t] # 0 => transit[t] = "executed"

\* What a notice counted as free was deferred, if at all, after it.
NoticeInv ==
  pendingStableRescue.readyAt # 0 =>
    /\ pendingStableRescue.scheduledAt <= clock
    /\ \A t \in exposed \cap Incoming :
         deferredSince[t] # 0 => deferredSince[t] >= pendingStableRescue.scheduledAt

\* What the pending rescue may still take leaves everything the notice did not count.
CapInv ==
  pendingStableRescue.readyAt # 0 /\ ~swept =>
    held + (stableSettledOut - pendingStableRescue.settledOutAtSchedule)
       - pendingStableRescue.freeAtSchedule >= Total(Due \ exposed)

Owing == {t \in Due \cap Incoming : deferredSince[t] # 0}
BooksInv ==
  /\ owedStable = Total(Owing)
  /\ ~ swept => held >= Total(Due)

RouterInv == RouterTypeOK /\ DeferredInv /\ NoticeInv /\ CapInv /\ BooksInv

-----------------------------------------------------------------------------
LEMMA WorthType == \A t \in Transfers : Worth[t] \in Nat \ {0}
BY RouterAssumption DEF Transfers

LEMMA TotalType == ASSUME NEW S \in SUBSET Transfers PROVE IsFiniteSet(S) /\ Total(S) \in Int
<1>1. IsFiniteSet(S) /\ \A x \in S : Worth[x] \in Int
  BY RouterAssumption, WorthType, FS_Subset DEF Transfers
<1>2. QED
  BY <1>1, SumType DEF Total

LEMMA TotalWith ==
  ASSUME NEW S \in SUBSET Transfers, NEW t \in Transfers, t \notin S
  PROVE  Total(S \cup {t}) = Total(S) + Worth[t]
<1>1. IsFiniteSet(S) /\ \A x \in S \cup {t} : Worth[x] \in Int
  BY TotalType, WorthType
<1>2. QED
  BY <1>1, SumWith DEF Total

LEMMA TotalWithout ==
  ASSUME NEW S \in SUBSET Transfers, NEW t \in S
  PROVE  Total(S \ {t}) = Total(S) - Worth[t]
<1>1. IsFiniteSet(S) /\ \A x \in S : Worth[x] \in Int
  BY TotalType, WorthType
<1>2. QED
  BY <1>1, SumWithout DEF Total

LEMMA DueType ==
  ASSUME RouterTypeOK PROVE Due \in SUBSET Transfers /\ Owing \in SUBSET Transfers
BY DEF RouterTypeOK, Due, Owing, Transfers

\* What is due is due once: a transfer that arrives adds its worth, and one that is
\* paid takes it away, from what is due and from what a notice did not count.
LEMMA Arrival ==
  ASSUME RouterTypeOK, NEW t \in Transfers, t \notin Due, NEW E
  PROVE  /\ Total(Due \cup {t}) = Total(Due) + Worth[t]
         /\ Total((Due \cup {t}) \ E) <= Total(Due \ E) + Worth[t]
         /\ Total(Due) \in Int /\ Total(Due \ E) \in Int /\ Worth[t] \in Nat
<1>1. Due \in SUBSET Transfers /\ Due \ E \in SUBSET Transfers
  BY DueType
<1>2. /\ Total(Due) \in Int /\ Total(Due \ E) \in Int /\ Worth[t] \in Nat
  BY <1>1, TotalType, WorthType
<1>3. Total(Due \cup {t}) = Total(Due) + Worth[t]
  BY <1>1, TotalWith
<1>4. CASE t \in E
  <2>1. (Due \cup {t}) \ E = Due \ E
    BY <1>4
  <2>2. Total((Due \cup {t}) \ E) = Total(Due \ E)
    BY <2>1
  <2>3. QED
    BY <1>2, <1>3, <2>2
<1>5. CASE t \notin E
  <2>1. (Due \cup {t}) \ E = (Due \ E) \cup {t} /\ t \notin Due \ E
    BY <1>5
  <2>2. Total((Due \ E) \cup {t}) = Total(Due \ E) + Worth[t]
    BY <1>1, <2>1, TotalWith
  <2>3. Total((Due \cup {t}) \ E) = Total(Due \ E) + Worth[t]
    BY <2>1, <2>2
  <2>4. QED
    BY <1>2, <1>3, <2>3
<1>6. QED
  BY <1>4, <1>5

LEMMA Payment ==
  ASSUME RouterTypeOK, NEW t \in Due, NEW E
  PROVE  /\ Total(Due \ {t}) = Total(Due) - Worth[t]
         /\ Total((Due \ {t}) \ E) <= Total(Due \ E)
         /\ t \notin E => Total((Due \ {t}) \ E) = Total(Due \ E) - Worth[t]
         /\ Total(Due) \in Int /\ Total(Due \ E) \in Int /\ Worth[t] \in Nat
<1>1. Due \in SUBSET Transfers /\ Due \ E \in SUBSET Transfers /\ t \in Transfers
  BY DueType
<1>2. /\ Total(Due) \in Int /\ Total(Due \ E) \in Int /\ Worth[t] \in Nat
  BY <1>1, TotalType, WorthType
<1>3. Total(Due \ {t}) = Total(Due) - Worth[t]
  BY <1>1, TotalWithout
<1>4. CASE t \in E
  <2>1. (Due \ {t}) \ E = Due \ E
    BY <1>4
  <2>2. Total((Due \ {t}) \ E) = Total(Due \ E)
    BY <2>1
  <2>3. QED
    BY <1>2, <1>3, <1>4, <2>2
<1>5. CASE t \notin E
  <2>1. (Due \ {t}) \ E = (Due \ E) \ {t} /\ t \in Due \ E
    BY <1>5
  <2>2. Total((Due \ E) \ {t}) = Total(Due \ E) - Worth[t]
    BY <1>1, <2>1, TotalWithout
  <2>3. Total((Due \ {t}) \ E) = Total(Due \ E) - Worth[t]
    BY <2>1, <2>2
  <2>4. QED
    BY <1>2, <1>3, <2>3
<1>6. QED
  BY <1>4, <1>5

-----------------------------------------------------------------------------
(* What each kind of movement does to the books.                              *)

Solvent == ~ swept => held >= Total(Due)

\* Nothing due comes or goes.
LEMMA NothingMoves ==
  ASSUME RouterInv, UNCHANGED rescueVars, Due' = Due,
         held' \in Int, stableSettledOut' \in Int, held' >= held, stableSettledOut' >= stableSettledOut
  PROVE  CapInv' /\ Solvent'
<1>1. swept' = swept /\ exposed' = exposed /\ pendingStableRescue' = pendingStableRescue
  BY DEF rescueVars
<1>2. /\ held \in Int /\ stableSettledOut \in Int
      /\ pendingStableRescue.readyAt # 0 => /\ pendingStableRescue.settledOutAtSchedule \in Int
                                            /\ pendingStableRescue.freeAtSchedule \in Int
  BY DEF RouterInv, RouterTypeOK, Notice, NoRescue
<1>3. Total(Due) \in Int /\ Total(Due \ exposed) \in Int
  BY DueType, TotalType DEF RouterInv
<1>4. Solvent'
  BY <1>1, <1>2, <1>3 DEF RouterInv, BooksInv, Solvent
<1>5. CapInv'
  BY <1>1, <1>2, <1>3 DEF RouterInv, CapInv
<1>6. QED
  BY <1>4, <1>5

\* Stable arrives and is due.
LEMMA ArrivalKeeps ==
  ASSUME RouterInv, UNCHANGED <<rescueVars, stableSettledOut>>, NEW t \in Transfers, t \notin Due,
         Due' = Due \cup {t}, held' = held + Worth[t]
  PROVE  CapInv' /\ Solvent'
<1>1. swept' = swept /\ exposed' = exposed /\ pendingStableRescue' = pendingStableRescue
      /\ stableSettledOut' = stableSettledOut
  BY DEF rescueVars
<1>2. /\ held \in Int /\ stableSettledOut \in Int
      /\ pendingStableRescue.readyAt # 0 => /\ pendingStableRescue.settledOutAtSchedule \in Int
                                            /\ pendingStableRescue.freeAtSchedule \in Int
  BY DEF RouterInv, RouterTypeOK, Notice, NoRescue
<1>3. /\ Total(Due') = Total(Due) + Worth[t]
      /\ Total(Due' \ exposed) <= Total(Due \ exposed) + Worth[t]
      /\ Total(Due) \in Int /\ Total(Due \ exposed) \in Int /\ Worth[t] \in Nat
  BY Arrival DEF RouterInv
<1>4. Total(Due' \ exposed) \in Int
  <2>1. Due' \ exposed \in SUBSET Transfers
    BY DueType DEF RouterInv
  <2>2. QED
    BY <2>1, TotalType
<1>5. Solvent'
  BY <1>1, <1>2, <1>3 DEF RouterInv, BooksInv, Solvent
<1>6. CapInv'
  BY <1>1, <1>2, <1>3, <1>4 DEF RouterInv, CapInv
<1>7. QED
  BY <1>5, <1>6

\* What was due is paid: the cap is debited, or had never counted it.
LEMMA PaymentKeeps ==
  ASSUME RouterInv, UNCHANGED rescueVars, NEW t \in Due,
         Due' = Due \ {t}, held' = held - Worth[t],
         \/ stableSettledOut' = stableSettledOut + Worth[t]
         \/ stableSettledOut' = stableSettledOut /\ t \notin exposed
  PROVE  CapInv' /\ Solvent'
<1>1. swept' = swept /\ exposed' = exposed /\ pendingStableRescue' = pendingStableRescue
  BY DEF rescueVars
<1>2. /\ held \in Int /\ stableSettledOut \in Int
      /\ pendingStableRescue.readyAt # 0 => /\ pendingStableRescue.settledOutAtSchedule \in Int
                                            /\ pendingStableRescue.freeAtSchedule \in Int
  BY DEF RouterInv, RouterTypeOK, Notice, NoRescue
<1>3. /\ Total(Due') = Total(Due) - Worth[t]
      /\ Total(Due' \ exposed) <= Total(Due \ exposed)
      /\ t \notin exposed => Total(Due' \ exposed) = Total(Due \ exposed) - Worth[t]
      /\ Total(Due) \in Int /\ Total(Due \ exposed) \in Int /\ Worth[t] \in Nat
  BY Payment DEF RouterInv
<1>4. Total(Due' \ exposed) \in Int
  <2>1. Due' \ exposed \in SUBSET Transfers
    BY DueType DEF RouterInv
  <2>2. QED
    BY <2>1, TotalType
<1>5. Solvent'
  BY <1>1, <1>2, <1>3 DEF RouterInv, BooksInv, Solvent
<1>6. CapInv'
  BY <1>1, <1>2, <1>3, <1>4 DEF RouterInv, CapInv
<1>7. QED
  BY <1>5, <1>6

-----------------------------------------------------------------------------
(* The gates, the pool and time.                                              *)

LEMMA GateClaimKeeps == ASSUME RouterInv, NEW t \in traffic, gate_claim(t) PROVE RouterInv'
<1>1. /\ t \in Incoming /\ transit[t] = "open" /\ transit' = [transit EXCEPT ![t] = "executed"]
      /\ held' = held + Worth[t] /\ traffic' = traffic /\ finalized' = finalized
      /\ deferredSince' = deferredSince /\ refundOf' = refundOf /\ owedStable' = owedStable
      /\ UNCHANGED <<rescueVars, stableSettledOut>> /\ exposed' = exposed /\ clock' = clock
      /\ stableSettledOut' = stableSettledOut /\ pendingStableRescue' = pendingStableRescue /\ swept' = swept
  BY DEF gate_claim, books, rescueVars, world
<1>2. RouterTypeOK /\ t \in Transfers /\ Worth[t] \in Nat /\ t \notin Outgoing
  BY <1>1, WorthType, RouterAssumption DEF RouterInv, Transfers
<1>3. transit' \in [traffic -> Stages] /\ transit'[t] = "executed"
      /\ \A u \in traffic \ {t} : transit'[u] = transit[u]
  BY <1>1, <1>2 DEF RouterTypeOK, Stages
<1>4. RouterTypeOK' /\ DeferredInv' /\ NoticeInv'
  BY <1>1, <1>2, <1>3 DEF RouterInv, RouterTypeOK, DeferredInv, NoticeInv
<1>5. deferredSince[t] = 0 /\ t \notin Due
  BY <1>1, <1>2 DEF RouterInv, DeferredInv, Due, RouterTypeOK
<1>6. Due' = Due \/ Due' = Due \cup {t}
  BY <1>1, <1>2, <1>3 DEF Due, RouterTypeOK
<1>7. CapInv' /\ Solvent'
  <2>1. CASE Due' = Due
    BY <1>1, <1>2, <2>1, NothingMoves DEF RouterTypeOK
  <2>2. CASE Due' = Due \cup {t}
    BY <1>1, <1>2, <1>5, <2>2, ArrivalKeeps
  <2>3. QED
    BY <1>6, <2>1, <2>2
<1>8. Owing' = Owing
  BY <1>1, <1>5, <1>6 DEF Owing
<1>9. QED
  BY <1>1, <1>4, <1>7, <1>8 DEF RouterInv, BooksInv, Solvent

LEMMA GateCancelKeeps == ASSUME RouterInv, NEW t \in traffic, gate_cancel(t) PROVE RouterInv'
<1>1. /\ t \in Incoming /\ transit[t] = "open" /\ transit' = [transit EXCEPT ![t] = "cancelled"]
      /\ held' = held /\ traffic' = traffic /\ finalized' = finalized
      /\ deferredSince' = deferredSince /\ refundOf' = refundOf /\ owedStable' = owedStable
      /\ UNCHANGED rescueVars /\ exposed' = exposed /\ clock' = clock
      /\ stableSettledOut' = stableSettledOut /\ pendingStableRescue' = pendingStableRescue /\ swept' = swept
  BY DEF gate_cancel, books, rescueVars, world
<1>2. RouterTypeOK
  BY DEF RouterInv
<1>3. transit' \in [traffic -> Stages] /\ transit'[t] = "cancelled"
      /\ \A u \in traffic \ {t} : transit'[u] = transit[u]
  BY <1>1, <1>2 DEF RouterTypeOK, Stages
<1>4. RouterTypeOK' /\ DeferredInv' /\ NoticeInv'
  BY <1>1, <1>2, <1>3 DEF RouterInv, RouterTypeOK, DeferredInv, NoticeInv
<1>5. Due' = Due
  BY <1>1, <1>2, <1>3 DEF Due, RouterTypeOK
<1>6. Owing' = Owing
  BY <1>1, <1>5 DEF Owing
<1>7. CapInv' /\ Solvent'
  BY <1>1, <1>2, <1>5, NothingMoves DEF RouterTypeOK
<1>8. QED
  BY <1>1, <1>4, <1>6, <1>7 DEF RouterInv, BooksInv, Solvent

LEMMA GateRefundKeeps == ASSUME RouterInv, NEW t \in traffic, gate_refund(t) PROVE RouterInv'
<1>1. /\ t \in Outgoing /\ transit[t] = "sent" /\ transit' = [transit EXCEPT ![t] = "refunded"]
      /\ held' = held + Worth[t] /\ traffic' = traffic /\ finalized' = finalized
      /\ deferredSince' = deferredSince /\ refundOf' = refundOf /\ owedStable' = owedStable
      /\ UNCHANGED <<rescueVars, stableSettledOut>> /\ exposed' = exposed /\ clock' = clock
      /\ stableSettledOut' = stableSettledOut /\ pendingStableRescue' = pendingStableRescue /\ swept' = swept
  BY DEF gate_refund, books, rescueVars, world
<1>2. RouterTypeOK /\ t \in Transfers /\ Worth[t] \in Nat /\ t \notin Incoming
  BY <1>1, WorthType, RouterAssumption DEF RouterInv, Transfers
<1>3. transit' \in [traffic -> Stages] /\ transit'[t] = "refunded"
      /\ \A u \in traffic \ {t} : transit'[u] = transit[u]
  BY <1>1, <1>2 DEF RouterTypeOK, Stages
<1>4. RouterTypeOK' /\ DeferredInv' /\ NoticeInv'
  BY <1>1, <1>2, <1>3 DEF RouterInv, RouterTypeOK, DeferredInv, NoticeInv
<1>5. t \notin Due
  BY <1>1, <1>2 DEF Due
<1>6. Due' = Due \/ Due' = Due \cup {t}
  BY <1>1, <1>2, <1>3 DEF Due, RouterTypeOK
<1>7. CapInv' /\ Solvent'
  <2>1. CASE Due' = Due
    BY <1>1, <1>2, <2>1, NothingMoves DEF RouterTypeOK
  <2>2. CASE Due' = Due \cup {t}
    BY <1>1, <1>2, <1>5, <2>2, ArrivalKeeps
  <2>3. QED
    BY <1>6, <2>1, <2>2
<1>8. Owing' = Owing
  BY <1>1, <1>2, <1>6 DEF Owing
<1>9. QED
  BY <1>1, <1>4, <1>7, <1>8 DEF RouterInv, BooksInv, Solvent

LEMMA WorldKeeps ==
  ASSUME RouterInv, clock' \in Nat, clock' >= clock,
         UNCHANGED <<traffic, transit, held, books, refundOf, rescueVars>>
  PROVE  RouterInv'
<1>1. /\ transit' = transit /\ held' = held /\ traffic' = traffic /\ finalized' = finalized
      /\ deferredSince' = deferredSince /\ refundOf' = refundOf /\ owedStable' = owedStable
      /\ UNCHANGED rescueVars /\ exposed' = exposed
      /\ stableSettledOut' = stableSettledOut /\ pendingStableRescue' = pendingStableRescue /\ swept' = swept
  BY DEF books, rescueVars
<1>2. Due' = Due /\ Owing' = Owing
  BY <1>1 DEF Due, Owing
<1>3. CapInv' /\ Solvent'
  BY <1>1, <1>2, NothingMoves DEF RouterInv, RouterTypeOK
<1>4. RouterTypeOK' /\ DeferredInv'
  BY <1>1 DEF RouterInv, RouterTypeOK, DeferredInv
<1>5. NoticeInv'
  BY <1>1 DEF RouterInv, RouterTypeOK, NoticeInv, Notice, NoRescue
<1>6. QED
  BY <1>1, <1>2, <1>3, <1>4, <1>5 DEF RouterInv, BooksInv, Solvent

-----------------------------------------------------------------------------
(* The source leg.                                                            *)

LEMMA SwapAndBridgeKeeps == ASSUME RouterInv, NEW t \in traffic, swapAndBridge(t) PROVE RouterInv'
<1>1. /\ t \in Outgoing /\ transit[t] = "open" /\ transit' = [transit EXCEPT ![t] = "sent"]
      /\ held' = held /\ traffic' = traffic /\ finalized' = finalized
      /\ deferredSince' = deferredSince /\ refundOf' = refundOf \cup {t} /\ owedStable' = owedStable
      /\ UNCHANGED rescueVars /\ exposed' = exposed /\ clock' = clock
      /\ stableSettledOut' = stableSettledOut /\ pendingStableRescue' = pendingStableRescue /\ swept' = swept
  BY DEF swapAndBridge, books, rescueVars, world
<1>2. RouterTypeOK /\ t \notin Incoming
  BY <1>1, RouterAssumption DEF RouterInv
<1>3. transit' \in [traffic -> Stages] /\ transit'[t] = "sent"
      /\ \A u \in traffic \ {t} : transit'[u] = transit[u]
  BY <1>1, <1>2 DEF RouterTypeOK, Stages
<1>4. RouterTypeOK' /\ DeferredInv' /\ NoticeInv'
  BY <1>1, <1>2, <1>3 DEF RouterInv, RouterTypeOK, DeferredInv, NoticeInv
<1>5. Due' = Due
  BY <1>1, <1>2, <1>3 DEF Due, RouterTypeOK
<1>6. Owing' = Owing
  BY <1>1, <1>5 DEF Owing
<1>7. CapInv' /\ Solvent'
  BY <1>1, <1>2, <1>5, NothingMoves DEF RouterTypeOK
<1>8. QED
  BY <1>1, <1>4, <1>6, <1>7 DEF RouterInv, BooksInv, Solvent

LEMMA ForwardRefundKeeps == ASSUME RouterInv, NEW t \in traffic, forwardRefund(t) PROVE RouterInv'
<1>1. /\ t \in Outgoing /\ transit[t] = "refunded" /\ transit' = transit
      /\ t \in refundOf /\ refundOf' = refundOf \ {t}
      /\ held' = held - Worth[t] /\ traffic' = traffic /\ finalized' = finalized
      /\ deferredSince' = deferredSince /\ owedStable' = owedStable
      /\ UNCHANGED rescueVars /\ exposed' = exposed /\ clock' = clock
      /\ stableSettledOut' = stableSettledOut + Worth[t]
      /\ pendingStableRescue' = pendingStableRescue /\ swept' = swept
  BY DEF forwardRefund, PayRefund, rescueVars, world
<1>2. RouterTypeOK /\ t \in Transfers /\ Worth[t] \in Nat /\ t \notin Incoming
  BY <1>1, WorthType, RouterAssumption DEF RouterInv, Transfers
<1>3. RouterTypeOK' /\ DeferredInv' /\ NoticeInv'
  BY <1>1, <1>2 DEF RouterInv, RouterTypeOK, DeferredInv, NoticeInv
<1>4. t \in Due /\ Due' = Due \ {t}
  BY <1>1, <1>2 DEF Due
<1>5. Owing' = Owing
  BY <1>1, <1>2, <1>4 DEF Owing
<1>6. CapInv' /\ Solvent'
  BY <1>1, <1>4, PaymentKeeps
<1>7. QED
  BY <1>1, <1>3, <1>5, <1>6 DEF RouterInv, BooksInv, Solvent

LEMMA RefundAndForwardKeeps == ASSUME RouterInv, NEW t \in traffic, refundAndForward(t) PROVE RouterInv'
<1>1. /\ t \in Outgoing /\ transit[t] = "sent" /\ transit' = [transit EXCEPT ![t] = "refunded"]
      /\ t \in refundOf /\ refundOf' = refundOf \ {t}
      /\ held' = (held + Worth[t]) - Worth[t] /\ traffic' = traffic /\ finalized' = finalized
      /\ deferredSince' = deferredSince /\ owedStable' = owedStable
      /\ UNCHANGED rescueVars /\ exposed' = exposed /\ clock' = clock
      /\ stableSettledOut' = stableSettledOut + Worth[t]
      /\ pendingStableRescue' = pendingStableRescue /\ swept' = swept
  BY DEF refundAndForward, PayRefund, rescueVars, world
<1>2. RouterTypeOK /\ t \in Transfers /\ Worth[t] \in Nat /\ t \notin Incoming
  BY <1>1, WorthType, RouterAssumption DEF RouterInv, Transfers
<1>3. transit' \in [traffic -> Stages] /\ transit'[t] = "refunded"
      /\ \A u \in traffic \ {t} : transit'[u] = transit[u]
  BY <1>1, <1>2 DEF RouterTypeOK, Stages
<1>4. held' = held /\ held \in Int /\ stableSettledOut \in Int
  BY <1>1, <1>2 DEF RouterTypeOK
<1>5. RouterTypeOK' /\ DeferredInv' /\ NoticeInv'
  BY <1>1, <1>2, <1>3, <1>4 DEF RouterInv, RouterTypeOK, DeferredInv, NoticeInv
<1>6. Due' = Due
  BY <1>1, <1>2, <1>3 DEF Due, RouterTypeOK
<1>7. Owing' = Owing
  BY <1>1, <1>6 DEF Owing
<1>8. CapInv' /\ Solvent'
  BY <1>1, <1>2, <1>4, <1>6, NothingMoves
<1>9. QED
  BY <1>1, <1>5, <1>7, <1>8 DEF RouterInv, BooksInv, Solvent

-----------------------------------------------------------------------------
(* The destination leg.                                                       *)

\* Delivery of what the router already held.
LEMMA DeliverKeeps ==
  ASSUME RouterInv, NEW t \in traffic, t \in Incoming, transit[t] = "executed", t \notin finalized,
         Intent[t] # "malformed", Deliver(t, held),
         UNCHANGED <<transit, traffic, refundOf, rescueVars, world>>
  PROVE  RouterInv'
<1>1. /\ held' = held - Worth[t] /\ finalized' = finalized \cup {t} /\ deferredSince' = deferredSince
      /\ owedStable' = IF deferredSince[t] # 0 THEN owedStable - Worth[t] ELSE owedStable
      /\ stableSettledOut' = IF debits(deferredSince[t]) THEN stableSettledOut + Worth[t]
                                                         ELSE stableSettledOut
      /\ transit' = transit /\ traffic' = traffic /\ refundOf' = refundOf
      /\ exposed' = exposed /\ pendingStableRescue' = pendingStableRescue /\ swept' = swept /\ clock' = clock
  BY DEF Deliver, rescueVars, world
<1>2. RouterTypeOK /\ t \in Transfers /\ Worth[t] \in Nat /\ t \notin Outgoing
  BY WorthType, RouterAssumption DEF RouterInv, Transfers
<1>3. held' \in Int /\ owedStable' \in Int /\ stableSettledOut' \in Int
  BY <1>1, <1>2 DEF RouterTypeOK
<1>4. RouterTypeOK' /\ DeferredInv' /\ NoticeInv'
  BY <1>1, <1>2, <1>3 DEF RouterInv, RouterTypeOK, DeferredInv, NoticeInv
<1>5. t \in Due /\ Due' = Due \ {t}
  BY <1>1, <1>2 DEF Due, RouterTypeOK
<1>6. CapInv' /\ Solvent'
  <2>1. CASE debits(deferredSince[t])
    BY <1>1, <1>5, <2>1, PaymentKeeps
  <2>2. CASE ~debits(deferredSince[t])
    <3>1. /\ deferredSince[t] # 0 /\ pendingStableRescue.scheduledAt # 0
          /\ ~(deferredSince[t] >= pendingStableRescue.scheduledAt)
      BY <2>2 DEF debits
    <3>2. pendingStableRescue.readyAt # 0
      BY <1>2, <3>1 DEF RouterTypeOK, Notice, NoRescue
    <3>3. t \notin exposed
      BY <3>1, <3>2 DEF RouterInv, NoticeInv
    <3>4. QED
      BY <1>1, <1>5, <2>2, <3>3, PaymentKeeps
  <2>3. QED
    BY <2>1, <2>2
<1>7. (owedStable = Total(Owing))'
  <2>1. CASE deferredSince[t] # 0
    <3>1. t \in Owing /\ Owing' = Owing \ {t}
      BY <1>1, <1>5, <2>1 DEF Owing
    <3>2. Total(Owing \ {t}) = Total(Owing) - Worth[t]
      BY <1>2, <3>1, DueType, TotalWithout
    <3>3. QED
      BY <1>1, <2>1, <3>1, <3>2 DEF RouterInv, BooksInv
  <2>2. CASE deferredSince[t] = 0
    <3>1. Owing' = Owing
      BY <1>1, <1>5, <2>2 DEF Owing
    <3>2. QED
      BY <1>1, <2>2, <3>1 DEF RouterInv, BooksInv
  <2>3. QED
    BY <2>1, <2>2
<1>8. QED
  BY <1>4, <1>6, <1>7 DEF RouterInv, BooksInv, Solvent

\* A deferral of what the router already held.
LEMMA DeferKeeps ==
  ASSUME RouterInv, NEW t \in traffic, t \in Incoming, transit[t] = "executed", t \notin finalized,
         Intent[t] # "malformed",
         deferredSince' = [deferredSince EXCEPT ![t] = IF @ = 0 THEN clock ELSE @],
         owedStable' = IF deferredSince[t] = 0 THEN owedStable + Worth[t] ELSE owedStable,
         UNCHANGED <<held, finalized, stableSettledOut, transit, traffic, refundOf, rescueVars, world>>
  PROVE  RouterInv'
<1>1. /\ transit' = transit /\ traffic' = traffic /\ refundOf' = refundOf /\ finalized' = finalized
      /\ exposed' = exposed /\ pendingStableRescue' = pendingStableRescue /\ swept' = swept /\ clock' = clock
      /\ held' = held /\ stableSettledOut' = stableSettledOut /\ UNCHANGED rescueVars
  BY DEF rescueVars, world
<1>2. RouterTypeOK /\ t \in Transfers /\ Worth[t] \in Nat /\ t \notin Outgoing
  BY WorthType, RouterAssumption DEF RouterInv, Transfers
<1>3. /\ deferredSince' \in [Incoming -> Nat] /\ deferredSince'[t] # 0
      /\ deferredSince[t] # 0 => deferredSince'[t] = deferredSince[t]
      /\ deferredSince[t] = 0 => deferredSince'[t] = clock
      /\ \A u \in Incoming \ {t} : deferredSince'[u] = deferredSince[u]
  BY <1>2 DEF RouterTypeOK
<1>4. owedStable' \in Int
  BY <1>2 DEF RouterTypeOK
<1>5. RouterTypeOK' /\ DeferredInv'
  BY <1>1, <1>2, <1>3, <1>4 DEF RouterInv, RouterTypeOK, DeferredInv
<1>6. NoticeInv'
  BY <1>1, <1>3 DEF RouterInv, NoticeInv
<1>7. t \in Due /\ Due' = Due
  BY <1>1, <1>2 DEF Due, RouterTypeOK
<1>8. CapInv' /\ Solvent'
  BY <1>1, <1>2, <1>7, NothingMoves DEF RouterTypeOK
<1>9. (owedStable = Total(Owing))'
  <2>1. CASE deferredSince[t] = 0
    <3>1. t \notin Owing /\ Owing' = Owing \cup {t}
      BY <1>3, <1>7, <2>1 DEF Owing
    <3>2. Total(Owing \cup {t}) = Total(Owing) + Worth[t]
      BY <1>2, <3>1, DueType, TotalWith
    <3>3. QED
      BY <2>1, <3>1, <3>2 DEF RouterInv, BooksInv
  <2>2. CASE deferredSince[t] # 0
    <3>1. Owing' = Owing
      BY <1>3, <1>7, <2>2 DEF Owing
    <3>2. QED
      BY <2>2, <3>1 DEF RouterInv, BooksInv
  <2>3. QED
    BY <2>1, <2>2
<1>10. QED
  BY <1>5, <1>6, <1>8, <1>9 DEF RouterInv, BooksInv, Solvent

LEMMA FinalizeKeeps ==
  ASSUME RouterInv, NEW t \in traffic, NEW by \in Caller, finalize(t, by) PROVE RouterInv'
<1>1. /\ t \in Incoming /\ transit[t] = "executed" /\ t \notin finalized /\ Intent[t] # "malformed"
      /\ UNCHANGED <<transit, traffic, refundOf, rescueVars, world>>
      /\ Deliver(t, held) \/ deferOrFallBack(t, by, held)
  BY DEF finalize, isDelivered, settle
<1>2. CASE Deliver(t, held)
  BY <1>1, <1>2, DeliverKeeps
<1>3. CASE deferOrFallBack(t, by, held)
  <2>1. CASE GraceIsOver(t) /\ mayFallBack(by)
    BY <1>1, <1>3, <2>1, DeliverKeeps DEF deferOrFallBack
  <2>2. CASE ~(GraceIsOver(t) /\ mayFallBack(by))
    <3>1. /\ deferredSince' = [deferredSince EXCEPT ![t] = IF @ = 0 THEN clock ELSE @]
          /\ owedStable' = IF deferredSince[t] = 0 THEN owedStable + Worth[t] ELSE owedStable
          /\ UNCHANGED <<held, finalized, stableSettledOut, transit, traffic, refundOf, rescueVars, world>>
      BY <1>1, <1>3, <2>2 DEF deferOrFallBack
    <3>2. QED
      BY <1>1, <3>1, DeferKeeps
  <2>3. QED
    BY <2>1, <2>2
<1>4. QED
  BY <1>1, <1>2, <1>3

\* The gate's claim and the settlement in one call: a first settlement, which is
\* delivered out of what it brought or is deferred.
LEMMA ClaimAndFinalizeKeeps ==
  ASSUME RouterInv, NEW t \in traffic, NEW by \in Caller, claimAndFinalize(t, by) PROVE RouterInv'
<1> DEFINE stable == held + Worth[t]
<1>1. /\ t \in Incoming /\ transit[t] = "open" /\ transit' = [transit EXCEPT ![t] = "executed"]
      /\ t \notin finalized /\ Intent[t] # "malformed"
      /\ traffic' = traffic /\ refundOf' = refundOf /\ UNCHANGED rescueVars
      /\ exposed' = exposed /\ pendingStableRescue' = pendingStableRescue /\ swept' = swept /\ clock' = clock
      /\ Deliver(t, stable) \/ deferOrFallBack(t, by, stable)
  BY DEF claimAndFinalize, settle, rescueVars, world
<1>2. RouterTypeOK /\ t \in Transfers /\ Worth[t] \in Nat /\ t \notin Outgoing /\ held \in Int
  BY <1>1, WorthType, RouterAssumption DEF RouterInv, RouterTypeOK, Transfers
<1>3. transit' \in [traffic -> Stages] /\ transit'[t] = "executed"
      /\ \A u \in traffic \ {t} : transit'[u] = transit[u]
  BY <1>1, <1>2 DEF RouterTypeOK, Stages
<1>4. deferredSince[t] = 0 /\ t \notin Due /\ t \notin Owing
  BY <1>1, <1>2 DEF RouterInv, DeferredInv, Due, Owing, RouterTypeOK
<1>5. CASE Deliver(t, stable)
  <2>1. /\ held' = (held + Worth[t]) - Worth[t] /\ finalized' = finalized \cup {t}
        /\ deferredSince' = deferredSince /\ owedStable' = owedStable
        /\ stableSettledOut' = stableSettledOut + Worth[t]
    BY <1>4, <1>5 DEF Deliver, debits
  <2>2. held' = held /\ stableSettledOut' \in Int /\ stableSettledOut' >= stableSettledOut
    BY <1>2, <2>1 DEF RouterTypeOK
  <2>3. RouterTypeOK' /\ DeferredInv' /\ NoticeInv'
    BY <1>1, <1>2, <1>3, <2>1, <2>2 DEF RouterInv, RouterTypeOK, DeferredInv, NoticeInv
  <2>4. Due' = Due
    BY <1>1, <1>2, <1>3, <2>1 DEF Due, RouterTypeOK
  <2>5. Owing' = Owing
    BY <2>1, <2>4 DEF Owing
  <2>6. CapInv' /\ Solvent'
    BY <1>1, <1>2, <2>2, <2>4, NothingMoves
  <2>7. QED
    BY <2>1, <2>3, <2>5, <2>6 DEF RouterInv, BooksInv, Solvent
<1>6. CASE deferOrFallBack(t, by, stable)
  <2>1. /\ deferredSince' = [deferredSince EXCEPT ![t] = IF @ = 0 THEN clock ELSE @]
        /\ owedStable' = owedStable + Worth[t] /\ held' = held + Worth[t]
        /\ finalized' = finalized /\ stableSettledOut' = stableSettledOut
    BY <1>4, <1>6 DEF deferOrFallBack, GraceIsOver
  <2>2. /\ deferredSince' \in [Incoming -> Nat] /\ deferredSince'[t] = clock /\ clock # 0
        /\ \A u \in Incoming \ {t} : deferredSince'[u] = deferredSince[u]
    BY <1>1, <1>2, <1>4, <2>1 DEF RouterTypeOK
  <2>3. held' \in Int /\ owedStable' \in Int
    BY <1>2, <2>1 DEF RouterTypeOK
  <2>4. RouterTypeOK'
    BY <1>1, <1>2, <1>3, <2>1, <2>2, <2>3 DEF RouterTypeOK
  <2>5. DeferredInv' /\ NoticeInv'
    BY <1>1, <1>3, <2>2 DEF RouterInv, DeferredInv, NoticeInv
  <2>6. Due' = Due \cup {t}
    BY <1>1, <1>2, <1>3, <2>1, <2>2 DEF Due, RouterTypeOK
  <2>7. Owing' = Owing \cup {t}
    BY <1>1, <1>2, <1>4, <2>2, <2>6 DEF Owing, Due
  <2>8. CapInv' /\ Solvent'
    BY <1>1, <1>2, <1>4, <2>1, <2>6, ArrivalKeeps
  <2>9. (owedStable = Total(Owing))'
    <3>1. Total(Owing \cup {t}) = Total(Owing) + Worth[t]
      BY <1>2, <1>4, DueType, TotalWith
    <3>2. QED
      BY <2>1, <2>7, <3>1 DEF RouterInv, BooksInv
  <2>10. QED
    BY <2>4, <2>5, <2>8, <2>9 DEF RouterInv, BooksInv, Solvent
<1>7. QED
  BY <1>1, <1>5, <1>6

-----------------------------------------------------------------------------
(* The rescue.                                                                *)

LEMMA ScheduleKeeps == ASSUME RouterInv, NEW x \in Sizes, scheduleStableRescue(x) PROVE RouterInv'
<1> DEFINE r == [amount |-> x, readyAt |-> clock + STABLE_RESCUE_DELAY, freeAtSchedule |-> free,
                 scheduledAt |-> clock, settledOutAtSchedule |-> stableSettledOut]
<1>1. /\ x > 0 /\ x <= free /\ pendingStableRescue' = r /\ exposed' = Unseen
      /\ transit' = transit /\ traffic' = traffic /\ refundOf' = refundOf /\ finalized' = finalized
      /\ held' = held /\ owedStable' = owedStable /\ stableSettledOut' = stableSettledOut
      /\ deferredSince' = deferredSince /\ swept' = swept /\ clock' = clock
  BY DEF scheduleStableRescue, books, world
<1>2. /\ RouterTypeOK /\ held \in Int /\ owedStable \in Int /\ stableSettledOut \in Int
      /\ clock \in Nat \ {0} /\ x \in Nat /\ STABLE_RESCUE_DELAY \in Nat
  BY RouterAssumption DEF RouterInv, RouterTypeOK
<1>3. free \in Int /\ free = held - owedStable
  BY <1>1, <1>2 DEF free
<1>4. r \in Notice
  <2>1. clock + STABLE_RESCUE_DELAY \in Nat \ {0} /\ x \in Nat \ {0}
    BY <1>1, <1>2
  <2>2. QED
    BY <1>2, <1>3, <2>1 DEF Notice
<1> HIDE DEF r
<1>5. Due' = Due /\ Owing' = Owing /\ Due \in SUBSET Transfers
  BY <1>1, <1>2, DueType DEF Due, Owing
<1>6. RouterTypeOK' /\ DeferredInv'
  BY <1>1, <1>2, <1>4, <1>5 DEF RouterInv, RouterTypeOK, DeferredInv, Unseen
<1>7. /\ r.readyAt # 0 /\ r.scheduledAt = clock /\ r.freeAtSchedule = free
      /\ r.settledOutAtSchedule = stableSettledOut
  BY <1>4 DEF r, Notice
<1>8. NoticeInv'
  <2>1. \A t \in Unseen \cap Incoming : deferredSince[t] = 0
    BY RouterAssumption DEF Unseen
  <2>2. QED
    BY <1>1, <1>2, <1>7, <2>1 DEF NoticeInv
<1>9. Due \ Unseen = Owing
  BY <1>5, RouterAssumption DEF Unseen, Owing, Transfers
<1>10. CapInv'
  <2>1. Total(Due \ Unseen) = owedStable
    BY <1>9 DEF RouterInv, BooksInv
  <2>2. held + (stableSettledOut - r.settledOutAtSchedule) - r.freeAtSchedule >= Total(Due \ Unseen)
    BY <1>2, <1>3, <1>7, <2>1
  <2>3. QED
    BY <1>1, <1>5, <2>2 DEF CapInv
<1>11. QED
  BY <1>1, <1>5, <1>6, <1>8, <1>10 DEF RouterInv, BooksInv

LEMMA CancelRescueKeeps == ASSUME RouterInv, cancelStableRescue PROVE RouterInv'
<1>1. /\ pendingStableRescue' = NoRescue /\ exposed' = exposed
      /\ transit' = transit /\ traffic' = traffic /\ refundOf' = refundOf /\ finalized' = finalized
      /\ held' = held /\ owedStable' = owedStable /\ stableSettledOut' = stableSettledOut
      /\ deferredSince' = deferredSince /\ swept' = swept /\ clock' = clock
  BY DEF cancelStableRescue, books, world
<1>2. Due' = Due /\ Owing' = Owing
  BY <1>1 DEF Due, Owing
<1>3. RouterTypeOK' /\ DeferredInv' /\ NoticeInv' /\ CapInv'
  BY <1>1 DEF RouterInv, RouterTypeOK, DeferredInv, NoticeInv, CapInv, NoRescue
<1>4. QED
  BY <1>1, <1>2, <1>3 DEF RouterInv, BooksInv

\* The sweep takes no more than is free now, nor than the notice counted as free and
\* nobody was paid since.
LEMMA SweepTakes ==
  ASSUME RouterInv, executeStableRescue
  PROVE  /\ held' \in Int /\ held' >= owedStable
         /\ ~ swept => held' >= Total(Due \ exposed)
<1> DEFINE r == pendingStableRescue
<1>1. r.readyAt # 0 /\ r.amount <= free /\ r.amount <= stillFree(r) /\ held' = held - r.amount
  BY DEF executeStableRescue
<1>2. /\ r \in Notice /\ r.amount \in Nat \ {0} /\ r.freeAtSchedule \in Int /\ r.settledOutAtSchedule \in Int
      /\ held \in Int /\ owedStable \in Int /\ stableSettledOut \in Int
  BY <1>1 DEF RouterInv, RouterTypeOK, Notice, NoRescue
<1>3. r.amount <= held - owedStable
  BY <1>1, <1>2 DEF free
<1>4. r.amount <= r.freeAtSchedule - (stableSettledOut - r.settledOutAtSchedule)
  BY <1>1, <1>2 DEF stillFree
<1>5. Total(Due \ exposed) \in Int
  <2>1. Due \ exposed \in SUBSET Transfers
    BY DueType DEF RouterInv
  <2>2. QED
    BY <2>1, TotalType
<1>6. ~ swept => held + (stableSettledOut - r.settledOutAtSchedule) - r.freeAtSchedule >= Total(Due \ exposed)
  BY <1>1 DEF RouterInv, CapInv
<1> HIDE DEF r
<1>7. QED
  BY <1>1, <1>2, <1>3, <1>4, <1>5, <1>6

LEMMA ExecuteRescueKeeps == ASSUME RouterInv, executeStableRescue PROVE RouterInv'
<1>1. /\ pendingStableRescue' = NoRescue /\ exposed' = exposed
      /\ transit' = transit /\ traffic' = traffic /\ refundOf' = refundOf /\ finalized' = finalized
      /\ owedStable' = owedStable /\ stableSettledOut' = stableSettledOut
      /\ deferredSince' = deferredSince /\ swept' = TRUE /\ clock' = clock
  BY DEF executeStableRescue, books, world
<1>2. Due' = Due /\ Owing' = Owing
  BY <1>1 DEF Due, Owing
<1>3. RouterTypeOK' /\ DeferredInv' /\ NoticeInv' /\ CapInv'
  BY <1>1, SweepTakes DEF RouterInv, RouterTypeOK, DeferredInv, NoticeInv, CapInv, NoRescue
<1>4. QED
  BY <1>1, <1>2, <1>3 DEF RouterInv, BooksInv

-----------------------------------------------------------------------------
LEMMA RouterStarts == RouterInit => RouterInv
<1> SUFFICES ASSUME RouterInit PROVE RouterInv
  OBVIOUS
<1>1. Due = {} /\ Owing = {} /\ Total({}) = 0
  BY SumOfNothing DEF RouterInit, Due, Owing, Total
<1>2. RouterTypeOK
  <2>1. traffic \subseteq Transfers /\ transit \in [traffic -> Stages]
    BY RouterAssumption DEF RouterInit, Transfers, Stages
  <2>2. /\ deferredSince \in [Incoming -> Nat]
        /\ held \in Int /\ owedStable \in Int /\ stableSettledOut \in Int /\ clock \in Nat \ {0}
    BY DEF RouterInit
  <2>3. /\ exposed \subseteq Transfers /\ finalized \subseteq Incoming /\ refundOf \subseteq Outgoing
        /\ pendingStableRescue \in Notice \cup {NoRescue} /\ swept \in BOOLEAN
    BY Zenon DEF RouterInit
  <2>4. QED
    BY <2>1, <2>2, <2>3 DEF RouterTypeOK
<1>3. pendingStableRescue.readyAt = 0
  BY DEF RouterInit, NoRescue
<1>4. QED
  BY <1>1, <1>2, <1>3 DEF RouterInit, RouterInv, DeferredInv, NoticeInv, CapInv, BooksInv

LEMMA RouterSteps == RouterInv /\ [RouterNext]_routerVars => RouterInv'
<1> SUFFICES ASSUME RouterInv, [RouterNext]_routerVars PROVE RouterInv'
  OBVIOUS
<1>1. clock \in Nat
  BY DEF RouterInv, RouterTypeOK
<1>2. CASE UNCHANGED routerVars
  BY <1>1, <1>2, WorldKeeps DEF routerVars, world
<1>3. ASSUME NEW t \in traffic, Gates(t) PROVE RouterInv'
  BY <1>3, GateClaimKeeps, GateCancelKeeps, GateRefundKeeps, SwapAndBridgeKeeps DEF Gates
<1>4. ASSUME NEW t \in traffic, Users(t) PROVE RouterInv'
  BY <1>4, ForwardRefundKeeps, RefundAndForwardKeeps, FinalizeKeeps, ClaimAndFinalizeKeeps DEF Users
<1>5. CASE Owner
  BY <1>5, ScheduleKeeps, CancelRescueKeeps, ExecuteRescueKeeps DEF Owner
<1>6. CASE PoolMoves
  BY <1>1, <1>6, WorldKeeps DEF PoolMoves
<1>7. CASE Tick
  BY <1>1, <1>7, WorldKeeps DEF Tick
<1>8. QED
  BY <1>2, <1>3, <1>4, <1>5, <1>6, <1>7 DEF RouterNext

\* Only a rescue sweeps.
LEMMA OnlyRescueSweeps ==
  ASSUME [RouterNext]_routerVars, ~ swept, swept' PROVE executeStableRescue
BY DEF RouterNext, routerVars, rescueVars, Gates, Users, Owner, gate_claim, gate_cancel, gate_refund,
       swapAndBridge, forwardRefund, refundAndForward, PayRefund, finalize, claimAndFinalize, settle,
       scheduleStableRescue, cancelStableRescue, PoolMoves, Tick

\* For any transfers, amounts and intents, a pool that fails at any time and an owner
\* who schedules, cancels and executes rescues at will (`_settle`, `_deferOrFallBack`,
\* `executeStableRescue`): the books are right, the router can pay what is due until
\* something was swept, and the sweep leaves all that its notice did not count as free.
THEOREM RouterTheorem == RouterSpec => RouterKeepsFaith
<1>1. RouterSpec => []RouterInv
  BY RouterStarts, RouterSteps, PTL DEF RouterSpec
<1>2. RouterInv => RouterIsSolvent
  BY DEF RouterInv, BooksInv, RouterIsSolvent, Owing
<1>3. RouterInv /\ [RouterNext]_routerVars
        => [swept' /\ ~ swept => held' >= Total(Due \ exposed) /\ held' >= owedStable]_routerVars
  BY OnlyRescueSweeps, SweepTakes
<1>4. QED
  BY <1>1, <1>2, <1>3, PTL DEF RouterSpec, RouterKeepsFaith, SweepIsBounded

-----------------------------------------------------------------------------
(* The signatures of a submission                                            *)

\* A write that has counted still has the lock, what it read is what is there, and there
\* was room for its signature.
Exempt(s) == site.enforced /\ s.signer \in Validators

CountsHold ==
    \A t \in Task : job[t].step = "counted" =>
      /\ holder = t
      /\ job[t].seen = bucket
      /\ Exempt(job[t].sig) \/ push_capped(bucket, job[t].sig)

BucketInv ==
    /\ IsFiniteSet(bucket)
    /\ job = [t \in Task |-> job[t]]
    /\ CountsHold
    /\ BucketIsBounded

LEMMA OneMore ==
  ASSUME NEW S, NEW x, IsFiniteSet(S)
  PROVE  /\ IsFiniteSet(S \cup {x}) /\ Cardinality(S) \in Nat
         /\ Cardinality(S \cup {x}) <= Cardinality(S) + 1
<1>1. Cardinality(S) \in Nat
  BY FS_CardinalityType
<1>2. QED
  BY <1>1, FS_AddElement

LEMMA NoTaskIsNone == NoTask \notin Task
BY DEF NoTask, Task

LEMMA BucketStarts == Init => BucketInv
<1> SUFFICES ASSUME Init PROVE BucketInv
  OBVIOUS
<1> DEFINE One(a, f) == [kind |-> kind, signer |-> a, key |-> a, over |-> kind, form |-> f]
<1> DEFINE all == {One(p[1], p[2]) : p \in Address \X Form}
<1>1. bucket \in SUBSET {One(a, f) : a \in Address, f \in Form} /\ Cardinality(bucket) <= MAX_SIGNATURES_PER_SUBMISSION
  BY DEF Init, Bucket_Before
<1>2. IsFiniteSet(Address) /\ IsFiniteSet(Form)
  <2>1. Form = {"canonical"} \cup {"other"}
    BY DEF Form
  <2>2. QED
    BY <2>1, FS_Singleton, FS_Union, AddressAssumption
<1>3. IsFiniteSet(all)
  <2>1. IsFiniteSet(Address \X Form)
    BY <1>2, FS_Product
  <2>2. DEFINE f == [p \in Address \X Form |-> One(p[1], p[2])]
  <2>3. f \in Surjection(Address \X Form, all)
    BY DEF Surjection
  <2>4. QED
    <3> HIDE DEF f, all
    <3> QED BY <2>1, <2>3, FS_Surjection
<1>4. bucket \subseteq all
  <2> SUFFICES ASSUME NEW s \in bucket PROVE s \in all
    OBVIOUS
  <2>1. PICK a \in Address, f \in Form : s = One(a, f)
    BY <1>1
  <2>2. <<a, f>> \in Address \X Form /\ s = One(<<a, f>>[1], <<a, f>>[2])
    BY <2>1
  <2>3. QED
    BY <2>2
<1>5. IsFiniteSet(bucket)
  BY <1>3, <1>4, FS_Subset
<1>6. CountsHold /\ job = [t \in Task |-> job[t]]
  BY DEF Init, CountsHold, Idle
<1>7. BucketIsBounded
  <2> SUFFICES ASSUME NEW k \in Kinds PROVE Cardinality(Capped(k)) <= MAX_SIGNATURES_PER_SUBMISSION
    BY DEF BucketIsBounded
  <2>1. Capped(k) \subseteq bucket
    BY DEF Capped
  <2>2. /\ Cardinality(Capped(k)) <= Cardinality(bucket)
        /\ Cardinality(bucket) \in Nat /\ Cardinality(Capped(k)) \in Nat
    BY <1>5, <2>1, FS_Subset, FS_CardinalityType
  <2>3. QED
    BY <1>1, <2>2, AddressAssumption
<1>8. QED
  BY <1>5, <1>6, <1>7 DEF BucketInv

\* A post that passes its checks only notes what to write.
LEMMA AcceptKeepsTheBucket ==
  ASSUME BucketInv, NEW t \in Task, NEW s, NEW rec, accept(t, s, rec)
  PROVE  BucketInv' /\ bucket' = bucket
<1>1. /\ UNCHANGED <<site, bucket, holder>>
      /\ job' = [job EXCEPT ![t] = [step |-> "begun", sig |-> canonical_signature(s), rec |-> rec]]
  BY DEF accept
<1>2. job'[t].step = "begun" /\ \A u \in Task : u # t => job'[u] = job[u]
  BY <1>1 DEF BucketInv
<1>3. CountsHold'
  <2> SUFFICES ASSUME NEW u \in Task, job'[u].step = "counted"
               PROVE  /\ holder' = u
                      /\ job'[u].seen = bucket'
                      /\ (Exempt(job[u].sig) \/ push_capped(bucket, job[u].sig))'
    BY DEF CountsHold
  <2>1. u # t /\ job'[u] = job[u]
    BY <1>2
  <2>2. QED
    BY <1>1, <2>1 DEF BucketInv, CountsHold, Exempt
<1>4. BucketIsBounded'
  BY <1>1 DEF BucketInv, BucketIsBounded, Capped
<1>5. QED
  BY <1>1, <1>3, <1>4 DEF BucketInv

LEMMA PostKeepsTheBucket ==
  ASSUME BucketInv, NEW t \in Task, NEW s, NEW rec, post(t, s, rec)
  PROVE  BucketInv' /\ bucket' = bucket
<1>1. CASE post_submission(t, s, rec)
  <2>1. accept(t, s, rec)
    BY <1>1 DEF post_submission
  <2>2. QED
    BY <2>1, AcceptKeepsTheBucket
<1>2. CASE post_attestation(t, s)
  <2>1. accept(t, s, recordFor(s.kind))
    BY <1>2 DEF post_attestation
  <2>2. QED
    BY <2>1, AcceptKeepsTheBucket
<1>3. QED
  BY <1>1, <1>2 DEF post

\* The lock is free, so no other write is between its count and its commit.
LEMMA CountKeepsTheBucket ==
  ASSUME BucketInv, NEW t \in Task, count(t)
  PROVE  BucketInv' /\ bucket' = bucket
<1> DEFINE s == job[t].sig
<1> DEFINE admitted == IF site.backing = "db" THEN enforce_signature_cap(bucket, s) ELSE push_capped(bucket, s)
<1> DEFINE counted == [step |-> "counted", sig |-> s, seen |-> bucket]
<1>1. holder = NoTask /\ UNCHANGED <<site, bucket>>
  BY DEF count, row_lock_free, write_lock_free
<1>2. \A u \in Task : job[u].step # "counted"
  BY <1>1, NoTaskIsNone DEF BucketInv, CountsHold
<1>3. \/ admitted /\ holder' = t /\ job' = [job EXCEPT ![t] = counted]
      \/ holder' = holder /\ job' = [job EXCEPT ![t] = Idle]
  BY DEF count
<1>4. BucketIsBounded' /\ IsFiniteSet(bucket')
  BY <1>1 DEF BucketInv, BucketIsBounded, Capped
<1>5. CASE admitted /\ holder' = t /\ job' = [job EXCEPT ![t] = counted]
  <2>1. job'[t] = counted /\ \A u \in Task : u # t => job'[u] = job[u]
    BY <1>5 DEF BucketInv
  <2>2. Exempt(s) \/ push_capped(bucket, s)
    BY <1>5 DEF enforce_signature_cap, Exempt
  <2>3. CountsHold'
    <3> SUFFICES ASSUME NEW u \in Task, job'[u].step = "counted"
                 PROVE  /\ holder' = u
                        /\ job'[u].seen = bucket'
                        /\ (Exempt(job[u].sig) \/ push_capped(bucket, job[u].sig))'
      BY DEF CountsHold
    <3>1. u = t
      BY <1>2, <2>1
    <3>2. job'[u].sig = s /\ job'[u].seen = bucket
      BY <2>1, <3>1
    <3>3. QED
      BY <1>1, <1>5, <2>2, <3>1, <3>2 DEF Exempt
  <2>4. job' = [u \in Task |-> job'[u]]
    BY <1>5 DEF BucketInv
  <2>5. QED
    BY <1>1, <1>4, <2>3, <2>4 DEF BucketInv
<1>6. CASE holder' = holder /\ job' = [job EXCEPT ![t] = Idle]
  <2>1. job'[t].step = "idle" /\ \A u \in Task : u # t => job'[u] = job[u]
    BY <1>6 DEF BucketInv, Idle
  <2>2. CountsHold'
    BY <1>2, <2>1 DEF CountsHold
  <2>3. job' = [u \in Task |-> job'[u]]
    BY <1>6 DEF BucketInv
  <2>4. QED
    BY <1>1, <1>4, <2>2, <2>3 DEF BucketInv
<1>7. QED
  BY <1>3, <1>5, <1>6

\* One signature more than was counted, and the count was below the cap.
LEMMA CommitKeepsTheBucket ==
  ASSUME BucketInv, NEW t \in Task, commit(t)
  PROVE  BucketInv' /\ bucket \subseteq bucket'
<1> DEFINE s == job[t].sig
<1>1. /\ holder = t /\ job[t].seen = bucket
      /\ Exempt(s) \/ push_capped(bucket, s)
  BY DEF BucketInv, CountsHold, commit
<1>2. bucket' = merged(bucket, s) /\ job' = [job EXCEPT ![t] = Idle] /\ site' = site
  BY <1>1 DEF commit
<1>3. bucket' \in {bucket, bucket \cup {s}}
  BY <1>2 DEF merged
<1>4. IsFiniteSet(bucket')
  BY <1>3, FS_AddElement DEF BucketInv
<1>5. CountsHold'
  <2>1. \A u \in Task : u # t => job[u].step # "counted"
    BY <1>1 DEF BucketInv, CountsHold
  <2>2. job'[t].step = "idle" /\ \A u \in Task : u # t => job'[u] = job[u]
    BY <1>2 DEF BucketInv, Idle
  <2>3. QED
    BY <2>1, <2>2 DEF CountsHold
<1>6. BucketIsBounded'
  <2> SUFFICES ASSUME NEW k \in Kinds PROVE Cardinality(Capped(k)') <= MAX_SIGNATURES_PER_SUBMISSION
    BY DEF BucketIsBounded
  <2>1. Cardinality(Capped(k)) <= MAX_SIGNATURES_PER_SUBMISSION
    BY DEF BucketInv, BucketIsBounded
  <2>2. CASE Capped(k)' = Capped(k)
    BY <2>1, <2>2
  <2>3. CASE Capped(k)' # Capped(k)
    <3>1. bucket' = bucket \cup {s} /\ s.kind = k /\ ~ Exempt(s) /\ s.signer \notin signers(sameKind(bucket, s))
      BY <1>2, <1>3, <2>3 DEF Capped, Exempt, merged
    <3>2. Cardinality(sameKind(bucket, s)) < MAX_SIGNATURES_PER_SUBMISSION
      BY <1>1, <3>1 DEF push_capped
    <3>3. sameKind(bucket, s) \subseteq bucket /\ IsFiniteSet(sameKind(bucket, s))
      <4>1. sameKind(bucket, s) \subseteq bucket
        BY DEF sameKind
      <4>2. QED
        BY <4>1, FS_Subset DEF BucketInv
    <3>4. Capped(k)' \subseteq sameKind(bucket, s) \cup {s}
      BY <1>2, <3>1 DEF Capped, sameKind
    <3>5. /\ IsFiniteSet(sameKind(bucket, s) \cup {s})
          /\ Cardinality(sameKind(bucket, s) \cup {s}) <= Cardinality(sameKind(bucket, s)) + 1
          /\ Cardinality(sameKind(bucket, s)) \in Nat
      BY <3>3, OneMore
    <3>6. /\ Cardinality(Capped(k)') <= Cardinality(sameKind(bucket, s) \cup {s})
          /\ Cardinality(sameKind(bucket, s) \cup {s}) \in Nat /\ Cardinality(Capped(k)') \in Nat
      BY <3>4, <3>5, FS_Subset, FS_CardinalityType
    <3>7. QED
      BY <3>2, <3>5, <3>6, AddressAssumption
  <2>4. QED
    BY <2>2, <2>3
<1>7. job' = [u \in Task |-> job'[u]]
  BY <1>2 DEF BucketInv
<1>8. QED
  BY <1>3, <1>4, <1>5, <1>6, <1>7 DEF BucketInv

LEMMA BucketAtRest ==
  ASSUME BucketInv, UNCHANGED <<site, bucket, holder, job>>
  PROVE  BucketInv' /\ bucket' = bucket
<1>1. CountsHold'
  BY DEF BucketInv, CountsHold, Exempt, push_capped, sameKind, signers
<1>2. BucketIsBounded'
  BY DEF BucketInv, BucketIsBounded, Capped
<1>3. QED
  BY <1>1, <1>2 DEF BucketInv

LEMMA BucketInductive ==
  ASSUME BucketInv, [Next]_vars
  PROVE  BucketInv' /\ bucket \subseteq bucket'
<1>1. CASE observe_submission
  BY <1>1, BucketAtRest DEF observe_submission
<1>2. CASE \E a \in Validators : validator_post(a)
  <2>1. PICK a \in Validators : validator_post(a)
    BY <1>2
  <2>2. PICK f \in Form : post(<<"post", a>>, [kind |-> kind, signer |-> a, key |-> a, over |-> kind, form |-> f],
                               recordFor(kind))
    BY <2>1 DEF validator_post
  <2>3. <<"post", a>> \in Task
    BY DEF Task, Address
  <2>4. QED
    BY <2>2, <2>3, PostKeepsTheBucket
<1>3. CASE \E a \in Strangers : other_post(a)
  <2>1. PICK a \in Strangers : other_post(a)
    BY <1>3
  <2>2. <<"post", a>> \in Task
    BY DEF Task, Address
  <2>3. PICK s, rec : post(<<"post", a>>, s, rec)
    BY <2>1 DEF other_post
  <2>4. QED
    BY <2>2, <2>3, PostKeepsTheBucket
<1>4. CASE \E k \in Kinds : upsert_file(k)
  <2>1. PICK k \in Kinds : upsert_file(k)
    BY <1>4
  <2>2. <<"loop", k>> \in Task
    BY DEF Task
  <2>3. PICK s, rec : post(<<"loop", k>>, s, rec)
    BY <2>1 DEF upsert_file
  <2>4. QED
    BY <2>2, <2>3, PostKeepsTheBucket
<1>5. CASE \E t \in Task : count(t) \/ commit(t)
  <2>1. PICK t \in Task : count(t) \/ commit(t)
    BY <1>5
  <2>2. QED
    BY <2>1, CountKeepsTheBucket, CommitKeepsTheBucket
<1>6. CASE rotate \/ refresh
  BY <1>6, BucketAtRest DEF rotate, refresh
<1>7. CASE KeeperTick
  <2>1. PICK rows, mute : tick(rows, mute)
    BY <1>7 DEF KeeperTick, QuietTick
  <2>2. UNCHANGED <<site, bucket, holder, job>>
    BY <2>1 DEF tick
  <2>3. QED
    BY <2>2, BucketAtRest
<1>8. CASE UNCHANGED vars
  BY <1>8, BucketAtRest DEF vars
<1>9. QED
  BY <1>1, <1>2, <1>3, <1>4, <1>5, <1>6, <1>7, <1>8 DEF Next

\* A bucket never holds more signatures of a kind than the cap, the configured validators'
\* aside, and no write takes one away: for any validators, throwaway keys, kinds and cap,
\* whatever posts and loops interleave (SigStore!BucketIsSound).
THEOREM BucketTheorem == Spec => BucketIsSound
<1>1. Init => BucketInv
  BY BucketStarts
<1>2. BucketInv /\ [Next]_vars => BucketInv' /\ (bucket \subseteq bucket')
  BY BucketInductive
<1>3. Spec => []BucketInv
  BY <1>1, <1>2, PTL DEF Spec
<1>4. BucketInv => BucketIsBounded
  BY DEF BucketInv
<1>5. BucketInv /\ [Next]_vars => [bucket \subseteq bucket']_bucket
  BY <1>2
<1>6. Spec => [][bucket \subseteq bucket']_bucket
  BY <1>3, <1>5, PTL DEF Spec
<1>7. QED
  BY <1>3, <1>4, <1>6, PTL DEF BucketIsSound, NoSignatureIsLost

-----------------------------------------------------------------------------
(* The finalize queue and the record of a swap.  Where the two indexers    *)
(* take turns, a marker is parked only while there is no row, so the       *)
(* intent that comes later finds it.                                       *)

KeeperSteps ==
  {"claims", "seed", "run", "finalized", "cancelled", "executed", "owner", "send", "receipt", "check"}

FinalizeTypeOK ==
  /\ setup \in Deployments /\ Followed \in traffic
  /\ at \in KeeperSteps
  /\ intentRow \in {"none", "open", "finalized"}
  /\ parked \in BOOLEAN /\ collected \in BOOLEAN /\ floating \in BOOLEAN
  /\ writing = [c \in {"src", "dst"} |-> writing[c]]

\* A keeper that holds the guardian's account gets as far as asking whose account it is.
SenderInv ==
  /\ at # "claims" \/ floating => setup.keeper # "off"
  /\ setup.keeper = "guardian" =>
       at \notin {"send", "receipt", "check"} /\ ~ floating /\ <<Followed, "guardian">> \notin fellBack

\* What the row and the marker are at each statement of an indexer that has its turn.
TurnsInv ==
  /\ writing["src"] \in {"wait", "insert", "apply", "clear", "done"}
  /\ writing["dst"] \in {"wait", "update", "exists", "park", "recheck", "done"}
  /\ writing["src"] \in {"wait", "done"} \/ writing["dst"] \in {"wait", "done"}
  /\ writing["src"] \in {"apply", "clear", "done"} => intentRow # "none"
  /\ writing["src"] \in {"clear", "done"} /\ parked => intentRow = "finalized"
  /\ writing["dst"] \in {"exists", "park", "recheck"} => intentRow = "none"
  /\ writing["dst"] = "recheck" => parked
  /\ collected => writing["dst"] = "done"
  /\ writing["dst"] = "done" => collected \/ parked \/ intentRow = "finalized"

FinalizeInv == FinalizeTypeOK /\ SenderInv /\ (setup.turns => TurnsInv)

LEMMA FinalizeStarts == FinalizeInit => FinalizeInv
BY FinalizeAssumption DEF FinalizeInit, RouterInit, FinalizeInv, FinalizeTypeOK, SenderInv, TurnsInv, KeeperSteps

\* A call of the router leaves the traffic alone and, unless the guardian makes it, pays
\* nobody in stable at the guardian's word.
LEMMA CallsOfTheRouter ==
  ASSUME NEW by \in Caller, finalize(Followed, by) \/ claimAndFinalize(Followed, by)
  PROVE  /\ traffic' = traffic
         /\ by # "guardian" /\ <<Followed, "guardian">> \notin fellBack
              => <<Followed, "guardian">> \notin fellBack'
BY DEF finalize, claimAndFinalize, settle, deferOrFallBack, Deliver

LEMMA KeeperIsACaller == FinalizeTypeOK => setup.keeper \in Caller \cup {"off"}
BY FinalizeAssumption DEF FinalizeTypeOK, Caller

\* The steps of the keeper itself send nothing to the router but a claim to its gate.
LEMMA KeeperKeeps ==
  ASSUME FinalizeInv, Keeper \/ CallFails \/ BackOffEnds \/ IntervalEnds \/ Restart \/ Lose
  PROVE  FinalizeInv' /\ (UNCHANGED routerVars \/ gate_claim(Followed))
<1> USE DEF FinalizeInv, FinalizeTypeOK, SenderInv, KeeperSteps
<1>1. UNCHANGED <<setup, swapRecord>>
  BY DEF Keeper, claims, seed, run, Read, SendFinalize, Confirmed, FinalizeTimeout, CallFails,
         BackOffEnds, IntervalEnds, Restart, Lose, Keep
<1>2. TurnsInv => TurnsInv'
  BY <1>1 DEF swapRecord, TurnsInv
<1>3. ASSUME claims PROVE FinalizeInv' /\ (UNCHANGED routerVars \/ gate_claim(Followed))
  BY <1>1, <1>2, <1>3 DEF claims, gate_claim, books, routerVars, swapRecord
<1>4. ASSUME UNCHANGED routerVars, UNCHANGED floating, at' \in KeeperSteps,
             at # "claims" \/ at' = "claims", setup.keeper = "guardian" => at' \notin {"send", "receipt", "check"}
      PROVE  FinalizeInv' /\ UNCHANGED routerVars
  BY <1>1, <1>2, <1>4 DEF books, routerVars, swapRecord
<1>5. ASSUME seed \/ run \/ IntervalEnds \/ BackOffEnds \/ Restart
      PROVE  FinalizeInv' /\ UNCHANGED routerVars
  <2>1. UNCHANGED routerVars /\ UNCHANGED floating
    BY <1>5 DEF seed, run, IntervalEnds, BackOffEnds, Restart, Keep
  <2>2. at' \in {"claims", "run", "finalized", at} /\ (at # "claims" \/ at' = "claims")
    BY <1>5 DEF seed, run, IntervalEnds, BackOffEnds, Restart
  <2>3. QED
    BY <2>1, <2>2, <1>4
<1>6. ASSUME Read \/ CallFails \/ Confirmed \/ FinalizeTimeout
      PROVE  FinalizeInv' /\ UNCHANGED routerVars
  <2>1. UNCHANGED routerVars /\ UNCHANGED floating
    BY <1>6 DEF Read, CallFails, Confirmed, FinalizeTimeout, Keep
  <2>2. /\ at # "claims" /\ at' \in KeeperSteps
        /\ setup.keeper = "guardian" => at' \notin {"send", "receipt", "check"}
    BY <1>6 DEF Read, CallFails, Confirmed, FinalizeTimeout, Go, remove, back_off, isOwnersAccount
  <2>3. QED
    BY <2>1, <2>2, <1>4
<1>7. ASSUME SendFinalize \/ Lose PROVE FinalizeInv' /\ UNCHANGED routerVars
  <2>1. UNCHANGED routerVars
    BY <1>7 DEF SendFinalize, Lose, Keep
  <2>2. /\ setup.keeper # "off" /\ setup.keeper # "guardian" /\ at' \in KeeperSteps
        /\ floating' \in BOOLEAN
    BY <1>7 DEF SendFinalize, Lose, Go, back_off
  <2>3. QED
    BY <2>1, <2>2, <1>1, <1>2 DEF books, routerVars, swapRecord
<1>8. QED
  BY <1>3, <1>5, <1>6, <1>7 DEF Keeper

\* A transaction that lands is the keeper's call of the router.
LEMMA LandKeeps ==
  ASSUME FinalizeInv, LandFinalize
  PROVE  FinalizeInv' /\ (UNCHANGED routerVars \/ \E by \in Caller : finalize(Followed, by))
<1> USE DEF FinalizeInv, FinalizeTypeOK, SenderInv
<1>1. /\ setup.keeper # "off" /\ setup.keeper # "guardian" /\ setup.keeper \in Caller
      /\ UNCHANGED <<setup, at, swapRecord>> /\ floating' = FALSE
  BY KeeperIsACaller DEF LandFinalize
<1>2. UNCHANGED routerVars \/ finalize(Followed, setup.keeper)
  BY DEF LandFinalize
<1>3. traffic' = traffic
  BY <1>1, <1>2, CallsOfTheRouter DEF routerVars
<1>4. QED
  BY <1>1, <1>2, <1>3 DEF swapRecord, TurnsInv

\* The gate, the pool, time, and whoever else calls the router.
LEMMA AroundKeeps == ASSUME FinalizeInv, Around PROVE FinalizeInv' /\ RouterNext
<1> USE DEF FinalizeInv, FinalizeTypeOK, SenderInv
<1>1. UNCHANGED <<setup, keeperMemory, floating, swapRecord>>
  BY DEF Around
<1>2. TurnsInv => TurnsInv'
  BY <1>1 DEF swapRecord, TurnsInv
<1>3. CASE gate_claim(Followed) \/ gate_cancel(Followed) \/ PoolMoves \/ Tick
  <2>1. UNCHANGED <<traffic, fellBack>>
    BY <1>3 DEF gate_claim, gate_cancel, PoolMoves, Tick, books
  <2>2. RouterNext
    BY <1>3 DEF RouterNext, Gates
  <2>3. QED
    BY <1>1, <1>2, <2>1, <2>2 DEF keeperMemory, swapRecord
<1>4. CASE \E by \in Caller \ (IF setup.keeper = "guardian" THEN {"guardian"} ELSE {}) :
             finalize(Followed, by) \/ claimAndFinalize(Followed, by)
  <2>1. PICK by \in Caller \ (IF setup.keeper = "guardian" THEN {"guardian"} ELSE {}) :
          finalize(Followed, by) \/ claimAndFinalize(Followed, by)
    BY <1>4
  <2>2. /\ traffic' = traffic
        /\ setup.keeper = "guardian" => <<Followed, "guardian">> \notin fellBack'
    BY <2>1, CallsOfTheRouter
  <2>3. RouterNext
    BY <2>1 DEF RouterNext, Users
  <2>4. QED
    BY <1>1, <1>2, <2>2, <2>3 DEF keeperMemory, swapRecord
<1>5. QED
  BY <1>3, <1>4 DEF Around

\* A statement of one indexer, while the other is between windows.
LEMMA WriteKeepsTurns ==
  ASSUME FinalizeTypeOK, setup.turns, TurnsInv, NEW c \in {"src", "dst"}, Recorder(c) \/ WriteFails(c)
  PROVE  TurnsInv'
<1> USE DEF FinalizeTypeOK, TurnsInv, Then
<1>1. CASE handle_router_log(c)
  BY <1>1 DEF handle_router_log, OtherSide
<1>2. CASE WriteFails(c)
  BY <1>2 DEF WriteFails
<1>3. CASE Write(c) /\ c = "src" /\ record_swap_bridge_intent
  BY <1>3 DEF Write, record_swap_bridge_intent
<1>4. CASE Write(c) /\ c = "dst" /\ record_finalized
  BY <1>4 DEF Write, record_finalized
<1>5. CASE Write(c) /\ apply_pending_finalize(c)
  BY <1>5 DEF Write, apply_pending_finalize, fold
<1>6. QED
  BY <1>1, <1>2, <1>3, <1>4, <1>5 DEF Recorder, Write

LEMMA DatabaseKeeps ==
  ASSUME FinalizeInv,
         IndexStatus \/ (\E c \in {"src", "dst"} : Recorder(c) \/ WriteFails(c)) \/ gc_parked_markers
  PROVE  FinalizeInv' /\ UNCHANGED routerVars
<1>1. UNCHANGED <<routerVars, setup, keeperMemory, floating>>
  BY DEF IndexStatus, Recorder, handle_router_log, Write, WriteFails, gc_parked_markers, Aside
<1>2. SenderInv'
  BY <1>1 DEF FinalizeInv, SenderInv, keeperMemory, routerVars, books
<1>3. FinalizeTypeOK'
  <2>1. /\ intentRow' \in {"none", "open", "finalized"} /\ parked' \in BOOLEAN /\ collected' \in BOOLEAN
        /\ writing' = [c \in {"src", "dst"} |-> writing'[c]]
    BY DEF FinalizeInv, FinalizeTypeOK, IndexStatus, Recorder, handle_router_log, Write, WriteFails,
           gc_parked_markers, record_swap_bridge_intent, record_finalized, apply_pending_finalize,
           fold, Then, swapRecord
  <2>2. QED
    BY <1>1, <2>1 DEF FinalizeInv, FinalizeTypeOK, keeperMemory, routerVars
<1>4. ASSUME setup.turns PROVE TurnsInv'
  <2>1. CASE IndexStatus \/ gc_parked_markers
    BY <1>4, <2>1 DEF FinalizeInv, FinalizeTypeOK, TurnsInv, IndexStatus, gc_parked_markers, swapRecord
  <2>2. CASE \E c \in {"src", "dst"} : Recorder(c) \/ WriteFails(c)
    BY <1>4, <2>2, WriteKeepsTurns DEF FinalizeInv
  <2>3. QED
    BY <2>1, <2>2
<1>5. QED
  BY <1>1, <1>2, <1>3, <1>4 DEF FinalizeInv

\* Every step of the queue, the indexers and the world is a step of the router or none.
LEMMA FinalizeStep ==
  FinalizeInv /\ [FinalizeNext]_finalizeVars => FinalizeInv' /\ [RouterNext]_routerVars
<1> SUFFICES ASSUME FinalizeInv, [FinalizeNext]_finalizeVars PROVE FinalizeInv' /\ [RouterNext]_routerVars
  OBVIOUS
<1>0. Followed \in traffic
  BY DEF FinalizeInv, FinalizeTypeOK
<1>1. CASE Keeper \/ CallFails \/ BackOffEnds \/ IntervalEnds \/ Restart \/ Lose
  <2>1. FinalizeInv' /\ (UNCHANGED routerVars \/ gate_claim(Followed))
    BY <1>1, KeeperKeeps
  <2>2. QED
    BY <1>0, <2>1 DEF RouterNext, Gates
<1>2. CASE LandFinalize
  <2>1. FinalizeInv' /\ (UNCHANGED routerVars \/ \E by \in Caller : finalize(Followed, by))
    BY <1>2, LandKeeps
  <2>2. QED
    BY <1>0, <2>1 DEF RouterNext, Users
<1>3. CASE Around
  BY <1>3, AroundKeeps
<1>4. CASE IndexStatus \/ (\E c \in {"src", "dst"} : Recorder(c) \/ WriteFails(c)) \/ gc_parked_markers
  BY <1>4, DatabaseKeeps
<1>5. CASE UNCHANGED finalizeVars
  BY <1>5 DEF finalizeVars, routerVars, books, swapRecord, keeperMemory, FinalizeInv, FinalizeTypeOK,
              SenderInv, TurnsInv
<1>6. QED
  BY <1>1, <1>2, <1>3, <1>4, <1>5 DEF FinalizeNext

LEMMA FinalizeInvariant == FinalizeSpec => []FinalizeInv /\ [][RouterNext]_routerVars
<1>1. FinalizeInit => FinalizeInv
  BY FinalizeStarts
<1>2. FinalizeInv /\ [FinalizeNext]_finalizeVars => FinalizeInv' /\ [RouterNext]_routerVars
  BY FinalizeStep
<1>3. QED
  BY <1>1, <1>2, PTL DEF FinalizeSpec

\* The keeper with its restarts, lost and late transactions, and the indexers beside it, are
\* callers of the router like any other: the books stay true and a sweep stays bounded
\* whatever they do.
THEOREM FinalizeImplementsRouter == FinalizeSpec => RouterSpec /\ RouterKeepsFaith
<1>1. FinalizeInit => RouterInit
  BY DEF FinalizeInit
<1>2. FinalizeSpec => RouterSpec
  BY <1>1, FinalizeInvariant, PTL DEF FinalizeSpec, RouterSpec
<1>3. QED
  BY <1>2, RouterTheorem

\* finalize_one: a keeper that holds the guardian's account never has a user paid in stable
\* instead of the token (a safety half of DeliveriesReachTheUser).
THEOREM KeeperChoosesNothingTheorem == FinalizeSpec => []KeeperChoosesNothing
<1>1. FinalizeInv => KeeperChoosesNothing
  BY DEF FinalizeInv, SenderInv, KeeperChoosesNothing
<1>2. QED
  BY <1>1, FinalizeInvariant, PTL

\* pending_finalize: where the indexers take turns, a swap whose two events were handled is
\* shown as finalized unless its marker was collected (a safety half of
\* DeliveriesReachTheUser).
THEOREM OutcomeIsShownTheorem == FinalizeSpec => []OutcomeIsShown
<1>1. FinalizeInv => OutcomeIsShown
  BY DEF FinalizeInv, TurnsInv, OutcomeIsShown
<1>2. QED
  BY <1>1, FinalizeInvariant, PTL
=============================================================================
