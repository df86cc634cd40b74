---------------------------- MODULE BridgeProofs ----------------------------
(***************************************************************************)
(* Proofs about modules Gate and Bridge, for every set of chains,          *)
(* validators, keys and transfers, any number of reorganisations and any   *)
(* faulty minority below the thresholds, and about what a validator knows  *)
(* of the chains (Corroboration and RefundReads).                          *)
(*                                                                         *)
(* Part one is about the gates alone, with keys that sign anything:        *)
(* storage stays well typed, settlement is final, no lock is ever made     *)
(* twice, and every gate holds what its maps say it should.  Its first     *)
(* lemmas say what each write does to each field.                          *)
(*                                                                         *)
(* Part two is about the bridge of them: no interleaving pays a transfer   *)
(* out twice, nothing is paid that was not locked, and each transfer has   *)
(* the life that Transfer promises.  NoDoublePay is not inductive: a refund *)
(* is safe because a quorum contains an honest validator, who signed it    *)
(* because it had seen the burn in a confirmed block, which the tip still  *)
(* extends.  Inv states each link.                                         *)
(*                                                                         *)
(* Part three is about one validator's two loops: with two endpoints or    *)
(* more of each chain, one of which may say anything, what it signs is     *)
(* true and what it should sign it does not pass over.  Whatever two       *)
(* endpoints have to agree on, one of them is honest; and what an honest   *)
(* one says of a confirmed block stays true.                               *)
(***************************************************************************)
EXTENDS Bridge, RefundReads, Sums

-----------------------------------------------------------------------------
(* Part one: the gates                                                     *)

-----------------------------------------------------------------------------
(* What each write does *)

\* A typed storage has typed fields.
LEMMA FieldTypes ==
  ASSUME NEW g \in GateState
  PROVE  /\ g.nonceTo \in [Chain -> 0 .. MaxNonce]
         /\ g.sentBy \subseteq Sub /\ g.refunded \subseteq Sub
         /\ g.executed \subseteq Sub /\ g.cancelled \subseteq Sub
         /\ g.balance \in Int
BY DEF GateState

\* The fields a write leaves alone.
SameMaps(g, h) ==
  /\ h.sentBy = g.sentBy
  /\ h.refunded = g.refunded
  /\ h.executed = g.executed
  /\ h.cancelled = g.cancelled

LEMMA TakeNonceFields ==
  ASSUME NEW g \in GateState, NEW d \in Chain, g.nonceTo[d] < MaxNonce
  PROVE  /\ TakeNonce(g, d) \in GateState
         /\ TakeNonce(g, d).nonceTo = [g.nonceTo EXCEPT ![d] = @ + 1]
         /\ TakeNonce(g, d).balance = g.balance
         /\ SameMaps(g, TakeNonce(g, d))
BY GateAssumption DEF GateState, TakeNonce, nonceAfter, SameMaps

LEMMA LockFields ==
  ASSUME NEW g \in GateState, NEW s \in Sub
  PROVE  /\ Lock(g, s) \in GateState
         /\ Lock(g, s).nonceTo = g.nonceTo
         /\ Lock(g, s).balance = g.balance
         /\ Lock(g, s).sentBy = g.sentBy \cup {s}
         /\ Lock(g, s).refunded = g.refunded
         /\ Lock(g, s).executed = g.executed
         /\ Lock(g, s).cancelled = g.cancelled
BY DEF GateState, Lock

LEMMA UnlockFields ==
  ASSUME NEW g \in GateState, NEW s \in Sub
  PROVE  /\ Unlock(g, s) \in GateState
         /\ Unlock(g, s).nonceTo = g.nonceTo
         /\ Unlock(g, s).balance = g.balance
         /\ Unlock(g, s).sentBy = g.sentBy \ {s}
         /\ Unlock(g, s).refunded = g.refunded
         /\ Unlock(g, s).executed = g.executed
         /\ Unlock(g, s).cancelled = g.cancelled
BY DEF GateState, Unlock

LEMMA MarkRefundedFields ==
  ASSUME NEW g \in GateState, NEW s \in Sub
  PROVE  /\ MarkRefunded(g, s) \in GateState
         /\ MarkRefunded(g, s).nonceTo = g.nonceTo
         /\ MarkRefunded(g, s).balance = g.balance
         /\ MarkRefunded(g, s).sentBy = g.sentBy
         /\ MarkRefunded(g, s).refunded = g.refunded \cup {s}
         /\ MarkRefunded(g, s).executed = g.executed
         /\ MarkRefunded(g, s).cancelled = g.cancelled
BY DEF GateState, MarkRefunded

LEMMA MarkExecutedFields ==
  ASSUME NEW g \in GateState, NEW s \in Sub
  PROVE  /\ MarkExecuted(g, s) \in GateState
         /\ MarkExecuted(g, s).nonceTo = g.nonceTo
         /\ MarkExecuted(g, s).balance = g.balance
         /\ MarkExecuted(g, s).sentBy = g.sentBy
         /\ MarkExecuted(g, s).refunded = g.refunded
         /\ MarkExecuted(g, s).executed = g.executed \cup {s}
         /\ MarkExecuted(g, s).cancelled = g.cancelled
BY DEF GateState, MarkExecuted

LEMMA MarkCancelledFields ==
  ASSUME NEW g \in GateState, NEW s \in Sub
  PROVE  /\ MarkCancelled(g, s) \in GateState
         /\ MarkCancelled(g, s).nonceTo = g.nonceTo
         /\ MarkCancelled(g, s).balance = g.balance
         /\ MarkCancelled(g, s).sentBy = g.sentBy
         /\ MarkCancelled(g, s).refunded = g.refunded
         /\ MarkCancelled(g, s).executed = g.executed
         /\ MarkCancelled(g, s).cancelled = g.cancelled \cup {s}
BY DEF GateState, MarkCancelled

LEMMA BalanceFields ==
  ASSUME NEW g \in GateState, NEW a \in Int
  PROVE  /\ Receive(g, a) \in GateState /\ Pay(g, a) \in GateState
         /\ Receive(g, a).nonceTo = g.nonceTo /\ Pay(g, a).nonceTo = g.nonceTo
         /\ Receive(g, a).balance = g.balance + a /\ Pay(g, a).balance = g.balance - a
         /\ SameMaps(g, Receive(g, a)) /\ SameMaps(g, Pay(g, a))
BY DEF GateState, Receive, Pay, SameMaps

LEMMA SwitchFields ==
  ASSUME NEW g \in GateState, NEW b \in BOOLEAN
  PROVE  /\ SetPaused(g, b) \in GateState /\ SetSealed(g) \in GateState
         /\ SetPaused(g, b).nonceTo = g.nonceTo /\ SetSealed(g).nonceTo = g.nonceTo
         /\ SetPaused(g, b).balance = g.balance /\ SetSealed(g).balance = g.balance
         /\ SameMaps(g, SetPaused(g, b)) /\ SameMaps(g, SetSealed(g))
BY DEF GateState, SetPaused, SetSealed, SameMaps

-----------------------------------------------------------------------------
(* What each operation does to the gate it is called on *)

\* The transfer that send locks is well formed.
LEMMA SentIsSub ==
  ASSUME GateTypeOK, NEW c \in Chain, NEW d \in Chain, NEW a \in LocalAmount,
         NEW r \in ReceiverBytes, d \in Supported[c], gate[c].nonceTo[d] < MaxNonce
  PROVE  [from |-> c, to |-> d, nonce |-> gate[c].nonceTo[d],
          amount |-> toBridgeAmount(c, a), receiver |-> r] \in Sub
<1>1. toBridgeAmount(c, a) \in Wire
  BY GateAssumption DEF toBridgeAmount
<1>2. gate[c].nonceTo[d] \in 0 .. (MaxNonce - 1)
  BY GateAssumption, FieldTypes DEF GateTypeOK
<1> QED
  BY <1>1, <1>2 DEF Sub

\* Scaling a wire amount back to local units gives an integer.
LEMMA ScaledIsInt ==
  ASSUME NEW c \in Chain, NEW s \in Sub
  PROVE  s.amount * Unit[c] \in Int
<1>1. s.amount \in Nat
  BY GateAssumption DEF Sub
<1>2. Unit[c] \in Nat
  BY GateAssumption
<1> QED
  BY <1>1, <1>2

\* An amount with an exact wire form is scaled to it and back without loss.
LEMMA WholeUnits ==
  ASSUME NEW a \in Nat, NEW u \in Nat \ {0}, a % u = 0
  PROVE  (a \div u) * u = a
BY u > 0

\* The storage of every gate but c's is left alone.
OnlyGate(c) ==
  /\ gate' \in [Chain -> GateState]
  /\ \A e \in Chain : e # c => gate'[e] = gate[e]

\* send writes one lock under the corridor's nonce and moves that nonce on.
Locks(c, s) ==
  /\ s.from = c
  /\ s.nonce = gate[c].nonceTo[s.to]
  /\ gate'[c].nonceTo = [gate[c].nonceTo EXCEPT ![s.to] = @ + 1]
  /\ gate'[c].sentBy = gate[c].sentBy \cup {s}
  /\ gate'[c].refunded = gate[c].refunded
  /\ gate'[c].executed = gate[c].executed
  /\ gate'[c].cancelled = gate[c].cancelled
  /\ gate'[c].balance = gate[c].balance + s.amount * Unit[c]

LEMMA SendStep ==
  ASSUME GateTypeOK, NEW c \in Chain, NEW d \in Chain, NEW a \in LocalAmount,
         NEW r \in ReceiverBytes, send(c, d, a, r)
  PROVE  OnlyGate(c) /\ \E s \in Sub : Locks(c, s)
<1> DEFINE s == [from |-> c, to |-> d, nonce |-> gate[c].nonceTo[d],
                 amount |-> toBridgeAmount(c, a), receiver |-> r]
<1> DEFINE g1 == TakeNonce(gate[c], d)
<1> DEFINE g2 == Lock(g1, s)
<1> DEFINE g3 == Receive(g2, a)
<1>1. gate[c] \in GateState /\ gate[c].nonceTo[d] < MaxNonce /\ a \in Int
  BY GateAssumption DEF GateTypeOK, send
<1>2. s \in Sub
  BY SentIsSub DEF send
<1>3. gate' = [gate EXCEPT ![c] = g3]
  BY DEF send
<1>4. s.from = c /\ s.to = d /\ s.nonce = gate[c].nonceTo[d]
  OBVIOUS
<1>10. s.amount * Unit[c] = a
  <2>1. s.amount = a \div Unit[c]
    BY DEF toBridgeAmount
  <2>2. a % Unit[c] = 0 /\ a \in Nat /\ Unit[c] \in Nat \ {0}
    BY GateAssumption DEF send, HasWireForm
  <2> HIDE DEF s
  <2> QED BY <2>1, <2>2, WholeUnits
<1> HIDE DEF s
<1>5. /\ g1 \in GateState /\ g1.balance = gate[c].balance /\ SameMaps(gate[c], g1)
      /\ g1.nonceTo = [gate[c].nonceTo EXCEPT ![d] = @ + 1]
  BY <1>1, TakeNonceFields
<1> HIDE DEF g1
<1>6. /\ g2 \in GateState /\ g2.balance = g1.balance /\ g2.nonceTo = g1.nonceTo
      /\ g2.sentBy = g1.sentBy \cup {s} /\ g2.refunded = g1.refunded
      /\ g2.executed = g1.executed /\ g2.cancelled = g1.cancelled
  BY <1>2, <1>5, LockFields
<1> HIDE DEF g2
<1>7. g3 \in GateState /\ g3.balance = g2.balance + a /\ g3.nonceTo = g2.nonceTo /\ SameMaps(g2, g3)
  BY <1>1, <1>6, BalanceFields
<1> HIDE DEF g3
<1>8. gate'[c] = g3 /\ OnlyGate(c)
  BY <1>3, <1>7 DEF GateTypeOK, OnlyGate
<1>9. Locks(c, s)
  BY <1>4, <1>5, <1>6, <1>7, <1>8, <1>10 DEF SameMaps, Locks
<1> QED
  BY <1>2, <1>8, <1>9

\* claim consumes an open slot.
Delivers(c, s) ==
  /\ s.to = c
  /\ s \notin gate[c].executed
  /\ gate'[c].nonceTo = gate[c].nonceTo
  /\ gate'[c].sentBy = gate[c].sentBy
  /\ gate'[c].refunded = gate[c].refunded
  /\ gate'[c].executed = gate[c].executed \cup {s}
  /\ gate'[c].cancelled = gate[c].cancelled
  /\ gate[c].balance >= s.amount * Unit[c]
  /\ gate'[c].balance = gate[c].balance - s.amount * Unit[c]

LEMMA ClaimStep ==
  ASSUME GateTypeOK, NEW c \in Chain, NEW s \in Sub, NEW S, claim(c, s, S)
  PROVE  OnlyGate(c) /\ Delivers(c, s)
<1> DEFINE g1 == MarkExecuted(gate[c], s)
<1> DEFINE g2 == Pay(g1, toLocalAmount(c, s.amount))
<1>1. gate[c] \in GateState
  BY DEF GateTypeOK
<1>2. toLocalAmount(c, s.amount) \in Int /\ toLocalAmount(c, s.amount) = s.amount * Unit[c]
  BY ScaledIsInt DEF toLocalAmount
<1>3. gate' = [gate EXCEPT ![c] = g2] /\ s.to = c /\ s \notin gate[c].executed
      /\ gate[c].balance >= toLocalAmount(c, s.amount)
  BY DEF claim, Open
<1>4. /\ g1 \in GateState /\ g1.balance = gate[c].balance /\ g1.nonceTo = gate[c].nonceTo
      /\ g1.sentBy = gate[c].sentBy /\ g1.refunded = gate[c].refunded
      /\ g1.executed = gate[c].executed \cup {s} /\ g1.cancelled = gate[c].cancelled
  BY <1>1, MarkExecutedFields
<1> HIDE DEF g1
<1>5. /\ g2 \in GateState /\ g2.nonceTo = g1.nonceTo /\ SameMaps(g1, g2)
      /\ g2.balance = g1.balance - toLocalAmount(c, s.amount)
  BY <1>2, <1>4, BalanceFields
<1> HIDE DEF g2
<1>6. gate'[c] = g2 /\ OnlyGate(c)
  BY <1>3, <1>5 DEF GateTypeOK, OnlyGate
<1> QED
  BY <1>2, <1>3, <1>4, <1>5, <1>6 DEF SameMaps, Delivers

\* cancel consumes an open slot and marks it burned.
Burns(c, s) ==
  /\ s.to = c
  /\ s \notin gate[c].executed
  /\ gate'[c].nonceTo = gate[c].nonceTo
  /\ gate'[c].sentBy = gate[c].sentBy
  /\ gate'[c].refunded = gate[c].refunded
  /\ gate'[c].executed = gate[c].executed \cup {s}
  /\ gate'[c].cancelled = gate[c].cancelled \cup {s}
  /\ gate'[c].balance = gate[c].balance

LEMMA CancelStep ==
  ASSUME GateTypeOK, NEW c \in Chain, NEW s \in Sub, NEW S, cancel(c, s, S)
  PROVE  OnlyGate(c) /\ Burns(c, s)
<1> DEFINE g1 == MarkExecuted(gate[c], s)
<1> DEFINE g2 == MarkCancelled(g1, s)
<1>1. gate[c] \in GateState
  BY DEF GateTypeOK
<1>3. gate' = [gate EXCEPT ![c] = g2] /\ s.to = c /\ s \notin gate[c].executed
  BY DEF cancel, Open
<1>4. /\ g1 \in GateState /\ g1.balance = gate[c].balance /\ g1.nonceTo = gate[c].nonceTo
      /\ g1.sentBy = gate[c].sentBy /\ g1.refunded = gate[c].refunded
      /\ g1.executed = gate[c].executed \cup {s} /\ g1.cancelled = gate[c].cancelled
  BY <1>1, MarkExecutedFields
<1> HIDE DEF g1
<1>5. /\ g2 \in GateState /\ g2.balance = g1.balance /\ g2.nonceTo = g1.nonceTo
      /\ g2.sentBy = g1.sentBy /\ g2.refunded = g1.refunded
      /\ g2.executed = g1.executed /\ g2.cancelled = g1.cancelled \cup {s}
  BY <1>4, MarkCancelledFields
<1> HIDE DEF g2
<1>6. gate'[c] = g2 /\ OnlyGate(c)
  BY <1>3, <1>5 DEF GateTypeOK, OnlyGate
<1> QED
  BY <1>3, <1>4, <1>5, <1>6 DEF Burns

\* refund turns a lock into a refunded one.
GivesBack(c, s) ==
  /\ s.from = c
  /\ s \in gate[c].sentBy
  /\ gate'[c].nonceTo = gate[c].nonceTo
  /\ gate'[c].sentBy = gate[c].sentBy \ {s}
  /\ gate'[c].refunded = gate[c].refunded \cup {s}
  /\ gate'[c].executed = gate[c].executed
  /\ gate'[c].cancelled = gate[c].cancelled
  /\ gate[c].balance >= s.amount * Unit[c]
  /\ gate'[c].balance = gate[c].balance - s.amount * Unit[c]

LEMMA RefundStep ==
  ASSUME GateTypeOK, NEW c \in Chain, NEW s \in Sub, NEW S, refund(c, s, S)
  PROVE  OnlyGate(c) /\ GivesBack(c, s)
<1> DEFINE g1 == MarkRefunded(gate[c], s)
<1> DEFINE g2 == Unlock(g1, s)
<1> DEFINE g3 == Pay(g2, refundLocalAmount(c, s.amount))
<1>1. gate[c] \in GateState
  BY DEF GateTypeOK
<1>2. refundLocalAmount(c, s.amount) \in Int /\ refundLocalAmount(c, s.amount) = s.amount * Unit[c]
  BY ScaledIsInt DEF refundLocalAmount
<1>3. gate' = [gate EXCEPT ![c] = g3] /\ s.from = c /\ s \in gate[c].sentBy
      /\ gate[c].balance >= refundLocalAmount(c, s.amount)
  BY DEF refund
<1>4. /\ g1 \in GateState /\ g1.balance = gate[c].balance /\ g1.nonceTo = gate[c].nonceTo
      /\ g1.sentBy = gate[c].sentBy /\ g1.refunded = gate[c].refunded \cup {s}
      /\ g1.executed = gate[c].executed /\ g1.cancelled = gate[c].cancelled
  BY <1>1, MarkRefundedFields
<1> HIDE DEF g1
<1>5. /\ g2 \in GateState /\ g2.balance = g1.balance /\ g2.nonceTo = g1.nonceTo
      /\ g2.sentBy = g1.sentBy \ {s} /\ g2.refunded = g1.refunded
      /\ g2.executed = g1.executed /\ g2.cancelled = g1.cancelled
  BY <1>4, UnlockFields
<1> HIDE DEF g2
<1>6. /\ g3 \in GateState /\ g3.nonceTo = g2.nonceTo /\ SameMaps(g2, g3)
      /\ g3.balance = g2.balance - refundLocalAmount(c, s.amount)
  BY <1>2, <1>5, BalanceFields
<1> HIDE DEF g3
<1>7. gate'[c] = g3 /\ OnlyGate(c)
  BY <1>3, <1>6 DEF GateTypeOK, OnlyGate
<1> QED
  BY <1>2, <1>3, <1>4, <1>5, <1>6, <1>7 DEF SameMaps, GivesBack

\* pause, unpause and seal touch no map.
LEMMA SwitchStep ==
  ASSUME GateTypeOK, NEW c \in Chain, pause(c) \/ unpause(c) \/ seal(c)
  PROVE  /\ OnlyGate(c)
         /\ gate'[c].nonceTo = gate[c].nonceTo
         /\ gate'[c].balance = gate[c].balance
         /\ SameMaps(gate[c], gate'[c])
<1>1. gate[c] \in GateState
  BY DEF GateTypeOK
<1>2. CASE pause(c)
  <2>1. gate' = [gate EXCEPT ![c] = SetPaused(gate[c], TRUE)]
    BY <1>2 DEF pause
  <2> QED BY <1>1, <2>1, SwitchFields DEF GateTypeOK, OnlyGate
<1>3. CASE unpause(c)
  <2>1. gate' = [gate EXCEPT ![c] = SetPaused(gate[c], FALSE)]
    BY <1>3 DEF unpause
  <2> QED BY <1>1, <2>1, SwitchFields DEF GateTypeOK, OnlyGate
<1>4. CASE seal(c)
  <2>1. gate' = [gate EXCEPT ![c] = SetSealed(gate[c])]
    BY <1>4 DEF seal
  <2> QED BY <1>1, <2>1, SwitchFields DEF GateTypeOK, OnlyGate
<1> QED
  BY <1>2, <1>3, <1>4

-----------------------------------------------------------------------------
(* Every call has one of five effects on the gate it is made on *)

Switches(c) ==
  /\ gate'[c].nonceTo = gate[c].nonceTo
  /\ gate'[c].balance = gate[c].balance
  /\ SameMaps(gate[c], gate'[c])

Effect(c) ==
  \/ \E s \in Sub : Locks(c, s)
  \/ \E s \in Sub, S \in SUBSET Signer : Delivers(c, s) /\ verifySignatures(c, "transfer", s, S)
  \/ \E s \in Sub, S \in SUBSET Signer : Burns(c, s) /\ verifySignatures(c, "cancel", s, S)
  \/ \E s \in Sub, S \in SUBSET Signer : GivesBack(c, s) /\ verifySignatures(c, "refund", s, S)
  \/ Switches(c)

\* What signatures are about is a transfer.
LEMMA SigSub ==
  ASSUME GateTypeOK, NEW m \in sigs
  PROVE  m.sub \in Sub
BY DEF GateTypeOK, Sig

\* A call on c writes c's storage only, in one of the five ways, and signs nothing.
LEMMA CallEffect ==
  ASSUME GateTypeOK, NEW c \in Chain, Call(c)
  PROVE  OnlyGate(c) /\ Effect(c) /\ sigs' = sigs
<1>1. CASE \E d \in Chain, a \in LocalAmount, r \in ReceiverBytes : send(c, d, a, r)
  <2>1. sigs' = sigs
    BY <1>1 DEF send
  <2> QED BY <1>1, <2>1, SendStep DEF Effect
<1>2. CASE \E m \in sigs, S \in SUBSET Signer : claim(c, m.sub, S)
  <2>1. PICK m \in sigs, S \in SUBSET Signer : claim(c, m.sub, S)
    BY <1>2
  <2>2. m.sub \in Sub
    BY SigSub
  <2>3. verifySignatures(c, "transfer", m.sub, S) /\ sigs' = sigs
    BY <2>1 DEF claim
  <2> QED BY <2>1, <2>2, <2>3, ClaimStep DEF Effect
<1>3. CASE \E m \in sigs, S \in SUBSET Signer : cancel(c, m.sub, S)
  <2>1. PICK m \in sigs, S \in SUBSET Signer : cancel(c, m.sub, S)
    BY <1>3
  <2>2. m.sub \in Sub
    BY SigSub
  <2>3. verifySignatures(c, "cancel", m.sub, S) /\ sigs' = sigs
    BY <2>1 DEF cancel
  <2> QED BY <2>1, <2>2, <2>3, CancelStep DEF Effect
<1>4. CASE \E m \in sigs, S \in SUBSET Signer : refund(c, m.sub, S)
  <2>1. PICK m \in sigs, S \in SUBSET Signer : refund(c, m.sub, S)
    BY <1>4
  <2>2. m.sub \in Sub
    BY SigSub
  <2>3. verifySignatures(c, "refund", m.sub, S) /\ sigs' = sigs
    BY <2>1 DEF refund
  <2> QED BY <2>1, <2>2, <2>3, RefundStep DEF Effect
<1>5. CASE pause(c) \/ unpause(c) \/ seal(c)
  <2>1. sigs' = sigs
    BY <1>5 DEF pause, unpause, seal
  <2> QED BY <1>5, <2>1, SwitchStep DEF Effect, Switches
<1> QED
  BY <1>1, <1>2, <1>3, <1>4, <1>5 DEF Call

\* None of the five effects reopens a slot or takes a lock back.
LEMMA EffectOneWay ==
  ASSUME GateTypeOK, NEW c \in Chain, OnlyGate(c), Effect(c)
  PROVE  \A e \in Chain : OneWay(gate[e], gate'[e])
<1> SUFFICES ASSUME NEW e \in Chain PROVE OneWay(gate[e], gate'[e])
  OBVIOUS
<1>1. \A d \in Chain : gate[e].nonceTo[d] \in 0 .. MaxNonce
  BY FieldTypes DEF GateTypeOK
<1>2. MaxNonce \in Nat
  BY GateAssumption
<1>3. CASE e # c
  BY <1>1, <1>2, <1>3 DEF OnlyGate, OneWay, DeliveredIn
<1>4. CASE e = c
  <2>1. ASSUME NEW s \in Sub, Locks(c, s) PROVE OneWay(gate[c], gate'[c])
    <3>1. gate[c].nonceTo \in [Chain -> 0 .. MaxNonce]
      BY FieldTypes DEF GateTypeOK
    <3>2. \A d \in Chain : gate[c].nonceTo[d] <= gate'[c].nonceTo[d]
      BY <2>1, <3>1, <1>2 DEF Locks
    <3> QED BY <2>1, <3>2 DEF Locks, OneWay, DeliveredIn
  <2>2. ASSUME NEW s \in Sub, Delivers(c, s) PROVE OneWay(gate[c], gate'[c])
    BY <1>1, <1>2, <1>4, <2>2 DEF Delivers, OneWay, DeliveredIn
  <2>3. ASSUME NEW s \in Sub, Burns(c, s) PROVE OneWay(gate[c], gate'[c])
    BY <1>1, <1>2, <1>4, <2>3 DEF Burns, OneWay, DeliveredIn
  <2>4. ASSUME NEW s \in Sub, GivesBack(c, s) PROVE OneWay(gate[c], gate'[c])
    BY <1>1, <1>2, <1>4, <2>4 DEF GivesBack, OneWay, DeliveredIn
  <2>5. ASSUME Switches(c) PROVE OneWay(gate[c], gate'[c])
    BY <1>1, <1>2, <1>4, <2>5 DEF Switches, SameMaps, OneWay, DeliveredIn
  <2> QED BY <1>4, <2>1, <2>2, <2>3, <2>4, <2>5 DEF Effect
<1> QED
  BY <1>3, <1>4

\* Storage that does not change is trivially one way.
LEMMA OneWayRefl ==
  ASSUME NEW g \in GateState
  PROVE  OneWay(g, g)
<1>1. \A d \in Chain : g.nonceTo[d] \in 0 .. MaxNonce
  BY FieldTypes
<1> QED
  BY <1>1, GateAssumption DEF OneWay, DeliveredIn

-----------------------------------------------------------------------------
(* Theorems *)

\* A fresh gate is well typed.
LEMMA NewGateType ==
  ASSUME NEW c \in Chain
  PROVE  NewGate(c) \in GateState
BY GateAssumption DEF NewGate, GateState

\* Storage and signatures of Gate.sol's model stay well typed, whoever signs what.
THEOREM GateTypeCorrect == GateSpec => []GateTypeOK
<1>1. GateInit => GateTypeOK
  BY NewGateType DEF GateInit, GateTypeOK
<1>2. GateTypeOK /\ [GateNext]_gateVars => GateTypeOK'
  <2> SUFFICES ASSUME GateTypeOK, [GateNext]_gateVars PROVE GateTypeOK'
    OBVIOUS
  <2>1. ASSUME NEW c \in Chain, Call(c) PROVE GateTypeOK'
    BY <2>1, CallEffect DEF OnlyGate, GateTypeOK
  <2>2. ASSUME NEW v \in Signer, NEW k \in Kind, NEW s \in Signable, sign(v, k, s)
        PROVE  GateTypeOK'
    <3>1. [kind |-> k, sub |-> s, signer |-> v] \in Sig
      BY SignableAssumption DEF Sig
    <3> QED BY <2>2, <3>1 DEF sign, GateTypeOK
  <2>3. CASE UNCHANGED gateVars
    BY <2>3 DEF gateVars, GateTypeOK
  <2> QED BY <2>1, <2>2, <2>3 DEF GateNext
<1> QED
  BY <1>1, <1>2, PTL DEF GateSpec

\* No sequence of send, claim, cancel and refund calls reopens a consumed slot of
\* Gate.sol, burns a delivered one, or takes a lock back except by refunding it.
THEOREM Finality == GateSpec => SettlementIsFinal
<1>1. GateTypeOK /\ [GateNext]_gateVars
        => [\A c \in Chain : OneWay(gate[c], gate'[c])]_gateVars
  <2> SUFFICES ASSUME GateTypeOK, GateNext
               PROVE  \A c \in Chain : OneWay(gate[c], gate'[c])
    BY DEF gateVars
  <2>1. ASSUME NEW c \in Chain, Call(c) PROVE \A e \in Chain : OneWay(gate[e], gate'[e])
    BY <2>1, CallEffect, EffectOneWay
  <2>2. ASSUME NEW v \in Signer, NEW k \in Kind, NEW s \in Signable, sign(v, k, s)
        PROVE  \A e \in Chain : OneWay(gate[e], gate'[e])
    BY <2>2, OneWayRefl DEF sign, GateTypeOK
  <2> QED BY <2>1, <2>2 DEF GateNext
<1> QED
  BY <1>1, GateTypeCorrect, PTL DEF GateSpec, SettlementIsFinal

\* The five effects keep locks fresh: a new lock carries the next nonce of its
\* corridor, which no earlier lock of that corridor can carry.
LEMMA EffectFresh ==
  ASSUME GateTypeOK, LocksAreFresh, NEW c \in Chain, OnlyGate(c), Effect(c)
  PROVE  LocksAreFresh'
<1> DEFINE Fresh(g, e) == /\ g.sentBy \cap g.refunded = {}
                          /\ \A s \in SentIn(g) : s.from = e /\ s.nonce < g.nonceTo[s.to]
<1>1. \A e \in Chain : Fresh(gate[e], e)
  BY DEF LocksAreFresh
<1>2. /\ gate[c].nonceTo \in [Chain -> 0 .. MaxNonce] /\ MaxNonce \in Nat
      /\ gate[c].sentBy \subseteq Sub /\ gate[c].refunded \subseteq Sub
  BY FieldTypes, GateAssumption DEF GateTypeOK
<1>3. \A s \in Sub : s.to \in Chain /\ s.nonce \in Nat
  BY GateAssumption DEF Sub
<1>4. ASSUME NEW s \in Sub, Locks(c, s) PROVE Fresh(gate'[c], c)
  <2>1. s.nonce = gate[c].nonceTo[s.to] /\ s.from = c /\ s.to \in Chain
    BY <1>3, <1>4 DEF Locks
  <2>2. s \notin gate[c].refunded
    BY <1>1, <1>2, <2>1 DEF SentIn
  <2>3. \A t \in SentIn(gate[c]) : t.from = c /\ t.nonce < gate'[c].nonceTo[t.to]
    <3> SUFFICES ASSUME NEW t \in SentIn(gate[c])
                 PROVE  t.from = c /\ t.nonce < gate'[c].nonceTo[t.to]
      OBVIOUS
    <3>1. t \in Sub /\ t.from = c /\ t.nonce < gate[c].nonceTo[t.to]
      BY <1>1, <1>2 DEF SentIn
    <3>2. gate'[c].nonceTo[t.to] \in Nat /\ gate[c].nonceTo[t.to] \in Nat
          /\ gate[c].nonceTo[t.to] <= gate'[c].nonceTo[t.to]
      BY <1>2, <1>3, <1>4, <3>1 DEF Locks
    <3> QED BY <1>3, <3>1, <3>2
  <2>4. s.nonce < gate'[c].nonceTo[s.to]
    BY <1>2, <1>3, <1>4, <2>1 DEF Locks
  <2>5. gate'[c].sentBy = gate[c].sentBy \cup {s} /\ gate'[c].refunded = gate[c].refunded
    BY <1>4 DEF Locks
  <2> QED BY <1>1, <2>1, <2>2, <2>3, <2>4, <2>5 DEF SentIn
<1>5. ASSUME NEW s \in Sub, Delivers(c, s) PROVE Fresh(gate'[c], c)
  BY <1>1, <1>5 DEF Delivers, SentIn
<1>6. ASSUME NEW s \in Sub, Burns(c, s) PROVE Fresh(gate'[c], c)
  BY <1>1, <1>6 DEF Burns, SentIn
<1>7. ASSUME NEW s \in Sub, GivesBack(c, s) PROVE Fresh(gate'[c], c)
  BY <1>1, <1>7 DEF GivesBack, SentIn
<1>8. ASSUME Switches(c) PROVE Fresh(gate'[c], c)
  BY <1>1, <1>8 DEF Switches, SameMaps, SentIn
<1>9. Fresh(gate'[c], c)
  BY <1>4, <1>5, <1>6, <1>7, <1>8 DEF Effect
<1>10. \A e \in Chain : Fresh(gate'[e], e)
  BY <1>1, <1>9 DEF OnlyGate
<1> QED
  BY <1>10 DEF LocksAreFresh, SentIn

\* A submissionId is locked at most once: Gate.sol's nonces are never handed out
\* again, and a refunded lock is never a live one.
THEOREM FreshLocks == GateSpec => []LocksAreFresh
<1>1. GateInit => LocksAreFresh
  BY DEF GateInit, LocksAreFresh, NewGate, SentIn
<1>2. GateTypeOK /\ LocksAreFresh /\ [GateNext]_gateVars => LocksAreFresh'
  <2> SUFFICES ASSUME GateTypeOK, LocksAreFresh, [GateNext]_gateVars PROVE LocksAreFresh'
    OBVIOUS
  <2>1. ASSUME NEW c \in Chain, Call(c) PROVE LocksAreFresh'
    BY <2>1, CallEffect, EffectFresh
  <2>2. ASSUME NEW v \in Signer, NEW k \in Kind, NEW s \in Signable, sign(v, k, s)
        PROVE  LocksAreFresh'
    BY <2>2 DEF sign, LocksAreFresh, SentIn
  <2>3. CASE UNCHANGED gateVars
    BY <2>3 DEF gateVars, LocksAreFresh, SentIn
  <2> QED BY <2>1, <2>2, <2>3 DEF GateNext
<1> QED
  BY <1>1, <1>2, GateTypeCorrect, PTL DEF GateSpec

-----------------------------------------------------------------------------
(* Quorums *)

\* A quorum stays a quorum while signatures accumulate.
LEMMA QuorumGrows ==
  ASSUME GateTypeOK, sigs \subseteq sigs', NEW c \in Chain, NEW k, NEW s, HasQuorum(c, k, s)
  PROVE  HasQuorum(c, k, s)'
<1> DEFINE P == SignersOf(k, s) \cap Members[c]
<1> DEFINE Q == SignersOf(k, s)' \cap Members[c]
<1>1. P \subseteq Q /\ Q \subseteq Signer
  BY DEF SignersOf
<1>2. IsFiniteSet(Q)
  BY <1>1, FS_Subset, GateAssumption
<1>3. Cardinality(P) \in Nat /\ Cardinality(Q) \in Nat /\ Cardinality(P) <= Cardinality(Q)
  <2>1. IsFiniteSet(P) /\ Cardinality(P) <= Cardinality(Q)
    BY <1>1, <1>2, FS_Subset
  <2> QED BY <1>2, <2>1, FS_CardinalityType
<1>4. Cardinality(P) >= Threshold[c] /\ Threshold[c] \in Nat
  BY GateAssumption DEF HasQuorum
<1>5. Cardinality(Q) >= Threshold[c]
  BY <1>3, <1>4
<1> QED
  BY <1>5 DEF HasQuorum

\* An accepted signature array shows a quorum.
LEMMA VerifiedIsQuorum ==
  ASSUME NEW c \in Chain, NEW k, NEW s, NEW S \in SUBSET Signer, verifySignatures(c, k, s, S)
  PROVE  HasQuorum(c, k, s)
<1> DEFINE P == S \cap Members[c]
<1> DEFINE Q == SignersOf(k, s) \cap Members[c]
<1>1. P \subseteq Q /\ Q \subseteq Signer
  BY DEF verifySignatures, SignersOf
<1>2. IsFiniteSet(Q)
  BY <1>1, FS_Subset, GateAssumption
<1>3. Cardinality(P) \in Nat /\ Cardinality(Q) \in Nat /\ Cardinality(P) <= Cardinality(Q)
  <2>1. IsFiniteSet(P) /\ Cardinality(P) <= Cardinality(Q)
    BY <1>1, <1>2, FS_Subset
  <2> QED BY <1>2, <2>1, FS_CardinalityType
<1>4. Cardinality(P) >= Threshold[c] /\ Threshold[c] \in Nat
  BY GateAssumption DEF verifySignatures
<1>5. Cardinality(Q) >= Threshold[c]
  BY <1>3, <1>4
<1> QED
  BY <1>5 DEF HasQuorum

\* The step of QuorumBehindEverySettlement for a call.
LEMMA EffectQuorum ==
  ASSUME GateTypeOK, QuorumBehindEverySettlement, NEW c \in Chain,
         OnlyGate(c), Effect(c), sigs' = sigs
  PROVE  QuorumBehindEverySettlement'
<1> DEFINE Backed(g, e) == /\ \A s \in DeliveredIn(g) : HasQuorum(e, "transfer", s)
                           /\ \A s \in g.cancelled : HasQuorum(e, "cancel", s)
                           /\ \A s \in g.refunded : HasQuorum(e, "refund", s)
<1>1. \A e \in Chain : Backed(gate[e], e)
  BY DEF QuorumBehindEverySettlement
<1>2. Backed(gate'[c], c)
  <2>1. ASSUME NEW s \in Sub, Locks(c, s) PROVE Backed(gate'[c], c)
    BY <1>1, <2>1 DEF Locks, DeliveredIn
  <2>2. ASSUME NEW s \in Sub, NEW S \in SUBSET Signer, Delivers(c, s),
               verifySignatures(c, "transfer", s, S)
        PROVE  Backed(gate'[c], c)
    <3>1. HasQuorum(c, "transfer", s)
      BY <2>2, VerifiedIsQuorum
    <3> QED BY <1>1, <2>2, <3>1 DEF Delivers, DeliveredIn
  <2>3. ASSUME NEW s \in Sub, NEW S \in SUBSET Signer, Burns(c, s),
               verifySignatures(c, "cancel", s, S)
        PROVE  Backed(gate'[c], c)
    <3>1. HasQuorum(c, "cancel", s)
      BY <2>3, VerifiedIsQuorum
    <3> QED BY <1>1, <2>3, <3>1 DEF Burns, DeliveredIn
  <2>4. ASSUME NEW s \in Sub, NEW S \in SUBSET Signer, GivesBack(c, s),
               verifySignatures(c, "refund", s, S)
        PROVE  Backed(gate'[c], c)
    <3>1. HasQuorum(c, "refund", s)
      BY <2>4, VerifiedIsQuorum
    <3> QED BY <1>1, <2>4, <3>1 DEF GivesBack, DeliveredIn
  <2>5. ASSUME Switches(c) PROVE Backed(gate'[c], c)
    BY <1>1, <2>5 DEF Switches, SameMaps, DeliveredIn
  <2> QED BY <2>1, <2>2, <2>3, <2>4, <2>5 DEF Effect
<1>3. \A e \in Chain : Backed(gate'[e], e)
  BY <1>1, <1>2 DEF OnlyGate
<1> QED
  BY <1>3 DEF QuorumBehindEverySettlement, DeliveredIn, HasQuorum, SignersOf

\* Behind every delivered, burned and refunded transfer stands a quorum of the
\* settling gate's validators in that domain (_verifySignatures).
THEOREM QuorumTheorem == GateSpec => []QuorumBehindEverySettlement
<1>1. GateInit => QuorumBehindEverySettlement
  BY DEF GateInit, QuorumBehindEverySettlement, NewGate, DeliveredIn
<1>2. GateTypeOK /\ QuorumBehindEverySettlement /\ [GateNext]_gateVars
        => QuorumBehindEverySettlement'
  <2> SUFFICES ASSUME GateTypeOK, QuorumBehindEverySettlement, [GateNext]_gateVars
               PROVE  QuorumBehindEverySettlement'
    OBVIOUS
  <2>1. ASSUME NEW c \in Chain, Call(c) PROVE QuorumBehindEverySettlement'
    BY <2>1, CallEffect, EffectQuorum
  <2>2. ASSUME NEW v \in Signer, NEW k \in Kind, NEW s \in Signable, sign(v, k, s)
        PROVE  QuorumBehindEverySettlement'
    <3>1. sigs \subseteq sigs' /\ gate' = gate
      BY <2>2 DEF sign
    <3> QED BY <3>1, QuorumGrows DEF QuorumBehindEverySettlement, DeliveredIn
  <2>3. CASE UNCHANGED gateVars
    BY <2>3 DEF gateVars, QuorumBehindEverySettlement, DeliveredIn, HasQuorum, SignersOf
  <2> QED BY <2>1, <2>2, <2>3 DEF GateNext
<1> QED
  BY <1>1, <1>2, GateTypeCorrect, PTL DEF GateSpec

-----------------------------------------------------------------------------
(* The books.  A lock adds its value to what the gate holds, a delivery and  *)
(* a refund take it away, and each is counted once because a new lock is     *)
(* fresh, a consumed slot was open and a refunded lock was live.             *)

\* A gate whose books are right, with what makes the next entry right: finite
\* maps, live and refunded locks apart, burned slots consumed, old nonces used.
Sound(c, g) ==
  /\ IsFiniteSet(g.sentBy) /\ IsFiniteSet(g.refunded) /\ IsFiniteSet(g.executed)
  /\ g.sentBy \cap g.refunded = {}
  /\ g.cancelled \subseteq g.executed
  /\ \A s \in SentIn(g) : s.from = c /\ s.nonce < g.nonceTo[s.to]
  /\ \A s \in g.executed : s.to = c
  /\ BooksOf(c, g)
  /\ g.balance >= 0

\* The value of a finite set of transfers is an amount; it grows by what joins
\* the set and shrinks by what leaves it.
LEMMA ValueType ==
  ASSUME NEW c \in Chain, NEW T \in SUBSET Sub, IsFiniteSet(T)
  PROVE  LocalValue(c, T) \in Int
<1> DEFINE f == [s \in Sub |-> s.amount * Unit[c]]
<1>1. \A s \in T : f[s] \in Int
  BY ScaledIsInt
<1> HIDE DEF f
<1>2. SumFunctionOnSet(f, T) \in Int
  BY <1>1, SumType
<1> QED
  BY <1>2 DEF LocalValue, f

LEMMA ValueWith ==
  ASSUME NEW c \in Chain, NEW T \in SUBSET Sub, IsFiniteSet(T), NEW s \in Sub, s \notin T
  PROVE  LocalValue(c, T \cup {s}) = LocalValue(c, T) + s.amount * Unit[c]
<1> DEFINE f == [t \in Sub |-> t.amount * Unit[c]]
<1>1. \A t \in T \cup {s} : f[t] \in Int
  BY ScaledIsInt
<1>2. f[s] = s.amount * Unit[c]
  OBVIOUS
<1> HIDE DEF f
<1>3. SumFunctionOnSet(f, T \cup {s}) = SumFunctionOnSet(f, T) + f[s]
  BY <1>1, SumWith
<1> QED
  BY <1>2, <1>3 DEF LocalValue, f

\* The new storage's Sound, from the maps and the balance of the old one.
LEMMA SoundStep ==
  ASSUME GateTypeOK, NEW c \in Chain, OnlyGate(c), Effect(c), Sound(c, gate[c])
  PROVE  Sound(c, gate'[c])
<1> DEFINE g == gate[c]
           h == gate'[c]
           V(T) == LocalValue(c, T)
<1>1. g \in GateState /\ h \in GateState
  BY DEF GateTypeOK, OnlyGate
<1>2. /\ g.sentBy \subseteq Sub /\ g.refunded \subseteq Sub /\ g.executed \subseteq Sub
      /\ g.cancelled \subseteq Sub /\ g.balance \in Int /\ h.balance \in Int
  BY <1>1, FieldTypes
<1>3. /\ IsFiniteSet(g.sentBy) /\ IsFiniteSet(g.refunded) /\ IsFiniteSet(g.executed)
      /\ g.sentBy \cap g.refunded = {} /\ g.cancelled \subseteq g.executed
      /\ \A s \in SentIn(g) : s.from = c /\ s.nonce < g.nonceTo[s.to]
      /\ \A s \in g.executed : s.to = c
      /\ BooksOf(c, g) /\ g.balance >= 0
  BY DEF Sound
<1>4. /\ SentIn(g) \subseteq Sub /\ DeliveredIn(g) \subseteq Sub
      /\ IsFiniteSet(SentIn(g)) /\ IsFiniteSet(DeliveredIn(g))
  BY <1>2, <1>3, FS_Union, FS_Subset DEF SentIn, DeliveredIn
<1>5. V(SentIn(g)) \in Int /\ V(DeliveredIn(g)) \in Int /\ V(g.refunded) \in Int
  BY <1>2, <1>3, <1>4, ValueType
<1>6. Liquidity[c] \in Int
  BY GateAssumption
<1>7. g.balance = Liquidity[c] + V(SentIn(g)) - V(DeliveredIn(g)) - V(g.refunded)
  BY <1>3 DEF BooksOf
<1>8. g.nonceTo \in [Chain -> 0 .. MaxNonce] /\ MaxNonce \in Nat
  BY <1>1, FieldTypes, GateAssumption
<1>9. \A s \in Sub : s.to \in Chain /\ s.nonce \in Nat /\ s.amount * Unit[c] \in Nat
  <2>1. \A s \in Sub : s.to \in Chain /\ s.nonce \in Nat
    BY GateAssumption DEF Sub
  <2>4. \A s \in Sub : s.amount \in Nat
    BY GateAssumption DEF Sub
  <2>2. Unit[c] \in Nat
    BY GateAssumption
  <2>3. \A x, y \in Nat : x * y \in Nat
    OBVIOUS
  <2> QED BY <2>1, <2>2, <2>3, <2>4
<1> HIDE DEF g, h, V
<1>10. ASSUME NEW s \in Sub, Locks(c, s) PROVE Sound(c, h)
  <2>1. /\ s.from = c /\ s.nonce = g.nonceTo[s.to]
        /\ h.nonceTo = [g.nonceTo EXCEPT ![s.to] = @ + 1]
        /\ h.sentBy = g.sentBy \cup {s} /\ h.refunded = g.refunded
        /\ h.executed = g.executed /\ h.cancelled = g.cancelled
        /\ h.balance = g.balance + s.amount * Unit[c]
    BY <1>10 DEF Locks, g, h
  <2>2. s \notin SentIn(g)
    <3> SUFFICES ASSUME s \in SentIn(g) PROVE FALSE
      OBVIOUS
    <3>1. s.nonce < g.nonceTo[s.to] /\ s.nonce \in Nat
      BY <1>3, <1>9
    <3> QED BY <2>1, <3>1
  <2>3. SentIn(h) = SentIn(g) \cup {s} /\ DeliveredIn(h) = DeliveredIn(g)
    BY <2>1 DEF SentIn, DeliveredIn
  <2>4. V(SentIn(h)) = V(SentIn(g)) + s.amount * Unit[c]
    <3>1. LocalValue(c, SentIn(g) \cup {s}) = LocalValue(c, SentIn(g)) + s.amount * Unit[c]
      BY <1>4, <2>2, ValueWith
    <3> QED BY <2>3, <3>1 DEF V
  <2>5. BooksOf(c, h) /\ h.balance >= 0
    <3>1. s.amount * Unit[c] \in Nat
      BY <1>9
    <3>2. /\ h.balance = Liquidity[c] + V(SentIn(h)) - V(DeliveredIn(h)) - V(h.refunded)
          /\ h.balance >= 0
      BY <1>2, <1>3, <1>5, <1>6, <1>7, <2>1, <2>3, <2>4, <3>1
    <3> QED BY <3>2 DEF BooksOf, V
  <2>6. \A t \in SentIn(h) : t.from = c /\ t.nonce < h.nonceTo[t.to]
    <3> SUFFICES ASSUME NEW t \in SentIn(h) PROVE t.from = c /\ t.nonce < h.nonceTo[t.to]
      OBVIOUS
    <3>1. t \in Sub /\ t.from = c
      BY <1>3, <1>4, <2>1, <2>3
    <3>2. t.to \in Chain /\ t.nonce \in Nat /\ g.nonceTo[t.to] \in Nat
      BY <1>8, <1>9, <3>1
    <3>3. CASE t = s
      BY <1>8, <2>1, <3>1, <3>2, <3>3
    <3>4. CASE t # s
      <4>1. t.nonce < g.nonceTo[t.to]
        BY <1>3, <2>3, <3>4
      <4>2. h.nonceTo[t.to] = g.nonceTo[t.to] \/ h.nonceTo[t.to] = g.nonceTo[t.to] + 1
        BY <1>8, <2>1, <3>2
      <4> QED BY <3>1, <3>2, <4>1, <4>2
    <3> QED BY <3>3, <3>4
  <2>7. IsFiniteSet(h.sentBy) /\ IsFiniteSet(h.refunded) /\ IsFiniteSet(h.executed)
    <3>1. IsFiniteSet(g.sentBy \cup {s})
      BY <1>3, FS_AddElement
    <3> QED BY <1>3, <2>1, <3>1
  <2>8. h.sentBy \cap h.refunded = {}
    BY <1>3, <2>1, <2>2 DEF SentIn
  <2> QED BY <1>3, <2>1, <2>5, <2>6, <2>7, <2>8 DEF Sound
<1>11. ASSUME NEW s \in Sub, Delivers(c, s) PROVE Sound(c, h)
  <2>1. /\ s.to = c /\ s \notin g.executed /\ h.nonceTo = g.nonceTo
        /\ h.sentBy = g.sentBy /\ h.refunded = g.refunded
        /\ h.executed = g.executed \cup {s} /\ h.cancelled = g.cancelled
        /\ g.balance >= s.amount * Unit[c] /\ h.balance = g.balance - s.amount * Unit[c]
    BY <1>11 DEF Delivers, g, h
  <2>2. /\ SentIn(h) = SentIn(g) /\ DeliveredIn(h) = DeliveredIn(g) \cup {s}
        /\ s \notin DeliveredIn(g)
    BY <1>3, <2>1 DEF SentIn, DeliveredIn
  <2>3. V(DeliveredIn(h)) = V(DeliveredIn(g)) + s.amount * Unit[c]
    BY <1>4, <2>2, ValueWith DEF V
  <2>4. BooksOf(c, h) /\ h.balance >= 0
    <3>1. s.amount * Unit[c] \in Nat
      BY <1>9
    <3>2. /\ h.balance = Liquidity[c] + V(SentIn(h)) - V(DeliveredIn(h)) - V(h.refunded)
          /\ h.balance >= 0
      BY <1>2, <1>3, <1>5, <1>6, <1>7, <2>1, <2>2, <2>3, <3>1
    <3> QED BY <3>2 DEF BooksOf, V
  <2>5. IsFiniteSet(h.executed)
    BY <1>3, <2>1, FS_AddElement
  <2> QED BY <1>3, <2>1, <2>2, <2>4, <2>5 DEF Sound
<1>12. ASSUME NEW s \in Sub, Burns(c, s) PROVE Sound(c, h)
  <2>1. /\ s.to = c /\ s \notin g.executed /\ h.nonceTo = g.nonceTo
        /\ h.sentBy = g.sentBy /\ h.refunded = g.refunded
        /\ h.executed = g.executed \cup {s} /\ h.cancelled = g.cancelled \cup {s}
        /\ h.balance = g.balance
    BY <1>12 DEF Burns, g, h
  <2>2. SentIn(h) = SentIn(g) /\ DeliveredIn(h) = DeliveredIn(g)
    BY <2>1 DEF SentIn, DeliveredIn
  <2>3. BooksOf(c, h)
    BY <1>3, <2>1, <2>2 DEF BooksOf
  <2>4. IsFiniteSet(h.executed)
    BY <1>3, <2>1, FS_AddElement
  <2> QED BY <1>3, <2>1, <2>2, <2>3, <2>4 DEF Sound
<1>13. ASSUME NEW s \in Sub, GivesBack(c, s) PROVE Sound(c, h)
  <2>1. /\ s.from = c /\ s \in g.sentBy /\ h.nonceTo = g.nonceTo
        /\ h.sentBy = g.sentBy \ {s} /\ h.refunded = g.refunded \cup {s}
        /\ h.executed = g.executed /\ h.cancelled = g.cancelled
        /\ g.balance >= s.amount * Unit[c] /\ h.balance = g.balance - s.amount * Unit[c]
    BY <1>13 DEF GivesBack, g, h
  <2>2. /\ SentIn(h) = SentIn(g) /\ DeliveredIn(h) = DeliveredIn(g)
        /\ s \notin g.refunded
    BY <1>3, <2>1 DEF SentIn, DeliveredIn
  <2>3. V(h.refunded) = V(g.refunded) + s.amount * Unit[c]
    <3>1. LocalValue(c, g.refunded \cup {s}) = LocalValue(c, g.refunded) + s.amount * Unit[c]
      BY <1>2, <1>3, <2>2, ValueWith
    <3> QED BY <2>1, <3>1 DEF V
  <2>4. BooksOf(c, h) /\ h.balance >= 0
    <3>1. s.amount * Unit[c] \in Nat
      BY <1>9
    <3>2. /\ h.balance = Liquidity[c] + V(SentIn(h)) - V(DeliveredIn(h)) - V(h.refunded)
          /\ h.balance >= 0
      BY <1>2, <1>3, <1>5, <1>6, <1>7, <2>1, <2>2, <2>3, <3>1
    <3> QED BY <3>2 DEF BooksOf, V
  <2>5. IsFiniteSet(h.sentBy) /\ IsFiniteSet(h.refunded)
    BY <1>3, <2>1, FS_AddElement, FS_RemoveElement
  <2>6. h.sentBy \cap h.refunded = {}
    BY <1>3, <2>1
  <2> QED BY <1>3, <2>1, <2>2, <2>4, <2>5, <2>6 DEF Sound
<1>14. ASSUME Switches(c) PROVE Sound(c, h)
  <2>1. /\ h.nonceTo = g.nonceTo /\ h.balance = g.balance /\ h.sentBy = g.sentBy
        /\ h.refunded = g.refunded /\ h.executed = g.executed /\ h.cancelled = g.cancelled
    BY <1>14 DEF Switches, SameMaps, g, h
  <2>2. SentIn(h) = SentIn(g) /\ DeliveredIn(h) = DeliveredIn(g)
    BY <2>1 DEF SentIn, DeliveredIn
  <2> QED BY <1>3, <2>1, <2>2 DEF Sound, BooksOf
<1> QED
  BY <1>10, <1>11, <1>12, <1>13, <1>14 DEF Effect, h

\* A new gate holds its liquidity and has nothing in its maps.
LEMMA NewGateSound ==
  ASSUME NEW c \in Chain
  PROVE  Sound(c, NewGate(c))
<1> DEFINE g == NewGate(c)
<1>1. /\ g.sentBy = {} /\ g.refunded = {} /\ g.executed = {} /\ g.cancelled = {}
      /\ g.balance = Liquidity[c]
  BY DEF NewGate
<1>2. SentIn(g) = {} /\ DeliveredIn(g) = {}
  BY <1>1 DEF SentIn, DeliveredIn
<1>3. LocalValue(c, {}) = 0
  BY SumOfNothing DEF LocalValue
<1>4. Liquidity[c] \in Nat
  BY GateAssumption
<1>5. BooksOf(c, g) /\ g.balance >= 0
  BY <1>1, <1>2, <1>3, <1>4 DEF BooksOf
<1> QED
  BY <1>1, <1>2, <1>5, FS_EmptySet DEF Sound

GatesAreSound == \A c \in Chain : Sound(c, gate[c])

\* Whoever signs what, every gate's balance is its liquidity plus what was locked
\* there minus what it delivered and refunded, and it never pays what it has not.
THEOREM GateBooksTheorem == GateSpec => []Books
<1>1. GateInit => GatesAreSound
  BY NewGateSound DEF GateInit, GatesAreSound
<1>2. GateTypeOK /\ GatesAreSound /\ [GateNext]_gateVars => GatesAreSound'
  <2> SUFFICES ASSUME GateTypeOK, GatesAreSound, [GateNext]_gateVars PROVE GatesAreSound'
    OBVIOUS
  <2>1. ASSUME NEW c \in Chain, Call(c) PROVE GatesAreSound'
    BY <2>1, CallEffect, SoundStep DEF GatesAreSound, OnlyGate
  <2>2. CASE gate' = gate
    BY <2>2 DEF GatesAreSound
  <2> QED BY <2>1, <2>2 DEF GateNext, sign, gateVars
<1>3. GatesAreSound => Books
  BY DEF GatesAreSound, Sound, Books
<1> QED
  BY <1>1, <1>2, <1>3, GateTypeCorrect, PTL DEF GateSpec

-----------------------------------------------------------------------------
(* Part two: the bridge                                                    *)

-----------------------------------------------------------------------------
\* The inductive invariant.
Inv ==
  /\ TypeOK
  /\ HonestEvidence
  /\ TipExtendsConfirmed
  /\ DeliveredOnlyIfLocked
  /\ RefundedOnlyIfBurned
  /\ BurnedOnlyIfStuck

-----------------------------------------------------------------------------
(* Quorums *)

\* An accepted signature array holds the signature of an honest validator.
LEMMA QuorumHasHonest ==
  ASSUME NEW c \in Chain, NEW k, NEW s, NEW S \in SUBSET Signer, verifySignatures(c, k, s, S)
  PROVE  \E v \in Honest : [kind |-> k, sub |-> s, signer |-> v] \in sigs
<1> DEFINE P == S \cap Members[c]
<1> DEFINE Q == Faulty \cap Members[c]
<1>1. SUFFICES ASSUME P \subseteq Q PROVE FALSE
  <2>1. PICK v \in P : v \notin Q
    BY <1>1
  <2>2. v \in Honest /\ v \in SignersOf(k, s)
    BY <2>1 DEF Honest, verifySignatures
  <2> QED BY <2>2 DEF SignersOf
<1>2. IsFiniteSet(Q)
  BY FS_Subset, GateAssumption, BridgeAssumption
<1>3. IsFiniteSet(P) /\ Cardinality(P) <= Cardinality(Q)
  BY <1>1, <1>2, FS_Subset
<1>4. Cardinality(P) \in Nat /\ Cardinality(Q) \in Nat
  BY <1>2, <1>3, FS_CardinalityType
<1>5. Cardinality(P) >= Threshold[c] /\ Threshold[c] \in Nat
  BY GateAssumption DEF verifySignatures
<1>6. Cardinality(Q) < Threshold[c]
  BY BridgeAssumption
<1> QED
  BY <1>3, <1>4, <1>5, <1>6

\* What an accepted array proves about the confirmed chains, per domain.
LEMMA VerifiedFacts ==
  ASSUME HonestEvidence, NEW c \in Chain, NEW k \in Kind, NEW s, NEW S \in SUBSET Signer,
         verifySignatures(c, k, s, S)
  PROVE  /\ k \in {"transfer", "cancel"} => s \in SentIn(conf[s.from])
         /\ k = "cancel" => s \in aged
         /\ k = "refund" => s \in conf[s.to].cancelled
<1>1. PICK v \in Honest : [kind |-> k, sub |-> s, signer |-> v] \in sigs
  BY QuorumHasHonest
<1> DEFINE m == [kind |-> k, sub |-> s, signer |-> v]
<1>2. m.kind = k /\ m.sub = s /\ m.signer = v /\ m \in sigs
  BY <1>1
<1> HIDE DEF m
<1> QED
  BY <1>2 DEF HonestEvidence

-----------------------------------------------------------------------------
(* One way *)

\* What extends an extension extends the original.
LEMMA OneWayTrans ==
  ASSUME NEW f \in GateState, NEW g \in GateState, NEW h \in GateState,
         OneWay(f, g), OneWay(g, h)
  PROVE  OneWay(f, h)
<1>1. \A d \in Chain : f.nonceTo[d] \in Int /\ g.nonceTo[d] \in Int /\ h.nonceTo[d] \in Int
  BY FieldTypes, GateAssumption
<1>2. \A d \in Chain : f.nonceTo[d] <= h.nonceTo[d]
  BY <1>1 DEF OneWay
<1>3. f.sentBy \ h.sentBy \subseteq h.refunded
  BY DEF OneWay
<1> QED
  BY <1>2, <1>3 DEF OneWay

\* A one-way change loses no Sent event.
LEMMA OneWaySent ==
  ASSUME NEW g, NEW h, OneWay(g, h)
  PROVE  SentIn(g) \subseteq SentIn(h)
BY DEF OneWay, SentIn

-----------------------------------------------------------------------------
(* One lemma per kind of step *)

\* Any transaction on any gate.
LEMMA CallKeepsInv ==
  ASSUME Inv, NEW c \in Chain, OnlyGate(c), Effect(c), sigs' = sigs,
         UNCHANGED <<conf, records, eligible, aged, view, reorgs>>,
         pauses' \in 0 .. MaxPauses
  PROVE  Inv'
<1>1. TypeOK'
  BY DEF Inv, TypeOK, GateTypeOK, OnlyGate
<1>2. HonestEvidence'
  BY DEF Inv, HonestEvidence, SentIn
<1>3. TipExtendsConfirmed'
  <2>1. \A e \in Chain : OneWay(gate[e], gate'[e])
    BY EffectOneWay DEF Inv, TypeOK
  <2>2. ASSUME NEW e \in Chain PROVE OneWay(conf[e], gate'[e])
    BY <2>1, OneWayTrans DEF Inv, TypeOK, GateTypeOK, OnlyGate, TipExtendsConfirmed
  <2> QED BY <2>2 DEF TipExtendsConfirmed, OneWay, DeliveredIn
<1>4. /\ \A s \in DeliveredIn(gate'[c]) : s \in SentIn(conf[s.from])
      /\ \A s \in gate'[c].refunded : s \in conf[s.to].cancelled
      /\ \A s \in gate'[c].cancelled : s \in SentIn(conf[s.from]) /\ s \in aged
  <2>1. /\ \A s \in DeliveredIn(gate[c]) : s \in SentIn(conf[s.from])
        /\ \A s \in gate[c].refunded : s \in conf[s.to].cancelled
        /\ \A s \in gate[c].cancelled : s \in SentIn(conf[s.from]) /\ s \in aged
    BY DEF Inv, DeliveredOnlyIfLocked, RefundedOnlyIfBurned, BurnedOnlyIfStuck
  <2>2. CASE \E s \in Sub : Locks(c, s)
    BY <2>1, <2>2 DEF Locks, DeliveredIn
  <2>3. CASE \E s \in Sub, S \in SUBSET Signer :
               Delivers(c, s) /\ verifySignatures(c, "transfer", s, S)
    <3>1. PICK s \in Sub, S \in SUBSET Signer :
                 Delivers(c, s) /\ verifySignatures(c, "transfer", s, S)
      BY <2>3
    <3>2. s \in SentIn(conf[s.from])
      BY <3>1, VerifiedFacts DEF Inv, Kind
    <3> QED BY <2>1, <3>1, <3>2 DEF Delivers, DeliveredIn
  <2>4. CASE \E s \in Sub, S \in SUBSET Signer :
               Burns(c, s) /\ verifySignatures(c, "cancel", s, S)
    <3>1. PICK s \in Sub, S \in SUBSET Signer :
                 Burns(c, s) /\ verifySignatures(c, "cancel", s, S)
      BY <2>4
    <3>2. s \in SentIn(conf[s.from]) /\ s \in aged
      BY <3>1, VerifiedFacts DEF Inv, Kind
    <3> QED BY <2>1, <3>1, <3>2 DEF Burns, DeliveredIn
  <2>5. CASE \E s \in Sub, S \in SUBSET Signer :
               GivesBack(c, s) /\ verifySignatures(c, "refund", s, S)
    <3>1. PICK s \in Sub, S \in SUBSET Signer :
                 GivesBack(c, s) /\ verifySignatures(c, "refund", s, S)
      BY <2>5
    <3>2. s \in conf[s.to].cancelled
      BY <3>1, VerifiedFacts DEF Inv, Kind
    <3> QED BY <2>1, <3>1, <3>2 DEF GivesBack, DeliveredIn
  <2>6. CASE Switches(c)
    BY <2>1, <2>6 DEF Switches, SameMaps, DeliveredIn
  <2> QED BY <2>2, <2>3, <2>4, <2>5, <2>6 DEF Effect
<1>5. DeliveredOnlyIfLocked' /\ RefundedOnlyIfBurned' /\ BurnedOnlyIfStuck'
  <2>1. \A e \in Chain : e # c => gate'[e] = gate[e]
    BY DEF OnlyGate
  <2>2. DeliveredOnlyIfLocked'
    BY <1>4, <2>1 DEF Inv, DeliveredOnlyIfLocked, DeliveredIn, SentIn
  <2>3. RefundedOnlyIfBurned'
    BY <1>4, <2>1 DEF Inv, RefundedOnlyIfBurned
  <2>4. BurnedOnlyIfStuck'
    BY <1>4, <2>1 DEF Inv, BurnedOnlyIfStuck, SentIn
  <2> QED BY <2>2, <2>3, <2>4
<1> QED
  BY <1>1, <1>2, <1>3, <1>5 DEF Inv

\* A new confirmed state only adds to what was confirmed before.
LEMMA ConfirmKeepsInv ==
  ASSUME Inv, NEW c \in Chain, Confirm(c)
  PROVE  Inv'
<1>1. /\ conf \in [Chain -> GateState] /\ gate \in [Chain -> GateState]
      /\ conf' = [conf EXCEPT ![c] = gate[c]] /\ gate' = gate
      /\ UNCHANGED <<sigs, records, eligible, aged, view, reorgs, pauses>>
  BY DEF Inv, TypeOK, GateTypeOK, Confirm
<1>2. conf' \in [Chain -> GateState]
  BY <1>1
<1>3. \A e \in Chain : SentIn(conf[e]) \subseteq SentIn(conf'[e])
  <2>1. OneWay(conf[c], gate[c])
    BY DEF Inv, TipExtendsConfirmed
  <2> QED BY <1>1, <2>1, OneWaySent
<1>4. \A e \in Chain : conf[e].cancelled \subseteq conf'[e].cancelled
  <2>1. OneWay(conf[c], gate[c])
    BY DEF Inv, TipExtendsConfirmed
  <2> QED BY <1>1, <2>1 DEF OneWay
<1>5. TypeOK'
  BY <1>1, <1>2 DEF Inv, TypeOK, GateTypeOK
<1>6. \A s \in Sub : s.from \in Chain /\ s.to \in Chain
  BY DEF Sub
<1>7. HonestEvidence'
  <2>1. \A m \in sigs : m.sub \in Sub
    BY SigSub DEF Inv, TypeOK
  <2>2. \A v \in Honest : view[v] # NoView => view[v].sub \in Sub
    BY DEF Inv, TypeOK, View
  <2> QED BY <1>1, <1>3, <1>4, <1>6, <2>1, <2>2 DEF Inv, HonestEvidence
<1>8. TipExtendsConfirmed'
  BY <1>1, OneWayRefl DEF Inv, TipExtendsConfirmed
<1>9. DeliveredOnlyIfLocked' /\ RefundedOnlyIfBurned' /\ BurnedOnlyIfStuck'
  <2>1. \A e \in Chain : /\ DeliveredIn(gate[e]) \subseteq Sub
                         /\ gate[e].refunded \subseteq Sub /\ gate[e].cancelled \subseteq Sub
    BY <1>1, FieldTypes DEF DeliveredIn
  <2>2. DeliveredOnlyIfLocked'
    BY <1>1, <1>3, <1>6, <2>1 DEF Inv, DeliveredOnlyIfLocked
  <2>3. RefundedOnlyIfBurned'
    BY <1>1, <1>4, <1>6, <2>1 DEF Inv, RefundedOnlyIfBurned
  <2>4. BurnedOnlyIfStuck'
    BY <1>1, <1>3, <1>6, <2>1 DEF Inv, BurnedOnlyIfStuck
  <2> QED BY <2>2, <2>3, <2>4
<1> QED
  BY <1>5, <1>7, <1>8, <1>9 DEF Inv

\* Going back to the confirmed state only removes settlements.
LEMMA ReorgKeepsInv ==
  ASSUME Inv, NEW c \in Chain, Reorg(c)
  PROVE  Inv'
<1>1. /\ conf \in [Chain -> GateState] /\ gate \in [Chain -> GateState]
      /\ gate' = [gate EXCEPT ![c] = conf[c]]
      /\ UNCHANGED <<sigs, conf, records, eligible, aged, view, pauses>>
  BY DEF Inv, TypeOK, GateTypeOK, Reorg
<1>2. gate' \in [Chain -> GateState]
  BY <1>1
<1>3. reorgs' \in 0 .. MaxReorgs
  BY BridgeAssumption DEF Inv, TypeOK, Reorg
<1>4. TypeOK'
  BY <1>1, <1>2, <1>3 DEF Inv, TypeOK, GateTypeOK
<1>5. HonestEvidence'
  BY <1>1 DEF Inv, HonestEvidence
<1>6. TipExtendsConfirmed'
  BY <1>1, OneWayRefl DEF Inv, TipExtendsConfirmed
<1>7. \A e \in Chain : /\ DeliveredIn(gate'[e]) \subseteq DeliveredIn(gate[e])
                       /\ gate'[e].refunded \subseteq gate[e].refunded
                       /\ gate'[e].cancelled \subseteq gate[e].cancelled
  <2>1. OneWay(conf[c], gate[c])
    BY DEF Inv, TipExtendsConfirmed
  <2> QED BY <1>1, <2>1 DEF OneWay
<1>8. DeliveredOnlyIfLocked' /\ RefundedOnlyIfBurned' /\ BurnedOnlyIfStuck'
  BY <1>1, <1>7 DEF Inv, DeliveredOnlyIfLocked, RefundedOnlyIfBurned, BurnedOnlyIfStuck
<1> QED
  BY <1>4, <1>5, <1>6, <1>8 DEF Inv

\* Steps that change neither chain: what remains is types and evidence.
LEMMA OffChainKeepsInv ==
  ASSUME Inv, UNCHANGED <<gate, conf>>, aged \subseteq aged', TypeOK', HonestEvidence'
  PROVE  Inv'
<1>1. TipExtendsConfirmed'
  BY DEF Inv, TipExtendsConfirmed
<1>2. DeliveredOnlyIfLocked' /\ RefundedOnlyIfBurned' /\ BurnedOnlyIfStuck'
  BY DEF Inv, DeliveredOnlyIfLocked, RefundedOnlyIfBurned, BurnedOnlyIfStuck
<1> QED
  BY <1>1, <1>2 DEF Inv

\* Transfers in a confirmed log are well formed.
LEMMA ConfirmedIsSub ==
  ASSUME TypeOK, NEW c \in Chain, NEW s \in ConfirmedSends(c)
  PROVE  s \in Sub
<1>1. conf[c] \in GateState
  BY DEF TypeOK
<1> QED
  BY <1>1, FieldTypes DEF ConfirmedSends, SentIn

\* The clock, the indexer and the sweep.
LEMMA BookkeepingKeepsInv ==
  ASSUME Inv, NEW s \in Sub, AgeOut(s) \/ IndexSent(s) \/ Sweep(s)
  PROVE  Inv'
<1>1. /\ UNCHANGED <<gate, sigs, conf, view, reorgs, pauses>> /\ aged \subseteq aged'
      /\ records' \subseteq Sub /\ eligible' \subseteq records' /\ aged' \subseteq Sub
  BY DEF Inv, TypeOK, AgeOut, IndexSent, Sweep
<1>2. TypeOK'
  BY <1>1 DEF Inv, TypeOK, GateTypeOK
<1>3. HonestEvidence'
  BY <1>1 DEF Inv, HonestEvidence
<1> QED
  BY <1>1, <1>2, <1>3, OffChainKeepsInv

\* A signature that is true, or not an honest validator's, is harmless.
LEMMA SignKeepsInv ==
  ASSUME Inv, NEW M \in SUBSET Sig, sigs' = sigs \cup M,
         \A m \in M : m.signer \in Honest =>
           /\ m.kind \in {"transfer", "cancel"} => m.sub \in SentIn(conf[m.sub.from])
           /\ m.kind = "cancel" => m.sub \in aged
           /\ m.kind = "refund" => m.sub \in conf[m.sub.to].cancelled,
         records \subseteq records', records' \subseteq Sub,
         view' \in [Honest -> View \cup {NoView}],
         \A v \in Honest : view'[v] = view[v] \/ view'[v] = NoView,
         UNCHANGED <<gate, conf, eligible, aged, reorgs, pauses>>
  PROVE  Inv'
<1>1. TypeOK'
  BY DEF Inv, TypeOK, GateTypeOK
<1>2. \A m \in sigs' : m.signer \in Honest =>
        /\ m.kind \in {"transfer", "cancel"} => m.sub \in SentIn(conf[m.sub.from])
        /\ m.kind = "cancel" => m.sub \in aged
        /\ m.kind = "refund" => m.sub \in conf[m.sub.to].cancelled
  BY DEF Inv, HonestEvidence
<1>3. \A v \in Honest : view'[v] # NoView =>
        (view'[v].cancelled => view'[v].sub \in conf[view'[v].sub.to].cancelled)
  BY DEF Inv, HonestEvidence
<1>4. HonestEvidence'
  BY <1>2, <1>3 DEF HonestEvidence, SentIn
<1> QED
  BY <1>1, <1>4, OffChainKeepsInv

\* Faulty validators sign what they like; that is no evidence of anything.
LEMMA FaultySignKeepsInv ==
  ASSUME Inv, NEW v \in Faulty, NEW k \in Kind, NEW s \in Signable, FaultySign(v, k, s)
  PROVE  Inv'
<1> DEFINE m == [kind |-> k, sub |-> s, signer |-> v]
<1>1. {m} \in SUBSET Sig /\ m.signer = v
  BY SignableAssumption, BridgeAssumption DEF Sig
<1>2. sigs' = sigs \cup {m} /\ UNCHANGED <<gate, conf, records, eligible, aged, view, reorgs, pauses>>
  BY DEF FaultySign, Sign, offVars
<1>3. v \notin Honest
  BY DEF Honest
<1> HIDE DEF m
<1> QED
  BY <1>1, <1>2, <1>3, SignKeepsInv DEF Inv, TypeOK

\* The scan loop signs what the confirmed log shows.
LEMMA SignTransferKeepsInv ==
  ASSUME Inv, NEW v \in Honest, NEW s \in Sub, SignTransfer(v, s)
  PROVE  Inv'
<1> DEFINE m == [kind |-> "transfer", sub |-> s, signer |-> v]
<1>1. {m} \in SUBSET Sig /\ m.signer = v /\ m.kind = "transfer" /\ m.sub = s
  BY DEF Sig, Kind, Honest
<1>2. /\ sigs' = sigs \cup {m} /\ records' = records \cup {s}
      /\ UNCHANGED <<gate, conf, eligible, aged, view, reorgs, pauses>>
  BY DEF SignTransfer, Sign
<1>3. s \in SentIn(conf[s.from])
  BY DEF SignTransfer, ConfirmedSends
<1> HIDE DEF m
<1> QED
  BY <1>1, <1>2, <1>3, SignKeepsInv DEF Inv, TypeOK

\* What the refund loop reads of a destination is confirmed there.
LEMMA ReadKeepsInv ==
  ASSUME Inv, NEW v \in Honest, NEW s \in Sub, ReadDestination(v, s)
  PROVE  Inv'
<1> DEFINE w == destinationState(s)
<1>1. w \in View /\ w.sub = s /\ w.cancelled = (s \in conf[s.to].cancelled)
  BY DEF destinationState, View
<1>2. view' = [view EXCEPT ![v] = w]
      /\ UNCHANGED <<gate, sigs, conf, records, eligible, aged, reorgs, pauses>>
  BY DEF ReadDestination
<1> HIDE DEF w
<1>3. TypeOK'
  BY <1>1, <1>2 DEF Inv, TypeOK, GateTypeOK
<1>4. HonestEvidence'
  <2>1. view \in [Honest -> View \cup {NoView}]
    BY DEF Inv, TypeOK
  <2>2. \A u \in Honest : view'[u] # NoView =>
          (view'[u].cancelled => view'[u].sub \in conf[view'[u].sub.to].cancelled)
    BY <1>1, <1>2, <2>1 DEF Inv, HonestEvidence
  <2> QED BY <1>2, <2>2 DEF Inv, HonestEvidence
<1> QED
  BY <1>2, <1>3, <1>4, OffChainKeepsInv

\* What the refund loop attests follows from what it read, then and now.
LEMMA AttestKeepsInv ==
  ASSUME Inv, NEW v \in Honest, Attest(v)
  PROVE  Inv'
<1> DEFINE s == view[v].sub
<1> DEFINE M == {[kind |-> k, sub |-> s, signer |-> v] : k \in decide(v, view[v])}
<1>1. view[v] \in View /\ s \in Sub
  BY BridgeAssumption DEF Inv, TypeOK, Attest, View
<1>2. decide(v, view[v]) \subseteq {"cancel", "refund"}
  BY DEF decide
<1>3. M \in SUBSET Sig
  BY <1>1, <1>2 DEF Sig, Kind, Honest
<1>4. ASSUME NEW m \in M
      PROVE  /\ m.kind \in {"transfer", "cancel"} => m.sub \in SentIn(conf[m.sub.from])
             /\ m.kind = "cancel" => m.sub \in aged
             /\ m.kind = "refund" => m.sub \in conf[m.sub.to].cancelled
  <2>1. PICK k \in decide(v, view[v]) : m = [kind |-> k, sub |-> s, signer |-> v]
    OBVIOUS
  <2>2. m.kind = k /\ m.sub = s /\ k \in {"cancel", "refund"}
    BY <2>1, <1>2
  <2>3. CASE k = "cancel"
    <3>1. s.from \in Readable[v] /\ s \in aged /\ SourceOpen(v, s)
      BY <2>1, <2>3 DEF decide
    <3>2. s \in SentIn(conf[s.from])
      BY <3>1 DEF SourceOpen, SentIn
    <3> QED BY <2>2, <2>3, <3>1, <3>2
  <2>4. CASE k = "refund"
    <3>1. view[v].cancelled /\ view[v] # NoView
      BY <2>1, <2>4 DEF decide, Attest
    <3>2. s \in conf[s.to].cancelled
      BY <3>1 DEF Inv, HonestEvidence
    <3> QED BY <2>2, <2>4, <3>2
  <2> QED BY <2>2, <2>3, <2>4
<1>5. /\ sigs' = sigs \cup M /\ view' = [view EXCEPT ![v] = NoView]
      /\ UNCHANGED <<gate, conf, records, eligible, aged, reorgs, pauses>>
  BY DEF Attest
<1> HIDE DEF M
<1>6. view' \in [Honest -> View \cup {NoView}]
      /\ \A u \in Honest : view'[u] = view[u] \/ view'[u] = NoView
  BY <1>5 DEF Inv, TypeOK
<1>7. records' \subseteq Sub /\ records \subseteq records'
  BY <1>5 DEF Inv, TypeOK
<1> QED
  BY <1>3, <1>4, <1>5, <1>6, <1>7, SignKeepsInv

-----------------------------------------------------------------------------
(* Theorems *)

\* The initial states.
LEMMA InitInv == Init => Inv
<1> SUFFICES ASSUME Init PROVE Inv
  OBVIOUS
<1>1. \A c \in Chain : gate[c] = NewGate(c) /\ conf[c] = NewGate(c) /\ NewGate(c) \in GateState
  BY NewGateType DEF Init, GateInit
<1>2. gate \in [Chain -> GateState] /\ conf \in [Chain -> GateState]
  BY NewGateType DEF Init, GateInit
<1>3. \A c \in Chain : /\ NewGate(c).executed = {} /\ NewGate(c).cancelled = {}
                       /\ NewGate(c).refunded = {}
  BY DEF NewGate
<1>4. TypeOK
  BY <1>2, BridgeAssumption DEF Init, GateInit, TypeOK, GateTypeOK
<1>5. HonestEvidence
  BY DEF Init, GateInit, HonestEvidence
<1>6. TipExtendsConfirmed
  BY <1>1, OneWayRefl DEF TipExtendsConfirmed
<1>7. DeliveredOnlyIfLocked /\ RefundedOnlyIfBurned /\ BurnedOnlyIfStuck
  BY <1>1, <1>3 DEF DeliveredOnlyIfLocked, RefundedOnlyIfBurned, BurnedOnlyIfStuck, DeliveredIn
<1> QED
  BY <1>4, <1>5, <1>6, <1>7 DEF Inv

\* Every step, one case per action.
LEMMA NextInv == Inv /\ [Next]_vars => Inv'
<1> SUFFICES ASSUME Inv, [Next]_vars PROVE Inv'
  OBVIOUS
<1> GateTypeOK
  BY DEF Inv, TypeOK
<1>1. ASSUME NEW c \in Chain, Confirm(c) PROVE Inv'
  BY <1>1, ConfirmKeepsInv
<1>2. ASSUME NEW c \in Chain, Reorg(c) PROVE Inv'
  BY <1>2, ReorgKeepsInv
<1>3. ASSUME NEW c \in Chain,
             UserSend(c) \/ AnyClaim(c) \/ AnyCancel(c) \/ AnyRefund(c)
               \/ OwnerUnpause(c) \/ OwnerSeal(c)
      PROVE  Inv'
  <2>1. Call(c) /\ UNCHANGED <<conf, records, eligible, aged, view, reorgs, pauses>>
    BY <1>3 DEF Call, UserSend, AnyClaim, AnyCancel, AnyRefund, OwnerUnpause, OwnerSeal, offVars
  <2>2. pauses' \in 0 .. MaxPauses
    BY <2>1 DEF Inv, TypeOK
  <2> QED BY <2>1, <2>2, CallEffect, CallKeepsInv
<1>4. ASSUME NEW c \in Chain, GuardianPause(c) PROVE Inv'
  <2>1. Call(c) /\ UNCHANGED <<conf, records, eligible, aged, view, reorgs>>
    BY <1>4 DEF Call, GuardianPause
  <2>2. pauses' \in 0 .. MaxPauses
    BY <1>4, BridgeAssumption DEF Inv, TypeOK, GuardianPause
  <2> QED BY <2>1, <2>2, CallEffect, CallKeepsInv
<1>5. ASSUME NEW c \in Chain, NEW s \in ConfirmedSends(c), AgeOut(s) \/ IndexSent(s)
      PROVE  Inv'
  BY <1>5, ConfirmedIsSub, BookkeepingKeepsInv DEF Inv
<1>6. ASSUME NEW c \in Chain, NEW v \in Honest, NEW s \in ConfirmedSends(c), SignTransfer(v, s)
      PROVE  Inv'
  BY <1>6, ConfirmedIsSub, SignTransferKeepsInv DEF Inv
<1>7. ASSUME NEW v \in Faulty, NEW k \in Kind, NEW s \in Signable, FaultySign(v, k, s)
      PROVE  Inv'
  BY <1>7, FaultySignKeepsInv
<1>8. ASSUME NEW s \in records, Sweep(s) PROVE Inv'
  <2>1. s \in Sub
    BY DEF Inv, TypeOK
  <2> QED BY <1>8, <2>1, BookkeepingKeepsInv
<1>9. ASSUME NEW v \in Honest, Attest(v) PROVE Inv'
  BY <1>9, AttestKeepsInv
<1>10. ASSUME NEW v \in Honest, NEW s \in eligible, ReadDestination(v, s) PROVE Inv'
  <2>1. s \in Sub
    BY DEF Inv, TypeOK
  <2> QED BY <1>10, <2>1, ReadKeepsInv
<1>11. CASE UNCHANGED vars
  <2>1. UNCHANGED <<gate, sigs, conf, records, eligible, aged, view, reorgs, pauses>>
    BY <1>11 DEF vars
  <2>2. TypeOK' /\ HonestEvidence'
    BY <2>1 DEF Inv, TypeOK, GateTypeOK, HonestEvidence
  <2> QED BY <2>1, <2>2, OffChainKeepsInv
<1> QED
  BY <1>1, <1>2, <1>3, <1>4, <1>5, <1>6, <1>7, <1>8, <1>9, <1>10, <1>11 DEF Next

\* The chain of facts behind every payout holds in every reachable state.
THEOREM Invariance == Spec => []Inv
BY InitInv, NextInv, PTL DEF Spec

\* A transfer that its destination delivered and its source refunded would have
\* been burned in a confirmed block and delivered on top of it.
LEMMA InvNoDoublePay == Inv => NoDoublePay
<1> SUFFICES ASSUME Inv, NEW s \in Sub,
                    s \in DeliveredIn(gate[s.to]), s \in gate[s.from].refunded
             PROVE  FALSE
  BY DEF NoDoublePay
<1>1. s.from \in Chain /\ s.to \in Chain
  BY DEF Sub
<1>2. s \in conf[s.to].cancelled
  BY <1>1 DEF Inv, RefundedOnlyIfBurned
<1>3. s \in gate[s.to].cancelled
  BY <1>1, <1>2 DEF Inv, TipExtendsConfirmed, OneWay
<1> QED
  BY <1>3 DEF DeliveredIn

\* Type correctness of the composed system: chains, validators, store and keeper.
THEOREM TypeCorrect == Spec => []TypeOK
<1>1. Inv => TypeOK
  BY DEF Inv
<1> QED
  BY <1>1, Invariance, PTL

\* No interleaving of users, keepers, honest validators, faulty validators below
\* the threshold and chain reorganisations pays a transfer out on its destination
\* and refunds it on its source (Gate.sol's refund path, refund.rs's decide).
THEOREM NoDoublePayTheorem == Spec => []NoDoublePay
BY InvNoDoublePay, Invariance, PTL

\* Every payout, burn and refund rests on a fact its chain can no longer take
\* back: a confirmed lock, a confirmed and aged lock, a confirmed burn.
THEOREM SettlementsAreJustified == Spec => []SettledOnlyIfDue
<1>1. Inv => SettledOnlyIfDue
  BY DEF Inv, SettledOnlyIfDue
<1> QED
  BY <1>1, Invariance, PTL

\* What honest validators signed stays true through every reorganisation.
THEOREM EvidenceStaysTrue == Spec => [](HonestEvidence /\ TipExtendsConfirmed)
<1>1. Inv => HonestEvidence /\ TipExtendsConfirmed
  BY DEF Inv
<1> QED
  BY <1>1, Invariance, PTL

-----------------------------------------------------------------------------
(* The bridge implements the abstract lifecycle of module Transfer.  Only   *)
(* Confirm changes what Life is read from, and what it brings into the      *)
(* confirmed state of a chain rests on what was confirmed before it.        *)

\* One block more of confirmed chain moves every transfer by at most one stage.
LEMMA StageMovesForward ==
  ASSUME Inv, NEW c \in Chain, Confirm(c), NEW s \in Sub
  PROVE  Life'[s] = Life[s] \/ <<Life[s], Life'[s]>> \in Abstract!Forward
<1> DEFINE f == conf[s.from]
<1> DEFINE t == conf[s.to]
<1> DEFINE g == conf'[s.from]
<1> DEFINE u == conf'[s.to]
<1>1. s.from \in Chain /\ s.to \in Chain
  BY DEF Sub
<1>2. \A e \in Chain : conf'[e] = IF e = c THEN gate[c] ELSE conf[e]
  BY DEF Confirm, Inv, TypeOK
<1>3. \A e \in Chain : OneWay(conf[e], gate[e])
  BY DEF Inv, TipExtendsConfirmed
<1>4. \A e \in Chain :
        /\ conf[e].refunded \subseteq conf'[e].refunded
        /\ conf[e].cancelled \subseteq conf'[e].cancelled
        /\ DeliveredIn(conf[e]) \subseteq DeliveredIn(conf'[e])
        /\ conf[e].sentBy \ conf'[e].sentBy \subseteq conf'[e].refunded
        /\ conf'[e].refunded \subseteq gate[e].refunded
        /\ conf'[e].cancelled \subseteq gate[e].cancelled
        /\ DeliveredIn(conf'[e]) \subseteq DeliveredIn(gate[e])
  BY <1>2, <1>3 DEF OneWay
<1>5. s \in g.refunded => s \in t.cancelled
  BY <1>1, <1>4 DEF Inv, RefundedOnlyIfBurned
<1>6. s \in DeliveredIn(u) \/ s \in u.cancelled => s \in f.sentBy \/ s \in f.refunded
  BY <1>1, <1>4 DEF Inv, DeliveredOnlyIfLocked, BurnedOnlyIfStuck, SentIn
<1>7. /\ ~(s \in DeliveredIn(t) /\ s \in t.cancelled)
      /\ ~(s \in DeliveredIn(u) /\ s \in u.cancelled)
  BY DEF DeliveredIn
<1>8. /\ s \in f.refunded => s \in g.refunded
      /\ s \in t.cancelled => s \in u.cancelled
      /\ s \in DeliveredIn(t) => s \in DeliveredIn(u)
      /\ s \in f.sentBy => s \in g.sentBy \/ s \in g.refunded
  BY <1>1, <1>4
<1>9. Life[s] = IF s \in f.refunded THEN "refunded"
                ELSE IF s \in DeliveredIn(t) THEN "delivered"
                ELSE IF s \in t.cancelled THEN "burned"
                ELSE IF s \in f.sentBy THEN "locked"
                ELSE "none"
  BY DEF Life
<1>10. Life'[s] = IF s \in g.refunded THEN "refunded"
                  ELSE IF s \in DeliveredIn(u) THEN "delivered"
                  ELSE IF s \in u.cancelled THEN "burned"
                  ELSE IF s \in g.sentBy THEN "locked"
                  ELSE "none"
  BY DEF Life, DeliveredIn
<1> HIDE DEF f, t, g, u
<1>11. CASE s \in f.refunded
  BY <1>8, <1>9, <1>10, <1>11
<1>12. CASE s \notin f.refunded /\ s \in DeliveredIn(t)
  <2>1. s \notin g.refunded
    BY <1>5, <1>7, <1>12
  <2> QED BY <1>8, <1>9, <1>10, <1>12, <2>1
<1>13. CASE s \notin f.refunded /\ s \in t.cancelled
  <2>1. s \notin DeliveredIn(t) /\ s \notin DeliveredIn(u) /\ s \in u.cancelled
    BY <1>7, <1>8, <1>13
  <2>2. Life[s] = "burned" /\ Life'[s] \in {"burned", "refunded"}
    BY <1>9, <1>10, <1>13, <2>1
  <2> QED BY <2>2 DEF Abstract!Forward
<1>14. CASE /\ s \notin f.refunded /\ s \notin DeliveredIn(t) /\ s \notin t.cancelled
            /\ s \in f.sentBy
  <2>1. s \notin g.refunded /\ s \in g.sentBy
    BY <1>5, <1>8, <1>14
  <2>2. Life[s] = "locked" /\ Life'[s] \in {"locked", "delivered", "burned"}
    BY <1>9, <1>10, <1>14, <2>1
  <2> QED BY <2>2 DEF Abstract!Forward
<1>15. CASE /\ s \notin f.refunded /\ s \notin DeliveredIn(t) /\ s \notin t.cancelled
            /\ s \notin f.sentBy
  <2>1. s \notin g.refunded /\ s \notin DeliveredIn(u) /\ s \notin u.cancelled
    BY <1>5, <1>6, <1>15
  <2>2. Life[s] = "none" /\ Life'[s] \in {"none", "locked"}
    BY <1>9, <1>10, <1>15, <2>1
  <2> QED BY <2>2 DEF Abstract!Forward
<1> QED
  BY <1>11, <1>12, <1>13, <1>14, <1>15

\* A step of the bridge is a step of the lifecycle or none at all.
LEMMA StepImplements == Inv /\ [Next]_vars => [Abstract!Next]_Life
<1> SUFFICES ASSUME Inv, [Next]_vars PROVE [Abstract!Next]_Life
  OBVIOUS
<1>1. CASE UNCHANGED conf
  BY <1>1 DEF Life, DeliveredIn
<1>2. CASE \E c \in Chain : Confirm(c)
  <2>1. Life' \in [Sub -> Abstract!Stage]
    BY DEF Life, Abstract!Stage
  <2> QED BY <1>2, <2>1, StageMovesForward DEF Abstract!Next
<1>3. UNCHANGED conf \/ \E c \in Chain : Confirm(c)
  BY DEF Next, vars, offVars, Reorg, UserSend, AnyClaim, AnyCancel, AnyRefund, GuardianPause,
         OwnerUnpause, OwnerSeal, AgeOut, IndexSent, SignTransfer, FaultySign, Sweep, Attest,
         ReadDestination
<1> QED
  BY <1>1, <1>2, <1>3

\* The claim path and the two-phase refund together, through reorganisations and with faulty
\* validators below the thresholds, implement the lifecycle of module Transfer: a confirmed
\* lock is delivered or burned, never both, and goes home only after the burn.
THEOREM BridgeImplementsTransfer == Spec => ImplementsTransfer
<1>1. Init => Abstract!Init
  BY DEF Init, Life, NewGate, DeliveredIn, Abstract!Init, Sub
<1> QED
  BY <1>1, StepImplements, Invariance, PTL DEF Spec, ImplementsTransfer, Abstract!Spec

-----------------------------------------------------------------------------
(* Solvency.  Each gate's books are right at its tip and at its confirmed    *)
(* block; summed over the confirmed blocks, the locks that are not refunded  *)
(* and the deliveries differ by the transfers still in flight, because every *)
(* delivery is one of those locks and none is counted on two chains.         *)

ChainsAreSound ==
  \A c \in Chain : Sound(c, gate[c]) /\ Sound(c, conf[c])

LEMMA InitSound == Init => ChainsAreSound
BY NewGateSound DEF Init, GateInit, ChainsAreSound

\* Calls keep the books of the tip; a confirmation copies the tip's, a
\* reorganisation goes back to the confirmed ones.
LEMMA NextSound == Inv /\ ChainsAreSound /\ [Next]_vars => ChainsAreSound'
<1> SUFFICES ASSUME Inv, ChainsAreSound, [Next]_vars PROVE ChainsAreSound'
  OBVIOUS
<1>1. /\ GateTypeOK /\ conf \in [Chain -> GateState] /\ gate \in [Chain -> GateState]
      /\ \A e \in Chain : Sound(e, gate[e]) /\ Sound(e, conf[e])
  BY DEF Inv, TypeOK, GateTypeOK, ChainsAreSound
<1>2. ASSUME NEW c \in Chain, Confirm(c) PROVE ChainsAreSound'
  <2>1. gate' = gate /\ conf' = [conf EXCEPT ![c] = gate[c]]
    BY <1>2 DEF Confirm
  <2>2. \A e \in Chain : Sound(e, gate'[e]) /\ Sound(e, conf'[e])
    BY <1>1, <2>1
  <2> QED BY <2>2 DEF ChainsAreSound
<1>3. ASSUME NEW c \in Chain, Reorg(c) PROVE ChainsAreSound'
  <2>1. conf' = conf /\ gate' = [gate EXCEPT ![c] = conf[c]]
    BY <1>3 DEF Reorg
  <2>2. \A e \in Chain : Sound(e, gate'[e]) /\ Sound(e, conf'[e])
    BY <1>1, <2>1
  <2> QED BY <2>2 DEF ChainsAreSound
<1>4. ASSUME NEW c \in Chain, Call(c), conf' = conf PROVE ChainsAreSound'
  <2>1. OnlyGate(c) /\ Effect(c)
    BY <1>1, <1>4, CallEffect
  <2>2. Sound(c, gate'[c])
    BY <1>1, <2>1, SoundStep
  <2>3. \A e \in Chain : Sound(e, gate'[e])
    BY <1>1, <2>1, <2>2 DEF OnlyGate
  <2> QED BY <1>1, <1>4, <2>3 DEF ChainsAreSound
<1>5. ASSUME NEW c \in Chain,
             \/ UserSend(c) \/ AnyClaim(c) \/ AnyCancel(c) \/ AnyRefund(c)
             \/ GuardianPause(c) \/ OwnerUnpause(c) \/ OwnerSeal(c)
      PROVE  ChainsAreSound'
  <2>1. Call(c) /\ conf' = conf
    BY <1>5 DEF Call, UserSend, AnyClaim, AnyCancel, AnyRefund, GuardianPause, OwnerUnpause,
                OwnerSeal, offVars
  <2> QED BY <2>1, <1>4
<1>6. CASE UNCHANGED <<gate, conf>>
  BY <1>1, <1>6 DEF ChainsAreSound
<1>7. \/ UNCHANGED <<gate, conf>>
      \/ \E c \in Chain :
           \/ Confirm(c) \/ Reorg(c)
           \/ UserSend(c) \/ AnyClaim(c) \/ AnyCancel(c) \/ AnyRefund(c)
           \/ GuardianPause(c) \/ OwnerUnpause(c) \/ OwnerSeal(c)
  BY DEF Next, vars, offVars, AgeOut, IndexSent, SignTransfer, FaultySign, Sweep, Attest,
         ReadDestination
<1> QED
  BY <1>2, <1>3, <1>5, <1>6, <1>7

\* A sum of wire amounts is a number, and scaled by a gate's unit it is the sum
\* in that gate's smallest units.
LEMMA WireValueType ==
  ASSUME NEW T \in SUBSET Sub, IsFiniteSet(T)
  PROVE  WireValue(T) \in Int
<1> DEFINE f == [s \in Sub |-> s.amount]
<1>1. \A s \in T : f[s] \in Int
  BY GateAssumption DEF Sub
<1> HIDE DEF f
<1>2. SumFunctionOnSet(f, T) \in Int
  BY <1>1, SumType
<1> QED
  BY <1>2 DEF WireValue, f

LEMMA WireValueScaled ==
  ASSUME NEW c \in Chain, NEW T \in SUBSET Sub, IsFiniteSet(T)
  PROVE  LocalValue(c, T) = WireValue(T) * Unit[c]
<1> DEFINE f == [s \in Sub |-> s.amount]
           g == [s \in Sub |-> s.amount * Unit[c]]
<1>1. \A s \in T : f[s] \in Int
  BY GateAssumption DEF Sub
<1>2. \A s \in T : g[s] = f[s] * Unit[c]
  OBVIOUS
<1>3. Unit[c] \in Int
  BY GateAssumption
<1> HIDE DEF f, g
<1>4. SumFunctionOnSet(g, T) = SumFunctionOnSet(f, T) * Unit[c]
  BY <1>1, <1>2, <1>3, SumScaled
<1> QED
  BY <1>4 DEF WireValue, LocalValue, f, g

LEMMA WireValueJoined ==
  ASSUME NEW S \in SUBSET Sub, NEW T \in SUBSET Sub, IsFiniteSet(S), IsFiniteSet(T), S \cap T = {}
  PROVE  WireValue(S \cup T) = WireValue(S) + WireValue(T)
<1> DEFINE f == [s \in Sub |-> s.amount]
<1>1. \A s \in S \cup T : f[s] \in Int
  BY GateAssumption DEF Sub
<1> HIDE DEF f
<1>2. SumFunctionOnSet(f, S \cup T) = SumFunctionOnSet(f, S) + SumFunctionOnSet(f, T)
  BY <1>1, SumJoined
<1> QED
  BY <1>2 DEF WireValue, f

\* Sums over disjoint sets of transfers, one per chain.
LEMMA WireValueOfFamily ==
  ASSUME NEW A \in [Chain -> SUBSET Sub], \A c \in Chain : IsFiniteSet(A[c]),
         \A c, d \in Chain : c # d => A[c] \cap A[d] = {}
  PROVE  /\ IsFiniteSet(Joined(A, Chain))
         /\ SumFunctionOnSet([c \in Chain |-> WireValue(A[c])], Chain)
              = WireValue(Joined(A, Chain))
<1> DEFINE f == [s \in Sub |-> s.amount]
           k == [c \in Chain |-> WireValue(A[c])]
<1>1. \A c \in Chain : \A s \in A[c] : f[s] \in Int
  BY GateAssumption DEF Sub
<1> HIDE DEF f
<1>2. \A c \in Chain : IsFiniteSet(A[c]) /\ k[c] = SumFunctionOnSet(f, A[c])
  BY DEF WireValue, f
<1>3. IsFiniteSet(Chain)
  BY GateAssumption
<1> HIDE DEF k
<1>4. /\ IsFiniteSet(Joined(A, Chain))
      /\ SumFunctionOnSet(k, Chain) = SumFunctionOnSet(f, Joined(A, Chain))
  BY <1>1, <1>2, <1>3, SumOfFamily
<1> QED
  BY <1>4 DEF WireValue, f, k

\* What a sound gate holds beyond its liquidity, in wire units.
LEMMA SoundGateHolds ==
  ASSUME NEW c \in Chain, NEW g \in GateState, Sound(c, g)
  PROVE  /\ g.balance - Liquidity[c]
              = (WireValue(SentIn(g) \ g.refunded) - WireValue(DeliveredIn(g))) * Unit[c]
         /\ WireValue(SentIn(g) \ g.refunded) \in Int /\ WireValue(DeliveredIn(g)) \in Int
         /\ IsFiniteSet(SentIn(g) \ g.refunded) /\ IsFiniteSet(DeliveredIn(g))
<1> DEFINE L == SentIn(g) \ g.refunded
           D == DeliveredIn(g)
           R == g.refunded
<1>1. /\ g.sentBy \subseteq Sub /\ g.refunded \subseteq Sub /\ g.executed \subseteq Sub
      /\ g.balance \in Int
  BY FieldTypes
<1>2. /\ IsFiniteSet(g.sentBy) /\ IsFiniteSet(g.refunded) /\ IsFiniteSet(g.executed)
      /\ g.balance = Liquidity[c] + LocalValue(c, SentIn(g)) - LocalValue(c, D) - LocalValue(c, R)
  BY DEF Sound, BooksOf
<1>3. L \subseteq Sub /\ D \subseteq Sub /\ R \subseteq Sub /\ L \cap R = {} /\ SentIn(g) = L \cup R
  BY <1>1 DEF SentIn, DeliveredIn
<1>4. IsFiniteSet(L) /\ IsFiniteSet(D) /\ IsFiniteSet(R)
  BY <1>2, FS_Subset DEF SentIn, DeliveredIn
<1> HIDE DEF L, D, R
<1>5. SentIn(g) \subseteq Sub /\ IsFiniteSet(SentIn(g))
  BY <1>3, <1>4, FS_Union
<1>6. WireValue(SentIn(g)) = WireValue(L) + WireValue(R)
  BY <1>3, <1>4, WireValueJoined
<1>7. WireValue(L) \in Int /\ WireValue(D) \in Int /\ WireValue(R) \in Int
  BY <1>3, <1>4, WireValueType
<1>8. /\ LocalValue(c, SentIn(g)) = WireValue(SentIn(g)) * Unit[c]
      /\ LocalValue(c, D) = WireValue(D) * Unit[c]
      /\ LocalValue(c, R) = WireValue(R) * Unit[c]
  BY <1>3, <1>4, <1>5, WireValueScaled
<1>9. Unit[c] \in Int /\ Liquidity[c] \in Int
  BY GateAssumption
<1>10. \A l, d, r, u, q \in Int :
         (q + ((l + r) * u) - (d * u) - (r * u)) - q = (l - d) * u
  OBVIOUS
<1>11. g.balance - Liquidity[c] = (WireValue(L) - WireValue(D)) * Unit[c]
  BY <1>2, <1>6, <1>7, <1>8, <1>9, <1>10
<1> QED
  BY <1>4, <1>7, <1>11 DEF L, D

\* A confirmed delivery is of a confirmed lock that is not refunded.
LEMMA DeliveriesAreLocks ==
  ASSUME Inv, NEW c \in Chain, NEW s \in DeliveredIn(conf[c]), s \in Sub, s.to = c
  PROVE  s \in SentIn(conf[s.from]) \ conf[s.from].refunded
<1>1. s.from \in Chain /\ s.to \in Chain
  BY DEF Sub
<1>2. s \in DeliveredIn(gate[c])
  BY DEF Inv, TipExtendsConfirmed, OneWay
<1>3. s \in SentIn(conf[s.from])
  BY <1>2 DEF Inv, DeliveredOnlyIfLocked
<1>4. s \notin gate[s.from].refunded
  BY <1>2, InvNoDoublePay DEF NoDoublePay
<1>5. conf[s.from].refunded \subseteq gate[s.from].refunded
  BY <1>1 DEF Inv, TipExtendsConfirmed, OneWay
<1> QED
  BY <1>3, <1>4, <1>5

LEMMA SoundIsBacked == Inv /\ ChainsAreSound => Backing
<1> SUFFICES ASSUME Inv, ChainsAreSound PROVE Backing
  OBVIOUS
<1> DEFINE A == [c \in Chain |-> SentIn(conf[c]) \ conf[c].refunded]
           D == [c \in Chain |-> DeliveredIn(conf[c])]
           a == [c \in Chain |-> WireValue(A[c])]
           d == [c \in Chain |-> WireValue(D[c])]
           k == [c \in Chain |-> (conf[c].balance - Liquidity[c]) \div Unit[c]]
           UA == Joined(A, Chain)
           UD == Joined(D, Chain)
<1>1. ASSUME NEW c \in Chain
      PROVE  /\ conf[c] \in GateState /\ Sound(c, conf[c])
             /\ A[c] \subseteq Sub /\ D[c] \subseteq Sub
             /\ IsFiniteSet(A[c]) /\ IsFiniteSet(D[c])
             /\ \A s \in A[c] : s.from = c
             /\ \A s \in D[c] : s.to = c
  <2>1. conf[c] \in GateState /\ Sound(c, conf[c])
    BY DEF Inv, TypeOK, ChainsAreSound
  <2>2. conf[c].sentBy \subseteq Sub /\ conf[c].refunded \subseteq Sub /\ conf[c].executed \subseteq Sub
    BY <2>1, FieldTypes
  <2>3. IsFiniteSet(A[c]) /\ IsFiniteSet(D[c])
    BY <2>1, SoundGateHolds
  <2>4. (\A s \in SentIn(conf[c]) : s.from = c) /\ \A s \in conf[c].executed : s.to = c
    BY <2>1 DEF Sound
  <2> QED BY <2>1, <2>2, <2>3, <2>4 DEF SentIn, DeliveredIn
<1>2. ASSUME NEW c \in Chain
      PROVE  /\ (conf[c].balance - Liquidity[c]) % Unit[c] = 0
             /\ k[c] = a[c] - d[c] /\ a[c] \in Int /\ d[c] \in Int
  <2> DEFINE x == WireValue(A[c])
             y == WireValue(D[c])
             b == conf[c].balance - Liquidity[c]
  <2>1. b = (x - y) * Unit[c] /\ x \in Int /\ y \in Int
    BY <1>1, SoundGateHolds
  <2>2. Unit[c] \in Int /\ Unit[c] > 0
    BY GateAssumption
  <2>3. a[c] = x /\ d[c] = y /\ k[c] = b \div Unit[c]
    OBVIOUS
  <2>4. \A z, u \in Int : u > 0 => (z * u) % u = 0 /\ (z * u) \div u = z
    OBVIOUS
  <2> HIDE DEF x, y, b, a, d, k, A, D
  <2>5. x - y \in Int
    BY <2>1
  <2>6. b % Unit[c] = 0 /\ b \div Unit[c] = x - y
    BY <2>1, <2>2, <2>4, <2>5
  <2> QED BY <2>1, <2>3, <2>6 DEF b
<1>3. A \in [Chain -> SUBSET Sub] /\ D \in [Chain -> SUBSET Sub]
  BY <1>1
<1>4. \A c, e \in Chain : c # e => A[c] \cap A[e] = {} /\ D[c] \cap D[e] = {}
  <2> HIDE DEF A, D
  <2> QED BY <1>1
<1>5. UA = UNION {SentIn(conf[c]) \ conf[c].refunded : c \in Chain}
      /\ UD = UNION {DeliveredIn(conf[c]) : c \in Chain}
  BY DEF Joined
<1>6. UD \subseteq UA
  <2> SUFFICES ASSUME NEW c \in Chain, NEW s \in D[c] PROVE s \in UA
    BY DEF Joined
  <2>1. s \in Sub /\ s.to = c /\ s.from \in Chain
    BY <1>1 DEF Sub
  <2>2. s \in A[s.from]
    BY <2>1, DeliveriesAreLocks
  <2> QED BY <2>1, <2>2 DEF Joined
<1>7. UA \subseteq Sub /\ UD \subseteq Sub
  <2> HIDE DEF A, D
  <2> QED BY <1>1 DEF Joined
<1> HIDE DEF A, D, k, UA, UD
<1>8. /\ IsFiniteSet(UA) /\ SumFunctionOnSet(a, Chain) = WireValue(UA)
      /\ IsFiniteSet(UD) /\ SumFunctionOnSet(d, Chain) = WireValue(UD)
  BY <1>1, <1>3, <1>4, WireValueOfFamily DEF UA, UD
<1> HIDE DEF a, d
<1>9. IsFiniteSet(Chain)
  BY GateAssumption
<1>10. SumFunctionOnSet(k, Chain) = SumFunctionOnSet(a, Chain) - SumFunctionOnSet(d, Chain)
  BY <1>2, <1>9, SumSubtracted
<1>11. WireValue(UA) = WireValue(UA \ UD) + WireValue(UD)
  <2>1. UA = (UA \ UD) \cup UD /\ (UA \ UD) \cap UD = {} /\ UA \ UD \subseteq Sub
    BY <1>6, <1>7
  <2>2. IsFiniteSet(UA \ UD)
    BY <1>8, FS_Subset
  <2> QED BY <1>7, <1>8, <2>1, <2>2, WireValueJoined
<1>12. WireValue(UA \ UD) \in Int /\ WireValue(UD) \in Int
  <2>1. IsFiniteSet(UA \ UD)
    BY <1>8, FS_Subset
  <2> QED BY <1>7, <1>8, <2>1, WireValueType
<1>13. SumFunctionOnSet(k, Chain) = WireValue(UA \ UD)
  BY <1>8, <1>10, <1>11, <1>12
<1>14. Outstanding = UA \ UD
  BY <1>5, Zenon DEF Outstanding
<1> QED
  BY <1>2, <1>13, <1>14 DEF Backing, k

\* Whatever users, keepers, faulty validators below the threshold and
\* reorganisations do: every gate's balance agrees with its maps, and over all
\* confirmed blocks the gates hold their liquidity plus what is in flight.
THEOREM SolventTheorem == Spec => []Solvent
<1>1. ChainsAreSound => Books
  BY DEF ChainsAreSound, Sound, Books
<1>2. Inv /\ ChainsAreSound => Solvent
  BY <1>1, SoundIsBacked DEF Solvent
<1> QED
  BY <1>2, InitSound, NextSound, Invariance, PTL DEF Spec

-----------------------------------------------------------------------------
(* Part three: what one validator knows                                    *)

-----------------------------------------------------------------------------
(* Counting votes.  Of two endpoints one is honest.                          *)

LEMMA AnotherOne ==
  ASSUME NEW S, IsFiniteSet(S), Cardinality(S) >= 2, NEW x
  PROVE  \E y \in S : y # x
<1> SUFFICES ASSUME S \subseteq {x} PROVE FALSE
  OBVIOUS
<1>1. IsFiniteSet({x}) /\ Cardinality({x}) = 1
  BY FS_Singleton
<1>2. Cardinality(S) <= 1 /\ Cardinality(S) \in Nat
  BY <1>1, FS_Subset, FS_CardinalityType
<1>3. QED
  BY <1>2

\* A strict majority of two or more has two members.
LEMMA MajorityIsTwo ==
  ASSUME NEW D, IsFiniteSet(D), NEW S \in SUBSET D,
         Cardinality(D) >= 2, 2 * Cardinality(S) > Cardinality(D)
  PROVE  IsFiniteSet(S) /\ Cardinality(S) >= 2
<1>1. IsFiniteSet(S)
  BY FS_Subset
<1>2. Cardinality(S) \in Nat /\ Cardinality(D) \in Nat
  BY <1>1, FS_CardinalityType
<1>3. QED
  BY <1>1, <1>2

LEMMA Extremes ==
  ASSUME NEW S, IsFiniteSet(S), S # {}, S \subseteq Int
  PROVE  /\ \E m \in S : \A x \in S : m >= x
         /\ \E m \in S : \A x \in S : m <= x
<1> DEFINE G == {T \in SUBSET S : T = {} \/ (/\ \E m \in T : \A x \in T : m >= x
                                             /\ \E m \in T : \A x \in T : m <= x)}
<1>1. {} \in G
  OBVIOUS
<1>2. ASSUME NEW T \in SUBSET S, NEW x \in S \ T, T \in G PROVE T \cup {x} \in G
  <2>1. CASE T = {}
    BY <2>1
  <2>2. CASE T # {}
    <3>1. PICK m \in T : \A y \in T : m >= y
      BY <1>2, <2>2
    <3>2. PICK k \in T : \A y \in T : k <= y
      BY <1>2, <2>2
    <3>3. \E h \in T \cup {x} : \A y \in T \cup {x} : h >= y
      <4>1. CASE x >= m
        BY <3>1, <4>1
      <4>2. CASE m >= x
        BY <3>1, <4>2
      <4>3. QED
        BY <4>1, <4>2
    <3>4. \E h \in T \cup {x} : \A y \in T \cup {x} : h <= y
      <4>1. CASE x <= k
        BY <3>2, <4>1
      <4>2. CASE k <= x
        BY <3>2, <4>2
      <4>3. QED
        BY <4>1, <4>2
    <3>5. QED
      BY <3>3, <3>4
  <2>3. QED
    BY <2>1, <2>2
<1> HIDE DEF G
<1>3. S \in G
  BY <1>1, <1>2, FillingUp
<1>4. QED
  BY <1>3 DEF G

LEMMA ValuesAreFinite ==
  ASSUME NEW f, NEW S, IsFiniteSet(S)
  PROVE  IsFiniteSet({f[x] : x \in S})
<1> DEFINE V(T) == {f[x] : x \in T}
           G == {T \in SUBSET S : IsFiniteSet(V(T))}
<1>1. {} \in G
  <2>1. V({}) = {}
    OBVIOUS
  <2>2. QED
    BY <2>1, FS_EmptySet
<1>2. ASSUME NEW T \in SUBSET S, NEW y \in S \ T, T \in G PROVE T \cup {y} \in G
  <2>1. V(T \cup {y}) = V(T) \cup {f[y]}
    OBVIOUS
  <2> HIDE DEF V
  <2>2. IsFiniteSet(V(T) \cup {f[y]})
    BY <1>2, FS_AddElement
  <2>3. QED
    BY <2>1, <2>2
<1> HIDE DEF G
<1>3. S \in G
  BY <1>1, <1>2, FillingUp
<1>4. QED
  BY <1>3 DEF G

\* The floor that majority_floor returns is one that a strict majority is at or above.
LEMMA FloorHasMajority ==
  ASSUME NEW said, IsFiniteSet(DOMAIN said), DOMAIN said # {}, \A e \in DOMAIN said : said[e] \in Int
  PROVE  /\ majority_floor(said) \in Int
         /\ 2 * Cardinality({e \in DOMAIN said : said[e] >= majority_floor(said)}) > Cardinality(DOMAIN said)
<1> DEFINE D == DOMAIN said
           Above(v) == {e \in D : said[e] >= v}
           V == {v \in Range(said) : 2 * Cardinality(Above(v)) > Cardinality(D)}
<1>1. IsFiniteSet(Range(said)) /\ Range(said) \subseteq Int /\ Range(said) # {}
  <2>1. Range(said) = {said[e] : e \in D}
    BY DEF Range
  <2>2. QED
    BY <2>1, ValuesAreFinite
<1>2. PICK least \in Range(said) : \A x \in Range(said) : least <= x
  BY <1>1, Extremes
<1>3. least \in V
  <2>1. Above(least) = D
    BY <1>1, <1>2 DEF Range
  <2>2. Cardinality(D) \in Nat /\ Cardinality(D) # 0
    BY FS_CardinalityType, FS_EmptySet
  <2>3. 2 * Cardinality(Above(least)) > Cardinality(D)
    BY <2>1, <2>2
  <2>4. QED
    BY <2>3
<1>4. IsFiniteSet(V) /\ V # {} /\ V \subseteq Int
  BY <1>1, <1>3, FS_Subset
<1>5. majority_floor(said) = CHOOSE x \in V : \A y \in V : x >= y
  BY DEF majority_floor, Max
<1> HIDE DEF V
<1>6. \E m \in V : \A x \in V : m >= x
  BY <1>4, Extremes
<1>7. majority_floor(said) \in V
  BY <1>5, <1>6
<1>8. QED
  BY <1>4, <1>7 DEF V

\* With two answers or more, somebody besides l is at or above the floor ...
LEMMA FloorIsVouched ==
  ASSUME NEW said, IsFiniteSet(DOMAIN said), Cardinality(DOMAIN said) >= 2,
         \A e \in DOMAIN said : said[e] \in Int, NEW l
  PROVE  /\ majority_floor(said) \in Int
         /\ \E e \in DOMAIN said : e # l /\ said[e] >= majority_floor(said)
<1> DEFINE A == {e \in DOMAIN said : said[e] >= majority_floor(said)}
<1>1. DOMAIN said # {}
  BY FS_EmptySet
<1>2. majority_floor(said) \in Int /\ 2 * Cardinality(A) > Cardinality(DOMAIN said)
  BY <1>1, FloorHasMajority
<1>3. A \in SUBSET (DOMAIN said)
  OBVIOUS
<1> HIDE DEF A
<1>4. IsFiniteSet(A) /\ Cardinality(A) >= 2
  BY <1>2, <1>3, MajorityIsTwo
<1>5. \E e \in A : e # l
  BY <1>4, AnotherOne
<1>6. QED
  BY <1>2, <1>5 DEF A

\* ... and somebody besides l says what two have to agree on.
LEMMA AgreementIsVouched ==
  ASSUME NEW said, IsFiniteSet(DOMAIN said), NEW v \in majority(said, 2), NEW l
  PROVE  \E e \in DOMAIN said : e # l /\ said[e] = v
<1>1. Cardinality(Backers(said, v)) >= 2
  BY DEF majority
<1>2. IsFiniteSet(Backers(said, v))
  BY FS_Subset DEF Backers
<1>3. \E e \in Backers(said, v) : e # l
  BY <1>1, <1>2, AnotherOne
<1>4. QED
  BY <1>3 DEF Backers

\* What the honest endpoints say.
LEMMA HonestSay ==
  ASSUME NEW E, NEW T, NEW L, NEW said \in Said(E, T, L)
  PROVE  /\ DOMAIN said = E
         /\ \A e \in E : e # liar => said[e] \in T
         /\ \A e \in E : said[e] \in T \cup L
BY DEF Said

LEMMA AskedAnswer ==
  ASSUME NEW said, NEW down
  PROVE  /\ DOMAIN ask_all(said, down) = {x \in DOMAIN said \ down : said[x] # Fail}
         /\ \A e \in DOMAIN ask_all(said, down) : ask_all(said, down)[e] = said[e] /\ e \in DOMAIN said
BY DEF ask_all

LEMMA RangeIsFinite ==
  ASSUME NEW k \in Nat, NEW S \in SUBSET (1 .. k) PROVE IsFiniteSet(S)
<1>1. IsFiniteSet(1 .. k)
  BY FS_Interval
<1>2. QED
  BY <1>1, FS_Subset

\* What min_agree endpoints of a source or destination with two or more of them agree on is
\* the truth, if the honest ones all say the same.
LEMMA AgreedIsTrue ==
  ASSUME NEW k \in Nat, NEW T, NEW L, NEW said \in Said(1 .. k, {T}, L), NEW down,
         NEW v \in majority(ask_all(said, down), 2)
  PROVE  v = T
<1>1. DOMAIN said = 1 .. k /\ \A e \in 1 .. k : e # liar => said[e] = T
  BY HonestSay
<1>2. IsFiniteSet(DOMAIN ask_all(said, down))
  BY <1>1, AskedAnswer, RangeIsFinite
<1>3. PICK e \in DOMAIN ask_all(said, down) : e # liar /\ ask_all(said, down)[e] = v
  BY <1>2, AgreementIsVouched
<1>4. e \in DOMAIN said /\ said[e] = v
  <2>1. \A x \in DOMAIN ask_all(said, down) : ask_all(said, down)[x] = said[x] /\ x \in DOMAIN said
    BY AskedAnswer
  <2>2. QED
    BY <1>3, <2>1
<1>5. QED
  BY <1>1, <1>3, <1>4

\* The first in turn of some endpoints is one of them.
LEMMA FirstIsOne ==
  ASSUME n \in Nat, NEW s \in 1 .. n, NEW S \in SUBSET (1 .. n), S # {}
  PROVE  First(s, S) \in S
<1> DEFINE turn == [e \in S |-> Turn(s, e)]
           R == {turn[e] : e \in S}
<1>1. IsFiniteSet(R) /\ R # {} /\ R \subseteq Int
  <2>1. IsFiniteSet(S)
    BY RangeIsFinite
  <2>2. QED
    <3>1. IsFiniteSet(R)
      BY <2>1, ValuesAreFinite
    <3>2. \A e \in S : turn[e] \in Int
      BY DEF Turn
    <3>3. QED
      BY <3>1, <3>2
<1>2. PICK m \in R : \A x \in R : m <= x
  <2> HIDE DEF R
  <2>1. QED
    BY <1>1, Extremes
<1>3. \E e \in S : \A f \in S : Turn(s, e) <= Turn(s, f)
  BY <1>2
<1>4. QED
  BY <1>3 DEF First
-----------------------------------------------------------------------------
(* The scan.  A source with one endpoint is never taken at its word, and one  *)
(* with more has two that answer.                                             *)

\* A gate that is read through several endpoints, or not at all.
Corroborated == N >= 2 /\ require

Stuck == {None, 1, MaxBlock + 1}

SourceOK ==
  /\ configured \in {1, N} /\ liar \in Nat /\ stuck \in Stuck
  /\ n \in 0 .. configured /\ (n # 0 /\ configured # 1 => n >= 2)
  /\ active \in {1} \cup 1 .. n
  /\ height \in Nat /\ cursor \in Int /\ cap \in Nat \ {0} /\ cached \in Int \cup {None}

\* A domain two have agreed on is the gate's.
DomainOK ==
  /\ domain # None \/ window # None => n # 0
  /\ configured # 1 => domain \in {None, Domain}

\* With one endpoint nothing gets anywhere.
LoneSource == configured = 1 => batch = None /\ cursor = 1

\* A window ends at a confirmed block, and another endpoint can check it.
WindowOK ==
  /\ domain # None /\ configured # 1 => domain = Domain
  /\ window.to \in Int /\ window.to <= height - Confirmations
  /\ DOMAIN window.heads \subseteq (1 .. n) \ {active}
WindowInv == (window # None \/ batch # None) /\ configured # 1 => domain = Domain /\ n # 0 /\ WindowOK

\* What is left to judge is true, and what has been judged was signed if it should be.
Good(b) == Scale[Event[b]] = SourceScale
BatchInv ==
  batch # None =>
    /\ batch \subseteq Truth(cursor, window.to)
    /\ \A b \in (DOMAIN Event) \cap (cursor .. window.to) :
         Good(b) => Log(b, 0, TRUE) \in signed \cup batch

ScalesOK ==
  /\ scales = [d \in Dest |-> scales[d]]
  /\ \A d \in Dest : scales[d] # None => scales[d] = Scale[d]

CorroborationInv ==
  /\ SourceOK /\ DomainOK /\ LoneSource /\ WindowInv /\ BatchInv /\ ScalesOK
  /\ SignedIsReal /\ NothingPassedOver


LEMMA HeadsAsked ==
  ASSUME CorroborationAssumption, SourceOK, NEW said \in Heads, NEW down
  PROVE  /\ DOMAIN ask_all(said, down) \in SUBSET (1 .. n)
         /\ \A e \in DOMAIN ask_all(said, down) :
              /\ ask_all(said, down)[e] = said[e] /\ said[e] \in Int
              /\ e # liar => said[e] <= height
<1> DEFINE T == (IF height > MaxLag THEN height - MaxLag ELSE 0) .. height
           L == IF stuck = None THEN {Fail} \cup 0 .. (MaxBlock + 1) ELSE {stuck}
<1>1. T \subseteq Int /\ \A t \in T : t <= height
  BY DEF CorroborationAssumption, SourceOK
<1>2. L \subseteq Int
  BY DEF CorroborationAssumption, SourceOK, Stuck, Fail
<1>3. said \in Said(1 .. n, T, L)
  BY DEF Heads
<1> HIDE DEF T, L
<1>4. /\ DOMAIN said = 1 .. n
      /\ \A e \in 1 .. n : e # liar => said[e] \in T
      /\ \A e \in 1 .. n : said[e] \in T \cup L
  <2> DEFINE E == 1 .. n
  <2>1. said \in Said(E, T, L)
    BY <1>3
  <2> HIDE DEF E
  <2>2. /\ DOMAIN said = E
        /\ \A e \in E : e # liar => said[e] \in T
        /\ \A e \in E : said[e] \in T \cup L
    BY <2>1, HonestSay
  <2>3. QED
    BY <2>2 DEF E
<1>5. /\ DOMAIN ask_all(said, down) = {x \in DOMAIN said \ down : said[x] # Fail}
      /\ \A e \in DOMAIN ask_all(said, down) : ask_all(said, down)[e] = said[e]
  BY DEF ask_all
<1>6. QED
  BY <1>1, <1>2, <1>4, <1>5

\* A serving endpoint is one of those that passed the probe.
LEMMA ServingIsOne ==
  ASSUME SourceOK, CorroborationAssumption, n # 0
  PROVE  n \in Nat /\ active \in 1 .. n
BY DEF SourceOK, CorroborationAssumption

LEMMA ConfirmedOnly ==
  ASSUME CorroborationAssumption, SourceOK
  PROVE  /\ Confirmations \in Nat /\ HEAD_LAG_ROTATE \in Nat /\ max_block_range \in Nat \ {0}
         /\ n \in Nat /\ height \in Int /\ cursor \in Int /\ cap \in Nat \ {0}
         /\ DOMAIN Event \subseteq 1 .. MaxBlock /\ MaxBlock \in Nat
BY DEF CorroborationAssumption, SourceOK, Block

\* What is signed and what is behind the cursor stay so while the chain grows.
LEMMA NothingSigned ==
  ASSUME CorroborationAssumption, SourceOK, SignedIsReal, NothingPassedOver,
         height' \in Int, height' >= height, signed' = signed, cursor' = cursor
  PROVE  SignedIsReal' /\ NothingPassedOver'
<1>1. /\ Confirmations \in Nat /\ height \in Int /\ cursor \in Int /\ MaxBlock \in Nat
      /\ DOMAIN Event \subseteq 1 .. MaxBlock
  BY ConfirmedOnly
<1>2. Truth(1, height - Confirmations) \subseteq Truth(1, height' - Confirmations)
  <2> DEFINE A == (DOMAIN Event) \cap (1 .. height - Confirmations)
             B == (DOMAIN Event) \cap (1 .. height' - Confirmations)
  <2>1. A \subseteq B
    BY <1>1
  <2>2. Truth(1, height - Confirmations) = {Log(x, 0, TRUE) : x \in A}
    BY DEF Truth
  <2>3. Truth(1, height' - Confirmations) = {Log(x, 0, TRUE) : x \in B}
    BY DEF Truth
  <2> HIDE DEF A, B
  <2>4. QED
    BY <2>1, <2>2, <2>3
<1>3. SignedIsReal'
  BY <1>2 DEF SignedIsReal
<1>4. NothingPassedOver'
  BY DEF NothingPassedOver
<1>5. QED
  BY <1>3, <1>4

\* Where a window is not open and none is to be judged there is nothing to show of it.
LEMMA NoWindow ==
  ASSUME window = None, batch = None
  PROVE  WindowInv /\ BatchInv
BY DEF WindowInv, BatchInv

LEMMA ConnectInductive ==
  ASSUME CorroborationAssumption, Corroborated, CorroborationInv, connect_for_gate
  PROVE  CorroborationInv'
<1> USE DEF CorroborationInv
<1>1. PICK healthy \in 1 .. configured : may_start(healthy) /\ n' = healthy
  BY DEF connect_for_gate
<1>2. SourceOK'
  BY <1>1 DEF SourceOK, connect_for_gate, may_start, min_agree, Corroborated, CorroborationAssumption
<1>3. DomainOK' /\ LoneSource' /\ ScalesOK'
  BY <1>1 DEF DomainOK, LoneSource, ScalesOK, connect_for_gate, SourceOK, CorroborationAssumption
<1>4. window = None /\ (batch # None => FALSE)
  BY DEF connect_for_gate, DomainOK, WindowInv, LoneSource
<1>5. WindowInv' /\ BatchInv'
  BY <1>4 DEF WindowInv, BatchInv, connect_for_gate
<1>6. SignedIsReal' /\ NothingPassedOver'
  BY NothingSigned DEF connect_for_gate, SourceOK
<1>7. QED
  BY <1>2, <1>3, <1>5, <1>6

LEMMA DomainInductive ==
  ASSUME CorroborationAssumption, Corroborated, CorroborationInv, read_domain
  PROVE  CorroborationInv'
<1> USE DEF CorroborationInv
<1>1. PICK down \in Unreachable(n) : \E said \in Said(1 .. n, {Domain}, {Domain, Domain + 1, Fail}) :
       LET settled == read_agreed(said, down, min_agree(configured))
       IN  domain' \in IF settled = {} THEN {None} ELSE settled
  BY DEF read_domain
<1>2. PICK said \in Said(1 .. n, {Domain}, {Domain, Domain + 1, Fail}) :
       LET settled == read_agreed(said, down, min_agree(configured))
       IN  domain' \in IF settled = {} THEN {None} ELSE settled
  BY <1>1
<1> DEFINE settled == read_agreed(said, down, min_agree(configured))
<1>3. configured # 1 => settled \subseteq {Domain}
  <2>1. SUFFICES ASSUME configured # 1, NEW v \in settled PROVE v = Domain
    OBVIOUS
  <2>2. min_agree(configured) = 2
    BY <2>1 DEF min_agree, Corroborated, SourceOK, CorroborationAssumption
  <2>3. v \in majority(ask_all(said, down), 2)
    BY <2>1, <2>2 DEF read_agreed
  <2>4. n \in Nat
    BY ConfirmedOnly
  <2> DEFINE L == {Domain, Domain + 1, Fail}
  <2>5. said \in Said(1 .. n, {Domain}, L)
    BY <1>2
  <2> HIDE DEF L
  <2>6. QED
    BY <2>3, <2>4, <2>5, AgreedIsTrue
<1>4. domain' \in IF settled = {} THEN {None} ELSE settled
  BY <1>2
<1> HIDE DEF settled
<1>5. configured # 1 => domain' = None \/ domain' = Domain
  BY <1>3, <1>4
<1>6. /\ n # 0 /\ domain = None
      /\ UNCHANGED <<configured, n, liar, stuck, height, active, cursor, cached, cap, window, batch,
                     scales, signed, withheld>>
  BY ConfirmedOnly DEF read_domain
<1>7. SourceOK'
  BY <1>6 DEF SourceOK
<1>8. DomainOK'
  BY <1>5, <1>6 DEF DomainOK
<1>9. LoneSource' /\ ScalesOK'
  BY <1>6 DEF LoneSource, ScalesOK
<1>10. WindowInv'
  BY <1>5, <1>6 DEF WindowInv, WindowOK
<1>11. BatchInv'
  BY <1>6 DEF BatchInv
<1>12. SignedIsReal' /\ NothingPassedOver'
  BY <1>6, NothingSigned DEF SourceOK
<1>13. QED
  BY <1>7, <1>8, <1>9, <1>10, <1>11, <1>12

LEMMA ScanHeadInductive ==
  ASSUME CorroborationAssumption, Corroborated, CorroborationInv, scan_head
  PROVE  CorroborationInv'
<1> USE DEF CorroborationInv
<1>1. PICK down \in Unreachable(n) : \E said \in Heads :
       LET heads == ask_all(said, down)
           up == DOMAIN heads
           head == majority_floor(heads)
           ahead == {e \in up \ {active} : heads[e] >= head}
       IN  IF up = {} THEN UNCHANGED <<cached, active>>
           ELSE /\ cached' = head
                /\ active' = IF trails(heads, head) /\ ahead # {} THEN First(active, ahead) ELSE active
  BY DEF scan_head
<1>2. PICK said \in Heads :
       LET heads == ask_all(said, down)
           up == DOMAIN heads
           head == majority_floor(heads)
           ahead == {e \in up \ {active} : heads[e] >= head}
       IN  IF up = {} THEN UNCHANGED <<cached, active>>
           ELSE /\ cached' = head
                /\ active' = IF trails(heads, head) /\ ahead # {} THEN First(active, ahead) ELSE active
  BY <1>1
<1> DEFINE heads == ask_all(said, down)
           up == DOMAIN heads
           head == majority_floor(heads)
           ahead == {e \in up \ {active} : heads[e] >= head}
<1>3. /\ n # 0 /\ window = None /\ batch = None
      /\ UNCHANGED <<fixed, height, cursor, cap, window, batch, scales, signed, withheld>>
  BY DEF scan_head, Idle, DomainOK
<1>4. n \in Nat /\ active \in 1 .. n
  BY <1>3, ServingIsOne
<1>5. up \in SUBSET (1 .. n) /\ \A e \in up : heads[e] \in Int
  BY HeadsAsked
<1>6. cached' \in Int \cup {None}
  <2>1. up # {} => head \in Int
    BY <1>4, <1>5, RangeIsFinite, FloorHasMajority
  <2>2. QED
    BY <1>2, <2>1 DEF SourceOK
<1>7. active' \in 1 .. n
  <2>1. ahead \in SUBSET (1 .. n)
    BY <1>5
  <2>2. ahead # {} => First(active, ahead) \in ahead
    BY <1>4, <2>1, FirstIsOne
  <2> HIDE DEF ahead
  <2>3. active' = active \/ (ahead # {} /\ active' = First(active, ahead))
    BY <1>2 DEF ahead
  <2>4. QED
    BY <1>4, <2>1, <2>2, <2>3
<1>8. SourceOK'
  BY <1>3, <1>6, <1>7 DEF SourceOK, fixed
<1>9. DomainOK' /\ LoneSource' /\ ScalesOK'
  BY <1>3 DEF DomainOK, LoneSource, ScalesOK, fixed
<1>10. WindowInv' /\ BatchInv'
  BY <1>3 DEF WindowInv, BatchInv
<1>11. SignedIsReal' /\ NothingPassedOver'
  BY <1>3, NothingSigned DEF SourceOK
<1>12. QED
  BY <1>8, <1>9, <1>10, <1>11


\* Of the endpoint that serves and the one that ends the window, one is honest, so the window is
\* confirmed.
LEMMA EndIsConfirmed ==
  ASSUME CorroborationAssumption, SourceOK, n # 0, NEW s \in 1 .. n, NEW to \in Int,
         NEW peers, DOMAIN peers \in SUBSET ((1 .. n) \ {s}), NEW mine \in Int,
         \A e \in DOMAIN peers : peers[e] \in Int /\ (e # liar => peers[e] <= height),
         s # liar => mine <= height,
         clamp_scan_window(cursor, to, mine) # None,
         NEW end, end = corroborated_window_end(s, cursor, clamp_scan_window(cursor, to, mine), peers),
         end # None
  PROVE  end \in Int /\ end <= height - Confirmations
<1> DEFINE serving == clamp_scan_window(cursor, to, mine)
           able == {e \in DOMAIN peers : peers[e] - Confirmations >= cursor}
           f == First(s, able)
<1>1. Confirmations \in Nat /\ n \in Nat /\ height \in Int /\ cursor \in Int
  BY ConfirmedOnly
<1>2. serving = Lower(to, mine - Confirmations)
  BY DEF clamp_scan_window
<1>3. serving \in Int /\ serving <= mine - Confirmations
  BY <1>1, <1>2 DEF Lower
<1> HIDE DEF serving
<1>4. able # {} /\ end = clamp_scan_window(cursor, serving, peers[f])
  BY DEF corroborated_window_end, serving
<1>5. able \in SUBSET (1 .. n)
  OBVIOUS
<1>6. f \in able
  BY <1>1, <1>4, <1>5, FirstIsOne
<1>7. f # s /\ peers[f] \in Int /\ (f # liar => peers[f] <= height)
  BY <1>6
<1> HIDE DEF f, able
<1>8. end = Lower(serving, peers[f] - Confirmations)
  BY <1>4 DEF clamp_scan_window
<1>9. end \in Int /\ end <= serving /\ end <= peers[f] - Confirmations
  BY <1>1, <1>3, <1>7, <1>8 DEF Lower
<1>10. mine <= height \/ peers[f] <= height
  BY <1>7
<1>11. QED
  BY <1>1, <1>3, <1>7, <1>9, <1>10

LEMMA ServeInductive ==
  ASSUME CorroborationAssumption, Corroborated, CorroborationInv, Serve
  PROVE  CorroborationInv'
<1> USE DEF CorroborationInv
<1>1. PICK down \in Unreachable(n) : \E said \in Heads :
       LET up == DOMAIN ask_all(said, down)
           s == with_failover(up)
           serving == clamp_scan_window(cursor, to_block, said[s])
           peers == [e \in up \ {s} |-> said[e]]
           end == corroborated_window_end(s, cursor, serving, peers)
       IN  IF up = {} THEN UNCHANGED <<active, cached, cap, window>>
           ELSE /\ active' = s
                /\ cached' = IF serving = None THEN None ELSE cached
                /\ cap' = IF serving # None /\ n > 1 /\ end = None THEN Higher(cap \div 2, 1)
                          ELSE cap
                /\ window' = IF serving = None \/ (n > 1 /\ end = None) THEN None
                             ELSE [to |-> IF n = 1 THEN serving ELSE end, heads |-> peers]
  BY DEF Serve
<1>2. PICK said \in Heads :
       LET up == DOMAIN ask_all(said, down)
           s == with_failover(up)
           serving == clamp_scan_window(cursor, to_block, said[s])
           peers == [e \in up \ {s} |-> said[e]]
           end == corroborated_window_end(s, cursor, serving, peers)
       IN  IF up = {} THEN UNCHANGED <<active, cached, cap, window>>
           ELSE /\ active' = s
                /\ cached' = IF serving = None THEN None ELSE cached
                /\ cap' = IF serving # None /\ n > 1 /\ end = None THEN Higher(cap \div 2, 1)
                          ELSE cap
                /\ window' = IF serving = None \/ (n > 1 /\ end = None) THEN None
                             ELSE [to |-> IF n = 1 THEN serving ELSE end, heads |-> peers]
  BY <1>1
<1> DEFINE up == DOMAIN ask_all(said, down)
           s == with_failover(up)
           serving == clamp_scan_window(cursor, to_block, said[s])
           peers == [e \in up \ {s} |-> said[e]]
           end == corroborated_window_end(s, cursor, serving, peers)
<1>3. /\ domain # None /\ n # 0 /\ window = None /\ batch = None
      /\ UNCHANGED <<fixed, height, cursor, batch, scales, signed, withheld>>
  BY DEF Serve, Idle, DomainOK
<1>4. /\ n \in Nat /\ active \in 1 .. n
      /\ Confirmations \in Nat /\ height \in Int /\ cursor \in Int /\ cap \in Nat \ {0}
  BY <1>3, ServingIsOne, ConfirmedOnly
<1>5. /\ up \in SUBSET (1 .. n)
      /\ \A e \in up : said[e] \in Int /\ (e # liar => said[e] <= height)
  BY HeadsAsked
<1>6. cached \in Int /\ to_block \in Int
  <2>1. cached # None
    BY DEF Serve, NeedsHead
  <2>2. QED
    BY <1>4, <2>1 DEF SourceOK, to_block, Lower
<1>7. up # {} => s \in up
  BY <1>4, <1>5, FirstIsOne DEF with_failover
<1> HIDE DEF s, up
<1>8. active' \in 1 .. n /\ cached' \in Int \cup {None}
  BY <1>2, <1>4, <1>5, <1>6, <1>7 DEF s, up
<1>9. cap' \in Nat \ {0}
  BY <1>2, <1>4 DEF Higher, s, up
<1>10. SourceOK'
  BY <1>3, <1>8, <1>9 DEF SourceOK, fixed
<1>11. DomainOK' /\ LoneSource' /\ ScalesOK'
  BY <1>3 DEF DomainOK, LoneSource, ScalesOK, fixed
<1>12. BatchInv'
  BY <1>3 DEF BatchInv
<1>13. SignedIsReal' /\ NothingPassedOver'
  BY <1>3, NothingSigned DEF SourceOK
<1>14. WindowInv'
  <2>1. SUFFICES ASSUME window' # None, configured # 1
                 PROVE  domain = Domain /\ WindowOK'
    BY <1>3 DEF WindowInv, fixed
  <2>2. domain = Domain /\ n >= 2
    BY <1>3, <1>4, <2>1 DEF DomainOK, SourceOK
  <2>3. up # {} /\ s \in up
    BY <1>2, <1>3, <1>7, <2>1 DEF s, up
  <2>4. /\ serving # None /\ end # None /\ active' = s
        /\ window' = [to |-> end, heads |-> peers]
    <3>1. n > 1 /\ n # 1
      BY <1>4, <2>2
    <3> HIDE DEF serving, end, peers
    <3>2. /\ active' = s
          /\ window' = IF serving = None \/ (n > 1 /\ end = None) THEN None
                       ELSE [to |-> IF n = 1 THEN serving ELSE end, heads |-> peers]
      BY <1>2, <2>3 DEF serving, end, peers, s, up
    <3>3. QED
      BY <2>1, <3>1, <3>2
  <2>5. DOMAIN peers = up \ {s} /\ \A e \in DOMAIN peers : peers[e] = said[e]
    OBVIOUS
  <2>6. s \in 1 .. n /\ said[s] \in Int /\ (s # liar => said[s] <= height)
    BY <1>5, <2>3
  <2>7. DOMAIN peers \in SUBSET ((1 .. n) \ {s})
    BY <1>5, <2>5
  <2>8. \A e \in DOMAIN peers : peers[e] \in Int /\ (e # liar => peers[e] <= height)
    BY <1>5, <2>5
  <2> HIDE DEF peers
  <2>9. end \in Int /\ end <= height - Confirmations
    BY <1>3, <1>6, <2>4, <2>6, <2>7, <2>8, EndIsConfirmed
  <2> HIDE DEF end
  <2>10. QED
    BY <1>3, <2>2, <2>4, <2>7, <2>9 DEF WindowOK, fixed
<1>15. QED
  BY <1>10, <1>11, <1>12, <1>13, <1>14

\* The verdict is a tally of answers of other endpoints.
LEMMA JudgedByOthers ==
  ASSUME n \in Nat, active \in 1 .. n, DOMAIN window.heads \subseteq (1 .. n) \ {active},
         NEW served, NEW answers
  PROVE  \E heard \in SUBSET ((1 .. n) \ {active}) :
           Judge(served, answers) = tally(active, served, [e \in heard |-> answers[e]])
<1> DEFINE able == {e \in DOMAIN window.heads : window.heads[e] - Confirmations >= window.to}
           asked == {e \in able : answers[e].ok}
           first == First(active, asked)
           heard == IF asked # {} /\ answers[first] = served THEN {first} ELSE asked
<1>1. asked \in SUBSET (1 .. n) /\ active \notin asked
  OBVIOUS
<1>2. asked # {} => first \in asked
  <2> HIDE DEF asked
  <2>1. QED
    BY <1>1, FirstIsOne
<1>3. heard \in SUBSET ((1 .. n) \ {active})
  BY <1>1, <1>2
<1>4. Judge(served, answers) = tally(active, served, [e \in heard |-> answers[e]])
  BY DEF Judge
<1> HIDE DEF heard
<1>5. QED
  BY <1>3, <1>4

\* Who is heard to agree with what is served when a tally says so, and who it promotes.
LEMMA Tallied ==
  ASSUME NEW s, NEW served, NEW replies, IsFiniteSet(DOMAIN replies)
  PROVE  LET v == tally(s, served, replies)
         IN  /\ v.verdict = "Agreed" => \E e \in DOMAIN replies : replies[e] = served
             /\ v.verdict = "Disagreed" => v.promote \subseteq DOMAIN replies
<1> DEFINE for == {e \in DOMAIN replies : replies[e] = served}
           P == {e \in DOMAIN replies \ for :
                   2 * Cardinality(Backers(replies, replies[e])) > Cardinality(DOMAIN replies) + 1}
                \ {First(s, DOMAIN replies \ for)}
           majority_for == 2 * (1 + Cardinality(for)) > Cardinality(DOMAIN replies) + 1
           v == tally(s, served, replies)
<1>1. v = IF DOMAIN replies = {} THEN [verdict |-> "NoAnswer"]
          ELSE IF majority_for THEN [verdict |-> "Agreed"]
          ELSE [verdict |-> "Disagreed", promote |-> P]
  BY DEF tally
<1>2. P \subseteq DOMAIN replies
  OBVIOUS
<1> HIDE DEF P, majority_for, v
<1>3. v.verdict = "Disagreed" => v.promote \subseteq DOMAIN replies
  BY <1>1, <1>2
<1>4. v.verdict = "Agreed" => DOMAIN replies # {} /\ majority_for
  BY <1>1
<1>5. DOMAIN replies # {} /\ for = {} => ~ majority_for
  <2>1. Cardinality(DOMAIN replies) \in Nat /\ (DOMAIN replies # {} => Cardinality(DOMAIN replies) # 0)
    BY FS_CardinalityType, FS_EmptySet
  <2>2. for = {} => Cardinality(for) = 0
    BY FS_EmptySet
  <2> HIDE DEF for
  <2>3. QED
    BY <2>1, <2>2 DEF majority_for
<1>6. v.verdict = "Agreed" => \E e \in DOMAIN replies : replies[e] = served
  BY <1>4, <1>5
<1>7. QED
  BY <1>3, <1>6 DEF v

\* An answer that is agreed to is another endpoint's too.
LEMMA AgreedWith ==
  ASSUME n \in Nat, active \in 1 .. n, DOMAIN window.heads \subseteq (1 .. n) \ {active},
         NEW served, NEW answers, Judge(served, answers).verdict = "Agreed"
  PROVE  \E e \in (1 .. n) \ {active} : answers[e] = served
<1>1. PICK heard \in SUBSET ((1 .. n) \ {active}) :
        Judge(served, answers) = tally(active, served, [e \in heard |-> answers[e]])
  BY JudgedByOthers
<1> DEFINE replies == [e \in heard |-> answers[e]]
<1>2. DOMAIN replies = heard /\ \A e \in heard : replies[e] = answers[e]
  OBVIOUS
<1>3. IsFiniteSet(DOMAIN replies)
  BY <1>2, RangeIsFinite
<1>4. tally(active, served, replies).verdict = "Agreed"
  BY <1>1
<1> HIDE DEF replies
<1>5. \E e \in DOMAIN replies : replies[e] = served
  BY <1>3, <1>4, Tallied
<1>6. QED
  BY <1>2, <1>5

\* Somebody besides the serving endpoint answers what it serves: one of the two is honest, so it
\* is what the chain holds.
LEMMA AgreedIsMined ==
  ASSUME n \in Nat, active \in 1 .. n, DOMAIN window.heads \subseteq (1 .. n) \ {active},
         NEW a, NEW b, NEW said \in Answers(a, b), NEW down, NEW answers,
         answers = [e \in 1 .. n |-> IF e \in down THEN NoAnswer ELSE said[e]],
         answers[active].ok, Judge(answers[active], answers).verdict = "Agreed"
  PROVE  answers[active].logs = Mined(a, b)
<1> DEFINE honest == [ok |-> TRUE, logs |-> Mined(a, b), twice |-> FALSE]
           fake == Log(b, 1, FALSE)
           L == {honest, [honest EXCEPT !.logs = {}], [honest EXCEPT !.logs = @ \cup {fake}],
                 [honest EXCEPT !.logs = {fake}], [honest EXCEPT !.twice = Mined(a, b) # {}]}
           E == 1 .. n
<1>1. said \in Said(E, {honest}, L)
  BY DEF Answers
<1>2. PICK e \in E : e # active /\ answers[e] = answers[active]
  BY AgreedWith
<1>3. PICK h \in E : h # liar /\ answers[h] = answers[active]
  BY <1>2
<1> HIDE DEF L, E
<1>4. said[h] = honest
  <2> HIDE DEF honest
  <2>1. said[h] \in {honest}
    BY <1>1, <1>3, HonestSay
  <2>2. QED
    BY <2>1
<1>5. answers[h] = NoAnswer \/ answers[h] = honest
  BY <1>3, <1>4 DEF E
<1>6. answers[active] # NoAnswer
  BY DEF NoAnswer
<1>7. answers[active] = honest
  BY <1>3, <1>5, <1>6
<1>8. QED
  BY <1>7

LEMMA GetLogsInductive ==
  ASSUME CorroborationAssumption, Corroborated, CorroborationInv, get_logs_corroborated
  PROVE  CorroborationInv'
<1> USE DEF CorroborationInv
<1>1. PICK down \in Unreachable(n) : \E said \in Answers(cursor, window.to) :
       LET answers == [e \in 1 .. n |-> IF e \in down THEN NoAnswer ELSE said[e]]
           served == answers[active]
           v == Judge(served, answers)
       IN  IF ~ served.ok \/ (n > 1 /\ duplicate_positions(served))
              THEN active' = Following(active) /\ Withhold /\ UNCHANGED cap
              ELSE IF n = 1
              THEN /\ UNCHANGED <<active, cap>>
                   /\ IF require \/ Conflict(served) THEN Withhold
                      ELSE batch' = served.logs /\ UNCHANGED window
              ELSE \/ /\ v.verdict = "NoAnswer" /\ Withhold
                      /\ cap' = Higher(cap \div 2, 1) /\ UNCHANGED active
                   \/ /\ v.verdict = "Agreed" /\ batch' = served.logs
                      /\ cap' = Lower(cap * 2, max_block_range) /\ UNCHANGED <<active, window>>
                   \/ /\ v.verdict = "Disagreed" /\ Withhold
                      /\ promote(v.promote) /\ UNCHANGED cap
  BY DEF get_logs_corroborated
<1>2. PICK said \in Answers(cursor, window.to) :
       LET answers == [e \in 1 .. n |-> IF e \in down THEN NoAnswer ELSE said[e]]
           served == answers[active]
           v == Judge(served, answers)
       IN  IF ~ served.ok \/ (n > 1 /\ duplicate_positions(served))
              THEN active' = Following(active) /\ Withhold /\ UNCHANGED cap
              ELSE IF n = 1
              THEN /\ UNCHANGED <<active, cap>>
                   /\ IF require \/ Conflict(served) THEN Withhold
                      ELSE batch' = served.logs /\ UNCHANGED window
              ELSE \/ /\ v.verdict = "NoAnswer" /\ Withhold
                      /\ cap' = Higher(cap \div 2, 1) /\ UNCHANGED active
                   \/ /\ v.verdict = "Agreed" /\ batch' = served.logs
                      /\ cap' = Lower(cap * 2, max_block_range) /\ UNCHANGED <<active, window>>
                   \/ /\ v.verdict = "Disagreed" /\ Withhold
                      /\ promote(v.promote) /\ UNCHANGED cap
  BY <1>1
<1> DEFINE answers == [e \in 1 .. n |-> IF e \in down THEN NoAnswer ELSE said[e]]
           served == answers[active]
           v == Judge(served, answers)
<1>3. /\ window # None /\ batch = None /\ n # 0
      /\ UNCHANGED <<fixed, height, cursor, cached, scales, signed, withheld>>
  BY DEF get_logs_corroborated, DomainOK
<1>4. /\ n \in Nat /\ active \in 1 .. n /\ max_block_range \in Nat \ {0}
      /\ Confirmations \in Nat /\ height \in Int /\ cursor \in Int /\ cap \in Nat \ {0}
  BY <1>3, ServingIsOne, ConfirmedOnly
<1>5. configured = 1 => n = 1
  BY <1>3 DEF SourceOK
<1>6. configured # 1 => WindowOK /\ domain = Domain /\ n >= 2
  BY <1>3, <1>4 DEF WindowInv, SourceOK
<1>7. \/ active' = Following(active) /\ Withhold /\ UNCHANGED cap
      \/ Withhold /\ UNCHANGED <<active, cap>>
      \/ n # 1 /\ Withhold /\ cap' = Higher(cap \div 2, 1) /\ UNCHANGED active
      \/ /\ n # 1 /\ served.ok /\ v.verdict = "Agreed" /\ batch' = served.logs
         /\ cap' = Lower(cap * 2, max_block_range) /\ UNCHANGED <<active, window>>
      \/ n # 1 /\ v.verdict = "Disagreed" /\ Withhold /\ promote(v.promote) /\ UNCHANGED cap
  <2> HIDE DEF answers, v
  <2>1. require
    BY DEF Corroborated
  <2>2. QED
    BY <1>2, <2>1 DEF answers, v
<1>8. active' \in 1 .. n /\ cap' \in Nat \ {0}
  <2>1. Following(active) \in 1 .. n
    BY <1>4 DEF Following
  <2>2. ASSUME n # 1, v.verdict = "Disagreed", promote(v.promote) PROVE active' \in 1 .. n
    <3>1. PICK heard \in SUBSET ((1 .. n) \ {active}) : v = tally(active, served, [e \in heard |-> answers[e]])
      <4>1. DOMAIN window.heads \subseteq (1 .. n) \ {active}
        BY <1>5, <1>6, <2>2 DEF WindowOK
      <4> HIDE DEF served, answers
      <4>2. \E heard \in SUBSET ((1 .. n) \ {active}) :
              Judge(served, answers) = tally(active, served, [e \in heard |-> answers[e]])
        BY <1>4, <4>1, JudgedByOthers
      <4>3. QED
        BY <4>2
    <3> DEFINE replies == [e \in heard |-> answers[e]]
    <3>2. DOMAIN replies = heard /\ IsFiniteSet(heard)
      BY <1>4, RangeIsFinite
    <3> HIDE DEF replies, v, served, answers
    <3>3. v.promote \subseteq 1 .. n
      BY <2>2, <3>1, <3>2, Tallied DEF replies
    <3>4. QED
      BY <1>4, <2>2, <3>3 DEF promote
  <2> HIDE DEF v, served, answers
  <2>3. Higher(cap \div 2, 1) \in Nat \ {0} /\ Lower(cap * 2, max_block_range) \in Nat \ {0}
    BY <1>4 DEF Higher, Lower
  <2>4. QED
    BY <1>4, <1>7, <2>1, <2>2, <2>3
<1>9. \/ window' = None /\ batch' = None
      \/ /\ configured # 1 /\ batch' = Mined(cursor, window.to)
         /\ UNCHANGED <<active, window>>
  <2>1. ASSUME n # 1, served.ok, v.verdict = "Agreed" PROVE served.logs = Mined(cursor, window.to)
    <3>1. DOMAIN window.heads \subseteq (1 .. n) \ {active}
      BY <1>5, <1>6, <2>1 DEF WindowOK
    <3>2. answers[active].ok /\ Judge(answers[active], answers).verdict = "Agreed"
      BY <2>1
    <3>3. answers = [e \in 1 .. n |-> IF e \in down THEN NoAnswer ELSE said[e]]
      OBVIOUS
    <3> HIDE DEF answers
    <3>4. answers[active].logs = Mined(cursor, window.to)
      <4> DEFINE last == window.to
      <4>1. said \in Answers(cursor, last)
        BY <1>2
      <4> HIDE DEF last
      <4>2. answers[active].logs = Mined(cursor, last)
        BY <1>4, <3>1, <3>2, <3>3, <4>1, AgreedIsMined, Zenon
      <4>3. QED
        BY <4>2 DEF last
    <3>5. QED
      BY <3>4
  <2> HIDE DEF v, served, answers
  <2>2. QED
    BY <1>3, <1>5, <1>7, <2>1 DEF Withhold
<1> HIDE DEF v, served, answers
<1>10. SourceOK'
  BY <1>3, <1>8 DEF SourceOK, fixed
<1>11. DomainOK' /\ LoneSource' /\ ScalesOK'
  BY <1>3, <1>9 DEF DomainOK, LoneSource, ScalesOK, fixed
<1>12. SignedIsReal' /\ NothingPassedOver'
  BY <1>3, NothingSigned DEF SourceOK
<1>13. WindowInv'
  BY <1>3, <1>6, <1>9 DEF WindowInv, WindowOK, fixed
<1>14. BatchInv'
  <2>1. SUFFICES ASSUME configured # 1, batch' = Mined(cursor, window.to), window' = window PROVE BatchInv'
    BY <1>9 DEF BatchInv
  <2>2. window.to \in Int /\ window.to <= height
    BY <1>4, <1>6, <2>1 DEF WindowOK
  <2>3. batch' \subseteq Truth(cursor, window.to)
    BY <2>1 DEF Mined
  <2>4. ASSUME NEW b \in (DOMAIN Event) \cap (cursor .. window.to) PROVE Log(b, 0, TRUE) \in batch'
    <3>1. Log(b, 0, TRUE) \in Truth(cursor, window.to) /\ Log(b, 0, TRUE).block = b
      BY DEF Truth, Log
    <3>2. b <= height
      BY <1>4, <2>2
    <3>3. QED
      BY <2>1, <3>1, <3>2 DEF Mined
  <2>5. QED
    BY <1>3, <2>1, <2>3, <2>4 DEF BatchInv
<1>15. QED
  BY <1>10, <1>11, <1>12, <1>13, <1>14


\* What min_agree of a destination's endpoints settle is the scale it has.
LEMMA ScaleIsTrue ==
  ASSUME CorroborationAssumption, Corroborated, NEW d \in Dest, NEW said \in ScaleAnswers(d), NEW down,
         NEW v \in destination_scale(d, said, down)
  PROVE  v = Scale[d]
<1> DEFINE T == IF Via[d] = "evm" THEN evm_scale_on(d) ELSE solana_asset_scale(d)
           L == Values \cup {Fail}
<1>1. said \in Said(1 .. N, {T}, L)
  BY DEF ScaleAnswers
<1>2. T = Scale[d]
  BY DEF evm_scale_on, solana_asset_scale
<1> HIDE DEF T, L
<1>3. N \in Nat /\ min_agree(N) = 2
  BY DEF Corroborated, min_agree, CorroborationAssumption
<1>4. v \in majority(ask_all(said, down), 2)
  BY <1>3 DEF destination_scale, evm_destination_scale, solana_destination_scale, settle_solana, read_agreed
<1>5. v = T
  BY <1>1, <1>3, <1>4, AgreedIsTrue
<1>6. QED
  BY <1>2, <1>5

LEMMA VerdictInductive ==
  ASSUME CorroborationAssumption, Corroborated, CorroborationInv, batch # None,
         NEW log \in batch, Verdict(log)
  PROVE  CorroborationInv'
<1> USE DEF CorroborationInv
<1> DEFINE d == IF log.real THEN Event[log.block] ELSE CHOOSE x \in Dest : TRUE
           b == log.block
<1>1. UNCHANGED <<fixed, height, active, cursor, cached, cap>>
  BY DEF Verdict
<1>2. configured # 1 /\ domain = Domain /\ n # 0 /\ WindowOK
  BY DEF LoneSource, WindowInv
<1>3. /\ Confirmations \in Nat /\ height \in Int /\ cursor \in Int /\ n \in Nat /\ MaxBlock \in Nat
      /\ DOMAIN Event \subseteq 1 .. MaxBlock /\ window.to \in Int /\ window.to <= height - Confirmations
  BY <1>2, ConfirmedOnly DEF WindowOK
<1>4. log = Log(b, 0, TRUE) /\ b \in (DOMAIN Event) \cap (cursor .. window.to)
  BY DEF BatchInv, Truth, Log
<1>5. d = Event[b] /\ d \in Dest
  BY <1>4 DEF Log, CorroborationAssumption
<1> HIDE DEF d, b
<1>6. \/ batch' = None /\ window' = None /\ UNCHANGED <<scales, signed, withheld>>
      \/ \E v : /\ v = Scale[d]
                /\ batch' = batch \ {log}
                /\ scales' = [scales EXCEPT ![d] = v]
                /\ IF domain = Domain /\ ScaleVerdict(d, v) = "Agree"
                   THEN signed' = signed \cup {log} /\ UNCHANGED withheld
                   ELSE withheld' = withheld \cup {log} /\ UNCHANGED signed
                /\ UNCHANGED window
  <2>1. PICK down \in Unreachable(N) : \E said \in ScaleAnswers(d) :
          LET settled == IF scales[d] # None THEN {scales[d]} ELSE destination_scale(d, said, down)
          IN  IF settled = {}
              THEN batch' = None /\ window' = None /\ UNCHANGED <<scales, signed, withheld>>
              ELSE \E v \in settled :
                /\ batch' = batch \ {log}
                /\ scales' = [scales EXCEPT ![d] = v]
                /\ IF domain = Domain /\ ScaleVerdict(d, v) = "Agree"
                   THEN signed' = signed \cup {log} /\ UNCHANGED withheld
                   ELSE withheld' = withheld \cup {log} /\ UNCHANGED signed
                /\ UNCHANGED window
    BY DEF Verdict, d
  <2>2. PICK said \in ScaleAnswers(d) :
          LET settled == IF scales[d] # None THEN {scales[d]} ELSE destination_scale(d, said, down)
          IN  IF settled = {}
              THEN batch' = None /\ window' = None /\ UNCHANGED <<scales, signed, withheld>>
              ELSE \E v \in settled :
                /\ batch' = batch \ {log}
                /\ scales' = [scales EXCEPT ![d] = v]
                /\ IF domain = Domain /\ ScaleVerdict(d, v) = "Agree"
                   THEN signed' = signed \cup {log} /\ UNCHANGED withheld
                   ELSE withheld' = withheld \cup {log} /\ UNCHANGED signed
                /\ UNCHANGED window
    BY <2>1
  <2> DEFINE settled == IF scales[d] # None THEN {scales[d]} ELSE destination_scale(d, said, down)
  <2>3. ASSUME NEW v \in settled PROVE v = Scale[d]
    <3>1. CASE scales[d] # None
      BY <1>5, <2>3, <3>1 DEF ScalesOK
    <3>2. CASE scales[d] = None
      BY <1>5, <2>3, <3>2, ScaleIsTrue
    <3>3. QED
      BY <3>1, <3>2
  <2> HIDE DEF settled
  <2>4. QED
    BY <2>2, <2>3 DEF settled
<1>7. SourceOK' /\ DomainOK' /\ LoneSource'
  BY <1>1, <1>2, <1>6 DEF SourceOK, DomainOK, LoneSource, fixed
<1>8. WindowInv'
  BY <1>1, <1>2, <1>6 DEF WindowInv, WindowOK, fixed
<1>9. ScalesOK'
  BY <1>5, <1>6 DEF ScalesOK
<1>10. CASE UNCHANGED signed /\ batch' = None
  <2>1. SignedIsReal' /\ NothingPassedOver'
    BY <1>1, <1>10, NothingSigned DEF SourceOK
  <2>2. BatchInv'
    BY <1>10 DEF BatchInv
  <2>3. QED
    BY <1>7, <1>8, <1>9, <2>1, <2>2
<1>11. CASE /\ batch' = batch \ {log} /\ UNCHANGED window
            /\ \/ Good(b) /\ signed' = signed \cup {log}
               \/ ~ Good(b) /\ signed' = signed
  <2>1. SignedIsReal'
    <3>1. log \in Truth(1, height - Confirmations)
      <4>1. b \in Int /\ 1 <= b /\ b <= window.to
        BY <1>3, <1>4
      <4>2. b \in (DOMAIN Event) \cap (1 .. height - Confirmations)
        BY <1>3, <1>4, <4>1
      <4>3. QED
        BY <1>4, <4>2 DEF Truth
    <3>2. Good(b) => Scale[Event[log.block]] = SourceScale
      BY DEF Good, b
    <3>3. QED
      BY <1>1, <1>11, <3>1, <3>2 DEF SignedIsReal
  <2>2. NothingPassedOver'
    BY <1>1, <1>11 DEF NothingPassedOver
  <2>3. batch' # None => batch' \subseteq Truth(cursor', window'.to)
    BY <1>1, <1>11 DEF BatchInv
  <2>4. ASSUME NEW x \in (DOMAIN Event) \cap (cursor' .. window'.to), Good(x)
        PROVE  Log(x, 0, TRUE) \in signed' \cup batch'
    <3>1. Log(x, 0, TRUE) \in signed \cup batch
      BY <1>1, <1>11, <2>4 DEF BatchInv
    <3>2. Log(x, 0, TRUE) = log => x = b
      BY <1>4 DEF Log
    <3>3. QED
      BY <1>11, <2>4, <3>1, <3>2
  <2>5. BatchInv'
    BY <2>3, <2>4 DEF BatchInv, Good
  <2>6. QED
    BY <1>7, <1>8, <1>9, <2>1, <2>2, <2>5
<1>12. QED
  <2>1. ScaleVerdict(d, Scale[d]) = "Agree" <=> Good(b)
    BY <1>5 DEF ScaleVerdict, Good
  <2>2. QED
    BY <1>2, <1>6, <1>10, <1>11, <2>1

LEMMA JudgedInFull ==
  ASSUME BatchInv, batch # None
  PROVE  \A x \in (DOMAIN Event) \cap (cursor .. window.to) : Good(x) => Log(x, 0, TRUE) \in signed \cup batch
BY DEF BatchInv

LEMMA CloseWindowInductive ==
  ASSUME CorroborationAssumption, Corroborated, CorroborationInv, CloseWindow
  PROVE  CorroborationInv'
<1> USE DEF CorroborationInv
<1>1. /\ batch = {} /\ batch # None
      /\ cursor' = window.to + 1 /\ window' = None /\ batch' = None
      /\ UNCHANGED <<fixed, height, active, cached, cap, scales, signed, withheld, faults>>
  BY DEF CloseWindow, CorroborationAssumption
<1>2. configured # 1 /\ WindowOK
  BY <1>1 DEF LoneSource, WindowInv
<1>3. /\ Confirmations \in Nat /\ height \in Int /\ cursor \in Int /\ MaxBlock \in Nat
      /\ DOMAIN Event \subseteq 1 .. MaxBlock /\ window.to \in Int
  BY <1>2, ConfirmedOnly DEF WindowOK
<1>4. SourceOK' /\ DomainOK' /\ LoneSource' /\ ScalesOK'
  BY <1>1, <1>2, <1>3 DEF SourceOK, DomainOK, LoneSource, ScalesOK, fixed
<1>5. WindowInv' /\ BatchInv'
  BY <1>1 DEF WindowInv, BatchInv
<1>6. SignedIsReal'
  BY <1>1 DEF SignedIsReal, Truth
<1>7. NothingPassedOver'
  <2>1. ASSUME NEW b \in DOMAIN Event, b < window.to + 1, Good(b)
        PROVE  Log(b, 0, TRUE) \in signed
    <3>1. b \in Int
      BY <1>3
    <3>2. CASE b < cursor
      BY <2>1, <3>2 DEF NothingPassedOver, Good
    <3>3. CASE b >= cursor
      <4>1. b \in cursor .. window.to
        BY <1>3, <2>1, <3>1, <3>3
      <4>2. b \in (DOMAIN Event) \cap (cursor .. window.to)
        BY <4>1
      <4>3. \A x \in (DOMAIN Event) \cap (cursor .. window.to) : Good(x) => Log(x, 0, TRUE) \in signed \cup batch
        BY <1>1, JudgedInFull
      <4>4. Log(b, 0, TRUE) \in signed \cup batch
        BY <2>1, <4>2, <4>3
      <4>5. QED
        BY <1>1, <4>4
    <3>4. b < cursor \/ b >= cursor
      BY <1>3, <3>1
    <3>5. QED
      BY <3>2, <3>3, <3>4
  <2>2. QED
    BY <1>1, <2>1 DEF NothingPassedOver, Good
<1>8. QED
  BY <1>4, <1>5, <1>6, <1>7

LEMMA GrowInductive ==
  ASSUME CorroborationAssumption, Corroborated, CorroborationInv, Grow
  PROVE  CorroborationInv'
<1> USE DEF CorroborationInv
<1>1. /\ height' = height + 1
      /\ UNCHANGED <<fixed, active, cursor, cached, cap, window, batch, scales, signed, withheld>>
  BY DEF Grow
<1>2. Confirmations \in Nat /\ height \in Nat /\ height' \in Nat
  BY <1>1 DEF SourceOK, CorroborationAssumption
<1>3. SourceOK' /\ DomainOK' /\ LoneSource' /\ ScalesOK'
  BY <1>1, <1>2 DEF SourceOK, DomainOK, LoneSource, ScalesOK, fixed
<1>4. BatchInv'
  BY <1>1 DEF BatchInv
<1>5. WindowInv'
  BY <1>1, <1>2 DEF WindowInv, WindowOK, fixed
<1>6. SignedIsReal' /\ NothingPassedOver'
  BY <1>1, <1>2, NothingSigned
<1>7. QED
  BY <1>3, <1>4, <1>5, <1>6

-----------------------------------------------------------------------------
(* The refund loop.                                                           *)

Flags == {Neither, Delivered, Burned}
Candidate == [step : {"src", "age", "decide"}, dst : Flags, src : {Neither, Locked}, aged : BOOLEAN]

ChainsOK ==
  /\ links \in [Side -> 0 .. N] /\ chain \in [Side -> Nat]
  /\ sentAt \in 0 .. chain.src /\ repaid \in 0 .. chain.src
  /\ outcome \in [kind : Flags, at : 0 .. chain.dst]
  /\ outcome.kind # Neither => outcome.at # 0
  /\ repaid # 0 => sentAt # 0 /\ sentAt <= repaid
  /\ pc \in {AtRest, [step |-> "dst"]} \cup Candidate

\* What is known by a step, and stays true.
BurnedForGood == outcome.kind = Burned /\ 1 <= outcome.at /\ outcome.at <= chain.dst - Confirmations
SentForGood == 1 <= sentAt /\ sentAt <= chain.src - Confirmations
AgedForGood == 1 <= sentAt /\ sentAt + Timeout <= chain.src - Confirmations

CandidateInv ==
  pc \in Candidate =>
    /\ pc.dst = Burned => BurnedForGood
    /\ pc.step \in {"age", "decide"} /\ srcListed => SentForGood
    /\ pc.aged => AgedForGood

RefundInv == liar \in Nat /\ srcListed \in BOOLEAN /\ ChainsOK /\ CandidateInv /\ AttestedIsTrue

LEMMA RefundFacts ==
  ASSUME CorroborationAssumption, Corroborated, RefundInv
  PROVE  /\ N \in Nat /\ min_agree(N) = 2 /\ Confirmations \in Nat /\ MaxLag \in Nat
         /\ \A c \in Side : links[c] \in Nat /\ chain[c] \in Nat
         /\ links.src \in Nat /\ links.dst \in Nat /\ chain.src \in Nat /\ chain.dst \in Nat
BY DEF RefundInv, ChainsOK, CorroborationAssumption, Corroborated, min_agree, Side

\* The block a chain is read at is confirmed on it, whatever one endpoint reports.
LEMMA ReadIsConfirmed ==
  ASSUME CorroborationAssumption, Corroborated, RefundInv, NEW c \in Side, NEW heads \in HeadsOf(c),
         NEW down, ~ Few(heads, down)
  PROVE  LET block == confirmed_block(ask_all(heads, down))
         IN  block \in Nat /\ (block # 0 => block <= chain[c] - Confirmations)
<1> DEFINE T == Higher(chain[c] - MaxLag, 0) .. chain[c]
           L == {Fail} \cup 0 .. chain[c] + 1
           E == 1 .. links[c]
           said == ask_all(heads, down)
           floor == majority_floor(said)
<1>1. /\ Confirmations \in Nat /\ MaxLag \in Nat /\ min_agree(N) = 2
      /\ links[c] \in Nat /\ chain[c] \in Nat
  BY RefundFacts
<1>2. T \subseteq Int /\ (\A t \in T : t <= chain[c]) /\ L \subseteq Int
  BY <1>1 DEF Higher, Fail
<1>3. heads \in Said(E, T, L)
  BY DEF HeadsOf
<1> HIDE DEF T, L
<1>4. /\ DOMAIN heads = E
      /\ \A e \in E : e # liar => heads[e] \in T
      /\ \A e \in E : heads[e] \in T \cup L
  <2> HIDE DEF E
  <2>1. QED
    BY <1>3, HonestSay
<1>5. DOMAIN said = {x \in DOMAIN heads \ down : heads[x] # Fail} /\ \A e \in DOMAIN said : said[e] = heads[e]
  BY DEF ask_all
<1>6. DOMAIN said \in SUBSET (1 .. links[c])
  BY <1>4, <1>5
<1>7. IsFiniteSet(DOMAIN said)
  <2> HIDE DEF said
  <2>1. QED
    BY <1>1, <1>6, RangeIsFinite
<1>8. Cardinality(DOMAIN said) >= 2
  <2>1. Cardinality(DOMAIN said) \in Nat
    BY <1>7, FS_CardinalityType
  <2>2. ~ (Cardinality(DOMAIN said) < 2)
    BY <1>1 DEF Few
  <2>3. QED
    BY <2>1, <2>2
<1>9. \A e \in DOMAIN said : said[e] \in Int /\ (e # liar => said[e] <= chain[c])
  BY <1>2, <1>4, <1>5
<1>10. confirmed_block(said) = Higher(floor - Confirmations, 0)
  BY DEF confirmed_block
<1> HIDE DEF said
<1>11. floor \in Int /\ \E e \in DOMAIN said : e # liar /\ said[e] >= floor
  BY <1>7, <1>8, <1>9, FloorIsVouched
<1>12. floor <= chain[c]
  BY <1>1, <1>9, <1>11
<1> HIDE DEF floor
<1>13. confirmed_block(said) \in Nat /\ (confirmed_block(said) # 0 => confirmed_block(said) <= chain[c] - Confirmations)
  BY <1>1, <1>10, <1>11, <1>12 DEF Higher
<1>14. QED
  BY <1>13 DEF said

\* What is agreed of a chain's state is its state at a confirmed block.
LEMMA StateIsTrue ==
  ASSUME CorroborationAssumption, Corroborated, RefundInv, NEW c \in Side, NEW heads \in HeadsOf(c),
         NEW down, NEW answer \in StateAnswers(c, down, heads), NEW v \in answer
  PROVE  \E block \in Nat : /\ block # 0 => block <= chain[c] - Confirmations
                            /\ c = "dst" => v = DstFlag(block)
                            /\ c = "src" => v = SrcFlag(block)
<1> DEFINE block == confirmed_block(ask_all(heads, down))
           truth == IF c = "dst" THEN DstFlag(block) ELSE SrcFlag(block)
           L == {Fail, Neither, Delivered, Burned}
           k == links[c]
<1>1. ~ Few(heads, down)
  BY DEF StateAnswers
<1>2. block \in Nat /\ (block # 0 => block <= chain[c] - Confirmations)
  BY <1>1, ReadIsConfirmed
<1>3. PICK said \in Said(1 .. k, {truth}, L) : answer = agreed(c, said, down)
  BY <1>1 DEF StateAnswers
<1>4. v \in majority(ask_all(said, down), 2)
  BY <1>3, RefundFacts DEF agreed, read_agreed
<1>5. k \in Nat
  BY RefundFacts
<1> HIDE DEF truth, L, k
<1>6. v = truth
  BY <1>3, <1>4, <1>5, AgreedIsTrue
<1>7. QED
  BY <1>2, <1>6 DEF truth


\* Once known it stays known.
LEMMA KnownForGood ==
  ASSUME CorroborationAssumption, Corroborated, RefundInv, ChainsOK',
         srcListed' = srcListed, chain'.src >= chain.src, chain'.dst >= chain.dst,
         sentAt # 0 => sentAt' = sentAt, outcome.at # 0 => outcome' = outcome
  PROVE  /\ BurnedForGood => BurnedForGood'
         /\ SentForGood => SentForGood'
         /\ AgedForGood => AgedForGood'
         /\ attested' = attested => AttestedIsTrue'
         /\ pc' = pc => CandidateInv'
<1>1. /\ Confirmations \in Nat /\ chain.src \in Int /\ chain.dst \in Int
      /\ chain'.src \in Int /\ chain'.dst \in Int
      /\ sentAt \in Int /\ outcome.at \in Int /\ Timeout \in Nat
  BY RefundFacts, RefundReadsAssumption DEF RefundInv, ChainsOK, Side
<1>2. BurnedForGood => BurnedForGood'
  BY <1>1 DEF BurnedForGood
<1>3. SentForGood => SentForGood'
  BY <1>1 DEF SentForGood
<1>4. AgedForGood => AgedForGood'
  BY <1>1 DEF AgedForGood
<1>5. attested' = attested => AttestedIsTrue'
  <2>1. "refund" \in attested => outcome.kind = Burned /\ outcome.at # 0
    BY DEF AttestedIsTrue, RefundInv, ChainsOK, Burned, Neither
  <2>2. attested' = attested /\ "cancel" \in attested
          => sentAt' > 0 /\ sentAt' + Timeout <= chain'.src - Confirmations
    BY <1>1 DEF AttestedIsTrue, RefundInv
  <2>3. attested' = attested /\ "refund" \in attested /\ srcListed' => sentAt' \in 1 .. (chain'.src - Confirmations)
    BY <1>1 DEF AttestedIsTrue, RefundInv
  <2>4. attested' = attested /\ "refund" \in attested
          => outcome' = outcome /\ outcome'.at <= chain'.dst - Confirmations
    BY <1>1, <2>1 DEF AttestedIsTrue, RefundInv
  <2>5. QED
    BY <2>1, <2>2, <2>3, <2>4 DEF AttestedIsTrue
<1>6. pc' = pc => CandidateInv'
  BY <1>2, <1>3, <1>4 DEF CandidateInv, RefundInv, Candidate
<1>7. QED
  BY <1>2, <1>3, <1>4, <1>5, <1>6


LEMMA ChainInductive ==
  ASSUME CorroborationAssumption, Corroborated, RefundInv, SrcBlock \/ DstBlock
  PROVE  /\ ChainsOK' /\ srcListed' = srcListed /\ pc' = pc /\ attested' = attested
         /\ chain'.src >= chain.src /\ chain'.dst >= chain.dst
         /\ (sentAt # 0 => sentAt' = sentAt) /\ (outcome.at # 0 => outcome' = outcome)
<1>1. /\ chain \in [Side -> Nat] /\ chain.src \in Nat /\ chain.dst \in Nat
      /\ sentAt \in 0 .. chain.src /\ repaid \in 0 .. chain.src /\ links \in [Side -> 0 .. N]
      /\ outcome.kind \in Flags /\ outcome.at \in 0 .. chain.dst
      /\ outcome = [kind |-> outcome.kind, at |-> outcome.at]
  BY DEF RefundInv, ChainsOK, Side
<1>2. CASE SrcBlock
  <2>1. chain' = [chain EXCEPT !.src = @ + 1] /\ UNCHANGED <<srcListed, links, outcome, pc, attested>>
    BY <1>2 DEF SrcBlock
  <2>2. chain' \in [Side -> Nat] /\ chain'.src = chain.src + 1 /\ chain'.dst = chain.dst
    BY <1>1, <2>1 DEF Side
  <2>3. \/ sentAt' = sentAt /\ repaid' = repaid
        \/ sentAt = 0 /\ sentAt' = chain.src + 1 /\ repaid' = repaid
        \/ sentAt > 0 /\ repaid = 0 /\ repaid' = chain.src + 1 /\ sentAt' = sentAt
    BY <1>2 DEF SrcBlock
  <2>4. /\ sentAt' \in 0 .. chain'.src /\ repaid' \in 0 .. chain'.src
        /\ (repaid' # 0 => sentAt' # 0 /\ sentAt' <= repaid') /\ (sentAt # 0 => sentAt' = sentAt)
    BY <1>1, <2>2, <2>3 DEF RefundInv, ChainsOK
  <2>5. ChainsOK'
    BY <2>1, <2>2, <2>4 DEF RefundInv, ChainsOK
  <2>6. QED
    BY <1>1, <2>1, <2>2, <2>4, <2>5
<1>3. CASE DstBlock
  <2>1. chain' = [chain EXCEPT !.dst = @ + 1] /\ UNCHANGED <<srcListed, links, sentAt, repaid, pc, attested>>
    BY <1>3 DEF DstBlock
  <2>2. chain' \in [Side -> Nat] /\ chain'.dst = chain.dst + 1 /\ chain'.src = chain.src
    BY <1>1, <2>1 DEF Side
  <2>3. \/ outcome' = outcome
        \/ \E k \in {Delivered, Burned} : outcome.at = 0 /\ outcome' = [kind |-> k, at |-> chain.dst + 1]
    BY <1>3 DEF DstBlock
  <2>4. outcome' \in [kind : Flags, at : 0 .. chain'.dst] /\ (outcome'.kind # Neither => outcome'.at # 0)
    <3>1. CASE outcome' = outcome
      <4>1. outcome.at \in 0 .. chain'.dst
        BY <1>1, <2>2
      <4>2. outcome \in [kind : Flags, at : 0 .. chain'.dst]
        BY <1>1, <4>1
      <4>3. QED
        BY <3>1, <4>2 DEF RefundInv, ChainsOK
    <3>2. CASE outcome' # outcome
      BY <1>1, <2>2, <2>3, <3>2 DEF Flags
    <3>3. QED
      BY <3>1, <3>2
  <2>5. ChainsOK'
    BY <2>1, <2>2, <2>4 DEF RefundInv, ChainsOK
  <2>6. QED
    BY <1>1, <2>1, <2>2, <2>3, <2>5
<1>4. QED
  BY <1>2, <1>3

LEMMA ReadersInductive ==
  ASSUME CorroborationAssumption, Corroborated, RefundInv, run \/ Wake \/ \E c \in Side : ensure(c)
  PROVE  /\ ChainsOK' /\ CandidateInv'
         /\ UNCHANGED <<srcListed, chain, sentAt, outcome, repaid, attested>>
<1>1. UNCHANGED <<srcListed, chain, sentAt, outcome, repaid, attested>>
  BY DEF run, Wake, ensure, world
<1>2. /\ pc' = pc \/ pc' = [step |-> "dst"]
      /\ links' \in [Side -> 0 .. N]
  <2>1. \A c \in Side, h \in 1 .. N : [links EXCEPT ![c] = h] \in [Side -> 0 .. N]
    BY RefundFacts DEF RefundInv, ChainsOK
  <2>2. QED
    BY <2>1 DEF run, Wake, ensure, RefundInv, ChainsOK
<1>3. ChainsOK'
  BY <1>1, <1>2 DEF RefundInv, ChainsOK
<1>4. CandidateInv'
  <2>1. BurnedForGood' = BurnedForGood /\ SentForGood' = SentForGood /\ AgedForGood' = AgedForGood
    BY <1>1 DEF BurnedForGood, SentForGood, AgedForGood
  <2>2. [step |-> "dst"] \notin Candidate
    BY DEF Candidate
  <2>3. QED
    BY <1>1, <1>2, <2>1, <2>2 DEF CandidateInv, RefundInv
<1>5. QED
  BY <1>1, <1>3, <1>4


\* A vote has one answer at most.
LEMMA OneAnswer ==
  ASSUME CorroborationAssumption, Corroborated, RefundInv, NEW c \in Side, NEW heads \in HeadsOf(c),
         NEW down, NEW answer \in StateAnswers(c, down, heads), NEW v \in answer
  PROVE  answer = {v}
<1> DEFINE block == confirmed_block(ask_all(heads, down))
           truth == IF c = "dst" THEN DstFlag(block) ELSE SrcFlag(block)
           L == {Fail, Neither, Delivered, Burned}
           k == links[c]
<1>1. ~ Few(heads, down)
  BY DEF StateAnswers
<1>2. PICK said \in Said(1 .. k, {truth}, L) : answer = agreed(c, said, down)
  BY <1>1 DEF StateAnswers
<1>3. answer = majority(ask_all(said, down), 2)
  BY <1>2, RefundFacts DEF agreed, read_agreed
<1>4. k \in Nat
  BY RefundFacts
<1> HIDE DEF truth, L, k
<1>5. \A x \in answer : x = truth
  BY <1>2, <1>3, <1>4, AgreedIsTrue
<1>6. QED
  BY <1>5

\* A read that ends in a step of the candidate is known to be so.
LEMMA DestinationInductive ==
  ASSUME CorroborationAssumption, Corroborated, RefundInv, destination_state
  PROVE  /\ ChainsOK' /\ CandidateInv'
         /\ UNCHANGED <<srcListed, chain, sentAt, outcome, repaid, attested>>
<1>1. UNCHANGED <<srcListed, links, chain, sentAt, outcome, repaid, attested>>
  BY DEF destination_state, world, GiveUp
<1>2. \/ pc' = AtRest
      \/ \E v : \E block \in Nat :
           /\ block # 0 => block <= chain.dst - Confirmations
           /\ v = DstFlag(block)
           /\ pc' = [step |-> IF srcListed THEN "src" ELSE "decide", dst |-> v, src |-> Locked, aged |-> FALSE]
  <2>1. PICK down \in Unreachable(links.dst) : \E heads \in HeadsOf("dst") :
          \E answer \in StateAnswers("dst", down, heads) :
            IF answer = {} THEN GiveUp
            ELSE \E v \in answer : pc' = [step |-> IF srcListed THEN "src" ELSE "decide",
                                          dst |-> v, src |-> Locked, aged |-> FALSE]
    BY DEF destination_state
  <2>2. PICK heads \in HeadsOf("dst") : \E answer \in StateAnswers("dst", down, heads) :
            IF answer = {} THEN GiveUp
            ELSE \E v \in answer : pc' = [step |-> IF srcListed THEN "src" ELSE "decide",
                                          dst |-> v, src |-> Locked, aged |-> FALSE]
    BY <2>1
  <2>3. PICK answer \in StateAnswers("dst", down, heads) :
            IF answer = {} THEN GiveUp
            ELSE \E v \in answer : pc' = [step |-> IF srcListed THEN "src" ELSE "decide",
                                          dst |-> v, src |-> Locked, aged |-> FALSE]
    BY <2>2
  <2>4. ASSUME NEW v \in answer
        PROVE  \E block \in Nat : (block # 0 => block <= chain.dst - Confirmations) /\ v = DstFlag(block)
    <3>1. "dst" \in Side
      BY DEF Side
    <3>2. \E block \in Nat : /\ block # 0 => block <= chain["dst"] - Confirmations
                             /\ "dst" = "dst" => v = DstFlag(block)
      BY <2>2, <2>3, <3>1, StateIsTrue
    <3>3. QED
      BY <3>2
  <2>5. CASE answer = {}
    BY <2>3, <2>5 DEF GiveUp
  <2>6. CASE answer # {}
    <3>1. PICK v \in answer : pc' = [step |-> IF srcListed THEN "src" ELSE "decide",
                                    dst |-> v, src |-> Locked, aged |-> FALSE]
      BY <2>3, <2>6
    <3>2. PICK block \in Nat : (block # 0 => block <= chain.dst - Confirmations) /\ v = DstFlag(block)
      BY <2>4, <3>1
    <3>3. QED
      BY <3>1, <3>2
  <2>7. QED
    BY <2>5, <2>6
<1>3. CASE pc' = AtRest
  <2>1. AtRest \notin Candidate
    BY DEF AtRest, Candidate
  <2>2. QED
    BY <1>1, <1>3, <2>1 DEF ChainsOK, CandidateInv, RefundInv
<1>4. ASSUME NEW v, NEW block \in Nat, block # 0 => block <= chain.dst - Confirmations, v = DstFlag(block),
             pc' = [step |-> IF srcListed THEN "src" ELSE "decide", dst |-> v, src |-> Locked, aged |-> FALSE]
      PROVE  ChainsOK' /\ CandidateInv'
  <2>1. outcome.kind \in Flags /\ outcome.at \in Nat /\ Confirmations \in Nat /\ chain.dst \in Nat
    BY RefundFacts DEF RefundInv, ChainsOK
  <2>2. v \in Flags /\ (v = Burned => BurnedForGood')
    BY <1>1, <1>4, <2>1 DEF DstFlag, Flags, BurnedForGood, Burned, Neither
  <2>3. pc' \in Candidate
    BY <1>4, <2>2 DEF Candidate
  <2>4. ChainsOK'
    BY <1>1, <2>3 DEF ChainsOK, RefundInv
  <2>5. CandidateInv'
    BY <1>1, <1>4, <2>2 DEF CandidateInv
  <2>6. QED
    BY <2>4, <2>5
<1>5. QED
  BY <1>1, <1>2, <1>3, <1>4

LEMMA SourceInductive ==
  ASSUME CorroborationAssumption, Corroborated, RefundInv, source_state
  PROVE  /\ ChainsOK' /\ CandidateInv'
         /\ UNCHANGED <<srcListed, chain, sentAt, outcome, repaid, attested>>
<1>1. /\ pc.step = "src"
      /\ UNCHANGED <<srcListed, links, chain, sentAt, outcome, repaid, attested>>
  BY DEF source_state, world, GiveUp
<1>2. pc \in Candidate
  BY <1>1 DEF RefundInv, ChainsOK, AtRest
<1>3. \/ pc' = AtRest
      \/ \E v : \E block \in Nat :
           /\ block # 0 => block <= chain.src - Confirmations
           /\ v = SrcFlag(block) /\ v # Neither /\ v # Repaid
           /\ pc' = [pc EXCEPT !.src = v, !.step = IF pc.dst = Burned THEN "decide" ELSE "age"]
  <2>1. PICK down \in Unreachable(links.src) : \E heads \in HeadsOf("src") :
          \E answer \in StateAnswers("src", down, heads) :
            IF answer = {} \/ answer = {Repaid} THEN GiveUp
            ELSE \E v \in answer :
                   pc' = IF v = Neither THEN AtRest
                         ELSE [pc EXCEPT !.src = v, !.step = IF pc.dst = Burned THEN "decide" ELSE "age"]
    BY DEF source_state
  <2>2. PICK heads \in HeadsOf("src") : \E answer \in StateAnswers("src", down, heads) :
            IF answer = {} \/ answer = {Repaid} THEN GiveUp
            ELSE \E v \in answer :
                   pc' = IF v = Neither THEN AtRest
                         ELSE [pc EXCEPT !.src = v, !.step = IF pc.dst = Burned THEN "decide" ELSE "age"]
    BY <2>1
  <2>3. PICK answer \in StateAnswers("src", down, heads) :
            IF answer = {} \/ answer = {Repaid} THEN GiveUp
            ELSE \E v \in answer :
                   pc' = IF v = Neither THEN AtRest
                         ELSE [pc EXCEPT !.src = v, !.step = IF pc.dst = Burned THEN "decide" ELSE "age"]
    BY <2>2
  <2>4. ASSUME NEW v \in answer
        PROVE  \E block \in Nat : (block # 0 => block <= chain.src - Confirmations) /\ v = SrcFlag(block)
    <3> DEFINE c == "src"
    <3>1. c \in Side /\ c = "src"
      BY DEF Side
    <3>2. heads \in HeadsOf(c) /\ answer \in StateAnswers(c, down, heads)
      BY <2>2, <2>3
    <3> HIDE DEF c
    <3>3. \E block \in Nat : /\ block # 0 => block <= chain[c] - Confirmations
                             /\ c = "dst" => v = DstFlag(block)
                             /\ c = "src" => v = SrcFlag(block)
      BY <2>4, <3>1, <3>2, StateIsTrue
    <3>4. QED
      BY <3>1, <3>3
  <2>5. \A v \in answer : answer = {v}
    <3>1. "src" \in Side
      BY DEF Side
    <3>2. QED
      BY <2>2, <2>3, <3>1, OneAnswer
  <2>6. CASE answer = {} \/ answer = {Repaid}
    BY <2>3, <2>6 DEF GiveUp
  <2>7. CASE answer # {} /\ answer # {Repaid}
    <3>1. PICK v \in answer : pc' = IF v = Neither THEN AtRest
                     ELSE [pc EXCEPT !.src = v, !.step = IF pc.dst = Burned THEN "decide" ELSE "age"]
      BY <2>3, <2>7
    <3>2. PICK block \in Nat : (block # 0 => block <= chain.src - Confirmations) /\ v = SrcFlag(block)
      BY <2>4, <3>1
    <3>3. v # Repaid
      BY <2>5, <2>7, <3>1
    <3>4. QED
      BY <3>1, <3>2, <3>3
  <2>8. QED
    BY <2>6, <2>7
<1>4. CASE pc' = AtRest
  <2>1. AtRest \notin Candidate
    BY DEF AtRest, Candidate
  <2>2. QED
    BY <1>1, <1>4, <2>1 DEF ChainsOK, CandidateInv, RefundInv
<1>5. ASSUME NEW v, NEW block \in Nat, block # 0 => block <= chain.src - Confirmations,
             v = SrcFlag(block), v # Neither, v # Repaid,
             pc' = [pc EXCEPT !.src = v, !.step = IF pc.dst = Burned THEN "decide" ELSE "age"]
      PROVE  ChainsOK' /\ CandidateInv'
  <2>1. sentAt \in Nat /\ Confirmations \in Nat /\ chain.src \in Nat
    BY RefundFacts DEF RefundInv, ChainsOK
  <2>2. v = Locked /\ SentForGood'
    BY <1>1, <1>5, <2>1 DEF SrcFlag, SentForGood
  <2>3. /\ pc' \in Candidate /\ pc'.dst = pc.dst /\ pc'.aged = pc.aged
    BY <1>2, <1>5, <2>2 DEF Candidate
  <2>4. ChainsOK'
    BY <1>1, <2>3 DEF ChainsOK, RefundInv
  <2>5. BurnedForGood' = BurnedForGood /\ AgedForGood' = AgedForGood
    BY <1>1 DEF BurnedForGood, AgedForGood
  <2>6. CandidateInv'
    BY <1>2, <2>2, <2>3, <2>5 DEF CandidateInv, RefundInv
  <2>7. QED
    BY <2>4, <2>6
<1>6. QED
  BY <1>1, <1>3, <1>4, <1>5


\* A block that a strict majority vouches for is no newer than one that is old enough.
LEMMA AgedBlockIsOld ==
  ASSUME CorroborationAssumption, Corroborated, RefundInv, NEW heads \in HeadsOf("src"), NEW down,
         ~ Few(heads, down), NEW b \in aged_block(down, heads), b # Fail
  PROVE  b \in Int /\ (1 <= b => b + Timeout <= chain.src - Confirmations)
<1> DEFINE block == confirmed_block(ask_all(heads, down))
           k == links.src
           oldest == aged_block_on(block)
           L == {Fail} \cup 0 .. chain.src
           E == 1 .. k
<1>1. /\ k \in Nat /\ Confirmations \in Nat /\ min_agree(N) = 2 /\ chain.src \in Nat
      /\ Timeout \in Nat
  BY RefundFacts, RefundReadsAssumption
<1>2. block \in Nat /\ (block # 0 => block <= chain.src - Confirmations)
  <2>1. "src" \in Side
    BY DEF Side
  <2>2. QED
    BY <2>1, ReadIsConfirmed
<1>3. PICK found \in Said(E, {oldest}, L) :
        b = IF Few(found, down) THEN Fail ELSE agreed_aged_block(ask_all(found, down))
  BY DEF aged_block
<1> HIDE DEF block
<1>4. oldest \in Int /\ (1 <= oldest => oldest + Timeout <= block)
  <2> DEFINE old == {x \in 1 .. block - Timeout : \E j \in 0 .. 23 : x = block - FirstStep * 2^j}
  <2>1. CASE old = {}
    BY <2>1 DEF aged_block_on
  <2>2. CASE old # {}
    <3>1. oldest = CHOOSE x \in old : \A y \in old : x >= y
      BY <2>2 DEF aged_block_on, Max
    <3>2. old \subseteq 1 .. block - Timeout
      OBVIOUS
    <3> HIDE DEF old
    <3>3. old \subseteq Int /\ IsFiniteSet(old)
      <4>1. IsFiniteSet(1 .. block - Timeout)
        BY <1>1, <1>2, FS_Interval
      <4>2. IsFiniteSet(old)
        BY <3>2, <4>1, FS_Subset
      <4>3. old \subseteq Int
        BY <1>1, <1>2, <3>2
      <4>4. QED
        BY <4>2, <4>3
    <3>4. \E m \in old : \A x \in old : m >= x
      BY <2>2, <3>3, Extremes
    <3>5. oldest \in old
      BY <3>1, <3>4
    <3>6. oldest \in 1 .. block - Timeout
      BY <3>2, <3>5
    <3> HIDE DEF oldest
    <3>7. QED
      BY <1>1, <1>2, <3>6
  <2>3. QED
    BY <2>1, <2>2
<1>5. L \subseteq Int
  BY <1>1 DEF Fail
<1> HIDE DEF oldest, L
<1>6. /\ DOMAIN found = E
      /\ \A e \in E : e # liar => found[e] = oldest
      /\ \A e \in E : found[e] \in {oldest} \cup L
  <2> HIDE DEF E
  <2>1. \A e \in E : e # liar => found[e] \in {oldest}
    BY <1>3, HonestSay
  <2>2. DOMAIN found = E /\ \A e \in E : found[e] \in {oldest} \cup L
    BY <1>3, HonestSay
  <2>3. QED
    BY <2>1, <2>2
<1> DEFINE said == ask_all(found, down)
<1>7. /\ DOMAIN said \in SUBSET (1 .. k)
      /\ \A e \in DOMAIN said : said[e] \in Int /\ (e # liar => said[e] = oldest)
  BY <1>4, <1>5, <1>6 DEF ask_all
<1>8. ~ Few(found, down) /\ b = majority_floor(said)
  BY <1>3 DEF agreed_aged_block
<1>9. ~ (Cardinality(DOMAIN said) < 2)
  BY <1>1, <1>8 DEF Few
<1> HIDE DEF said, k
<1>10. IsFiniteSet(DOMAIN said) /\ Cardinality(DOMAIN said) >= 2
  <2>1. IsFiniteSet(DOMAIN said)
    BY <1>1, <1>7, RangeIsFinite
  <2>2. Cardinality(DOMAIN said) \in Nat
    BY <2>1, FS_CardinalityType
  <2>3. QED
    BY <1>9, <2>1, <2>2
<1>11. b \in Int /\ \E e \in DOMAIN said : e # liar /\ said[e] >= b
  BY <1>7, <1>8, <1>10, FloorIsVouched
<1>12. b <= oldest
  BY <1>7, <1>11
<1>13. QED
  <2>1. 1 <= b => oldest + Timeout <= block /\ block # 0
    BY <1>1, <1>2, <1>4, <1>11, <1>12
  <2>2. QED
    BY <1>1, <1>2, <1>4, <1>11, <1>12, <2>1

\* What is agreed to have been sent by a block was.
LEMMA SentByIsTrue ==
  ASSUME CorroborationAssumption, Corroborated, RefundInv, NEW b, NEW down,
         NEW answer \in was_sent_by_block(b, down), 1 \in answer
  PROVE  SrcFlag(b) # Neither
<1> DEFINE truth == IF SrcFlag(b) # Neither THEN 1 ELSE 0
           L == {Fail, 0, 1}
           k == links.src
<1>1. PICK said \in Said(1 .. k, {truth}, L) : answer = agreed("src", said, down)
  BY DEF was_sent_by_block
<1>2. 1 \in majority(ask_all(said, down), 2) /\ k \in Nat
  BY <1>1, RefundFacts DEF agreed, read_agreed
<1> HIDE DEF truth, L, k
<1>3. truth = 1
  BY <1>1, <1>2, AgreedIsTrue
<1>4. QED
  BY <1>3 DEF truth

LEMMA AgeInductive ==
  ASSUME CorroborationAssumption, Corroborated, RefundInv, verify_age
  PROVE  /\ ChainsOK' /\ CandidateInv'
         /\ UNCHANGED <<srcListed, chain, sentAt, outcome, repaid, attested>>
<1>1. /\ pc.step = "age"
      /\ UNCHANGED <<srcListed, links, chain, sentAt, outcome, repaid, attested>>
  BY DEF verify_age, world, GiveUp
<1>2. pc \in Candidate
  BY <1>1 DEF RefundInv, ChainsOK, AtRest
<1>3. \/ pc' = AtRest
      \/ \E v : pc' = [pc EXCEPT !.aged = (v = 1), !.step = "decide"] /\ (v = 1 => AgedForGood)
  <2>1. PICK down \in Unreachable(links.src) : \E heads \in HeadsOf("src") :
          IF Few(heads, down) THEN GiveUp
          ELSE \E b \in aged_block(down, heads) :
                 \E answer \in IF b = Fail THEN {{}} ELSE IF b = 0 THEN {{0}}
                               ELSE was_sent_by_block(b, down) :
                   IF answer = {} THEN GiveUp
                   ELSE /\ \E v \in answer : pc' = [pc EXCEPT !.aged = (v = 1), !.step = "decide"]
                        /\ UNCHANGED <<resting, attested>>
    BY DEF verify_age
  <2>2. PICK heads \in HeadsOf("src") :
          IF Few(heads, down) THEN GiveUp
          ELSE \E b \in aged_block(down, heads) :
                 \E answer \in IF b = Fail THEN {{}} ELSE IF b = 0 THEN {{0}}
                               ELSE was_sent_by_block(b, down) :
                   IF answer = {} THEN GiveUp
                   ELSE /\ \E v \in answer : pc' = [pc EXCEPT !.aged = (v = 1), !.step = "decide"]
                        /\ UNCHANGED <<resting, attested>>
    BY <2>1
  <2>3. CASE Few(heads, down)
    BY <2>2, <2>3 DEF GiveUp
  <2>4. CASE ~ Few(heads, down)
    <3>1. PICK b \in aged_block(down, heads) :
                 \E answer \in IF b = Fail THEN {{}} ELSE IF b = 0 THEN {{0}}
                               ELSE was_sent_by_block(b, down) :
                   IF answer = {} THEN GiveUp
                   ELSE /\ \E v \in answer : pc' = [pc EXCEPT !.aged = (v = 1), !.step = "decide"]
                        /\ UNCHANGED <<resting, attested>>
      BY <2>2, <2>4
    <3>2. PICK answer \in IF b = Fail THEN {{}} ELSE IF b = 0 THEN {{0}} ELSE was_sent_by_block(b, down) :
                   IF answer = {} THEN GiveUp
                   ELSE /\ \E v \in answer : pc' = [pc EXCEPT !.aged = (v = 1), !.step = "decide"]
                        /\ UNCHANGED <<resting, attested>>
      BY <3>1
    <3>3. CASE answer = {}
      BY <3>2, <3>3 DEF GiveUp
    <3>4. CASE answer # {}
      <4>1. PICK v \in answer : pc' = [pc EXCEPT !.aged = (v = 1), !.step = "decide"]
        BY <3>2, <3>4
      <4>2. ASSUME v = 1 PROVE AgedForGood
        <5>1. b # Fail /\ answer \in was_sent_by_block(b, down)
          <6>1. answer # {} /\ answer # {0}
            BY <4>1, <4>2
          <6>2. answer \in IF b = Fail THEN {{}} ELSE IF b = 0 THEN {{0}} ELSE was_sent_by_block(b, down)
            BY <3>2
          <6>3. QED
            BY <6>1, <6>2
        <5>2. SrcFlag(b) # Neither
          BY <4>1, <4>2, <5>1, SentByIsTrue
        <5>3. b \in Int /\ (1 <= b => b + Timeout <= chain.src - Confirmations)
          BY <2>2, <2>4, <3>1, <5>1, AgedBlockIsOld
        <5>4. sentAt \in 1 .. b
          BY <5>2, <5>3 DEF SrcFlag, RefundInv, ChainsOK
        <5>5. Timeout \in Nat /\ Confirmations \in Nat /\ chain.src \in Nat
          BY RefundFacts, RefundReadsAssumption
        <5>6. QED
          BY <5>3, <5>4, <5>5 DEF AgedForGood
      <4>3. QED
        BY <4>1, <4>2
    <3>5. QED
      BY <3>3, <3>4
  <2>5. QED
    BY <2>3, <2>4
<1>4. BurnedForGood' = BurnedForGood /\ SentForGood' = SentForGood /\ AgedForGood' = AgedForGood
  BY <1>1 DEF BurnedForGood, SentForGood, AgedForGood
<1>5. CASE pc' = AtRest
  <2>1. AtRest \notin Candidate
    BY DEF AtRest, Candidate
  <2>2. QED
    BY <1>1, <1>5, <2>1 DEF ChainsOK, CandidateInv, RefundInv
<1>6. ASSUME NEW v, pc' = [pc EXCEPT !.aged = (v = 1), !.step = "decide"], v = 1 => AgedForGood
      PROVE  ChainsOK' /\ CandidateInv'
  <2>1. (v = 1) \in BOOLEAN
    BY Zenon
  <2>2. pc' \in Candidate /\ pc'.dst = pc.dst /\ pc'.aged = (v = 1)
    BY <1>2, <1>6, <2>1 DEF Candidate
  <2>3. ChainsOK'
    BY <1>1, <2>2 DEF ChainsOK, RefundInv
  <2>4. CandidateInv'
    BY <1>1, <1>2, <1>4, <1>6, <2>2 DEF CandidateInv, RefundInv
  <2>5. QED
    BY <2>3, <2>4
<1>7. QED
  BY <1>1, <1>3, <1>5, <1>6


LEMMA DecisionInductive ==
  ASSUME CorroborationAssumption, Corroborated, RefundInv, handle_candidate, UNCHANGED liar
  PROVE  RefundInv'
<1>1. /\ pc.step = "decide" /\ pc' = AtRest
      /\ attested' = attested \cup Decision(pc.dst, pc.aged)
      /\ UNCHANGED <<srcListed, links, chain, sentAt, outcome, repaid>>
  BY DEF handle_candidate, world
<1>2. pc \in Candidate
  BY <1>1 DEF RefundInv, ChainsOK, AtRest
<1>3. "cancel" \in Decision(pc.dst, pc.aged) => AgedForGood
  BY <1>2 DEF Decision, CandidateInv, RefundInv
<1>4. "refund" \in Decision(pc.dst, pc.aged) => BurnedForGood /\ (srcListed => SentForGood)
  <2>1. "refund" \in Decision(pc.dst, pc.aged) => pc.dst = Burned
    BY DEF Decision
  <2>2. /\ pc.dst = Burned => BurnedForGood
        /\ srcListed => SentForGood
    BY <1>1, <1>2 DEF CandidateInv, RefundInv
  <2>3. QED
    BY <2>1, <2>2
<1>5. /\ sentAt \in Int /\ Confirmations \in Nat /\ chain.src \in Int /\ outcome.at \in Int /\ chain.dst \in Int
      /\ Timeout \in Nat
  BY RefundFacts, RefundReadsAssumption DEF RefundInv, ChainsOK
<1>6. "cancel" \in attested' => sentAt > 0 /\ sentAt + Timeout <= chain.src - Confirmations
  BY <1>1, <1>3, <1>5 DEF AgedForGood, RefundInv, AttestedIsTrue
<1>7. "refund" \in attested' => /\ outcome.kind = Burned /\ outcome.at <= chain.dst - Confirmations
                                /\ srcListed => sentAt \in 1 .. (chain.src - Confirmations)
  <2>1. BurnedForGood => outcome.kind = Burned /\ outcome.at <= chain.dst - Confirmations
    BY DEF BurnedForGood
  <2>2. SentForGood => sentAt \in 1 .. (chain.src - Confirmations)
    BY <1>5 DEF SentForGood
  <2>3. "refund" \in attested => /\ outcome.kind = Burned /\ outcome.at <= chain.dst - Confirmations
                                 /\ srcListed => sentAt \in 1 .. (chain.src - Confirmations)
    BY DEF RefundInv, AttestedIsTrue
  <2>4. QED
    BY <1>1, <1>4, <2>1, <2>2, <2>3
<1>8. AttestedIsTrue'
  <2>1. UNCHANGED <<srcListed, chain, sentAt, outcome>>
    BY <1>1
  <2>2. "cancel" \in attested' => sentAt' > 0 /\ sentAt' + Timeout <= chain'.src - Confirmations
    BY <1>6, <2>1
  <2>3. "refund" \in attested' => /\ outcome'.kind = Burned /\ outcome'.at <= chain'.dst - Confirmations
                                  /\ srcListed' => sentAt' \in 1 .. (chain'.src - Confirmations)
    BY <1>7, <2>1
  <2>4. QED
    BY <2>2, <2>3 DEF AttestedIsTrue
<1>9. ChainsOK' /\ CandidateInv'
  <2>1. AtRest \notin Candidate
    BY DEF AtRest, Candidate
  <2>2. QED
    BY <1>1, <2>1 DEF ChainsOK, CandidateInv, RefundInv
<1>10. QED
  BY <1>1, <1>8, <1>9 DEF RefundInv

LEMMA RefundInductive ==
  ASSUME CorroborationAssumption, Corroborated, RefundInv, RefundNext, UNCHANGED scanVars
  PROVE  RefundInv'
<1>1. liar' = liar
  BY DEF scanVars
<1>2. CASE SrcBlock \/ DstBlock
  <2>1. /\ ChainsOK' /\ srcListed' = srcListed /\ pc' = pc /\ attested' = attested
        /\ chain'.src >= chain.src /\ chain'.dst >= chain.dst
        /\ (sentAt # 0 => sentAt' = sentAt) /\ (outcome.at # 0 => outcome' = outcome)
    BY <1>2, ChainInductive
  <2>2. AttestedIsTrue' /\ CandidateInv'
    BY <2>1, KnownForGood
  <2>3. QED
    BY <1>1, <2>1, <2>2 DEF RefundInv
<1>3. ASSUME ChainsOK', CandidateInv', UNCHANGED <<srcListed, chain, sentAt, outcome, repaid, attested>>
      PROVE  RefundInv'
  <2>1. AttestedIsTrue'
    BY <1>3 DEF AttestedIsTrue, RefundInv
  <2>2. QED
    BY <1>1, <1>3, <2>1 DEF RefundInv
<1>4. CASE run \/ Wake \/ \E c \in Side : ensure(c)
  BY <1>3, <1>4, ReadersInductive
<1>5. CASE destination_state
  BY <1>3, <1>5, DestinationInductive
<1>6. CASE source_state
  BY <1>3, <1>6, SourceInductive
<1>7. CASE verify_age
  BY <1>3, <1>7, AgeInductive
<1>8. CASE handle_candidate
  BY <1>1, <1>8, DecisionInductive
<1>9. QED
  BY <1>2, <1>4, <1>5, <1>6, <1>7, <1>8 DEF RefundNext, RefundLoop

\* Nothing the scan's invariant speaks of changes.
LEMMA ScanUntouched ==
  ASSUME CorroborationInv, UNCHANGED scanVars
  PROVE  CorroborationInv'
<1> USE DEF CorroborationInv, scanVars
<1>1. SourceOK' /\ DomainOK' /\ LoneSource' /\ ScalesOK'
  BY DEF SourceOK, DomainOK, LoneSource, ScalesOK
<1>2. WindowInv' /\ BatchInv'
  BY DEF WindowInv, WindowOK, BatchInv
<1>3. SignedIsReal' /\ NothingPassedOver'
  BY DEF SignedIsReal, NothingPassedOver
<1>4. QED
  BY <1>1, <1>2, <1>3

LEMMA CandidateUntouched ==
  ASSUME RefundInv, UNCHANGED refundVars, UNCHANGED liar
  PROVE  RefundInv'
<1>1. UNCHANGED <<srcListed, links, chain, sentAt, outcome, repaid, pc, resting, attested, liar>>
  BY DEF refundVars
<1>2. ChainsOK' /\ AttestedIsTrue'
  BY <1>1 DEF RefundInv, ChainsOK, AttestedIsTrue
<1>3. CandidateInv'
  BY <1>1 DEF RefundInv, CandidateInv, BurnedForGood, SentForGood, AgedForGood
<1>4. QED
  BY <1>1, <1>2, <1>3 DEF RefundInv

LEMMA CorroborationInductive ==
  ASSUME CorroborationAssumption, Corroborated, CorroborationInv, CorroborationNext
  PROVE  CorroborationInv' /\ liar' = liar
<1>1. CASE connect_for_gate
  BY <1>1, ConnectInductive DEF connect_for_gate
<1>2. CASE read_domain
  BY <1>2, DomainInductive DEF read_domain
<1>3. CASE scan_head
  BY <1>3, ScanHeadInductive DEF scan_head, fixed
<1>4. CASE Serve
  BY <1>4, ServeInductive DEF Serve, fixed
<1>5. CASE get_logs_corroborated
  BY <1>5, GetLogsInductive DEF get_logs_corroborated, fixed
<1>6. CASE verdict
  <2>1. PICK log \in batch : Verdict(log)
    BY <1>6 DEF verdict
  <2>2. batch # None /\ liar' = liar
    BY <1>6, <2>1 DEF verdict, Verdict, fixed
  <2>3. QED
    BY <2>1, <2>2, VerdictInductive
<1>7. CASE CloseWindow
  BY <1>7, CloseWindowInductive DEF CloseWindow, fixed
<1>8. CASE Grow
  BY <1>8, GrowInductive DEF Grow, fixed
<1>9. QED
  BY <1>1, <1>2, <1>3, <1>4, <1>5, <1>6, <1>7, <1>8 DEF CorroborationNext, Scan

ValidatorInv == CorroborationInv /\ RefundInv

LEMMA ValidatorStarts ==
  ASSUME CorroborationAssumption, Corroborated, ValidatorInit
  PROVE  ValidatorInv
<1>1. CorroborationInit /\ RefundInit
  BY DEF ValidatorInit
<1>2. /\ N \in Nat \ {0} /\ configured \in {1, N} /\ liar \in 0 .. configured /\ max_block_range \in Nat \ {0}
      /\ DOMAIN Event \subseteq 1 .. MaxBlock /\ MaxBlock \in Nat
  BY <1>1 DEF CorroborationInit, CorroborationAssumption, Block
<1>3. SourceOK
  BY <1>1, <1>2 DEF CorroborationInit, SourceOK, Stuck
<1>4. DomainOK /\ LoneSource /\ ScalesOK /\ SignedIsReal
  BY <1>1 DEF CorroborationInit, DomainOK, LoneSource, ScalesOK, SignedIsReal
<1>5. WindowInv /\ BatchInv
  BY <1>1, NoWindow DEF CorroborationInit
<1>6. NothingPassedOver
  <2>1. cursor = 1 /\ \A b \in DOMAIN Event : ~ (b < 1)
    BY <1>1, <1>2 DEF CorroborationInit
  <2>2. QED
    BY <2>1 DEF NothingPassedOver
<1>7. CorroborationInv
  BY <1>3, <1>4, <1>5, <1>6 DEF CorroborationInv
<1>8. ChainsOK
  <2>1. links \in [Side -> 0 .. N] /\ chain \in [Side -> Nat] /\ chain.src = 1 /\ chain.dst = 1
    BY <1>1, <1>2 DEF RefundInit, Side
  <2>2. /\ sentAt \in 0 .. 1 /\ repaid = 0 /\ pc = AtRest
        /\ outcome = [kind |-> Neither, at |-> 0]
    BY <1>1 DEF RefundInit
  <2>3. outcome \in [kind : Flags, at : 0 .. 1]
    BY <2>2 DEF Flags
  <2>4. QED
    BY <2>1, <2>2, <2>3 DEF ChainsOK
<1>9. CandidateInv /\ AttestedIsTrue
  BY <1>1 DEF RefundInit, CandidateInv, Candidate, AtRest, AttestedIsTrue
<1>10. liar \in Nat /\ srcListed \in BOOLEAN
  BY <1>1, <1>2 DEF RefundInit
<1>11. QED
  BY <1>7, <1>8, <1>9, <1>10 DEF ValidatorInv, RefundInv

LEMMA ValidatorInductive ==
  ASSUME CorroborationAssumption, Corroborated, ValidatorInv,
         [ValidatorNext]_<<corroborationVars, refundVars>>
  PROVE  ValidatorInv'
<1> USE DEF ValidatorInv
<1>1. CASE CorroborationNext /\ UNCHANGED refundVars
  BY <1>1, CorroborationInductive, CandidateUntouched
<1>2. CASE RefundNext /\ UNCHANGED scanVars
  BY <1>2, RefundInductive, ScanUntouched
<1>3. CASE UNCHANGED <<corroborationVars, refundVars>>
  <2>1. UNCHANGED scanVars /\ UNCHANGED refundVars /\ UNCHANGED liar
    BY <1>3 DEF corroborationVars, scanVars
  <2>2. QED
    BY <2>1, ScanUntouched, CandidateUntouched
<1>4. QED
  BY <1>1, <1>2, <1>3 DEF ValidatorNext

\* What a validator signs, as scanner or as refund attester, is true of the chains, whatever one
\* endpoint of a chain tells it: for any number of endpoints from two, any chain, any lag and
\* any number of failing calls (RefundReads!EvidenceIsTrue).
THEOREM EvidenceTheorem ==
  ASSUME Corroborated
  PROVE  ValidatorSpec => []EvidenceIsTrue
<1>1. ValidatorInit => ValidatorInv
  BY CorroborationAssumption, ValidatorStarts
<1>2. ValidatorInv /\ [ValidatorNext]_<<corroborationVars, refundVars>> => ValidatorInv'
  BY CorroborationAssumption, ValidatorInductive
<1>3. ValidatorInv => EvidenceIsTrue
  BY DEF ValidatorInv, CorroborationInv, RefundInv, EvidenceIsTrue
<1>4. QED
  BY <1>1, <1>2, <1>3, PTL DEF ValidatorSpec

\* The cursor of its scan passes over no transfer it should have signed
\* (Corroboration!NothingPassedOver).
THEOREM NothingPassedOverTheorem ==
  ASSUME Corroborated
  PROVE  ValidatorSpec => []NothingPassedOver
<1>1. ValidatorInit => ValidatorInv
  BY CorroborationAssumption, ValidatorStarts
<1>2. ValidatorInv /\ [ValidatorNext]_<<corroborationVars, refundVars>> => ValidatorInv'
  BY CorroborationAssumption, ValidatorInductive
<1>3. ValidatorInv => NothingPassedOver
  BY DEF ValidatorInv, CorroborationInv
<1>4. QED
  BY <1>1, <1>2, <1>3, PTL DEF ValidatorSpec
=============================================================================
