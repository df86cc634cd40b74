------------------------------- MODULE Bridge -------------------------------
(***************************************************************************)
(* The whole bridge around the gates of module Gate: chains that reorganise *)
(* behind a confirmation depth, validators that sign transfers they saw    *)
(* sent (crates/validator/src/main.rs), validators that attest cancels and *)
(* refunds (crates/validator/src/refund.rs), the signature store and its   *)
(* indexer, and the keeper that carries quorums to the gates               *)
(* (crates/keeper/src/main.rs).                                            *)
(*                                                                         *)
(* Every chain has two states: gate[c], the tip, and conf[c], the state as *)
(* of the newest block with block_confirmation blocks on top of it.  A     *)
(* reorganisation replaces the tip by any state back to the confirmed one; *)
(* since Confirm can happen at any moment, going back to conf[c] itself    *)
(* covers all of them.  Honest validators read conf only.  The gates' own  *)
(* transactions come from anybody: every entry point is permissionless.    *)
(*                                                                         *)
(* Left to other modules: the scan cursor and its batches (Scanner), the   *)
(* lifecycle columns of the database (Lifecycle), validator rotation       *)
(* (GateGovernance).                                                       *)
(***************************************************************************)
EXTENDS Gate

CONSTANTS
  Faulty,      \* validators that sign anything
  Readable,    \* chains each validator's refund loop has a source reader for
  MaxReorgs,   \* bound: reorganisations
  MaxPauses,   \* bound: pauses of a gate
  NoView       \* the refund loop holds no candidate

Honest == Signer \ Faulty

ASSUME BridgeAssumption ==
  /\ Faulty \subseteq Signer
  /\ Readable \in [Signer -> SUBSET Chain]
  /\ MaxReorgs \in Nat
  /\ MaxPauses \in Nat
  /\ \A c \in Chain : Cardinality(Faulty \cap Members[c]) < Threshold[c]
  /\ NoView \notin [sub: Sub, executed: BOOLEAN, cancelled: BOOLEAN]

VARIABLES
  conf,      \* conf[c]: the gate on chain c at its confirmed block
  records,   \* submissions with a row in the signature store
  eligible,  \* rows the store nominates to the refund loops
  aged,      \* transfers whose unclaimed timeout has passed on their source
  view,      \* view[v]: the candidate v works on and what it read of its destination
  reorgs,    \* reorganisations so far
  pauses     \* pauses so far

offVars == <<conf, records, eligible, aged, view, reorgs, pauses>>

vars == <<gate, sigs, conf, records, eligible, aged, view, reorgs, pauses>>

View == [sub: Sub, executed: BOOLEAN, cancelled: BOOLEAN]

Init ==
  /\ GateInit
  /\ conf = [c \in Chain |-> NewGate(c)]
  /\ records = {}
  /\ eligible = {}
  /\ aged = {}
  /\ view = [v \in Honest |-> NoView]
  /\ reorgs = 0
  /\ pauses = 0

-----------------------------------------------------------------------------
(* What the off-chain actors read *)

\* Mutant: scans up to the tip.
ConfirmedSends_Tip(c) == SentIn(gate[c])

\* Sent events at or below the confirmed block of c.
ConfirmedSends(c) == SentIn(conf[c])

\* Mutant: reads the destination at its tip.
destinationState_Tip(s) ==
  [sub |-> s, executed |-> s \in gate[s.to].executed,
   cancelled |-> s \in gate[s.to].cancelled]

\* The destination gate's two flags for s at its confirmed block.
destinationState(s) ==
  [sub |-> s, executed |-> s \in conf[s.to].executed,
   cancelled |-> s \in conf[s.to].cancelled]

-----------------------------------------------------------------------------
(* Chains *)

\* block_confirmation more blocks: the tip becomes the confirmed state.
Confirm(c) ==
  /\ conf' = [conf EXCEPT ![c] = gate[c]]
  /\ UNCHANGED <<gate, sigs, records, eligible, aged, view, reorgs, pauses>>

\* The unconfirmed blocks of c are replaced by an empty branch.
Reorg(c) ==
  /\ reorgs < MaxReorgs
  /\ gate[c] # conf[c]
  /\ gate' = [gate EXCEPT ![c] = conf[c]]
  /\ reorgs' = reorgs + 1
  /\ UNCHANGED <<sigs, conf, records, eligible, aged, view, pauses>>

\* The source chain's clock passes timeout_secs after a confirmed send.
AgeOut(s) ==
  /\ s \in ConfirmedSends(s.from)
  /\ aged' = aged \cup {s}
  /\ UNCHANGED <<gate, sigs, conf, records, eligible, view, reorgs, pauses>>

-----------------------------------------------------------------------------
(* Transactions.  Anybody may call; users and operators send the rest. *)

UserSend(c) ==
  /\ \E d \in Chain, a \in LocalAmount, r \in ReceiverBytes : send(c, d, a, r)
  /\ UNCHANGED offVars

AnyClaim(c) ==
  /\ \E m \in sigs, S \in SUBSET Signer : claim(c, m.sub, S)
  /\ UNCHANGED offVars

AnyCancel(c) ==
  /\ \E m \in sigs, S \in SUBSET Signer : cancel(c, m.sub, S)
  /\ UNCHANGED offVars

AnyRefund(c) ==
  /\ \E m \in sigs, S \in SUBSET Signer : refund(c, m.sub, S)
  /\ UNCHANGED offVars

GuardianPause(c) ==
  /\ pauses < MaxPauses
  /\ pause(c)
  /\ pauses' = pauses + 1
  /\ UNCHANGED <<conf, records, eligible, aged, view, reorgs>>

OwnerUnpause(c) == unpause(c) /\ UNCHANGED offVars

OwnerSeal(c) == seal(c) /\ UNCHANGED offVars

-----------------------------------------------------------------------------
(* Validators and the store *)

Sign(v, k, s) == sigs' = sigs \cup {[kind |-> k, sub |-> s, signer |-> v]}

\* A faulty validator signs what it likes.
FaultySign(v, k, s) ==
  /\ Sign(v, k, s)
  /\ UNCHANGED <<gate, offVars>>

\* The indexer mirrors a confirmed Sent event into the store.
IndexSent(s) ==
  /\ s \in ConfirmedSends(s.from)
  /\ records' = records \cup {s}
  /\ UNCHANGED <<gate, sigs, conf, eligible, aged, view, reorgs, pauses>>

\* The scan loop meets a confirmed Sent event whose scale the destination
\* registered, signs its submissionId and upserts record and signature.
SignTransfer(v, s) ==
  /\ s \in ConfirmedSends(s.from)
  /\ s.from \in Registered[s.to]
  /\ Sign(v, "transfer", s)
  /\ records' = records \cup {s}
  /\ UNCHANGED <<gate, conf, eligible, aged, view, reorgs, pauses>>

\* The sweep nominates a row to the refund loops.  The nomination is a hint:
\* nothing here depends on whether the transfer is really stuck.
Sweep(s) ==
  /\ s \in records
  /\ eligible' = eligible \cup {s}
  /\ UNCHANGED <<gate, sigs, conf, records, aged, view, reorgs, pauses>>

\* Mutant: one attestation of either kind is taken for both.
fullyAttested_Either(v, s) == v \in SignersOf("cancel", s) \/ v \in SignersOf("refund", s)

\* Nothing is left for v to attest about s.
fullyAttested(v, s) == v \in SignersOf("cancel", s) /\ v \in SignersOf("refund", s)

\* handle_candidate, first half: read the destination at its confirmed block.
ReadDestination(v, s) ==
  /\ s \in eligible
  /\ view[v] = NoView
  /\ ~fullyAttested(v, s)
  /\ view' = [view EXCEPT ![v] = destinationState(s)]
  /\ UNCHANGED <<gate, sigs, conf, records, eligible, aged, reorgs, pauses>>

\* The source still holds the lock, or v cannot read the source at all.
SourceOpen(v, s) == s.from \in Readable[v] => s \in conf[s.from].sentBy

\* Mutant: being a candidate is taken for having aged out.
decide_TrustTheQueue(v, w) ==
  {k \in {"cancel", "refund"} :
     /\ w.executed => w.cancelled
     /\ SourceOpen(v, w.sub)
     /\ v \notin SignersOf(k, w.sub)
     /\ k = "refund" => w.cancelled
     /\ k = "cancel" => ~w.cancelled /\ w.sub.from \in Readable[v]}

\* Mutant: the money may go home once the transfer has aged out.
decide_RefundWithoutBurn(v, w) ==
  {k \in {"cancel", "refund"} :
     /\ w.executed => w.cancelled
     /\ SourceOpen(v, w.sub)
     /\ v \notin SignersOf(k, w.sub)
     /\ w.sub \in aged}

\* What v attests (at most one kind), given what it read of the destination.  A
\* delivered transfer is left alone.  After a burn the refund is attested; before
\* it the cancel is, once aged out, if v has a source reader to see that with.
decide(v, w) ==
  {k \in {"cancel", "refund"} :
     /\ w.executed => w.cancelled
     /\ SourceOpen(v, w.sub)
     /\ v \notin SignersOf(k, w.sub)
     /\ k = "refund" => w.cancelled
     /\ k = "cancel" => ~w.cancelled /\ w.sub.from \in Readable[v] /\ w.sub \in aged}

\* handle_candidate, second half: read the source, decide, sign, upsert.
Attest(v) ==
  /\ view[v] # NoView
  /\ sigs' = sigs \cup {[kind |-> k, sub |-> view[v].sub, signer |-> v] :
                          k \in decide(v, view[v])}
  /\ view' = [view EXCEPT ![v] = NoView]
  /\ UNCHANGED <<gate, conf, records, eligible, aged, reorgs, pauses>>

-----------------------------------------------------------------------------
(* The keeper's share of the permissionless calls: what its loops submit. *)

\* member_signatures: the signatures of this gate's validators, nothing else.
MemberSigs(c, k, s) == SignersOf(k, s) \cap Members[c]

KeeperCancel(s) ==
  /\ s \in records
  /\ HasQuorum(s.to, "cancel", s)
  /\ cancel(s.to, s, MemberSigs(s.to, "cancel", s))
  /\ UNCHANGED offVars

KeeperClaim(s) ==
  /\ s \in records
  /\ ~HasQuorum(s.to, "cancel", s)
  /\ HasQuorum(s.to, "transfer", s)
  /\ claim(s.to, s, MemberSigs(s.to, "transfer", s))
  /\ UNCHANGED offVars

KeeperRefund(s) ==
  /\ s \in records
  /\ HasQuorum(s.from, "refund", s)
  /\ refund(s.from, s, MemberSigs(s.from, "refund", s))
  /\ UNCHANGED offVars

-----------------------------------------------------------------------------

Next ==
  \/ \E c \in Chain :
       \/ Confirm(c) \/ Reorg(c)
       \/ UserSend(c) \/ AnyClaim(c) \/ AnyCancel(c) \/ AnyRefund(c)
       \/ GuardianPause(c) \/ OwnerUnpause(c) \/ OwnerSeal(c)
       \/ \E s \in ConfirmedSends(c) : AgeOut(s) \/ IndexSent(s)
       \/ \E v \in Honest, s \in ConfirmedSends(c) : SignTransfer(v, s)
  \/ \E v \in Faulty, k \in Kind, s \in Signable : FaultySign(v, k, s)
  \/ \E s \in records : Sweep(s)
  \/ \E v \in Honest : Attest(v) \/ \E s \in eligible : ReadDestination(v, s)

Spec == Init /\ [][Next]_vars

\* Transfers the gates accept at all.
Sendable == {s \in Sub : s.to \in Supported[s.from]}

\* Block production, the daemons' loops and the owner's duty to unpause.  The
\* refund loop walks its whole queue and wraps, so no candidate is passed over
\* forever (strong fairness of ReadDestination).
Fairness ==
  /\ \A c \in Chain : WF_vars(Confirm(c)) /\ WF_vars(OwnerUnpause(c))
  /\ \A s \in Sendable :
       /\ WF_vars(AgeOut(s)) /\ WF_vars(IndexSent(s)) /\ WF_vars(Sweep(s))
       /\ WF_vars(KeeperCancel(s)) /\ WF_vars(KeeperClaim(s)) /\ WF_vars(KeeperRefund(s))
       /\ \A v \in Honest : WF_vars(SignTransfer(v, s)) /\ SF_vars(ReadDestination(v, s))
  /\ \A v \in Honest : WF_vars(Attest(v))

LiveSpec == Spec /\ Fairness

-----------------------------------------------------------------------------
(* Properties *)

\* Type correctness of the composed state.
TypeOK ==
  /\ GateTypeOK
  /\ conf \in [Chain -> GateState]
  /\ records \subseteq Sub
  /\ eligible \subseteq records
  /\ aged \subseteq Sub
  /\ view \in [Honest -> View \cup {NoView}]
  /\ reorgs \in 0 .. MaxReorgs
  /\ pauses \in 0 .. MaxPauses

\* scan_source and handle_candidate: what an honest validator has signed, or is
\* about to sign on the strength of a read that is already old, is a fact that no
\* reorganisation takes back: a transfer was sent, has aged out, was burned.
HonestEvidence ==
  /\ \A m \in sigs : m.signer \in Honest =>
       /\ m.kind \in {"transfer", "cancel"} => m.sub \in SentIn(conf[m.sub.from])
       /\ m.kind = "cancel" => m.sub \in aged
       /\ m.kind = "refund" => m.sub \in conf[m.sub.to].cancelled
  /\ \A v \in Honest : view[v] # NoView =>
       (view[v].cancelled => view[v].sub \in conf[view[v].sub.to].cancelled)

\* block_confirmation: on every chain the tip extends the confirmed state by
\* irreversible settlements only, so that what was read there stays true.
TipExtendsConfirmed == \A c \in Chain : OneWay(conf[c], gate[c])

\* README, Refunds, and Gate.sol's refund-path header: there is no interleaving
\* that pays a transfer out twice.  A transfer delivered on its destination is
\* never refunded on its source, even while either chain may still reorganise.
NoDoublePay ==
  \A s \in Sub : ~(s \in DeliveredIn(gate[s.to]) /\ s \in gate[s.from].refunded)

\* scan_source and claim: money leaves a destination gate only for a lock that
\* its source chain can no longer take back.
DeliveredOnlyIfLocked ==
  \A c \in Chain : \A s \in DeliveredIn(gate[c]) : s \in SentIn(conf[s.from])

\* refund.rs: money goes home only for a transfer that its destination has
\* burned beyond any reorganisation.
RefundedOnlyIfBurned ==
  \A c \in Chain : \A s \in gate[c].refunded : s \in conf[s.to].cancelled

\* A cancel forecloses the payout, so it is only ever executed for a transfer
\* that was really sent and whose unclaimed timeout has passed on its source.
BurnedOnlyIfStuck ==
  \A c \in Chain : \A s \in gate[c].cancelled :
    s \in SentIn(conf[s.from]) /\ s \in aged

\* Every payout, refund and burn rests on a fact its chain can no longer take back, in
\* whichever order claim, cancel, refund and reorganisations fall.
SettledOnlyIfDue == DeliveredOnlyIfLocked /\ RefundedOnlyIfBurned /\ BurnedOnlyIfStuck

\* Tokens of T in wire units.
WireValue(T) == SumFunctionOnSet([s \in Sub |-> s.amount], T)

\* Value at every chain's confirmed block, in wire units.
Outstanding ==
  (UNION {SentIn(conf[c]) \ conf[c].refunded : c \in Chain})
    \ (UNION {DeliveredIn(conf[c]) : c \in Chain})

\* Backing: over all confirmed states together, the gates hold their original
\* liquidity plus exactly the transfers still in flight.  A payout without a
\* lock, a second payout or a scale error anywhere breaks the sum.
Backing ==
  /\ \A c \in Chain : (conf[c].balance - Liquidity[c]) % Unit[c] = 0
  /\ SumFunctionOnSet([c \in Chain |-> (conf[c].balance - Liquidity[c]) \div Unit[c]], Chain)
       = WireValue(Outstanding)

\* Each gate's own books and the sum over all gates (send, claim, cancel, refund).
Solvent == Books /\ Backing

\* Each transfer's stage, read off the confirmed states.
Life ==
  [s \in Sub |->
     IF s \in conf[s.from].refunded THEN "refunded"
     ELSE IF s \in DeliveredIn(conf[s.to]) THEN "delivered"
     ELSE IF s \in conf[s.to].cancelled THEN "burned"
     ELSE IF s \in conf[s.from].sentBy THEN "locked"
     ELSE "none"]

Abstract == INSTANCE Transfer WITH life <- Life

\* The two-phase refund and the claim together implement the lifecycle of
\* module Transfer, whatever validators, keepers and chains do in between.
ImplementsTransfer == Abstract!Spec

\* No transfer is stuck for good: once its lock is confirmed it is delivered or
\* refunded, whether or not the destination can pay it (claim, the refund loop
\* and the keeper together).
Settles ==
  \A s \in Sendable :
    s \in conf[s.from].sentBy
      ~> (s \in DeliveredIn(conf[s.to]) \/ s \in conf[s.from].refunded)
=============================================================================
