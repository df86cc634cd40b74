-------------------------------- MODULE Gate --------------------------------
(***************************************************************************)
(* The on-chain half of the bridge: one Gate contract per chain            *)
(* (contracts/src/Gate.sol), restricted to the four operations that move   *)
(* money (send, claim, cancel, refund) and the two switches that gate them *)
(* (pause, seal).  The validator set, the threshold and the asset registry *)
(* are constants here; GateGovernance models how they change.              *)
(*                                                                         *)
(* A transfer is a record holding exactly the parameters that are hashed   *)
(* into its submissionId, so equal ids mean equal records: keccak256 is    *)
(* taken to be injective.  The asset is one token per chain, counted in    *)
(* that chain's smallest units; Unit[c] of them make one wire unit.        *)
(* Signatures are facts: sigs holds every signature that exists, and a     *)
(* caller can put into calldata only signatures that exist.                *)
(***************************************************************************)
EXTENDS Integers, FiniteSets, Functions

CONSTANTS
  Chain,        \* chains, each with one Gate
  Signer,       \* keys that can sign, validators or not
  Members,      \* isValidator, per gate
  Threshold,    \* threshold, per gate
  Unit,         \* bridgeUnit(token), per gate
  Supported,    \* supportedChain, per gate
  Registered,   \* origins whose asset has a local token of the same wire scale here
  MinSend,      \* minSendAmount, per gate
  Liquidity,    \* tokens each gate holds before the first transfer
  LocalAmount,  \* amounts users try to send, in local units
  Wire,         \* amounts a submission may carry, in wire units
  MaxU64,       \* type(uint64).max, the widest amount a 32-byte receiver takes
  MaxNonce,     \* bound: transfers per corridor
  Signable      \* bound: submissions that keys sign without having seen them sent

ASSUME GateAssumption ==
  /\ IsFiniteSet(Chain)
  /\ IsFiniteSet(Signer)
  /\ Members \in [Chain -> SUBSET Signer]
  /\ Threshold \in [Chain -> Nat \ {0}]
  /\ Unit \in [Chain -> Nat \ {0}]
  /\ Supported \in [Chain -> SUBSET Chain]
  /\ Registered \in [Chain -> SUBSET Chain]
  /\ MinSend \in [Chain -> Nat]
  /\ Liquidity \in [Chain -> Nat]
  /\ LocalAmount \subseteq Nat
  /\ Wire \subseteq Nat
  /\ \A c \in Chain, a \in LocalAmount : Supported[c] # {} => a \div Unit[c] \in Wire
  /\ MaxU64 \in Nat
  /\ MaxNonce \in Nat

VARIABLES
  gate,   \* gate[c]: the storage of the Gate on chain c
  sigs    \* every signature that has been produced so far

gateVars == <<gate, sigs>>

-----------------------------------------------------------------------------
(* State *)

\* The three signing domains: submissionId, cancelId, refundId.
Kind == {"transfer", "cancel", "refund"}

\* Receivers are 20 bytes (EVM) or 32 bytes (another VM).
ReceiverBytes == {20, 32}

\* The preimage of a submissionId.
Sub == [from: Chain, to: Chain, nonce: 0 .. (MaxNonce - 1),
        amount: Wire, receiver: ReceiverBytes]

ASSUME SignableAssumption == Signable \subseteq Sub

Sig == [kind: Kind, sub: Sub, signer: Signer]

GateState ==
  [nonceTo: [Chain -> 0 .. MaxNonce], sentBy: SUBSET Sub, refunded: SUBSET Sub,
   executed: SUBSET Sub, cancelled: SUBSET Sub, balance: Int,
   paused: BOOLEAN, isSealed: BOOLEAN]

\* A freshly initialised gate that its liquidity provider has funded.
NewGate(c) ==
  [nonceTo |-> [d \in Chain |-> 0], sentBy |-> {}, refunded |-> {},
   executed |-> {}, cancelled |-> {}, balance |-> Liquidity[c],
   paused |-> FALSE, isSealed |-> FALSE]

\* Transfers whose Sent event is in g's log.
SentIn(g) == g.sentBy \cup g.refunded

\* Transfers g has paid out to their receiver.
DeliveredIn(g) == g.executed \ g.cancelled

-----------------------------------------------------------------------------
(* Helpers of the contract *)

\* Whether local amount a of chain c has an exact wire form.
HasWireForm(c, a) == a % Unit[c] = 0

\* Mutant: scales the wrong way.
toBridgeAmount_Multiplied(c, a) == a * Unit[c]

toBridgeAmount(c, a) == a \div Unit[c]

toLocalAmount(c, w) == w * Unit[c]

\* Mutant: pays the wire amount, forgetting the scale.
refundLocalAmount_Unscaled(c, w) == w

\* A refund is scaled back exactly as the send was scaled.
refundLocalAmount(c, w) == w * Unit[c]

\* Mutant: a corridor's nonce does not move.
nonceAfter_Stuck(n) == n

nonceAfter(n) == n + 1

\* Keys whose signature over s in domain k exists.
SignersOf(k, s) == {v \in Signer : [kind |-> k, sub |-> s, signer |-> v] \in sigs}

\* Mutant: counts signatures instead of validators.
verifySignatures_CountAll(c, k, s, S) ==
  /\ S \subseteq SignersOf(k, s)
  /\ Cardinality(S) <= Cardinality(Members[c])
  /\ Cardinality(S) >= Threshold[c]

\* The array holds one signature per key of S: ascending recovered signers rule
\* out repetitions.  Foreign keys are tolerated but take up room.
verifySignatures(c, k, s, S) ==
  /\ S \subseteq SignersOf(k, s)
  /\ Cardinality(S) <= Cardinality(Members[c])
  /\ Cardinality(S \cap Members[c]) >= Threshold[c]

\* Mutant: a slot stays open until it is burned.
Open_UnlessCancelled(c, s) == s \notin gate[c].cancelled

\* The slot of s has not been consumed: one flag serves claim and cancel.
Open(c, s) == s \notin gate[c].executed

-----------------------------------------------------------------------------
(* Writes to a gate's storage g, as the operations below combine them *)

TakeNonce(g, d) == [g EXCEPT !.nonceTo[d] = nonceAfter(@)]

Lock(g, s) == [g EXCEPT !.sentBy = @ \cup {s}]

Unlock(g, s) == [g EXCEPT !.sentBy = @ \ {s}]

MarkRefunded(g, s) == [g EXCEPT !.refunded = @ \cup {s}]

MarkExecuted(g, s) == [g EXCEPT !.executed = @ \cup {s}]

MarkCancelled(g, s) == [g EXCEPT !.cancelled = @ \cup {s}]

\* Token transfers into and out of the gate.
Receive(g, a) == [g EXCEPT !.balance = @ + a]

Pay(g, a) == [g EXCEPT !.balance = @ - a]

SetPaused(g, b) == [g EXCEPT !.paused = b]

SetSealed(g) == [g EXCEPT !.isSealed = TRUE]

-----------------------------------------------------------------------------
(* Operations.  A call that reverts changes nothing and is no step. *)

send(c, d, a, r) ==
  /\ ~gate[c].paused
  /\ a # 0
  /\ a >= MinSend[c]
  /\ d \in Supported[c]
  /\ HasWireForm(c, a)
  /\ r = 32 => toBridgeAmount(c, a) <= MaxU64
  /\ gate[c].nonceTo[d] < MaxNonce
  /\ LET s == [from |-> c, to |-> d, nonce |-> gate[c].nonceTo[d],
               amount |-> toBridgeAmount(c, a), receiver |-> r]
     IN gate' = [gate EXCEPT ![c] = Receive(Lock(TakeNonce(@, d), s), a)]
  /\ UNCHANGED sigs

claim(c, s, S) ==
  /\ s.to = c
  /\ ~gate[c].paused
  /\ gate[c].isSealed
  /\ Open(c, s)
  /\ verifySignatures(c, "transfer", s, S)
  /\ s.from \in Registered[c]
  /\ s.receiver = 20
  /\ gate[c].balance >= toLocalAmount(c, s.amount)
  /\ gate' = [gate EXCEPT ![c] = Pay(MarkExecuted(@, s), toLocalAmount(c, s.amount))]
  /\ UNCHANGED sigs

cancel(c, s, S) ==
  /\ s.to = c
  /\ ~gate[c].paused
  /\ Open(c, s)
  /\ verifySignatures(c, "cancel", s, S)
  /\ gate' = [gate EXCEPT ![c] = MarkCancelled(MarkExecuted(@, s), s)]
  /\ UNCHANGED sigs

\* Not pausable: a paused bridge still lets money go home.
refund(c, s, S) ==
  /\ s.from = c
  /\ s \notin gate[c].refunded
  /\ s \in gate[c].sentBy
  /\ verifySignatures(c, "refund", s, S)
  /\ gate[c].balance >= refundLocalAmount(c, s.amount)
  /\ gate' = [gate EXCEPT ![c] = Pay(Unlock(MarkRefunded(@, s), s),
                                     refundLocalAmount(c, s.amount))]
  /\ UNCHANGED sigs

pause(c) ==
  /\ ~gate[c].paused
  /\ gate' = [gate EXCEPT ![c] = SetPaused(@, TRUE)]
  /\ UNCHANGED sigs

unpause(c) ==
  /\ gate[c].paused
  /\ gate' = [gate EXCEPT ![c] = SetPaused(@, FALSE)]
  /\ UNCHANGED sigs

seal(c) ==
  /\ ~gate[c].isSealed
  /\ gate' = [gate EXCEPT ![c] = SetSealed(@)]
  /\ UNCHANGED sigs

-----------------------------------------------------------------------------
(* The gates alone, under signers that sign anything: what the contracts     *)
(* guarantee without trusting a single validator.                            *)

\* Any key may sign anything (external: the holders of the keys).
sign(v, k, s) ==
  /\ sigs' = sigs \cup {[kind |-> k, sub |-> s, signer |-> v]}
  /\ UNCHANGED gate

GateInit ==
  /\ gate = [c \in Chain |-> NewGate(c)]
  /\ sigs = {}

Call(c) ==
  \/ \E d \in Chain, a \in LocalAmount, r \in ReceiverBytes : send(c, d, a, r)
  \/ \E m \in sigs, S \in SUBSET Signer : claim(c, m.sub, S)
  \/ \E m \in sigs, S \in SUBSET Signer : cancel(c, m.sub, S)
  \/ \E m \in sigs, S \in SUBSET Signer : refund(c, m.sub, S)
  \/ pause(c)
  \/ unpause(c)
  \/ seal(c)

GateNext ==
  \/ \E c \in Chain : Call(c)
  \/ \E v \in Signer, k \in Kind, s \in Signable : sign(v, k, s)

GateSpec == GateInit /\ [][GateNext]_gateVars

-----------------------------------------------------------------------------
(* Properties *)

\* Type correctness of the gates' storage and of the signatures.
GateTypeOK ==
  /\ gate \in [Chain -> GateState]
  /\ sigs \subseteq Sig

\* Value of a set of transfers on chain c, in local units.
LocalValue(c, T) == SumFunctionOnSet([s \in Sub |-> s.amount * Unit[c]], T)

\* What g holds is its liquidity, plus everything users locked, minus everything
\* it delivered and refunded: no operation creates, loses or rescales money.
BooksOf(c, g) ==
  g.balance = Liquidity[c] + LocalValue(c, SentIn(g))
              - LocalValue(c, DeliveredIn(g)) - LocalValue(c, g.refunded)

\* Gate accounting (send/claim/cancel/refund): every gate's token balance agrees
\* with its lifecycle maps and is never negative.
Books == \A c \in Chain : BooksOf(c, gate[c]) /\ gate[c].balance >= 0

HasQuorum(c, k, s) == Cardinality(SignersOf(k, s) \cap Members[c]) >= Threshold[c]

\* _verifySignatures: behind every consumed slot stands a quorum of this gate's
\* validators over that slot in that domain; a quorum in one domain never
\* settles a transfer in another.
QuorumBehindEverySettlement ==
  \A c \in Chain :
    /\ \A s \in DeliveredIn(gate[c]) : HasQuorum(c, "transfer", s)
    /\ \A s \in gate[c].cancelled : HasQuorum(c, "cancel", s)
    /\ \A s \in gate[c].refunded : HasQuorum(c, "refund", s)

\* What may change in a gate's lifecycle maps: the maps only grow, a delivered
\* slot is never burned afterwards, a burned one never delivered, and a lock
\* leaves sentBy only by being refunded.
OneWay(g, h) ==
  /\ g.executed \subseteq h.executed
  /\ g.cancelled \subseteq h.cancelled
  /\ g.refunded \subseteq h.refunded
  /\ DeliveredIn(g) \subseteq DeliveredIn(h)
  /\ g.sentBy \ h.sentBy \subseteq h.refunded
  /\ \A d \in Chain : g.nonceTo[d] <= h.nonceTo[d]

\* Settlement is final (executed/cancelled/refunded/sentBy in Gate.sol): no
\* sequence of calls reopens a slot or takes a lock back to an earlier state.
SettlementIsFinal == [][\A c \in Chain : OneWay(gate[c], gate'[c])]_gateVars

\* sentBy, refunded and nonceTo: one submissionId is locked at most once.  A
\* lock's nonce was handed out by its own gate, and a refunded lock is gone.
LocksAreFresh ==
  \A c \in Chain :
    /\ gate[c].sentBy \cap gate[c].refunded = {}
    /\ \A s \in SentIn(gate[c]) : s.from = c /\ s.nonce < gate[c].nonceTo[s.to]
=============================================================================
