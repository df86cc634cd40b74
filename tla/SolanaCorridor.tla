--------------------------- MODULE SolanaCorridor ---------------------------
(* One transfer between an EVM gate and the Solana gate, in either          *)
(* direction, with the processes of solana-relayer that settle it: the      *)
(* refund attesters (refund.rs, reading the EVM gate through evm.rs) and    *)
(* the submitter of claims, cancels and refunds on Solana (target.rs).      *)
(*                                                                          *)
(* Each chain holds one side of the transfer.  The EVM chain is its newest  *)
(* blocks, each with the state after it and the time since the one before;  *)
(* a reorg replaces blocks above the confirmed one.  The Solana side is the *)
(* newest state and the finalized one, which lags and which a fork falls    *)
(* back to.  Ages and times saturate at Timeout.                            *)
EXTENDS Integers, Sequences, FiniteSets, FiniteSetsExt, SequencesExt

CONSTANTS
  Attester, Faulty,      \* validators: those that run this code, and the others
  threshold,             \* of both gates
  Timeout,               \* [refund].timeout_secs
  Gaps,                  \* seconds between two EVM blocks
  Window,                \* EVM blocks remembered
  block_confirmation,
  Rows,                  \* the store's refund queue: "real", "alias", "other"
  REFUND_PAGE, MAX_REFUND_PAGES,
  MaxForks

Row == {"real", "alias", "other"}

ASSUME CorridorAssumption ==
  /\ IsFiniteSet(Faulty) /\ threshold \in Nat /\ threshold > Cardinality(Faulty)
  /\ Cardinality(Attester) >= threshold
  /\ {Timeout, block_confirmation, Window} \subseteq Nat /\ Gaps \subseteq Nat
  /\ Window > block_confirmation
  /\ Rows \in Seq(Row) /\ {REFUND_PAGE, MAX_REFUND_PAGES} \subseteq Nat

Side == {"none", "sent", "refunded", "claimed", "cancelled"}
Quorums == {"cancel", "refund"}

VARIABLES
  to_solana,     \* the direction
  deliverable,   \* the destination can pay it: asset bound, receiver usable
  form,          \* the record, as the Solana gate can be told of it
  dated,         \* the ["sent", id] record carries its lock time
  readers,       \* the attesters with an EVM reader and a timeout
  mislabelled,   \* attesters whose name the store put on a junk signature
  blocks,        \* EVM: [st, gap], oldest first
  sol, final,    \* Solana: [st, age], newest and finalized
  transfer,      \* a quorum signed the transfer
  votes,         \* kind -> the validators whose attestation is in the store
  cursor,        \* attester -> rows of the queue already walked
  pc,            \* attester -> the rows of this walk it has not decided
  seen,          \* attester -> the destination as it read it
  age,           \* time since the funds were locked, on the source's clock
  late,          \* attester -> delivered for good before it took up the row
  forks

setup == <<to_solana, deliverable, form, dated, readers, mislabelled>>
solana == <<sol, final>>
attesters == <<cursor, pc, seen, late>>
vars == <<setup, blocks, solana, transfer, votes, attesters, age, forks>>

\* A record that decodes, fits the gate's integers and hashes to its id under
\* the gate's own domain; another is warned of once and left alone.
Forms == {"plain", "unencodable"}
encodable == form = "plain"

Cap(n) == IF n < Timeout THEN n ELSE Timeout

-----------------------------------------------------------------------------
(* The two gates.                                                           *)

Quorum(kind) == Cardinality(votes[kind]) >= threshold
IsSource(chain) == (chain = "evm") = to_solana

\* What a gate may do next with the transfer; claims, cancels and refunds are
\* open to anyone who holds the quorum.
GateSteps(chain, st) ==
  {next \in Side :
     \/ next = "sent"      /\ st = "none" /\ IsSource(chain)
     \/ next = "refunded"  /\ st = "sent" /\ Quorum("refund")
     \/ next = "claimed"   /\ st = "none" /\ ~IsSource(chain) /\ transfer /\ deliverable
     \/ next = "cancelled" /\ st = "none" /\ ~IsSource(chain) /\ Quorum("cancel")}

-----------------------------------------------------------------------------
(* The EVM chain, as evm.rs reads it.                                       *)

confirmed_block == Len(blocks) - block_confirmation
State(height) == IF height < 1 THEN "none" ELSE blocks[height].st
block_timestamp(height) == SumFunctionOnSet([h \in 1..Len(blocks) |-> blocks[h].gap], 1..height)

\* A block at least Timeout older than the confirmed one: steps back twice as
\* far each time; 0 when the chain is too young.
Steps == {Max({1, Timeout \div 12}) * 2^i : i \in 0..23}
aged_block ==
  LET head == confirmed_block
      target == block_timestamp(head) - Timeout
      old == {step \in 1..(head - 1) : step \in Steps /\ block_timestamp(head - step) <= target}
  IN  IF old = {} THEN 0 ELSE head - Min(old)

was_sent_by_block(height) == height > 0 /\ State(height) \in {"sent", "refunded"}

\* The chain grows by a block, and one more block is confirmed: an honest
\* majority signs what it shows sent, and the lock grows older.
mine(st, gap) ==
  LET grown == Append(blocks, [st |-> st, gap |-> gap])
      buried == grown[confirmed_block + 1]
  IN  /\ blocks' = IF Len(grown) > Window THEN Tail(grown) ELSE grown
      /\ age' = IF to_solana /\ State(confirmed_block) \in {"sent", "refunded"}
                THEN Cap(age + buried.gap) ELSE age
      /\ transfer' = (transfer \/ (to_solana /\ confirmed_block >= 0 /\ buried.st = "sent"))
      /\ UNCHANGED <<setup, solana, votes, attesters, forks>>

Tip == State(Len(blocks))
EvmIdle == \E gap \in Gaps : mine(Tip, gap)
EvmStep == \E gap \in Gaps, st \in GateSteps("evm", Tip) : mine(st, gap)
EvmSettle == (Tip /= "none" \/ ~IsSource("evm")) /\ EvmStep

\* The newest block is replaced by another; the confirmed one never is.
Reorg ==
  /\ forks < MaxForks /\ Len(blocks) > 1 /\ block_confirmation > 0
  /\ forks' = forks + 1
  /\ LET below == blocks[Len(blocks) - 1].st
     IN  \E st \in {below} \cup GateSteps("evm", below), gap \in Gaps :
           /\ blocks' = Append(Front(blocks), [st |-> st, gap |-> gap])
           /\ blocks' /= blocks
  /\ UNCHANGED <<setup, solana, transfer, votes, attesters, age>>

-----------------------------------------------------------------------------
(* Solana.                                                                  *)

land(st) ==
  /\ sol' = [sol EXCEPT !.st = st]
  /\ UNCHANGED <<setup, blocks, final, transfer, votes, attesters, age, forks>>

\* A user's send, or anyone's claim, cancel or refund.
SolanaStep == \E st \in GateSteps("solana", sol.st) : (encodable \/ st = "sent") /\ land(st)

Clock ==
  /\ sol.st = "sent" /\ sol.age < Timeout
  /\ sol' = [sol EXCEPT !.age = @ + 1]
  /\ UNCHANGED <<setup, blocks, final, transfer, votes, attesters, age, forks>>

\* What was newest is final; relayers sign a transfer they see sent for good.
Finalize ==
  /\ final /= sol /\ final' = sol
  /\ transfer' = (transfer \/ (~to_solana /\ sol.st = "sent"))
  /\ UNCHANGED <<setup, blocks, sol, votes, attesters, age, forks>>

Fork ==
  /\ forks < MaxForks /\ sol /= final
  /\ forks' = forks + 1 /\ sol' = final
  /\ UNCHANGED <<setup, blocks, final, transfer, votes, attesters, age>>

-----------------------------------------------------------------------------
(* The attesters.                                                           *)

Destination == IF to_solana THEN final.st ELSE State(confirmed_block)
Source == IF to_solana THEN State(confirmed_block) ELSE final.st

\* One walk of the queue, from where the last one stopped; the end of the
\* queue is a page that is not full.
tick(a) ==
  /\ pc[a] = <<>>
  /\ LET room == REFUND_PAGE * MAX_REFUND_PAGES
         left == Len(Rows) - cursor[a]
         short == left < room
     IN  /\ pc' = [pc EXCEPT ![a] = [i \in 1..(IF short THEN left ELSE room) |-> Rows[cursor[a] + i]]]
         /\ cursor' = [cursor EXCEPT ![a] = IF short THEN 0 ELSE @ + room]
  /\ late' = [late EXCEPT ![a] = (Destination = "claimed")]
  /\ UNCHANGED <<setup, blocks, solana, transfer, votes, seen, age, forks>>

\* The row's own parameters must hash to the id it names.
bound_submission_id_Any(row) == TRUE
bound_submission_id(row) == row /= "alias"

\* Rows of other corridors are not ours, nor those whose destination no
\* reader of ours can see.
routable(a, row) == bound_submission_id(row) /\ row /= "other" /\ (to_solana \/ a \in readers)

skip(a) ==
  /\ pc[a] /= <<>> /\ ~routable(a, Head(pc[a]))
  /\ pc' = [pc EXCEPT ![a] = Tail(@)]
  /\ UNCHANGED <<setup, blocks, solana, transfer, votes, cursor, seen, late, age, forks>>

\* The destination first.  A row of another corridor asks a gate that never
\* heard of the id.
read_destination(a) ==
  /\ pc[a] /= <<>> /\ routable(a, Head(pc[a])) /\ seen[a] = "unread"
  /\ seen' = [seen EXCEPT ![a] = IF Head(pc[a]) = "real" THEN Destination ELSE "none"]
  /\ UNCHANGED <<setup, blocks, solana, transfer, votes, cursor, pc, late, age, forks>>

\* By recovering the signatures stored, whatever names stand beside them.
attested_by_Label(a, kind) == a \in votes[kind] \cup mislabelled
attested_by(a, kind) == a \in votes[kind]

aged_out_Nominated(a) == TRUE
aged_out(a) ==
  IF to_solana THEN was_sent_by_block(aged_block)
  ELSE dated /\ final.age >= Timeout

\* (a variant that pays back what was never burned)
decide_NoBurn(a, dst) ==
  IF dst /= "claimed" /\ Source = "sent" /\ a \in readers /\ aged_out(a) THEN "refund" ELSE "skip"
decide(a, dst) ==
  LET readable == ~to_solana \/ a \in readers IN
  IF dst = "claimed" \/ (readable /\ Source /= "sent") THEN "skip"
  ELSE IF dst = "cancelled" THEN IF attested_by(a, "refund") THEN "skip" ELSE "refund"
  ELSE IF ~ attested_by(a, "cancel") /\ readable /\ a \in readers /\ aged_out(a)
       THEN "cancel" ELSE "skip"

\* Then the source and its age, the decision and the post.
attest(a) ==
  /\ pc[a] /= <<>> /\ seen[a] /= "unread"
  /\ LET kind == decide(a, seen[a])
     IN  votes' = IF kind = "skip" THEN votes ELSE [votes EXCEPT ![kind] = @ \cup {a}]
  /\ pc' = [pc EXCEPT ![a] = Tail(@)] /\ seen' = [seen EXCEPT ![a] = "unread"]
  /\ UNCHANGED <<setup, blocks, solana, transfer, cursor, late, age, forks>>

-----------------------------------------------------------------------------
(* The submitter: each instruction only after the finalized marker or       *)
(* record says it is still wanted; the gate checks it again when it lands.  *)

try_cancel ==
  /\ to_solana /\ encodable /\ Quorum("cancel") /\ final.st = "none"
  /\ "cancelled" \in GateSteps("solana", sol.st) /\ land("cancelled")

\* After the burn, if there is no quorum for one or submitting it failed.
try_claim ==
  /\ to_solana /\ encodable /\ transfer /\ final.st = "none"
  /\ "claimed" \in GateSteps("solana", sol.st) /\ land("claimed")

try_refund ==
  /\ ~to_solana /\ encodable /\ Quorum("refund") /\ final.st = "sent"
  /\ "refunded" \in GateSteps("solana", sol.st) /\ land("refunded")

\* One pass over the two queues of this chain, both of them hints.
Submit == try_refund \/ try_cancel \/ try_claim

Init ==
  /\ to_solana \in BOOLEAN /\ deliverable \in BOOLEAN /\ form \in Forms /\ dated \in BOOLEAN
  /\ readers \in {Attester} \cup {Attester \ {a} : a \in Attester}
  /\ mislabelled = Attester
  /\ blocks = <<[st |-> "none", gap |-> 1]>>
  /\ sol = [st |-> "none", age |-> 0] /\ final = sol
  /\ transfer = FALSE
  /\ votes \in [Quorums -> SUBSET Faulty]   \* theirs: either kind, both or neither
  /\ cursor = [a \in Attester |-> 0] /\ pc = [a \in Attester |-> <<>>]
  /\ seen = [a \in Attester |-> "unread"] /\ late = [a \in Attester |-> FALSE]
  /\ age = 0 /\ forks = 0

Next ==
  \/ EvmIdle \/ EvmStep \/ Reorg
  \/ SolanaStep \/ Clock \/ Finalize \/ Fork
  \/ \E a \in Attester : tick(a) \/ skip(a) \/ read_destination(a) \/ attest(a)
  \/ Submit

Spec == Init /\ [][Next]_vars

\* Both chains make progress, the EVM keeper and the submitter deliver what a
\* quorum allows, and every attester's loop runs.
LiveSpec ==
  /\ Spec
  /\ WF_vars(EvmIdle) /\ WF_vars(EvmSettle) /\ WF_vars(Clock) /\ WF_vars(Finalize)
  /\ \A a \in Attester :
       WF_vars(tick(a)) /\ WF_vars(skip(a)) /\ WF_vars(read_destination(a)) /\ WF_vars(attest(a))
  /\ WF_vars(try_cancel) /\ WF_vars(try_claim) /\ WF_vars(try_refund)

-----------------------------------------------------------------------------
(* Properties.                                                              *)

EvmTip == Tip
SourceTip == IF to_solana THEN EvmTip ELSE sol.st
DestinationTip == IF to_solana THEN sol.st ELSE EvmTip

\* No transfer is both delivered and paid back, on any view of either chain,
\* although votes are cast on views that are old by the time they count and
\* blocks not yet confirmed are replaced (`decide`).
NeverPaidTwice ==
  LET paid == {DestinationTip, Destination}
      back == {SourceTip, Source}
  IN  ~("claimed" \in paid /\ "refunded" \in back)

\* Nothing is burned before its lock is Timeout old by the source's own clock,
\* whatever the store nominates (`aged_out`).
NeverBurnedEarly ==
  "cancelled" \in {DestinationTip, Destination} =>
    IF to_solana THEN age = Timeout ELSE dated /\ final.age = Timeout

\* An attester never votes on a transfer that was delivered for good when it
\* took the row up, however the store files that row (`tick`).
DeliveredEarnsNothing ==
  [][\A a \in Attester : late[a] => \A k \in Quorums : a \in votes'[k] => a \in votes[k]]_vars

\* Who can ever vote a burn, and who a refund after one: a faulty validator may
\* help burn and then withhold its refund, and an attester with no EVM reader
\* cannot see a burn on the EVM chain.
CancelVoters == readers \cup (Faulty \cap votes["cancel"])
RefundVoters == {a \in Attester : to_solana \/ a \in readers} \cup (Faulty \cap votes["refund"])

\* What these validators can settle: an expressible transfer that can be
\* delivered or burned once its age is known, unless a quorum could burn it
\* and none could refund it.
Serviceable ==
  LET burnable == Cardinality(CancelVoters) >= threshold
  IN  /\ encodable
      /\ burnable => Cardinality(RefundVoters) >= threshold
      /\ deliverable \/ (burnable /\ (to_solana \/ dated))

\* Every such transfer ends delivered or paid back, behind rows that never
\* leave the queue and with junk signatures filed under our names.
Settles ==
  (Source = "sent" /\ Serviceable)
    ~> (Destination = "claimed" \/ Source = "refunded")

\* The two halves of the refund protocol across the corridor: the money goes home only after
\* the burn, and the burn comes only after the timeout.
SettledOnlyIfDue == NeverPaidTwice /\ NeverBurnedEarly

\* How far the transfer has come, as both chains show it for good.
Life ==
  LET paid == CASE Destination = "claimed" -> "delivered"
                [] Destination = "cancelled" -> "burned"
                [] OTHER -> "locked"
  IN  IF Source = "sent" THEN paid ELSE Source

Abstract == INSTANCE Transfer WITH Sub <- {"it"}, life <- [s \in {"it"} |-> Life]

\* What is final of the transfer follows the lifecycle of module Transfer, whatever is replaced
\* on either chain before it is (`try_claim`, `decide`).
ImplementsTransfer == Abstract!Spec
=============================================================================
