----------------------------- MODULE RefundReads -----------------------------
(***************************************************************************)
(* What the refund loop of a validator believes about one candidate, from  *)
(* endpoints of which one may say anything (crates/validator/src/refund.rs *)
(* on the votes of provider.rs).  Module Bridge takes these reads for the  *)
(* confirmed state and the age of the transfer for a fact; this module is  *)
(* how the loop comes to know them.                                        *)
(*                                                                         *)
(* The flags of a gate are numbers, so that an endpoint's failure is       *)
(* comparable with them; block 0 is before every block, and an aged block  *)
(* of 0 is none.                                                           *)
(***************************************************************************)
EXTENDS Corroboration

CONSTANTS
  Timeout,     \* timeout_secs, a block being a unit of time
  FirstStep,   \* the first step back of the age search: the timeout in 12 s blocks
  SrcBlocks, DstBlocks    \* bounds: blocks of the two chains

ASSUME RefundReadsAssumption == {Timeout, FirstStep, SrcBlocks, DstBlocks} \subseteq Nat

VARIABLES
  srcListed,   \* is the source configured on this validator?
  links,       \* per chain, endpoints its reader is connected to; 0 before
  chain,       \* heights: [src, dst]
  sentAt,      \* source block of the send, or 0
  outcome,     \* [kind, at]: what the destination did with it, in which block
  repaid,      \* source block of the refund, or 0
  pc,          \* the candidate's step, with what has been read
  resting,     \* NotSentMemo
  attested

refundVars == <<srcListed, links, chain, sentAt, outcome, repaid, pc, resting, attested>>
world == <<chain, sentAt, outcome, repaid>>

Side == {"src", "dst"}
Neither == 0       \* destination: neither flag; source: never sent
Delivered == 1     \* executed
Burned == 2        \* executed and cancelled
Locked == 1
Repaid == 2
AtRest == [step |-> "rest"]

RefundInit ==
  /\ srcListed \in BOOLEAN
  /\ links = [c \in Side |-> 0]
  /\ chain = [c \in Side |-> 1]
  /\ sentAt \in {0, 1} /\ outcome = [kind |-> Neither, at |-> 0] /\ repaid = 0
  /\ pc = AtRest /\ resting = FALSE /\ attested = {}

\* The chains (external) -------------------------------------------------------
SrcFlag(b) == IF repaid \in 1 .. b THEN Repaid ELSE IF sentAt \in 1 .. b THEN Locked ELSE Neither
DstFlag(b) == IF outcome.at \in 1 .. b THEN outcome.kind ELSE Neither

\* A block of the source, perhaps with the send or the refund in it.
SrcBlock ==
  /\ chain.src < SrcBlocks
  /\ chain' = [chain EXCEPT !.src = @ + 1]
  /\ \/ UNCHANGED <<sentAt, repaid>>
     \/ sentAt = 0 /\ chain.src = 1 /\ sentAt' = chain.src + 1 /\ UNCHANGED repaid
     \/ sentAt > 0 /\ repaid = 0 /\ outcome.kind = Burned /\ "refund" \in attested
          /\ repaid' = chain.src + 1 /\ UNCHANGED sentAt
  /\ UNCHANGED <<srcListed, links, outcome, pc, resting, attested, faults>>

\* A block of the destination, perhaps with a claim or a cancel in it: whatever a quorum signed.
DstBlock ==
  /\ chain.dst < DstBlocks
  /\ chain' = [chain EXCEPT !.dst = @ + 1]
  /\ \/ UNCHANGED outcome
     \/ \E k \in {Delivered, Burned} :
          outcome.at = 0 /\ outcome' = [kind |-> k, at |-> chain.dst + 1]
  /\ UNCHANGED <<srcListed, links, sentAt, repaid, pc, resting, attested, faults>>

\* Readers ---------------------------------------------------------------------
\* As for the scanner, a second endpoint that is configured has to be there.
connect(healthy) == healthy >= min_agree(N)

\* One attempt of a tick to connect a chain that is not connected.
ensure(c) ==
  /\ links[c] = 0
  /\ \E healthy \in 1 .. N : connect(healthy) /\ links' = [links EXCEPT ![c] = healthy]
  /\ UNCHANGED <<srcListed, world, pc, resting, attested, faults>>

lookup(c) ==
  IF c = "src" /\ ~ srcListed THEN "NotConfigured" ELSE IF links[c] = 0 THEN "NotReady" ELSE "Ready"

\* The heads a chain's endpoints report.
HeadsOf(c) == Said(1 .. links[c], Higher(chain[c] - MaxLag, 0) .. chain[c],
                   {Fail} \cup 0 .. chain[c] + 1)

confirmed_block_Lowest(heads) == Max({Min(Range(heads)) - Confirmations, 0})

\* Too few of them answered.
Few(said, down) == Cardinality(DOMAIN ask_all(said, down)) < min_agree(N)

\* The newest block a strict majority has, less the confirmations.
confirmed_block(heads) == Higher(majority_floor(heads) - Confirmations, 0)

\* A question put to every endpoint of c at one block.
agreed(c, said, down) == read_agreed(said, down, min_agree(N))

\* A read of c at its confirmed block: what may come back, or {} for an error.
StateAnswers(c, down, heads) ==
  IF Few(heads, down) THEN {{}}
  ELSE LET block == confirmed_block(ask_all(heads, down))
           truth == IF c = "dst" THEN DstFlag(block) ELSE SrcFlag(block)
       IN  {agreed(c, said, down) :
              said \in Said(1 .. links[c], {truth}, {Fail, Neither, Delivered, Burned})}

\* From a head, back by doubling steps to a block that is old enough; 0 if there is none.
aged_block_on(head) ==
  LET old == {b \in 1 .. head - Timeout : \E k \in 0 .. 23 : b = head - FirstStep * 2^k}
  IN  IF old = {} THEN 0 ELSE Max(old)

agreed_aged_block_Newest(found) == Max(Range(found))

\* The newest block that a strict majority vouches is old enough.
agreed_aged_block(found) == majority_floor(found)

\* The block each endpoint finds, a liar any; Fail if too few do.
aged_block(down, heads) ==
  {IF Few(found, down) THEN Fail ELSE agreed_aged_block(ask_all(found, down)) :
     found \in Said(1 .. links.src, {aged_block_on(confirmed_block(ask_all(heads, down)))},
                    {Fail} \cup 0 .. chain.src)}

\* Was it locked by then?  1 for yes.
was_sent_by_block(b, down) ==
  {agreed("src", said, down) :
     said \in Said(1 .. links.src, {IF SrcFlag(b) # Neither THEN 1 ELSE 0}, {Fail, 0, 1})}

-----------------------------------------------------------------------------
(* handle_candidate.  An error or a skip ends it; the next tick begins again. *)

GiveUp == pc' = AtRest /\ UNCHANGED <<resting, attested>>

\* A candidate of which both kinds are attested, or that rests, costs no read; nor does one
\* whose chains are configured and not connected.
run ==
  /\ pc = AtRest /\ ~ resting /\ attested # {"cancel", "refund"}
  /\ lookup("dst") = "Ready" /\ lookup("src") # "NotReady"
  /\ pc' = [step |-> "dst"]
  /\ UNCHANGED <<srcListed, links, world, resting, attested, faults>>

destination_state ==
  /\ pc.step = "dst"
  /\ \E down \in Unreachable(links.dst), heads \in HeadsOf("dst") :
       /\ Cost(down)
       /\ \E answer \in StateAnswers("dst", down, heads) :
            IF answer = {} THEN GiveUp
            ELSE /\ \E v \in answer : pc' = [step |-> IF srcListed THEN "src" ELSE "decide",
                                             dst |-> v, src |-> Locked, aged |-> FALSE]
                 /\ UNCHANGED <<resting, attested>>
  /\ UNCHANGED <<srcListed, links, world>>

\* A source that never sent it has the candidate rest; one that has paid ends it.
source_state ==
  /\ pc.step = "src"
  /\ \E down \in Unreachable(links.src), heads \in HeadsOf("src") :
       /\ Cost(down)
       /\ \E answer \in StateAnswers("src", down, heads) :
            IF answer = {} \/ answer = {Repaid} THEN GiveUp
            ELSE \E v \in answer :
                   /\ resting' = (v = Neither)
                   /\ pc' = IF v = Neither THEN AtRest
                            ELSE [pc EXCEPT !.src = v,
                                            !.step = IF pc.dst = Burned THEN "decide" ELSE "age"]
                   /\ UNCHANGED attested
  /\ UNCHANGED <<srcListed, links, world>>

\* The timeout, shown on the source chain and never taken from the store.
verify_age ==
  /\ pc.step = "age"
  /\ \E down \in Unreachable(links.src), heads \in HeadsOf("src") :
       /\ Cost(down)
       /\ IF Few(heads, down) THEN GiveUp
          ELSE \E b \in aged_block(down, heads) :
                 \E answer \in IF b = Fail THEN {{}} ELSE IF b = 0 THEN {{0}}
                               ELSE was_sent_by_block(b, down) :
                   IF answer = {} THEN GiveUp
                   ELSE /\ \E v \in answer : pc' = [pc EXCEPT !.aged = (v = 1), !.step = "decide"]
                        /\ UNCHANGED <<resting, attested>>
  /\ UNCHANGED <<srcListed, links, world>>

\* Delivered earns nothing; a burn earns the refund; a cancel needs the age.
Decision(dst, aged) ==
  IF dst = Burned THEN {"refund"}
  ELSE IF dst = Neither /\ srcListed /\ aged THEN {"cancel"} ELSE {}

handle_candidate ==
  /\ pc.step = "decide"
  /\ attested' = attested \cup Decision(pc.dst, pc.aged)
  /\ pc' = AtRest
  /\ UNCHANGED <<srcListed, links, world, resting, faults>>

Wake ==
  /\ resting /\ resting' = FALSE
  /\ UNCHANGED <<srcListed, links, world, pc, attested, faults>>

RefundLoop == run \/ destination_state \/ source_state \/ verify_age \/ handle_candidate
RefundNext == RefundLoop \/ Wake \/ SrcBlock \/ DstBlock \/ \E c \in Side : ensure(c)

\* The scan loop and the refund loop of one validator run side by side.
ValidatorInit == CorroborationInit /\ RefundInit
ValidatorNext ==
  \/ CorroborationNext /\ UNCHANGED refundVars
  \/ RefundNext /\ UNCHANGED scanVars
ValidatorSpec == ValidatorInit /\ [][ValidatorNext]_<<corroborationVars, refundVars>>

-----------------------------------------------------------------------------
\* refund.rs 47-64, 210-230.  With at most one lying endpoint on a chain, a validator attests a
\* cancel only of a transfer whose age has really passed on its source, and a refund only of one
\* that the destination has burned for good and, where it can read the source, that was sent.
AttestedIsTrue ==
  /\ "cancel" \in attested => sentAt > 0 /\ sentAt + Timeout <= chain.src - Confirmations
  /\ "refund" \in attested => /\ outcome.kind = Burned /\ outcome.at <= chain.dst - Confirmations
                              /\ srcListed => sentAt \in 1 .. (chain.src - Confirmations)

\* L7-12.  Of three endpoints one cannot keep a validator from attesting, however it answers: a
\* transfer that was sent and is not delivered earns a cancel, or the refund if it was burned.
OneCannotBlock ==
  (links.src = 3 /\ links.dst = 3 /\ srcListed /\ sentAt = 1)
    ~> (attested # {} \/ outcome.kind = Delivered)

\* What a validator signs, as scanner or as refund attester, is true of the chains whatever one
\* endpoint of three tells it.
EvidenceIsTrue == SignedIsReal /\ AttestedIsTrue

\* One endpoint that is stuck, down or slow holds up neither the scan nor an attestation.
OneCannotStall == StuckCannotStall /\ OneCannotBlock
=============================================================================
