-------------------------- MODULE MCCorroboration --------------------------
(***************************************************************************)
(* Corroboration and RefundReads with up to three endpoints of a chain.    *)
(* The two loops of the validator share no state: a behaviour is one of    *)
(* the scan loop or one of the refund loop, the other not started.         *)
(*                                                                         *)
(* The scan: five blocks, a transfer to an EVM destination that counts     *)
(* alike and one to a Solana destination that has another scale.           *)
(***************************************************************************)
EXTENDS RefundReads, TLC

MCEvent == 1 :> "A" @@ 2 :> "S"
MCScale == "A" :> 1 @@ "S" :> 2
MCVia == "A" :> "evm" @@ "S" :> "solana"

VARIABLE loop

LoopsInit ==
  /\ ValidatorInit
  /\ loop \in {"scan", "refund"}
  /\ loop = "scan" => srcListed /\ sentAt = 0
  /\ loop = "refund" => configured = N /\ stuck = None

all == <<loop, corroborationVars, refundVars>>

Scanning(A) == loop = "scan" /\ A /\ UNCHANGED <<loop, refundVars>>
Refunding(A) == loop = "refund" /\ A /\ UNCHANGED <<loop, scanVars>>

LoopsSpec ==
  /\ LoopsInit /\ [][Scanning(CorroborationNext) \/ Refunding(RefundNext)]_all
  /\ WF_all(Scanning(Scan)) /\ WF_all(Scanning(Grow))
  /\ WF_all(Refunding(RefundLoop)) /\ WF_all(Refunding(Wake))
  /\ WF_all(Refunding(SrcBlock)) /\ WF_all(Refunding(\E c \in Side : ensure(c)))
=============================================================================
