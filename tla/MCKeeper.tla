------------------------------ MODULE MCKeeper ------------------------------
(***************************************************************************)
(* The keeper's two queues and the contract the second one drives.  They   *)
(* share no state: a behaviour is one of the transaction queue (KeeperTx), *)
(* one of the router alone (SwapRouter) or one of the finalize queue and   *)
(* its records (Finalize), the others not started.                         *)
(*                                                                         *)
(* KeeperTx has one transfer at a time (a claim, a claim the gate cannot   *)
(* pay, a refund through a router).  The market asks 1, then 3 and perhaps *)
(* 1 again: 3 is over the ceiling of a transaction first sent at 1, so its *)
(* second bump is refused, and the fall lets it in.  The loop without a    *)
(* record still runs its head watch.                                       *)
(*                                                                         *)
(* SwapRouter has three transfers at a time: two that want a token and    *)
(* one that cannot be decoded, or one that wants a token, one the stable   *)
(* and one that goes out.  Finalize follows the first alone.               *)
(***************************************************************************)
EXTENDS KeeperTx, Finalize

CONSTANTS c1, c2, r1

MCWorth == [t \in {"i1", "i2", "i3", "bad", "o1"} |-> 1]
MCIntent == "i1" :> "token" @@ "i2" :> "token" @@ "i3" :> "stable" @@ "bad" :> "malformed"

Deployed(keeper, indexer, turns) == [keeper |-> keeper, indexer |-> indexer, turns |-> turns]
MCDeployments ==
  {Deployed("anyone", FALSE, TRUE), Deployed("guardian", FALSE, TRUE),
   Deployed("off", TRUE, TRUE), Deployed("off", TRUE, FALSE)}

VARIABLE part

QueuesInit ==
  /\ KeeperInit /\ FinalizeInit
  /\ part \in {"txs", "router", "finalize"}
  /\ (part # "txs") = (queue = {}) /\ price = 1
  /\ part # "finalize" => setup = Deployed("off", TRUE, TRUE)
  /\ (part # "router") = (traffic = {Followed})
  /\ part = "txs" => ~ blocked

restOfFinalize == <<setup, keeperMemory, floating, rowStatus, swapRecord, outages>>
allVars == <<part, keeperVars, finalizeVars>>

Txs(A) == part = "txs" /\ A /\ UNCHANGED <<part, finalizeVars>>
Routing(A) == part = "router" /\ A /\ UNCHANGED <<part, keeperVars, restOfFinalize>>
Finalizing(A) == part = "finalize" /\ A /\ UNCHANGED <<part, keeperVars>>

\* The fairness of KeeperFairness and of FinalizeSpec.
QueuesSpec ==
  /\ QueuesInit
  /\ [][Txs(KeeperNext) \/ Routing(RouterNext) \/ Finalizing(FinalizeNext)]_allVars
  /\ \A role \in Role : WF_allVars(Txs(Step(role)))
  /\ WF_allVars(Txs(HeadWindow)) /\ \A k \in Keys : WF_allVars(Txs(TxWindow(k)))
  /\ WF_allVars(Txs(\E t \in pool : Include(t)))
  /\ WF_allVars(Finalizing(Keeper)) /\ WF_allVars(Finalizing(LandFinalize))
  /\ WF_allVars(Finalizing(BackOffEnds)) /\ WF_allVars(Finalizing(IntervalEnds))
  /\ WF_allVars(Finalizing(IndexStatus)) /\ WF_allVars(Finalizing(Reopens))
  /\ \A c \in {"src", "dst"} : WF_allVars(Finalizing(Recorder(c)))
=============================================================================
