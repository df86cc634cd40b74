------------------------------ MODULE MCReaders ------------------------------
(* The two that follow a gate's events: a validator's scan loop, which      *)
(* signs them, and the indexer and observers, which mirror them into the   *)
(* database.  They share no state: a behaviour is one of one of them, the  *)
(* other at rest, before anything was sent.                                *)
(*                                                                         *)
(* Two blocks and two corridors: one has three transfers, so that one can   *)
(* be hidden between two others, and one of the other is withheld           *)
(* (allowlist or scale).                                                    *)
(* One validator posts to the row, and there are four deployments: two EVM *)
(* chains, the same with writers that take turns, Solana as destination    *)
(* and Solana as source.                                                   *)
EXTENDS Scanner, Lifecycle

CONSTANTS B, C, v1

Sent(b, d, n, s) == [block |-> b, to |-> d, nonce |-> n, signable |-> s]

MCLog == <<Sent(1, B, 0, TRUE), Sent(1, C, 0, FALSE), Sent(2, B, 1, TRUE), Sent(2, B, 2, TRUE)>>

OnMissing(src, dst) == [p \in {"src", "dst"} |-> IF p = "src" THEN src ELSE dst]

Deploy(src, dst, serial) ==
  [onMissing |-> OnMissing(src, dst), sourceIndexed |-> src = "park", serial |-> serial]

MCEvm == {Deploy("park", "park", FALSE)}

MCSite ==
  MCEvm \cup {Deploy("park", "park", TRUE), Deploy("park", "reject", FALSE),
              Deploy("reject", "park", FALSE)}

VARIABLE part

\* No fairness is asked of a scanner without blocks, nor of writers without events.
ReadersInit ==
  /\ Init /\ LifecycleInit
  /\ part \in {"scan", "index"}
  /\ part = "scan" => deployed \in MCEvm
  /\ part = "index" => patient

ReadersNext ==
  /\ UNCHANGED part
  /\ \/ part = "scan" /\ Next /\ UNCHANGED lifecycleVars
     \/ part = "index" /\ LifecycleNext /\ UNCHANGED vars

ReadersSpec ==
  /\ ReadersInit /\ [][ReadersNext]_<<part, vars, lifecycleVars>>
  /\ Fairness /\ LifecycleFairness
=============================================================================
