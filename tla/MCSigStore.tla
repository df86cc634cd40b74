----------------------------- MODULE MCSigStore -----------------------------
(* The two halves of the store, which share no state: a behaviour is one   *)
(* of the signatures or one of the allowlists, the other half at rest.     *)
(*                                                                         *)
(* Three validators around two throwaway keys.  All three are the gate's   *)
(* validators; then the middle one is dropped.                             *)
EXTENDS SigStore, Allowlist

mc_Validators == {1, 3, 5}
mc_Strangers == {2, 4}
mc_Founders == [set |-> {1, 3, 5}, threshold |-> 2]
mc_Successors == [set |-> {1, 5}, threshold |-> 2]

mc_Deployments == {{"admin", "validator"}, {"legacy"}, {"validator", "keeper", "reader", "indexer"}, {}}
mc_Policies == {[require |-> FALSE, tokens |-> {}, chains |-> {}],
                [require |-> TRUE, tokens |-> {}, chains |-> {}],
                [require |-> FALSE, tokens |-> {"t1"}, chains |-> {"p1"}]}
mc_Transfers == {[token |-> "t1", pair |-> "p1"], [token |-> "t2", pair |-> "p1"]}

VARIABLE part

\* At rest: the signatures of a directory nobody writes to, the allowlists with nothing to
\* do.  No fairness is asked of either there.
StoreInit ==
    /\ Init /\ AllowlistInit
    /\ part \in {"signatures", "allowlists"}
    /\ part # "signatures" => site.backing = "file" /\ row = NoRow /\ kind = "transfer"
    /\ part # "allowlists" => /\ table = NoList /\ ~ policy.require /\ policy.tokens = {}
                              /\ configured = {"legacy"}

StoreNext ==
    /\ UNCHANGED part
    /\ \/ part = "signatures" /\ Next /\ UNCHANGED allowlistVars
       \/ part = "allowlists" /\ AllowlistNext /\ UNCHANGED vars

StoreSpec == StoreInit /\ [][StoreNext]_<<part, vars, allowlistVars>> /\ Fairness
=============================================================================
