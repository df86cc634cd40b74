------------------------------ MODULE Transfer ------------------------------
(***************************************************************************)
(* What the bridge promises about one transfer, with no chains, validators *)
(* or signatures in sight: a lock is either delivered or burned, never     *)
(* both, and money goes home only after the burn.  This is the lifecycle   *)
(* that Gate.sol's refund-path header and the README's "Refunds" section   *)
(* describe.                                                               *)
(***************************************************************************)
CONSTANT Sub   \* transfers

VARIABLE life  \* life[s]: how far transfer s has come

Stage == {"none", "locked", "delivered", "burned", "refunded"}

\* The only ways forward.  Delivered and refunded have none.
Forward ==
  {<<"none", "locked">>, <<"locked", "delivered">>,
   <<"locked", "burned">>, <<"burned", "refunded">>}

Init == life = [s \in Sub |-> "none"]

\* A block may settle several transfers at once.
Next ==
  /\ life' \in [Sub -> Stage]
  /\ \A s \in Sub : life'[s] = life[s] \/ <<life[s], life'[s]>> \in Forward

Spec == Init /\ [][Next]_life
=============================================================================
