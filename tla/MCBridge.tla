------------------------------ MODULE MCBridge ------------------------------
(* Two chains with different token scales; transfers go from A to B.  Two   *)
(* honest validators and one faulty one, threshold two on both gates.       *)
EXTENDS Bridge

CONSTANTS A, B, v1, v2, f

MCMembers == [c \in {A, B} |-> {v1, v2, f}]
MCThreshold == [c \in {A, B} |-> 2]
MCUnit == [c \in {A, B} |-> IF c = A THEN 2 ELSE 1]
MCSupported == [c \in {A, B} |-> IF c = A THEN {B} ELSE {}]
MCRegistered == [c \in {A, B} |-> IF c = B THEN {A} ELSE {}]
MCMinSend == [c \in {A, B} |-> 1]
MCLiquidity == [c \in {A, B} |-> IF c = A THEN 0 ELSE 1]

\* v2 has no reader for the source chain; in the liveness run both have one.
MCReadable == [v \in {v1, v2, f} |-> IF v = v2 THEN {} ELSE {A}]
MCReadableByAll == [v \in {v1, v2, f} |-> {A}]

\* The faulty validator signs this transfer before and after users send it.
MCSignable ==
  {[from |-> A, to |-> B, nonce |-> 0, amount |-> 1, receiver |-> 20]}

=============================================================================
