---------------------------- MODULE MCSolanaGate ----------------------------
(* Three keys for two seats, two peers for one corridor, an asset that an older *)
(* program bound to vault v and a new one.                                      *)
EXTENDS SolanaGate

CONSTANTS k1, k2, k3, g1, C, D, a, b, v, w

MCGenesis ==
  {[validators |-> <<k1>>, threshold |-> 1, guardian |-> g1],
   [validators |-> <<k1, k2>>, threshold |-> 2, guardian |-> NoAccount],
   [validators |-> <<k1, k1>>, threshold |-> 2, guardian |-> NoAccount],
   [validators |-> <<k1, k2, k3>>, threshold |-> 2, guardian |-> NoAccount]}
MCDecimals == [x \in Vault |-> 1]
MCLegacy == [d \in {a} |-> v]
MCLiquidity == [x \in Vault |-> 10]
MCInbound == {[debridge_id |-> a, bridge |-> 0, amount |-> 1, from |-> C, to |-> Self, nonce |-> 0],
              [debridge_id |-> b, bridge |-> 1, amount |-> 1, from |-> C, to |-> Self, nonce |-> 0]}
=============================================================================
