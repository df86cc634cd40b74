----------------------------- MODULE MCSwapPool -----------------------------
(* Prices in tenths of the hub, two token units to one hub unit, fees of    *)
(* nothing or a tenth: small enough that every rounding happens.            *)
EXTENDS SwapPool

MCUnit == [t \in Token |-> IF t = "hub" THEN 1 ELSE 2]
MCSeeds == [t \in Token |-> IF t = "hub" THEN 60 ELSE 100]
MCStakes == [t \in Token |-> IF t = "hub" THEN 20 ELSE 41]
=============================================================================
