-------------------------- MODULE MCSolanaScanner --------------------------
(* Three assets with the current record layout: "a" nothing stands         *)
(* against, "b" may be de-listed, "m" is registered at another scale; "o"  *)
(* is an asset of the first program version.  A page holds one transaction *)
(* and a walk three, so that a walk spans pages and can be too deep.       *)
EXTENDS SolanaScanner

MCAsset == [t \in {"a", "b", "m", "o"} |->
  [layout |-> IF t = "o" THEN "legacy" ELSE "current",
   bridge_decimals |-> IF t = "o" THEN 0 ELSE 6]]
MCCorridor == [t \in {"a", "b", "m", "o"} |-> IF t = "m" THEN 9 ELSE MCAsset[t].bridge_decimals]
MCConfigs == {[owned |-> TRUE, chain_id |-> 7, bridge_domain |-> 1],
              [owned |-> TRUE, chain_id |-> 8, bridge_domain |-> 1]}

Forged == [emit_sent("a") EXCEPT !.recorded = FALSE]
Unbound == [Forged EXCEPT !.bound = FALSE]

Frame(who, body) == <<[kind |-> "invoke", who |-> who]>> \o body \o <<[kind |-> "end", who |-> who]>>
Data(ev) == <<[kind |-> "data", event |-> ev]>>
Tx(logs) == [err |-> FALSE, logs |-> logs]

\* A send of "b" whose instruction also calls a program that prints a forged
\* event, and then an event whose id does not reproduce.
Nested == Frame("gate", Data(emit_sent("b")) \o Frame("other", Data(Forged)) \o Data(Unbound))

MCTxs ==
  {Tx(Frame("gate", Data(emit_sent("a")))),
   Tx(Nested),
   Tx(Frame("gate", Data([emit_sent("a") EXCEPT !.version = 3]))),
   Tx(Frame("gate", Data([emit_sent("a") EXCEPT !.refused = TRUE]) \o Data(Forged) \o Data(emit_sent("m")))),
   [err |-> TRUE, logs |-> Frame("gate", Data(Forged))]}
MCLegacyTxs == {Tx(Frame("gate", Data(emit_sent("o")))), Tx(Nested)}
MCLists == {{}, {"a", "m", "o"}}
=============================================================================
