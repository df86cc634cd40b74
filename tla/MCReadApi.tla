------------------------------ MODULE MCReadApi ------------------------------
(* Instance of ReadApi for TLC: three requests for the proxied reads, the     *)
(* scale, the pool and the submission's flags in turn.                        *)
EXTENDS ReadApi

MCLoads == {{"sigstatus", "quote"}, {"quote", "long"}, {"listed"}, {"pool"}, {"executed", "cancelled", "status"}}
MCVms == {"evm", "solana"}
=============================================================================
