-------------------------- MODULE MCSolanaCorridor --------------------------
(* Two attesters and a faulty validator, threshold two.  The queue is read  *)
(* a row at a time: the id under another corridor stands before the row.    *)
EXTENDS SolanaCorridor

MCRows == <<"alias", "real">>
=============================================================================
