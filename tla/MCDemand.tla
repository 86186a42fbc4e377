------------------------------ MODULE MCDemand ------------------------------
(***************************************************************************)
(* Demand for TLC: one parser result, one range of rates.                  *)
(***************************************************************************)
EXTENDS Demand

Parsed == { [ rate_min |-> 95 ] }
Ranges == { << 1, 2 >> }
=============================================================================
