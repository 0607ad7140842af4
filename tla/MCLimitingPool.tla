--------------------------- MODULE MCLimitingPool ---------------------------
(* Instances of LimitingPool for TLC. *)
EXTENDS LimitingPool
=============================================================================
