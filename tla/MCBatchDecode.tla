---------------------------- MODULE MCBatchDecode ----------------------------
(* Instance of BatchDecode for TLC. *)
EXTENDS BatchDecode
=============================================================================
