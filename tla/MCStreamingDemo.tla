--------------------------- MODULE MCStreamingDemo ---------------------------
(* Instances of StreamingDemo for TLC. *)
EXTENDS StreamingDemo
=============================================================================
