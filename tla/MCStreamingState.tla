-------------------------- MODULE MCStreamingState --------------------------
(***************************************************************************)
(* Small instances of StreamingState for TLC.  The constants are given in  *)
(* the configurations: windows that overlap (step below length) and that   *)
(* do not (step equal to length), with and without context, and enough     *)
(* samples to fill more than one batch.                                    *)
(***************************************************************************)
EXTENDS StreamingState
=============================================================================
