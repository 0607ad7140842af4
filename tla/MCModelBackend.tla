--------------------------- MODULE MCModelBackend ---------------------------
(* Instances of ModelBackend for TLC: interchangeable streams of one model. *)
EXTENDS ModelBackend, TLC

StreamSymmetry == Permutations(Streams)

=============================================================================
