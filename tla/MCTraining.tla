----------------------------- MODULE MCTraining -----------------------------
(* Instance of Training for TLC. *)
EXTENDS Training

\* --epochs of the two runs.
FourThenTwo == <<4, 2>>
\* load_train: "auto" in the first run, "last" in the second.
ThenLast == <<<<"best", "last", "init">>, <<"last">>>>
Broken   == {Infinite, NaN}
\* A released model in a load directory of its own.
Release  == [n \in Savers |-> {[step |-> 7, loss |-> 1, lr |-> 0]}]
=============================================================================
