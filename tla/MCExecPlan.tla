----------------------------- MODULE MCExecPlan -----------------------------
(* Graphs of four nodes with one or two inputs each. *)
EXTENDS ExecPlan

InputLists(n) == UNION {[1 .. k -> 0 .. n - 1] : k \in 1 .. 2}

MCGraphSet ==
  {<<(<<0>>), b, c, d>> : b \in InputLists(2), c \in InputLists(3), d \in InputLists(4)}

=============================================================================
