---------------------------- MODULE BoundedAhead ----------------------------
(***************************************************************************)
(* What LimitingPool promises its caller: items go in and come out one by  *)
(* one, and at most limit of them are inside at any time.                  *)
(***************************************************************************)
EXTENDS Naturals

CONSTANT Items
VARIABLES limit, handed, consumed

Init == limit \in Nat /\ handed = 0 /\ consumed = 0

Hand ==
    /\ handed < Items /\ handed - consumed < limit
    /\ handed' = handed + 1 /\ UNCHANGED <<limit, consumed>>

Consume ==
    /\ consumed < handed
    /\ consumed' = consumed + 1 /\ UNCHANGED <<limit, handed>>

Next == Hand \/ Consume

Spec == Init /\ [][Next]_<<limit, handed, consumed>>
=============================================================================
