--------------------------- MODULE MCAssignments ---------------------------
(* A small instance of Assignments for TLC.                                *)
EXTENDS Assignments, TLC

CONSTANTS alice, bob

\* alice administers every organization, and bob belongs to none.
Strangers == [u \in User |-> [o \in Org |-> IF u = alice THEN "org_admin" ELSE "none"]]

Symmetry == Permutations(Req)
=============================================================================
