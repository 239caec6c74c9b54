-------------------------- MODULE MCNotifications --------------------------
(* Small instances of Notifications for TLC.                               *)
EXTENDS Notifications, TLC

\* Only runs of invariants use the reduction.
Symmetry == Permutations(Task) \cup Permutations(User) \cup Permutations(Row)
              \cup Permutations(Req)
=============================================================================
