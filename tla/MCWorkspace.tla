---------------------------- MODULE MCWorkspace ----------------------------
(* Small instances of Workspace for TLC.                                   *)
EXTENDS Workspace, TLC

CONSTANTS alice, bob, acme, globex

\* alice administers acme; bob is a member of acme and of globex.
Tenants == [u \in User |-> [o \in Org |->
    IF u = bob THEN "member" ELSE IF o = acme THEN "org_admin" ELSE "none"]]

\* alice administers acme, and bob is a member of it.
Colleagues == [u \in User |-> [o \in Org |->
    IF u = alice THEN "org_admin" ELSE "member"]]

Symmetry == Permutations(Task) \cup Permutations(Project) \cup Permutations(Req)
=============================================================================
