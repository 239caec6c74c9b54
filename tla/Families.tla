------------------------------ MODULE Families ------------------------------
(***************************************************************************)
(* What the refresh tokens of Sessions promise to the users: a family of   *)
(* tokens is a session of one user.  A login opens it, tokens are issued   *)
(* in it while it is open, and once it is over it stays over.  One step    *)
(* ends sessions of one user only.  A family is named by its first token.  *)
(***************************************************************************)
CONSTANTS Token, User, NoUser

VARIABLES phase, holder, issued

Init ==
    /\ phase = [f \in Token |-> "none"]
    /\ holder = [f \in Token |-> NoUser]
    /\ issued = [f \in Token |-> {}]

\* No session has the token.
Fresh(t) == \A f \in Token : t \notin issued[f]

Start(f, u) ==
    /\ phase[f] = "none" /\ Fresh(f)
    /\ issued' = [issued EXCEPT ![f] = {f}]
    /\ holder' = [holder EXCEPT ![f] = u]
    /\ phase' = [phase EXCEPT ![f] = "open"]

Issue(f, t) ==
    /\ phase[f] = "open" /\ Fresh(t)
    /\ issued' = [issued EXCEPT ![f] = @ \cup {t}]
    /\ UNCHANGED <<phase, holder>>

OpenOf(u) == {f \in Token : phase[f] = "open" /\ holder[f] = u}

End(u) ==
    /\ UNCHANGED <<holder, issued>>
    /\ \E F \in SUBSET OpenOf(u) :
          phase' = [f \in Token |-> IF f \in F THEN "over" ELSE phase[f]]

Next ==
    \/ \E f \in Token : \/ \E u \in User : Start(f, u)
                        \/ \E t \in Token : Issue(f, t)
    \/ \E u \in User : End(u)

Spec == Init /\ [][Next]_<<phase, holder, issued>>
=============================================================================
