------------------------------ MODULE Delivery ------------------------------
(***************************************************************************)
(* What the notification queue promises to the code that adds a job: the   *)
(* job is taken at most once under its id, its mail is sent a bounded      *)
(* number of times while the job is open, and the job is closed once.      *)
(***************************************************************************)
EXTENDS Naturals

CONSTANTS Job, MaxMails

VARIABLES phase, sent

Init ==
    /\ phase = [j \in Job |-> "absent"]
    /\ sent = [j \in Job |-> 0]

Take(j) ==
    /\ phase[j] = "absent"
    /\ phase' = [phase EXCEPT ![j] = "open"]
    /\ UNCHANGED sent

Mail(j) ==
    /\ phase[j] = "open" /\ sent[j] < MaxMails
    /\ sent' = [sent EXCEPT ![j] = @ + 1]
    /\ UNCHANGED phase

Complete(j) ==
    /\ phase[j] = "open" /\ sent[j] > 0
    /\ phase' = [phase EXCEPT ![j] = "completed"]
    /\ UNCHANGED sent

GiveUp(j) ==
    /\ phase[j] = "open"
    /\ phase' = [phase EXCEPT ![j] = "failed"]
    /\ UNCHANGED sent

Next == \E j \in Job : Take(j) \/ Mail(j) \/ Complete(j) \/ GiveUp(j)

Spec == Init /\ [][Next]_<<phase, sent>>
=============================================================================
