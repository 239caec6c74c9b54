---------------------------- MODULE Assignments ----------------------------
(***************************************************************************)
(* Workspace and Notifications together: assignTask commits an assignment  *)
(* and its outbox row in one transaction and goes on to the queue.  All    *)
(* other steps belong to one of the two, and run side by side.             *)
(***************************************************************************)
EXTENDS Naturals

CONSTANTS
    Org, User, Project, Task, Req, Roles, Nobody, NoOrg, NoProject,
    Row, Attempts, WindowLength, LastSecond, Concurrency, MaxStalls, MaxStops, MaxOutages, NoRow

VARIABLES
    role, projectOrg, projectDeleted, taskProject, taskDeleted, status, assigned, commented,
    pc, actor, org, rank, proj, tasks, people, wrote,
    outbox, about, call, mine, key, job, fails, stalls, dlq, failed, mails,
    worker, clock, redis, stops, outages,
    born        \* history: <<task, user>> assigned by the transaction of createTask

\* The proof modules, so that what is proved of a part can be cited.
W == INSTANCE WorkspaceProofs
Q == INSTANCE NotificationsProofs WITH status <- outbox, pc <- call

ASSUME PartsAssumption ==
    /\ W!RolesAssumption /\ W!NothingAssumption
    /\ Q!AttemptsAssumption /\ Q!WindowAssumption /\ Q!BoundsAssumption /\ Q!NoRowAssumption

workspaceVars == <<role, projectOrg, projectDeleted, taskProject, taskDeleted, status, assigned,
                   commented, pc, actor, org, rank, proj, tasks, people, wrote>>
queueVars == <<outbox, about, call, mine, key, job, fails, stalls, mails, dlq, failed,
               worker, clock, redis, stops, outages>>
vars == <<workspaceVars, queueVars, born>>

Init == W!Init /\ Q!Init /\ born = {}

\* The transaction of assignTask: the upsert and the outbox row.
AssignTask(r) ==
    /\ W!Assign(r)
    /\ \E o \in Row, t \in Task, u \in User :
          /\ tasks[r] = {t} /\ people[r] = {u}
          /\ Q!AssignCommit(r, o, [task |-> t, user |-> u])
    /\ UNCHANGED born

\* A slot that is busy with the queue starts no other request.  The
\* transaction of createTask writes no outbox rows.
ApiStep(r) ==
    /\ call[r] = "idle"
    /\ W!Step(r)
    /\ born' = born \cup (assigned' \ assigned)
    /\ UNCHANGED queueVars

RolesChange ==
    /\ \E u \in User, o \in Org, x \in W!Rank : W!ChangeRole(u, o, x)
    /\ UNCHANGED <<queueVars, born>>

QueueStep ==
    /\ \/ \E r \in Req : Q!Follow(r)
       \/ \E k \in Q!Key : Q!Process(k) \/ Q!Queue(k) \/ Q!Listener(k)
       \/ Q!Fault
    /\ UNCHANGED <<workspaceVars, born>>

Next ==
    \/ \E r \in Req : AssignTask(r) \/ ApiStep(r)
    \/ RolesChange
    \/ QueueStep

Spec == Init /\ [][Next]_vars

-----------------------------------------------------------------------------
(* Properties                                                              *)

\* README "Transactional Outbox": an assignment without an outbox row was
\* made by createTask, which notifies nobody.
AssignmentsHaveRows ==
    \A p \in assigned \ born :
        \E o \in Row : outbox[o] # "absent" /\ about[o] = [task |-> p[1], user |-> p[2]]

\* The task is deleted, no request is past a check of it or busy with the
\* queue, and no job about it is open.
Quiet(t) ==
    /\ W!TaskClosed(t)
    /\ \A r \in Req : call[r] # "idle" => about[mine[r]].task # t
    /\ \A k \in Q!Key : k.task = t => job[k] \in {"absent"} \cup Q!Settled

\* Once a deleted task is quiet, nobody is ever mailed about it again.
DeletedTasksStayQuiet ==
    [][\A t \in Task : Quiet(t) =>
          /\ Quiet(t)'
          /\ \A k \in Q!Key : k.task = t => mails'[k] = mails[k]]_vars

\* What an outbox row or a job about u and a task of o is about.
PairsOf(u, o) ==
    {p \in Q!Pair : p.user = u /\ taskProject[p.task] # NoProject /\ W!OrgOf(p.task) = o}

\* u has left o (or never was a member), no request is busy with the queue for
\* u there, and no job of the kind is open.
Silent(u, o) ==
    /\ W!HasLeft(u, o)
    /\ \A r \in Req : call[r] # "idle" => about[mine[r]] \notin PairsOf(u, o)
    /\ \A k \in Q!Key :
          Q!PairOf(k) \in PairsOf(u, o) => job[k] \in {"absent"} \cup Q!Settled

\* Tenant isolation reaches the mail server: once what is open has been done,
\* nobody outside an organization is ever mailed about its tasks, whichever
\* requests read the memberships when.
LeaversGetNoMail ==
    [][\A u \in User, o \in Org : Silent(u, o) =>
          /\ Silent(u, o)'
          /\ \A k \in Q!Key : Q!PairOf(k) \in PairsOf(u, o) => mails'[k] = mails[k]]_vars
=============================================================================
