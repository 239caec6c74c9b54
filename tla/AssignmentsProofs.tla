------------------------- MODULE AssignmentsProofs -------------------------
(***************************************************************************)
(* The workspace and the queue each run as they do alone, so what was      *)
(* proved of them holds here; the theorems below relate the two.           *)
(***************************************************************************)
EXTENDS Assignments, TLAPS

USE PartsAssumption

-----------------------------------------------------------------------------
(* The parts                                                               *)

LEMMA WorkspaceStep == [Next]_vars => [W!Next]_(W!vars)
<1> USE DEF workspaceVars, W!vars, W!projectVars, W!taskVars, W!peopleVars, W!contextVars,
            W!argVars
<1>1. ASSUME NEW r \in Req, AssignTask(r) \/ ApiStep(r)
      PROVE  W!Next
  BY <1>1 DEF AssignTask, ApiStep, W!Next
<1>2. RolesChange => W!Next
  BY DEF RolesChange, W!Next
<1>3. QueueStep \/ UNCHANGED vars => UNCHANGED W!vars
  BY DEF QueueStep, vars
<1> QED BY <1>1, <1>2, <1>3 DEF Next

LEMMA NotificationsStep == [Next]_vars => [Q!Next]_(Q!vars)
<1> USE DEF queueVars, Q!vars, Q!outboxVars, Q!reqVars, Q!jobVars, Q!listenerVars, Q!worldVars
<1>1. ASSUME NEW r \in Req, AssignTask(r)
      PROVE  Q!Next
  <2>1. PICK o \in Row, t \in Task, u \in User : Q!AssignCommit(r, o, [task |-> t, user |-> u])
    BY <1>1 DEF AssignTask
  <2> QED BY <2>1 DEF Q!Next, Q!Request, Q!Pair
<1>2. ASSUME NEW r \in Req, ApiStep(r)
      PROVE  UNCHANGED Q!vars
  BY <1>2 DEF ApiStep
<1>3. RolesChange \/ UNCHANGED vars => UNCHANGED Q!vars
  BY DEF RolesChange, vars
<1>4. QueueStep => Q!Next
  BY DEF QueueStep, Q!Next, Q!Request
<1> QED BY <1>1, <1>2, <1>3, <1>4 DEF Next

\* The composition implements both of its parts.
THEOREM PartsRun == Spec => W!Spec /\ Q!Spec
<1>1. Init => W!Init /\ Q!Init
  BY DEF Init
<1> QED BY <1>1, WorkspaceStep, NotificationsStep, PTL DEF Spec, W!Spec, Q!Spec

\* So their invariants hold.
LEMMA PartsInvariant == Spec => [](W!IInv /\ Q!IInv /\ Q!NoPhantom)
BY PartsRun, W!Invariance, Q!Invariance, Q!NoPhantoms, PTL

\* Beside the workspace, with requests that come from it, the queue still
\* delivers as it promises, gives each job an assignment of its own, and lets
\* no job go round for ever.
THEOREM AssignmentsAreDelivered == Spec => Q!KeepsPromise /\ []Q!JobsMatchRows /\ Q!MovesRunOut
BY PartsRun, Q!QueueKeepsPromise, Q!JobsStemFromRows, Q!MovesAreBounded, PTL

\* Beside the queue, the workspace still keeps tenants apart and what was
\* deleted closed, and authority in it still ends.
THEOREM TenantsStayApart ==
    Spec => /\ []W!TenantWrites /\ W!LeaversStayOut
            /\ W!ClosedProjectStaysClosed /\ W!ClosedTaskStaysClosed
            /\ W!AuthorityEnds
BY PartsRun, W!WritesStayInTenant, W!LeaversStayOutHolds, W!ProjectsStayClosed,
   W!TasksStayClosed, W!AuthorityEndsHolds, PTL

-----------------------------------------------------------------------------
(* Rows                                                                    *)

Exists(o) == outbox[o] # "absent"
PairOf(t, u) == [task |-> t, user |-> u]

\* A row stays, and what it is about never changes.
LEMMA RowsAreKept ==
    ASSUME Q!IInv, [Next]_vars, NEW o \in Row, Exists(o)
    PROVE  Exists(o)' /\ about'[o] = about[o]
<1>1. [Q!Next]_(Q!vars)
  BY NotificationsStep
<1>2. outbox'[o] = outbox[o] \/ outbox'[o] \in {"pending", "dispatched", "failed"}
  BY <1>1, Q!RowsChange
<1> QED BY <1>1, <1>2, Q!EvidenceGrows DEF Exists

\* Only assignTask writes a row.
LEMMA RowsAreNew ==
    ASSUME Q!IInv, [Next]_vars, NEW o \in Row, ~Exists(o), Exists(o)'
    PROVE  \E r \in Req, t \in Task, u \in User :
              /\ W!Assign(r) /\ tasks[r] = {t} /\ people[r] = {u}
              /\ about'[o] = PairOf(t, u)
<1> USE DEF Exists, Q!IInv, Q!TypeOK
<1>1. ASSUME NEW r \in Req, AssignTask(r)
      PROVE  \E t \in Task, u \in User :
                /\ W!Assign(r) /\ tasks[r] = {t} /\ people[r] = {u}
                /\ about'[o] = PairOf(t, u)
  BY <1>1 DEF AssignTask, Q!AssignCommit, PairOf
<1>2. ASSUME NEW r \in Req, Q!Follow(r)
      PROVE  UNCHANGED outbox
  BY <1>2 DEF Q!Follow, Q!Enqueue, Q!Add, Q!AddRejected, Q!AssignDies, Q!outboxVars
<1>3. ASSUME NEW k \in Q!Key, Q!Process(k) \/ Q!Queue(k) \/ Q!Listener(k)
      PROVE  outbox'[o] = outbox[o]
  BY <1>3 DEF Q!Process, Q!Queue, Q!Listener, Q!Pickup, Q!SendMail, Q!MarkDispatched, Q!Complete,
              Q!AttemptFails, Q!BackoffOver, Q!StallCheck, Q!StallLimit, Q!DlqAdd, Q!MarkFailed,
              Q!ListenerGivesUp, Q!SettleRows, Q!RowsOfTask, Q!outboxVars
<1>4. Q!Fault => UNCHANGED outbox
  BY DEF Q!Fault, Q!WorkerDies, Q!WorkerSignalled, Q!WorkerExits, Q!RedisFails,
         Q!RedisRecovers, Q!Tick, Q!outboxVars
<1>5. ASSUME NEW r \in Req, ApiStep(r)
      PROVE  UNCHANGED outbox
  BY <1>5 DEF ApiStep, queueVars
<1>6. RolesChange \/ UNCHANGED vars => UNCHANGED outbox
  BY DEF RolesChange, queueVars, vars
<1> QED BY <1>1, <1>2, <1>3, <1>4, <1>5, <1>6 DEF Next, QueueStep

\* A task stays in its organization.
LEMMA TasksAreKept ==
    ASSUME W!IInv, [Next]_vars, NEW t \in Task, taskProject[t] # NoProject
    PROVE  taskProject'[t] # NoProject /\ W!OrgOf(t)' = W!OrgOf(t)
<1> USE DEF W!IInv, W!TypeOK, W!TaskInv, W!OrgOf, W!projectVars, W!taskVars
<1>1. CASE UNCHANGED <<projectOrg, taskProject>>
  BY <1>1
<1>2. ASSUME NEW r \in Req, NEW p \in Project, W!CreateProject(r, p)
      PROVE  taskProject'[t] # NoProject /\ W!OrgOf(t)' = W!OrgOf(t)
  BY <1>2 DEF W!CreateProject
<1>3. ASSUME NEW r \in Req, NEW x \in Task, W!InsertTask(r, x)
      PROVE  taskProject'[t] # NoProject /\ W!OrgOf(t)' = W!OrgOf(t)
  BY <1>3 DEF W!InsertTask
<1> QED
  BY <1>1, <1>2, <1>3, WorkspaceStep
     DEF W!Next, W!Step, W!ProjectRequest, W!TaskRequest, W!Authenticate, W!AuthenticateFails,
         W!Refuse, W!ProjectCheck, W!UpdateProject, W!DeleteProject, W!CreateTaskCheck,
         W!AssigneesCheck, W!TaskCheck, W!UpdateTask, W!DeleteTask, W!AssignCheck, W!Assign,
         W!Unassign, W!CreateComment, W!BulkCheck, W!BulkUpdate, W!ChangeRole, W!vars

\* A row is about a task that exists, and did so before the row.
RowsHaveTasks ==
    \A o \in Row : Exists(o) =>
        \E t \in Task, u \in User : about[o] = PairOf(t, u) /\ taskProject[t] # NoProject

LEMMA TasksComeFirst ==
    ASSUME W!IInv, Q!IInv, RowsHaveTasks, [Next]_vars, NEW o \in Row, Exists(o)'
    PROVE  \E t \in Task, u \in User : about'[o] = PairOf(t, u) /\ taskProject[t] # NoProject
<1>1. CASE Exists(o)
  BY <1>1, RowsAreKept DEF RowsHaveTasks
<1>2. CASE ~Exists(o)
  <2>1. PICK r \in Req, t \in Task, u \in User :
            W!Assign(r) /\ tasks[r] = {t} /\ people[r] = {u} /\ about'[o] = PairOf(t, u)
    BY <1>2, RowsAreNew
  <2>2. taskProject[t] # NoProject
    BY <2>1 DEF W!IInv, W!CheckInv, W!Assign, W!TaskStep
  <2> QED BY <2>1, <2>2
<1> QED BY <1>1, <1>2

LEMMA RowsHaveTasksAlways == Spec => []RowsHaveTasks
<1>1. Init => RowsHaveTasks
  BY DEF Init, Q!Init, RowsHaveTasks, Exists
<1>2. W!IInv /\ Q!IInv /\ RowsHaveTasks /\ [Next]_vars => RowsHaveTasks'
  <2> SUFFICES ASSUME W!IInv, Q!IInv, RowsHaveTasks, [Next]_vars, NEW o \in Row, Exists(o)'
               PROVE  \E t \in Task, u \in User :
                          about'[o] = PairOf(t, u) /\ taskProject'[t] # NoProject
    BY DEF RowsHaveTasks, PairOf
  <2> QED BY TasksComeFirst, TasksAreKept
<1> QED BY <1>1, <1>2, PartsInvariant, PTL DEF Spec

\* Only the transaction of createTask assigns without an outbox row.
THEOREM AssignmentsHaveRowsHolds == Spec => []AssignmentsHaveRows
<1>1. Init => AssignmentsHaveRows
  BY DEF Init, W!Init, AssignmentsHaveRows
<1>2. Q!IInv /\ AssignmentsHaveRows /\ [Next]_vars => AssignmentsHaveRows'
  <2> SUFFICES ASSUME Q!IInv, AssignmentsHaveRows, [Next]_vars,
                      NEW p \in assigned', p \notin born'
               PROVE  \E o \in Row : Exists(o)' /\ about'[o] = PairOf(p[1], p[2])
    BY DEF AssignmentsHaveRows, Exists, PairOf
  <2>1. CASE p \in assigned /\ p \notin born
    <3>1. PICK o \in Row : Exists(o) /\ about[o] = PairOf(p[1], p[2])
      BY <2>1 DEF AssignmentsHaveRows, Exists, PairOf
    <3> QED BY <3>1, RowsAreKept
  <2>2. ASSUME NEW r \in Req, AssignTask(r), p \notin assigned
        PROVE  \E o \in Row : Exists(o)' /\ about'[o] = PairOf(p[1], p[2])
    <3>1. PICK o \in Row, t \in Task, u \in User :
              /\ tasks[r] = {t} /\ people[r] = {u}
              /\ Q!AssignCommit(r, o, [task |-> t, user |-> u])
      BY <2>2 DEF AssignTask
    <3>2. p[1] = t /\ p[2] = u
      BY <2>2, <3>1 DEF AssignTask, W!Assign
    <3>3. Exists(o)' /\ about'[o] = PairOf(t, u)
      BY <3>1 DEF Q!AssignCommit, Exists, PairOf, Q!IInv, Q!TypeOK
    <3> QED BY <3>2, <3>3
  <2>3. ASSUME NEW r \in Req, ApiStep(r)
        PROVE  p \in assigned /\ p \notin born
    BY <2>3 DEF ApiStep
  <2>4. RolesChange \/ QueueStep \/ UNCHANGED vars => UNCHANGED <<assigned, born>>
    BY DEF RolesChange, W!ChangeRole, W!peopleVars, QueueStep, workspaceVars, vars
  <2>5. ASSUME NEW r \in Req, AssignTask(r)
        PROVE  UNCHANGED born
    BY <2>5 DEF AssignTask
  <2> QED BY <2>1, <2>2, <2>3, <2>4, <2>5 DEF Next
<1> QED BY <1>1, <1>2, PartsInvariant, PTL DEF Spec

-----------------------------------------------------------------------------
(* Silence.  X is a set of pairs of a task and a user; the queue is quiet   *)
(* about them when no request and no open job is about one of them.        *)

QueueQuiet(X) ==
    /\ \A r \in Req : call[r] # "idle" => about[mine[r]] \notin X
    /\ \A k \in Q!Key : Q!PairOf(k) \in X => job[k] \in {"absent"} \cup Q!Settled

NoNewMails(X) == \A k \in Q!Key : Q!PairOf(k) \in X => mails'[k] = mails[k]

\* The request is about to commit an assignment of the pair.
About(r, t, u) == pc[r] = "assign" /\ tasks[r] = {t} /\ people[r] = {u}

\* A request that is past the transaction adds a job for its own row only.
LEMMA FollowQuiet ==
    ASSUME Q!IInv, NEW X, QueueQuiet(X), NEW r \in Req, Q!Follow(r)
    PROVE  QueueQuiet(X)' /\ NoNewMails(X)
<1> USE DEF Q!IInv, Q!TypeOK, Q!outboxVars, Q!jobVars, Q!listenerVars, Q!worldVars
<1>1. CASE Q!Enqueue(r)
  BY <1>1 DEF Q!Enqueue, QueueQuiet, NoNewMails
<1>2. CASE Q!Add(r)
  <2>1. key[r] \in Q!Key /\ Q!PairOf(key[r]) \notin X
    <3>1. call[r] = "add"
      BY <1>2 DEF Q!Add
    <3>2. key[r] \in Q!Key /\ Q!PairOf(key[r]) = about[mine[r]]
      BY <3>1 DEF Q!RequestInv
    <3> QED BY <3>1, <3>2 DEF QueueQuiet
  <2>2. \A k \in Q!Key : Q!PairOf(k) \in X => job'[k] = job[k]
    BY <1>2, <2>1 DEF Q!Add
  <2>3. UNCHANGED <<mails, about>> /\ Q!Forget(r)
    BY <1>2 DEF Q!Add
  <2> QED BY <2>2, <2>3 DEF Q!Forget, QueueQuiet, NoNewMails
<1>3. CASE Q!AddRejected(r) \/ Q!AssignDies(r)
  BY <1>3 DEF Q!AddRejected, Q!AssignDies, Q!Forget, QueueQuiet, NoNewMails
<1> QED BY <1>1, <1>2, <1>3 DEF Q!Follow

\* No step of the worker, the queue or the listener starts with a job that is
\* absent or settled and changes it.
LEMMA WorkerQuiet ==
    ASSUME Q!IInv, NEW X, QueueQuiet(X),
           NEW k \in Q!Key, Q!Process(k) \/ Q!Queue(k) \/ Q!Listener(k)
    PROVE  QueueQuiet(X)' /\ NoNewMails(X)
<1> USE DEF Q!IInv, Q!TypeOK, Q!outboxVars, Q!reqVars, Q!jobVars, Q!listenerVars, Q!worldVars,
            Q!Move, Q!Active, Q!Settled, QueueQuiet, NoNewMails
<1>1. CASE Q!Process(k)
  BY <1>1 DEF Q!Process, Q!Pickup, Q!SendMail, Q!MarkDispatched, Q!Complete, Q!AttemptFails,
              Q!CountFailure
<1>2. CASE Q!Queue(k)
  BY <1>2 DEF Q!Queue, Q!BackoffOver, Q!StallCheck, Q!StallLimit
<1>3. CASE Q!Listener(k)
  BY <1>3 DEF Q!Listener, Q!DlqAdd, Q!MarkFailed, Q!ListenerGivesUp
<1> QED BY <1>1, <1>2, <1>3

LEMMA FaultQuiet ==
    ASSUME Q!IInv, NEW X, QueueQuiet(X), Q!Fault
    PROVE  QueueQuiet(X)' /\ NoNewMails(X)
BY DEF Q!IInv, Q!TypeOK, Q!outboxVars, Q!reqVars, Q!jobVars, Q!listenerVars, Q!Active, Q!Settled,
       Q!Fault, Q!WorkerDies, Q!WorkerSignalled, Q!WorkerExits, Q!RedisFails, Q!RedisRecovers,
       Q!Tick, QueueQuiet, NoNewMails

\* The transaction of another pair's assignment takes a row nobody works for.
LEMMA AssignQuiet ==
    ASSUME Q!IInv, NEW X, QueueQuiet(X), NEW r \in Req, AssignTask(r),
           \A t \in Task, u \in User : About(r, t, u) => PairOf(t, u) \notin X
    PROVE  QueueQuiet(X)' /\ NoNewMails(X)
<1>1. PICK o \in Row, t \in Task, u \in User :
          tasks[r] = {t} /\ people[r] = {u} /\ Q!AssignCommit(r, o, PairOf(t, u))
  BY DEF AssignTask, PairOf
<1>2. PairOf(t, u) \notin X
  BY <1>1 DEF AssignTask, W!Assign, About
<1>3. \A s \in Req : call[s] # "idle" => mine[s] \in Row /\ mine[s] # o
  BY <1>1 DEF Q!AssignCommit, Q!IInv, Q!RequestInv
<1> QED
  BY <1>1, <1>2, <1>3 DEF Q!AssignCommit, Q!IInv, Q!TypeOK, Q!jobVars, QueueQuiet, NoNewMails

LEMMA QuietStep ==
    ASSUME Q!IInv, [Next]_vars, NEW X, QueueQuiet(X),
           \A r \in Req, t \in Task, u \in User : About(r, t, u) => PairOf(t, u) \notin X
    PROVE  QueueQuiet(X)' /\ NoNewMails(X)
<1>1. CASE UNCHANGED queueVars
  BY <1>1 DEF queueVars, QueueQuiet, NoNewMails
<1>2. ASSUME NEW r \in Req, ApiStep(r)
      PROVE  UNCHANGED queueVars
  BY <1>2 DEF ApiStep
<1>3. RolesChange \/ UNCHANGED vars => UNCHANGED queueVars
  BY DEF RolesChange, vars
<1>4. CASE QueueStep
  BY <1>4, FollowQuiet, WorkerQuiet, FaultQuiet DEF QueueStep
<1> QED BY <1>1, <1>2, <1>3, <1>4, AssignQuiet DEF Next

\* A deleted task that is quiet stays quiet: the workspace lets no request get
\* to it, and without one the queue takes no job for it.
THEOREM DeletedTasksStayQuietHolds == Spec => DeletedTasksStayQuiet
<1> DEFINE Stays == \A t \in Task : Quiet(t) =>
                        /\ Quiet(t)'
                        /\ \A k \in Q!Key : k.task = t => mails'[k] = mails[k]
<1>1. W!IInv /\ Q!IInv /\ Q!IInv' /\ [Next]_vars => [Stays]_vars
  <2> SUFFICES ASSUME W!IInv, Q!IInv, Q!IInv', [Next]_vars, NEW t \in Task, Quiet(t)
               PROVE  Quiet(t)' /\ \A k \in Q!Key : k.task = t => mails'[k] = mails[k]
    OBVIOUS
  <2> DEFINE X == {p \in Q!Pair : p.task = t}
  <2>1. \A k \in Q!Key : Q!PairOf(k) \in X <=> k.task = t
    BY DEF Q!Key, Q!Pair, Q!PairOf
  <2>2. \A r \in Req : call[r] # "idle" => (about[mine[r]] \in X <=> about[mine[r]].task = t)
    BY DEF Q!IInv, Q!RequestInv
  <2>3. \A r \in Req : call'[r] # "idle" => (about'[mine'[r]] \in X <=> about'[mine'[r]].task = t)
    BY DEF Q!IInv, Q!RequestInv
  <2> HIDE DEF X
  <2>4. QueueQuiet(X)
    BY <2>1, <2>2 DEF Quiet, QueueQuiet
  <2>5. \A r \in Req, x \in Task, u \in User : About(r, x, u) => PairOf(x, u) \notin X
    BY DEF Quiet, W!TaskClosed, W!TaskStep, About, PairOf, X
  <2>6. QueueQuiet(X)' /\ NoNewMails(X)
    BY <2>4, <2>5, QuietStep
  <2>7. W!TaskClosed(t)'
    BY WorkspaceStep, W!ClosedTaskStep DEF W!Kept, Quiet
  <2> QED BY <2>1, <2>3, <2>6, <2>7 DEF Quiet, QueueQuiet, NoNewMails
<1> QED BY <1>1, PartsInvariant, PTL DEF Spec, DeletedTasksStayQuiet

\* A pair that becomes one of o by a step is about a task just created, so
\* that no row, and hence no request and no job, is about it.
LEMMA NewPairsAreSilent ==
    ASSUME W!IInv, Q!IInv, Q!IInv', Q!NoPhantom', RowsHaveTasks, [Next]_vars,
           NEW u \in User, NEW o \in Org, NEW X, X = PairsOf(u, o), QueueQuiet(X)'
    PROVE  /\ \A r \in Req : call'[r] # "idle" => about'[mine'[r]] \notin PairsOf(u, o)'
           /\ \A k \in Q!Key :
                 Q!PairOf(k) \in PairsOf(u, o)' => job'[k] \in {"absent"} \cup Q!Settled
<1>1. ASSUME NEW q \in Row, Exists(q)', about'[q] \in PairsOf(u, o)'
      PROVE  about'[q] \in X
  <2>1. PICK t \in Task, v \in User : about'[q] = PairOf(t, v) /\ taskProject[t] # NoProject
    BY <1>1, TasksComeFirst
  <2>2. W!OrgOf(t)' = W!OrgOf(t) /\ taskProject'[t] # NoProject
    BY <2>1, TasksAreKept
  <2> QED BY <1>1, <2>1, <2>2 DEF PairsOf, PairOf
<1>2. ASSUME NEW r \in Req, call'[r] # "idle"
      PROVE  about'[mine'[r]] \notin PairsOf(u, o)'
  <2>1. mine'[r] \in Row /\ Exists(mine[r])'
    BY <1>2 DEF Q!IInv, Q!RequestInv, Exists
  <2> QED BY <1>1, <1>2, <2>1 DEF QueueQuiet, Exists
<1>3. ASSUME NEW k \in Q!Key, Q!PairOf(k) \in PairsOf(u, o)', job'[k] # "absent"
      PROVE  job'[k] \in Q!Settled
  <2>1. PICK q \in Row : Exists(q)' /\ about'[q] = Q!PairOf(k)
    BY <1>3 DEF Q!NoPhantom, Exists, Q!PairOf
  <2> QED BY <1>1, <1>3, <2>1 DEF QueueQuiet
<1> QED BY <1>2, <1>3

\* Whoever is outside an organization, with nothing open, is not mailed about
\* its tasks: no request can name them, and so the queue takes no job.
THEOREM LeaversGetNoMailHolds == Spec => LeaversGetNoMail
<1> DEFINE Stays == \A u \in User, o \in Org : Silent(u, o) =>
                        /\ Silent(u, o)'
                        /\ \A k \in Q!Key : Q!PairOf(k) \in PairsOf(u, o) => mails'[k] = mails[k]
<1>1. W!IInv /\ Q!IInv /\ Q!IInv' /\ Q!NoPhantom' /\ RowsHaveTasks /\ [Next]_vars => [Stays]_vars
  <2> SUFFICES ASSUME W!IInv, Q!IInv, Q!IInv', Q!NoPhantom', RowsHaveTasks, [Next]_vars,
                      NEW u \in User, NEW o \in Org, Silent(u, o)
               PROVE  /\ Silent(u, o)'
                      /\ \A k \in Q!Key : Q!PairOf(k) \in PairsOf(u, o) => mails'[k] = mails[k]
    OBVIOUS
  <2>1. PICK X : X = PairsOf(u, o)
    OBVIOUS
  <2>2. QueueQuiet(X)
    BY <2>1 DEF Silent, QueueQuiet
  <2>3. ASSUME NEW r \in Req, NEW t \in Task, NEW v \in User, About(r, t, v)
        PROVE  PairOf(t, v) \notin X
    <3>1. W!OrgOf(t) = org[r]
      BY <2>3 DEF About, W!IInv, W!CheckInv, W!TaskStep
    <3>2. org[r] = o => u # v
      BY <2>3 DEF Silent, W!HasLeft, About
    <3> QED BY <2>1, <3>1, <3>2 DEF PairsOf, PairOf
  <2>4. QueueQuiet(X)' /\ NoNewMails(X)
    BY <2>2, <2>3, QuietStep
  <2>5. W!HasLeft(u, o)'
    BY WorkspaceStep, W!LeftForGood DEF Silent
  <2> QED BY <2>1, <2>4, <2>5, NewPairsAreSilent DEF Silent, NoNewMails
<1> QED BY <1>1, PartsInvariant, RowsHaveTasksAlways, PTL DEF Spec, LeaversGetNoMail
=============================================================================
