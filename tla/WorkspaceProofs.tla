-------------------------- MODULE WorkspaceProofs --------------------------
(***************************************************************************)
(* Proofs about Workspace, for any organizations, users, projects, tasks   *)
(* and requests, and any memberships at the start.                         *)
(***************************************************************************)
EXTENDS Workspace, TLAPS

USE RolesAssumption, NothingAssumption

\* Tasks belong to projects that exist, and only tasks that exist are deleted,
\* assigned or commented.
TaskInv ==
    /\ \A t \in Task : taskProject[t] # NoProject => OrgOf(t) \in Org
    /\ \A t \in taskDeleted : taskProject[t] # NoProject
    /\ \A t \in Task, u \in User :
         <<t, u>> \in assigned \cup commented => taskProject[t] # NoProject

\* What a check let through belongs to the request's organization, and stays
\* so until the request uses it.  A free slot has no organization.
CheckInv ==
    \A r \in Req :
        /\ pc[r] = "idle" => org[r] = NoOrg
        /\ pc[r] \in ProjectStep \cup CreateStep =>
             proj[r] \in Project /\ projectOrg[proj[r]] = org[r]
        /\ pc[r] \in TaskStep =>
             \A t \in tasks[r] : taskProject[t] # NoProject /\ OrgOf(t) = org[r]

IInv == TypeOK /\ TaskInv /\ CheckInv

-----------------------------------------------------------------------------
\* Initially there are no projects, tasks or requests.
LEMMA InitIInv == Init => IInv
BY DEF Init, IInv, TypeOK, TaskInv, CheckInv, Status, Rank,
       ProjectStep, CreateStep, TaskStep

\* Requests keep the invariant while they are authenticated and answered.
LEMMA ContextStep ==
    ASSUME IInv, NEW r \in Req,
           \/ \E u \in User, o \in Org : Authenticate(r, u, o)
           \/ AuthenticateFails(r) \/ Refuse(r)
    PROVE  IInv'
<1> USE DEF IInv, TypeOK, TaskInv, CheckInv, OrgOf, Status, Rank,
            ProjectStep, CreateStep, TaskStep,
            projectVars, taskVars, peopleVars, argVars, contextVars
<1>1. ASSUME NEW u \in User, NEW o \in Org, Authenticate(r, u, o)
      PROVE  IInv'
  BY <1>1 DEF Authenticate
<1>2. ASSUME AuthenticateFails(r)
      PROVE  IInv'
  BY <1>2 DEF AuthenticateFails, vars
<1>3. ASSUME Refuse(r)
      PROVE  IInv'
  BY <1>3 DEF Refuse, Finish
<1>4. QED
  BY <1>1, <1>2, <1>3

\* Requests about projects keep the invariant.
LEMMA ProjectStepInv ==
    ASSUME IInv, NEW r \in Req, ProjectRequest(r)
    PROVE  IInv'
<1> USE DEF IInv, TypeOK, TaskInv, CheckInv, OrgOf, Status, Rank,
            ProjectStep, CreateStep, TaskStep,
            projectVars, taskVars, peopleVars, argVars, contextVars
<1>1. ASSUME NEW p \in Project, CreateProject(r, p)
      PROVE  IInv'
  BY <1>1 DEF CreateProject, Record, Finish
<1>2. ASSUME NEW p \in Project, NEW step \in ProjectStep, ProjectCheck(r, p, step)
      PROVE  IInv'
  BY <1>2 DEF ProjectCheck, ProjectVisible, Continue
<1>3. ASSUME UpdateProject(r)
      PROVE  IInv'
  BY <1>3 DEF UpdateProject, ProjectHit, Record, Finish
<1>4. ASSUME DeleteProject(r)
      PROVE  IInv'
  BY <1>4 DEF DeleteProject, ProjectHit, Record, Finish
<1>5. QED
  BY <1>1, <1>2, <1>3, <1>4 DEF ProjectRequest

\* Requests about tasks keep the invariant.
LEMMA TaskStepInv ==
    ASSUME IInv, NEW r \in Req, TaskRequest(r) \/ Assign(r)
    PROVE  IInv'
<1> USE DEF IInv, TypeOK, TaskInv, CheckInv, OrgOf, Status, Rank,
            ProjectStep, CreateStep, TaskStep,
            projectVars, taskVars, peopleVars, argVars, contextVars
<1>1. ASSUME NEW p \in Project, NEW U \in SUBSET User, CreateTaskCheck(r, p, U)
      PROVE  IInv'
  BY <1>1 DEF CreateTaskCheck, ProjectVisible, Continue
<1>2. ASSUME AssigneesCheck(r) \/ AssignCheck(r)
      PROVE  IInv'
  <2>1. CASE AssigneesCheck(r)
    BY <2>1 DEF AssigneesCheck, AreMembers, Continue
  <2>2. CASE AssignCheck(r)
    BY <2>2 DEF AssignCheck, AreMembers, Continue
  <2>3. QED
    BY <1>2, <2>1, <2>2
<1>3. ASSUME NEW t \in Task, InsertTask(r, t)
      PROVE  IInv'
  BY <1>3 DEF InsertTask, Record, Finish
<1>4. ASSUME NEW t \in Task, NEW step \in TaskStep, NEW U \in SUBSET User,
             TaskCheck(r, t, step, U)
      PROVE  IInv'
  BY <1>4 DEF TaskCheck, TaskVisible, Continue
<1>5. ASSUME NEW s \in Status, UpdateTask(r, s) \/ BulkUpdate(r, s)
      PROVE  IInv'
  <2>1. CASE UpdateTask(r, s)
    BY <2>1 DEF UpdateTask, Record, Finish
  <2>2. CASE BulkUpdate(r, s)
    BY <2>2 DEF BulkUpdate, Record, Finish
  <2>3. QED
    BY <1>5, <2>1, <2>2
<1>6. ASSUME DeleteTask(r) \/ Assign(r) \/ Unassign(r)
      PROVE  IInv'
  <2>1. CASE DeleteTask(r)
    BY <2>1 DEF DeleteTask, Record, Finish
  <2>2. CASE Assign(r)
    BY <2>2 DEF Assign, Record, Finish
  <2>3. CASE Unassign(r)
    BY <2>3 DEF Unassign, Record, Finish
  <2>4. QED
    BY <1>6, <2>1, <2>2, <2>3
<1>7. ASSUME CreateComment(r)
      PROVE  IInv'
  BY <1>7 DEF CreateComment, Record, Finish
<1>8. ASSUME NEW T \in SUBSET Task, BulkCheck(r, T)
      PROVE  IInv'
  BY <1>8 DEF BulkCheck, BulkVisible, TaskVisible, Continue
<1> HIDE DEF IInv
<1>9. QED
  BY <1>1, <1>2, <1>3, <1>4, <1>5, <1>6, <1>7, <1>8 DEF TaskRequest

LEMMA InvariantStep ==
    ASSUME IInv, [Next]_vars
    PROVE  IInv'
<1> USE DEF IInv, TypeOK, TaskInv, CheckInv, OrgOf,
            projectVars, taskVars, peopleVars, argVars, contextVars
<1>1. ASSUME NEW u \in User, NEW o \in Org, NEW x \in Rank, ChangeRole(u, o, x)
      PROVE  IInv'
  BY <1>1 DEF ChangeRole
<1>2. CASE UNCHANGED vars
  BY <1>2 DEF vars
<1>3. QED
  BY <1>1, <1>2, ContextStep, ProjectStepInv, TaskStepInv DEF Next, Step

\* The invariant holds in every reachable state.
THEOREM Invariance == Spec => []IInv
BY InitIInv, InvariantStep, PTL DEF Spec

\* The tables and the requests keep their types.
THEOREM TypeCorrect == Spec => []TypeOK
<1>1. IInv => TypeOK
  BY DEF IInv
<1>2. QED
  BY <1>1, Invariance, PTL

-----------------------------------------------------------------------------
(* Tenant isolation                                                        *)

\* Every write to a project or a task acts for the organization that owns it,
\* in every reachable state.
THEOREM WritesStayInTenant == Spec => []TenantWrites
<1>1. Init => TenantWrites
  BY DEF Init, TenantWrites
<1>2. IInv /\ TenantWrites /\ [Next]_vars => TenantWrites'
  <2> SUFFICES ASSUME IInv, TenantWrites, [Next]_vars
               PROVE  TenantWrites'
    OBVIOUS
  <2> USE DEF IInv, TypeOK, TaskInv, CheckInv, OrgOf, TenantWrites,
              ProjectStep, CreateStep, TaskStep, Record,
              projectVars, taskVars, peopleVars
  <2>1. ASSUME NEW r \in Req, NEW p \in Project, CreateProject(r, p)
        PROVE  TenantWrites'
    BY <2>1 DEF CreateProject
  <2>2. ASSUME NEW r \in Req, UpdateProject(r)
        PROVE  TenantWrites'
    BY <2>2 DEF UpdateProject, ProjectHit
  <2>3. ASSUME NEW r \in Req, DeleteProject(r)
        PROVE  TenantWrites'
    BY <2>3 DEF DeleteProject, ProjectHit
  <2>4. ASSUME NEW r \in Req, NEW t \in Task, InsertTask(r, t)
        PROVE  TenantWrites'
    BY <2>4 DEF InsertTask
  <2>5. ASSUME NEW r \in Req, NEW s \in Status, UpdateTask(r, s)
        PROVE  TenantWrites'
    BY <2>5 DEF UpdateTask
  <2>6. ASSUME NEW r \in Req, NEW s \in Status, BulkUpdate(r, s)
        PROVE  TenantWrites'
    BY <2>6 DEF BulkUpdate
  <2>7. ASSUME NEW r \in Req, DeleteTask(r)
        PROVE  TenantWrites'
    BY <2>7 DEF DeleteTask
  <2>8. ASSUME NEW r \in Req, Assign(r)
        PROVE  TenantWrites'
    BY <2>8 DEF Assign
  <2>9. ASSUME NEW r \in Req, Unassign(r)
        PROVE  TenantWrites'
    BY <2>9 DEF Unassign
  <2>10. ASSUME NEW r \in Req, CreateComment(r)
         PROVE  TenantWrites'
    BY <2>10 DEF CreateComment
  <2>11. ASSUME UNCHANGED <<projectOrg, taskProject, wrote>>
         PROVE  TenantWrites'
    BY <2>11
  <2>12. QED
    BY <2>1, <2>2, <2>3, <2>4, <2>5, <2>6, <2>7, <2>8, <2>9, <2>10, <2>11
       DEF Next, Step, ProjectRequest, TaskRequest, Authenticate, AuthenticateFails, Refuse,
           ProjectCheck, CreateTaskCheck, AssigneesCheck, TaskCheck, AssignCheck,
           BulkCheck, ChangeRole, vars
<1>3. QED
  BY <1>1, <1>2, Invariance, PTL DEF Spec

-----------------------------------------------------------------------------
(* Soft deletion.  Only the check of createTask can make a request busy    *)
(* with a project, and it does not let a deleted one through; the same     *)
(* holds of the checks of a task.                                          *)

\* A deleted project that no createTask is busy with stays so, and gets no
\* more tasks.
THEOREM ProjectsStayClosed == Spec => ClosedProjectStaysClosed
<1> DEFINE Kept(p) == ProjectClosed(p)' /\ TasksOf(p)' = TasksOf(p)
<1>1. ASSUME IInv, NEW p \in Project, ProjectClosed(p), [Next]_vars
      PROVE  Kept(p)
  <2> USE <1>1 DEF IInv, TypeOK, CreateStep, ProjectStep, TaskStep,
              projectVars, taskVars, peopleVars, argVars
  <2>1. ASSUME NEW r \in Req, NEW q \in Project, NEW U \in SUBSET User,
               CreateTaskCheck(r, q, U)
        PROVE  Kept(p)
    BY <2>1 DEF CreateTaskCheck, ProjectVisible, Continue, ProjectClosed, TasksOf
  <2>2. ASSUME NEW r \in Req, AssigneesCheck(r)
        PROVE  Kept(p)
    BY <2>2 DEF AssigneesCheck, Continue, ProjectClosed, TasksOf
  <2>3. ASSUME NEW r \in Req, NEW t \in Task, InsertTask(r, t)
        PROVE  Kept(p)
    BY <2>3 DEF InsertTask, Finish, ProjectClosed, TasksOf
  <2>4. ASSUME NEW r \in Req, NEW q \in Project, NEW step \in ProjectStep,
               ProjectCheck(r, q, step)
        PROVE  Kept(p)
    BY <2>4 DEF ProjectCheck, Continue, ProjectClosed, TasksOf
  <2>5. ASSUME NEW r \in Req, NEW t \in Task, NEW step \in TaskStep, NEW U \in SUBSET User,
               TaskCheck(r, t, step, U)
        PROVE  Kept(p)
    BY <2>5 DEF TaskCheck, Continue, ProjectClosed, TasksOf
  <2>6. ASSUME NEW r \in Req, AssignCheck(r)
        PROVE  Kept(p)
    BY <2>6 DEF AssignCheck, Continue, ProjectClosed, TasksOf
  <2>7. ASSUME NEW r \in Req, NEW T \in SUBSET Task, BulkCheck(r, T)
        PROVE  Kept(p)
    BY <2>7 DEF BulkCheck, Continue, ProjectClosed, TasksOf
  <2>8. ASSUME NEW r \in Req, NEW u \in User, NEW o \in Org, Authenticate(r, u, o)
        PROVE  Kept(p)
    BY <2>8 DEF Authenticate, ProjectClosed, TasksOf
  <2>9. ASSUME NEW r \in Req, Refuse(r)
        PROVE  Kept(p)
    BY <2>9 DEF Refuse, Finish, ProjectClosed, TasksOf
  <2>10. ASSUME UNCHANGED <<projectDeleted, taskProject, pc, proj>>
         PROVE  Kept(p)
    BY <2>10 DEF ProjectClosed, TasksOf
  <2>11. ASSUME NEW r \in Req, ProjectRequest(r)
         PROVE  Kept(p)
    <3>1. ASSUME NEW q \in Project, CreateProject(r, q)
          PROVE  Kept(p)
      BY <3>1 DEF CreateProject, Finish, ProjectClosed, TasksOf
    <3>2. CASE UpdateProject(r)
      BY <3>2 DEF UpdateProject, Finish, ProjectClosed, TasksOf
    <3>3. CASE DeleteProject(r)
      BY <3>3 DEF DeleteProject, Finish, ProjectClosed, TasksOf
    <3>4. QED
      BY <2>4, <2>11, <3>1, <3>2, <3>3 DEF ProjectRequest
  <2>12. ASSUME NEW r \in Req, TaskRequest(r) \/ Assign(r)
         PROVE  Kept(p)
    <3>1. ASSUME NEW s \in Status, UpdateTask(r, s)
          PROVE  Kept(p)
      BY <3>1 DEF UpdateTask, Finish, ProjectClosed, TasksOf
    <3>2. ASSUME NEW s \in Status, BulkUpdate(r, s)
          PROVE  Kept(p)
      BY <3>2 DEF BulkUpdate, Finish, ProjectClosed, TasksOf
    <3>3. CASE DeleteTask(r)
      BY <3>3 DEF DeleteTask, Finish, ProjectClosed, TasksOf
    <3>4. CASE Assign(r)
      BY <3>4 DEF Assign, Finish, ProjectClosed, TasksOf
    <3>5. CASE Unassign(r)
      BY <3>5 DEF Unassign, Finish, ProjectClosed, TasksOf
    <3>6. CASE CreateComment(r)
      BY <3>6 DEF CreateComment, Finish, ProjectClosed, TasksOf
    <3>7. QED
      BY <2>1, <2>2, <2>3, <2>5, <2>6, <2>7, <2>12, <3>1, <3>2, <3>3, <3>4, <3>5, <3>6
         DEF TaskRequest
  <2>13. QED
    BY <2>8, <2>9, <2>10, <2>11, <2>12 DEF Next, Step, AuthenticateFails, ChangeRole, vars
<1>2. IInv /\ [Next]_vars =>
        [\A p \in Project : ProjectClosed(p) =>
            ProjectClosed(p)' /\ TasksOf(p)' = TasksOf(p)]_vars
  BY <1>1
<1>3. QED
  BY <1>2, Invariance, PTL DEF Spec, ClosedProjectStaysClosed

\* What a step leaves of a closed task.
Kept(t) == TaskClosed(t)' /\ status'[t] = status[t] /\ PeopleOf(t)' = PeopleOf(t)

\* No step gets to a deleted task that no request is busy with.
LEMMA ClosedTaskStep ==
    ASSUME IInv, NEW t \in Task, TaskClosed(t), [Next]_vars
    PROVE  Kept(t)
<1> USE DEF IInv, TypeOK, CreateStep, ProjectStep, TaskStep,
            projectVars, taskVars, peopleVars, argVars, Kept
<1>1. ASSUME NEW r \in Req, NEW p \in Project, NEW U \in SUBSET User,
             CreateTaskCheck(r, p, U)
      PROVE  Kept(t)
  BY <1>1 DEF CreateTaskCheck, Continue, TaskClosed, PeopleOf
<1>2. ASSUME NEW r \in Req, AssigneesCheck(r)
      PROVE  Kept(t)
  BY <1>2 DEF AssigneesCheck, Continue, TaskClosed, PeopleOf
<1>3. ASSUME NEW r \in Req, NEW x \in Task, InsertTask(r, x)
      PROVE  Kept(t)
  BY <1>3 DEF InsertTask, Finish, TaskClosed, PeopleOf, TaskInv
<1>4. ASSUME NEW r \in Req, ProjectRequest(r)
      PROVE  Kept(t)
  BY <1>4 DEF ProjectRequest, CreateProject, ProjectCheck, UpdateProject, DeleteProject,
              Continue, Finish, TaskClosed, PeopleOf
<1>5. ASSUME NEW r \in Req, NEW x \in Task, NEW step \in TaskStep, NEW U \in SUBSET User,
             TaskCheck(r, x, step, U)
      PROVE  Kept(t)
  BY <1>5 DEF TaskCheck, TaskVisible, Continue, TaskClosed, PeopleOf
<1>6. ASSUME NEW r \in Req, AssignCheck(r)
      PROVE  Kept(t)
  BY <1>6 DEF AssignCheck, Continue, TaskClosed, PeopleOf
<1>7. ASSUME NEW r \in Req, NEW T \in SUBSET Task, BulkCheck(r, T)
      PROVE  Kept(t)
  BY <1>7 DEF BulkCheck, BulkVisible, TaskVisible, Continue, TaskClosed, PeopleOf
<1>8. ASSUME NEW r \in Req, NEW s \in Status, UpdateTask(r, s)
      PROVE  Kept(t)
  BY <1>8 DEF UpdateTask, Finish, TaskClosed, PeopleOf
<1>9. ASSUME NEW r \in Req, NEW s \in Status, BulkUpdate(r, s)
      PROVE  Kept(t)
  BY <1>9 DEF BulkUpdate, Finish, TaskClosed, PeopleOf
<1>10. ASSUME NEW r \in Req, DeleteTask(r)
       PROVE  Kept(t)
  BY <1>10 DEF DeleteTask, Finish, TaskClosed, PeopleOf
<1>11. ASSUME NEW r \in Req, Assign(r)
       PROVE  Kept(t)
  BY <1>11 DEF Assign, Finish, TaskClosed, PeopleOf
<1>12. ASSUME NEW r \in Req, Unassign(r)
       PROVE  Kept(t)
  BY <1>12 DEF Unassign, Finish, TaskClosed, PeopleOf
<1>13. ASSUME NEW r \in Req, CreateComment(r)
       PROVE  Kept(t)
  BY <1>13 DEF CreateComment, Finish, TaskClosed, PeopleOf
<1>14. ASSUME NEW r \in Req, NEW u \in User, NEW o \in Org, Authenticate(r, u, o)
       PROVE  Kept(t)
  BY <1>14 DEF Authenticate, TaskClosed, PeopleOf
<1>15. ASSUME NEW r \in Req, Refuse(r)
       PROVE  Kept(t)
  BY <1>15 DEF Refuse, Finish, TaskClosed, PeopleOf
<1>16. ASSUME UNCHANGED <<taskDeleted, status, assigned, commented, pc, tasks>>
       PROVE  Kept(t)
  BY <1>16 DEF TaskClosed, PeopleOf
<1>17. ASSUME NEW r \in Req, TaskRequest(r) \/ Assign(r)
       PROVE  Kept(t)
  BY <1>1, <1>2, <1>3, <1>5, <1>6, <1>7, <1>8, <1>9, <1>10, <1>11, <1>12, <1>13, <1>17
     DEF TaskRequest
<1>18. QED
  BY <1>4, <1>14, <1>15, <1>16, <1>17 DEF Next, Step, AuthenticateFails, ChangeRole, vars

\* Such a task stays deleted, and keeps its status, assignees and comments.
THEOREM TasksStayClosed == Spec => ClosedTaskStaysClosed
<1>1. IInv /\ [Next]_vars =>
        [\A t \in Task : TaskClosed(t) =>
            TaskClosed(t)' /\ status'[t] = status[t] /\ PeopleOf(t)' = PeopleOf(t)]_vars
  BY ClosedTaskStep DEF Kept
<1>2. QED
  BY <1>1, Invariance, PTL DEF Spec, ClosedTaskStaysClosed

-----------------------------------------------------------------------------
(* Authority                                                               *)

\* The projects of o, and the tasks in them, are the same after the step.
Untouched(o) ==
    /\ \A p \in Project : projectOrg'[p] = o <=> projectOrg[p] = o
    /\ \A p \in ProjectsOf(o) : p \in projectDeleted' <=> p \in projectDeleted
    /\ \A t \in Task :
          taskProject'[t] \in ProjectsOf(o) \/ taskProject[t] \in ProjectsOf(o) =>
              /\ taskProject'[t] = taskProject[t]
              /\ t \in taskDeleted' <=> t \in taskDeleted
              /\ status'[t] = status[t]
              /\ PeopleOf(t)' = PeopleOf(t)

\* That is all there is to the data of an organization.
LEMMA UntouchedData ==
    ASSUME IInv, NEW o \in Org, Untouched(o)
    PROVE  DataOf(o)' = DataOf(o)
<1>1. ProjectsOf(o)' = ProjectsOf(o)
  BY DEF Untouched, ProjectsOf
<1>2. ProjectsOf(o) \cap projectDeleted' = ProjectsOf(o) \cap projectDeleted
  BY DEF Untouched
<1>3. \A p \in ProjectsOf(o) : TasksOf(p)' = TasksOf(p)
  BY DEF Untouched, TasksOf
<1> DEFINE T == {x \in Task : taskProject[x] \in ProjectsOf(o)}
<1>4. T' = T
  BY <1>1 DEF Untouched
<1>5. \A t \in T : /\ (t \in taskDeleted') = (t \in taskDeleted)
                  /\ status'[t] = status[t] /\ PeopleOf(t)' = PeopleOf(t)
  BY DEF Untouched
<1>6. [p \in ProjectsOf(o) |-> TasksOf(p)]' = [p \in ProjectsOf(o) |-> TasksOf(p)]
  BY <1>1, <1>3
<1>7. [t \in T |-> <<t \in taskDeleted, status[t], PeopleOf(t)>>]'
        = [t \in T |-> <<t \in taskDeleted, status[t], PeopleOf(t)>>]
  <2> HIDE DEF T
  <2>1. QED
    BY <1>4, <1>5
<1>8. QED
  BY <1>1, <1>2, <1>6, <1>7 DEF DataOf

\* A task of another organization's request is not a task of o.
LEMMA OtherTasks ==
    ASSUME IInv, NEW o \in Org, NEW r \in Req, pc[r] \in TaskStep, org[r] # o
    PROVE  \A t \in tasks[r] : taskProject[t] \notin ProjectsOf(o)
BY DEF IInv, CheckInv, OrgOf, ProjectsOf

\* A request leaves the data of other organizations alone.
LEMMA OthersUntouched ==
    ASSUME IInv, NEW o \in Org, NEW r \in Req, Step(r) \/ Assign(r),
           pc[r] # "idle" => org[r] # o
    PROVE  Untouched(o)
<1> USE DEF IInv, TypeOK, ProjectStep, CreateStep, TaskStep, Untouched,
            projectVars, taskVars, peopleVars
<1>1. CASE UNCHANGED <<projectVars, taskVars, peopleVars>>
  BY <1>1 DEF PeopleOf
<1>2. ASSUME NEW p \in Project, CreateProject(r, p)
      PROVE  Untouched(o)
  <2>1. projectOrg' = [projectOrg EXCEPT ![p] = org[r]] /\ projectOrg[p] = NoOrg /\ org[r] # o
    BY <1>2 DEF CreateProject
  <2>2. UNCHANGED <<projectDeleted, taskVars, peopleVars>>
    BY <1>2 DEF CreateProject
  <2>3. QED
    BY <2>1, <2>2 DEF ProjectsOf, PeopleOf
<1>3. CASE DeleteProject(r)
  <2>1. projectDeleted' = projectDeleted \cup ProjectHit(r) /\ org[r] # o
    BY <1>3 DEF DeleteProject
  <2>2. \A p \in ProjectsOf(o) : p \notin ProjectHit(r)
    BY <2>1 DEF ProjectHit, ProjectsOf
  <2>3. UNCHANGED <<projectOrg, taskVars, peopleVars>>
    BY <1>3 DEF DeleteProject
  <2>4. QED
    BY <2>1, <2>2, <2>3 DEF PeopleOf
<1>4. ASSUME NEW t \in Task, InsertTask(r, t)
      PROVE  Untouched(o)
  <2>1. /\ taskProject[t] = NoProject /\ taskProject' = [taskProject EXCEPT ![t] = proj[r]]
        /\ assigned' = assigned \cup ({t} \X people[r])
        /\ UNCHANGED <<projectVars, taskDeleted, status, commented>>
    BY <1>4 DEF InsertTask
  <2>2. NoProject \notin ProjectsOf(o) /\ proj[r] \notin ProjectsOf(o)
    BY <1>4 DEF InsertTask, CheckInv, ProjectsOf
  <2>3. \A x \in Task \ {t} : PeopleOf(x)' = PeopleOf(x)
    BY <2>1 DEF PeopleOf
  <2>4. QED
    BY <2>1, <2>2, <2>3
<1>5. ASSUME NEW s \in Status, UpdateTask(r, s) \/ BulkUpdate(r, s)
      PROVE  Untouched(o)
  <2>1. \A t \in Task : taskProject[t] \in ProjectsOf(o) => status'[t] = status[t]
    BY <1>5, OtherTasks DEF UpdateTask, BulkUpdate
  <2>2. UNCHANGED <<projectVars, taskProject, taskDeleted, peopleVars>>
    BY <1>5 DEF UpdateTask, BulkUpdate
  <2>3. QED
    BY <2>1, <2>2 DEF PeopleOf
<1>6. CASE DeleteTask(r)
  <2>1. \A t \in Task : taskProject[t] \in ProjectsOf(o) => (t \in taskDeleted' <=> t \in taskDeleted)
    BY <1>6, OtherTasks DEF DeleteTask
  <2>2. UNCHANGED <<projectVars, taskProject, status, peopleVars>>
    BY <1>6 DEF DeleteTask
  <2>3. QED
    BY <2>1, <2>2 DEF PeopleOf
<1>7. CASE Assign(r) \/ Unassign(r) \/ CreateComment(r)
  <2>1. \A t \in Task : taskProject[t] \in ProjectsOf(o) => PeopleOf(t)' = PeopleOf(t)
    BY <1>7, OtherTasks DEF Assign, Unassign, CreateComment, PeopleOf
  <2>2. UNCHANGED <<projectVars, taskVars>>
    BY <1>7 DEF Assign, Unassign, CreateComment
  <2>3. QED
    BY <2>1, <2>2
<1>8. QED
  BY <1>1, <1>2, <1>3, <1>4, <1>5, <1>6, <1>7
     DEF Step, ProjectRequest, TaskRequest, Authenticate, AuthenticateFails, Refuse,
         ProjectCheck, UpdateProject, CreateTaskCheck, AssigneesCheck, TaskCheck, AssignCheck,
         BulkCheck, vars

\* Nobody becomes a member again.
LEMMA RolesShrink ==
    ASSUME IInv, [Next]_vars, NEW u \in User, NEW o \in Org, role[u][o] = "none"
    PROVE  role'[u][o] = "none"
<1>1. ASSUME NEW v \in User, NEW q \in Org, NEW x \in Rank, ChangeRole(v, q, x)
      PROVE  role'[u][o] = "none"
  BY <1>1 DEF ChangeRole, IInv, TypeOK
<1>2. ASSUME NEW r \in Req, Step(r) \/ Assign(r)
      PROVE  UNCHANGED role
  BY <1>2 DEF Step, ProjectRequest, TaskRequest, Authenticate, AuthenticateFails, Refuse,
              ProjectCheck, CreateProject, UpdateProject, DeleteProject, CreateTaskCheck,
              AssigneesCheck, InsertTask, TaskCheck, UpdateTask, DeleteTask, AssignCheck,
              Assign, Unassign, CreateComment, BulkCheck, BulkUpdate, vars
<1>3. QED
  BY <1>1, <1>2 DEF Next, vars

\* What a step gives a request: a context that its user's role allows, or
\* what its check found, or nothing.
LEMMA ContextsComeFromChecks ==
    ASSUME IInv, [Next]_vars, NEW r \in Req, pc'[r] # "idle"
    PROVE  \/ /\ pc'[r] = pc[r] /\ org'[r] = org[r] /\ rank'[r] = rank[r]
              /\ actor'[r] = actor[r] /\ people'[r] = people[r]
           \/ /\ pc'[r] = "routed"
              /\ \E u \in User : /\ role[u][org'[r]] # "none" /\ actor'[r] = u
                                 /\ rank'[r] = role[u][org'[r]]
           \/ /\ pc[r] # "idle" /\ org'[r] = org[r] /\ rank'[r] = "none"
              /\ actor'[r] \in {actor[r], Nobody}
              /\ pc'[r] = "deleteProject" => pc[r] = "routed" /\ rank[r] = "org_admin"
              /\ pc'[r] \in {"insertTask", "assign"} => AreMembers(r, people'[r])
<1> USE DEF IInv, TypeOK, ProjectStep, CreateStep, TaskStep, contextVars, argVars
<1> DEFINE Stays == /\ pc'[r] = pc[r] /\ org'[r] = org[r] /\ rank'[r] = rank[r]
                    /\ actor'[r] = actor[r] /\ people'[r] = people[r]
           Goes == /\ pc[r] # "idle" /\ org'[r] = org[r] /\ rank'[r] = "none"
                   /\ actor'[r] \in {actor[r], Nobody}
                   /\ pc'[r] = "deleteProject" => pc[r] = "routed" /\ rank[r] = "org_admin"
                   /\ pc'[r] \in {"insertTask", "assign"} => AreMembers(r, people'[r])
<1>1. ASSUME NEW x \in Req, NEW u \in User, NEW o \in Org, Authenticate(x, u, o)
      PROVE  \/ Stays
             \/ /\ pc'[r] = "routed" /\ role[u][org'[r]] # "none" /\ actor'[r] = u
                /\ rank'[r] = role[u][org'[r]]
  BY <1>1 DEF Authenticate
<1>2. ASSUME NEW x \in Req, \/ Refuse(x) \/ UpdateProject(x) \/ DeleteProject(x)
                            \/ (\E p \in Project : CreateProject(x, p))
      PROVE  Stays
  BY <1>2 DEF Refuse, UpdateProject, DeleteProject, CreateProject, Finish
<1>3. ASSUME NEW x \in Req,
             \/ (\E t \in Task : InsertTask(x, t))
             \/ (\E s \in Status : UpdateTask(x, s) \/ BulkUpdate(x, s))
             \/ DeleteTask(x) \/ Assign(x) \/ Unassign(x) \/ CreateComment(x)
      PROVE  Stays
  BY <1>3 DEF InsertTask, UpdateTask, BulkUpdate, DeleteTask, Assign, Unassign, CreateComment,
              Finish
<1>4. ASSUME NEW x \in Req, NEW p \in Project, NEW step \in ProjectStep, ProjectCheck(x, p, step)
      PROVE  Stays \/ Goes
  BY <1>4 DEF ProjectCheck, Continue
<1>5. ASSUME NEW x \in Req, NEW p \in Project, NEW U \in SUBSET User, CreateTaskCheck(x, p, U)
      PROVE  Stays \/ Goes
  BY <1>5 DEF CreateTaskCheck, Continue, AreMembers
<1>6. ASSUME NEW x \in Req, AssigneesCheck(x) \/ AssignCheck(x)
      PROVE  Stays \/ Goes
  BY <1>6 DEF AssigneesCheck, AssignCheck, Continue, AreMembers
<1>7. ASSUME NEW x \in Req,
             \/ (\E t \in Task, step \in TaskStep, U \in SUBSET User : TaskCheck(x, t, step, U))
             \/ (\E T \in SUBSET Task : BulkCheck(x, T))
      PROVE  Stays \/ Goes
  BY <1>7 DEF TaskCheck, BulkCheck, Continue
<1>8. ASSUME UNCHANGED <<pc, contextVars, people>>
      PROVE  Stays
  BY <1>8
<1>9. QED
  BY <1>1, <1>2, <1>3, <1>4, <1>5, <1>6, <1>7, <1>8
     DEF Next, Step, ProjectRequest, TaskRequest, AuthenticateFails, ChangeRole, vars

\* Authority ends with the requests it let in.
THEOREM AuthorityEndsHolds == Spec => AuthorityEnds
<1> DEFINE A == \A o \in Org :
                  /\ Deserted(o) => Deserted(o)' /\ DataOf(o)' = DataOf(o)
                  /\ Headless(o) =>
                       /\ Headless(o)' \/ \E u \in User : role'[u][o] = "org_admin"
                       /\ projectDeleted' \cap ProjectsOf(o) = projectDeleted \cap ProjectsOf(o)
<1>1. ASSUME IInv, [Next]_vars
      PROVE  A
  <2> SUFFICES ASSUME NEW o \in Org
               PROVE  /\ Deserted(o) => Deserted(o)' /\ DataOf(o)' = DataOf(o)
                      /\ Headless(o) =>
                           /\ Headless(o)' \/ \E u \in User : role'[u][o] = "org_admin"
                           /\ projectDeleted' \cap ProjectsOf(o) = projectDeleted \cap ProjectsOf(o)
    OBVIOUS
  <2>1. \A u \in User : role[u][o] = "none" => role'[u][o] = "none"
    BY <1>1, RolesShrink
  <2>2. ASSUME Deserted(o)
        PROVE  Deserted(o)' /\ DataOf(o)' = DataOf(o)
    <3>1. \A r \in Req : pc[r] # "idle" => org[r] # o
      BY <2>2 DEF Deserted
    <3>2. Untouched(o)
      <4>1. CASE UNCHANGED <<projectVars, taskVars, peopleVars>>
        BY <4>1 DEF Untouched, PeopleOf, projectVars, taskVars, peopleVars
      <4>2. QED
        BY <1>1, <3>1, <4>1, OthersUntouched DEF Next, ChangeRole, vars
    <3>3. \A r \in Req : pc'[r] # "idle" => org'[r] # o
      BY <1>1, <2>2, <3>1, ContextsComeFromChecks DEF Deserted
    <3>4. Deserted(o)'
      BY <2>1, <2>2, <3>3 DEF Deserted
    <3>5. QED
      BY <1>1, <3>2, <3>4, UntouchedData
  <2>3. ASSUME Headless(o)
        PROVE  /\ Headless(o)' \/ \E u \in User : role'[u][o] = "org_admin"
               /\ projectDeleted' \cap ProjectsOf(o) = projectDeleted \cap ProjectsOf(o)
    <3>1. \A r \in Req : org[r] = o => rank[r] # "org_admin" /\ pc[r] # "deleteProject"
      BY <2>3 DEF Headless
    <3>2. ASSUME NEW r \in Req, org'[r] = o
          PROVE  rank'[r] # "org_admin" /\ pc'[r] # "deleteProject"
      <4>1. CASE pc'[r] # "idle"
        BY <1>1, <2>3, <3>1, <3>2, <4>1, ContextsComeFromChecks DEF Headless
      <4>2. CASE pc'[r] = "idle"
        BY <1>1, <3>2, <4>2, InvariantStep DEF IInv, CheckInv
      <4>3. QED
        BY <4>1, <4>2
    <3>3. Headless(o)' \/ \E u \in User : role'[u][o] = "org_admin"
      BY <3>2 DEF Headless
    <3>4. ASSUME NEW r \in Req, DeleteProject(r)
          PROVE  projectDeleted' \cap ProjectsOf(o) = projectDeleted \cap ProjectsOf(o)
      <4>1. org[r] # o /\ projectDeleted' = projectDeleted \cup ProjectHit(r)
        BY <3>1, <3>4 DEF DeleteProject
      <4>2. ProjectHit(r) \cap ProjectsOf(o) = {}
        BY <4>1 DEF ProjectHit, ProjectsOf
      <4>3. QED
        BY <4>1, <4>2
    <3>5. (\A r \in Req : ~DeleteProject(r)) => projectDeleted' = projectDeleted
      BY <1>1 DEF Next, Step, ProjectRequest, TaskRequest, Authenticate, AuthenticateFails,
                  Refuse, ProjectCheck, CreateProject, UpdateProject, CreateTaskCheck,
                  AssigneesCheck, InsertTask, TaskCheck, UpdateTask, DeleteTask, AssignCheck,
                  Assign, Unassign, CreateComment, BulkCheck, BulkUpdate, ChangeRole,
                  projectVars, vars
    <3>6. QED
      BY <3>3, <3>4, <3>5
  <2>4. QED
    BY <2>2, <2>3
<1>2. IInv /\ [Next]_vars => [A]_vars
  BY <1>1
<1>3. QED
  BY <1>2, Invariance, PTL DEF Spec, AuthorityEnds

-----------------------------------------------------------------------------
(* Leaving an organization                                                 *)

\* Only a member can become one whom a request acts for or names.
LEMMA LeftForGood ==
    ASSUME IInv, [Next]_vars, NEW u \in User, NEW o \in Org, HasLeft(u, o)
    PROVE  HasLeft(u, o)'
<1>1. role'[u][o] = "none"
  BY RolesShrink DEF HasLeft
<1>2. ASSUME NEW r \in Req, org'[r] = o
      PROVE  actor'[r] # u /\ (pc'[r] \in {"insertTask", "assign"} => u \notin people'[r])
  <2>1. pc'[r] # "idle"
    BY <1>2, InvariantStep DEF IInv, CheckInv
  <2> QED
    BY <1>2, <2>1, ContextsComeFromChecks DEF HasLeft, AreMembers
<1>3. QED
  BY <1>1, <1>2 DEF HasLeft

\* What u has in o: no more assignments, the same comments.
StaysOut(u, o) ==
    /\ TasksWith(assigned, u, o)' \subseteq TasksWith(assigned, u, o)
    /\ TasksWith(commented, u, o)' = TasksWith(commented, u, o)

\* A request of o itself names somebody else.
LEMMA OwnRequestsNameOthers ==
    ASSUME IInv, NEW u \in User, NEW o \in Org, HasLeft(u, o),
           NEW r \in Req, Step(r) \/ Assign(r), org[r] = o, pc[r] # "idle"
    PROVE  StaysOut(u, o)
<1> USE DEF IInv, TypeOK, TaskInv, OrgOf, StaysOut, TasksWith, projectVars, taskVars, peopleVars
<1>1. CASE UNCHANGED <<projectOrg, taskProject, assigned, commented>>
  BY <1>1
<1>2. ASSUME NEW p \in Project, CreateProject(r, p)
      PROVE  StaysOut(u, o)
  BY <1>2 DEF CreateProject
<1>3. ASSUME NEW t \in Task, InsertTask(r, t)
      PROVE  StaysOut(u, o)
  <2>1. u \notin people[r]
    BY <1>3 DEF InsertTask, HasLeft
  <2>2. <<t, u>> \notin assigned \cup commented
    BY <1>3 DEF InsertTask
  <2>3. \A x \in Task : <<x, u>> \in assigned' <=> <<x, u>> \in assigned
    BY <1>3, <2>1 DEF InsertTask
  <2>4. \A x \in Task \ {t} : taskProject'[x] = taskProject[x]
    BY <1>3 DEF InsertTask
  <2>5. UNCHANGED <<projectOrg, commented>>
    BY <1>3 DEF InsertTask
  <2>6. QED
    BY <2>2, <2>3, <2>4, <2>5
<1>4. CASE Assign(r)
  <2>1. u \notin people[r]
    BY <1>4 DEF Assign, HasLeft
  <2>2. QED
    BY <1>4, <2>1 DEF Assign
<1>5. CASE Unassign(r)
  BY <1>5 DEF Unassign
<1>6. CASE CreateComment(r)
  <2>1. actor[r] # u
    BY DEF HasLeft
  <2>2. QED
    BY <1>6, <2>1 DEF CreateComment
<1>7. QED
  BY <1>1, <1>2, <1>3, <1>4, <1>5, <1>6
     DEF Step, ProjectRequest, TaskRequest, Authenticate, AuthenticateFails, Refuse,
         ProjectCheck, UpdateProject, DeleteProject, CreateTaskCheck, AssigneesCheck, TaskCheck,
         UpdateTask, BulkUpdate, DeleteTask, AssignCheck, BulkCheck, vars

\* A request of another organization leaves the tasks of o alone.
LEMMA OtherRequestsStayAway ==
    ASSUME IInv, IInv', NEW u \in User, NEW o \in Org, Untouched(o)
    PROVE  StaysOut(u, o)
<1>1. \A t \in Task : taskProject[t] # NoProject /\ OrgOf(t) = o <=> taskProject[t] \in ProjectsOf(o)
  BY DEF IInv, TypeOK, OrgOf, ProjectsOf
<1>2. \A t \in Task :
         (taskProject[t] # NoProject /\ OrgOf(t) = o)' <=> taskProject'[t] \in ProjectsOf(o)
  BY DEF IInv, TypeOK, Untouched, OrgOf, ProjectsOf
<1>3. QED
  BY <1>1, <1>2 DEF Untouched, PeopleOf, StaysOut, TasksWith

\* Whoever has left an organization is not assigned to its tasks again, and
\* comments on none of them.
THEOREM LeaversStayOutHolds == Spec => LeaversStayOut
<1> DEFINE A == \A u \in User, o \in Org : HasLeft(u, o) =>
                  /\ HasLeft(u, o)'
                  /\ TasksWith(assigned, u, o)' \subseteq TasksWith(assigned, u, o)
                  /\ TasksWith(commented, u, o)' = TasksWith(commented, u, o)
<1>1. ASSUME IInv, [Next]_vars
      PROVE  A
  <2> SUFFICES ASSUME NEW u \in User, NEW o \in Org, HasLeft(u, o)
               PROVE  HasLeft(u, o)' /\ StaysOut(u, o)
    BY DEF StaysOut
  <2>1. ASSUME UNCHANGED <<projectVars, taskVars, peopleVars>>
        PROVE  StaysOut(u, o)
    <3>1. UNCHANGED <<projectOrg, taskProject, assigned, commented>>
      BY <2>1 DEF projectVars, taskVars, peopleVars
    <3>2. QED
      BY <3>1 DEF StaysOut, TasksWith, OrgOf
  <2>2. ASSUME NEW r \in Req, Step(r) \/ Assign(r)
        PROVE  StaysOut(u, o)
    BY <1>1, <2>2, InvariantStep, OwnRequestsNameOthers, OthersUntouched, OtherRequestsStayAway
  <2>3. StaysOut(u, o)
    BY <1>1, <2>1, <2>2 DEF Next, ChangeRole, vars
  <2>4. QED
    BY <1>1, <2>3, LeftForGood
<1>2. IInv /\ [Next]_vars => [A]_vars
  BY <1>1
<1>3. QED
  BY <1>2, Invariance, PTL DEF Spec, LeaversStayOut
=============================================================================
