----------------------------- MODULE Workspace -----------------------------
(***************************************************************************)
(* Projects, tasks, assignments and comments of several organizations:     *)
(* the services and repositories under src/src/modules and the middleware  *)
(* that authenticates a request and gives it an organization.              *)
(*                                                                         *)
(* A request is a slot r \in Req.  It checks with one database call and    *)
(* writes with a later one, and keeps only what a later call reads: what   *)
(* its check let through (a project, a set of tasks, or a set of people),  *)
(* its organization, and the author of a comment.                          *)
(***************************************************************************)
CONSTANTS
    Org, User, Project, Task, Req,
    Roles,      \* the memberships at the start: [User -> [Org -> role]]
    Nobody, NoOrg, NoProject

Rank == {"none", "member", "org_admin"}

ASSUME RolesAssumption == Roles \in [User -> [Org -> Rank]]
ASSUME NothingAssumption ==
    /\ Nobody \notin User /\ NoOrg \notin Org /\ NoProject \notin Project
    /\ Project \cap Task = {}

VARIABLES
    role,           \* table org_members; "none" is no row
    projectOrg,     \* org_id of a project; NoOrg before it is created
    projectDeleted, \* projects whose deleted_at is set
    taskProject,    \* project_id of a task; NoProject before it is created
    taskDeleted,    \* tasks whose deleted_at is set
    status,         \* status of a task
    assigned,       \* task_assignments: <<task, user>>
    commented,      \* comments: <<task, author>>
    pc,             \* next call of a request
    actor, org, rank,       \* req.user and req.authOrg
    proj, tasks, people,    \* what the request's checks let through
    wrote           \* history: <<project or task, organization of the writer>>

projectVars == <<projectOrg, projectDeleted>>
taskVars == <<taskProject, taskDeleted, status>>
peopleVars == <<assigned, commented>>
contextVars == <<actor, org, rank>>
argVars == <<proj, tasks, people>>
vars == <<role, projectVars, taskVars, peopleVars, pc, contextVars, argVars, wrote>>

ProjectStep == {"updateProject", "deleteProject"}
CreateStep == {"assignees", "insertTask"}
TaskStep == {"updateTask", "deleteTask", "member", "assign", "unassign", "comment", "bulk"}
Status == {"todo", "done"}

TypeOK ==
    /\ role \in [User -> [Org -> Rank]]
    /\ projectOrg \in [Project -> Org \cup {NoOrg}]
    /\ projectDeleted \subseteq Project
    /\ taskProject \in [Task -> Project \cup {NoProject}]
    /\ taskDeleted \subseteq Task
    /\ status \in [Task -> Status]
    /\ assigned \subseteq Task \X User
    /\ commented \subseteq Task \X User
    /\ pc \in [Req -> {"idle", "routed"} \cup ProjectStep \cup CreateStep \cup TaskStep]
    /\ actor \in [Req -> User \cup {Nobody}]
    /\ org \in [Req -> Org \cup {NoOrg}]
    /\ rank \in [Req -> Rank]
    /\ proj \in [Req -> Project \cup {NoProject}]
    /\ tasks \in [Req -> SUBSET Task]
    /\ people \in [Req -> SUBSET User]
    /\ \A r \in Req : /\ pc[r] # "idle" => org[r] \in Org
                      /\ pc[r] \in {"routed", "comment"} => actor[r] \in User
    /\ wrote \subseteq (Project \cup Task) \X Org

Init ==
    /\ role = Roles
    /\ projectOrg = [p \in Project |-> NoOrg]
    /\ taskProject = [t \in Task |-> NoProject]
    /\ status = [t \in Task |-> "todo"]
    /\ projectDeleted = {} /\ taskDeleted = {} /\ assigned = {} /\ commented = {}
    /\ pc = [r \in Req |-> "idle"]
    /\ actor = [r \in Req |-> Nobody]
    /\ org = [r \in Req |-> NoOrg]
    /\ rank = [r \in Req |-> "none"]
    /\ proj = [r \in Req |-> NoProject]
    /\ tasks = [r \in Req |-> {}]
    /\ people = [r \in Req |-> {}]
    /\ wrote = {}

-----------------------------------------------------------------------------
(* The life of a request                                                   *)

\* The checks let r go on to `step' with project p, tasks T and people U.
\* requireRole was the last to read the role, and only a comment names its
\* author.
Continue(r, step, p, T, U) ==
    /\ pc' = [pc EXCEPT ![r] = step]
    /\ proj' = [proj EXCEPT ![r] = p]
    /\ tasks' = [tasks EXCEPT ![r] = T]
    /\ people' = [people EXCEPT ![r] = U]
    /\ actor' = [actor EXCEPT ![r] = IF step = "comment" THEN @ ELSE Nobody]
    /\ rank' = [rank EXCEPT ![r] = "none"]
    /\ UNCHANGED org

\* The request is answered, refused or lost, and keeps nothing.
Finish(r) ==
    /\ pc' = [pc EXCEPT ![r] = "idle"]
    /\ proj' = [proj EXCEPT ![r] = NoProject]
    /\ tasks' = [tasks EXCEPT ![r] = {}]
    /\ people' = [people EXCEPT ![r] = {}]
    /\ actor' = [actor EXCEPT ![r] = Nobody]
    /\ org' = [org EXCEPT ![r] = NoOrg]
    /\ rank' = [rank EXCEPT ![r] = "none"]

\* authenticate: one read of the user and the memberships; the header, the
\* access token or the first membership names one of them.
Authenticate(r, u, o) ==
    /\ pc[r] = "idle" /\ role[u][o] # "none"
    /\ pc' = [pc EXCEPT ![r] = "routed"]
    /\ actor' = [actor EXCEPT ![r] = u]
    /\ org' = [org EXCEPT ![r] = o]
    /\ rank' = [rank EXCEPT ![r] = role[u][o]]
    /\ UNCHANGED <<role, projectVars, taskVars, peopleVars, argVars, wrote>>

\* No valid token, or no membership (in the organization that is asked for).
AuthenticateFails(r) ==
    /\ pc[r] = "idle"
    /\ UNCHANGED vars

\* A check throws, a call fails or the process dies.
Refuse(r) ==
    /\ pc[r] # "idle"
    /\ Finish(r)
    /\ UNCHANGED <<role, projectVars, taskVars, peopleVars, wrote>>

\* The writer's organization is remembered for every object of X.
Record(r, X) == wrote' = wrote \cup (X \X {org[r]})

-----------------------------------------------------------------------------
(* Projects                                                                *)

CreateProject(r, p) ==
    /\ pc[r] = "routed" /\ projectOrg[p] = NoOrg
    /\ projectOrg' = [projectOrg EXCEPT ![p] = org[r]]
    /\ Record(r, {p})
    /\ Finish(r)
    /\ UNCHANGED <<role, projectDeleted, taskVars, peopleVars>>

\* Faulty: the organization is not compared.
ProjectVisibleAnywhere(r, p) == projectOrg[p] # NoOrg /\ p \notin projectDeleted

\* getProjectById, and the first three checks of createTask: the project
\* exists, belongs to the request's organization and is not deleted.
ProjectVisible(r, p) == projectOrg[p] = org[r] /\ p \notin projectDeleted

\* Faulty: requireRole is missing.
ProjectCheckAnyRank(r, p, step) ==
    /\ pc[r] = "routed" /\ step \in ProjectStep
    /\ ProjectVisible(r, p)
    /\ Continue(r, step, p, {}, {})
    /\ UNCHANGED <<role, projectVars, taskVars, peopleVars, wrote>>

\* updateProject and deleteProject check; requireRole came before.
ProjectCheck(r, p, step) ==
    /\ pc[r] = "routed" /\ step \in ProjectStep
    /\ step = "deleteProject" => rank[r] = "org_admin"
    /\ ProjectVisible(r, p)
    /\ Continue(r, step, p, {}, {})
    /\ UNCHANGED <<role, projectVars, taskVars, peopleVars, wrote>>

\* Both updates match the organization and deleted_at again, so a project
\* that was deleted meanwhile is left alone.
ProjectHit(r) ==
    {p \in {proj[r]} : projectOrg[p] = org[r] /\ p \notin projectDeleted}

UpdateProject(r) ==
    /\ pc[r] = "updateProject"
    /\ Record(r, ProjectHit(r))
    /\ Finish(r)
    /\ UNCHANGED <<role, projectVars, taskVars, peopleVars>>

DeleteProject(r) ==
    /\ pc[r] = "deleteProject"
    /\ projectDeleted' = projectDeleted \cup ProjectHit(r)
    /\ Record(r, ProjectHit(r))
    /\ Finish(r)
    /\ UNCHANGED <<role, projectOrg, taskVars, peopleVars>>

-----------------------------------------------------------------------------
(* POST /tasks                                                             *)

\* Faulty: deleted projects are not recognized.
CreateTaskCheckDeleted(r, p, U) ==
    /\ pc[r] = "routed" /\ projectOrg[p] = org[r]
    /\ Continue(r, IF U = {} THEN "insertTask" ELSE "assignees", p, {}, U)
    /\ UNCHANGED <<role, projectVars, taskVars, peopleVars, wrote>>

\* The project check of createTask; assignees are looked up if there are any.
CreateTaskCheck(r, p, U) ==
    /\ pc[r] = "routed" /\ ProjectVisible(r, p)
    /\ Continue(r, IF U = {} THEN "insertTask" ELSE "assignees", p, {}, U)
    /\ UNCHANGED <<role, projectVars, taskVars, peopleVars, wrote>>

\* Faulty: the look-up does not name the user.
AreMembersAnyone(r, U) == \A u \in U : \E v \in User : role[v][org[r]] # "none"

\* Faulty: the memberships are those of the start.
AreMembersOnce(r, U) == \A u \in U : Roles[u][org[r]] # "none"

\* The people have memberships in the request's organization.
AreMembers(r, U) == \A u \in U : role[u][org[r]] # "none"

AssigneesCheck(r) ==
    /\ pc[r] = "assignees" /\ AreMembers(r, people[r])
    /\ Continue(r, "insertTask", proj[r], {}, people[r])
    /\ UNCHANGED <<role, projectVars, taskVars, peopleVars, wrote>>

\* The transaction creates the task and its assignments, whatever happened
\* to the project and the memberships since the checks.
InsertTask(r, t) ==
    /\ pc[r] = "insertTask" /\ taskProject[t] = NoProject
    /\ taskProject' = [taskProject EXCEPT ![t] = proj[r]]
    /\ assigned' = assigned \cup ({t} \X people[r])
    /\ Record(r, {t})
    /\ Finish(r)
    /\ UNCHANGED <<role, projectVars, taskDeleted, status, commented>>

-----------------------------------------------------------------------------
(* Requests about existing tasks                                           *)

OrgOf(t) == projectOrg[taskProject[t]]

\* Faulty: deleted tasks are found, too.
TaskVisibleDeleted(r, t) == taskProject[t] # NoProject /\ OrgOf(t) = org[r]

\* getTaskById: the task exists, its project belongs to the request's
\* organization, and it is not deleted.  The project may be.
TaskVisible(r, t) ==
    taskProject[t] # NoProject /\ OrgOf(t) = org[r] /\ t \notin taskDeleted

\* updateTask, deleteTask, assignTask, unassignTask and createComment start
\* with getTaskById; U is the person to assign or unassign.
TaskCheck(r, t, step, U) ==
    /\ pc[r] = "routed" /\ step \in TaskStep \ {"bulk", "assign"}
    /\ IF step \in {"member", "unassign"} THEN \E u \in User : U = {u} ELSE U = {}
    /\ TaskVisible(r, t)
    /\ Continue(r, step, NoProject, {t}, U)
    /\ UNCHANGED <<role, projectVars, taskVars, peopleVars, wrote>>

\* The updates by id: nothing is checked again.
UpdateTask(r, s) ==
    /\ pc[r] = "updateTask"
    /\ status' = [t \in Task |-> IF t \in tasks[r] THEN s ELSE status[t]]
    /\ Record(r, tasks[r])
    /\ Finish(r)
    /\ UNCHANGED <<role, projectVars, taskProject, taskDeleted, peopleVars>>

DeleteTask(r) ==
    /\ pc[r] = "deleteTask"
    /\ taskDeleted' = taskDeleted \cup tasks[r]
    /\ Record(r, tasks[r])
    /\ Finish(r)
    /\ UNCHANGED <<role, projectVars, taskProject, status, peopleVars>>

\* assignTask looks up the assignee's membership ...
AssignCheck(r) ==
    /\ pc[r] = "member" /\ AreMembers(r, people[r])
    /\ Continue(r, "assign", NoProject, tasks[r], people[r])
    /\ UNCHANGED <<role, projectVars, taskVars, peopleVars, wrote>>

\* ... and upserts the assignment (its outbox row is in Notifications).
Assign(r) ==
    /\ pc[r] = "assign"
    /\ assigned' = assigned \cup (tasks[r] \X people[r])
    /\ Record(r, tasks[r])
    /\ Finish(r)
    /\ UNCHANGED <<role, projectVars, taskVars, commented>>

Unassign(r) ==
    /\ pc[r] = "unassign"
    /\ assigned' = assigned \ (tasks[r] \X people[r])
    /\ Record(r, tasks[r])
    /\ Finish(r)
    /\ UNCHANGED <<role, projectVars, taskVars, commented>>

CreateComment(r) ==
    /\ pc[r] = "comment"
    /\ commented' = commented \cup (tasks[r] \X {actor[r]})
    /\ Record(r, tasks[r])
    /\ Finish(r)
    /\ UNCHANGED <<role, projectVars, taskVars, assigned>>

\* bulkUpdateStatus: as many tasks are visible as ids were sent.
BulkVisible(r, T) == \A t \in T : TaskVisible(r, t)

BulkCheck(r, T) ==
    /\ pc[r] = "routed" /\ T # {} /\ BulkVisible(r, T)
    /\ Continue(r, "bulk", NoProject, T, {})
    /\ UNCHANGED <<role, projectVars, taskVars, peopleVars, wrote>>

\* One UPDATE over the ids that are not deleted by now.
BulkUpdate(r, s) ==
    /\ pc[r] = "bulk"
    /\ status' = [t \in Task |-> IF t \in tasks[r] \ taskDeleted THEN s ELSE status[t]]
    /\ Record(r, tasks[r] \ taskDeleted)
    /\ Finish(r)
    /\ UNCHANGED <<role, projectVars, taskProject, taskDeleted, peopleVars>>

-----------------------------------------------------------------------------
\* A membership is deleted or its role changed by an operator; the API has
\* no call for either.
ChangeRole(u, o, x) ==
    /\ role[u][o] # "none" /\ x \in Rank \ {role[u][o]}
    /\ role' = [role EXCEPT ![u][o] = x]
    /\ UNCHANGED <<projectVars, taskVars, peopleVars, pc, contextVars, argVars, wrote>>

ProjectRequest(r) ==
    \/ \E p \in Project : \/ CreateProject(r, p)
                          \/ \E step \in ProjectStep : ProjectCheck(r, p, step)
    \/ UpdateProject(r)
    \/ DeleteProject(r)

TaskRequest(r) ==
    \/ \E p \in Project, U \in SUBSET User : CreateTaskCheck(r, p, U)
    \/ AssigneesCheck(r)
    \/ \E t \in Task : InsertTask(r, t)
    \/ \E t \in Task, step \in TaskStep, U \in SUBSET User : TaskCheck(r, t, step, U)
    \/ \E s \in Status : UpdateTask(r, s) \/ BulkUpdate(r, s)
    \/ DeleteTask(r)
    \/ AssignCheck(r) \/ Unassign(r)
    \/ CreateComment(r)
    \/ \E T \in SUBSET Task : BulkCheck(r, T)

\* A step of a request, its assignment apart.
Step(r) ==
    \/ \E u \in User, o \in Org : Authenticate(r, u, o)
    \/ AuthenticateFails(r) \/ Refuse(r)
    \/ ProjectRequest(r) \/ TaskRequest(r)

Next ==
    \/ \E r \in Req : Step(r) \/ Assign(r)
    \/ \E u \in User, o \in Org, x \in Rank : ChangeRole(u, o, x)

Spec == Init /\ [][Next]_vars

-----------------------------------------------------------------------------
(* Properties                                                              *)

\* Tenant isolation of writes (ARCHITECTURE 2.2): whatever changed a project
\* or a task acted for the organization the object belongs to, although
\* most updates are by id and trust a check made earlier.
TenantWrites ==
    /\ \A p \in Project, o \in Org : <<p, o>> \in wrote => projectOrg[p] = o
    /\ \A t \in Task, o \in Org : <<t, o>> \in wrote =>
            taskProject[t] # NoProject /\ OrgOf(t) = o

\* u has left o: no membership, no request about to act for u there, and none
\* past the look-up that found u to be a member.
HasLeft(u, o) ==
    /\ role[u][o] = "none"
    /\ \A r \in Req : org[r] = o =>
          actor[r] # u /\ (pc[r] \in {"insertTask", "assign"} => u \notin people[r])

\* The tasks of o in the pairs of S that name u.
TasksWith(S, u, o) ==
    {t \in Task : <<t, u>> \in S /\ taskProject[t] # NoProject /\ OrgOf(t) = o}

\* Whoever has left an organization, or never was in it, is not assigned to
\* another task of it, and writes no comment on one.
LeaversStayOut ==
    [][\A u \in User, o \in Org : HasLeft(u, o) =>
          /\ HasLeft(u, o)'
          /\ TasksWith(assigned, u, o)' \subseteq TasksWith(assigned, u, o)
          /\ TasksWith(commented, u, o)' = TasksWith(commented, u, o)]_vars

TasksOf(p) == {t \in Task : taskProject[t] = p}

\* The project is deleted and no createTask has got past its check.
ProjectClosed(p) ==
    /\ p \in projectDeleted
    /\ \A r \in Req : pc[r] \in CreateStep => proj[r] # p

\* A deleted project that no createTask is busy with stays deleted and gets
\* no more tasks.
ClosedProjectStaysClosed ==
    [][\A p \in Project : ProjectClosed(p) =>
          ProjectClosed(p)' /\ TasksOf(p)' = TasksOf(p)]_vars

\* The task is deleted and no request has got past its check of it.
TaskClosed(t) ==
    /\ t \in taskDeleted
    /\ \A r \in Req : pc[r] \in TaskStep => t \notin tasks[r]

\* The assignees and the authors of a task.
PeopleOf(t) ==
    <<{u \in User : <<t, u>> \in assigned}, {u \in User : <<t, u>> \in commented}>>

\* A deleted task that no request is busy with stays deleted and keeps its
\* status, assignees and comments.
ClosedTaskStaysClosed ==
    [][\A t \in Task : TaskClosed(t) =>
          TaskClosed(t)' /\ status'[t] = status[t] /\ PeopleOf(t)' = PeopleOf(t)]_vars

\* What belongs to an organization.
ProjectsOf(o) == {p \in Project : projectOrg[p] = o}
DataOf(o) ==
    <<ProjectsOf(o) \cap projectDeleted,
      [p \in ProjectsOf(o) |-> TasksOf(p)],
      [t \in {x \in Task : taskProject[x] \in ProjectsOf(o)} |->
          <<t \in taskDeleted, status[t], PeopleOf(t)>>]>>

\* Nobody may act for o any more.
Deserted(o) ==
    /\ \A u \in User : role[u][o] = "none"
    /\ \A r \in Req : pc[r] # "idle" => org[r] # o

\* Nobody may delete projects of o any more.
Headless(o) ==
    /\ \A u \in User : role[u][o] # "org_admin"
    /\ \A r \in Req : org[r] = o => rank[r] # "org_admin" /\ pc[r] # "deleteProject"

\* Authority ends with the requests it let in: what an organization has does
\* not change once its last member and their last request are gone, and no
\* project of it is deleted while it has no administrator and no request that
\* requireRole let through for one, until somebody is promoted.
AuthorityEnds ==
    [][\A o \in Org :
          /\ Deserted(o) => Deserted(o)' /\ DataOf(o)' = DataOf(o)
          /\ Headless(o) =>
                /\ Headless(o)' \/ \E u \in User : role'[u][o] = "org_admin"
                /\ projectDeleted' \cap ProjectsOf(o) = projectDeleted \cap ProjectsOf(o)]_vars

(* What the code says and, with overlapping requests, does not do.         *)

\* createTask, "Cannot create a task in a deleted project": a task appears
\* only in a project that is not deleted.
TasksBornInLiveProjects ==
    [][\A t \in Task : taskProject[t] # taskProject'[t] =>
          taskProject'[t] \notin projectDeleted]_vars
=============================================================================
