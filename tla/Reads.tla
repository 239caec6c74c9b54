-------------------------------- MODULE Reads --------------------------------
(***************************************************************************)
(* Reads of several statements over the tasks of a project while other     *)
(* requests change them: cursor scans and offset scans of GET /tasks, and  *)
(* GET /projects/:id/dashboard.  No read runs in a transaction, so every   *)
(* statement sees the table of its own moment.                             *)
(*                                                                         *)
(* One client reads at a time, page by page; the writers are whatever the  *)
(* services of module Workspace do to the table.                           *)
(***************************************************************************)
EXTENDS Naturals, FiniteSets

CONSTANTS
    N,          \* tasks; a task is its id, a random one, so 1 .. N in no
                \* relation to the order of creation
    Places,     \* values of due date and creation time, in the order of the
                \* list; tasks at one place are tied
    Now,        \* places up to Now are overdue
    Limit,      \* rows of a page
    Filter      \* what scans ask for: sets of the row states they list

ASSUME NAssumption == N \in Nat \ {0}
ASSUME PlacesAssumption == Places \in Nat /\ Now \in 0 .. Places
ASSUME LimitAssumption == Limit \in Nat \ {0}
ASSUME FilterAssumption == Filter \subseteq SUBSET {"open", "done", "deleted"}

Task == 1 .. N

VARIABLES
    state,      \* of a task's row: absent, open, done, or deleted_at is set
    place,      \* of a row in the list; 0 before it is created
    gone,       \* the project's deleted_at is set
    op,         \* what the client reads
    filter,     \* row states the where clause admits
    need,       \* statements of the call that have not run yet
    cursor,     \* next_cursor of the last page; 0 is none
    page,       \* number of the page that is read
    seen,       \* tasks returned so far
    count,      \* what the statements have counted
    repeated,   \* history: tasks returned twice
    stale,      \* history: cursors whose task had left the list when used
    steady,     \* history: tasks listed from the first call on
    came, left, \* history: tasks that joined or left the list meanwhile
    moved,      \* history: a task has changed its place meanwhile
    split       \* history: an offset page began between tied tasks
                \* (a cursor scan is not measured by came, left and moved)

tableVars == <<state, place, gone>>
callVars == <<op, filter, need, cursor, page, seen, count>>
historyVars == <<repeated, stale, steady, came, left, moved, split>>
vars == <<tableVars, callVars, historyVars>>

Statement == {"page", "data", "count", "project", "status", "priority", "total", "overdue"}
Counted == {"status", "done", "priority", "total", "overdue", "rows"}
NoCount == [c \in Counted |-> 0]

TypeOK ==
    /\ state \in [Task -> {"absent", "open", "done", "deleted"}]
    /\ place \in [Task -> 0 .. Places]
    /\ \A t \in Task : state[t] = "absent" <=> place[t] = 0
    /\ gone \in BOOLEAN
    /\ op \in {"none", "cursor", "offset", "dashboard"}
    /\ filter \in Filter \cup {{}, {"open", "done"}}
    /\ need \subseteq Statement
    /\ op = "none" => need = {} /\ seen = {} /\ cursor = 0
    /\ cursor \in 0 .. N
    /\ page \in Nat
    /\ seen \subseteq Task
    /\ count \in [Counted -> 0 .. N]
    /\ repeated \subseteq seen /\ stale \subseteq Task
    /\ steady \subseteq Task /\ came \subseteq Task /\ left \subseteq Task
    /\ moved \in BOOLEAN /\ split \in BOOLEAN

Init ==
    /\ state = [t \in Task |-> "absent"]
    /\ place = [t \in Task |-> 0]
    /\ gone = FALSE
    /\ op = "none" /\ filter = {} /\ need = {}
    /\ cursor = 0 /\ page = 0 /\ seen = {} /\ count = NoCount
    /\ repeated = {} /\ stale = {} /\ steady = {} /\ came = {} /\ left = {}
    /\ moved = FALSE /\ split = FALSE

-----------------------------------------------------------------------------
(* What the where clauses select                                           *)

\* buildWhereClause hides the tasks of a deleted project with the deleted
\* ones; the dashboard's statements match project_id and deleted_at only.
Listed ==
    {t \in Task : /\ state[t] \in filter
                  /\ gone => op = "dashboard" \/ "deleted" \in filter}

InState(S) == {t \in Task : state[t] \in S}

First(S) == {t \in S : \A u \in S : t <= u}
Last(S) == {t \in S : \A u \in S : u <= t}

\* The first n rows of S by id.
Leading(S, n) == {t \in S : Cardinality({u \in S : u < t}) < n}

\* What the first n rows by place may be: no column makes the order of tied
\* rows unique, so each query finds them in an order of its own.
Heads(n) ==
    {H \in SUBSET Listed : /\ Cardinality(H) <= n
                           /\ H # Listed => Cardinality(H) = n
                           /\ \A t \in H, u \in Listed \ H : place[t] <= place[u]}

-----------------------------------------------------------------------------
(* The writers                                                             *)

\* What a change means for a read that is under way.
Observe ==
    /\ steady' = steady \cap Listed'
    /\ came' = IF op = "cursor" THEN {} ELSE came \cup (Listed' \ Listed)
    /\ left' = IF op = "cursor" THEN {} ELSE left \cup (Listed \ Listed')

\* A new task appears anywhere in either order; createTask may even insert
\* it when its project has been deleted (see TasksBornInLiveProjects).
Create(t, s, x) ==
    /\ state[t] = "absent"
    /\ state' = [state EXCEPT ![t] = s]
    /\ place' = [place EXCEPT ![t] = x]
    /\ UNCHANGED <<gone, callVars, repeated, stale, moved, split>>
    /\ Observe

\* updateTask and bulkUpdateStatus change a status, deleteTask deletes.
Change(t, s) ==
    /\ state[t] \in {"open", "done"} \ {s}
    /\ state' = [state EXCEPT ![t] = s]
    /\ UNCHANGED <<place, gone, callVars, repeated, stale, moved, split>>
    /\ Observe

\* updateTask changes a due date.
Reschedule(t, x) ==
    /\ state[t] \in {"open", "done"}
    /\ x # place[t]
    /\ place' = [place EXCEPT ![t] = x]
    /\ moved' = (op = "offset" \/ moved)
    /\ UNCHANGED <<state, gone, callVars, repeated, stale, split>>
    /\ Observe

DeleteProject ==
    /\ ~gone
    /\ gone' = TRUE
    /\ UNCHANGED <<state, place, callVars, repeated, stale, moved, split>>
    /\ Observe

-----------------------------------------------------------------------------
(* The life of a read                                                      *)

\* A client starts to read with filter F; the first call needs S.
Begin(o, F, S) ==
    /\ op = "none"
    /\ op' = o /\ filter' = F /\ need' = S
    /\ page' = 1
    /\ UNCHANGED <<tableVars, cursor, seen, count, repeated, stale, came, left,
                   moved, split>>
    /\ steady' = Listed'

\* The client has its answers.
Forget ==
    /\ op # "none" /\ need = {}
    /\ op' = "none" /\ filter' = {} /\ cursor' = 0 /\ page' = 0
    /\ seen' = {} /\ count' = NoCount
    /\ repeated' = {} /\ stale' = {} /\ steady' = {} /\ came' = {} /\ left' = {}
    /\ moved' = FALSE /\ split' = FALSE
    /\ UNCHANGED <<tableVars, need>>

\* A call returns the rows X.
Return(X) ==
    /\ seen' = seen \cup X
    /\ repeated' = repeated \cup (seen \cap X)

-----------------------------------------------------------------------------
(* GET /tasks?paginationType=cursor                                        *)

\* Faulty: the row of the cursor is not skipped.
CursorRowsAgain == {t \in Listed : t >= cursor}

\* The listed rows from the cursor on, less one for `skip: 1' - whether or
\* not that one is the cursor's own.
CursorRows ==
    LET from == {t \in Listed : t >= cursor}
    IN  IF cursor = 0 THEN from ELSE from \ First(from)

\* Faulty: the extra row that shows there is more becomes the cursor.
NextCursorExtra(rows, items) ==
    IF rows = items THEN {0} ELSE First(rows \ items)

\* buildCursorPaginationResponse: the last item, if a further row was found
\* (a set of one).
NextCursor(rows, items) ==
    IF rows = items THEN {0} ELSE Last(items)

CursorPage ==
    LET rows == CursorRows
        items == Leading(rows, Limit)
    IN  /\ op = "cursor" /\ need = {"page"}
        /\ Return(items)
        /\ cursor' \in NextCursor(rows, items)
        /\ need' = IF rows = items THEN {} ELSE {"page"}
        /\ stale' = IF cursor \in Listed \cup {0} THEN stale ELSE stale \cup {cursor}
        /\ UNCHANGED <<tableVars, op, filter, page, count, steady, came, left, moved, split>>

-----------------------------------------------------------------------------
(* GET /tasks                                                              *)

\* Faulty: off by one on every page but the first.
SkipShort(p) == IF p = 1 THEN 0 ELSE (p - 1) * Limit - 1

\* Faulty: pages are counted from zero.
SkipFromZero(p) == p * Limit

\* calculatePagination
Skip(p) == (p - 1) * Limit

\* findMany and count run side by side, in either order.  findMany skips the
\* rows of the pages before in the order that it finds itself.
OffsetData ==
    \E skipped \in Heads(Skip(page)), taken \in Heads(Skip(page) + Limit) :
        LET items == taken \ skipped
        IN  /\ op = "offset" /\ "data" \in need
            /\ skipped \subseteq taken
            /\ Return(items)
            /\ count' = [count EXCEPT !["rows"] = Cardinality(items)]
            /\ need' = need \ {"data"}
            /\ split' = (split \/ \E t \in skipped, u \in Listed \ skipped :
                                     place[t] = place[u])
            /\ UNCHANGED <<tableVars, op, filter, cursor, page,
                           stale, steady, came, left, moved>>

\* Faulty: the rows of the page are counted.
OffsetTotalOfPage ==
    /\ op = "offset" /\ "count" \in need
    /\ count' = [count EXCEPT !["total"] = count["rows"]]
    /\ need' = need \ {"count"}
    /\ UNCHANGED <<tableVars, op, filter, cursor, page, seen, historyVars>>

OffsetTotal ==
    /\ op = "offset" /\ "count" \in need
    /\ count' = [count EXCEPT !["total"] = Cardinality(Listed)]
    /\ need' = need \ {"count"}
    /\ UNCHANGED <<tableVars, op, filter, cursor, page, seen, historyVars>>

\* The page was full: the client asks for the next one.
OffsetNext ==
    /\ op = "offset" /\ need = {} /\ count["rows"] = Limit
    /\ page' = page + 1
    /\ need' = {"data", "count"} /\ count' = NoCount
    /\ UNCHANGED <<tableVars, op, filter, cursor, seen, historyVars>>

-----------------------------------------------------------------------------
(* GET /projects/:id/dashboard                                             *)

\* The statement of the call that counts, its result, and what follows it.
Tally(statement, result, next) ==
    /\ op = "dashboard" /\ statement \in need
    /\ count' = [c \in Counted |-> IF c \in DOMAIN result THEN result[c] ELSE count[c]]
    /\ need' = (need \ {statement}) \cup next
    /\ UNCHANGED <<tableVars, op, filter, cursor, page, seen, historyVars>>

\* The project is looked up a second time, in the repository; without it the
\* dashboard is null.
LookUpProject ==
    Tally("project", <<>>, IF gone THEN {} ELSE {"status"})

\* Faulty: deleted tasks are counted by status.
GroupByStatusDeleted ==
    Tally("status", [status |-> Cardinality(InState({"open", "done", "deleted"})),
                     done |-> Cardinality(InState({"done"}))], {"priority"})

GroupByStatus ==
    Tally("status", [status |-> Cardinality(InState({"open", "done"})),
                     done |-> Cardinality(InState({"done"}))], {"priority"})

GroupByPriority ==
    Tally("priority", [priority |-> Cardinality(InState({"open", "done"}))],
          {"total", "overdue"})

CountTotal == Tally("total", [total |-> Cardinality(InState({"open", "done"}))], {})

CountOverdue ==
    Tally("overdue", [overdue |-> Cardinality({t \in InState({"open"}) : place[t] <= Now})], {})

-----------------------------------------------------------------------------
Write ==
    \/ \E t \in Task, s \in {"open", "done"}, x \in 1 .. Places : Create(t, s, x)
    \/ \E t \in Task, s \in {"open", "done", "deleted"} : Change(t, s)
    \/ \E t \in Task, x \in 1 .. Places : Reschedule(t, x)
    \/ DeleteProject

Next ==
    \/ Write
    \/ \E F \in Filter : \/ Begin("cursor", F, {"page"})
                         \/ Begin("offset", F, {"data", "count"})
    \/ ~gone /\ Begin("dashboard", {"open", "done"}, {"project"})
    \/ Forget
    \/ CursorPage
    \/ OffsetData \/ OffsetTotal \/ OffsetNext
    \/ LookUpProject \/ GroupByStatus \/ GroupByPriority \/ CountTotal \/ CountOverdue

Spec == Init /\ [][Next]_vars

-----------------------------------------------------------------------------
(* Properties                                                              *)

\* A cursor scan returns no task twice, whatever is created, changed, moved
\* or deleted between its pages.
CursorNeverRepeats == op = "cursor" => repeated = {}

\* A finished cursor scan has returned every task that was listed all the
\* time, but for one task for each cursor whose own task had left the list
\* (`skip: 1' then skips somebody else).
CursorMissesOnePerStaleCursor ==
    op = "cursor" /\ need = {} => Cardinality(steady \ seen) <= Cardinality(stale)

\* An offset scan returns a task twice only if a task joined the list or
\* changed its place meanwhile, or a page began between two tied tasks: tasks
\* that only leave repeat nothing else.
OffsetRepeatsNeedArrivals ==
    op = "offset" /\ repeated # {} => came # {} \/ moved \/ split

\* An offset scan that ended with a short page has missed a task that was
\* listed all the time only if a task left the list or changed its place, or
\* a page began between two tied tasks.
OffsetMissesNeedDepartures ==
    op = "offset" /\ need = {} /\ count["rows"] < Limit /\ ~(steady \subseteq seen) =>
        left # {} \/ moved \/ split

\* A page that has rows ends within the total that is answered with it, but
\* for the tasks that joined or left the list since the scan began.
PageFitsTotal ==
    op = "offset" /\ need = {} /\ count["rows"] > 0 =>
        Skip(page) + count["rows"] <= count["total"] + Cardinality(came \cup left)

\* The statements of a dashboard disagree by no more tasks than were created
\* or deleted while it was computed, and its completion rate exceeds 100 per
\* cent only if a task was deleted meanwhile.
DashboardDrift ==
    op = "dashboard" /\ need = {} =>
        LET drift == Cardinality(came \cup left)
        IN  /\ count["status"] <= count["total"] + drift
            /\ count["total"] <= count["status"] + drift
            /\ count["priority"] <= count["total"] + drift
            /\ count["total"] <= count["priority"] + drift
            /\ count["overdue"] <= count["total"] + drift
            /\ count["done"] > count["total"] => left # {}
=============================================================================
