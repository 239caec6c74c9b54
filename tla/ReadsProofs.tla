----------------------------- MODULE ReadsProofs -----------------------------
(***************************************************************************)
(* Proofs about Reads, for any number of tasks and any page size.          *)
(***************************************************************************)
EXTENDS Reads, FiniteSetTheorems, TLAPS

\* The cursor of an unfinished scan is beyond everything it has returned.
ScanInv ==
    /\ cursor \in 0 .. N
    /\ seen \subseteq Task
    /\ op = "none" => seen = {} /\ repeated = {} /\ cursor = 0
    /\ op = "cursor" => repeated = {}
    /\ op = "cursor" /\ need # {} =>
         /\ cursor = 0 => seen = {}
         /\ \A t \in seen : t <= cursor

-----------------------------------------------------------------------------
\* A page that follows a cursor starts after it: the row that is skipped is
\* the cursor's own unless that has left the list.
LEMMA RowsFollowCursor ==
    ASSUME cursor \in Nat \ {0}, NEW t \in CursorRows
    PROVE  t > cursor
<1>1. t \in Task /\ t >= cursor
  BY DEF CursorRows, Listed
<1>2. t # cursor
  BY NAssumption DEF CursorRows, First, Listed, Task
<1> QED
  BY <1>1, <1>2, NAssumption DEF Task

\* One page keeps the cursor ahead of what was returned.
LEMMA PageStep ==
    ASSUME ScanInv, CursorPage
    PROVE  ScanInv'
<1> DEFINE rows == CursorRows
           items == Leading(rows, Limit)
<1>1. /\ op = "cursor" /\ need = {"page"} /\ op' = op
      /\ seen' = seen \cup items
      /\ repeated' = repeated \cup (seen \cap items)
      /\ cursor' \in NextCursor(rows, items)
      /\ need' = IF rows = items THEN {} ELSE {"page"}
  BY DEF CursorPage, Return
<1>2. items \subseteq rows /\ rows \subseteq Task
  BY DEF Leading, CursorRows, Listed
<1>3. \A t \in items : cursor # 0 => t > cursor
  BY <1>2, RowsFollowCursor DEF ScanInv
<1> HIDE DEF rows, items
<1>4. cursor' \in 0 .. N
  BY <1>1, <1>2, NAssumption DEF NextCursor, Last, Task
<1>5. seen \cap items = {}
  <2>1. CASE cursor = 0
    BY <1>1, <2>1 DEF ScanInv
  <2>2. CASE cursor # 0
    <3>1. \A s \in seen, t \in items : s <= cursor /\ t > cursor
      BY <1>1, <1>3, <2>2 DEF ScanInv
    <3>2. cursor \in Nat /\ seen \subseteq Nat /\ items \subseteq Nat
      BY <1>2, NAssumption DEF ScanInv, Task
    <3>3. \A s \in seen, t \in items : s # t
      BY <3>1, <3>2
    <3> QED
      BY <3>3
  <2> QED
    BY <2>1, <2>2
<1>6. ASSUME rows # items
      PROVE  cursor' # 0 /\ \A t \in seen' : t <= cursor'
  <2>1. cursor' \in items /\ \A t \in items : t <= cursor'
    BY <1>1, <1>6 DEF NextCursor, Last
  <2>2. cursor' \in Task
    BY <1>2, <2>1
  <2>3. ASSUME NEW t \in seen PROVE t <= cursor'
    <3>1. cursor # 0 /\ t <= cursor
      BY <1>1, <2>3 DEF ScanInv
    <3>2. cursor' > cursor
      BY <1>3, <2>1, <3>1
    <3> QED
      BY <2>2, <3>1, <3>2, NAssumption DEF ScanInv, Task
  <2>4. cursor' # 0
    BY <2>2, NAssumption DEF Task
  <2> QED
    BY <1>1, <2>1, <2>3, <2>4
<1> QED
  BY <1>1, <1>2, <1>4, <1>5, <1>6 DEF ScanInv

\* Every step keeps the invariant.
LEMMA ScanStep == ScanInv /\ [Next]_vars => ScanInv'
<1> SUFFICES ASSUME ScanInv, [Next]_vars
             PROVE  ScanInv'
  OBVIOUS
<1>1. ASSUME Write \/ UNCHANGED vars
      PROVE  ScanInv'
  <2>1. UNCHANGED <<op, need, cursor, seen, repeated>>
    BY <1>1 DEF Write, Create, Change, Reschedule, DeleteProject, callVars, historyVars, vars
  <2> QED
    BY <2>1 DEF ScanInv
<1>2. ASSUME NEW o \in {"cursor", "offset", "dashboard"}, NEW F, NEW S, Begin(o, F, S)
      PROVE  ScanInv'
  BY <1>2 DEF Begin, ScanInv
<1>3. ASSUME Forget
      PROVE  ScanInv'
  BY <1>3, NAssumption DEF Forget, ScanInv
<1>4. ASSUME CursorPage
      PROVE  ScanInv'
  BY <1>4, PageStep
<1>5. ASSUME OffsetData
      PROVE  ScanInv'
  BY <1>5 DEF OffsetData, Return, Heads, Listed, ScanInv
<1>6. ASSUME OffsetTotal \/ OffsetNext
      PROVE  ScanInv'
  BY <1>6 DEF OffsetTotal, OffsetNext, historyVars, ScanInv
<1>7. ASSUME LookUpProject \/ GroupByStatus \/ GroupByPriority \/ CountTotal \/ CountOverdue
      PROVE  ScanInv'
  <2>1. op = "dashboard" /\ UNCHANGED <<op, cursor, seen, repeated>>
    BY <1>7 DEF LookUpProject, GroupByStatus, GroupByPriority, CountTotal, CountOverdue,
                Tally, historyVars
  <2> QED
    BY <2>1 DEF ScanInv
<1> QED
  BY <1>1, <1>2, <1>3, <1>4, <1>5, <1>6, <1>7 DEF Next

\* A cursor scan returns no task twice: findManyCursor orders by id, and the
\* next page starts after the last item of the page before, whatever has
\* become of that item.
THEOREM ScansNeverRepeat == Spec => []CursorNeverRepeats
<1>1. Init => ScanInv
  BY NAssumption DEF Init, ScanInv
<1>2. ScanInv => CursorNeverRepeats
  BY DEF ScanInv, CursorNeverRepeats
<1> QED
  BY <1>1, <1>2, ScanStep, PTL DEF Spec

-----------------------------------------------------------------------------
(* The dashboard                                                           *)

\* S was the list at some earlier moment of this read.
Shot(S) ==
    /\ S \subseteq Task
    /\ S \ Listed \subseteq left
    /\ Listed \ S \subseteq came

\* Behind every count stands the set it counted: the list S grouped by status
\* with its finished tasks D, then the lists P and T and the overdue tasks O.
CountsOf(S, D, P, T, O) ==
    /\ Shot(S) /\ D \subseteq S
    /\ count["status"] = Cardinality(S) /\ count["done"] = Cardinality(D)
    /\ \/ need = {"priority"}
       \/ /\ need \subseteq {"total", "overdue"}
          /\ Shot(P) /\ count["priority"] = Cardinality(P)
          /\ "total" \notin need =>
               Shot(T) /\ S \ T \subseteq left /\ count["total"] = Cardinality(T)
          /\ "overdue" \notin need =>
               O \ Listed \subseteq left /\ count["overdue"] = Cardinality(O)

DashboardInv ==
    /\ came \subseteq Task /\ left \subseteq Task
    /\ op = "none" => count = NoCount
    /\ op = "dashboard" =>
         /\ filter = {"open", "done"}
         /\ \/ count = NoCount /\ need \in {{}, {"project"}, {"status"}}
            \/ \E S, D, P, T, O \in SUBSET Task : CountsOf(S, D, P, T, O)

\* Sets of tasks are finite.
LEMMA TasksFinite ==
    ASSUME NEW S, S \subseteq Task
    PROVE  IsFiniteSet(S) /\ Cardinality(S) \in Nat
<1>1. IsFiniteSet(Task)
  BY NAssumption, FS_Interval DEF Task
<1> QED
  BY <1>1, FS_Subset, FS_CardinalityType

\* What is larger by members of a set D only, is so by at most their number.
LEMMA LargerBy ==
    ASSUME NEW A, NEW B, NEW D, A \subseteq Task, B \subseteq Task, D \subseteq Task,
           A \ B \subseteq D
    PROVE  Cardinality(A) <= Cardinality(B) + Cardinality(D)
<1>1. A \subseteq B \cup D /\ B \cup D \subseteq Task /\ B \cap D \subseteq Task
  OBVIOUS
<1>2. Cardinality(A) <= Cardinality(B \cup D)
  BY <1>1, TasksFinite, FS_Subset
<1>3. Cardinality(B \cup D) = Cardinality(B) + Cardinality(D) - Cardinality(B \cap D)
  BY TasksFinite, FS_Union
<1>4. /\ Cardinality(A) \in Nat /\ Cardinality(B) \in Nat
      /\ Cardinality(D) \in Nat /\ Cardinality(B \cap D) \in Nat
  BY <1>1, TasksFinite
<1> QED
  BY <1>2, <1>3, <1>4

\* A dashboard's list is the project's tasks that are not deleted.
LEMMA DashboardLists ==
    ASSUME op = "dashboard", filter = {"open", "done"}
    PROVE  Listed = InState({"open", "done"})
BY DEF Listed, InState

\* A write that is observed turns no earlier list into something else.
LEMMA WritesKeepCounts ==
    ASSUME DashboardInv, Write
    PROVE  DashboardInv'
<1>1. Observe /\ UNCHANGED callVars
  BY DEF Write, Create, Change, Reschedule, DeleteProject
<1>0. came' \subseteq Task /\ left' \subseteq Task
  BY <1>1 DEF Observe, DashboardInv, Listed
<1>2. CASE op # "dashboard"
  BY <1>0, <1>1, <1>2 DEF DashboardInv, callVars
<1>3. CASE op = "dashboard" /\ count = NoCount /\ need \in {{}, {"project"}, {"status"}}
  BY <1>0, <1>1, <1>3 DEF DashboardInv, callVars
<1>4. ASSUME op = "dashboard",
             NEW S \in SUBSET Task, NEW D \in SUBSET Task, NEW P \in SUBSET Task,
             NEW T \in SUBSET Task, NEW O \in SUBSET Task, CountsOf(S, D, P, T, O)
      PROVE  DashboardInv'
  <2>1. /\ came' = came \cup (Listed' \ Listed)
        /\ left' = left \cup (Listed \ Listed')
    BY <1>1, <1>4 DEF Observe
  <2>2. ASSUME NEW X \in SUBSET Task, Shot(X) PROVE Shot(X)'
    BY <2>1, <2>2 DEF Shot
  <2>3. CountsOf(S, D, P, T, O)'
    BY <1>1, <1>4, <2>1, <2>2 DEF CountsOf, callVars
  <2> QED
    BY <1>0, <1>1, <1>4, <2>3 DEF DashboardInv, callVars
<1> QED
  BY <1>2, <1>3, <1>4 DEF DashboardInv

\* Every statement counts the list of its own moment.
LEMMA StatementsCount ==
    ASSUME DashboardInv,
           LookUpProject \/ GroupByStatus \/ GroupByPriority \/ CountTotal \/ CountOverdue
    PROVE  DashboardInv'
<1>0. PICK L \in SUBSET Task : L = InState({"open", "done"})
  BY DEF InState
<1>1. /\ op = "dashboard" /\ filter = {"open", "done"}
      /\ UNCHANGED <<op, filter, came, left>> /\ Listed' = Listed /\ Listed = L
      /\ L \in SUBSET Task /\ came' \subseteq Task /\ left' \subseteq Task
  BY <1>0, DashboardLists DEF DashboardInv, LookUpProject, GroupByStatus, GroupByPriority,
     CountTotal, CountOverdue, Tally, tableVars, historyVars, Listed, InState
<1>2. Shot(L)
  BY <1>1 DEF Shot
<1>3. ASSUME NEW X, Shot(X) PROVE Shot(X)'
  BY <1>1, <1>3 DEF Shot
<1>4. CASE LookUpProject
  BY <1>1, <1>4 DEF LookUpProject, Tally, DashboardInv, CountsOf, NoCount, Counted
<1>5. CASE GroupByStatus
  <2>0. PICK D \in SUBSET L : D = InState({"done"})
    BY <1>0 DEF InState
  <2>1. /\ count'["status"] = Cardinality(L) /\ count'["done"] = Cardinality(D)
        /\ need' = {"priority"} /\ D \subseteq L
    BY <1>0, <1>1, <1>5, <2>0 DEF GroupByStatus, Tally, DashboardInv, CountsOf, Counted
  <2>2. CountsOf(L, D, L, L, L)' /\ D \in SUBSET Task
    BY <1>1, <1>2, <1>3, <2>0, <2>1 DEF CountsOf
  <2> QED
    BY <1>1, <2>2 DEF DashboardInv
<1>6. CASE ~LookUpProject /\ ~GroupByStatus
  <2>1. PICK S, D, P, T, O \in SUBSET Task : CountsOf(S, D, P, T, O)
    BY <1>1, <1>6 DEF DashboardInv, GroupByPriority, CountTotal, CountOverdue, Tally
  <2>2. CASE GroupByPriority
    <3>1. /\ count'["priority"] = Cardinality(L) /\ need' = {"total", "overdue"}
          /\ \A c \in {"status", "done"} : count'[c] = count[c]
      BY <1>0, <1>1, <2>1, <2>2 DEF GroupByPriority, Tally, CountsOf, Counted
    <3>2. CountsOf(S, D, L, T, O)'
      BY <1>1, <1>2, <1>3, <2>1, <3>1 DEF CountsOf
    <3> QED
      BY <1>1, <3>2 DEF DashboardInv
  <2>3. CASE CountTotal
    <3>1. /\ count'["total"] = Cardinality(L) /\ need' = need \ {"total"}
          /\ \A c \in {"status", "done", "priority", "overdue"} : count'[c] = count[c]
          /\ need # {"priority"}
      BY <1>0, <1>1, <2>1, <2>3 DEF CountTotal, Tally, CountsOf, Counted
    <3>2. S \ L \subseteq left
      BY <1>1, <2>1 DEF CountsOf, Shot
    <3>3. CountsOf(S, D, P, L, O)'
      BY <1>1, <1>2, <1>3, <2>1, <3>1, <3>2 DEF CountsOf
    <3> QED
      BY <1>1, <3>3 DEF DashboardInv
  <2>4. CASE CountOverdue
    <3>0. PICK late \in SUBSET L : late = {t \in InState({"open"}) : place[t] <= Now}
      BY <1>0 DEF InState
    <3>1. /\ count'["overdue"] = Cardinality(late) /\ need' = need \ {"overdue"}
          /\ \A c \in {"status", "done", "priority", "total"} : count'[c] = count[c]
          /\ need # {"priority"}
      BY <1>1, <2>1, <2>4, <3>0 DEF CountOverdue, Tally, CountsOf, Counted
    <3>2. late \in SUBSET Task /\ late \subseteq Listed
      BY <1>1, <3>0
    <3>3. CountsOf(S, D, P, T, late)'
      BY <1>1, <1>3, <2>1, <3>1, <3>2 DEF CountsOf
    <3> QED
      BY <1>1, <3>2, <3>3 DEF DashboardInv
  <2> QED
    BY <1>6, <2>2, <2>3, <2>4
<1> QED
  BY <1>4, <1>5, <1>6

\* Every step keeps the invariant.
LEMMA DashboardStep == DashboardInv /\ [Next]_vars => DashboardInv'
<1> SUFFICES ASSUME DashboardInv, [Next]_vars
             PROVE  DashboardInv'
  OBVIOUS
<1>1. CASE Write
  BY <1>1, WritesKeepCounts
<1>2. CASE LookUpProject \/ GroupByStatus \/ GroupByPriority \/ CountTotal \/ CountOverdue
  BY <1>2, StatementsCount
<1>3. CASE UNCHANGED vars
  <2>1. Listed' = Listed /\ UNCHANGED <<op, filter, need, count, came, left>>
    BY <1>3 DEF vars, tableVars, callVars, historyVars, Listed
  <2> QED
    BY <2>1 DEF DashboardInv, CountsOf, Shot
<1>4. CASE \E F \in Filter : Begin("cursor", F, {"page"}) \/ Begin("offset", F, {"data", "count"})
  BY <1>4 DEF Begin, DashboardInv
<1>5. CASE Begin("dashboard", {"open", "done"}, {"project"})
  BY <1>5 DEF Begin, DashboardInv
<1>6. CASE Forget
  BY <1>6 DEF Forget, DashboardInv
<1>7. CASE CursorPage \/ OffsetData \/ OffsetTotal \/ OffsetNext
  BY <1>7 DEF CursorPage, OffsetData, OffsetTotal, OffsetNext, historyVars, DashboardInv
<1> QED
  BY <1>1, <1>2, <1>3, <1>4, <1>5, <1>6, <1>7 DEF Next

\* The sets behind the counts hold in every reachable state.
LEMMA DashboardInvariance == Spec => []DashboardInv
<1>1. Init => DashboardInv
  BY DEF Init, DashboardInv
<1> QED
  BY <1>1, DashboardStep, PTL DEF Spec

\* The four statements of getDashboardStats disagree by no more tasks than
\* came and left while they ran; the completion rate, computed from the count
\* by status and the total, exceeds 100 per cent only if a task left.
THEOREM CountsDriftWithTheTable == Spec => []DashboardDrift
<1>1. DashboardInv => DashboardDrift
  <2> SUFFICES ASSUME DashboardInv, op = "dashboard", need = {}
               PROVE  DashboardDrift
    BY DEF DashboardDrift
  <2> DEFINE drift == came \cup left
  <2>0. drift \subseteq Task
    BY DEF DashboardInv
  <2>1. Cardinality(drift) \in Nat
    BY <2>0, TasksFinite
  <2>2. CASE count = NoCount
    BY <2>1, <2>2 DEF DashboardDrift, NoCount, Counted
  <2>3. CASE count # NoCount
    <3>1. PICK S, D, P, T, O \in SUBSET Task : CountsOf(S, D, P, T, O)
      BY <2>3 DEF DashboardInv
    <3>2. /\ count["status"] = Cardinality(S) /\ count["priority"] = Cardinality(P)
          /\ count["total"] = Cardinality(T) /\ count["overdue"] = Cardinality(O)
      BY <3>1 DEF CountsOf
    <3>3. S \ T \subseteq drift /\ T \ S \subseteq drift
      BY <3>1 DEF CountsOf, Shot
    <3>4. P \ T \subseteq drift /\ T \ P \subseteq drift
      BY <3>1 DEF CountsOf, Shot
    <3>5. O \ T \subseteq drift
      BY <3>1 DEF CountsOf, Shot
    <3> HIDE DEF drift
    <3>7. /\ Cardinality(S) <= Cardinality(T) + Cardinality(drift)
          /\ Cardinality(T) <= Cardinality(S) + Cardinality(drift)
      BY <3>3, <2>0, LargerBy
    <3>8. /\ Cardinality(P) <= Cardinality(T) + Cardinality(drift)
          /\ Cardinality(T) <= Cardinality(P) + Cardinality(drift)
      BY <3>4, <2>0, LargerBy
    <3>9. Cardinality(O) <= Cardinality(T) + Cardinality(drift)
      BY <3>5, <2>0, LargerBy
    <3>10. left = {} => count["done"] <= count["total"]
      <4>1. left = {} => D \subseteq T
        BY <3>1 DEF CountsOf
      <4>2. count["done"] = Cardinality(D)
        BY <3>1 DEF CountsOf
      <4> QED
        BY <3>2, <4>1, <4>2, TasksFinite, FS_Subset
    <3>11. left = {} => ~(count["done"] > count["total"])
      <4>1. count["done"] = Cardinality(D) /\ Cardinality(D) \in Nat /\ Cardinality(T) \in Nat
        BY <3>1, TasksFinite DEF CountsOf
      <4> QED
        BY <3>2, <3>10, <4>1
    <3> QED
      BY <3>2, <3>7, <3>8, <3>9, <3>11 DEF DashboardDrift, drift
  <2> QED
    BY <2>2, <2>3
<1> QED
  BY <1>1, DashboardInvariance, PTL

-----------------------------------------------------------------------------
(* Types                                                                   *)

\* A set of tasks is counted by a number up to N.
LEMMA CountsType ==
    ASSUME NEW S, S \subseteq Task
    PROVE  Cardinality(S) \in 0 .. N
<1>1. IsFiniteSet(Task) /\ Cardinality(Task) = N
  BY NAssumption, FS_Interval DEF Task
<1> QED
  BY <1>1, FS_Subset, FS_CardinalityType, NAssumption

\* The rows, their states and places.
TableType ==
    /\ state \in [Task -> {"absent", "open", "done", "deleted"}]
    /\ place \in [Task -> 0 .. Places]
    /\ \A t \in Task : state[t] = "absent" <=> place[t] = 0

\* The writers keep the types of the table.
LEMMA WritesKeepTypes ==
    ASSUME TypeOK, Write
    PROVE  TypeOK'
<1>1. Observe /\ UNCHANGED <<callVars, repeated, stale>>
  BY DEF Write, Create, Change, Reschedule, DeleteProject
<1>2. steady' \subseteq Task /\ came' \subseteq Task /\ left' \subseteq Task
  BY <1>1 DEF Observe, TypeOK, Listed
<1>3. gone' \in BOOLEAN
  BY DEF Write, Create, Change, Reschedule, DeleteProject, TypeOK
<1>4. moved' \in BOOLEAN /\ split' \in BOOLEAN
  BY DEF Write, Create, Change, Reschedule, DeleteProject, TypeOK
<1>5. TableType'
  <2>1. ASSUME NEW t \in Task, NEW s \in {"open", "done"}, NEW x \in 1 .. Places,
               Create(t, s, x)
        PROVE  TableType'
    BY <2>1, PlacesAssumption DEF Create, TableType, TypeOK
  <2>2. ASSUME NEW t \in Task, NEW s \in {"open", "done", "deleted"}, Change(t, s)
        PROVE  TableType'
    BY <2>2 DEF Change, TableType, TypeOK
  <2>3. ASSUME NEW t \in Task, NEW x \in 1 .. Places, Reschedule(t, x)
        PROVE  TableType'
    BY <2>3, PlacesAssumption DEF Reschedule, TableType, TypeOK
  <2>4. CASE DeleteProject
    BY <2>4 DEF DeleteProject, TableType, TypeOK
  <2> QED
    BY <2>1, <2>2, <2>3, <2>4 DEF Write
<1> QED
  BY <1>1, <1>2, <1>3, <1>4, <1>5 DEF TableType, TypeOK, callVars

\* Every step keeps the types.
LEMMA TypeStep == TypeOK /\ [Next]_vars => TypeOK'
<1> SUFFICES ASSUME TypeOK, [Next]_vars
             PROVE  TypeOK'
  OBVIOUS
<1>1. CASE Write
  BY <1>1, WritesKeepTypes
<1>2. CASE UNCHANGED vars
  BY <1>2 DEF vars, tableVars, callVars, historyVars, TypeOK
<1>3. ASSUME NEW o \in {"cursor", "offset", "dashboard"},
             NEW F \in Filter \cup {{"open", "done"}}, NEW S \in SUBSET Statement,
             Begin(o, F, S)
      PROVE  TypeOK'
  BY <1>3 DEF Begin, tableVars, Listed, TypeOK
<1>4. CASE Forget
  <2>1. count' \in [Counted -> 0 .. N] /\ cursor' \in 0 .. N /\ page' \in Nat
    BY <1>4, NAssumption DEF Forget, NoCount
  <2>2. moved' \in BOOLEAN /\ split' \in BOOLEAN /\ gone' \in BOOLEAN
    BY <1>4 DEF Forget, tableVars, TypeOK
  <2> QED
    BY <1>4, <2>1, <2>2 DEF Forget, tableVars, TypeOK
<1>5. CASE CursorPage
  <2> DEFINE rows == CursorRows
             items == Leading(rows, Limit)
  <2>1. items \subseteq Task
    BY DEF Leading, CursorRows, Listed
  <2>2. cursor' \in {0} \cup items
    BY <1>5 DEF CursorPage, NextCursor, Last
  <2> HIDE DEF rows, items
  <2>3. /\ op = "cursor" /\ seen' = seen \cup items
        /\ repeated' = repeated \cup (seen \cap items) /\ need' \subseteq {"page"}
        /\ stale' \subseteq stale \cup {cursor} /\ (cursor = 0 => stale' = stale)
        /\ UNCHANGED <<tableVars, op, filter, page, count, steady, came, left, moved, split>>
    BY <1>5 DEF CursorPage, Return, rows, items
  <2>4. cursor' \in 0 .. N /\ stale' \subseteq Task
    BY <2>1, <2>2, <2>3, NAssumption DEF Task, TypeOK
  <2> QED
    BY <2>1, <2>3, <2>4 DEF tableVars, Statement, TypeOK
<1>6. CASE OffsetData
  <2>1. /\ need' = need \ {"data"} /\ op = "offset"
        /\ UNCHANGED <<tableVars, op, filter, cursor, page, stale, steady, came, left, moved>>
    BY <1>6 DEF OffsetData
  <2>2. PICK skipped \in Heads(Skip(page)), taken \in Heads(Skip(page) + Limit) :
           /\ seen' = seen \cup (taken \ skipped)
           /\ repeated' = repeated \cup (seen \cap (taken \ skipped))
           /\ count' = [count EXCEPT !["rows"] = Cardinality(taken \ skipped)]
           /\ split' = (split \/ \E t \in skipped, u \in Listed \ skipped :
                                    place[t] = place[u])
    BY <1>6 DEF OffsetData, Return
  <2> DEFINE items == taken \ skipped
  <2>3. items \subseteq Listed
    BY DEF Heads
  <2>4. split' \in BOOLEAN
    BY <2>2 DEF TypeOK
  <2>5. items \subseteq Task /\ Cardinality(items) \in 0 .. N
    BY <2>3, CountsType DEF Listed
  <2> HIDE DEF items
  <2> QED
    BY <2>1, <2>2, <2>5, <2>4 DEF tableVars, TypeOK, items
<1>7. CASE OffsetTotal
  <2>1. Cardinality(Listed) \in 0 .. N
    BY CountsType DEF Listed
  <2> QED
    BY <1>7, <2>1 DEF OffsetTotal, tableVars, historyVars, TypeOK
<1>8. CASE OffsetNext
  <2>1. count' \in [Counted -> 0 .. N]
    BY <1>8, NAssumption DEF OffsetNext, NoCount
  <2> QED
    BY <1>8, <2>1 DEF OffsetNext, tableVars, historyVars, TypeOK, Statement
<1>9. CASE LookUpProject \/ GroupByStatus \/ GroupByPriority \/ CountTotal \/ CountOverdue
  <2>1. \A X : Cardinality(InState(X)) \in 0 .. N
    BY CountsType DEF InState
  <2>2. Cardinality({t \in InState({"open"}) : place[t] <= Now}) \in 0 .. N
    BY CountsType DEF InState
  <2>3. need' \subseteq Statement /\ op = "dashboard"
    BY <1>9 DEF LookUpProject, GroupByStatus, GroupByPriority, CountTotal,
       CountOverdue, Tally, Statement, TypeOK
  <2>5. count' \in [Counted -> 0 .. N]
    <3>1. CASE LookUpProject
      BY <3>1 DEF LookUpProject, Tally, TypeOK
    <3>2. CASE GroupByStatus
      BY <3>2, <2>1 DEF GroupByStatus, Tally, TypeOK
    <3>3. CASE GroupByPriority
      BY <3>3, <2>1 DEF GroupByPriority, Tally, TypeOK
    <3>4. CASE CountTotal
      BY <3>4, <2>1 DEF CountTotal, Tally, TypeOK
    <3>5. CASE CountOverdue
      <4> DEFINE late == {t \in InState({"open"}) : place[t] <= Now}
      <4>1. count' = [c \in Counted |-> IF c \in DOMAIN [overdue |-> Cardinality(late)]
                                         THEN [overdue |-> Cardinality(late)][c] ELSE count[c]]
        BY <3>5 DEF CountOverdue, Tally
      <4>2. Cardinality(late) \in 0 .. N
        BY <2>2
      <4> HIDE DEF late
      <4> QED
        BY <4>1, <4>2 DEF TypeOK
    <3> QED
      BY <1>9, <3>1, <3>2, <3>3, <3>4, <3>5
  <2>4. UNCHANGED <<tableVars, op, filter, cursor, page, seen, historyVars>>
    BY <1>9 DEF LookUpProject, GroupByStatus, GroupByPriority, CountTotal, CountOverdue, Tally
  <2> QED
    BY <2>3, <2>4, <2>5 DEF tableVars, historyVars, TypeOK
<1> QED
  BY <1>1, <1>2, <1>3, <1>4, <1>5, <1>6, <1>7, <1>8, <1>9 DEF Next, Statement

\* The table and the read keep their types, every row that was created has a
\* place, and a client that reads nothing holds nothing.
THEOREM TypeCorrect == Spec => []TypeOK
<1>1. Init => TypeOK
  <2> SUFFICES ASSUME Init PROVE TypeOK
    OBVIOUS
  <2>1. count \in [Counted -> 0 .. N] /\ cursor \in 0 .. N /\ page \in Nat
    BY NAssumption DEF Init, NoCount
  <2>2. moved \in BOOLEAN /\ split \in BOOLEAN /\ gone \in BOOLEAN
    BY DEF Init
  <2>3. TableType
    BY PlacesAssumption DEF Init, TableType
  <2> QED
    BY <2>1, <2>2, <2>3 DEF Init, TableType, TypeOK
<1> QED
  BY <1>1, TypeStep, PTL DEF Spec

-----------------------------------------------------------------------------
(* Beginnings of the list: sets of tasks nobody else is before.  Tied tasks *)
(* may stand on both sides of their end.                                    *)

Ahead(D) ==
    /\ D \subseteq Listed
    /\ \A t \in D, u \in Listed \ D : place[t] <= place[u]

\* No two tied tasks stand on different sides of the end of D.
Apart(D) == \A t \in D, u \in Listed \ D : place[t] # place[u]

\* How many rows the statements on data have passed so far.
Passed == IF "data" \in need THEN Skip(page) ELSE Skip(page) + Limit

\* Listed tasks have places.
LEMMA ListedPlaces ==
    ASSUME TypeOK
    PROVE  place \in [Task -> Nat] /\ Listed \subseteq Task
BY PlacesAssumption DEF TypeOK, Listed

\* Where a page starts.
LEMMA SkipNext ==
    ASSUME NEW p \in Nat, p > 0
    PROVE  Skip(p) \in Nat /\ Skip(p + 1) = Skip(p) + Limit
<1>1. PICK q \in Nat : p = q + 1
  <2> p - 1 \in Nat /\ p = (p - 1) + 1
    OBVIOUS
  <2> QED
    OBVIOUS
<1>2. Skip(p) = q * Limit /\ Skip(p + 1) = (q + 1) * Limit
  BY <1>1 DEF Skip
<1> QED
  BY <1>2, LimitAssumption

\* Of two beginnings one that is apart from its rest is within the other, or
\* contains it.
LEMMA BeginningsNest ==
    ASSUME TypeOK, NEW A, NEW D, Ahead(A), Apart(A), Ahead(D)
    PROVE  A \subseteq D \/ D \subseteq A
<1>1. ASSUME NEW a \in A \ D, NEW d \in D \ A
      PROVE  FALSE
  <2>1. place[a] <= place[d] /\ place[d] <= place[a] /\ place[a] # place[d]
    BY <1>1 DEF Ahead, Apart
  <2>2. place[a] \in Nat /\ place[d] \in Nat
    BY <1>1, ListedPlaces DEF Ahead
  <2> QED
    BY <2>1, <2>2
<1> QED
  BY <1>1

\* The larger beginning contains one that is apart from its rest, and the
\* smaller one is within it.
LEMMA BeginningsCompare ==
    ASSUME TypeOK, NEW A, NEW D, Ahead(A), Apart(A), Ahead(D)
    PROVE  /\ Cardinality(A) <= Cardinality(D) => A \subseteq D
           /\ Cardinality(D) <= Cardinality(A) => D \subseteq A
<1>1. A \subseteq Task /\ D \subseteq Task
  BY ListedPlaces DEF Ahead
<1>2. /\ IsFiniteSet(A) /\ Cardinality(A) \in Nat
      /\ IsFiniteSet(D) /\ Cardinality(D) \in Nat
  BY <1>1, TasksFinite
<1>3. CASE A \subseteq D
  <2>1. Cardinality(A) <= Cardinality(D) /\ (Cardinality(D) = Cardinality(A) => D = A)
    BY <1>2, <1>3, FS_Subset
  <2> QED
    BY <1>2, <1>3, <2>1
<1>4. CASE D \subseteq A
  <2>1. Cardinality(D) <= Cardinality(A) /\ (Cardinality(A) = Cardinality(D) => A = D)
    BY <1>2, <1>4, FS_Subset
  <2> QED
    BY <1>2, <1>4, <2>1
<1> QED
  BY <1>3, <1>4, BeginningsNest

\* What a statement on data finds: it skips a beginning of the list and takes
\* another, and the page lies between their ends.
LEMMA PageLies ==
    ASSUME TypeOK, page > 0,
           NEW skipped \in Heads(Skip(page)), NEW taken \in Heads(Skip(page) + Limit),
           skipped \subseteq taken
    PROVE  /\ Ahead(skipped) /\ Cardinality(skipped) \in Nat
           /\ Ahead(taken) /\ Cardinality(taken) \in Nat /\ taken \in SUBSET Task
           /\ Cardinality(skipped) <= Skip(page)
           /\ skipped # Listed => Cardinality(skipped) = Skip(page)
           /\ Cardinality(taken) <= Skip(page) + Limit
           /\ taken # Listed => Cardinality(taken) = Skip(page) + Limit
           /\ Cardinality(taken \ skipped) = Cardinality(taken) - Cardinality(skipped)
<1>1. /\ Ahead(skipped) /\ Ahead(taken)
      /\ Cardinality(skipped) <= Skip(page) /\ Cardinality(taken) <= Skip(page) + Limit
      /\ skipped # Listed => Cardinality(skipped) = Skip(page)
      /\ taken # Listed => Cardinality(taken) = Skip(page) + Limit
  BY DEF Heads, Ahead
<1>2. skipped \in SUBSET Task /\ taken \in SUBSET Task
  BY <1>1, ListedPlaces DEF Ahead
<1>3. /\ Cardinality(skipped) \in Nat
      /\ IsFiniteSet(taken) /\ Cardinality(taken) \in Nat
  BY <1>2, TasksFinite
<1>4. taken \cap skipped = skipped
  OBVIOUS
<1>5. Cardinality(taken \ skipped) = Cardinality(taken) - Cardinality(skipped)
  BY <1>3, <1>4, FS_Difference
<1> QED
  BY <1>1, <1>2, <1>3, <1>5

-----------------------------------------------------------------------------
(* Offset scans                                                            *)

\* While tasks only leave, what was returned is among the rows passed.
OffsetInv ==
    op = "offset" =>
      /\ page > 0
      /\ came = {} /\ moved = FALSE /\ split = FALSE =>
           /\ repeated = {}
           /\ \E D \in SUBSET Task : /\ Ahead(D) /\ seen \cap Listed \subseteq D
                                     /\ Cardinality(D) <= Passed

\* Passed is a number.
LEMMA PassedType ==
    ASSUME TypeOK, page > 0
    PROVE  Passed \in Nat /\ Skip(page) \in Nat /\ Limit \in Nat \ {0}
BY SkipNext, LimitAssumption DEF Passed, TypeOK

\* A write that moves no task changes no place of a listed one.
LEMMA PlacesStay ==
    ASSUME TypeOK, Write, op = "offset", moved' = FALSE
    PROVE  moved = FALSE /\ \A u \in Listed : place'[u] = place[u]
<1>1. moved = FALSE /\ ~\E t \in Task, x \in 1 .. Places : Reschedule(t, x)
  BY DEF Write, Create, Change, Reschedule, DeleteProject
<1>2. ASSUME NEW t \in Task, NEW s \in {"open", "done"}, NEW x \in 1 .. Places,
             Create(t, s, x), NEW u \in Listed
      PROVE  place'[u] = place[u]
  <2>1. u # t
    BY <1>2, FilterAssumption DEF Create, Listed, TypeOK
  <2> QED
    BY <1>2, <2>1 DEF Create, TypeOK, Listed
<1> QED
  BY <1>1, <1>2 DEF Write, Change, DeleteProject

\* A write by which no task joins or moves keeps returned tasks behind.
LEMMA WritesKeepPassed ==
    ASSUME TypeOK, OffsetInv, Write
    PROVE  OffsetInv'
<1>1. Observe /\ UNCHANGED <<callVars, repeated, split>> /\ Passed' = Passed
  BY DEF Write, Create, Change, Reschedule, DeleteProject, callVars, Passed, Skip
<1>2. CASE op # "offset" \/ ~(came' = {} /\ moved' = FALSE /\ split = FALSE)
  BY <1>1, <1>2 DEF OffsetInv, callVars
<1>3. CASE op = "offset" /\ came' = {} /\ moved' = FALSE /\ split = FALSE
  <2>1. came = {} /\ Listed' \subseteq Listed
    BY <1>1, <1>3 DEF Observe
  <2>2. moved = FALSE /\ \A u \in Listed : place'[u] = place[u]
    BY <1>3, PlacesStay
  <2>3. PICK D \in SUBSET Task :
           Ahead(D) /\ seen \cap Listed \subseteq D /\ Cardinality(D) <= Passed
    BY <1>3, <2>1, <2>2 DEF OffsetInv
  <2>4. PICK H \in SUBSET D : H = D \cap Listed'
    OBVIOUS
  <2>5. Ahead(H)'
    BY <2>1, <2>2, <2>3, <2>4 DEF Ahead
  <2>6. Cardinality(H) <= Passed
    <3>1. /\ Cardinality(H) <= Cardinality(D)
          /\ Cardinality(D) \in Nat /\ Cardinality(H) \in Nat
      BY TasksFinite, FS_Subset
    <3> QED
      BY <1>3, <2>3, <3>1, PassedType DEF OffsetInv
  <2>7. seen' \cap Listed' \subseteq H
    BY <1>1, <2>1, <2>3, <2>4 DEF callVars
  <2>8. repeated' = {}
    BY <1>1, <1>3, <2>1, <2>2 DEF OffsetInv
  <2> QED
    BY <1>1, <1>3, <2>5, <2>6, <2>7, <2>8 DEF OffsetInv, callVars
<1> QED
  BY <1>2, <1>3

\* A page that begins between no tied tasks has nothing from before its start.
LEMMA PagesDoNotOverlap ==
    ASSUME TypeOK, OffsetInv, OffsetData
    PROVE  OffsetInv'
<1>1. /\ op = "offset" /\ "data" \in need /\ page > 0
      /\ need' = need \ {"data"} /\ Listed' = Listed
      /\ UNCHANGED <<tableVars, op, page, came, moved>>
  BY DEF OffsetData, OffsetInv, tableVars, Listed
<1>2. PICK skipped \in Heads(Skip(page)), taken \in Heads(Skip(page) + Limit) :
         /\ skipped \subseteq taken
         /\ seen' = seen \cup (taken \ skipped)
         /\ repeated' = repeated \cup (seen \cap (taken \ skipped))
         /\ split' = (split \/ ~Apart(skipped))
  BY DEF OffsetData, Return, Apart
<1>3. /\ Ahead(skipped) /\ Cardinality(skipped) \in Nat
      /\ Ahead(taken) /\ taken \in SUBSET Task
      /\ skipped # Listed => Cardinality(skipped) = Skip(page)
      /\ Cardinality(taken) <= Skip(page) + Limit
  BY <1>1, <1>2, PageLies
<1>4. ASSUME came = {}, moved = FALSE, split' = FALSE
      PROVE  /\ repeated' = {}
             /\ seen' \cap Listed \subseteq taken
  <2>1. split = FALSE /\ Apart(skipped)
    BY <1>2, <1>4 DEF TypeOK
  <2>2. PICK D \in SUBSET Task :
           /\ repeated = {} /\ Ahead(D) /\ seen \cap Listed \subseteq D
           /\ Cardinality(D) <= Skip(page)
    BY <1>1, <1>4, <2>1 DEF OffsetInv, Passed
  <2>3. D \subseteq skipped
    <3>1. CASE skipped = Listed
      BY <2>2, <3>1 DEF Ahead
    <3>2. CASE skipped # Listed
      BY <1>3, <2>1, <2>2, <3>2, BeginningsCompare
    <3> QED
      BY <3>1, <3>2
  <2> QED
    BY <1>2, <1>3, <2>2, <2>3 DEF Ahead
<1>5. Ahead(taken)' /\ Passed' = Skip(page) + Limit
  BY <1>1, <1>3 DEF Ahead, tableVars, Passed, Skip
<1> QED
  BY <1>1, <1>3, <1>4, <1>5 DEF OffsetInv

\* Every step keeps the invariant.
LEMMA OffsetStep == TypeOK /\ OffsetInv /\ [Next]_vars => OffsetInv'
<1> SUFFICES ASSUME TypeOK, OffsetInv, [Next]_vars
             PROVE  OffsetInv'
  OBVIOUS
<1>1. CASE Write
  BY <1>1, WritesKeepPassed
<1>2. CASE OffsetData
  BY <1>2, PagesDoNotOverlap
<1>3. CASE OffsetNext \/ OffsetTotal \/ UNCHANGED vars
  <2>1. /\ Listed' = Listed /\ (op = "offset" => Passed' = Passed /\ page' > 0)
        /\ UNCHANGED <<tableVars, op, seen, came, moved, split, repeated>>
    <3>1. CASE OffsetNext
      BY <3>1, SkipNext DEF OffsetNext, OffsetInv, TypeOK, tableVars, historyVars, Listed, Passed
    <3>2. CASE OffsetTotal \/ UNCHANGED vars
      BY <3>2 DEF OffsetTotal, vars, callVars, tableVars, historyVars, Listed, Passed, Skip,
                  OffsetInv
    <3> QED
      BY <1>3, <3>1, <3>2
  <2> QED
    BY <2>1 DEF OffsetInv, Ahead, tableVars
<1>4. ASSUME NEW o \in {"cursor", "dashboard"}, NEW F, NEW S, Begin(o, F, S)
      PROVE  OffsetInv'
  BY <1>4 DEF Begin, OffsetInv
<1>5. ASSUME NEW F, Begin("offset", F, {"data", "count"})
      PROVE  OffsetInv'
  <2>1. /\ page' = 1 /\ "data" \in need' /\ seen' = {} /\ repeated' = {}
    BY <1>5 DEF Begin, TypeOK
  <2>2. Passed' = 0
    BY <2>1, LimitAssumption DEF Passed, Skip
  <2>3. Ahead({})' /\ Cardinality({}) = 0
    BY FS_EmptySet DEF Ahead
  <2> QED
    BY <2>1, <2>2, <2>3 DEF OffsetInv
<1>6. CASE Forget
  BY <1>6 DEF Forget, OffsetInv
<1>7. CASE CursorPage \/ LookUpProject \/ GroupByStatus \/ GroupByPriority
             \/ CountTotal \/ CountOverdue
  BY <1>7 DEF CursorPage, LookUpProject, GroupByStatus, GroupByPriority, CountTotal,
     CountOverdue, Tally, OffsetInv
<1> QED
  BY <1>1, <1>2, <1>3, <1>4, <1>5, <1>6, <1>7 DEF Next

\* An offset scan returns a task twice only if a task joined the list or moved
\* in it meanwhile, or a page began between tied tasks: pages skip by number,
\* and departures only move tasks to numbers that were read already.
THEOREM DeparturesRepeatNothing == Spec => []OffsetRepeatsNeedArrivals
<1>1. Init => OffsetInv
  BY DEF Init, OffsetInv
<1>2. TypeOK /\ OffsetInv => OffsetRepeatsNeedArrivals
  BY DEF TypeOK, OffsetInv, OffsetRepeatsNeedArrivals
<1> QED
  BY <1>1, <1>2, OffsetStep, TypeCorrect, PTL DEF Spec

-----------------------------------------------------------------------------
(* What a page and its total, and a whole offset scan, miss                *)

\* Behind the rows of a page is the list A, behind the total the list B.
PageInv ==
    op = "offset" =>
      /\ page > 0
      /\ \E A, B \in SUBSET Task :
           /\ "data" \notin need =>
                Shot(A) /\ (count["rows"] > 0 => Skip(page) + count["rows"] <= Cardinality(A))
           /\ "count" \notin need =>
                Shot(B) /\ count["total"] = Cardinality(B)

\* While tasks only join, what was not returned is not among the rows passed;
\* after a short page nothing is left.
MissInv ==
    /\ op = "none" => steady = {}
    /\ op = "offset" =>
         /\ page > 0
         /\ steady \subseteq Listed
         /\ left = {} /\ moved = FALSE /\ split = FALSE =>
              \/ "data" \notin need /\ count["rows"] < Limit /\ steady \subseteq seen
              \/ /\ "data" \notin need => count["rows"] >= Limit
                 /\ \E D \in SUBSET Task : /\ Ahead(D) /\ D \cap steady \subseteq seen
                                           /\ Cardinality(D) >= Passed

\* A write turns no earlier list of an offset scan into something else.
LEMMA WritesKeepPages ==
    ASSUME TypeOK, PageInv, Write
    PROVE  PageInv'
<1>1. Observe /\ UNCHANGED callVars
  BY DEF Write, Create, Change, Reschedule, DeleteProject
<1>2. CASE op # "offset"
  BY <1>1, <1>2 DEF PageInv, callVars
<1>3. CASE op = "offset"
  <2>1. PICK A, B \in SUBSET Task :
           /\ "data" \notin need =>
                Shot(A) /\ (count["rows"] > 0 => Skip(page) + count["rows"] <= Cardinality(A))
           /\ "count" \notin need =>
                Shot(B) /\ count["total"] = Cardinality(B)
    BY <1>3 DEF PageInv
  <2>2. /\ came' = came \cup (Listed' \ Listed)
        /\ left' = left \cup (Listed \ Listed')
    BY <1>1, <1>3 DEF Observe
  <2>3. (Shot(A) => Shot(A)') /\ (Shot(B) => Shot(B)')
    BY <2>2 DEF Shot
  <2> QED
    BY <1>1, <1>3, <2>1, <2>3 DEF PageInv, callVars, Skip
<1> QED
  BY <1>2, <1>3

\* The statements of a page record the lists they saw.
LEMMA PagesCount ==
    ASSUME TypeOK, PageInv, OffsetData \/ OffsetTotal
    PROVE  PageInv'
<1>1. /\ op = "offset" /\ page > 0 /\ Listed' = Listed
      /\ UNCHANGED <<op, page, came, left>>
  <2>1. CASE OffsetData
    BY <2>1 DEF PageInv, OffsetData, tableVars, Listed
  <2>2. CASE OffsetTotal
    BY <2>2 DEF PageInv, OffsetTotal, tableVars, historyVars, Listed
  <2> QED
    BY <2>1, <2>2
<1>2. PICK L \in SUBSET Task : L = Listed
  BY DEF Listed
<1>3. Shot(L)
  BY <1>2 DEF Shot
<1>4. \A X : Shot(X) <=> Shot(X)'
  BY <1>1 DEF Shot
<1>5. PICK A, B \in SUBSET Task :
         /\ "data" \notin need =>
              Shot(A) /\ (count["rows"] > 0 => Skip(page) + count["rows"] <= Cardinality(A))
         /\ "count" \notin need =>
              Shot(B) /\ count["total"] = Cardinality(B)
  BY <1>1 DEF PageInv
<1>6. page' = page /\ Skip(page)' = Skip(page) /\ count \in [Counted -> 0 .. N]
  BY <1>1 DEF Skip, TypeOK
<1>7. CASE OffsetData
  <2>1. PICK skipped \in Heads(Skip(page)), taken \in Heads(Skip(page) + Limit) :
           /\ skipped \subseteq taken
           /\ count' = [count EXCEPT !["rows"] = Cardinality(taken \ skipped)]
           /\ need' = need \ {"data"}
    BY <1>7 DEF OffsetData
  <2> DEFINE items == taken \ skipped
  <2>2. /\ Ahead(taken) /\ Cardinality(taken) \in Nat
        /\ Cardinality(skipped) \in Nat
        /\ skipped # Listed => Cardinality(skipped) = Skip(page)
        /\ Cardinality(items) = Cardinality(taken) - Cardinality(skipped)
    BY <1>1, <2>1, PageLies
  <2>3. /\ count'["rows"] = Cardinality(items) /\ count'["total"] = count["total"]
        /\ ("count" \notin need' <=> "count" \notin need) /\ "data" \notin need'
    BY <1>6, <2>1 DEF Counted
  <2>4. Cardinality(items) > 0 => Skip(page) + Cardinality(items) <= Cardinality(L)
    <3> SUFFICES ASSUME Cardinality(items) > 0
                 PROVE  Skip(page) + Cardinality(items) <= Cardinality(L)
      OBVIOUS
    <3>1. items # {}
      BY FS_EmptySet
    <3>2. Cardinality(skipped) = Skip(page)
      BY <2>2, <3>1 DEF Ahead
    <3>3. taken \in SUBSET L /\ IsFiniteSet(L) /\ Cardinality(L) \in Nat
      BY <1>2, <2>2, TasksFinite DEF Ahead
    <3>4. Cardinality(taken) <= Cardinality(L)
      BY <3>3, FS_Subset
    <3> HIDE DEF items
    <3> QED
      BY <2>2, <3>2, <3>3, <3>4
  <2> QED
    BY <1>1, <1>3, <1>4, <1>5, <1>6, <2>3, <2>4 DEF PageInv
<1>8. CASE OffsetTotal
  <2>1. /\ count'["total"] = Cardinality(L) /\ count'["rows"] = count["rows"]
        /\ ("data" \notin need' <=> "data" \notin need) /\ "count" \notin need'
    BY <1>2, <1>6, <1>8 DEF OffsetTotal, Counted
  <2> QED
    BY <1>1, <1>3, <1>4, <1>5, <1>6, <2>1 DEF PageInv
<1> QED
  BY <1>7, <1>8

\* Every step keeps the invariant.
LEMMA PageStepKept == TypeOK /\ PageInv /\ [Next]_vars => PageInv'
<1> SUFFICES ASSUME TypeOK, PageInv, [Next]_vars
             PROVE  PageInv'
  OBVIOUS
<1>1. CASE Write
  BY <1>1, WritesKeepPages
<1>2. CASE OffsetData \/ OffsetTotal
  BY <1>2, PagesCount
<1>3. CASE OffsetNext
  BY <1>3 DEF OffsetNext, PageInv, TypeOK
<1>4. CASE UNCHANGED vars
  <2>1. Listed' = Listed /\ UNCHANGED <<op, page, need, count, came, left>>
    BY <1>4 DEF vars, tableVars, callVars, historyVars, Listed
  <2> QED
    BY <2>1 DEF PageInv, Shot, Skip
<1>5. ASSUME NEW o \in {"cursor", "dashboard"}, NEW F, NEW S, Begin(o, F, S)
      PROVE  PageInv'
  BY <1>5 DEF Begin, PageInv
<1>6. ASSUME NEW F, Begin("offset", F, {"data", "count"})
      PROVE  PageInv'
  BY <1>6 DEF Begin, PageInv
<1>7. CASE Forget
  BY <1>7 DEF Forget, PageInv
<1>8. CASE CursorPage \/ LookUpProject \/ GroupByStatus \/ GroupByPriority
             \/ CountTotal \/ CountOverdue
  BY <1>8 DEF CursorPage, LookUpProject, GroupByStatus, GroupByPriority, CountTotal,
     CountOverdue, Tally, PageInv
<1> QED
  BY <1>1, <1>2, <1>3, <1>4, <1>5, <1>6, <1>7, <1>8 DEF Next

\* A page that has rows ends within the total answered with it, but for the
\* tasks that came or left: findMany and count are two statements.
THEOREM PagesFitTotals == Spec => []PageFitsTotal
<1>1. Init => PageInv
  BY DEF Init, PageInv
<1>2. TypeOK /\ PageInv => PageFitsTotal
  <2> SUFFICES ASSUME TypeOK, PageInv, op = "offset", need = {}, count["rows"] > 0
               PROVE  Skip(page) + count["rows"]
                        <= count["total"] + Cardinality(came \cup left)
    BY DEF PageFitsTotal
  <2>1. PICK A, B \in SUBSET Task :
           /\ Shot(A) /\ Skip(page) + count["rows"] <= Cardinality(A)
           /\ Shot(B) /\ count["total"] = Cardinality(B)
    BY DEF PageInv
  <2> DEFINE drift == came \cup left
  <2>2. A \ B \subseteq drift /\ drift \subseteq Task
    BY <2>1 DEF Shot, TypeOK
  <2>3. count["rows"] \in Nat /\ Skip(page) \in Nat
    BY SkipNext DEF TypeOK, Counted, PageInv
  <2> HIDE DEF drift
  <2>4. Cardinality(A) <= Cardinality(B) + Cardinality(drift)
    BY <2>2, LargerBy
  <2>5. Cardinality(A) \in Nat /\ Cardinality(B) \in Nat /\ Cardinality(drift) \in Nat
    BY <2>2, TasksFinite
  <2>6. Skip(page) + count["rows"] <= Cardinality(B) + Cardinality(drift)
    BY <2>1, <2>3, <2>4, <2>5
  <2> QED
    BY <2>1, <2>6 DEF drift
<1> QED
  BY <1>1, <1>2, PageStepKept, TypeCorrect, PTL DEF Spec

\* A write by which no task leaves or moves keeps unseen tasks ahead: those
\* that join before them are passed with the others.
LEMMA WritesKeepAhead ==
    ASSUME TypeOK, MissInv, Write
    PROVE  MissInv'
<1>1. Observe /\ UNCHANGED <<callVars, split>> /\ Passed' = Passed
  BY DEF Write, Create, Change, Reschedule, DeleteProject, callVars, Passed, Skip
<1>2. CASE op # "offset" \/ ~(left' = {} /\ moved' = FALSE /\ split = FALSE)
  BY <1>1, <1>2 DEF MissInv, Observe, callVars
<1>3. CASE op = "offset" /\ left' = {} /\ moved' = FALSE /\ split = FALSE
  <2>1. left = {} /\ Listed \subseteq Listed' /\ steady' = steady \cap Listed'
    BY <1>1, <1>3 DEF Observe
  <2>2. moved = FALSE /\ \A u \in Listed : place'[u] = place[u]
    BY <1>3, PlacesStay
  <2>3. CASE "data" \notin need /\ count["rows"] < Limit /\ steady \subseteq seen
    BY <1>1, <1>3, <2>1, <2>3 DEF MissInv, callVars
  <2>4. ASSUME "data" \notin need => count["rows"] >= Limit,
               NEW D \in SUBSET Task, Ahead(D), D \cap steady \subseteq seen,
               Cardinality(D) >= Passed
        PROVE  MissInv'
    <3> DEFINE joined == {x \in Listed' \ Listed :
                             \A r \in Listed \ D : place'[x] <= place'[r]}
    <3>1. Listed' \subseteq Task /\ \A x \in Task : place'[x] \in Nat
      BY WritesKeepTypes, PlacesAssumption DEF TypeOK, Listed
    <3>2. ASSUME NEW t \in D \cup joined, NEW u \in Listed' \ (D \cup joined)
          PROVE  place'[t] <= place'[u]
      <4>1. t \in Listed' /\ (t \in joined \/ (t \in D /\ t \in Listed))
        BY <2>1, <2>4 DEF Ahead
      <4>2. CASE u \in Listed
        BY <2>2, <2>4, <3>2, <4>1, <4>2 DEF Ahead
      <4>3. CASE u \notin Listed
        <5>1. PICK r \in Listed \ D : ~(place'[u] <= place'[r])
          BY <3>2, <4>3
        <5>2. place'[t] <= place'[r]
          BY <2>2, <2>4, <4>1, <5>1 DEF Ahead
        <5>3. place'[t] \in Nat /\ place'[u] \in Nat /\ place'[r] \in Nat
          BY <2>1, <3>1, <3>2, <4>1, <5>1
        <5> HIDE DEF joined
        <5> QED
          BY <5>1, <5>2, <5>3
      <4> QED
        BY <4>2, <4>3
    <3>3. PICK H \in SUBSET Task : H = D \cup joined
      BY <3>1
    <3>4. Ahead(H)'
      BY <2>1, <2>4, <3>2, <3>3 DEF Ahead
    <3>5. Cardinality(H) >= Passed
      <4>1. /\ Cardinality(D) <= Cardinality(H)
            /\ Cardinality(D) \in Nat /\ Cardinality(H) \in Nat
        BY <3>3, TasksFinite, FS_Subset
      <4> QED
        BY <1>3, <2>4, <4>1, PassedType DEF MissInv
    <3>6. H \cap steady' \subseteq seen'
      BY <1>1, <1>3, <2>1, <2>4, <3>3 DEF MissInv, callVars
    <3> HIDE DEF joined
    <3>7. \E X \in SUBSET Task : /\ Ahead(X)' /\ X \cap steady' \subseteq seen'
                                 /\ Cardinality(X) >= Passed'
      BY <1>1, <3>4, <3>5, <3>6
    <3> QED
      BY <1>1, <1>3, <2>1, <2>4, <3>7 DEF MissInv, callVars
  <2> QED
    BY <1>3, <2>1, <2>2, <2>3, <2>4 DEF MissInv
<1> QED
  BY <1>2, <1>3

\* A page that begins between no tied tasks leaves nothing out before its
\* end; a short one, nothing at all.
LEMMA PagesTakeAll ==
    ASSUME TypeOK, MissInv, OffsetData
    PROVE  MissInv'
<1>1. /\ op = "offset" /\ "data" \in need /\ page > 0 /\ steady \subseteq Listed
      /\ need' = need \ {"data"} /\ Listed' = Listed
      /\ UNCHANGED <<tableVars, op, page, steady, left, moved>>
  BY DEF OffsetData, MissInv, tableVars, Listed
<1>2. PICK skipped \in Heads(Skip(page)), taken \in Heads(Skip(page) + Limit) :
         /\ skipped \subseteq taken
         /\ seen' = seen \cup (taken \ skipped)
         /\ count' = [count EXCEPT !["rows"] = Cardinality(taken \ skipped)]
         /\ split' = (split \/ ~Apart(skipped))
  BY DEF OffsetData, Return, Apart
<1>3. /\ Ahead(skipped) /\ Cardinality(skipped) \in Nat
      /\ Ahead(taken) /\ Cardinality(taken) \in Nat /\ taken \in SUBSET Task
      /\ Cardinality(skipped) <= Skip(page)
      /\ skipped # Listed => Cardinality(skipped) = Skip(page)
      /\ taken # Listed => Cardinality(taken) = Skip(page) + Limit
      /\ Cardinality(taken \ skipped) = Cardinality(taken) - Cardinality(skipped)
  BY <1>1, <1>2, PageLies
<1>4. count'["rows"] = Cardinality(taken \ skipped)
  BY <1>2 DEF TypeOK, Counted
<1>5. Skip(page) \in Nat /\ Limit \in Nat \ {0}
  BY <1>1, PassedType
<1>6. ASSUME left = {}, moved = FALSE, split' = FALSE
      PROVE  taken \cap steady \subseteq seen'
  <2>1. split = FALSE /\ Apart(skipped)
    BY <1>2, <1>6 DEF TypeOK
  <2>2. PICK D \in SUBSET Task :
           Ahead(D) /\ D \cap steady \subseteq seen /\ Cardinality(D) >= Skip(page)
    BY <1>1, <1>6, <2>1 DEF MissInv, Passed
  <2>3. Cardinality(skipped) <= Cardinality(D)
    BY <1>3, <1>5, <2>2, TasksFinite
  <2>4. skipped \subseteq D
    BY <1>3, <2>1, <2>2, <2>3, BeginningsCompare
  <2> QED
    BY <1>2, <2>2, <2>4
<1>7. ASSUME Cardinality(taken \ skipped) < Limit
      PROVE  taken = Listed
  BY <1>3, <1>5, <1>7
<1>8. ASSUME Cardinality(taken \ skipped) >= Limit
      PROVE  Cardinality(taken) >= Skip(page) + Limit
  <2>1. taken \ skipped # {}
    BY <1>5, <1>8, FS_EmptySet
  <2>2. Cardinality(skipped) = Skip(page)
    BY <1>3, <2>1 DEF Ahead
  <2> QED
    BY <1>3, <1>5, <1>8, <2>2
<1>9. Ahead(taken)' /\ Passed' = Skip(page) + Limit
  BY <1>1, <1>3 DEF Ahead, tableVars, Passed, Skip
<1>10. count'["rows"] < Limit \/ count'["rows"] >= Limit
  BY <1>3, <1>4, <1>5
<1>11. CASE count'["rows"] < Limit
  BY <1>1, <1>3, <1>4, <1>6, <1>7, <1>11 DEF MissInv
<1>12. CASE count'["rows"] >= Limit
  BY <1>1, <1>3, <1>4, <1>6, <1>8, <1>9, <1>12 DEF MissInv
<1> QED
  BY <1>10, <1>11, <1>12

\* Every step keeps the invariant.
LEMMA MissStep == TypeOK /\ MissInv /\ [Next]_vars => MissInv'
<1> SUFFICES ASSUME TypeOK, MissInv, [Next]_vars
             PROVE  MissInv'
  OBVIOUS
<1>1. CASE Write
  BY <1>1, WritesKeepAhead
<1>2. CASE OffsetData
  BY <1>2, PagesTakeAll
<1>3. CASE OffsetNext
  <2>1. /\ op = "offset" /\ need = {} /\ count["rows"] = Limit /\ "data" \in need'
        /\ Listed' = Listed
        /\ UNCHANGED <<tableVars, op, seen, steady, left, moved, split>>
    BY <1>3 DEF OffsetNext, tableVars, historyVars, Listed
  <2>2. Passed' = Passed /\ page' > 0
    BY <1>3, <2>1, SkipNext DEF OffsetNext, MissInv, TypeOK, Passed
  <2>3. ~(count["rows"] < Limit)
    BY <2>1, LimitAssumption
  <2> QED
    BY <2>1, <2>2, <2>3 DEF MissInv, Ahead, tableVars
<1>4. CASE OffsetTotal \/ UNCHANGED vars
  <2>1. /\ Listed' = Listed /\ ("data" \in need' <=> "data" \in need)
        /\ count'["rows"] = count["rows"] /\ Passed' = Passed
        /\ UNCHANGED <<tableVars, op, seen, steady, left, moved, split, page>>
    BY <1>4 DEF OffsetTotal, vars, callVars, tableVars, historyVars, Listed, TypeOK, Counted,
                Passed, Skip
  <2> QED
    BY <2>1 DEF MissInv, Ahead, tableVars
<1>5. ASSUME NEW o \in {"cursor", "dashboard"}, NEW F, NEW S, Begin(o, F, S)
      PROVE  MissInv'
  BY <1>5 DEF Begin, MissInv
<1>6. ASSUME NEW F, Begin("offset", F, {"data", "count"})
      PROVE  MissInv'
  <2>1. /\ op' = "offset" /\ page' = 1 /\ need' = {"data", "count"} /\ steady' = Listed'
    BY <1>6 DEF Begin
  <2>2. Passed' = 0
    BY <2>1, LimitAssumption DEF Passed, Skip
  <2>3. Ahead({})' /\ Cardinality({}) = 0
    BY FS_EmptySet DEF Ahead
  <2> QED
    BY <2>1, <2>2, <2>3 DEF MissInv
<1>7. CASE Forget
  BY <1>7 DEF Forget, MissInv
<1>8. CASE CursorPage \/ LookUpProject \/ GroupByStatus \/ GroupByPriority
             \/ CountTotal \/ CountOverdue
  BY <1>8 DEF CursorPage, LookUpProject, GroupByStatus, GroupByPriority, CountTotal,
     CountOverdue, Tally, historyVars, MissInv
<1> QED
  BY <1>1, <1>2, <1>3, <1>4, <1>5, <1>6, <1>7, <1>8 DEF Next

\* An offset scan that ended with a short page has missed a task that was
\* listed all the time only if a task left the list or moved in it, or a page
\* began between tied tasks.
THEOREM ArrivalsHideNothing == Spec => []OffsetMissesNeedDepartures
<1>1. Init => MissInv
  BY DEF Init, MissInv
<1>2. TypeOK /\ MissInv => OffsetMissesNeedDepartures
  <2> SUFFICES ASSUME TypeOK, MissInv, op = "offset", need = {}, count["rows"] < Limit,
                      ~(steady \subseteq seen)
               PROVE  left # {} \/ moved \/ split
    BY DEF OffsetMissesNeedDepartures
  <2>1. ~(count["rows"] >= Limit)
    BY LimitAssumption DEF TypeOK, Counted
  <2> QED
    BY <2>1 DEF TypeOK, MissInv
<1> QED
  BY <1>1, <1>2, MissStep, TypeCorrect, PTL DEF Spec

-----------------------------------------------------------------------------
(* What a cursor scan misses                                               *)

\* What the scan can no longer return: unseen tasks up to the cursor, and
\* every unseen task once the scan is over.
Missed == {t \in steady \ seen : need # {} => t <= cursor}

\* Each missed task has a stale cursor of its own.
StaleInv ==
    /\ op = "none" => steady = {} /\ stale = {}
    /\ op = "cursor" =>
         /\ need \in {{}, {"page"}}
         /\ steady \subseteq Listed
         /\ Cardinality(Missed) <= Cardinality(stale)
         /\ need # {} => \A c \in stale : c < cursor

\* A page adds at most one missed task, and only with a stale cursor.
LEMMA StalePage ==
    ASSUME TypeOK, StaleInv, CursorPage
    PROVE  StaleInv'
<1> DEFINE from == {t \in Listed : t >= cursor}
           rows == CursorRows
           items == Leading(rows, Limit)
           skipped == IF cursor = 0 \/ cursor \in Listed THEN {} ELSE First(from)
<1>1. /\ op = "cursor" /\ need = {"page"} /\ seen' = seen \cup items
      /\ cursor' \in NextCursor(rows, items)
      /\ need' = IF rows = items THEN {} ELSE {"page"}
      /\ stale' = IF cursor \in Listed \cup {0} THEN stale ELSE stale \cup {cursor}
      /\ UNCHANGED <<op, steady>> /\ Listed' = Listed
  BY DEF CursorPage, Return, tableVars, Listed
<1>2. /\ items \subseteq rows /\ rows \subseteq from /\ from \subseteq Listed
      /\ Listed \subseteq Task /\ Task \subseteq Nat \ {0}
  BY NAssumption DEF Leading, CursorRows, Listed, Task
<1>3. ASSUME NEW t \in from, t # cursor
      PROVE  t \in rows \/ t \in skipped
  <2>1. CASE cursor \in Listed
    <3>1. cursor \in from
      BY <1>2, <2>1
    <3>2. t > cursor
      BY <1>2, <1>3, <2>1
    <3> HIDE DEF from
    <3>3. t \notin First(from)
      BY <1>2, <3>1, <3>2 DEF First
    <3> QED
      BY <1>3, <3>3 DEF CursorRows, from
  <2> QED
    BY <2>1 DEF CursorRows
<1>4. ASSUME NEW t \in rows \ items, NEW u \in items
      PROVE  t > u
  <2> DEFINE before(x) == {w \in rows : w < x}
  <2>1. \A x : before(x) \subseteq Task /\ Cardinality(before(x)) \in Nat
    BY <1>2, TasksFinite
  <2>2. Cardinality(before(t)) >= Limit /\ Cardinality(before(u)) < Limit
    BY <1>4, <2>1, LimitAssumption DEF Leading
  <2> HIDE DEF rows, items, from, skipped
  <2>3. t \in Nat /\ u \in Nat /\ t # u /\ rows \subseteq Nat
    BY <1>2, <1>4
  <2>4. SUFFICES ASSUME t < u PROVE FALSE
    BY <2>3
  <2>5. before(t) \subseteq before(u)
    <3> SUFFICES ASSUME NEW w \in rows, w < t PROVE w < u
      OBVIOUS
    <3> QED
      BY <2>3, <2>4
  <2> HIDE DEF before
  <2>6. Cardinality(before(t)) <= Cardinality(before(u))
    BY <2>1, <2>5, TasksFinite, FS_Subset
  <2> QED
    BY <2>1, <2>2, <2>6, LimitAssumption
<1>5. Cardinality(skipped) <= 1 /\ skipped \subseteq Task
  <2>1. \A t, u \in skipped : t <= u /\ u <= t
    BY <1>2 DEF First
  <2>2. skipped \subseteq Task
    BY <1>2 DEF First
  <2> HIDE DEF skipped
  <2>3. CASE skipped = {}
    BY <2>3, FS_EmptySet
  <2>4. CASE skipped # {}
    <3>1. PICK t \in skipped : TRUE
      BY <2>4
    <3>2. \A u \in skipped : u \in Nat /\ t \in Nat /\ u <= t /\ t <= u
      BY <1>2, <2>1, <2>2, <3>1
    <3>3. skipped = {t}
      BY <3>1, <3>2
    <3>4. Cardinality({t}) = 1
      BY FS_Singleton
    <3> QED
      BY <2>2, <3>3, <3>4
  <2> QED
    BY <2>3, <2>4
<1>6. cursor \in Nat /\ steady \subseteq Listed /\ Missed \subseteq Task /\ stale \subseteq Task
  BY <1>1, NAssumption DEF TypeOK, StaleInv, Missed
<1>7. ASSUME rows # items
      PROVE  cursor' \in items /\ \A u \in items : u <= cursor'
  BY <1>1, <1>7 DEF NextCursor, Last
<1> HIDE DEF rows, items, skipped
<1>8. Missed' \subseteq Missed \cup skipped
  <2> SUFFICES ASSUME NEW t \in steady, t \notin seen, t \notin items,
                      need' # {} => t <= cursor', t \notin skipped, t > cursor
               PROVE  FALSE
    <3>1. \A t \in steady : t \in Nat /\ (t <= cursor \/ t > cursor)
      BY <1>2, <1>6
    <3> QED
      BY <1>1, <3>1 DEF Missed
  <2>1. t \in rows \ items
    <3>1. t \in from /\ t # cursor
      BY <1>2, <1>6
    <3> QED
      BY <1>3, <3>1
  <2>2. rows # items /\ need' # {}
    BY <1>1, <2>1
  <2>3. t > cursor' /\ t <= cursor'
    BY <1>4, <1>7, <2>1, <2>2
  <2>4. t \in Nat /\ cursor' \in Nat
    BY <1>2, <1>7, <2>1, <2>2
  <2> QED
    BY <2>3, <2>4
<1>9. Cardinality(Missed') <= Cardinality(stale')
  <2>0. /\ Missed' \subseteq Task
        /\ Cardinality(Missed) <= Cardinality(stale)
    BY <1>1, <1>6, <1>8, <1>5 DEF StaleInv
  <2>1. CASE cursor = 0 \/ cursor \in Listed
    <3>1. Missed' \subseteq Missed /\ stale' = stale
      BY <1>1, <1>8, <2>1 DEF skipped
    <3>2. Cardinality(Missed') <= Cardinality(Missed)
      BY <1>6, <3>1, TasksFinite, FS_Subset
    <3> QED
      BY <1>6, <2>0, <3>1, <3>2, TasksFinite
  <2>2. CASE cursor # 0 /\ cursor \notin Listed
    <3>1. stale' = stale \cup {cursor} /\ cursor \notin stale
      BY <1>1, <1>6, <2>2 DEF StaleInv
    <3>2. Cardinality(stale') = Cardinality(stale) + 1
      BY <1>6, <3>1, TasksFinite, FS_AddElement
    <3> HIDE DEF skipped
    <3>3. Cardinality(Missed') <= Cardinality(Missed) + Cardinality(skipped)
      BY <1>5, <1>6, <1>8, <2>0, LargerBy
    <3> QED
      BY <1>5, <1>6, <2>0, <3>2, <3>3, TasksFinite
  <2> QED
    BY <2>1, <2>2
<1>10. ASSUME need' # {}
       PROVE  \A c \in stale' : c < cursor'
  <2>1. cursor' \in rows /\ cursor' \in Nat
    BY <1>1, <1>2, <1>7, <1>10
  <2>2. cursor # 0 => cursor' > cursor
    BY <1>6, <2>1, RowsFollowCursor DEF rows
  <2>3. \A c \in stale : c < cursor /\ c \in Nat \ {0}
    BY <1>1, <1>2, <1>6 DEF StaleInv
  <2> QED
    BY <1>1, <1>6, <2>1, <2>2, <2>3
<1> HIDE DEF from, rows, items, skipped
<1> QED
  BY <1>1, <1>6, <1>9, <1>10 DEF StaleInv

\* Every step keeps the invariant.
LEMMA StaleStep == TypeOK /\ StaleInv /\ [Next]_vars => StaleInv'
<1> SUFFICES ASSUME TypeOK, StaleInv, [Next]_vars
             PROVE  StaleInv'
  OBVIOUS
<1>1. CASE Write \/ UNCHANGED vars
  <2>1. UNCHANGED <<callVars, stale>> /\ steady' \subseteq steady
        /\ (steady \subseteq Listed => steady' \subseteq Listed')
    BY <1>1 DEF Write, Create, Change, Reschedule, DeleteProject, Observe, vars, tableVars,
       callVars, historyVars, Listed
  <2>2. Missed' \subseteq Missed /\ Missed \subseteq Task /\ Missed' \subseteq Task
    BY <2>1 DEF Missed, callVars, TypeOK
  <2>3. Cardinality(Missed') <= Cardinality(Missed)
    BY <2>2, TasksFinite, FS_Subset
  <2>4. /\ Cardinality(Missed) \in Nat /\ Cardinality(Missed') \in Nat
        /\ Cardinality(stale) \in Nat
    BY <2>2, TasksFinite DEF TypeOK
  <2> QED
    BY <2>1, <2>3, <2>4 DEF StaleInv, callVars
<1>2. CASE CursorPage
  BY <1>2, StalePage
<1>3. ASSUME NEW F, Begin("cursor", F, {"page"})
      PROVE  StaleInv'
  <2>1. /\ op' = "cursor" /\ need' = {"page"} /\ steady' = Listed' /\ cursor' = 0
        /\ stale' = {} /\ seen' = {}
    BY <1>3 DEF Begin, TypeOK, StaleInv
  <2>2. Missed' = {}
    BY <2>1, NAssumption DEF Missed, Listed, Task
  <2> QED
    BY <2>1, <2>2, FS_EmptySet DEF StaleInv
<1>4. ASSUME NEW o \in {"offset", "dashboard"}, NEW F, NEW S, Begin(o, F, S)
      PROVE  StaleInv'
  BY <1>4 DEF Begin, StaleInv
<1>5. CASE Forget
  BY <1>5 DEF Forget, StaleInv
<1>6. CASE OffsetData \/ OffsetTotal \/ OffsetNext \/ LookUpProject \/ GroupByStatus
             \/ GroupByPriority \/ CountTotal \/ CountOverdue
  BY <1>6 DEF OffsetData, OffsetTotal, OffsetNext, LookUpProject, GroupByStatus,
     GroupByPriority, CountTotal, CountOverdue, Tally, StaleInv
<1> QED
  BY <1>1, <1>2, <1>3, <1>4, <1>5, <1>6 DEF Next

\* A finished cursor scan has missed at most one steady task for each cursor
\* whose own task had left the list when `skip: 1' was applied to it.
THEOREM MissesHaveStaleCursors == Spec => []CursorMissesOnePerStaleCursor
<1>1. Init => StaleInv
  BY DEF Init, StaleInv
<1>2. StaleInv => CursorMissesOnePerStaleCursor
  <2> SUFFICES ASSUME StaleInv, op = "cursor", need = {}
               PROVE  Cardinality(steady \ seen) <= Cardinality(stale)
    BY DEF CursorMissesOnePerStaleCursor
  <2>1. Missed = steady \ seen
    BY DEF Missed
  <2> QED
    BY <2>1 DEF StaleInv
<1> QED
  BY <1>1, <1>2, StaleStep, TypeCorrect, PTL DEF Spec

-----------------------------------------------------------------------------
(* What a quiet scan returns                                               *)

\* What an offset scan can meet: tasks that were listed all the time, or came,
\* or left.
MetInv ==
    /\ op = "none" => seen = {} /\ repeated = {}
    /\ op = "offset" =>
         /\ steady \subseteq Listed
         /\ Listed \cup seen \subseteq steady \cup came \cup left

\* While the list is quiet a finished offset scan none of whose pages began
\* between tied tasks has returned exactly the list, and a finished cursor
\* scan whose cursors stayed listed has returned whatever was listed all the
\* time; each task once.
QuietScansAreExact ==
    /\ (op = "offset" /\ need = {} /\ count["rows"] < Limit /\ came = {} /\ left = {}
         /\ ~moved /\ ~split)
         => seen = Listed /\ repeated = {}
    /\ (op = "cursor" /\ need = {} /\ stale = {})
         => steady \subseteq seen /\ repeated = {}

\* Every step keeps the invariant.
LEMMA MetStep == MetInv /\ [Next]_vars => MetInv'
<1> SUFFICES ASSUME MetInv, [Next]_vars
             PROVE  MetInv'
  OBVIOUS
<1>1. CASE Write
  <2>1. UNCHANGED <<op, seen, repeated>> /\ Observe
    BY <1>1 DEF Write, Create, Change, Reschedule, DeleteProject, callVars
  <2> QED
    BY <2>1 DEF Observe, MetInv
<1>2. CASE OffsetData
  <2>1. /\ op = "offset" /\ seen' \subseteq seen \cup Listed
        /\ Listed' = Listed /\ UNCHANGED <<op, steady, came, left>>
    BY <1>2 DEF OffsetData, Return, Heads, Listed, tableVars
  <2> QED
    BY <2>1 DEF MetInv
<1>3. CASE OffsetTotal \/ OffsetNext \/ UNCHANGED vars
  <2>1. Listed' = Listed /\ UNCHANGED <<op, seen, repeated, steady, came, left>>
    BY <1>3 DEF OffsetTotal, OffsetNext, vars, callVars, tableVars, historyVars, Listed
  <2> QED
    BY <2>1 DEF MetInv
<1>4. ASSUME NEW o \in {"cursor", "offset", "dashboard"}, NEW F, NEW S, Begin(o, F, S)
      PROVE  MetInv'
  BY <1>4 DEF Begin, MetInv
<1>5. CASE Forget
  BY <1>5 DEF Forget, MetInv
<1>6. CASE CursorPage \/ LookUpProject \/ GroupByStatus \/ GroupByPriority
             \/ CountTotal \/ CountOverdue
  BY <1>6 DEF CursorPage, LookUpProject, GroupByStatus, GroupByPriority, CountTotal,
     CountOverdue, Tally, MetInv
<1> QED
  BY <1>1, <1>2, <1>3, <1>4, <1>5, <1>6 DEF Next

\* What the four results above come to when nothing interferes: GET /tasks
\* pages through the whole list, each task once, for every list and page size
\* - by offset only if no page begins between tasks tied in due date and
\* creation time, which findManyOffset orders by and nothing else.
THEOREM QuietScans == Spec => []QuietScansAreExact
<1>1. Init => MetInv
  BY DEF Init, MetInv
<1>2. /\ TypeOK /\ MetInv /\ CursorNeverRepeats /\ CursorMissesOnePerStaleCursor
      /\ OffsetRepeatsNeedArrivals /\ OffsetMissesNeedDepartures
      => QuietScansAreExact
  <2> SUFFICES ASSUME TypeOK, MetInv, CursorNeverRepeats, CursorMissesOnePerStaleCursor,
                      OffsetRepeatsNeedArrivals, OffsetMissesNeedDepartures
               PROVE  QuietScansAreExact
    OBVIOUS
  <2>1. ASSUME op = "offset", need = {}, count["rows"] < Limit, came = {}, left = {}, ~moved,
               ~split
        PROVE  seen = Listed /\ repeated = {}
    BY <2>1 DEF MetInv, OffsetRepeatsNeedArrivals, OffsetMissesNeedDepartures
  <2>2. ASSUME op = "cursor", need = {}, stale = {}
        PROVE  steady \subseteq seen
    <3>1. Cardinality(steady \ seen) <= 0
      BY <2>2, FS_EmptySet DEF CursorMissesOnePerStaleCursor
    <3>2. IsFiniteSet(steady \ seen) /\ Cardinality(steady \ seen) \in Nat
      BY TasksFinite DEF TypeOK
    <3>3. Cardinality(steady \ seen) = 0
      BY <3>1, <3>2
    <3> QED
      BY <3>2, <3>3, FS_EmptySet
  <2> QED
    BY <2>1, <2>2 DEF QuietScansAreExact, CursorNeverRepeats
<1> QED
  BY <1>1, <1>2, MetStep, TypeCorrect, ScansNeverRepeat, MissesHaveStaleCursors,
     DeparturesRepeatNothing, ArrivalsHideNothing, PTL DEF Spec
=============================================================================
