------------------------ MODULE NotificationsProofs ------------------------
(***************************************************************************)
(* Proofs about Notifications, for any tasks, users, rows and requests,    *)
(* any number of attempts and stalls, and any length of a window.          *)
(***************************************************************************)
EXTENDS Notifications, TLAPS

USE AttemptsAssumption, BoundsAssumption, NoRowAssumption, WindowAssumption

\* A job that can still run has attempts left and may stall; only a job that
\* used its attempts up occupies the listener or the dead-letter queue, and
\* the listener settles rows only after it copied the job.
JobInv ==
    \A k \in Key :
        /\ job[k] = "absent" => fails[k] = 0 /\ stalls[k] = 0 /\ mails[k] = 0
        /\ job[k] # "failed" => fails[k] < Attempts
        /\ job[k] \notin {"failed", "stalled"} => stalls[k] <= MaxStalls
        /\ stalls[k] <= MaxStalls + 1
        /\ failed[k] # "none" \/ k \in dlq => job[k] = "failed" /\ fails[k] = Attempts
        /\ failed[k] \in {"outbox", "done"} => k \in dlq
        /\ job[k] = "failed" /\ failed[k] = "none" => stalls[k] > MaxStalls /\ fails[k] < Attempts

\* Each run sends at most one mail, and each run that is over has cost an
\* attempt or a stall.
MailInv ==
    \A k \in Key :
        /\ job[k] \in {"waiting", "delayed", "sending", "stalled"} =>
             mails[k] <= fails[k] + stalls[k]
        /\ job[k] \in {"sent", "marked", "completed"} =>
             mails[k] \in 1 .. fails[k] + stalls[k] + 1
        /\ job[k] = "failed" => mails[k] <= Attempts + MaxStalls

\* A request works for a committed row and adds the job of that row.
RequestInv ==
    /\ \A o \in Row : status[o] # "absent" => about[o] \in Pair
    /\ \A r \in Req : pc[r] # "idle" => mine[r] \in Row /\ status[mine[r]] # "absent"
    /\ \A r \in Req : pc[r] = "add" => key[r] \in Key /\ PairOf(key[r]) = about[mine[r]]

IInv == TypeOK /\ JobInv /\ MailInv /\ RequestInv

-----------------------------------------------------------------------------
\* Initially there are no rows and no jobs.
LEMMA InitIInv == Init => IInv
<1> SUFFICES ASSUME Init PROVE IInv
  OBVIOUS
<1>1. TypeOK
  BY DEF Init, TypeOK, JobState
<1>2. JobInv /\ MailInv /\ RequestInv
  BY DEF Init, JobInv, MailInv, RequestInv
<1>3. QED
  BY <1>1, <1>2 DEF IInv

\* Requests keep the invariant.
LEMMA RequestStep ==
    ASSUME IInv, NEW r \in Req, Request(r)
    PROVE  IInv'
<1> USE DEF IInv, TypeOK, JobInv, MailInv, RequestInv, JobState, Active, Settled,
            outboxVars, jobVars, listenerVars, worldVars
<1>1. ASSUME NEW o \in Row, NEW p \in Pair, AssignCommit(r, o, p)
      PROVE  IInv'
  BY <1>1 DEF AssignCommit
<1>2. ASSUME Enqueue(r)
      PROVE  IInv'
  <2> DEFINE k == [task |-> about[mine[r]].task, user |-> about[mine[r]].user,
                   window |-> WindowOf(clock)]
  <2>1. about[mine[r]] \in Pair
    BY <1>2 DEF Enqueue
  <2>2. k \in Key /\ PairOf(k) = about[mine[r]]
    BY <2>1 DEF Key, Pair, PairOf, Window
  <2>3. key' = [key EXCEPT ![r] = k] /\ pc' = [pc EXCEPT ![r] = "add"] /\ pc[r] = "enqueue"
    BY <1>2 DEF Enqueue
  <2> HIDE DEF k
  <2>4. QED
    BY <1>2, <2>2, <2>3 DEF Enqueue
<1>3. ASSUME Add(r)
      PROVE  IInv'
  BY <1>3 DEF Add, Forget
<1>4. ASSUME AddRejected(r) \/ AssignDies(r)
      PROVE  IInv'
  BY <1>4 DEF AddRejected, AssignDies, Forget
<1>5. QED
  BY <1>1, <1>2, <1>3, <1>4 DEF Request, Follow

\* So do the worker, the queue and the listener.
LEMMA WorkerStep ==
    ASSUME IInv, NEW k \in Key, Process(k) \/ Queue(k) \/ Listener(k)
    PROVE  IInv'
<1> USE DEF IInv, TypeOK, JobInv, MailInv, RequestInv, JobState, Active, Settled, Move,
            outboxVars, reqVars, jobVars, listenerVars, worldVars
<1>1. ASSUME Pickup(k) \/ Complete(k) \/ BackoffOver(k) \/ StallCheck(k)
      PROVE  IInv'
  BY <1>1 DEF Pickup, Complete, BackoffOver, StallCheck
<1>2. ASSUME SendMail(k)
      PROVE  IInv'
  BY <1>2 DEF SendMail
<1>3. ASSUME MarkDispatched(k)
      PROVE  IInv'
  BY <1>3 DEF MarkDispatched, SettleRows
<1>4. ASSUME AttemptFails(k)
      PROVE  IInv'
  <2>1. CASE fails[k] + 1 < Attempts
    <3>1. /\ job' = [job EXCEPT ![k] = "delayed"]
          /\ failed' = failed
      BY <1>4, <2>1 DEF AttemptFails, CountFailure
    <3>2. QED
      BY <1>4, <2>1, <3>1 DEF AttemptFails, CountFailure
  <2>2. CASE ~(fails[k] + 1 < Attempts)
    <3>1. fails[k] + 1 = Attempts
      BY <1>4, <2>2 DEF AttemptFails
    <3>2. mails[k] <= Attempts + MaxStalls
      BY <1>4, <3>1 DEF AttemptFails
    <3>3. /\ job' = [job EXCEPT ![k] = "failed"]
          /\ fails' = [fails EXCEPT ![k] = Attempts]
          /\ failed' = [failed EXCEPT ![k] = "dlq"]
      <4>1. ~(fails[k] + 1 < Attempts) /\ fails[k] + 1 >= Attempts
        BY <3>1
      <4>2. /\ job' = [job EXCEPT ![k] = "failed"]
            /\ failed' = [failed EXCEPT ![k] = "dlq"]
        BY <1>4, <4>1 DEF AttemptFails, CountFailure
      <4>3. fails' = [fails EXCEPT ![k] = fails[k] + 1]
        BY <1>4 DEF AttemptFails, CountFailure
      <4>4. QED
        BY <4>2, <4>3, <3>1
    <3>4. QED
      BY <1>4, <3>1, <3>2, <3>3, SMTT(60) DEF AttemptFails
  <2>3. QED
    BY <2>1, <2>2
<1>5. ASSUME StallLimit(k)
      PROVE  IInv'
  <2>1. mails[k] <= Attempts + MaxStalls /\ failed[k] = "none" /\ k \notin dlq
    BY <1>5 DEF StallLimit
  <2>2. CASE fails[k] + 1 >= Attempts
    <3>1. /\ fails' = [fails EXCEPT ![k] = Attempts]
          /\ failed' = [failed EXCEPT ![k] = "dlq"]
      <4>1. fails[k] + 1 = Attempts
        BY <1>5, <2>2 DEF StallLimit
      <4>2. QED
        BY <1>5, <2>2, <4>1, Zenon DEF StallLimit
    <3>2. QED
      BY <1>5, <2>1, <3>1 DEF StallLimit
  <2>3. CASE ~(fails[k] + 1 >= Attempts)
    BY <1>5, <2>1, <2>3 DEF StallLimit
  <2>4. QED
    BY <2>2, <2>3
<1>6. ASSUME DlqAdd(k) \/ ListenerGivesUp(k)
      PROVE  IInv'
  BY <1>6 DEF DlqAdd, ListenerGivesUp
<1>7. ASSUME MarkFailed(k)
      PROVE  IInv'
  BY <1>7 DEF MarkFailed, SettleRows, RowsOfTask
<1>8. QED
  BY <1>1, <1>2, <1>3, <1>4, <1>5, <1>6, <1>7 DEF Process, Queue, Listener

\* So do crashes, outages and time.
LEMMA FaultStep ==
    ASSUME IInv, Fault
    PROVE  IInv'
<1> USE DEF IInv, TypeOK, JobInv, MailInv, RequestInv, JobState, Active, Settled,
            outboxVars, reqVars, jobVars, listenerVars
<1>1. ASSUME WorkerDies
      PROVE  IInv'
  BY <1>1 DEF WorkerDies, WorkerEnds
<1>2. ASSUME RedisFails \/ RedisRecovers
      PROVE  IInv'
  BY <1>2 DEF RedisFails, RedisRecovers
<1>3. ASSUME Tick
      PROVE  IInv'
  BY <1>3 DEF Tick
<1>4. ASSUME WorkerSignalled \/ WorkerExits
      PROVE  IInv'
  BY <1>4 DEF WorkerSignalled, WorkerExits, WorkerEnds
<1>5. QED
  BY <1>1, <1>2, <1>3, <1>4 DEF Fault

\* The invariant holds in every reachable state.
THEOREM Invariance == Spec => []IInv
<1>1. IInv /\ [Next]_vars => IInv'
  <2> SUFFICES ASSUME IInv, [Next]_vars
               PROVE  IInv'
    OBVIOUS
  <2>1. CASE UNCHANGED vars
    BY <2>1 DEF vars, IInv, TypeOK, JobInv, MailInv, RequestInv, outboxVars, reqVars,
                jobVars, listenerVars, worldVars
  <2>2. QED
    BY <2>1, RequestStep, WorkerStep, FaultStep DEF Next
<1>2. QED
  BY <1>1, InitIInv, PTL DEF Spec

\* A mail is repeated at most as often as attempts and stalls allow.
THEOREM MailsAreBounded == Spec => []MailsBounded
<1>1. IInv => MailsBounded
  BY DEF IInv, TypeOK, JobInv, MailInv, MailsBounded, JobState, Active, Settled
<1>2. QED
  BY <1>1, Invariance, PTL

\* The dead-letter queue holds jobs without attempts left, and nothing else.
THEOREM DeadLettersAreExhausted == Spec => []DlqHoldsExhausted
<1>1. IInv => DlqHoldsExhausted
  BY DEF IInv, TypeOK, JobInv, DlqHoldsExhausted
<1>2. QED
  BY <1>1, Invariance, PTL

\* A job that failed for good is copied to the dead-letter queue unless the
\* listener is cut off or the job stalled out early.
THEOREM DeadLettersAreAccountedFor == Spec => []MissingDeadLettersExplained
<1>1. IInv => MissingDeadLettersExplained
  BY DEF IInv, TypeOK, JobInv, MissingDeadLettersExplained
<1>2. QED
  BY <1>1, Invariance, PTL

\* Every job in the queue stems from a committed assignment of its task to
\* its user.
THEOREM NoPhantoms == Spec => []NoPhantom
<1>1. Init => NoPhantom
  BY DEF Init, NoPhantom
<1>2. IInv /\ NoPhantom /\ [Next]_vars => NoPhantom'
  <2> SUFFICES ASSUME IInv, NoPhantom, [Next]_vars
               PROVE  NoPhantom'
    OBVIOUS
  <2> USE DEF IInv, TypeOK, RequestInv, NoPhantom, JobState, Active, Settled, Move,
              outboxVars, reqVars, jobVars, listenerVars, worldVars
  <2>1. ASSUME NEW r \in Req, NEW o \in Row, NEW p \in Pair, AssignCommit(r, o, p)
        PROVE  NoPhantom'
    <3>1. \A q \in Row : status[q] # "absent" => status'[q] # "absent" /\ about'[q] = about[q]
      BY <2>1 DEF AssignCommit
    <3>2. job' = job
      BY <2>1 DEF AssignCommit
    <3>3. QED
      BY <3>1, <3>2
  <2>2. ASSUME NEW r \in Req, Enqueue(r) \/ AddRejected(r) \/ AssignDies(r)
        PROVE  NoPhantom'
    BY <2>2 DEF Enqueue, AddRejected, AssignDies
  <2>3. ASSUME NEW r \in Req, Add(r)
        PROVE  NoPhantom'
    BY <2>3 DEF Add
  <2>4. ASSUME NEW k \in Key, Process(k) \/ Queue(k) \/ Listener(k)
        PROVE  NoPhantom'
    <3>1. \A j \in Key : job'[j] # "absent" => job[j] # "absent"
      BY <2>4 DEF Process, Queue, Listener, Pickup, SendMail, MarkDispatched, Complete,
                  AttemptFails, CountFailure, BackoffOver, StallCheck, StallLimit,
                  DlqAdd, MarkFailed, ListenerGivesUp
    <3>2. about' = about /\ \A o \in Row : status[o] # "absent" => status'[o] # "absent"
      BY <2>4 DEF Process, Queue, Listener, Pickup, SendMail, MarkDispatched, Complete,
                  AttemptFails, BackoffOver, StallCheck, StallLimit,
                  DlqAdd, MarkFailed, ListenerGivesUp, SettleRows
    <3>3. QED
      BY <3>1, <3>2
  <2>5. ASSUME Fault \/ UNCHANGED vars
        PROVE  NoPhantom'
    BY <2>5 DEF Fault, WorkerDies, WorkerSignalled, WorkerExits, RedisFails, RedisRecovers, Tick, vars
  <2>6. QED
    BY <2>1, <2>2, <2>3, <2>4, <2>5 DEF Next, Request, Follow
<1>3. QED
  BY <1>1, <1>2, Invariance, PTL DEF Spec

\* The tables, the queue and the requests keep their types.
THEOREM TypeCorrect == Spec => []TypeOK
<1>1. IInv => TypeOK
  BY DEF IInv
<1>2. QED
  BY <1>1, Invariance, PTL

\* What the rows of the outbox say of their tasks: jobs only gain mails, and
\* the dead-letter queue only grows.
LEMMA EvidenceGrows ==
    ASSUME IInv, [Next]_vars
    PROVE  /\ \A k \in Key : mails'[k] >= mails[k]
           /\ dlq \subseteq dlq'
           /\ \A o \in Row : status[o] # "absent" => about'[o] = about[o]
<1> USE DEF IInv, TypeOK, outboxVars, reqVars, jobVars, listenerVars, worldVars
<1>1. ASSUME NEW r \in Req, Request(r)
      PROVE  /\ UNCHANGED <<mails, dlq>>
             /\ \A o \in Row : status[o] # "absent" => about'[o] = about[o]
  BY <1>1 DEF Request, Follow, AssignCommit, Enqueue, Add, AddRejected, AssignDies
<1>2. ASSUME NEW k \in Key, Process(k) \/ Queue(k) \/ Listener(k)
      PROVE  /\ \A j \in Key : mails'[j] >= mails[j]
             /\ dlq \subseteq dlq'
             /\ about' = about
  BY <1>2 DEF Process, Queue, Listener, Pickup, SendMail, MarkDispatched, Complete,
              AttemptFails, BackoffOver, StallCheck, StallLimit, DlqAdd, MarkFailed,
              ListenerGivesUp
<1>3. ASSUME Fault \/ UNCHANGED vars
      PROVE  UNCHANGED <<mails, dlq, about>>
  BY <1>3 DEF Fault, WorkerDies, WorkerSignalled, WorkerExits, RedisFails,
              RedisRecovers, Tick, vars
<1>4. QED
  BY <1>1, <1>2, <1>3 DEF Next

\* A row becomes dispatched or failed by one step only, and dispatched only if
\* it was pending.
LEMMA RowsChange ==
    ASSUME IInv, [Next]_vars, NEW o \in Row, status'[o] # status[o]
    PROVE  \/ status[o] = "absent" /\ status'[o] = "pending"
           \/ /\ status[o] = "pending" /\ status'[o] = "dispatched"
              /\ \E k \in Key : MarkDispatched(k) /\ o \in RowsOfTask(k.task)
           \/ status'[o] = "failed" /\ \E k \in Key : MarkFailed(k) /\ o \in RowsOfTask(k.task)
<1> USE DEF IInv, TypeOK, outboxVars, reqVars, jobVars, listenerVars, worldVars
<1>1. ASSUME NEW r \in Req, Request(r)
      PROVE  status'[o] = status[o] \/ (status[o] = "absent" /\ status'[o] = "pending")
  BY <1>1 DEF Request, Follow, AssignCommit, Enqueue, Add, AddRejected, AssignDies
<1>2. ASSUME NEW k \in Key, MarkDispatched(k)
      PROVE  \/ status'[o] = status[o]
             \/ status[o] = "pending" /\ status'[o] = "dispatched" /\ o \in RowsOfTask(k.task)
  BY <1>2 DEF MarkDispatched, SettleRows
<1>3. ASSUME NEW k \in Key, MarkFailed(k)
      PROVE  status'[o] = status[o] \/ (status'[o] = "failed" /\ o \in RowsOfTask(k.task))
  BY <1>3 DEF MarkFailed, SettleRows
<1>4. ASSUME NEW k \in Key,
             \/ Pickup(k) \/ SendMail(k) \/ Complete(k) \/ AttemptFails(k)
             \/ Queue(k) \/ DlqAdd(k) \/ ListenerGivesUp(k)
      PROVE  status' = status
  BY <1>4 DEF Queue, Pickup, SendMail, Complete, AttemptFails, BackoffOver, StallCheck,
              StallLimit, DlqAdd, ListenerGivesUp
<1>5. ASSUME Fault \/ UNCHANGED vars
      PROVE  status' = status
  BY <1>5 DEF Fault, WorkerDies, WorkerSignalled, WorkerExits, RedisFails,
              RedisRecovers, Tick, vars
<1>6. QED
  BY <1>1, <1>2, <1>3, <1>4, <1>5 DEF Next, Process, Listener

\* A dispatched row has a mail about its task behind it, whatever repeats,
\* crashes and failures there are.
THEOREM DispatchedMeansMailed == Spec => []DispatchedTaskMailed
<1>1. Init => DispatchedTaskMailed
  BY DEF Init, DispatchedTaskMailed
<1>2. IInv /\ DispatchedTaskMailed /\ [Next]_vars => DispatchedTaskMailed'
  <2> SUFFICES ASSUME IInv, DispatchedTaskMailed, [Next]_vars,
                      NEW o \in Row, status'[o] = "dispatched"
               PROVE  (\E k \in Key : k.task = about[o].task /\ mails[k] > 0)'
    BY DEF DispatchedTaskMailed
  <2>1. CASE status[o] = "dispatched"
    <3>1. PICK k \in Key : k.task = about[o].task /\ mails[k] > 0
      BY <2>1 DEF DispatchedTaskMailed
    <3>2. about'[o] = about[o] /\ mails'[k] >= mails[k]
      BY <2>1, EvidenceGrows
    <3>3. mails[k] \in Nat
      BY DEF IInv, TypeOK
    <3>4. mails'[k] > 0
      <4>1. IInv'
        BY RequestStep, WorkerStep, FaultStep DEF Next, vars, IInv, TypeOK, JobInv, MailInv,
           RequestInv, outboxVars, reqVars, jobVars, listenerVars, worldVars
      <4>2. QED
        BY <3>1, <3>2, <3>3, <4>1 DEF IInv, TypeOK
    <3>5. QED
      BY <3>1, <3>2, <3>4
  <2>2. CASE status[o] # "dispatched"
    <3>1. PICK k \in Key : MarkDispatched(k) /\ o \in RowsOfTask(k.task)
      BY <2>2, RowsChange
    <3>2. about' = about /\ mails' = mails /\ job[k] = "sent"
      BY <3>1 DEF MarkDispatched
    <3>3. mails[k] > 0
      BY <3>2 DEF IInv, TypeOK, MailInv
    <3>4. k.task = about[o].task
      BY <3>1 DEF RowsOfTask
    <3>5. QED
      BY <3>2, <3>3, <3>4
  <2>3. QED
    BY <2>1, <2>2
<1>3. QED
  BY <1>1, <1>2, Invariance, PTL DEF Spec

\* A failed row has a dead-lettered job of its task behind it: the listener
\* copies the job before it settles rows.
THEOREM FailedMeansDead == Spec => []FailedTaskDead
<1>1. Init => FailedTaskDead
  BY DEF Init, FailedTaskDead
<1>2. IInv /\ FailedTaskDead /\ [Next]_vars => FailedTaskDead'
  <2> SUFFICES ASSUME IInv, FailedTaskDead, [Next]_vars,
                      NEW o \in Row, status'[o] = "failed"
               PROVE  (\E k \in dlq : k.task = about[o].task)'
    BY DEF FailedTaskDead
  <2>1. CASE status[o] = "failed"
    BY <2>1, EvidenceGrows DEF FailedTaskDead
  <2>2. CASE status[o] # "failed"
    <3>1. PICK k \in Key : MarkFailed(k) /\ o \in RowsOfTask(k.task)
      BY <2>2, RowsChange
    <3>2. about' = about /\ dlq' = dlq /\ k \in dlq
      BY <3>1 DEF MarkFailed, IInv, JobInv
    <3>3. QED
      BY <3>1, <3>2 DEF RowsOfTask
  <2>3. QED
    BY <2>1, <2>2
<1>3. QED
  BY <1>1, <1>2, Invariance, PTL DEF Spec

-----------------------------------------------------------------------------
(* A job settles a row of its own assignment.  Rows never go back: whoever *)
(* settles them later leaves a settled row settled and a failed one failed. *)

HasRowIn(k, S) == \E o \in Row : about[o] = PairOf(k) /\ status[o] \in S

OwnRowInv ==
    \A k \in Key :
        /\ job[k] \in {"marked", "completed"} => HasRowIn(k, {"dispatched", "failed"})
        /\ failed[k] = "done" => HasRowIn(k, {"failed"})

LEMMA SettledRowsStay ==
    ASSUME IInv, [Next]_vars, NEW k \in Key
    PROVE  /\ HasRowIn(k, {"dispatched", "failed"}) => HasRowIn(k, {"dispatched", "failed"})'
           /\ HasRowIn(k, {"failed"}) => HasRowIn(k, {"failed"})'
<1>1. ASSUME NEW o \in Row, about[o] = PairOf(k), status[o] \in {"dispatched", "failed"}
      PROVE  /\ about'[o] = PairOf(k)
             /\ status'[o] \in {"dispatched", "failed"}
             /\ status[o] = "failed" => status'[o] = "failed"
  BY <1>1, RowsChange, EvidenceGrows
<1>2. QED
  BY <1>1 DEF HasRowIn, PairOf

\* Only the processor marks, and only the listener is done.
LEMMA JobsEnd ==
    ASSUME IInv, [Next]_vars, NEW k \in Key
    PROVE  /\ job'[k] \in {"marked", "completed"} =>
                job[k] \in {"marked", "completed"} \/ MarkDispatched(k)
           /\ failed'[k] = "done" => failed[k] = "done" \/ MarkFailed(k)
<1> USE DEF IInv, TypeOK, Move, outboxVars, reqVars, jobVars, listenerVars, worldVars
<1>1. ASSUME NEW r \in Req, Request(r)
      PROVE  /\ failed' = failed
             /\ job'[k] \in {"marked", "completed"} => job[k] \in {"marked", "completed"}
  BY <1>1 DEF Request, Follow, AssignCommit, Enqueue, Add, AddRejected, AssignDies
<1>2. ASSUME NEW j \in Key, Process(j)
      PROVE  /\ failed'[k] = "done" => failed[k] = "done"
             /\ job'[k] \in {"marked", "completed"} =>
                  job[k] \in {"marked", "completed"} \/ MarkDispatched(k)
  <2>1. CASE MarkDispatched(j)
    BY <2>1 DEF MarkDispatched
  <2>2. CASE Pickup(j) \/ SendMail(j) \/ Complete(j) \/ AttemptFails(j)
    BY <2>2 DEF Pickup, SendMail, Complete, AttemptFails, CountFailure
  <2>3. QED
    BY <1>2, <2>1, <2>2 DEF Process
<1>3. ASSUME NEW j \in Key, Queue(j)
      PROVE  /\ failed'[k] = "done" => failed[k] = "done"
             /\ job'[k] \in {"marked", "completed"} => job[k] \in {"marked", "completed"}
  BY <1>3 DEF Queue, BackoffOver, StallCheck, StallLimit
<1>4. ASSUME NEW j \in Key, Listener(j)
      PROVE  job' = job /\ (failed'[k] = "done" => failed[k] = "done" \/ MarkFailed(k))
  <2>1. CASE MarkFailed(j)
    BY <2>1 DEF MarkFailed
  <2>2. CASE DlqAdd(j) \/ ListenerGivesUp(j)
    BY <2>2 DEF DlqAdd, ListenerGivesUp
  <2>3. QED
    BY <1>4, <2>1, <2>2 DEF Listener
<1>5. ASSUME Fault \/ UNCHANGED vars
      PROVE  /\ failed'[k] = "done" => failed[k] = "done"
             /\ job'[k] \in {"marked", "completed"} => job[k] \in {"marked", "completed"}
  BY <1>5 DEF Fault, WorkerDies, WorkerSignalled, WorkerExits, WorkerEnds, RedisFails,
              RedisRecovers, Tick, Active, vars
<1>6. QED
  BY <1>1, <1>2, <1>3, <1>4, <1>5 DEF Next

\* A completed job has a settled row of its own assignment, and one that the
\* listener dealt with a failed row, however the rows of its task are settled.
THEOREM JobsSettleTheirRowsHolds == Spec => []JobsSettleTheirRows
<1>1. Init => OwnRowInv
  BY DEF Init, OwnRowInv
<1>2. IInv /\ NoPhantom /\ OwnRowInv /\ [Next]_vars => OwnRowInv'
  <2> SUFFICES ASSUME IInv, NoPhantom, OwnRowInv, [Next]_vars, NEW k \in Key
               PROVE  /\ job'[k] \in {"marked", "completed"} =>
                           HasRowIn(k, {"dispatched", "failed"})'
                      /\ failed'[k] = "done" => HasRowIn(k, {"failed"})'
    BY DEF OwnRowInv
  <2>1. ASSUME job[k] # "absent"
        PROVE  \E o \in Row : o \in RowsOfTask(k.task) /\ about[o] = PairOf(k)
    BY <2>1 DEF NoPhantom, RowsOfTask, PairOf
  <2>2. CASE MarkDispatched(k)
    <3>1. PICK o \in Row : o \in RowsOfTask(k.task) /\ about[o] = PairOf(k)
      BY <2>1, <2>2 DEF MarkDispatched
    <3>2. status'[o] \in {"dispatched", "failed"} /\ about' = about
      BY <2>2, <3>1 DEF MarkDispatched, SettleRows, RowsOfTask, IInv, TypeOK
    <3>3. UNCHANGED failed
      BY <2>2 DEF MarkDispatched, listenerVars
    <3>4. QED
      BY <3>1, <3>2, <3>3, SettledRowsStay DEF HasRowIn, PairOf, OwnRowInv
  <2>3. CASE MarkFailed(k)
    <3>1. job[k] # "absent" /\ UNCHANGED job
      BY <2>3 DEF MarkFailed, jobVars, IInv, JobInv, TypeOK
    <3>2. PICK o \in Row : o \in RowsOfTask(k.task) /\ about[o] = PairOf(k)
      BY <2>1, <3>1
    <3>3. status'[o] = "failed" /\ about' = about
      BY <2>3, <3>2 DEF MarkFailed, SettleRows, RowsOfTask, IInv, TypeOK
    <3>4. QED
      BY <3>1, <3>2, <3>3, SettledRowsStay DEF HasRowIn, PairOf, OwnRowInv
  <2>4. QED
    BY <2>2, <2>3, JobsEnd, SettledRowsStay DEF OwnRowInv
<1>3. OwnRowInv => JobsSettleTheirRows
  BY DEF OwnRowInv, HasRowIn, JobsSettleTheirRows
<1>4. QED
  BY <1>1, <1>2, <1>3, Invariance, NoPhantoms, PTL DEF Spec

-----------------------------------------------------------------------------
(* Every job has an assignment of its own                                  *)

\* A way to give each job a row of its own, which no request still works for.
Sources ==
    {source \in [Taken -> Row] :
        /\ \A k \in Taken : status[source[k]] # "absent" /\ about[source[k]] = PairOf(k)
        /\ \A k, l \in Taken : source[k] = source[l] => k = l
        /\ \A k \in Taken, r \in Req : pc[r] # "idle" => source[k] # mine[r]}

\* Requests work for different rows, and there are rows left for all jobs.
SourceInv ==
    /\ Sources # {}
    /\ \A r, s \in Req : pc[r] # "idle" /\ pc[s] # "idle" /\ mine[r] = mine[s] => r = s

\* Steps that take no job and start no request.
LEMMA SourcesStay ==
    ASSUME IInv, SourceInv, Taken' = Taken,
           \A o \in Row : status[o] # "absent" => status'[o] # "absent" /\ about'[o] = about[o],
           \A r \in Req : pc'[r] # "idle" => pc[r] # "idle" /\ mine'[r] = mine[r]
    PROVE  SourceInv'
<1>1. PICK source \in Sources : TRUE
  BY DEF SourceInv
<1>2. source \in Sources'
  <2>1. \A k \in Taken : source[k] \in Row
    BY <1>1 DEF Sources
  <2>2. QED
    BY <1>1, <2>1 DEF Sources
<1>3. \A r, s \in Req : pc'[r] # "idle" /\ pc'[s] # "idle" /\ mine'[r] = mine'[s] => r = s
  BY DEF SourceInv
<1>4. QED
  BY <1>2, <1>3 DEF SourceInv

\* A commit takes an unused row.
LEMMA SourcesCommit ==
    ASSUME IInv, SourceInv, NEW r \in Req, NEW o \in Row, NEW p \in Pair, AssignCommit(r, o, p)
    PROVE  SourceInv'
<1> USE DEF IInv, TypeOK, RequestInv
<1>1. PICK source \in Sources : TRUE
  BY DEF SourceInv
<1>2. /\ Taken' = Taken
      /\ status' = [status EXCEPT ![o] = "pending"] /\ status[o] = "absent"
      /\ about' = [about EXCEPT ![o] = p]
      /\ mine' = [mine EXCEPT ![r] = o] /\ pc' = [pc EXCEPT ![r] = "enqueue"]
  BY DEF AssignCommit, Taken, jobVars
<1>3. \A k \in Taken : source[k] \in Row /\ source[k] # o
  BY <1>1, <1>2 DEF Sources
<1>4. source \in Sources'
  BY <1>1, <1>2, <1>3 DEF Sources
<1>5. \A s \in Req : pc[s] # "idle" => mine[s] # o
  BY <1>2
<1>6. \A a, b \in Req : pc'[a] # "idle" /\ pc'[b] # "idle" /\ mine'[a] = mine'[b] => a = b
  BY <1>2, <1>5 DEF SourceInv
<1>7. QED
  BY <1>4, <1>6 DEF SourceInv

\* A job that Redis takes gets the row of the request that added it.
LEMMA SourcesAdd ==
    ASSUME IInv, SourceInv, NEW r \in Req, Add(r), job[key[r]] = "absent"
    PROVE  SourceInv'
<1> USE DEF IInv, TypeOK, RequestInv
<1>1. PICK source \in Sources : TRUE
  BY DEF SourceInv
<1> DEFINE k == key[r]
           wider == [j \in Taken' |-> IF j = k THEN mine[r] ELSE source[j]]
<1>2. /\ k \in Key /\ PairOf(k) = about[mine[r]] /\ k \notin Taken
      /\ mine[r] \in Row /\ status[mine[r]] # "absent" /\ pc[r] # "idle"
  BY DEF Add, Taken
<1>3. Taken' = Taken \cup {k}
  <2>1. job' = [job EXCEPT ![k] = "waiting"]
    BY DEF Add
  <2>2. QED
    BY <1>2, <2>1 DEF Taken
<1>4. /\ UNCHANGED <<status, about>>
      /\ pc' = [pc EXCEPT ![r] = "idle"] /\ mine' = [mine EXCEPT ![r] = NoRow]
  BY DEF Add, Forget, outboxVars
<1> HIDE DEF k
<1>5. \A j \in Taken : source[j] \in Row /\ source[j] # mine[r]
  BY <1>1, <1>2 DEF Sources
<1>6. /\ wider \in [Taken' -> Row] /\ wider[k] = mine[r]
      /\ \A j \in Taken : wider[j] = source[j]
  BY <1>2, <1>3, <1>5
<1> HIDE DEF wider
<1>7. \A j \in Taken' : status'[wider[j]] # "absent" /\ about'[wider[j]] = PairOf(j)
  BY <1>1, <1>2, <1>3, <1>4, <1>6 DEF Sources
<1>8. \A i, j \in Taken' : wider[i] = wider[j] => i = j
  BY <1>1, <1>3, <1>5, <1>6 DEF Sources
<1>9. \A s \in Req : pc'[s] # "idle" => s # r /\ pc[s] # "idle" /\ mine'[s] = mine[s] /\ mine[s] # mine[r]
  BY <1>2, <1>4 DEF SourceInv
<1>10. \A j \in Taken', s \in Req : pc'[s] # "idle" => wider[j] # mine'[s]
  BY <1>1, <1>3, <1>6, <1>9 DEF Sources
<1>11. wider \in Sources'
  BY <1>6, <1>7, <1>8, <1>10 DEF Sources
<1>12. \A a, b \in Req : pc'[a] # "idle" /\ pc'[b] # "idle" /\ mine'[a] = mine'[b] => a = b
  BY <1>9 DEF SourceInv
<1>13. QED
  BY <1>11, <1>12 DEF SourceInv

\* Whatever requests overlap, every job in the queue stems from a committed
\* assignment of its own: none is multiplied.
THEOREM JobsStemFromRows == Spec => []JobsMatchRows
<1>1. Init => SourceInv
  <2> SUFFICES ASSUME Init PROVE SourceInv
    OBVIOUS
  <2>1. Taken = {}
    BY DEF Init, Taken
  <2>2. [k \in {} |-> NoRow] \in Sources
    BY <2>1 DEF Sources
  <2>3. QED
    BY <2>2 DEF SourceInv, Init
<1>2. IInv /\ SourceInv /\ [Next]_vars => SourceInv'
  <2> SUFFICES ASSUME IInv, SourceInv, [Next]_vars
               PROVE  SourceInv'
    OBVIOUS
  <2> USE DEF IInv, TypeOK, Move, outboxVars, reqVars, jobVars, listenerVars, worldVars
  <2>1. ASSUME NEW r \in Req, Enqueue(r) \/ AddRejected(r) \/ AssignDies(r)
        PROVE  SourceInv'
    <3>1. UNCHANGED <<job, status, about>>
      BY <2>1 DEF Enqueue, AddRejected, AssignDies
    <3>2. \A s \in Req : pc'[s] # "idle" => pc[s] # "idle" /\ mine'[s] = mine[s]
      BY <2>1 DEF Enqueue, AddRejected, AssignDies, Forget
    <3>3. QED
      BY <3>1, <3>2, SourcesStay DEF Taken
  <2>2. ASSUME NEW r \in Req, Add(r), job[key[r]] # "absent"
        PROVE  SourceInv'
    <3>1. UNCHANGED <<job, status, about>>
      BY <2>2 DEF Add
    <3>2. \A s \in Req : pc'[s] # "idle" => pc[s] # "idle" /\ mine'[s] = mine[s]
      BY <2>2 DEF Add, Forget
    <3>3. QED
      BY <3>1, <3>2, SourcesStay DEF Taken
  <2>3. ASSUME NEW k \in Key, Process(k) \/ Queue(k) \/ Listener(k)
        PROVE  SourceInv'
    <3>1. \A j \in Key : job'[j] # "absent" <=> job[j] # "absent"
      BY <2>3 DEF Process, Queue, Listener, Pickup, SendMail, MarkDispatched, Complete,
                  AttemptFails, CountFailure, BackoffOver, StallCheck, StallLimit,
                  DlqAdd, MarkFailed, ListenerGivesUp
    <3>2. UNCHANGED <<about, pc, mine>> /\ \A o \in Row : status[o] # "absent" => status'[o] # "absent"
      BY <2>3 DEF Process, Queue, Listener, Pickup, SendMail, MarkDispatched, Complete,
                  AttemptFails, BackoffOver, StallCheck, StallLimit,
                  DlqAdd, MarkFailed, ListenerGivesUp, SettleRows
    <3>3. QED
      BY <3>1, <3>2, SourcesStay DEF Taken
  <2>4. ASSUME Fault \/ UNCHANGED vars
        PROVE  SourceInv'
    <3>1. \A j \in Key : job'[j] # "absent" <=> job[j] # "absent"
      BY <2>4 DEF Fault, WorkerDies, WorkerSignalled, WorkerExits, RedisFails, RedisRecovers,
                  Tick, vars, Active
    <3>2. UNCHANGED <<about, pc, mine, status>>
      BY <2>4 DEF Fault, WorkerDies, WorkerSignalled, WorkerExits, RedisFails, RedisRecovers,
                  Tick, vars
    <3>3. QED
      BY <3>1, <3>2, SourcesStay DEF Taken
  <2>5. QED
    BY <2>1, <2>2, <2>3, <2>4, SourcesCommit, SourcesAdd DEF Next, Request, Follow
<1>3. SourceInv => JobsMatchRows
  BY DEF SourceInv, Sources, JobsMatchRows
<1>4. QED
  BY <1>1, <1>2, <1>3, Invariance, PTL DEF Spec

-----------------------------------------------------------------------------
(* No job goes round for ever                                              *)

\* The weight of each state of a job.
LEMMA StageValues ==
    /\ Stage["absent"] = 6 /\ Stage["delayed"] = 6 /\ Stage["stalled"] = 6
    /\ Stage["waiting"] = 5 /\ Stage["sending"] = 4 /\ Stage["sent"] = 3
    /\ Stage["marked"] = 2 /\ Stage["completed"] = 0 /\ Stage["failed"] = 0
BY DEF Stage

\* A move either goes on towards the end of the run, or uses up an attempt
\* or a stall.
LEMMA JobMoves ==
    ASSUME IInv, [Next]_vars, NEW k \in Key, job'[k] # job[k]
    PROVE  \/ /\ fails'[k] = fails[k] /\ stalls'[k] = stalls[k]
              /\ Stage[job'[k]] < Stage[job[k]]
           \/ /\ fails'[k] = fails[k] + 1 /\ stalls'[k] = stalls[k]
              /\ job[k] \in {"sending", "sent", "stalled"}
              /\ job'[k] \in {"delayed", "failed"}
           \/ /\ fails'[k] = fails[k] /\ stalls'[k] = stalls[k] + 1
              /\ job[k] \in Active /\ job'[k] = "stalled"
<1> USE DEF IInv, TypeOK, Move, outboxVars, reqVars, jobVars, listenerVars, worldVars
<1>1. ASSUME NEW r \in Req, Request(r)
      PROVE  UNCHANGED <<fails, stalls>> /\ job[k] = "absent" /\ job'[k] = "waiting"
  BY <1>1 DEF Request, Follow, AssignCommit, Enqueue, Add, AddRejected, AssignDies
<1>2. ASSUME NEW j \in Key, \/ Pickup(j) \/ SendMail(j) \/ MarkDispatched(j)
                            \/ Complete(j) \/ BackoffOver(j) \/ StallCheck(j)
      PROVE  UNCHANGED <<fails, stalls>> /\ Stage[job'[k]] < Stage[job[k]]
  <2>1. UNCHANGED <<fails, stalls>>
    BY <1>2 DEF Pickup, SendMail, MarkDispatched, Complete, BackoffOver, StallCheck
  <2>2. \/ job[k] = "waiting" /\ job'[k] = "sending"
        \/ job[k] = "sending" /\ job'[k] = "sent"
        \/ job[k] = "sent" /\ job'[k] = "marked"
        \/ job[k] = "marked" /\ job'[k] = "completed"
        \/ job[k] \in {"delayed", "stalled"} /\ job'[k] = "waiting"
    BY <1>2 DEF Pickup, SendMail, MarkDispatched, Complete, BackoffOver, StallCheck
  <2>3. QED
    BY <2>1, <2>2, StageValues
<1>3. ASSUME NEW j \in Key, AttemptFails(j) \/ StallLimit(j)
      PROVE  /\ fails'[k] = fails[k] + 1 /\ stalls' = stalls
             /\ job[k] \in {"sending", "sent", "stalled"}
             /\ job'[k] \in {"delayed", "failed"}
  BY <1>3 DEF AttemptFails, CountFailure, StallLimit
<1>4. ASSUME NEW j \in Key, Listener(j)
      PROVE  job' = job
  BY <1>4 DEF Listener, DlqAdd, MarkFailed, ListenerGivesUp
<1>5. ASSUME WorkerDies
      PROVE  /\ fails' = fails /\ stalls'[k] = stalls[k] + 1
             /\ job[k] \in Active /\ job'[k] = "stalled"
  BY <1>5 DEF WorkerDies
<1>6. ASSUME \/ WorkerSignalled \/ WorkerExits \/ RedisFails \/ RedisRecovers \/ Tick
             \/ UNCHANGED vars
      PROVE  job' = job
  BY <1>6 DEF WorkerSignalled, WorkerExits, RedisFails, RedisRecovers, Tick, vars
<1>7. QED
  BY <1>1, <1>2, <1>3, <1>4, <1>5, <1>6, StageValues DEF Next, Process, Queue, Fault

\* Every move leaves a job with fewer moves: crashes, retries and stalls
\* together cannot keep it in the queue for ever.
THEOREM MovesAreBounded == Spec => MovesRunOut
<1>1. ASSUME IInv, IInv', [Next]_vars
      PROVE  \A k \in Key :
                job'[k] # job[k] => 0 <= MovesLeft(k)' /\ MovesLeft(k)' < MovesLeft(k)
  <2> SUFFICES ASSUME NEW k \in Key, job'[k] # job[k]
               PROVE  0 <= MovesLeft(k)' /\ MovesLeft(k)' < MovesLeft(k)
    OBVIOUS
  <2>1. /\ fails[k] \in Nat /\ fails'[k] \in Nat /\ stalls[k] \in Nat /\ stalls'[k] \in Nat
        /\ fails'[k] <= Attempts /\ stalls'[k] <= MaxStalls + 1
    BY <1>1 DEF IInv, TypeOK, JobInv
  <2>2. Stage[job[k]] \in Nat /\ Stage[job'[k]] \in Nat
    BY <1>1, StageValues DEF IInv, TypeOK, JobState, Active, Settled
  <2>3. \/ /\ fails'[k] = fails[k] /\ stalls'[k] = stalls[k]
           /\ Stage[job'[k]] < Stage[job[k]]
        \/ /\ fails'[k] = fails[k] + 1 /\ stalls'[k] = stalls[k]
           /\ Stage[job'[k]] <= 6 /\ 0 < Stage[job[k]]
        \/ /\ fails'[k] = fails[k] /\ stalls'[k] = stalls[k] + 1
           /\ Stage[job'[k]] <= 6 /\ 0 < Stage[job[k]]
    BY <1>1, JobMoves, StageValues DEF Active
  <2>4. QED
    BY <2>1, <2>2, <2>3 DEF MovesLeft
<1>2. IInv /\ IInv' /\ [Next]_vars =>
        [\A k \in Key :
            job'[k] # job[k] => 0 <= MovesLeft(k)' /\ MovesLeft(k)' < MovesLeft(k)]_vars
  BY <1>1
<1>3. QED
  BY <1>2, Invariance, PTL DEF Spec, MovesRunOut

-----------------------------------------------------------------------------
(* The queue implements Delivery                                           *)

\* Moving one job moves its phase.
LEMMA PhaseMove ==
    ASSUME TypeOK, NEW k \in Key, NEW s \in JobState, job' = [job EXCEPT ![k] = s]
    PROVE  [j \in Key |-> Phase(j)]' =
             [[j \in Key |-> Phase(j)] EXCEPT ![k] =
                 IF s \in {"absent", "completed", "failed"} THEN s ELSE "open"]
BY DEF TypeOK, Phase

\* What a step does to one job is a step of Delivery on it, and it leaves
\* the other jobs as they are.
LEMMA RefinementStep ==
    ASSUME IInv, IInv', [Next]_vars
    PROVE  Promise!Next \/ UNCHANGED <<[k \in Key |-> Phase(k)], mails>>
<1> USE DEF IInv, TypeOK, JobInv, MailInv, RequestInv, JobState, Active, Settled, Move,
            Phase, outboxVars, reqVars, jobVars, listenerVars, worldVars
<1>1. ASSUME NEW r \in Req, Request(r)
      PROVE  Promise!Next \/ UNCHANGED <<[k \in Key |-> Phase(k)], mails>>
  <2>1. CASE Add(r) /\ job[key[r]] = "absent"
    <3>1. PICK k \in Key : k = key[r]
      BY <2>1 DEF Add
    <3>2. job' = [job EXCEPT ![k] = "waiting"] /\ UNCHANGED mails
      BY <2>1, <3>1 DEF Add
    <3>3. [j \in Key |-> Phase(j)]' = [[j \in Key |-> Phase(j)] EXCEPT ![k] = "open"]
      BY <3>2, PhaseMove
    <3>4. [j \in Key |-> Phase(j)][k] = "absent"
      BY <2>1, <3>1
    <3>5. Promise!Take(k)
      BY <3>2, <3>3, <3>4 DEF Promise!Take
    <3>6. QED
      BY <3>5 DEF Promise!Next
  <2>2. CASE ~(Add(r) /\ job[key[r]] = "absent")
    BY <1>1, <2>2 DEF Request, Follow, AssignCommit, Enqueue, Add, AddRejected, AssignDies
  <2>3. QED
    BY <2>1, <2>2
<1>2. ASSUME NEW k \in Key, SendMail(k)
      PROVE  Promise!Next
  <2>1. mails[k] < Attempts + MaxStalls
    BY <1>2 DEF SendMail
  <2>2. Promise!Mail(k)
    BY <1>2, <2>1 DEF SendMail, Promise!Mail
  <2>3. QED
    BY <2>2 DEF Promise!Next
<1>3. ASSUME NEW k \in Key, Complete(k)
      PROVE  Promise!Next
  <2>1. job' = [job EXCEPT ![k] = "completed"] /\ UNCHANGED mails
    BY <1>3 DEF Complete
  <2>2. [j \in Key |-> Phase(j)]' = [[j \in Key |-> Phase(j)] EXCEPT ![k] = "completed"]
    BY <2>1, PhaseMove
  <2>3. [j \in Key |-> Phase(j)][k] = "open" /\ mails[k] > 0
    BY <1>3 DEF Complete
  <2>4. Promise!Complete(k)
    BY <2>1, <2>2, <2>3 DEF Promise!Complete
  <2>5. QED
    BY <2>4 DEF Promise!Next
<1>4. ASSUME NEW k \in Key, AttemptFails(k) \/ StallLimit(k)
      PROVE  Promise!Next \/ UNCHANGED <<[j \in Key |-> Phase(j)], mails>>
  <2>1. CASE job'[k] = "failed"
    <3>1. job' = [job EXCEPT ![k] = "failed"] /\ UNCHANGED mails
      <4>1. CASE AttemptFails(k)
        <5>1. CASE fails[k] + 1 < Attempts
          BY <4>1, <5>1, <2>1 DEF AttemptFails, CountFailure
        <5>2. CASE ~(fails[k] + 1 < Attempts)
          BY <4>1, <5>2 DEF AttemptFails, CountFailure
        <5>3. QED
          BY <5>1, <5>2
      <4>2. CASE StallLimit(k)
        BY <4>2 DEF StallLimit
      <4>3. QED
        BY <1>4, <4>1, <4>2
    <3>2. [j \in Key |-> Phase(j)]' = [[j \in Key |-> Phase(j)] EXCEPT ![k] = "failed"]
      BY <3>1, PhaseMove
    <3>3. [j \in Key |-> Phase(j)][k] = "open"
      BY <1>4 DEF AttemptFails, StallLimit
    <3>4. Promise!GiveUp(k)
      BY <3>1, <3>2, <3>3 DEF Promise!GiveUp
    <3>5. QED
      BY <3>4 DEF Promise!Next
  <2>2. CASE job'[k] # "failed"
    BY <1>4, <2>2 DEF AttemptFails, CountFailure, StallLimit
  <2>3. QED
    BY <2>1, <2>2
<1>5. ASSUME NEW k \in Key, \/ Pickup(k) \/ MarkDispatched(k) \/ BackoffOver(k)
                            \/ StallCheck(k) \/ Listener(k)
      PROVE  UNCHANGED <<[j \in Key |-> Phase(j)], mails>>
  BY <1>5 DEF Pickup, MarkDispatched, BackoffOver, StallCheck, Listener, DlqAdd,
              MarkFailed, ListenerGivesUp
<1>6. ASSUME Fault \/ UNCHANGED vars
      PROVE  UNCHANGED <<[j \in Key |-> Phase(j)], mails>>
  BY <1>6 DEF Fault, WorkerDies, WorkerSignalled, WorkerExits, RedisFails, RedisRecovers, Tick, vars
<1>7. QED
  BY <1>1, <1>2, <1>3, <1>4, <1>5, <1>6 DEF Next, Process, Queue

\* The notification queue, with its crashes, outages and retries, implements
\* the delivery that its users rely on.
THEOREM QueueKeepsPromise == Spec => KeepsPromise
<1>1. Init => Promise!Init
  BY DEF Init, Promise!Init, Phase
<1>2. IInv /\ IInv' /\ [Next]_vars =>
        [Promise!Next]_<<[k \in Key |-> Phase(k)], mails>>
  BY RefinementStep
<1>3. QED
  BY <1>1, <1>2, Invariance, PTL DEF Spec, KeepsPromise, Promise!Spec
=============================================================================
