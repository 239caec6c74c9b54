--------------------------- MODULE Notifications ---------------------------
(***************************************************************************)
(* The path of an assignment e-mail: the transaction of assignTask writes  *)
(* an outbox row, the request adds a job to the BullMQ queue, a worker     *)
(* sends the mail, retries it, and gives up to the dead-letter queue.      *)
(*                                                                         *)
(* A job is named by its jobId: task, assignee and five-second window.     *)
(* BullMQ and Redis are modelled from how the code uses them.              *)
(***************************************************************************)
EXTENDS Naturals, FiniteSets

CONSTANTS
    Task,
    User,          \* assignees
    Row,           \* ids of outbox rows; the bound on assignments
    Req,           \* assignment requests the API serves at the same time
    Attempts,      \* option attempts of a job: 3 in the code
    WindowLength,  \* seconds in a deduplication window: 5 in the code
    LastSecond,    \* bound on the clock
    Concurrency,   \* jobs a worker has active: 5 in the code
    MaxStalls,     \* times a job may stall: BullMQ's default is 1
    MaxStops,      \* bound on ends of the worker process, by a signal or a crash
    MaxOutages,    \* bound on outages of Redis
    NoRow

ASSUME AttemptsAssumption == Attempts \in Nat \ {0}
ASSUME WindowAssumption == WindowLength \in Nat \ {0} /\ LastSecond \in Nat
ASSUME BoundsAssumption ==
    /\ Concurrency \in Nat \ {0}
    /\ MaxStalls \in Nat /\ MaxStops \in Nat /\ MaxOutages \in Nat
ASSUME NoRowAssumption == NoRow \notin Row

VARIABLES
    status,    \* table outbox_jobs: status of a row, "absent" before commit
    about,     \* the task and user in a row's payload
    pc,        \* next call of an assignment request
    mine,      \* the outbox row of a request
    key,       \* the job a request is adding
    job,       \* state of a job; the steps of an active one are told apart
    fails,     \* attemptsMade of a job that failed
    stalls,    \* times a job was found stalled
    dlq,       \* jobs copied to the dead-letter queue
    failed,    \* the next call of the `failed' listener for a job, or its end:
               \* "done", or "cut" if a call threw or the process ended
    mails,     \* history: e-mails sent for a job
    worker,    \* "closing" after a signal, until the process has exited
    clock, redis, stops, outages

outboxVars == <<status, about>>
reqVars == <<pc, mine, key>>
jobVars == <<job, fails, stalls, mails>>
listenerVars == <<dlq, failed>>
worldVars == <<worker, clock, redis, stops, outages>>
vars == <<outboxVars, reqVars, jobVars, listenerVars, worldVars>>

\* Math.floor(Date.now() / 5000)
WindowOf(second) == second \div WindowLength
Window == {WindowOf(second) : second \in 0 .. LastSecond}
Key == [task : Task, user : User, window : Window]
NoKey == [task |-> NoRow, user |-> NoRow, window |-> 0]
Pair == [task : Task, user : User]
NoPair == [task |-> NoRow, user |-> NoRow]

\* The worker holds the job's lock: it is sending the mail, updating the
\* outbox, or reporting completion.
Active == {"sending", "sent", "marked"}
Settled == {"completed", "failed"}
JobState == {"absent", "waiting", "delayed", "stalled"} \cup Active \cup Settled

TypeOK ==
    /\ status \in [Row -> {"absent", "pending", "dispatched", "failed"}]
    /\ about \in [Row -> Pair \cup {NoPair}]
    /\ pc \in [Req -> {"idle", "enqueue", "add"}]
    /\ mine \in [Req -> Row \cup {NoRow}]
    /\ key \in [Req -> Key \cup {NoKey}]
    /\ job \in [Key -> JobState]
    /\ fails \in [Key -> 0 .. Attempts]
    /\ stalls \in [Key -> Nat]
    /\ mails \in [Key -> Nat]
    /\ dlq \subseteq Key
    /\ failed \in [Key -> {"none", "dlq", "outbox", "done", "cut"}]
    /\ worker \in {"running", "closing"}
    /\ clock \in 0 .. LastSecond
    /\ redis \in {"up", "down"}
    /\ stops \in 0 .. MaxStops
    /\ outages \in 0 .. MaxOutages

Init ==
    /\ status = [o \in Row |-> "absent"]
    /\ about = [o \in Row |-> NoPair]
    /\ pc = [r \in Req |-> "idle"]
    /\ mine = [r \in Req |-> NoRow]
    /\ key = [r \in Req |-> NoKey]
    /\ job = [k \in Key |-> "absent"]
    /\ fails = [k \in Key |-> 0]
    /\ stalls = [k \in Key |-> 0]
    /\ mails = [k \in Key |-> 0]
    /\ dlq = {}
    /\ failed = [k \in Key |-> "none"]
    /\ worker = "running" /\ clock = 0 /\ redis = "up" /\ stops = 0 /\ outages = 0

PairOf(k) == [task |-> k.task, user |-> k.user]
RowsOfTask(t) == {o \in Row : status[o] # "absent" /\ about[o].task = t}
-----------------------------------------------------------------------------
(* POST /tasks/:id/assign                                                  *)

\* Faulty: the request goes on although nothing was committed.
AssignCommitLost(r, o, p) ==
    /\ pc[r] = "idle" /\ status[o] = "absent"
    /\ about' = [about EXCEPT ![o] = p]
    /\ mine' = [mine EXCEPT ![r] = o]
    /\ pc' = [pc EXCEPT ![r] = "enqueue"]
    /\ UNCHANGED <<status, key, jobVars, listenerVars, worldVars>>

\* The assignment and its outbox row are committed in one transaction.
AssignCommit(r, o, p) ==
    /\ pc[r] = "idle" /\ status[o] = "absent"
    /\ status' = [status EXCEPT ![o] = "pending"]
    /\ about' = [about EXCEPT ![o] = p]
    /\ mine' = [mine EXCEPT ![r] = o]
    /\ pc' = [pc EXCEPT ![r] = "enqueue"]
    /\ UNCHANGED <<key, jobVars, listenerVars, worldVars>>

\* The job id takes the window from the clock; then the add is sent.
Enqueue(r) ==
    /\ pc[r] = "enqueue"
    /\ key' = [key EXCEPT ![r] = [task |-> about[mine[r]].task,
                                  user |-> about[mine[r]].user,
                                  window |-> WindowOf(clock)]]
    /\ pc' = [pc EXCEPT ![r] = "add"]
    /\ UNCHANGED <<outboxVars, mine, jobVars, listenerVars, worldVars>>

\* The request is answered, or its process dies, and keeps nothing.
Forget(r) ==
    /\ pc' = [pc EXCEPT ![r] = "idle"]
    /\ mine' = [mine EXCEPT ![r] = NoRow]
    /\ key' = [key EXCEPT ![r] = NoKey]

\* Faulty: the job id does not keep a job from being added again.
AddAgain(r) ==
    /\ pc[r] = "add" /\ redis = "up"
    /\ job' = [job EXCEPT ![key[r]] = "waiting"]
    /\ Forget(r)
    /\ UNCHANGED <<outboxVars, fails, stalls, mails, listenerVars, worldVars>>

\* Faulty: the request enqueues once more after Redis took its job.
AddRetried(r) ==
    /\ pc[r] = "add" /\ redis = "up"
    /\ IF job[key[r]] = "absent"
         THEN job' = [job EXCEPT ![key[r]] = "waiting"]
         ELSE UNCHANGED job
    /\ pc' = [pc EXCEPT ![r] = "enqueue"]
    /\ UNCHANGED <<outboxVars, mine, key, fails, stalls, mails, listenerVars, worldVars>>

\* Redis takes the job; a job with that id, settled or not, is left alone.
Add(r) ==
    /\ pc[r] = "add" /\ redis = "up"
    /\ IF job[key[r]] = "absent"
         THEN job' = [job EXCEPT ![key[r]] = "waiting"]
         ELSE UNCHANGED job
    /\ Forget(r)
    /\ UNCHANGED <<outboxVars, fails, stalls, mails, listenerVars, worldVars>>

\* Redis answers the add with an error: the request reports enqueued: false
\* and leaves the row to the outbox.
AddRejected(r) ==
    /\ pc[r] = "add" /\ redis = "up"
    /\ Forget(r)
    /\ UNCHANGED <<outboxVars, jobVars, listenerVars, worldVars>>

\* The API process dies after the commit.
AssignDies(r) ==
    /\ pc[r] # "idle"
    /\ Forget(r)
    /\ UNCHANGED <<outboxVars, jobVars, listenerVars, worldVars>>

-----------------------------------------------------------------------------
(* The worker                                                              *)

ActiveJobs == {k \in Key : job[k] \in Active}

Move(k, state) == job' = [job EXCEPT ![k] = state]

Pickup(k) ==
    /\ job[k] = "waiting" /\ redis = "up" /\ worker = "running"
    /\ Cardinality(ActiveJobs) < Concurrency
    /\ Move(k, "sending")
    /\ UNCHANGED <<outboxVars, reqVars, fails, stalls, mails, listenerVars, worldVars>>

SendMail(k) ==
    /\ job[k] = "sending"
    /\ Move(k, "sent")
    /\ mails' = [mails EXCEPT ![k] = @ + 1]
    /\ UNCHANGED <<outboxVars, reqVars, fails, stalls, listenerVars, worldVars>>

\* Faulty: rows of all tasks are matched.
SettleAllRows(rows, from, to) ==
    status' = [o \in Row |-> IF status[o] \in from THEN to ELSE status[o]]

\* Faulty: rows that another job has settled are left alone.
SettlePendingRows(rows, from, to) ==
    status' = [o \in Row |-> IF o \in rows /\ status[o] = "pending" THEN to ELSE status[o]]

\* An UPDATE of the outbox rows that are in one of the states `from'.
SettleRows(rows, from, to) ==
    status' = [o \in Row |-> IF o \in rows /\ status[o] \in from THEN to ELSE status[o]]

\* The processor marks every pending row of the job's task.
MarkDispatched(k) ==
    /\ job[k] = "sent"
    /\ SettleRows(RowsOfTask(k.task), {"pending"}, "dispatched")
    /\ Move(k, "marked")
    /\ UNCHANGED <<about, reqVars, fails, stalls, mails, listenerVars, worldVars>>

Complete(k) ==
    /\ job[k] = "marked" /\ redis = "up"
    /\ Move(k, "completed")
    /\ UNCHANGED <<outboxVars, reqVars, fails, stalls, mails, listenerVars, worldVars>>

\* Faulty: the listener forgets the dead-letter queue.
CountFailureOutboxOnly(k) ==
    /\ fails' = [fails EXCEPT ![k] = @ + 1]
    /\ Move(k, IF fails[k] + 1 < Attempts THEN "delayed" ELSE "failed")
    /\ failed' = [failed EXCEPT ![k] = IF fails[k] + 1 >= Attempts THEN "outbox" ELSE @]

\* Faulty: the failed attempt is not counted.
CountFailureNot(k) ==
    /\ Move(k, "delayed")
    /\ UNCHANGED <<fails, failed>>

\* Faulty: the listener counts the attempt that is not over yet.
CountFailureEarly(k) ==
    /\ fails' = [fails EXCEPT ![k] = @ + 1]
    /\ Move(k, IF fails[k] + 1 < Attempts THEN "delayed" ELSE "failed")
    /\ failed' = [failed EXCEPT ![k] = IF fails[k] + 2 >= Attempts THEN "dlq" ELSE @]

\* moveToFailed counts the attempt and delays the job or fails it for good;
\* the listener acts on the last attempt.
CountFailure(k) ==
    /\ fails' = [fails EXCEPT ![k] = @ + 1]
    /\ Move(k, IF fails[k] + 1 < Attempts THEN "delayed" ELSE "failed")
    /\ failed' = [failed EXCEPT ![k] = IF fails[k] + 1 >= Attempts THEN "dlq" ELSE @]

\* The processor throws: the mail was not sent, or the outbox update that
\* follows it failed.
AttemptFails(k) ==
    /\ job[k] \in {"sending", "sent"} /\ redis = "up"
    /\ CountFailure(k)
    /\ UNCHANGED <<outboxVars, reqVars, stalls, mails, dlq, worldVars>>

BackoffOver(k) ==
    /\ job[k] = "delayed" /\ redis = "up"
    /\ Move(k, "waiting")
    /\ UNCHANGED <<outboxVars, reqVars, fails, stalls, mails, listenerVars, worldVars>>

\* The locks of a dead worker have expired: its jobs wait again.
StallCheck(k) ==
    /\ job[k] = "stalled" /\ redis = "up" /\ stalls[k] <= MaxStalls
    /\ Move(k, "waiting")
    /\ UNCHANGED <<outboxVars, reqVars, fails, stalls, mails, listenerVars, worldVars>>

\* A job that stalled too often fails without running again.
StallLimit(k) ==
    /\ job[k] = "stalled" /\ redis = "up" /\ stalls[k] > MaxStalls
    /\ fails' = [fails EXCEPT ![k] = @ + 1]
    /\ Move(k, "failed")
    /\ failed' = [failed EXCEPT ![k] = IF fails[k] + 1 >= Attempts THEN "dlq" ELSE @]
    /\ UNCHANGED <<outboxVars, reqVars, stalls, mails, dlq, worldVars>>

(* The `failed' listener: nobody waits for it and nothing repeats it.      *)

DlqAdd(k) ==
    /\ failed[k] = "dlq" /\ redis = "up"
    /\ dlq' = dlq \cup {k}
    /\ failed' = [failed EXCEPT ![k] = "outbox"]
    /\ UNCHANGED <<outboxVars, reqVars, jobVars, worldVars>>

\* Every row of the task, whatever its status.
MarkFailed(k) ==
    /\ failed[k] = "outbox"
    /\ SettleRows(RowsOfTask(k.task), {"pending", "dispatched", "failed"}, "failed")
    /\ failed' = [failed EXCEPT ![k] = "done"]
    /\ UNCHANGED <<about, reqVars, jobVars, dlq, worldVars>>

\* Either call throws: the listener logs that and gives up.
ListenerGivesUp(k) ==
    /\ failed[k] \in {"dlq", "outbox"}
    /\ failed' = [failed EXCEPT ![k] = "cut"]
    /\ UNCHANGED <<outboxVars, reqVars, jobVars, dlq, worldVars>>

-----------------------------------------------------------------------------
(* Faults and time                                                         *)

\* The process is gone, and with it the calls of its listeners; a
\* supervisor starts the next one.
WorkerEnds ==
    /\ worker' = "running"
    /\ failed' = [k \in Key |-> IF failed[k] \in {"dlq", "outbox"} THEN "cut" ELSE failed[k]]

\* The worker crashes or is killed: nobody renews the locks of its jobs.
WorkerDies ==
    /\ stops < MaxStops
    /\ stops' = stops + 1
    /\ job' = [k \in Key |-> IF job[k] \in Active THEN "stalled" ELSE job[k]]
    /\ stalls' = [k \in Key |-> IF job[k] \in Active THEN stalls[k] + 1 ELSE stalls[k]]
    /\ WorkerEnds
    /\ UNCHANGED <<outboxVars, reqVars, fails, mails, dlq, clock, redis, outages>>

\* SIGTERM or SIGINT: worker.close() takes no more jobs ...
WorkerSignalled ==
    /\ worker = "running" /\ stops < MaxStops
    /\ worker' = "closing"
    /\ stops' = stops + 1
    /\ UNCHANGED <<outboxVars, reqVars, jobVars, listenerVars, clock, redis, outages>>

\* ... and waits for those it runs, but not for the listeners of failed ones.
WorkerExits ==
    /\ worker = "closing" /\ redis = "up" /\ ActiveJobs = {}
    /\ WorkerEnds
    /\ UNCHANGED <<outboxVars, reqVars, jobVars, dlq, clock, redis, stops, outages>>

RedisFails ==
    /\ redis = "up" /\ outages < MaxOutages
    /\ redis' = "down"
    /\ outages' = outages + 1
    /\ UNCHANGED <<outboxVars, reqVars, jobVars, listenerVars, worker, clock, stops>>

RedisRecovers ==
    /\ redis = "down"
    /\ redis' = "up"
    /\ UNCHANGED <<outboxVars, reqVars, jobVars, listenerVars, worker, clock, stops, outages>>

Tick ==
    /\ clock < LastSecond
    /\ clock' = clock + 1
    /\ UNCHANGED <<outboxVars, reqVars, jobVars, listenerVars, worker, redis, stops, outages>>

-----------------------------------------------------------------------------
\* What a request does after its transaction.
Follow(r) == Enqueue(r) \/ Add(r) \/ AddRejected(r) \/ AssignDies(r)

Request(r) == Follow(r) \/ \E o \in Row, p \in Pair : AssignCommit(r, o, p)

Process(k) == Pickup(k) \/ SendMail(k) \/ MarkDispatched(k) \/ Complete(k) \/ AttemptFails(k)

Queue(k) == BackoffOver(k) \/ StallCheck(k) \/ StallLimit(k)

Listener(k) == DlqAdd(k) \/ MarkFailed(k) \/ ListenerGivesUp(k)

Fault == WorkerDies \/ WorkerSignalled \/ WorkerExits \/ RedisFails \/ RedisRecovers \/ Tick

Next ==
    \/ \E r \in Req : Request(r)
    \/ \E k \in Key : Process(k) \/ Queue(k) \/ Listener(k)
    \/ Fault

Spec == Init /\ [][Next]_vars

\* The API and the worker keep working and Redis comes back; nothing
\* obliges the mail server or the database to succeed.
Progress ==
    /\ \A r \in Req : WF_vars(Enqueue(r)) /\ WF_vars(Add(r) \/ AddRejected(r))
    /\ \A k \in Key : WF_vars(Process(k)) /\ WF_vars(Queue(k)) /\ WF_vars(Listener(k))

FairSpec == Spec /\ Progress /\ WF_vars(RedisRecovers) /\ WF_vars(WorkerExits)

-----------------------------------------------------------------------------
(* What a producer may rely on is the specification Delivery.              *)

Phase(k) ==
    IF job[k] \in {"absent", "completed", "failed"} THEN job[k] ELSE "open"

Promise == INSTANCE Delivery WITH
    Job <- Key,
    MaxMails <- Attempts + MaxStalls,
    phase <- [k \in Key |-> Phase(k)],
    sent <- mails

\* The queue keeps the promise: a job is taken once, mails are sent while it
\* is open, at most MaxMails of them, and it closes once and for all, as
\* completed only after a mail.
KeepsPromise == Promise!Spec

-----------------------------------------------------------------------------
(* Properties                                                              *)

\* ARCHITECTURE 6.1: no job, and so no mail, without a committed assignment.
NoPhantom ==
    \A k \in Key : job[k] # "absent" =>
        \E o \in Row : status[o] # "absent" /\ about[o] = PairOf(k)

\* No assignment is multiplied: every job stems from an assignment of its own,
\* however requests, retries and windows of the job id overlap.
Taken == {k \in Key : job[k] # "absent"}

JobsMatchRows ==
    \E source \in [Taken -> Row] :
        /\ \A k \in Taken : status[source[k]] # "absent" /\ about[source[k]] = PairOf(k)
        /\ \A k, l \in Taken : source[k] = source[l] => k = l

\* What is left to a job: each failed attempt and each stall uses up one of
\* those it has, and between two of them it moves at most six times.
Stage == [absent |-> 6, delayed |-> 6, stalled |-> 6, waiting |-> 5, sending |-> 4,
          sent |-> 3, marked |-> 2, completed |-> 0, failed |-> 0]

MovesLeft(k) ==
    6 * ((Attempts - fails[k]) + (MaxStalls + 1 - stalls[k])) + Stage[job[k]]

\* Whatever fails, crashes and repeats: every move of a job leaves it with
\* fewer moves than before, so that no job can go round for ever.
MovesRunOut ==
    [][\A k \in Key :
          job'[k] # job[k] => 0 <= MovesLeft(k)' /\ MovesLeft(k)' < MovesLeft(k)]_vars

\* Retries, stalls and failures after the mail was sent repeat a mail, but
\* never more often than the job may run.
MailsBounded == \A k \in Key : mails[k] <= Attempts + MaxStalls

\* Only a job that used up its attempts is in the dead-letter queue, and it
\* stays failed there.
DlqHoldsExhausted == \A k \in dlq : job[k] = "failed" /\ fails[k] = Attempts

\* A job that failed for good is missing from the dead-letter queue only
\* while the listener is busy, when the listener was cut off, or when the job
\* stalled out with attempts left (the listener compares attempts).
MissingDeadLettersExplained ==
    \A k \in Key : job[k] = "failed" /\ k \notin dlq =>
        \/ failed[k] \in {"dlq", "cut"}
        \/ stalls[k] > MaxStalls /\ fails[k] < Attempts

\* A dispatched row means that a mail about its task went out.
DispatchedTaskMailed ==
    \A o \in Row : status[o] = "dispatched" =>
        \E k \in Key : k.task = about[o].task /\ mails[k] > 0

\* A failed row means that a job about its task is in the dead-letter queue.
FailedTaskDead ==
    \A o \in Row : status[o] = "failed" => \E k \in dlq : k.task = about[o].task

\* The rows of a task are settled by the jobs of all its assignees and
\* windows, in any order.  Still a job that is completed has a row of its own
\* assignment that is settled, and one that the listener has dealt with has
\* one that is failed, and nobody's later mail hides that.
JobsSettleTheirRows ==
    \A k \in Key :
        /\ job[k] = "completed" =>
              \E o \in Row : about[o] = PairOf(k) /\ status[o] \in {"dispatched", "failed"}
        /\ failed[k] = "done" =>
              \E o \in Row : about[o] = PairOf(k) /\ status[o] = "failed"

\* Every job that Redis took is completed or failed in the end, whatever
\* crashes and outages (boundedly many) happen on the way.
JobsSettle == \A k \in Key : job[k] # "absent" ~> job[k] \in Settled

(* What the documentation says and the code does not do.                   *)

\* ARCHITECTURE 6.1: a committed row is enqueued in the end, at once or by
\* the outbox processor once Redis is back.
RowsReconciled ==
    \A o \in Row : status[o] # "absent" ~>
        \E k \in Key : job[k] # "absent" /\ PairOf(k) = about[o]
=============================================================================
