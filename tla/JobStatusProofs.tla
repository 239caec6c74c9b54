-------------------------- MODULE JobStatusProofs --------------------------
(***************************************************************************)
(* Proofs about JobStatus, for any jobs, attempts, crashes and outages.    *)
(***************************************************************************)
EXTENDS JobStatus, NotificationsProofs

\* What a client was told as an end is so, and a request that found no job
\* did not look for one that is to be found.
ToldInv ==
    /\ \A k \in Key : k \in evicted => job[k] = "completed"
    /\ \A k \in Key :
         /\ told[<<k, "job">>] = "failed" => job[k] = "failed"
         /\ told[<<k, "job">>] = "completed" => job[k] = "completed"
         /\ told[<<k, "copy">>] = "failed" => k \in dlq
         /\ told[<<k, "copy">>] # "completed"
    /\ call # "idle" => asked \in Id
    /\ call = "dead" /\ asked[2] = "job" =>
         /\ told[asked] # "failed"
         /\ told[asked] = "completed" => asked[1] \in evicted
    /\ call = "state" /\ asked[2] = "copy" => asked[1] \in dlq /\ details = "open"
    /\ call = "state" /\ asked[2] = "job" => job[asked[1]] # "absent"
    /\ call = "state" /\ details = "finished" => job[asked[1]] \in Settled
    /\ call = "dead" => details = "open"

PInv == IInv /\ PollTypeOK /\ ToldInv

\* The queue never moves a settled job again and loses none.
LEMMA SettledStays ==
    ASSUME IInv, [Next]_vars, NEW k \in Key
    PROVE  /\ job[k] \in Settled => job'[k] = job[k]
           /\ job[k] # "absent" => job'[k] # "absent"
<1> USE DEF IInv, TypeOK, JobState, Active, Settled, Move,
            outboxVars, reqVars, jobVars, listenerVars, worldVars
<1>1. ASSUME NEW r \in Req, Request(r)
      PROVE  job'[k] = job[k] \/ (job[k] = "absent" /\ job'[k] = "waiting")
  BY <1>1 DEF Request, Follow, AssignCommit, Enqueue, Add, AddRejected, AssignDies
<1>2. ASSUME NEW j \in Key, Process(j) \/ Queue(j) \/ Listener(j)
      PROVE  /\ job[k] \in Settled => job'[k] = job[k]
             /\ job[k] # "absent" => job'[k] # "absent"
  BY <1>2 DEF Process, Queue, Listener, Pickup, SendMail, MarkDispatched, Complete,
              AttemptFails, CountFailure, BackoffOver, StallCheck, StallLimit, DlqAdd,
              MarkFailed, ListenerGivesUp
<1>3. ASSUME Fault \/ UNCHANGED vars
      PROVE  /\ job[k] \in Settled => job'[k] = job[k]
             /\ job[k] # "absent" => job'[k] # "absent"
  BY <1>3 DEF Fault, WorkerDies, WorkerSignalled, WorkerExits, RedisFails,
              RedisRecovers, Tick, vars
<1>4. QED
  BY <1>1, <1>2, <1>3 DEF Next

\* Steps of the queue keep the invariant of Notifications.
LEMMA QueueStep ==
    ASSUME IInv, [Next]_vars
    PROVE  IInv'
<1>1. CASE UNCHANGED vars
  BY <1>1 DEF vars, IInv, TypeOK, JobInv, MailInv, RequestInv, outboxVars, reqVars,
              jobVars, listenerVars, worldVars
<1>2. QED
  BY <1>1, RequestStep, WorkerStep, FaultStep DEF Next

\* Polls, and the eviction of completed jobs, write nothing the queue works
\* with: to it, all their steps are stutters.
LEMMA PollsOnlyRead ==
    ASSUME [PollNext]_allVars
    PROVE  [Next]_vars
BY DEF PollNext, allVars, Evict, Ask, Poll, FindJob, FindDeadLetter, Answer, ReadState,
       PollFails

\* What holds of polls survives the steps of the queue and of the client.
LEMMA PollStep ==
    ASSUME PInv, [PollNext]_allVars
    PROVE  PInv'
<1> USE DEF PInv, PollTypeOK, ToldInv, pollVars, Id, Told, Final
<1>1. IInv'
  BY PollsOnlyRead, QueueStep
<1>2. CASE (Next \/ UNCHANGED vars) /\ UNCHANGED <<pollVars, evicted>>
  <2>1. \A k \in Key : /\ job[k] \in Settled => job'[k] = job[k]
                       /\ job[k] # "absent" => job'[k] # "absent"
    BY <1>2, SettledStays
  <2>2. dlq \subseteq dlq'
    BY <1>2, EvidenceGrows
  <2>3. QED
    BY <1>1, <1>2, <2>1, <2>2 DEF Settled, IInv
<1>3. ASSUME NEW k \in Key, Evict(k)
      PROVE  PInv'
  BY <1>1, <1>3 DEF Evict, IInv, vars, jobVars, listenerVars
<1>4. ASSUME NEW i \in Id, Ask(i)
      PROVE  PInv'
  BY <1>1, <1>4 DEF Ask, IInv, vars, jobVars, listenerVars
<1>5. CASE FindJob
  <2>1. PICK k \in Key, part \in {"job", "copy"} : asked = <<k, part>>
    BY <1>5 DEF FindJob
  <2>2. UNCHANGED <<job, dlq, told, evicted, asked>>
    BY <1>5 DEF FindJob, vars, jobVars, listenerVars
  <2> DEFINE found == part = "job" /\ job[k] # "absent" /\ k \notin evicted
  <2>3. /\ call' = (IF found THEN "state" ELSE "dead")
        /\ details' = (IF found /\ job[k] \in Settled THEN "finished" ELSE "open")
    BY <1>5, <2>1 DEF FindJob
  <2>4. CASE found
    <3>1. call' = "state" /\ details' \in {"open", "finished"}
          /\ (details' = "finished" => job[k] \in Settled)
      BY <2>3, <2>4
    <3>2. QED
      BY <1>1, <2>1, <2>2, <2>4, <3>1 DEF IInv
  <2>5. CASE ~found
    <3>1. call' = "dead" /\ details' = "open"
      BY <2>3, <2>5
    <3>2. part = "job" =>
            /\ told[<<k, part>>] # "failed"
            /\ told[<<k, part>>] = "completed" => k \in evicted
      BY <2>5
    <3>3. QED
      BY <1>1, <2>1, <2>2, <3>1, <3>2 DEF IInv
  <2>6. QED
    BY <2>4, <2>5
<1>6. CASE FindDeadLetter
  BY <1>1, <1>6 DEF FindDeadLetter, Answer, IInv, vars, jobVars, listenerVars
<1>7. CASE ReadState
  <2> DEFINE code == Normalized(asked, RawState(asked))
  <2>1. PICK k \in Key, part \in {"job", "copy"} : asked = <<k, part>>
    BY <1>7 DEF ReadState
  <2>2. code \in Told
    BY <1>7, <2>1 DEF ReadState, Normalized, RawState, IInv, TypeOK, JobState, Active, Settled
  <2>3. /\ part = "copy" => code = "failed" /\ k \in dlq
        /\ part = "job" /\ code = "failed" => job[k] = "failed"
        /\ part = "job" /\ code = "completed" => job[k] = "completed"
    BY <1>7, <2>1 DEF ReadState, Normalized, RawState, Active
  <2>4. /\ UNCHANGED <<vars, asked, evicted>>
        /\ call' = "idle" /\ details' = "open"
        /\ told' = [told EXCEPT ![<<k, part>>] = code]
    BY <1>7, <2>1 DEF ReadState, Answer
  <2> HIDE DEF code
  <2>5. UNCHANGED <<job, dlq>>
    BY <2>4 DEF vars, jobVars, listenerVars
  <2>6. told' \in [Id -> Told]
    BY <2>2, <2>4
  <2>7. \A j \in Key :
         /\ told'[<<j, "job">>] = "failed" => job'[j] = "failed"
         /\ told'[<<j, "job">>] = "completed" => job'[j] = "completed"
         /\ told'[<<j, "copy">>] = "failed" => j \in dlq'
         /\ told'[<<j, "copy">>] # "completed"
    BY <2>3, <2>4, <2>5
  <2>8. QED
    BY <1>1, <2>4, <2>5, <2>6, <2>7 DEF IInv
<1>8. CASE PollFails
  BY <1>1, <1>8 DEF PollFails, IInv, vars, jobVars, listenerVars
<1>9. QED
  BY <1>2, <1>3, <1>4, <1>5, <1>6, <1>7, <1>8 DEF PollNext, Poll, allVars

\* The answers of polls fit the queue in every reachable state.
THEOREM PollInvariance == PollSpec => []PInv
<1>1. PollInit => PInv
  <2> SUFFICES ASSUME PollInit
               PROVE  PInv
    OBVIOUS
  <2>1. IInv
    BY InitIInv DEF PollInit
  <2>2. PollTypeOK /\ ToldInv
    BY <2>1 DEF PollInit, Init, IInv, PollTypeOK, ToldInv, Id, Told
  <2>3. QED
    BY <2>1, <2>2 DEF PInv
<1>2. QED
  BY <1>1, PollStep, PTL DEF PollSpec

\* GET /jobs/:id does not disturb the queue: beside polling clients it behaves
\* as it does without them.
THEOREM PollsLeaveQueueAlone == PollSpec => Spec
<1>1. PollInit => Init
  BY DEF PollInit
<1>2. [PollNext]_allVars => [Next]_vars
  BY PollsOnlyRead
<1>3. QED
  BY <1>1, <1>2, PTL DEF PollSpec, Spec

\* So what is proved of the queue holds beside clients that poll it: it keeps
\* the promise of Delivery, its jobs match the rows, and they run out of moves.
THEOREM PolledQueueDelivers ==
    PollSpec => KeepsPromise /\ []JobsMatchRows /\ MovesRunOut
BY PollsLeaveQueueAlone, QueueKeepsPromise, JobsStemFromRows, MovesAreBounded, PTL

\* Queue, client and answers keep their types.
THEOREM PollTypeCorrect == PollSpec => []PollTypeOK
<1>1. PInv => PollTypeOK
  BY DEF PInv
<1>2. QED
  BY <1>1, PollInvariance, PTL

\* An answer's details are never newer than its status: a job that was read
\* finished is settled for good, and getState says so unless it was dropped.
THEOREM DetailsLag == PollSpec => []DetailsNeverAhead
<1>1. PInv => DetailsNeverAhead
  BY DEF PInv, ToldInv, IInv, Id, DetailsNeverAhead, Normalized, RawState, Active, Settled,
         Final
<1>2. QED
  BY <1>1, PollInvariance, PTL

\* No poll takes back an end that an earlier one reported.
THEOREM EndsStayTold == PollSpec => EndsAreFinal
<1> DEFINE A == \A i \in Id :
                   /\ told[i] = "failed" => told'[i] = "failed"
                   /\ told[i] = "completed" => told'[i] = "completed" \/ i[1] \in evicted
<1>1. PInv /\ [PollNext]_allVars => [A]_allVars
  <2> SUFFICES ASSUME PInv, [PollNext]_allVars
               PROVE  A
    OBVIOUS
  <2> USE DEF PInv, PollTypeOK, ToldInv, Id, Told
  <2>1. CASE FindDeadLetter
    <3>1. CASE asked[2] = "copy" /\ asked[1] \in dlq
      BY <2>1, <3>1 DEF FindDeadLetter
    <3>2. CASE ~(asked[2] = "copy" /\ asked[1] \in dlq)
      <4>1. PICK k \in Key, part \in {"job", "copy"} : asked = <<k, part>>
        BY <2>1 DEF FindDeadLetter
      <4>2. told' = [told EXCEPT ![<<k, part>>] = "notFound"]
        BY <2>1, <3>2, <4>1 DEF FindDeadLetter, Answer
      <4>3. told[<<k, part>>] # "failed"
        BY <2>1, <3>2, <4>1 DEF FindDeadLetter
      <4>4. told[<<k, part>>] = "completed" => k \in evicted
        BY <2>1, <3>2, <4>1 DEF FindDeadLetter
      <4>5. QED
        BY <4>2, <4>3, <4>4
    <3>3. QED
      BY <3>1, <3>2
  <2>2. CASE ReadState
    <3>1. PICK k \in Key, part \in {"job", "copy"} : asked = <<k, part>>
      BY <2>2 DEF ReadState
    <3>2. told' = [told EXCEPT ![<<k, part>>] = Normalized(asked, RawState(asked))]
      BY <2>2, <3>1 DEF ReadState, Answer
    <3>3. told[<<k, part>>] = "failed" => Normalized(asked, RawState(asked)) = "failed"
      BY <3>1 DEF Normalized, RawState, Active
    <3>4. told[<<k, part>>] = "completed" =>
            Normalized(asked, RawState(asked)) = "completed" \/ k \in evicted
      BY <3>1 DEF Normalized, RawState, Active
    <3>5. QED
      BY <3>2, <3>3, <3>4
  <2>3. CASE told' = told
    BY <2>3
  <2>4. QED
    BY <2>1, <2>2, <2>3
       DEF PollNext, Poll, Evict, Ask, FindJob, PollFails, pollVars, allVars
<1>2. QED
  BY <1>1, PollInvariance, PTL DEF PollSpec, EndsAreFinal
=============================================================================
