----------------------------- MODULE JobStatus -----------------------------
(***************************************************************************)
(* GET /jobs/:id while the queue works: getJobStatusById reads the job in  *)
(* one call, in the dead-letter queue if the first queue has none, and     *)
(* asks for its state in a later call.  One client polls; it stays with an *)
(* id until it is told an end.                                             *)
(***************************************************************************)
EXTENDS Notifications

VARIABLES
    call,     \* next call of the request: "idle", "main", "dead", "state"
    asked,    \* the id the client polls
    details,  \* is the job, as it was read, "open" or "finished"?
    told,     \* history: the last status a client was told of an id
    evicted   \* completed jobs the queue no longer keeps

pollVars == <<call, asked, details, told>>
allVars == <<vars, pollVars, evicted>>

\* The id of a job, and the id `dlq_...' of its copy.
Id == Key \X {"job", "copy"}
NoId == <<NoKey, "job">>

Told == {"none", "notFound", "pending", "active", "completed", "failed"}
Final == {"completed", "failed"}

PollTypeOK ==
    /\ TypeOK
    /\ call \in {"idle", "main", "dead", "state"}
    /\ asked \in Id \cup {NoId}
    /\ details \in {"open", "finished"}
    /\ told \in [Id -> Told]
    /\ evicted \subseteq Key

PollInit ==
    /\ Init
    /\ call = "idle" /\ asked = NoId /\ details = "open"
    /\ told = [i \in Id |-> "none"]
    /\ evicted = {}

-----------------------------------------------------------------------------
\* Faulty: failed jobs are evicted, too.
EvictSettled(k) ==
    /\ job[k] \in Settled /\ k \notin evicted
    /\ evicted' = evicted \cup {k}
    /\ UNCHANGED <<vars, pollVars>>

\* Redis keeps every failed job and the latest thousand completed ones.
Evict(k) ==
    /\ job[k] = "completed" /\ k \notin evicted
    /\ evicted' = evicted \cup {k}
    /\ UNCHANGED <<vars, pollVars>>

\* The state BullMQ reports: a job that lost its worker is still active.
RawState(i) ==
    LET k == i[1] IN
    IF i[2] = "copy" THEN "waiting"
    ELSE IF k \in evicted THEN "unknown"
    ELSE IF job[k] \in Active \cup {"stalled"} THEN "active" ELSE job[k]

\* The client asks on about the same id until it is told an end.
Ask(i) ==
    /\ call = "idle"
    /\ asked \in {NoId, i} \cup {x \in Id : told[x] \in Final}
    /\ call' = "main" /\ asked' = i
    /\ UNCHANGED <<vars, details, told, evicted>>

\* getJob: the job, with its data as of now, or nothing.
FindJob ==
    /\ call = "main" /\ redis = "up"
    /\ LET found == asked[2] = "job" /\ job[asked[1]] # "absent" /\ asked[1] \notin evicted
       IN  /\ call' = IF found THEN "state" ELSE "dead"
           /\ details' = IF found /\ job[asked[1]] \in Settled THEN "finished" ELSE "open"
    /\ UNCHANGED <<vars, asked, told, evicted>>

Answer(code) ==
    /\ call' = "idle" /\ details' = "open"
    /\ told' = [told EXCEPT ![asked] = code]
    /\ UNCHANGED <<vars, asked, evicted>>

\* Only the id of the copy is found in the dead-letter queue.
FindDeadLetter ==
    /\ call = "dead" /\ redis = "up"
    /\ IF asked[2] = "copy" /\ asked[1] \in dlq
         THEN /\ call' = "state"
              /\ UNCHANGED <<vars, asked, details, told, evicted>>
         ELSE Answer("notFound")

\* Faulty: only what is in the dead-letter queue counts as failed.
NormalizedCopies(i, raw) ==
    IF raw \in {"active", "completed"} THEN raw
    ELSE IF i[2] = "copy" THEN "failed" ELSE "pending"

\* What the client is told of a raw state.
Normalized(i, raw) ==
    IF raw \in {"active", "completed"} THEN raw
    ELSE IF raw = "failed" \/ i[2] = "copy" THEN "failed" ELSE "pending"

ReadState ==
    /\ call = "state" /\ redis = "up"
    /\ Answer(Normalized(asked, RawState(asked)))

\* A call throws: the request fails, and the client learns nothing.
PollFails ==
    /\ call # "idle"
    /\ call' = "idle" /\ details' = "open"
    /\ UNCHANGED <<vars, asked, told, evicted>>

Poll == FindJob \/ FindDeadLetter \/ ReadState \/ PollFails

PollNext ==
    \/ Next /\ UNCHANGED <<pollVars, evicted>>
    \/ \E k \in Key : Evict(k)
    \/ \E i \in Id : Ask(i)
    \/ Poll

PollSpec == PollInit /\ [][PollNext]_allVars

\* The queue and Redis do their part, the client asks on, and not all of its
\* requests fail.
PollFairSpec ==
    /\ PollSpec
    /\ Progress /\ WF_vars(RedisRecovers) /\ WF_vars(WorkerExits)
    /\ \A i \in Id : WF_allVars(asked = i /\ Ask(i))
    /\ WF_allVars(Poll) /\ SF_allVars(FindJob) /\ SF_allVars(ReadState)

-----------------------------------------------------------------------------
(* Properties                                                              *)

\* An end that a client was told is never taken back: a failed job stays
\* failed for every later poll, a completed one stays completed until the
\* queue drops it.
EndsAreFinal ==
    [][\A i \in Id :
          /\ told[i] = "failed" => told'[i] = "failed"
          /\ told[i] = "completed" => told'[i] = "completed" \/ i[1] \in evicted]_allVars

\* The details of an answer are older than its status, never newer: an answer
\* with a finish time has a final status, unless the job was dropped between
\* the two calls.
DetailsNeverAhead ==
    call = "state" /\ details = "finished" =>
        asked[1] \in evicted \/ Normalized(asked, RawState(asked)) \in Final

\* A client that polls a job the queue has taken is told its end, or the
\* queue has dropped the job, whatever crashes and outages come between.
PollerLearnsEnd ==
    \A k \in Key :
        asked = <<k, "job">> /\ job[k] # "absent" ~>
            told[<<k, "job">>] \in Final \/ k \in evicted
=============================================================================
