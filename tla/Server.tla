------------------------------- MODULE Server -------------------------------
(***************************************************************************)
(* The API process: it starts with an empty rate limiter, answers /auth    *)
(* and health requests, and shuts down on a signal.  A health report is a  *)
(* chain of calls to PostgreSQL, to Redis and to the queue, which has a     *)
(* connection to Redis of its own; each of them may find its service in    *)
(* another state than the call before.                                     *)
(***************************************************************************)
EXTENDS RateLimiter

CONSTANTS
    MaxStarts,  \* bound on starts of the process
    MaxChanges  \* bound on changes of the state of a service

ASSUME ServerBoundsAssumption == MaxStarts \in Nat /\ MaxChanges \in Nat

VARIABLES
    proc,       \* "closing" after a signal, "down" until it is started again
    starts,
    serving,    \* addresses with an /auth request in its handler
    db,         \* PostgreSQL: "up" or "down"
    redis,      \* of redisClient: "up", "away" (calls wait for the connection)
                \* or "refusing" (connected, but calls fail: Redis is loading,
                \* say)
    queue,      \* of the queue's own connection, likewise
    changes,
    call,       \* next call of the health request
    page,       \* the path it asked for
    report,     \* status of each service, as far as it has been found out
    seen        \* history: states of each service during the request

serviceVars == <<db, redis, queue, changes>>
healthVars == <<call, page, report, seen>>
processVars == <<proc, starts, serving>>
vars == <<limiterVars, serviceVars, healthVars, processVars>>

Call == {"select", "ping", "isPaused", "waiting", "active", "failed", "answer"}
Health == {"healthy", "degraded", "down"}
Service == {"database", "redis", "queues"}
Unchecked == [x \in Service |-> "down"]
Connection == {"up", "away", "refusing"}

TypeOK ==
    /\ LimiterTypeOK
    /\ proc \in {"up", "closing", "down"}
    /\ starts \in 1 .. MaxStarts + 1
    /\ serving \subseteq Address
    /\ db \in {"up", "down"} /\ redis \in Connection /\ queue \in Connection
    /\ changes \in 0 .. MaxChanges
    /\ call \in {"idle"} \cup Call
    /\ page \in {"/health", "/"}
    /\ report \in [Service -> Health]
    /\ seen \in [Service -> SUBSET (Connection \cup {"down"})]

NothingSeen == [x \in Service |-> {}]
NoRequest == call = "idle" /\ page = "/" /\ report = Unchecked /\ seen = NothingSeen

Init ==
    /\ LimiterInit
    /\ proc = "up" /\ starts = 1 /\ serving = {}
    /\ db = "up" /\ redis = "up" /\ queue = "up" /\ changes = 0
    /\ NoRequest

-----------------------------------------------------------------------------
(* Requests to /auth                                                       *)

\* A request that is refused is answered at once; the handler of another one
\* goes on without the limiter.  A server that is closing takes no connections,
\* but may still serve those that it has.
Arrive(a) ==
    /\ proc # "down" /\ a \notin serving
    /\ Hit(a)
    /\ serving' = serving \cup {x \in {a} : Admits(a)}
    /\ UNCHANGED <<serviceVars, healthVars, proc, starts>>

\* The handler calls the database only, and answers 500 if that fails.
Served(a) ==
    /\ proc # "down" /\ a \in serving
    /\ serving' = serving \ {a}
    /\ UNCHANGED <<limiterVars, serviceVars, healthVars, proc, starts>>

-----------------------------------------------------------------------------
(* GET /health and GET /                                                   *)

Sees(d, r, q) ==
    seen' = [x \in Service |->
                seen[x] \cup {CASE x = "database" -> d [] x = "redis" -> r [] x = "queues" -> q}]

Visit(p) ==
    /\ proc # "down" /\ call = "idle"
    /\ call' = "select" /\ page' = p
    /\ Sees(db, redis, queue)
    /\ UNCHANGED <<limiterVars, serviceVars, processVars, report>>

Found(next, service, health) ==
    /\ call' = next
    /\ report' = [report EXCEPT ![service] = health]
    /\ UNCHANGED <<limiterVars, serviceVars, processVars, page, seen>>

\* Faulty: an error of the query does not count.
SelectForgiving ==
    /\ proc # "down" /\ call = "select"
    /\ Found("ping", "database", "healthy")

SelectOne ==
    /\ proc # "down" /\ call = "select"
    /\ Found("ping", "database", IF db = "up" THEN "healthy" ELSE "down")

\* maxRetriesPerRequest is null: without a connection a call waits for one.
Replies(connection) == proc # "down" /\ connection # "away"

\* Faulty: a refused ping is not caught, and nothing answers the request.
PingUncaught ==
    /\ Replies(redis) /\ call = "ping"
    /\ IF redis = "up" THEN Found("isPaused", "redis", "healthy")
                       ELSE UNCHANGED vars

\* An answer that is not PONG is degraded.
Ping ==
    /\ Replies(redis) /\ call = "ping"
    /\ \E s \in IF redis = "up" THEN {"healthy", "degraded"} ELSE {"down"} :
          Found("isPaused", "redis", s)

\* A paused queue is degraded; a refused call skips the counts.
IsPaused ==
    /\ Replies(queue) /\ call = "isPaused"
    /\ IF queue = "up"
         THEN \E s \in {"healthy", "degraded"} : Found("waiting", "queues", s)
         ELSE Found("answer", "queues", "down")

\* A refused count is reported as 0.
Count ==
    /\ Replies(queue) /\ call \in {"waiting", "active", "failed"}
    /\ Found(CASE call = "waiting" -> "active"
               [] call = "active"  -> "failed"
               [] call = "failed"  -> "answer", "queues", report.queues)

\* The overall status; a queue that is down leaves it healthy.
Overall ==
    IF "down" \in {report.database, report.redis} THEN "down"
    ELSE IF "degraded" \in {report.redis, report.queues} THEN "degraded" ELSE "healthy"

StatusCode == IF page = "/health" /\ Overall = "down" THEN 503 ELSE 200

HealthEnds ==
    /\ call' = "idle" /\ page' = "/" /\ report' = Unchecked /\ seen' = NothingSeen

Answer ==
    /\ proc # "down" /\ call = "answer"
    /\ HealthEnds
    /\ UNCHANGED <<limiterVars, serviceVars, processVars>>

HealthCall == SelectOne \/ Ping \/ IsPaused \/ Count \/ Answer

-----------------------------------------------------------------------------
(* The process and the services                                            *)

\* gracefulShutdown: no new connections; a second signal changes nothing.
Signalled ==
    /\ proc = "up"
    /\ proc' = "closing"
    /\ UNCHANGED <<limiterVars, serviceVars, healthVars, starts, serving>>

\* The requests in their handlers end with the process.
ProcessEnds ==
    /\ proc' = "down" /\ serving' = {}
    /\ HealthEnds
    /\ UNCHANGED <<limiterVars, serviceVars, starts>>

\* The callback of server.close: every request has been answered.
Closed ==
    /\ proc = "closing" /\ call = "idle" /\ serving = {}
    /\ ProcessEnds

\* Faulty: the timer waits for the requests, too.
ForcedExitWhenIdle == Closed

\* The timer of ten seconds.
ForcedExit == proc = "closing" /\ ProcessEnds

Crash == proc # "down" /\ ProcessEnds

Start ==
    /\ proc = "down" /\ starts <= MaxStarts
    /\ proc' = "up" /\ starts' = starts + 1
    /\ Forget
    /\ UNCHANGED <<serviceVars, healthVars, serving>>

\* A service changes; a health request in progress may see it.
ServicesAre(d, r, q) ==
    /\ db' = d /\ redis' = r /\ queue' = q
    /\ IF call = "idle" THEN UNCHANGED seen ELSE Sees(d, r, q)
    /\ UNCHANGED <<limiterVars, processVars, call, page, report>>

DatabaseChanges ==
    /\ changes < MaxChanges /\ changes' = changes + 1
    /\ \E d \in {"up", "down"} \ {db} : ServicesAre(d, redis, queue)

\* Either connection fails without the other, or after it.
RedisChanges ==
    /\ changes < MaxChanges /\ changes' = changes + 1
    /\ \E c \in {"away", "refusing"} :
          \/ c # redis /\ ServicesAre(db, c, queue)
          \/ c # queue /\ ServicesAre(db, redis, c)

RedisRecovers ==
    /\ UNCHANGED changes
    /\ \/ redis # "up" /\ ServicesAre(db, "up", queue)
       \/ queue # "up" /\ ServicesAre(db, redis, "up")

Time == Tick /\ UNCHANGED <<serviceVars, healthVars, processVars>>

Next ==
    \/ \E a \in Address : Arrive(a) \/ Served(a)
    \/ \E p \in {"/health", "/"} : Visit(p)
    \/ HealthCall
    \/ Signalled \/ Closed \/ ForcedExit \/ Crash \/ Start
    \/ DatabaseChanges \/ RedisChanges \/ RedisRecovers
    \/ Time

Spec == Init /\ [][Next]_vars

\* Calls end if their service is there, and the timer of a shutdown runs out.
\* Redis may be away for good.
FairSpec ==
    /\ Spec
    /\ WF_vars(HealthCall) /\ WF_vars(Closed) /\ WF_vars(ForcedExit)
    /\ \A a \in Address : WF_vars(Served(a))

-----------------------------------------------------------------------------
(* Properties                                                              *)

\* What /health answers was true of some moment of the request: a 200 means
\* that the database and Redis were both up, if not at the same time, and a
\* 503 that one of them failed.  So is what a report says of the queue, whose
\* failure the overall status leaves out: it has a connection of its own, and
\* may fail while Redis answers the ping.
HealthIsHonest ==
    call = "answer" =>
        /\ page = "/health" =>
              IF StatusCode = 200 THEN "up" \in seen["database"] /\ "up" \in seen["redis"]
                                  ELSE "down" \in seen["database"] \/ "refusing" \in seen["redis"]
        /\ (IF report.queues = "down" THEN "refusing" ELSE "up") \in seen["queues"]

\* A process that was told to stop stops, even if a health request waits for
\* a connection that never comes back.
ShutdownEnds == proc = "closing" ~> proc = "down"

\* Unless a connection stays away for good, a health request is answered or
\* ends with its process: a refused call is a result, and never the end of the
\* report.
HealthRequestsEnd ==
    []<>(redis # "away") /\ []<>(queue # "away") => (call # "idle" ~> call = "idle")
=============================================================================
