---------------------------- MODULE ServerProofs ----------------------------
(***************************************************************************)
(* The server keeps the limiter's promises because each of its steps is a  *)
(* step of the limiter or leaves the limiter alone; what the limiter       *)
(* promises is proved of the limiter.                                      *)
(***************************************************************************)
EXTENDS Server, FiniteSetTheorems, TLAPS

-----------------------------------------------------------------------------
(* The limiter                                                             *)

\* The window of an address is the last one it was admitted in, and holds an
\* admission for every number up to the last.
WindowOf(a) == resetTime[a] - WindowSeconds

AdmissionFits(x) ==
    /\ x.start <= x.at /\ x.at < x.start + WindowSeconds /\ x.at <= clock
    /\ x.hit = 1 => x.at = x.start
    /\ \/ x.start = WindowOf(x.from) /\ x.hit <= hits[x.from]
       \/ x.start + WindowSeconds <= WindowOf(x.from)

AdmissionsApart(x, y) ==
    x.from = y.from =>
        /\ \/ x.start = y.start
           \/ x.start + WindowSeconds <= y.start
           \/ y.start + WindowSeconds <= x.start
        /\ x.start = y.start /\ x.hit = y.hit => x = y

WindowIsFull(a) ==
    /\ resetTime[a] <= clock + WindowSeconds
    /\ resetTime[a] # 0 => hits[a] # 0 /\ resetTime[a] >= WindowSeconds
    /\ \A h \in 1 .. Max :
          h <= hits[a] =>
              \E x \in admitted : x.from = a /\ x.start = WindowOf(a) /\ x.hit = h

LimiterInv ==
    /\ LimiterTypeOK
    /\ IsFiniteSet(admitted)
    /\ \A x \in admitted : AdmissionFits(x)
    /\ \A x, y \in admitted : AdmissionsApart(x, y)
    /\ \A a \in Address : WindowIsFull(a)

USE LimitAssumption, LimitBoundsAssumption

\* The entry a request makes if it is admitted.
Entry(a) == [from |-> a, at |-> clock, start |-> WindowAfter(a).start,
             hit |-> WindowAfter(a).hit]

\* A window that goes on is the one before; a new one starts now, after the
\* end of every earlier one.
LEMMA HitOpensWindow ==
    ASSUME LimiterInv, NEW a \in Address, Hit(a)
    PROVE  /\ WindowAfter(a).hit \in 1 .. MaxHits
           /\ WindowAfter(a).start \in Second
           /\ WindowAfter(a).start <= clock /\ clock < WindowAfter(a).start + WindowSeconds
           /\ WindowAfter(a).hit = 1 => WindowAfter(a).start = clock
           /\ \/ /\ WindowAfter(a).start = WindowOf(a)
                 /\ WindowAfter(a).hit = hits[a] + 1
              \/ /\ WindowAfter(a).hit = 1
                 /\ WindowAfter(a).start >= resetTime[a]
BY DEF LimiterInv, LimiterTypeOK, WindowIsFull, Hit, WindowAfter, WindowOf, Second

\* The entry of a request that is admitted is the last of its window.
LEMMA HitKeepsAdmissions ==
    ASSUME LimiterInv, NEW a \in Address, Hit(a)
    PROVE  /\ \A x \in admitted' : AdmissionFits(x)'
           /\ \A x, y \in admitted' : AdmissionsApart(x, y)'
<1> DEFINE w == WindowAfter(a)
<1>1. /\ w.hit \in 1 .. MaxHits /\ w.start \in Second
      /\ w.start <= clock /\ clock < w.start + WindowSeconds
      /\ w.hit = 1 => w.start = clock
      /\ \/ w.start = WindowOf(a) /\ w.hit = hits[a] + 1
         \/ w.hit = 1 /\ w.start >= resetTime[a]
  BY HitOpensWindow
<1>2. /\ hits' = [hits EXCEPT ![a] = w.hit]
      /\ resetTime' = [resetTime EXCEPT ![a] = w.start + WindowSeconds]
      /\ clock' = clock
      /\ \A x \in admitted' : x \in admitted \/ x = Entry(a)
  BY DEF Hit, Entry
<1>3. /\ clock \in Nat /\ hits \in [Address -> Nat] /\ resetTime \in [Address -> Nat]
      /\ \A x \in admitted : /\ x.from \in Address /\ x.at \in Nat
                             /\ x.start \in Nat /\ x.hit \in Nat
  BY DEF LimiterInv, LimiterTypeOK, Admission, Second
<1>4. Entry(a).from = a /\ Entry(a).at = clock /\ Entry(a).start = w.start /\ Entry(a).hit = w.hit
  BY DEF Entry
<1> HIDE DEF w
<1>5. ASSUME NEW x \in admitted
      PROVE  AdmissionFits(x)'
  <2>1. AdmissionFits(x)
    BY DEF LimiterInv
  <2>2. CASE x.from = a
    BY <2>1, <2>2, <1>1, <1>2, <1>3 DEF AdmissionFits, WindowOf, Second
  <2>3. CASE x.from # a
    BY <2>1, <2>3, <1>1, <1>2, <1>3 DEF AdmissionFits, WindowOf
  <2> QED BY <2>2, <2>3
<1>6. ASSUME NEW x \in admitted', x = Entry(a)
      PROVE  AdmissionFits(x)'
  <2>1. resetTime'[a] = w.start + WindowSeconds /\ hits'[a] = w.hit
    BY <1>2, <1>3
  <2>2. x.from = a /\ x.at = clock /\ x.start = w.start /\ x.hit = w.hit
    BY <1>4, <1>6
  <2> QED
    BY <2>1, <2>2, <1>1, <1>2, <1>3 DEF AdmissionFits, WindowOf, Second
<1>7. ASSUME NEW x \in admitted, x.from = a
      PROVE  /\ \/ x.start = w.start \/ x.start + WindowSeconds <= w.start
             /\ x.start = w.start => x.hit < w.hit
  <2>1. AdmissionFits(x)
    BY DEF LimiterInv
  <2> QED
    BY <2>1, <1>1, <1>3, <1>7 DEF AdmissionFits, WindowOf, Second
<1>8. ASSUME NEW x \in admitted', NEW y \in admitted'
      PROVE  AdmissionsApart(x, y)'
  <2>1. CASE x \in admitted /\ y \in admitted
    BY <2>1 DEF LimiterInv, AdmissionsApart
  <2>2. CASE x \in admitted /\ y = Entry(a)
    BY <2>2, <1>1, <1>3, <1>4, <1>7 DEF AdmissionsApart, Second
  <2>3. CASE x = Entry(a) /\ y \in admitted
    BY <2>3, <1>1, <1>3, <1>4, <1>7 DEF AdmissionsApart, Second
  <2>4. CASE x = Entry(a) /\ y = Entry(a)
    BY <2>4 DEF AdmissionsApart
  <2> QED BY <2>1, <2>2, <2>3, <2>4, <1>2
<1>9. ASSUME NEW x \in admitted'
      PROVE  AdmissionFits(x)'
  BY <1>2, <1>5, <1>6, <1>9
<1> QED
  BY <1>8, <1>9

LEMMA HitKeepsType ==
    ASSUME LimiterInv, NEW a \in Address, Hit(a)
    PROVE  LimiterTypeOK' /\ IsFiniteSet(admitted)'
<1>1. /\ WindowAfter(a).hit \in 1 .. MaxHits /\ WindowAfter(a).start \in Second
      /\ WindowAfter(a).start <= clock
  BY HitOpensWindow
<1>2. \/ admitted' = admitted
      \/ Admits(a) /\ admitted' = admitted \cup {Entry(a)}
  BY DEF Hit, Entry
<1>3. Admits(a) => Entry(a) \in Admission
  BY <1>1 DEF Admits, Entry, Admission, LimiterInv, LimiterTypeOK
<1>4. IsFiniteSet(admitted)'
  BY <1>2, FS_AddElement DEF LimiterInv
<1>5. admitted' \subseteq Admission
  BY <1>2, <1>3 DEF LimiterInv, LimiterTypeOK
<1>6. WindowAfter(a).start + WindowSeconds \in 0 .. LastSecond + WindowSeconds
  BY <1>1 DEF Second
<1> QED
  BY <1>1, <1>4, <1>5, <1>6 DEF Hit, LimiterInv, LimiterTypeOK

LEMMA HitKeepsWindows ==
    ASSUME LimiterInv, NEW a \in Address, Hit(a), NEW b \in Address
    PROVE  WindowIsFull(b)'
<1>1. /\ WindowAfter(a).hit \in 1 .. MaxHits /\ WindowAfter(a).start \in Second
      /\ WindowAfter(a).start <= clock
      /\ \/ WindowAfter(a).start = WindowOf(a) /\ WindowAfter(a).hit = hits[a] + 1
         \/ WindowAfter(a).hit = 1 /\ WindowAfter(a).start >= resetTime[a]
  BY HitOpensWindow
<1>2. /\ clock \in Nat /\ hits \in [Address -> Nat] /\ resetTime \in [Address -> Nat]
      /\ WindowIsFull(b)
  BY DEF LimiterInv, LimiterTypeOK, Second
<1>3. CASE b # a
  BY <1>2, <1>3 DEF Hit, WindowIsFull, WindowOf
<1>4. CASE b = a
  <2>1. hits'[a] = WindowAfter(a).hit /\ WindowOf(a)' = WindowAfter(a).start
    BY <1>1, <1>2 DEF Hit, WindowOf, Second
  <2>2. resetTime'[a] <= clock' + WindowSeconds /\ resetTime'[a] >= WindowSeconds
    BY <1>1, <1>2 DEF Hit, Second
  <2>3. ASSUME NEW h \in 1 .. Max, h <= WindowAfter(a).hit
        PROVE  \E x \in admitted' : /\ x.from = a
                                    /\ x.start = WindowAfter(a).start /\ x.hit = h
    <3>1. CASE h = WindowAfter(a).hit
      <4>1. Admits(a)
        BY <3>1 DEF Admits
      <4>2. Entry(a) \in admitted'
        BY <4>1 DEF Hit, Entry
      <4> QED BY <3>1, <4>2 DEF Entry
    <3>2. CASE h # WindowAfter(a).hit
      <4>1. WindowAfter(a).start = WindowOf(a) /\ h <= hits[a]
        BY <1>1, <1>2, <2>3, <3>2
      <4>2. \E x \in admitted : x.from = a /\ x.start = WindowOf(a) /\ x.hit = h
        BY <1>2, <1>4, <4>1 DEF WindowIsFull
      <4> QED BY <4>1, <4>2 DEF Hit
    <3> QED BY <3>1, <3>2
  <2> QED BY <1>1, <1>4, <2>1, <2>2, <2>3 DEF WindowIsFull
<1> QED BY <1>3, <1>4

\* The limiter's own steps keep its invariant.
THEOREM LimiterInvariance == LimiterSpec => []LimiterInv
<1>1. LimiterInit => LimiterInv
  BY FS_EmptySet DEF LimiterInit, LimiterInv, LimiterTypeOK, WindowIsFull, NoHits, Second
<1>2. LimiterInv /\ [LimiterNext]_limiterVars => LimiterInv'
  <2> SUFFICES ASSUME LimiterInv, [LimiterNext]_limiterVars
               PROVE  LimiterInv'
    OBVIOUS
  <2>1. CASE Tick
    <3>1. /\ clock \in Nat /\ clock' = clock + 1 /\ clock' \in Second
          /\ UNCHANGED <<hits, resetTime, admitted>>
      BY <2>1 DEF Tick, LimiterInv, LimiterTypeOK, Second
    <3>2. \A x \in admitted : x.at \in Nat
      BY DEF LimiterInv, LimiterTypeOK, Admission, Second
    <3>3. \A a \in Address : resetTime[a] \in Nat
      BY DEF LimiterInv, LimiterTypeOK
    <3>4. \A x \in admitted : AdmissionFits(x)'
      BY <3>1, <3>2 DEF LimiterInv, AdmissionFits, WindowOf
    <3>5. \A a \in Address : WindowIsFull(a)'
      BY <3>1, <3>3 DEF LimiterInv, WindowIsFull, WindowOf
    <3> QED BY <3>1, <3>4, <3>5 DEF LimiterInv, LimiterTypeOK, AdmissionsApart
  <2>2. CASE Forget
    BY <2>2, FS_EmptySet DEF Forget, LimiterInv, LimiterTypeOK, WindowIsFull, NoHits, Second
  <2>3. CASE \E a \in Address : Hit(a)
    BY <2>3, HitKeepsAdmissions, HitKeepsType, HitKeepsWindows DEF LimiterInv
  <2>4. CASE UNCHANGED limiterVars
    BY <2>4 DEF limiterVars, LimiterInv, LimiterTypeOK, AdmissionFits, AdmissionsApart,
                WindowIsFull, WindowOf
  <2> QED BY <2>1, <2>2, <2>3, <2>4 DEF LimiterNext
<1> QED BY <1>1, <1>2, PTL DEF LimiterSpec

\* Two windows at most meet in a minute, and the first of them without its
\* first admission: number the rest of its admissions from 1, and those of the
\* second window from Max.
LEMMA MinuteIsBounded == LimiterInv => MinuteBound
<1> SUFFICES ASSUME LimiterInv, NEW a \in Address, NEW s \in Second
             PROVE  Cardinality(AdmittedWithin(a, s, s + WindowSeconds - 1)) <= 2 * Max - 1
  BY DEF MinuteBound
<1> DEFINE S == AdmittedWithin(a, s, s + WindowSeconds - 1)
           f == [x \in S |-> IF x.start < s THEN x.hit - 1 ELSE x.hit + Max - 1]
<1>1. \A x \in S : /\ AdmissionFits(x) /\ x.from = a
                    /\ x.at \in Nat /\ x.start \in Nat /\ x.hit \in 1 .. Max
                    /\ s <= x.at /\ x.at <= s + WindowSeconds - 1
  BY DEF LimiterInv, LimiterTypeOK, AdmittedWithin, Admission, Second
<1>2. \A x, y \in S : AdmissionsApart(x, y)
  BY DEF LimiterInv, AdmittedWithin
<1> HIDE DEF S
<1>3. ASSUME NEW x \in S
      PROVE  f[x] \in 1 .. 2 * Max - 1
  BY <1>1 DEF AdmissionFits, Second
<1>4. ASSUME NEW x \in S, NEW y \in S, f[x] = f[y]
      PROVE  x = y
  <2>1. x.hit = y.hit /\ (x.start < s <=> y.start < s)
    BY <1>1, <1>4 DEF AdmissionFits, Second
  <2>2. x.start = y.start
    BY <1>1, <1>2, <2>1 DEF AdmissionFits, AdmissionsApart, Second
  <2> QED BY <1>1, <1>2, <2>1, <2>2 DEF AdmissionsApart
<1>5. f \in Injection(S, 1 .. 2 * Max - 1)
  BY <1>3, <1>4 DEF Injection, IsInjective
<1>6. IsFiniteSet(1 .. 2 * Max - 1) /\ Cardinality(1 .. 2 * Max - 1) = 2 * Max - 1
  BY FS_Interval
<1> QED BY <1>5, <1>6, FS_Injection DEF S

\* Any WindowSeconds seconds admit 2 * Max - 1 requests of an address at most.
THEOREM LimiterBounds == LimiterSpec => []MinuteBound
BY LimiterInvariance, MinuteIsBounded, PTL

\* A window that is full holds Max admissions of the last minute.
LEMMA RefusalsEarned == LimiterInv => RefusalsAreEarned
<1> SUFFICES ASSUME LimiterInv, NEW a \in Address, ~Admits(a)
             PROVE  Cardinality(AdmittedWithin(a, clock - WindowSeconds + 1, clock)) >= Max
  BY DEF RefusalsAreEarned
<1> DEFINE S == AdmittedWithin(a, clock - WindowSeconds + 1, clock)
           f == [h \in 1 .. Max |-> CHOOSE x \in S : x.hit = h]
<1>1. clock < resetTime[a] /\ hits[a] >= Max
  BY DEF Admits, WindowAfter, LimiterInv, LimiterTypeOK, Second
<1>2. ASSUME NEW h \in 1 .. Max
      PROVE  \E x \in S : x.hit = h
  <2>1. PICK x \in admitted : x.from = a /\ x.start = WindowOf(a) /\ x.hit = h
    BY <1>1 DEF LimiterInv, WindowIsFull, LimiterTypeOK
  <2>2. AdmissionFits(x) /\ x.at \in Nat /\ x.start \in Nat
    BY DEF LimiterInv, LimiterTypeOK, Admission, Second
  <2>3. x \in S
    BY <1>1, <2>1, <2>2 DEF AdmissionFits, WindowOf, AdmittedWithin, LimiterInv, LimiterTypeOK,
                            Second
  <2> QED BY <2>1, <2>3
<1>3. IsFiniteSet(S)
  BY FS_Subset DEF LimiterInv, AdmittedWithin
<1> HIDE DEF S
<1>4. \A h \in 1 .. Max : f[h] \in S /\ f[h].hit = h
  BY <1>2
<1>5. f \in Injection(1 .. Max, S)
  BY <1>4 DEF Injection, IsInjective
<1>6. Cardinality(1 .. Max) = Max /\ Cardinality(S) \in Nat
  BY <1>3, FS_Interval, FS_CardinalityType
<1>7. Cardinality(1 .. Max) <= Cardinality(S)
  BY <1>3, <1>5, FS_Injection
<1> QED BY <1>6, <1>7 DEF S

-----------------------------------------------------------------------------
(* The process                                                             *)

USE ServerBoundsAssumption

\* The server implements the limiter: a step is a request, a tick, a start
\* that clears it, or leaves it alone.
THEOREM ServerLimits == Spec => LimiterSpec
<1>1. Init => LimiterInit
  BY DEF Init
<1>2. [Next]_vars => [LimiterNext]_limiterVars
  BY DEF Next, vars, LimiterNext, Arrive, Served, Visit, HealthCall, SelectOne, Ping, IsPaused,
         Count, Found, Answer, Signalled, Closed, ForcedExit, Crash, ProcessEnds, Start,
         DatabaseChanges, RedisChanges, RedisRecovers, ServicesAre, Time, limiterVars
<1> QED BY <1>1, <1>2, PTL DEF Spec, LimiterSpec

\* However the process is signalled, crashes and starts again, the minute is
\* bounded and refusals are earned.
THEOREM MinuteBoundHolds == Spec => []MinuteBound
BY ServerLimits, LimiterBounds, PTL

THEOREM RefusalsAreEarnedHolds == Spec => []RefusalsAreEarned
BY ServerLimits, LimiterInvariance, RefusalsEarned, PTL

\* What each finished check of a report says was true when it was made.
ReportInv ==
    /\ call \in {"idle"} \cup Call
    /\ report \in [Service -> Health]
    /\ seen \in [Service -> SUBSET (Connection \cup {"down"})]
    /\ call # "idle" => db \in seen["database"] /\ redis \in seen["redis"] /\ queue \in seen["queues"]
    /\ call \notin {"idle", "select"} =>
          \/ report["database"] = "down" /\ "down" \in seen["database"]
          \/ report["database"] = "healthy" /\ "up" \in seen["database"]
    /\ call \notin {"idle", "select", "ping"} =>
          \/ report["redis"] = "down" /\ "refusing" \in seen["redis"]
          \/ report["redis"] # "down" /\ "up" \in seen["redis"]
    /\ call \notin {"idle", "select", "ping", "isPaused"} =>
          \/ report["queues"] = "down" /\ call = "answer" /\ "refusing" \in seen["queues"]
          \/ report["queues"] # "down" /\ "up" \in seen["queues"]

ServerTypeInv ==
    /\ proc \in {"up", "closing", "down"}
    /\ starts \in 1 .. MaxStarts + 1
    /\ serving \subseteq Address
    /\ db \in {"up", "down"} /\ redis \in Connection /\ queue \in Connection
    /\ changes \in 0 .. MaxChanges
    /\ page \in {"/health", "/"}

ServerInv == ServerTypeInv /\ ReportInv

\* A request to /auth, a signal and the clock leave the report alone.
LEMMA OtherSteps ==
    ASSUME ServerInv, Next,
           ~(\E p \in {"/health", "/"} : Visit(p)), ~HealthCall,
           ~DatabaseChanges, ~RedisChanges, ~RedisRecovers
    PROVE  ServerInv'
<1>1. CASE \E a \in Address : Arrive(a) \/ Served(a)
  BY <1>1 DEF Arrive, Served, ServerInv, ServerTypeInv, ReportInv, serviceVars, healthVars
<1>2. CASE Signalled
  BY <1>2 DEF Signalled, ServerInv, ServerTypeInv, ReportInv, serviceVars, healthVars
<1>3. CASE Closed \/ ForcedExit \/ Crash
  BY <1>3 DEF Closed, ForcedExit, Crash, ProcessEnds, HealthEnds, Unchecked, NothingSeen,
              Service, Health, Call, ServerInv, ServerTypeInv, ReportInv, serviceVars
<1>4. CASE Start
  BY <1>4 DEF Start, ServerInv, ServerTypeInv, ReportInv, serviceVars, healthVars
<1>5. CASE Time
  BY <1>5 DEF Time, ServerInv, ServerTypeInv, ReportInv, serviceVars, healthVars, processVars
<1> QED BY <1>1, <1>2, <1>3, <1>4, <1>5 DEF Next

\* The states of the moment are among those the request has seen.
SeesInv ==
    /\ seen \in [Service -> SUBSET (Connection \cup {"down"})]
    /\ db \in seen["database"] /\ redis \in seen["redis"] /\ queue \in seen["queues"]

LEMMA SeesStates ==
    ASSUME seen \in [Service -> SUBSET (Connection \cup {"down"})],
           NEW d \in {"up", "down"}, NEW r \in Connection, NEW q \in Connection,
           Sees(d, r, q)
    PROVE  /\ seen' \in [Service -> SUBSET (Connection \cup {"down"})]
           /\ d \in seen'["database"] /\ r \in seen'["redis"] /\ q \in seen'["queues"]
           /\ \A x \in Service : seen[x] \subseteq seen'[x]
BY DEF Sees, Service, Connection

LEMMA ReportSteps ==
    ASSUME ServerInv, (\E p \in {"/health", "/"} : Visit(p)) \/ HealthCall
    PROVE  ServerInv'
<1>1. CASE \E p \in {"/health", "/"} : Visit(p)
  <2>1. /\ call' = "select" /\ page' \in {"/health", "/"} /\ Sees(db, redis, queue)
        /\ UNCHANGED <<serviceVars, processVars, report>>
    BY <1>1 DEF Visit
  <2>2. SeesInv'
    BY <2>1, SeesStates DEF ServerInv, ServerTypeInv, ReportInv, serviceVars, SeesInv
  <2> QED
    BY <2>1, <2>2 DEF Call, ServerInv, ServerTypeInv, ReportInv, SeesInv, serviceVars, processVars
<1>2. CASE SelectOne
  BY <1>2 DEF SelectOne, Found, Call, Service, Health, ServerInv, ServerTypeInv, ReportInv,
              serviceVars, processVars
<1>3. CASE Ping
  <2>1. PICK h \in IF redis = "up" THEN {"healthy", "degraded"} ELSE {"down"} :
           Found("isPaused", "redis", h)
    BY <1>3 DEF Ping
  <2>2. redis = "up" \/ redis = "refusing"
    BY <1>3 DEF Ping, Replies, Connection, ServerInv, ServerTypeInv
  <2>3. h \in Health /\ (h = "down" <=> redis = "refusing") /\ call = "ping"
    BY <1>3, <2>1, <2>2 DEF Ping, Health
  <2> QED
    BY <2>1, <2>2, <2>3 DEF Found, Call, Service, ServerInv, ServerTypeInv, ReportInv,
                            serviceVars, processVars
<1>4. CASE IsPaused
  <2>1. queue = "up" \/ queue = "refusing"
    BY <1>4 DEF IsPaused, Replies, Connection, ServerInv, ServerTypeInv
  <2>2. CASE queue = "up"
    <3>1. PICK h \in {"healthy", "degraded"} : Found("waiting", "queues", h)
      BY <1>4, <2>2 DEF IsPaused
    <3> QED
      BY <1>4, <2>2, <3>1 DEF IsPaused, Found, Call, Service, Health, ServerInv, ServerTypeInv,
                              ReportInv, serviceVars, processVars
  <2>3. CASE queue = "refusing"
    <3>1. Found("answer", "queues", "down") /\ call = "isPaused"
      BY <1>4, <2>3 DEF IsPaused
    <3> QED
      BY <2>3, <3>1 DEF Found, Call, Service, Health, ServerInv, ServerTypeInv, ReportInv,
                        serviceVars, processVars
  <2> QED BY <2>1, <2>2, <2>3
<1>5. CASE Count
  <2>1. PICK next \in {"active", "failed", "answer"} :
           Found(next, "queues", report["queues"]) /\ call \in {"waiting", "active", "failed"}
    BY <1>5 DEF Count
  <2> QED
    BY <2>1 DEF Found, Call, Service, Health, ServerInv, ServerTypeInv, ReportInv,
                serviceVars, processVars
<1>6. CASE Answer
  BY <1>6 DEF Answer, HealthEnds, Unchecked, NothingSeen, Service, Health, Call, ServerInv,
              ServerTypeInv, ReportInv, serviceVars, processVars
<1> QED BY <1>1, <1>2, <1>3, <1>4, <1>5, <1>6 DEF HealthCall

LEMMA ServiceSteps ==
    ASSUME ServerInv, DatabaseChanges \/ RedisChanges \/ RedisRecovers
    PROVE  ServerInv'
<1>1. PICK d \in {"up", "down"}, r \in Connection, q \in Connection : ServicesAre(d, r, q)
  <2>1. CASE DatabaseChanges
    BY <2>1 DEF DatabaseChanges, ServerInv, ServerTypeInv
  <2>2. CASE RedisChanges
    BY <2>2 DEF RedisChanges, Connection, ServerInv, ServerTypeInv
  <2>3. CASE RedisRecovers
    BY <2>3 DEF RedisRecovers, Connection, ServerInv, ServerTypeInv
  <2> QED BY <2>1, <2>2, <2>3
<1>2. changes' \in 0 .. MaxChanges
  BY DEF DatabaseChanges, RedisChanges, RedisRecovers, ServerInv, ServerTypeInv
<1>3. ServerTypeInv'
  BY <1>1, <1>2 DEF ServicesAre, ServerInv, ServerTypeInv, processVars
<1>4. CASE call = "idle"
  <2>1. UNCHANGED <<call, report, seen>>
    BY <1>1, <1>4 DEF ServicesAre
  <2> QED
    BY <1>3, <1>4, <2>1 DEF ServerInv, ReportInv
<1>5. CASE call # "idle"
  <2>1. /\ Sees(d, r, q) /\ db' = d /\ redis' = r /\ queue' = q
        /\ UNCHANGED <<call, report>>
    BY <1>1, <1>5 DEF ServicesAre
  <2>2. SeesInv'
    BY <2>1, SeesStates DEF ServerInv, ReportInv, SeesInv
  <2>3. \A x \in Service : seen[x] \subseteq seen'[x]
    BY <2>1, SeesStates DEF ServerInv, ReportInv
  <2> QED
    BY <1>3, <1>5, <2>1, <2>2, <2>3 DEF Service, SeesInv, ServerInv, ReportInv
<1> QED BY <1>4, <1>5

THEOREM ServerInvariance == Spec => []ServerInv
<1>1. Init => ServerInv
  BY DEF Init, NoRequest, Unchecked, NothingSeen, Service, Connection, Health, Call, ServerInv,
         ServerTypeInv, ReportInv
<1>2. ServerInv /\ [Next]_vars => ServerInv'
  <2>1. ServerInv /\ UNCHANGED vars => ServerInv'
    BY DEF vars, serviceVars, healthVars, processVars, ServerInv, ServerTypeInv, ReportInv
  <2> QED BY <2>1, OtherSteps, ReportSteps, ServiceSteps
<1> QED BY <1>1, <1>2, PTL DEF Spec

\* Type correctness.
THEOREM TypeCorrect == Spec => []TypeOK
<1>1. ServerInv /\ LimiterInv => TypeOK
  BY DEF ServerInv, ServerTypeInv, ReportInv, LimiterInv, TypeOK
<1> QED BY <1>1, ServerLimits, LimiterInvariance, ServerInvariance, PTL

\* A 200 and a 503 of /health, and what a report says of the queue, were true
\* of some moment of the request.
THEOREM HealthIsHonestHolds == Spec => []HealthIsHonest
<1>1. ServerInv => HealthIsHonest
  BY DEF ServerInv, ReportInv, HealthIsHonest, StatusCode, Overall
<1> QED BY <1>1, ServerInvariance, PTL
=============================================================================
