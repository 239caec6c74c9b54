---------------------------- MODULE RateLimiter ----------------------------
(***************************************************************************)
(* authRateLimiter: the memory store of express-rate-limit, as the code    *)
(* configures it.  Every request to /auth counts, whatever becomes of it.  *)
(* An address has a window of its own, opened by its first request.        *)
(***************************************************************************)
EXTENDS Integers, FiniteSets

CONSTANTS
    Address,       \* values of req.ip
    Max,           \* requests admitted in a window: RATE_LIMIT_MAX_AUTH, 10
    WindowSeconds, \* length of a window: RATE_LIMIT_WINDOW_MS, a minute
    MaxHits,       \* bound on the requests counted in a window
    LastSecond     \* bound on the clock

ASSUME LimitAssumption == Max \in Nat \ {0} /\ WindowSeconds \in Nat \ {0}
ASSUME LimitBoundsAssumption == MaxHits \in Nat /\ LastSecond \in Nat

VARIABLES
    clock,
    hits,       \* requests of an address in its window
    resetTime,  \* end of the window of an address; 0 if it has none
    admitted    \* history: the requests let through since the process started

limiterVars == <<clock, hits, resetTime, admitted>>

Second == 0 .. LastSecond
Admission == [from : Address, at : Second, start : Second, hit : 1 .. Max]

LimiterTypeOK ==
    /\ clock \in Second
    /\ hits \in [Address -> 0 .. MaxHits]
    /\ resetTime \in [Address -> 0 .. LastSecond + WindowSeconds]
    /\ admitted \subseteq Admission

NoHits == [a \in Address |-> 0]

LimiterInit == clock = 0 /\ hits = NoHits /\ resetTime = NoHits /\ admitted = {}

\* Faulty: the window is over a second too early.
WindowAfterEarly(a) ==
    IF clock + 1 >= resetTime[a]
      THEN [hit |-> 1, start |-> clock]
      ELSE [hit |-> hits[a] + 1, start |-> resetTime[a] - WindowSeconds]

\* Faulty: every request moves the end of the window.
WindowAfterSliding(a) ==
    IF clock >= resetTime[a]
      THEN [hit |-> 1, start |-> clock]
      ELSE [hit |-> hits[a] + 1, start |-> clock]

\* What the next request of an address finds: its number in the window, and
\* when that window was opened.
WindowAfter(a) ==
    IF clock >= resetTime[a]
      THEN [hit |-> 1, start |-> clock]
      ELSE [hit |-> hits[a] + 1, start |-> resetTime[a] - WindowSeconds]

Admits(a) == WindowAfter(a).hit <= Max

\* increment, and the verdict; a refused request counts, too.
Hit(a) ==
    LET w == WindowAfter(a) IN
    /\ w.hit <= MaxHits
    /\ hits' = [hits EXCEPT ![a] = w.hit]
    /\ resetTime' = [resetTime EXCEPT ![a] = w.start + WindowSeconds]
    /\ admitted' = admitted \cup
         {x \in {[from |-> a, at |-> clock, start |-> w.start, hit |-> w.hit]} : Admits(a)}
    /\ UNCHANGED clock

Tick ==
    /\ clock < LastSecond
    /\ clock' = clock + 1
    /\ UNCHANGED <<hits, resetTime, admitted>>

\* The store is memory of the process and starts empty with it.
Forget ==
    /\ hits' = NoHits /\ resetTime' = NoHits /\ admitted' = {}
    /\ UNCHANGED clock

LimiterNext == Tick \/ Forget \/ \E a \in Address : Hit(a)

LimiterSpec == LimiterInit /\ [][LimiterNext]_limiterVars

-----------------------------------------------------------------------------
(* Properties                                                              *)

AdmittedWithin(a, first, last) ==
    {x \in admitted : x.from = a /\ first <= x.at /\ x.at <= last}

\* Windows of an address do not overlap, but two of them may meet inside any
\* one minute: the documented `10 requests / minute' is 19 at worst, never
\* more, as long as the process lives.
MinuteBound ==
    \A a \in Address, s \in Second :
        Cardinality(AdmittedWithin(a, s, s + WindowSeconds - 1)) <= 2 * Max - 1

\* An address is refused only if Max of its requests were admitted during the
\* last minute: requests that are refused, and those of other addresses, cost
\* it nothing.
RefusalsAreEarned ==
    \A a \in Address :
        ~Admits(a) =>
            Cardinality(AdmittedWithin(a, clock - WindowSeconds + 1, clock)) >= Max
=============================================================================
