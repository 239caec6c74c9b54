------------------------------ MODULE Sessions ------------------------------
(***************************************************************************)
(* Accounts and refresh tokens: AuthService and AuthRepository             *)
(* (src/src/modules/auth).  Every HTTP request is a slot r \in Req that    *)
(* performs one database call per step, so that the calls of two requests  *)
(* interleave as they do on the event loop and between server instances.   *)
(* What a request read from the database stays in its local variables.     *)
(*                                                                         *)
(* A token family is named by the token that started it.  A client may     *)
(* present any token that was ever issued to it, at any time.              *)
(***************************************************************************)
CONSTANTS
    User,       \* e-mail addresses; at most one account per address
    Token,      \* refresh tokens that can be issued (the bound of a model)
    Req,        \* requests the servers work on at the same time
    NoUser,
    NoToken

ASSUME NoUserAssumption == NoUser \notin User
ASSUME NoTokenAssumption == NoToken \notin Token

VARIABLES
    accounts,   \* rows of table users
    members,    \* users that have a row in org_members
    rows,       \* rows of table refresh_tokens
    owner,      \* column user_id of a token
    family,     \* column family_id of a token
    revoked,    \* tokens whose revoked_at is set
    expired,    \* tokens whose expires_at has passed
    pc,         \* the next database call of a request
    who,        \* the user a request works for
    tok,        \* the token row a request has read
    homed,      \* requests whose token row came with a membership
    reply,      \* how the last request of a slot was answered
    parent,     \* history: the token a token was rotated from
    compromised,\* history: families wiped because of reuse
    signedOut,  \* history: families wiped by logout-all
    late,       \* history: rotations in flight when their family was wiped
    raced,      \* history: tokens a late rotation issued, and their successors
    forked,     \* history: families with a token rotated once it was revoked
    traffic     \* history: have two requests been under way at once?

tokenVars == <<rows, owner, family, parent>>
wipeVars == <<compromised, signedOut, late>>
userVars == <<accounts, members>>
reqVars == <<pc, who, tok, homed, reply, traffic>>
vars == <<userVars, tokenVars, revoked, expired, reqVars, wipeVars, raced, forked>>

Step == {"idle", "create", "issue", "reuse", "expire", "rotate", "reissue",
         "logout", "logoutAll"}

Code == {"none", "ok", "denied", "USER_EMAIL_EXISTS", "INTERNAL_SERVER_ERROR",
         "REFRESH_TOKEN_REUSED", "REFRESH_TOKEN_EXPIRED"}

TypeOK ==
    /\ accounts \subseteq User
    /\ members \subseteq accounts
    /\ rows \subseteq Token
    /\ owner \in [Token -> User \cup {NoUser}]
    /\ family \in [Token -> Token \cup {NoToken}]
    /\ parent \in [Token -> Token \cup {NoToken}]
    /\ \A t \in rows : owner[t] \in User /\ family[t] \in Token
    /\ revoked \subseteq rows
    /\ expired \subseteq rows
    /\ pc \in [Req -> Step]
    /\ who \in [Req -> User \cup {NoUser}]
    /\ tok \in [Req -> Token \cup {NoToken}]
    /\ homed \subseteq Req
    /\ reply \in [Req -> Code]
    /\ compromised \subseteq Token
    /\ signedOut \subseteq Token
    /\ late \subseteq Req
    /\ raced \subseteq Token
    /\ forked \subseteq Token
    /\ traffic \in {"serial", "overlapping"}

Init ==
    /\ accounts = {} /\ members = {}
    /\ rows = {} /\ revoked = {} /\ expired = {}
    /\ owner = [t \in Token |-> NoUser]
    /\ family = [t \in Token |-> NoToken]
    /\ parent = [t \in Token |-> NoToken]
    /\ pc = [r \in Req |-> "idle"]
    /\ who = [r \in Req |-> NoUser]
    /\ tok = [r \in Req |-> NoToken]
    /\ reply = [r \in Req |-> "none"]
    /\ homed = {} /\ late = {} /\ raced = {}
    /\ compromised = {} /\ signedOut = {} /\ forked = {}
    /\ traffic = "serial"

-----------------------------------------------------------------------------
(* The life of a request: it is read, makes its calls, and is answered.    *)

\* Request r has read user u and token row t and goes on with `step'.
Continue(r, step, u, t) ==
    /\ pc' = [pc EXCEPT ![r] = step]
    /\ who' = [who EXCEPT ![r] = u]
    /\ tok' = [tok EXCEPT ![r] = t]
    /\ reply' = [reply EXCEPT ![r] = "none"]
    /\ traffic' = IF \E s \in Req \ {r} : pc[s] # "idle" THEN "overlapping" ELSE traffic

\* The controller or the error handler answers r, which keeps nothing.
Answer(r, code) ==
    /\ pc' = [pc EXCEPT ![r] = "idle"]
    /\ who' = [who EXCEPT ![r] = NoUser]
    /\ tok' = [tok EXCEPT ![r] = NoToken]
    /\ homed' = homed \ {r}
    /\ reply' = [reply EXCEPT ![r] = code]
    /\ UNCHANGED traffic

-----------------------------------------------------------------------------
(* The statements of AuthRepository.                                       *)

\* createRefreshToken: a new row for u in family f; p is its predecessor.
InsertToken(t, u, f, p) ==
    /\ t \in Token \ rows
    /\ rows' = rows \cup {t}
    /\ owner' = [owner EXCEPT ![t] = u]
    /\ family' = [family EXCEPT ![t] = f]
    /\ parent' = [parent EXCEPT ![t] = p]

\* Faulty: the update is forgotten.
RevokeTokenForgotten(t) == revoked' = revoked

\* revokeRefreshToken: an update by id, whether or not the row is revoked.
RevokeToken(t) == revoked' = revoked \cup {t}

\* Faulty: the family is looked for among the ids.
RevokeFamilyRoot(f) == revoked' = revoked \cup {f}

\* Faulty: every row is hit.
RevokeFamilyAll(f) == revoked' = revoked \cup rows

\* revokeTokenFamily: one UPDATE over the rows of the family at that moment.
RevokeFamily(f) == revoked' = revoked \cup {t \in rows : family[t] = f}

\* Faulty: rotated sessions are overlooked.
RevokeUserLogins(u) ==
    revoked' = revoked \cup {t \in rows : owner[t] = u /\ parent[t] = NoToken}

\* revokeAllUserRefreshTokens: one UPDATE over the user's rows.
RevokeUser(u) == revoked' = revoked \cup {t \in rows : owner[t] = u}

\* A rotation has passed its check and has not stored its successor.
Rotating(r) == pc[r] \in {"rotate", "reissue"}
RotatingIn(f) == {r \in Req : Rotating(r) /\ family[tok[r]] = f}

\* The families of the tokens a user holds.
FamiliesOf(u) == {family[t] : t \in {x \in rows : owner[x] = u}}
-----------------------------------------------------------------------------
(* POST /auth/register                                                     *)

\* The e-mail address is taken when the request looks it up.
RegisterConflict(r, u) ==
    /\ pc[r] = "idle" /\ u \in accounts
    /\ Answer(r, "USER_EMAIL_EXISTS")
    /\ UNCHANGED <<userVars, tokenVars, revoked, expired, wipeVars, raced, forked>>

\* The address is free; the request hashes the password with that knowledge.
RegisterLookup(r, u) ==
    /\ pc[r] = "idle" /\ u \in User \ accounts
    /\ Continue(r, "create", u, NoToken)
    /\ UNCHANGED <<userVars, tokenVars, revoked, expired, homed, wipeVars, raced, forked>>

\* The transaction creates user, organization and membership together.
RegisterCreate(r) ==
    /\ pc[r] = "create" /\ who[r] \notin accounts
    /\ accounts' = accounts \cup {who[r]}
    /\ members' = members \cup {who[r]}
    /\ Continue(r, "issue", who[r], NoToken)
    /\ UNCHANGED <<tokenVars, revoked, expired, homed, wipeVars, raced, forked>>

\* Another request created the address meanwhile: the unique index rejects
\* the insert and the error handler knows no such error.
RegisterDuplicate(r) ==
    /\ pc[r] = "create" /\ who[r] \in accounts
    /\ Answer(r, "INTERNAL_SERVER_ERROR")
    /\ UNCHANGED <<userVars, tokenVars, revoked, expired, wipeVars, raced, forked>>

(* POST /auth/login                                                        *)

\* Wrong password, unknown address, or an organization u is no member of.
LoginDenied(r) ==
    /\ pc[r] = "idle"
    /\ Answer(r, "denied")
    /\ UNCHANGED <<userVars, tokenVars, revoked, expired, wipeVars, raced, forked>>

\* The memberships come with the user row, so one read decides.
LoginLookup(r, u) ==
    /\ pc[r] = "idle" /\ u \in members
    /\ Continue(r, "issue", u, NoToken)
    /\ UNCHANGED <<userVars, tokenVars, revoked, expired, homed, wipeVars, raced, forked>>

\* Faulty: one family for all the devices of a user.
StartUserFamily(r, t) ==
    /\ pc[r] = "issue"
    /\ \E f \in FamiliesOf(who[r]) \cup {t} : InsertToken(t, who[r], f, NoToken)
    /\ Answer(r, "ok")
    /\ UNCHANGED <<userVars, revoked, expired, wipeVars, raced, forked>>

\* register and login: the first token of a new family.
StartFamily(r, t) ==
    /\ pc[r] = "issue"
    /\ InsertToken(t, who[r], t, NoToken)
    /\ Answer(r, "ok")
    /\ UNCHANGED <<userVars, revoked, expired, wipeVars, raced, forked>>

-----------------------------------------------------------------------------
(* POST /auth/refresh                                                      *)

\* Faulty: revoked rows are not told from live ones.
RefreshVerdictExpiryOnly(t) == IF t \in expired THEN "expire" ELSE "rotate"

\* What refresh decides from the row it has read.
RefreshVerdict(t) ==
    IF t \in revoked THEN "reuse" ELSE IF t \in expired THEN "expire" ELSE "rotate"

\* findRefreshTokenByHash: the row, its user and the user's memberships.
RefreshLookup(r, t) ==
    /\ pc[r] = "idle" /\ t \in rows
    /\ Continue(r, RefreshVerdict(t), owner[t], t)
    /\ homed' = IF owner[t] \in members THEN homed \cup {r} ELSE homed
    /\ UNCHANGED <<userVars, tokenVars, revoked, expired, wipeVars, raced, forked>>

\* No row has the hash of what the client sent.
RefreshUnknown(r) ==
    /\ pc[r] = "idle"
    /\ Answer(r, "denied")
    /\ UNCHANGED <<userVars, tokenVars, revoked, expired, wipeVars, raced, forked>>

\* A revoked token was presented: its whole family is revoked.
RefreshReuse(r) ==
    /\ pc[r] = "reuse"
    /\ RevokeFamily(family[tok[r]])
    /\ compromised' = compromised \cup {family[tok[r]]}
    /\ late' = late \cup RotatingIn(family[tok[r]])
    /\ Answer(r, "REFRESH_TOKEN_REUSED")
    /\ UNCHANGED <<userVars, tokenVars, expired, signedOut, raced, forked>>

\* An expired token was presented: only that token is revoked.
RefreshExpire(r) ==
    /\ pc[r] = "expire"
    /\ RevokeToken(tok[r])
    /\ Answer(r, "REFRESH_TOKEN_EXPIRED")
    /\ UNCHANGED <<userVars, tokenVars, expired, wipeVars, raced, forked>>

\* The token is revoked without looking at the row again.  Only then is a
\* user who had no membership at the lookup turned away.
RefreshRotate(r) ==
    /\ pc[r] = "rotate"
    /\ RevokeToken(tok[r])
    /\ forked' = IF tok[r] \in revoked THEN forked \cup {family[tok[r]]} ELSE forked
    /\ IF r \in homed
         THEN /\ Continue(r, "reissue", who[r], tok[r])
              /\ UNCHANGED <<homed, late>>
         ELSE /\ Answer(r, "denied")
              /\ late' = late \ {r}
    /\ UNCHANGED <<userVars, tokenVars, expired, compromised, signedOut, raced>>

\* The successor is stored in the family of the token that was presented.
RefreshReissue(r, t) ==
    /\ pc[r] = "reissue"
    /\ InsertToken(t, who[r], family[tok[r]], tok[r])
    /\ raced' = IF r \in late \/ tok[r] \in raced THEN raced \cup {t} ELSE raced
    /\ late' = late \ {r}
    /\ Answer(r, "ok")
    /\ UNCHANGED <<userVars, revoked, expired, compromised, signedOut, forked>>

-----------------------------------------------------------------------------
(* POST /auth/logout and POST /auth/logout-all                             *)

\* The row is live when logout reads it.
LogoutLookup(r, t) ==
    /\ pc[r] = "idle" /\ t \in rows \ revoked
    /\ Continue(r, "logout", owner[t], t)
    /\ UNCHANGED <<userVars, tokenVars, revoked, expired, homed, wipeVars, raced, forked>>

\* No such row, or it is revoked already: logout still answers success.
LogoutNothing(r) ==
    /\ pc[r] = "idle"
    /\ Answer(r, "ok")
    /\ UNCHANGED <<userVars, tokenVars, revoked, expired, wipeVars, raced, forked>>

LogoutRevoke(r) ==
    /\ pc[r] = "logout"
    /\ RevokeToken(tok[r])
    /\ Answer(r, "ok")
    /\ UNCHANGED <<userVars, tokenVars, expired, wipeVars, raced, forked>>

\* The middleware authenticates the access token of a member.
LogoutAllAuthenticate(r, u) ==
    /\ pc[r] = "idle" /\ u \in members
    /\ Continue(r, "logoutAll", u, NoToken)
    /\ UNCHANGED <<userVars, tokenVars, revoked, expired, homed, wipeVars, raced, forked>>

LogoutAll(r) ==
    /\ pc[r] = "logoutAll"
    /\ RevokeUser(who[r])
    /\ signedOut' = signedOut \cup FamiliesOf(who[r])
    /\ late' = late \cup UNION {RotatingIn(f) : f \in FamiliesOf(who[r])}
    /\ Answer(r, "ok")
    /\ UNCHANGED <<userVars, tokenVars, expired, compromised, raced, forked>>

-----------------------------------------------------------------------------
(* What happens around the requests.                                       *)

\* The server process dies or a statement fails between two calls.
Abort(r) ==
    /\ pc[r] # "idle"
    /\ Answer(r, "none")
    /\ late' = late \ {r}
    /\ UNCHANGED <<userVars, tokenVars, revoked, expired, compromised, signedOut, raced, forked>>

\* Seven days have passed since t was issued.
Expire(t) ==
    /\ t \in rows \ expired
    /\ expired' = expired \cup {t}
    /\ UNCHANGED <<userVars, tokenVars, revoked, reqVars, wipeVars, raced, forked>>

\* The last membership of u is deleted (or cascades from its organization).
LoseMembership(u) ==
    /\ u \in members
    /\ members' = members \ {u}
    /\ UNCHANGED <<accounts, tokenVars, revoked, expired, reqVars, wipeVars, raced, forked>>

-----------------------------------------------------------------------------
Register(r) ==
    \/ \E u \in User : RegisterConflict(r, u) \/ RegisterLookup(r, u)
    \/ RegisterCreate(r)
    \/ RegisterDuplicate(r)

Login(r) ==
    \/ LoginDenied(r)
    \/ \E u \in User : LoginLookup(r, u)
    \/ \E t \in Token : StartFamily(r, t)

Refresh(r) ==
    \/ RefreshUnknown(r)
    \/ \E t \in Token : RefreshLookup(r, t) \/ RefreshReissue(r, t)
    \/ RefreshReuse(r)
    \/ RefreshExpire(r)
    \/ RefreshRotate(r)

Logout(r) ==
    \/ LogoutNothing(r)
    \/ \E t \in Token : LogoutLookup(r, t)
    \/ LogoutRevoke(r)
    \/ \E u \in User : LogoutAllAuthenticate(r, u)
    \/ LogoutAll(r)

Environment ==
    \/ \E r \in Req : Abort(r)
    \/ \E t \in Token : Expire(t)
    \/ \E u \in User : LoseMembership(u)

Next ==
    \/ \E r \in Req : Register(r) \/ Login(r) \/ Refresh(r) \/ Logout(r)
    \/ Environment

Spec == Init /\ [][Next]_vars

-----------------------------------------------------------------------------
(* Properties.  A token is unrevoked in the sense of the table: expired    *)
(* tokens count as unrevoked until someone revokes them.                   *)

UnrevokedIn(f) == {t \in rows \ revoked : family[t] = f}

\* A successor exists only once its predecessor is revoked, and belongs to
\* the same user and the same family: a rotation that dies halfway, or two
\* that overlap, never leave predecessor and successor both unrevoked
\* (refresh revokes before it stores).
SuccessorRetiresParent ==
    \A t \in rows : parent[t] # NoToken =>
        /\ parent[t] \in revoked
        /\ family[t] = family[parent[t]]
        /\ owner[t] = owner[parent[t]]

\* A family has two unrevoked tokens only when one of its tokens was rotated
\* by a request that had read it unrevoked and revoked it when it already
\* was revoked (the read and the update of refresh are two calls).
ForkNeedsStaleRotation ==
    \A t, u \in rows \ revoked :
        family[t] = family[u] /\ family[t] \notin forked => t = u

\* An unrevoked token of a wiped family descends from a rotation that had
\* read its token before the wipe and stored its successor after it: nothing
\* else outlives reuse detection or logout-all.
WipeSurvivorsRaced ==
    \A t \in rows \ revoked :
        family[t] \in compromised \cup signedOut => t \in raced

\* The family has no unrevoked token and no rotation under way.
Dead(f) == f \in rows /\ UnrevokedIn(f) = {} /\ RotatingIn(f) = {}

\* Once a family has no unrevoked token and no rotation under way, nothing
\* that clients, crashes or time do gives it an unrevoked token again.
DeadFamilyStaysDead == [][\A f \in Token : Dead(f) => Dead(f)']_vars

\* What a user may rely on is the specification Families.
Phase(f) ==
    IF f \notin rows \/ family[f] # f THEN "none" ELSE IF Dead(f) THEN "over" ELSE "open"

Session == INSTANCE Families WITH
    phase <- [f \in Token |-> Phase(f)],
    holder <- [f \in Token |-> IF Phase(f) = "none" THEN NoUser ELSE owner[f]],
    issued <- [f \in Token |-> {t \in rows : family[t] = f}]

\* A token family is a session of one user: it is never resumed once it is
\* over, no token is in two of them, and no step ends sessions of two users.
KeepsSessions == Session!Spec

\* A token is revoked for good, and only by a request of its own user: by
\* logout-all, by reuse in its own family, or by presenting the token itself.
OnlyOwnersRevoke ==
    [][/\ revoked \subseteq revoked'
       /\ \A t \in revoked' \ revoked : \E r \in Req :
             /\ who[r] = owner[t]
             /\ \/ pc[r] = "logoutAll"
                \/ pc[r] = "reuse" /\ family[tok[r]] = family[t]
                \/ pc[r] \in {"expire", "rotate", "logout"} /\ tok[r] = t]_vars

\* Rotation leaves a family at most one unrevoked token (README "Refresh
\* token rotation").
AtMostOneLive ==
    \A t, u \in rows \ revoked : family[t] = family[u] => t = u

\* The comment and the message of refresh: presenting a revoked token leaves
\* the family without an unrevoked token.
ReuseWipesFamily == \A f \in compromised : UnrevokedIn(f) = {}

\* README, logout-all: no token issued in a session the user had survives.
LogoutAllEndsSessions == \A f \in signedOut : UnrevokedIn(f) = {}

\* Whatever mix of expiry, crashes, reuse and sign-outs a client goes through,
\* the promises hold of a server whose requests have never overlapped: a
\* rotation leaves one live token, ...
SerialRotation == traffic = "serial" => AtMostOneLive

\* ... reuse of a revoked token leaves its family without a live one, ...
SerialReuse == traffic = "serial" => ReuseWipesFamily

\* ... and logout-all ends every session the user had.
SerialLogoutAll == traffic = "serial" => LogoutAllEndsSessions

\* README "reuse compromise detection": when one token was used for two
\* rotations, its family has been wiped.
ReuseDetected ==
    \A t, u \in rows : t # u /\ parent[t] # NoToken /\ parent[t] = parent[u]
                         => family[t] \in compromised

\* Documented error codes: registering an address that is taken is answered
\* with USER_EMAIL_EXISTS, never with an internal error.
DuplicateIsConflict == \A r \in Req : reply[r] # "INTERNAL_SERVER_ERROR"
=============================================================================
