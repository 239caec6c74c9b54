--------------------------- MODULE SessionsProofs ---------------------------
(***************************************************************************)
(* Proofs about Sessions, for any number of users, tokens and requests.    *)
(***************************************************************************)
EXTENDS Sessions, TLAPS

USE NoUserAssumption, NoTokenAssumption

(* The inductive invariant and its parts.                                  *)

\* What a request remembers is a row, and a rotation that is about to store
\* a successor has revoked its token.
RequestInv ==
    \A r \in Req :
        /\ pc[r] \in {"create", "issue", "logoutAll"} => who[r] \in User
        /\ pc[r] \in {"reuse", "expire", "rotate", "reissue", "logout"} =>
             tok[r] \in rows /\ who[r] = owner[tok[r]]
        /\ pc[r] = "reissue" => tok[r] \in revoked

\* A family is named by a row of its one user, so a fresh token starts a
\* fresh family.
FamilyInv ==
    /\ \A t \in rows :
         family[t] \in rows /\ owner[family[t]] = owner[t] /\ family[family[t]] = family[t]
    /\ compromised \subseteq rows
    /\ signedOut \subseteq rows

\* A family without a stale rotation has at most one token or rotation that
\* can carry it on.
ForkInv ==
    /\ \A r, s \in Req :
         /\ pc[r] = "reissue" /\ pc[s] = "reissue"
         /\ family[tok[r]] = family[tok[s]]
         /\ family[tok[r]] \notin forked
         => r = s
    /\ \A r \in Req, t \in rows \ revoked :
         pc[r] = "reissue" /\ family[tok[r]] = family[t] => family[t] \in forked

\* A rotation under way in a wiped family was overtaken by the wipe or works
\* for a token that was issued by one that was.
WipeInv ==
    \A r \in Req :
        Rotating(r) /\ family[tok[r]] \in compromised \cup signedOut =>
            r \in late \/ tok[r] \in raced

-----------------------------------------------------------------------------
(* Types                                                                   *)

\* Every step keeps the types.
LEMMA TypeStep ==
    TypeOK /\ RequestInv /\ [Next]_vars => TypeOK' /\ RequestInv'
<1> SUFFICES ASSUME TypeOK, RequestInv, [Next]_vars
             PROVE  TypeOK' /\ RequestInv'
  OBVIOUS
<1> USE DEF TypeOK, RequestInv, Step, Code, Answer, Continue,
            userVars, tokenVars, wipeVars, reqVars
<1>1. ASSUME NEW r \in Req, Register(r)
      PROVE  TypeOK' /\ RequestInv'
  BY <1>1 DEF Register, RegisterConflict, RegisterLookup, RegisterCreate,
              RegisterDuplicate
<1>2. ASSUME NEW r \in Req, Login(r)
      PROVE  TypeOK' /\ RequestInv'
  BY <1>2 DEF Login, LoginDenied, LoginLookup, StartFamily, InsertToken
<1>3. ASSUME NEW r \in Req, Refresh(r)
      PROVE  TypeOK' /\ RequestInv'
  <2>1. CASE RefreshUnknown(r)
    BY <2>1 DEF RefreshUnknown
  <2>2. ASSUME NEW t \in Token, RefreshLookup(r, t)
        PROVE  TypeOK' /\ RequestInv'
    BY <2>2 DEF RefreshLookup, RefreshVerdict
  <2>3. ASSUME NEW t \in Token, RefreshReissue(r, t)
        PROVE  TypeOK' /\ RequestInv'
    BY <2>3 DEF RefreshReissue, InsertToken
  <2>4. CASE RefreshReuse(r)
    BY <2>4 DEF RefreshReuse, RevokeFamily, RotatingIn
  <2>5. CASE RefreshExpire(r)
    BY <2>5 DEF RefreshExpire, RevokeToken
  <2>6. CASE RefreshRotate(r)
    BY <2>6 DEF RefreshRotate, RevokeToken
  <2>7. QED
    BY <1>3, <2>1, <2>2, <2>3, <2>4, <2>5, <2>6 DEF Refresh
<1>4. ASSUME NEW r \in Req, Logout(r)
      PROVE  TypeOK' /\ RequestInv'
  BY <1>4 DEF Logout, LogoutNothing, LogoutLookup, LogoutRevoke, RevokeToken,
              LogoutAllAuthenticate, LogoutAll, RevokeUser, RotatingIn, FamiliesOf
<1>5. CASE Environment
  BY <1>5 DEF Environment, Abort, Expire, LoseMembership
<1>6. CASE UNCHANGED vars
  BY <1>6 DEF vars
<1>7. QED
  BY <1>1, <1>2, <1>3, <1>4, <1>5, <1>6 DEF Next

\* The types of Sessions hold in every reachable state, and a request that
\* is about to store a successor has revoked the token it replaces.
THEOREM TypeCorrect == Spec => [](TypeOK /\ RequestInv)
<1>1. Init => TypeOK /\ RequestInv
  BY DEF Init, TypeOK, RequestInv, Step, Code
<1>2. QED
  BY <1>1, TypeStep, PTL DEF Spec

-----------------------------------------------------------------------------
(* The steps that matter to token families                                 *)

\* The step leaves the tokens alone and no request begins or alters a
\* rotation, though one may be abandoned.
Quiet ==
    /\ \A r, s \in Req : pc'[r] # pc[r] /\ pc'[s] # pc[s] => r = s
    /\ UNCHANGED <<tokenVars, revoked, compromised, signedOut, raced, forked>>
    /\ \A s \in Req : pc'[s] \in {"rotate", "reissue"} =>
         /\ pc'[s] = pc[s]
         /\ tok'[s] = tok[s]
         /\ s \in late' <=> s \in late

\* Every step is one of eight actions on tokens, or quiet.
LEMMA StepCases ==
    ASSUME TypeOK, [Next]_vars
    PROVE  \/ \E r \in Req, t \in Token : \/ StartFamily(r, t)
                                          \/ RefreshLookup(r, t)
                                          \/ RefreshReissue(r, t)
           \/ \E r \in Req : \/ RefreshReuse(r) \/ RefreshExpire(r)
                             \/ RefreshRotate(r)
                             \/ LogoutRevoke(r) \/ LogoutAll(r)
           \/ Quiet
<1> USE DEF TypeOK, Quiet, Answer, Continue, userVars, tokenVars, wipeVars, reqVars
<1>1. ASSUME NEW r \in Req, Register(r)
      PROVE  Quiet
  BY <1>1 DEF Register, RegisterConflict, RegisterLookup, RegisterCreate,
              RegisterDuplicate
<1>2. ASSUME NEW r \in Req, LoginDenied(r) \/ \E u \in User : LoginLookup(r, u)
      PROVE  Quiet
  BY <1>2 DEF LoginDenied, LoginLookup
<1>3. ASSUME NEW r \in Req, RefreshUnknown(r)
      PROVE  Quiet
  BY <1>3 DEF RefreshUnknown
<1>4. ASSUME NEW r \in Req,
             \/ LogoutNothing(r)
             \/ \E t \in Token : LogoutLookup(r, t)
             \/ \E u \in User : LogoutAllAuthenticate(r, u)
      PROVE  Quiet
  BY <1>4 DEF LogoutNothing, LogoutLookup, LogoutAllAuthenticate
<1>5. ASSUME Environment
      PROVE  Quiet
  BY <1>5 DEF Environment, Abort, Expire, LoseMembership
<1>6. ASSUME UNCHANGED vars
      PROVE  Quiet
  BY <1>6 DEF vars
<1>7. QED
  BY <1>1, <1>2, <1>3, <1>4, <1>5, <1>6 DEF Next, Login, Refresh, Logout

\* Families stay closed: a fresh token is in no family, wiped or not.
LEMMA FamilyStep ==
    TypeOK /\ RequestInv /\ FamilyInv /\ [Next]_vars => FamilyInv'
<1> SUFFICES ASSUME TypeOK, RequestInv, FamilyInv, [Next]_vars
             PROVE  FamilyInv'
  OBVIOUS
<1> USE DEF TypeOK, RequestInv, FamilyInv, userVars, tokenVars, wipeVars
<1>1. ASSUME NEW r \in Req, NEW t \in Token, StartFamily(r, t)
      PROVE  FamilyInv'
  BY <1>1 DEF StartFamily, InsertToken
<1>2. ASSUME NEW r \in Req, NEW t \in Token, RefreshReissue(r, t)
      PROVE  FamilyInv'
  BY <1>2 DEF RefreshReissue, InsertToken
<1>3. ASSUME NEW r \in Req, RefreshReuse(r)
      PROVE  FamilyInv'
  BY <1>3 DEF RefreshReuse
<1>4. ASSUME NEW r \in Req, LogoutAll(r)
      PROVE  FamilyInv'
  BY <1>4 DEF LogoutAll, FamiliesOf
<1>5. ASSUME UNCHANGED <<tokenVars, compromised, signedOut>>
      PROVE  FamilyInv'
  BY <1>5
<1>6. QED
  BY <1>1, <1>2, <1>3, <1>4, <1>5, StepCases
     DEF RefreshLookup, RefreshExpire, RefreshRotate, LogoutRevoke, Quiet

-----------------------------------------------------------------------------
(* Rotation                                                                *)

\* In every reachable state a successor's predecessor is revoked and belongs
\* to the same user and family.
THEOREM RotationRetires == Spec => []SuccessorRetiresParent
<1> DEFINE I == TypeOK /\ RequestInv /\ SuccessorRetiresParent
               /\ \A t \in rows : parent[t] \in rows \cup {NoToken}
<1>1. Init => I
  BY DEF Init, TypeOK, RequestInv, Step, Code, SuccessorRetiresParent
<1>2. I /\ [Next]_vars => I'
  <2> SUFFICES ASSUME I, [Next]_vars
               PROVE  I'
    OBVIOUS
  <2> DEFINE J == SuccessorRetiresParent
                    /\ \A t \in rows : parent[t] \in rows \cup {NoToken}
  <2> USE DEF TypeOK, RequestInv, SuccessorRetiresParent, tokenVars
  <2>1. ASSUME NEW r \in Req, NEW t \in Token, StartFamily(r, t)
        PROVE  J'
    BY <2>1 DEF StartFamily, InsertToken
  <2>2. ASSUME NEW r \in Req, NEW t \in Token, RefreshReissue(r, t)
        PROVE  J'
    BY <2>2 DEF RefreshReissue, InsertToken
  <2>3. ASSUME UNCHANGED tokenVars, revoked \subseteq revoked'
        PROVE  J'
    BY <2>3
  <2>4. J'
    BY <2>1, <2>2, <2>3, StepCases
       DEF RefreshLookup, RefreshReuse, RevokeFamily, RefreshExpire, RefreshRotate,
           LogoutRevoke, RevokeToken, LogoutAll, RevokeUser, Quiet
  <2>5. QED
    BY <2>4, TypeStep
<1>3. QED
  BY <1>1, <1>2, PTL DEF Spec

IInv == TypeOK /\ RequestInv /\ FamilyInv

\* Initially there is neither token nor request.
LEMMA InitIInv == Init => IInv
BY DEF Init, IInv, TypeOK, RequestInv, FamilyInv, Step, Code

\* Types, requests and families together are inductive.
LEMMA IInvStep == IInv /\ [Next]_vars => IInv'
BY TypeStep, FamilyStep DEF IInv

-----------------------------------------------------------------------------
(* One unrevoked token per family                                          *)

\* In every reachable state a family with two unrevoked tokens has had a
\* token rotated on a stale read.
THEOREM ForksAreStale == Spec => []ForkNeedsStaleRotation
<1> DEFINE J == ForkNeedsStaleRotation /\ ForkInv
<1>1. Init => J
  BY DEF Init, ForkNeedsStaleRotation, ForkInv
<1>2. IInv /\ J /\ [Next]_vars => J'
  <2> SUFFICES ASSUME IInv, J, [Next]_vars
               PROVE  J'
    OBVIOUS
  <2> USE DEF IInv, TypeOK, RequestInv, FamilyInv, ForkNeedsStaleRotation, ForkInv,
              Answer, Continue, tokenVars
  <2>1. ASSUME NEW r \in Req, NEW t \in Token, StartFamily(r, t)
        PROVE  J'
    BY <2>1 DEF StartFamily, InsertToken
  <2>2. ASSUME NEW r \in Req, NEW t \in Token, RefreshLookup(r, t)
        PROVE  J'
    <3>1. RefreshVerdict(t) # "reissue"
      BY DEF RefreshVerdict
    <3>2. QED
      BY <2>2, <3>1 DEF RefreshLookup
  <2>3. ASSUME NEW r \in Req, NEW t \in Token, RefreshReissue(r, t)
        PROVE  J'
    BY <2>3 DEF RefreshReissue, InsertToken
  <2>4. ASSUME NEW r \in Req, RefreshReuse(r) \/ RefreshExpire(r)
        PROVE  J'
    BY <2>4 DEF RefreshReuse, RevokeFamily, RefreshExpire, RevokeToken
  <2>5. ASSUME NEW r \in Req, RefreshRotate(r)
        PROVE  J'
    BY <2>5 DEF RefreshRotate, RevokeToken
  <2>6. ASSUME NEW r \in Req, LogoutRevoke(r) \/ LogoutAll(r)
        PROVE  J'
    BY <2>6 DEF LogoutRevoke, RevokeToken, LogoutAll, RevokeUser
  <2>7. ASSUME Quiet
        PROVE  J'
    BY <2>7 DEF Quiet
  <2>8. QED
    BY <2>1, <2>2, <2>3, <2>4, <2>5, <2>6, <2>7, StepCases
<1>3. QED
  BY <1>1, <1>2, InitIInv, IInvStep, PTL DEF Spec

-----------------------------------------------------------------------------
(* Wiped families                                                          *)

\* In every reachable state the unrevoked tokens of a wiped family stem from
\* rotations that the wipe overtook.
THEOREM WipesAreThorough == Spec => []WipeSurvivorsRaced
<1> DEFINE J == WipeSurvivorsRaced /\ WipeInv
<1>1. Init => J
  BY DEF Init, WipeSurvivorsRaced, WipeInv, Rotating
<1>2. IInv /\ J /\ [Next]_vars => J'
  <2> SUFFICES ASSUME IInv, J, [Next]_vars
               PROVE  J'
    OBVIOUS
  <2> USE DEF IInv, TypeOK, RequestInv, FamilyInv, WipeSurvivorsRaced, WipeInv,
              Rotating, Answer, Continue, tokenVars, wipeVars
  <2>1. ASSUME NEW r \in Req, NEW t \in Token, StartFamily(r, t)
        PROVE  J'
    BY <2>1 DEF StartFamily, InsertToken
  <2>2. ASSUME NEW r \in Req, NEW t \in Token, RefreshLookup(r, t)
        PROVE  J'
    <3>1. RefreshVerdict(t) # "reissue"
      BY DEF RefreshVerdict
    <3>2. RefreshVerdict(t) = "rotate" => t \notin revoked
      BY DEF RefreshVerdict
    <3>3. QED
      BY <2>2, <3>1, <3>2 DEF RefreshLookup
  <2>3. ASSUME NEW r \in Req, NEW t \in Token, RefreshReissue(r, t)
        PROVE  J'
    BY <2>3 DEF RefreshReissue, InsertToken
  <2>4. ASSUME NEW r \in Req, RefreshReuse(r)
        PROVE  J'
    BY <2>4 DEF RefreshReuse, RevokeFamily, RotatingIn
  <2>5. ASSUME NEW r \in Req, RefreshExpire(r) \/ LogoutRevoke(r)
        PROVE  J'
    BY <2>5 DEF RefreshExpire, LogoutRevoke, RevokeToken
  <2>6. ASSUME NEW r \in Req, RefreshRotate(r)
        PROVE  J'
    BY <2>6 DEF RefreshRotate, RevokeToken
  <2>7. ASSUME NEW r \in Req, LogoutAll(r)
        PROVE  J'
    <3> DEFINE F == FamiliesOf(who[r])
    <3>1. /\ pc' = [pc EXCEPT ![r] = "idle"]
          /\ tok' = [tok EXCEPT ![r] = NoToken]
          /\ UNCHANGED <<rows, family, compromised, raced>>
          /\ signedOut' = signedOut \cup F
      BY <2>7 DEF LogoutAll
    <3>2. \A t \in rows : family[t] \in F => t \in revoked'
      BY <2>7 DEF LogoutAll, RevokeUser, FamiliesOf
    <3>3. \A s \in Req : s \in late \/ (Rotating(s) /\ family[tok[s]] \in F) => s \in late'
      BY <2>7 DEF LogoutAll, RotatingIn
    <3>4. revoked \subseteq revoked'
      BY <2>7 DEF LogoutAll, RevokeUser
    <3>5. WipeSurvivorsRaced'
      BY <3>1, <3>2, <3>4
    <3>6. WipeInv'
      BY <3>1, <3>3
    <3>7. QED
      BY <3>5, <3>6
  <2>8. ASSUME Quiet
        PROVE  J'
    BY <2>8 DEF Quiet
  <2>9. QED
    BY <2>1, <2>2, <2>3, <2>4, <2>5, <2>6, <2>7, <2>8, StepCases
<1>3. QED
  BY <1>1, <1>2, InitIInv, IInvStep, PTL DEF Spec

\* No step continues a family without unrevoked token and without rotation
\* under way.
LEMMA DeadStep ==
    ASSUME IInv, [Next]_vars, NEW f \in Token, Dead(f)
    PROVE  Dead(f)'
<1> USE DEF IInv, TypeOK, RequestInv, FamilyInv, Dead, UnrevokedIn, RotatingIn,
            Rotating, Answer, Continue, tokenVars
<1>1. ASSUME NEW r \in Req, NEW t \in Token, StartFamily(r, t)
      PROVE  Dead(f)'
  BY <1>1 DEF StartFamily, InsertToken
<1>2. ASSUME NEW r \in Req, NEW t \in Token, RefreshLookup(r, t)
      PROVE  Dead(f)'
  <2>1. RefreshVerdict(t) # "reissue"
    BY DEF RefreshVerdict
  <2>2. RefreshVerdict(t) = "rotate" => t \notin revoked
    BY DEF RefreshVerdict
  <2>3. QED
    BY <1>2, <2>1, <2>2 DEF RefreshLookup
<1>3. ASSUME NEW r \in Req, NEW t \in Token, RefreshReissue(r, t)
      PROVE  Dead(f)'
  BY <1>3 DEF RefreshReissue, InsertToken
<1>4. ASSUME NEW r \in Req, \/ RefreshReuse(r) \/ RefreshExpire(r)
                            \/ RefreshRotate(r) \/ LogoutRevoke(r)
                            \/ LogoutAll(r)
      PROVE  Dead(f)'
  BY <1>4 DEF RefreshReuse, RevokeFamily, RefreshExpire, RefreshRotate,
              LogoutRevoke, RevokeToken, LogoutAll, RevokeUser
<1>5. ASSUME Quiet
      PROVE  Dead(f)'
  BY <1>5 DEF Quiet
<1>6. QED
  BY <1>1, <1>2, <1>3, <1>4, <1>5, StepCases

\* Once a family is dead, nothing that clients, crashes or time do revives it.
THEOREM DeadStaysDead == Spec => DeadFamilyStaysDead
<1>1. IInv /\ [Next]_vars => [\A f \in Token : Dead(f) => Dead(f)']_vars
  BY DeadStep
<1>2. QED
  BY <1>1, InitIInv, IInvStep, PTL DEF Spec, DeadFamilyStaysDead

-----------------------------------------------------------------------------
(* Sessions of different users                                             *)

\* Token t is revoked by request r, which works for its owner.
RevokedBy(t, r) ==
    /\ who[r] = owner[t]
    /\ \/ pc[r] = "logoutAll"
       \/ pc[r] = "reuse" /\ family[tok[r]] = family[t]
       \/ pc[r] \in {"expire", "rotate", "logout"} /\ tok[r] = t

\* A family is wiped, and a token revoked, for a request of its user only:
\* the tokens of a family have one owner.
LEMMA RevocationStep ==
    ASSUME IInv, [Next]_vars
    PROVE  /\ revoked \subseteq revoked'
           /\ \A t \in revoked' \ revoked : \E r \in Req : RevokedBy(t, r)
<1> USE DEF IInv, TypeOK, RequestInv, FamilyInv, RevokedBy
<1>1. ASSUME NEW r \in Req, RefreshReuse(r)
      PROVE  /\ revoked \subseteq revoked'
             /\ \A t \in revoked' \ revoked : RevokedBy(t, r)
  <2>1. /\ pc[r] = "reuse" /\ tok[r] \in rows /\ who[r] = owner[tok[r]]
        /\ revoked' = revoked \cup {t \in rows : family[t] = family[tok[r]]}
    BY <1>1 DEF RefreshReuse, RevokeFamily
  <2>2. \A t \in rows : family[t] = family[tok[r]] => owner[t] = who[r]
    BY <2>1
  <2>3. QED
    BY <2>1, <2>2
<1>2. ASSUME NEW r \in Req, RefreshExpire(r) \/ RefreshRotate(r) \/ LogoutRevoke(r)
      PROVE  /\ revoked \subseteq revoked'
             /\ \A t \in revoked' \ revoked : RevokedBy(t, r)
  BY <1>2 DEF RefreshExpire, RefreshRotate, LogoutRevoke, RevokeToken
<1>3. ASSUME NEW r \in Req, LogoutAll(r)
      PROVE  /\ revoked \subseteq revoked'
             /\ \A t \in revoked' \ revoked : RevokedBy(t, r)
  BY <1>3 DEF LogoutAll, RevokeUser
<1>4. ASSUME \/ \E r \in Req, t \in Token : \/ StartFamily(r, t)
                                            \/ RefreshLookup(r, t)
                                            \/ RefreshReissue(r, t)
             \/ Quiet
      PROVE  revoked' = revoked
  BY <1>4 DEF StartFamily, RefreshLookup, RefreshReissue, Quiet
<1>5. QED
  BY <1>1, <1>2, <1>3, <1>4, StepCases

\* No user can end another user's session: a token is revoked by requests of
\* its owner only, and for good.
THEOREM OnlyOwnersRevokeHolds == Spec => OnlyOwnersRevoke
<1> DEFINE A == /\ revoked \subseteq revoked'
                /\ \A t \in revoked' \ revoked : \E r \in Req :
                     /\ who[r] = owner[t]
                     /\ \/ pc[r] = "logoutAll"
                        \/ pc[r] = "reuse" /\ family[tok[r]] = family[t]
                        \/ pc[r] \in {"expire", "rotate", "logout"} /\ tok[r] = t
<1>1. IInv /\ [Next]_vars => [A]_vars
  BY RevocationStep DEF RevokedBy
<1>2. QED
  BY <1>1, InitIInv, IInvStep, PTL DEF Spec, OnlyOwnersRevoke

\* What a step takes away from families, tokens or rotations, it takes from
\* one user.
LEMMA OneUser ==
    ASSUME IInv, [Next]_vars
    PROVE  \E u \in User \cup {NoUser} :
              /\ \A t \in revoked' \ revoked : owner[t] = u
              /\ \A s \in Req : Rotating(s) /\ ~(Rotating(s)' /\ tok'[s] = tok[s])
                                => owner[tok[s]] = u
<1> DEFINE One(u) == /\ \A t \in revoked' \ revoked : owner[t] = u
                     /\ \A s \in Req : Rotating(s) /\ ~(Rotating(s)' /\ tok'[s] = tok[s])
                                       => owner[tok[s]] = u
<1> USE DEF IInv, TypeOK, RequestInv, FamilyInv, Rotating, Answer, Continue
<1>1. ASSUME NEW r \in Req, NEW t \in Token, StartFamily(r, t) \/ RefreshLookup(r, t)
      PROVE  \E u \in User \cup {NoUser} : One(u)
  <2>1. One(NoUser)
    BY <1>1 DEF StartFamily, RefreshLookup
  <2>2. QED
    BY <2>1
<1>2. ASSUME NEW r \in Req, NEW t \in Token, RefreshReissue(r, t)
      PROVE  \E u \in User \cup {NoUser} : One(u)
  <2>1. PICK u \in User : u = who[r]
    BY <1>2 DEF RefreshReissue
  <2>2. One(u)
    BY <1>2, <2>1 DEF RefreshReissue
  <2>3. QED
    BY <2>1, <2>2
<1>3. ASSUME NEW r \in Req, RefreshReuse(r)
      PROVE  \E u \in User \cup {NoUser} : One(u)
  <2>1. PICK u \in User : u = who[r]
    BY <1>3 DEF RefreshReuse
  <2>2. One(u)
    BY <1>3, <2>1 DEF RefreshReuse, RevokeFamily
  <2>3. QED
    BY <2>1, <2>2
<1>4. ASSUME NEW r \in Req, RefreshExpire(r) \/ LogoutRevoke(r)
      PROVE  \E u \in User \cup {NoUser} : One(u)
  <2>1. PICK u \in User : u = who[r]
    BY <1>4 DEF RefreshExpire, LogoutRevoke
  <2>2. One(u)
    BY <1>4, <2>1 DEF RefreshExpire, LogoutRevoke, RevokeToken
  <2>3. QED
    BY <2>1, <2>2
<1>5. ASSUME NEW r \in Req, RefreshRotate(r)
      PROVE  \E u \in User \cup {NoUser} : One(u)
  <2>1. /\ pc[r] = "rotate" /\ tok[r] \in rows /\ who[r] = owner[tok[r]]
        /\ revoked' = revoked \cup {tok[r]}
        /\ \A s \in Req \ {r} : pc'[s] = pc[s] /\ tok'[s] = tok[s]
    BY <1>5 DEF RefreshRotate, RevokeToken
  <2>2. PICK u \in User : u = who[r]
    BY <2>1
  <2>3. One(u)
    BY <2>1, <2>2
  <2>4. QED
    BY <2>2, <2>3
<1>6. ASSUME NEW r \in Req, LogoutAll(r)
      PROVE  \E u \in User \cup {NoUser} : One(u)
  <2>1. PICK u \in User : u = who[r]
    BY <1>6 DEF LogoutAll
  <2>2. One(u)
    BY <1>6, <2>1 DEF LogoutAll, RevokeUser
  <2>3. QED
    BY <2>1, <2>2
<1>7. ASSUME Quiet
      PROVE  \E u \in User \cup {NoUser} : One(u)
  <2>1. CASE \E s \in Req : Rotating(s) /\ ~(Rotating(s)' /\ tok'[s] = tok[s])
    <3>1. PICK s \in Req : Rotating(s) /\ ~(Rotating(s)' /\ tok'[s] = tok[s])
      BY <2>1
    <3>2. \A x \in Req : Rotating(x) /\ ~(Rotating(x)' /\ tok'[x] = tok[x]) => x = s
      BY <1>7, <3>1 DEF Quiet
    <3>3. owner[tok[s]] \in User /\ revoked' = revoked
      BY <1>7, <3>1 DEF Quiet
    <3>4. QED
      BY <3>2, <3>3
  <2>2. CASE ~\E s \in Req : Rotating(s) /\ ~(Rotating(s)' /\ tok'[s] = tok[s])
    BY <1>7, <2>2 DEF Quiet
  <2>3. QED
    BY <2>1, <2>2
<1>8. QED
  BY <1>1, <1>2, <1>3, <1>4, <1>5, <1>6, <1>7, StepCases

-----------------------------------------------------------------------------
(* Sessions implements Families                                            *)

Phases == [f \in Token |-> Phase(f)]
Holders == [f \in Token |-> IF Phase(f) = "none" THEN NoUser ELSE owner[f]]
Issued == [f \in Token |-> {t \in rows : family[t] = f}]

\* A family is over as soon as nothing can carry it on.
LEMMA PhaseIs ==
    ASSUME IInv, NEW f \in Token
    PROVE  /\ Phase(f) = "none" <=> f \notin rows \/ family[f] # f
           /\ Phase(f) = "over" <=> f \in rows /\ family[f] = f /\ Dead(f)
           /\ Phase(f) = "open" <=> f \in rows /\ family[f] = f /\ ~Dead(f)
BY DEF Phase

\* The families of two rotations of one token, and of a new token, are told
\* from all others by the rows alone.
LEMMA OthersKept ==
    ASSUME IInv, NEW r \in Req, NEW t \in Token \ rows, NEW f \in Token, NEW g \in Token, g # f,
           rows' = rows \cup {t}, family' = [family EXCEPT ![t] = f],
           revoked' = revoked, g \in rows,
           pc' = [pc EXCEPT ![r] = "idle"], tok' = [tok EXCEPT ![r] = NoToken],
           Rotating(r) => family[tok[r]] = f
    PROVE  Dead(g)' <=> Dead(g)
<1> USE DEF IInv, TypeOK, RequestInv, FamilyInv
<1>1. UnrevokedIn(g)' = UnrevokedIn(g)
  BY DEF UnrevokedIn
<1>2. RotatingIn(g)' = RotatingIn(g)
  <2>1. \A s \in Req : Rotating(s) => tok[s] \in rows
    BY DEF Rotating
  <2>2. \A s \in Req : Rotating(s)' <=> s # r /\ Rotating(s)
    BY DEF Rotating
  <2>3. \A s \in Req : s # r /\ Rotating(s) => family'[tok'[s]] = family[tok[s]]
    BY <2>1
  <2>4. QED
    BY <2>2, <2>3 DEF RotatingIn
<1>3. QED
  BY <1>1, <1>2 DEF Dead

\* A login opens a session of its user.
LEMMA StartRefines ==
    ASSUME IInv, NEW r \in Req, NEW t \in Token, StartFamily(r, t)
    PROVE  \E u \in User : Session!Start(t, u)
<1> USE DEF IInv, TypeOK, RequestInv, FamilyInv
<1>1. /\ pc[r] = "issue" /\ who[r] \in User /\ t \notin rows
      /\ rows' = rows \cup {t} /\ owner' = [owner EXCEPT ![t] = who[r]]
      /\ family' = [family EXCEPT ![t] = t] /\ revoked' = revoked
      /\ pc' = [pc EXCEPT ![r] = "idle"] /\ tok' = [tok EXCEPT ![r] = NoToken]
  BY DEF StartFamily, InsertToken, Answer
<1>2. PICK u \in User : u = who[r]
  BY <1>1
<1>3. Phase(t) = "none" /\ \A f \in Token : t \notin Issued[f]
  BY <1>1, PhaseIs DEF Issued
<1>4. Phase(t)' = "open"
  <2>1. t \in UnrevokedIn(t)'
    BY <1>1 DEF UnrevokedIn
  <2>2. QED
    BY <1>1, <2>1 DEF Phase, Dead
<1>5. \A g \in Token \ {t} : Phase(g)' = Phase(g)
  <2> SUFFICES ASSUME NEW g \in Token \ {t}
               PROVE  Phase(g)' = Phase(g)
    OBVIOUS
  <2>1. (g \in rows' <=> g \in rows) /\ family'[g] = family[g]
    BY <1>1
  <2>2. g \in rows => (Dead(g)' <=> Dead(g))
    <3>1. ~Rotating(r)
      BY <1>1 DEF Rotating
    <3>2. QED
      BY <1>1, <3>1, OthersKept
  <2>3. QED
    BY <2>1, <2>2 DEF Phase
<1>6. Phases' = [Phases EXCEPT ![t] = "open"]
  BY <1>4, <1>5 DEF Phases
<1>7. Holders' = [Holders EXCEPT ![t] = u]
  <2>1. \A g \in Token \ {t} : owner'[g] = owner[g]
    BY <1>1
  <2>2. owner'[t] = u
    BY <1>1, <1>2
  <2>3. QED
    BY <1>4, <1>5, <2>1, <2>2 DEF Holders
<1>8. Issued' = [Issued EXCEPT ![t] = {t}]
  <2>1. {x \in rows' : family'[x] = t} = {t}
    BY <1>1
  <2>2. \A g \in Token \ {t} : {x \in rows' : family'[x] = g} = {x \in rows : family[x] = g}
    BY <1>1
  <2>3. Issued'[t] = {t} /\ \A g \in Token \ {t} : Issued'[g] = Issued[g]
    BY <2>1, <2>2 DEF Issued
  <2>4. Issued \in [Token -> SUBSET rows] /\ Issued' \in [Token -> SUBSET rows']
    BY DEF Issued
  <2>5. QED
    BY <2>3, <2>4
<1>9. Session!Start(t, u)
  BY <1>3, <1>6, <1>7, <1>8 DEF Session!Start, Session!Fresh, Phases, Holders, Issued
<1>10. QED
  BY <1>9

\* A successor is issued in a session that is open, since its rotation is.
LEMMA IssueRefines ==
    ASSUME IInv, NEW r \in Req, NEW t \in Token, RefreshReissue(r, t)
    PROVE  \E f \in Token : Session!Issue(f, t)
<1> USE DEF IInv, TypeOK, RequestInv, FamilyInv
<1>1. PICK f \in Token : f = family[tok[r]]
  BY DEF RefreshReissue
<1>2. /\ pc[r] = "reissue" /\ tok[r] \in rows /\ f \in rows /\ family[f] = f /\ t \notin rows
      /\ rows' = rows \cup {t} /\ owner' = [owner EXCEPT ![t] = who[r]]
      /\ family' = [family EXCEPT ![t] = f] /\ revoked' = revoked
      /\ pc' = [pc EXCEPT ![r] = "idle"] /\ tok' = [tok EXCEPT ![r] = NoToken]
  BY <1>1 DEF RefreshReissue, InsertToken, Answer
<1>3. Phase(f) = "open" /\ \A g \in Token : t \notin Issued[g]
  <2>1. r \in RotatingIn(f)
    BY <1>1, <1>2 DEF RotatingIn, Rotating
  <2>2. QED
    BY <1>2, <2>1, PhaseIs DEF Issued, Dead
<1>4. Phase(f)' = "open" /\ Phase(t)' = "none" /\ Phase(t) = "none"
  <2>1. t \in UnrevokedIn(f)'
    BY <1>2 DEF UnrevokedIn
  <2>2. QED
    BY <1>2, <2>1 DEF Phase, Dead
<1>5. \A g \in Token : Phase(g)' = Phase(g)
  <2> SUFFICES ASSUME NEW g \in Token \ {f, t}
               PROVE  Phase(g)' = Phase(g)
    BY <1>3, <1>4
  <2>1. (g \in rows' <=> g \in rows) /\ family'[g] = family[g]
    BY <1>2
  <2>2. g \in rows => (Dead(g)' <=> Dead(g))
    BY <1>1, <1>2, OthersKept
  <2>3. QED
    BY <2>1, <2>2 DEF Phase
<1>6. Phases' = Phases
  BY <1>5 DEF Phases
<1>7. Holders' = Holders
  BY <1>2, <1>4, <1>5 DEF Holders
<1>8. Issued' = [Issued EXCEPT ![f] = @ \cup {t}]
  <2>1. {x \in rows' : family'[x] = f} = {x \in rows : family[x] = f} \cup {t}
    BY <1>2
  <2>2. \A g \in Token \ {f} : {x \in rows' : family'[x] = g} = {x \in rows : family[x] = g}
    BY <1>2
  <2>3. Issued'[f] = Issued[f] \cup {t} /\ \A g \in Token \ {f} : Issued'[g] = Issued[g]
    BY <2>1, <2>2 DEF Issued
  <2>4. Issued \in [Token -> SUBSET rows] /\ Issued' \in [Token -> SUBSET rows']
    BY DEF Issued
  <2>5. QED
    BY <2>3, <2>4
<1>9. Session!Issue(f, t)
  BY <1>3, <1>6, <1>7, <1>8 DEF Session!Issue, Session!Fresh, Phases, Holders, Issued
<1>10. QED
  BY <1>9

\* No other step issues a token, and what it ends are sessions of one user.
LEMMA EndRefines ==
    ASSUME IInv, [Next]_vars, UNCHANGED tokenVars
    PROVE  (\E u \in User : Session!End(u)) \/ UNCHANGED <<Phases, Holders, Issued>>
<1> USE DEF IInv, TypeOK, RequestInv, FamilyInv
<1> DEFINE F == {f \in Token : Phase(f) = "open" /\ Phase(f)' = "over"}
<1>1. UNCHANGED <<rows, family, owner>>
  BY DEF tokenVars
<1>2. \A f \in Token : Phase(f)' = IF f \in F THEN "over" ELSE Phase(f)
  <2> SUFFICES ASSUME NEW f \in Token, f \notin F
               PROVE  Phase(f)' = Phase(f)
    OBVIOUS
  <2>1. Dead(f) => Dead(f)'
    BY DeadStep
  <2>2. QED
    BY <1>1, <2>1 DEF Phase
<1>3. UNCHANGED <<Holders, Issued>>
  <2>1. \A f \in Token : Phase(f)' = "none" <=> Phase(f) = "none"
    BY <1>1 DEF Phase
  <2>2. QED
    BY <1>1, <2>1 DEF Holders, Issued
<1>4. PICK u \in User \cup {NoUser} :
          /\ \A t \in revoked' \ revoked : owner[t] = u
          /\ \A s \in Req : Rotating(s) /\ ~(Rotating(s)' /\ tok'[s] = tok[s])
                            => owner[tok[s]] = u
  BY OneUser
<1>5. \A f \in F : owner[f] = u /\ f \in rows
  <2> SUFFICES ASSUME NEW f \in F
               PROVE  owner[f] = u /\ f \in rows
    OBVIOUS
  <2>1. f \in rows /\ ~Dead(f) /\ Dead(f)'
    BY <1>1 DEF Phase
  <2>2. CASE UnrevokedIn(f) # {}
    <3>1. PICK t \in rows \ revoked : family[t] = f
      BY <2>2 DEF UnrevokedIn
    <3>2. t \in revoked'
      BY <1>1, <2>1, <3>1 DEF Dead, UnrevokedIn
    <3>3. QED
      BY <1>4, <2>1, <3>1, <3>2
  <2>3. CASE RotatingIn(f) # {}
    <3>1. PICK s \in Req : Rotating(s) /\ family[tok[s]] = f
      BY <2>3 DEF RotatingIn
    <3>2. ~(Rotating(s)' /\ tok'[s] = tok[s])
      BY <1>1, <2>1, <3>1 DEF Dead, RotatingIn
    <3>3. tok[s] \in rows
      BY <3>1 DEF Rotating
    <3>4. QED
      BY <1>4, <2>1, <3>1, <3>2, <3>3
  <2>4. QED
    BY <2>1, <2>2, <2>3 DEF Dead
<1>6. CASE F = {}
  BY <1>2, <1>3, <1>6 DEF Phases
<1>7. CASE F # {}
  <2>1. u \in User
    BY <1>5, <1>7
  <2>2. F \in SUBSET {f \in Token : Phases[f] = "open" /\ Holders[f] = u}
    BY <1>5 DEF Phases, Holders
  <2>3. Phases' = [f \in Token |-> IF f \in F THEN "over" ELSE Phases[f]]
    BY <1>2 DEF Phases
  <2> HIDE DEF F
  <2>4. Session!End(u)
    BY <1>3, <2>2, <2>3 DEF Session!End, Session!OpenOf, Phases, Holders, Issued
  <2>5. QED
    BY <2>1, <2>4
<1>8. QED
  BY <1>6, <1>7

\* Whatever requests, crashes and time do, token families are sessions: of
\* one user each, never resumed once they are over, and ended for one user
\* at a time.
THEOREM SessionsAreKept == Spec => KeepsSessions
<1>1. Init => Session!Init
  BY DEF Init, Session!Init, Phase
<1>2. ASSUME IInv, [Next]_vars
      PROVE  Session!Next \/ UNCHANGED <<Phases, Holders, Issued>>
  <2>1. \/ \E r \in Req, t \in Token : StartFamily(r, t) \/ RefreshReissue(r, t)
        \/ UNCHANGED tokenVars
    BY <1>2, StepCases
       DEF IInv, RefreshLookup, RefreshReuse, RefreshExpire, RefreshRotate, LogoutRevoke,
           LogoutAll, Quiet
  <2>2. QED
    BY <1>2, <2>1, StartRefines, IssueRefines, EndRefines DEF Session!Next
<1>3. IInv /\ [Next]_vars => [Session!Next]_<<Phases, Holders, Issued>>
  BY <1>2
<1>4. QED
  BY <1>1, <1>3, InitIInv, IInvStep, PTL
     DEF Spec, KeepsSessions, Session!Spec, Phases, Holders, Issued

-----------------------------------------------------------------------------
(* Requests that do not overlap                                            *)

\* While no two requests have overlapped, at most one is under way, and what
\* it has read is still true.
SerialInv ==
    traffic = "serial" =>
        /\ \A r, s \in Req : pc[r] # "idle" /\ pc[s] # "idle" => r = s
        /\ \A r \in Req : pc[r] = "rotate" => tok[r] \notin revoked
        /\ forked = {} /\ late = {} /\ raced = {}

\* A lone request never acts on a stale read and overtakes no rotation.
LEMMA SerialStep ==
    ASSUME IInv, SerialInv, [Next]_vars
    PROVE  SerialInv'
<1> USE DEF IInv, TypeOK, RequestInv, SerialInv, Answer, Continue,
            userVars, tokenVars, wipeVars, reqVars
<1>1. ASSUME NEW r \in Req, Register(r)
      PROVE  SerialInv'
  BY <1>1 DEF Register, RegisterConflict, RegisterLookup, RegisterCreate,
              RegisterDuplicate
<1>2. ASSUME NEW r \in Req, Login(r)
      PROVE  SerialInv'
  BY <1>2 DEF Login, LoginDenied, LoginLookup, StartFamily
<1>3. ASSUME NEW r \in Req, Refresh(r)
      PROVE  SerialInv'
  <2>1. CASE RefreshUnknown(r)
    BY <2>1 DEF RefreshUnknown
  <2>2. ASSUME NEW t \in Token, RefreshLookup(r, t)
        PROVE  SerialInv'
    <3>1. RefreshVerdict(t) = "rotate" => t \notin revoked
      BY DEF RefreshVerdict
    <3>2. RefreshVerdict(t) # "idle"
      BY DEF RefreshVerdict
    <3>3. QED
      BY <2>2, <3>1, <3>2 DEF RefreshLookup
  <2>3. ASSUME NEW t \in Token, RefreshReissue(r, t)
        PROVE  SerialInv'
    BY <2>3 DEF RefreshReissue
  <2>4. CASE RefreshReuse(r)
    BY <2>4 DEF RefreshReuse, RotatingIn, Rotating
  <2>5. CASE RefreshExpire(r)
    BY <2>5 DEF RefreshExpire
  <2>6. CASE RefreshRotate(r)
    BY <2>6 DEF RefreshRotate
  <2>7. QED
    BY <1>3, <2>1, <2>2, <2>3, <2>4, <2>5, <2>6 DEF Refresh
<1>4. ASSUME NEW r \in Req, Logout(r)
      PROVE  SerialInv'
  BY <1>4 DEF Logout, LogoutNothing, LogoutLookup, LogoutRevoke,
              LogoutAllAuthenticate, LogoutAll, RotatingIn, Rotating
<1>5. CASE Environment
  BY <1>5 DEF Environment, Abort, Expire, LoseMembership
<1>6. CASE UNCHANGED vars
  BY <1>6 DEF vars
<1>7. QED
  BY <1>1, <1>2, <1>3, <1>4, <1>5, <1>6 DEF Next

\* Until two requests have overlapped, no rotation is stale and none is
\* overtaken by a wipe.
LEMMA Serial == Spec => []SerialInv
<1>1. Init => SerialInv
  BY DEF Init, SerialInv
<1>2. IInv /\ SerialInv /\ [Next]_vars => SerialInv'
  BY SerialStep
<1>3. QED
  BY <1>1, <1>2, InitIInv, IInvStep, PTL DEF Spec

\* Requests that never overlap leave a family at most one live token.
THEOREM SerialRotationHolds == Spec => []SerialRotation
<1>1. SerialInv /\ ForkNeedsStaleRotation => SerialRotation
  BY DEF SerialInv, ForkNeedsStaleRotation, SerialRotation, AtMostOneLive
<1>2. QED
  BY <1>1, Serial, ForksAreStale, PTL

\* Requests that never overlap wipe a family for good when its token is
\* used again.
THEOREM SerialReuseHolds == Spec => []SerialReuse
<1>1. SerialInv /\ WipeSurvivorsRaced => SerialReuse
  BY DEF SerialInv, WipeSurvivorsRaced, SerialReuse, ReuseWipesFamily, UnrevokedIn
<1>2. QED
  BY <1>1, Serial, WipesAreThorough, PTL

\* Requests that never overlap end all sessions of a user on logout-all.
THEOREM SerialLogoutAllHolds == Spec => []SerialLogoutAll
<1>1. SerialInv /\ WipeSurvivorsRaced => SerialLogoutAll
  BY DEF SerialInv, WipeSurvivorsRaced, SerialLogoutAll, LogoutAllEndsSessions,
         UnrevokedIn
<1>2. QED
  BY <1>1, Serial, WipesAreThorough, PTL
=============================================================================
