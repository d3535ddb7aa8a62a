------------------------ MODULE RefreshTokensProofs ------------------------
(***************************************************************************)
(* The safety of refresh-token families for any tokens, sessions, requests *)
(* and lifetimes.                                                          *)
(*                                                                         *)
(* The argument: a family's set holds its live token and nothing else      *)
(* (Indexed), so revoking through the set misses nothing, and a revoked    *)
(* family's marker lasts as long as its tokens could (Marked), so no       *)
(* request in flight rotates one of them.  While no session has run out,   *)
(* the user's set holds every live token (UserIndexed).                    *)
(***************************************************************************)
EXTENDS RefreshTokens, TLAPS

\* A token that was generated belongs to a family that was issued, access tokens
\* too, and a family ends at most one TTL from now.
Placed ==
    /\ \A t \in Tokens : state[t] # "unused" =>
           family[t] \in Families /\ expires[family[t]] # 0
    /\ \A f \in Families : expires[f] <= now + FamilyTTL
    /\ \A f \in Families : access[f] # 0 => expires[f] # 0

Indexed ==
    /\ \A t \in Tokens : Live(t) => t \in members[family[t]]
    /\ \A f \in Families : \A t \in members[f] : family[t] = f /\ state[t] # "unused"
    /\ \A f \in Families : \A t, u \in members[f] : t = u

Marked == \A f \in revoked : expires[f] # 0 /\ expires[f] <= marker[f]

Carried ==
    \A r \in Requests : req[r].pc # "idle" =>
        req[r].token \in Tokens /\ state[req[r].token] # "unused"

NoneLapsed == \A f \in Families : expires[f] = 0 \/ now < expires[f]

UserIndexed ==
    /\ \A t \in Tokens : state[t] = "live" => userUntil # 0
    /\ userUntil # 0 => \E f \in Families : userUntil = expires[f]
    /\ NoneLapsed => \A t \in Tokens : Live(t) => t \in userSet

SessionInv ==
    TypeOK /\ Placed /\ Indexed /\ Marked /\ Carried /\ RevokedStaysDead /\ UserIndexed

-----------------------------------------------------------------------------

LEMMA SessionInit == ASSUME Init PROVE SessionInv
BY TokenAssumption DEF Init, SessionInv, TypeOK, Placed, Indexed, Marked, Carried,
   RevokedStaysDead, UserIndexed, NoneLapsed, Live

\* While no session has run out, the user's set has not either.
LEMMA UserSetThere ==
    ASSUME SessionInv, NoneLapsed, NEW t \in Tokens, Live(t)
    PROVE  t \in UserTokens
BY DEF SessionInv, TypeOK, Placed, UserIndexed, NoneLapsed, UserTokens, Live

\* A login.
LEMMA SessionIssue ==
    ASSUME SessionInv, NEW f \in Families, NEW t \in Tokens, Issue(f, t)
    PROVE  SessionInv'
<1> USE TokenAssumption
<1>1. TypeOK'
  BY DEF SessionInv, TypeOK, Issue, UserTokens
<1>2. Placed'
  BY DEF SessionInv, TypeOK, Issue, Placed
<1>3. Indexed'
  BY DEF SessionInv, TypeOK, Issue, Placed, Indexed, Live
<1>4. Marked'
  BY DEF SessionInv, TypeOK, Issue, Marked
<1>5. Carried'
  BY DEF SessionInv, TypeOK, Issue, Carried
<1>6. RevokedStaysDead'
  BY DEF SessionInv, TypeOK, Issue, Placed, Marked, RevokedStaysDead, Live
<1>7. UserIndexed'
  <2>1. ASSUME NoneLapsed', NEW u \in Tokens, Live(u)' PROVE u \in userSet'
    <3>1. NoneLapsed
      BY <2>1 DEF SessionInv, TypeOK, Issue, NoneLapsed
    <3>2. CASE u = t
      BY <3>2 DEF Issue
    <3>3. CASE u # t
      <4>1. Live(u)
        BY <2>1, <3>3 DEF SessionInv, TypeOK, Placed, Issue, Live
      <4> QED BY <3>1, <4>1, UserSetThere DEF Issue
    <3> QED BY <3>2, <3>3
  <2>2. userUntil' # 0 /\ userUntil' = expires'[f]
    BY DEF SessionInv, TypeOK, Issue
  <2> QED BY <2>1, <2>2 DEF UserIndexed
<1> QED BY <1>1, <1>2, <1>3, <1>4, <1>5, <1>6, <1>7 DEF SessionInv

\* A step that changes only where a request is.
LEMMA SessionMove ==
    ASSUME SessionInv, UNCHANGED <<now, redis, access, revoked>>,
           TypeOK', Carried'
    PROVE  SessionInv'
BY DEF SessionInv, redis, Placed, Indexed, Marked, RevokedStaysDead, UserIndexed,
   NoneLapsed, Live

\* A rotation.
LEMMA SessionRotate ==
    ASSUME SessionInv, NEW r \in Requests, NEW c \in Tokens, Rotate(r, c)
    PROVE  SessionInv'
<1> DEFINE t == req[r].token
           f == family[t]
<1> USE TokenAssumption DEF Consume, SwapInFamily, SwapInUser
<1>1. /\ t \in Tokens /\ state[t] = "live" /\ state[c] = "unused" /\ t # c
      /\ f \in Families /\ now < expires[f] /\ expires[f] # 0
      /\ marker[f] <= now /\ f \notin revoked
  BY DEF SessionInv, TypeOK, Rotate, Carried, Placed, Marked, Live, Revoked
<1>2. /\ state' = [state EXCEPT ![t] = "consumed", ![c] = "live"]
      /\ family' = [family EXCEPT ![c] = f]
      /\ members' = [members EXCEPT ![f] = (@ \ {t}) \cup {c}]
      /\ userSet' = (UserTokens \ {t}) \cup {c}
      /\ userUntil' = expires[f]
      /\ access' = [access EXCEPT ![f] = now + AccessTTL]
      /\ req' = [req EXCEPT ![r] = [pc |-> "idle", token |-> None]]
      /\ UNCHANGED <<now, expires, marker, revoked>>
  BY DEF Rotate, Done
<1> HIDE DEF t, f
<1>3. TypeOK'
  BY <1>1, <1>2 DEF SessionInv, TypeOK, UserTokens
<1>4. Placed'
  BY <1>1, <1>2 DEF SessionInv, TypeOK, Placed
<1>5. Indexed'
  <2>1. t \in members[f] /\ f = family[t]
    BY <1>1 DEF SessionInv, Indexed, Live, f
  <2>2. members'[f] = {c}
    BY <1>1, <1>2, <2>1 DEF SessionInv, TypeOK, Indexed
  <2>3. \A g \in Families \ {f} : members'[g] = members[g] /\ c \notin members[g]
                                  /\ t \notin members[g]
    BY <1>1, <1>2, <2>1 DEF SessionInv, TypeOK, Indexed
  <2>4. ASSUME NEW u \in Tokens, Live(u)' PROVE u \in members'[family'[u]]
    <3>1. CASE u = c
      BY <1>1, <1>2, <2>2, <3>1 DEF SessionInv, TypeOK
    <3>2. CASE u # c
      <4>1. Live(u) /\ family'[u] = family[u] /\ u # t
        BY <1>1, <1>2, <2>4, <3>2 DEF SessionInv, TypeOK, Live
      <4>2. u \in members[family[u]] /\ family[u] \in Families
        BY <4>1 DEF SessionInv, Indexed, Placed, Live
      <4>3. family[u] # f
        BY <1>1, <2>1, <4>1, <4>2 DEF SessionInv, Indexed
      <4> QED BY <2>3, <4>1, <4>2, <4>3
    <3> QED BY <3>1, <3>2
  <2>5. \A g \in Families : \A u \in members'[g] : family'[u] = g /\ state'[u] # "unused"
    BY <1>1, <1>2, <2>1, <2>2, <2>3 DEF SessionInv, TypeOK, Indexed
  <2>6. \A g \in Families : \A u, v \in members'[g] : u = v
    BY <2>2, <2>3 DEF SessionInv, Indexed
  <2> QED BY <2>4, <2>5, <2>6 DEF Indexed
<1>6. Marked'
  BY <1>1, <1>2 DEF SessionInv, TypeOK, Marked
<1>7. Carried'
  BY <1>1, <1>2 DEF SessionInv, TypeOK, Carried
<1>8. RevokedStaysDead'
  BY <1>1, <1>2 DEF SessionInv, TypeOK, RevokedStaysDead, Live
<1>9. UserIndexed'
  <2>1. ASSUME NoneLapsed', NEW u \in Tokens, Live(u)' PROVE u \in userSet'
    <3>1. NoneLapsed
      BY <1>2, <2>1 DEF NoneLapsed
    <3>2. CASE u = c
      BY <1>2, <3>2
    <3>3. CASE u # c
      <4>1. Live(u) /\ u # t
        BY <1>1, <1>2, <2>1, <3>3 DEF SessionInv, TypeOK, Live
      <4> QED BY <1>2, <3>1, <4>1, UserSetThere
    <3> QED BY <3>2, <3>3
  <2>2. userUntil' # 0 /\ userUntil' = expires'[f]
    BY <1>1, <1>2
  <2> QED BY <1>1, <2>1, <2>2 DEF UserIndexed
<1> QED BY <1>3, <1>4, <1>5, <1>6, <1>7, <1>8, <1>9 DEF SessionInv

\* A revocation: the invariant survives whatever families are revoked, if their
\* markers last and the user's set keeps the tokens of the others.
LEMMA SessionRevoke ==
    ASSUME SessionInv, NEW fs \in SUBSET Families, NEW until \in Nat,
           RevokeFamilies(fs, until),
           \A f \in fs : expires[f] # 0 /\ expires[f] <= until,
           UNCHANGED <<now, access>>,
           userSet' \subseteq Tokens,
           \A t \in UserTokens : family[t] \notin fs /\ Live(t) => t \in userSet',
           req' \in [Requests -> [pc : {"idle", "check", "rotate", "revoke"},
                                  token : Tokens \cup {None}]],
           \A r \in Requests : req'[r].pc # "idle" => req'[r] = req[r]
    PROVE  SessionInv'
<1> DEFINE gone == UNION {FamilySet(f) : f \in fs}
<1>1. /\ state' = [t \in Tokens |-> IF t \in gone THEN "deleted" ELSE state[t]]
      /\ members' = [f \in Families |-> IF f \in fs THEN {} ELSE members[f]]
      /\ marker' = [f \in Families |-> IF f \in fs THEN until ELSE marker[f]]
      /\ revoked' = revoked \cup fs
      /\ UNCHANGED <<family, expires, userUntil>>
  BY DEF RevokeFamilies
<1>2. \A t \in gone : t \in Tokens /\ family[t] \in fs /\ state[t] # "unused"
  BY DEF SessionInv, TypeOK, Indexed, FamilySet
<1>3. \A t \in Tokens : Live(t) /\ family[t] \in fs => t \in gone
  BY DEF SessionInv, TypeOK, Indexed, FamilySet, Live
<1> HIDE DEF gone
<1>4. \A t \in Tokens : Live(t)' => Live(t) /\ family[t] \notin fs
  BY <1>1, <1>3 DEF Live
<1>5. TypeOK'
  BY <1>1 DEF SessionInv, TypeOK
<1>6. Placed'
  BY <1>1, <1>2 DEF SessionInv, TypeOK, Placed
<1>7. Indexed'
  <2>1. ASSUME NEW t \in Tokens, Live(t)' PROVE t \in members'[family'[t]]
    BY <1>1, <1>4, <2>1 DEF SessionInv, Placed, Indexed, Live
  <2>2. \A f \in Families : members'[f] \subseteq members[f]
    BY <1>1
  <2>3. \A t \in Tokens : state[t] # "unused" => state'[t] # "unused"
    BY <1>1
  <2> QED BY <1>1, <2>1, <2>2, <2>3 DEF SessionInv, TypeOK, Indexed
<1>8. Marked'
  BY <1>1 DEF SessionInv, TypeOK, Marked
<1>9. Carried'
  BY <1>1 DEF SessionInv, TypeOK, Carried
<1>10. RevokedStaysDead'
  BY <1>1, <1>4 DEF SessionInv, RevokedStaysDead
<1>11. UserIndexed'
  <2>1. ASSUME NoneLapsed', NEW t \in Tokens, Live(t)' PROVE t \in userSet'
    <3>1. NoneLapsed
      BY <1>1, <2>1 DEF NoneLapsed
    <3> QED BY <1>4, <2>1, <3>1, UserSetThere
  <2>2. \A t \in Tokens : state'[t] = "live" => state[t] = "live"
    BY <1>1
  <2> QED BY <1>1, <2>1, <2>2 DEF SessionInv, UserIndexed
<1> QED BY <1>5, <1>6, <1>7, <1>8, <1>9, <1>10, <1>11 DEF SessionInv

\* The tokens of other families are not in a family's set.
LEMMA OtherFamilies ==
    ASSUME SessionInv, NEW f \in Families, NEW t \in FamilySet(f)
    PROVE  family[t] = f
BY DEF SessionInv, Indexed, FamilySet

\* Every step preserves the invariant; the revocations do by SessionRevoke.
LEMMA SessionNext ==
    ASSUME SessionInv, [Next]_vars PROVE SessionInv'
<1> USE TokenAssumption
<1>1. ASSUME NEW f \in Families, NEW t \in Tokens, Issue(f, t) PROVE SessionInv'
  BY <1>1, SessionIssue
<1>2. ASSUME NEW r \in Requests, NEW t \in Tokens, Present(r, t) \/ Logout(r, t)
      PROVE  SessionInv'
  <2>1. PICK p \in {"check", "revoke"} :
            req' = [req EXCEPT ![r] = [pc |-> p, token |-> t]]
    BY <1>2 DEF Present, Logout
  <2>2. state[t] # "unused"
    BY <1>2 DEF Present, Logout, Live, Tombstone
  <2>3. UNCHANGED <<now, redis, access, revoked>>
    BY <1>2 DEF Present, Logout
  <2>4. TypeOK' /\ Carried'
    BY <2>1, <2>2, <2>3 DEF SessionInv, TypeOK, Carried, redis
  <2> QED BY <2>3, <2>4, SessionMove
<1>3. ASSUME NEW r \in Requests, Accept(r) \/ Reject(r) \/ Refuse(r) PROVE SessionInv'
  <2>1. UNCHANGED <<now, redis, access, revoked>>
    BY <1>3 DEF Accept, Reject, Refuse
  <2>2. TypeOK' /\ Carried'
    BY <1>3, <2>1 DEF Accept, Reject, Refuse, Goto, Done, SessionInv, TypeOK, Carried,
       redis
  <2> QED BY <2>1, <2>2, SessionMove
<1>4. ASSUME NEW r \in Requests, NEW c \in Tokens, Rotate(r, c) PROVE SessionInv'
  BY <1>4, SessionRotate
<1>5. ASSUME NEW r \in Requests, RevokeTokenFamily(r) PROVE SessionInv'
  <2> DEFINE f == family[req[r].token]
  <2>1. f \in Families /\ expires[f] # 0 /\ expires[f] <= now + FamilyTTL
    BY <1>5 DEF RevokeTokenFamily, SessionInv, Placed, Carried
  <2>2. /\ RevokeFamilies({f}, now + FamilyTTL)
        /\ userSet' = UserTokens \ FamilySet(f)
        /\ req' = [req EXCEPT ![r] = [pc |-> "idle", token |-> None]]
        /\ UNCHANGED <<now, access>>
    BY <1>5 DEF RevokeTokenFamily, Done
  <2> HIDE DEF f
  <2>3. userSet' \subseteq Tokens /\ now + FamilyTTL \in Nat
    BY <2>2 DEF SessionInv, TypeOK, UserTokens
  <2>4. \A t \in UserTokens : family[t] \notin {f} => t \in userSet'
    BY <2>1, <2>2, OtherFamilies
  <2>5. /\ req' \in [Requests -> [pc : {"idle", "check", "rotate", "revoke"},
                                  token : Tokens \cup {None}]]
        /\ \A q \in Requests : req'[q].pc # "idle" => req'[q] = req[q]
    BY <2>2 DEF SessionInv, TypeOK
  <2> QED BY <2>1, <2>2, <2>3, <2>4, <2>5, SessionRevoke
<1>6. ASSUME NEW r \in Requests, RotateReplayed(r) PROVE SessionInv'
  <2> DEFINE f == family[req[r].token]
  <2>1. f \in Families /\ expires[f] # 0 /\ expires[f] \in Nat
    BY <1>6 DEF RotateReplayed, SessionInv, TypeOK, Placed, Carried
  <2>2. /\ RevokeFamilies({f}, expires[f])
        /\ userSet' = UserTokens \ FamilySet(f)
        /\ req' = [req EXCEPT ![r] = [pc |-> "idle", token |-> None]]
        /\ UNCHANGED <<now, access>>
    BY <1>6 DEF RotateReplayed, Done
  <2> HIDE DEF f
  <2>3. userSet' \subseteq Tokens
    BY <2>2 DEF SessionInv, TypeOK, UserTokens
  <2>4. \A t \in UserTokens : family[t] \notin {f} => t \in userSet'
    BY <2>1, <2>2, OtherFamilies
  <2>5. /\ req' \in [Requests -> [pc : {"idle", "check", "rotate", "revoke"},
                                  token : Tokens \cup {None}]]
        /\ \A q \in Requests : req'[q].pc # "idle" => req'[q] = req[q]
    BY <2>2 DEF SessionInv, TypeOK
  <2> QED BY <2>1, <2>2, <2>3, <2>4, <2>5, SessionRevoke
<1>7. CASE RevokeUserTokenFamilies
  <2> DEFINE fs == {family[t] : t \in {u \in UserTokens : Live(u)}}
  <2>1. /\ fs \in SUBSET Families
        /\ \A f \in fs : expires[f] # 0 /\ expires[f] <= now + FamilyTTL
    BY DEF SessionInv, TypeOK, Placed, Live, UserTokens
  <2>2. /\ RevokeFamilies(fs, now + FamilyTTL)
        /\ userSet' = {}
        /\ UNCHANGED <<now, access, req>>
    BY <1>7 DEF RevokeUserTokenFamilies
  <2>3. now + FamilyTTL \in Nat
    BY DEF SessionInv, TypeOK
  <2>4. \A t \in UserTokens : family[t] \notin fs /\ Live(t) => t \in userSet'
    OBVIOUS
  <2> HIDE DEF fs
  <2>5. /\ req' \in [Requests -> [pc : {"idle", "check", "rotate", "revoke"},
                                  token : Tokens \cup {None}]]
        /\ \A q \in Requests : req'[q].pc # "idle" => req'[q] = req[q]
    BY <2>2 DEF SessionInv, TypeOK
  <2> QED BY <2>1, <2>2, <2>3, <2>4, <2>5, SessionRevoke
<1>8. ASSUME NEW f \in Families, RevokeSessionFamily(f) PROVE SessionInv'
  <2>1. expires[f] # 0 /\ expires[f] <= now + FamilyTTL
    BY <1>8 DEF RevokeSessionFamily, SessionInv, TypeOK, Placed
  <2>2. /\ RevokeFamilies({f}, now + FamilyTTL)
        /\ userSet' = UserTokens \ FamilySet(f)
        /\ UNCHANGED <<now, access, req>>
    BY <1>8 DEF RevokeSessionFamily
  <2>3. userSet' \subseteq Tokens /\ now + FamilyTTL \in Nat
    BY <2>2 DEF SessionInv, TypeOK, UserTokens
  <2>4. \A t \in UserTokens : family[t] \notin {f} => t \in userSet'
    BY <2>2, OtherFamilies
  <2>5. /\ req' \in [Requests -> [pc : {"idle", "check", "rotate", "revoke"},
                                  token : Tokens \cup {None}]]
        /\ \A q \in Requests : req'[q].pc # "idle" => req'[q] = req[q]
    BY <2>2 DEF SessionInv, TypeOK
  <2> QED BY <2>1, <2>2, <2>3, <2>4, <2>5, SessionRevoke
<1>9. CASE Tick
  <2>1. \A t \in Tokens : Live(t)' => Live(t)
    BY <1>9 DEF Tick, redis, SessionInv, TypeOK, Placed, Live
  <2>2. NoneLapsed' => NoneLapsed
    BY <1>9 DEF Tick, redis, SessionInv, TypeOK, NoneLapsed
  <2>3. TypeOK' /\ Placed' /\ Marked' /\ Carried'
    BY <1>9 DEF Tick, redis, SessionInv, TypeOK, Placed, Marked, Carried
  <2>4. Indexed' /\ RevokedStaysDead' /\ UserIndexed'
    BY <1>9, <2>1, <2>2 DEF Tick, redis, SessionInv, Indexed, RevokedStaysDead,
       UserIndexed
  <2> QED BY <2>3, <2>4 DEF SessionInv
<1>10. CASE UNCHANGED vars
  BY <1>10 DEF vars, redis, SessionInv, TypeOK, Placed, Indexed, Marked, Carried,
     RevokedStaysDead, UserIndexed, NoneLapsed, Live
<1> QED BY <1>1, <1>2, <1>3, <1>4, <1>5, <1>6, <1>7, <1>8, <1>9, <1>10 DEF Next

LEMMA SessionAlways == Spec => []SessionInv
BY SessionInit, SessionNext, PTL DEF Spec

\* Two live tokens of a family are both in its set, which holds one; the marker
\* of a revoked family lasts until its end.
LEMMA SessionImplies ==
    ASSUME SessionInv
    PROVE  OneLiveToken /\ RevokedStaysDead /\ RevokedUntilExpiry
<1>1. OneLiveToken
  BY DEF SessionInv, Placed, Indexed, OneLiveToken, Live
<1>2. RevokedUntilExpiry
  BY DEF SessionInv, TypeOK, Marked, RevokedUntilExpiry, Accepted, Revoked
<1> QED BY <1>1, <1>2 DEF SessionInv

\* Logging out everywhere finds every live token, unless a session has lapsed.
LEMMA LogoutAllStep ==
    ASSUME SessionInv, RevokeUserTokenFamilies, NoneLapsed
    PROVE  RevokesAll
<1> SUFFICES ASSUME NEW t \in Tokens, Live(t)' PROVE FALSE
  BY DEF RevokesAll
<1> DEFINE fs == {family[u] : u \in {v \in UserTokens : Live(v)}}
<1>1. /\ state' = [u \in Tokens |->
                     IF u \in UNION {FamilySet(f) : f \in fs} THEN "deleted"
                     ELSE state[u]]
      /\ UNCHANGED <<now, family, expires>>
  BY DEF RevokeUserTokenFamilies, RevokeFamilies
<1>2. Live(t)
  BY <1>1 DEF Live
<1>3. family[t] \in fs
  BY <1>2, UserSetThere
<1>4. t \in FamilySet(family[t])
  BY <1>2 DEF SessionInv, Indexed, FamilySet, Live
<1> HIDE DEF fs
<1>5. t \in UNION {FamilySet(f) : f \in fs}
  BY <1>3, <1>4
<1> QED BY <1>1, <1>5 DEF Live

\* A session has at most one usable refresh token (rotateRefreshTokenScript).
THEOREM AtMostOneLive == Spec => []OneLiveToken
BY SessionAlways, SessionImplies, PTL

\* A revoked session never has a usable refresh token again (the three revoking
\* scripts, against requests that read the token before).
THEOREM RevokedForGood == Spec => []RevokedStaysDead
BY SessionAlways, SessionImplies, PTL

\* A revoked session's access tokens are rejected at least until the session's
\* own end (the marker's TTL in both revoking scripts).
THEOREM AccessRejected == Spec => []RevokedUntilExpiry
BY SessionAlways, SessionImplies, PTL

\* Logging out everywhere ends every session as long as none has lapsed
\* (revokeUserTokenFamiliesScript and the user's set).
THEOREM LogoutEverywhere == Spec => AllRevokedUnlessLapsed
<1>1. SessionInv =>
        [RevokeUserTokenFamilies /\ (\A f \in Families : expires[f] = 0 \/ now < expires[f])
           => RevokesAll]_vars
  BY LogoutAllStep DEF NoneLapsed
<1> QED BY <1>1, SessionAlways, PTL DEF AllRevokedUnlessLapsed
=============================================================================
