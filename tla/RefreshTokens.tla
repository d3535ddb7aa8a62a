--------------------------- MODULE RefreshTokens ---------------------------
(***************************************************************************)
(* The login sessions of one user: refresh-token families in Redis.  A     *)
(* login issues the first token of a family; a refresh consumes the token  *)
(* and installs its child; presenting a consumed token, a logout or a      *)
(* rejected user revokes the family; "log out everywhere" revokes all of   *)
(* the user's.  Each script is atomic; the service's steps before and      *)
(* after a script interleave with every other request.                     *)
(*                                                                         *)
(* A key with a TTL is absent from the instant it ends.  Every token of a  *)
(* family, its tombstone and the family's set end when the family does.    *)
(***************************************************************************)
EXTENDS Naturals

CONSTANTS
    Tokens,     \* refresh tokens, each generated at most once
    Families,   \* sessions
    Requests,   \* concurrent refresh and logout requests
    FamilyTTL,  \* refreshTokenFamilyTTL()
    AccessTTL,  \* lifetime of an access token
    MaxTime,    \* bound of the clock
    None        \* no token, no family

\* An access token (a day by default) does not outlive a whole session (30 days).
ASSUME TokenAssumption ==
    /\ FamilyTTL \in Nat \ {0} /\ AccessTTL \in Nat /\ MaxTime \in Nat
    /\ AccessTTL <= FamilyTTL
    /\ None \notin Tokens /\ None \notin Families

VARIABLES
    now,        \* the clock
    state,      \* state[t]: "unused", "live", "consumed" (tombstone), "deleted"
    family,     \* family[t]: the FamilyID in t's data
    expires,    \* expires[f]: ExpiresAt of f's tokens, 0 before the login
    members,    \* members[f]: the set token_family:f
    userSet,    \* the set user_refresh_tokens:user
    userUntil,  \* when that set's TTL ends
    marker,     \* marker[f]: when token_family_revoked:f ends, 0 if never set
    access,     \* access[f]: when the last access token of f ends
    req,        \* req[r]: a request's place and the token presented
    revoked     \* ghost: the families that were revoked

redis == <<state, family, expires, members, userSet, userUntil, marker>>
vars == <<now, redis, access, req, revoked>>

Live(t) == state[t] = "live" /\ now < expires[family[t]]
Tombstone(t) == state[t] = "consumed" /\ now < expires[family[t]]
Revoked(f) == now < marker[f]
UserTokens == IF now < userUntil THEN userSet ELSE {}

\* ValidateAccessToken accepts an access token of f.
Accepted(f) == now < access[f] /\ ~Revoked(f)

Init ==
    /\ now = 0
    /\ state = [t \in Tokens |-> "unused"]
    /\ family = [t \in Tokens |-> None]
    /\ expires = [f \in Families |-> 0]
    /\ members = [f \in Families |-> {}]
    /\ userSet = {} /\ userUntil = 0
    /\ marker = [f \in Families |-> 0]
    /\ access = [f \in Families |-> 0]
    /\ req = [r \in Requests |-> [pc |-> "idle", token |-> None]]
    /\ revoked = {}

Goto(r, pc) == req' = [req EXCEPT ![r].pc = pc]
Done(r) == req' = [req EXCEPT ![r] = [pc |-> "idle", token |-> None]]

-----------------------------------------------------------------------------

\* GenerateTokenPair: a new family and its first token.  The user's set lives as
\* long as the token just added to it.
Issue(f, t) ==
    /\ expires[f] = 0
    /\ ~Revoked(f)
    /\ state[t] = "unused"
    /\ state' = [state EXCEPT ![t] = "live"]
    /\ family' = [family EXCEPT ![t] = f]
    /\ expires' = [expires EXCEPT ![f] = now + FamilyTTL]
    /\ members' = [members EXCEPT ![f] = {t}]
    /\ userSet' = UserTokens \cup {t}
    /\ userUntil' = now + FamilyTTL
    /\ access' = [access EXCEPT ![f] = now + AccessTTL]
    /\ UNCHANGED <<now, marker, req, revoked>>

\* RefreshTokenPair reads the token: live, it is checked; consumed, its family
\* must be revoked; unknown, the request is refused (no step).
Present(r, t) ==
    /\ req[r].pc = "idle"
    /\ Live(t) \/ Tombstone(t)
    /\ req' = [req EXCEPT ![r] = [pc |-> IF Live(t) THEN "check" ELSE "revoke",
                                  token |-> t]]
    /\ UNCHANGED <<now, redis, access, revoked>>

\* RevokeRefreshToken reads the token, live or consumed.
Logout(r, t) ==
    /\ req[r].pc = "idle"
    /\ Live(t) \/ Tombstone(t)
    /\ req' = [req EXCEPT ![r] = [pc |-> "revoke", token |-> t]]
    /\ UNCHANGED <<now, redis, access, revoked>>

\* The user is active, with the password and the binding of the token.
Accept(r) ==
    /\ req[r].pc = "check"
    /\ Goto(r, "rotate")
    /\ UNCHANGED <<now, redis, access, revoked>>

\* The user is gone or inactive, or the password or the binding has changed.
Reject(r) ==
    /\ req[r].pc = "check"
    /\ Goto(r, "revoke")
    /\ UNCHANGED <<now, redis, access, revoked>>

\* Redis or the database fails, or the token has meanwhile expired.
Refuse(r) ==
    /\ req[r].pc # "idle"
    /\ Done(r)
    /\ UNCHANGED <<now, redis, access, revoked>>

-----------------------------------------------------------------------------
(* The scripts *)

\* SMEMBERS of the family's set.
FamilySet(f) == IF now < expires[f] THEN members[f] ELSE {}

\* Mutant: the tokens are deleted and no marker is set.
RevokeFamiliesUnmarked(fs, until) ==
    LET gone == UNION {FamilySet(f) : f \in fs} IN
    /\ state' = [t \in Tokens |-> IF t \in gone THEN "deleted" ELSE state[t]]
    /\ members' = [f \in Families |-> IF f \in fs THEN {} ELSE members[f]]
    /\ revoked' = revoked \cup fs
    /\ UNCHANGED <<family, expires, userUntil, marker>>

\* The tokens in the families' sets are deleted, and markers set.
RevokeFamilies(fs, until) ==
    LET gone == UNION {FamilySet(f) : f \in fs} IN
    /\ state' = [t \in Tokens |-> IF t \in gone THEN "deleted" ELSE state[t]]
    /\ members' = [f \in Families |-> IF f \in fs THEN {} ELSE members[f]]
    /\ marker' = [f \in Families |-> IF f \in fs THEN until ELSE marker[f]]
    /\ revoked' = revoked \cup fs
    /\ UNCHANGED <<family, expires, userUntil>>

RevokeTokenFamily(r) ==
    /\ req[r].pc = "revoke"
    /\ LET f == family[req[r].token] IN
         /\ RevokeFamilies({f}, now + FamilyTTL)
         /\ userSet' = UserTokens \ FamilySet(f)
    /\ Done(r)
    /\ UNCHANGED <<now, access>>

\* enforceSessionBinding: a request with an access token of f comes from another
\* address or client than the session was bound to.
RevokeSessionFamily(f) ==
    /\ now < access[f]
    /\ RevokeFamilies({f}, now + FamilyTTL)
    /\ userSet' = UserTokens \ FamilySet(f)
    /\ UNCHANGED <<now, access, req>>

\* The families of the live tokens in the user's set.
RevokeUserTokenFamilies ==
    /\ RevokeFamilies({family[t] : t \in {u \in UserTokens : Live(u)}}, now + FamilyTTL)
    /\ userSet' = {}
    /\ UNCHANGED <<now, access, req>>

\* Mutant: the parent is kept, as a grace for a client that lost the answer.
ConsumeKeepsParent(t, c) == [state EXCEPT ![c] = "live"]

\* The parent becomes a tombstone and the child is stored.
Consume(t, c) == [state EXCEPT ![t] = "consumed", ![c] = "live"]

\* Mutant: the set loses the parent and does not gain the child.
SwapLosesChild(set, t, c) == set \ {t}

\* SREM of the parent and SADD of the child, in the family's and the user's set.
SwapInFamily(set, t, c) == (set \ {t}) \cup {c}

SwapInUser(set, t, c) == (set \ {t}) \cup {c}

\* The child takes the parent's place; the TTLs of both sets become what is left
\* of the family.
Rotate(r, c) ==
    LET t == req[r].token
        f == family[t] IN
    /\ req[r].pc = "rotate"
    /\ ~Revoked(f) /\ Live(t)
    /\ state[c] = "unused"
    /\ state' = Consume(t, c)
    /\ family' = [family EXCEPT ![c] = f]
    /\ members' = [members EXCEPT ![f] = SwapInFamily(@, t, c)]
    /\ userSet' = SwapInUser(UserTokens, t, c)
    /\ userUntil' = expires[f]
    /\ access' = [access EXCEPT ![f] = now + AccessTTL]
    /\ Done(r)
    /\ UNCHANGED <<now, expires, marker, revoked>>

\* Another request has consumed the parent since it was read: the script revokes
\* the family for what is left of it.
RotateReplayed(r) ==
    LET t == req[r].token
        f == family[t] IN
    /\ req[r].pc = "rotate"
    /\ ~Revoked(f) /\ Tombstone(t)
    /\ RevokeFamilies({f}, expires[f])
    /\ userSet' = UserTokens \ FamilySet(f)
    /\ Done(r)
    /\ UNCHANGED <<now, access>>

Tick ==
    /\ now < MaxTime
    /\ now' = now + 1
    /\ UNCHANGED <<redis, access, req, revoked>>

Next ==
    \/ \E f \in Families, t \in Tokens : Issue(f, t)
    \/ \E r \in Requests :
         \/ \E t \in Tokens : Present(r, t) \/ Logout(r, t) \/ Rotate(r, t)
         \/ Accept(r) \/ Reject(r) \/ Refuse(r)
         \/ RevokeTokenFamily(r) \/ RotateReplayed(r)
    \/ \E f \in Families : RevokeSessionFamily(f)
    \/ RevokeUserTokenFamilies
    \/ Tick

Spec == Init /\ [][Next]_vars

-----------------------------------------------------------------------------

TypeOK ==
    /\ now \in Nat
    /\ state \in [Tokens -> {"unused", "live", "consumed", "deleted"}]
    /\ family \in [Tokens -> Families \cup {None}]
    /\ expires \in [Families -> Nat]
    /\ members \in [Families -> SUBSET Tokens]
    /\ userSet \subseteq Tokens /\ userUntil \in Nat
    /\ marker \in [Families -> Nat]
    /\ access \in [Families -> Nat]
    /\ req \in [Requests -> [pc : {"idle", "check", "rotate", "revoke"},
                             token : Tokens \cup {None}]]
    /\ revoked \subseteq Families

\* A session has at most one usable refresh token, however many requests present
\* its tokens at once (rotateRefreshTokenScript consumes and installs in one).
OneLiveToken ==
    \A t, u \in Tokens : Live(t) /\ Live(u) /\ family[t] = family[u] => t = u

\* A revoked session has no usable refresh token and never gets one again, also
\* not from a request that had read its token before (the marker and the family's
\* set outlive the tokens).
RevokedStaysDead == \A t \in Tokens : Live(t) => family[t] \notin revoked

\* An access token of a revoked session is accepted again at most once the
\* session itself would have ended.
RevokedUntilExpiry == \A f \in revoked : Accepted(f) => now >= expires[f]

RevokesAll == \A t \in Tokens : ~Live(t)'

\* "RevokeAllUserSessions revokes all of the user's sessions (all refresh
\* tokens)", as its comment says.
AllSessionsRevoked == [][RevokeUserTokenFamilies => RevokesAll]_vars

\* As long as none of the user's sessions has run out by itself, logging out
\* everywhere ends all of them (the user's set holds every live token).
AllRevokedUnlessLapsed ==
    [][RevokeUserTokenFamilies /\ (\A f \in Families : expires[f] = 0 \/ now < expires[f])
         => RevokesAll]_vars
=============================================================================
