---------------------------- MODULE OAuthRefresh ----------------------------
(***************************************************************************)
(* The refresh of one account's OAuth credentials.  The background service *)
(* and the requests of several processes run RefreshIfNeeded against the   *)
(* account's row, the refresh lock and the access-token cache in Redis,    *)
(* and a provider whose refresh tokens serve once.  An administrator may   *)
(* authorize the account again at any time.                                *)
(*                                                                         *)
(* A step is one statement, Redis command or provider call.  A refresher   *)
(* may die, have its context end, or have a call fail or lose its answer,  *)
(* each at the price of a fault.  Grok accounts store by compare-and-set,  *)
(* the others by plain updates; grok says which kind the account is of.    *)
(***************************************************************************)
EXTENDS Integers, FiniteSets

CONSTANTS
    Procs,       \* refreshers, each in a process of its own
    NoProc,      \* the lock key does not exist
    MaxTries,    \* maxRetries of the background service
    MaxExpiries, \* bound on how often the access token nears its expiry
    MaxReauths,  \* bound on re-authorizations
    MaxFaults    \* bound on faults

ASSUME RefreshAssumption ==
    /\ NoProc \notin Procs
    /\ MaxTries \in Nat \ {0}
    /\ MaxExpiries \in Nat /\ MaxReauths \in Nat /\ MaxFaults \in Nat

VARIABLES
    grok,     \* whether the account is a Grok account
    row,      \* the account's row
    valid,    \* refresh tokens the provider accepts
    issued,   \* credentials issued so far: they are numbered from 0
    clock,    \* credentials stored by refreshes so far: the source of versions
    lock,     \* who set the refresh lock
    cache,    \* whose access token is cached, or None
    at,       \* at[p]: where refresher p is, and what it holds
    admin,    \* progress of ApplyOAuthCredentials
    expiries, reauths, faults, \* bounded counts
    overlap,  \* ghost: a refresher lost its lock, or went on without one
    lost,     \* ghost: issued credentials were dropped before they were stored
    skewed    \* ghost: the cache was set or kept against a newer row

store == <<row, valid, issued, clock>>
ghosts == <<overlap, lost, skewed>>
counts == <<expiries, reauths, faults>>
vars == <<grok, store, lock, cache, at, admin, counts, ghosts>>

None == -1
Creds == [gen : Nat, ver : Nat]
Stored == [gen |-> row.gen, ver |-> row.ver]

\* NeedsRefresh is row.due.
Rows == [gen : Nat, ver : Nat, status : {"active", "error"}, due : BOOLEAN]

PCs == {"idle", "lock", "wait", "repair", "reread", "call", "rotated", "refused", "denied", "failed",
        "stored", "missed", "release", "retry", "mark", "ban", "sync", "check", "fill"}

\* path: whether it serves a request.  acct: the credentials of the account
\* object of its caller.  snap: those it read under the lock.  new: what the
\* provider issued to it.  owns: it set the lock, and will delete it.  late:
\* the context of its attempt has ended.  tries: attempts of its retry loop.
\* then: where it goes once RefreshIfNeeded has returned.
Refreshers == [pc : PCs, request : BOOLEAN, acct : Creds, snap : Creds, new : Nat,
               owns : BOOLEAN, late : BOOLEAN, tries : 0..MaxTries, then : PCs]

NoCreds == [gen |-> 0, ver |-> 0]
Idle == [pc |-> "idle", request |-> FALSE, acct |-> NoCreds, snap |-> NoCreds, new |-> 0,
         owns |-> FALSE, late |-> FALSE, tries |-> 0, then |-> "idle"]

Fault == faults < MaxFaults /\ faults' = faults + 1 /\ UNCHANGED <<expiries, reauths>>

\* Refresher r goes on; RefreshIfNeeded returns, with its deferred release of
\* the lock still to come.
On(r, where) == IF where = "idle" THEN Idle ELSE [r EXCEPT !.pc = where]
Returns(r, where) == [r EXCEPT !.pc = "release", !.then = where, !.new = 0, !.late = FALSE]

\* A request of another platform than Grok that cannot refresh goes on with
\* the token it has; a Grok request fails.
OnError(r) == IF r.request /\ ~grok THEN "check" ELSE "idle"

-----------------------------------------------------------------------------
(* The callers.                                                            *)

\* The background cycle takes up an active account that needs a refresh.
StartBackground(p) ==
    /\ at[p].pc = "idle"
    /\ row.status = "active" /\ row.due
    /\ at' = [at EXCEPT ![p] = [Idle EXCEPT !.pc = "lock", !.acct = Stored, !.tries = 1]]
    /\ UNCHANGED <<grok, store, lock, cache, admin, counts, ghosts>>

\* GetAccessToken without a usable token in the cache.
StartRequest(p) ==
    /\ at[p].pc = "idle"
    /\ row.status = "active"
    /\ IF grok THEN cache # row.gen \/ row.due ELSE cache = None
    /\ at' = [at EXCEPT ![p] = [Idle EXCEPT !.pc = IF row.due THEN "lock" ELSE "check",
                                            !.request = TRUE, !.acct = Stored]]
    /\ UNCHANGED <<grok, store, lock, cache, admin, counts, ghosts>>

-----------------------------------------------------------------------------
(* RefreshIfNeeded.                                                        *)

\* AcquireRefreshLock.  When Redis fails the refresh goes on without the lock,
\* which the command may have set all the same.
AcquireLock(p) ==
    /\ at[p].pc = "lock"
    /\ \/ /\ lock = NoProc
          /\ lock' = p
          /\ at' = [at EXCEPT ![p] = [@ EXCEPT !.pc = "reread", !.owns = TRUE]]
          /\ UNCHANGED <<counts, overlap>>
       \/ /\ lock # NoProc
          /\ at' = [at EXCEPT ![p] = On(@, IF at[p].request THEN "wait" ELSE "idle")]
          /\ UNCHANGED <<lock, counts, overlap>>
       \/ /\ Fault
          /\ lock' \in {lock, IF lock = NoProc THEN p ELSE lock}
          /\ at' = [at EXCEPT ![p] = On(@, "reread")]
          /\ overlap' = TRUE
    /\ UNCHANGED <<grok, store, cache, admin, lost, skewed>>

\* The lock is held.  Claude: the cache is read once more, and without a hit
\* the old token is used.  Grok: waitForRefreshedToken takes the row once it
\* has changed, and repairs the cache.
LockHeld(p) ==
    /\ at[p].pc = "wait"
    /\ \/ /\ ~grok
          /\ at' = [at EXCEPT ![p] = On(@, IF cache = None THEN "check" ELSE "idle")]
       \/ /\ grok
          /\ row.status = "active" /\ row.gen # at[p].acct.gen /\ ~row.due
          /\ cache \notin {None, row.gen}
          /\ at' = [at EXCEPT ![p] = [@ EXCEPT !.pc = "repair", !.acct = Stored]]
       \/ /\ grok
          /\ at' = [at EXCEPT ![p] = Idle]
    /\ UNCHANGED <<grok, store, lock, cache, admin, counts, ghosts>>

\* What a caller does with a row that needs no refresh (any more).
Refreshed(r) ==
    Returns([r EXCEPT !.acct = Stored],
            IF r.request /\ (grok => row.status = "active") THEN "check" ELSE "idle")

\* The row is read again under the lock.
Reread(p) ==
    /\ at[p].pc = "reread"
    /\ \/ /\ ~at[p].late
          /\ row.status # "active" \/ ~row.due
          /\ at' = [at EXCEPT ![p] = Refreshed(@)]
          /\ UNCHANGED counts
       \/ /\ ~at[p].late
          /\ row.status = "active" /\ row.due
          /\ at' = [at EXCEPT ![p] = [@ EXCEPT !.pc = "call", !.snap = Stored]]
          /\ UNCHANGED counts
       \/ /\ IF at[p].late THEN UNCHANGED counts ELSE Fault
          /\ at' = [at EXCEPT ![p] = Returns(@, OnError(@))]
    /\ UNCHANGED <<grok, store, lock, cache, admin, ghosts>>

\* executor.Refresh: a token the provider accepts is replaced, even when the
\* answer is lost; any other is refused (invalid_grant and its like).  The
\* account may also be turned down with a refresh token that is still good
\* (access_denied, entitlement_denied, missing_project_id...).
ProviderRefresh(p) ==
    /\ at[p].pc = "call"
    /\ \/ /\ at[p].snap.gen \notin valid
          /\ at' = [at EXCEPT ![p] = On(@, "refused")]
          /\ UNCHANGED <<valid, issued, counts, lost>>
       \/ /\ at[p].snap.gen \in valid
          /\ issued' = issued + 1
          /\ valid' = (valid \ {at[p].snap.gen}) \cup {issued + 1}
          /\ \/ /\ at' = [at EXCEPT ![p] = [@ EXCEPT !.pc = "rotated", !.new = issued + 1]]
                /\ UNCHANGED <<counts, lost>>
             \/ Fault /\ at' = [at EXCEPT ![p] = On(@, "failed")] /\ lost' = TRUE
       \/ /\ Fault
          /\ \/ at' = [at EXCEPT ![p] = On(@, "failed")]
             \/ at[p].snap.gen \in valid /\ at' = [at EXCEPT ![p] = On(@, "denied")]
          /\ UNCHANGED <<valid, issued, lost>>
    /\ UNCHANGED <<grok, row, clock, lock, cache, admin, overlap, skewed>>

\* A refresh that failed, or whose context has ended: nothing is stored.
RefreshFailed(p) ==
    /\ at[p].pc = "failed" \/ (at[p].late /\ at[p].pc \in {"rotated", "refused", "denied"})
    /\ lost' = (lost \/ at[p].pc = "rotated")
    /\ at' = [at EXCEPT ![p] = Returns(@, IF @.request THEN OnError(@) ELSE "retry")]
    /\ UNCHANGED <<grok, store, lock, cache, admin, counts, overlap, skewed>>

\* tryRecoverFromRefreshRace, after invalid_grant: a row with another refresh
\* token counts as refreshed.  A read that fails does not recover, and after
\* another error of a spent token (refresh_token_reused...) none is tried.
RecoverRace(p) ==
    /\ at[p].pc = "refused" /\ ~at[p].late
    /\ \/ /\ row.gen # at[p].snap.gen
          /\ at' = [at EXCEPT ![p] = Refreshed(@)]
          /\ UNCHANGED counts
       \/ /\ at' = [at EXCEPT ![p] = Returns(@, IF @.request /\ ~grok THEN "check" ELSE "mark")]
          /\ UNCHANGED counts
    /\ UNCHANGED <<grok, store, lock, cache, admin, ghosts>>

\* The account was turned down: it is to be marked, unless the error is one of
\* the provider as a whole, or may be (isSharedProviderRefreshError,
\* isAmbiguousGrokEntitlementRefreshError).
TurnedDown(p) ==
    /\ at[p].pc = "denied" /\ ~at[p].late
    /\ \E where \in IF at[p].request /\ ~grok THEN {"check"} ELSE {"ban", "idle"} :
         at' = [at EXCEPT ![p] = Returns(@, where)]
    /\ UNCHANGED <<grok, store, lock, cache, admin, counts, ghosts>>

\* Mutant: a Grok account is stored without the comparison.
PersistAlways(p) ==
    /\ at[p].pc = "rotated" /\ ~at[p].late
    /\ row' = [row EXCEPT !.gen = at[p].new, !.ver = clock + 1, !.due = FALSE]
    /\ clock' = clock + 1
    /\ at' = [at EXCEPT ![p] = Refreshed(@)]
    /\ UNCHANGED <<grok, valid, issued, lock, cache, admin, counts, ghosts>>

\* Mutant: the old document is merged over the new one, refresh token and all.
PersistMerged(p) ==
    /\ at[p].pc = "rotated" /\ ~at[p].late
    /\ row' = [row EXCEPT !.ver = clock + 1, !.due = FALSE]
    /\ clock' = clock + 1
    /\ at' = [at EXCEPT ![p] = Refreshed(@)]
    /\ UNCHANGED <<grok, valid, issued, lock, cache, admin, counts, ghosts>>

\* The new credentials, with a version, are stored: for Grok by
\* UpdateGrokOAuthCredentialsIfUnchanged, else by persistAccountCredentials
\* whatever the row holds.
Persist(p) ==
    /\ at[p].pc = "rotated" /\ ~at[p].late
    /\ \E o \in {"ok", "err", "lost"} :
         LET applied == o # "err" /\ (grok => at[p].snap = Stored)
             stored == [gen |-> at[p].new, ver |-> clock + 1]
         IN  /\ IF o = "ok" THEN UNCHANGED counts ELSE Fault
             /\ row' = IF applied THEN [row EXCEPT !.gen = stored.gen, !.ver = stored.ver, !.due = FALSE]
                       ELSE row
             /\ clock' = IF applied THEN clock + 1 ELSE clock
             /\ lost' = (lost \/ o = "err")
             /\ skewed' = (skewed \/ o = "lost")
             /\ at' = [at EXCEPT ![p] =
                         IF o # "ok" THEN Returns(@, IF @.request \/ grok THEN OnError(@) ELSE "retry")
                         ELSE IF grok THEN On(@, IF applied THEN "stored" ELSE "missed")
                         ELSE Returns([@ EXCEPT !.acct = stored], IF @.request THEN "check" ELSE "sync")]
    /\ UNCHANGED <<grok, valid, issued, lock, cache, admin, overlap>>

\* Grok reads the row it has stored, after dropping the cached token
\* (loadGrokDurableAccountAfterPersist), or the row that was not as expected.
\* The deletion may fail, whose failure is logged, and the read may.
ReadBack(p) ==
    /\ at[p].pc \in {"stored", "missed"}
    /\ \E deleted, read \in BOOLEAN :
         /\ IF deleted /\ read THEN UNCHANGED counts ELSE Fault
         /\ deleted \/ at[p].pc = "stored"
         /\ cache' = IF deleted /\ at[p].pc = "stored" THEN None ELSE cache
         /\ skewed' = (skewed \/ ~deleted)
         /\ at' = [at EXCEPT ![p] =
                     IF ~read THEN Returns(@, "idle")
                     ELSE IF @.pc = "stored" /\ ~@.request THEN Returns(@, "sync")
                     ELSE Refreshed(@)]
    /\ UNCHANGED <<grok, store, lock, admin, overlap, lost>>

\* releaseRefreshLock deletes the key, whoever set it.
ReleaseLock(p) ==
    /\ at[p].pc = "release"
    /\ \/ /\ lock' = IF at[p].owns THEN NoProc ELSE lock
          /\ overlap' = (overlap \/ (at[p].owns /\ lock \notin {p, NoProc}))
          /\ UNCHANGED counts
       \/ at[p].owns /\ Fault /\ UNCHANGED <<lock, overlap>>
    /\ at' = [at EXCEPT ![p] = On([@ EXCEPT !.owns = FALSE, !.then = "idle"], @.then)]
    /\ UNCHANGED <<grok, store, cache, admin, lost, skewed>>

-----------------------------------------------------------------------------
(* What the callers do with the result.                                    *)

\* The next attempt of refreshWithRetry, or none.
Retry(p) ==
    /\ at[p].pc = "retry"
    /\ at' = [at EXCEPT ![p] = IF @.tries < MaxTries
                               THEN [@ EXCEPT !.pc = "lock", !.tries = at[p].tries + 1]
                               ELSE Idle]
    /\ UNCHANGED <<grok, store, lock, cache, admin, counts, ghosts>>

\* Mutant: the Grok account is marked whatever its credentials are.
MarkErrorAlways(p) ==
    /\ at[p].pc \in {"mark", "ban"}
    /\ row' = [row EXCEPT !.status = "error"]
    /\ at' = [at EXCEPT ![p] = On(@, "sync")]
    /\ UNCHANGED <<grok, valid, issued, clock, lock, cache, admin, counts, ghosts>>

\* A permanent error marks the account: SetError, or for Grok the conditional
\* SetGrokOAuthRefreshErrorIfCredentialsUnchanged and SetGrokCredentialErrorIfMatch.
MarkError(p) ==
    /\ at[p].pc \in {"mark", "ban"}
    /\ LET skipped == grok /\ at[p].snap # Stored
       IN  \/ /\ row' = IF skipped THEN row ELSE [row EXCEPT !.status = "error"]
              /\ at' = [at EXCEPT ![p] = On(@, IF skipped THEN "idle" ELSE "sync")]
              /\ UNCHANGED counts
           \/ /\ Fault
              /\ at' = [at EXCEPT ![p] = On(@, IF grok THEN "idle" ELSE "sync")]
              /\ UNCHANGED row
    /\ UNCHANGED <<grok, valid, issued, clock, lock, cache, admin, ghosts>>

\* InvalidateToken, whose failure is logged.
Invalidate(p) ==
    /\ at[p].pc = "sync"
    /\ \/ cache' = None /\ UNCHANGED <<counts, skewed>>
       \/ Fault /\ skewed' = TRUE /\ UNCHANGED cache
    /\ at' = [at EXCEPT ![p] = Idle]
    /\ UNCHANGED <<grok, store, lock, admin, overlap, lost>>

\* Mutant: the token is cached without a look at the version.
CheckVersionNot(p) ==
    /\ at[p].pc = "check"
    /\ at' = [at EXCEPT ![p] = [@ EXCEPT !.pc = "fill", !.snap = Stored]]
    /\ UNCHANGED <<grok, store, lock, cache, admin, counts, ghosts>>

\* CheckTokenVersion.  From here on snap is the row it read.
CheckVersion(p) ==
    /\ at[p].pc = "check"
    /\ \/ /\ at' = [at EXCEPT ![p] = IF row.ver > @.acct.ver THEN Idle
                                     ELSE [@ EXCEPT !.pc = "fill", !.snap = Stored]]
          /\ UNCHANGED <<counts, skewed>>
       \/ Fault /\ at' = [at EXCEPT ![p] = On(@, "fill")] /\ skewed' = TRUE
    /\ UNCHANGED <<grok, store, lock, cache, admin, overlap, lost>>

\* SetAccessToken, after CheckTokenVersion or as the repair of a Grok request.
FillCache(p) ==
    /\ at[p].pc \in {"fill", "repair"}
    /\ cache' = at[p].acct.gen
    /\ skewed' = (skewed \/ (IF at[p].pc = "fill" THEN at[p].snap ELSE at[p].acct) # Stored)
    /\ at' = [at EXCEPT ![p] = Idle]
    /\ UNCHANGED <<grok, store, lock, admin, counts, overlap, lost>>

-----------------------------------------------------------------------------
(* The administrator: ApplyOAuthCredentials.                               *)

\* UpdateAccount stores the credentials of a new grant, which have no version.
Reauthorize ==
    /\ admin = "idle"
    /\ reauths < MaxReauths
    /\ reauths' = reauths + 1
    /\ issued' = issued + 1
    /\ valid' = valid \cup {issued + 1}
    /\ row' = [row EXCEPT !.gen = issued + 1, !.ver = 0, !.due = FALSE]
    /\ admin' = "clear"
    /\ UNCHANGED <<grok, clock, lock, cache, at, expiries, faults, ghosts>>

\* ClearAccountError, whose failure is logged.
ClearError ==
    /\ admin = "clear"
    /\ \/ row' = [row EXCEPT !.status = "active"] /\ UNCHANGED counts
       \/ Fault /\ UNCHANGED row
    /\ admin' = "sync"
    /\ UNCHANGED <<grok, valid, issued, clock, lock, cache, at, ghosts>>

AdminInvalidate ==
    /\ admin = "sync"
    /\ \/ cache' = None /\ UNCHANGED <<counts, skewed>>
       \/ Fault /\ skewed' = TRUE /\ UNCHANGED cache
    /\ admin' = "idle"
    /\ UNCHANGED <<grok, store, lock, at, overlap, lost>>

-----------------------------------------------------------------------------
(* Time and failures.                                                      *)

TokenExpires ==
    /\ ~row.due
    /\ expiries < MaxExpiries
    /\ expiries' = expiries + 1
    /\ row' = [row EXCEPT !.due = TRUE]
    /\ UNCHANGED <<grok, valid, issued, clock, lock, cache, at, admin, reauths, faults, ghosts>>

CacheExpires ==
    /\ cache # None
    /\ cache' = None
    /\ UNCHANGED <<grok, store, lock, at, admin, counts, ghosts>>

Calling == {"reread", "call", "rotated", "refused", "denied", "failed"}

\* The context of an attempt ends: its deadline, or the caller's.
ContextEnds(p) ==
    /\ at[p].pc \in Calling /\ ~at[p].late
    /\ Fault
    /\ at' = [at EXCEPT ![p].late = TRUE]
    /\ UNCHANGED <<grok, store, lock, cache, admin, ghosts>>

\* Mutant: the lock has no TTL.
LockStays ==
    /\ lock # NoProc
    /\ at[lock].owns
    /\ at[lock].late \/ (at[lock].request /\ ~grok)
    /\ Fault
    /\ overlap' = TRUE
    /\ lock' = NoProc
    /\ UNCHANGED <<grok, store, cache, at, admin, lost, skewed>>

\* The lock's TTL of 60 s.  attemptTimeout keeps the background service, and
\* grokRequestRefreshTimeout the Grok requests, from outlasting it before
\* their context ends; nothing bounds a Claude request.
LockExpires ==
    /\ lock # NoProc
    /\ IF at[lock].owns
         THEN /\ at[lock].late \/ (at[lock].request /\ ~grok)
              /\ Fault
              /\ overlap' = TRUE
         ELSE UNCHANGED <<counts, overlap>>
    /\ lock' = NoProc
    /\ UNCHANGED <<grok, store, cache, at, admin, lost, skewed>>

Dies(p) ==
    /\ at[p].pc # "idle"
    /\ Fault
    /\ at' = [at EXCEPT ![p] = Idle]
    /\ lost' = (lost \/ at[p].pc = "rotated")
    /\ skewed' = TRUE
    /\ UNCHANGED <<grok, store, lock, cache, admin, overlap>>

-----------------------------------------------------------------------------
Init ==
    /\ grok \in BOOLEAN
    /\ row = [gen |-> 0, ver |-> 0, status |-> "active", due |-> FALSE]
    /\ valid = {0}
    /\ issued = 0
    /\ clock = 0
    /\ lock = NoProc
    /\ cache = None
    /\ at = [p \in Procs |-> Idle]
    /\ admin = "idle"
    /\ expiries = 0 /\ reauths = 0 /\ faults = 0
    /\ overlap = FALSE /\ lost = FALSE /\ skewed = FALSE

Refresher(p) ==
    \/ AcquireLock(p) \/ LockHeld(p) \/ Reread(p) \/ ProviderRefresh(p) \/ RefreshFailed(p)
    \/ RecoverRace(p) \/ TurnedDown(p) \/ Persist(p) \/ ReadBack(p) \/ ReleaseLock(p) \/ Retry(p)
    \/ MarkError(p) \/ Invalidate(p) \/ CheckVersion(p) \/ FillCache(p)

Next ==
    \/ \E p \in Procs : StartBackground(p) \/ StartRequest(p) \/ Refresher(p)
                          \/ ContextEnds(p) \/ Dies(p)
    \/ Reauthorize \/ ClearError \/ AdminInvalidate
    \/ TokenExpires \/ CacheExpires \/ LockExpires

Spec == Init /\ [][Next]_vars

(***************************************************************************)
(* Fairness: a refresher that is not killed goes on, the background cycle  *)
(* comes round, the handler of the administrator ends, and a lock without  *)
(* an owner reaches its TTL.                                               *)
(***************************************************************************)
Fairness ==
    /\ \A p \in Procs : WF_vars(Refresher(p)) /\ SF_vars(StartBackground(p))
    /\ WF_vars(ClearError \/ AdminInvalidate)
    /\ WF_vars(faults' = faults /\ LockExpires)

FairSpec == Spec /\ Fairness

-----------------------------------------------------------------------------
TypeOK ==
    /\ grok \in BOOLEAN
    /\ row \in Rows
    /\ valid \in SUBSET Nat
    /\ issued \in Nat /\ clock \in Nat
    /\ lock \in Procs \cup {NoProc}
    /\ cache \in Nat \cup {None}
    /\ at \in [Procs -> Refreshers]
    /\ admin \in {"idle", "clear", "sync"}
    /\ expiries \in 0..MaxExpiries /\ reauths \in 0..MaxReauths /\ faults \in 0..MaxFaults
    /\ overlap \in BOOLEAN /\ lost \in BOOLEAN /\ skewed \in BOOLEAN

\* Somebody holds the successor of credentials g, and will store it.
Successor(g) == \E p \in Procs : at[p].pc = "rotated" /\ at[p].snap.gen = g

(***************************************************************************)
(* The stored refresh token is one the provider accepts, or the refresher  *)
(* that used it up is about to store its successor, even where the lock    *)
(* lapsed or Redis failed; a refresher that dies, runs out of time or      *)
(* cannot store the successor is what it takes to lose the account.        *)
(***************************************************************************)
StoredIsLive ==
    \/ row.gen \in valid
    \/ Successor(row.gen)
    \/ lost

(***************************************************************************)
(* The account is marked only for what was refused: its stored refresh     *)
(* token is spent and nobody is about to store the successor, or who marks *)
(* it was turned down, for Grok with the very credentials that are stored. *)
(* So neither the race recovery nor the mark, which come after the lock is *)
(* released, hit an account that is refreshed or authorized again          *)
(* meanwhile.  Left are refreshers without the lock (a Grok account that   *)
(* holds a live token is spared even then), and for the other accounts a   *)
(* re-authorization, or a refresh after the denial, SetError does not see. *)
(***************************************************************************)
MarkedWhenRefused ==
    [][row.status = "active" /\ row'.status = "error"
        => \/ row.gen \notin valid /\ ~Successor(row.gen)
           \/ \E p \in Procs : at[p].pc = "ban" /\ at'[p].pc # "ban" /\ (grok => at[p].snap.gen = row.gen)
           \/ overlap /\ (grok => row.gen \notin valid)
           \/ ~grok /\ reauths > 0]_vars

(***************************************************************************)
(* A refresh replaces the credentials it used, and no others: whoever      *)
(* stores finds what it read (for Grok the comparison sees to it), unless  *)
(* an administrator stored a new grant in between.                         *)
(***************************************************************************)
NothingOverwritten ==
    [][row'.ver > row.ver /\ (grok \/ reauths = 0)
        => \E p \in Procs : at[p].snap.gen = row.gen /\ at[p].new = row'.gen]_vars

(***************************************************************************)
(* A cached access token is the stored one, or somebody is about to drop   *)
(* or replace it: CheckTokenVersion keeps a request with an old account    *)
(* from caching its token after the refresh has dropped it.                *)
(* Left are the steps that set or keep the cache against a newer row, and  *)
(* re-authorized credentials, which have no version.                       *)
(***************************************************************************)
CacheCurrent ==
    cache \in {None, row.gen} \/ skewed \/ reauths > 0
      \/ \E p \in Procs : {at[p].pc, at[p].then} \cap {"stored", "sync", "check", "fill"} # {}

(***************************************************************************)
(* An account that nears its expiry is refreshed, whichever refreshers die *)
(* with the lock, stall or have a call fail, as long as no issued          *)
(* credentials were dropped.  (After that only the background service      *)
(* marks the account, and requests may keep it from the lock.)             *)
(***************************************************************************)
DueIsRefreshed == row.due ~> ~row.due \/ row.status = "error" \/ lost
=============================================================================
