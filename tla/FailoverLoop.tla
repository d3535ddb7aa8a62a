---------------------------- MODULE FailoverLoop ----------------------------
(***************************************************************************)
(* One request of GatewayHandler.Messages: the loop that selects an        *)
(* account, takes its slot, passes the profit gate and the user message    *)
(* queue, forwards the request and, when the upstream fails, retries the   *)
(* account or fails over to another one, with the decisions of             *)
(* FailoverState.  A prompt too long for the group restarts the loop once  *)
(* in its fallback group.                                                  *)
(*                                                                         *)
(* The client may disconnect at any moment, which cancels the request's    *)
(* context: sleeps end, and the release functions registered on the        *)
(* context run beside the handler.  The server cancels the context too     *)
(* once the handler has returned.                                          *)
(***************************************************************************)
EXTENDS Naturals, FiniteSets

CONSTANTS
    Accounts,               \* the accounts the scheduler may select
    RetryLimit,             \* RetryLimit[a]: a.GetPoolModeRetryCount()
    MaxSwitches,            \* h.maxAccountSwitches
    MaxProfitVetoAttempts,  \* maxProfitVetoAttempts
    HasBoundSession,        \* the request's session is bound to an account
    HasFallbackGroup,       \* the group has a fallback group
    None                    \* no account

\* The clamp of GetPoolModeRetryCount.
maxPoolModeRetryCount == 10

ASSUME FailoverAssumption ==
    /\ IsFiniteSet(Accounts)
    /\ RetryLimit \in [Accounts -> 0 .. maxPoolModeRetryCount]
    /\ MaxSwitches \in Nat
    /\ MaxProfitVetoAttempts \in Nat
    /\ HasBoundSession \in BOOLEAN
    /\ HasFallbackGroup \in BOOLEAN
    /\ None \notin Accounts

\* The fields of UpstreamFailoverError that decide: the status is 503, retry on
\* the same account, NextAccountStop, and bill the input as cache reads.
Errors == [unavailable: BOOLEAN, sameAccount: BOOLEAN,
           stop: BOOLEAN, forceCache: BOOLEAN]

NoError == [unavailable |-> FALSE, sameAccount |-> FALSE,
            stop |-> FALSE, forceCache |-> FALSE]

VARIABLES
    pc,                 \* where the handler is
    account,            \* the selected account
    SwitchCount, Failed, Retries, LastErr, Vetoed, VetoCount,
    ForceCacheBilling,  \* the FailoverState
    fallbackUsed,       \* the loop runs in the fallback group
    gone,               \* the request's context is cancelled
    slots,              \* accounts a slot of which the request holds
    guarded,            \* the slot's release is registered on the context
    locks,              \* accounts the user message lock of which it holds
    attempts,           \* ghost: the number of Forward calls
    late,               \* ghost: those made after the client had gone
    tried,              \* ghost: the accounts forwarded to
    flagged,            \* ghost: an upstream error asked for cache billing
    wrote,              \* ghost: the attempts that wrote to the client
    billed,             \* ghost: the attempts whose usage was submitted
    forced              \* ghost: that usage was billed as cache reads

fsVars == <<SwitchCount, Failed, Retries, LastErr, Vetoed, VetoCount,
            ForceCacheBilling>>
heldVars == <<slots, guarded, locks>>
outVars == <<wrote, billed, forced>>
tryVars == <<attempts, late, tried, flagged>>
vars == <<pc, account, fsVars, fallbackUsed, gone, heldVars, tryVars, outVars>>

-----------------------------------------------------------------------------

NoRetries == [a \in Accounts |-> 0]

Init ==
    /\ pc = "select" /\ account = None
    /\ SwitchCount = 0 /\ Failed = {} /\ Retries = NoRetries
    /\ LastErr = NoError /\ Vetoed = {} /\ VetoCount = 0
    /\ ForceCacheBilling = FALSE
    /\ fallbackUsed = FALSE /\ gone = FALSE
    /\ slots = {} /\ guarded = FALSE /\ locks = {}
    /\ attempts = 0 /\ late = 0 /\ tried = {} /\ flagged = FALSE
    /\ wrote = {} /\ billed = {} /\ forced = FALSE

\* The handler returns without having forwarded in this iteration.
ReturnEarly ==
    /\ pc' = "done"
    /\ UNCHANGED <<account, fsVars, fallbackUsed, gone, tryVars, outVars>>

-----------------------------------------------------------------------------
(* Selection *)

\* The body cannot be cloned, or no account is available and none was excluded.
SelectNone ==
    /\ pc = "select"
    /\ Failed = {}
    /\ ReturnEarly
    /\ UNCHANGED heldVars

\* Mutant: the exclusions are cleared whoever contributed them.
NeverAllVetoed == FALSE

allExclusionsAreProfitVetoed ==
    /\ Vetoed # {} /\ Failed # {}
    /\ Failed \subseteq Vetoed

\* The last account answered 503 and excluding fewer accounts may help.
CanBackOff ==
    /\ LastErr.unavailable
    /\ SwitchCount <= MaxSwitches
    /\ ~allExclusionsAreProfitVetoed

\* Selection fails with accounts excluded: sleep and clear the exclusions, or
\* answer with the last error (silently, if the client has gone).
HandleSelectionExhausted ==
    /\ pc = "select"
    /\ Failed # {}
    /\ \/ /\ gone \/ ~CanBackOff
          /\ ReturnEarly
       \/ /\ ~gone /\ CanBackOff
          /\ pc' = "backoff"
          /\ UNCHANGED <<account, fsVars, fallbackUsed, gone, tryVars, outVars>>
    /\ UNCHANGED heldVars

\* Mutant: the backoff clears the vetoed accounts too.
BackoffOverAll ==
    /\ pc = "backoff"
    /\ pc' = "select"
    /\ Failed' = {}
    /\ UNCHANGED <<account, SwitchCount, Retries, LastErr, Vetoed, VetoCount,
                   ForceCacheBilling, fallbackUsed, gone, heldVars, tryVars,
                   outVars>>

\* Mutant: the backoff starts the count of switches again.
BackoffOverFresh ==
    /\ pc = "backoff"
    /\ pc' = "select"
    /\ Failed' = Vetoed
    /\ SwitchCount' = 0
    /\ UNCHANGED <<account, Retries, LastErr, Vetoed, VetoCount,
                   ForceCacheBilling, fallbackUsed, gone, heldVars, tryVars,
                   outVars>>

\* The backoff is over: only the accounts the profit gate vetoed stay excluded.
BackoffOver ==
    /\ pc = "backoff"
    /\ pc' = "select"
    /\ Failed' = Vetoed
    /\ UNCHANGED <<account, SwitchCount, Retries, LastErr, Vetoed, VetoCount,
                   ForceCacheBilling, fallbackUsed, gone, heldVars, tryVars,
                   outVars>>

PauseOver ==
    /\ pc = "pause"
    /\ pc' = "select"
    /\ UNCHANGED <<account, fsVars, fallbackUsed, gone, heldVars, tryVars,
                   outVars>>

\* The context is cancelled during a sleep.
SleepCancelled ==
    /\ pc \in {"backoff", "pause"}
    /\ gone
    /\ ReturnEarly
    /\ UNCHANGED heldVars

\* The scheduler returns an account that is not excluded, with its slot or
\* with a plan to wait for it.
Select(a, acquired) ==
    /\ pc = "select"
    /\ a \notin Failed
    /\ pc' = "selected"
    /\ account' = a
    /\ slots' = IF acquired THEN slots \cup {a} ELSE slots
    /\ UNCHANGED <<fsVars, fallbackUsed, gone, guarded, locks, tryVars, outVars>>

-----------------------------------------------------------------------------
(* From the selected account to the upstream *)

\* The request is answered locally, and the slot the scheduler took returned.
Intercept ==
    /\ pc = "selected"
    /\ ReturnEarly
    /\ slots' = slots \ {account}
    /\ UNCHANGED <<guarded, locks>>

\* No plan to wait, a full queue, a timeout or a cancelled wait.
SlotRefused ==
    /\ pc = "selected"
    /\ account \notin slots
    /\ ReturnEarly
    /\ UNCHANGED heldVars

SlotGranted ==
    /\ pc = "selected"
    /\ account \notin slots
    /\ pc' = "admit"
    /\ slots' = slots \cup {account}
    /\ UNCHANGED <<account, fsVars, fallbackUsed, gone, guarded, locks, tryVars,
                   outVars>>

AtProfitGate == pc \in {"selected", "admit"} /\ account \in slots

\* Mutant: the slot of the vetoed account is kept.
RecordProfitVetoKeeps ==
    /\ AtProfitGate
    /\ Failed' = Failed \cup {account}
    /\ Vetoed' = Vetoed \cup {account}
    /\ VetoCount' = VetoCount + 1
    /\ pc' = IF VetoCount' >= MaxProfitVetoAttempts THEN "done" ELSE "select"
    /\ UNCHANGED <<account, SwitchCount, Retries, LastErr, ForceCacheBilling,
                   fallbackUsed, gone, heldVars, tryVars, outVars>>

\* The profit gate vetoes the account on its latest snapshot.
RecordProfitVeto ==
    /\ AtProfitGate
    /\ slots' = slots \ {account}
    /\ Failed' = Failed \cup {account}
    /\ Vetoed' = Vetoed \cup {account}
    /\ VetoCount' = VetoCount + 1
    /\ pc' = IF VetoCount' >= MaxProfitVetoAttempts THEN "done" ELSE "select"
    /\ UNCHANGED <<account, SwitchCount, Retries, LastErr, ForceCacheBilling,
                   fallbackUsed, gone, guarded, locks, tryVars, outVars>>

\* Mutant: the slot's release is not registered on the context.
AdmitUnguarded(serialize) ==
    /\ AtProfitGate
    /\ pc' = "prepare"
    /\ guarded' = FALSE
    /\ locks' = IF serialize THEN {account} ELSE {}
    /\ UNCHANGED <<account, fsVars, fallbackUsed, gone, slots, tryVars, outVars>>

\* Admitted: the slot's release is registered on the request's context, and the
\* user message lock is taken (serialize mode) or not (other modes, fail-open).
Admit(serialize) ==
    /\ AtProfitGate
    /\ pc' = "prepare"
    /\ guarded' = TRUE
    /\ locks' = IF serialize THEN {account} ELSE {}
    /\ UNCHANGED <<account, fsVars, fallbackUsed, gone, slots, tryVars, outVars>>

\* The model mapping cannot be applied to the body: the handler returns and
\* leaves the slot and the lock to the functions registered on the context.
PrepareFails ==
    /\ pc = "prepare"
    /\ ReturnEarly
    /\ UNCHANGED heldVars

Forward ==
    /\ pc = "prepare"
    /\ pc' = "forward"
    /\ attempts' = attempts + 1
    /\ late' = IF gone THEN late + 1 ELSE late
    /\ tried' = tried \cup {account}
    /\ UNCHANGED <<account, fsVars, fallbackUsed, gone, heldVars, flagged,
                   outVars>>

\* The upstream accepts the request: OnUpstreamAccepted releases the lock.
OnUpstreamAccepted ==
    /\ pc = "forward"
    /\ locks # {}
    /\ locks' = {}
    /\ UNCHANGED <<pc, account, fsVars, fallbackUsed, gone, slots, guarded,
                   tryVars, outVars>>

-----------------------------------------------------------------------------
(* The answers of Forward.  Each releases the lock and the slot first. *)

ReleaseHeld ==
    /\ slots' = slots \ {account}
    /\ guarded' = FALSE
    /\ locks' = locks \ {account}

SubmitUsage ==
    /\ billed' = billed \cup {attempts}
    /\ forced' = ForceCacheBilling

\* This attempt wrote to the client if sent is TRUE.
Sent(sent) == wrote' = IF sent THEN wrote \cup {attempts} ELSE wrote

Succeed ==
    /\ pc = "forward"
    /\ ReleaseHeld
    /\ pc' = "done"
    /\ Sent(TRUE)
    /\ SubmitUsage
    /\ UNCHANGED <<account, fsVars, fallbackUsed, gone, tryVars>>

\* An error that is no failover error ends the request: a policy block, a prompt
\* too long without a usable fallback group, an interrupted stream.  Usage the
\* upstream had metered is billed.
ForwardFails(sent, metered) ==
    /\ pc = "forward"
    /\ ReleaseHeld
    /\ pc' = "done"
    /\ Sent(sent)
    /\ IF metered THEN SubmitUsage ELSE UNCHANGED <<billed, forced>>
    /\ UNCHANGED <<account, fsVars, fallbackUsed, gone, tryVars>>

needForceCacheBilling(e, sameAccountRetry) ==
    (HasBoundSession /\ ~sameAccountRetry) \/ e.forceCache

SameAccountRetry(e) == e.sameAccount /\ Retries[account] < RetryLimit[account]

\* Mutant: a client that has gone is not noticed.
MustStopOnError(e) == e.stop

\* The client has gone, or the error forbids another account.
MustStop(e) == gone \/ e.stop

Stops(e) ==
    /\ MustStop(e)
    /\ pc' = "done"
    /\ LastErr' = IF gone THEN LastErr ELSE e
    /\ UNCHANGED <<SwitchCount, Failed, Retries, Vetoed, VetoCount,
                   ForceCacheBilling>>

RetriesSame(e) ==
    /\ ~MustStop(e)
    /\ SameAccountRetry(e)
    /\ LastErr' = e
    /\ ForceCacheBilling' = (ForceCacheBilling \/ needForceCacheBilling(e, TRUE))
    /\ Retries' = [Retries EXCEPT ![account] = @ + 1]
    /\ pc' = "pause"
    /\ UNCHANGED <<SwitchCount, Failed, Vetoed, VetoCount>>

\* Mutant: one switch too many.
SwitchesOnceMore(e) ==
    /\ ~MustStop(e)
    /\ ~SameAccountRetry(e)
    /\ LastErr' = e
    /\ ForceCacheBilling' = (ForceCacheBilling \/ needForceCacheBilling(e, FALSE))
    /\ Failed' = Failed \cup {account}
    /\ \/ /\ SwitchCount > MaxSwitches
          /\ pc' = "done"
          /\ UNCHANGED SwitchCount
       \/ /\ SwitchCount <= MaxSwitches
          /\ SwitchCount' = SwitchCount + 1
          /\ pc' \in {"select"} \cup (IF SwitchCount > 0 THEN {"pause"} ELSE {})
    /\ UNCHANGED <<Retries, Vetoed, VetoCount>>

\* From its second switch on, an Antigravity request pauses.
Switches(e) ==
    /\ ~MustStop(e)
    /\ ~SameAccountRetry(e)
    /\ LastErr' = e
    /\ ForceCacheBilling' = (ForceCacheBilling \/ needForceCacheBilling(e, FALSE))
    /\ Failed' = Failed \cup {account}
    /\ \/ /\ SwitchCount >= MaxSwitches
          /\ pc' = "done"
          /\ UNCHANGED SwitchCount
       \/ /\ SwitchCount < MaxSwitches
          /\ SwitchCount' = SwitchCount + 1
          /\ pc' \in {"select"} \cup (IF SwitchCount > 0 THEN {"pause"} ELSE {})
    /\ UNCHANGED <<Retries, Vetoed, VetoCount>>

HandleFailoverError(e) ==
    /\ Stops(e) \/ RetriesSame(e) \/ Switches(e)
    /\ flagged' = (flagged \/ e.forceCache)

\* Mutant: what the attempt wrote is not looked at.
FailoverErrorAlways(e, sent) ==
    /\ pc = "forward"
    /\ ReleaseHeld
    /\ Sent(sent)
    /\ HandleFailoverError(e)
    /\ UNCHANGED <<account, fallbackUsed, gone, attempts, late, tried, billed,
                   forced>>

\* A failover error: what has reached the client cannot be taken back, so the
\* request ends if this attempt wrote anything.
FailoverError(e, sent) ==
    /\ pc = "forward"
    /\ ReleaseHeld
    /\ Sent(sent)
    /\ IF sent
       THEN pc' = "done" /\ UNCHANGED <<fsVars, flagged>>
       ELSE HandleFailoverError(e)
    /\ UNCHANGED <<account, fallbackUsed, gone, attempts, late, tried, billed,
                   forced>>

\* The prompt is too long: once, the loop restarts in the fallback group with a
\* new FailoverState.
UseFallbackGroup ==
    /\ pc = "forward"
    /\ HasFallbackGroup /\ ~fallbackUsed
    /\ ReleaseHeld
    /\ fallbackUsed' = TRUE
    /\ pc' = "select"
    /\ SwitchCount' = 0 /\ Failed' = {} /\ Retries' = NoRetries
    /\ LastErr' = NoError /\ Vetoed' = {} /\ VetoCount' = 0
    /\ ForceCacheBilling' = FALSE
    /\ tried' = {} /\ flagged' = FALSE
    /\ UNCHANGED <<account, gone, attempts, late, outVars>>

-----------------------------------------------------------------------------
(* The context *)

\* The client disconnects, or the server cancels the context after the return.
Cancel ==
    /\ ~gone
    /\ gone' = TRUE
    /\ UNCHANGED <<pc, account, fsVars, fallbackUsed, heldVars, tryVars, outVars>>

\* Mutant: registered on a context that ends earlier than the request's.
AfterFuncSlotEarly ==
    /\ guarded /\ slots # {}
    /\ slots' = {}
    /\ UNCHANGED <<pc, account, fsVars, fallbackUsed, gone, guarded, locks,
                   tryVars, outVars>>

\* The functions wrapReleaseOnDone registered run on the cancelled context.
AfterFuncSlot ==
    /\ gone /\ guarded /\ slots # {}
    /\ slots' = {}
    /\ UNCHANGED <<pc, account, fsVars, fallbackUsed, gone, guarded, locks,
                   tryVars, outVars>>

AfterFuncLock ==
    /\ gone /\ locks # {}
    /\ locks' = {}
    /\ UNCHANGED <<pc, account, fsVars, fallbackUsed, gone, slots, guarded,
                   tryVars, outVars>>

-----------------------------------------------------------------------------

Answer ==
    \/ Succeed
    \/ \E sent, metered \in BOOLEAN : ForwardFails(sent, metered)
    \/ \E e \in Errors, sent \in BOOLEAN : FailoverError(e, sent)
    \/ UseFallbackGroup

Handler ==
    \/ SelectNone \/ HandleSelectionExhausted
    \/ BackoffOver \/ PauseOver \/ SleepCancelled
    \/ \E a \in Accounts, acquired \in BOOLEAN : Select(a, acquired)
    \/ Intercept \/ SlotRefused \/ SlotGranted
    \/ RecordProfitVeto
    \/ \E serialize \in BOOLEAN : Admit(serialize)
    \/ PrepareFails \/ Forward
    \/ Answer

AfterFunc == AfterFuncSlot \/ AfterFuncLock

Next == Handler \/ OnUpstreamAccepted \/ Cancel \/ AfterFunc

\* The handler is a goroutine whose waits all end: sleeps are timers, slot waits
\* and upstream calls have timeouts.  Registered functions run once the context
\* is done, and the server cancels the context of a handler that returned.
Fairness ==
    /\ WF_vars(Handler)
    /\ WF_vars(AfterFunc)
    /\ WF_vars(pc = "done" /\ Cancel)

Spec == Init /\ [][Next]_vars /\ Fairness

-----------------------------------------------------------------------------
(* Properties *)

\* The variables have the types of the handler's locals and of FailoverState.
TypeOK ==
    /\ pc \in {"select", "backoff", "pause", "selected", "admit", "prepare",
               "forward", "done"}
    /\ account \in Accounts \cup {None}
    /\ SwitchCount \in 0 .. MaxSwitches
    /\ Failed \subseteq Accounts
    /\ Retries \in [Accounts -> Nat]
    /\ LastErr \in Errors
    /\ Vetoed \subseteq Accounts
    /\ VetoCount \in Nat
    /\ ForceCacheBilling \in BOOLEAN
    /\ fallbackUsed \in BOOLEAN /\ gone \in BOOLEAN
    /\ slots \subseteq Accounts /\ guarded \in BOOLEAN /\ locks \subseteq Accounts
    /\ attempts \in Nat /\ late \in Nat
    /\ tried \subseteq Accounts /\ flagged \in BOOLEAN
    /\ wrote \subseteq Nat /\ billed \subseteq Nat /\ forced \in BOOLEAN

\* All the client's bytes and the request's one bill come from the same upstream
\* attempt: no failover, retry or fallback splices a second stream behind the
\* first, and none bills the request twice (the writer-size check, and the
\* partial results that are billed on the way out).
OneAnswer == \A i, j \in wrote \cup billed : i = j

\* An account the profit gate vetoed for this request is not forwarded to, even
\* after a backoff has cleared the exclusions and its snapshot has changed
\* (HandleSelectionExhausted puts the vetoed accounts back).
VetoRespected == pc \in {"prepare", "forward"} => account \notin Vetoed

\* While the client is there, the upstream is called under the slot of the very
\* account it was selected for.
HeldWhileForwarding == pc \in {"prepare", "forward"} /\ ~gone => slots = {account}

\* No slot and no user message lock is carried into a sleep or into the
\* selection of the next account: a request never holds two accounts.
NothingCarried ==
    pc \in {"select", "backoff", "pause"} => slots = {} /\ locks = {}

\* The i-th retry of account a as a pair, for the i up to count[a].
RetriesUpTo(count) ==
    {r \in Accounts \X (1 .. maxPoolModeRetryCount) : r[2] <= count[r[1]]}

\* Retries, switches and 503 backoffs together call the upstream at most once,
\* plus once per allowed switch and per allowed retry on each account, for the
\* group and once more for the fallback group.
AttemptsBounded ==
    attempts <= (IF fallbackUsed THEN 2 ELSE 1)
                  * (1 + MaxSwitches + Cardinality(RetriesUpTo(RetryLimit)))

\* Once the client has gone, at most the attempt already being prepared is
\* started (and one more if its prompt moves to the fallback group).
FewLateAttempts == late <= IF fallbackUsed THEN 2 ELSE 1

\* The request ends: no sequence of errors, vetoes and backoffs keeps the loop
\* running, in particular not the 503 backoff with only vetoed accounts.
RequestEnds == <>(pc = "done")

\* Every slot and lock is returned in the end, on the paths that return without
\* releasing them too (wrapReleaseOnDone).
AllReturned == <>[](slots = {} /\ locks = {})

\* "A retry on the same account is no switch; a sticky session is billed as
\* cache reads only when it really switches", as HandleFailoverError says.
ForcedOnlyOnSwitch == forced => flagged \/ Cardinality(tried) > 1
=============================================================================
