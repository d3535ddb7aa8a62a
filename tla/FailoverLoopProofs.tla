------------------------- MODULE FailoverLoopProofs -------------------------
(***************************************************************************)
(* The safety of the failover loop for any accounts, limits and groups.    *)
(*                                                                         *)
(* The argument: until the handler has returned nothing was written or     *)
(* billed (Unanswered), so whatever the last attempt writes and bills is   *)
(* alone.  A selected account is not excluded, and the vetoed accounts     *)
(* always are (Excluded).  What is held follows the handler's place        *)
(* (Held).  A handler whose client has gone leaves the forward only to     *)
(* return, or once to the fallback group (Late).  Every attempt but the    *)
(* one under way is paid for by the group's first, a switch or a retry     *)
(* within its limit (Counted).                                             *)
(***************************************************************************)
EXTENDS FailoverLoop, FiniteSetTheorems, TLAPS

Chosen == {"selected", "admit", "prepare", "forward"}
Between == {"select", "backoff", "pause"}

Unanswered == pc # "done" => wrote = {} /\ billed = {}

Excluded ==
    /\ Vetoed \subseteq Failed
    /\ pc \in Chosen => account \in Accounts /\ account \notin Vetoed

Held ==
    /\ guarded => pc \in {"prepare", "forward", "done"}
    /\ pc \in Between => slots = {} /\ locks = {}
    /\ pc \in Chosen => slots \subseteq {account} /\ locks \subseteq {account}
    /\ pc \in {"selected", "admit"} => locks = {}
    /\ pc \in {"prepare", "forward"} /\ ~gone => slots = {account}

Groups == IF fallbackUsed THEN 1 ELSE 0

Late ==
    /\ ~gone => late = 0
    /\ pc \notin {"forward", "done"} => late <= Groups
    /\ late <= Groups + 1

LoopInv == TypeOK /\ OneAnswer /\ Unanswered /\ Excluded /\ Held /\ Late

-----------------------------------------------------------------------------

LEMMA NoErrorType == NoError \in Errors
BY DEF NoError, Errors

\* The flag stays Boolean whatever the error asks for.
LEMMA ForceType ==
    ASSUME NEW e \in Errors, NEW same \in BOOLEAN, TypeOK,
           ForceCacheBilling' = (ForceCacheBilling \/ needForceCacheBilling(e, same))
    PROVE  ForceCacheBilling' \in BOOLEAN
BY Zenon DEF needForceCacheBilling

\* The loop starts with nothing selected, held, written or billed.
LEMMA LoopInit == ASSUME Init PROVE LoopInv
<1>1. TypeOK
  <2>1. LastErr \in Errors
    BY NoErrorType DEF Init
  <2>2. Retries \in [Accounts -> Nat]
    BY DEF Init, NoRetries
  <2>3. SwitchCount \in 0 .. MaxSwitches
    BY FailoverAssumption DEF Init
  <2> QED BY <2>1, <2>2, <2>3 DEF Init, TypeOK
<1>2. OneAnswer /\ Unanswered /\ Excluded /\ Held /\ Late
  BY DEF Init, OneAnswer, Unanswered, Excluded, Held, Late, Groups, Chosen, Between
<1> QED BY <1>1, <1>2 DEF LoopInv

\* An early return keeps the invariant, if it gives up no more than it held.
LEMMA EarlyReturn ==
    ASSUME LoopInv, ReturnEarly, pc # "forward",
           slots' \subseteq Accounts, locks' \subseteq Accounts, guarded' \in BOOLEAN
    PROVE  LoopInv'
BY DEF LoopInv, TypeOK, OneAnswer, Unanswered, Excluded, Held, Late, Groups, Chosen,
       Between, ReturnEarly, fsVars, tryVars, outVars

\* The steps before the upstream call.
LEMMA LoopSelect ==
    ASSUME LoopInv,
           \/ SelectNone \/ HandleSelectionExhausted
           \/ BackoffOver \/ PauseOver \/ SleepCancelled
           \/ \E a \in Accounts, acquired \in BOOLEAN : Select(a, acquired)
    PROVE  LoopInv'
<1> USE FailoverAssumption DEF LoopInv, fsVars, heldVars, tryVars, outVars
<1>1. CASE SelectNone
  BY <1>1, EarlyReturn DEF SelectNone, TypeOK
<1>2. CASE HandleSelectionExhausted
  <2>1. CASE ReturnEarly
    BY <1>2, <2>1, EarlyReturn DEF HandleSelectionExhausted, TypeOK
  <2>2. CASE pc' = "backoff"
    <3>1. /\ pc = "select"
          /\ UNCHANGED <<account, fsVars, fallbackUsed, gone, tryVars, outVars, heldVars>>
      BY <1>2, <2>2 DEF HandleSelectionExhausted, ReturnEarly
    <3> QED
      BY <2>2, <3>1 DEF TypeOK, OneAnswer, Unanswered, Excluded, Held, Late, Groups,
         Chosen, Between
  <2> QED BY <1>2, <2>1, <2>2 DEF HandleSelectionExhausted
<1>3. CASE BackoffOver
  BY <1>3 DEF BackoffOver, TypeOK, OneAnswer, Unanswered, Excluded, Held, Late, Groups,
     Chosen, Between
<1>4. CASE PauseOver
  BY <1>4 DEF PauseOver, TypeOK, OneAnswer, Unanswered, Excluded, Held, Late, Groups,
     Chosen, Between
<1>5. CASE SleepCancelled
  BY <1>5, EarlyReturn DEF SleepCancelled, TypeOK
<1>6. ASSUME NEW a \in Accounts, NEW acquired \in BOOLEAN, Select(a, acquired)
      PROVE  LoopInv'
  BY <1>6 DEF Select, TypeOK, OneAnswer, Unanswered, Excluded, Held, Late, Groups,
     Chosen, Between
<1> QED BY <1>1, <1>2, <1>3, <1>4, <1>5, <1>6

LEMMA LoopAdmit ==
    ASSUME LoopInv,
           \/ Intercept \/ SlotRefused \/ SlotGranted \/ RecordProfitVeto
           \/ \E serialize \in BOOLEAN : Admit(serialize)
           \/ PrepareFails \/ Forward
    PROVE  LoopInv'
<1> USE FailoverAssumption DEF LoopInv, fsVars, heldVars, tryVars, outVars
<1>1. CASE Intercept
  BY <1>1, EarlyReturn DEF Intercept, TypeOK
<1>2. CASE SlotRefused
  BY <1>2, EarlyReturn DEF SlotRefused, TypeOK
<1>3. CASE SlotGranted
  BY <1>3 DEF SlotGranted, TypeOK, OneAnswer, Unanswered, Excluded, Held, Late, Groups,
     Chosen, Between
<1>4. CASE RecordProfitVeto
  BY <1>4 DEF RecordProfitVeto, AtProfitGate, TypeOK, OneAnswer, Unanswered, Excluded,
     Held, Late, Groups, Chosen, Between
<1>5. ASSUME NEW serialize \in BOOLEAN, Admit(serialize) PROVE LoopInv'
  BY <1>5 DEF Admit, AtProfitGate, TypeOK, OneAnswer, Unanswered, Excluded, Held, Late,
     Groups, Chosen, Between
<1>6. CASE PrepareFails
  BY <1>6, EarlyReturn DEF PrepareFails, TypeOK
<1>7. CASE Forward
  BY <1>7 DEF Forward, TypeOK, OneAnswer, Unanswered, Excluded, Held, Late, Groups,
     Chosen, Between
<1> QED BY <1>1, <1>2, <1>3, <1>4, <1>5, <1>6, <1>7

\* The answers of the upstream.
LEMMA LoopAnswer ==
    ASSUME LoopInv, Answer PROVE LoopInv'
<1> USE FailoverAssumption DEF LoopInv, fsVars, heldVars, tryVars, outVars
<1>1. CASE Succeed
  BY <1>1 DEF Succeed, ReleaseHeld, Sent, SubmitUsage, TypeOK, OneAnswer, Unanswered,
     Excluded, Held, Late, Groups, Chosen, Between
<1>2. ASSUME NEW sent \in BOOLEAN, NEW metered \in BOOLEAN, ForwardFails(sent, metered)
      PROVE  LoopInv'
  BY <1>2 DEF ForwardFails, ReleaseHeld, Sent, SubmitUsage, TypeOK, OneAnswer,
     Unanswered, Excluded, Held, Late, Groups, Chosen, Between
<1>3. ASSUME NEW e \in Errors, NEW sent \in BOOLEAN, FailoverError(e, sent)
      PROVE  LoopInv'
  <2>1. CASE sent
    BY <1>3, <2>1 DEF FailoverError, ReleaseHeld, Sent, TypeOK, OneAnswer,
       Unanswered, Excluded, Held, Late, Groups, Chosen, Between
  <2>2. CASE ~sent /\ Stops(e)
    BY <1>3, <2>2 DEF FailoverError, HandleFailoverError, Stops, ReleaseHeld, Sent,
       TypeOK, OneAnswer, Unanswered, Excluded, Held, Late, Groups, Chosen, Between,
       Errors
  <2>3. CASE ~sent /\ RetriesSame(e)
    <3>1. ForceCacheBilling' \in BOOLEAN
      BY <2>3, ForceType DEF RetriesSame
    <3>2. TypeOK'
      <4>1. Retries' \in [Accounts -> Nat]
        BY <1>3, <2>3 DEF FailoverError, RetriesSame, TypeOK, Excluded, Chosen
      <4>2. flagged' \in BOOLEAN
        BY <1>3, <2>3, Zenon DEF FailoverError, HandleFailoverError
      <4> QED
        BY <1>3, <2>3, <3>1, <4>1, <4>2 DEF FailoverError, RetriesSame, ReleaseHeld,
           Sent, TypeOK
    <3>3. ~gone
      BY <2>3 DEF RetriesSame, MustStop
    <3>4. (OneAnswer /\ Unanswered /\ Excluded /\ Held /\ Late)'
      BY <1>3, <2>3, <3>3 DEF FailoverError, RetriesSame, ReleaseHeld, Sent, TypeOK,
         OneAnswer, Unanswered, Excluded, Held, Late, Groups, Chosen, Between
    <3> QED BY <3>2, <3>4
  <2>4. CASE ~sent /\ Switches(e)
    <3>1. ForceCacheBilling' \in BOOLEAN
      BY <2>4, ForceType DEF Switches
    <3>2. TypeOK'
      <4>1. /\ SwitchCount' \in 0 .. MaxSwitches
            /\ pc' \in {"select", "pause", "done"}
        BY <2>4 DEF Switches, TypeOK
      <4> QED
        BY <1>3, <2>4, <3>1, <4>1 DEF FailoverError, HandleFailoverError, Switches,
           ReleaseHeld, Sent, TypeOK, Excluded, Chosen
    <3>3. ~gone
      BY <2>4 DEF Switches, MustStop
    <3>4. pc' \in {"select", "pause", "done"}
      BY <2>4 DEF Switches
    <3>5. (OneAnswer /\ Unanswered /\ Excluded /\ Held /\ Late)'
      <4>1. Vetoed' = Vetoed /\ Failed \subseteq Failed'
        BY <2>4 DEF Switches
      <4> QED
        BY <1>3, <2>4, <3>3, <3>4, <4>1 DEF FailoverError, ReleaseHeld, Sent, TypeOK,
         OneAnswer, Unanswered, Excluded, Held, Late, Groups, Chosen, Between
    <3> QED BY <3>2, <3>5
  <2> QED BY <1>3, <2>1, <2>2, <2>3, <2>4 DEF FailoverError, HandleFailoverError
<1>4. CASE UseFallbackGroup
  <2>1. TypeOK'
    <3>1. LastErr' \in Errors
      BY <1>4, NoErrorType DEF UseFallbackGroup
    <3>2. Retries' \in [Accounts -> Nat]
      BY <1>4 DEF UseFallbackGroup, NoRetries
    <3>3. SwitchCount' \in 0 .. MaxSwitches
      BY <1>4 DEF UseFallbackGroup
    <3> QED BY <1>4, <3>1, <3>2, <3>3 DEF UseFallbackGroup, ReleaseHeld, TypeOK
  <2>2. (OneAnswer /\ Unanswered /\ Excluded /\ Held /\ Late)'
    BY <1>4 DEF UseFallbackGroup, ReleaseHeld, TypeOK, OneAnswer, Unanswered, Excluded,
       Held, Late, Groups, Chosen, Between
  <2> QED BY <2>1, <2>2
<1> QED BY <1>1, <1>2, <1>3, <1>4 DEF Answer

\* Every step keeps the invariant: the handler's, the callback's on acceptance,
\* the cancellation of the context and the functions registered on it.
LEMMA LoopNext ==
    ASSUME LoopInv, [Next]_vars PROVE LoopInv'
<1> USE FailoverAssumption DEF LoopInv, fsVars, heldVars, tryVars, outVars
<1>1. CASE Handler
  BY <1>1, LoopSelect, LoopAdmit, LoopAnswer DEF Handler
<1>2. CASE OnUpstreamAccepted
  BY <1>2 DEF OnUpstreamAccepted, TypeOK, OneAnswer, Unanswered, Excluded, Held, Late,
     Groups, Chosen, Between
<1>3. CASE Cancel
  BY <1>3 DEF Cancel, TypeOK, OneAnswer, Unanswered, Excluded, Held, Late,
     Groups, Chosen, Between
<1>4. CASE AfterFuncSlot
  BY <1>4 DEF AfterFuncSlot, TypeOK, OneAnswer, Unanswered, Excluded, Held, Late, Groups,
     Chosen, Between
<1>5. CASE AfterFuncLock
  BY <1>5 DEF AfterFuncLock, TypeOK, OneAnswer, Unanswered, Excluded, Held, Late, Groups,
     Chosen, Between
<1>6. CASE UNCHANGED vars
  BY <1>6 DEF vars, TypeOK, OneAnswer, Unanswered, Excluded, Held, Late, Groups, Chosen,
     Between
<1> QED BY <1>1, <1>2, <1>3, <1>4, <1>5, <1>6 DEF Next, AfterFunc

\* The invariant implies the properties it was found for.
LEMMA LoopImplies ==
    ASSUME LoopInv
    PROVE  /\ TypeOK /\ OneAnswer /\ VetoRespected /\ HeldWhileForwarding
           /\ NothingCarried /\ FewLateAttempts
BY DEF LoopInv, TypeOK, Excluded, Held, Late, Groups, Chosen, Between, VetoRespected,
       HeldWhileForwarding, NothingCarried, FewLateAttempts

LEMMA LoopAlways == Spec => []LoopInv
BY LoopInit, LoopNext, PTL DEF Spec

-----------------------------------------------------------------------------
\* The attempts a group may cost.
PerGroup == 1 + MaxSwitches + Cardinality(RetriesUpTo(RetryLimit))

\* Retries are counted within their limits, and an attempt is paid for by the
\* group's first, by a switch or by a retry; the one under way comes on top.
Counted ==
    /\ \A a \in Accounts : Retries[a] <= RetryLimit[a]
    /\ attempts <= Groups * PerGroup + SwitchCount + Cardinality(RetriesUpTo(Retries))
                     + (IF pc \in {"forward", "done"} THEN 1 ELSE 0)

CountInv == LoopInv /\ Counted

\* The retries within the limits are finitely many, none at the start, at most
\* the limits allow, and one more after a retry.
LEMMA RetryCounts ==
    ASSUME NEW f \in [Accounts -> Nat], \A a \in Accounts : f[a] <= RetryLimit[a]
    PROVE  /\ IsFiniteSet(RetriesUpTo(f)) /\ Cardinality(RetriesUpTo(f)) \in Nat
           /\ Cardinality(RetriesUpTo(RetryLimit)) \in Nat
           /\ Cardinality(RetriesUpTo(f)) <= Cardinality(RetriesUpTo(RetryLimit))
<1> USE FailoverAssumption
<1>1. IsFiniteSet(1 .. maxPoolModeRetryCount)
  <2>1. 1 \in Int /\ maxPoolModeRetryCount \in Int
    BY DEF maxPoolModeRetryCount
  <2> QED BY <2>1, FS_Interval
<1>2. IsFiniteSet(Accounts \X (1 .. maxPoolModeRetryCount))
  BY <1>1, FS_Product
<1>3. RetriesUpTo(RetryLimit) \in SUBSET (Accounts \X (1 .. maxPoolModeRetryCount))
  BY DEF RetriesUpTo
<1>4. IsFiniteSet(RetriesUpTo(RetryLimit))
  BY <1>2, <1>3, FS_Subset
<1>5. RetriesUpTo(f) \in SUBSET RetriesUpTo(RetryLimit)
  BY DEF RetriesUpTo
<1> QED BY <1>4, <1>5, FS_Subset, FS_CardinalityType

LEMMA NoRetriesCount == Cardinality(RetriesUpTo(NoRetries)) = 0
<1>1. RetriesUpTo(NoRetries) = {}
  BY DEF RetriesUpTo, NoRetries
<1> QED BY <1>1, FS_EmptySet

LEMMA OneMoreRetry ==
    ASSUME NEW f \in [Accounts -> Nat], NEW a \in Accounts, f[a] < RetryLimit[a],
           \A b \in Accounts : f[b] <= RetryLimit[b]
    PROVE  Cardinality(RetriesUpTo([f EXCEPT ![a] = @ + 1])) = Cardinality(RetriesUpTo(f)) + 1
<1> USE FailoverAssumption
<1> DEFINE g == [f EXCEPT ![a] = @ + 1]
           x == <<a, f[a] + 1>>
<1>1. x \notin RetriesUpTo(f)
  BY DEF RetriesUpTo
<1>2. f[a] + 1 \in 1 .. maxPoolModeRetryCount
  BY DEF maxPoolModeRetryCount
<1>3. RetriesUpTo(g) = RetriesUpTo(f) \cup {x}
  BY <1>2 DEF RetriesUpTo
<1> HIDE DEF g, x
<1>4. IsFiniteSet(RetriesUpTo(f))
  BY RetryCounts
<1>5. Cardinality(RetriesUpTo(g)) = Cardinality(RetriesUpTo(f)) + 1
  BY <1>1, <1>3, <1>4, FS_AddElement
<1> QED BY <1>5 DEF g

\* Every step keeps the count.
LEMMA CountStep == CountInv /\ [Next]_vars => CountInv'
<1> SUFFICES ASSUME CountInv, [Next]_vars PROVE Counted'
  BY LoopNext DEF CountInv
<1> USE FailoverAssumption DEF fsVars, heldVars, tryVars, outVars
<1>0. /\ TypeOK /\ attempts \in Nat /\ SwitchCount \in Nat /\ SwitchCount <= MaxSwitches
      /\ Retries \in [Accounts -> Nat] /\ \A a \in Accounts : Retries[a] <= RetryLimit[a]
      /\ fallbackUsed \in BOOLEAN /\ (pc = "forward" => account \in Accounts)
  BY DEF CountInv, LoopInv, TypeOK, Counted, Excluded, Chosen
<1> DEFINE C == Cardinality(RetriesUpTo(Retries))
           L == Cardinality(RetriesUpTo(RetryLimit))
<1>1. C \in Nat /\ L \in Nat /\ C <= L
  BY <1>0, RetryCounts
<1>2. PerGroup \in Nat /\ PerGroup = 1 + MaxSwitches + L
  BY <1>1 DEF PerGroup
<1> DEFINE Base == Groups * PerGroup
<1>3. Base \in Nat /\ (fallbackUsed => Base = PerGroup) /\ (~fallbackUsed => Base = 0)
  BY <1>0, <1>2 DEF Groups
<1>4. attempts <= Base + SwitchCount + C + (IF pc \in {"forward", "done"} THEN 1 ELSE 0)
  BY DEF CountInv, Counted
\* Nothing counted changes, and the handler does not leave the forward.
<1>5. ASSUME UNCHANGED <<SwitchCount, Retries, fallbackUsed>>, attempts' = attempts,
             pc \in {"forward", "done"} => pc' \in {"forward", "done"}
      PROVE  Counted'
  <2>1. C' = C /\ Base' = Base
    BY <1>5 DEF RetriesUpTo, Groups, PerGroup
  <2>2. attempts' <= Base' + SwitchCount' + C' + (IF pc' \in {"forward", "done"} THEN 1 ELSE 0)
    <3> HIDE DEF C, Base
    <3> QED BY <1>0, <1>1, <1>3, <1>4, <1>5, <2>1
  <2> QED BY <1>0, <1>5, <2>2 DEF Counted
<1>6. CASE Handler /\ pc # "forward" /\ ~Forward
  <2>1. UNCHANGED <<SwitchCount, Retries, fallbackUsed>> /\ attempts' = attempts /\ pc # "done"
    BY <1>6 DEF Handler, SelectNone, ReturnEarly, HandleSelectionExhausted, BackoffOver, PauseOver,
         SleepCancelled, Select, Intercept, SlotRefused, SlotGranted, RecordProfitVeto,
         AtProfitGate, Admit, PrepareFails, Answer, Succeed, ForwardFails, FailoverError,
         UseFallbackGroup
  <2> QED BY <1>5, <1>6, <2>1
<1>7. CASE Forward
  <2>1. /\ UNCHANGED <<SwitchCount, Retries, fallbackUsed>> /\ attempts' = attempts + 1
        /\ pc = "prepare" /\ pc' = "forward"
    BY <1>7 DEF Forward
  <2>2. C' = C /\ Base' = Base
    BY <2>1 DEF RetriesUpTo, Groups, PerGroup
  <2>3. attempts' <= Base' + SwitchCount' + C' + 1
    <3> HIDE DEF C, Base
    <3> QED BY <1>0, <1>1, <1>3, <1>4, <2>1, <2>2
  <2> QED BY <1>0, <2>1, <2>3 DEF Counted
<1>8. CASE Answer
  <2>0. pc = "forward"
    BY <1>8 DEF Answer, Succeed, ForwardFails, FailoverError, UseFallbackGroup
  <2>1. CASE Succeed \/ \E sent, metered \in BOOLEAN : ForwardFails(sent, metered)
    BY <1>5, <2>1 DEF Succeed, ForwardFails
  <2>2. ASSUME NEW e \in Errors, NEW sent \in BOOLEAN, FailoverError(e, sent) PROVE Counted'
    <3>0. attempts' = attempts /\ fallbackUsed' = fallbackUsed /\ Base' = Base
      BY <2>2 DEF FailoverError, Groups, PerGroup, RetriesUpTo
    <3>1. CASE sent \/ Stops(e)
      <4>1. UNCHANGED <<SwitchCount, Retries>> /\ pc' = "done"
        BY <2>2, <3>1 DEF FailoverError, Stops
      <4> QED BY <1>5, <3>0, <4>1
    <3>2. CASE RetriesSame(e)
      <4>1. /\ SwitchCount' = SwitchCount /\ pc' = "pause"
            /\ Retries' = [Retries EXCEPT ![account] = @ + 1]
            /\ account \in Accounts /\ Retries[account] < RetryLimit[account]
        BY <1>0, <2>0, <3>2 DEF RetriesSame, SameAccountRetry
      <4>2. C' = C + 1
        <5>1. Cardinality(RetriesUpTo([Retries EXCEPT ![account] = @ + 1])) = C + 1
          BY <1>0, <4>1, OneMoreRetry
        <5>2. C' = Cardinality(RetriesUpTo([Retries EXCEPT ![account] = @ + 1]))
          BY <4>1 DEF RetriesUpTo
        <5> QED BY <5>1, <5>2
      <4>3. attempts' <= Base' + SwitchCount' + C'
        <5> HIDE DEF C, Base
        <5> QED BY <1>0, <1>1, <1>3, <1>4, <2>0, <3>0, <4>1, <4>2
      <4>4. \A a \in Accounts : Retries'[a] <= RetryLimit[a]
        BY <1>0, <4>1
      <4>5. attempts' <= Base' + SwitchCount' + C' + 0
        <5>1. Base' \in Nat /\ SwitchCount' \in Nat /\ C' \in Nat
          BY <1>0, <1>1, <1>3, <3>0, <4>1, <4>2
        <5> HIDE DEF C, Base
        <5> QED BY <4>3, <5>1
      <4> QED BY <4>1, <4>4, <4>5 DEF Counted
    <3>3. CASE Switches(e)
      <4>1. /\ Retries' = Retries
            /\ \/ SwitchCount' = SwitchCount /\ pc' = "done"
               \/ SwitchCount' = SwitchCount + 1
        BY <3>3 DEF Switches
      <4>2. C' = C
        BY <4>1 DEF RetriesUpTo
      <4>3. attempts' <= Base' + SwitchCount' + C' + (IF pc' \in {"forward", "done"} THEN 1 ELSE 0)
        <5> HIDE DEF C, Base
        <5> QED BY <1>0, <1>1, <1>3, <1>4, <2>0, <3>0, <4>1, <4>2
      <4> QED BY <1>0, <4>1, <4>3 DEF Counted
    <3> QED BY <2>2, <3>1, <3>2, <3>3 DEF FailoverError, HandleFailoverError
  <2>3. CASE UseFallbackGroup
    <3>1. /\ ~fallbackUsed /\ fallbackUsed' = TRUE /\ attempts' = attempts /\ pc' = "select"
          /\ SwitchCount' = 0 /\ Retries' = NoRetries
      BY <2>3 DEF UseFallbackGroup
    <3>2. C' = 0
      <4>1. C' = Cardinality(RetriesUpTo(NoRetries))
        BY <3>1 DEF RetriesUpTo
      <4> QED BY <4>1, NoRetriesCount
    <3>3. Base' = PerGroup
      <4>1. PerGroup' = PerGroup /\ Groups' = 1
        BY <3>1 DEF PerGroup, Groups, RetriesUpTo
      <4> QED BY <1>2, <4>1
    <3>4. attempts' <= Base' + SwitchCount' + C' + 0
      <4> HIDE DEF C, L, Base
      <4> QED BY <1>0, <1>1, <1>2, <1>3, <1>4, <2>0, <3>1, <3>2, <3>3
    <3>5. \A a \in Accounts : Retries'[a] <= RetryLimit[a]
      BY <3>1 DEF NoRetries
    <3> QED BY <3>1, <3>4, <3>5 DEF Counted
  <2> QED BY <1>8, <2>1, <2>2, <2>3 DEF Answer
<1>9. CASE OnUpstreamAccepted \/ Cancel \/ AfterFunc
  BY <1>5, <1>9 DEF OnUpstreamAccepted, Cancel, AfterFunc, AfterFuncSlot, AfterFuncLock
<1>10. CASE UNCHANGED vars
  BY <1>5, <1>10 DEF vars
<1>11. CASE Handler
  <2>1. pc = "forward" => Answer
    BY <1>11 DEF Handler, SelectNone, HandleSelectionExhausted, BackoffOver, PauseOver,
         SleepCancelled, Select, Intercept, SlotRefused, SlotGranted, RecordProfitVeto,
         AtProfitGate, Admit, PrepareFails, Forward
  <2> QED BY <1>6, <1>7, <1>8, <1>11, <2>1
<1> QED BY <1>9, <1>10, <1>11 DEF Next

\* The upstream calls of a request are bounded by the limits of the switches and
\* of the retries (HandleFailoverError), for any accounts, limits and errors.
THEOREM AttemptsAreBounded == Spec => []AttemptsBounded
<1>1. Init => CountInv
  <2> SUFFICES ASSUME Init PROVE CountInv
    OBVIOUS
  <2>1. Retries = NoRetries /\ attempts = 0 /\ SwitchCount = 0 /\ pc = "select" /\ fallbackUsed = FALSE
    BY DEF Init
  <2>2. NoRetries \in [Accounts -> Nat] /\ \A a \in Accounts : NoRetries[a] <= RetryLimit[a]
    BY FailoverAssumption DEF NoRetries
  <2>3. PerGroup \in Nat
    BY <2>2, RetryCounts, FailoverAssumption DEF PerGroup
  <2>4. Groups * PerGroup = 0
    BY <2>1, <2>3 DEF Groups
  <2>5. Counted
    BY <2>1, <2>2, <2>4, NoRetriesCount DEF Counted
  <2> QED BY <2>5, LoopInit DEF CountInv
<1>2. CountInv => AttemptsBounded
  <2> SUFFICES ASSUME CountInv PROVE AttemptsBounded
    OBVIOUS
  <2>0. /\ attempts \in Nat /\ SwitchCount \in Nat /\ SwitchCount <= MaxSwitches
        /\ Retries \in [Accounts -> Nat] /\ \A a \in Accounts : Retries[a] <= RetryLimit[a]
        /\ fallbackUsed \in BOOLEAN
    BY FailoverAssumption DEF CountInv, LoopInv, TypeOK, Counted
  <2> DEFINE C == Cardinality(RetriesUpTo(Retries))
             L == Cardinality(RetriesUpTo(RetryLimit))
  <2>1. C \in Nat /\ L \in Nat /\ C <= L
    BY <2>0, RetryCounts
  <2>2. attempts <= Groups * PerGroup + SwitchCount + C + 1
    BY <2>0, <2>1, FailoverAssumption DEF CountInv, Counted, Groups, PerGroup
  <2>3. PerGroup = 1 + MaxSwitches + L
    BY DEF PerGroup
  <2> HIDE DEF C, L
  <2>4. attempts <= (IF fallbackUsed THEN 2 ELSE 1) * PerGroup
    BY <2>0, <2>1, <2>2, <2>3, FailoverAssumption DEF Groups
  <2> QED BY <2>4 DEF AttemptsBounded, PerGroup
<1> QED BY <1>1, <1>2, CountStep, PTL DEF Spec

\* The client's bytes and the bill come from one attempt (FailoverError's
\* writer-size check and the bills on the way out of Messages).
THEOREM OneAnswerAlways == Spec => []OneAnswer
BY LoopAlways, LoopImplies, PTL

\* No account vetoed for the request is forwarded to (RecordProfitVeto and the
\* backoff of HandleSelectionExhausted).
THEOREM VetoAlwaysRespected == Spec => []VetoRespected
BY LoopAlways, LoopImplies, PTL

\* A request holds the slot of the account it forwards to (the release functions
\* of Messages run on the context, beside the handler).
THEOREM SlotDiscipline == Spec => []HeldWhileForwarding
BY LoopAlways, LoopImplies, PTL

\* No slot or lock is held while the request sleeps or selects another account.
THEOREM NothingIsCarried == Spec => []NothingCarried
BY LoopAlways, LoopImplies, PTL

\* The switch count never passes its limit, and the handler's locals keep their
\* types.
THEOREM LoopTyped == Spec => []TypeOK
BY LoopAlways, LoopImplies, PTL

\* A client that has gone costs at most one further attempt in each group (the
\* context checks of HandleFailoverError and HandleSelectionExhausted).
THEOREM LateAttemptsBounded == Spec => []FewLateAttempts
BY LoopAlways, LoopImplies, PTL
=============================================================================
