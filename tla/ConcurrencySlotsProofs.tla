----------------------- MODULE ConcurrencySlotsProofs -----------------------
(***************************************************************************)
(* Proofs about ConcurrencySlots for every number of requests, processes,  *)
(* limits and TTLs.  The inductive invariant says where each served        *)
(* request is counted, and that the two sorted sets together hold at most  *)
(* maxConcurrency members, or one more while a live call holds both a slot *)
(* and a lease.  A second one, about the wait queue, says that nothing     *)
(* resets the counter under a waiter.                                      *)
(***************************************************************************)
EXTENDS ConcurrencySlots, FiniteSetTheorems, TLAPS

-----------------------------------------------------------------------------
(* Type correctness.  An index score is written in a later step than the   *)
(* one that computes it, so the type of the index rests on a fact about    *)
(* where a handler and a process are when a write is pending.              *)

PendingWrites ==
    /\ \A r \in Reqs : pc[r] \in {"touch", "waitTouch", "write"} => pend[r] # NoWrite
    /\ \A p \in Procs : proc[p] \in {"delWait", "unindex"} => pend[p] # NoWrite


\* Purging keeps the type of a sorted set and adds no member.
LEMMA PurgedFacts ==
    ASSUME NEW n \in Nat, NEW z \in [Reqs -> Absent..n]
    PROVE  /\ Purged(z) \in [Reqs -> Absent..n]
           /\ \A r \in Reqs : Purged(z)[r] = IF z[r] = 0 THEN Absent ELSE z[r]
           /\ Members(Purged(z)) \subseteq Members(z)
BY DEF Purged, Members, Absent

\* The key TTL that the scripts leave stays in its range.
LEMMA KeyOfType ==
    ASSUME NEW n \in Nat, NEW k \in 0..n, NEW z
    PROVE  KeyOf(z, k) \in 0..n
BY DEF KeyOf

\* The score that refreshActiveIndex computes is a score or a removal.
LEMMA IndexScoreType ==
    ASSUME NEW S, NEW w \in Nat
    PROVE  IndexScore(S, w) \in NoWrite..IndexTTL
BY LimitsAssumption DEF IndexScore, IndexTTL, Larger, Absent, NoWrite

\* The TTLs fit in the range of index scores.
LEMMA TTLRanges ==
    /\ SlotTTL \in NoWrite..IndexTTL
    /\ WaitTTL \in NoWrite..IndexTTL
    /\ Absent \in NoWrite..IndexTTL
    /\ NoWrite \in NoWrite..IndexTTL
    /\ IndexTTL \in Nat
BY LimitsAssumption DEF IndexTTL, Larger, Absent, NoWrite

\* acquireScript keeps the Redis part well-typed.
LEMMA AcquireScriptType ==
    ASSUME TypeOK, NEW r \in Reqs, NEW ok \in BOOLEAN, AcquireScript(r, ok)
    PROVE  /\ slot' \in [Reqs -> Absent..SlotTTL]
           /\ slotKey' \in 0..SlotTTL
           /\ live' \in [Reqs -> Absent..LiveTTL]
           /\ liveKey' \in 0..LiveTTL
<1>1. /\ Purged(slot) \in [Reqs -> Absent..SlotTTL]
      /\ Purged(live) \in [Reqs -> Absent..LiveTTL]
  BY PurgedFacts, LimitsAssumption DEF TypeOK
<1>2. \A z : KeyOf(z, slotKey) \in 0..SlotTTL /\ KeyOf(z, liveKey) \in 0..LiveTTL
  BY KeyOfType, LimitsAssumption DEF TypeOK
<1>3. SlotTTL \in Absent..SlotTTL /\ SlotTTL \in 0..SlotTTL
  BY LimitsAssumption DEF Absent
<1> QED
  BY <1>1, <1>2, <1>3 DEF AcquireScript

\* Every step of a request keeps the types.
LEMMA RequestStepType ==
    ASSUME TypeOK, PendingWrites, NEW r \in Reqs, RequestStep(r)
    PROVE  TypeOK'
<1> USE LimitsAssumption, ReqsAssumption
<1>1. ASSUME NEW p \in Procs, Acquire(r, p) PROVE TypeOK'
  BY <1>1, AcquireScriptType, TTLRanges DEF Acquire, AcquireScript, TypeOK, Clients
<1>2. ASSUME NEW p \in Procs, AcquireFull(r, p) PROVE TypeOK'
  BY <1>2, AcquireScriptType DEF AcquireFull, AcquireScript, TypeOK, Clients
<1>3. ASSUME NEW p \in Procs, AcquireReplyLost(r, p) PROVE TypeOK'
  BY <1>3, AcquireScriptType DEF AcquireReplyLost, AcquireScript, TypeOK, Clients
<1>4. CASE AcquireAgain(r)
  <2>1. /\ Purged(slot) \in [Reqs -> Absent..SlotTTL]
        /\ Purged(live) \in [Reqs -> Absent..LiveTTL]
        /\ KeyOf(Purged(live), liveKey) \in 0..LiveTTL
        /\ SlotTTL \in Absent..SlotTTL
    BY PurgedFacts, KeyOfType DEF TypeOK, Absent
  <2> QED
    BY <1>4, <2>1, TTLRanges DEF AcquireAgain, TypeOK, Clients
<1>5. CASE WriteIndex(r)
  <2>1. index' \in Absent..IndexTTL
    BY <1>5, TTLRanges DEF WriteIndex, PendingWrites, TypeOK, Clients, Absent, NoWrite
  <2> QED
    BY <1>5, <2>1, TTLRanges DEF WriteIndex, AfterWrite, Finish, TypeOK, Clients
<1>6. CASE Release(r)
  <2>1. RemoveSlot(r) \in [Reqs -> Absent..SlotTTL]
    BY DEF TypeOK, RemoveSlot, Absent
  <2>2. KeyOf(RemoveSlot(r), slotKey) \in 0..SlotTTL
    BY KeyOfType DEF TypeOK
  <2> QED
    BY <1>6, <2>1, <2>2 DEF Release, TypeOK, Clients
<1>7. CASE ReleaseFailed(r)
  BY <1>7 DEF ReleaseFailed, redisVars, TypeOK, Clients
<1>8. CASE ReadLoad(r)
  <2>1. /\ Purged(slot) \in [Reqs -> Absent..SlotTTL]
        /\ KeyOf(Purged(slot), slotKey) \in 0..SlotTTL
        /\ IndexScore(Members(Purged(slot)), wait) \in NoWrite..IndexTTL
    BY PurgedFacts, KeyOfType, IndexScoreType DEF TypeOK
  <2> QED
    BY <1>8, <2>1 DEF ReadLoad, TypeOK, Clients
<1>9. CASE AcquireLive(r)
  <2>1. Purged(live) \in [Reqs -> Absent..LiveTTL] /\ LiveTTL \in Absent..LiveTTL
    BY PurgedFacts DEF TypeOK, Absent
  <2> QED
    BY <1>9, <2>1 DEF AcquireLive, TypeOK, Clients
<1>10. CASE RefreshLive(r)
  <2>1. Purged(live) \in [Reqs -> Absent..LiveTTL] /\ LiveTTL \in Absent..LiveTTL
    BY PurgedFacts DEF TypeOK, Absent
  <2> QED
    BY <1>10, <2>1 DEF RefreshLive, localVars, TypeOK, Clients
<1>11. CASE ReleaseLive(r)
  <2>1. [live EXCEPT ![r] = Absent] \in [Reqs -> Absent..LiveTTL]
    BY DEF TypeOK, Absent
  <2>2. KeyOf([live EXCEPT ![r] = Absent], liveKey) \in 0..LiveTTL
    BY KeyOfType DEF TypeOK
  <2> QED
    BY <1>11, <2>1, <2>2 DEF ReleaseLive, Finish, TypeOK, Clients
<1>12. CASE GiveUp(r)
  BY <1>12 DEF GiveUp, Finish, redisVars, TypeOK, Clients
<1>13. CASE IncrementWait(r)
  BY <1>13, TTLRanges DEF IncrementWait, TypeOK, Clients
<1>14. CASE IncrementWaitFailed(r)
  BY <1>14 DEF IncrementWaitFailed, redisVars, TypeOK, Clients
<1>15. CASE WaitTry(r)
  <2>1. \E ok \in BOOLEAN : AcquireScript(r, ok)
    BY <1>15 DEF WaitTry
  <2>2. /\ slot' \in [Reqs -> Absent..SlotTTL]
        /\ slotKey' \in 0..SlotTTL
        /\ live' \in [Reqs -> Absent..LiveTTL]
        /\ liveKey' \in 0..LiveTTL
    BY <2>1, AcquireScriptType
  <2>3. UNCHANGED <<wait, waitKey, index>>
    BY <2>1 DEF AcquireScript
  <2>4. /\ holding' \in SUBSET Reqs
        /\ pend' \in [Clients -> NoWrite..IndexTTL]
        /\ pc' \in [Reqs -> {"idle", "full", "touch", "running", "waitTouch",
                        "waiting", "dec", "read", "write", "live", "gone"}]
    <3>1. CASE UNCHANGED <<holding, pend, pc>>
      BY <3>1 DEF TypeOK
    <3>2. CASE /\ holding' = holding \cup {r}
               /\ pend' = [pend EXCEPT ![r] = SlotTTL]
               /\ pc' = [pc EXCEPT ![r] = "touch"]
      BY <3>2, TTLRanges DEF TypeOK, Clients
    <3> QED
      BY <1>15, <3>1, <3>2 DEF WaitTry
  <2> QED
    BY <1>15, <2>2, <2>3, <2>4 DEF WaitTry, TypeOK
<1>16. CASE WaitEnds(r)
  BY <1>16 DEF WaitEnds, redisVars, TypeOK, Clients
<1>17. CASE DecrementWait(r)
  BY <1>17 DEF DecrementWait, TypeOK, Clients
<1>18. CASE Forget(r)
  BY <1>18 DEF Forget, Finish, redisVars, TypeOK, Clients
<1> QED
  BY <1>1, <1>2, <1>3, <1>4, <1>5, <1>6, <1>7, <1>8, <1>9, <1>10, <1>11,
     <1>12, <1>13, <1>14, <1>15, <1>16, <1>17, <1>18 DEF RequestStep

\* Every step of a request keeps the pending writes.
LEMMA RequestStepPending ==
    ASSUME TypeOK, PendingWrites, NEW r \in Reqs, RequestStep(r)
    PROVE  PendingWrites'
<1> USE LimitsAssumption, ReqsAssumption
<1>1. /\ SlotTTL # NoWrite
      /\ WaitTTL # NoWrite
      /\ IndexScore(Members(Purged(slot)), wait) # NoWrite
  BY DEF NoWrite, IndexScore, Larger, Absent, TypeOK
<1>2. /\ proc' = proc
      /\ \A x \in Clients : x # r => pend'[x] = pend[x]
      /\ \A x \in Reqs : x # r => pc'[x] = pc[x]
  BY DEF RequestStep, Acquire, AcquireFull, AcquireReplyLost, AcquireAgain,
         WriteIndex, Release, ReleaseFailed, ReadLoad, AcquireLive, RefreshLive,
         ReleaseLive, GiveUp, IncrementWait, IncrementWaitFailed, WaitTry,
         WaitEnds, DecrementWait, Forget, TypeOK, Clients, localVars
<1>3. pc'[r] \in {"touch", "waitTouch", "write"} => pend'[r] # NoWrite
  BY <1>1 DEF RequestStep, Acquire, AcquireFull, AcquireReplyLost, AcquireAgain,
         WriteIndex, AfterWrite, Release, ReleaseFailed, ReadLoad, AcquireLive,
         RefreshLive, ReleaseLive, GiveUp, IncrementWait, IncrementWaitFailed,
         WaitTry, WaitEnds, DecrementWait, Forget, TypeOK, Clients, localVars,
         PendingWrites
<1> QED
  BY <1>2, <1>3 DEF PendingWrites, Clients

\* Every step of a process keeps the types and the pending writes.
LEMMA ProcessStepType ==
    ASSUME TypeOK, PendingWrites, NEW p \in Procs, ProcessStep(p)
    PROVE  TypeOK' /\ PendingWrites'
<1> USE LimitsAssumption, ReqsAssumption
<1>1. CASE ReconcileRead(p)
  <2>1. /\ Purged(slot) \in [Reqs -> Absent..SlotTTL]
        /\ KeyOf(Purged(slot), slotKey) \in 0..SlotTTL
        /\ IndexScore(Members(Purged(slot)), wait) \in NoWrite..IndexTTL
    BY PurgedFacts, KeyOfType, IndexScoreType DEF TypeOK
  <2>2. TypeOK'
    BY <1>1, <2>1 DEF ReconcileRead, TypeOK, Clients
  <2>3. PendingWrites'
    BY <1>1 DEF ReconcileRead, PendingWrites, TypeOK, Clients
  <2> QED BY <2>2, <2>3
<1>2. CASE ReconcileWrite(p)
  <2>1. index' \in Absent..IndexTTL
    BY <1>2, TTLRanges DEF ReconcileWrite, TypeOK, Clients, Absent, NoWrite
  <2>2. TypeOK'
    BY <1>2, <2>1, TTLRanges DEF ReconcileWrite, TypeOK, Clients
  <2>3. PendingWrites'
    BY <1>2 DEF ReconcileWrite, PendingWrites, TypeOK, Clients
  <2> QED BY <2>2, <2>3
<1>3. CASE Start(p)
  BY <1>3 DEF Start, redisVars, TypeOK, Clients, PendingWrites
<1>4. CASE StartupScan(p)
  BY <1>4 DEF StartupScan, redisVars, TypeOK, Clients, PendingWrites
<1>5. CASE StartupPurge(p)
  <2> DEFINE s == [r \in Reqs |-> IF r \in Foreign(p) THEN Absent ELSE slot[r]]
  <2>1. s \in [Reqs -> Absent..SlotTTL]
    BY DEF TypeOK, Absent
  <2>2. KeyOf(s, SlotTTL) \in 0..SlotTTL
    BY KeyOfType
  <2>3. Foreign(p) \subseteq Reqs
    BY DEF Foreign, SlotMembers
  <2>4. slot' = s /\ slotKey' = KeyOf(s, SlotTTL)
    BY <1>5 DEF StartupPurge
  <2>5. pend'[p] \in Absent..IndexTTL /\ pend' \in [Clients -> NoWrite..IndexTTL]
    BY <1>5, TTLRanges DEF StartupPurge, TypeOK, Clients, Absent, NoWrite, IndexTTL, Larger
  <2>6. TypeOK'
    BY <1>5, <2>1, <2>2, <2>3, <2>4, <2>5 DEF StartupPurge, TypeOK, Clients
  <2>7. PendingWrites'
    <3>1. \A x \in Clients : x # p => pend'[x] = pend[x]
      BY <1>5 DEF StartupPurge, TypeOK
    <3> QED
      BY <1>5, <2>5, <3>1 DEF StartupPurge, PendingWrites, TypeOK, Clients, Absent, NoWrite
  <2> QED BY <2>6, <2>7
<1>6. CASE StartupDelWait(p)
  BY <1>6 DEF StartupDelWait, TypeOK, Clients, PendingWrites
<1>7. CASE StartupIndex(p)
  <2>1. index' \in Absent..IndexTTL
    BY <1>7, TTLRanges DEF StartupIndex, TypeOK, Clients, PendingWrites, Absent, NoWrite
  <2>2. TypeOK'
    BY <1>7, <2>1, TTLRanges DEF StartupIndex, TypeOK, Clients
  <2>3. PendingWrites'
    BY <1>7 DEF StartupIndex, PendingWrites, TypeOK, Clients
  <2> QED BY <2>2, <2>3
<1>8. CASE Crash(p)
  <2>1. TypeOK'
    BY <1>8, TTLRanges DEF Crash, redisVars, TypeOK, Clients
  <2>2. PendingWrites'
    BY <1>8 DEF Crash, PendingWrites, TypeOK, Clients
  <2> QED BY <2>1, <2>2
<1>9. CASE StartupFails(p)
  <2>1. TypeOK'
    BY <1>9, TTLRanges DEF StartupFails, redisVars, TypeOK, Clients
  <2>2. PendingWrites'
    BY <1>9 DEF StartupFails, PendingWrites, TypeOK, Clients
  <2> QED BY <2>1, <2>2
<1> QED
  BY <1>1, <1>2, <1>3, <1>4, <1>5, <1>6, <1>7, <1>8, <1>9 DEF ProcessStep

\* Reading the load keeps the types.
LEMMA ReadCountType ==
    ASSUME TypeOK, PendingWrites, ReadCount
    PROVE  TypeOK' /\ PendingWrites'
<1>1. /\ Purged(slot) \in [Reqs -> Absent..SlotTTL]
      /\ KeyOf(Purged(slot), slotKey) \in 0..SlotTTL
      /\ Purged(live) \in [Reqs -> Absent..LiveTTL]
      /\ KeyOf(Purged(live), liveKey) \in 0..LiveTTL
  BY PurgedFacts, KeyOfType, LimitsAssumption DEF TypeOK
<1> QED
  BY <1>1 DEF ReadCount, localVars, TypeOK, PendingWrites

\* The passing of time keeps the types.
LEMMA TickType ==
    ASSUME TypeOK, PendingWrites, Tick
    PROVE  TypeOK' /\ PendingWrites'
<1> USE LimitsAssumption, ReqsAssumption
<1>1. /\ Aged(slot, slotKey) \in [Reqs -> Absent..SlotTTL]
      /\ Aged(live, liveKey) \in [Reqs -> Absent..LiveTTL]
  BY DEF Aged, Less, TypeOK, Absent
<1>2. /\ Less(slotKey) \in 0..SlotTTL
      /\ Less(liveKey) \in 0..LiveTTL
      /\ Less(waitKey) \in 0..WaitTTL
      /\ Less(index) \in Absent..IndexTTL
  BY TTLRanges DEF Less, TypeOK, Absent
<1>3. pend' \in [Clients -> NoWrite..IndexTTL]
  BY TTLRanges DEF Tick, Less, TypeOK, NoWrite
<1>4. timer' \in [Reqs -> 0..WaitTimeout]
  BY DEF Tick, Less, TypeOK
<1>5. Lapsing \subseteq Reqs
  BY DEF Lapsing, TypeOK
<1>6. TypeOK'
  BY <1>1, <1>2, <1>3, <1>4, <1>5 DEF Tick, TypeOK
<1>7. PendingWrites'
  BY DEF Tick, PendingWrites, Less, NoWrite, TypeOK, Clients
<1> QED BY <1>6, <1>7

(***************************************************************************)
(* Type correctness of the store and of its clients, for all limits, TTLs  *)
(* and numbers of requests and processes: in particular the wait counter   *)
(* of incrementWaitScript and decrementWaitScript never goes negative, and *)
(* a pending index write always has a score to write.                      *)
(***************************************************************************)
THEOREM TypeCorrect == Spec => [](TypeOK /\ PendingWrites)
<1>1. Init => TypeOK /\ PendingWrites
  BY LimitsAssumption, TTLRanges DEF Init, TypeOK, PendingWrites, Absent, NoWrite, Clients
<1>2. TypeOK /\ PendingWrites /\ [Next]_vars => TypeOK' /\ PendingWrites'
  <2> SUFFICES ASSUME TypeOK, PendingWrites, [Next]_vars PROVE TypeOK' /\ PendingWrites'
    OBVIOUS
  <2>1. CASE UNCHANGED vars
    BY <2>1 DEF vars, redisVars, localVars, TypeOK, PendingWrites
  <2>2. CASE Next
    BY <2>2, RequestStepType, RequestStepPending, ProcessStepType, ReadCountType,
       TickType DEF Next
  <2> QED BY <2>1, <2>2
<1> QED
  BY <1>1, <1>2, PTL DEF Spec

-----------------------------------------------------------------------------
(* The cap.                                                                *)

\* The two sorted sets S and L hold at most MaxConc members together, or one
\* more when a member of L also has its regular slot, or has lost it early.
CapOK(S, L, E) ==
    /\ Cardinality(S) + Cardinality(L) <= MaxConc + 1
    /\ Cardinality(S) + Cardinality(L) = MaxConc + 1 =>
          \E x \in L : x \in S \/ x \in E

\* Where a handler is, against what it holds.
HandlerState ==
    \A r \in Reqs :
        /\ pc[r] \in {"idle", "full", "live", "gone"} => r \notin holding
        /\ pc[r] \in {"idle", "full", "gone"} => r \notin leased
        /\ pc[r] = "running" => r \in holding
        /\ live[r] # Absent => r \in leased \/ pc[r] = "gone"

\* A served request is counted, with time left, unless it was evicted.
Counted ==
    /\ \A r \in holding : slot[r] > 0 \/ r \in evicted
    /\ \A r \in leased : live[r] > 0 \/ r \in evicted

\* The inductive invariant behind UpstreamWithinCap.
CapInv ==
    /\ TypeOK
    /\ KeyOutlivesMembers
    /\ HandlerState
    /\ Counted
    /\ CapOK(Members(slot), Members(live), evicted)

-----------------------------------------------------------------------------
(* Counting lemmas.                                                        *)

\* Every set of requests is finite and has a natural cardinality.
LEMMA FiniteReqs ==
    ASSUME NEW S \in SUBSET Reqs
    PROVE  IsFiniteSet(S) /\ Cardinality(S) \in Nat
BY FS_Subset, FS_CardinalityType, ReqsAssumption

\* A purge, a release or a key expiry only shrinks the sets.
LEMMA CapShrinks ==
    ASSUME NEW S \in SUBSET Reqs, NEW L \in SUBSET Reqs, NEW E,
           NEW S2 \in SUBSET S, NEW L2 \in SUBSET L, NEW E2,
           CapOK(S, L, E), E \cap L2 \subseteq E2
    PROVE  CapOK(S2, L2, E2)
<1>1. /\ Cardinality(S2) <= Cardinality(S)
      /\ Cardinality(S2) = Cardinality(S) => S2 = S
      /\ Cardinality(L2) <= Cardinality(L)
      /\ Cardinality(L2) = Cardinality(L) => L2 = L
  BY FS_Subset, FiniteReqs
<1>2. /\ Cardinality(S) \in Nat /\ Cardinality(L) \in Nat
      /\ Cardinality(S2) \in Nat /\ Cardinality(L2) \in Nat
  BY FiniteReqs
<1>3. Cardinality(S2) + Cardinality(L2) <= MaxConc + 1
  BY <1>1, <1>2, LimitsAssumption DEF CapOK
<1>4. ASSUME Cardinality(S2) + Cardinality(L2) = MaxConc + 1
      PROVE  \E x \in L2 : x \in S2 \/ x \in E2
  <2>1. Cardinality(S) + Cardinality(L) <= MaxConc + 1
    BY DEF CapOK
  <2>2. Cardinality(S2) = Cardinality(S) /\ Cardinality(L2) = Cardinality(L)
    BY <1>1, <1>2, <1>4, <2>1, LimitsAssumption
  <2>3. S2 = S /\ L2 = L
    BY <1>1, <2>2
  <2> QED
    BY <1>4, <2>2, <2>3 DEF CapOK
<1> QED
  BY <1>3, <1>4 DEF CapOK

\* acquireScript adds a slot to sets that are below the limit.
LEMMA CapGrows ==
    ASSUME NEW S \in SUBSET Reqs, NEW L \in SUBSET Reqs, NEW E, NEW r \in Reqs,
           Cardinality(S) + Cardinality(L) < MaxConc
    PROVE  CapOK(S \cup {r}, L, E)
<1>1. Cardinality(S \cup {r}) \in {Cardinality(S), Cardinality(S) + 1}
  BY FS_AddElement, FiniteReqs
<1>2. Cardinality(S) \in Nat /\ Cardinality(L) \in Nat
  BY FiniteReqs
<1> QED
  BY <1>1, <1>2, LimitsAssumption DEF CapOK

\* acquireLiveLeaseScript adds a lease to a call that holds its slot, or whose
\* slot was evicted.
LEMMA CapGrowsLive ==
    ASSUME NEW S \in SUBSET Reqs, NEW L \in SUBSET Reqs, NEW E, NEW r \in Reqs,
           Cardinality(S) + Cardinality(L) < MaxConc + 1,
           r \in S \/ r \in E
    PROVE  CapOK(S, L \cup {r}, E)
<1>1. Cardinality(L \cup {r}) \in {Cardinality(L), Cardinality(L) + 1}
  BY FS_AddElement, FiniteReqs
<1>2. Cardinality(S) \in Nat /\ Cardinality(L) \in Nat
  BY FiniteReqs
<1> QED
  BY <1>1, <1>2, LimitsAssumption DEF CapOK

\* What the cap means for the requests that are counted and not evicted.
LEMMA CapCounts ==
    ASSUME NEW S \in SUBSET Reqs, NEW L \in SUBSET Reqs, NEW E, CapOK(S, L, E),
           NEW T \in SUBSET (S \cup L), T \cap E = {}
    PROVE  Cardinality(T) <= MaxConc
<1>1. /\ Cardinality(S) \in Nat /\ Cardinality(L) \in Nat
      /\ Cardinality(T) \in Nat /\ Cardinality(S \cup L) \in Nat
      /\ Cardinality(S \cap L) \in Nat
      /\ IsFiniteSet(S) /\ IsFiniteSet(L) /\ IsFiniteSet(S \cup L) /\ IsFiniteSet(S \cap L)
  BY FiniteReqs
<1>2. Cardinality(S \cup L) = Cardinality(S) + Cardinality(L) - Cardinality(S \cap L)
  BY <1>1, FS_Union
<1>3. /\ Cardinality(T) <= Cardinality(S \cup L)
      /\ Cardinality(T) = Cardinality(S \cup L) => T = S \cup L
  BY <1>1, FS_Subset
<1>4. CASE Cardinality(S) + Cardinality(L) <= MaxConc
  BY <1>1, <1>2, <1>3, <1>4, LimitsAssumption
<1>5. CASE Cardinality(S) + Cardinality(L) = MaxConc + 1
  <2>1. PICK x \in L : x \in S \/ x \in E
    BY <1>5 DEF CapOK
  <2>2. CASE x \in S
    <3>1. Cardinality(S \cap L) # 0
      BY <1>1, <2>1, <2>2, FS_EmptySet
    <3> QED
      BY <1>1, <1>2, <1>3, <1>5, <3>1, LimitsAssumption
  <2>3. CASE x \in E
    <3>1. T # S \cup L
      BY <2>1, <2>3
    <3> QED
      BY <1>1, <1>2, <1>3, <1>5, <3>1, LimitsAssumption
  <2> QED
    BY <2>1, <2>2, <2>3
<1> QED
  BY <1>1, <1>4, <1>5, LimitsAssumption DEF CapOK

\* The inductive invariant implies the property.
LEMMA CapInvImpliesCap == CapInv => UpstreamWithinCap
<1> SUFFICES ASSUME CapInv PROVE UpstreamWithinCap
  OBVIOUS
<1>1. Serving \ evicted \subseteq Members(slot) \cup Members(live)
  BY DEF CapInv, Counted, Serving, Members, Absent, TypeOK
<1>2. Members(slot) \in SUBSET Reqs /\ Members(live) \in SUBSET Reqs
  BY DEF Members
<1>3. CapOK(Members(slot), Members(live), evicted)
  BY DEF CapInv
<1> QED
  BY <1>1, <1>2, <1>3, CapCounts DEF UpstreamWithinCap

-----------------------------------------------------------------------------
(* The steps.                                                              *)

\* A key that outlives the members of a set still does when Redis drops the
\* key of an empty set.
LEMMA KeyOfOutlives ==
    ASSUME NEW n \in Nat, NEW z \in [Reqs -> Absent..n], NEW k \in 0..n,
           \A r \in Reqs : z[r] <= k
    PROVE  \A r \in Reqs : z[r] <= KeyOf(z, k)
<1>1. CASE Members(z) = {}
  BY <1>1 DEF Members, KeyOf, Absent
<1>2. CASE Members(z) # {}
  BY <1>2 DEF KeyOf
<1> QED
  BY <1>1, <1>2

\* A purge with the key rule of Redis keeps members with time left, and the
\* key outlives the members that stay.
LEMMA PurgedKeeps ==
    ASSUME NEW n \in Nat, NEW z \in [Reqs -> Absent..n], NEW k \in 0..n,
           \A r \in Reqs : z[r] <= k
    PROVE  /\ \A r \in Reqs : Purged(z)[r] <= KeyOf(Purged(z), k)
           /\ \A r \in Reqs : z[r] > 0 => Purged(z)[r] = z[r]
           /\ \A r \in Reqs : Purged(z)[r] # Absent => z[r] # Absent
           /\ Members(Purged(z)) \subseteq Members(z)
<1>1. /\ Purged(z) \in [Reqs -> Absent..n]
      /\ \A r \in Reqs : Purged(z)[r] = IF z[r] = 0 THEN Absent ELSE z[r]
      /\ Members(Purged(z)) \subseteq Members(z)
  BY PurgedFacts
<1>2. \A r \in Reqs : Purged(z)[r] <= k
  BY <1>1 DEF Absent
<1>3. \A r \in Reqs : Purged(z)[r] <= KeyOf(Purged(z), k)
  BY <1>1, <1>2, KeyOfOutlives
<1> QED
  BY <1>1, <1>3 DEF Absent

\* The same of the two sorted sets of the store.
LEMMA PurgedSets ==
    ASSUME TypeOK, KeyOutlivesMembers
    PROVE  /\ \A r \in Reqs : Purged(slot)[r] <= KeyOf(Purged(slot), slotKey)
           /\ \A r \in Reqs : slot[r] > 0 => Purged(slot)[r] = slot[r]
           /\ \A r \in Reqs : Purged(slot)[r] # Absent => slot[r] # Absent
           /\ Members(Purged(slot)) \subseteq Members(slot)
           /\ \A r \in Reqs : Purged(live)[r] <= KeyOf(Purged(live), liveKey)
           /\ \A r \in Reqs : live[r] > 0 => Purged(live)[r] = live[r]
           /\ \A r \in Reqs : Purged(live)[r] # Absent => live[r] # Absent
           /\ Members(Purged(live)) \subseteq Members(live)
           /\ Purged(slot) \in [Reqs -> Absent..SlotTTL]
           /\ Purged(live) \in [Reqs -> Absent..LiveTTL]
<1>1. /\ SlotTTL \in Nat /\ slot \in [Reqs -> Absent..SlotTTL] /\ slotKey \in 0..SlotTTL
      /\ \A r \in Reqs : slot[r] <= slotKey
  BY LimitsAssumption DEF TypeOK, KeyOutlivesMembers
<1>2. /\ LiveTTL \in Nat /\ live \in [Reqs -> Absent..LiveTTL] /\ liveKey \in 0..LiveTTL
      /\ \A r \in Reqs : live[r] <= liveKey
  BY LimitsAssumption DEF TypeOK, KeyOutlivesMembers
<1> QED
  BY <1>1, <1>2, PurgedKeeps, PurgedFacts

\* The members of a sorted set are requests, before and after a step.
LEMMA MembersType ==
    /\ Members(slot) \in SUBSET Reqs
    /\ Members(live) \in SUBSET Reqs
    /\ Members(slot)' \in SUBSET Reqs
    /\ Members(live)' \in SUBSET Reqs
BY DEF Members

\* acquireScript, successful or not, keeps the three facts about Redis.
LEMMA AcquireScriptCap ==
    ASSUME TypeOK, KeyOutlivesMembers, CapOK(Members(slot), Members(live), evicted),
           NEW r \in Reqs, NEW ok \in BOOLEAN, AcquireScript(r, ok), evicted' = evicted
    PROVE  /\ KeyOutlivesMembers'
           /\ CapOK(Members(slot)', Members(live)', evicted')
           /\ \A x \in Reqs : slot[x] > 0 => slot'[x] > 0
           /\ \A x \in Reqs : live[x] > 0 => live'[x] > 0
           /\ \A x \in Reqs : live'[x] # Absent => live[x] # Absent
           /\ ok => slot'[r] > 0
<1> USE LimitsAssumption
<1>1. live' = Purged(live) /\ liveKey' = KeyOf(Purged(live), liveKey)
  BY DEF AcquireScript
<1>2. CASE ok = TRUE
  <2>1. slot' = [Purged(slot) EXCEPT ![r] = SlotTTL] /\ slotKey' = SlotTTL
    BY <1>2 DEF AcquireScript
  <2>2. KeyOutlivesMembers'
    BY <1>1, <2>1, PurgedSets DEF KeyOutlivesMembers
  <2>3. Members(slot)' = Members(Purged(slot)) \cup {r} /\ Members(live)' = Members(Purged(live))
    BY <1>1, <2>1, PurgedSets DEF Members, Absent
  <2>4. Cardinality(Members(Purged(slot))) + Cardinality(Members(Purged(live))) < MaxConc
    BY <1>2 DEF AcquireScript, HasRoom
  <2>5. Members(Purged(slot)) \in SUBSET Reqs /\ Members(Purged(live)) \in SUBSET Reqs
    BY DEF Members
  <2>6. CapOK(Members(slot)', Members(live)', evicted')
    BY <2>3, <2>4, <2>5, CapGrows
  <2> QED
    BY <1>1, <2>1, <2>2, <2>6, PurgedSets
<1>3. CASE ok = FALSE
  <2>1. slot' = Purged(slot) /\ slotKey' = KeyOf(Purged(slot), slotKey)
    BY <1>3 DEF AcquireScript
  <2>2. KeyOutlivesMembers'
    BY <1>1, <2>1, PurgedSets DEF KeyOutlivesMembers
  <2>3. Members(slot)' \subseteq Members(slot) /\ Members(live)' \subseteq Members(live)
    BY <1>1, <2>1, PurgedSets DEF Members
  <2>4. CapOK(Members(slot)', Members(live)', evicted')
    BY <2>3, CapShrinks, MembersType
  <2> QED
    BY <1>1, <1>3, <2>1, <2>2, <2>4, PurgedSets
<1> QED
  BY <1>2, <1>3

\* Every step of a request keeps the cap invariant.
LEMMA RequestStepCap ==
    ASSUME CapInv, TypeOK', NEW r \in Reqs, RequestStep(r)
    PROVE  CapInv'
<1> USE LimitsAssumption, ReqsAssumption
<1> SUFFICES /\ HandlerState' /\ Counted' /\ KeyOutlivesMembers'
             /\ CapOK(Members(slot)', Members(live)', evicted')
  BY DEF CapInv
<1>0. TypeOK /\ KeyOutlivesMembers /\ HandlerState /\ Counted
      /\ CapOK(Members(slot), Members(live), evicted)
  BY DEF CapInv
<1> USE <1>0
<1>1. ASSUME NEW p \in Procs, Acquire(r, p)
      PROVE  HandlerState' /\ Counted' /\ KeyOutlivesMembers'
             /\ CapOK(Members(slot)', Members(live)', evicted')
  <2>0. /\ KeyOutlivesMembers'
        /\ CapOK(Members(slot)', Members(live)', evicted')
        /\ \A x \in Reqs : slot[x] > 0 => slot'[x] > 0
        /\ \A x \in Reqs : live[x] > 0 => live'[x] > 0
        /\ \A x \in Reqs : live'[x] # Absent => live[x] # Absent
        /\ slot'[r] > 0
    BY <1>1, AcquireScriptCap DEF Acquire
  <2>1. HandlerState'
    BY <1>1, <2>0 DEF Acquire, HandlerState, TypeOK
  <2>2. Counted'
    BY <1>1, <2>0 DEF Acquire, Counted, TypeOK
  <2> QED
    BY <2>0, <2>1, <2>2
<1>2. ASSUME NEW p \in Procs, AcquireFull(r, p)
      PROVE  HandlerState' /\ Counted' /\ KeyOutlivesMembers'
             /\ CapOK(Members(slot)', Members(live)', evicted')
  <2>0. /\ KeyOutlivesMembers'
        /\ CapOK(Members(slot)', Members(live)', evicted')
        /\ \A x \in Reqs : slot[x] > 0 => slot'[x] > 0
        /\ \A x \in Reqs : live[x] > 0 => live'[x] > 0
        /\ \A x \in Reqs : live'[x] # Absent => live[x] # Absent
    BY <1>2, AcquireScriptCap DEF AcquireFull
  <2>1. HandlerState'
    BY <1>2, <2>0 DEF AcquireFull, HandlerState, TypeOK
  <2>2. Counted'
    BY <1>2, <2>0 DEF AcquireFull, Counted, TypeOK
  <2> QED
    BY <2>0, <2>1, <2>2
<1>3. ASSUME NEW p \in Procs, AcquireReplyLost(r, p)
      PROVE  HandlerState' /\ Counted' /\ KeyOutlivesMembers'
             /\ CapOK(Members(slot)', Members(live)', evicted')
  <2>0. /\ KeyOutlivesMembers'
        /\ CapOK(Members(slot)', Members(live)', evicted')
        /\ \A x \in Reqs : slot[x] > 0 => slot'[x] > 0
        /\ \A x \in Reqs : live[x] > 0 => live'[x] > 0
        /\ \A x \in Reqs : live'[x] # Absent => live[x] # Absent
    BY <1>3, AcquireScriptCap DEF AcquireReplyLost
  <2>1. HandlerState'
    BY <1>3, <2>0 DEF AcquireReplyLost, HandlerState, TypeOK
  <2>2. Counted'
    BY <1>3, <2>0 DEF AcquireReplyLost, Counted, TypeOK
  <2> QED
    BY <2>0, <2>1, <2>2
<1>4. CASE AcquireAgain(r)
  <2>1. HandlerState'
    BY <1>4, PurgedSets DEF AcquireAgain, HandlerState, TypeOK
  <2>2. Counted'
    BY <1>4, PurgedSets DEF AcquireAgain, Counted, TypeOK
  <2>3. KeyOutlivesMembers'
    BY <1>4, PurgedSets DEF AcquireAgain, KeyOutlivesMembers, TypeOK
  <2>4. CapOK(Members(slot)', Members(live)', evicted')
    <3>1. Members(slot)' \subseteq Members(slot) /\ Members(live)' \subseteq Members(live)
      BY <1>4, PurgedSets DEF AcquireAgain, Members, TypeOK
    <3>2. evicted' = evicted
      BY <1>4 DEF AcquireAgain
    <3> QED
      BY <3>1, <3>2, CapShrinks, MembersType
  <2> QED
    BY <2>1, <2>2, <2>3, <2>4
<1>5. CASE WriteIndex(r)
  <2>1. HandlerState'
    BY <1>5 DEF WriteIndex, AfterWrite, Finish, HandlerState, TypeOK
  <2>2. Counted'
    BY <1>5 DEF WriteIndex, AfterWrite, Finish, Counted, HandlerState, TypeOK
  <2>3. KeyOutlivesMembers'
    BY <1>5 DEF WriteIndex, AfterWrite, Finish, KeyOutlivesMembers, TypeOK
  <2>4. CapOK(Members(slot)', Members(live)', evicted')
    <3>1. Members(slot)' = Members(slot) /\ Members(live)' = Members(live)
      BY <1>5 DEF WriteIndex, AfterWrite, Finish, Members
    <3>2. evicted \cap Members(live) \subseteq evicted'
      BY <1>5 DEF WriteIndex, AfterWrite, Finish, Members, HandlerState, TypeOK
    <3> QED
      BY <3>1, <3>2, CapShrinks, MembersType
  <2> QED
    BY <2>1, <2>2, <2>3, <2>4
<1>6. CASE Release(r)
  <2>1. HandlerState'
    BY <1>6 DEF Release, RemoveSlot, HandlerState, TypeOK
  <2>2. Counted'
    BY <1>6 DEF Release, RemoveSlot, Counted, HandlerState, TypeOK
  <2>3. KeyOutlivesMembers'
    <3>1. /\ RemoveSlot(r) \in [Reqs -> Absent..SlotTTL]
          /\ \A x \in Reqs : RemoveSlot(r)[x] <= slotKey
      BY DEF RemoveSlot, Absent, TypeOK, KeyOutlivesMembers
    <3>2. \A x \in Reqs : RemoveSlot(r)[x] <= KeyOf(RemoveSlot(r), slotKey)
      BY <3>1, KeyOfOutlives DEF TypeOK
    <3> QED
      BY <1>6, <3>2 DEF Release, KeyOutlivesMembers
  <2>4. CapOK(Members(slot)', Members(live)', evicted')
    <3>1. Members(slot)' \subseteq Members(slot) /\ Members(live)' \subseteq Members(live)
      BY <1>6, PurgedSets DEF Release, RemoveSlot, Absent, Members, TypeOK
    <3>2. evicted \cap Members(live)' \subseteq evicted'
      BY <1>6 DEF Release, RemoveSlot, Members, HandlerState, TypeOK
    <3> QED
      BY <3>1, <3>2, CapShrinks, MembersType
  <2> QED
    BY <2>1, <2>2, <2>3, <2>4
<1>7. CASE ReleaseFailed(r)
  <2>1. HandlerState'
    BY <1>7 DEF ReleaseFailed, redisVars, HandlerState, TypeOK
  <2>2. Counted'
    BY <1>7 DEF ReleaseFailed, redisVars, Counted, HandlerState, TypeOK
  <2>3. KeyOutlivesMembers'
    BY <1>7 DEF ReleaseFailed, redisVars, KeyOutlivesMembers, TypeOK
  <2>4. CapOK(Members(slot)', Members(live)', evicted')
    <3>1. Members(slot)' = Members(slot) /\ Members(live)' = Members(live)
      BY <1>7 DEF ReleaseFailed, redisVars, Members
    <3>2. evicted \cap Members(live) \subseteq evicted'
      BY <1>7 DEF ReleaseFailed, redisVars, Members, HandlerState, TypeOK
    <3> QED
      BY <3>1, <3>2, CapShrinks, MembersType
  <2> QED
    BY <2>1, <2>2, <2>3, <2>4
<1>8. CASE ReadLoad(r)
  <2>1. HandlerState'
    BY <1>8, PurgedSets DEF ReadLoad, HandlerState, TypeOK
  <2>2. Counted'
    BY <1>8, PurgedSets DEF ReadLoad, Counted, HandlerState, TypeOK
  <2>3. KeyOutlivesMembers'
    BY <1>8, PurgedSets DEF ReadLoad, KeyOutlivesMembers, TypeOK
  <2>4. CapOK(Members(slot)', Members(live)', evicted')
    <3>1. Members(slot)' \subseteq Members(slot) /\ Members(live)' \subseteq Members(live)
      BY <1>8, PurgedSets DEF ReadLoad, Members, TypeOK
    <3>2. evicted \cap Members(live)' \subseteq evicted'
      BY <1>8 DEF ReadLoad, Members, HandlerState, TypeOK
    <3> QED
      BY <3>1, <3>2, CapShrinks, MembersType
  <2> QED
    BY <2>1, <2>2, <2>3, <2>4
<1>9. CASE AcquireLive(r)
  <2>1. HandlerState'
    BY <1>9, PurgedSets DEF AcquireLive, HandlerState, TypeOK
  <2>2. Counted'
    BY <1>9, PurgedSets DEF AcquireLive, Counted, HandlerState, TypeOK
  <2>3. KeyOutlivesMembers'
    BY <1>9, PurgedSets DEF AcquireLive, KeyOutlivesMembers, TypeOK
  <2>4. CapOK(Members(slot)', Members(live)', evicted')
    <3>1. Members(slot)' = Members(slot) /\ Members(live)' = Members(Purged(live)) \cup {r}
      BY <1>9, PurgedSets DEF AcquireLive, Members, Absent
    <3>2. r \in Members(slot) \/ r \in evicted
      BY <1>9 DEF AcquireLive, HandlerState, Counted, Members, Absent, TypeOK
    <3>3. Cardinality(Members(slot)) + Cardinality(Members(Purged(live))) < MaxConc + 1
      BY <1>9 DEF AcquireLive, LiveHasRoom, SlotMembers, Members
    <3>4. Members(Purged(live)) \in SUBSET Reqs
      BY DEF Members
    <3>5. evicted' = evicted
      BY <1>9 DEF AcquireLive
    <3>6. CapOK(Members(slot), Members(Purged(live)) \cup {r}, evicted)
      BY <3>2, <3>3, <3>4, CapGrowsLive, MembersType
    <3> QED
      BY <3>1, <3>5, <3>6
  <2> QED
    BY <2>1, <2>2, <2>3, <2>4
<1>10. CASE RefreshLive(r)
  <2>1. HandlerState'
    BY <1>10, PurgedSets DEF RefreshLive, localVars, HandlerState, TypeOK
  <2>2. Counted'
    BY <1>10, PurgedSets DEF RefreshLive, localVars, Counted, HandlerState, TypeOK
  <2>3. KeyOutlivesMembers'
    BY <1>10, PurgedSets DEF RefreshLive, localVars, KeyOutlivesMembers, TypeOK
  <2>4. CapOK(Members(slot)', Members(live)', evicted')
    <3>1. Members(slot)' \subseteq Members(slot) /\ Members(live)' \subseteq Members(live)
      BY <1>10, PurgedSets DEF RefreshLive, localVars, Members, TypeOK
    <3>2. evicted \cap Members(live)' \subseteq evicted'
      BY <1>10 DEF RefreshLive, localVars, Members, HandlerState, TypeOK
    <3> QED
      BY <3>1, <3>2, CapShrinks, MembersType
  <2> QED
    BY <2>1, <2>2, <2>3, <2>4
<1>11. CASE ReleaseLive(r)
  <2>1. HandlerState'
    BY <1>11 DEF ReleaseLive, Finish, HandlerState, TypeOK
  <2>2. Counted'
    BY <1>11 DEF ReleaseLive, Finish, Counted, HandlerState, TypeOK
  <2>3. KeyOutlivesMembers'
    <3> DEFINE z == [live EXCEPT ![r] = Absent]
    <3>1. z \in [Reqs -> Absent..LiveTTL] /\ \A x \in Reqs : z[x] <= liveKey
      BY DEF Absent, TypeOK, KeyOutlivesMembers
    <3>2. \A x \in Reqs : z[x] <= KeyOf(z, liveKey)
      BY <3>1, KeyOfOutlives DEF TypeOK
    <3> QED
      BY <1>11, <3>2 DEF ReleaseLive, KeyOutlivesMembers
  <2>4. CapOK(Members(slot)', Members(live)', evicted')
    <3>1. Members(slot)' \subseteq Members(slot) /\ Members(live)' \subseteq Members(live)
      BY <1>11, PurgedSets DEF ReleaseLive, Finish, Absent, Members, TypeOK
    <3>2. evicted \cap Members(live)' \subseteq evicted'
      BY <1>11 DEF ReleaseLive, Finish, Members, HandlerState, TypeOK
    <3> QED
      BY <3>1, <3>2, CapShrinks, MembersType
  <2> QED
    BY <2>1, <2>2, <2>3, <2>4
<1>12. CASE GiveUp(r)
  <2>1. HandlerState'
    BY <1>12 DEF GiveUp, Finish, redisVars, HandlerState, TypeOK
  <2>2. Counted'
    BY <1>12 DEF GiveUp, Finish, redisVars, Counted, HandlerState, TypeOK
  <2>3. KeyOutlivesMembers'
    BY <1>12 DEF GiveUp, Finish, redisVars, KeyOutlivesMembers, TypeOK
  <2>4. CapOK(Members(slot)', Members(live)', evicted')
    <3>1. Members(slot)' = Members(slot) /\ Members(live)' = Members(live)
      BY <1>12 DEF GiveUp, Finish, redisVars, Members
    <3>2. evicted \cap Members(live) \subseteq evicted'
      BY <1>12 DEF GiveUp, Finish, redisVars, Members, HandlerState, TypeOK
    <3> QED
      BY <3>1, <3>2, CapShrinks, MembersType
  <2> QED
    BY <2>1, <2>2, <2>3, <2>4
<1>13. CASE IncrementWait(r)
  <2>1. HandlerState'
    BY <1>13 DEF IncrementWait, HandlerState, TypeOK
  <2>2. Counted'
    BY <1>13 DEF IncrementWait, Counted, HandlerState, TypeOK
  <2>3. KeyOutlivesMembers'
    BY <1>13 DEF IncrementWait, KeyOutlivesMembers, TypeOK
  <2>4. CapOK(Members(slot)', Members(live)', evicted')
    <3>1. Members(slot)' = Members(slot) /\ Members(live)' = Members(live)
      BY <1>13 DEF IncrementWait, Members
    <3>2. evicted \cap Members(live) \subseteq evicted'
      BY <1>13 DEF IncrementWait, Members, HandlerState, TypeOK
    <3> QED
      BY <3>1, <3>2, CapShrinks, MembersType
  <2> QED
    BY <2>1, <2>2, <2>3, <2>4
<1>14. CASE IncrementWaitFailed(r)
  <2>1. HandlerState'
    BY <1>14 DEF IncrementWaitFailed, redisVars, HandlerState, TypeOK
  <2>2. Counted'
    BY <1>14 DEF IncrementWaitFailed, redisVars, Counted, HandlerState, TypeOK
  <2>3. KeyOutlivesMembers'
    BY <1>14 DEF IncrementWaitFailed, redisVars, KeyOutlivesMembers, TypeOK
  <2>4. CapOK(Members(slot)', Members(live)', evicted')
    <3>1. Members(slot)' = Members(slot) /\ Members(live)' = Members(live)
      BY <1>14 DEF IncrementWaitFailed, redisVars, Members
    <3>2. evicted \cap Members(live) \subseteq evicted'
      BY <1>14 DEF IncrementWaitFailed, redisVars, Members, HandlerState, TypeOK
    <3> QED
      BY <3>1, <3>2, CapShrinks, MembersType
  <2> QED
    BY <2>1, <2>2, <2>3, <2>4
<1>15. CASE WaitTry(r)
  <2>0. PICK ok \in BOOLEAN : AcquireScript(r, ok) /\ holding' = (IF ok THEN holding \cup {r} ELSE holding)
                               /\ pc' = (IF ok THEN [pc EXCEPT ![r] = "touch"] ELSE pc)
    BY <1>15 DEF WaitTry
  <2>1. UNCHANGED <<leased, evicted>> /\ pc[r] = "waiting"
    BY <1>15 DEF WaitTry
  <2>2. /\ KeyOutlivesMembers'
        /\ CapOK(Members(slot)', Members(live)', evicted')
        /\ \A x \in Reqs : slot[x] > 0 => slot'[x] > 0
        /\ \A x \in Reqs : live[x] > 0 => live'[x] > 0
        /\ \A x \in Reqs : live'[x] # Absent => live[x] # Absent
        /\ ok => slot'[r] > 0
    BY <2>0, <2>1, AcquireScriptCap
  <2>3. HandlerState'
    BY <2>0, <2>1, <2>2 DEF HandlerState, TypeOK
  <2>4. Counted'
    BY <2>0, <2>1, <2>2 DEF Counted, TypeOK
  <2> QED
    BY <2>2, <2>3, <2>4
<1>16. CASE WaitEnds(r)
  <2>1. HandlerState'
    BY <1>16 DEF WaitEnds, redisVars, HandlerState, TypeOK
  <2>2. Counted'
    BY <1>16 DEF WaitEnds, redisVars, Counted, HandlerState, TypeOK
  <2>3. KeyOutlivesMembers'
    BY <1>16 DEF WaitEnds, redisVars, KeyOutlivesMembers, TypeOK
  <2>4. CapOK(Members(slot)', Members(live)', evicted')
    <3>1. Members(slot)' = Members(slot) /\ Members(live)' = Members(live)
      BY <1>16 DEF WaitEnds, redisVars, Members
    <3>2. evicted \cap Members(live) \subseteq evicted'
      BY <1>16 DEF WaitEnds, redisVars, Members, HandlerState, TypeOK
    <3> QED
      BY <3>1, <3>2, CapShrinks, MembersType
  <2> QED
    BY <2>1, <2>2, <2>3, <2>4
<1>17. CASE DecrementWait(r)
  <2>1. HandlerState'
    BY <1>17 DEF DecrementWait, HandlerState, TypeOK
  <2>2. Counted'
    BY <1>17 DEF DecrementWait, Counted, HandlerState, TypeOK
  <2>3. KeyOutlivesMembers'
    BY <1>17 DEF DecrementWait, KeyOutlivesMembers, TypeOK
  <2>4. CapOK(Members(slot)', Members(live)', evicted')
    <3>1. Members(slot)' = Members(slot) /\ Members(live)' = Members(live)
      BY <1>17 DEF DecrementWait, Members
    <3>2. evicted \cap Members(live) \subseteq evicted'
      BY <1>17 DEF DecrementWait, Members, HandlerState, TypeOK
    <3> QED
      BY <3>1, <3>2, CapShrinks, MembersType
  <2> QED
    BY <2>1, <2>2, <2>3, <2>4
<1>18. CASE Forget(r)
  <2>1. HandlerState'
    BY <1>18 DEF Forget, Finish, redisVars, HandlerState, TypeOK
  <2>2. Counted'
    BY <1>18 DEF Forget, Finish, redisVars, Counted, HandlerState, TypeOK
  <2>3. KeyOutlivesMembers'
    BY <1>18 DEF Forget, Finish, redisVars, KeyOutlivesMembers, TypeOK
  <2>4. CapOK(Members(slot)', Members(live)', evicted')
    <3>1. Members(slot)' = Members(slot) /\ Members(live)' = Members(live)
      BY <1>18 DEF Forget, Finish, redisVars, Members
    <3>2. evicted \cap Members(live) \subseteq evicted'
      BY <1>18 DEF Forget, Finish, redisVars, Members, HandlerState, TypeOK
    <3> QED
      BY <3>1, <3>2, CapShrinks, MembersType
  <2> QED
    BY <2>1, <2>2, <2>3, <2>4
<1> QED
  BY <1>1, <1>2, <1>3, <1>4, <1>5, <1>6, <1>7, <1>8, <1>9, <1>10, <1>11,
     <1>12, <1>13, <1>14, <1>15, <1>16, <1>17, <1>18 DEF RequestStep

\* Every step of a process keeps the cap invariant.
LEMMA ProcessStepCap ==
    ASSUME CapInv, TypeOK', NEW p \in Procs, ProcessStep(p)
    PROVE  CapInv'
<1> USE LimitsAssumption, ReqsAssumption
<1> SUFFICES /\ HandlerState' /\ Counted' /\ KeyOutlivesMembers'
             /\ CapOK(Members(slot)', Members(live)', evicted')
  BY DEF CapInv
<1>0. TypeOK /\ KeyOutlivesMembers /\ HandlerState /\ Counted
      /\ CapOK(Members(slot), Members(live), evicted)
  BY DEF CapInv
<1> USE <1>0
<1>1. CASE ReconcileRead(p)
  <2>1. HandlerState'
    BY <1>1 DEF ReconcileRead, HandlerState
  <2>2. Counted'
    BY <1>1, PurgedSets DEF ReconcileRead, Counted, TypeOK
  <2>3. KeyOutlivesMembers'
    BY <1>1, PurgedSets DEF ReconcileRead, KeyOutlivesMembers
  <2>4. CapOK(Members(slot)', Members(live)', evicted')
    <3>1. Members(slot)' \subseteq Members(slot) /\ Members(live)' = Members(live)
      BY <1>1, PurgedSets DEF ReconcileRead, Members
    <3>2. evicted' = evicted
      BY <1>1 DEF ReconcileRead
    <3> QED
      BY <3>1, <3>2, CapShrinks, MembersType
  <2> QED
    BY <2>1, <2>2, <2>3, <2>4
<1>2. CASE StartupPurge(p)
  <2> DEFINE s == [r \in Reqs |-> IF r \in Foreign(p) THEN Absent ELSE slot[r]]
  <2>0. slot' = s /\ slotKey' = KeyOf(s, SlotTTL)
    BY <1>2 DEF StartupPurge
  <2>1. HandlerState'
    BY <1>2 DEF StartupPurge, HandlerState
  <2>2. Counted'
    BY <1>2, <2>0 DEF StartupPurge, Counted, Serving, TypeOK
  <2>3. KeyOutlivesMembers'
    <3>1. s \in [Reqs -> Absent..SlotTTL] /\ \A x \in Reqs : s[x] <= SlotTTL
      BY DEF TypeOK, Absent
    <3>2. \A x \in Reqs : s[x] <= KeyOf(s, SlotTTL)
      BY <3>1, KeyOfOutlives
    <3> QED
      BY <1>2, <2>0, <3>2 DEF StartupPurge, KeyOutlivesMembers
  <2>4. CapOK(Members(slot)', Members(live)', evicted')
    <3>1. Members(slot)' \subseteq Members(slot) /\ Members(live)' = Members(live)
      BY <1>2, <2>0 DEF StartupPurge, Members
    <3>2. evicted \subseteq evicted'
      BY <1>2 DEF StartupPurge
    <3> QED
      BY <3>1, <3>2, CapShrinks, MembersType
  <2> QED
    BY <2>1, <2>2, <2>3, <2>4
<1>3. CASE Crash(p)
  <2>1. HandlerState'
    BY <1>3 DEF Crash, HandlerState, redisVars, TypeOK
  <2>2. Counted'
    BY <1>3 DEF Crash, Counted, redisVars
  <2>3. KeyOutlivesMembers'
    BY <1>3 DEF Crash, KeyOutlivesMembers, redisVars
  <2>4. CapOK(Members(slot)', Members(live)', evicted')
    <3>1. Members(slot)' = Members(slot) /\ Members(live)' = Members(live) /\ evicted' = evicted
      BY <1>3 DEF Crash, Members, redisVars
    <3> QED
      BY <3>1
  <2> QED
    BY <2>1, <2>2, <2>3, <2>4
<1>4. CASE \/ ReconcileWrite(p) \/ Start(p) \/ StartupScan(p)
           \/ StartupDelWait(p) \/ StartupIndex(p) \/ StartupFails(p)
  <2>1. UNCHANGED <<slot, slotKey, live, liveKey, pc, holding, leased, evicted>>
    BY <1>4 DEF ReconcileWrite, Start, StartupScan, StartupDelWait, StartupIndex,
                StartupFails, redisVars
  <2>2. HandlerState' /\ Counted' /\ KeyOutlivesMembers'
    BY <2>1 DEF HandlerState, Counted, KeyOutlivesMembers
  <2>3. Members(slot)' = Members(slot) /\ Members(live)' = Members(live) /\ evicted' = evicted
    BY <2>1 DEF Members
  <2> QED
    BY <2>2, <2>3
<1> QED
  BY <1>1, <1>2, <1>3, <1>4 DEF ProcessStep

\* Reading the load keeps the cap invariant.
LEMMA ReadCountCap ==
    ASSUME CapInv, TypeOK', ReadCount
    PROVE  CapInv'
<1>0. TypeOK /\ KeyOutlivesMembers /\ HandlerState /\ Counted
      /\ CapOK(Members(slot), Members(live), evicted)
  BY DEF CapInv
<1> USE <1>0
<1>1. HandlerState'
  BY PurgedSets DEF ReadCount, HandlerState, localVars
<1>2. Counted'
  BY PurgedSets DEF ReadCount, Counted, localVars, TypeOK
<1>3. KeyOutlivesMembers'
  BY PurgedSets DEF ReadCount, KeyOutlivesMembers
<1>4. CapOK(Members(slot)', Members(live)', evicted')
  <2>1. Members(slot)' \subseteq Members(slot) /\ Members(live)' \subseteq Members(live)
    BY PurgedSets DEF ReadCount, Members
  <2>2. evicted' = evicted
    BY DEF ReadCount, localVars
  <2> QED
    BY <2>1, <2>2, CapShrinks, MembersType
<1> QED
  BY <1>1, <1>2, <1>3, <1>4 DEF CapInv

\* The passing of time keeps the cap invariant: what a key takes with it has
\* no time left, and a request that runs out of time counts as evicted.
LEMMA TickCap ==
    ASSUME CapInv, TypeOK', Tick
    PROVE  CapInv'
<1> USE LimitsAssumption
<1>0. TypeOK /\ KeyOutlivesMembers /\ HandlerState /\ Counted
      /\ CapOK(Members(slot), Members(live), evicted)
  BY DEF CapInv
<1> USE <1>0
<1>1. /\ \A r \in Reqs : slot'[r] = IF slotKey = 1 THEN Absent ELSE Less(slot[r])
      /\ \A r \in Reqs : live'[r] = IF liveKey = 1 THEN Absent ELSE Less(live[r])
      /\ slotKey' = Less(slotKey) /\ liveKey' = Less(liveKey)
      /\ evicted' = evicted \cup Lapsing
      /\ UNCHANGED <<pc, holding, leased>>
  BY DEF Tick, Aged
<1>2. HandlerState'
  BY <1>1 DEF HandlerState, Less, Absent, TypeOK
<1>3. Counted'
  <2>1. \A r \in holding : slot'[r] > 0 \/ r \in evicted'
    BY <1>1 DEF Counted, KeyOutlivesMembers, Lapsing, Less, Absent, TypeOK
  <2>2. \A r \in leased : live'[r] > 0 \/ r \in evicted'
    BY <1>1 DEF Counted, KeyOutlivesMembers, Lapsing, Less, Absent, TypeOK
  <2> QED
    BY <1>1, <2>1, <2>2 DEF Counted
<1>4. KeyOutlivesMembers'
  BY <1>1 DEF KeyOutlivesMembers, Less, Absent, TypeOK
<1>5. CapOK(Members(slot)', Members(live)', evicted')
  <2>1. Members(slot)' \subseteq Members(slot) /\ Members(live)' \subseteq Members(live)
    BY <1>1 DEF Members, Less, Absent, TypeOK
  <2> QED
    BY <1>1, <2>1, CapShrinks, MembersType
<1> QED
  BY <1>2, <1>3, <1>4, <1>5 DEF CapInv

\* CapInv is an invariant.
LEMMA CapInvariant == Spec => []CapInv
<1>1. Init => CapInv
  <2> SUFFICES ASSUME Init PROVE CapInv
    OBVIOUS
  <2>1. TypeOK
    BY LimitsAssumption, TTLRanges DEF Init, TypeOK, Absent, NoWrite, Clients
  <2>2. Members(slot) = {} /\ Members(live) = {}
    BY DEF Init, Members
  <2>3. CapOK({}, {}, evicted)
    BY FS_EmptySet, LimitsAssumption DEF CapOK
  <2> QED
    BY <2>1, <2>2, <2>3 DEF Init, CapInv, KeyOutlivesMembers, HandlerState, Counted, Absent
<1>2. CapInv /\ TypeOK' /\ [Next]_vars => CapInv'
  <2> SUFFICES ASSUME CapInv, TypeOK', [Next]_vars PROVE CapInv'
    OBVIOUS
  <2>1. CASE UNCHANGED vars
    BY <2>1 DEF vars, redisVars, localVars, CapInv, TypeOK, KeyOutlivesMembers,
                HandlerState, Counted, CapOK, Members
  <2>2. CASE Next
    BY <2>2, RequestStepCap, ProcessStepCap, ReadCountCap, TickCap DEF Next
  <2> QED
    BY <2>1, <2>2
<1>3. Spec => [](TypeOK /\ PendingWrites)
  BY TypeCorrect
<1> QED
  BY <1>1, <1>2, <1>3, PTL DEF Spec

(***************************************************************************)
(* The concurrency limit holds for every number of requests and processes, *)
(* every limit and all TTLs, with crashes, restarts, lost replies and live *)
(* calls: acquireScript and acquireLiveLeaseScript never let more than     *)
(* maxConcurrency requests be served that still have time on their slot or *)
(* lease and were not swept by a startup cleanup.                          *)
(***************************************************************************)
THEOREM CapHolds == Spec => []UpstreamWithinCap
BY CapInvariant, CapInvImpliesCap, PTL

(***************************************************************************)
(* The key TTLs that the scripts set never take an unexpired slot or lease *)
(* with them.                                                              *)
(***************************************************************************)
THEOREM KeysOutliveMembers == Spec => []KeyOutlivesMembers
<1>1. CapInv => KeyOutlivesMembers
  BY DEF CapInv
<1> QED
  BY <1>1, CapInvariant, PTL

-----------------------------------------------------------------------------
(* The wait queue.  A counter can lose a waiter in three ways: a command   *)
(* fails, another process starts and deletes the key, or the key expires   *)
(* under the waiter.  Without them every waiter is counted.  The invariant *)
(* says why a start and an expiry find no waiter: a waiter's process is    *)
(* up, and its deadline is before that of the key.                         *)

\* The conditions under which the counter is exact enough.
OneFaultlessProcess ==
    /\ ~RedisFaults
    /\ \A p, q \in Procs : p = q
    /\ WaitTimeout < WaitTTL

\* A request in the queue, or on its way there, and the process it runs in.
QueueState(r) ==
    /\ r \in queued => pc[r] \in {"waitTouch", "waiting", "touch", "dec"}
    /\ pc[r] \in {"waitTouch", "waiting", "dec"} => r \in queued
    /\ r \in queued \/ pc[r] = "full" => owner[r] \in Procs /\ proc[owner[r]] = "up"
    /\ r \in queued => timer[r] < waitKey

QueueInv ==
    /\ WaitersCounted
    /\ \A r \in Reqs : QueueState(r)

\* A step of r that leaves the queue, its counter and the processes alone.
LEMMA QueueFrame ==
    ASSUME TypeOK, QueueInv, NEW r \in Reqs,
           UNCHANGED <<wait, waitKey, queued, timer, proc>>,
           \A s \in Reqs \ {r} : pc'[s] = pc[s] /\ owner'[s] = owner[s],
           QueueState(r)'
    PROVE  QueueInv'
BY DEF QueueInv, QueueState, WaitersCounted

\* Every step of a request keeps its place in the queue counted.
LEMMA RequestStepQueue ==
    ASSUME OneFaultlessProcess, TypeOK, QueueInv, NEW r \in Reqs, RequestStep(r)
    PROVE  QueueInv'
<1> USE LimitsAssumption, ReqsAssumption
<1>1. QueueState(r)
  BY DEF QueueInv
<1>2. ASSUME NEW p \in Procs, Acquire(r, p) \/ AcquireFull(r, p) PROVE QueueInv'
  BY <1>1, <1>2, QueueFrame DEF Acquire, AcquireFull, AcquireScript, QueueState, TypeOK
<1>3. ASSUME NEW p \in Procs PROVE ~ AcquireReplyLost(r, p)
  BY DEF AcquireReplyLost, OneFaultlessProcess
<1>4. ~ AcquireAgain(r) /\ ~ ReleaseFailed(r) /\ ~ IncrementWaitFailed(r)
  BY DEF AcquireAgain, ReleaseFailed, IncrementWaitFailed, OneFaultlessProcess
<1>5. CASE WriteIndex(r)
  BY <1>1, <1>5, QueueFrame DEF WriteIndex, AfterWrite, Finish, QueueState, TypeOK
<1>6. CASE Release(r) \/ ReadLoad(r) \/ AcquireLive(r)
  BY <1>1, <1>6, QueueFrame DEF Release, ReadLoad, AcquireLive, QueueState, TypeOK
<1>7. CASE RefreshLive(r)
  BY <1>1, <1>7, QueueFrame DEF RefreshLive, localVars, QueueState, TypeOK
<1>8. CASE ReleaseLive(r) \/ GiveUp(r) \/ Forget(r)
  BY <1>1, <1>8, QueueFrame
     DEF ReleaseLive, GiveUp, Forget, Finish, redisVars, QueueState, TypeOK
<1>9. CASE WaitTry(r)
  <2>1. UNCHANGED <<wait, waitKey>>
    BY <1>9 DEF WaitTry, AcquireScript
  <2> QED
    BY <1>1, <1>9, <2>1, QueueFrame DEF WaitTry, QueueState, TypeOK
<1>10. CASE WaitEnds(r)
  BY <1>1, <1>10, QueueFrame DEF WaitEnds, redisVars, QueueState, TypeOK
<1>11. CASE IncrementWait(r)
  <2>1. r \notin queued
    BY <1>1, <1>11 DEF IncrementWait, QueueState
  <2>2. Cardinality(queued \cup {r}) = Cardinality(queued) + 1
    BY <2>1, FS_AddElement, FS_Subset DEF TypeOK
  <2>3. Cardinality(queued) \in Nat
    BY FS_CardinalityType, FS_Subset DEF TypeOK
  <2>4. WaitersCounted'
    BY <1>11, <2>2, <2>3 DEF IncrementWait, WaitersCounted, QueueInv, TypeOK
  <2>5. ASSUME NEW s \in Reqs PROVE QueueState(s)'
    <3>1. QueueState(s)
      BY DEF QueueInv
    <3>2. timer'[s] < waitKey'
      BY <1>11 DEF IncrementWait, OneFaultlessProcess, TypeOK
    <3> QED
      BY <1>1, <1>11, <3>1, <3>2 DEF IncrementWait, QueueState, TypeOK
  <2> QED
    BY <2>4, <2>5 DEF QueueInv
<1>12. CASE DecrementWait(r)
  <2>1. r \in queued
    BY <1>1, <1>12 DEF DecrementWait, QueueState
  <2>2. Cardinality(queued \ {r}) = Cardinality(queued) - 1
    BY <2>1, FS_RemoveElement, FS_Subset DEF TypeOK
  <2>3. Cardinality(queued) \in Nat /\ Cardinality(queued \ {r}) \in Nat
    BY FS_CardinalityType, FS_Subset DEF TypeOK
  <2>4. WaitersCounted'
    BY <1>12, <2>2, <2>3 DEF DecrementWait, WaitersCounted, QueueInv, TypeOK
  <2>5. ASSUME NEW s \in Reqs PROVE QueueState(s)'
    BY <1>12 DEF DecrementWait, QueueInv, QueueState, TypeOK
  <2> QED
    BY <2>4, <2>5 DEF QueueInv
<1> QED
  BY <1>2, <1>3, <1>4, <1>5, <1>6, <1>7, <1>8, <1>9, <1>10, <1>11, <1>12
     DEF RequestStep

\* A process that is not up has no waiters, and a crash takes its own along.
LEMMA ProcessStepQueue ==
    ASSUME OneFaultlessProcess, TypeOK, QueueInv, NEW p \in Procs, ProcessStep(p)
    PROVE  QueueInv'
<1> USE ReqsAssumption
<1>1. CASE ReconcileRead(p) \/ ReconcileWrite(p)
  BY <1>1 DEF ReconcileRead, ReconcileWrite, QueueInv, QueueState, WaitersCounted
<1>2. CASE Start(p) \/ StartupScan(p)
  BY <1>2 DEF Start, StartupScan, redisVars, QueueInv, QueueState, WaitersCounted, TypeOK
<1>3. CASE StartupPurge(p) \/ StartupIndex(p)
  BY <1>3 DEF StartupPurge, StartupIndex, QueueInv, QueueState, WaitersCounted, TypeOK
<1>4. CASE StartupDelWait(p)
  <2>1. queued = {}
    BY <1>4 DEF StartupDelWait, OneFaultlessProcess, QueueInv, QueueState, TypeOK
  <2>2. WaitersCounted'
    BY <1>4, <2>1, FS_EmptySet DEF StartupDelWait, WaitersCounted
  <2> QED
    BY <1>4, <2>1, <2>2 DEF StartupDelWait, QueueInv, QueueState, TypeOK
<1>5. ~ StartupFails(p)
  BY DEF StartupFails, OneFaultlessProcess
<1>6. CASE Crash(p)
  <2>1. queued' = {}
    <3>1. \A s \in queued : s \in Reqs /\ owner[s] = p
      BY DEF OneFaultlessProcess, QueueInv, QueueState, TypeOK
    <3>2. queued' = queued \ {s \in Reqs : owner[s] = p}
      BY <1>6 DEF Crash
    <3> QED
      BY <3>1, <3>2
  <2>2. WaitersCounted'
    <3>1. wait' = wait /\ wait \in Nat
      BY <1>6 DEF Crash, redisVars, TypeOK
    <3> QED
      BY <2>1, <3>1, FS_EmptySet DEF WaitersCounted
  <2>3. ASSUME NEW s \in Reqs PROVE QueueState(s)'
    <3>1. QueueState(s)
      BY DEF QueueInv
    <3>2. pc'[s] = IF owner[s] = p /\ pc[s] # "idle" THEN "gone" ELSE pc[s]
      BY <1>6 DEF Crash
    <3>3. pc[s] \in {"waitTouch", "waiting", "dec", "full"} => owner[s] = p
      BY <3>1 DEF OneFaultlessProcess, QueueState
    <3> QED
      BY <2>1, <3>2, <3>3 DEF QueueState
  <2> QED
    BY <2>2, <2>3 DEF QueueInv
<1> QED
  BY <1>1, <1>2, <1>3, <1>4, <1>5, <1>6 DEF ProcessStep

\* A tick that would expire the key finds the queue empty: a waiter whose time
\* is up has left it.
LEMMA TickQueue ==
    ASSUME TypeOK, QueueInv, Tick
    PROVE  QueueInv'
<1> USE LimitsAssumption
<1>1. waitKey = 1 => queued = {}
  BY DEF Tick, QueueInv, QueueState, TypeOK
<1>2. WaitersCounted'
  BY <1>1, FS_EmptySet DEF Tick, QueueInv, WaitersCounted
<1>3. ASSUME NEW s \in Reqs PROVE QueueState(s)'
  <2>1. QueueState(s)
    BY DEF QueueInv
  <2>2. s \in queued => timer'[s] < waitKey'
    BY <2>1 DEF Tick, Less, QueueState, TypeOK
  <2> QED
    BY <2>1, <2>2 DEF Tick, QueueState
<1> QED
  BY <1>2, <1>3 DEF QueueInv

(***************************************************************************)
(* Every waiting request is counted, so that the limit of the wait queue   *)
(* bounds the waiters: for every number of requests, limit and TTLs, when  *)
(* no Redis command fails, one process serves the principal (it may crash  *)
(* and restart) and no request waits as long as the counter's key lives.   *)
(***************************************************************************)
THEOREM WaitersAreCounted ==
    ASSUME OneFaultlessProcess
    PROVE  Spec => []WaitersCounted
<1>1. Init => QueueInv
  BY FS_EmptySet DEF Init, QueueInv, QueueState, WaitersCounted
<1>2. TypeOK /\ QueueInv /\ [Next]_vars => QueueInv'
  <2> SUFFICES ASSUME TypeOK, QueueInv, [Next]_vars PROVE QueueInv'
    OBVIOUS
  <2>1. CASE UNCHANGED vars
    BY <2>1 DEF vars, redisVars, localVars, QueueInv, QueueState, WaitersCounted
  <2>2. CASE ReadCount
    BY <2>2 DEF ReadCount, localVars, QueueInv, QueueState, WaitersCounted
  <2>3. CASE Next
    BY <2>2, <2>3, RequestStepQueue, ProcessStepQueue, TickQueue DEF Next
  <2> QED
    BY <2>1, <2>3
<1>3. QueueInv => WaitersCounted
  BY DEF QueueInv
<1> QED
  BY <1>1, <1>2, <1>3, TypeCorrect, PTL DEF Spec

=============================================================================
