-------------------------- MODULE ConcurrencySlots --------------------------
(***************************************************************************)
(* The Redis concurrency store of one principal (an account or a user) and *)
(* the gateway processes that use it:                                      *)
(*   - a sorted set of request slots and a sorted set of live-call leases, *)
(*     counted together against maxConcurrency;                            *)
(*   - a wait-queue counter with a limit and a key TTL;                    *)
(*   - the active index, which the startup and periodic cleanups start     *)
(*     from, and which is written after the slot operation, in a command   *)
(*     of its own;                                                         *)
(*   - processes that crash with slots in Redis, and restart with a new    *)
(*     request-ID prefix and a startup cleanup.                            *)
(*                                                                         *)
(* A Lua script is one atomic action.  A Go method that issues several     *)
(* Redis commands is one action per command that reads or writes shared    *)
(* state, except that TIME is read together with the command that follows  *)
(* it.  Time is relative: a score, a key TTL and a timer are kept as the   *)
(* time left, so that the clock has no bound.  A member with no time left  *)
(* is expired but stays in its set until something purges it.              *)
(***************************************************************************)
EXTENDS Integers, FiniteSets

CONSTANTS
    Reqs,        \* request IDs (an ID is reused once nothing refers to it)
    LiveReqs,    \* the requests that create a live call
    Procs,       \* gateway processes
    NoProc,      \* the owner of a slot whose process is gone
    MaxConc,     \* maxConcurrency of the principal, positive
    MaxWait,     \* limit of the wait queue
    SlotTTL,     \* slotTTLSeconds
    LiveTTL,     \* liveLeaseTTLSeconds
    WaitTTL,     \* waitQueueTTLSeconds
    WaitTimeout, \* how long a request waits for a slot
    RedisFaults  \* whether Redis replies may be lost or commands fail

ASSUME ReqsAssumption ==
    /\ IsFiniteSet(Reqs)
    /\ LiveReqs \subseteq Reqs
    /\ NoProc \notin Procs
    /\ Reqs \cap Procs = {}

ASSUME LimitsAssumption ==
    /\ MaxConc \in Nat \ {0}
    /\ MaxWait \in Nat
    /\ SlotTTL \in Nat \ {0}
    /\ LiveTTL \in Nat \ {0}
    /\ WaitTTL \in Nat \ {0}
    /\ WaitTimeout \in Nat \ {0}
    /\ RedisFaults \in BOOLEAN

VARIABLES
    \* Redis
    slot,      \* slot[r]: time left of r in the regular sorted set
    slotKey,   \* time left of the regular key
    live,      \* live[r]: time left of r in the live sorted set
    liveKey,   \* time left of the live key
    wait,      \* the wait counter
    waitKey,   \* time left of the wait key
    index,     \* time left of the principal's score in the active index
    \* the processes and their requests
    proc,      \* proc[p]: where process p is in its life
    pc,        \* pc[r]: where request r is in its handler
    owner,     \* owner[r]: the process whose prefix r carries
    pend,      \* pend[x]: index score that x has computed and not yet written
    holding,   \* requests whose release function has not been called
    leased,    \* requests that hold a live lease, as far as they know
    queued,    \* requests that have entered the wait queue and not left it
    timer,     \* timer[r]: time a waiting request still waits
    evicted    \* ghost: served requests that lost their slot or lease early

redisVars == <<slot, slotKey, live, liveKey, wait, waitKey, index>>
localVars == <<proc, pc, owner, pend, holding, leased, queued, timer, evicted>>
vars == <<redisVars, localVars>>

-----------------------------------------------------------------------------
Absent == -1       \* not a member of the sorted set
NoWrite == -2      \* no index write is pending

Larger(a, b) == IF a >= b THEN a ELSE b
IndexTTL == Larger(SlotTTL, WaitTTL)

Clients == Reqs \cup Procs

SlotMembers == {r \in Reqs : slot[r] # Absent}
LiveMembers == {r \in Reqs : live[r] # Absent}

\* Requests that the gateway is serving upstream.
Serving == holding \cup leased

Waiters == {r \in queued : pc[r] \in {"waitTouch", "waiting"}}

TypeOK ==
    /\ slot \in [Reqs -> Absent..SlotTTL]
    /\ slotKey \in 0..SlotTTL
    /\ live \in [Reqs -> Absent..LiveTTL]
    /\ liveKey \in 0..LiveTTL
    /\ wait \in Nat
    /\ waitKey \in 0..WaitTTL
    /\ index \in Absent..IndexTTL
    /\ proc \in [Procs -> {"down", "scan", "purge", "delWait", "unindex", "up"}]
    /\ pc \in [Reqs -> {"idle", "full", "touch", "running", "waitTouch",
                        "waiting", "dec", "read", "write", "live", "gone"}]
    /\ owner \in [Reqs -> Procs \cup {NoProc}]
    /\ pend \in [Clients -> NoWrite..IndexTTL]
    /\ holding \in SUBSET Reqs
    /\ leased \in SUBSET Reqs
    /\ queued \in SUBSET Reqs
    /\ timer \in [Reqs -> 0..WaitTimeout]
    /\ evicted \in SUBSET Reqs

Init ==
    /\ slot = [r \in Reqs |-> Absent]
    /\ slotKey = 0
    /\ live = [r \in Reqs |-> Absent]
    /\ liveKey = 0
    /\ wait = 0
    /\ waitKey = 0
    /\ index = Absent
    /\ proc = [p \in Procs |-> "down"]
    /\ pc = [r \in Reqs |-> "idle"]
    /\ owner = [r \in Reqs |-> NoProc]
    /\ pend = [x \in Clients |-> NoWrite]
    /\ holding = {}
    /\ leased = {}
    /\ queued = {}
    /\ timer = [r \in Reqs |-> 0]
    /\ evicted = {}

-----------------------------------------------------------------------------
(* What the scripts have in common.                                        *)

\* ZREMRANGEBYSCORE key -inf now-ttl: drops the members with no time left.
Purged(zset) == [r \in Reqs |-> IF zset[r] = 0 THEN Absent ELSE zset[r]]
Members(zset) == {r \in Reqs : zset[r] # Absent}

\* Redis deletes a sorted set, and its TTL with it, when its last member goes.
KeyOf(zset, ttl) == IF Members(zset) = {} THEN 0 ELSE ttl

\* Mutant: the live set is not counted.
HasRoomIgnoringLive == Cardinality(Members(Purged(slot))) < MaxConc

\* The cap test of acquireScript: the two sets, purged, count together.
HasRoom == Cardinality(Members(Purged(slot)))
             + Cardinality(Members(Purged(live))) < MaxConc

\* The cap test of acquireLiveLeaseScript.  The caller still holds the regular
\* slot that the lease replaces, hence the allowance of one; only the live set
\* is purged first.
LiveHasRoom == Cardinality(SlotMembers)
                 + Cardinality(Members(Purged(live))) < MaxConc + 1

\* activeIndexTTL and its callers: no load means that the member goes.
IndexScore(slots, waiting) ==
    IF slots = {} /\ waiting = 0 THEN Absent
    ELSE Larger(IF slots = {} THEN 0 ELSE SlotTTL,
                IF waiting = 0 THEN 0 ELSE WaitTTL)

-----------------------------------------------------------------------------
(* AcquireAccountSlot / AcquireUserSlot: the script, then the index.       *)

\* acquireScript for r: purge both sets; add r if there is room.
AcquireScript(r, ok) ==
    LET s == IF ok THEN [Purged(slot) EXCEPT ![r] = SlotTTL] ELSE Purged(slot)
    IN  /\ ok = HasRoom
        /\ slot' = s
        /\ slotKey' = IF ok THEN SlotTTL ELSE KeyOf(s, slotKey)
        /\ live' = Purged(live)
        /\ liveKey' = KeyOf(Purged(live), liveKey)
        /\ UNCHANGED <<wait, waitKey, index>>

\* A handler of process p asks for a slot and gets it; the index is next.
Acquire(r, p) ==
    /\ pc[r] = "idle"
    /\ proc[p] = "up"
    /\ AcquireScript(r, TRUE)
    /\ pc' = [pc EXCEPT ![r] = "touch"]
    /\ owner' = [owner EXCEPT ![r] = p]
    /\ pend' = [pend EXCEPT ![r] = SlotTTL]
    /\ holding' = holding \cup {r}
    /\ UNCHANGED <<proc, leased, queued, timer, evicted>>

\* The principal is at its limit.
AcquireFull(r, p) ==
    /\ pc[r] = "idle"
    /\ proc[p] = "up"
    /\ AcquireScript(r, FALSE)
    /\ pc' = [pc EXCEPT ![r] = "full"]
    /\ owner' = [owner EXCEPT ![r] = p]
    /\ UNCHANGED <<proc, pend, holding, leased, queued, timer, evicted>>

\* Mutant: the member is refreshed and the key is not.
AcquireAgainNoExpire(r) ==
    /\ RedisFaults
    /\ pc[r] = "touch"
    /\ Purged(slot)[r] # Absent
    /\ slot' = [Purged(slot) EXCEPT ![r] = SlotTTL]
    /\ live' = Purged(live)
    /\ liveKey' = KeyOf(Purged(live), liveKey)
    /\ pend' = [pend EXCEPT ![r] = SlotTTL]
    /\ UNCHANGED <<slotKey, wait, waitKey, index>>
    /\ UNCHANGED <<proc, pc, owner, holding, leased, queued, timer, evicted>>

\* The client resends the script with the same request ID (a reply timed out
\* and go-redis retried): the slot exists and is only refreshed.
AcquireAgain(r) ==
    /\ RedisFaults
    /\ pc[r] = "touch"
    /\ Purged(slot)[r] # Absent
    /\ slot' = [Purged(slot) EXCEPT ![r] = SlotTTL]
    /\ slotKey' = SlotTTL
    /\ live' = Purged(live)
    /\ liveKey' = KeyOf(Purged(live), liveKey)
    /\ pend' = [pend EXCEPT ![r] = SlotTTL]
    /\ UNCHANGED <<wait, waitKey, index>>
    /\ UNCHANGED <<proc, pc, owner, holding, leased, queued, timer, evicted>>

\* The script ran and its reply was lost: the caller gets an error and no
\* release function, and the slot stays until it expires.
AcquireReplyLost(r, p) ==
    /\ RedisFaults
    /\ pc[r] = "idle"
    /\ proc[p] = "up"
    /\ AcquireScript(r, TRUE)
    /\ pc' = [pc EXCEPT ![r] = "gone"]
    /\ owner' = [owner EXCEPT ![r] = p]
    /\ UNCHANGED <<proc, pend, holding, leased, queued, timer, evicted>>

\* The handler has returned: nothing carries its request ID any more.
Finish(r) ==
    /\ owner' = [owner EXCEPT ![r] = NoProc]
    /\ evicted' = evicted \ {r}

\* Where the handler goes once its index write is done: a request that still
\* has its queue place to give back does that first (deferred decrement).
AfterWrite(r) ==
    IF r \in queued /\ r \notin holding THEN "waiting"
    ELSE IF r \in queued THEN "dec"
    ELSE IF r \in holding THEN "running"
    ELSE IF r \in leased THEN "live"
    ELSE "idle"

\* touchActiveIndexAt after an acquire or an increment, and the ZADD or ZREM
\* that ends refreshActiveIndex.  Best effort: a failed write is logged only.
WriteIndex(r) ==
    /\ pc[r] \in {"touch", "waitTouch", "write"}
    /\ \/ index' = pend[r]
       \/ RedisFaults /\ index' = index
    /\ pend' = [pend EXCEPT ![r] = NoWrite]
    /\ pc' = [pc EXCEPT ![r] = AfterWrite(r)]
    /\ IF AfterWrite(r) = "idle" THEN Finish(r) ELSE UNCHANGED <<owner, evicted>>
    /\ UNCHANGED <<slot, slotKey, live, liveKey, wait, waitKey>>
    /\ UNCHANGED <<proc, holding, leased, queued, timer>>

-----------------------------------------------------------------------------
(* ReleaseAccountSlot / ReleaseUserSlot, through a sync.Once release       *)
(* function: ZREM, then refreshActiveIndex = read the load, write the      *)
(* index.                                                                  *)

RemoveSlot(r) == [slot EXCEPT ![r] = Absent]

Release(r) ==
    /\ pc[r] = "running"
    /\ slot' = RemoveSlot(r)
    /\ slotKey' = KeyOf(RemoveSlot(r), slotKey)
    /\ holding' = holding \ {r}
    /\ pc' = [pc EXCEPT ![r] = "read"]
    /\ UNCHANGED <<live, liveKey, wait, waitKey, index>>
    /\ UNCHANGED <<proc, owner, pend, leased, queued, timer, evicted>>

\* The ZREM fails: the error is logged and the slot stays until it expires.
ReleaseFailed(r) ==
    /\ RedisFaults
    /\ pc[r] = "running"
    /\ r \notin leased
    /\ holding' = holding \ {r}
    /\ pc' = [pc EXCEPT ![r] = "gone"]
    /\ UNCHANGED redisVars
    /\ UNCHANGED <<proc, owner, pend, leased, queued, timer, evicted>>

\* readActiveLoadForKey: purge the regular set, then read the load.
ReadLoad(r) ==
    /\ pc[r] = "read"
    /\ slot' = Purged(slot)
    /\ slotKey' = KeyOf(Purged(slot), slotKey)
    /\ pend' = [pend EXCEPT ![r] = IndexScore(Members(Purged(slot)), wait)]
    /\ pc' = [pc EXCEPT ![r] = "write"]
    /\ UNCHANGED <<live, liveKey, wait, waitKey, index>>
    /\ UNCHANGED <<proc, owner, holding, leased, queued, timer, evicted>>

-----------------------------------------------------------------------------
(* Live calls: the lease is taken while the regular slot is still held,    *)
(* the slot is released once the upstream call exists, and the lease is    *)
(* refreshed until the call ends.                                          *)

\* acquireLiveLeaseScript.  The same script also tests and writes the sets of
\* the call's other principals.
AcquireLive(r) ==
    /\ pc[r] = "running"
    /\ r \in LiveReqs \ leased
    /\ LiveHasRoom
    /\ live' = [Purged(live) EXCEPT ![r] = LiveTTL]
    /\ liveKey' = LiveTTL
    /\ leased' = leased \cup {r}
    /\ UNCHANGED <<slot, slotKey, wait, waitKey, index>>
    /\ UNCHANGED <<proc, pc, owner, pend, holding, queued, timer, evicted>>

\* refreshLiveLeaseScript: never recreates a member.  A lost lease, or an
\* error, ends the session, whose lease is then released.
RefreshLive(r) ==
    /\ pc[r] = "live"
    /\ Purged(live)[r] # Absent
    /\ live' = [Purged(live) EXCEPT ![r] = LiveTTL]
    /\ liveKey' = LiveTTL
    /\ UNCHANGED <<slot, slotKey, wait, waitKey, index>>
    /\ UNCHANGED localVars

\* finalizeLiveCall, at the end of the session or when the lease is lost.
ReleaseLive(r) ==
    /\ pc[r] = "live"
    /\ live' = [live EXCEPT ![r] = Absent]
    /\ liveKey' = KeyOf([live EXCEPT ![r] = Absent], liveKey)
    /\ leased' = leased \ {r}
    /\ pc' = [pc EXCEPT ![r] = "idle"]
    /\ Finish(r)
    /\ UNCHANGED <<slot, slotKey, wait, waitKey, index>>
    /\ UNCHANGED <<proc, pend, holding, queued, timer>>

-----------------------------------------------------------------------------
(* The wait queue: IncrementWaitCount, the polling loop of                 *)
(* waitForSlotWithPingTimeout, and the deferred DecrementWaitCount.        *)

\* Mutant: the decrement is deferred before the queue has let the request in.
GiveUpDecrements(r) ==
    /\ pc[r] = "full"
    /\ pc' = [pc EXCEPT ![r] = "idle"]
    /\ wait' = IF wait > 0 THEN wait - 1 ELSE wait
    /\ Finish(r)
    /\ UNCHANGED <<slot, slotKey, live, liveKey, waitKey, index>>
    /\ UNCHANGED <<proc, pend, holding, leased, queued, timer>>

\* A request that found the principal full and does not wait, or finds the
\* queue full too.
GiveUp(r) ==
    /\ pc[r] = "full"
    /\ pc' = [pc EXCEPT ![r] = "idle"]
    /\ Finish(r)
    /\ UNCHANGED redisVars
    /\ UNCHANGED <<proc, pend, holding, leased, queued, timer>>

IncrementWait(r) ==
    /\ pc[r] = "full"
    /\ wait < MaxWait
    /\ wait' = wait + 1
    /\ waitKey' = WaitTTL
    /\ queued' = queued \cup {r}
    /\ timer' = [timer EXCEPT ![r] = WaitTimeout]
    /\ pend' = [pend EXCEPT ![r] = WaitTTL]
    /\ pc' = [pc EXCEPT ![r] = "waitTouch"]
    /\ UNCHANGED <<slot, slotKey, live, liveKey, index>>
    /\ UNCHANGED <<proc, owner, holding, leased, evicted>>

\* The increment fails: fail open.  The request waits, uncounted, and will
\* decrement the counter all the same.
IncrementWaitFailed(r) ==
    /\ RedisFaults
    /\ pc[r] = "full"
    /\ queued' = queued \cup {r}
    /\ timer' = [timer EXCEPT ![r] = WaitTimeout]
    /\ pc' = [pc EXCEPT ![r] = "waiting"]
    /\ UNCHANGED redisVars
    /\ UNCHANGED <<proc, owner, pend, holding, leased, evicted>>

\* One poll of a waiting request.
WaitTry(r) ==
    /\ pc[r] = "waiting"
    /\ \/ /\ AcquireScript(r, TRUE)
          /\ holding' = holding \cup {r}
          /\ pend' = [pend EXCEPT ![r] = SlotTTL]
          /\ pc' = [pc EXCEPT ![r] = "touch"]
       \/ /\ AcquireScript(r, FALSE)
          /\ UNCHANGED <<holding, pend, pc>>
    /\ UNCHANGED <<proc, owner, leased, queued, timer, evicted>>

\* Mutant: a waiting request has no deadline.
WaitEndsNever(r) == pc[r] = "none" /\ UNCHANGED vars

\* The wait times out, or the client goes away while it waits.
WaitEnds(r) ==
    /\ pc[r] = "waiting"
    /\ pc' = [pc EXCEPT ![r] = "dec"]
    /\ UNCHANGED redisVars
    /\ UNCHANGED <<proc, owner, pend, holding, leased, queued, timer, evicted>>

\* Mutant: DECR without the test for a positive counter.
DecrementWaitUnguarded(r) ==
    /\ pc[r] = "dec"
    /\ wait' = wait - 1
    /\ queued' = queued \ {r}
    /\ timer' = [timer EXCEPT ![r] = 0]
    /\ pc' = [pc EXCEPT ![r] = "read"]
    /\ UNCHANGED <<slot, slotKey, live, liveKey, waitKey, index>>
    /\ UNCHANGED <<proc, owner, pend, holding, leased, evicted>>

\* decrementWaitScript never goes below zero; the key keeps its TTL.
DecrementWait(r) ==
    /\ pc[r] = "dec"
    /\ wait' = IF wait > 0 THEN wait - 1 ELSE wait
    /\ queued' = queued \ {r}
    /\ timer' = [timer EXCEPT ![r] = 0]
    /\ pc' = [pc EXCEPT ![r] = "read"]
    /\ UNCHANGED <<slot, slotKey, live, liveKey, waitKey, index>>
    /\ UNCHANGED <<proc, owner, pend, holding, leased, evicted>>

-----------------------------------------------------------------------------
(* Reads of the load, for scheduling and for the admin pages, purge the    *)
(* two sets on their way: getCountScript and the batch pipelines.          *)

ReadCount ==
    /\ slot' = Purged(slot)
    /\ slotKey' = KeyOf(Purged(slot), slotKey)
    /\ live' = Purged(live)
    /\ liveKey' = KeyOf(Purged(live), liveKey)
    /\ UNCHANGED <<wait, waitKey, index>>
    /\ UNCHANGED localVars

-----------------------------------------------------------------------------
(* Background cleanup: CleanupExpiredAccountSlotKeys.                      *)

\* Reads an index member whose score has passed, and its load.
ReconcileRead(p) ==
    /\ proc[p] = "up"
    /\ pend[p] = NoWrite
    /\ index = 0
    /\ slot' = Purged(slot)
    /\ slotKey' = KeyOf(Purged(slot), slotKey)
    /\ pend' = [pend EXCEPT ![p] = IndexScore(Members(Purged(slot)), wait)]
    /\ UNCHANGED <<live, liveKey, wait, waitKey, index>>
    /\ UNCHANGED <<proc, pc, owner, holding, leased, queued, timer, evicted>>

\* Refreshes the score, or removes the member, from what was read.
ReconcileWrite(p) ==
    /\ proc[p] = "up"
    /\ pend[p] # NoWrite
    /\ \/ index' = pend[p]
       \/ RedisFaults /\ index' = index
    /\ pend' = [pend EXCEPT ![p] = NoWrite]
    /\ UNCHANGED <<slot, slotKey, live, liveKey, wait, waitKey>>
    /\ UNCHANGED <<proc, pc, owner, holding, leased, queued, timer, evicted>>

-----------------------------------------------------------------------------
(* Process life: start with CleanupStaleProcessSlots, serve, crash.        *)

Start(p) ==
    /\ proc[p] = "down"
    /\ proc' = [proc EXCEPT ![p] = "scan"]
    /\ UNCHANGED redisVars
    /\ UNCHANGED <<pc, owner, pend, holding, leased, queued, timer, evicted>>

\* allIndexMembers: a principal that is not in the index is not cleaned.
StartupScan(p) ==
    /\ proc[p] = "scan"
    /\ proc' = [proc EXCEPT ![p] = IF index = Absent THEN "up" ELSE "purge"]
    /\ UNCHANGED redisVars
    /\ UNCHANGED <<pc, owner, pend, holding, leased, queued, timer, evicted>>

\* The members that startupCleanupSlotScript removes: every request ID that
\* does not carry the prefix of the starting process.
Foreign(p) == {r \in SlotMembers : owner[r] # p}

StartupPurge(p) ==
    LET s == [r \in Reqs |-> IF r \in Foreign(p) THEN Absent ELSE slot[r]]
    IN  /\ proc[p] = "purge"
        /\ slot' = s
        /\ slotKey' = KeyOf(s, SlotTTL)
        /\ pend' = [pend EXCEPT ![p] = IF Members(s) = {} THEN Absent ELSE SlotTTL]
        /\ evicted' = evicted \cup (Foreign(p) \cap Serving)
        /\ proc' = [proc EXCEPT ![p] = "delWait"]
        /\ UNCHANGED <<live, liveKey, wait, waitKey, index>>
        /\ UNCHANGED <<pc, owner, holding, leased, queued, timer>>

StartupDelWait(p) ==
    /\ proc[p] = "delWait"
    /\ wait' = 0
    /\ waitKey' = 0
    /\ proc' = [proc EXCEPT ![p] = "unindex"]
    /\ UNCHANGED <<slot, slotKey, live, liveKey, index>>
    /\ UNCHANGED <<pc, owner, pend, holding, leased, queued, timer, evicted>>

StartupIndex(p) ==
    /\ proc[p] = "unindex"
    /\ index' = pend[p]
    /\ pend' = [pend EXCEPT ![p] = NoWrite]
    /\ proc' = [proc EXCEPT ![p] = "up"]
    /\ UNCHANGED <<slot, slotKey, live, liveKey, wait, waitKey>>
    /\ UNCHANGED <<pc, owner, holding, leased, queued, timer, evicted>>

\* A command of the cleanup fails, or the last write, which is only logged: the
\* error is logged and the process serves all the same.
StartupFails(p) ==
    /\ RedisFaults
    /\ proc[p] \in {"scan", "purge", "delWait", "unindex"}
    /\ proc' = [proc EXCEPT ![p] = "up"]
    /\ pend' = [pend EXCEPT ![p] = NoWrite]
    /\ UNCHANGED redisVars
    /\ UNCHANGED <<pc, owner, holding, leased, queued, timer, evicted>>

\* A process dies: its requests end where they are and Redis keeps what it has.
\* The prefix dies with the process.
Crash(p) ==
    LET mine == {r \in Reqs : owner[r] = p}
    IN  /\ proc[p] # "down"
        /\ proc' = [proc EXCEPT ![p] = "down"]
        /\ pc' = [r \in Reqs |-> IF r \in mine /\ pc[r] # "idle" THEN "gone" ELSE pc[r]]
        /\ owner' = [r \in Reqs |-> IF r \in mine THEN NoProc ELSE owner[r]]
        /\ pend' = [x \in Clients |-> IF x = p \/ x \in mine THEN NoWrite ELSE pend[x]]
        /\ holding' = holding \ mine
        /\ leased' = leased \ mine
        /\ queued' = queued \ mine
        /\ timer' = [r \in Reqs |-> IF r \in mine THEN 0 ELSE timer[r]]
        /\ UNCHANGED <<redisVars, evicted>>

\* A request that nothing in Redis refers to any more: its ID is free.
Forget(r) ==
    /\ pc[r] = "gone"
    /\ slot[r] = Absent
    /\ live[r] = Absent
    /\ pc' = [pc EXCEPT ![r] = "idle"]
    /\ Finish(r)
    /\ UNCHANGED redisVars
    /\ UNCHANGED <<proc, pend, holding, leased, queued, timer>>

-----------------------------------------------------------------------------
(* Time.  A key whose TTL runs out goes with all its members.              *)

Less(n) == IF n > 0 THEN n - 1 ELSE n

\* Mutant: the scripts set no TTL on the key.
AgedNoExpire(zset, key) == [r \in Reqs |-> Less(zset[r])]

Aged(zset, key) ==
    [r \in Reqs |-> IF key = 1 THEN Absent ELSE Less(zset[r])]

\* Requests that outlive their slot or their lease in this tick.
Lapsing == {r \in holding : slot[r] \in {0, 1}} \cup {r \in leased : live[r] \in {0, 1}}

\* A tick is seconds, a command milliseconds: a queued request whose time is up
\* leaves the queue within the tick.
Tick ==
    /\ \A r \in queued : timer[r] > 0
    /\ slot' = Aged(slot, slotKey)
    /\ slotKey' = Less(slotKey)
    /\ live' = Aged(live, liveKey)
    /\ liveKey' = Less(liveKey)
    /\ waitKey' = Less(waitKey)
    /\ wait' = IF waitKey = 1 THEN 0 ELSE wait
    /\ index' = Less(index)
    /\ pend' = [x \in Clients |-> Less(pend[x])]
    /\ timer' = [r \in Reqs |-> Less(timer[r])]
    /\ evicted' = evicted \cup Lapsing
    /\ UNCHANGED <<proc, pc, owner, holding, leased, queued>>

-----------------------------------------------------------------------------
RequestStep(r) ==
    \/ \E p \in Procs : Acquire(r, p) \/ AcquireFull(r, p) \/ AcquireReplyLost(r, p)
    \/ AcquireAgain(r) \/ WriteIndex(r)
    \/ Release(r) \/ ReleaseFailed(r) \/ ReadLoad(r)
    \/ AcquireLive(r) \/ RefreshLive(r) \/ ReleaseLive(r)
    \/ GiveUp(r) \/ IncrementWait(r) \/ IncrementWaitFailed(r)
    \/ WaitTry(r) \/ WaitEnds(r) \/ DecrementWait(r)
    \/ Forget(r)

ProcessStep(p) ==
    \/ ReconcileRead(p) \/ ReconcileWrite(p)
    \/ Start(p) \/ StartupScan(p) \/ StartupPurge(p)
    \/ StartupDelWait(p) \/ StartupIndex(p) \/ StartupFails(p)
    \/ Crash(p)

Next ==
    \/ \E r \in Reqs : RequestStep(r)
    \/ \E p \in Procs : ProcessStep(p)
    \/ ReadCount
    \/ Tick

Spec == Init /\ [][Next]_vars

(***************************************************************************)
(* Fairness: time passes; a handler that is not killed finishes its steps  *)
(* (a request deadline bounds every call and the release functions are     *)
(* deferred); the cleanup worker runs on a ticker.  Nothing is assumed of  *)
(* crashes, restarts, new requests and live refreshes.                     *)
(***************************************************************************)
Fairness ==
    /\ WF_vars(Tick)
    /\ \A r \in Reqs : /\ WF_vars(WriteIndex(r))
                       /\ WF_vars(ReadLoad(r))
                       /\ WF_vars(WaitEnds(r) /\ timer[r] = 0)
                       /\ WF_vars(DecrementWait(r))
                       /\ WF_vars(Release(r))

FairSpec == Spec /\ Fairness

-----------------------------------------------------------------------------
(* Properties.                                                             *)

(***************************************************************************)
(* What the store is for: the number of requests of the principal that the *)
(* gateway serves upstream, across all processes, crashes, lost replies    *)
(* and live calls that swap a slot for a lease, never exceeds              *)
(* maxConcurrency, except for requests that outlived the TTL of their slot *)
(* or lease, or whose slot a starting process removed.                     *)
(***************************************************************************)
UpstreamWithinCap == Cardinality(Serving \ evicted) <= MaxConc

(***************************************************************************)
(* The TTL of a key never runs out before that of a member: every script   *)
(* that adds or refreshes a member also refreshes the key, so a slot is    *)
(* never lost with its key before slotTTLSeconds have passed.              *)
(***************************************************************************)
KeyOutlivesMembers ==
    \A r \in Reqs : slot[r] <= slotKey /\ live[r] <= liveKey

(***************************************************************************)
(* A waiting request is counted, so that at most MaxWait wait: holds when  *)
(* no command fails, one process serves, and no request waits as long as   *)
(* the counter's key lives (see WaitersCounted in the README).             *)
(***************************************************************************)
WaitersCounted == Cardinality(queued) <= wait

(***************************************************************************)
(* The startup cleanup removes the slots of dead processes only.           *)
(***************************************************************************)
StartupSparesServed ==
    \A p \in Procs : proc[p] = "purge" => Foreign(p) \cap Serving = {}

(***************************************************************************)
(* A slot or lease whose request is gone (its process crashed, its reply   *)
(* was lost or its release failed) leaves Redis, whether or not the index  *)
(* knows the principal.                                                    *)
(***************************************************************************)
LeakedSlotsExpire ==
    \A r \in Reqs : pc[r] = "gone" ~> (slot[r] = Absent /\ live[r] = Absent)

(***************************************************************************)
(* A request that waits for a slot is served or leaves the queue.          *)
(***************************************************************************)
WaitingEnds == \A r \in Reqs : pc[r] = "waiting" ~> r \notin queued

=============================================================================
