------------------------ MODULE SystemOperationLock ------------------------
(***************************************************************************)
(* SystemOperationLockService: updates, rollbacks and restarts of the      *)
(* service exclude each other by one idempotency record that serves as a   *)
(* lease.  The operation that holds it renews it every renewInterval from  *)
(* a goroutine of its own, and gives it up when it ends.                   *)
(***************************************************************************)
EXTENDS IdempotencyRecords

CONSTANTS
    Ops,            \* operations; each is its own operation ID
    Lease,          \* s.lease
    RenewInterval,  \* s.renewInterval, a third of the lease
    TTL,            \* s.ttl
    ClaimMax,       \* longest time from reading the clock to the claim
    OpMax,          \* longest time from reading the clock to the release
    MaxMisses,      \* renewals in a row that may fail
    MaxTime         \* bound of the clock

\* The lease outlasts the claim, the failing renewals and one that succeeds;
\* an operation, of which the claim is a part, ends well within the TTL (an
\* hour; its context allows it 15 minutes).
ASSUME LeaseAssumption ==
    /\ Null \notin Ops
    /\ Lease \in Nat /\ RenewInterval \in Nat \ {0} /\ TTL \in Nat
    /\ ClaimMax \in Nat /\ OpMax \in Nat /\ MaxMisses \in Nat /\ MaxTime \in Nat
    /\ ClaimMax + (MaxMisses + 1) * RenewInterval < Lease
    /\ Lease <= TTL
    /\ ClaimMax <= OpMax
    /\ OpMax + ClaimMax < TTL

VARIABLES
    now,      \* the clock
    row,      \* the lock's record
    lastId,   \* the last value of the id sequence
    op,       \* op[o]: progress and local variables of Acquire, then the lock
    loop,     \* loop[o]: the renewal goroutine of o's lock
    creator   \* ghost: the running operation that inserted the row

vars == <<now, row, lastId, op, loop, creator>>

Claiming == {"create", "get", "reclaim"}

Rows == [id : Nat \ {0}, fp : Ops,
         status : {"processing", "succeeded", "failed_retryable"},
         lockedUntil : Nat \cup {Null}, expiresAt : Nat]

\* Where an operation is, what it read from the clock, the id and the status of
\* the record it read, and, once it holds the lock, recordID in id.
OpStates == [pc : {"idle", "held"} \cup Claiming, at : Nat, id : Nat,
             from : {"none", "processing", "succeeded", "failed_retryable"}]

NoOp == [pc |-> "idle", at |-> 0, id |-> 0, from |-> "none"]

\* The renewal goroutine: whether it runs, its lock's recordID, the time to its
\* next tick, and the ticks in a row that failed.
Loops == [on : BOOLEAN, id : Nat, due : 0..RenewInterval, missed : 0..MaxMisses]

NoLoop == [on |-> FALSE, id |-> 0, due |-> 0, missed |-> 0]

TypeOK ==
    /\ now \in Nat
    /\ row \in Rows \cup {NoRow}
    /\ lastId \in Nat
    /\ op \in [Ops -> OpStates]
    /\ loop \in [Ops -> Loops]
    /\ creator \in Ops \cup {Null}

Init ==
    /\ now = 0
    /\ row = NoRow
    /\ lastId = 0
    /\ op = [o \in Ops |-> NoOp]
    /\ loop = [o \in Ops |-> NoLoop]
    /\ creator = Null

-----------------------------------------------------------------------------
LockedUntil(o) == op[o].at + Lease
ExpiresAt(o) == op[o].at + TTL

Holds(o) == op[o].pc = "held"

\* Acquire returns an error: busy, or the store is unavailable.
Refused(o) == op' = [op EXCEPT ![o] = NoOp]

\* Acquire returns the lock and starts renewLoop.
Granted(o, id) ==
    /\ op' = [op EXCEPT ![o] = [@ EXCEPT !.pc = "held", !.id = id]]
    /\ loop' = [loop EXCEPT ![o] = [on |-> TRUE, id |-> id,
                                      due |-> RenewInterval, missed |-> 0]]

Begin(o) ==
    /\ op[o].pc = "idle"
    /\ ~loop[o].on
    /\ op' = [op EXCEPT ![o] = [NoOp EXCEPT !.pc = "create", !.at = now]]
    /\ UNCHANGED <<now, row, lastId, loop, creator>>

\* CreateProcessing inserts the row with this operation's ID as fingerprint.
CreateProcessing(o) ==
    /\ op[o].pc = "create"
    /\ ~Exists(row)
    /\ row' = Processing(lastId + 1, o, LockedUntil(o), ExpiresAt(o))
    /\ lastId' = lastId + 1
    /\ creator' = o
    /\ Granted(o, lastId + 1)
    /\ UNCHANGED now

CreateConflict(o) ==
    /\ op[o].pc = "create"
    /\ Exists(row)
    /\ op' = [op EXCEPT ![o].pc = "get"]
    /\ UNCHANGED <<now, row, lastId, loop, creator>>

\* Acquire's busy test: an unexpired lease of an operation in progress.
Busy(o) == row.status = "processing" /\ row.lockedUntil > op[o].at

Get(o) ==
    /\ op[o].pc = "get"
    /\ IF ~Exists(row) \/ Busy(o)
         THEN Refused(o)
         ELSE op' = [op EXCEPT ![o] = [@ EXCEPT !.pc = "reclaim", !.id = row.id,
                                                !.from = row.status]]
    /\ UNCHANGED <<now, row, lastId, loop, creator>>

\* Mutant: Acquire goes on although it lost the reclaim.
ReclaimUnchecked(o) ==
    /\ op[o].pc = "reclaim"
    /\ row' = IF Reclaimable(row, op[o].id, op[o].from, op[o].at)
                THEN Reclaimed(row, LockedUntil(o), ExpiresAt(o)) ELSE row
    /\ Granted(o, op[o].id)
    /\ UNCHANGED <<now, lastId, creator>>

\* TryReclaim, from the status that was read.  The operation ID in the record
\* stays that of the creator.
Reclaim(o) ==
    /\ op[o].pc = "reclaim"
    /\ IF Reclaimable(row, op[o].id, op[o].from, op[o].at)
         THEN /\ row' = Reclaimed(row, LockedUntil(o), ExpiresAt(o))
              /\ Granted(o, op[o].id)
         ELSE Refused(o) /\ UNCHANGED <<row, loop>>
    /\ UNCHANGED <<now, lastId, creator>>

StoreFails(o) ==
    /\ op[o].pc \in Claiming
    /\ Refused(o)
    /\ UNCHANGED <<now, row, lastId, loop, creator>>

\* Mutant: a renewal that fails ends the goroutine.
RenewFailsStops(o) ==
    /\ loop[o].on /\ loop[o].due = 0
    /\ loop[o].missed < MaxMisses
    /\ loop' = [loop EXCEPT ![o] = NoLoop]
    /\ UNCHANGED <<now, row, lastId, op, creator>>

\* renewLoop after a tick: it waits for the next one, unless Release or a crash
\* stopped it while the statement was under way.
Rearmed(o, missed) ==
    loop' = [loop EXCEPT ![o] = IF Holds(o)
                                  THEN [@ EXCEPT !.due = RenewInterval, !.missed = missed]
                                  ELSE NoLoop]

\* A tick of renewLoop whose statement fails: the goroutine goes on.
RenewFails(o) ==
    /\ loop[o].on /\ loop[o].due = 0
    /\ loop[o].missed < MaxMisses
    /\ Rearmed(o, loop[o].missed + 1)
    /\ UNCHANGED <<now, row, lastId, op, creator>>

\* A tick of renewLoop: ExtendProcessingLock, for the row in processing whose
\* fingerprint is this operation's ID.  When it matches no row the goroutine
\* concludes that it lost the lock, and ends.
Renew(o) ==
    /\ loop[o].on /\ loop[o].due = 0
    /\ IF Extendable(row, loop[o].id, o)
         THEN /\ row' = Extended(row, now + Lease, now + TTL)
              /\ Rearmed(o, 0)
         ELSE loop' = [loop EXCEPT ![o] = NoLoop] /\ UNCHANGED row
    /\ UNCHANGED <<now, lastId, op, creator>>

\* The operation is over: its renewals stop, but for one under way.
Stopped(o) ==
    /\ op' = [op EXCEPT ![o] = NoOp]
    /\ \/ loop' = [loop EXCEPT ![o] = NoLoop]
       \/ loop[o].on /\ loop[o].due = 0 /\ UNCHANGED loop
    /\ creator' = IF creator = o THEN Null ELSE creator

\* Release closes stopCh and marks the row, by id: succeeded, or failed and at
\* once claimable.  A failed write is ignored, and the lease runs out.
Release(o) ==
    /\ Holds(o)
    /\ row' \in {row, Succeeded(row, op[o].id, now + TTL),
                 FailedRetryable(row, op[o].id, now, now + TTL)}
    /\ Stopped(o)
    /\ UNCHANGED <<now, lastId>>

\* The process dies.
Crash(o) ==
    /\ op[o].pc # "idle"
    /\ Stopped(o)
    /\ UNCHANGED <<now, row, lastId>>

\* IdempotencyCleanupService.cleanupOnce.
DeleteExpired ==
    /\ Expired(row, now)
    /\ row' = NoRow
    /\ UNCHANGED <<now, lastId, op, loop, creator>>

\* Time passes: a renewal that is due runs first.
Tick ==
    /\ now < MaxTime
    /\ \A o \in Ops :
         /\ op[o].pc \in Claiming => now < op[o].at + ClaimMax
         /\ Holds(o) => now < op[o].at + OpMax
         /\ loop[o].on => loop[o].due > 0
    /\ now' = now + 1
    /\ loop' = [o \in Ops |-> IF loop[o].on THEN [loop[o] EXCEPT !.due = @ - 1] ELSE loop[o]]
    /\ UNCHANGED <<row, lastId, op, creator>>

Step(o) ==
    \/ Begin(o) \/ CreateProcessing(o) \/ CreateConflict(o) \/ Get(o) \/ Reclaim(o)
    \/ StoreFails(o) \/ Renew(o) \/ RenewFails(o) \/ Release(o) \/ Crash(o)

Next == (\E o \in Ops : Step(o)) \/ DeleteExpired \/ Tick

Spec == Init /\ [][Next]_vars

-----------------------------------------------------------------------------
\* One system operation at a time: ErrSystemOperationBusy, "another system
\* operation is in progress".
OneOperation == \A o, q \in Ops : Holds(o) /\ Holds(q) => o = q

\* The operation that created the record is alone for as long as it runs: its
\* renewals find its ID in the record, and nobody can claim the record
\* meanwhile (Acquire, renewLoop and Release together).
CreatorAlone ==
    \A o, q \in Ops : Holds(o) /\ Holds(q) /\ creator = o => o = q

\* While the operation that created the record runs, the record is its own, in
\* processing, and under a lease that has not run out, whatever renewals fail
\* (up to MaxMisses in a row) and whichever other operations try to claim it.
CreatorLeased ==
    \A o \in Ops :
        Holds(o) /\ creator = o => /\ row.id = op[o].id
                                   /\ row.status = "processing"
                                   /\ now < row.lockedUntil
=============================================================================
