---------------------------- MODULE Idempotency ----------------------------
(***************************************************************************)
(* IdempotencyCoordinator.Execute: requests that carry one idempotency key *)
(* race to claim the key's record, one of them runs the operation, and its *)
(* result is recorded for the others to replay.                            *)
(*                                                                         *)
(* Execute reads the clock once, at its start, and then runs up to four    *)
(* statements and the operation itself; other requests, the cleanup and    *)
(* crashes come between any two of them.  Each statement may fail, and a   *)
(* claim may take effect and its answer be lost.                           *)
(***************************************************************************)
EXTENDS IdempotencyRecords, FiniteSets

CONSTANTS
    Callers,            \* concurrent requests with the key
    Fingerprints,       \* payloads sent with the key
    TTL,                \* opts.TTL, or cfg.DefaultTTL
    ProcessingTimeout,  \* cfg.ProcessingTimeout
    Backoff,            \* cfg.FailedRetryBackoff
    ClaimMax,           \* longest time from reading the clock to the claim
    ExecMax,            \* longest time from reading the clock to the record
    MaxTime             \* bound of the clock

\* A request claims well within the processing timeout (30 s by default), and
\* ends well within the record's TTL (an hour for system operations, which a
\* 15-minute context limits; a day for the others).
ASSUME TimeAssumption ==
    /\ TTL \in Nat /\ ProcessingTimeout \in Nat /\ Backoff \in Nat
    /\ ClaimMax \in Nat /\ ExecMax \in Nat /\ MaxTime \in Nat
    /\ ClaimMax < ProcessingTimeout
    /\ ClaimMax <= ExecMax
    /\ ExecMax < TTL

VARIABLES
    now,      \* the clock
    row,      \* the record of the key
    lastId,   \* the last value of the id sequence
    call,     \* call[c]: Execute's progress and local variables in caller c
    effects,  \* ghost: the successful executions, with payload and expiry
    stale     \* ghost: an unexpired record was reclaimed as expired

vars == <<now, row, lastId, call, effects, stale>>

Claiming == {"create", "get", "reclaimExpired", "getLatest", "reclaimFailed"}
Executing == {"run", "ok", "failed"}

Rows == [id : Nat \ {0}, fp : Fingerprints,
         status : {"processing", "succeeded", "failed_retryable"},
         lockedUntil : Nat \cup {Null}, expiresAt : Nat]

\* A caller's locals: where it is, what it read from the clock, the fingerprint
\* of its payload, the existing record as it last read it, and record.ID.
Calls == [pc : {"idle", "replay"} \cup Claiming \cup Executing,
          at : Nat, fp : Fingerprints \cup {Null},
          existing : Rows \cup {NoRow}, id : Nat]

NoCall == [pc |-> "idle", at |-> 0, fp |-> Null, existing |-> NoRow, id |-> 0]

TypeOK ==
    /\ now \in Nat
    /\ row \in Rows \cup {NoRow}
    /\ lastId \in Nat
    /\ row.id <= lastId
    /\ call \in [Callers -> Calls]
    /\ effects \in SUBSET [fp : Fingerprints, until : Nat]
    /\ stale \in BOOLEAN

Init ==
    /\ now = 0
    /\ row = NoRow
    /\ lastId = 0
    /\ call = [c \in Callers |-> NoCall]
    /\ effects = {}
    /\ stale = FALSE

-----------------------------------------------------------------------------
LockedUntil(c) == call[c].at + ProcessingTimeout
ExpiresAt(c) == call[c].at + TTL

Goto(c, where) == call' = [call EXCEPT ![c].pc = where]
Return(c) == call' = [call EXCEPT ![c] = NoCall]

\* Execute has normalised the key, hashed the payload and read the clock.
\* A request without a key, or refused before this point, touches no record.
Begin(c) ==
    /\ call[c].pc = "idle"
    /\ \E f \in Fingerprints :
         call' = [call EXCEPT ![c] = [NoCall EXCEPT !.pc = "create", !.at = now, !.fp = f]]
    /\ UNCHANGED <<now, row, lastId, effects, stale>>

\* The INSERT of CreateProcessing takes effect; its answer, record.ID, arrives
\* or is lost.  Without it Execute reports the store unavailable and leaves a
\* processing record that nobody executes.
CreateProcessing(c) ==
    /\ call[c].pc = "create"
    /\ ~Exists(row)
    /\ row' = Processing(lastId + 1, call[c].fp, LockedUntil(c), ExpiresAt(c))
    /\ lastId' = lastId + 1
    /\ \/ call' = [call EXCEPT ![c] = [@ EXCEPT !.pc = "run", !.id = lastId + 1]]
       \/ Return(c)
    /\ UNCHANGED <<now, effects, stale>>

\* ON CONFLICT DO NOTHING: someone else has the key.
CreateConflict(c) ==
    /\ call[c].pc = "create"
    /\ Exists(row)
    /\ Goto(c, "get")
    /\ UNCHANGED <<now, row, lastId, effects, stale>>

\* What Execute does with the existing record, by its status: replay a success,
\* reclaim a failure whose backoff is over, or answer with a conflict.
ByStatus(c) ==
    CASE row.status = "succeeded" ->
           Goto(c, "replay")
      [] row.status = "failed_retryable" /\ row.lockedUntil <= call[c].at ->
           call' = [call EXCEPT ![c] = [@ EXCEPT !.pc = "reclaimFailed", !.existing = row]]
      [] OTHER ->
           Return(c)

\* Mutant: the payload of the existing record is not compared.
GetNoFingerprint(c) ==
    /\ call[c].pc = "get"
    /\ IF ~Exists(row) THEN Return(c)
       ELSE IF row.expiresAt <= call[c].at
         THEN call' = [call EXCEPT ![c] = [@ EXCEPT !.pc = "reclaimExpired", !.existing = row]]
       ELSE ByStatus(c)
    /\ UNCHANGED <<now, row, lastId, effects, stale>>

\* GetByScopeAndKeyHash after a conflict: a missing record and another payload
\* are errors, an expired record is reclaimed, any other is decided by status.
Get(c) ==
    /\ call[c].pc = "get"
    /\ IF ~Exists(row) \/ row.fp # call[c].fp THEN Return(c)
       ELSE IF row.expiresAt <= call[c].at
         THEN call' = [call EXCEPT ![c] = [@ EXCEPT !.pc = "reclaimExpired", !.existing = row]]
       ELSE ByStatus(c)
    /\ UNCHANGED <<now, row, lastId, effects, stale>>

\* TryReclaim by c takes effect on the row; its answer arrives or is lost.
Take(c) ==
    /\ row' = Reclaimed(row, LockedUntil(c), ExpiresAt(c))
    /\ \/ call' = [call EXCEPT ![c] = [@ EXCEPT !.pc = "run", !.id = call[c].existing.id]]
       \/ Return(c)

\* TryReclaim of an expired record, from the status it was read with.
ReclaimExpired(c) ==
    /\ call[c].pc = "reclaimExpired"
    /\ Reclaimable(row, call[c].existing.id, call[c].existing.status, call[c].at)
    /\ Take(c)
    /\ stale' = (stale \/ row.expiresAt > now)
    /\ UNCHANGED <<now, lastId, effects>>

ReclaimExpiredLost(c) ==
    /\ call[c].pc = "reclaimExpired"
    /\ ~Reclaimable(row, call[c].existing.id, call[c].existing.status, call[c].at)
    /\ Goto(c, "getLatest")
    /\ UNCHANGED <<now, row, lastId, effects, stale>>

\* The second read, after a lost reclaim.  The expiry is not looked at again.
GetLatest(c) ==
    /\ call[c].pc = "getLatest"
    /\ IF ~Exists(row) \/ row.fp # call[c].fp THEN Return(c) ELSE ByStatus(c)
    /\ UNCHANGED <<now, row, lastId, effects, stale>>

\* TryReclaim of a failed record whose backoff is over; losing it is a conflict.
ReclaimFailed(c) ==
    /\ call[c].pc = "reclaimFailed"
    /\ IF Reclaimable(row, call[c].existing.id, "failed_retryable", call[c].at)
         THEN Take(c)
         ELSE Return(c) /\ UNCHANGED row
    /\ UNCHANGED <<now, lastId, effects, stale>>

\* A statement fails and has no effect: Execute answers "store unavailable".
StoreFails(c) ==
    /\ call[c].pc \in Claiming
    /\ Return(c)
    /\ UNCHANGED <<now, row, lastId, effects, stale>>

\* The operation returns: its effect is there, or it failed.
Execute(c) ==
    /\ call[c].pc = "run"
    /\ \/ /\ Goto(c, "ok")
          /\ effects' = effects \cup {[fp |-> call[c].fp, until |-> ExpiresAt(c)]}
       \/ Goto(c, "failed") /\ UNCHANGED effects
    /\ UNCHANGED <<now, row, lastId, stale>>

\* MarkSucceeded; with a failed write, or a response that cannot be encoded, the
\* record stays in processing.
MarkSucceeded(c) ==
    /\ call[c].pc = "ok"
    /\ row' \in {row, Succeeded(row, call[c].id, ExpiresAt(c))}
    /\ Return(c)
    /\ UNCHANGED <<now, lastId, effects, stale>>

\* MarkFailedRetryable; a failed write is logged and forgotten.
MarkFailedRetryable(c) ==
    /\ call[c].pc = "failed"
    /\ row' \in {row, FailedRetryable(row, call[c].id, now + Backoff, ExpiresAt(c))}
    /\ Return(c)
    /\ UNCHANGED <<now, lastId, effects, stale>>

\* The stored response is decoded and returned.  A response that was cut to
\* MaxStoredResponseLen does not decode, and is answered with an error.
Replay(c) ==
    /\ call[c].pc = "replay"
    /\ Return(c)
    /\ UNCHANGED <<now, row, lastId, effects, stale>>

\* The process dies, or its request is cancelled, in the middle of Execute.
Crash(c) ==
    /\ call[c].pc # "idle"
    /\ Return(c)
    /\ UNCHANGED <<now, row, lastId, effects, stale>>

\* Mutant: the cleanup deletes by lock instead of by expiry.
DeleteUnlocked ==
    /\ Exists(row) /\ row.lockedUntil <= now
    /\ row' = NoRow
    /\ UNCHANGED <<now, lastId, call, effects, stale>>

\* IdempotencyCleanupService.cleanupOnce.
DeleteExpired ==
    /\ Expired(row, now)
    /\ row' = NoRow
    /\ UNCHANGED <<now, lastId, call, effects, stale>>

\* Time passes, within the longest claim and the longest request.
Tick ==
    /\ now < MaxTime
    /\ \A c \in Callers :
         /\ call[c].pc \in Claiming => now < call[c].at + ClaimMax
         /\ call[c].pc \in Executing => now < call[c].at + ExecMax
    /\ now' = now + 1
    /\ UNCHANGED <<row, lastId, call, effects, stale>>

Step(c) ==
    \/ Begin(c) \/ CreateProcessing(c) \/ CreateConflict(c) \/ Get(c)
    \/ ReclaimExpired(c) \/ ReclaimExpiredLost(c) \/ GetLatest(c) \/ ReclaimFailed(c)
    \/ StoreFails(c) \/ Execute(c) \/ MarkSucceeded(c) \/ MarkFailedRetryable(c)
    \/ Replay(c) \/ Crash(c)

Next == (\E c \in Callers : Step(c)) \/ DeleteExpired \/ Tick

Spec == Init /\ [][Next]_vars

-----------------------------------------------------------------------------
\* No two requests with the key execute the operation at the same time, however
\* their statements interleave with crashes, failures and the cleanup
\* (the claims of Execute: CreateProcessing and TryReclaim).
SingleExecution ==
    \A c, d \in Callers : call[c].pc \in Executing /\ call[d].pc \in Executing => c = d

\* A replayed answer belongs to a successful execution of the same payload that
\* had not expired when the request arrived (the succeeded case of Execute).
ReplayOfOwnPayload ==
    \A c \in Callers :
        call[c].pc = "replay" =>
            \E e \in effects : e.fp = call[c].fp /\ e.until > call[c].at

Claims == \E c \in Callers : call[c].pc # "run" /\ call'[c].pc = "run"
Done == \E e \in effects : e.until > now

\* Nobody starts the operation while a successful execution with the key is
\* within its TTL: the operation is done once per key (Execute as a whole).
OncePerTTL == [][Claims => ~Done]_vars

\* One race apart, the operation is done once per key and TTL: only after a
\* record was reclaimed as expired that another request had meanwhile renewed
\* (TryReclaim tests status and lock and not the expiry).
OnceUnlessStaleReclaim == [][Claims /\ Done => stale']_vars
=============================================================================
