------------------------- MODULE IdempotencyRecords -------------------------
(***************************************************************************)
(* The row of table idempotency_records for one (scope, key) pair, and the *)
(* statements idempotencyRepository runs on it.  Each statement is atomic; *)
(* the modules that extend this one decide how statements interleave.  A   *)
(* row keeps the fields that the statements test: the response and the     *)
(* error reason are written and never tested.                              *)
(***************************************************************************)
EXTENDS Integers

\* locked_until IS NULL.  Every instant is a natural number, so that the test
\* "locked_until IS NULL OR locked_until <= now" reads lockedUntil <= now.
Null == -1

\* No row for the pair.  Row ids are positive.
NoRow == [id |-> 0, fp |-> Null, status |-> "none",
          lockedUntil |-> Null, expiresAt |-> Null]

Exists(row) == row.id # 0

\* CreateProcessing: the row that INSERT ... ON CONFLICT DO NOTHING adds.
Processing(id, fp, lockedUntil, expiresAt) ==
    [id |-> id, fp |-> fp, status |-> "processing",
     lockedUntil |-> lockedUntil, expiresAt |-> expiresAt]

\* Mutant: a reclaim does not wait for the lock of the previous claim to end.
ReclaimableLocked(row, id, fromStatus, at) ==
    /\ row.id = id
    /\ row.status = fromStatus

\* TryReclaim's WHERE clause.  It does not look at expires_at.
Reclaimable(row, id, fromStatus, at) ==
    /\ row.id = id
    /\ row.status = fromStatus
    /\ row.lockedUntil <= at

\* TryReclaim's SET clause.  request_fingerprint stays that of the creator.
Reclaimed(row, lockedUntil, expiresAt) ==
    [row EXCEPT !.status = "processing",
                !.lockedUntil = lockedUntil,
                !.expiresAt = expiresAt]

\* ExtendProcessingLock's WHERE and SET clauses.
Extendable(row, id, fp) ==
    /\ row.id = id
    /\ row.status = "processing"
    /\ row.fp = fp
Extended(row, lockedUntil, expiresAt) ==
    [row EXCEPT !.lockedUntil = lockedUntil, !.expiresAt = expiresAt]

\* MarkSucceeded and MarkFailedRetryable: by id alone, whoever holds the row.
\* A row that is gone is updated by neither, and neither reports it.
Succeeded(row, id, expiresAt) ==
    IF row.id = id
      THEN [row EXCEPT !.status = "succeeded",
                       !.lockedUntil = Null,
                       !.expiresAt = expiresAt]
      ELSE row
FailedRetryable(row, id, lockedUntil, expiresAt) ==
    IF row.id = id
      THEN [row EXCEPT !.status = "failed_retryable",
                       !.lockedUntil = lockedUntil,
                       !.expiresAt = expiresAt]
      ELSE row

\* DeleteExpired's WHERE clause.
Expired(row, at) == Exists(row) /\ row.expiresAt <= at
=============================================================================
