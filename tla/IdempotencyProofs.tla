------------------------- MODULE IdempotencyProofs -------------------------
(***************************************************************************)
(* No two requests with one idempotency key execute at the same time, for  *)
(* any number of requests and payloads, and any timings that satisfy       *)
(* TimeAssumption.                                                         *)
(*                                                                         *)
(* The argument: an executing request owns the record, which carries that  *)
(* request's lock and expiry (Owned), so nobody can create or delete it,   *)
(* or reclaim it as failed.  It can be reclaimed as expired only by a      *)
(* request that read it before the claim; that request's clock is then     *)
(* older than the lock of the claim (Behind), because a claim takes less   *)
(* than ProcessingTimeout (Timely).                                        *)
(***************************************************************************)
EXTENDS Idempotency, TLAPS

\* Nobody has read the clock in the future, and the bounds of Tick hold.
Timely ==
    \A c \in Callers :
        /\ call[c].at <= now
        /\ call[c].pc \in Claiming => now <= call[c].at + ClaimMax
        /\ call[c].pc \in Executing => now <= call[c].at + ExecMax

\* An executing request's claim is what the record says.
Owned ==
    \A c \in Callers :
        call[c].pc \in Executing => /\ row.status = "processing"
                                    /\ row.lockedUntil = LockedUntil(c)
                                    /\ row.expiresAt = ExpiresAt(c)

\* A request about to reclaim an expired record read the clock before the lock
\* of any request that is executing ends.
Behind ==
    \A c, d \in Callers :
        call[c].pc \in Executing /\ call[d].pc = "reclaimExpired"
          => call[d].at < LockedUntil(c)

\* What a request carries at each place of Execute: its payload throughout, the
\* record it read when it is about to reclaim it, the id when it executes.
ProperCalls ==
    {x \in Calls :
        /\ x.pc # "idle" => x.fp \in Fingerprints
        /\ x.pc \in {"reclaimExpired", "reclaimFailed"} => x.existing \in Rows
        /\ x.pc \in Executing => x.id # 0}

TypeInv == TypeOK /\ call \in [Callers -> ProperCalls]

ExecInv == TypeInv /\ Timely /\ Owned /\ Behind /\ SingleExecution

\* A recorded success is some execution's, with its payload and its expiry.
Answered ==
    row.status = "succeeded" =>
        /\ row.lockedUntil = Null
        /\ \E e \in effects : e.fp = row.fp /\ e.until = row.expiresAt

\* An executing request's record carries its id and its payload; once it has
\* succeeded, its effect is there to be recorded.
OwnRecord ==
    \A c \in Callers :
        /\ call[c].pc \in Executing => row.id = call[c].id /\ row.fp = call[c].fp
        /\ call[c].pc = "ok" => \E e \in effects : e.fp = call[c].fp /\ e.until = ExpiresAt(c)

\* The record that a request is about to reclaim has the request's payload, and
\* the payload of a record never changes.
OwnPayload ==
    \A c \in Callers :
        call[c].pc \in {"reclaimExpired", "reclaimFailed"} =>
            /\ call[c].existing.id <= lastId
            /\ call[c].existing.fp = call[c].fp
            /\ row.id = call[c].existing.id => row.fp = call[c].existing.fp

\* Only the success that it read can be expired for a request about to reclaim;
\* if the reclaim is lost, the success it then finds was recorded since.
Fresh ==
    \A c \in Callers :
        row.status = "succeeded" /\ row.expiresAt <= call[c].at =>
            /\ call[c].pc = "reclaimExpired" =>
                 row.id = call[c].existing.id /\ call[c].existing.status = "succeeded"
            /\ call[c].pc # "getLatest"

\* Without a stale reclaim, the record outlives every execution within its TTL,
\* is not claimable, and nobody is about to execute again or to record a failure.
Recorded ==
    ~stale =>
        \A e \in effects :
            e.until > now =>
                /\ row.status \in {"processing", "succeeded"}
                /\ e.until <= row.expiresAt
                /\ \A c \in Callers : call[c].pc \notin {"run", "failed"}

RecordInv ==
    ExecInv /\ Answered /\ OwnRecord /\ OwnPayload /\ Fresh /\ Recorded /\ ReplayOfOwnPayload

-----------------------------------------------------------------------------
\* The places a statement may leave a caller at, with the record it read.
LEMMA CallUpdates ==
    ASSUME NEW x \in ProperCalls, x.pc # "idle", NEW r \in Rows
    PROVE  /\ [x EXCEPT !.pc = "replay"] \in ProperCalls
           /\ \A w \in {"reclaimExpired", "reclaimFailed"} :
                [x EXCEPT !.pc = w, !.existing = r] \in ProperCalls
BY DEF ProperCalls, Calls, Claiming, Executing

\* A claim leaves a caller executing, with the id of the record.
LEMMA RunUpdate ==
    ASSUME NEW x \in ProperCalls, x.pc # "idle", NEW i \in Nat \ {0}
    PROVE  [x EXCEPT !.pc = "run", !.id = i] \in ProperCalls
BY DEF ProperCalls, Calls, Claiming, Executing

LEMMA NoCallProper == NoCall \in ProperCalls
BY DEF NoCall, ProperCalls, Calls, Rows, NoRow, Null, Executing

\* The type invariant is inductive.
LEMMA TypeStep == TypeInv /\ [Next]_vars => TypeInv'
<1> SUFFICES ASSUME TypeInv, [Next]_vars PROVE TypeInv'
  OBVIOUS
<1> USE TimeAssumption
<1> DEFINE CallTyped == call' \in [Callers -> ProperCalls] /\ call' \in [Callers -> Calls]
<1>0. /\ call \in [Callers -> ProperCalls] /\ call \in [Callers -> Calls]
      /\ now \in Nat /\ lastId \in Nat /\ row \in Rows \cup {NoRow} /\ row.id <= lastId
      /\ effects \in SUBSET [fp : Fingerprints, until : Nat] /\ stale \in BOOLEAN
  BY DEF TypeInv, TypeOK
<1>a. ASSUME NEW c \in Callers, NEW y \in ProperCalls, call' = [call EXCEPT ![c] = y]
      PROVE  CallTyped
  BY <1>0, <1>a DEF ProperCalls
<1>b. ASSUME NEW c \in Callers, Return(c) PROVE CallTyped
  BY <1>b, <1>a, NoCallProper DEF Return
<1>c. ASSUME NEW c \in Callers, call[c].pc # "idle"
      PROVE  /\ call[c] \in ProperCalls /\ call[c].at \in Nat
             /\ call[c].fp \in Fingerprints
             /\ LockedUntil(c) \in Nat /\ ExpiresAt(c) \in Nat
  BY <1>0, <1>c DEF ProperCalls, Calls, LockedUntil, ExpiresAt
<1>d. Exists(row) => row \in Rows /\ row.id \in Nat \ {0}
  BY <1>0 DEF Exists, NoRow, Rows
<1>1. ASSUME NEW c \in Callers, Begin(c) PROVE TypeInv'
  <2>1. PICK f \in Fingerprints :
          call' = [call EXCEPT ![c] = [NoCall EXCEPT !.pc = "create", !.at = now, !.fp = f]]
    BY <1>1 DEF Begin
  <2>2. [NoCall EXCEPT !.pc = "create", !.at = now, !.fp = f] \in ProperCalls
    BY <1>0 DEF NoCall, ProperCalls, Calls, Rows, NoRow, Null, Executing, Claiming
  <2>3. CallTyped
    BY <2>1, <2>2, <1>a
  <2> QED BY <1>0, <1>1, <2>3 DEF Begin, TypeInv, TypeOK
<1>2. ASSUME NEW c \in Callers, CreateProcessing(c) PROVE TypeInv'
  <2>1. call[c].pc # "idle"
    BY <1>2 DEF CreateProcessing
  <2>2. row' \in Rows /\ row'.id = lastId + 1
    BY <1>0, <1>2, <1>c, <2>1 DEF CreateProcessing, Processing, Rows
  <2>3. CASE call' = [call EXCEPT ![c] = [@ EXCEPT !.pc = "run", !.id = lastId + 1]]
    <3>1. [call[c] EXCEPT !.pc = "run", !.id = lastId + 1] \in ProperCalls
      <4>1. call[c] \in ProperCalls /\ lastId + 1 \in Nat \ {0}
        BY <1>0, <1>c, <2>1
      <4> QED BY <2>1, <4>1, RunUpdate
    <3>2. CallTyped
      BY <2>3, <3>1, <1>a
    <3> QED BY <1>0, <1>2, <2>2, <3>2 DEF CreateProcessing, TypeInv, TypeOK
  <2>4. CASE Return(c)
    BY <1>0, <1>2, <2>2, <2>4, <1>b DEF CreateProcessing, TypeInv, TypeOK
  <2> QED BY <1>2, <2>3, <2>4 DEF CreateProcessing
<1>3. ASSUME NEW c \in Callers, CreateConflict(c) PROVE TypeInv'
  <2>1. CallTyped
    <3>1. call[c] \in ProperCalls /\ call[c].pc # "idle"
      BY <1>3, <1>c DEF CreateConflict
    <3>2. [call[c] EXCEPT !.pc = "get"] \in ProperCalls
      BY <3>1 DEF ProperCalls, Calls, Claiming, Executing
    <3> QED BY <1>3, <3>2, <1>a DEF CreateConflict, Goto
  <2> QED BY <1>0, <1>3, <2>1 DEF CreateConflict, TypeInv, TypeOK
<1>4. ASSUME NEW c \in Callers, call[c].pc # "idle", Exists(row), ByStatus(c) PROVE CallTyped
  <2>1. [call[c] EXCEPT !.pc = "replay"] \in ProperCalls
    BY <1>c, <1>4, CallUpdates, <1>d
  <2>2. [call[c] EXCEPT !.pc = "reclaimFailed", !.existing = row] \in ProperCalls
    BY <1>c, <1>4, CallUpdates, <1>d
  <2>3. \/ call' = [call EXCEPT ![c] = [call[c] EXCEPT !.pc = "replay"]]
        \/ call' = [call EXCEPT ![c] = [call[c] EXCEPT !.pc = "reclaimFailed", !.existing = row]]
        \/ Return(c)
    BY <1>4 DEF ByStatus, Goto
  <2> QED BY <2>1, <2>2, <2>3, <1>a, <1>b
<1>5. ASSUME NEW c \in Callers, Get(c) PROVE TypeInv'
  <2>1. CallTyped
    <3>1. CASE Return(c)
      BY <3>1, <1>b
    <3>2. CASE /\ Exists(row)
               /\ call' = [call EXCEPT ![c] = [@ EXCEPT !.pc = "reclaimExpired", !.existing = row]]
      <4>1. [call[c] EXCEPT !.pc = "reclaimExpired", !.existing = row] \in ProperCalls
        BY <1>c, <1>d, <1>5, <3>2, CallUpdates DEF Get
      <4> QED BY <3>2, <4>1, <1>a
    <3>3. CASE Exists(row) /\ ByStatus(c)
      BY <1>4, <1>5, <3>3 DEF Get
    <3> QED BY <1>5, <3>1, <3>2, <3>3 DEF Get
  <2> QED BY <1>0, <1>5, <2>1 DEF Get, TypeInv, TypeOK
<1>6. ASSUME NEW c \in Callers, GetLatest(c) PROVE TypeInv'
  <2>1. CallTyped
    BY <1>b, <1>4, <1>6 DEF GetLatest
  <2> QED BY <1>0, <1>6, <2>1 DEF GetLatest, TypeInv, TypeOK
<1>7. ASSUME NEW c \in Callers, call[c].pc \in {"reclaimExpired", "reclaimFailed"},
             row.id = call[c].existing.id, Take(c)
      PROVE  CallTyped /\ row' \in Rows /\ row'.id = row.id
  <2>1. call[c] \in ProperCalls /\ call[c].existing \in Rows /\ Exists(row)
    BY <1>0, <1>7 DEF ProperCalls, Exists, Rows
  <2>2. call[c].existing.id \in Nat \ {0}
    BY <2>1 DEF Rows
  <2>3. [call[c] EXCEPT !.pc = "run", !.id = call[c].existing.id] \in ProperCalls
    BY <1>7, <2>1, <2>2, RunUpdate
  <2>4. CallTyped
    BY <1>7, <2>3, <1>a, <1>b DEF Take
  <2>5. row' \in Rows /\ row'.id = row.id
    BY <1>7, <1>c, <1>d, <2>1 DEF Take, Reclaimed, Rows
  <2> QED BY <2>4, <2>5
<1>8. ASSUME NEW c \in Callers, ReclaimExpired(c) PROVE TypeInv'
  <2>1. CallTyped /\ row' \in Rows /\ row'.id = row.id
    BY <1>7, <1>8 DEF ReclaimExpired, Reclaimable
  <2>2. stale' \in BOOLEAN
    BY <1>8, <1>0 DEF ReclaimExpired
  <2> QED BY <1>0, <1>8, <2>1, <2>2 DEF ReclaimExpired, TypeInv, TypeOK
<1>9. ASSUME NEW c \in Callers, ReclaimExpiredLost(c) PROVE TypeInv'
  <2>1. CallTyped
    <3>1. call[c] \in ProperCalls /\ call[c].pc # "idle"
      BY <1>9, <1>c DEF ReclaimExpiredLost
    <3>2. [call[c] EXCEPT !.pc = "getLatest"] \in ProperCalls
      BY <3>1 DEF ProperCalls, Calls, Claiming, Executing
    <3> QED BY <1>9, <3>2, <1>a DEF ReclaimExpiredLost, Goto
  <2> QED BY <1>0, <1>9, <2>1 DEF ReclaimExpiredLost, TypeInv, TypeOK
<1>10. ASSUME NEW c \in Callers, ReclaimFailed(c) PROVE TypeInv'
  <2>1. CASE Take(c) /\ Reclaimable(row, call[c].existing.id, "failed_retryable", call[c].at)
    <3>1. CallTyped /\ row' \in Rows /\ row'.id = row.id
      BY <1>7, <1>10, <2>1 DEF ReclaimFailed, Reclaimable
    <3> QED BY <1>0, <1>10, <3>1 DEF ReclaimFailed, TypeInv, TypeOK
  <2>2. CASE Return(c) /\ UNCHANGED row
    BY <1>0, <1>b, <1>10, <2>2 DEF ReclaimFailed, TypeInv, TypeOK
  <2> QED BY <1>10, <2>1, <2>2 DEF ReclaimFailed
<1>11. ASSUME NEW c \in Callers, StoreFails(c) \/ Replay(c) \/ Crash(c) PROVE TypeInv'
  BY <1>0, <1>b, <1>11 DEF StoreFails, Replay, Crash, TypeInv, TypeOK
<1>12. ASSUME NEW c \in Callers, Execute(c) PROVE TypeInv'
  <2>1. call[c] \in ProperCalls /\ call[c].pc = "run" /\ ExpiresAt(c) \in Nat
        /\ call[c].fp \in Fingerprints
    BY <1>12, <1>c DEF Execute
  <2>2. [call[c] EXCEPT !.pc = "ok"] \in ProperCalls /\ [call[c] EXCEPT !.pc = "failed"] \in ProperCalls
    BY <2>1 DEF ProperCalls, Calls, Claiming, Executing
  <2>3. CallTyped
    BY <1>12, <2>2, <1>a DEF Execute, Goto
  <2>4. effects' \in SUBSET [fp : Fingerprints, until : Nat]
    BY <1>0, <1>12, <2>1 DEF Execute
  <2> QED BY <1>0, <1>12, <2>3, <2>4 DEF Execute, TypeInv, TypeOK
<1>13. ASSUME NEW c \in Callers, MarkSucceeded(c) \/ MarkFailedRetryable(c) PROVE TypeInv'
  <2>1. CallTyped
    BY <1>b, <1>13 DEF MarkSucceeded, MarkFailedRetryable
  <2>2. call[c].id \in Nat \ {0} /\ ExpiresAt(c) \in Nat /\ now + Backoff \in Nat
    BY <1>0, <1>c, <1>13 DEF MarkSucceeded, MarkFailedRetryable, ProperCalls, Calls, Executing
  <2>3. row' \in Rows \cup {NoRow} /\ row'.id = row.id
    <3>1. CASE row = NoRow
      <4>1. NoRow.id = 0
        BY DEF NoRow
      <4>2. row' = row
        BY <1>13, <2>2, <3>1, <4>1
           DEF MarkSucceeded, MarkFailedRetryable, Succeeded, FailedRetryable
      <4> QED BY <3>1, <4>2
    <3>2. CASE row \in Rows
      <4>1. \/ row' = row
            \/ row' = Succeeded(row, call[c].id, ExpiresAt(c))
            \/ row' = FailedRetryable(row, call[c].id, now + Backoff, ExpiresAt(c))
        BY <1>13 DEF MarkSucceeded, MarkFailedRetryable
      <4>2. Succeeded(row, call[c].id, ExpiresAt(c)) \in Rows
            /\ Succeeded(row, call[c].id, ExpiresAt(c)).id = row.id
        BY <2>2, <3>2 DEF Succeeded, Rows, Null
      <4>3. FailedRetryable(row, call[c].id, now + Backoff, ExpiresAt(c)) \in Rows
            /\ FailedRetryable(row, call[c].id, now + Backoff, ExpiresAt(c)).id = row.id
        BY <2>2, <3>2 DEF FailedRetryable, Rows
      <4> QED BY <3>2, <4>1, <4>2, <4>3
    <3> QED BY <1>0, <3>1, <3>2
  <2> QED BY <1>0, <1>13, <2>1, <2>3 DEF MarkSucceeded, MarkFailedRetryable, TypeInv, TypeOK
<1>14. CASE DeleteExpired
  BY <1>0, <1>14 DEF DeleteExpired, TypeInv, TypeOK, NoRow
<1>15. CASE Tick
  BY <1>0, <1>15 DEF Tick, TypeInv, TypeOK
<1>16. CASE UNCHANGED vars
  BY <1>0, <1>16 DEF vars, TypeInv, TypeOK
<1> QED
  BY <1>1, <1>2, <1>3, <1>5, <1>6, <1>8, <1>9, <1>10, <1>11, <1>12, <1>13,
     <1>14, <1>15, <1>16 DEF Next, Step

-----------------------------------------------------------------------------
\* Every action keeps the invariant, given that it keeps the types.
LEMMA ExecStep == ExecInv /\ [Next]_vars => ExecInv'
<1> SUFFICES ASSUME ExecInv, [Next]_vars PROVE ExecInv'
  OBVIOUS
<1> USE TimeAssumption
<1> DEFINE Rest == Timely /\ Owned /\ Behind /\ SingleExecution
<1>0. TypeInv /\ TypeInv'
  BY TypeStep DEF ExecInv
<1>a. /\ now \in Nat /\ call \in [Callers -> Calls] /\ row \in Rows \cup {NoRow}
      /\ \A c \in Callers : call[c].at \in Nat
  BY <1>0 DEF TypeInv, TypeOK, Calls
<1>b. Timely /\ Owned /\ Behind /\ SingleExecution
  BY DEF ExecInv
\* A caller leaves Execute, or goes on without claiming: nobody starts.
<1>c. ASSUME NEW c \in Callers, now' = now, row' = row,
             \A d \in Callers \ {c} : call'[d] = call[d],
             call'[c].pc \in Executing => call[c].pc \in Executing,
             call'[c].pc \in Claiming => call[c].pc \in Claiming,
             call'[c].at = call[c].at \/ call'[c] = NoCall,
             call'[c].pc = "reclaimExpired" => row.expiresAt <= call[c].at
      PROVE  Rest'
  <2>1. Timely'
    BY <1>a, <1>b, <1>c DEF Timely, NoCall, Claiming, Executing
  <2>2. Owned'
    BY <1>a, <1>b, <1>c DEF Owned, NoCall, Executing, LockedUntil, ExpiresAt
  <2>3. SingleExecution'
    BY <1>b, <1>c DEF SingleExecution
  <2>4. Behind'
    <3> SUFFICES ASSUME NEW x \in Callers, NEW d \in Callers,
                        call'[x].pc \in Executing, call'[d].pc = "reclaimExpired"
                 PROVE  call'[d].at < LockedUntil(x)'
      BY DEF Behind
    <3>1. call[x].pc \in Executing /\ call'[x].at = call[x].at
      BY <1>c DEF NoCall, Executing
    <3>2. CASE d # c
      BY <1>b, <1>c, <3>1, <3>2 DEF Behind, LockedUntil
    <3>3. CASE d = c
      <4>1. row.expiresAt <= now
        BY <1>a, <1>b, <1>c, <3>3 DEF Timely, Rows, NoRow, Null
      <4>2. row.expiresAt = call[x].at + TTL /\ now <= call[x].at + ExecMax
        BY <1>b, <3>1 DEF Owned, Timely, ExpiresAt
      <4> QED BY <1>a, <4>1, <4>2
    <3> QED BY <3>2, <3>3
  <2> QED BY <2>1, <2>2, <2>3, <2>4
\* A claim: with nobody executing, the record becomes the claimant's.
<1>d. ASSUME NEW c \in Callers, call[c].pc \in Claiming, now' = now,
             \A d \in Callers : call[d].pc \notin Executing,
             row'.status = "processing", row'.lockedUntil = LockedUntil(c),
             row'.expiresAt = ExpiresAt(c),
             \A d \in Callers \ {c} : call'[d] = call[d],
             \/ call'[c].pc = "run" /\ call'[c].at = call[c].at
             \/ call'[c] = NoCall
      PROVE  Rest'
  <2>1. Timely'
    BY <1>a, <1>b, <1>d DEF Timely, NoCall, Claiming, Executing
  <2>2. Owned'
    BY <1>a, <1>d DEF Owned, NoCall, Executing, LockedUntil, ExpiresAt
  <2>3. SingleExecution'
    BY <1>d DEF SingleExecution, NoCall, Executing
  <2>4. Behind'
    <3> SUFFICES ASSUME NEW x \in Callers, NEW d \in Callers,
                        call'[x].pc \in Executing, call'[d].pc = "reclaimExpired"
                 PROVE  call'[d].at < LockedUntil(x)'
      BY DEF Behind
    <3>1. x = c /\ d # c /\ call'[c].at = call[c].at /\ call'[d] = call[d]
      BY <1>d DEF Executing, NoCall
    <3>2. call[d].at <= now /\ now <= call[c].at + ClaimMax
      BY <1>b, <1>d DEF Timely
    <3> QED BY <1>a, <3>1, <3>2 DEF LockedUntil
  <2> QED BY <2>1, <2>2, <2>3, <2>4
\* The record changes and nobody executes any more.
<1>e. ASSUME now' = now,
             \A d \in Callers : call'[d].pc \notin Executing,
             \A d \in Callers : call'[d] = call[d] \/ call'[d] = NoCall
      PROVE  Rest'
  <2>1. Timely'
    BY <1>a, <1>b, <1>e DEF Timely, NoCall, Claiming
  <2> QED BY <2>1, <1>e DEF Owned, Behind, SingleExecution
\* An update of c's record, as seen by the others.
<1>f. ASSUME NEW c \in Callers, NEW y, call' = [call EXCEPT ![c] = y]
      PROVE  call'[c] = y /\ \A d \in Callers \ {c} : call'[d] = call[d]
  BY <1>a, <1>f
<1>g. ASSUME NEW c \in Callers, NEW w, call' = [call EXCEPT ![c].pc = w]
      PROVE  /\ call'[c].pc = w /\ call'[c].at = call[c].at
             /\ \A d \in Callers \ {c} : call'[d] = call[d]
  BY <1>a, <1>g DEF Calls
<1>h. ASSUME NEW c \in Callers, Return(c), now' = now, row' = row PROVE Rest'
  <2>1. call'[c] = NoCall /\ \A d \in Callers \ {c} : call'[d] = call[d]
    BY <1>f, <1>h DEF Return
  <2> QED BY <2>1, <1>c, <1>h DEF NoCall, Claiming, Executing
<1>1. ASSUME NEW c \in Callers, Begin(c) PROVE Rest'
  <2>1. PICK f \in Fingerprints :
          call' = [call EXCEPT ![c] = [NoCall EXCEPT !.pc = "create", !.at = now, !.fp = f]]
    BY <1>1 DEF Begin
  <2>2. /\ call'[c].pc = "create" /\ call'[c].at = now
        /\ \A d \in Callers \ {c} : call'[d] = call[d]
    <3>1. [NoCall EXCEPT !.pc = "create", !.at = now, !.fp = f].pc = "create"
          /\ [NoCall EXCEPT !.pc = "create", !.at = now, !.fp = f].at = now
      BY DEF NoCall
    <3> QED BY <1>f, <2>1, <3>1
  <2>3. now' = now /\ row' = row
    BY <1>1 DEF Begin
  <2> QED BY <1>a, <1>b, <2>2, <2>3
          DEF Timely, Owned, Behind, SingleExecution, Claiming, Executing, LockedUntil, ExpiresAt
<1>2. ASSUME NEW c \in Callers, CreateProcessing(c) PROVE Rest'
  <2>1. \A d \in Callers : call[d].pc \notin Executing
    BY <1>2, <1>a, <1>b DEF CreateProcessing, Exists, Owned, Rows, NoRow
  <2>2. /\ row'.status = "processing" /\ row'.lockedUntil = LockedUntil(c)
        /\ row'.expiresAt = ExpiresAt(c) /\ now' = now /\ call[c].pc \in Claiming
    BY <1>2 DEF CreateProcessing, Processing, Claiming
  <2>3. /\ \A d \in Callers \ {c} : call'[d] = call[d]
        /\ \/ call'[c].pc = "run" /\ call'[c].at = call[c].at
           \/ call'[c] = NoCall
    <3>1. CASE call' = [call EXCEPT ![c] = [@ EXCEPT !.pc = "run", !.id = lastId + 1]]
      <4>1. [call[c] EXCEPT !.pc = "run", !.id = lastId + 1].pc = "run"
            /\ [call[c] EXCEPT !.pc = "run", !.id = lastId + 1].at = call[c].at
        BY <1>a DEF Calls
      <4> QED BY <1>f, <3>1, <4>1
    <3>2. CASE Return(c)
      BY <1>f, <3>2 DEF Return
    <3> QED BY <1>2, <3>1, <3>2 DEF CreateProcessing
  <2> QED BY <1>d, <2>1, <2>2, <2>3
<1>3. ASSUME NEW c \in Callers, CreateConflict(c) PROVE Rest'
  <2>1. /\ call'[c].pc = "get" /\ call'[c].at = call[c].at
        /\ \A d \in Callers \ {c} : call'[d] = call[d]
    BY <1>g, <1>3 DEF CreateConflict, Goto
  <2> QED BY <2>1, <1>c, <1>3 DEF CreateConflict, Claiming, Executing
<1>4. ASSUME NEW c \in Callers, ByStatus(c), call[c].pc \in Claiming, now' = now, row' = row
      PROVE  Rest'
  <2>1. CASE Return(c)
    BY <2>1, <1>4, <1>h
  <2>2. CASE call' = [call EXCEPT ![c].pc = "replay"]
    <3>1. /\ call'[c].pc = "replay" /\ call'[c].at = call[c].at
          /\ \A d \in Callers \ {c} : call'[d] = call[d]
      BY <2>2, <1>g
    <3> QED BY <3>1, <1>4, <1>c DEF Claiming, Executing
  <2>3. CASE call' = [call EXCEPT ![c] = [@ EXCEPT !.pc = "reclaimFailed", !.existing = row]]
    <3>1. /\ call'[c].pc = "reclaimFailed" /\ call'[c].at = call[c].at
          /\ \A d \in Callers \ {c} : call'[d] = call[d]
      BY <2>3, <1>a, <1>f DEF Calls
    <3> QED BY <3>1, <1>4, <1>c DEF Claiming, Executing
  <2> QED BY <1>4, <2>1, <2>2, <2>3 DEF ByStatus, Goto
<1>5. ASSUME NEW c \in Callers, Get(c) PROVE Rest'
  <2>1. CASE Return(c)
    BY <2>1, <1>5, <1>h DEF Get
  <2>2. CASE /\ row.expiresAt <= call[c].at
             /\ call' = [call EXCEPT ![c] = [@ EXCEPT !.pc = "reclaimExpired", !.existing = row]]
    <3>1. /\ call'[c].pc = "reclaimExpired" /\ call'[c].at = call[c].at
          /\ \A d \in Callers \ {c} : call'[d] = call[d]
      BY <2>2, <1>a, <1>f DEF Calls
    <3> QED BY <3>1, <2>2, <1>5, <1>c DEF Get, Claiming, Executing
  <2>3. CASE ByStatus(c)
    BY <2>3, <1>4, <1>5 DEF Get, Claiming
  <2> QED BY <1>5, <2>1, <2>2, <2>3 DEF Get
<1>6. ASSUME NEW c \in Callers, GetLatest(c) PROVE Rest'
  BY <1>4, <1>6, <1>h DEF GetLatest, Claiming
<1>7. ASSUME NEW c \in Callers, call[c].pc \in Claiming, Take(c), now' = now,
             \A d \in Callers : call[d].pc \notin Executing, row.id # 0
      PROVE  Rest'
  <2>1. /\ row'.status = "processing" /\ row'.lockedUntil = LockedUntil(c)
        /\ row'.expiresAt = ExpiresAt(c)
    BY <1>a, <1>7 DEF Take, Reclaimed, Rows, NoRow
  <2>2. /\ \A d \in Callers \ {c} : call'[d] = call[d]
        /\ \/ call'[c].pc = "run" /\ call'[c].at = call[c].at
           \/ call'[c] = NoCall
    <3>1. CASE call' = [call EXCEPT ![c] = [@ EXCEPT !.pc = "run", !.id = call[c].existing.id]]
      <4>1. [call[c] EXCEPT !.pc = "run", !.id = call[c].existing.id].pc = "run"
            /\ [call[c] EXCEPT !.pc = "run", !.id = call[c].existing.id].at = call[c].at
        BY <1>a DEF Calls
      <4> QED BY <1>f, <3>1, <4>1
    <3>2. CASE Return(c)
      BY <1>f, <3>2 DEF Return
    <3> QED BY <1>7, <3>1, <3>2 DEF Take
  <2> QED BY <1>d, <1>7, <2>1, <2>2
<1>8. ASSUME NEW c \in Callers, ReclaimExpired(c) PROVE Rest'
  <2>1. \A d \in Callers : call[d].pc \notin Executing
    <3> SUFFICES ASSUME NEW d \in Callers, call[d].pc \in Executing PROVE FALSE
      OBVIOUS
    <3>1. row.lockedUntil = LockedUntil(d) /\ call[c].at < LockedUntil(d)
      BY <1>b, <1>8 DEF Owned, Behind, ReclaimExpired
    <3>2. row.lockedUntil <= call[c].at
      BY <1>8 DEF ReclaimExpired, Reclaimable
    <3> QED BY <1>a, <3>1, <3>2 DEF LockedUntil
  <2>2. row.id # 0
    BY <1>0, <1>8 DEF ReclaimExpired, Reclaimable, TypeInv, ProperCalls, Rows
  <2> QED BY <1>7, <1>8, <2>1, <2>2 DEF ReclaimExpired, Claiming
<1>9. ASSUME NEW c \in Callers, ReclaimExpiredLost(c) PROVE Rest'
  <2>1. /\ call'[c].pc = "getLatest" /\ call'[c].at = call[c].at
        /\ \A d \in Callers \ {c} : call'[d] = call[d]
    BY <1>g, <1>9 DEF ReclaimExpiredLost, Goto
  <2> QED BY <2>1, <1>c, <1>9 DEF ReclaimExpiredLost, Claiming, Executing
<1>10. ASSUME NEW c \in Callers, ReclaimFailed(c) PROVE Rest'
  <2>1. CASE Take(c) /\ Reclaimable(row, call[c].existing.id, "failed_retryable", call[c].at)
    <3>1. \A d \in Callers : call[d].pc \notin Executing
      BY <1>b, <2>1 DEF Owned, Reclaimable
    <3>2. row.id # 0
      BY <1>0, <1>10, <2>1 DEF ReclaimFailed, Reclaimable, TypeInv, ProperCalls, Rows
    <3> QED BY <1>7, <1>10, <2>1, <3>1, <3>2 DEF ReclaimFailed, Claiming
  <2>2. CASE Return(c) /\ UNCHANGED row
    BY <1>h, <1>10, <2>2 DEF ReclaimFailed
  <2> QED BY <1>10, <2>1, <2>2 DEF ReclaimFailed
<1>11. ASSUME NEW c \in Callers, StoreFails(c) \/ Replay(c) \/ Crash(c) PROVE Rest'
  BY <1>h, <1>11 DEF StoreFails, Replay, Crash
<1>12. ASSUME NEW c \in Callers, Execute(c) PROVE Rest'
  <2>1. /\ call'[c].pc \in {"ok", "failed"} /\ call'[c].at = call[c].at
        /\ \A d \in Callers \ {c} : call'[d] = call[d]
    BY <1>g, <1>12 DEF Execute, Goto
  <2> QED BY <2>1, <1>c, <1>12 DEF Execute, Claiming, Executing
<1>13. ASSUME NEW c \in Callers, MarkSucceeded(c) \/ MarkFailedRetryable(c) PROVE Rest'
  <2>1. call'[c] = NoCall /\ \A d \in Callers \ {c} : call'[d] = call[d]
    BY <1>f, <1>13 DEF MarkSucceeded, MarkFailedRetryable, Return
  <2>2. \A d \in Callers \ {c} : call[d].pc \notin Executing
    BY <1>b, <1>13 DEF SingleExecution, MarkSucceeded, MarkFailedRetryable, Executing
  <2>3. \A d \in Callers : call'[d].pc \notin Executing
    BY <2>1, <2>2 DEF NoCall, Executing
  <2> QED BY <1>e, <1>13, <2>1, <2>3 DEF MarkSucceeded, MarkFailedRetryable
<1>14. ASSUME DeleteExpired PROVE Rest'
  <2>1. \A d \in Callers : call[d].pc \notin Executing
    BY <1>a, <1>b, <1>14 DEF DeleteExpired, Expired, Owned, Timely, ExpiresAt
  <2> QED BY <1>e, <1>14, <2>1 DEF DeleteExpired
<1>15. ASSUME Tick PROVE Rest'
  <2>1. now' = now + 1 /\ row' = row /\ call' = call
    BY <1>15 DEF Tick
  <2>2. Timely'
    BY <1>15, <1>a, <1>b, <2>1 DEF Tick, Timely
  <2> QED BY <1>b, <2>1, <2>2 DEF Owned, Behind, SingleExecution, LockedUntil, ExpiresAt
<1>16. ASSUME UNCHANGED vars PROVE Rest'
  BY <1>b, <1>16 DEF vars, Timely, Owned, Behind, SingleExecution, LockedUntil, ExpiresAt
<1>17. Rest'
  BY <1>1, <1>2, <1>3, <1>5, <1>6, <1>8, <1>9, <1>10, <1>11, <1>12, <1>13,
     <1>14, <1>15, <1>16 DEF Next, Step
<1> QED BY <1>0, <1>17 DEF ExecInv

\* Nobody is at work at the start.
LEMMA ExecInit == Init => ExecInv
<1> SUFFICES ASSUME Init PROVE ExecInv
  OBVIOUS
<1>1. call \in [Callers -> ProperCalls] /\ call \in [Callers -> Calls]
  BY NoCallProper DEF Init, ProperCalls
<1>2. TypeInv
  <2>1. NoRow.id = 0
    BY DEF NoRow
  <2>2. now \in Nat /\ lastId \in Nat /\ row.id <= lastId
    BY <2>1 DEF Init
  <2>3. row \in Rows \cup {NoRow} /\ stale \in BOOLEAN
        /\ effects \in SUBSET [fp : Fingerprints, until : Nat]
    BY Zenon DEF Init
  <2> QED BY <1>1, <2>2, <2>3 DEF TypeInv, TypeOK
<1>3. Timely /\ Owned /\ Behind /\ SingleExecution
  BY TimeAssumption DEF Init, Timely, Owned, Behind, SingleExecution, NoCall, Executing, Claiming
<1> QED BY <1>2, <1>3 DEF ExecInv

\* Execute runs for one request at a time per key (SingleExecution), whatever the
\* numbers of requests and payloads, for every timing that TimeAssumption admits.
THEOREM OneExecutes == Spec => []SingleExecution
<1>1. ExecInv => SingleExecution
  BY DEF ExecInv
<1> QED BY <1>1, ExecInit, ExecStep, PTL DEF Spec

-----------------------------------------------------------------------------
RecordRest == Answered /\ OwnRecord /\ OwnPayload /\ Fresh /\ Recorded /\ ReplayOfOwnPayload

\* What the types say of the clock, the record, the effects and a request.
LEMMA CallFacts ==
    ASSUME TypeInv
    PROVE  /\ now \in Nat /\ lastId \in Nat /\ row.id \in Nat /\ row.id <= lastId
           /\ row.expiresAt \in Int /\ row.lockedUntil \in Int
           /\ Exists(row) => row \in Rows
           /\ \A e \in effects : e.until \in Nat
           /\ \A c \in Callers : /\ call[c] \in ProperCalls /\ call[c].at \in Nat
                                 /\ call[c].existing.id \in Nat /\ call[c].id \in Nat
                                 /\ ExpiresAt(c) \in Nat /\ LockedUntil(c) \in Nat
<1> USE TimeAssumption
<1>1. /\ now \in Nat /\ lastId \in Nat /\ row \in Rows \cup {NoRow} /\ row.id <= lastId
      /\ call \in [Callers -> ProperCalls] /\ effects \in SUBSET [fp : Fingerprints, until : Nat]
  BY DEF TypeInv, TypeOK
<1>2. /\ row.id \in Nat /\ row.expiresAt \in Int /\ row.lockedUntil \in Int
      /\ Exists(row) => row \in Rows
  BY <1>1 DEF Rows, NoRow, Null, Exists
<1>3. \A e \in effects : e.until \in Nat
  BY <1>1
<1>4. ASSUME NEW c \in Callers
      PROVE  /\ call[c] \in ProperCalls /\ call[c].at \in Nat
             /\ call[c].existing.id \in Nat /\ call[c].id \in Nat
             /\ ExpiresAt(c) \in Nat /\ LockedUntil(c) \in Nat
  <2>1. call[c] \in Calls /\ call[c] \in ProperCalls
    BY <1>1 DEF ProperCalls
  <2>2. call[c].existing \in Rows \cup {NoRow} /\ call[c].at \in Nat /\ call[c].id \in Nat
    BY <2>1 DEF Calls
  <2>3. call[c].existing.id \in Nat
    BY <2>2 DEF Rows, NoRow
  <2> QED BY <2>1, <2>2, <2>3 DEF ExpiresAt, LockedUntil
<1> QED BY <1>1, <1>2, <1>3, <1>4

\* A request moves on without claiming and nothing else changes: what it carries
\* is what the record says.
LEMMA QuietRecord ==
    ASSUME RecordInv, NEW c \in Callers, NEW y, call' = [call EXCEPT ![c] = y],
           UNCHANGED <<now, row, lastId, effects, stale>>,
           y.pc \notin Executing,
           y.pc \in {"reclaimExpired", "reclaimFailed"} => y.existing = row /\ y.fp = row.fp,
           y.pc = "getLatest" => ~(row.status = "succeeded" /\ row.expiresAt <= y.at),
           y.pc = "replay" => \E e \in effects : e.fp = y.fp /\ e.until > y.at
    PROVE  RecordRest'
<1>0. /\ TypeInv /\ call \in [Callers -> Calls] /\ Answered /\ OwnRecord /\ OwnPayload /\ Fresh
      /\ Recorded /\ ReplayOfOwnPayload /\ row.id <= lastId
  BY DEF RecordInv, ExecInv, TypeInv, TypeOK
<1>1. call'[c] = y /\ \A d \in Callers \ {c} : call'[d] = call[d]
  BY <1>0
<1>2. Answered'
  BY <1>0 DEF Answered
<1>3. OwnRecord'
  BY <1>0, <1>1 DEF OwnRecord, Executing, ExpiresAt
<1>4. OwnPayload'
  BY <1>0, <1>1 DEF OwnPayload
<1>5. Fresh'
  BY <1>0, <1>1 DEF Fresh
<1>6. Recorded'
  BY <1>0, <1>1 DEF Recorded, Executing
<1>7. ReplayOfOwnPayload'
  BY <1>0, <1>1 DEF ReplayOfOwnPayload
<1> QED BY <1>2, <1>3, <1>4, <1>5, <1>6, <1>7 DEF RecordRest

\* A request claims the record, new or its own payload's, while nobody executes
\* and no effect is within its TTL unless the reclaim was stale.
LEMMA ClaimRecord ==
    ASSUME RecordInv, NEW c \in Callers, NEW y, call' = [call EXCEPT ![c] = y],
           UNCHANGED <<now, effects>>,
           y = NoCall \/ (y.pc = "run" /\ y.id = row'.id /\ y.fp = call[c].fp),
           \A d \in Callers : call[d].pc \notin Executing,
           row'.status = "processing", row'.fp = call[c].fp,
           \/ row'.id = row.id /\ row'.fp = row.fp /\ lastId' = lastId
           \/ row'.id = lastId + 1 /\ lastId' = lastId + 1,
           stale' \/ \A e \in effects : ~(e.until > now)
    PROVE  RecordRest'
<1>0. /\ TypeInv /\ call \in [Callers -> Calls] /\ OwnPayload /\ ReplayOfOwnPayload
      /\ lastId \in Nat
  BY DEF RecordInv, ExecInv, TypeInv, TypeOK
<1>1. call'[c] = y /\ \A d \in Callers \ {c} : call'[d] = call[d]
  BY <1>0
<1>2. Answered' /\ Fresh'
  BY DEF Answered, Fresh
<1>3. OwnRecord'
  BY <1>1 DEF OwnRecord, Executing, NoCall
<1>4. OwnPayload'
  <2> SUFFICES ASSUME NEW d \in Callers, call'[d].pc \in {"reclaimExpired", "reclaimFailed"}
               PROVE  /\ call'[d].existing.id <= lastId'
                      /\ call'[d].existing.fp = call'[d].fp
                      /\ row'.id = call'[d].existing.id => row'.fp = call'[d].existing.fp
    BY DEF OwnPayload
  <2>1. d # c /\ call'[d] = call[d]
    BY <1>1 DEF NoCall
  <2>2. call[d].existing.id \in Nat /\ call[d].existing.id <= lastId
    BY <1>0, <2>1, CallFacts DEF OwnPayload
  <2> QED BY <1>0, <2>1, <2>2 DEF OwnPayload
<1>5. Recorded'
  BY DEF Recorded
<1>6. ReplayOfOwnPayload'
  BY <1>0, <1>1 DEF ReplayOfOwnPayload, NoCall
<1> QED BY <1>2, <1>3, <1>4, <1>5, <1>6 DEF RecordRest

\* A request that executed marks its record, or fails to: nobody else executes.
LEMMA MarkRecord ==
    ASSUME RecordInv, NEW c \in Callers, Return(c), call[c].pc \in Executing,
           UNCHANGED <<now, lastId, effects, stale>>,
           row'.id = row.id /\ row'.fp = row.fp,
           \/ row' = row
           \/ /\ row'.status = "succeeded" /\ row'.lockedUntil = Null
              /\ row'.expiresAt = ExpiresAt(c) /\ call[c].pc = "ok"
           \/ row'.status = "failed_retryable" /\ call[c].pc = "failed"
    PROVE  RecordRest'
<1> USE TimeAssumption
<1>0. /\ TypeInv /\ call \in [Callers -> Calls] /\ Answered /\ OwnRecord /\ OwnPayload /\ Fresh
      /\ Recorded /\ ReplayOfOwnPayload /\ Timely /\ Owned
  BY DEF RecordInv, ExecInv, TypeInv, TypeOK
<1>1. call'[c] = NoCall /\ \A d \in Callers \ {c} : call'[d] = call[d]
  BY <1>0 DEF Return
<1>2. \A d \in Callers : call'[d].pc \notin Executing
  BY <1>1 DEF RecordInv, ExecInv, SingleExecution, NoCall, Executing
<1>3. ExpiresAt(c) > now /\ row.expiresAt = ExpiresAt(c)
  BY <1>0, CallFacts DEF Timely, Owned, ExpiresAt
<1>4. Answered'
  BY <1>0 DEF Answered, OwnRecord
<1>5. OwnRecord'
  BY <1>2 DEF OwnRecord, Executing
<1>6. OwnPayload'
  BY <1>0, <1>1 DEF OwnPayload, NoCall
<1>7. Fresh'
  <2> SUFFICES ASSUME NEW d \in Callers, call'[d].pc \in {"reclaimExpired", "getLatest"},
                      row'.status = "succeeded"
               PROVE  ~(row'.expiresAt <= call'[d].at)
    BY DEF Fresh
  <2>1. d # c /\ call'[d] = call[d] /\ call[d].at <= now /\ call[d].at \in Nat /\ now \in Nat
    BY <1>0, <1>1, CallFacts DEF NoCall, Timely
  <2>2. row'.status = "succeeded" => row'.expiresAt = ExpiresAt(c)
    BY <1>3
  <2> QED BY <1>0, <1>3, <2>1, <2>2, CallFacts
<1>8. Recorded'
  BY <1>0, <1>2, <1>3 DEF Recorded, Executing
<1>9. ReplayOfOwnPayload'
  BY <1>0, <1>1 DEF ReplayOfOwnPayload, NoCall
<1> QED BY <1>4, <1>5, <1>6, <1>7, <1>8, <1>9 DEF RecordRest

\* The operation returns in c: its effect is the only one within its TTL, unless
\* a stale reclaim let c start.
LEMMA ExecuteRecord ==
    ASSUME RecordInv, NEW c \in Callers, Execute(c) PROVE RecordRest'
<1> USE TimeAssumption
<1>0. /\ TypeInv /\ call \in [Callers -> Calls] /\ Answered /\ OwnRecord /\ OwnPayload /\ Fresh
      /\ Recorded /\ ReplayOfOwnPayload /\ Owned /\ SingleExecution
  BY DEF RecordInv, ExecInv, TypeInv, TypeOK
<1>1. /\ call[c].pc = "run" /\ UNCHANGED <<now, row, lastId, stale>>
      /\ call'[c].at = call[c].at /\ call'[c].fp = call[c].fp /\ call'[c].id = call[c].id
      /\ \A d \in Callers \ {c} : call'[d] = call[d]
  BY <1>0 DEF Execute, Goto, Calls
<1>2. \/ call'[c].pc = "ok" /\ effects' = effects \cup {[fp |-> call[c].fp, until |-> ExpiresAt(c)]}
      \/ call'[c].pc = "failed" /\ effects' = effects
  BY <1>0 DEF Execute, Goto, Calls
<1>3. \A e \in effects : e \in effects'
  BY <1>2
<1>4. Answered'
  BY <1>0, <1>1, <1>3 DEF Answered
<1>5. OwnRecord'
  <2> SUFFICES ASSUME NEW d \in Callers
               PROVE  /\ call'[d].pc \in Executing => row.id = call'[d].id /\ row.fp = call'[d].fp
                      /\ call'[d].pc = "ok" =>
                           \E e \in effects' : e.fp = call'[d].fp /\ e.until = ExpiresAt(d)'
    BY <1>1 DEF OwnRecord
  <2>1. CASE d # c
    BY <1>0, <1>1, <1>3, <2>1 DEF OwnRecord, ExpiresAt
  <2>2. CASE d = c
    <3>1. row.id = call'[c].id /\ row.fp = call'[c].fp
      BY <1>0, <1>1 DEF OwnRecord, Executing
    <3>2. CASE call'[c].pc = "ok"
      <4> DEFINE e == [fp |-> call[c].fp, until |-> ExpiresAt(c)]
      <4>1. e \in effects' /\ e.fp = call'[c].fp /\ e.until = ExpiresAt(c)'
        BY <1>1, <1>2, <3>2 DEF ExpiresAt
      <4> QED BY <2>2, <3>1, <4>1
    <3> QED BY <2>2, <3>1, <3>2
  <2> QED BY <2>1, <2>2
<1>6. OwnPayload' /\ Fresh'
  BY <1>0, <1>1, <1>2 DEF OwnPayload, Fresh
<1>7. Recorded'
  <2> SUFFICES ASSUME ~stale, NEW e \in effects', e.until > now
               PROVE  /\ row.status \in {"processing", "succeeded"}
                      /\ e.until <= row.expiresAt
                      /\ \A d \in Callers : call'[d].pc \notin {"run", "failed"}
    BY <1>1 DEF Recorded
  <2>1. e \notin effects
    BY <1>0, <1>1 DEF Recorded
  <2>2. e.until = ExpiresAt(c) /\ call'[c].pc = "ok"
    BY <1>2, <2>1
  <2>3. row.status = "processing" /\ row.expiresAt = ExpiresAt(c)
    BY <1>0, <1>1 DEF Owned, Executing
  <2>4. \A d \in Callers \ {c} : call[d].pc \notin {"run", "failed"}
    BY <1>0, <1>1 DEF SingleExecution, Executing
  <2> QED BY <1>0, <1>1, <2>2, <2>3, <2>4, CallFacts
<1>8. ReplayOfOwnPayload'
  BY <1>0, <1>1, <1>2, <1>3 DEF ReplayOfOwnPayload
<1> QED BY <1>4, <1>5, <1>6, <1>7, <1>8 DEF RecordRest

\* A request without a claim leaves Execute.
LEMMA ReturnRecord ==
    ASSUME RecordInv, NEW c \in Callers, Return(c),
           UNCHANGED <<now, row, lastId, effects, stale>>
    PROVE  RecordRest'
BY QuietRecord DEF Return, NoCall, Executing

\* A request that found its payload's record, not expired for it if it is a
\* success, goes on by the record's status.
LEMMA ByStatusRecord ==
    ASSUME RecordInv, NEW c \in Callers, ByStatus(c), row.fp = call[c].fp,
           row.status = "succeeded" => row.expiresAt > call[c].at,
           UNCHANGED <<now, row, lastId, effects, stale>>
    PROVE  RecordRest'
<1>0. call \in [Callers -> Calls] /\ call[c] \in Calls
  BY DEF RecordInv, ExecInv, TypeInv, TypeOK
<1>1. CASE Return(c)
  BY <1>1, ReturnRecord
<1>2. CASE row.status = "succeeded" /\ call' = [call EXCEPT ![c].pc = "replay"]
  <2> DEFINE y == [call[c] EXCEPT !.pc = "replay"]
  <2>1. y.pc = "replay" /\ y.at = call[c].at /\ y.fp = call[c].fp
    BY <1>0 DEF Calls
  <2>2. call' = [call EXCEPT ![c] = y]
    BY <1>2
  <2>3. \E e \in effects : e.fp = row.fp /\ e.until = row.expiresAt
    BY <1>2 DEF RecordInv, Answered
  <2> HIDE DEF y
  <2>4. \E e \in effects : e.fp = y.fp /\ e.until > y.at
    BY <1>2, <2>1, <2>3
  <2> QED BY <2>1, <2>2, <2>4, QuietRecord DEF Executing
<1>3. CASE call' = [call EXCEPT ![c] = [@ EXCEPT !.pc = "reclaimFailed", !.existing = row]]
  <2> DEFINE y == [call[c] EXCEPT !.pc = "reclaimFailed", !.existing = row]
  <2>1. y.pc = "reclaimFailed" /\ y.existing = row /\ y.fp = call[c].fp
    BY <1>0 DEF Calls
  <2>2. call' = [call EXCEPT ![c] = y]
    BY <1>3
  <2> HIDE DEF y
  <2> QED BY <2>1, <2>2, QuietRecord DEF Executing
<1> QED BY <1>1, <1>2, <1>3 DEF ByStatus, Goto

\* The steps of Execute that claim nothing.
LEMMA SearchRecord ==
    ASSUME RecordInv, NEW c \in Callers,
           \/ Begin(c) \/ CreateConflict(c) \/ Get(c) \/ ReclaimExpiredLost(c)
           \/ GetLatest(c) \/ StoreFails(c) \/ Replay(c) \/ Crash(c)
    PROVE  RecordRest'
<1>0. /\ TypeInv /\ call \in [Callers -> Calls] /\ call[c] \in Calls
      /\ UNCHANGED <<now, row, lastId, effects, stale>>
  BY DEF RecordInv, ExecInv, TypeInv, TypeOK, Begin, CreateConflict, Get, ReclaimExpiredLost,
         GetLatest, StoreFails, Replay, Crash
<1>1. CASE Begin(c)
  <2>1. PICK f \in Fingerprints :
          call' = [call EXCEPT ![c] = [NoCall EXCEPT !.pc = "create", !.at = now, !.fp = f]]
    BY <1>1 DEF Begin
  <2>2. [NoCall EXCEPT !.pc = "create", !.at = now, !.fp = f].pc = "create"
    BY DEF NoCall
  <2> QED BY <1>0, <2>1, <2>2, QuietRecord DEF Executing
<1>2. CASE CreateConflict(c)
  <2> DEFINE y == [call[c] EXCEPT !.pc = "get"]
  <2>1. y.pc = "get" /\ call' = [call EXCEPT ![c] = y]
    BY <1>0, <1>2 DEF CreateConflict, Goto, Calls
  <2> HIDE DEF y
  <2> QED BY <1>0, <2>1, QuietRecord DEF Executing
<1>3. CASE Get(c)
  <2>1. CASE Return(c)
    BY <1>0, <2>1, ReturnRecord
  <2>2. CASE /\ row.fp = call[c].fp
             /\ call' = [call EXCEPT ![c] = [@ EXCEPT !.pc = "reclaimExpired", !.existing = row]]
    <3> DEFINE y == [call[c] EXCEPT !.pc = "reclaimExpired", !.existing = row]
    <3>1. y.pc = "reclaimExpired" /\ y.existing = row /\ y.fp = call[c].fp
      BY <1>0 DEF Calls
    <3>2. call' = [call EXCEPT ![c] = y]
      BY <2>2
    <3> HIDE DEF y
    <3> QED BY <1>0, <2>2, <3>1, <3>2, QuietRecord DEF Executing
  <2>3. CASE row.fp = call[c].fp /\ ~(row.expiresAt <= call[c].at) /\ ByStatus(c)
    <3>1. row.expiresAt > call[c].at
      BY <1>0, <2>3, CallFacts
    <3> QED BY <1>0, <2>3, <3>1, ByStatusRecord
  <2> QED BY <1>3, <2>1, <2>2, <2>3 DEF Get
<1>4. CASE ReclaimExpiredLost(c)
  <2> DEFINE y == [call[c] EXCEPT !.pc = "getLatest"]
  <2>1. y.pc = "getLatest" /\ y.at = call[c].at /\ call' = [call EXCEPT ![c] = y]
    BY <1>0, <1>4 DEF ReclaimExpiredLost, Goto, Calls
  <2> HIDE DEF y
  <2>2. ASSUME row.status = "succeeded", row.expiresAt <= call[c].at PROVE FALSE
    <3>1. row.id = call[c].existing.id /\ call[c].existing.status = "succeeded"
      BY <1>4, <2>2 DEF RecordInv, Fresh, ReclaimExpiredLost
    <3>2. row.lockedUntil = -1 /\ call[c].at \in Nat
      BY <1>0, <2>2, CallFacts DEF RecordInv, Answered, Null
    <3> QED BY <1>4, <2>2, <3>1, <3>2 DEF ReclaimExpiredLost, Reclaimable
  <2> QED BY <1>0, <2>1, <2>2, QuietRecord DEF Executing
<1>5. CASE GetLatest(c)
  <2>1. CASE Return(c)
    BY <1>0, <2>1, ReturnRecord
  <2>2. CASE row.fp = call[c].fp /\ ByStatus(c)
    <3>1. row.status = "succeeded" => row.expiresAt > call[c].at
      BY <1>0, <1>5, CallFacts DEF GetLatest, RecordInv, Fresh
    <3> QED BY <1>0, <2>2, <3>1, ByStatusRecord
  <2> QED BY <1>5, <2>1, <2>2 DEF GetLatest
<1>6. CASE StoreFails(c) \/ Replay(c) \/ Crash(c)
  BY <1>0, <1>6, ReturnRecord DEF StoreFails, Replay, Crash
<1> QED BY <1>1, <1>2, <1>3, <1>4, <1>5, <1>6

\* An expired reclaim meets nobody who executes.
LEMMA ReclaimMeetsNobody ==
    ASSUME ExecInv, NEW c \in Callers, ReclaimExpired(c)
    PROVE  \A d \in Callers : call[d].pc \notin Executing
<1> SUFFICES ASSUME NEW d \in Callers, call[d].pc \in Executing PROVE FALSE
  OBVIOUS
<1>1. row.lockedUntil = LockedUntil(d) /\ call[c].at < LockedUntil(d)
  BY DEF ExecInv, Owned, Behind, ReclaimExpired
<1>2. row.lockedUntil <= call[c].at
  BY DEF ReclaimExpired, Reclaimable
<1>3. LockedUntil(d) \in Nat /\ call[c].at \in Nat
  BY CallFacts DEF ExecInv
<1> QED BY <1>1, <1>2, <1>3

\* TryReclaim of the record that was read, which carries the request's payload.
LEMMA TakeRecord ==
    ASSUME RecordInv, NEW c \in Callers, call[c].pc \in {"reclaimExpired", "reclaimFailed"},
           row.id = call[c].existing.id, Take(c), UNCHANGED <<now, lastId, effects>>,
           \A d \in Callers : call[d].pc \notin Executing,
           stale' \/ \A e \in effects : ~(e.until > now)
    PROVE  RecordRest'
<1>0. call \in [Callers -> Calls] /\ call[c] \in Calls /\ call[c] \in ProperCalls /\ TypeInv
  BY DEF RecordInv, ExecInv, TypeInv, TypeOK
<1>1. call[c].existing \in Rows
  BY <1>0 DEF ProperCalls
<1>2. row \in Rows /\ row.fp = call[c].fp
  <2>1. Exists(row)
    BY <1>1 DEF Exists, Rows
  <2> QED BY <1>0, <2>1, CallFacts DEF RecordInv, OwnPayload
<1>3. row'.status = "processing" /\ row'.fp = row.fp /\ row'.id = row.id
  BY <1>2 DEF Take, Reclaimed, Rows
<1>4. CASE Return(c)
  BY <1>2, <1>3, <1>4, ClaimRecord DEF Return
<1>5. CASE call' = [call EXCEPT ![c] = [@ EXCEPT !.pc = "run", !.id = call[c].existing.id]]
  <2> DEFINE y == [call[c] EXCEPT !.pc = "run", !.id = call[c].existing.id]
  <2>1. y.pc = "run" /\ y.id = row'.id /\ y.fp = call[c].fp
    BY <1>0, <1>3 DEF Calls
  <2>2. call' = [call EXCEPT ![c] = y]
    BY <1>5
  <2> HIDE DEF y
  <2> QED BY <1>2, <1>3, <2>1, <2>2, ClaimRecord
<1> QED BY <1>4, <1>5 DEF Take

\* What the three claims rest on: nobody executes, and no effect is within its TTL
\* unless the claim is, or follows, a stale reclaim.
LEMMA ClaimsMeetNobody ==
    ASSUME RecordInv, NEW c \in Callers,
           CreateProcessing(c) \/ ReclaimExpired(c)
             \/ (ReclaimFailed(c) /\ row.status = "failed_retryable")
    PROVE  /\ \A d \in Callers : call[d].pc \notin Executing
           /\ stale' \/ \A e \in effects : ~(e.until > now)
<1>0. TypeInv /\ Owned /\ Recorded
  BY DEF RecordInv, ExecInv
<1>1. CASE CreateProcessing(c)
  <2>1. row.status = "none"
    BY <1>0, <1>1 DEF CreateProcessing, Exists, TypeInv, TypeOK, Rows, NoRow
  <2> QED BY <1>0, <1>1, <2>1 DEF Owned, Recorded, CreateProcessing
<1>2. CASE ReclaimExpired(c)
  <2>1. stale' = (stale \/ row.expiresAt > now)
    BY <1>2 DEF ReclaimExpired
  <2>2. ASSUME ~stale', NEW e \in effects, e.until > now PROVE FALSE
    <3>1. ~stale /\ ~(row.expiresAt > now)
      BY <2>1, <2>2
    <3>2. e.until <= row.expiresAt
      BY <1>0, <2>2, <3>1 DEF Recorded
    <3> QED BY <1>0, <2>2, <3>1, <3>2, CallFacts
  <2> QED BY <1>2, <2>2, ReclaimMeetsNobody DEF RecordInv
<1>3. CASE ReclaimFailed(c) /\ row.status = "failed_retryable"
  BY <1>0, <1>3 DEF Owned, Recorded, ReclaimFailed
<1> QED BY <1>1, <1>2, <1>3

\* The claims of Execute.
LEMMA ClaimStep ==
    ASSUME RecordInv, NEW c \in Callers,
           CreateProcessing(c) \/ ReclaimExpired(c) \/ ReclaimFailed(c)
    PROVE  RecordRest'
<1>0. call \in [Callers -> Calls] /\ call[c] \in Calls
  BY DEF RecordInv, ExecInv, TypeInv, TypeOK
<1>1. CASE CreateProcessing(c)
  <2>1. /\ row'.status = "processing" /\ row'.fp = call[c].fp /\ row'.id = lastId + 1
        /\ lastId' = lastId + 1 /\ UNCHANGED <<now, effects, stale>>
    BY <1>1 DEF CreateProcessing, Processing
  <2>2. CASE Return(c)
    BY <1>1, <2>1, <2>2, ClaimsMeetNobody, ClaimRecord DEF Return
  <2>3. CASE call' = [call EXCEPT ![c] = [@ EXCEPT !.pc = "run", !.id = lastId + 1]]
    <3> DEFINE y == [call[c] EXCEPT !.pc = "run", !.id = lastId + 1]
    <3>1. y.pc = "run" /\ y.id = row'.id /\ y.fp = call[c].fp
      BY <1>0, <2>1 DEF Calls
    <3>2. call' = [call EXCEPT ![c] = y]
      BY <2>3
    <3> HIDE DEF y
    <3> QED BY <1>1, <2>1, <3>1, <3>2, ClaimsMeetNobody, ClaimRecord
  <2> QED BY <1>1, <2>2, <2>3 DEF CreateProcessing
<1>2. CASE ReclaimExpired(c)
  <2>1. /\ call[c].pc = "reclaimExpired" /\ row.id = call[c].existing.id /\ Take(c)
        /\ UNCHANGED <<now, lastId, effects>>
    BY <1>2 DEF ReclaimExpired, Reclaimable
  <2> QED BY <1>2, <2>1, ClaimsMeetNobody, TakeRecord
<1>3. CASE ReclaimFailed(c)
  <2>1. CASE Take(c) /\ Reclaimable(row, call[c].existing.id, "failed_retryable", call[c].at)
    <3>1. /\ call[c].pc = "reclaimFailed" /\ row.id = call[c].existing.id
          /\ row.status = "failed_retryable" /\ UNCHANGED <<now, lastId, effects, stale>>
      BY <1>3, <2>1 DEF ReclaimFailed, Reclaimable
    <3> QED BY <1>3, <2>1, <3>1, ClaimsMeetNobody, TakeRecord
  <2>2. CASE Return(c) /\ UNCHANGED row
    BY <1>3, <2>2, ReturnRecord DEF ReclaimFailed
  <2> QED BY <1>3, <2>1, <2>2 DEF ReclaimFailed
<1> QED BY <1>1, <1>2, <1>3

\* Every step keeps the invariant of the record.
LEMMA RecordStep == RecordInv /\ [Next]_vars => RecordInv'
<1> SUFFICES ASSUME RecordInv, [Next]_vars PROVE RecordInv'
  OBVIOUS
<1>0. ExecInv' /\ ExecInv /\ TypeInv
  BY ExecStep DEF RecordInv, ExecInv
<1>1. ASSUME NEW c \in Callers, MarkSucceeded(c) \/ MarkFailedRetryable(c) PROVE RecordRest'
  <2>1. /\ Return(c) /\ call[c].pc \in Executing /\ UNCHANGED <<now, lastId, effects, stale>>
    BY <1>1 DEF MarkSucceeded, MarkFailedRetryable, Executing
  <2>2. row \in Rows
    <3>1. call[c].id # 0 /\ row.id = call[c].id
      BY <1>0, <2>1, CallFacts DEF ProperCalls, RecordInv, OwnRecord
    <3> QED BY <1>0, <3>1, CallFacts DEF Exists
  <2>3. CASE MarkSucceeded(c)
    <3>1. row' = row \/ row' = Succeeded(row, call[c].id, ExpiresAt(c))
      BY <2>3 DEF MarkSucceeded
    <3>2. /\ row'.id = row.id /\ row'.fp = row.fp
          /\ \/ row' = row
             \/ /\ row'.status = "succeeded" /\ row'.lockedUntil = Null
                /\ row'.expiresAt = ExpiresAt(c) /\ call[c].pc = "ok"
      BY <2>2, <2>3, <3>1 DEF MarkSucceeded, Succeeded, Rows
    <3> QED BY <2>1, <3>2, MarkRecord
  <2>4. CASE MarkFailedRetryable(c)
    <3>1. row' = row \/ row' = FailedRetryable(row, call[c].id, now + Backoff, ExpiresAt(c))
      BY <2>4 DEF MarkFailedRetryable
    <3>2. /\ row'.id = row.id /\ row'.fp = row.fp
          /\ \/ row' = row
             \/ row'.status = "failed_retryable" /\ call[c].pc = "failed"
      BY <2>2, <2>4, <3>1 DEF MarkFailedRetryable, FailedRetryable, Rows
    <3> QED BY <2>1, <3>2, MarkRecord
  <2> QED BY <1>1, <2>3, <2>4
<1>2. ASSUME NEW c \in Callers, Step(c) PROVE RecordRest'
  BY <1>1, <1>2, SearchRecord, ClaimStep, ExecuteRecord DEF Step
<1>3. ASSUME DeleteExpired PROVE RecordRest'
  <2>1. row' = NoRow /\ UNCHANGED <<now, lastId, call, effects, stale>> /\ row.expiresAt <= now
    BY <1>3 DEF DeleteExpired, Expired
  <2>2. \A d \in Callers : call[d].pc \notin Executing
    BY <1>0, <2>1, TimeAssumption, CallFacts DEF ExecInv, Owned, Timely, ExpiresAt
  <2>3. ~stale => \A e \in effects : ~(e.until > now)
    BY <1>0, <2>1, CallFacts DEF RecordInv, Recorded
  <2>4. \A d \in Callers : call[d].pc \in {"reclaimExpired", "reclaimFailed"} => call[d].existing.id # 0
    BY <1>0, CallFacts DEF ProperCalls, Rows
  <2>5. OwnPayload'
    BY <2>1, <2>4 DEF RecordInv, OwnPayload, NoRow
  <2>6. Recorded'
    BY <2>1, <2>3 DEF Recorded
  <2> QED BY <2>1, <2>2, <2>5, <2>6
          DEF RecordInv, RecordRest, Answered, OwnRecord, Fresh, ReplayOfOwnPayload, NoRow, Executing
<1>4. ASSUME Tick PROVE RecordRest'
  <2>1. now' = now + 1 /\ UNCHANGED <<row, lastId, call, effects, stale>>
    BY <1>4 DEF Tick
  <2>2. Recorded'
    BY <1>0, <2>1, CallFacts DEF RecordInv, Recorded
  <2> QED BY <2>1, <2>2
          DEF RecordInv, RecordRest, Answered, OwnRecord, OwnPayload, Fresh, ReplayOfOwnPayload, ExpiresAt
<1>5. ASSUME UNCHANGED vars PROVE RecordRest'
  BY <1>5 DEF vars, RecordInv, RecordRest, Answered, OwnRecord, OwnPayload, Fresh, Recorded,
              ReplayOfOwnPayload, ExpiresAt
<1>6. RecordRest'
  BY <1>2, <1>3, <1>4, <1>5 DEF Next
<1> QED BY <1>0, <1>6 DEF RecordInv, RecordRest

\* The invariant of the record holds throughout.
THEOREM RecordInvariant == Spec => []RecordInv
<1>1. Init => RecordInv
  <2> SUFFICES ASSUME Init PROVE RecordInv
    OBVIOUS
  <2>1. Answered /\ OwnRecord /\ OwnPayload /\ Fresh /\ Recorded /\ ReplayOfOwnPayload
    BY DEF Init, NoRow, NoCall, Executing, Answered, OwnRecord, OwnPayload, Fresh, Recorded,
           ReplayOfOwnPayload
  <2> QED BY <2>1, ExecInit DEF RecordInv
<1> QED BY <1>1, RecordStep, PTL DEF Spec

\* A replayed answer is that of an unexpired success of the same payload (the
\* succeeded case of Execute), whatever races, crashes and the cleanup do.
THEOREM ReplaysOwnPayload == Spec => []ReplayOfOwnPayload
<1>1. RecordInv => ReplayOfOwnPayload
  BY DEF RecordInv
<1> QED BY <1>1, RecordInvariant, PTL

\* The operation starts within the TTL of an earlier success only after a record
\* was reclaimed as expired that was not (TryReclaim ignores expires_at).
THEOREM OncePerKey == Spec => OnceUnlessStaleReclaim
<1>1. RecordInv /\ [Next]_vars => [Claims /\ Done => stale']_vars
  <2> SUFFICES ASSUME RecordInv, Next, Claims, Done PROVE stale'
    OBVIOUS
  <2>1. PICK d \in Callers : call[d].pc # "run" /\ call'[d].pc = "run"
    BY DEF Claims
  <2>2. PICK c \in Callers : Step(c)
    BY <2>1 DEF Next, DeleteExpired, Tick
  <2>3. call \in [Callers -> Calls]
    BY DEF RecordInv, ExecInv, TypeInv, TypeOK
  <2>4. CASE CreateProcessing(c) \/ ReclaimExpired(c)
    BY <2>4, ClaimsMeetNobody DEF Done
  <2>5. CASE ReclaimFailed(c) /\ row.status = "failed_retryable"
    BY <2>5, ClaimsMeetNobody DEF Done
  <2>6. CASE ReclaimFailed(c) /\ row.status # "failed_retryable"
    BY <2>1, <2>3, <2>6 DEF ReclaimFailed, Reclaimable, Return, NoCall
  <2>7. CASE Begin(c)
    BY <2>1, <2>3, <2>7 DEF Begin, NoCall
  <2>8. CASE CreateConflict(c) \/ ReclaimExpiredLost(c) \/ Execute(c)
    BY <2>1, <2>3, <2>8 DEF CreateConflict, ReclaimExpiredLost, Execute, Goto, Calls
  <2>9. CASE Get(c) \/ GetLatest(c)
    <3>1. \/ call' = [call EXCEPT ![c] = NoCall]
          \/ call' = [call EXCEPT ![c] = [@ EXCEPT !.pc = "reclaimExpired", !.existing = row]]
          \/ call' = [call EXCEPT ![c] = [@ EXCEPT !.pc = "reclaimFailed", !.existing = row]]
          \/ call' = [call EXCEPT ![c].pc = "replay"]
      BY <2>9 DEF Get, GetLatest, ByStatus, Goto, Return
    <3>2. \A w \in {"reclaimExpired", "reclaimFailed"} : [call[c] EXCEPT !.pc = w, !.existing = row].pc = w
      BY <2>3 DEF Calls
    <3>3. [call[c] EXCEPT !.pc = "replay"].pc = "replay" /\ NoCall.pc = "idle"
      BY <2>3 DEF Calls, NoCall
    <3>4. PICK y : call' = [call EXCEPT ![c] = y] /\ y.pc # "run"
      BY <3>1, <3>2, <3>3
    <3> QED BY <2>1, <2>3, <3>4
  <2>10. CASE StoreFails(c) \/ MarkSucceeded(c) \/ MarkFailedRetryable(c) \/ Replay(c) \/ Crash(c)
    BY <2>1, <2>3, <2>10 DEF StoreFails, MarkSucceeded, MarkFailedRetryable, Replay, Crash,
                             Return, NoCall
  <2> QED BY <2>2, <2>4, <2>5, <2>6, <2>7, <2>8, <2>9, <2>10 DEF Step
<1> QED BY <1>1, RecordInvariant, PTL DEF Spec, OnceUnlessStaleReclaim
=============================================================================
