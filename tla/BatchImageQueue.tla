-------------------------- MODULE BatchImageQueue --------------------------
(***************************************************************************)
(* The Redis queue of batch image jobs, as one job sees it: its entries in *)
(* the ready list, its membership of the delayed and of the active set,    *)
(* and its inflight key.  Each operator is one script or transaction.      *)
(***************************************************************************)
EXTENDS Integers

Queues == [ready : Nat, delayed : BOOLEAN, active : BOOLEAN, inflight : BOOLEAN]

EmptyQueue == [ready |-> 0, delayed |-> FALSE, active |-> FALSE, inflight |-> FALSE]

\* Some structure of the queue still holds the job.
Queued(q) == q.ready > 0 \/ q.delayed \/ q.active

\* batchImageEnqueueScript: ErrBatchImageAlreadyQueued when inflight is set.
Enqueued(q) ==
    IF q.inflight THEN q ELSE [q EXCEPT !.inflight = TRUE, !.ready = @ + 1]

\* batchImageReserveScript.
Reserved(q) == [q EXCEPT !.ready = @ - 1, !.active = TRUE]

\* Mutant: RequeueAfter forgets the delayed set.
RequeuedNowhere(q) == [q EXCEPT !.active = FALSE, !.delayed = FALSE]

\* RequeueAfter: every delay of the worker is positive.
Requeued(q) == [q EXCEPT !.active = FALSE, !.delayed = TRUE]

\* Ack.
Acked(q) == [q EXCEPT !.active = FALSE, !.delayed = FALSE, !.inflight = FALSE]

\* batchImageMoveDueDelayedScript.
DelayedMoved(q) == [q EXCEPT !.delayed = FALSE, !.ready = @ + 1]

\* Mutant: the stale entry is removed and not pushed.
ActiveDropped(q) == [q EXCEPT !.active = FALSE]

\* batchImageRecoverStaleActiveScript.
ActiveRecovered(q) == [q EXCEPT !.active = FALSE, !.ready = @ + 1]
=============================================================================
