-------------------------- MODULE BatchImageProofs --------------------------
(***************************************************************************)
(* A batch image job is settled one way, its upstream job does not run on  *)
(* unseen, its hold is pursued, and its statements implement the ledger of *)
(* holds: for any number of workers, faults, retries and any amounts.      *)
(*                                                                         *)
(* The argument, in layers.  A status beyond submission means that Submit  *)
(* named the provider's job, and what a worker knows of that job's outcome *)
(* stays true (Flow).  Settlement is entered from the status settling,     *)
(* which is left only by completing, by a worker that strayed, or once the *)
(* retries are used up (Settlement); money is given back only for a job    *)
(* that is failed or cancelled for good, was never submitted, or is in     *)
(* doubt (Refunds).  A worker acknowledges a job only when nothing is left *)
(* to give back, and until then the queue holds the job (Pursuit).         *)
(***************************************************************************)
EXTENDS BatchImage, TLAPS

Settled == {"settling", "completed", "output_deleted"}
BeforeProvider == {"start", "reserve", "upload", "submit"}
SettlePath == {"settle", "capture", "record", "mark", "xrelease", "xfail"}
KnowsSuccess == {"indexing", "index", "indexfail", "settling", "recheck"} \cup SettlePath
KnowsName == {"poll", "running", "failing", "cancelling"} \cup KnowsSuccess

\* Submit before it has an answer of the provider, and the name it gives the job.
Submission ==
    /\ sub = "start" => job.status = "none" /\ ~job.named /\ job.retry = 0
    /\ sub \in BeforeProvider => upstream = "none"
    /\ sub = "enqueue" => job.named
    /\ job.named => sub \in {"enqueue", "abort", "done", "dead"}
    /\ upstream = "live" => sub \in {"persist", "abort"} \/ orphan \/ job.named

\* What the job's status says of the provider's job.
Outcomed ==
    /\ job.status = "failed" /\ job.named => upstream \in {"failed", "succeeded"}
    /\ job.status \in Settled \cup {"indexing"} => job.named /\ upstream = "succeeded"

Flow == Submission /\ Outcomed

\* There is nothing left to give back through the settlement of the job.
SettlementOver ==
    \/ job.status \in Settled
    \/ strayed
    \/ job.retry = MaxRetries /\ ("release" \in wallet.claims \/ private)

Settlement ==
    /\ Charged => SettlementOver
    /\ job.status \in {"completed", "output_deleted"} => Charged

\* Whoever releases the hold does it for a job that is over, and that is whom
\* money was given back for.
Refunds ==
    /\ client = "release" \/ rec = "release" => job.status \in Refunding
    /\ wallet.given => \/ job.status \in Refunding
                       \/ Doubtful
                       \/ ~job.named /\ sub \notin BeforeProvider \cup {"persist"}

\* What the claims tell.
Claimed ==
    /\ private => wallet.claims \subseteq {"capture"} /\ sub # "reserve"
    /\ wallet.given => {"hold", "release"} \subseteq wallet.claims
    /\ ~private /\ (Charged \/ job.named \/ sub \in {"upload", "submit", "persist"})
         => "hold" \in wallet.claims
    /\ sub \in {"start", "reserve"} => "hold" \notin wallet.claims
    /\ ~Charged => wallet.used = 0
    /\ wallet.used <= 1

\* Nothing is left to give back, or settlement sees to it.
NothingToRelease == "release" \in wallet.claims \/ private \/ Charged \/ SettlementOver

Pursuit ==
    /\ sub = "fail" => "hold" \notin wallet.claims \/ "release" \in wallet.claims \/ private \/ abandoned
    /\ HoldPursued

\* What a worker knows, by where it stands.
Knows(x) ==
    /\ worker[x] \in KnowsName => job.named
    /\ worker[x] = "failing" => upstream = "failed"
    /\ worker[x] = "cancelling" => upstream = "cancelled"
    /\ worker[x] \in KnowsSuccess => upstream = "succeeded"
    /\ worker[x] \in SettlePath \cup {"recheck"} => SettlementOver
    /\ worker[x] = "mark" => Charged
    /\ worker[x] \in {"xrelease", "xfail"} => job.retry = MaxRetries
    /\ worker[x] = "xfail" => "release" \in wallet.claims \/ private
    /\ worker[x] = "release" => job.status \in Refunding
    /\ worker[x] = "ack" => NothingToRelease
    /\ worker[x] # "idle" => Queued(queue) \/ NothingToRelease

RowInv == Flow /\ Settlement /\ Refunds /\ Claimed /\ Pursuit

JobInv == TypeOK /\ InFlightIsQueued /\ RowInv /\ \A x \in Workers : Knows(x)

-----------------------------------------------------------------------------
(* The statements, by their effects on the fields that the invariant reads. *)

\* The job keeps its status, its provider job and its retries.
JobKept ==
    job' \in Jobs /\ job'.status = job.status /\ job'.named = job.named /\ job'.retry = job.retry

\* The status becomes to, and nothing else that matters changes.
JobBecomes(to) ==
    job' \in Jobs /\ job'.status = to /\ job'.named = job.named /\ job'.retry = job.retry

\* One more settlement failure is recorded.
JobRetried ==
    /\ job' \in Jobs /\ job'.status = job.status /\ job'.named = job.named
    /\ job.retry + 1 >= MaxRetries => job'.retry = MaxRetries

\* What the types say of the job's fields.
LEMMA JobFacts ==
    ASSUME TypeOK
    PROVE  /\ job \in Jobs /\ job.status \in Statuses /\ job.named \in BOOLEAN
           /\ job.retry \in Nat /\ job.retry <= MaxRetries /\ MaxRetries \in Nat \ {0}
BY BoundsAssumption DEF TypeOK, Jobs

\* The job as UPDATEs of one row leave it.
LEMMA JobUpdates ==
    ASSUME TypeOK
    PROVE  /\ job' = job => JobKept
           /\ job' = QueueFailed(job) => JobKept
           /\ job' = UserDeleted(job) => JobKept
           /\ job' \in {[job EXCEPT !.stale = TRUE], [job EXCEPT !.stale = FALSE]} => JobKept
           /\ job' \in {SubmitFailed(job), UserDeleted(SubmitFailed(job))} => JobBecomes("failed")
           /\ job' = SettlementFailed(job) => JobRetried
<1>0. job \in Jobs /\ job.retry \in 0..MaxRetries /\ MaxRetries \in Nat \ {0}
  BY BoundsAssumption DEF TypeOK, Jobs
<1>1. job' = job => JobKept
  BY <1>0 DEF JobKept
<1>2. job' = QueueFailed(job) => JobKept
  BY <1>0 DEF JobKept, QueueFailed, Jobs
<1>3. job' = UserDeleted(job) => JobKept
  BY <1>0 DEF JobKept, UserDeleted, Jobs
<1>4. job' \in {[job EXCEPT !.stale = TRUE], [job EXCEPT !.stale = FALSE]} => JobKept
  BY <1>0 DEF JobKept, Jobs
<1>5. job' = SubmitFailed(job) => JobBecomes("failed")
  BY <1>0 DEF JobBecomes, SubmitFailed, WithStatus, Jobs, Statuses, Terminal, Refunding
<1>6. job' = UserDeleted(SubmitFailed(job)) => JobBecomes("failed")
  BY <1>0 DEF JobBecomes, UserDeleted, SubmitFailed, WithStatus, Jobs, Statuses, Terminal, Refunding
<1>7. job' = SettlementFailed(job) => JobRetried
  <2> SUFFICES ASSUME job' = SettlementFailed(job) PROVE JobRetried
    OBVIOUS
  <2>1. (IF job.retry < MaxRetries THEN job.retry + 1 ELSE job.retry) \in 0..MaxRetries
    BY <1>0
  <2>2. job' \in Jobs /\ job'.status = job.status /\ job'.named = job.named
        /\ job'.retry = IF job.retry < MaxRetries THEN job.retry + 1 ELSE job.retry
    BY <1>0, <2>1 DEF SettlementFailed, Jobs
  <2> QED BY <1>0, <2>2 DEF JobRetried
<1> QED BY <1>1, <1>2, <1>3, <1>4, <1>5, <1>6, <1>7

\* A row given another status.
LEMMA StatusUpdate ==
    ASSUME TypeOK, NEW to \in Statuses, job' = WithStatus(job, to)
    PROVE  JobBecomes(to)
BY DEF TypeOK, JobBecomes, WithStatus, Jobs

\* TransitionBatchImageJobStatus.
LEMMA TransitionEffect ==
    ASSUME TypeOK, NEW to \in Statuses, NEW o \in Outcomes, Transition(to, o)
    PROVE  /\ JobKept \/ (JobBecomes(to) /\ CanTransition(job.status, to) /\ o # "err")
           /\ Transitioned(to, o) => JobBecomes(to)
           /\ Outcome(o)
<1>1. job' = job \/ (job' = WithStatus(job, to) /\ CanTransition(job.status, to) /\ o # "err")
  BY DEF Transition
<1>2. Transitioned(to, o) => job' = WithStatus(job, to)
  BY DEF Transition, Transitioned
<1> QED BY <1>1, <1>2, JobUpdates, StatusUpdate DEF Transition

\* The hold is given back: the claim is new, the hold was reserved and is frozen.
GivenBack ==
    /\ ~private /\ "release" \notin wallet.claims /\ "hold" \in wallet.claims
    /\ wallet.frozen >= Hold
    /\ wallet'.claims = wallet.claims \cup {"release"} /\ wallet'.given = TRUE
    /\ wallet'.balance = wallet.balance + Hold /\ wallet'.frozen = wallet.frozen - Hold

\* releaseBatchImageBalanceHold gives the hold back, or moves no money.
LEMMA ReleaseEffect ==
    ASSUME TypeOK, NEW o \in Outcomes, ReleaseHold(o)
    PROVE  /\ wallet' \in Wallets /\ wallet'.used = wallet.used /\ Outcome(o)
           /\ private => wallet' = wallet
           /\ wallet'.claims = wallet.claims \/ wallet'.claims = wallet.claims \cup {"release"}
           /\ Released(o) => private \/ "release" \in wallet'.claims
           /\ \/ GivenBack
              \/ /\ wallet'.given = wallet.given
                 /\ wallet'.balance = wallet.balance /\ wallet'.frozen = wallet.frozen
<1> USE AmountsAssumption
<1>0. wallet \in Wallets
  BY DEF TypeOK
<1>1. CASE wallet' = wallet /\ ~(~private /\ o # "err" /\ ReleaseOK(wallet))
  BY <1>0, <1>1 DEF ReleaseHold, Released, Outcomes
<1>2. CASE wallet' = Release(wallet) /\ ~private /\ ReleaseOK(wallet)
  <2>1. CASE "release" \in wallet.claims
    BY <1>0, <1>2, <2>1 DEF ReleaseHold, Release, Unclaimed
  <2>2. CASE "release" \notin wallet.claims /\ "hold" \notin wallet.claims
    BY <1>0, <1>2, <2>2 DEF ReleaseHold, Release, Unclaimed, Claim, Wallets, RequestIDs
  <2>3. CASE "release" \notin wallet.claims /\ "hold" \in wallet.claims
    <3> DEFINE c == Claim(wallet, "release")
               b == wallet.balance + Hold
               f == wallet.frozen - Hold
    <3>1. wallet.frozen >= Hold
      BY <1>2, <2>3 DEF ReleaseOK, Unclaimed
    <3>2. /\ c \in Wallets /\ c.claims = wallet.claims \cup {"release"} /\ c.used = wallet.used
          /\ c.balance = wallet.balance /\ c.frozen = wallet.frozen
      BY <1>0 DEF Claim, Wallets, RequestIDs
    <3>3. wallet' = [c EXCEPT !.balance = @ + Hold, !.frozen = @ - Hold, !.given = TRUE]
      BY <1>2, <2>3 DEF Release, Unclaimed
    <3>4. b \in Int /\ f \in Int
      BY <1>0 DEF Wallets
    <3> HIDE DEF c
    <3>5. wallet' = [c EXCEPT !.balance = b, !.frozen = f, !.given = TRUE]
      BY <3>2, <3>3
    <3>6. b = wallet.balance + Hold /\ f = wallet.frozen - Hold
      OBVIOUS
    <3> HIDE DEF b, f
    <3>7. /\ wallet' \in Wallets /\ wallet'.used = c.used
          /\ wallet'.claims = c.claims /\ wallet'.given = TRUE
          /\ wallet'.balance = b /\ wallet'.frozen = f
      BY <3>2, <3>4, <3>5 DEF Wallets
    <3> QED BY <1>2, <2>3, <3>1, <3>2, <3>6, <3>7 DEF GivenBack, ReleaseHold
  <2> QED BY <2>1, <2>2, <2>3
<1> QED BY <1>1, <1>2 DEF ReleaseHold

\* ReserveBatchImageBalance freezes the hold.
LEMMA ReserveEffect ==
    ASSUME TypeOK, "hold" \notin wallet.claims, wallet' = Reserve(wallet)
    PROVE  /\ wallet' \in Wallets /\ wallet'.used = wallet.used /\ wallet'.given = wallet.given
           /\ wallet'.claims = wallet.claims \cup {"hold"}
           /\ wallet'.balance = wallet.balance - Hold /\ wallet'.frozen = wallet.frozen + Hold
<1> USE AmountsAssumption
<1> DEFINE c == Claim(wallet, "hold")
           b == wallet.balance - Hold
           f == wallet.frozen + Hold
<1>1. wallet' = [c EXCEPT !.balance = @ - Hold, !.frozen = @ + Hold]
  BY DEF Reserve, Unclaimed
<1>2. /\ c \in Wallets /\ c.claims = wallet.claims \cup {"hold"} /\ c.used = wallet.used
      /\ c.balance = wallet.balance /\ c.frozen = wallet.frozen /\ c.given = wallet.given
  BY DEF TypeOK, Claim, Wallets, RequestIDs
<1>3. b \in Int /\ f \in Int
  BY DEF TypeOK, Wallets
<1> HIDE DEF c
<1>4. wallet' = [c EXCEPT !.balance = b, !.frozen = f]
  BY <1>1, <1>2
<1>5. b = wallet.balance - Hold /\ f = wallet.frozen + Hold
  OBVIOUS
<1> HIDE DEF b, f
<1>6. /\ wallet' \in Wallets /\ wallet'.used = c.used /\ wallet'.given = c.given
      /\ wallet'.claims = c.claims /\ wallet'.balance = b /\ wallet'.frozen = f
  BY <1>2, <1>3, <1>4 DEF Wallets
<1> QED BY <1>2, <1>5, <1>6

\* CaptureBatchImageBalance charges the hold.
LEMMA CaptureEffect ==
    ASSUME TypeOK, ~Charged, wallet' = Capture(wallet)
    PROVE  /\ wallet' \in Wallets /\ wallet'.used = wallet.used /\ wallet'.given = wallet.given
           /\ wallet'.claims = wallet.claims \cup {"capture"}
           /\ wallet'.balance = wallet.balance + (Hold - Cost) /\ wallet'.frozen = wallet.frozen - Hold
<1> USE AmountsAssumption
<1> DEFINE c == Claim(wallet, "capture")
           b == wallet.balance + (Hold - Cost)
           f == wallet.frozen - Hold
<1>1. wallet' = [c EXCEPT !.balance = @ + (Hold - Cost), !.frozen = @ - Hold]
  BY DEF Capture, Unclaimed, Charged
<1>2. /\ c \in Wallets /\ c.claims = wallet.claims \cup {"capture"} /\ c.used = wallet.used
      /\ c.balance = wallet.balance /\ c.frozen = wallet.frozen /\ c.given = wallet.given
  BY DEF TypeOK, Claim, Wallets, RequestIDs
<1>3. b \in Int /\ f \in Int
  BY DEF TypeOK, Wallets
<1> HIDE DEF c
<1>4. wallet' = [c EXCEPT !.balance = b, !.frozen = f]
  BY <1>1, <1>2
<1>5. b = wallet.balance + (Hold - Cost) /\ f = wallet.frozen - Hold
  OBVIOUS
<1> HIDE DEF b, f
<1>6. /\ wallet' \in Wallets /\ wallet'.used = c.used /\ wallet'.given = c.given
      /\ wallet'.claims = c.claims /\ wallet'.balance = b /\ wallet'.frozen = f
  BY <1>2, <1>3, <1>4 DEF Wallets
<1> QED BY <1>2, <1>5, <1>6

\* Apply counts the usage of an operator's job.
LEMMA ApplyEffect ==
    ASSUME TypeOK, ~Charged, wallet' = Apply(wallet)
    PROVE  /\ wallet' \in Wallets /\ wallet'.used = wallet.used + 1 /\ wallet'.given = wallet.given
           /\ wallet'.claims = wallet.claims \cup {"capture"}
           /\ wallet'.balance = wallet.balance /\ wallet'.frozen = wallet.frozen
<1> DEFINE c == Claim(wallet, "capture")
<1>1. wallet' = [c EXCEPT !.used = @ + 1]
  BY DEF Apply, Unclaimed, Charged
<1>2. /\ c \in Wallets /\ c.claims = wallet.claims \cup {"capture"} /\ c.used = wallet.used
      /\ c.balance = wallet.balance /\ c.frozen = wallet.frozen /\ c.given = wallet.given
  BY DEF TypeOK, Claim, Wallets, RequestIDs
<1> HIDE DEF c
<1>3. /\ wallet' \in Wallets /\ wallet'.used = c.used + 1 /\ wallet'.given = c.given
      /\ wallet'.claims = c.claims
      /\ wallet'.balance = c.balance /\ wallet'.frozen = c.frozen
  BY <1>1, <1>2 DEF Wallets
<1> QED BY <1>2, <1>3

\* The queue keeps the job, and an inflight key without an entry is impossible.
StaysQueued ==
    queue' \in Queues /\ InFlightIsQueued' /\ (Queued(queue) => Queued(queue'))

\* Every script but Ack keeps the job in the queue.
LEMMA QueueScripts ==
    ASSUME TypeOK, InFlightIsQueued
    PROVE  /\ queue' = queue => StaysQueued
           /\ queue' = Enqueued(queue) => StaysQueued /\ Queued(queue')
           /\ queue.ready > 0 /\ queue' = Reserved(queue) => StaysQueued /\ Queued(queue')
           /\ queue' = Requeued(queue) => StaysQueued /\ Queued(queue')
           /\ queue' = DelayedMoved(queue) => StaysQueued /\ Queued(queue')
           /\ queue' = ActiveRecovered(queue) => StaysQueued /\ Queued(queue')
           /\ queue' = Acked(queue) => queue' \in Queues /\ InFlightIsQueued'
<1> DEFINE n == queue.ready + 1
<1>0. queue \in Queues /\ queue.ready \in Nat
  BY DEF TypeOK, Queues
<1>1. queue' = queue => StaysQueued
  BY <1>0 DEF StaysQueued, InFlightIsQueued
<1>2. ASSUME queue' = Enqueued(queue) PROVE StaysQueued /\ Queued(queue')
  <2>1. CASE queue.inflight
    BY <1>0, <1>2, <2>1 DEF StaysQueued, InFlightIsQueued, Enqueued
  <2>2. CASE ~queue.inflight
    <3>1. queue' = [queue EXCEPT !.inflight = TRUE, !.ready = n]
      BY <1>2, <2>2 DEF Enqueued
    <3>2. n \in Nat /\ n > 0
      BY <1>0
    <3> HIDE DEF n
    <3>3. queue' \in Queues /\ queue'.ready = n
      BY <1>0, <3>1, <3>2 DEF Queues
    <3> QED BY <3>2, <3>3 DEF StaysQueued, InFlightIsQueued, Queued
  <2> QED BY <2>1, <2>2
<1>3. ASSUME queue.ready > 0, queue' = Reserved(queue) PROVE StaysQueued /\ Queued(queue')
  <2>1. queue.ready - 1 \in Nat
    BY <1>0, <1>3
  <2>2. queue' \in Queues /\ queue'.active
    BY <1>0, <1>3, <2>1 DEF Reserved, Queues
  <2> QED BY <2>2 DEF StaysQueued, InFlightIsQueued, Queued
<1>4. ASSUME queue' = Requeued(queue) PROVE StaysQueued /\ Queued(queue')
  BY <1>0, <1>4 DEF StaysQueued, InFlightIsQueued, Queued, Requeued, Queues
<1>5. ASSUME queue' \in {DelayedMoved(queue), ActiveRecovered(queue)} PROVE StaysQueued /\ Queued(queue')
  <2>1. queue' \in {[queue EXCEPT !.delayed = FALSE, !.ready = n], [queue EXCEPT !.active = FALSE, !.ready = n]}
    BY <1>5 DEF DelayedMoved, ActiveRecovered
  <2>2. n \in Nat /\ n > 0
    BY <1>0
  <2> HIDE DEF n
  <2>3. queue' \in Queues /\ queue'.ready = n
    BY <1>0, <2>1, <2>2 DEF Queues
  <2> QED BY <2>2, <2>3 DEF StaysQueued, InFlightIsQueued, Queued
<1>6. ASSUME queue' = Acked(queue) PROVE queue' \in Queues /\ InFlightIsQueued'
  BY <1>0, <1>6 DEF InFlightIsQueued, Acked, Queues
<1> QED BY <1>1, <1>2, <1>3, <1>4, <1>5, <1>6

\* Enqueue puts the job into the queue, if it was not in it.
LEMMA EnqueueEffect ==
    ASSUME TypeOK, InFlightIsQueued, NEW o \in Outcomes, Enqueue(o)
    PROVE  StaysQueued /\ Outcome(o) /\ (o # "err" => Queued(queue'))
BY QueueScripts DEF Enqueue

\* A fault is counted, or there is none.
LEMMA FaultType ==
    ASSUME TypeOK
    PROVE  /\ Fault => faults' \in 0..MaxFaults
           /\ faults' = faults => faults' \in 0..MaxFaults
           /\ \A o : Outcome(o) => faults' \in 0..MaxFaults
BY BoundsAssumption DEF TypeOK, Fault, Outcome

-----------------------------------------------------------------------------
(* What every step keeps.                                                  *)

Advances ==
    /\ private' = private
    /\ job.named => job'.named
    /\ job.retry = MaxRetries => job'.retry = MaxRetries
    /\ job.status \in Refunding => job'.status \in Refunding
    /\ wallet.claims \subseteq wallet'.claims
    /\ upstream \in {"succeeded", "failed", "cancelled"} => upstream' = upstream
    /\ (strayed => strayed') /\ (abandoned => abandoned')
    /\ SettlementOver => SettlementOver'
    /\ Queued(queue) => Queued(queue') \/ NothingToRelease

\* What a worker knows stays true while others step.
LEMMA OthersKnow ==
    ASSUME JobInv, Advances, NEW x \in Workers, worker'[x] = worker[x]
    PROVE  Knows(x)'
<1>1. Knows(x)
  BY DEF JobInv
<1>2. NothingToRelease => NothingToRelease'
  BY DEF Advances, NothingToRelease, Charged
<1> QED
  BY <1>1, <1>2 DEF Knows, Advances, KnowsName, KnowsSuccess, SettlePath, Charged

\* A step that changes neither the status nor the name keeps all that it needs to.
LEMMA KeptAdvances ==
    ASSUME TypeOK, private' = private,
           JobKept \/ JobRetried,
           wallet.claims \subseteq wallet'.claims,
           upstream \in {"succeeded", "failed", "cancelled"} => upstream' = upstream,
           strayed => strayed', abandoned => abandoned',
           Queued(queue) => Queued(queue') \/ NothingToRelease
    PROVE  Advances
BY JobFacts DEF Advances, JobKept, JobRetried, SettlementOver

\* Submit once it is past the provider, or has given up.
Afterwards == {"enqueue", "release", "giveup", "failretry", "retry", "abort", "done", "dead"}

\* A step that leaves the submission and the provider alone.
LEMMA FlowStays ==
    ASSUME JobInv, JobKept \/ (JobRetried /\ job.named),
           UNCHANGED <<upstream, sub, orphan>>
    PROVE  Flow'
<1>1. Flow
  BY DEF JobInv, RowInv
<1> QED
  BY <1>1 DEF Flow, Submission, Outcomed, JobKept, JobRetried, BeforeProvider

\* A step that moves no money and changes no status.
LEMMA RowStays ==
    ASSUME JobInv, Advances, Flow', JobKept \/ JobRetried,
           wallet' = wallet,
           sub' = sub \/ sub' \in Afterwards,
           client' = "release" \/ rec' = "release" => job.status \in Refunding,
           Releasing => Releasing' \/ abandoned' \/ NothingToRelease
                          \/ ~(Outstanding(wallet) /\ job.status \in Refunding)
    PROVE  RowInv'
<1>1. TypeOK /\ Settlement /\ Refunds /\ Claimed /\ Pursuit
  BY DEF JobInv, RowInv
<1>2. job'.status = job.status /\ job'.named = job.named
  BY DEF JobKept, JobRetried
<1>3. Settlement'
  BY <1>1, <1>2 DEF Settlement, Charged, Advances
<1>4. Refunds'
  BY <1>1, <1>2 DEF Refunds, Advances, Doubtful, Afterwards, BeforeProvider
<1>5. Claimed'
  BY <1>1, <1>2 DEF Claimed, Charged, Advances, Afterwards
<1>6. Pursuit'
  BY <1>1, <1>2
  DEF Pursuit, HoldPursued, Outstanding, NothingToRelease, SettlementOver, Settled, Refunding,
      Charged, Advances, Afterwards, Claimed
<1> QED BY <1>3, <1>4, <1>5, <1>6 DEF RowInv

\* The same for a step that also leaves the submission and the provider alone.
LEMMA QuietStep ==
    ASSUME JobInv, JobKept \/ (JobRetried /\ job.named),
           UNCHANGED <<private, wallet, upstream, sub, orphan, strayed>>,
           abandoned => abandoned',
           Queued(queue) => Queued(queue') \/ NothingToRelease,
           client' = "release" \/ rec' = "release" => job.status \in Refunding,
           Releasing => Releasing' \/ abandoned' \/ NothingToRelease
                          \/ ~(Outstanding(wallet) /\ job.status \in Refunding)
    PROVE  Advances /\ RowInv'
<1>1. Advances
  BY KeptAdvances DEF JobInv
<1> QED BY <1>1, FlowStays, RowStays

-----------------------------------------------------------------------------
(* Submit.                                                                 *)

LEMMA CreateStep ==
    ASSUME JobInv, Create
    PROVE  Advances /\ JobInv'
<1> USE DEF Create, ghosts
<1>0. TypeOK /\ InFlightIsQueued /\ RowInv
  BY DEF JobInv
<1>1. NoJob \in Jobs /\ ~NoJob.named /\ NoJob.retry = 0
  BY BoundsAssumption DEF NoJob, Jobs, Statuses
<1>2. job' \in Jobs /\ job'.status = "created" /\ ~job'.named /\ job'.retry = 0
  BY <1>1 DEF WithStatus, Jobs, Statuses, Unsubmitted
<1>3. TypeOK' /\ InFlightIsQueued'
  BY <1>0, <1>2 DEF TypeOK, InFlightIsQueued, SubmitStates
<1>4. job.status = "none" /\ ~job.named /\ job.retry = 0
  BY <1>0 DEF RowInv, Flow, Submission
<1>5. Advances
  BY <1>0, <1>2, <1>4, BoundsAssumption DEF Advances, SettlementOver, Settled, Refunding
<1>6. RowInv'
  BY <1>0, <1>2, <1>4
  DEF RowInv, Flow, Submission, Outcomed, Settlement, Refunds, Claimed, Pursuit, HoldPursued,
      Releasing, Outstanding, Charged, Doubtful, SettlementOver, Settled, Refunding,
      BeforeProvider
<1> QED BY <1>3, <1>5, <1>6, OthersKnow DEF JobInv

LEMMA ReserveHoldStep ==
    ASSUME JobInv, ReserveHold
    PROVE  Advances /\ JobInv'
<1> USE DEF ReserveHold
<1>0. TypeOK /\ InFlightIsQueued /\ RowInv
  BY DEF JobInv
<1>1. "hold" \notin wallet.claims
  BY <1>0 DEF RowInv, Claimed
<1> PICK o \in Outcomes :
         /\ Outcome(o)
         /\ wallet' = IF o # "err" /\ ReserveOK(wallet) THEN Reserve(wallet) ELSE wallet
         /\ sub' = IF o = "ok" /\ ReserveOK(wallet) THEN "upload" ELSE "fail"
         /\ abandoned' = (abandoned \/ o = "lost")
  OBVIOUS
<1>2. IF o # "err" /\ ReserveOK(wallet)
        THEN /\ wallet' \in Wallets /\ wallet'.used = wallet.used /\ wallet'.given = wallet.given
             /\ wallet'.claims = wallet.claims \cup {"hold"}
        ELSE wallet' = wallet
  BY <1>0, <1>1, ReserveEffect
<1>3. JobKept
  BY <1>0, JobUpdates
<1>4. TypeOK' /\ InFlightIsQueued'
  BY <1>0, <1>2, FaultType DEF TypeOK, InFlightIsQueued, SubmitStates, JobKept
<1>5. Advances
  BY <1>0, <1>2, <1>3, KeptAdvances
<1> USE DEF RowInv
<1>6. Flow'
  BY <1>0, <1>2, <1>3 DEF Flow, Submission, Outcomed, BeforeProvider, JobKept
<1>7. Settlement'
  BY <1>0, <1>1, <1>2, <1>3, <1>5 DEF Settlement, Charged, Advances, JobKept
<1>8. Refunds'
  BY <1>0, <1>1, <1>2, <1>3, <1>5 DEF Refunds, Advances, JobKept, BeforeProvider, Doubtful
<1>9. Claimed'
  BY <1>0, <1>1, <1>2, <1>3, <1>5 DEF Claimed, Charged, Advances, JobKept, Outcomes
<1>10. Pursuit'
  BY <1>0, <1>1, <1>2, <1>3, <1>5 DEF Pursuit, HoldPursued, Releasing, Outstanding, Advances, JobKept, Outcomes
<1> QED BY <1>4, <1>5, <1>6, <1>7, <1>8, <1>9, <1>10, OthersKnow DEF JobInv

LEMMA StartUploadStep ==
    ASSUME JobInv, StartUpload
    PROVE  Advances /\ JobInv'
<1> USE DEF StartUpload, ghosts
<1>0. TypeOK /\ InFlightIsQueued /\ RowInv
  BY DEF JobInv
<1> PICK o \in Outcomes :
         /\ Transition("uploading", o)
         /\ sub' = IF Transitioned("uploading", o) THEN "submit"
                   ELSE IF o = "ok" THEN "giveup" ELSE "release"
  OBVIOUS
<1>1. /\ JobKept \/ (JobBecomes("uploading") /\ job.status = "created")
      /\ Transitioned("uploading", o) => JobBecomes("uploading")
      /\ Outcome(o)
  BY <1>0, TransitionEffect DEF CanTransition, Terminal, Refunding, Statuses, Unsubmitted
<1>2. TypeOK' /\ InFlightIsQueued'
  BY <1>0, <1>1, FaultType DEF TypeOK, InFlightIsQueued, SubmitStates, JobKept, JobBecomes
<1>3. Advances
  BY <1>0, <1>1, KeptAdvances DEF Advances, JobBecomes, SettlementOver, Settled, Refunding
<1> USE DEF RowInv
<1>4. Flow'
  BY <1>0, <1>1 DEF Flow, Submission, Outcomed, BeforeProvider, Settled, JobKept, JobBecomes
<1>5. Settlement' /\ Claimed'
  BY <1>0, <1>1, <1>3 DEF Settlement, Claimed, Charged, Advances, JobKept, JobBecomes
<1>6. Refunds'
  BY <1>0, <1>1, <1>3 DEF Refunds, Advances, JobKept, JobBecomes, BeforeProvider, Doubtful, Refunding
<1>7. Pursuit'
  BY <1>0, <1>1, <1>3
  DEF Pursuit, HoldPursued, Releasing, Outstanding, Refunding, JobKept, JobBecomes
<1> QED BY <1>2, <1>3, <1>4, <1>5, <1>6, <1>7, OthersKnow DEF JobInv

LEMMA SubmitHeartbeatStep ==
    ASSUME JobInv, SubmitHeartbeat
    PROVE  Advances /\ JobInv'
<1> USE DEF SubmitHeartbeat, ghosts
<1>0. TypeOK /\ InFlightIsQueued
  BY DEF JobInv
<1>1. JobKept
  BY <1>0, JobUpdates
<1>2. TypeOK' /\ InFlightIsQueued'
  BY <1>0, <1>1 DEF TypeOK, InFlightIsQueued, JobKept
<1>3. Advances /\ RowInv'
  BY <1>1, QuietStep DEF Releasing, JobInv, RowInv, Refunds
<1> QED BY <1>2, <1>3, OthersKnow DEF JobInv

LEMMA ProviderSubmitStep ==
    ASSUME JobInv, ProviderSubmit
    PROVE  Advances /\ JobInv'
<1> USE DEF ProviderSubmit
<1>0. TypeOK /\ InFlightIsQueued /\ RowInv
  BY DEF JobInv
<1>1. JobKept
  BY <1>0, JobUpdates
<1>2. TypeOK' /\ InFlightIsQueued'
  BY <1>0, <1>1, FaultType DEF TypeOK, InFlightIsQueued, SubmitStates, ProviderStates, JobKept
<1>3. upstream = "none" /\ ~job.named
  BY <1>0 DEF RowInv, Flow, Submission, BeforeProvider
<1>4. Advances
  BY <1>0, <1>1, <1>3, KeptAdvances
<1> USE DEF RowInv
<1>5. Flow'
  BY <1>0, <1>1, <1>3 DEF Flow, Submission, Outcomed, BeforeProvider, JobKept
<1>6. Settlement' /\ Claimed'
  BY <1>0, <1>1, <1>4 DEF Settlement, Claimed, Charged, Advances, JobKept
<1>7. Refunds'
  BY <1>0, <1>1, <1>4 DEF Refunds, Advances, JobKept, BeforeProvider, Doubtful
<1>8. Pursuit'
  BY <1>0, <1>1, <1>4 DEF Pursuit, HoldPursued, Releasing, Outstanding, JobKept
<1> QED BY <1>2, <1>4, <1>5, <1>6, <1>7, <1>8, OthersKnow DEF JobInv

LEMMA PersistSubmitStep ==
    ASSUME JobInv, PersistSubmit
    PROVE  Advances /\ JobInv'
<1> USE DEF PersistSubmit, ghosts
<1>0. TypeOK /\ InFlightIsQueued /\ RowInv
  BY DEF JobInv
<1> PICK o \in Outcomes :
         /\ Outcome(o)
         /\ job' = IF o # "err" /\ CanTransition(job.status, "submitted")
                     THEN [WithStatus(job, "submitted") EXCEPT !.named = TRUE] ELSE job
         /\ sub' = IF Transitioned("submitted", o) THEN "enqueue" ELSE "abort"
  OBVIOUS
<1>1. \/ JobKept /\ ~Transitioned("submitted", o)
      \/ /\ job' \in Jobs /\ job'.status = "submitted" /\ job'.named /\ job'.retry = job.retry
         /\ job.status \in Unsubmitted
  <2>1. CASE o # "err" /\ CanTransition(job.status, "submitted")
    <3> DEFINE j == WithStatus(job, "submitted")
    <3>1. j \in Jobs /\ j.status = "submitted" /\ j.retry = job.retry
      BY <1>0 DEF TypeOK, Jobs, WithStatus, Statuses
    <3> HIDE DEF j
    <3>2. job' = [j EXCEPT !.named = TRUE]
      BY <2>1 DEF j
    <3>3. job' \in Jobs /\ job'.status = "submitted" /\ job'.named /\ job'.retry = job.retry
      BY <3>1, <3>2 DEF Jobs
    <3> QED BY <2>1, <3>3 DEF CanTransition, Unsubmitted, Terminal, Refunding
  <2>2. CASE ~(o # "err" /\ CanTransition(job.status, "submitted"))
    BY <1>0, <2>2, JobUpdates DEF Transitioned
  <2> QED BY <2>1, <2>2
<1>2. TypeOK' /\ InFlightIsQueued'
  BY <1>0, <1>1, FaultType DEF TypeOK, InFlightIsQueued, SubmitStates, JobKept
<1>3. Advances
  BY <1>0, <1>1, KeptAdvances DEF Advances, SettlementOver, Settled, Refunding, Unsubmitted
<1> USE DEF RowInv
<1>4. Flow'
  BY <1>0, <1>1 DEF Flow, Submission, Outcomed, BeforeProvider, Settled, JobKept
<1>5. Settlement'
  BY <1>0, <1>1, <1>3 DEF Settlement, Charged, Advances, JobKept
<1>8. Claimed'
  BY <1>0, <1>3 DEF Claimed, Charged, Advances
<1>6. Refunds'
  BY <1>0, <1>1, <1>3 DEF Refunds, Advances, JobKept, BeforeProvider, Doubtful, Refunding, Unsubmitted
<1>7. Pursuit'
  BY <1>0, <1>1, <1>3 DEF Pursuit, HoldPursued, Releasing, Outstanding, Refunding, JobKept
<1> QED BY <1>2, <1>3, <1>4, <1>5, <1>6, <1>7, <1>8, OthersKnow DEF JobInv

LEMMA AbortOrphanStep ==
    ASSUME JobInv, AbortOrphan
    PROVE  Advances /\ JobInv'
<1> USE DEF AbortOrphan, ProviderCancelled
<1>0. TypeOK /\ InFlightIsQueued /\ RowInv
  BY DEF JobInv
<1>1. JobKept
  BY <1>0, JobUpdates
<1>2. TypeOK' /\ InFlightIsQueued'
  BY <1>0, <1>1, FaultType DEF TypeOK, InFlightIsQueued, SubmitStates, ProviderStates, JobKept
<1>3. Advances
  BY <1>0, <1>1, KeptAdvances
<1>4. Flow'
  <2>1. CASE upstream' = upstream /\ orphan' = TRUE
    BY <1>0, <1>1, <2>1 DEF RowInv, Flow, Submission, Outcomed, BeforeProvider, JobKept
  <2>2. CASE upstream = "live" /\ upstream' = "cancelled"
    BY <1>0, <1>1, <2>2 DEF RowInv, Flow, Submission, Outcomed, BeforeProvider, JobKept
  <2>3. CASE upstream # "live" /\ upstream' = upstream
    BY <1>0, <1>1, <2>3 DEF RowInv, Flow, Submission, Outcomed, BeforeProvider, JobKept
  <2> QED BY <2>1, <2>2, <2>3
<1>5. RowInv'
  BY <1>0, <1>1, <1>3, <1>4, RowStays DEF Releasing, RowInv, Refunds, Afterwards
<1> QED BY <1>2, <1>3, <1>5, OthersKnow DEF JobInv

LEMMA SubmitEnqueueStep ==
    ASSUME JobInv, SubmitEnqueue
    PROVE  Advances /\ JobInv'
<1> USE DEF SubmitEnqueue, ghosts
<1>0. TypeOK /\ InFlightIsQueued /\ RowInv
  BY DEF JobInv
<1>1. JobKept /\ StaysQueued /\ faults' \in 0..MaxFaults
  BY <1>0, JobUpdates, EnqueueEffect, FaultType
<1>2. TypeOK' /\ InFlightIsQueued'
  BY <1>0, <1>1 DEF TypeOK, StaysQueued, SubmitStates, JobKept
<1>3. Advances
  BY <1>0, <1>1, KeptAdvances DEF StaysQueued
<1>4. Flow'
  BY <1>0, <1>1 DEF RowInv, Flow, Submission, Outcomed, BeforeProvider, JobKept
<1>5. RowInv'
  BY <1>0, <1>1, <1>3, <1>4, RowStays DEF Releasing, RowInv, Refunds, Afterwards, StaysQueued
<1> QED BY <1>2, <1>3, <1>5, OthersKnow DEF JobInv

\* A release, of whomever: what it was for, and who goes on.
LEMMA RowReleases ==
    ASSUME JobInv, Advances, Flow', JobKept \/ JobRetried,
           wallet' \in Wallets, wallet'.used = wallet.used,
           private => wallet' = wallet,
           wallet'.claims = wallet.claims \/ wallet'.claims = wallet.claims \cup {"release"},
           GivenBack \/ wallet'.given = wallet.given,
           GivenBack => job.status \in Refunding \/ Doubtful \/ sub \in {"release", "giveup"},
           sub' = sub \/ sub' \in Afterwards \/ (sub' = "fail" /\ (private \/ "release" \in wallet'.claims)),
           client' = "release" \/ rec' = "release" => job.status \in Refunding,
           Releasing => Releasing' \/ private \/ "release" \in wallet'.claims
    PROVE  RowInv'
<1>1. TypeOK /\ Flow /\ Settlement /\ Refunds /\ Claimed /\ Pursuit
  BY DEF JobInv, RowInv
<1>2. job'.status = job.status /\ job'.named = job.named
  BY DEF JobKept, JobRetried
<1>3. Settlement'
  BY <1>1, <1>2 DEF Settlement, Charged, Advances
<1>4. sub \in {"release", "giveup"} => ~job.named
  BY <1>1 DEF Flow, Submission
<1>5. sub' \in BeforeProvider \cup {"persist"} => sub' = sub
  BY DEF BeforeProvider, Afterwards
<1>6. Refunds'
  BY <1>1, <1>2, <1>4, <1>5 DEF Refunds, Advances, Doubtful, BeforeProvider, GivenBack
<1>7. Claimed'
  BY <1>1, <1>2, <1>5 DEF Claimed, Charged, Advances, Afterwards, GivenBack
<1>8. Pursuit'
  BY <1>1, <1>2
  DEF Pursuit, HoldPursued, Outstanding, Advances, Afterwards, Claimed, GivenBack
<1> QED BY <1>3, <1>6, <1>7, <1>8 DEF RowInv

LEMMA SubmitReleaseStep ==
    ASSUME JobInv, SubmitRelease
    PROVE  Advances /\ JobInv'
<1> USE DEF SubmitRelease, ghosts
<1>0. TypeOK /\ InFlightIsQueued /\ RowInv
  BY DEF JobInv
<1> PICK o \in Outcomes :
         /\ ReleaseHold(o)
         /\ sub' = IF ~Released(o) THEN "failretry"
                   ELSE IF sub = "release" THEN "fail" ELSE "done"
  OBVIOUS
<1>1. JobKept /\ faults' \in 0..MaxFaults /\ wallet' \in Wallets /\ wallet.claims \subseteq wallet'.claims
  BY <1>0, JobUpdates, ReleaseEffect, FaultType
<1>2. TypeOK' /\ InFlightIsQueued'
  BY <1>0, <1>1 DEF TypeOK, InFlightIsQueued, SubmitStates, JobKept
<1>3. Advances
  BY <1>0, <1>1, KeptAdvances
<1>4. Flow'
  BY <1>0, <1>1 DEF RowInv, Flow, Submission, Outcomed, BeforeProvider, JobKept
<1>5. Released(o) => private \/ "release" \in wallet'.claims
  BY <1>0, ReleaseEffect
<1>6. sub' \in Afterwards \/ (sub' = "fail" /\ (private \/ "release" \in wallet'.claims))
  BY <1>5 DEF Afterwards
<1>7. Releasing' \/ private \/ "release" \in wallet'.claims
  BY <1>5 DEF Releasing
<1>8. client' = "release" \/ rec' = "release" => job.status \in Refunding
  BY <1>0 DEF RowInv, Refunds
<1>9. RowInv'
  BY <1>0, <1>1, <1>3, <1>4, <1>6, <1>7, <1>8, ReleaseEffect, RowReleases
<1> QED BY <1>2, <1>3, <1>9, OthersKnow DEF JobInv

LEMMA RecordSubmitFailureStep ==
    ASSUME JobInv, RecordSubmitFailure
    PROVE  Advances /\ JobInv'
<1> USE DEF RecordSubmitFailure, ghosts
<1>0. TypeOK /\ InFlightIsQueued /\ RowInv
  BY DEF JobInv
<1>1. JobKept \/ JobBecomes("failed")
  BY <1>0, JobUpdates
<1>2. TypeOK' /\ InFlightIsQueued'
  BY <1>0, <1>1, FaultType DEF TypeOK, InFlightIsQueued, SubmitStates, JobKept, JobBecomes
<1>3. ~job.named
  BY <1>0 DEF RowInv, Flow, Submission
<1>4. job.status \notin Settled
  BY <1>0, <1>3 DEF RowInv, Flow, Outcomed
<1>5. Advances
  BY <1>0, <1>1, <1>4, KeptAdvances DEF Advances, JobBecomes, SettlementOver, Refunding
<1> USE DEF RowInv
<1>6. Flow'
  BY <1>0, <1>1, <1>3 DEF Flow, Submission, Outcomed, BeforeProvider, Settled, JobKept, JobBecomes
<1>7. Settlement' /\ Claimed'
  BY <1>0, <1>1, <1>5 DEF Settlement, Claimed, Charged, Advances, JobKept, JobBecomes
<1>8. Refunds'
  BY <1>0, <1>1, <1>5 DEF Refunds, Advances, JobKept, JobBecomes, BeforeProvider, Doubtful, Refunding
<1>9. Pursuit'
  BY <1>0, <1>1, <1>5
  DEF Pursuit, HoldPursued, Releasing, Outstanding, Refunding, JobKept, JobBecomes, Claimed
<1> QED BY <1>2, <1>5, <1>6, <1>7, <1>8, <1>9, OthersKnow DEF JobInv

LEMMA SubmitRetryStep ==
    ASSUME JobInv, SubmitRetry
    PROVE  Advances /\ JobInv'
<1> USE DEF SubmitRetry
<1>0. TypeOK /\ InFlightIsQueued /\ RowInv
  BY DEF JobInv
<1>1. JobKept /\ StaysQueued /\ faults' \in 0..MaxFaults /\ (Queued(queue') \/ abandoned')
  BY <1>0, JobUpdates, EnqueueEffect, FaultType
<1>2. TypeOK' /\ InFlightIsQueued'
  BY <1>0, <1>1 DEF TypeOK, StaysQueued, SubmitStates, JobKept
<1>3. Advances
  BY <1>0, <1>1, KeptAdvances DEF StaysQueued
<1>4. Flow'
  BY <1>0, <1>1 DEF RowInv, Flow, Submission, Outcomed, BeforeProvider, JobKept
<1>5. RowInv'
  BY <1>0, <1>1, <1>3, <1>4, RowStays DEF Releasing, RowInv, Refunds, Afterwards
<1> QED BY <1>2, <1>3, <1>5, OthersKnow DEF JobInv

LEMMA SubmitDiesStep ==
    ASSUME JobInv, SubmitDies
    PROVE  Advances /\ JobInv'
<1> USE DEF SubmitDies
<1>0. TypeOK /\ InFlightIsQueued /\ RowInv
  BY DEF JobInv
<1>1. JobKept
  BY <1>0, JobUpdates
<1>2. TypeOK' /\ InFlightIsQueued'
  BY <1>0, <1>1, FaultType DEF TypeOK, InFlightIsQueued, SubmitStates, JobKept
<1>3. Advances
  BY <1>0, <1>1, KeptAdvances
<1>4. Flow'
  BY <1>0, <1>1 DEF RowInv, Flow, Submission, Outcomed, BeforeProvider, JobKept
<1>5. RowInv'
  BY <1>0, <1>1, <1>3, <1>4, RowStays DEF Releasing, RowInv, Refunds, Afterwards
<1> QED BY <1>2, <1>3, <1>5, OthersKnow DEF JobInv

-----------------------------------------------------------------------------
(* The client and billing recovery.                                        *)

LEMMA ClientReadsStep ==
    ASSUME JobInv, CancelReads \/ ResubmitReads
    PROVE  Advances /\ JobInv'
<1> USE DEF CancelReads, ResubmitReads, ghosts
<1>0. TypeOK /\ InFlightIsQueued /\ RowInv
  BY DEF JobInv
<1>1. JobKept
  BY <1>0, JobUpdates
<1>2. TypeOK' /\ InFlightIsQueued'
  BY <1>0, <1>1 DEF TypeOK, InFlightIsQueued, ClientStates, JobKept
<1>3. Advances /\ RowInv'
  BY <1>0, <1>1, QuietStep DEF Releasing, RowInv, Refunds
<1> QED BY <1>2, <1>3, OthersKnow DEF JobInv

LEMMA CancelProviderStep ==
    ASSUME JobInv, CancelProvider
    PROVE  Advances /\ JobInv'
<1> USE DEF CancelProvider, ProviderCancelled, ghosts
<1>0. TypeOK /\ InFlightIsQueued /\ RowInv
  BY DEF JobInv
<1>1. JobKept
  BY <1>0, JobUpdates
<1>2. TypeOK' /\ InFlightIsQueued'
  BY <1>0, <1>1, FaultType DEF TypeOK, InFlightIsQueued, ClientStates, ProviderStates, JobKept
<1>3. Advances
  BY <1>0, <1>1, KeptAdvances
<1>4. Flow'
  <2>1. CASE upstream = "live" /\ upstream' = "cancelled"
    BY <1>0, <1>1, <2>1 DEF RowInv, Flow, Submission, Outcomed, BeforeProvider, JobKept
  <2>2. CASE upstream' = upstream
    BY <1>1, <2>2, FlowStays
  <2> QED BY <2>1, <2>2
<1>5. RowInv'
  BY <1>0, <1>1, <1>3, <1>4, RowStays DEF Releasing, RowInv, Refunds
<1> QED BY <1>2, <1>3, <1>5, OthersKnow DEF JobInv

\* An unsubmitted or unsettled job is failed or cancelled in its row, for one
\* who is about to release its hold.
LEMMA RowEnds ==
    ASSUME JobInv, NEW to \in Refunding, JobBecomes(to),
           UNCHANGED <<private, wallet, queue, upstream, sub, orphan, strayed>>,
           job.status \notin Settled,
           to = "failed" => ~job.named,
           sub # "start",
           abandoned => abandoned',
           client' = "release" \/ rec' = "release" \/ abandoned'
    PROVE  Advances /\ RowInv'
<1>1. TypeOK /\ RowInv
  BY DEF JobInv
<1> USE DEF RowInv, JobBecomes
<1>2. Advances
  BY <1>1 DEF Advances, SettlementOver
<1>3. Flow'
  BY <1>1 DEF Flow, Submission, Outcomed, BeforeProvider, Settled, Refunding
<1>4. Settlement' /\ Claimed'
  BY <1>1, <1>2 DEF Settlement, Claimed, Charged, Advances, Refunding
<1>5. Refunds'
  BY <1>1 DEF Refunds
<1>6. Pursuit'
  BY <1>1 DEF Pursuit, HoldPursued, Releasing
<1> QED BY <1>2, <1>3, <1>4, <1>5, <1>6

LEMMA CancelTransitionStep ==
    ASSUME JobInv, CancelTransition
    PROVE  Advances /\ JobInv'
<1> USE DEF CancelTransition
<1>0. TypeOK /\ InFlightIsQueued /\ RowInv
  BY DEF JobInv
<1> PICK o \in Outcomes :
         /\ Transition("cancelled", o)
         /\ client' = IF Transitioned("cancelled", o) THEN "release" ELSE "idle"
         /\ abandoned' = (abandoned \/ o = "lost")
  OBVIOUS
<1>1. \/ JobKept /\ ~Transitioned("cancelled", o)
      \/ /\ JobBecomes("cancelled") /\ CanTransition(job.status, "cancelled")
         /\ Transitioned("cancelled", o) \/ o = "lost"
  <2>1. CASE o # "err" /\ CanTransition(job.status, "cancelled")
    BY <1>0, <2>1, StatusUpdate DEF Transition, Transitioned, Outcomes, Statuses, Terminal, Refunding
  <2>2. CASE ~(o # "err" /\ CanTransition(job.status, "cancelled"))
    BY <1>0, <2>2, JobUpdates DEF Transition, Transitioned
  <2> QED BY <2>1, <2>2
<1>2. TypeOK' /\ InFlightIsQueued'
  BY <1>0, <1>1, FaultType DEF TypeOK, InFlightIsQueued, ClientStates, JobKept, JobBecomes, Transition
<1>3. Advances /\ RowInv'
  <2>1. CASE JobKept /\ ~Transitioned("cancelled", o)
    BY <1>0, <2>1, QuietStep DEF Releasing, RowInv, Refunds
  <2>2. CASE /\ JobBecomes("cancelled") /\ CanTransition(job.status, "cancelled")
             /\ Transitioned("cancelled", o) \/ o = "lost"
    <3>1. job.status \notin Settled \cup {"none"}
      BY <2>2 DEF CanTransition, Terminal, Refunding, Settled
    <3>2. sub # "start"
      BY <1>0, <3>1 DEF RowInv, Flow, Submission
    <3>3. (client' = "release" \/ abandoned') /\ "cancelled" \in Refunding
      BY <2>2 DEF Refunding
    <3> QED BY <2>2, <3>1, <3>2, <3>3, RowEnds
  <2> QED BY <1>1, <2>1, <2>2
<1> QED BY <1>2, <1>3, OthersKnow DEF JobInv

LEMMA CancelReleaseStep ==
    ASSUME JobInv, CancelRelease
    PROVE  Advances /\ JobInv'
<1> USE DEF CancelRelease, ghosts
<1>0. TypeOK /\ InFlightIsQueued /\ RowInv
  BY DEF JobInv
<1> PICK o \in Outcomes :
         /\ ReleaseHold(o)
         /\ client' = IF Released(o) THEN "idle" ELSE "enqueue"
  OBVIOUS
<1>1. JobKept /\ faults' \in 0..MaxFaults /\ wallet' \in Wallets /\ wallet.claims \subseteq wallet'.claims
  BY <1>0, JobUpdates, ReleaseEffect, FaultType
<1>2. TypeOK' /\ InFlightIsQueued'
  BY <1>0, <1>1 DEF TypeOK, InFlightIsQueued, ClientStates, JobKept
<1>3. Advances
  BY <1>0, <1>1, KeptAdvances
<1>4. Releasing' \/ private \/ "release" \in wallet'.claims
  BY <1>0, ReleaseEffect DEF Releasing
<1>5. job.status \in Refunding
  BY <1>0 DEF RowInv, Refunds
<1>6. RowInv'
  BY <1>0, <1>1, <1>3, <1>4, <1>5, FlowStays, ReleaseEffect, RowReleases
<1> QED BY <1>2, <1>3, <1>6, OthersKnow DEF JobInv

LEMMA ClientEnqueueStep ==
    ASSUME JobInv, CancelEnqueue \/ ResubmitEnqueue
    PROVE  Advances /\ JobInv'
<1> USE DEF CancelEnqueue, ResubmitEnqueue, ghosts
<1>0. TypeOK /\ InFlightIsQueued /\ RowInv
  BY DEF JobInv
<1>1. JobKept /\ StaysQueued /\ faults' \in 0..MaxFaults /\ (abandoned => abandoned')
  <2>1. CASE CancelEnqueue
    BY <1>0, <2>1, JobUpdates, EnqueueEffect, FaultType
  <2>2. CASE ResubmitEnqueue
    BY <1>0, <2>2, JobUpdates, EnqueueEffect, FaultType
  <2> QED BY <2>1, <2>2
<1>2. abandoned' \in BOOLEAN
  BY <1>0 DEF TypeOK
<1>3. TypeOK' /\ InFlightIsQueued'
  BY <1>0, <1>1, <1>2 DEF TypeOK, StaysQueued, ClientStates, JobKept
<1>4. client = "enqueue" => Queued(queue') \/ abandoned'
  BY <1>0, EnqueueEffect
<1>5. Releasing => Releasing' \/ abandoned'
  BY <1>1, <1>4 DEF Releasing, StaysQueued
<1>6. Advances /\ RowInv'
  BY <1>0, <1>1, <1>5, QuietStep DEF StaysQueued, RowInv, Refunds
<1> QED BY <1>3, <1>6, OthersKnow DEF JobInv

LEMMA ClientDiesStep ==
    ASSUME JobInv, ClientDies
    PROVE  Advances /\ JobInv'
<1> USE DEF ClientDies
<1>0. TypeOK /\ InFlightIsQueued /\ RowInv
  BY DEF JobInv
<1>1. JobKept
  BY <1>0, JobUpdates
<1>2. TypeOK' /\ InFlightIsQueued'
  BY <1>0, <1>1, FaultType DEF TypeOK, InFlightIsQueued, ClientStates, JobKept
<1>3. Advances /\ RowInv'
  BY <1>0, <1>1, QuietStep DEF Releasing, RowInv, Refunds
<1> QED BY <1>2, <1>3, OthersKnow DEF JobInv

LEMMA DeleteRecordStep ==
    ASSUME JobInv, DeleteRecord
    PROVE  Advances /\ JobInv'
<1> USE DEF DeleteRecord, ghosts
<1>0. TypeOK /\ InFlightIsQueued /\ RowInv
  BY DEF JobInv
<1>1. JobKept
  BY <1>0, JobUpdates
<1>2. TypeOK' /\ InFlightIsQueued'
  BY <1>0, <1>1 DEF TypeOK, InFlightIsQueued, JobKept
<1>3. Advances /\ RowInv'
  BY <1>0, <1>1, QuietStep DEF Releasing, RowInv, Refunds
<1> QED BY <1>2, <1>3, OthersKnow DEF JobInv

LEMMA DeleteOutputsStep ==
    ASSUME JobInv, DeleteOutputs
    PROVE  Advances /\ JobInv'
<1> USE DEF DeleteOutputs, ghosts
<1>0. TypeOK /\ InFlightIsQueued /\ RowInv
  BY DEF JobInv
<1>1. JobBecomes("output_deleted")
  BY <1>0, StatusUpdate DEF Statuses, Terminal
<1>2. TypeOK' /\ InFlightIsQueued'
  BY <1>0, <1>1 DEF TypeOK, InFlightIsQueued, JobBecomes
<1>3. Advances
  BY <1>0, <1>1 DEF Advances, JobBecomes, SettlementOver, Settled, Refunding
<1> USE DEF RowInv, JobBecomes
<1>4. Flow'
  BY <1>0, <1>1 DEF Flow, Submission, Outcomed, BeforeProvider, Settled
<1>5. Settlement' /\ Claimed'
  BY <1>0, <1>1, <1>3 DEF Settlement, Claimed, Charged, Advances
<1>6. Refunds' /\ Pursuit'
  BY <1>0, <1>1 DEF Refunds, Pursuit, HoldPursued, Doubtful, Refunding
<1> QED BY <1>2, <1>3, <1>4, <1>5, <1>6, OthersKnow DEF JobInv

LEMMA RecoveryReadsStep ==
    ASSUME JobInv, ListStale
    PROVE  Advances /\ JobInv'
<1> USE DEF ListStale, ghosts
<1>0. TypeOK /\ InFlightIsQueued /\ RowInv
  BY DEF JobInv
<1>1. JobKept
  BY <1>0, JobUpdates
<1>2. TypeOK' /\ InFlightIsQueued'
  BY <1>0, <1>1 DEF TypeOK, InFlightIsQueued, RecoveryStates, JobKept
<1>3. Advances /\ RowInv'
  BY <1>0, <1>1, QuietStep DEF Releasing, RowInv, Refunds
<1> QED BY <1>2, <1>3, OthersKnow DEF JobInv

LEMMA FailStaleStep ==
    ASSUME JobInv, FailStale
    PROVE  Advances /\ JobInv'
<1> USE DEF FailStale
<1>0. TypeOK /\ InFlightIsQueued /\ RowInv
  BY DEF JobInv
<1> PICK o \in Outcomes :
         /\ Outcome(o)
         /\ job' = IF o # "err" /\ StaleUnsubmitted(job) THEN WithStatus(job, "failed") ELSE job
         /\ rec' = IF o = "ok" /\ StaleUnsubmitted(job) THEN "release" ELSE "idle"
         /\ abandoned' = (abandoned \/ o = "lost")
  OBVIOUS
<1>1. \/ JobKept /\ rec' = "idle"
      \/ JobBecomes("failed") /\ StaleUnsubmitted(job) /\ (rec' = "release" \/ o = "lost")
  <2>1. CASE o # "err" /\ StaleUnsubmitted(job)
    BY <1>0, <2>1, StatusUpdate DEF Outcomes, Statuses, Terminal, Refunding
  <2>2. CASE ~(o # "err" /\ StaleUnsubmitted(job))
    BY <1>0, <2>2, JobUpdates
  <2> QED BY <2>1, <2>2
<1>2. TypeOK' /\ InFlightIsQueued'
  BY <1>0, <1>1, FaultType DEF TypeOK, InFlightIsQueued, RecoveryStates, JobKept, JobBecomes
<1>3. Advances /\ RowInv'
  <2>1. CASE JobKept /\ rec' = "idle"
    BY <1>0, <2>1, QuietStep DEF Releasing, RowInv, Refunds
  <2>2. CASE JobBecomes("failed") /\ StaleUnsubmitted(job) /\ (rec' = "release" \/ o = "lost")
    <3>1. job.status \notin Settled \cup {"none"} /\ ~job.named
      BY <2>2 DEF StaleUnsubmitted, Unsubmitted, Settled
    <3>2. sub # "start"
      BY <1>0, <3>1 DEF RowInv, Flow, Submission
    <3>3. (rec' = "release" \/ abandoned') /\ "failed" \in Refunding
      BY <2>2 DEF Refunding
    <3> QED BY <2>2, <3>1, <3>2, <3>3, RowEnds
  <2> QED BY <1>1, <2>1, <2>2
<1> QED BY <1>2, <1>3, OthersKnow DEF JobInv

LEMMA RecoveryReleaseStep ==
    ASSUME JobInv, RecoveryRelease
    PROVE  Advances /\ JobInv'
<1> USE DEF RecoveryRelease, ghosts
<1>0. TypeOK /\ InFlightIsQueued /\ RowInv
  BY DEF JobInv
<1> PICK o \in Outcomes :
         /\ ReleaseHold(o)
         /\ rec' = IF Released(o) THEN "idle" ELSE "retry"
  OBVIOUS
<1>1. JobKept /\ faults' \in 0..MaxFaults /\ wallet' \in Wallets /\ wallet.claims \subseteq wallet'.claims
  BY <1>0, JobUpdates, ReleaseEffect, FaultType
<1>2. TypeOK' /\ InFlightIsQueued'
  BY <1>0, <1>1 DEF TypeOK, InFlightIsQueued, RecoveryStates, JobKept
<1>3. Advances
  BY <1>0, <1>1, KeptAdvances
<1>4. Releasing' \/ private \/ "release" \in wallet'.claims
  BY <1>0, ReleaseEffect DEF Releasing
<1>5. job.status \in Refunding
  BY <1>0 DEF RowInv, Refunds
<1>6. RowInv'
  BY <1>0, <1>1, <1>3, <1>4, <1>5, FlowStays, ReleaseEffect, RowReleases
<1> QED BY <1>2, <1>3, <1>6, OthersKnow DEF JobInv

LEMMA RecoveryRetryStep ==
    ASSUME JobInv, RecoveryRetry
    PROVE  Advances /\ JobInv'
<1> USE DEF RecoveryRetry
<1>0. TypeOK /\ InFlightIsQueued /\ RowInv
  BY DEF JobInv
<1>1. JobKept /\ StaysQueued /\ faults' \in 0..MaxFaults /\ (Queued(queue') \/ abandoned')
  BY <1>0, JobUpdates, EnqueueEffect, FaultType
<1>2. TypeOK' /\ InFlightIsQueued'
  BY <1>0, <1>1 DEF TypeOK, StaysQueued, RecoveryStates, JobKept
<1>3. Advances /\ RowInv'
  BY <1>0, <1>1, QuietStep DEF Releasing, StaysQueued, RowInv, Refunds
<1> QED BY <1>2, <1>3, OthersKnow DEF JobInv

LEMMA RecoveryDiesStep ==
    ASSUME JobInv, RecoveryDies
    PROVE  Advances /\ JobInv'
<1> USE DEF RecoveryDies
<1>0. TypeOK /\ InFlightIsQueued /\ RowInv
  BY DEF JobInv
<1>1. JobKept
  BY <1>0, JobUpdates
<1>2. TypeOK' /\ InFlightIsQueued'
  BY <1>0, <1>1, FaultType DEF TypeOK, InFlightIsQueued, RecoveryStates, JobKept
<1>3. Advances /\ RowInv'
  BY <1>0, <1>1, QuietStep DEF Releasing, RowInv, Refunds
<1> QED BY <1>2, <1>3, OthersKnow DEF JobInv

-----------------------------------------------------------------------------
(* The queue's loops, time and the provider.                               *)

LEMMA LoopsStep ==
    ASSUME JobInv, MoveDueDelayed \/ RecoverStaleActive \/ LockExpires \/ Ages
    PROVE  Advances /\ JobInv'
<1> USE DEF MoveDueDelayed, RecoverStaleActive, LockExpires, Ages, ghosts
<1>0. TypeOK /\ InFlightIsQueued /\ RowInv
  BY DEF JobInv
<1>1. JobKept /\ StaysQueued
  BY <1>0, JobUpdates, QueueScripts
<1>2. faults' \in 0..MaxFaults
  BY <1>0, FaultType
<1>3. TypeOK' /\ InFlightIsQueued'
  BY <1>0, <1>1, <1>2 DEF TypeOK, StaysQueued, JobKept
<1>4. Advances /\ RowInv'
  BY <1>0, <1>1, QuietStep DEF Releasing, StaysQueued, RowInv, Refunds
<1> QED BY <1>3, <1>4, OthersKnow DEF JobInv

LEMMA ProviderFinishesStep ==
    ASSUME JobInv, ProviderFinishes
    PROVE  Advances /\ JobInv'
<1> USE DEF ProviderFinishes, ghosts
<1>0. TypeOK /\ InFlightIsQueued /\ RowInv
  BY DEF JobInv
<1>1. JobKept
  BY <1>0, JobUpdates
<1>2. TypeOK' /\ InFlightIsQueued'
  BY <1>0, <1>1 DEF TypeOK, InFlightIsQueued, ProviderStates, OutputKinds, JobKept
<1>3. Advances
  BY <1>0, <1>1, KeptAdvances
<1>4. Flow'
  BY <1>0, <1>1 DEF RowInv, Flow, Submission, Outcomed, BeforeProvider, JobKept
<1>5. RowInv'
  BY <1>0, <1>1, <1>3, <1>4, RowStays DEF Releasing, RowInv, Refunds
<1> QED BY <1>2, <1>3, <1>5, OthersKnow DEF JobInv

-----------------------------------------------------------------------------
(* The workers.                                                            *)

\* Only worker x moves, to a place there is.
Moves(x) ==
    /\ worker' \in [Workers -> WorkerStates]
    /\ \A y \in Workers : y # x => worker'[y] = worker[y]

LEMMA GoesMoves ==
    ASSUME TypeOK, NEW x \in Workers, NEW pc \in WorkerStates, Goes(x, pc)
    PROVE  Moves(x) /\ worker'[x] = pc
BY DEF TypeOK, Goes, Moves

\* A worker moves, and knows where it stands.
LEMMA WorkerStep ==
    ASSUME JobInv, NEW x \in Workers, Moves(x), Advances,
           TypeOK', InFlightIsQueued', RowInv', Knows(x)'
    PROVE  Advances /\ JobInv'
BY OthersKnow DEF JobInv, Moves

\* A worker that only reads, or writes a failure of settlement or the queue.
LEMMA WorkerQuiet ==
    ASSUME JobInv, NEW x \in Workers, Moves(x),
           JobKept \/ (JobRetried /\ job.named), StaysQueued,
           lock' \in Workers \cup {NoWorker}, faults' \in 0..MaxFaults,
           UNCHANGED <<private, wallet, upstream, output, sub, client, rec, ghosts>>
    PROVE  TypeOK' /\ InFlightIsQueued' /\ Advances /\ RowInv'
<1> USE DEF ghosts
<1>0. TypeOK /\ InFlightIsQueued /\ RowInv
  BY DEF JobInv
<1>1. TypeOK' /\ InFlightIsQueued'
  BY <1>0 DEF TypeOK, StaysQueued, JobKept, JobRetried, Moves
<1>2. Advances /\ RowInv'
  BY <1>0, QuietStep DEF Releasing, StaysQueued, RowInv, Refunds
<1> QED BY <1>1, <1>2

LEMMA WorkerReserveStep ==
    ASSUME JobInv, NEW x \in Workers, WorkerReserve(x)
    PROVE  Advances /\ JobInv'
<1> USE DEF WorkerReserve
<1>0. TypeOK /\ InFlightIsQueued
  BY DEF JobInv
<1>1. JobKept /\ StaysQueued /\ Queued(queue') /\ faults' \in 0..MaxFaults
  BY <1>0, JobUpdates, QueueScripts, FaultType
<1>2. Moves(x) /\ worker'[x] = "lock"
  BY <1>0, GoesMoves DEF WorkerStates
<1>3. TypeOK' /\ InFlightIsQueued' /\ Advances /\ RowInv'
  BY <1>0, <1>1, <1>2, WorkerQuiet DEF TypeOK
<1>4. Knows(x)'
  BY <1>1, <1>2 DEF Knows, KnowsName, KnowsSuccess, SettlePath
<1> QED BY <1>2, <1>3, <1>4, WorkerStep

\* The reads and the polls: what the worker goes on with follows from what it saw.
LEMMA WorkerReadsStep ==
    ASSUME JobInv, NEW x \in Workers,
           WorkerLock(x) \/ PipelineReads(x) \/ ProcessorReads(x) \/ WorkerPolls(x)
             \/ WorkerIndexes(x) \/ SettleReads(x) \/ WorkerRechecks(x)
             \/ WorkerReadFails(x) \/ WorkerDies(x)
    PROVE  Advances /\ JobInv'
<1>0. TypeOK /\ InFlightIsQueued /\ RowInv /\ Knows(x)
  BY DEF JobInv
<1>1. /\ UNCHANGED <<private, job, wallet, queue, upstream, output, sub, client, rec, ghosts>>
      /\ Fault \/ UNCHANGED faults
      /\ lock' \in {lock, x}
  BY DEF WorkerLock, PipelineReads, ProcessorReads, WorkerPolls, WorkerIndexes, SettleReads,
         WorkerRechecks, WorkerReadFails, WorkerDies, Outcome
<1>2. JobKept /\ StaysQueued /\ faults' \in 0..MaxFaults
  BY <1>0, <1>1, JobUpdates, QueueScripts, FaultType
<1>3. lock' \in Workers \cup {NoWorker}
  BY <1>0, <1>1 DEF TypeOK
<1>4. ASSUME Moves(x), Knows(x)'
      PROVE  Advances /\ JobInv'
  BY <1>1, <1>2, <1>3, <1>4, WorkerQuiet, WorkerStep
<1>5. /\ job' = job /\ wallet' = wallet /\ queue' = queue /\ upstream' = upstream
      /\ private' = private /\ strayed' = strayed
  BY <1>1 DEF ghosts
<1>6. job.status \in Settled \cup {"indexing"} => job.named /\ upstream = "succeeded"
  BY <1>0 DEF RowInv, Flow, Outcomed
<1> USE DEF WorkerStates, Knows, KnowsName, KnowsSuccess, SettlePath
<1>7. CASE WorkerLock(x)
  <2>1. Moves(x) /\ worker'[x] \in {"read", "requeue"}
    BY <1>0, <1>7, GoesMoves DEF WorkerLock
  <2>2. Knows(x)'
    BY <1>0, <1>5, <1>7, <2>1 DEF WorkerLock, NothingToRelease, SettlementOver, Charged
  <2> QED BY <1>4, <2>1, <2>2
<1>8. CASE PipelineReads(x)
  <2>1. Moves(x) /\ worker'[x] = IF job.status = "settling" THEN "settle" ELSE "process"
    BY <1>0, <1>8, GoesMoves DEF PipelineReads
  <2>2. Knows(x)'
    BY <1>0, <1>5, <1>6, <1>8, <2>1
    DEF PipelineReads, NothingToRelease, SettlementOver, Charged, Settled
  <2> QED BY <1>4, <2>1, <2>2
<1>9. CASE ProcessorReads(x)
  <2>1. /\ Moves(x)
        /\ worker'[x] = IF job.status \in Refunding THEN "release"
                        ELSE IF job.status \in Terminal \cup {"settling"} THEN "ack"
                        ELSE IF ~job.named THEN "requeue"
                        ELSE IF job.status = "indexing" THEN "index"
                        ELSE "poll"
    BY <1>0, <1>9, GoesMoves DEF ProcessorReads
  <2>2. Knows(x)'
    BY <1>0, <1>5, <1>6, <1>9, <2>1
    DEF ProcessorReads, NothingToRelease, SettlementOver, Charged, Settled, Terminal, Refunding
  <2> QED BY <1>4, <2>1, <2>2
<1>10. CASE WorkerPolls(x)
  <2>1. /\ Moves(x)
        /\ \/ worker'[x] \in {"running", "requeue"}
           \/ upstream = "succeeded" /\ worker'[x] = "indexing"
           \/ upstream = "failed" /\ worker'[x] = "failing"
           \/ upstream = "cancelled" /\ worker'[x] = "cancelling"
    BY <1>0, <1>10, GoesMoves DEF WorkerPolls, Target
  <2>2. Knows(x)'
    BY <1>0, <1>5, <1>10, <2>1 DEF WorkerPolls, NothingToRelease, SettlementOver, Charged
  <2> QED BY <1>4, <2>1, <2>2
<1>11. CASE WorkerIndexes(x)
  <2>1. Moves(x) /\ worker'[x] \in {"requeue", "indexfail", "settling"}
    BY <1>0, <1>11, GoesMoves DEF WorkerIndexes, Target
  <2>2. Knows(x)'
    BY <1>0, <1>5, <1>11, <2>1 DEF WorkerIndexes, NothingToRelease, SettlementOver, Charged
  <2> QED BY <1>4, <2>1, <2>2
<1>12. CASE SettleReads(x)
  <2>1. /\ Moves(x)
        /\ \/ worker'[x] = "ack" /\ job.status = "completed"
           \/ worker'[x] \in {"requeue", "record", "capture"}
           \/ worker'[x] = "xrelease" /\ job.retry >= MaxRetries
    BY <1>0, <1>12, GoesMoves DEF SettleReads, Target
  <2>2. job.retry >= MaxRetries => job.retry = MaxRetries
    BY <1>0, JobFacts
  <2>3. Knows(x)'
    BY <1>0, <1>5, <1>12, <2>1, <2>2 DEF SettleReads, NothingToRelease, SettlementOver, Charged, Settled
  <2> QED BY <1>4, <2>1, <2>3
<1>13. CASE WorkerRechecks(x)
  <2>1. Moves(x) /\ worker'[x] \in {"ack", "requeue"}
    BY <1>0, <1>13, GoesMoves DEF WorkerRechecks
  <2>2. Knows(x)'
    BY <1>0, <1>5, <1>13, <2>1 DEF WorkerRechecks, NothingToRelease, SettlementOver, Charged
  <2> QED BY <1>4, <2>1, <2>2
<1>14. CASE WorkerReadFails(x) \/ WorkerDies(x)
  <2>1. Moves(x) /\ worker'[x] \in {"requeue", "idle"}
    BY <1>0, <1>14, GoesMoves DEF WorkerReadFails, WorkerDies
  <2>2. Knows(x)'
    BY <1>0, <1>5, <1>14, <2>1
    DEF WorkerReadFails, WorkerDies, NothingToRelease, SettlementOver, Charged
  <2> QED BY <1>4, <2>1, <2>2
<1> QED BY <1>7, <1>8, <1>9, <1>10, <1>11, <1>12, <1>13, <1>14

LEMMA WorkerRecordsStep ==
    ASSUME JobInv, NEW x \in Workers, WorkerRecords(x)
    PROVE  Advances /\ JobInv'
<1> USE DEF WorkerRecords
<1>0. TypeOK /\ InFlightIsQueued /\ Knows(x)
  BY DEF JobInv
<1> PICK o \in Outcomes :
         /\ Outcome(o)
         /\ job' = IF o = "err" THEN job ELSE SettlementFailed(job)
         /\ Goes(x, IF o = "ok" /\ job.retry + 1 >= MaxRetries THEN "xrelease"
                    ELSE IF output = "above" /\ ~private THEN "requeue" ELSE "recheck")
  OBVIOUS
<1>1. (IF o = "err" THEN JobKept ELSE JobRetried) /\ StaysQueued /\ faults' \in 0..MaxFaults
  BY <1>0, JobUpdates, QueueScripts, FaultType
<1>2. /\ Moves(x)
      /\ \/ worker'[x] \in {"requeue", "recheck"}
         \/ worker'[x] = "xrelease" /\ o = "ok" /\ job.retry + 1 >= MaxRetries
  BY <1>0, GoesMoves DEF WorkerStates
<1>3. job.named
  BY <1>0 DEF Knows, KnowsName, KnowsSuccess, SettlePath
<1>4. TypeOK' /\ InFlightIsQueued' /\ Advances /\ RowInv'
  BY <1>0, <1>1, <1>2, <1>3, WorkerQuiet DEF TypeOK
<1>5. Knows(x)'
  BY <1>0, <1>1, <1>2, <1>4
  DEF Knows, KnowsName, KnowsSuccess, SettlePath, JobRetried, Advances, NothingToRelease, Charged
<1> QED BY <1>2, <1>4, <1>5, WorkerStep

LEMMA WorkerMarksStep ==
    ASSUME JobInv, NEW x \in Workers, WorkerMarks(x)
    PROVE  Advances /\ JobInv'
<1> USE DEF WorkerMarks, ghosts
<1>0. TypeOK /\ InFlightIsQueued /\ RowInv /\ Knows(x)
  BY DEF JobInv
<1> PICK o \in Outcomes :
         /\ Outcome(o)
         /\ job' = IF o # "err" /\ job.status = "settling" THEN WithStatus(job, "completed") ELSE job
         /\ Goes(x, IF o = "ok" /\ job.status = "settling" THEN "ack" ELSE "requeue")
  OBVIOUS
<1>1. JobKept \/ (JobBecomes("completed") /\ job.status = "settling")
  BY <1>0, JobUpdates, StatusUpdate DEF Statuses, Terminal
<1>2. Moves(x) /\ worker'[x] \in {"ack", "requeue"}
  BY <1>0, GoesMoves DEF WorkerStates
<1>3. TypeOK' /\ InFlightIsQueued'
  BY <1>0, <1>1, <1>2, FaultType DEF TypeOK, InFlightIsQueued, JobKept, JobBecomes, Moves
<1>4. Charged /\ SettlementOver
  BY <1>0 DEF Knows, SettlePath
<1>5. Advances
  BY <1>0, <1>1, KeptAdvances DEF Advances, JobBecomes, SettlementOver, Settled, Refunding
<1>6. RowInv'
  <2>1. CASE JobKept
    BY <1>0, <2>1, QuietStep DEF Releasing, RowInv, Refunds
  <2>2. CASE JobBecomes("completed") /\ job.status = "settling"
    <3> USE DEF RowInv, JobBecomes
    <3>1. Flow'
      BY <1>0, <2>2 DEF Flow, Submission, Outcomed, BeforeProvider, Settled
    <3>2. Settlement' /\ Claimed'
      BY <1>0, <1>4, <1>5, <2>2 DEF Settlement, Claimed, Charged, Advances
    <3>3. Refunds' /\ Pursuit'
      BY <1>0, <2>2 DEF Refunds, Pursuit, HoldPursued, Doubtful, Refunding
    <3> QED BY <3>1, <3>2, <3>3
  <2> QED BY <1>1, <2>1, <2>2
<1>7. Knows(x)'
  BY <1>2, <1>4, <1>5
  DEF Knows, KnowsName, KnowsSuccess, SettlePath, Advances, NothingToRelease, Charged
<1> QED BY <1>2, <1>3, <1>5, <1>6, <1>7, WorkerStep

LEMMA WorkerReleaseStep ==
    ASSUME JobInv, NEW x \in Workers, WorkerRelease(x)
    PROVE  Advances /\ JobInv'
<1> USE DEF WorkerRelease, ghosts
<1>0. TypeOK /\ InFlightIsQueued /\ RowInv /\ Knows(x)
  BY DEF JobInv
<1> PICK o \in Outcomes :
         /\ ReleaseHold(o)
         /\ Goes(x, IF Released(o) THEN "ack" ELSE "requeue")
  OBVIOUS
<1>1. JobKept /\ faults' \in 0..MaxFaults /\ wallet' \in Wallets /\ wallet.claims \subseteq wallet'.claims
  BY <1>0, JobUpdates, ReleaseEffect, FaultType
<1>2. Moves(x) /\ worker'[x] = IF Released(o) THEN "ack" ELSE "requeue"
  BY <1>0, GoesMoves DEF WorkerStates
<1>3. TypeOK' /\ InFlightIsQueued'
  BY <1>0, <1>1, <1>2 DEF TypeOK, InFlightIsQueued, JobKept, Moves
<1>4. Advances
  BY <1>0, <1>1, KeptAdvances
<1>5. Releasing => Releasing'
  BY DEF Releasing
<1>6. job.status \in Refunding
  BY <1>0 DEF Knows
<1>7. RowInv'
  BY <1>0, <1>1, <1>4, <1>5, <1>6, FlowStays, ReleaseEffect, RowReleases
<1>8. Released(o) => private \/ "release" \in wallet'.claims
  BY <1>0, ReleaseEffect
<1>9. Knows(x)'
  BY <1>0, <1>2, <1>4, <1>8
  DEF Knows, KnowsName, KnowsSuccess, SettlePath, Advances, NothingToRelease, Charged
<1> QED BY <1>2, <1>3, <1>4, <1>7, <1>9, WorkerStep

LEMMA ExhaustedReleaseStep ==
    ASSUME JobInv, NEW x \in Workers, ExhaustedRelease(x)
    PROVE  Advances /\ JobInv'
<1> USE DEF ExhaustedRelease, ghosts
<1>0. TypeOK /\ InFlightIsQueued /\ RowInv /\ Knows(x)
  BY DEF JobInv
<1> PICK o \in Outcomes :
         /\ ReleaseHold(o)
         /\ job' = IF Released(o) THEN job ELSE SettlementFailed(job)
         /\ Goes(x, IF Released(o) THEN "xfail" ELSE "recheck")
  OBVIOUS
<1>1. /\ JobKept \/ JobRetried
      /\ faults' \in 0..MaxFaults /\ wallet' \in Wallets /\ wallet.claims \subseteq wallet'.claims
  BY <1>0, JobUpdates, ReleaseEffect, FaultType
<1>2. Moves(x) /\ worker'[x] = IF Released(o) THEN "xfail" ELSE "recheck"
  BY <1>0, GoesMoves DEF WorkerStates, Target
<1>3. TypeOK' /\ InFlightIsQueued'
  BY <1>0, <1>1, <1>2 DEF TypeOK, InFlightIsQueued, JobKept, JobRetried, Moves
<1>4. Advances
  BY <1>0, <1>1, KeptAdvances
<1>5. Releasing => Releasing'
  BY DEF Releasing
<1>6. job.named /\ Doubtful
  BY <1>0 DEF Knows, KnowsName, KnowsSuccess, SettlePath, Doubtful
<1>7. client' = "release" \/ rec' = "release" => job.status \in Refunding
  BY <1>0 DEF RowInv, Refunds
<1>8. RowInv'
  BY <1>0, <1>1, <1>4, <1>5, <1>6, <1>7, FlowStays, ReleaseEffect, RowReleases
<1>9. Released(o) => private \/ "release" \in wallet'.claims
  BY <1>0, ReleaseEffect
<1>10. Knows(x)'
  BY <1>0, <1>2, <1>4, <1>9
  DEF Knows, KnowsName, KnowsSuccess, SettlePath, Advances, NothingToRelease, Charged
<1> QED BY <1>2, <1>3, <1>4, <1>8, <1>10, WorkerStep

LEMMA WorkerCaptureStep ==
    ASSUME JobInv, NEW x \in Workers, WorkerCapture(x)
    PROVE  Advances /\ JobInv'
<1> USE DEF WorkerCapture, ghosts
<1>0. TypeOK /\ InFlightIsQueued /\ RowInv /\ Knows(x)
  BY DEF JobInv
<1> PICK o \in Outcomes :
         /\ Outcome(o)
         /\ wallet' = IF o = "err" THEN wallet
                      ELSE IF private THEN Apply(wallet)
                      ELSE IF CaptureOK(wallet) THEN Capture(wallet) ELSE wallet
         /\ Goes(x, IF o = "ok" /\ (private \/ CaptureOK(wallet)) THEN "mark" ELSE "record")
  OBVIOUS
<1>1. /\ wallet' \in Wallets /\ wallet'.given = wallet.given
      /\ \/ wallet' = wallet
         \/ /\ wallet'.claims = wallet.claims \cup {"capture"} /\ ~Charged
            /\ wallet'.used = IF private THEN wallet.used + 1 ELSE wallet.used
      /\ o = "ok" /\ (private \/ CaptureOK(wallet)) => "capture" \in wallet'.claims
  <2>1. CASE Charged
    BY <1>0, <2>1 DEF Apply, Capture, Unclaimed, Charged, TypeOK
  <2>2. CASE ~Charged /\ private /\ o # "err"
    BY <1>0, <2>2, ApplyEffect
  <2>3. CASE ~Charged /\ ~private /\ o # "err" /\ CaptureOK(wallet)
    BY <1>0, <2>3, CaptureEffect
  <2>4. CASE wallet' = wallet /\ (o = "err" \/ (~private /\ ~CaptureOK(wallet)))
    BY <1>0, <2>4 DEF TypeOK
  <2> QED BY <2>1, <2>2, <2>3, <2>4
<1>2. JobKept /\ faults' \in 0..MaxFaults
  BY <1>0, JobUpdates, FaultType
<1>3. /\ Moves(x)
      /\ worker'[x] = IF o = "ok" /\ (private \/ CaptureOK(wallet)) THEN "mark" ELSE "record"
  BY <1>0, GoesMoves DEF WorkerStates
<1>4. TypeOK' /\ InFlightIsQueued'
  BY <1>0, <1>1, <1>2, <1>3 DEF TypeOK, InFlightIsQueued, JobKept, Moves
<1>5. Advances
  BY <1>0, <1>1, <1>2, KeptAdvances
<1>6. job.named /\ SettlementOver
  BY <1>0 DEF Knows, KnowsName, KnowsSuccess, SettlePath
<1>7. RowInv'
  <2> USE DEF RowInv, JobKept
  <2>1. Flow'
    BY <1>2, FlowStays
  <2>2. Settlement'
    BY <1>0, <1>1, <1>2, <1>5, <1>6 DEF Settlement, Charged, Advances
  <2>3. Refunds'
    BY <1>0, <1>1, <1>2 DEF Refunds, Doubtful
  <2>4. wallet.used \in Nat /\ (~Charged => wallet.used = 0) /\ wallet.used <= 1
    BY <1>0 DEF TypeOK, Wallets, Claimed
  <2>5. wallet'.used <= 1 /\ (~Charged => wallet.used = 0) /\ (~Charged' => wallet'.used = 0)
    BY <1>1, <2>4 DEF Charged
  <2>6. Claimed'
    BY <1>0, <1>1, <1>2, <1>6, <2>5 DEF Claimed, Charged
  <2>7. Pursuit'
    BY <1>0, <1>1, <1>2 DEF Pursuit, HoldPursued, Releasing, Outstanding
  <2> QED BY <2>1, <2>2, <2>3, <2>6, <2>7
<1>8. Knows(x)'
  BY <1>0, <1>1, <1>3, <1>5
  DEF Knows, KnowsName, KnowsSuccess, SettlePath, Advances, NothingToRelease, Charged
<1> QED BY <1>3, <1>4, <1>5, <1>7, <1>8, WorkerStep

LEMMA WorkerEndsStep ==
    ASSUME JobInv, NEW x \in Workers, WorkerEnds(x)
    PROVE  Advances /\ JobInv'
<1> USE DEF WorkerEnds, ghosts
<1>0. TypeOK /\ InFlightIsQueued /\ RowInv /\ Knows(x)
  BY DEF JobInv
<1>1. JobKept /\ faults' \in 0..MaxFaults
  BY <1>0, JobUpdates, FaultType
<1>2. /\ queue' \in Queues /\ InFlightIsQueued'
      /\ Queued(queue) => Queued(queue') \/ worker[x] = "ack"
  BY <1>0, QueueScripts DEF StaysQueued
<1>3. Moves(x) /\ worker'[x] = "idle"
  BY <1>0, GoesMoves DEF WorkerStates
<1>4. TypeOK'
  BY <1>0, <1>1, <1>2, <1>3 DEF TypeOK, JobKept, Moves
<1>5. worker[x] = "ack" => NothingToRelease
  BY <1>0 DEF Knows
<1>6. Releasing => Releasing' \/ NothingToRelease
  BY <1>2, <1>5 DEF Releasing
<1>7. Advances /\ RowInv'
  BY <1>0, <1>1, <1>2, <1>5, <1>6, QuietStep DEF RowInv, Refunds
<1>8. Knows(x)'
  BY <1>3 DEF Knows, KnowsName, KnowsSuccess, SettlePath
<1> QED BY <1>2, <1>3, <1>4, <1>7, <1>8, WorkerStep

\* The transition a worker makes, from what status, and what it takes.
Transits(x) ==
    \/ JobKept
    \/ worker[x] = "running" /\ job.status \in {"submitted", "running"} /\ JobBecomes("running")
    \/ worker[x] = "indexing" /\ job.status \in {"submitted", "running"} /\ JobBecomes("indexing")
    \/ worker[x] = "settling" /\ job.status = "indexing" /\ JobBecomes("settling")
    \/ worker[x] = "cancelling" /\ job.status \notin Terminal \cup Settled /\ JobBecomes("cancelled")
    \/ worker[x] \in {"failing", "xfail"} /\ job.status \notin Terminal /\ JobBecomes("failed")
    \/ /\ worker[x] = "indexfail" /\ job.status \notin Terminal /\ JobBecomes("failed")
       /\ job.status = "settling" => strayed'

LEMMA TransitsEffect ==
    ASSUME JobInv, NEW x \in Workers, WorkerTransition(x)
    PROVE  /\ Transits(x) /\ Moves(x) /\ (Fault \/ UNCHANGED faults)
           /\ \/ worker'[x] = "requeue"
              \/ worker'[x] = "index" /\ worker[x] = "indexing"
              \/ worker'[x] = "recheck" /\ worker[x] = "xfail"
              \/ worker'[x] = "release" /\ job'.status \in Refunding
<1>0. TypeOK
  BY DEF JobInv
<1>1. worker[x] \in {"running", "indexing", "settling", "cancelling", "failing", "xfail", "indexfail"}
  BY DEF WorkerTransition, Target
<1>2. /\ Target["running"] = "running" /\ Target["indexing"] = "indexing"
      /\ Target["settling"] = "settling" /\ Target["cancelling"] = "cancelled"
      /\ Target["failing"] = "failed" /\ Target["xfail"] = "failed" /\ Target["indexfail"] = "failed"
  BY DEF Target
<1>3. /\ After["running"] = "requeue" /\ After["indexing"] = "index"
      /\ After["settling"] = "requeue" /\ After["cancelling"] = "release"
      /\ After["failing"] = "release" /\ After["xfail"] = "recheck" /\ After["indexfail"] = "release"
  BY DEF After
<1> DEFINE to == Target[worker[x]]
           next == After[worker[x]]
<1> PICK o \in Outcomes :
         /\ Transition(to, o)
         /\ Goes(x, IF Transitioned(to, o) THEN next ELSE "requeue")
  BY DEF WorkerTransition
<1>4. to \in Statuses /\ next \in WorkerStates /\ "requeue" \in WorkerStates
  BY <1>1, <1>2, <1>3 DEF Statuses, Terminal, Refunding, WorkerStates
<1>5. /\ JobKept \/ (JobBecomes(to) /\ CanTransition(job.status, to))
      /\ Transitioned(to, o) => JobBecomes(to)
      /\ Outcome(o)
  <2>1. CASE o # "err" /\ CanTransition(job.status, to)
    <3>1. job' = WithStatus(job, to)
      BY <2>1 DEF Transition
    <3>2. JobBecomes(to)
      BY <1>0, <1>4, <3>1 DEF TypeOK, JobBecomes, WithStatus, Jobs
    <3> QED BY <2>1, <3>2 DEF Transition
  <2>2. CASE ~(o # "err" /\ CanTransition(job.status, to))
    BY <1>0, <2>2, JobUpdates DEF Transition, Transitioned
  <2> QED BY <2>1, <2>2
<1>6. Moves(x) /\ worker'[x] = IF Transitioned(to, o) THEN next ELSE "requeue"
  BY <1>0, <1>4 DEF TypeOK, Goes, Moves
<1>7. Transits(x)
  <2>1. CASE JobKept
    BY <2>1 DEF Transits
  <2>2. CASE JobBecomes(to) /\ CanTransition(job.status, to)
    <3>1. worker[x] = "indexfail" /\ job.status = "settling" => strayed'
      BY <1>2, <2>2 DEF WorkerTransition, JobBecomes
    <3> QED BY <1>1, <1>2, <2>2, <3>1 DEF Transits, CanTransition, Terminal, Refunding, Settled
  <2> QED BY <1>5, <2>1, <2>2
<1>8. \/ worker'[x] = "requeue"
      \/ worker'[x] = "index" /\ worker[x] = "indexing"
      \/ worker'[x] = "recheck" /\ worker[x] = "xfail"
      \/ worker'[x] = "release" /\ job'.status \in Refunding
  BY <1>1, <1>2, <1>3, <1>5, <1>6 DEF JobBecomes, Refunding
<1> QED BY <1>5, <1>6, <1>7, <1>8 DEF Outcome

LEMMA WorkerTransitionStep ==
    ASSUME JobInv, NEW x \in Workers, WorkerTransition(x)
    PROVE  Advances /\ JobInv'
<1>0. TypeOK /\ InFlightIsQueued /\ RowInv /\ Knows(x)
  BY DEF JobInv
<1>1. /\ UNCHANGED <<private, wallet, queue, lock, upstream, output, sub, client, rec, orphan, abandoned>>
      /\ strayed => strayed'
      /\ strayed' \in BOOLEAN
  BY DEF WorkerTransition
<1>2. Transits(x) /\ Moves(x) /\ faults' \in 0..MaxFaults
  BY <1>0, TransitsEffect, FaultType
<1>3. TypeOK' /\ InFlightIsQueued'
  BY <1>0, <1>1, <1>2 DEF TypeOK, InFlightIsQueued, Transits, Moves, JobKept, JobBecomes
<1>4. worker[x] \in {"running", "indexing", "settling", "cancelling", "failing", "xfail", "indexfail"}
  BY DEF WorkerTransition, Target
<1>5. /\ job.named
      /\ worker[x] = "failing" => upstream = "failed"
      /\ worker[x] = "cancelling" => upstream = "cancelled"
      /\ worker[x] \in {"indexing", "settling", "xfail", "indexfail"} => upstream = "succeeded"
      /\ worker[x] = "xfail" => SettlementOver /\ job.retry = MaxRetries
                                  /\ ("release" \in wallet.claims \/ private)
      /\ Queued(queue) \/ NothingToRelease
  BY <1>0, <1>4 DEF Knows, KnowsName, KnowsSuccess, SettlePath
<1>6. job.status \in Settled \cup {"indexing"} => upstream = "succeeded"
  BY <1>0 DEF RowInv, Flow, Outcomed
<1>7. job'.named = job.named /\ job'.retry = job.retry
  BY <1>2 DEF Transits, JobKept, JobBecomes
<1>8. job.status \in Terminal => job'.status = job.status
  BY <1>2 DEF Transits, JobKept, JobBecomes, Terminal, Settled, Refunding
<1>9. SettlementOver => SettlementOver'
  BY <1>1, <1>2, <1>5, <1>6, <1>7 DEF Transits, JobKept, JobBecomes, SettlementOver, Settled, Terminal
<1>10. Advances
  BY <1>1, <1>7, <1>8, <1>9 DEF Advances, Terminal
<1>11. sub # "start"
  BY <1>0, <1>5 DEF RowInv, Flow, Submission
<1>12. Flow'
  BY <1>0, <1>1, <1>2, <1>5, <1>6, <1>7, <1>11
  DEF RowInv, Flow, Submission, Outcomed, Transits, JobKept, JobBecomes, Settled, BeforeProvider
<1>13. job'.status \in {"completed", "output_deleted"} => job.status = job'.status
  BY <1>2 DEF Transits, JobKept, JobBecomes
<1> USE DEF RowInv
<1>14. Settlement' /\ Claimed'
  BY <1>0, <1>1, <1>7, <1>10, <1>13 DEF Settlement, Claimed, Charged, Advances
<1>15. Refunds'
  BY <1>0, <1>1, <1>5, <1>7, <1>10 DEF Refunds, Doubtful, Advances
<1>16. ASSUME Outstanding(wallet), job'.status \in Refunding
       PROVE  Releasing \/ "release" \in wallet.claims \/ abandoned \/ strayed'
  <2>1. CASE job.status \in Refunding
    BY <1>0, <1>1, <1>16, <2>1 DEF Pursuit, HoldPursued
  <2>2. CASE job.status \notin Refunding
    <3>1. ~private /\ ~Charged
      BY <1>0, <1>16 DEF Outstanding, Claimed, Charged
    <3>2. SettlementOver' => "release" \in wallet.claims \/ strayed'
      BY <1>1, <1>16, <3>1 DEF SettlementOver, Settled, Refunding
    <3> QED BY <1>5, <1>9, <3>1, <3>2 DEF NothingToRelease, Releasing
  <2> QED BY <2>1, <2>2
<1>17. Pursuit'
  BY <1>0, <1>1, <1>16 DEF Pursuit, HoldPursued, Releasing
<1>18. Knows(x)'
  BY <1>5, <1>9, <1>10, TransitsEffect
  DEF Knows, KnowsName, KnowsSuccess, SettlePath, Advances, NothingToRelease, Charged
<1> QED BY <1>2, <1>3, <1>10, <1>12, <1>14, <1>15, <1>17, <1>18, WorkerStep

-----------------------------------------------------------------------------
(* The invariant.                                                          *)

LEMMA JobInit == Init => JobInv
<1> SUFFICES ASSUME Init PROVE JobInv
  OBVIOUS
<1> USE DEF Init
<1>1. job \in Jobs /\ job.status = "none" /\ ~job.named /\ job.retry = 0
  BY BoundsAssumption DEF NoJob, Jobs, Statuses
<1>2. /\ wallet \in Wallets /\ wallet.claims = {} /\ ~wallet.given /\ wallet.used = 0
  BY AmountsAssumption DEF NewWallet, Wallets, RequestIDs
<1>3. queue \in Queues /\ ~queue.inflight
  BY DEF EmptyQueue, Queues
<1>4. TypeOK /\ InFlightIsQueued
  <2>1. worker \in [Workers -> WorkerStates]
    BY DEF WorkerStates
  <2>2. faults \in 0..MaxFaults
    BY BoundsAssumption
  <2> QED
    BY <1>1, <1>2, <1>3, <2>1, <2>2
    DEF TypeOK, InFlightIsQueued, ProviderStates, OutputKinds, SubmitStates, ClientStates,
        RecoveryStates
<1>5. Flow /\ Settlement /\ Refunds /\ Claimed /\ Pursuit
  BY <1>1, <1>2
  DEF Flow, Submission, Outcomed, Settlement, Refunds, Claimed, Pursuit, HoldPursued, Outstanding,
      Charged, Settled, Refunding, BeforeProvider
<1>6. \A x \in Workers : Knows(x)
  BY DEF Knows, KnowsName, KnowsSuccess, SettlePath
<1> QED BY <1>4, <1>5, <1>6 DEF JobInv, RowInv

LEMMA JobStep ==
    ASSUME JobInv, [Next]_vars
    PROVE  Advances /\ JobInv'
<1>1. CASE UNCHANGED vars
  <2> USE <1>1 DEF vars
  <2>1. TypeOK /\ InFlightIsQueued /\ RowInv
    BY DEF JobInv
  <2>2. JobKept
    BY <2>1, JobUpdates
  <2>3. TypeOK' /\ InFlightIsQueued'
    BY <2>1 DEF TypeOK, InFlightIsQueued
  <2>4. Advances /\ RowInv'
    BY <2>1, <2>2, QuietStep DEF Releasing, RowInv, Refunds
  <2> QED BY <2>3, <2>4, OthersKnow DEF JobInv
<1>2. CASE Submitter
  BY <1>2, CreateStep, ReserveHoldStep, StartUploadStep, SubmitHeartbeatStep, ProviderSubmitStep,
     PersistSubmitStep, AbortOrphanStep, SubmitEnqueueStep, SubmitReleaseStep,
     RecordSubmitFailureStep, SubmitRetryStep
  DEF Submitter
<1>3. CASE Client
  BY <1>3, ClientReadsStep, CancelProviderStep, CancelTransitionStep, CancelReleaseStep,
     ClientEnqueueStep, DeleteRecordStep, DeleteOutputsStep
  DEF Client
<1>4. CASE Recovery
  BY <1>4, RecoveryReadsStep, FailStaleStep, RecoveryReleaseStep, RecoveryRetryStep DEF Recovery
<1>5. ASSUME NEW x \in Workers, Worker(x) PROVE Advances /\ JobInv'
  BY <1>5, WorkerReserveStep, WorkerReadsStep, WorkerTransitionStep, WorkerReleaseStep,
     WorkerCaptureStep, WorkerRecordsStep, WorkerMarksStep, ExhaustedReleaseStep, WorkerEndsStep
  DEF Worker
<1>6. CASE Loops
  BY <1>6, LoopsStep, ProviderFinishesStep DEF Loops
<1>7. CASE Crashes
  BY <1>7, SubmitDiesStep, ClientDiesStep, RecoveryDiesStep, WorkerReadsStep DEF Crashes
<1> QED BY <1>1, <1>2, <1>3, <1>4, <1>5, <1>6, <1>7 DEF Next

\* The invariant above, of every behaviour.
THEOREM JobInvariant == Spec => []JobInv
<1>1. JobInv /\ [Next]_vars => JobInv'
  BY JobStep
<1> QED BY <1>1, JobInit, PTL DEF Spec

\* Every value of the model is one the row, the billing store, the queue and
\* the processes can hold; the retries stop at batchImageSettlementMaxRetries.
THEOREM JobTyped == Spec => []TypeOK
<1>1. JobInv => TypeOK
  BY DEF JobInv
<1> QED BY <1>1, JobInvariant, PTL

\* What Settle charged, nobody gives back, and the job is not left failed or
\* cancelled, unless its outcome is in doubt: whichever of Submit, Cancel,
\* recovery and the workers race, fail, die or lose an answer.
THEOREM SettlesOneWay == Spec => []SettledOneWay
<1>1. JobInv => SettledOneWay
  BY DEF JobInv, RowInv, SettledOneWay, Settlement, SettlementOver, Refunds, Doubtful, Flow,
         Outcomed, Settled, Refunding
<1> QED BY <1>1, JobInvariant, PTL

\* MarkBatchImageJobSettled completes only what was charged, and an operator's
\* usage is counted once.
THEOREM CompletionIsCharged == Spec => []CompletedIsCharged
<1>1. JobInv => CompletedIsCharged
  BY DEF JobInv, RowInv, CompletedIsCharged, Settlement, Claimed
<1> QED BY <1>1, JobInvariant, PTL

\* No batch runs upstream for a failed job that Submit did not lose track of.
THEOREM NothingOrphaned == Spec => []NoOrphan
<1>1. JobInv => NoOrphan
  BY DEF JobInv, RowInv, Flow, Submission, Outcomed, NoOrphan, Refunding
<1> QED BY <1>1, JobInvariant, PTL

\* An inflight key never refuses a job that no structure of the queue holds.
THEOREM NoJobLeavesTheQueue == Spec => []InFlightIsQueued
<1>1. JobInv => InFlightIsQueued
  BY DEF JobInv
<1> QED BY <1>1, JobInvariant, PTL

\* The hold of a failed or cancelled job is given back or somebody is about to,
\* for any number of faults: what a crash of Submit, the client or recovery
\* cuts off is all that is lost.
THEOREM HoldIsPursued == Spec => []HoldPursued
<1>1. JobInv => HoldPursued
  BY DEF JobInv, RowInv, Pursuit
<1> QED BY <1>1, JobInvariant, PTL

-----------------------------------------------------------------------------
(* The refinement.  The money moves in one of four ways, or not at all.    *)

MoneyStays ==
    /\ wallet'.balance = wallet.balance /\ wallet'.frozen = wallet.frozen
    /\ wallet'.given = wallet.given
    /\ wallet'.claims \in {wallet.claims, wallet.claims \cup {"release"}}

\* An operator's usage is counted: there is no hold.
Counts ==
    /\ wallet'.balance = wallet.balance /\ wallet'.frozen = wallet.frozen
    /\ "hold" \notin wallet.claims
    /\ wallet'.claims = wallet.claims \cup {"capture"}

Reserves ==
    /\ "hold" \notin wallet.claims /\ ~wallet.given /\ ~Charged
    /\ wallet.balance >= Hold
    /\ wallet'.balance = wallet.balance - Hold /\ wallet'.frozen = wallet.frozen + Hold
    /\ wallet'.given = wallet.given /\ wallet'.claims = wallet.claims \cup {"hold"}

Captures ==
    /\ "hold" \in wallet.claims /\ ~Charged
    /\ wallet.frozen >= Hold
    /\ wallet.given => Doubtful
    /\ wallet'.balance = wallet.balance + (Hold - Cost) /\ wallet'.frozen = wallet.frozen - Hold
    /\ wallet'.given = wallet.given /\ wallet'.claims = wallet.claims \cup {"capture"}

GivesBack == GivenBack /\ ~wallet.given /\ (Charged => Doubtful)

\* A hold is released after it was charged only for a job in doubt.
LEMMA ReleaseMoney ==
    ASSUME JobInv, NEW o \in Outcomes, ReleaseHold(o),
           job.status \in Refunding \/ Doubtful \/ sub \in {"release", "giveup"}
    PROVE  MoneyStays \/ GivesBack
<1>1. TypeOK /\ Flow /\ Settlement /\ Claimed
  BY DEF JobInv, RowInv
<1>2. \/ GivenBack
      \/ /\ wallet'.given = wallet.given
         /\ wallet'.balance = wallet.balance /\ wallet'.frozen = wallet.frozen
  BY <1>1, ReleaseEffect
<1>3. wallet'.claims \in {wallet.claims, wallet.claims \cup {"release"}}
  BY <1>1, ReleaseEffect
<1>4. sub \in {"release", "giveup"} => ~job.named
  BY <1>1 DEF Flow, Submission
<1>5. Charged => Doubtful
  BY <1>1, <1>4 DEF Settlement, SettlementOver, Doubtful, Flow, Outcomed, Settled, Refunding
<1>6. GivenBack => ~wallet.given
  BY <1>1 DEF GivenBack, Claimed
<1> QED BY <1>2, <1>3, <1>5, <1>6 DEF MoneyStays, GivesBack

LEMMA ReserveMoney ==
    ASSUME JobInv, ReserveHold
    PROVE  MoneyStays \/ Reserves
<1>1. TypeOK /\ Flow /\ Claimed /\ Settlement
  BY DEF JobInv, RowInv
<1>2. sub = "reserve" /\ (wallet' = wallet \/ (ReserveOK(wallet) /\ wallet' = Reserve(wallet)))
  BY DEF ReserveHold
<1>3. "hold" \notin wallet.claims /\ ~wallet.given /\ ~Charged
  BY <1>1, <1>2 DEF Claimed
<1>4. CASE wallet' = wallet
  BY <1>4 DEF MoneyStays
<1>5. CASE ReserveOK(wallet) /\ wallet' = Reserve(wallet)
  BY <1>1, <1>3, <1>5, ReserveEffect DEF Reserves, ReserveOK, Unclaimed
<1> QED BY <1>2, <1>4, <1>5

LEMMA CaptureMoney ==
    ASSUME JobInv, NEW x \in Workers, WorkerCapture(x)
    PROVE  MoneyStays \/ Counts \/ Captures
<1>1. TypeOK /\ Flow /\ Claimed /\ Refunds /\ Knows(x)
  BY DEF JobInv, RowInv
<1>2. \/ wallet' = wallet
      \/ private /\ wallet' = Apply(wallet)
      \/ ~private /\ CaptureOK(wallet) /\ wallet' = Capture(wallet)
  BY DEF WorkerCapture
<1>3. job.named /\ SettlementOver
  BY <1>1 DEF WorkerCapture, Knows, KnowsName, KnowsSuccess, SettlePath
<1>4. CASE wallet' = wallet
  BY <1>4 DEF MoneyStays
<1>5. CASE Charged /\ wallet' # wallet
  BY <1>2, <1>5 DEF Apply, Capture, Unclaimed, Charged
<1>6. CASE ~Charged /\ private /\ wallet' = Apply(wallet)
  BY <1>1, <1>6, ApplyEffect DEF Counts, Claimed
<1>7. CASE ~Charged /\ ~private /\ CaptureOK(wallet) /\ wallet' = Capture(wallet)
  <2>1. wallet.frozen >= Hold /\ "hold" \in wallet.claims
    BY <1>1, <1>3, <1>7 DEF CaptureOK, Unclaimed, Charged, Claimed
  <2>2. wallet.given => Doubtful
    BY <1>1, <1>3 DEF Refunds, SettlementOver, Doubtful, Settled, Refunding
  <2> QED BY <1>1, <1>7, <2>1, <2>2, CaptureEffect DEF Captures
<1> QED BY <1>2, <1>4, <1>5, <1>6, <1>7

\* Everything else leaves the billing store alone.
LEMMA MoneyStep ==
    ASSUME JobInv, [Next]_vars
    PROVE  MoneyStays \/ Counts \/ Reserves \/ Captures \/ GivesBack
<1>0. RowInv /\ \A x \in Workers : Knows(x)
  BY DEF JobInv
<1>1. wallet' = wallet => MoneyStays
  BY DEF MoneyStays
<1>2. CASE UNCHANGED vars
  BY <1>1, <1>2 DEF vars
<1>3. CASE Submitter
  <2>1. CASE ReserveHold
    BY <2>1, ReserveMoney
  <2>2. CASE SubmitRelease
    BY <2>2, ReleaseMoney DEF SubmitRelease
  <2>3. ASSUME ~ReserveHold, ~SubmitRelease PROVE wallet' = wallet
    BY <1>3, <2>3
    DEF Submitter, Create, StartUpload, SubmitHeartbeat, ProviderSubmit, PersistSubmit, AbortOrphan,
        SubmitEnqueue, RecordSubmitFailure, SubmitRetry
  <2> QED BY <1>1, <2>1, <2>2, <2>3
<1>4. CASE Client
  <2>1. CASE CancelRelease
    <3>1. job.status \in Refunding
      BY <1>0, <2>1 DEF CancelRelease, RowInv, Refunds
    <3> QED BY <2>1, <3>1, ReleaseMoney DEF CancelRelease
  <2>2. ASSUME ~CancelRelease PROVE wallet' = wallet
    BY <1>4, <2>2
    DEF Client, CancelReads, CancelProvider, CancelTransition, CancelEnqueue, ResubmitReads,
        ResubmitEnqueue, DeleteRecord, DeleteOutputs
  <2> QED BY <1>1, <2>1, <2>2
<1>5. CASE Recovery
  <2>1. CASE RecoveryRelease
    <3>1. job.status \in Refunding
      BY <1>0, <2>1 DEF RecoveryRelease, RowInv, Refunds
    <3> QED BY <2>1, <3>1, ReleaseMoney DEF RecoveryRelease
  <2>2. ASSUME ~RecoveryRelease PROVE wallet' = wallet
    BY <1>5, <2>2 DEF Recovery, ListStale, FailStale, RecoveryRetry
  <2> QED BY <1>1, <2>1, <2>2
<1>6. ASSUME NEW x \in Workers, Worker(x)
      PROVE  MoneyStays \/ Counts \/ Reserves \/ Captures \/ GivesBack
  <2>1. CASE WorkerCapture(x)
    BY <2>1, CaptureMoney
  <2>2. CASE WorkerRelease(x)
    <3>1. job.status \in Refunding
      BY <1>0, <2>2 DEF WorkerRelease, Knows
    <3> QED BY <2>2, <3>1, ReleaseMoney DEF WorkerRelease
  <2>3. CASE ExhaustedRelease(x)
    <3>1. Doubtful
      BY <1>0, <2>3 DEF ExhaustedRelease, Knows, Doubtful
    <3> QED BY <2>3, <3>1, ReleaseMoney DEF ExhaustedRelease
  <2>4. ASSUME ~WorkerCapture(x), ~WorkerRelease(x), ~ExhaustedRelease(x) PROVE wallet' = wallet
    BY <1>6, <2>4
    DEF Worker, WorkerReserve, WorkerLock, PipelineReads, ProcessorReads, WorkerPolls,
        WorkerTransition, WorkerIndexes, SettleReads, WorkerRecords, WorkerMarks, WorkerRechecks,
        WorkerReadFails, WorkerEnds
  <2> QED BY <1>1, <2>1, <2>2, <2>3, <2>4
<1>7. CASE Loops \/ Crashes
  <2>1. wallet' = wallet
    BY <1>7
    DEF Loops, Crashes, MoveDueDelayed, RecoverStaleActive, LockExpires, Ages, ProviderFinishes,
        SubmitDies, ClientDies, RecoveryDies, WorkerDies
  <2> QED BY <1>1, <2>1
<1> QED BY <1>2, <1>3, <1>4, <1>5, <1>6, <1>7 DEF Next

\* A step of the job is a step of the ledger, or leaves it alone.
LEMMA LedgerStep ==
    ASSUME JobInv, [Next]_vars
    PROVE  Ledger!Next
<1>1. Doubtful => Doubtful'
  BY JobStep DEF Advances, Doubtful
<1>2. CASE MoneyStays \/ Counts
  <2>1. HoldState' = HoldState
    BY <1>2 DEF MoneyStays, Counts, HoldState, Charged
  <2> QED BY <1>1, <1>2, <2>1 DEF MoneyStays, Counts, Ledger!Next, Ledger!Elsewhere
<1>3. CASE Reserves
  <2>1. HoldState = "none" /\ HoldState' = "held"
    BY <1>3 DEF Reserves, HoldState, Charged
  <2> QED BY <1>1, <1>3, <2>1 DEF Reserves, Ledger!Next, Ledger!Reserve
<1>4. CASE Captures
  <2>1. \/ HoldState = "held" /\ HoldState' = "captured"
        \/ HoldState = "released" /\ HoldState' = "both" /\ Doubtful
    BY <1>4 DEF Captures, HoldState, Charged
  <2>2. Ledger!Capture(Cost)
    BY <1>4, <2>1 DEF Captures, Ledger!Capture, Ledger!Ends
  <2> QED BY <1>1, <2>2, AmountsAssumption DEF Ledger!Next
<1>5. CASE GivesBack
  <2>1. \/ HoldState = "held" /\ HoldState' = "released"
        \/ HoldState = "captured" /\ HoldState' = "both" /\ Doubtful
    BY <1>5 DEF GivesBack, GivenBack, HoldState, Charged
  <2>2. Ledger!Release
    BY <1>5, <2>1 DEF GivesBack, GivenBack, Ledger!Release, Ledger!Ends
  <2> QED BY <1>1, <2>2 DEF Ledger!Next
<1> QED BY <1>2, <1>3, <1>4, <1>5, MoneyStep

\* The statements of Submit, Cancel, recovery and the workers implement the
\* ledger of holds, for any amounts, retries, workers and faults.
THEOREM ImplementsLedger == Spec => LedgerSpec
<1>1. Init => Ledger!Init
  <2> SUFFICES ASSUME Init PROVE Ledger!Init
    OBVIOUS
  <2>1. wallet.balance = Balance /\ wallet.frozen = OtherHold /\ HoldState = "none"
    BY DEF Init, NewWallet, HoldState
  <2>2. Doubtful = FALSE
    BY BoundsAssumption DEF Init, NoJob, Doubtful
  <2> QED BY <2>1, <2>2 DEF Ledger!Init
<1>2. JobInv /\ [Next]_vars => [Ledger!Next]_(Ledger!vars)
  BY LedgerStep
<1> QED BY <1>1, <1>2, JobInvariant, PTL DEF Spec, LedgerSpec, Ledger!Spec
=============================================================================
