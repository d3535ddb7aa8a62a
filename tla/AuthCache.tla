------------------------------ MODULE AuthCache ------------------------------
(***************************************************************************)
(* Authentication of one API key through the two caches in front of the    *)
(* database, and what takes a cached snapshot out of use when the key, its *)
(* user or its group changes.                                              *)
(*                                                                         *)
(* Entries are filed under a generation kept in Redis: whoever advances it *)
(* puts every entry out of sight.  A change advances it after the commit,  *)
(* and a trigger puts a row in the outbox within the transaction, which a  *)
(* worker works off in two passes.  As long as the outbox holds a row, a   *)
(* request does not trust what it found in a cache.  The triggers name the *)
(* columns they look at; a change of a cached field that none of them      *)
(* names has no row, and what usage spends is not invalidated at all.      *)
(*                                                                         *)
(* A step is one statement, Redis command or local operation.  An instance *)
(* may crash, a command or statement fail or lose its answer, Redis evict  *)
(* the generation, a worker outlast its lease, a request outlast the       *)
(* safety delay: each takes a fault.  Messages come or are lost freely.    *)
(***************************************************************************)
EXTENDS Integers, FiniteSets

CONSTANTS
    Instances,  \* server processes, each with a local cache and a worker
    Nobody,     \* no instance
    Readers,    \* requests in flight at a time
    MaxChanges, \* bound on changes
    MaxFaults   \* bound on faults

ASSUME CacheAssumption ==
    /\ Nobody \notin Instances
    /\ MaxChanges \in Nat /\ MaxFaults \in Nat

VARIABLES
    policy,    \* what the database holds: the number of the last change
    live,      \* live[v]: whether the key exists after change v
    outbox,    \* outbox[v]: the row that change v put in, if any
    l2,        \* entries in Redis
    l1,        \* l1[i]: local entries of instance i
    rd,        \* rd[r]: a request
    wk,        \* wk[i][v]: what the worker of i does with event v
    adm,       \* the change in progress
    named,     \* the generation under which it deletes the entry
    firm,      \* the changes that hold for whoever comes in now: those with a
               \* row, and those since which the generation was advanced
    faults

cached == <<l2, l1>>
stored == <<policy, live, outbox>>
change == <<adm, named, firm>>
vars == <<cached, stored, rd, wk, change, faults>>

Changes == 1..MaxChanges

\* Generations are only compared with each other, and none comes back, so one
\* is known by how often the generation was advanced since: 0 is the current.
NoKey == -1
Later(k) == IF k = NoKey THEN NoKey ELSE k + 1

\* An entry: the generation it is filed under, and the change it reflects.
Entries == [gen : Nat, ver : Nat]
Entry(g, v) == [gen |-> g, ver |-> v]

NoRow == [stage |-> "none", by |-> Nobody, leased |-> FALSE, ready |-> FALSE]
Rows == [stage : {"none", "first", "second"}, by : Instances \cup {Nobody},
         leased : BOOLEAN, ready : BOOLEAN]
Pending == \E v \in Changes : outbox[v].stage # "none"

\* start: the changes that held when the request came in.  key: the
\* generation it read.  ver: what it holds.  past: the rows whose first pass
\* came while it was in flight.  late: it outlasted the safety delay of one.
ReaderPCs == {"idle", "key", "l1", "l2", "keep", "load", "set1", "set2", "barrier", "db", "served"}
Reads == [pc : ReaderPCs, at : Instances \cup {Nobody}, start : SUBSET Changes, key : Int, ver : Nat,
          past : SUBSET Changes, late : BOOLEAN]
Away == [pc |-> "idle", at |-> Nobody, start |-> {}, key |-> NoKey, ver |-> 0, past |-> {}, late |-> FALSE]
InFlight(r) == rd[r].pc \notin {"idle", "served"}

NoEvent == [pc |-> "none", second |-> FALSE]
Events == [pc : {"none", "incr", "publish", "retry", "finish"}, second : BOOLEAN]

\* A change of a key, of its user or group, to a field the triggers name or to
\* another one of the snapshot; a new key; what usage takes from quota or balance.
Kinds == {"protected", "plain", "related", "unlisted", "create", "usage"}
Handlers == [pc : {"idle", "pre", "commit", "post", "name", "drop"}, kind : Kinds \cup {"none", "done"},
             at : Instances \cup {Nobody}]
NoChange == [pc |-> "idle", kind |-> "none", at |-> Nobody]

Fault == faults < MaxFaults /\ faults' = faults + 1
NoFault == UNCHANGED faults

\* Request r goes on, has what it needs from the caches, or is answered.
Goes(r, where) == rd' = [rd EXCEPT ![r].pc = where]
Holds(r, v) == rd' = [rd EXCEPT ![r] = [@ EXCEPT !.pc = "barrier", !.key = NoKey, !.ver = v]]
Serves(r, v) ==
    rd' = [rd EXCEPT ![r] = IF rd[r].late THEN Away
                            ELSE [Away EXCEPT !.pc = "served", !.start = rd[r].start, !.ver = v]]
Fails(r) == Fault /\ rd' = [rd EXCEPT ![r] = Away]

-----------------------------------------------------------------------------
(* The generation in Redis.                                                *)

\* What is filed under a past generation and not about to be looked up cannot
\* be found again, and is left out.
Sought(g) == \E r \in Readers : rd[r].pc \in {"l1", "l2"} /\ rd[r].key = g
Aged(es) == {Entry(e.gen + 1, e.ver) : e \in {x \in es : Sought(x.gen)}}
File(es, e) ==
    IF e.gen = 0 \/ Sought(e.gen) THEN {x \in es : x.gen # e.gen} \cup {e} ELSE es

\* IncrementAuthCacheGeneration, while the instances in Is clear their local
\* cache.
Advance(Is) ==
    /\ l2' = Aged(l2)
    /\ l1' = [i \in Instances |-> IF i \in Is THEN {} ELSE Aged(l1[i])]
    /\ rd' = [r \in Readers |-> [rd[r] EXCEPT !.key = Later(@)]]
    /\ named' = Later(named)
    /\ firm' = 1..policy

Clear(i) == l1' = [l1 EXCEPT ![i] = {}] /\ UNCHANGED <<l2, rd, named, firm>>

-----------------------------------------------------------------------------
(* GetByKey.                                                               *)

Begin(r, i) ==
    /\ ~InFlight(r)
    /\ rd' = [rd EXCEPT ![r] = [Away EXCEPT !.pc = "key", !.at = i, !.start = firm]]
    /\ UNCHANGED <<cached, stored, wk, change, faults>>

\* authCacheKeyForRequest; without a generation the caches are not used.
ReadGeneration(r) ==
    /\ rd[r].pc = "key"
    /\ \/ rd' = [rd EXCEPT ![r] = [@ EXCEPT !.pc = "l1", !.key = 0]] /\ NoFault
       \/ Fault /\ Goes(r, "db")
    /\ UNCHANGED <<cached, stored, wk, change>>

\* The local caches, the negative one included.
GetL1(r) ==
    /\ rd[r].pc = "l1"
    /\ LET hits == {e \in l1[rd[r].at] : e.gen = rd[r].key}
       IN  \/ /\ hits = {}
              /\ Goes(r, "l2")
           \/ \E e \in hits : Holds(r, e.ver)
    /\ UNCHANGED <<cached, stored, wk, change, faults>>

GetL2(r) ==
    /\ rd[r].pc = "l2"
    /\ LET hits == {e \in l2 : e.gen = rd[r].key}
       IN  \/ /\ IF hits = {} THEN NoFault ELSE Fault
              /\ Goes(r, "load")
           \/ \E e \in hits : /\ rd' = [rd EXCEPT ![r] = [@ EXCEPT !.pc = "keep", !.ver = e.ver]]
                              /\ NoFault
    /\ UNCHANGED <<cached, stored, wk, change>>

\* loadAuthCacheEntry.  A request that misses loads and files the entry or,
\* with singleflight, shares what one of the same instance that missed under
\* the same generation has read.
Loading(r) == {x \in Readers : /\ rd[x].pc \in {"set1", "set2"}
                               /\ rd[x].at = rd[r].at /\ rd[x].key = rd[r].key}

Load(r) ==
    /\ rd[r].pc = "load"
    /\ \/ rd' = [rd EXCEPT ![r] = [@ EXCEPT !.pc = "set1", !.ver = policy]] /\ NoFault
       \/ \E x \in Loading(r) : Holds(r, rd[x].ver) /\ NoFault
       \/ Fails(r)
    /\ UNCHANGED <<cached, stored, wk, change>>

\* setAuthCacheL1: what was found in Redis or loaded is kept locally.  A key
\* that does not exist is kept nowhere else.
SetL1(r) ==
    /\ rd[r].pc \in {"keep", "set1"}
    /\ l1' = [l1 EXCEPT ![rd[r].at] = File(@, Entry(rd[r].key, rd[r].ver))]
    /\ IF rd[r].pc = "set1" /\ live[rd[r].ver] THEN Goes(r, "set2") ELSE Holds(r, rd[r].ver)
    /\ UNCHANGED <<l2, stored, wk, change, faults>>

\* Mutant: the entry is filed under the generation of the moment.
SetL2Current(r) ==
    /\ rd[r].pc = "set2"
    /\ l2' = File(l2, Entry(0, rd[r].ver))
    /\ Holds(r, rd[r].ver)
    /\ UNCHANGED <<l1, stored, wk, change, faults>>

\* SetAuthCache, whose failure is ignored.
SetL2(r) ==
    /\ rd[r].pc = "set2"
    /\ \/ l2' = File(l2, Entry(rd[r].key, rd[r].ver)) /\ NoFault
       \/ Fault /\ UNCHANGED l2
    /\ Holds(r, rd[r].ver)
    /\ UNCHANGED <<l1, stored, wk, change>>

\* applyAuthCacheEntryWithBarrier: with a row in the outbox, or when it cannot
\* be read, the database decides.
Barrier(r) ==
    /\ rd[r].pc = "barrier"
    /\ \/ /\ IF Pending THEN Goes(r, "db") ELSE Serves(r, rd[r].ver)
          /\ NoFault
       \/ Fault /\ Goes(r, "db")
    /\ UNCHANGED <<cached, stored, wk, change>>

\* loadAPIKeyForAuthUncached.
LoadUncached(r) ==
    /\ rd[r].pc = "db"
    /\ \/ Serves(r, policy) /\ NoFault
       \/ Fails(r)
    /\ UNCHANGED <<cached, stored, wk, change>>

-----------------------------------------------------------------------------
(* Changes, one at a time.  A protected key is known by its digest: Update *)
(* and Delete advance the generation before and after the commit, and fail *)
(* when the first cannot be done.  A key kept in plain text, as before, is *)
(* invalidated by name after the commit, and so is a new key; a change to  *)
(* the user or the group advances the generation after the commit, and     *)
(* what a request cost is only written.                                    *)

StartChange(i, k) ==
    /\ adm.pc = "idle"
    /\ policy < MaxChanges
    /\ IF k = "create" THEN policy = 0 /\ ~live[0] ELSE live[policy]
    /\ adm' = [pc |-> IF k = "protected" THEN "pre" ELSE "commit", kind |-> k, at |-> i]
    /\ UNCHANGED <<named, firm, cached, stored, rd, wk, faults>>

\* invalidateAllAuthCache: the generation, the local cache, the message.  The
\* command may fail, or its answer be lost.
InvalidateAll ==
    /\ adm.pc \in {"pre", "post"}
    /\ \/ /\ Advance({adm.at})
          /\ adm' = IF adm.pc = "pre" THEN [adm EXCEPT !.pc = "commit"] ELSE NoChange
          /\ NoFault
       \/ /\ Advance({adm.at}) \/ Clear(adm.at)
          /\ adm' = NoChange
          /\ Fault
    /\ UNCHANGED <<stored, wk>>

\* The triggers see updates of the columns they name and deletions.
Enqueues(k) == k \in {"protected", "plain", "related"}

\* The transaction.  A failed statement changes nothing; a lost answer ends
\* the handler.
Commit ==
    /\ adm.pc = "commit"
    /\ \/ /\ policy' = policy + 1
          /\ \E b \in BOOLEAN :
               /\ adm.kind \notin {"protected", "plain"} => b
               /\ live' = [live EXCEPT ![policy + 1] = b]
          /\ IF Enqueues(adm.kind)
             THEN /\ outbox' = [outbox EXCEPT ![policy + 1] = [NoRow EXCEPT !.stage = "first", !.ready = TRUE]]
                  /\ firm' = firm \cup {policy + 1}
             ELSE UNCHANGED <<outbox, firm>>
          /\ \/ /\ adm' = IF adm.kind = "usage" THEN NoChange
                           ELSE [adm EXCEPT !.pc = IF adm.kind \in {"plain", "create"} THEN "name" ELSE "post",
                                            !.kind = "done"]
                /\ NoFault
             \/ Fault /\ adm' = NoChange
       \/ Fault /\ adm' = NoChange /\ UNCHANGED <<stored, firm>>
    /\ UNCHANGED <<named, cached, rd, wk>>

\* InvalidateAuthCacheByKey reads the generation; then deleteAuthCache drops
\* the entry here, in Redis and, by a message, elsewhere.
NameKey ==
    /\ adm.pc = "name"
    /\ \/ adm' = [adm EXCEPT !.pc = "drop"] /\ named' = 0 /\ NoFault
       \/ adm' = [adm EXCEPT !.pc = "post"] /\ UNCHANGED named /\ Fault
    /\ UNCHANGED <<firm, cached, stored, rd, wk>>

DeleteEntry ==
    /\ adm.pc = "drop"
    /\ l1' = [l1 EXCEPT ![adm.at] = {e \in @ : e.gen # named}]
    /\ \/ l2' = {e \in l2 : e.gen # named} /\ NoFault
       \/ Fault /\ UNCHANGED l2
    /\ adm' = NoChange /\ named' = NoKey
    /\ UNCHANGED <<firm, stored, rd, wk>>

-----------------------------------------------------------------------------
(* The worker of an instance.                                              *)

\* Claim takes the rows that are available, and unclaimed or with a lease run
\* out, once the previous batch is done.  The answer may be lost.
Claim(i) ==
    LET due == {v \in Changes : /\ outbox[v].stage # "none" /\ outbox[v].ready
                                /\ outbox[v].by = Nobody \/ ~outbox[v].leased}
    IN  /\ \A v \in Changes : wk[i][v].pc = "none"
        /\ due # {}
        /\ outbox' = [v \in Changes |-> IF v \in due THEN [outbox[v] EXCEPT !.by = i, !.leased = TRUE]
                                        ELSE outbox[v]]
        /\ \/ /\ wk' = [wk EXCEPT ![i] = [v \in Changes |->
                          IF v \in due THEN [pc |-> "incr", second |-> outbox[v].stage = "second"]
                          ELSE NoEvent]]
              /\ NoFault
           \/ Fault /\ UNCHANGED wk
        /\ UNCHANGED <<cached, policy, live, rd, change>>

\* processEvent: the local cache, then the generation, then the message.
AdvanceGeneration(i, v) ==
    /\ wk[i][v].pc = "incr"
    /\ \/ /\ Advance({i})
          /\ wk' = [wk EXCEPT ![i][v].pc = "publish"]
          /\ NoFault
       \/ /\ Advance({i}) \/ Clear(i)
          /\ wk' = [wk EXCEPT ![i][v].pc = "retry"]
          /\ Fault
    /\ UNCHANGED <<stored, adm>>

PublishAll(i, v) ==
    /\ wk[i][v].pc = "publish"
    /\ \/ wk' = [wk EXCEPT ![i][v].pc = "finish"] /\ NoFault
       \/ Fault /\ wk' = [wk EXCEPT ![i][v].pc = "retry"]
    /\ UNCHANGED <<l2, l1, stored, rd, change>>

\* RetryClaimed, ScheduleSecondPass and DeleteClaimed change a row only for
\* the worker that has it claimed.  After a failure the lease runs out.
Settle(i, v, new) ==
    /\ \/ outbox' = [outbox EXCEPT ![v] = IF @.by = i THEN new ELSE @] /\ NoFault
       \/ Fault /\ UNCHANGED outbox
    /\ wk' = [wk EXCEPT ![i][v] = NoEvent]

RetryClaimed(i, v) ==
    /\ wk[i][v].pc = "retry"
    /\ Settle(i, v, [NoRow EXCEPT !.stage = outbox[v].stage])
    /\ UNCHANGED <<cached, policy, live, rd, change>>

\* Mutant: one pass is enough.
ScheduleDeletes(i, v) ==
    /\ wk[i][v].pc = "finish" /\ ~wk[i][v].second
    /\ outbox' = [outbox EXCEPT ![v] = IF @.by = i THEN NoRow ELSE @]
    /\ wk' = [wk EXCEPT ![i][v] = NoEvent]
    /\ UNCHANGED <<cached, policy, live, rd, change, faults>>

\* The second pass is due after the safety delay.
ScheduleSecondPass(i, v) ==
    /\ wk[i][v].pc = "finish" /\ ~wk[i][v].second
    /\ Settle(i, v, IF outbox[v].stage = "first" THEN [NoRow EXCEPT !.stage = "second"] ELSE outbox[v])
    /\ rd' = IF outbox'[v].stage = "second" /\ outbox[v].stage = "first"
             THEN [r \in Readers |-> IF InFlight(r) THEN [rd[r] EXCEPT !.past = @ \cup {v}] ELSE rd[r]]
             ELSE rd
    /\ UNCHANGED <<cached, policy, live, change>>

DeleteClaimed(i, v) ==
    /\ wk[i][v].pc = "finish" /\ wk[i][v].second
    /\ Settle(i, v, NoRow)
    /\ UNCHANGED <<cached, policy, live, rd, change>>

-----------------------------------------------------------------------------
(* Messages, time and failures.                                            *)

\* A local entry expires, or the subscriber of the instance receives one of
\* the messages sent above, which may come late, in any order or never.
LocalExpires(i) ==
    /\ l1[i] # {}
    /\ l1' = [l1 EXCEPT ![i] = {}]
    /\ UNCHANGED <<l2, stored, rd, wk, change, faults>>

RedisExpires ==
    /\ l2 # {}
    /\ l2' = {}
    /\ UNCHANGED <<l1, stored, rd, wk, change, faults>>

\* A row becomes available: a retry after its backoff, the second pass after
\* the safety delay, which is longer than a request takes.
BecomesReady(v) ==
    /\ outbox[v].stage # "none" /\ ~outbox[v].ready /\ outbox[v].by = Nobody
    /\ LET slow == {r \in Readers : InFlight(r) /\ v \in rd[r].past}
       IN  /\ IF slow = {} \/ outbox[v].stage = "first" THEN NoFault ELSE Fault
           /\ rd' = [r \in Readers |-> IF r \in slow /\ outbox[v].stage = "second"
                                       THEN [rd[r] EXCEPT !.late = TRUE] ELSE rd[r]]
    /\ outbox' = [outbox EXCEPT ![v].ready = TRUE]
    /\ UNCHANGED <<cached, policy, live, wk, change>>

\* The lease of a claim runs out, on a worker that still has it as a fault.
LeaseExpires(v) ==
    /\ outbox[v].by # Nobody /\ outbox[v].leased
    /\ IF wk[outbox[v].by][v].pc = "none" THEN NoFault ELSE Fault
    /\ outbox' = [outbox EXCEPT ![v].leased = FALSE]
    /\ UNCHANGED <<cached, policy, live, rd, wk, change>>

\* Redis evicts the generation; the next to read it starts a new one.
Evict ==
    /\ Fault
    /\ Advance({})
    /\ UNCHANGED <<stored, wk, adm>>

\* An instance crashes and starts again, with a worker ID of its own.
Crash(i) ==
    /\ Fault
    /\ l1' = [l1 EXCEPT ![i] = {}]
    /\ rd' = [r \in Readers |-> IF rd[r].at = i THEN Away ELSE rd[r]]
    /\ wk' = [wk EXCEPT ![i] = [v \in Changes |-> NoEvent]]
    /\ adm' = IF adm.at = i THEN NoChange ELSE adm
    /\ named' = IF adm.at = i THEN NoKey ELSE named
    /\ UNCHANGED <<firm, l2, stored>>

-----------------------------------------------------------------------------
Init ==
    /\ policy = 0
    /\ live \in {[v \in 0..MaxChanges |-> v = 0 /\ b] : b \in BOOLEAN}
    /\ outbox = [v \in Changes |-> NoRow]
    /\ l2 = {}
    /\ l1 = [i \in Instances |-> {}]
    /\ rd = [r \in Readers |-> Away]
    /\ wk = [i \in Instances |-> [v \in Changes |-> NoEvent]]
    /\ adm = NoChange /\ named = NoKey /\ firm = {}
    /\ faults = 0

GetByKey(r) ==
    \/ ReadGeneration(r) \/ GetL1(r) \/ GetL2(r) \/ Load(r)
    \/ SetL1(r) \/ SetL2(r) \/ Barrier(r) \/ LoadUncached(r)

Handler == InvalidateAll \/ Commit \/ NameKey \/ DeleteEntry

Worker(i) ==
    \/ Claim(i)
    \/ \E v \in Changes : \/ AdvanceGeneration(i, v) \/ PublishAll(i, v) \/ RetryClaimed(i, v)
                          \/ ScheduleSecondPass(i, v) \/ DeleteClaimed(i, v)

Next ==
    \/ \E r \in Readers, i \in Instances : Begin(r, i)
    \/ \E r \in Readers : GetByKey(r)
    \/ \E i \in Instances, k \in Kinds : StartChange(i, k)
    \/ Handler
    \/ \E i \in Instances : Worker(i) \/ LocalExpires(i) \/ Crash(i)
    \/ \E v \in Changes : BecomesReady(v) \/ LeaseExpires(v)
    \/ RedisExpires \/ Evict

Spec == Init /\ [][Next]_vars

-----------------------------------------------------------------------------
(* Properties.                                                             *)

TypeOK ==
    /\ policy \in 0..MaxChanges
    /\ live \in [0..MaxChanges -> BOOLEAN]
    /\ outbox \in [Changes -> Rows]
    /\ l2 \subseteq Entries
    /\ l1 \in [Instances -> SUBSET Entries]
    /\ rd \in [Readers -> Reads]
    /\ wk \in [Instances -> [Changes -> Events]]
    /\ adm \in Handlers
    /\ named \in Int
    /\ firm \subseteq 1..policy
    /\ faults \in 0..MaxFaults

\* A request is never let in by what the key, its user or its group was before
\* a change that held when the request came in: one with a row in the outbox,
\* which holds from its commit (a revoked key stays revoked, at every instance
\* and whatever invalidations were lost), or any other that was committed when
\* the generation was last advanced.  A request that itself outlasted the
\* safety delay is excused.
FreshAuthorization ==
    \A r \in Readers :
        rd[r].pc = "served" /\ live[rd[r].ver] => \A v \in rd[r].start : rd[r].ver >= v

\* What a request finds in a cache: filed under the current generation.
Visible == {e \in l2 \cup UNION {l1[i] : i \in Instances} : e.gen = 0}

\* Once the outbox is empty, and the barrier of a request therefore open, no
\* cache shows an admitting snapshot of before a change that had a row, nor of
\* before another change since which the generation was advanced.
VisibleIsCurrent ==
    ~Pending => \A e \in Visible : live[e.ver] => \A v \in firm : e.ver >= v

=============================================================================
