--------------------------- MODULE AuthCacheProofs ---------------------------
(***************************************************************************)
(* A request is let in by what a change left, not by what it replaced, for *)
(* any number of instances, requests, changes and faults, once the change  *)
(* is firm: it has a row, or the generation was advanced after it.         *)
(*                                                                         *)
(* The argument.  Call a generation clean of a change when nothing filed   *)
(* under it, and nothing a request is about to file under it, is a         *)
(* snapshot of before the change that would let a key in.  A generation    *)
(* that begins after the commit is clean of it and stays so: what is filed *)
(* is what was loaded, or found, under the same generation.  So the        *)
(* current generation is clean of every firm change that waits for no      *)
(* first pass (Swept), and a request that came in after a firm change uses *)
(* a clean generation, or the change's row is in the outbox and stays      *)
(* there until the request is late (Safe).                                 *)
(***************************************************************************)
EXTENDS AuthCache, TLAPS

\* A request that is about to file what it holds; and one that uses a generation.
Holding == {"keep", "set1", "set2"}
Keyed == {"l1", "l2", "load"} \cup Holding

\* Change v replaced w, which would let the key in.
Replaced(w, v) == w < v /\ live[w]

Clean(v, g) ==
    /\ \A e \in l2 : e.gen = g => ~Replaced(e.ver, v)
    /\ \A i \in Instances : \A e \in l1[i] : e.gen = g => ~Replaced(e.ver, v)
    /\ \A r \in Readers : rd[r].pc \in Holding /\ rd[r].key = g => ~Replaced(rd[r].ver, v)

\* Nothing is ahead of the database.
Committed ==
    \A v \in Changes : /\ outbox[v].stage # "none" => v <= policy
                       /\ \A i \in Instances : wk[i][v] # NoEvent => v <= policy

Bounded ==
    /\ \A e \in l2 : e.ver <= policy
    /\ \A i \in Instances : \A e \in l1[i] : e.ver <= policy
    /\ Committed

\* There is room for the change in progress; the second pass comes second.
Passes ==
    /\ adm.pc \in {"pre", "commit"} => policy < MaxChanges
    /\ \A i \in Instances, v \in Changes : wk[i][v].second => outbox[v].stage # "first"

\* Change v is firm, and was taken through its first pass if it has a row.
Passed(v) ==
    /\ v \in firm
    /\ outbox[v].stage # "first" \/ \E i \in Instances : wk[i][v].pc \in {"publish", "finish"}

Swept == \A v \in Changes : Passed(v) => Clean(v, 0)

\* The second pass of change v waits for request r.
Waits(v, r) ==
    v \in rd[r].past /\ outbox[v].stage = "second" /\ ~outbox[v].ready /\ outbox[v].by = Nobody

SafeFrom(r, v) ==
    \/ outbox[v].stage = "first" \/ Waits(v, r)
    \/ rd[r].pc \in {"key", "db"}
    \/ rd[r].pc \in Keyed /\ Clean(v, rd[r].key)
    \/ rd[r].pc = "barrier" /\ ~Replaced(rd[r].ver, v)

Safe(r) ==
    /\ rd[r].ver <= policy /\ rd[r].start \subseteq firm
    /\ InFlight(r) => rd[r].at \in Instances
    /\ rd[r].pc \in Keyed => rd[r].key >= 0
    /\ InFlight(r) /\ ~rd[r].late => \A v \in rd[r].start : SafeFrom(r, v)
    /\ rd[r].pc = "served" /\ live[rd[r].ver] => \A v \in rd[r].start : rd[r].ver >= v

CacheInv == TypeOK /\ Bounded /\ Passes /\ Swept /\ \A r \in Readers : Safe(r)

-----------------------------------------------------------------------------
(* What steps do to a clean generation.                                    *)

\* The database only goes forward.
Forward ==
    /\ policy' \in Nat /\ policy <= policy' /\ firm \subseteq firm'
    /\ \A w \in 0..MaxChanges : w <= policy => live'[w] = live[w]

\* What is filed was held under the same generation, and what is held was
\* held before, or is what the database has, or was found in Redis.
Sourced ==
    /\ \A e \in l2' : \/ e \in l2
                      \/ \E x \in Readers : /\ rd[x].pc \in Holding
                                             /\ e.gen = rd[x].key /\ e.ver = rd[x].ver
    /\ \A i \in Instances : \A e \in l1'[i] :
            \/ e \in l1[i]
            \/ \E x \in Readers : /\ rd[x].pc \in Holding
                                  /\ e.gen = rd[x].key /\ e.ver = rd[x].ver
    /\ \A r \in Readers : rd'[r].pc \in Holding =>
            \/ rd[r].pc \in Holding /\ rd'[r].key = rd[r].key /\ rd'[r].ver = rd[r].ver
            \/ rd'[r].ver = policy
            \/ \E e \in l2 : e.gen = rd'[r].key /\ e.ver = rd'[r].ver

\* What the types say.
LEMMA CacheFacts ==
    ASSUME TypeOK
    PROVE  /\ policy \in Nat /\ policy <= MaxChanges /\ MaxChanges \in Nat
           /\ \A v \in Changes : v \in Nat /\ v >= 1 /\ v <= MaxChanges
           /\ \A v \in firm : v \in Changes /\ v <= policy
           /\ \A e \in l2 : e.gen \in Nat /\ e.ver \in Nat
           /\ \A i \in Instances : \A e \in l1[i] : e.gen \in Nat /\ e.ver \in Nat
           /\ \A r \in Readers : rd[r].ver \in Nat /\ rd[r].start \subseteq Changes /\ rd[r].key \in Int
<1>1. /\ policy \in Nat /\ policy <= MaxChanges /\ MaxChanges \in Nat
      /\ \A v \in Changes : v \in Nat /\ v >= 1 /\ v <= MaxChanges
  BY CacheAssumption DEF TypeOK, Changes
<1>2. \A e \in l2 : e.gen \in Nat /\ e.ver \in Nat
  BY DEF TypeOK, Entries
<1>3. \A i \in Instances : \A e \in l1[i] : e.gen \in Nat /\ e.ver \in Nat
  BY DEF TypeOK, Entries
<1>4. \A r \in Readers : rd[r].ver \in Nat /\ rd[r].start \subseteq Changes /\ rd[r].key \in Int
  BY DEF TypeOK, Reads
<1>5. \A v \in firm : v \in Changes /\ v <= policy
  BY <1>1 DEF TypeOK, Changes
<1> QED BY <1>1, <1>2, <1>3, <1>4, <1>5

\* A generation that is clean of a change stays so.
LEMMA CleanKept ==
    ASSUME CacheInv, Forward, Sourced, NEW v \in Changes, v <= policy, NEW g, Clean(v, g)
    PROVE  Clean(v, g)'
<1>0. TypeOK /\ Bounded /\ \A r \in Readers : rd[r].ver <= policy
  BY DEF CacheInv, Safe
<1>1. \A w \in Nat : w <= policy /\ ~Replaced(w, v) => ~Replaced(w, v)'
  BY <1>0, CacheFacts DEF Replaced, Forward
<1>2. ~Replaced(policy, v)
  BY <1>0, CacheFacts DEF Replaced
<1>3. ASSUME NEW r \in Readers, rd[r].pc \in Holding, rd[r].key = g PROVE ~Replaced(rd[r].ver, v)
  BY <1>3 DEF Clean
<1>4. ASSUME NEW e \in l2', e.gen = g PROVE ~Replaced(e.ver, v)'
  <2>1. CASE e \in l2
    <3>1. ~Replaced(e.ver, v) /\ e.ver \in Nat /\ e.ver <= policy
      BY <1>0, <1>4, <2>1, CacheFacts DEF Clean, Bounded
    <3> QED BY <1>1, <3>1
  <2>2. CASE e \notin l2
    <3> PICK x \in Readers : rd[x].pc \in Holding /\ e.gen = rd[x].key /\ e.ver = rd[x].ver
      BY <1>4, <2>2 DEF Sourced
    <3>1. ~Replaced(rd[x].ver, v) /\ rd[x].ver \in Nat /\ rd[x].ver <= policy
      BY <1>0, <1>3, <1>4, CacheFacts
    <3> QED BY <1>1, <3>1
  <2> QED BY <2>1, <2>2
<1>5. ASSUME NEW i \in Instances, NEW e \in l1'[i], e.gen = g PROVE ~Replaced(e.ver, v)'
  <2>1. CASE e \in l1[i]
    <3>1. ~Replaced(e.ver, v) /\ e.ver \in Nat /\ e.ver <= policy
      BY <1>0, <1>5, <2>1, CacheFacts DEF Clean, Bounded
    <3> QED BY <1>1, <3>1
  <2>2. CASE e \notin l1[i]
    <3> PICK x \in Readers : rd[x].pc \in Holding /\ e.gen = rd[x].key /\ e.ver = rd[x].ver
      BY <1>5, <2>2 DEF Sourced
    <3>1. ~Replaced(rd[x].ver, v) /\ rd[x].ver \in Nat /\ rd[x].ver <= policy
      BY <1>0, <1>3, <1>5, CacheFacts
    <3> QED BY <1>1, <3>1
  <2> QED BY <2>1, <2>2
<1>6. ASSUME NEW r \in Readers, rd'[r].pc \in Holding, rd'[r].key = g PROVE ~Replaced(rd[r].ver, v)'
  <2>1. \E w \in Nat : w = rd'[r].ver /\ w <= policy /\ ~Replaced(w, v)
    <3>1. CASE rd[r].pc \in Holding /\ rd'[r].key = rd[r].key /\ rd'[r].ver = rd[r].ver
      BY <1>0, <1>3, <1>6, <3>1, CacheFacts
    <3>2. CASE rd'[r].ver = policy
      BY <1>0, <1>2, <3>2, CacheFacts
    <3>3. CASE \E e \in l2 : e.gen = rd'[r].key /\ e.ver = rd'[r].ver
      BY <1>0, <1>6, <3>3, CacheFacts DEF Clean, Bounded
    <3> QED BY <1>6, <3>1, <3>2, <3>3 DEF Sourced
  <2> QED BY <1>1, <2>1 DEF Replaced
<1> QED BY <1>4, <1>5, <1>6 DEF Clean

\* The generation is advanced: what was filed moves into the past.
Older ==
    /\ \A e \in l2' : \E d \in l2 : e.gen = d.gen + 1 /\ e.ver = d.ver
    /\ \A i \in Instances : \A e \in l1'[i] : \E d \in l1[i] : e.gen = d.gen + 1 /\ e.ver = d.ver
    /\ \A r \in Readers :
         /\ rd'[r].pc = rd[r].pc /\ rd'[r].at = rd[r].at /\ rd'[r].start = rd[r].start
         /\ rd'[r].ver = rd[r].ver /\ rd'[r].past = rd[r].past /\ rd'[r].late = rd[r].late
         /\ rd[r].key >= 0 => rd'[r].key = rd[r].key + 1
    /\ firm \subseteq firm'

CacheTypes ==
    /\ l2' \subseteq Entries /\ l1' \in [Instances -> SUBSET Entries]
    /\ rd' \in [Readers -> Reads] /\ named' \in Int /\ firm' = 1..policy

LEMMA AgedEntries ==
    ASSUME NEW es, es \subseteq Entries
    PROVE  /\ Aged(es) \subseteq Entries
           /\ \A e \in Aged(es) : \E d \in es : e.gen = d.gen + 1 /\ e.ver = d.ver
<1> SUFFICES ASSUME NEW e \in Aged(es)
             PROVE  e \in Entries /\ \E d \in es : e.gen = d.gen + 1 /\ e.ver = d.ver
  OBVIOUS
<1> PICK d \in es : e = Entry(d.gen + 1, d.ver)
  BY DEF Aged
<1>1. d.gen \in Nat /\ d.ver \in Nat
  BY DEF Entries
<1> DEFINE n == d.gen + 1
<1>2. n \in Nat
  BY <1>1
<1>3. e = Entry(n, d.ver)
  OBVIOUS
<1> HIDE DEF n
<1>4. e \in Entries /\ e.gen = n /\ e.ver = d.ver
  BY <1>1, <1>2, <1>3 DEF Entry, Entries
<1> QED BY <1>4 DEF n

LEMMA AdvanceEffect ==
    ASSUME TypeOK, NEW Is, Advance(Is)
    PROVE  Older /\ CacheTypes
<1>1. l2' \subseteq Entries /\ \A e \in l2' : \E d \in l2 : e.gen = d.gen + 1 /\ e.ver = d.ver
  BY AgedEntries DEF TypeOK, Advance
<1>2. ASSUME NEW i \in Instances
      PROVE  /\ l1'[i] \subseteq Entries
             /\ \A e \in l1'[i] : \E d \in l1[i] : e.gen = d.gen + 1 /\ e.ver = d.ver
  <2>1. l1'[i] = {} \/ l1'[i] = Aged(l1[i])
    BY DEF Advance
  <2>2. l1[i] \subseteq Entries
    BY DEF TypeOK
  <2> QED BY <2>1, <2>2, AgedEntries
<1>3. l1' \in [Instances -> SUBSET Entries]
  BY <1>2 DEF Advance
<1>4. \A k \in Int : Later(k) \in Int /\ (k >= 0 => Later(k) = k + 1)
  BY DEF Later, NoKey
<1>5. ASSUME NEW r \in Readers
      PROVE  /\ rd'[r] \in Reads
             /\ rd'[r].pc = rd[r].pc /\ rd'[r].at = rd[r].at /\ rd'[r].start = rd[r].start
             /\ rd'[r].ver = rd[r].ver /\ rd'[r].past = rd[r].past /\ rd'[r].late = rd[r].late
             /\ rd'[r].key = Later(rd[r].key)
  <2>1. rd'[r] = [rd[r] EXCEPT !.key = Later(rd[r].key)]
    BY DEF Advance
  <2>2. rd[r] \in Reads /\ rd[r].key \in Int
    BY DEF TypeOK, Reads
  <2>3. Later(rd[r].key) \in Int
    BY <1>4, <2>2
  <2> QED BY <2>1, <2>2, <2>3 DEF Reads
<1>6. rd' \in [Readers -> Reads]
  BY <1>5 DEF Advance
<1>7. \A r \in Readers : rd[r].key >= 0 => rd'[r].key = rd[r].key + 1
  BY <1>4, <1>5 DEF TypeOK, Reads
<1>8. named' \in Int
  BY <1>4 DEF TypeOK, Advance
<1>9. firm' = 1..policy /\ firm \subseteq firm'
  BY DEF TypeOK, Advance
<1> QED BY <1>1, <1>2, <1>3, <1>5, <1>6, <1>7, <1>8, <1>9 DEF Older, CacheTypes

\* The new generation is clean of everything, and a clean one stays so.
LEMMA OlderCleans ==
    ASSUME CacheInv, Older, UNCHANGED live, NEW v \in Changes
    PROVE  /\ Clean(v, 0)'
           /\ \A g \in Nat : Clean(v, g) => Clean(v, g + 1)'
<1>0. TypeOK /\ \A r \in Readers : rd[r].pc \in Keyed => rd[r].key >= 0
  BY DEF CacheInv, Safe
<1>1. \A r \in Readers : rd'[r].pc \in Holding =>
            /\ rd[r].pc \in Holding /\ rd[r].key \in Nat
            /\ rd'[r].key = rd[r].key + 1 /\ rd'[r].ver = rd[r].ver
  BY <1>0, CacheFacts DEF Older, Keyed, Holding
<1>2. /\ \A e \in l2' : \E d \in l2 : d.gen \in Nat /\ e.gen = d.gen + 1 /\ e.ver = d.ver
      /\ \A i \in Instances : \A e \in l1'[i] :
            \E d \in l1[i] : d.gen \in Nat /\ e.gen = d.gen + 1 /\ e.ver = d.ver
  <2>1. ASSUME NEW e \in l2' PROVE \E d \in l2 : d.gen \in Nat /\ e.gen = d.gen + 1 /\ e.ver = d.ver
    BY <1>0, <2>1, CacheFacts DEF Older
  <2>2. ASSUME NEW i \in Instances, NEW e \in l1'[i]
        PROVE  \E d \in l1[i] : d.gen \in Nat /\ e.gen = d.gen + 1 /\ e.ver = d.ver
    BY <1>0, <2>2, CacheFacts DEF Older
  <2> QED BY <2>1, <2>2
<1>3. Clean(v, 0)'
  BY <1>1, <1>2 DEF Clean
<1>4. ASSUME NEW g \in Nat, Clean(v, g) PROVE Clean(v, g + 1)'
  <2>1. ASSUME NEW e \in l2', e.gen = g + 1 PROVE ~Replaced(e.ver, v)'
    <3> PICK d \in l2 : d.gen \in Nat /\ e.gen = d.gen + 1 /\ e.ver = d.ver
      BY <1>2
    <3>1. d.gen = g
      BY <2>1
    <3> QED BY <1>4, <3>1 DEF Clean, Replaced
  <2>2. ASSUME NEW i \in Instances, NEW e \in l1'[i], e.gen = g + 1 PROVE ~Replaced(e.ver, v)'
    <3> PICK d \in l1[i] : d.gen \in Nat /\ e.gen = d.gen + 1 /\ e.ver = d.ver
      BY <1>2
    <3>1. d.gen = g
      BY <2>2
    <3> QED BY <1>4, <3>1 DEF Clean, Replaced
  <2>3. ASSUME NEW r \in Readers, rd'[r].pc \in Holding, rd'[r].key = g + 1
        PROVE  ~Replaced(rd[r].ver, v)'
    <3>1. rd[r].pc \in Holding /\ rd[r].key = g /\ rd'[r].ver = rd[r].ver
      BY <1>1, <2>3
    <3> QED BY <1>4, <3>1 DEF Clean, Replaced
  <2> QED BY <2>1, <2>2, <2>3 DEF Clean
<1> QED BY <1>3, <1>4

-----------------------------------------------------------------------------
(* What a request keeps while others step.                                 *)

\* A row whose first pass is to come, or whose second pass waits, is left alone.
RowKept(v) ==
    /\ outbox[v].stage = "first" => outbox'[v].stage = "first"
    /\ outbox[v].stage = "second" /\ ~outbox[v].ready /\ outbox[v].by = Nobody
         => outbox'[v].stage = "second" /\ ~outbox'[v].ready /\ outbox'[v].by = Nobody

\* The request does not move.
Rests(r) ==
    /\ rd'[r].pc = rd[r].pc /\ rd'[r].at = rd[r].at
    /\ rd'[r].start = rd[r].start /\ rd'[r].ver = rd[r].ver
    /\ rd[r].late => rd'[r].late
    /\ rd[r].past \subseteq rd'[r].past

LEMMA SafeKept ==
    ASSUME CacheInv, Forward, NEW r \in Readers, Rests(r),
           rd[r].pc \in Keyed => rd'[r].key >= 0,
           \A v \in Changes : v <= policy /\ rd[r].pc \in Keyed /\ Clean(v, rd[r].key)
                                => \E g : g = rd'[r].key /\ Clean(v, g)',
           \A v \in Changes : v <= policy /\ InFlight(r) =>
               /\ outbox[v].stage = "first" => outbox'[v].stage = "first" \/ Waits(v, r)'
               /\ Waits(v, r) => Waits(v, r)' \/ rd'[r].late
    PROVE  Safe(r)'
<1>0. TypeOK /\ Safe(r)
  BY DEF CacheInv
<1>1. /\ policy \in Nat /\ policy <= MaxChanges /\ MaxChanges \in Nat
      /\ rd[r].ver \in Nat /\ rd[r].ver <= policy /\ rd[r].start \subseteq firm
  BY <1>0, CacheFacts DEF Safe
<1>2. live'[rd[r].ver] = live[rd[r].ver]
  <2>1. rd[r].ver \in 0..MaxChanges
    BY <1>1
  <2> QED BY <1>1, <2>1 DEF Forward
<1>3. ASSUME InFlight(r)', ~rd'[r].late, NEW v \in rd[r].start
      PROVE  SafeFrom(r, v)'
  <2>1. InFlight(r) /\ ~rd[r].late /\ v \in Changes /\ v <= policy
    BY <1>0, <1>1, <1>3, CacheFacts DEF InFlight, Rests
  <2>2. SafeFrom(r, v)
    BY <1>0, <1>3, <2>1 DEF Safe
  <2>3. CASE outbox[v].stage = "first" \/ Waits(v, r)
    BY <1>3, <2>1, <2>3 DEF SafeFrom
  <2>4. CASE rd[r].pc \in {"key", "db"}
    BY <2>4 DEF SafeFrom, Rests
  <2>5. CASE rd[r].pc \in Keyed /\ Clean(v, rd[r].key)
    <3> PICK g : g = rd'[r].key /\ Clean(v, g)'
      BY <2>1, <2>5
    <3>1. Clean(v, rd[r].key)'
      BY DEF Clean
    <3> QED BY <2>5, <3>1 DEF SafeFrom, Rests
  <2>6. CASE rd[r].pc = "barrier" /\ ~Replaced(rd[r].ver, v)
    BY <1>2, <2>6 DEF SafeFrom, Rests, Replaced
  <2> QED BY <2>2, <2>3, <2>4, <2>5, <2>6 DEF SafeFrom
<1>4. rd'[r].ver <= policy' /\ rd'[r].start \subseteq firm'
  BY <1>1 DEF Forward, Rests
<1> QED BY <1>0, <1>2, <1>3, <1>4 DEF Safe, Rests, InFlight

\* The same when no generation is advanced.
LEMMA SafeWaits ==
    ASSUME CacheInv, Forward, Sourced, NEW r \in Readers, Rests(r),
           rd[r].pc \in Keyed => rd'[r].key = rd[r].key,
           \A v \in Changes : v <= policy /\ InFlight(r) =>
               /\ outbox[v].stage = "first" => outbox'[v].stage = "first" \/ Waits(v, r)'
               /\ Waits(v, r) => Waits(v, r)' \/ rd'[r].late
    PROVE  Safe(r)'
<1>1. rd[r].pc \in Keyed => rd'[r].key >= 0
  BY DEF CacheInv, Safe
<1>2. ASSUME NEW v \in Changes, v <= policy, rd[r].pc \in Keyed, Clean(v, rd[r].key)
      PROVE  \E g : g = rd'[r].key /\ Clean(v, g)'
  <2> PICK g : g = rd[r].key
    OBVIOUS
  <2>1. Clean(v, g)
    BY <1>2 DEF Clean
  <2>2. Clean(v, g)'
    BY <1>2, <2>1, CleanKept
  <2> QED BY <1>2, <2>2
<1> QED BY <1>1, <1>2, SafeKept

\* And when the rows are left alone.
LEMMA SafeStays ==
    ASSUME CacheInv, Forward, Sourced, NEW r \in Readers, Rests(r),
           rd[r].pc \in Keyed => rd'[r].key = rd[r].key,
           \A v \in Changes : v <= policy => RowKept(v)
    PROVE  Safe(r)'
<1>1. ASSUME NEW v \in Changes, v <= policy
      PROVE  /\ outbox[v].stage = "first" => outbox'[v].stage = "first"
             /\ Waits(v, r) => Waits(v, r)'
  BY <1>1 DEF RowKept, Waits, Rests
<1> QED BY <1>1, SafeWaits

\* And when the generation is advanced.
LEMMA SafeOlder ==
    ASSUME CacheInv, Older, UNCHANGED stored, NEW r \in Readers
    PROVE  Safe(r)'
<1> USE DEF stored
<1>0. TypeOK /\ (rd[r].pc \in Keyed => rd[r].key >= 0)
  BY DEF CacheInv, Safe
<1>1. Forward /\ Rests(r)
  BY <1>0, CacheFacts DEF Forward, Rests, Older
<1>2. rd[r].pc \in Keyed => rd[r].key \in Nat /\ rd'[r].key = rd[r].key + 1
  BY <1>0, CacheFacts DEF Older
<1>3. rd[r].pc \in Keyed => rd'[r].key >= 0
  BY <1>2
<1>4. ASSUME NEW v \in Changes, v <= policy, rd[r].pc \in Keyed, Clean(v, rd[r].key)
      PROVE  \E g : g = rd'[r].key /\ Clean(v, g)'
  <2> PICK g \in Nat : g = rd[r].key
    BY <1>2, <1>4
  <2>1. Clean(v, g)
    BY <1>4 DEF Clean
  <2>2. Clean(v, g + 1)'
    BY <2>1, OlderCleans
  <2> QED BY <1>2, <1>4, <2>2
<1>5. ASSUME NEW v \in Changes
      PROVE  /\ outbox[v].stage = "first" => outbox'[v].stage = "first"
             /\ Waits(v, r) => Waits(v, r)'
  BY DEF Waits, Older
<1> QED BY <1>1, <1>3, <1>4, <1>5, SafeKept

-----------------------------------------------------------------------------
(* Requests.                                                               *)

ReaderMoves(r) ==
    rd' \in [Readers -> Reads] /\ \A x \in Readers : x # r => rd'[x] = rd[x]

\* The request goes on: it is the same request.
GoesOn(r) ==
    /\ ReaderMoves(r)
    /\ rd'[r].at = rd[r].at /\ rd'[r].start = rd[r].start
    /\ rd'[r].past = rd[r].past /\ rd'[r].late = rd[r].late

\* The request is over: answered with w, or dropped.
Over(r, w) ==
    /\ ReaderMoves(r)
    /\ \/ rd'[r] = Away
       \/ rd'[r].pc = "served" /\ rd'[r].start = rd[r].start /\ rd'[r].ver = w /\ ~rd[r].late

LEMMA AwayFacts ==
    /\ Away \in Reads /\ Away.pc = "idle" /\ Away.ver = 0 /\ Away.start = {}
    /\ Away.past = {} /\ Away.late = FALSE
BY DEF Away, Reads, ReaderPCs, NoKey

LEMMA ReaderUpdate ==
    ASSUME TypeOK, NEW r \in Readers, NEW q, q \in Reads, rd' = [rd EXCEPT ![r] = q]
    PROVE  ReaderMoves(r) /\ rd'[r] = q
BY DEF TypeOK, ReaderMoves

LEMMA GoesEffect ==
    ASSUME TypeOK, NEW r \in Readers, NEW where \in ReaderPCs, Goes(r, where)
    PROVE  GoesOn(r) /\ rd'[r].pc = where /\ rd'[r].key = rd[r].key /\ rd'[r].ver = rd[r].ver
<1> DEFINE q == [rd[r] EXCEPT !.pc = where]
<1>1. rd' = [rd EXCEPT ![r] = q]
  BY DEF Goes
<1>2. /\ q \in Reads /\ q.pc = where /\ q.key = rd[r].key /\ q.ver = rd[r].ver
      /\ q.at = rd[r].at /\ q.start = rd[r].start /\ q.past = rd[r].past /\ q.late = rd[r].late
  BY DEF TypeOK, Reads
<1> HIDE DEF q
<1> QED BY <1>1, <1>2, ReaderUpdate DEF GoesOn

LEMMA HoldsEffect ==
    ASSUME TypeOK, NEW r \in Readers, NEW w, w \in Nat, Holds(r, w)
    PROVE  GoesOn(r) /\ rd'[r].pc = "barrier" /\ rd'[r].ver = w
<1> DEFINE q == [rd[r] EXCEPT !.pc = "barrier", !.key = NoKey, !.ver = w]
<1>1. rd' = [rd EXCEPT ![r] = q]
  BY DEF Holds
<1>2. /\ q \in Reads /\ q.pc = "barrier" /\ q.ver = w
      /\ q.at = rd[r].at /\ q.start = rd[r].start /\ q.past = rd[r].past /\ q.late = rd[r].late
  <2>1. rd[r] \in Reads /\ NoKey \in Int
    BY DEF TypeOK, NoKey
  <2> QED BY <2>1 DEF Reads, ReaderPCs
<1> HIDE DEF q
<1> QED BY <1>1, <1>2, ReaderUpdate DEF GoesOn

LEMMA KeyEffect ==
    ASSUME TypeOK, NEW r \in Readers, NEW where \in ReaderPCs, NEW k, k \in Int,
           rd' = [rd EXCEPT ![r] = [@ EXCEPT !.pc = where, !.key = k]]
    PROVE  GoesOn(r) /\ rd'[r].pc = where /\ rd'[r].key = k /\ rd'[r].ver = rd[r].ver
<1> DEFINE q == [rd[r] EXCEPT !.pc = where, !.key = k]
<1>1. rd' = [rd EXCEPT ![r] = q]
  OBVIOUS
<1>2. /\ q \in Reads /\ q.pc = where /\ q.key = k /\ q.ver = rd[r].ver
      /\ q.at = rd[r].at /\ q.start = rd[r].start /\ q.past = rd[r].past /\ q.late = rd[r].late
  <2>1. rd[r] \in Reads
    BY DEF TypeOK
  <2> QED BY <2>1 DEF Reads
<1> HIDE DEF q
<1> QED BY <1>1, <1>2, ReaderUpdate DEF GoesOn

LEMMA FindsEffect ==
    ASSUME TypeOK, NEW r \in Readers, NEW where \in ReaderPCs, NEW w, w \in Nat,
           rd' = [rd EXCEPT ![r] = [@ EXCEPT !.pc = where, !.ver = w]]
    PROVE  GoesOn(r) /\ rd'[r].pc = where /\ rd'[r].key = rd[r].key /\ rd'[r].ver = w
<1> DEFINE q == [rd[r] EXCEPT !.pc = where, !.ver = w]
<1>1. rd' = [rd EXCEPT ![r] = q]
  OBVIOUS
<1>2. /\ q \in Reads /\ q.pc = where /\ q.key = rd[r].key /\ q.ver = w
      /\ q.at = rd[r].at /\ q.start = rd[r].start /\ q.past = rd[r].past /\ q.late = rd[r].late
  <2>1. rd[r] \in Reads
    BY DEF TypeOK
  <2> QED BY <2>1 DEF Reads
<1> HIDE DEF q
<1> QED BY <1>1, <1>2, ReaderUpdate DEF GoesOn

LEMMA ServesEffect ==
    ASSUME TypeOK, NEW r \in Readers, NEW w, w \in Nat, Serves(r, w)
    PROVE  Over(r, w)
<1> DEFINE q == [Away EXCEPT !.pc = "served", !.start = rd[r].start, !.ver = w]
<1>1. q \in Reads /\ q.pc = "served" /\ q.start = rd[r].start /\ q.ver = w
  BY AwayFacts DEF TypeOK, Reads, ReaderPCs
<1>2. \/ rd[r].late /\ rd' = [rd EXCEPT ![r] = Away]
      \/ ~rd[r].late /\ rd' = [rd EXCEPT ![r] = q]
  BY DEF Serves
<1> HIDE DEF q
<1> QED BY <1>1, <1>2, AwayFacts, ReaderUpdate DEF Over

LEMMA FailsEffect ==
    ASSUME TypeOK, NEW r \in Readers, NEW w, Fails(r)
    PROVE  Over(r, w) /\ faults' \in 0..MaxFaults
<1>1. rd' = [rd EXCEPT ![r] = Away] /\ Fault
  BY DEF Fails
<1>2. faults' \in 0..MaxFaults
  BY <1>1, CacheAssumption DEF Fault, TypeOK
<1> QED BY <1>1, <1>2, AwayFacts, ReaderUpdate DEF Over

\* A fault is counted, or there is none.
LEMMA FaultType ==
    ASSUME TypeOK, Fault \/ NoFault
    PROVE  faults' \in 0..MaxFaults
BY CacheAssumption DEF TypeOK, Fault, NoFault

\* What the caches hold is not ahead of the database.
LEMMA CachesBounded ==
    ASSUME CacheInv, Forward, Sourced
    PROVE  /\ \A e \in l2' : e.ver <= policy'
           /\ \A i \in Instances : \A e \in l1'[i] : e.ver <= policy'
<1>0. TypeOK /\ Bounded /\ \A r \in Readers : rd[r].ver <= policy
  BY DEF CacheInv, Safe
<1>1. policy \in Nat /\ policy' \in Nat /\ policy <= policy'
  BY <1>0, CacheFacts DEF Forward
<1>2. \A r \in Readers : rd[r].ver <= policy'
  BY <1>0, <1>1, CacheFacts
<1>3. ASSUME NEW e \in l2' PROVE e.ver <= policy'
  <2>1. CASE e \in l2
    BY <1>0, <1>1, <2>1, CacheFacts DEF Bounded
  <2>2. CASE e \notin l2
    BY <1>2, <1>3, <2>2 DEF Sourced
  <2> QED BY <2>1, <2>2
<1>4. ASSUME NEW i \in Instances, NEW e \in l1'[i] PROVE e.ver <= policy'
  <2>1. CASE e \in l1[i]
    BY <1>0, <1>1, <2>1, CacheFacts DEF Bounded
  <2>2. CASE e \notin l1[i]
    BY <1>2, <1>4, <2>2 DEF Sourced
  <2> QED BY <2>1, <2>2
<1> QED BY <1>3, <1>4

\* A step that leaves the database and the outbox alone, and what is swept.
LEMMA SweptStays ==
    ASSUME CacheInv, Forward, Sourced,
           \A v \in Changes : Passed(v)' => Passed(v)
    PROVE  Swept'
<1> SUFFICES ASSUME NEW v \in Changes, Passed(v)' PROVE Clean(v, 0)'
  BY DEF Swept
<1>1. v <= policy /\ Clean(v, 0)
  BY CacheFacts DEF CacheInv, Swept, Passed
<1> QED BY <1>1, CleanKept

\* A request takes a step.
LEMMA ReaderStep ==
    ASSUME CacheInv, NEW r \in Readers, ReaderMoves(r), Sourced,
           UNCHANGED <<stored, wk, change>>, faults' \in 0..MaxFaults,
           l2' \subseteq Entries, l1' \in [Instances -> SUBSET Entries],
           Safe(r)'
    PROVE  CacheInv'
<1> USE DEF stored, change
<1>0. TypeOK /\ Bounded /\ Passes
  BY DEF CacheInv
<1>1. TypeOK'
  BY <1>0 DEF TypeOK, ReaderMoves
<1>2. Forward
  BY <1>0, CacheFacts DEF Forward
<1>3. Bounded'
  BY <1>0, <1>2, CachesBounded DEF Bounded, Committed
<1>4. Passes'
  BY <1>0 DEF Passes
<1>5. Swept'
  BY <1>2, SweptStays DEF Passed
<1>6. ASSUME NEW x \in Readers, x # r PROVE Safe(x)'
  BY <1>2, <1>6, SafeStays DEF ReaderMoves, Rests, RowKept
<1> QED BY <1>1, <1>3, <1>4, <1>5, <1>6 DEF CacheInv

\* A request goes on under its generation, or holds what it found under it.
LEMMA SafeMoves ==
    ASSUME CacheInv, NEW r \in Readers, GoesOn(r), Sourced, UNCHANGED <<stored, firm>>,
           rd[r].pc \in Keyed, rd'[r].ver <= policy,
           \/ rd'[r].pc \in Keyed /\ rd'[r].key = rd[r].key
           \/ /\ rd'[r].pc = "barrier"
              /\ \A v \in Changes : v <= policy /\ Clean(v, rd[r].key) => ~Replaced(rd'[r].ver, v)
    PROVE  Safe(r)'
<1> USE DEF stored
<1>0. TypeOK /\ Safe(r)
  BY DEF CacheInv
<1>1. Forward
  BY <1>0, CacheFacts DEF Forward
<1>2. ASSUME ~rd'[r].late, NEW v \in rd[r].start
      PROVE  SafeFrom(r, v)'
  <2>1. v \in Changes /\ v <= policy
    BY <1>0, <1>2, CacheFacts DEF Safe
  <2>2. SafeFrom(r, v)
    BY <1>0, <1>2 DEF Safe, InFlight, Keyed, Holding, GoesOn
  <2>3. CASE outbox[v].stage = "first" \/ Waits(v, r)
    BY <2>3 DEF SafeFrom, Waits, GoesOn
  <2>4. CASE Clean(v, rd[r].key)
    <3>1. CASE rd'[r].pc \in Keyed /\ rd'[r].key = rd[r].key
      <4> PICK g : g = rd[r].key
        OBVIOUS
      <4>1. Clean(v, g)
        BY <2>4 DEF Clean
      <4>2. Clean(v, g)'
        BY <1>1, <2>1, <4>1, CleanKept
      <4>3. Clean(v, rd[r].key)'
        BY <3>1, <4>2 DEF Clean
      <4> QED BY <3>1, <4>3 DEF SafeFrom
    <3>2. CASE rd'[r].pc = "barrier" /\ ~Replaced(rd'[r].ver, v)
      BY <3>2 DEF SafeFrom, Replaced
    <3> QED BY <2>1, <2>4, <3>1, <3>2
  <2>5. rd[r].pc \notin {"key", "db", "barrier"}
    BY DEF Keyed, Holding
  <2> QED BY <2>2, <2>3, <2>4, <2>5 DEF SafeFrom
<1>3. rd'[r].pc \in Keyed => rd'[r].key >= 0
  BY <1>0 DEF Safe, Keyed, Holding
<1>4. rd'[r].pc # "served" /\ rd'[r].at \in Instances
  BY <1>0 DEF Safe, InFlight, GoesOn, Keyed, Holding
<1> QED BY <1>0, <1>2, <1>3, <1>4 DEF Safe, GoesOn

\* An answer is from after the changes that the request came in after.
LEMMA SafeOver ==
    ASSUME CacheInv, NEW r \in Readers, NEW w, w \in Nat, Over(r, w), UNCHANGED <<stored, firm>>,
           w <= policy,
           ~rd[r].late /\ live[w] => \A v \in rd[r].start : w >= v
    PROVE  Safe(r)'
<1> USE DEF stored
<1>0. TypeOK /\ Safe(r)
  BY DEF CacheInv
<1>1. CASE rd'[r] = Away
  BY <1>0, <1>1, AwayFacts, CacheFacts DEF Safe, InFlight, Keyed, Holding
<1>2. CASE rd'[r].pc = "served" /\ rd'[r].start = rd[r].start /\ rd'[r].ver = w /\ ~rd[r].late
  BY <1>0, <1>2 DEF Safe, InFlight, Keyed, Holding
<1> QED BY <1>1, <1>2 DEF Over

LEMMA BeginStep ==
    ASSUME CacheInv, NEW r \in Readers, NEW i \in Instances, Begin(r, i)
    PROVE  CacheInv'
<1> USE DEF Begin, cached, stored, change
<1>0. TypeOK
  BY DEF CacheInv
<1> DEFINE q == [Away EXCEPT !.pc = "key", !.at = i, !.start = firm]
<1>1. q \in Reads /\ q.pc = "key" /\ q.at = i /\ q.start = firm /\ q.ver = 0
  <2>1. firm \subseteq Changes
    BY <1>0, CacheFacts
  <2> QED BY <2>1, AwayFacts DEF Reads, ReaderPCs
<1>2. rd' = [rd EXCEPT ![r] = q]
  OBVIOUS
<1> HIDE DEF q
<1>3. ReaderMoves(r) /\ rd'[r].pc = "key" /\ rd'[r].at = i /\ rd'[r].start = firm /\ rd'[r].ver = 0
  BY <1>0, <1>1, <1>2, ReaderUpdate
<1>4. Sourced
  BY <1>3 DEF Sourced, ReaderMoves, Holding
<1>5. Safe(r)'
  BY <1>0, <1>3, CacheFacts DEF Safe, SafeFrom, Keyed, Holding
<1> QED BY <1>0, <1>3, <1>4, <1>5, ReaderStep DEF TypeOK

LEMMA ReadGenerationStep ==
    ASSUME CacheInv, NEW r \in Readers, ReadGeneration(r)
    PROVE  CacheInv'
<1> USE DEF ReadGeneration, cached, stored, change
<1>0. TypeOK /\ Swept /\ Safe(r)
  BY DEF CacheInv
<1>1. CASE Goes(r, "db") /\ Fault
  <2>1. GoesOn(r) /\ rd'[r].pc = "db" /\ rd'[r].ver = rd[r].ver
    BY <1>0, <1>1, GoesEffect DEF ReaderPCs
  <2>2. Sourced
    BY <2>1 DEF Sourced, GoesOn, ReaderMoves, Holding
  <2>3. Safe(r)'
    BY <1>0, <2>1 DEF Safe, SafeFrom, GoesOn, Keyed, Holding, InFlight
  <2> QED BY <1>0, <1>1, <2>1, <2>2, <2>3, ReaderStep, FaultType DEF TypeOK, GoesOn
<1>2. CASE rd' = [rd EXCEPT ![r] = [@ EXCEPT !.pc = "l1", !.key = 0]] /\ NoFault
  <2>3. GoesOn(r) /\ rd'[r].pc = "l1" /\ rd'[r].key = 0 /\ rd'[r].ver = rd[r].ver
    <3>1. "l1" \in ReaderPCs /\ 0 \in Int
      BY DEF ReaderPCs
    <3> QED BY <1>0, <1>2, <3>1, KeyEffect
  <2>4. Sourced
    BY <2>3 DEF Sourced, GoesOn, ReaderMoves, Holding
  <2>5. Forward
    BY <1>0, CacheFacts DEF Forward
  <2>6. ASSUME NEW v \in rd[r].start PROVE SafeFrom(r, v)'
    <3>1. v \in firm /\ v \in Changes /\ v <= policy
      BY <1>0, <2>6, CacheFacts DEF Safe
    <3>2. CASE outbox[v].stage = "first"
      BY <3>2 DEF SafeFrom
    <3>3. CASE outbox[v].stage # "first"
      <4>1. Clean(v, 0)
        BY <1>0, <3>1, <3>3 DEF Swept, Passed
      <4>2. Clean(v, 0)'
        BY <2>4, <2>5, <3>1, <4>1, CleanKept
      <4>3. Clean(v, rd[r].key)'
        BY <2>3, <4>2 DEF Clean
      <4> QED BY <2>3, <4>3 DEF SafeFrom, Keyed
    <3> QED BY <3>2, <3>3
  <2>7. Safe(r)'
    BY <1>0, <2>3, <2>6 DEF Safe, GoesOn, InFlight
  <2> QED BY <1>0, <1>2, <2>3, <2>4, <2>7, ReaderStep, FaultType DEF TypeOK, GoesOn
<1> QED BY <1>1, <1>2

LEMMA GetL1Step ==
    ASSUME CacheInv, NEW r \in Readers, GetL1(r)
    PROVE  CacheInv'
<1> USE DEF GetL1, cached, stored, change
<1>0. TypeOK /\ Bounded /\ Safe(r) /\ rd[r].at \in Instances \cup {Nobody}
  BY DEF CacheInv, TypeOK, Reads
<1>1. CASE Goes(r, "l2")
  <2>1. GoesOn(r) /\ rd'[r].pc = "l2" /\ rd'[r].key = rd[r].key /\ rd'[r].ver = rd[r].ver
    BY <1>0, <1>1, GoesEffect DEF ReaderPCs
  <2>2. Sourced
    BY <2>1 DEF Sourced, GoesOn, ReaderMoves, Holding
  <2>3. Safe(r)'
    BY <1>0, <2>1, <2>2, SafeMoves DEF Safe, Keyed
  <2> QED BY <1>0, <2>1, <2>2, <2>3, ReaderStep DEF TypeOK, GoesOn
<1>2. ASSUME NEW e \in l1[rd[r].at], e.gen = rd[r].key, Holds(r, e.ver)
      PROVE  CacheInv'
  <2>0. rd[r].at \in Instances
    BY <1>0 DEF Safe, InFlight
  <2>1. e.ver \in Nat /\ e.ver <= policy
    BY <1>0, <2>0, CacheFacts DEF Bounded
  <2>2. GoesOn(r) /\ rd'[r].pc = "barrier" /\ rd'[r].ver = e.ver
    BY <1>0, <1>2, <2>1, HoldsEffect
  <2>3. Sourced
    BY <2>2 DEF Sourced, GoesOn, ReaderMoves, Holding
  <2>4. \A v \in Changes : Clean(v, rd[r].key) => ~Replaced(e.ver, v)
    BY <1>2, <2>0 DEF Clean
  <2>5. Safe(r)'
    BY <1>0, <2>1, <2>2, <2>3, <2>4, SafeMoves DEF Keyed
  <2> QED BY <1>0, <2>2, <2>3, <2>5, ReaderStep DEF TypeOK, GoesOn
<1> QED BY <1>1, <1>2

LEMMA GetL2Step ==
    ASSUME CacheInv, NEW r \in Readers, GetL2(r)
    PROVE  CacheInv'
<1> USE DEF GetL2, cached, stored, change
<1>0. TypeOK /\ Bounded /\ Safe(r) /\ rd[r].pc \in Keyed
  BY DEF CacheInv, Keyed
<1>1. ASSUME Goes(r, "load"), Fault \/ NoFault PROVE CacheInv'
  <2>1. GoesOn(r) /\ rd'[r].pc = "load" /\ rd'[r].key = rd[r].key /\ rd'[r].ver = rd[r].ver
    BY <1>0, <1>1, GoesEffect DEF ReaderPCs
  <2>2. Sourced
    BY <2>1 DEF Sourced, GoesOn, ReaderMoves, Holding
  <2>3. Safe(r)'
    BY <1>0, <2>1, <2>2, SafeMoves DEF Safe, Keyed
  <2> QED BY <1>0, <1>1, <2>1, <2>2, <2>3, ReaderStep, FaultType DEF TypeOK, GoesOn
<1>2. ASSUME NEW e \in l2, e.gen = rd[r].key, NoFault,
             rd' = [rd EXCEPT ![r] = [@ EXCEPT !.pc = "keep", !.ver = e.ver]]
      PROVE  CacheInv'
  <2>1. e.ver \in Nat /\ e.ver <= policy
    BY <1>0, CacheFacts DEF Bounded
  <2>2. GoesOn(r) /\ rd'[r].pc = "keep" /\ rd'[r].key = rd[r].key /\ rd'[r].ver = e.ver
    BY <1>0, <1>2, <2>1, FindsEffect DEF ReaderPCs
  <2>3. Sourced
    BY <1>2, <2>2 DEF Sourced, GoesOn, ReaderMoves
  <2>4. Safe(r)'
    BY <1>0, <2>1, <2>2, <2>3, SafeMoves DEF Keyed, Holding
  <2> QED BY <1>0, <1>2, <2>2, <2>3, <2>4, ReaderStep, FaultType DEF TypeOK, GoesOn
<1> QED BY <1>1, <1>2

LEMMA FailsStep ==
    ASSUME CacheInv, NEW r \in Readers, Fails(r), UNCHANGED <<cached, stored, wk, change>>
    PROVE  CacheInv'
<1> USE DEF cached, stored, change
<1>0. TypeOK /\ Safe(r) /\ policy \in Nat /\ policy <= policy
  BY CacheFacts DEF CacheInv
<1>1. Over(r, policy) /\ faults' \in 0..MaxFaults
  BY <1>0, FailsEffect
<1>2. Sourced
  BY <1>1, AwayFacts DEF Sourced, Over, ReaderMoves, Holding
<1>3. Safe(r)'
  BY <1>0, <1>1, CacheFacts, SafeOver DEF Safe
<1> QED BY <1>0, <1>1, <1>2, <1>3, ReaderStep DEF TypeOK, Over

LEMMA LoadStep ==
    ASSUME CacheInv, NEW r \in Readers, Load(r)
    PROVE  CacheInv'
<1> USE DEF Load, cached, stored, change
<1>0. TypeOK /\ Bounded /\ Safe(r) /\ rd[r].pc \in Keyed /\ policy \in Nat /\ policy <= policy
  BY CacheFacts DEF CacheInv, Keyed
<1>1. CASE rd' = [rd EXCEPT ![r] = [@ EXCEPT !.pc = "set1", !.ver = policy]] /\ NoFault
  <2>1. GoesOn(r) /\ rd'[r].pc = "set1" /\ rd'[r].key = rd[r].key /\ rd'[r].ver = policy
    BY <1>0, <1>1, FindsEffect DEF ReaderPCs
  <2>2. Sourced
    BY <2>1 DEF Sourced, GoesOn, ReaderMoves
  <2>3. Safe(r)'
    BY <1>0, <2>1, <2>2, SafeMoves DEF Keyed, Holding
  <2> QED BY <1>0, <1>1, <2>1, <2>2, <2>3, ReaderStep, FaultType DEF TypeOK, GoesOn
<1>2. ASSUME NEW x \in Loading(r), Holds(r, rd[x].ver), NoFault
      PROVE  CacheInv'
  <2>0. x \in Readers /\ rd[x].pc \in Holding /\ rd[x].key = rd[r].key
    BY DEF Loading, Holding
  <2>1. rd[x].ver \in Nat /\ rd[x].ver <= policy
    BY <1>0, <2>0, CacheFacts DEF CacheInv, Safe
  <2>2. GoesOn(r) /\ rd'[r].pc = "barrier" /\ rd'[r].ver = rd[x].ver
    BY <1>0, <1>2, <2>1, HoldsEffect
  <2>3. Sourced
    BY <2>2 DEF Sourced, GoesOn, ReaderMoves, Holding
  <2>4. \A v \in Changes : Clean(v, rd[r].key) => ~Replaced(rd[x].ver, v)
    BY <2>0 DEF Clean
  <2>5. Safe(r)'
    BY <1>0, <2>1, <2>2, <2>3, <2>4, SafeMoves
  <2> QED BY <1>0, <1>2, <2>2, <2>3, <2>5, ReaderStep, FaultType DEF TypeOK, GoesOn
<1>3. CASE Fails(r)
  BY <1>3, FailsStep
<1> QED BY <1>1, <1>2, <1>3

\* What is kept is what was there, and the new entry.
LEMMA FileEffect ==
    ASSUME NEW es, es \subseteq Entries, NEW e \in Entries
    PROVE  File(es, e) \subseteq Entries /\ \A x \in File(es, e) : x \in es \/ x = e
BY DEF File

LEMMA HeldEntry ==
    ASSUME CacheInv, NEW r \in Readers, rd[r].pc \in Holding
    PROVE  \E e \in Entries : /\ e = Entry(rd[r].key, rd[r].ver)
                              /\ e.gen = rd[r].key /\ e.ver = rd[r].ver
<1>1. TypeOK /\ rd[r].key >= 0
  BY DEF CacheInv, Safe, Keyed
<1>2. rd[r].key \in Nat /\ rd[r].ver \in Nat
  BY <1>1, CacheFacts
<1> DEFINE e == Entry(rd[r].key, rd[r].ver)
<1>3. e \in Entries /\ e.gen = rd[r].key /\ e.ver = rd[r].ver
  BY <1>2 DEF Entry, Entries
<1> QED BY <1>3

LEMMA KeptLocally ==
    ASSUME TypeOK, NEW h \in Entries, NEW j, l1' = [l1 EXCEPT ![j] = File(@, h)]
    PROVE  /\ l1' \in [Instances -> SUBSET Entries]
           /\ \A i \in Instances : \A e \in l1'[i] : e \in l1[i] \/ (e.gen = h.gen /\ e.ver = h.ver)
<1>1. l1 \in [Instances -> SUBSET Entries]
  BY DEF TypeOK
<1> DEFINE f == File(l1[j], h)
<1>2. j \in Instances => f \subseteq Entries /\ \A x \in f : x \in l1[j] \/ x = h
  BY <1>1, FileEffect
<1>3. l1' = [l1 EXCEPT ![j] = f]
  OBVIOUS
<1> HIDE DEF f
<1>4. \A i \in Instances : l1'[i] = IF i = j THEN f ELSE l1[i]
  BY <1>1, <1>3
<1>5. \A i \in Instances : \A e \in l1'[i] : e \in l1[i] \/ e = h
  BY <1>2, <1>4
<1> QED BY <1>1, <1>2, <1>3, <1>5

LEMMA KeptInRedis ==
    ASSUME TypeOK, NEW h \in Entries, l2' = File(l2, h) \/ UNCHANGED l2
    PROVE  /\ l2' \subseteq Entries
           /\ \A e \in l2' : e \in l2 \/ (e.gen = h.gen /\ e.ver = h.ver)
<1>1. l2 \subseteq Entries
  BY DEF TypeOK
<1>2. File(l2, h) \subseteq Entries /\ \A x \in File(l2, h) : x \in l2 \/ x = h
  BY <1>1, FileEffect
<1>3. l2' \subseteq Entries /\ \A e \in l2' : e \in l2 \/ e = h
  BY <1>1, <1>2
<1> QED BY <1>3

LEMMA SetL1Step ==
    ASSUME CacheInv, NEW r \in Readers, SetL1(r)
    PROVE  CacheInv'
<1> USE DEF SetL1, stored, change
<1>0. /\ TypeOK /\ Safe(r) /\ rd[r].pc \in Keyed /\ rd[r].pc \in Holding
      /\ rd[r].ver \in Nat /\ rd[r].ver <= policy
  BY CacheFacts DEF CacheInv, Safe, Keyed, Holding
<1>1. /\ l1' \in [Instances -> SUBSET Entries]
      /\ \A i \in Instances : \A e \in l1'[i] :
            e \in l1[i] \/ (e.gen = rd[r].key /\ e.ver = rd[r].ver)
  <2> PICK h \in Entries : /\ h = Entry(rd[r].key, rd[r].ver)
                           /\ h.gen = rd[r].key /\ h.ver = rd[r].ver
    BY <1>0, HeldEntry
  <2>1. PICK j : j = rd[r].at
    OBVIOUS
  <2>2. l1' = [l1 EXCEPT ![j] = File(@, h)]
    BY <2>1
  <2>3. /\ l1' \in [Instances -> SUBSET Entries]
        /\ \A i \in Instances : \A e \in l1'[i] : e \in l1[i] \/ (e.gen = h.gen /\ e.ver = h.ver)
    BY ONLY <1>0, <2>2, KeptLocally, h \in Entries
  <2> QED BY ONLY <2>3, h.gen = rd[r].key, h.ver = rd[r].ver
<1>2. Goes(r, "set2") \/ Holds(r, rd[r].ver)
  OBVIOUS
<1>3. CASE Goes(r, "set2")
  <2>1. GoesOn(r) /\ rd'[r].pc = "set2" /\ rd'[r].key = rd[r].key /\ rd'[r].ver = rd[r].ver
    BY <1>0, <1>3, GoesEffect DEF ReaderPCs
  <2>2. Sourced
    BY <1>0, <1>1, <2>1 DEF Sourced, GoesOn, ReaderMoves
  <2>3. Safe(r)'
    BY <1>0, <2>1, <2>2, SafeMoves DEF Keyed, Holding
  <2> QED BY <1>0, <1>1, <2>1, <2>2, <2>3, ReaderStep DEF TypeOK, GoesOn
<1>4. CASE Holds(r, rd[r].ver)
  <2>1. GoesOn(r) /\ rd'[r].pc = "barrier" /\ rd'[r].ver = rd[r].ver
    BY <1>0, <1>4, HoldsEffect
  <2>2. Sourced
    BY <1>0, <1>1, <2>1 DEF Sourced, GoesOn, ReaderMoves, Holding
  <2>3. \A v \in Changes : Clean(v, rd[r].key) => ~Replaced(rd[r].ver, v)
    BY <1>0 DEF Clean
  <2>4. Safe(r)'
    BY <1>0, <2>1, <2>2, <2>3, SafeMoves
  <2> QED BY <1>0, <1>1, <2>1, <2>2, <2>4, ReaderStep DEF TypeOK, GoesOn
<1> QED BY <1>2, <1>3, <1>4

LEMMA SetL2Step ==
    ASSUME CacheInv, NEW r \in Readers, SetL2(r)
    PROVE  CacheInv'
<1> USE DEF SetL2, stored, change
<1>0. /\ TypeOK /\ Safe(r) /\ rd[r].pc \in Keyed /\ rd[r].pc \in Holding
      /\ rd[r].ver \in Nat /\ rd[r].ver <= policy
  BY CacheFacts DEF CacheInv, Safe, Keyed, Holding
<1>1. /\ l2' \subseteq Entries
      /\ \A e \in l2' : e \in l2 \/ (e.gen = rd[r].key /\ e.ver = rd[r].ver)
  <2> PICK h \in Entries : /\ h = Entry(rd[r].key, rd[r].ver)
                           /\ h.gen = rd[r].key /\ h.ver = rd[r].ver
    BY <1>0, HeldEntry
  <2> QED BY <1>0, KeptInRedis
<1>2. GoesOn(r) /\ rd'[r].pc = "barrier" /\ rd'[r].ver = rd[r].ver
  BY <1>0, HoldsEffect
<1>3. Sourced
  BY <1>0, <1>1, <1>2 DEF Sourced, GoesOn, ReaderMoves, Holding
<1>4. \A v \in Changes : Clean(v, rd[r].key) => ~Replaced(rd[r].ver, v)
  BY <1>0 DEF Clean
<1>5. Safe(r)'
  BY <1>0, <1>2, <1>3, <1>4, SafeMoves
<1>6. faults' \in 0..MaxFaults
  BY <1>0, FaultType
<1> QED BY <1>0, <1>1, <1>2, <1>3, <1>5, <1>6, ReaderStep DEF TypeOK, GoesOn

\* With an open barrier, what the request holds is from after the changes.
LEMMA BarrierStep ==
    ASSUME CacheInv, NEW r \in Readers, Barrier(r)
    PROVE  CacheInv'
<1> USE DEF Barrier, cached, stored, change
<1>0. TypeOK /\ Safe(r) /\ rd[r].ver \in Nat /\ rd[r].ver <= policy
  BY CacheFacts DEF CacheInv, Safe
<1>1. faults' \in 0..MaxFaults
  BY <1>0, FaultType
<1>2. CASE Goes(r, "db")
  <2>1. GoesOn(r) /\ rd'[r].pc = "db" /\ rd'[r].ver = rd[r].ver
    BY <1>0, <1>2, GoesEffect DEF ReaderPCs
  <2>2. Sourced
    BY <2>1 DEF Sourced, GoesOn, ReaderMoves, Holding
  <2>3. Safe(r)'
    BY <1>0, <2>1 DEF Safe, SafeFrom, GoesOn, Keyed, Holding, InFlight
  <2> QED BY <1>0, <1>1, <2>1, <2>2, <2>3, ReaderStep DEF TypeOK, GoesOn
<1>3. CASE ~Pending /\ Serves(r, rd[r].ver)
  <2>1. Over(r, rd[r].ver)
    BY <1>0, <1>3, ServesEffect
  <2>2. Sourced
    BY <2>1, AwayFacts DEF Sourced, Over, ReaderMoves, Holding
  <2>3. ASSUME ~rd[r].late, live[rd[r].ver], NEW v \in rd[r].start PROVE rd[r].ver >= v
    <3>1. v \in Changes /\ v \in Nat
      BY <1>0, CacheFacts
    <3>2. SafeFrom(r, v)
      BY <1>0, <2>3 DEF Safe, InFlight
    <3>3. outbox[v].stage = "none"
      BY <1>3, <3>1 DEF Pending
    <3>4. ~Replaced(rd[r].ver, v)
      BY <3>2, <3>3 DEF SafeFrom, Waits, Keyed, Holding
    <3> QED BY <1>0, <2>3, <3>1, <3>4 DEF Replaced
  <2>4. Safe(r)'
    BY <1>0, <2>1, <2>3, SafeOver
  <2> QED BY <1>0, <1>1, <2>1, <2>2, <2>4, ReaderStep DEF TypeOK, Over
<1> QED BY <1>2, <1>3

LEMMA LoadUncachedStep ==
    ASSUME CacheInv, NEW r \in Readers, LoadUncached(r)
    PROVE  CacheInv'
<1> USE DEF LoadUncached, cached, stored, change
<1>0. TypeOK /\ Safe(r) /\ policy \in Nat /\ policy <= policy /\ \A v \in rd[r].start : policy >= v
  BY CacheFacts DEF CacheInv, Safe
<1>1. CASE Serves(r, policy) /\ NoFault
  <2>1. Over(r, policy)
    BY <1>0, <1>1, ServesEffect
  <2>2. Sourced
    BY <2>1, AwayFacts DEF Sourced, Over, ReaderMoves, Holding
  <2>3. Safe(r)'
    BY <1>0, <2>1, SafeOver
  <2> QED BY <1>0, <1>1, <2>1, <2>2, <2>3, ReaderStep, FaultType DEF TypeOK, Over
<1>2. CASE Fails(r)
  BY <1>2, FailsStep
<1> QED BY <1>1, <1>2

-----------------------------------------------------------------------------
(* Changes, workers, messages and failures.                                *)

\* A step that advances no generation.
LEMMA QuietStep ==
    ASSUME CacheInv, TypeOK', Forward, Sourced, Committed', Passes',
           \A v \in Changes : Passed(v)' => Passed(v) \/ Clean(v, 0)',
           \A r \in Readers : Safe(r)'
    PROVE  CacheInv'
<1>1. Bounded'
  BY CachesBounded DEF Bounded
<1>2. ASSUME NEW v \in Changes, Passed(v) PROVE Clean(v, 0)'
  <2>1. v <= policy /\ Clean(v, 0)
    BY <1>2, CacheFacts DEF CacheInv, Swept, Passed
  <2> QED BY <2>1, CleanKept
<1>3. Swept'
  BY <1>2 DEF Swept
<1> QED BY <1>1, <1>3 DEF CacheInv

\* One that moves no request either.
LEMMA RestingStep ==
    ASSUME CacheInv, TypeOK', Forward, UNCHANGED rd, Committed', Passes',
           l2' \subseteq l2, \A i \in Instances : l1'[i] \subseteq l1[i],
           \A v \in Changes : v <= policy => RowKept(v),
           \A v \in Changes : Passed(v)' => Passed(v) \/ Clean(v, 0)'
    PROVE  CacheInv'
<1>1. Sourced
  BY DEF Sourced
<1>2. \A r \in Readers : Safe(r)'
  BY <1>1, SafeStays DEF Rests
<1> QED BY <1>1, <1>2, QuietStep

\* A step that advances the generation.
LEMMA AdvancingStep ==
    ASSUME CacheInv, NEW Is, Advance(Is), UNCHANGED stored,
           wk' \in [Instances -> [Changes -> Events]], adm' \in Handlers, faults' \in 0..MaxFaults,
           Committed', Passes'
    PROVE  CacheInv'
<1> USE DEF stored
<1>0. TypeOK /\ Bounded
  BY DEF CacheInv
<1>1. Older /\ CacheTypes
  BY <1>0, AdvanceEffect
<1>2. TypeOK'
  BY <1>0, <1>1 DEF TypeOK, CacheTypes
<1>3. Bounded'
  BY <1>0, <1>1 DEF Bounded, Older
<1>4. Swept'
  BY <1>1, OlderCleans DEF Swept
<1>5. \A r \in Readers : Safe(r)'
  BY <1>1, SafeOlder
<1> QED BY <1>2, <1>3, <1>4, <1>5 DEF CacheInv

LEMMA StartChangeStep ==
    ASSUME CacheInv, NEW i \in Instances, NEW k \in Kinds, StartChange(i, k)
    PROVE  CacheInv'
<1> USE DEF StartChange, cached, stored
<1>0. TypeOK /\ Committed /\ Passes
  BY DEF CacheInv, Bounded
<1>1. adm' \in Handlers /\ adm'.kind = k /\ adm'.pc = IF k = "protected" THEN "pre" ELSE "commit"
  BY DEF Handlers
<1>2. TypeOK'
  BY <1>0, <1>1 DEF TypeOK
<1>3. Forward
  BY <1>0, CacheFacts DEF Forward
<1>4. Committed'
  BY <1>0 DEF Committed
<1>5. Passes'
  BY <1>0, <1>1 DEF Passes, Kinds
<1>6. \A v \in Changes : RowKept(v) /\ (Passed(v)' => Passed(v))
  BY DEF RowKept, Passed
<1> QED BY <1>2, <1>3, <1>4, <1>5, <1>6, RestingStep

LEMMA HandlerEnds == NoChange \in Handlers /\ NoChange.pc = "idle"
BY DEF NoChange, Handlers

\* An instance clears its local cache, a handler or a worker goes on.
LEMMA ClearsStep ==
    ASSUME CacheInv, NEW i, Clear(i), UNCHANGED stored,
           wk' \in [Instances -> [Changes -> Events]], adm' \in Handlers, faults' \in 0..MaxFaults,
           Committed', Passes',
           \A v \in Changes : Passed(v)' => Passed(v)
    PROVE  CacheInv'
<1> USE DEF stored
<1>0. TypeOK
  BY DEF CacheInv
<1>1. /\ l1' \in [Instances -> SUBSET Entries] /\ \A x \in Instances : l1'[x] \subseteq l1[x]
      /\ l2' = l2 /\ rd' = rd /\ named' = named /\ firm' = firm
  BY <1>0 DEF TypeOK, Clear
<1>2. TypeOK'
  BY <1>0, <1>1 DEF TypeOK
<1>3. Forward
  BY <1>0, <1>1, CacheFacts DEF Forward
<1>4. \A v \in Changes : RowKept(v)
  BY DEF RowKept
<1> QED BY <1>1, <1>2, <1>3, <1>4, RestingStep

LEMMA InvalidateAllStep ==
    ASSUME CacheInv, InvalidateAll
    PROVE  CacheInv'
<1> USE DEF InvalidateAll, stored
<1>0. TypeOK /\ Committed /\ Passes
  BY DEF CacheInv, Bounded
<1>1. faults' \in 0..MaxFaults
  BY <1>0, FaultType
<1>2. adm' \in Handlers /\ (adm' = NoChange \/ (adm.pc = "pre" /\ adm'.pc = "commit" /\ adm'.kind = adm.kind))
  <2>1. adm \in Handlers /\ (adm' = NoChange \/ (adm.pc = "pre" /\ adm' = [adm EXCEPT !.pc = "commit"]))
    BY <1>0 DEF TypeOK
  <2> HIDE DEF InvalidateAll
  <2> QED BY <2>1, HandlerEnds DEF Handlers
<1>3. Passes'
  BY <1>0, <1>2, HandlerEnds DEF Passes
<1>4. Committed'
  BY <1>0 DEF Committed
<1>5. wk' \in [Instances -> [Changes -> Events]]
  BY <1>0 DEF TypeOK
<1>6. CASE Advance({adm.at})
  BY <1>1, <1>2, <1>3, <1>4, <1>5, <1>6, AdvancingStep
<1>7. CASE Clear(adm.at)
  <2>1. \A v \in Changes : Passed(v)' => Passed(v)
    BY <1>7 DEF Passed, Clear
  <2> QED BY <1>1, <1>2, <1>3, <1>4, <1>5, <1>7, <2>1, ClearsStep
<1> QED BY <1>6, <1>7

LEMMA HandlerTyped ==
    ASSUME TypeOK, NEW pc \in {"idle", "pre", "commit", "post", "name", "drop"},
           adm' = [adm EXCEPT !.pc = pc] \/ adm' = [adm EXCEPT !.pc = pc, !.kind = "done"]
    PROVE  adm' \in Handlers /\ adm'.pc = pc
<1>1. adm \in Handlers
  BY DEF TypeOK
<1>2. CASE adm' = [adm EXCEPT !.pc = pc]
  BY <1>1, <1>2 DEF Handlers
<1>3. CASE adm' = [adm EXCEPT !.pc = pc, !.kind = "done"]
  BY <1>1, <1>3 DEF Handlers
<1> QED BY <1>2, <1>3

\* The transaction, with the row that the trigger puts in.
CommitMade(b) ==
    /\ policy' = policy + 1
    /\ live' = [live EXCEPT ![policy + 1] = b]
    /\ \/ /\ outbox' = [outbox EXCEPT ![policy + 1] = [NoRow EXCEPT !.stage = "first", !.ready = TRUE]]
          /\ firm' = firm \cup {policy + 1}
       \/ UNCHANGED <<outbox, firm>>

LEMMA FirstRow ==
    LET w == [NoRow EXCEPT !.stage = "first", !.ready = TRUE]
    IN  w \in Rows /\ w.stage = "first"
BY DEF NoRow, Rows

LEMMA CommitEffect ==
    ASSUME CacheInv, NEW b \in BOOLEAN, CommitMade(b), adm.pc = "commit"
    PROVE  /\ policy + 1 \in Changes /\ policy' \in 0..MaxChanges
           /\ live' \in [0..MaxChanges -> BOOLEAN] /\ outbox' \in [Changes -> Rows]
           /\ Forward
           /\ \A v \in Changes : v <= policy => outbox'[v] = outbox[v]
           /\ \A v \in Changes : outbox'[v].stage # "none" => v <= policy'
           /\ firm' \subseteq 1..policy'
           /\ policy + 1 \in firm' => outbox'[policy + 1].stage = "first"
           /\ \A v \in firm' : v # policy + 1 => v \in firm
<1>0. TypeOK /\ Committed /\ Passes
  BY DEF CacheInv, Bounded
<1>1. policy \in Nat /\ policy < MaxChanges /\ MaxChanges \in Nat
  BY <1>0, CacheFacts DEF Passes
<1> DEFINE p == policy + 1
           w == [NoRow EXCEPT !.stage = "first", !.ready = TRUE]
<1>2. p \in Changes /\ p \in 0..MaxChanges /\ policy < p
  BY <1>1 DEF Changes
<1>3. /\ policy' = p /\ live' = [live EXCEPT ![p] = b]
      /\ \/ outbox' = [outbox EXCEPT ![p] = w] /\ firm' = firm \cup {p}
         \/ outbox' = outbox /\ firm' = firm
  BY DEF CommitMade
<1>4. w \in Rows /\ w.stage = "first"
  BY FirstRow
<1> HIDE DEF p, w
<1>5. live' \in [0..MaxChanges -> BOOLEAN] /\ outbox' \in [Changes -> Rows]
  BY <1>0, <1>3, <1>4 DEF TypeOK
<1>6. \A x \in 0..MaxChanges : x # p => live'[x] = live[x]
  BY <1>0, <1>3 DEF TypeOK
<1>7. \A v \in Changes : v # p => outbox'[v] = outbox[v]
  BY <1>0, <1>3 DEF TypeOK
<1>8. \A x \in Nat : x <= policy => x # p
  BY <1>1, <1>2 DEF p
<1>9. Forward
  BY <1>1, <1>2, <1>3, <1>6, <1>8 DEF Forward, p
<1>10. \A v \in Changes : v <= policy => outbox'[v] = outbox[v]
  BY <1>0, <1>7, <1>8, CacheFacts
<1>11. ASSUME NEW v \in Changes, outbox'[v].stage # "none" PROVE v <= policy'
  BY <1>0, <1>1, <1>3, <1>7, <1>11, CacheFacts DEF Committed, p
<1>12. p \notin firm /\ firm \subseteq 1..p
  BY <1>0, <1>1, <1>8, CacheFacts DEF p, Changes
<1>13. /\ firm' \subseteq 1..policy' /\ \A v \in firm' : v # p => v \in firm
       /\ p \in firm' => outbox'[p].stage = "first"
  <2>1. p \in 1..p
    BY <1>1 DEF p
  <2> QED BY <1>0, <1>2, <1>3, <1>4, <1>12, <2>1 DEF TypeOK
<1> QED BY <1>2, <1>3, <1>5, <1>9, <1>10, <1>11, <1>13 DEF p

\* A new row is at its first pass; without one the change is not firm yet.
LEMMA CommitStep ==
    ASSUME CacheInv, Commit
    PROVE  CacheInv'
<1> USE DEF cached, stored
<1>0. TypeOK /\ Committed /\ Passes
  BY DEF CacheInv, Bounded
<1>1. /\ adm.pc = "commit" /\ faults' \in 0..MaxFaults
      /\ UNCHANGED <<named, l2, l1, rd, wk>>
  BY <1>0, FaultType DEF Commit
<1>2. adm' \in Handlers /\ adm'.pc \in {"idle", "name", "post"}
  <2>1. \/ adm' = NoChange
        \/ adm' = [adm EXCEPT !.pc = "name", !.kind = "done"]
        \/ adm' = [adm EXCEPT !.pc = "post", !.kind = "done"]
    BY DEF Commit
  <2> QED BY <1>0, <2>1, HandlerEnds, HandlerTyped
<1>3. CASE UNCHANGED <<stored, firm>>
  <2>1. TypeOK'
    BY <1>0, <1>1, <1>2, <1>3 DEF TypeOK
  <2>2. Forward
    BY <1>0, <1>3, CacheFacts DEF Forward
  <2>3. Committed' /\ Passes'
    BY <1>0, <1>1, <1>2, <1>3 DEF Committed, Passes
  <2>4. \A v \in Changes : RowKept(v) /\ (Passed(v)' => Passed(v))
    BY <1>1, <1>3 DEF RowKept, Passed
  <2> QED BY <1>1, <2>1, <2>2, <2>3, <2>4, RestingStep
<1>4. ASSUME NEW b \in BOOLEAN, CommitMade(b) PROVE CacheInv'
  <2>1. /\ policy + 1 \in Changes /\ policy' \in 0..MaxChanges
        /\ live' \in [0..MaxChanges -> BOOLEAN] /\ outbox' \in [Changes -> Rows]
        /\ Forward
        /\ \A v \in Changes : v <= policy => outbox'[v] = outbox[v]
        /\ \A v \in Changes : outbox'[v].stage # "none" => v <= policy'
        /\ firm' \subseteq 1..policy'
        /\ policy + 1 \in firm' => outbox'[policy + 1].stage = "first"
        /\ \A v \in firm' : v # policy + 1 => v \in firm
    BY <1>1, <1>4, CommitEffect
  <2>2. TypeOK'
    BY <1>0, <1>1, <1>2, <2>1 DEF TypeOK
  <2>3. policy \in Nat /\ policy' = policy + 1
    BY <1>0, <1>4, CacheFacts DEF CommitMade
  <2>4. Committed'
    BY <1>0, <1>1, <2>1, <2>3, CacheFacts DEF Committed
  <2>5. \A x \in Instances, v \in Changes : wk[x][v].second => v <= policy
    BY <1>0 DEF Committed, NoEvent
  <2>6. Passes'
    BY <1>0, <1>1, <1>2, <2>1, <2>5 DEF Passes
  <2>7. \A v \in Changes : v <= policy => RowKept(v)
    BY <2>1 DEF RowKept
  <2>8. ASSUME NEW v \in Changes, Passed(v)' PROVE Passed(v)
    <3>1. CASE v = policy + 1
      <4>1. \A x \in Instances : wk'[x][v].pc = "none"
        BY <1>0, <1>1, <2>3, <3>1 DEF Committed, NoEvent
      <4> QED BY <2>1, <2>8, <3>1, <4>1 DEF Passed
    <3>2. CASE v # policy + 1
      <4>1. v \in firm /\ v <= policy
        BY <1>0, <2>1, <2>8, <3>2, CacheFacts DEF Passed
      <4> QED BY <1>1, <2>1, <2>8, <4>1 DEF Passed
    <3> QED BY <3>1, <3>2
  <2> QED BY <1>1, <2>1, <2>2, <2>4, <2>6, <2>7, <2>8, RestingStep
<1>5. UNCHANGED <<stored, firm>> \/ \E b \in BOOLEAN : CommitMade(b)
  BY DEF Commit, CommitMade
<1> QED BY <1>3, <1>4, <1>5

LEMMA NameKeyStep ==
    ASSUME CacheInv, NameKey
    PROVE  CacheInv'
<1> USE DEF cached, stored
<1>0. TypeOK /\ Committed /\ Passes
  BY DEF CacheInv, Bounded
<1>1. /\ faults' \in 0..MaxFaults /\ named' \in Int
      /\ UNCHANGED <<l2, l1, policy, live, outbox, rd, wk, firm>>
  BY <1>0, FaultType DEF NameKey, TypeOK
<1>2. adm' \in Handlers /\ adm'.pc \in {"drop", "post"}
  <2>1. adm' = [adm EXCEPT !.pc = "drop"] \/ adm' = [adm EXCEPT !.pc = "post"]
    BY DEF NameKey
  <2> QED BY <1>0, <2>1, HandlerTyped
<1>3. TypeOK'
  BY <1>0, <1>1, <1>2 DEF TypeOK
<1>4. Forward
  BY <1>0, <1>1, CacheFacts DEF Forward
<1>5. Committed' /\ Passes'
  BY <1>0, <1>1, <1>2 DEF Committed, Passes
<1>6. \A v \in Changes : RowKept(v) /\ (Passed(v)' => Passed(v))
  BY <1>1 DEF RowKept, Passed
<1> QED BY <1>1, <1>3, <1>4, <1>5, <1>6, RestingStep

LEMMA DeleteEntryStep ==
    ASSUME CacheInv, DeleteEntry
    PROVE  CacheInv'
<1> USE DEF cached, stored
<1>0. TypeOK /\ Committed /\ Passes
  BY DEF CacheInv, Bounded
<1>1. /\ faults' \in 0..MaxFaults /\ named' \in Int /\ adm' = NoChange
      /\ UNCHANGED <<policy, live, outbox, rd, wk, firm>>
  BY <1>0, FaultType DEF DeleteEntry, NoKey
<1>2. /\ l2' \subseteq l2
      /\ l1' \in [Instances -> SUBSET Entries] /\ \A i \in Instances : l1'[i] \subseteq l1[i]
  BY <1>0 DEF DeleteEntry, TypeOK
<1>3. TypeOK'
  BY <1>0, <1>1, <1>2, HandlerEnds DEF TypeOK
<1>4. Forward
  BY <1>0, <1>1, CacheFacts DEF Forward
<1>5. Committed' /\ Passes'
  BY <1>0, <1>1, HandlerEnds DEF Committed, Passes
<1>6. \A v \in Changes : RowKept(v) /\ (Passed(v)' => Passed(v))
  BY <1>1 DEF RowKept, Passed
<1> QED BY <1>1, <1>2, <1>3, <1>4, <1>5, <1>6, RestingStep

\* A worker goes on with an event.
EventMoves(i, v, pc) ==
    /\ wk' \in [Instances -> [Changes -> Events]]
    /\ wk'[i][v].pc = pc
    /\ \A x \in Instances, y \in Changes :
         /\ wk'[x][y].second = wk[x][y].second
         /\ x # i \/ y # v => wk'[x][y] = wk[x][y]

LEMMA EventEffect ==
    ASSUME TypeOK, NEW i \in Instances, NEW v \in Changes,
           NEW pc, pc \in {"none", "incr", "publish", "retry", "finish"},
           wk' = [wk EXCEPT ![i][v].pc = pc]
    PROVE  EventMoves(i, v, pc)
<1>1. wk \in [Instances -> [Changes -> Events]]
  BY DEF TypeOK
<1> DEFINE e == [wk[i][v] EXCEPT !.pc = pc]
<1>2. e \in Events /\ e.pc = pc /\ e.second = wk[i][v].second
  <2>1. wk[i][v] \in Events
    BY <1>1
  <2> QED BY <2>1 DEF Events
<1>3. wk' = [wk EXCEPT ![i] = [wk[i] EXCEPT ![v] = e]]
  OBVIOUS
<1> HIDE DEF e
<1>4. \A x \in Instances, y \in Changes : wk'[x][y] = IF x = i /\ y = v THEN e ELSE wk[x][y]
  BY <1>1, <1>3
<1>5. wk' \in [Instances -> [Changes -> Events]]
  BY <1>1, <1>2, <1>3
<1> QED BY <1>2, <1>4, <1>5 DEF EventMoves

\* The generation is advanced after the local cache was cleared.
LEMMA AdvanceGenerationStep ==
    ASSUME CacheInv, NEW i \in Instances, NEW v \in Changes, AdvanceGeneration(i, v)
    PROVE  CacheInv'
<1> USE DEF stored
<1>0. TypeOK /\ Committed /\ Passes
  BY DEF CacheInv, Bounded
<1>1. /\ wk[i][v].pc = "incr" /\ faults' \in 0..MaxFaults
      /\ UNCHANGED <<policy, live, outbox, adm>>
  BY <1>0, FaultType DEF AdvanceGeneration
<1>2. PICK pc \in {"publish", "retry"} :
        /\ wk' = [wk EXCEPT ![i][v].pc = pc]
        /\ Advance({i}) \/ (pc = "retry" /\ Clear(i))
  BY DEF AdvanceGeneration
<1>3. EventMoves(i, v, pc)
  <2>1. pc \in {"none", "incr", "publish", "retry", "finish"}
    OBVIOUS
  <2> QED BY <1>0, <1>2, <2>1, EventEffect, Zenon
<1>4. Committed'
  BY <1>0, <1>1, <1>3 DEF Committed, NoEvent, EventMoves
<1>5. Passes'
  BY <1>0, <1>1, <1>3 DEF Passes, EventMoves
<1>6. adm' \in Handlers
  BY <1>0, <1>1 DEF TypeOK
<1>7. CASE Advance({i})
  BY <1>1, <1>3, <1>4, <1>5, <1>6, <1>7, AdvancingStep DEF EventMoves
<1>8. CASE pc = "retry" /\ Clear(i)
  <2>1. \A y \in Changes : Passed(y)' => Passed(y)
    BY <1>1, <1>3, <1>8 DEF Passed, EventMoves, Clear
  <2> QED BY <1>1, <1>3, <1>4, <1>5, <1>6, <1>8, <2>1, ClearsStep DEF EventMoves
<1> QED BY <1>2, <1>7, <1>8

LEMMA PublishAllStep ==
    ASSUME CacheInv, NEW i \in Instances, NEW v \in Changes, PublishAll(i, v)
    PROVE  CacheInv'
<1> USE DEF stored, change
<1>0. TypeOK /\ Committed /\ Passes
  BY DEF CacheInv, Bounded
<1>1. /\ wk[i][v].pc = "publish" /\ faults' \in 0..MaxFaults
      /\ UNCHANGED <<l2, l1, policy, live, outbox, rd, adm, named, firm>>
  BY <1>0, FaultType DEF PublishAll
<1>2. PICK pc \in {"finish", "retry"} : wk' = [wk EXCEPT ![i][v].pc = pc]
  BY DEF PublishAll
<1>3. EventMoves(i, v, pc)
  <2>1. pc \in {"none", "incr", "publish", "retry", "finish"}
    OBVIOUS
  <2> QED BY <1>0, <1>2, <2>1, EventEffect, Zenon
<1>4. Committed'
  BY <1>0, <1>1, <1>3 DEF Committed, NoEvent, EventMoves
<1>5. Passes'
  BY <1>0, <1>1, <1>3 DEF Passes, EventMoves
<1>6. TypeOK'
  BY <1>0, <1>1, <1>3 DEF TypeOK, EventMoves
<1>7. Forward
  BY <1>0, <1>1, CacheFacts DEF Forward
<1>8. ASSUME NEW y \in Changes PROVE RowKept(y) /\ (Passed(y)' => Passed(y))
  BY <1>1, <1>3 DEF RowKept, Passed, EventMoves
<1> QED BY <1>1, <1>4, <1>5, <1>6, <1>7, <1>8, RestingStep

\* A claim takes rows that are ready, and changes no stage.
LEMMA ClaimStep ==
    ASSUME CacheInv, NEW i \in Instances, Claim(i)
    PROVE  CacheInv'
<1> USE DEF cached, change
<1>0. TypeOK /\ Committed /\ Passes
  BY DEF CacheInv, Bounded
<1>1. faults' \in 0..MaxFaults /\ UNCHANGED <<l2, l1, policy, live, rd, adm, named, firm>>
  BY <1>0, FaultType DEF Claim
<1> DEFINE due == {v \in Changes : /\ outbox[v].stage # "none" /\ outbox[v].ready
                                   /\ outbox[v].by = Nobody \/ ~outbox[v].leased}
<1>2. /\ outbox' = [v \in Changes |-> IF v \in due THEN [outbox[v] EXCEPT !.by = i, !.leased = TRUE]
                                     ELSE outbox[v]]
      /\ \/ wk' = [wk EXCEPT ![i] = [v \in Changes |->
                          IF v \in due THEN [pc |-> "incr", second |-> outbox[v].stage = "second"]
                          ELSE NoEvent]]
         \/ UNCHANGED wk
  BY DEF Claim
<1>3. \A v \in due : v \in Changes /\ outbox[v].stage # "none" /\ outbox[v].ready
  OBVIOUS
<1> HIDE DEF due
<1>4. ASSUME NEW v \in Changes
      PROVE  /\ outbox'[v] \in Rows /\ outbox'[v].stage = outbox[v].stage
             /\ v \notin due => outbox'[v] = outbox[v]
  <2>1. outbox[v] \in Rows
    BY <1>0 DEF TypeOK
  <2>2. CASE v \in due
    <3>1. outbox'[v] = [outbox[v] EXCEPT !.by = i, !.leased = TRUE]
      BY <1>2, <2>2
    <3> QED BY <2>1, <2>2, <3>1 DEF Rows
  <2>3. CASE v \notin due
    BY <1>2, <2>1, <2>3
  <2> QED BY <2>2, <2>3
<1>5. outbox' \in [Changes -> Rows]
  BY <1>2, <1>4
<1>6. ASSUME NEW x \in Instances, NEW v \in Changes
      PROVE  /\ wk'[x][v] \in Events
             /\ \/ wk'[x][v] = wk[x][v] \/ wk'[x][v] = NoEvent
                \/ v \in due /\ wk'[x][v].pc = "incr" /\ wk'[x][v].second = (outbox[v].stage = "second")
  <2>0. wk \in [Instances -> [Changes -> Events]] /\ wk[x][v] \in Events /\ NoEvent \in Events
    BY <1>0 DEF TypeOK, NoEvent, Events
  <2> DEFINE e == [pc |-> "incr", second |-> outbox[v].stage = "second"]
  <2>1. e \in Events /\ e.pc = "incr" /\ e.second = (outbox[v].stage = "second")
    BY DEF Events
  <2>2. wk'[x][v] = wk[x][v] \/ wk'[x][v] = (IF v \in due THEN e ELSE NoEvent)
    BY <1>2, <2>0
  <2> HIDE DEF e
  <2> QED BY <2>0, <2>1, <2>2
<1>7. wk' \in [Instances -> [Changes -> Events]]
  <2>0. wk \in [Instances -> [Changes -> Events]]
    BY <1>0 DEF TypeOK
  <2>1. wk' \in [Instances -> [Changes -> Events]] \/ \E f : wk' = [wk EXCEPT ![i] = f] /\ f \in [Changes -> Events]
    <3> DEFINE f == [v \in Changes |->
                          IF v \in due THEN [pc |-> "incr", second |-> outbox[v].stage = "second"]
                          ELSE NoEvent]
    <3>1. f \in [Changes -> Events]
      BY DEF Events, NoEvent
    <3>2. wk' = [wk EXCEPT ![i] = f] \/ wk' = wk
      BY <1>2
    <3> QED BY <2>0, <3>1, <3>2
  <2> QED BY <2>0, <2>1
<1>8. TypeOK'
  BY <1>0, <1>1, <1>5, <1>7 DEF TypeOK
<1>9. Forward
  BY <1>0, <1>1, CacheFacts DEF Forward
<1>10. Committed'
  BY <1>0, <1>1, <1>3, <1>4, <1>6 DEF Committed
<1>11. Passes'
  <2>1. ASSUME NEW x \in Instances, NEW v \in Changes, wk'[x][v].second PROVE outbox'[v].stage # "first"
    <3>1. CASE wk'[x][v] = wk[x][v]
      BY <1>0, <1>4, <2>1, <3>1 DEF Passes
    <3>2. CASE wk'[x][v] = NoEvent
      BY <2>1, <3>2 DEF NoEvent
    <3>3. CASE wk'[x][v].second = (outbox[v].stage = "second")
      BY <1>4, <2>1, <3>3
    <3> QED BY <1>6, <3>1, <3>2, <3>3
  <2> QED BY <1>0, <1>1, <2>1 DEF Passes
<1>12. ASSUME NEW v \in Changes PROVE RowKept(v) /\ (Passed(v)' => Passed(v))
  <2>1. RowKept(v)
    BY <1>3, <1>4 DEF RowKept
  <2>2. Passed(v)' => Passed(v)
    BY <1>1, <1>4, <1>6 DEF Passed, NoEvent
  <2> QED BY <2>1, <2>2
<1> QED BY <1>1, <1>8, <1>9, <1>10, <1>11, <1>12, RestingStep

LEMMA NoRowFacts ==
    /\ NoRow \in Rows /\ NoRow.stage = "none" /\ NoRow.by = Nobody /\ NoRow.ready = FALSE
    /\ \A g \in {"none", "first", "second"} :
         LET w == [NoRow EXCEPT !.stage = g]
         IN  w \in Rows /\ w.stage = g /\ w.by = Nobody /\ w.ready = FALSE
BY DEF NoRow, Rows

\* The worker is done with event v; the row is changed only if it has it claimed.
Settled(i, v, new) ==
    /\ outbox' \in [Changes -> Rows] /\ wk' \in [Instances -> [Changes -> Events]]
    /\ \A y \in Changes : y # v => outbox'[y] = outbox[y]
    /\ outbox'[v] = outbox[v] \/ (outbox[v].by = i /\ outbox'[v] = new)
    /\ \A x \in Instances, y \in Changes :
         wk'[x][y] = IF x = i /\ y = v THEN NoEvent ELSE wk[x][y]

LEMMA SettleEffect ==
    ASSUME TypeOK, NEW i \in Instances, NEW v \in Changes, NEW new \in Rows, Settle(i, v, new)
    PROVE  Settled(i, v, new) /\ faults' \in 0..MaxFaults
<1>1. faults' \in 0..MaxFaults
  BY FaultType DEF Settle
<1>2. /\ wk \in [Instances -> [Changes -> Events]] /\ outbox \in [Changes -> Rows]
      /\ NoEvent \in Events
  BY DEF TypeOK, NoEvent, Events
<1>3. /\ wk' \in [Instances -> [Changes -> Events]]
      /\ \A x \in Instances, y \in Changes :
            wk'[x][y] = IF x = i /\ y = v THEN NoEvent ELSE wk[x][y]
  <2>1. wk' = [wk EXCEPT ![i] = [wk[i] EXCEPT ![v] = NoEvent]]
    BY DEF Settle
  <2> QED BY <1>2, <2>1
<1>4. /\ outbox' \in [Changes -> Rows]
      /\ \A y \in Changes : y # v => outbox'[y] = outbox[y]
      /\ outbox'[v] = outbox[v] \/ (outbox[v].by = i /\ outbox'[v] = new)
  <2>1. outbox' = outbox \/ outbox' = [outbox EXCEPT ![v] = IF outbox[v].by = i THEN new ELSE outbox[v]]
    BY DEF Settle
  <2> QED BY <1>2, <2>1
<1> QED BY <1>1, <1>3, <1>4 DEF Settled

\* A worker settles an event: the row stays at its stage, or its passes are over.
LEMMA SettledStep ==
    ASSUME CacheInv, NEW i \in Instances, NEW v \in Changes, NEW new,
           Settled(i, v, new), faults' \in 0..MaxFaults,
           UNCHANGED <<cached, policy, live, rd, change>>,
           new.stage = outbox[v].stage \/ (new.stage = "none" /\ outbox[v].stage # "first")
    PROVE  CacheInv'
<1> USE DEF cached, change
<1>0. TypeOK /\ Committed /\ Passes
  BY DEF CacheInv, Bounded
<1>1. \A y \in Changes :
        /\ outbox'[y].stage = outbox[y].stage \/ (outbox'[y].stage = "none" /\ outbox[y].stage # "first")
        /\ outbox'[y] = outbox[y] \/ outbox[y].by = i
  BY DEF Settled
<1>2. \A x \in Instances, y \in Changes : wk'[x][y] = wk[x][y] \/ wk'[x][y] = NoEvent
  BY DEF Settled
<1>3. TypeOK'
  BY <1>0 DEF TypeOK, Settled
<1>4. Forward
  BY <1>0, CacheFacts DEF Forward
<1>5. Committed'
  BY <1>0, <1>1, <1>2 DEF Committed
<1>6. Passes'
  BY <1>0, <1>1, <1>2 DEF Passes, NoEvent
<1>7. ASSUME NEW y \in Changes PROVE RowKept(y) /\ (Passed(y)' => Passed(y))
  <2>1. RowKept(y)
    BY <1>1, CacheAssumption DEF RowKept
  <2>2. Passed(y)' => Passed(y)
    BY <1>1, <1>2 DEF Passed, NoEvent
  <2> QED BY <2>1, <2>2
<1> QED BY <1>3, <1>4, <1>5, <1>6, <1>7, RestingStep

LEMMA RetryClaimedStep ==
    ASSUME CacheInv, NEW i \in Instances, NEW v \in Changes, RetryClaimed(i, v)
    PROVE  CacheInv'
<1>0. TypeOK
  BY DEF CacheInv
<1> DEFINE new == [NoRow EXCEPT !.stage = outbox[v].stage]
<1>1. outbox[v].stage \in {"none", "first", "second"}
  BY <1>0 DEF TypeOK, Rows
<1>2. new \in Rows /\ new.stage = outbox[v].stage
  BY <1>1, NoRowFacts
<1>3. Settle(i, v, new) /\ UNCHANGED <<cached, policy, live, rd, change>>
  BY DEF RetryClaimed
<1> HIDE DEF new
<1>4. Settled(i, v, new) /\ faults' \in 0..MaxFaults
  BY <1>0, <1>2, <1>3, SettleEffect
<1> QED BY <1>2, <1>3, <1>4, SettledStep

\* The second pass is done, so the first was.
LEMMA DeleteClaimedStep ==
    ASSUME CacheInv, NEW i \in Instances, NEW v \in Changes, DeleteClaimed(i, v)
    PROVE  CacheInv'
<1>0. TypeOK /\ Passes
  BY DEF CacheInv
<1>1. Settle(i, v, NoRow) /\ UNCHANGED <<cached, policy, live, rd, change>> /\ wk[i][v].second
  BY DEF DeleteClaimed
<1>2. Settled(i, v, NoRow) /\ faults' \in 0..MaxFaults
  BY <1>0, <1>1, NoRowFacts, SettleEffect
<1>3. outbox[v].stage # "first"
  BY <1>0, <1>1 DEF Passes
<1> QED BY <1>1, <1>2, <1>3, NoRowFacts, SettledStep

\* The first pass is over, and the second waits for the requests in flight.
LEMMA ScheduleSecondPassStep ==
    ASSUME CacheInv, NEW i \in Instances, NEW v \in Changes, ScheduleSecondPass(i, v)
    PROVE  CacheInv'
<1> USE DEF cached, change
<1>0. TypeOK /\ Committed /\ Passes
  BY DEF CacheInv, Bounded
<1> DEFINE w == [NoRow EXCEPT !.stage = "second"]
           new == IF outbox[v].stage = "first" THEN w ELSE outbox[v]
<1>1. /\ wk[i][v].pc = "finish" /\ Settle(i, v, new)
      /\ UNCHANGED <<l2, l1, policy, live, adm, named, firm>>
  BY DEF ScheduleSecondPass
<1>2. \/ outbox'[v].stage = "second" /\ outbox[v].stage = "first"
         /\ rd' = [r \in Readers |-> IF InFlight(r) THEN [rd[r] EXCEPT !.past = @ \cup {v}] ELSE rd[r]]
      \/ ~(outbox'[v].stage = "second" /\ outbox[v].stage = "first") /\ rd' = rd
  BY DEF ScheduleSecondPass
<1>3. w \in Rows /\ w.stage = "second" /\ w.by = Nobody /\ w.ready = FALSE
  BY NoRowFacts
<1> HIDE DEF w
<1>4. new \in Rows /\ (new = outbox[v] \/ (outbox[v].stage = "first" /\ new = w))
  BY <1>0, <1>3 DEF TypeOK
<1> HIDE DEF new
<1>5. Settled(i, v, new) /\ faults' \in 0..MaxFaults
  BY <1>0, <1>1, <1>4, SettleEffect
<1>6. CASE outbox' = outbox
  <2>1. rd' = rd
    BY <1>2, <1>6
  <2>2. Settled(i, v, outbox[v])
    BY <1>5, <1>6 DEF Settled
  <2> QED BY <1>1, <1>5, <2>1, <2>2, SettledStep
<1>7. CASE outbox' # outbox
  <2>1. outbox[v].stage = "first" /\ outbox'[v] = w
    <3>1. outbox'[v] # outbox[v]
      BY <1>0, <1>5, <1>7 DEF Settled, TypeOK
    <3> QED BY <1>4, <1>5, <3>1 DEF Settled
  <2>2. \A y \in Changes : y # v => outbox'[y] = outbox[y]
    BY <1>5 DEF Settled
  <2>3. \A x \in Instances, y \in Changes : wk'[x][y] = wk[x][y] \/ wk'[x][y] = NoEvent
    BY <1>5 DEF Settled
  <2>4. rd' = [r \in Readers |-> IF InFlight(r) THEN [rd[r] EXCEPT !.past = @ \cup {v}] ELSE rd[r]]
    BY <1>2, <1>3, <2>1
  <2>5. ASSUME NEW r \in Readers
        PROVE  /\ rd'[r] \in Reads /\ Rests(r) /\ rd'[r].key = rd[r].key
               /\ InFlight(r) => v \in rd'[r].past
    <3>1. rd[r] \in Reads
      BY <1>0 DEF TypeOK
    <3>2. CASE InFlight(r)
      <4>1. rd'[r] = [rd[r] EXCEPT !.past = rd[r].past \cup {v}]
        BY <2>4, <3>2
      <4> QED BY <3>1, <4>1 DEF Reads, Rests
    <3>3. CASE ~InFlight(r)
      BY <2>4, <3>1, <3>3 DEF Rests
    <3> QED BY <3>2, <3>3
  <2>6. rd' \in [Readers -> Reads]
    BY <2>4, <2>5
  <2>7. TypeOK'
    BY <1>0, <1>1, <1>5, <2>6 DEF TypeOK, Settled
  <2>8. Forward
    BY <1>0, <1>1, CacheFacts DEF Forward
  <2>9. Sourced
    BY <1>1, <2>5 DEF Sourced, Rests
  <2>10. v <= policy
    BY <1>0, <1>1 DEF Committed, NoEvent
  <2>11. Committed'
    BY <1>0, <1>1, <2>2, <2>3, <2>10 DEF Committed
  <2>12. Passes'
    BY <1>0, <1>1, <1>3, <2>1, <2>2, <2>3 DEF Passes, NoEvent
  <2>13. ASSUME NEW y \in Changes PROVE Passed(y)' => Passed(y)
    BY <1>1, <2>2, <2>3, <2>10 DEF Passed, NoEvent
  <2>14. ASSUME NEW r \in Readers PROVE Safe(r)'
    <3>1. ASSUME NEW y \in Changes, InFlight(r)
          PROVE  /\ outbox[y].stage = "first" => outbox'[y].stage = "first" \/ Waits(y, r)'
                 /\ Waits(y, r) => Waits(y, r)' \/ rd'[r].late
      <4>1. CASE y = v
        BY <1>3, <2>1, <2>5, <3>1, <4>1 DEF Waits
      <4>2. CASE y # v
        BY <2>2, <2>5, <4>2 DEF Waits, Rests
      <4> QED BY <4>1, <4>2
    <3> QED BY <2>5, <2>8, <2>9, <3>1, SafeWaits
  <2> QED BY <2>7, <2>8, <2>9, <2>11, <2>12, <2>13, <2>14, QuietStep
<1> QED BY <1>6, <1>7

\* A row becomes available; a request that its second pass waited for is late.
LEMMA BecomesReadyStep ==
    ASSUME CacheInv, NEW v \in Changes, BecomesReady(v)
    PROVE  CacheInv'
<1> USE DEF cached, change
<1>0. TypeOK /\ Committed /\ Passes
  BY DEF CacheInv, Bounded
<1>1. faults' \in 0..MaxFaults /\ UNCHANGED <<l2, l1, policy, live, wk, adm, named, firm>>
  BY <1>0, FaultType DEF BecomesReady
<1>2. outbox' = [outbox EXCEPT ![v] = [outbox[v] EXCEPT !.ready = TRUE]]
  BY DEF BecomesReady
<1>3. rd' = [r \in Readers |-> IF InFlight(r) /\ v \in rd[r].past /\ outbox[v].stage = "second"
                              THEN [rd[r] EXCEPT !.late = TRUE] ELSE rd[r]]
  BY DEF BecomesReady
<1>4. /\ outbox' \in [Changes -> Rows] /\ outbox'[v].stage = outbox[v].stage
      /\ \A y \in Changes : y # v => outbox'[y] = outbox[y]
  <2>1. outbox \in [Changes -> Rows] /\ outbox[v] \in Rows
    BY <1>0 DEF TypeOK
  <2> DEFINE w == [outbox[v] EXCEPT !.ready = TRUE]
  <2>2. w \in Rows /\ w.stage = outbox[v].stage
    BY <2>1 DEF Rows
  <2> HIDE DEF w
  <2> QED BY <1>2, <2>1, <2>2 DEF w
<1>5. ASSUME NEW r \in Readers
      PROVE  /\ rd'[r] \in Reads /\ Rests(r) /\ rd'[r].key = rd[r].key
             /\ InFlight(r) /\ v \in rd[r].past /\ outbox[v].stage = "second" => rd'[r].late
  <2>1. rd[r] \in Reads
    BY <1>0 DEF TypeOK
  <2>2. CASE InFlight(r) /\ v \in rd[r].past /\ outbox[v].stage = "second"
    <3>1. rd'[r] = [rd[r] EXCEPT !.late = TRUE]
      BY <1>3, <2>2
    <3> QED BY <2>1, <3>1 DEF Reads, Rests
  <2>3. CASE ~(InFlight(r) /\ v \in rd[r].past /\ outbox[v].stage = "second")
    BY <1>3, <2>1, <2>3 DEF Rests
  <2> QED BY <2>2, <2>3
<1>6. rd' \in [Readers -> Reads]
  BY <1>3, <1>5
<1>7. TypeOK'
  BY <1>0, <1>1, <1>4, <1>6 DEF TypeOK
<1>8. Forward
  BY <1>0, <1>1, CacheFacts DEF Forward
<1>9. Sourced
  BY <1>1, <1>5 DEF Sourced, Rests
<1>10. \A y \in Changes : outbox'[y].stage = outbox[y].stage
  BY <1>4
<1>11. Committed' /\ Passes'
  BY <1>0, <1>1, <1>10 DEF Committed, Passes
<1>12. \A y \in Changes : Passed(y)' => Passed(y)
  BY <1>1, <1>10 DEF Passed
<1>13. ASSUME NEW r \in Readers PROVE Safe(r)'
  <2>1. ASSUME NEW y \in Changes, InFlight(r)
        PROVE  /\ outbox[y].stage = "first" => outbox'[y].stage = "first" \/ Waits(y, r)'
               /\ Waits(y, r) => Waits(y, r)' \/ rd'[r].late
    <3>1. CASE y = v
      BY <1>5, <1>10, <2>1, <3>1 DEF Waits
    <3>2. CASE y # v
      BY <1>4, <1>5, <3>2 DEF Waits, Rests
    <3> QED BY <3>1, <3>2
  <2> QED BY <1>5, <1>8, <1>9, <2>1, SafeWaits
<1> QED BY <1>7, <1>8, <1>9, <1>11, <1>12, <1>13, QuietStep

LEMMA LeaseExpiresStep ==
    ASSUME CacheInv, NEW v \in Changes, LeaseExpires(v)
    PROVE  CacheInv'
<1> USE DEF cached, change
<1>0. TypeOK /\ Committed /\ Passes
  BY DEF CacheInv, Bounded
<1>1. faults' \in 0..MaxFaults /\ UNCHANGED <<l2, l1, policy, live, rd, wk, adm, named, firm>>
  BY <1>0, FaultType DEF LeaseExpires
<1>2. outbox' = [outbox EXCEPT ![v] = [outbox[v] EXCEPT !.leased = FALSE]] /\ outbox[v].by # Nobody
  BY DEF LeaseExpires
<1>3. /\ outbox' \in [Changes -> Rows] /\ outbox'[v].stage = outbox[v].stage
      /\ \A y \in Changes : y # v => outbox'[y] = outbox[y]
  <2>1. outbox \in [Changes -> Rows] /\ outbox[v] \in Rows
    BY <1>0 DEF TypeOK
  <2> DEFINE w == [outbox[v] EXCEPT !.leased = FALSE]
  <2>2. w \in Rows /\ w.stage = outbox[v].stage
    BY <2>1 DEF Rows
  <2> HIDE DEF w
  <2> QED BY <1>2, <2>1, <2>2 DEF w
<1>4. TypeOK'
  BY <1>0, <1>1, <1>3 DEF TypeOK
<1>5. Forward
  BY <1>0, <1>1, CacheFacts DEF Forward
<1>6. \A y \in Changes : outbox'[y].stage = outbox[y].stage
  BY <1>3
<1>7. Committed' /\ Passes'
  BY <1>0, <1>1, <1>6 DEF Committed, Passes
<1>8. \A y \in Changes : RowKept(y) /\ (Passed(y)' => Passed(y))
  BY <1>1, <1>2, <1>3, <1>6 DEF RowKept, Passed
<1> QED BY <1>1, <1>4, <1>5, <1>7, <1>8, RestingStep

\* Entries expire, or a message empties a local cache.
LEMMA ExpireStep ==
    ASSUME CacheInv, UNCHANGED <<stored, rd, wk, change, faults>>,
           l2' \subseteq l2, l1' \in [Instances -> SUBSET Entries],
           \A i \in Instances : l1'[i] \subseteq l1[i]
    PROVE  CacheInv'
<1> USE DEF stored, change
<1>0. TypeOK /\ Committed /\ Passes
  BY DEF CacheInv, Bounded
<1>1. TypeOK'
  BY <1>0 DEF TypeOK
<1>2. Forward
  BY <1>0, CacheFacts DEF Forward
<1>3. Committed' /\ Passes'
  BY <1>0 DEF Committed, Passes
<1>4. \A v \in Changes : RowKept(v) /\ (Passed(v)' => Passed(v))
  BY DEF RowKept, Passed
<1> QED BY <1>1, <1>2, <1>3, <1>4, RestingStep

LEMMA LocalExpiresStep ==
    ASSUME CacheInv, NEW i \in Instances, LocalExpires(i)
    PROVE  CacheInv'
<1>1. /\ l1' \in [Instances -> SUBSET Entries] /\ \A x \in Instances : l1'[x] \subseteq l1[x]
      /\ l2' \subseteq l2
  BY DEF CacheInv, TypeOK, LocalExpires
<1> QED BY <1>1, ExpireStep DEF LocalExpires

LEMMA RedisExpiresStep ==
    ASSUME CacheInv, RedisExpires
    PROVE  CacheInv'
<1>1. /\ l1' \in [Instances -> SUBSET Entries] /\ \A x \in Instances : l1'[x] \subseteq l1[x]
      /\ l2' \subseteq l2
  BY DEF CacheInv, TypeOK, RedisExpires
<1> QED BY <1>1, ExpireStep DEF RedisExpires

LEMMA EvictStep ==
    ASSUME CacheInv, Evict
    PROVE  CacheInv'
<1> USE DEF stored
<1>0. TypeOK /\ Committed /\ Passes
  BY DEF CacheInv, Bounded
<1>1. Advance({}) /\ faults' \in 0..MaxFaults /\ UNCHANGED <<policy, live, outbox, wk, adm>>
  BY <1>0, FaultType DEF Evict
<1>2. Committed' /\ Passes'
  BY <1>0, <1>1 DEF Committed, Passes
<1>3. wk' \in [Instances -> [Changes -> Events]] /\ adm' \in Handlers
  BY <1>0, <1>1 DEF TypeOK
<1> QED BY <1>1, <1>2, <1>3, AdvancingStep

LEMMA CrashStep ==
    ASSUME CacheInv, NEW i \in Instances, Crash(i)
    PROVE  CacheInv'
<1> USE DEF stored
<1>0. TypeOK /\ Committed /\ Passes
  BY DEF CacheInv, Bounded
<1>1. faults' \in 0..MaxFaults /\ UNCHANGED <<l2, policy, live, outbox, firm>>
  BY <1>0, FaultType DEF Crash
<1>2. l1' \in [Instances -> SUBSET Entries] /\ \A x \in Instances : l1'[x] \subseteq l1[x]
  BY <1>0 DEF Crash, TypeOK
<1>3. rd' \in [Readers -> Reads] /\ \A r \in Readers : rd'[r] = rd[r] \/ rd'[r] = Away
  BY <1>0, AwayFacts DEF Crash, TypeOK
<1>4. /\ wk' \in [Instances -> [Changes -> Events]]
      /\ \A x \in Instances, y \in Changes : wk'[x][y] = wk[x][y] \/ wk'[x][y] = NoEvent
  <2>1. /\ wk \in [Instances -> [Changes -> Events]] /\ NoEvent \in Events
        /\ wk' = [wk EXCEPT ![i] = [v \in Changes |-> NoEvent]]
    BY <1>0 DEF Crash, TypeOK, NoEvent, Events
  <2> QED BY <2>1
<1>5. (adm' = adm \/ adm' = NoChange) /\ adm' \in Handlers /\ named' \in Int
  BY <1>0, HandlerEnds DEF Crash, TypeOK, NoKey
<1>6. TypeOK'
  BY <1>0, <1>1, <1>2, <1>3, <1>4, <1>5 DEF TypeOK
<1>7. Forward
  BY <1>0, <1>1, CacheFacts DEF Forward
<1>8. Sourced
  BY <1>1, <1>2, <1>3, AwayFacts DEF Sourced, Holding
<1>9. Committed'
  BY <1>0, <1>1, <1>4 DEF Committed
<1>10. Passes'
  BY <1>0, <1>1, <1>4, <1>5, HandlerEnds DEF Passes, NoEvent
<1>11. \A y \in Changes : RowKept(y) /\ (Passed(y)' => Passed(y))
  BY <1>1, <1>4 DEF RowKept, Passed, NoEvent
<1>12. ASSUME NEW r \in Readers PROVE Safe(r)'
  <2>1. CASE rd'[r] = rd[r]
    BY <1>7, <1>8, <1>11, <2>1, SafeStays DEF Rests
  <2>2. CASE rd'[r] = Away
    BY <1>0, <1>1, <2>2, AwayFacts, CacheFacts DEF Safe, InFlight, Keyed, Holding
  <2> QED BY <1>3, <2>1, <2>2
<1> QED BY <1>6, <1>7, <1>8, <1>9, <1>10, <1>11, <1>12, QuietStep

-----------------------------------------------------------------------------
(* Theorems.                                                               *)

LEMMA CacheInit == Init => CacheInv
<1> SUFFICES ASSUME Init PROVE CacheInv
  OBVIOUS
<1>1. /\ policy = 0 /\ l2 = {} /\ l1 = [i \in Instances |-> {}] /\ rd = [r \in Readers |-> Away]
      /\ outbox = [v \in Changes |-> NoRow] /\ adm = NoChange /\ named = NoKey /\ faults = 0 /\ firm = {}
      /\ wk = [i \in Instances |-> [v \in Changes |-> NoEvent]]
      /\ live \in [0..MaxChanges -> BOOLEAN]
  BY DEF Init
<1>2. TypeOK
  <2>1. NoEvent \in Events /\ NoKey \in Int /\ 0 \in 0..MaxChanges /\ 0 \in 0..MaxFaults
    BY CacheAssumption DEF NoEvent, Events, NoKey
  <2> QED BY <1>1, <2>1, AwayFacts, NoRowFacts, HandlerEnds DEF TypeOK
<1>3. Committed
  BY <1>1, NoRowFacts DEF Committed
<1>4. Bounded
  BY <1>1, <1>3 DEF Bounded
<1>5. Passes
  BY <1>1, HandlerEnds DEF Passes, NoEvent
<1>6. Swept
  BY <1>1, <1>2, CacheFacts DEF Swept, Passed
<1>7. ASSUME NEW r \in Readers PROVE Safe(r)
  <2>1. rd[r] = Away /\ policy = 0
    BY <1>1
  <2> QED BY <2>1, AwayFacts DEF Safe, InFlight, Keyed, Holding
<1> QED BY <1>2, <1>4, <1>5, <1>6, <1>7 DEF CacheInv

LEMMA CacheStep ==
    ASSUME CacheInv, [Next]_vars
    PROVE  CacheInv'
<1>1. CASE UNCHANGED vars
  <2>1. /\ l2' \subseteq l2 /\ l1' \in [Instances -> SUBSET Entries]
        /\ \A i \in Instances : l1'[i] \subseteq l1[i]
    BY <1>1 DEF vars, cached, CacheInv, TypeOK
  <2> QED BY <1>1, <2>1, ExpireStep DEF vars
<1>2. ASSUME NEW r \in Readers, NEW i \in Instances, Begin(r, i) PROVE CacheInv'
  BY <1>2, BeginStep
<1>3. ASSUME NEW r \in Readers, GetByKey(r) PROVE CacheInv'
  BY <1>3, ReadGenerationStep, GetL1Step, GetL2Step, LoadStep, SetL1Step, SetL2Step,
     BarrierStep, LoadUncachedStep DEF GetByKey
<1>4. ASSUME NEW i \in Instances, NEW k \in Kinds, StartChange(i, k) PROVE CacheInv'
  BY <1>4, StartChangeStep
<1>5. CASE Handler
  BY <1>5, InvalidateAllStep, CommitStep, NameKeyStep, DeleteEntryStep DEF Handler
<1>6. ASSUME NEW i \in Instances, Worker(i) PROVE CacheInv'
  BY <1>6, ClaimStep, AdvanceGenerationStep, PublishAllStep, RetryClaimedStep,
     ScheduleSecondPassStep, DeleteClaimedStep DEF Worker
<1>7. ASSUME NEW i \in Instances, LocalExpires(i) \/ Crash(i) PROVE CacheInv'
  BY <1>7, LocalExpiresStep, CrashStep
<1>8. ASSUME NEW v \in Changes, BecomesReady(v) \/ LeaseExpires(v) PROVE CacheInv'
  BY <1>8, BecomesReadyStep, LeaseExpiresStep
<1>9. CASE RedisExpires \/ Evict
  BY <1>9, RedisExpiresStep, EvictStep
<1> QED BY <1>1, <1>2, <1>3, <1>4, <1>5, <1>6, <1>7, <1>8, <1>9 DEF Next

\* The invariant of the caches, the outbox and the requests.
THEOREM CacheInvariant == Spec => []CacheInv
<1>1. CacheInv /\ [Next]_vars => CacheInv'
  BY CacheStep
<1> QED BY CacheInit, <1>1, PTL DEF Spec

\* GetByKey lets no request in by what a firm change replaced: one with a row
\* in the outbox, from its commit on (a revoked key stays revoked, whatever
\* invalidations failed or were lost), and any other once the generation was
\* advanced after it.
THEOREM NoStaleAuthorization == Spec => []FreshAuthorization
<1>1. CacheInv => FreshAuthorization
  BY DEF CacheInv, Safe, FreshAuthorization
<1> QED BY CacheInvariant, <1>1, PTL

\* When the outbox is empty, so that applyAuthCacheEntryWithBarrier trusts the
\* caches, no admitting entry of the current generation is of before a change
\* that had a row, or that was committed when the generation was advanced.
THEOREM EmptyOutboxMeansCurrent == Spec => []VisibleIsCurrent
<1>1. ASSUME CacheInv PROVE VisibleIsCurrent
  <2> SUFFICES ASSUME ~Pending, NEW e \in Visible, live[e.ver], NEW v \in firm
               PROVE  e.ver >= v
    BY DEF VisibleIsCurrent
  <2>0. TypeOK /\ Swept
    BY <1>1 DEF CacheInv
  <2>1. e.gen = 0 /\ (e \in l2 \/ \E i \in Instances : e \in l1[i])
    BY DEF Visible
  <2>2. e.ver \in Nat /\ v \in Changes /\ v \in Nat
    BY <2>0, <2>1, CacheFacts
  <2>3. Passed(v)
    BY <2>2 DEF Passed, Pending
  <2>4. Clean(v, 0)
    BY <2>0, <2>2, <2>3 DEF Swept
  <2>5. ~Replaced(e.ver, v)
    BY <2>1, <2>4 DEF Clean
  <2> QED BY <2>2, <2>5 DEF Replaced
<1> QED BY CacheInvariant, <1>1, PTL

\* Every variable keeps its type.
THEOREM CacheTyped == Spec => []TypeOK
<1>1. CacheInv => TypeOK
  BY DEF CacheInv
<1> QED BY CacheInvariant, <1>1, PTL
=============================================================================
