------------------------- MODULE OAuthRefreshProofs -------------------------
(***************************************************************************)
(* What OAuthRefresh guarantees for every number of refreshers, retries,   *)
(* expiries, re-authorizations and faults.  The lock is not what keeps the *)
(* stored credentials right: a refresh token serves once, so one refresher *)
(* at most holds the successor of the stored token, and nobody else can    *)
(* overwrite it.  The lock is what keeps a refused refresher from marking  *)
(* an account whose successor is on its way.                               *)
(***************************************************************************)
EXTENDS OAuthRefresh, TLAPS

Held == {"reread", "call", "rotated", "refused", "denied", "failed", "stored", "missed", "release"}
Refusal(r) == r.pc \in {"refused", "mark"} \/ r.then = "mark"

\* Credentials are numbered as they are issued.
Numbered ==
    /\ row.gen <= issued
    /\ \A g \in valid : g <= issued
    /\ \A p \in Procs : at[p].snap.gen <= issued

\* A refresher that rotated used its token up, and alone holds the successor.
Single ==
    \A p \in Procs : at[p].pc = "rotated" =>
        /\ at[p].snap.gen \notin valid
        /\ at[p].new \in valid /\ at[p].new # 0
        /\ at[p].new # row.gen
        /\ \A q \in Procs : at[q].snap.gen # at[p].new
        /\ \A q \in Procs \ {p} : at[q].pc = "rotated" =>
              at[q].snap.gen # at[p].snap.gen /\ at[q].new # at[p].new

\* Credentials are stored once, so they have one version.
OneVersion ==
    \A p \in Procs : at[p].pc \in {"call", "rotated"} =>
        (at[p].snap.gen = row.gen => at[p].snap.ver = row.ver)

\* Without re-authorizations, what was read is stored still, or spent by a
\* refresher that did not keep to the lock.
ReadOrSpent ==
    reauths = 0 => \A p \in Procs :
        /\ at[p].pc = "call" /\ (overlap => at[p].snap.gen \in valid) => at[p].snap.gen = row.gen
        /\ at[p].pc = "rotated" => at[p].snap.gen = row.gen

\* Without overlaps the lock is the refresher's.
Exclusive ==
    ~overlap => \A p \in Procs : /\ at[p].pc \in Held => at[p].owns
                                 /\ at[p].owns => lock = p

\* What was refused is spent.
RefusedSpent ==
    \A p \in Procs : Refusal(at[p]) =>
        /\ at[p].snap.gen \notin valid
        /\ ~overlap => \A q \in Procs : ~(at[q].pc = "rotated" /\ at[q].snap.gen = at[p].snap.gen)
        /\ ~overlap /\ reauths = 0 => at[p].snap.gen = row.gen

\* Where RefreshIfNeeded returns to; the mark comes once the lock is released.
Returning ==
    \A p \in Procs : /\ at[p].then \in {"idle", "check", "retry", "mark", "ban", "sync"}
                     /\ at[p].then = "mark" => at[p].pc = "release"

Known == TypeOK /\ Returning

Tokens == Numbered /\ Single /\ OneVersion /\ ReadOrSpent /\ RefusedSpent /\ StoredIsLive

IInv == Known /\ Tokens /\ Exclusive

-----------------------------------------------------------------------------
(* The records of the refreshers.                                          *)

\* What a move keeps, besides its place.
Kept(r, m) == m.snap = r.snap /\ m.new = r.new /\ m.owns = r.owns /\ m.then = r.then

LEMMA StoredType == ASSUME row \in Rows PROVE Stored \in Creds /\ Stored.gen = row.gen /\ Stored.ver = row.ver
BY DEF Rows, Creds, Stored

LEMMA IdleType == Idle \in Refreshers
BY RefreshAssumption DEF Idle, Refreshers, Creds, NoCreds, PCs

LEMMA IdleFields ==
    Idle.pc = "idle" /\ Idle.snap.gen = 0 /\ Idle.owns = FALSE /\ Idle.then = "idle"
BY DEF Idle, NoCreds

LEMMA StartFields ==
    ASSUME NEW c \in Creds, NEW w \in {"lock", "check"}
    PROVE  /\ LET m == [Idle EXCEPT !.pc = "lock", !.acct = c, !.tries = 1]
              IN  m \in Refreshers /\ m.pc = "lock" /\ Kept(Idle, m)
           /\ LET m == [Idle EXCEPT !.pc = w, !.request = TRUE, !.acct = c]
              IN  m \in Refreshers /\ m.pc = w /\ Kept(Idle, m)
<1>1. w \in PCs /\ "lock" \in PCs /\ 1 \in 0..MaxTries
    BY RefreshAssumption DEF PCs
<1>2. QED
    BY <1>1, IdleType DEF Refreshers, Kept

LEMMA AccountFields ==
    ASSUME NEW r \in Refreshers, NEW c \in Creds
    PROVE  LET m == [r EXCEPT !.acct = c] IN m \in Refreshers /\ m.pc = r.pc /\ Kept(r, m)
BY DEF Refreshers, Kept

LEMMA RepairFields ==
    ASSUME NEW r \in Refreshers, NEW c \in Creds
    PROVE  LET m == [r EXCEPT !.pc = "repair", !.acct = c]
           IN  m \in Refreshers /\ m.pc = "repair" /\ Kept(r, m)
BY DEF Refreshers, Kept, PCs

LEMMA RetryFields ==
    ASSUME NEW r \in Refreshers, r.tries < MaxTries
    PROVE  LET m == [r EXCEPT !.pc = "lock", !.tries = r.tries + 1]
           IN  m \in Refreshers /\ m.pc = "lock" /\ Kept(r, m)
<1>1. "lock" \in PCs /\ r.tries + 1 \in 0..MaxTries
    BY RefreshAssumption DEF PCs, Refreshers
<1>2. QED
    BY <1>1 DEF Refreshers, Kept

LEMMA LateFields ==
    ASSUME NEW r \in Refreshers
    PROVE  LET m == [r EXCEPT !.late = TRUE] IN m \in Refreshers /\ m.pc = r.pc /\ Kept(r, m)
BY DEF Refreshers, Kept

LEMMA OnFields ==
    ASSUME NEW r \in Refreshers, NEW w \in PCs
    PROVE  /\ On(r, w) \in Refreshers
           /\ \/ w = "idle" /\ On(r, w) = Idle
              \/ w # "idle" /\ On(r, w).pc = w /\ Kept(r, On(r, w))
<1>1. [r EXCEPT !.pc = w] \in Refreshers /\ [r EXCEPT !.pc = w].pc = w /\ Kept(r, [r EXCEPT !.pc = w])
    BY DEF Refreshers, Kept
<1>2. QED
    BY <1>1, IdleType DEF On

LEMMA OwnsFields ==
    ASSUME NEW r \in Refreshers
    PROVE  LET m == [r EXCEPT !.pc = "reread", !.owns = TRUE]
           IN  m \in Refreshers /\ m.pc = "reread" /\ m.owns /\ m.snap = r.snap /\ m.new = r.new /\ m.then = r.then
BY DEF Refreshers, PCs

LEMMA RotatedFields ==
    ASSUME NEW r \in Refreshers, NEW n \in Nat
    PROVE  LET m == [r EXCEPT !.pc = "rotated", !.new = n]
           IN  m \in Refreshers /\ m.pc = "rotated" /\ m.new = n /\ m.snap = r.snap /\ m.owns = r.owns /\ m.then = r.then
BY DEF Refreshers, PCs

LEMMA ReadFields ==
    ASSUME NEW r \in Refreshers, NEW c \in Creds
    PROVE  /\ LET m == [r EXCEPT !.pc = "call", !.snap = c]
              IN  m \in Refreshers /\ m.pc = "call" /\ m.snap = c /\ m.owns = r.owns /\ m.then = r.then
           /\ LET m == [r EXCEPT !.pc = "fill", !.snap = c]
              IN  m \in Refreshers /\ m.pc = "fill" /\ m.snap = c /\ m.owns = r.owns /\ m.then = r.then
BY DEF Refreshers, PCs

LEMMA ReleasedFields ==
    ASSUME NEW r \in Refreshers
    PROVE  LET m == [r EXCEPT !.owns = FALSE, !.then = "idle"]
           IN  m \in Refreshers /\ m.pc = r.pc /\ m.snap = r.snap /\ m.owns = FALSE /\ m.then = "idle"
BY DEF Refreshers, PCs

LEMMA ReturnsFields ==
    ASSUME NEW r \in Refreshers, NEW w \in PCs
    PROVE  /\ Returns(r, w) \in Refreshers
           /\ Returns(r, w).pc = "release" /\ Returns(r, w).then = w
           /\ Returns(r, w).snap = r.snap /\ Returns(r, w).owns = r.owns
BY DEF Refreshers, Returns, PCs

LEMMA RefreshedFields ==
    ASSUME NEW r \in Refreshers, row \in Rows
    PROVE  /\ Refreshed(r) \in Refreshers
           /\ Refreshed(r).pc = "release" /\ Refreshed(r).then \in {"check", "idle"}
           /\ Refreshed(r).snap = r.snap /\ Refreshed(r).owns = r.owns
<1>1. Stored \in Creds
    BY StoredType
<1>2. [r EXCEPT !.acct = Stored] \in Refreshers /\ Kept(r, [r EXCEPT !.acct = Stored])
    BY <1>1, AccountFields
<1>3. (IF r.request /\ (grok => row.status = "active") THEN "check" ELSE "idle") \in PCs
    BY DEF PCs
<1>4. QED
    BY <1>2, <1>3, ReturnsFields DEF Refreshed, Kept

-----------------------------------------------------------------------------
(* The shapes of the refreshers' steps.                                    *)

\* Refresher p moves, and the others stay.
Moves(p) ==
    /\ at' \in [Procs -> Refreshers]
    /\ \A q \in Procs \ {p} : at'[q] = at[q]

\* How a move of p goes with the lock.
Locks(p) ==
    \/ overlap'
    \/ /\ overlap' = overlap
       /\ \/ /\ lock' = lock
             /\ at'[p].owns => at[p].owns
             /\ at'[p].pc \in Held => at[p].pc \in Held /\ at'[p].owns = at[p].owns
          \/ lock = NoProc /\ lock' = p /\ at'[p].owns
          \/ lock' = NoProc /\ lock \in {p, NoProc} /\ ~at'[p].owns /\ at'[p].pc \notin Held

\* p reads, gives up or passes a refusal on; no token is issued or stored.
Still(p) ==
    /\ valid' = valid /\ issued' = issued
    /\ row'.gen = row.gen /\ row'.ver = row.ver
    /\ at'[p].snap.gen \in {at[p].snap.gen, row.gen, 0}
    /\ at'[p].pc = "rotated" =>
         at[p].pc = "rotated" /\ at'[p].snap = at[p].snap /\ at'[p].new = at[p].new
    /\ at'[p].pc = "call" =>
         (at[p].pc = "call" /\ at'[p].snap = at[p].snap) \/ at'[p].snap = Stored
    /\ Refusal(at'[p]) =>
         /\ at'[p].snap = at[p].snap
         /\ Refusal(at[p]) \/ (at[p].pc = "call" /\ at[p].snap.gen \notin valid)
    /\ lost => lost'
    /\ at[p].pc = "rotated" /\ at'[p].pc # "rotated" => lost' \/ at[p].snap # Stored

\* p uses its token up, and holds the successor unless it is lost.
Rotates(p) ==
    /\ at[p].pc = "call" /\ at[p].snap.gen \in valid
    /\ issued' = issued + 1
    /\ valid' = (valid \ {at[p].snap.gen}) \cup {issued + 1}
    /\ row' = row
    /\ at'[p].snap = at[p].snap
    /\ at'[p].pc # "call" /\ ~Refusal(at'[p])
    /\ lost => lost'
    /\ \/ at'[p].pc = "rotated" /\ at'[p].new = issued + 1
       \/ at'[p].pc # "rotated" /\ lost'

\* p stores the successor it holds.
Stores(p) ==
    /\ at[p].pc = "rotated" /\ (grok => at[p].snap = Stored)
    /\ row'.gen = at[p].new /\ row'.ver = clock + 1
    /\ valid' = valid /\ issued' = issued
    /\ at'[p].snap = at[p].snap
    /\ at'[p].pc \notin {"call", "rotated"} /\ ~Refusal(at'[p])
    /\ lost => lost'

\* What a refresher's step is, as far as the tokens and the lock go.
Step(p) ==
    /\ Moves(p) /\ Locks(p)
    /\ Still(p) \/ Rotates(p) \/ Stores(p)
    /\ reauths' = reauths /\ (overlap => overlap')

LEMMA KnownTypes ==
    ASSUME Known, NEW p \in Procs
    PROVE  /\ at \in [Procs -> Refreshers] /\ at[p] \in Refreshers
           /\ row \in Rows /\ Stored \in Creds /\ Stored.gen = row.gen /\ Stored.ver = row.ver
           /\ at[p].then \in {"idle", "check", "retry", "mark", "ban", "sync"}
           /\ at[p].pc # "release" => at[p].then # "mark"
BY StoredType DEF Known, TypeOK, Returning

LEMMA Moved ==
    ASSUME Known, NEW p \in Procs, NEW m \in Refreshers, at' = [at EXCEPT ![p] = m]
    PROVE  Moves(p) /\ at'[p] = m
BY DEF Known, TypeOK, Moves

LEMMA ReturningKept ==
    ASSUME Known, NEW p \in Procs, Moves(p),
           at'[p].then \in {"idle", "check", "retry", "mark", "ban", "sync"},
           at'[p].then = "mark" => at'[p].pc = "release"
    PROVE  Returning'
BY DEF Known, Moves, Returning

\* A successor that p drops is recorded as lost, or is not that of the row.
Loses(p) == (lost => lost') /\ (at[p].pc = "rotated" => lost' \/ at[p].snap # Stored)

\* The place of a refresher that neither calls nor holds a successor or refusal.
Quiet(m) == m.pc \notin {"call", "rotated", "refused", "mark"} /\ m.then # "mark"

LEMMA QuietStill ==
    ASSUME Known, NEW p \in Procs, Moves(p), Quiet(at'[p]),
           at'[p].snap.gen \in {at[p].snap.gen, row.gen, 0},
           valid' = valid, issued' = issued, row'.gen = row.gen, row'.ver = row.ver,
           Loses(p)
    PROVE  Still(p)
BY DEF Quiet, Still, Refusal, Loses

-----------------------------------------------------------------------------
(* Every step of a refresher has one of the shapes.                        *)

Goes(p) == Step(p) /\ Returning'

\* A step that leaves the row's credentials, the provider and the lock alone.
LEMMA QuietGoes ==
    ASSUME Known, NEW p \in Procs, Moves(p), Quiet(at'[p]),
           at'[p].then \in {"idle", "check", "retry", "ban", "sync"},
           at'[p].snap.gen \in {at[p].snap.gen, row.gen, 0},
           at'[p].owns => at[p].owns,
           at'[p].pc \in Held => at[p].pc \in Held /\ at'[p].owns = at[p].owns,
           valid' = valid, issued' = issued, row'.gen = row.gen, row'.ver = row.ver,
           Loses(p),
           lock' = lock, overlap' = overlap, reauths' = reauths
    PROVE  Goes(p)
<1>1. Still(p)
    BY QuietStill
<1>2. Locks(p)
    BY DEF Locks
<1>3. Returning'
    BY ReturningKept
<1>4. QED
    BY <1>1, <1>2, <1>3 DEF Goes, Step

LEMMA IdleGoes ==
    ASSUME Known, NEW p \in Procs, at' = [at EXCEPT ![p] = Idle],
           valid' = valid, issued' = issued, row'.gen = row.gen, row'.ver = row.ver,
           Loses(p),
           lock' = lock, overlap' = overlap, reauths' = reauths
    PROVE  Goes(p)
<1>1. Moves(p) /\ at'[p] = Idle
    BY IdleType, Moved
<1>2. QED
    BY <1>1, IdleFields, QuietGoes DEF Quiet, Held

LEMMA OnGoes ==
    ASSUME Known, NEW p \in Procs, at[p].pc # "release",
           NEW w \in {"idle", "wait", "check", "sync", "fill", "failed", "denied", "stored", "missed"},
           w \in Held => at[p].pc \in Held,
           at' = [at EXCEPT ![p] = On(at[p], w)],
           valid' = valid, issued' = issued, row'.gen = row.gen, row'.ver = row.ver,
           Loses(p),
           lock' = lock, overlap' = overlap, reauths' = reauths
    PROVE  Goes(p)
<1> DEFINE m == On(at[p], w)
<1>1. m \in Refreshers /\ (m = Idle \/ (m.pc = w /\ Kept(at[p], m)))
    BY KnownTypes, OnFields DEF PCs
<1>2. Moves(p) /\ at'[p] = m
    BY <1>1, Moved
<1>3. CASE m = Idle
    BY <1>3, IdleGoes
<1>4. CASE m.pc = w /\ Kept(at[p], m)
    <2>1. at'[p].then \in {"idle", "check", "retry", "ban", "sync"}
        BY <1>2, <1>4, KnownTypes DEF Kept
    <2>2. QED
        BY <1>2, <1>4, <2>1, QuietGoes DEF Quiet, Kept
<1>5. QED
    BY <1>1, <1>3, <1>4

LEMMA ReturnsGoes ==
    ASSUME Known, NEW p \in Procs, at[p].pc \in Held,
           NEW w \in {"idle", "check", "retry", "ban", "sync"},
           at' = [at EXCEPT ![p] = Returns(at[p], w)],
           valid' = valid, issued' = issued, row'.gen = row.gen, row'.ver = row.ver,
           Loses(p),
           lock' = lock, overlap' = overlap, reauths' = reauths
    PROVE  Goes(p)
<1> DEFINE m == Returns(at[p], w)
<1>1. m \in Refreshers /\ m.pc = "release" /\ m.then = w /\ m.snap = at[p].snap /\ m.owns = at[p].owns
    BY KnownTypes, ReturnsFields DEF PCs
<1>2. Moves(p) /\ at'[p] = m
    BY <1>1, Moved
<1>3. QED
    BY <1>1, <1>2, QuietGoes DEF Quiet

LEMMA RefreshedGoes ==
    ASSUME Known, NEW p \in Procs, at[p].pc \in Held,
           at' = [at EXCEPT ![p] = Refreshed(at[p])],
           valid' = valid, issued' = issued, row'.gen = row.gen, row'.ver = row.ver,
           Loses(p),
           lock' = lock, overlap' = overlap, reauths' = reauths
    PROVE  Goes(p)
<1> DEFINE m == Refreshed(at[p])
<1>1. /\ m \in Refreshers /\ m.pc = "release" /\ m.then \in {"check", "idle"}
      /\ m.snap = at[p].snap /\ m.owns = at[p].owns
    BY KnownTypes, RefreshedFields
<1>2. Moves(p) /\ at'[p] = m
    BY <1>1, Moved
<1>3. QED
    BY <1>1, <1>2, QuietGoes DEF Quiet

LEMMA StartGoes ==
    ASSUME Known, NEW p \in Procs, StartBackground(p) \/ StartRequest(p)
    PROVE  Goes(p)
<1> USE DEF store, counts, ghosts
<1> DEFINE m == [Idle EXCEPT !.pc = "lock", !.acct = Stored, !.tries = 1]
           w == IF row.due THEN "lock" ELSE "check"
           n == [Idle EXCEPT !.pc = w, !.request = TRUE, !.acct = Stored]
<1>1. /\ valid' = valid /\ issued' = issued /\ row' = row /\ lost' = lost
      /\ lock' = lock /\ overlap' = overlap /\ reauths' = reauths /\ at[p].pc = "idle"
    BY DEF StartBackground, StartRequest
<1>2. at' = [at EXCEPT ![p] = m] \/ at' = [at EXCEPT ![p] = n]
    BY DEF StartBackground, StartRequest
<1>3. Stored \in Creds /\ w \in {"lock", "check"}
    BY KnownTypes
<1>4. m \in Refreshers /\ m.pc = "lock" /\ Kept(Idle, m)
    BY <1>3, StartFields
<1>5. n \in Refreshers /\ n.pc = w /\ Kept(Idle, n)
    BY <1>3, StartFields
<1>6. Moves(p) /\ at'[p].pc \in {"lock", "check"} /\ Kept(Idle, at'[p])
    <2> HIDE DEF m, n, w
    <2>1. CASE at' = [at EXCEPT ![p] = m]
        BY <1>4, <2>1, Moved
    <2>2. CASE at' = [at EXCEPT ![p] = n]
        BY <1>3, <1>5, <2>2, Moved
    <2>3. QED
        BY <1>2, <2>1, <2>2
<1>7. QED
    BY <1>1, <1>6, IdleFields, QuietGoes DEF Quiet, Kept, Held, Loses

\* The credentials, the provider and the lock are left alone.
Rests == /\ valid' = valid /\ issued' = issued /\ row'.gen = row.gen /\ row'.ver = row.ver
         /\ lock' = lock /\ overlap' = overlap /\ reauths' = reauths

LEMMA LockHeldGoes ==
    ASSUME Known, NEW p \in Procs, LockHeld(p)
    PROVE  Goes(p)
<1> USE DEF store, counts, ghosts
<1> DEFINE m == [at[p] EXCEPT !.pc = "repair", !.acct = Stored]
           w == IF cache = None THEN "check" ELSE "idle"
<1>1. Rests /\ lost' = lost /\ at[p].pc = "wait"
    BY DEF LockHeld, Rests
<1>2. \/ at' = [at EXCEPT ![p] = On(at[p], w)]
      \/ at' = [at EXCEPT ![p] = m]
      \/ at' = [at EXCEPT ![p] = Idle]
    BY DEF LockHeld
<1>3. CASE at' = [at EXCEPT ![p] = On(at[p], w)]
    BY <1>1, <1>3, OnGoes DEF Rests, Loses, Held
<1>4. CASE at' = [at EXCEPT ![p] = m]
    <2>1. m \in Refreshers /\ m.pc = "repair" /\ Kept(at[p], m)
        BY KnownTypes, RepairFields
    <2>2. Moves(p) /\ at'[p] = m
        BY <1>4, <2>1, Moved
    <2>3. at'[p].then \in {"idle", "check", "retry", "ban", "sync"}
        BY <1>1, <2>1, <2>2, KnownTypes DEF Kept
    <2> HIDE DEF m
    <2>4. QED
        BY <1>1, <2>1, <2>2, <2>3, QuietGoes DEF Loses, Quiet, Kept, Rests, Held
<1>5. CASE at' = [at EXCEPT ![p] = Idle]
    BY <1>1, <1>5, IdleGoes DEF Rests, Loses
<1>6. QED
    BY <1>2, <1>3, <1>4, <1>5

LEMMA RereadGoes ==
    ASSUME Known, NEW p \in Procs, Reread(p)
    PROVE  Goes(p)
<1> USE DEF store, counts, ghosts
<1> DEFINE m == [at[p] EXCEPT !.pc = "call", !.snap = Stored]
<1>1. Rests /\ row' = row /\ lost' = lost /\ at[p].pc = "reread"
    BY DEF Reread, Rests, Fault
<1>2. \/ at' = [at EXCEPT ![p] = Refreshed(at[p])]
      \/ at' = [at EXCEPT ![p] = m]
      \/ at' = [at EXCEPT ![p] = Returns(at[p], OnError(at[p]))]
    BY DEF Reread
<1>3. CASE at' = [at EXCEPT ![p] = Refreshed(at[p])]
    BY <1>1, <1>3, RefreshedGoes DEF Rests, Loses, Held
<1>4. CASE at' = [at EXCEPT ![p] = m]
    <2>1. at[p] \in Refreshers /\ Stored \in Creds /\ "call" \in PCs
        BY KnownTypes DEF PCs
    <2>2. m \in Refreshers /\ m.pc = "call" /\ m.snap = Stored /\ m.owns = at[p].owns /\ m.then = at[p].then
        BY <2>1, ReadFields
    <2>3. Moves(p) /\ at'[p] = m
        BY <1>4, <2>2, Moved
    <2>4. at'[p].then \in {"idle", "check", "retry", "ban", "sync"}
        BY <1>1, <2>2, <2>3, KnownTypes
    <2> HIDE DEF m
    <2>5. Still(p)
        BY <1>1, <2>2, <2>3, <2>4, KnownTypes DEF Still, Rests, Refusal
    <2>6. Locks(p)
        BY <1>1, <2>2, <2>3 DEF Locks, Rests, Held
    <2>7. Returning'
        BY <2>3, <2>4, ReturningKept
    <2>8. QED
        BY <1>1, <2>3, <2>5, <2>6, <2>7 DEF Goes, Step, Rests
<1>5. CASE at' = [at EXCEPT ![p] = Returns(at[p], OnError(at[p]))]
    <2>1. OnError(at[p]) \in {"check", "idle"}
        BY DEF OnError
    <2>2. QED
        BY <1>1, <1>5, <2>1, ReturnsGoes DEF Rests, Loses, Held
<1>6. QED
    BY <1>2, <1>3, <1>4, <1>5

LEMMA RefreshFailedGoes ==
    ASSUME Known, NEW p \in Procs, RefreshFailed(p)
    PROVE  Goes(p)
<1> USE DEF store, counts, ghosts
<1> DEFINE w == IF at[p].request THEN OnError(at[p]) ELSE "retry"
<1>1. Rests /\ at[p].pc \in Held /\ (lost \/ at[p].pc = "rotated" => lost')
    BY DEF RefreshFailed, Rests, Held
<1>2. at' = [at EXCEPT ![p] = Returns(at[p], w)]
    BY DEF RefreshFailed
<1>3. w \in {"check", "idle", "retry"}
    BY DEF OnError
<1>4. QED
    BY <1>1, <1>2, <1>3, ReturnsGoes DEF Rests, Loses

LEMMA RecoverRaceGoes ==
    ASSUME Known, NEW p \in Procs, RecoverRace(p)
    PROVE  Goes(p)
<1> USE DEF store, counts, ghosts
<1> DEFINE w == IF at[p].request /\ ~grok THEN "check" ELSE "mark"
<1>1. Rests /\ row' = row /\ lost' = lost /\ at[p].pc = "refused"
    BY DEF RecoverRace, Rests, Fault
<1>2. \/ at' = [at EXCEPT ![p] = Refreshed(at[p])]
      \/ at' = [at EXCEPT ![p] = Returns(at[p], w)]
    BY DEF RecoverRace
<1>3. CASE at' = [at EXCEPT ![p] = Refreshed(at[p])]
    BY <1>1, <1>3, RefreshedGoes DEF Rests, Loses, Held
<1>4. CASE at' = [at EXCEPT ![p] = Returns(at[p], w)]
    <2> DEFINE m == Returns(at[p], w)
    <2>1. m \in Refreshers /\ m.pc = "release" /\ m.then = w /\ m.snap = at[p].snap /\ m.owns = at[p].owns
        BY KnownTypes, ReturnsFields DEF PCs
    <2>2. Moves(p) /\ at'[p] = m
        BY <1>4, <2>1, Moved
    <2> HIDE DEF m
    <2>3. Still(p)
        BY <1>1, <2>1, <2>2 DEF Still, Rests, Refusal
    <2>4. Locks(p)
        BY <1>1, <2>1, <2>2 DEF Locks, Rests, Held
    <2>5. Returning'
        BY <2>1, <2>2, ReturningKept
    <2>6. QED
        BY <1>1, <2>2, <2>3, <2>4, <2>5 DEF Goes, Step, Rests
<1>5. QED
    BY <1>2, <1>3, <1>4

LEMMA TurnedDownGoes ==
    ASSUME Known, NEW p \in Procs, TurnedDown(p)
    PROVE  Goes(p)
<1> USE DEF store, counts, ghosts
<1>1. Rests /\ row' = row /\ lost' = lost /\ at[p].pc = "denied"
    BY DEF TurnedDown, Rests
<1>2. PICK w \in {"check", "ban", "idle"} : at' = [at EXCEPT ![p] = Returns(at[p], w)]
    BY DEF TurnedDown
<1>3. QED
    BY <1>1, <1>2, ReturnsGoes DEF Rests, Loses, Held

LEMMA ReadBackGoes ==
    ASSUME Known, NEW p \in Procs, ReadBack(p)
    PROVE  Goes(p)
<1> USE DEF store, counts, ghosts
<1>1. Rests /\ lost' = lost /\ at[p].pc \in {"stored", "missed"}
    BY DEF ReadBack, Rests, Fault
<1>2. \/ at' = [at EXCEPT ![p] = Refreshed(at[p])]
      \/ at' = [at EXCEPT ![p] = Returns(at[p], "sync")]
      \/ at' = [at EXCEPT ![p] = Returns(at[p], "idle")]
    BY DEF ReadBack
<1>3. CASE at' = [at EXCEPT ![p] = Refreshed(at[p])]
    BY <1>1, <1>3, RefreshedGoes DEF Rests, Loses, Held
<1>4. CASE at' = [at EXCEPT ![p] = Returns(at[p], "sync")]
    BY <1>1, <1>4, ReturnsGoes DEF Rests, Loses, Held
<1>5. CASE at' = [at EXCEPT ![p] = Returns(at[p], "idle")]
    BY <1>1, <1>5, ReturnsGoes DEF Rests, Loses, Held
<1>6. QED
    BY <1>2, <1>3, <1>4, <1>5

LEMMA RetryGoes ==
    ASSUME Known, NEW p \in Procs, Retry(p)
    PROVE  Goes(p)
<1> USE DEF store, counts, ghosts
<1> DEFINE m == [at[p] EXCEPT !.pc = "lock", !.tries = at[p].tries + 1]
<1>1. Rests /\ lost' = lost /\ at[p].pc = "retry"
    BY DEF Retry, Rests
<1>2. \/ at' = [at EXCEPT ![p] = Idle]
      \/ at[p].tries < MaxTries /\ at' = [at EXCEPT ![p] = m]
    BY DEF Retry
<1>3. CASE at' = [at EXCEPT ![p] = Idle]
    BY <1>1, <1>3, IdleGoes DEF Rests, Loses
<1>4. CASE at[p].tries < MaxTries /\ at' = [at EXCEPT ![p] = m]
    <2>1. m \in Refreshers /\ m.pc = "lock" /\ Kept(at[p], m)
        BY <1>4, KnownTypes, RetryFields
    <2>2. Moves(p) /\ at'[p] = m
        BY <1>4, <2>1, Moved
    <2>3. at'[p].then \in {"idle", "check", "retry", "ban", "sync"}
        BY <1>1, <2>1, <2>2, KnownTypes DEF Kept
    <2> HIDE DEF m
    <2>4. QED
        BY <1>1, <2>1, <2>2, <2>3, QuietGoes DEF Loses, Quiet, Kept, Rests, Held
<1>5. QED
    BY <1>2, <1>3, <1>4

LEMMA MarkErrorGoes ==
    ASSUME Known, NEW p \in Procs, MarkError(p)
    PROVE  Goes(p)
<1> USE DEF store, counts, ghosts
<1>1. Rests /\ lost' = lost /\ at[p].pc \in {"mark", "ban"}
    BY KnownTypes DEF MarkError, Rests, Fault, Rows
<1>2. \/ at' = [at EXCEPT ![p] = On(at[p], "idle")]
      \/ at' = [at EXCEPT ![p] = On(at[p], "sync")]
    BY DEF MarkError
<1>3. QED
    BY <1>1, <1>2, OnGoes DEF Rests, Loses, Held

LEMMA CheckVersionGoes ==
    ASSUME Known, NEW p \in Procs, CheckVersion(p)
    PROVE  Goes(p)
<1> USE DEF store, counts, ghosts
<1> DEFINE m == [at[p] EXCEPT !.pc = "fill", !.snap = Stored]
<1>1. Rests /\ lost' = lost /\ at[p].pc = "check"
    BY DEF CheckVersion, Rests, Fault
<1>2. \/ at' = [at EXCEPT ![p] = Idle]
      \/ at' = [at EXCEPT ![p] = m]
      \/ at' = [at EXCEPT ![p] = On(at[p], "fill")]
    BY DEF CheckVersion
<1>3. CASE at' = [at EXCEPT ![p] = Idle]
    BY <1>1, <1>3, IdleGoes DEF Rests, Loses
<1>4. CASE at' = [at EXCEPT ![p] = m]
    <2>1. at[p] \in Refreshers /\ Stored \in Creds /\ "fill" \in PCs
        BY KnownTypes DEF PCs
    <2>2. m \in Refreshers /\ m.pc = "fill" /\ m.snap = Stored /\ m.owns = at[p].owns /\ m.then = at[p].then
        BY <2>1, ReadFields
    <2>3. Moves(p) /\ at'[p] = m
        BY <1>4, <2>2, Moved
    <2>4. at'[p].then \in {"idle", "check", "retry", "ban", "sync"}
        BY <1>1, <2>2, <2>3, KnownTypes
    <2> HIDE DEF m
    <2>5. QED
        BY <1>1, <2>2, <2>3, <2>4, KnownTypes, QuietGoes DEF Loses, Quiet, Rests, Held
<1>5. CASE at' = [at EXCEPT ![p] = On(at[p], "fill")]
    BY <1>1, <1>5, OnGoes DEF Rests, Loses, Held
<1>6. QED
    BY <1>2, <1>3, <1>4, <1>5

LEMMA EndGoes ==
    ASSUME Known, NEW p \in Procs, Invalidate(p) \/ FillCache(p) \/ Dies(p)
    PROVE  Goes(p)
<1> USE DEF store, counts, ghosts
<1>1. Rests /\ (lost \/ at[p].pc = "rotated" => lost')
    <2>1. CASE Invalidate(p)
        BY <2>1 DEF Invalidate, Rests, Fault
    <2>2. CASE FillCache(p)
        BY <2>2 DEF FillCache, Rests
    <2>3. CASE Dies(p)
        BY <2>3 DEF Dies, Rests, Fault
    <2>4. QED
        BY <2>1, <2>2, <2>3
<1>2. at' = [at EXCEPT ![p] = Idle]
    BY DEF Invalidate, FillCache, Dies
<1>3. QED
    BY <1>1, <1>2, IdleGoes DEF Rests, Loses

LEMMA ContextGoes ==
    ASSUME Known, NEW p \in Procs, ContextEnds(p)
    PROVE  Goes(p)
<1> USE DEF store, counts, ghosts
<1> DEFINE m == [at[p] EXCEPT !.late = TRUE]
<1>1. Rests /\ row' = row /\ lost' = lost
    BY DEF ContextEnds, Rests, Fault
<1>2. at' = [at EXCEPT ![p] = m]
    BY KnownTypes DEF ContextEnds
<1>3. m \in Refreshers /\ m.pc = at[p].pc /\ Kept(at[p], m)
    BY KnownTypes, LateFields
<1>4. Moves(p) /\ at'[p] = m
    BY <1>2, <1>3, Moved
<1> HIDE DEF m
<1>5. Still(p)
    BY <1>1, <1>3, <1>4 DEF Still, Rests, Refusal, Kept
<1>6. Locks(p)
    BY <1>1, <1>3, <1>4 DEF Locks, Rests, Kept
<1>7. Returning'
    BY <1>3, <1>4, KnownTypes, ReturningKept DEF Kept
<1>8. QED
    BY <1>1, <1>4, <1>5, <1>6, <1>7 DEF Goes, Step, Rests

LEMMA ProviderGoes ==
    ASSUME Known, NEW p \in Procs, ProviderRefresh(p)
    PROVE  Goes(p)
<1> USE DEF store, counts, ghosts
<1> DEFINE m == [at[p] EXCEPT !.pc = "rotated", !.new = issued + 1]
<1>1. /\ at[p].pc = "call" /\ row' = row /\ lock' = lock /\ overlap' = overlap /\ reauths' = reauths
      /\ at[p] \in Refreshers /\ at[p].then \in {"idle", "check", "retry", "ban", "sync"}
    BY KnownTypes DEF ProviderRefresh, Fault
<1>2. \/ /\ at[p].snap.gen \notin valid
         /\ at' = [at EXCEPT ![p] = On(at[p], "refused")]
         /\ valid' = valid /\ issued' = issued /\ lost' = lost
      \/ /\ at[p].snap.gen \in valid
         /\ issued' = issued + 1 /\ valid' = (valid \ {at[p].snap.gen}) \cup {issued + 1}
         /\ \/ at' = [at EXCEPT ![p] = m] /\ lost' = lost
            \/ at' = [at EXCEPT ![p] = On(at[p], "failed")] /\ lost' = TRUE
      \/ /\ \/ at' = [at EXCEPT ![p] = On(at[p], "failed")]
            \/ at' = [at EXCEPT ![p] = On(at[p], "denied")]
         /\ valid' = valid /\ issued' = issued /\ lost' = lost
    BY DEF ProviderRefresh
<1>3. ASSUME NEW w \in {"refused", "denied", "failed", "rotated"}, NEW k \in Refreshers,
             at' = [at EXCEPT ![p] = k], k.pc = w,
             k.snap = at[p].snap, k.owns = at[p].owns, k.then = at[p].then
      PROVE  Moves(p) /\ at'[p] = k /\ Locks(p) /\ Returning'
    <2>1. Moves(p) /\ at'[p] = k
        BY <1>3, Moved
    <2>2. QED
        BY <1>1, <1>3, <2>1, ReturningKept DEF Locks, Held
<1>4. ASSUME NEW w \in {"refused", "denied", "failed"}
      PROVE  LET k == On(at[p], w)
             IN  k \in Refreshers /\ k.pc = w /\ k.snap = at[p].snap /\ k.owns = at[p].owns /\ k.then = at[p].then
    <2>1. w \in PCs /\ w # "idle"
        BY DEF PCs
    <2>2. QED
        BY <1>1, <2>1, OnFields DEF Kept
<1>5. CASE /\ at[p].snap.gen \notin valid
           /\ at' = [at EXCEPT ![p] = On(at[p], "refused")]
           /\ valid' = valid /\ issued' = issued /\ lost' = lost
    <2> DEFINE k == On(at[p], "refused")
    <2>1. k \in Refreshers /\ k.pc = "refused" /\ k.snap = at[p].snap /\ k.owns = at[p].owns /\ k.then = at[p].then
        BY <1>4
    <2>2. at' = [at EXCEPT ![p] = k]
        BY <1>5
    <2> HIDE DEF k
    <2>3. Moves(p) /\ at'[p] = k /\ Locks(p) /\ Returning'
        BY <1>3, <2>1, <2>2
    <2>4. Still(p)
        BY <1>1, <1>5, <2>1, <2>3 DEF Still, Refusal
    <2>5. QED
        BY <1>1, <2>3, <2>4 DEF Goes, Step
<1>6. CASE /\ at[p].snap.gen \in valid
           /\ issued' = issued + 1 /\ valid' = (valid \ {at[p].snap.gen}) \cup {issued + 1}
           /\ at' = [at EXCEPT ![p] = m] /\ lost' = lost
    <2>1. issued + 1 \in Nat
        BY DEF Known, TypeOK
    <2>2. /\ m \in Refreshers /\ m.pc = "rotated" /\ m.new = issued + 1
          /\ m.snap = at[p].snap /\ m.owns = at[p].owns /\ m.then = at[p].then
        BY <1>1, <2>1, RotatedFields
    <2> HIDE DEF m
    <2>3. Moves(p) /\ at'[p] = m /\ Locks(p) /\ Returning'
        BY <1>3, <1>6, <2>2
    <2>4. Rotates(p)
        BY <1>1, <1>6, <2>2, <2>3 DEF Rotates, Refusal
    <2>5. QED
        BY <1>1, <2>3, <2>4 DEF Goes, Step
<1>7. CASE /\ at' = [at EXCEPT ![p] = On(at[p], "denied")]
           /\ valid' = valid /\ issued' = issued /\ lost' = lost
    <2> DEFINE k == On(at[p], "denied")
    <2>1. k \in Refreshers /\ k.pc = "denied" /\ k.snap = at[p].snap /\ k.owns = at[p].owns /\ k.then = at[p].then
        BY <1>4
    <2>2. at' = [at EXCEPT ![p] = k]
        BY <1>7
    <2> HIDE DEF k
    <2>3. Moves(p) /\ at'[p] = k /\ Locks(p) /\ Returning'
        BY <1>3, <2>1, <2>2
    <2>4. QED
        BY <1>1, <1>7, <2>1, <2>3 DEF Still, Refusal, Goes, Step
<1>8. CASE at' = [at EXCEPT ![p] = On(at[p], "failed")]
    <2> DEFINE k == On(at[p], "failed")
    <2>1. k \in Refreshers /\ k.pc = "failed" /\ k.snap = at[p].snap /\ k.owns = at[p].owns /\ k.then = at[p].then
        BY <1>4
    <2>2. at' = [at EXCEPT ![p] = k]
        BY <1>8
    <2> HIDE DEF k
    <2>3. Moves(p) /\ at'[p] = k /\ Locks(p) /\ Returning'
        BY <1>3, <2>1, <2>2
    <2>4. CASE valid' = valid /\ issued' = issued /\ lost' = lost
        BY <1>1, <2>1, <2>3, <2>4 DEF Still, Refusal, Goes, Step
    <2>5. CASE /\ at[p].snap.gen \in valid /\ lost' = TRUE
               /\ issued' = issued + 1 /\ valid' = (valid \ {at[p].snap.gen}) \cup {issued + 1}
        BY <1>1, <2>1, <2>3, <2>5 DEF Rotates, Refusal, Goes, Step
    <2>6. QED
        BY <1>1, <1>2, <1>5, <1>6, <1>7, <2>4, <2>5
<1>9. QED
    BY <1>2, <1>5, <1>6, <1>7, <1>8

LEMMA PersistGoes ==
    ASSUME Known, NEW p \in Procs, Persist(p)
    PROVE  Goes(p)
<1> USE DEF store, counts, ghosts
<1> DEFINE Applied(o) == o # "err" /\ (grok => at[p].snap = Stored)
           c == [gen |-> at[p].new, ver |-> clock + 1]
           w == IF at[p].request \/ grok THEN OnError(at[p]) ELSE "retry"
           v == IF at[p].request THEN "check" ELSE "sync"
           k == Returns([at[p] EXCEPT !.acct = c], v)
<1>1. /\ at[p].pc = "rotated" /\ valid' = valid /\ issued' = issued /\ lock' = lock /\ overlap' = overlap
      /\ at[p] \in Refreshers /\ at[p].then \in {"idle", "check", "retry", "ban", "sync"} /\ row \in Rows
    BY KnownTypes DEF Persist
<1>2. PICK o \in {"ok", "err", "lost"} :
         /\ IF o = "ok" THEN UNCHANGED counts ELSE Fault
         /\ row' = IF Applied(o) THEN [row EXCEPT !.gen = c.gen, !.ver = c.ver, !.due = FALSE] ELSE row
         /\ lost' = (lost \/ o = "err")
         /\ at' = [at EXCEPT ![p] = IF o # "ok" THEN Returns(at[p], w)
                     ELSE IF grok THEN On(at[p], IF Applied(o) THEN "stored" ELSE "missed")
                     ELSE k]
    BY DEF Persist
<1>3. reauths' = reauths
    BY <1>2 DEF Fault
<1>4. w \in {"idle", "check", "retry"} /\ v \in {"check", "sync"} /\ v \in PCs
    BY DEF OnError, PCs
<1>5. \/ o # "ok" /\ at' = [at EXCEPT ![p] = Returns(at[p], w)]
      \/ o = "ok" /\ grok /\ Applied(o) /\ at' = [at EXCEPT ![p] = On(at[p], "stored")]
      \/ o = "ok" /\ grok /\ ~Applied(o) /\ at' = [at EXCEPT ![p] = On(at[p], "missed")]
      \/ o = "ok" /\ ~grok /\ at' = [at EXCEPT ![p] = k]
    BY <1>2
<1>6. CASE ~Applied(o)
    <2>1. row' = row
        BY <1>2, <1>6
    <2>2. Loses(p)
        BY <1>2, <1>6 DEF Loses
    <2>3. CASE at' = [at EXCEPT ![p] = Returns(at[p], w)]
        BY <1>1, <1>3, <1>4, <2>1, <2>2, <2>3, ReturnsGoes DEF Held
    <2>4. CASE at' = [at EXCEPT ![p] = On(at[p], "missed")]
        BY <1>1, <1>3, <2>1, <2>2, <2>4, OnGoes DEF Held
    <2>5. QED
        BY <1>5, <1>6, <2>3, <2>4
<1>7. CASE Applied(o)
    <2>1. row' = [row EXCEPT !.gen = c.gen, !.ver = c.ver, !.due = FALSE]
        BY <1>2, <1>7
    <2>2. row'.gen = at[p].new /\ row'.ver = clock + 1
        BY <1>1, <2>1 DEF Rows
    <2>3. (lost => lost') /\ (grok => at[p].snap = Stored)
        BY <1>2, <1>7
    <2>4. ASSUME NEW m \in Refreshers, at' = [at EXCEPT ![p] = m], m.snap = at[p].snap, m.owns = at[p].owns,
                 m.pc \in {"release", "stored"}, m.then \in {"idle", "check", "retry", "ban", "sync"}
          PROVE  Goes(p)
        <3>1. Moves(p) /\ at'[p] = m
            BY <2>4, Moved
        <3>2. Stores(p)
            BY <1>1, <2>2, <2>3, <2>4, <3>1 DEF Stores, Refusal
        <3>3. Locks(p)
            BY <1>1, <2>4, <3>1 DEF Locks, Held
        <3>4. Returning'
            BY <2>4, <3>1, ReturningKept
        <3>5. QED
            BY <1>1, <1>3, <3>1, <3>2, <3>3, <3>4 DEF Goes, Step
    <2>5. CASE at' = [at EXCEPT ![p] = Returns(at[p], w)]
        <3> DEFINE m == Returns(at[p], w)
        <3>1. w \in PCs
            BY <1>4 DEF PCs
        <3>2. m \in Refreshers /\ m.pc = "release" /\ m.then = w /\ m.snap = at[p].snap /\ m.owns = at[p].owns
            BY <1>1, <3>1, ReturnsFields
        <3>3. QED
            BY <1>4, <2>4, <2>5, <3>2
    <2>6. CASE at' = [at EXCEPT ![p] = On(at[p], "stored")]
        <3> DEFINE m == On(at[p], "stored")
        <3>1. "stored" \in PCs /\ "stored" # "idle"
            BY DEF PCs
        <3>2. m \in Refreshers /\ m.pc = "stored" /\ Kept(at[p], m)
            BY <1>1, <3>1, OnFields
        <3>3. QED
            BY <1>1, <2>4, <2>6, <3>2 DEF Kept
    <2>7. CASE at' = [at EXCEPT ![p] = k]
        <3> DEFINE n == [at[p] EXCEPT !.acct = c]
        <3>1. c \in Creds
            BY <1>1 DEF Known, TypeOK, Creds, Refreshers
        <3>2. n \in Refreshers /\ Kept(at[p], n)
            BY <1>1, <3>1, AccountFields
        <3> HIDE DEF n
        <3>3. Returns(n, v) \in Refreshers /\ Returns(n, v).pc = "release" /\ Returns(n, v).then = v
            BY <1>4, <3>2, ReturnsFields
        <3>4. Returns(n, v).snap = at[p].snap /\ Returns(n, v).owns = at[p].owns
            BY <1>4, <3>2, ReturnsFields DEF Kept
        <3>5. at' = [at EXCEPT ![p] = Returns(n, v)]
            BY <2>7 DEF n
        <3> HIDE DEF v
        <3>6. v \in {"check", "sync"}
            BY <1>4
        <3>7. QED
            BY <2>4, <3>3, <3>4, <3>5, <3>6
    <2>8. QED
        BY <1>5, <1>7, <2>5, <2>6, <2>7
<1>8. QED
    BY <1>6, <1>7

LEMMA ReleaseGoes ==
    ASSUME Known, NEW p \in Procs, ReleaseLock(p)
    PROVE  Goes(p)
<1> USE DEF store, counts, ghosts
<1> DEFINE r == [at[p] EXCEPT !.owns = FALSE, !.then = "idle"]
           w == at[p].then
           m == On(r, w)
<1>1. /\ at[p].pc = "release" /\ valid' = valid /\ issued' = issued /\ row' = row /\ lost' = lost
      /\ reauths' = reauths
      /\ at[p] \in Refreshers /\ w \in {"idle", "check", "retry", "mark", "ban", "sync"}
    BY KnownTypes DEF ReleaseLock, Fault
<1>2. r \in Refreshers /\ r.pc = "release" /\ r.snap = at[p].snap /\ r.owns = FALSE /\ r.then = "idle"
    BY <1>1, ReleasedFields
<1>3. at' = [at EXCEPT ![p] = m]
    BY DEF ReleaseLock
<1>4. w \in PCs
    BY <1>1 DEF PCs
<1> HIDE DEF r
<1>5. m \in Refreshers /\ (m = Idle \/ (m.pc = w /\ Kept(r, m)))
    BY <1>2, <1>4, OnFields
<1>6. m.owns = FALSE /\ m.then = "idle" /\ m.pc \in {"idle", "check", "retry", "mark", "ban", "sync"}
    BY <1>1, <1>2, <1>5, IdleFields DEF Kept
<1>7. m.pc = "mark" => w = "mark" /\ m.snap = at[p].snap
    BY <1>2, <1>5, IdleFields DEF Kept
<1>8. m.snap.gen \in {at[p].snap.gen, 0}
    BY <1>2, <1>5, IdleFields DEF Kept
<1>9. Moves(p) /\ at'[p] = m
    BY <1>3, <1>5, Moved
<1> HIDE DEF m
<1>10. Still(p)
    BY <1>1, <1>6, <1>7, <1>8, <1>9 DEF Still, Refusal
<1>11. /\ overlap => overlap'
       /\ overlap' \/ (overlap' = overlap /\ (lock' = lock \/ (lock' = NoProc /\ lock \in {p, NoProc})))
    <2>1. overlap \in BOOLEAN /\ overlap' \in BOOLEAN
        BY DEF Known, TypeOK, ReleaseLock
    <2>2. CASE at[p].owns /\ lock' = NoProc /\ overlap' = (overlap \/ lock \notin {p, NoProc})
        BY <2>1, <2>2
    <2>3. CASE lock' = lock /\ overlap' = overlap
        BY <2>1, <2>3
    <2>4. CASE at[p].owns
        BY <2>1, <2>2, <2>3, <2>4 DEF ReleaseLock
    <2>5. CASE ~at[p].owns
        <3>1. lock' = lock /\ overlap' = (overlap \/ FALSE)
            BY <2>5 DEF ReleaseLock
        <3>2. QED
            BY <2>1, <2>3, <3>1
    <2>6. QED
        BY <2>4, <2>5
<1>12. Locks(p)
    BY <1>6, <1>9, <1>11 DEF Locks, Held
<1>13. Returning'
    BY <1>6, <1>9, ReturningKept
<1>14. QED
    BY <1>1, <1>9, <1>10, <1>11, <1>12, <1>13 DEF Goes, Step

LEMMA AcquireGoes ==
    ASSUME Known, NEW p \in Procs, AcquireLock(p)
    PROVE  Goes(p)
<1> USE DEF store, counts, ghosts
<1> DEFINE m == [at[p] EXCEPT !.pc = "reread", !.owns = TRUE]
           k == On(at[p], "reread")
           w == IF at[p].request THEN "wait" ELSE "idle"
<1>1. /\ at[p].pc = "lock" /\ valid' = valid /\ issued' = issued /\ row' = row /\ lost' = lost
      /\ reauths' = reauths
      /\ at[p] \in Refreshers /\ at[p].then \in {"idle", "check", "retry", "ban", "sync"}
    BY KnownTypes DEF AcquireLock, Fault
<1>2. \/ lock = NoProc /\ lock' = p /\ overlap' = overlap /\ at' = [at EXCEPT ![p] = m]
      \/ lock' = lock /\ overlap' = overlap /\ at' = [at EXCEPT ![p] = On(at[p], w)]
      \/ overlap' = TRUE /\ at' = [at EXCEPT ![p] = k]
    BY DEF AcquireLock
<1>3. ASSUME NEW n \in Refreshers, at' = [at EXCEPT ![p] = n], n.pc = "reread", n.snap = at[p].snap,
             n.then = at[p].then, overlap => overlap',
             overlap' = TRUE \/ (lock = NoProc /\ lock' = p /\ overlap' = overlap /\ n.owns)
      PROVE  Goes(p)
    <2>1. Moves(p) /\ at'[p] = n
        BY <1>3, Moved
    <2>2. Still(p)
        BY <1>1, <1>3, <2>1 DEF Still, Refusal
    <2>3. Locks(p)
        BY <1>3, <2>1 DEF Locks
    <2>4. Returning'
        BY <1>1, <1>3, <2>1, ReturningKept
    <2>5. QED
        BY <1>1, <1>3, <2>1, <2>2, <2>3, <2>4 DEF Goes, Step
<1>4. CASE lock = NoProc /\ lock' = p /\ overlap' = overlap /\ at' = [at EXCEPT ![p] = m]
    <2>1. m \in Refreshers /\ m.pc = "reread" /\ m.owns /\ m.snap = at[p].snap /\ m.then = at[p].then
        BY <1>1, OwnsFields
    <2> HIDE DEF m
    <2>2. QED
        BY <1>3, <1>4, <2>1
<1>5. CASE lock' = lock /\ overlap' = overlap /\ at' = [at EXCEPT ![p] = On(at[p], w)]
    BY <1>1, <1>5, OnGoes DEF Loses, Held
<1>6. CASE overlap' = TRUE /\ at' = [at EXCEPT ![p] = k]
    <2>1. "reread" \in PCs /\ "reread" # "idle"
        BY DEF PCs
    <2>2. k \in Refreshers /\ k.pc = "reread" /\ Kept(at[p], k)
        BY <1>1, <2>1, OnFields
    <2> HIDE DEF k
    <2>3. QED
        BY <1>3, <1>6, <2>2 DEF Kept
<1>7. QED
    BY <1>2, <1>4, <1>5, <1>6

LEMMA RefresherGoes ==
    ASSUME Known, NEW p \in Procs,
           StartBackground(p) \/ StartRequest(p) \/ Refresher(p) \/ ContextEnds(p) \/ Dies(p)
    PROVE  Goes(p)
BY StartGoes, AcquireGoes, LockHeldGoes, RereadGoes, ProviderGoes, RefreshFailedGoes, RecoverRaceGoes,
   TurnedDownGoes, PersistGoes, ReadBackGoes, ReleaseGoes, RetryGoes, MarkErrorGoes, CheckVersionGoes, EndGoes, ContextGoes
   DEF Refresher

-----------------------------------------------------------------------------
(* The shapes preserve the invariant.                                      *)

LEMMA SnapTypes ==
    ASSUME Known, NEW p \in Procs
    PROVE  /\ at[p].snap \in Creds /\ at[p].snap.gen \in Nat /\ at[p].snap.ver \in Nat /\ at[p].new \in Nat
           /\ row.gen \in Nat /\ row.ver \in Nat /\ issued \in Nat /\ valid \in SUBSET Nat
           /\ at[p].snap.gen = row.gen /\ at[p].snap.ver = row.ver => at[p].snap = Stored
BY KnownTypes DEF Known, TypeOK, Refreshers, Creds, Rows, Stored

LEMMA ExclusiveStep ==
    ASSUME Known, Exclusive, NEW p \in Procs, Moves(p), Locks(p), overlap => overlap'
    PROVE  Exclusive'
<1> SUFFICES ASSUME ~overlap', NEW q \in Procs
             PROVE  (at'[q].pc \in Held => at'[q].owns) /\ (at'[q].owns => lock' = q)
    BY DEF Exclusive
<1>1. ~overlap /\ NoProc \notin Procs
    BY RefreshAssumption
<1>2. \A x \in Procs : (at[x].pc \in Held => at[x].owns) /\ (at[x].owns => lock = x)
    BY <1>1 DEF Exclusive
<1>3. CASE q = p
    BY <1>1, <1>2, <1>3 DEF Locks
<1>4. CASE q # p
    BY <1>1, <1>2, <1>4 DEF Locks, Moves
<1>5. QED
    BY <1>3, <1>4

LEMMA StillTokens ==
    ASSUME Known, Tokens, Exclusive, NEW p \in Procs, Moves(p), Still(p),
           reauths' = reauths, overlap => overlap'
    PROVE  Tokens'
<1>1. /\ \A q \in Procs \ {p} : at'[q] = at[q]
      /\ valid' = valid /\ issued' = issued /\ row'.gen = row.gen /\ row'.ver = row.ver
    BY DEF Moves, Still
<1>2. Numbered'
    BY <1>1, SnapTypes DEF Tokens, Numbered, Still
<1>3. Single'
    <2> SUFFICES ASSUME NEW q \in Procs, at'[q].pc = "rotated"
                 PROVE  /\ at'[q].snap.gen \notin valid'
                        /\ at'[q].new \in valid' /\ at'[q].new # 0
                        /\ at'[q].new # row'.gen
                        /\ \A x \in Procs : at'[x].snap.gen # at'[q].new
                        /\ \A x \in Procs \ {q} : at'[x].pc = "rotated" =>
                              at'[x].snap.gen # at'[q].snap.gen /\ at'[x].new # at'[q].new
        BY DEF Single
    <2>1. \A x \in Procs : at'[x].pc = "rotated" =>
             at[x].pc = "rotated" /\ at'[x].snap = at[x].snap /\ at'[x].new = at[x].new
        BY <1>1 DEF Still
    <2>2. \A x \in Procs : at'[x].snap.gen \in {at[x].snap.gen, row.gen, 0}
        BY <1>1 DEF Still
    <2>3. QED
        BY <1>1, <2>1, <2>2 DEF Tokens, Single
<1>4. OneVersion'
    <2> SUFFICES ASSUME NEW q \in Procs, at'[q].pc \in {"call", "rotated"}, at'[q].snap.gen = row'.gen
                 PROVE  at'[q].snap.ver = row'.ver
        BY DEF OneVersion
    <2>1. \/ at[q].pc \in {"call", "rotated"} /\ at'[q].snap = at[q].snap
          \/ at'[q].snap = Stored
        BY <1>1 DEF Still
    <2>2. QED
        BY <1>1, <2>1, KnownTypes DEF Tokens, OneVersion
<1>5. ReadOrSpent'
    <2> SUFFICES ASSUME reauths' = 0, NEW q \in Procs
                 PROVE  /\ at'[q].pc = "call" /\ (overlap' => at'[q].snap.gen \in valid') => at'[q].snap.gen = row'.gen
                        /\ at'[q].pc = "rotated" => at'[q].snap.gen = row'.gen
        BY DEF ReadOrSpent
    <2>1. \/ at'[q].pc \in {"call", "rotated"} => at[q].pc = at'[q].pc /\ at'[q].snap = at[q].snap
          \/ at'[q].pc = "call" /\ at'[q].snap = Stored
        BY <1>1 DEF Still
    <2>2. QED
        BY <1>1, <2>1, KnownTypes DEF Tokens, ReadOrSpent
<1>6. RefusedSpent'
    <2> SUFFICES ASSUME NEW q \in Procs, Refusal(at'[q])
                 PROVE  /\ at'[q].snap.gen \notin valid'
                        /\ ~overlap' => \A x \in Procs : ~(at'[x].pc = "rotated" /\ at'[x].snap.gen = at'[q].snap.gen)
                        /\ ~overlap' /\ reauths' = 0 => at'[q].snap.gen = row'.gen
        BY DEF RefusedSpent
    <2>1. at'[q].snap = at[q].snap /\ (Refusal(at[q]) \/ (at[q].pc = "call" /\ at[q].snap.gen \notin valid))
        BY <1>1 DEF Still
    <2>2. \A x \in Procs : at'[x].pc = "rotated" => at[x].pc = "rotated" /\ at'[x].snap = at[x].snap
        BY <1>1 DEF Still
    <2>3. CASE Refusal(at[q])
        BY <1>1, <2>1, <2>2, <2>3 DEF Tokens, RefusedSpent
    <2>4. CASE at[q].pc = "call" /\ at[q].snap.gen \notin valid
        <3>1. ~overlap => \A x \in Procs : at[x].pc # "rotated"
            BY <2>4 DEF Exclusive, Held
        <3>2. ~overlap /\ reauths = 0 => at[q].snap.gen = row.gen
            BY <2>4 DEF Tokens, ReadOrSpent
        <3>3. QED
            BY <1>1, <2>1, <2>2, <2>4, <3>1, <3>2
    <2>5. QED
        BY <2>1, <2>3, <2>4
<1>7. StoredIsLive'
    <2>1. CASE row.gen \in valid
        BY <1>1, <2>1 DEF StoredIsLive
    <2>2. CASE lost
        BY <2>2 DEF StoredIsLive, Still
    <2>3. CASE Successor(row.gen)
        <3>1. PICK q \in Procs : at[q].pc = "rotated" /\ at[q].snap.gen = row.gen
            BY <2>3 DEF Successor
        <3>2. at[q].snap = Stored
            BY <3>1, SnapTypes DEF Tokens, OneVersion
        <3>3. (at'[q].pc = "rotated" /\ at'[q].snap = at[q].snap) \/ lost'
            BY <1>1, <3>1, <3>2 DEF Still
        <3>4. QED
            BY <1>1, <3>1, <3>3 DEF StoredIsLive, Successor
    <2>4. QED
        BY <2>1, <2>2, <2>3 DEF Tokens, StoredIsLive
<1>8. QED
    BY <1>2, <1>3, <1>4, <1>5, <1>6, <1>7 DEF Tokens

LEMMA RotatesTokens ==
    ASSUME Known, Tokens, Exclusive, NEW p \in Procs, Moves(p), Rotates(p),
           reauths' = reauths, overlap => overlap'
    PROVE  Tokens'
<1>1. /\ \A q \in Procs \ {p} : at'[q] = at[q]
      /\ \A q \in Procs : at'[q].snap = at[q].snap
      /\ row' = row /\ issued' = issued + 1
      /\ valid' = (valid \ {at[p].snap.gen}) \cup {issued + 1}
    BY DEF Moves, Rotates
<1>2. /\ \A q \in Procs : at[q].snap.gen \in Nat /\ at[q].snap.gen <= issued
      /\ \A q \in Procs : at[q].new \in Nat
      /\ \A g \in valid : g \in Nat /\ g <= issued
      /\ issued \in Nat /\ row.gen \in Nat /\ row.gen <= issued
    BY SnapTypes DEF Tokens, Numbered
<1>3. Numbered'
    BY <1>1, <1>2 DEF Numbered
<1>4. Single'
    <2> SUFFICES ASSUME NEW q \in Procs, at'[q].pc = "rotated"
                 PROVE  /\ at'[q].snap.gen \notin valid'
                        /\ at'[q].new \in valid' /\ at'[q].new # 0
                        /\ at'[q].new # row'.gen
                        /\ \A x \in Procs : at'[x].snap.gen # at'[q].new
                        /\ \A x \in Procs \ {q} : at'[x].pc = "rotated" =>
                              at'[x].snap.gen # at'[q].snap.gen /\ at'[x].new # at'[q].new
        BY DEF Single
    <2>1. ASSUME NEW x \in Procs \ {p}, at'[x].pc = "rotated"
          PROVE  /\ at'[x].snap.gen \notin valid /\ at'[x].snap.gen # at[p].snap.gen
                 /\ at'[x].new \in valid /\ at'[x].new # at[p].snap.gen /\ at'[x].new # issued + 1
        BY <1>1, <1>2, <2>1 DEF Tokens, Single, Rotates
    <2>2. CASE q = p
        <3>1. at'[q].new = issued + 1
            BY <2>2 DEF Rotates
        <3>2. QED
            BY <1>1, <1>2, <2>1, <2>2, <3>1
    <2>3. CASE q # p
        <3>1. /\ at'[q].snap.gen \notin valid' /\ at'[q].new \in valid'
              /\ at'[q].new # 0 /\ at'[q].new # row'.gen
            BY <1>1, <1>2, <2>1, <2>3 DEF Tokens, Single
        <3>2. \A x \in Procs : at'[x].snap.gen # at'[q].new
            BY <1>1, <2>3 DEF Tokens, Single
        <3>3. ASSUME NEW x \in Procs \ {q}, at'[x].pc = "rotated"
              PROVE  at'[x].snap.gen # at'[q].snap.gen /\ at'[x].new # at'[q].new
            <4>1. CASE x = p
                BY <1>1, <2>1, <2>3, <3>3, <4>1 DEF Rotates
            <4>2. CASE x # p
                BY <1>1, <2>3, <3>3, <4>2 DEF Tokens, Single
            <4>3. QED
                BY <4>1, <4>2
        <3>4. QED
            BY <3>1, <3>2, <3>3
    <2>4. QED
        BY <2>2, <2>3
<1>5. OneVersion'
    <2>1. \A q \in Procs : at'[q].pc \in {"call", "rotated"} => at[q].pc \in {"call", "rotated"}
        BY <1>1 DEF Rotates
    <2>2. QED
        BY <1>1, <2>1 DEF Tokens, OneVersion
<1>6. ReadOrSpent'
    <2> SUFFICES ASSUME reauths' = 0, NEW q \in Procs
                 PROVE  /\ at'[q].pc = "call" /\ (overlap' => at'[q].snap.gen \in valid') => at'[q].snap.gen = row'.gen
                        /\ at'[q].pc = "rotated" => at'[q].snap.gen = row'.gen
        BY DEF ReadOrSpent
    <2>1. CASE q = p
        BY <1>1, <2>1 DEF Tokens, ReadOrSpent, Rotates
    <2>2. CASE q # p
        <3>1. at'[q] = at[q] /\ at[q].snap.gen # issued + 1
            BY <1>1, <1>2, <2>2
        <3>2. at[q].snap.gen \in valid' => at[q].snap.gen \in valid
            BY <1>1, <3>1
        <3>3. QED
            BY <1>1, <3>1, <3>2 DEF Tokens, ReadOrSpent
    <2>3. QED
        BY <2>1, <2>2
<1>7. RefusedSpent'
    <2> SUFFICES ASSUME NEW q \in Procs, Refusal(at'[q])
                 PROVE  /\ at'[q].snap.gen \notin valid'
                        /\ ~overlap' => \A x \in Procs : ~(at'[x].pc = "rotated" /\ at'[x].snap.gen = at'[q].snap.gen)
                        /\ ~overlap' /\ reauths' = 0 => at'[q].snap.gen = row'.gen
        BY DEF RefusedSpent
    <2>1. q # p /\ at'[q] = at[q] /\ Refusal(at[q])
        BY <1>1 DEF Rotates
    <2>2. at[q].snap.gen \notin valid /\ at[q].snap.gen # issued + 1
        BY <1>2, <2>1 DEF Tokens, RefusedSpent
    <2>3. at[p].snap.gen # at[q].snap.gen
        BY <2>2 DEF Rotates
    <2>4. QED
        BY <1>1, <2>1, <2>2, <2>3 DEF Tokens, RefusedSpent
<1>8. StoredIsLive'
    <2>1. CASE row.gen \in valid
        <3>1. CASE row.gen = at[p].snap.gen
            BY <1>1, <3>1 DEF StoredIsLive, Successor, Rotates
        <3>2. CASE row.gen # at[p].snap.gen
            BY <1>1, <2>1, <3>2 DEF StoredIsLive
        <3>3. QED
            BY <3>1, <3>2
    <2>2. CASE lost
        BY <2>2 DEF StoredIsLive, Rotates
    <2>3. CASE Successor(row.gen)
        <3>1. PICK q \in Procs : at[q].pc = "rotated" /\ at[q].snap.gen = row.gen
            BY <2>3 DEF Successor
        <3>2. at'[q] = at[q]
            BY <1>1, <3>1 DEF Rotates
        <3>3. QED
            BY <1>1, <3>1, <3>2 DEF StoredIsLive, Successor
    <2>4. QED
        BY <2>1, <2>2, <2>3 DEF Tokens, StoredIsLive
<1>9. QED
    BY <1>3, <1>4, <1>5, <1>6, <1>7, <1>8 DEF Tokens

LEMMA StoresTokens ==
    ASSUME Known, Tokens, Exclusive, NEW p \in Procs, Moves(p), Stores(p),
           reauths' = reauths, overlap => overlap'
    PROVE  Tokens'
<1>1. /\ \A q \in Procs \ {p} : at'[q] = at[q]
      /\ \A q \in Procs : at'[q].snap = at[q].snap
      /\ valid' = valid /\ issued' = issued /\ row'.gen = at[p].new
      /\ at[p].pc = "rotated"
    BY DEF Moves, Stores
<1>2. \A q \in Procs : at'[q].pc \in {"call", "rotated"} \/ Refusal(at'[q]) => q # p /\ at'[q] = at[q]
    BY <1>1 DEF Stores
<1>3. /\ at[p].snap.gen \notin valid /\ at[p].new \in valid
      /\ \A q \in Procs : at[q].snap.gen # at[p].new
      /\ \A q \in Procs \ {p} : at[q].pc = "rotated" =>
            at[q].snap.gen # at[p].snap.gen /\ at[q].new # at[p].new
    BY <1>1 DEF Tokens, Single
<1>4. reauths = 0 => at[p].snap.gen = row.gen
    BY <1>1 DEF Tokens, ReadOrSpent
<1>5. Numbered'
    BY <1>1, <1>3 DEF Tokens, Numbered
<1>6. Single'
    BY <1>1, <1>2, <1>3 DEF Tokens, Single
<1>7. OneVersion'
    BY <1>1, <1>2, <1>3 DEF OneVersion
<1>8. ReadOrSpent'
    <2> SUFFICES ASSUME reauths' = 0, NEW q \in Procs,
                        \/ at'[q].pc = "call" /\ (overlap' => at'[q].snap.gen \in valid')
                        \/ at'[q].pc = "rotated"
                 PROVE  FALSE
        BY DEF ReadOrSpent
    <2>1. q # p /\ at'[q] = at[q] /\ reauths = 0
        BY <1>2
    <2>2. CASE at'[q].pc = "rotated"
        BY <1>3, <1>4, <2>1, <2>2 DEF Tokens, ReadOrSpent
    <2>3. CASE at'[q].pc = "call" /\ (overlap' => at'[q].snap.gen \in valid')
        <3>1. CASE overlap'
            BY <1>1, <1>3, <1>4, <2>1, <2>3, <3>1 DEF Tokens, ReadOrSpent
        <3>2. CASE ~overlap'
            BY <1>1, <2>1, <2>3, <3>2 DEF Exclusive, Held
        <3>3. QED
            BY <3>1, <3>2
    <2>4. QED
        BY <2>2, <2>3
<1>9. RefusedSpent'
    BY <1>1, <1>2, <1>4 DEF Tokens, RefusedSpent
<1>10. StoredIsLive'
    BY <1>1, <1>3 DEF StoredIsLive
<1>11. QED
    BY <1>5, <1>6, <1>7, <1>8, <1>9, <1>10 DEF Tokens

LEMMA ReauthorizeKeeps ==
    ASSUME Known, Tokens, Exclusive, Reauthorize
    PROVE  Returning' /\ Tokens' /\ Exclusive'
<1> USE DEF ghosts
<1>1. /\ at' = at /\ overlap' = overlap /\ lock' = lock /\ reauths' = reauths + 1
      /\ issued' = issued + 1 /\ valid' = valid \cup {issued + 1} /\ row'.gen = issued + 1
    BY DEF Reauthorize, Known, TypeOK, Rows
<1>2. /\ \A q \in Procs : at[q].snap.gen \in Nat /\ at[q].snap.gen <= issued
      /\ \A g \in valid : g \in Nat /\ g <= issued
      /\ issued \in Nat /\ row.gen \in Nat /\ row.gen <= issued
    BY SnapTypes DEF Tokens, Numbered, Known, TypeOK, Rows
<1>3. reauths' # 0
    BY <1>1 DEF Known, TypeOK
<1>4. Numbered'
    BY <1>1, <1>2 DEF Numbered
<1>5. Single'
    BY <1>1, <1>2 DEF Tokens, Single
<1>6. OneVersion'
    BY <1>1, <1>2 DEF OneVersion
<1>7. ReadOrSpent'
    BY <1>3 DEF ReadOrSpent
<1>8. RefusedSpent'
    BY <1>1, <1>2, <1>3 DEF Tokens, RefusedSpent
<1>9. StoredIsLive'
    BY <1>1 DEF StoredIsLive
<1>10. QED
    BY <1>1, <1>4, <1>5, <1>6, <1>7, <1>8, <1>9 DEF Tokens, Exclusive, Known, Returning

\* The other steps leave the refreshers and the credentials alone.
Elsewhere ==
    ClearError \/ AdminInvalidate \/ TokenExpires \/ CacheExpires \/ LockExpires \/ UNCHANGED vars

LEMMA ElsewhereKeeps ==
    ASSUME Known, Tokens, Exclusive, Elsewhere
    PROVE  Returning' /\ Tokens' /\ Exclusive'
<1> USE DEF store, counts, ghosts
<1>1. /\ at' = at /\ valid' = valid /\ issued' = issued /\ reauths' = reauths /\ lost' = lost
      /\ row'.gen = row.gen /\ row'.ver = row.ver
    BY DEF Elsewhere, ClearError, AdminInvalidate, TokenExpires, CacheExpires, LockExpires, vars,
           Fault, Known, TypeOK, Rows
<1>2. \/ lock' = lock /\ overlap' = overlap
      \/ lock # NoProc /\ lock' = NoProc /\ (at[lock].owns => overlap') /\ (overlap => overlap')
    BY DEF Elsewhere, ClearError, AdminInvalidate, TokenExpires, CacheExpires, LockExpires, vars
<1>3. Exclusive'
    BY <1>1, <1>2 DEF Exclusive
<1>4. overlap => overlap'
    BY <1>2
<1>5. Tokens'
    BY <1>1, <1>4 DEF Tokens, Numbered, Single, OneVersion, ReadOrSpent, RefusedSpent, Refusal,
                      StoredIsLive, Successor
<1>6. QED
    BY <1>1, <1>3, <1>5 DEF Known, Returning

-----------------------------------------------------------------------------
(* Types.                                                                  *)

Others ==
    /\ grok \in BOOLEAN
    /\ row \in Rows
    /\ valid \in SUBSET Nat
    /\ issued \in Nat /\ clock \in Nat
    /\ lock \in Procs \cup {NoProc}
    /\ cache \in Nat \cup {None}
    /\ admin \in {"idle", "clear", "sync"}
    /\ expiries \in 0..MaxExpiries /\ reauths \in 0..MaxReauths /\ faults \in 0..MaxFaults
    /\ overlap \in BOOLEAN /\ lost \in BOOLEAN /\ skewed \in BOOLEAN

LEMMA RowType ==
    ASSUME NEW r \in Rows, NEW g \in Nat, NEW v \in Nat
    PROVE  [r EXCEPT !.gen = g, !.ver = v, !.due = FALSE] \in Rows
BY DEF Rows

LEMMA OthersInit == ASSUME Init PROVE Others
<1>1. row \in Rows
    BY DEF Init, Rows
<1>2. valid \in SUBSET Nat /\ issued \in Nat /\ clock \in Nat
    BY DEF Init
<1>3. expiries \in 0..MaxExpiries /\ reauths \in 0..MaxReauths /\ faults \in 0..MaxFaults
    BY RefreshAssumption DEF Init
<1>4. QED
    BY <1>1, <1>2, <1>3 DEF Init, Others

LEMMA OthersNext ==
    ASSUME Known, [Next]_vars
    PROVE  Others'
<1> USE DEF store, counts, ghosts
<1>1. Others /\ \A p \in Procs : at[p].new \in Nat /\ at[p].acct.gen \in Nat
    BY DEF Known, TypeOK, Others, Refreshers, Creds
<1>2. Fault => faults' \in 0..MaxFaults /\ expiries' = expiries /\ reauths' = reauths
    BY <1>1, RefreshAssumption DEF Fault, Others
<1>3. None \in Nat \cup {None}
    OBVIOUS
<1> HIDE DEF Fault
<1>4. CASE UNCHANGED vars
    BY <1>1, <1>4 DEF Others, vars
<1>5. CASE Reauthorize
    <2>1. row \in Rows /\ issued + 1 \in Nat /\ 0 \in Nat
        BY <1>1 DEF Others
    <2>2. row' = [row EXCEPT !.gen = issued + 1, !.ver = 0, !.due = FALSE]
        BY <1>5 DEF Reauthorize
    <2>3. row' \in Rows
        BY <2>1, <2>2, RowType
    <2>4. reauths' \in 0..MaxReauths /\ issued' \in Nat /\ valid' \in SUBSET Nat
        BY <1>1, <1>5, RefreshAssumption DEF Others, Reauthorize
    <2>5. QED
        BY <1>1, <1>5, <2>3, <2>4 DEF Others, Reauthorize
<1>6. CASE ClearError
    <2>1. row' \in Rows
        BY <1>1, <1>6 DEF Others, ClearError, Rows
    <2>2. QED
        BY <1>1, <1>2, <1>6, <2>1 DEF Others, ClearError
<1>7. CASE AdminInvalidate
    BY <1>1, <1>2, <1>7 DEF Others, AdminInvalidate
<1>8. CASE TokenExpires
    <2>1. row' \in Rows
        BY <1>1, <1>8 DEF Others, TokenExpires, Rows
    <2>2. expiries' \in 0..MaxExpiries
        BY <1>1, <1>8, RefreshAssumption DEF Others, TokenExpires
    <2>3. QED
        BY <1>1, <1>8, <2>1, <2>2 DEF Others, TokenExpires
<1>9. CASE CacheExpires
    BY <1>1, <1>9 DEF Others, CacheExpires
<1>10. CASE LockExpires
    BY <1>1, <1>2, <1>10 DEF Others, LockExpires
<1>11. ASSUME NEW p \in Procs,
             StartBackground(p) \/ StartRequest(p) \/ Refresher(p) \/ ContextEnds(p) \/ Dies(p)
      PROVE  Others'
    <2>1. CASE StartBackground(p) \/ StartRequest(p) \/ LockHeld(p) \/ TurnedDown(p) \/ Retry(p)
        BY <1>1, <2>1 DEF Others, StartBackground, StartRequest, LockHeld, TurnedDown, Retry
    <2>2. CASE AcquireLock(p)
        BY <1>1, <1>2, <2>2 DEF Others, AcquireLock
    <2>3. CASE Reread(p) \/ RecoverRace(p) \/ ContextEnds(p)
        BY <1>1, <1>2, <2>3 DEF Others, Reread, RecoverRace, ContextEnds
    <2>4. CASE ProviderRefresh(p)
        <3>1. \/ issued' = issued /\ valid' = valid
              \/ issued' = issued + 1 /\ valid' = (valid \ {at[p].snap.gen}) \cup {issued + 1}
            BY <2>4 DEF ProviderRefresh
        <3>2. lost' \in BOOLEAN
            BY <1>1, <2>4 DEF Others, ProviderRefresh
        <3>3. issued \in Nat /\ issued + 1 \in Nat /\ \A g \in valid : g \in Nat
            BY <1>1 DEF Others
        <3>4. \A g \in valid' : g \in valid \/ g = issued + 1
            BY <3>1
        <3>5. \A g \in valid' : g \in Nat
            BY <3>3, <3>4
        <3>6. issued' \in Nat /\ valid' \in SUBSET Nat
            BY <3>1, <3>3, <3>5
        <3>7. expiries' \in 0..MaxExpiries /\ reauths' \in 0..MaxReauths /\ faults' \in 0..MaxFaults
            BY <1>1, <1>2, <2>4 DEF Others, ProviderRefresh
        <3>8. QED
            BY <1>1, <2>4, <3>6, <3>7, <3>2 DEF Others, ProviderRefresh
    <2>5. CASE RefreshFailed(p)
        BY <1>1, <2>5 DEF Others, RefreshFailed
    <2>6. CASE Persist(p)
        <3> DEFINE c == [gen |-> at[p].new, ver |-> clock + 1]
        <3>1. /\ row' = row \/ row' = [row EXCEPT !.gen = c.gen, !.ver = c.ver, !.due = FALSE]
              /\ clock' = clock \/ clock' = clock + 1
            BY <2>6 DEF Persist
        <3>2. lost' \in BOOLEAN /\ skewed' \in BOOLEAN
            BY <2>6 DEF Persist
        <3>3. row \in Rows /\ c.gen \in Nat /\ c.ver \in Nat
            BY <1>1 DEF Others
        <3> HIDE DEF c
        <3>4. [row EXCEPT !.gen = c.gen, !.ver = c.ver, !.due = FALSE] \in Rows
            BY <3>3, RowType
        <3>5. row' \in Rows
            BY <3>1, <3>3, <3>4
        <3>6. row' \in Rows /\ clock' \in Nat
            BY <1>1, <3>1, <3>5 DEF Others
        <3>7. expiries' \in 0..MaxExpiries /\ reauths' \in 0..MaxReauths /\ faults' \in 0..MaxFaults
            BY <1>1, <1>2, <2>6 DEF Others, Persist
        <3>8. QED
            BY <1>1, <2>6, <3>6, <3>7, <3>2 DEF Others, Persist
    <2>7. CASE ReadBack(p)
        BY <1>1, <1>2, <2>7 DEF Others, ReadBack
    <2>8. CASE ReleaseLock(p)
        BY <1>1, <1>2, <2>8 DEF Others, ReleaseLock
    <2>9. CASE MarkError(p)
        BY <1>1, <1>2, <2>9 DEF Others, MarkError, Rows
    <2>10. CASE Invalidate(p)
        BY <1>1, <1>2, <2>10 DEF Others, Invalidate
    <2>11. CASE CheckVersion(p)
        BY <1>1, <1>2, <2>11 DEF Others, CheckVersion
    <2>12. CASE FillCache(p)
        BY <1>1, <2>12 DEF Others, FillCache
    <2>13. CASE Dies(p)
        BY <1>1, <1>2, <2>13 DEF Others, Dies
    <2>14. QED
        BY <1>11, <2>1, <2>2, <2>3, <2>4, <2>5, <2>6, <2>7, <2>8, <2>9, <2>10, <2>11, <2>12, <2>13
           DEF Refresher
<1>12. QED
    BY <1>4, <1>5, <1>7, <1>8, <1>10, <1>11, <1>6, <1>9 DEF Next

LEMMA KnownNext ==
    ASSUME Known, [Next]_vars, at' \in [Procs -> Refreshers], Returning'
    PROVE  Known'
<1>1. Others'
    BY OthersNext
<1>2. QED
    BY <1>1 DEF Known, TypeOK, Others

LEMMA IInvInit == ASSUME Init PROVE IInv
<1>1. at = [p \in Procs |-> Idle]
    BY DEF Init
<1>2. \A p \in Procs : at[p] = Idle
    BY <1>1
<1>3. Known
    BY <1>1, <1>2, IdleType, IdleFields, OthersInit DEF Known, TypeOK, Others, Returning
<1>4. row.gen = 0 /\ valid = {0} /\ issued = 0
    BY DEF Init
<1>5. Tokens
    BY <1>2, <1>4, IdleFields DEF Tokens, Numbered, Single, OneVersion, ReadOrSpent, RefusedSpent,
                              Refusal, StoredIsLive
<1>6. Exclusive
    BY <1>2, IdleFields DEF Exclusive, Held
<1>7. QED
    BY <1>3, <1>5, <1>6 DEF IInv

LEMMA IInvNext == ASSUME IInv, [Next]_vars PROVE IInv'
<1> USE DEF IInv
<1>1. ASSUME NEW p \in Procs,
             StartBackground(p) \/ StartRequest(p) \/ Refresher(p) \/ ContextEnds(p) \/ Dies(p)
      PROVE  IInv'
    <2>1. Step(p) /\ Returning'
        BY <1>1, RefresherGoes DEF Goes
    <2>2. Exclusive'
        BY <2>1, ExclusiveStep DEF Step
    <2>3. Tokens'
        BY <2>1, StillTokens, RotatesTokens, StoresTokens DEF Step
    <2>4. Known'
        BY <2>1, KnownNext DEF Step, Moves
    <2>5. QED
        BY <2>2, <2>3, <2>4
<1>2. CASE Reauthorize
    <2>1. at' = at
        BY <1>2 DEF Reauthorize
    <2>2. QED
        BY <1>2, <2>1, ReauthorizeKeeps, KnownNext DEF Known, TypeOK
<1>3. CASE Elsewhere
    <2>1. at' = at
        BY <1>3 DEF Elsewhere, ClearError, AdminInvalidate, TokenExpires, CacheExpires, LockExpires, vars
    <2>2. QED
        BY <1>3, <2>1, ElsewhereKeeps, KnownNext DEF Known, TypeOK
<1>4. QED
    BY <1>1, <1>2, <1>3 DEF Next, Elsewhere

LEMMA Invariant == Spec => []IInv
<1>1. Init => IInv
    BY IInvInit
<1>2. IInv /\ [Next]_vars => IInv'
    BY IInvNext
<1>3. QED
    BY <1>1, <1>2, PTL DEF Spec

-----------------------------------------------------------------------------
(***************************************************************************)
(* The types hold whatever the refreshers, the administrator and the       *)
(* faults do.                                                              *)
(***************************************************************************)
THEOREM Typed == Spec => []TypeOK
<1>1. IInv => TypeOK
    BY DEF IInv, Known
<1>2. QED
    BY <1>1, Invariant, PTL

(***************************************************************************)
(* The stored refresh token is accepted, or its successor is about to be   *)
(* stored, or issued credentials were dropped: for any number of           *)
(* refreshers, with or without the lock.                                   *)
(***************************************************************************)
THEOREM AccountStaysLive == Spec => []StoredIsLive
<1>1. IInv => StoredIsLive
    BY DEF IInv, Tokens
<1>2. QED
    BY <1>1, Invariant, PTL

LEMMA OverwriteStep ==
    ASSUME IInv, [Next]_vars, row'.ver > row.ver, grok \/ reauths = 0
    PROVE  \E p \in Procs : at[p].snap.gen = row.gen /\ at[p].new = row'.gen
<1> USE DEF store, counts, ghosts
<1>1. Known /\ Tokens /\ row \in Rows /\ row.ver \in Nat
    BY DEF IInv, Known, TypeOK, Rows
<1>2. CASE Reauthorize
    <2>1. row'.ver = 0
        BY <1>1, <1>2 DEF Reauthorize, Rows
    <2>2. QED
        BY <1>1, <2>1
<1>3. CASE Elsewhere
    <2>1. row'.ver = row.ver
        BY <1>1, <1>3 DEF Elsewhere, ClearError, AdminInvalidate, TokenExpires, CacheExpires, LockExpires, vars, Rows
    <2>2. QED
        BY <1>1, <2>1
<1>4. ASSUME NEW p \in Procs,
             StartBackground(p) \/ StartRequest(p) \/ Refresher(p) \/ ContextEnds(p) \/ Dies(p)
      PROVE  at[p].snap.gen = row.gen /\ at[p].new = row'.gen
    <2>1. Step(p)
        BY <1>1, <1>4, RefresherGoes DEF Goes
    <2>2. Stores(p)
        BY <1>1, <2>1 DEF Step, Still, Rotates
    <2>3. at[p].snap.gen = row.gen
        BY <1>1, <2>2, KnownTypes DEF Stores, Tokens, ReadOrSpent
    <2>4. QED
        BY <2>2, <2>3 DEF Stores
<1>5. QED
    BY <1>2, <1>3, <1>4 DEF Next, Elsewhere

(***************************************************************************)
(* A refresh replaces the credentials it used, and no others, unless a     *)
(* re-authorization of an account without compare-and-set came in between. *)
(***************************************************************************)
THEOREM NoOverwrite == Spec => NothingOverwritten
<1>1. IInv /\ [Next]_vars =>
        [row'.ver > row.ver /\ (grok \/ reauths = 0)
          => \E p \in Procs : at[p].snap.gen = row.gen /\ at[p].new = row'.gen]_vars
    BY OverwriteStep
<1>2. QED
    BY <1>1, Invariant, PTL DEF Spec, NothingOverwritten

LEMMA MarkStep ==
    ASSUME IInv, [Next]_vars, row.status = "active", row'.status = "error"
    PROVE  \/ row.gen \notin valid /\ ~Successor(row.gen)
           \/ \E p \in Procs : at[p].pc = "ban" /\ at'[p].pc # "ban" /\ (grok => at[p].snap.gen = row.gen)
           \/ overlap /\ (grok => row.gen \notin valid)
           \/ ~grok /\ reauths > 0
<1> USE DEF store, counts, ghosts
<1>1. Known /\ Tokens /\ row \in Rows /\ reauths \in Nat
    BY DEF IInv, Known, TypeOK
<1>2. PICK p \in Procs : MarkError(p)
    <2>1. row' # row
        OBVIOUS
    <2>2. ~(Reauthorize \/ TokenExpires \/ ClearError)
        BY <1>1 DEF Reauthorize, TokenExpires, ClearError, Rows
    <2>3. ASSUME NEW p \in Procs, Persist(p) PROVE FALSE
        BY <1>1, <2>3 DEF Persist, Rows
    <2>4. QED
        BY <2>1, <2>2, <2>3 DEF Next, vars, Refresher, StartBackground, StartRequest, AcquireLock, LockHeld,
           Reread, ProviderRefresh, RefreshFailed, RecoverRace, TurnedDown, ReadBack, ReleaseLock, Retry,
           Invalidate, CheckVersion, FillCache, ContextEnds, Dies, AdminInvalidate, CacheExpires, LockExpires
<1>3. at[p].pc \in {"mark", "ban"} /\ (grok => at[p].snap = Stored)
    BY <1>2 DEF MarkError
<1>4. grok => at[p].snap.gen = row.gen
    BY <1>1, <1>3, KnownTypes
<1>5. CASE at[p].pc = "ban"
    <2>1. /\ On(at[p], "idle") \in Refreshers /\ On(at[p], "idle").pc # "ban"
          /\ On(at[p], "sync") \in Refreshers /\ On(at[p], "sync").pc # "ban"
        BY <1>1, KnownTypes, OnFields, IdleFields DEF PCs
    <2>2. \/ at' = [at EXCEPT ![p] = On(at[p], "idle")]
          \/ at' = [at EXCEPT ![p] = On(at[p], "sync")]
        BY <1>2 DEF MarkError
    <2>3. at'[p].pc # "ban"
        BY <1>1, <2>1, <2>2, Moved
    <2>4. QED
        BY <1>4, <1>5, <2>3
<1>6. CASE at[p].pc = "mark"
    <2>1. /\ at[p].snap.gen \notin valid
          /\ ~overlap => \A q \in Procs : ~(at[q].pc = "rotated" /\ at[q].snap.gen = at[p].snap.gen)
          /\ ~overlap /\ reauths = 0 => at[p].snap.gen = row.gen
        BY <1>1, <1>6 DEF Tokens, RefusedSpent, Refusal
    <2>2. CASE at[p].snap.gen = row.gen
        BY <2>1, <2>2 DEF Successor
    <2>3. CASE at[p].snap.gen # row.gen
        BY <1>1, <1>4, <2>1, <2>3
    <2>4. QED
        BY <2>2, <2>3
<1>7. QED
    BY <1>3, <1>5, <1>6

(***************************************************************************)
(* An account is marked only for what was refused: its token is spent and  *)
(* no successor is on its way, or who marks it was turned down, for Grok   *)
(* with the stored credentials.  The exceptions are refreshers without the *)
(* lock, which spare a Grok account with a live token all the same, and    *)
(* re-authorizations of an account that is marked unconditionally.         *)
(***************************************************************************)
THEOREM MarkIsDeserved == Spec => MarkedWhenRefused
<1>1. IInv /\ [Next]_vars =>
        [row.status = "active" /\ row'.status = "error"
          => \/ row.gen \notin valid /\ ~Successor(row.gen)
             \/ \E p \in Procs : at[p].pc = "ban" /\ at'[p].pc # "ban" /\ (grok => at[p].snap.gen = row.gen)
             \/ overlap /\ (grok => row.gen \notin valid)
             \/ ~grok /\ reauths > 0]_vars
    BY MarkStep
<1>2. QED
    BY <1>1, Invariant, PTL DEF Spec, MarkedWhenRefused

-----------------------------------------------------------------------------
(***************************************************************************)
(* The cached access token.  While the versions are in order (nobody       *)
(* authorized the account again, and no step went against a newer row), a  *)
(* version says which credentials an account object has.  So a refresher   *)
(* that gets past CheckTokenVersion has the stored ones, and whoever       *)
(* stored credentials last still drops or replaces the cached token.       *)
(***************************************************************************)
Calm == ~skewed /\ reauths = 0

\* p is about to drop the cached token, or to replace it by the stored one.
Fixes(p) ==
    \/ at[p].pc \in {"stored", "sync"}
    \/ at[p].pc = "release" /\ at[p].then = "sync"
    \/ /\ at[p].pc \in {"check", "fill"} \/ (at[p].pc = "release" /\ at[p].then = "check")
       /\ at[p].acct = Stored

\* Versions count what was stored, and say which credentials they are of.
Versioned ==
    /\ row.ver = clock /\ (row.ver = 0 => row.gen = 0)
    /\ \A p \in Procs : /\ at[p].acct.ver <= row.ver
                        /\ at[p].acct.ver = row.ver => at[p].acct = Stored
                        /\ at[p].pc = "fill" => at[p].snap = at[p].acct

Fixed == cache \in {None, row.gen} \/ \E p \in Procs : Fixes(p)

CacheInv == Calm => Versioned /\ Fixed

\* What a refresher's step keeps of this, when it stores nothing.
Turns(p) ==
    /\ Moves(p)
    /\ row'.gen = row.gen /\ row'.ver = row.ver /\ clock' = clock
    /\ at'[p].acct \in {at[p].acct, Stored, NoCreds}
    /\ at'[p].pc = "fill" =>
         at'[p].acct = at[p].acct /\ at'[p].snap = Stored /\ ~(row.ver > at[p].acct.ver)
    /\ cache' = cache \/ cache' \in {None, row.gen}
    /\ Fixes(p) => Fixes(p)' \/ cache' \in {None, row.gen}

LEMMA VersionFacts ==
    ASSUME Known
    PROVE  /\ clock \in Nat /\ row.ver \in Nat
           /\ Stored.gen = row.gen /\ Stored.ver = row.ver
           /\ \A p \in Procs : at[p].acct \in Creds /\ at[p].acct.ver \in Nat
<1>1. /\ clock \in Nat /\ row \in Rows /\ \A p \in Procs : at[p] \in Refreshers
    BY DEF Known, TypeOK
<1>2. \A p \in Procs : at[p].acct \in Creds
    BY <1>1 DEF Refreshers
<1>3. QED
    BY <1>1, <1>2 DEF Rows, Creds, Stored

LEMMA SameStored ==
    ASSUME row'.gen = row.gen, row'.ver = row.ver
    PROVE  Stored' = Stored
BY DEF Stored

LEMMA TurnStep ==
    ASSUME Known, Versioned, Fixed, NEW p \in Procs, Turns(p)
    PROVE  Versioned' /\ Fixed'
<1>0. Stored' = Stored
    BY SameStored DEF Turns
<1>1. ASSUME NEW q \in Procs
      PROVE  /\ at'[q].acct.ver <= row'.ver
             /\ at'[q].acct.ver = row'.ver => at'[q].acct = Stored'
             /\ at'[q].pc = "fill" => at'[q].snap = at'[q].acct
    <2>1. CASE q # p
        BY <1>0, <2>1 DEF Turns, Moves, Versioned
    <2>2. CASE q = p
        <3>1. /\ at[p].acct.ver <= row.ver /\ (at[p].acct.ver = row.ver => at[p].acct = Stored)
              /\ row.ver = 0 => row.gen = 0
            BY DEF Versioned
        <3>2. NoCreds.ver = 0 /\ (row.ver = 0 => NoCreds = Stored)
            BY <3>1 DEF NoCreds, Stored
        <3>3. /\ at'[p].acct.ver <= row.ver /\ (at'[p].acct.ver = row.ver => at'[p].acct = Stored)
            <4>1. CASE at'[p].acct = at[p].acct
                BY <3>1, <4>1
            <4>2. CASE at'[p].acct = Stored
                BY <4>2, VersionFacts
            <4>3. CASE at'[p].acct = NoCreds
                BY <3>2, <4>3, VersionFacts
            <4>4. QED
                BY <4>1, <4>2, <4>3 DEF Turns
        <3>4. ASSUME at'[p].pc = "fill" PROVE at'[p].snap = at'[p].acct
            BY <3>1, <3>4, VersionFacts DEF Turns
        <3>5. QED
            BY <1>0, <2>2, <3>3, <3>4 DEF Turns
    <2>3. QED
        BY <2>1, <2>2
<1>2. Versioned'
    BY <1>1 DEF Versioned, Turns
<1>3. Fixed'
    <2>1. ASSUME cache' \notin {None, row.gen} PROVE \E q \in Procs : Fixes(q)'
        <3>1. PICK q \in Procs : Fixes(q)
            BY <2>1 DEF Fixed, Turns
        <3>2. CASE q = p
            BY <2>1, <3>1, <3>2 DEF Turns
        <3>3. CASE q # p
            BY <1>0, <3>1, <3>3 DEF Turns, Moves, Fixes
        <3>4. QED
            BY <3>2, <3>3
    <2>2. QED
        BY <2>1 DEF Fixed, Turns
<1>4. QED
    BY <1>2, <1>3

\* The places in which a refresher may have the cache to set right.
Fixing == {"stored", "sync", "release", "check", "fill"}

LEMMA Aside ==
    ASSUME NEW p \in Procs, Moves(p), at[p].pc \notin Fixing, at'[p].pc # "fill",
           at'[p].acct \in {at[p].acct, Stored, NoCreds},
           row'.gen = row.gen, row'.ver = row.ver, clock' = clock, cache' = cache
    PROVE  Turns(p)
BY DEF Turns, Fixes, Fixing

LEMMA OnAccount ==
    ASSUME NEW r \in Refreshers, NEW w \in PCs
    PROVE  /\ On(r, w) \in Refreshers /\ On(r, w).pc = w
           /\ On(r, w).acct \in {r.acct, NoCreds} /\ (w # "idle" => On(r, w).acct = r.acct)
<1>1. [r EXCEPT !.pc = w] \in Refreshers /\ [r EXCEPT !.pc = w].pc = w /\ [r EXCEPT !.pc = w].acct = r.acct
    BY DEF Refreshers
<1>2. Idle.pc = "idle" /\ Idle.acct = NoCreds
    BY DEF Idle
<1>3. QED
    BY <1>1, <1>2, IdleType DEF On

LEMMA ReturnsAccount ==
    ASSUME NEW r \in Refreshers, NEW w \in PCs
    PROVE  /\ Returns(r, w) \in Refreshers /\ Returns(r, w).pc = "release"
           /\ Returns(r, w).then = w /\ Returns(r, w).acct = r.acct
BY DEF Refreshers, Returns, PCs

LEMMA RefreshedAccount ==
    ASSUME NEW r \in Refreshers, row \in Rows
    PROVE  /\ Refreshed(r) \in Refreshers /\ Refreshed(r).pc = "release" /\ Refreshed(r).acct = Stored
<1> DEFINE m == [r EXCEPT !.acct = Stored]
           w == IF r.request /\ (grok => row.status = "active") THEN "check" ELSE "idle"
<1>1. m \in Refreshers /\ m.acct = Stored
    BY StoredType DEF Refreshers
<1>2. w \in PCs
    BY DEF PCs
<1>3. Refreshed(r) = Returns(m, w)
    BY DEF Refreshed
<1> HIDE DEF m, w
<1>4. QED
    BY <1>1, <1>2, <1>3, ReturnsAccount

\* The shapes of the moves that do not concern the cache.
LEMMA MovesAside ==
    ASSUME Known, NEW p \in Procs, at[p].pc \notin Fixing, NEW m \in Refreshers,
           at' = [at EXCEPT ![p] = m], m.pc # "fill", m.acct \in {at[p].acct, Stored, NoCreds},
           row'.gen = row.gen, row'.ver = row.ver, clock' = clock, cache' = cache
    PROVE  Turns(p)
<1>1. Moves(p) /\ at'[p] = m
    BY Moved
<1>2. QED
    BY <1>1, Aside

LEMMA OnAside ==
    ASSUME Known, NEW p \in Procs, at[p].pc \notin Fixing, NEW w \in PCs, w # "fill",
           at' = [at EXCEPT ![p] = On(at[p], w)],
           row'.gen = row.gen, row'.ver = row.ver, clock' = clock, cache' = cache
    PROVE  Turns(p)
<1>1. On(at[p], w) \in Refreshers /\ On(at[p], w).pc = w /\ On(at[p], w).acct \in {at[p].acct, NoCreds}
    BY KnownTypes, OnAccount
<1>2. QED
    BY <1>1, MovesAside

LEMMA ReturnsAside ==
    ASSUME Known, NEW p \in Procs, at[p].pc \notin Fixing, NEW w \in PCs,
           at' = [at EXCEPT ![p] = Returns(at[p], w)],
           row'.gen = row.gen, row'.ver = row.ver, clock' = clock, cache' = cache
    PROVE  Turns(p)
<1>1. Returns(at[p], w) \in Refreshers /\ Returns(at[p], w).pc = "release" /\ Returns(at[p], w).acct = at[p].acct
    BY KnownTypes, ReturnsAccount
<1>2. QED
    BY <1>1, MovesAside

LEMMA RefreshedAside ==
    ASSUME Known, NEW p \in Procs, at[p].pc \notin Fixing,
           at' = [at EXCEPT ![p] = Refreshed(at[p])],
           row'.gen = row.gen, row'.ver = row.ver, clock' = clock, cache' = cache
    PROVE  Turns(p)
<1>1. Refreshed(at[p]) \in Refreshers /\ Refreshed(at[p]).pc = "release" /\ Refreshed(at[p]).acct = Stored
    BY KnownTypes, RefreshedAccount
<1>2. QED
    BY <1>1, MovesAside

LEMMA IdleAside ==
    ASSUME Known, NEW p \in Procs, at[p].pc \notin Fixing, at' = [at EXCEPT ![p] = Idle],
           row'.gen = row.gen, row'.ver = row.ver, clock' = clock, cache' = cache
    PROVE  Turns(p)
<1>1. Idle \in Refreshers /\ Idle.pc = "idle" /\ Idle.acct = NoCreds
    BY IdleType DEF Idle
<1>2. QED
    BY <1>1, MovesAside

\* Steps from a place in which a refresher has nothing to set right.
LEMMA AsideTurns ==
    ASSUME Known, NEW p \in Procs,
           \/ StartBackground(p) \/ StartRequest(p) \/ AcquireLock(p) \/ LockHeld(p) \/ Reread(p)
           \/ ProviderRefresh(p) \/ RefreshFailed(p) \/ RecoverRace(p) \/ TurnedDown(p) \/ Retry(p)
           \/ ContextEnds(p)
    PROVE  Turns(p)
<1> USE DEF store, counts, ghosts
<1>0. at[p] \in Refreshers /\ row \in Rows /\ Stored \in Creds
    BY KnownTypes
<1>1. CASE StartBackground(p) \/ StartRequest(p)
    <2> DEFINE m == [Idle EXCEPT !.pc = "lock", !.acct = Stored, !.tries = 1]
               w == IF row.due THEN "lock" ELSE "check"
               n == [Idle EXCEPT !.pc = w, !.request = TRUE, !.acct = Stored]
    <2>1. at' = [at EXCEPT ![p] = m] \/ at' = [at EXCEPT ![p] = n]
        BY <1>1 DEF StartBackground, StartRequest
    <2>2. m \in Refreshers /\ m.pc = "lock" /\ m.acct = Stored
        BY <1>0, StartFields DEF Idle
    <2>3. n \in Refreshers /\ n.pc = w /\ n.acct = Stored /\ w \in {"lock", "check"}
        BY <1>0, StartFields DEF Idle
    <2>4. /\ row' = row /\ clock' = clock /\ cache' = cache /\ at[p].pc = "idle"
        BY <1>1 DEF StartBackground, StartRequest
    <2> HIDE DEF m, n, w
    <2>5. QED
        BY <2>1, <2>2, <2>3, <2>4, MovesAside DEF Fixing
<1>2. CASE AcquireLock(p)
    <2> DEFINE m == [at[p] EXCEPT !.pc = "reread", !.owns = TRUE]
               w == IF at[p].request THEN "wait" ELSE "idle"
    <2>1. \/ at' = [at EXCEPT ![p] = m]
          \/ at' = [at EXCEPT ![p] = On(at[p], w)]
          \/ at' = [at EXCEPT ![p] = On(at[p], "reread")]
        BY <1>2 DEF AcquireLock
    <2>2. m \in Refreshers /\ m.pc = "reread" /\ m.acct = at[p].acct
        BY <1>0 DEF Refreshers, PCs
    <2>3. row' = row /\ clock' = clock /\ cache' = cache /\ at[p].pc = "lock"
        BY <1>2 DEF AcquireLock
    <2>4. w \in PCs /\ w # "fill" /\ "reread" \in PCs
        BY DEF PCs
    <2> HIDE DEF m, w
    <2>5. CASE at' = [at EXCEPT ![p] = m]
        BY <2>2, <2>3, <2>5, MovesAside DEF Fixing
    <2>6. CASE at' = [at EXCEPT ![p] = On(at[p], w)]
        BY <2>3, <2>4, <2>6, OnAside DEF Fixing
    <2>7. CASE at' = [at EXCEPT ![p] = On(at[p], "reread")]
        BY <2>3, <2>4, <2>7, OnAside DEF Fixing
    <2>8. QED
        BY <2>1, <2>5, <2>6, <2>7
<1>3. CASE LockHeld(p)
    <2> DEFINE m == [at[p] EXCEPT !.pc = "repair", !.acct = Stored]
               w == IF cache = None THEN "check" ELSE "idle"
    <2>1. \/ at' = [at EXCEPT ![p] = On(at[p], w)]
          \/ at' = [at EXCEPT ![p] = m]
          \/ at' = [at EXCEPT ![p] = Idle]
        BY <1>3 DEF LockHeld
    <2>2. m \in Refreshers /\ m.pc = "repair" /\ m.acct = Stored
        BY <1>0 DEF Refreshers, PCs
    <2>3. row' = row /\ clock' = clock /\ cache' = cache /\ at[p].pc = "wait"
        BY <1>3 DEF LockHeld
    <2>4. w \in PCs /\ w # "fill"
        BY DEF PCs
    <2> HIDE DEF m, w
    <2>5. CASE at' = [at EXCEPT ![p] = On(at[p], w)]
        BY <2>3, <2>4, <2>5, OnAside DEF Fixing
    <2>6. CASE at' = [at EXCEPT ![p] = m]
        BY <2>2, <2>3, <2>6, MovesAside DEF Fixing
    <2>7. CASE at' = [at EXCEPT ![p] = Idle]
        BY <2>3, <2>7, IdleAside DEF Fixing
    <2>8. QED
        BY <2>1, <2>5, <2>6, <2>7
<1>4. CASE Reread(p)
    <2> DEFINE m == [at[p] EXCEPT !.pc = "call", !.snap = Stored]
    <2>1. \/ at' = [at EXCEPT ![p] = Refreshed(at[p])]
          \/ at' = [at EXCEPT ![p] = m]
          \/ at' = [at EXCEPT ![p] = Returns(at[p], OnError(at[p]))]
        BY <1>4 DEF Reread
    <2>2. m \in Refreshers /\ m.pc = "call" /\ m.acct = at[p].acct
        BY <1>0 DEF Refreshers, PCs
    <2>3. row' = row /\ clock' = clock /\ cache' = cache /\ at[p].pc = "reread"
        BY <1>4 DEF Reread
    <2>4. OnError(at[p]) \in PCs
        BY DEF OnError, PCs
    <2> HIDE DEF m
    <2>5. CASE at' = [at EXCEPT ![p] = Refreshed(at[p])]
        BY <2>3, <2>5, RefreshedAside DEF Fixing
    <2>6. CASE at' = [at EXCEPT ![p] = m]
        BY <2>2, <2>3, <2>6, MovesAside DEF Fixing
    <2>7. CASE at' = [at EXCEPT ![p] = Returns(at[p], OnError(at[p]))]
        BY <2>3, <2>4, <2>7, ReturnsAside DEF Fixing
    <2>8. QED
        BY <2>1, <2>5, <2>6, <2>7
<1>5. CASE ProviderRefresh(p)
    <2> DEFINE n == issued + 1
               m == [at[p] EXCEPT !.pc = "rotated", !.new = n]
    <2>1. \/ at' = [at EXCEPT ![p] = On(at[p], "refused")]
          \/ at' = [at EXCEPT ![p] = On(at[p], "denied")]
          \/ at' = [at EXCEPT ![p] = On(at[p], "failed")]
          \/ at' = [at EXCEPT ![p] = m]
        BY <1>5 DEF ProviderRefresh
    <2>2. n \in Nat
        BY DEF Known, TypeOK
    <2> HIDE DEF n
    <2>3. m \in Refreshers /\ m.pc = "rotated" /\ m.acct = at[p].acct
        BY <1>0, <2>2 DEF Refreshers, PCs
    <2>4. row' = row /\ clock' = clock /\ cache' = cache /\ at[p].pc = "call"
        BY <1>5 DEF ProviderRefresh
    <2>5. "refused" \in PCs /\ "denied" \in PCs /\ "failed" \in PCs
        BY DEF PCs
    <2> HIDE DEF m
    <2>6. CASE at' = [at EXCEPT ![p] = On(at[p], "refused")]
        BY <2>4, <2>5, <2>6, OnAside DEF Fixing
    <2>7. CASE at' = [at EXCEPT ![p] = On(at[p], "failed")]
        BY <2>4, <2>5, <2>7, OnAside DEF Fixing
    <2>8. CASE at' = [at EXCEPT ![p] = m]
        BY <2>3, <2>4, <2>8, MovesAside DEF Fixing
    <2>9. CASE at' = [at EXCEPT ![p] = On(at[p], "denied")]
        BY <2>4, <2>5, <2>9, OnAside DEF Fixing
    <2>10. QED
        BY <2>1, <2>6, <2>7, <2>8, <2>9
<1>6. CASE RefreshFailed(p)
    <2> DEFINE w == IF at[p].request THEN OnError(at[p]) ELSE "retry"
    <2>1. at' = [at EXCEPT ![p] = Returns(at[p], w)] /\ w \in PCs
        BY <1>6 DEF RefreshFailed, OnError, PCs
    <2>2. row' = row /\ clock' = clock /\ cache' = cache /\ at[p].pc \notin Fixing
        BY <1>6 DEF RefreshFailed, Fixing
    <2> HIDE DEF w
    <2>3. QED
        BY <2>1, <2>2, ReturnsAside
<1>7. CASE RecoverRace(p)
    <2> DEFINE w == IF at[p].request /\ ~grok THEN "check" ELSE "mark"
    <2>1. at' = [at EXCEPT ![p] = Refreshed(at[p])] \/ at' = [at EXCEPT ![p] = Returns(at[p], w)]
        BY <1>7 DEF RecoverRace
    <2>2. row' = row /\ clock' = clock /\ cache' = cache /\ at[p].pc = "refused" /\ w \in PCs
        BY <1>7 DEF RecoverRace, PCs
    <2> HIDE DEF w
    <2>3. QED
        BY <2>1, <2>2, RefreshedAside, ReturnsAside DEF Fixing
<1>8. CASE Retry(p)
    <2> DEFINE n == at[p].tries + 1
               m == [at[p] EXCEPT !.pc = "lock", !.tries = n]
    <2>1. at' = [at EXCEPT ![p] = Idle] \/ (n \in 0..MaxTries /\ at' = [at EXCEPT ![p] = m])
        <3>1. at' = [at EXCEPT ![p] = Idle] \/ (at[p].tries < MaxTries /\ at' = [at EXCEPT ![p] = m])
            BY <1>8 DEF Retry
        <3>2. at[p].tries \in 0..MaxTries
            BY <1>0 DEF Refreshers
        <3>3. at[p].tries < MaxTries => n \in 0..MaxTries
            BY <3>2, RefreshAssumption
        <3>4. QED
            BY <3>1, <3>3
    <2>2. row' = row /\ clock' = clock /\ cache' = cache /\ at[p].pc = "retry"
        BY <1>8 DEF Retry
    <2> HIDE DEF n
    <2>3. n \in 0..MaxTries => m \in Refreshers /\ m.pc = "lock" /\ m.acct = at[p].acct
        BY <1>0 DEF Refreshers, PCs
    <2> HIDE DEF m
    <2>4. QED
        BY <2>1, <2>2, <2>3, IdleAside, MovesAside DEF Fixing
<1>9. CASE ContextEnds(p)
    <2> DEFINE m == [at[p] EXCEPT !.late = TRUE]
    <2>1. at' = [at EXCEPT ![p] = m] /\ row' = row /\ clock' = clock /\ cache' = cache
        BY <1>9 DEF ContextEnds
    <2>2. m \in Refreshers /\ m.pc = at[p].pc /\ m.acct = at[p].acct
        BY <1>0 DEF Refreshers
    <2>3. at[p].pc \notin Fixing /\ at[p].pc # "fill"
        BY <1>9 DEF ContextEnds, Calling, Fixing
    <2> HIDE DEF m
    <2>4. QED
        BY <2>1, <2>2, <2>3, MovesAside
<1>10. CASE TurnedDown(p)
    <2>1. PICK w \in {"check", "ban", "idle"} : at' = [at EXCEPT ![p] = Returns(at[p], w)]
        BY <1>10 DEF TurnedDown
    <2>2. row' = row /\ clock' = clock /\ cache' = cache /\ at[p].pc = "denied" /\ w \in PCs
        BY <1>10 DEF TurnedDown, PCs
    <2>3. QED
        BY <2>1, <2>2, ReturnsAside DEF Fixing
<1>11. QED
    BY <1>1, <1>2, <1>3, <1>4, <1>5, <1>6, <1>7, <1>8, <1>9, <1>10

LEMMA MarkErrorTurns ==
    ASSUME Known, NEW p \in Procs, MarkError(p)
    PROVE  Turns(p)
<1> USE DEF store, counts, ghosts
<1>1. \/ at' = [at EXCEPT ![p] = On(at[p], "idle")]
      \/ at' = [at EXCEPT ![p] = On(at[p], "sync")]
    BY DEF MarkError
<1>2. /\ row'.gen = row.gen /\ row'.ver = row.ver /\ clock' = clock /\ cache' = cache
      /\ at[p].pc \in {"mark", "ban"} /\ "idle" \in PCs /\ "sync" \in PCs
    BY KnownTypes DEF MarkError, Rows, PCs
<1>3. QED
    BY <1>1, <1>2, OnAside DEF Fixing

\* The steps that set the cache right, or pass the task on.
LEMMA ReadBackTurns ==
    ASSUME Known, NEW p \in Procs, ReadBack(p), ~skewed'
    PROVE  Turns(p)
<1> USE DEF store, counts, ghosts
<1>0. at[p] \in Refreshers /\ row \in Rows /\ "sync" \in PCs /\ "idle" \in PCs
    BY KnownTypes DEF PCs
<1>1. \/ at' = [at EXCEPT ![p] = Refreshed(at[p])]
      \/ at' = [at EXCEPT ![p] = Returns(at[p], "sync")]
      \/ at' = [at EXCEPT ![p] = Returns(at[p], "idle")]
    BY DEF ReadBack
<1>2. /\ row' = row /\ clock' = clock
      /\ \/ at[p].pc = "stored" /\ cache' = None
         \/ at[p].pc = "missed" /\ cache' = cache
    BY DEF ReadBack
<1>3. Moves(p) /\ at'[p].pc = "release" /\ at'[p].acct \in {at[p].acct, Stored}
    BY <1>0, <1>1, Moved, RefreshedAccount, ReturnsAccount
<1>4. QED
    BY <1>2, <1>3 DEF Turns, Fixes

LEMMA ReleaseLockTurns ==
    ASSUME Known, NEW p \in Procs, ReleaseLock(p)
    PROVE  Turns(p)
<1> USE DEF store, counts, ghosts
<1> DEFINE w == at[p].then
           m == [at[p] EXCEPT !.owns = FALSE, !.then = "idle"]
<1>0. at[p] \in Refreshers /\ w \in {"idle", "check", "retry", "mark", "ban", "sync"} /\ w \in PCs
    BY KnownTypes DEF PCs
<1>1. at' = [at EXCEPT ![p] = On(m, w)]
    BY DEF ReleaseLock
<1>2. row' = row /\ clock' = clock /\ cache' = cache /\ at[p].pc = "release"
    BY DEF ReleaseLock
<1>3. m \in Refreshers /\ m.acct = at[p].acct
    BY <1>0 DEF Refreshers, PCs
<1> HIDE DEF m
<1>4. /\ On(m, w) \in Refreshers /\ On(m, w).pc = w
      /\ On(m, w).acct \in {at[p].acct, NoCreds} /\ (w # "idle" => On(m, w).acct = at[p].acct)
    BY <1>0, <1>3, OnAccount
<1>5. /\ Moves(p) /\ at'[p].pc = w
      /\ at'[p].acct \in {at[p].acct, NoCreds} /\ (w # "idle" => at'[p].acct = at[p].acct)
    BY <1>1, <1>4, Moved
<1>6. Stored' = Stored
    BY <1>2, SameStored
<1>7. QED
    BY <1>0, <1>2, <1>5, <1>6 DEF Turns, Fixes

LEMMA InvalidateTurns ==
    ASSUME Known, NEW p \in Procs, Invalidate(p), ~skewed'
    PROVE  Turns(p)
<1> USE DEF store, counts, ghosts
<1>1. at' = [at EXCEPT ![p] = Idle] /\ row' = row /\ clock' = clock /\ cache' = None
    BY DEF Invalidate
<1>2. Idle \in Refreshers /\ Idle.pc = "idle" /\ Idle.acct = NoCreds
    BY IdleType DEF Idle
<1>3. Moves(p) /\ at'[p] = Idle
    BY <1>1, <1>2, Moved
<1>4. QED
    BY <1>1, <1>2, <1>3 DEF Turns

\* CheckTokenVersion turns away who has not the stored credentials.
LEMMA CheckVersionTurns ==
    ASSUME Known, NEW p \in Procs, CheckVersion(p), ~skewed'
    PROVE  Turns(p)
<1> USE DEF store, counts, ghosts
<1> DEFINE m == [at[p] EXCEPT !.pc = "fill", !.snap = Stored]
<1>0. at[p] \in Refreshers /\ Stored \in Creds
    BY KnownTypes
<1>1. /\ \/ row.ver > at[p].acct.ver /\ at' = [at EXCEPT ![p] = Idle]
         \/ ~(row.ver > at[p].acct.ver) /\ at' = [at EXCEPT ![p] = m]
      /\ row' = row /\ clock' = clock /\ cache' = cache /\ at[p].pc = "check"
    BY DEF CheckVersion
<1>2. Idle \in Refreshers /\ Idle.pc = "idle" /\ Idle.acct = NoCreds
    BY IdleType DEF Idle
<1>3. m \in Refreshers /\ m.pc = "fill" /\ m.acct = at[p].acct /\ m.snap = Stored
    BY <1>0 DEF Refreshers, PCs
<1> HIDE DEF m
<1>4. Stored' = Stored
    BY <1>1, SameStored
<1>5. CASE row.ver > at[p].acct.ver /\ at' = [at EXCEPT ![p] = Idle]
    <2>1. Moves(p) /\ at'[p] = Idle
        BY <1>2, <1>5, Moved
    <2>2. at[p].acct # Stored
        BY <1>5, VersionFacts
    <2>3. QED
        BY <1>1, <1>2, <2>1, <2>2 DEF Turns, Fixes
<1>6. CASE ~(row.ver > at[p].acct.ver) /\ at' = [at EXCEPT ![p] = m]
    <2>1. Moves(p) /\ at'[p] = m
        BY <1>3, <1>6, Moved
    <2>2. QED
        BY <1>1, <1>3, <1>4, <1>6, <2>1 DEF Turns, Fixes
<1>7. QED
    BY <1>1, <1>5, <1>6

\* What is cached is what is stored.
LEMMA FillCacheTurns ==
    ASSUME Known, Versioned, NEW p \in Procs, FillCache(p), ~skewed'
    PROVE  Turns(p)
<1> USE DEF store, counts, ghosts
<1>1. /\ at' = [at EXCEPT ![p] = Idle] /\ row' = row /\ clock' = clock
      /\ cache' = at[p].acct.gen
      /\ (IF at[p].pc = "fill" THEN at[p].snap ELSE at[p].acct) = Stored
    BY DEF FillCache
<1>2. at[p].acct = Stored
    BY <1>1 DEF Versioned
<1>3. cache' = row.gen
    BY <1>1, <1>2, VersionFacts
<1>4. Idle \in Refreshers /\ Idle.pc = "idle" /\ Idle.acct = NoCreds
    BY IdleType DEF Idle
<1>5. Moves(p) /\ at'[p] = Idle
    BY <1>1, <1>4, Moved
<1>6. QED
    BY <1>1, <1>3, <1>4, <1>5 DEF Turns

\* New credentials are stored, and whoever stored them sets the cache right.
LEMMA PersistTurns ==
    ASSUME Known, Versioned, Fixed, NEW p \in Procs, Persist(p), ~skewed'
    PROVE  Versioned' /\ Fixed'
<1> USE DEF store, counts, ghosts
<1> DEFINE n == clock + 1
           c == [gen |-> at[p].new, ver |-> n]
           w == IF at[p].request \/ grok THEN OnError(at[p]) ELSE "retry"
           v == IF at[p].request THEN "check" ELSE "sync"
           b == [at[p] EXCEPT !.acct = c]
           k == Returns(b, v)
<1>0. at[p] \in Refreshers /\ row \in Rows
    BY KnownTypes
<1>1. /\ at[p].pc = "rotated" /\ cache' = cache
      /\ \/ /\ row' = row /\ clock' = clock
            /\ \/ at' = [at EXCEPT ![p] = Returns(at[p], w)]
               \/ at' = [at EXCEPT ![p] = On(at[p], "missed")]
         \/ /\ row' = [row EXCEPT !.gen = c.gen, !.ver = c.ver, !.due = FALSE] /\ clock' = n
            /\ \/ grok /\ at' = [at EXCEPT ![p] = On(at[p], "stored")]
               \/ ~grok /\ at' = [at EXCEPT ![p] = k]
    BY DEF Persist
<1>2. w \in PCs /\ v \in {"check", "sync"} /\ v \in PCs /\ "missed" \in PCs /\ "stored" \in PCs
    BY DEF OnError, PCs
<1>3. CASE /\ row' = row /\ clock' = clock
           /\ \/ at' = [at EXCEPT ![p] = Returns(at[p], w)]
              \/ at' = [at EXCEPT ![p] = On(at[p], "missed")]
    <2> HIDE DEF w
    <2>1. Turns(p)
        BY <1>1, <1>2, <1>3, OnAside, ReturnsAside DEF Fixing
    <2>2. QED
        BY <2>1, TurnStep
<1>4. CASE /\ row' = [row EXCEPT !.gen = c.gen, !.ver = c.ver, !.due = FALSE] /\ clock' = n
           /\ \/ grok /\ at' = [at EXCEPT ![p] = On(at[p], "stored")]
              \/ ~grok /\ at' = [at EXCEPT ![p] = k]
    <2>1. n \in Nat /\ n > row.ver /\ n # 0
        BY VersionFacts DEF Versioned
    <2>2. row'.gen = at[p].new /\ row'.ver = n /\ Stored' = c
        BY <1>0, <1>4 DEF Rows, Stored
    <2>3. b \in Refreshers /\ b.acct = c
        <3>1. c \in Creds
            BY <1>0, <2>1 DEF Creds, Refreshers
        <3> HIDE DEF c
        <3>2. QED
            BY <1>0, <3>1 DEF Refreshers
    <2>4. k \in Refreshers /\ k.pc = "release" /\ k.then = v /\ k.acct = c
        <3> HIDE DEF b, v, c
        <3>1. QED
            BY <1>2, <2>3, ReturnsAccount
    <2>5. /\ On(at[p], "stored") \in Refreshers /\ On(at[p], "stored").pc = "stored"
          /\ On(at[p], "stored").acct = at[p].acct
        BY <1>0, <1>2, OnAccount
    <2>6. c.ver = n
        OBVIOUS
    <2> HIDE DEF n, c, k, v
    <2>7. /\ Moves(p) /\ at'[p].pc \in {"stored", "release"} /\ at'[p].acct \in {at[p].acct, c}
          /\ at'[p].pc = "release" => at'[p].then = v /\ at'[p].acct = c
        <3>1. CASE at' = [at EXCEPT ![p] = On(at[p], "stored")]
            BY <2>5, <3>1, Moved
        <3>2. CASE at' = [at EXCEPT ![p] = k]
            BY <2>4, <3>2, Moved
        <3>3. QED
            BY <1>4, <3>1, <3>2
    <2>8. Fixes(p)'
        BY <1>2, <2>2, <2>7 DEF Fixes
    <2>9. ASSUME NEW q \in Procs
          PROVE  /\ at'[q].acct.ver <= row'.ver
                 /\ at'[q].acct.ver = row'.ver => at'[q].acct = Stored'
                 /\ at'[q].pc = "fill" => at'[q].snap = at'[q].acct
        <3>1. at[q].acct.ver \in Nat /\ at[q].acct.ver <= row.ver /\ row.ver \in Nat
            BY VersionFacts DEF Versioned
        <3>2. at[q].acct.ver < n
            BY <2>1, <3>1
        <3>3. CASE at'[q].acct = at[q].acct
            BY <2>1, <2>2, <2>7, <3>1, <3>2, <3>3 DEF Versioned, Moves
        <3>4. CASE at'[q].acct = c /\ q = p
            BY <2>1, <2>2, <2>6, <2>7, <3>4
        <3>5. QED
            BY <2>7, <3>3, <3>4 DEF Moves
    <2>10. Versioned'
        BY <1>4, <2>1, <2>2, <2>9 DEF Versioned
    <2>11. QED
        BY <2>8, <2>10 DEF Fixed
<1>5. QED
    BY <1>1, <1>3, <1>4

LEMMA CacheInvInit == ASSUME Init PROVE CacheInv
<1>1. \A p \in Procs : at[p] = Idle
    BY DEF Init
<1>2. row.gen = 0 /\ row.ver = 0 /\ clock = 0 /\ cache = None
    BY DEF Init
<1>3. Idle.acct = Stored /\ Idle.acct.ver = 0 /\ Idle.pc = "idle"
    BY <1>2 DEF Idle, NoCreds, Stored
<1>4. QED
    BY <1>1, <1>2, <1>3 DEF CacheInv, Versioned, Fixed

\* Once the order of the versions is lost, it stays so.
LEMMA CalmBefore ==
    ASSUME Known, [Next]_vars, Calm'
    PROVE  Calm
<1> USE DEF store, counts, ghosts
<1>1. reauths \in Nat /\ (reauths' = reauths \/ Reauthorize)
    <2>1. reauths \in Nat
        BY DEF Known, TypeOK
    <2>2. reauths' = reauths \/ Reauthorize
        <3>1. ASSUME NEW p \in Procs, StartBackground(p) \/ StartRequest(p) \/ ContextEnds(p) \/ Dies(p)
              PROVE  reauths' = reauths
            BY <3>1 DEF StartBackground, StartRequest, ContextEnds, Dies, Fault
        <3>2. ASSUME NEW p \in Procs, Refresher(p) PROVE reauths' = reauths
            BY <3>2 DEF Refresher, AcquireLock, LockHeld, Reread, ProviderRefresh, RefreshFailed, RecoverRace,
               TurnedDown, Persist, ReadBack, ReleaseLock, Retry, MarkError, Invalidate, CheckVersion, FillCache, Fault
        <3>3. CASE ClearError \/ AdminInvalidate \/ TokenExpires \/ CacheExpires \/ LockExpires
            BY <3>3 DEF ClearError, AdminInvalidate, TokenExpires, CacheExpires, LockExpires, Fault
        <3>4. QED
            BY <3>1, <3>2, <3>3 DEF Next, vars
    <2>3. QED
        BY <2>1, <2>2
<1>2. reauths = 0
    BY <1>1 DEF Calm, Reauthorize
<1>3. skewed => skewed'
    <2>1. ASSUME NEW p \in Procs, StartBackground(p) \/ StartRequest(p) \/ ContextEnds(p) \/ Dies(p)
          PROVE  skewed => skewed'
        BY <2>1 DEF StartBackground, StartRequest, ContextEnds, Dies
    <2>2. ASSUME NEW p \in Procs, Refresher(p) PROVE skewed => skewed'
        BY <2>2 DEF Refresher, AcquireLock, LockHeld, Reread, ProviderRefresh, RefreshFailed, RecoverRace,
           TurnedDown, Persist, ReadBack, ReleaseLock, Retry, MarkError, Invalidate, CheckVersion, FillCache
    <2>3. CASE Reauthorize \/ ClearError \/ AdminInvalidate \/ TokenExpires \/ CacheExpires \/ LockExpires
        BY <2>3 DEF Reauthorize, ClearError, AdminInvalidate, TokenExpires, CacheExpires, LockExpires
    <2>4. QED
        BY <2>1, <2>2, <2>3 DEF Next, vars
<1>4. QED
    BY <1>2, <1>3 DEF Calm

\* Steps of the administrator, of time, and of nobody.
LEMMA ElsewhereCached ==
    ASSUME Known, Versioned, Fixed, Elsewhere, ~skewed'
    PROVE  Versioned' /\ Fixed'
<1> USE DEF store, counts, ghosts
<1>1. /\ row'.gen = row.gen /\ row'.ver = row.ver /\ clock' = clock /\ at' = at
      /\ cache' = cache \/ cache' = None
    BY KnownTypes DEF Known, TypeOK, Rows, Elsewhere, ClearError, AdminInvalidate, TokenExpires, CacheExpires,
       LockExpires, vars
<1>2. Stored' = Stored
    BY <1>1, SameStored
<1>3. Versioned'
    BY <1>1, <1>2 DEF Versioned
<1>4. Fixed'
    BY <1>1, <1>2 DEF Fixed, Fixes
<1>5. QED
    BY <1>3, <1>4

LEMMA CacheInvNext == ASSUME Known, CacheInv, [Next]_vars PROVE CacheInv'
<1> SUFFICES ASSUME Calm' PROVE Versioned' /\ Fixed'
    BY DEF CacheInv
<1>1. Versioned /\ Fixed /\ ~skewed'
    BY CalmBefore DEF CacheInv, Calm
<1>2. ASSUME NEW p \in Procs,
             StartBackground(p) \/ StartRequest(p) \/ Refresher(p) \/ ContextEnds(p) \/ Dies(p)
      PROVE  Versioned' /\ Fixed'
    <2>1. CASE Persist(p)
        BY <1>1, <2>1, PersistTurns
    <2>2. ~Dies(p)
        BY <1>1 DEF Dies
    <2>3. CASE ~Persist(p)
        <3>1. Turns(p)
            BY <1>1, <1>2, <2>2, <2>3, AsideTurns, MarkErrorTurns, ReadBackTurns, ReleaseLockTurns,
               InvalidateTurns, CheckVersionTurns, FillCacheTurns DEF Refresher
        <3>2. QED
            BY <1>1, <3>1, TurnStep
    <2>4. QED
        BY <2>1, <2>3
<1>3. CASE Reauthorize
    BY <1>3 DEF Reauthorize, Calm, Known, TypeOK
<1>4. CASE Elsewhere
    BY <1>1, <1>4, ElsewhereCached
<1>5. QED
    BY <1>2, <1>3, <1>4 DEF Next, Elsewhere

(***************************************************************************)
(* The token that requests find in the cache is the stored one, or the     *)
(* refresher that stored a newer one is about to drop or replace it, for   *)
(* any number of refreshers: CheckTokenVersion lets nobody fill the cache  *)
(* with credentials that were replaced.                                    *)
(***************************************************************************)
THEOREM CachedIsStored == Spec => []CacheCurrent
<1>1. Init => CacheInv
    BY CacheInvInit
<1>2. IInv /\ CacheInv /\ [Next]_vars => CacheInv'
    BY CacheInvNext DEF IInv
<1>3. ASSUME IInv, CacheInv PROVE CacheCurrent
    <2>1. reauths \in Nat
        BY <1>3 DEF IInv, Known, TypeOK
    <2>2. ASSUME NEW p \in Procs, Fixes(p)
          PROVE  {at[p].pc, at[p].then} \cap {"stored", "sync", "check", "fill"} # {}
        BY <2>2 DEF Fixes
    <2>3. QED
        BY <1>3, <2>1, <2>2 DEF CacheInv, Calm, Fixed, CacheCurrent
<1>4. IInv /\ CacheInv => CacheCurrent
    BY <1>3
<1>5. QED
    BY <1>1, <1>2, <1>4, Invariant, PTL DEF Spec
=============================================================================
