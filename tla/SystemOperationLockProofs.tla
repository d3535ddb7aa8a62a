--------------------- MODULE SystemOperationLockProofs ---------------------
(***************************************************************************)
(* The operation that inserted the lock's record runs alone and under an   *)
(* unexpired lease, for any number of operations and any timings that      *)
(* satisfy LeaseAssumption.                                                *)
(*                                                                         *)
(* The argument: as long as anybody holds the lock the record exists,      *)
(* because every write of it gives it a TTL from a time at most ClaimMax   *)
(* ago (Kept); so a record is only inserted when nobody holds the lock.    *)
(* From then on the creator's renewals find its ID in the record, and its  *)
(* lease always reaches past the renewals that may still fail (Renewed):   *)
(* nobody finds it claimable.                                              *)
(***************************************************************************)
EXTENDS SystemOperationLock, TLAPS

\* Nobody has read the clock in the future, and the bounds of Tick hold.
Timely ==
    \A o \in Ops :
        /\ op[o].at <= now
        /\ op[o].pc \in Claiming => now <= op[o].at + ClaimMax
        /\ Holds(o) => now <= op[o].at + OpMax

\* An operation about to reclaim a record has read one.
Seen == \A o \in Ops : op[o].pc = "reclaim" => op[o].id # 0

\* While an operation holds the lock, its record, or what others made of it, is
\* far from its expiry.
Kept ==
    \A o \in Ops :
        Holds(o) => Exists(row) /\ op[o].at + TTL <= row.expiresAt + ClaimMax

\* The renewals the goroutine of o may still miss before one has to succeed.
MissesLeft(o) == (MaxMisses - loop[o].missed) * RenewInterval

\* The creator's record is its own, is being renewed, and its lease outlasts the
\* next renewal even if the renewals that may fail in a row all fail.
Renewed ==
    \A o \in Ops :
        creator = o =>
            /\ Holds(o)
            /\ row.id = op[o].id /\ row.fp = o /\ row.status = "processing"
            /\ loop[o].on /\ loop[o].id = row.id
            /\ now + loop[o].due + MissesLeft(o) < row.lockedUntil

LockInv == TypeOK /\ Timely /\ Seen /\ Kept /\ Renewed /\ CreatorAlone

-----------------------------------------------------------------------------
\* One more failed renewal uses up one interval of those left.
LEMMA OneMissLess ==
    ASSUME NEW m \in Nat, NEW k \in Nat, NEW r \in Nat
    PROVE  /\ (m - (k + 1)) * r + r = (m - k) * r
           /\ (m - 0) * r + r = (m + 1) * r
           /\ k <= m => (m - k) * r \in Nat
OBVIOUS

\* The table starts empty, with nobody at work.
LEMMA LockInit == Init => LockInv
<1> SUFFICES ASSUME Init PROVE LockInv
  OBVIOUS
<1>1. NoOp \in OpStates /\ NoLoop \in Loops
  BY LeaseAssumption DEF NoOp, OpStates, NoLoop, Loops
<1>2. TypeOK
  BY <1>1 DEF Init, TypeOK
<1>3. \A o \in Ops : op[o].pc = "idle" /\ op[o].at = 0 /\ now = 0
  BY DEF Init, NoOp
<1>3a. Timely 
  BY LeaseAssumption, <1>3 DEF Timely, Holds, Claiming
<1>3b. Seen /\ Kept /\ CreatorAlone
  BY <1>3 DEF Seen, Kept, CreatorAlone, Holds
<1>4. Renewed
  BY LeaseAssumption DEF Init, Renewed
<1> QED BY <1>2, <1>3a, <1>3b, <1>4 DEF LockInv

-----------------------------------------------------------------------------
\* An operation that neither holds nor takes the lock moves on.
LEMMA QuietStep ==
    ASSUME LockInv, NEW o \in Ops, NEW y \in OpStates,
           ~Holds(o), op' = [op EXCEPT ![o] = y], y.pc # "held",
           y.at <= now, y.pc \in Claiming => now <= y.at + ClaimMax,
           y.pc = "reclaim" => y.id # 0,
           UNCHANGED <<now, row, lastId, loop, creator>>
    PROVE  LockInv'
<1> USE LeaseAssumption DEF LockInv
<1>1. op \in [Ops -> OpStates] /\ op' \in [Ops -> OpStates]
  BY DEF TypeOK
<1>2. op'[o] = y /\ \A q \in Ops \ {o} : op'[q] = op[q]
  BY <1>1
<1>3. TypeOK'
  BY <1>1 DEF TypeOK
<1>4. \A q \in Ops : (Holds(q)' <=> Holds(q)) /\ (Holds(q) => op'[q] = op[q])
  BY <1>2 DEF Holds
<1>5. Timely' /\ Seen'
  BY <1>2, <1>4 DEF Timely, Seen, Holds
<1>6. Kept' /\ CreatorAlone'
  BY <1>4 DEF Kept, CreatorAlone
<1>7. Renewed'
  BY <1>4 DEF Renewed, MissesLeft
<1> QED BY <1>3, <1>5, <1>6, <1>7

\* What the type invariant says of one operation.
LEMMA OpFacts ==
    ASSUME TypeOK, NEW o \in Ops
    PROVE  /\ op[o] \in OpStates /\ op[o].at \in Nat /\ op[o].id \in Nat
           /\ loop[o] \in Loops /\ loop[o].id \in Nat /\ loop[o].on \in BOOLEAN
           /\ loop[o].due \in Nat /\ loop[o].missed \in Nat
           /\ loop[o].due <= RenewInterval /\ loop[o].missed <= MaxMisses
           /\ LockedUntil(o) \in Nat /\ ExpiresAt(o) \in Nat
BY LeaseAssumption DEF TypeOK, OpStates, Loops, LockedUntil, ExpiresAt

\* A record is one of the table's rows, with its fields' types.
LEMMA RowFacts ==
    ASSUME TypeOK, Exists(row)
    PROVE  /\ row \in Rows /\ row.id \in Nat \ {0} /\ row.expiresAt \in Nat
           /\ row.lockedUntil \in Int /\ row.fp \in Ops
BY DEF TypeOK, Exists, NoRow, Rows, Null

\* While a creator runs, nobody else can claim its record, and it is not expired.
LEMMA CreatorSafe ==
    ASSUME LockInv, NEW o \in Ops, creator = o
    PROVE  /\ now < row.lockedUntil /\ Exists(row)
           /\ \A q \in Ops : q # o => ~Holds(q)
           /\ \A q \in Ops : ~Reclaimable(row, op[q].id, op[q].from, op[q].at)
<1>1. Holds(o) /\ Exists(row)
  BY DEF LockInv, Renewed, Kept
<1>2. now + loop[o].due + MissesLeft(o) < row.lockedUntil
  BY DEF LockInv, Renewed
<1>3. MissesLeft(o) \in Nat
  BY LeaseAssumption, OpFacts, OneMissLess DEF LockInv, MissesLeft
<1>4. now < row.lockedUntil
  BY <1>1, <1>2, <1>3, OpFacts, RowFacts DEF LockInv, TypeOK
<1>5. \A q \in Ops : ~(row.lockedUntil <= op[q].at)
  <2> SUFFICES ASSUME NEW q \in Ops PROVE ~(row.lockedUntil <= op[q].at)
    OBVIOUS
  <2>1. op[q].at \in Nat /\ now \in Nat /\ row.lockedUntil \in Int /\ op[q].at <= now
    BY <1>1, OpFacts, RowFacts DEF LockInv, TypeOK, Timely
  <2> QED BY <1>4, <2>1
<1> QED BY <1>1, <1>4, <1>5 DEF LockInv, CreatorAlone, Reclaimable

\* While anybody holds the lock its record is not expired.
LEMMA HeldNotExpired ==
    ASSUME LockInv, NEW o \in Ops, Holds(o)
    PROVE  Exists(row) /\ ~Expired(row, now)
<1>1. Exists(row) /\ op[o].at + TTL <= row.expiresAt + ClaimMax /\ now <= op[o].at + OpMax
  BY DEF LockInv, Kept, Timely
<1>2. row.expiresAt \in Nat /\ op[o].at \in Nat /\ now \in Nat
  BY <1>1, RowFacts, OpFacts DEF LockInv, TypeOK
<1> QED BY <1>1, <1>2, LeaseAssumption DEF Expired

-----------------------------------------------------------------------------
\* The steps of Acquire that take no lock.
LEMMA AcquireStep ==
    ASSUME LockInv, NEW o \in Ops,
           Begin(o) \/ CreateConflict(o) \/ Get(o) \/ StoreFails(o)
    PROVE  LockInv'
<1> USE LeaseAssumption
<1>0. TypeOK /\ now \in Nat /\ op \in [Ops -> OpStates] /\ op[o] \in OpStates
  BY OpFacts DEF LockInv, TypeOK
<1>a. NoOp \in OpStates /\ NoOp.pc = "idle" /\ NoOp.at = 0
  BY DEF NoOp, OpStates
<1>b. op[o].at <= now /\ (op[o].pc \in Claiming => now <= op[o].at + ClaimMax)
  BY DEF LockInv, Timely
<1>c. ASSUME Refused(o), op[o].pc \in Claiming, UNCHANGED <<now, row, lastId, loop, creator>>
      PROVE  LockInv'
  <2>1. op' = [op EXCEPT ![o] = NoOp] /\ ~Holds(o)
    BY <1>c DEF Refused, Holds, Claiming
  <2>2. NoOp.pc # "held" /\ NoOp.pc \notin Claiming /\ NoOp.pc # "reclaim" /\ NoOp.at <= now
    BY <1>0, <1>a DEF Claiming
  <2> QED BY <1>a, <1>c, <2>1, <2>2, QuietStep
<1>1. CASE Begin(o)
  <2> DEFINE y == [NoOp EXCEPT !.pc = "create", !.at = now]
  <2>1. y \in OpStates /\ y.pc = "create" /\ y.at = now
    BY <1>0 DEF NoOp, OpStates, Claiming
  <2>2. ~Holds(o) /\ op' = [op EXCEPT ![o] = y] /\ UNCHANGED <<now, row, lastId, loop, creator>>
    BY <1>1 DEF Begin, Holds
  <2> HIDE DEF y
  <2>3. y.pc # "held" /\ y.pc # "reclaim" /\ y.at <= now /\ now <= y.at + ClaimMax
    BY <1>0, <2>1
  <2> QED BY <2>1, <2>2, <2>3, QuietStep
<1>2. CASE CreateConflict(o)
  <2> DEFINE y == [op[o] EXCEPT !.pc = "get"]
  <2>1. y \in OpStates /\ y.pc = "get" /\ y.at = op[o].at
    BY <1>0 DEF OpStates, Claiming
  <2>2. ~Holds(o) /\ op' = [op EXCEPT ![o] = y] /\ UNCHANGED <<now, row, lastId, loop, creator>>
    BY <1>2 DEF CreateConflict, Holds
  <2>3. op[o].pc \in Claiming
    BY <1>2 DEF CreateConflict, Claiming
  <2> HIDE DEF y
  <2> QED BY <1>b, <2>1, <2>2, <2>3, QuietStep
<1>3. CASE Get(o)
  <2>0. op[o].pc \in Claiming /\ ~Holds(o) /\ UNCHANGED <<now, row, lastId, loop, creator>>
    BY <1>3 DEF Get, Claiming, Holds
  <2>1. CASE Refused(o)
    BY <1>c, <2>0, <2>1
  <2>2. CASE /\ Exists(row)
             /\ op' = [op EXCEPT ![o] = [@ EXCEPT !.pc = "reclaim", !.id = row.id,
                                                         !.from = row.status]]
    <3> DEFINE y == [op[o] EXCEPT !.pc = "reclaim", !.id = row.id, !.from = row.status]
    <3>1. row \in Rows /\ row.id # 0
      BY <1>0, <2>2, RowFacts
    <3>2. y \in OpStates /\ y.pc = "reclaim" /\ y.at = op[o].at /\ y.id # 0
      BY <1>0, <3>1 DEF OpStates, Rows, Claiming
    <3>3. op' = [op EXCEPT ![o] = y]
      BY <2>2
    <3> HIDE DEF y
    <3> QED BY <1>b, <2>0, <3>2, <3>3, QuietStep
  <2> QED BY <1>3, <2>1, <2>2 DEF Get
<1>4. CASE StoreFails(o)
  BY <1>4, <1>c DEF StoreFails
<1> QED BY <1>1, <1>2, <1>3, <1>4

\* The lock is granted to o, with record i, while nobody else is a creator.
LEMMA GrantStep ==
    ASSUME LockInv, NEW o \in Ops, NEW i \in Nat \ {0}, Granted(o, i), op[o].pc \in Claiming,
           now' = now, lastId' \in Nat, row' \in Rows, row'.expiresAt = ExpiresAt(o),
           \/ creator' = creator /\ creator = Null
           \/ /\ creator' = o /\ \A q \in Ops : ~Holds(q)
              /\ row'.id = i /\ row'.fp = o /\ row'.status = "processing"
              /\ row'.lockedUntil = LockedUntil(o)
    PROVE  LockInv'
<1> USE LeaseAssumption
<1>0. /\ TypeOK /\ now \in Nat /\ op \in [Ops -> OpStates] /\ loop \in [Ops -> Loops]
      /\ op[o] \in OpStates /\ op[o].at \in Nat
  BY OpFacts DEF LockInv, TypeOK
<1> DEFINE y == [op[o] EXCEPT !.pc = "held", !.id = i]
           z == [on |-> TRUE, id |-> i, due |-> RenewInterval, missed |-> 0]
<1>1. y \in OpStates /\ y.pc = "held" /\ y.at = op[o].at /\ y.id = i
  BY <1>0 DEF OpStates, Claiming
<1>2. z \in Loops /\ z.on /\ z.id = i /\ z.due = RenewInterval /\ z.missed = 0
  BY DEF Loops
<1>3. op' = [op EXCEPT ![o] = y] /\ loop' = [loop EXCEPT ![o] = z]
  BY <1>0 DEF Granted
<1> HIDE DEF y, z
<1>4. /\ op'[o] = y /\ \A q \in Ops \ {o} : op'[q] = op[q]
      /\ loop'[o] = z /\ \A q \in Ops \ {o} : loop'[q] = loop[q]
  BY <1>0, <1>3
<1>5. now <= op[o].at + ClaimMax /\ \A q \in Ops : op[q].at <= now
  BY DEF LockInv, Timely
<1>6. TypeOK'
  BY <1>0, <1>1, <1>2, <1>3 DEF TypeOK
<1>7. Timely'
  BY <1>0, <1>1, <1>4, <1>5 DEF LockInv, Timely, Holds, Claiming
<1>8. Seen'
  BY <1>1, <1>4 DEF LockInv, Seen
<1>9. Kept'
  <2> SUFFICES ASSUME NEW q \in Ops, Holds(q)'
               PROVE  Exists(row') /\ op'[q].at + TTL <= row'.expiresAt + ClaimMax
    BY DEF Kept
  <2>1. op'[q].at = op[q].at /\ op[q].at \in Nat /\ op[q].at <= now
    BY <1>0, <1>1, <1>4, <1>5, OpFacts
  <2> QED BY <1>0, <1>5, <2>1 DEF ExpiresAt, Exists, Rows
<1>10. CreatorAlone'
  BY <1>4 DEF CreatorAlone, Holds
<1>11. Renewed'
  <2> SUFFICES ASSUME creator' = o
               PROVE  /\ Holds(o)' /\ row'.id = op'[o].id /\ row'.fp = o
                      /\ row'.status = "processing" /\ loop'[o].on /\ loop'[o].id = row'.id
                      /\ now' + loop'[o].due + MissesLeft(o)' < row'.lockedUntil
    BY DEF Renewed
  <2>1. MissesLeft(o)' = (MaxMisses - 0) * RenewInterval
    BY <1>2, <1>4 DEF MissesLeft
  <2>2. MissesLeft(o)' + RenewInterval = (MaxMisses + 1) * RenewInterval /\ MissesLeft(o)' \in Nat
    BY <2>1, OneMissLess
  <2>3. (MaxMisses + 1) * RenewInterval \in Nat
    OBVIOUS
  <2>4. now' + loop'[o].due + MissesLeft(o)' < row'.lockedUntil
    BY <1>0, <1>2, <1>4, <1>5, <2>2, <2>3 DEF LockedUntil
  <2>5. creator # o
    BY <1>0 DEF LockInv, Renewed, Holds, Claiming
  <2> QED BY <1>1, <1>2, <1>4, <2>4, <2>5 DEF Holds
<1> QED BY <1>6, <1>7, <1>8, <1>9, <1>10, <1>11 DEF LockInv

\* CreateProcessing inserts only when nobody holds the lock.
LEMMA CreateStep ==
    ASSUME LockInv, NEW o \in Ops, CreateProcessing(o) PROVE LockInv'
<1>0. TypeOK /\ lastId \in Nat /\ LockedUntil(o) \in Nat /\ ExpiresAt(o) \in Nat
  BY OpFacts DEF LockInv, TypeOK
<1>1. \A q \in Ops : ~Holds(q)
  BY DEF CreateProcessing, LockInv, Kept
<1>2. /\ row' \in Rows /\ row'.id = lastId + 1 /\ row'.fp = o /\ row'.status = "processing"
      /\ row'.lockedUntil = LockedUntil(o) /\ row'.expiresAt = ExpiresAt(o)
  BY <1>0 DEF CreateProcessing, Processing, Rows
<1>3. /\ lastId + 1 \in Nat \ {0} /\ lastId' \in Nat /\ now' = now /\ creator' = o
      /\ Granted(o, lastId + 1) /\ op[o].pc \in Claiming
  BY <1>0 DEF CreateProcessing, Claiming
<1> QED BY <1>1, <1>2, <1>3, GrantStep

\* TryReclaim succeeds only when no creator runs.
LEMMA ReclaimStep ==
    ASSUME LockInv, NEW o \in Ops, Reclaim(o) PROVE LockInv'
<1>0. /\ TypeOK /\ lastId \in Nat /\ LockedUntil(o) \in Nat /\ ExpiresAt(o) \in Nat
      /\ op[o].pc = "reclaim" /\ op[o].id \in Nat \ {0}
  BY OpFacts DEF LockInv, TypeOK, Seen, Reclaim
<1>1. CASE Reclaimable(row, op[o].id, op[o].from, op[o].at)
  <2>1. creator = Null
    BY <1>1, CreatorSafe DEF LockInv, TypeOK
  <2>2. row \in Rows
    BY <1>0, <1>1, RowFacts DEF Reclaimable, Exists
  <2>3. row' \in Rows /\ row'.expiresAt = ExpiresAt(o)
    BY <1>0, <1>1, <2>2 DEF Reclaim, Reclaimed, Rows, Null
  <2>4. now' = now /\ lastId' \in Nat /\ creator' = creator /\ Granted(o, op[o].id)
    BY <1>0, <1>1 DEF Reclaim
  <2> QED BY <1>0, <2>1, <2>3, <2>4, GrantStep DEF Claiming
<1>2. CASE ~Reclaimable(row, op[o].id, op[o].from, op[o].at)
  <2>1. op' = [op EXCEPT ![o] = NoOp] /\ UNCHANGED <<now, row, lastId, loop, creator>> /\ ~Holds(o)
    BY <1>0, <1>2 DEF Reclaim, Refused, Holds
  <2>2. NoOp \in OpStates /\ NoOp.pc = "idle" /\ NoOp.at <= now
    BY DEF NoOp, OpStates, LockInv, TypeOK
  <2> QED BY <2>1, <2>2, QuietStep DEF Claiming
<1> QED BY <1>1, <1>2

\* The record is renewed or a goroutine ends: operations stay where they are.
\* The goroutine of the creator goes on, with its lease still long enough.
LEMMA LoopStep ==
    ASSUME LockInv, NEW o \in Ops, NEW z \in Loops, loop' = [loop EXCEPT ![o] = z],
           UNCHANGED <<now, lastId, op, creator>>, row' \in Rows \cup {NoRow},
           \/ row' = row
           \/ /\ Exists(row') /\ row'.expiresAt = now + TTL
              /\ \A q \in Ops : creator = q => q = o,
           creator = o => /\ z.on /\ z.id = row'.id
                          /\ row'.id = row.id /\ row'.fp = row.fp /\ row'.status = row.status
                          /\ now + z.due + (MaxMisses - z.missed) * RenewInterval < row'.lockedUntil
    PROVE  LockInv'
<1> USE LeaseAssumption
<1>0. /\ TypeOK /\ now \in Nat /\ op \in [Ops -> OpStates] /\ loop \in [Ops -> Loops]
  BY DEF LockInv, TypeOK
<1>1. loop'[o] = z /\ \A q \in Ops \ {o} : loop'[q] = loop[q]
  BY <1>0
<1>2. TypeOK' /\ Timely' /\ Seen' /\ CreatorAlone'
  <2>1. TypeOK'
    BY <1>0 DEF TypeOK
  <2> QED BY <2>1 DEF LockInv, Timely, Seen, CreatorAlone, Holds
<1>3. Kept'
  <2> SUFFICES ASSUME NEW q \in Ops, Holds(q)
               PROVE  Exists(row') /\ op[q].at + TTL <= row'.expiresAt + ClaimMax
    BY DEF Kept, Holds
  <2>1. op[q].at \in Nat /\ op[q].at <= now
    BY OpFacts DEF LockInv, Timely
  <2> QED BY <1>0, <2>1 DEF LockInv, Kept
<1>4. Renewed'
  BY <1>1 DEF LockInv, Renewed, MissesLeft, Holds
<1> QED BY <1>2, <1>3, <1>4 DEF LockInv

\* A renewal, or one that fails.
LEMMA RenewStep ==
    ASSUME LockInv, NEW o \in Ops, Renew(o) \/ RenewFails(o) PROVE LockInv'
<1> USE LeaseAssumption
<1>0. /\ TypeOK /\ now \in Nat /\ loop[o] \in Loops /\ loop[o].on /\ loop[o].due = 0
      /\ loop[o].missed \in Nat /\ loop \in [Ops -> Loops]
      /\ row \in Rows \cup {NoRow} /\ UNCHANGED <<now, lastId, op, creator>>
  BY OpFacts DEF LockInv, TypeOK, Renew, RenewFails
<1>a. NoLoop \in Loops
  BY DEF NoLoop, Loops
<1>b. creator = o => /\ Holds(o) /\ row.fp = o /\ row.status = "processing" /\ loop[o].id = row.id
                     /\ now + loop[o].due + MissesLeft(o) < row.lockedUntil
  BY DEF LockInv, Renewed
<1> DEFINE Armed(m) == [loop[o] EXCEPT !.due = RenewInterval, !.missed = m]
<1>c. ASSUME NEW m \in Nat, m <= MaxMisses
      PROVE  /\ Armed(m) \in Loops /\ Armed(m).on /\ Armed(m).id = loop[o].id
             /\ Armed(m).due = RenewInterval /\ Armed(m).missed = m
  <2>1. RenewInterval \in 0..RenewInterval /\ m \in 0..MaxMisses
    BY <1>c
  <2> QED BY <1>0, <2>1 DEF Loops
<1>d. ASSUME NEW m, Rearmed(o, m)
      PROVE  \/ Holds(o) /\ loop' = [loop EXCEPT ![o] = Armed(m)]
             \/ ~Holds(o) /\ loop' = [loop EXCEPT ![o] = NoLoop]
  BY <1>d DEF Rearmed
<1> HIDE DEF Armed
<1>1. CASE RenewFails(o)
  <2>1. Rearmed(o, loop[o].missed + 1) /\ row' = row /\ loop[o].missed < MaxMisses
    BY <1>1 DEF RenewFails
  <2>2. loop[o].missed + 1 \in Nat /\ loop[o].missed + 1 <= MaxMisses
    BY <1>0, <2>1
  <2>3. CASE Holds(o) /\ loop' = [loop EXCEPT ![o] = Armed(loop[o].missed + 1)]
    <3>1. creator = o => now + RenewInterval + (MaxMisses - (loop[o].missed + 1)) * RenewInterval < row.lockedUntil
      <4>1. (MaxMisses - (loop[o].missed + 1)) * RenewInterval + RenewInterval = MissesLeft(o)
        BY <1>0, OneMissLess DEF MissesLeft
      <4>2. (MaxMisses - (loop[o].missed + 1)) * RenewInterval \in Nat
        BY <2>2, OneMissLess
      <4> QED BY <1>0, <1>b, <4>1, <4>2
    <3>2. row' \in Rows \cup {NoRow} /\ (creator = o => row'.lockedUntil = row.lockedUntil)
      BY <1>0, <2>1
    <3> QED BY <1>0, <1>b, <1>c, <2>1, <2>2, <2>3, <3>1, <3>2, LoopStep
  <2>4. CASE ~Holds(o) /\ loop' = [loop EXCEPT ![o] = NoLoop]
    BY <1>0, <1>a, <1>b, <2>1, <2>4, LoopStep
  <2> QED BY <1>d, <2>1, <2>3, <2>4
<1>2. CASE Renew(o) /\ Extendable(row, loop[o].id, o)
  <2>1. Rearmed(o, 0) /\ row' = Extended(row, now + Lease, now + TTL)
    BY <1>2 DEF Renew
  <2>2. row \in Rows /\ row.fp = o
    BY <1>0, <1>2 DEF Extendable, NoRow
  <2>3. /\ row' \in Rows /\ row'.expiresAt = now + TTL /\ row'.lockedUntil = now + Lease
        /\ row'.id = row.id /\ row'.fp = row.fp /\ row'.status = row.status
    <3>1. now + Lease \in Nat /\ now + TTL \in Nat
      BY <1>0
    <3> QED BY <2>1, <2>2, <3>1 DEF Extended, Rows, Null
  <2>4. Exists(row') /\ \A q \in Ops : creator = q => q = o
    BY <2>2, <2>3 DEF LockInv, Renewed, Exists, Rows
  <2>5. now + RenewInterval + (MaxMisses - 0) * RenewInterval < row'.lockedUntil
    <3>1. (MaxMisses - 0) * RenewInterval + RenewInterval = (MaxMisses + 1) * RenewInterval
          /\ (MaxMisses - 0) * RenewInterval \in Nat
      BY OneMissLess
    <3>2. (MaxMisses + 1) * RenewInterval \in Nat
      OBVIOUS
    <3> QED BY <1>0, <2>3, <3>1, <3>2
  <2>6. CASE Holds(o) /\ loop' = [loop EXCEPT ![o] = Armed(0)]
    <3>1. Armed(0) \in Loops /\ Armed(0).on /\ Armed(0).id = loop[o].id
          /\ Armed(0).due = RenewInterval /\ Armed(0).missed = 0
      BY <1>c
    <3> QED BY <1>0, <1>b, <2>3, <2>4, <2>5, <2>6, <3>1, LoopStep
  <2>7. CASE ~Holds(o) /\ loop' = [loop EXCEPT ![o] = NoLoop]
    BY <1>0, <1>a, <1>b, <2>3, <2>4, <2>7, LoopStep
  <2> QED BY <1>d, <2>1, <2>6, <2>7
<1>3. CASE Renew(o) /\ ~Extendable(row, loop[o].id, o)
  <2>1. loop' = [loop EXCEPT ![o] = NoLoop] /\ row' = row /\ creator # o
    BY <1>3, <1>b DEF Renew, Extendable
  <2> QED BY <1>0, <1>a, <2>1, LoopStep
<1> QED BY <1>1, <1>2, <1>3

\* An operation that held the lock, or was claiming it, is gone, its goroutine
\* with it or about to be; the record is marked or left.
LEMMA StopStep ==
    ASSUME LockInv, NEW o \in Ops, Stopped(o), now' = now, lastId' = lastId,
           row' \in Rows \cup {NoRow},
           row' = row \/ (Holds(o) /\ Exists(row') /\ row'.expiresAt \in {row.expiresAt, now + TTL})
    PROVE  LockInv'
<1> USE LeaseAssumption
<1>0. /\ TypeOK /\ now \in Nat /\ op \in [Ops -> OpStates] /\ loop \in [Ops -> Loops]
      /\ creator \in Ops \cup {Null}
  BY DEF LockInv, TypeOK
<1>1. NoOp \in OpStates /\ NoOp.pc = "idle" /\ NoOp.at = 0 /\ NoLoop \in Loops
  BY DEF NoOp, OpStates, NoLoop, Loops
<1>2. op' = [op EXCEPT ![o] = NoOp]
  BY DEF Stopped
<1>3. op'[o] = NoOp /\ \A q \in Ops \ {o} : op'[q] = op[q]
  BY <1>0, <1>2
<1>4. \A q \in Ops : Holds(q)' => Holds(q) /\ q # o /\ op'[q] = op[q]
  BY <1>1, <1>3 DEF Holds
<1>5. loop' \in [Ops -> Loops] /\ \A q \in Ops \ {o} : loop'[q] = loop[q]
  BY <1>0, <1>1 DEF Stopped
<1>6. creator' \in Ops \cup {Null} /\ creator' # o /\ (creator' = creator \/ creator' = Null)
  BY <1>0 DEF Stopped
<1>7. TypeOK'
  BY <1>0, <1>1, <1>2, <1>5, <1>6 DEF TypeOK
<1>8. Timely'
  <2> SUFFICES ASSUME NEW q \in Ops
               PROVE  /\ op'[q].at <= now
                      /\ op'[q].pc \in Claiming => now <= op'[q].at + ClaimMax
                      /\ op'[q].pc = "held" => now <= op'[q].at + OpMax
    BY DEF Timely, Holds
  <2>1. CASE q = o
    BY <1>0, <1>1, <1>3, <2>1 DEF Claiming
  <2>2. CASE q # o
    BY <1>3, <2>2 DEF LockInv, Timely, Holds
  <2> QED BY <2>1, <2>2
<1>9. Seen'
  BY <1>1, <1>3 DEF LockInv, Seen
<1>10. Kept'
  <2> SUFFICES ASSUME NEW q \in Ops, Holds(q)'
               PROVE  Exists(row') /\ op'[q].at + TTL <= row'.expiresAt + ClaimMax
    BY DEF Kept
  <2>1. Holds(q) /\ op'[q] = op[q]
    BY <1>4
  <2>2. op[q].at \in Nat /\ op[q].at <= now /\ Exists(row) /\ op[q].at + TTL <= row.expiresAt + ClaimMax
    BY <1>0, <2>1, OpFacts DEF LockInv, Timely, Kept
  <2> QED BY <1>0, <2>1, <2>2
<1>11. CreatorAlone'
  BY <1>4, <1>6 DEF LockInv, CreatorAlone
<1>12. Renewed'
  <2> SUFFICES ASSUME NEW q \in Ops, creator' = q
               PROVE  /\ Holds(q)' /\ row'.id = op'[q].id /\ row'.fp = q
                      /\ row'.status = "processing" /\ loop'[q].on /\ loop'[q].id = row'.id
                      /\ now' + loop'[q].due + MissesLeft(q)' < row'.lockedUntil
    BY DEF Renewed
  <2>1. creator = q /\ q # o
    BY <1>6
  <2>2. row' = row
    BY <2>1, CreatorSafe
  <2> QED BY <1>3, <1>5, <2>1, <2>2 DEF LockInv, Renewed, Holds, MissesLeft
<1> QED BY <1>7, <1>8, <1>9, <1>10, <1>11, <1>12 DEF LockInv

\* Release and a crash.
LEMMA EndStep ==
    ASSUME LockInv, NEW o \in Ops, Release(o) \/ Crash(o) PROVE LockInv'
<1> USE LeaseAssumption
<1>0. TypeOK /\ now \in Nat /\ row \in Rows \cup {NoRow} /\ op[o].id \in Nat
  BY OpFacts DEF LockInv, TypeOK
<1>1. CASE Crash(o)
  <2>1. row' = row /\ now' = now /\ lastId' = lastId /\ Stopped(o)
    BY <1>1 DEF Crash
  <2>2. row' \in Rows \cup {NoRow}
    BY <1>0, <2>1
  <2> QED BY <2>1, <2>2, StopStep
<1>2. CASE Release(o)
  <2>1. Holds(o) /\ now' = now /\ lastId' = lastId /\ Stopped(o)
    BY <1>2 DEF Release
  <2>2. row \in Rows /\ now + TTL \in Nat
    BY <1>0, <2>1, RowFacts DEF LockInv, Kept
  <2>3. row' \in Rows /\ row'.expiresAt \in {row.expiresAt, now + TTL} /\ row'.id = row.id
    <3>1. CASE row' = row
      BY <2>2, <3>1
    <3>2. CASE row' = Succeeded(row, op[o].id, now + TTL)
      BY <1>0, <2>2, <3>2 DEF Succeeded, Rows, Null
    <3>3. CASE row' = FailedRetryable(row, op[o].id, now, now + TTL)
      BY <1>0, <2>2, <3>3 DEF FailedRetryable, Rows, Null
    <3> QED BY <1>2, <3>1, <3>2, <3>3 DEF Release
  <2>4. Exists(row')
    BY <2>1, <2>3 DEF LockInv, Kept, Exists
  <2> QED BY <2>1, <2>3, <2>4, StopStep
<1> QED BY <1>1, <1>2

\* The cleanup deletes an expired record: then nobody holds the lock.
LEMMA DeleteStep ==
    ASSUME LockInv, DeleteExpired PROVE LockInv'
<1>1. \A q \in Ops : ~Holds(q)
  BY HeldNotExpired DEF DeleteExpired
<1>2. \A q \in Ops : creator # q
  BY <1>1 DEF LockInv, Renewed
<1>3. TypeOK'
  BY DEF DeleteExpired, LockInv, TypeOK
<1>4. Timely' /\ Seen' /\ CreatorAlone'
  BY DEF DeleteExpired, LockInv, Timely, Seen, CreatorAlone, Holds
<1>5. Kept' /\ Renewed'
  BY <1>1, <1>2 DEF DeleteExpired, Kept, Renewed, Holds
<1> QED BY <1>3, <1>4, <1>5 DEF LockInv

\* Time passes within the bounds, and every goroutine is nearer to its renewal.
LEMMA TickStep ==
    ASSUME LockInv, Tick PROVE LockInv'
<1> USE LeaseAssumption
<1>0. /\ TypeOK /\ now \in Nat /\ loop \in [Ops -> Loops] /\ now' = now + 1
      /\ UNCHANGED <<row, lastId, op, creator>>
  BY DEF LockInv, TypeOK, Tick
<1>1. ASSUME NEW q \in Ops
      PROVE  /\ loop'[q] \in Loops /\ loop'[q].on = loop[q].on /\ loop'[q].id = loop[q].id
             /\ loop'[q].missed = loop[q].missed
             /\ loop[q].on => loop'[q].due + 1 = loop[q].due
  <2>1. loop'[q] = IF loop[q].on THEN [loop[q] EXCEPT !.due = @ - 1] ELSE loop[q]
    BY DEF Tick
  <2>2. loop[q] \in Loops /\ (loop[q].on => loop[q].due > 0)
    BY <1>0 DEF Tick
  <2> QED BY <2>1, <2>2 DEF Loops
<1>2. loop' = [q \in Ops |-> loop'[q]]
  BY DEF Tick
<1>3. TypeOK'
  <2>1. loop' \in [Ops -> Loops]
    BY <1>1, <1>2
  <2> QED BY <1>0, <2>1 DEF TypeOK
<1>4. Timely'
  <2> SUFFICES ASSUME NEW q \in Ops
               PROVE  /\ op[q].at <= now + 1
                      /\ op[q].pc \in Claiming => now + 1 <= op[q].at + ClaimMax
                      /\ op[q].pc = "held" => now + 1 <= op[q].at + OpMax
    BY <1>0 DEF Timely, Holds
  <2>1. op[q].at \in Nat /\ op[q].at <= now
    BY <1>0, OpFacts DEF LockInv, Timely
  <2> QED BY <1>0, <2>1 DEF Tick, Holds
<1>5. Seen' /\ Kept' /\ CreatorAlone'
  BY <1>0 DEF LockInv, Seen, Kept, CreatorAlone, Holds
<1>6. Renewed'
  <2> SUFFICES ASSUME NEW q \in Ops, creator = q
               PROVE  /\ Holds(q) /\ row.id = op[q].id /\ row.fp = q
                      /\ row.status = "processing" /\ loop'[q].on /\ loop'[q].id = row.id
                      /\ now' + loop'[q].due + MissesLeft(q)' < row.lockedUntil
    BY <1>0 DEF Renewed, Holds
  <2>1. MissesLeft(q)' = MissesLeft(q)
    BY <1>1 DEF MissesLeft
  <2>2. loop[q].on /\ now + loop[q].due + MissesLeft(q) < row.lockedUntil
    BY DEF LockInv, Renewed
  <2>3. loop'[q].due \in Nat /\ loop[q].due \in Nat
    BY <1>1, OpFacts, <1>0 DEF Loops
  <2>4. now' + loop'[q].due = now + loop[q].due
    <3>1. loop'[q].due + 1 = loop[q].due
      BY <1>1, <2>2
    <3>2. now' = now + 1 /\ now \in Nat
      BY <1>0
    <3> QED BY <2>3, <3>1, <3>2
  <2> QED BY <1>1, <2>1, <2>2, <2>4 DEF LockInv, Renewed
<1> QED BY <1>3, <1>4, <1>5, <1>6 DEF LockInv

-----------------------------------------------------------------------------
\* Every step keeps the invariant.
LEMMA LockStep == LockInv /\ [Next]_vars => LockInv'
<1> SUFFICES ASSUME LockInv, [Next]_vars PROVE LockInv'
  OBVIOUS
<1>1. ASSUME NEW o \in Ops, Step(o) PROVE LockInv'
  BY <1>1, AcquireStep, CreateStep, ReclaimStep, RenewStep, EndStep DEF Step
<1>2. CASE DeleteExpired
  BY <1>2, DeleteStep
<1>3. CASE Tick
  BY <1>3, TickStep
<1>4. CASE UNCHANGED vars
  BY <1>4 DEF vars, LockInv, TypeOK, Timely, Seen, Kept, Renewed, CreatorAlone, Holds, MissesLeft
<1> QED BY <1>1, <1>2, <1>3, <1>4 DEF Next

\* LockInv is an invariant of the lock.
THEOREM LockInvariant == Spec => []LockInv
<1> QED BY LockInit, LockStep, PTL DEF Spec

\* The operation that inserted the record is alone while it runs (Acquire,
\* renewLoop and Release), for any number of operations and any timings.
THEOREM CreatorExcludes == Spec => []CreatorAlone
<1>1. LockInv => CreatorAlone
  BY DEF LockInv
<1> QED BY <1>1, LockInvariant, PTL

\* Its record stays its own, in processing and under an unexpired lease, however
\* renewals fail within the bound that the lease allows for.
THEOREM CreatorKeepsLease == Spec => []CreatorLeased
<1>1. LockInv => CreatorLeased
  BY CreatorSafe DEF LockInv, Renewed, CreatorLeased
<1> QED BY <1>1, LockInvariant, PTL
=============================================================================
