------------------------ MODULE WorkspaceLock_proofs ------------------------
(***************************************************************************)
(* Theorems about WorkspaceLock, for any number of sessions and processes. *)
(***************************************************************************)
EXTENDS WorkspaceLock, TLAPS

USE SessionAssumption DEF Location, LockRecord, Torn

(* Each action keeps the types.                                            *)
LEMMA TypeStep == TypeOK /\ [Next]_vars => TypeOK'
<1> SUFFICES ASSUME TypeOK, [Next]_vars PROVE TypeOK'
  OBVIOUS
<1> USE DEF TypeOK, Go, Lock, Unlock
<1>1. ASSUME NEW s \in Session, AcquireRead(s) PROVE TypeOK'
  BY <1>1 DEF AcquireRead
<1>2. ASSUME NEW s \in Session, AcquireTruncate(s) PROVE TypeOK'
  BY <1>2 DEF AcquireTruncate
<1>3. ASSUME NEW s \in Session, AcquireFill(s) PROVE TypeOK'
  BY <1>3 DEF AcquireFill
<1>4. ASSUME NEW s \in Session, ReleaseRead(s) PROVE TypeOK'
  BY <1>4 DEF ReleaseRead
<1>5. ASSUME NEW s \in Session, ReleaseUnlink(s) PROVE TypeOK'
  BY <1>5 DEF ReleaseUnlink
<1>6. ASSUME NEW s \in Session, CheckLocked(s) PROVE TypeOK'
  BY <1>6 DEF CheckLocked
<1>7. ASSUME NEW s \in Session, Land(s) PROVE TypeOK'
  BY <1>7 DEF Land
<1>8. CASE GoStale
  BY <1>8 DEF GoStale
<1>9. ASSUME NEW p \in Proc, Crash(p) PROVE TypeOK'
  BY <1>9 DEF Crash
<1>10. CASE UNCHANGED vars
  BY <1>10 DEF vars
<1>11. QED
  BY <1>1, <1>2, <1>3, <1>4, <1>5, <1>6, <1>7, <1>8, <1>9, <1>10 DEF Next

(* The state of lock.py and of the sessions that use it keeps its type.    *)
THEOREM TypeCorrect == Spec => []TypeOK
<1>1. Init => TypeOK
  BY DEF Init, TypeOK
<1>2. QED
  BY <1>1, TypeStep, PTL DEF Spec

-----------------------------------------------------------------------------
(***************************************************************************)
(* A record whose process is alive was written by a session that is still  *)
(* open: a session does not close with its record on disk, because release *)
(* unlinks it, and only a fill writes one.                                 *)
(***************************************************************************)
RecordHasOpenSession ==
  (lock \in LockRecord /\ lock.pid \in alive) =>
    \E t \in Session :
      /\ ProcOf[t] = lock.pid
      /\ OwnerOf[t] = lock.owner
      /\ pc[t] # "closed"

OrphanInv == TypeOK /\ RecordHasOpenSession

(* No action leaves a record of a live process without an open session.    *)
LEMMA OrphanInvInductive == OrphanInv /\ [Next]_vars => OrphanInv'
<1> SUFFICES ASSUME OrphanInv, [Next]_vars PROVE RecordHasOpenSession'
  BY TypeStep DEF OrphanInv
<1> USE DEF OrphanInv, TypeOK, RecordHasOpenSession, Go, Lock, Unlock
<1>1. ASSUME NEW s \in Session, AcquireRead(s) PROVE RecordHasOpenSession'
  BY <1>1 DEF AcquireRead
<1>2. ASSUME NEW s \in Session, AcquireTruncate(s) PROVE RecordHasOpenSession'
  BY <1>2 DEF AcquireTruncate
<1>3. ASSUME NEW s \in Session, AcquireFill(s) PROVE RecordHasOpenSession'
  BY <1>3 DEF AcquireFill
<1>4. ASSUME NEW s \in Session, ReleaseRead(s) PROVE RecordHasOpenSession'
  BY <1>4 DEF ReleaseRead, ReadLock
<1>5. ASSUME NEW s \in Session, ReleaseUnlink(s) PROVE RecordHasOpenSession'
  BY <1>5 DEF ReleaseUnlink
<1>6. ASSUME NEW s \in Session, CheckLocked(s) PROVE RecordHasOpenSession'
  BY <1>6 DEF CheckLocked
<1>7. ASSUME NEW s \in Session, Land(s) PROVE RecordHasOpenSession'
  BY <1>7 DEF Land
<1>8. CASE GoStale
  BY <1>8 DEF GoStale
<1>9. ASSUME NEW p \in Proc, Crash(p) PROVE RecordHasOpenSession'
  BY <1>9 DEF Crash
<1>10. CASE UNCHANGED vars
  BY <1>10 DEF vars
<1>11. QED
  BY <1>1, <1>2, <1>3, <1>4, <1>5, <1>6, <1>7, <1>8, <1>9, <1>10 DEF Next

(***************************************************************************)
(* Whatever the sessions, the processes and the owner names: a session is  *)
(* refused the workspace only for the sake of one that is open and alive.  *)
(***************************************************************************)
THEOREM RefusalIsJustified == Spec => []RefusedOnlyByOpenSession
<1>1. Init => OrphanInv
  BY DEF Init, OrphanInv, TypeOK, RecordHasOpenSession
<1>2. OrphanInv => RefusedOnlyByOpenSession
  BY DEF OrphanInv, TypeOK, RecordHasOpenSession, RefusedOnlyByOpenSession,
         HeldAgainst, ReadLock, Stale
<1>3. QED
  BY <1>1, <1>2, OrphanInvInductive, PTL DEF Spec

-----------------------------------------------------------------------------
(***************************************************************************)
(* Within one daemon.  The threading.Lock is held by whoever is inside     *)
(* acquire or release, and nobody is inside while another session holds    *)
(* the workspace lock: that is what keeps a takeover out.                  *)
(***************************************************************************)
Inside == {"acquiring", "filling", "releasing"}

DaemonInv ==
  /\ TypeOK
  /\ HolderOnDisk
  /\ holder # None => pc[holder] # "closed" /\ ProcOf[holder] \in alive
  /\ \A s \in Session :
        pc[s] \in Inside => mutex[ProcOf[s]] = s /\ holder \in {None, s}

\* What the file holds while a session holds the lock and is not rewriting it.
LEMMA HeldRecord ==
  ASSUME DaemonInv, holder # None, lock # Torn
  PROVE  /\ lock # None
         /\ lock.owner = OwnerOf[holder]
         /\ ~Stale(lock)
<1>1. lock = [owner |-> OwnerOf[holder], pid |-> ProcOf[holder], fresh |-> TRUE]
  BY DEF DaemonInv, HolderOnDisk
<1>2. OwnerOf[holder] \in Owner /\ ProcOf[holder] \in Proc /\ ProcOf[holder] \in alive
  BY DEF DaemonInv, TypeOK
<1>3. lock \in LockRecord
  BY <1>1, <1>2
<1>4. lock # None
  BY <1>3
<1>5. lock.owner = OwnerOf[holder] /\ lock.pid \in alive /\ lock.fresh
  BY <1>1, <1>2
<1>6. QED
  BY <1>4, <1>5 DEF Stale

(* Within one daemon each action keeps the mutex, the file and the last    *)
(* acquire consistent.                                                     *)
LEMMA DaemonInvInductive ==
  ASSUME OneDaemon PROVE DaemonInv /\ [Next]_vars => DaemonInv'
<1> SUFFICES ASSUME DaemonInv, [Next]_vars PROVE DaemonInv'
  OBVIOUS
<1>0. TypeOK'
  BY TypeStep DEF DaemonInv
<1> USE <1>0, OneDaemon
    DEF OneDaemon, DaemonInv, TypeOK, HolderOnDisk, Inside, Go, Lock, Unlock
<1>1. ASSUME NEW s \in Session, AcquireRead(s) PROVE DaemonInv'
  <2>1. CASE HeldAgainst(s)
    BY <1>1, <2>1 DEF AcquireRead
  <2>2. CASE ~HeldAgainst(s)
    <3>1. ASSUME holder # None PROVE holder = s
      <4>1. lock # Torn
        BY <1>1, <2>2, <3>1 DEF AcquireRead
      <4>2. QED
        BY <2>2, <3>1, <4>1, HeldRecord DEF HeldAgainst, ReadLock
    <3>2. QED
      BY <1>1, <2>2, <3>1 DEF AcquireRead
  <2>3. QED
    BY <2>1, <2>2
<1>2. ASSUME NEW s \in Session, AcquireTruncate(s) PROVE DaemonInv'
  BY <1>2 DEF AcquireTruncate
<1>3. ASSUME NEW s \in Session, AcquireFill(s) PROVE DaemonInv'
  BY <1>3 DEF AcquireFill
<1>4. ASSUME NEW s \in Session, ReleaseRead(s) PROVE DaemonInv'
  <2>1. CASE ReadLock # None /\ ReadLock.owner = OwnerOf[s]
    <3>1. holder \in {None, s}
      BY <1>4, <2>1 DEF ReleaseRead, ReadLock
    <3>2. QED
      BY <1>4, <2>1, <3>1 DEF ReleaseRead
  <2>2. CASE ~(ReadLock # None /\ ReadLock.owner = OwnerOf[s])
    <3>1. ASSUME holder = s PROVE FALSE
      <4>1. pc[s] = "open"
        BY <1>4, <2>2 DEF ReleaseRead
      <4>2. lock # Torn
        BY <3>1, <4>1
      <4>3. QED
        BY <2>2, <3>1, <4>2, HeldRecord DEF ReadLock
    <3>2. QED
      BY <1>4, <2>2, <3>1 DEF ReleaseRead
  <2>3. QED
    BY <2>1, <2>2
<1>5. ASSUME NEW s \in Session, ReleaseUnlink(s) PROVE DaemonInv'
  BY <1>5 DEF ReleaseUnlink
<1>6. ASSUME NEW s \in Session, CheckLocked(s) PROVE DaemonInv'
  BY <1>6 DEF CheckLocked
<1>7. ASSUME NEW s \in Session, Land(s) PROVE DaemonInv'
  BY <1>7 DEF Land
<1>8. CASE GoStale
  BY <1>8 DEF GoStale
<1>9. ASSUME NEW p \in Proc, Crash(p) PROVE DaemonInv'
  BY <1>9 DEF Crash
<1>10. CASE UNCHANGED vars
  BY <1>10 DEF vars
<1>11. QED
  BY <1>1, <1>2, <1>3, <1>4, <1>5, <1>6, <1>7, <1>8, <1>9, <1>10 DEF Next

(* They are consistent when the daemon starts.                             *)
LEMMA DaemonInvInitial == Init => DaemonInv
  BY DEF Init, DaemonInv, TypeOK, HolderOnDisk, Inside

(***************************************************************************)
(* In one daemon the lock file always agrees with the last acquire that    *)
(* was neither released nor outlived: HolderOnDisk.                        *)
(***************************************************************************)
THEOREM DiskAgreesWithHolder ==
  ASSUME OneDaemon PROVE Spec => []HolderOnDisk
<1>1. DaemonInv => HolderOnDisk
  BY DEF DaemonInv
<1>2. QED
  BY <1>1, DaemonInvInitial, DaemonInvInductive, PTL DEF Spec

(***************************************************************************)
(* In one daemon no session takes the workspace lock away from another     *)
(* that still holds it: NoTheft.                                           *)
(***************************************************************************)
THEOREM LockIsNotStolen ==
  ASSUME OneDaemon PROVE Spec => NoTheft
<1>1. DaemonInv /\ [Next]_vars => [holder # None => holder' \in {holder, None}]_vars
  <2> SUFFICES ASSUME DaemonInv, Next PROVE holder # None => holder' \in {holder, None}
    OBVIOUS
  <2>1. ASSUME NEW s \in Session, AcquireFill(s) PROVE holder \in {None, s}
    BY <2>1 DEF AcquireFill, Go, DaemonInv, Inside
  <2>2. QED
    BY <2>1 DEF Next, AcquireRead, AcquireTruncate, AcquireFill, ReleaseRead,
                ReleaseUnlink, CheckLocked, Land, GoStale, Crash
<1>2. QED
  BY <1>1, DaemonInvInitial, DaemonInvInductive, PTL DEF Spec, NoTheft

(***************************************************************************)
(* In one daemon the rewriting of the lock file is the only moment at      *)
(* which a write gets past the check against its holder: CheckBlindSpot.   *)
(***************************************************************************)
THEOREM BlindSpotIsRewrite ==
  ASSUME OneDaemon PROVE Spec => CheckBlindSpot
<1> DEFINE A == \A s \in Session :
                  (pc[s] = "open" /\ pc'[s] = "checked" /\ holder \notin {None, s})
                    => pc[holder] = "filling"
<1>1. DaemonInv /\ [Next]_vars => [A]_vars
  <2> SUFFICES ASSUME DaemonInv, Next, NEW s \in Session,
                      pc[s] = "open", pc'[s] = "checked", holder \notin {None, s}
               PROVE  pc[holder] = "filling"
    OBVIOUS
  <2> USE DEF DaemonInv, TypeOK, Go
  <2>1. CheckLocked(s)
    BY DEF Next, AcquireRead, AcquireTruncate, AcquireFill, ReleaseRead,
           ReleaseUnlink, CheckLocked, Land, GoStale, Crash
  <2>2. OwnerOf[s] # OwnerOf[holder]
    BY OneDaemon DEF OneDaemon
  <2>3. lock = Torn
    BY <2>1, <2>2, HeldRecord DEF CheckLocked, HeldAgainst, ReadLock
  <2>4. QED
    BY <2>3 DEF HolderOnDisk
<1>2. QED
  BY <1>1, DaemonInvInitial, DaemonInvInductive, PTL DEF Spec, CheckBlindSpot
=============================================================================
