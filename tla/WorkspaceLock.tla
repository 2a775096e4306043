--------------------------- MODULE WorkspaceLock ---------------------------
(***************************************************************************)
(* The advisory workspace lock of src/silkcode/lock.py and the way the     *)
(* file tools of src/silkcode/tools/files.py use it: one lock file, the    *)
(* sessions of one or more daemons, every acquire and release split at the *)
(* points where another thread or another process can get in between.      *)
(*                                                                         *)
(* A process id never comes back once its process is dead; a daemon that   *)
(* is started again is another member of Proc.                             *)
(***************************************************************************)
EXTENDS Naturals, FiniteSets

CONSTANTS
  Session,      \* sessions that may be open on the workspace
  Proc,         \* operating-system processes (daemons, REPLs)
  Owner,        \* lock owner names ("session-3")
  ProcOf,       \* the process a session lives in
  OwnerOf,      \* the owner name a session locks under
  None          \* no session, no lock file

LockRecord == [owner : Owner, pid : Proc, fresh : BOOLEAN]

ASSUME SessionAssumption ==
  /\ ProcOf \in [Session -> Proc]
  /\ OwnerOf \in [Session -> Owner]
  /\ None \notin Session \cup Owner \cup Proc \cup LockRecord

\* One daemon, each of whose sessions locks under a name of its own.
OneDaemon ==
  \A s, t \in Session :
    /\ ProcOf[s] = ProcOf[t]
    /\ OwnerOf[s] = OwnerOf[t] => s = t

VARIABLES
  lock,         \* the lock file: None, Torn or a record
  alive,        \* processes that are running
  mutex,        \* the module-level threading.Lock of each process
  pc,           \* where each session is
  \* Observability: the session whose acquire succeeded last and has neither
  \* been released, gone stale, nor been succeeded.
  holder

vars == <<lock, alive, mutex, pc, holder>>

\* write_text truncates the file before it fills it: in between, a reader
\* finds no JSON in it.
Torn == [owner |-> None, pid |-> None, fresh |-> FALSE]

Location == {"closed", "open", "checked", "landed", "acquiring", "filling", "releasing"}

TypeOK ==
  /\ lock \in LockRecord \cup {None, Torn}
  /\ alive \in SUBSET Proc
  /\ mutex \in [Proc -> Session \cup {None}]
  /\ pc \in [Session -> Location]
  /\ holder \in Session \cup {None}

Init ==
  /\ lock = None
  /\ alive = Proc
  /\ mutex = [p \in Proc |-> None]
  /\ pc = [s \in Session |-> "closed"]
  /\ holder = None

-----------------------------------------------------------------------------
Go(s, from, to) ==
  /\ ProcOf[s] \in alive
  /\ pc[s] \in from
  /\ pc' = [pc EXCEPT ![s] = to]

Lock(s) ==
  /\ mutex[ProcOf[s]] = None
  /\ mutex' = [mutex EXCEPT ![ProcOf[s]] = s]

Unlock(s) == mutex' = [mutex EXCEPT ![ProcOf[s]] = None]

\* read_lock: a file that does not parse reads as no lock at all.
ReadLock == IF lock = Torn THEN None ELSE lock

\* Mutant of Stale: the pid of the record is not probed.
StaleByAgeOnly(l) == l = None \/ ~l.fresh

\* is_stale: no lock, a dead owner, or no activity for LOCK_STALE_SECONDS.
Stale(l) == l = None \/ l.pid \notin alive \/ ~l.fresh

\* The lock as session s sees it is another owner's, and in force.
HeldAgainst(s) ==
  /\ ReadLock # None
  /\ ReadLock.owner # OwnerOf[s]
  /\ ~Stale(ReadLock)

-----------------------------------------------------------------------------
\* Mutant of AcquireRead: the threading.Lock is not taken.
AcquireReadUnlocked(s) ==
  /\ \/ HeldAgainst(s) /\ Go(s, {"closed", "open", "landed"}, "open")
     \/ ~HeldAgainst(s) /\ Go(s, {"closed", "open", "landed"}, "acquiring")
  /\ UNCHANGED <<lock, alive, mutex, holder>>

\* Mutant of ReleaseRead: release does not look whose lock it is.
ReleaseReadAnyOwner(s) ==
  /\ mutex[ProcOf[s]] = None
  /\ IF ReadLock # None
       THEN Go(s, {"open"}, "releasing") /\ Lock(s)
       ELSE Go(s, {"open"}, "closed") /\ UNCHANGED mutex
  /\ UNCHANGED <<lock, alive, holder>>

\* Mutant of CheckLocked: edit_file without its _check_locked call.
CheckLockedNot(s) ==
  /\ Go(s, {"open"}, "checked")
  /\ UNCHANGED <<lock, alive, mutex, holder>>

(***************************************************************************)
(* acquire, called when a session opens, when the user takes the lock      *)
(* over, and after each write of the file tools.  The threading.Lock is    *)
(* held from the read to the end of the write, or to the LockError.        *)
(***************************************************************************)
AcquireRead(s) ==
  /\ mutex[ProcOf[s]] = None
  /\ \/ /\ HeldAgainst(s)               \* LockError: the lock is another's
        /\ Go(s, {"closed", "open", "landed"}, "open")
        /\ UNCHANGED mutex
     \/ /\ ~HeldAgainst(s)
        /\ Go(s, {"closed", "open", "landed"}, "acquiring")
        /\ Lock(s)
  /\ UNCHANGED <<lock, alive, holder>>

AcquireTruncate(s) ==
  /\ Go(s, {"acquiring"}, "filling")
  /\ lock' = Torn
  /\ UNCHANGED <<alive, mutex, holder>>

AcquireFill(s) ==
  /\ Go(s, {"filling"}, "open")
  /\ lock' = [owner |-> OwnerOf[s], pid |-> ProcOf[s], fresh |-> TRUE]
  /\ holder' = s
  /\ Unlock(s)
  /\ UNCHANGED alive

(***************************************************************************)
(* release, called when a session closes: the read and the unlink are      *)
(* under the threading.Lock; the unlink removes whatever file is there.    *)
(***************************************************************************)
ReleaseRead(s) ==
  /\ mutex[ProcOf[s]] = None
  /\ IF ReadLock # None /\ ReadLock.owner = OwnerOf[s]
       THEN Go(s, {"open"}, "releasing") /\ Lock(s)
       ELSE Go(s, {"open"}, "closed") /\ UNCHANGED mutex
  /\ UNCHANGED <<lock, alive, holder>>

ReleaseUnlink(s) ==
  /\ Go(s, {"releasing"}, "closed")
  /\ lock' = None
  /\ holder' = IF holder = s THEN None ELSE holder
  /\ Unlock(s)
  /\ UNCHANGED alive

(***************************************************************************)
(* A write through the file tools: _check_locked reads the lock file       *)
(* without the threading.Lock, then the file is replaced, then acquire     *)
(* refreshes the lock (AcquireRead from "landed").                         *)
(***************************************************************************)
CheckLocked(s) ==
  /\ ~HeldAgainst(s)
  /\ Go(s, {"open"}, "checked")
  /\ UNCHANGED <<lock, alive, mutex, holder>>

Land(s) ==
  /\ Go(s, {"checked"}, "landed")
  /\ UNCHANGED <<lock, alive, mutex, holder>>

(***************************************************************************)
(* The environment.                                                        *)
(***************************************************************************)
\* LOCK_STALE_SECONDS pass without a write by the lock's owner.
GoStale ==
  /\ lock # None /\ lock # Torn /\ lock.fresh
  /\ lock' = [lock EXCEPT !.fresh = FALSE]
  /\ holder' = None
  /\ UNCHANGED <<alive, mutex, pc>>

\* The process dies wherever its sessions are; the lock file stays.
Crash(p) ==
  /\ p \in alive
  /\ alive' = alive \ {p}
  /\ pc' = [s \in Session |-> IF ProcOf[s] = p THEN "closed" ELSE pc[s]]
  /\ mutex' = [mutex EXCEPT ![p] = None]
  /\ holder' = IF holder # None /\ ProcOf[holder] = p THEN None ELSE holder
  /\ UNCHANGED lock

Next ==
  \/ \E s \in Session :
        \/ AcquireRead(s) \/ AcquireTruncate(s) \/ AcquireFill(s)
        \/ ReleaseRead(s) \/ ReleaseUnlink(s)
        \/ CheckLocked(s) \/ Land(s)
  \/ GoStale
  \/ \E p \in Proc : Crash(p)

Spec == Init /\ [][Next]_vars

-----------------------------------------------------------------------------
(***************************************************************************)
(* Properties.                                                             *)
(***************************************************************************)

\* A session is refused only on behalf of a session that is open in a live
\* process: neither a clean close, nor a crash at any point, nor a race
\* between processes leaves a lock file behind that keeps the others out.
RefusedOnlyByOpenSession ==
  \A s \in Session :
    HeldAgainst(s) =>
      \E t \in Session :
        /\ ProcOf[t] \in alive
        /\ pc[t] # "closed"
        /\ OwnerOf[t] = lock.owner

\* Within one process the lock is not stolen: a session that acquired it
\* keeps it until it closes, its process dies, or it has been silent for
\* LOCK_STALE_SECONDS.
NoTheft == [][holder # None => holder' \in {holder, None}]_vars

\* Within one process the file on disk agrees with the last acquire: the
\* holder's record is there, in force, except while the holder itself is
\* rewriting it.
HolderOnDisk ==
  holder # None =>
    IF lock = Torn
      THEN pc[holder] = "filling"
      ELSE lock = [owner |-> OwnerOf[holder], pid |-> ProcOf[holder], fresh |-> TRUE]

\* Within one process a write passes the lock check against another holder
\* at one kind of moment only: while that holder is rewriting its own lock.
CheckBlindSpot ==
  [][\A s \in Session :
        (pc[s] = "open" /\ pc'[s] = "checked" /\ holder \notin {None, s})
          => pc[holder] = "filling"]_vars
=============================================================================
