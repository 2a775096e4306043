---------------------------- MODULE SessionStore ----------------------------
(***************************************************************************)
(* The session store (SessionStore in src/silkcode/sessions.py), shared by *)
(* GUI daemons, the CLI and swarms: threads of several processes allocate  *)
(* ids from the counter file and save conversations, and processes die     *)
(* half-way.  Its promise is SessionArchive.                               *)
(***************************************************************************)
EXTENDS Naturals

CONSTANTS
  Proc,         \* processes that share the store
  Worker,       \* their threads
  ProcOf,       \* the process of a thread
  Locks,        \* whether flock works; not on Windows, nor without lock files
  MaxId,        \* bound: ids on disk and allocated
  MaxSaves,     \* bound: saves
  None

Id      == 1..MaxId
Version == 0..MaxSaves     \* the conversation of save n; 0 was there before
Half    == Version \cup {None}

VARIABLES
  counter,      \* the number in .counter; 0: no such file, or empty
  counterLock,  \* the threads that have _counter_lock and the file lock
  sessionLock,  \* the thread that has the lock file of a session
  file,         \* the session file under an id: the save that each half is of
  temp,         \* the temporary files, likewise
  work,         \* what each thread is doing
  saves,        \* saves begun
  given         \* observability: how often new_id has returned an id

locks == <<counterLock, sessionLock>>
vars  == <<counter, locks, file, temp, work, saves, given>>

Absent == [head |-> None, tail |-> None]
Whole(v) == [head |-> v, tail |-> v]

Resting == [at |-> "idle", id |-> None, version |-> None]

Name == Worker \X Id

\* mkstemp gives every writer a name of its own.
TempName(w, i) == <<w, i>>

TypeOK ==
  /\ counter \in 0..MaxId
  /\ counterLock \subseteq Worker
  /\ sessionLock \in [Id -> Worker \cup {None}]
  /\ file \in [Id -> [head : Half, tail : Half]]
  /\ temp \in [Name -> [head : Half, tail : Half]]
  /\ work \in [Worker ->
        [at : {"idle", "count"}, id : {None}, version : {None}]
        \cup [at : {"read", "counted"}, id : 0..MaxId, version : {None}]
        \cup [at : {"lock", "open", "half", "full", "unlock"}, id : Id, version : Version]]
  /\ saves \in 0..MaxSaves
  /\ given \in [Id -> Nat]

\* A store with a counter, or one that predates it: its ids are those on disk.
Init ==
  /\ \E n \in 0..MaxId, old \in SUBSET Id :
       /\ given = [i \in Id |-> IF i \in old THEN 1 ELSE 0]
       /\ \/ n = 0
          \/ n # 0 /\ \A i \in old : i <= n
       /\ counter = n
  /\ file = [i \in Id |-> IF given[i] = 1 THEN Whole(0) ELSE Absent]
  /\ counterLock = {} /\ sessionLock = [i \in Id |-> None]
  /\ temp = [x \in Name |-> Absent]
  /\ work = [w \in Worker |-> Resting]
  /\ saves = 0

-----------------------------------------------------------------------------
(***************************************************************************)
(* new_id.                                                                 *)
(***************************************************************************)
Moves(w, from, to) == work[w].at = from /\ work' = [work EXCEPT ![w].at = to]

\* Who keeps a thread out: _counter_lock the threads of its process, flock
\* those of all.
Excludes(w, x) == Locks \/ ProcOf[x] = ProcOf[w]

LockCounter(w) ==
  /\ Moves(w, "idle", "count")
  /\ \A x \in counterLock : ~Excludes(w, x)
  /\ counterLock' = counterLock \cup {w}
  /\ UNCHANGED <<counter, sessionLock, file, temp, saves, given>>

OnDisk == {i \in Id : file[i] # Absent}

\* Mutant of ReadCounter: a missing counter starts at zero.
ReadCounterOnly(w) ==
  /\ work[w].at = "count"
  /\ work' = [work EXCEPT ![w].at = "read", ![w].id = counter]
  /\ UNCHANGED <<counter, locks, file, temp, saves, given>>

\* Mutant of ReadCounter: an empty store has no last id.
ReadCounterNone(w) ==
  /\ work[w].at = "count"
  /\ \E last \in IF counter # 0 THEN {counter}
                 ELSE IF OnDisk = {} THEN {None}
                 ELSE {n \in OnDisk : \A m \in OnDisk : m <= n} :
       work' = [work EXCEPT ![w].at = "read", ![w].id = last]
  /\ UNCHANGED <<counter, locks, file, temp, saves, given>>

\* The last id: of the counter, or of the files when there is none.
ReadCounter(w) ==
  /\ work[w].at = "count"
  /\ \E last \in IF counter # 0 THEN {counter}
                 ELSE {n \in OnDisk \cup {0} : \A m \in OnDisk : m <= n} :
       work' = [work EXCEPT ![w].at = "read", ![w].id = last]
  /\ UNCHANGED <<counter, locks, file, temp, saves, given>>

WriteCounter(w) ==
  /\ work[w].at = "read" /\ work[w].id < MaxId
  /\ counter' = work[w].id + 1
  /\ work' = [work EXCEPT ![w].at = "counted", ![w].id = @ + 1]
  /\ UNCHANGED <<locks, file, temp, saves, given>>

ReturnId(w) ==
  /\ work[w].at = "counted"
  /\ counterLock' = counterLock \ {w}
  /\ given' = [given EXCEPT ![work[w].id] = @ + 1]
  /\ work' = [work EXCEPT ![w] = Resting]
  /\ UNCHANGED <<counter, sessionLock, file, temp, saves>>

-----------------------------------------------------------------------------
(***************************************************************************)
(* save.                                                                   *)
(***************************************************************************)
BeginSave(w, i) ==
  /\ work[w].at = "idle"
  /\ given[i] > 0
  /\ saves < MaxSaves
  /\ saves' = saves + 1
  /\ work' = [work EXCEPT ![w] = [at |-> "lock", id |-> i, version |-> saves + 1]]
  /\ UNCHANGED <<counter, locks, file, temp, given>>

LockSession(w) ==
  /\ Moves(w, "lock", "open")
  /\ IF Locks THEN /\ sessionLock[work[w].id] = None
                   /\ sessionLock' = [sessionLock EXCEPT ![work[w].id] = w]
     ELSE UNCHANGED sessionLock
  /\ UNCHANGED <<counter, counterLock, file, temp, saves, given>>

\* _write_atomic: the temporary file is written and synced, ...
WriteHead(w) ==
  /\ Moves(w, "open", "half")
  /\ temp' = [temp EXCEPT ![TempName(w, work[w].id)] = [head |-> work[w].version, tail |-> None]]
  /\ UNCHANGED <<counter, locks, file, saves, given>>

WriteTail(w) ==
  /\ Moves(w, "half", "full")
  /\ temp' = [temp EXCEPT ![TempName(w, work[w].id)].tail = work[w].version]
  /\ UNCHANGED <<counter, locks, file, saves, given>>

\* ... and takes the place of the session file.
Replace(w) ==
  /\ Moves(w, "full", "unlock")
  /\ LET name == TempName(w, work[w].id)
     IN  /\ file' = [file EXCEPT ![work[w].id] = temp[name]]
         /\ temp' = [temp EXCEPT ![name] = Absent]
  /\ UNCHANGED <<counter, locks, saves, given>>

\* Mutant of WriteFails: the exception leaves the lock behind.
WriteFailsLocked(w) ==
  /\ work[w].at \in {"half", "full"}
  /\ work' = [work EXCEPT ![w] = Resting]
  /\ temp' = [temp EXCEPT ![TempName(w, work[w].id)] = Absent]
  /\ UNCHANGED <<counter, locks, file, saves, given>>

\* The write fails: the temporary file goes, the session file stays.
WriteFails(w) ==
  /\ work[w].at \in {"half", "full"}
  /\ work' = [work EXCEPT ![w].at = "unlock"]
  /\ temp' = [temp EXCEPT ![TempName(w, work[w].id)] = Absent]
  /\ UNCHANGED <<counter, locks, file, saves, given>>

Unlock(w) ==
  /\ work[w].at = "unlock"
  /\ work' = [work EXCEPT ![w] = Resting]
  /\ sessionLock' = [sessionLock EXCEPT ![work[w].id] = IF @ = w THEN None ELSE @]
  /\ UNCHANGED <<counter, counterLock, file, temp, saves, given>>

-----------------------------------------------------------------------------
\* The threads of a process die, its locks go, its temporary files stay.  The
\* names are not used again: they are taken to be gone.
Crash(p) ==
  LET dead == {w \in Worker : ProcOf[w] = p}
  IN  /\ \E w \in dead : work[w] # Resting
      /\ work' = [w \in Worker |-> IF w \in dead THEN Resting ELSE work[w]]
      /\ counterLock' = counterLock \ dead
      /\ sessionLock' = [i \in Id |-> IF sessionLock[i] \in dead THEN None ELSE sessionLock[i]]
      /\ temp' = [x \in Name |-> IF x[1] \in dead THEN Absent ELSE temp[x]]
      /\ UNCHANGED <<counter, file, saves, given>>

NewId(w) == LockCounter(w) \/ ReadCounter(w) \/ WriteCounter(w) \/ ReturnId(w)

Saving(w) ==
  \/ LockSession(w) \/ WriteHead(w) \/ WriteTail(w) \/ Replace(w) \/ WriteFails(w) \/ Unlock(w)

Next ==
  \/ \E w \in Worker : NewId(w) \/ Saving(w) \/ \E i \in Id : BeginSave(w, i)
  \/ \E p \in Proc : Crash(p)

Spec == Init /\ [][Next]_vars

\* A thread goes on with what it has begun, and is let in once a lock is free.
FairSpec == Spec /\ \A w \in Worker : WF_vars(NewId(w)) /\ WF_vars(Saving(w))

-----------------------------------------------------------------------------
(***************************************************************************)
(* Properties.                                                             *)
(***************************************************************************)
\* Two halves of different saves are no conversation: `stored` is then not
\* one of the archive's.
Conversation(f) == IF f.head = f.tail THEN f.head ELSE f

Archive == INSTANCE SessionArchive
             WITH stored <- [i \in Id |-> Conversation(file[i])]

\* "Two daemons never hand out the same id", and a session file is always one
\* whole conversation: with the file locks, the store implements the archive,
\* whatever threads and processes interleave or die.
ImplementsArchive == Archive!Spec

\* A save that waits for the lock of its session gets it: neither a failed
\* save nor a dead writer keeps it.
SavesEnd == \A w \in Worker : work[w].at = "lock" ~> work[w].at # "lock"
=============================================================================
