------------------------------ MODULE FileEdits ------------------------------
(***************************************************************************)
(* The file tools of src/silkcode/tools/files.py with the fingerprint      *)
(* registry each agent keeps, the checkpoints of src/silkcode/             *)
(* checkpoints.py that undo a turn, and the revert of the GUI and the      *)
(* REPL.  Several sessions, each with an agent of its own, work on one     *)
(* project.  The workspace lock is taken and released in single steps      *)
(* here; WorkspaceLock has its own interleavings.                          *)
(***************************************************************************)
EXTENDS Naturals, Sequences

CONSTANTS
  Agent,        \* the sessions, one agent each
  File,         \* the files of the project
  Events,       \* what else may happen
  MaxContent,   \* bound: contents ever written
  MaxGen,       \* bound: turns of each agent
  None

ASSUME EditsAssumption ==
  /\ MaxContent \in Nat \ {0} /\ MaxGen \in [Agent -> Nat]
  /\ Events \subseteq {"close", "reopen", "user", "stale", "iofail"}
  /\ None \notin Agent \cup File \cup Nat

\* What a file holds: contents are told apart by when they were written.
Missing == 0
Content == 0..MaxContent
Generation == UNION {1..MaxGen[a] : a \in Agent}
Snapshot == [path : File, content : Content]

VARIABLES
  gui,          \* the sessions are of the page, reverted by HTTP threads; else REPLs
  disk,         \* the files
  written,      \* the content written last
  known,        \* _fp_registry: the content an agent last read or wrote
  generations,  \* Checkpoints._generations, by number
  current,      \* Checkpoints._current
  snapshots,    \* the entries of each generation, in the stack or not
  turns,        \* generations begun by each agent
  lock,         \* the session that holds the workspace lock
  open,         \* the sessions that are open
  call,         \* the tool call each agent is in
  undo,         \* the revert under way in each session
  \* Observability: the files as each turn found them, None once somebody
  \* else has changed the file, and what the turn wrote.
  before, wrote

checkpoints == <<generations, current, snapshots, turns>>
vars == <<gui, disk, written, known, checkpoints, before, wrote, lock, open, call, undo>>

Call == [at : {"idle", "turn", "touched", "fresh", "allowed", "based", "landed"},
         file : File \cup {None}, tool : {"write", "edit", None}, base : Content \cup {None}]

Undo == [at : {"no", "checked", "restoring"}, of : Generation \cup {None}, left : Seq(Snapshot)]

NoCall == [at |-> "idle", file |-> None, tool |-> None, base |-> None]
NoUndo == [at |-> "no", of |-> None, left |-> <<>>]

TypeOK ==
  /\ gui \in BOOLEAN
  /\ disk \in [File -> Content]
  /\ written \in Content
  /\ known \in [Agent -> [File -> Content \cup {None}]]
  /\ generations \in [Agent -> Seq(Generation)]
  /\ current \in [Agent -> Generation \cup {None}]
  /\ snapshots \in [Agent -> [Generation -> Seq(Snapshot)]]
  /\ \A a \in Agent : turns[a] \in 0..MaxGen[a]
  /\ lock \in Agent \cup {None}
  /\ open \in SUBSET Agent
  /\ call \in [Agent -> Call]
  /\ undo \in [Agent -> Undo]
  /\ before \in [Agent -> [Generation -> [File -> Content \cup {None}]]]
  /\ wrote \in [Agent -> [Generation -> SUBSET Content]]

\* All sessions are open; the first to open has the lock.
Init ==
  /\ gui \in BOOLEAN
  /\ disk \in [File -> {Missing, 1}]
  /\ written = 1
  /\ known = [a \in Agent |-> [f \in File |-> None]]
  /\ generations = [a \in Agent |-> <<>>]
  /\ current = [a \in Agent |-> None]
  /\ snapshots = [a \in Agent |-> [g \in Generation |-> <<>>]]
  /\ turns = [a \in Agent |-> 0]
  /\ lock \in Agent
  /\ open = Agent
  /\ call = [a \in Agent |-> NoCall]
  /\ undo = [a \in Agent |-> NoUndo]
  /\ before = [a \in Agent |-> [g \in Generation |-> disk]]
  /\ wrote = [a \in Agent |-> [g \in Generation |-> {}]]

-----------------------------------------------------------------------------
In(a, where) == call[a].at = where

Goes(a, where) == call' = [call EXCEPT ![a].at = where]

Quit(a) == call' = [call EXCEPT ![a] = [NoCall EXCEPT !.at = "turn"]]

Target(a) == call[a].file

\* File f is changed by a session, or by the user (None).
ChangedBy(a, f) ==
  before' = [b \in Agent |-> [g \in Generation |->
               IF b = a THEN before[b][g] ELSE [before[b][g] EXCEPT ![f] = None]]]

(***************************************************************************)
(* Turns and their checkpoints.  The REPL reverts between two turns, in    *)
(* the thread that runs them.                                              *)
(***************************************************************************)
\* run_turn: checkpoints.begin().
BeginTurn(a) ==
  /\ a \in open /\ In(a, "idle") /\ turns[a] < MaxGen[a]
  /\ ~gui => undo[a] = NoUndo
  /\ Goes(a, "turn")
  /\ LET g == turns[a] + 1
     IN  /\ turns' = [turns EXCEPT ![a] = g]
         /\ generations' = [generations EXCEPT ![a] = Append(@, g)]
         /\ current' = [current EXCEPT ![a] = g]
         /\ before' = [before EXCEPT ![a][g] = disk]
  /\ UNCHANGED <<disk, written, known, snapshots, wrote, lock, open, undo>>

EndTurn(a) ==
  /\ In(a, "turn")
  /\ Goes(a, "idle")
  /\ UNCHANGED <<disk, written, known, checkpoints, before, wrote, lock, open, undo>>

\* read_file: the agent knows the content from now on.
Read(a, f) ==
  /\ In(a, "turn") /\ disk[f] # Missing
  /\ known' = [known EXCEPT ![a][f] = disk[f]]
  /\ UNCHANGED <<disk, written, checkpoints, before, wrote, lock, open, call, undo>>

\* Mutant of Touch: an agent snapshots a file each time it writes it.
TouchAgain(a, f, tool) ==
  /\ In(a, "turn") /\ current[a] # None
  /\ call' = [call EXCEPT ![a] = [NoCall EXCEPT !.at = "touched", !.file = f, !.tool = tool]]
  /\ snapshots' = [snapshots EXCEPT ![a][current[a]] =
                     Append(@, [path |-> f, content |-> disk[f]])]
  /\ UNCHANGED <<disk, written, known, generations, current, turns, before, wrote, lock, open, undo>>

\* Mutant of Touch: a file that does not exist yet has no snapshot content.
TouchMissing(a, f, tool) ==
  /\ In(a, "turn") /\ current[a] # None
  /\ call' = [call EXCEPT ![a] = [NoCall EXCEPT !.at = "touched", !.file = f, !.tool = tool]]
  /\ snapshots' = [snapshots EXCEPT ![a][current[a]] =
                     Append(@, [path |-> f, content |-> IF disk[f] = Missing THEN None ELSE disk[f]])]
  /\ UNCHANGED <<disk, written, known, generations, current, turns, before, wrote, lock, open, undo>>

\* A write tool is called: _run_with_permissions snapshots the file first,
\* unless the generation has it already.
Touch(a, f, tool) ==
  /\ In(a, "turn") /\ current[a] # None
  /\ call' = [call EXCEPT ![a] = [NoCall EXCEPT !.at = "touched", !.file = f, !.tool = tool]]
  /\ snapshots' = [snapshots EXCEPT ![a][current[a]] =
                     IF \E i \in 1..Len(@) : @[i].path = f
                       THEN @ ELSE Append(@, [path |-> f, content |-> disk[f]])]
  /\ UNCHANGED <<disk, written, known, generations, current, turns, before, wrote, lock, open, undo>>

\* The same when the current generation has been reverted: another begins.
TouchAnew(a, f, tool) ==
  /\ In(a, "turn") /\ current[a] = None /\ turns[a] < MaxGen[a]
  /\ call' = [call EXCEPT ![a] = [NoCall EXCEPT !.at = "touched", !.file = f, !.tool = tool]]
  /\ LET g == turns[a] + 1
     IN  /\ turns' = [turns EXCEPT ![a] = g]
         /\ generations' = [generations EXCEPT ![a] = Append(@, g)]
         /\ current' = [current EXCEPT ![a] = g]
         /\ before' = [before EXCEPT ![a][g] = disk]
         /\ snapshots' = [snapshots EXCEPT ![a][g] = <<[path |-> f, content |-> disk[f]]>>]
  /\ UNCHANGED <<disk, written, known, wrote, lock, open, undo>>

-----------------------------------------------------------------------------
(***************************************************************************)
(* write_file and edit_file.                                               *)
(***************************************************************************)
\* _check_stale: the file must still be what the agent read, if it read it.
CheckStale(a) ==
  /\ In(a, "touched")
  /\ IF known[a][Target(a)] \in {None, disk[Target(a)]} THEN Goes(a, "fresh") ELSE Quit(a)
  /\ UNCHANGED <<disk, written, known, checkpoints, before, wrote, lock, open, undo>>

\* _check_locked: another session's lock refuses the write.
CheckLocked(a) ==
  /\ In(a, "fresh")
  /\ IF lock \in {None, a} THEN Goes(a, "allowed") ELSE Quit(a)
  /\ UNCHANGED <<disk, written, known, checkpoints, before, wrote, lock, open, undo>>

\* write_file replaces what the agent knew; edit_file reads the file again
\* and replaces a part of it.
Base(a) ==
  /\ In(a, "allowed")
  /\ IF call[a].tool = "write"
       THEN call' = [call EXCEPT ![a].at = "based", ![a].base = known[a][Target(a)]]
       ELSE IF disk[Target(a)] = Missing
         THEN Quit(a)
         ELSE call' = [call EXCEPT ![a].at = "based", ![a].base = disk[Target(a)]]
  /\ UNCHANGED <<disk, written, known, checkpoints, before, wrote, lock, open, undo>>

\* _write_text: the new content takes the file's place in one step.
Land(a) ==
  /\ In(a, "based") /\ written < MaxContent
  /\ Goes(a, "landed")
  /\ written' = written + 1
  /\ disk' = [disk EXCEPT ![Target(a)] = written + 1]
  /\ known' = [known EXCEPT ![a][Target(a)] = written + 1]
  /\ wrote' = [wrote EXCEPT ![a] = [g \in Generation |->
                 IF g = current[a] THEN @[g] \cup {written + 1} ELSE @[g]]]
  /\ ChangedBy(a, Target(a))
  /\ UNCHANGED <<checkpoints, lock, open, undo>>

\* acquire: the lock is refreshed, or the call fails after the fact.
Refresh(a) ==
  /\ In(a, "landed")
  /\ Quit(a)
  /\ lock' = IF lock = None THEN a ELSE lock
  /\ UNCHANGED <<disk, written, known, checkpoints, before, wrote, open, undo>>

-----------------------------------------------------------------------------
(***************************************************************************)
(* Revert.                                                                 *)
(***************************************************************************)
\* /api/revert looks whether the session has a turn running; the REPL has not.
RevertCheck(a) ==
  /\ a \in open /\ In(a, "idle") /\ undo[a] = NoUndo
  /\ undo' = [undo EXCEPT ![a].at = "checked"]
  /\ UNCHANGED <<disk, written, known, checkpoints, before, wrote, lock, open, call>>

\* Empty generations on top of the stack go; the one below is undone.
NonEmpty(a) == {i \in DOMAIN generations[a] : snapshots[a][generations[a][i]] # <<>>}

\* Mutant of RevertPop: the oldest change is undone instead of the latest.
RevertPopFirst(a) ==
  /\ undo[a].at = "checked"
  /\ IF NonEmpty(a) = {}
       THEN /\ generations' = [generations EXCEPT ![a] = <<>>]
            /\ undo' = [undo EXCEPT ![a] = NoUndo]
            /\ UNCHANGED current
       ELSE \E i \in NonEmpty(a) :
              LET g == generations[a][i]
              IN  /\ \A j \in NonEmpty(a) : i <= j
                  /\ generations' = [generations EXCEPT ![a] = SubSeq(@, 1, i - 1)]
                  /\ current' = [current EXCEPT ![a] = IF @ = g THEN None ELSE @]
                  /\ undo' = [undo EXCEPT ![a] =
                                [at |-> "restoring", of |-> g, left |-> snapshots[a][g]]]
  /\ UNCHANGED <<disk, written, known, snapshots, turns, before, wrote, lock, open, call>>

RevertPop(a) ==
  /\ undo[a].at = "checked"
  /\ IF NonEmpty(a) = {}
       THEN /\ generations' = [generations EXCEPT ![a] = <<>>]
            /\ undo' = [undo EXCEPT ![a] = NoUndo]
            /\ UNCHANGED current
       ELSE \E i \in NonEmpty(a) :
              LET g == generations[a][i]
              IN  /\ \A j \in NonEmpty(a) : j <= i
                  /\ generations' = [generations EXCEPT ![a] = SubSeq(@, 1, i - 1)]
                  /\ current' = [current EXCEPT ![a] = IF @ = g THEN None ELSE @]
                  /\ undo' = [undo EXCEPT ![a] =
                                [at |-> "restoring", of |-> g, left |-> snapshots[a][g]]]
  /\ UNCHANGED <<disk, written, known, snapshots, turns, before, wrote, lock, open, call>>

\* Mutant of Restore: a file the turn created is not removed.
RestoreKeepsNew(a) ==
  /\ undo[a].at = "restoring" /\ undo[a].left # <<>>
  /\ LET left == undo[a].left
         entry == left[Len(left)]
     IN  /\ disk' = [disk EXCEPT ![entry.path] = IF entry.content = Missing THEN @ ELSE entry.content]
         /\ ChangedBy(a, entry.path)
         /\ undo' = [undo EXCEPT ![a].left = SubSeq(left, 1, Len(left) - 1)]
  /\ UNCHANGED <<written, known, checkpoints, wrote, lock, open, call>>

\* The entries are restored one by one, the last first.
Restore(a) ==
  /\ undo[a].at = "restoring" /\ undo[a].left # <<>>
  /\ LET left == undo[a].left
         entry == left[Len(left)]
     IN  /\ disk' = [disk EXCEPT ![entry.path] = entry.content]
         /\ ChangedBy(a, entry.path)
         /\ undo' = [undo EXCEPT ![a].left = SubSeq(left, 1, Len(left) - 1)]
  /\ UNCHANGED <<written, known, checkpoints, wrote, lock, open, call>>

RevertDone(a) ==
  /\ undo[a].at = "restoring" /\ undo[a].left = <<>>
  /\ undo' = [undo EXCEPT ![a] = NoUndo]
  /\ UNCHANGED <<disk, written, known, checkpoints, before, wrote, lock, open, call>>

\* The agent of a session goes, with its fingerprints and checkpoints, and
\* with the lock it has.
Gone(a) ==
  /\ open' = open \ {a}
  /\ lock' = IF lock = a THEN None ELSE lock
  /\ known' = [known EXCEPT ![a] = [f \in File |-> None]]
  /\ generations' = [generations EXCEPT ![a] = <<>>]
  /\ current' = [current EXCEPT ![a] = None]

\* A file that cannot be written or removed: the OSError ends the revert of
\* the page, and the whole REPL.
RestoreFails(a) ==
  /\ "iofail" \in Events
  /\ undo[a].at = "restoring" /\ undo[a].left # <<>>
  /\ undo' = [undo EXCEPT ![a] = NoUndo]
  /\ IF gui THEN UNCHANGED <<known, generations, current, lock, open>> ELSE Gone(a)
  /\ UNCHANGED <<disk, written, snapshots, turns, before, wrote, call>>

-----------------------------------------------------------------------------
(***************************************************************************)
(* The sessions around the agents, and the world around the sessions.      *)
(***************************************************************************)
\* An idle session closes.
CloseSession(a) ==
  /\ "close" \in Events
  /\ a \in open /\ In(a, "idle") /\ undo[a] = NoUndo
  /\ Gone(a)
  /\ UNCHANGED <<disk, written, snapshots, turns, before, wrote, call, undo>>

Reopen(a) ==
  /\ "reopen" \in Events
  /\ a \notin open
  /\ open' = open \cup {a}
  /\ lock' = IF lock = None THEN a ELSE lock
  /\ UNCHANGED <<disk, written, known, checkpoints, before, wrote, call, undo>>

\* The user saves a file in an editor, or removes it.
UserEdit(f) ==
  /\ "user" \in Events /\ written < MaxContent
  /\ written' = written + 1
  /\ \E c \in {written + 1, Missing} : disk' = [disk EXCEPT ![f] = c]
  /\ ChangedBy(None, f)
  /\ UNCHANGED <<known, checkpoints, wrote, lock, open, call, undo>>

\* The lock's owner has not written for LOCK_STALE_SECONDS.
GoStale ==
  /\ "stale" \in Events
  /\ lock # None
  /\ lock' = None
  /\ UNCHANGED <<disk, written, known, checkpoints, before, wrote, open, call, undo>>

Edits ==
  \/ \E a \in Agent :
       \/ BeginTurn(a) \/ EndTurn(a)
       \/ \E f \in File : Read(a, f) \/ \E t \in {"write", "edit"} : Touch(a, f, t) \/ TouchAnew(a, f, t)
       \/ CheckStale(a) \/ CheckLocked(a) \/ Base(a) \/ Land(a) \/ Refresh(a)
       \/ RevertCheck(a) \/ RevertPop(a) \/ Restore(a) \/ RevertDone(a) \/ RestoreFails(a)
       \/ CloseSession(a) \/ Reopen(a)
  \/ \E f \in File : UserEdit(f)
  \/ GoStale

Next == Edits /\ UNCHANGED gui

Spec == Init /\ [][Next]_vars

-----------------------------------------------------------------------------
(***************************************************************************)
(* Properties.                                                             *)
(***************************************************************************)
InStack(a, g) == \E i \in DOMAIN generations[a] : generations[a][i] = g

\* "Restores the last turn's changes": a revert of the REPL that runs to its
\* end leaves the files as the turn it undoes found them, whichever files the
\* turn changed, created or tried to change, and whatever was reverted
\* before; but for the files that somebody else has changed meanwhile.
RevertRestoresTurn ==
  [][\A a \in Agent :
        ~gui /\ undo[a].at = "restoring" /\ undo[a].left = <<>> /\ undo'[a] = NoUndo
          => \A f \in File : before[a][undo[a].of][f] \in {None, disk[f]}]_vars

\* Whatever other sessions and the user do to the files, and even when a
\* revert from the page meets the next turn: a file is never restored to
\* something that the turn being undone wrote itself.
RevertRemovesOwnWork ==
  [][\A a \in Agent :
        LET left == undo[a].left
        IN  undo[a].at = "restoring" /\ left # <<>> /\ undo'[a].left # left
              => left[Len(left)].content \notin wrote[a][undo[a].of]]_vars

\* What the current turn of a REPL has snapshotted can be reverted: its
\* generation is on the stack.
TurnIsUndoable ==
  \A a \in Agent :
    (~gui /\ current[a] # None /\ snapshots[a][current[a]] # <<>>) => InStack(a, current[a])
=============================================================================
