---------------------------- MODULE SandboxMirror ----------------------------
(***************************************************************************)
(* The remote execution of commands: a workspace is mirrored up to a       *)
(* sandbox before each command, unless it is what was mirrored last        *)
(* (RemoteBackend in src/silkcode/execbackend.py; one for all the sessions *)
(* of a daemon), and the sandbox runs the command on the mirror            *)
(* (src/silkcode/sandbox_server.py, a thread for each request).            *)
(*                                                                         *)
(* A manifest has the names, sizes and times of the files: a file that is  *)
(* saved again is told from what it was, one that comes back as it was is  *)
(* not.  What a command changes in a mirror is not fetched back, and not   *)
(* followed here.                                                          *)
(***************************************************************************)
EXTENDS Naturals

CONSTANTS
  Thread,       \* the agent threads of the daemon
  Workspace,    \* the workspaces, each with an id of its own in the sandbox
  WorkspaceOf,  \* the workspace of each thread's session
  MaxSaves,     \* bound: saves
  None,
  Bare          \* a mirror that was wiped, and not filled since

VARIABLES
  saves,        \* saves so far
  local,        \* the files of each workspace
  last,         \* RemoteBackend._last_manifest
  tree,         \* the mirrors: None where nothing was synced
  call,         \* the call of exec each thread is in
  \* Observability: the saves the workspace has held since exec was called,
  \* and what the command found.
  since, found

vars == <<saves, local, last, tree, call, since, found>>

\* What a workspace holds: its last save, and whether a symbolic link.
Content == [save : 0..MaxSaves, link : BOOLEAN]

First == [save |-> 0, link |-> FALSE]

\* A mirror has no links: the save it holds, if any.
Mirror == 0..MaxSaves \cup {None, Bare}

\* No two workspaces have the same: each has a file that the others have not.
Manifest(w) == <<w, local[w]>>

Call == [at : {"idle", "asked", "differs", "packed", "wiped", "synced", "ready", "ran"},
         manifest : (Workspace \X Content) \cup {None}, data : Content]

TypeOK ==
  /\ saves \in 0..MaxSaves
  /\ local \in [Workspace -> Content]
  /\ last \in (Workspace \X Content) \cup {None}
  /\ tree \in [Workspace -> Mirror]
  /\ call \in [Thread -> Call]
  /\ since \in [Thread -> SUBSET (0..MaxSaves)]
  /\ found \in [Thread -> Mirror \ {None}]

NoCall == [at |-> "idle", manifest |-> None, data |-> First]

Init ==
  /\ saves = 0
  /\ local = [w \in Workspace |-> First]
  /\ last = None
  /\ tree = [w \in Workspace |-> None]
  /\ call = [t \in Thread |-> NoCall]
  /\ since = [t \in Thread |-> {}] /\ found = [t \in Thread |-> 0]

-----------------------------------------------------------------------------
In(t, where) == call[t].at = where

Goes(t, where) == call' = [call EXCEPT ![t].at = where]

(***************************************************************************)
(* The workspaces, which agents and users change at any time.              *)
(***************************************************************************)
Becomes(w, content) ==
  /\ local' = [local EXCEPT ![w] = content]
  /\ since' = [t \in Thread |-> IF WorkspaceOf[t] = w /\ ~In(t, "idle")
                                  THEN since[t] \cup {content.save} ELSE since[t]]
  /\ UNCHANGED <<last, tree, call, found>>

Save(w) ==
  /\ saves < MaxSaves
  /\ saves' = saves + 1
  /\ Becomes(w, [local[w] EXCEPT !.save = saves + 1])

\* A link is added, or removed again.
Link(w) ==
  /\ Becomes(w, [local[w] EXCEPT !.link = ~@])
  /\ UNCHANGED saves

(***************************************************************************)
(* RemoteBackend.exec.                                                     *)
(***************************************************************************)
Exec(t) ==
  /\ In(t, "idle")
  /\ Goes(t, "asked")
  /\ since' = [since EXCEPT ![t] = {local[WorkspaceOf[t]].save}]
  /\ UNCHANGED <<saves, local, last, tree, found>>

\* _sync: nothing to do if the manifest is that of the last sync.
Compare(t) ==
  /\ In(t, "asked")
  /\ LET m == Manifest(WorkspaceOf[t])
     IN  call' = [call EXCEPT ![t] = IF m = last THEN [@ EXCEPT !.at = "ready"]
                                     ELSE [@ EXCEPT !.at = "differs", !.manifest = m]]
  /\ UNCHANGED <<saves, local, last, tree, since, found>>

Raises(t) ==
  /\ call' = [call EXCEPT ![t] = NoCall]
  /\ since' = [since EXCEPT ![t] = {}] /\ found' = [found EXCEPT ![t] = 0]

\* workspace_tar, which may be too large.
Pack(t) ==
  /\ In(t, "differs")
  /\ \/ /\ call' = [call EXCEPT ![t] = [@ EXCEPT !.at = "packed", !.data = local[WorkspaceOf[t]]]]
        /\ UNCHANGED <<since, found>>
     \/ Raises(t)
  /\ UNCHANGED <<saves, local, last, tree>>

\* The request to sync or to run does not get through.
Unreachable(t) ==
  /\ In(t, "packed") \/ In(t, "ready")
  /\ Raises(t)
  /\ UNCHANGED <<saves, local, last, tree>>

\* /sync: the mirror is removed, then filled; an archive with links is
\* refused by then.
Wipe(t) ==
  /\ In(t, "packed")
  /\ tree' = [tree EXCEPT ![WorkspaceOf[t]] = Bare]
  /\ Goes(t, "wiped")
  /\ UNCHANGED <<saves, local, last, since, found>>

\* The answer may be lost.
Extract(t) ==
  /\ In(t, "wiped") /\ ~call[t].data.link /\ tree[WorkspaceOf[t]] # None
  /\ tree' = [tree EXCEPT ![WorkspaceOf[t]] = call[t].data.save]
  /\ \/ Goes(t, "synced") /\ UNCHANGED <<since, found>>
     \/ Raises(t)
  /\ UNCHANGED <<saves, local, last>>

\* Or the sandbox was lost meanwhile.
Refuse(t) ==
  /\ In(t, "wiped") /\ (call[t].data.link \/ tree[WorkspaceOf[t]] = None)
  /\ Raises(t)
  /\ UNCHANGED <<saves, local, last, tree>>

\* Mutant of Synced: the manifest is taken when the sync is over.
SyncedAfter(t) ==
  /\ In(t, "synced")
  /\ last' = Manifest(WorkspaceOf[t])
  /\ Goes(t, "ready")
  /\ UNCHANGED <<saves, local, tree, since, found>>

\* The manifest taken before the archive was packed becomes the last.
Synced(t) ==
  /\ In(t, "synced")
  /\ last' = call[t].manifest
  /\ Goes(t, "ready")
  /\ UNCHANGED <<saves, local, tree, since, found>>

\* Mutant of Run: a command is run where nothing was mirrored, too.
RunUnsynced(t) ==
  /\ In(t, "ready")
  /\ found' = [found EXCEPT ![t] = tree[WorkspaceOf[t]]]
  /\ Goes(t, "ran")
  /\ UNCHANGED <<saves, local, last, tree, since>>

\* /exec: the command finds what is there.
Run(t) ==
  /\ In(t, "ready") /\ tree[WorkspaceOf[t]] # None
  /\ found' = [found EXCEPT ![t] = tree[WorkspaceOf[t]]]
  /\ Goes(t, "ran")
  /\ UNCHANGED <<saves, local, last, tree, since>>

\* 409, workspace not synced.
Conflict(t) ==
  /\ In(t, "ready") /\ tree[WorkspaceOf[t]] = None
  /\ Raises(t)
  /\ UNCHANGED <<saves, local, last, tree>>

Answer(t) ==
  /\ In(t, "ran")
  /\ Raises(t)
  /\ UNCHANGED <<saves, local, last, tree>>

\* The sandbox is disposable: a fresh one answers in its place.
Lost ==
  /\ tree' = [w \in Workspace |-> None]
  /\ UNCHANGED <<saves, local, last, call, since, found>>

Next ==
  \/ \E w \in Workspace : Save(w) \/ Link(w)
  \/ \E t \in Thread :
       \/ Exec(t) \/ Compare(t) \/ Pack(t) \/ Unreachable(t) \/ Wipe(t) \/ Extract(t)
       \/ Refuse(t) \/ Synced(t) \/ Run(t) \/ Conflict(t) \/ Answer(t)
  \/ Lost

Spec == Init /\ [][Next]_vars

-----------------------------------------------------------------------------
(***************************************************************************)
(* Properties.                                                             *)
(***************************************************************************)
\* "Syncing the workspace up before each command": a command finds what had
\* been saved at some time since it was asked for, or nothing, which is what a
\* refused sync leaves of a mirror: never an older state of the workspace.
CommandSeesWorkspace ==
  \A t \in Thread :
    In(t, "ran") => found[t] \in since[t] \cup {Bare}
=============================================================================
