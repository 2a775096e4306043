------------------------------ MODULE InFlight ------------------------------
(***************************************************************************)
(* The records of commands in flight (src/silkcode/inflight.py) and the    *)
(* local backend that keeps them (LocalBackend.exec in                     *)
(* src/silkcode/execbackend.py): processes of Silk Code run commands in    *)
(* one workspace, die in the middle of them, and start sessions that       *)
(* report what died.                                                       *)
(***************************************************************************)
EXTENDS Naturals

CONSTANTS
  Proc,         \* processes of Silk Code at work in the workspace
  Executing,    \* those that execute commands
  Crashable,    \* those that may die; a new one takes the place
  Reporting,    \* those that start a session, which reports
  Cmd,          \* commands, each run once
  None

ASSUME InFlightAssumption ==
  /\ Executing \subseteq Proc /\ Crashable \subseteq Proc /\ Reporting \subseteq Proc
  /\ None \notin Proc \cup Cmd

VARIABLES
  rec,          \* the json file of a command: absent, or with or without pid
  out,          \* whether its output files exist
  child,        \* its shell process
  exec,         \* how far LocalBackend.exec has got with it
  owner,        \* the process that executes it
  tracked,      \* whether begin() returned a record
  report,       \* the report() each process is in
  notices       \* observability: the notices delivered for it, by their fate

files == <<rec, out>>
runs  == <<child, exec, owner, tracked>>
vars  == <<files, runs, report, notices>>

Fate == {"unknown", "interrupted"}

\* The fate is that of the notice being written; `written` are the commands
\* whose notices the report returns, by fate.
NoReport == [at |-> "idle", todo |-> {}, cmd |-> None, written |-> {}]

Report == [at : {"idle", "next", "check", "clear", "rest"} \cup Fate,
           todo : SUBSET Cmd, cmd : Cmd \cup {None}, written : SUBSET (Cmd \X Fate)]

TypeOK ==
  /\ rec \in [Cmd -> {"none", "begun", "pid"}]
  /\ out \in [Cmd -> BOOLEAN]
  /\ child \in [Cmd -> {"none", "live", "zombie", "gone"}]
  /\ exec \in [Cmd -> {"idle", "begun", "spawned", "read", "running", "reaped", "unlinked",
                       "done", "orphan", "late"}]
  /\ owner \in [Cmd -> Proc \cup {None}]
  /\ tracked \in [Cmd -> BOOLEAN]
  /\ report \in [Reporting -> Report]
  /\ notices \in [Cmd -> [Fate -> Nat]]
  \* A pid is that of a process, and a report names the command it is at.
  /\ \A c \in Cmd : rec[c] = "pid" \/ exec[c] \in {"spawned", "read"} => child[c] # "none"
  /\ \A p \in Reporting : report[p].at \notin {"idle", "next"} => report[p].cmd \in Cmd

Init ==
  /\ rec = [c \in Cmd |-> "none"]
  /\ out = [c \in Cmd |-> FALSE]
  /\ child = [c \in Cmd |-> "none"]
  /\ exec = [c \in Cmd |-> "idle"]
  /\ owner = [c \in Cmd |-> None]
  /\ tracked = [c \in Cmd |-> FALSE]
  /\ report = [p \in Reporting |-> NoReport]
  /\ notices = [c \in Cmd |-> [f \in Fate |-> 0]]

-----------------------------------------------------------------------------
(***************************************************************************)
(* LocalBackend.exec.                                                      *)
(***************************************************************************)
Goes(c, from, to) == exec[c] = from /\ exec' = [exec EXCEPT ![c] = to]

\* begin() and the output files; on an OSError the command runs unrecorded.
Begin(p, c) ==
  /\ Goes(c, "idle", "begun")
  /\ owner' = [owner EXCEPT ![c] = p]
  /\ \E recorded \in BOOLEAN :
       /\ tracked' = [tracked EXCEPT ![c] = recorded]
       /\ rec' = [rec EXCEPT ![c] = IF recorded THEN "begun" ELSE "none"]
       /\ out' = [out EXCEPT ![c] = recorded]
  /\ UNCHANGED <<child, report, notices>>

Spawn(c) ==
  /\ Goes(c, "begun", "spawned")
  /\ child' = [child EXCEPT ![c] = "live"]
  /\ UNCHANGED <<files, owner, tracked, report, notices>>

\* Mutant of SpawnFails: started() is called all the same.
SpawnFailsUnnoticed(c) ==
  /\ Goes(c, "begun", "spawned")
  /\ UNCHANGED <<files, child, owner, tracked, report, notices>>

\* Popen raises: only the `finally` is left.
SpawnFails(c) ==
  /\ Goes(c, "begun", "reaped")
  /\ UNCHANGED <<files, child, owner, tracked, report, notices>>

\* started(): the record is read, ...
StartedRead(c) ==
  /\ \/ rec[c] # "none" /\ Goes(c, "spawned", "read")
     \/ rec[c] = "none" /\ Goes(c, "spawned", "running")
  /\ UNCHANGED <<files, child, owner, tracked, report, notices>>

\* ... and replaced by one with the pid.
StartedWrite(c) ==
  /\ Goes(c, "read", "running")
  /\ rec' = [rec EXCEPT ![c] = "pid"]
  /\ UNCHANGED <<out, child, owner, tracked, report, notices>>

\* The shell exits or is killed at the timeout.  Its pid is in use until its
\* parent, or init for an orphan, reaps it.
Exit(c) ==
  /\ child[c] = "live"
  /\ child' = [child EXCEPT ![c] = IF exec[c] = "orphan" THEN "gone" ELSE "zombie"]
  /\ UNCHANGED <<files, exec, owner, tracked, report, notices>>

Reap(c) ==
  /\ child[c] = "zombie"
  /\ Goes(c, "running", "reaped")
  /\ child' = [child EXCEPT ![c] = "gone"]
  /\ UNCHANGED <<files, owner, tracked, report, notices>>

\* finish(): the record, then the output files.
FinishRecord(c) ==
  /\ Goes(c, "reaped", "unlinked")
  /\ rec' = [rec EXCEPT ![c] = "none"]
  /\ UNCHANGED <<out, child, owner, tracked, report, notices>>

\* Mutant of FinishOutput: the output files are left behind.
FinishKeepsOutput(c) ==
  /\ Goes(c, "unlinked", "done")
  /\ UNCHANGED <<files, child, owner, tracked, report, notices>>

FinishOutput(c) ==
  /\ Goes(c, "unlinked", "done")
  /\ out' = [out EXCEPT ![c] = FALSE]
  /\ UNCHANGED <<rec, child, owner, tracked, report, notices>>

\* The process dies, with the reports it was writing; shells live on.
Crash(p) ==
  /\ \/ \E c \in Cmd : owner[c] = p /\ exec[c] \notin {"done", "orphan", "late"}
     \/ p \in Reporting /\ report[p] # NoReport
  /\ exec' = [c \in Cmd |->
                CASE owner[c] # p \/ exec[c] \in {"done", "orphan", "late"} -> exec[c]
                  [] owner[c] = p /\ exec[c] = "unlinked" -> "late"
                  [] OTHER -> "orphan"]
  /\ child' = [c \in Cmd |-> IF owner[c] = p /\ child[c] = "zombie" THEN "gone" ELSE child[c]]
  /\ report' = [q \in Reporting |-> IF q = p THEN NoReport ELSE report[q]]
  /\ UNCHANGED <<files, owner, tracked, notices>>

-----------------------------------------------------------------------------
(***************************************************************************)
(* report(): one pass over the records found when it starts.               *)
(***************************************************************************)
Reports(p, from, to) == report[p].at = from /\ report' = [report EXCEPT ![p].at = to]

Scan(p) ==
  /\ report[p].at = "idle"
  /\ \E c \in Cmd : rec[c] # "none"
  /\ report' = [report EXCEPT ![p] = [NoReport EXCEPT !.at = "next",
                                                      !.todo = {c \in Cmd : rec[c] # "none"}]]
  /\ UNCHANGED <<files, runs, notices>>

\* Mutant of Look: a record without a pid is cleared like a half-record.
LookClears(p, c) ==
  /\ report[p].at = "next" /\ c \in report[p].todo
  /\ report' = [report EXCEPT ![p].at = IF rec[c] = "pid" THEN "check" ELSE "clear",
                              ![p].cmd = c, ![p].todo = @ \ {c}]
  /\ UNCHANGED <<files, runs, notices>>

\* A record is read: one that has gone is cleared, one without a pid is an
\* orphan.
Look(p, c) ==
  /\ report[p].at = "next" /\ c \in report[p].todo
  /\ report' = [report EXCEPT ![p].at = CASE rec[c] = "none"  -> "clear"
                                          [] rec[c] = "begun" -> "unknown"
                                          [] rec[c] = "pid"   -> "check",
                              ![p].cmd = c, ![p].todo = @ \ {c}]
  /\ UNCHANGED <<files, runs, notices>>

Alive(c) == child[c] \in {"live", "zombie"}

\* Mutant of Check: the pid is not looked up.
CheckNothing(p) == Reports(p, "check", "interrupted") /\ UNCHANGED <<files, runs, notices>>

\* A record whose pid exists is left alone.  The pid of a shell that has
\* gone may be another process's by now.
Check(p) ==
  /\ \/ Reports(p, "check", "next")
     \/ Reports(p, "check", "interrupted") /\ ~Alive(report[p].cmd)
  /\ UNCHANGED <<files, runs, notices>>

\* The notice is written, with the tail of the output.
Write(p) ==
  /\ report[p].at \in Fate
  /\ report' = [report EXCEPT ![p].at = "clear",
                              ![p].written = @ \cup {<<report[p].cmd, report[p].at>>}]
  /\ UNCHANGED <<files, runs, notices>>

\* finish() again: the record, then the output files.
ClearRecord(p) ==
  /\ Reports(p, "clear", "rest")
  /\ rec' = [rec EXCEPT ![report[p].cmd] = "none"]
  /\ UNCHANGED <<out, runs, notices>>

ClearOutput(p) ==
  /\ Reports(p, "rest", "next")
  /\ out' = [out EXCEPT ![report[p].cmd] = FALSE]
  /\ UNCHANGED <<rec, runs, notices>>

\* The notices are returned, and the session shows them.
Deliver(p) ==
  /\ report[p].at = "next" /\ report[p].todo = {}
  /\ notices' = [c \in Cmd |-> [f \in Fate |->
                   notices[c][f] + IF <<c, f>> \in report[p].written THEN 1 ELSE 0]]
  /\ report' = [report EXCEPT ![p] = NoReport]
  /\ UNCHANGED <<files, runs>>

Execute(c) ==
  \/ Spawn(c) \/ SpawnFails(c) \/ StartedRead(c) \/ StartedWrite(c)
  \/ Reap(c) \/ FinishRecord(c) \/ FinishOutput(c)

Next ==
  \/ \E c \in Cmd : Execute(c) \/ Exit(c) \/ \E p \in Executing : Begin(p, c)
  \/ \E p \in Crashable : Crash(p)
  \/ \E p \in Reporting :
       \/ Scan(p) \/ Check(p) \/ Write(p) \/ ClearRecord(p) \/ ClearOutput(p) \/ Deliver(p)
       \/ \E c \in Cmd : Look(p, c)

Spec == Init /\ [][Next]_vars

-----------------------------------------------------------------------------
(***************************************************************************)
(* Properties.                                                             *)
(***************************************************************************)
Reported(c) == \E f \in Fate : notices[c][f] > 0

InReport(c) ==
  \E p \in Reporting :
    (\E f \in Fate : <<c, f>> \in report[p].written)
    \/ (report[p].at \in Fate /\ report[p].cmd = c)

\* "The next session in that workspace reports it": a recorded command that
\* its process did not live to finish is on disk, in a notice being written,
\* or in one that was delivered; it is never dropped without a word.
NothingIsForgotten ==
  \A c \in Cmd : exec[c] = "orphan" /\ tracked[c] => rec[c] # "none" \/ InReport(c) \/ Reported(c)

\* Once the pid is recorded, "a record exists" becomes "something died" only
\* when the shell is gone: a notice of an interrupted command is never about
\* a command that still runs.
InterruptedIsOver ==
  \A c \in Cmd :
    notices[c]["interrupted"] > 0 \/ (\E p \in Reporting : <<c, "interrupted">> \in report[p].written)
      => child[c] = "gone"

\* "Deletes everything on completion": a command that was executed to its
\* end has no file left, whatever reports raced with it.
DoneLeavesNothing == \A c \in Cmd : exec[c] = "done" => rec[c] = "none" /\ ~out[c]
=============================================================================
