--------------------------- MODULE DaemonSessions ---------------------------
(***************************************************************************)
(* The sessions of the GUI daemon (GuiState and AgentSession in            *)
(* src/silkcode/gui/server.py): HTTP handler threads that open, close,     *)
(* move and drive sessions, the turn thread and the swarm thread each of   *)
(* them starts, the workspace locks they take, and the hot reload.         *)
(*                                                                         *)
(* GuiState.lock guards a few sections only; every step below is one such  *)
(* section or one access to shared state outside it.                       *)
(***************************************************************************)
EXTENDS Naturals, FiniteSets

CONSTANTS
  Handler,      \* HTTP handler threads at work at the same time
  Object,       \* AgentSession objects alive at the same time
  Project,      \* workspace roots
  Requests,     \* the kinds of request the clients make
  MaxId,        \* bound: session ids handed out
  None

ASSUME DaemonAssumption ==
  /\ MaxId \in Nat \ {0, 1}
  /\ None \notin Object \cup Project \cup (1..MaxId)
  /\ Requests \subseteq {"message", "open", "new", "close", "move", "swarm", "reload"}

Id == 1..MaxId

VARIABLES
  sessions,     \* GuiState.sessions: the object registered under an id
  current,      \* GuiState.default_session_id
  lastId,       \* the store's id counter
  home,         \* the project a saved session file names; None: no file
  active,       \* the active-session marker of this instance
  ident, root, agentRoot, running, closing,   \* fields of each AgentSession
  fin,          \* how far _finish_close has got with each AgentSession
  pick,         \* the id _finish_close is about to make the current one
  swarm,        \* the project a session's running swarm works in
  lock,         \* the session that owns a project's lock file
  req,          \* the request each handler thread is serving
  reloader      \* the auto-reload thread

registry == <<sessions, current, lastId, home, active>>
fields   == <<ident, root, agentRoot, running, closing>>
finish   == <<fin, pick>>
vars     == <<registry, fields, finish, swarm, lock, req, reloader>>

Finishing == {"release", "pop", "pick", "renew", "assign"}

Location == {"idle", "load", "register", "message", "open", "new", "close", "mark",
             "closing", "move", "release", "arrive", "swarm", "launch"}

Request == [at : Location, op : Requests \cup {None}, id : Id \cup {None},
            obj : Object \cup {None}, to : Project \cup {None}]

Idle == [at |-> "idle", op |-> None, id |-> None, obj |-> None, to |-> None]

TypeOK ==
  /\ sessions \in [Id -> Object \cup {None}]
  /\ current \in Id /\ lastId \in Id /\ active \in Id
  /\ home \in [Id -> Project \cup {None}]
  /\ ident \in [Object -> Id \cup {None}]
  /\ root \in [Object -> Project \cup {None}]
  /\ agentRoot \in [Object -> Project \cup {None}]
  /\ running \in [Object -> BOOLEAN]
  /\ closing \in [Object -> BOOLEAN]
  /\ fin \in [Object -> Finishing \cup {"no", "done"}]
  /\ pick \in [Object -> Id \cup {None}]
  /\ swarm \in [Id -> Project \cup {None}]
  /\ lock \in [Project -> Id \cup {None}]
  /\ req \in [Handler -> Request]
  /\ reloader \in {"watching", "restarting"}

\* Two saved sessions, 1 and 2, opened one after the other in projects of
\* their own or in the same one; session 2 is the current one.
Init ==
  \E a, b \in Object, p, q \in Project :
    /\ a # b
    /\ sessions = [i \in Id |-> CASE i = 1 -> a [] i = 2 -> b [] OTHER -> None]
    /\ current = 2 /\ lastId = 2 /\ active = 2
    /\ home = [i \in Id |-> CASE i = 1 -> p [] i = 2 -> q [] OTHER -> None]
    /\ ident = [o \in Object |-> CASE o = a -> 1 [] o = b -> 2 [] OTHER -> None]
    /\ root = [o \in Object |-> CASE o = a -> p [] o = b -> q [] OTHER -> None]
    /\ agentRoot = root
    /\ running = [o \in Object |-> FALSE]
    /\ closing = [o \in Object |-> FALSE]
    /\ fin = [o \in Object |-> "no"]
    /\ pick = [o \in Object |-> None]
    /\ swarm = [i \in Id |-> None]
    /\ lock = [r \in Project |-> IF r = p THEN 1 ELSE IF r = q THEN 2 ELSE None]
    /\ req = [h \in Handler |-> Idle]
    /\ reloader = "watching"

-----------------------------------------------------------------------------
(***************************************************************************)
(* The workspace lock, with acquire and release as single steps (their own *)
(* interleavings are the subject of WorkspaceLock) and the owner named by  *)
(* its session id.                                                         *)
(***************************************************************************)
Free(p, i) == lock[p] \in {None, i}

Acquired(p, i) == [lock EXCEPT ![p] = IF Free(p, i) THEN i ELSE @]

Released(p, i) == [lock EXCEPT ![p] = IF @ = i THEN None ELSE @]

\* An object no thread can reach any more: Python has collected it.
Unreachable(o) ==
  /\ \A i \in Id : sessions[i] # o
  /\ \A h \in Handler : req[h].obj # o
  /\ ~running[o] /\ fin[o] \notin Finishing

\* AgentSession.__init__ for session i in project p.
Construct(o, i, p) ==
  /\ Unreachable(o)
  /\ ident' = [ident EXCEPT ![o] = i]
  /\ root' = [root EXCEPT ![o] = p]
  /\ agentRoot' = [agentRoot EXCEPT ![o] = p]
  /\ running' = [running EXCEPT ![o] = FALSE]
  /\ closing' = [closing EXCEPT ![o] = FALSE]
  /\ lock' = Acquired(p, i)

At(h, where) == req[h].at = where

Step(h, to) == req' = [req EXCEPT ![h].at = to]

Reply(h) == req' = [req EXCEPT ![h] = Idle]

SwarmRunning(i) == swarm[i] # None

Busy == (\E o \in Object : running[o] /\ \E i \in Id : sessions[i] = o)
        \/ \E i \in Id : SwarmRunning(i)

\* Bound: ids left for the sessions that closing the current one may need.
IdsLeft ==
  lastId + Cardinality({o \in Object : closing[o] /\ fin[o] # "done"})
         + Cardinality({h \in Handler : req[h].op \in {"new", "close"}
                                        /\ (req[h].obj # None => ~closing[req[h].obj])})
    < MaxId

(***************************************************************************)
(* A request arrives.  close_session looks the id up in `sessions`;        *)
(* everything else goes through get_session, which loads the session from  *)
(* its file when it is not open, or fails with FileNotFoundError.          *)
(***************************************************************************)
Receive(h, op, i, p) ==
  /\ At(h, "idle")
  /\ op \in Requests \ {"reload"}
  /\ op = "new" => IdsLeft
  /\ op = "close" => sessions[i] # None /\ (closing[sessions[i]] \/ IdsLeft)
  /\ op \notin {"close", "new"} => sessions[i] # None \/ home[i] # None
  /\ req' = [req EXCEPT ![h] =
               [at |-> IF op # "new" /\ sessions[i] = None THEN "load" ELSE op,
                op |-> op, id |-> i, to |-> p,
                obj |-> IF op = "new" THEN None ELSE sessions[i]]]
  /\ UNCHANGED <<registry, fields, finish, swarm, lock, reloader>>

\* get_session of a session that is not open: the object is built ...
Load(h) ==
  /\ At(h, "load")
  /\ \E o \in Object :
       /\ Construct(o, req[h].id, home[req[h].id])
       /\ fin' = [fin EXCEPT ![o] = "no"]
       /\ req' = [req EXCEPT ![h].at = "register", ![h].obj = o]
  /\ UNCHANGED <<registry, pick, swarm, reloader>>

\* ... and registered, whatever other threads registered meanwhile.
Register(h) ==
  /\ At(h, "register")
  /\ Step(h, req[h].op)
  /\ sessions' = [sessions EXCEPT ![req[h].id] = req[h].obj]
  /\ UNCHANGED <<current, lastId, home, active, fields, finish, swarm, lock, reloader>>

\* load_session: _activate the session that get_session returned.
Open(h) ==
  /\ At(h, "open")
  /\ Reply(h)
  /\ sessions' = [sessions EXCEPT ![req[h].id] = req[h].obj]
  /\ current' = req[h].id
  /\ active' = req[h].id
  /\ UNCHANGED <<lastId, home, fields, finish, swarm, lock, reloader>>

\* new_session: a fresh id, the object, _activate.
NewSession(o, i, p) ==
  /\ lastId < MaxId
  /\ i = lastId + 1
  /\ lastId' = i
  /\ Construct(o, i, p)
  /\ sessions' = [sessions EXCEPT ![i] = o]
  /\ current' = i
  /\ active' = i
  /\ UNCHANGED home

New(h) ==
  /\ At(h, "new")
  /\ Reply(h)
  /\ \E o \in Object :
       /\ NewSession(o, lastId + 1, req[h].to)
       /\ fin' = [fin EXCEPT ![o] = "no"]
  /\ UNCHANGED <<pick, swarm, reloader>>

-----------------------------------------------------------------------------
(***************************************************************************)
(* Turns.                                                                  *)
(***************************************************************************)
\* Mutant of Message: a swarm of the session is not looked for.
MessageDespiteSwarm(h) ==
  /\ At(h, "message")
  /\ Reply(h)
  /\ LET o == req[h].obj
         admitted == sessions[ident[o]] = o /\ ~closing[o] /\ ~running[o]
     IN  running' = IF admitted THEN [running EXCEPT ![o] = TRUE] ELSE running
  /\ UNCHANGED <<registry, ident, root, agentRoot, closing, finish, swarm, lock, reloader>>

\* Mutant of EndTurn: the deferred close is not taken up.
EndTurnForgetsClose(o) ==
  /\ running[o]
  /\ running' = [running EXCEPT ![o] = FALSE]
  /\ home' = [home EXCEPT ![ident[o]] = root[o]]
  /\ UNCHANGED <<sessions, current, lastId, active, ident, root, agentRoot, closing, finish,
                 swarm, lock, req, reloader>>

\* start_turn: the section under GuiState.lock, then the turn thread.
Message(h) ==
  /\ At(h, "message")
  /\ Reply(h)
  /\ LET o == req[h].obj
         admitted == /\ sessions[ident[o]] = o
                     /\ ~closing[o] /\ ~running[o] /\ ~SwarmRunning(ident[o])
     IN  running' = IF admitted THEN [running EXCEPT ![o] = TRUE] ELSE running
  /\ UNCHANGED <<registry, ident, root, agentRoot, closing, finish, swarm, lock, reloader>>

\* A write of the file tools: allowed while the lock is free or the
\* session's own, which it then is.
TurnWrite(o) ==
  /\ running[o]
  /\ Free(agentRoot[o], ident[o])
  /\ lock' = Acquired(agentRoot[o], ident[o])
  /\ UNCHANGED <<registry, fields, finish, swarm, req, reloader>>

\* _run_turn's finally: running is cleared and closing read under the lock;
\* the session is saved, and a deferred close goes on from here.
EndTurn(o) ==
  /\ running[o]
  /\ running' = [running EXCEPT ![o] = FALSE]
  /\ home' = [home EXCEPT ![ident[o]] = root[o]]
  /\ fin' = IF closing[o] THEN [fin EXCEPT ![o] = "release"] ELSE fin
  /\ UNCHANGED <<sessions, current, lastId, active, ident, root, agentRoot, closing, pick,
                 swarm, lock, req, reloader>>

-----------------------------------------------------------------------------
(***************************************************************************)
(* Closing.                                                                *)
(***************************************************************************)
\* close_session before its locked section.
Close(h) ==
  /\ At(h, "close")
  /\ IF SwarmRunning(req[h].id) THEN Reply(h) ELSE Step(h, "mark")
  /\ UNCHANGED <<registry, fields, finish, swarm, lock, reloader>>

\* Mutant of CloseMark: a session is closed at once whatever it is doing.
CloseMarkAtOnce(h) ==
  /\ At(h, "mark")
  /\ Step(h, "closing")
  /\ fin' = [fin EXCEPT ![req[h].obj] = "release"]
  /\ closing' = [closing EXCEPT ![req[h].obj] = TRUE]
  /\ UNCHANGED <<registry, ident, root, agentRoot, running, pick, swarm, lock, reloader>>

\* Mutant of CloseMark: a session that is closing already is closed again.
CloseMarkTwice(h) ==
  /\ At(h, "mark")
  /\ LET o == req[h].obj
     IN  IF running[o]
           THEN Reply(h) /\ UNCHANGED fin
           ELSE Step(h, "closing") /\ fin' = [fin EXCEPT ![o] = "release"]
  /\ closing' = [closing EXCEPT ![req[h].obj] = TRUE]
  /\ UNCHANGED <<registry, ident, root, agentRoot, running, pick, swarm, lock, reloader>>

\* close_session's locked section: an idle session is closed at once, one
\* with a live turn only marked.
CloseMark(h) ==
  /\ At(h, "mark")
  /\ LET o == req[h].obj
     IN  IF closing[o] \/ running[o]
           THEN Reply(h) /\ UNCHANGED fin
           ELSE Step(h, "closing") /\ fin' = [fin EXCEPT ![o] = "release"]
  /\ closing' = [closing EXCEPT ![req[h].obj] = TRUE]
  /\ UNCHANGED <<registry, ident, root, agentRoot, running, pick, swarm, lock, reloader>>

CloseReply(h) ==
  /\ At(h, "closing")
  /\ fin[req[h].obj] = "done"
  /\ Reply(h)
  /\ UNCHANGED <<registry, fields, finish, swarm, lock, reloader>>

\* _finish_close: the lock goes first,
FinishRelease(o) ==
  /\ fin[o] = "release"
  /\ fin' = [fin EXCEPT ![o] = "pop"]
  /\ lock' = Released(root[o], ident[o])
  /\ UNCHANGED <<registry, fields, pick, swarm, req, reloader>>

\* then the handle,
FinishPop(o) ==
  /\ fin[o] = "pop"
  /\ fin' = [fin EXCEPT ![o] = "pick"]
  /\ sessions' = [sessions EXCEPT ![ident[o]] = None]
  /\ UNCHANGED <<current, lastId, home, active, fields, pick, swarm, lock, req, reloader>>

\* then, if the current session was closed, another one of the project is
\* looked up (the latest) or a new one is called for.
OpenIn(p) == {i \in Id : sessions[i] # None /\ root[sessions[i]] = p}

Latest(ids) == {i \in ids : \A j \in ids : j <= i}

FinishPick(o) ==
  /\ fin[o] = "pick"
  /\ \/ /\ current # ident[o]
        /\ fin' = [fin EXCEPT ![o] = "done"]
        /\ active' = current
        /\ UNCHANGED pick
     \/ /\ current = ident[o]
        /\ \E i \in Latest(OpenIn(root[o])) : pick' = [pick EXCEPT ![o] = i]
        /\ fin' = [fin EXCEPT ![o] = "assign"]
        /\ UNCHANGED active
     \/ /\ current = ident[o]
        /\ OpenIn(root[o]) = {}
        /\ fin' = [fin EXCEPT ![o] = "renew"]
        /\ UNCHANGED <<pick, active>>
  /\ UNCHANGED <<sessions, current, lastId, home, fields, swarm, lock, req, reloader>>

FinishRenew(o) ==
  /\ fin[o] = "renew"
  /\ \E n \in Object :
       /\ NewSession(n, lastId + 1, root[o])
       /\ fin' = [fin EXCEPT ![o] = "assign", ![n] = "no"]
       /\ pick' = [pick EXCEPT ![o] = lastId + 1]
  /\ UNCHANGED <<swarm, req, reloader>>

FinishAssign(o) ==
  /\ fin[o] = "assign"
  /\ fin' = [fin EXCEPT ![o] = "done"]
  /\ pick' = [pick EXCEPT ![o] = None]
  /\ current' = pick[o]
  /\ active' = pick[o]
  /\ UNCHANGED <<sessions, lastId, home, fields, swarm, lock, req, reloader>>

-----------------------------------------------------------------------------
(***************************************************************************)
(* Moving a session to another project (move_session).                     *)
(***************************************************************************)
\* Mutant of Move: a live turn is not looked for.
MoveDespiteTurn(h) ==
  /\ At(h, "move")
  /\ LET o == req[h].obj
     IN  IF SwarmRunning(ident[o]) \/ req[h].to = root[o]
           THEN Reply(h)
           ELSE Step(h, "release")
  /\ UNCHANGED <<registry, fields, finish, swarm, lock, reloader>>

Move(h) ==
  /\ At(h, "move")
  /\ LET o == req[h].obj
     IN  IF running[o] \/ SwarmRunning(ident[o]) \/ req[h].to = root[o]
           THEN Reply(h)
           ELSE Step(h, "release")
  /\ UNCHANGED <<registry, fields, finish, swarm, lock, reloader>>

MoveRelease(h) ==
  /\ At(h, "release")
  /\ Step(h, "arrive")
  /\ LET o == req[h].obj
     IN  /\ lock' = Released(root[o], ident[o])
         /\ root' = [root EXCEPT ![o] = req[h].to]
  /\ UNCHANGED <<registry, ident, agentRoot, running, closing, finish, swarm, reloader>>

\* The lock of the new project, the agent's workspace, and the save.
MoveArrive(h) ==
  /\ At(h, "arrive")
  /\ Reply(h)
  /\ LET o == req[h].obj
     IN  /\ lock' = Acquired(root[o], ident[o])
         /\ agentRoot' = [agentRoot EXCEPT ![o] = root[o]]
         /\ home' = [home EXCEPT ![ident[o]] = root[o]]
  /\ UNCHANGED <<sessions, current, lastId, active, ident, root, running, closing, finish,
                 swarm, reloader>>

-----------------------------------------------------------------------------
(***************************************************************************)
(* Swarms.                                                                 *)
(***************************************************************************)
\* start_swarm's locked section ...
Swarm(h) ==
  /\ At(h, "swarm")
  /\ LET o == req[h].obj
     IN  IF running[o] \/ closing[o] \/ SwarmRunning(ident[o])
           THEN Reply(h)
           ELSE Step(h, "launch")
  /\ UNCHANGED <<registry, fields, finish, swarm, lock, reloader>>

\* ... and, after the options have been validated, the swarm itself.
Launch(h) ==
  /\ At(h, "launch")
  /\ Reply(h)
  /\ LET o == req[h].obj IN swarm' = [swarm EXCEPT ![ident[o]] = root[o]]
  /\ UNCHANGED <<registry, fields, finish, lock, reloader>>

SwarmWrite(i) ==
  /\ SwarmRunning(i)
  /\ Free(swarm[i], i)
  /\ lock' = Acquired(swarm[i], i)
  /\ UNCHANGED <<registry, fields, finish, swarm, req, reloader>>

SwarmEnd(i) ==
  /\ SwarmRunning(i)
  /\ swarm' = [swarm EXCEPT ![i] = None]
  /\ UNCHANGED <<registry, fields, finish, lock, req, reloader>>

-----------------------------------------------------------------------------
(***************************************************************************)
(* Hot reload: the new code is in place and the daemon is found idle, the  *)
(* sessions are saved, and half a second later the process execs itself.   *)
(* The lock files name the same pid and stay; the active session reopens.  *)
(***************************************************************************)
SaveAll == [i \in Id |-> IF sessions[i] = None THEN home[i] ELSE root[sessions[i]]]

Reload ==
  /\ "reload" \in Requests
  /\ reloader = "watching"
  /\ ~Busy
  /\ reloader' = "restarting"
  /\ home' = SaveAll
  /\ UNCHANGED <<sessions, current, lastId, active, fields, finish, swarm, lock, req>>

\* What __init__ reopens: the session of the active marker if it has a file.
Reopened(i, p) ==
  IF home[active] # None THEN i = active /\ p = home[active] ELSE i = lastId + 1

Exec ==
  /\ reloader = "restarting"
  /\ reloader' = "watching"
  /\ req' = [h \in Handler |-> Idle]
  /\ swarm' = [i \in Id |-> None]
  /\ running' = [n \in Object |-> FALSE]
  /\ closing' = [n \in Object |-> FALSE]
  /\ fin' = [n \in Object |-> "no"]
  /\ pick' = [n \in Object |-> None]
  /\ \E o \in Object, i \in Id, p \in Project :
       /\ Reopened(i, p)
       /\ sessions' = [j \in Id |-> IF j = i THEN o ELSE None]
       /\ current' = i /\ active' = i
       /\ lastId' = IF i > lastId THEN i ELSE lastId
       /\ ident' = [n \in Object |-> IF n = o THEN i ELSE None]
       /\ root' = [n \in Object |-> IF n = o THEN p ELSE None]
       /\ agentRoot' = root'
       /\ lock' = Acquired(p, i)
  /\ UNCHANGED home

-----------------------------------------------------------------------------
Serve(h) ==
  \/ Load(h) \/ Register(h) \/ Open(h) \/ New(h) \/ Message(h)
  \/ Close(h) \/ CloseMark(h) \/ CloseReply(h)
  \/ Move(h) \/ MoveRelease(h) \/ MoveArrive(h)
  \/ Swarm(h) \/ Launch(h)

Finish(o) ==
  \/ FinishRelease(o) \/ FinishPop(o) \/ FinishPick(o) \/ FinishRenew(o) \/ FinishAssign(o)

Next ==
  \/ \E h \in Handler, op \in Requests, i \in Id, p \in Project : Receive(h, op, i, p)
  \/ \E h \in Handler : Serve(h)
  \/ \E o \in Object : TurnWrite(o) \/ EndTurn(o) \/ Finish(o)
  \/ \E i \in Id : SwarmWrite(i) \/ SwarmEnd(i)
  \/ Reload \/ Exec

Spec == Init /\ [][Next]_vars

-----------------------------------------------------------------------------
(***************************************************************************)
(* Properties.                                                             *)
(***************************************************************************)
\* Threads that write for session i: live turns, and the swarm.
Turns(i) == {o \in Object : running[o] /\ ident[o] = i}

\* start_turn refuses because "the agent/swarm owns this workspace": at no
\* time do two turns, two swarms, or a turn and a swarm run for one session.
OneWriterPerSession ==
  \A i \in Id :
    /\ Cardinality(Turns(i)) <= 1
    /\ SwarmRunning(i) => Turns(i) = {}

\* "The workspace lock is never released under a live turn" (AgentSession):
\* a project's lock is freed only when no turn and no swarm of its owner
\* works in that project.
LockHeldUnderTurn ==
  [][\A p \in Project :
        lock[p] # None /\ lock'[p] = None =>
          /\ \A o \in Turns(lock[p]) : agentRoot[o] # p
          /\ swarm[lock[p]] # p]_vars

\* _finish_close runs for a session object only once it has been marked, its
\* turn has ended, and no turn can start on it again.
FinishOnlyWhenIdle ==
  \A o \in Object : fin[o] \in Finishing => closing[o] /\ ~running[o]

\* The close of a session object releases and pops what is still its own: a
\* conversation that was reopened meanwhile loses neither lock nor handle.
CloseOwnsItsSession ==
  \A o \in Object : fin[o] \in {"release", "pop"} => sessions[ident[o]] = o

\* A close is never lost between the request and the turn it waits for: a
\* marked session whose turn has ended is being closed, or is closed.
NoCloseIsLost ==
  \A o \in Object : closing[o] /\ ~running[o] => fin[o] # "no"
=============================================================================
