----------------------- MODULE DaemonSessions_proofs -----------------------
(***************************************************************************)
(* Theorems about DaemonSessions, for any number of handler threads,       *)
(* session objects, projects and ids.                                      *)
(***************************************************************************)
EXTENDS DaemonSessions, FiniteSetTheorems, TLAPS

(***************************************************************************)
(* What the types leave open: a request under way names a session, and,    *)
(* once get_session has returned, its object; _finish_close has found an   *)
(* id before it assigns it.                                                *)
(***************************************************************************)
RequestOK ==
  \A h \in Handler :
    req[h].at # "idle" =>
      /\ req[h].op \in Requests \ {"reload"}
      /\ req[h].id \in Id
      /\ req[h].at \notin {"load", "new"} => req[h].obj \in Object

PickOK == \A o \in Object : fin[o] = "assign" => pick[o] \in Id

TypeInv == TypeOK /\ RequestOK /\ PickOK

DaemonInv == TypeInv /\ FinishOnlyWhenIdle

USE DaemonAssumption DEF Finishing, Id

(* The daemon starts in a state that satisfies the invariant.              *)
LEMMA DaemonInvInitial == Init => DaemonInv
<1> SUFFICES ASSUME Init PROVE DaemonInv
  OBVIOUS
<1>1. 1 \in Id /\ 2 \in Id
  OBVIOUS
<1>2. TypeOK
  BY <1>1 DEF Init, TypeOK, Idle, Request, Location
<1>3. RequestOK /\ PickOK /\ FinishOnlyWhenIdle
  BY DEF Init, RequestOK, PickOK, FinishOnlyWhenIdle, Idle
<1>4. QED
  BY <1>2, <1>3 DEF DaemonInv, TypeInv

(* A handler that goes on from one point to the next keeps its request.    *)
LEMMA RequestGoesOn ==
  ASSUME TypeOK, RequestOK, NEW h \in Handler, NEW to \in Location,
         req[h].at \notin {"idle", "load", "new"}, Step(h, to)
  PROVE  req' \in [Handler -> Request] /\ RequestOK'
<1>1. req \in [Handler -> Request] /\ req' = [req EXCEPT ![h].at = to]
  BY DEF TypeOK, Step
<1>2. req'[h] = [at |-> to, op |-> req[h].op, id |-> req[h].id, obj |-> req[h].obj,
                 to |-> req[h].to]
  BY <1>1 DEF Request
<1>3. req[h] \in Request /\ req'[h] \in Request
  BY <1>1, <1>2 DEF Request
<1>4. req' \in [Handler -> Request]
  BY <1>1, <1>3
<1>5. \A k \in Handler : k # h => req'[k] = req[k]
  BY <1>1
<1>6. RequestOK'
  BY <1>2, <1>5 DEF RequestOK
<1>7. QED
  BY <1>4, <1>6

(* The same for a handler that answers its client.                         *)
LEMMA RequestEnds ==
  ASSUME TypeOK, RequestOK, NEW h \in Handler, Reply(h)
  PROVE  req' \in [Handler -> Request] /\ RequestOK'
BY DEF TypeOK, RequestOK, Reply, Idle, Request, Location

(***************************************************************************)
(* Each step keeps the types, the requests and the picks in order.         *)
(***************************************************************************)
LEMMA TypeInvStep == TypeInv /\ [Next]_vars => TypeInv'
<1> SUFFICES ASSUME TypeInv, [Next]_vars PROVE TypeInv'
  OBVIOUS
<1> USE DEF TypeInv, PickOK, registry, fields, finish
<1>1. ASSUME NEW h \in Handler, NEW op \in Requests, NEW i \in Id, NEW p \in Project,
             Receive(h, op, i, p)
      PROVE TypeInv'
  <2> DEFINE r == [at |-> IF op # "new" /\ sessions[i] = None THEN "load" ELSE op,
                   op |-> op, id |-> i, to |-> p,
                   obj |-> IF op = "new" THEN None ELSE sessions[i]]
  <2>1. req \in [Handler -> Request] /\ sessions[i] \in Object \cup {None}
    BY DEF TypeOK
  <2>2. req' = [req EXCEPT ![h] = r]
    BY <1>1 DEF Receive
  <2>3. r \in Request
    BY <1>1, <2>1 DEF Receive, Request, Location
  <2>4. r.at \notin {"load", "new"} => r.obj \in Object
    BY <2>1
  <2>5. RequestOK'
    BY <1>1, <2>1, <2>2, <2>4 DEF Receive, RequestOK
  <2>6. TypeOK'
    BY <1>1, <2>1, <2>2, <2>3 DEF Receive, TypeOK
  <2>7. QED
    BY <1>1, <2>5, <2>6 DEF Receive
<1>2. ASSUME NEW h \in Handler, Load(h) PROVE TypeInv'
  BY <1>2 DEF Load, At, Construct, Acquired, Unreachable, TypeOK, RequestOK, Request, Location
<1>3. ASSUME NEW h \in Handler, Register(h) PROVE TypeInv'
  <2>1. req[h].at = "register" /\ req[h].op \in Location
    BY <1>3 DEF Register, At, RequestOK, Location
  <2>2. req' \in [Handler -> Request] /\ RequestOK'
    BY <1>3, <2>1, RequestGoesOn DEF Register
  <2>3. req[h].id \in Id /\ req[h].obj \in Object
    BY <2>1 DEF RequestOK
  <2>4. QED
    BY <1>3, <2>2, <2>3 DEF Register, TypeOK
<1>4. ASSUME NEW h \in Handler, Open(h) PROVE TypeInv'
  <2>1. req[h].id \in Id /\ req[h].obj \in Object
    BY <1>4 DEF Open, At, RequestOK
  <2>2. QED
    BY <1>4, <2>1, RequestEnds DEF Open, TypeOK
<1>5. ASSUME NEW h \in Handler, New(h) PROVE TypeInv'
  <2>1. req' \in [Handler -> Request] /\ RequestOK'
    BY <1>5, RequestEnds DEF New
  <2>2. req[h].to \in Project \cup {None} /\ lastId + 1 \in Nat
    BY DEF TypeOK, Request
  <2>3. PICK o \in Object : NewSession(o, lastId + 1, req[h].to) /\ fin' = [fin EXCEPT ![o] = "no"]
    BY <1>5 DEF New
  <2>4. lastId + 1 \in Id
    BY <2>3 DEF NewSession, TypeOK
  <2>5. TypeOK'
    BY <1>5, <2>1, <2>2, <2>3, <2>4 DEF New, NewSession, Construct, Acquired, TypeOK
  <2>6. PickOK'
    BY <1>5, <2>3 DEF New, TypeOK
  <2>7. QED
    BY <2>1, <2>5, <2>6
<1>6. ASSUME NEW h \in Handler, Message(h) PROVE TypeInv'
  BY <1>6, RequestEnds DEF Message, TypeOK
<1>7. ASSUME NEW h \in Handler, Close(h) PROVE TypeInv'
  <2>1. req[h].at = "close" /\ "mark" \in Location
    BY <1>7 DEF Close, At, Location
  <2>2. req' \in [Handler -> Request] /\ RequestOK'
    BY <1>7, <2>1, RequestEnds, RequestGoesOn DEF Close
  <2>3. QED
    BY <1>7, <2>2 DEF Close, TypeOK
<1>8. ASSUME NEW h \in Handler, CloseMark(h) PROVE TypeInv'
  <2>1. req[h].at = "mark" /\ "closing" \in Location
    BY <1>8 DEF CloseMark, At, Location
  <2>2. req' \in [Handler -> Request] /\ RequestOK'
    BY <1>8, <2>1, RequestEnds, RequestGoesOn DEF CloseMark
  <2>3. TypeOK'
    BY <1>8, <2>2 DEF CloseMark, TypeOK
  <2>4. PickOK'
    BY <1>8 DEF CloseMark, TypeOK
  <2>5. QED
    BY <2>2, <2>3, <2>4
<1>9. ASSUME NEW h \in Handler, CloseReply(h) PROVE TypeInv'
  BY <1>9, RequestEnds DEF CloseReply, TypeOK
<1>10. ASSUME NEW h \in Handler, Move(h) PROVE TypeInv'
  <2>1. req[h].at = "move" /\ "release" \in Location
    BY <1>10 DEF Move, At, Location
  <2>2. req' \in [Handler -> Request] /\ RequestOK'
    BY <1>10, <2>1, RequestEnds, RequestGoesOn DEF Move
  <2>3. QED
    BY <1>10, <2>2 DEF Move, TypeOK
<1>11. ASSUME NEW h \in Handler, MoveRelease(h) PROVE TypeInv'
  <2>1. req[h].at = "release" /\ "arrive" \in Location
    BY <1>11 DEF MoveRelease, At, Location
  <2>2. req' \in [Handler -> Request] /\ RequestOK'
    BY <1>11, <2>1, RequestGoesOn DEF MoveRelease
  <2>3. req[h].to \in Project \cup {None}
    BY DEF TypeOK, Request
  <2>4. QED
    BY <1>11, <2>2, <2>3 DEF MoveRelease, Released, TypeOK
<1>12. ASSUME NEW h \in Handler, MoveArrive(h) PROVE TypeInv'
  <2>1. req[h].obj \in Object
    BY <1>12 DEF MoveArrive, At, RequestOK
  <2>2. QED
    BY <1>12, <2>1, RequestEnds DEF MoveArrive, Acquired, TypeOK
<1>13. ASSUME NEW h \in Handler, Swarm(h) PROVE TypeInv'
  <2>1. req[h].at = "swarm" /\ "launch" \in Location
    BY <1>13 DEF Swarm, At, Location
  <2>2. req' \in [Handler -> Request] /\ RequestOK'
    BY <1>13, <2>1, RequestEnds, RequestGoesOn DEF Swarm
  <2>3. QED
    BY <1>13, <2>2 DEF Swarm, TypeOK
<1>14. ASSUME NEW h \in Handler, Launch(h) PROVE TypeInv'
  <2>1. req[h].obj \in Object
    BY <1>14 DEF Launch, At, RequestOK
  <2>2. QED
    BY <1>14, <2>1, RequestEnds DEF Launch, TypeOK
<1>15. ASSUME NEW o \in Object, TurnWrite(o) PROVE TypeInv'
  BY <1>15 DEF TurnWrite, Acquired, TypeOK, RequestOK
<1>16. ASSUME NEW o \in Object, EndTurn(o) PROVE TypeInv'
  BY <1>16 DEF EndTurn, TypeOK, RequestOK
<1>17. ASSUME NEW o \in Object, FinishRelease(o) PROVE TypeInv'
  BY <1>17 DEF FinishRelease, Released, TypeOK, RequestOK
<1>18. ASSUME NEW o \in Object, FinishPop(o) PROVE TypeInv'
  BY <1>18 DEF FinishPop, TypeOK, RequestOK
<1>19. ASSUME NEW o \in Object, FinishPick(o) PROVE TypeInv'
  <2>1. Latest(OpenIn(root[o])) \subseteq Id
    BY DEF Latest, OpenIn
  <2>2. pick' \in [Object -> Id \cup {None}] /\ active' \in Id
    <3>1. CASE UNCHANGED pick
      BY <1>19, <3>1 DEF FinishPick, TypeOK
    <3>2. CASE \E i \in Id : pick' = [pick EXCEPT ![o] = i]
      BY <1>19, <3>2 DEF FinishPick, TypeOK
    <3>3. QED
      BY <1>19, <2>1, <3>1, <3>2 DEF FinishPick
  <2>3. fin' \in [Object -> Finishing \cup {"no", "done"}]
    <3>1. PICK v \in {"done", "assign", "renew"} : fin' = [fin EXCEPT ![o] = v]
      BY <1>19, Zenon DEF FinishPick
    <3>2. QED
      BY <3>1 DEF TypeOK
  <2>4. TypeOK'
    BY <1>19, <2>2, <2>3 DEF FinishPick, TypeOK
  <2>5. PickOK'
    BY <1>19, <2>1 DEF FinishPick, TypeOK
  <2>6. QED
    BY <1>19, <2>4, <2>5 DEF FinishPick, RequestOK
<1>20. ASSUME NEW o \in Object, FinishRenew(o) PROVE TypeInv'
  <2>1. PICK n \in Object :
          /\ NewSession(n, lastId + 1, root[o])
          /\ fin' = [fin EXCEPT ![o] = "assign", ![n] = "no"]
          /\ pick' = [pick EXCEPT ![o] = lastId + 1]
    BY <1>20 DEF FinishRenew
  <2>2. root[o] \in Project \cup {None} /\ lastId + 1 \in Id
    BY <2>1 DEF NewSession, TypeOK
  <2>3. TypeOK'
    BY <1>20, <2>1, <2>2 DEF FinishRenew, NewSession, Construct, Acquired, TypeOK
  <2>4. PickOK'
    BY <1>20, <2>1, <2>2 DEF TypeOK
  <2>5. QED
    BY <1>20, <2>3, <2>4 DEF FinishRenew, RequestOK
<1>21. ASSUME NEW o \in Object, FinishAssign(o) PROVE TypeInv'
  BY <1>21 DEF FinishAssign, TypeOK, RequestOK
<1>22. ASSUME NEW i \in Id, SwarmWrite(i) PROVE TypeInv'
  BY <1>22 DEF SwarmWrite, Acquired, SwarmRunning, TypeOK, RequestOK
<1>23. ASSUME NEW i \in Id, SwarmEnd(i) PROVE TypeInv'
  BY <1>23 DEF SwarmEnd, TypeOK, RequestOK
<1>24. CASE Reload
  BY <1>24 DEF Reload, SaveAll, TypeOK, RequestOK
<1>25. CASE Exec
  BY <1>25 DEF Exec, Reopened, Acquired, Idle, Request, Location, TypeOK, RequestOK
<1>26. CASE UNCHANGED vars
  BY <1>26 DEF vars, TypeOK, RequestOK
<1>27. QED
  BY <1>1, <1>2, <1>3, <1>4, <1>5, <1>6, <1>7, <1>8, <1>9, <1>10, <1>11, <1>12, <1>13,
     <1>14, <1>15, <1>16, <1>17, <1>18, <1>19, <1>20, <1>21, <1>22, <1>23, <1>24, <1>25,
     <1>26 DEF Next, Serve, Finish

(* The state of GuiState, its sessions and its threads keeps its type.     *)
THEOREM TypeCorrect == Spec => []TypeOK
<1>1. Init => TypeInv
  BY DaemonInvInitial DEF DaemonInv
<1>2. TypeInv => TypeOK
  BY DEF TypeInv
<1>3. QED
  BY <1>1, <1>2, TypeInvStep, PTL DEF Spec

(***************************************************************************)
(* _finish_close and a live turn exclude each other: marking a session for *)
(* closing bars the next turn, and a session with a live turn is finished  *)
(* by that turn's end only.                                                *)
(***************************************************************************)
LEMMA DaemonInvStep == DaemonInv /\ [Next]_vars => DaemonInv'
<1> SUFFICES ASSUME DaemonInv, [Next]_vars PROVE FinishOnlyWhenIdle'
  BY TypeInvStep DEF DaemonInv
<1> USE DEF DaemonInv, TypeInv, TypeOK, FinishOnlyWhenIdle, registry, fields, finish
<1>1. ASSUME NEW h \in Handler, NEW op \in Requests, NEW i \in Id, NEW p \in Project,
             Receive(h, op, i, p)
      PROVE FinishOnlyWhenIdle'
  BY <1>1 DEF Receive
<1>2. ASSUME NEW h \in Handler, Load(h) PROVE FinishOnlyWhenIdle'
  BY <1>2 DEF Load, Construct, Unreachable
<1>3. ASSUME NEW h \in Handler, Register(h) \/ Open(h) \/ Close(h) \/ CloseReply(h)
      PROVE FinishOnlyWhenIdle'
  BY <1>3 DEF Register, Open, Close, CloseReply
<1>4. ASSUME NEW h \in Handler, New(h) PROVE FinishOnlyWhenIdle'
  BY <1>4 DEF New, NewSession, Construct, Unreachable
<1>5. ASSUME NEW h \in Handler, Message(h) PROVE FinishOnlyWhenIdle'
  BY <1>5 DEF Message
<1>6. ASSUME NEW h \in Handler, CloseMark(h) PROVE FinishOnlyWhenIdle'
  BY <1>6 DEF CloseMark
<1>7. ASSUME NEW h \in Handler,
             Move(h) \/ MoveRelease(h) \/ MoveArrive(h) \/ Swarm(h) \/ Launch(h)
      PROVE FinishOnlyWhenIdle'
  BY <1>7 DEF Move, MoveRelease, MoveArrive, Swarm, Launch
<1>8. ASSUME NEW o \in Object, TurnWrite(o) PROVE FinishOnlyWhenIdle'
  BY <1>8 DEF TurnWrite
<1>9. ASSUME NEW o \in Object, EndTurn(o) PROVE FinishOnlyWhenIdle'
  BY <1>9 DEF EndTurn
<1>10. ASSUME NEW o \in Object, FinishRelease(o) \/ FinishPop(o) PROVE FinishOnlyWhenIdle'
  BY <1>10 DEF FinishRelease, FinishPop
<1>11. ASSUME NEW o \in Object, FinishPick(o) PROVE FinishOnlyWhenIdle'
  BY <1>11 DEF FinishPick
<1>12. ASSUME NEW o \in Object, FinishRenew(o) PROVE FinishOnlyWhenIdle'
  BY <1>12 DEF FinishRenew, NewSession, Construct, Unreachable
<1>13. ASSUME NEW o \in Object, FinishAssign(o) PROVE FinishOnlyWhenIdle'
  BY <1>13 DEF FinishAssign
<1>14. ASSUME NEW i \in Id, SwarmWrite(i) \/ SwarmEnd(i) PROVE FinishOnlyWhenIdle'
  BY <1>14 DEF SwarmWrite, SwarmEnd
<1>15. CASE Reload
  BY <1>15 DEF Reload
<1>16. CASE Exec
  BY <1>16 DEF Exec
<1>17. CASE UNCHANGED vars
  BY <1>17 DEF vars
<1>18. QED
  BY <1>1, <1>2, <1>3, <1>4, <1>5, <1>6, <1>7, <1>8, <1>9, <1>10, <1>11, <1>12, <1>13,
     <1>14, <1>15, <1>16, <1>17 DEF Next, Serve, Finish

(***************************************************************************)
(* However many handlers open, close, move and drive sessions at the same  *)
(* time, _finish_close never runs for a session with a live turn.          *)
(***************************************************************************)
THEOREM NoCloseUnderTurn == Spec => []FinishOnlyWhenIdle
<1>1. DaemonInv => FinishOnlyWhenIdle
  BY DEF DaemonInv
<1>2. QED
  BY <1>1, DaemonInvInitial, DaemonInvStep, PTL DEF Spec

(***************************************************************************)
(* A session is marked by close_session, which then finishes the close     *)
(* itself, or leaves it to the live turn: closing and running change in    *)
(* one locked section each, so that one of the two sees the other.         *)
(***************************************************************************)
LEMMA NoCloseIsLostStep == TypeOK /\ NoCloseIsLost /\ [Next]_vars => NoCloseIsLost'
<1> SUFFICES ASSUME TypeOK, NoCloseIsLost, [Next]_vars PROVE NoCloseIsLost'
  OBVIOUS
<1> USE DEF TypeOK, NoCloseIsLost, registry, fields, finish
<1>1. ASSUME NEW h \in Handler, NEW op \in Requests, NEW i \in Id, NEW p \in Project,
             Receive(h, op, i, p)
      PROVE NoCloseIsLost'
  BY <1>1 DEF Receive
<1>2. ASSUME NEW h \in Handler, Load(h) PROVE NoCloseIsLost'
  BY <1>2 DEF Load, Construct
<1>3. ASSUME NEW h \in Handler, Register(h) \/ Open(h) \/ Close(h) \/ CloseReply(h)
      PROVE NoCloseIsLost'
  BY <1>3 DEF Register, Open, Close, CloseReply
<1>4. ASSUME NEW h \in Handler, New(h) PROVE NoCloseIsLost'
  BY <1>4 DEF New, NewSession, Construct
<1>5. ASSUME NEW h \in Handler, Message(h) PROVE NoCloseIsLost'
  BY <1>5 DEF Message
<1>6. ASSUME NEW h \in Handler, CloseMark(h) PROVE NoCloseIsLost'
  BY <1>6 DEF CloseMark
<1>7. ASSUME NEW h \in Handler,
             Move(h) \/ MoveRelease(h) \/ MoveArrive(h) \/ Swarm(h) \/ Launch(h)
      PROVE NoCloseIsLost'
  BY <1>7 DEF Move, MoveRelease, MoveArrive, Swarm, Launch
<1>8. ASSUME NEW o \in Object, TurnWrite(o) PROVE NoCloseIsLost'
  BY <1>8 DEF TurnWrite
<1>9. ASSUME NEW o \in Object, EndTurn(o) PROVE NoCloseIsLost'
  BY <1>9 DEF EndTurn
<1>10. ASSUME NEW o \in Object, FinishRelease(o) \/ FinishPop(o) PROVE NoCloseIsLost'
  BY <1>10 DEF FinishRelease, FinishPop
<1>11. ASSUME NEW o \in Object, FinishPick(o) PROVE NoCloseIsLost'
  BY <1>11 DEF FinishPick
<1>12. ASSUME NEW o \in Object, FinishRenew(o) PROVE NoCloseIsLost'
  BY <1>12 DEF FinishRenew, NewSession, Construct
<1>13. ASSUME NEW o \in Object, FinishAssign(o) PROVE NoCloseIsLost'
  BY <1>13 DEF FinishAssign
<1>14. ASSUME NEW i \in Id, SwarmWrite(i) \/ SwarmEnd(i) PROVE NoCloseIsLost'
  BY <1>14 DEF SwarmWrite, SwarmEnd
<1>15. CASE Reload
  BY <1>15 DEF Reload
<1>16. CASE Exec
  BY <1>16 DEF Exec
<1>17. CASE UNCHANGED vars
  BY <1>17 DEF vars
<1>18. QED
  BY <1>1, <1>2, <1>3, <1>4, <1>5, <1>6, <1>7, <1>8, <1>9, <1>10, <1>11, <1>12, <1>13,
     <1>14, <1>15, <1>16, <1>17 DEF Next, Serve, Finish

(* However many handlers race with the turns, no close is lost.            *)
THEOREM ClosesAreTakenUp == Spec => []NoCloseIsLost
<1>1. Init => NoCloseIsLost
  BY DEF Init, NoCloseIsLost
<1>2. TypeOK /\ NoCloseIsLost /\ [Next]_vars => NoCloseIsLost'
  BY NoCloseIsLostStep
<1>3. QED
  BY <1>1, <1>2, TypeCorrect, PTL DEF Spec


-----------------------------------------------------------------------------
(***************************************************************************)
(* One client at a time.  With two handlers get_session may register an    *)
(* object over another that has a turn, and nothing below holds.  With one *)
(* the object that is registered under an id is the one that writes and    *)
(* closes: whatever a request has found of its session is still so when    *)
(* the request acts on it, but for a deferred close, which leaves its mark *)
(* on the object.                                                          *)
(***************************************************************************)
OneClient == \A h, k \in Handler : h = k

\* Ids are handed out in order, and an object is registered under its own.
Numbered ==
  /\ \A i \in Id : sessions[i] # None => ident[sessions[i]] = i
  /\ \A o \in Object : ident[o] # None => ident[o] <= lastId
  /\ \A i \in Id : home[i] # None => i <= lastId

OwnsHandle(o) == ident[o] # None /\ sessions[ident[o]] = o

\* Who writes for a session, or is about to release it, is its object.
WorkersRegistered ==
  \A o \in Object : running[o] \/ fin[o] \in {"release", "pop"} => OwnsHandle(o)

\* Neither a turn nor the release of the lock goes with a swarm.
SwarmAlone ==
  \A o \in Object : running[o] \/ fin[o] = "release" => ~SwarmRunning(ident[o])

\* What the request r has found still holds.
Fits(r) ==
  /\ r.at \notin {"idle", "new"} => r.id <= lastId
  /\ r.at \in {"load", "register"} => sessions[r.id] = None
  /\ r.at \notin {"idle", "new", "load"} => ident[r.obj] = r.id
  /\ r.at \notin {"idle", "new", "load", "register"} =>
       sessions[r.id] = r.obj \/ (sessions[r.id] = None /\ closing[r.obj])
  /\ r.at \in {"mark", "launch", "release"} => ~SwarmRunning(r.id)
  /\ r.at \in {"launch", "release"} => ~running[r.obj]
  /\ r.at = "launch" => ~closing[r.obj]

RequestsFit == \A h \in Handler : Fits(req[h])

Tidy == Numbered /\ WorkersRegistered /\ SwarmAlone /\ RequestsFit

ClientInv == DaemonInv /\ Tidy

LEMMA ClientInvInitial == Init => ClientInv
<1> SUFFICES ASSUME Init PROVE Tidy
  BY DaemonInvInitial DEF ClientInv
<1>1. Numbered
  BY DEF Init, Numbered
<1>2. WorkersRegistered /\ SwarmAlone
  BY DEF Init, WorkersRegistered, SwarmAlone
<1>3. RequestsFit
  BY DEF Init, RequestsFit, Fits, Idle
<1> QED
  BY <1>1, <1>2, <1>3 DEF Tidy

\* A writer's or closer's session has no other writer.
LEMMA OneWriter ==
  ASSUME ClientInv, NEW o \in Object, NEW x \in Object, ident[x] = ident[o],
         OwnsHandle(o), running[x] \/ fin[x] \in {"release", "pop"}
  PROVE  x = o
BY DEF ClientInv, Tidy, WorkersRegistered, OwnsHandle

\* The object of a request is the only one that may write for its session.
LEMMA OwnRequest ==
  ASSUME ClientInv, NEW h \in Handler, req[h].at \notin {"idle", "new", "load", "register"},
         NEW x \in Object, ident[x] = req[h].id, running[x] \/ fin[x] \in {"release", "pop"}
  PROVE  x = req[h].obj
<1>1. req[h].id \in Id /\ sessions[req[h].id] = x
  BY DEF ClientInv, DaemonInv, TypeInv, RequestOK, Tidy, WorkersRegistered, OwnsHandle
<1> QED
  BY <1>1 DEF ClientInv, DaemonInv, TypeInv, TypeOK, Tidy, RequestsFit, Fits

LEMMA OtherRequestsFit ==
  ASSUME OneClient, NEW h \in Handler, Fits(req[h])'
  PROVE  RequestsFit'
BY DEF OneClient, RequestsFit


\* What is registered, and who works for it, does not change with a request
\* that only goes on or ends.
LEMMA TablesKept ==
  ASSUME ClientInv,
         UNCHANGED <<sessions, lastId, home, ident, running, swarm>>,
         \A o \in Object : fin'[o] \in {"release", "pop"} => fin'[o] = fin[o]
  PROVE  Numbered' /\ WorkersRegistered' /\ SwarmAlone'
<1>1. Numbered /\ WorkersRegistered /\ SwarmAlone
  BY DEF ClientInv, Tidy
<1>2. Numbered'
  BY <1>1 DEF Numbered
<1>3. WorkersRegistered'
  BY <1>1 DEF WorkersRegistered, OwnsHandle
<1>4. SwarmAlone'
  BY <1>1 DEF SwarmAlone, SwarmRunning
<1> QED
  BY <1>2, <1>3, <1>4

LEMMA RequestsKept ==
  ASSUME ClientInv, UNCHANGED <<sessions, lastId, ident, running, closing, swarm, req>>
  PROVE  RequestsFit'
BY DEF ClientInv, Tidy, RequestsFit, Fits, SwarmRunning

\* A handler that has answered waits for the next request.
LEMMA IdleFits == ASSUME OneClient, TypeOK, NEW h \in Handler, Reply(h) PROVE RequestsFit'
<1>1. req'[h] = Idle
  BY DEF Reply, TypeOK
<1>2. Fits(req[h])'
  BY <1>1 DEF Fits, Idle
<1> QED
  BY <1>2, OtherRequestsFit

\* A handler that goes on knows what it knew, and what it has just checked.
LEMMA NextFits ==
  ASSUME OneClient, ClientInv, NEW h \in Handler, NEW to \in Location,
         req[h].at \notin {"idle", "new", "load", "register"}, to \notin {"idle", "new", "load", "register"},
         Step(h, to), UNCHANGED <<sessions, lastId, ident, running, swarm>>,
         closing'[req[h].obj] \/ UNCHANGED closing,
         to \in {"mark", "launch", "release"} => ~SwarmRunning(req[h].id),
         to \in {"launch", "release"} => ~running[req[h].obj],
         to = "launch" => ~closing'[req[h].obj]
  PROVE  RequestsFit'
<1>1. req'[h] = [req[h] EXCEPT !.at = to] /\ req[h] \in Request
  BY DEF Step, ClientInv, DaemonInv, TypeInv, TypeOK
<1>2. req'[h].at = to /\ req'[h].id = req[h].id /\ req'[h].obj = req[h].obj
  BY <1>1 DEF Request
<1>3. Fits(req[h])
  BY DEF ClientInv, Tidy, RequestsFit
<1>4. Fits(req[h])'
  BY <1>2, <1>3 DEF Fits, SwarmRunning
<1> QED
  BY <1>4, OtherRequestsFit

LEMMA TidyStep == OneClient /\ ClientInv /\ [Next]_vars => Tidy'
<1> SUFFICES ASSUME OneClient, ClientInv, [Next]_vars PROVE Tidy'
  OBVIOUS
<1>t. /\ TypeOK /\ RequestOK /\ PickOK /\ FinishOnlyWhenIdle
      /\ Numbered /\ WorkersRegistered /\ SwarmAlone /\ RequestsFit
  BY DEF ClientInv, DaemonInv, TypeInv, Tidy
<1>i. /\ \A o \in Object : ident[o] \in Id \cup {None} /\ fin[o] \in Finishing \cup {"no", "done"}
      /\ \A i \in Id : sessions[i] \in Object \cup {None}
      /\ lastId \in Id /\ lastId \in Nat
      /\ \A h \in Handler : req[h] \in Request
  BY <1>t DEF TypeOK
<1>r. ASSUME NEW h \in Handler, req[h].at \notin {"idle", "new", "load"}
      PROVE  req[h].id \in Id /\ req[h].obj \in Object /\ ident[req[h].obj] = req[h].id /\ Fits(req[h])
  BY <1>t, <1>r DEF RequestOK, RequestsFit, Fits
<1> USE DEF registry, fields, finish
<1>1. ASSUME NEW h \in Handler, NEW op \in Requests, NEW i \in Id, NEW p \in Project,
             Receive(h, op, i, p)
      PROVE  Tidy'
  <2>1. /\ req'[h].at = (IF op # "new" /\ sessions[i] = None THEN "load" ELSE op)
        /\ req'[h].id = i /\ req'[h].obj = (IF op = "new" THEN None ELSE sessions[i])
        /\ op \in {"message", "open", "new", "close", "move", "swarm"}
        /\ op # "new" => sessions[i] # None \/ home[i] # None
    BY <1>1, <1>t DEF Receive, TypeOK
  <2>2. i <= lastId \/ op = "new"
    BY <1>t, <1>i, <2>1 DEF Numbered
  <2>3. Fits(req[h])'
    BY <1>1, <1>t, <1>i, <2>1, <2>2 DEF Receive, Fits, Numbered
  <2>4. RequestsFit'
    BY <2>3, OtherRequestsFit
  <2>5. Numbered' /\ WorkersRegistered' /\ SwarmAlone'
    BY <1>1, TablesKept DEF Receive
  <2> QED
    BY <2>4, <2>5 DEF Tidy
<1>2. ASSUME NEW h \in Handler, Load(h) PROVE Tidy'
  <2>1. req[h].at = "load" /\ req[h].id \in Id /\ req[h].id <= lastId /\ sessions[req[h].id] = None
    BY <1>2, <1>t DEF Load, At, RequestOK, RequestsFit, Fits
  <2>2. PICK o \in Object :
          /\ Construct(o, req[h].id, home[req[h].id])
          /\ fin' = [fin EXCEPT ![o] = "no"]
          /\ req' = [req EXCEPT ![h].at = "register", ![h].obj = o]
    BY <1>2 DEF Load
  <2>3. UNCHANGED <<sessions, lastId, home, swarm>>
    BY <1>2 DEF Load
  <2>4. Unreachable(o) /\ ident' = [ident EXCEPT ![o] = req[h].id] /\ running' = [running EXCEPT ![o] = FALSE]
    BY <2>2 DEF Construct
  <2>5. Numbered'
    BY <1>t, <1>i, <2>1, <2>3, <2>4 DEF Numbered, Unreachable, TypeOK
  <2>6. WorkersRegistered'
    BY <1>t, <1>i, <2>2, <2>3, <2>4 DEF WorkersRegistered, OwnsHandle, Unreachable, TypeOK
  <2>7. SwarmAlone'
    BY <1>t, <1>i, <2>2, <2>3, <2>4 DEF SwarmAlone, SwarmRunning, Unreachable, TypeOK
  <2>8. req'[h].at = "register" /\ req'[h].id = req[h].id /\ req'[h].obj = o
    BY <1>t, <2>2 DEF TypeOK, Request
  <2>9. Fits(req[h])'
    BY <1>t, <2>1, <2>3, <2>4, <2>8 DEF Fits, TypeOK
  <2> QED
    BY <2>5, <2>6, <2>7, <2>9, OtherRequestsFit DEF Tidy
<1>3. ASSUME NEW h \in Handler, Register(h) PROVE Tidy'
  <2>1. req[h].at = "register" /\ req[h].id <= lastId /\ sessions[req[h].id] = None
    BY <1>3, <1>t DEF Register, At, RequestsFit, Fits
  <2>2. req[h].id \in Id /\ req[h].obj \in Object /\ ident[req[h].obj] = req[h].id
    BY <2>1, <1>r
  <2>3. /\ sessions' = [sessions EXCEPT ![req[h].id] = req[h].obj]
        /\ UNCHANGED <<lastId, home, ident, running, fin, swarm>>
    BY <1>3 DEF Register
  <2>4. Numbered'
    BY <1>t, <1>i, <2>2, <2>3 DEF Numbered, TypeOK
  <2>5. WorkersRegistered'
    BY <1>t, <1>i, <2>1, <2>2, <2>3 DEF WorkersRegistered, OwnsHandle, TypeOK
  <2>6. SwarmAlone'
    BY <1>t, <2>3 DEF SwarmAlone, SwarmRunning
  <2>7. /\ req'[h].at = req[h].op /\ req'[h].id = req[h].id /\ req'[h].obj = req[h].obj
        /\ req[h].op \in {"message", "open", "new", "close", "move", "swarm"}
    BY <1>3, <1>t, <1>i, <2>1, SMTT(30) DEF Register, Step, Request, RequestOK, TypeOK
  <2>8. Fits(req[h])'
    BY <1>t, <2>1, <2>2, <2>3, <2>7 DEF Fits, TypeOK
  <2> QED
    BY <2>4, <2>5, <2>6, <2>8, OtherRequestsFit DEF Tidy
<1>4. ASSUME NEW h \in Handler, Open(h) PROVE Tidy'
  <2>1. req[h].at = "open"
    BY <1>4 DEF Open, At
  <2>2. /\ req[h].id \in Id /\ req[h].obj \in Object /\ ident[req[h].obj] = req[h].id
        /\ sessions[req[h].id] \in {req[h].obj, None}
    BY <2>1, <1>r DEF Fits
  <2>3. /\ sessions' = [sessions EXCEPT ![req[h].id] = req[h].obj]
        /\ UNCHANGED <<lastId, home, ident, running, fin, swarm>>
    BY <1>4 DEF Open
  <2>4. Numbered'
    BY <1>t, <1>i, <2>2, <2>3 DEF Numbered, TypeOK
  <2>5. WorkersRegistered'
    BY <1>t, <1>i, <2>1, <2>2, <2>3 DEF WorkersRegistered, OwnsHandle, TypeOK
  <2>6. SwarmAlone'
    BY <1>t, <2>3 DEF SwarmAlone, SwarmRunning
  <2>7. RequestsFit'
    BY <1>4, <1>t, IdleFits DEF Open
  <2> QED
    BY <2>4, <2>5, <2>6, <2>7 DEF Tidy
<1>n. ASSUME NEW o \in Object, NEW p \in Project \cup {None}, NewSession(o, lastId + 1, p),
             fin'[o] = "no", \A x \in Object \ {o} : fin'[x] \in {"release", "pop"} => fin'[x] = fin[x],
             UNCHANGED swarm
      PROVE  /\ Numbered' /\ WorkersRegistered' /\ SwarmAlone'
             /\ lastId' = lastId + 1 /\ lastId + 1 \in Id
             /\ sessions' = [sessions EXCEPT ![lastId + 1] = o] /\ sessions[lastId + 1] = None
             /\ Unreachable(o) /\ ident' = [ident EXCEPT ![o] = lastId + 1]
             /\ running' = [running EXCEPT ![o] = FALSE] /\ closing' = [closing EXCEPT ![o] = FALSE]
  <2>1. /\ lastId' = lastId + 1 /\ lastId + 1 \in Id /\ home' = home
        /\ sessions' = [sessions EXCEPT ![lastId + 1] = o]
        /\ Unreachable(o) /\ ident' = [ident EXCEPT ![o] = lastId + 1]
        /\ running' = [running EXCEPT ![o] = FALSE] /\ closing' = [closing EXCEPT ![o] = FALSE]
    BY <1>n, <1>i DEF NewSession, Construct
  <2>2. \A x \in Object : ident[x] # lastId + 1
    <3>1. lastId + 1 # None /\ ~(lastId + 1 <= lastId)
      BY <1>i, <2>1
    <3>2. \A x \in Object : ident[x] # None => ident[x] <= lastId
      BY <1>t DEF Numbered
    <3> QED
      BY <3>1, <3>2
  <2>3. sessions[lastId + 1] = None
    BY <1>t, <1>i, <2>1, <2>2 DEF Numbered
  <2>4. Numbered'
    BY <1>t, <1>i, <2>1, <2>2 DEF Numbered, TypeOK, Unreachable
  <2>5. WorkersRegistered'
    BY <1>n, <1>t, <1>i, <2>1, <2>2 DEF WorkersRegistered, OwnsHandle, TypeOK, Unreachable
  <2>6. SwarmAlone'
    BY <1>n, <1>t, <1>i, <2>1 DEF SwarmAlone, SwarmRunning, TypeOK
  <2> QED
    BY <2>1, <2>3, <2>4, <2>5, <2>6
<1>5. ASSUME NEW h \in Handler, New(h) PROVE Tidy'
  <2>1. PICK o \in Object : NewSession(o, lastId + 1, req[h].to) /\ fin' = [fin EXCEPT ![o] = "no"]
    BY <1>5 DEF New
  <2>2. req[h].to \in Project \cup {None}
    BY <1>i DEF Request
  <2>3. UNCHANGED swarm /\ fin'[o] = "no" /\ \A x \in Object \ {o} : fin'[x] = fin[x]
    BY <1>5, <1>t, <2>1 DEF New, TypeOK
  <2>4. Numbered' /\ WorkersRegistered' /\ SwarmAlone'
    BY <1>n, <2>1, <2>2, <2>3
  <2>5. RequestsFit'
    BY <1>5, <1>t, IdleFits DEF New
  <2> QED
    BY <2>4, <2>5 DEF Tidy
<1>6. ASSUME NEW h \in Handler, Message(h) PROVE Tidy'
  <2>1. req[h].at = "message"
    BY <1>6 DEF Message, At
  <2>2. req[h].obj \in Object /\ ident[req[h].obj] \in Id
    BY <2>1, <1>r
  <2>3. \A o \in Object : running'[o] => running[o] \/ (OwnsHandle(o) /\ ~SwarmRunning(ident[o]))
    BY <1>6, <1>t, <2>2 DEF Message, OwnsHandle, TypeOK
  <2>4. UNCHANGED <<sessions, lastId, home, ident, fin, swarm>>
    BY <1>6 DEF Message
  <2>5. Numbered'
    BY <1>t, <2>4 DEF Numbered
  <2>6. WorkersRegistered'
    BY <1>t, <2>3, <2>4 DEF WorkersRegistered, OwnsHandle
  <2>7. SwarmAlone'
    BY <1>t, <2>3, <2>4 DEF SwarmAlone, SwarmRunning
  <2>8. RequestsFit'
    BY <1>6, <1>t, IdleFits DEF Message
  <2> QED
    BY <2>5, <2>6, <2>7, <2>8 DEF Tidy
<1>7. ASSUME NEW h \in Handler, Close(h) PROVE Tidy'
  <2>1. req[h].at = "close" /\ UNCHANGED <<sessions, lastId, home, ident, running, closing, fin, swarm>>
    BY <1>7 DEF Close, At
  <2>2. RequestsFit'
    <3>1. CASE SwarmRunning(req[h].id)
      BY <1>7, <3>1, <1>t, IdleFits DEF Close
    <3>2. CASE ~SwarmRunning(req[h].id)
      BY <1>7, <3>2, <2>1, NextFits DEF Close, Location
    <3> QED
      BY <3>1, <3>2
  <2> QED
    BY <2>1, <2>2, TablesKept DEF Tidy
<1>8. ASSUME NEW h \in Handler, CloseMark(h) PROVE Tidy'
  <2>1. req[h].at = "mark" /\ UNCHANGED <<sessions, lastId, home, ident, running, swarm>>
    BY <1>8 DEF CloseMark, At
  <2>2. /\ req[h].id \in Id /\ req[h].obj \in Object /\ ident[req[h].obj] = req[h].id
        /\ ~SwarmRunning(req[h].id)
        /\ sessions[req[h].id] = req[h].obj \/ (sessions[req[h].id] = None /\ closing[req[h].obj])
    BY <2>1, <1>r DEF Fits
  <2>3. CASE closing[req[h].obj] \/ running[req[h].obj]
    <3>1. Reply(h) /\ UNCHANGED fin
      BY <1>8, <2>3 DEF CloseMark
    <3>2. RequestsFit'
      BY <3>1, <1>t, IdleFits
    <3> QED
      BY <2>1, <3>1, <3>2, TablesKept DEF Tidy
  <2>4. CASE ~(closing[req[h].obj] \/ running[req[h].obj])
    <3>1. Step(h, "closing") /\ fin' = [fin EXCEPT ![req[h].obj] = "release"] /\ closing'[req[h].obj]
      BY <1>8, <1>t, <2>2, <2>4 DEF CloseMark, TypeOK
    <3>2. OwnsHandle(req[h].obj)
      BY <2>2, <2>4 DEF OwnsHandle
    <3>3. Numbered'
      BY <1>t, <2>1 DEF Numbered
    <3>4. WorkersRegistered'
      BY <1>t, <2>1, <3>1, <3>2 DEF WorkersRegistered, OwnsHandle, TypeOK
    <3>5. SwarmAlone'
      BY <1>t, <2>1, <2>2, <3>1 DEF SwarmAlone, SwarmRunning, TypeOK
    <3>6. RequestsFit'
      BY <2>1, <3>1, NextFits DEF Location
    <3> QED
      BY <3>3, <3>4, <3>5, <3>6 DEF Tidy
  <2> QED
    BY <2>3, <2>4
<1>9. ASSUME NEW h \in Handler, CloseReply(h) PROVE Tidy'
  <2>1. RequestsFit'
    BY <1>9, <1>t, IdleFits DEF CloseReply
  <2> QED
    BY <1>9, <2>1, TablesKept DEF CloseReply, Tidy
<1>10. ASSUME NEW h \in Handler, Move(h) PROVE Tidy'
  <2>1. req[h].at = "move" /\ UNCHANGED <<sessions, lastId, home, ident, running, closing, fin, swarm>>
    BY <1>10 DEF Move, At
  <2>2. ident[req[h].obj] = req[h].id
    BY <2>1, <1>r
  <2>3. RequestsFit'
    <3>1. CASE Reply(h)
      BY <3>1, <1>t, IdleFits
    <3>2. CASE Step(h, "release") /\ ~running[req[h].obj] /\ ~SwarmRunning(req[h].id)
      BY <3>2, <2>1, NextFits DEF Location
    <3> QED
      BY <1>10, <2>2, <3>1, <3>2 DEF Move
  <2> QED
    BY <2>1, <2>3, TablesKept DEF Tidy
<1>11. ASSUME NEW h \in Handler, MoveRelease(h) PROVE Tidy'
  <2>1. /\ req[h].at = "release" /\ Step(h, "arrive")
        /\ UNCHANGED <<sessions, lastId, home, ident, running, closing, fin, swarm>>
    BY <1>11 DEF MoveRelease, At
  <2>2. RequestsFit'
    BY <2>1, NextFits DEF Location
  <2> QED
    BY <2>1, <2>2, TablesKept DEF Tidy
<1>12. ASSUME NEW h \in Handler, MoveArrive(h) PROVE Tidy'
  <2>1. req[h].at = "arrive" /\ UNCHANGED <<sessions, lastId, ident, running, fin, swarm>>
    BY <1>12 DEF MoveArrive, At
  <2>2. ident[req[h].obj] \in Id /\ ident[req[h].obj] <= lastId
    BY <2>1, <1>r DEF Fits
  <2>3. Numbered'
    BY <1>12, <1>t, <2>1, <2>2 DEF MoveArrive, Numbered, TypeOK
  <2>4. WorkersRegistered' /\ SwarmAlone'
    BY <1>t, <2>1 DEF WorkersRegistered, OwnsHandle, SwarmAlone, SwarmRunning
  <2>5. RequestsFit'
    BY <1>12, <1>t, IdleFits DEF MoveArrive
  <2> QED
    BY <2>3, <2>4, <2>5 DEF Tidy
<1>13. ASSUME NEW h \in Handler, Swarm(h) PROVE Tidy'
  <2>1. req[h].at = "swarm" /\ UNCHANGED <<sessions, lastId, home, ident, running, closing, fin, swarm>>
    BY <1>13 DEF Swarm, At
  <2>2. ident[req[h].obj] = req[h].id
    BY <2>1, <1>r
  <2>3. RequestsFit'
    <3>1. CASE Reply(h)
      BY <3>1, <1>t, IdleFits
    <3>2. CASE /\ Step(h, "launch") /\ ~running[req[h].obj] /\ ~closing[req[h].obj]
               /\ ~SwarmRunning(req[h].id)
      BY <3>2, <2>1, NextFits DEF Location
    <3> QED
      BY <1>13, <2>2, <3>1, <3>2 DEF Swarm
  <2> QED
    BY <2>1, <2>3, TablesKept DEF Tidy
<1>14. ASSUME NEW h \in Handler, Launch(h) PROVE Tidy'
  <2>1. /\ req[h].at = "launch" /\ UNCHANGED <<sessions, lastId, home, ident, running, fin>>
        /\ swarm' = [swarm EXCEPT ![ident[req[h].obj]] = root[req[h].obj]]
    BY <1>14 DEF Launch, At
  <2>2. /\ req[h].obj \in Object /\ ident[req[h].obj] = req[h].id /\ req[h].id \in Id
        /\ ~running[req[h].obj] /\ ~closing[req[h].obj]
    BY <2>1, <1>r DEF Fits
  <2>3. \A x \in Object : running[x] \/ fin[x] = "release" => ident[x] # req[h].id
    BY <1>t, <2>1, <2>2, OwnRequest DEF FinishOnlyWhenIdle, Finishing
  <2>4. SwarmAlone'
    BY <1>t, <2>1, <2>2, <2>3 DEF SwarmAlone, SwarmRunning, TypeOK
  <2>5. Numbered' /\ WorkersRegistered'
    BY <1>t, <2>1 DEF Numbered, WorkersRegistered, OwnsHandle
  <2>6. RequestsFit'
    BY <1>14, <1>t, IdleFits DEF Launch
  <2> QED
    BY <2>4, <2>5, <2>6 DEF Tidy
<1>15. ASSUME NEW o \in Object, TurnWrite(o) PROVE Tidy'
  BY <1>15, TablesKept, RequestsKept DEF TurnWrite, Tidy
<1>16. ASSUME NEW o \in Object, EndTurn(o) PROVE Tidy'
  <2>1. /\ running[o] /\ running' = [running EXCEPT ![o] = FALSE]
        /\ home' = [home EXCEPT ![ident[o]] = root[o]]
        /\ UNCHANGED <<sessions, lastId, ident, closing, swarm, req>>
        /\ \A x \in Object : fin'[x] \in {"release", "pop"} => x = o \/ fin'[x] = fin[x]
    BY <1>16, <1>t DEF EndTurn, TypeOK
  <2>2. OwnsHandle(o) /\ ~SwarmRunning(ident[o]) /\ ident[o] \in Id /\ ident[o] <= lastId
    BY <1>t, <1>i, <2>1 DEF WorkersRegistered, OwnsHandle, SwarmAlone, Numbered
  <2>3. Numbered'
    BY <1>t, <2>1, <2>2 DEF Numbered, TypeOK
  <2>4. WorkersRegistered'
    BY <1>t, <2>1, <2>2 DEF WorkersRegistered, OwnsHandle, TypeOK
  <2>5. SwarmAlone'
    BY <1>t, <2>1, <2>2 DEF SwarmAlone, SwarmRunning, TypeOK
  <2>6. \A x \in Object : running'[x] => running[x]
    BY <1>t, <2>1 DEF TypeOK
  <2>7. RequestsFit'
    BY <1>t, <1>r, <2>1, <2>6 DEF RequestsFit, Fits, SwarmRunning
  <2> QED
    BY <2>3, <2>4, <2>5, <2>7 DEF Tidy
<1>17. ASSUME NEW o \in Object, FinishRelease(o) PROVE Tidy'
  <2>1. /\ fin[o] = "release" /\ fin' = [fin EXCEPT ![o] = "pop"]
        /\ UNCHANGED <<sessions, lastId, home, ident, running, closing, swarm, req>>
    BY <1>17 DEF FinishRelease
  <2>2. Numbered' /\ WorkersRegistered'
    BY <1>t, <2>1 DEF Numbered, WorkersRegistered, OwnsHandle, TypeOK
  <2>3. SwarmAlone'
    BY <1>t, <2>1 DEF SwarmAlone, SwarmRunning, TypeOK
  <2> QED
    BY <2>1, <2>2, <2>3, RequestsKept DEF Tidy
<1>18. ASSUME NEW o \in Object, FinishPop(o) PROVE Tidy'
  <2>1. /\ fin[o] = "pop" /\ fin' = [fin EXCEPT ![o] = "pick"]
        /\ sessions' = [sessions EXCEPT ![ident[o]] = None]
        /\ UNCHANGED <<lastId, home, ident, running, closing, swarm, req>>
    BY <1>18 DEF FinishPop
  <2>2. OwnsHandle(o) /\ closing[o] /\ ~running[o] /\ ident[o] \in Id
    BY <1>t, <1>i, <2>1 DEF WorkersRegistered, OwnsHandle, FinishOnlyWhenIdle, Finishing
  <2>3. Numbered'
    BY <1>t, <1>i, <2>1, <2>2 DEF Numbered, TypeOK
  <2>4. \A x \in Object : running[x] \/ fin'[x] \in {"release", "pop"} => x # o /\ ident[x] # ident[o]
    BY <1>t, <2>1, <2>2, OneWriter DEF TypeOK
  <2>5. WorkersRegistered'
    BY <1>t, <1>i, <2>1, <2>4 DEF WorkersRegistered, OwnsHandle, TypeOK
  <2>6. SwarmAlone'
    BY <1>t, <2>1 DEF SwarmAlone, SwarmRunning, TypeOK
  <2>7. ASSUME NEW h \in Handler PROVE Fits(req[h])'
    <3>1. Fits(req[h])
      BY <1>t DEF RequestsFit
    <3>2. req'[h] = req[h] /\ \A i \in Id : i # ident[o] => sessions'[i] = sessions[i]
      BY <1>t, <2>1 DEF TypeOK
    <3>3. sessions[ident[o]] = o /\ sessions'[ident[o]] = None
      BY <1>t, <2>1, <2>2 DEF OwnsHandle, TypeOK
    <3>4. req[h].at \in {"load", "register"} => req[h].id \in Id
      BY <1>t DEF RequestOK
    <3>5. ASSUME req[h].at \notin {"idle", "new", "load", "register"}
          PROVE  sessions'[req[h].id] = req[h].obj \/ (sessions'[req[h].id] = None /\ closing'[req[h].obj])
      BY <1>r, <2>1, <2>2, <3>1, <3>2, <3>3, <3>5 DEF Fits
    <3> QED
      BY <2>1, <3>1, <3>2, <3>3, <3>4, <3>5 DEF Fits, SwarmRunning
  <2> QED
    BY <2>3, <2>5, <2>6, <2>7 DEF Tidy, RequestsFit
<1>19. ASSUME NEW o \in Object, FinishPick(o) PROVE Tidy'
  <2>1. UNCHANGED <<sessions, lastId, home, ident, running, closing, swarm, req>>
    BY <1>19 DEF FinishPick
  <2>2. \A x \in Object : fin'[x] \in {"release", "pop"} => fin'[x] = fin[x]
    BY <1>19, <1>t DEF FinishPick, TypeOK
  <2> QED
    BY <2>1, <2>2, TablesKept, RequestsKept DEF Tidy
<1>20. ASSUME NEW o \in Object, FinishRenew(o) PROVE Tidy'
  <2>1. PICK n \in Object :
          NewSession(n, lastId + 1, root[o]) /\ fin' = [fin EXCEPT ![o] = "assign", ![n] = "no"]
    BY <1>20 DEF FinishRenew
  <2>2. fin[o] = "renew" /\ UNCHANGED <<swarm, req>> /\ root[o] \in Project \cup {None}
    BY <1>20, <1>t DEF FinishRenew, TypeOK
  <2>3. fin'[n] = "no" /\ \A x \in Object \ {n} : fin'[x] \in {"release", "pop"} => fin'[x] = fin[x]
    BY <1>t, <2>1 DEF TypeOK
  <2>4. /\ Numbered' /\ WorkersRegistered' /\ SwarmAlone'
        /\ lastId' = lastId + 1 /\ lastId + 1 \in Id
        /\ sessions' = [sessions EXCEPT ![lastId + 1] = n]
        /\ Unreachable(n) /\ ident' = [ident EXCEPT ![n] = lastId + 1]
        /\ running' = [running EXCEPT ![n] = FALSE] /\ closing' = [closing EXCEPT ![n] = FALSE]
    BY <1>n, <2>1, <2>2, <2>3
  <2>5. ASSUME NEW h \in Handler PROVE Fits(req[h])'
    <3>1. Fits(req[h]) /\ req'[h] = req[h] /\ req[h].obj # n
      BY <1>t, <2>2, <2>4 DEF RequestsFit, Unreachable
    <3>2. req[h].at \notin {"idle", "new"} => req[h].id \in Id /\ req[h].id <= lastId
      BY <1>t, <3>1 DEF RequestOK, Fits
    <3>3. req[h].at \notin {"idle", "new"} => sessions'[req[h].id] = sessions[req[h].id]
      BY <1>t, <1>i, <2>4, <3>2 DEF TypeOK
    <3>4. req[h].at \notin {"idle", "new", "load"} =>
            /\ ident'[req[h].obj] = ident[req[h].obj] /\ running'[req[h].obj] = running[req[h].obj]
            /\ closing'[req[h].obj] = closing[req[h].obj]
      BY <1>t, <1>r, <2>4, <3>1 DEF TypeOK
    <3> QED
      BY <1>i, <2>2, <2>4, <3>1, <3>2, <3>3, <3>4 DEF Fits, SwarmRunning
  <2> QED
    BY <2>4, <2>5 DEF Tidy, RequestsFit
<1>21. ASSUME NEW o \in Object, FinishAssign(o) PROVE Tidy'
  <2>1. UNCHANGED <<sessions, lastId, home, ident, running, closing, swarm, req>>
    BY <1>21 DEF FinishAssign
  <2>2. \A x \in Object : fin'[x] \in {"release", "pop"} => fin'[x] = fin[x]
    BY <1>21, <1>t DEF FinishAssign, TypeOK
  <2> QED
    BY <2>1, <2>2, TablesKept, RequestsKept DEF Tidy
<1>22. ASSUME NEW i \in Id, SwarmWrite(i) PROVE Tidy'
  BY <1>22, TablesKept, RequestsKept DEF SwarmWrite, Tidy
<1>23. ASSUME NEW i \in Id, SwarmEnd(i) PROVE Tidy'
  <2>1. /\ UNCHANGED <<sessions, lastId, home, ident, running, closing, fin, req>>
        /\ \A j : SwarmRunning(j)' /\ j \in Id => SwarmRunning(j)
    BY <1>23, <1>t DEF SwarmEnd, SwarmRunning, TypeOK
  <2>2. Numbered' /\ WorkersRegistered'
    BY <1>t, <2>1 DEF Numbered, WorkersRegistered, OwnsHandle
  <2>3. SwarmAlone'
    BY <1>t, <1>i, <2>1 DEF SwarmAlone, WorkersRegistered, OwnsHandle
  <2>4. RequestsFit'
    BY <1>t, <1>r, <2>1 DEF RequestsFit, Fits
  <2> QED
    BY <2>2, <2>3, <2>4 DEF Tidy
<1>24. CASE Reload
  <2>1. UNCHANGED <<sessions, lastId, ident, running, closing, fin, swarm, req>> /\ home' = SaveAll
    BY <1>24 DEF Reload
  <2>2. \A i \in Id : sessions[i] # None => i <= lastId
    BY <1>t, <1>i DEF Numbered
  <2>3. Numbered'
    BY <1>t, <2>1, <2>2 DEF Numbered, SaveAll
  <2>4. WorkersRegistered' /\ SwarmAlone'
    BY <1>t, <2>1 DEF WorkersRegistered, OwnsHandle, SwarmAlone, SwarmRunning
  <2> QED
    BY <2>1, <2>3, <2>4, RequestsKept DEF Tidy
<1>25. CASE Exec
  <2>1. PICK o \in Object, i \in Id, p \in Project :
          /\ Reopened(i, p)
          /\ sessions' = [j \in Id |-> IF j = i THEN o ELSE None]
          /\ lastId' = IF i > lastId THEN i ELSE lastId
          /\ ident' = [x \in Object |-> IF x = o THEN i ELSE None]
    BY <1>25 DEF Exec
  <2>2. /\ req' = [h \in Handler |-> Idle] /\ running' = [x \in Object |-> FALSE]
        /\ fin' = [x \in Object |-> "no"] /\ UNCHANGED home
    BY <1>25 DEF Exec
  <2>3. Numbered'
    <3>1. i \in Nat /\ lastId \in Nat /\ lastId' \in Nat /\ i <= lastId' /\ lastId <= lastId'
      BY <1>i, <2>1
    <3>2. \A j \in Id : home[j] # None => j <= lastId
      BY <1>t DEF Numbered
    <3>3. \A j \in Id : home'[j] # None => j <= lastId'
      BY <3>1, <3>2, <2>2
    <3>4. \A x \in Object : ident'[x] # None => ident'[x] <= lastId'
      BY <3>1, <2>1
    <3>5. \A j \in Id : sessions'[j] # None => ident'[sessions'[j]] = j
      BY <2>1
    <3> QED
      BY <3>3, <3>4, <3>5 DEF Numbered
  <2>4. WorkersRegistered' /\ SwarmAlone'
    BY <2>2 DEF WorkersRegistered, SwarmAlone
  <2>5. RequestsFit'
    BY <2>2 DEF RequestsFit, Fits, Idle
  <2> QED
    BY <2>3, <2>4, <2>5 DEF Tidy
<1>26. CASE UNCHANGED vars
  BY <1>26, TablesKept, RequestsKept DEF vars, Tidy
<1> QED
  BY <1>1, <1>2, <1>3, <1>4, <1>5, <1>6, <1>7, <1>8, <1>9, <1>10, <1>11, <1>12, <1>13,
     <1>14, <1>15, <1>16, <1>17, <1>18, <1>19, <1>20, <1>21, <1>22, <1>23, <1>24, <1>25,
     <1>26 DEF Next, Serve, Finish

LEMMA ClientInvHolds == OneClient => (Spec => []ClientInv)
<1> SUFFICES ASSUME OneClient PROVE Spec => []ClientInv
  OBVIOUS
<1>1. ClientInv /\ [Next]_vars => ClientInv'
  BY DaemonInvStep, TidyStep DEF ClientInv
<1> QED
  BY <1>1, ClientInvInitial, PTL DEF Spec

\* With one client, at no time do two turns, or a turn and a swarm, write
\* for one session, whatever is closed, moved, renewed or reloaded meanwhile.
THEOREM SessionsHaveOneWriter == OneClient => (Spec => []OneWriterPerSession)
<1> SUFFICES ASSUME OneClient PROVE Spec => []OneWriterPerSession
  OBVIOUS
<1>1. ASSUME ClientInv PROVE OneWriterPerSession
  <2>1. TypeOK /\ WorkersRegistered /\ SwarmAlone
    BY <1>1 DEF ClientInv, DaemonInv, TypeInv, Tidy
  <2>2. ASSUME NEW i \in Id PROVE Cardinality(Turns(i)) <= 1
    <3>1. Turns(i) = {} \/ Turns(i) = {sessions[i]}
      BY <2>1 DEF Turns, WorkersRegistered, OwnsHandle
    <3>2. Cardinality(Turns(i)) \in {0, 1}
      BY <3>1, FS_EmptySet, FS_Singleton, Zenon
    <3> QED
      BY <3>2
  <2>3. ASSUME NEW i \in Id, SwarmRunning(i) PROVE Turns(i) = {}
    BY <2>1, <2>3 DEF Turns, SwarmAlone
  <2> QED
    BY <2>2, <2>3 DEF OneWriterPerSession
<1> QED
  BY <1>1, ClientInvHolds, PTL

\* With one client, a close releases the lock and pops the handle of its own
\* session only.
THEOREM ClosesTheirOwn == OneClient => (Spec => []CloseOwnsItsSession)
<1> SUFFICES ASSUME OneClient PROVE Spec => []CloseOwnsItsSession
  OBVIOUS
<1>1. ClientInv => CloseOwnsItsSession
  BY DEF ClientInv, Tidy, WorkersRegistered, OwnsHandle, CloseOwnsItsSession
<1> QED
  BY <1>1, ClientInvHolds, PTL

\* With one client, a project's lock is not freed while a turn or a swarm of
\* its owner works there.
THEOREM LockOutlivesTurn == OneClient => (Spec => LockHeldUnderTurn)
<1> SUFFICES ASSUME OneClient PROVE Spec => LockHeldUnderTurn
  OBVIOUS
<1> DEFINE Kept == \A p \in Project :
                     lock[p] # None /\ lock'[p] = None =>
                       /\ \A o \in Turns(lock[p]) : agentRoot[o] # p
                       /\ swarm[lock[p]] # p
<1>1. ASSUME ClientInv, [Next]_vars PROVE [Kept]_vars
  <2> SUFFICES ASSUME Next, NEW p \in Project, lock[p] # None, lock'[p] = None
               PROVE  (\A o \in Turns(lock[p]) : agentRoot[o] # p) /\ swarm[lock[p]] # p
    BY <1>1
  <2>t. TypeOK /\ RequestOK /\ FinishOnlyWhenIdle /\ WorkersRegistered /\ SwarmAlone /\ RequestsFit
    BY <1>1 DEF ClientInv, DaemonInv, TypeInv, Tidy
  <2>1. lock \in [Project -> Id \cup {None}]
    BY <2>t DEF TypeOK
  <2>2. ASSUME NEW q, NEW j, j # None, lock' = Acquired(q, j) PROVE FALSE
    BY <2>1, <2>2 DEF Acquired, Free
  <2>3. ASSUME NEW o \in Object, FinishRelease(o)
        PROVE  lock[p] = ident[o] /\ OwnsHandle(o) /\ ~running[o] /\ ~SwarmRunning(ident[o])
    BY <2>1, <2>3, <2>t
    DEF FinishRelease, Released, WorkersRegistered, SwarmAlone, FinishOnlyWhenIdle
  <2>4. ASSUME NEW h \in Handler, MoveRelease(h)
        PROVE  /\ lock[p] = req[h].id /\ ~SwarmRunning(req[h].id) /\ req[h].at = "release"
               /\ ~running[req[h].obj]
    BY <2>1, <2>4, <2>t DEF MoveRelease, At, Released, RequestsFit, Fits
  <2>5. CASE \E o \in Object : FinishRelease(o)
    <3>1. PICK o \in Object : FinishRelease(o)
      BY <2>5
    <3>2. \A x \in Object : running[x] => ident[x] # ident[o]
      BY <1>1, <2>3, <3>1, OneWriter
    <3> QED
      BY <2>3, <3>1, <3>2 DEF Turns, SwarmRunning
  <2>6. CASE \E h \in Handler : MoveRelease(h)
    <3>1. PICK h \in Handler : MoveRelease(h)
      BY <2>6
    <3>2. \A x \in Object : running[x] => ident[x] # req[h].id
      BY <1>1, <2>4, <3>1, OwnRequest
    <3> QED
      BY <2>4, <3>1, <3>2 DEF Turns, SwarmRunning
  <2>7. ASSUME NEW h \in Handler, Serve(h) PROVE lock' = lock \/ MoveRelease(h)
    <3>1. ASSUME Load(h) PROVE FALSE
      <4>1. req[h].id # None
        BY <2>t, <3>1 DEF Load, At, RequestOK
      <4> QED
        BY <2>2, <3>1, <4>1 DEF Load, Construct
    <3>2. ASSUME New(h) PROVE FALSE
      BY <2>2, <2>t, <3>2 DEF New, NewSession, Construct, TypeOK
    <3>3. ASSUME MoveArrive(h) PROVE FALSE
      <4>1. ident[req[h].obj] # None
        BY <2>t, <3>3 DEF MoveArrive, At, RequestOK, RequestsFit, Fits
      <4> QED
        BY <2>2, <3>3, <4>1 DEF MoveArrive
    <3> QED
      BY <2>7, <3>1, <3>2, <3>3
      DEF Serve, Register, Open, Message, Close, CloseMark, CloseReply, Move, Swarm, Launch
  <2>8. ASSUME NEW o \in Object, TurnWrite(o) \/ EndTurn(o) \/ Finish(o)
        PROVE  lock' = lock \/ FinishRelease(o)
    <3>1. ASSUME TurnWrite(o) PROVE FALSE
      BY <2>2, <2>t, <3>1 DEF TurnWrite, WorkersRegistered, OwnsHandle
    <3>2. ASSUME FinishRenew(o) PROVE FALSE
      BY <2>2, <2>t, <3>2 DEF FinishRenew, NewSession, Construct, TypeOK
    <3> QED
      BY <2>8, <3>1, <3>2 DEF EndTurn, Finish, FinishPop, FinishPick, FinishAssign
  <2>9. ASSUME NEW i \in Id, SwarmWrite(i) \/ SwarmEnd(i) PROVE lock' = lock
    BY <2>2, <2>9 DEF SwarmWrite, SwarmEnd
  <2>10. ASSUME Exec PROVE FALSE
    BY <2>2, <2>10 DEF Exec
  <2> QED
    BY <2>5, <2>6, <2>7, <2>8, <2>9, <2>10 DEF Next, Receive, Reload
<1> QED
  BY <1>1, ClientInvHolds, PTL DEF Spec, LockHeldUnderTurn
=============================================================================
