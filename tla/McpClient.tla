------------------------------ MODULE McpClient ------------------------------
(***************************************************************************)
(* The client of one MCP server (mcp.py): requests of several sessions'    *)
(* threads over one pair of pipes, the thread that reads the answers, and  *)
(* the manager that starts the server and stops it.                        *)
(***************************************************************************)
EXTENDS Naturals

CONSTANTS
  Caller,      \* threads that call tools
  Starter,     \* the thread that starts and closes the server
  MaxRequests  \* bound: requests

VARIABLES
  proc,     \* the server: runs, runs but answers no more, its pipes are closed, reaped
  manager,  \* what McpManager has come to
  lastId,   \* _next_id
  asked,    \* requests the server has not answered
  answered, \* answers the reader has not read
  reader,   \* the reading thread, and the slot it is about to fill
  call,     \* the request each thread is in, with its slot in _pending
  \* Observability: requests made so far, each told from the others.
  made

vars == <<proc, manager, lastId, asked, answered, reader, call, made>>

Threads == Caller \cup {Starter}
Request == [id : 1..MaxRequests, nth : 1..MaxRequests]
Exited  == MaxRequests + 1   \* a slot's message that the server has exited
Rest    == [at |-> "rest", id |-> 0, nth |-> 0, got |-> 0]

TypeOK ==
  /\ proc \in {"none", "running", "stuck", "closed", "reaped"}
  /\ manager \in {"new", "spawned", "starting", "initialized", "listing", "up", "failed", "closing", "closed"}
  /\ lastId \in 0..MaxRequests /\ made \in 0..MaxRequests
  /\ asked \subseteq Request /\ answered \subseteq Request
  /\ reader \in [at : {"none", "reading", "found", "done"}, thread : Threads, answer : 0..MaxRequests, nth : 0..MaxRequests]
  /\ call \in [Threads -> [at : {"rest", "registered", "waiting", "woken", "over"},
                           id : 0..MaxRequests, nth : 0..MaxRequests, got : 0..Exited]]

Running == proc \in {"running", "stuck"}
Pending == {t \in Threads : call[t].at # "rest"}
Reading == [at |-> "reading", thread |-> Starter, answer |-> 0, nth |-> 0]

Init ==
  /\ proc = "none" /\ manager = "new" /\ lastId = 0 /\ made = 0
  /\ asked = {} /\ answered = {}
  /\ reader = [Reading EXCEPT !.at = "none"]
  /\ call = [t \in Threads |-> Rest]

-----------------------------------------------------------------------------
(* _request(): a slot under a new id, then the line, then the wait.        *)
RegisterLowest(t) ==
  /\ made < MaxRequests /\ call[t].at = "rest"
  /\ made' = made + 1
  /\ lastId' = CHOOSE i \in 1..MaxRequests :
                 /\ \A p \in Pending : call[p].id # i
                 /\ \A j \in 1..(i - 1) : \E p \in Pending : call[p].id = j
  /\ call' = [call EXCEPT ![t] = [at |-> "registered", id |-> lastId', nth |-> made', got |-> 0]]
  /\ UNCHANGED <<proc, asked, answered, reader>>
Register(t) ==
  /\ made < MaxRequests /\ call[t].at = "rest"
  /\ made' = made + 1
  /\ lastId' = lastId + 1
  /\ call' = [call EXCEPT ![t] = [at |-> "registered", id |-> lastId', nth |-> made', got |-> 0]]
  /\ UNCHANGED <<proc, asked, answered, reader>>

Call(t) == manager = "up" /\ Register(t) /\ UNCHANGED manager

(* The server is seen not to run, or its pipe is found closed.             *)
Send(t) ==
  /\ call[t].at = "registered"
  /\ IF Running THEN /\ asked' = asked \cup {[id |-> call[t].id, nth |-> call[t].nth]}
                     /\ call' = [call EXCEPT ![t].at = "waiting"]
     ELSE call' = [call EXCEPT ![t].at = "over"] /\ UNCHANGED asked
  /\ UNCHANGED <<proc, manager, lastId, answered, reader, made>>

Wakes(t) ==
  /\ call[t].at = "waiting" /\ call[t].got # 0
  /\ call' = [call EXCEPT ![t].at = "woken"]
  /\ UNCHANGED <<proc, manager, lastId, asked, answered, reader, made>>

TimesOut(t) ==
  /\ call[t].at = "waiting"
  /\ call' = [call EXCEPT ![t].at = "over"]
  /\ UNCHANGED <<proc, manager, lastId, asked, answered, reader, made>>

(* The slot is taken out either way; and the start goes on, or has failed. *)
Answered(t) == call[t].at = "woken" /\ call[t].got # Exited
Pop(t) ==
  /\ call[t].at \in {"woken", "over"}
  /\ call' = [call EXCEPT ![t] = Rest]
  /\ manager' = IF t # Starter THEN manager
                ELSE IF ~Answered(t) THEN "failed"
                ELSE IF manager = "starting" THEN "initialized" ELSE "up"
  /\ UNCHANGED <<proc, lastId, asked, answered, reader, made>>

-----------------------------------------------------------------------------
(* The server answers in any order, or never, and may exit at any time.    *)
Answer(q) ==
  /\ proc = "running" /\ q \in asked
  /\ asked' = asked \ {q} /\ answered' = answered \cup {q}
  /\ UNCHANGED <<proc, manager, lastId, reader, call, made>>

Server(from, to) ==
  /\ proc \in from
  /\ proc' = to
  /\ UNCHANGED <<manager, lastId, asked, answered, reader, call, made>>
Stick == Server({"running"}, "stuck")
Exit  == Server({"running", "stuck"}, "closed")
Reap  == Server({"closed"}, "reaped")

(* _read_loop(): the slot is looked up under the lock and filled after it; *)
(* an answer whose slot is gone is dropped.                                *)
ReadsLine(q) ==
  /\ reader.at = "reading" /\ q \in answered
  /\ answered' = answered \ {q}
  /\ reader' = IF \E t \in Pending : call[t].id = q.id
               THEN LET t == CHOOSE p \in Pending : call[p].id = q.id
                    IN  [at |-> "found", thread |-> t, answer |-> q.nth, nth |-> call[t].nth]
               ELSE reader
  /\ UNCHANGED <<proc, manager, lastId, asked, call, made>>

Fills ==
  /\ reader.at = "found"
  /\ call' = IF call[reader.thread].nth = reader.nth THEN [call EXCEPT ![reader.thread].got = reader.answer] ELSE call
  /\ reader' = Reading
  /\ UNCHANGED <<proc, manager, lastId, asked, answered, made>>

(* When the output ends, whoever waits is told.                            *)
SweepsNobody ==
  /\ reader.at = "reading" /\ ~Running /\ answered = {}
  /\ reader' = [Reading EXCEPT !.at = "done"]
  /\ UNCHANGED <<proc, manager, lastId, asked, answered, call, made>>
Sweeps ==
  /\ reader.at = "reading" /\ ~Running /\ answered = {}
  /\ call' = [t \in Threads |-> IF t \in Pending /\ call[t].got = 0 THEN [call[t] EXCEPT !.got = Exited] ELSE call[t]]
  /\ reader' = [Reading EXCEPT !.at = "done"]
  /\ UNCHANGED <<proc, manager, lastId, asked, answered, made>>

-----------------------------------------------------------------------------
(* McpManager: it starts the server, which takes two requests, and keeps   *)
(* it, or the error.  close() terminates what it has kept.                 *)
Start ==
  /\ manager = "new"
  /\ \/ proc' = "running" /\ manager' = "spawned" /\ reader' = Reading
     \/ manager' = "failed" /\ UNCHANGED <<proc, reader>>
  /\ UNCHANGED <<lastId, asked, answered, call, made>>

Initialize == manager = "spawned" /\ Register(Starter) /\ manager' = "starting"

Initialized ==
  /\ manager = "initialized"
  /\ manager' = IF Running THEN "listing" ELSE "failed"
  /\ UNCHANGED <<proc, lastId, asked, answered, reader, call, made>>

ListTools == manager = "listing" /\ Register(Starter) /\ UNCHANGED manager

Terminate ==
  /\ manager \in {"up", "failed"} /\ call[Starter] = Rest
  /\ manager' = IF manager = "up" /\ Running THEN "closing" ELSE "closed"
  /\ UNCHANGED <<proc, lastId, asked, answered, reader, call, made>>

(* It has exited by itself within five seconds, or is killed.              *)
Kill ==
  /\ manager = "closing"
  /\ proc' = IF Running THEN "closed" ELSE proc
  /\ manager' = "closed"
  /\ UNCHANGED <<lastId, asked, answered, reader, call, made>>

Next ==
  \/ Start \/ Initialize \/ Initialized \/ ListTools \/ Terminate \/ Kill
  \/ \E t \in Caller : Call(t)
  \/ \E t \in Threads : Send(t) \/ Wakes(t) \/ TimesOut(t) \/ Pop(t)
  \/ \E q \in asked : Answer(q)
  \/ \E q \in answered : ReadsLine(q)
  \/ Stick \/ Exit \/ Reap \/ Fills \/ Sweeps

Spec == Init /\ [][Next]_vars

-----------------------------------------------------------------------------
(* A request gets the answer to itself, also when earlier ones have timed  *)
(* out and are answered late, and when answers change places.              *)
AnswersAreOwn == \A t \in Threads : call[t].got \in {0, call[t].nth, Exited}

(* No thread waits for a server whose output has ended: every request that *)
(* was written before it is answered or swept.                             *)
NobodyWaitsForTheDead == reader.at = "done" => \A t \in Threads : call[t].at = "waiting" => call[t].got # 0
=============================================================================
