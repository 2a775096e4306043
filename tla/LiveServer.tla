----------------------------- MODULE LiveServer -----------------------------
(***************************************************************************)
(* The live preview of a workspace (liveserver.py): the registry of one    *)
(* server per workspace, which the agents of several sessions ask through  *)
(* the live_server tool; a server with its watcher thread; and the pages,  *)
(* which poll for a count and reload when it has moved.  Everything is for *)
(* one workspace.                                                          *)
(***************************************************************************)
EXTENDS Naturals

CONSTANTS
  Agent,        \* agents whose tools work in the workspace
  Server,       \* servers that may be started
  Page,         \* browser tabs
  Nobody,
  MaxChanges    \* bound: changes of the workspace

VARIABLES
  registry,  \* the server REGISTRY has for the workspace
  call,      \* what the live_server call of an agent has come to
  server,    \* servers: none yet, up or stopped; count, event and snapshot
  watching,  \* servers whose watcher thread runs
  files,     \* the state of the workspace's files
  page       \* tabs: the server, what they show, and the count they hold

vars == <<registry, call, server, watching, files, page>>

Idle   == [op |-> "idle", existing |-> Nobody]
Closed == [at |-> "closed", from |-> Nobody, body |-> 0, cur |-> 0, seen |-> 0]

TypeOK ==
  /\ registry \in Server \cup {Nobody}
  /\ call \in [Agent -> [op : {"idle", "start", "set", "stop", "drop"}, existing : Server \cup {Nobody}]]
  /\ server \in [Server -> [state : {"none", "up", "stopped"}, count : 0..MaxChanges,
                            event : BOOLEAN, stale : 0..MaxChanges]]
  /\ watching \subseteq Server
  /\ files \in 0..MaxChanges
  /\ page \in [Page -> [at : {"closed", "request", "loading", "shown", "waiting", "answering"},
                        from : Server \cup {Nobody}, body : 0..MaxChanges,
                        cur : 0..MaxChanges, seen : 0..MaxChanges]]

Init ==
  /\ registry = Nobody
  /\ call = [a \in Agent |-> Idle]
  /\ server = [s \in Server |-> [state |-> "none", count |-> 0, event |-> FALSE, stale |-> 0]]
  /\ watching = {}
  /\ files = 0
  /\ page = [p \in Page |-> Closed]

Up(s)       == server[s].state = "up"
Snapshot    == files
Return(a)   == call' = [call EXCEPT ![a] = Idle]
Goes(p, at) == page' = [page EXCEPT ![p].at = at]

-----------------------------------------------------------------------------
(* live_server(): the server of the workspace is looked up, and the        *)
(* registry's lock is free again before anything is done with it.          *)

Call(a, op) ==
  /\ call[a] = Idle
  /\ call' = [call EXCEPT ![a] = [op |-> op, existing |-> registry]]
  /\ UNCHANGED <<registry, server, watching, files, page>>

AlreadyDone(a) ==
  /\ \/ call[a].op = "start" /\ call[a].existing # Nobody
     \/ call[a].op = "stop" /\ call[a].existing = Nobody
  /\ Return(a)
  /\ UNCHANGED <<registry, server, watching, files, page>>

(* A new server takes its first snapshot before its threads start.         *)
Start(a) ==
  /\ call[a].op = "start" /\ call[a].existing = Nobody
  /\ \E s \in Server :
       /\ server[s].state = "none"
       /\ server' = [server EXCEPT ![s].state = "up", ![s].stale = Snapshot]
       /\ watching' = watching \cup {s}
       /\ call' = [call EXCEPT ![a] = [op |-> "set", existing |-> s]]
  /\ UNCHANGED <<registry, files, page>>

Register(a) ==
  /\ call[a].op = "set"
  /\ registry' = call[a].existing
  /\ Return(a)
  /\ UNCHANGED <<server, watching, files, page>>

(* stop() wakes the polls of the pages, and may find the server stopped.   *)
Stop(a) ==
  LET s == call[a].existing
  IN  /\ call[a].op = "stop" /\ s # Nobody
      /\ server' = [server EXCEPT ![s].state = "stopped", ![s].event = TRUE]
      /\ call' = [call EXCEPT ![a].op = "drop"]
      /\ UNCHANGED <<registry, watching, files, page>>

(* drop() is by workspace: it does not look which server it forgets.  The  *)
(* watcher has ended, or its join has timed out.                           *)
Drop(a) ==
  /\ call[a].op = "drop"
  /\ registry' = Nobody
  /\ Return(a)
  /\ UNCHANGED <<server, watching, files, page>>

-----------------------------------------------------------------------------
(* The workspace and the watcher thread.                                   *)

Edit ==
  /\ files < MaxChanges
  /\ files' = files + 1
  /\ UNCHANGED <<registry, call, server, watching, page>>

Watch(s) ==
  /\ s \in watching /\ Up(s) /\ server[s].stale # Snapshot
  /\ server' = [server EXCEPT ![s].stale = Snapshot, ![s].count = @ + 1, ![s].event = TRUE]
  /\ UNCHANGED <<registry, call, watching, files, page>>

WatchEnds(s) ==
  /\ s \in watching /\ ~Up(s)
  /\ watching' = watching \ {s}
  /\ UNCHANGED <<registry, call, server, files, page>>

-----------------------------------------------------------------------------
(* The pages.  Requests for other hosts, outside the workspace, for hidden *)
(* files or for what is no file are refused and show no page.              *)

Open(p, s) ==
  /\ page[p].at = "closed" /\ Up(s)
  /\ page' = [page EXCEPT ![p] = [Closed EXCEPT !.at = "request", !.from = s]]
  /\ UNCHANGED <<registry, call, server, watching, files>>

(* _serve() reads the file first ...                                       *)
ServeBody(p) ==
  /\ page[p].at = "request" /\ Up(page[p].from)
  /\ page' = [page EXCEPT ![p].at = "loading", ![p].body = files]
  /\ UNCHANGED <<registry, call, server, watching, files>>

(* ... and puts the count into it afterwards.                              *)
ServeMarker(p) ==
  /\ page[p].at = "loading"
  /\ page' = [page EXCEPT ![p].at = "shown", ![p].cur = server[page[p].from].count]
  /\ UNCHANGED <<registry, call, server, watching, files>>

(* The reload of a page whose server is gone shows an error page.          *)
LoadFails(p) ==
  /\ page[p].at = "request" /\ ~Up(page[p].from)
  /\ page' = [page EXCEPT ![p] = Closed]
  /\ UNCHANGED <<registry, call, server, watching, files>>

Poll(p) ==
  /\ page[p].at = "shown" /\ Up(page[p].from)
  /\ Goes(p, "waiting")
  /\ UNCHANGED <<registry, call, server, watching, files>>

Answer(p) ==
  page' = [page EXCEPT ![p].at = "answering", ![p].seen = server[page[p].from].count]

Woken(p) ==
  /\ page[p].at = "waiting" /\ server[page[p].from].event
  /\ Answer(p)
  /\ UNCHANGED <<registry, call, server, watching, files>>

TimedOutNever(p) == FALSE /\ UNCHANGED vars
TimedOut(p) ==
  /\ page[p].at = "waiting"
  /\ Answer(p)
  /\ UNCHANGED <<registry, call, server, watching, files>>

(* The event is one for all pages: whoever sees its count move clears it.  *)
Reload(p) ==
  /\ page[p].at = "answering" /\ page[p].seen > page[p].cur
  /\ server' = [server EXCEPT ![page[p].from].event = FALSE]
  /\ Goes(p, "request")
  /\ UNCHANGED <<registry, call, watching, files>>

PollAgain(p) ==
  /\ page[p].at = "answering" /\ page[p].seen <= page[p].cur
  /\ Goes(p, "shown")
  /\ UNCHANGED <<registry, call, server, watching, files>>

Close(p) ==
  /\ page[p].at # "closed"
  /\ page' = [page EXCEPT ![p] = Closed]
  /\ UNCHANGED <<registry, call, server, watching, files>>

Next ==
  \/ \E a \in Agent : \/ \E op \in {"start", "stop"} : Call(a, op)
                      \/ AlreadyDone(a) \/ Start(a) \/ Register(a) \/ Stop(a) \/ Drop(a)
  \/ Edit
  \/ \E s \in Server : Watch(s) \/ WatchEnds(s)
  \/ \E p \in Page : \/ \E s \in Server : Open(p, s)
                     \/ ServeBody(p) \/ ServeMarker(p) \/ LoadFails(p)
                     \/ Poll(p) \/ Woken(p) \/ TimedOut(p) \/ Reload(p) \/ PollAgain(p)
                     \/ Close(p)

Spec == Init /\ [][Next]_vars

(* A page that is open is served, and its script polls.                    *)
Serves(p) == ServeBody(p) \/ ServeMarker(p) \/ LoadFails(p)
Polls(p)  == Poll(p) \/ TimedOut(p) \/ Reload(p) \/ PollAgain(p)

FairSpec == Spec /\ \A p \in Page : WF_vars(Serves(p)) /\ WF_vars(Polls(p))

-----------------------------------------------------------------------------
(* A page that holds an older count than its server reloads, whoever else  *)
(* has been woken and has cleared the event, unless it is closed or the    *)
(* server stopped: a wake-up that is lost costs the 60 seconds of a poll.  *)
Behind(p, n)   == page[p].at # "closed" /\ Up(page[p].from) /\ page[p].cur < n /\ n <= server[page[p].from].count
CaughtUp(p, n) == page[p].at = "closed" \/ ~Up(page[p].from) \/ page[p].cur >= n
PagesCatchUp   == \A p \in Page, n \in 1..MaxChanges : Behind(p, n) ~> CaughtUp(p, n)
=============================================================================
