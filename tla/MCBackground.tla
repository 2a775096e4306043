---------------------------- MODULE MCBackground ----------------------------
(***************************************************************************)
(* Instances of what goes on behind the user's back and has to get         *)
(* somewhere: the improvement swarm (SwarmLoop), the saves of a daemon     *)
(* with two threads and of the CLI (SessionStore), the pages of a live     *)
(* server (LiveServer) and the daemon's self-update (SelfUpdate).  They    *)
(* share no state here, so one of them runs in a behaviour, and the others *)
(* stay where they start.                                                  *)
(***************************************************************************)
EXTENDS SwarmLoop

CONSTANTS
  gui, cli, g1, g2, c1,
  Proc, Saver, ProcOf, MaxId, MaxSaves, None,
  Agent, Server, Page, Nobody, MaxChanges,
  Updater, ViaPage, MaxVersions

W(command, runs, exitOk, passed, failed, todos) ==
  [command |-> command, runs |-> runs, exitOk |-> exitOk, passed |-> passed, failed |-> failed,
   todos |-> todos, debug |-> FALSE]

\* Scores on either side of the target and of the smallest improvement that
\* counts: a command that cannot be run and none at all, 10 and 20 points;
\* failing suites with 50 and 53; a green one with 90.
Some == {W(TRUE, FALSE, FALSE, 0, 0, TRUE), W(FALSE, FALSE, FALSE, 0, 0, FALSE),
         W(TRUE, TRUE, FALSE, 1, 1, TRUE), W(TRUE, TRUE, FALSE, 7, 6, TRUE),
         W(TRUE, TRUE, TRUE, 13, 0, TRUE)}

SomePlans == {<<>>, <<1>>, <<2, 0, 1>>, <<13, 2>>}

C(kind, items) == [kind |-> kind, items |-> items]
SomeCritiques == {C("text", 0), C("other", 0), C("list", 0), C("list", 7), C("no list", 0)}

Threads   == {g1, g2, c1}
ThreadsOf == [w \in Threads |-> IF w = c1 THEN cli ELSE gui]

VARIABLES
  part,  \* which of them runs
  counter, counterLock, sessionLock, file, temp, work, saves, given,
  registry, call, server, watching, files, page,
  install, origin, broken, disk, update, daemon, busy

swarm   == <<cap, at, iteration, measured, best, stall, first, left, tasks, tokens, roleTokens,
             traces, status, stop>>
store   == <<counter, counterLock, sessionLock, file, temp, work, saves, given>>
live    == <<registry, call, server, watching, files, page>>
updates == <<install, origin, broken, disk, update, daemon, busy>>
all     == <<part, swarm, store, live, updates>>

Store  == INSTANCE SessionStore WITH Worker <- Saver, Locks <- TRUE
Live   == INSTANCE LiveServer
Update == INSTANCE SelfUpdate

\* A part that does not run has one initial state.
AllInit ==
  /\ part \in {"swarm", "store", "live", "updates"}
  /\ Init /\ Store!Init /\ Live!Init /\ Update!Init
  /\ part # "swarm" => cap = 0 /\ measured = W(FALSE, FALSE, FALSE, 0, 0, FALSE)
  /\ part # "store" => counter = 0 /\ \A i \in DOMAIN given : given[i] = 0
  /\ part # "updates" => install = [kind |-> "pip", dirty |-> FALSE, ahead |-> FALSE]

SwarmStep  == part = "swarm" /\ Next /\ UNCHANGED <<part, store, live, updates>>
StoreStep  == part = "store" /\ Store!Next /\ UNCHANGED <<part, swarm, live, updates>>
LiveStep   == part = "live" /\ Live!Next /\ UNCHANGED <<part, swarm, store, updates>>
UpdateStep == part = "updates" /\ Update!Next /\ UNCHANGED <<part, swarm, store, live>>

AllSpec == AllInit /\ [][SwarmStep \/ StoreStep \/ LiveStep \/ UpdateStep]_all

\* The fairness of each, as its own specification has it.
Fairness ==
  /\ WF_swarm(part = "swarm" /\ Run)
  /\ \A w \in Saver : /\ WF_store(part = "store" /\ Store!NewId(w))
                      /\ WF_store(part = "store" /\ Store!Saving(w))
  /\ \A p \in Page : /\ WF_live(part = "live" /\ Live!Serves(p))
                     /\ WF_live(part = "live" /\ Live!Polls(p))
  /\ WF_updates(part = "updates" /\ Update!Daemon)

FairAll == AllSpec /\ Fairness

-----------------------------------------------------------------------------
(* Every part's state has its type.                                        *)
TypesOK ==
  CASE part = "swarm"   -> TypeOK
    [] part = "store"   -> Store!TypeOK
    [] part = "live"    -> Live!TypeOK
    [] part = "updates" -> Update!TypeOK

(* What the swarm spends is accounted for by role, no turn begins over the *)
(* budget, and the traces are in order (swarm.py).                         *)
SwarmIsAccounted == TokensAddUp /\ NoTurnOverBudget /\ TracesInOrder

(* A swarm that is neither stopped nor at its target still comes to an end *)
(* (swarm.py).                                                             *)
SwarmAlwaysEnds == part = "swarm" => SwarmEnds

(* The store is an archive of whole sessions (sessions.py).                *)
ImplementsArchive == Store!ImplementsArchive

(* A save that has begun comes to an end (sessions.py).                    *)
SavesEnd == part = "store" => Store!SavesEnd

(* A page shows the latest state in the end (liveserver.py).               *)
PagesCatchUp == part = "live" => Live!PagesCatchUp

(* An idle daemon of a checkout takes HEAD's code up (update.py,           *)
(* gui/server.py).                                                         *)
UpdatesAreTakenUp == part = "updates" => Update!UpdatesAreTakenUp

(* "updated" is only said of newer code that imports (update.py).          *)
UpdatedCodeImports == Update!UpdatedCodeImports
=============================================================================
