---------------------------- MODULE ProjectDrawer ---------------------------
(***************************************************************************)
(* The projects and sessions of the GUI daemon as its tabs open, fork,     *)
(* move and close them (gui/server.py): which sessions are open, which is  *)
(* the daemon's current one, which projects the drawer hides, and whether  *)
(* a session was told that another one has its project's lock.  Requests   *)
(* are taken one at a time (DaemonSessions has them race); turns run       *)
(* beside them.                                                            *)
(***************************************************************************)
EXTENDS Naturals, FiniteSets

CONSTANTS
  Tab,          \* open pages
  Project,      \* projects
  Launchpad,    \* config_dir()/launcher, where a daemon without a project is
  MaxSessions,  \* bound: sessions ever created
  Free          \* no session

VARIABLES
  table,        \* sessions by id: open or not, saved or not, root, notice, turn
  current,      \* default_session_id
  projectless,  \* whether no project has been chosen yet
  launcher,     \* launcher_session_id
  hidden,       \* closed_projects
  locked,       \* the session that holds each project's lock
  tab           \* the session each tab shows

vars == <<table, current, projectless, launcher, hidden, locked, tab>>

Id       == 1..MaxSessions
Root     == Project \cup {Launchpad}
Unused   == [at |-> "none", saved |-> FALSE, root |-> Launchpad, conflict |-> FALSE,
             running |-> FALSE, closing |-> FALSE]
OpenIds  == {s \in Id : table[s].at = "open"}
Known(s) == table[s].at = "open" \/ table[s].saved
Of(p)    == {s \in OpenIds : table[s].root = p}
Newest(S) == CHOOSE s \in S : \A t \in S : t <= s

TypeOK ==
  /\ table \in [Id -> [at : {"none", "open", "shut"}, saved : BOOLEAN, root : Root,
                       conflict : BOOLEAN, running : BOOLEAN, closing : BOOLEAN]]
  /\ current \in Id /\ projectless \in BOOLEAN /\ launcher \in Id \cup {Free}
  /\ hidden \subseteq Project
  /\ locked \in [Root -> Id \cup {Free}]
  /\ tab \in [Tab -> Id]

-----------------------------------------------------------------------------
(* An AgentSession takes its project's lock, or is told who has it.  The   *)
(* launcher's directory has no lock while no project is chosen.            *)
Held(s, p, l) == l[p] \notin {Free, s}
Constructed(s, p, saved, l, chosen) ==
  [Unused EXCEPT !.at = "open", !.saved = saved, !.root = p,
                 !.conflict = (chosen \/ p # Launchpad) /\ Held(s, p, l)]
LockedBy(s, p, l, chosen) ==
  IF (chosen \/ p # Launchpad) /\ l[p] = Free THEN [l EXCEPT ![p] = s] ELSE l
Unlocked(s, l) == [p \in Root |-> IF l[p] = s /\ table[s].root = p THEN Free ELSE l[p]]

Init ==
  /\ projectless \in BOOLEAN
  /\ \E p \in IF projectless THEN {Launchpad} ELSE Project :
       /\ locked = LockedBy(1, p, [q \in Root |-> Free], ~projectless)
       /\ table = [s \in Id |-> IF s = 1 THEN Constructed(1, p, FALSE, locked, ~projectless) ELSE Unused]
  /\ current = 1
  /\ launcher = IF projectless THEN 1 ELSE Free
  /\ hidden = {}
  /\ tab = [t \in Tab |-> 1]

(* get_session(): what is not open is loaded from the store.               *)
Got(s) ==
  IF table[s].at = "open" THEN UNCHANGED <<table, locked>>
  ELSE /\ table' = [table EXCEPT ![s] = Constructed(s, table[s].root, TRUE, locked, ~projectless)]
       /\ locked' = LockedBy(s, table[s].root, locked, ~projectless)

Shows(t, s) == tab' = [tab EXCEPT ![t] = s]
NextId      == CHOOSE s \in Id : table[s].at = "none" /\ \A r \in Id : r < s => table[r].at # "none"
Room        == \E s \in Id : table[s].at = "none"

(* A tab asks for the state of its session, or is reloaded by its user     *)
(* when there is no such session any more.                                 *)
View(t) ==
  /\ IF Known(tab[t]) THEN Got(tab[t]) /\ UNCHANGED tab
     ELSE Shows(t, current) /\ UNCHANGED <<table, locked>>
  /\ UNCHANGED <<current, projectless, launcher, hidden>>

(* load_session()                                                          *)
LoadSession(t, s) ==
  /\ Known(s)
  /\ Got(s)
  /\ current' = s /\ hidden' = hidden \ {table[s].root}
  /\ Shows(t, s)
  /\ UNCHANGED <<projectless, launcher>>

(* new_session()                                                           *)
NewSession(t, p) ==
  /\ Room /\ (p = Launchpad => projectless)
  /\ table' = [table EXCEPT ![NextId] = Constructed(NextId, p, FALSE, locked, ~projectless)]
  /\ locked' = LockedBy(NextId, p, locked, ~projectless)
  /\ current' = NextId /\ hidden' = hidden \ {p}
  /\ Shows(t, NextId)
  /\ UNCHANGED <<projectless, launcher>>

(* fork_session(), in place: the parent is saved first.  An isolated fork  *)
(* has a directory of its own (Repl) and is a new project here.            *)
Fork(t) ==
  LET parent == tab[t]
      p      == table[parent].root
  IN  /\ Room /\ table[parent].at = "open" /\ ~table[parent].running
      /\ table' = [table EXCEPT ![parent].saved = TRUE,
                                ![NextId] = Constructed(NextId, p, TRUE, locked, ~projectless)]
      /\ locked' = LockedBy(NextId, p, locked, ~projectless)
      /\ current' = NextId
      /\ Shows(t, NextId)
      /\ UNCHANGED <<projectless, launcher, hidden>>

(* open_project(): the newest session of the project, open or saved, or a  *)
(* new one; the launcher's session is dropped.                             *)
OpenProject(t, p) ==
  LET candidates == {s \in Id : Known(s) /\ table[s].root = p}
      fresh      == candidates = {}
      s          == IF fresh THEN NextId ELSE Newest(candidates)
      opened     == IF table[s].at = "open" THEN table[s]
                    ELSE Constructed(s, p, ~fresh, locked, TRUE)
      dropped    == {launcher} \ {Free, s}
  IN  /\ fresh => Room
      /\ table' = [r \in Id |-> IF r = s THEN opened
                                ELSE IF r \in dropped THEN [table[r] EXCEPT !.at = "shut"] ELSE table[r]]
      /\ locked' = IF table[s].at = "open" THEN locked ELSE LockedBy(s, p, locked, TRUE)
      /\ projectless' = FALSE /\ launcher' = Free
      /\ current' = s /\ hidden' = hidden \ {p}
      /\ Shows(t, s)

(* create_project() opens a directory it has made; a swarm it may start is *)
(* in DaemonSessions.                                                      *)
CreateProject(t, p) ==
  /\ \A s \in Id : Known(s) => table[s].root # p
  /\ OpenProject(t, p)

MoveKeepsNotice(s, p) ==
  /\ table[s].at = "open" /\ ~table[s].running
  /\ table' = [table EXCEPT ![s].root = p, ![s].saved = TRUE]
  /\ locked' = LockedBy(s, p, Unlocked(s, locked), TRUE)
  /\ hidden' = hidden \ {p}
  /\ UNCHANGED <<current, projectless, launcher, tab>>

(* move_session(): released here, acquired there.                          *)
Move(s, p) ==
  /\ table[s].at = "open" /\ ~table[s].running
  /\ hidden' = hidden \ {p}
  /\ IF table[s].root = p THEN UNCHANGED <<table, locked>>
     ELSE /\ table' = [table EXCEPT ![s].root = p, ![s].saved = TRUE, ![s].conflict = Held(s, p, locked)]
          /\ locked' = LockedBy(s, p, Unlocked(s, locked), TRUE)
  /\ UNCHANGED <<current, projectless, launcher, tab>>

-----------------------------------------------------------------------------
(* _finish_close(): the current session is followed by the newest one open *)
(* in its project, or by a new one there.                                  *)
FinishStaysCurrent(s) ==
  /\ table' = [table EXCEPT ![s].at = "shut", ![s].running = FALSE, ![s].closing = FALSE]
  /\ locked' = Unlocked(s, locked)
  /\ UNCHANGED <<current, hidden>>
Finish(s) ==
  LET p    == table[s].root
      shut == [table EXCEPT ![s].at = "shut", ![s].running = FALSE, ![s].closing = FALSE]
      free == Unlocked(s, locked)
      same == Of(p) \ {s}
  IN  IF current # s \/ same # {}
      THEN /\ table' = shut /\ locked' = free
           /\ current' = IF current = s THEN Newest(same) ELSE current
           /\ UNCHANGED hidden
      ELSE /\ Room
           /\ table' = [shut EXCEPT ![NextId] = Constructed(NextId, p, FALSE, free, ~projectless)]
           /\ locked' = LockedBy(NextId, p, free, ~projectless)
           /\ current' = NextId /\ hidden' = hidden \ {p}

(* close_session(): at once, or when the turn has ended.                   *)
CloseSession(t) ==
  LET s == tab[t]
  IN  /\ s \in OpenIds /\ ~table[s].closing
      /\ IF table[s].running
         THEN table' = [table EXCEPT ![s].closing = TRUE] /\ UNCHANGED <<locked, current, hidden>>
         ELSE Finish(s)
      /\ tab' = [tab EXCEPT ![t] = current']
      /\ UNCHANGED <<projectless, launcher>>

(* close_project(): the closing of its only open session; of several, the  *)
(* tab closes one after the other.                                         *)
CloseProject(t, p) ==
  /\ tab[t] \in OpenIds /\ table[tab[t]].root # p
  /\ \A s \in Of(p) : ~table[s].running /\ ~table[s].closing
  /\ Cardinality(Of(p)) <= 1
  /\ IF Of(p) = {} THEN UNCHANGED <<table, locked, current>> /\ hidden' = hidden \cup {p}
     ELSE LET s    == Newest(Of(p))
              shut == [table EXCEPT ![s].at = "shut"]
              free == Unlocked(s, locked)
          IN  /\ IF current # s THEN table' = shut /\ locked' = free /\ UNCHANGED current
                 ELSE /\ Room
                      /\ table' = [shut EXCEPT ![NextId] = Constructed(NextId, p, FALSE, free, ~projectless)]
                      /\ locked' = LockedBy(NextId, p, free, ~projectless)
                      /\ current' = NextId
              /\ hidden' = hidden \cup {p}
  /\ UNCHANGED <<projectless, launcher, tab>>

(* takeover_lock(): what it takes was free, or the session's own.          *)
Takeover(t) ==
  LET s == tab[t]
  IN  /\ s \in OpenIds /\ ~Held(s, table[s].root, locked)
      /\ locked' = [locked EXCEPT ![table[s].root] = s]
      /\ table' = [table EXCEPT ![s].conflict = FALSE]
      /\ UNCHANGED <<current, projectless, launcher, hidden, tab>>

(* A turn (the page starts none before a project is chosen), whose writes  *)
(* take a free lock, and whose end saves and may close the session.        *)
StartTurn(t) ==
  LET s == tab[t]
  IN  /\ s \in OpenIds /\ ~projectless /\ ~table[s].running /\ ~table[s].closing
      /\ table' = [table EXCEPT ![s].running = TRUE]
      /\ UNCHANGED <<current, projectless, launcher, hidden, locked, tab>>

Write(s) ==
  /\ table[s].at = "open" /\ table[s].running /\ locked[table[s].root] = Free
  /\ locked' = [locked EXCEPT ![table[s].root] = s]
  /\ UNCHANGED <<table, current, projectless, launcher, hidden, tab>>

EndTurn(s) ==
  /\ table[s].at = "open" /\ table[s].running
  /\ IF table[s].closing THEN Finish(s)
     ELSE /\ table' = [table EXCEPT ![s].running = FALSE, ![s].saved = TRUE]
          /\ UNCHANGED <<locked, current, hidden>>
  /\ UNCHANGED <<projectless, launcher, tab>>

Next ==
  \/ \E t \in Tab : \/ View(t) \/ Fork(t) \/ CloseSession(t) \/ Takeover(t) \/ StartTurn(t)
                    \/ \E s \in Id : LoadSession(t, s)
                    \/ \E p \in Root : NewSession(t, p)
                    \/ \E p \in Project : OpenProject(t, p) \/ CreateProject(t, p) \/ CloseProject(t, p)
  \/ \E s \in Id : \/ Write(s) \/ EndTurn(s)
                   \/ \E p \in Project : Move(s, p)

Spec == Init /\ [][Next]_vars

-----------------------------------------------------------------------------
(* The daemon always keeps a current session (close_session), and it is    *)
(* open: what a tab without a session is shown is not loaded behind the    *)
(* back of a close.                                                        *)
CurrentIsOpen == current \in OpenIds

(* No session believes its project to be its own while another session     *)
(* holds the lock: whoever cannot write has been told so.                  *)
NoSilentConflict ==
  \A s \in OpenIds : table[s].root \in Project =>
    locked[table[s].root] \in {s, Free} \/ table[s].conflict
=============================================================================
