-------------------------------- MODULE Repl --------------------------------
(***************************************************************************)
(* The command-line session (cli/repl.py): run_repl() with its lock and    *)
(* its isolated worktree (worktree.py), the prompt with its turns and      *)
(* slash commands, one-shot runs, and what is saved, released, closed and  *)
(* removed on the way out.                                                 *)
(***************************************************************************)
EXTENDS Naturals

CONSTANTS
  Root,      \* directories the session may work in
  Home,      \* the one it is started in
  Model,     \* model specs
  Launch,    \* the one it is started with
  MaxTurns   \* bound: turns

VARIABLES
  at,       \* where the program is, and how it is leaving
  flags,    \* the command line: isolated, one-shot, resume
  agent,    \* the agent: conversation, model, workspace, MCP manager
  session,  \* the session's record in memory
  stored,   \* the session's record in the store
  talk,     \* the conversations there have been: each has a number, 0 is empty
  locks,    \* directories whose lock the process holds
  foreign,  \* directories another session has locked
  servers,  \* the MCP managers whose servers run
  tree      \* the isolated worktree

vars == <<at, flags, agent, session, stored, talk, locks, foreign, servers, tree>>

Managers == 0..(MaxTurns + 2)
Record   == [conv : 0..(MaxTurns + 1), model : Model, root : Root]
NoTree   == [there |-> FALSE, dirty |-> FALSE, commits |-> FALSE, head |-> "branch", lost |-> FALSE]

TypeOK ==
  /\ at \in [where : {"start", "setup", "prompt", "turn", "save", "leaving", "cleanup", "ended"},
             crashed : BOOLEAN]
  /\ flags \in [isolated : BOOLEAN, shot : BOOLEAN, resume : BOOLEAN]
  /\ agent \in [conv : 0..(MaxTurns + 1), model : Model, root : Root, mcp : Managers]
  /\ session \in Record /\ stored \in Record
  /\ talk \in 0..(MaxTurns + 1)
  /\ locks \subseteq Root /\ foreign \subseteq Root
  /\ servers \subseteq Managers \ {0}
  /\ tree \in [there : BOOLEAN, dirty : BOOLEAN, commits : BOOLEAN,
               head : {"branch", "base"}, lost : BOOLEAN]

(* An isolated session's own directory is known to nobody else.            *)
Others == IF flags.isolated THEN Root \ {Home} ELSE Root

(* A session that is resumed has a conversation, number 1.                 *)
Init ==
  /\ at = [where |-> "start", crashed |-> FALSE]
  /\ flags \in [isolated : BOOLEAN, shot : BOOLEAN, resume : BOOLEAN]
  /\ talk = IF flags.resume THEN 1 ELSE 0
  /\ session = [conv |-> talk, model |-> Launch, root |-> Home]
  /\ stored = session
  /\ agent = [conv |-> talk, model |-> Launch, root |-> Home, mcp |-> 0]
  /\ locks = {} /\ foreign \in SUBSET Others
  /\ servers = {}
  /\ tree = NoTree

NewTree    == [NoTree EXCEPT !.there = TRUE]
Goto(w)    == at' = [at EXCEPT !.where = w]
Crash      == at' = [where |-> "leaving", crashed |-> TRUE]
NewManager == IF agent.mcp + 1 \in Managers THEN agent.mcp + 1 ELSE 1

-----------------------------------------------------------------------------
(* run_repl(): the worktree and the lock; a lock held elsewhere is a       *)
(* warning only.                                                           *)

Start ==
  /\ at.where = "start"
  /\ tree' = IF flags.isolated THEN NewTree ELSE NoTree
  /\ locks' = {Home} \ foreign
  /\ Goto("setup")
  /\ UNCHANGED <<flags, agent, session, stored, talk, foreign, servers>>

(* No repository, or no commit to fork from.                               *)
StartFails ==
  /\ at.where = "start" /\ flags.isolated
  /\ Goto("ended")
  /\ UNCHANGED <<flags, agent, session, stored, talk, locks, foreign, servers, tree>>

(* _run_repl(): workspace, provider and agent, with MCP servers or not.    *)
SetUp ==
  /\ at.where = "setup"
  /\ \E mcp \in {0, 1} : /\ agent' = [agent EXCEPT !.mcp = mcp]
                         /\ servers' = {mcp} \ {0}
  /\ Goto(IF flags.shot THEN "turn" ELSE "prompt")
  /\ UNCHANGED <<flags, session, stored, talk, locks, foreign, tree>>

SetUpFails ==
  /\ at.where = "setup"
  /\ Goto("leaving")
  /\ UNCHANGED <<flags, agent, session, stored, talk, locks, foreign, servers, tree>>

-----------------------------------------------------------------------------
(* A turn.                                                                 *)

Ask ==
  /\ at.where = "prompt" /\ talk <= MaxTurns
  /\ Goto("turn")
  /\ UNCHANGED <<flags, agent, session, stored, talk, locks, foreign, servers, tree>>

(* A tool writes: the file tools take the lock of the directory they are   *)
(* in, or are refused.                                                     *)
Write ==
  /\ at.where = "turn" /\ agent.root \notin foreign
  /\ locks' = locks \cup {agent.root}
  /\ tree' = [tree EXCEPT !.dirty = @ \/ (tree.there /\ agent.root = Home)]
  /\ UNCHANGED <<at, flags, agent, session, stored, talk, foreign, servers>>

(* ... or works with git: commits, or checks the starting point out.       *)
Git ==
  /\ at.where = "turn" /\ tree.there /\ agent.root = Home
  /\ \/ tree.dirty /\ tree.head = "branch" /\ tree' = [tree EXCEPT !.dirty = FALSE, !.commits = TRUE]
     \/ ~tree.dirty /\ \E h \in {"branch", "base"} : tree' = [tree EXCEPT !.head = h]
  /\ UNCHANGED <<at, flags, agent, session, stored, talk, locks, foreign, servers>>

(* The conversation has changed however the turn ends: with an answer, a   *)
(* provider error, Ctrl-C, or an exception nobody expects.                 *)
Said == /\ at.where = "turn" /\ talk <= MaxTurns
        /\ talk' = talk + 1
        /\ agent' = [agent EXCEPT !.conv = talk + 1]
        /\ UNCHANGED <<flags, session, stored, locks, foreign, servers, tree>>

TurnEndsUnsaved ==
  /\ Said /\ ~flags.shot
  /\ \E answer \in BOOLEAN : Goto(IF answer THEN "save" ELSE "prompt")

TurnEnds ==
  /\ Said /\ ~flags.shot
  /\ Goto("save") \/ Crash

(* A one-shot run saves nothing but a turn with an answer, and its record  *)
(* keeps its model.                                                        *)
ShotEnds ==
  /\ at.where = "turn" /\ flags.shot
  /\ Said
  /\ Goto("save") \/ Goto("leaving") \/ Crash

(* The record gets the model the program was started with.                 *)
Save ==
  /\ at.where = "save"
  /\ session' = [session EXCEPT !.conv = agent.conv, !.model = IF flags.shot THEN @ ELSE Launch]
  /\ stored' = session'
  /\ Goto(IF flags.shot THEN "leaving" ELSE "prompt")
  /\ UNCHANGED <<flags, agent, talk, locks, foreign, servers, tree>>

-----------------------------------------------------------------------------
(* The slash commands that change something.                               *)

SwitchModel(m) ==
  /\ at.where = "prompt"
  /\ agent' = [agent EXCEPT !.model = m]
  /\ session' = [session EXCEPT !.model = m]
  /\ UNCHANGED <<at, flags, stored, talk, locks, foreign, servers, tree>>

Clear ==
  /\ at.where = "prompt"
  /\ agent' = [agent EXCEPT !.conv = 0]
  /\ UNCHANGED <<at, flags, session, stored, talk, locks, foreign, servers, tree>>

(* /new and /project: the lock stays where it is.                          *)
OpenProject(r) ==
  /\ at.where = "prompt"
  /\ agent' = [agent EXCEPT !.root = r]
  /\ session' = [session EXCEPT !.root = r]
  /\ UNCHANGED <<at, flags, stored, talk, locks, foreign, servers, tree>>

ReloadBeside ==
  /\ at.where = "prompt"
  /\ \E mcp \in {0, NewManager} : /\ agent' = [agent EXCEPT !.model = session.model, !.mcp = mcp]
                                  /\ servers' = servers \cup ({mcp} \ {0})
  /\ UNCHANGED <<at, flags, session, stored, talk, locks, foreign, tree>>

(* /reload: the provider is built for the record's model, the old MCP      *)
(* servers are closed before the configured ones are started.              *)
Reload ==
  /\ at.where = "prompt"
  /\ \E mcp \in {0, NewManager} : /\ agent' = [agent EXCEPT !.model = session.model, !.mcp = mcp]
                                  /\ servers' = (servers \ {agent.mcp}) \cup ({mcp} \ {0})
  /\ UNCHANGED <<at, flags, session, stored, talk, locks, foreign, tree>>

Exit ==
  /\ at.where = "prompt"
  /\ stored' = IF agent.conv # 0 THEN [session EXCEPT !.conv = agent.conv] ELSE stored
  /\ servers' = servers \ {agent.mcp}
  /\ Goto("leaving")
  /\ UNCHANGED <<flags, agent, session, talk, locks, foreign, tree>>

-----------------------------------------------------------------------------
(* The way out: the lock of the directory it was started in is released,   *)
(* and cleanup() looks at the worktree's status and at its HEAD ...        *)
Leave ==
  /\ at.where = "leaving"
  /\ locks' = locks \ {Home}
  /\ Goto("cleanup")
  /\ UNCHANGED <<flags, agent, session, stored, talk, foreign, servers, tree>>

(* ... and removes it, with the branch, or keeps both; git may refuse to.  *)
Litter == tree.there /\ ~tree.dirty /\ ~(tree.commits /\ tree.head = "branch")
Cleanup ==
  /\ at.where = "cleanup"
  /\ \/ UNCHANGED tree
     \/ Litter /\ tree' = [tree EXCEPT !.there = FALSE, !.lost = tree.commits]
  /\ Goto("ended")
  /\ UNCHANGED <<flags, agent, session, stored, talk, locks, foreign, servers>>

(* Other sessions come and go.                                             *)
OthersLock(r) ==
  /\ r \in Others \ locks
  /\ foreign' = IF r \in foreign THEN foreign \ {r} ELSE foreign \cup {r}
  /\ UNCHANGED <<at, flags, agent, session, stored, talk, locks, servers, tree>>

Next ==
  \/ Start \/ StartFails \/ SetUp \/ SetUpFails \/ Ask \/ Write \/ Git \/ TurnEnds \/ ShotEnds \/ Save
  \/ \E m \in Model : SwitchModel(m)
  \/ \E r \in Root : OpenProject(r) \/ OthersLock(r)
  \/ Clear \/ Reload \/ Exit \/ Leave \/ Cleanup

Spec == Init /\ [][Next]_vars

-----------------------------------------------------------------------------
(* Whenever the user is at the prompt, or has left by it, the store holds  *)
(* the conversation as it is, however its last turn ended, unless it has   *)
(* been cleared: what is resumed later is what was seen.                   *)
ConversationIsSaved ==
  at.where = "prompt" \/ (at.where \in {"leaving", "cleanup", "ended"} /\ ~at.crashed /\ ~flags.shot)
    => agent.conv \in {0, stored.conv}

(* At the prompt only the servers of the manager in use run, and after a   *)
(* regular exit none: /reload leaves none behind.                          *)
NoServerIsLeft ==
  /\ at.where = "prompt" => servers \subseteq {agent.mcp}
  /\ at.where = "ended" /\ ~at.crashed /\ ~flags.shot => servers = {}

(* What cleanup() promises: commits on the branch are kept.                *)
CommitsAreKept == ~tree.lost
=============================================================================
