--------------------------- MODULE PermissionGate ---------------------------
(***************************************************************************)
(* The permission gate of one session: the modes, grants and standing      *)
(* approvals of PermissionManager (src/silkcode/permissions.py), the       *)
(* record of what a turn has read (src/silkcode/provenance.py), and the    *)
(* prompt of the page with its timeout (_ask_via_gui, answer_permission in *)
(* src/silkcode/gui/server.py).  Agent threads call the gate, HTTP threads *)
(* answer the prompts and switch modes; the manager has no lock.           *)
(***************************************************************************)
EXTENDS Naturals, FiniteSets

CONSTANTS
  Agent,        \* agents that share the manager: the session's, a swarm worker
  Client,       \* HTTP threads that answer
  Action,       \* what the agents may try
  GrantSets,    \* the sets of grants the user chooses from
  Modes,        \* the modes the user switches between
  MaxAsked,     \* bound: prompts
  None

\* Of an action the gate tells apart its kind (`state` is a write into
\* .silkcode/), its risk, the git operation `op` of a command, and `head`, the
\* first word of a command or the qualified name of an MCP tool.
ASSUME GateAssumption ==
  /\ \A act \in Action : act.kind \in {"write", "state", "command", "mcp"}
                         /\ act.risk \in {"low", "medium", "high"}
  /\ GrantSets \subseteq SUBSET {"push", "commit"}
  /\ Modes \subseteq {"plan", "ask", "edit", "agent"}
  /\ MaxAsked \in Nat
  /\ None \notin Agent \cup Client \cup Action

VARIABLES
  mode, grants,                               \* PermissionManager
  alwaysAll, alwaysWrite, alwaysCommands,
  active, tainted,                            \* TurnProvenance of each agent
  call,                                       \* the tool call each agent is in
  asked,                                      \* prompts so far
  pending,                                    \* GuiState.pending: the open prompts
  entry,                                      \* the entry of each prompt
  client,                                     \* answer_permission of each client
  \* Observability: the action that each agent's tool carries out now, and
  \* what allowed it; every operation that was ever granted.
  doing, granted

manager == <<mode, grants, granted, alwaysAll, alwaysWrite, alwaysCommands>>
turns   == <<active, tainted>>
prompts == <<asked, pending, entry>>
vars    == <<manager, turns, call, prompts, client, doing>>

Prompt == 1..MaxAsked
Decision == {"yes", "no", "always"}

Heads == {act.head : act \in Action}

Reason == {None, "mode", "standing", "yes", "always"}

Call == [at : {"none", "waiting", "expired", "answered", "allowed"},
         act : Action \cup {None}, prompt : Prompt \cup {None}, by : Reason]

ToolCall == [act : Action \cup {None}, by : Reason]

Entry == [decision : Decision, set : BOOLEAN]

Answering == [prompt : Prompt \cup {None}, answer : Decision \cup {"all", None}]

TypeOK ==
  /\ mode \in Modes /\ grants \in GrantSets /\ grants \subseteq granted
  /\ alwaysAll \in BOOLEAN /\ alwaysWrite \in BOOLEAN /\ alwaysCommands \in SUBSET Heads
  /\ active \in [Agent -> BOOLEAN] /\ tainted \in [Agent -> BOOLEAN]
  /\ call \in [Agent -> Call]
  /\ asked \in 0..MaxAsked
  /\ pending \in SUBSET Prompt
  /\ entry \in [Prompt -> Entry]
  /\ client \in [Client -> Answering]
  /\ doing \in [Agent -> ToolCall]

NoCall == [at |-> "none", act |-> None, prompt |-> None, by |-> None]
Nothing == [act |-> None, by |-> None]

Init ==
  /\ mode \in Modes /\ grants \in GrantSets /\ granted = grants
  /\ alwaysAll = FALSE /\ alwaysWrite = FALSE /\ alwaysCommands = {}
  /\ active = [a \in Agent |-> FALSE] /\ tainted = [a \in Agent |-> FALSE]
  /\ call = [a \in Agent |-> NoCall]
  /\ asked = 0 /\ pending = {}
  /\ entry = [n \in Prompt |-> [decision |-> "no", set |-> FALSE]]
  /\ client = [c \in Client |-> [prompt |-> None, answer |-> None]]
  /\ doing = [a \in Agent |-> Nothing]

-----------------------------------------------------------------------------
(***************************************************************************)
(* The rules: what the gate refuses, what it lets pass unasked.            *)
(***************************************************************************)
\* Some turn that is running has read content written to steer the agent.
Tainted == \E a \in Agent : active[a] /\ tainted[a]

\* Plan mode refuses, it does not prompt.
Refused(act) ==
  mode = "plan" /\ ~(act.kind = "state" \/ (act.kind = "command" /\ act.risk = "low"))

\* What the mode lets pass.
ByMode(act) ==
  CASE act.kind \in {"write", "state"} -> mode \in {"plan", "edit", "agent"}
    [] act.kind = "command"            -> \/ act.risk = "low"
                                          \/ act.risk = "medium" /\ mode = "agent"
    [] act.kind = "mcp"                -> mode = "agent"

\* Mutant of ByStanding: "always" for one command stands for its riskier uses.
ByStandingHead(act) ==
  LET outward == act.kind = "command" /\ act.risk = "high" /\ Tainted
  IN  \/ alwaysAll /\ ~outward
      \/ act.kind \in {"write", "state"} /\ alwaysWrite
      \/ act.kind = "command" /\ act.op \in grants /\ ~outward
      \/ act.kind \in {"command", "mcp"} /\ act.head \in alwaysCommands

\* Mutant of ByStanding: a grant holds whatever the turn has read.
ByStandingGranted(act) ==
  LET outward == act.kind = "command" /\ act.risk = "high" /\ Tainted
  IN  \/ alwaysAll /\ ~outward
      \/ act.kind \in {"write", "state"} /\ alwaysWrite
      \/ act.kind = "command" /\ act.op \in grants
      \/ act.kind = "command" /\ act.risk = "medium" /\ act.head \in alwaysCommands
      \/ act.kind = "mcp" /\ act.head \in alwaysCommands

\* What an earlier answer or a grant lets pass: not an outward action of a
\* tainted turn.
ByStanding(act) ==
  LET outward == act.kind = "command" /\ act.risk = "high" /\ Tainted
  IN  \/ alwaysAll /\ ~outward
      \/ act.kind \in {"write", "state"} /\ alwaysWrite
      \/ act.kind = "command" /\ act.op \in grants /\ ~outward
      \/ act.kind = "command" /\ act.risk = "medium" /\ act.head \in alwaysCommands
      \/ act.kind = "mcp" /\ act.head \in alwaysCommands

-----------------------------------------------------------------------------
(***************************************************************************)
(* Turns.                                                                  *)
(***************************************************************************)
\* provenance.begin, and what the project files already say.
BeginTurn(a) ==
  /\ ~active[a]
  /\ active' = [active EXCEPT ![a] = TRUE]
  /\ \E t \in BOOLEAN : tainted' = [tainted EXCEPT ![a] = t]
  /\ UNCHANGED <<manager, call, prompts, client, doing>>

EndTurn(a) ==
  /\ active[a] /\ call[a] = NoCall /\ doing[a] = Nothing
  /\ active' = [active EXCEPT ![a] = FALSE]
  /\ UNCHANGED <<manager, tainted, call, prompts, client, doing>>

\* A tool output that tries to steer the agent is recorded.
Record(a) ==
  /\ active[a] /\ call[a] = NoCall /\ doing[a] = Nothing /\ ~tainted[a]
  /\ tainted' = [tainted EXCEPT ![a] = TRUE]
  /\ UNCHANGED <<manager, active, call, prompts, client, doing>>

(***************************************************************************)
(* check_write, check_command, check_mcp.                                  *)
(***************************************************************************)
Calls(a, act) == active[a] /\ call[a] = NoCall /\ doing[a] = Nothing /\ ~Refused(act)

Pass(a, act) ==
  /\ Calls(a, act)
  /\ ByMode(act) \/ ByStanding(act)
  /\ call' = [call EXCEPT ![a] = [at |-> "allowed", act |-> act, prompt |-> None,
                                  by |-> IF ByMode(act) THEN "mode" ELSE "standing"]]
  /\ UNCHANGED <<manager, turns, prompts, client, doing>>

\* _ask_via_gui: a new entry, a message to every page, and the wait.
Ask(a, act) ==
  /\ Calls(a, act)
  /\ ~ByMode(act) /\ ~ByStanding(act)
  /\ asked < MaxAsked
  /\ asked' = asked + 1
  /\ pending' = pending \cup {asked + 1}
  /\ call' = [call EXCEPT ![a] = [at |-> "waiting", act |-> act, prompt |-> asked + 1, by |-> None]]
  /\ UNCHANGED <<manager, turns, entry, client, doing>>

\* The event is set, or PERMISSION_TIMEOUT passes.
Answered(a) ==
  /\ call[a].at = "waiting" /\ entry[call[a].prompt].set
  /\ call' = [call EXCEPT ![a].at = "answered"]
  /\ UNCHANGED <<manager, turns, prompts, client, doing>>

TimesOut(a) ==
  /\ call[a].at = "waiting" /\ ~entry[call[a].prompt].set
  /\ call' = [call EXCEPT ![a].at = "expired"]
  /\ UNCHANGED <<manager, turns, prompts, client, doing>>

\* "always" is no answer to a high-risk prompt.
Accepts(act, decision) ==
  decision = "yes" \/ (decision = "always" /\ ~(act.kind = "command" /\ act.risk = "high"))

\* The entry is popped, its decision taken as it is now, and remembered if
\* it is "always".  An expired prompt is announced as a "no", though it may
\* have been answered by now.
Pop(a) ==
  /\ call[a].at \in {"answered", "expired"}
  /\ LET n == call[a].prompt
         act == call[a].act
         decision == entry[n].decision
         remembered == decision = "always" /\ Accepts(act, decision)
     IN  /\ pending' = pending \ {n}
         /\ call' = [call EXCEPT ![a] = IF Accepts(act, decision)
                                          THEN [@ EXCEPT !.at = "allowed", !.by = decision]
                                          ELSE NoCall]
         /\ alwaysWrite' = (alwaysWrite \/ (remembered /\ act.kind \in {"write", "state"}))
         /\ alwaysCommands' = IF remembered /\ act.kind \in {"command", "mcp"}
                                THEN alwaysCommands \cup {act.head} ELSE alwaysCommands
  /\ UNCHANGED <<mode, grants, granted, alwaysAll, turns, asked, entry, client, doing>>

\* The tool is called, and returns.
Start(a) ==
  /\ call[a].at = "allowed"
  /\ doing' = [doing EXCEPT ![a] = [act |-> call[a].act, by |-> call[a].by]]
  /\ call' = [call EXCEPT ![a] = NoCall]
  /\ UNCHANGED <<manager, turns, prompts, client>>

Return(a) ==
  /\ doing[a] # Nothing
  /\ doing' = [doing EXCEPT ![a] = Nothing]
  /\ UNCHANGED <<manager, turns, call, prompts, client>>

-----------------------------------------------------------------------------
(***************************************************************************)
(* The clients.                                                            *)
(***************************************************************************)
\* answer_permission: the entry is looked up, then decided and its event set.
LookUp(c, n, answer) ==
  /\ client[c].prompt = None
  /\ n \in pending
  /\ client' = [client EXCEPT ![c] = [prompt |-> n, answer |-> answer]]
  /\ UNCHANGED <<manager, turns, call, prompts, doing>>

Decide(c) ==
  /\ client[c].prompt # None
  /\ LET answer == client[c].answer
     IN  /\ entry' = [entry EXCEPT ![client[c].prompt] =
                        [decision |-> IF answer = "all" THEN "yes" ELSE answer, set |-> TRUE]]
         /\ alwaysAll' = (alwaysAll \/ answer = "all")
  /\ client' = [client EXCEPT ![c] = [prompt |-> None, answer |-> None]]
  /\ UNCHANGED <<mode, grants, granted, alwaysWrite, alwaysCommands, turns, call, asked, pending,
                 doing>>

SetMode(m) ==
  /\ m # mode
  /\ mode' = m
  /\ UNCHANGED <<grants, granted, alwaysAll, alwaysWrite, alwaysCommands, turns, call, prompts, client, doing>>

SetGrants(gs) ==
  /\ gs # grants
  /\ grants' = gs
  /\ granted' = granted \cup gs
  /\ UNCHANGED <<mode, alwaysAll, alwaysWrite, alwaysCommands, turns, call, prompts, client, doing>>

Gate(a) == Answered(a) \/ TimesOut(a) \/ Pop(a) \/ Start(a) \/ Return(a)

Next ==
  \/ \E a \in Agent :
       \/ BeginTurn(a) \/ EndTurn(a) \/ Record(a)
       \/ \E act \in Action : Pass(a, act) \/ Ask(a, act)
       \/ Gate(a)
  \/ \E c \in Client :
       \/ \E n \in Prompt, answer \in Decision \cup {"all"} : LookUp(c, n, answer)
       \/ Decide(c)
  \/ \E m \in Modes : SetMode(m)
  \/ \E gs \in GrantSets : SetGrants(gs)

Spec == Init /\ [][Next]_vars

-----------------------------------------------------------------------------
(***************************************************************************)
(* Properties.                                                             *)
(***************************************************************************)
High(act) == act.kind = "command" /\ act.risk = "high"

\* A high-risk command runs by itself only on a grant for its operation or
\* after "yes to all"; else the human has said yes to that very prompt.
\* "Always", given to the same command in a tamer form, does not cover it.
HighNeedsConsent ==
  \A a \in Agent :
    LET d == doing[a]
    IN  d.act # None /\ High(d.act) =>
          d.by = "yes" \/ (d.by = "standing" /\ (alwaysAll \/ d.act.op \in granted))

\* Once some running turn has read steering content, an outward action
\* "asks even when you granted it or answered 'Yes to all'": no standing
\* approval is applied to it then.
TaintedOutwardAsks ==
  [][\A a \in Agent :
        (call[a] = NoCall /\ call'[a].at = "allowed" /\ High(call'[a].act))
          => ~Tainted]_vars
=============================================================================
