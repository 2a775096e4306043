----------------------------- MODULE SwarmLoop -----------------------------
(***************************************************************************)
(* One run of the improvement swarm (run_swarm in src/silkcode/swarm.py):  *)
(* score the workspace, let the team, the tester, the critic and the       *)
(* worker take their turns, and again until the target is reached, the     *)
(* score stalls, the token budget or the iteration cap is used up, the     *)
(* user stops it, or a model provider fails.                               *)
(***************************************************************************)
EXTENDS Naturals, Sequences, FiniteSetsExt

CONSTANTS
  Workspaces,      \* what score_workspace may find
  Target,          \* in tenths of a point
  Caps,            \* what max_iterations may be; 0: no cap
  StallLimit,
  MinScoreDelta,   \* in tenths
  MaxTokens,       \* 0: no budget
  Costs,           \* tokens one agent's turn may use
  SkipTester,      \* skip_tester_when_tests_pass
  Specialists,     \* specialists of the team, custom ones included; 0: no team
  DeveloperCount,  \* 0: the lead chooses
  Plans,           \* the lead's plans: the owner of each task, 0 if it is no developer
  Critiques,       \* the critic's replies
  MaxCounted       \* bound: iterations told apart

ASSUME SwarmAssumption ==
  /\ \A w \in Workspaces : \A f \in {"command", "runs", "exitOk", "todos", "debug"} : w[f] \in BOOLEAN
  /\ \A w \in Workspaces : w.passed \in Nat /\ w.failed \in Nat
  /\ Target \in 0..100
  /\ MaxTokens \in Nat
  /\ StallLimit \in Nat \ {0} /\ MinScoreDelta \in 1..10
  /\ Costs \subseteq Nat
  /\ SkipTester \in BOOLEAN
  /\ Specialists \in Nat /\ DeveloperCount \in 0..12
  /\ Plans \subseteq Seq(Nat)
  /\ \A c \in Critiques : c.kind \in {"text", "other", "list", "no list"} /\ c.items \in Nat
  /\ MaxCounted \in Nat \ {0} /\ Caps \subseteq 0..MaxCounted

VARIABLES
  cap,          \* max_iterations of this swarm
  at,           \* what comes next
  iteration,
  measured,     \* the workspace as this iteration found it
  best, stall,
  first,        \* before the first score, when best is -1 in the code
  left,         \* specialists still to come
  tasks,        \* number of developer tasks still to come
  tokens,       \* total_tokens
  roleTokens,   \* role_tokens, the roles of the team taken together by kind
  traces,       \* iterations with a trace
  status,
  stop          \* the user's stop

progress == <<cap, iteration, measured, best, stall, first>>
account  == <<tokens, roleTokens>>
team == <<left, tasks>>
vars == <<at, progress, team, account, traces, status, stop>>

MaxTeamDevelopers == 12
MaxCriticSuggestions == 5

Staff == IF DeveloperCount = 0 THEN MaxTeamDevelopers ELSE DeveloperCount

Role == {"tester", "critic", "worker", "specialist", "head", "developer"}

Over == {"done", "stalled", "max-iterations", "token-budget", "stopped", "error", "raised"}

TypeOK ==
  /\ cap \in Caps
  /\ at \in Role \cup {"round", "measure", "record", "over"}
  /\ iteration \in 0..MaxCounted
  /\ measured \in Workspaces
  /\ best \in 0..100 /\ stall \in 0..StallLimit /\ first \in BOOLEAN
  /\ left \in 0..Specialists
  /\ tasks \in 0..(3 * Staff)
  /\ tokens \in Nat
  /\ roleTokens \in [Role -> Nat]
  /\ traces \subseteq 1..iteration
  /\ status \in Over \cup {"running"}
  /\ at = "over" <=> status # "running"
  /\ stop \in BOOLEAN

Init ==
  /\ cap \in Caps
  /\ at = "round" /\ status = "running"
  /\ iteration = 0 /\ measured \in Workspaces
  /\ best = 0 /\ stall = 0 /\ first = TRUE
  /\ left = 0 /\ tasks = 0
  /\ tokens = 0 /\ roleTokens = [r \in Role |-> 0]
  /\ traces = {}
  /\ stop = FALSE

-----------------------------------------------------------------------------
(***************************************************************************)
(* score_workspace: 0..80 tenths of a point for the tests, 0..20 for       *)
(* hygiene; `command` is whether there is a test command, `runs` whether   *)
(* it could be run.                                                        *)
(***************************************************************************)
Hygiene(w) == (IF w.todos THEN 0 ELSE 10) + (IF w.debug THEN 0 ELSE 10)

\* n / d, rounded to the nearest integer.
Rounded(n, d) == (2 * n + d) \div (2 * d)

TestPoints(w) ==
  LET all == w.passed + w.failed
  IN  CASE ~w.command \/ ~w.runs               -> 0
        [] w.command /\ w.runs /\ w.exitOk     -> IF all = 0 THEN 40 ELSE 80
        [] w.command /\ w.runs /\ ~w.exitOk    -> IF all = 0 THEN 0 ELSE Rounded(80 * w.passed, all)

Points(w) == TestPoints(w) + Hygiene(w)

\* tests_pass: the run goes by the points.
TestsPass(w) == TestPoints(w) >= 80 \/ ~w.command

-----------------------------------------------------------------------------
Exhausted(used) == MaxTokens # 0 /\ used >= MaxTokens

End(why) == at' = "over" /\ status' = why

Goes(to) == at' = to /\ UNCHANGED status

Counted(n) == IF n < MaxCounted THEN n ELSE MaxCounted

\* The head of the loop: cap, stop, budget, and then the next iteration.
Round ==
  /\ at = "round"
  /\ \/ /\ cap # 0 /\ iteration >= cap
        /\ End("max-iterations") /\ UNCHANGED iteration
     \/ /\ cap = 0 \/ iteration < cap
        /\ \/ stop /\ End("stopped") /\ UNCHANGED iteration
           \/ ~stop /\ Exhausted(tokens) /\ End("token-budget") /\ UNCHANGED iteration
           \/ ~stop /\ ~Exhausted(tokens) /\ Goes("measure") /\ iteration' = Counted(iteration + 1)
  /\ UNCHANGED <<cap, measured, best, stall, first, team, account, traces, stop>>

\* Mutant of Stalls: an unchanged score is no stall.
StallsWhenWorse(points) == ~first /\ points < best

\* An improvement counts from MinScoreDelta on.
Stalls(points) == ~first /\ points < best + MinScoreDelta

\* score_workspace, the target and the stall.
Measure ==
  /\ at = "measure"
  /\ \E w \in Workspaces :
       LET points  == Points(w)
           stalled == Stalls(points)
           count   == IF stalled THEN stall + 1 ELSE 0
       IN  /\ measured' = w
           /\ \/ /\ points >= Target
                 /\ End("done")
                 /\ UNCHANGED <<best, stall, first, left>>
              \/ /\ points < Target
                 /\ stall' = count
                 /\ best' = IF points > best THEN points ELSE best
                 /\ first' = FALSE
                 /\ IF count >= StallLimit THEN End("stalled") /\ UNCHANGED left
                    ELSE /\ Goes(IF Specialists > 0 THEN "specialist" ELSE "tester")
                         /\ left' = Specialists
  /\ UNCHANGED <<cap, iteration, tasks, account, traces, stop>>

\* Mutant of Takes: a turn is added to the total twice.
TakesTwice(r, cost) ==
  /\ tokens' = tokens + cost + cost
  /\ roleTokens' = [roleTokens EXCEPT ![r] = @ + cost]

\* An agent takes its turn and is charged for it.
Takes(r, cost) ==
  /\ tokens' = tokens + cost
  /\ roleTokens' = [roleTokens EXCEPT ![r] = @ + cost]

\* The team first: every specialist, the lead, and the tasks it plans.  The
\* budget is not looked at in between.
Specialist ==
  /\ at = "specialist"
  /\ \E cost \in Costs : Takes("specialist", cost)
  /\ left' = left - 1
  /\ Goes(IF left = 1 THEN "head" ELSE "specialist")
  /\ UNCHANGED <<progress, tasks, traces, stop>>

\* _parse_team_plan: the tasks of the first `most` developers, so many at most.
Owned(plan, most) == {i \in DOMAIN plan : plan[i] \in 1..most}
ParseTeamPlan(plan, most) ==
  IF Cardinality(Owned(plan, most)) > 3 * most THEN 3 * most ELSE Cardinality(Owned(plan, most))

\* A plan whose tasks are no list ends run_swarm in an exception.
Lead ==
  /\ at = "head"
  /\ \E cost \in Costs : Takes("head", cost)
  /\ \/ /\ \E plan \in Plans : tasks' = ParseTeamPlan(plan, Staff)
        /\ Goes(IF tasks' = 0 THEN "tester" ELSE "developer")
     \/ End("raised") /\ UNCHANGED tasks
  /\ UNCHANGED <<progress, left, traces, stop>>

Developer ==
  /\ at = "developer"
  /\ \E cost \in Costs : Takes("developer", cost)
  /\ tasks' = tasks - 1
  /\ Goes(IF tasks' = 0 THEN "tester" ELSE "developer")
  /\ UNCHANGED <<progress, left, traces, stop>>

\* The budget is looked at after the tester, the critic and the worker.
Onward(to) == IF Exhausted(tokens') THEN End("token-budget") ELSE Goes(to)

\* Mutant of Tester: the budget is not looked at afterwards.
TesterOverBudget ==
  /\ at = "tester"
  /\ \/ SkipTester /\ TestsPass(measured) /\ UNCHANGED account
     \/ ~(SkipTester /\ TestsPass(measured)) /\ \E cost \in Costs : Takes("tester", cost)
  /\ Goes("critic")
  /\ UNCHANGED <<progress, team, traces, stop>>

Tester ==
  /\ at = "tester"
  /\ \/ SkipTester /\ TestsPass(measured) /\ UNCHANGED account
     \/ ~(SkipTester /\ TestsPass(measured)) /\ \E cost \in Costs : Takes("tester", cost)
  /\ Onward("critic")
  /\ UNCHANGED <<progress, team, traces, stop>>

\* _parse_critic: a reply that is no JSON is a suggestion itself.
Suggestions(critique) ==
  CASE critique.kind = "text"  -> 1
    [] critique.kind = "other" -> 0
    [] critique.kind = "list"  -> Min({critique.items, MaxCriticSuggestions})

\* A green suite needs no worker when the critic has nothing to suggest.  A
\* reply whose suggestions are no list cannot be cut to size, and run_swarm
\* ends in an exception.
Critic ==
  /\ at = "critic"
  /\ \E cost \in Costs : Takes("critic", cost)
  /\ \E c \in Critiques :
       \/ c.kind = "no list" /\ End("raised")
       \/ c.kind # "no list" /\ (Suggestions(c) > 0 \/ ~TestsPass(measured)) /\ Onward("worker")
       \/ c.kind # "no list" /\ Suggestions(c) = 0 /\ TestsPass(measured) /\ Onward("record")
  /\ UNCHANGED <<progress, team, traces, stop>>

Worker ==
  /\ at = "worker"
  /\ \E cost \in Costs : Takes("worker", cost)
  /\ Onward("record")
  /\ UNCHANGED <<progress, team, traces, stop>>

\* Mutant of Record: the trace is that of the round to come.
RecordNext ==
  /\ at = "record"
  /\ Goes("round")
  /\ traces' = traces \cup {iteration + 1}
  /\ UNCHANGED <<progress, team, account, stop>>

Record ==
  /\ at = "record"
  /\ Goes("round")
  /\ traces' = traces \cup {iteration}
  /\ UNCHANGED <<progress, team, account, stop>>

\* A ProviderError in any agent's turn; what the turn had used is not charged.
Fails ==
  /\ at \in Role
  /\ ~(at = "tester" /\ SkipTester /\ TestsPass(measured))
  /\ End("error")
  /\ UNCHANGED <<progress, team, account, traces, stop>>

Stop ==
  /\ status = "running" /\ ~stop
  /\ stop' = TRUE
  /\ UNCHANGED <<at, progress, team, account, traces, status>>

Run == Round \/ Measure \/ Specialist \/ Lead \/ Developer \/ Tester \/ Critic \/ Worker \/ Record
       \/ Fails

Next == Run \/ Stop

Spec == Init /\ [][Next]_vars

\* The swarm's thread runs on, and every agent's turn comes to an end.
FairSpec == Spec /\ WF_vars(Run)

-----------------------------------------------------------------------------
(***************************************************************************)
(* Properties.                                                             *)
(***************************************************************************)
\* "Per-role token usage is tracked so you can see where the budget goes":
\* the total is the sum over the roles.
TokensAddUp ==
  tokens = roleTokens["tester"] + roleTokens["critic"] + roleTokens["worker"]
           + roleTokens["specialist"] + roleTokens["head"] + roleTokens["developer"]

\* max_tokens caps the tokens up to the turn in which it is reached: neither
\* the critic nor the worker starts when it is used up, nor does the team, nor
\* the tester unless the team has just used it up.
NoTurnOverBudget ==
  /\ at \in {"critic", "worker"} => ~Exhausted(tokens)
  /\ at = "tester" /\ Specialists = 0 => ~Exhausted(tokens)
  /\ at = "specialist" /\ left = Specialists => ~Exhausted(tokens)

\* Every iteration but the last leaves a trace, and no other.
TracesInOrder == traces = 1..iteration \/ traces = 1..(iteration - 1)

\* "Run without end (until target/stall)": it does end, whatever the scores
\* do, because every iteration either uses up some of the stall limit or
\* raises the best score by MinScoreDelta.
SwarmEnds == <>(at = "over")
=============================================================================
