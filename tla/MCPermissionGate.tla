-------------------------- MODULE MCPermissionGate --------------------------
(***************************************************************************)
(* Instances of PermissionGate.  The commands the agents try are lines     *)
(* around git, classified by CommandRisk; lines the gate cannot tell apart *)
(* and that do the same are one action.                                    *)
(***************************************************************************)
EXTENDS PermissionGate, Sequences, TLC

Risk == INSTANCE CommandRisk

\* `runs` is what the shell will have git do, for the subcommands of interest.
Act(kind, risk, op, head, runs) ==
  [kind |-> kind, risk |-> risk, op |-> op, head |-> head, runs |-> runs]

-----------------------------------------------------------------------------
Level == (0 :> "low") @@ (1 :> "medium") @@ (2 :> "high")

Bare(words) == [i \in DOMAIN words |-> [text |-> words[i], bare |-> TRUE]]

\* Ways to call git, each with whether it goes on to a subcommand.
Git == {[words |-> Bare(<<"git">>), goes |-> TRUE],
        [words |-> <<[text |-> "git", bare |-> FALSE]>>, goes |-> TRUE],
        [words |-> Bare(<<"$GIT">>), goes |-> TRUE],
        [words |-> Bare(<<"git", "-C", "dir">>), goes |-> TRUE],
        [words |-> Bare(<<"git", "-C", "push">>), goes |-> TRUE],
        [words |-> Bare(<<"git", "--no-pager">>), goes |-> TRUE],
        [words |-> Bare(<<"git", "--exec-path=dir">>), goes |-> TRUE],
        [words |-> Bare(<<"git", "--newer-option">>), goes |-> TRUE],
        [words |-> Bare(<<"git", "--exec-path">>), goes |-> FALSE]}

\* What it is told to do.
Rest == {<<"status">>, <<"commit", "-m", "push">>, <<"push">>, <<"push", "-f">>, <<"checkout", "main">>}

\* What of it matters here.
Remote == {"push", "commit"}

\* One such command, with the subcommand spelled out or not.
Single == {[line |-> g.words \o <<[text |-> r[1], bare |-> spelled]>> \o Bare(Tail(r)),
            runs |-> IF g.goes THEN {r[1]} \cap Remote ELSE {}] :
             g \in Git, r \in Rest, spelled \in BOOLEAN}

\* The same with something attached.
Attached == {[line |-> s.line \o Bare(t), runs |-> s.runs \cup ({t[Len(t)]} \cap Remote)] :
               s \in Single, t \in {<<"&&", "git", "push">>, <<"&&", "git", "commit">>, <<"|", "cat">>}}

Command(c, readable) ==
  LET risk == Risk!ClassifyCommand(c.line, readable)
      op == Risk!GitOperation(c.line, readable)
  IN  Act("command", Level[risk], IF op = Risk!NoWord THEN None ELSE op,
          Risk!HeadOf(c.line), c.runs)

Lines == {Command(c, TRUE) : c \in Single \cup Attached} \cup {Command(c, FALSE) : c \in Single}

\* The lines that push, the commits a grant may cover, and what is no command.
Others == {Act("write", "medium", None, "write_file", {}), Act("state", "medium", None, "write_file", {}),
           Act("mcp", "medium", None, "mcp_tool", {})}

Pushes == {act \in Lines : "push" \in act.runs /\ (act.head = "git" \/ act.runs = {"push"})}

Kinds == {act \in Lines : act.op = "commit" /\ act.head = "git"} \cup Pushes \cup Others

PushGrants == {{}, {"push"}}

Symmetry == Permutations(Agent) \cup Permutations(Client)

-----------------------------------------------------------------------------
\* Whatever way a line spells it, a push comes from a "yes", from "yes to
\* all", or from the grant to push, and then the line is that push and
\* nothing else: "a grant is about what will run" (git_operation).
PushNeedsConsent ==
  \A a \in Agent :
    LET d == doing[a]
    IN  d.act # None /\ "push" \in d.act.runs =>
          \/ d.by = "yes"
          \/ d.by = "standing" /\ (alwaysAll \/ (d.act.runs = {"push"} /\ "push" \in granted))
=============================================================================
