----------------------------- MODULE CommandRisk -----------------------------
(***************************************************************************)
(* The classification of shell commands of src/silkcode/permissions.py:    *)
(* how a line is cut into commands, what git will make of each of them,    *)
(* the risk that follows, and the operation a grant may stand for.         *)
(*                                                                         *)
(* A line is a sequence of words.  A word is what the shell makes of it    *)
(* (`text`) and whether the line spells it so (`bare`): quotes inside a    *)
(* word and escapes hide it from a pattern over the raw text.              *)
(***************************************************************************)
EXTENDS Naturals, Sequences, FiniteSets, SequencesExt

NoWord == "no such word"

\* The levels of Risk.
Low == 0
Medium == 1
High == 2

ShellOperators == {"&&", "||", ";", "|", "&"}

LowRiskCommands == {"ls", "cat", "echo", "grep", "find", "pytest"}

TestRunners == {"npm", "cargo", "go", "flutter", "yarn"}

GitReadSubcommands ==
  {"status", "log", "diff", "show", "blame", "shortlog", "describe", "branch", "remote"}

\* Options of git before its subcommand: the words that take the next word
\* as their value, those that stand alone (or carry their value), and those
\* that print something and end it.
GitValueOptions == {"-C", "-c", "--git-dir", "--work-tree", "--namespace"}
GitLoneOptions == {"-p", "--no-pager", "--bare", "--git-dir=dir", "-Cdir", "-ckey=value", "--exec-path=dir"}
GitInformationalOptions == {"--exec-path", "--version", "--help", "--list-cmds=main"}
UnknownOptions == {"--newer-option"}

GitOptions == GitValueOptions \cup GitLoneOptions \cup GitInformationalOptions \cup UnknownOptions

-----------------------------------------------------------------------------
\* What HIGH_RISK_PATTERNS find in a sequence of words.
HighWords == {"sudo", "eval", "mkfs", "shutdown", "reboot"}

HighPairs ==
  {<<"git", "push">>, <<"git", "restore">>, <<"git", "clean">>, <<"rm", "-rf">>, <<"rm", "-f">>,
   <<"chmod", "-R">>, <<"|", "sh">>, <<"|", "bash">>, <<"|", "python">>,
   <<"github", "merge-pr">>, <<"github", "create-pr">>}

MatchesHighRisk(words) ==
  \E i \in DOMAIN words :
    \/ words[i] \in HighWords
    \/ i < Len(words) /\ <<words[i], words[i + 1]>> \in HighPairs
    \/ i + 1 < Len(words) /\ <<words[i], words[i + 1], words[i + 2]>> = <<"git", "reset", "--hard">>
    \/ /\ i + 1 < Len(words) /\ <<words[i], words[i + 1]>> = <<"git", "checkout">>
       /\ words[i + 2] \in {"--", "."} \/ \E j \in (i + 2)..Len(words) : words[j] = "-f"

\* What the raw text shows of a line.
Raw(line) == [i \in DOMAIN line |-> IF line[i].bare THEN line[i].text ELSE NoWord]

\* The words of each command of a line, operators left out.
SplitCommands(line) ==
  LET Add(segments, word) ==
        IF word.text \in ShellOperators /\ word.bare
          THEN Append(segments, <<>>)
          ELSE [segments EXCEPT ![Len(segments)] = Append(@, word.text)]
  IN  SelectSeq(FoldLeft(Add, <<(<<>>)>>, line), LAMBDA argv : argv # <<>>)

\* The command itself is made up at run time.
RunsSomethingWeCannotSee(argv) == argv[1] \in {"$GIT", "$(which git)"}

-----------------------------------------------------------------------------
(***************************************************************************)
(* What git will run.  `found` is the subcommand, NoWord if git runs none, *)
(* "unknown" where an option leaves that open.                             *)
(***************************************************************************)
\* Mutant of GitSubcommand: the word after `git` is the subcommand.
GitSubcommandNext(argv) ==
  IF Len(argv) < 2 THEN [found |-> NoWord, args |-> <<>>]
  ELSE [found |-> argv[2], args |-> SubSeq(argv, 3, Len(argv))]

GitSubcommand(argv) ==
  LET Start == [found |-> "looking", args |-> <<>>, value |-> FALSE]
      Read(s, word) ==
        CASE s.found # "looking"             -> [s EXCEPT !.args = Append(@, word)]
          [] s.found = "looking" /\ s.value  -> [s EXCEPT !.value = FALSE]
          [] s.found = "looking" /\ ~s.value ->
               CASE word \in GitValueOptions         -> [s EXCEPT !.value = TRUE]
                 [] word \in GitLoneOptions          -> s
                 [] word \in GitInformationalOptions -> [s EXCEPT !.found = NoWord]
                 [] word \in UnknownOptions          -> [s EXCEPT !.found = "unknown"]
                 [] word \notin GitOptions           -> [s EXCEPT !.found = word]
      end == FoldLeft(Read, Start, Tail(argv))
  IN  [found |-> IF end.found = "looking" THEN NoWord ELSE end.found, args |-> end.args]

\* rm: what follows "--" is a path.
RmIsDestructive(args) ==
  \E i \in DOMAIN args :
    /\ args[i] \in {"-r", "-R", "-f", "-rf", "--recursive", "--force"}
    /\ \A j \in 1..(i - 1) : args[j] # "--"

CheckoutDiscards(args) == \E i \in DOMAIN args : args[i] \in {"--", ".", "--force", "-f"}

ClassifyGit(argv) ==
  LET git == GitSubcommand(argv)
  IN  CASE git.found = "unknown"                         -> High
        [] git.found = NoWord                            -> Medium
        [] git.found \in {"push", "clean", "restore"}    -> High
        [] git.found = "reset"    -> IF Contains(git.args, "--hard") THEN High ELSE Medium
        [] git.found = "checkout" -> IF CheckoutDiscards(git.args) THEN High ELSE Medium
        [] git.found \in GitReadSubcommands              -> Low
        [] OTHER                                         -> Medium

ClassifyArgv(argv) ==
  CASE argv[1] = "git" -> ClassifyGit(argv)
    [] argv[1] = "rm"  -> IF RmIsDestructive(Tail(argv)) THEN High ELSE Medium
    [] argv[1] \in TestRunners /\ Len(argv) > 1 /\ argv[2] = "test" -> Low
    [] argv[1] \in LowRiskCommands ->
         IF Contains(argv, "-delete") \/ Contains(argv, "-exec") THEN Medium ELSE Low
    [] OTHER -> Medium

-----------------------------------------------------------------------------
\* classify_command: the raw text, then each command as the shell sees it.
\* `readable` is whether the line can be read as shell at all.
ClassifyCommand(line, readable) ==
  LET segments == SplitCommands(line)
  IN  IF \/ MatchesHighRisk(Raw(line))
         \/ ~readable
         \/ \E s \in Range(segments) : RunsSomethingWeCannotSee(s) \/ MatchesHighRisk(s)
        THEN High
        ELSE Max({ClassifyArgv(s) : s \in Range(segments)} \cup (IF segments = <<>> THEN {Medium} ELSE {}))

OperationOf(subcommand) ==
  CASE subcommand \in {"pull", "fetch"} -> "pull"
    [] subcommand \in {"push", "commit", "merge"} -> subcommand
    [] OTHER -> NoWord

\* git_operation: what a grant may stand for; NoWord for a line of several
\* commands.
GitOperation(line, readable) ==
  LET segments == SplitCommands(line)
  IN  IF ~readable \/ Len(segments) # 1 THEN NoWord
      ELSE LET argv == segments[1]
           IN  IF Len(argv) > 1 /\ <<argv[1], argv[2]>> = <<"github", "merge-pr">> THEN "merge"
               ELSE IF argv[1] # "git" THEN NoWord
               ELSE OperationOf(GitSubcommand(argv).found)

\* What "always" is remembered under: the first word as it is spelled.
HeadOf(line) == IF line[1].bare THEN line[1].text ELSE "quoted"
=============================================================================
