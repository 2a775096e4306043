----------------------------- MODULE MCServices -----------------------------
(***************************************************************************)
(* Instances of what Silk Code keeps in step with somebody else: commands  *)
(* in flight (InFlight), the mirror of a sandbox (SandboxMirror), a        *)
(* repository opened in one (RemoteWorkspace), the project's memory        *)
(* (ProjectMemory), MCP servers (McpClient), the configuration file        *)
(* (ConfigFile), the sign-in to GitHub (GitHubSignIn), its repositories as *)
(* projects (GitHubProjects) and the branch and its remote (BranchSync).   *)
(* They share no state here, so one of them runs in a behaviour, and the   *)
(* others stay where they start.                                           *)
(***************************************************************************)
EXTENDS InFlight, TLC

CONSTANTS
  Thread, Workspace, MaxSaves, Bare,
  Client, RemoteNote, MaxProxies,
  Rememberer, Note, Handwritten, Restates, MaxShown, MaxRecords,
  Caller, Starter, MaxRequests,
  CLI, Provider, Builtin, Daemon, MaxChanges, Nobody,
  Signer, Loader, MaxGrants,
  Opener, Repo,
  Work, Unborn

\* Every thread's session is on a workspace of its own.
WorkspaceOf == CHOOSE of \in [Thread -> Workspace] : \A t, u \in Thread : of[t] = of[u] => t = u

VARIABLES
  part,  \* which of them runs
  saves, local, last, tree, command, since, found,
  clone, memory, origin, slot, serving, made, client, died,
  records, mirror, job,
  proc, manager, lastId, asked, answered, reader, call, requests,
  config, held, change, changes, replaced,
  github, copies, signin, flow, page, granted, usable, expired, lost,
  legacy, dir, opener,
  branch, upstream, trunk, seenUp, seenBase, dirty, merging, survey, allow, phase

flight  == <<rec, out, child, exec, owner, tracked, report, notices>>
sandbox == <<saves, local, last, tree, command, since, found>>
remote  == <<clone, memory, origin, slot, serving, made, client, died>>
notes   == <<records, mirror, job>>
mcp     == <<proc, manager, lastId, asked, answered, reader, call, requests>>
setting == <<config, held, change, changes, replaced>>
tokens  == <<github, copies, signin, flow, page, granted, usable, expired, lost>>
repos   == <<legacy, dir, opener>>
sync    == <<branch, upstream, trunk, seenUp, seenBase, dirty, merging, survey, allow, phase>>
all     == <<part, flight, sandbox, remote, notes, mcp, setting, tokens, repos, sync>>

Mirror   == INSTANCE SandboxMirror WITH call <- command
Remote   == INSTANCE RemoteWorkspace WITH Note <- RemoteNote
Memory   == INSTANCE ProjectMemory
Mcp      == INSTANCE McpClient WITH made <- requests
Config   == INSTANCE ConfigFile WITH Command <- CLI, file <- config, job <- change
SignIn   == INSTANCE GitHubSignIn WITH Thread <- Signer, file <- github, held <- copies, job <- signin
Projects == INSTANCE GitHubProjects
Sync     == INSTANCE BranchSync

\* A part that does not run has one initial state.
AllInit ==
  /\ part \in {"flight", "sandbox", "remote", "notes", "mcp", "setting", "tokens", "repos", "sync"}
  /\ Init /\ Mirror!Init /\ Remote!Init /\ Memory!Init /\ Mcp!Init /\ Config!Init /\ SignIn!Init
  /\ Projects!Init /\ Sync!Init
  /\ part # "notes" => mirror.is = "none"
  /\ part # "repos" => legacy = None

InFlightStep == part = "flight" /\ Next /\ UNCHANGED <<part, sandbox, remote, notes, mcp, setting, tokens, repos, sync>>
MirrorStep   == part = "sandbox" /\ Mirror!Next /\ UNCHANGED <<part, flight, remote, notes, mcp, setting, tokens, repos, sync>>
RemoteStep   == part = "remote" /\ Remote!Next /\ UNCHANGED <<part, flight, sandbox, notes, mcp, setting, tokens, repos, sync>>
MemoryStep   == part = "notes" /\ Memory!Next /\ UNCHANGED <<part, flight, sandbox, remote, mcp, setting, tokens, repos, sync>>
McpStep      == part = "mcp" /\ Mcp!Next /\ UNCHANGED <<part, flight, sandbox, remote, notes, setting, tokens, repos, sync>>
ConfigStep   == part = "setting" /\ Config!Next /\ UNCHANGED <<part, flight, sandbox, remote, notes, mcp, tokens, repos, sync>>
SignInStep   == part = "tokens" /\ SignIn!Next /\ UNCHANGED <<part, flight, sandbox, remote, notes, mcp, setting, repos, sync>>
ProjectsStep == part = "repos" /\ Projects!Next /\ UNCHANGED <<part, flight, sandbox, remote, notes, mcp, setting, tokens, sync>>
SyncStep     == part = "sync" /\ Sync!Next /\ UNCHANGED <<part, flight, sandbox, remote, notes, mcp, setting, tokens, repos>>

AllNext == \/ InFlightStep \/ MirrorStep \/ RemoteStep \/ MemoryStep \/ McpStep
           \/ ConfigStep \/ SignInStep \/ ProjectsStep \/ SyncStep

AllSpec == AllInit /\ [][AllNext]_all

-----------------------------------------------------------------------------
(* Every part's state has its type.                                        *)
TypesOK ==
  CASE part = "flight"  -> TypeOK
    [] part = "sandbox" -> Mirror!TypeOK
    [] part = "remote"  -> Remote!TypeOK
    [] part = "notes"   -> Memory!TypeOK
    [] part = "mcp"     -> Mcp!TypeOK
    [] part = "setting" -> Config!TypeOK
    [] part = "tokens"  -> SignIn!TypeOK
    [] part = "repos"   -> Projects!TypeOK
    [] part = "sync"    -> Sync!TypeOK

(* What report() tells of the commands that a process did not live to      *)
(* finish: none is forgotten, and none that still runs is "interrupted"    *)
(* (inflight.py).                                                          *)
OrphansAreReported == NothingIsForgotten /\ InterruptedIsOver

(* A command finds no older state of the workspace than when it was asked  *)
(* for (execbackend.py).                                                   *)
CommandSeesWorkspace == Mirror!CommandSeesWorkspace

(* A repository that was opened in a sandbox is usable, and a client finds *)
(* what it has written (remotews.py, sandbox_server.py).                   *)
RemoteIsUsable == Remote!OpenedIsUsable /\ [][Remote!WrittenIsListed']_remote

(* No note is lost: what was written by hand is in the store before the    *)
(* mirror replaces it, and a note goes silent only for a later one that    *)
(* restates it (memory.py).                                                *)
NoNoteIsLost == Memory!HandwrittenIsKept /\ [][Memory!SupersededByNewer']_notes

(* A request to an MCP server gets its own answer, or is woken when the    *)
(* server is gone (mcp.py).                                                *)
RequestsAreAnswered == Mcp!AnswersAreOwn /\ Mcp!NobodyWaitsForTheDead

(* What is stored fits together: the providers with the config's data, its *)
(* default model with them, a token with its refresh token (config.py,     *)
(* inference.py, github_oauth.py).                                         *)
SettingsFitTogether == Config!ViewInStep /\ Config!DefaultIsKnown /\ SignIn!RefreshIsItsOwn

(* A repository's directory never has another repository's clone           *)
(* (project.py).                                                           *)
NeverAnotherRepository == Projects!NeverAnotherRepository

(* A resync drops no work its survey has seen (sync.py).                   *)
SurveyedWorkIsKept == Sync!SurveyedWorkIsKept
=============================================================================
