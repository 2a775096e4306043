----------------------------- MODULE SelfUpdate -----------------------------
(***************************************************************************)
(* `silkcode update`, the page's Update button and the hot reload          *)
(* (update.py, cmd_update, update_service, start_auto_reload, run_gui): an *)
(* update moves the code on disk, in a checkout or by pip; a running       *)
(* daemon watches the checkout's HEAD and re-execs itself when it is idle. *)
(* A version is a number; some do not import.                              *)
(***************************************************************************)
EXTENDS Naturals

CONSTANTS
  Updater,       \* processes that update: the CLI, and a request of the page
  ViaPage,       \* those of the page
  MaxVersions    \* bound: versions published

VARIABLES
  install,  \* how it is installed: a checkout (clean or not) or by pip
  origin,   \* the newest version at the source
  broken,   \* versions that do not import
  disk,     \* the version on disk (HEAD, in a checkout)
  update,   \* what each updater has come to
  daemon,   \* the daemon: code it runs, baseline it compares HEAD with
  busy      \* whether a turn or a swarm runs

vars == <<install, origin, broken, disk, update, daemon, busy>>

Version == 0..MaxVersions
NoBase  == MaxVersions + 1
Rest    == [at |-> "rest", before |-> 0, after |-> 0, result |-> "none"]

TypeOK ==
  /\ install \in [kind : {"checkout", "pip"}, dirty : BOOLEAN, ahead : BOOLEAN]
  /\ origin \in Version /\ disk \in Version /\ broken \subseteq Version
  /\ update \in [Updater -> [at : {"rest", "start", "fetched", "merged"}, before : Version, after : Version,
                             result : {"none", "updated", "up-to-date", "error"}]]
  /\ daemon \in [at : {"importing", "starting", "running", "leaving", "down"},
                 code : Version, baseline : 0..NoBase]
  /\ busy \in BOOLEAN

Init ==
  /\ install \in [kind : {"checkout", "pip"}, dirty : BOOLEAN, ahead : BOOLEAN]
  /\ origin = 0 /\ disk = 0 /\ broken = {}
  /\ update = [u \in Updater |-> Rest]
  /\ daemon = [at |-> "importing", code |-> 0, baseline |-> NoBase]
  /\ busy = FALSE

Checkout == install.kind = "checkout"
Publish ==
  /\ origin < MaxVersions
  /\ origin' = origin + 1
  /\ broken' \in {broken, broken \cup {origin + 1}}
  /\ UNCHANGED <<install, disk, update, daemon, busy>>

-----------------------------------------------------------------------------
(* update_installation(): a dirty tree is refused unless it is forced.     *)
Ends(u, result) == update' = [update EXCEPT ![u] = [Rest EXCEPT !.result = result]]

Begin(u, force) ==
  /\ update[u].at = "rest"
  /\ IF Checkout /\ install.dirty /\ ~force THEN Ends(u, "error")
     ELSE update' = [update EXCEPT ![u] = [Rest EXCEPT !.at = "start", !.before = disk]]
  /\ UNCHANGED <<install, origin, broken, disk, daemon, busy>>

BeginCli(u) == u \notin ViaPage /\ \E force \in BOOLEAN : Begin(u, force)

(* A swarm that runs refuses it; a turn does not.                          *)
BeginPage(u) == u \in ViaPage /\ daemon.at = "running" /\ Begin(u, FALSE)

(* The fetch, or pip's look at the source, may fail.                       *)
Fetch(u) ==
  /\ update[u].at = "start"
  /\ \/ update' = [update EXCEPT ![u].at = "fetched", ![u].after = origin]
     \/ Ends(u, "error")
  /\ UNCHANGED <<install, origin, broken, disk, daemon, busy>>

(* merge --ff-only: never over local commits, nor over a dirty file.       *)
MergeAnyway(u) ==
  /\ update[u].at = "fetched" /\ Checkout
  /\ disk' = update[u].after
  /\ Ends(u, IF disk' = disk THEN "up-to-date" ELSE "updated")
  /\ UNCHANGED <<install, origin, broken, daemon, busy>>
Merge(u) ==
  LET new == IF update[u].after > disk THEN update[u].after ELSE disk
  IN  /\ update[u].at = "fetched" /\ Checkout
      /\ \/ (install.ahead \/ install.dirty) /\ Ends(u, "error") /\ UNCHANGED disk
         \/ /\ ~install.ahead
            /\ disk' = new
            /\ IF new = update[u].before THEN Ends(u, "up-to-date")
               ELSE update' = [update EXCEPT ![u].at = "merged", ![u].after = new]
      /\ UNCHANGED <<install, origin, broken, daemon, busy>>

(* The import check, after HEAD has moved.                                 *)
CheckImport(u) ==
  /\ update[u].at = "merged"
  /\ Ends(u, IF disk \in broken THEN "error" ELSE "updated")
  /\ UNCHANGED <<install, origin, broken, disk, daemon, busy>>

(* pip reinstalls what is at the source; the page's request then restarts  *)
(* the daemon, unless it is busy.                                          *)
Reinstall(u) ==
  /\ update[u].at = "fetched" /\ ~Checkout
  /\ disk' = update[u].after
  /\ Ends(u, IF disk' = update[u].before THEN "up-to-date" ELSE "updated")
  /\ daemon' = IF u \in ViaPage /\ disk' # update[u].before /\ daemon.at = "running" /\ ~busy
               THEN [daemon EXCEPT !.at = "leaving"] ELSE daemon
  /\ UNCHANGED <<install, origin, broken, busy>>

-----------------------------------------------------------------------------
(* The daemon: it loads its code, sets itself up, and takes the baseline   *)
(* when it is about to serve.                                              *)
Import ==
  /\ daemon.at = "importing"
  /\ daemon' = [at |-> IF disk \in broken THEN "down" ELSE "starting", code |-> disk, baseline |-> NoBase]
  /\ UNCHANGED <<install, origin, broken, disk, update, busy>>

Serve ==
  /\ daemon.at = "starting"
  /\ daemon' = [daemon EXCEPT !.at = "running", !.baseline = IF Checkout THEN disk ELSE NoBase]
  /\ UNCHANGED <<install, origin, broken, disk, update, busy>>

Works(b) ==
  /\ daemon.at = "running" /\ busy = ~b
  /\ busy' = b
  /\ UNCHANGED <<install, origin, broken, disk, update, daemon>>

(* The loop of start_auto_reload.                                          *)
WatchOnce ==
  /\ daemon.at = "running" /\ Checkout /\ disk = daemon.baseline + 1 /\ ~busy
  /\ daemon' = [daemon EXCEPT !.at = "leaving"]
  /\ UNCHANGED <<install, origin, broken, disk, update, busy>>
Watch ==
  /\ daemon.at = "running" /\ Checkout /\ disk # daemon.baseline /\ ~busy
  /\ daemon' = [daemon EXCEPT !.at = "leaving"]
  /\ UNCHANGED <<install, origin, broken, disk, update, busy>>

(* _reexec(): a turn that has begun by now ends with the process, and so   *)
(* does an update the page asked for.                                      *)
Exec ==
  /\ daemon.at = "leaving"
  /\ daemon' = [daemon EXCEPT !.at = "importing"]
  /\ busy' = FALSE
  /\ update' = [u \in Updater |-> IF u \in ViaPage THEN Rest ELSE update[u]]
  /\ UNCHANGED <<install, origin, broken, disk>>

Next ==
  \/ Publish
  \/ \E u \in Updater : BeginCli(u) \/ BeginPage(u) \/ Fetch(u) \/ Merge(u) \/ CheckImport(u) \/ Reinstall(u)
  \/ Import \/ Serve \/ Watch \/ Exec
  \/ \E b \in BOOLEAN : Works(b)

Spec == Init /\ [][Next]_vars

Daemon   == Import \/ Serve \/ Watch \/ Exec
FairSpec == Spec /\ WF_vars(Daemon)

-----------------------------------------------------------------------------
(* HEAD's code goes live without anybody's doing: a daemon of a checkout   *)
(* that is not busy for good ends up with HEAD as its baseline, or cannot  *)
(* be started any more (the docstring of update.py).                       *)
UpdatesAreTakenUp ==
  Checkout /\ <>[]~busy => <>[](daemon.at = "down" \/ daemon.baseline = disk)

(* "updated" is only said of code that is newer and imports.               *)
UpdatedCodeImports ==
  [][\A u \in Updater : Checkout /\ update[u].result # "updated" /\ update'[u].result = "updated"
       => disk \notin broken /\ disk > update[u].before]_vars
=============================================================================
