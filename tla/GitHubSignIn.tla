---------------------------- MODULE GitHubSignIn ----------------------------
(***************************************************************************)
(* The GitHub token of config.json: pasted, or granted to a device flow    *)
(* (github_oauth.py, cmd_connect, github_device_start), and refreshed with *)
(* its refresh token when it has expired (get_token in github.py).  The    *)
(* daemon works on the copy it has loaded, the tools of its agents and the *)
(* CLI on one they load for the call.  GitHub takes a refresh token once.  *)
(***************************************************************************)
EXTENDS Naturals

CONSTANTS
  Thread,    \* threads of the daemon that need the token, or change it
  Loader,    \* tools and commands, with a copy of their own
  Daemon,    \* the holder of the daemon's copy
  MaxGrants  \* bound: tokens granted

VARIABLES
  file,    \* what config.json has of GitHub
  held,    \* the copies
  job,     \* the call each of them is in, and the payload it has got
  flow,    \* the thread that waits for the user to authorize
  page,    \* what the page that asked for it has heard
  granted, \* grants made by GitHub
  usable,  \* those whose refresh token was not used
  expired, \* those whose token has expired
  \* Observability: grants that were never stored.
  lost

vars   == <<file, held, job, flow, page, granted, usable, expired, lost>>
github == <<granted, usable, expired>>

Actor  == Thread \cup Loader
Holder == Loader \cup {Daemon}
Of(a)  == IF a \in Thread THEN Daemon ELSE a
Grant  == 1..MaxGrants
Pasted == MaxGrants + 1
Nothing == [token |-> 0, refresh |-> 0, expires |-> FALSE]
Rest    == [at |-> "rest", refresh |-> 0, grant |-> 0]

TypeOK ==
  LET Token == [token : 0..Pasted, refresh : 0..MaxGrants, expires : BOOLEAN]
  IN  /\ file \in Token /\ held \in [Holder -> Token]
      /\ job \in [Actor -> [at : {"rest", "loaded", "refreshing", "granted", "polling", "stored"},
                            refresh : 0..MaxGrants, grant : 0..MaxGrants]]
      /\ flow \in {"none", "waits", "granted"} /\ page \in {"nothing", "asked", "connected", "error"}
      /\ granted \subseteq Grant /\ usable \subseteq granted /\ expired \subseteq granted /\ lost \subseteq granted

Init ==
  /\ file = Nothing /\ held = [h \in Holder |-> Nothing] /\ job = [a \in Actor |-> Rest]
  /\ flow = "none" /\ page = "nothing"
  /\ granted = {} /\ usable = {} /\ expired = {} /\ lost = {}

At(a, here) == job[a].at = here

-----------------------------------------------------------------------------
(* GitHub: a payload, or the time after which a token is refused.          *)
Grants(g, used) ==
  /\ g \in Grant \ granted /\ \A n \in Grant \ granted : g <= n
  /\ granted' = granted \cup {g}
  /\ usable' = (usable \ used) \cup {g}
  /\ UNCHANGED expired

Expire(g) ==
  /\ g \in granted \ expired
  /\ expired' = expired \cup {g}
  /\ UNCHANGED <<file, held, job, flow, page, granted, usable, lost>>

(* store_token(), and the paste of the page.                               *)
Stored(token, g, expires) ==
  [token |-> g, refresh |-> IF expires THEN g ELSE token.refresh, expires |-> expires]

-----------------------------------------------------------------------------
(* get_token(): a call of a tool loads the file first.                     *)
Load(l) ==
  /\ At(l, "rest")
  /\ held' = [held EXCEPT ![l] = file]
  /\ job' = [job EXCEPT ![l].at = "loaded"]
  /\ UNCHANGED <<file, flow, page, github, lost>>

GetToken(a) ==
  LET token == held[Of(a)]
  IN  /\ At(a, IF a \in Thread THEN "rest" ELSE "loaded")
      /\ job' = [job EXCEPT ![a] =
                   IF token.expires /\ token.token \in expired
                   THEN [at |-> "refreshing", refresh |-> token.refresh, grant |-> 0]
                   ELSE IF a \in Loader /\ token = Nothing THEN [Rest EXCEPT !.at = "polling"] ELSE Rest]
      /\ UNCHANGED <<file, held, flow, page, github, lost>>

(* A refused or failed refresh is "not connected"; so is a sign-in of the  *)
(* CLI that is denied or runs out.                                         *)
RefreshGranted(a, g) ==
  /\ At(a, "refreshing") /\ job[a].refresh \in usable
  /\ Grants(g, {job[a].refresh})
  /\ job' = [job EXCEPT ![a].at = "granted", ![a].grant = g]
  /\ UNCHANGED <<file, held, flow, page, lost>>

PollGranted(a, g) ==
  /\ At(a, "polling")
  /\ Grants(g, {})
  /\ job' = [job EXCEPT ![a].at = "granted", ![a].grant = g]
  /\ UNCHANGED <<file, held, flow, page, lost>>

Refused(a) ==
  /\ job[a].at \in {"refreshing", "polling"}
  /\ job' = [job EXCEPT ![a] = Rest]
  /\ UNCHANGED <<file, held, flow, page, github, lost>>

Store(a, expires) ==
  /\ At(a, "granted")
  /\ held' = [held EXCEPT ![Of(a)] = Stored(@, job[a].grant, expires)]
  /\ job' = [job EXCEPT ![a].at = "stored"]
  /\ UNCHANGED <<file, flow, page, github, lost>>

(* Config.save() writes the whole copy, or fails and leaves the file.      *)
Save(a) ==
  /\ At(a, "stored")
  /\ \/ file' = held[Of(a)] /\ UNCHANGED lost
     \/ lost' = lost \cup (granted \cap {held[Of(a)].token}) /\ UNCHANGED file
  /\ job' = [job EXCEPT ![a] = Rest]
  /\ UNCHANGED <<held, flow, page, github>>

(* The process of a tool or a command dies.                                *)
Dies(l) ==
  /\ ~At(l, "rest")
  /\ job' = [job EXCEPT ![l] = Rest]
  /\ lost' = lost \cup (granted \cap {job[l].grant})
  /\ UNCHANGED <<file, held, flow, page, github>>

-----------------------------------------------------------------------------
PasteKept(t) ==
  /\ At(t, "rest")
  /\ held' = [held EXCEPT ![Daemon].token = Pasted]
  /\ job' = [job EXCEPT ![t].at = "stored"]
  /\ UNCHANGED <<file, flow, page, github, lost>>
Paste(t) ==
  /\ At(t, "rest")
  /\ held' = [held EXCEPT ![Daemon].token = Pasted, ![Daemon].expires = FALSE]
  /\ job' = [job EXCEPT ![t].at = "stored"]
  /\ UNCHANGED <<file, flow, page, github, lost>>

(* The daemon saves its copy for a key, a provider, a setting.             *)
SaveOther(t) ==
  /\ At(t, "rest")
  /\ job' = [job EXCEPT ![t].at = "stored"]
  /\ UNCHANGED <<file, held, flow, page, github, lost>>

(* github_device_start(): a thread polls until the user has authorized;    *)
(* what it hears then is for the page, an answer it cannot read is not.    *)
DeviceStart ==
  /\ flow = "none"
  /\ flow' = "waits" /\ page' = "asked"
  /\ UNCHANGED <<file, held, job, github, lost>>

Authorized(g) ==
  /\ flow = "waits" /\ flow' = "granted"
  /\ Grants(g, {})
  /\ UNCHANGED <<file, held, job, page, lost>>

Connected(expires) ==
  /\ flow = "granted" /\ flow' = "none" /\ page' = "connected"
  /\ \E g \in granted : /\ \A n \in granted : n <= g
                        /\ held' = [held EXCEPT ![Daemon] = Stored(@, g, expires)]
  /\ file' = held'[Daemon]
  /\ UNCHANGED <<job, github, lost>>

DeviceFails ==
  /\ flow = "waits" /\ flow' = "none"
  /\ page' \in {"error", page}
  /\ UNCHANGED <<file, held, job, github, lost>>

Next ==
  \/ \E g \in Grant : Expire(g) \/ Authorized(g) \/ \E a \in Actor : RefreshGranted(a, g) \/ PollGranted(a, g)
  \/ \E l \in Loader : Load(l) \/ Dies(l)
  \/ \E a \in Actor : GetToken(a) \/ Refused(a) \/ Save(a) \/ \E expires \in BOOLEAN : Store(a, expires)
  \/ \E t \in Thread : Paste(t) \/ SaveOther(t)
  \/ DeviceStart \/ DeviceFails \/ \E expires \in BOOLEAN : Connected(expires)

Spec == Init /\ [][Next]_vars

-----------------------------------------------------------------------------
(* A token is only ever refreshed with the refresh token that came with    *)
(* it: one that was pasted is not traded for the account it replaced.      *)
RefreshIsItsOwn == \A token \in {file} \cup {held[h] : h \in Holder} : token.expires => token.refresh = token.token

(* User tokens "are refreshed automatically with the stored refresh token" *)
(* (github_oauth.py): the stored one is good, unless a grant was lost or   *)
(* is about to be stored.                                                  *)
RefreshedAutomatically ==
  file.expires /\ lost = {} /\ (\A a \in Actor : job[a].at \notin {"granted", "stored"}) => file.refresh \in usable
=============================================================================
