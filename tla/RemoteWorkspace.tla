--------------------------- MODULE RemoteWorkspace ---------------------------
(***************************************************************************)
(* A repository that is cloned in the sandbox and worked on from there     *)
(* (remotews.py, the requests of execbackend.py, the handlers of           *)
(* sandbox_server.py, a thread each, and the proxy of gitproxy.py that     *)
(* holds the token): one workspace id, and the clients that open it.  Of   *)
(* its files memory.md is followed, which remember() appends to.           *)
(***************************************************************************)
EXTENDS Naturals

CONSTANTS
  Client,     \* processes that open the repository
  Note,       \* notes for its memory
  MaxProxies  \* bound: proxies started

VARIABLES
  clone,    \* the clone in the sandbox: whether git is done with it
  memory,   \* the notes in its memory.md ({}: no such file)
  origin,   \* the proxy its origin names (0: the upstream itself)
  slot,     \* git_proxies of the sandbox server (0: none)
  serving,  \* proxies that accept
  made,     \* proxies made so far
  client,   \* the call each client is in
  \* Observability: whether the sandbox died within a clone.
  died

sandbox == <<clone, memory, origin, slot, serving, made>>
vars    == <<sandbox, client, died>>

Proxy == 0..MaxProxies
Out   == [at |-> "out", token |-> FALSE, proxy |-> 0, listed |-> "unknown", old |-> {}, wrote |-> FALSE]
Asks  == {"asked", "popped", "url", "clone", "cloning", "discard", "repoint", "fetch"}

TypeOK ==
  /\ clone \in {"absent", "partial", "whole"} /\ memory \subseteq Note
  /\ origin \in Proxy /\ slot \in Proxy /\ serving \subseteq Proxy /\ made \in Proxy
  /\ client \in [Client -> [at : Asks \cup {"out", "ready", "read", "write"}, token : BOOLEAN, proxy : Proxy,
                            listed : {"unknown", "yes", "no"}, old : SUBSET Note, wrote : BOOLEAN]]
  /\ died \in BOOLEAN

Init ==
  /\ clone = "absent" /\ memory = {} /\ origin = 0
  /\ slot = 0 /\ serving = {} /\ made = 0
  /\ client = [c \in Client |-> Out]
  /\ died = FALSE

At(c, here)      == client[c].at = here
GoesTo(c, there) == client' = [client EXCEPT ![c].at = there]
Reaches(p)       == p = 0 \/ p \in serving

-----------------------------------------------------------------------------
(* A client asks /clone, which first makes the URL of the origin: with a   *)
(* token, that of a new proxy, the last one's being closed.                *)
Open(c, token) ==
  /\ At(c, "out")
  /\ client' = [client EXCEPT ![c].at = "asked", ![c].token = token]
  /\ UNCHANGED <<sandbox, died>>

PopProxy(c) ==
  /\ At(c, "asked")
  /\ IF client[c].token
     THEN /\ GoesTo(c, "popped")
          /\ slot' = 0
          /\ serving' = serving \ {slot}
     ELSE /\ client' = [client EXCEPT ![c].at = "url", ![c].proxy = 0]
          /\ UNCHANGED <<slot, serving>>
  /\ UNCHANGED <<clone, memory, origin, made, died>>

NewProxy(c) ==
  /\ At(c, "popped") /\ made < MaxProxies
  /\ made' = made + 1
  /\ slot' = made' /\ serving' = serving \cup {made'}
  /\ client' = [client EXCEPT ![c].at = "url", ![c].proxy = made']
  /\ UNCHANGED <<clone, memory, origin, died>>

(* _clone_repo(): with a .git in place it is a fetch.                      *)
LooksCloned(c) ==
  /\ At(c, "url")
  /\ GoesTo(c, IF clone = "absent" THEN "clone" ELSE "repoint")
  /\ UNCHANGED <<sandbox, died>>

StartClone(c) ==
  /\ At(c, "clone")
  /\ IF clone = "absent" THEN clone' = "partial" /\ origin' = client[c].proxy /\ GoesTo(c, "cloning")
     ELSE GoesTo(c, "discard") /\ UNCHANGED <<clone, origin>>   \* git refuses a directory that is not empty
  /\ UNCHANGED <<memory, slot, serving, made, died>>

Cloned(c) ==
  /\ At(c, "cloning") /\ clone = "partial" /\ Reaches(client[c].proxy)
  /\ clone' = "whole" /\ GoesTo(c, "ready")
  /\ UNCHANGED <<memory, origin, slot, serving, made, died>>

(* It fails or runs out of time, and what there is of it is discarded.     *)
CloneFailsLeft(c) ==
  /\ At(c, "cloning")
  /\ client' = [client EXCEPT ![c] = Out]
  /\ UNCHANGED <<sandbox, died>>
CloneFails(c) ==
  /\ At(c, "cloning")
  /\ GoesTo(c, "discard")
  /\ UNCHANGED <<sandbox, died>>

Discard(c) ==
  /\ At(c, "discard")
  /\ clone' = "absent" /\ memory' = {} /\ origin' = 0
  /\ client' = [client EXCEPT ![c] = Out]
  /\ UNCHANGED <<slot, serving, made, died>>

(* git remote set-url, then git fetch: each may fail, and is reported.     *)
RepointNot(c) ==
  /\ At(c, "repoint")
  /\ GoesTo(c, "fetch")
  /\ UNCHANGED <<sandbox, died>>
Repoint(c) ==
  /\ At(c, "repoint")
  /\ IF clone = "absent" THEN client' = [client EXCEPT ![c] = Out] /\ UNCHANGED origin
     ELSE origin' = client[c].proxy /\ GoesTo(c, "fetch")
  /\ UNCHANGED <<clone, memory, slot, serving, made, died>>

Fetch(c) ==
  /\ At(c, "fetch")
  /\ \/ clone # "absent" /\ Reaches(origin) /\ GoesTo(c, "ready")
     \/ client' = [client EXCEPT ![c] = Out]
  /\ UNCHANGED <<sandbox, died>>

-----------------------------------------------------------------------------
(* The file list is asked for once, and again after a write of one's own.  *)
List(c) ==
  /\ At(c, "ready") /\ client[c].listed = "unknown" /\ clone # "absent"
  /\ client' = [client EXCEPT ![c].listed = IF memory = {} THEN "no" ELSE "yes"]
  /\ UNCHANGED <<sandbox, died>>

(* remember(): whatever fails in reading counts as no notes.               *)
IsFile(c) ==
  /\ At(c, "ready")
  /\ client' = [client EXCEPT ![c].at = IF client[c].listed = "yes" THEN "read" ELSE "write", ![c].old = {}]
  /\ UNCHANGED <<sandbox, died>>

Read(c) ==
  /\ At(c, "read")
  /\ \E old \in {{}, memory} : client' = [client EXCEPT ![c].at = "write", ![c].old = old]
  /\ UNCHANGED <<sandbox, died>>

WriteCached(c, n) ==
  /\ At(c, "write") /\ clone # "absent"
  /\ memory' = client[c].old \cup {n}
  /\ client' = [client EXCEPT ![c].at = "ready", ![c].wrote = TRUE]
  /\ UNCHANGED <<clone, origin, slot, serving, made, died>>
Write(c, n) ==
  /\ At(c, "write") /\ clone # "absent"
  /\ memory' = client[c].old \cup {n}
  /\ client' = [client EXCEPT ![c].at = "ready", ![c].wrote = TRUE, ![c].listed = "unknown"]
  /\ UNCHANGED <<clone, origin, slot, serving, made, died>>

WriteFails(c) ==
  /\ At(c, "write")
  /\ GoesTo(c, "ready")
  /\ UNCHANGED <<sandbox, died>>

(* A command in the clone, a pull: the file list is not asked for again.   *)
Exec(c, n) ==
  /\ At(c, "ready") /\ clone # "absent" /\ Reaches(origin)
  /\ memory' = memory \cup {n}
  /\ UNCHANGED <<clone, origin, slot, serving, made, client, died>>

Close(c) ==
  /\ At(c, "ready")
  /\ client' = [client EXCEPT ![c] = Out]
  /\ UNCHANGED <<sandbox, died>>

(* The sandbox dies, its git with it, and is started on the same files:    *)
(* what was asked fails.                                                   *)
Restart ==
  /\ slot' = 0 /\ serving' = {}
  /\ client' = [c \in Client |-> IF client[c].at \in Asks THEN Out ELSE client[c]]
  /\ died' = (died \/ clone = "partial")
  /\ UNCHANGED <<clone, memory, origin, made>>

Next ==
  \/ Restart
  \/ \E c \in Client :
       \/ \E token \in BOOLEAN : Open(c, token)
       \/ PopProxy(c) \/ NewProxy(c) \/ LooksCloned(c) \/ StartClone(c) \/ Cloned(c)
       \/ CloneFails(c) \/ Discard(c) \/ Repoint(c) \/ Fetch(c)
       \/ List(c) \/ IsFile(c) \/ Read(c) \/ WriteFails(c) \/ Close(c)
       \/ \E n \in Note : Write(c, n) \/ Exec(c, n)

Spec == Init /\ [][Next]_vars

-----------------------------------------------------------------------------
(* Once /clone has said yes, the clone is whole, and its origin is what    *)
(* this session was given, not an earlier session's dead proxy; a clone    *)
(* that failed is never taken for a finished one (the comments of          *)
(* _clone_repo), unless the sandbox itself died within it.                 *)
OpenedIsUsable ==
  [][\A c \in Client : client[c].at \in Asks /\ client'[c].at = "ready"
       => (clone' = "whole" \/ died') /\ origin' = client[c].proxy /\ Reaches(client[c].proxy)]_vars

(* What a client has written it also finds: no listing from before its     *)
(* write outlives the write.                                               *)
WrittenIsListed ==
  \A c \in Client : client[c].wrote => client[c].listed # "no" \/ memory = {}
=============================================================================
