----------------------------- MODULE ConfigFile -----------------------------
(***************************************************************************)
(* config.json (config.py): the providers with their keys, the default     *)
(* model and the order in which `auto` tries them.  The daemon loads it    *)
(* once, and its threads change and save that copy; each command of the    *)
(* CLI loads, changes and saves one of its own.  Config.providers is the   *)
(* view of it: a stored entry over the built-in of that name.              *)
(***************************************************************************)
EXTENDS Naturals, FiniteSets

CONSTANTS
  Thread,     \* threads of the daemon that change the config
  Command,    \* commands of the CLI
  Provider, Builtin,  \* names of providers, those that are built in
  Daemon,     \* the holder of the daemon's copy
  MaxChanges, \* bound: changes
  Nobody      \* no default model

VARIABLES
  file,     \* config.json
  held,     \* the Config of the daemon and of each command
  job,      \* what each thread and command is at, and the text it is to swap in
  changes,  \* changes so far
  \* Observability: holders that gave a provider's entry up for a new one.
  replaced

vars == <<file, held, job, changes, replaced>>

Actor     == Thread \cup Command
Holder    == Command \cup {Daemon}
HolderOf(a) == IF a \in Thread THEN Daemon ELSE a

Entry   == SUBSET {"url", "key"}
Entries == UNION {[names -> Entry] : names \in SUBSET Provider}
Data    == [providers : Entries, default : Provider \cup {Nobody}]
Empty   == [providers |-> [p \in {} |-> {}], default |-> Nobody]

BuiltIn(p)   == IF p \in Builtin THEN {"url"} ELSE {}
Merged(data) == [p \in Builtin \cup DOMAIN data.providers |->
                   BuiltIn(p) \cup (IF p \in DOMAIN data.providers THEN data.providers[p] ELSE {})]
Loaded(data) == [data |-> data, providers |-> Merged(data)]

TypeOK ==
  /\ file \in Data /\ \A h \in Holder : held[h].data \in Data /\ held[h].providers \in Entries
  /\ \A a \in Actor : job[a].at \in {"out", "loaded", "changed", "dumped"} /\ job[a].text \in Data
  /\ changes \in 0..MaxChanges /\ replaced \subseteq Holder

Init ==
  /\ file = Empty
  /\ held = [h \in Holder |-> Loaded(Empty)]
  /\ job = [a \in Actor |-> [at |-> IF a \in Thread THEN "loaded" ELSE "out", text |-> Empty]]
  /\ changes = 0 /\ replaced = {}

-----------------------------------------------------------------------------
(* Config.load(), save(): the text is made, and then swapped in at once.   *)
Load(c) ==
  /\ job[c].at = "out"
  /\ held' = [held EXCEPT ![c] = Loaded(file)]
  /\ job' = [job EXCEPT ![c].at = "loaded"]
  /\ UNCHANGED <<file, changes, replaced>>

Dump(t) ==
  /\ job[t].at = "changed"
  /\ job' = [job EXCEPT ![t] = [at |-> "dumped", text |-> held[Daemon].data]]
  /\ UNCHANGED <<file, held, changes, replaced>>

(* A crash or a full disk before the swap leaves the file as it is.        *)
Swap(t) ==
  /\ job[t].at = "dumped"
  /\ file' \in {file, job[t].text}
  /\ job' = [job EXCEPT ![t] = [at |-> "loaded", text |-> Empty]]
  /\ UNCHANGED <<held, changes, replaced>>

(* Nobody else changes the copy of a command, which ends with it.          *)
Save(c) ==
  /\ job[c].at = "changed"
  /\ file' \in {file, held[c].data}
  /\ held' = [held EXCEPT ![c] = Loaded(Empty)]
  /\ job' = [job EXCEPT ![c].at = "out"]
  /\ replaced' = replaced \ {c}
  /\ UNCHANGED changes

Changes(a, data, providers) ==
  /\ job[a].at = "loaded" /\ changes < MaxChanges
  /\ changes' = changes + 1
  /\ held' = [held EXCEPT ![HolderOf(a)] = [data |-> data, providers |-> providers]]
  /\ job' = [job EXCEPT ![a].at = "changed"]

Known(a)     == DOMAIN held[HolderOf(a)].providers
DataOf(a)    == held[HolderOf(a)].data
ViewOf(a)    == held[HolderOf(a)].providers
Put(f, p, e) == [q \in DOMAIN f \cup {p} |-> IF q = p THEN e ELSE f[q]]
Got(f, p)    == IF p \in DOMAIN f THEN f[p] ELSE {}

-----------------------------------------------------------------------------
(* set_key(): merged into the stored entry; clear_key(): out of it.        *)
SetKeyReplaces(a, p) ==
  /\ p \in Known(a)
  /\ Changes(a, [DataOf(a) EXCEPT !.providers = Put(@, p, {"key"})], Put(ViewOf(a), p, ViewOf(a)[p] \cup {"key"}))
  /\ UNCHANGED <<file, replaced>>
SetKey(a, p) ==
  /\ p \in Known(a)
  /\ Changes(a, [DataOf(a) EXCEPT !.providers = Put(@, p, Got(@, p) \cup {"key"})],
                Put(ViewOf(a), p, ViewOf(a)[p] \cup {"key"}))
  /\ UNCHANGED <<file, replaced>>

ClearKey(a, p) ==
  /\ p \in Known(a)
  /\ Changes(a, IF p \in DOMAIN DataOf(a).providers
                THEN [DataOf(a) EXCEPT !.providers[p] = @ \ {"key"}] ELSE DataOf(a),
                [ViewOf(a) EXCEPT ![p] = @ \ {"key"}])
  /\ UNCHANGED <<file, replaced>>

(* set_provider(), for the page and for `models add`: it replaces the      *)
(* stored entry, and merges into the view.                                 *)
SetProvider(a, p, entry) ==
  /\ Changes(a, [DataOf(a) EXCEPT !.providers = Put(@, p, entry)],
                Put(ViewOf(a), p, Got(ViewOf(a), p) \cup entry))
  /\ replaced' = IF p \in DOMAIN DataOf(a).providers THEN replaced \cup {HolderOf(a)} ELSE replaced
  /\ UNCHANGED file

AddProvider(t, p, entry) == "url" \in entry /\ SetProvider(t, p, entry)
ModelsAdd(c, p, entry)   == ("url" \in entry \/ p \in Known(c)) /\ SetProvider(c, p, entry)

(* `inference link`, of a server that answered its probe, or by force.     *)
Linked(data, p, entry, default) == [data EXCEPT !.providers = Put(@, p, entry), !.default = IF default THEN p ELSE @]
Link(c, p, entry, default) ==
  /\ "url" \in entry
  /\ Changes(c, Linked(DataOf(c), p, entry, default), Put(ViewOf(c), p, Got(ViewOf(c), p) \cup entry))
  /\ replaced' = IF p \in DOMAIN DataOf(c).providers THEN replaced \cup {c} ELSE replaced
  /\ UNCHANGED file

(* `inference unlink`: out of the providers, the order and the default.    *)
Without(f, p) == [q \in DOMAIN f \ {p} |-> f[q]]
UnlinkedKeepsDefault(data, p) == [data EXCEPT !.providers = Without(@, p)]
Unlinked(data, p) == [data EXCEPT !.providers = Without(@, p), !.default = IF @ = p THEN Nobody ELSE @]
Unlink(c, p) ==
  /\ p \in DOMAIN DataOf(c).providers
  /\ Changes(c, Unlinked(DataOf(c), p),
                IF p \in Builtin THEN Put(ViewOf(c), p, BuiltIn(p)) ELSE Without(ViewOf(c), p))
  /\ UNCHANGED <<file, replaced>>

(* `models default`: only of a model that resolves.                        *)
Resolves(c, p) == p \in Known(c) /\ "url" \in ViewOf(c)[p]
SetDefault(c, p) ==
  /\ Resolves(c, p)
  /\ Changes(c, [DataOf(c) EXCEPT !.default = p], ViewOf(c))
  /\ UNCHANGED <<file, replaced>>

(* What is kept beside the providers: the MCP servers, the sandbox, the    *)
(* GitHub token of sign-in.  It is saved with the rest of the copy.        *)
SetOther(a) ==
  /\ Changes(a, DataOf(a), ViewOf(a))
  /\ UNCHANGED <<file, replaced>>

Next ==
  \/ \E c \in Command :
       \/ Load(c) \/ Save(c)
       \/ \E p \in Provider :
            \/ Unlink(c, p) \/ SetDefault(c, p)
            \/ \E entry \in Entry : ModelsAdd(c, p, entry) \/ \E default \in BOOLEAN : Link(c, p, entry, default)
  \/ \E t \in Thread :
       \/ Dump(t) \/ Swap(t)
       \/ \E p \in Provider, entry \in Entry : AddProvider(t, p, entry)
  \/ \E a \in Actor : SetOther(a) \/ \E p \in Provider : SetKey(a, p) \/ ClearKey(a, p)

Spec == Init /\ [][Next]_vars

-----------------------------------------------------------------------------
Texts == {file} \cup {held[h].data : h \in Holder}

(* What a Config works with is what the next load of its data would give   *)
(* (the comments of set_key() and unlink()), but for set_provider() over   *)
(* an entry, which is known to drop what the entry had.                    *)
ViewInStep == \A h \in Holder \ replaced : held[h].providers = Merged(held[h].data)

(* The default model is of a provider that is there, whoever unlinks and   *)
(* saves over whom.                                                        *)
DefaultIsKnown == \A data \in Texts : data.default # Nobody => data.default \in DOMAIN Merged(data)
=============================================================================
