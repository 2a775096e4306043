--------------------------- MODULE SessionArchive ---------------------------
(***************************************************************************)
(* What the session store promises its users, whichever processes share    *)
(* it: an id is handed out once, and under an id stands one whole          *)
(* conversation that some writer saved.                                    *)
(***************************************************************************)
EXTENDS Naturals

CONSTANTS
  Id,         \* session ids
  Version,    \* the conversations that are ever saved
  None

VARIABLES
  given,      \* how often each id was handed out
  stored      \* the conversation under an id

vars == <<given, stored>>

Init ==
  /\ given \in [Id -> {0, 1}]
  /\ stored \in [Id -> Version \cup {None}]
  /\ \A i \in Id : stored[i] # None => given[i] = 1

\* An id that nobody has is handed out.
Allocate ==
  \E i \in Id :
    /\ given[i] = 0
    /\ given' = [given EXCEPT ![i] = 1]
    /\ UNCHANGED stored

\* A conversation takes the place of the one before, at once.
Save ==
  \E i \in Id, v \in Version :
    /\ given[i] = 1
    /\ stored' = [stored EXCEPT ![i] = v]
    /\ UNCHANGED given

Next == Allocate \/ Save

Spec == Init /\ [][Next]_vars
=============================================================================
