--------------------------- MODULE GitHubProjects ---------------------------
(***************************************************************************)
(* The clones of GitHub repositories that the picker opens (project.py):   *)
(* one directory for each repository under the managed projects, and the   *)
(* older ones, whose names several repositories could share.               *)
(***************************************************************************)
EXTENDS Naturals

CONSTANTS
  Opener,  \* threads and processes that open repositories
  Repo,    \* repositories, which all share one old name
  None

VARIABLES
  legacy,  \* the repository whose clone has the old name
  dir,     \* the directory of each repository: whose clone it has, and how much of it
  opener   \* what each opener is at

vars == <<legacy, dir, opener>>

Absent == [is |-> "absent", repo |-> None]
Rest   == [at |-> "rest", repo |-> None, origin |-> None]

TypeOK ==
  /\ legacy \in Repo \cup {None}
  /\ dir \in [Repo -> [is : {"absent", "empty", "partial", "whole"}, repo : Repo \cup {None}]]
  /\ opener \in [Opener -> [at : {"rest", "looked", "adopting", "placed", "cloning", "fetching", "open", "failed"},
                            repo : Repo \cup {None}, origin : Repo \cup {None}]]

Init ==
  /\ legacy \in Repo \cup {None}
  /\ dir = [r \in Repo |-> Absent]
  /\ opener = [o \in Opener |-> Rest]

At(o, here)      == opener[o].at = here
GoesTo(o, there) == opener' = [opener EXCEPT ![o].at = there]

-----------------------------------------------------------------------------
(* _adopt_legacy_clone(): the old directory, if the new one is not there,  *)
(* and only if its origin says it is this repository's.                    *)
Open(o, r) ==
  /\ At(o, "rest")
  /\ opener' = [opener EXCEPT ![o] = [at |-> IF dir[r].is = "absent" /\ legacy # None THEN "looked" ELSE "placed",
                                      repo |-> r, origin |-> None]]
  /\ UNCHANGED <<legacy, dir>>

(* git may not say, or not in time; then it is not adopted.                *)
AskOriginNot(o) ==
  /\ At(o, "looked")
  /\ GoesTo(o, "adopting")
  /\ UNCHANGED <<legacy, dir>>
AskOrigin(o) ==
  /\ At(o, "looked")
  /\ \E says \in {legacy, None} : GoesTo(o, IF says = opener[o].repo THEN "adopting" ELSE "placed")
  /\ UNCHANGED <<legacy, dir>>

(* rename(): over nothing, or over an empty directory.                     *)
Adopt(o) ==
  LET r == opener[o].repo
  IN  /\ At(o, "adopting")
      /\ \/ /\ legacy # None /\ dir[r].is \in {"absent", "empty"}
            /\ dir' = [dir EXCEPT ![r] = [is |-> "whole", repo |-> legacy]]
            /\ legacy' = None
         \/ UNCHANGED <<legacy, dir>>
      /\ GoesTo(o, "placed")

-----------------------------------------------------------------------------
(* clone_github_repo(): a clone, or a fetch where there is a .git.         *)
Place(o) ==
  LET r == opener[o].repo
  IN  /\ At(o, "placed")
      /\ IF dir[r].is \in {"partial", "whole"} THEN GoesTo(o, "fetching") /\ UNCHANGED dir
         ELSE /\ GoesTo(o, "cloning")
              /\ dir' = [dir EXCEPT ![r] = IF @.is = "absent" THEN [@ EXCEPT !.is = "empty"] ELSE @]
      /\ UNCHANGED legacy

(* git refuses a directory that is not empty, and fails with nothing left. *)
StartClone(o) ==
  LET r == opener[o].repo
  IN  /\ At(o, "cloning") /\ opener[o].origin = None
      /\ IF dir[r].is = "empty"
         THEN /\ dir' = [dir EXCEPT ![r] = [is |-> "partial", repo |-> r]]
              /\ opener' = [opener EXCEPT ![o].origin = r]
         ELSE GoesTo(o, "failed") /\ UNCHANGED dir
      /\ UNCHANGED legacy

Cloned(o) ==
  /\ At(o, "cloning") /\ opener[o].origin # None
  /\ dir' = [dir EXCEPT ![opener[o].repo].is = "whole"]
  /\ GoesTo(o, "open")
  /\ UNCHANGED legacy

CloneFails(o) ==
  /\ At(o, "cloning") /\ opener[o].origin # None
  /\ dir' = [dir EXCEPT ![opener[o].repo] = [Absent EXCEPT !.is = "empty"]]
  /\ GoesTo(o, "failed")
  /\ UNCHANGED legacy

(* It is killed when the time is up: what it has written stays.            *)
TimesOut(o) ==
  /\ At(o, "cloning") /\ opener[o].origin # None
  /\ GoesTo(o, "failed")
  /\ UNCHANGED <<legacy, dir>>

(* Whether the fetch succeeds does not matter.                             *)
Fetched(o) ==
  /\ At(o, "fetching")
  /\ GoesTo(o, "open")
  /\ UNCHANGED <<legacy, dir>>

(* The user works in it, or reads the error, and opens another.            *)
Leaves(o) ==
  /\ opener[o].at \in {"open", "failed"}
  /\ opener' = [opener EXCEPT ![o] = Rest]
  /\ UNCHANGED <<legacy, dir>>

Next ==
  \E o \in Opener :
    \/ \E r \in Repo : Open(o, r)
    \/ AskOrigin(o) \/ Adopt(o) \/ Place(o) \/ StartClone(o) \/ Cloned(o) \/ CloneFails(o) \/ TimesOut(o)
    \/ Fetched(o) \/ Leaves(o)

Spec == Init /\ [][Next]_vars

-----------------------------------------------------------------------------
(* "The directory name must identify exactly one repository": whoever      *)
(* opens a repository never gets the clone of another, however old names   *)
(* clash and whoever opens, adopts and clones beside him.                  *)
NeverAnotherRepository == \A o \in Opener : At(o, "open") => dir[opener[o].repo].repo \in {opener[o].repo, None}
=============================================================================
