----------------------------- MODULE BranchSync -----------------------------
(***************************************************************************)
(* `silkcode sync` and the git_sync tool (sync.py): a survey of a feature  *)
(* branch after a fetch, and resync(), which acts on it, while the user    *)
(* and other sessions commit in the checkout and colleagues push, merge    *)
(* and squash-merge at the remote.  A commit is one piece of work; a       *)
(* squash commit carries the pieces of the branch it was made of.          *)
(***************************************************************************)
EXTENDS FiniteSets, Naturals

CONSTANTS
  Work,      \* pieces of work somebody may do
  Unborn     \* no survey

VARIABLES
  branch,    \* commits of the checked-out branch, as sets of work
  upstream,  \* the remote's branch of that name, and
  trunk,     \* its default branch, as they are at the remote
  seenUp,    \* the remote-tracking branches of the two
  seenBase,
  dirty,     \* work that is not committed yet
  merging,   \* whether a merge was left with conflicts
  survey,    \* what resync() has found out, or Unborn
  allow,     \* its allow_restart
  phase      \* where it is

vars == <<branch, upstream, trunk, seenUp, seenBase, dirty, merging, survey, allow, phase>>

Tree(h) == UNION h
Ahead   == branch \ seenUp
Behind  == seenUp \ branch

Commits == SUBSET ((SUBSET Work) \ {{}})
TypeOK ==
  /\ {branch, upstream, trunk, seenUp, seenBase} \subseteq Commits
  /\ dirty \subseteq Work /\ merging \in BOOLEAN /\ allow \in BOOLEAN
  /\ phase \in {"idle", "fetched", "surveyed"}
  /\ survey = Unborn \/ /\ survey.dirty \in BOOLEAN /\ survey.branch \in Commits
                        /\ survey.action \in {"none", "push", "restart", "fast-forward", "merge"}

Init ==
  /\ branch = {} /\ upstream = {} /\ trunk = {} /\ seenUp = {} /\ seenBase = {}
  /\ dirty = {} /\ merging = FALSE
  /\ survey = Unborn /\ allow = FALSE /\ phase = "idle"

New(w) == w \notin Tree(branch \cup upstream \cup trunk \cup seenUp \cup seenBase) \cup dirty

-----------------------------------------------------------------------------
(* The checkout and the remote, at any time.                               *)

Edit(w) ==
  /\ New(w)
  /\ dirty' = dirty \cup {w}
  /\ UNCHANGED <<branch, upstream, trunk, seenUp, seenBase, merging, survey, allow, phase>>

Commit ==
  /\ dirty # {} /\ ~merging
  /\ branch' = branch \cup {{w} : w \in dirty}
  /\ dirty' = {}
  /\ UNCHANGED <<upstream, trunk, seenUp, seenBase, merging, survey, allow, phase>>

ResolveMerge ==
  /\ merging
  /\ merging' = FALSE
  /\ branch' = branch \cup seenUp
  /\ UNCHANGED <<upstream, trunk, seenUp, seenBase, dirty, survey, allow, phase>>

Push ==
  /\ upstream \subseteq branch /\ upstream # branch
  /\ upstream' = branch /\ seenUp' = branch
  /\ UNCHANGED <<branch, trunk, seenBase, dirty, merging, survey, allow, phase>>

ColleaguePushes(w) ==
  /\ New(w)
  /\ \/ upstream' = upstream \cup {{w}} /\ UNCHANGED trunk
     \/ trunk' = trunk \cup {{w}} /\ UNCHANGED upstream
  /\ UNCHANGED <<branch, seenUp, seenBase, dirty, merging, survey, allow, phase>>

SquashMerge ==
  /\ Tree(upstream) \ Tree(trunk) # {}
  /\ trunk' = trunk \cup {Tree(upstream)}
  /\ UNCHANGED <<branch, upstream, seenUp, seenBase, dirty, merging, survey, allow, phase>>

-----------------------------------------------------------------------------
(* resync() is asked for with leave to restart, or without.                *)
Asked == phase = "idle" /\ allow' \in BOOLEAN

(* survey(): the fetch (which may fail: nothing more happens) ...          *)
Fetch ==
  /\ Asked
  /\ seenUp' = upstream /\ seenBase' = trunk
  /\ phase' = "fetched"
  /\ UNCHANGED <<branch, upstream, trunk, dirty, merging, survey>>

(* ... and the questions asked of git afterwards.                          *)
SquashMergedByCount == branch \ seenBase # {} /\ Cardinality(branch) <= Cardinality(seenBase)
SquashMerged == branch \ seenBase # {} /\ Tree(branch) = Tree(seenBase)

Recommendation ==
  IF SquashMerged THEN "restart"
  ELSE IF Behind # {} /\ Ahead = {} THEN "fast-forward"
  ELSE IF Behind # {} THEN "merge"
  ELSE IF Ahead # {} THEN "push" ELSE "none"

(* When git status fails, the tree is taken for clean.                     *)
Survey ==
  /\ phase = "fetched"
  /\ \E known \in BOOLEAN :
       survey' = [action |-> Recommendation, dirty |-> known /\ (dirty # {} \/ merging), branch |-> branch]
  /\ phase' = "surveyed"
  /\ UNCHANGED <<branch, upstream, trunk, seenUp, seenBase, dirty, merging, allow>>

(* resync() acts on the survey, by git commands on what there is by now;   *)
(* git itself refuses while a merge is unfinished.                         *)
Done   == survey' = Unborn /\ phase' = "idle"
Refuse ==
  /\ phase = "surveyed"
  /\ \/ survey.dirty \/ merging \/ survey.action \in {"none", "push"}
     \/ survey.action = "restart" /\ ~allow
  /\ Done
  /\ UNCHANGED <<branch, upstream, trunk, seenUp, seenBase, dirty, merging, allow>>

(* checkout -B: the branch is moved to the base, whatever it points at.    *)
Restart ==
  /\ phase = "surveyed" /\ survey.action = "restart" /\ allow /\ ~survey.dirty /\ ~merging
  /\ branch' = seenBase
  /\ Done
  /\ UNCHANGED <<upstream, trunk, seenUp, seenBase, dirty, merging, allow>>

(* merge --ff-only fails when the branch has moved meanwhile.              *)
FastForward ==
  /\ phase = "surveyed" /\ survey.action = "fast-forward" /\ ~survey.dirty /\ ~merging
  /\ branch' = IF branch \subseteq seenUp THEN seenUp ELSE branch
  /\ Done
  /\ UNCHANGED <<upstream, trunk, seenUp, seenBase, dirty, merging, allow>>

(* The merge succeeds, stops with conflicts, or leaves things alone.       *)
Merge ==
  /\ phase = "surveyed" /\ survey.action = "merge" /\ ~survey.dirty /\ ~merging
  /\ \/ branch' = branch \cup seenUp /\ UNCHANGED merging
     \/ merging' = TRUE /\ UNCHANGED branch
     \/ UNCHANGED <<branch, merging>>
  /\ Done
  /\ UNCHANGED <<upstream, trunk, seenUp, seenBase, dirty, allow>>

Next ==
  \/ \E w \in Work : Edit(w) \/ ColleaguePushes(w)
  \/ Commit \/ ResolveMerge \/ Push \/ SquashMerge
  \/ Fetch \/ Survey \/ Refuse \/ Restart \/ FastForward \/ Merge

Spec == Init /\ [][Next]_vars

-----------------------------------------------------------------------------
(* A resync drops no work that it has surveyed: what was committed when    *)
(* the branch was looked at is on the branch afterwards.                   *)
SurveyedWorkIsKept ==
  [][survey # Unborn /\ survey' = Unborn => Tree(survey.branch) \subseteq Tree(branch')]_vars
=============================================================================
