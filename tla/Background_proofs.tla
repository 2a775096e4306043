------------------------- MODULE Background_proofs -------------------------
(***************************************************************************)
(* Proofs about what goes on behind the user's back: the improvement swarm *)
(* (SwarmLoop), the self-update (SelfUpdate), the live server (LiveServer) *)
(* and the session store (SessionStore), which implements SessionArchive;  *)
(* and about their composition (MCBackground).                             *)
(***************************************************************************)
EXTENDS MCBackground, FiniteSetTheorems, TLAPS

-----------------------------------------------------------------------------
(***************************************************************************)
(* SwarmLoop.  An agent's turn is charged to the total and to its role at  *)
(* once; whoever goes on has just looked at the budget; and a trace is     *)
(* left between two rounds, whichever iterations are told apart.           *)
(***************************************************************************)
RunsOn ==
  /\ at # "over" => stall < StallLimit
  /\ at = "specialist" => left > 0
  /\ at \in {"specialist", "head", "developer"} => Specialists > 0
  /\ at = "developer" => tasks > 0

TracesFollow ==
  /\ TracesInOrder
  /\ at = "round" => traces = 1..iteration
  /\ at \notin {"round", "over"} => iteration > 0

InBudget == NoTurnOverBudget /\ (at = "measure" => ~Exhausted(tokens))

SwarmInv == TypeOK /\ RunsOn /\ TokensAddUp /\ InBudget /\ TracesFollow

LEMMA Parameters ==
  /\ Target \in 0..100 /\ MaxTokens \in Nat /\ StallLimit \in Nat \ {0} /\ MinScoreDelta \in 1..10
  /\ SkipTester \in BOOLEAN /\ Specialists \in Nat /\ DeveloperCount \in 0..12
  /\ MaxCounted \in Nat \ {0} /\ Caps \subseteq 0..MaxCounted /\ Staff \in Nat
<1>1. DeveloperCount \in 0..12
  BY SwarmAssumption, Zenon
<1>2. Staff \in Nat
  BY <1>1 DEF Staff, MaxTeamDevelopers
<1> QED
  BY <1>1, <1>2, SwarmAssumption, Zenon

LEMMA PointsAreNat == ASSUME NEW w \in Workspaces PROVE Points(w) \in Nat
<1>1. w.passed \in Nat /\ w.failed \in Nat
  BY SwarmAssumption
<1>2. ASSUME NEW n \in Nat, NEW d \in Nat \ {0} PROVE Rounded(n, d) \in Nat
  BY DEF Rounded
<1>3. TestPoints(w) \in Nat
  <2> DEFINE both == w.passed + w.failed
  <2>1. both \in Nat /\ 80 * w.passed \in Nat
    BY <1>1
  <2>2. both # 0 => Rounded(80 * w.passed, both) \in Nat
    BY <1>2, <2>1
  <2>3. w.command \in BOOLEAN /\ w.runs \in BOOLEAN /\ w.exitOk \in BOOLEAN
    BY SwarmAssumption
  <2> QED
    BY <2>2, <2>3 DEF TestPoints
<1>4. Hygiene(w) \in Nat
  BY DEF Hygiene
<1> QED
  BY <1>3, <1>4 DEF Points

LEMMA PlansAreCut ==
  ASSUME NEW plan \in Plans PROVE ParseTeamPlan(plan, Staff) \in 0..(3 * Staff)
<1>1. Staff \in Nat
  BY Parameters
<1>2. Cardinality(Owned(plan, Staff)) \in Nat
  <2>1. plan \in Seq(Nat)
    BY SwarmAssumption
  <2>2. IsFiniteSet(DOMAIN plan)
    <3>1. DOMAIN plan = 1..Len(plan) /\ Len(plan) \in Nat
      BY <2>1
    <3> QED
      BY <3>1, FS_Interval
  <2>3. Owned(plan, Staff) \subseteq DOMAIN plan
    BY DEF Owned
  <2> QED
    BY <2>2, <2>3, FS_Subset, FS_CardinalityType
<1> QED
  BY <1>1, <1>2 DEF ParseTeamPlan

LEMMA SwarmInitial == Init => SwarmInv
<1> SUFFICES ASSUME Init PROVE SwarmInv
  OBVIOUS
<1>1. TypeOK
  <2>1. /\ cap \in Caps /\ measured \in Workspaces /\ iteration \in 0..MaxCounted
        /\ best \in 0..100 /\ stall \in 0..StallLimit /\ first \in BOOLEAN
        /\ left \in 0..Specialists /\ tasks \in 0..(3 * Staff) /\ tokens \in Nat /\ stop \in BOOLEAN
    <3>1. 0 \in 0..MaxCounted /\ 0 \in 0..100 /\ 0 \in 0..StallLimit /\ 0 \in 0..Specialists /\ 0 \in 0..(3 * Staff)
      BY Parameters
    <3> QED
      BY <3>1 DEF Init
  <2>2. at \in Role \cup {"round", "measure", "record", "over"} /\ status \in Over \cup {"running"}
    BY DEF Init
  <2>3. at = "over" <=> status # "running"
    BY DEF Init
  <2>4. roleTokens \in [Role -> Nat] /\ traces \subseteq 1..iteration
    BY DEF Init
  <2> QED
    BY <2>1, <2>2, <2>3, <2>4 DEF TypeOK
<1>2. RunsOn /\ InBudget /\ TracesFollow
  BY Parameters DEF Init, RunsOn, InBudget, NoTurnOverBudget, TracesFollow, TracesInOrder
<1>3. TokensAddUp
  BY DEF Init, TokensAddUp, Role
<1> QED
  BY <1>1, <1>2, <1>3 DEF SwarmInv

\* Whoever takes a turn, what it costs is added to the total and to its role.
LEMMA TakesAddsUp ==
  ASSUME SwarmInv, NEW r \in Role, NEW cost \in Costs, Takes(r, cost)
  PROVE  tokens' \in Nat /\ roleTokens' \in [Role -> Nat] /\ TokensAddUp'
<1>1. cost \in Nat
  BY SwarmAssumption
<1>2. tokens \in Nat /\ roleTokens \in [Role -> Nat] /\ TokensAddUp
  BY DEF SwarmInv, TypeOK
<1>3. tokens' \in Nat /\ roleTokens' \in [Role -> Nat]
  BY <1>1, <1>2 DEF Takes
<1>4. \A q \in Role : roleTokens[q] \in Nat /\ roleTokens'[q] = IF q = r THEN roleTokens[q] + cost ELSE roleTokens[q]
  BY <1>2 DEF Takes
<1>5. TokensAddUp'
  BY <1>1, <1>2, <1>4 DEF Takes, TokensAddUp, Role
<1> QED
  BY <1>3, <1>5

\* A step that leaves the iteration and the score alone: what is to be shown of
\* it is where it goes.
LEMMA WentOn ==
  ASSUME SwarmInv, UNCHANGED <<progress, traces, stop>>, left' \in 0..Specialists,
         NEW to \in Role \cup {"record"}, Goes(to) \/ (\E why \in Over : End(why)),
         at \notin {"round", "over", "measure"}
  PROVE  /\ cap' \in Caps /\ iteration' \in 0..MaxCounted /\ measured' \in Workspaces
         /\ best' \in 0..100 /\ stall' \in 0..StallLimit /\ first' \in BOOLEAN
         /\ left' \in 0..Specialists /\ stop' \in BOOLEAN /\ traces' \subseteq 1..iteration'
         /\ at' \in Role \cup {"round", "measure", "record", "over"}
         /\ status' \in Over \cup {"running"} /\ (at' = "over" <=> status' # "running")
         /\ (at' # "over" => stall' < StallLimit) /\ TracesFollow'
         /\ at' \in {to, "over"} /\ to \in Role \cup {"record"}
<1>1. /\ cap' \in Caps /\ iteration' \in 0..MaxCounted /\ measured' \in Workspaces
      /\ best' \in 0..100 /\ stall' \in 0..StallLimit /\ first' \in BOOLEAN
      /\ left' \in 0..Specialists /\ stop' \in BOOLEAN /\ traces' \subseteq 1..iteration'
  BY DEF SwarmInv, TypeOK, progress
<1>2. at # "over" /\ status = "running" /\ stall < StallLimit
  BY DEF SwarmInv, TypeOK, RunsOn
<1>3. /\ at' \in Role \cup {"round", "measure", "record", "over"}
      /\ status' \in Over \cup {"running"} /\ (at' = "over" <=> status' # "running")
      /\ at' \in {to, "over"}
  <2>1. CASE Goes(to)
    BY <1>2, <2>1 DEF Goes, Role
  <2>2. CASE \E why \in Over : End(why)
    BY <2>2 DEF End, Over
  <2> QED
    BY <2>1, <2>2
<1>4. TracesFollow'
  BY <1>3 DEF SwarmInv, TracesFollow, TracesInOrder, progress, Role
<1> QED
  BY <1>1, <1>2, <1>3, <1>4 DEF progress

LEMMA SwarmStepInv == SwarmInv /\ [Next]_vars => SwarmInv'
<1> SUFFICES ASSUME SwarmInv, [Next]_vars PROVE SwarmInv'
  OBVIOUS
<1> USE DEF SwarmInv
<1>1. CASE Round
  <2>1. /\ cap' = cap /\ measured' = measured /\ best' = best /\ stall' = stall /\ first' = first
        /\ left' = left /\ tasks' = tasks /\ tokens' = tokens /\ roleTokens' = roleTokens
        /\ traces' = traces /\ stop' = stop
    BY <1>1 DEF Round, team, account
  <2>2. at = "round" /\ status = "running" /\ stall < StallLimit
    BY <1>1 DEF Round, TypeOK, RunsOn
  <2>3. traces = 1..iteration
    BY <2>2 DEF TracesFollow
  <2>4. TokensAddUp'
    BY <2>1 DEF TokensAddUp
  <2>5. \/ \E why \in Over : End(why) /\ iteration' = iteration
        \/ Goes("measure") /\ ~Exhausted(tokens) /\ iteration' = Counted(iteration + 1)
    BY <1>1 DEF Round, Over
  <2>6. CASE \E why \in Over : End(why) /\ iteration' = iteration
    <3>1. at' = "over" /\ status' \in Over /\ iteration' = iteration
      BY <2>6 DEF End
    <3>2. status' # "running"
      BY <3>1 DEF Over
    <3>3. TypeOK'
      BY <2>1, <3>1, <3>2 DEF TypeOK
    <3>4. RunsOn' /\ InBudget' /\ TracesFollow'
      BY <2>1, <2>3, <3>1 DEF RunsOn, InBudget, NoTurnOverBudget, TracesFollow, TracesInOrder
    <3> QED
      BY <2>4, <3>3, <3>4
  <2>7. CASE Goes("measure") /\ ~Exhausted(tokens) /\ iteration' = Counted(iteration + 1)
    <3>1. at' = "measure" /\ status' = status
      BY <2>7 DEF Goes
    <3>2. /\ iteration \in 0..MaxCounted /\ iteration' \in 1..MaxCounted
          /\ iteration' = iteration + 1 \/ iteration' = iteration
      BY <2>7, Parameters DEF TypeOK, Counted
    <3>3. traces' \subseteq 1..iteration' /\ (traces' = 1..iteration' \/ traces' = 1..(iteration' - 1))
      BY <2>1, <2>3, <3>2
    <3>4. TypeOK'
      BY <2>1, <2>2, <3>1, <3>2, <3>3 DEF TypeOK
    <3>5. RunsOn' /\ InBudget' /\ TracesFollow'
      BY <2>1, <2>2, <2>7, <3>1, <3>2, <3>3 DEF RunsOn, InBudget, NoTurnOverBudget, TracesFollow, TracesInOrder, Exhausted
    <3> QED
      BY <2>4, <3>4, <3>5
  <2> QED
    BY <2>5, <2>6, <2>7
<1>2. CASE Measure
  <2>1. /\ cap' = cap /\ iteration' = iteration /\ tasks' = tasks /\ tokens' = tokens
        /\ roleTokens' = roleTokens /\ traces' = traces /\ stop' = stop
    BY <1>2 DEF Measure, account
  <2>2. at = "measure" /\ status = "running" /\ stall \in 0..(StallLimit - 1) /\ ~Exhausted(tokens)
    BY <1>2, Parameters DEF Measure, TypeOK, RunsOn, InBudget
  <2>3. PICK w \in Workspaces :
          /\ measured' = w
          /\ \/ Points(w) >= Target /\ End("done") /\ UNCHANGED <<best, stall, first, left>>
             \/ /\ Points(w) < Target
                /\ stall' = (IF Stalls(Points(w)) THEN stall + 1 ELSE 0)
                /\ best' = (IF Points(w) > best THEN Points(w) ELSE best)
                /\ first' = FALSE
                /\ IF (IF Stalls(Points(w)) THEN stall + 1 ELSE 0) >= StallLimit
                   THEN End("stalled") /\ UNCHANGED left
                   ELSE /\ Goes(IF Specialists > 0 THEN "specialist" ELSE "tester")
                        /\ left' = Specialists
    BY <1>2 DEF Measure
  <2>4. Points(w) \in Nat
    BY PointsAreNat
  <2>5. measured' \in Workspaces
    BY <2>3
  <2>6. TokensAddUp'
    BY <2>1 DEF TokensAddUp
  <2>7. CASE Points(w) >= Target /\ End("done") /\ UNCHANGED <<best, stall, first, left>>
    <3>1. at' = "over" /\ status' \in Over /\ status' # "running"
      BY <2>7 DEF End, Over
    <3>2. TypeOK'
      BY <2>1, <2>5, <2>7, <3>1 DEF TypeOK
    <3>3. RunsOn' /\ InBudget' /\ TracesFollow'
      BY <2>1, <3>1 DEF RunsOn, InBudget, NoTurnOverBudget, TracesFollow, TracesInOrder
    <3> QED
      BY <2>6, <3>2, <3>3
  <2>8. CASE ~(Points(w) >= Target /\ End("done") /\ UNCHANGED <<best, stall, first, left>>)
    <3> DEFINE count == IF Stalls(Points(w)) THEN stall + 1 ELSE 0
    <3>1. /\ Points(w) < Target /\ stall' = count
          /\ best' = (IF Points(w) > best THEN Points(w) ELSE best)
          /\ first' = FALSE
          /\ IF count >= StallLimit THEN End("stalled") /\ UNCHANGED left
             ELSE /\ Goes(IF Specialists > 0 THEN "specialist" ELSE "tester")
                  /\ left' = Specialists
      BY <2>3, <2>8
    <3>2. count \in 0..StallLimit
      BY <2>2, Parameters
    <3>3. best' \in 0..100
      BY <3>1, <2>4, Parameters DEF TypeOK
    <3> HIDE DEF count
    <3>4. CASE count >= StallLimit
      <4>1. at' = "over" /\ status' \in Over /\ status' # "running" /\ left' = left
        BY <3>1, <3>4 DEF End, Over
      <4>2. TypeOK'
        BY <2>1, <2>5, <3>1, <3>2, <3>3, <4>1 DEF TypeOK
      <4>3. RunsOn' /\ InBudget' /\ TracesFollow'
        BY <2>1, <4>1 DEF RunsOn, InBudget, NoTurnOverBudget, TracesFollow, TracesInOrder
      <4> QED
        BY <2>6, <4>2, <4>3
    <3>5. CASE count < StallLimit
      <4>1. Goes(IF Specialists > 0 THEN "specialist" ELSE "tester") /\ left' = Specialists
        BY <3>1, <3>2, <3>5, Parameters
      <4>2. /\ at' = (IF Specialists > 0 THEN "specialist" ELSE "tester") /\ status' = "running"
            /\ left' \in 0..Specialists
        BY <2>2, <4>1, Parameters DEF Goes
      <4>3. at' \in Role /\ at' # "over"
        BY <4>2 DEF Role
      <4>4. TypeOK'
        BY <2>1, <2>5, <3>1, <3>2, <3>3, <4>2, <4>3 DEF TypeOK
      <4>5. RunsOn'
        BY <3>1, <3>5, <4>1, <4>2, Parameters DEF RunsOn
      <4>6. InBudget' /\ TracesFollow'
        BY <2>1, <2>2, <4>2 DEF InBudget, NoTurnOverBudget, TracesFollow, TracesInOrder, Exhausted
      <4> QED
        BY <2>6, <4>4, <4>5, <4>6
    <3> QED
      BY <3>2, <3>4, <3>5, Parameters
  <2> QED
    BY <2>7, <2>8
<1>3. CASE Specialist
  <2>1. at = "specialist" /\ left \in 1..Specialists
    BY <1>3 DEF Specialist, TypeOK, RunsOn
  <2>2. PICK cost \in Costs : Takes("specialist", cost)
    BY <1>3 DEF Specialist
  <2>3. tokens' \in Nat /\ roleTokens' \in [Role -> Nat] /\ TokensAddUp'
    BY <2>2, TakesAddsUp DEF Role
  <2>4. left' = left - 1 /\ Goes(IF left = 1 THEN "head" ELSE "specialist")
        /\ UNCHANGED <<progress, tasks, traces, stop>>
    BY <1>3 DEF Specialist
  <2>5. left' \in 0..Specialists
    BY <2>1, <2>4, Parameters
  <2>6. PICK to \in {"head", "specialist"} : to = IF left = 1 THEN "head" ELSE "specialist"
    OBVIOUS
  <2>7. to \in Role \cup {"record"} /\ Goes(to) /\ at \notin {"round", "over", "measure"}
    BY <2>1, <2>4, <2>6 DEF Role
  <2>8. /\ cap' \in Caps /\ iteration' \in 0..MaxCounted /\ measured' \in Workspaces
        /\ best' \in 0..100 /\ stall' \in 0..StallLimit /\ first' \in BOOLEAN
        /\ left' \in 0..Specialists /\ stop' \in BOOLEAN /\ traces' \subseteq 1..iteration'
        /\ at' \in Role \cup {"round", "measure", "record", "over"}
        /\ status' \in Over \cup {"running"} /\ (at' = "over" <=> status' # "running")
        /\ (at' # "over" => stall' < StallLimit) /\ TracesFollow'
    BY <2>4, <2>5, <2>7, WentOn
  <2>9. tasks' = tasks /\ at' = to
    BY <2>4, <2>7 DEF Goes
  <2>10. TypeOK'
    BY <2>3, <2>8, <2>9 DEF TypeOK
  <2>11. RunsOn'
    BY <2>1, <2>4, <2>6, <2>8, <2>9, Parameters DEF RunsOn
  <2>12. InBudget'
    BY <2>1, <2>4, <2>6, <2>9 DEF InBudget, NoTurnOverBudget
  <2> QED
    BY <2>3, <2>8, <2>10, <2>11, <2>12
<1>4. CASE Lead
  <2>1. at = "head" /\ Specialists > 0
    BY <1>4 DEF Lead, RunsOn
  <2>2. PICK cost \in Costs : Takes("head", cost)
    BY <1>4 DEF Lead
  <2>3. tokens' \in Nat /\ roleTokens' \in [Role -> Nat] /\ TokensAddUp'
    BY <2>2, TakesAddsUp DEF Role
  <2>4. UNCHANGED <<progress, left, traces, stop>>
    BY <1>4 DEF Lead
  <2>5. PICK to \in {"tester", "developer"} : to = IF tasks' = 0 THEN "tester" ELSE "developer"
    OBVIOUS
  <2>6. tasks' \in 0..(3 * Staff)
    BY <1>4, PlansAreCut DEF Lead, TypeOK
  <2>7. Goes(to) \/ (\E why \in Over : End(why))
    BY <1>4, <2>5 DEF Lead, Over
  <2>8. to \in Role \cup {"record"} /\ left' \in 0..Specialists /\ at \notin {"round", "over", "measure"}
    BY <2>1, <2>4, <2>5 DEF Role, TypeOK
  <2>9. /\ cap' \in Caps /\ iteration' \in 0..MaxCounted /\ measured' \in Workspaces
        /\ best' \in 0..100 /\ stall' \in 0..StallLimit /\ first' \in BOOLEAN
        /\ left' \in 0..Specialists /\ stop' \in BOOLEAN /\ traces' \subseteq 1..iteration'
        /\ at' \in Role \cup {"round", "measure", "record", "over"}
        /\ status' \in Over \cup {"running"} /\ (at' = "over" <=> status' # "running")
        /\ (at' # "over" => stall' < StallLimit) /\ TracesFollow' /\ at' \in {to, "over"}
    BY <2>4, <2>7, <2>8, WentOn
  <2>10. TypeOK'
    BY <2>3, <2>6, <2>9 DEF TypeOK
  <2>11. RunsOn'
    BY <2>1, <2>5, <2>6, <2>9, Parameters DEF RunsOn
  <2>12. InBudget'
    BY <2>1, <2>5, <2>9 DEF InBudget, NoTurnOverBudget
  <2> QED
    BY <2>3, <2>9, <2>10, <2>11, <2>12
<1>5. CASE Developer
  <2>1. at = "developer" /\ Specialists > 0 /\ tasks \in 1..(3 * Staff)
    BY <1>5 DEF Developer, RunsOn, TypeOK
  <2>2. PICK cost \in Costs : Takes("developer", cost)
    BY <1>5 DEF Developer
  <2>3. tokens' \in Nat /\ roleTokens' \in [Role -> Nat] /\ TokensAddUp'
    BY <2>2, TakesAddsUp DEF Role
  <2>4. UNCHANGED <<progress, left, traces, stop>> /\ tasks' = tasks - 1
    BY <1>5 DEF Developer
  <2>5. PICK to \in {"tester", "developer"} : to = IF tasks' = 0 THEN "tester" ELSE "developer"
    OBVIOUS
  <2>6. tasks' \in 0..(3 * Staff)
    BY <2>1, <2>4, Parameters
  <2>7. Goes(to)
    BY <1>5, <2>5 DEF Developer
  <2>8. to \in Role \cup {"record"} /\ left' \in 0..Specialists /\ at \notin {"round", "over", "measure"}
    BY <2>1, <2>4, <2>5 DEF Role, TypeOK
  <2>9. /\ cap' \in Caps /\ iteration' \in 0..MaxCounted /\ measured' \in Workspaces
        /\ best' \in 0..100 /\ stall' \in 0..StallLimit /\ first' \in BOOLEAN
        /\ left' \in 0..Specialists /\ stop' \in BOOLEAN /\ traces' \subseteq 1..iteration'
        /\ at' \in Role \cup {"round", "measure", "record", "over"}
        /\ status' \in Over \cup {"running"} /\ (at' = "over" <=> status' # "running")
        /\ (at' # "over" => stall' < StallLimit) /\ TracesFollow' /\ at' \in {to, "over"}
    BY <2>4, <2>7, <2>8, WentOn
  <2>10. TypeOK'
    BY <2>3, <2>6, <2>9 DEF TypeOK
  <2>11. RunsOn'
    BY <2>1, <2>5, <2>6, <2>9, Parameters DEF RunsOn
  <2>12. InBudget'
    BY <2>1, <2>5, <2>9 DEF InBudget, NoTurnOverBudget
  <2> QED
    BY <2>3, <2>9, <2>10, <2>11, <2>12
<1>6. ASSUME NEW to \in {"critic", "worker", "record"}, at \in {"tester", "critic", "worker"},
             \E why \in Over : End(why) \/ Onward(to), UNCHANGED <<progress, team, traces, stop>>,
             tokens' \in Nat, roleTokens' \in [Role -> Nat], TokensAddUp'
      PROVE  SwarmInv'
  <2>1. (Goes(to) /\ ~Exhausted(tokens')) \/ (\E why \in Over : End(why))
    BY <1>6 DEF Onward, Over
  <2>2. UNCHANGED <<progress, left, tasks, traces, stop>>
    BY <1>6 DEF team
  <2>3. to \in Role \cup {"record"} /\ left' \in 0..Specialists /\ at \notin {"round", "over", "measure"}
    BY <1>6, <2>2 DEF Role, TypeOK
  <2>4. /\ cap' \in Caps /\ iteration' \in 0..MaxCounted /\ measured' \in Workspaces
        /\ best' \in 0..100 /\ stall' \in 0..StallLimit /\ first' \in BOOLEAN
        /\ left' \in 0..Specialists /\ stop' \in BOOLEAN /\ traces' \subseteq 1..iteration'
        /\ at' \in Role \cup {"round", "measure", "record", "over"}
        /\ status' \in Over \cup {"running"} /\ (at' = "over" <=> status' # "running")
        /\ (at' # "over" => stall' < StallLimit) /\ TracesFollow' /\ at' \in {to, "over"}
    BY <2>1, <2>2, <2>3, WentOn
  <2>5. at' = "over" \/ ~Exhausted(tokens')
    BY <2>1 DEF End
  <2>6. TypeOK'
    BY <1>6, <2>2, <2>4 DEF TypeOK
  <2>7. RunsOn'
    BY <1>6, <2>4 DEF RunsOn
  <2>8. InBudget'
    BY <1>6, <2>4, <2>5 DEF InBudget, NoTurnOverBudget, Exhausted
  <2> QED
    BY <1>6, <2>4, <2>6, <2>7, <2>8
<1>7. CASE Tester
  <2>1. tokens' \in Nat /\ roleTokens' \in [Role -> Nat] /\ TokensAddUp'
    <3>1. CASE UNCHANGED account
      BY <3>1 DEF account, TypeOK, TokensAddUp
    <3>2. CASE \E cost \in Costs : Takes("tester", cost)
      BY <3>2, TakesAddsUp DEF Role
    <3> QED
      BY <1>7, <3>1, <3>2 DEF Tester
  <2>2. at \in {"tester", "critic", "worker"} /\ Onward("critic") /\ UNCHANGED <<progress, team, traces, stop>>
    BY <1>7 DEF Tester
  <2>3. \E why \in Over : End(why) \/ Onward("critic")
    BY <2>2 DEF Over
  <2> QED
    BY <1>6, <2>1, <2>2, <2>3
<1>8. CASE Critic
  <2>1. tokens' \in Nat /\ roleTokens' \in [Role -> Nat] /\ TokensAddUp'
    BY <1>8, TakesAddsUp DEF Critic, Role
  <2>2. at \in {"tester", "critic", "worker"} /\ UNCHANGED <<progress, team, traces, stop>>
    BY <1>8 DEF Critic
  <2>3. End("raised") \/ Onward("worker") \/ Onward("record")
    BY <1>8 DEF Critic
  <2>4. (\E why \in Over : End(why) \/ Onward("worker")) \/ (\E why \in Over : End(why) \/ Onward("record"))
    BY <2>3 DEF Over
  <2> QED
    BY <1>6, <2>1, <2>2, <2>4
<1>9. CASE Worker
  <2>1. tokens' \in Nat /\ roleTokens' \in [Role -> Nat] /\ TokensAddUp'
    BY <1>9, TakesAddsUp DEF Worker, Role
  <2>2. at \in {"tester", "critic", "worker"} /\ Onward("record") /\ UNCHANGED <<progress, team, traces, stop>>
    BY <1>9 DEF Worker
  <2>3. \E why \in Over : End(why) \/ Onward("record")
    BY <2>2 DEF Over
  <2> QED
    BY <1>6, <2>1, <2>2, <2>3
<1>10. CASE Record
  <2>1. /\ cap' = cap /\ measured' = measured /\ best' = best /\ stall' = stall /\ first' = first
        /\ left' = left /\ tasks' = tasks /\ tokens' = tokens /\ roleTokens' = roleTokens
        /\ iteration' = iteration /\ stop' = stop /\ traces' = traces \cup {iteration}
    BY <1>10 DEF Record, progress, team, account
  <2>2. at' = "round" /\ status' = "running" /\ stall < StallLimit
    BY <1>10 DEF Record, Goes, TypeOK, RunsOn
  <2>3. iteration \in 1..MaxCounted /\ (traces = 1..iteration \/ traces = 1..(iteration - 1))
    BY <1>10 DEF Record, TypeOK, TracesFollow, TracesInOrder
  <2>4. traces' = 1..iteration'
    BY <2>1, <2>3, Parameters
  <2>5. TypeOK'
    BY <2>1, <2>2, <2>4 DEF TypeOK
  <2>6. RunsOn' /\ InBudget' /\ TracesFollow'
    BY <2>1, <2>2, <2>4 DEF RunsOn, InBudget, NoTurnOverBudget, TracesFollow, TracesInOrder
  <2>7. TokensAddUp'
    BY <2>1 DEF TokensAddUp
  <2> QED
    BY <2>5, <2>6, <2>7
<1>11. CASE Fails
  <2>1. /\ cap' = cap /\ measured' = measured /\ best' = best /\ stall' = stall /\ first' = first
        /\ left' = left /\ tasks' = tasks /\ tokens' = tokens /\ roleTokens' = roleTokens
        /\ iteration' = iteration /\ stop' = stop /\ traces' = traces
    BY <1>11 DEF Fails, progress, team, account
  <2>2. at' = "over" /\ status' \in Over /\ status' # "running"
    BY <1>11 DEF Fails, End, Over
  <2>3. TypeOK' /\ TokensAddUp'
    BY <2>1, <2>2 DEF TypeOK, TokensAddUp
  <2>4. RunsOn' /\ InBudget' /\ TracesFollow'
    BY <2>1, <2>2 DEF RunsOn, InBudget, NoTurnOverBudget, TracesFollow, TracesInOrder
  <2> QED
    BY <2>3, <2>4
<1>12. CASE Stop
  <2>1. /\ cap' = cap /\ measured' = measured /\ best' = best /\ stall' = stall /\ first' = first
        /\ left' = left /\ tasks' = tasks /\ tokens' = tokens /\ roleTokens' = roleTokens
        /\ iteration' = iteration /\ at' = at /\ status' = status /\ traces' = traces /\ stop' = TRUE
    BY <1>12 DEF Stop, progress, team, account
  <2>2. TypeOK' /\ TokensAddUp'
    BY <2>1 DEF TypeOK, TokensAddUp
  <2>3. RunsOn' /\ InBudget' /\ TracesFollow'
    BY <2>1 DEF RunsOn, InBudget, NoTurnOverBudget, TracesFollow, TracesInOrder, Exhausted
  <2> QED
    BY <2>2, <2>3
<1>13. CASE UNCHANGED vars
  <2>1. /\ cap' = cap /\ measured' = measured /\ best' = best /\ stall' = stall /\ first' = first
        /\ left' = left /\ tasks' = tasks /\ tokens' = tokens /\ roleTokens' = roleTokens
        /\ iteration' = iteration /\ at' = at /\ status' = status /\ traces' = traces /\ stop' = stop
    BY <1>13 DEF vars, progress, team, account
  <2>2. TypeOK' /\ TokensAddUp'
    BY <2>1 DEF TypeOK, TokensAddUp
  <2>3. RunsOn' /\ InBudget' /\ TracesFollow'
    BY <2>1 DEF RunsOn, InBudget, NoTurnOverBudget, TracesFollow, TracesInOrder, Exhausted
  <2> QED
    BY <2>2, <2>3
<1> QED
  BY <1>1, <1>2, <1>3, <1>4, <1>5, <1>7, <1>8, <1>9, <1>10, <1>11, <1>12, <1>13 DEF Next, Run

LEMMA SwarmInvHolds == Spec => []SwarmInv
BY SwarmInitial, SwarmStepInv, PTL DEF Spec

\* What the swarm spends is accounted for by role, no turn begins over the
\* budget (but the team's, which looks at it once), and the traces are in
\* order, whatever the scores, the plans and the budget are (run_swarm in
\* swarm.py).
THEOREM SwarmAccountsForAll == Spec => []SwarmIsAccounted
<1>1. SwarmInv => SwarmIsAccounted
  BY DEF SwarmInv, InBudget, TracesFollow, SwarmIsAccounted
<1> QED
  BY <1>1, SwarmInvHolds, PTL

-----------------------------------------------------------------------------
(***************************************************************************)
(* SelfUpdate.  In a checkout HEAD never moves back, so whoever has merged *)
(* has moved it past where the update began.                               *)
(***************************************************************************)
UpdateConstants == MaxVersions \in Nat

HeadMovesOn ==
  Update!Checkout => \A u \in Updater : /\ update[u].before <= disk
                                        /\ update[u].at = "merged" => update[u].before < disk

UpdateInv == Update!TypeOK /\ HeadMovesOn

UpdateState ==
  [at : {"rest", "start", "fetched", "merged"}, before : 0..MaxVersions, after : 0..MaxVersions,
   result : {"none", "updated", "up-to-date", "error"}]

LEMMA UpdateChanges ==
  ASSUME UpdateInv, NEW u \in Updater, update' \in [Updater -> UpdateState],
         \A x \in Updater \ {u} : update'[x] = update[x],
         install' = install, disk' \in 0..MaxVersions, Update!Checkout => disk' >= disk,
         Update!Checkout => /\ update'[u].before <= disk'
                            /\ update'[u].at = "merged" => update'[u].before < disk'
  PROVE  HeadMovesOn'
<1> SUFFICES ASSUME Update!Checkout, NEW x \in Updater
             PROVE  update'[x].before <= disk' /\ (update'[x].at = "merged" => update'[x].before < disk')
  BY DEF HeadMovesOn, Update!Checkout
<1>1. CASE x = u
  BY <1>1
<1>2. CASE x # u
  <2>1. /\ update[x].before \in 0..MaxVersions /\ disk \in 0..MaxVersions
        /\ disk' >= disk /\ update'[x] = update[x]
    BY <1>2 DEF UpdateInv, Update!TypeOK, Update!Version
  <2>2. update[x].before <= disk /\ (update[x].at = "merged" => update[x].before < disk)
    BY DEF UpdateInv, HeadMovesOn
  <2> QED
    BY <2>1, <2>2
<1> QED
  BY <1>1, <1>2

LEMMA UpdateAdvances ==
  ASSUME NEW u \in Updater, update \in [Updater -> UpdateState],
         NEW to \in {"fetched", "merged"}, NEW after \in 0..MaxVersions,
         update' = [update EXCEPT ![u].at = to, ![u].after = after]
  PROVE  /\ update' \in [Updater -> UpdateState] /\ \A x \in Updater \ {u} : update'[x] = update[x]
         /\ update'[u].at = to /\ update'[u].before = update[u].before
         /\ update'[u].result = update[u].result
<1> DEFINE r == [at |-> to, before |-> update[u].before, after |-> after, result |-> update[u].result]
<1>1. update[u] \in UpdateState
  OBVIOUS
<1>2. r \in UpdateState
  BY <1>1 DEF UpdateState
<1>3. /\ DOMAIN update' = Updater /\ \A x \in Updater \ {u} : update'[x] = update[x]
      /\ update'[u].at = to /\ update'[u].before = update[u].before
      /\ update'[u].result = update[u].result /\ update'[u].after = after
  BY <1>1 DEF UpdateState
<1>4. update'[u] = [[update[u] EXCEPT !.at = to] EXCEPT !.after = after]
  OBVIOUS
<1>5. [[update[u] EXCEPT !.at = to] EXCEPT !.after = after] \in UpdateState
  BY <1>1 DEF UpdateState
<1>6. update' = [x \in Updater |-> update'[x]]
  OBVIOUS
<1>7. \A x \in Updater : update'[x] \in UpdateState
  BY <1>3, <1>4, <1>5
<1> QED
  BY <1>3, <1>6, <1>7

LEMMA UpdateEnds ==
  ASSUME UpdateConstants, UpdateInv, NEW u \in Updater, NEW result \in {"none", "updated", "up-to-date", "error"},
         Update!Ends(u, result), install' = install, disk' \in 0..MaxVersions,
         Update!Checkout => disk' >= disk
  PROVE  /\ update' \in [Updater -> UpdateState] /\ HeadMovesOn'
         /\ update'[u].result = result /\ \A x \in Updater \ {u} : update'[x] = update[x]
<1>1. update \in [Updater -> UpdateState] /\ disk \in 0..MaxVersions
  BY DEF UpdateInv, Update!TypeOK, Update!Version, UpdateState
<1> DEFINE r == [Update!Rest EXCEPT !.result = result]
<1>2. r \in UpdateState /\ r.result = result /\ r.at = "rest" /\ r.before = 0
  <2>1. 0 \in 0..MaxVersions
    BY DEF UpdateConstants
  <2> QED
    BY <2>1 DEF UpdateState, Update!Rest
<1>3. update' = [update EXCEPT ![u] = r]
  BY Zenon DEF Update!Ends
<1> HIDE DEF r
<1>4. update'[u] = r /\ \A x \in Updater \ {u} : update'[x] = update[x]
  BY <1>1, <1>3
<1>5. update' \in [Updater -> UpdateState]
  BY <1>1, <1>2, <1>3
<1>6. HeadMovesOn'
  <2>1. update'[u].before <= disk' /\ update'[u].at # "merged"
    BY <1>2, <1>4
  <2> QED
    BY <1>4, <1>5, <2>1, UpdateChanges
<1> QED
  BY <1>2, <1>4, <1>5, <1>6

LEMMA UpdateInitial == UpdateConstants /\ Update!Init => UpdateInv
<1> SUFFICES ASSUME UpdateConstants, Update!Init PROVE UpdateInv
  OBVIOUS
<1>1. 0 \in 0..MaxVersions /\ 0 \in 0..(MaxVersions + 1) /\ MaxVersions + 1 \in 0..(MaxVersions + 1)
  BY DEF UpdateConstants
<1>2. Update!Rest \in UpdateState /\ Update!Rest.before = 0 /\ Update!Rest.at = "rest"
  BY <1>1 DEF Update!Rest, UpdateState
<1>3. update \in [Updater -> UpdateState] /\ \A u \in Updater : update[u] = Update!Rest
  BY <1>2, Zenon DEF Update!Init
<1>4. Update!TypeOK
  BY <1>1, <1>3 DEF Update!Init, Update!TypeOK, Update!Version, Update!NoBase, UpdateState
<1>5. HeadMovesOn
  <2>1. disk = 0
    BY DEF Update!Init
  <2> QED
    BY <1>2, <1>3, <2>1 DEF HeadMovesOn
<1> QED
  BY <1>4, <1>5 DEF UpdateInv

\* A step that leaves the updaters alone.
LEMMA UpdateStays ==
  ASSUME UpdateInv, UNCHANGED <<install, disk, update>> PROVE HeadMovesOn'
BY DEF UpdateInv, HeadMovesOn, Update!Checkout

LEMMA UpdateGoesOn ==
  ASSUME UpdateConstants, UpdateInv, Update!Next
  PROVE  /\ UpdateInv'
         /\ \A x \in Updater : Update!Checkout /\ update[x].result # "updated" /\ update'[x].result = "updated"
              => disk \notin broken /\ disk > update[x].before
<1> DEFINE Told == \A x \in Updater :
             Update!Checkout /\ update[x].result # "updated" /\ update'[x].result = "updated"
               => disk \notin broken /\ disk > update[x].before
           Typed == /\ install' \in [kind : {"checkout", "pip"}, dirty : BOOLEAN, ahead : BOOLEAN]
                    /\ origin' \in 0..MaxVersions /\ disk' \in 0..MaxVersions /\ broken' \subseteq 0..MaxVersions
                    /\ daemon' \in [at : {"importing", "starting", "running", "leaving", "down"},
                                    code : 0..MaxVersions, baseline : 0..(MaxVersions + 1)]
                    /\ busy' \in BOOLEAN
<1>1. /\ install \in [kind : {"checkout", "pip"}, dirty : BOOLEAN, ahead : BOOLEAN]
      /\ origin \in 0..MaxVersions /\ disk \in 0..MaxVersions /\ broken \subseteq 0..MaxVersions
      /\ update \in [Updater -> UpdateState]
      /\ daemon \in [at : {"importing", "starting", "running", "leaving", "down"},
                     code : 0..MaxVersions, baseline : 0..(MaxVersions + 1)]
      /\ busy \in BOOLEAN
  BY DEF UpdateInv, Update!TypeOK, Update!Version, Update!NoBase, UpdateState
<1>2. Typed /\ update' \in [Updater -> UpdateState] /\ HeadMovesOn' => UpdateInv'
  BY DEF UpdateInv, Update!TypeOK, Update!Version, Update!NoBase, UpdateState
<1>3. update' = update => Told
  OBVIOUS
<1>4. MaxVersions \in Nat
  BY DEF UpdateConstants
<1>5. \A u \in Updater : update[u].before \in 0..MaxVersions
  BY <1>1 DEF UpdateState
<1> HIDE DEF Told
<1>6. CASE Update!Publish
  <2>1. Typed /\ UNCHANGED <<install, disk, update>>
    BY <1>1, <1>4, <1>6 DEF Update!Publish
  <2> QED
    BY <1>1, <1>2, <1>3, <2>1, UpdateStays DEF Told
<1>7. ASSUME NEW u \in Updater, NEW force \in BOOLEAN, Update!Begin(u, force) PROVE UpdateInv' /\ Told
  <2>1. Typed /\ install' = install /\ disk' = disk
    BY <1>1, <1>7 DEF Update!Begin
  <2>2. CASE Update!Ends(u, "error")
    <3>1. /\ update' \in [Updater -> UpdateState] /\ HeadMovesOn'
          /\ update'[u].result = "error" /\ \A x \in Updater \ {u} : update'[x] = update[x]
      BY <1>1, <2>1, <2>2, UpdateEnds
    <3> QED
      BY <1>2, <2>1, <3>1 DEF Told
  <2>3. CASE update' = [update EXCEPT ![u] = [Update!Rest EXCEPT !.at = "start", !.before = disk]]
    <3> DEFINE r == [Update!Rest EXCEPT !.at = "start", !.before = disk]
    <3>1. r \in UpdateState /\ r.at = "start" /\ r.before = disk /\ r.result = "none"
      <4>1. ASSUME NEW q \in UpdateState, NEW d \in 0..MaxVersions
            PROVE  LET s == [[q EXCEPT !.at = "start"] EXCEPT !.before = d]
                   IN  s \in UpdateState /\ s.at = "start" /\ s.before = d /\ s.result = q.result
        BY DEF UpdateState
      <4>2. 0 \in 0..MaxVersions /\ disk \in 0..MaxVersions
        BY <1>1, <1>4
      <4>3. Update!Rest \in UpdateState /\ Update!Rest.result = "none"
        BY <4>2 DEF Update!Rest, UpdateState
      <4> QED
        BY <4>1, <4>2, <4>3
    <3>2. update' = [update EXCEPT ![u] = r]
      BY <2>3
    <3> HIDE DEF r
    <3>3. update'[u] = r /\ (\A x \in Updater \ {u} : update'[x] = update[x]) /\ update' \in [Updater -> UpdateState]
      BY <1>1, <3>1, <3>2
    <3>4. HeadMovesOn'
      BY <1>1, <2>1, <3>1, <3>3, UpdateChanges
    <3> QED
      BY <1>2, <2>1, <3>1, <3>3, <3>4 DEF Told
  <2> QED
    BY <1>7, <2>2, <2>3 DEF Update!Begin
<1>8. ASSUME NEW u \in Updater, Update!Fetch(u) PROVE UpdateInv' /\ Told
  <2>1. Typed /\ install' = install /\ disk' = disk
    BY <1>1, <1>8 DEF Update!Fetch
  <2>2. CASE Update!Ends(u, "error")
    <3>1. /\ update' \in [Updater -> UpdateState] /\ HeadMovesOn'
          /\ update'[u].result = "error" /\ \A x \in Updater \ {u} : update'[x] = update[x]
      BY <1>1, <2>1, <2>2, UpdateEnds
    <3> QED
      BY <1>2, <2>1, <3>1 DEF Told
  <2>3. CASE update' = [update EXCEPT ![u].at = "fetched", ![u].after = origin]
    <3>1. update' \in [Updater -> UpdateState]
      BY <1>1, <2>3, UpdateAdvances
    <3>2. /\ \A x \in Updater \ {u} : update'[x] = update[x]
          /\ update'[u].at = "fetched" /\ update'[u].before = update[u].before
          /\ update'[u].result = update[u].result
      BY <1>1, <2>3, UpdateAdvances
    <3>3. Update!Checkout => update[u].before <= disk
      BY DEF UpdateInv, HeadMovesOn
    <3>4. HeadMovesOn'
      BY <1>1, <2>1, <3>1, <3>2, <3>3, UpdateChanges
    <3> QED
      BY <1>2, <2>1, <3>1, <3>2, <3>4 DEF Told
  <2> QED
    BY <1>8, <2>2, <2>3 DEF Update!Fetch
<1>9. ASSUME NEW u \in Updater, Update!Merge(u) PROVE UpdateInv' /\ Told
  <2> DEFINE new == IF update[u].after > disk THEN update[u].after ELSE disk
  <2>1. Update!Checkout /\ update[u].at = "fetched" /\ update[u].before <= disk /\ install' = install
    BY <1>9 DEF Update!Merge, UpdateInv, HeadMovesOn
  <2>2. new \in 0..MaxVersions /\ new >= disk
    BY <1>1, <1>4 DEF UpdateState
  <2>3. \/ Update!Ends(u, "error") /\ disk' = disk
        \/ /\ disk' = new
           /\ IF new = update[u].before THEN Update!Ends(u, "up-to-date")
              ELSE update' = [update EXCEPT ![u].at = "merged", ![u].after = new]
    BY <1>9 DEF Update!Merge
  <2>4. disk' \in 0..MaxVersions /\ disk' >= disk
    BY <1>1, <2>2, <2>3
  <2>5. Typed
    BY <1>1, <1>9, <2>4 DEF Update!Merge
  <2> HIDE DEF new
  <2>6. ASSUME NEW result \in {"error", "up-to-date"}, Update!Ends(u, result) PROVE UpdateInv' /\ Told
    <3>1. /\ update' \in [Updater -> UpdateState] /\ HeadMovesOn'
          /\ update'[u].result = result /\ \A x \in Updater \ {u} : update'[x] = update[x]
      BY <2>1, <2>4, <2>6, UpdateEnds
    <3> QED
      BY <1>2, <2>5, <3>1 DEF Told
  <2>7. CASE disk' = new /\ new # update[u].before /\ update' = [update EXCEPT ![u].at = "merged", ![u].after = new]
    <3>1. update' \in [Updater -> UpdateState]
      BY <1>1, <2>2, <2>7, UpdateAdvances
    <3>2. /\ \A x \in Updater \ {u} : update'[x] = update[x]
          /\ update'[u].before = update[u].before /\ update'[u].result = update[u].result
      BY <1>1, <2>2, <2>7, UpdateAdvances
    <3>3. update'[u].before < disk'
      BY <1>1, <1>5, <2>1, <2>2, <2>7, <3>2
    <3>4. HeadMovesOn'
      BY <2>1, <2>4, <3>1, <3>2, <3>3, <1>5, UpdateChanges
    <3> QED
      BY <1>2, <2>5, <3>1, <3>2, <3>4 DEF Told
  <2> QED
    BY <2>3, <2>6, <2>7
<1>10. ASSUME NEW u \in Updater, Update!CheckImport(u) PROVE UpdateInv' /\ Told
  <2>1. Typed /\ install' = install /\ disk' = disk
    BY <1>1, <1>10 DEF Update!CheckImport
  <2>2. PICK result \in {"error", "updated"} : result = IF disk \in broken THEN "error" ELSE "updated"
    OBVIOUS
  <2>3. Update!Ends(u, result)
    BY <1>10, <2>2 DEF Update!CheckImport
  <2>4. /\ update' \in [Updater -> UpdateState] /\ HeadMovesOn'
        /\ update'[u].result = result /\ \A x \in Updater \ {u} : update'[x] = update[x]
    BY <1>1, <2>1, <2>2, <2>3, UpdateEnds
  <2>5. Update!Checkout => update[u].before < disk
    BY <1>10 DEF Update!CheckImport, UpdateInv, HeadMovesOn
  <2>6. Told
    BY <1>1, <1>5, <2>2, <2>4, <2>5 DEF Told
  <2> QED
    BY <1>2, <2>1, <2>4, <2>6
<1>11. ASSUME NEW u \in Updater, Update!Reinstall(u) PROVE UpdateInv' /\ Told
  <2>1. /\ ~Update!Checkout /\ install' = install /\ origin' = origin /\ broken' = broken /\ busy' = busy
        /\ disk' = update[u].after
    BY <1>11 DEF Update!Reinstall
  <2>2. disk' \in 0..MaxVersions
    BY <1>1, <2>1 DEF UpdateState
  <2>3. PICK result \in {"updated", "up-to-date"} : result = IF disk' = update[u].before THEN "up-to-date" ELSE "updated"
    OBVIOUS
  <2>4. Update!Ends(u, result)
    BY <1>11, <2>3 DEF Update!Reinstall
  <2>5. update' \in [Updater -> UpdateState] /\ HeadMovesOn'
    BY <2>1, <2>2, <2>3, <2>4, UpdateEnds
  <2>6. daemon' = daemon \/ daemon' = [daemon EXCEPT !.at = "leaving"]
    BY <1>11 DEF Update!Reinstall
  <2>7. Typed
    BY <1>1, <2>1, <2>2, <2>6
  <2> QED
    BY <1>2, <2>1, <2>5, <2>7 DEF Told
<1>12. CASE Update!Import \/ Update!Serve \/ Update!Watch \/ \E b \in BOOLEAN : Update!Works(b)
  <2>1. UNCHANGED <<install, origin, broken, disk, update>>
    BY <1>12 DEF Update!Import, Update!Serve, Update!Watch, Update!Works
  <2>2. busy' \in BOOLEAN
    BY <1>1, <1>12 DEF Update!Import, Update!Serve, Update!Watch, Update!Works
  <2>3. daemon' \in [at : {"importing", "starting", "running", "leaving", "down"},
                     code : 0..MaxVersions, baseline : 0..(MaxVersions + 1)]
    <3>1. MaxVersions + 1 \in 0..(MaxVersions + 1) /\ disk \in 0..(MaxVersions + 1)
      BY <1>1, <1>4
    <3>2. CASE Update!Import
      BY <1>1, <3>1, <3>2 DEF Update!Import, Update!NoBase
    <3>3. CASE Update!Serve
      BY <1>1, <3>1, <3>3 DEF Update!Serve, Update!NoBase
    <3>4. CASE Update!Watch
      BY <1>1, <3>4 DEF Update!Watch
    <3>5. CASE \E b \in BOOLEAN : Update!Works(b)
      BY <1>1, <3>5 DEF Update!Works
    <3> QED
      BY <1>12, <3>2, <3>3, <3>4, <3>5
  <2>4. Typed
    BY <1>1, <2>1, <2>2, <2>3
  <2>5. HeadMovesOn'
    BY <2>1, UpdateStays
  <2> QED
    BY <1>1, <1>2, <1>3, <2>1, <2>4, <2>5 DEF Told
<1>13. CASE Update!Exec
  <2>1. Typed /\ install' = install /\ disk' = disk
    BY <1>1, <1>13 DEF Update!Exec
  <2>2. Update!Rest \in UpdateState /\ Update!Rest.before = 0 /\ Update!Rest.at = "rest" /\ Update!Rest.result = "none"
    BY <1>4 DEF Update!Rest, UpdateState
  <2>3. /\ update' \in [Updater -> UpdateState]
        /\ \A x \in Updater : update'[x] = update[x] \/ update'[x] = Update!Rest
    BY <1>1, <1>13, <2>2, Zenon DEF Update!Exec
  <2>4. HeadMovesOn'
    <3> SUFFICES ASSUME Update!Checkout, NEW x \in Updater
                 PROVE  update'[x].before <= disk' /\ (update'[x].at = "merged" => update'[x].before < disk')
      BY <2>1 DEF HeadMovesOn, Update!Checkout
    <3>1. update[x].before <= disk /\ (update[x].at = "merged" => update[x].before < disk)
      BY DEF UpdateInv, HeadMovesOn
    <3> QED
      BY <1>1, <2>1, <2>2, <2>3, <3>1
  <2>5. Told
    BY <2>2, <2>3 DEF Told
  <2> QED
    BY <1>2, <2>1, <2>3, <2>4, <2>5 DEF Told
<1>14. ASSUME NEW u \in Updater, Update!BeginCli(u) \/ Update!BeginPage(u) PROVE UpdateInv' /\ Told
  BY <1>7, <1>14 DEF Update!BeginCli, Update!BeginPage
<1>15. UpdateInv' /\ Told
  BY <1>6, <1>8, <1>9, <1>10, <1>11, <1>12, <1>13, <1>14 DEF Update!Next, Told
<1> QED
  BY <1>15 DEF Told

LEMMA UpdateInvHolds == UpdateConstants => (Update!Spec => []UpdateInv)
<1> SUFFICES ASSUME UpdateConstants PROVE Update!Spec => []UpdateInv
  OBVIOUS
<1>1. UpdateInv /\ [Update!Next]_(Update!vars) => UpdateInv'
  <2>1. ASSUME UpdateInv, Update!Next PROVE UpdateInv'
    BY <2>1, UpdateGoesOn
  <2>2. ASSUME UpdateInv, UNCHANGED Update!vars PROVE UpdateInv'
    BY <2>2 DEF Update!vars, UpdateInv, HeadMovesOn, Update!Checkout, Update!TypeOK
  <2> QED
    BY <2>1, <2>2
<1> QED
  BY <1>1, UpdateInitial, PTL DEF Update!Spec

\* "updated" is said of a checkout only when HEAD is past the version the
\* update began with and imports, whichever updates, merges and restarts of
\* the daemon come in between (update_installation in update.py).
THEOREM UpdatesTellTheTruth == UpdateConstants => (Update!Spec => UpdatedCodeImports)
<1> SUFFICES ASSUME UpdateConstants PROVE Update!Spec => UpdatedCodeImports
  OBVIOUS
<1>1. ASSUME UpdateInv, [Update!Next]_(Update!vars)
      PROVE  [\A u \in Updater :
                Update!Checkout /\ update[u].result # "updated" /\ update'[u].result = "updated"
                  => disk \notin broken /\ disk > update[u].before]_(Update!vars)
  BY <1>1, UpdateGoesOn
<1> QED
  BY <1>1, UpdateInvHolds, PTL DEF Update!Spec, UpdatedCodeImports, Update!UpdatedCodeImports

-----------------------------------------------------------------------------
(***************************************************************************)
(* LiveServer.  A server's count never runs ahead of the changes it has    *)
(* seen, and these not of the workspace's; a page that is open comes from  *)
(* a server.                                                               *)
(***************************************************************************)
LiveConstants == MaxChanges \in Nat

CallState == [op : {"idle", "start", "set", "stop", "drop"}, existing : Server \cup {Nobody}]

ServerState ==
  [state : {"none", "up", "stopped"}, count : 0..MaxChanges, event : BOOLEAN, stale : 0..MaxChanges]

PageState ==
  [at : {"closed", "request", "loading", "shown", "waiting", "answering"},
   from : Server \cup {Nobody}, body : 0..MaxChanges, cur : 0..MaxChanges, seen : 0..MaxChanges]

CountsBehind == \A s \in Server : server[s].count <= server[s].stale /\ server[s].stale <= files

OpenFrom == \A p \in Page : page[p].at # "closed" => page[p].from \in Server

LiveInv == Live!TypeOK /\ CountsBehind /\ OpenFrom

LEMMA LiveInitial == LiveConstants /\ Live!Init => LiveInv
<1> SUFFICES ASSUME LiveConstants, Live!Init PROVE LiveInv
  OBVIOUS
<1>1. 0 \in 0..MaxChanges
  BY DEF LiveConstants
<1>2. Live!Idle \in CallState
  BY DEF Live!Idle, CallState
<1>3. Live!Closed \in PageState /\ Live!Closed.at = "closed"
  BY <1>1 DEF Live!Closed, PageState
<1>4. call \in [Agent -> CallState]
  BY <1>2, Zenon DEF Live!Init
<1>5. page \in [Page -> PageState] /\ \A p \in Page : page[p] = Live!Closed
  BY <1>3, Zenon DEF Live!Init
<1>6. server \in [Server -> ServerState]
  BY <1>1 DEF Live!Init, ServerState
<1>7. Live!TypeOK
  BY <1>1, <1>4, <1>5, <1>6 DEF Live!Init, Live!TypeOK, CallState, PageState, ServerState
<1>8. CountsBehind
  BY DEF Live!Init, CountsBehind
<1>9. OpenFrom
  BY <1>3, <1>5 DEF OpenFrom
<1> QED
  BY <1>7, <1>8, <1>9 DEF LiveInv

LEMMA LiveTyped ==
  LiveInv <=> /\ registry \in Server \cup {Nobody} /\ call \in [Agent -> CallState]
              /\ server \in [Server -> ServerState] /\ watching \subseteq Server
              /\ files \in 0..MaxChanges /\ page \in [Page -> PageState]
              /\ CountsBehind /\ OpenFrom
BY DEF LiveInv, Live!TypeOK, CallState, ServerState, PageState

\* A step of one page.
LEMMA PageChanges ==
  ASSUME LiveInv, NEW p \in Page, NEW r, page' = [page EXCEPT ![p] = r], r \in PageState,
         r.at # "closed" => r.from \in Server
  PROVE  page' \in [Page -> PageState] /\ OpenFrom'
BY LiveTyped DEF OpenFrom

LEMMA PageMoves ==
  ASSUME LiveInv, NEW p \in Page, page[p].at # "closed",
         NEW to \in {"request", "loading", "shown", "waiting", "answering"},
         NEW body \in 0..MaxChanges, NEW cur \in 0..MaxChanges, NEW seen \in 0..MaxChanges
  PROVE  LET q == page[p]
         IN  /\ [q EXCEPT !.at = to] \in PageState /\ [q EXCEPT !.at = to].from \in Server
             /\ LET r == [[q EXCEPT !.at = to] EXCEPT !.body = body] IN r \in PageState /\ r.from \in Server
             /\ LET r == [[q EXCEPT !.at = to] EXCEPT !.cur = cur] IN r \in PageState /\ r.from \in Server
             /\ LET r == [[q EXCEPT !.at = to] EXCEPT !.seen = seen] IN r \in PageState /\ r.from \in Server
<1>1. page[p] \in PageState /\ page[p].from \in Server
  BY LiveTyped DEF OpenFrom
<1> QED
  BY <1>1 DEF PageState

LEMMA LiveGoesOn == LiveConstants /\ LiveInv /\ [Live!Next]_(Live!vars) => LiveInv'
<1> SUFFICES ASSUME LiveConstants, LiveInv, [Live!Next]_(Live!vars) PROVE LiveInv'
  OBVIOUS
<1>1. /\ registry \in Server \cup {Nobody} /\ call \in [Agent -> CallState]
      /\ server \in [Server -> ServerState] /\ watching \subseteq Server
      /\ files \in 0..MaxChanges /\ page \in [Page -> PageState]
      /\ CountsBehind /\ OpenFrom
  BY LiveTyped
<1>2. (/\ registry' \in Server \cup {Nobody} /\ call' \in [Agent -> CallState]
       /\ server' \in [Server -> ServerState] /\ watching' \subseteq Server
       /\ files' \in 0..MaxChanges /\ page' \in [Page -> PageState]
       /\ CountsBehind' /\ OpenFrom') => LiveInv'
  BY DEF LiveInv, Live!TypeOK, CallState, ServerState, PageState
<1>3. MaxChanges \in Nat
  BY DEF LiveConstants
<1>4. server' = server /\ files' = files => CountsBehind'
  BY <1>1 DEF CountsBehind
<1>5. page' = page => OpenFrom'
  BY <1>1 DEF OpenFrom
<1>6. Live!Idle \in CallState
  BY DEF Live!Idle, CallState
<1>7. ASSUME NEW s \in Server PROVE /\ server[s].count \in 0..MaxChanges /\ server[s].stale \in 0..MaxChanges
                                    /\ server[s].count <= server[s].stale /\ server[s].stale <= files
  BY <1>1 DEF CountsBehind, ServerState
<1>8. ASSUME NEW a \in Agent, NEW op \in {"start", "stop"}, Live!Call(a, op) PROVE LiveInv'
  <2>1. [op |-> op, existing |-> registry] \in CallState
    BY <1>1 DEF CallState
  <2>2. call' \in [Agent -> CallState]
    BY <1>1, <1>8, <2>1 DEF Live!Call
  <2> QED
    BY <1>1, <1>2, <1>4, <1>5, <1>8, <2>2 DEF Live!Call
<1>9. ASSUME NEW a \in Agent, Live!AlreadyDone(a) \/ Live!Drop(a) PROVE LiveInv'
  <2>1. call' \in [Agent -> CallState]
    BY <1>1, <1>6, <1>9 DEF Live!AlreadyDone, Live!Drop, Live!Return
  <2> QED
    BY <1>1, <1>2, <1>4, <1>5, <1>9, <2>1 DEF Live!AlreadyDone, Live!Drop
<1>10. ASSUME NEW a \in Agent, Live!Register(a) PROVE LiveInv'
  <2>1. call' \in [Agent -> CallState]
    BY <1>1, <1>6, <1>10 DEF Live!Register, Live!Return
  <2>2. registry' \in Server \cup {Nobody}
    BY <1>1, <1>10 DEF Live!Register, CallState
  <2> QED
    BY <1>1, <1>2, <1>4, <1>5, <1>10, <2>1, <2>2 DEF Live!Register
<1>11. ASSUME NEW a \in Agent, Live!Start(a) PROVE LiveInv'
  <2>1. PICK s \in Server :
          /\ server' = [server EXCEPT ![s].state = "up", ![s].stale = files]
          /\ watching' = watching \cup {s}
          /\ call' = [call EXCEPT ![a] = [op |-> "set", existing |-> s]]
    BY <1>11 DEF Live!Start, Live!Snapshot
  <2>2. [op |-> "set", existing |-> s] \in CallState
    BY DEF CallState
  <2>3. call' \in [Agent -> CallState] /\ watching' \subseteq Server
    BY <1>1, <2>1, <2>2
  <2>4. ASSUME NEW q \in ServerState, NEW n \in 0..MaxChanges
        PROVE  LET t == [[q EXCEPT !.state = "up"] EXCEPT !.stale = n]
               IN  t \in ServerState /\ t.count = q.count /\ t.stale = n
    BY DEF ServerState
  <2> DEFINE t == [[server[s] EXCEPT !.state = "up"] EXCEPT !.stale = files]
  <2>5. t \in ServerState /\ t.count = server[s].count /\ t.stale = files
    BY <1>1, <2>4
  <2>6. DOMAIN server' = Server /\ server'[s] = t /\ \A x \in Server \ {s} : server'[x] = server[x]
    BY <1>1, <2>1
  <2> HIDE DEF t
  <2>7. server' = [x \in Server |-> server'[x]]
    BY <1>1, <2>1
  <2>8. server' \in [Server -> ServerState]
    BY <1>1, <2>5, <2>6, <2>7
  <2>9. files' = files /\ registry' = registry /\ page' = page
    BY <1>11 DEF Live!Start
  <2>10. CountsBehind'
    BY <1>1, <1>7, <2>5, <2>6, <2>9 DEF CountsBehind
  <2> QED
    BY <1>1, <1>2, <1>5, <2>3, <2>8, <2>9, <2>10
<1>12. ASSUME NEW a \in Agent, Live!Stop(a) PROVE LiveInv'
  <2>1. call[a].existing \in Server
    BY <1>1, <1>12 DEF Live!Stop, CallState
  <2>2. PICK s \in Server : s = call[a].existing
    BY <2>1
  <2>3. /\ server' = [server EXCEPT ![s].state = "stopped", ![s].event = TRUE]
        /\ call' = [call EXCEPT ![a].op = "drop"]
        /\ UNCHANGED <<registry, watching, files, page>>
    BY <1>12, <2>2 DEF Live!Stop
  <2>4. call' \in [Agent -> CallState]
    BY <1>1, <2>3 DEF CallState
  <2>5. ASSUME NEW q \in ServerState
        PROVE  LET t == [[q EXCEPT !.state = "stopped"] EXCEPT !.event = TRUE]
               IN  t \in ServerState /\ t.count = q.count /\ t.stale = q.stale
    BY DEF ServerState
  <2> DEFINE t == [[server[s] EXCEPT !.state = "stopped"] EXCEPT !.event = TRUE]
  <2>6. t \in ServerState /\ t.count = server[s].count /\ t.stale = server[s].stale
    BY <1>1, <2>5
  <2>7. DOMAIN server' = Server /\ server'[s] = t /\ \A x \in Server \ {s} : server'[x] = server[x]
    BY <1>1, <2>3
  <2> HIDE DEF t
  <2>8. server' = [x \in Server |-> server'[x]]
    BY <1>1, <2>3
  <2>9. server' \in [Server -> ServerState]
    BY <1>1, <2>6, <2>7, <2>8
  <2>10. CountsBehind'
    BY <1>1, <1>7, <2>3, <2>6, <2>7 DEF CountsBehind
  <2> QED
    BY <1>1, <1>2, <1>5, <2>3, <2>4, <2>9, <2>10
<1>13. CASE Live!Edit
  <2>1. files' \in 0..MaxChanges /\ files' = files + 1
    BY <1>1, <1>3, <1>13 DEF Live!Edit
  <2>2. CountsBehind'
    BY <1>1, <1>7, <1>13, <2>1 DEF Live!Edit, CountsBehind
  <2> QED
    BY <1>1, <1>2, <1>5, <1>13, <2>1, <2>2 DEF Live!Edit
<1>14. ASSUME NEW s \in Server, Live!Watch(s) PROVE LiveInv'
  <2>1. /\ server' = [server EXCEPT ![s].stale = files, ![s].count = @ + 1, ![s].event = TRUE]
        /\ server[s].stale # files /\ UNCHANGED <<registry, call, watching, files, page>>
    BY <1>14 DEF Live!Watch, Live!Snapshot
  <2>2. PICK n \in 0..MaxChanges : n = server[s].count + 1 /\ n <= files
    BY <1>1, <1>3, <1>7, <2>1
  <2> DEFINE Seen(q, m, k) == [[[q EXCEPT !.stale = m] EXCEPT !.count = k] EXCEPT !.event = TRUE]
  <2>3. \A q \in ServerState, m, k \in 0..MaxChanges :
           Seen(q, m, k) \in ServerState /\ Seen(q, m, k).count = k /\ Seen(q, m, k).stale = m
    BY DEF ServerState
  <2> DEFINE t == Seen(server[s], files, n)
  <2>4. t \in ServerState /\ t.count = n /\ t.stale = files
    <3>1. server[s] \in ServerState /\ files \in 0..MaxChanges
      BY <1>1
    <3> HIDE DEF Seen
    <3> QED
      BY <2>3, <3>1
  <2>5. DOMAIN server' = Server /\ \A x \in Server \ {s} : server'[x] = server[x]
    BY <1>1, <2>1
  <2>6. server'[s] = t
    BY <1>1, <2>1, <2>2 DEF ServerState
  <2> HIDE DEF t
  <2>7. server' = [x \in Server |-> server'[x]]
    BY <1>1, <2>1
  <2>8. server' \in [Server -> ServerState]
    BY <1>1, <2>4, <2>5, <2>6, <2>7
  <2>9. CountsBehind'
    BY <1>1, <1>7, <2>1, <2>2, <2>4, <2>5, <2>6 DEF CountsBehind
  <2> QED
    BY <1>1, <1>2, <1>5, <2>1, <2>8, <2>9
<1>15. ASSUME NEW s \in Server, Live!WatchEnds(s) PROVE LiveInv'
  BY <1>1, <1>2, <1>4, <1>5, <1>15 DEF Live!WatchEnds
<1>16. ASSUME NEW p \in Page, NEW s \in Server, Live!Open(p, s) PROVE LiveInv'
  <2>1. ASSUME NEW q \in PageState
        PROVE  LET r == [[q EXCEPT !.at = "request"] EXCEPT !.from = s] IN r \in PageState /\ r.from = s
    BY DEF PageState
  <2>2. Live!Closed \in PageState
    BY <1>3 DEF Live!Closed, PageState
  <2> DEFINE r == [[Live!Closed EXCEPT !.at = "request"] EXCEPT !.from = s]
  <2>3. r \in PageState /\ r.from \in Server
    BY <2>1, <2>2
  <2>4. page' = [page EXCEPT ![p] = r]
    BY <1>16, Zenon DEF Live!Open
  <2> HIDE DEF r
  <2>5. page' \in [Page -> PageState] /\ OpenFrom'
    BY <2>3, <2>4, PageChanges
  <2> QED
    BY <1>1, <1>2, <1>4, <1>16, <2>5 DEF Live!Open
<1>17. ASSUME NEW p \in Page, Live!LoadFails(p) \/ Live!Close(p) PROVE LiveInv'
  <2>1. Live!Closed \in PageState /\ Live!Closed.at = "closed"
    BY <1>3 DEF Live!Closed, PageState
  <2>2. page' = [page EXCEPT ![p] = Live!Closed]
    BY <1>17, Zenon DEF Live!LoadFails, Live!Close
  <2>3. page' \in [Page -> PageState] /\ OpenFrom'
    BY <2>1, <2>2, PageChanges
  <2> QED
    BY <1>1, <1>2, <1>4, <1>17, <2>3 DEF Live!LoadFails, Live!Close
<1>18. ASSUME NEW p \in Page, page[p].at # "closed",
              \E to \in {"request", "shown", "waiting"} : Live!Goes(p, to)
       PROVE  page' \in [Page -> PageState] /\ OpenFrom'
  <2>1. PICK to \in {"request", "shown", "waiting"} : page' = [page EXCEPT ![p].at = to]
    BY <1>18 DEF Live!Goes
  <2> DEFINE r == [page[p] EXCEPT !.at = to]
  <2>2. r \in PageState /\ r.from \in Server
    <3>1. to \in {"request", "loading", "shown", "waiting", "answering"} /\ 0 \in 0..MaxChanges
      BY <1>3
    <3> QED
      BY <1>18, <3>1, PageMoves
  <2>3. page' = [page EXCEPT ![p] = r]
    BY <2>1
  <2> HIDE DEF r
  <2> QED
    BY <2>2, <2>3, PageChanges
<1>19. ASSUME NEW p \in Page, Live!Poll(p) \/ Live!PollAgain(p) PROVE LiveInv'
  <2>1. page' \in [Page -> PageState] /\ OpenFrom'
    BY <1>18, <1>19 DEF Live!Poll, Live!PollAgain
  <2> QED
    BY <1>1, <1>2, <1>4, <1>19, <2>1 DEF Live!Poll, Live!PollAgain
<1>20. ASSUME NEW p \in Page, Live!Reload(p) PROVE LiveInv'
  <2>1. page' \in [Page -> PageState] /\ OpenFrom'
    BY <1>18, <1>20 DEF Live!Reload
  <2>2. PICK s \in Server : s = page[p].from
    BY <1>1, <1>20 DEF Live!Reload, OpenFrom
  <2>3. server' = [server EXCEPT ![s].event = FALSE] /\ UNCHANGED <<registry, call, watching, files>>
    BY <1>20, <2>2 DEF Live!Reload
  <2>4. server' \in [Server -> ServerState]
    BY <1>1, <2>3 DEF ServerState
  <2>5. \A x \in Server : server'[x].count = server[x].count /\ server'[x].stale = server[x].stale
    BY <1>1, <2>3 DEF ServerState
  <2>6. CountsBehind'
    BY <1>1, <2>3, <2>5 DEF CountsBehind
  <2> QED
    BY <1>1, <1>2, <2>1, <2>3, <2>4, <2>6
<1>21. ASSUME NEW p \in Page, Live!ServeBody(p) PROVE LiveInv'
  <2> DEFINE r == [[page[p] EXCEPT !.at = "loading"] EXCEPT !.body = files]
  <2>1. r \in PageState /\ r.from \in Server
    BY <1>1, <1>21, PageMoves DEF Live!ServeBody
  <2>2. page' = [page EXCEPT ![p] = r]
    BY <1>1, <1>21 DEF Live!ServeBody
  <2> HIDE DEF r
  <2>3. page' \in [Page -> PageState] /\ OpenFrom'
    BY <2>1, <2>2, PageChanges
  <2> QED
    BY <1>1, <1>2, <1>4, <1>21, <2>3 DEF Live!ServeBody
<1>22. ASSUME NEW p \in Page, Live!ServeMarker(p) PROVE LiveInv'
  <2>1. PICK s \in Server : s = page[p].from
    BY <1>1, <1>22 DEF Live!ServeMarker, OpenFrom
  <2> DEFINE r == [[page[p] EXCEPT !.at = "shown"] EXCEPT !.cur = server[s].count]
  <2>2. r \in PageState /\ r.from \in Server
    BY <1>1, <1>7, <1>22, PageMoves DEF Live!ServeMarker
  <2>3. page' = [page EXCEPT ![p] = r]
    BY <1>1, <1>22, <2>1 DEF Live!ServeMarker
  <2> HIDE DEF r
  <2>4. page' \in [Page -> PageState] /\ OpenFrom'
    BY <2>2, <2>3, PageChanges
  <2> QED
    BY <1>1, <1>2, <1>4, <1>22, <2>4 DEF Live!ServeMarker
<1>23. ASSUME NEW p \in Page, Live!Woken(p) \/ Live!TimedOut(p) PROVE LiveInv'
  <2>1. PICK s \in Server : s = page[p].from
    BY <1>1, <1>23 DEF Live!Woken, Live!TimedOut, OpenFrom
  <2> DEFINE r == [[page[p] EXCEPT !.at = "answering"] EXCEPT !.seen = server[s].count]
  <2>2. r \in PageState /\ r.from \in Server
    BY <1>1, <1>7, <1>23, PageMoves DEF Live!Woken, Live!TimedOut
  <2>3. page' = [page EXCEPT ![p] = r]
    BY <1>1, <1>23, <2>1 DEF Live!Woken, Live!TimedOut, Live!Answer
  <2> HIDE DEF r
  <2>4. page' \in [Page -> PageState] /\ OpenFrom'
    BY <2>2, <2>3, PageChanges
  <2> QED
    BY <1>1, <1>2, <1>4, <1>23, <2>4 DEF Live!Woken, Live!TimedOut
<1>24. CASE UNCHANGED Live!vars
  BY <1>1, <1>2, <1>4, <1>5, <1>24 DEF Live!vars
<1> QED
  BY <1>8, <1>9, <1>10, <1>11, <1>12, <1>13, <1>14, <1>15, <1>16, <1>17, <1>19, <1>20, <1>21, <1>22, <1>23, <1>24
     DEF Live!Next

LEMMA LiveInvHolds == LiveConstants => (Live!Spec => []LiveInv)
<1> SUFFICES ASSUME LiveConstants PROVE Live!Spec => []LiveInv
  OBVIOUS
<1>1. LiveInv /\ [Live!Next]_(Live!vars) => LiveInv'
  BY LiveGoesOn
<1> QED
  BY <1>1, LiveInitial, PTL DEF Live!Spec

-----------------------------------------------------------------------------
(***************************************************************************)
(* SessionStore.  Only one thread is between reading the counter and       *)
(* returning an id, so what it has read stays true; an id that it returns  *)
(* is above all that were given out.  A temporary file is its writer's     *)
(* alone, so what replaces a session file is whole.                        *)
(***************************************************************************)
StoreConstants == MaxId \in Nat /\ MaxSaves \in Nat /\ None \notin Nat

Ids == 1..MaxId
Saves == 0..MaxSaves
File == [head : Saves \cup {None}, tail : Saves \cup {None}]

NoJob == [at : {"idle", "count"}, id : {None}, version : {None}]
IdJob == [at : {"read", "counted"}, id : 0..MaxId, version : {None}]
SaveJob == [at : {"lock", "open", "half", "full", "unlock"}, id : Ids, version : Saves]
Job == NoJob \cup IdJob \cup SaveJob

Counting(j) == j.at \in {"count", "read", "counted"}

Above(n) == \A i \in Ids : given[i] = 1 => i <= n

\* What a thread's job has to do with the store.
JobFits(w) ==
  LET j == work[w]
  IN  /\ j.at = "read" => Above(j.id)
      /\ j.at = "counted" => j.id # 0 /\ Above(j.id - 1) /\ counter = j.id
      /\ j.at \in {"lock", "open", "half", "full", "unlock"} => given[j.id] = 1
      /\ j.at = "half" => temp[<<w, j.id>>] = [head |-> j.version, tail |-> None]
      /\ j.at = "full" => temp[<<w, j.id>>] = [head |-> j.version, tail |-> j.version]

StoreTyped ==
  /\ counter \in 0..MaxId /\ counterLock \subseteq Saver
  /\ sessionLock \in [Ids -> Saver \cup {None}]
  /\ file \in [Ids -> File] /\ temp \in [Saver \X Ids -> File]
  /\ work \in [Saver -> Job] /\ saves \in 0..MaxSaves /\ given \in [Ids -> {0, 1}]

OneCounts ==
  /\ \A w \in Saver : Counting(work[w]) => w \in counterLock
  /\ \A v, w \in counterLock : v = w

FilesAreWhole ==
  \A i \in Ids : /\ file[i].head = file[i].tail
                 /\ file[i] # Store!Absent => given[i] = 1

CounterIsAhead ==
  /\ counter = 0 => \A i \in Ids : given[i] = 1 => file[i] # Store!Absent
  /\ counter # 0 => Above(counter)

StoreInv ==
  StoreTyped /\ OneCounts /\ FilesAreWhole /\ CounterIsAhead /\ \A w \in Saver : JobFits(w)

LEMMA StoreIsTyped == StoreTyped => Store!TypeOK
BY DEF StoreTyped, Store!TypeOK, Store!Id, Store!Version, Store!Half, Store!Name, Ids, Saves, File,
       Job, NoJob, IdJob, SaveJob

LEMMA StoreInitial == StoreConstants /\ Store!Init => StoreInv
<1> SUFFICES ASSUME StoreConstants, Store!Init PROVE StoreInv
  OBVIOUS
<1>1. PICK n \in 0..MaxId, old \in SUBSET Ids :
        /\ given = [i \in Ids |-> IF i \in old THEN 1 ELSE 0]
        /\ n # 0 => \A i \in old : i <= n
        /\ counter = n
  BY DEF Store!Init, Store!Id, Ids
<1>2. given \in [Ids -> {0, 1}]
  BY <1>1
<1>3. Store!Resting \in Job /\ Store!Resting.at = "idle"
  BY DEF Store!Resting, Job, NoJob
<1>4. work \in [Saver -> Job] /\ \A w \in Saver : work[w] = Store!Resting
  BY <1>3, Zenon DEF Store!Init
<1>5. /\ Store!Absent \in File /\ Store!Whole(0) \in File /\ Store!Whole(0) # Store!Absent
      /\ Store!Absent.head = Store!Absent.tail /\ Store!Whole(0).head = Store!Whole(0).tail
  BY DEF StoreConstants, Store!Absent, Store!Whole, File, Saves
<1>6. /\ file \in [Ids -> File]
      /\ \A i \in Ids : file[i] = IF given[i] = 1 THEN Store!Whole(0) ELSE Store!Absent
  BY <1>5 DEF Store!Init, Store!Id, Ids
<1>7. temp \in [Saver \X Ids -> File]
  BY <1>5 DEF Store!Init, Store!Name, Store!Id, Ids
<1>8. StoreTyped
  BY <1>1, <1>2, <1>4, <1>6, <1>7 DEF StoreConstants, Store!Init, StoreTyped, Store!Id, Ids
<1>9. OneCounts
  BY <1>3, <1>4 DEF OneCounts, Counting, Store!Init
<1>10. FilesAreWhole
  BY <1>5, <1>6 DEF FilesAreWhole
<1>11. CounterIsAhead
  BY <1>1, <1>5, <1>6 DEF CounterIsAhead, Above
<1>12. \A w \in Saver : JobFits(w)
  BY <1>3, <1>4 DEF JobFits
<1> QED
  BY <1>8, <1>9, <1>10, <1>11, <1>12 DEF StoreInv

LEMMA JobKinds ==
  ASSUME NEW j \in Job
  PROVE  /\ j.at \in {"idle", "count"} => j.id = None /\ j.version = None
         /\ j.at \in {"read", "counted"} => j.id \in 0..MaxId /\ j.version = None
         /\ j.at \in {"lock", "open", "half", "full", "unlock"} => j.id \in Ids /\ j.version \in Saves /\ j \in SaveJob
BY DEF Job, NoJob, IdJob, SaveJob

\* What a step of one thread leaves to the others.
LEMMA OthersFit ==
  ASSUME StoreInv, NEW w \in Saver, NEW j \in Job, work' = [work EXCEPT ![w] = j],
         UNCHANGED <<counter, given>> \/ Counting(work[w]),
         \A i \in Ids : given[i] = 1 => given'[i] = 1,
         \A x \in Saver \ {w} : \A i \in Ids : temp'[<<x, i>>] = temp[<<x, i>>]
  PROVE  /\ work' \in [Saver -> Job] /\ work'[w] = j /\ \A x \in Saver \ {w} : work'[x] = work[x]
         /\ \A x \in Saver \ {w} : JobFits(x)'
<1>1. work \in [Saver -> Job]
  BY DEF StoreInv, StoreTyped
<1>2. work' \in [Saver -> Job] /\ work'[w] = j /\ \A x \in Saver \ {w} : work'[x] = work[x]
  BY <1>1
<1>3. ASSUME NEW x \in Saver \ {w} PROVE JobFits(x)'
  <2>1. JobFits(x) /\ work'[x] = work[x] /\ work[x] \in Job
    BY <1>1, <1>2 DEF StoreInv
  <2>2. work[x].at \in {"lock", "open", "half", "full", "unlock"} => work[x].id \in Ids
    BY <2>1, JobKinds
  <2>3. CASE UNCHANGED <<counter, given>>
    BY <2>1, <2>2, <2>3 DEF JobFits, Above
  <2>4. CASE Counting(work[w])
    <3>1. ~Counting(work[x])
      BY <2>4 DEF StoreInv, OneCounts
    <3> QED
      BY <2>1, <2>2, <3>1 DEF JobFits, Counting
  <2> QED
    BY <2>3, <2>4
<1> QED
  BY <1>2, <1>3

\* A step of a save.
LEMMA SaveGoesOn ==
  ASSUME StoreInv, NEW w \in Saver, NEW j \in Job, work' = [work EXCEPT ![w] = j], ~Counting(j),
         UNCHANGED <<counter, counterLock, given>>, JobFits(w)',
         sessionLock' \in [Ids -> Saver \cup {None}], temp' \in [Saver \X Ids -> File],
         \A x \in Saver \ {w} : \A i \in Ids : temp'[<<x, i>>] = temp[<<x, i>>],
         saves' \in 0..MaxSaves, file' \in [Ids -> File], FilesAreWhole',
         \A i \in Ids : file[i] # Store!Absent => file'[i] # Store!Absent
  PROVE  StoreInv'
<1>1. /\ work' \in [Saver -> Job] /\ work'[w] = j /\ \A x \in Saver \ {w} : work'[x] = work[x]
      /\ \A x \in Saver \ {w} : JobFits(x)'
  BY OthersFit
<1>2. StoreTyped'
  BY <1>1 DEF StoreInv, StoreTyped
<1>3. OneCounts'
  BY <1>1 DEF StoreInv, OneCounts
<1>4. CounterIsAhead'
  BY DEF StoreInv, CounterIsAhead, Above
<1> QED
  BY <1>1, <1>2, <1>3, <1>4 DEF StoreInv

\* A step of new_id.
LEMMA CountGoesOn ==
  ASSUME StoreInv, NEW w \in Saver, NEW j \in Job, work' = [work EXCEPT ![w] = j],
         UNCHANGED <<sessionLock, file, temp, saves>>, JobFits(w)',
         UNCHANGED <<counter, given>> \/ Counting(work[w]),
         counter' \in 0..MaxId, counterLock' \subseteq Saver, given' \in [Ids -> {0, 1}],
         \A i \in Ids : given[i] = 1 => given'[i] = 1,
         CounterIsAhead',
         (Counting(j) /\ counterLock' = {w} /\ counterLock \subseteq {w}) \/ (~Counting(j) /\ counterLock' = counterLock \ {w})
  PROVE  StoreInv'
<1>1. /\ work' \in [Saver -> Job] /\ work'[w] = j /\ \A x \in Saver \ {w} : work'[x] = work[x]
      /\ \A x \in Saver \ {w} : JobFits(x)'
  BY OthersFit
<1>2. StoreTyped'
  BY <1>1 DEF StoreInv, StoreTyped
<1>3. OneCounts'
  <2>1. CASE Counting(j) /\ counterLock' = {w} /\ counterLock \subseteq {w}
    BY <1>1, <2>1 DEF StoreInv, OneCounts
  <2>2. CASE ~Counting(j) /\ counterLock' = counterLock \ {w}
    BY <1>1, <2>2 DEF StoreInv, OneCounts
  <2> QED
    BY <2>1, <2>2
<1>4. FilesAreWhole'
  BY DEF StoreInv, FilesAreWhole
<1> QED
  BY <1>1, <1>2, <1>3, <1>4 DEF StoreInv

\* A job that only changes its place.
LEMMA JobMoves ==
  ASSUME NEW w \in Saver, NEW to \in {"count", "open", "half", "full", "unlock"}, work[w] \in Job,
         (work[w].at = "idle" /\ to = "count") \/ (work[w] \in SaveJob /\ to # "count")
  PROVE  LET j == [work[w] EXCEPT !.at = to]
         IN  /\ j \in Job /\ j.at = to /\ j.id = work[w].id /\ j.version = work[w].version
             /\ to # "count" => j \in SaveJob
<1>1. CASE work[w].at = "idle" /\ to = "count"
  <2>1. work[w] \in NoJob
    BY <1>1 DEF Job, NoJob, IdJob, SaveJob
  <2> QED
    BY <1>1, <2>1 DEF Job, NoJob
<1>2. CASE work[w] \in SaveJob /\ to # "count"
  BY <1>2 DEF Job, SaveJob
<1> QED
  BY <1>1, <1>2

LEMMA NewIdGoesOn ==
  ASSUME StoreConstants, StoreInv, NEW w \in Saver, Store!NewId(w)
  PROVE  /\ StoreInv' /\ file' = file
         /\ given' # given => \E i \in Ids : given[i] = 0 /\ given' = [given EXCEPT ![i] = 1]
<1>1. /\ counter \in 0..MaxId /\ counterLock \subseteq Saver /\ work \in [Saver -> Job]
      /\ given \in [Ids -> {0, 1}] /\ work[w] \in Job /\ JobFits(w)
  BY DEF StoreInv, StoreTyped
<1>2. MaxId \in Nat /\ None \notin Nat
  BY DEF StoreConstants
<1>3. OneCounts /\ FilesAreWhole /\ CounterIsAhead
  BY DEF StoreInv
<1>4. CASE Store!LockCounter(w)
  <2>1. /\ work[w].at = "idle" /\ work' = [work EXCEPT ![w].at = "count"]
        /\ UNCHANGED <<counter, sessionLock, file, temp, saves, given>>
        /\ counterLock = {} /\ counterLock' = counterLock \cup {w}
    BY <1>1, <1>4 DEF Store!LockCounter, Store!Moves, Store!Excludes
  <2> DEFINE j == [work[w] EXCEPT !.at = "count"]
  <2>2. j \in Job /\ j.at = "count"
    BY <1>1, <2>1, JobMoves
  <2>3. work' = [work EXCEPT ![w] = j]
    BY <2>1
  <2> HIDE DEF j
  <2>4. work'[w] = j
    BY <1>1, <2>3
  <2>5. JobFits(w)'
    BY <2>2, <2>4 DEF JobFits
  <2>6. CounterIsAhead'
    BY <1>3, <2>1 DEF CounterIsAhead, Above
  <2>7. Counting(j) /\ counterLock' = {w} /\ counterLock \subseteq {w}
    BY <2>1, <2>2 DEF Counting
  <2>8. counter' \in 0..MaxId /\ counterLock' \subseteq Saver /\ given' \in [Ids -> {0, 1}]
    BY <1>1, <2>1
  <2>9. StoreInv'
    BY <2>1, <2>2, <2>3, <2>5, <2>6, <2>7, <2>8, CountGoesOn
  <2> QED
    BY <2>1, <2>9
<1>5. CASE Store!ReadCounter(w)
  <2>1. PICK last \in 0..MaxId :
          /\ work' = [work EXCEPT ![w].at = "read", ![w].id = last]
          /\ Above(last)
    <3>1. PICK last \in IF counter # 0 THEN {counter}
                        ELSE {n \in Store!OnDisk \cup {0} : \A m \in Store!OnDisk : m <= n} :
            work' = [work EXCEPT ![w].at = "read", ![w].id = last]
      BY <1>5 DEF Store!ReadCounter
    <3>2. CASE counter # 0
      BY <1>1, <1>3, <3>1, <3>2 DEF CounterIsAhead
    <3>3. CASE counter = 0
      <4>1. last \in Store!OnDisk \cup {0} /\ \A m \in Store!OnDisk : m <= last
        BY <3>1, <3>3
      <4>2. last \in 0..MaxId
        BY <1>2, <4>1 DEF Store!OnDisk, Store!Id
      <4>3. Above(last)
        BY <1>3, <3>3, <4>1 DEF CounterIsAhead, Above, Store!OnDisk, Store!Id, Ids
      <4> QED
        BY <3>1, <4>2, <4>3
    <3> QED
      BY <3>2, <3>3
  <2>2. /\ work[w].at = "count" /\ UNCHANGED <<counter, counterLock, sessionLock, file, temp, saves, given>>
    BY <1>5 DEF Store!ReadCounter, Store!locks
  <2>3. work[w] \in NoJob
    BY <1>1, <2>2 DEF Job, NoJob, IdJob, SaveJob
  <2> DEFINE With(q, n) == [[q EXCEPT !.at = "read"] EXCEPT !.id = n]
             j == With(work[w], last)
  <2>4. \A q \in NoJob, n \in 0..MaxId : With(q, n) \in Job /\ With(q, n).at = "read" /\ With(q, n).id = n
    BY DEF Job, NoJob, IdJob
  <2>5. work' = [work EXCEPT ![w] = j]
    BY <1>1, <2>1
  <2> HIDE DEF With
  <2>6. j \in Job /\ j.at = "read" /\ j.id = last
    BY <2>3, <2>4
  <2> HIDE DEF j
  <2>7. work'[w] = j
    BY <1>1, <2>5
  <2>8. JobFits(w)'
    BY <2>1, <2>2, <2>6, <2>7 DEF JobFits, Above
  <2>9. CounterIsAhead'
    BY <1>3, <2>2 DEF CounterIsAhead, Above
  <2>10. Counting(j) /\ counterLock' = {w} /\ counterLock \subseteq {w}
    BY <1>3, <2>2, <2>6 DEF Counting, OneCounts
  <2>11. counter' \in 0..MaxId /\ counterLock' \subseteq Saver /\ given' \in [Ids -> {0, 1}]
    BY <1>1, <2>2
  <2>12. StoreInv'
    BY <2>2, <2>5, <2>6, <2>8, <2>9, <2>10, <2>11, CountGoesOn
  <2> QED
    BY <2>2, <2>12
<1>6. CASE Store!WriteCounter(w)
  <2>1. work[w].at = "read" /\ work[w].id < MaxId /\ work[w].id \in 0..MaxId /\ Above(work[w].id)
    BY <1>1, <1>6, JobKinds DEF Store!WriteCounter, JobFits
  <2>2. PICK n \in 1..MaxId : n = work[w].id + 1
    BY <1>2, <2>1
  <2>3. /\ counter' = n /\ work' = [work EXCEPT ![w].at = "counted", ![w].id = @ + 1]
        /\ UNCHANGED <<counterLock, sessionLock, file, temp, saves, given>>
    BY <1>6, <2>2 DEF Store!WriteCounter, Store!locks
  <2>4. work[w] \in IdJob
    BY <1>1, <2>1 DEF Job, NoJob, IdJob, SaveJob
  <2> DEFINE With(q, m) == [[q EXCEPT !.at = "counted"] EXCEPT !.id = m]
             j == With(work[w], n)
  <2>5. \A q \in IdJob, m \in 0..MaxId : With(q, m) \in Job /\ With(q, m).at = "counted" /\ With(q, m).id = m
    BY DEF Job, IdJob
  <2>6. work' = [work EXCEPT ![w] = j]
    BY <1>1, <2>2, <2>3, <2>4 DEF IdJob
  <2> HIDE DEF With
  <2>7. j \in Job /\ j.at = "counted" /\ j.id = n
    BY <2>2, <2>4, <2>5
  <2> HIDE DEF j
  <2>8. work'[w] = j
    BY <1>1, <2>6
  <2>9. n # 0 /\ n - 1 = work[w].id /\ Above(n - 1) /\ Above(n)
    BY <1>2, <2>1, <2>2 DEF Above, Ids
  <2>10. JobFits(w)'
    BY <2>3, <2>7, <2>8, <2>9 DEF JobFits, Above
  <2>11. CounterIsAhead'
    BY <2>3, <2>9 DEF CounterIsAhead, Above
  <2>12. Counting(j) /\ Counting(work[w]) /\ counterLock' = {w} /\ counterLock \subseteq {w}
    BY <1>3, <2>1, <2>3, <2>7 DEF Counting, OneCounts
  <2>13. counter' \in 0..MaxId /\ counterLock' \subseteq Saver /\ given' \in [Ids -> {0, 1}]
    BY <1>1, <2>2, <2>3
  <2>14. StoreInv'
    BY <2>3, <2>6, <2>7, <2>10, <2>11, <2>12, <2>13, CountGoesOn
  <2> QED
    BY <2>3, <2>14
<1>7. CASE Store!ReturnId(w)
  <2>1. work[w].at = "counted" /\ work[w].id \in 0..MaxId /\ work[w].id # 0
    BY <1>1, <1>7, JobKinds DEF Store!ReturnId, JobFits
  <2>2. PICK n \in 1..MaxId : n = work[w].id
    BY <1>2, <2>1
  <2>3. Above(n - 1) /\ counter = n
    BY <1>1, <2>1, <2>2 DEF JobFits
  <2>4. n \in Ids /\ given[n] = 0
    BY <1>1, <2>3 DEF Above, Ids
  <2>5. /\ counterLock' = counterLock \ {w} /\ given' = [given EXCEPT ![n] = given[n] + 1]
        /\ work' = [work EXCEPT ![w] = Store!Resting]
        /\ UNCHANGED <<counter, sessionLock, file, temp, saves>>
    BY <1>7, <2>2 DEF Store!ReturnId
  <2>6. given' = [given EXCEPT ![n] = 1]
    BY <2>4, <2>5
  <2>7. given' \in [Ids -> {0, 1}] /\ \A i \in Ids : given[i] = 1 => given'[i] = 1
    BY <1>1, <2>6
  <2>8. Store!Resting \in Job /\ Store!Resting.at = "idle"
    BY DEF Store!Resting, Job, NoJob
  <2>9. work'[w] = Store!Resting
    BY <1>1, <2>5
  <2>10. JobFits(w)'
    BY <2>8, <2>9 DEF JobFits
  <2>11. \A i \in Ids : given'[i] = 1 => i <= n
    BY <1>1, <2>3, <2>4, <2>6 DEF Above, Ids
  <2>12. CounterIsAhead'
    BY <2>2, <2>3, <2>5, <2>11 DEF CounterIsAhead, Above
  <2>13. ~Counting(Store!Resting) /\ Counting(work[w])
    BY <2>1, <2>8 DEF Counting
  <2>14. counter' \in 0..MaxId /\ counterLock' \subseteq Saver
    BY <1>1, <2>5
  <2>15. StoreInv'
    BY <2>5, <2>7, <2>8, <2>10, <2>12, <2>13, <2>14, CountGoesOn
  <2> QED
    BY <2>4, <2>5, <2>6, <2>15
<1> QED
  BY <1>4, <1>5, <1>6, <1>7 DEF Store!NewId

\* Under the id of a save stands the conversation of that save, or the one
\* before, whole.
LEMMA SavingGoesOn ==
  ASSUME StoreConstants, StoreInv, NEW w \in Saver, Store!Saving(w)
  PROVE  /\ StoreInv' /\ given' = given
         /\ file' # file => \E i \in Ids, v \in Saves :
              given[i] = 1 /\ file' = [file EXCEPT ![i] = [head |-> v, tail |-> v]]
<1>1. /\ work \in [Saver -> Job] /\ work[w] \in Job /\ JobFits(w) /\ FilesAreWhole
      /\ temp \in [Saver \X Ids -> File] /\ file \in [Ids -> File]
      /\ sessionLock \in [Ids -> Saver \cup {None}] /\ saves \in 0..MaxSaves
  BY DEF StoreInv, StoreTyped
<1>2. work[w].at \in {"lock", "open", "half", "full", "unlock"} /\ UNCHANGED <<counter, counterLock, saves, given>>
  BY DEF Store!Saving, Store!LockSession, Store!WriteHead, Store!WriteTail, Store!Replace, Store!WriteFails,
         Store!Unlock, Store!Moves, Store!locks
<1>3. work[w] \in SaveJob /\ work[w].id \in Ids /\ work[w].version \in Saves /\ given[work[w].id] = 1
  BY <1>1, <1>2, JobKinds DEF JobFits
<1>4. PICK i \in Ids, v \in Saves : i = work[w].id /\ v = work[w].version
  BY <1>3
<1>5. Store!Absent \in File /\ [head |-> v, tail |-> None] \in File /\ [head |-> v, tail |-> v] \in File
  BY DEF Store!Absent, File
<1>6. file' = file => file' \in [Ids -> File] /\ FilesAreWhole'
  BY <1>1, <1>2 DEF FilesAreWhole
<1>7. temp' = temp => /\ temp' \in [Saver \X Ids -> File]
                      /\ \A x \in Saver \ {w} : \A k \in Ids : temp'[<<x, k>>] = temp[<<x, k>>]
  BY <1>1
<1>8. ASSUME NEW r \in File, temp' = [temp EXCEPT ![<<w, i>>] = r]
      PROVE  /\ temp' \in [Saver \X Ids -> File] /\ temp'[<<w, i>>] = r
             /\ \A x \in Saver \ {w} : \A k \in Ids : temp'[<<x, k>>] = temp[<<x, k>>]
  BY <1>1, <1>8
<1>9. sessionLock' = sessionLock => sessionLock' \in [Ids -> Saver \cup {None}]
  BY <1>1
<1>10. saves' \in 0..MaxSaves
  BY <1>1, <1>2
<1>11. ASSUME NEW to \in {"open", "half", "full", "unlock"}, work' = [work EXCEPT ![w].at = to]
       PROVE  \E j \in Job : /\ work' = [work EXCEPT ![w] = j] /\ ~Counting(j) /\ work'[w] = j
                             /\ j.at = to /\ j.id = i /\ j.version = v
  <2> DEFINE j == [work[w] EXCEPT !.at = to]
  <2>1. j \in Job /\ j.at = to /\ j.id = i /\ j.version = v
    <3>1. to \in {"count", "open", "half", "full", "unlock"} /\ to # "count"
      OBVIOUS
    <3> QED
      BY <1>1, <1>3, <1>4, <3>1, JobMoves
  <2>2. work' = [work EXCEPT ![w] = j]
    BY <1>11
  <2> HIDE DEF j
  <2>3. work'[w] = j /\ ~Counting(j)
    BY <1>1, <2>1, <2>2 DEF Counting
  <2> QED
    BY <2>1, <2>2, <2>3
<1>12. CASE Store!LockSession(w)
  <2>1. work' = [work EXCEPT ![w].at = "open"] /\ UNCHANGED <<file, temp>>
    BY <1>12 DEF Store!LockSession, Store!Moves
  <2>2. sessionLock' \in [Ids -> Saver \cup {None}]
    BY <1>1, <1>12 DEF Store!LockSession
  <2>3. PICK j \in Job : /\ work' = [work EXCEPT ![w] = j] /\ ~Counting(j) /\ work'[w] = j
                         /\ j.at = "open" /\ j.id = i /\ j.version = v
    BY <1>11, <2>1
  <2>4. JobFits(w)'
    BY <1>2, <1>3, <1>4, <2>3 DEF JobFits
  <2>5. StoreInv'
    BY <1>2, <1>6, <1>7, <1>10, <2>1, <2>2, <2>3, <2>4, SaveGoesOn
  <2> QED
    BY <1>2, <2>1, <2>5
<1>13. CASE Store!WriteHead(w)
  <2>1. /\ work' = [work EXCEPT ![w].at = "half"] /\ UNCHANGED <<file, sessionLock>>
        /\ temp' = [temp EXCEPT ![<<w, i>>] = [head |-> v, tail |-> None]]
    BY <1>4, <1>13 DEF Store!WriteHead, Store!Moves, Store!TempName, Store!locks
  <2>2. PICK j \in Job : /\ work' = [work EXCEPT ![w] = j] /\ ~Counting(j) /\ work'[w] = j
                         /\ j.at = "half" /\ j.id = i /\ j.version = v
    BY <1>11, <2>1
  <2>3. /\ temp' \in [Saver \X Ids -> File] /\ temp'[<<w, i>>] = [head |-> v, tail |-> None]
        /\ \A x \in Saver \ {w} : \A k \in Ids : temp'[<<x, k>>] = temp[<<x, k>>]
    BY <1>5, <1>8, <2>1
  <2>4. JobFits(w)'
    BY <1>2, <1>3, <1>4, <2>2, <2>3 DEF JobFits
  <2>5. StoreInv'
    BY <1>2, <1>6, <1>9, <1>10, <2>1, <2>2, <2>3, <2>4, SaveGoesOn
  <2> QED
    BY <1>2, <2>1, <2>5
<1>14. CASE Store!WriteTail(w)
  <2>1. /\ work[w].at = "half" /\ work' = [work EXCEPT ![w].at = "full"] /\ UNCHANGED <<file, sessionLock>>
        /\ temp' = [temp EXCEPT ![<<w, i>>].tail = v]
    BY <1>4, <1>14 DEF Store!WriteTail, Store!Moves, Store!TempName, Store!locks
  <2>2. temp[<<w, i>>] = [head |-> v, tail |-> None]
    BY <1>1, <1>4, <2>1 DEF JobFits
  <2>3. temp' = [temp EXCEPT ![<<w, i>>] = [head |-> v, tail |-> v]]
    <3>1. temp' = [temp EXCEPT ![<<w, i>>] = [temp[<<w, i>>] EXCEPT !.tail = v]]
      BY <2>1
    <3>2. [temp[<<w, i>>] EXCEPT !.tail = v] = [head |-> v, tail |-> v]
      BY <2>2
    <3> QED
      BY <3>1, <3>2
  <2>4. PICK j \in Job : /\ work' = [work EXCEPT ![w] = j] /\ ~Counting(j) /\ work'[w] = j
                         /\ j.at = "full" /\ j.id = i /\ j.version = v
    BY <1>11, <2>1
  <2>5. /\ temp' \in [Saver \X Ids -> File] /\ temp'[<<w, i>>] = [head |-> v, tail |-> v]
        /\ \A x \in Saver \ {w} : \A k \in Ids : temp'[<<x, k>>] = temp[<<x, k>>]
    BY <1>5, <1>8, <2>3
  <2>6. JobFits(w)'
    BY <1>2, <1>3, <1>4, <2>4, <2>5 DEF JobFits
  <2>7. StoreInv'
    BY <1>2, <1>6, <1>9, <1>10, <2>1, <2>4, <2>5, <2>6, SaveGoesOn
  <2> QED
    BY <1>2, <2>1, <2>7
<1>15. CASE Store!Replace(w)
  <2>1. /\ work[w].at = "full" /\ work' = [work EXCEPT ![w].at = "unlock"] /\ UNCHANGED sessionLock
        /\ file' = [file EXCEPT ![i] = temp[<<w, i>>]]
        /\ temp' = [temp EXCEPT ![<<w, i>>] = Store!Absent]
    BY <1>4, <1>15 DEF Store!Replace, Store!Moves, Store!TempName, Store!locks
  <2>2. temp[<<w, i>>] = [head |-> v, tail |-> v]
    BY <1>1, <1>4, <2>1 DEF JobFits
  <2>3. file' = [file EXCEPT ![i] = [head |-> v, tail |-> v]]
    BY <2>1, <2>2
  <2>4. [head |-> v, tail |-> v] # Store!Absent
    BY DEF StoreConstants, Store!Absent, Saves
  <2>5. file' \in [Ids -> File] /\ \A k \in Ids : file[k] # Store!Absent => file'[k] # Store!Absent
    BY <1>1, <1>5, <2>3, <2>4
  <2>6. FilesAreWhole'
    BY <1>1, <1>2, <1>3, <1>4, <2>3 DEF FilesAreWhole
  <2>7. PICK j \in Job : /\ work' = [work EXCEPT ![w] = j] /\ ~Counting(j) /\ work'[w] = j
                         /\ j.at = "unlock" /\ j.id = i /\ j.version = v
    BY <1>11, <2>1
  <2>8. /\ temp' \in [Saver \X Ids -> File]
        /\ \A x \in Saver \ {w} : \A k \in Ids : temp'[<<x, k>>] = temp[<<x, k>>]
    BY <1>5, <1>8, <2>1
  <2>9. JobFits(w)'
    BY <1>2, <1>3, <1>4, <2>7 DEF JobFits
  <2>10. StoreInv'
    BY <1>2, <1>9, <1>10, <2>1, <2>5, <2>6, <2>7, <2>8, <2>9, SaveGoesOn
  <2> QED
    BY <1>2, <1>3, <1>4, <2>3, <2>10
<1>16. CASE Store!WriteFails(w)
  <2>1. /\ work' = [work EXCEPT ![w].at = "unlock"] /\ UNCHANGED <<file, sessionLock>>
        /\ temp' = [temp EXCEPT ![<<w, i>>] = Store!Absent]
    BY <1>4, <1>16 DEF Store!WriteFails, Store!TempName, Store!locks
  <2>2. PICK j \in Job : /\ work' = [work EXCEPT ![w] = j] /\ ~Counting(j) /\ work'[w] = j
                         /\ j.at = "unlock" /\ j.id = i /\ j.version = v
    BY <1>11, <2>1
  <2>3. /\ temp' \in [Saver \X Ids -> File]
        /\ \A x \in Saver \ {w} : \A k \in Ids : temp'[<<x, k>>] = temp[<<x, k>>]
    BY <1>5, <1>8, <2>1
  <2>4. JobFits(w)'
    BY <1>2, <1>3, <1>4, <2>2 DEF JobFits
  <2>5. StoreInv'
    BY <1>2, <1>6, <1>9, <1>10, <2>1, <2>2, <2>3, <2>4, SaveGoesOn
  <2> QED
    BY <1>2, <2>1, <2>5
<1>17. CASE Store!Unlock(w)
  <2>1. work' = [work EXCEPT ![w] = Store!Resting] /\ UNCHANGED <<file, temp>>
    BY <1>17 DEF Store!Unlock
  <2>2. sessionLock' \in [Ids -> Saver \cup {None}]
    BY <1>1, <1>17 DEF Store!Unlock
  <2>3. Store!Resting \in Job /\ Store!Resting.at = "idle"
    BY DEF Store!Resting, Job, NoJob
  <2>4. work'[w] = Store!Resting /\ ~Counting(Store!Resting)
    BY <1>1, <2>1, <2>3 DEF Counting
  <2>5. JobFits(w)'
    BY <2>3, <2>4 DEF JobFits
  <2>6. StoreInv'
    BY <1>2, <1>6, <1>7, <1>10, <2>1, <2>2, <2>3, <2>4, <2>5, SaveGoesOn
  <2> QED
    BY <1>2, <2>1, <2>6
<1> QED
  BY <1>12, <1>13, <1>14, <1>15, <1>16, <1>17 DEF Store!Saving

LEMMA SaveBegins ==
  ASSUME StoreConstants, StoreInv, NEW w \in Saver, NEW i \in Ids, Store!BeginSave(w, i)
  PROVE  StoreInv'
<1>1. /\ work \in [Saver -> Job] /\ FilesAreWhole /\ given \in [Ids -> {0, 1}]
      /\ temp \in [Saver \X Ids -> File] /\ file \in [Ids -> File]
      /\ sessionLock \in [Ids -> Saver \cup {None}] /\ saves \in 0..MaxSaves
  BY DEF StoreInv, StoreTyped
<1>2. given[i] > 0 /\ saves < MaxSaves /\ saves' = saves + 1
      /\ UNCHANGED <<counter, counterLock, sessionLock, file, temp, given>>
  BY DEF Store!BeginSave, Store!locks
<1>3. saves' \in Saves /\ given[i] = 1
  BY <1>1, <1>2 DEF StoreConstants, Saves
<1> DEFINE j == [at |-> "lock", id |-> i, version |-> saves']
<1>4. j \in Job /\ j.at = "lock" /\ j.id = i
  BY <1>3 DEF Job, SaveJob
<1>5. work' = [work EXCEPT ![w] = j]
  BY <1>2 DEF Store!BeginSave
<1> HIDE DEF j
<1>6. work'[w] = j /\ ~Counting(j)
  BY <1>1, <1>4, <1>5 DEF Counting
<1>7. JobFits(w)'
  BY <1>2, <1>3, <1>4, <1>6 DEF JobFits
<1>8. FilesAreWhole'
  BY <1>1, <1>2 DEF FilesAreWhole
<1> QED
  BY <1>1, <1>2, <1>3, <1>4, <1>5, <1>6, <1>7, <1>8, SaveGoesOn DEF Saves

LEMMA ProcessDies ==
  ASSUME StoreConstants, StoreInv, NEW p \in Proc, Store!Crash(p)
  PROVE  StoreInv' /\ UNCHANGED <<file, given>>
<1>1. /\ work \in [Saver -> Job] /\ FilesAreWhole /\ temp \in [Saver \X Ids -> File]
      /\ sessionLock \in [Ids -> Saver \cup {None}]
  BY DEF StoreInv, StoreTyped
<1>2. PICK dead \in SUBSET Saver :
        /\ work' = [w \in Saver |-> IF w \in dead THEN Store!Resting ELSE work[w]]
        /\ counterLock' = counterLock \ dead
        /\ sessionLock' = [i \in Ids |-> IF sessionLock[i] \in dead THEN None ELSE sessionLock[i]]
        /\ temp' = [x \in Saver \X Ids |-> IF x[1] \in dead THEN Store!Absent ELSE temp[x]]
  BY DEF Store!Crash, Store!Id, Store!Name, Ids
<1>3. UNCHANGED <<counter, file, saves, given>>
  BY DEF Store!Crash
<1>4. Store!Resting \in Job /\ Store!Resting.at = "idle" /\ Store!Absent \in File
  BY DEF Store!Resting, Store!Absent, Job, NoJob, File
<1>5. /\ work' \in [Saver -> Job]
      /\ \A w \in dead : work'[w] = Store!Resting
      /\ \A w \in Saver \ dead : work'[w] = work[w]
  BY <1>1, <1>2, <1>4
<1>6. /\ temp' \in [Saver \X Ids -> File]
      /\ \A w \in Saver \ dead : \A i \in Ids : temp'[<<w, i>>] = temp[<<w, i>>]
  BY <1>1, <1>2, <1>4
<1>7. sessionLock' \in [Ids -> Saver \cup {None}]
  BY <1>1, <1>2
<1>8. StoreTyped'
  BY <1>2, <1>3, <1>5, <1>6, <1>7 DEF StoreInv, StoreTyped
<1>9. OneCounts'
  BY <1>2, <1>4, <1>5 DEF StoreInv, OneCounts, Counting
<1>10. FilesAreWhole' /\ CounterIsAhead'
  BY <1>3 DEF StoreInv, FilesAreWhole, CounterIsAhead, Above
<1>11. ASSUME NEW w \in Saver PROVE JobFits(w)'
  <2>1. CASE w \in dead
    BY <1>4, <1>5, <2>1 DEF JobFits
  <2>2. CASE w \notin dead
    <3>1. JobFits(w) /\ work'[w] = work[w] /\ work[w] \in Job
      BY <1>1, <1>5, <2>2 DEF StoreInv
    <3>2. work[w].at \in {"lock", "open", "half", "full", "unlock"} => work[w].id \in Ids
      BY <3>1, JobKinds
    <3> QED
      BY <1>3, <1>6, <2>2, <3>1, <3>2 DEF JobFits, Above
  <2> QED
    BY <2>1, <2>2
<1> QED
  BY <1>3, <1>8, <1>9, <1>10, <1>11 DEF StoreInv

LEMMA StoreGoesOn ==
  ASSUME StoreConstants, StoreInv, [Store!Next]_(Store!vars)
  PROVE  /\ StoreInv'
         /\ \/ UNCHANGED <<file, given>>
            \/ file' = file /\ \E i \in Ids : given[i] = 0 /\ given' = [given EXCEPT ![i] = 1]
            \/ given' = given /\ \E i \in Ids, v \in Saves :
                 given[i] = 1 /\ file' = [file EXCEPT ![i] = [head |-> v, tail |-> v]]
<1>1. CASE \E w \in Saver : Store!NewId(w)
  <2>1. PICK w \in Saver : Store!NewId(w)
    BY <1>1
  <2>2. /\ StoreInv' /\ file' = file
        /\ given' # given => \E i \in Ids : given[i] = 0 /\ given' = [given EXCEPT ![i] = 1]
    BY <2>1, NewIdGoesOn
  <2> QED
    BY <2>2, Zenon
<1>2. CASE \E w \in Saver : Store!Saving(w)
  BY <1>2, SavingGoesOn
<1>3. CASE \E w \in Saver, i \in Ids : Store!BeginSave(w, i)
  <2>1. UNCHANGED <<file, given>>
    BY <1>3 DEF Store!BeginSave
  <2> QED
    BY <1>3, <2>1, SaveBegins
<1>4. CASE \E p \in Proc : Store!Crash(p)
  BY <1>4, ProcessDies
<1>5. CASE UNCHANGED Store!vars
  <2>1. UNCHANGED <<counter, counterLock, sessionLock, file, temp, work, saves, given>>
    BY <1>5 DEF Store!vars, Store!locks
  <2>2. StoreTyped' /\ OneCounts' /\ FilesAreWhole' /\ CounterIsAhead'
    BY <2>1 DEF StoreInv, StoreTyped, OneCounts, FilesAreWhole, CounterIsAhead, Above
  <2>3. \A w \in Saver : JobFits(w)'
    BY <2>1 DEF StoreInv, JobFits, Above
  <2> QED
    BY <2>1, <2>2, <2>3 DEF StoreInv
<1> QED
  BY <1>1, <1>2, <1>3, <1>4, <1>5 DEF Store!Next, Store!Id, Ids

LEMMA StoreInvHolds == StoreConstants => (Store!Spec => []StoreInv)
<1> SUFFICES ASSUME StoreConstants PROVE Store!Spec => []StoreInv
  OBVIOUS
<1>1. ASSUME StoreInv, [Store!Next]_(Store!vars) PROVE StoreInv'
  BY <1>1, StoreGoesOn
<1> QED
  BY <1>1, StoreInitial, PTL DEF Store!Spec

\* The store is the archive: nobody is given an id that somebody has, also not
\* by a process that dies with the counter half-way, and under an id stands
\* one whole conversation that was saved, whatever threads and processes
\* write it at once (SessionStore in sessions.py, with flock).
THEOREM StoreIsAnArchive == StoreConstants => (Store!Spec => ImplementsArchive)
<1> SUFFICES ASSUME StoreConstants PROVE Store!Spec => ImplementsArchive
  OBVIOUS
<1> DEFINE stored == [i \in Ids |-> Store!Conversation(file[i])]
<1>1. \A v \in Saves : Store!Conversation([head |-> v, tail |-> v]) = v
  BY DEF Store!Conversation
<1>2. StoreInv => \A i \in Ids : Store!Conversation(file[i]) \in Saves \cup {None}
                                 /\ (Store!Conversation(file[i]) # None => given[i] = 1)
  BY DEF StoreInv, StoreTyped, FilesAreWhole, File, Store!Conversation, Store!Absent
<1>3. Store!Init /\ StoreInv => Store!Archive!Init
  BY <1>2 DEF Store!Archive!Init, StoreInv, StoreTyped, Store!Id, Store!Version, Ids, Saves
<1>4. ASSUME StoreInv, [Store!Next]_(Store!vars) PROVE [Store!Archive!Next]_(Store!Archive!vars)
  <2>1. CASE UNCHANGED <<file, given>>
    BY <2>1 DEF Store!Archive!vars
  <2>2. CASE file' = file /\ \E i \in Ids : given[i] = 0 /\ given' = [given EXCEPT ![i] = 1]
    BY <2>2 DEF Store!Archive!Next, Store!Archive!Allocate, Store!Id, Ids
  <2>3. CASE given' = given /\ \E i \in Ids, v \in Saves :
               given[i] = 1 /\ file' = [file EXCEPT ![i] = [head |-> v, tail |-> v]]
    <3>1. PICK i \in Ids, v \in Saves : given[i] = 1 /\ file' = [file EXCEPT ![i] = [head |-> v, tail |-> v]]
      BY <2>3
    <3>2. file \in [Ids -> File]
      BY <1>4 DEF StoreInv, StoreTyped
    <3>3. \A k \in Ids : file'[k] = IF k = i THEN [head |-> v, tail |-> v] ELSE file[k]
      BY <3>1, <3>2
    <3>4. \A k \in Ids : Store!Conversation(file'[k]) = IF k = i THEN v ELSE Store!Conversation(file[k])
      BY <1>1, <3>3
    <3>5. [k \in Ids |-> Store!Conversation(file'[k])]
            = [[k \in Ids |-> Store!Conversation(file[k])] EXCEPT ![i] = v]
      BY <3>4
    <3> QED
      BY <2>3, <3>1, <3>5 DEF Store!Archive!Next, Store!Archive!Save, Store!Id, Store!Version, Ids, Saves
  <2> QED
    BY <1>4, <2>1, <2>2, <2>3, StoreGoesOn
<1> QED
  BY <1>3, <1>4, StoreInvHolds, PTL DEF Store!Spec, ImplementsArchive, Store!ImplementsArchive, Store!Archive!Spec

-----------------------------------------------------------------------------
(***************************************************************************)
(* The composition: a step of one part leaves the others alone.            *)
(***************************************************************************)
LEMMA EveryJobRuns ==
  AllSpec => Spec /\ Store!Spec /\ Live!Spec /\ Update!Spec
<1>1. AllInit => Init /\ Store!Init /\ Live!Init /\ Update!Init
  BY DEF AllInit
<1> DEFINE AllNext == SwarmStep \/ StoreStep \/ LiveStep \/ UpdateStep
<1>2. [AllNext]_all => [Next]_vars
  BY DEF all, swarm, SwarmStep, StoreStep, LiveStep, UpdateStep, vars, progress, team, account
<1>3. [AllNext]_all => [Store!Next]_(Store!vars)
  BY DEF all, store, SwarmStep, StoreStep, LiveStep, UpdateStep, Store!vars, Store!locks
<1>4. [AllNext]_all => [Live!Next]_(Live!vars)
  BY DEF all, live, SwarmStep, StoreStep, LiveStep, UpdateStep, Live!vars
<1>5. [AllNext]_all => [Update!Next]_(Update!vars)
  BY DEF all, updates, SwarmStep, StoreStep, LiveStep, UpdateStep, Update!vars
<1> QED
  BY <1>1, <1>2, <1>3, <1>4, <1>5, PTL DEF AllSpec, Spec, Store!Spec, Live!Spec, Update!Spec

\* Every part keeps its types, and with them its bounds: the swarm's stall
\* stays within its limit and its developers' tasks within three for each.
THEOREM BackgroundIsTyped ==
  StoreConstants /\ LiveConstants /\ UpdateConstants => (AllSpec => []TypesOK)
<1> SUFFICES ASSUME StoreConstants, LiveConstants, UpdateConstants PROVE AllSpec => []TypesOK
  OBVIOUS
<1> DEFINE Parts == {"swarm", "store", "live", "updates"}
<1>1. AllSpec => [](part \in Parts)
  <2>1. AllInit => part \in Parts
    BY DEF AllInit
  <2>2. part \in Parts /\ [SwarmStep \/ StoreStep \/ LiveStep \/ UpdateStep]_all => (part \in Parts)'
    BY DEF all, SwarmStep, StoreStep, LiveStep, UpdateStep
  <2> QED
    BY <2>1, <2>2, PTL DEF AllSpec
<1>2. part \in Parts /\ SwarmInv /\ StoreInv /\ LiveInv /\ UpdateInv => TypesOK
  BY StoreIsTyped DEF TypesOK, SwarmInv, StoreInv, LiveInv, UpdateInv
<1> QED
  BY <1>1, <1>2, EveryJobRuns, SwarmInvHolds, StoreInvHolds, LiveInvHolds, UpdateInvHolds, PTL

\* What is proved of each part holds when they are run beside one another.
COROLLARY BackgroundIsRight ==
  StoreConstants /\ UpdateConstants =>
    (AllSpec => []SwarmIsAccounted /\ ImplementsArchive /\ UpdatedCodeImports)
BY EveryJobRuns, SwarmAccountsForAll, StoreIsAnArchive, UpdatesTellTheTruth
=============================================================================
