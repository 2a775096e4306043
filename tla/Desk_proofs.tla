----------------------------- MODULE Desk_proofs -----------------------------
(***************************************************************************)
(* What is proved about the parts that meet in MCDesk, for every number of *)
(* agents, files, turns, writes, tabs, projects and sessions.              *)
(***************************************************************************)
EXTENDS Talk_proofs, WellFoundedInduction

-----------------------------------------------------------------------------
(***************************************************************************)
(* FileEdits: reverts.                                                     *)
(***************************************************************************)
Writing == {"touched", "fresh", "allowed", "based"}

TypeInv ==
  /\ TypeOK
  /\ turns \in [Agent -> Nat]
  /\ \A a \in Agent : call[a].at \in Writing => call[a].file \in File
  /\ \A a \in Agent : undo[a].at = "restoring" => undo[a].of \in Generation

LEMMA GenerationsFit ==
  ASSUME NEW a \in Agent, NEW n \in 1..MaxGen[a]
  PROVE  n \in Generation /\ n \in Nat
BY EditsAssumption DEF Generation

LEMMA GenerationIsNat == Generation \subseteq Nat \ {0}
BY EditsAssumption DEF Generation

LEMMA InitTyped == Init => TypeInv
<1> SUFFICES ASSUME Init PROVE TypeInv
  OBVIOUS
<1>1. turns \in [Agent -> Nat] /\ \A a \in Agent : turns[a] \in 0..MaxGen[a]
  BY EditsAssumption DEF Init
<1>2. call \in [Agent -> Call] /\ \A a \in Agent : call[a].at \notin Writing
  BY DEF Init, Call, NoCall, Writing
<1>3. undo \in [Agent -> Undo] /\ \A a \in Agent : undo[a].at # "restoring"
  BY DEF Init, Undo, NoUndo
<1>4. disk \in [File -> Content] /\ written \in Content
  <2>1. MaxContent \in Nat \ {0}
    BY EditsAssumption
  <2>2. 0 \in Content /\ 1 \in Content
    BY <2>1 DEF Content
  <2>3. disk \in [File -> {0, 1}] /\ written = 1
    BY DEF Init, Missing
  <2> QED
    BY <2>2, <2>3
<1>5. before \in [Agent -> [Generation -> [File -> Content \cup {None}]]]
  BY <1>4 DEF Init
<1> QED
  BY <1>1, <1>2, <1>3, <1>4, <1>5 DEF Init, TypeInv, TypeOK

LEMMA CallMoves ==
  ASSUME TypeInv, NEW a \in Agent, NEW x \in {"idle", "turn", "landed"}, Goes(a, x)
  PROVE  /\ call' \in [Agent -> Call]
         /\ \A b \in Agent : call'[b].at \in Writing => call'[b].file \in File
<1>1. PICK c : c = [call[a] EXCEPT !.at = x]
  OBVIOUS
<1>2. call[a] \in Call
  BY DEF TypeInv, TypeOK
<1>3. c \in Call /\ c.at \notin Writing
  BY <1>1, <1>2 DEF Call, Writing
<1>4. call' = [call EXCEPT ![a] = c]
  BY <1>1 DEF Goes
<1> QED
  BY <1>3, <1>4 DEF TypeInv, TypeOK

LEMMA NextTyped == TypeInv /\ Next => TypeInv'
<1> SUFFICES ASSUME TypeInv, Next PROVE TypeInv'
  OBVIOUS
<1>0. gui' = gui
  BY DEF Next
<1>1. ASSUME NEW a \in Agent, BeginTurn(a) PROVE TypeInv'
  <2>1. turns[a] + 1 \in 1..MaxGen[a] /\ turns[a] + 1 \in Generation
    <3>1. turns[a] \in Nat /\ MaxGen[a] \in Nat /\ turns[a] < MaxGen[a]
      BY <1>1, EditsAssumption DEF BeginTurn, TypeInv
    <3>2. turns[a] + 1 \in 1..MaxGen[a]
      BY <3>1
    <3> QED
      BY <3>2, GenerationsFit
  <2>2. turns' \in [Agent -> Nat] /\ \A b \in Agent : turns'[b] \in 0..MaxGen[b]
    BY <1>1, <2>1, EditsAssumption DEF BeginTurn, TypeInv, TypeOK
  <2>3. generations' \in [Agent -> Seq(Generation)]
    BY <1>1, <2>1 DEF BeginTurn, TypeInv, TypeOK
  <2>4. current' \in [Agent -> Generation \cup {None}]
    BY <1>1, <2>1 DEF BeginTurn, TypeInv, TypeOK
  <2>5. before' \in [Agent -> [Generation -> [File -> Content \cup {None}]]]
    BY <1>1, <2>1 DEF BeginTurn, TypeInv, TypeOK
  <2>6. call' \in [Agent -> Call] /\ \A b \in Agent : call'[b].at \in Writing => call'[b].file \in File
    BY <1>1, CallMoves DEF BeginTurn
  <2> QED
    BY <1>0, <1>1, <2>2, <2>3, <2>4, <2>5, <2>6 DEF BeginTurn, TypeInv, TypeOK
<1>2. ASSUME NEW a \in Agent, EndTurn(a) PROVE TypeInv'
  <2>1. call' \in [Agent -> Call] /\ \A b \in Agent : call'[b].at \in Writing => call'[b].file \in File
    BY <1>2, CallMoves DEF EndTurn
  <2> QED
    BY <1>0, <1>2, <2>1 DEF EndTurn, checkpoints, TypeInv, TypeOK
<1>3. ASSUME NEW a \in Agent, NEW f \in File, Read(a, f) PROVE TypeInv'
  <2>1. known' \in [Agent -> [File -> Content \cup {None}]]
    BY <1>3 DEF Read, TypeInv, TypeOK
  <2> QED
    BY <1>0, <1>3, <2>1 DEF Read, checkpoints, TypeInv, TypeOK
<1>4. ASSUME NEW a \in Agent, NEW f \in File, NEW t \in {"write", "edit"}, Touch(a, f, t) PROVE TypeInv'
  <2>1. call' \in [Agent -> Call] /\ \A b \in Agent : call'[b].at \in Writing => call'[b].file \in File
    <3>1. [NoCall EXCEPT !.at = "touched", !.file = f, !.tool = t] \in Call
      BY DEF NoCall, Call
    <3>2. [NoCall EXCEPT !.at = "touched", !.file = f, !.tool = t].file = f
      BY DEF NoCall
    <3> QED
      BY <1>4, <3>1, <3>2 DEF Touch, TypeInv, TypeOK
  <2>2. snapshots' \in [Agent -> [Generation -> Seq(Snapshot)]]
    <3>1. current[a] \in Generation
      BY <1>4 DEF Touch, TypeInv, TypeOK
    <3>2. [path |-> f, content |-> disk[f]] \in Snapshot
      BY DEF Snapshot, TypeInv, TypeOK
    <3> QED
      BY <1>4, <3>1, <3>2 DEF Touch, TypeInv, TypeOK
  <2> QED
    BY <1>0, <1>4, <2>1, <2>2 DEF Touch, TypeInv, TypeOK
<1>5. ASSUME NEW a \in Agent, NEW f \in File, NEW t \in {"write", "edit"}, TouchAnew(a, f, t) PROVE TypeInv'
  <2>1. call' \in [Agent -> Call] /\ \A b \in Agent : call'[b].at \in Writing => call'[b].file \in File
    <3>1. [NoCall EXCEPT !.at = "touched", !.file = f, !.tool = t] \in Call
      BY DEF NoCall, Call
    <3>2. [NoCall EXCEPT !.at = "touched", !.file = f, !.tool = t].file = f
      BY DEF NoCall
    <3> QED
      BY <1>5, <3>1, <3>2 DEF TouchAnew, TypeInv, TypeOK
  <2>2. turns[a] + 1 \in 1..MaxGen[a] /\ turns[a] + 1 \in Generation
    <3>1. turns[a] \in Nat /\ MaxGen[a] \in Nat /\ turns[a] < MaxGen[a]
      BY <1>5, EditsAssumption DEF TouchAnew, TypeInv
    <3>2. turns[a] + 1 \in 1..MaxGen[a]
      BY <3>1
    <3> QED
      BY <3>2, GenerationsFit
  <2>3. turns' \in [Agent -> Nat] /\ \A b \in Agent : turns'[b] \in 0..MaxGen[b]
    BY <1>5, <2>2, EditsAssumption, SMTT(30) DEF TouchAnew, TypeInv, TypeOK
  <2>4. generations' \in [Agent -> Seq(Generation)]
    BY <1>5, <2>2 DEF TouchAnew, TypeInv, TypeOK
  <2>5. current' \in [Agent -> Generation \cup {None}]
    BY <1>5, <2>2 DEF TouchAnew, TypeInv, TypeOK
  <2>6. before' \in [Agent -> [Generation -> [File -> Content \cup {None}]]]
    BY <1>5, <2>2 DEF TouchAnew, TypeInv, TypeOK
  <2>7. snapshots' \in [Agent -> [Generation -> Seq(Snapshot)]]
    <3>1. <<[path |-> f, content |-> disk[f]]>> \in Seq(Snapshot)
      BY DEF Snapshot, TypeInv, TypeOK
    <3> QED
      BY <1>5, <2>2, <3>1 DEF TouchAnew, TypeInv, TypeOK
  <2> QED
    BY <1>0, <1>5, <2>1, <2>3, <2>4, <2>5, <2>6, <2>7 DEF TouchAnew, TypeInv, TypeOK
<1>6. ASSUME NEW a \in Agent, CheckStale(a) \/ CheckLocked(a) \/ Base(a) PROVE TypeInv'
  <2>0. call[a].at \in Writing /\ Target(a) \in File
    BY <1>6 DEF CheckStale, CheckLocked, Base, In, Writing, TypeInv, Target
  <2>1. known[a][Target(a)] \in Content \cup {None} /\ disk[Target(a)] \in Content
    BY <2>0 DEF TypeInv, TypeOK
  <2>2. [NoCall EXCEPT !.at = "turn"] \in Call /\ [NoCall EXCEPT !.at = "turn"].at \notin Writing
    BY DEF NoCall, Call, Writing
  <2>3. PICK c \in Call : /\ call' = [call EXCEPT ![a] = c]
                          /\ c.at \in Writing => c.file \in File
    <3> DEFINE same == call[a]
    <3>1. same \in Call /\ same.file \in File
      BY <2>0 DEF TypeInv, TypeOK, Target
    <3>2. ASSUME NEW x \in {"fresh", "allowed"}
          PROVE  [same EXCEPT !.at = x] \in Call /\ [same EXCEPT !.at = x].file \in File
      BY <3>1 DEF Call
    <3>3. ASSUME NEW c \in Content \cup {None}
          PROVE  /\ [same EXCEPT !.at = "based", !.base = c] \in Call
                 /\ [same EXCEPT !.at = "based", !.base = c].file \in File
      BY <3>1 DEF Call
    <3>4. \/ call' = [call EXCEPT ![a] = [NoCall EXCEPT !.at = "turn"]]
          \/ \E x \in {"fresh", "allowed"} : call' = [call EXCEPT ![a] = [same EXCEPT !.at = x]]
          \/ \E c \in Content \cup {None} : call' = [call EXCEPT ![a] = [same EXCEPT !.at = "based", !.base = c]]
      BY <1>6, <2>1, ZenonT(40) DEF CheckStale, CheckLocked, Base, Goes, Quit, TypeInv, TypeOK
    <3> HIDE DEF same
    <3> QED
      BY <3>2, <3>3, <3>4, <2>2
  <2>4. call' \in [Agent -> Call] /\ \A b \in Agent : call'[b].at \in Writing => call'[b].file \in File
    BY <2>3 DEF TypeInv, TypeOK
  <2> QED
    BY <1>0, <1>6, <2>4 DEF CheckStale, CheckLocked, Base, checkpoints, TypeInv, TypeOK
<1>7. ASSUME NEW a \in Agent, Land(a) PROVE TypeInv'
  <2>0. Target(a) \in File
    BY <1>7 DEF Land, In, Writing, TypeInv, Target
  <2>1. written + 1 \in Content
    BY <1>7, EditsAssumption DEF Land, TypeInv, TypeOK, Content
  <2>2. disk' \in [File -> Content] /\ known' \in [Agent -> [File -> Content \cup {None}]]
    BY <1>7, <2>0, <2>1 DEF Land, TypeInv, TypeOK
  <2>3. wrote' \in [Agent -> [Generation -> SUBSET Content]]
    BY <1>7, <2>1 DEF Land, TypeInv, TypeOK
  <2>4. before' \in [Agent -> [Generation -> [File -> Content \cup {None}]]]
    BY <1>7, <2>0 DEF Land, ChangedBy, TypeInv, TypeOK
  <2>5. call' \in [Agent -> Call] /\ \A b \in Agent : call'[b].at \in Writing => call'[b].file \in File
    BY <1>7, CallMoves DEF Land
  <2> QED
    BY <1>0, <1>7, <2>1, <2>2, <2>3, <2>4, <2>5 DEF Land, checkpoints, TypeInv, TypeOK
<1>8. ASSUME NEW a \in Agent, Refresh(a) PROVE TypeInv'
  <2>1. call' \in [Agent -> Call] /\ \A b \in Agent : call'[b].at \in Writing => call'[b].file \in File
    BY <1>8 DEF Refresh, Quit, NoCall, TypeInv, TypeOK, Call, Writing
  <2> QED
    BY <1>0, <1>8, <2>1 DEF Refresh, checkpoints, TypeInv, TypeOK
<1>9. ASSUME NEW a \in Agent, RevertCheck(a) PROVE TypeInv'
  <2>1. /\ undo' \in [Agent -> Undo]
        /\ \A b \in Agent : undo'[b].at = "restoring" => undo'[b].of \in Generation
    <3>1. PICK u : u = [undo[a] EXCEPT !.at = "checked"]
      OBVIOUS
    <3>2. u \in Undo /\ u.at = "checked"
      BY <3>1, ZenonT(40) DEF TypeInv, TypeOK, Undo
    <3> QED
      BY <1>9, <3>1, <3>2 DEF RevertCheck, TypeInv, TypeOK
  <2> QED
    BY <1>0, <1>9, <2>1 DEF RevertCheck, checkpoints, TypeInv, TypeOK
<1>10. ASSUME NEW a \in Agent, RevertPop(a) PROVE TypeInv'
  <2>1. CASE NonEmpty(a) = {}
    <3>1. NoUndo \in Undo /\ NoUndo.at # "restoring"
      BY DEF NoUndo, Undo
    <3>2. <<>> \in Seq(Generation)
      OBVIOUS
    <3> QED
      BY <1>0, <1>10, <2>1, <3>1, <3>2 DEF RevertPop, TypeInv, TypeOK
  <2>2. CASE NonEmpty(a) # {}
    <3>1. PICK i \in NonEmpty(a) :
            /\ generations' = [generations EXCEPT ![a] = SubSeq(@, 1, i - 1)]
            /\ current' = [current EXCEPT ![a] = IF @ = generations[a][i] THEN None ELSE @]
            /\ undo' = [undo EXCEPT ![a] = [at |-> "restoring", of |-> generations[a][i],
                                            left |-> snapshots[a][generations[a][i]]]]
      BY <1>10, <2>2 DEF RevertPop
    <3>2. i \in 1..Len(generations[a]) /\ generations[a] \in Seq(Generation)
      BY DEF NonEmpty, TypeInv, TypeOK
    <3>3. generations[a][i] \in Generation /\ SubSeq(generations[a], 1, i - 1) \in Seq(Generation)
      BY <3>2
    <3>4. snapshots[a][generations[a][i]] \in Seq(Snapshot)
      BY <3>3 DEF TypeInv, TypeOK
    <3>5. [at |-> "restoring", of |-> generations[a][i], left |-> snapshots[a][generations[a][i]]] \in Undo
      BY <3>3, <3>4 DEF Undo
    <3>6. undo' \in [Agent -> Undo] /\ \A b \in Agent : undo'[b].at = "restoring" => undo'[b].of \in Generation
      BY <3>1, <3>3, <3>5 DEF TypeInv, TypeOK
    <3>7. generations' \in [Agent -> Seq(Generation)] /\ current' \in [Agent -> Generation \cup {None}]
      BY <3>1, <3>3 DEF TypeInv, TypeOK
    <3> QED
      BY <1>0, <1>10, <3>6, <3>7 DEF RevertPop, TypeInv, TypeOK
  <2> QED
    BY <2>1, <2>2
<1>11. ASSUME NEW a \in Agent, Restore(a) PROVE TypeInv'
  <2> DEFINE left == undo[a].left
  <2>1. left \in Seq(Snapshot) /\ left # <<>> /\ undo[a] \in Undo
    BY <1>11 DEF Restore, TypeInv, TypeOK, Undo
  <2>2. left[Len(left)] \in Snapshot /\ SubSeq(left, 1, Len(left) - 1) \in Seq(Snapshot)
    BY <2>1
  <2>3. left[Len(left)].path \in File /\ left[Len(left)].content \in Content
    BY <2>2 DEF Snapshot
  <2>4. disk' \in [File -> Content]
    BY <1>11, <2>3 DEF Restore, TypeInv, TypeOK
  <2>5. before' \in [Agent -> [Generation -> [File -> Content \cup {None}]]]
    BY <1>11, <2>3 DEF Restore, ChangedBy, TypeInv, TypeOK
  <2>6. undo' \in [Agent -> Undo] /\ \A b \in Agent : undo'[b].at = "restoring" => undo'[b].of \in Generation
    <3>1. PICK s \in Seq(Snapshot) : undo' = [undo EXCEPT ![a].left = s]
      BY <1>11, <2>2 DEF Restore
    <3> QED
      BY <3>1, <2>1 DEF TypeInv, TypeOK, Undo
  <2> QED
    BY <1>0, <1>11, <2>4, <2>5, <2>6 DEF Restore, checkpoints, TypeInv, TypeOK
<1>12. ASSUME NEW a \in Agent, RevertDone(a) \/ RestoreFails(a) \/ CloseSession(a) PROVE TypeInv'
  <2>1. undo' \in [Agent -> Undo] /\ \A b \in Agent : undo'[b].at = "restoring" => undo'[b].of \in Generation
    <3>1. NoUndo \in Undo /\ NoUndo.at # "restoring"
      BY DEF NoUndo, Undo
    <3>2. undo' = undo \/ undo' = [undo EXCEPT ![a] = NoUndo]
      BY <1>12 DEF RevertDone, RestoreFails, CloseSession
    <3>3. CASE undo' = undo
      BY <3>3 DEF TypeInv, TypeOK
    <3>4. CASE undo' = [undo EXCEPT ![a] = NoUndo]
      BY <3>1, <3>4 DEF TypeInv, TypeOK
    <3> QED
      BY <3>2, <3>3, <3>4
  <2>2. /\ known' \in [Agent -> [File -> Content \cup {None}]]
        /\ generations' \in [Agent -> Seq(Generation)]
        /\ current' \in [Agent -> Generation \cup {None}]
        /\ lock' \in Agent \cup {None}
        /\ open' \in SUBSET Agent
    <3>1. CASE UNCHANGED <<known, generations, current, lock, open>>
      BY <3>1 DEF TypeInv, TypeOK
    <3>2. CASE Gone(a)
      BY <3>2 DEF Gone, TypeInv, TypeOK
    <3> QED
      BY <1>12, <3>1, <3>2 DEF RevertDone, RestoreFails, CloseSession, checkpoints
  <2>3. UNCHANGED <<disk, written, snapshots, turns, before, wrote, call>>
    BY <1>12 DEF RevertDone, RestoreFails, CloseSession, checkpoints
  <2> QED
    BY <1>0, <2>1, <2>2, <2>3 DEF TypeInv, TypeOK
<1>13. ASSUME NEW a \in Agent, Reopen(a) PROVE TypeInv'
  BY <1>0, <1>13 DEF Reopen, checkpoints, TypeInv, TypeOK
<1>14. ASSUME NEW f \in File, UserEdit(f) PROVE TypeInv'
  <2>1. written + 1 \in Content /\ Missing \in Content
    BY <1>14, EditsAssumption DEF UserEdit, TypeInv, TypeOK, Content, Missing
  <2>2. disk' \in [File -> Content]
    BY <1>14, <2>1 DEF UserEdit, TypeInv, TypeOK
  <2>3. before' \in [Agent -> [Generation -> [File -> Content \cup {None}]]]
    BY <1>14 DEF UserEdit, ChangedBy, TypeInv, TypeOK
  <2> QED
    BY <1>0, <1>14, <2>1, <2>2, <2>3 DEF UserEdit, checkpoints, TypeInv, TypeOK
<1>15. ASSUME GoStale PROVE TypeInv'
  BY <1>0, <1>15 DEF GoStale, checkpoints, TypeInv, TypeOK
<1> QED
  BY <1>1, <1>2, <1>3, <1>4, <1>5, <1>6, <1>7, <1>8, <1>9, <1>10, <1>11, <1>12, <1>13, <1>14, <1>15
  DEF Next, Edits

(***************************************************************************)
(* What the snapshots of a generation, and the rest of a revert, hold.     *)
(***************************************************************************)
Restoring(a) == undo[a].at = "restoring"

Taken(a, g) == {snapshots[a][g][i] : i \in DOMAIN snapshots[a][g]}

Left(a) == {undo[a].left[i] : i \in DOMAIN undo[a].left}

Has(entries, f) == \E e \in entries : e.path = f

\* Generations are numbered as they begin; later numbers are fresh, and a
\* generation that is being restored is no longer written.
NumberedOf(a) ==
  /\ \A i \in DOMAIN generations[a] : generations[a][i] <= turns[a]
  /\ \A i, j \in DOMAIN generations[a] : i < j => generations[a][i] < generations[a][j]
  /\ \A g \in Generation : turns[a] < g => Taken(a, g) = {} /\ wrote[a][g] = {}
  /\ current[a] # None => current[a] <= turns[a]
  /\ \A g \in Generation : Restoring(a) /\ undo[a].of = g
       => g <= turns[a] /\ g # current[a] /\ Left(a) \subseteq Taken(a, g)
  /\ ~Restoring(a) => Left(a) = {}

Numbered == \A a \in Agent : NumberedOf(a)

\* What a turn wrote is new, was written to files it had snapshotted, and is
\* in no snapshot of its own.
OwnWork ==
  /\ \A f \in File : disk[f] <= written
  /\ \A a \in Agent : \A g \in Generation :
       /\ \A c \in wrote[a][g] : 1 <= c /\ c <= written
       /\ \A e \in Taken(a, g) : e.content <= written /\ e.content \notin wrote[a][g]
       /\ \A f \in File : Has(Taken(a, g), f) \/ disk[f] \notin wrote[a][g]
       /\ \A b \in Agent : \A h \in Generation : \A e \in Taken(b, h) :
            Has(Taken(a, g), e.path) \/ e.content \notin wrote[a][g]
  /\ \A a \in Agent :
       call[a].at \in Writing /\ current[a] # None => Has(Taken(a, current[a]), Target(a))

\* The REPL reverts between turns, and a turn works on top of its stack.
OneThreadOf(a) ==
  /\ undo[a] # NoUndo => call[a].at = "idle"
  /\ call[a].at \in Writing => current[a] # None
  /\ \A g \in Generation : current[a] = g =>
       /\ call[a].at # "idle" => generations[a] # <<>> /\ g = generations[a][Len(generations[a])]
       /\ Taken(a, g) # {} => InStack(a, g)

OneThread == ~gui => \A a \in Agent : OneThreadOf(a)

(***************************************************************************)
(* Where what a turn found is kept: in the first snapshot of the file in   *)
(* the stack from that turn on, else in what is left of a revert, else on  *)
(* disk.                                                                   *)
(***************************************************************************)
Depth(a) == Len(generations[a])

Entries(a, i) == Taken(a, generations[a][i])

Found(a, i, f) == before[a][generations[a][i]][f]

\* No generation from position i to position n of the stack has file f.
Clear(a, f, i, n) == \A m \in i..n : ~Has(Entries(a, m), f)

Rest(a, f, found) ==
  /\ \A e \in Left(a) : e.path = f => found \in {None, e.content}
  /\ Has(Left(a), f) \/ found \in {None, disk[f]}

FoundOf(a) ==
  \A f \in File :
    /\ \A i, j \in 1..Depth(a) : \A e \in Entries(a, j) :
         i <= j /\ e.path = f /\ Clear(a, f, i, j - 1) => Found(a, i, f) \in {None, e.content}
    /\ \A i \in 1..Depth(a) : Clear(a, f, i, Depth(a)) => Rest(a, f, Found(a, i, f))
    /\ \A g \in Generation : Restoring(a) /\ undo[a].of = g => Rest(a, f, before[a][g][f])

FoundIsKept == ~gui => \A a \in Agent : FoundOf(a)

-----------------------------------------------------------------------------
(***************************************************************************)
(* How the operations change the snapshots.                                *)
(***************************************************************************)
Entry(f, c) == [path |-> f, content |-> c]

LEMMA AppendAdds ==
  ASSUME NEW S, NEW s \in Seq(S), NEW e \in S, NEW r, r = Append(s, e)
  PROVE  {r[i] : i \in DOMAIN r} = {s[i] : i \in DOMAIN s} \cup {e}
<1>1. /\ DOMAIN r = 1..(Len(s) + 1) /\ DOMAIN s = 1..Len(s) /\ Len(s) \in Nat
      /\ r[Len(s) + 1] = e /\ \A i \in 1..Len(s) : r[i] = s[i]
  OBVIOUS
<1>2. \A i \in 1..Len(s) : i \in 1..(Len(s) + 1)
  BY <1>1
<1>3. \A i \in 1..(Len(s) + 1) : i \in 1..Len(s) \/ i = Len(s) + 1
  BY <1>1
<1>4. Len(s) + 1 \in 1..(Len(s) + 1)
  BY <1>1
<1> QED
  BY <1>1, <1>2, <1>3, <1>4

LEMMA TouchTakes ==
  ASSUME TypeInv, NEW a \in Agent, NEW f \in File, NEW t \in {"write", "edit"}, Touch(a, f, t)
  PROVE  /\ current[a] \in Generation
         /\ \A b \in Agent, g \in Generation :
              Taken(b, g)' = IF b = a /\ g = current[a] /\ ~Has(Taken(a, current[a]), f)
                               THEN Taken(b, g) \cup {Entry(f, disk[f])} ELSE Taken(b, g)
<1> DEFINE c == current[a]
           s == snapshots[a][c]
           has == \E i \in 1..Len(s) : s[i].path = f
<1>1. c \in Generation /\ s \in Seq(Snapshot)
  BY DEF Touch, TypeInv, TypeOK
<1>2. Entry(f, disk[f]) \in Snapshot
  BY DEF Entry, Snapshot, TypeInv, TypeOK
<1>3. has <=> Has(Taken(a, c), f)
  BY <1>1 DEF Has, Taken
<1>4. snapshots' = [snapshots EXCEPT ![a][c] = IF has THEN s ELSE Append(s, Entry(f, disk[f]))]
  BY DEF Touch, Entry
<1>5. \A b \in Agent, g \in Generation : b # a \/ g # c => snapshots'[b][g] = snapshots[b][g]
  BY <1>4, <1>1 DEF TypeInv, TypeOK
<1>6. snapshots'[a][c] = IF has THEN s ELSE Append(s, Entry(f, disk[f]))
  BY <1>4, <1>1 DEF TypeInv, TypeOK
<1>7. ASSUME ~has, NEW g, g = c PROVE Taken(a, g)' = Taken(a, g) \cup {Entry(f, disk[f])}
  <2>1. PICK q \in Seq(Snapshot) : q = s
    BY <1>1
  <2>2. PICK r : r = Append(q, Entry(f, disk[f]))
    OBVIOUS
  <2>3. {r[i] : i \in DOMAIN r} = {q[i] : i \in DOMAIN q} \cup {Entry(f, disk[f])}
    BY <2>2, <1>2, AppendAdds
  <2>4. snapshots'[a][g] = r /\ snapshots[a][g] = q
    BY <1>6, <1>7, <2>1, <2>2
  <2> QED
    BY <2>3, <2>4 DEF Taken
<1>8. ASSUME has, NEW g, g = c PROVE Taken(a, g)' = Taken(a, g)
  BY <1>6, <1>8 DEF Taken
<1>9. \A b \in Agent, g \in Generation : b # a \/ g # c => Taken(b, g)' = Taken(b, g)
  BY <1>5 DEF Taken
<1> HIDE DEF has
<1> QED
  BY <1>1, <1>3, <1>7, <1>8, <1>9

LEMMA TouchAnewTakes ==
  ASSUME TypeInv, NEW a \in Agent, NEW f \in File, NEW t \in {"write", "edit"}, TouchAnew(a, f, t)
  PROVE  /\ turns[a] + 1 \in Generation
         /\ \A b \in Agent, g \in Generation :
              Taken(b, g)' = IF b = a /\ g = turns[a] + 1 THEN {Entry(f, disk[f])} ELSE Taken(b, g)
<1> DEFINE n == turns[a] + 1
<1>1. n \in Generation
  <2>1. turns[a] \in Nat /\ MaxGen[a] \in Nat /\ turns[a] < MaxGen[a]
    BY EditsAssumption DEF TouchAnew, TypeInv
  <2> QED
    BY <2>1, GenerationsFit
<1>2. snapshots' = [snapshots EXCEPT ![a][n] = <<Entry(f, disk[f])>>]
  BY DEF TouchAnew, Entry
<1>3. \A b \in Agent, g \in Generation : b # a \/ g # n => snapshots'[b][g] = snapshots[b][g]
  BY <1>2, <1>1 DEF TypeInv, TypeOK
<1>4. snapshots'[a][n] = <<Entry(f, disk[f])>>
  BY <1>2, <1>1 DEF TypeInv, TypeOK
<1>5. \A g : g = n => Taken(a, g)' = {Entry(f, disk[f])}
  BY <1>4 DEF Taken
<1> QED
  BY <1>1, <1>3, <1>5 DEF Taken

LEMMA SameTaken ==
  ASSUME snapshots' = snapshots, NEW a, NEW g PROVE Taken(a, g)' = Taken(a, g)
BY DEF Taken

\* Restore takes the last entry, and keeps the others.
LEMMA RestoreLeaves ==
  ASSUME TypeInv, NEW a \in Agent, Restore(a)
  PROVE  \E e \in Snapshot :
           /\ e = undo[a].left[Len(undo[a].left)]
           /\ e \in Left(a) /\ Left(a)' \subseteq Left(a) /\ Left(a) \subseteq Left(a)' \cup {e}
           /\ disk' = [disk EXCEPT ![e.path] = e.content]
           /\ ChangedBy(a, e.path)
           /\ \A b \in Agent : b # a => undo'[b] = undo[b]
           /\ undo'[a].at = "restoring" /\ undo'[a].of = undo[a].of
<1> DEFINE left == undo[a].left
<1>1. left \in Seq(Snapshot) /\ left # <<>> /\ undo[a] \in Undo
  BY DEF Restore, TypeInv, TypeOK, Undo
<1>2. PICK e \in Snapshot : e = left[Len(left)]
  BY <1>1
<1>3. PICK s : s = SubSeq(left, 1, Len(left) - 1)
  OBVIOUS
<1>4. /\ Len(left) \in Nat \ {0} /\ DOMAIN left = 1..Len(left) /\ DOMAIN s = 1..(Len(left) - 1)
      /\ \A i \in 1..(Len(left) - 1) : s[i] = left[i]
  BY <1>1, <1>3
<1>5. \A i \in 1..Len(left) : i \in 1..(Len(left) - 1) \/ i = Len(left)
  BY <1>4
<1>6. \A i \in 1..(Len(left) - 1) : i \in 1..Len(left)
  BY <1>4
<1>6a. Len(left) \in 1..Len(left)
  BY <1>4
<1>7. undo' = [undo EXCEPT ![a].left = s]
  BY <1>3 DEF Restore
<1>8. undo'[a].left = s /\ undo'[a].at = "restoring" /\ undo'[a].of = undo[a].of
  BY <1>1, <1>7 DEF TypeInv, TypeOK, Undo, Restore
<1>9. Left(a)' = {s[i] : i \in DOMAIN s} /\ Left(a) = {left[i] : i \in DOMAIN left}
  BY <1>8 DEF Left
<1>10. e \in Left(a)
  BY <1>2, <1>4, <1>6a, <1>9
<1>11. Left(a)' \subseteq Left(a) /\ Left(a) \subseteq Left(a)' \cup {e}
  BY <1>2, <1>4, <1>5, <1>6, <1>9
<1>12. \A b \in Agent : b # a => undo'[b] = undo[b]
  BY <1>7 DEF TypeInv, TypeOK
<1>13. disk' = [disk EXCEPT ![e.path] = e.content] /\ ChangedBy(a, e.path)
  BY <1>2 DEF Restore
<1> QED
  BY <1>2, <1>8, <1>10, <1>11, <1>12, <1>13

\* A pop either finds nothing to undo, or the last generation with entries.
LEMMA PopTakes ==
  ASSUME TypeInv, NEW a \in Agent, RevertPop(a), NonEmpty(a) # {}
  PROVE  \E i \in DOMAIN generations[a] :
           LET g == generations[a][i]
           IN  /\ g \in Generation /\ Taken(a, g) # {}
               /\ \A j \in DOMAIN generations[a] : i < j => Taken(a, generations[a][j]) = {}
               /\ generations'[a] = SubSeq(generations[a], 1, i - 1)
               /\ current'[a] = IF current[a] = g THEN None ELSE current[a]
               /\ undo'[a].at = "restoring" /\ undo'[a].of = g
               /\ Left(a)' = Taken(a, g)
               /\ \A b \in Agent : b # a => /\ generations'[b] = generations[b]
                                            /\ current'[b] = current[b] /\ undo'[b] = undo[b]
<1>1. PICK i \in NonEmpty(a) :
        /\ \A j \in NonEmpty(a) : j <= i
        /\ generations' = [generations EXCEPT ![a] = SubSeq(@, 1, i - 1)]
        /\ current' = [current EXCEPT ![a] = IF @ = generations[a][i] THEN None ELSE @]
        /\ undo' = [undo EXCEPT ![a] = [at |-> "restoring", of |-> generations[a][i],
                                        left |-> snapshots[a][generations[a][i]]]]
  BY DEF RevertPop
<1>2. i \in DOMAIN generations[a] /\ i \in Nat /\ generations[a] \in Seq(Generation)
  BY DEF NonEmpty, TypeInv, TypeOK
<1>3. \A j \in DOMAIN generations[a] : generations[a][j] \in Generation /\ j \in Nat
  BY <1>2
<1>4. \A g \in Generation : snapshots[a][g] # <<>> <=> Taken(a, g) # {}
  <2> SUFFICES ASSUME NEW g \in Generation PROVE snapshots[a][g] # <<>> <=> Taken(a, g) # {}
    OBVIOUS
  <2>1. snapshots[a][g] \in Seq(Snapshot)
    BY DEF TypeInv, TypeOK
  <2>2. PICK s \in Seq(Snapshot) : s = snapshots[a][g]
    BY <2>1
  <2>3. s # <<>> => 1 \in DOMAIN s
    OBVIOUS
  <2>4. s = <<>> => DOMAIN s = {}
    OBVIOUS
  <2> QED
    BY <2>2, <2>3, <2>4 DEF Taken
<1>5. Taken(a, generations[a][i]) # {}
  BY <1>2, <1>3, <1>4 DEF NonEmpty
<1>6. \A j \in DOMAIN generations[a] : i < j => Taken(a, generations[a][j]) = {}
  <2> SUFFICES ASSUME NEW j \in DOMAIN generations[a], i < j, Taken(a, generations[a][j]) # {} PROVE FALSE
    OBVIOUS
  <2>1. j \in NonEmpty(a)
    BY <1>3, <1>4 DEF NonEmpty
  <2> QED
    BY <2>1, <1>1, <1>2, <1>3
<1>7. /\ undo'[a].at = "restoring" /\ undo'[a].of = generations[a][i]
      /\ undo'[a].left = snapshots[a][generations[a][i]]
  BY <1>1 DEF TypeInv, TypeOK
<1>8. Left(a)' = Taken(a, generations[a][i])
  BY <1>7 DEF Left, Taken
<1>9. generations'[a] = SubSeq(generations[a], 1, i - 1)
      /\ current'[a] = IF current[a] = generations[a][i] THEN None ELSE current[a]
  BY <1>1 DEF TypeInv, TypeOK
<1>10. \A b \in Agent : b # a => /\ generations'[b] = generations[b]
                                 /\ current'[b] = current[b] /\ undo'[b] = undo[b]
  BY <1>1 DEF TypeInv, TypeOK
<1> QED
  BY <1>2, <1>3, <1>5, <1>6, <1>7, <1>8, <1>9, <1>10

-----------------------------------------------------------------------------
(***************************************************************************)
(* Generations are numbered.                                               *)
(***************************************************************************)
LEMMA InitNumbered == Init => Numbered
<1> SUFFICES ASSUME Init, NEW a \in Agent PROVE NumberedOf(a)
  BY DEF Numbered
<1>1. generations[a] = <<>> /\ current[a] = None /\ undo[a] = NoUndo
  BY DEF Init
<1>2. \A g \in Generation : snapshots[a][g] = <<>> /\ wrote[a][g] = {}
  BY DEF Init
<1>3. \A g \in Generation : Taken(a, g) = {}
  BY <1>2 DEF Taken
<1>4. Left(a) = {} /\ ~Restoring(a)
  BY <1>1 DEF Left, Restoring, NoUndo
<1> QED
  BY <1>1, <1>2, <1>3, <1>4 DEF NumberedOf

LEMMA NumberedStays ==
  ASSUME TypeInv, NEW b \in Agent, NumberedOf(b),
         generations'[b] = generations[b], turns'[b] = turns[b],
         current'[b] = current[b], undo'[b] = undo[b],
         \A g \in Generation : Taken(b, g)' = Taken(b, g) /\ wrote'[b][g] = wrote[b][g]
  PROVE  NumberedOf(b)'
<1>1. Left(b)' = Left(b) /\ (Restoring(b)' <=> Restoring(b))
  BY DEF Left, Restoring
<1> QED
  BY <1>1 DEF NumberedOf

\* A new generation on top of the stack, with or without a first snapshot.
LEMMA NumberedGrows ==
  ASSUME TypeInv, NEW a \in Agent, NumberedOf(a), turns[a] + 1 \in Generation,
         generations'[a] = Append(generations[a], turns[a] + 1), turns'[a] = turns[a] + 1,
         current'[a] = turns[a] + 1, undo'[a] = undo[a],
         \A g \in Generation : g # turns[a] + 1 => Taken(a, g)' = Taken(a, g),
         \A g \in Generation : wrote'[a][g] = wrote[a][g]
  PROVE  NumberedOf(a)'
<1> DEFINE n == turns[a] + 1
<1>0. turns[a] \in Nat /\ generations[a] \in Seq(Generation) /\ Generation \subseteq Nat
  BY GenerationIsNat DEF TypeInv, TypeOK
<1>1. PICK s \in Seq(Generation) : s = generations[a]
  BY <1>0
<1>2. PICK r : r = Append(s, n)
  OBVIOUS
<1>3. /\ DOMAIN r = 1..(Len(s) + 1) /\ DOMAIN s = 1..Len(s) /\ Len(s) \in Nat
      /\ r[Len(s) + 1] = n /\ \A i \in 1..Len(s) : r[i] = s[i]
  BY <1>2
<1>4. \A i \in DOMAIN s : s[i] <= turns[a] /\ s[i] \in Nat
  <2>1. \A i \in DOMAIN s : s[i] \in Generation
    BY <1>1
  <2>2. \A i \in DOMAIN s : s[i] <= turns[a]
    BY <1>1 DEF NumberedOf
  <2> QED
    BY <1>0, <2>1, <2>2
<1>5. \A i \in DOMAIN r : r[i] <= n
  BY <1>0, <1>3, <1>4
<1>6. \A i, j \in DOMAIN r : i < j => r[i] < r[j]
  <2> SUFFICES ASSUME NEW i \in DOMAIN r, NEW j \in DOMAIN r, i < j PROVE r[i] < r[j]
    OBVIOUS
  <2>1. i \in 1..Len(s)
    BY <1>3
  <2>2. CASE j = Len(s) + 1
    BY <1>0, <1>3, <1>4, <2>1, <2>2
  <2>3. CASE j \in 1..Len(s)
    BY <1>1, <1>3, <2>1, <2>3 DEF NumberedOf
  <2> QED
    BY <1>3, <2>2, <2>3
<1>7. \A g \in Generation : n < g => Taken(a, g)' = {} /\ wrote'[a][g] = {}
  BY <1>0 DEF NumberedOf
<1>8. Left(a)' = Left(a) /\ (Restoring(a)' <=> Restoring(a))
  BY DEF Left, Restoring
<1>9. \A g \in Generation : Restoring(a) /\ undo[a].of = g
        => g <= n /\ g # n /\ Left(a) \subseteq Taken(a, g)'
  <2> SUFFICES ASSUME NEW g \in Generation, Restoring(a), undo[a].of = g
               PROVE  g <= n /\ g # n /\ Left(a) \subseteq Taken(a, g)'
    OBVIOUS
  <2>1. g <= turns[a] /\ Left(a) \subseteq Taken(a, g)
    BY DEF NumberedOf
  <2>2. g <= n /\ g # n
    BY <1>0, <2>1
  <2> QED
    BY <2>1, <2>2
<1>10. generations'[a] = r
  BY <1>1, <1>2
<1>11. undo'[a].of = undo[a].of /\ turns'[a] = n /\ current'[a] = n /\ n <= n
  BY <1>0
<1>12. ~Restoring(a) => Left(a) = {}
  BY DEF NumberedOf
<1> HIDE DEF n
<1> QED
  BY <1>5, <1>6, <1>7, <1>8, <1>9, <1>10, <1>11, <1>12 DEF NumberedOf

\* The agent of a session goes, or its revert ends.
LEMMA NumberedEnds ==
  ASSUME TypeInv, NEW a \in Agent, NumberedOf(a), turns'[a] = turns[a],
         generations'[a] \in {<<>>, generations[a]}, current'[a] \in {None, current[a]},
         undo'[a] = NoUndo,
         \A g \in Generation : Taken(a, g)' = Taken(a, g) /\ wrote'[a][g] = wrote[a][g]
  PROVE  NumberedOf(a)'
<1>1. ~Restoring(a)' /\ Left(a)' = {}
  BY DEF Restoring, Left, NoUndo
<1>2. \A i \in DOMAIN generations'[a] :
        i \in DOMAIN generations[a] /\ generations'[a][i] = generations[a][i]
  OBVIOUS
<1> QED
  BY <1>1, <1>2 DEF NumberedOf

LEMMA NextNumbered == TypeInv /\ Numbered /\ Next => Numbered'
<1> SUFFICES ASSUME TypeInv, Numbered, Next, NEW b \in Agent PROVE NumberedOf(b)'
  BY DEF Numbered
<1>0. NumberedOf(b) /\ Generation \subseteq Nat
  BY GenerationIsNat DEF Numbered
<1>1. ASSUME NEW a \in Agent, BeginTurn(a) PROVE NumberedOf(b)'
  <2>1. \A g \in Generation : Taken(b, g)' = Taken(b, g) /\ wrote'[b][g] = wrote[b][g]
    BY <1>1, SameTaken DEF BeginTurn
  <2>2. CASE b = a
    <3>1. turns[a] + 1 \in Generation
      <4>1. turns[a] \in Nat /\ MaxGen[a] \in Nat /\ turns[a] < MaxGen[a]
        BY <1>1, EditsAssumption DEF BeginTurn, TypeInv
      <4> QED
        BY <4>1, GenerationsFit
    <3>2. /\ generations'[a] = Append(generations[a], turns[a] + 1) /\ turns'[a] = turns[a] + 1
          /\ current'[a] = turns[a] + 1 /\ undo'[a] = undo[a]
      BY <1>1 DEF BeginTurn, TypeInv, TypeOK
    <3> QED
      BY <1>0, <2>1, <2>2, <3>1, <3>2, NumberedGrows
  <2>3. CASE b # a
    <3>1. /\ generations'[b] = generations[b] /\ turns'[b] = turns[b]
          /\ current'[b] = current[b] /\ undo'[b] = undo[b]
      BY <1>1, <2>3 DEF BeginTurn, TypeInv, TypeOK
    <3> QED
      BY <1>0, <2>1, <3>1, NumberedStays
  <2> QED
    BY <2>2, <2>3
<1>2. ASSUME \/ UNCHANGED <<checkpoints, wrote, undo>>
             \/ \E a \in Agent : Land(a)
      PROVE  NumberedOf(b)'
  <2>1. CASE UNCHANGED <<checkpoints, wrote, undo>>
    <3>1. \A g \in Generation : Taken(b, g)' = Taken(b, g) /\ wrote'[b][g] = wrote[b][g]
      BY <2>1, SameTaken DEF checkpoints
    <3> QED
      BY <1>0, <2>1, <3>1, NumberedStays DEF checkpoints
  <2>2. ASSUME NEW a \in Agent, Land(a) PROVE NumberedOf(b)'
    <3>1. \A g \in Generation : Taken(b, g)' = Taken(b, g)
      BY <2>2, SameTaken DEF Land, checkpoints
    <3>2. \A g \in Generation : g # current[b] => wrote'[b][g] = wrote[b][g]
      BY <2>2 DEF Land, TypeInv, TypeOK
    <3>3. \A g \in Generation : turns[b] < g => g # current[b]
      <4> SUFFICES ASSUME NEW g \in Generation, turns[b] < g, g = current[b] PROVE FALSE
        OBVIOUS
      <4>1. g # None /\ g \in Nat
        BY <1>0, EditsAssumption
      <4>2. g <= turns[b]
        BY <1>0, <4>1 DEF NumberedOf
      <4> QED
        BY <4>1, <4>2 DEF TypeInv
    <3>4. generations' = generations /\ turns' = turns /\ current' = current /\ undo' = undo
      BY <2>2 DEF Land, checkpoints
    <3>5. Left(b)' = Left(b) /\ (Restoring(b)' <=> Restoring(b))
      BY <3>4 DEF Left, Restoring
    <3> QED
      BY <1>0, <3>1, <3>2, <3>3, <3>4, <3>5 DEF NumberedOf
  <2> QED
    BY <1>2, <2>1, <2>2
<1>3. ASSUME NEW a \in Agent, NEW f \in File, NEW t \in {"write", "edit"}, Touch(a, f, t)
      PROVE  NumberedOf(b)'
  <2>1. /\ generations' = generations /\ turns' = turns /\ current' = current /\ undo' = undo
        /\ wrote' = wrote /\ current[a] # None
    BY <1>3 DEF Touch
  <2>2. \A g \in Generation : g # current[b] => Taken(b, g)' = Taken(b, g)
    BY <1>3, TouchTakes
  <2>3. \A g \in Generation : turns[b] < g => g # current[b]
    <3> SUFFICES ASSUME NEW g \in Generation, turns[b] < g, g = current[b] PROVE FALSE
      OBVIOUS
    <3>1. g # None /\ g \in Nat
      BY <1>0, EditsAssumption
    <3>2. g <= turns[b]
      BY <1>0, <3>1 DEF NumberedOf
    <3> QED
      BY <3>1, <3>2 DEF TypeInv
  <2>4. Left(b)' = Left(b) /\ (Restoring(b)' <=> Restoring(b))
    BY <2>1 DEF Left, Restoring
  <2> QED
    BY <1>0, <2>1, <2>2, <2>3, <2>4 DEF NumberedOf
<1>4. ASSUME NEW a \in Agent, NEW f \in File, NEW t \in {"write", "edit"}, TouchAnew(a, f, t)
      PROVE  NumberedOf(b)'
  <2>1. wrote' = wrote /\ undo' = undo
    BY <1>4 DEF TouchAnew
  <2>2. turns[a] + 1 \in Generation
    BY <1>4, TouchAnewTakes
  <2>3. CASE b = a
    <3>1. /\ generations'[a] = Append(generations[a], turns[a] + 1) /\ turns'[a] = turns[a] + 1
          /\ current'[a] = turns[a] + 1
      BY <1>4 DEF TouchAnew, TypeInv, TypeOK
    <3>2. \A g \in Generation : g # turns[a] + 1 => Taken(a, g)' = Taken(a, g)
      BY <1>4, TouchAnewTakes
    <3> QED
      BY <1>0, <2>1, <2>2, <2>3, <3>1, <3>2, NumberedGrows
  <2>4. CASE b # a
    <3>1. generations'[b] = generations[b] /\ turns'[b] = turns[b] /\ current'[b] = current[b]
      BY <1>4, <2>4 DEF TouchAnew, TypeInv, TypeOK
    <3>2. \A g \in Generation : Taken(b, g)' = Taken(b, g)
      BY <1>4, <2>4, TouchAnewTakes
    <3> QED
      BY <1>0, <2>1, <3>1, <3>2, NumberedStays
  <2> QED
    BY <2>3, <2>4
<1>5. ASSUME NEW a \in Agent, RevertCheck(a) PROVE NumberedOf(b)'
  <2>1. UNCHANGED <<checkpoints, wrote>>
    BY <1>5 DEF RevertCheck
  <2>2. \A g \in Generation : Taken(b, g)' = Taken(b, g)
    BY <2>1, SameTaken DEF checkpoints
  <2>3. b # a => undo'[b] = undo[b]
    BY <1>5 DEF RevertCheck, TypeInv, TypeOK
  <2>4. b = a => undo'[b].at = "checked" /\ undo'[b].left = <<>>
    BY <1>5 DEF RevertCheck, TypeInv, TypeOK, Undo, NoUndo
  <2>5. b = a => Left(b)' = {} /\ ~Restoring(b)'
    BY <2>4 DEF Left, Restoring
  <2> QED
    BY <1>0, <2>1, <2>2, <2>3, <2>5, NumberedStays DEF NumberedOf, checkpoints
<1>6. ASSUME NEW a \in Agent, RevertPop(a) PROVE NumberedOf(b)'
  <2>1. UNCHANGED <<snapshots, turns, wrote>>
    BY <1>6 DEF RevertPop
  <2>2. \A g \in Generation : Taken(b, g)' = Taken(b, g) /\ wrote'[b][g] = wrote[b][g]
    BY <2>1, SameTaken
  <2>3. CASE NonEmpty(a) = {}
    <3>1. current' = current /\ generations' = [generations EXCEPT ![a] = <<>>]
          /\ undo' = [undo EXCEPT ![a] = NoUndo]
      BY <1>6, <2>3 DEF RevertPop
    <3>2. b = a => generations'[b] = <<>> /\ undo'[b] = NoUndo
      BY <3>1 DEF TypeInv, TypeOK
    <3>3. b # a => generations'[b] = generations[b] /\ undo'[b] = undo[b]
      BY <3>1 DEF TypeInv, TypeOK
    <3> QED
      BY <1>0, <2>1, <2>2, <3>1, <3>2, <3>3, NumberedEnds, NumberedStays
  <2>4. CASE NonEmpty(a) # {}
    <3>1. PICK i \in DOMAIN generations[a] :
            LET g == generations[a][i]
            IN  /\ g \in Generation /\ Taken(a, g) # {}
                /\ \A j \in DOMAIN generations[a] : i < j => Taken(a, generations[a][j]) = {}
                /\ generations'[a] = SubSeq(generations[a], 1, i - 1)
                /\ current'[a] = IF current[a] = g THEN None ELSE current[a]
                /\ undo'[a].at = "restoring" /\ undo'[a].of = g
                /\ Left(a)' = Taken(a, g)
                /\ \A c \in Agent : c # a => /\ generations'[c] = generations[c]
                                             /\ current'[c] = current[c] /\ undo'[c] = undo[c]
      BY <1>6, <2>4, PopTakes
    <3>2. CASE b # a
      BY <1>0, <2>1, <2>2, <3>1, <3>2, NumberedStays
    <3>3. CASE b = a
      <4>1. PICK s \in Seq(Generation) : s = generations[a]
        BY DEF TypeInv, TypeOK
      <4>2. i \in 1..Len(s)
        BY <3>1, <4>1
      <4>3. PICK r : r = SubSeq(s, 1, i - 1)
        OBVIOUS
      <4>4. DOMAIN r = 1..(i - 1) /\ \A j \in 1..(i - 1) : j \in DOMAIN s /\ r[j] = s[j]
        BY <4>2, <4>3
      <4>5. generations'[a] = r
        BY <3>1, <4>1, <4>3
      <4>6. \A j \in DOMAIN r : r[j] <= turns[a]
        BY <1>0, <3>3, <4>1, <4>4 DEF NumberedOf
      <4>7. \A j, k \in DOMAIN r : j < k => r[j] < r[k]
        BY <1>0, <3>3, <4>1, <4>4 DEF NumberedOf
      <4>8. PICK g \in Generation : g = generations[a][i]
        BY <3>1
      <4>9. g <= turns[a] /\ g # current'[a] /\ Left(a)' = Taken(a, g) /\ undo'[a].of = g
        BY <1>0, <3>1, <3>3, <4>8, EditsAssumption DEF NumberedOf
      <4>10. Restoring(a)' /\ (current'[a] = None \/ current'[a] = current[a])
        BY <3>1 DEF Restoring
      <4>11. Taken(a, g)' = Taken(a, g)
        BY <2>2, <3>3
      <4> QED
        BY <1>0, <2>1, <2>2, <3>3, <4>5, <4>6, <4>7, <4>8, <4>9, <4>10, <4>11 DEF NumberedOf
    <3> QED
      BY <3>2, <3>3
  <2> QED
    BY <2>3, <2>4
<1>7. ASSUME NEW a \in Agent, Restore(a) PROVE NumberedOf(b)'
  <2>1. UNCHANGED <<checkpoints, wrote>>
    BY <1>7 DEF Restore
  <2>2. \A g \in Generation : Taken(b, g)' = Taken(b, g) /\ wrote'[b][g] = wrote[b][g]
    BY <2>1, SameTaken DEF checkpoints
  <2>3. /\ Left(a)' \subseteq Left(a) /\ undo'[a].at = "restoring" /\ undo'[a].of = undo[a].of
        /\ \A c \in Agent : c # a => undo'[c] = undo[c]
    BY <1>7, RestoreLeaves
  <2>4. Restoring(a) /\ Restoring(a)'
    BY <1>7, <2>3 DEF Restore, Restoring
  <2>5. CASE b # a
    BY <1>0, <2>1, <2>2, <2>3, <2>5, NumberedStays DEF checkpoints
  <2>6. CASE b = a
    BY <1>0, <2>1, <2>2, <2>3, <2>4, <2>6 DEF NumberedOf, checkpoints
  <2> QED
    BY <2>5, <2>6
<1>8. ASSUME NEW a \in Agent, RevertDone(a) \/ RestoreFails(a) \/ CloseSession(a)
      PROVE  NumberedOf(b)'
  <2>1. snapshots' = snapshots /\ turns' = turns /\ wrote' = wrote
    BY <1>8 DEF RevertDone, RestoreFails, CloseSession, checkpoints
  <2>2. \A g \in Generation : Taken(b, g)' = Taken(b, g) /\ wrote'[b][g] = wrote[b][g]
    BY <2>1, SameTaken
  <2>3. undo' = [undo EXCEPT ![a] = NoUndo] \/ (undo' = undo /\ undo[a] = NoUndo)
    BY <1>8 DEF RevertDone, RestoreFails, CloseSession
  <2>4. \/ generations' = generations /\ current' = current
        \/ /\ generations' = [generations EXCEPT ![a] = <<>>]
           /\ current' = [current EXCEPT ![a] = None]
    BY <1>8 DEF RevertDone, RestoreFails, CloseSession, Gone, checkpoints
  <2>5. CASE b # a
    <3>1. undo'[b] = undo[b] /\ generations'[b] = generations[b] /\ current'[b] = current[b]
      BY <2>3, <2>4, <2>5 DEF TypeInv, TypeOK
    <3> QED
      BY <1>0, <2>1, <2>2, <3>1, NumberedStays
  <2>6. CASE b = a
    <3>1. /\ undo'[b] = NoUndo /\ generations'[b] \in {<<>>, generations[b]}
          /\ current'[b] \in {None, current[b]}
      BY <2>3, <2>4, <2>6 DEF TypeInv, TypeOK
    <3> QED
      BY <1>0, <2>1, <2>2, <3>1, NumberedEnds
  <2> QED
    BY <2>5, <2>6
<1>9. ASSUME \/ GoStale \/ \E f \in File : UserEdit(f)
             \/ \E a \in Agent : \/ EndTurn(a) \/ CheckStale(a) \/ CheckLocked(a) \/ Base(a) \/ Refresh(a)
                                 \/ Reopen(a) \/ \E f \in File : Read(a, f)
      PROVE  UNCHANGED <<checkpoints, wrote, undo>>
  BY <1>9 DEF GoStale, UserEdit, EndTurn, CheckStale, CheckLocked, Base, Refresh, Reopen, Read, checkpoints
<1> QED
  BY <1>1, <1>2, <1>3, <1>4, <1>5, <1>6, <1>7, <1>8, <1>9 DEF Next, Edits

-----------------------------------------------------------------------------
(***************************************************************************)
(* What a turn wrote is in no snapshot of its own.                         *)
(***************************************************************************)
LEMMA InitOwnWork == Init => OwnWork
<1> SUFFICES ASSUME Init PROVE OwnWork
  OBVIOUS
<1>1. \A a \in Agent, g \in Generation : wrote[a][g] = {} /\ snapshots[a][g] = <<>>
  BY DEF Init
<1>2. \A a \in Agent, g \in Generation : Taken(a, g) = {}
  BY <1>1 DEF Taken
<1>3. \A f \in File : disk[f] \in {0, 1}
  BY DEF Init, Missing
<1>4. \A f \in File : disk[f] <= written
  <2>1. written = 1
    BY DEF Init
  <2> QED
    BY <1>3, <2>1
<1>5. \A a \in Agent : call[a].at \notin Writing
  BY DEF Init, NoCall, Writing
<1> QED
  BY <1>1, <1>2, <1>4, <1>5 DEF OwnWork

LEMMA OwnWorkStays ==
  ASSUME TypeInv, OwnWork, UNCHANGED <<disk, written, snapshots, wrote>>,
         \A b \in Agent : call'[b].at \in Writing /\ current'[b] # None
                            => /\ call[b].at \in Writing /\ call'[b].file = call[b].file
                               /\ current'[b] = current[b]
  PROVE  OwnWork'
<1>1. \A b \in Agent, g \in Generation : Taken(b, g)' = Taken(b, g)
  BY SameTaken
<1>2. ASSUME NEW b \in Agent, call'[b].at \in Writing /\ current'[b] # None
      PROVE  Has(Taken(b, current[b]), Target(b))'
  <2>1. PICK g \in Generation : g = current[b] /\ g = current'[b]
    BY <1>2 DEF TypeInv, TypeOK
  <2>2. Has(Taken(b, g), call[b].file)
    BY <1>2, <2>1 DEF OwnWork, Target
  <2>3. Taken(b, current[b])' = Taken(b, g)
    BY <1>1, <2>1 DEF Taken
  <2>4. call'[b].file = call[b].file
    BY <1>2
  <2> QED
    BY <2>2, <2>3, <2>4 DEF Has, Target
<1> QED
  BY <1>1, <1>2 DEF OwnWork, Has

LEMMA OwnWorkTouched ==
  ASSUME TypeInv, OwnWork, UNCHANGED <<disk, written, wrote>>,
         NEW a \in Agent, NEW n \in Generation, NEW f \in File,
         \A b \in Agent, g \in Generation :
           Taken(b, g)' = IF b = a /\ g = n /\ ~Has(Taken(a, n), f)
                            THEN Taken(b, g) \cup {Entry(f, disk[f])} ELSE Taken(b, g),
         current'[a] = n, call'[a].file = f,
         \A b \in Agent : b # a => current'[b] = current[b] /\ call'[b] = call[b]
  PROVE  OwnWork'
<1> DEFINE e == Entry(f, disk[f])
<1>0. e.path = f /\ e.content = disk[f]
  BY DEF Entry
<1> HIDE DEF e
<1>1. \A b \in Agent, g \in Generation : Taken(b, g) \subseteq Taken(b, g)'
  OBVIOUS
<1>2. ASSUME NEW b \in Agent, NEW g \in Generation, NEW x \in Taken(b, g)'
      PROVE  x \in Taken(b, g) \/ (b = a /\ g = n /\ ~Has(Taken(a, n), f) /\ x = e)
  BY DEF e
<1>3. \A b \in Agent, g \in Generation : \A p : Has(Taken(b, g), p) => Has(Taken(b, g)', p)
  BY <1>1 DEF Has
<1>4. Has(Taken(a, n)', f)
  BY <1>0 DEF Has, e
<1>5. ASSUME NEW b \in Agent, NEW g \in Generation, NEW x \in Taken(b, g)'
      PROVE  x.content <= written /\ x.content \notin wrote[b][g]
  BY <1>0, <1>2 DEF OwnWork
<1>6. ASSUME NEW b \in Agent, NEW h \in Generation, NEW x \in Taken(b, h)', NEW c \in Agent, NEW g \in Generation
      PROVE  Has(Taken(c, g)', x.path) \/ x.content \notin wrote[c][g]
  <2>1. CASE x \in Taken(b, h)
    BY <1>3, <2>1 DEF OwnWork
  <2>2. CASE x = e
    BY <1>0, <1>3, <2>2 DEF OwnWork
  <2> QED
    BY <1>2, <2>1, <2>2
<1>7. ASSUME NEW b \in Agent, call'[b].at \in Writing, current'[b] # None
      PROVE  Has(Taken(b, current[b]), Target(b))'
  <2>1. CASE b = a
    <3>1. Taken(b, current[b])' = Taken(a, n)'
      BY <2>1 DEF Taken
    <3>2. Target(b)' = f
      BY <2>1 DEF Target
    <3> QED
      BY <3>1, <3>2, <1>4 DEF Has
  <2>2. CASE b # a
    <3>1. PICK g \in Generation : g = current[b]
      BY <1>7, <2>2 DEF TypeInv, TypeOK
    <3>2. current'[b] = g /\ call'[b] = call[b]
      BY <2>2, <3>1
    <3>3. Has(Taken(b, g), call[b].file)
      BY <1>7, <3>1, <3>2 DEF OwnWork, Target
    <3>4. Taken(b, current[b])' = Taken(b, g)' /\ Target(b)' = call[b].file
      BY <3>2 DEF Taken, Target
    <3> QED
      BY <1>3, <3>3, <3>4 DEF Has
  <2> QED
    BY <2>1, <2>2
<1>8. \A b \in Agent, g \in Generation, p \in File : Has(Taken(b, g)', p) \/ disk[p] \notin wrote[b][g]
  BY <1>3 DEF OwnWork
<1> QED
  BY <1>5, <1>6, <1>7, <1>8 DEF OwnWork, Has

\* A file is overwritten from outside the turns: by a revert, or by the user.
LEMMA OwnWorkElsewhere ==
  ASSUME TypeInv, OwnWork, UNCHANGED <<snapshots, wrote, current, call>>,
         NEW f \in File, NEW c \in Nat, disk' = [disk EXCEPT ![f] = c],
         written' \in Nat, written <= written', c <= written',
         \A a \in Agent, g \in Generation : Has(Taken(a, g), f) \/ c \notin wrote[a][g]
  PROVE  OwnWork'
<1>1. \A b \in Agent, g \in Generation : Taken(b, g)' = Taken(b, g)
  BY SameTaken
<1>2. \A p \in File : disk'[p] = IF p = f THEN c ELSE disk[p]
  BY DEF TypeInv, TypeOK
<1>3. \A p \in File : disk'[p] <= written'
  <2> SUFFICES ASSUME NEW p \in File PROVE disk'[p] <= written'
    OBVIOUS
  <2>1. disk[p] \in Nat /\ disk[p] <= written /\ written \in Nat
    BY DEF TypeInv, TypeOK, Content, OwnWork
  <2> QED
    BY <1>2, <2>1
<1>4. \A a \in Agent, g \in Generation : \A w \in wrote[a][g] : 1 <= w /\ w <= written'
  <2> SUFFICES ASSUME NEW a \in Agent, NEW g \in Generation, NEW w \in wrote[a][g]
               PROVE 1 <= w /\ w <= written'
    OBVIOUS
  <2>1. w \in Nat /\ written \in Nat /\ 1 <= w /\ w <= written
    BY DEF TypeInv, TypeOK, Content, OwnWork
  <2> QED
    BY <2>1
<1>5. \A a \in Agent, g \in Generation : \A e \in Taken(a, g) : e.content <= written'
  <2> SUFFICES ASSUME NEW a \in Agent, NEW g \in Generation, NEW e \in Taken(a, g)
               PROVE e.content <= written'
    OBVIOUS
  <2>1. e \in Snapshot
    BY DEF Taken, TypeInv, TypeOK
  <2>2. e.content \in Nat /\ written \in Nat /\ e.content <= written
    BY <2>1 DEF TypeInv, TypeOK, Content, OwnWork, Snapshot
  <2> QED
    BY <2>2
<1>6. ASSUME NEW b \in Agent, call'[b].at \in Writing, current'[b] # None
      PROVE  Has(Taken(b, current[b]), Target(b))'
  <2>1. PICK g \in Generation : g = current[b]
    BY <1>6 DEF TypeInv, TypeOK
  <2>2. Has(Taken(b, g), call[b].file)
    BY <1>6, <2>1 DEF OwnWork, Target
  <2>3. Taken(b, current[b])' = Taken(b, g) /\ Target(b)' = call[b].file
    BY <1>1, <2>1 DEF Taken, Target
  <2> QED
    BY <2>2, <2>3 DEF Has
<1>7. \A a \in Agent, g \in Generation, p \in File : Has(Taken(a, g), p) \/ disk'[p] \notin wrote[a][g]
  BY <1>2 DEF OwnWork
<1> QED
  BY <1>1, <1>3, <1>4, <1>5, <1>6, <1>7 DEF OwnWork, Has

LEMMA OwnWorkLands ==
  ASSUME TypeInv, OwnWork, NEW a \in Agent, Land(a)
  PROVE  OwnWork'
<1> DEFINE n == written + 1
           f == Target(a)
<1>1. /\ written \in Nat /\ written' = n /\ n \in Nat /\ f \in File
      /\ disk' = [disk EXCEPT ![f] = n]
      /\ call[a].at \in Writing /\ current' = current /\ snapshots' = snapshots
  BY DEF Land, In, TypeInv, TypeOK, Content, Writing, Target, checkpoints
<1>2. \A b \in Agent, g \in Generation : Taken(b, g)' = Taken(b, g)
  BY <1>1, SameTaken
<1>3. \A b \in Agent, g \in Generation :
        wrote'[b][g] = IF b = a /\ g = current[a] THEN wrote[b][g] \cup {n} ELSE wrote[b][g]
  BY DEF Land, TypeInv, TypeOK
<1>4. \A p \in File : disk'[p] = IF p = f THEN n ELSE disk[p]
  BY <1>1 DEF TypeInv, TypeOK
<1>5. \A b \in Agent, g \in Generation : \A c \in wrote[b][g] : c \in Nat /\ 1 <= c /\ c <= written
  BY DEF TypeInv, TypeOK, Content, OwnWork
<1>6. \A p \in File : disk[p] \in Nat /\ disk[p] <= written
  BY DEF TypeInv, TypeOK, Content, OwnWork
<1>7. ASSUME NEW b \in Agent, NEW g \in Generation, NEW e \in Taken(b, g)
      PROVE  e.content \in Nat /\ e.content <= written
  <2>1. e \in Snapshot
    BY DEF Taken, TypeInv, TypeOK
  <2> QED
    BY <2>1 DEF Content, OwnWork, Snapshot
<1>8. \A g \in Generation : g = current[a] => Has(Taken(a, g), f)
  <2> SUFFICES ASSUME NEW g \in Generation, g = current[a] PROVE Has(Taken(a, g), f)
    OBVIOUS
  <2>1. g # None
    BY GenerationIsNat, EditsAssumption
  <2> QED
    BY <1>1, <2>1 DEF OwnWork
<1>9. \A x \in Nat : x <= written => x <= n /\ x # n
  BY <1>1
<1>10. 1 <= n /\ n <= n
  BY <1>1
<1> HIDE DEF n
<1>3a. ASSUME NEW b \in Agent, NEW g \in Generation, NEW x \in wrote'[b][g]
       PROVE  x = n \/ x \in wrote[b][g]
  <2>1. CASE b = a /\ g = current[a]
    BY <1>3, <1>3a, <2>1
  <2>2. CASE ~(b = a /\ g = current[a])
    BY <1>3, <1>3a, <2>2
  <2> QED
    BY <2>1, <2>2
<1>11. \A p \in File : disk'[p] <= n
  BY <1>4, <1>6, <1>9, <1>10
<1>12. \A b \in Agent, g \in Generation : \A c \in wrote'[b][g] : 1 <= c /\ c <= n
  <2> SUFFICES ASSUME NEW b \in Agent, NEW g \in Generation, NEW c \in wrote'[b][g]
               PROVE  1 <= c /\ c <= n
    OBVIOUS
  <2>1. CASE c = n
    BY <1>10, <2>1
  <2>2. CASE c \in wrote[b][g]
    BY <1>5, <1>9, <2>2
  <2> QED
    BY <1>3a, <2>1, <2>2
<1>13. ASSUME NEW b \in Agent, NEW g \in Generation, NEW e \in Taken(b, g)
       PROVE  e.content <= n /\ e.content \notin wrote'[b][g]
  <2>1. e.content # n /\ e.content <= n
    BY <1>7, <1>9
  <2>2. e.content \notin wrote[b][g]
    BY DEF OwnWork
  <2> QED
    BY <1>3a, <2>1, <2>2
<1>14. ASSUME NEW b \in Agent, NEW g \in Generation, NEW p \in File
       PROVE  Has(Taken(b, g), p) \/ disk'[p] \notin wrote'[b][g]
  <2>1. CASE p = f
    <3>1. n \notin wrote[b][g]
      BY <1>5, <1>9
    <3> QED
      BY <1>3, <1>4, <1>8, <2>1, <3>1
  <2>2. CASE p # f
    <3>1. disk'[p] = disk[p] /\ disk[p] # n
      BY <1>4, <1>6, <1>9, <2>2
    <3>2. Has(Taken(b, g), p) \/ disk[p] \notin wrote[b][g]
      BY DEF OwnWork
    <3> QED
      BY <1>3a, <3>1, <3>2
  <2> QED
    BY <2>1, <2>2
<1>15. ASSUME NEW b \in Agent, NEW g \in Generation, NEW c \in Agent, NEW h \in Generation,
              NEW e \in Taken(c, h)
       PROVE  Has(Taken(b, g), e.path) \/ e.content \notin wrote'[b][g]
  <2>1. e.content # n
    BY <1>7, <1>9
  <2>2. Has(Taken(b, g), e.path) \/ e.content \notin wrote[b][g]
    BY DEF OwnWork
  <2> QED
    BY <1>3a, <2>1, <2>2
<1>16. ASSUME NEW b \in Agent, call'[b].at \in Writing, current'[b] # None
       PROVE  Has(Taken(b, current[b]), Target(b))'
  <2>1. b # a
    <3>1. PICK c : c = [call[a] EXCEPT !.at = "landed"]
      OBVIOUS
    <3>2. c.at = "landed"
      BY <3>1 DEF TypeInv, TypeOK, Call
    <3> QED
      BY <1>16, <3>1, <3>2 DEF Land, Goes, Writing, TypeInv, TypeOK
  <2>2. call'[b] = call[b]
    BY <2>1 DEF Land, Goes, TypeInv, TypeOK
  <2>3. PICK g \in Generation : g = current[b]
    BY <1>1, <1>16 DEF TypeInv, TypeOK
  <2>4. Has(Taken(b, g), call[b].file)
    BY <1>1, <1>16, <2>2, <2>3 DEF OwnWork, Target
  <2>5. Taken(b, current[b])' = Taken(b, g) /\ Target(b)' = call[b].file
    BY <1>1, <1>2, <2>2, <2>3 DEF Taken, Target
  <2> QED
    BY <2>4, <2>5 DEF Has
<1> QED
  BY <1>1, <1>2, <1>11, <1>12, <1>13, <1>14, <1>15, <1>16 DEF OwnWork, Has

LEMMA NextOwnWork == TypeInv /\ Numbered /\ OwnWork /\ Next => OwnWork'
<1> SUFFICES ASSUME TypeInv, Numbered, OwnWork, Next PROVE OwnWork'
  OBVIOUS
<1>1. ASSUME NEW a \in Agent, BeginTurn(a) PROVE OwnWork'
  <2>1. \A b \in Agent : call'[b].at \in Writing => b # a
    <3>1. PICK c : c = [call[a] EXCEPT !.at = "turn"]
      OBVIOUS
    <3>2. c.at = "turn"
      BY <3>1 DEF TypeInv, TypeOK, Call
    <3> QED
      BY <1>1, <3>1, <3>2 DEF BeginTurn, Goes, Writing, TypeInv, TypeOK
  <2>2. \A b \in Agent : b # a => call'[b] = call[b] /\ current'[b] = current[b]
    BY <1>1 DEF BeginTurn, Goes, TypeInv, TypeOK
  <2> QED
    BY <1>1, <2>1, <2>2, OwnWorkStays DEF BeginTurn
<1>2. ASSUME NEW a \in Agent, NEW f \in File, NEW t \in {"write", "edit"}, Touch(a, f, t) \/ TouchAnew(a, f, t)
      PROVE  OwnWork'
  <2>1. call'[a].file = f /\ \A b \in Agent : b # a => call'[b] = call[b]
    <3>1. [NoCall EXCEPT !.at = "touched", !.file = f, !.tool = t].file = f
      BY DEF NoCall
    <3> QED
      BY <1>2, <3>1 DEF Touch, TouchAnew, TypeInv, TypeOK
  <2>2. UNCHANGED <<disk, written, wrote>>
    BY <1>2 DEF Touch, TouchAnew
  <2>3. CASE Touch(a, f, t)
    <3>1. PICK n \in Generation : n = current[a]
      BY <2>3, TouchTakes
    <3>2. current' = current
      BY <2>3 DEF Touch
    <3> QED
      BY <2>1, <2>2, <2>3, <3>1, <3>2, TouchTakes, OwnWorkTouched
  <2>4. CASE TouchAnew(a, f, t)
    <3>1. PICK n \in Generation : n = turns[a] + 1
      BY <2>4, TouchAnewTakes
    <3>2. current'[a] = n /\ \A b \in Agent : b # a => current'[b] = current[b]
      BY <2>4, <3>1 DEF TouchAnew, TypeInv, TypeOK
    <3>3. Taken(a, n) = {}
      <4>1. turns[a] < n
        BY <3>1 DEF TypeInv
      <4> QED
        BY <4>1 DEF Numbered, NumberedOf
    <3>4. ~Has(Taken(a, n), f)
      BY <3>3 DEF Has
    <3>5. \A b \in Agent, g \in Generation :
            Taken(b, g)' = IF b = a /\ g = n /\ ~Has(Taken(a, n), f)
                             THEN Taken(b, g) \cup {Entry(f, disk[f])} ELSE Taken(b, g)
      BY <2>4, <3>1, <3>3, <3>4, TouchAnewTakes
    <3> QED
      BY <2>1, <2>2, <3>2, <3>5, OwnWorkTouched
  <2> QED
    BY <1>2, <2>3, <2>4
<1>3. ASSUME NEW a \in Agent, EndTurn(a) \/ CheckStale(a) \/ CheckLocked(a) \/ Base(a) \/ Refresh(a)
      PROVE  OwnWork'
  <2>1. UNCHANGED <<disk, written, snapshots, wrote, current>>
    BY <1>3 DEF EndTurn, CheckStale, CheckLocked, Base, Refresh, checkpoints
  <2>2. \E c : call' = [call EXCEPT ![a] = c] /\ (c.at \in Writing => call[a].at \in Writing /\ c.file = call[a].file)
    <3>1. ASSUME NEW x \in {"fresh", "allowed", "idle"} PROVE LET c == [call[a] EXCEPT !.at = x] IN c.file = call[a].file /\ c.at = x
      BY DEF TypeInv, TypeOK, Call
    <3>2. ASSUME NEW v PROVE [call[a] EXCEPT !.at = "based", !.base = v].file = call[a].file
      BY DEF TypeInv, TypeOK, Call
    <3>3. [NoCall EXCEPT !.at = "turn"].at \notin Writing /\ "idle" \notin Writing
      BY DEF NoCall, Writing
    <3>4. CASE EndTurn(a)
      BY <3>1, <3>3, <3>4 DEF EndTurn, Goes
    <3>5. CASE Refresh(a)
      BY <3>3, <3>5 DEF Refresh, Quit
    <3>6. CASE CheckStale(a) \/ CheckLocked(a)
      <4>1. call[a].at \in Writing
        BY <3>6 DEF CheckStale, CheckLocked, In, Writing
      <4>2. \/ call' = [call EXCEPT ![a] = [NoCall EXCEPT !.at = "turn"]]
            \/ \E x \in {"fresh", "allowed"} : call' = [call EXCEPT ![a] = [call[a] EXCEPT !.at = x]]
        BY <3>6 DEF CheckStale, CheckLocked, Goes, Quit
      <4> QED
        BY <4>1, <4>2, <3>1, <3>3
    <3>7. CASE Base(a)
      <4>1. call[a].at \in Writing
        BY <3>7 DEF Base, In, Writing
      <4>2. \/ call' = [call EXCEPT ![a] = [NoCall EXCEPT !.at = "turn"]]
            \/ \E v : call' = [call EXCEPT ![a] = [call[a] EXCEPT !.at = "based", !.base = v]]
        BY <3>7 DEF Base, Quit
      <4> QED
        BY <4>1, <4>2, <3>2, <3>3
    <3> QED
      BY <1>3, <3>4, <3>5, <3>6, <3>7
  <2>3. \A b \in Agent : call'[b].at \in Writing => call[b].at \in Writing /\ call'[b].file = call[b].file
    BY <2>2 DEF TypeInv, TypeOK
  <2> QED
    BY <2>1, <2>3, OwnWorkStays
<1>4. ASSUME NEW a \in Agent, Restore(a) PROVE OwnWork'
  <2>1. UNCHANGED <<written, snapshots, wrote, current, call>>
    BY <1>4 DEF Restore, checkpoints
  <2>2. PICK e \in Snapshot : e \in Left(a) /\ disk' = [disk EXCEPT ![e.path] = e.content]
    BY <1>4, RestoreLeaves
  <2>3. PICK g \in Generation : g = undo[a].of
    BY <1>4 DEF Restore, TypeInv
  <2>4. e \in Taken(a, g)
    BY <1>4, <2>2, <2>3 DEF Numbered, NumberedOf, Restoring, Restore
  <2>5. e.path \in File /\ e.content \in Nat
    BY <2>2 DEF Snapshot, Content
  <2>6. e.content <= written /\ written \in Nat /\ written <= written'
    BY <2>1, <2>4 DEF OwnWork, TypeInv, TypeOK, Content
  <2>7. \A b \in Agent, h \in Generation : Has(Taken(b, h), e.path) \/ e.content \notin wrote[b][h]
    BY <2>4 DEF OwnWork
  <2> QED
    BY <2>1, <2>2, <2>5, <2>6, <2>7, OwnWorkElsewhere
<1>5. ASSUME NEW f \in File, UserEdit(f) PROVE OwnWork'
  <2>1. UNCHANGED <<snapshots, wrote, current, call>> /\ written' = written + 1
    BY <1>5 DEF UserEdit, checkpoints
  <2>2. written \in Nat
    BY DEF TypeInv, TypeOK, Content
  <2>3. PICK c \in {written + 1, 0} : disk' = [disk EXCEPT ![f] = c]
    BY <1>5 DEF UserEdit, Missing
  <2>4. c \in Nat /\ c <= written' /\ written <= written' /\ written' \in Nat
    BY <2>1, <2>2
  <2>5. \A a \in Agent, g \in Generation : c \notin wrote[a][g]
    <3> SUFFICES ASSUME NEW a \in Agent, NEW g \in Generation, c \in wrote[a][g] PROVE FALSE
      OBVIOUS
    <3>1. 1 <= c /\ c <= written
      BY DEF OwnWork
    <3> QED
      BY <2>2, <3>1
  <2> QED
    BY <2>1, <2>2, <2>3, <2>4, <2>5, OwnWorkElsewhere
<1>6. ASSUME NEW a \in Agent, RevertPop(a) \/ RevertDone(a) \/ RestoreFails(a) \/ CloseSession(a)
      PROVE  OwnWork'
  <2>1. UNCHANGED <<disk, written, snapshots, wrote, call>>
    BY <1>6 DEF RevertPop, RevertDone, RestoreFails, CloseSession, checkpoints
  <2>2. current' = current \/ \E c \in {None, current[a]} : current' = [current EXCEPT ![a] = c]
    BY <1>6 DEF RevertPop, RevertDone, RestoreFails, CloseSession, Gone, checkpoints
  <2>3. \A b \in Agent : current'[b] # None => current'[b] = current[b]
    BY <2>2 DEF TypeInv, TypeOK
  <2> QED
    BY <2>1, <2>3, OwnWorkStays
<1>7. ASSUME \/ GoStale
             \/ \E a \in Agent : Reopen(a) \/ RevertCheck(a) \/ \E f \in File : Read(a, f)
      PROVE  OwnWork'
  <2>1. UNCHANGED <<disk, written, snapshots, wrote, call, current>>
    BY <1>7 DEF GoStale, Reopen, RevertCheck, Read, checkpoints
  <2> QED
    BY <2>1, OwnWorkStays
<1> QED
  BY <1>1, <1>2, <1>3, <1>4, <1>5, <1>6, <1>7, OwnWorkLands DEF Next, Edits

-----------------------------------------------------------------------------
(***************************************************************************)
(* A REPL reverts between its turns, and a turn works on top of the stack. *)
(***************************************************************************)
LEMMA InitOneThread == Init => OneThread
<1> SUFFICES ASSUME Init, NEW a \in Agent PROVE OneThreadOf(a)
  BY DEF OneThread
<1>1. undo[a] = NoUndo /\ call[a] = NoCall /\ current[a] = None
  BY DEF Init
<1>2. NoCall.at = "idle" /\ None \notin Generation
  BY GenerationIsNat, EditsAssumption DEF NoCall
<1> QED
  BY <1>1, <1>2 DEF OneThreadOf, Writing

LEMMA OneThreadStays ==
  ASSUME NEW b \in Agent, OneThreadOf(b), generations'[b] = generations[b],
         current'[b] = current[b], undo'[b] = undo[b],
         \A g \in Generation : Taken(b, g)' = Taken(b, g),
         call'[b].at # "idle" => call[b].at # "idle",
         call'[b].at \in Writing => call[b].at \in Writing
  PROVE  OneThreadOf(b)'
<1>1. \A g : InStack(b, g)' <=> InStack(b, g)
  BY DEF InStack
<1> QED
  BY <1>1 DEF OneThreadOf

LEMMA NotIdle == \A w \in Writing : w # "idle"
BY DEF Writing

LEMMA OneThreadOnTop ==
  ASSUME TypeInv, NEW a \in Agent, NEW n \in Generation, undo'[a] = NoUndo,
         generations'[a] = Append(generations[a], n), current'[a] = n
  PROVE  OneThreadOf(a)'
<1>1. PICK s \in Seq(Generation) : s = generations[a]
  BY DEF TypeInv, TypeOK
<1>2. PICK r : r = Append(s, n)
  OBVIOUS
<1>3. r # <<>> /\ r[Len(r)] = n /\ Len(r) \in DOMAIN r
  BY <1>1, <1>2
<1>4. n # None
  BY GenerationIsNat, EditsAssumption
<1> QED
  BY <1>1, <1>2, <1>3, <1>4 DEF OneThreadOf, InStack

LEMMA NextOneThread == TypeInv /\ Numbered /\ OneThread /\ Next => OneThread'
<1> SUFFICES ASSUME TypeInv, Numbered, OneThread, Next, ~gui, NEW b \in Agent PROVE OneThreadOf(b)'
  BY DEF OneThread, Next
<1>0. OneThreadOf(b) /\ \A a \in Agent : OneThreadOf(a)
  BY DEF OneThread
<1>1. ASSUME NEW a \in Agent, BeginTurn(a) PROVE OneThreadOf(b)'
  <2>1. \A g \in Generation : Taken(b, g)' = Taken(b, g)
    BY <1>1, SameTaken DEF BeginTurn
  <2>2. CASE b = a
    <3>1. PICK n \in Generation : n = turns[a] + 1
      <4>1. turns[a] \in Nat /\ MaxGen[a] \in Nat /\ turns[a] < MaxGen[a]
        BY <1>1, EditsAssumption DEF BeginTurn, TypeInv
      <4> QED
        BY <4>1, GenerationsFit
    <3>2. undo'[a] = NoUndo /\ generations'[a] = Append(generations[a], n) /\ current'[a] = n
      BY <1>1, <3>1 DEF BeginTurn, TypeInv, TypeOK
    <3> QED
      BY <2>2, <3>2, OneThreadOnTop
  <2>3. CASE b # a
    <3>1. /\ generations'[b] = generations[b] /\ current'[b] = current[b] /\ undo'[b] = undo[b]
          /\ call'[b] = call[b]
      BY <1>1, <2>3 DEF BeginTurn, Goes, TypeInv, TypeOK
    <3> QED
      BY <1>0, <2>1, <3>1, OneThreadStays
  <2> QED
    BY <2>2, <2>3
<1>2. ASSUME NEW a \in Agent, NEW f \in File, NEW t \in {"write", "edit"}, Touch(a, f, t)
      PROVE  OneThreadOf(b)'
  <2>1. generations' = generations /\ current' = current /\ undo' = undo /\ call[a].at = "turn"
        /\ current[a] # None
    BY <1>2 DEF Touch, In
  <2>2. CASE b = a
    <3>1. \A g \in Generation : current[a] = g => generations[a] # <<>> /\ g = generations[a][Len(generations[a])]
      BY <1>0, <2>1 DEF OneThreadOf
    <3>2. \A g \in Generation : current[a] = g => InStack(a, g)'
      <4> SUFFICES ASSUME NEW g \in Generation, current[a] = g PROVE InStack(a, g)'
        OBVIOUS
      <4>1. PICK s \in Seq(Generation) : s = generations[a]
        BY DEF TypeInv, TypeOK
      <4>2. s # <<>> /\ s[Len(s)] = g
        BY <3>1, <4>1
      <4>3. Len(s) \in DOMAIN s
        BY <4>2
      <4> QED
        BY <2>1, <4>1, <4>2, <4>3 DEF InStack
    <3>3. undo[a] = NoUndo
      BY <1>0, <2>1 DEF OneThreadOf
    <3> QED
      BY <2>1, <2>2, <3>1, <3>2, <3>3 DEF OneThreadOf
  <2>3. CASE b # a
    <3>1. call'[b] = call[b]
      BY <1>2, <2>3 DEF Touch, TypeInv, TypeOK
    <3>2. \A g \in Generation : Taken(b, g)' = Taken(b, g)
      BY <1>2, <2>3, TouchTakes
    <3> QED
      BY <1>0, <2>1, <3>1, <3>2, OneThreadStays
  <2> QED
    BY <2>2, <2>3
<1>3. ASSUME NEW a \in Agent, NEW f \in File, NEW t \in {"write", "edit"}, TouchAnew(a, f, t)
      PROVE  OneThreadOf(b)'
  <2>1. undo' = undo /\ call[a].at = "turn"
    BY <1>3 DEF TouchAnew, In
  <2>2. CASE b = a
    <3>1. PICK n \in Generation : n = turns[a] + 1
      BY <1>3, TouchAnewTakes
    <3>2. generations'[a] = Append(generations[a], n) /\ current'[a] = n
      BY <1>3, <3>1 DEF TouchAnew, TypeInv, TypeOK
    <3>3. undo[a] = NoUndo
      BY <1>0, <2>1 DEF OneThreadOf
    <3> QED
      BY <2>1, <2>2, <3>2, <3>3, OneThreadOnTop
  <2>3. CASE b # a
    <3>1. call'[b] = call[b] /\ generations'[b] = generations[b] /\ current'[b] = current[b]
      BY <1>3, <2>3 DEF TouchAnew, TypeInv, TypeOK
    <3>2. \A g \in Generation : Taken(b, g)' = Taken(b, g)
      BY <1>3, <2>3, TouchAnewTakes
    <3> QED
      BY <1>0, <2>1, <3>1, <3>2, OneThreadStays
  <2> QED
    BY <2>2, <2>3
<1>4. ASSUME NEW a \in Agent,
             EndTurn(a) \/ CheckStale(a) \/ CheckLocked(a) \/ Base(a) \/ Land(a) \/ Refresh(a)
      PROVE  OneThreadOf(b)'
  <2>1. UNCHANGED <<checkpoints, undo>>
    BY <1>4 DEF EndTurn, CheckStale, CheckLocked, Base, Land, Refresh
  <2>2. \E c : /\ call' = [call EXCEPT ![a] = c]
               /\ c.at # "idle" => call[a].at # "idle"
               /\ c.at \in Writing => call[a].at \in Writing
    <3>1. ASSUME NEW x PROVE [call[a] EXCEPT !.at = x].at = x
      BY DEF TypeInv, TypeOK, Call
    <3>2. ASSUME NEW v PROVE [call[a] EXCEPT !.at = "based", !.base = v].at = "based"
      BY DEF TypeInv, TypeOK, Call
    <3>3. [NoCall EXCEPT !.at = "turn"].at = "turn"
      BY DEF NoCall
    <3>4. CASE EndTurn(a)
      BY <3>1, <3>4, NotIdle DEF EndTurn, Goes
    <3>5. CASE Land(a)
      <4>1. call[a].at # "idle" /\ "landed" \notin Writing
        BY <3>5 DEF Land, In, Writing
      <4> QED
        BY <3>1, <3>5, <4>1 DEF Land, Goes
    <3>6. CASE CheckStale(a) \/ CheckLocked(a) \/ Base(a) \/ Refresh(a)
      <4>1. call[a].at # "idle" /\ (~Refresh(a) => call[a].at \in Writing) /\ "turn" \notin Writing
        BY <3>6 DEF CheckStale, CheckLocked, Base, Refresh, In, Writing
      <4>2. \/ call' = [call EXCEPT ![a] = [NoCall EXCEPT !.at = "turn"]]
            \/ ~Refresh(a) /\ \E x \in {"fresh", "allowed"} : call' = [call EXCEPT ![a] = [call[a] EXCEPT !.at = x]]
            \/ ~Refresh(a) /\ \E v : call' = [call EXCEPT ![a] = [call[a] EXCEPT !.at = "based", !.base = v]]
        <5>1. CASE Refresh(a)
          BY <5>1 DEF Refresh, Quit
        <5>2. CASE ~Refresh(a)
          BY <3>6, <5>2 DEF CheckStale, CheckLocked, Base, Goes, Quit
        <5> QED
          BY <5>1, <5>2
      <4> QED
        BY <4>1, <4>2, <3>1, <3>2, <3>3
    <3> QED
      BY <1>4, <3>4, <3>5, <3>6
  <2>3. /\ call'[b].at # "idle" => call[b].at # "idle"
        /\ call'[b].at \in Writing => call[b].at \in Writing
    BY <2>2 DEF TypeInv, TypeOK
  <2>4. \A g \in Generation : Taken(b, g)' = Taken(b, g)
    BY <2>1, SameTaken DEF checkpoints
  <2> QED
    BY <1>0, <2>1, <2>3, <2>4, OneThreadStays DEF checkpoints
<1>5. ASSUME NEW a \in Agent, RevertCheck(a) \/ Restore(a) PROVE OneThreadOf(b)'
  <2>1. UNCHANGED <<checkpoints, call>>
    BY <1>5 DEF RevertCheck, Restore
  <2>2. \A g \in Generation : Taken(b, g)' = Taken(b, g)
    BY <2>1, SameTaken DEF checkpoints
  <2>3. call[a].at = "idle"
    BY <1>0, <1>5 DEF RevertCheck, Restore, In, OneThreadOf, NoUndo
  <2>4. b # a => undo'[b] = undo[b]
    BY <1>5 DEF RevertCheck, Restore, TypeInv, TypeOK
  <2>5. \A g : InStack(b, g)' <=> InStack(b, g)
    BY <2>1 DEF InStack, checkpoints
  <2> QED
    BY <1>0, <2>1, <2>2, <2>3, <2>4, <2>5 DEF OneThreadOf, checkpoints
<1>6. ASSUME NEW a \in Agent, RevertPop(a) PROVE OneThreadOf(b)'
  <2>1. snapshots' = snapshots /\ call' = call /\ call[a].at = "idle"
    BY <1>0, <1>6 DEF RevertPop, OneThreadOf, NoUndo
  <2>2. \A g \in Generation : Taken(b, g)' = Taken(b, g)
    BY <2>1, SameTaken
  <2>3. CASE NonEmpty(a) = {}
    <3>1. current' = current /\ generations' = [generations EXCEPT ![a] = <<>>]
          /\ undo' = [undo EXCEPT ![a] = NoUndo]
      BY <1>6, <2>3 DEF RevertPop
    <3>2. CASE b # a
      <4>1. generations'[b] = generations[b] /\ undo'[b] = undo[b]
        BY <3>1, <3>2 DEF TypeInv, TypeOK
      <4> QED
        BY <1>0, <2>1, <2>2, <3>1, <4>1, OneThreadStays
    <3>3. CASE b = a
      <4>1. undo'[a] = NoUndo
        BY <3>1 DEF TypeInv, TypeOK
      <4>2. \A g \in Generation : InStack(a, g) => Taken(a, g) = {}
        <5> SUFFICES ASSUME NEW g \in Generation, NEW j \in DOMAIN generations[a], generations[a][j] = g
                     PROVE  Taken(a, g) = {}
          BY DEF InStack
        <5>1. snapshots[a][g] = <<>>
          BY <2>3 DEF NonEmpty
        <5> QED
          BY <5>1 DEF Taken
      <4>3. \A g \in Generation : current[a] = g => Taken(a, g) = {}
        BY <1>0, <4>2 DEF OneThreadOf
      <4> QED
        BY <1>0, <2>1, <2>2, <3>1, <3>3, <4>1, <4>3 DEF OneThreadOf
    <3> QED
      BY <3>2, <3>3
  <2>4. CASE NonEmpty(a) # {}
    <3>1. PICK i \in DOMAIN generations[a] :
            LET g == generations[a][i]
            IN  /\ g \in Generation /\ Taken(a, g) # {}
                /\ \A j \in DOMAIN generations[a] : i < j => Taken(a, generations[a][j]) = {}
                /\ generations'[a] = SubSeq(generations[a], 1, i - 1)
                /\ current'[a] = IF current[a] = g THEN None ELSE current[a]
                /\ undo'[a].at = "restoring" /\ undo'[a].of = g
                /\ Left(a)' = Taken(a, g)
                /\ \A c \in Agent : c # a => /\ generations'[c] = generations[c]
                                             /\ current'[c] = current[c] /\ undo'[c] = undo[c]
      BY <1>6, <2>4, PopTakes
    <3>2. CASE b # a
      BY <1>0, <2>1, <2>2, <3>1, <3>2, OneThreadStays
    <3>3. CASE b = a
      <4>1. PICK s \in Seq(Generation) : s = generations[a]
        BY DEF TypeInv, TypeOK
      <4>2. i \in 1..Len(s)
        BY <3>1, <4>1
      <4>3. PICK r : r = SubSeq(s, 1, i - 1)
        OBVIOUS
      <4>4. DOMAIN r = 1..(i - 1) /\ \A j \in 1..(i - 1) : r[j] = s[j]
        BY <4>2, <4>3
      <4>5. generations'[a] = r
        BY <3>1, <4>1, <4>3
      <4>6. ASSUME NEW g \in Generation, current'[a] = g, Taken(a, g) # {} PROVE InStack(a, g)'
        <5>1. g # None
          BY GenerationIsNat, EditsAssumption
        <5>2. current[a] = g /\ s[i] # g
          BY <3>1, <4>1, <4>6, <5>1
        <5>3. InStack(a, g)
          BY <1>0, <4>6, <5>2 DEF OneThreadOf
        <5>4. PICK j \in DOMAIN s : s[j] = g
          BY <4>1, <5>3 DEF InStack
        <5>5. ~(i < j) /\ j # i
          BY <3>1, <4>1, <4>6, <5>2, <5>4
        <5>6. j \in 1..(i - 1)
          BY <4>2, <5>4, <5>5
        <5> QED
          BY <4>4, <4>5, <5>4, <5>6 DEF InStack
      <4>7. call'[a].at = "idle" /\ "idle" \notin Writing
        BY <2>1, NotIdle
      <4> QED
        BY <2>2, <3>3, <4>6, <4>7 DEF OneThreadOf
    <3> QED
      BY <3>2, <3>3
  <2> QED
    BY <2>3, <2>4
<1>7. ASSUME NEW a \in Agent, RevertDone(a) \/ RestoreFails(a) \/ CloseSession(a)
      PROVE  OneThreadOf(b)'
  <2>1. UNCHANGED <<snapshots, call>>
    BY <1>7 DEF RevertDone, RestoreFails, CloseSession, checkpoints
  <2>2. \A g \in Generation : Taken(b, g)' = Taken(b, g)
    BY <2>1, SameTaken
  <2>3. undo' = [undo EXCEPT ![a] = NoUndo] \/ (undo' = undo /\ undo[a] = NoUndo)
    BY <1>7 DEF RevertDone, RestoreFails, CloseSession
  <2>4. \/ generations' = generations /\ current' = current
        \/ /\ generations' = [generations EXCEPT ![a] = <<>>]
           /\ current' = [current EXCEPT ![a] = None]
           /\ call[a].at = "idle"
    BY <1>0, <1>7 DEF RevertDone, RestoreFails, CloseSession, Gone, checkpoints, In, OneThreadOf, NoUndo
  <2>5. CASE b # a
    <3>1. undo'[b] = undo[b] /\ generations'[b] = generations[b] /\ current'[b] = current[b]
      BY <2>3, <2>4, <2>5 DEF TypeInv, TypeOK
    <3> QED
      BY <1>0, <2>1, <2>2, <3>1, OneThreadStays
  <2>6. CASE b = a
    <3>1. undo'[b] = NoUndo
      BY <2>3, <2>6 DEF TypeInv, TypeOK
    <3>2. CASE generations' = generations /\ current' = current
      <4>1. \A g : InStack(b, g)' <=> InStack(b, g)
        BY <3>2 DEF InStack
      <4> QED
        BY <1>0, <2>1, <2>2, <3>1, <3>2, <4>1 DEF OneThreadOf
    <3>3. CASE current' = [current EXCEPT ![a] = None] /\ call[a].at = "idle"
      <4>1. current'[a] = None
        BY <3>3 DEF TypeInv, TypeOK
      <4>2. None \notin Generation /\ call[a].at \notin Writing
        BY <3>3, GenerationIsNat, EditsAssumption, NotIdle
      <4> QED
        BY <2>1, <2>6, <3>1, <4>1, <4>2 DEF OneThreadOf
    <3> QED
      BY <2>4, <3>2, <3>3
  <2> QED
    BY <2>5, <2>6
<1>8. ASSUME \/ GoStale \/ \E f \in File : UserEdit(f)
             \/ \E a \in Agent : Reopen(a) \/ \E f \in File : Read(a, f)
      PROVE  OneThreadOf(b)'
  <2>1. UNCHANGED <<checkpoints, undo, call>>
    BY <1>8 DEF GoStale, UserEdit, Reopen, Read
  <2>2. \A g \in Generation : Taken(b, g)' = Taken(b, g)
    BY <2>1, SameTaken DEF checkpoints
  <2> QED
    BY <1>0, <2>1, <2>2, OneThreadStays DEF checkpoints
<1> QED
  BY <1>1, <1>2, <1>3, <1>4, <1>5, <1>6, <1>7, <1>8 DEF Next, Edits

-----------------------------------------------------------------------------
(***************************************************************************)
(* What a turn found is kept.                                              *)
(***************************************************************************)
LEMMA InitFound == Init => FoundIsKept
<1> SUFFICES ASSUME Init, NEW a \in Agent PROVE FoundOf(a)
  BY DEF FoundIsKept
<1>1. Depth(a) = 0 /\ ~Restoring(a)
  BY DEF Init, Depth, Restoring, NoUndo
<1> QED
  BY <1>1 DEF FoundOf

LEMMA DepthIsNat ==
  ASSUME TypeInv, NEW a \in Agent
  PROVE  /\ Depth(a) \in Nat /\ DOMAIN generations[a] = 1..Depth(a)
         /\ \A i \in 1..Depth(a) : generations[a][i] \in Generation
BY DEF TypeInv, TypeOK, Depth

LEMMA SamePositions ==
  ASSUME TypeInv, NEW b \in Agent, generations'[b] = generations[b],
         \A g \in Generation : Taken(b, g)' = Taken(b, g)
  PROVE  Depth(b)' = Depth(b) /\ \A i \in 1..Depth(b) : Entries(b, i)' = Entries(b, i)
<1>1. Depth(b)' = Depth(b)
  BY DEF Depth
<1>2. ASSUME NEW i \in 1..Depth(b) PROVE Entries(b, i)' = Entries(b, i)
  <2>1. PICK g \in Generation : g = generations[b][i]
    BY DepthIsNat
  <2>2. generations'[b][i] = g
    BY <2>1
  <2>3. Entries(b, i)' = Taken(b, g)'
    BY <2>2 DEF Entries, Taken
  <2>4. Entries(b, i) = Taken(b, g)
    BY <2>1 DEF Entries
  <2> QED
    BY <2>3, <2>4
<1> QED
  BY <1>1, <1>2

LEMMA SameClear ==
  ASSUME NEW b, NEW f, NEW i \in Nat, NEW n,
         \A m \in i..n : Entries(b, m)' = Entries(b, m)
  PROVE  Clear(b, f, i, n)' <=> Clear(b, f, i, n)
BY DEF Clear, Has

\* Nothing happens to b's files but for those that somebody else has changed.
LEMMA FoundStays ==
  ASSUME TypeInv, NEW b \in Agent, FoundOf(b), generations'[b] = generations[b],
         \A g \in Generation : Taken(b, g)' = Taken(b, g),
         Left(b)' = Left(b), Restoring(b)' => Restoring(b) /\ undo'[b].of = undo[b].of,
         \A p \in File :
           \/ disk'[p] = disk[p] /\ \A g \in Generation : before'[b][g][p] = before[b][g][p]
           \/ \A g \in Generation : before'[b][g][p] = None
  PROVE  FoundOf(b)'
<1>1. Depth(b)' = Depth(b) /\ \A i \in 1..Depth(b) : Entries(b, i)' = Entries(b, i)
  BY SamePositions
<1>2. Depth(b) \in Nat
  BY DepthIsNat
<1>3. ASSUME NEW f \in File, NEW i \in Nat \ {0}, NEW n \in 0..Depth(b)
      PROVE  Clear(b, f, i, n)' <=> Clear(b, f, i, n)
  <2>1. \A m \in i..n : m \in 1..Depth(b)
    BY <1>2
  <2> QED
    BY <1>1, <2>1, SameClear
<1>4. ASSUME NEW f \in File, NEW v, NEW v1, v1 = None \/ (v1 = v /\ disk'[f] = disk[f]), Rest(b, f, v)
      PROVE  /\ \A e \in Left(b)' : e.path = f => v1 \in {None, e.content}
             /\ Has(Left(b)', f) \/ v1 \in {None, disk'[f]}
  BY <1>4 DEF Rest
<1>5. ASSUME NEW i \in 1..Depth(b), NEW f \in File
      PROVE  Found(b, i, f)' = None \/ (Found(b, i, f)' = Found(b, i, f) /\ disk'[f] = disk[f])
  <2>1. generations[b][i] \in Generation
    BY DepthIsNat
  <2> QED
    BY <2>1 DEF Found
<1>6. ASSUME NEW f \in File, NEW i \in 1..Depth(b), NEW j \in 1..Depth(b), NEW e \in Entries(b, j),
             i <= j, e.path = f, Clear(b, f, i, j - 1)'
      PROVE  Found(b, i, f)' \in {None, e.content}
  <2>1. Clear(b, f, i, j - 1)
    BY <1>2, <1>3, <1>6
  <2>2. Found(b, i, f) \in {None, e.content}
    BY <1>6, <2>1 DEF FoundOf
  <2> QED
    BY <1>5, <2>2
<1>7. ASSUME NEW f \in File, NEW i \in 1..Depth(b), Clear(b, f, i, Depth(b))'
      PROVE  Rest(b, f, Found(b, i, f))'
  <2>0. Clear(b, f, i, Depth(b))
    <3>1. PICK n \in 0..Depth(b) : n = Depth(b)
      BY <1>2
    <3>2. Clear(b, f, i, n)'
      BY <1>1, <1>7, <3>1 DEF Clear, Has
    <3> QED
      BY <1>2, <1>3, <3>1, <3>2
  <2>1. PICK v : v = Found(b, i, f)
    OBVIOUS
  <2>2. PICK v1 : v1 = Found(b, i, f)'
    OBVIOUS
  <2>3. Rest(b, f, v)
    BY <2>0, <2>1 DEF FoundOf
  <2> QED
    BY <1>4, <1>5, <2>1, <2>2, <2>3 DEF Rest, Has
<1>8. ASSUME NEW f \in File, NEW g \in Generation, Restoring(b)', undo'[b].of = g
      PROVE  Rest(b, f, before[b][g][f])'
  <2>1. PICK v : v = before[b][g][f]
    OBVIOUS
  <2>2. PICK v1 : v1 = before'[b][g][f]
    OBVIOUS
  <2>3. Rest(b, f, v)
    BY <1>8, <2>1 DEF FoundOf
  <2>4. v1 = None \/ (v1 = v /\ disk'[f] = disk[f])
    BY <2>1, <2>2
  <2> QED
    BY <1>4, <2>2, <2>3, <2>4 DEF Rest, Has
<1> QED
  BY <1>1, <1>6, <1>7, <1>8 DEF FoundOf

\* A turn begins, or goes on in a generation of its own: what it finds is on
\* disk, and the first file it touches is kept as it is on disk.
LEMMA FoundGrows ==
  ASSUME NEW a \in Agent, FoundOf(a), NEW d \in Nat, Depth(a) = d, Depth(a)' = d + 1,
         \A i \in 1..d : Entries(a, i)' = Entries(a, i),
         \A e \in Entries(a, d + 1)' : e.content = disk[e.path],
         \A i \in 1..d, f \in File : Found(a, i, f)' = Found(a, i, f),
         \A f \in File : Found(a, d + 1, f)' = disk[f],
         Left(a) = {}, Left(a)' = {}, ~Restoring(a)', disk' = disk
  PROVE  FoundOf(a)'
<1>0. d = Depth(a) /\ Depth(a)' = d + 1
  OBVIOUS
<1>1. \A v, f : Rest(a, f, v) <=> v \in {None, disk[f]}
  BY DEF Rest, Has
<1>2. ASSUME NEW f \in File, NEW i \in 1..d, NEW n \in 0..d, Clear(a, f, i, n)'
      PROVE  Clear(a, f, i, n)
  <2>1. \A m \in i..n : m \in 1..d
    BY <1>0
  <2> QED
    BY <1>0, <1>2, <2>1 DEF Clear, Has
<1>3. ASSUME NEW f \in File, NEW i \in 1..(d + 1), NEW j \in 1..(d + 1), NEW e \in Entries(a, j)',
             i <= j, e.path = f, Clear(a, f, i, j - 1)'
      PROVE  Found(a, i, f)' \in {None, e.content}
  <2>1. CASE j \in 1..d
    <3>1. i \in 1..d /\ j - 1 \in 0..d
      BY <1>0, <1>3, <2>1
    <3>2. Clear(a, f, i, j - 1)
      BY <1>2, <1>3, <3>1
    <3>3. e \in Entries(a, j) /\ Found(a, i, f)' = Found(a, i, f)
      BY <1>0, <1>3, <2>1, <3>1
    <3> QED
      BY <1>0, <1>3, <2>1, <3>1, <3>2, <3>3 DEF FoundOf
  <2>2. CASE j = d + 1 /\ i \in 1..d
    <3>1. j - 1 = d
      BY <1>0, <2>2
    <3>2. Clear(a, f, i, d)
      BY <1>0, <1>2, <1>3, <2>2, <3>1
    <3>3. Rest(a, f, Found(a, i, f))
      BY <1>0, <2>2, <3>2 DEF FoundOf
    <3>4. e.content = disk[f]
      BY <1>0, <1>3, <2>2
    <3> QED
      BY <1>0, <1>1, <2>2, <3>3, <3>4
  <2>3. CASE j = d + 1 /\ i = d + 1
    BY <1>0, <1>3, <2>3
  <2> QED
    BY <1>0, <2>1, <2>2, <2>3
<1>4. ASSUME NEW f \in File, NEW i \in 1..(d + 1), Clear(a, f, i, Depth(a))'
      PROVE  Found(a, i, f)' \in {None, disk[f]}
  <2>1. CASE i \in 1..d
    <3>1. \A m \in i..d : m \in i..(d + 1)
      BY <1>0, <2>1
    <3>2. Clear(a, f, i, d)'
      BY <1>0, <1>4, <3>1 DEF Clear
    <3>3. d \in 0..d
      BY <1>0
    <3>4. Clear(a, f, i, d)
      BY <1>2, <2>1, <3>2, <3>3
    <3>5. Rest(a, f, Found(a, i, f))
      BY <1>0, <2>1, <3>4 DEF FoundOf
    <3> QED
      BY <1>0, <1>1, <2>1, <3>5
  <2>2. CASE i = d + 1
    BY <1>0, <2>2
  <2> QED
    BY <1>0, <2>1, <2>2
<1>5. ASSUME NEW f \in File, NEW v, v \in {None, disk[f]} PROVE Has(Left(a)', f) \/ v \in {None, disk'[f]}
  BY <1>5
<1> QED
  BY <1>0, <1>3, <1>4, <1>5 DEF FoundOf, Rest

\* The turn touches file f, which its generation on top of the stack has not.
LEMMA FoundTouched ==
  ASSUME NEW a \in Agent, FoundOf(a), Depth(a) \in Nat \ {0}, Depth(a)' = Depth(a),
         NEW f0 \in File, NEW e0, e0.path = f0, e0.content = disk[f0],
         ~Has(Entries(a, Depth(a)), f0),
         \A i \in 1..(Depth(a) - 1) : Entries(a, i)' = Entries(a, i),
         Entries(a, Depth(a))' = Entries(a, Depth(a)) \cup {e0},
         \A i \in 1..Depth(a), f \in File : Found(a, i, f)' = Found(a, i, f),
         Left(a) = {}, Left(a)' = {}, ~Restoring(a)', disk' = disk
  PROVE  FoundOf(a)'
<1>0. PICK d \in Nat \ {0} : d = Depth(a) /\ Depth(a)' = d
  OBVIOUS
<1>1. \A v, f : Rest(a, f, v) <=> v \in {None, disk[f]}
  BY DEF Rest, Has
<1>2. Entries(a, d)' = Entries(a, d) \cup {e0}
  <2>1. Entries(a, Depth(a))' = Entries(a, d)'
    BY <1>0 DEF Entries
  <2> QED
    BY <1>0, <2>1
<1>3. \A i \in 1..d : Entries(a, i) \subseteq Entries(a, i)'
  <2> SUFFICES ASSUME NEW i \in 1..d PROVE Entries(a, i) \subseteq Entries(a, i)'
    OBVIOUS
  <2>1. CASE i = d
    BY <1>2, <2>1
  <2>2. CASE i \in 1..(d - 1)
    BY <1>0, <2>2
  <2> QED
    BY <1>0, <2>1, <2>2
<1>4. ASSUME NEW f \in File, NEW i \in 1..d, NEW n \in 0..d, Clear(a, f, i, n)'
      PROVE  Clear(a, f, i, n)
  <2>1. \A m \in i..n : m \in 1..d
    BY <1>0
  <2> QED
    BY <1>0, <1>3, <1>4, <2>1 DEF Clear, Has
<1>5. ASSUME NEW f \in File, NEW i \in 1..d, NEW j \in 1..d, NEW e \in Entries(a, j)',
             i <= j, e.path = f, Clear(a, f, i, j - 1)'
      PROVE  Found(a, i, f)' \in {None, e.content}
  <2>0. j - 1 \in 0..d
    BY <1>0
  <2>1. Clear(a, f, i, j - 1)
    BY <1>4, <1>5, <2>0
  <2>2. CASE e \in Entries(a, j)
    BY <1>0, <1>5, <2>1, <2>2 DEF FoundOf
  <2>3. CASE e \notin Entries(a, j)
    <3>1. j = d /\ e = e0
      <4>1. j \notin 1..(d - 1)
        BY <1>0, <1>5, <2>3
      <4>2. j = d
        BY <1>0, <4>1
      <4> QED
        BY <1>2, <1>5, <2>3, <4>2
    <3>2. \A m \in i..d : m \in i..(d - 1) \/ m = d
      BY <1>0
    <3>3. f = f0 /\ ~Has(Entries(a, d), f)
      BY <1>0, <1>5, <3>1
    <3>4. Clear(a, f, i, d)
      BY <2>1, <3>1, <3>2, <3>3 DEF Clear
    <3>5. Rest(a, f, Found(a, i, f))
      BY <1>0, <3>4 DEF FoundOf
    <3> QED
      BY <1>0, <1>1, <3>1, <3>3, <3>5
  <2> QED
    BY <2>2, <2>3
<1>6. ASSUME NEW f \in File, NEW i \in 1..d, Clear(a, f, i, Depth(a))'
      PROVE  Found(a, i, f)' \in {None, disk[f]}
  <2>1. Clear(a, f, i, d)' /\ d \in 0..d
    BY <1>0, <1>6 DEF Clear
  <2>2. Clear(a, f, i, d)
    BY <1>4, <2>1
  <2>3. Rest(a, f, Found(a, i, f))
    BY <1>0, <2>2 DEF FoundOf
  <2> QED
    BY <1>0, <1>1, <2>3
<1>7. ASSUME NEW f \in File, NEW v, v \in {None, disk[f]} PROVE Has(Left(a)', f) \/ v \in {None, disk'[f]}
  BY <1>7
<1> QED
  BY <1>0, <1>5, <1>6, <1>7 DEF FoundOf, Rest

\* The turn writes a file that its generation on top of the stack has.
LEMMA FoundLands ==
  ASSUME NEW a \in Agent, FoundOf(a), Depth(a) \in Nat \ {0}, Depth(a)' = Depth(a),
         NEW f0 \in File, Has(Entries(a, Depth(a)), f0),
         \A i \in 1..Depth(a) : Entries(a, i)' = Entries(a, i),
         \A i \in 1..Depth(a), f \in File : Found(a, i, f)' = Found(a, i, f),
         Left(a)' = Left(a), ~Restoring(a)', \A f \in File : f # f0 => disk'[f] = disk[f]
  PROVE  FoundOf(a)'
<1>0. PICK d \in Nat \ {0} : d = Depth(a) /\ Depth(a)' = d
  OBVIOUS
<1>1. ASSUME NEW f \in File, NEW i \in 1..d, NEW n \in 0..d, Clear(a, f, i, n)'
      PROVE  Clear(a, f, i, n)
  <2>1. \A m \in i..n : m \in 1..d
    BY <1>0
  <2> QED
    BY <1>0, <1>1, <2>1 DEF Clear, Has
<1>2. ASSUME NEW f \in File, NEW i \in 1..d, NEW j \in 1..d, NEW e \in Entries(a, j)',
             i <= j, e.path = f, Clear(a, f, i, j - 1)'
      PROVE  Found(a, i, f)' \in {None, e.content}
  <2>0. j - 1 \in 0..d
    BY <1>0
  <2>1. Clear(a, f, i, j - 1)
    BY <1>1, <1>2, <2>0
  <2> QED
    BY <1>0, <1>2, <2>1 DEF FoundOf
<1>3. ASSUME NEW f \in File, NEW i \in 1..d, Clear(a, f, i, Depth(a))'
      PROVE  Rest(a, f, Found(a, i, f))'
  <2>1. Clear(a, f, i, d)' /\ d \in 0..d
    BY <1>0, <1>3 DEF Clear
  <2>2. Clear(a, f, i, d)
    BY <1>1, <2>1
  <2>3. Rest(a, f, Found(a, i, f))
    BY <1>0, <2>2 DEF FoundOf
  <2>4. f # f0
    BY <1>0, <2>2 DEF Clear
  <2>5. PICK v : v = Found(a, i, f) /\ v = Found(a, i, f)'
    BY <1>0
  <2> QED
    BY <2>3, <2>4, <2>5 DEF Rest, Has
<1> QED
  BY <1>0, <1>2, <1>3 DEF FoundOf

\* A revert takes position k of the stack, above which nothing was touched.
LEMMA FoundPops ==
  ASSUME NEW a \in Agent, FoundOf(a), NEW d \in Nat, Depth(a) = d, NEW k \in 1..d, Depth(a)' = k - 1,
         \A i \in 1..(k - 1) : Entries(a, i)' = Entries(a, i),
         \A i \in 1..(k - 1), f \in File : Found(a, i, f)' = Found(a, i, f),
         \A i \in 1..d : k < i => Entries(a, i) = {},
         Left(a) = {}, Left(a)' = Entries(a, k), disk' = disk,
         \A g \in Generation, f \in File : undo'[a].of = g => before'[a][g][f] = Found(a, k, f)
  PROVE  FoundOf(a)'
<1>1. \A v, f : Rest(a, f, v) <=> v \in {None, disk[f]}
  BY DEF Rest, Has
<1>2. ASSUME NEW f \in File, NEW i \in 1..(k - 1), NEW n \in 0..(k - 1), Clear(a, f, i, n)'
      PROVE  Clear(a, f, i, n)
  <2>1. \A m \in i..n : m \in 1..(k - 1)
    OBVIOUS
  <2> QED
    BY <1>2, <2>1 DEF Clear, Has
\* What a turn at or below position k found of a file that no turn between has touched.
<1>3. ASSUME NEW f \in File, NEW i \in 1..k, Clear(a, f, i, k - 1)
      PROVE  /\ \A e \in Left(a)' : e.path = f => Found(a, i, f) \in {None, e.content}
             /\ Has(Left(a)', f) \/ Found(a, i, f) \in {None, disk'[f]}
  <2>0. i \in 1..d /\ i <= k
    OBVIOUS
  <2>1. \A e \in Left(a)' : e.path = f => Found(a, i, f) \in {None, e.content}
    BY <1>3, <2>0 DEF FoundOf
  <2>2. ASSUME ~Has(Left(a)', f) PROVE Found(a, i, f) \in {None, disk'[f]}
    <3>1. ~Has(Entries(a, k), f)
      BY <2>2 DEF Has
    <3>2. \A m \in i..d : m \in i..(k - 1) \/ m = k \/ (m \in 1..d /\ k < m)
      BY <2>0
    <3>3. Clear(a, f, i, d)
      BY <1>3, <3>1, <3>2 DEF Clear, Has
    <3>4. Rest(a, f, Found(a, i, f))
      BY <2>0, <3>3 DEF FoundOf
    <3> QED
      BY <1>1, <3>4
  <2> QED
    BY <2>1, <2>2
<1>4. ASSUME NEW f \in File, NEW i \in 1..(k - 1), NEW j \in 1..(k - 1), NEW e \in Entries(a, j)',
             i <= j, e.path = f, Clear(a, f, i, j - 1)'
      PROVE  Found(a, i, f)' \in {None, e.content}
  <2>0. j - 1 \in 0..(k - 1) /\ i \in 1..d /\ j \in 1..d
    OBVIOUS
  <2>1. Clear(a, f, i, j - 1)
    BY <1>2, <1>4, <2>0
  <2>2. e \in Entries(a, j) /\ Found(a, i, f)' = Found(a, i, f)
    BY <1>4
  <2> QED
    BY <1>4, <2>0, <2>1, <2>2 DEF FoundOf
<1>5. ASSUME NEW f \in File, NEW i \in 1..(k - 1), Clear(a, f, i, Depth(a))'
      PROVE  Rest(a, f, Found(a, i, f))'
  <2>0. k - 1 \in 0..(k - 1) /\ i \in 1..k
    OBVIOUS
  <2>1. Clear(a, f, i, k - 1)'
    BY <1>5 DEF Clear
  <2>2. Clear(a, f, i, k - 1)
    BY <1>2, <2>0, <2>1
  <2>3. Found(a, i, f)' = Found(a, i, f)
    OBVIOUS
  <2> QED
    BY <1>3, <2>0, <2>2, <2>3 DEF Rest
<1>6. ASSUME NEW f \in File, NEW g \in Generation, undo'[a].of = g
      PROVE  Rest(a, f, before[a][g][f])'
  <2>1. k \in 1..k /\ Clear(a, f, k, k - 1)
    BY DEF Clear
  <2>2. before'[a][g][f] = Found(a, k, f)
    BY <1>6
  <2> QED
    BY <1>3, <2>1, <2>2 DEF Rest
<1> QED
  BY <1>4, <1>5, <1>6 DEF FoundOf

\* A revert restores entry e.
LEMMA FoundRestores ==
  ASSUME NEW a \in Agent, FoundOf(a), Depth(a)' = Depth(a), Depth(a) \in Nat,
         \A i \in 1..Depth(a) : Entries(a, i)' = Entries(a, i),
         \A i \in 1..Depth(a), f \in File : Found(a, i, f)' = Found(a, i, f),
         NEW e0, e0.path \in File, e0 \in Left(a),
         Left(a)' \subseteq Left(a), Left(a) \subseteq Left(a)' \cup {e0},
         disk'[e0.path] = e0.content, \A f \in File : f # e0.path => disk'[f] = disk[f],
         Restoring(a), undo'[a].of = undo[a].of,
         \A g \in Generation, f \in File : before'[a][g][f] = before[a][g][f]
  PROVE  FoundOf(a)'
<1>0. PICK d \in Nat : d = Depth(a) /\ Depth(a)' = d
  OBVIOUS
<1>1. ASSUME NEW f \in File, NEW i \in 1..d, NEW n \in 0..d, Clear(a, f, i, n)'
      PROVE  Clear(a, f, i, n)
  <2>1. \A m \in i..n : m \in 1..d
    BY <1>0
  <2> QED
    BY <1>0, <1>1, <2>1 DEF Clear, Has
<1>2. ASSUME NEW f \in File, NEW v, Rest(a, f, v)
      PROVE  /\ \A e \in Left(a)' : e.path = f => v \in {None, e.content}
             /\ Has(Left(a)', f) \/ v \in {None, disk'[f]}
  <2>1. CASE f = e0.path
    BY <1>2, <2>1 DEF Rest
  <2>2. CASE f # e0.path
    BY <1>2, <2>2 DEF Rest, Has
  <2> QED
    BY <2>1, <2>2
<1>3. ASSUME NEW f \in File, NEW i \in 1..d, NEW j \in 1..d, NEW e \in Entries(a, j)',
             i <= j, e.path = f, Clear(a, f, i, j - 1)'
      PROVE  Found(a, i, f)' \in {None, e.content}
  <2>0. j - 1 \in 0..d
    BY <1>0
  <2>1. Clear(a, f, i, j - 1)
    BY <1>1, <1>3, <2>0
  <2> QED
    BY <1>0, <1>3, <2>1 DEF FoundOf
<1>4. ASSUME NEW f \in File, NEW i \in 1..d, Clear(a, f, i, Depth(a))'
      PROVE  Rest(a, f, Found(a, i, f))'
  <2>1. Clear(a, f, i, d)' /\ d \in 0..d
    BY <1>0, <1>4 DEF Clear
  <2>2. Clear(a, f, i, d)
    BY <1>1, <2>1
  <2>3. PICK v : v = Found(a, i, f) /\ v = Found(a, i, f)'
    BY <1>0
  <2>4. Rest(a, f, v)
    BY <1>0, <2>2, <2>3 DEF FoundOf
  <2> QED
    BY <1>2, <2>3, <2>4 DEF Rest
<1>5. ASSUME NEW f \in File, NEW g \in Generation, undo'[a].of = g
      PROVE  Rest(a, f, before[a][g][f])'
  <2>1. PICK v : v = before[a][g][f] /\ v = before'[a][g][f]
    OBVIOUS
  <2>2. Rest(a, f, v)
    BY <1>5, <2>1 DEF FoundOf
  <2> QED
    BY <1>2, <2>1, <2>2 DEF Rest
<1> QED
  BY <1>0, <1>3, <1>4, <1>5 DEF FoundOf

LEMMA GrownPositions ==
  ASSUME TypeInv, NEW a \in Agent, NEW n \in Generation, NEW d \in Nat, Depth(a) = d,
         generations'[a] = Append(generations[a], n),
         \A i \in 1..d : generations[a][i] # n,
         \A g \in Generation : g # n => Taken(a, g)' = Taken(a, g),
         before' = [before EXCEPT ![a][n] = disk]
  PROVE  /\ Depth(a)' = d + 1
         /\ \A i \in 1..d : Entries(a, i)' = Entries(a, i)
         /\ Entries(a, d + 1)' = Taken(a, n)'
         /\ \A i \in 1..d, f \in File : Found(a, i, f)' = Found(a, i, f)
         /\ \A f \in File : Found(a, d + 1, f)' = disk[f]
<1>1. PICK s \in Seq(Generation) : s = generations[a]
  BY DEF TypeInv, TypeOK
<1>2. PICK r : r = Append(s, n) /\ generations'[a] = r
  BY <1>1
<1>3. /\ Len(s) = d /\ Len(r) = d + 1 /\ r[d + 1] = n
      /\ \A i \in 1..d : r[i] = s[i] /\ s[i] \in Generation /\ s[i] # n
  BY <1>1, <1>2 DEF Depth
<1>4. Depth(a)' = d + 1
  BY <1>2, <1>3 DEF Depth
<1>5. ASSUME NEW i \in 1..d PROVE Entries(a, i)' = Entries(a, i)
  <2>1. PICK g \in Generation : g = s[i] /\ g # n /\ g = r[i]
    BY <1>3
  <2>2. Entries(a, i)' = Taken(a, g)'
    BY <1>2, <2>1 DEF Entries, Taken
  <2>3. Entries(a, i) = Taken(a, g)
    BY <1>1, <2>1 DEF Entries
  <2> QED
    BY <2>1, <2>2, <2>3
<1>6. Entries(a, d + 1)' = Taken(a, n)'
  BY <1>2, <1>3 DEF Entries, Taken
<1>7. /\ \A g \in Generation : g # n => before'[a][g] = before[a][g]
      /\ before'[a][n] = disk
  BY DEF TypeInv, TypeOK
<1>8. \A i \in 1..d, f \in File : Found(a, i, f)' = Found(a, i, f)
  BY <1>1, <1>2, <1>3, <1>7 DEF Found
<1>9. \A f \in File : Found(a, d + 1, f)' = disk[f]
  BY <1>2, <1>3, <1>7 DEF Found
<1> QED
  BY <1>4, <1>5, <1>6, <1>8, <1>9

\* The numbers in the stack are old.
LEMMA OldNumbers ==
  ASSUME TypeInv, Numbered, NEW a \in Agent, NEW i \in 1..Depth(a)
  PROVE  generations[a][i] # turns[a] + 1
<1>1. i \in DOMAIN generations[a] /\ generations[a][i] \in Nat
  BY DepthIsNat, GenerationIsNat
<1>2. generations[a][i] <= turns[a] /\ turns[a] \in Nat
  BY <1>1 DEF Numbered, NumberedOf, TypeInv
<1> QED
  BY <1>1, <1>2

LEMMA NotRestoring ==
  ASSUME Numbered, NEW a \in Agent, ~Restoring(a)
  PROVE  Left(a) = {}
BY DEF Numbered, NumberedOf

LEMMA GoneFound ==
  ASSUME NEW a \in Agent, generations'[a] = <<>>, undo'[a] = NoUndo
  PROVE  FoundOf(a)'
<1>1. Depth(a)' = 0 /\ ~Restoring(a)'
  BY DEF Depth, Restoring, NoUndo
<1> QED
  BY <1>1 DEF FoundOf

LEMMA NextFound == TypeInv /\ Numbered /\ OwnWork /\ OneThread /\ FoundIsKept /\ Next => FoundIsKept'
<1> SUFFICES ASSUME TypeInv, Numbered, OwnWork, OneThread, FoundIsKept, Next, ~gui, NEW b \in Agent
             PROVE  FoundOf(b)'
  BY DEF FoundIsKept, Next
<1>0. FoundOf(b) /\ \A a \in Agent : OneThreadOf(a)
  BY DEF OneThread, FoundIsKept
\* A turn is not in a revert, and has its generation on top of the stack.
<1>t. ASSUME NEW a \in Agent, call[a].at # "idle"
      PROVE  /\ undo[a] = NoUndo /\ ~Restoring(a) /\ Left(a) = {}
             /\ \A g \in Generation : g = current[a]
                  => Depth(a) \in Nat \ {0} /\ g = generations[a][Depth(a)]
                     /\ Entries(a, Depth(a)) = Taken(a, g)
  <2>1. undo[a] = NoUndo
    BY <1>0, <1>t DEF OneThreadOf
  <2>2. ~Restoring(a)
    BY <2>1 DEF Restoring, NoUndo
  <2>3. ASSUME NEW g \in Generation, g = current[a]
        PROVE  Depth(a) \in Nat \ {0} /\ g = generations[a][Depth(a)] /\ Entries(a, Depth(a)) = Taken(a, g)
    <3>1. generations[a] # <<>> /\ g = generations[a][Depth(a)]
      BY <1>0, <1>t, <2>3 DEF OneThreadOf, Depth
    <3>2. Depth(a) \in Nat \ {0}
      BY <3>1 DEF Depth, TypeInv, TypeOK
    <3> QED
      BY <3>1, <3>2 DEF Entries
  <2> QED
    BY <2>1, <2>2, <2>3, NotRestoring
\* Another agent works, and changes nothing of b but its view of a file.
<1>f. ASSUME generations'[b] = generations[b], \A g \in Generation : Taken(b, g)' = Taken(b, g),
             undo'[b] = undo[b],
             \A p \in File :
               \/ disk'[p] = disk[p] /\ \A g \in Generation : before'[b][g][p] = before[b][g][p]
               \/ \A g \in Generation : before'[b][g][p] = None
      PROVE  FoundOf(b)'
  <2>1. Left(b)' = Left(b) /\ (Restoring(b)' => Restoring(b) /\ undo'[b].of = undo[b].of)
    BY <1>f DEF Left, Restoring
  <2> QED
    BY <1>0, <1>f, <2>1, FoundStays
<1>1. ASSUME NEW a \in Agent, BeginTurn(a) PROVE FoundOf(b)'
  <2>1. \A c \in Agent, g \in Generation : Taken(c, g)' = Taken(c, g)
    BY <1>1, SameTaken DEF BeginTurn
  <2>2. undo' = undo /\ disk' = disk /\ undo[a] = NoUndo
    BY <1>1 DEF BeginTurn
  <2>3. CASE b = a
    <3>1. PICK n \in Generation : n = turns[a] + 1
      <4>1. turns[a] \in Nat /\ MaxGen[a] \in Nat /\ turns[a] < MaxGen[a]
        BY <1>1, EditsAssumption DEF BeginTurn, TypeInv
      <4> QED
        BY <4>1, GenerationsFit
    <3>2. PICK d \in Nat : d = Depth(a)
      BY DepthIsNat
    <3>3. generations'[a] = Append(generations[a], n) /\ before' = [before EXCEPT ![a][n] = disk]
      BY <1>1, <3>1 DEF BeginTurn, TypeInv, TypeOK
    <3>4. \A i \in 1..d : generations[a][i] # n
      BY <3>1, <3>2, OldNumbers
    <3>5. /\ Depth(a)' = d + 1
          /\ \A i \in 1..d : Entries(a, i)' = Entries(a, i)
          /\ Entries(a, d + 1)' = Taken(a, n)'
          /\ \A i \in 1..d, f \in File : Found(a, i, f)' = Found(a, i, f)
          /\ \A f \in File : Found(a, d + 1, f)' = disk[f]
      BY <2>1, <3>2, <3>3, <3>4, GrownPositions
    <3>6. Taken(a, n) = {}
      <4>1. turns[a] < n
        BY <3>1 DEF TypeInv
      <4> QED
        BY <4>1 DEF Numbered, NumberedOf
    <3>7. Left(a) = {} /\ Left(a)' = {} /\ ~Restoring(a)'
      BY <2>2 DEF Left, Restoring, NoUndo
    <3>8. \A e \in Entries(a, d + 1)' : e.content = disk[e.path]
      BY <2>1, <3>5, <3>6
    <3> QED
      BY <1>0, <2>2, <2>3, <3>2, <3>5, <3>7, <3>8, FoundGrows
  <2>4. CASE b # a
    <3>1. generations'[b] = generations[b] /\ before'[b] = before[b]
      BY <1>1, <2>4 DEF BeginTurn, TypeInv, TypeOK
    <3> QED
      BY <1>f, <2>1, <2>2, <3>1
  <2> QED
    BY <2>3, <2>4
<1>2. ASSUME NEW a \in Agent, NEW f \in File, NEW t \in {"write", "edit"}, Touch(a, f, t)
      PROVE  FoundOf(b)'
  <2>1. /\ generations' = generations /\ undo' = undo /\ before' = before /\ disk' = disk
        /\ call[a].at # "idle"
    BY <1>2 DEF Touch, In
  <2>2. PICK n \in Generation : n = current[a]
    BY <1>2, TouchTakes
  <2>3. \A c \in Agent, g \in Generation :
          Taken(c, g)' = IF c = a /\ g = n /\ ~Has(Taken(a, n), f)
                           THEN Taken(c, g) \cup {Entry(f, disk[f])} ELSE Taken(c, g)
    BY <1>2, <2>2, TouchTakes
  <2>4. CASE b # a \/ Has(Taken(a, n), f)
    <3>1. \A g \in Generation : Taken(b, g)' = Taken(b, g)
      BY <2>3, <2>4
    <3> QED
      BY <1>f, <2>1, <3>1
  <2>5. CASE b = a /\ ~Has(Taken(a, n), f)
    <3>1. /\ undo[a] = NoUndo /\ Left(a) = {}
          /\ Depth(a) \in Nat \ {0} /\ n = generations[a][Depth(a)] /\ Entries(a, Depth(a)) = Taken(a, n)
      BY <1>t, <2>1, <2>2
    <3>2. PICK d \in Nat \ {0} : d = Depth(a)
      BY <3>1
    <3>3. Depth(a)' = Depth(a) /\ generations'[a] = generations[a]
      BY <2>1 DEF Depth
    <3>4. Entries(a, Depth(a))' = Entries(a, Depth(a)) \cup {Entry(f, disk[f])}
      <4>1. Entries(a, Depth(a))' = Taken(a, n)'
        BY <3>1, <3>3 DEF Entries, Taken
      <4> QED
        BY <2>3, <2>5, <3>1, <4>1
    <3>5. ASSUME NEW i \in 1..(Depth(a) - 1) PROVE Entries(a, i)' = Entries(a, i)
      <4>1. PICK g \in Generation : g = generations[a][i]
        BY <3>1, DepthIsNat
      <4>2. g # n
        <5>1. i \in DOMAIN generations[a] /\ Depth(a) \in DOMAIN generations[a] /\ i < Depth(a)
          BY <3>1, DepthIsNat
        <5>2. g < n
          BY <3>1, <4>1, <5>1 DEF Numbered, NumberedOf
        <5> QED
          BY <5>2, GenerationIsNat
      <4>3. Entries(a, i)' = Taken(a, g)'
        BY <3>3, <4>1 DEF Entries, Taken
      <4>4. Entries(a, i) = Taken(a, g)
        BY <4>1 DEF Entries
      <4> QED
        BY <2>3, <4>2, <4>3, <4>4
    <3>6. \A i \in 1..Depth(a), p \in File : Found(a, i, p)' = Found(a, i, p)
      BY <2>1 DEF Found
    <3>7. Left(a)' = {} /\ ~Restoring(a)'
      BY <2>1, <3>1 DEF Left, Restoring, NoUndo
    <3>8. PICK e : e = Entry(f, disk[f])
      OBVIOUS
    <3>9. e.path = f /\ e.content = disk[f]
      BY <3>8 DEF Entry
    <3>10. ~Has(Entries(a, Depth(a)), f)
      BY <2>5, <3>1
    <3> QED
      BY <1>0, <2>1, <2>5, <3>1, <3>3, <3>4, <3>5, <3>6, <3>7, <3>8, <3>9, <3>10, FoundTouched
  <2> QED
    BY <2>4, <2>5
<1>3. ASSUME NEW a \in Agent, NEW f \in File, NEW t \in {"write", "edit"}, TouchAnew(a, f, t)
      PROVE  FoundOf(b)'
  <2>1. undo' = undo /\ disk' = disk /\ call[a].at # "idle"
    BY <1>3 DEF TouchAnew, In
  <2>2. PICK n \in Generation : n = turns[a] + 1
    BY <1>3, TouchAnewTakes
  <2>3. \A c \in Agent, g \in Generation :
          Taken(c, g)' = IF c = a /\ g = n THEN {Entry(f, disk[f])} ELSE Taken(c, g)
    BY <1>3, <2>2, TouchAnewTakes
  <2>4. CASE b = a
    <3>2. PICK d \in Nat : d = Depth(a)
      BY DepthIsNat
    <3>3. generations'[a] = Append(generations[a], n) /\ before' = [before EXCEPT ![a][n] = disk]
      BY <1>3, <2>2 DEF TouchAnew, TypeInv, TypeOK
    <3>4. \A i \in 1..d : generations[a][i] # n
      BY <2>2, <3>2, OldNumbers
    <3>5. /\ Depth(a)' = d + 1
          /\ \A i \in 1..d : Entries(a, i)' = Entries(a, i)
          /\ Entries(a, d + 1)' = Taken(a, n)'
          /\ \A i \in 1..d, p \in File : Found(a, i, p)' = Found(a, i, p)
          /\ \A p \in File : Found(a, d + 1, p)' = disk[p]
      BY <2>3, <3>2, <3>3, <3>4, GrownPositions
    <3>6. undo[a] = NoUndo /\ Left(a) = {}
      BY <1>t, <2>1
    <3>7. Left(a)' = {} /\ ~Restoring(a)'
      BY <2>1, <3>6 DEF Left, Restoring, NoUndo
    <3>8. \A e \in Entries(a, d + 1)' : e.content = disk[e.path]
      BY <2>3, <3>5 DEF Entry
    <3> QED
      BY <1>0, <2>1, <2>4, <3>2, <3>5, <3>6, <3>7, <3>8, FoundGrows
  <2>5. CASE b # a
    <3>1. generations'[b] = generations[b] /\ before'[b] = before[b]
      BY <1>3, <2>5 DEF TouchAnew, TypeInv, TypeOK
    <3>2. \A g \in Generation : Taken(b, g)' = Taken(b, g)
      BY <2>3, <2>5
    <3> QED
      BY <1>f, <2>1, <3>1, <3>2
  <2> QED
    BY <2>4, <2>5
<1>4. ASSUME NEW a \in Agent, Land(a) PROVE FoundOf(b)'
  <2> DEFINE f == Target(a)
  <2>1. /\ call[a].at \in Writing /\ call[a].at # "idle" /\ f \in File
        /\ disk' = [disk EXCEPT ![f] = written + 1] /\ ChangedBy(a, f)
        /\ generations' = generations /\ undo' = undo /\ snapshots' = snapshots
    BY <1>4 DEF Land, In, Writing, TypeInv, Target, checkpoints
  <2>2. \A c \in Agent, g \in Generation : Taken(c, g)' = Taken(c, g)
    BY <2>1, SameTaken
  <2>3. \A p \in File : p # f => disk'[p] = disk[p]
    BY <2>1 DEF TypeInv, TypeOK
  <2>4. \A c \in Agent, g \in Generation, p \in File :
          before'[c][g][p] = IF c # a /\ p = f THEN None ELSE before[c][g][p]
    BY <2>1 DEF ChangedBy, TypeInv, TypeOK
  <2>5. CASE b # a
    <3>1. generations'[b] = generations[b] /\ undo'[b] = undo[b]
      BY <2>1
    <3>2. \A p \in File :
            \/ disk'[p] = disk[p] /\ \A g \in Generation : before'[b][g][p] = before[b][g][p]
            \/ \A g \in Generation : before'[b][g][p] = None
      BY <2>3, <2>4, <2>5
    <3> QED
      BY <1>f, <2>2, <3>1, <3>2
  <2>6. CASE b = a
    <3>1. PICK n \in Generation : n = current[a]
      BY <1>0, <2>1 DEF OneThreadOf, TypeInv, TypeOK
    <3>2. /\ undo[a] = NoUndo /\ Left(a) = {}
          /\ Depth(a) \in Nat \ {0} /\ Entries(a, Depth(a)) = Taken(a, n)
      BY <1>t, <2>1, <3>1
    <3>3. Has(Entries(a, Depth(a)), f)
      <4>1. n # None
        BY GenerationIsNat, EditsAssumption
      <4>2. Has(Taken(a, current[a]), f)
        BY <2>1, <3>1, <4>1 DEF OwnWork
      <4> QED
        BY <3>1, <3>2, <4>2
    <3>4. generations'[a] = generations[a]
      BY <2>1
    <3>5. Depth(a)' = Depth(a) /\ \A i \in 1..Depth(a) : Entries(a, i)' = Entries(a, i)
      BY <2>2, <3>4, SamePositions
    <3>6. \A i \in 1..Depth(a), p \in File : Found(a, i, p)' = Found(a, i, p)
      BY <2>4, <3>4, DepthIsNat DEF Found
    <3>7. Left(a)' = Left(a) /\ ~Restoring(a)'
      BY <2>1, <3>2 DEF Left, Restoring, NoUndo
    <3> HIDE DEF f
    <3> QED
      BY <1>0, <2>1, <2>3, <2>6, <3>2, <3>3, <3>5, <3>6, <3>7, FoundLands
  <2> QED
    BY <2>5, <2>6
<1>5. ASSUME NEW a \in Agent, RevertPop(a) PROVE FoundOf(b)'
  <2>1. UNCHANGED <<snapshots, before, disk>> /\ ~Restoring(a)
    BY <1>5 DEF RevertPop, Restoring
  <2>2. \A c \in Agent, g \in Generation : Taken(c, g)' = Taken(c, g)
    BY <2>1, SameTaken
  <2>3. CASE NonEmpty(a) = {}
    <3>1. /\ generations' = [generations EXCEPT ![a] = <<>>]
          /\ undo' = [undo EXCEPT ![a] = NoUndo]
      BY <1>5, <2>3 DEF RevertPop
    <3>2. b = a => generations'[b] = <<>> /\ undo'[b] = NoUndo
      BY <3>1 DEF TypeInv, TypeOK
    <3>3. b # a => generations'[b] = generations[b] /\ undo'[b] = undo[b]
      BY <3>1 DEF TypeInv, TypeOK
    <3> QED
      BY <1>f, <2>1, <2>2, <3>2, <3>3, GoneFound
  <2>4. CASE NonEmpty(a) # {}
    <3>1. PICK k \in DOMAIN generations[a] :
            LET g == generations[a][k]
            IN  /\ g \in Generation /\ Taken(a, g) # {}
                /\ \A j \in DOMAIN generations[a] : k < j => Taken(a, generations[a][j]) = {}
                /\ generations'[a] = SubSeq(generations[a], 1, k - 1)
                /\ current'[a] = IF current[a] = g THEN None ELSE current[a]
                /\ undo'[a].at = "restoring" /\ undo'[a].of = g
                /\ Left(a)' = Taken(a, g)
                /\ \A c \in Agent : c # a => /\ generations'[c] = generations[c]
                                             /\ current'[c] = current[c] /\ undo'[c] = undo[c]
      BY <1>5, <2>4, PopTakes
    <3>2. CASE b # a
      BY <1>f, <2>1, <2>2, <3>1, <3>2
    <3>3. CASE b = a
      <4>1. PICK s \in Seq(Generation) : s = generations[a]
        BY DEF TypeInv, TypeOK
      <4>2. PICK d \in Nat : d = Depth(a) /\ d = Len(s)
        BY <4>1 DEF Depth
      <4>3. k \in 1..d
        BY <3>1, <4>1, <4>2
      <4>4. PICK r : r = SubSeq(s, 1, k - 1)
        OBVIOUS
      <4>5. Len(r) = k - 1 /\ \A j \in 1..(k - 1) : r[j] = s[j] /\ s[j] \in Generation
        BY <4>2, <4>3, <4>4
      <4>6. generations'[a] = r
        BY <3>1, <4>1, <4>4
      <4>7. Depth(a)' = k - 1
        BY <4>5, <4>6 DEF Depth
      <4>8. ASSUME NEW i \in 1..(k - 1) PROVE Entries(a, i)' = Entries(a, i)
        <5>1. PICK g \in Generation : g = s[i] /\ g = r[i]
          BY <4>5
        <5>2. Entries(a, i)' = Taken(a, g)'
          BY <4>6, <5>1 DEF Entries, Taken
        <5>3. Entries(a, i) = Taken(a, g)
          BY <4>1, <5>1 DEF Entries
        <5> QED
          BY <2>2, <5>2, <5>3
      <4>9. \A i \in 1..(k - 1), f \in File : Found(a, i, f)' = Found(a, i, f)
        BY <2>1, <4>1, <4>5, <4>6 DEF Found
      <4>10. \A i \in 1..d : k < i => Entries(a, i) = {}
        <5> SUFFICES ASSUME NEW i \in 1..d, k < i PROVE Entries(a, i) = {}
          OBVIOUS
        <5>1. i \in DOMAIN generations[a]
          BY <4>1, <4>2
        <5>2. Taken(a, generations[a][i]) = {}
          BY <3>1, <5>1
        <5> QED
          BY <5>2 DEF Entries
      <4>11. Left(a) = {} /\ Left(a)' = Entries(a, k)
        BY <2>1, <3>1, NotRestoring DEF Entries
      <4>12. \A g \in Generation, f \in File : undo'[a].of = g => before'[a][g][f] = Found(a, k, f)
        BY <2>1, <3>1 DEF Found
      <4> QED
        BY <1>0, <2>1, <3>3, <4>2, <4>3, <4>7, <4>8, <4>9, <4>10, <4>11, <4>12, FoundPops
    <3> QED
      BY <3>2, <3>3
  <2> QED
    BY <2>3, <2>4
<1>6. ASSUME NEW a \in Agent, Restore(a) PROVE FoundOf(b)'
  <2>1. UNCHANGED <<generations, snapshots>> /\ Restoring(a)
    BY <1>6 DEF Restore, Restoring, checkpoints
  <2>2. PICK e \in Snapshot :
           /\ e \in Left(a) /\ Left(a)' \subseteq Left(a) /\ Left(a) \subseteq Left(a)' \cup {e}
           /\ disk' = [disk EXCEPT ![e.path] = e.content]
           /\ ChangedBy(a, e.path)
           /\ \A c \in Agent : c # a => undo'[c] = undo[c]
           /\ undo'[a].at = "restoring" /\ undo'[a].of = undo[a].of
    BY <1>6, RestoreLeaves
  <2>3. e.path \in File
    BY DEF Snapshot
  <2>4. \A c \in Agent, g \in Generation : Taken(c, g)' = Taken(c, g)
    BY <2>1, SameTaken
  <2>5. disk'[e.path] = e.content /\ \A p \in File : p # e.path => disk'[p] = disk[p]
    BY <2>2, <2>3 DEF TypeInv, TypeOK
  <2>6. \A c \in Agent, g \in Generation, p \in File :
          before'[c][g][p] = IF c # a /\ p = e.path THEN None ELSE before[c][g][p]
    BY <2>2, <2>3 DEF ChangedBy, TypeInv, TypeOK
  <2>7. CASE b # a
    <3>1. generations'[b] = generations[b] /\ undo'[b] = undo[b]
      BY <2>1, <2>2, <2>7
    <3>2. \A p \in File :
            \/ disk'[p] = disk[p] /\ \A g \in Generation : before'[b][g][p] = before[b][g][p]
            \/ \A g \in Generation : before'[b][g][p] = None
      BY <2>5, <2>6, <2>7
    <3> QED
      BY <1>f, <2>4, <3>1, <3>2
  <2>8. CASE b = a
    <3>1. generations'[a] = generations[a]
      BY <2>1
    <3>2. Depth(a)' = Depth(a) /\ Depth(a) \in Nat /\ \A i \in 1..Depth(a) : Entries(a, i)' = Entries(a, i)
      BY <2>4, <3>1, SamePositions, DepthIsNat
    <3>3. \A i \in 1..Depth(a), p \in File : Found(a, i, p)' = Found(a, i, p)
      BY <2>6, <3>1, DepthIsNat DEF Found
    <3>4. \A g \in Generation, p \in File : before'[a][g][p] = before[a][g][p]
      BY <2>6
    <3> QED
      BY <1>0, <2>1, <2>2, <2>3, <2>5, <2>8, <3>2, <3>3, <3>4, FoundRestores
  <2> QED
    BY <2>7, <2>8
<1>7. ASSUME NEW a \in Agent, RevertDone(a) \/ RestoreFails(a) \/ CloseSession(a)
      PROVE  FoundOf(b)'
  <2>1. UNCHANGED <<snapshots, disk, before>>
    BY <1>7 DEF RevertDone, RestoreFails, CloseSession, checkpoints
  <2>2. \A g \in Generation : Taken(b, g)' = Taken(b, g)
    BY <2>1, SameTaken
  <2>3. undo' = [undo EXCEPT ![a] = NoUndo] \/ (undo' = undo /\ undo[a] = NoUndo)
    BY <1>7 DEF RevertDone, RestoreFails, CloseSession
  <2>4. \/ RevertDone(a) /\ generations' = generations
        \/ generations' = [generations EXCEPT ![a] = <<>>]
    BY <1>7 DEF RevertDone, RestoreFails, CloseSession, Gone, checkpoints
  <2>5. CASE b # a
    <3>1. undo'[b] = undo[b] /\ generations'[b] = generations[b]
      BY <2>3, <2>4, <2>5 DEF TypeInv, TypeOK
    <3> QED
      BY <1>f, <2>1, <2>2, <3>1
  <2>6. CASE b = a
    <3>1. undo'[b] = NoUndo
      BY <2>3, <2>6 DEF TypeInv, TypeOK
    <3>2. CASE RevertDone(a) /\ generations' = generations
      <4>1. Left(b) = {} /\ Left(b)' = {} /\ ~Restoring(b)'
        BY <2>6, <3>1, <3>2 DEF RevertDone, Left, Restoring, NoUndo
      <4> QED
        BY <1>0, <2>1, <2>2, <3>2, <4>1, FoundStays
    <3>3. CASE generations' = [generations EXCEPT ![a] = <<>>]
      <4>1. generations'[b] = <<>>
        BY <2>6, <3>3 DEF TypeInv, TypeOK
      <4> QED
        BY <3>1, <4>1, GoneFound
    <3> QED
      BY <2>4, <3>2, <3>3
  <2> QED
    BY <2>5, <2>6
<1>8. ASSUME NEW a \in Agent, RevertCheck(a) PROVE FoundOf(b)'
  <2>1. UNCHANGED <<checkpoints, disk, before>> /\ undo[a] = NoUndo
    BY <1>8 DEF RevertCheck
  <2>2. \A g \in Generation : Taken(b, g)' = Taken(b, g)
    BY <2>1, SameTaken DEF checkpoints
  <2>3. b # a => undo'[b] = undo[b]
    BY <1>8 DEF RevertCheck, TypeInv, TypeOK
  <2>4. undo'[a].at = "checked" /\ undo'[a].left = <<>>
    BY <1>8 DEF RevertCheck, TypeInv, TypeOK, Undo, NoUndo
  <2>5. b = a => Left(b) = {} /\ Left(b)' = {} /\ ~Restoring(b)'
    BY <2>1, <2>4 DEF Left, Restoring, NoUndo
  <2>6. CASE b = a
    BY <1>0, <2>1, <2>2, <2>5, <2>6, FoundStays DEF checkpoints
  <2>7. CASE b # a
    BY <1>f, <2>1, <2>2, <2>3, <2>7 DEF checkpoints
  <2> QED
    BY <2>6, <2>7
<1>9. ASSUME NEW f \in File, UserEdit(f) PROVE FoundOf(b)'
  <2>1. UNCHANGED <<checkpoints, undo>> /\ ChangedBy(None, f)
    BY <1>9 DEF UserEdit
  <2>2. \A g \in Generation : Taken(b, g)' = Taken(b, g)
    BY <2>1, SameTaken DEF checkpoints
  <2>3. \A p \in File : p # f => disk'[p] = disk[p]
    BY <1>9 DEF UserEdit, TypeInv, TypeOK
  <2>4. b # None
    BY EditsAssumption
  <2>5. \A g \in Generation, p \in File : before'[b][g][p] = IF p = f THEN None ELSE before[b][g][p]
    BY <2>1, <2>4 DEF ChangedBy, TypeInv, TypeOK
  <2>6. \A p \in File :
          \/ disk'[p] = disk[p] /\ \A g \in Generation : before'[b][g][p] = before[b][g][p]
          \/ \A g \in Generation : before'[b][g][p] = None
    BY <2>3, <2>5
  <2> QED
    BY <1>f, <2>1, <2>2, <2>6 DEF checkpoints
<1>10. ASSUME \/ GoStale
              \/ \E a \in Agent : \/ EndTurn(a) \/ CheckStale(a) \/ CheckLocked(a) \/ Base(a) \/ Refresh(a)
                                  \/ Reopen(a) \/ \E f \in File : Read(a, f)
       PROVE  FoundOf(b)'
  <2>1. UNCHANGED <<checkpoints, undo, disk, before>>
    BY <1>10 DEF GoStale, EndTurn, CheckStale, CheckLocked, Base, Refresh, Reopen, Read
  <2>2. \A g \in Generation : Taken(b, g)' = Taken(b, g)
    BY <2>1, SameTaken DEF checkpoints
  <2> QED
    BY <1>f, <2>1, <2>2 DEF checkpoints
<1> QED
  BY <1>1, <1>2, <1>3, <1>4, <1>5, <1>6, <1>7, <1>8, <1>9, <1>10 DEF Next, Edits


(***************************************************************************)
(* What follows of every behaviour.                                        *)
(***************************************************************************)
RevertInv == TypeInv /\ Numbered /\ OwnWork /\ OneThread /\ FoundIsKept

LEMMA NothingMoves == RevertInv /\ UNCHANGED vars => RevertInv'
<1> SUFFICES ASSUME RevertInv, UNCHANGED vars PROVE RevertInv'
  OBVIOUS
<1>1. /\ UNCHANGED <<gui, disk, written, known, generations, current, snapshots, turns>>
      /\ UNCHANGED <<before, wrote, lock, open, call, undo>>
  BY DEF vars, checkpoints
<1>2. TypeInv /\ TypeInv'
  BY <1>1 DEF RevertInv, TypeInv, TypeOK
<1>3. \A b \in Agent, g \in Generation : Taken(b, g)' = Taken(b, g)
  BY <1>1, SameTaken
<1>4. \A b \in Agent : Left(b)' = Left(b) /\ (Restoring(b)' <=> Restoring(b))
  BY <1>1 DEF Left, Restoring
<1>5. ASSUME NEW b \in Agent PROVE NumberedOf(b)'
  BY <1>1, <1>2, <1>3, NumberedStays DEF RevertInv, Numbered
<1>6. OwnWork'
  BY <1>1, <1>2, OwnWorkStays DEF RevertInv
<1>7. ASSUME NEW b \in Agent, ~gui PROVE OneThreadOf(b)'
  BY <1>1, <1>3, <1>7, OneThreadStays DEF RevertInv, OneThread
<1>8. ASSUME NEW b \in Agent, ~gui PROVE FoundOf(b)'
  BY <1>1, <1>2, <1>3, <1>4, <1>8, FoundStays DEF RevertInv, FoundIsKept
<1> QED
  BY <1>1, <1>2, <1>5, <1>6, <1>7, <1>8 DEF RevertInv, Numbered, OneThread, FoundIsKept

LEMMA RevertInvHolds == Spec => []RevertInv
<1>1. Init => RevertInv
  BY InitTyped, InitNumbered, InitOwnWork, InitOneThread, InitFound DEF RevertInv
<1>2. RevertInv /\ [Next]_vars => RevertInv'
  BY NextTyped, NextNumbered, NextOwnWork, NextOneThread, NextFound, NothingMoves DEF RevertInv
<1> QED
  BY <1>1, <1>2, PTL DEF Spec

\* Files, snapshots, stacks, tool calls and reverts keep their types.
THEOREM FileEditsTyped == Spec => []TypeOK
<1>1. RevertInv => TypeOK
  BY DEF RevertInv, TypeInv
<1> QED
  BY <1>1, RevertInvHolds, PTL

\* What the turn that runs in a REPL has snapshotted is on the stack, where
\* the next /revert finds it (checkpoints.py, loop.py).
THEOREM TurnsAreUndoable == Spec => []TurnIsUndoable
<1>1. RevertInv => TurnIsUndoable
  <2> SUFFICES ASSUME RevertInv, NEW a \in Agent, ~gui, current[a] # None,
                      snapshots[a][current[a]] # <<>>
               PROVE  InStack(a, current[a])
    BY DEF TurnIsUndoable
  <2>1. PICK g \in Generation : current[a] = g
    BY DEF RevertInv, TypeInv, TypeOK
  <2>2. PICK s \in Seq(Snapshot) : s = snapshots[a][g]
    BY DEF RevertInv, TypeInv, TypeOK
  <2>3. s # <<>> /\ 1 \in DOMAIN s
    BY <2>1, <2>2
  <2>4. Taken(a, g) # {}
    BY <2>2, <2>3 DEF Taken
  <2>5. OneThreadOf(a)
    BY DEF RevertInv, OneThread
  <2> QED
    BY <2>1, <2>4, <2>5 DEF OneThreadOf
<1> QED
  BY <1>1, RevertInvHolds, PTL

\* A revert of a REPL that runs to its end has brought the files back that
\* its turn found, and no revert, of the page's or of a REPL, restores what
\* the turn wrote itself (checkpoints.py).
THEOREM RevertsUndoTurns == Spec => RevertsAreExact
<1>1. ASSUME RevertInv, [Next]_vars, NEW a \in Agent,
             ~gui, undo[a].at = "restoring", undo[a].left = <<>>, NEW f \in File
      PROVE  before[a][undo[a].of][f] \in {None, disk[f]}
  <2>1. PICK g \in Generation : undo[a].of = g
    BY <1>1 DEF RevertInv, TypeInv
  <2>2. Rest(a, f, before[a][g][f])
    BY <1>1, <2>1 DEF RevertInv, FoundIsKept, FoundOf, Restoring
  <2>3. Left(a) = {}
    BY <1>1 DEF Left
  <2> QED
    BY <2>1, <2>2, <2>3 DEF Rest, Has
<1>2. ASSUME RevertInv, [Next]_vars, NEW a \in Agent,
             undo[a].at = "restoring", undo[a].left # <<>>
      PROVE  undo[a].left[Len(undo[a].left)].content \notin wrote[a][undo[a].of]
  <2>1. PICK g \in Generation : undo[a].of = g
    BY <1>2 DEF RevertInv, TypeInv
  <2>2. PICK s \in Seq(Snapshot) : s = undo[a].left
    <3>1. undo[a] \in Undo
      BY <1>2 DEF RevertInv, TypeInv, TypeOK
    <3> QED
      BY <3>1 DEF Undo
  <2>3. Len(s) \in DOMAIN s
    BY <1>2, <2>2
  <2>4. s[Len(s)] \in Left(a)
    BY <2>2, <2>3 DEF Left
  <2>5. s[Len(s)] \in Taken(a, g)
    BY <1>2, <2>1, <2>4 DEF RevertInv, Numbered, NumberedOf, Restoring
  <2>6. \A e \in Taken(a, g) : e.content \notin wrote[a][g]
    BY <1>2 DEF RevertInv, OwnWork
  <2> QED
    BY <2>1, <2>2, <2>5, <2>6
<1>3. RevertInv /\ [Next]_vars =>
        [\A a \in Agent :
           ~gui /\ undo[a].at = "restoring" /\ undo[a].left = <<>> /\ undo'[a] = NoUndo
             => \A f \in File : before[a][undo[a].of][f] \in {None, disk[f]}]_vars
  BY <1>1
<1>4. RevertInv /\ [Next]_vars =>
        [\A a \in Agent :
           LET left == undo[a].left
           IN  undo[a].at = "restoring" /\ left # <<>> /\ undo'[a].left # left
                 => left[Len(left)].content \notin wrote[a][undo[a].of]]_vars
  BY <1>2
<1> QED
  BY <1>3, <1>4, RevertInvHolds, PTL DEF Spec, RevertsAreExact, RevertRestoresTurn, RevertRemovesOwnWork
-----------------------------------------------------------------------------
(***************************************************************************)
(* ProjectDrawer: the current session is open, and an open session of a    *)
(* project holds its lock or has been told that it does not.               *)
(***************************************************************************)
DrawerConstants ==
  /\ MaxSessions \in Nat \ {0}
  /\ Launchpad \notin Project
  /\ Free \notin Nat

\* What a set of numbers has, a least and, when bounded, a greatest member.
LEMMA LeastIs ==
  ASSUME NEW S \in SUBSET Nat, S # {}
  PROVE  \E x \in S : \A y \in S : x <= y
<1>1. PICK x \in S : \A y \in S : <<y, x>> \notin OpToRel(<, Nat)
  BY NatLessThanWellFounded, WFMin, Zenon
<1>2. \A y \in S : ~(y < x)
  BY <1>1 DEF OpToRel
<1> QED
  BY <1>2

LEMMA NewestIs ==
  ASSUME NEW N \in Nat, NEW S \in SUBSET (1..N), S # {}
  PROVE  Drawer!Newest(S) \in S
<1> DEFINE T == {N - s : s \in S}
<1>1. PICK x \in T : \A y \in T : x <= y
  <2>1. \A s \in S : s \in Nat /\ s <= N /\ N - s \in Nat
    OBVIOUS
  <2>2. T \in SUBSET Nat /\ T # {}
    BY <2>1
  <2> HIDE DEF T
  <2> QED
    BY <2>2, LeastIs
<1>2. PICK s \in S : x = N - s
  BY <1>1
<1>3. ASSUME NEW t \in S PROVE t <= s
  <2>1. N - s <= N - t
    BY <1>1, <1>2
  <2> QED
    BY <2>1
<1> QED
  BY <1>3 DEF Drawer!Newest

LEMMA NextIdIs ==
  ASSUME DrawerConstants, Drawer!Room
  PROVE  Drawer!NextId \in Drawer!Id /\ table[Drawer!NextId].at = "none"
<1> DEFINE S == {s \in Drawer!Id : table[s].at = "none"}
<1>1. PICK x \in S : \A y \in S : x <= y
  <2>1. S \in SUBSET Nat /\ S # {}
    BY DEF Drawer!Room, Drawer!Id, DrawerConstants
  <2> HIDE DEF S
  <2> QED
    BY <2>1, LeastIs
<1>2. \A r \in Drawer!Id : r < x => table[r].at # "none"
  BY <1>1 DEF Drawer!Id, DrawerConstants
<1>3. x \in Drawer!Id /\ table[x].at = "none"
  BY <1>1
<1> QED
  BY <1>2, <1>3 DEF Drawer!NextId

Sessions == [at : {"none", "open", "shut"}, saved : BOOLEAN, root : Drawer!Root,
             conflict : BOOLEAN, running : BOOLEAN, closing : BOOLEAN]
Tables   == [Drawer!Id -> Sessions]
Holders  == [Drawer!Root -> Drawer!Id \cup {Free}]

\* An open session of a project holds the lock, or was told that it does not.
Told(tb, l) ==
  \A s \in Drawer!Id :
    tb[s].at = "open" /\ tb[s].root \in Project => l[tb[s].root] = s \/ tb[s].conflict

DrawerInv == Drawer!TypeOK /\ Drawer!CurrentIsOpen /\ Told(table, locked)

LEMMA ConstructedIs ==
  ASSUME DrawerConstants, NEW s \in Drawer!Id, NEW p \in Drawer!Root, NEW saved \in BOOLEAN,
         NEW l \in Holders, NEW chosen \in BOOLEAN
  PROVE  /\ Drawer!Constructed(s, p, saved, l, chosen) \in Sessions
         /\ Drawer!Constructed(s, p, saved, l, chosen).at = "open"
         /\ Drawer!Constructed(s, p, saved, l, chosen).root = p
         /\ Drawer!Constructed(s, p, saved, l, chosen).conflict
              = ((chosen \/ p # Launchpad) /\ Drawer!Held(s, p, l))
         /\ Drawer!LockedBy(s, p, l, chosen) \in Holders
<1>1. PICK c \in BOOLEAN : c = ((chosen \/ p # Launchpad) /\ Drawer!Held(s, p, l))
  BY DEF Drawer!Held
<1>2. Drawer!Constructed(s, p, saved, l, chosen)
        = [Drawer!Unused EXCEPT !.at = "open", !.saved = saved, !.root = p, !.conflict = c]
  BY <1>1 DEF Drawer!Constructed
<1>u. Drawer!Unused \in Sessions
  BY DEF Drawer!Unused, Sessions, Drawer!Root
<1>3. ASSUME NEW u \in Sessions
      PROVE  /\ [u EXCEPT !.at = "open", !.saved = saved, !.root = p, !.conflict = c] \in Sessions
             /\ [u EXCEPT !.at = "open", !.saved = saved, !.root = p, !.conflict = c].at = "open"
             /\ [u EXCEPT !.at = "open", !.saved = saved, !.root = p, !.conflict = c].root = p
             /\ [u EXCEPT !.at = "open", !.saved = saved, !.root = p, !.conflict = c].conflict = c
  BY DEF Sessions
<1>4. Drawer!LockedBy(s, p, l, chosen) \in Holders
  BY DEF Drawer!LockedBy, Holders
<1> QED
  BY <1>1, <1>2, <1>u, <1>3, <1>4

\* A session that is constructed leaves nobody in the dark.
LEMMA ConstructionTells ==
  ASSUME DrawerConstants, NEW tb \in Tables, NEW l \in Holders, Told(tb, l),
         NEW s \in Drawer!Id, NEW p \in Drawer!Root, NEW saved \in BOOLEAN, NEW chosen \in BOOLEAN
  PROVE  Told([tb EXCEPT ![s] = Drawer!Constructed(s, p, saved, l, chosen)],
              Drawer!LockedBy(s, p, l, chosen))
<1>1. PICK x \in Sessions :
        /\ x = Drawer!Constructed(s, p, saved, l, chosen) /\ x.root = p
        /\ x.conflict = ((chosen \/ p # Launchpad) /\ Drawer!Held(s, p, l))
  BY ConstructedIs
<1>2. PICK k \in Holders : k = Drawer!LockedBy(s, p, l, chosen)
  BY ConstructedIs
<1>3. Free \notin Drawer!Id
  BY DEF DrawerConstants, Drawer!Id
<1>4. ASSUME NEW r \in Drawer!Id, r # s, tb[r].at = "open", tb[r].root \in Project
      PROVE  k[tb[r].root] = r \/ tb[r].conflict
  <2>1. l[tb[r].root] = r \/ tb[r].conflict
    BY <1>4 DEF Told
  <2>2. l[tb[r].root] = r => k[tb[r].root] = r
    BY <1>2, <1>3 DEF Drawer!LockedBy, Holders
  <2> QED
    BY <2>1, <2>2
<1>5. p \in Project => k[p] = s \/ x.conflict
  BY <1>1, <1>2 DEF Drawer!LockedBy, Drawer!Held, Holders, DrawerConstants, Drawer!Root
<1>6. Told([tb EXCEPT ![s] = x], k)
  BY <1>1, <1>4, <1>5 DEF Told, Tables
<1> QED
  BY <1>1, <1>2, <1>6

\* Nor does one that closes, or leaves the project.
LEMMA ReleaseTells ==
  ASSUME DrawerConstants, Drawer!TypeOK, Told(table, locked), NEW s \in Drawer!Id,
         NEW tb \in Tables, tb[s].at # "open",
         \A r \in Drawer!Id : r # s => tb[r] = table[r]
  PROVE  Told(tb, Drawer!Unlocked(s, locked)) /\ Drawer!Unlocked(s, locked) \in Holders
<1>1. table \in Tables /\ locked \in Holders
  BY DEF Drawer!TypeOK, Tables, Holders, Sessions
<1>2. Drawer!Unlocked(s, locked) \in Holders
  BY <1>1 DEF Drawer!Unlocked, Holders
<1>3. \A r \in Drawer!Id, p \in Drawer!Root : r # s /\ locked[p] = r => Drawer!Unlocked(s, locked)[p] = r
  BY DEF Drawer!Unlocked
<1>4. \A r \in Drawer!Id : table[r].root \in Drawer!Root
  BY <1>1 DEF Tables, Sessions
<1> QED
  BY <1>2, <1>3, <1>4 DEF Told

LEMMA DrawerTypes ==
  /\ Drawer!TypeOK <=> /\ table \in Tables /\ locked \in Holders
                       /\ shown \in Drawer!Id /\ projectless \in BOOLEAN
                       /\ launcher \in Drawer!Id \cup {Free} /\ hidden \subseteq Project
                       /\ tab \in [Tab -> Drawer!Id]
  /\ Drawer!TypeOK' <=> /\ table' \in Tables /\ locked' \in Holders
                        /\ shown' \in Drawer!Id /\ projectless' \in BOOLEAN
                        /\ launcher' \in Drawer!Id \cup {Free} /\ hidden' \subseteq Project
                        /\ tab' \in [Tab -> Drawer!Id]
BY DEF Drawer!TypeOK, Tables, Holders, Sessions

IsOpen(tb, s) == tb[s].at = "open"

\* What a step has to keep of the sessions and their locks.
Kept ==
  /\ table' \in Tables /\ locked' \in Holders /\ Told(table', locked')
  /\ shown' \in Drawer!Id /\ table'[shown'].at = "open"

LEMMA ConstructionKeeps ==
  ASSUME DrawerConstants, NEW tb \in Tables, NEW l \in Holders, Told(tb, l),
         NEW s \in Drawer!Id, NEW p \in Drawer!Root, NEW saved \in BOOLEAN, NEW chosen \in BOOLEAN,
         table' = [tb EXCEPT ![s] = Drawer!Constructed(s, p, saved, l, chosen)],
         locked' = Drawer!LockedBy(s, p, l, chosen)
  PROVE  /\ table' \in Tables /\ locked' \in Holders /\ Told(table', locked')
         /\ IsOpen(table', s) /\ \A r \in Drawer!Id : r # s => table'[r] = tb[r]
<1>1. PICK x \in Sessions : x = Drawer!Constructed(s, p, saved, l, chosen) /\ x.at = "open"
  BY ConstructedIs
<1>2. table' = [tb EXCEPT ![s] = x]
  BY <1>1
<1>3. table' \in Tables /\ table'[s] = x /\ \A r \in Drawer!Id : r # s => table'[r] = tb[r]
  BY <1>2 DEF Tables
<1>4. locked' \in Holders
  BY ConstructedIs
<1> QED
  BY <1>1, <1>3, <1>4, ConstructionTells DEF IsOpen

LEMMA GotKeeps ==
  ASSUME DrawerConstants, DrawerInv, NEW s \in Drawer!Id, Drawer!Got(s)
  PROVE  /\ table' \in Tables /\ locked' \in Holders /\ Told(table', locked')
         /\ table'[s].at = "open" /\ \A r \in Drawer!Id : r # s => table'[r] = table[r]
<1>1. table \in Tables /\ locked \in Holders /\ projectless \in BOOLEAN /\ Told(table, locked)
  BY DrawerTypes DEF DrawerInv
<1>2. CASE table[s].at = "open"
  BY <1>1, <1>2 DEF Drawer!Got
<1>3. CASE table[s].at # "open"
  <2>0. PICK c \in BOOLEAN : c = ~projectless
    OBVIOUS
  <2>1. table[s].root \in Drawer!Root
    BY <1>1 DEF Tables, Sessions
  <2>2. /\ table' = [table EXCEPT ![s] = Drawer!Constructed(s, table[s].root, TRUE, locked, c)]
        /\ locked' = Drawer!LockedBy(s, table[s].root, locked, c)
    BY <1>3, <2>0 DEF Drawer!Got
  <2> QED
    BY <1>1, <2>1, <2>2, ConstructionKeeps DEF IsOpen
<1> QED
  BY <1>2, <1>3

\* A session that closes is followed by an open one, or by a new one.
LEMMA CloseKeeps ==
  ASSUME DrawerConstants, DrawerInv, NEW s \in Drawer!Id, table[s].at = "open",
         NEW shut \in Tables, shut[s].at = "shut",
         \A r \in Drawer!Id : r # s => shut[r] = table[r],
         \/ /\ table' = shut /\ locked' = Drawer!Unlocked(s, locked)
            /\ shown' \in Drawer!OpenIds \ {s}
         \/ /\ Drawer!Room /\ shown' = Drawer!NextId
            /\ table' = [shut EXCEPT ![Drawer!NextId] =
                           Drawer!Constructed(Drawer!NextId, table[s].root, FALSE,
                                              Drawer!Unlocked(s, locked), ~projectless)]
            /\ locked' = Drawer!LockedBy(Drawer!NextId, table[s].root,
                                         Drawer!Unlocked(s, locked), ~projectless)
  PROVE  Kept
<1>1. table \in Tables /\ locked \in Holders /\ projectless \in BOOLEAN /\ Told(table, locked)
      /\ Drawer!TypeOK
  BY DrawerTypes DEF DrawerInv
<1>2. PICK free \in Holders : free = Drawer!Unlocked(s, locked) /\ Told(shut, free)
  BY <1>1, ReleaseTells
<1>3. CASE table' = shut /\ locked' = Drawer!Unlocked(s, locked) /\ shown' \in Drawer!OpenIds \ {s}
  BY <1>2, <1>3 DEF Kept, Drawer!OpenIds
<1>4. CASE ~(table' = shut /\ locked' = Drawer!Unlocked(s, locked) /\ shown' \in Drawer!OpenIds \ {s})
  <2>1. PICK n \in Drawer!Id : n = Drawer!NextId
    BY <1>4, NextIdIs
  <2>2. PICK c \in BOOLEAN : c = ~projectless
    OBVIOUS
  <2>3. PICK p \in Drawer!Root : p = table[s].root
    BY <1>1 DEF Tables, Sessions
  <2>4. /\ table' = [shut EXCEPT ![n] = Drawer!Constructed(n, p, FALSE, free, c)]
        /\ locked' = Drawer!LockedBy(n, p, free, c)
        /\ shown' = n
    BY <1>2, <1>4, <2>1, <2>2, <2>3
  <2>5. /\ table' \in Tables /\ locked' \in Holders /\ Told(table', locked')
        /\ IsOpen(table', n)
    BY <1>2, <2>1, <2>2, <2>3, <2>4, ConstructionKeeps
  <2> QED
    BY <2>4, <2>5 DEF Kept, IsOpen
<1> QED
  BY <1>3, <1>4

LEMMA FinishKeeps ==
  ASSUME DrawerConstants, DrawerInv, NEW s \in Drawer!Id, table[s].at = "open", Drawer!Finish(s)
  PROVE  Kept /\ hidden' \subseteq hidden
<1> DEFINE shut == [table EXCEPT ![s].at = "shut", ![s].running = FALSE, ![s].closing = FALSE]
           same == Drawer!Of(table[s].root) \ {s}
<1>1. table \in Tables /\ shown \in Drawer!Id /\ shown \in Drawer!OpenIds
  BY DrawerTypes DEF DrawerInv, Drawer!CurrentIsOpen
<1>2. shut \in Tables /\ shut[s].at = "shut" /\ \A r \in Drawer!Id : r # s => shut[r] = table[r]
  BY <1>1, ZenonT(40) DEF Tables, Sessions
<1>3. same # {} => Drawer!Newest(same) \in Drawer!OpenIds \ {s}
  <2>1. same \in SUBSET (1..MaxSessions) /\ same \subseteq Drawer!OpenIds \ {s}
    BY DEF Drawer!Of, Drawer!OpenIds, Drawer!Id
  <2> QED
    BY <2>1, NewestIs DEF DrawerConstants
<1> HIDE DEF shut, same
<1>4. CASE shown # s \/ same # {}
  <2>1. /\ table' = shut /\ locked' = Drawer!Unlocked(s, locked) /\ hidden' = hidden
        /\ shown' = IF shown = s THEN Drawer!Newest(same) ELSE shown
    BY <1>4 DEF Drawer!Finish, shut, same
  <2>2. shown' \in Drawer!OpenIds \ {s}
    BY <1>1, <1>3, <1>4, <2>1
  <2> QED
    BY <1>2, <2>1, <2>2, CloseKeeps
<1>5. CASE ~(shown # s \/ same # {})
  <2>1. /\ Drawer!Room /\ shown' = Drawer!NextId /\ hidden' \subseteq hidden
        /\ table' = [shut EXCEPT ![Drawer!NextId] =
                       Drawer!Constructed(Drawer!NextId, table[s].root, FALSE,
                                          Drawer!Unlocked(s, locked), ~projectless)]
        /\ locked' = Drawer!LockedBy(Drawer!NextId, table[s].root,
                                     Drawer!Unlocked(s, locked), ~projectless)
    BY <1>5 DEF Drawer!Finish, shut, same
  <2> QED
    BY <1>2, <2>1, CloseKeeps
<1> QED
  BY <1>4, <1>5

\* The four ways sessions open and close, and everything else.
LEMMA OpensKeep ==
  ASSUME DrawerConstants, DrawerInv, NEW t \in Tab,
         \/ Drawer!View(t) \/ Drawer!Fork(t)
         \/ \E s \in Drawer!Id : Drawer!LoadSession(t, s)
         \/ \E p \in Drawer!Root : Drawer!NewSession(t, p)
  PROVE  DrawerInv'
<1>1. /\ table \in Tables /\ locked \in Holders /\ Told(table, locked)
      /\ shown \in Drawer!Id /\ projectless \in BOOLEAN /\ table[shown].at = "open"
      /\ launcher \in Drawer!Id \cup {Free} /\ hidden \subseteq Project
      /\ tab \in [Tab -> Drawer!Id]
  BY DrawerTypes DEF DrawerInv, Drawer!CurrentIsOpen, Drawer!OpenIds
<1>2. SUFFICES Kept /\ UNCHANGED <<projectless, launcher>> /\ hidden' \subseteq hidden
               /\ tab' \in [Tab -> Drawer!Id]
  BY <1>1, DrawerTypes DEF Kept, DrawerInv, Drawer!CurrentIsOpen, Drawer!OpenIds
<1>3. \A s \in Drawer!Id : Drawer!Shows(t, s) => tab' \in [Tab -> Drawer!Id]
  BY <1>1 DEF Drawer!Shows
<1>4. PICK c \in BOOLEAN : c = ~projectless
  OBVIOUS
<1>5. CASE Drawer!View(t)
  <2>1. CASE Drawer!Known(tab[t])
    <3>1. Drawer!Got(tab[t]) /\ tab[t] \in Drawer!Id
      BY <1>1, <1>5, <2>1 DEF Drawer!View
    <3>2. /\ table' \in Tables /\ locked' \in Holders /\ Told(table', locked')
          /\ table'[tab[t]].at = "open" /\ \A r \in Drawer!Id : r # tab[t] => table'[r] = table[r]
      BY <3>1, GotKeeps
    <3>3. UNCHANGED <<shown, projectless, launcher, hidden, tab>>
      BY <1>5, <2>1 DEF Drawer!View
    <3> QED
      BY <1>1, <3>2, <3>3 DEF Kept
  <2>2. CASE ~Drawer!Known(tab[t])
    BY <1>1, <1>3, <1>5, <2>2 DEF Drawer!View, Kept
  <2> QED
    BY <2>1, <2>2
<1>6. ASSUME NEW s \in Drawer!Id, Drawer!LoadSession(t, s)
      PROVE  Kept /\ UNCHANGED <<projectless, launcher>> /\ hidden' \subseteq hidden
             /\ tab' \in [Tab -> Drawer!Id]
  <2>1. Drawer!Got(s) /\ shown' = s /\ Drawer!Shows(t, s) /\ hidden' \subseteq hidden
        /\ UNCHANGED <<projectless, launcher>>
    BY <1>6 DEF Drawer!LoadSession
  <2> QED
    BY <2>1, <1>3, GotKeeps DEF Kept
<1>7. ASSUME NEW p \in Drawer!Root, Drawer!NewSession(t, p)
      PROVE  Kept /\ UNCHANGED <<projectless, launcher>> /\ hidden' \subseteq hidden
             /\ tab' \in [Tab -> Drawer!Id]
  <2>1. PICK n \in Drawer!Id : n = Drawer!NextId
    BY <1>7, NextIdIs DEF Drawer!NewSession
  <2>2. /\ table' = [table EXCEPT ![n] = Drawer!Constructed(n, p, FALSE, locked, c)]
        /\ locked' = Drawer!LockedBy(n, p, locked, c)
        /\ shown' = n /\ Drawer!Shows(t, n) /\ hidden' \subseteq hidden
        /\ UNCHANGED <<projectless, launcher>>
    BY <1>4, <1>7, <2>1 DEF Drawer!NewSession
  <2>3. /\ table' \in Tables /\ locked' \in Holders /\ Told(table', locked')
        /\ IsOpen(table', n)
    BY <1>1, <1>4, <2>1, <2>2, ConstructionKeeps
  <2> QED
    BY <1>3, <2>2, <2>3 DEF Kept, IsOpen
<1>8. CASE Drawer!Fork(t)
  <2>1. PICK n \in Drawer!Id : n = Drawer!NextId /\ table[n].at = "none"
    BY <1>8, NextIdIs DEF Drawer!Fork
  <2>2. PICK parent \in Drawer!Id : parent = tab[t] /\ table[parent].at = "open"
    BY <1>1, <1>8 DEF Drawer!Fork
  <2>3. PICK p \in Drawer!Root : p = table[parent].root
    BY <1>1 DEF Tables, Sessions
  <2>4. PICK tb : tb = [table EXCEPT ![parent].saved = TRUE]
    OBVIOUS
  <2>5. /\ tb \in Tables
        /\ \A s \in Drawer!Id : tb[s].at = table[s].at /\ tb[s].root = table[s].root
                              /\ tb[s].conflict = table[s].conflict
    BY <1>1, <2>4, ZenonT(40) DEF Tables, Sessions
  <2>6. Told(tb, locked)
    BY <1>1, <2>5 DEF Told
  <2>7. /\ table' = [tb EXCEPT ![n] = Drawer!Constructed(n, p, TRUE, locked, c)]
        /\ locked' = Drawer!LockedBy(n, p, locked, c)
        /\ shown' = n /\ Drawer!Shows(t, n) /\ UNCHANGED <<projectless, launcher, hidden>>
    BY <1>4, <1>8, <2>1, <2>2, <2>3, <2>4 DEF Drawer!Fork
  <2>8. /\ table' \in Tables /\ locked' \in Holders /\ Told(table', locked')
        /\ IsOpen(table', n)
    BY <1>1, <1>4, <2>1, <2>3, <2>5, <2>6, <2>7, ConstructionKeeps
  <2> QED
    BY <1>3, <2>7, <2>8 DEF Kept, IsOpen
<1> QED
  BY <1>5, <1>6, <1>7, <1>8

\* The launcher's session, dropped without a word about its lock, is open no more.
LEMMA OpenProjectKeeps ==
  ASSUME DrawerConstants, DrawerInv, NEW t \in Tab, NEW p \in Project, Drawer!OpenProject(t, p)
  PROVE  DrawerInv'
<1> DEFINE candidates == {s \in Drawer!Id : Drawer!Known(s) /\ table[s].root = p}
           Opened == IF candidates = {} THEN Drawer!NextId ELSE Drawer!Newest(candidates)
<1>1. /\ table \in Tables /\ locked \in Holders /\ Told(table, locked)
      /\ hidden \subseteq Project /\ tab \in [Tab -> Drawer!Id] /\ p \in Drawer!Root
  BY DrawerTypes DEF DrawerInv, Drawer!Root
<1>2. PICK s \in Drawer!Id : s = Opened
  <2>1. CASE candidates = {}
    <3>1. Drawer!Room
      BY <2>1 DEF Drawer!OpenProject
    <3> QED
      BY <2>1, <3>1, NextIdIs
  <2>2. CASE candidates # {}
    <3>1. candidates \in SUBSET (1..MaxSessions)
      BY DEF Drawer!Id
    <3> QED
      BY <2>2, <3>1, NewestIs DEF DrawerConstants, Drawer!Id
  <2> QED
    BY <2>1, <2>2
<1>3. PICK c \in BOOLEAN : c = ~(candidates = {})
  OBVIOUS
<1>4. PICK dropped : dropped = {launcher} \ {Free, s}
  OBVIOUS
<1>5. /\ table' = [r \in Drawer!Id |->
                     IF r = s THEN (IF table[s].at = "open" THEN table[s]
                                    ELSE Drawer!Constructed(s, p, c, locked, TRUE))
                     ELSE IF r \in dropped THEN [table[r] EXCEPT !.at = "shut"] ELSE table[r]]
      /\ locked' = IF table[s].at = "open" THEN locked ELSE Drawer!LockedBy(s, p, locked, TRUE)
      /\ projectless' = FALSE /\ launcher' = Free
      /\ shown' = s /\ hidden' = hidden \ {p} /\ Drawer!Shows(t, s)
  BY <1>2, <1>3, <1>4 DEF Drawer!OpenProject
<1> HIDE DEF candidates, Opened
<1>6. PICK tb : tb = [r \in Drawer!Id |-> IF r \in dropped THEN [table[r] EXCEPT !.at = "shut"] ELSE table[r]]
  OBVIOUS
<1>7. tb \in Tables
  <2>1. \A r \in Drawer!Id : [table[r] EXCEPT !.at = "shut"] \in Sessions /\ table[r] \in Sessions
    BY <1>1 DEF Tables, Sessions
  <2> QED
    BY <1>6, <2>1 DEF Tables
<1>8. Told(tb, locked)
  <2>1. \A r \in Drawer!Id : tb[r].at = "open" => tb[r] = table[r]
    BY <1>1, <1>6 DEF Tables, Sessions
  <2> QED
    BY <1>1, <2>1 DEF Told
<1>9. table' \in Tables /\ locked' \in Holders /\ Told(table', locked') /\ IsOpen(table', s)
  <2>1. CASE table[s].at = "open"
    <3>1. table' = tb
      BY <1>1, <1>4, <1>5, <1>6, <2>1 DEF Tables
    <3>2. IsOpen(table', s)
      BY <1>5, <2>1 DEF IsOpen
    <3> QED
      BY <1>1, <1>5, <1>7, <1>8, <2>1, <3>1, <3>2
  <2>2. CASE table[s].at # "open"
    <3>1. PICK x : x = Drawer!Constructed(s, p, c, locked, TRUE)
      OBVIOUS
    <3>2. table' = [r \in Drawer!Id |-> IF r = s THEN x ELSE tb[r]]
      BY <1>5, <1>6, <2>2, <3>1
    <3>3. table' = [tb EXCEPT ![s] = x]
      BY <1>7, <3>2 DEF Tables
    <3>4. table' = [tb EXCEPT ![s] = Drawer!Constructed(s, p, c, locked, TRUE)]
          /\ locked' = Drawer!LockedBy(s, p, locked, TRUE)
      BY <1>5, <2>2, <3>1, <3>3
    <3> QED
      BY <1>1, <1>2, <1>3, <1>7, <1>8, <3>4, ConstructionKeeps
  <2> QED
    BY <2>1, <2>2
<1>10. tab' \in [Tab -> Drawer!Id]
  BY <1>1, <1>5 DEF Drawer!Shows
<1> QED
  BY <1>1, <1>5, <1>9, <1>10, DrawerTypes DEF DrawerInv, Drawer!CurrentIsOpen, Drawer!OpenIds, IsOpen

LEMMA ClosesKeep ==
  ASSUME DrawerConstants, DrawerInv,
         \/ \E t \in Tab : Drawer!CloseSession(t)
         \/ \E s \in Drawer!Id : Drawer!EndTurn(s)
         \/ \E t \in Tab, p \in Project : Drawer!CloseProject(t, p)
  PROVE  DrawerInv'
<1>1. /\ table \in Tables /\ locked \in Holders /\ Told(table, locked)
      /\ shown \in Drawer!Id /\ projectless \in BOOLEAN /\ table[shown].at = "open"
      /\ launcher \in Drawer!Id \cup {Free} /\ hidden \subseteq Project
      /\ tab \in [Tab -> Drawer!Id]
  BY DrawerTypes DEF DrawerInv, Drawer!CurrentIsOpen, Drawer!OpenIds
<1>2. SUFFICES Kept /\ UNCHANGED <<projectless, launcher>> /\ hidden' \subseteq Project
               /\ tab' \in [Tab -> Drawer!Id]
  BY <1>1, DrawerTypes DEF Kept, DrawerInv, Drawer!CurrentIsOpen, Drawer!OpenIds
\* A turn that ends, or is asked to close.
<1>3. ASSUME NEW s \in Drawer!Id, locked' = locked, shown' = shown,
             \/ table' = [table EXCEPT ![s].closing = TRUE]
             \/ table' = [table EXCEPT ![s].running = FALSE, ![s].saved = TRUE]
      PROVE  Kept
  <2>1. table' \in Tables /\ \A r \in Drawer!Id : /\ table'[r].at = table[r].at
                                                /\ table'[r].root = table[r].root
                                                /\ table'[r].conflict = table[r].conflict
    <3>1. CASE table' = [table EXCEPT ![s].closing = TRUE]
      BY <1>1, <3>1, ZenonT(40) DEF Tables, Sessions
    <3>2. CASE table' = [table EXCEPT ![s].running = FALSE, ![s].saved = TRUE]
      BY <1>1, <3>2, ZenonT(40) DEF Tables, Sessions
    <3> QED
      BY <1>3, <3>1, <3>2
  <2> QED
    BY <1>1, <1>3, <2>1 DEF Kept, Told
<1>4. ASSUME NEW t \in Tab, Drawer!CloseSession(t)
      PROVE  Kept /\ UNCHANGED <<projectless, launcher>> /\ hidden' \subseteq Project
             /\ tab' \in [Tab -> Drawer!Id]
  <2>1. PICK s \in Drawer!Id : s = tab[t] /\ table[s].at = "open"
    BY <1>4 DEF Drawer!CloseSession, Drawer!OpenIds
  <2>2. Kept /\ hidden' \subseteq hidden
    <3>1. CASE table[s].running
      BY <1>3, <1>4, <2>1, <3>1 DEF Drawer!CloseSession
    <3>2. CASE ~table[s].running
      BY <1>4, <2>1, <3>2, FinishKeeps DEF Drawer!CloseSession
    <3> QED
      BY <3>1, <3>2
  <2>3. shown' \in Drawer!Id
    BY <2>2 DEF Kept
  <2>4. tab' = [tab EXCEPT ![t] = shown'] /\ UNCHANGED <<projectless, launcher>>
    BY <1>4 DEF Drawer!CloseSession
  <2> QED
    BY <1>1, <2>2, <2>3, <2>4
<1>5. ASSUME NEW s \in Drawer!Id, Drawer!EndTurn(s)
      PROVE  Kept /\ UNCHANGED <<projectless, launcher>> /\ hidden' \subseteq Project
             /\ tab' \in [Tab -> Drawer!Id]
  <2>1. table[s].at = "open" /\ UNCHANGED <<projectless, launcher, tab>>
    BY <1>5 DEF Drawer!EndTurn
  <2>2. Kept /\ hidden' \subseteq hidden
    <3>1. CASE ~table[s].closing
      BY <1>3, <1>5, <3>1 DEF Drawer!EndTurn
    <3>2. CASE table[s].closing
      BY <1>5, <2>1, <3>2, FinishKeeps DEF Drawer!EndTurn
    <3> QED
      BY <3>1, <3>2
  <2> QED
    BY <1>1, <2>1, <2>2
<1>6. ASSUME NEW t \in Tab, NEW p \in Project, Drawer!CloseProject(t, p)
      PROVE  Kept /\ UNCHANGED <<projectless, launcher>> /\ hidden' \subseteq Project
             /\ tab' \in [Tab -> Drawer!Id]
  <2>1. UNCHANGED <<projectless, launcher, tab>> /\ hidden' = hidden \cup {p}
    BY <1>6 DEF Drawer!CloseProject
  <2>2. CASE Drawer!Of(p) = {}
    BY <1>1, <1>6, <2>1, <2>2 DEF Drawer!CloseProject, Kept
  <2>3. CASE Drawer!Of(p) # {}
    <3> DEFINE shut(s) == [table EXCEPT ![s].at = "shut"]
    <3>1. PICK s \in Drawer!Id : s = Drawer!Newest(Drawer!Of(p)) /\ table[s].at = "open" /\ table[s].root = p
      <4>1. Drawer!Of(p) \in SUBSET (1..MaxSessions)
        BY DEF Drawer!Of, Drawer!OpenIds, Drawer!Id
      <4>2. Drawer!Newest(Drawer!Of(p)) \in Drawer!Of(p)
        BY <2>3, <4>1, NewestIs DEF DrawerConstants
      <4> QED
        BY <4>2 DEF Drawer!Of, Drawer!OpenIds
    <3>2. shut(s) \in Tables /\ shut(s)[s].at = "shut" /\ \A r \in Drawer!Id : r # s => shut(s)[r] = table[r]
      BY <1>1 DEF Tables, Sessions
    <3> HIDE DEF shut
    <3>3. IF shown # s
          THEN table' = shut(s) /\ locked' = Drawer!Unlocked(s, locked) /\ shown' = shown
          ELSE /\ Drawer!Room /\ shown' = Drawer!NextId
               /\ table' = [shut(s) EXCEPT ![Drawer!NextId] =
                              Drawer!Constructed(Drawer!NextId, table[s].root, FALSE,
                                                 Drawer!Unlocked(s, locked), ~projectless)]
               /\ locked' = Drawer!LockedBy(Drawer!NextId, table[s].root,
                                            Drawer!Unlocked(s, locked), ~projectless)
      BY <1>6, <2>3, <3>1 DEF Drawer!CloseProject, shut
    <3>4. shown # s => shown \in Drawer!OpenIds \ {s}
      BY <1>1 DEF Drawer!OpenIds
    <3>5. Kept
      BY <3>1, <3>2, <3>3, <3>4, CloseKeeps
    <3> QED
      BY <1>1, <2>1, <3>5
  <2> QED
    BY <2>2, <2>3
<1> QED
  BY <1>4, <1>5, <1>6

LEMMA MovesKeep ==
  ASSUME DrawerConstants, DrawerInv,
         \/ \E t \in Tab : Drawer!Takeover(t) \/ Drawer!StartTurn(t)
         \/ \E s \in Drawer!Id : Drawer!Write(s) \/ \E p \in Project : Drawer!Move(s, p)
  PROVE  DrawerInv'
<1>1. /\ table \in Tables /\ locked \in Holders /\ Told(table, locked)
      /\ shown \in Drawer!Id /\ projectless \in BOOLEAN /\ table[shown].at = "open"
      /\ launcher \in Drawer!Id \cup {Free} /\ hidden \subseteq Project
      /\ tab \in [Tab -> Drawer!Id]
  BY DrawerTypes DEF DrawerInv, Drawer!CurrentIsOpen, Drawer!OpenIds
<1>2. SUFFICES Kept /\ UNCHANGED <<projectless, launcher, tab>> /\ hidden' \subseteq hidden
  BY <1>1, DrawerTypes DEF Kept, DrawerInv, Drawer!CurrentIsOpen, Drawer!OpenIds
<1>3. Free \notin Drawer!Id /\ \A s \in Drawer!Id : table[s] \in Sessions /\ table[s].root \in Drawer!Root
  BY <1>1 DEF DrawerConstants, Drawer!Id, Tables, Sessions
\* Whoever has a lock, or was told that he does not, is no worse off.
<1>4. ASSUME NEW s \in Drawer!Id, NEW x \in Sessions, x.at = "open",
             table' = [table EXCEPT ![s] = x], locked' \in Holders, shown' = shown,
             x.root \in Project => locked'[x.root] = s \/ x.conflict,
             \A r \in Drawer!Id, q \in Drawer!Root :
               r # s /\ table[r].at = "open" /\ table[r].root = q /\ locked[q] = r => locked'[q] = r
      PROVE  Kept
  <2>1. table' \in Tables /\ table'[s] = x /\ \A r \in Drawer!Id : r # s => table'[r] = table[r]
    BY <1>1, <1>4 DEF Tables
  <2>2. ASSUME NEW r \in Drawer!Id, r # s, table[r].at = "open", table[r].root \in Project
        PROVE  locked'[table[r].root] = r \/ table[r].conflict
    BY <1>1, <1>3, <1>4, <2>2 DEF Told
  <2>3. Told(table', locked')
    BY <1>4, <2>1, <2>2 DEF Told
  <2> QED
    BY <1>1, <1>4, <2>1, <2>3 DEF Kept
<1>5. ASSUME NEW t \in Tab, Drawer!Takeover(t)
      PROVE  Kept /\ UNCHANGED <<projectless, launcher, tab>> /\ hidden' \subseteq hidden
  <2>1. PICK s \in Drawer!Id : s = tab[t] /\ table[s].at = "open"
    BY <1>5 DEF Drawer!Takeover, Drawer!OpenIds
  <2>2. PICK x : x = [table[s] EXCEPT !.conflict = FALSE]
    OBVIOUS
  <2>3. x \in Sessions /\ x.at = "open" /\ x.root = table[s].root
    BY <1>3, <2>1, <2>2 DEF Sessions
  <2>4. /\ locked[table[s].root] \in {Free, s} /\ locked' = [locked EXCEPT ![table[s].root] = s]
        /\ table' = [table EXCEPT ![s] = x] /\ UNCHANGED <<shown, projectless, launcher, hidden, tab>>
    BY <1>5, <2>1, <2>2 DEF Drawer!Takeover, Drawer!Held
  <2>5. locked' \in Holders /\ locked'[x.root] = s
    BY <1>1, <1>3, <2>3, <2>4 DEF Holders
  <2>6. \A r \in Drawer!Id, q \in Drawer!Root : r # s /\ locked[q] = r => locked'[q] = r
    BY <1>1, <1>3, <2>4 DEF Holders
  <2>7. Kept
    BY <1>4, <2>3, <2>4, <2>5, <2>6
  <2> QED
    BY <2>4, <2>7
<1>6. ASSUME NEW t \in Tab, Drawer!StartTurn(t)
      PROVE  Kept /\ UNCHANGED <<projectless, launcher, tab>> /\ hidden' \subseteq hidden
  <2>1. PICK s \in Drawer!Id : s = tab[t] /\ table[s].at = "open"
    BY <1>6 DEF Drawer!StartTurn, Drawer!OpenIds
  <2>2. PICK x : x = [table[s] EXCEPT !.running = TRUE]
    OBVIOUS
  <2>3. x \in Sessions /\ x.at = "open" /\ x.root = table[s].root /\ x.conflict = table[s].conflict
    BY <1>3, <2>1, <2>2 DEF Sessions
  <2>4. /\ table' = [table EXCEPT ![s] = x] /\ locked' = locked
        /\ UNCHANGED <<shown, projectless, launcher, hidden, tab>>
    BY <1>6, <2>1, <2>2 DEF Drawer!StartTurn
  <2>5. x.root \in Project => locked[x.root] = s \/ x.conflict
    BY <1>1, <2>1, <2>3 DEF Told
  <2>6. Kept
    BY <1>1, <1>4, <2>3, <2>4, <2>5
  <2> QED
    BY <2>4, <2>6
<1>7. ASSUME NEW s \in Drawer!Id, Drawer!Write(s)
      PROVE  Kept /\ UNCHANGED <<projectless, launcher, tab>> /\ hidden' \subseteq hidden
  <2>1. /\ table[s].at = "open" /\ locked[table[s].root] = Free
        /\ locked' = [locked EXCEPT ![table[s].root] = s]
        /\ UNCHANGED <<table, shown, projectless, launcher, hidden, tab>>
    BY <1>7 DEF Drawer!Write
  <2>2. PICK x \in Sessions : x = table[s] /\ table' = [table EXCEPT ![s] = x] /\ x.at = "open"
    BY <1>1, <1>3, <2>1 DEF Tables
  <2>3. locked' \in Holders /\ locked'[x.root] = s
    BY <1>1, <1>3, <2>1, <2>2 DEF Holders
  <2>4. \A r \in Drawer!Id, q \in Drawer!Root : r # s /\ locked[q] = r => locked'[q] = r
    BY <1>1, <1>3, <2>1 DEF Holders
  <2>5. Kept
    BY <1>4, <2>1, <2>2, <2>3, <2>4
  <2> QED
    BY <2>1, <2>5
<1>8. ASSUME NEW s \in Drawer!Id, NEW p \in Project, Drawer!Move(s, p)
      PROVE  Kept /\ UNCHANGED <<projectless, launcher, tab>> /\ hidden' \subseteq hidden
  <2>1. table[s].at = "open" /\ hidden' = hidden \ {p} /\ UNCHANGED <<shown, projectless, launcher, tab>>
    BY <1>8 DEF Drawer!Move
  <2>2. CASE table[s].root = p
    BY <1>1, <1>8, <2>1, <2>2 DEF Drawer!Move, Kept
  <2>3. CASE table[s].root # p
    <3>1. PICK c \in BOOLEAN : c = Drawer!Held(s, p, locked)
      BY DEF Drawer!Held
    <3>2. PICK x : x = [table[s] EXCEPT !.root = p, !.saved = TRUE, !.conflict = c]
      OBVIOUS
    <3>3. x \in Sessions /\ x.at = "open" /\ x.root = p /\ x.conflict = c
      BY <1>3, <2>1, <3>2 DEF Sessions, Drawer!Root
    <3>4. table' = [table EXCEPT ![s] = x] /\ locked' = Drawer!LockedBy(s, p, Drawer!Unlocked(s, locked), TRUE)
      BY <1>8, <2>3, <3>1, <3>2, ZenonT(40) DEF Drawer!Move
    <3>5. PICK free \in Holders : free = Drawer!Unlocked(s, locked)
      BY <1>1 DEF Drawer!Unlocked, Holders
    <3>6. \A r \in Drawer!Id, q \in Drawer!Root : r # s /\ locked[q] = r => free[q] = r
      BY <3>5 DEF Drawer!Unlocked
    <3>7. free[p] = locked[p]
      BY <2>3, <3>5 DEF Drawer!Unlocked, Drawer!Root
    <3>8. locked' = IF free[p] = Free THEN [free EXCEPT ![p] = s] ELSE free
      BY <3>4, <3>5 DEF Drawer!LockedBy
    <3>9. locked' \in Holders /\ (locked'[p] = s \/ c)
      BY <3>1, <3>5, <3>7, <3>8 DEF Holders, Drawer!Held, Drawer!Root
    <3>10. \A r \in Drawer!Id, q \in Drawer!Root : r # s /\ locked[q] = r => locked'[q] = r
      BY <1>3, <3>5, <3>6, <3>8 DEF Holders
    <3>11. x.root \in Project => locked'[x.root] = s \/ x.conflict
      BY <3>3, <3>9
    <3>12. Kept
      BY <1>4, <2>1, <3>3, <3>4, <3>9, <3>10, <3>11, ZenonT(40)
    <3> QED
      BY <2>1, <3>12
  <2> QED
    BY <2>2, <2>3
<1> QED
  BY <1>5, <1>6, <1>7, <1>8

LEMMA DrawerInitial == DrawerConstants /\ Drawer!Init => DrawerInv
<1> SUFFICES ASSUME DrawerConstants, Drawer!Init PROVE DrawerInv
  OBVIOUS
<1> DEFINE none == [s \in Drawer!Id |-> Drawer!Unused]
           free == [q \in Drawer!Root |-> Free]
<1>1. 1 \in Drawer!Id /\ projectless \in BOOLEAN
  BY DEF DrawerConstants, Drawer!Id, Drawer!Init
<1>2. PICK p \in Drawer!Root :
        /\ p = Launchpad <=> projectless
        /\ locked = Drawer!LockedBy(1, p, free, ~projectless)
        /\ table = [s \in Drawer!Id |-> IF s = 1 THEN Drawer!Constructed(1, p, FALSE, locked, ~projectless)
                                        ELSE Drawer!Unused]
  <2>1. CASE projectless
    <3>1. \E p \in {Launchpad} :
           /\ locked = Drawer!LockedBy(1, p, free, ~projectless)
           /\ table = [s \in Drawer!Id |-> IF s = 1 THEN Drawer!Constructed(1, p, FALSE, locked, ~projectless)
                                           ELSE Drawer!Unused]
      BY <2>1 DEF Drawer!Init
    <3> QED
      BY <2>1, <3>1 DEF Drawer!Root
  <2>2. CASE ~projectless
    <3>1. \E p \in Project :
           /\ locked = Drawer!LockedBy(1, p, free, ~projectless)
           /\ table = [s \in Drawer!Id |-> IF s = 1 THEN Drawer!Constructed(1, p, FALSE, locked, ~projectless)
                                           ELSE Drawer!Unused]
      BY <2>2 DEF Drawer!Init
    <3> QED
      BY <2>2, <3>1 DEF Drawer!Root, DrawerConstants
  <2> QED
    BY <2>1, <2>2
<1>3. Drawer!Unused \in Sessions /\ Drawer!Unused.at = "none"
  BY DEF Drawer!Unused, Sessions, Drawer!Root
<1>4. free \in Holders
  BY DEF Holders
<1> HIDE DEF free
<1>5. PICK c \in BOOLEAN : c = ~projectless
  OBVIOUS
<1>6. \A s \in Drawer!Id : Drawer!LockedBy(s, p, free, c) \in Holders
  BY <1>2, <1>4, <1>5, ConstructedIs
<1>6a. locked \in Holders
  BY <1>1, <1>2, <1>5, <1>6
<1>7. PICK x \in Sessions : /\ x = Drawer!Constructed(1, p, FALSE, locked, c) /\ x.at = "open" /\ x.root = p
  <2>1. ASSUME NEW s \in Drawer!Id, NEW saved \in BOOLEAN
        PROVE  \E x \in Sessions :
                 x = Drawer!Constructed(s, p, saved, locked, c) /\ x.at = "open" /\ x.root = p
    <3>1. p \in Drawer!Root /\ c \in BOOLEAN
      BY <1>2, <1>5
    <3> QED
      BY <1>6a, <3>1, ConstructedIs
  <2> QED
    BY <1>1, <2>1
<1>8. table = [s \in Drawer!Id |-> IF s = 1 THEN x ELSE Drawer!Unused]
  BY <1>2, <1>5, <1>7
<1>9. table \in Tables /\ table[1].at = "open"
  BY <1>1, <1>3, <1>7, <1>8 DEF Tables
<1>10. Told(table, locked)
  <2>1. p \in Project => locked[p] = 1
    <3>1. p \in Project => p # Launchpad /\ free[p] = Free
      BY <1>2 DEF DrawerConstants, free
    <3>2. p \in Project => locked = [free EXCEPT ![p] = 1]
      BY <1>2, <3>1 DEF Drawer!LockedBy
    <3> QED
      BY <1>2, <1>4, <3>2 DEF Holders
  <2> QED
    BY <1>3, <1>7, <1>8, <2>1 DEF Told
<1>11. shown = 1 /\ launcher \in {1, Free} /\ hidden = {} /\ tab = [t \in Tab |-> 1]
  BY DEF Drawer!Init
<1> QED
  BY <1>1, <1>6a, <1>9, <1>10, <1>11, DrawerTypes DEF DrawerInv, Drawer!CurrentIsOpen, Drawer!OpenIds

LEMMA DrawerInvHolds == DrawerConstants => (Drawer!Spec => []DrawerInv)
<1> SUFFICES ASSUME DrawerConstants PROVE Drawer!Spec => []DrawerInv
  OBVIOUS
<1>1. Drawer!Init => DrawerInv
  BY DrawerInitial
<1>2. DrawerInv /\ [Drawer!Next]_(Drawer!vars) => DrawerInv'
  <2> SUFFICES ASSUME DrawerInv, [Drawer!Next]_(Drawer!vars) PROVE DrawerInv'
    OBVIOUS
  <2>1. ASSUME NEW t \in Tab, NEW p \in Project, Drawer!OpenProject(t, p) \/ Drawer!CreateProject(t, p)
        PROVE  DrawerInv'
    BY <2>1, OpenProjectKeeps DEF Drawer!CreateProject
  <2>2. CASE UNCHANGED Drawer!vars
    BY <2>2, DrawerTypes DEF Drawer!vars, DrawerInv, Drawer!CurrentIsOpen, Drawer!OpenIds, Told
  <2> QED
    BY <2>1, <2>2, OpensKeep, ClosesKeep, MovesKeep DEF Drawer!Next
<1> QED
  BY <1>1, <1>2, PTL DEF Drawer!Spec

\* Whatever the tabs open, fork, move and close, and while turns run and end:
\* the daemon's current session is open, and an open session of a project
\* holds its lock, finds it free, or was told that it cannot write
\* (gui/server.py).
THEOREM DrawerStaysTrue == DrawerConstants => (Drawer!Spec => []DrawerIsTrue)
<1> SUFFICES ASSUME DrawerConstants PROVE Drawer!Spec => []DrawerIsTrue
  OBVIOUS
<1>1. DrawerInv => DrawerIsTrue
  BY DEF DrawerInv, DrawerIsTrue, Told, Drawer!NoSilentConflict, Drawer!OpenIds
<1> QED
  BY <1>1, DrawerInvHolds, PTL

-----------------------------------------------------------------------------
(***************************************************************************)
(* The parts together: whichever runs, the others stay where they are, so  *)
(* that a behaviour of them all is one of each.                            *)
(***************************************************************************)
LEMMA EveryPartRuns ==
  AllSpec => Spec /\ Stream!Spec /\ Drawer!Spec /\ REPL!Spec
<1>1. AllInit => Init /\ Stream!Init /\ Drawer!Init /\ REPL!Init
  BY DEF AllInit
<1> DEFINE AllNext == EditsStep \/ StreamStep \/ DrawerStep \/ ReplStep
<1>2. [AllNext]_all => [Next]_vars
  BY DEF all, edits, EditsStep, StreamStep, DrawerStep, ReplStep, vars, checkpoints
<1>3. [AllNext]_all => [Stream!Next]_(Stream!vars)
  BY DEF all, stream, EditsStep, StreamStep, DrawerStep, ReplStep, Stream!vars
<1>4. [AllNext]_all => [Drawer!Next]_(Drawer!vars)
  BY DEF all, drawer, EditsStep, StreamStep, DrawerStep, ReplStep, Drawer!vars
<1>5. [AllNext]_all => [REPL!Next]_(REPL!vars)
  BY DEF all, repl, EditsStep, StreamStep, DrawerStep, ReplStep, REPL!vars
<1> QED
  BY <1>1, <1>2, <1>3, <1>4, <1>5, PTL DEF AllSpec, Spec, Stream!Spec, Drawer!Spec, REPL!Spec

\* Every part keeps its types.
THEOREM DeskIsTyped ==
  StreamConstants /\ DrawerConstants /\ ReplConstants => (AllSpec => []TypesOK)
<1> SUFFICES ASSUME StreamConstants, DrawerConstants, ReplConstants PROVE AllSpec => []TypesOK
  OBVIOUS
<1>1. AllSpec => [](part \in {"edits", "stream", "drawer", "repl"})
  <2>1. AllInit => part \in {"edits", "stream", "drawer", "repl"}
    BY DEF AllInit
  <2>2. /\ part \in {"edits", "stream", "drawer", "repl"}
        /\ [EditsStep \/ StreamStep \/ DrawerStep \/ ReplStep]_all
        => (part \in {"edits", "stream", "drawer", "repl"})'
    BY DEF all, EditsStep, StreamStep, DrawerStep, ReplStep
  <2> QED
    BY <2>1, <2>2, PTL DEF AllSpec
<1>2. /\ part \in {"edits", "stream", "drawer", "repl"}
      /\ TypeOK /\ StreamInv /\ DrawerInv /\ ReplInv
      => TypesOK
  BY DEF TypesOK, StreamInv, DrawerInv, ReplInv
<1> QED
  BY <1>1, <1>2, EveryPartRuns, FileEditsTyped, StreamInvHolds, DrawerInvHolds, ReplInvHolds, PTL

\* What is proved of each part holds when they are run beside one another.
COROLLARY DeskIsRight ==
  StreamConstants /\ DrawerConstants /\ ReplConstants =>
    (AllSpec => /\ []TurnIsUndoable /\ RevertsAreExact
                /\ []SaidOnceAndShown /\ []DrawerIsTrue
                /\ []ConversationIsSaved /\ []NoServerIsLeft)
BY EveryPartRuns, TurnsAreUndoable, RevertsUndoTurns, WhatIsSaidIsShown, DrawerStaysTrue,
   ReplSavesConversation, ReplClosesServers
=============================================================================
