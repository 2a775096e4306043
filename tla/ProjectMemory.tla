--------------------------- MODULE ProjectMemory ---------------------------
(***************************************************************************)
(* The project memory of a local workspace (memory.py): notes in a         *)
(* database, and memory.md, which is a user's own file at first and then   *)
(* the generated mirror of the database. Sessions, and other processes,    *)
(* remember and load notes at once; each statement up to its commit is     *)
(* atomic (sqlite), the steps between them are not. Notes of different     *)
(* kinds never meet, so there is one kind here.                            *)
(***************************************************************************)
EXTENDS Naturals, SequencesExt

CONSTANTS
  Rememberer,  \* threads and processes that use the memory
  Note,        \* texts
  Handwritten, \* lines of the memory.md that was there before the store
  Restates,    \* sets of two texts whose words overlap enough
  MaxShown,    \* how many notes the cap leaves room for
  MaxRecords   \* bound: records

VARIABLES
  records,  \* the table: a text, and the record that supersedes it (0: active)
  mirror,   \* memory.md
  job       \* the call each rememberer is in

vars == <<records, mirror, job>>

Idle   == [at |-> "idle", op |-> "none", note |-> CHOOSE n \in Note : TRUE, ids |-> {}, text |-> {}]
Places == {"idle", "count", "read", "import", "look", "refresh", "overlap", "insert", "render", "write", "show"}

TypeOK ==
  /\ records \in Seq([text : Note, by : 0..Len(records)])
  /\ mirror \in [is : {"none", "hand", "generated"}, text : SUBSET Note]
  /\ job \in [Rememberer -> [at : Places, op : {"none", "remember", "load"}, note : Note,
                             ids : SUBSET (1..Len(records)), text : SUBSET Note]]

Hand == [is |-> "hand", text |-> Handwritten]
Init ==
  /\ records = <<>>
  /\ mirror \in {[is |-> "none", text |-> {}], Hand}
  /\ job = [r \in Rememberer |-> Idle]

Alike(a, b) == a = b \/ {a, b} \in Restates
Actives == {i \in DOMAIN records : records[i].by = 0}
Texts   == {records[i].text : i \in DOMAIN records}

(* _render(): the active notes; over the cap the oldest go first.          *)
Rendered ==
  {records[i].text : i \in {j \in Actives : Cardinality({k \in Actives : k > j}) < MaxShown}}

At(r, here) == job[r].at = here
GoesTo(r, there) == job' = [job EXCEPT ![r].at = there]

-----------------------------------------------------------------------------
(* remember(), load_memory(): a load of neither file is empty.             *)
Remember(r, n) ==
  /\ At(r, "idle")
  /\ job' = [job EXCEPT ![r] = [Idle EXCEPT !.at = "count", !.op = "remember", !.note = n]]
  /\ UNCHANGED <<records, mirror>>

Load(r) ==
  /\ At(r, "idle")
  /\ records # <<>> \/ mirror.is # "none"
  /\ job' = [job EXCEPT ![r] = [Idle EXCEPT !.at = "count", !.op = "load"]]
  /\ UNCHANGED <<records, mirror>>

(* _import_legacy(): when the table is empty, a file without the generated *)
(* header is imported, once.                                               *)
Imported(r) == IF job[r].op = "load" THEN "show" ELSE "look"
CountForLoad(r) ==
  /\ At(r, "count")
  /\ GoesTo(r, IF records = <<>> /\ job[r].op = "load" THEN "read" ELSE Imported(r))
  /\ UNCHANGED <<records, mirror>>
Count(r) ==
  /\ At(r, "count")
  /\ GoesTo(r, IF records = <<>> THEN "read" ELSE Imported(r))
  /\ UNCHANGED <<records, mirror>>

ReadLegacy(r) ==
  /\ At(r, "read")
  /\ IF mirror.is = "hand" THEN job' = [job EXCEPT ![r].at = "import", ![r].text = mirror.text]
     ELSE GoesTo(r, Imported(r))
  /\ UNCHANGED <<records, mirror>>

Import(r) ==
  LET lines == SetToSeq(job[r].text)
  IN  /\ At(r, "import")
      /\ Len(records) + Len(lines) <= MaxRecords
      /\ records' = records \o [i \in DOMAIN lines |-> [text |-> lines[i], by |-> 0]]
      /\ GoesTo(r, Imported(r))
      /\ UNCHANGED mirror

Show(r) ==
  /\ At(r, "show")
  /\ job' = [job EXCEPT ![r] = Idle]
  /\ UNCHANGED <<records, mirror>>

-----------------------------------------------------------------------------
(* The same note again is a refresh.                                       *)
Look(r) ==
  /\ At(r, "look")
  /\ GoesTo(r, IF \E i \in Actives : records[i].text = job[r].note THEN "refresh" ELSE "overlap")
  /\ UNCHANGED <<records, mirror>>

Refresh(r) ==
  /\ At(r, "refresh")
  /\ GoesTo(r, "render")
  /\ UNCHANGED <<records, mirror>>

(* What the note restates is read, and marked with its insertion.          *)
Overlap(r) ==
  /\ At(r, "overlap")
  /\ job' = [job EXCEPT ![r].at = "insert",
                        ![r].ids = {i \in Actives : Alike(records[i].text, job[r].note)}]
  /\ UNCHANGED <<records, mirror>>

InsertFirst(r) ==
  LET grown == Append(records, [text |-> job[r].note, by |-> 0])
  IN  /\ At(r, "insert") /\ Len(grown) <= MaxRecords
      /\ records' = [i \in DOMAIN grown |->
                       IF grown[i].by = 0 /\ Alike(grown[i].text, job[r].note)
                       THEN [grown[i] EXCEPT !.by = Len(grown)] ELSE grown[i]]
      /\ GoesTo(r, "render")
      /\ UNCHANGED mirror
Insert(r) ==
  LET new == Len(records) + 1
  IN  /\ At(r, "insert") /\ new <= MaxRecords
      /\ records' = Append([i \in DOMAIN records |->
                              IF i \in job[r].ids THEN [records[i] EXCEPT !.by = new] ELSE records[i]],
                           [text |-> job[r].note, by |-> 0])
      /\ GoesTo(r, "render")
      /\ UNCHANGED mirror

(* _write_mirror(): it reads the table, then replaces the file, if it can. *)
Render(r) ==
  /\ At(r, "render")
  /\ job' = [job EXCEPT ![r].at = "write", ![r].text = Rendered]
  /\ UNCHANGED <<records, mirror>>

WriteMirror(r) ==
  /\ At(r, "write")
  /\ mirror' \in {mirror, [is |-> "generated", text |-> job[r].text]}
  /\ job' = [job EXCEPT ![r] = Idle]
  /\ UNCHANGED records

(* The process is killed: what is not committed is rolled back; the mirror *)
(* may have been truncated.                                                *)
Crash(r) ==
  /\ ~At(r, "idle")
  /\ mirror' \in IF At(r, "write") THEN {mirror, [is |-> "generated", text |-> {}]} ELSE {mirror}
  /\ job' = [job EXCEPT ![r] = Idle]
  /\ UNCHANGED records

Next ==
  \E r \in Rememberer :
    \/ \E n \in Note : Remember(r, n)
    \/ Load(r) \/ Count(r) \/ ReadLegacy(r) \/ Import(r) \/ Show(r)
    \/ Look(r) \/ Refresh(r) \/ Overlap(r) \/ Insert(r) \/ Render(r) \/ WriteMirror(r) \/ Crash(r)

Spec == Init /\ [][Next]_vars

-----------------------------------------------------------------------------
(* What the user had written by hand is in the store before the mirror     *)
(* takes the place of the file, whoever calls first and wherever it dies.  *)
HandwrittenIsKept ==
  [][mirror.is = "hand" /\ mirror'.is # "hand" => Handwritten \subseteq Texts]_vars

(* A note stops being shown only because of a later one that restates it,  *)
(* however two calls interleave: nothing goes silent, and no note is       *)
(* superseded by an older one or by one of something else.                 *)
SupersededByNewer ==
  \A i \in DOMAIN records \ Actives :
    records[i].by > i /\ Alike(records[i].text, records[records[i].by].text)
=============================================================================
