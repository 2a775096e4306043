--------------------------- MODULE Services_proofs ---------------------------
(***************************************************************************)
(* Proofs about the parts that MCServices runs, each for all values of its *)
(* own constants, by the names MCServices gives the parts (InFlight itself *)
(* goes by its own).                                                       *)
(***************************************************************************)
EXTENDS MCServices, Sequences, FiniteSetTheorems, TLAPS

-----------------------------------------------------------------------------
(***************************************************************************)
(* InFlight: its types.                                                    *)
(***************************************************************************)
\* The empty report is well typed.
LEMMA NoReportIsTyped == NoReport \in Report
  BY DEF NoReport, Report

\* An edited report is well typed.
LEMMA EditIsTyped ==
  ASSUME NEW r \in Report
  PROVE  /\ \A at \in {"idle", "next", "check", "clear", "rest", "unknown", "interrupted"} :
              [r EXCEPT !.at = at] \in Report
         /\ \A c \in Cmd : [r EXCEPT !.cmd = c] \in Report
         /\ \A c \in Cmd : [r EXCEPT !.todo = r.todo \ {c}] \in Report
         /\ \A n \in Cmd \X Fate : [r EXCEPT !.written = r.written \cup {n}] \in Report
  BY DEF Report, Fate

\* The initial states are well typed.
LEMMA TypeInitial == Init => TypeOK
  BY NoReportIsTyped DEF Init, TypeOK, NoReport

\* No step leaves the types.
LEMMA TypeStep == TypeOK /\ [Next]_vars => TypeOK'
<1> SUFFICES ASSUME TypeOK, [Next]_vars PROVE TypeOK'
  OBVIOUS
<1> USE DEF TypeOK, files, runs, Goes
<1>1. ASSUME NEW p \in Executing, NEW c \in Cmd, Begin(p, c) PROVE TypeOK'
  BY <1>1, InFlightAssumption DEF Begin
<1>2. ASSUME NEW c \in Cmd, Spawn(c) \/ SpawnFails(c) \/ StartedRead(c) PROVE TypeOK'
  BY <1>2 DEF Spawn, SpawnFails, StartedRead
<1>3. ASSUME NEW c \in Cmd, StartedWrite(c) PROVE TypeOK'
  BY <1>3 DEF StartedWrite
<1>4. ASSUME NEW c \in Cmd, Exit(c) \/ Reap(c) PROVE TypeOK'
  BY <1>4, ZenonT(40) DEF Exit, Reap
<1>5. ASSUME NEW c \in Cmd, FinishRecord(c) \/ FinishOutput(c) PROVE TypeOK'
  BY <1>5 DEF FinishRecord, FinishOutput
<1>6. ASSUME NEW p \in Crashable, Crash(p) PROVE TypeOK'
  BY <1>6, NoReportIsTyped DEF Crash, NoReport
<1>7. ASSUME NEW p \in Reporting, Scan(p) PROVE TypeOK'
  BY <1>7, NoReportIsTyped DEF Scan, NoReport, Report
<1>8. ASSUME NEW p \in Reporting, NEW c \in Cmd, Look(p, c) PROVE TypeOK'
  <2>1. report' \in [Reporting -> Report]
    <3> DEFINE at == CASE rec[c] = "none"  -> "clear"
                       [] rec[c] = "begun" -> "unknown"
                       [] rec[c] = "pid"   -> "check"
    <3>1. at \in {"clear", "unknown", "check"}
      OBVIOUS
    <3> HIDE DEF at
    <3>2. report' = [report EXCEPT ![p].at = at, ![p].cmd = c, ![p].todo = @ \ {c}]
      BY <1>8 DEF Look, at
    <3> DEFINE r1 == [report[p] EXCEPT !.at = at]
               r2 == [r1 EXCEPT !.cmd = c]
               r3 == [r2 EXCEPT !.todo = r2.todo \ {c}]
    <3>3. r1 \in Report
      BY <3>1, EditIsTyped
    <3>4. r2 \in Report
      BY <3>3, EditIsTyped
    <3>5. r3 \in Report
      BY <3>4, EditIsTyped
    <3>6. report' = [report EXCEPT ![p] = r3]
      BY <3>2
    <3>7. QED
      BY <3>5, <3>6
  <2>2. report'[p].cmd = c /\ \A q \in Reporting \ {p} : report'[q] = report[q]
    BY <1>8 DEF Look, Report
  <2>3. QED
    BY <1>8, <2>1, <2>2 DEF Look
<1>9. ASSUME NEW p \in Reporting, Check(p) PROVE TypeOK'
  <2>1. report' \in [Reporting -> Report]
    <3>1. PICK at \in {"next", "interrupted"} :
            report' = [report EXCEPT ![p] = [report[p] EXCEPT !.at = at]]
      BY <1>9 DEF Check, Reports
    <3>2. [report[p] EXCEPT !.at = at] \in Report
      BY EditIsTyped
    <3>3. QED
      BY <3>1, <3>2
  <2>2. \A q \in Reporting : report'[q].cmd = report[q].cmd
    BY <1>9 DEF Check, Reports, Report
  <2>3. \A q \in Reporting \ {p} : report'[q] = report[q]
    BY <1>9 DEF Check, Reports
  <2>4. report[p].cmd \in Cmd
    BY <1>9 DEF Check, Reports
  <2>5. QED
    BY <1>9, <2>1, <2>2, <2>3, <2>4 DEF Check
<1>10. ASSUME NEW p \in Reporting, Write(p) PROVE TypeOK'
  <2>1. report[p].cmd \in Cmd
    BY <1>10 DEF Write, Fate
  <2>2. <<report[p].cmd, report[p].at>> \in Cmd \X Fate
    BY <1>10, <2>1 DEF Write
  <2> DEFINE r1 == [report[p] EXCEPT !.at = "clear"]
             r2 == [r1 EXCEPT !.written = r1.written \cup {<<report[p].cmd, report[p].at>>}]
  <2>a. r1 \in Report /\ r2 \in Report
    BY <2>2, EditIsTyped
  <2>b. report' = [report EXCEPT ![p] = r2]
    BY <1>10 DEF Write, Report
  <2>3. report' \in [Reporting -> Report]
    BY <2>a, <2>b
  <2>4. \A q \in Reporting : report'[q].cmd = report[q].cmd
    BY <1>10 DEF Write, Report
  <2>5. \A q \in Reporting \ {p} : report'[q] = report[q]
    BY <1>10 DEF Write
  <2>6. QED
    BY <1>10, <2>1, <2>3, <2>4, <2>5 DEF Write
<1>11. ASSUME NEW p \in Reporting, ClearRecord(p) \/ ClearOutput(p) PROVE TypeOK'
  <2>1. report' \in [Reporting -> Report]
    <3>1. PICK at \in {"rest", "next"} :
            report' = [report EXCEPT ![p] = [report[p] EXCEPT !.at = at]]
      BY <1>11 DEF ClearRecord, ClearOutput, Reports
    <3>2. [report[p] EXCEPT !.at = at] \in Report
      BY EditIsTyped
    <3>3. QED
      BY <3>1, <3>2
  <2>2. report[p].cmd \in Cmd
    BY <1>11 DEF ClearRecord, ClearOutput, Reports
  <2>3. \A q \in Reporting : report'[q].cmd = report[q].cmd
    BY <1>11, SMTT(30) DEF ClearRecord, ClearOutput, Reports, Report
  <2>4. \A q \in Reporting \ {p} : report'[q] = report[q]
    BY <1>11 DEF ClearRecord, ClearOutput, Reports
  <2>5. QED
    BY <1>11, <2>1, <2>2, <2>3, <2>4 DEF ClearRecord, ClearOutput
<1>12. ASSUME NEW p \in Reporting, Deliver(p) PROVE TypeOK'
  <2>1. notices' \in [Cmd -> [Fate -> Nat]]
    BY <1>12 DEF Deliver
  <2>2. report' \in [Reporting -> Report]
    BY <1>12, NoReportIsTyped DEF Deliver
  <2>3. \A q \in Reporting : report'[q].at \notin {"idle", "next"} => report'[q].cmd \in Cmd
    BY <1>12 DEF Deliver, NoReport
  <2>4. QED
    BY <1>12, <2>1, <2>2, <2>3 DEF Deliver
<1>13. CASE UNCHANGED vars
  BY <1>13 DEF vars
<1>14. QED
  BY <1>1, <1>2, <1>3, <1>4, <1>5, <1>6, <1>7, <1>8, <1>9, <1>10, <1>11, <1>12, <1>13
  DEF Next, Execute

\* Every reachable state is well typed, and no record has the pid of a
\* process that was never started.
THEOREM TypeCorrect == Spec => []TypeOK
  BY TypeInitial, TypeStep, PTL DEF Spec

(***************************************************************************)
(* InterruptedIsOver.  The record says "pid" only of a shell that exists   *)
(* or has existed, a shell that has gone stays gone, and no command gets a *)
(* second shell; so what Check found gone is gone when the notice is       *)
(* written, and when it is delivered.                                      *)
(***************************************************************************)
SpawnedOnce == \A c \in Cmd : exec[c] \in {"idle", "begun"} => child[c] = "none"

CheckedHadChild ==
  \A p \in Reporting :
    /\ report[p].at = "check" => child[report[p].cmd] # "none"
    /\ report[p].at = "interrupted" => child[report[p].cmd] = "gone"

OverInv == TypeOK /\ SpawnedOnce /\ CheckedHadChild /\ InterruptedIsOver

\* No shell and no report exist at first.
LEMMA OverInitial == Init => OverInv
<1> SUFFICES ASSUME Init PROVE SpawnedOnce /\ CheckedHadChild /\ InterruptedIsOver
  BY TypeInitial DEF OverInv
<1> QED
  BY DEF Init, SpawnedOnce, CheckedHadChild, InterruptedIsOver, NoReport, Fate

\* A shell that has gone stays gone, in every step.
LEMMA GoneForGood ==
  ASSUME TypeOK, SpawnedOnce, [Next]_vars, NEW c \in Cmd
  PROVE  /\ child[c] = "gone" => child'[c] = "gone"
         /\ child[c] # "none" => child'[c] # "none"
<1> USE DEF TypeOK, SpawnedOnce, files, runs, Goes
<1>1. ASSUME NEW p \in Executing, NEW d \in Cmd, Begin(p, d) PROVE child' = child
  BY <1>1 DEF Begin
<1>2. ASSUME NEW d \in Cmd, Execute(d) \/ Exit(d)
      PROVE /\ child[c] = "gone" => child'[c] = "gone"
            /\ child[c] # "none" => child'[c] # "none"
  BY <1>2 DEF Execute, Exit, Spawn, SpawnFails, StartedRead, StartedWrite, Reap,
              FinishRecord, FinishOutput
<1>3. ASSUME NEW p \in Crashable, Crash(p)
      PROVE /\ child[c] = "gone" => child'[c] = "gone"
            /\ child[c] # "none" => child'[c] # "none"
  BY <1>3 DEF Crash
<1>4. ASSUME NEW p \in Reporting,
             \/ Scan(p) \/ Check(p) \/ Write(p) \/ ClearRecord(p) \/ ClearOutput(p) \/ Deliver(p)
             \/ \E d \in Cmd : Look(p, d)
      PROVE child' = child
  BY <1>4 DEF Scan, Check, Write, ClearRecord, ClearOutput, Deliver, Look
<1>5. CASE UNCHANGED vars
  BY <1>5 DEF vars
<1>6. QED
  BY <1>1, <1>2, <1>3, <1>4, <1>5 DEF Next

\* No command gets a second shell.
LEMMA SpawnedOnceStep == TypeOK /\ SpawnedOnce /\ [Next]_vars => SpawnedOnce'
<1> SUFFICES ASSUME TypeOK, SpawnedOnce, [Next]_vars PROVE SpawnedOnce'
  OBVIOUS
<1> USE DEF TypeOK, SpawnedOnce, files, runs, Goes
<1>1. ASSUME NEW p \in Executing, NEW c \in Cmd, Begin(p, c) PROVE SpawnedOnce'
  BY <1>1 DEF Begin
<1>2. ASSUME NEW c \in Cmd, Execute(c) \/ Exit(c) PROVE SpawnedOnce'
  BY <1>2 DEF Execute, Exit, Spawn, SpawnFails, StartedRead, StartedWrite, Reap,
              FinishRecord, FinishOutput
<1>3. ASSUME NEW p \in Crashable, Crash(p) PROVE SpawnedOnce'
  BY <1>3 DEF Crash
<1>4. ASSUME NEW p \in Reporting,
             \/ Scan(p) \/ Check(p) \/ Write(p) \/ ClearRecord(p) \/ ClearOutput(p) \/ Deliver(p)
             \/ \E d \in Cmd : Look(p, d)
      PROVE SpawnedOnce'
  BY <1>4 DEF Scan, Check, Write, ClearRecord, ClearOutput, Deliver, Look
<1>5. CASE UNCHANGED vars
  BY <1>5 DEF vars
<1>6. QED
  BY <1>1, <1>2, <1>3, <1>4, <1>5 DEF Next

\* Steps that leave the reports and the notices alone keep what they found.
LEMMA OverKept ==
  ASSUME OverInv, [Next]_vars, UNCHANGED <<report, notices>>
  PROVE  CheckedHadChild' /\ InterruptedIsOver'
<1> USE DEF OverInv
<1>1. \A c \in Cmd : /\ child[c] = "gone" => child'[c] = "gone"
                     /\ child[c] # "none" => child'[c] # "none"
  BY GoneForGood
<1>2. CheckedHadChild'
  <2> SUFFICES ASSUME NEW p \in Reporting, report[p].at \in {"check", "interrupted"}
               PROVE  /\ report[p].at = "check" => child'[report[p].cmd] # "none"
                      /\ report[p].at = "interrupted" => child'[report[p].cmd] = "gone"
    BY DEF CheckedHadChild
  <2>1. report[p].cmd \in Cmd
    BY DEF TypeOK
  <2>2. QED
    BY <1>1, <2>1 DEF CheckedHadChild
<1>3. InterruptedIsOver'
  BY <1>1 DEF InterruptedIsOver
<1>4. QED
  BY <1>2, <1>3

\* The invariant of InterruptedIsOver is inductive.
LEMMA OverStep == OverInv /\ [Next]_vars => OverInv'
<1> SUFFICES ASSUME OverInv, [Next]_vars PROVE CheckedHadChild' /\ InterruptedIsOver'
  BY TypeStep, SpawnedOnceStep DEF OverInv
<1> USE DEF OverInv, TypeOK, files, runs
<1>1. ASSUME NEW c \in Cmd, Execute(c) \/ Exit(c) \/ \E p \in Executing : Begin(p, c)
      PROVE UNCHANGED <<report, notices>>
  BY <1>1 DEF Execute, Exit, Spawn, SpawnFails, StartedRead, StartedWrite, Reap,
              FinishRecord, FinishOutput, Begin
<1>2. CASE UNCHANGED vars
  BY <1>2, OverKept DEF vars
<1>3. ASSUME NEW p \in Crashable, Crash(p) PROVE CheckedHadChild' /\ InterruptedIsOver'
  <2>1. \A c \in Cmd : /\ child[c] = "gone" => child'[c] = "gone"
                       /\ child[c] # "none" => child'[c] # "none"
    BY GoneForGood
  <2>2. \A q \in Reporting : report'[q] = report[q] \/ report'[q] = NoReport
    BY <1>3 DEF Crash
  <2>3. CheckedHadChild'
    BY <2>1, <2>2 DEF CheckedHadChild, NoReport
  <2>4. InterruptedIsOver'
    BY <1>3, <2>1, <2>2 DEF InterruptedIsOver, NoReport, Crash
  <2>5. QED
    BY <2>3, <2>4
<1>4. ASSUME NEW p \in Reporting, Scan(p) PROVE CheckedHadChild' /\ InterruptedIsOver'
  <2>1. report'[p].at = "next" /\ report'[p].written = {}
    BY <1>4 DEF Scan, NoReport
  <2>2. \A q \in Reporting \ {p} : report'[q] = report[q]
    BY <1>4 DEF Scan
  <2>3. CheckedHadChild'
    BY <1>4, <2>1, <2>2 DEF Scan, CheckedHadChild
  <2>4. InterruptedIsOver'
    BY <1>4, <2>1, <2>2 DEF Scan, InterruptedIsOver
  <2>5. QED
    BY <2>3, <2>4
<1>5. ASSUME NEW p \in Reporting, NEW c \in Cmd, Look(p, c)
      PROVE CheckedHadChild' /\ InterruptedIsOver'
  <2>1. /\ report'[p].at # "interrupted"
        /\ report'[p].at = "check" => rec[c] = "pid"
        /\ report'[p].cmd = c /\ report'[p].written = report[p].written
    BY <1>5 DEF Look, Report
  <2>2. \A q \in Reporting \ {p} : report'[q] = report[q]
    BY <1>5 DEF Look
  <2>3. UNCHANGED <<child, notices>> /\ (rec[c] = "pid" => child[c] # "none")
    BY <1>5 DEF Look
  <2>4. CheckedHadChild'
    BY <2>1, <2>2, <2>3 DEF CheckedHadChild
  <2>5. InterruptedIsOver'
    BY <2>1, <2>2, <2>3 DEF InterruptedIsOver
  <2>6. QED
    BY <2>4, <2>5
<1>6. ASSUME NEW p \in Reporting, Check(p) PROVE CheckedHadChild' /\ InterruptedIsOver'
  <2>1. /\ report'[p].at = "interrupted" => ~Alive(report[p].cmd)
        /\ report'[p].at # "check" /\ report[p].at = "check"
        /\ report'[p].cmd = report[p].cmd /\ report'[p].written = report[p].written
    BY <1>6 DEF Check, Reports, Report
  <2>2. \A q \in Reporting \ {p} : report'[q] = report[q]
    BY <1>6 DEF Check, Reports
  <2>3. report[p].cmd \in Cmd
    BY <2>1
  <2>4. UNCHANGED <<child, notices>>
    BY <1>6 DEF Check
  <2>5. report'[p].at = "interrupted" => child[report[p].cmd] = "gone"
    BY <2>1, <2>3 DEF CheckedHadChild, Alive
  <2>6. CheckedHadChild'
    BY <2>1, <2>2, <2>4, <2>5 DEF CheckedHadChild
  <2>7. InterruptedIsOver'
    BY <2>1, <2>2, <2>4 DEF InterruptedIsOver
  <2>8. QED
    BY <2>6, <2>7
<1>7. ASSUME NEW p \in Reporting, Write(p) PROVE CheckedHadChild' /\ InterruptedIsOver'
  <2>1. /\ report'[p].at = "clear"
        /\ report'[p].written = report[p].written \cup {<<report[p].cmd, report[p].at>>}
    BY <1>7 DEF Write, Report
  <2>2. \A q \in Reporting \ {p} : report'[q] = report[q]
    BY <1>7 DEF Write
  <2>3. \A c \in Cmd : <<c, "interrupted">> \in report'[p].written
          => <<c, "interrupted">> \in report[p].written \/ child[c] = "gone"
    BY <2>1 DEF CheckedHadChild
  <2>4. UNCHANGED <<child, notices>>
    BY <1>7 DEF Write
  <2>5. CheckedHadChild'
    BY <2>1, <2>2, <2>4 DEF CheckedHadChild
  <2>6. InterruptedIsOver'
    BY <2>2, <2>3, <2>4 DEF InterruptedIsOver
  <2>7. QED
    BY <2>5, <2>6
<1>8. ASSUME NEW p \in Reporting, ClearRecord(p) \/ ClearOutput(p)
      PROVE CheckedHadChild' /\ InterruptedIsOver'
  <2>1. /\ report'[p].at \in {"rest", "next"}
        /\ report'[p].written = report[p].written
    BY <1>8 DEF ClearRecord, ClearOutput, Reports, Report
  <2>2. \A q \in Reporting \ {p} : report'[q] = report[q]
    BY <1>8 DEF ClearRecord, ClearOutput, Reports
  <2>3. UNCHANGED <<child, notices>>
    BY <1>8 DEF ClearRecord, ClearOutput, runs
  <2>4. CheckedHadChild'
    BY <2>1, <2>2, <2>3 DEF CheckedHadChild
  <2>5. InterruptedIsOver'
    BY <2>1, <2>2, <2>3 DEF InterruptedIsOver
  <2>6. QED
    BY <2>4, <2>5
<1>9. ASSUME NEW p \in Reporting, Deliver(p) PROVE CheckedHadChild' /\ InterruptedIsOver'
  <2>1. \A q \in Reporting : report'[q] = report[q] \/ report'[q] = NoReport
    BY <1>9 DEF Deliver
  <2>2. \A c \in Cmd : notices'[c]["interrupted"] > 0
          => notices[c]["interrupted"] > 0 \/ <<c, "interrupted">> \in report[p].written
    BY <1>9 DEF Deliver, Fate
  <2>3. UNCHANGED child
    BY <1>9 DEF Deliver, runs
  <2>4. CheckedHadChild'
    BY <2>1, <2>3 DEF CheckedHadChild, NoReport
  <2>5. InterruptedIsOver'
    BY <2>1, <2>2, <2>3 DEF InterruptedIsOver, NoReport
  <2>6. QED
    BY <2>4, <2>5
<1>10. QED
  BY <1>1, <1>2, <1>3, <1>4, <1>5, <1>6, <1>7, <1>8, <1>9, OverKept DEF Next

\* A notice of an interrupted command is never about one that still runs,
\* with any number of processes that execute, die and report.
THEOREM InterruptedIsTrue == Spec => []InterruptedIsOver
<1>1. OverInv => InterruptedIsOver
  BY DEF OverInv
<1>2. QED
  BY <1>1, OverInitial, OverStep, PTL DEF Spec

(***************************************************************************)
(* DoneLeavesNothing.  The record is written while its command has not got *)
(* past started(), and nothing writes it afterwards.                       *)
(***************************************************************************)
UnlinkedForGood == \A c \in Cmd : exec[c] \in {"unlinked", "done", "late"} => rec[c] = "none"

DoneInv == TypeOK /\ UnlinkedForGood /\ DoneLeavesNothing

\* What finish() has removed is not written again.
LEMMA DoneStep == DoneInv /\ [Next]_vars => DoneInv'
<1> SUFFICES ASSUME DoneInv, [Next]_vars PROVE UnlinkedForGood' /\ DoneLeavesNothing'
  BY TypeStep DEF DoneInv
<1> USE DEF DoneInv, TypeOK, UnlinkedForGood, DoneLeavesNothing, files, runs, Goes
<1>1. ASSUME NEW p \in Executing, NEW c \in Cmd, Begin(p, c)
      PROVE UnlinkedForGood' /\ DoneLeavesNothing'
  BY <1>1 DEF Begin
<1>2. ASSUME NEW c \in Cmd, Execute(c) \/ Exit(c) PROVE UnlinkedForGood' /\ DoneLeavesNothing'
  BY <1>2 DEF Execute, Exit, Spawn, SpawnFails, StartedRead, StartedWrite, Reap,
              FinishRecord, FinishOutput
<1>3. ASSUME NEW p \in Crashable, Crash(p) PROVE UnlinkedForGood' /\ DoneLeavesNothing'
  BY <1>3 DEF Crash
<1>4. ASSUME NEW p \in Reporting, ClearRecord(p) \/ ClearOutput(p)
      PROVE UnlinkedForGood' /\ DoneLeavesNothing'
  <2>1. /\ rec' = rec \/ rec' = [rec EXCEPT ![report[p].cmd] = "none"]
        /\ out' = out \/ out' = [out EXCEPT ![report[p].cmd] = FALSE]
        /\ exec' = exec
    BY <1>4 DEF ClearRecord, ClearOutput
  <2>2. QED
    BY <2>1
<1>5. ASSUME NEW p \in Reporting,
             Scan(p) \/ Check(p) \/ Write(p) \/ Deliver(p) \/ \E d \in Cmd : Look(p, d)
      PROVE UnlinkedForGood' /\ DoneLeavesNothing'
  <2>1. UNCHANGED <<rec, out, exec>>
    BY <1>5 DEF Scan, Check, Write, Deliver, Look
  <2>2. QED
    BY <2>1
<1>6. CASE UNCHANGED vars
  BY <1>6 DEF vars
<1>7. QED
  BY <1>1, <1>2, <1>3, <1>4, <1>5, <1>6 DEF Next

\* A command executed to its end leaves no file, whatever reports raced with
\* started() and finish().
THEOREM DoneIsClean == Spec => []DoneLeavesNothing
<1>1. Init => DoneInv
  BY TypeInitial DEF Init, DoneInv, UnlinkedForGood, DoneLeavesNothing
<1>2. DoneInv => DoneLeavesNothing
  BY DEF DoneInv
<1>3. QED
  BY <1>1, <1>2, DoneStep, PTL DEF Spec

(***************************************************************************)
(* NothingIsForgotten.  A record that report() clears has a notice first,  *)
(* of this report or of an earlier one, unless its command was finished;   *)
(* and a notice that was written is delivered, because whoever reports     *)
(* lives to the end of its report.  A process that dies between clearing a *)
(* record and showing the notice does forget it.                           *)
(***************************************************************************)
ReportersLive == Crashable \cap Reporting = {}

Owed(c) == tracked[c] /\ exec[c] \notin {"unlinked", "done", "late"}

Noticed(c) == InReport(c) \/ Reported(c)

OwedIsKept == \A c \in Cmd : Owed(c) => rec[c] # "none" \/ Noticed(c)

ClearedIsNoticed ==
  \A p \in Reporting : report[p].at = "clear" /\ Owed(report[p].cmd) => Noticed(report[p].cmd)

\* What a report is about has begun, and an idle one has written nothing.
Begun(c) == exec[c] # "idle"

OnlyBegun ==
  /\ \A c \in Cmd : rec[c] # "none" \/ tracked[c] => Begun(c)
  /\ \A p \in Reporting : /\ \A c \in report[p].todo : Begun(c)
                          /\ report[p].at \notin {"idle", "next"} => Begun(report[p].cmd)
                          /\ report[p].at = "idle" => report[p].written = {}

KeptInv == TypeOK /\ OnlyBegun /\ OwedIsKept /\ ClearedIsNoticed

\* Each step of a report, as what it does to the report's record.
Reporter(p) ==
  \/ Scan(p) \/ Check(p) \/ Write(p) \/ ClearRecord(p) \/ ClearOutput(p) \/ Deliver(p)
  \/ \E c \in Cmd : Look(p, c)

\* Commands, and processes that do not report, leave reports and notices.
LEMMA OthersLeaveReports ==
  ASSUME ReportersLive, TypeOK, [Next]_vars, \A p \in Reporting : ~Reporter(p)
  PROVE  UNCHANGED <<report, notices>>
<1>1. ASSUME NEW c \in Cmd, Execute(c) \/ Exit(c) \/ \E p \in Executing : Begin(p, c)
      PROVE UNCHANGED <<report, notices>>
  BY <1>1 DEF Execute, Exit, Spawn, SpawnFails, StartedRead, StartedWrite, Reap,
              FinishRecord, FinishOutput, Begin
<1>2. ASSUME NEW p \in Crashable, Crash(p) PROVE UNCHANGED <<report, notices>>
  BY <1>2 DEF Crash, ReportersLive, TypeOK
<1>3. CASE UNCHANGED vars
  BY <1>3 DEF vars
<1>4. QED
  BY <1>1, <1>2, <1>3 DEF Next, Reporter

\* A report takes a written notice along, and delivers it in the end.
LEMMA NoticedForGood ==
  ASSUME ReportersLive, TypeOK, OnlyBegun, [Next]_vars, NEW c \in Cmd, Noticed(c)
  PROVE  Noticed(c)'
<1>1. CASE UNCHANGED <<report, notices>>
  BY <1>1 DEF Noticed, InReport, Reported
<1>2. ASSUME NEW p \in Reporting, Reporter(p) PROVE Noticed(c)'
  <2> USE DEF TypeOK
  <2>1. \A q \in Reporting \ {p} : report'[q] = report[q]
    BY <1>2 DEF Reporter, Scan, Check, Reports, Write, ClearRecord, ClearOutput, Deliver, Look
  <2>2. CASE Deliver(p)
    <3>1. \A f \in Fate : /\ notices[c][f] > 0 => notices'[c][f] > 0
                          /\ <<c, f>> \in report[p].written => notices'[c][f] > 0
      BY <2>2 DEF Deliver, Fate
    <3>2. report[p].at \notin Fate
      BY <2>2 DEF Deliver, Fate
    <3>3. QED
      BY <2>1, <3>1, <3>2 DEF Noticed, InReport, Reported
  <2>3. CASE Write(p)
    <3>1. report'[p].written = report[p].written \cup {<<report[p].cmd, report[p].at>>}
      BY <2>3 DEF Write, Report
    <3>2. UNCHANGED notices
      BY <2>3 DEF Write
    <3>3. QED
      BY <2>1, <3>1, <3>2 DEF Noticed, InReport, Reported
  <2>4. CASE Scan(p)
    <3>1. report[p].written = {} /\ report[p].at \notin Fate /\ UNCHANGED notices
      BY <2>4 DEF Scan, OnlyBegun, Fate
    <3>2. QED
      BY <2>1, <3>1 DEF Noticed, InReport, Reported
  <2>5. CASE Check(p) \/ ClearRecord(p) \/ ClearOutput(p) \/ \E d \in Cmd : Look(p, d)
    <3>1. report'[p].written = report[p].written
      <4>1. CASE Check(p) \/ ClearRecord(p) \/ ClearOutput(p)
        BY <4>1 DEF Check, ClearRecord, ClearOutput, Reports, Report
      <4>2. CASE \E d \in Cmd : Look(p, d)
        BY <4>2 DEF Look, Report
      <4>3. QED
        BY <2>5, <4>1, <4>2
    <3>2. report[p].at \notin Fate /\ UNCHANGED notices
      BY <2>5 DEF Check, ClearRecord, ClearOutput, Look, Reports, Fate
    <3>3. QED
      BY <2>1, <3>1, <3>2 DEF Noticed, InReport, Reported
  <2>6. QED
    BY <1>2, <2>2, <2>3, <2>4, <2>5 DEF Reporter
<1>3. QED
  BY <1>1, <1>2, OthersLeaveReports

\* What has begun is never idle again, and what is not owed never will be.
LEMMA BegunForGood ==
  ASSUME TypeOK, [Next]_vars, NEW c \in Cmd, Begun(c)
  PROVE  Begun(c)' /\ (Owed(c)' => Owed(c))
<1> USE DEF TypeOK, files, runs, Goes, Begun, Owed
<1>1. ASSUME NEW p \in Executing, NEW d \in Cmd, Begin(p, d) PROVE Begun(c)' /\ (Owed(c)' => Owed(c))
  BY <1>1 DEF Begin
<1>2. ASSUME NEW d \in Cmd, Execute(d) \/ Exit(d) PROVE Begun(c)' /\ (Owed(c)' => Owed(c))
  BY <1>2 DEF Execute, Exit, Spawn, SpawnFails, StartedRead, StartedWrite, Reap,
              FinishRecord, FinishOutput
<1>3. ASSUME NEW p \in Crashable, Crash(p) PROVE Begun(c)' /\ (Owed(c)' => Owed(c))
  BY <1>3 DEF Crash
<1>4. ASSUME NEW p \in Reporting, Reporter(p) PROVE UNCHANGED <<exec, tracked>>
  BY <1>4 DEF Reporter, Scan, Check, Write, ClearRecord, ClearOutput, Deliver, Look
<1>5. CASE UNCHANGED vars
  BY <1>5 DEF vars
<1>6. QED
  BY <1>1, <1>2, <1>3, <1>4, <1>5 DEF Next, Reporter

\* Reports only come upon what has begun.
LEMMA OnlyBegunStep ==
  ASSUME ReportersLive, TypeOK, OnlyBegun, [Next]_vars
  PROVE  OnlyBegun'
<1>1. ASSUME NEW c \in Cmd, rec'[c] # "none" \/ tracked'[c] PROVE Begun(c)'
  <2> USE DEF TypeOK, files, runs, Goes, Begun
  <2>1. CASE rec[c] # "none" \/ tracked[c]
    BY <2>1, BegunForGood DEF OnlyBegun
  <2>2. CASE rec[c] = "none" /\ ~tracked[c]
    <3>1. ASSUME NEW p \in Reporting, Reporter(p) PROVE UNCHANGED tracked /\ rec'[c] = "none"
      <4>1. CASE ClearRecord(p)
        BY <2>2, <4>1 DEF ClearRecord
      <4>2. CASE ~ClearRecord(p)
        BY <2>2, <3>1, <4>2 DEF Reporter, Scan, Check, Write, ClearOutput, Deliver, Look
      <4>3. QED
        BY <4>1, <4>2
    <3>2. ASSUME NEW p \in Crashable, Crash(p) PROVE UNCHANGED <<rec, tracked>>
      BY <3>2 DEF Crash
    <3>3. ASSUME NEW d \in Cmd, Execute(d) \/ Exit(d) \/ \E p \in Executing : Begin(p, d)
          PROVE UNCHANGED <<rec, tracked>> \/ exec'[d] # "idle"
      BY <3>3 DEF Execute, Exit, Spawn, SpawnFails, StartedRead, StartedWrite, Reap,
                  FinishRecord, FinishOutput, Begin
    <3>4. ASSUME NEW d \in Cmd, Execute(d) \/ Exit(d) \/ \E p \in Executing : Begin(p, d)
          PROVE d = c \/ (rec'[c] = rec[c] /\ tracked'[c] = tracked[c])
      BY <3>4 DEF Execute, Exit, Spawn, SpawnFails, StartedRead, StartedWrite, Reap,
                  FinishRecord, FinishOutput, Begin
    <3>5. CASE UNCHANGED vars
      BY <1>1, <2>2, <3>5 DEF vars
    <3>6. QED
      BY <1>1, <2>2, <3>1, <3>2, <3>3, <3>4, <3>5 DEF Next, Reporter
  <2>3. QED
    BY <2>1, <2>2
<1>2. ASSUME NEW p \in Reporting
      PROVE (/\ \A c \in report[p].todo : Begun(c)
             /\ report[p].at \notin {"idle", "next"} => Begun(report[p].cmd)
             /\ report[p].at = "idle" => report[p].written = {})'
  <2> USE DEF TypeOK
  <2>1. report[p].todo \subseteq Cmd /\ (report[p].at \notin {"idle", "next"} => report[p].cmd \in Cmd)
    BY DEF Report
  <2>2. CASE report'[p] = report[p]
    BY <2>1, <2>2, BegunForGood DEF OnlyBegun
  <2>3. ASSUME Reporter(p) PROVE UNCHANGED exec
    BY <2>3 DEF Reporter, Scan, Check, Write, ClearRecord, ClearOutput, Deliver, Look, runs
  <2>4. CASE Scan(p)
    <3>1. report'[p].at = "next" /\ \A c \in report'[p].todo : c \in Cmd /\ rec[c] # "none"
      BY <2>4 DEF Scan, NoReport
    <3>2. QED
      BY <2>3, <2>4, <3>1 DEF OnlyBegun, Begun, Reporter
  <2>5. CASE Deliver(p)
    <3>1. report'[p] = NoReport
      BY <2>5 DEF Deliver
    <3>2. QED
      BY <3>1 DEF NoReport
  <2>6. ASSUME NEW c \in Cmd, Look(p, c) PROVE (/\ \A d \in report[p].todo : Begun(d)
                                               /\ Begun(report[p].cmd) /\ report[p].at # "idle")'
    <3>1. /\ report'[p].todo \subseteq report[p].todo /\ c \in report[p].todo
          /\ report'[p].cmd = c /\ report'[p].at # "idle"
      BY <2>6 DEF Look, Report
    <3>2. QED
      BY <2>3, <2>6, <3>1 DEF OnlyBegun, Begun, Reporter
  <2>7. CASE Check(p) \/ Write(p) \/ ClearRecord(p) \/ ClearOutput(p)
    <3>1. /\ report'[p].todo = report[p].todo /\ report'[p].cmd = report[p].cmd
          /\ report'[p].at # "idle" /\ report[p].at \notin {"idle", "next"}
      BY <2>7 DEF Check, Write, ClearRecord, ClearOutput, Reports, Report, Fate
    <3>2. QED
      BY <2>3, <2>7, <3>1 DEF OnlyBegun, Begun, Reporter
  <2>8. ASSUME NEW q \in Reporting \ {p}, Reporter(q) PROVE report'[p] = report[p]
    BY <2>8 DEF Reporter, Scan, Check, Reports, Write, ClearRecord, ClearOutput, Deliver, Look
  <2>9. QED
    BY <2>2, <2>4, <2>5, <2>6, <2>7, <2>8, OthersLeaveReports DEF Reporter
<1>3. QED
  BY <1>1, <1>2 DEF OnlyBegun

\* A record goes when its command is finished, or by a report that has, or
\* has seen, its notice.
LEMMA OwedIsKeptStep ==
  ASSUME ReportersLive, KeptInv, [Next]_vars
  PROVE  OwedIsKept'
<1> SUFFICES ASSUME NEW c \in Cmd, Owed(c)', ~Noticed(c)' PROVE rec'[c] # "none"
  BY DEF OwedIsKept
<1> USE DEF KeptInv, TypeOK, files, runs, Goes
<1>1. ~Noticed(c)
  BY NoticedForGood
<1>2. CASE ~Begun(c)
  <2>1. ~tracked[c]
    BY <1>2 DEF OnlyBegun
  <2>2. PICK p \in Executing : Begin(p, c)
    <3>1. ASSUME NEW d \in Cmd, Execute(d) \/ Exit(d) PROVE UNCHANGED tracked
      BY <3>1 DEF Execute, Exit, Spawn, SpawnFails, StartedRead, StartedWrite, Reap,
                  FinishRecord, FinishOutput
    <3>2. ASSUME NEW p \in Executing, NEW d \in Cmd \ {c}, Begin(p, d) PROVE tracked'[c] = tracked[c]
      BY <3>2 DEF Begin
    <3>3. ASSUME NEW p \in Crashable, Crash(p) PROVE UNCHANGED tracked
      BY <3>3 DEF Crash
    <3>4. ASSUME NEW p \in Reporting, Reporter(p) PROVE UNCHANGED tracked
      BY <3>4 DEF Reporter, Scan, Check, Write, ClearRecord, ClearOutput, Deliver, Look
    <3>5. CASE UNCHANGED vars
      BY <2>1, <3>5 DEF vars, Owed
    <3>6. QED
      BY <2>1, <3>1, <3>2, <3>3, <3>4, <3>5 DEF Next, Reporter, Owed
  <2>3. QED
    BY <2>2 DEF Begin, Owed
<1>3. CASE Begun(c)
  <2>1. Owed(c) /\ rec[c] # "none"
    BY <1>1, <1>3, BegunForGood DEF OwedIsKept
  <2>2. ASSUME NEW p \in Reporting, Reporter(p) PROVE rec'[c] = rec[c]
    <3>1. CASE ClearRecord(p)
      <4>1. report[p].cmd # c
        BY <1>1, <2>1, <3>1 DEF ClearedIsNoticed, ClearRecord, Reports
      <4>2. QED
        BY <3>1, <4>1 DEF ClearRecord
    <3>2. CASE ~ClearRecord(p)
      BY <2>2, <3>2 DEF Reporter, Scan, Check, Write, ClearOutput, Deliver, Look
    <3>3. QED
      BY <3>1, <3>2
  <2>3. ASSUME NEW d \in Cmd, FinishRecord(d) PROVE rec'[c] = rec[c]
    BY <2>3 DEF FinishRecord, Owed
  <2>4. ASSUME NEW d \in Cmd, \/ Exit(d) \/ \E p \in Executing : Begin(p, d)
                              \/ Execute(d) /\ ~FinishRecord(d)
        PROVE rec'[c] = rec[c] \/ rec'[c] = "pid"
    BY <1>3, <2>4 DEF Execute, Exit, Spawn, SpawnFails, StartedRead, StartedWrite, Reap,
                FinishOutput, Begin, Begun
  <2>5. ASSUME NEW p \in Crashable, Crash(p) PROVE rec' = rec
    BY <2>5 DEF Crash
  <2>6. CASE UNCHANGED vars
    BY <2>1, <2>6 DEF vars
  <2>7. QED
    BY <2>1, <2>2, <2>3, <2>4, <2>5, <2>6 DEF Next, Reporter, Execute
<1>4. QED
  BY <1>2, <1>3

\* A report is at its "clear" for the record of a command it has, or has
\* seen, a notice of.
LEMMA ClearedIsNoticedStep ==
  ASSUME ReportersLive, KeptInv, [Next]_vars
  PROVE  ClearedIsNoticed'
<1> SUFFICES ASSUME NEW p \in Reporting, report'[p].at = "clear", Owed(report[p].cmd)'
             PROVE  Noticed(report[p].cmd)'
  BY DEF ClearedIsNoticed
<1> USE DEF KeptInv, TypeOK
<1>1. CASE report'[p] = report[p]
  <2>1. report[p].cmd \in Cmd /\ Begun(report[p].cmd)
    BY <1>1 DEF OnlyBegun
  <2>2. Noticed(report[p].cmd)
    BY <1>1, <2>1, BegunForGood DEF ClearedIsNoticed
  <2>3. QED
    BY <1>1, <2>1, <2>2, NoticedForGood
<1>2. ASSUME NEW c \in Cmd, Look(p, c) PROVE Noticed(report[p].cmd)'
  <2>1. report'[p].cmd = c /\ (rec[c] = "none" \/ report'[p].at # "clear") /\ c \in report[p].todo
    BY <1>2 DEF Look, Report
  <2>2. Begun(c)
    BY <2>1 DEF OnlyBegun
  <2>3. Noticed(c)
    BY <2>1, <2>2, BegunForGood DEF OwedIsKept
  <2>4. QED
    BY <2>1, <2>3, NoticedForGood
<1>3. CASE Write(p)
  <2>1. /\ report'[p].cmd = report[p].cmd /\ report[p].at \in Fate
        /\ <<report[p].cmd, report[p].at>> \in report'[p].written
    BY <1>3 DEF Write, Report
  <2>2. QED
    BY <2>1 DEF Noticed, InReport
<1>4. CASE Scan(p) \/ Check(p) \/ ClearRecord(p) \/ ClearOutput(p) \/ Deliver(p)
  <2>1. Scan(p) => report'[p].at = "next"
    BY DEF Scan, NoReport
  <2>2. Deliver(p) => report'[p].at = "idle"
    BY DEF Deliver, NoReport
  <2>3. Check(p) => report'[p].at \in {"next", "interrupted"}
    BY DEF Check, Reports, Report
  <2>4. ClearRecord(p) \/ ClearOutput(p) => report'[p].at \in {"rest", "next"}
    BY DEF ClearRecord, ClearOutput, Reports, Report
  <2>5. QED
    BY <1>4, <2>1, <2>2, <2>3, <2>4
<1>5. ASSUME NEW q \in Reporting \ {p}, Reporter(q) PROVE report'[p] = report[p]
  BY <1>5 DEF Reporter, Scan, Check, Reports, Write, ClearRecord, ClearOutput, Deliver, Look
<1>6. QED
  BY <1>1, <1>2, <1>3, <1>4, <1>5, OthersLeaveReports DEF Reporter

\* Where those who report live to the end of their reports, a command that
\* its process did not live to finish is on record, in a notice, or reported,
\* with any number of processes that execute, die and report at once; and
\* only as interrupted when it no longer runs.
THEOREM OrphansAreAccounted == ReportersLive => (Spec => []OrphansAreReported)
<1> SUFFICES ASSUME ReportersLive PROVE Spec => []OrphansAreReported
  OBVIOUS
<1>1. Init => KeptInv
  BY TypeInitial DEF Init, KeptInv, OnlyBegun, OwedIsKept, ClearedIsNoticed, Owed, NoReport
<1>2. KeptInv /\ [Next]_vars => KeptInv'
  BY TypeStep, OnlyBegunStep, OwedIsKeptStep, ClearedIsNoticedStep DEF KeptInv
<1>3. KeptInv => NothingIsForgotten
  BY DEF KeptInv, OwedIsKept, NothingIsForgotten, Owed, Noticed
<1>4. QED
  BY <1>1, <1>2, <1>3, InterruptedIsTrue, PTL DEF Spec, OrphansAreReported

-----------------------------------------------------------------------------
(***************************************************************************)
(* GitHubProjects.  The directory of a repository is made by a clone of it *)
(* or by the rename of an old clone that was found to be its own.  Whoever *)
(* is about to rename still finds that one or none: an old directory goes  *)
(* away, and does not come back as another repository's.                   *)
(***************************************************************************)
NoneIsNoRepo == None \notin Repo

DirectoryIsOwn ==
  /\ \A r \in Repo : dir[r].repo \in {r, None}
  /\ \A o \in Opener : /\ opener[o].at # "rest" => opener[o].repo \in Repo
                       /\ opener[o].at = "adopting" => legacy \in {opener[o].repo, None}

ProjectsInv == Projects!TypeOK /\ DirectoryIsOwn

LEMMA DirectoryIsOwnStep ==
  ASSUME NoneIsNoRepo, ProjectsInv, [Projects!Next]_(Projects!vars)
  PROVE  ProjectsInv'
<1> USE DEF ProjectsInv, DirectoryIsOwn, Projects!TypeOK, Projects!At, Projects!GoesTo, NoneIsNoRepo
<1>1. ASSUME NEW o \in Opener, NEW r \in Repo, Projects!Open(o, r) PROVE ProjectsInv'
  BY <1>1 DEF Projects!Open
<1>2. ASSUME NEW o \in Opener, Projects!AskOrigin(o) PROVE ProjectsInv'
  BY <1>2, SMTT(30) DEF Projects!AskOrigin
<1>3. ASSUME NEW o \in Opener, Projects!Adopt(o) PROVE ProjectsInv'
  BY <1>3 DEF Projects!Adopt
<1>4. ASSUME NEW o \in Opener, Projects!Place(o) PROVE ProjectsInv'
  <2>1. opener[o].repo \in Repo /\ UNCHANGED legacy
    BY <1>4 DEF Projects!Place
  <2>2. CASE dir[opener[o].repo].is \in {"partial", "whole"}
    BY <1>4, <2>1, <2>2 DEF Projects!Place
  <2>3. CASE dir[opener[o].repo].is = "absent"
    <3>1. /\ dir' = [dir EXCEPT ![opener[o].repo] = [is |-> "empty", repo |-> dir[opener[o].repo].repo]]
          /\ Projects!GoesTo(o, "cloning")
      BY <1>4, <2>1, <2>3 DEF Projects!Place
    <3>2. QED
      BY <2>1, <3>1
  <2>4. CASE dir[opener[o].repo].is = "empty"
    BY <1>4, <2>1, <2>4, SMTT(30) DEF Projects!Place
  <2>5. QED
    BY <2>1, <2>2, <2>3, <2>4
<1>5. ASSUME NEW o \in Opener, Projects!StartClone(o) PROVE ProjectsInv'
  BY <1>5 DEF Projects!StartClone
<1>6. ASSUME NEW o \in Opener, Projects!Cloned(o) PROVE ProjectsInv'
  <2>1. opener[o].repo \in Repo /\ UNCHANGED legacy
    BY <1>6 DEF Projects!Cloned
  <2>2. dir' = [dir EXCEPT ![opener[o].repo].is = "whole"] /\ Projects!GoesTo(o, "open")
    BY <1>6 DEF Projects!Cloned
  <2>3. QED
    BY <2>1, <2>2
<1>10. ASSUME NEW o \in Opener, Projects!CloneFails(o) PROVE ProjectsInv'
  <2>1. opener[o].repo \in Repo /\ UNCHANGED legacy
    BY <1>10 DEF Projects!CloneFails
  <2>2. /\ dir' = [dir EXCEPT ![opener[o].repo] = [is |-> "empty", repo |-> None]]
        /\ Projects!GoesTo(o, "failed")
    <3>1. [Projects!Absent EXCEPT !.is = "empty"] = [is |-> "empty", repo |-> None]
      BY DEF Projects!Absent
    <3>2. QED
      BY <1>10, <3>1 DEF Projects!CloneFails
  <2>3. QED
    BY <2>1, <2>2
<1>7. ASSUME NEW o \in Opener, Projects!TimesOut(o) \/ Projects!Fetched(o) \/ Projects!Leaves(o)
      PROVE ProjectsInv'
  BY <1>7 DEF Projects!TimesOut, Projects!Fetched, Projects!Leaves, Projects!Rest
<1>8. CASE UNCHANGED Projects!vars
  BY <1>8 DEF Projects!vars
<1>9. QED
  BY <1>1, <1>2, <1>3, <1>4, <1>5, <1>6, <1>7, <1>8, <1>10 DEF Projects!Next

LEMMA ProjectsInvHolds == NoneIsNoRepo => (Projects!Spec => []ProjectsInv)
<1> SUFFICES ASSUME NoneIsNoRepo PROVE Projects!Spec => []ProjectsInv
  OBVIOUS
<1>1. Projects!Init => ProjectsInv
  BY DEF Projects!Init, ProjectsInv, DirectoryIsOwn, Projects!TypeOK, Projects!Absent, Projects!Rest
<1>2. ProjectsInv /\ [Projects!Next]_(Projects!vars) => ProjectsInv'
  BY DirectoryIsOwnStep
<1>3. QED
  BY <1>1, <1>2, PTL DEF Projects!Spec

\* However many openers clone, adopt and fetch at once, and however old names
\* clash: a repository is never opened in another one's clone.
THEOREM RepositoriesStayApart == NoneIsNoRepo => (Projects!Spec => []NeverAnotherRepository)
<1>1. ProjectsInv => NeverAnotherRepository
  BY DEF ProjectsInv, DirectoryIsOwn, Projects!TypeOK, NeverAnotherRepository,
         Projects!NeverAnotherRepository, Projects!At
<1>2. QED
  BY <1>1, ProjectsInvHolds, PTL

-----------------------------------------------------------------------------
(***************************************************************************)
(* McpClient.  An id is never used twice, so that the id of an answer      *)
(* names the request it answers, and the reader carries the two together.  *)
(* Nothing is sent once the server's output has ended, since it does not   *)
(* run again.                                                              *)
(***************************************************************************)
AnswersAreNumbered ==
  /\ lastId = requests
  /\ \A q \in asked \cup answered : q.id = q.nth
  /\ \A t \in Mcp!Threads : call[t].id = call[t].nth /\ (call[t].at # "rest" => call[t].nth # 0)
  /\ reader.at = "found" => reader.answer = reader.nth

EndedForGood ==
  /\ reader.at = "done" => ~Mcp!Running
  /\ manager = "new" => reader.at = "none"

McpInv == Mcp!TypeOK /\ AnswersAreNumbered /\ EndedForGood /\ RequestsAreAnswered

LEMMA McpInitial == ASSUME MaxRequests \in Nat, Mcp!Init PROVE McpInv
  BY DEF McpInv, AnswersAreNumbered, EndedForGood, RequestsAreAnswered, Mcp!TypeOK, Mcp!AnswersAreOwn,
         Mcp!NobodyWaitsForTheDead, Mcp!Init, Mcp!Reading, Mcp!Rest, Mcp!Threads, Mcp!Running, Mcp!Exited

\* What the requests and the pipes do to the invariant.
LEMMA McpRequestStep ==
  ASSUME MaxRequests \in Nat, McpInv, NEW t \in Mcp!Threads,
         \/ Mcp!Register(t) /\ manager # "new" /\ manager' \in {manager, "starting"}
         \/ Mcp!Send(t) \/ Mcp!Wakes(t) \/ Mcp!TimesOut(t) \/ Mcp!Pop(t)
  PROVE  McpInv'
<1> USE DEF McpInv, AnswersAreNumbered, EndedForGood, RequestsAreAnswered, Mcp!TypeOK, Mcp!AnswersAreOwn,
            Mcp!NobodyWaitsForTheDead, Mcp!Running, Mcp!Exited, Mcp!Request
<1>1. CASE Mcp!Register(t) /\ manager # "new" /\ manager' \in {manager, "starting"}
  BY <1>1 DEF Mcp!Register
<1>2. CASE Mcp!Send(t)
  <2>1. call[t].id \in 1..MaxRequests /\ call[t].id = call[t].nth
    BY <1>2 DEF Mcp!Send
  <2>2. CASE Mcp!Running
    BY <1>2, <2>1, <2>2 DEF Mcp!Send
  <2>3. CASE ~Mcp!Running
    BY <1>2, <2>3 DEF Mcp!Send
  <2>4. QED
    BY <2>2, <2>3
<1>3. CASE Mcp!Wakes(t) \/ Mcp!TimesOut(t)
  BY <1>3 DEF Mcp!Wakes, Mcp!TimesOut
<1>4. CASE Mcp!Pop(t)
  BY <1>4 DEF Mcp!Pop, Mcp!Rest
<1>5. QED
  BY <1>1, <1>2, <1>3, <1>4

\* What the server and its reader do to it.
LEMMA McpReaderStep ==
  ASSUME MaxRequests \in Nat, McpInv,
         \/ \E q \in asked : Mcp!Answer(q)
         \/ \E q \in answered : Mcp!ReadsLine(q)
         \/ Mcp!Stick \/ Mcp!Exit \/ Mcp!Reap \/ Mcp!Fills \/ Mcp!Sweeps
  PROVE  McpInv'
<1> USE DEF McpInv, AnswersAreNumbered, EndedForGood, RequestsAreAnswered, Mcp!TypeOK, Mcp!AnswersAreOwn,
            Mcp!NobodyWaitsForTheDead, Mcp!Running, Mcp!Exited, Mcp!Request
<1>1. ASSUME NEW q \in asked, Mcp!Answer(q) PROVE McpInv'
  BY <1>1 DEF Mcp!Answer
<1>2. ASSUME NEW q \in answered, Mcp!ReadsLine(q) PROVE McpInv'
  <2>1. CASE \E t \in Mcp!Pending : call[t].id = q.id
    <3> DEFINE t == CHOOSE p \in Mcp!Pending : call[p].id = q.id
    <3>1. t \in Mcp!Threads /\ call[t].nth = q.nth /\ q.nth \in 1..MaxRequests
      BY <2>1 DEF Mcp!Pending
    <3>2. reader' = [at |-> "found", thread |-> t, answer |-> q.nth, nth |-> call[t].nth]
      BY <1>2, <2>1 DEF Mcp!ReadsLine
    <3>3. answered' = answered \ {q} /\ UNCHANGED <<proc, manager, lastId, asked, call, requests>>
      BY <1>2 DEF Mcp!ReadsLine
    <3>4. QED
      BY <1>2, <3>1, <3>2, <3>3 DEF Mcp!ReadsLine
  <2>2. CASE ~\E t \in Mcp!Pending : call[t].id = q.id
    BY <1>2, <2>2 DEF Mcp!ReadsLine
  <2>3. QED
    BY <2>1, <2>2
<1>3. CASE Mcp!Stick \/ Mcp!Exit \/ Mcp!Reap
  BY <1>3 DEF Mcp!Stick, Mcp!Exit, Mcp!Reap, Mcp!Server
<1>4. CASE Mcp!Fills
  BY <1>4 DEF Mcp!Fills, Mcp!Reading, Mcp!Threads
<1>5. CASE Mcp!Sweeps
  BY <1>5 DEF Mcp!Sweeps, Mcp!Reading, Mcp!Threads, Mcp!Pending
<1>6. QED
  BY <1>1, <1>2, <1>3, <1>4, <1>5

\* What the manager does to it.
LEMMA McpManagerStep ==
  ASSUME MaxRequests \in Nat, McpInv, Mcp!Start \/ Mcp!Initialized \/ Mcp!Terminate \/ Mcp!Kill
  PROVE  McpInv'
<1> USE DEF McpInv, AnswersAreNumbered, EndedForGood, RequestsAreAnswered, Mcp!TypeOK, Mcp!AnswersAreOwn,
            Mcp!NobodyWaitsForTheDead, Mcp!Running, Mcp!Exited
<1>1. CASE Mcp!Start
  BY <1>1 DEF Mcp!Start, Mcp!Reading, Mcp!Threads
<1>2. CASE Mcp!Initialized \/ Mcp!Terminate \/ Mcp!Kill
  BY <1>2 DEF Mcp!Initialized, Mcp!Terminate, Mcp!Kill
<1>3. QED
  BY <1>1, <1>2

LEMMA McpInvHolds == MaxRequests \in Nat => (Mcp!Spec => []McpInv)
<1> SUFFICES ASSUME MaxRequests \in Nat PROVE Mcp!Spec => []McpInv
  OBVIOUS
<1>1. Mcp!Init => McpInv
  BY McpInitial
<1>2. McpInv /\ [Mcp!Next]_(Mcp!vars) => McpInv'
  <2> SUFFICES ASSUME McpInv, [Mcp!Next]_(Mcp!vars) PROVE McpInv'
    OBVIOUS
  <2>1. CASE UNCHANGED Mcp!vars
    BY <2>1 DEF Mcp!vars, McpInv, AnswersAreNumbered, EndedForGood, RequestsAreAnswered, Mcp!TypeOK,
                Mcp!AnswersAreOwn, Mcp!NobodyWaitsForTheDead, Mcp!Running
  <2>2. CASE Mcp!Initialize \/ Mcp!ListTools \/ \E t \in Caller : Mcp!Call(t)
    BY <2>2, McpRequestStep DEF Mcp!Initialize, Mcp!ListTools, Mcp!Call, Mcp!Threads
  <2>3. QED
    BY <2>1, <2>2, McpRequestStep, McpReaderStep, McpManagerStep DEF Mcp!Next
<1>3. QED
  BY <1>1, <1>2, PTL DEF Mcp!Spec

\* A call of a tool gets the answer to itself, however many threads call,
\* time out and are answered late; and none is left waiting for a server that
\* has gone, whenever it goes.
THEOREM CallsAreAnswered == MaxRequests \in Nat => (Mcp!Spec => []RequestsAreAnswered)
<1>1. McpInv => RequestsAreAnswered
  BY DEF McpInv
<1>2. QED
  BY <1>1, McpInvHolds, PTL

-----------------------------------------------------------------------------
(***************************************************************************)
(* GitHubSignIn.  A copy is made of the file, or changed by a store, which *)
(* sets the token and its refresh token together, or by a paste, after     *)
(* which the token never expires.                                          *)
(***************************************************************************)
SignInInv == SignIn!TypeOK /\ SignIn!RefreshIsItsOwn

LEMMA SignInKeepsInv ==
  ASSUME MaxGrants \in Nat, SignInInv, [SignIn!Next]_(SignIn!vars)
  PROVE  SignInInv'
<1> USE DEF SignInInv, SignIn!TypeOK, SignIn!RefreshIsItsOwn, SignIn!At, SignIn!Of, SignIn!Actor, SignIn!Holder,
            SignIn!Grant, SignIn!Pasted, SignIn!Rest, SignIn!github
<1>1. ASSUME NEW g \in SignIn!Grant, SignIn!Expire(g) \/ SignIn!Authorized(g) PROVE SignInInv'
  BY <1>1 DEF SignIn!Expire, SignIn!Authorized, SignIn!Grants
<1>2. ASSUME NEW g \in SignIn!Grant, NEW a \in SignIn!Actor,
             SignIn!RefreshGranted(a, g) \/ SignIn!PollGranted(a, g)
      PROVE  SignInInv'
  BY <1>2 DEF SignIn!RefreshGranted, SignIn!PollGranted, SignIn!Grants
<1>3. ASSUME NEW l \in Loader, SignIn!Load(l) \/ SignIn!Dies(l) PROVE SignInInv'
  BY <1>3 DEF SignIn!Load, SignIn!Dies
<1>4. ASSUME NEW a \in SignIn!Actor, SignIn!GetToken(a) \/ SignIn!Refused(a) PROVE SignInInv'
  BY <1>4 DEF SignIn!GetToken, SignIn!Refused
<1>5. ASSUME NEW a \in SignIn!Actor, SignIn!Save(a) PROVE SignInInv'
  <2>1. /\ github' \in {github, copies[SignIn!Of(a)]} /\ UNCHANGED <<copies, flow, page, granted, usable, expired>>
        /\ signin' = [signin EXCEPT ![a] = SignIn!Rest]
        /\ lost' \in {lost, lost \cup (granted \cap {copies[SignIn!Of(a)].token})}
    BY <1>5 DEF SignIn!Save
  <2>2. SignIn!Of(a) \in SignIn!Holder
    OBVIOUS
  <2>3. SignIn!TypeOK'
    BY <2>1, <2>2
  <2>4. SignIn!RefreshIsItsOwn'
    BY <2>1, <2>2
  <2>5. QED
    BY <2>3, <2>4
<1>6. ASSUME NEW a \in SignIn!Actor, NEW expires \in BOOLEAN, SignIn!Store(a, expires) PROVE SignInInv'
  BY <1>6 DEF SignIn!Store, SignIn!Stored
<1>7. ASSUME NEW t \in Signer, SignIn!Paste(t) \/ SignIn!SaveOther(t) PROVE SignInInv'
  BY <1>7 DEF SignIn!Paste, SignIn!SaveOther
<1>8. CASE SignIn!DeviceStart \/ SignIn!DeviceFails
  BY <1>8, ZenonT(40) DEF SignIn!DeviceStart, SignIn!DeviceFails
<1>9. ASSUME NEW expires \in BOOLEAN, SignIn!Connected(expires) PROVE SignInInv'
  BY <1>9 DEF SignIn!Connected, SignIn!Stored
<1>10. CASE UNCHANGED SignIn!vars
  BY <1>10 DEF SignIn!vars
<1>11. QED
  BY <1>1, <1>2, <1>3, <1>4, <1>5, <1>6, <1>7, <1>8, <1>9, <1>10 DEF SignIn!Next

-----------------------------------------------------------------------------
(***************************************************************************)
(* ConfigFile.  First what the operators on the providers do.              *)
(***************************************************************************)
LEMMA EntriesAreFunctions ==
  ASSUME NEW f PROVE f \in Config!Entries <=> /\ f \in [DOMAIN f -> Config!Entry]
                                              /\ DOMAIN f \subseteq Provider
  BY DEF Config!Entries

LEMMA PutIsEntries ==
  ASSUME NEW f \in Config!Entries, NEW p \in Provider, NEW e \in Config!Entry
  PROVE  /\ Config!Put(f, p, e) \in Config!Entries
         /\ DOMAIN Config!Put(f, p, e) = DOMAIN f \cup {p}
         /\ Config!Put(f, p, e)[p] = e /\ \A q \in DOMAIN f \ {p} : Config!Put(f, p, e)[q] = f[q]
<1>1. f \in [DOMAIN f -> Config!Entry] /\ DOMAIN f \subseteq Provider
  BY EntriesAreFunctions
<1>2. /\ DOMAIN Config!Put(f, p, e) = DOMAIN f \cup {p}
      /\ Config!Put(f, p, e)[p] = e /\ \A q \in DOMAIN f \ {p} : Config!Put(f, p, e)[q] = f[q]
  BY DEF Config!Put
<1>3. Config!Put(f, p, e) \in [DOMAIN f \cup {p} -> Config!Entry]
  BY <1>1 DEF Config!Put
<1>4. QED
  BY <1>1, <1>2, <1>3, EntriesAreFunctions

LEMMA WithoutIsEntries ==
  ASSUME NEW f \in Config!Entries, NEW p
  PROVE  /\ Config!Without(f, p) \in Config!Entries
         /\ DOMAIN Config!Without(f, p) = DOMAIN f \ {p}
         /\ \A q \in DOMAIN f \ {p} : Config!Without(f, p)[q] = f[q]
<1>1. f \in [DOMAIN f -> Config!Entry] /\ DOMAIN f \subseteq Provider
  BY EntriesAreFunctions
<1>2. /\ DOMAIN Config!Without(f, p) = DOMAIN f \ {p}
      /\ \A q \in DOMAIN f \ {p} : Config!Without(f, p)[q] = f[q]
  BY DEF Config!Without
<1>3. Config!Without(f, p) \in [DOMAIN f \ {p} -> Config!Entry]
  BY <1>1 DEF Config!Without
<1>4. QED
  BY <1>1, <1>2, <1>3, EntriesAreFunctions

LEMMA GotIsEntry ==
  ASSUME NEW f \in Config!Entries, NEW p PROVE Config!Got(f, p) \in Config!Entry
  BY EntriesAreFunctions DEF Config!Got, Config!Entry

\* What a load makes of the stored providers.
LEMMA MergedIsEntries ==
  ASSUME Builtin \subseteq Provider, NEW data \in Config!Data
  PROVE  /\ Config!Merged(data) \in Config!Entries
         /\ DOMAIN Config!Merged(data) = Builtin \cup DOMAIN data.providers
         /\ \A q \in Builtin \cup DOMAIN data.providers :
              Config!Merged(data)[q] = Config!BuiltIn(q) \cup Config!Got(data.providers, q)
<1>1. data.providers \in Config!Entries
  BY DEF Config!Data
<1>2. /\ DOMAIN Config!Merged(data) = Builtin \cup DOMAIN data.providers
      /\ \A q \in Builtin \cup DOMAIN data.providers :
              Config!Merged(data)[q] = Config!BuiltIn(q) \cup Config!Got(data.providers, q)
  BY DEF Config!Merged, Config!Got
<1>3. \A q : Config!BuiltIn(q) \in Config!Entry /\ Config!Got(data.providers, q) \in Config!Entry
  BY <1>1, GotIsEntry DEF Config!BuiltIn, Config!Entry
<1>4. \A q \in Builtin \cup DOMAIN data.providers : Config!Merged(data)[q] \in Config!Entry
  BY <1>2, <1>3 DEF Config!Entry
<1>5. Config!Merged(data) \in [Builtin \cup DOMAIN data.providers -> Config!Entry]
  <2>1. Config!Merged(data) = [q \in Builtin \cup DOMAIN data.providers |-> Config!Merged(data)[q]]
    BY <1>2 DEF Config!Merged
  <2>2. QED
    BY <1>4, <2>1
<1>6. DOMAIN data.providers \subseteq Provider
  BY <1>1, EntriesAreFunctions
<1>7. QED
  BY <1>2, <1>5, <1>6, EntriesAreFunctions

\* The commands of the CLI are processes, none is a thread of the daemon, and
\* what is built in is a provider.
ConfigConstants ==
  /\ Builtin \subseteq Provider /\ Thread \cap CLI = {} /\ MaxChanges \in Nat

HasDefault(data) == data.default # Nobody => data.default \in Builtin \cup DOMAIN data.providers

\* The view has the names of its data, also where a replaced entry makes it
\* differ; and a text that is about to be written is no worse than a copy.
ConfigInv ==
  /\ config \in Config!Data /\ HasDefault(config)
  /\ held \in [Config!Holder -> [data : Config!Data, providers : Config!Entries]]
  /\ \A h \in Config!Holder : /\ DOMAIN held[h].providers = Builtin \cup DOMAIN held[h].data.providers
                             /\ HasDefault(held[h].data)
  /\ change \in [Config!Actor -> [at : {"out", "loaded", "changed", "dumped"}, text : Config!Data]]
  /\ \A a \in Config!Actor : HasDefault(change[a].text)
  /\ changes \in 0..MaxChanges /\ replaced \subseteq Config!Holder
  /\ Config!ViewInStep

LEMMA ConfigInvSuffices ==
  ASSUME ConfigConstants, ConfigInv PROVE Config!TypeOK /\ Config!ViewInStep /\ Config!DefaultIsKnown
<1>1. \A data \in Config!Data : DOMAIN Config!Merged(data) = Builtin \cup DOMAIN data.providers
  BY MergedIsEntries DEF ConfigConstants
<1>2. Config!DefaultIsKnown
  <2>1. \A data \in Config!Texts : data \in Config!Data /\ HasDefault(data)
    BY DEF ConfigInv, Config!Texts
  <2>2. QED
    BY <1>1, <2>1 DEF Config!DefaultIsKnown, HasDefault
<1>3. QED
  BY <1>2 DEF ConfigInv, Config!TypeOK

LEMMA LoadedFits ==
  ASSUME ConfigConstants, NEW data \in Config!Data
  PROVE  /\ Config!Loaded(data) \in [data : Config!Data, providers : Config!Entries]
         /\ Config!Loaded(data).data = data /\ Config!Loaded(data).providers = Config!Merged(data)
         /\ DOMAIN Config!Merged(data) = Builtin \cup DOMAIN data.providers
  BY MergedIsEntries DEF Config!Loaded, ConfigConstants

LEMMA EmptyFits == Config!Empty \in Config!Data /\ HasDefault(Config!Empty)
<1>1. [q \in {} |-> {}] \in Config!Entries
  <2>1. DOMAIN [q \in {} |-> {}] = {} /\ [q \in {} |-> {}] \in [{} -> Config!Entry]
    OBVIOUS
  <2>2. QED
    BY <2>1, EntriesAreFunctions
<1>2. QED
  BY <1>1 DEF Config!Empty, Config!Data, HasDefault

LEMMA ConfigInitial == ASSUME ConfigConstants, Config!Init PROVE ConfigInv
<1>1. /\ config = Config!Empty /\ held = [h \in Config!Holder |-> Config!Loaded(Config!Empty)]
      /\ changes = 0 /\ replaced = {}
      /\ change = [a \in Config!Actor |-> [at |-> IF a \in Thread THEN "loaded" ELSE "out", text |-> Config!Empty]]
  BY DEF Config!Init
<1>2. /\ Config!Loaded(Config!Empty) \in [data : Config!Data, providers : Config!Entries]
      /\ Config!Loaded(Config!Empty).data = Config!Empty
      /\ Config!Loaded(Config!Empty).providers = Config!Merged(Config!Empty)
      /\ DOMAIN Config!Merged(Config!Empty) = Builtin \cup DOMAIN Config!Empty.providers
  BY EmptyFits, LoadedFits
<1>3. held \in [Config!Holder -> [data : Config!Data, providers : Config!Entries]]
  BY <1>1, <1>2
<1>4. \A h \in Config!Holder : /\ held[h].data = Config!Empty
                              /\ held[h].providers = Config!Merged(Config!Empty)
  BY <1>1, <1>2
<1>5. \A h \in Config!Holder : /\ DOMAIN held[h].providers = Builtin \cup DOMAIN held[h].data.providers
                              /\ HasDefault(held[h].data)
  BY <1>2, <1>4, EmptyFits
<1>6. /\ change \in [Config!Actor -> [at : {"out", "loaded", "changed", "dumped"}, text : Config!Data]]
      /\ \A a \in Config!Actor : change[a].text = Config!Empty
  BY <1>1, EmptyFits
<1>7. Config!ViewInStep
  BY <1>4 DEF Config!ViewInStep
<1>8. QED
  BY <1>1, <1>3, <1>5, <1>6, <1>7, EmptyFits DEF ConfigInv, ConfigConstants

\* A change keeps the invariant if its data and its view go together.
LEMMA ChangesKeepInv ==
  ASSUME ConfigConstants, ConfigInv, NEW a \in Config!Actor,
         NEW data \in Config!Data, NEW providers \in Config!Entries,
         Config!Changes(a, data, providers), UNCHANGED config,
         DOMAIN providers = Builtin \cup DOMAIN data.providers, HasDefault(data),
         replaced \subseteq replaced', replaced' \subseteq Config!Holder,
         Config!HolderOf(a) \notin replaced' => providers = Config!Merged(data)
  PROVE  ConfigInv'
<1>1. /\ changes < MaxChanges /\ changes' = changes + 1
      /\ held' = [held EXCEPT ![Config!HolderOf(a)] = [data |-> data, providers |-> providers]]
      /\ change' = [change EXCEPT ![a].at = "changed"]
  BY DEF Config!Changes
<1>2. Config!HolderOf(a) \in Config!Holder
  BY DEF Config!HolderOf, Config!Holder, Config!Actor
<1>3. held' \in [Config!Holder -> [data : Config!Data, providers : Config!Entries]]
  BY <1>1, <1>2 DEF ConfigInv
<1>4. \A h \in Config!Holder : held'[h] = IF h = Config!HolderOf(a) THEN [data |-> data, providers |-> providers]
                                                               ELSE held[h]
  BY <1>1, <1>2 DEF ConfigInv
<1>5. \A h \in Config!Holder : /\ DOMAIN held'[h].providers = Builtin \cup DOMAIN held'[h].data.providers
                              /\ HasDefault(held'[h].data)
  BY <1>4 DEF ConfigInv
<1>6. change' \in [Config!Actor -> [at : {"out", "loaded", "changed", "dumped"}, text : Config!Data]]
  BY <1>1 DEF ConfigInv
<1>7. \A b \in Config!Actor : HasDefault(change'[b].text)
  BY <1>1 DEF ConfigInv
<1>8. changes' \in 0..MaxChanges
  BY <1>1 DEF ConfigInv, ConfigConstants
<1>9. Config!ViewInStep'
  BY <1>4 DEF ConfigInv, Config!ViewInStep
<1>10. QED
  BY <1>3, <1>5, <1>6, <1>7, <1>8, <1>9 DEF ConfigInv, HasDefault

\* A view with the names of its data, whose default is known.
Fits(data, view) ==
  /\ data \in Config!Data /\ view \in Config!Entries
  /\ DOMAIN view = Builtin \cup DOMAIN data.providers /\ HasDefault(data)

WithEntry(data, p, e, d) == [providers |-> Config!Put(data.providers, p, e), default |-> d]

\* An entry is stored, in the data and in the view of it.
LEMMA EntryStored ==
  ASSUME ConfigConstants, NEW data, NEW view, Fits(data, view), NEW p \in Provider,
         NEW e \in Config!Entry, NEW x \in Config!Entry, NEW d \in {data.default, p}
  PROVE  /\ Fits(WithEntry(data, p, e, d), Config!Put(view, p, x))
         /\ view = Config!Merged(data) /\ x = Config!BuiltIn(p) \cup e
              => Config!Put(view, p, x) = Config!Merged(WithEntry(data, p, e, d))
<1>0. PICK stored \in Config!Entries : stored = data.providers
  BY DEF Fits, Config!Data
<1>a. PICK newData : newData = [providers |-> Config!Put(stored, p, e), default |-> d]
  OBVIOUS
<1>b. PICK newView : newView = Config!Put(view, p, x)
  OBVIOUS
<1>1. data.providers \in Config!Entries /\ data.default \in Provider \cup {Nobody}
  BY DEF Fits, Config!Data
<1>2. /\ newData.providers \in Config!Entries /\ DOMAIN newData.providers = DOMAIN data.providers \cup {p}
      /\ newData.providers[p] = e /\ \A q \in DOMAIN data.providers \ {p} : newData.providers[q] = data.providers[q]
  <2>1. newData.providers = Config!Put(stored, p, e)
    BY <1>a
  <2>3. /\ Config!Put(stored, p, e) \in Config!Entries /\ DOMAIN Config!Put(stored, p, e) = DOMAIN stored \cup {p}
        /\ Config!Put(stored, p, e)[p] = e
        /\ \A q \in DOMAIN stored \ {p} : Config!Put(stored, p, e)[q] = stored[q]
    BY PutIsEntries
  <2>4. QED
    BY <1>0, <2>1, <2>3
<1>3. /\ newView \in Config!Entries /\ DOMAIN newView = DOMAIN view \cup {p}
      /\ newView[p] = x /\ \A q \in DOMAIN view \ {p} : newView[q] = view[q]
  <2>1. PICK v \in Config!Entries : v = view
    BY DEF Fits
  <2>2. /\ Config!Put(v, p, x) \in Config!Entries /\ DOMAIN Config!Put(v, p, x) = DOMAIN v \cup {p}
        /\ Config!Put(v, p, x)[p] = x /\ \A q \in DOMAIN v \ {p} : Config!Put(v, p, x)[q] = v[q]
    BY PutIsEntries, ZenonT(40)
  <2>3. QED
    BY <1>b, <2>1, <2>2
<1>4. newData \in Config!Data
  BY <1>1, <1>2, <1>a DEF Config!Data
<1>5. DOMAIN newView = Builtin \cup DOMAIN newData.providers
  BY <1>2, <1>3 DEF Fits
<1>6. HasDefault(newData)
  BY <1>2, <1>a DEF Fits, HasDefault
<1>7. ASSUME view = Config!Merged(data), x = Config!BuiltIn(p) \cup e PROVE newView = Config!Merged(newData)
  <2>1. \A q \in DOMAIN view : view[q] = Config!BuiltIn(q) \cup Config!Got(data.providers, q)
    BY <1>7, MergedIsEntries DEF Fits, ConfigConstants
  <2>2. /\ Config!Merged(newData) \in Config!Entries /\ DOMAIN Config!Merged(newData) = DOMAIN newView
        /\ \A q \in DOMAIN newView :
             Config!Merged(newData)[q] = Config!BuiltIn(q) \cup Config!Got(newData.providers, q)
    BY <1>4, <1>5, MergedIsEntries DEF ConfigConstants
  <2>3. \A q : Config!Got(newData.providers, q) = IF q = p THEN e ELSE Config!Got(data.providers, q)
    BY <1>2 DEF Config!Got
  <2>4. ASSUME NEW q \in DOMAIN newView PROVE newView[q] = Config!Merged(newData)[q]
    <3>1. Config!Merged(newData)[q] = Config!BuiltIn(q) \cup Config!Got(newData.providers, q)
      BY <2>2
    <3>2. CASE q = p
      <4>1. newView[q] = Config!BuiltIn(q) \cup e
        BY <1>3, <1>7, <3>2
      <4>2. Config!Got(newData.providers, q) = e
        BY <2>3, <3>2
      <4>3. QED
        BY <3>1, <4>1, <4>2
    <3>3. CASE q # p
      <4>1. newView[q] = view[q] /\ q \in DOMAIN view
        BY <1>3, <3>3
      <4>2. view[q] = Config!BuiltIn(q) \cup Config!Got(data.providers, q)
        BY <2>1, <4>1
      <4>3. Config!Got(newData.providers, q) = Config!Got(data.providers, q)
        BY <2>3, <3>3
      <4>4. QED
        BY <3>1, <4>1, <4>2, <4>3
    <3>4. QED
      BY <3>2, <3>3
  <2>5. /\ newView = [q \in DOMAIN newView |-> newView[q]]
        /\ Config!Merged(newData) = [q \in DOMAIN newView |-> Config!Merged(newData)[q]]
    BY <1>3, <2>2, EntriesAreFunctions
  <2>6. QED
    BY <2>4, <2>5
<1>8. newData = WithEntry(data, p, e, d)
  BY <1>0, <1>a DEF WithEntry
<1>9. QED
  BY <1>b, <1>3, <1>4, <1>5, <1>6, <1>7, <1>8 DEF Fits

\* An entry is taken out, where the view keeps what is built in.
WithoutEntry(view, p) ==
  IF p \in Builtin THEN Config!Put(view, p, Config!BuiltIn(p)) ELSE Config!Without(view, p)

LEMMA EntryRemoved ==
  ASSUME ConfigConstants, NEW data, NEW view, Fits(data, view), NEW p \in Provider
  PROVE  /\ Fits(Config!Unlinked(data, p), WithoutEntry(view, p))
         /\ view = Config!Merged(data) => WithoutEntry(view, p) = Config!Merged(Config!Unlinked(data, p))
<1>a. PICK newData : newData = Config!Unlinked(data, p)
  OBVIOUS
<1>b. PICK newView : newView = WithoutEntry(view, p)
  OBVIOUS
<1>1. /\ data.providers \in Config!Entries /\ data.default \in Provider \cup {Nobody}
      /\ data = [providers |-> data.providers, default |-> data.default]
  BY DEF Fits, Config!Data
<1>2. newData = [providers |-> Config!Without(data.providers, p),
                 default |-> IF data.default = p THEN Nobody ELSE data.default]
  BY <1>1, <1>a DEF Config!Unlinked
<1>3. /\ newData.providers \in Config!Entries /\ DOMAIN newData.providers = DOMAIN data.providers \ {p}
      /\ \A q \in DOMAIN data.providers \ {p} : newData.providers[q] = data.providers[q]
  <2>1. newData.providers = Config!Without(data.providers, p)
    BY <1>2
  <2>2. PICK stored \in Config!Entries : stored = data.providers
    BY <1>1
  <2>3. /\ Config!Without(stored, p) \in Config!Entries /\ DOMAIN Config!Without(stored, p) = DOMAIN stored \ {p}
        /\ \A q \in DOMAIN stored \ {p} : Config!Without(stored, p)[q] = stored[q]
    BY WithoutIsEntries
  <2>4. QED
    BY <2>1, <2>2, <2>3
<1>4. newData \in Config!Data
  BY <1>1, <1>2, <1>3 DEF Config!Data
<1>5. /\ newView \in Config!Entries
      /\ DOMAIN newView = IF p \in Builtin THEN DOMAIN view ELSE DOMAIN view \ {p}
      /\ \A q \in DOMAIN newView : newView[q] = IF q = p THEN Config!BuiltIn(p) ELSE view[q]
  <2>1. CASE p \in Builtin
    <3>1. Config!BuiltIn(p) \in Config!Entry
      BY DEF Config!BuiltIn, Config!Entry
    <3>2. PICK v \in Config!Entries, e \in Config!Entry :
             v = view /\ e = Config!BuiltIn(p) /\ newView = Config!Put(v, p, e)
      BY <1>b, <2>1, <3>1 DEF Fits, WithoutEntry
    <3>a. /\ Config!Put(v, p, e) \in Config!Entries /\ DOMAIN Config!Put(v, p, e) = DOMAIN v \cup {p}
          /\ Config!Put(v, p, e)[p] = e /\ \A q \in DOMAIN v \ {p} : Config!Put(v, p, e)[q] = v[q]
      BY PutIsEntries, SMTT(30)
    <3>3. /\ newView \in Config!Entries /\ DOMAIN newView = DOMAIN view \cup {p}
          /\ newView[p] = Config!BuiltIn(p) /\ \A q \in DOMAIN view \ {p} : newView[q] = view[q]
      BY <3>2, <3>a
    <3>4. p \in DOMAIN view
      BY <2>1 DEF Fits
    <3>5. QED
      BY <2>1, <3>3, <3>4
  <2>2. CASE p \notin Builtin
    BY <1>b, <2>2, WithoutIsEntries, ZenonT(40) DEF Fits, WithoutEntry
  <2>3. QED
    BY <2>1, <2>2
<1>6. DOMAIN newView = Builtin \cup DOMAIN newData.providers
  BY <1>3, <1>5 DEF Fits
<1>7. HasDefault(newData)
  BY <1>2, <1>3 DEF Fits, HasDefault
<1>8. ASSUME view = Config!Merged(data) PROVE newView = Config!Merged(newData)
  <2>1. \A q \in DOMAIN view : view[q] = Config!BuiltIn(q) \cup Config!Got(data.providers, q)
    BY <1>8, MergedIsEntries DEF Fits, ConfigConstants
  <2>2. /\ Config!Merged(newData) \in Config!Entries /\ DOMAIN Config!Merged(newData) = DOMAIN newView
        /\ \A q \in DOMAIN newView :
             Config!Merged(newData)[q] = Config!BuiltIn(q) \cup Config!Got(newData.providers, q)
    BY <1>4, <1>6, MergedIsEntries DEF ConfigConstants
  <2>3. \A q : Config!Got(newData.providers, q) = IF q = p THEN {} ELSE Config!Got(data.providers, q)
    BY <1>3 DEF Config!Got
  <2>4. ASSUME NEW q \in DOMAIN newView PROVE newView[q] = Config!Merged(newData)[q]
    <3>1. Config!Merged(newData)[q] = Config!BuiltIn(q) \cup Config!Got(newData.providers, q)
      BY <2>2
    <3>2. CASE q = p
      <4>1. newView[q] = Config!BuiltIn(q)
        BY <1>5, <3>2
      <4>2. Config!Got(newData.providers, q) = {}
        BY <2>3, <3>2
      <4>3. QED
        BY <3>1, <4>1, <4>2
    <3>3. CASE q # p
      <4>1. newView[q] = view[q] /\ q \in DOMAIN view
        BY <1>5, <3>3
      <4>2. view[q] = Config!BuiltIn(q) \cup Config!Got(data.providers, q)
        BY <2>1, <4>1
      <4>3. Config!Got(newData.providers, q) = Config!Got(data.providers, q)
        BY <2>3, <3>3
      <4>4. QED
        BY <3>1, <4>1, <4>2, <4>3
    <3>4. QED
      BY <3>2, <3>3
  <2>5. /\ newView = [q \in DOMAIN newView |-> newView[q]]
        /\ Config!Merged(newData) = [q \in DOMAIN newView |-> Config!Merged(newData)[q]]
    BY <1>5, <2>2, EntriesAreFunctions
  <2>6. QED
    BY <2>4, <2>5
<1>9. QED
  BY <1>a, <1>b, <1>4, <1>5, <1>6, <1>7, <1>8 DEF Fits

\* What an actor finds in the copy it works on.
LEMMA CopyFits ==
  ASSUME ConfigInv, NEW a \in Config!Actor
  PROVE  /\ Fits(Config!DataOf(a), Config!ViewOf(a)) /\ Config!HolderOf(a) \in Config!Holder
         /\ Config!HolderOf(a) \notin replaced => Config!ViewOf(a) = Config!Merged(Config!DataOf(a))
  BY DEF ConfigInv, Fits, Config!ViewInStep, Config!HolderOf, Config!Holder, Config!Actor, Config!DataOf,
         Config!ViewOf

LEMMA SetKeyKeepsInv ==
  ASSUME ConfigConstants, ConfigInv, NEW a \in Config!Actor, NEW p \in Provider, Config!SetKey(a, p)
  PROVE  ConfigInv'
<1>1. PICK data, view : data = Config!DataOf(a) /\ view = Config!ViewOf(a)
  OBVIOUS
<1>2. Fits(data, view)
  BY <1>1, CopyFits
<1>3. PICK e, x : e = Config!Got(data.providers, p) \cup {"key"} /\ x = view[p] \cup {"key"}
  OBVIOUS
<1>4. /\ p \in DOMAIN view /\ UNCHANGED <<config, replaced>>
      /\ Config!Changes(a, [data EXCEPT !.providers = Config!Put(data.providers, p, e)], Config!Put(view, p, x))
  BY <1>1, <1>3 DEF Config!SetKey, Config!Known, Config!ViewOf
<1>5. [data EXCEPT !.providers = Config!Put(data.providers, p, e)] = WithEntry(data, p, e, data.default)
  BY <1>2 DEF Fits, Config!Data, WithEntry
<1>6. e \in Config!Entry /\ x \in Config!Entry
  <2>1. view[p] \in Config!Entry
    BY <1>2, <1>4, EntriesAreFunctions DEF Fits
  <2>2. Config!Got(data.providers, p) \in Config!Entry
    BY <1>2, GotIsEntry DEF Fits, Config!Data
  <2>3. QED
    BY <2>1, <2>2, <1>3 DEF Config!Entry
<1>7. view = Config!Merged(data) => x = Config!BuiltIn(p) \cup e
  <2> HAVE view = Config!Merged(data)
  <2>1. view[p] = Config!BuiltIn(p) \cup Config!Got(data.providers, p)
    BY <1>2, <1>4, MergedIsEntries DEF Fits, ConfigConstants
  <2>2. QED
    BY <2>1, <1>3
<1>8. /\ Fits(WithEntry(data, p, e, data.default), Config!Put(view, p, x))
      /\ view = Config!Merged(data) => Config!Put(view, p, x) = Config!Merged(WithEntry(data, p, e, data.default))
  BY <1>2, <1>6, <1>7, EntryStored
<1>9. QED
  BY <1>1, <1>4, <1>5, <1>8, CopyFits, ChangesKeepInv DEF ConfigInv, Fits

LEMMA ClearKeyKeepsInv ==
  ASSUME ConfigConstants, ConfigInv, NEW a \in Config!Actor, NEW p \in Provider, Config!ClearKey(a, p)
  PROVE  ConfigInv'
<1>1. PICK data, view : data = Config!DataOf(a) /\ view = Config!ViewOf(a)
  OBVIOUS
<1>2. Fits(data, view)
  BY <1>1, CopyFits
<1>3. /\ p \in DOMAIN view /\ UNCHANGED <<config, replaced>>
      /\ Config!Changes(a, IF p \in DOMAIN data.providers THEN [data EXCEPT !.providers[p] = @ \ {"key"}] ELSE data,
                           [view EXCEPT ![p] = @ \ {"key"}])
  BY <1>1 DEF Config!ClearKey, Config!Known, Config!ViewOf
<1>4. view[p] \ {"key"} \in Config!Entry /\ view \in [DOMAIN view -> Config!Entry]
  BY <1>2, <1>3, EntriesAreFunctions DEF Fits, Config!Entry
<1>5. PICK x \in Config!Entry : x = view[p] \ {"key"}
  BY <1>4
<1>6. [view EXCEPT ![p] = @ \ {"key"}] = Config!Put(view, p, x)
  BY <1>3, <1>4, <1>5 DEF Config!Put
<1>7. CASE p \in DOMAIN data.providers
  <2>1. PICK stored \in Config!Entries : stored = data.providers
    BY <1>2 DEF Fits, Config!Data
  <2>2. stored[p] \ {"key"} \in Config!Entry /\ stored \in [DOMAIN stored -> Config!Entry]
    BY <1>7, <2>1, EntriesAreFunctions DEF Config!Entry
  <2>3. PICK e \in Config!Entry : e = stored[p] \ {"key"}
    BY <2>2
  <2>4. [data EXCEPT !.providers[p] = @ \ {"key"}] = WithEntry(data, p, e, data.default)
    <3>1. [stored EXCEPT ![p] = @ \ {"key"}] = Config!Put(stored, p, e)
      BY <1>7, <2>1, <2>2, <2>3 DEF Config!Put
    <3>2. data = [providers |-> stored, default |-> data.default]
      BY <1>2, <2>1 DEF Fits, Config!Data
    <3>3. [data EXCEPT !.providers[p] = @ \ {"key"}]
            = [providers |-> [stored EXCEPT ![p] = @ \ {"key"}], default |-> data.default]
      BY <2>1, <3>2
    <3>4. QED
      BY <2>1, <3>1, <3>3 DEF WithEntry
  <2>5. view = Config!Merged(data) => x = Config!BuiltIn(p) \cup e
    <3> HAVE view = Config!Merged(data)
    <3>1. view[p] = Config!BuiltIn(p) \cup Config!Got(data.providers, p)
      BY <1>2, <1>3, MergedIsEntries DEF Fits, ConfigConstants
    <3>2. Config!Got(data.providers, p) = stored[p]
      BY <1>7, <2>1 DEF Config!Got
    <3>3. "key" \notin Config!BuiltIn(p)
      BY DEF Config!BuiltIn
    <3>4. QED
      BY <1>5, <2>3, <3>1, <3>2, <3>3
  <2>6. /\ Fits(WithEntry(data, p, e, data.default), Config!Put(view, p, x))
        /\ view = Config!Merged(data) => Config!Put(view, p, x) = Config!Merged(WithEntry(data, p, e, data.default))
    BY <1>2, <2>5, EntryStored
  <2>7. Config!Changes(a, WithEntry(data, p, e, data.default), Config!Put(view, p, x))
    BY <1>3, <1>6, <1>7, <2>4
  <2>8. QED
    BY <1>1, <1>3, <2>6, <2>7, CopyFits, ChangesKeepInv DEF ConfigInv, Fits
<1>8. CASE p \notin DOMAIN data.providers
  <2>1. Config!Changes(a, data, Config!Put(view, p, x))
    BY <1>3, <1>6, <1>8
  <2>2. Config!Put(view, p, x) \in Config!Entries /\ DOMAIN Config!Put(view, p, x) = DOMAIN view
    <3>1. PICK v \in Config!Entries : v = view
      BY <1>2 DEF Fits
    <3>2. Config!Put(v, p, x) \in Config!Entries /\ DOMAIN Config!Put(v, p, x) = DOMAIN v \cup {p}
      BY PutIsEntries
    <3>3. QED
      BY <1>3, <3>1, <3>2
  <2>3. view = Config!Merged(data) => Config!Put(view, p, x) = Config!Merged(data)
    <3> HAVE view = Config!Merged(data)
    <3>1. view[p] = Config!BuiltIn(p) \cup Config!Got(data.providers, p)
      BY <1>2, <1>3, MergedIsEntries DEF Fits, ConfigConstants
    <3>2. x = view[p]
      BY <1>5, <1>8, <3>1 DEF Config!Got, Config!BuiltIn
    <3>3. Config!Put(view, p, x) = view
      BY <1>3, <1>4, <3>2 DEF Config!Put
    <3>4. QED
      BY <3>3
  <2>4. QED
    BY <1>1, <1>2, <1>3, <2>1, <2>2, <2>3, CopyFits, ChangesKeepInv DEF ConfigInv, Fits
<1>9. QED
  BY <1>7, <1>8

\* An entry that is replaced takes what it had from the data, not the view:
\* the holder is set apart.  A new one is in both.
LEMMA ProviderKeepsInv ==
  ASSUME ConfigConstants, ConfigInv, NEW a \in Config!Actor, NEW p \in Provider, NEW entry \in Config!Entry,
         NEW d \in {Config!DataOf(a).default, p},
         Config!Changes(a, WithEntry(Config!DataOf(a), p, entry, d),
                        Config!Put(Config!ViewOf(a), p, Config!Got(Config!ViewOf(a), p) \cup entry)),
         replaced' = IF p \in DOMAIN Config!DataOf(a).providers THEN replaced \cup {Config!HolderOf(a)} ELSE replaced,
         UNCHANGED config
  PROVE  ConfigInv'
<1>1. PICK data, view : data = Config!DataOf(a) /\ view = Config!ViewOf(a)
  OBVIOUS
<1>2. Fits(data, view)
  BY <1>1, CopyFits
<1>3. Config!Got(view, p) \cup entry \in Config!Entry
  BY <1>2, GotIsEntry DEF Fits, Config!Entry
<1>4. PICK x \in Config!Entry : x = Config!Got(view, p) \cup entry
  BY <1>3
<1>5. /\ Fits(WithEntry(data, p, entry, d), Config!Put(view, p, x))
      /\ view = Config!Merged(data) /\ x = Config!BuiltIn(p) \cup entry
           => Config!Put(view, p, x) = Config!Merged(WithEntry(data, p, entry, d))
  BY <1>1, <1>2, EntryStored
<1>6. ASSUME view = Config!Merged(data), p \notin DOMAIN data.providers PROVE x = Config!BuiltIn(p) \cup entry
  <2>1. CASE p \in DOMAIN view
    <3>1. view[p] = Config!BuiltIn(p) \cup Config!Got(data.providers, p)
      BY <1>2, <1>6, <2>1, MergedIsEntries DEF Fits, ConfigConstants
    <3>2. view[p] = Config!BuiltIn(p)
      BY <1>6, <3>1 DEF Config!Got
    <3>3. QED
      BY <1>4, <2>1, <3>2 DEF Config!Got
  <2>2. CASE p \notin DOMAIN view
    BY <1>2, <1>4, <2>2 DEF Config!Got, Config!BuiltIn, Fits
  <2>3. QED
    BY <2>1, <2>2
<1>7. replaced' \subseteq Config!Holder /\ replaced \subseteq replaced'
  BY CopyFits DEF ConfigInv
<1>8. Config!HolderOf(a) \notin replaced' => Config!Put(view, p, x) = Config!Merged(WithEntry(data, p, entry, d))
  BY <1>1, <1>5, <1>6, <1>7, CopyFits
<1>9. QED
  BY <1>1, <1>4, <1>5, <1>7, <1>8, ChangesKeepInv DEF Fits

LEMMA UnlinkKeepsInv ==
  ASSUME ConfigConstants, ConfigInv, NEW c \in CLI, NEW p \in Provider, Config!Unlink(c, p)
  PROVE  ConfigInv'
<1>1. c \in Config!Actor
  BY DEF Config!Actor
<1>2. /\ Config!Changes(c, Config!Unlinked(Config!DataOf(c), p), WithoutEntry(Config!ViewOf(c), p))
      /\ UNCHANGED <<config, replaced>>
  BY DEF Config!Unlink, WithoutEntry
<1>3. /\ Fits(Config!Unlinked(Config!DataOf(c), p), WithoutEntry(Config!ViewOf(c), p))
      /\ Config!HolderOf(c) \notin replaced
           => WithoutEntry(Config!ViewOf(c), p) = Config!Merged(Config!Unlinked(Config!DataOf(c), p))
  BY <1>1, CopyFits, EntryRemoved
<1>4. QED
  BY <1>1, <1>2, <1>3, ChangesKeepInv DEF ConfigInv, Fits

LEMMA DefaultKeepsInv ==
  ASSUME ConfigConstants, ConfigInv, NEW c \in CLI, NEW p \in Provider, Config!SetDefault(c, p)
  PROVE  ConfigInv'
<1>1. c \in Config!Actor
  BY DEF Config!Actor
<1>2. PICK data, view : data = Config!DataOf(c) /\ view = Config!ViewOf(c)
  OBVIOUS
<1>3. /\ Fits(data, view)
      /\ Config!HolderOf(c) \notin replaced => view = Config!Merged(data)
  BY <1>1, <1>2, CopyFits
<1>4. PICK newData : newData = [data EXCEPT !.default = p]
  OBVIOUS
<1>5. Config!Changes(c, newData, view) /\ p \in DOMAIN view /\ UNCHANGED <<config, replaced>>
  BY <1>2, <1>4 DEF Config!SetDefault, Config!Resolves, Config!Known, Config!ViewOf
<1>6. /\ newData \in Config!Data /\ newData.providers = data.providers /\ newData.default = p
  BY <1>3, <1>4 DEF Fits, Config!Data
<1>7. Config!Merged(newData) = Config!Merged(data)
  BY <1>6 DEF Config!Merged
<1>8. HasDefault(newData) /\ DOMAIN view = Builtin \cup DOMAIN newData.providers
  BY <1>3, <1>5, <1>6 DEF Fits, HasDefault
<1>9. QED
  BY <1>1, <1>3, <1>5, <1>6, <1>7, <1>8, ChangesKeepInv DEF ConfigInv, Fits

LEMMA OtherKeepsInv ==
  ASSUME ConfigConstants, ConfigInv, NEW a \in Config!Actor, Config!SetOther(a) PROVE ConfigInv'
  BY CopyFits, ChangesKeepInv DEF Config!SetOther, ConfigInv, Fits

LEMMA FilesKeepInv ==
  ASSUME ConfigConstants, ConfigInv,
         \/ \E c \in CLI : Config!Load(c) \/ Config!Save(c)
         \/ \E t \in Thread : Config!Dump(t) \/ Config!Swap(t)
  PROVE  ConfigInv'
<1> DEFINE Copy == [data : Config!Data, providers : Config!Entries]
           Job  == [at : {"out", "loaded", "changed", "dumped"}, text : Config!Data]
           Agree(h) == /\ DOMAIN held'[h].providers = Builtin \cup DOMAIN held'[h].data.providers
                       /\ HasDefault(held'[h].data)
                       /\ h \notin replaced' => held'[h].providers = Config!Merged(held'[h].data)
<1>1. ASSUME NEW c \in CLI, NEW data \in Config!Data, HasDefault(data), config' \in Config!Data, HasDefault(config)',
             held' = [held EXCEPT ![c] = Config!Loaded(data)], replaced \ {c} \subseteq replaced', replaced' \subseteq replaced,
             NEW at \in {"out", "loaded"}, change' = [change EXCEPT ![c].at = at], UNCHANGED changes
      PROVE  ConfigInv'
  <2>1. held' \in [Config!Holder -> Copy]
    BY <1>1, LoadedFits DEF ConfigInv
  <2>2. ASSUME NEW h \in Config!Holder PROVE Agree(h)
    <3>1. CASE h = c
      BY <1>1, <3>1, LoadedFits DEF ConfigInv
    <3>2. CASE h # c
      BY <1>1, <3>2 DEF ConfigInv, Config!ViewInStep
    <3>3. QED
      BY <3>1, <3>2
  <2>3. change' \in [Config!Actor -> Job] /\ \A b \in Config!Actor : HasDefault(change'[b].text)
    BY <1>1 DEF ConfigInv
  <2>4. Config!ViewInStep'
    BY <2>2 DEF Config!ViewInStep
  <2>5. QED
    BY <1>1, <2>1, <2>2, <2>3, <2>4 DEF ConfigInv, HasDefault
<1>2. ASSUME NEW t \in Thread, UNCHANGED <<held, changes, replaced>>, config' \in Config!Data, HasDefault(config)',
             NEW at \in {"dumped", "loaded"}, NEW text \in Config!Data, HasDefault(text),
             change' = [change EXCEPT ![t] = [at |-> at, text |-> text]]
      PROVE  ConfigInv'
  <2>1. change' \in [Config!Actor -> Job] /\ \A b \in Config!Actor : HasDefault(change'[b].text)
    BY <1>2 DEF ConfigInv
  <2>2. QED
    BY <1>2, <2>1 DEF ConfigInv, HasDefault, Config!ViewInStep
<1>3. ASSUME NEW c \in CLI, Config!Load(c) PROVE ConfigInv'
  BY <1>1, <1>3 DEF Config!Load, ConfigInv, HasDefault
<1>4. ASSUME NEW c \in CLI, Config!Save(c) PROVE ConfigInv'
  <2>1. held[c].data \in Config!Data /\ HasDefault(held[c].data)
    BY DEF ConfigInv, Config!Holder
  <2>2. config' \in Config!Data /\ HasDefault(config)'
    BY <1>4, <2>1 DEF Config!Save, ConfigInv, HasDefault
  <2>3. QED
    BY <1>1, <1>4, <2>2, EmptyFits DEF Config!Save
<1>5. ASSUME NEW t \in Thread, Config!Dump(t) PROVE ConfigInv'
  <2>1. held[Daemon].data \in Config!Data /\ HasDefault(held[Daemon].data)
    BY DEF ConfigInv, Config!Holder
  <2>2. QED
    BY <1>2, <1>5, <2>1 DEF Config!Dump, ConfigInv, HasDefault
<1>6. ASSUME NEW t \in Thread, Config!Swap(t) PROVE ConfigInv'
  <2>1. change[t].text \in Config!Data /\ HasDefault(change[t].text)
    BY DEF ConfigInv, Config!Actor
  <2>2. config' \in Config!Data /\ HasDefault(config)'
    BY <1>6, <2>1 DEF Config!Swap, ConfigInv, HasDefault
  <2>3. QED
    BY <1>2, <1>6, <2>2, EmptyFits DEF Config!Swap
<1>7. QED
  BY <1>3, <1>4, <1>5, <1>6

LEMMA ConfigKeepsInv ==
  ASSUME ConfigConstants, ConfigInv, [Config!Next]_(Config!vars) PROVE ConfigInv'
<1>1. ASSUME NEW data \in Config!Data, NEW p, NEW e
      PROVE  [data EXCEPT !.providers = Config!Put(@, p, e)] = WithEntry(data, p, e, data.default)
  <2>1. data = [providers |-> data.providers, default |-> data.default]
    BY DEF Config!Data
  <2>2. PICK f : f = Config!Put(data.providers, p, e)
    OBVIOUS
  <2>3. [data EXCEPT !.providers = f] = [providers |-> f, default |-> data.default]
    BY <2>1
  <2>4. QED
    BY <2>2, <2>3 DEF WithEntry
<1>2. ASSUME NEW a \in Config!Actor, NEW p \in Provider, NEW entry \in Config!Entry, Config!SetProvider(a, p, entry)
      PROVE  ConfigInv'
  <2>1. PICK data \in Config!Data : data = Config!DataOf(a)
    BY CopyFits DEF Fits
  <2>2. Config!Changes(a, [data EXCEPT !.providers = Config!Put(@, p, entry)],
                        Config!Put(Config!ViewOf(a), p, Config!Got(Config!ViewOf(a), p) \cup entry))
    BY <1>2, <2>1 DEF Config!SetProvider
  <2>3. Config!Changes(a, WithEntry(data, p, entry, data.default),
                        Config!Put(Config!ViewOf(a), p, Config!Got(Config!ViewOf(a), p) \cup entry))
    BY <2>2, <1>1
  <2>4. /\ UNCHANGED config
        /\ replaced' = IF p \in DOMAIN data.providers THEN replaced \cup {Config!HolderOf(a)} ELSE replaced
    BY <1>2, <2>1 DEF Config!SetProvider
  <2>5. QED
    BY <2>1, <2>3, <2>4, ProviderKeepsInv
<1>3. ASSUME NEW c \in CLI, NEW p \in Provider, NEW entry \in Config!Entry, NEW default \in BOOLEAN,
             Config!Link(c, p, entry, default)
      PROVE  ConfigInv'
  <2>1. c \in Config!Actor /\ Config!HolderOf(c) = c
    BY DEF Config!Actor, Config!HolderOf, ConfigConstants
  <2>2. PICK data \in Config!Data : data = Config!DataOf(c)
    BY <2>1, CopyFits DEF Fits
  <2>3. PICK d \in {data.default, p} : d = IF default THEN p ELSE data.default
    OBVIOUS
  <2>4. Config!Linked(data, p, entry, default) = WithEntry(data, p, entry, d)
    <3>1. data = [providers |-> data.providers, default |-> data.default]
      BY DEF Config!Data
    <3>2. PICK f : f = Config!Put(data.providers, p, entry)
      OBVIOUS
    <3>3. PICK linked : linked = [data EXCEPT !.providers = f, !.default = d]
      OBVIOUS
    <3>4. linked = [providers |-> f, default |-> d]
      BY <3>1, <3>3
    <3>5. linked = Config!Linked(data, p, entry, default)
      BY <2>3, <3>2, <3>3 DEF Config!Linked
    <3>6. QED
      BY <3>2, <3>4, <3>5 DEF WithEntry
  <2>5. /\ Config!Changes(c, WithEntry(data, p, entry, d),
                           Config!Put(Config!ViewOf(c), p, Config!Got(Config!ViewOf(c), p) \cup entry))
        /\ replaced' = IF p \in DOMAIN data.providers THEN replaced \cup {c} ELSE replaced
        /\ UNCHANGED config
    BY <1>3, <2>2, <2>4 DEF Config!Link
  <2>6. QED
    BY <2>1, <2>2, <2>5, ProviderKeepsInv
<1>4. ASSUME NEW t \in Thread, NEW p \in Provider, NEW entry \in Config!Entry, Config!AddProvider(t, p, entry)
      PROVE  ConfigInv'
  BY <1>2, <1>4 DEF Config!AddProvider, Config!Actor
<1>5. ASSUME NEW c \in CLI, NEW p \in Provider, NEW entry \in Config!Entry, Config!ModelsAdd(c, p, entry)
      PROVE  ConfigInv'
  BY <1>2, <1>5 DEF Config!ModelsAdd, Config!Actor
<1>6. CASE UNCHANGED Config!vars
  BY <1>6 DEF Config!vars, ConfigInv, HasDefault, Config!ViewInStep
<1>7. QED
  BY <1>3, <1>4, <1>5, <1>6, SetKeyKeepsInv, ClearKeyKeepsInv, UnlinkKeepsInv, DefaultKeepsInv, OtherKeepsInv,
     FilesKeepInv DEF Config!Next

LEMMA ConfigInvHolds == ConfigConstants => (Config!Spec => []ConfigInv)
<1> SUFFICES ASSUME ConfigConstants PROVE Config!Spec => []ConfigInv
  OBVIOUS
<1>1. Config!Init => ConfigInv
  BY ConfigInitial
<1>2. ConfigInv /\ [Config!Next]_(Config!vars) => ConfigInv'
  BY ConfigKeepsInv
<1>3. QED
  BY <1>1, <1>2, PTL DEF Config!Spec

LEMMA SignInInvHolds == MaxGrants \in Nat => (SignIn!Spec => []SignInInv)
<1> SUFFICES ASSUME MaxGrants \in Nat PROVE SignIn!Spec => []SignInInv
  OBVIOUS
<1>1. SignIn!Init => SignInInv
  BY DEF SignIn!Init, SignInInv, SignIn!TypeOK, SignIn!RefreshIsItsOwn, SignIn!Nothing, SignIn!Rest, SignIn!Pasted
<1>2. SignInInv /\ [SignIn!Next]_(SignIn!vars) => SignInInv'
  BY SignInKeepsInv
<1>3. QED
  BY <1>1, <1>2, PTL DEF SignIn!Spec

\* For every set of providers, commands and threads, and every copy that is
\* saved over another: a config works with what the next load of it would
\* give, its default model is there, and no token is refreshed with another's
\* refresh token.
THEOREM WhatIsStoredFits ==
  ConfigConstants /\ MaxGrants \in Nat => (Config!Spec /\ SignIn!Spec => []SettingsFitTogether)
<1> SUFFICES ASSUME ConfigConstants, MaxGrants \in Nat PROVE Config!Spec /\ SignIn!Spec => []SettingsFitTogether
  OBVIOUS
<1>1. ConfigInv /\ SignInInv => SettingsFitTogether
  BY ConfigInvSuffices DEF SignInInv, SettingsFitTogether
<1>2. QED
  BY <1>1, ConfigInvHolds, SignInInvHolds, PTL

-----------------------------------------------------------------------------
(***************************************************************************)
(* BranchSync.  From the survey on, the branch only grows: by commits, and *)
(* by merges with the remote.  What a restart moves it to is what it was   *)
(* compared with, since only the next resync fetches.                      *)
(***************************************************************************)
SyncInv ==
  survey # Unborn =>
    /\ phase = "surveyed"
    /\ survey.branch \subseteq branch
    /\ survey.action = "restart" => Sync!Tree(survey.branch) \subseteq Sync!Tree(seenBase)

LEMMA SyncKeepsInv ==
  ASSUME SyncInv, [Sync!Next]_(Sync!vars)
  PROVE  SyncInv' /\ (survey # Unborn /\ survey' = Unborn => Sync!Tree(survey.branch) \subseteq Sync!Tree(branch'))
<1> DEFINE Kept == survey # Unborn /\ survey' = Unborn => Sync!Tree(survey.branch) \subseteq Sync!Tree(branch')
<1>1. ASSUME UNCHANGED <<survey, phase, seenBase>>, branch \subseteq branch' PROVE SyncInv' /\ Kept
  BY <1>1 DEF SyncInv, Sync!Tree
<1>2. ASSUME NEW w \in Work, Sync!Edit(w) \/ Sync!ColleaguePushes(w) PROVE SyncInv' /\ Kept
  BY <1>1, <1>2 DEF Sync!Edit, Sync!ColleaguePushes
<1>3. CASE Sync!Commit \/ Sync!ResolveMerge \/ Sync!Push \/ Sync!SquashMerge \/ UNCHANGED Sync!vars
  BY <1>1, <1>3 DEF Sync!Commit, Sync!ResolveMerge, Sync!Push, Sync!SquashMerge, Sync!vars
<1>4. CASE Sync!Fetch
  BY <1>4 DEF Sync!Fetch, Sync!Asked, SyncInv
<1>5. CASE Sync!Survey
  <2>1. survey = Unborn /\ phase' = "surveyed" /\ UNCHANGED <<branch, seenBase>>
    BY <1>5 DEF Sync!Survey, SyncInv
  <2>2. survey'.branch = branch /\ survey'.action = Sync!Recommendation
    BY <1>5 DEF Sync!Survey
  <2>3. Sync!Recommendation = "restart" => Sync!Tree(branch) \subseteq Sync!Tree(seenBase)
    BY DEF Sync!Recommendation, Sync!SquashMerged
  <2>4. QED
    BY <2>1, <2>2, <2>3 DEF SyncInv
<1>6. CASE Sync!Refuse
  BY <1>6 DEF Sync!Refuse, Sync!Done, SyncInv, Sync!Tree
<1>7. CASE Sync!Restart
  BY <1>7 DEF Sync!Restart, Sync!Done, SyncInv, Sync!Tree
<1>8. CASE Sync!FastForward
  BY <1>8 DEF Sync!FastForward, Sync!Done, SyncInv, Sync!Tree
<1>9. CASE Sync!Merge
  BY <1>9 DEF Sync!Merge, Sync!Done, SyncInv, Sync!Tree
<1>10. QED
  BY <1>2, <1>3, <1>4, <1>5, <1>6, <1>7, <1>8, <1>9 DEF Sync!Next

\* Whatever is committed, pushed and merged between the survey and the git
\* command: what the survey has seen on the branch is there afterwards.
THEOREM ResyncKeepsWork == Sync!Spec => SurveyedWorkIsKept
<1>1. Sync!Init => SyncInv
  BY DEF Sync!Init, SyncInv
<1>2. SyncInv /\ [Sync!Next]_(Sync!vars) =>
        SyncInv' /\ [survey # Unborn /\ survey' = Unborn => Sync!Tree(survey.branch) \subseteq Sync!Tree(branch')]_(Sync!vars)
  BY SyncKeepsInv
<1>3. QED
  BY <1>1, <1>2, PTL DEF Sync!Spec, SurveyedWorkIsKept, Sync!SurveyedWorkIsKept

-----------------------------------------------------------------------------
(***************************************************************************)
(* SandboxMirror.  Each workspace has one thread that syncs it, and its    *)
(* saves only grow.  A manifest is of a state no newer than the archive    *)
(* that is packed after it, and it becomes the last one only where that    *)
(* archive was unpacked; so a mirror whose manifest is the last holds no   *)
(* older state than the manifest is of.                                    *)
(***************************************************************************)
\* One thread for each workspace, and no other marks taken for a mirror.
MirrorConstants ==
  /\ \E of \in [Thread -> Workspace] : \A t, u \in Thread : of[t] = of[u] => t = u
  /\ MaxSaves \in Nat
  /\ None \notin Workspace \X Mirror!Content /\ Bare # None
  /\ None \notin 0..MaxSaves /\ Bare \notin 0..MaxSaves

Filled(w) == tree[w] \notin {None, Bare}

\* What has been taken of a workspace is no newer than the workspace.
NoneIsNewer ==
  /\ \A w \in Workspace : local[w].save <= saves
  /\ \A t \in Thread : command[t].at # "idle" => local[WorkspaceOf[t]].save \in since[t]
  /\ \A w \in Workspace : Filled(w) => tree[w] <= local[w].save
  /\ last # None => last[2].save <= local[last[1]].save

\* What each call has in its hands: the manifest, the archive packed after it.
CallsAreOrdered ==
  \A t \in Thread :
    LET c == command[t]
        w == WorkspaceOf[t]
    IN  /\ c.at \in {"differs", "packed", "wiped", "synced"} =>
             c.manifest # None /\ c.manifest[1] = w /\ c.manifest[2].save <= local[w].save
        /\ c.at \in {"packed", "wiped"} =>
             /\ c.data.save \in since[t] /\ c.manifest[2].save <= c.data.save /\ c.data.save <= local[w].save
             /\ last # None /\ last[1] = w => last[2].save <= c.data.save
        /\ c.at = "synced" /\ Filled(w) => c.manifest[2].save <= tree[w]
        /\ c.at \in {"synced", "ready"} => tree[w] \in since[t] \cup {None, Bare}

\* The mirror that the last manifest is of.
LastIsMirrored == last # None /\ Filled(last[1]) => last[2].save <= tree[last[1]]

MirrorInv == Mirror!TypeOK /\ NoneIsNewer /\ CallsAreOrdered /\ LastIsMirrored /\ CommandSeesWorkspace

LEMMA OneWorkspaceEach ==
  ASSUME MirrorConstants
  PROVE  /\ WorkspaceOf \in [Thread -> Workspace]
         /\ \A t, u \in Thread : WorkspaceOf[t] = WorkspaceOf[u] => t = u
  BY DEF MirrorConstants, WorkspaceOf

\* The workspaces and the mirrors at rest.
LEMMA MirrorInitial == ASSUME MirrorConstants, Mirror!Init PROVE MirrorInv
  BY OneWorkspaceEach
  DEF MirrorInv, Mirror!TypeOK, NoneIsNewer, CallsAreOrdered, LastIsMirrored, CommandSeesWorkspace, Filled, Mirror!In,
      Mirror!CommandSeesWorkspace, Mirror!Init, Mirror!First, Mirror!NoCall, Mirror!Content, Mirror!Mirror, Mirror!Call,
      MirrorConstants

\* A save, or a link, is of one workspace, and newer than all that was taken.
LEMMA BecomesKeepsInv ==
  ASSUME MirrorConstants, MirrorInv, NEW w \in Workspace, NEW content \in Mirror!Content, Mirror!Becomes(w, content),
         saves' \in saves..MaxSaves, local[w].save <= content.save, content.save <= saves'
  PROVE  MirrorInv'
<1> USE OneWorkspaceEach
<1>1. /\ local' = [local EXCEPT ![w] = content] /\ UNCHANGED <<last, tree, command, found>>
      /\ since' = [t \in Thread |-> IF WorkspaceOf[t] = w /\ command[t].at # "idle"
                                     THEN since[t] \cup {content.save} ELSE since[t]]
  BY DEF Mirror!Becomes, Mirror!In
<1>2. Mirror!TypeOK'
  BY <1>1 DEF MirrorInv, Mirror!TypeOK, MirrorConstants, Mirror!Content
<1>3. \A v \in Workspace : local[v].save <= local'[v].save /\ local'[v].save <= saves'
  BY <1>1 DEF MirrorInv, Mirror!TypeOK, NoneIsNewer, Mirror!Content
<1>4. \A t \in Thread : since[t] \subseteq since'[t]
  BY <1>1 DEF MirrorInv, Mirror!TypeOK
<1>5. NoneIsNewer'
  <2>1. \A t \in Thread : command[t].at # "idle" => local'[WorkspaceOf[t]].save \in since'[t]
    BY <1>1 DEF MirrorInv, Mirror!TypeOK, NoneIsNewer
  <2>2. \A v \in Workspace : Filled(v)' => tree[v] <= local'[v].save
    BY <1>1, <1>3 DEF MirrorInv, Mirror!TypeOK, NoneIsNewer, Filled, Mirror!Mirror, Mirror!Content
  <2>3. last # None => last[2].save <= local'[last[1]].save
    BY <1>2, <1>3 DEF MirrorInv, Mirror!TypeOK, NoneIsNewer, Mirror!Content
  <2>4. QED
    BY <1>1, <1>3, <2>1, <2>2, <2>3 DEF NoneIsNewer
<1>6. CallsAreOrdered'
  BY <1>1, <1>2, <1>3, <1>4
  DEF MirrorInv, Mirror!TypeOK, CallsAreOrdered, Filled, Mirror!Call, Mirror!Content, MirrorConstants
<1>7. LastIsMirrored' /\ CommandSeesWorkspace'
  BY <1>1, <1>4 DEF MirrorInv, LastIsMirrored, Filled, CommandSeesWorkspace, Mirror!CommandSeesWorkspace, Mirror!In
<1>8. QED
  BY <1>2, <1>5, <1>6, <1>7 DEF MirrorInv

\* A call that is over has nothing in its hands.
LEMMA RaisesKeepsInv ==
  ASSUME MirrorConstants, MirrorInv, NEW t \in Thread, Mirror!Raises(t), UNCHANGED <<saves, local, last, tree>>
  PROVE  MirrorInv'
<1> USE OneWorkspaceEach
<1>1. /\ command' = [command EXCEPT ![t] = Mirror!NoCall]
      /\ since' = [since EXCEPT ![t] = {}] /\ found' = [found EXCEPT ![t] = 0]
  BY DEF Mirror!Raises
<1>2. Mirror!TypeOK'
  BY <1>1 DEF MirrorInv, Mirror!TypeOK, Mirror!NoCall, Mirror!Call, Mirror!Content, Mirror!First, Mirror!Mirror, MirrorConstants
<1>3. \A u \in Thread : IF u = t THEN command'[u] = Mirror!NoCall
                         ELSE command'[u] = command[u] /\ since'[u] = since[u] /\ found'[u] = found[u]
  BY <1>1 DEF MirrorInv, Mirror!TypeOK
<1>4. NoneIsNewer' /\ LastIsMirrored'
  BY <1>3 DEF MirrorInv, NoneIsNewer, LastIsMirrored, Filled, Mirror!NoCall
<1>5. CallsAreOrdered'
  BY <1>3 DEF MirrorInv, CallsAreOrdered, Filled, Mirror!NoCall
<1>6. CommandSeesWorkspace'
  BY <1>3 DEF MirrorInv, CommandSeesWorkspace, Mirror!CommandSeesWorkspace, Mirror!In, Mirror!NoCall
<1>7. QED
  BY <1>2, <1>4, <1>5, <1>6 DEF MirrorInv

\* A call goes on without a change of the mirrors: it is asked, compares,
\* packs, and runs.
LEMMA CallKeepsInv ==
  ASSUME MirrorConstants, MirrorInv, NEW t \in Thread,
         Mirror!Exec(t) \/ Mirror!Compare(t) \/ Mirror!Pack(t) \/ Mirror!Run(t)
  PROVE  MirrorInv'
<1> USE OneWorkspaceEach
<1> DEFINE w == WorkspaceOf[t]
<1>1. CASE Mirror!Exec(t)
  <2>1. /\ command[t].at = "idle" /\ command' = [command EXCEPT ![t].at = "asked"]
        /\ since' = [since EXCEPT ![t] = {local[w].save}] /\ UNCHANGED <<saves, local, last, tree, found>>
    BY <1>1 DEF Mirror!Exec, Mirror!In, Mirror!Goes
  <2>2. Mirror!TypeOK'
    <3>1. local[w].save \in 0..MaxSaves
      BY DEF MirrorInv, Mirror!TypeOK, Mirror!Content
    <3>2. since' \in [Thread -> SUBSET (0..MaxSaves)]
      BY <2>1, <3>1 DEF MirrorInv, Mirror!TypeOK
    <3>3. command' \in [Thread -> Mirror!Call]
      BY <2>1 DEF MirrorInv, Mirror!TypeOK, Mirror!Call
    <3>4. QED
      BY <2>1, <3>2, <3>3 DEF MirrorInv, Mirror!TypeOK
  <2>3. NoneIsNewer' /\ LastIsMirrored'
    BY <2>1 DEF MirrorInv, Mirror!TypeOK, NoneIsNewer, LastIsMirrored, Filled, Mirror!Call
  <2>4. CallsAreOrdered'
    BY <2>1 DEF MirrorInv, Mirror!TypeOK, CallsAreOrdered, Filled, Mirror!Call
  <2>5. CommandSeesWorkspace'
    BY <2>1 DEF MirrorInv, Mirror!TypeOK, CommandSeesWorkspace, Mirror!CommandSeesWorkspace, Mirror!In, Mirror!Call
  <2>6. QED
    BY <2>2, <2>3, <2>4, <2>5 DEF MirrorInv
<1>2. CASE Mirror!Compare(t) /\ Mirror!Manifest(w) = last
  <2>1. /\ command[t].at = "asked" /\ command' = [command EXCEPT ![t].at = "ready"]
        /\ last = <<w, local[w]>> /\ UNCHANGED <<saves, local, last, tree, since, found>>
    BY <1>2 DEF Mirror!Compare, Mirror!In, Mirror!Manifest, MirrorInv, Mirror!TypeOK
  <2>2. Mirror!TypeOK'
    BY <2>1, ZenonT(40) DEF MirrorInv, Mirror!TypeOK, Mirror!Call
  <2>3. NoneIsNewer' /\ LastIsMirrored'
    BY <2>1 DEF MirrorInv, Mirror!TypeOK, NoneIsNewer, LastIsMirrored, Filled, Mirror!Call
  <2>4. tree[w] \in since[t] \cup {None, Bare}
    <3>a. last # None /\ last[1] = w /\ last[2] = local[w]
      <4>1. <<w, local[w]>> \in Workspace \X Mirror!Content
        BY DEF MirrorInv, Mirror!TypeOK
      <4>2. QED
        BY <2>1, <4>1 DEF MirrorConstants
    <3>1. Filled(w) => local[w].save <= tree[w] /\ tree[w] <= local[w].save /\ tree[w] \in 0..MaxSaves
      BY <3>a DEF MirrorInv, Mirror!TypeOK, NoneIsNewer, LastIsMirrored, Filled, Mirror!Mirror
    <3>2. local[w].save \in since[t] /\ local[w].save \in 0..MaxSaves
      BY <2>1 DEF MirrorInv, Mirror!TypeOK, NoneIsNewer, Mirror!Content
    <3>3. QED
      BY <3>1, <3>2 DEF Filled
  <2>5. CallsAreOrdered'
    BY <2>1, <2>4 DEF MirrorInv, Mirror!TypeOK, CallsAreOrdered, Filled, Mirror!Call
  <2>6. CommandSeesWorkspace'
    BY <2>1 DEF MirrorInv, Mirror!TypeOK, CommandSeesWorkspace, Mirror!CommandSeesWorkspace, Mirror!In, Mirror!Call
  <2>7. QED
    BY <2>2, <2>3, <2>5, <2>6 DEF MirrorInv
<1>3. CASE Mirror!Compare(t) /\ Mirror!Manifest(w) # last
  <2>1. /\ command[t].at = "asked" /\ UNCHANGED <<saves, local, last, tree, since, found>>
        /\ command' = [command EXCEPT ![t] = [@ EXCEPT !.at = "differs", !.manifest = <<w, local[w]>>]]
    BY <1>3 DEF Mirror!Compare, Mirror!In, Mirror!Manifest
  <2>2. <<w, local[w]>> \in Workspace \X Mirror!Content /\ <<w, local[w]>> # None
    BY DEF MirrorInv, Mirror!TypeOK, MirrorConstants
  <2>3. Mirror!TypeOK'
    <3>1. PICK m \in Workspace \X Mirror!Content : m = <<w, local[w]>>
      BY <2>2
    <3>2. command' = [command EXCEPT ![t] = [@ EXCEPT !.at = "differs", !.manifest = m]]
      BY <2>1, <3>1
    <3>3. PICK c : c = [command[t] EXCEPT !.at = "differs", !.manifest = m]
      OBVIOUS
    <3>a. command[t] \in Mirror!Call /\ command \in [Thread -> Mirror!Call]
      BY DEF MirrorInv, Mirror!TypeOK
    <3>b. c \in Mirror!Call
      BY <3>3, <3>a DEF Mirror!Call
    <3>c. command' \in [Thread -> Mirror!Call]
      BY <3>2, <3>3, <3>a, <3>b
    <3>4. QED
      BY <2>1, <3>c DEF MirrorInv, Mirror!TypeOK
  <2>4. NoneIsNewer' /\ LastIsMirrored'
    BY <2>1 DEF MirrorInv, Mirror!TypeOK, NoneIsNewer, LastIsMirrored, Filled, Mirror!Call
  <2>5. CallsAreOrdered'
    BY <2>1, <2>2 DEF MirrorInv, Mirror!TypeOK, CallsAreOrdered, Filled, Mirror!Call, Mirror!Content
  <2>6. CommandSeesWorkspace'
    BY <2>1 DEF MirrorInv, Mirror!TypeOK, CommandSeesWorkspace, Mirror!CommandSeesWorkspace, Mirror!In, Mirror!Call
  <2>7. QED
    BY <2>3, <2>4, <2>5, <2>6 DEF MirrorInv
<1>4. CASE Mirror!Pack(t) /\ ~Mirror!Raises(t)
  <2>1. /\ command[t].at = "differs" /\ UNCHANGED <<saves, local, last, tree, since, found>>
        /\ command' = [command EXCEPT ![t] = [@ EXCEPT !.at = "packed", !.data = local[w]]]
    BY <1>4 DEF Mirror!Pack, Mirror!In
  <2>2. Mirror!TypeOK'
    BY <2>1, ZenonT(40) DEF MirrorInv, Mirror!TypeOK, Mirror!Call
  <2>3. NoneIsNewer' /\ LastIsMirrored'
    BY <2>1 DEF MirrorInv, Mirror!TypeOK, NoneIsNewer, LastIsMirrored, Filled, Mirror!Call
  <2>4. CallsAreOrdered'
    BY <2>1 DEF MirrorInv, Mirror!TypeOK, NoneIsNewer, CallsAreOrdered, Filled, Mirror!Call, Mirror!Content
  <2>5. CommandSeesWorkspace'
    BY <2>1 DEF MirrorInv, Mirror!TypeOK, CommandSeesWorkspace, Mirror!CommandSeesWorkspace, Mirror!In, Mirror!Call
  <2>6. QED
    BY <2>2, <2>3, <2>4, <2>5 DEF MirrorInv
<1>5. CASE Mirror!Run(t)
  <2>1. /\ command[t].at = "ready" /\ tree[w] # None /\ command' = [command EXCEPT ![t].at = "ran"]
        /\ found' = [found EXCEPT ![t] = tree[w]] /\ UNCHANGED <<saves, local, last, tree, since>>
    BY <1>5 DEF Mirror!Run, Mirror!In, Mirror!Goes
  <2>2. Mirror!TypeOK'
    BY <2>1 DEF MirrorInv, Mirror!TypeOK, Mirror!Call
  <2>3. NoneIsNewer' /\ LastIsMirrored'
    BY <2>1 DEF MirrorInv, Mirror!TypeOK, NoneIsNewer, LastIsMirrored, Filled, Mirror!Call
  <2>4. CallsAreOrdered'
    BY <2>1 DEF MirrorInv, Mirror!TypeOK, CallsAreOrdered, Filled, Mirror!Call
  <2>5. CommandSeesWorkspace'
    BY <2>1 DEF MirrorInv, Mirror!TypeOK, CallsAreOrdered, CommandSeesWorkspace, Mirror!CommandSeesWorkspace, Mirror!In,
                Mirror!Call
  <2>6. QED
    BY <2>2, <2>3, <2>4, <2>5 DEF MirrorInv
<1>6. QED
  BY <1>1, <1>2, <1>3, <1>4, <1>5, RaisesKeepsInv DEF Mirror!Pack

\* The sandbox: a mirror is wiped, and filled, and what it was filled with
\* becomes the last manifest.
LEMMA SandboxKeepsInv ==
  ASSUME MirrorConstants, MirrorInv, NEW t \in Thread, Mirror!Wipe(t) \/ Mirror!Extract(t) \/ Mirror!Synced(t)
  PROVE  MirrorInv'
<1> USE OneWorkspaceEach
<1> DEFINE w == WorkspaceOf[t]
<1>1. CASE Mirror!Wipe(t)
  <2>1. /\ command[t].at = "packed" /\ command' = [command EXCEPT ![t].at = "wiped"]
        /\ tree' = [tree EXCEPT ![w] = Bare] /\ UNCHANGED <<saves, local, last, since, found>>
    BY <1>1 DEF Mirror!Wipe, Mirror!In, Mirror!Goes
  <2>2. Mirror!TypeOK'
    BY <2>1, ZenonT(40) DEF MirrorInv, Mirror!TypeOK, Mirror!Call, Mirror!Mirror
  <2>3. NoneIsNewer' /\ LastIsMirrored'
    BY <2>1 DEF MirrorInv, Mirror!TypeOK, NoneIsNewer, LastIsMirrored, Filled, Mirror!Call
  <2>4. CallsAreOrdered'
    BY <2>1 DEF MirrorInv, Mirror!TypeOK, CallsAreOrdered, Filled, Mirror!Call
  <2>5. CommandSeesWorkspace'
    BY <2>1 DEF MirrorInv, Mirror!TypeOK, CommandSeesWorkspace, Mirror!CommandSeesWorkspace, Mirror!In, Mirror!Call
  <2>6. QED
    BY <2>2, <2>3, <2>4, <2>5 DEF MirrorInv
<1>2. CASE Mirror!Extract(t)
  <2>1. /\ command[t].at = "wiped" /\ tree' = [tree EXCEPT ![w] = command[t].data.save]
        /\ UNCHANGED <<saves, local, last>>
        /\ \/ command' = [command EXCEPT ![t].at = "synced"] /\ UNCHANGED <<since, found>>
           \/ /\ command' = [command EXCEPT ![t] = Mirror!NoCall]
              /\ since' = [since EXCEPT ![t] = {}] /\ found' = [found EXCEPT ![t] = 0]
    BY <1>2 DEF Mirror!Extract, Mirror!In, Mirror!Goes, Mirror!Raises
  <2>2. command[t].data.save \in 0..MaxSaves
    BY DEF MirrorInv, Mirror!TypeOK, Mirror!Call, Mirror!Content
  <2>3. tree' \in [Workspace -> Mirror!Mirror]
    BY <2>1, <2>2 DEF MirrorInv, Mirror!TypeOK, Mirror!Mirror
  <2>4. /\ command' \in [Thread -> Mirror!Call] /\ since' \in [Thread -> SUBSET (0..MaxSaves)]
        /\ found' \in [Thread -> Mirror!Mirror \ {None}]
    <3>1. Mirror!NoCall \in Mirror!Call /\ 0 \in Mirror!Mirror \ {None}
      BY DEF Mirror!NoCall, Mirror!Call, Mirror!Content, Mirror!First, Mirror!Mirror, MirrorConstants
    <3>2. command' \in [Thread -> Mirror!Call]
      BY <2>1, <3>1 DEF MirrorInv, Mirror!TypeOK, Mirror!Call
    <3>3. since' \in [Thread -> SUBSET (0..MaxSaves)]
      BY <2>1 DEF MirrorInv, Mirror!TypeOK
    <3>4. found' \in [Thread -> Mirror!Mirror \ {None}]
      BY <2>1, <3>1 DEF MirrorInv, Mirror!TypeOK
    <3>5. QED
      BY <3>2, <3>3, <3>4
  <2>5. Mirror!TypeOK'
    BY <2>1, <2>3, <2>4 DEF MirrorInv, Mirror!TypeOK
  <2>6. /\ command[t].data.save \in since[t] /\ command[t].manifest[2].save <= command[t].data.save
        /\ command[t].data.save <= local[w].save
        /\ last # None /\ last[1] = w => last[2].save <= command[t].data.save
    BY <2>1 DEF MirrorInv, CallsAreOrdered
  <2>7. \A v \in Workspace : tree'[v] = IF v = w THEN command[t].data.save ELSE tree[v]
    BY <2>1 DEF MirrorInv, Mirror!TypeOK
  <2>8. \A u \in Thread \ {t} : /\ command'[u] = command[u] /\ since'[u] = since[u] /\ found'[u] = found[u]
                               /\ tree'[WorkspaceOf[u]] = tree[WorkspaceOf[u]]
    BY <2>1, <2>7 DEF MirrorInv, Mirror!TypeOK
  <2>9. \/ command'[t].at = "idle"
        \/ /\ command'[t].at = "synced" /\ command'[t].manifest = command[t].manifest
           /\ since'[t] = since[t]
    BY <2>1 DEF MirrorInv, Mirror!TypeOK, Mirror!Call, Mirror!NoCall
  <2>10. NoneIsNewer' /\ LastIsMirrored'
    BY <2>1, <2>6, <2>7, <2>8, <2>9 DEF MirrorInv, Mirror!TypeOK, NoneIsNewer, LastIsMirrored, Filled
  <2>11. CallsAreOrdered'
    BY <2>1, <2>6, <2>7, <2>8, <2>9 DEF MirrorInv, CallsAreOrdered, Filled
  <2>12. CommandSeesWorkspace'
    BY <2>8, <2>9 DEF MirrorInv, CommandSeesWorkspace, Mirror!CommandSeesWorkspace, Mirror!In
  <2>13. QED
    BY <2>5, <2>10, <2>11, <2>12 DEF MirrorInv
<1>3. CASE Mirror!Synced(t)
  <2>1. /\ command[t].at = "synced" /\ command' = [command EXCEPT ![t].at = "ready"]
        /\ last' = command[t].manifest /\ UNCHANGED <<saves, local, tree, since, found>>
    BY <1>3 DEF Mirror!Synced, Mirror!In, Mirror!Goes
  <2>2. Mirror!TypeOK'
    BY <2>1 DEF MirrorInv, Mirror!TypeOK, Mirror!Call
  <2>3. NoneIsNewer' /\ LastIsMirrored'
    BY <2>1 DEF MirrorInv, Mirror!TypeOK, NoneIsNewer, LastIsMirrored, CallsAreOrdered, Filled, Mirror!Call
  <2>4. CallsAreOrdered'
    BY <2>1 DEF MirrorInv, Mirror!TypeOK, CallsAreOrdered, Filled, Mirror!Call
  <2>5. CommandSeesWorkspace'
    BY <2>1 DEF MirrorInv, Mirror!TypeOK, CommandSeesWorkspace, Mirror!CommandSeesWorkspace, Mirror!In, Mirror!Call
  <2>6. QED
    BY <2>2, <2>3, <2>4, <2>5 DEF MirrorInv
<1>4. QED
  BY <1>1, <1>2, <1>3

\* The sandbox is lost: there is no mirror, and nothing to be out of step with.
LEMMA LostKeepsInv == ASSUME MirrorConstants, MirrorInv, Mirror!Lost PROVE MirrorInv'
<1> USE OneWorkspaceEach
<1>1. tree' = [w \in Workspace |-> None] /\ UNCHANGED <<saves, local, last, command, since, found>>
  BY DEF Mirror!Lost
<1>2. Mirror!TypeOK'
  BY <1>1 DEF MirrorInv, Mirror!TypeOK, Mirror!Mirror
<1>3. \A w \in Workspace : ~Filled(w)'
  BY <1>1 DEF Filled
<1>4. NoneIsNewer' /\ LastIsMirrored' /\ CommandSeesWorkspace'
  BY <1>1, <1>3 DEF MirrorInv, Mirror!TypeOK, NoneIsNewer, LastIsMirrored, CommandSeesWorkspace,
                    Mirror!CommandSeesWorkspace, Mirror!In
<1>5. CallsAreOrdered'
  BY <1>1, <1>3 DEF MirrorInv, CallsAreOrdered
<1>6. QED
  BY <1>2, <1>4, <1>5 DEF MirrorInv

LEMMA MirrorInvHolds == MirrorConstants => (Mirror!Spec => []MirrorInv)
<1> SUFFICES ASSUME MirrorConstants PROVE Mirror!Spec => []MirrorInv
  OBVIOUS
<1>1. Mirror!Init => MirrorInv
  BY MirrorInitial
<1>2. MirrorInv /\ [Mirror!Next]_(Mirror!vars) => MirrorInv'
  <2> SUFFICES ASSUME MirrorInv, [Mirror!Next]_(Mirror!vars) PROVE MirrorInv'
    OBVIOUS
  <2>1. ASSUME NEW w \in Workspace, Mirror!Save(w) \/ Mirror!Link(w) PROVE MirrorInv'
    <3>1. PICK content \in Mirror!Content :
            /\ Mirror!Becomes(w, content) /\ saves' \in saves..MaxSaves
            /\ local[w].save <= content.save /\ content.save <= saves'
      <4>1. CASE Mirror!Save(w)
        <5>1. /\ [local[w] EXCEPT !.save = saves + 1] \in Mirror!Content
              /\ [local[w] EXCEPT !.save = saves + 1].save = saves + 1
              /\ saves' = saves + 1 /\ saves < MaxSaves /\ local[w].save <= saves /\ saves \in 0..MaxSaves
              /\ local[w].save \in 0..MaxSaves
          BY <4>1 DEF MirrorInv, Mirror!TypeOK, Mirror!Content, NoneIsNewer, Mirror!Save, MirrorConstants
        <5>2. PICK content \in Mirror!Content : content = [local[w] EXCEPT !.save = saves + 1]
          BY <5>1
        <5>3. Mirror!Becomes(w, content)
          BY <4>1, <5>2 DEF Mirror!Save
        <5>4. content.save = saves + 1
          BY <5>1, <5>2
        <5>5. saves' \in saves..MaxSaves /\ local[w].save <= content.save /\ content.save <= saves'
          BY <5>1, <5>4 DEF MirrorConstants
        <5>6. QED
          BY <5>3, <5>5
      <4>2. CASE Mirror!Link(w)
        <5>1. /\ [local[w] EXCEPT !.link = ~@] \in Mirror!Content
              /\ [local[w] EXCEPT !.link = ~@].save = local[w].save
              /\ saves' = saves /\ local[w].save <= saves /\ saves \in 0..MaxSaves /\ local[w].save \in 0..MaxSaves
          BY <4>2 DEF MirrorInv, Mirror!TypeOK, Mirror!Content, NoneIsNewer, Mirror!Link
        <5>2. PICK content \in Mirror!Content : content = [local[w] EXCEPT !.link = ~@]
          BY <5>1
        <5>3. Mirror!Becomes(w, content)
          BY <4>2, <5>2 DEF Mirror!Link
        <5>4. content.save = local[w].save
          BY <5>1, <5>2
        <5>5. saves' \in saves..MaxSaves /\ local[w].save <= content.save /\ content.save <= saves'
          BY <5>1, <5>4 DEF MirrorConstants
        <5>6. QED
          BY <5>3, <5>5
      <4>3. QED
        BY <2>1, <4>1, <4>2
    <3>2. QED
      BY <3>1, BecomesKeepsInv
  <2>2. ASSUME NEW t \in Thread,
               Mirror!Unreachable(t) \/ Mirror!Refuse(t) \/ Mirror!Conflict(t) \/ Mirror!Answer(t)
        PROVE  MirrorInv'
    BY <2>2, RaisesKeepsInv DEF Mirror!Unreachable, Mirror!Refuse, Mirror!Conflict, Mirror!Answer
  <2>3. CASE UNCHANGED Mirror!vars
    BY <2>3 DEF Mirror!vars, MirrorInv, Mirror!TypeOK, NoneIsNewer, CallsAreOrdered, LastIsMirrored, Filled,
                CommandSeesWorkspace, Mirror!CommandSeesWorkspace, Mirror!In
  <2>4. QED
    BY <2>1, <2>2, <2>3, CallKeepsInv, SandboxKeepsInv, LostKeepsInv DEF Mirror!Next
<1>3. QED
  BY <1>1, <1>2, PTL DEF Mirror!Spec

\* For every number of sessions, each on a workspace of its own, and however
\* they save, sync and lose the sandbox: no command runs on an older state of
\* its workspace than when it was asked for.
THEOREM CommandsRunOnWhatIsSaved == MirrorConstants => (Mirror!Spec => []CommandSeesWorkspace)
<1>1. MirrorInv => CommandSeesWorkspace
  BY DEF MirrorInv
<1>2. QED
  BY <1>1, MirrorInvHolds, PTL

-----------------------------------------------------------------------------
(***************************************************************************)
(* RemoteWorkspace, with one client at a time.  A clone is unfinished only *)
(* while the client is at it, or since the sandbox died within it; what is *)
(* fetched from is what this client asked for; and who has written is in   *)
(* a clone that has notes, and has forgotten its listing.                  *)
(***************************************************************************)
RemoteConstants == MaxProxies \in Nat /\ \A c, d \in Client : c = d

Proxies == 0..MaxProxies

ClientState ==
  [at : Remote!Asks \cup {"out", "ready", "read", "write"}, token : BOOLEAN, proxy : Proxies,
   listed : {"unknown", "yes", "no"}, old : SUBSET RemoteNote, wrote : BOOLEAN]

SandboxTyped ==
  /\ clone \in {"absent", "partial", "whole"} /\ memory \subseteq RemoteNote
  /\ origin \in Proxies /\ slot \in Proxies /\ serving \subseteq Proxies /\ made \in Proxies
  /\ died \in BOOLEAN

\* What the call q of the client has to do with the sandbox.
CallFits(q) ==
  /\ q.at = "cloning" => clone = "partial" /\ origin = q.proxy
  /\ q.at = "fetch" => origin = q.proxy
  /\ clone = "partial" => died \/ q.at \in {"cloning", "discard"}
  /\ q.at \in Remote!Asks \cup {"out"} => ~q.wrote
  /\ q.wrote => memory # {} /\ q.listed # "no"

RemoteInv == SandboxTyped /\ client \in [Client -> ClientState] /\ \A c \in Client : CallFits(client[c])

LEMMA RemoteIsTyped == RemoteInv => Remote!TypeOK
BY DEF RemoteInv, SandboxTyped, ClientState, Proxies, Remote!TypeOK, Remote!Proxy

LEMMA OutIsTyped ==
  RemoteConstants => /\ Remote!Out \in ClientState /\ Remote!Out.at = "out" /\ ~Remote!Out.wrote
BY DEF RemoteConstants, Remote!Out, ClientState, Proxies

LEMMA RemoteInitial == RemoteConstants /\ Remote!Init => RemoteInv
<1> SUFFICES ASSUME RemoteConstants, Remote!Init PROVE RemoteInv
  OBVIOUS
<1>1. client \in [Client -> ClientState] /\ \A c \in Client : client[c] = Remote!Out
  BY OutIsTyped, Zenon DEF Remote!Init
<1>2. SandboxTyped
  <2>1. 0 \in Proxies
    BY DEF RemoteConstants, Proxies
  <2> QED
    BY <2>1 DEF Remote!Init, SandboxTyped
<1>3. \A c \in Client : CallFits(client[c])
  BY <1>1, OutIsTyped DEF CallFits, Remote!Init, Remote!Asks
<1> QED
  BY <1>1, <1>2, <1>3 DEF RemoteInv

\* A step of the client.
LEMMA ClientChanges ==
  ASSUME RemoteConstants, RemoteInv, NEW c \in Client, NEW r \in ClientState,
         client' = [client EXCEPT ![c] = r], SandboxTyped', CallFits(client[c]) => CallFits(r)'
  PROVE  RemoteInv' /\ client'[c] = r
<1>1. client'[c] = r /\ client' \in [Client -> ClientState]
  BY DEF RemoteInv
<1>2. \A d \in Client : client'[d] = r
  BY <1>1 DEF RemoteConstants
<1>3. CallFits(r)'
  BY DEF RemoteInv
<1>4. \A d \in Client : CallFits(client[d])'
  BY <1>2, <1>3 DEF CallFits
<1> QED
  BY <1>1, <1>4 DEF RemoteInv

LEMMA RemoteGoesOn == RemoteConstants /\ RemoteInv /\ [Remote!Next]_(Remote!vars) =>
  /\ RemoteInv'
  /\ \A c \in Client : client[c].at \in Remote!Asks /\ client'[c].at = "ready"
       => (clone' = "whole" \/ died') /\ origin' = client[c].proxy /\ Remote!Reaches(client[c].proxy)
<1> DEFINE Usable == \A c \in Client : client[c].at \in Remote!Asks /\ client'[c].at = "ready"
             => (clone' = "whole" \/ died') /\ origin' = client[c].proxy /\ Remote!Reaches(client[c].proxy)
           GoodFor(c) == client[c].at \in Remote!Asks /\ client'[c].at = "ready"
             => (clone' = "whole" \/ died') /\ origin' = client[c].proxy /\ Remote!Reaches(client[c].proxy)
<1> SUFFICES ASSUME RemoteConstants, RemoteInv, [Remote!Next]_(Remote!vars) PROVE RemoteInv' /\ Usable
  OBVIOUS
<1>1. /\ SandboxTyped /\ client \in [Client -> ClientState] /\ \A c \in Client : CallFits(client[c])
      /\ \A c \in Client : client[c] \in ClientState
  BY DEF RemoteInv
<1>2. ASSUME NEW c \in Client, GoodFor(c) PROVE Usable
  BY <1>2 DEF RemoteConstants
<1>3. Remote!Out \in ClientState /\ Remote!Out.at = "out" /\ ~Remote!Out.wrote
  BY OutIsTyped
<1> HIDE DEF Usable
<1> DEFINE Moves(q, there) == [q EXCEPT !.at = there]
<1>4. \A q \in ClientState, there \in Remote!Asks \cup {"out", "ready", "read", "write"} :
        /\ Moves(q, there) \in ClientState /\ Moves(q, there).at = there
        /\ Moves(q, there).proxy = q.proxy /\ Moves(q, there).wrote = q.wrote
        /\ Moves(q, there).listed = q.listed
  BY DEF ClientState
\* The client is told no, or goes.
<1>5. ASSUME NEW c \in Client, client' = [client EXCEPT ![c] = Remote!Out], SandboxTyped',
             clone' = "partial" => died'
      PROVE  RemoteInv' /\ Usable
  <2>1. CallFits(Remote!Out)'
    BY <1>3, <1>5 DEF CallFits, Remote!Asks
  <2>2. RemoteInv' /\ client'[c] = Remote!Out
    BY <1>3, <1>5, <2>1, ClientChanges
  <2> QED
    BY <1>2, <1>3, <2>2
\* The client goes on, as it was.
<1>6. ASSUME NEW c \in Client, NEW there \in Remote!Asks \cup {"ready", "read", "write"},
             client' = [client EXCEPT ![c].at = there], SandboxTyped',
             clone' = "partial" => died' \/ there \in {"cloning", "discard"},
             there = "cloning" => clone' = "partial" /\ origin' = client[c].proxy,
             there = "fetch" => origin' = client[c].proxy,
             there \in Remote!Asks => ~client[c].wrote,
             client[c].wrote => memory' # {},
             there = "ready" /\ client[c].at \in Remote!Asks =>
               (clone' = "whole" \/ died') /\ origin' = client[c].proxy /\ Remote!Reaches(client[c].proxy)
      PROVE  RemoteInv' /\ Usable
  <2>1. PICK r \in ClientState : r = Moves(client[c], there)
    BY <1>1, <1>4
  <2>2. /\ client' = [client EXCEPT ![c] = r] /\ r.at = there /\ r.proxy = client[c].proxy
        /\ r.wrote = client[c].wrote /\ r.listed = client[c].listed
    BY <1>1, <1>4, <1>6, <2>1
  <2>3. CallFits(client[c]) => CallFits(r)'
    BY <1>6, <2>2 DEF CallFits, Remote!Asks
  <2>4. RemoteInv' /\ client'[c] = r
    BY <1>6, <2>2, <2>3, ClientChanges
  <2>5. GoodFor(c)
    BY <1>6, <2>2, <2>4
  <2> QED
    BY <1>2, <2>4, <2>5
<1>7. ASSUME NEW c \in Client PROVE CallFits(client[c]) /\ client[c] \in ClientState
  BY <1>1
<1>8. ASSUME NEW c \in Client, NEW token \in BOOLEAN, Remote!Open(c, token) PROVE RemoteInv' /\ Usable
  <2>1. /\ client[c].at = "out" /\ client' = [client EXCEPT ![c].at = "asked", ![c].token = token]
        /\ UNCHANGED <<clone, memory, origin, slot, serving, made, died>>
    BY <1>8 DEF Remote!Open, Remote!At, Remote!sandbox
  <2> DEFINE With(q) == [[q EXCEPT !.at = "asked"] EXCEPT !.token = token]
  <2>2. \A q \in ClientState : With(q) \in ClientState /\ With(q).at = "asked" /\ With(q).wrote = q.wrote
    BY DEF ClientState, Remote!Asks
  <2>3. client' = [client EXCEPT ![c] = With(client[c])]
    BY <1>1, <2>1
  <2> HIDE DEF With
  <2>4. PICK r \in ClientState : r = With(client[c]) /\ r.at = "asked" /\ r.wrote = client[c].wrote
    BY <1>7, <2>2
  <2>5. CallFits(client[c]) => CallFits(r)'
    BY <2>1, <2>4 DEF CallFits, Remote!Asks
  <2>6. SandboxTyped'
    BY <1>1, <2>1 DEF SandboxTyped
  <2>7. RemoteInv' /\ client'[c] = r
    BY <2>3, <2>4, <2>5, <2>6, ClientChanges
  <2> QED
    BY <1>2, <2>4, <2>7
<1>9. ASSUME NEW c \in Client, NEW proxy \in Proxies, client[c].at \in {"asked", "popped"},
             client' = [client EXCEPT ![c].at = "url", ![c].proxy = proxy],
             SandboxTyped', UNCHANGED <<clone, memory, origin, died>>
      PROVE  RemoteInv' /\ Usable
  <2> DEFINE With(q) == [[q EXCEPT !.at = "url"] EXCEPT !.proxy = proxy]
  <2>1. \A q \in ClientState : With(q) \in ClientState /\ With(q).at = "url" /\ With(q).wrote = q.wrote
    BY DEF ClientState, Remote!Asks
  <2>2. client' = [client EXCEPT ![c] = With(client[c])]
    BY <1>1, <1>9
  <2> HIDE DEF With
  <2>3. PICK r \in ClientState : r = With(client[c]) /\ r.at = "url" /\ r.wrote = client[c].wrote
    BY <1>7, <2>1
  <2>4. CallFits(client[c]) => CallFits(r)'
    BY <1>9, <2>3 DEF CallFits, Remote!Asks
  <2>5. RemoteInv' /\ client'[c] = r
    BY <1>9, <2>2, <2>3, <2>4, ClientChanges
  <2> QED
    BY <1>2, <2>3, <2>5
<1>10. ASSUME NEW c \in Client, Remote!PopProxy(c) PROVE RemoteInv' /\ Usable
  <2>1. client[c].at = "asked" /\ UNCHANGED <<clone, memory, origin, made, died>>
    BY <1>10 DEF Remote!PopProxy, Remote!At
  <2>2. 0 \in Proxies
    BY DEF RemoteConstants, Proxies
  <2>3. SandboxTyped'
    BY <1>1, <1>10, <2>1, <2>2 DEF Remote!PopProxy, SandboxTyped
  <2>4. CASE client' = [client EXCEPT ![c].at = "url", ![c].proxy = 0]
    BY <1>9, <2>1, <2>2, <2>3, <2>4
  <2>5. CASE client' = [client EXCEPT ![c].at = "popped"]
    BY <1>6, <1>7, <2>1, <2>3, <2>5 DEF CallFits, Remote!Asks
  <2> QED
    BY <1>10, <2>4, <2>5 DEF Remote!PopProxy, Remote!GoesTo
<1>11. ASSUME NEW c \in Client, Remote!NewProxy(c) PROVE RemoteInv' /\ Usable
  <2>1. /\ client[c].at = "popped" /\ made < MaxProxies /\ made' = made + 1 /\ slot' = made'
        /\ serving' = serving \cup {made'} /\ client' = [client EXCEPT ![c].at = "url", ![c].proxy = made']
        /\ UNCHANGED <<clone, memory, origin, died>>
    BY <1>11 DEF Remote!NewProxy, Remote!At
  <2>2. made' \in Proxies
    BY <1>1, <2>1 DEF RemoteConstants, SandboxTyped, Proxies
  <2>3. SandboxTyped'
    BY <1>1, <2>1, <2>2 DEF SandboxTyped
  <2> QED
    BY <1>9, <2>1, <2>2, <2>3
<1>12. ASSUME NEW c \in Client, Remote!LooksCloned(c) PROVE RemoteInv' /\ Usable
  <2>1. client[c].at = "url" /\ UNCHANGED <<clone, memory, origin, slot, serving, made, died>>
    BY <1>12 DEF Remote!LooksCloned, Remote!At, Remote!sandbox
  <2>2. client' = [client EXCEPT ![c].at = "clone"] \/ client' = [client EXCEPT ![c].at = "repoint"]
    BY <1>12 DEF Remote!LooksCloned, Remote!GoesTo
  <2>3. SandboxTyped'
    BY <1>1, <2>1 DEF SandboxTyped
  <2> QED
    BY <1>6, <1>7, <2>1, <2>2, <2>3 DEF CallFits, Remote!Asks
<1>13. ASSUME NEW c \in Client, Remote!StartClone(c) PROVE RemoteInv' /\ Usable
  <2>1. client[c].at = "clone" /\ UNCHANGED <<memory, slot, serving, made, died>> /\ client[c].proxy \in Proxies
    BY <1>7, <1>13 DEF Remote!StartClone, Remote!At, ClientState
  <2>2. CASE clone' = "partial" /\ origin' = client[c].proxy /\ client' = [client EXCEPT ![c].at = "cloning"]
    <3>1. SandboxTyped'
      BY <1>1, <2>1, <2>2 DEF SandboxTyped
    <3> QED
      BY <1>6, <1>7, <2>1, <2>2, <3>1 DEF CallFits, Remote!Asks
  <2>3. CASE client' = [client EXCEPT ![c].at = "discard"] /\ UNCHANGED <<clone, origin>>
    <3>1. SandboxTyped'
      BY <1>1, <2>1, <2>3 DEF SandboxTyped
    <3> QED
      BY <1>6, <1>7, <2>1, <2>3, <3>1 DEF CallFits, Remote!Asks
  <2> QED
    BY <1>13, <2>2, <2>3 DEF Remote!StartClone, Remote!GoesTo
<1>14. ASSUME NEW c \in Client, Remote!Cloned(c) PROVE RemoteInv' /\ Usable
  <2>1. /\ client[c].at = "cloning" /\ clone' = "whole" /\ client' = [client EXCEPT ![c].at = "ready"]
        /\ Remote!Reaches(client[c].proxy) /\ UNCHANGED <<memory, origin, slot, serving, made, died>>
    BY <1>14 DEF Remote!Cloned, Remote!At, Remote!GoesTo
  <2>2. SandboxTyped'
    BY <1>1, <2>1 DEF SandboxTyped
  <2>3. origin' = client[c].proxy /\ ~client[c].wrote
    BY <1>7, <2>1 DEF CallFits, Remote!Asks
  <2> QED
    BY <1>6, <2>1, <2>2, <2>3 DEF Remote!Asks
<1>15. ASSUME NEW c \in Client, Remote!CloneFails(c) PROVE RemoteInv' /\ Usable
  <2>1. /\ client[c].at = "cloning" /\ client' = [client EXCEPT ![c].at = "discard"]
        /\ UNCHANGED <<clone, memory, origin, slot, serving, made, died>>
    BY <1>15 DEF Remote!CloneFails, Remote!At, Remote!GoesTo, Remote!sandbox
  <2>2. SandboxTyped'
    BY <1>1, <2>1 DEF SandboxTyped
  <2> QED
    BY <1>6, <1>7, <2>1, <2>2 DEF CallFits, Remote!Asks
<1>16. ASSUME NEW c \in Client, Remote!Discard(c) PROVE RemoteInv' /\ Usable
  <2>1. /\ clone' = "absent" /\ memory' = {} /\ origin' = 0 /\ client' = [client EXCEPT ![c] = Remote!Out]
        /\ UNCHANGED <<slot, serving, made, died>>
    BY <1>16 DEF Remote!Discard
  <2>2. 0 \in Proxies
    BY DEF RemoteConstants, Proxies
  <2>3. SandboxTyped'
    BY <1>1, <2>1, <2>2 DEF SandboxTyped
  <2> QED
    BY <1>5, <2>1, <2>3
<1>17. ASSUME NEW c \in Client, Remote!Repoint(c) PROVE RemoteInv' /\ Usable
  <2>1. /\ client[c].at = "repoint" /\ UNCHANGED <<clone, memory, slot, serving, made, died>>
        /\ client[c].proxy \in Proxies
    BY <1>7, <1>17 DEF Remote!Repoint, Remote!At, ClientState
  <2>2. clone = "partial" => died
    BY <1>7, <2>1 DEF CallFits
  <2>3. CASE client' = [client EXCEPT ![c] = Remote!Out] /\ UNCHANGED origin
    <3>1. SandboxTyped'
      BY <1>1, <2>1, <2>3 DEF SandboxTyped
    <3> QED
      BY <1>5, <2>1, <2>2, <2>3, <3>1
  <2>4. CASE origin' = client[c].proxy /\ client' = [client EXCEPT ![c].at = "fetch"]
    <3>1. SandboxTyped'
      BY <1>1, <2>1, <2>4 DEF SandboxTyped
    <3> QED
      BY <1>6, <1>7, <2>1, <2>2, <2>4, <3>1 DEF CallFits, Remote!Asks
  <2> QED
    BY <1>17, <2>3, <2>4 DEF Remote!Repoint, Remote!GoesTo
<1>18. ASSUME NEW c \in Client, Remote!Fetch(c) PROVE RemoteInv' /\ Usable
  <2>1. client[c].at = "fetch" /\ UNCHANGED <<clone, memory, origin, slot, serving, made, died>>
    BY <1>18 DEF Remote!Fetch, Remote!At, Remote!sandbox
  <2>2. (clone = "partial" => died) /\ origin = client[c].proxy /\ ~client[c].wrote
    BY <1>7, <2>1 DEF CallFits, Remote!Asks
  <2>3. SandboxTyped'
    BY <1>1, <2>1 DEF SandboxTyped
  <2>4. CASE clone # "absent" /\ Remote!Reaches(origin) /\ client' = [client EXCEPT ![c].at = "ready"]
    <3>1. clone' = "whole" \/ died'
      BY <1>1, <2>1, <2>2, <2>4 DEF SandboxTyped
    <3> QED
      BY <1>6, <2>1, <2>2, <2>3, <2>4, <3>1 DEF Remote!Asks
  <2>5. CASE client' = [client EXCEPT ![c] = Remote!Out]
    BY <1>5, <2>1, <2>2, <2>3, <2>5
  <2> QED
    BY <1>18, <2>4, <2>5 DEF Remote!Fetch, Remote!GoesTo
<1>19. ASSUME NEW c \in Client, Remote!List(c) PROVE RemoteInv' /\ Usable
  <2> DEFINE says == IF memory = {} THEN "no" ELSE "yes"
             With(q) == [q EXCEPT !.listed = says]
  <2>1. /\ client[c].at = "ready" /\ client' = [client EXCEPT ![c] = With(client[c])]
        /\ UNCHANGED <<clone, memory, origin, slot, serving, made, died>>
    BY <1>1, <1>19 DEF Remote!List, Remote!At, Remote!sandbox
  <2>2. \A q \in ClientState : /\ With(q) \in ClientState /\ With(q).at = q.at /\ With(q).wrote = q.wrote
                               /\ With(q).proxy = q.proxy /\ With(q).listed = says
    BY DEF ClientState
  <2> HIDE DEF With
  <2>3. PICK r \in ClientState : /\ r = With(client[c]) /\ r.at = "ready"
                                 /\ r.wrote = client[c].wrote /\ r.listed = says
    BY <1>7, <2>1, <2>2
  <2>4. SandboxTyped'
    BY <1>1, <2>1 DEF SandboxTyped
  <2>5. CallFits(client[c]) => CallFits(r)'
    BY <2>1, <2>3 DEF CallFits, Remote!Asks
  <2>6. RemoteInv' /\ client'[c] = r
    BY <2>1, <2>3, <2>4, <2>5, ClientChanges
  <2> QED
    BY <1>2, <2>1, <2>6 DEF Remote!Asks
\* The client reads before it writes: what it found is what it goes on from.
<1>20. ASSUME NEW c \in Client, NEW there \in {"read", "write"}, NEW old \in SUBSET RemoteNote,
              client[c].at \in {"ready", "read"},
              client' = [client EXCEPT ![c].at = there, ![c].old = old],
              UNCHANGED <<clone, memory, origin, slot, serving, made, died>>
       PROVE  RemoteInv' /\ Usable
  <2> DEFINE With(q) == [[q EXCEPT !.at = there] EXCEPT !.old = old]
  <2>1. client' = [client EXCEPT ![c] = With(client[c])]
    BY <1>1, <1>20
  <2>2. \A q \in ClientState : /\ With(q) \in ClientState /\ With(q).at = there /\ With(q).wrote = q.wrote
                               /\ With(q).listed = q.listed
    BY DEF ClientState
  <2> HIDE DEF With
  <2>3. PICK r \in ClientState : /\ r = With(client[c]) /\ r.at = there
                                 /\ r.wrote = client[c].wrote /\ r.listed = client[c].listed
    BY <1>7, <2>2
  <2>4. SandboxTyped'
    BY <1>1, <1>20 DEF SandboxTyped
  <2>5. CallFits(client[c]) => CallFits(r)'
    BY <1>20, <2>3 DEF CallFits, Remote!Asks
  <2>6. RemoteInv' /\ client'[c] = r
    BY <2>1, <2>3, <2>4, <2>5, ClientChanges
  <2> QED
    BY <1>2, <1>20, <2>3, <2>6
<1>21. ASSUME NEW c \in Client, Remote!IsFile(c) PROVE RemoteInv' /\ Usable
  <2>1. client[c].at = "ready" /\ UNCHANGED <<clone, memory, origin, slot, serving, made, died>>
    BY <1>21 DEF Remote!IsFile, Remote!At, Remote!sandbox
  <2>2. {} \in SUBSET RemoteNote
    OBVIOUS
  <2>3. CASE client' = [client EXCEPT ![c].at = "read", ![c].old = {}]
    BY <1>20, <2>1, <2>2, <2>3
  <2>4. CASE client' = [client EXCEPT ![c].at = "write", ![c].old = {}]
    BY <1>20, <2>1, <2>2, <2>4
  <2> QED
    BY <1>21, <2>3, <2>4 DEF Remote!IsFile
<1>22. ASSUME NEW c \in Client, Remote!Read(c) PROVE RemoteInv' /\ Usable
  <2>1. \A old \in {{}, memory} : old \in SUBSET RemoteNote
    BY <1>1 DEF SandboxTyped
  <2> QED
    BY <1>20, <1>22, <2>1 DEF Remote!Read, Remote!At, Remote!sandbox
\* A write leaves notes, and its listing is from before it no longer.
<1>23. ASSUME NEW c \in Client, NEW n \in RemoteNote, Remote!Write(c, n) PROVE RemoteInv' /\ Usable
  <2> DEFINE With(q) == [[[q EXCEPT !.at = "ready"] EXCEPT !.wrote = TRUE] EXCEPT !.listed = "unknown"]
  <2>1. /\ client[c].at = "write" /\ memory' = client[c].old \cup {n}
        /\ client' = [client EXCEPT ![c].at = "ready", ![c].wrote = TRUE, ![c].listed = "unknown"]
        /\ UNCHANGED <<clone, origin, slot, serving, made, died>>
    BY <1>23 DEF Remote!Write, Remote!At
  <2>2. client' = [client EXCEPT ![c] = With(client[c])]
    BY <1>1, <2>1
  <2>3. \A q \in ClientState : With(q) \in ClientState /\ With(q).at = "ready" /\ With(q).listed = "unknown"
    BY DEF ClientState
  <2> HIDE DEF With
  <2>4. PICK r \in ClientState : r = With(client[c]) /\ r.at = "ready" /\ r.listed = "unknown"
    BY <1>7, <2>3
  <2>5. memory' \subseteq RemoteNote /\ memory' # {}
    BY <1>7, <2>1 DEF ClientState
  <2>6. SandboxTyped'
    BY <1>1, <2>1, <2>5 DEF SandboxTyped
  <2>7. CallFits(client[c]) => CallFits(r)'
    BY <2>1, <2>4, <2>5 DEF CallFits, Remote!Asks
  <2>8. RemoteInv' /\ client'[c] = r
    BY <2>2, <2>4, <2>6, <2>7, ClientChanges
  <2> QED
    BY <1>2, <2>1, <2>8 DEF Remote!Asks
<1>24. ASSUME NEW c \in Client, Remote!WriteFails(c) PROVE RemoteInv' /\ Usable
  <2>1. /\ client[c].at = "write" /\ client' = [client EXCEPT ![c].at = "ready"]
        /\ UNCHANGED <<clone, memory, origin, slot, serving, made, died>>
    BY <1>24 DEF Remote!WriteFails, Remote!At, Remote!GoesTo, Remote!sandbox
  <2>2. SandboxTyped'
    BY <1>1, <2>1 DEF SandboxTyped
  <2> QED
    BY <1>6, <1>7, <2>1, <2>2 DEF CallFits, Remote!Asks
\* A command leaves notes, and no client moves.
<1>25. ASSUME NEW c \in Client, NEW n \in RemoteNote, Remote!Exec(c, n) PROVE RemoteInv' /\ Usable
  <2>1. memory' = memory \cup {n} /\ UNCHANGED <<clone, origin, slot, serving, made, client, died>>
    BY <1>25 DEF Remote!Exec
  <2>2. SandboxTyped' /\ memory' # {}
    BY <1>1, <2>1 DEF SandboxTyped
  <2>3. \A d \in Client : CallFits(client[d])'
    BY <1>1, <2>1, <2>2 DEF CallFits
  <2>4. RemoteInv'
    BY <1>1, <2>1, <2>2, <2>3 DEF RemoteInv
  <2>5. GoodFor(c)
    BY <2>1 DEF Remote!Asks
  <2> QED
    BY <1>2, <2>4, <2>5
<1>26. ASSUME NEW c \in Client, Remote!Close(c) PROVE RemoteInv' /\ Usable
  <2>1. /\ client[c].at = "ready" /\ client' = [client EXCEPT ![c] = Remote!Out]
        /\ UNCHANGED <<clone, memory, origin, slot, serving, made, died>>
    BY <1>26 DEF Remote!Close, Remote!At, Remote!sandbox
  <2>2. (clone = "partial" => died) /\ SandboxTyped'
    BY <1>1, <1>7, <2>1 DEF CallFits, SandboxTyped
  <2> QED
    BY <1>5, <2>1, <2>2
\* Whoever asked is told no; a clone that was being made stays unfinished.
<1>27. ASSUME Remote!Restart PROVE RemoteInv' /\ Usable
  <2>1. /\ slot' = 0 /\ serving' = {} /\ died' = (died \/ clone = "partial")
        /\ client' = [c \in Client |-> IF client[c].at \in Remote!Asks THEN Remote!Out ELSE client[c]]
        /\ UNCHANGED <<clone, memory, origin, made>>
    BY <1>27 DEF Remote!Restart
  <2>2. 0 \in Proxies
    BY DEF RemoteConstants, Proxies
  <2>3. SandboxTyped'
    BY <1>1, <2>1, <2>2 DEF SandboxTyped
  <2>4. \A c \in Client : client'[c] = IF client[c].at \in Remote!Asks THEN Remote!Out ELSE client[c]
    BY <2>1
  <2>5. client' \in [Client -> ClientState]
    BY <1>1, <1>3, <2>1
  <2>6. ASSUME NEW c \in Client PROVE CallFits(client[c])'
    <3>2. CASE client[c].at \in Remote!Asks
      BY <1>3, <2>1, <2>4, <3>2 DEF CallFits, Remote!Asks
    <3>3. CASE client[c].at \notin Remote!Asks
      BY <1>7, <2>1, <2>4, <3>3 DEF CallFits, Remote!Asks
    <3> QED
      BY <3>2, <3>3
  <2>7. RemoteInv'
    BY <2>3, <2>5, <2>6 DEF RemoteInv
  <2>8. Usable
    BY <1>3, <2>4 DEF Usable, Remote!Asks
  <2> QED
    BY <2>7, <2>8
<1>28. ASSUME UNCHANGED Remote!vars PROVE RemoteInv' /\ Usable
  <2>1. UNCHANGED <<clone, memory, origin, slot, serving, made, client, died>>
    BY <1>28 DEF Remote!vars, Remote!sandbox
  <2>2. RemoteInv'
    BY <1>1, <2>1 DEF RemoteInv, SandboxTyped, CallFits
  <2> QED
    BY <2>1, <2>2 DEF Usable, Remote!Asks
<1> QED
  BY <1>8, <1>10, <1>11, <1>12, <1>13, <1>14, <1>15, <1>16, <1>17, <1>18, <1>19, <1>21, <1>22, <1>23,
     <1>24, <1>25, <1>26, <1>27, <1>28 DEF Remote!Next

LEMMA RemoteInvHolds == RemoteConstants => (Remote!Spec => []RemoteInv)
<1> SUFFICES ASSUME RemoteConstants PROVE Remote!Spec => []RemoteInv
  OBVIOUS
<1>1. RemoteInv /\ [Remote!Next]_(Remote!vars) => RemoteInv'
  BY RemoteGoesOn
<1> QED
  BY <1>1, RemoteInitial, PTL DEF Remote!Spec

(***************************************************************************)
(* A repository that /clone has opened is a whole clone, whose origin is   *)
(* what this session was given and reachable, unless the sandbox died      *)
(* within the clone; and what a client has written it finds: no listing    *)
(* from before its write outlives it (_clone_repo() and remotews.py).      *)
(***************************************************************************)
THEOREM RemoteRepositoryIsUsable == RemoteConstants => (Remote!Spec => RemoteIsUsable)
<1> SUFFICES ASSUME RemoteConstants PROVE Remote!Spec => RemoteIsUsable
  OBVIOUS
<1> USE DEF Remote!OpenedIsUsable
<1>1. ASSUME RemoteInv, [Remote!Next]_(Remote!vars)
      PROVE  /\ RemoteInv'
             /\ [\A c \in Client : client[c].at \in Remote!Asks /\ client'[c].at = "ready"
                   => (clone' = "whole" \/ died') /\ origin' = client[c].proxy
                      /\ Remote!Reaches(client[c].proxy)]_(Remote!vars)
             /\ [Remote!WrittenIsListed']_remote
  <2>1. RemoteInv'
    BY <1>1, RemoteGoesOn
  <2>2. Remote!WrittenIsListed'
    BY <2>1 DEF RemoteInv, CallFits, Remote!WrittenIsListed
  <2> QED
    BY <1>1, <2>1, <2>2, RemoteGoesOn
<1> QED
  BY <1>1, RemoteInitial, PTL DEF RemoteIsUsable, Remote!Spec

-----------------------------------------------------------------------------
(***************************************************************************)
(* ProjectMemory.                                                          *)
(***************************************************************************)
LEMMA CardinalitiesAgree == \A S : Memory!Cardinality(S) = Cardinality(S)
BY DEF Memory!Cardinality, Cardinality

LEMMA ListsAll ==
  ASSUME NEW S, IsFiniteSet(S)
  PROVE  /\ Memory!SetToSeq(S) \in Seq(S)
         /\ \A s \in S : \E i \in 1..Len(Memory!SetToSeq(S)) : Memory!SetToSeq(S)[i] = s
<1> DEFINE n == Cardinality(S)
           L == Memory!SetToSeq(S)
<1>1. n \in Nat /\ ExistsBijection(1..n, S)
  BY FS_CardinalityType
<1>2. PICK b \in [1..n -> S] : b \in Bijection(1..n, S)
  BY <1>1 DEF ExistsBijection, Bijection, Injection
<1>3. \E f \in [1..n -> S] : Memory!IsInjective(f)
  BY <1>2 DEF Bijection, Injection, Memory!IsInjective, IsInjective
<1>4. L \in [1..n -> S] /\ Memory!IsInjective(L)
  BY <1>3, CardinalitiesAgree DEF Memory!SetToSeq
<1>5. L \in Injection(1..n, S)
  BY <1>4 DEF Injection, Memory!IsInjective, IsInjective
<1> HIDE DEF L
<1>6. L \in Surjection(1..n, S)
  <2>1. Cardinality(1..n) = n
    BY <1>1, FS_Interval
  <2> HIDE DEF n
  <2>2. Cardinality(1..n) = Cardinality(S) <=> L \in Surjection(1..n, S)
    BY <1>5, FS_Injection
  <2> QED
    BY <2>1, <2>2 DEF n
<1>7. L \in Seq(S) /\ Len(L) = n
  BY <1>1, <1>4
<1>8. \A s \in S : \E i \in 1..Len(L) : L[i] = s
  BY <1>6, <1>7 DEF Surjection
<1> QED
  BY <1>7, <1>8 DEF L


MemoryConstants == IsFiniteSet(Handwritten) /\ Handwritten \subseteq Note /\ Note # {}

MemoryPlaces == {"look", "refresh", "overlap", "insert", "render", "write"}

JobState ==
  [at : Memory!Places, op : {"none", "remember", "load"}, note : Note,
   ids : SUBSET (1..Len(records)), text : SUBSET Note]

\* What the user wrote is in the table.
Stored == Handwritten \subseteq Memory!Texts

\* What the call q has found still holds: it imports what the user wrote, it
\* is past the import only with that in the table, and what it is about to
\* supersede is what its note restates.
JobFits(q) ==
  /\ q.at = "import" => q.text = Handwritten
  /\ mirror.is = "hand" /\ q.at \in MemoryPlaces => Stored
  /\ q.at = "insert" => \A i \in q.ids : Memory!Alike(records[i].text, q.note)

FileFits ==
  mirror.is = "hand" => mirror.text = Handwritten /\ (records # <<>> => Stored)

MemoryInv ==
  /\ Memory!TypeOK /\ FileFits /\ Memory!SupersededByNewer
  /\ \A r \in Rememberer : JobFits(job[r])

LEMMA IdleFits ==
  MemoryConstants => Memory!Idle \in JobState /\ JobFits(Memory!Idle) /\ JobFits(Memory!Idle)'
<1> SUFFICES ASSUME MemoryConstants
             PROVE  Memory!Idle \in JobState /\ JobFits(Memory!Idle) /\ JobFits(Memory!Idle)'
  OBVIOUS
<1> DEFINE n == CHOOSE n \in Note : TRUE
<1>1. n \in Note
  BY DEF MemoryConstants
<1>2. Memory!Idle = [at |-> "idle", op |-> "none", note |-> n, ids |-> {}, text |-> {}]
  BY DEF Memory!Idle
<1> HIDE DEF n
<1>3. Memory!Idle.at = "idle"
  BY <1>2
<1>4. Memory!Idle \in JobState
  BY <1>1, <1>2 DEF JobState, Memory!Places
<1>5. (Memory!Idle)'.at = "idle"
  BY <1>3 DEF Memory!Idle
<1> QED
  BY <1>3, <1>4, <1>5 DEF JobFits, MemoryPlaces

LEMMA MemoryInitial == MemoryConstants /\ Memory!Init => MemoryInv
<1> SUFFICES ASSUME MemoryConstants, Memory!Init PROVE MemoryInv
  OBVIOUS
<1>1. records = <<>> /\ \A r \in Rememberer : job[r] = Memory!Idle
  BY DEF Memory!Init
<1>2. job \in [Rememberer -> JobState] /\ \A r \in Rememberer : JobFits(job[r])
  BY <1>1, IdleFits DEF Memory!Init
<1>3. mirror \in [is : {"none", "hand", "generated"}, text : SUBSET Note] /\ FileFits
  BY <1>1 DEF Memory!Init, Memory!Hand, MemoryConstants, FileFits
<1>4. records \in Seq([text : Note, by : 0..Len(records)])
  BY <1>1
<1>5. Memory!SupersededByNewer
  BY <1>1 DEF Memory!SupersededByNewer, Memory!Actives
<1> QED
  BY <1>2, <1>3, <1>4, <1>5 DEF MemoryInv, Memory!TypeOK, JobState


\* A step of one call that leaves the table and the file.
LEMMA JobMoves ==
  ASSUME MemoryInv, NEW r \in Rememberer, NEW q \in JobState, JobFits(q),
         job' = [job EXCEPT ![r] = q], UNCHANGED <<records, mirror>>
  PROVE  MemoryInv'
<1>1. Memory!TypeOK'
  BY DEF MemoryInv, Memory!TypeOK, JobState
<1>2. FileFits' /\ Memory!SupersededByNewer'
  BY DEF MemoryInv, FileFits, Stored, Memory!Texts, Memory!SupersededByNewer, Memory!Actives
<1>3. ASSUME NEW s \in Rememberer PROVE JobFits(job[s])'
  <2>1. job'[s] = IF s = r THEN q ELSE job[s]
    BY DEF MemoryInv, Memory!TypeOK
  <2>2. JobFits(job'[s])
    BY <2>1 DEF MemoryInv
  <2> QED
    BY <2>2 DEF JobFits, Stored, Memory!Texts
<1> QED
  BY <1>1, <1>2, <1>3 DEF MemoryInv

\* A call that ends, and may have replaced the file.
LEMMA CallEnds ==
  ASSUME MemoryConstants, MemoryInv, NEW r \in Rememberer, job' = [job EXCEPT ![r] = Memory!Idle],
         mirror' \in [is : {"none", "hand", "generated"}, text : SUBSET Note],
         mirror' = mirror \/ mirror'.is # "hand", UNCHANGED records
  PROVE  MemoryInv'
<1>1. Memory!TypeOK'
  BY IdleFits DEF MemoryInv, Memory!TypeOK, JobState
<1>2. FileFits' /\ Memory!SupersededByNewer'
  BY DEF MemoryInv, FileFits, Stored, Memory!Texts, Memory!SupersededByNewer, Memory!Actives
<1>3. ASSUME NEW s \in Rememberer PROVE JobFits(job[s])'
  <2>1. CASE s = r
    BY <2>1, IdleFits DEF MemoryInv, Memory!TypeOK, JobFits, MemoryPlaces, Memory!Idle
  <2>2. CASE s # r
    <3>1. job'[s] = job[s] /\ JobFits(job[s])
      BY <2>2 DEF MemoryInv, Memory!TypeOK
    <3> QED
      BY <3>1 DEF JobFits, Stored, Memory!Texts
  <2> QED
    BY <2>1, <2>2
<1> QED
  BY <1>1, <1>2, <1>3 DEF MemoryInv

\* A record has its text for good.
TextsStay == Len(records') >= Len(records) /\ \A i \in 1..Len(records) : records'[i].text = records[i].text

\* The table grows, and the call that made it goes on.
LEMMA TableGrows ==
  ASSUME MemoryInv, NEW r \in Rememberer, NEW there \in {"look", "show", "render"},
         job' = [job EXCEPT ![r].at = there], UNCHANGED mirror,
         records' \in Seq([text : Note, by : 0..Len(records')]), TextsStay, Memory!SupersededByNewer',
         mirror.is = "hand" => Stored'
  PROVE  MemoryInv'
<1>1. /\ records \in Seq([text : Note, by : 0..Len(records)]) /\ Len(records) \in Nat /\ Len(records') \in Nat
      /\ job \in [Rememberer -> JobState] /\ \A s \in Rememberer : job[s] \in JobState
  BY DEF MemoryInv, Memory!TypeOK, JobState
<1>2. \A s \in Rememberer : job'[s] = IF s = r THEN [job[s] EXCEPT !.at = there] ELSE job[s]
  BY <1>1
<1>3. Memory!TypeOK'
  <2>1. ASSUME NEW q \in JobState PROVE q \in JobState' /\ [q EXCEPT !.at = there] \in JobState'
    <3>1. q.ids \in SUBSET (1..Len(records'))
      BY <1>1 DEF JobState, TextsStay
    <3> QED
      BY <3>1 DEF JobState, Memory!Places
  <2>2. job' \in [Rememberer -> JobState']
    BY <1>1, <2>1
  <2> QED
    BY <2>2 DEF MemoryInv, Memory!TypeOK, JobState
<1>4. ASSUME NEW s \in Rememberer PROVE JobFits(job[s])'
  <2>1. CASE s = r
    BY <1>1, <1>2, <2>1 DEF JobFits, MemoryPlaces, JobState
  <2>2. CASE s # r
    <3>1. job'[s] = job[s] /\ JobFits(job[s]) /\ job[s].ids \subseteq 1..Len(records)
      BY <1>1, <1>2, <2>2 DEF MemoryInv, JobState
    <3>2. \A i \in job[s].ids : records'[i].text = records[i].text
      BY <3>1 DEF TextsStay
    <3> QED
      BY <3>1, <3>2 DEF JobFits, Memory!Alike
  <2> QED
    BY <2>1, <2>2
<1>5. FileFits'
  BY DEF MemoryInv, FileFits
<1> QED
  BY <1>3, <1>4, <1>5 DEF MemoryInv


\* A sequence by its elements; two sequences one after the other.
LEMMA ElementsOfSeq ==
  ASSUME NEW S, NEW s \in Seq(S), NEW T, \A i \in 1..Len(s) : s[i] \in T
  PROVE  s \in Seq(T)
<1>1. Len(s) \in Nat /\ s \in [1..Len(s) -> T]
  OBVIOUS
<1> QED
  BY <1>1

LEMMA Joined ==
  ASSUME NEW S, NEW s \in Seq(S), NEW t \in Seq(S)
  PROVE  /\ s \o t \in Seq(S) /\ Len(s) \in Nat /\ Len(t) \in Nat /\ Len(s \o t) = Len(s) + Len(t)
         /\ \A i \in 1..Len(s) : (s \o t)[i] = s[i]
         /\ \A i \in 1..Len(t) : (s \o t)[Len(s) + i] = t[i]
OBVIOUS

\* The rows of the table.
Row == [text : Note, by : Nat]

LEMMA RowsOfTable ==
  ASSUME NEW t
  PROVE  /\ t \in Seq([text : Note, by : 0..Len(t)]) <=>
              t \in Seq(Row) /\ \A i \in 1..Len(t) : t[i].by \in 0..Len(t)
         /\ t \in Seq(Row) => Len(t) \in Nat /\ DOMAIN t = 1..Len(t)
<1>1. ASSUME NEW n \in Nat PROVE [text : Note, by : 0..n] \subseteq Row
  BY <1>1 DEF Row
<1>2. ASSUME NEW n \in Nat, t \in Seq([text : Note, by : 0..n]), Len(t) = n
      PROVE  t \in Seq(Row) /\ \A i \in 1..n : t[i].by \in 0..n
  <2> DEFINE Small == [text : Note, by : 0..n]
  <2>a. t \in Seq(Small) /\ Len(t) = n
    BY <1>2
  <2> HIDE DEF Small
  <2>1. \A i \in 1..n : t[i] \in Small
    BY <2>a
  <2>2. \A i \in 1..n : t[i] \in Row /\ t[i].by \in 0..n
    BY <1>1, <2>1 DEF Small
  <2>3. t \in Seq(Row)
    BY <2>a, <2>2, ElementsOfSeq
  <2> QED
    BY <2>2, <2>3
<1>3. ASSUME NEW n \in Nat, t \in Seq(Row), Len(t) = n, \A i \in 1..n : t[i].by \in 0..n
      PROVE  t \in Seq([text : Note, by : 0..n])
  <2>1. \A i \in 1..n : t[i] \in Row
    BY <1>3
  <2>2. \A i \in 1..n : t[i] \in [text : Note, by : 0..n]
    BY <1>3, <2>1 DEF Row
  <2> QED
    BY <1>3, <2>2, ElementsOfSeq
<1>4. \A S : t \in Seq(S) => Len(t) \in Nat /\ DOMAIN t = 1..Len(t)
  OBVIOUS
<1> QED
  BY <1>2, <1>3, <1>4

\* What is imported is all that the user wrote; no record is superseded by it.
LEMMA ImportKeepsInv ==
  ASSUME MemoryConstants, MemoryInv, NEW r \in Rememberer, Memory!Import(r) PROVE MemoryInv'
<1> DEFINE lines == Memory!SetToSeq(Handwritten)
           new == [i \in DOMAIN lines |-> [text |-> lines[i], by |-> 0]]
<1>1. /\ records \in Seq(Row) /\ Len(records) \in Nat
      /\ \A i \in 1..Len(records) : records[i].by \in 0..Len(records)
      /\ DOMAIN records = 1..Len(records) /\ job[r] \in JobState /\ Memory!SupersededByNewer
  BY RowsOfTable DEF MemoryInv, Memory!TypeOK, JobState
<1>2. job[r].at = "import" /\ job[r].text = Handwritten
  BY DEF Memory!Import, Memory!At, MemoryInv, JobFits
<1>3. /\ records' = records \o new /\ UNCHANGED mirror
      /\ job' = [job EXCEPT ![r].at = IF job[r].op = "load" THEN "show" ELSE "look"]
  BY <1>2 DEF Memory!Import, Memory!GoesTo, Memory!Imported
<1>4. /\ lines \in Seq(Handwritten) /\ Len(lines) \in Nat
      /\ \A s \in Handwritten : \E i \in 1..Len(lines) : lines[i] = s
  BY ListsAll DEF MemoryConstants
<1> HIDE DEF lines
<1>5. new \in Seq(Row) /\ Len(new) = Len(lines)
  <2>1. new \in [1..Len(lines) -> Row]
    <3>1. DOMAIN lines = 1..Len(lines) /\ \A i \in 1..Len(lines) : lines[i] \in Note
      BY <1>4 DEF MemoryConstants
    <3> QED
      BY <3>1 DEF Row
  <2> QED
    BY <1>4, <2>1
<1>6. \A i \in 1..Len(lines) : new[i] = [text |-> lines[i], by |-> 0]
  BY <1>4
<1> HIDE DEF new
<1>7. /\ records' \in Seq(Row) /\ Len(records') = Len(records) + Len(lines)
      /\ \A i \in 1..Len(records) : records'[i] = records[i]
      /\ \A i \in 1..Len(lines) : records'[Len(records) + i] = [text |-> lines[i], by |-> 0]
  <2>1. /\ records \o new \in Seq(Row) /\ Len(records \o new) = Len(records) + Len(new)
        /\ \A i \in 1..Len(records) : (records \o new)[i] = records[i]
        /\ \A i \in 1..Len(new) : (records \o new)[Len(records) + i] = new[i]
    <3>1. records \in Seq(Row) /\ new \in Seq(Row)
      BY <1>1, <1>5
    <3> QED
      BY <3>1, Joined
  <2> QED
    BY <1>3, <1>5, <1>6, <2>1
<1>8. /\ DOMAIN records' = 1..Len(records')
      /\ records' \in Seq([text : Note, by : 0..Len(records')])
  <2>1. ASSUME NEW i \in 1..Len(records') PROVE records'[i].by \in 0..Len(records')
    <3>1. CASE i \in 1..Len(records)
      BY <1>1, <1>4, <1>7, <3>1
    <3>2. CASE i \notin 1..Len(records)
      <4>1. i - Len(records) \in 1..Len(lines) /\ Len(records) + (i - Len(records)) = i
        BY <1>1, <1>4, <1>7, <3>2
      <4>2. records'[i] = [text |-> lines[i - Len(records)], by |-> 0]
        BY <1>7, <4>1
      <4>3. Len(records') \in Nat
        BY <1>1, <1>4, <1>7
      <4> QED
        BY <4>2, <4>3
    <3> QED
      BY <3>1, <3>2
  <2> QED
    BY <1>7, <2>1, RowsOfTable
<1>9. TextsStay
  BY <1>1, <1>4, <1>7 DEF TextsStay
<1>10. Stored'
  <2>1. ASSUME NEW s \in Handwritten PROVE \E j \in DOMAIN records' : s = records'[j].text
    <3>1. PICK i \in 1..Len(lines) : lines[i] = s
      BY <1>4
    <3>2. Len(records) + i \in DOMAIN records'
      BY <1>1, <1>4, <1>7, <1>8
    <3>3. records'[Len(records) + i] = [text |-> s, by |-> 0]
      BY <1>7, <3>1
    <3>4. records'[Len(records) + i].text = s
      BY <3>3
    <3> QED
      BY <3>2, <3>4
  <2> QED
    BY <2>1 DEF Stored, Memory!Texts
<1>11. Memory!SupersededByNewer'
  <2>1. ASSUME NEW i \in 1..Len(records'), records'[i].by # 0
        PROVE  records'[i].by > i /\ Memory!Alike(records'[i].text, records'[records'[i].by].text)
    <3>1. i \in 1..Len(records)
      <4>1. CASE i > Len(records)
        <5>1. i - Len(records) \in 1..Len(lines) /\ Len(records) + (i - Len(records)) = i
          BY <1>1, <1>4, <1>7, <4>1
        <5>2. records'[i] = [text |-> lines[i - Len(records)], by |-> 0]
          BY <1>7, <5>1
        <5> QED
          BY <2>1, <5>2
      <4> QED
        BY <1>1, <1>4, <4>1
    <3>2. records'[i] = records[i] /\ records[i].by \in 0..Len(records)
      BY <1>1, <1>7, <3>1
    <3>3. records[i].by > i /\ Memory!Alike(records[i].text, records[records[i].by].text)
      BY <1>1, <2>1, <3>1, <3>2 DEF Memory!SupersededByNewer, Memory!Actives
    <3>4. records[i].by \in 1..Len(records)
      BY <1>1, <2>1, <3>2
    <3> QED
      BY <1>7, <3>2, <3>3, <3>4
  <2>2. DOMAIN records' = 1..Len(records')
    BY <1>8
  <2> QED
    BY <2>1, <2>2 DEF Memory!SupersededByNewer, Memory!Actives
<1>12. CASE job[r].op = "load"
  BY <1>3, <1>8, <1>9, <1>10, <1>11, <1>12, TableGrows
<1>13. CASE job[r].op # "load"
  BY <1>3, <1>8, <1>9, <1>10, <1>11, <1>13, TableGrows
<1> QED
  BY <1>12, <1>13

\* A note supersedes what it restates, and comes after it.
LEMMA InsertKeepsInv ==
  ASSUME MemoryConstants, MemoryInv, NEW r \in Rememberer, Memory!Insert(r) PROVE MemoryInv'
<1> DEFINE new == Len(records) + 1
           note == job[r].note
           marked == [i \in DOMAIN records |->
                        IF i \in job[r].ids THEN [records[i] EXCEPT !.by = new] ELSE records[i]]
           added == [text |-> note, by |-> 0]
<1>1. /\ records \in Seq(Row) /\ Len(records) \in Nat
      /\ \A i \in 1..Len(records) : records[i].by \in 0..Len(records)
      /\ DOMAIN records = 1..Len(records) /\ job[r] \in JobState /\ Memory!SupersededByNewer
  BY RowsOfTable DEF MemoryInv, Memory!TypeOK, JobState
<1>2. /\ job[r].at = "insert" /\ note \in Note /\ job[r].ids \subseteq 1..Len(records)
      /\ \A i \in job[r].ids : Memory!Alike(records[i].text, note)
  BY <1>1 DEF Memory!Insert, Memory!At, MemoryInv, JobFits, JobState
<1>3. /\ records' = Append(marked, added) /\ UNCHANGED mirror
      /\ job' = [job EXCEPT ![r].at = "render"]
  BY <1>2 DEF Memory!Insert, Memory!GoesTo
<1>4. marked \in Seq(Row) /\ Len(marked) = Len(records)
  <2>1. \A q \in Row : [q EXCEPT !.by = new] \in Row
    BY <1>1 DEF Row
  <2>2. marked \in [1..Len(records) -> Row]
    BY <1>1, <2>1
  <2> QED
    BY <1>1, <2>2
<1>5. \A i \in 1..Len(records) :
        /\ marked[i].text = records[i].text
        /\ marked[i].by = IF i \in job[r].ids THEN new ELSE records[i].by
  <2>1. \A i \in 1..Len(records) : records[i] \in Row
    BY <1>1
  <2> QED
    BY <1>1, <2>1 DEF Row
<1> HIDE DEF marked
<1>6. /\ records' \in Seq(Row) /\ Len(records') = new
      /\ \A i \in 1..Len(records) : records'[i] = marked[i]
      /\ records'[new] = added
  <2>1. added \in Row
    BY <1>2 DEF Row
  <2> HIDE DEF added
  <2> QED
    BY <1>1, <1>3, <1>4, <2>1
<1>7. /\ DOMAIN records' = 1..Len(records')
      /\ records' \in Seq([text : Note, by : 0..Len(records')])
  <2>1. ASSUME NEW i \in 1..Len(records') PROVE records'[i].by \in 0..Len(records')
    <3>1. CASE i \in 1..Len(records)
      BY <1>1, <1>5, <1>6, <3>1
    <3>2. CASE i = new
      BY <1>1, <1>6, <3>2
    <3> QED
      BY <1>1, <1>6, <3>1, <3>2
  <2> QED
    BY <1>6, <2>1, RowsOfTable
<1>8. TextsStay
  BY <1>1, <1>5, <1>6 DEF TextsStay
<1>9. mirror.is = "hand" => Stored'
  <2>1. SUFFICES ASSUME mirror.is = "hand" PROVE Stored'
    OBVIOUS
  <2>2. Stored
    BY <1>2, <2>1 DEF MemoryInv, JobFits, MemoryPlaces
  <2>3. DOMAIN records = 1..Len(records) /\ DOMAIN records' = 1..Len(records')
    BY <1>1, <1>7
  <2>4. \A i \in DOMAIN records : i \in DOMAIN records' /\ records'[i].text = records[i].text
    BY <1>1, <1>5, <1>6, <2>3
  <2> QED
    BY <2>2, <2>4 DEF Stored, Memory!Texts
<1>10. Memory!SupersededByNewer'
  <2>1. ASSUME NEW i \in 1..Len(records'), records'[i].by # 0
        PROVE  records'[i].by > i /\ Memory!Alike(records'[i].text, records'[records'[i].by].text)
    <3>1. i \in 1..Len(records)
      BY <1>1, <1>6, <2>1
    <3>2. CASE i \in job[r].ids
      BY <1>1, <1>2, <1>5, <1>6, <3>1, <3>2
    <3>3. CASE i \notin job[r].ids
      <4>1. records'[i].by = records[i].by /\ records[i].by \in 0..Len(records) /\ records'[i].text = records[i].text
        BY <1>1, <1>5, <1>6, <3>1, <3>3
      <4>2. records[i].by > i /\ Memory!Alike(records[i].text, records[records[i].by].text)
        BY <1>1, <2>1, <3>1, <4>1 DEF Memory!SupersededByNewer, Memory!Actives
      <4>3. records[i].by \in 1..Len(records)
        BY <1>1, <2>1, <4>1
      <4>4. records'[records[i].by].text = records[records[i].by].text
        BY <1>5, <1>6, <4>3
      <4> QED
        BY <4>1, <4>2, <4>4
    <3> QED
      BY <3>2, <3>3
  <2>2. DOMAIN records' = 1..Len(records')
    BY <1>7
  <2> QED
    BY <2>1, <2>2 DEF Memory!SupersededByNewer, Memory!Actives
<1> QED
  BY <1>3, <1>7, <1>8, <1>9, <1>10, TableGrows


\* Every step of a call keeps it, and the file is replaced only when what the
\* user wrote is in the table.
LEMMA MemoryGoesOn == MemoryConstants /\ MemoryInv /\ [Memory!Next]_(Memory!vars) =>
  MemoryInv' /\ (mirror.is = "hand" /\ mirror'.is # "hand" => Stored)
<1> SUFFICES ASSUME MemoryConstants, MemoryInv, [Memory!Next]_(Memory!vars)
             PROVE  MemoryInv' /\ (mirror.is = "hand" /\ mirror'.is # "hand" => Stored)
  OBVIOUS
<1> DEFINE Goal == MemoryInv' /\ (mirror.is = "hand" /\ mirror'.is # "hand" => Stored)
           Moves(q, there) == [q EXCEPT !.at = there]
<1>1. /\ job \in [Rememberer -> JobState] /\ FileFits /\ Memory!TypeOK
      /\ \A r \in Rememberer : job[r] \in JobState /\ JobFits(job[r])
  BY DEF MemoryInv, Memory!TypeOK, JobState
<1>2. \A q \in JobState, there \in Memory!Places :
        /\ Moves(q, there) \in JobState /\ Moves(q, there).at = there
        /\ Moves(q, there).text = q.text /\ Moves(q, there).ids = q.ids /\ Moves(q, there).note = q.note
  BY DEF JobState
<1> HIDE DEF Moves
<1>3. ASSUME NEW r \in Rememberer, NEW q \in JobState, JobFits(q),
             job' = [job EXCEPT ![r] = q], UNCHANGED <<records, mirror>>
      PROVE  Goal
  BY <1>3, JobMoves
\* A call that only goes on: not to import nor to insert.
<1>4. ASSUME NEW r \in Rememberer, NEW there \in Memory!Places \ {"import", "insert"},
             job' = [job EXCEPT ![r].at = there], UNCHANGED <<records, mirror>>,
             mirror.is = "hand" /\ there \in MemoryPlaces => Stored
      PROVE  Goal
  <2>1. PICK q \in JobState : q = Moves(job[r], there) /\ q.at = there
    BY <1>1, <1>2
  <2>2. job' = [job EXCEPT ![r] = q]
    BY <1>4, <2>1 DEF Moves
  <2>3. JobFits(q)
    BY <1>4, <2>1 DEF JobFits
  <2> QED
    BY <1>3, <1>4, <2>2, <2>3
<1>5. ASSUME NEW r \in Rememberer, job[r].at \in MemoryPlaces PROVE mirror.is = "hand" => Stored
  BY <1>1, <1>5 DEF JobFits
<1>6. Memory!Places = {"idle", "count", "read", "import", "show"} \cup MemoryPlaces
  BY DEF Memory!Places, MemoryPlaces
<1>7. ASSUME NEW r \in Rememberer, NEW n \in Note, Memory!Remember(r, n) PROVE Goal
  <2> DEFINE With(q) == [[[q EXCEPT !.at = "count"] EXCEPT !.op = "remember"] EXCEPT !.note = n]
  <2>1. \A q \in JobState : With(q) \in JobState /\ With(q).at = "count"
    BY DEF JobState, Memory!Places
  <2>2. Memory!Idle \in JobState
    BY IdleFits
  <2>3. job' = [job EXCEPT ![r] = With(Memory!Idle)] /\ UNCHANGED <<records, mirror>>
    BY <1>7, <2>2 DEF Memory!Remember, JobState
  <2> HIDE DEF With
  <2>4. PICK q \in JobState : q = With(Memory!Idle) /\ q.at = "count"
    BY <2>1, <2>2
  <2> QED
    BY <1>3, <2>3, <2>4 DEF JobFits, MemoryPlaces
<1>8. ASSUME NEW r \in Rememberer, Memory!Load(r) PROVE Goal
  <2> DEFINE With(q) == [[q EXCEPT !.at = "count"] EXCEPT !.op = "load"]
  <2>1. \A q \in JobState : With(q) \in JobState /\ With(q).at = "count"
    BY DEF JobState, Memory!Places
  <2>2. Memory!Idle \in JobState
    BY IdleFits
  <2>3. job' = [job EXCEPT ![r] = With(Memory!Idle)] /\ UNCHANGED <<records, mirror>>
    BY <1>8, <2>2 DEF Memory!Load, JobState
  <2> HIDE DEF With
  <2>4. PICK q \in JobState : q = With(Memory!Idle) /\ q.at = "count"
    BY <2>1, <2>2
  <2> QED
    BY <1>3, <2>3, <2>4 DEF JobFits, MemoryPlaces
\* A table that is not empty has what the user wrote.
<1>9. ASSUME NEW r \in Rememberer, Memory!Count(r) PROVE Goal
  <2>1. UNCHANGED <<records, mirror>>
    BY <1>9 DEF Memory!Count
  <2>2. CASE records = <<>> /\ job' = [job EXCEPT ![r].at = "read"]
    BY <1>4, <1>6, <2>1, <2>2 DEF MemoryPlaces
  <2>3. CASE records # <<>> /\ job' = [job EXCEPT ![r].at = "show"]
    BY <1>4, <1>6, <2>1, <2>3 DEF MemoryPlaces
  <2>4. CASE records # <<>> /\ job' = [job EXCEPT ![r].at = "look"]
    BY <1>1, <1>4, <1>6, <2>1, <2>4 DEF MemoryPlaces, FileFits
  <2> QED
    BY <1>9, <2>2, <2>3, <2>4 DEF Memory!Count, Memory!GoesTo, Memory!Imported
<1>10. ASSUME NEW r \in Rememberer, Memory!ReadLegacy(r) PROVE Goal
  <2>1. UNCHANGED <<records, mirror>>
    BY <1>10 DEF Memory!ReadLegacy
  <2>2. CASE mirror.is = "hand" /\ job' = [job EXCEPT ![r].at = "import", ![r].text = mirror.text]
    <3> DEFINE With(q) == [[q EXCEPT !.at = "import"] EXCEPT !.text = mirror.text]
    <3>1. mirror.text \in SUBSET Note /\ mirror.text = Handwritten
      BY <1>1, <2>2 DEF Memory!TypeOK, FileFits
    <3>2. \A q \in JobState : With(q) \in JobState /\ With(q).at = "import" /\ With(q).text = Handwritten
      BY <3>1 DEF JobState, Memory!Places
    <3>3. job' = [job EXCEPT ![r] = With(job[r])]
      BY <1>1, <2>2
    <3> HIDE DEF With
    <3>4. PICK q \in JobState : q = With(job[r]) /\ q.at = "import" /\ q.text = Handwritten
      BY <1>1, <3>2
    <3> QED
      BY <1>3, <2>1, <3>3, <3>4 DEF JobFits, MemoryPlaces
  <2>3. CASE mirror.is # "hand" /\ job' = [job EXCEPT ![r].at = "show"]
    BY <1>4, <1>6, <2>1, <2>3
  <2>4. CASE mirror.is # "hand" /\ job' = [job EXCEPT ![r].at = "look"]
    BY <1>4, <1>6, <2>1, <2>4 DEF MemoryPlaces
  <2> QED
    BY <1>10, <2>2, <2>3, <2>4 DEF Memory!ReadLegacy, Memory!GoesTo, Memory!Imported
<1>11. ASSUME NEW r \in Rememberer, Memory!Import(r) PROVE Goal
  BY <1>11, ImportKeepsInv DEF Memory!Import
<1>12. ASSUME NEW r \in Rememberer, Memory!Insert(r) PROVE Goal
  BY <1>12, InsertKeepsInv DEF Memory!Insert
<1>13. ASSUME NEW r \in Rememberer, Memory!Show(r) PROVE Goal
  <2>1. job' = [job EXCEPT ![r] = Memory!Idle] /\ UNCHANGED <<records, mirror>>
    BY <1>13 DEF Memory!Show
  <2> QED
    BY <2>1, <1>1, CallEnds DEF Memory!TypeOK
<1>14. ASSUME NEW r \in Rememberer, Memory!Look(r) PROVE Goal
  <2>1. UNCHANGED <<records, mirror>> /\ job[r].at \in MemoryPlaces
    BY <1>14 DEF Memory!Look, Memory!At, MemoryPlaces
  <2>2. job' = [job EXCEPT ![r].at = "refresh"] \/ job' = [job EXCEPT ![r].at = "overlap"]
    BY <1>14 DEF Memory!Look, Memory!GoesTo
  <2> QED
    BY <1>4, <1>5, <1>6, <2>1, <2>2 DEF MemoryPlaces
<1>15. ASSUME NEW r \in Rememberer, Memory!Refresh(r) PROVE Goal
  <2>1. /\ UNCHANGED <<records, mirror>> /\ job[r].at \in MemoryPlaces
        /\ job' = [job EXCEPT ![r].at = "render"]
    BY <1>15 DEF Memory!Refresh, Memory!At, Memory!GoesTo, MemoryPlaces
  <2> QED
    BY <1>4, <1>5, <1>6, <2>1 DEF MemoryPlaces
\* What it is about to supersede is of what it has read.
<1>16. ASSUME NEW r \in Rememberer, Memory!Overlap(r) PROVE Goal
  <2> DEFINE ids == {i \in Memory!Actives : Memory!Alike(records[i].text, job[r].note)}
             With(q) == [[q EXCEPT !.at = "insert"] EXCEPT !.ids = ids]
  <2>1. /\ UNCHANGED <<records, mirror>> /\ job[r].at \in MemoryPlaces
        /\ job' = [job EXCEPT ![r] = With(job[r])]
    BY <1>1, <1>16 DEF Memory!Overlap, Memory!At, MemoryPlaces
  <2>2. ids \in SUBSET (1..Len(records)) /\ \A i \in ids : Memory!Alike(records[i].text, job[r].note)
    BY <1>1 DEF Memory!TypeOK, Memory!Actives
  <2> HIDE DEF ids
  <2>3. \A q \in JobState : /\ With(q) \in JobState /\ With(q).at = "insert"
                            /\ With(q).ids = ids /\ With(q).note = q.note
    BY <2>2 DEF JobState, Memory!Places
  <2> HIDE DEF With
  <2>4. PICK q \in JobState : q = With(job[r]) /\ q.at = "insert" /\ q.ids = ids /\ q.note = job[r].note
    BY <1>1, <2>3
  <2>5. JobFits(q)
    BY <1>5, <2>1, <2>2, <2>4 DEF JobFits
  <2> QED
    BY <1>3, <2>1, <2>4, <2>5
<1>17. ASSUME NEW r \in Rememberer, Memory!Render(r) PROVE Goal
  <2> DEFINE With(q) == [[q EXCEPT !.at = "write"] EXCEPT !.text = Memory!Rendered]
  <2>1. /\ UNCHANGED <<records, mirror>> /\ job[r].at \in MemoryPlaces
        /\ job' = [job EXCEPT ![r] = With(job[r])]
    BY <1>1, <1>17 DEF Memory!Render, Memory!At, MemoryPlaces
  <2>2. Memory!Rendered \in SUBSET Note
    <3>1. records \in Seq(Row) /\ DOMAIN records = 1..Len(records)
      BY <1>1, RowsOfTable DEF Memory!TypeOK
    <3>2. \A i \in DOMAIN records : records[i] \in Row
      BY <3>1
    <3>3. \A q \in Row : q.text \in Note
      BY DEF Row
    <3> QED
      BY <3>2, <3>3 DEF Memory!Rendered, Memory!Actives
  <2>3. \A q \in JobState : With(q) \in JobState /\ With(q).at = "write"
    BY <2>2 DEF JobState, Memory!Places
  <2> HIDE DEF With
  <2>4. PICK q \in JobState : q = With(job[r]) /\ q.at = "write"
    BY <1>1, <2>3
  <2>5. JobFits(q)
    BY <1>5, <2>1, <2>4 DEF JobFits
  <2> QED
    BY <1>3, <2>1, <2>4, <2>5
\* The mirror takes the place of the file.
<1>18. ASSUME NEW r \in Rememberer, NEW text \in SUBSET Note, job[r].at \in MemoryPlaces,
              mirror' \in {mirror, [is |-> "generated", text |-> text]},
              job' = [job EXCEPT ![r] = Memory!Idle], UNCHANGED records
       PROVE  Goal
  <2>1. /\ mirror' \in [is : {"none", "hand", "generated"}, text : SUBSET Note]
        /\ mirror' = mirror \/ mirror'.is # "hand"
    BY <1>1, <1>18 DEF Memory!TypeOK
  <2>2. MemoryInv'
    BY <1>18, <2>1, CallEnds
  <2> QED
    BY <1>5, <1>18, <2>2
<1>19. ASSUME NEW r \in Rememberer, Memory!WriteMirror(r) PROVE Goal
  <2>1. job[r].at \in MemoryPlaces /\ job[r].text \in SUBSET Note
    BY <1>1, <1>19 DEF Memory!WriteMirror, Memory!At, MemoryPlaces, JobState
  <2> QED
    BY <1>18, <1>19, <2>1 DEF Memory!WriteMirror
<1>20. ASSUME NEW r \in Rememberer, Memory!Crash(r) PROVE Goal
  <2>1. job' = [job EXCEPT ![r] = Memory!Idle] /\ UNCHANGED records
    BY <1>20 DEF Memory!Crash
  <2>2. CASE job[r].at = "write"
    <3>1. mirror' \in {mirror, [is |-> "generated", text |-> {}]} /\ job[r].at \in MemoryPlaces
      BY <1>20, <2>2 DEF Memory!Crash, Memory!At, MemoryPlaces
    <3>2. {} \in SUBSET Note
      OBVIOUS
    <3> QED
      BY <1>18, <2>1, <3>1, <3>2
  <2>3. CASE job[r].at # "write"
    <3>1. mirror' = mirror
      BY <1>20, <2>3 DEF Memory!Crash, Memory!At
    <3> QED
      BY <1>1, <2>1, <3>1, CallEnds DEF Memory!TypeOK
  <2> QED
    BY <2>2, <2>3
<1>21. ASSUME UNCHANGED Memory!vars PROVE Goal
  <2>1. UNCHANGED <<records, mirror, job>>
    BY <1>21 DEF Memory!vars
  <2> QED
    BY <2>1 DEF MemoryInv, Memory!TypeOK, FileFits, Stored, Memory!Texts, Memory!SupersededByNewer,
                Memory!Actives, JobFits
<1> HIDE DEF Goal
<1>22. Goal
  BY <1>7, <1>8, <1>9, <1>10, <1>11, <1>12, <1>13, <1>14, <1>15, <1>16, <1>17, <1>19, <1>20, <1>21
  DEF Memory!Next
<1> QED
  BY <1>22 DEF Goal

LEMMA MemoryInvHolds == MemoryConstants => (Memory!Spec => []MemoryInv)
<1> SUFFICES ASSUME MemoryConstants PROVE Memory!Spec => []MemoryInv
  OBVIOUS
<1>1. MemoryInv /\ [Memory!Next]_(Memory!vars) => MemoryInv'
  BY MemoryGoesOn
<1> QED
  BY <1>1, MemoryInitial, PTL DEF Memory!Spec

(***************************************************************************)
(* However many sessions and processes remember and load at once, and      *)
(* wherever they are killed: what the user had written by hand is in the   *)
(* table before the mirror replaces the file, and a note goes silent only  *)
(* for a later one that restates it (_import_legacy(), _write_mirror() and *)
(* remember() of memory.py).                                               *)
(***************************************************************************)
THEOREM NotesAreKept == MemoryConstants => (Memory!Spec => NoNoteIsLost)
<1> SUFFICES ASSUME MemoryConstants PROVE Memory!Spec => NoNoteIsLost
  OBVIOUS
<1>1. ASSUME MemoryInv, [Memory!Next]_(Memory!vars)
      PROVE  /\ MemoryInv'
             /\ [mirror.is = "hand" /\ mirror'.is # "hand" => Handwritten \subseteq Memory!Texts]_(Memory!vars)
             /\ [Memory!SupersededByNewer']_notes
  BY <1>1, MemoryGoesOn DEF MemoryInv, Stored
<1> QED
  BY <1>1, MemoryInitial, PTL DEF NoNoteIsLost, Memory!HandwrittenIsKept, Memory!Spec

-----------------------------------------------------------------------------
(***************************************************************************)
(* The parts beside one another.  Each does its own steps, whichever runs, *)
(* so what is proved of a part holds of all.                               *)
(***************************************************************************)
\* What a resync works with is commits of the work there is.
LEMMA SyncIsTyped == Sync!TypeOK /\ [Sync!Next]_(Sync!vars) => Sync!TypeOK'
<1> SUFFICES ASSUME Sync!TypeOK, [Sync!Next]_(Sync!vars) PROVE Sync!TypeOK'
  OBVIOUS
<1>1. /\ branch \in Sync!Commits /\ upstream \in Sync!Commits /\ trunk \in Sync!Commits
      /\ seenUp \in Sync!Commits /\ seenBase \in Sync!Commits /\ dirty \subseteq Work
  BY DEF Sync!TypeOK
<1>2. /\ \A c \in Sync!Commits, w \in Work : c \cup {{w}} \in Sync!Commits
      /\ \A c, d \in Sync!Commits : c \cup d \in Sync!Commits
      /\ \A d \in SUBSET Work : {{w} : w \in d} \in Sync!Commits
      /\ \A c, d \in Sync!Commits : Sync!Tree(d) # {} => c \cup {Sync!Tree(d)} \in Sync!Commits
  BY DEF Sync!Commits, Sync!Tree
<1> USE DEF Sync!TypeOK
<1>3. ASSUME NEW w \in Work, Sync!Edit(w) \/ Sync!ColleaguePushes(w) PROVE Sync!TypeOK'
  <2>1. CASE Sync!Edit(w)
    BY <1>1, <2>1 DEF Sync!Edit
  <2>2. CASE Sync!ColleaguePushes(w)
    <3>1. upstream \cup {{w}} \in Sync!Commits /\ trunk \cup {{w}} \in Sync!Commits
      BY <1>1, <1>2
    <3>2. upstream' \in Sync!Commits /\ trunk' \in Sync!Commits
      BY <1>1, <2>2, <3>1 DEF Sync!ColleaguePushes
    <3> QED
      BY <1>1, <2>2, <3>2 DEF Sync!ColleaguePushes
  <2> QED
    BY <1>3, <2>1, <2>2
<1>4. CASE Sync!Commit
  <2>1. branch' \in Sync!Commits
    BY <1>1, <1>2, <1>4 DEF Sync!Commit
  <2> QED
    BY <1>1, <1>4, <2>1 DEF Sync!Commit
<1>5. CASE Sync!ResolveMerge \/ Sync!Push
  BY <1>1, <1>2, <1>5 DEF Sync!ResolveMerge, Sync!Push
<1>6. CASE Sync!SquashMerge
  <2>1. trunk' \in Sync!Commits
    BY <1>1, <1>2, <1>6 DEF Sync!SquashMerge
  <2> QED
    BY <1>1, <1>6, <2>1 DEF Sync!SquashMerge
<1>7. CASE Sync!Fetch
  BY <1>7 DEF Sync!Fetch, Sync!Asked
<1>8. CASE Sync!Survey
  <2>1. Sync!Recommendation \in {"none", "push", "restart", "fast-forward", "merge"}
    BY DEF Sync!Recommendation
  <2>2. PICK known \in BOOLEAN :
          survey' = [action |-> Sync!Recommendation, dirty |-> known /\ (dirty # {} \/ merging), branch |-> branch]
    BY <1>8 DEF Sync!Survey
  <2>3. /\ survey'.action = Sync!Recommendation /\ survey'.dirty \in BOOLEAN /\ survey'.branch = branch
        /\ phase' = "surveyed" /\ UNCHANGED <<branch, upstream, trunk, seenUp, seenBase, dirty, merging, allow>>
    BY <1>8, <2>2 DEF Sync!Survey
  <2> QED
    BY <2>1, <2>3
<1>9. CASE Sync!Refuse \/ Sync!Restart
  BY <1>1, <1>9 DEF Sync!Refuse, Sync!Restart, Sync!Done
<1>10. CASE Sync!FastForward \/ Sync!Merge
  BY <1>1, <1>2, <1>10 DEF Sync!FastForward, Sync!Merge, Sync!Done
<1>11. CASE UNCHANGED Sync!vars
  BY <1>11 DEF Sync!vars
<1> QED
  BY <1>3, <1>4, <1>5, <1>6, <1>7, <1>8, <1>9, <1>10, <1>11 DEF Sync!Next

LEMMA EveryPartRuns ==
  AllSpec => /\ Spec /\ Mirror!Spec /\ Remote!Spec /\ Memory!Spec /\ Mcp!Spec
             /\ Config!Spec /\ SignIn!Spec /\ Projects!Spec /\ Sync!Spec
<1>1. AllInit => /\ Init /\ Mirror!Init /\ Remote!Init /\ Memory!Init /\ Mcp!Init
                 /\ Config!Init /\ SignIn!Init /\ Projects!Init /\ Sync!Init
  BY DEF AllInit
<1> USE DEF all, AllNext, InFlightStep, MirrorStep, RemoteStep, MemoryStep, McpStep, ConfigStep, SignInStep,
            ProjectsStep, SyncStep
<1>2. [AllNext]_all => [Next]_vars
  BY DEF flight, vars, files, runs
<1>3. [AllNext]_all => [Mirror!Next]_(Mirror!vars)
  BY DEF sandbox, Mirror!vars
<1>4. [AllNext]_all => [Remote!Next]_(Remote!vars)
  BY DEF remote, Remote!vars, Remote!sandbox
<1>5. [AllNext]_all => [Memory!Next]_(Memory!vars)
  BY DEF notes, Memory!vars
<1>6. [AllNext]_all => [Mcp!Next]_(Mcp!vars)
  BY DEF mcp, Mcp!vars
<1>7. [AllNext]_all => [Config!Next]_(Config!vars)
  BY DEF setting, Config!vars
<1>8. [AllNext]_all => [SignIn!Next]_(SignIn!vars)
  BY DEF tokens, SignIn!vars
<1>9. [AllNext]_all => [Projects!Next]_(Projects!vars)
  BY DEF repos, Projects!vars
<1>10. [AllNext]_all => [Sync!Next]_(Sync!vars)
  BY DEF sync, Sync!vars
<1> HIDE DEF all, AllNext, InFlightStep, MirrorStep, RemoteStep, MemoryStep, McpStep, ConfigStep, SignInStep,
             ProjectsStep, SyncStep
<1> QED
  BY <1>1, <1>2, <1>3, <1>4, <1>5, <1>6, <1>7, <1>8, <1>9, <1>10, PTL
  DEF AllSpec, Spec, Mirror!Spec, Remote!Spec, Memory!Spec, Mcp!Spec, Config!Spec, SignIn!Spec, Projects!Spec,
      Sync!Spec

ServiceConstants ==
  /\ MirrorConstants /\ RemoteConstants /\ MemoryConstants /\ MaxRequests \in Nat
  /\ ConfigConstants /\ MaxGrants \in Nat /\ NoneIsNoRepo

\* Every part keeps its types, with the bounds that are in them: the records
\* a note can be superseded by, the proxies, the requests.
THEOREM ServicesAreTyped == ServiceConstants => (AllSpec => []TypesOK)
<1> SUFFICES ASSUME ServiceConstants PROVE AllSpec => []TypesOK
  OBVIOUS
<1> USE DEF ServiceConstants
<1> DEFINE Parts == {"flight", "sandbox", "remote", "notes", "mcp", "setting", "tokens", "repos", "sync"}
<1>1. AllSpec => [](part \in Parts)
  <2>1. AllInit => part \in Parts
    BY DEF AllInit
  <2>2. part \in Parts /\ [AllNext]_all => (part \in Parts)'
    BY DEF all, AllNext, InFlightStep, MirrorStep, RemoteStep, MemoryStep, McpStep, ConfigStep, SignInStep,
           ProjectsStep, SyncStep
  <2> QED
    BY <2>1, <2>2, PTL DEF AllSpec
<1>2. Sync!Spec => []Sync!TypeOK
  <2>1. Sync!Init => Sync!TypeOK
    BY DEF Sync!Init, Sync!TypeOK, Sync!Commits
  <2> QED
    BY <2>1, SyncIsTyped, PTL DEF Sync!Spec
<1>3. /\ MirrorInv => Mirror!TypeOK
      /\ RemoteInv => Remote!TypeOK
      /\ MemoryInv => Memory!TypeOK
      /\ McpInv => Mcp!TypeOK
      /\ ConfigInv => Config!TypeOK
      /\ SignInInv => SignIn!TypeOK
      /\ ProjectsInv => Projects!TypeOK
  BY RemoteIsTyped, ConfigInvSuffices DEF MirrorInv, MemoryInv, McpInv, SignInInv, ProjectsInv
<1>4. part \in Parts /\ TypeOK /\ MirrorInv /\ RemoteInv /\ MemoryInv /\ McpInv /\ ConfigInv /\ SignInInv
        /\ ProjectsInv /\ Sync!TypeOK => TypesOK
  BY <1>3 DEF TypesOK
<1> QED
  BY <1>1, <1>2, <1>4, EveryPartRuns, TypeCorrect, MirrorInvHolds, RemoteInvHolds, MemoryInvHolds, McpInvHolds,
     ConfigInvHolds, SignInInvHolds, ProjectsInvHolds, PTL

\* What is proved of each part holds when they are run beside one another.
COROLLARY ServicesAreRight ==
  ServiceConstants /\ ReportersLive =>
    (AllSpec => /\ [](CommandSeesWorkspace /\ OrphansAreReported /\ RequestsAreAnswered)
                /\ [](SettingsFitTogether /\ NeverAnotherRepository)
                /\ RemoteIsUsable /\ NoNoteIsLost /\ SurveyedWorkIsKept)
<1> SUFFICES ASSUME ServiceConstants, ReportersLive
             PROVE  AllSpec => /\ [](CommandSeesWorkspace /\ OrphansAreReported /\ RequestsAreAnswered)
                               /\ [](SettingsFitTogether /\ NeverAnotherRepository)
                               /\ RemoteIsUsable /\ NoNoteIsLost /\ SurveyedWorkIsKept
  OBVIOUS
<1> USE DEF ServiceConstants
<1>1. AllSpec => RemoteIsUsable
  BY EveryPartRuns, RemoteRepositoryIsUsable
<1>2. AllSpec => NoNoteIsLost
  BY EveryPartRuns, NotesAreKept
<1>3. AllSpec => SurveyedWorkIsKept
  BY EveryPartRuns, ResyncKeepsWork
<1>4. AllSpec => []CommandSeesWorkspace /\ []OrphansAreReported /\ []RequestsAreAnswered
  BY EveryPartRuns, CommandsRunOnWhatIsSaved, OrphansAreAccounted, CallsAreAnswered
<1>5. AllSpec => []SettingsFitTogether /\ []NeverAnotherRepository
  BY EveryPartRuns, WhatIsStoredFits, RepositoriesStayApart
<1> QED
  BY <1>1, <1>2, <1>3, <1>4, <1>5, PTL
=============================================================================
