-------------------------- MODULE MeasurementProofs --------------------------
(***************************************************************************)
(* Theorems about one call of vis_jitter_run, and about the program around *)
(* it, for every value of their constants.                                 *)
(***************************************************************************)
EXTENDS VisJitter, HistogramProofs

USE MeasurementAssumption

(* The cleared report is well formed.                                      *)
LEMMA ClearedReport ==
  /\ EmptyHistogram \in HistogramType
  /\ NoAudit \in AuditType
  /\ NoResults \in ResultsType
<1>1. EmptyHistogram \in HistogramType
  BY DEF EmptyHistogram, HistogramType
<1>2. NoAudit \in AuditType
  BY DEF NoAudit, AuditType
<1>3. NoSummary \in SummaryType
  BY DEF NoSummary, SummaryType
<1>4. NoResults \in ResultsType
  BY <1>3 DEF NoResults, ResultsType
<1> QED BY <1>1, <1>2, <1>4

(* Counting into it keeps it so.                                           *)
LEMMA RecordSmi ==
  ASSUME NEW a \in AuditType, NEW n \in Nat
  PROVE  /\ [a EXCEPT !.msr_start = n] \in AuditType
         /\ \A d \in Int : [a EXCEPT !.msr_end = n, !.msr_delta = d] \in AuditType
  BY DEF AuditType

LEMMA CountRejected ==
  ASSUME NEW a \in AuditType, NEW n \in Nat
  PROVE  [a EXCEPT !.contaminated_windows = @ + 1, !.samples_rejected = @ + n] \in AuditType
<1>1. a.contaminated_windows + 1 \in Nat /\ a.samples_rejected + n \in Nat
  BY DEF AuditType
<1> QED BY <1>1 DEF AuditType

LEMMA CountAccepted ==
  ASSUME NEW r \in ResultsType, NEW n \in Nat
  PROVE  [r EXCEPT !.samples_accepted = @ + n] \in ResultsType
<1>1. r.samples_accepted + n \in Nat
  BY DEF ResultsType
<1> QED BY <1>1 DEF ResultsType

LEMMA CountMigrated ==
  ASSUME NEW r \in ResultsType
  PROVE  [r EXCEPT !.core_migration_rejected = @ + 1] \in ResultsType
<1>1. r.core_migration_rejected + 1 \in Nat
  BY DEF ResultsType
<1> QED BY <1>1 DEF ResultsType

(* So is a judged one.                                                     *)
LEMMA JudgedReport ==
  ASSUME NEW h
  PROVE  Summary(h) \in SummaryType /\ DeterminismPass(h, Threshold) \in BOOLEAN
<1>1. 0 .. Ceiling \subseteq Int
  OBVIOUS
<1>2. Summary(h) \in SummaryType
  BY <1>1, SummaryInRange, HistogramAssumption DEF SummaryType
<1>3. DeterminismPass(h, Threshold) \in BOOLEAN
  BY DEF DeterminismPass
<1> QED BY <1>2, <1>3

(* Every variable keeps its type, with or without fairness.                *)
LEMMA TypesHold == Init /\ [][Next]_vars => []TypeOK
<1>1. Init => TypeOK
  <2> SUFFICES ASSUME Init PROVE TypeOK
    OBVIOUS
  <2>1. smi \in [Cores -> Nat] /\ deltas \in Seq(Latencies) /\ cpu \in Cores
    BY DEF Init
  <2> QED BY <2>1, ClearedReport DEF Init, TypeOK, Places
<1>2. TypeOK /\ [Next]_vars => TypeOK'
  <2> SUFFICES ASSUME TypeOK, [Next]_vars PROVE TypeOK'
    OBVIOUS
  <2> USE DEF TypeOK, Places, Statuses, Return
  <2>1. CASE RejectCore
    BY <2>1 DEF RejectCore, local, report, environment, history
  <2>2. CASE Pin
    BY <2>2 DEF Pin, local, report, history
  <2>3. CASE OpenMsr
    BY <2>3 DEF OpenMsr, local, report, environment, history
  <2>4. CASE SetUp
    <3>1. [NoAudit EXCEPT !.msr_start = smi[Core]] \in AuditType
      BY ClearedReport, RecordSmi
    <3> QED BY <2>4, <3>1, ClearedReport DEF SetUp, local, environment, history
  <2>5. CASE BeginWindow
    BY <2>5 DEF BeginWindow, report, environment, history
  <2>6. CASE StartSample
    BY <2>6 DEF StartSample, report, environment
  <2>7. ASSUME NEW ns \in Latencies, FinishSample(ns) PROVE TypeOK'
    <3>1. results' \in ResultsType
      BY <2>7, CountMigrated DEF FinishSample
    <3>2. Append(deltas, ns) \in Seq(Latencies)
      BY <2>7
    <3>3. deltas' \in Seq(Latencies)
      BY <2>7, <3>2 DEF FinishSample
    <3>4. (IF spoiled THEN 1 ELSE 0) \in Nat
      OBVIOUS
    <3>5. spoils' \in {spoils, spoils + (IF spoiled THEN 1 ELSE 0)}
      BY <2>7, Zenon DEF FinishSample
    <3>6. spoils' \in Nat
      BY <3>4, <3>5
    <3>7. i' \in Nat
      <4>1. i' = i + 1
        BY <2>7, Zenon DEF FinishSample
      <4> QED BY <4>1
    <3>8. spoiled' \in BOOLEAN
      BY <2>7 DEF FinishSample
    <3>9. pc' \in Places
      BY <2>7 DEF FinishSample
    <3> QED BY <2>7, <3>1, <3>3, <3>6, <3>7, <3>8, <3>9 DEF FinishSample, environment
  <2>8. CASE EndWindow
    <3>1. Len(deltas) \in Nat /\ <<>> \in Seq(Latencies)
      OBVIOUS
    <3>2. CASE AcceptWindow
      <4>1. histogram' \in HistogramType
        BY <3>2, AddAllAdds DEF AcceptWindow
      <4>2. results' \in ResultsType
        BY <3>1, <3>2, CountAccepted DEF AcceptWindow
      <4>3. tainted' \in Nat /\ audit' = audit
        BY <3>2 DEF AcceptWindow
      <4> QED BY <2>8, <3>1, <4>1, <4>2, <4>3 DEF EndWindow, environment
    <3>3. CASE RejectWindow
      <4>1. audit' \in AuditType
        BY <3>1, <3>3, CountRejected DEF RejectWindow
      <4> QED BY <2>8, <3>1, <3>3, <4>1 DEF EndWindow, RejectWindow, environment
    <3> QED BY <2>8, <3>2, <3>3 DEF EndWindow
  <2>9. CASE EndWindowUnread
    BY <2>9 DEF EndWindowUnread, local, report, environment, history
  <2>10. CASE Finish
    <3>1. audit' \in AuditType
      <4>1. smi[Core] \in Nat /\ smi[Core] - audit.msr_start \in Int
        BY DEF AuditType
      <4> DEFINE closing == [audit EXCEPT !.msr_end = smi[Core],
                               !.msr_delta = smi[Core] - audit.msr_start]
      <4>2. closing \in AuditType
        BY <4>1, RecordSmi
      <4>3. audit' \in {closing, audit}
        BY <2>10 DEF Finish
      <4> QED BY <4>2, <4>3
    <3>2. results' \in ResultsType
      <4> DEFINE judged == [results EXCEPT !.latency = Summary(histogram),
                              !.determinism_pass = DeterminismPass(histogram, Threshold)]
      <4>1. judged \in ResultsType
        BY JudgedReport DEF ResultsType
      <4>2. results' \in {judged, results}
        BY <2>10 DEF Finish, Judge
      <4> QED BY <4>1, <4>2
    <3> QED BY <2>10, <3>1, <3>2 DEF Finish, Judge, local, environment, history
  <2>11. CASE Tick
    BY <2>11 DEF Tick, local, report, history
  <2>12. ASSUME NEW c \in Cores, Smi(c) PROVE TypeOK'
    BY <2>12 DEF Smi, local, report
  <2>13. ASSUME NEW c \in Cores, Move(c) PROVE TypeOK'
    BY <2>13 DEF Move, local, report
  <2>14. CASE UNCHANGED vars
    BY <2>14 DEF vars, local, report, environment, history
  <2> QED
    BY <2>1, <2>2, <2>3, <2>4, <2>5, <2>6, <2>7, <2>8, <2>9, <2>10, <2>11, <2>12,
       <2>13, <2>14 DEF Next, Thread
<1> QED BY <1>1, <1>2, PTL

(* Every variable keeps its type, whatever the interleaving: in particular *)
(* no counter of the report goes below zero (vis_jitter_run).              *)
THEOREM TypeCorrect == Spec => []TypeOK
<1> QED BY TypesHold, PTL DEF Spec

----------------------------------------------------------------------------
(* The inductive invariant.  What the window loop's locals are, and that   *)
(* nothing is reported before the loop:                                    *)
Locals ==
  /\ Len(deltas) <= i /\ i <= WindowSize
  /\ pc = "timing" => i < WindowSize
  /\ pc \in {"pin", "open", "setup", "loop"} => i = 0 /\ deltas = <<>> /\ spoils = 0
  /\ pc \in {"pin", "open", "setup"} =>
       /\ windows = 0 /\ tainted = 0
       /\ histogram = EmptyHistogram /\ audit = NoAudit /\ results = NoResults

(* a status is given when the call returns, and a verdict only with VIS_OK; *)
StatusIsGiven ==
  /\ pc = "done" <=> status # "running"
  /\ status # "VIS_OK" =>
       results.determinism_pass = FALSE /\ results.latency = NoSummary
  /\ status = "VIS_OK" => results.samples_accepted > 0
  /\ status = "VIS_ERR_NO_SAMPLES" => results.samples_accepted = 0

(* the SMIs that contaminated the windows closed so far came after         *)
(* msr_start and before the open window's smi_start;                       *)
SmisInOrder ==
  /\ audit.contaminated_windows = 0 => audit.samples_rejected = 0
  /\ pc = "loop" => audit.msr_start + audit.contaminated_windows <= smi[Core]
  /\ pc \in {"sample", "timing"} =>
       /\ audit.msr_start + audit.contaminated_windows <= smi_start
       /\ smi_start <= smi[Core]
  /\ status \in {"VIS_OK", "VIS_ERR_NO_SAMPLES"} =>
       audit.contaminated_windows <= audit.msr_delta

(* and as long as the thread stays where it was pinned, what spoils a      *)
(* sample moves the audited counter.                                       *)
SpoilsAreSeen ==
  moves = 0 =>
    /\ tainted = 0
    /\ pc \notin {"pin", "done"} => cpu = Core
    /\ pc = "timing" /\ spoiled => smi_start < smi[Core]
    /\ pc \in {"sample", "timing"} /\ spoils > 0 => smi_start < smi[Core]

IInv ==
  /\ TypeOK /\ Locals /\ StatusIsGiven /\ Accounting /\ SmisInOrder /\ SpoilsAreSeen
  /\ DeviceIsHeldOnlyWhileMeasuring

----------------------------------------------------------------------------
(* What the actions that touch the report do to its fields.                *)
LEMMA SetUpEffect ==
  ASSUME TypeOK, SetUp
  PROVE  /\ histogram' = EmptyHistogram /\ results' = NoResults
         /\ audit' \in {NoAudit, audit, [NoAudit EXCEPT !.msr_start = smi[Core]]}
         /\ pc' = "loop" => audit'.msr_start = smi[Core] /\ status' = status
         /\ pc' # "loop" => pc' = "done" /\ status' \in {"VIS_ERR_MSR", "VIS_ERR_INVALID_ARG"}
         /\ audit'.contaminated_windows \in {0, audit.contaminated_windows}
         /\ audit'.samples_rejected \in {0, audit.samples_rejected}
<1> DEFINE started == [NoAudit EXCEPT !.msr_start = smi[Core]]
<1>1. started.msr_start = smi[Core] /\ started.contaminated_windows = 0
      /\ started.samples_rejected = 0
  BY DEF NoAudit
<1>2. NoAudit.contaminated_windows = 0 /\ NoAudit.samples_rejected = 0
  BY DEF NoAudit
<1>3. \/ audit' = started /\ pc' = "loop" /\ status' = status
      \/ audit' = NoAudit /\ pc' = "done" /\ status' = "VIS_ERR_MSR"
      \/ audit' = audit /\ pc' = "done" /\ status' = "VIS_ERR_INVALID_ARG"
  BY DEF SetUp, Return
<1>4. histogram' = EmptyHistogram /\ results' = NoResults
  BY DEF SetUp
<1> HIDE DEF started
<1>5. CASE audit' = started /\ pc' = "loop" /\ status' = status
  BY <1>1, <1>4, <1>5 DEF started
<1> QED BY <1>1, <1>2, <1>3, <1>4, <1>5

LEMMA FinishSampleEffect ==
  ASSUME TypeOK, NEW ns \in Latencies, FinishSample(ns)
  PROVE  /\ i' = i + 1 /\ Len(deltas) \in Nat
         /\ results'.samples_accepted = results.samples_accepted
         /\ results'.latency = results.latency
         /\ results'.determinism_pass = results.determinism_pass
         /\ \/ /\ results'.core_migration_rejected = results.core_migration_rejected + 1
               /\ deltas' = deltas /\ spoils' = spoils
            \/ /\ results'.core_migration_rejected = results.core_migration_rejected
               /\ Len(deltas') = Len(deltas) + 1
               /\ spoils' = spoils + (IF spoiled THEN 1 ELSE 0)
<1>1. Len(deltas) \in Nat /\ Len(Append(deltas, ns)) = Len(deltas) + 1
  BY DEF TypeOK
<1>2. CASE core0 # cpu
  BY <1>1, <1>2 DEF FinishSample, TypeOK, ResultsType
<1>3. CASE core0 = cpu
  <2>1. results' = results /\ deltas' = Append(deltas, ns) /\ i' = i + 1
    BY <1>3 DEF FinishSample
  <2>2. spoils' = spoils + (IF spoiled THEN 1 ELSE 0)
    BY <1>3, Zenon DEF FinishSample
  <2> QED BY <1>1, <2>1, <2>2
<1> QED BY <1>2, <1>3

LEMMA EndWindowEffect ==
  ASSUME TypeOK, EndWindow
  PROVE  /\ Len(deltas) \in Nat /\ Len(deltas') = 0
         /\ audit'.msr_start = audit.msr_start /\ audit'.msr_delta = audit.msr_delta
         /\ results'.core_migration_rejected = results.core_migration_rejected
         /\ results'.latency = results.latency
         /\ results'.determinism_pass = results.determinism_pass
         /\ \/ /\ smi[Core] > smi_start
               /\ audit'.contaminated_windows = audit.contaminated_windows + 1
               /\ audit'.samples_rejected = audit.samples_rejected + Len(deltas)
               /\ results' = results /\ histogram' = histogram /\ tainted' = tainted
            \/ /\ ~(smi[Core] > smi_start)
               /\ audit' = audit
               /\ results'.samples_accepted = results.samples_accepted + Len(deltas)
               /\ histogram'.total = histogram.total + Len(deltas)
               /\ tainted' = tainted + spoils
<1>1. Len(deltas) \in Nat /\ deltas' = <<>>
  BY DEF TypeOK, EndWindow
<1>2. CASE smi[Core] > smi_start
  BY <1>1, <1>2 DEF EndWindow, SmiDetected, RejectWindow, TypeOK, AuditType
<1>3. CASE ~(smi[Core] > smi_start)
  <2>1. AcceptWindow
    BY <1>3 DEF EndWindow, SmiDetected
  <2>2. histogram'.total = histogram.total + Len(deltas)
    BY <2>1, AddAllAdds DEF AcceptWindow, TypeOK
  <2>3. results' = [results EXCEPT !.samples_accepted = @ + Len(deltas)]
    BY <2>1 DEF AcceptWindow
  <2>4. audit' = audit /\ tainted' = tainted + spoils
    BY <2>1 DEF AcceptWindow
  <2> QED BY <1>1, <1>3, <2>2, <2>3, <2>4 DEF TypeOK, ResultsType
<1> QED BY <1>2, <1>3

LEMMA FinishEffect ==
  ASSUME TypeOK, Finish
  PROVE  /\ audit'.contaminated_windows = audit.contaminated_windows
         /\ audit'.samples_rejected = audit.samples_rejected
         /\ audit'.msr_start = audit.msr_start
         /\ results'.samples_accepted = results.samples_accepted
         /\ results'.core_migration_rejected = results.core_migration_rejected
         /\ \/ /\ status' = "VIS_ERR_MSR" /\ results' = results
            \/ /\ status' = "VIS_ERR_NO_SAMPLES" /\ results' = results
               /\ results.samples_accepted = 0
               /\ audit'.msr_delta = smi[Core] - audit.msr_start
            \/ /\ status' = "VIS_OK" /\ results.samples_accepted # 0
               /\ audit'.msr_delta = smi[Core] - audit.msr_start
<1>1. CASE UNCHANGED <<audit, results>> /\ Return("VIS_ERR_MSR")
  BY <1>1 DEF Return
<1>2. CASE Judge /\ audit' = [audit EXCEPT !.msr_end = smi[Core],
                                          !.msr_delta = smi[Core] - audit.msr_start]
  <2>1. CASE results.samples_accepted = 0
    BY <1>2, <2>1 DEF Judge, Return, TypeOK, AuditType
  <2>2. CASE results.samples_accepted # 0
    BY <1>2, <2>2 DEF Judge, Return, TypeOK, AuditType, ResultsType
  <2> QED BY <2>1, <2>2
<1> QED BY <1>1, <1>2 DEF Finish

(* Every return closes the device.                                        *)
LEMMA DevicePreserved ==
  ASSUME TypeOK, DeviceIsHeldOnlyWhileMeasuring, [Next]_vars
  PROVE  DeviceIsHeldOnlyWhileMeasuring'
<1> USE DEF TypeOK, DeviceIsHeldOnlyWhileMeasuring
<1>1. CASE RejectCore
  BY <1>1 DEF RejectCore, Return, local, report, environment, history
<1>2. CASE Pin
  BY <1>2 DEF Pin, local, report, history
<1>3. CASE OpenMsr
  BY <1>3 DEF OpenMsr, Return, local, report, environment, history
<1>4. CASE SetUp
  BY <1>4 DEF SetUp, Return, local, environment, history
<1>5. CASE BeginWindow
  BY <1>5 DEF BeginWindow, Return, report, environment, history
<1>6. CASE StartSample
  BY <1>6 DEF StartSample, report, environment
<1>7. ASSUME NEW ns \in Latencies, FinishSample(ns) PROVE DeviceIsHeldOnlyWhileMeasuring'
  BY <1>7 DEF FinishSample, environment
<1>8. CASE EndWindow
  BY <1>8 DEF EndWindow, AcceptWindow, RejectWindow, environment
<1>9. CASE EndWindowUnread
  BY <1>9 DEF EndWindowUnread, Return, local, report, environment, history
<1>10. CASE Finish
  BY <1>10 DEF Finish, Return, Judge, local, environment, history
<1>11. CASE Tick
  BY <1>11 DEF Tick, local, report, history
<1>12. ASSUME NEW c \in Cores, Smi(c) PROVE DeviceIsHeldOnlyWhileMeasuring'
  BY <1>12 DEF Smi, local, report
<1>13. ASSUME NEW c \in Cores, Move(c) PROVE DeviceIsHeldOnlyWhileMeasuring'
  BY <1>13 DEF Move, local, report
<1>14. CASE UNCHANGED vars
  BY <1>14 DEF vars, local, report, environment, history
<1> QED
  BY <1>1, <1>2, <1>3, <1>4, <1>5, <1>6, <1>7, <1>8,
     <1>9, <1>10, <1>11, <1>12, <1>13, <1>14 DEF Next, Thread

(* The window loop keeps its bounds.                                       *)
LEMMA LocalsPreserved ==
  ASSUME TypeOK, Locals, [Next]_vars
  PROVE  Locals'
<1> USE DEF TypeOK, Locals
<1>1. CASE RejectCore
  BY <1>1 DEF RejectCore, Return, local, report, environment, history
<1>2. CASE Pin
  BY <1>2 DEF Pin, local, report, history
<1>3. CASE OpenMsr
  BY <1>3 DEF OpenMsr, Return, local, report, environment, history
<1>4. CASE SetUp
  BY <1>4 DEF SetUp, Return, local, environment, history
<1>5. CASE BeginWindow
  BY <1>5 DEF BeginWindow, Return, report, environment, history
<1>6. CASE StartSample
  BY <1>6 DEF StartSample, report, environment
<1>7. ASSUME NEW ns \in Latencies, FinishSample(ns) PROVE Locals'
  <2>1. /\ i' = i + 1 /\ pc = "timing" /\ pc' = "sample"
        /\ Len(deltas') \in {Len(deltas), Len(deltas) + 1} /\ Len(deltas) \in Nat
    BY <1>7, FinishSampleEffect DEF FinishSample
  <2>2. Len(deltas') <= i' /\ i' <= WindowSize
    BY <2>1
  <2> QED BY <2>1, <2>2
<1>8. CASE EndWindow
  BY <1>8 DEF EndWindow, AcceptWindow, RejectWindow, environment
<1>9. CASE EndWindowUnread
  BY <1>9 DEF EndWindowUnread, Return, local, report, environment, history
<1>10. CASE Finish
  BY <1>10 DEF Finish, Return, Judge, local, environment, history
<1>11. CASE Tick
  BY <1>11 DEF Tick, local, report, history
<1>12. ASSUME NEW c \in Cores, Smi(c) PROVE Locals'
  BY <1>12 DEF Smi, local, report
<1>13. ASSUME NEW c \in Cores, Move(c) PROVE Locals'
  BY <1>13 DEF Move, local, report
<1>14. CASE UNCHANGED vars
  BY <1>14 DEF vars, local, report, environment, history
<1> QED
  BY <1>1, <1>2, <1>3, <1>4, <1>5, <1>6, <1>7, <1>8,
     <1>9, <1>10, <1>11, <1>12, <1>13, <1>14 DEF Next, Thread

(* Statuses and verdicts come together.                                    *)
LEMMA StatusIsGivenPreserved ==
  ASSUME TypeOK, Locals, StatusIsGiven, [Next]_vars
  PROVE  StatusIsGiven'
<1> USE DEF TypeOK, StatusIsGiven
<1>1. CASE RejectCore
  BY <1>1 DEF RejectCore, Return, local, report, environment, history
<1>2. CASE Pin
  BY <1>2 DEF Pin, local, report, history
<1>3. CASE OpenMsr
  BY <1>3 DEF OpenMsr, Return, local, report, environment, history
<1>4. CASE SetUp
  BY <1>4, SetUpEffect DEF SetUp, NoResults
<1>5. CASE BeginWindow
  BY <1>5 DEF BeginWindow, Return, report, environment, history
<1>6. CASE StartSample
  BY <1>6 DEF StartSample, report, environment
<1>7. ASSUME NEW ns \in Latencies, FinishSample(ns) PROVE StatusIsGiven'
  BY <1>7, FinishSampleEffect DEF FinishSample
<1>8. CASE EndWindow
  BY <1>8, EndWindowEffect DEF EndWindow
<1>9. CASE EndWindowUnread
  BY <1>9 DEF EndWindowUnread, Return, local, report, environment, history
<1>10. CASE Finish
  <2>1. results.samples_accepted \in Nat
    BY DEF ResultsType
  <2>2. pc = "loop" /\ pc' = "done"
    BY <1>10 DEF Finish, Judge, Return
  <2>3. status = "running" /\ status # "VIS_OK"
    BY <2>2
  <2> QED BY <1>10, <2>1, <2>2, <2>3, FinishEffect
<1>11. CASE Tick
  BY <1>11 DEF Tick, local, report, history
<1>12. ASSUME NEW c \in Cores, Smi(c) PROVE StatusIsGiven'
  BY <1>12 DEF Smi, local, report
<1>13. ASSUME NEW c \in Cores, Move(c) PROVE StatusIsGiven'
  BY <1>13 DEF Move, local, report
<1>14. CASE UNCHANGED vars
  BY <1>14 DEF vars, local, report, environment, history
<1> QED
  BY <1>1, <1>2, <1>3, <1>4, <1>5, <1>6, <1>7, <1>8,
     <1>9, <1>10, <1>11, <1>12, <1>13, <1>14 DEF Next, Thread

(* No step loses a sample or counts one twice.                             *)
LEMMA AccountingPreserved ==
  ASSUME TypeOK, Locals, Accounting, [Next]_vars
  PROVE  Accounting'
<1> USE DEF TypeOK, Accounting
<1>1. CASE RejectCore
  BY <1>1 DEF RejectCore, Return, local, report, environment, history
<1>2. CASE Pin
  BY <1>2 DEF Pin, local, report, history
<1>3. CASE OpenMsr
  BY <1>3 DEF OpenMsr, Return, local, report, environment, history
<1>4. CASE SetUp
  <2>1. UNCHANGED <<deltas, windows, i>> /\ pc = "setup"
    BY <1>4 DEF SetUp, local, history
  <2>2. audit'.samples_rejected = audit.samples_rejected
    BY <1>4, <2>1, SetUpEffect DEF Locals, NoAudit
  <2> QED BY <1>4, <2>1, <2>2, SetUpEffect DEF Locals
<1>5. CASE BeginWindow
  BY <1>5 DEF BeginWindow, Return, report, environment, history
<1>6. CASE StartSample
  BY <1>6 DEF StartSample, report, environment
<1>7. ASSUME NEW ns \in Latencies, FinishSample(ns) PROVE Accounting'
  <2>1. UNCHANGED <<windows, audit, histogram>> /\ i' = i + 1 /\ i \in Int
    BY <1>7 DEF FinishSample
  <2>2. /\ results.samples_accepted \in Int /\ results.core_migration_rejected \in Int
        /\ audit.samples_rejected \in Int
    BY DEF ResultsType, AuditType
  <2>3. results'.samples_accepted = results.samples_accepted /\ Len(deltas) \in Int
    BY <1>7, FinishSampleEffect
  <2>4. \/ /\ results'.core_migration_rejected = results.core_migration_rejected + 1
           /\ Len(deltas') = Len(deltas)
        \/ /\ results'.core_migration_rejected = results.core_migration_rejected
           /\ Len(deltas') = Len(deltas) + 1
    BY <1>7, FinishSampleEffect
  <2> DEFINE before == windows * WindowSize
  <2>5. before \in Int /\ windows' * WindowSize = before
    BY <2>1
  <2>6. results.samples_accepted + audit.samples_rejected
          + results.core_migration_rejected + Len(deltas) = before + i
    OBVIOUS
  <2>7. histogram'.total = results'.samples_accepted
    BY <2>1, <2>3
  <2> HIDE DEF before, TypeOK, Accounting
  <2>8. results'.samples_accepted + audit'.samples_rejected
          + results'.core_migration_rejected + Len(deltas') = before + i'
    <3>1. CASE /\ results'.core_migration_rejected = results.core_migration_rejected + 1
               /\ Len(deltas') = Len(deltas)
      BY <2>1, <2>2, <2>3, <2>5, <2>6, <3>1
    <3>2. CASE /\ results'.core_migration_rejected = results.core_migration_rejected
               /\ Len(deltas') = Len(deltas) + 1
      <4> DEFINE kept == Len(deltas)
      <4>1. kept \in Int /\ Len(deltas') = kept + 1
        BY <2>3, <3>2
      <4>2. results.samples_accepted + audit.samples_rejected
              + results.core_migration_rejected + kept = before + i
        BY <2>6
      <4> HIDE DEF kept
      <4> QED BY <2>1, <2>2, <2>3, <2>5, <3>2, <4>1, <4>2
    <3> QED BY <2>4, <3>1, <3>2
  <2> QED BY <2>5, <2>7, <2>8 DEF Accounting
<1>8. CASE EndWindow
  <2>1. windows' = windows + 1 /\ i' = 0 /\ i = WindowSize
    BY <1>8 DEF EndWindow
  <2>2. /\ results.samples_accepted \in Int /\ results.core_migration_rejected \in Int
        /\ audit.samples_rejected \in Int /\ histogram.total \in Int
    BY DEF ResultsType, AuditType, HistogramType
  <2>3. /\ Len(deltas) \in Int /\ Len(deltas') = 0
        /\ results'.core_migration_rejected = results.core_migration_rejected
    BY <1>8, EndWindowEffect
  <2>4. \/ /\ audit'.samples_rejected = audit.samples_rejected + Len(deltas)
           /\ results' = results /\ histogram' = histogram
        \/ /\ audit' = audit
           /\ results'.samples_accepted = results.samples_accepted + Len(deltas)
           /\ histogram'.total = histogram.total + Len(deltas)
    BY <1>8, EndWindowEffect
  <2> DEFINE before == windows * WindowSize
  <2>5. before \in Int /\ windows' * WindowSize = before + WindowSize
    BY <2>1
  <2>6. /\ results.samples_accepted + audit.samples_rejected
             + results.core_migration_rejected + Len(deltas) = before + WindowSize
        /\ histogram.total = results.samples_accepted
    BY <2>1
  <2> HIDE DEF before, TypeOK, Accounting
  <2>7. /\ results'.samples_accepted + audit'.samples_rejected
             + results'.core_migration_rejected + Len(deltas') = before + WindowSize + i'
        /\ histogram'.total = results'.samples_accepted
    <3>1. CASE /\ audit'.samples_rejected = audit.samples_rejected + Len(deltas)
               /\ results' = results /\ histogram' = histogram
      BY <2>1, <2>2, <2>3, <2>5, <2>6, <3>1
    <3>2. CASE /\ audit' = audit
               /\ results'.samples_accepted = results.samples_accepted + Len(deltas)
               /\ histogram'.total = histogram.total + Len(deltas)
      BY <2>1, <2>2, <2>3, <2>5, <2>6, <3>2
    <3> QED BY <2>4, <3>1, <3>2
  <2> QED BY <2>5, <2>7 DEF Accounting
<1>9. CASE EndWindowUnread
  BY <1>9 DEF EndWindowUnread, Return, local, report, environment, history
<1>10. CASE Finish
  <2>1. UNCHANGED <<windows, i, deltas, histogram>>
    BY <1>10 DEF Finish, local, history
  <2> QED BY <1>10, <2>1, FinishEffect
<1>11. CASE Tick
  BY <1>11 DEF Tick, local, report, history
<1>12. ASSUME NEW c \in Cores, Smi(c) PROVE Accounting'
  BY <1>12 DEF Smi, local, report
<1>13. ASSUME NEW c \in Cores, Move(c) PROVE Accounting'
  BY <1>13 DEF Move, local, report
<1>14. CASE UNCHANGED vars
  BY <1>14 DEF vars, local, report, environment, history
<1> QED
  BY <1>1, <1>2, <1>3, <1>4, <1>5, <1>6, <1>7, <1>8,
     <1>9, <1>10, <1>11, <1>12, <1>13, <1>14 DEF Next, Thread

(* Contaminated windows stay behind the counter.                           *)
LEMMA SmisInOrderPreserved ==
  ASSUME TypeOK, Locals, StatusIsGiven, SmisInOrder, [Next]_vars
  PROVE  SmisInOrder'
<1> USE DEF TypeOK, SmisInOrder
<1>1. CASE RejectCore
  BY <1>1 DEF RejectCore, Return, local, report, environment, history
<1>2. CASE Pin
  BY <1>2 DEF Pin, local, report, history
<1>3. CASE OpenMsr
  BY <1>3 DEF OpenMsr, Return, local, report, environment, history
<1>4. CASE SetUp
  <2>1. /\ pc = "setup" /\ audit.contaminated_windows = 0 /\ audit.samples_rejected = 0
        /\ smi' = smi /\ status = "running" /\ smi[Core] \in Nat
    BY <1>4 DEF SetUp, Locals, NoAudit, environment, StatusIsGiven
  <2> QED BY <1>4, <2>1, SetUpEffect
<1>5. CASE BeginWindow
  BY <1>5 DEF BeginWindow, Return, report, environment, history
<1>6. CASE StartSample
  BY <1>6 DEF StartSample, report, environment
<1>7. ASSUME NEW ns \in Latencies, FinishSample(ns) PROVE SmisInOrder'
  BY <1>7 DEF FinishSample, environment
<1>8. CASE EndWindow
  <2>1. /\ pc' = "loop" /\ smi' = smi /\ status' = status /\ pc = "sample"
        /\ smi[Core] \in Nat
    BY <1>8 DEF EndWindow, environment
  <2>2. status = "running"
    BY <2>1 DEF StatusIsGiven
  <2>3. audit.contaminated_windows \in Nat /\ audit.msr_start \in Nat
    BY DEF AuditType
  <2> QED BY <1>8, <2>1, <2>2, <2>3, EndWindowEffect
<1>9. CASE EndWindowUnread
  BY <1>9 DEF EndWindowUnread, Return, local, report, environment, history
<1>10. CASE Finish
  <2>1. pc' = "done" /\ pc = "loop" /\ smi[Core] \in Nat
    BY <1>10 DEF Finish, Judge, Return
  <2>2. audit.contaminated_windows \in Nat /\ audit.msr_start \in Nat
    BY DEF AuditType
  <2> QED BY <1>10, <2>1, <2>2, FinishEffect
<1>11. CASE Tick
  BY <1>11 DEF Tick, local, report, history
<1>12. ASSUME NEW c \in Cores, Smi(c) PROVE SmisInOrder'
  <2>1. smi'[Core] >= smi[Core] /\ smi[Core] \in Nat /\ smi'[Core] \in Nat
    BY <1>12 DEF Smi
  <2>2. UNCHANGED <<pc, status, audit, smi_start>>
    BY <1>12 DEF Smi, local, report
  <2>3. audit.contaminated_windows \in Nat /\ audit.msr_start \in Nat
    BY DEF AuditType
  <2> QED BY <2>1, <2>2, <2>3
<1>13. ASSUME NEW c \in Cores, Move(c) PROVE SmisInOrder'
  BY <1>13 DEF Move, local, report
<1>14. CASE UNCHANGED vars
  BY <1>14 DEF vars, local, report, environment, history
<1> QED
  BY <1>1, <1>2, <1>3, <1>4, <1>5, <1>6, <1>7, <1>8,
     <1>9, <1>10, <1>11, <1>12, <1>13, <1>14 DEF Next, Thread

(* A spoiled sample of a pinned thread is seen by the audited counter.     *)
LEMMA SpoilsAreSeenPreserved ==
  ASSUME TypeOK, Locals, StatusIsGiven, SmisInOrder, SpoilsAreSeen, [Next]_vars
  PROVE  SpoilsAreSeen'
<1> USE DEF TypeOK, SpoilsAreSeen
<1>1. CASE RejectCore
  BY <1>1 DEF RejectCore, Return, local, report, environment, history
<1>2. CASE Pin
  BY <1>2 DEF Pin, local, report, history
<1>3. CASE OpenMsr
  BY <1>3 DEF OpenMsr, Return, local, report, environment, history
<1>4. CASE SetUp
  BY <1>4 DEF SetUp, Return, local, environment, history
<1>5. CASE BeginWindow
  <2>1. UNCHANGED <<moves, tainted, cpu, spoils>> /\ pc = "loop" /\ spoils = 0
    BY <1>5 DEF BeginWindow, environment, history, Locals
  <2>2. pc' # "timing"
    BY <1>5 DEF BeginWindow, Return
  <2> QED BY <2>1, <2>2
<1>6. CASE StartSample
  BY <1>6 DEF StartSample, report, environment
<1>7. ASSUME NEW ns \in Latencies, FinishSample(ns) PROVE SpoilsAreSeen'
  BY <1>7 DEF FinishSample, environment
<1>8. CASE EndWindow
  <2>1. UNCHANGED <<moves, cpu, smi>> /\ pc = "sample" /\ pc' = "loop"
    BY <1>8 DEF EndWindow, environment
  <2>2. smi[Core] \in Nat /\ smi_start \in Nat /\ smi_start <= smi[Core]
    BY <2>1 DEF SmisInOrder
  <2>3. moves = 0 => tainted' = 0
    BY <1>8, <2>1, <2>2, EndWindowEffect
  <2> QED BY <2>1, <2>3
<1>9. CASE EndWindowUnread
  BY <1>9 DEF EndWindowUnread, Return, local, report, environment, history
<1>10. CASE Finish
  BY <1>10 DEF Finish, Return, Judge, local, environment, history
<1>11. CASE Tick
  BY <1>11 DEF Tick, local, report, history
<1>12. ASSUME NEW c \in Cores, Smi(c) PROVE SpoilsAreSeen'
  <2>1. UNCHANGED <<moves, cpu, tainted, spoils, smi_start, pc>>
    BY <1>12 DEF Smi, local
  <2>2. smi'[Core] >= smi[Core] /\ smi[Core] \in Nat /\ smi'[Core] \in Nat
    BY <1>12 DEF Smi
  <2>3. smi_start \in Nat /\ (pc \in {"sample", "timing"} => smi_start <= smi[Core])
    BY DEF SmisInOrder
  <2>4. CASE c = Core
    <3>1. smi'[Core] = smi[Core] + 1
      BY <1>12, <2>4 DEF Smi
    <3> QED BY <2>1, <2>2, <2>3, <3>1
  <2>5. CASE c # Core
    <3>1. moves = 0 /\ pc = "timing" => spoiled' = spoiled
      BY <1>12, <2>5 DEF Smi
    <3> QED BY <2>1, <2>2, <2>3, <3>1
  <2> QED BY <2>4, <2>5
<1>13. ASSUME NEW c \in Cores, Move(c) PROVE SpoilsAreSeen'
  BY <1>13 DEF Move, local, report
<1>14. CASE UNCHANGED vars
  BY <1>14 DEF vars, local, report, environment, history
<1> QED
  BY <1>1, <1>2, <1>3, <1>4, <1>5, <1>6, <1>7, <1>8,
     <1>9, <1>10, <1>11, <1>12, <1>13, <1>14 DEF Next, Thread

----------------------------------------------------------------------------
(* The strengthening is invariant.                                         *)
LEMMA IInvHolds == Init /\ [][Next]_vars => []IInv
<1>1. Init => Locals /\ StatusIsGiven /\ Accounting /\ SmisInOrder /\ SpoilsAreSeen
              /\ DeviceIsHeldOnlyWhileMeasuring
  <2> SUFFICES ASSUME Init
               PROVE  Locals /\ StatusIsGiven /\ Accounting /\ SmisInOrder
                      /\ SpoilsAreSeen /\ DeviceIsHeldOnlyWhileMeasuring
    OBVIOUS
  <2> USE DEF Init
  <2>1. Len(deltas) = 0
    OBVIOUS
  <2>2. Locals
    BY <2>1 DEF Locals
  <2>3. Accounting
    BY <2>1 DEF Accounting, NoAudit, NoResults, EmptyHistogram
  <2> QED
    BY <2>2, <2>3 DEF StatusIsGiven, NoResults, NoAudit, SmisInOrder, SpoilsAreSeen,
       DeviceIsHeldOnlyWhileMeasuring
<1>2. TypeOK /\ TypeOK' /\ IInv /\ [Next]_vars => IInv'
  BY DevicePreserved, LocalsPreserved, StatusIsGivenPreserved, AccountingPreserved,
     SmisInOrderPreserved, SpoilsAreSeenPreserved DEF IInv
<1>3. Init /\ TypeOK => IInv
  BY <1>1 DEF IInv
<1> QED BY <1>2, <1>3, TypesHold, PTL

LEMMA IInvInvariant == Spec => []IInv
<1> QED BY IInvHolds, PTL DEF Spec

(* No sample is lost or counted twice, with SMIs, migrations, failing      *)
(* reads and any clock: the counters of the report add up to the samples   *)
(* taken (vis_measure).                                                    *)
THEOREM SamplesAreAccountedFor == Spec => []Accounting
<1>1. IInv => Accounting
  BY DEF IInv
<1> QED BY <1>1, IInvInvariant, PTL

(* The two SMI figures of a report agree: msr_delta explains every         *)
(* contaminated window (vis_smi_audit_t).                                  *)
THEOREM ContaminationExplained == Spec => []ContaminationIsExplained
<1>1. IInv => ContaminationIsExplained
  BY DEF IInv, SmisInOrder, ContaminationIsExplained, TypeOK, AuditType
<1> QED BY <1>1, IInvInvariant, PTL

(* The full-window policy keeps its promise for a thread that stays        *)
(* pinned: no accepted sample was interrupted by an SMI, whatever the      *)
(* number of cores, windows, samples and SMIs (vis_measure).               *)
THEOREM PinnedSamplesClean == Spec => []PinnedSamplesAreClean
<1>1. IInv => PinnedSamplesAreClean
  BY DEF IInv, SpoilsAreSeen, PinnedSamplesAreClean
<1> QED BY <1>1, IInvInvariant, PTL

(* A PASS, and any latency, needs a successful call with accepted samples  *)
(* (vis_jitter_run).                                                       *)
THEOREM VerdictFromSamples == Spec => []VerdictNeedsSamples
<1>1. IInv => VerdictNeedsSamples
  BY DEF IInv, StatusIsGiven, VerdictNeedsSamples
<1> QED BY <1>1, IInvInvariant, PTL

(* The MSR device is open exactly while it is used, on every path out of   *)
(* the call (vis_measure).                                                 *)
THEOREM DeviceReleased == Spec => []DeviceIsHeldOnlyWhileMeasuring
<1>1. IInv => DeviceIsHeldOnlyWhileMeasuring
  BY DEF IInv
<1> QED BY <1>1, IInvInvariant, PTL

----------------------------------------------------------------------------
(* The measurement implements the audit policy: it starts where the policy *)
(* starts, and each of its steps is a step of the policy or invisible.     *)
LEMMA RefinesInit == Init => Audit!Init
<1> SUFFICES ASSUME Init PROVE Audit!Init
  OBVIOUS
<1>1. Len(deltas) = 0
  BY DEF Init
<1> QED BY <1>1 DEF Init, Audit!Init, Audit!Closed, NoAudit, NoResults

(* A failed return abandons the window.                                    *)
LEMMA FailureAborts ==
  ASSUME TypeOK, IInv, pc # "done",
         NEW s \in {"VIS_ERR_AFFINITY", "VIS_ERR_MSR", "VIS_ERR_INVALID_ARG"},
         Return(s), UNCHANGED <<smi, i, deltas>>,
         results' = results, audit'.samples_rejected = audit.samples_rejected
  PROVE  Audit!Abort
<1>1. status = "running"
  BY DEF IInv, StatusIsGiven
<1>2. pc' = "done" /\ status' = s
  BY DEF Return
<1> QED BY <1>1, <1>2 DEF Audit!Abort, Audit!Failed, Audit!Closed

LEMMA RefinesNext ==
  ASSUME TypeOK, IInv, [Next]_vars
  PROVE  [Audit!Next]_(Audit!vars)
<1> USE DEF Audit!vars, Audit!Closed
<1>1. CASE RejectCore
  <2>1. Audit!Abort
    BY <1>1, FailureAborts DEF RejectCore, local, report, environment
  <2> QED BY <2>1 DEF Audit!Next
<1>2. CASE Pin
  BY <1>2 DEF Pin, local, report
<1>3. CASE OpenMsr
  <2>1. CASE Return("VIS_ERR_MSR")
    <3>1. Audit!Abort
      BY <1>3, <2>1, FailureAborts DEF OpenMsr, local, report, environment
    <3> QED BY <3>1 DEF Audit!Next
  <2>2. CASE pc' = "setup" /\ UNCHANGED status
    BY <1>3, <2>2 DEF OpenMsr, local, report, environment
  <2> QED BY <1>3, <2>1, <2>2 DEF OpenMsr
<1>4. CASE SetUp
  <2>1. /\ pc = "setup" /\ UNCHANGED <<smi, i, deltas>>
        /\ results' = results /\ audit'.samples_rejected = audit.samples_rejected
    BY <1>4, SetUpEffect DEF SetUp, local, environment, IInv, Locals, NoAudit
  <2>2. CASE \E s \in {"VIS_ERR_MSR", "VIS_ERR_INVALID_ARG"} : Return(s)
    <3>1. Audit!Abort
      BY <2>1, <2>2, FailureAborts
    <3> QED BY <3>1 DEF Audit!Next
  <2>3. CASE pc' = "loop" /\ UNCHANGED status
    BY <2>1, <2>3
  <2> QED BY <1>4, <2>2, <2>3 DEF SetUp
<1>5. CASE BeginWindow
  <2>1. /\ pc = "loop" /\ UNCHANGED <<smi, i, deltas, results, audit>>
    BY <1>5 DEF BeginWindow, report, environment
  <2>2. CASE Return("VIS_ERR_MSR")
    <3>1. Audit!Abort
      BY <2>1, <2>2, FailureAborts
    <3> QED BY <3>1 DEF Audit!Next
  <2>3. CASE smi_start' = smi[Core] /\ pc' = "sample" /\ UNCHANGED status
    <3>1. status = "running"
      BY <2>1 DEF IInv, StatusIsGiven
    <3>2. Audit!Open
      BY <2>1, <2>3, <3>1 DEF Audit!Open
    <3> QED BY <3>2 DEF Audit!Next
  <2> QED BY <1>5, <2>2, <2>3 DEF BeginWindow
<1>6. CASE StartSample
  BY <1>6 DEF StartSample, report, environment
<1>7. ASSUME NEW ns \in Latencies, FinishSample(ns) PROVE UNCHANGED (Audit!vars)
  <2>1. /\ pc = "timing" /\ pc' = "sample"
        /\ UNCHANGED <<status, smi_start, audit, smi>>
    BY <1>7 DEF FinishSample, environment
  <2>2. results'.core_migration_rejected - (i' - Len(deltas'))
          = results.core_migration_rejected - (i - Len(deltas))
    <3>1. /\ i' = i + 1 /\ i \in Int /\ Len(deltas) \in Int
          /\ results.core_migration_rejected \in Int
      BY <1>7, FinishSampleEffect DEF TypeOK, ResultsType
    <3>2. CASE /\ results'.core_migration_rejected = results.core_migration_rejected + 1
               /\ deltas' = deltas
      BY <3>1, <3>2
    <3>3. CASE /\ results'.core_migration_rejected = results.core_migration_rejected
               /\ Len(deltas') = Len(deltas) + 1
      <4> DEFINE kept == Len(deltas)
      <4>1. kept \in Int /\ Len(deltas') = kept + 1
        BY <3>1, <3>3
      <4> HIDE DEF kept
      <4>2. i' - Len(deltas') = i - kept
        BY <3>1, <4>1
      <4> QED BY <3>3, <4>2 DEF kept
    <3> QED BY <1>7, <3>2, <3>3, FinishSampleEffect
  <2>3. results'.samples_accepted = results.samples_accepted
    BY <1>7, FinishSampleEffect
  <2> QED BY <2>1, <2>2, <2>3
<1>8. CASE EndWindow
  <2>1. /\ pc = "sample" /\ pc' = "loop" /\ i = WindowSize /\ i' = 0
        /\ UNCHANGED <<smi, status>>
    BY <1>8 DEF EndWindow, environment
  <2>2. /\ Len(deltas) \in 0 .. WindowSize /\ Len(deltas') = 0
        /\ results'.core_migration_rejected = results.core_migration_rejected
        /\ results.core_migration_rejected \in Int
    BY <1>8, <2>1, EndWindowEffect DEF IInv, Locals, TypeOK, ResultsType
  <2> DEFINE k == Len(deltas)
  <2>3. results'.core_migration_rejected - (i' - Len(deltas'))
          = (results.core_migration_rejected - (i - k)) + (WindowSize - k)
    BY <2>1, <2>2
  <2>4. smi_start \in Nat /\ smi[Core] \in Nat /\ smi_start <= smi[Core]
    BY <2>1 DEF IInv, SmisInOrder, TypeOK
  <2>5. \/ /\ smi[Core] # smi_start
           /\ audit'.samples_rejected = audit.samples_rejected + k
           /\ results'.samples_accepted = results.samples_accepted
        \/ /\ smi[Core] = smi_start
           /\ results'.samples_accepted = results.samples_accepted + k
           /\ audit'.samples_rejected = audit.samples_rejected
    BY <1>8, <2>4, EndWindowEffect
  <2>6. Audit!Close(k)
    BY <2>1, <2>2, <2>3, <2>4, <2>5 DEF Audit!Close
  <2> QED BY <2>2, <2>6 DEF Audit!Next
<1>9. CASE EndWindowUnread
  <2>1. Audit!Abort
    BY <1>9, FailureAborts DEF EndWindowUnread, local, report, environment
  <2> QED BY <2>1 DEF Audit!Next
<1>10. CASE Finish
  <2>1. /\ pc = "loop" /\ pc' = "done" /\ UNCHANGED <<smi, i, deltas>>
        /\ status = "running"
    BY <1>10 DEF Finish, Judge, Return, local, environment, IInv, StatusIsGiven
  <2>2. CASE status' = "VIS_ERR_MSR"
    <3>1. /\ results'.samples_accepted = results.samples_accepted
          /\ results'.core_migration_rejected = results.core_migration_rejected
          /\ audit'.samples_rejected = audit.samples_rejected
      BY <1>10, FinishEffect
    <3>2. Audit!Abort
      BY <2>1, <2>2, <3>1 DEF Audit!Abort, Audit!Failed
    <3> QED BY <3>2 DEF Audit!Next
  <2>3. CASE status' # "VIS_ERR_MSR"
    <3>1. Audit!Stop
      BY <1>10, <2>1, <2>3, FinishEffect DEF Audit!Stop
    <3> QED BY <3>1 DEF Audit!Next
  <2> QED BY <2>2, <2>3
<1>11. CASE Tick
  BY <1>11 DEF Tick, local, report
<1>12. ASSUME NEW c \in Cores, Smi(c) PROVE [Audit!Next]_(Audit!vars)
  <2>1. UNCHANGED <<pc, status, smi_start, i, deltas, audit, results>>
    BY <1>12 DEF Smi, local, report
  <2>2. CASE c = Core
    <3>1. smi'[Core] = smi[Core] + 1
      BY <1>12, <2>2 DEF Smi, TypeOK
    <3>2. Audit!Smi
      BY <2>1, <3>1 DEF Audit!Smi
    <3> QED BY <3>2 DEF Audit!Next
  <2>3. CASE c # Core
    <3>1. smi'[Core] = smi[Core]
      BY <1>12, <2>3 DEF Smi, TypeOK
    <3> QED BY <2>1, <3>1
  <2> QED BY <2>2, <2>3
<1>13. ASSUME NEW c \in Cores, Move(c) PROVE UNCHANGED (Audit!vars)
  BY <1>13 DEF Move, local, report
<1>14. CASE UNCHANGED vars
  BY <1>14 DEF vars, local, report, environment
<1> QED
  BY <1>1, <1>2, <1>3, <1>4, <1>5, <1>6, <1>7, <1>8, <1>9, <1>10, <1>11, <1>12,
     <1>13, <1>14 DEF Next, Thread

LEMMA StepsRefine == Init /\ [][Next]_vars => ImplementsWindowAudit
<1>1. TypeOK /\ IInv /\ [Next]_vars => [Audit!Next]_(Audit!vars)
  BY RefinesNext
<1> QED BY <1>1, RefinesInit, TypesHold, IInvHolds, PTL DEF ImplementsWindowAudit, Audit!Spec

(* Every behaviour of the measurement is one of the full-window policy.    *)
THEOREM Refinement == Spec => ImplementsWindowAudit
<1> QED BY StepsRefine, PTL DEF Spec

----------------------------------------------------------------------------
(* The verdict of the report is that of its histogram.                     *)
Judged ==
  status = "VIS_OK" => results.determinism_pass = DeterminismPass(histogram, Threshold)

LEMMA JudgedPreserved ==
  ASSUME IInv, Judged, [Next]_vars
  PROVE  Judged'
<1>1. CASE Finish
  <2>1. CASE status' # "VIS_OK"
    BY <2>1 DEF Judged
  <2>2. CASE status' = "VIS_OK"
    <3>1. /\ results' = [results EXCEPT
                          !.latency = Summary(histogram),
                          !.determinism_pass = DeterminismPass(histogram, Threshold)]
          /\ histogram' = histogram
      BY <1>1, <2>2 DEF Finish, Judge, Return
    <3>2. results \in ResultsType
      BY DEF IInv, TypeOK
    <3>3. results'.determinism_pass = DeterminismPass(histogram, Threshold)
      BY <3>1, <3>2 DEF ResultsType
    <3> QED BY <3>1, <3>3 DEF Judged, DeterminismPass, Percentile, TargetRank
  <2> QED BY <2>1, <2>2
<1>2. CASE Thread /\ ~Finish
  <2>1. pc # "done" /\ status' # "VIS_OK"
    <3>1. pc # "done"
      BY <1>2 DEF Thread, RejectCore, Pin, OpenMsr, SetUp, BeginWindow, StartSample,
         FinishSample, EndWindow, EndWindowUnread
    <3>2. status # "VIS_OK"
      BY <3>1 DEF IInv, StatusIsGiven
    <3> QED BY <1>2, <3>1, <3>2 DEF Thread, RejectCore, Pin, OpenMsr, SetUp, BeginWindow,
           StartSample, FinishSample, EndWindow, EndWindowUnread, Return
  <2> QED BY <2>1 DEF Judged
<1>3. CASE UNCHANGED <<status, results, histogram>>
  BY <1>3 DEF Judged, DeterminismPass, Percentile, TargetRank, Cumulative
<1>4. Tick \/ (\E c \in Cores : Smi(c) \/ Move(c)) \/ UNCHANGED vars
        => UNCHANGED <<status, results, histogram>>
  BY DEF Tick, Smi, Move, vars, report
<1> QED BY <1>1, <1>2, <1>3, <1>4 DEF Next

----------------------------------------------------------------------------
(* The program around the call: where main is, and what is in the file.    *)
MainIsAt ==
  /\ main \in {"arguments", "call", "ended"}
  /\ main = "arguments" => pc = "pin"
  /\ main # "ended" => file = Earlier
  /\ main = "ended" /\ exit_code = 0 /\ pc = "done" =>
       /\ status = "VIS_OK" /\ results.determinism_pass
       /\ file.kind = "whole" => file = Document

JInv == IInv /\ Judged /\ MainIsAt

(* Every step of the program is one of the call's, or leaves it alone.     *)
LEMMA JitterSteps == [JitterNext]_<<vars, jitter>> => [Next]_vars
BY DEF JitterNext, Main, Arguments, MeasurementFailed, Save, Call

LEMMA MainKept ==
  ASSUME IInv, MainIsAt, [JitterNext]_<<vars, jitter>>
  PROVE  MainIsAt'
<1> USE DEF MainIsAt
<1>1. CASE Arguments
  <2>1. main = "arguments" /\ pc = "pin" /\ pc' = pc /\ file' = file
    BY <1>1 DEF Arguments, vars
  <2>2. main' \in {"call", "ended"} /\ file = Earlier
    BY <1>1, <2>1 DEF Arguments, Ends
  <2> QED BY <2>1, <2>2
<1>2. CASE MeasurementFailed
  BY <1>2 DEF MeasurementFailed, Returned, Ends
<1>3. CASE Save
  <2>1. /\ main = "call" /\ pc = "done" /\ status = "VIS_OK" /\ main' = "ended"
        /\ \/ /\ exit_code' = IF results.determinism_pass THEN 0 ELSE 1
              /\ file' \in {file, Document, Torn}
           \/ exit_code' = 1
        /\ UNCHANGED <<pc, status, results, histogram, audit>>
    BY <1>3 DEF Save, Returned, Ends, vars, report
  <2>2. file = Earlier /\ Earlier.kind = "earlier" /\ Torn.kind = "torn"
    BY <2>1 DEF Earlier, Torn
  <2>3. Document' = Document
    BY <2>1 DEF Document
  <2>4. CASE exit_code' = 0
    <3>1. results.determinism_pass /\ file' \in {file, Document, Torn}
      BY <2>1, <2>4
    <3>2. file'.kind = "whole" => file' = Document
      BY <2>2, <3>1
    <3> QED BY <2>1, <2>3, <3>1, <3>2
  <2>5. CASE exit_code' # 0
    BY <2>1, <2>5
  <2> QED BY <2>4, <2>5
<1>4. CASE Call
  <2>1. main = "call" /\ UNCHANGED <<main, file, exit_code>>
    BY <1>4 DEF Call, jitter
  <2> QED BY <2>1
<1>5. CASE UNCHANGED <<vars, jitter>>
  <2>1. UNCHANGED <<main, file, exit_code, pc, status, results, histogram, audit>>
    BY <1>5 DEF vars, report, jitter
  <2>2. Document' = Document
    BY <2>1 DEF Document
  <2> QED BY <2>1, <2>2
<1> QED BY <1>1, <1>2, <1>3, <1>4, <1>5 DEF JitterNext, Main

(* The program keeps every invariant of the call (main).                   *)
LEMMA ProgramMeasures == JitterSpec => Init /\ [][Next]_vars
<1> QED BY JitterSteps, PTL DEF JitterSpec, JitterInit

LEMMA JInvHolds == JitterSpec => []JInv
<1>1. JitterInit => Judged /\ MainIsAt
  BY DEF JitterInit, Init, Judged, MainIsAt
<1>2. IInv /\ Judged /\ MainIsAt /\ [JitterNext]_<<vars, jitter>> => Judged' /\ MainIsAt'
  BY JitterSteps, JudgedPreserved, MainKept
<1>3. JitterSpec => []IInv
  BY ProgramMeasures, IInvHolds, PTL
<1> QED BY <1>1, <1>2, <1>3, PTL DEF JitterSpec, JInv

----------------------------------------------------------------------------
(* A P99 within a threshold inside the range: at least 99 % of the samples *)
(* are in buckets whose midpoint is.                                       *)
LEMMA PassCounts ==
  ASSUME histogram \in HistogramType, histogram.total # 0, Threshold < Ceiling,
         DeterminismPass(histogram, Threshold)
  PROVE  99 * histogram.total <= 100 * CountWithin(Threshold)
<1> DEFINE n == histogram.total
           target == RankInDoubles(P99, n)
           m == Percentile(histogram, P99)
           Within == {b \in Bucket : b * Width + Width \div 2 <= Threshold}
<1> USE HistogramAssumption
<1>1. n \in Nat \ {0}
  BY DEF HistogramType
<1>2. target \in Nat /\ 99 * n <= 100 * target
  BY <1>1, RanksInOrder, RankOf99
<1>3. PercentileBucket(histogram, target, m)
  BY <1>1, <1>2, PercentileIsOfBucket
<1>4. m <= Threshold
  BY DEF DeterminismPass
<1>5. Ceiling \in Nat /\ Width \in Nat \ {0} /\ Width \div 2 \in Nat
  BY DEF Ceiling
<1> HIDE DEF m, target, n
<1>6. PICK b \in Bucket : /\ m = b * Width + Width \div 2
                          /\ Cumulative(histogram, b) >= target
  BY <1>3, <1>4, <1>5 DEF PercentileBucket
<1>7. 0 .. b \in SUBSET Within
  <2>1. SUFFICES ASSUME NEW c \in 0 .. b
                 PROVE  c \in Bucket /\ c * Width + Width \div 2 <= Threshold
    OBVIOUS
  <2>2. c \in Bucket /\ c \in Nat /\ b \in Nat /\ c <= b
    BY DEF Bucket
  <2>3. c * Width <= b * Width /\ c * Width \in Nat /\ b * Width \in Nat
    BY <1>5, <2>2
  <2> QED BY <1>4, <1>5, <1>6, <2>2, <2>3
<1>8. Cumulative(histogram, b) <= CountWithin(Threshold)
  <2>1. /\ IsFiniteSet(Within) /\ Within \in SUBSET Bucket
        /\ \A c \in Within : histogram.buckets[c] \in Nat
    BY CumulativeGrows, FS_Subset DEF HistogramType
  <2> HIDE DEF Within
  <2>2. SumFunctionOnSet(histogram.buckets, 0 .. b) <=
          SumFunctionOnSet(histogram.buckets, Within)
    BY <1>7, <2>1, SumSplits
  <2> QED BY <2>2 DEF Cumulative, CountWithin, Within
<1>9. Cumulative(histogram, b) \in Nat /\ CountWithin(Threshold) \in Nat
  BY CumulativeGrows DEF CountWithin
<1>10. 99 * n <= 100 * CountWithin(Threshold)
  BY <1>1, <1>2, <1>6, <1>8, <1>9
<1> QED BY <1>10 DEF n

(* Exit code 0 of a measurement is earned, for every threshold inside the  *)
(* histogram's range: by samples, 99 % of them within the threshold, none  *)
(* spoiled while the pinning lasted; and the saved report says the same    *)
(* (main, vis_jitter_run, vis_measure).                                    *)
THEOREM PassesAreEarned ==
  ASSUME Threshold < Ceiling
  PROVE  JitterSpec => []PassIsEarned
<1>1. ASSUME JInv, main = "ended", exit_code = 0, pc = "done"
      PROVE  /\ 0 < histogram.total /\ 99 * histogram.total <= 100 * CountWithin(Threshold)
             /\ moves = 0 => tainted = 0
             /\ ~fd
             /\ file.kind = "whole" =>
                  file.verdict = "PASS" /\ file.accepted = histogram.total
  <2>1. /\ status = "VIS_OK" /\ results.determinism_pass
        /\ file.kind = "whole" => file = Document
    BY <1>1 DEF JInv, MainIsAt
  <2>2. /\ histogram.total = results.samples_accepted /\ results.samples_accepted > 0
        /\ histogram \in HistogramType /\ histogram.total \in Nat
    BY <1>1, <2>1 DEF JInv, IInv, TypeOK, Accounting, StatusIsGiven, HistogramType
  <2>3. DeterminismPass(histogram, Threshold)
    BY <1>1, <2>1 DEF JInv, Judged
  <2>4. 99 * histogram.total <= 100 * CountWithin(Threshold)
    BY <2>2, <2>3, PassCounts
  <2>5. moves = 0 => tainted = 0
    BY <1>1 DEF JInv, IInv, SpoilsAreSeen
  <2>6. ~fd
    BY <1>1 DEF JInv, IInv, DeviceIsHeldOnlyWhileMeasuring
  <2>7. Document.verdict = "PASS" /\ Document.accepted = results.samples_accepted
    BY <2>1 DEF Document
  <2> QED BY <2>1, <2>2, <2>4, <2>5, <2>6, <2>7
<1>2. JInv => PassIsEarned
  BY <1>1 DEF PassIsEarned
<1> QED BY <1>2, JInvHolds, PTL
=============================================================================
