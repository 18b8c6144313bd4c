------------------------------- MODULE Doctor -------------------------------
(***************************************************************************)
(* vis-doctor (src/vis-jitter/src/doctor_main.cpp and doctor.cpp), run     *)
(* again and again: inspect the machine, scan its CPUs one after the       *)
(* other, compare with the report an earlier run saved, write the report   *)
(* whose runtime policy vis-run will enforce.                              *)
(*                                                                         *)
(* What vis_jitter_run says of a CPU is the environment's choice, from     *)
(* Outcomes (module Measurement says which of them there are).  Every run  *)
(* writes to, and compares with, one file; a report for another file, or   *)
(* for none, leaves it alone.  A write that meets a full disk is cut off   *)
(* after a row and still succeeds: vis_doctor_write_file looks at the      *)
(* stream when it opened it, and no more.                                  *)
(***************************************************************************)
EXTENDS DoctorAnalysis, RunPolicy

CONSTANTS
  OnlineSets,    \* the sets of CPUs that may be online while the n-th run inspects
  Machines,      \* the machines that the n-th run may be made on
  Durations,     \* --duration
  DiskMayFill,   \* whether a write may be cut off
  Outcomes,      \* what vis_jitter_run may report
  MaxRuns        \* bound: runs of vis-doctor

OutcomeType ==
  [status : STRING, rate : Nat, contaminated : Nat, migrated : Nat, pass : BOOLEAN]

ASSUME DoctorAssumption ==
  /\ OnlineSets \in [1 .. MaxRuns -> SUBSET SUBSET CpuIds]
  /\ Machines \in [1 .. MaxRuns -> SUBSET MachineType]
  /\ Durations \subseteq Nat \ {0}
  /\ DiskMayFill \in BOOLEAN
  /\ Outcomes \subseteq OutcomeType
  /\ MaxRuns \in Nat

VARIABLES
  pc,          \* where the run is
  options,     \* --scan, --baseline, --duration
  report,      \* vis_doctor_report_t; cpus are machine.cpus, cores their keys
  measured,    \* history: what vis_jitter_run reported for each CPU scanned
  steady,      \* history: whether the same CPUs were online all through the inspection
  saved,       \* the report on disk
  exit_code,   \* of the last run that ended, 0 while one runs
  runs

vars == <<pc, options, report, measured, steady, saved, exit_code, runs>>

OptionsType == [scan : BOOLEAN, baseline : BOOLEAN, duration : Durations]
NoOptions == [scan |-> FALSE, baseline |-> FALSE, duration |-> 0]

NoReport ==
  [machine |-> <<>>, environment |-> <<>>, sensors |-> <<>>, cpus |-> {}, cores |-> <<>>,
   duration |-> 0, scan_ran |-> FALSE, scans |-> <<>>,
   baseline |-> NoBaseline, policy |-> NoPolicy, findings |-> {}, advice |-> {}]

Init ==
  /\ pc = "idle"
  /\ options = NoOptions
  /\ report = NoReport
  /\ measured = <<>> /\ steady = TRUE
  /\ saved = NoFile
  /\ exit_code = 0
  /\ runs = 0

(* SIGILL, as a shell reports it. *)
Killed == 132

(* The process ends, and its report with it. *)
Exit(code) ==
  /\ pc' = "idle" /\ exit_code' = code
  /\ options' = NoOptions /\ report' = NoReport
  /\ measured' = <<>> /\ steady' = TRUE

(* main reads its arguments: it helps with them, refuses them, a baseline  *)
(* without a scan among them, or goes to work.                             *)
Start ==
  /\ pc = "idle" /\ runs < MaxRuns
  /\ runs' = runs + 1
  /\ \/ \E code \in {0, 1} : Exit(code)
     \/ \E o \in OptionsType :
          /\ o.baseline => o.scan
          /\ pc' = "inspect" /\ options' = o /\ exit_code' = 0
          /\ UNCHANGED <<report, measured, steady>>
  /\ UNCHANGED saved

(* What vis_doctor_inspect finds of machine m: the list of CPUs is read,   *)
(* then the files of each CPU in turn, while the CPUs of during[c] are     *)
(* online.                                                                 *)
Inspected(m, during) ==
  Analyze([NoReport EXCEPT
    !.machine = m, !.environment = Environment(m), !.sensors = Sensors(m),
    !.cpus = DOMAIN during,
    !.cores = [c \in DOMAIN during |-> CoreKey(c, during[c])]])

(* vis_doctor_inspect, and the beginning of vis_doctor_scan_all.           *)
Inspect ==
  /\ pc = "inspect"
  /\ \E m \in Machines[runs], online \in OnlineSets[runs] :
       \E during \in [ListedOnline(online) -> OnlineSets[runs]] :
         /\ steady' = (online = DOMAIN during /\ \A c \in online : during[c] = online)
         /\ report' = IF options.scan
                      THEN [Inspected(m, during) EXCEPT
                              !.duration = options.duration, !.scan_ran = TRUE]
                      ELSE Inspected(m, during)
  /\ pc' = IF options.scan THEN "scan" ELSE "write"
  /\ UNCHANGED <<options, measured, saved, exit_code, runs>>

Unscanned == report.cpus \ DOMAIN report.scans

(* Mutant: a CPU whose run failed gets no row. *)
ScanCpuIfItSucceeds ==
  /\ pc = "scan" /\ Unscanned # {}
  /\ \E c \in FirstCpus(Unscanned, 1), m \in Outcomes :
       /\ report' = IF m.status = "VIS_OK"
                    THEN [report EXCEPT !.scans = WithRow(@, c, ScanOf(m))]
                    ELSE [report EXCEPT !.cpus = @ \ {c}]
       /\ measured' = WithRow(measured, c, m)
  /\ UNCHANGED <<pc, options, steady, saved, exit_code, runs>>

(* One vis_jitter_run.  A CPU that went offline since gives an error.      *)
ScanCpu ==
  /\ pc = "scan" /\ Unscanned # {} /\ report.machine.rdtscp
  /\ \E c \in FirstCpus(Unscanned, 1), m \in Outcomes :
       /\ report' = [report EXCEPT !.scans = WithRow(@, c, ScanOf(m))]
       /\ measured' = WithRow(measured, c, m)
  /\ UNCHANGED <<pc, options, steady, saved, exit_code, runs>>

(* The measurement executes RDTSCP whatever the inspection said of it.  (A *)
(* machine without it that fails before that gives the error of a CPU.)    *)
IllegalInstruction ==
  /\ pc = "scan" /\ Unscanned # {} /\ ~report.machine.rdtscp
  /\ Exit(Killed)
  /\ UNCHANGED <<saved, runs>>

FinishScan ==
  /\ pc = "scan" /\ Unscanned = {}
  /\ report' = Analyze(report)
  /\ pc' = IF options.baseline THEN "baseline" ELSE "write"
  /\ UNCHANGED <<options, measured, steady, saved, exit_code, runs>>

(* Mutant: the baseline is loaded, but the report is not analyzed again. *)
LoadBaselineOnly ==
  /\ pc = "baseline"
  /\ IF CanCompare(saved, report.scans)
     THEN /\ report' = [report EXCEPT !.baseline = BaselineOf(saved, report.scans)]
          /\ pc' = "write" /\ UNCHANGED <<options, measured, steady, exit_code>>
     ELSE Exit(1)
  /\ UNCHANGED <<saved, runs>>

(* vis_doctor_load_baseline; when it fails, the scan is thrown away. *)
LoadBaseline ==
  /\ pc = "baseline"
  /\ IF CanCompare(saved, report.scans)
     THEN /\ report' = Analyze([report EXCEPT !.baseline = BaselineOf(saved, report.scans)])
          /\ pc' = "write" /\ UNCHANGED <<options, measured, steady, exit_code>>
     ELSE Exit(1)
  /\ UNCHANGED <<saved, runs>>

(* vis_doctor_write_file, of the JSON report and the Markdown summary: not  *)
(* asked for, or for another file; opened and written, in whole or in part; *)
(* or one of the two is not to be opened, the second after the first was    *)
(* written.                                                                 *)
Write ==
  /\ pc = "write"
  /\ \/ \E code \in {0, 1} : Exit(code) /\ UNCHANGED saved
     \/ /\ \E code \in {0, 1} : Exit(code)
        /\ \E n \in 0 .. Cardinality(report.cpus) :
             /\ n = Cardinality(report.cpus) \/ DiskMayFill
             /\ saved' = SavedReport(report, n)
  /\ UNCHANGED runs

Next == Start \/ Inspect \/ ScanCpu \/ IllegalInstruction \/ FinishScan \/ LoadBaseline \/ Write

Spec == Init /\ [][Next]_vars

----------------------------------------------------------------------------
Warnings ==
  {"limited_hardware_evidence", "partial_hardware_evidence", "smt_active",
   "powersave_governor", "existing_isolation", "no_persistent_hugepages",
   "thp_always_enabled", "swap_configured", "smi_contaminated_windows_detected",
   "lower_throughput_cpu_class_detected", "short_scan_requires_longer_validation",
   "baseline_cpu_pressure_detected"}

PolicyType ==
  [available : BOOLEAN, primary : SUBSET CpuIds, secondary : SUBSET CpuIds,
   avoid : SUBSET CpuIds, contaminated : SUBSET CpuIds,
   requires_longer_validation : BOOLEAN, warnings : SUBSET Warnings]

ScanType ==
  [status : {m.status : m \in Outcomes}, rate : Nat, contaminated : Nat,
   clean : BOOLEAN, class : {"", Lower, Higher}]

(* The type of the variables: a report lists only CPUs that are online, and *)
(* has one row for each CPU that vis_jitter_run was called for.             *)
TypeOK ==
  /\ pc \in {"idle", "inspect", "scan", "baseline", "write"}
  /\ options \in OptionsType \cup {NoOptions}
  /\ report.cpus \subseteq CpuIds
  /\ report.policy \in PolicyType
  /\ report.baseline.affected \subseteq report.cpus
  /\ DOMAIN report.scans = DOMAIN measured
  /\ DOMAIN measured \subseteq report.cpus
  /\ \A c \in DOMAIN measured : report.scans[c] \in ScanType
  /\ DOMAIN saved.scan \subseteq CpuIds
  /\ exit_code \in {0, 1, Killed}
  /\ runs \in 0 .. MaxRuns

(* A report that will be written after a scan. *)
Reporting == pc = "write" /\ report.scan_ran

Succeeded(c) == measured[c].status = "VIS_OK"

(* What a CPU must have shown to be given to a critical workload. *)
Fit(c) ==
  /\ Succeeded(c) /\ measured[c].pass
  /\ measured[c].contaminated = 0 /\ measured[c].migrated = 0
  /\ \A d \in DOMAIN measured : Succeeded(d) => 2 * measured[c].rate >= measured[d].rate

(* Every CPU a policy assigns was measured fit in this very scan, whatever *)
(* passes over the scans the lists went through, and no list contradicts   *)
(* another.  (clean_higher_throughput_scans, vis_doctor_analyze)           *)
PolicyIsSafe ==
  Reporting =>
    \A c \in report.policy.primary \cup report.policy.secondary :
      /\ c \in DOMAIN measured /\ Fit(c)
      /\ c \notin report.policy.avoid \cup report.policy.contaminated

(* Of each physical core with a fit CPU the primary list has exactly one,  *)
(* unless it is full, and then it has the lowest numbered ones; provided   *)
(* that no CPU came or went during the inspection, which may give two      *)
(* siblings different keys, or two cores the same.                         *)
(* (sibling_aware_primary_candidates, physical_core_key)                   *)
PrimaryIsSiblingAware ==
  Reporting /\ steady =>
    LET p == report.policy.primary IN
    /\ \A c, d \in p : c # d => CoreOf[c] # CoreOf[d]
    /\ \A c \in DOMAIN measured \ p :
         Fit(c) => \/ \E d \in p : d < c /\ CoreOf[d] = CoreOf[c]
                   \/ Cardinality(p) = PrimaryLimit /\ \A d \in p : d < c

(* vis-run accepts the primary and the secondary list of every policy that *)
(* calls itself available, and none of another: the two programs agree on  *)
(* what a policy is.  (vis_doctor_analyze against vis_run_select_cpus)     *)
PolicyIsUsable ==
  pc = "write" =>
    \A source \in {"primary", "secondary"} :
      report.policy.available <=> Selectable(report.policy, source)

(* A CPU whose successful scan met contaminated windows is avoided, is     *)
(* warned of, is a finding, and leaves an event in every attestation.      *)
MeasuredContaminationIsExplicit ==
  Reporting =>
    \A c \in DOMAIN measured :
      Succeeded(c) /\ measured[c].contaminated > 0 =>
        /\ c \in report.policy.avoid \cap report.policy.contaminated
        /\ WarningEvent.smi_contaminated_windows_detected \in PolicyEvents(report.policy)
        /\ \E f \in report.findings : f[1] = "smi" /\ c \in f[2]

(* A report says of itself how far it may be trusted, after one analysis   *)
(* of it as after three: its evidence is strong, or it names a limitation  *)
(* and its policy and its findings warn of it; strong evidence has a       *)
(* strong MSR sensor behind it; and no sensor that could be read lacks a   *)
(* quality.  (detect_environment, detect_sensors, vis_doctor_analyze)      *)
EvidenceIsQualified ==
  pc = "write" =>
    LET strong == report.environment.quality = "strong"
        hardware == {"limited_hardware_evidence", "partial_hardware_evidence"}
    IN
    /\ strong <=> report.environment.limitations = {}
    /\ strong <=> report.policy.warnings \cap hardware = {}
    /\ strong => report.sensors.msr.quality = "strong"
    /\ \A w \in report.policy.warnings \cap hardware : <<w, {}>> \in report.findings
    /\ \A s \in DOMAIN report.sensors :
         /\ report.sensors[s].available => report.sensors[s].quality # "unavailable"
         /\ report.sensors[s].quality = "strong" => report.sensors[s].limitations = {}

(* A CPU that accepts 40 % fewer samples than the saved report says it did *)
(* is named, and the policy warns, whatever else is in the saved report.   *)
(* (vis_doctor_load_baseline, and the analysis that must follow it)        *)
DropIsReported ==
  Reporting /\ options.baseline =>
    \A c \in DOMAIN saved.scan \cap DOMAIN measured :
      saved.scan[c] > 0 /\ 5 * report.scans[c].rate <= 3 * saved.scan[c] =>
        /\ "baseline_cpu_pressure_detected" \in report.policy.warnings
        /\ \E f \in report.findings : f[1] = "cpu_pressure" /\ c \in f[2]

(* "contaminated CPU must be explicit avoid policy."                       *)
(* (tests/test_doctor.cpp:153)  Violated: the counters of a scan that      *)
(* ended without accepted samples are dropped.                             *)
ContaminatedIsExplicit ==
  Reporting =>
    \A c \in DOMAIN measured :
      measured[c].contaminated > 0 => c \in report.policy.avoid

(* "Accepted sample throughput dropped compared to baseline."              *)
(* (doctor.cpp:1096)  Violated when the saved report holds a comparison of *)
(* its own: its CPUs are compared with the first CPU's rate.               *)
PressureIsReal ==
  Reporting /\ report.baseline.pressure =>
    \E c \in DOMAIN saved.scan \cap DOMAIN measured :
      saved.scan[c] > report.scans[c].rate
=============================================================================
