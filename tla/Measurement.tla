----------------------------- MODULE Measurement -----------------------------
(***************************************************************************)
(* One call of vis_jitter_run (src/vis-jitter/src/measurement.cpp): the    *)
(* measuring thread pins itself to Core, samples its workload in windows,  *)
(* reads Core's SMI counter around each window and reports.  Beside it act *)
(* the firmware (SMIs on any core), the clock, and whoever may change the  *)
(* thread's affinity afterwards.  Every MSR read may fail.                 *)
(***************************************************************************)
EXTENDS Histogram

CONSTANTS
  Cores, Core,   \* the cores; the one under measurement
  WindowSize,    \* VIS_WINDOW_SIZE
  Duration,      \* duration_sec, in ticks of the clock
  MaxWindows,    \* bound: how many windows may begin within Duration
  MaxSmi,        \* bound: SMIs on one core
  MaxMoves,      \* bound: times the thread is moved to another core
  Latencies,     \* the latencies a sample may have
  Threshold      \* threshold_ns

ASSUME MeasurementAssumption ==
  /\ Core \in Cores
  /\ WindowSize \in Nat \ {0}
  /\ Duration \in Nat \ {0}
  /\ MaxWindows \in Nat /\ MaxSmi \in Nat /\ MaxMoves \in Nat
  /\ Latencies \subseteq Nat
  /\ Threshold \in Nat

VARIABLES
  pc, status, fd,         \* the thread; whether it holds the MSR device open
  core0, smi_start, i, deltas,   \* locals of the window loop
  histogram, audit, results,     \* vis_histogram_t, vis_smi_audit_t, vis_results_t
  cpu, smi, clock,        \* where the thread runs; SMI counters; time elapsed
  moves,                  \* history: times the thread was moved
  windows,                \* history: windows completed
  spoiled,   \* history: an SMI, or another core, got into the sample being timed
  spoils,    \* history: how many samples kept by the open window were spoiled
  tainted    \* history: how many accepted samples were spoiled

local == <<core0, smi_start, i, deltas>>
report == <<histogram, audit, results>>
environment == <<cpu, smi, clock, moves>>
history == <<windows, spoiled, spoils, tainted>>
vars == <<pc, status, fd, local, report, environment, history>>

Statuses == {"VIS_OK", "VIS_ERR_AFFINITY", "VIS_ERR_MSR", "VIS_ERR_NO_SAMPLES",
             "VIS_ERR_INVALID_ARG"}

(* Where the thread is: about to validate and pin, open the device, set up *)
(* the report, test the clock, time a sample, or inside one.               *)
Places == {"pin", "open", "setup", "loop", "sample", "timing", "done"}

NoSummary == [min |-> 0, p50 |-> 0, p99 |-> 0, p999 |-> 0, p9999 |-> 0, max |-> 0]

NoAudit == [msr_start |-> 0, msr_end |-> 0, msr_delta |-> 0,
            contaminated_windows |-> 0, samples_rejected |-> 0]
NoResults == [samples_accepted |-> 0, core_migration_rejected |-> 0,
              latency |-> NoSummary, determinism_pass |-> FALSE]

AuditType == [msr_start : Nat, msr_end : Nat, msr_delta : Int,
              contaminated_windows : Nat, samples_rejected : Nat]
SummaryType == [min : Int, p50 : Int, p99 : Int, p999 : Int, p9999 : Int, max : Int]
ResultsType == [samples_accepted : Nat, core_migration_rejected : Nat,
                latency : SummaryType, determinism_pass : BOOLEAN]

TypeOK ==
  /\ pc \in Places /\ status \in Statuses \cup {"running"} /\ fd \in BOOLEAN
  /\ core0 \in Cores /\ smi_start \in Nat
  /\ i \in Nat /\ deltas \in Seq(Latencies)
  /\ histogram \in HistogramType /\ audit \in AuditType /\ results \in ResultsType
  /\ cpu \in Cores /\ smi \in [Cores -> Nat] /\ clock \in Nat /\ moves \in Nat
  /\ windows \in Nat /\ spoiled \in BOOLEAN /\ spoils \in Nat /\ tainted \in Nat

Init ==
  /\ pc = "pin" /\ status = "running" /\ fd = FALSE
  /\ core0 = Core /\ smi_start = 0 /\ i = 0 /\ deltas = <<>>
  /\ histogram = EmptyHistogram /\ audit = NoAudit /\ results = NoResults
  /\ cpu \in Cores /\ smi = [c \in Cores |-> 0] /\ clock = 0 /\ moves = 0
  /\ windows = 0 /\ spoiled = FALSE /\ spoils = 0 /\ tainted = 0

(* Every return of vis_measure after the open goes through vis_msr_close.  *)
Return(s) ==
  /\ pc' = "done"
  /\ status' = s
  /\ fd' = FALSE

----------------------------------------------------------------------------
(* The core is invalid or offline: before anything, or when pinning.       *)
RejectCore ==
  /\ pc = "pin"
  /\ \E s \in {"VIS_ERR_INVALID_ARG", "VIS_ERR_AFFINITY"} : Return(s)
  /\ UNCHANGED <<local, report, environment, history>>

Pin ==
  /\ pc = "pin"
  /\ cpu' = Core
  /\ pc' = "open"
  /\ UNCHANGED <<status, fd, local, report, smi, clock, moves, history>>

OpenMsr ==
  /\ pc = "open"
  /\ \/ /\ fd' = TRUE /\ pc' = "setup" /\ UNCHANGED status
     \/ Return("VIS_ERR_MSR")
  /\ UNCHANGED <<local, report, environment, history>>

(* The TSC frequency is known (0.0 is an error), the report is cleared and *)
(* the initial counter read; then the clock starts.                        *)
SetUp ==
  /\ pc = "setup"
  /\ \/ /\ audit' = [NoAudit EXCEPT !.msr_start = smi[Core]]
        /\ pc' = "loop" /\ UNCHANGED <<status, fd>>
     \/ Return("VIS_ERR_MSR") /\ audit' = NoAudit
     \/ Return("VIS_ERR_INVALID_ARG") /\ UNCHANGED audit
  /\ histogram' = EmptyHistogram
  /\ results' = NoResults
  /\ UNCHANGED <<local, environment, history>>

BeginWindow ==
  /\ pc = "loop" /\ clock < Duration
  /\ windows < MaxWindows
  /\ \/ /\ smi_start' = smi[Core]
        /\ pc' = "sample" /\ UNCHANGED <<status, fd>>
     \/ Return("VIS_ERR_MSR") /\ UNCHANGED smi_start
  /\ UNCHANGED <<core0, i, deltas, report, environment, history>>

(* t0 = rdtscp(&core0) *)
StartSample ==
  /\ pc = "sample" /\ i < WindowSize
  /\ core0' = cpu
  /\ pc' = "timing"
  /\ spoiled' = (cpu # Core)
  /\ UNCHANGED <<status, fd, smi_start, i, deltas, report, environment,
                 windows, spoils, tainted>>

(* Mutant: a sample that migrated is dropped without being counted.        *)
FinishSampleUncounted(ns) ==
  /\ pc = "timing"
  /\ pc' = "sample"
  /\ i' = i + 1
  /\ IF core0 # cpu THEN UNCHANGED <<deltas, spoils>>
     ELSE /\ deltas' = Append(deltas, ns)
          /\ spoils' = spoils + (IF spoiled THEN 1 ELSE 0)
  /\ spoiled' = FALSE
  /\ UNCHANGED <<status, fd, core0, smi_start, results, histogram, audit,
                 environment, windows, tainted>>

(* t1 = rdtscp(&core1), and the sample is kept unless the cores differ.    *)
FinishSample(ns) ==
  /\ pc = "timing"
  /\ pc' = "sample"
  /\ i' = i + 1
  /\ \/ /\ core0 # cpu
        /\ results' = [results EXCEPT !.core_migration_rejected = @ + 1]
        /\ UNCHANGED <<deltas, spoils>>
     \/ /\ core0 = cpu
        /\ deltas' = Append(deltas, ns)
        /\ spoils' = spoils + (IF spoiled THEN 1 ELSE 0)
        /\ UNCHANGED results
  /\ spoiled' = FALSE
  /\ UNCHANGED <<status, fd, core0, smi_start, histogram, audit, environment,
                 windows, tainted>>

(* Mutant: a single SMI goes unnoticed.                                    *)
SmiPairDetected(start, end) == end > start + 1
(* Mutant: every window counts as contaminated.                            *)
SmiAlwaysDetected(start, end) == end >= start

SmiDetected(start, end) == end > start       \* vis_smi_detected

(* Mutant: a window is taken to have all its samples.                      *)
AcceptWholeWindow ==
  /\ histogram' = AddAll(histogram, deltas)
  /\ results' = [results EXCEPT !.samples_accepted = @ + WindowSize]
  /\ tainted' = tainted + spoils
  /\ UNCHANGED audit

AcceptWindow ==
  /\ histogram' = AddAll(histogram, deltas)
  /\ results' = [results EXCEPT !.samples_accepted = @ + Len(deltas)]
  /\ tainted' = tainted + spoils
  /\ UNCHANGED audit

(* Mutant: a count with the wrong sign.                                    *)
RejectWindowNegative ==
  /\ audit' = [audit EXCEPT !.contaminated_windows = @ + 1,
                            !.samples_rejected = @ - Len(deltas)]
  /\ UNCHANGED <<histogram, results, tainted>>

RejectWindow ==
  /\ audit' = [audit EXCEPT !.contaminated_windows = @ + 1,
                            !.samples_rejected = @ + Len(deltas)]
  /\ UNCHANGED <<histogram, results, tainted>>

(* The counter is read again after the last sample of the window.          *)
EndWindow ==
  /\ pc = "sample" /\ i = WindowSize
  /\ IF SmiDetected(smi_start, smi[Core]) THEN RejectWindow ELSE AcceptWindow
  /\ pc' = "loop" /\ i' = 0 /\ deltas' = <<>>
  /\ windows' = windows + 1 /\ spoils' = 0
  /\ UNCHANGED <<status, fd, core0, smi_start, environment, spoiled>>

(* Mutant: an early return without vis_msr_close.                          *)
EndWindowLeaking ==
  /\ pc = "sample" /\ i = WindowSize
  /\ pc' = "done" /\ status' = "VIS_ERR_MSR"
  /\ UNCHANGED <<fd, local, report, environment, history>>

EndWindowUnread ==
  /\ pc = "sample" /\ i = WindowSize
  /\ Return("VIS_ERR_MSR")
  /\ UNCHANGED <<local, report, environment, history>>

(* Mutant: a verdict on no samples.                                        *)
JudgeAnyway ==
  /\ Return("VIS_OK")
  /\ results' = [results EXCEPT
                   !.latency = Summary(histogram),
                   !.determinism_pass = DeterminismPass(histogram, Threshold)]

(* After the loop: the final counter, and the verdict of vis_jitter_run    *)
(* when there is any sample to judge.                                      *)
Judge ==
  IF results.samples_accepted = 0
  THEN Return("VIS_ERR_NO_SAMPLES") /\ UNCHANGED results
  ELSE /\ Return("VIS_OK")
       /\ results' = [results EXCEPT
                        !.latency = Summary(histogram),
                        !.determinism_pass = DeterminismPass(histogram, Threshold)]

(* Mutant: the loop waits for a sample it can accept.                      *)
FinishWithSamples ==
  /\ pc = "loop" /\ clock >= Duration
  /\ results.samples_accepted > 0
  /\ audit' = [audit EXCEPT !.msr_end = smi[Core],
                            !.msr_delta = smi[Core] - audit.msr_start]
  /\ Judge
  /\ UNCHANGED <<histogram, local, environment, history>>

Finish ==
  /\ pc = "loop" /\ clock >= Duration
  /\ \/ /\ audit' = [audit EXCEPT !.msr_end = smi[Core],
                                  !.msr_delta = smi[Core] - audit.msr_start]
        /\ Judge
     \/ Return("VIS_ERR_MSR") /\ UNCHANGED <<audit, results>>
  /\ UNCHANGED <<histogram, local, environment, history>>

Thread ==
  \/ RejectCore \/ Pin \/ OpenMsr \/ SetUp \/ BeginWindow \/ StartSample
  \/ (\E ns \in Latencies : FinishSample(ns))
  \/ EndWindow \/ EndWindowUnread \/ Finish

----------------------------------------------------------------------------
(* Firmware: an SMI on core c, which counts it.                            *)
Smi(c) ==
  /\ smi[c] < MaxSmi
  /\ smi' = [smi EXCEPT ![c] = @ + 1]
  /\ spoiled' = (spoiled \/ (pc = "timing" /\ c = cpu))
  /\ UNCHANGED <<pc, status, fd, local, report, cpu, clock, moves,
                 windows, spoils, tainted>>

Tick ==
  /\ pc \in {"loop", "sample", "timing"} /\ clock < Duration
  /\ clock' = clock + 1
  /\ UNCHANGED <<pc, status, fd, local, report, cpu, smi, moves, history>>

(* Somebody else moves the pinned thread: sched_setaffinity, a cpuset, or  *)
(* the core going offline.                                                 *)
Move(c) ==
  /\ pc \in {"open", "setup", "loop", "sample", "timing"}
  /\ moves < MaxMoves /\ c # cpu
  /\ cpu' = c
  /\ moves' = moves + 1
  /\ spoiled' = (spoiled \/ (pc = "timing" /\ c # Core))
  /\ UNCHANGED <<pc, status, fd, local, report, smi, clock,
                 windows, spoils, tainted>>

Next == Thread \/ Tick \/ (\E c \in Cores : Smi(c) \/ Move(c))

(* The scheduler runs the thread, the workload returns, time passes.       *)
Fairness == WF_vars(Thread) /\ WF_vars(Tick)

Spec == Init /\ [][Next]_vars /\ Fairness

----------------------------------------------------------------------------
(* Every sample timed is accounted for once: it was accepted, rejected     *)
(* with its window, rejected for migrating, or is in the open window; and  *)
(* the histogram holds the accepted ones (vis_measure's counters).         *)
Accounting ==
  /\ results.samples_accepted + audit.samples_rejected
       + results.core_migration_rejected + Len(deltas)
     = windows * WindowSize + i
  /\ histogram.total = results.samples_accepted

(* The report's two SMI figures agree: each contaminated window took an    *)
(* SMI of its own, so msr_delta is at least their number (it may be more:  *)
(* SMIs between windows), and a run without SMIs rejected nothing.         *)
ContaminationIsExplained ==
  status \in {"VIS_OK", "VIS_ERR_NO_SAMPLES"} =>
    /\ audit.contaminated_windows <= audit.msr_delta
    /\ audit.msr_delta = 0 => audit.samples_rejected = 0

(* "If any SMI occurs in a window, all samples in that window are          *)
(* discarded" (README.md): as long as nobody undoes the pinning, no        *)
(* accepted sample was interrupted by an SMI or ran on another core.       *)
PinnedSamplesAreClean == moves = 0 => tainted = 0

(* The same with no such proviso: vis_jitter_run "rejects samples where    *)
(* the thread migrated to a different core" (vis_jitter.hpp).              *)
AcceptedSamplesAreClean == tainted = 0

(* A PASS is earned by samples: only a call that succeeded with accepted   *)
(* samples carries a verdict or latencies, and a failed one carries none,  *)
(* however much it had counted before it failed (vis_jitter_run).          *)
VerdictNeedsSamples ==
  /\ results.determinism_pass => status = "VIS_OK"
  /\ results.latency # NoSummary => status = "VIS_OK"
  /\ status = "VIS_OK" => results.samples_accepted > 0
  /\ status = "VIS_ERR_NO_SAMPLES" => results.samples_accepted = 0

(* No return, early or late, leaks the MSR descriptor, and every counter   *)
(* is read while it is open (vis_measure's vis_msr_close calls).           *)
DeviceIsHeldOnlyWhileMeasuring ==
  fd <=> pc \in {"setup", "loop", "sample", "timing"}

(* The measurement implements the audit policy.                            *)
Audit == INSTANCE WindowAudit WITH
  count    <- smi[Core],
  opened   <- IF pc \in {"sample", "timing"} THEN smi_start ELSE -1,
  accepted <- results.samples_accepted,
  rejected <- audit.samples_rejected,
  migrated <- results.core_migration_rejected - (i - Len(deltas)),
  outcome  <- status

(* Full-window rejection: as seen from outside, samples are accepted or    *)
(* rejected a whole window at a time, and accepted only if the audited     *)
(* core's counter stood still from the window's opening to its closing.    *)
ImplementsWindowAudit == Audit!Spec
=============================================================================
