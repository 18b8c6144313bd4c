--------------------------- MODULE DoctorAnalysis ---------------------------
(***************************************************************************)
(* vis_doctor_analyze and vis_doctor_load_baseline                         *)
(* (src/vis-jitter/src/doctor.cpp) as operators on a report.  The scans of *)
(* a report are a function of the CPU scanned: the program scans each CPU  *)
(* once, in ascending order.  Rates are natural numbers of samples per     *)
(* unit of time.                                                           *)
(***************************************************************************)
EXTENDS Integers, FiniteSets, Functions, Inspection

CONSTANTS
  PrimaryLimit,     \* 8
  SecondaryLimit,   \* 12
  LongScan          \* 60 seconds

ASSUME DoctorAnalysisAssumption ==
  /\ IsFiniteSet(CpuIds)
  /\ PrimaryLimit \in Nat \ {0} /\ SecondaryLimit \in Nat \ {0}
  /\ LongScan \in Nat

Lower == "lower_throughput_class"
Higher == "higher_throughput_class"

NoPolicy ==
  [available |-> FALSE, primary |-> {}, secondary |-> {}, avoid |-> {},
   contaminated |-> {}, requires_longer_validation |-> FALSE, warnings |-> {}]

(* How often each CPU was compared, which of them dropped, and the verdict. *)
NoBaseline ==
  [available |-> FALSE, compared |-> [c \in CpuIds |-> 0], affected |-> {},
   pressure |-> FALSE]

(* Mutant: contaminated windows are no objection. *)
IsCleanThoughContaminated(m) == m.pass /\ m.migrated = 0

(* clean_candidate, of what vis_jitter_run reported. *)
IsClean(m) == m.pass /\ m.contaminated = 0 /\ m.migrated = 0

(* A scan's row: the counters are copied only from a run that succeeded. *)
ScanOf(m) ==
  IF m.status = "VIS_OK"
  THEN [status |-> m.status, rate |-> m.rate, contaminated |-> m.contaminated,
        clean |-> IsClean(m), class |-> ""]
  ELSE [status |-> m.status, rate |-> 0, contaminated |-> 0, clean |-> FALSE, class |-> ""]

(* The rows with one more, of CPU c. *)
WithRow(rows, c, row) == [d \in {c} \cup DOMAIN rows |-> IF d = c THEN row ELSE rows[d]]

----------------------------------------------------------------------------
MaxRate(scans) == CHOOSE r \in {scans[c].rate : c \in DOMAIN scans} \cup {0} :
                    \A c \in DOMAIN scans : scans[c].rate <= r

Class(scan, max) == IF max > 0 /\ 2 * scan.rate < max THEN Lower ELSE Higher

Classified(scans) ==
  [c \in DOMAIN scans |-> [scans[c] EXCEPT !.class = Class(scans[c], MaxRate(scans))]]

Contaminated(scans) == {c \in DOMAIN scans : scans[c].contaminated > 0}
LowerClass(scans) == {c \in DOMAIN scans : scans[c].class = Lower}

(* Mutant: a clean CPU qualifies whatever its class. *)
CleanOfAnyClass(scans) == {c \in DOMAIN scans : scans[c].clean}

CleanHigher(scans) == {c \in DOMAIN scans : scans[c].clean /\ scans[c].class # Lower}

(* The first n of S in ascending order. *)
FirstCpus(S, n) == {c \in S : Cardinality({d \in S : d < c}) < n}

(* The lowest CPU of S with each key. *)
FirstOfCores(S, key) == {c \in S : \A d \in S : d < c => key[d] # key[c]}

(* Mutant: siblings are not told apart from cores. *)
PrimaryOfAnyCore(scans, key) == FirstCpus(CleanHigher(scans), PrimaryLimit)

PrimaryCandidates(scans, key) ==
  FirstCpus(FirstOfCores(CleanHigher(scans), key), PrimaryLimit)

(* Mutant: contaminated CPUs are listed, but not avoided. *)
AvoidedSlowCpus(scans) == LowerClass(scans)

AvoidedCpus(scans) == LowerClass(scans) \cup Contaminated(scans)

(* report->runtime_policy, from scans that are classified. *)
PolicyOf(r) ==
  LET short == r.duration < LongScan
      primary == PrimaryCandidates(r.scans, r.cores)
  IN
  [available    |-> primary # {},
   primary      |-> primary,
   secondary    |-> FirstCpus(CleanHigher(r.scans), SecondaryLimit),
   avoid        |-> AvoidedCpus(r.scans),
   contaminated |-> Contaminated(r.scans),
   requires_longer_validation |-> short,
   warnings |->
     MachineWarnings(r.machine, r.cpus)
     \cup When(Contaminated(r.scans) # {}, "smi_contaminated_windows_detected")
     \cup When(LowerClass(r.scans) # {}, "lower_throughput_cpu_class_detected")
     \cup When(short, "short_scan_requires_longer_validation")
     \cup When(r.baseline.pressure, "baseline_cpu_pressure_detected")]

(* The findings and the recommendations, by their subject and the CPUs     *)
(* they name.                                                              *)
MachineFindings(r) == {<<w, {}>> : w \in MachineWarnings(r.machine, r.cpus)}
GeneralAdvice(r) == {<<a, {}>> : a \in MachineAdvice(r.machine, r.cpus)}

FindingsOf(r) ==
  MachineFindings(r)
  \cup When(Contaminated(r.scans) # {}, <<"smi", Contaminated(r.scans)>>)
  \cup When(LowerClass(r.scans) # {}, <<"cpu_topology", LowerClass(r.scans)>>)
  \cup When(r.baseline.pressure, <<"cpu_pressure", r.baseline.affected>>)

AdviceOf(r) ==
  LET p == PolicyOf(r) IN
  GeneralAdvice(r) \cup {<<"validate", {}>>}
  \cup When(p.primary # {}, <<"prefer", p.primary>>)
  \cup When(Cardinality(p.secondary) > Cardinality(p.primary), <<"secondary", p.secondary>>)
  \cup When(p.contaminated # {}, <<"avoid_contaminated", p.contaminated>>)
  \cup When(r.baseline.pressure, <<"investigate_pressure", {}>>)
  \cup When(LowerClass(r.scans) # {}, <<"avoid_lower", {}>>)

(* vis_doctor_analyze *)
Analyze(r) ==
  LET c == [r EXCEPT !.scans = Classified(r.scans)] IN
  IF r.scan_ran
  THEN [c EXCEPT !.policy = PolicyOf(c), !.findings = FindingsOf(c), !.advice = AdviceOf(c)]
  ELSE [r EXCEPT !.policy = [NoPolicy EXCEPT !.warnings = MachineWarnings(r.machine, r.cpus)],
                 !.findings = MachineFindings(r),
                 !.advice = GeneralAdvice(r) \cup {<<"scan", {}>>}]

----------------------------------------------------------------------------
(***************************************************************************)
(* A saved report, as far as the baseline loader looks: how many objects   *)
(* with a "cpu" its baseline_comparison lists for each CPU, and the rate   *)
(* of each CPU in its scan, which comes later in the file.                 *)
(***************************************************************************)
NoFile == [comparison |-> NoBaseline.compared, scan |-> <<>>]

(* The file that got as far as n rows of the scan. *)
SavedReport(r, n) ==
  [comparison |-> r.baseline.compared,
   scan       |-> [c \in FirstCpus(DOMAIN r.scans, n) |-> r.scans[c].rate]]

(* drop_ratio >= 0.40 *)
Dropped(before, now) == before > 0 /\ 5 * (before - now) >= 2 * before

(* The first "accepted_per_sec" after an object of the comparison, which   *)
(* has none of its own: that of the first CPU scanned.                     *)
FirstRate(file) ==
  IF DOMAIN file.scan = {} THEN 0
  ELSE file.scan[CHOOSE c \in DOMAIN file.scan : \A d \in DOMAIN file.scan : c <= d]

Misread(file, scans) ==
  [c \in DOMAIN scans |-> IF FirstRate(file) > 0 THEN file.comparison[c] ELSE 0]

OwnEntries(file, scans) ==
  {c \in DOMAIN scans \cap DOMAIN file.scan : file.scan[c] > 0}

Compared(file, scans) ==
  [c \in CpuIds |-> (IF c \in DOMAIN scans THEN Misread(file, scans)[c] ELSE 0)
                    + (IF c \in OwnEntries(file, scans) THEN 1 ELSE 0)]

(* vis_doctor_load_baseline succeeds if it finds anything to compare. *)
CanCompare(file, scans) == \E c \in CpuIds : Compared(file, scans)[c] > 0

AffectedCpus(file, scans) ==
  {c \in DOMAIN scans : Misread(file, scans)[c] > 0 /\ Dropped(FirstRate(file), scans[c].rate)}
  \cup {c \in OwnEntries(file, scans) : Dropped(file.scan[c], scans[c].rate)}

BaselineOf(file, scans) ==
  LET copies == Misread(file, scans)
      before == SumFunction([c \in DOMAIN scans |->
                  copies[c] * FirstRate(file)
                  + (IF c \in OwnEntries(file, scans) THEN file.scan[c] ELSE 0)])
      now == SumFunction([c \in DOMAIN scans |-> Compared(file, scans)[c] * scans[c].rate])
  IN [available |-> TRUE,
      compared  |-> Compared(file, scans),
      affected  |-> AffectedCpus(file, scans),
      pressure  |-> AffectedCpus(file, scans) # {} \/ Dropped(before, now)]
=============================================================================
