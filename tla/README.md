# TLA+ verification of V-S

This directory holds TLA+ models of V-S (the programs under `src/vis-jitter`), the TLC
configurations that check them on small instances, and proofs that the TLA+ proof system
(`tlapm`) checks for every value of the constants.

    tlc -workers 2 -config MCMeasurement.cfg MCMeasurement     # model-check one run
    tlapm MeasurementProofs.tla                                # check the proofs

`PROJECT.json` lists the components, the runs, the map from every definition to the source lines
it models, the hazards and the theorems. Line numbers below are of files in `src/vis-jitter/src`
unless they say otherwise.

## 1. The system

V-S measures CPU timing and assigns CPUs to a workload. There are four programs. They share
files and process state, never memory:

    vis-jitter   measures one CPU                         -> report
    vis-doctor   measures every CPU with the same library -> doctor.json (runtime_policy)
                 may compare with an older doctor.json (--baseline)
    vis-run      reads doctor.json, pins a workload, observes it -> attestation, exit code
    vis-compare  runs vis-run twice (primary, secondary), reads stdout through a pipe, the
                 exit status, and the attestations        -> comparison, recommendation

### Inventory

| Component | State | Operations | Hard behaviour | Correct when |
|---|---|---|---|---|
| Latency histogram (`histogram.cpp`) | 500 buckets, overflow, total | init, add, compute | bucket edges, ranks in doubles, saturation, int conversion | no sample lost; percentiles are nearest rank; summary ordered; verdict sound to half a bucket |
| Measurement (`measurement.cpp`) | locals of the window loop, report, MSR descriptor | pin, open, window loop, sample, judge | SMIs at any instant, thread moved, any MSR read fails, the time is tested only between windows | counters balance; contaminated windows rejected whole; no verdict without samples; descriptor released; returns |
| SMI audit (`smi_audit.cpp`) | file descriptor, counter | open, read, detect, close | every read may fail | an SMI in a window is seen |
| System detection (`vis_detect_system`) | none kept | CPUID, sysfs, clocks | - | fills report fields |
| Report serialisation (`report.cpp`) | none | format | - | says what was measured |
| Command line of `vis-jitter` (`main.cpp`) | options, the file | one call, one file | failures at each step, a disk that fills | exit code 0 means that the CPU passed, and the file says so |
| Doctor analysis (`doctor.cpp`) | report: scans, baseline, policy, findings, advice | inspect, scan, classify, compare, choose candidates | failed scans, boundary rates, siblings, list limits, baselines of other shape | assigns only fit CPUs, one per core; lists do not contradict; contamination and drops are reported; `vis-run` accepts it |
| Command line of Doctor (`doctor_main.cpp`) | the report, the file | inspect, scan, baseline, write | stale and cut-off files; order of analysis and baseline | what is written rests on the scan and the baseline |
| Sensors and reports of Doctor (`doctor.cpp`) | machine, environment, sensors; the JSON text | probe, list CPUs, qualify, write | CPUs that come and go between two reads; three places that judge the same evidence | claims no more than the machine gave |
| Run policy (`vis_run.cpp`) | none | parse, select CPUs, events, verdict | a parser that searches the text for words, files cut off, contradictory policy | reads what was written or refuses; the verdict says what happened |
| Run process control (`vis_run_main.cpp`) | child, readiness pipe, attestation | fork, setpgid, sched_setaffinity, pipe, exec, wait | two processes race; every call may fail; 126 and 127 are ambiguous | workload contained; exit code passed through; returns |
| Run observer (`vis_run_observe_process_group`) | escapes seen | scan of `/proc` | reads task by task while the tasks change | lasting escapes reported; no false ones |
| Compare (`vis_compare*.cpp`) | profile results, captured output, pipe, attestation files | launch, read, wait, collect, recommend | descendants hold the pipe, orphans, stale attestations, uninitialized fields | runs do not overlap; output complete; recommendation earned; returns |
| Tests, scripts, workflows | - | - | - | - |

How they interact. `vis_doctor_scan_all` calls `vis_jitter_run` for one CPU after the other and
keeps a few fields of each report. The JSON that Doctor writes is the whole interface to `vis-run`
(`runtime_policy`) and to a later Doctor (`scan`, read by a key search). `vis-run` gives
`vis-compare` its output, its exit code and `<runs-dir>/<source>.json`. Nothing is locked, nothing
is renamed into place, and no file names the run that made it: freshness rests on order alone.

The concurrency is that of processes: firmware and scheduler against the measuring thread; `vis-run`
against its child, then against the workload; `vis-compare` against `vis-run`, its workload and what
an earlier invocation left behind. No program has threads or signal handlers of its own.

## 2. Modules and code

| Module | Models | Builds on |
|---|---|---|
| `Histogram` | `histogram.cpp` as operators on a record | |
| `HistogramRecorder` | a histogram beside a record of the samples it was given | `Histogram` |
| `WindowAudit` | abstract: what a measurement promises about SMIs | |
| `Measurement` | `vis_jitter_run` and `vis_measure` with firmware, clock and scheduler | `Histogram`; implements `WindowAudit` |
| `VisJitter` | `main.cpp`: arguments, the measurement, the file, the exit code | `Measurement` |
| `Inspection` | environment, sensors, CPUs and cores of `doctor.cpp`, and what it warns of | |
| `DoctorAnalysis` | `vis_doctor_analyze`, `vis_doctor_load_baseline` as operators on a report | `Inspection` |
| `Doctor` | `doctor_main.cpp`, run again and again | `DoctorAnalysis`, `RunPolicy` |
| `RunPolicy` | CPU selection, events, verdict and exit code of `vis-run` | |
| `RunContract` | abstract: what `vis-run` promises its caller | `RunPolicy` |
| `VisRun` | `vis_run_main.cpp`, the child, the observer, the workload | `RunPolicy`; implements `RunContract` |
| `JsonText` | JSON as a sequence of tokens, and the field searches of both parsers | |
| `Documents` | doctor.json and the attestation, as written and as read | `JsonText`, `RunPolicy` |
| `VisCompare` | `vis_compare_main.cpp`, invoked again and again | `RunPolicy` |
| `HistogramProofs`, `DoctorProofs`, `RunContractProofs`, `VisRunProofs`, `VisCompareProofs`, `DocumentsProofs` | theorems and proofs | the module each is named for |
| `HistogramRecorderProofs`, `MeasurementProofs` | theorems and proofs, the second also about `VisJitter` | the same, and `HistogramProofs` |
| `MC...` | instances for TLC | the module each is named for |

Definitions whose comment begins with "Mutant:" are wrong on purpose. Each stands before the
definition it is a variant of and nothing uses it; put in its place, it makes a property of a run
fail. `PROJECT.json` says which.

**Histogram.** `AddAll(h, s)` is `vis_histogram_add` for each sample of `s`; the samples of a window
are only ever added together. `RankInDoubles` is the rank as doubles compute it: `99.9 / 100.0` is a
little above 0.999, so `ceil` goes one too far at multiples of 1000, unless the product is close enough
to the integer to be rounded back down to it (`RoundedBackDown`, from the 53 bits of a double). The
operator was compared with doubles for every total up to 3 million, every multiple of 1000 up to 10^9
and samples of all totals up to 4 * 10^11, without a difference; `RanksOfReports` keeps some of these
values as an assumption that TLC evaluates. Windows have a million samples, but not every sample of one
is accepted; a report whose total is a multiple of 1000 has a P99.9 of the next rank more often than
not, as those of one and of two whole windows have. The other quantiles are exact. `stray` counts
increments that
the undefined conversion to `int` sends outside of the array. The `target == 0 -> 1` correction of the
code never applies to a nonempty histogram and has no counterpart.

**Measurement.** One action for each stretch of code between two points at which somebody else can
make a difference: `Pin`, `OpenMsr`, `SetUp`, `BeginWindow` (first MSR read), `StartSample`,
`FinishSample` (the two `rdtscp`), `EndWindow`/`EndWindowUnread` (second MSR read), `Finish`. Beside
them act `Smi` (any core, any time), `Tick` and `Move` (somebody changes the affinity). The history
variables `spoiled`, `spoils`, `tainted` follow a disturbed sample from its timing to the histogram;
no guard reads them. The report is taken to be zero at the start, as every caller makes it.

**vis-jitter.** `JitterSpec` is the program around `Measurement`: `Arguments`, then the steps of the
call, then `MeasurementFailed` or `Save`. The file may hold an earlier report, be replaced, be cut off
by a full disk (nobody looks at `fputs` or `fclose`) or fail to open. Exit code 1 says three things
alike, a CPU that failed, a measurement that failed and a file that was not saved; so the property is
about 0.

**Run.** `pc` is where `vis-run` is; `child` where the child is until it execs; `proc` the process
table. `Visit` and `Look` are the two reads the observer makes of a task (`stat`, then `status`); the
table may change in between. A thread is modelled as a process. The workload is free: `Spawn`,
`Leave`, `Repin`, `DescendantEnds`, `WorkloadExits`, `Killed`. `steady` is history: the masks outside
the assignment that have not changed since the scan began. `PassOver` is a task whose `stat` or `status`
cannot be read: the code skips it without a trace, so what was steady of it is struck off, and
`SteadyEscapesAreReported` is about the tasks a scan could read.

**Contract.** `RunContract` has no child, no observer and no `/proc`: a run is refused, or a workload
begins inside its assignment, is repinned by others, ends in some way, and is reported once with a
verdict that `VerdictsOf` allows. `VisRun` maps to it; the steps between are stutters. `VisCompare`
takes a run of `vis-run` as an outcome, and asserts of each outcome it uses what the contract says
about code, verdict and attestation (`OutcomesKeepContract`, an assumption TLC evaluates, over
`Agreed` of `RunPolicy`). That is the composition: `VisRun` implements `RunContract`, and
`VisCompare` is checked over whatever keeps it.

**Documents.** A text is a sequence of tokens (strings, numbers, punctuation), not of characters:
the parsers look for a quoted word, a colon after it and the next value, which is what `JsonText`
does. `DoctorDocument` and `AttestationDocument` are what the two writers print, in their order;
`ParsePolicy` and `ParseAttestation` are the readers. A file on a full disk is any prefix (`OnDisk`).
`IsPolicy` says what strings and lists `vis_doctor_analyze` puts into a policy. A word of the command
line is kept as its reader sees it (`IsWord`): a string, or, because the readers take the first colon
behind a key wherever it stands, a colon with what stands behind it. Behind a word that ends in a
colon that is its closing quote, where a reader takes a string to begin (`EndsInColon`). `VisRunRuns` is
all of `vis-run`'s main as far as it reaches the attestation: the events of the policy, a refusal, a run
that was watched (`Watched`) and reaped or lost (`Reaped`, `Lost`), and the file, which may fail to open
(`Publish`). All events of `vis-run` have a recommendation, so each has its row in the attestation.

**Doctor.** `Inspect` takes a machine (`MachineType`: what exists, what may be read, what the commands
return) and the CPUs it lists, and reads the files of each CPU at a time of its own, so that CPUs may
come and go in between: `CoreKey` is the physical core as that moment shows it. `steady` is history:
that did not happen. `ScanCpu` is one row, `FinishScan` the analysis, `LoadBaseline` the comparison
and the second analysis, `Write` the files, `IllegalInstruction` the end of a scan on a CPU without
RDTSCP. `saved` outlives a run and
is the next one's baseline. The result of `vis_jitter_run` is the environment's choice among the
shapes `Measurement` can produce.

**Compare.** `Launch` to `Eof`, `Wait`, `Collect` are `run_vis_run_profile`; `Report` is the end of
main. `pipe` holds chunks of output, each with the metric it would be captured as; `write_end`, `proc` and `left` say who can still write. `Killed`
ends `vis-compare` and nothing else. `orphans` is history: runs it left while they were going on.

## 3. What is checked

Passing runs:

| Run | Question | Distinct states |
|---|---|---|
| `histogram` | Is anything lost, misplaced or misjudged, however a histogram is filled? | 7315 |
| `measurement` | Do the counters, the audit, the verdict and the descriptor survive every interleaving and failure, and does the program end? Is exit code 0 earned? Does it implement `WindowAudit`? | 234486 |
| `vis_run` | Is the leader found in its group, is the workload contained, is the attestation true, is the code passed through, does `vis-run` return? Does it implement `RunContract`? | 410700 |
| `doctor` | Does every policy assign only fit CPUs, one per core, that `vis-run` accepts, and report contamination and drops, also in a second run? Is its evidence qualified? | 717536 |
| `documents` | Does `vis-run` find in doctor.json, and `vis-compare` in the attestation, what was written or nothing, wherever the file ends? Which command lines mislead it? | 5367 |
| `compare` | Do the runs stay apart, is the output complete, are metrics and evidence of one run, is a recommendation earned, over two invocations? | 976164 |

The properties, each stated and explained where it is defined:

- `HistogramRecorder`: `SamplesAccounted`, `PercentilesAreNearestRank`, `SummaryIsOrdered`,
  `VerdictIsSound` compare the histogram with the very samples it was given.
- `Measurement`: `Accounting` (every sample timed is in one counter), `ContaminationIsExplained`
  (contaminated windows never exceed the SMI delta), `PinnedSamplesAreClean` (no disturbed sample is
  accepted while nobody undoes the pinning), `VerdictNeedsSamples`, `DeviceIsHeldOnlyWhileMeasuring`,
  `ImplementsWindowAudit` (refinement).
- `VisJitter`: `PassIsEarned` (exit code 0 against the samples, the audit, the device and the file),
  `Termination`.
- `VisRun`: `LeaderIsInItsGroup` (whichever of parent and child is late with its `setpgid`, the child
  is in its group when it is observed before the exec, and when the workload begins), `SteadyEscapesAreReported`, `WorkloadIsContained`, `NoFalseEscape`, `VerdictIsEarned`,
  `ExitCodePassesThrough`, `ReturnsUnlessWorkloadRuns`, `ImplementsContract` (refinement).
- `Doctor`: `PolicyIsSafe`, `PrimaryIsSiblingAware`, `PolicyIsUsable` (against the selection of
  `vis-run`, module `RunPolicy`), `MeasuredContaminationIsExplicit`, `DropIsReported`,
  `EvidenceIsQualified`.
- `MCDocuments`: `PolicyIsReadAsWritten`, `AttestationIsReadAsWritten`, `EvidenceFollowsPolicy` (from
  Doctor's policy through two files and the kernel's CPU lists to what `vis-compare` calls clean).
- `VisCompare`: `ProfilesDoNotOverlap`, `OutputIsComplete`, `MetricNotesAreOfTheseRuns`,
  `RecommendationIsEarned`, `ReturnsWhenRunsEnd`.

Runs that are expected to find a violation. Each checks one claim a comment, a test or a document
makes, and the code does otherwise:

| Run | Claim | What the code does |
|---|---|---|
| `histogram_long` | samples beyond the last bucket are counted in `overflow` (`vis_jitter.hpp:130`) | a sample longer than 21 s (2^31 buckets) becomes a negative index and is counted in neither |
| `measurement_moved` | samples of a thread that migrated are rejected (`vis_jitter.hpp:202`) | the cores before and after each sample are compared with each other, not with the measured one; a move between samples is not noticed |
| `vis_run_code_126` | "Child process reported sched_setaffinity failure." (`vis_run_main.cpp:425`) | a workload that exits with 126 itself is attested so, although it ran pinned |
| `doctor_contaminated` | "contaminated CPU must be explicit avoid policy." (`tests/test_doctor.cpp:153`) | a CPU all of whose windows were contaminated fails its scan and its counter is dropped: it is never among `contaminated_cpus`. It is not among `avoid_cpus` either when no scanned CPU has a positive rate, as in the run; when one has, its rate of 0 puts it there as one of lower throughput. (It is not assigned in any case.) |
| `doctor_baseline` | "throughput dropped compared to baseline" (`doctor.cpp:1096`) | with a baseline that has a comparison of its own, CPUs are compared with the first CPU's rate too |
| `compare_stale` | reports the evidence of the workload it ran (`README.md:278,292`) | a `vis-run` that is killed or cannot start, and so leaves no attestation, is reported as started, with the one an earlier invocation left |

These are ordinary correctness observations. The passing runs bound them: contaminated CPUs are
never assigned, and stale evidence never leads to a recommendation.

### Bounds, and why they are enough

- `histogram`: three buckets (first, middle, last) of width 10; latencies on both sides of each edge
  and of the top; four batches of 1, 99 and 900, so that each of the ranks of P50, P99, P99.9 and
  P99.99 falls on either side of a batch, and a total of exactly 1000 occurs; thresholds on both sides
  of each midpoint. `histogram_long` lets `int` end at 7.
- `measurement`: two cores (measured, other), windows of two samples (first and last; a migration may
  hit one, the other or both), two windows (one may be contaminated and the other not, and SMIs fall
  between them), two SMIs for each core and two moves (there and back); a threshold between the
  midpoints of the two buckets.
- `vis_run`: two tasks (the leader and a descendant that may outlive it), two usable CPUs and one
  past `CPU_SETSIZE`, one policy for each way to be refused or to warn, both sources, exit codes 0,
  1, 126 and 127, one signal, two repins (out and back).
- `doctor`: three CPUs online of four, two of them siblings in one of the sets; candidate lists of
  two, so that the limit cuts a list, cuts siblings, or does not cut; rates 10, 5, 3, where 5 is half
  of the maximum and 3 is 5 less 40 %, the two boundaries; one outcome for each way to be unfit;
  durations on either side of 60 s. Two runs suffice for a baseline, three for one with a comparison.
  Five machines in the first run, one for each quality of evidence and one whose scan cannot run; CPUs
  come and go in the first run only: what a second adds is the baseline, which has CPUs and rates but
  neither machine nor cores.
- `documents`: five policies (with no CPU, one, several, with CPUs past the usable ones), with and
  without scan and baseline; command lines with and without words that are keys of the attestation,
  with and without a word behind them that has a colon, or ends in one, and in the opposite order;
  every prefix of every file; up to two escapes, with and without a failed read of the readiness byte;
  exit codes 0, 12 (of which a 1 may be left) and 126, and a signal; a failed `waitpid`, and an attestation
  that cannot be opened. Nothing here is a state machine of its own: a behaviour is the choice of a file, a
  cut and a run.
- `compare`: two invocations of two profiles, a pipe of one chunk (so that writers block) and two
  chunks of output, an outcome for each way `vis-run` ends; a metric that comes first, late, without a
  number, or not at all. `Garbage = {0}` is the value of an
  uninitialized counter that is worst for the recommendation; other values only lose one.

`CHECK_DEADLOCK FALSE` is set where the program ends or the bound on runs is reached: every module
here has such an end. That nothing waits for ever before it is what the liveness properties say.

### Fairness, and why the code justifies it

- `Measurement` has `WF(Thread)` and `WF(Tick)`, `VisJitter` the same while the call lasts, and
  `WF(Main)` before and after it. A pinned runnable thread is scheduled, its calls return,
  time passes. SMIs and moves are not fair; nothing relies on them.
- `VisRun`: `WF(Parent)`, `WF(Startup)`: `vis-run`, and its child up to the exec, are scheduled and
  neither blocks except where a guard says so (the readiness read, the wait). The workload is not
  fair: it may run for ever, and then `vis-run` does not return either, as intended. `ReadFails` is
  not fair.
- `VisCompare`: `WF(Compare)` only. Failed reads, death, printing and the ends of runs are not fair,
  so the property has the premise that all that holds the pipe has ended.
- `Doctor` states no liveness and has no fairness.

## 4. What is proved

Of the properties that the passing runs check, the theorems state every invariant and both
refinements; what is left to TLC is at the end of this section.

The proofs assume of the constants only the named assumptions of the modules:

- `HistogramAssumption`: a positive number of buckets, within `int`, of positive width;
- `RecorderAssumption`: finitely many latencies, natural numbers, and less than 4 * 10^11 samples (400000
  windows of a million), which is as far as `RankInDoubles` says what doubles compute;
- `MeasurementAssumption`: the core is one of the cores; windows and duration are positive; latencies
  and bounds are natural numbers;
- `InspectionAssumption`, `DoctorAnalysisAssumption`, `DoctorAssumption`: CPU numbers are naturals and
  finitely many; the two list limits are positive; rates and counts are natural numbers;
- `SetSizeAssumption`, `VisRunAssumption`: CPU numbers are naturals, some CPU is online, processes are
  finitely many and the leader is one, the lists of a policy are lists of CPUs, exit codes have 8 bits;
- `VisCompareAssumption`: the pipe holds something, the output of a run is a sequence of chunks,
  uninitialized counters hold some number, and an outcome has a wait status as the kernel makes them;
- `DocumentsAssumption`: a report has a policy of the shape `vis_doctor_analyze` gives it, with any finite
  lists of CPUs; the source is one of the two `vis-compare` asks for; a command line is made of any words
  (`IsWord`), keys of the attestation among them; a workload exits with 8 bits or is killed; masks are
  finite sets of CPUs;
- `OutcomesKeepContract`: of an outcome of `vis-run`, that the attested code agrees with the exit code
  (`Agreed`; theorem `AttestedCodes`, with `KeepsContract`, says that `VisRun` does that), and that exit
  code 0 comes with an attestation: `vis-compare` always passes `--output` (`vis_compare_main.cpp:86`),
  and a `vis-run` that cannot open that file ends with 1 (`Reports` of `RunContract`).

In particular they hold for the program's 500 buckets, windows of a million samples (`HistogramRecorder`:
up to 400000 of them, some hours of measuring; `Measurement`: any number, where the quantile used is P99,
for which the formula is good to 10^13 samples), lists of 8 and 12
and 1024 bits of a CPU set, any number of cores, processes, repins and invocations, any machine, any
outcome of a scan, any output of a workload, and any bounds on SMIs, moves and windows.

Three theorems have a hypothesis more, and need it:

- `NoSampleIsLost` and `SummariesAreOrdered` assume `LatenciesFitInt`: bucket indices fit an `int`.
  Without it they are false, which run `histogram_long` shows.
- `PassesAreEarned` assumes `Threshold < Ceiling`. P99 saturates at the top of the range, which stands
  for all latencies beyond, so a threshold of 5000 ns or more passes whatever they were. The default is
  100 ns, and nothing compares the value of `--threshold` with the range of the histogram.

`HistogramProofs`: `AddAllAdds` (adding a window keeps the type and raises the total by its length)
and `SummaryInRange` (every figure of the summary is between 0 and the top of the range). The second
rests on `SmallestIsMinimum` and `LargestIsMaximum`: that the CHOOSEs in the bucket walks find what
they look for, from the well-foundedness of < on the naturals. The same gives `SubsetInduction`,
induction over the subsets of a finite set for a *set* of subsets that is closed under adding a member.
It takes no operator, as the induction theorems of the library do, so it can be used; and it makes
sums over buckets provable: `SumUnfolds` (a sum is one term and the sum of the rest, whichever term is
taken), `SumSplits`, `SumGrows`, `CumulativeGrows`, and from them `PercentileIsOfBucket`, that the walk
over the buckets ends at the bucket where the cumulative count reaches the rank.

`HistogramRecorderProofs`, for any number of buckets, width, thresholds and ways to fill a histogram:

| Theorem | States for every value of the constants |
|---|---|
| `RecorderTypeCorrect` | `[]TypeOK` |
| `NoSampleIsLost` | `[]SamplesAccounted`, if `LatenciesFitInt` |
| `PercentilesNearestRank` | `[]PercentilesAreNearestRank`, which allows P99.9 of a multiple of 1000 the next rank |
| `VerdictsAreSound` | `[]VerdictIsSound` |
| `SummariesAreOrdered` | `[]SummaryIsOrdered`, if `LatenciesFitInt` |

`IInv` says what the counters are in terms of the samples: the total is the number of samples, the
cumulative count of each bucket is the number of samples of that bucket or a lower one, and the
overflow counter that of the samples beyond the last, if their indices fit an `int`. That is inductive
because a batch of one latency raises one bucket (`AddRepeated`, `SumGrows`). The theorems then speak
of one histogram: the rank lies between two cumulative counts, which are counts of samples. The proof
of `VerdictsAreSound` shows how sound the verdict is: the midpoint of a bucket is `Width \div 2` above
its lower end, so the other half is `Width - Width \div 2`, which is the same only for an even width.

`MeasurementProofs`, the last for the program around the measurement (`JitterSpec`):

| Theorem | States for every value of the constants |
|---|---|
| `TypeCorrect` | `[]TypeOK` |
| `SamplesAreAccountedFor` | `[]Accounting` |
| `ContaminationExplained` | `[]ContaminationIsExplained` |
| `PinnedSamplesClean` | `[]PinnedSamplesAreClean` |
| `VerdictFromSamples` | `[]VerdictNeedsSamples` |
| `DeviceReleased` | `[]DeviceIsHeldOnlyWhileMeasuring` |
| `Refinement` | `Spec => Audit!Spec`: initial states map to initial states, steps to steps or stutters |
| `PassesAreEarned` | `JitterSpec => []PassIsEarned`, if `Threshold < Ceiling` |

The inductive invariant `IInv`. None of the properties is inductive as it stands; each needs what the
code knows at that point but does not say:

- `TypeOK` and `DeviceIsHeldOnlyWhileMeasuring` are;
- `Locals`: outside a window `i = 0` and `deltas` is empty, inside `Len(deltas) <= i <= WindowSize`
  and, while a sample is timed, `i < WindowSize`; the report is clear until the loop. Without it a
  window could be closed with too many or too few samples as far as `Accounting` knows;
- `StatusIsGiven`: a status is set exactly when the call has returned, there is no verdict without
  `VIS_OK`, and what each status says of the accepted samples. `VerdictNeedsSamples` follows from it;
- `Accounting` itself, with `Locals`;
- `SmisInOrder`: `msr_start + contaminated_windows <= smi_start <= smi[Core]` in a window, and the
  same without `smi_start` between windows. This is the argument for `ContaminationIsExplained`: windows
  do not overlap, so each contaminated one has an SMI that no other has;
- `SpoilsAreSeen`: while the thread has not been moved it is on `Core`, and a spoiled sample in the
  open window or being timed means that `smi[Core] > smi_start`. Hence the window will be rejected:
  `PinnedSamplesAreClean`.

One lemma per part says that every step preserves it, with one step for each action; lemmas such as
`FinishSampleEffect` and `EndWindowEffect` say once what an action does to the report, so that the
preservation proofs do not unfold it again. `RefinesNext` is by the same cases: `BeginWindow` is
`Open`, `EndWindow` is `Close(Len(deltas))`, failures are `Abort`, samples and the clock stutter,
because `migrated` is mapped to the count less the migrations of the open window.

`PassesAreEarned` uses all of that again: every step of the program is one of the call or leaves the
call alone (`JitterSteps`), so `IInv` holds of it too. `Judged` adds that a verdict is the one
`DeterminismPass` gives of the final histogram, `MainIsAt` where `main` is and what the file may hold.
The count is `PassCounts`: the rank of P99 is at least 99 % of the samples (`RankOf99`), and the buckets
up to the one where the walk ended hold that many.

`DoctorProofs`, for any CPUs that may be online at each step, any machines, and any number of runs that
read each other's files, whole or cut off:

| Theorem | States for every value of the constants |
|---|---|
| `TypeCorrectness` | `[]TypeOK` |
| `AssignedCpusAreFit` | `[]PolicyIsSafe` |
| `PrimaryHasOneOfEachCore` | `[]PrimaryIsSiblingAware` |
| `AvailablePoliciesAreUsable` | `[]PolicyIsUsable` |
| `ContaminationIsExplicit` | `[]MeasuredContaminationIsExplicit` |
| `DropsAreReported` | `[]DropIsReported` |
| `EvidenceSaysItsQuality` | `[]EvidenceIsQualified` |

The properties speak of the report that is about to be written and of what was measured; the steps
between are many. `IInv` says what holds on the way: a row agrees with what was measured for its CPU,
but for the class (`RowsAgree`); the environment, the sensors and, if no CPU came or went, the keys of
the cores are those of the machine (`FactsAgree`); from the end of the scan on the results are those of
the rows (`IsAnalyzed`), and after a comparison the affected CPUs are those the file says
(`IsCompared`). `AnalysisIsFaithful` is the one lemma about `Analyze` that all three places that
analyze need: it keeps the first two and establishes the third, also when the report was analyzed
before. Under it is what the lists are: `ClassifiedIsRight` (a CPU outside of
the lower class has at least half the rate of any other), `OneOfEachCore` and `FirstCpusFull` (a CPU is
left out only for a lower one with its key, or by a full list). These need that a finite set of
naturals has a least and a greatest member, which is proved from the well-foundedness of <.
`CandidatesAreFit` ties the two: the rows that are candidates are those of the CPUs measured fit.

`VisRunProofs`, for any policies, any CPUs, any finite set of processes, and any fork, repin, exit or
death the workload may do:

| Theorem | States for every value of the constants |
|---|---|
| `TypeCorrectness` | `[]TypeOK` |
| `LeaderFoundInItsGroup` | `[]LeaderIsInItsGroup` |
| `SteadyEscapesReported` | `[]SteadyEscapesAreReported` |
| `WorkloadContained` | `[]WorkloadIsContained` |
| `NoFalseEscapes` | `[]NoFalseEscape` |
| `VerdictsEarned` | `[]VerdictIsEarned` |
| `ExitCodesPassThrough` | `[]ExitCodePassesThrough` |
| `KeepsContract` | `Spec => ImplementsContract`, the refinement of `RunContract` |

Two processes run at once, and each property relates what one knows to what the other did. `IInv` says
how far each has come and what follows for the other:

- `ParentInv`: a fork happened only after usable CPUs were chosen, and they stay those of the policy;
  nothing is attested, no code chosen and no error noted before the end. Without it a verdict could be
  about another run than the one that was made.
- `ChildInv`: a child that is neither absent nor dead runs; `pinned` and `ran` agree with how far it
  came; a status is there exactly when it is dead; one that died before the exec has 126, 127 or a
  signal for a status. From this, `VerdictsEarned` and `ExitCodesPassThrough`: status 0 means that the
  workload ran, pinned.
- `MasksContained`: from `ChildSetAffinity` on, while nobody repins, every process there is has a mask
  inside the assignment, which is `WorkloadContained` (contaminated CPUs are not among the usable). It is
  stated from the affinity on and not from the exec on, because `Spawn` inherits whatever there is.
- `Readiness`: a child before its decision holds the write end of the pipe, so `vis-run` is behind the
  readiness read only if the child has decided or the read failed, and then that is an event. With
  `MasksContained`, `NoFalseEscapes`.
- `Grouped`: up to the exec a child that is past its own `setpgid`, or whose parent is past its, is in its
  group. Either alone is enough, and the two together leave no order in which the observer looks, or the
  workload begins, before: `LeaderFoundInItsGroup`.
- `Scanning`: one task is looked at, at most; whatever is `steady` is still to be seen or was reported.
  `SteadyEscapesReported` is the case in which nothing is still to be seen.

The refinement goes by cases. `RejectPolicy`, a selection that fails and `CannotFork` are `Refuse`; a
dry run is `DryRun`; `ChildExec` is `Begin`; a repin of the leader is `Repinned`; the ways in which a
workload ends, and a child that never becomes one, are `End`; `Reap` is `Report` and `WaitFails`
`ReportLost`. All else stutters, because it leaves `View` alone, what the contract speaks of.

`RunContractProofs`: `AttestedCodes`, that a run that keeps the contract attests the code it ended
with, or 0 beside a 1: the first part of `OutcomesKeepContract`.

`VisCompareProofs`, for any number of invocations, sizes of the pipe, outputs and outcomes:

| Theorem | States for every value of the constants |
|---|---|
| `TypeCorrectness` | `[]TypeOK` |
| `RunsDoNotOverlap` | `[]ProfilesDoNotOverlap` |
| `OutputsAreComplete` | `[]OutputIsComplete` |
| `RecommendationsAreEarned` | `[]RecommendationIsEarned` |
| `MetricNotesCompareTheseRuns` | `[]MetricNotesAreOfTheseRuns` |

`IInv`: whatever is active is the run `vis-compare` is at or an orphan (`OneAtATime`, more than
`ProfilesDoNotOverlap`, which two runs nobody is at would satisfy as well); printed is captured and in
the pipe, and past the end of file the pipe is empty and the run inactive (`NothingLost`); once
`vis-run` has ended, the attestation is its own, or an orphan's, or it left none
(`AttestationIsCurrent`); a result with code 0 and no escape is earned, and its metric is the one
shown, for each profile that has its result (`ResultsAreEarned`, `ShownIsPrinted`). A stale attestation
satisfies `AttestationIsCurrent` only if the run left none, and then its exit code is not 0: that step
is where `OutcomesKeepContract` is used, and all that keeps stale evidence out of a recommendation.

`DocumentsProofs`, for any policies, command lines, events, escapes and masks, and any token (and any
part of a token) at which a file ends:

| Theorem | States for every value of the constants |
|---|---|
| `TypeCorrectness` | `[]TypeOK` |
| `PolicyIsRead` | `[]PolicyIsReadAsWritten` |
| `AttestationIsRead` | `[]AttestationIsReadAsWritten` |
| `EvidenceFollows` | `[]EvidenceFollowsPolicy` |

The state machine has three steps; the difficulty is in the texts, sequences that are flattened from
records of lists of records, of any length. The argument, from the bottom up:

- *Joining.* `FlattenSeq` recurses by a function; that it concatenates is proved by `Induction`, over
  a *set* of numbers that holds 0 and the successor of each of its members. From it, `Listed` is its
  items with commas between them, and whatever set of texts is closed under concatenation and has
  the items in it (`Class`, and `Guarded` below) has the whole.
- *Classes of texts.* `Without(K)` are the texts in which the string `K` does not occur; all that is
  written before the field of that name is in it. Hence `Stands(doc, K, p, value)`: the one place
  where a reader looks for the value of `K` is `p`, and there it stands. In a part of the document
  (`PartOf`) a reader finds it there, finds it cut off and refuses, or does not find it.
  A number is the one value that can be cut off and still be read as one: that is why the exit code is
  not among what `AttestationIsRead` says, and `vis-compare` takes that of the process.
- *Braces.* `find_json_object` counts them. What stands between those of the policy is `Flat`, without
  any; so its first closing brace is its own, and a part of the document that lacks it has no such
  object.
- *Counting.* `Counted(pattern, n)` are the texts with `n` occurrences of a pattern, none of which can
  straddle an end. Counts add up along a list (`CountedList`); so the `escaped_cpus` are as many as the
  escapes and the words that are that key, and the warnings are one for each event of that severity:
  `"severity"` with a colon behind it is not in a command line, whatever its words.
- *The command line.* It is written before the verdict, and may hold the word `verdict`. `Guarded` are
  the texts in which no colon behind that word is followed by a string;
  then a reader finds the verdict of the run, or none. It holds of every command line that is not
  `Misled`, by induction over its words.
- *Masks.* `MaskIsReadBack`: `CpuList(KernelList(mask)) = mask`, for finite masks: each CPU is in one
  maximal range, from the least CPU it is reached from to the one before the first CPU missing.

`EvidenceInv` joins the three programs: the policy that was read is Doctor's and there was a scan; the
run was made under it (`IsRun`: it assigned the CPUs listed, ended with 0 only if they were selectable
and the affinity was applied, and noted each mask outside); the row is what was read of that run, with the
process's own exit code. `EvidenceFollowsPolicy` is not inductive without the middle part, which says
of a run what only its successor's reader relies on.

What the proofs found in the models, each corrected in accord with the code:

- `AttestationIsReadAsWritten` and `EvidenceFollowsPolicy` were stated of all command lines, and held of
  those in the run, whose words had no colons. They are false of a command line with a word `verdict` and
  behind it a word that ends in a colon (`grep verdict x:`): `find_value_start` takes that colon and
  `parse_json_string_at` the closing quote for an opening one (`vis_compare.cpp:54,76`), so that
  `vis-compare` reads a verdict that is text between two strings, where otherwise it refuses; and beside it,
  of a file that was cut off, too few escapes. The properties now name that case (`Misleads`), the run has
  such command lines, and the theorems say that it is the only one.
- `Begin` of `RunContract` allowed a workload on no CPU at all, by the precedence of `SUBSET` and `\`.
  The refinement holds of the stronger contract as well.
- `VerdictIsSound` was true of even widths only (see above). The code's width is 10.
- `VisCompare` needed that exit code 0 comes with an attestation (see `OutcomesKeepContract`): every
  outcome of the run had it, and nothing said so.
- `PassIsEarned` needs a threshold inside the range, which the run has and the program does not check.

Model-checked only:

- liveness (`Termination`, `ReturnsUnlessWorkloadRuns`, `ReturnsWhenRunsEnd`): the prover does not
  handle fairness and ENABLED;
- nothing else of what the passing runs check. What the proofs take from the models without proof is
  the reading of the code, `RankInDoubles` (what doubles compute, see section 2) among it.

## 5. What is left out

- Detection of the system, UUID, timestamp: they fill fields of a report. Their failures are in
  `Measurement`.
- Layout of reports that nothing reads again: the text of `vis-jitter`, `vis-doctor` and
  `vis-compare` on the terminal, Doctor's Markdown, the JSON and Markdown of `vis-compare`. Wording of
  findings and recommendations: they are known by their subject and the CPUs they name. `sign` and
  `from_json` of `report.cpp` always fail and nothing calls them.
- Inside a token: escapes, digits and white space of JSON are right by assumption; of a string or
  a number that was cut off, what a reader makes of the rest (`Stumps`) is kept. A regular expression of
  `vis-compare` is known by whether it finds a number.
- A read of a file or of a task's status is one step, and so is a write.
- The SMI counter is unbounded: a wrap within a window takes 2^32 SMIs.
- The observer reads a task's mask once (a read that fails is `PassOver`); sample counters are left out.
  EINTR, which the reads and the final wait repeat, and job control (a workload stopped at the terminal)
  are left out: a stopped workload is one that runs for ever.
- Doctor's secondary list is cut at 12 rows before siblings are merged and the primary at 8 cores
  after: on a large machine the primary need not be part of the secondary, and no property says it is.
- Tests, scripts and workflows were read for what they expect.

Met while modelling, and outside of every property; the models show each of them, or say in a comment
what they assume:

- A word of the workload's command line that equals `verdict` or `exit_code` is found before the field
  of that name, and `vis-compare` refuses the attestation; the word `escaped_cpus` adds an escape; the word `verdict`
  with a word behind it that ends in a colon is read as a verdict. (`AttestationIsReadAsWritten` bounds
  this: never another run's CPUs, and but for the last case never a wrong verdict or fewer escapes.)
- The files name paths their user chose (`policy_source`, the baseline's `path`), before the fields that
  are searched. A path that ends in a quote and a key would be taken for the key; the model has no such
  paths, nor words with both a colon and a quote.
- A dry run of a policy that is refused is attested DRY_RUN and ends with 1.
- The event list of `vis-run` knows some of Doctor's warnings. `limited_hardware_evidence`,
  `partial_hardware_evidence`, `smt_active`, `thp_always_enabled`, `swap_configured` and
  `baseline_cpu_pressure_detected` leave no event in an attestation.
- `rtla` and `perf` are asked for their `--help`, also where the report says that VIS Doctor "does not
  execute or import it yet" (`doctor.cpp:362,387`).
- Without RDTSCP the environment lists a limitation, "VIS Core jitter measurement cannot use its
  preferred timing path" (`doctor.cpp:183`). There is no other path: the instruction is executed.
- `has_governor` looks for a policy that bears the number of each CPU; a policy shared by several CPUs
  bears only one number, and none of the CPUs online may have it.
- The loop over `/proc/meminfo` reads a word, a number and a unit at a time and ends at the first line
  without a unit, `HugePages_Total`: `hugepages_free` stays 0 (`doctor.cpp:814`).
- `cpu_numa_node` looks for the first `/node` of a path that has it twice
  (`/sys/devices/system/node/node1`), and finds no number behind it: every CPU is on node 0
  (`doctor.cpp:454`). The keys of physical cores are told apart by the sibling lists alone, as in
  `CoreKey`.
- MSR devices are looked for at CPU 0 only.

## 6. Plan

The order so far was by weight: the histogram and the measurement everything rests on; `vis-run`,
where processes race; Doctor, whose policy `vis-run` enforces; `vis-compare`, which drives it; then
what connects them, the contract of a run and the two documents.
What is open:

1. *Model*: threads of a workload apart from its processes, for the observer's task directories.

The runs are one for each question above. A new question replaces one of them or joins it, so that
the whole still checks in minutes.
