----------------------------- MODULE VisCompare -----------------------------
(***************************************************************************)
(* vis-compare (src/vis-jitter/src/vis_compare_main.cpp), run again and    *)
(* again in the same --runs-dir: it runs the workload through vis-run with *)
(* the primary and then with the secondary CPUs, captures what is printed, *)
(* reads the attestations that vis-run leaves and recommends profiles.     *)
(*                                                                         *)
(* vis-run (module VisRun) and its workload are the environment here: they *)
(* print, end with one of Outcomes, and leave behind processes that keep   *)
(* the pipe open.  vis-compare may be killed at any time; what it started  *)
(* goes on without it.  One metric is asked for.                           *)
(***************************************************************************)
EXTENDS Integers, FiniteSets, Sequences

CONSTANTS
  Outcomes,     \* how vis-run may end: its status, the attestation it wrote
  Garbage,      \* what an uninitialized counter may hold
  PipeSize,     \* chunks a pipe holds
  Output,       \* the chunks that each run may print, in order
  MaxRuns       \* bound: invocations of vis-compare

Sources == {"primary", "secondary"}
Runs == (1 .. MaxRuns) \X Sources
NoRun == <<0, "">>

(* A chunk of output: without the metric, with a number where the metric's *)
(* regular expression has its group, or with something else there.         *)
Chunk == [kind : {"text", "number", "word"}, n : Nat]

(* A wait status has 8 bits for an exit code and 7 for a signal.           *)
WaitStatus == [signaled : {FALSE}, n : 0 .. 255] \cup [signaled : {TRUE}, n : 1 .. 127]
OutcomeType ==
  [status : WaitStatus, attested : {"none", "torn", "whole"}, exit_code : 0 .. 255,
   escapes : Nat]

ASSUME VisCompareAssumption ==
  /\ PipeSize \in Nat \ {0} /\ MaxRuns \in Nat
  /\ Garbage \subseteq Nat /\ Garbage # {}
  /\ \A r \in Runs : Output[r] \in Seq(Chunk)
  /\ Outcomes \subseteq OutcomeType

(* vis-run keeps its contract (RunContract); and as it is always given     *)
(* --output, it ends with 1 if it cannot open the attestation file.        *)
Policy == INSTANCE RunPolicy WITH SetSize <- 1024
ASSUME OutcomesKeepContract ==
  \A o \in Outcomes :
    /\ ~o.status.signaled /\ o.attested # "none" => Policy!Agreed(o.status.n, o.exit_code)
    /\ o.status = [signaled |-> FALSE, n |-> 0] => o.attested # "none"

VARIABLES
  pc,              \* where vis-compare is
  invocation,      \* the number of this invocation
  source,          \* the profile it is at
  results,         \* report.profiles
  captured,        \* chunks in captured_output
  write_end,       \* whether vis-compare holds the write end of output_pipe
  exit_code,       \* of the last invocation, 0 while one runs
  pipe,            \* chunks in the pipe
  printed,         \* chunks printed in this run
  proc,            \* the vis-run process of each run
  left,            \* runs with processes of the workload that vis-run left
  ended,           \* how the runs of this invocation ended
  attestation,     \* <runs-dir>/<source>.json
  orphans,         \* history: runs that were going on when vis-compare left them
  shown            \* history: the metric each run of this invocation has printed

local == <<source, results, captured, write_end, exit_code>>
world == <<proc, left, ended, attestation>>
history == <<orphans, shown>>
vars == <<pc, invocation, local, pipe, printed, world, history>>

(* The run vis-compare is at. *)
Current == <<invocation, source>>

(* vis-run or a process of its workload exists, and holds the pipe. *)
Active(r) == proc[r] = "running" \/ r \in left

NoAttestation == [kind |-> "none", run |-> NoRun, exit_code |-> 0, escapes |-> 0]
NoResult ==
  [started |-> FALSE, exit_code |-> 0, escapes |-> 0, evidence |-> NoRun, metric |-> {}]
NoOutcome == [status |-> [signaled |-> FALSE, n |-> 0], attested |-> "none",
              exit_code |-> 0, escapes |-> 0]

Init ==
  /\ pc = "idle" /\ invocation = 0 /\ source = "primary"
  /\ results = [s \in Sources |-> NoResult]
  /\ captured = 0 /\ write_end = FALSE /\ exit_code = 0
  /\ pipe = 0 /\ printed = 0
  /\ proc = [r \in Runs |-> "none"] /\ left = {}
  /\ ended = [s \in Sources |-> NoOutcome]
  /\ attestation = [s \in Sources |-> NoAttestation]
  /\ orphans = {} /\ shown = [s \in Sources |-> {}]

----------------------------------------------------------------------------
(* main has its arguments and the directory. *)
Start ==
  /\ pc = "idle" /\ invocation < MaxRuns
  /\ pc' = "launch" /\ invocation' = invocation + 1
  /\ exit_code' = 0
  /\ UNCHANGED <<source, results, captured, write_end, pipe, printed, world, history>>

(* pipe and fork: both processes hold both ends; the child execs vis-run. *)
Launch ==
  /\ pc = "launch" /\ pc' = "close"
  /\ write_end' = TRUE
  /\ proc' = [proc EXCEPT ![Current] = "running"]
  /\ UNCHANGED <<invocation, source, results, captured, exit_code, pipe, printed, left,
                 ended, attestation, history>>

(* Mutant: the parent keeps its write end. *)
KeepWriteEnd == pc = "close" /\ pc' = "read" /\ UNCHANGED <<invocation, local, pipe, printed, world, history>>

CloseWriteEnd ==
  /\ pc = "close" /\ pc' = "read"
  /\ write_end' = FALSE
  /\ UNCHANGED <<invocation, source, results, captured, exit_code, pipe, printed, world,
                 history>>

Read ==
  /\ pc = "read" /\ pipe > 0
  /\ pipe' = pipe - 1 /\ captured' = captured + 1
  /\ UNCHANGED <<pc, invocation, source, results, write_end, exit_code, printed, world,
                 history>>

(* Mutant: what is in the pipe when the last writer ends is not read. *)
EofUnread ==
  /\ pc = "read" /\ ~write_end /\ ~Active(Current)
  /\ pc' = "wait"
  /\ UNCHANGED <<invocation, local, pipe, printed, world, history>>

(* Mutant: the end of vis-run is taken for the end of its output. *)
EofOfVisRun ==
  /\ pc = "read" /\ pipe = 0 /\ ~write_end /\ proc[Current] # "running"
  /\ pc' = "wait"
  /\ UNCHANGED <<invocation, local, pipe, printed, world, history>>

(* read returns 0: nothing is left in the pipe, and nobody to write to it. *)
Eof ==
  /\ pc = "read" /\ pipe = 0 /\ ~write_end /\ ~Active(Current)
  /\ pc' = "wait"
  /\ UNCHANGED <<invocation, local, pipe, printed, world, history>>

(* waitpid *)
Wait ==
  /\ pc = "wait" /\ proc[Current] = "zombie"
  /\ pc' = "collect"
  /\ proc' = [proc EXCEPT ![Current] = "gone"]
  /\ UNCHANGED <<invocation, local, pipe, printed, left, ended, attestation, history>>

(* run_vis_run_profile returns r; the next profile, or the report. *)
Finish(r) ==
  /\ results' = [results EXCEPT ![source] = r]
  /\ captured' = 0 /\ pipe' = 0 /\ printed' = 0
  /\ IF source = "primary"
     THEN source' = "secondary" /\ pc' = "launch"
     ELSE pc' = "report" /\ UNCHANGED source
  /\ UNCHANGED <<invocation, write_end, exit_code>>

(* What main sets when it fails; a counter is as it was: uninitialized,    *)
(* unless the parser got to it.                                            *)
Failed(escapes) ==
  [NoResult EXCEPT !.exit_code = 127, !.escapes = escapes]

(* pipe or fork fails. *)
CannotLaunch ==
  /\ pc = "launch"
  /\ \E g \in Garbage : Finish(Failed(g))
  /\ UNCHANGED <<world, history>>

Abandon == orphans' = orphans \cup {r \in {Current} : Active(r)}

(* read fails: vis-compare goes on without waiting for the run. *)
ReadFails ==
  /\ pc = "read"
  /\ \E g \in Garbage : Finish(Failed(g))
  /\ Abandon
  /\ UNCHANGED <<world, shown>>

(* waitpid fails: SIGCHLD is ignored, and the kernel reaped the child. *)
WaitFails ==
  /\ pc = "wait" /\ proc[Current] = "zombie"
  /\ \E g \in Garbage : Finish(Failed(g))
  /\ proc' = [proc EXCEPT ![Current] = "gone"]
  /\ UNCHANGED <<left, ended, attestation, history>>

(* Mutant: a signal is reported as a negative number. *)
SignalNumber(status) == IF status.signaled THEN 0 - status.n ELSE status.n

(* command_exit_code *)
CommandExitCode(status) == IF status.signaled THEN 128 + status.n ELSE status.n

(* vis_compare_capture_metrics: the first match in the output, if it is a  *)
(* number.                                                                 *)
Metric(chunks) ==
  LET matches == {i \in DOMAIN chunks : chunks[i].kind # "text"}
      first == {i \in matches : \A j \in matches : i <= j}
  IN {chunks[i].n : i \in {j \in first : chunks[j].kind = "number"}}

CapturedMetric == Metric(SubSeq(Output[Current], 1, captured))

(* Mutant: the exit code of the attestation is believed. *)
ParsedResult(a, status) ==
  [started |-> TRUE, exit_code |-> a.exit_code, escapes |-> a.escapes, evidence |-> a.run,
   metric |-> CapturedMetric]

(* What the attestation says, but for the exit code, which is vis-run's. *)
ProfileResult(a, status) ==
  [started |-> TRUE, exit_code |-> CommandExitCode(status), escapes |-> a.escapes,
   evidence |-> a.run, metric |-> CapturedMetric]

(* The captured output is written, then the attestation is read: whichever *)
(* run wrote it.  One that is cut off has no verdict and is not accepted.  *)
Collect ==
  /\ pc = "collect"
  /\ LET a == attestation[source] IN
     \/ \E g \in Garbage : Finish(Failed(g))        \* the output cannot be written
     \/ a.kind = "none" /\ \E g \in Garbage : Finish(Failed(g))
     \/ a.kind = "torn" /\ Finish(Failed(0))
     \/ a.kind = "whole" /\ Finish(ProfileResult(a, ended[source].status))
  /\ UNCHANGED <<world, history>>

(* build_recommendation: the profiles it says completed cleanly. *)
Recommended == {s \in Sources : results[s].exit_code = 0 /\ results[s].escapes = 0}

(* Of two numbers of the metric, the profile that has the higher one. *)
MetricNotes(primary, secondary) ==
  {IF a > b THEN "primary" ELSE IF b > a THEN "secondary" ELSE "equal" :
     a \in primary, b \in secondary}

(* The process ends; its zombies are reaped. *)
Exit(code) ==
  /\ pc' = "idle" /\ exit_code' = code
  /\ source' = "primary" /\ results' = [s \in Sources |-> NoResult]
  /\ captured' = 0 /\ write_end' = FALSE /\ pipe' = 0 /\ printed' = 0
  /\ proc' = [r \in Runs |-> IF proc[r] = "zombie" THEN "gone" ELSE proc[r]]
  /\ ended' = [s \in Sources |-> NoOutcome] /\ shown' = [s \in Sources |-> {}]
  /\ UNCHANGED <<invocation, left, attestation>>

(* The summary is printed; the report may not be writable. *)
Report ==
  /\ pc = "report"
  /\ \/ Exit(1)
     \/ Exit(0) /\ \A s \in Sources : results[s].started
  /\ UNCHANGED orphans

(* vis-compare is killed, and not what it started. *)
Killed ==
  /\ pc # "idle"
  /\ Exit(137) /\ Abandon

----------------------------------------------------------------------------
(* The environment: vis-run or its workload prints. *)
Prints ==
  /\ pc \in {"close", "read"} /\ Active(Current)
  /\ pipe < PipeSize /\ printed < Len(Output[Current])
  /\ pipe' = pipe + 1 /\ printed' = printed + 1
  /\ shown' = [shown EXCEPT ![source] = Metric(SubSeq(Output[Current], 1, printed'))]
  /\ UNCHANGED <<pc, invocation, local, world, orphans>>

(* vis-run ends, having written its attestation, a part of it, or none;    *)
(* processes of the workload may be left.                                  *)
VisRunEnds(r) ==
  /\ proc[r] = "running"
  /\ proc' = [proc EXCEPT ![r] = IF r[1] = invocation /\ pc # "idle" THEN "zombie" ELSE "gone"]
  /\ \E o \in Outcomes :
       /\ ended' = IF r[1] = invocation /\ pc # "idle" THEN [ended EXCEPT ![r[2]] = o]
                   ELSE ended
       /\ attestation' =
            IF o.attested = "none" THEN attestation
            ELSE [attestation EXCEPT ![r[2]] =
                    [kind |-> o.attested, run |-> r, exit_code |-> o.exit_code,
                     escapes |-> o.escapes]]
  /\ left' \in {left, left \cup {r}}
  /\ UNCHANGED <<pc, invocation, local, pipe, printed, history>>

WorkloadEnds(r) ==
  /\ r \in left
  /\ left' = left \ {r}
  /\ UNCHANGED <<pc, invocation, local, pipe, printed, proc, ended, attestation, history>>

Compare ==
  \/ Launch \/ CannotLaunch \/ CloseWriteEnd \/ Read \/ Eof \/ Wait \/ WaitFails
  \/ Collect \/ Report

Next ==
  \/ Start \/ Compare \/ ReadFails \/ Killed \/ Prints
  \/ \E r \in Runs : VisRunEnds(r) \/ WorkloadEnds(r)

Spec == Init /\ [][Next]_vars

(* vis-compare is scheduled.  Nothing is assumed of vis-run and of the     *)
(* workload, nor that a read or vis-compare itself ever fails.             *)
FairSpec == Spec /\ WF_vars(Compare)

----------------------------------------------------------------------------
ResultType ==
  [started : BOOLEAN, exit_code : 0 .. 255, escapes : Nat, evidence : Runs \cup {NoRun},
   metric : SUBSET Nat]

(* The type of the variables; an exit code is one that a process can have. *)
TypeOK ==
  /\ pc \in {"idle", "launch", "close", "read", "wait", "collect", "report"}
  /\ invocation \in 0 .. MaxRuns /\ source \in Sources
  /\ results \in [Sources -> ResultType]
  /\ captured \in Nat /\ printed \in Nat /\ pipe \in 0 .. PipeSize
  /\ write_end \in BOOLEAN /\ exit_code \in {0, 1, 137}
  /\ proc \in [Runs -> {"none", "running", "zombie", "gone"}]
  /\ left \subseteq Runs /\ orphans \subseteq Runs
  /\ \A s \in Sources : attestation[s].run \in (Runs \cap (Nat \X {s})) \cup {NoRun}

(* The two profiles, and two invocations, do not disturb each other: vis-  *)
(* compare starts a run when the one before has ended with all that could  *)
(* print, unless a failed read or its own death made it leave that run.    *)
(* (run_vis_run_profile reads to the end of the file before it waits)      *)
ProfilesDoNotOverlap ==
  \A q, r \in Runs : q # r /\ Active(q) /\ Active(r) => q \in orphans \/ r \in orphans

(* When the output is looked at, it is all that was printed: nothing is    *)
(* lost in the pipe, and nothing may follow.                               *)
(* (run_vis_run_profile, vis_compare_capture_metrics)                      *)
OutputIsComplete ==
  pc \in {"wait", "collect"} => captured = printed /\ ~Active(Current)

(* A profile is recommended only if its own vis-run of this invocation     *)
(* succeeded and reported no escape, however stale the attestation file    *)
(* and whatever is in counters that were never set, unless an orphan of an *)
(* earlier invocation overwrote the file in the meantime.                  *)
(* (run_vis_run_profile, build_recommendation)                             *)
RecommendationIsEarned ==
  pc = "report" =>
    \A s \in Recommended :
      \/ results[s].evidence \in orphans
      \/ /\ proc[<<invocation, s>>] = "gone"
         /\ ended[s].status = [signaled |-> FALSE, n |-> 0]
         /\ ended[s].escapes = 0

(* A metric note compares the very numbers that the two runs of this       *)
(* invocation printed first, though their attestations be stale: neither   *)
(* is of an earlier run or lost with a part of the output.                 *)
(* (vis_compare_capture_metrics, run_vis_run_profile, build_recommendation)*)
MetricNotesAreOfTheseRuns ==
  pc = "report" =>
    MetricNotes(results["primary"].metric, results["secondary"].metric) =
      IF \A s \in Sources : results[s].started
      THEN MetricNotes(shown["primary"], shown["secondary"]) ELSE {}

(* When everything that holds the pipe has ended, so does vis-compare.     *)
(* (its children are the only ones that keep the write end)                *)
ReturnsWhenRunsEnd ==
  <>[](\A r \in Runs : ~Active(r)) => <>[](pc = "idle")

(* "VIS Compare always reports runtime-control evidence" of the workload   *)
(* it runs (README.md:278,292).  Violated: a vis-run that leaves no        *)
(* attestation is reported with the one an earlier run left.               *)
EvidenceIsOfThisRun ==
  pc = "report" /\ orphans = {} =>
    \A s \in Sources : results[s].started => results[s].evidence = <<invocation, s>>
=============================================================================
