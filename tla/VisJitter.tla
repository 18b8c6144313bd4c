------------------------------ MODULE VisJitter ------------------------------
(***************************************************************************)
(* The vis-jitter program (src/vis-jitter/src/main.cpp and report.cpp):    *)
(* its arguments, one measurement (module Measurement), the report saved   *)
(* if a file was asked for, and the exit code that tells a script whether  *)
(* the core passed.  The file may hold the report of an earlier call.  The *)
(* report that is printed is the one that is saved.                        *)
(***************************************************************************)
EXTENDS Measurement

VARIABLES
  main,        \* where main is
  file,        \* what is in the file named by --output
  exit_code    \* -1 while the program runs

jitter == <<main, file, exit_code>>

(* The report as JSON: the counters, the latencies and the verdict. *)
Document ==
  [kind |-> "whole", audit |-> audit, accepted |-> results.samples_accepted,
   migrated |-> results.core_migration_rejected, latency |-> results.latency,
   verdict |-> IF results.determinism_pass THEN "PASS" ELSE "FAIL"]

Earlier == [kind |-> "earlier"]
Torn == [kind |-> "torn"]

JitterInit == Init /\ main = "arguments" /\ file = Earlier /\ exit_code = -1

Ends(code) == main' = "ended" /\ exit_code' = code

(* --help ends with 0, a wrong argument with 1; both before the call. *)
Arguments ==
  /\ main = "arguments"
  /\ \/ main' = "call" /\ UNCHANGED exit_code
     \/ \E code \in {0, 1} : Ends(code)
  /\ UNCHANGED <<vars, file>>

(* vis_jitter_run, step by step, and what goes on beside it. *)
Call == main = "call" /\ pc # "done" /\ Next /\ UNCHANGED jitter

Returned(ok) == main = "call" /\ pc = "done" /\ (status = "VIS_OK") = ok

MeasurementFailed ==
  /\ Returned(FALSE)
  /\ Ends(1)
  /\ UNCHANGED <<vars, file>>

(* Mutant: a report that was saved is a success. *)
SaveWithSuccess ==
  /\ Returned(TRUE)
  /\ \/ Ends(IF results.determinism_pass THEN 0 ELSE 1) /\ UNCHANGED file
     \/ Ends(0) /\ file' \in {Document, Torn}
  /\ UNCHANGED vars

(* No file is asked for; or the report is written, in whole or, on a full  *)
(* disk, in part; or there is no memory for its text or no such file.      *)
Save ==
  /\ Returned(TRUE)
  /\ \/ Ends(IF results.determinism_pass THEN 0 ELSE 1) /\ file' \in {file, Document, Torn}
     \/ Ends(1) /\ UNCHANGED file
  /\ UNCHANGED vars

Main == Arguments \/ MeasurementFailed \/ Save

JitterNext == Main \/ Call

(* The program is scheduled, and time passes while it measures. *)
JitterFairness ==
  /\ WF_<<vars, jitter>>(Main)
  /\ WF_<<vars, jitter>>(Call /\ Thread)
  /\ WF_<<vars, jitter>>(Call /\ Tick)

JitterSpec == JitterInit /\ [][JitterNext]_<<vars, jitter>> /\ JitterFairness

----------------------------------------------------------------------------
(* Samples in the buckets whose midpoint is at most ns. *)
CountWithin(ns) ==
  SumFunctionOnSet(histogram.buckets, {b \in Bucket : b * Width + Width \div 2 <= ns})

(* Exit code 0 of a measurement is earned, whatever happened on the way:   *)
(* there are accepted samples, at least 99 % of them are within the        *)
(* threshold (to half a bucket), no SMI or other core spoiled one while    *)
(* the pinning lasted, the device was released; and the file, unless it is *)
(* cut off or was not asked for, says so too.                              *)
(* (main, vis_jitter_run, vis_measure, vis_histogram_compute)              *)
PassIsEarned ==
  main = "ended" /\ exit_code = 0 /\ pc = "done" =>
    /\ 0 < histogram.total /\ 99 * histogram.total <= 100 * CountWithin(Threshold)
    /\ moves = 0 => tainted = 0
    /\ ~fd
    /\ file.kind = "whole" => file.verdict = "PASS" /\ file.accepted = histogram.total

(* The program ends: the loop ends when the time is up even if every       *)
(* window is rejected, every MSR read fails late, or the thread is moved.  *)
Termination == <>(main = "ended")
=============================================================================
