----------------------------- MODULE RunContract -----------------------------
(***************************************************************************)
(* What vis-run promises to its caller, without the child, the pipe, the   *)
(* observer or the process table: a workload is refused, or begins on CPUs *)
(* that the policy allows, ends, and is reported once, after its end.      *)
(* Module VisRun implements it; vis-compare relies on it (VisCompare).     *)
(***************************************************************************)
EXTENDS RunPolicy

CONSTANTS Cpus

VARIABLES
  stage,     \* of the workload
  allowed,   \* the CPUs it may be given
  mask,      \* the CPUs it has while it runs
  status,    \* how it ended
  report     \* vis-run's exit code, and what is attested

vars == <<stage, allowed, mask, status, report>>

NotReported == [exit |-> 0, file |-> "no", exit_code |-> 0, verdict |-> ""]

Init ==
  /\ stage = "pending" /\ allowed \in SUBSET Cpus
  /\ mask = {} /\ status = NotEnded /\ report = NotReported

(* The caller gets exit, or 1 when the attestation cannot be written.      *)
Reports(exit, exit_code, verdicts) ==
  /\ stage' = "reported" /\ mask' = {}
  /\ \E file \in {"no", "yes", "failed"}, verdict \in verdicts :
       report' = [exit |-> IF file = "failed" THEN 1 ELSE exit, file |-> file,
                  exit_code |-> exit_code, verdict |-> verdict]
  /\ UNCHANGED <<allowed, status>>

(* No policy, no CPUs, no process: nothing is run.  Of a dry run that is   *)
(* refused, only the exit code tells.                                      *)
Refuse ==
  stage = "pending" /\ Reports(1, 0, {"", "FAILED_BEFORE_WORKLOAD", "DRY_RUN"})

DryRun == stage = "pending" /\ Reports(0, 0, {"DRY_RUN"})

Begin ==
  /\ stage = "pending" /\ stage' = "running"
  /\ mask' \in (SUBSET allowed) \ {{}}
  /\ UNCHANGED <<allowed, status, report>>

(* Whoever may changes the mask of a running workload. *)
Repinned ==
  /\ stage = "running" /\ mask' \in SUBSET Cpus
  /\ UNCHANGED <<stage, allowed, status, report>>

Ended == {Signaled} \cup {Exited(code) : code \in 0 .. 255}

(* The workload ends, or the child that did not become it. *)
End ==
  /\ \/ stage = "running" /\ status' \in Ended
     \/ stage = "pending" /\ status' \in {Exited(126), Exited(127), Signaled}
  /\ stage' = "over" /\ mask' = {}
  /\ UNCHANGED <<allowed, report>>

VerdictsOf(s) ==
  CASE s = Exited(0)   -> {"CONTROLLED", "CONTROLLED_WITH_WARNINGS"}
    [] s = Exited(126) -> {"FAILED_BEFORE_WORKLOAD"}
    [] OTHER           -> {"WORKLOAD_FAILED"}

Report == stage = "over" /\ Reports(ExitCode(status), ExitCode(status), VerdictsOf(status))

(* How it ended could not be learned. *)
ReportLost == stage = "over" /\ Reports(1, 0, {"FAILED_BEFORE_WORKLOAD"})

Next == Refuse \/ DryRun \/ Begin \/ Repinned \/ End \/ Report \/ ReportLost

Spec == Init /\ [][Next]_vars

(* Whoever reads an attestation finds the code that vis-run ended with, or *)
(* 0 in that of a run that failed and ended with 1 (as VisCompare assumes  *)
(* of its Outcomes).                                                       *)
AttestedCodeAgrees == report.file = "yes" => Agreed(report.exit, report.exit_code)
=============================================================================
