------------------------------ MODULE RunPolicy ------------------------------
(***************************************************************************)
(* The pure part of vis-run (src/vis-jitter/src/vis_run.cpp): which CPUs a *)
(* Doctor policy assigns, the events its warnings leave in the attestation *)
(* and the verdict of a run.  CPU lists are sets.                          *)
(***************************************************************************)
EXTENDS Naturals

CONSTANTS SetSize    \* CPU_SETSIZE

ASSUME SetSizeAssumption == SetSize \in Nat

Event(severity, category, result) ==
  [severity |-> severity, category |-> category, result |-> result]

EventType ==
  [severity : {"error", "warning", "info"},
   category : {"policy", "affinity", "process", "observation", "workload",
               "runtime_affinity", "validation", "cpu_frequency", "isolation",
               "memory", "cpu_topology", "smi"},
   result : {"failed", "read_failed", "signaled", "nonzero_exit", "escape_detected",
             "accepted_with_warning", "not_applicable_to_cpu_run", "policy_enforced"}]

(* What the policy's warnings say of the run, by warning.                  *)
WarningEvent ==
  [short_scan_requires_longer_validation |->
     Event("warning", "validation", "accepted_with_warning"),
   powersave_governor |->
     Event("warning", "cpu_frequency", "accepted_with_warning"),
   existing_isolation |->
     Event("warning", "isolation", "accepted_with_warning"),
   no_persistent_hugepages |->
     Event("info", "memory", "not_applicable_to_cpu_run"),
   lower_throughput_cpu_class_detected |->
     Event("info", "cpu_topology", "policy_enforced"),
   smi_contaminated_windows_detected |->
     Event("warning", "smi", "policy_enforced")]

PolicyEvents(policy) ==
  {WarningEvent[w] : w \in policy.warnings \cap DOMAIN WarningEvent}
  \cup (IF policy.requires_longer_validation
        THEN {WarningEvent.short_scan_requires_longer_validation} ELSE {})

(* vis_run_select_cpus: the list it fills in, and whether it accepts it.   *)
ListedCpus(policy, source) ==
  IF ~policy.available THEN {}
  ELSE CASE source = "primary"   -> policy.primary
         [] source = "secondary" -> policy.secondary
         [] OTHER                -> {}

Selectable(policy, source) ==
  LET cpus == ListedCpus(policy, source) IN
  cpus # {} /\ cpus \cap policy.contaminated = {}

(* build_cpu_set *)
FitsCpuSet(cpus) == \A cpu \in cpus : cpu < SetSize

(* How a workload ends: by itself or by signal 9. *)
Signaled == [how |-> "signaled", code |-> 9]
Exited(code) == [how |-> "exited", code |-> code]
NotEnded == [how |-> "unknown", code |-> 0]

(* Mutant: the signal is returned with a sign.                             *)
ExitCodeSigned(s) == IF s.how = "signaled" THEN 0 - s.code ELSE s.code

(* workload_exit_code *)
ExitCode(s) == IF s.how = "signaled" THEN 128 + s.code ELSE s.code

(* The events main adds once the child has ended with status s. *)
EndEvents(s) ==
  CASE s = Exited(126)      -> {Event("error", "affinity", "failed")}
    [] s = Exited(127)      -> {Event("error", "workload", "failed")}
    [] s.how = "signaled"   -> {Event("error", "workload", "signaled")}
    [] s.how = "exited" /\ s.code \notin {0, 126, 127} ->
                               {Event("error", "workload", "nonzero_exit")}
    [] OTHER                -> {}

(* Mutant: an escape is only information.                                  *)
EscapeNotes(r) ==
  IF r.escapes = {} THEN {}
  ELSE {Event("info", "runtime_affinity", "escape_detected")}

EscapeEvents(r) ==
  IF r.escapes = {} THEN {}
  ELSE {Event("warning", "runtime_affinity", "escape_detected")}

HasEvent(r, severity) == \E e \in r.events : e.severity = severity

(* vis_run_result_verdict *)
Verdict(r) ==
  CASE r.dry_run                              -> "DRY_RUN"
    [] ~r.dry_run /\ HasEvent(r, "error")     ->
         IF r.applied THEN "WORKLOAD_FAILED" ELSE "FAILED_BEFORE_WORKLOAD"
    [] ~r.dry_run /\ ~HasEvent(r, "error")    ->
         IF ~r.applied THEN "POLICY_REJECTED"
         ELSE IF r.exit_code # 0 THEN "WORKLOAD_FAILED"
         ELSE IF HasEvent(r, "warning") THEN "CONTROLLED_WITH_WARNINGS"
         ELSE "CONTROLLED"

(* The exit code of vis-run, and the one attested in a file it wrote:    *)
(* the same, unless vis-run fails of itself.                               *)
Agreed(exit, attested) == exit = attested \/ (exit = 1 /\ attested = 0)
=============================================================================
