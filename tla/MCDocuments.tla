----------------------------- MODULE MCDocuments -----------------------------
(* Instances of Documents: the policies Doctor makes of small machines,    *)
(* and command lines with and without words that are keys.                 *)
EXTENDS Documents

Policy ==
  [available |-> TRUE, profile |-> "strict", cpu_policy |-> "sibling_aware_primary",
   primary |-> {0}, secondary |-> {0, 1}, avoid |-> {}, contaminated |-> {},
   smt_policy |-> "avoid_sibling_sharing_for_first_profile",
   lower_throughput_policy |-> "no_lower_throughput_class_detected",
   requires_longer_validation |-> FALSE, warnings |-> {}]

(* A short scan of a machine with a contaminated and a slow CPU, and of    *)
(* one with no clean CPU at all; CPU 40 is past CPU_SETSIZE.               *)
Short ==
  [Policy EXCEPT !.avoid = {2, 13}, !.contaminated = {13}, !.requires_longer_validation = TRUE,
     !.primary = {0, 12}, !.secondary = {0, 1, 12},
     !.warnings = {"smi_contaminated_windows_detected", "lower_throughput_cpu_class_detected",
                   "short_scan_requires_longer_validation"}]
NoneClean ==
  [Policy EXCEPT !.available = FALSE, !.primary = {}, !.secondary = {},
     !.avoid = {0}, !.contaminated = {0}, !.warnings = {"smi_contaminated_windows_detected"}]
Large == [Policy EXCEPT !.secondary = {0, 40}, !.warnings = {"powersave_governor"}]

Report(p, scan_ran, baseline) == [policy |-> p, scan_ran |-> scan_ran, baseline |-> baseline]

MCReports ==
  {Report(Policy, TRUE, TRUE), Report(Policy, FALSE, FALSE), Report(Short, TRUE, FALSE),
   Report(NoneClean, TRUE, TRUE), Report(Large, TRUE, FALSE)}

MCWords ==
  {Plain(s) : s \in {"stress", "grep", "jq", "verdict", "exit_code", "escaped_cpus"}}
  \cup {WithColon(v) : v \in {Broken, Number(0), Number(7)}} \cup {EndsInColon}

MCCommands ==
  {<<Plain("stress")>>, <<Plain("grep"), Plain("verdict"), WithColon(Number(0))>>,
   <<Plain("grep"), Plain("verdict"), EndsInColon>>, <<EndsInColon, Plain("verdict")>>,
   <<Plain("jq"), Plain("exit_code"), WithColon(Number(7))>>,
   <<Plain("jq"), Plain("exit_code"), WithColon(Broken)>>,
   <<Plain("grep"), Plain("escaped_cpus")>>}

MCSources == {"primary", "secondary"}
MCEnds == {Exited(c) : c \in {0, 12, 126}} \cup {Signaled}
MCSightings == {<<>>, <<{0, 1}>>, <<{0, 12}, {1, 2, 3, 12}, {13}>>}
=============================================================================
