------------------------------ MODULE MCVisRun ------------------------------
(* Instances of VisRun: three CPUs, of which 2 is past CPU_SETSIZE.        *)
EXTENDS VisRun

CONSTANTS leader, task

MCPids == {leader, task}
MCCpus == 0 .. 2
MCOnline == {0, 1}

MCPolicy ==
  [available |-> TRUE, primary |-> {0}, secondary |-> {0, 1}, contaminated |-> {},
   requires_longer_validation |-> FALSE, warnings |-> {"no_persistent_hugepages"}]

(* The policy's secondary CPUs are contaminated; a policy with a warning   *)
(* whose secondary CPUs do not fit a cpu_set_t; and no policy at all.      *)
MCPolicies ==
  {[MCPolicy EXCEPT !.contaminated = {1}],
   [MCPolicy EXCEPT !.warnings = {"powersave_governor"}, !.secondary = {2}],
   [MCPolicy EXCEPT !.available = FALSE]}

MCPlainPolicies == {MCPolicy}
MCSources == {"primary", "secondary"}
MCCodes == {0, 1, 126, 127}
=============================================================================
