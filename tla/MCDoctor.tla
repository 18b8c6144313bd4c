------------------------------ MODULE MCDoctor ------------------------------
(* vis-doctor on three of four CPUs, 0 and 1 being siblings: a scan of two  *)
(* cores or of three, with a primary list of two.                           *)
EXTENDS Doctor

MCCpuIds == 0 .. 3
MCCoreOf == [c \in CpuIds |-> IF c <= 1 THEN "core0" ELSE IF c = 2 THEN "core2" ELSE "core3"]
MCOnlineSets == <<{{0, 1, 3}, {0, 2, 3}}, {{0, 2, 3}}>>
MCFewOnline == [n \in 1 .. MaxRuns |-> {{0, 1}}]
MCDomainOf == [c \in CpuIds |-> IF c = 1 THEN 0 ELSE c]

(* A machine with everything; a virtual one for a user without rights; one *)
(* of a kind that no scan of it can be.                                    *)
Workstation ==
  [container |-> FALSE, hypervisor |-> FALSE, root |-> TRUE, rdtscp |-> TRUE,
   exists |-> Paths, readable |-> Paths, path |-> {"rtla", "perf"}, succeed |-> {"help"},
   smt |-> TRUE, isolated |-> FALSE, powersave |-> {0},
   hugepages |-> TRUE, thp_always |-> TRUE, swap |-> FALSE]
Guest ==
  [Workstation EXCEPT !.hypervisor = TRUE, !.root = FALSE, !.path = {"perf"},
     !.exists = {"/sys/devices/system/cpu", "/proc", "/sys/kernel/debug/tracing"},
     !.readable = {"/sys/devices/system/cpu", "/proc"}, !.isolated = TRUE,
     !.hugepages = FALSE, !.thp_always = FALSE, !.swap = TRUE]
Modest == [Workstation EXCEPT !.exists = Paths \ {"/dev/cpu/0/msr"}]
Plain == [Workstation EXCEPT !.exists = {"/proc"}, !.root = FALSE]
Old == [Guest EXCEPT !.container = TRUE, !.rdtscp = FALSE, !.path = {}]
MCMachines == <<{Workstation, Guest, Modest, Plain, Old}, {Workstation}>>
MCOneMachine == [n \in 1 .. MaxRuns |-> {Workstation}]

Outcome(status, rate, contaminated, migrated, pass) ==
  [status |-> status, rate |-> rate, contaminated |-> contaminated,
   migrated |-> migrated, pass |-> pass]

(* 5 is half of 10, and 3 is 5 less 40 %; one way each to be unfit; and a  *)
(* CPU all of whose windows had SMIs.                                      *)
MCOutcomes ==
  {Outcome("VIS_OK", 10, 0, 0, TRUE), Outcome("VIS_OK", 5, 0, 0, TRUE),
   Outcome("VIS_OK", 3, 0, 0, TRUE), Outcome("VIS_OK", 10, 1, 0, TRUE),
   Outcome("VIS_OK", 10, 0, 1, TRUE), Outcome("VIS_OK", 10, 0, 0, FALSE),
   Outcome("VIS_ERR_NO_SAMPLES", 0, 1, 0, FALSE)}

MCFewOutcomes ==
  {Outcome("VIS_OK", 10, 0, 0, TRUE), Outcome("VIS_OK", 5, 0, 0, TRUE),
   Outcome("VIS_OK", 3, 0, 0, TRUE)}
=============================================================================
