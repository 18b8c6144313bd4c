----------------------------- MODULE Inspection -----------------------------
(***************************************************************************)
(* What vis-doctor makes of the machine before it measures anything        *)
(* (vis_doctor_inspect, src/vis-jitter/src/doctor.cpp): its environment,   *)
(* its sensors, the cores its CPUs belong to, and the warnings, findings   *)
(* and recommendations these give cause for.  Limitations, findings and    *)
(* recommendations are known by their subject.                             *)
(***************************************************************************)
EXTENDS Naturals

CONSTANTS
  CpuIds,     \* CPU numbers
  CoreOf,     \* the physical core of each
  DomainOf    \* the CPU that cpufreq names the policy of each after

ASSUME InspectionAssumption ==
  /\ CpuIds \subseteq Nat
  /\ DOMAIN CoreOf = CpuIds
  /\ DomainOf \in [CpuIds -> CpuIds]

(* The machine, apart from which CPUs are online: what is there to be      *)
(* found, what of it may be read, which commands succeed, which frequency  *)
(* policies have the powersave governor.                                   *)
Paths == {"/dev/cpu/0/msr", "/sys/devices/system/cpu", "/proc", "/sys/kernel/tracing",
          "/sys/kernel/debug/tracing", "available_tracers", "available_events"}
Commands == [rtla |-> {"help", "osnoise", "timerlat", "hwnoise"}, perf |-> {"help"}]

MachineType ==
  [container : BOOLEAN, hypervisor : BOOLEAN, root : BOOLEAN, rdtscp : BOOLEAN,
   exists : SUBSET Paths, readable : SUBSET Paths,
   path : SUBSET DOMAIN Commands, succeed : SUBSET {"help", "osnoise", "timerlat", "hwnoise"},
   smt : BOOLEAN, isolated : BOOLEAN, powersave : SUBSET CpuIds,
   hugepages : BOOLEAN, thp_always : BOOLEAN, swap : BOOLEAN]

When(condition, w) == IF condition THEN {w} ELSE {}

----------------------------------------------------------------------------
Mode(m) ==
  CASE m.container                    -> "container"
    [] ~m.container /\ m.hypervisor   -> "virtualized"
    [] OTHER                          -> "bare_metal"

HasMsr(m) == "/dev/cpu/0/msr" \in m.exists

(* Mutant: root is enough. *)
QualityForRoot(m) ==
  CASE ~m.rdtscp                                            -> "unavailable"
    [] m.rdtscp /\ Mode(m) # "bare_metal"                   -> "limited"
    [] m.rdtscp /\ Mode(m) = "bare_metal" /\ m.root         -> "strong"
    [] OTHER                                                -> "partial"

EvidenceQuality(m) ==
  CASE ~m.rdtscp                                            -> "unavailable"
    [] m.rdtscp /\ Mode(m) # "bare_metal"                   -> "limited"
    [] m.rdtscp /\ Mode(m) = "bare_metal" /\ m.root /\ HasMsr(m) -> "strong"
    [] OTHER                                                -> "partial"

(* detect_environment *)
Environment(m) ==
  [mode |-> Mode(m), quality |-> EvidenceQuality(m),
   limitations |->
     When(Mode(m) # "bare_metal", Mode(m)) \cup When(~m.root, "root")
     \cup When(~HasMsr(m), "msr") \cup When(~m.rdtscp, "rdtscp")]

Sensor(available, quality, capabilities, limitations) ==
  [available |-> available, quality |-> quality, capabilities |-> capabilities,
   limitations |-> limitations]

MsrSensor(m) ==
  Sensor(HasMsr(m),
         CASE m.root /\ HasMsr(m) /\ m.rdtscp -> "strong"
           [] ~HasMsr(m) /\ ~m.rdtscp         -> "unavailable"
           [] OTHER                           -> "partial",
         When(HasMsr(m), "ia32_smi_count"),
         When(~HasMsr(m), "msr") \cup When(~m.root, "root") \cup When(~m.rdtscp, "rdtscp"))

PathSensor(m, path) ==
  LET exists == path \in m.exists
      readable == exists /\ path \in m.readable
  IN Sensor(readable,
            IF readable THEN "strong" ELSE IF exists THEN "limited" ELSE "unavailable",
            When(readable, path),
            When(~readable, IF exists THEN "unreadable" ELSE "absent"))

(* The first of the two mount points that is there; never read further.    *)
TracefsSensor(m) ==
  LET mounted == m.exists \cap {"/sys/kernel/tracing", "/sys/kernel/debug/tracing"}
      source == IF "/sys/kernel/tracing" \in mounted THEN "/sys/kernel/tracing"
                ELSE "/sys/kernel/debug/tracing"
      files == {"available_tracers", "available_events"}
  IN CASE mounted = {}           -> Sensor(FALSE, "unavailable", {}, {"absent"})
       [] mounted # {} /\ source \in m.readable ->
            Sensor(TRUE, "partial", files \cap m.readable, {"not_used"} \cup (files \ m.readable))
       [] OTHER                  -> Sensor(FALSE, "limited", {}, {"unreadable"})

(* rtla and perf are asked for their help, and not used. *)
ToolSensor(m, tool) ==
  IF tool \notin m.path THEN Sensor(FALSE, "unavailable", {}, {"absent"})
  ELSE Sensor(TRUE, "partial", Commands[tool] \cap m.succeed,
              {"not_used"} \cup (Commands[tool] \ m.succeed))

Sensors(m) ==
  [msr |-> MsrSensor(m), sysfs |-> PathSensor(m, "/sys/devices/system/cpu"),
   procfs |-> PathSensor(m, "/proc"), tracefs |-> TracefsSensor(m),
   rtla |-> ToolSensor(m, "rtla"), perf |-> ToolSensor(m, "perf")]

----------------------------------------------------------------------------
(* online_cpus: what sysfs shows as online, and CPU 0, which has no file.  *)
ListedOnline(online) == online \cup ({0} \cap CpuIds)

(* physical_core_key of CPU c, whose files were read while the CPUs of     *)
(* online were: its siblings, or the one key of all CPUs without files.    *)
CoreKey(c, online) == {d \in online : c \in online /\ CoreOf[d] = CoreOf[c]}

(* has_governor: each CPU has only the policy that bears its number.       *)
HasPowersave(m, cpus) == \E c \in cpus : DomainOf[c] = c /\ c \in m.powersave

(* What the analysis warns of before it looks at a scan.  Each warning is  *)
(* a finding as well.                                                      *)
MachineWarnings(m, cpus) ==
  When(Mode(m) # "bare_metal", "limited_hardware_evidence")
  \cup When(Mode(m) = "bare_metal" /\ EvidenceQuality(m) # "strong", "partial_hardware_evidence")
  \cup When(m.smt, "smt_active") \cup When(HasPowersave(m, cpus), "powersave_governor")
  \cup When(m.isolated, "existing_isolation") \cup When(~m.hugepages, "no_persistent_hugepages")
  \cup When(m.thp_always, "thp_always_enabled") \cup When(m.swap, "swap_configured")

(* add_environment_recommendations *)
MachineAdvice(m, cpus) ==
  When(EvidenceQuality(m) \in {"limited", "unavailable"}, "interpret_evidence")
  \cup When(m.smt, "smt_siblings") \cup When(HasPowersave(m, cpus), "governor")
  \cup When(~m.hugepages, "hugepages") \cup When(m.thp_always, "thp")
  \cup When(m.swap, "swap") \cup When(m.isolated, "isolation")
=============================================================================
