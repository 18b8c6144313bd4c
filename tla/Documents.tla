------------------------------ MODULE Documents ------------------------------
(***************************************************************************)
(* The two files that carry the evidence from one program to the next:     *)
(* doctor.json (vis_doctor_to_json, doctor.cpp), of which vis-run reads    *)
(* the runtime policy, and the attestation (vis_run_attestation_to_json,   *)
(* vis_run.cpp), of which vis-compare reads a profile's result.            *)
(*                                                                         *)
(* Nobody checks that a file was written to its end or waits for that: a   *)
(* reader may find any part of it, from the beginning.  A reader takes one *)
(* step; a file that is rewritten while it is read is left out.            *)
(***************************************************************************)
EXTENDS RunPolicy, JsonText

CONSTANTS
  Reports,     \* reports of Doctor: the policy, with or without scan, baseline
  Sources,     \* values of --cpu-source that vis-compare runs a profile with
  Words,       \* words of a command line, as tokens
  Commands,    \* workload command lines: sequences of words
  Ends,        \* how a workload may end
  Sightings    \* sequences of CPU masks that vis-run may observe

(* The policies of vis_doctor_analyze.                                     *)
CpuLists == {s \in SUBSET Nat : IsFiniteSet(s)}

PolicyWarnings ==
  {"limited_hardware_evidence", "partial_hardware_evidence", "smt_active",
   "powersave_governor", "existing_isolation", "no_persistent_hugepages",
   "thp_always_enabled", "swap_configured", "smi_contaminated_windows_detected",
   "lower_throughput_cpu_class_detected", "short_scan_requires_longer_validation",
   "baseline_cpu_pressure_detected"}

IsPolicy(p) ==
  /\ p = [available |-> p.available, profile |-> "strict",
          cpu_policy |-> "sibling_aware_primary", primary |-> p.primary,
          secondary |-> p.secondary, avoid |-> p.avoid, contaminated |-> p.contaminated,
          smt_policy |-> p.smt_policy,
          lower_throughput_policy |-> p.lower_throughput_policy,
          requires_longer_validation |-> p.requires_longer_validation,
          warnings |-> p.warnings]
  /\ p.available \in BOOLEAN /\ p.requires_longer_validation \in BOOLEAN
  /\ {p.primary, p.secondary, p.avoid, p.contaminated} \subseteq CpuLists
  /\ p.smt_policy \in {"avoid_sibling_sharing_for_first_profile", "not_applicable"}
  /\ p.lower_throughput_policy \in {"no_lower_throughput_class_detected",
                                    "avoid_for_first_profile"}
  /\ p.warnings \subseteq PolicyWarnings

(* A word of a command line as its reader sees it: whole, or with a colon  *)
(* and what stands behind that.  Behind a colon at the very end it is the  *)
(* closing quote, where a reader takes a string to begin.  Words that have *)
(* both a colon and a quote are left out.                                  *)
Plain(w) == <<String(w)>>
WithColon(value) == <<Broken, Colon, value, Broken>>
EndsInColon == <<Broken, Colon, String("any")>>

IsWord(w) ==
  \/ Len(w) = 1 /\ w = Plain(w[1].text)
  \/ Len(w) = 4 /\ w[3].n \in Nat /\ w \in {WithColon(Broken), WithColon(Number(w[3].n))}
  \/ w = EndsInColon

ASSUME DocumentsAssumption ==
  /\ \A r \in Reports :
       IsPolicy(r.policy) /\ r.scan_ran \in BOOLEAN /\ r.baseline \in BOOLEAN
  /\ Sources \subseteq {"primary", "secondary"}
  /\ Commands \subseteq Seq(Words) /\ \A w \in Words : IsWord(w)
  /\ Ends \subseteq {Exited(c) : c \in 0 .. 255} \cup {Signaled}
  /\ Sightings \subseteq Seq(CpuLists)

VARIABLES
  pc,          \* who is next
  report,      \* what Doctor found
  policy,      \* what vis-run read of it: a policy, or nothing
  run,         \* what vis-run did
  row,         \* what vis-compare read of that: a profile result, or nothing
  whole        \* history: the last file that was read was complete

vars == <<pc, report, policy, run, row, whole>>

(* What a reader may find of a document. *)
Readable(document) == UNION {OnDisk(document, n) : n \in 0 .. Len(document)}

Texts(keys) == [i \in DOMAIN keys |-> Text(keys[i], "any")]
Flags(keys) == [i \in DOMAIN keys |-> Flag(keys[i], TRUE)]
Counts(keys) == [i \in DOMAIN keys |-> Count(keys[i], 1)]

----------------------------------------------------------------------------
(* doctor.json.  Values that no reader modelled here looks at are "any",   *)
(* and of the lists of records one record is kept.                         *)
MachineSection ==
  Field("machine", Object(
    Texts(<<"hostname", "kernel">>) \o <<Count("logical_cpus", 4), Flag("smt_active", TRUE)>>
    \o Texts(<<"isolated_cpus", "nohz_full_cpus", "thp_enabled", "thp_defrag",
               "khugepaged_defrag">>)
    \o Counts(<<"mem_available_kb", "swap_total_kb", "swap_free_kb", "anon_hugepages_kb",
                "hugepages_total", "hugepages_free">>)))

EnvironmentSection ==
  Field("environment", Object(
    Texts(<<"mode", "evidence_quality">>)
    \o Flags(<<"root_user", "msr_device_available", "rdtscp_supported",
               "hypervisor_detected", "container_detected">>)
    \o <<Strings("limitations", <<"any">>), Strings("reasons", <<>>)>>))

Sensor(name, available) ==
  Field(name, Object(
    <<Flag("available", available)>> \o Texts(<<"quality", "source">>)
    \o <<Strings("capabilities", <<"any">>), Strings("limitations", <<>>)>>))

SensorSection == Field("sensors", Object(<<Sensor("msr", FALSE), Sensor("tsc", TRUE)>>))

BaselineSection ==
  Field("baseline_comparison", Object(
    <<Text("path", "any"), Flag("available", TRUE)>>
    \o Counts(<<"compared_cpus", "global_drop_ratio">>)
    \o <<Flag("pressure_detected", TRUE), Numbers("affected_cpus", <<0>>),
         Field("cpus", Array(<<Object(Counts(
           <<"cpu", "baseline_accepted_per_sec", "current_accepted_per_sec",
             "drop_ratio">>))>>))>>))

PolicySection(p) ==
  <<Field("candidate_summary",
          Object(Texts(<<"sibling_aware_primary", "all_clean_higher_throughput">>))),
    Field("recommended_runtime_policy", Object(
      <<Flag("available", p.available), Text("profile", p.profile),
        Text("cpu_policy", p.cpu_policy),
        Numbers("primary_cpus", SetToSeq(p.primary)),
        Numbers("secondary_cpus", SetToSeq(p.secondary)),
        Numbers("avoid_cpus", SetToSeq(p.avoid)),
        Numbers("contaminated_cpus", SetToSeq(p.contaminated)),
        Text("smt_policy", p.smt_policy),
        Text("lower_throughput_policy", p.lower_throughput_policy),
        Flag("requires_longer_validation", p.requires_longer_validation),
        Strings("warnings", SetToSeq(p.warnings))>>))>>

EvidenceSections ==
  <<Field("cpus", Array(<<Object(
      Counts(<<"id", "core_id", "numa_node">>) \o Texts(<<"siblings", "governor", "driver">>))>>)),
    Field("scan", Array(<<Object(
      Counts(<<"cpu", "status", "accepted_samples", "accepted_per_sec", "contaminated_windows",
               "msr_delta", "p99", "p99_9", "p99_99", "max">>)
      \o <<Flag("clean_candidate", TRUE), Text("throughput_class", "any")>>)>>)),
    Field("findings", Array(<<Object(Texts(<<"severity", "category", "message", "evidence">>))>>)),
    Field("recommendations", Array(<<Object(
      Texts(<<"risk", "action", "reason", "why_it_matters", "safe_suggestion",
              "advanced_suggestion", "advanced_risk", "expected_effect",
              "validation_command">>))>>)),
    Text("ai_context", "any")>>

(* vis_doctor_to_json *)
DoctorDocument(r) ==
  Object(<<Field("vis_doctor_report", Object(
    Texts(<<"schema_version", "generator", "generated_at">>)
    \o <<MachineSection, EnvironmentSection, SensorSection>>
    \o (IF r.baseline THEN <<BaselineSection>> ELSE <<>>)
    \o (IF r.scan_ran THEN PolicySection(r.policy) ELSE <<>>)
    \o EvidenceSections))>>)

(* The fields of a policy in the text of an object. *)
PolicyIn(object) ==
  {[available |-> available, profile |-> profile, cpu_policy |-> cpu_policy,
    primary |-> primary, secondary |-> secondary, avoid |-> avoid,
    contaminated |-> contaminated, smt_policy |-> smt,
    lower_throughput_policy |-> lower, requires_longer_validation |-> longer,
    warnings |-> warnings] :
      available    \in BoolField(object, "available"),
      profile      \in StringField(object, "profile"),
      cpu_policy   \in StringField(object, "cpu_policy"),
      primary      \in NumberSetField(object, "primary_cpus"),
      secondary    \in NumberSetField(object, "secondary_cpus"),
      avoid        \in NumberSetField(object, "avoid_cpus"),
      contaminated \in NumberSetField(object, "contaminated_cpus"),
      smt          \in StringField(object, "smt_policy"),
      lower        \in StringField(object, "lower_throughput_policy"),
      longer       \in BoolField(object, "requires_longer_validation"),
      warnings     \in StringSetField(object, "warnings")}

(* Mutant: the fields are searched in the whole file. *)
ParsePolicyAnywhere(text) == PolicyIn(text)

(* vis_run_parse_policy_text *)
ParsePolicy(text) == UNION {PolicyIn(o) : o \in ObjectOf(text, "recommended_runtime_policy")}

----------------------------------------------------------------------------
(* The kernel's Cpus_allowed_list: maximal ranges, as pairs.               *)
KernelList(mask) ==
  {range \in mask \X mask :
     /\ range[1] <= range[2] /\ range[1] .. range[2] \subseteq mask
     /\ range[1] - 1 \notin mask /\ range[2] + 1 \notin mask}

(* Mutant: a range ends before its last CPU. *)
CpuListHalfOpen(ranges) ==
  UNION {IF r[1] = r[2] THEN {r[1]} ELSE r[1] .. r[2] - 1 : r \in ranges}

(* vis_run_parse_cpu_list *)
CpuList(ranges) == UNION {r[1] .. r[2] : r \in ranges}

(* vis_run_cpu_list_has_outside, for each mask that was observed.          *)
EscapesSeen(masks, assigned) ==
  LET Outside(i) == CpuList(KernelList(masks[i])) \ assigned
      seen == SetToSeq({i \in DOMAIN masks : Outside(i) # {}})
  IN [k \in DOMAIN seen |-> Outside(seen[k])]

EscapeRow(cpus) ==
  Object(Counts(<<"pid", "tid">>) \o <<Text("cpus_allowed_list", "any"),
         Numbers("escaped_cpus", SetToSeq(cpus))>>)

EventRow(e) ==
  Object(<<Text("severity", e.severity), Text("category", e.category), Text("action", "any"),
           Text("result", e.result), Text("evidence", "any"), Text("recommendation", "any")>>)

FailedRow(e) ==
  Object(<<Text("category", e.category), Text("action", "any"), Text("result", e.result),
           Text("evidence", "any")>>)

(* The events of vis-run all have a recommendation, so that none is left   *)
(* out here.                                                               *)
AdviceRow(e) == Object(<<Text("category", e.category), Text("recommendation", "any")>>)

Rows(key, s, RowOf(_)) == Field(key, Array([i \in DOMAIN s |-> RowOf(s[i])]))

(* All of the attestation but the verdict, which is the last field.        *)
AttestedFields(p, r) ==
  LET events == SetToSeq(r.events)
      errors == SetToSeq({e \in r.events : e.severity = "error"})
  IN Texts(<<"schema_version", "generator", "policy_source">>)
     \o <<Text("profile", p.profile), Text("cpu_policy", p.cpu_policy),
          Text("cpu_source", r.source),
          Numbers("assigned_cpus", SetToSeq(r.assigned)),
          Numbers("avoid_cpus", SetToSeq(p.avoid)),
          Numbers("contaminated_cpus", SetToSeq(p.contaminated)),
          Text("smt_policy", p.smt_policy),
          Text("lower_throughput_policy", p.lower_throughput_policy),
          Flag("requires_longer_validation", p.requires_longer_validation),
          Strings("warnings", SetToSeq(p.warnings)),
          Field("workload", Object(
            <<Field("argv", Array(r.command)), Flag("started", ~r.dry_run),
              Flag("dry_run", r.dry_run), Flag("affinity_applied", r.applied),
              Text("status", r.status.how), Count("exit_code", r.exit_code)>>)),
          Field("observation", Object(
            <<Text("mode", "any")>>
            \o Counts(<<"samples", "observed_process_samples", "observed_thread_samples">>)
            \o <<Rows("affinity_escapes", r.escapes, EscapeRow)>>)),
          Rows("events", events, EventRow),
          Rows("failed_actions", errors, FailedRow),
          Rows("strengthened_recommendations", events, AdviceRow)>>

Attestation(fields) == Object(<<Field("vis_run_attestation", Object(fields))>>)

(* Mutant: the verdict is written first. *)
VerdictFirst(p, r) == Attestation(<<Text("verdict", Verdict(r))>> \o AttestedFields(p, r))

(* vis_run_attestation_to_json *)
AttestationDocument(p, r) ==
  Attestation(AttestedFields(p, r) \o <<Text("verdict", Verdict(r))>>)

(* vis_compare_parse_run_attestation *)
ParseAttestation(text) ==
  {[assigned |-> assigned, exit_code |-> code, verdict |-> verdict,
    escapes |-> Occurrences(text, <<String("escaped_cpus")>>),
    warnings |-> Occurrences(text, Text("severity", "warning"))] :
      assigned \in NumberSetField(text, "assigned_cpus"),
      code     \in NumberField(text, "exit_code"),
      verdict  \in StringField(text, "verdict")}

----------------------------------------------------------------------------
NoRun ==
  [source |-> "none", command |-> <<>>, dry_run |-> FALSE, assigned |-> {}, applied |-> FALSE,
   status |-> NotEnded, exit_code |-> 0, masks |-> <<>>, escapes |-> <<>>, events |-> {},
   exit |-> 0]

Init ==
  /\ pc = "vis-run" /\ report \in Reports
  /\ policy = {} /\ run = NoRun /\ row = {} /\ whole = FALSE

(* vis-run reads what there is of doctor.json.  Without a policy it ends,  *)
(* and attests nothing.                                                    *)
VisRunReads ==
  /\ pc = "vis-run"
  /\ \E text \in Readable(DoctorDocument(report)) :
       /\ policy' = ParsePolicy(text)
       /\ whole' = (text = DoctorDocument(report))
  /\ pc' = IF policy' = {} THEN "refused" ELSE "workload"
  /\ UNCHANGED <<report, run, row>>

(* write_attestation_if_requested, and return: code, unless the file       *)
(* cannot be opened.  What vis-compare does without it: module VisCompare. *)
Publish(r, code) ==
  \/ pc' = "attested" /\ run' = [r EXCEPT !.exit = code]
  \/ pc' = "unattested" /\ run' = [r EXCEPT !.exit = 1]

(* A run that fails before there is a workload: no CPUs, or no process.    *)
NoWorkload(p, r) ==
  \E cause \in IF ~Selectable(p, r.source) THEN {Event("error", "policy", "failed")}
               ELSE IF ~FitsCpuSet(r.assigned) THEN {Event("error", "affinity", "failed")}
               ELSE {Event("error", "process", "failed")} :
    Publish([r EXCEPT !.events = @ \cup {cause}], 1)

(* What vis-run saw of a workload: its CPU masks, and whether the read of  *)
(* the readiness byte failed before that.                                  *)
Watched(r, masks, notes) ==
  [r EXCEPT !.masks = masks, !.escapes = EscapesSeen(masks, r.assigned),
            !.events = @ \cup notes]

(* It ends with status s, or waitpid fails and nothing is known of that.   *)
Reaped(r, s) ==
  [r EXCEPT !.applied = (s # Exited(126)), !.status = s, !.exit_code = ExitCode(s),
            !.events = @ \cup EndEvents(s) \cup EscapeEvents([escapes |-> ToSet(r.escapes)])]
Lost(r) == [r EXCEPT !.events = @ \cup {Event("error", "process", "failed")}]

Workload(p, r) ==
  /\ Selectable(p, r.source) /\ FitsCpuSet(r.assigned)
  /\ \E masks \in Sightings, notes \in {{}, {Event("warning", "observation", "read_failed")}} :
       LET seen == Watched(r, masks, notes) IN
       (\E s \in Ends : Publish(Reaped(seen, s), ExitCode(s))) \/ Publish(Lost(seen), 1)

(* main of vis-run, as vis-compare starts it; module VisRun has its steps. *)
VisRunRuns ==
  /\ pc = "workload"
  /\ \E p \in policy, source \in Sources, command \in Commands :
       LET r == [NoRun EXCEPT !.source = source, !.command = command,
                              !.assigned = ListedCpus(p, source), !.events = PolicyEvents(p)]
       IN NoWorkload(p, r) \/ Workload(p, r)
  /\ whole' = FALSE
  /\ UNCHANGED <<report, policy, row>>

(* vis-compare reads what there is of the attestation, and puts vis-run's  *)
(* exit code in the place of the one attested.                             *)
VisCompareReads ==
  /\ pc = "attested" /\ pc' = "compared"
  /\ \E p \in policy : \E text \in Readable(AttestationDocument(p, run)) :
       /\ row' = {[a EXCEPT !.exit_code = run.exit] : a \in ParseAttestation(text)}
       /\ whole' = (text = AttestationDocument(p, run))
  /\ UNCHANGED <<report, policy, run>>

Next == VisRunReads \/ VisRunRuns \/ VisCompareReads

Spec == Init /\ [][Next]_vars

----------------------------------------------------------------------------
Cpus == UNION {r.policy.primary \cup r.policy.secondary : r \in Reports}

TypeOK ==
  /\ pc \in {"vis-run", "refused", "workload", "attested", "unattested", "compared"}
  /\ report \in Reports /\ whole \in BOOLEAN
  /\ \A p \in policy : DOMAIN p = DOMAIN report.policy
  /\ run.assigned \subseteq Cpus /\ run.exit_code \in 0 .. 255
  /\ \A a \in row : a.assigned \subseteq Cpus /\ a.exit_code \in 0 .. 255

(* vis-run reads the very policy that Doctor wrote or none at all, however *)
(* little of doctor.json there is and whatever fields of the same names    *)
(* stand before the policy; and it reads that of a whole file with a scan. *)
(* (vis_run_parse_policy_text, find_json_object, vis_doctor_to_json)       *)
PolicyIsReadAsWritten ==
  pc # "vis-run" =>
    /\ policy \subseteq {report.policy}
    /\ policy # {} => report.scan_ran
    /\ pc = "refused" => ~(whole /\ report.scan_ran)

(* The keys that vis-compare searches in an attestation, and a command    *)
(* line by which it is misled: a word verdict, and one that ends in a      *)
(* colon.                                                                  *)
Searched == {String(key) : key \in {"assigned_cpus", "exit_code", "verdict", "escaped_cpus"}}
NamesKey == \E i \in DOMAIN run.command : ToSet(run.command[i]) \cap Searched # {}
Misleads ==
  \E i, j \in DOMAIN run.command :
    i < j /\ run.command[i] = Plain("verdict") /\ run.command[j] = EndsInColon

(* vis-compare takes no part of an attestation for the whole: it reads the *)
(* run that was attested or refuses, unless the command line misleads it.  *)
(* Other words of the workload's command line that are keys can make it    *)
(* refuse or count more escapes, never fewer.                              *)
(* (vis_compare_parse_run_attestation, vis_run_attestation_to_json)        *)
AttestationIsReadAsWritten ==
  pc = "compared" =>
    /\ \A a \in row : a.assigned = run.assigned
    /\ ~Misleads => \A a \in row :
         /\ a.verdict = Verdict(run)
         /\ a.warnings = Cardinality({e \in run.events : e.severity = "warning"})
         /\ a.escapes >= Len(run.escapes)
         /\ ~NamesKey => a.escapes = Len(run.escapes)
    /\ whole /\ ~NamesKey => row # {}

(* From end to end: a run that vis-compare reads as clean was pinned to    *)
(* CPUs that Doctor listed for its profile, none of them contaminated, and *)
(* was seen on no other, unless its command line misled vis-compare.       *)
(* (the chain vis-doctor, vis-run, vis-compare)                            *)
EvidenceFollowsPolicy ==
  \A a \in row : a.exit_code = 0 /\ a.escapes = 0 =>
    /\ run.applied /\ report.scan_ran
    /\ a.assigned = (IF run.source = "primary" THEN report.policy.primary
                     ELSE report.policy.secondary)
    /\ a.assigned # {} /\ a.assigned \cap report.policy.contaminated = {}
    /\ ~Misleads => \A i \in DOMAIN run.masks : run.masks[i] \subseteq a.assigned
=============================================================================
