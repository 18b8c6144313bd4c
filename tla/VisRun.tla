------------------------------- MODULE VisRun -------------------------------
(***************************************************************************)
(* One run of vis-run (main in src/vis-jitter/src/vis_run_main.cpp, and    *)
(* the /proc observer of vis_run.cpp).  Three parties act: vis-run itself; *)
(* the child it forks, until the child becomes the workload; and the       *)
(* workload, which forks, changes affinities, leaves the process group and *)
(* ends as it likes.  A thread is modelled as a process: it has an entry   *)
(* and a CPU mask of its own.                                              *)
(***************************************************************************)
EXTENDS RunPolicy, FiniteSets

CONSTANTS
  Cpus,        \* CPU numbers
  Online,      \* the CPUs the kernel lets vis-run use; its own affinity
  Pids,        \* processes: the child of vis-run and its descendants
  Leader,      \* the child; also the number of its process group
  Policies,    \* Doctor policies vis-run may be given
  Sources,     \* values of --cpu-source
  Codes,       \* exit codes of the workload
  MaxRepins    \* bound: affinity changes after the workload started

ASSUME VisRunAssumption ==
  /\ Cpus \subseteq Nat
  /\ Online \subseteq Cpus /\ Online # {}
  /\ IsFiniteSet(Pids) /\ Leader \in Pids
  /\ \A p \in Policies :
       /\ p.available \in BOOLEAN /\ p.requires_longer_validation \in BOOLEAN
       /\ p.primary \subseteq Cpus /\ p.secondary \subseteq Cpus
       /\ p.contaminated \subseteq Cpus
  /\ Codes \subseteq 0 .. 255
  /\ MaxRepins \in Nat

VARIABLES
  args,        \* the command line, the policy it names, and SIGCHLD's disposition
  pc,          \* where vis-run is
  assigned,    \* assigned_cpus
  result,      \* vis_run_result_t
  written,     \* what became of the attestation file
  exit,        \* vis-run's exit code
  writers,     \* who holds the write end of ready_pipe
  ready,       \* whether the readiness byte is in the pipe
  todo, looking,   \* the observer: /proc entries still to visit; the one being read
  child,       \* where the child is
  proc,        \* the process table
  wstatus,     \* how the child ended
  pinned, ran, \* history: the child set its affinity; it became the workload
  repins,      \* history: affinity changes since then
  steady       \* history: masks outside the assignment since this scan began,
               \*   of tasks whose files it could read

parent == <<pc, assigned, result, written, exit, todo, looking>>
pipe == <<writers, ready>>
processes == <<child, proc, wstatus>>
history == <<pinned, ran, repins, steady>>
vars == <<args, parent, pipe, processes, history>>

Absent == [state |-> "none", inGroup |-> FALSE, cpus |-> {}]
Exists(p) == proc[p].state \in {"running", "zombie"}

NewResult ==
  [dry_run |-> FALSE, applied |-> FALSE, exit_code |-> 0,
   workload_status |-> "unknown", verdict |-> "", escapes |-> {}, events |-> {}]

Escape == [pid : Pids, cpus : SUBSET Cpus]
ResultType ==
  [dry_run : BOOLEAN, applied : BOOLEAN, exit_code : 0 .. 255,
   workload_status : {"not_started", "unknown", "exited", "signaled"},
   verdict : {"", "DRY_RUN", "FAILED_BEFORE_WORKLOAD", "WORKLOAD_FAILED",
              "POLICY_REJECTED", "CONTROLLED", "CONTROLLED_WITH_WARNINGS"},
   escapes : SUBSET Escape,
   events : SUBSET EventType]

TypeOK ==
  /\ pc \in {"policy", "select", "fork", "close", "group", "read", "scan",
             "visit", "wait", "done"}
  /\ assigned \subseteq Cpus /\ result \in ResultType
  /\ written \in {"no", "yes", "failed"} /\ exit \in 0 .. 255
  /\ writers \subseteq {"parent", "child"} /\ ready \in BOOLEAN
  /\ todo \subseteq Pids /\ looking \subseteq Pids
  /\ child \in {"none", "born", "grouped", "pinned", "ready", "refused", "exec",
                "leaving", "noexec", "workload", "dead"}
  /\ proc \in [Pids -> [state : {"none", "running", "zombie", "gone"},
                        inGroup : BOOLEAN, cpus : SUBSET Cpus]]
  /\ wstatus \in {NotEnded, Signaled} \cup {Exited(c) : c \in 0 .. 255}
  /\ pinned \in BOOLEAN /\ ran \in BOOLEAN /\ repins \in 0 .. MaxRepins
  /\ steady \subseteq Escape

Init ==
  /\ args \in [policy : Policies, source : Sources, dry_run : BOOLEAN,
               sigchld_ignored : BOOLEAN]
  /\ pc = "policy" /\ assigned = {} /\ result = NewResult
  /\ written = "no" /\ exit = 0
  /\ writers = {} /\ ready = FALSE
  /\ todo = {} /\ looking = {}
  /\ child = "none" /\ proc = [p \in Pids |-> Absent] /\ wstatus = NotEnded
  /\ pinned = FALSE /\ ran = FALSE /\ repins = 0 /\ steady = {}

----------------------------------------------------------------------------
(* print_attestation and write_attestation_if_requested, then return: code *)
(* unless the file was asked for and could not be written.                 *)
Publish(r, code) ==
  /\ result' = [r EXCEPT !.verdict = Verdict(r)]
  /\ \/ written' \in {"no", "yes"} /\ exit' = code
     \/ written' = "failed" /\ exit' = 1
  /\ pc' = "done"

Fail(category, what) ==
  Publish([result EXCEPT !.events = @ \cup {Event("error", category, what)}], 1)

(* The policy does not parse, or has another profile: nothing is attested. *)
RejectPolicy ==
  /\ pc = "policy"
  /\ pc' = "done" /\ exit' = 1
  /\ UNCHANGED <<args, assigned, result, written, todo, looking, pipe, processes, history>>

AcceptPolicy ==
  /\ pc = "policy"
  /\ result' = [NewResult EXCEPT
                  !.dry_run = args.dry_run,
                  !.workload_status = IF args.dry_run THEN "not_started" ELSE "unknown",
                  !.events = PolicyEvents(args.policy)]
  /\ pc' = "select"
  /\ UNCHANGED <<args, assigned, written, exit, todo, looking, pipe, processes, history>>

Usable(cpus) == Selectable(args.policy, args.source) /\ FitsCpuSet(cpus)

SelectCpus ==
  /\ pc = "select"
  /\ assigned' = ListedCpus(args.policy, args.source)
  /\ \/ /\ ~Selectable(args.policy, args.source)
        /\ Fail("policy", "failed")
     \/ /\ Selectable(args.policy, args.source) /\ ~FitsCpuSet(assigned')
        /\ Fail("affinity", "failed")
     \/ /\ Usable(assigned') /\ args.dry_run
        /\ Publish(result, 0)
     \/ /\ Usable(assigned') /\ ~args.dry_run
        /\ pc' = "fork" /\ UNCHANGED <<result, written, exit>>
  /\ UNCHANGED <<args, todo, looking, pipe, processes, history>>

(* pipe or fork fails. *)
CannotFork ==
  /\ pc = "fork"
  /\ Fail("process", "failed")
  /\ UNCHANGED <<args, assigned, todo, looking, pipe, processes, history>>

Fork ==
  /\ pc = "fork"
  /\ child' = "born"
  /\ proc' = [proc EXCEPT ![Leader] =
                [state |-> "running", inGroup |-> FALSE, cpus |-> Online]]
  /\ writers' = {"parent", "child"}
  /\ pc' = "close"
  /\ UNCHANGED <<args, assigned, result, written, exit, todo, looking, ready,
                 wstatus, history>>

(* Mutant: vis-run keeps the write end of its own pipe open.               *)
KeepWriteEnd ==
  /\ pc = "close"
  /\ pc' = "group"
  /\ UNCHANGED <<args, assigned, result, written, exit, todo, looking, pipe,
                 processes, history>>

CloseWriteEnd ==
  /\ pc = "close"
  /\ writers' = writers \ {"parent"}
  /\ pc' = "group"
  /\ UNCHANGED <<args, assigned, result, written, exit, todo, looking, ready,
                 processes, history>>

(* The parent's setpgid(pid, pid): refused once the child has exec'ed.     *)
SetGroup ==
  /\ pc = "group"
  /\ proc' = IF ran \/ ~Exists(Leader) THEN proc
             ELSE [proc EXCEPT ![Leader].inGroup = TRUE]
  /\ pc' = "read"
  /\ UNCHANGED <<args, assigned, result, written, exit, todo, looking, pipe,
                 child, wstatus, history>>

(* read returns the byte, or end of file once nobody can write it. *)
ReadReady ==
  /\ pc = "read" /\ (ready \/ writers = {})
  /\ ready' = FALSE
  /\ pc' = "scan"
  /\ UNCHANGED <<args, assigned, result, written, exit, todo, looking, writers,
                 processes, history>>

(* Or an error other than EINTR, which nothing makes it return. *)
ReadFails ==
  /\ pc = "read"
  /\ result' = [result EXCEPT
                  !.events = @ \cup {Event("warning", "observation", "read_failed")}]
  /\ pc' = "scan"
  /\ UNCHANGED <<args, assigned, written, exit, todo, looking, pipe,
                 processes, history>>

----------------------------------------------------------------------------
(* vis_run_observe_process_group                                           *)
Outside(p) == Exists(p) /\ ~(proc[p].cpus \subseteq assigned)
Sighting(p) == [pid |-> p, cpus |-> proc[p].cpus]

StartScan ==
  /\ pc = "scan"
  /\ \/ /\ todo' = Pids /\ pc' = "visit"
        /\ steady' = {Sighting(p) : p \in {q \in Pids : Outside(q) /\ proc[q].inGroup}}
     \/ /\ pc' = "wait" /\ steady' = {}          \* /proc cannot be opened
        /\ UNCHANGED todo
  /\ UNCHANGED <<args, assigned, result, written, exit, looking, pipe, processes,
                 pinned, ran, repins>>

(* The entry's process group, from /proc/p/stat. *)
Visit(p) ==
  /\ pc = "visit" /\ looking = {} /\ p \in todo
  /\ todo' = todo \ {p}
  /\ looking' = IF Exists(p) /\ proc[p].inGroup THEN {p} ELSE {}
  /\ UNCHANGED <<args, pc, assigned, result, written, exit, pipe, processes, history>>

(* Mutant: only a mask with no assigned CPU at all is an escape.           *)
LookDisjoint(p) ==
  /\ pc = "visit" /\ p \in looking
  /\ looking' = {}
  /\ result' = IF Exists(p) /\ proc[p].cpus \cap assigned = {}
               THEN [result EXCEPT !.escapes = @ \cup {Sighting(p)}]
               ELSE result
  /\ UNCHANGED <<args, pc, assigned, written, exit, todo, pipe, processes, history>>

(* Its CPU mask, from /proc/p/status, if it is still there. *)
Look(p) ==
  /\ pc = "visit" /\ p \in looking
  /\ looking' = {}
  /\ result' = IF Outside(p)
               THEN [result EXCEPT !.escapes = @ \cup {Sighting(p)}]
               ELSE result
  /\ UNCHANGED <<args, pc, assigned, written, exit, todo, pipe, processes, history>>

(* A file of a task that is there cannot be read, or has no such line: the *)
(* observer passes over the task without a word.                           *)
PassOver(p) ==
  /\ pc = "visit" /\ Exists(p)
  /\ p \in looking \/ (looking = {} /\ p \in todo)
  /\ todo' = todo \ {p} /\ looking' = {}
  /\ steady' = {s \in steady : s.pid # p}
  /\ UNCHANGED <<args, pc, assigned, result, written, exit, pipe, processes,
                 pinned, ran, repins>>

EndScan ==
  /\ pc = "visit" /\ todo = {} /\ looking = {}
  /\ pc' = "wait"
  /\ UNCHANGED <<args, assigned, result, written, exit, todo, looking, pipe,
                 processes, history>>

(* Mutant: a workload that still runs is reported as one that succeeded. *)
StillRunningReported ==
  /\ pc = "wait" /\ proc[Leader].state = "running"
  /\ Publish([result EXCEPT !.applied = TRUE], 0)
  /\ UNCHANGED <<args, assigned, todo, looking, pipe, processes, history>>

(* waitpid(WNOHANG) returns 0: sleep, and observe again. *)
StillRunning ==
  /\ pc = "wait" /\ proc[Leader].state = "running"
  /\ pc' = "scan"
  /\ UNCHANGED <<args, assigned, result, written, exit, todo, looking, pipe,
                 processes, history>>

Reap ==
  /\ pc = "wait" /\ proc[Leader].state = "zombie"
  /\ proc' = [proc EXCEPT ![Leader] = [Absent EXCEPT !.state = "gone"]]
  /\ Publish([result EXCEPT
                !.applied = (wstatus # Exited(126)),
                !.workload_status = wstatus.how,
                !.exit_code = ExitCode(wstatus),
                !.events = @ \cup EndEvents(wstatus) \cup EscapeEvents(result)],
             ExitCode(wstatus))
  /\ UNCHANGED <<args, assigned, todo, looking, pipe, child, wstatus, history>>

(* Mutant: the failure is not noticed, and status is still 0.              *)
LostIsSuccess ==
  /\ pc = "wait" /\ proc[Leader].state = "gone"
  /\ Publish([result EXCEPT !.applied = TRUE, !.workload_status = "exited"], 0)
  /\ UNCHANGED <<args, assigned, todo, looking, pipe, processes, history>>

(* ECHILD: with SIGCHLD ignored the kernel has reaped the child already. *)
WaitFails ==
  /\ pc = "wait" /\ proc[Leader].state = "gone"
  /\ Fail("process", "failed")
  /\ UNCHANGED <<args, assigned, todo, looking, pipe, processes, history>>

Parent ==
  \/ RejectPolicy \/ AcceptPolicy \/ SelectCpus \/ CannotFork \/ Fork
  \/ CloseWriteEnd \/ SetGroup \/ ReadReady
  \/ StartScan \/ (\E p \in Pids : Visit(p) \/ Look(p) \/ PassOver(p)) \/ EndScan
  \/ StillRunning \/ Reap \/ WaitFails

----------------------------------------------------------------------------
(* What is left of the steady escapes when the process table changes. *)
KeepSteady ==
  steady' = {s \in steady : LET q == proc'[s.pid] IN
               q.state \in {"running", "zombie"} /\ q.inGroup /\ q.cpus = s.cpus}

(* The child ends: its descriptors close, and it waits to be reaped. *)
End(s) ==
  /\ child' = "dead" /\ wstatus' = s
  /\ proc' = [proc EXCEPT ![Leader] =
                IF args.sigchld_ignored THEN [Absent EXCEPT !.state = "gone"]
                ELSE [@ EXCEPT !.state = "zombie"]]
  /\ writers' = writers \ {"child"}
  /\ UNCHANGED ready

(* Mutant: the byte is written before the affinity is set.                 *)
ChildReadyEarly ==
  /\ child = "born"
  /\ child' = "grouped"
  /\ proc' = [proc EXCEPT ![Leader].inGroup = TRUE]
  /\ ready' = TRUE
  /\ UNCHANGED <<args, parent, writers, wstatus, history>>

(* Mutant: the process group is left to the parent.                        *)
ChildStaysInGroup ==
  /\ child = "born"
  /\ child' = "grouped"
  /\ UNCHANGED <<args, parent, pipe, proc, wstatus, history>>

(* setpgid(0, 0) *)
ChildSetGroup ==
  /\ child = "born"
  /\ child' = "grouped"
  /\ proc' = [proc EXCEPT ![Leader].inGroup = TRUE]
  /\ UNCHANGED <<args, parent, pipe, wstatus, history>>

(* Mutant: a refusal is ignored.                                           *)
ChildIgnoresRefusal ==
  /\ child = "grouped"
  /\ child' = "pinned" /\ pinned' = TRUE
  /\ \/ /\ assigned \cap Online # {}
        /\ proc' = [proc EXCEPT ![Leader].cpus = assigned \cap Online]
     \/ UNCHANGED proc
  /\ KeepSteady
  /\ UNCHANGED <<args, parent, pipe, wstatus, ran, repins>>

(* sched_setaffinity may be refused; it must be if no assigned CPU is      *)
(* online, and the mask that it sets has only CPUs that are.               *)
ChildSetAffinity ==
  /\ child = "grouped"
  /\ \/ /\ assigned \cap Online # {}
        /\ proc' = [proc EXCEPT ![Leader].cpus = assigned \cap Online]
        /\ child' = "pinned" /\ pinned' = TRUE
     \/ child' = "refused" /\ UNCHANGED <<proc, pinned>>
  /\ KeepSteady
  /\ UNCHANGED <<args, parent, pipe, wstatus, ran, repins>>

(* The write of the readiness byte, whose failure is ignored. *)
ChildReady ==
  /\ child = "pinned"
  /\ child' = "ready"
  /\ ready' \in {TRUE, FALSE}
  /\ UNCHANGED <<args, parent, writers, proc, wstatus, history>>

ChildClose ==
  /\ child \in {"ready", "refused"}
  /\ child' = IF child = "ready" THEN "exec" ELSE "leaving"
  /\ writers' = writers \ {"child"}
  /\ UNCHANGED <<args, parent, ready, proc, wstatus, history>>

ChildExec ==
  /\ child = "exec"
  /\ \/ child' = "workload" /\ ran' = TRUE
     \/ child' = "noexec" /\ UNCHANGED ran
  /\ UNCHANGED <<args, parent, pipe, proc, wstatus, pinned, repins, steady>>

ChildExit ==
  /\ \/ child = "leaving" /\ End(Exited(126))
     \/ child = "noexec" /\ End(Exited(127))
  /\ KeepSteady
  /\ UNCHANGED <<args, parent, pinned, ran, repins>>

Startup ==
  ChildSetGroup \/ ChildSetAffinity \/ ChildReady \/ ChildClose \/ ChildExec \/ ChildExit

----------------------------------------------------------------------------
Runs(p) == ran /\ proc[p].state = "running"

Killed ==
  /\ proc[Leader].state = "running"
  /\ End(Signaled)
  /\ KeepSteady
  /\ UNCHANGED <<args, parent, pinned, ran, repins>>

WorkloadExits(code) ==
  /\ Runs(Leader)
  /\ End(Exited(code))
  /\ KeepSteady
  /\ UNCHANGED <<args, parent, pinned, ran, repins>>

Change(p, q) ==
  /\ proc' = [proc EXCEPT ![p] = q]
  /\ KeepSteady
  /\ UNCHANGED <<args, parent, pipe, child, wstatus, pinned, ran>>

Spawn(p, q) ==
  /\ Runs(p) /\ proc[q].state = "none"
  /\ Change(q, proc[p]) /\ UNCHANGED repins

DescendantEnds(p) ==
  /\ Runs(p) /\ p # Leader
  /\ Change(p, [Absent EXCEPT !.state = "gone"]) /\ UNCHANGED repins

Leave(p) ==
  /\ Runs(p) /\ proc[p].inGroup
  /\ Change(p, [proc[p] EXCEPT !.inGroup = FALSE]) /\ UNCHANGED repins

(* The workload, or somebody else, changes the mask of one of its tasks.   *)
Repin(p, cpus) ==
  /\ Runs(p) /\ repins < MaxRepins /\ cpus # {} /\ cpus # proc[p].cpus
  /\ Change(p, [proc[p] EXCEPT !.cpus = cpus])
  /\ repins' = repins + 1

Workload ==
  \/ Killed
  \/ \E code \in Codes : WorkloadExits(code)
  \/ \E p \in Pids :
       \/ DescendantEnds(p) \/ Leave(p)
       \/ \E q \in Pids : Spawn(p, q)
       \/ \E cpus \in SUBSET Online : Repin(p, cpus)

Next == Parent \/ ReadFails \/ Startup \/ Workload

(* vis-run and its child run until the exec; of the workload and of what   *)
(* may be done to it nothing is promised.                                  *)
Fairness == WF_vars(Parent) /\ WF_vars(Startup)

Spec == Init /\ [][Next]_vars /\ Fairness

----------------------------------------------------------------------------
(* "vis-run samples /proc [and] reports whether any observed thread was    *)
(* allowed outside the VIS-assigned CPU set" (README.md): a mask outside   *)
(* the assignment that a member of the group keeps for the length of one   *)
(* scan, and whose files could be read, is in the report when that scan    *)
(* ends (vis_run_observe_process_group).                                   *)
SteadyEscapesAreReported == pc = "wait" => steady \subseteq result.escapes

(* The child is where the observer looks for it: a member of its own group *)
(* when it execs, however late the parent is, and whenever the parent      *)
(* observes, however late the child is, so that only the workload itself   *)
(* can leave (the two calls of setpgid in main; the parent's is refused    *)
(* after the exec, and the parent observes early when its read fails).     *)
LeaderIsInItsGroup ==
  (/\ ~ran /\ Exists(Leader)
   /\ child = "exec" \/ pc \in {"scan", "visit", "wait"})
    => proc[Leader].inGroup

(* Nothing of the workload ever runs outside the assignment, or on a       *)
(* contaminated CPU, unless it is repinned after the exec: the affinity is *)
(* set before the exec and inherited (main's child branch).                *)
WorkloadIsContained ==
  (ran /\ repins = 0) =>
    \A p \in Pids : Exists(p) =>
      /\ proc[p].cpus # {}
      /\ proc[p].cpus \subseteq assigned \ args.policy.contaminated

(* Observation starts after the affinity was applied: no escape is         *)
(* reported of a workload that was pinned and never repinned, unless the   *)
(* readiness read itself failed and was attested (the readiness pipe).     *)
NoFalseEscape ==
  (/\ pinned /\ repins = 0
   /\ Event("warning", "observation", "read_failed") \notin result.events)
    => result.escapes = {}

(* CONTROLLED, with warnings or without, is said only of a workload that   *)
(* was started under the policy and ended by itself with 0, and plain      *)
(* CONTROLLED only when no escape was seen and the policy had no warning   *)
(* event (vis_run_result_verdict).                                         *)
VerdictIsEarned ==
  /\ result.verdict \in {"CONTROLLED", "CONTROLLED_WITH_WARNINGS"} =>
       pinned /\ ran /\ wstatus = Exited(0)
  /\ result.verdict = "CONTROLLED" =>
       /\ result.escapes = {}
       /\ \A e \in PolicyEvents(args.policy) : e.severity = "info"

(* "vis-run passes through the workload result" (README.md): 0 means a dry *)
(* run or a workload that exited with 0, and once the child was reaped and *)
(* the attestation written, its code is vis-run's.                         *)
ExitCodePassesThrough ==
  pc = "done" =>
    /\ exit = 0 => \/ result.verdict = "DRY_RUN"
                   \/ ran /\ wstatus = Exited(0)
    /\ (result.workload_status \in {"exited", "signaled"} /\ written # "failed") =>
         exit = ExitCode(wstatus)

(* vis-run ends unless the workload runs for ever: it never waits for a    *)
(* byte that nobody can write any more, nor for a child already reaped.    *)
ReturnsUnlessWorkloadRuns == <>[](child = "workload") \/ <>(pc = "done")

(* The run as its caller sees it. *)
Contract == INSTANCE RunContract WITH
  stage   <- IF pc = "done" THEN "reported" ELSE IF wstatus # NotEnded THEN "over"
             ELSE IF ran THEN "running" ELSE "pending",
  allowed <- ListedCpus(args.policy, args.source) \ args.policy.contaminated,
  mask    <- IF ran /\ wstatus = NotEnded THEN proc[Leader].cpus ELSE {},
  status  <- wstatus,
  report  <- [exit |-> exit, file |-> written, exit_code |-> result.exit_code,
              verdict |-> result.verdict]

(* vis-run keeps its contract, step by step: whatever its child and the    *)
(* workload do, a workload begins at most once, on CPUs that the policy    *)
(* allows, and is reported once, when it is over, by the code and verdict  *)
(* of its end (main, all of its returns).                                  *)
ImplementsContract == Contract!Spec

(* "Child process reported sched_setaffinity failure." (the evidence of    *)
(* the affinity event, main): affinity is attested as failed after a run   *)
(* only if it did fail.                                                    *)
AffinityFailureIsReal ==
  (pc = "done" /\ wstatus # NotEnded
     /\ Event("error", "affinity", "failed") \in result.events) => ~pinned
=============================================================================
