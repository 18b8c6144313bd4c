---------------------------- MODULE VisRunProofs ----------------------------
(***************************************************************************)
(* The safety properties of one run of vis-run, and that it keeps the      *)
(* contract of RunContract, for every policy, every set of CPUs, every     *)
(* number of processes, and whatever the workload does.                    *)
(***************************************************************************)
EXTENDS VisRun, TLAPS

Listed == ListedCpus(args.policy, args.source)

ArgsType == [policy : Policies, source : Sources, dry_run : BOOLEAN,
             sigchld_ignored : BOOLEAN]

Forked == {"close", "group", "read", "scan", "visit", "wait"}
Unpinned == {"none", "born", "grouped", "refused", "leaving"}

(* What vis-run knows of itself: the CPUs are chosen once, and nothing is  *)
(* attested before the end.                                                *)
ParentInv ==
  /\ pc \in {"fork"} \cup Forked \/ child # "none" =>
       assigned = Listed /\ Usable(Listed) /\ ~args.dry_run
  /\ pc \in {"policy", "select", "fork"} => child = "none"
  /\ pc \in Forked => child # "none"
  /\ pc = "done" => child \in {"none", "dead"}
  /\ pc # "done" =>
       /\ exit = 0 /\ written = "no" /\ result.verdict = "" /\ result.exit_code = 0
       /\ ~result.applied /\ result.workload_status \in {"not_started", "unknown"}
       /\ ~HasEvent(result, "error")
  /\ pc \notin {"policy", "done"} =>
       result.dry_run = args.dry_run /\ PolicyEvents(args.policy) \subseteq result.events

(* Where the child is, what it did, and what the process table says of it. *)
ChildInv ==
  /\ child = "none" => \A p \in Pids : proc[p].state = "none"
  /\ child \notin {"none", "dead"} => proc[Leader].state = "running"
  /\ child = "dead" <=> wstatus # NotEnded
  /\ child = "dead" => proc[Leader].state \in {"zombie", "gone"}
  /\ ~ran => \A p \in Pids \ {Leader} : proc[p].state = "none"
  /\ child \notin Unpinned \cup {"dead"} => pinned
  /\ child \in Unpinned => ~pinned
  /\ child = "workload" => ran
  /\ ran => pinned /\ child \in {"workload", "dead"}
  /\ ~ran /\ child = "dead" => wstatus \in {Exited(126), Exited(127), Signaled}
  /\ repins # 0 => ran

(* The affinity is set before there is anything else to inherit from.      *)
MasksContained ==
  pinned /\ repins = 0 =>
    \A p \in Pids : Exists(p) => proc[p].cpus # {} /\ proc[p].cpus \subseteq assigned

(* The pipe keeps vis-run from looking before the child has decided.       *)
Readiness ==
  /\ child \in {"born", "grouped", "pinned", "ready", "refused"} => "child" \in writers
  /\ ready => child \notin {"none", "born", "grouped"}
  /\ pc \in {"scan", "visit", "wait"} =>
       \/ Event("warning", "observation", "read_failed") \in result.events
       \/ child \notin {"none", "born", "grouped"}
  /\ pc \notin {"scan", "visit", "wait", "done"} => result.escapes = {} /\ steady = {}

(* What the scan still has to see, or has seen. *)
Scanning ==
  /\ \A p, q \in looking : p = q
  /\ pc = "visit" => \A s \in steady :
       /\ Outside(s.pid) /\ proc[s.pid].inGroup /\ s = Sighting(s.pid)
       /\ s.pid \in todo \cup looking \/ s \in result.escapes

IInv ==
  /\ args \in ArgsType
  /\ TypeOK
  /\ ParentInv
  /\ ChildInv
  /\ MasksContained
  /\ Readiness
  /\ Scanning
  /\ SteadyEscapesAreReported
  /\ NoFalseEscape
  /\ VerdictIsEarned
  /\ ExitCodePassesThrough

----------------------------------------------------------------------------
(* The lists and events of a policy are well formed.                       *)
LEMMA ListsAreCpus ==
  ASSUME args \in ArgsType
  PROVE  Listed \subseteq Cpus
BY VisRunAssumption DEF ArgsType, Listed, ListedCpus

LEMMA PolicyEventsAreTyped ==
  ASSUME NEW policy
  PROVE  /\ PolicyEvents(policy) \in SUBSET EventType
         /\ \A e \in PolicyEvents(policy) : e.severity # "error"
BY DEF PolicyEvents, WarningEvent, Event, EventType

LEMMA EventsAreTyped ==
  /\ \A category \in {"policy", "affinity", "process"} :
       /\ Event("error", category, "failed") \in EventType
       /\ Event("error", category, "failed").severity = "error"
  /\ Event("warning", "observation", "read_failed") \in EventType
  /\ \A s : EndEvents(s) \in SUBSET EventType
  /\ \A r : EscapeEvents(r) \in SUBSET EventType
<1>1. \A s : EndEvents(s) \in SUBSET EventType
  BY DEF EndEvents, Event, EventType
<1>2. \A r : EscapeEvents(r) \in SUBSET EventType
  BY DEF EscapeEvents, Event, EventType
<1>. QED BY <1>1, <1>2 DEF Event, EventType

Verdicts == {"", "DRY_RUN", "FAILED_BEFORE_WORKLOAD", "WORKLOAD_FAILED",
             "POLICY_REJECTED", "CONTROLLED", "CONTROLLED_WITH_WARNINGS"}

(* What each verdict means.                                                *)
LEMMA VerdictMeans ==
  ASSUME NEW r \in ResultType
  PROVE  /\ Verdict(r) \in Verdicts
         /\ r.dry_run => Verdict(r) = "DRY_RUN"
         /\ Verdict(r) = "DRY_RUN" => r.dry_run
         /\ ~r.dry_run /\ HasEvent(r, "error") =>
              Verdict(r) = IF r.applied THEN "WORKLOAD_FAILED" ELSE "FAILED_BEFORE_WORKLOAD"
         /\ ~r.dry_run /\ ~HasEvent(r, "error") /\ r.applied /\ r.exit_code = 0 =>
              Verdict(r) \in {"CONTROLLED", "CONTROLLED_WITH_WARNINGS"}
         /\ Verdict(r) \in {"CONTROLLED", "CONTROLLED_WITH_WARNINGS"} =>
              /\ ~r.dry_run /\ ~HasEvent(r, "error") /\ r.applied /\ r.exit_code = 0
              /\ Verdict(r) = "CONTROLLED" => ~HasEvent(r, "warning")
<1>. r.dry_run \in BOOLEAN /\ r.applied \in BOOLEAN
  BY DEF ResultType
<1>1. HasEvent(r, "error") \in BOOLEAN /\ HasEvent(r, "warning") \in BOOLEAN
  BY DEF HasEvent
<1>. QED BY <1>1 DEF Verdict, Verdicts

(* Events are added, and nothing else of the result changes.               *)
LEMMA EventsAdded ==
  ASSUME NEW r \in ResultType, NEW E \in SUBSET EventType, NEW q,
         q = [r EXCEPT !.events = @ \cup E]
  PROVE  /\ q \in ResultType
         /\ q.events = r.events \cup E
         /\ q.dry_run = r.dry_run /\ q.applied = r.applied /\ q.exit_code = r.exit_code
         /\ q.workload_status = r.workload_status /\ q.verdict = r.verdict
         /\ q.escapes = r.escapes
BY DEF ResultType

LEMMA Publishes ==
  ASSUME NEW r \in ResultType, NEW code, Publish(r, code)
  PROVE  /\ result' \in ResultType
         /\ result'.verdict = Verdict(r)
         /\ result'.events = r.events
         /\ result'.dry_run = r.dry_run /\ result'.applied = r.applied
         /\ result'.exit_code = r.exit_code
         /\ result'.workload_status = r.workload_status
         /\ result'.escapes = r.escapes
         /\ pc' = "done"
         /\ written' \in {"no", "yes", "failed"}
         /\ exit' = IF written' = "failed" THEN 1 ELSE code
<1>1. Verdict(r) \in Verdicts
  BY VerdictMeans
<1>. HIDE DEF Verdict
<1>. QED BY <1>1 DEF Publish, ResultType, Verdicts

LEMMA Fails ==
  ASSUME result \in ResultType, NEW category \in {"policy", "affinity", "process"},
         Fail(category, "failed"), ~result.applied
  PROVE  /\ result' \in ResultType
         /\ result'.verdict = IF result.dry_run THEN "DRY_RUN" ELSE "FAILED_BEFORE_WORKLOAD"
         /\ result'.events =
              result.events \cup {Event("error", category, "failed")}
         /\ result'.dry_run = result.dry_run /\ ~result'.applied
         /\ result'.exit_code = result.exit_code
         /\ result'.workload_status = result.workload_status
         /\ result'.escapes = result.escapes
         /\ pc' = "done" /\ exit' = 1
         /\ written' \in {"no", "yes", "failed"}
<1> DEFINE e == Event("error", category, "failed")
           r == [result EXCEPT !.events = @ \cup {e}]
<1>1. e \in EventType /\ e.severity = "error"
  BY EventsAreTyped
<1>2. Publish(r, 1)
  BY DEF Fail
<1>. HIDE DEF e
<1>3. r \in ResultType /\ r.events = result.events \cup {e}
      /\ r.dry_run = result.dry_run /\ r.applied = result.applied
      /\ r.exit_code = result.exit_code /\ r.workload_status = result.workload_status
      /\ r.escapes = result.escapes
  BY <1>1 DEF ResultType
<1>. HIDE DEF r
<1>4. HasEvent(r, "error")
  BY <1>1, <1>3 DEF HasEvent
<1>5. Verdict(r) = IF r.dry_run THEN "DRY_RUN" ELSE "FAILED_BEFORE_WORKLOAD"
  BY <1>3, <1>4, VerdictMeans DEF ResultType
<1>6. exit' = 1
  BY <1>2, <1>3, Publishes
<1>. QED BY <1>2, <1>3, <1>5, <1>6, Publishes DEF e

(* The ways the child may end, the codes they mean, and their events.      *)
EndedStatus == {Signaled} \cup {Exited(c) : c \in 0 .. 255}

LEMMA EndMeans ==
  ASSUME NEW s \in EndedStatus
  PROVE  /\ s # NotEnded /\ s.how \in {"exited", "signaled"}
         /\ ExitCode(s) \in 0 .. 255
         /\ ExitCode(s) = 0 <=> s = Exited(0)
         /\ s = Exited(0) => EndEvents(s) = {}
         /\ s # Exited(0) => \E e \in EndEvents(s) : e.severity = "error"
<1>1. CASE s = Signaled
  <2>1. s.how = "signaled" /\ s.code = 9 /\ ExitCode(s) = 137
    BY <1>1 DEF Signaled, ExitCode
  <2>2. s # NotEnded /\ \A c : s # Exited(c)
    BY <1>1 DEF Signaled, NotEnded, Exited
  <2>3. EndEvents(s) = {Event("error", "workload", "signaled")}
    BY <2>1, <2>2 DEF EndEvents
  <2>. QED BY <2>1, <2>2, <2>3 DEF Event
<1>2. ASSUME NEW c \in 0 .. 255, s = Exited(c)
      PROVE  /\ s # NotEnded /\ s.how \in {"exited", "signaled"}
             /\ ExitCode(s) \in 0 .. 255
             /\ ExitCode(s) = 0 <=> s = Exited(0)
             /\ s = Exited(0) => EndEvents(s) = {}
             /\ s # Exited(0) => \E e \in EndEvents(s) : e.severity = "error"
  <2>1. s.how = "exited" /\ s.code = c /\ ExitCode(s) = c /\ s # NotEnded
    BY <1>2 DEF Exited, ExitCode, NotEnded
  <2>2. \A n : s = Exited(n) <=> c = n
    BY <1>2 DEF Exited
  <2>3. c = 0 => EndEvents(s) = {}
    BY <2>1, <2>2 DEF EndEvents
  <2>4. c # 0 => \E name, what : EndEvents(s) = {Event("error", name, what)}
    BY <2>1, <2>2 DEF EndEvents
  <2>5. \A name, what : Event("error", name, what).severity = "error"
    BY DEF Event
  <2>. QED BY <2>1, <2>2, <2>3, <2>4, <2>5
<1>. QED BY <1>1, <1>2 DEF EndedStatus

LEMMA Accepts ==
  ASSUME IInv, AcceptPolicy
  PROVE  /\ result' \in ResultType
         /\ result'.dry_run = args.dry_run /\ ~result'.applied /\ result'.exit_code = 0
         /\ result'.workload_status \in {"not_started", "unknown"}
         /\ result'.verdict = "" /\ result'.escapes = {}
         /\ result'.events = PolicyEvents(args.policy)
<1>1. PolicyEvents(args.policy) \in SUBSET EventType
  BY PolicyEventsAreTyped
<1>2. args.dry_run \in BOOLEAN
  BY DEF IInv, ArgsType
<1> DEFINE how == IF args.dry_run THEN "not_started" ELSE "unknown"
           events == PolicyEvents(args.policy)
<1>3. result' = [dry_run |-> args.dry_run, applied |-> FALSE, exit_code |-> 0,
                 workload_status |-> how, verdict |-> "", escapes |-> {},
                 events |-> events]
  BY DEF AcceptPolicy, NewResult
<1>4. how \in {"not_started", "unknown"} /\ 0 \in 0 .. 255
  OBVIOUS
<1>5. events \in SUBSET EventType
  BY <1>1
<1>. HIDE DEF how, events
<1>6. result' \in ResultType
  BY <1>2, <1>3, <1>4, <1>5 DEF ResultType
<1>. QED BY <1>3, <1>4, <1>6 DEF events

(* The child that is reaped has ended, and the report tells how.           *)
LEMMA Reaps ==
  ASSUME IInv, Reap
  PROVE  /\ child = "dead" /\ wstatus \in EndedStatus
         /\ result' \in ResultType
         /\ ~result'.dry_run /\ result'.applied = (wstatus # Exited(126))
         /\ result'.exit_code = ExitCode(wstatus)
         /\ result'.workload_status = wstatus.how
         /\ result'.escapes = result.escapes
         /\ result'.events =
              result.events \cup EndEvents(wstatus) \cup EscapeEvents(result)
         /\ pc' = "done" /\ written' \in {"no", "yes", "failed"}
         /\ exit' = IF written' = "failed" THEN 1 ELSE ExitCode(wstatus)
         /\ result'.verdict =
              IF wstatus = Exited(126) THEN "FAILED_BEFORE_WORKLOAD"
              ELSE IF wstatus # Exited(0) THEN "WORKLOAD_FAILED"
              ELSE IF HasEvent(result', "warning") THEN "CONTROLLED_WITH_WARNINGS"
              ELSE "CONTROLLED"
<1>1. child = "dead" /\ wstatus \in EndedStatus
  BY VisRunAssumption DEF Reap, IInv, ChildInv, TypeOK, EndedStatus
<1>2. result \in ResultType /\ ~result.dry_run /\ ~HasEvent(result, "error")
  BY DEF Reap, IInv, ParentInv, TypeOK, Forked
<1> DEFINE new == EndEvents(wstatus) \cup EscapeEvents(result)
           r == [result EXCEPT
                   !.applied = (wstatus # Exited(126)),
                   !.workload_status = wstatus.how,
                   !.exit_code = ExitCode(wstatus),
                   !.events = @ \cup EndEvents(wstatus) \cup EscapeEvents(result)]
<1>3. Publish(r, ExitCode(wstatus))
  BY DEF Reap
<1>4. EndEvents(wstatus) \in SUBSET EventType /\ EscapeEvents(result) \in SUBSET EventType
  BY EventsAreTyped
<1>5. (wstatus # Exited(126)) \in BOOLEAN /\ wstatus.how \in {"exited", "signaled"}
      /\ ExitCode(wstatus) \in 0 .. 255
  BY <1>1, EndMeans
<1>6. /\ r \in ResultType
      /\ ~r.dry_run /\ r.applied = (wstatus # Exited(126))
      /\ r.exit_code = ExitCode(wstatus) /\ r.workload_status = wstatus.how
      /\ r.escapes = result.escapes
      /\ r.events = result.events \cup EndEvents(wstatus) \cup EscapeEvents(result)
  BY <1>2, <1>4, <1>5 DEF ResultType
<1>. HIDE DEF r
<1>7. wstatus = Exited(0) => ~HasEvent(r, "error")
  BY <1>1, <1>2, <1>6, EndMeans DEF HasEvent, EscapeEvents, Event
<1>8. wstatus # Exited(0) => HasEvent(r, "error")
  BY <1>1, <1>6, EndMeans DEF HasEvent
<1>9. Exited(0) # Exited(126) /\ ExitCode(Exited(0)) = 0
  BY DEF Exited, ExitCode
<1>10. Verdict(r) =
         IF wstatus = Exited(126) THEN "FAILED_BEFORE_WORKLOAD"
         ELSE IF wstatus # Exited(0) THEN "WORKLOAD_FAILED"
         ELSE IF HasEvent(r, "warning") THEN "CONTROLLED_WITH_WARNINGS"
         ELSE "CONTROLLED"
  BY <1>6, <1>7, <1>8, <1>9, Zenon DEF Verdict
<1>11. /\ result' \in ResultType /\ result'.verdict = Verdict(r)
       /\ result'.events = r.events
       /\ result'.dry_run = r.dry_run /\ result'.applied = r.applied
       /\ result'.exit_code = r.exit_code
       /\ result'.workload_status = r.workload_status
       /\ result'.escapes = r.escapes
       /\ pc' = "done" /\ written' \in {"no", "yes", "failed"}
       /\ exit' = IF written' = "failed" THEN 1 ELSE ExitCode(wstatus)
  BY <1>3, <1>6, Publishes
<1>12. HasEvent(result', "warning") = HasEvent(r, "warning")
  BY <1>11 DEF HasEvent
<1>. QED BY <1>1, <1>6, <1>10, <1>11, <1>12

(* A sighting is added, or not, and nothing else of the result changes.    *)
LEMMA Looks ==
  ASSUME IInv, NEW p \in Pids, Look(p)
  PROVE  /\ result' \in ResultType
         /\ result'.escapes = result.escapes \cup (IF Outside(p) THEN {Sighting(p)} ELSE {})
         /\ result'.events = result.events /\ result'.dry_run = result.dry_run
         /\ result'.applied = result.applied /\ result'.exit_code = result.exit_code
         /\ result'.workload_status = result.workload_status
         /\ result'.verdict = result.verdict
<1>1. result \in ResultType /\ Sighting(p) \in Escape
  BY DEF IInv, TypeOK, Sighting, Escape
<1>2. {Sighting(p)} \in SUBSET Escape
  BY <1>1
<1>. HIDE DEF Sighting
<1>3. CASE Outside(p)
  <2>1. result' = [result EXCEPT !.escapes = @ \cup {Sighting(p)}]
    BY <1>3 DEF Look
  <2>. QED BY <1>1, <1>2, <1>3, <2>1 DEF ResultType
<1>4. CASE ~Outside(p)
  <2>1. result' = result
    BY <1>4 DEF Look
  <2>. QED BY <1>1, <1>4, <2>1
<1>. QED BY <1>3, <1>4

LEMMA ReadFailsEffect ==
  ASSUME result \in ResultType, ReadFails
  PROVE  /\ result' \in ResultType
         /\ result'.events =
              result.events \cup {Event("warning", "observation", "read_failed")}
         /\ result'.escapes = result.escapes /\ result'.dry_run = result.dry_run
         /\ result'.applied = result.applied /\ result'.exit_code = result.exit_code
         /\ result'.workload_status = result.workload_status
         /\ result'.verdict = result.verdict
<1> DEFINE e == Event("warning", "observation", "read_failed")
<1>1. {e} \in SUBSET EventType
  BY EventsAreTyped
<1>2. result' = [result EXCEPT !.events = @ \cup {e}]
  BY DEF ReadFails
<1>. HIDE DEF e
<1>3. /\ result' \in ResultType /\ result'.events = result.events \cup {e}
      /\ result'.escapes = result.escapes /\ result'.dry_run = result.dry_run
      /\ result'.applied = result.applied /\ result'.exit_code = result.exit_code
      /\ result'.workload_status = result.workload_status
      /\ result'.verdict = result.verdict
  BY <1>1, <1>2 DEF ResultType
<1>. QED BY <1>3 DEF e

(* The child and the workload leave vis-run's own state alone, and the     *)
(* child is not what it was only while there is one.                       *)
LEMMA OthersLeave ==
  ASSUME IInv, Startup \/ Workload
  PROVE  /\ UNCHANGED <<args, pc, assigned, result, written, exit, todo, looking>>
         /\ child # "none" /\ child' # "none"
         /\ child = "dead" => UNCHANGED <<child, wstatus, pinned, ran>>
<1>1. CASE Startup
  BY <1>1 DEF Startup, ChildSetGroup, ChildSetAffinity, ChildReady, ChildClose,
              ChildExec, ChildExit, End, parent, history, pipe
<1>2. CASE Workload
  <2>1. \A p \in Pids : Runs(p) => child \in {"workload", "dead"}
    BY DEF Runs, IInv, ChildInv
  <2>2. child # "dead" \/ proc[Leader].state # "running"
    BY DEF IInv, ChildInv
  <2>3. proc[Leader].state = "running" => child # "none"
    BY VisRunAssumption DEF IInv, ChildInv
  <2>. QED BY <1>2, <2>1, <2>2, <2>3, VisRunAssumption
           DEF Workload, Killed, WorkloadExits, DescendantEnds, Leave, Spawn, Repin,
               Change, End, Runs, parent
<1>. QED BY <1>1, <1>2

(* What the steps of vis-run itself change of the processes.               *)
LEMMA ParentLeaves ==
  ASSUME Parent \/ ReadFails
  PROVE  /\ UNCHANGED <<args, pinned, ran, repins>>
         /\ Fork \/ SetGroup \/ Reap \/ UNCHANGED processes
         /\ Fork \/ UNCHANGED <<child, wstatus>>
BY DEF Parent, RejectPolicy, AcceptPolicy, SelectCpus, CannotFork, Fork, CloseWriteEnd,
       SetGroup, ReadReady, ReadFails, StartScan, Visit, Look, PassOver, EndScan, StillRunning,
       Reap, WaitFails, processes, history

----------------------------------------------------------------------------
(* Types.                                                                  *)
ProcType == [Pids -> [state : {"none", "running", "zombie", "gone"},
                      inGroup : BOOLEAN, cpus : SUBSET Cpus]]

(* What becomes of the types of the processes when the child ends, and     *)
(* when a process changes.                                                 *)
LEMMA EndTypes ==
  ASSUME proc \in ProcType, NEW s, End(s)
  PROVE  proc' \in ProcType /\ wstatus' = s /\ child' = "dead"
         /\ writers' \subseteq writers /\ ready' = ready
BY DEF End, ProcType, Absent

LEMMA ChangeTypes ==
  ASSUME proc \in ProcType, NEW p \in Pids,
         NEW q \in [state : {"none", "running", "zombie", "gone"},
                     inGroup : BOOLEAN, cpus : SUBSET Cpus],
         Change(p, q)
  PROVE  proc' \in ProcType /\ steady' \subseteq steady
         /\ UNCHANGED <<writers, ready, child, wstatus, pinned, ran>>
BY DEF Change, KeepSteady, ProcType, pipe

LEMMA StepTypes == ASSUME IInv, Next PROVE TypeOK'
<1>. USE VisRunAssumption DEF parent, pipe, processes, history
<1>0. TypeOK /\ Listed \subseteq Cpus /\ ~(pc # "done" /\ result.applied)
  BY ListsAreCpus DEF IInv, ParentInv
<1>a. result \in ResultType /\ proc \in ProcType
  BY <1>0 DEF TypeOK, ProcType
<1>1. CASE RejectPolicy
  BY <1>0, <1>1 DEF TypeOK, RejectPolicy
<1>2. CASE AcceptPolicy
  <2>1. result' \in ResultType
    BY <1>2, Accepts
  <2>. QED BY <1>0, <1>2, <2>1 DEF TypeOK, AcceptPolicy
<1>3. CASE SelectCpus
  <2>0. assigned' \subseteq Cpus /\ UNCHANGED <<args, todo, looking, pipe, processes, history>>
    BY <1>0, <1>3 DEF SelectCpus, Listed
  <2>1. /\ result' \in ResultType /\ written' \in {"no", "yes", "failed"}
        /\ exit' \in 0 .. 255 /\ pc' \in {"done", "fork"}
    <3>1. CASE Fail("policy", "failed") \/ Fail("affinity", "failed")
      <4>1. ~result.applied
        BY <1>0, <1>3 DEF SelectCpus
      <4>. QED BY <1>a, <3>1, <4>1, Fails
    <3>2. CASE Publish(result, 0)
      BY <1>a, <3>2, Publishes
    <3>3. CASE pc' = "fork" /\ UNCHANGED <<result, written, exit>>
      BY <1>0, <3>3 DEF TypeOK
    <3>. QED BY <1>3, <3>1, <3>2, <3>3 DEF SelectCpus
  <2>. QED BY <1>0, <2>0, <2>1 DEF TypeOK
<1>4. CASE CannotFork
  <2>1. ~result.applied /\ Fail("process", "failed")
    BY <1>0, <1>4 DEF CannotFork
  <2>2. /\ result' \in ResultType /\ written' \in {"no", "yes", "failed"}
        /\ exit' = 1 /\ pc' = "done"
    BY <1>a, <2>1, Fails
  <2>. QED BY <1>0, <1>4, <2>2 DEF TypeOK, CannotFork
<1>5. CASE Fork
  <2>1. Online \in SUBSET Cpus
    OBVIOUS
  <2>2. proc' \in ProcType
    BY <1>a, <1>5, <2>1 DEF Fork, ProcType
  <2>. QED BY <1>0, <1>5, <2>2 DEF TypeOK, Fork, ProcType
<1>6. CASE CloseWriteEnd
  BY <1>0, <1>6 DEF TypeOK, CloseWriteEnd
<1>7. CASE SetGroup
  <2>1. proc' \in ProcType
    BY <1>a, <1>7 DEF SetGroup, ProcType
  <2>. QED BY <1>0, <1>7, <2>1 DEF TypeOK, SetGroup, ProcType
<1>8. CASE ReadReady
  <2>1. /\ pc' = "scan" /\ ready' \in BOOLEAN /\ writers' = writers
        /\ UNCHANGED <<assigned, result, written, exit, todo, looking, child, proc, wstatus,
                       pinned, ran, repins, steady>>
    BY <1>8 DEF ReadReady
  <2>. QED BY <1>0, <2>1, SMTT(60) DEF TypeOK
<1>9. CASE ReadFails
  <2>1. result' \in ResultType
    BY <1>a, <1>9, ReadFailsEffect
  <2>. QED BY <1>0, <1>9, <2>1 DEF TypeOK, ReadFails
<1>10. CASE StartScan
  BY <1>0, <1>10 DEF TypeOK, StartScan, Sighting, Escape
<1>11. ASSUME NEW p \in Pids, Visit(p) PROVE TypeOK'
  BY <1>0, <1>11 DEF TypeOK, Visit
<1>12. ASSUME NEW p \in Pids, Look(p) PROVE TypeOK'
  <2>1. result' \in ResultType
    BY <1>12, Looks
  <2>. QED BY <1>0, <1>12, <2>1 DEF TypeOK, Look
<1>12a. ASSUME NEW p \in Pids, PassOver(p) PROVE TypeOK'
  BY <1>0, <1>12a DEF TypeOK, PassOver
<1>13. CASE EndScan
  BY <1>0, <1>13 DEF TypeOK, EndScan
<1>14. CASE StillRunning
  BY <1>0, <1>14 DEF TypeOK, StillRunning
<1>15. CASE Reap
  <2>1. /\ result' \in ResultType /\ pc' = "done" /\ written' \in {"no", "yes", "failed"}
        /\ exit' \in 0 .. 255
    BY <1>15, Reaps, EndMeans
  <2>2. proc' \in ProcType
    BY <1>a, <1>15 DEF Reap, Absent, ProcType
  <2>. QED BY <1>0, <1>15, <2>1, <2>2 DEF TypeOK, Reap, ProcType
<1>16. CASE WaitFails
  <2>1. ~result.applied /\ Fail("process", "failed")
    BY <1>0, <1>16 DEF WaitFails
  <2>2. /\ result' \in ResultType /\ written' \in {"no", "yes", "failed"}
        /\ exit' = 1 /\ pc' = "done"
    BY <1>a, <2>1, Fails
  <2>. QED BY <1>0, <1>16, <2>2 DEF TypeOK, WaitFails
<1>b. \A c \in Codes : Exited(c) \in EndedStatus
  BY DEF EndedStatus
<1>c. Exited(126) \in EndedStatus /\ Exited(127) \in EndedStatus /\ Signaled \in EndedStatus
  BY DEF EndedStatus
<1>d. ASSUME NEW s \in EndedStatus, End(s), KeepSteady,
             UNCHANGED <<args, parent, pinned, ran, repins>>
      PROVE  TypeOK'
  <2>1. proc' \in ProcType /\ wstatus' = s /\ child' = "dead"
        /\ writers' \subseteq writers /\ ready' = ready
    BY <1>a, <1>d, EndTypes
  <2>2. steady' \subseteq steady
    BY <1>d DEF KeepSteady
  <2>. QED BY <1>0, <1>d, <2>1, <2>2 DEF TypeOK, ProcType, EndedStatus
<1>e. ASSUME NEW p \in Pids, NEW q \in [state : {"none", "running", "zombie", "gone"},
                                       inGroup : BOOLEAN, cpus : SUBSET Cpus],
             Change(p, q), repins' \in 0 .. MaxRepins
      PROVE  TypeOK'
  <2>1. proc' \in ProcType /\ steady' \subseteq steady
        /\ UNCHANGED <<writers, ready, child, wstatus, pinned, ran>>
    BY <1>a, <1>e, ChangeTypes
  <2>. QED BY <1>0, <1>e, <2>1 DEF TypeOK, ProcType, Change
<1>17. CASE ChildSetGroup
  <2>1. proc' \in ProcType
    BY <1>a, <1>17 DEF ChildSetGroup, ProcType
  <2>. QED BY <1>0, <1>17, <2>1 DEF TypeOK, ChildSetGroup, ProcType
<1>18. CASE ChildSetAffinity
  <2>1. proc' \in ProcType
    BY <1>0, <1>a, <1>18 DEF ChildSetAffinity, ProcType, TypeOK
  <2>2. child' \in {"pinned", "refused"} /\ pinned' \in BOOLEAN
    BY <1>0, <1>18 DEF ChildSetAffinity, TypeOK
  <2>3. steady' \subseteq steady /\ UNCHANGED <<args, parent, pipe, wstatus, ran, repins>>
    BY <1>18 DEF ChildSetAffinity, KeepSteady
  <2>. QED BY <1>0, <2>1, <2>2, <2>3 DEF TypeOK, ProcType
<1>19. CASE ChildReady
  <2>1. /\ child' = "ready" /\ ready' \in BOOLEAN
        /\ UNCHANGED <<pc, assigned, result, written, exit, todo, looking, writers,
                       proc, wstatus, pinned, ran, repins, steady>>
    BY <1>19 DEF ChildReady
  <2>. QED BY <1>0, <2>1, SMTT(60) DEF TypeOK
<1>20. CASE ChildClose
  BY <1>0, <1>20 DEF TypeOK, ChildClose
<1>21. CASE ChildExec
  <2>1. /\ child' \in {"workload", "noexec"} /\ ran' \in BOOLEAN
        /\ UNCHANGED <<pc, assigned, result, written, exit, todo, looking, writers, ready,
                       proc, wstatus, pinned, repins, steady>>
    BY <1>0, <1>21 DEF TypeOK, ChildExec
  <2>. QED BY <1>0, <2>1, SMTT(60) DEF TypeOK
<1>22. CASE ChildExit
  BY <1>22, <1>c, <1>d DEF ChildExit
<1>23. CASE Killed
  BY <1>23, <1>c, <1>d DEF Killed
<1>24. ASSUME NEW code \in Codes, WorkloadExits(code) PROVE TypeOK'
  BY <1>24, <1>b, <1>d DEF WorkloadExits
<1>25. ASSUME NEW p \in Pids, DescendantEnds(p) PROVE TypeOK'
  BY <1>0, <1>25, <1>e DEF DescendantEnds, Absent, TypeOK
<1>26. ASSUME NEW p \in Pids, Leave(p) PROVE TypeOK'
  <2>1. [proc[p] EXCEPT !.inGroup = FALSE] \in
          [state : {"none", "running", "zombie", "gone"},
           inGroup : BOOLEAN, cpus : SUBSET Cpus]
    BY <1>a DEF ProcType
  <2>. QED BY <1>0, <1>26, <1>e, <2>1 DEF Leave, TypeOK
<1>27. ASSUME NEW p \in Pids, NEW q \in Pids, Spawn(p, q) PROVE TypeOK'
  <2>1. proc[p] \in [state : {"none", "running", "zombie", "gone"},
                     inGroup : BOOLEAN, cpus : SUBSET Cpus]
    BY <1>a DEF ProcType
  <2>. QED BY <1>0, <1>27, <1>e, <2>1 DEF Spawn, TypeOK
<1>28. ASSUME NEW p \in Pids, NEW cpus \in SUBSET Online, Repin(p, cpus) PROVE TypeOK'
  <2>1. [proc[p] EXCEPT !.cpus = cpus] \in
          [state : {"none", "running", "zombie", "gone"},
           inGroup : BOOLEAN, cpus : SUBSET Cpus]
    BY <1>a DEF ProcType
  <2>2. repins' \in 0 .. MaxRepins
    BY <1>0, <1>28 DEF Repin, TypeOK
  <2>. QED BY <1>28, <1>e, <2>1, <2>2 DEF Repin
<1>29. Parent \/ ReadFails => TypeOK'
  BY <1>1, <1>2, <1>3, <1>4, <1>5, <1>6, <1>7, <1>8, <1>9, <1>10, <1>11, <1>12, <1>12a,
     <1>13, <1>14, <1>15, <1>16 DEF Parent
<1>30. Startup => TypeOK'
  BY <1>17, <1>18, <1>19, <1>20, <1>21, <1>22 DEF Startup
<1>31. Workload => TypeOK'
  BY <1>23, <1>24, <1>25, <1>26, <1>27, <1>28 DEF Workload
<1>. QED BY <1>29, <1>30, <1>31 DEF Next

----------------------------------------------------------------------------
(* The child and its processes.                                            *)
LEMMA ProcTyped ==
  ASSUME IInv
  PROVE  proc \in ProcType /\ Leader \in Pids /\ repins \in Nat
         /\ pinned \in BOOLEAN /\ ran \in BOOLEAN
BY VisRunAssumption DEF IInv, TypeOK, ProcType

(* The child has not ended before it ends.                                 *)
LEMMA EndKeepsChild ==
  ASSUME IInv, NEW s \in EndedStatus, End(s), proc[Leader].state = "running",
         ran \/ s \in {Exited(126), Exited(127), Signaled},
         UNCHANGED <<args, parent, pinned, ran, repins>>
  PROVE  ChildInv'
<1>1. /\ child' = "dead" /\ wstatus' = s
      /\ proc' \in ProcType /\ proc'[Leader].state \in {"zombie", "gone"}
      /\ \A p \in Pids \ {Leader} : proc'[p] = proc[p]
  BY ProcTyped DEF End, Absent, ProcType
<1>2. s # NotEnded
  BY EndMeans
<1>3. child # "none" /\ child # "dead"
  BY ProcTyped DEF IInv, ChildInv
<1>. QED BY <1>1, <1>2, <1>3, ProcTyped DEF IInv, ChildInv, Unpinned

LEMMA ChangeKeepsChild ==
  ASSUME IInv, ran, NEW p \in Pids, NEW q, Change(p, q),
         p = Leader => q.state = proc[Leader].state,
         UNCHANGED repins \/ ran
  PROVE  ChildInv'
<1>1. /\ UNCHANGED <<child, wstatus, pinned, ran>>
      /\ proc'[Leader].state = proc[Leader].state
  BY ProcTyped DEF Change, ProcType
<1>. QED BY <1>1, ProcTyped DEF IInv, ChildInv, Unpinned

LEMMA StepKeepsChild == ASSUME IInv, Next PROVE ChildInv'
<1>0. ChildInv /\ proc \in ProcType /\ Leader \in Pids
  BY ProcTyped DEF IInv
<1>a. \A c \in Codes : Exited(c) \in EndedStatus
  BY VisRunAssumption DEF EndedStatus
<1>b. Exited(126) \in EndedStatus /\ Exited(127) \in EndedStatus /\ Signaled \in EndedStatus
  BY DEF EndedStatus
<1>1. CASE Fork
  <2>1. child = "none" /\ child' = "born" /\ UNCHANGED <<wstatus, pinned, ran, repins>>
    BY <1>1 DEF Fork, history, IInv, ParentInv
  <2>2. proc'[Leader].state = "running" /\ \A p \in Pids \ {Leader} : proc'[p] = proc[p]
    BY <1>0, <1>1 DEF Fork, ProcType
  <2>. QED BY <1>0, <2>1, <2>2 DEF ChildInv, Unpinned
<1>2. CASE SetGroup
  <2>1. \A p \in Pids : proc'[p].state = proc[p].state
    BY <1>0, <1>2 DEF SetGroup, ProcType
  <2>2. UNCHANGED <<child, wstatus, pinned, ran, repins>>
    BY <1>2 DEF SetGroup, history
  <2>. QED BY <1>0, <2>1, <2>2 DEF ChildInv, Unpinned
<1>3. CASE Reap
  <2>1. child = "dead" /\ UNCHANGED <<child, wstatus, pinned, ran, repins>>
    BY <1>3, Reaps DEF Reap, history
  <2>2. proc'[Leader].state = "gone" /\ \A p \in Pids \ {Leader} : proc'[p] = proc[p]
    BY <1>0, <1>3 DEF Reap, ProcType, Absent
  <2>. QED BY <1>0, <2>1, <2>2 DEF ChildInv, Unpinned
<1>4. CASE (Parent \/ ReadFails) /\ ~Fork /\ ~SetGroup /\ ~Reap
  <2>1. UNCHANGED <<child, proc, wstatus, pinned, ran, repins>>
    BY <1>4, ParentLeaves DEF processes
  <2>. QED BY <1>0, <2>1 DEF ChildInv, Unpinned
<1>5. CASE ChildSetGroup
  <2>1. child = "born" /\ child' = "grouped" /\ UNCHANGED <<wstatus, pinned, ran, repins>>
    BY <1>5 DEF ChildSetGroup, history
  <2>2. \A p \in Pids : proc'[p].state = proc[p].state
    BY <1>0, <1>5 DEF ChildSetGroup, ProcType
  <2>. QED BY <1>0, <2>1, <2>2 DEF ChildInv, Unpinned
<1>6. CASE ChildSetAffinity
  <2>1. /\ child = "grouped" /\ UNCHANGED <<wstatus, ran, repins>>
        /\ \/ child' = "pinned" /\ pinned'
           \/ child' = "refused" /\ pinned' = pinned
    BY <1>6 DEF ChildSetAffinity
  <2>2. \A p \in Pids : proc'[p].state = proc[p].state
    BY <1>0, <1>6 DEF ChildSetAffinity, ProcType
  <2>. QED BY <1>0, <2>1, <2>2 DEF ChildInv, Unpinned
<1>7. CASE ChildReady
  BY <1>0, <1>7 DEF ChildInv, Unpinned, ChildReady, history
<1>8. CASE ChildClose
  <2>1. /\ \/ child = "ready" /\ child' = "exec"
           \/ child = "refused" /\ child' = "leaving"
        /\ UNCHANGED <<proc, wstatus, pinned, ran, repins>>
    BY <1>8 DEF ChildClose, history
  <2>. QED BY <1>0, <2>1 DEF ChildInv, Unpinned
<1>9. CASE ChildExec
  <2>1. /\ child = "exec" /\ UNCHANGED <<proc, wstatus, pinned, repins>>
        /\ \/ child' = "workload" /\ ran'
           \/ child' = "noexec" /\ ran' = ran
    BY <1>9 DEF ChildExec
  <2>. QED BY <1>0, <2>1 DEF ChildInv, Unpinned
<1>10. CASE ChildExit
  <2>1. child \in {"leaving", "noexec"} /\ proc[Leader].state = "running"
    BY <1>0, <1>10 DEF ChildExit, ChildInv
  <2>. QED BY <1>10, <1>b, <2>1, EndKeepsChild DEF ChildExit
<1>11. CASE Killed
  BY <1>11, <1>b, EndKeepsChild DEF Killed
<1>12. ASSUME NEW code \in Codes, WorkloadExits(code) PROVE ChildInv'
  BY <1>12, <1>a, EndKeepsChild DEF WorkloadExits, Runs
<1>13. ASSUME NEW p \in Pids, DescendantEnds(p) PROVE ChildInv'
  BY <1>13, ChangeKeepsChild DEF DescendantEnds, Runs
<1>14. ASSUME NEW p \in Pids, Leave(p) PROVE ChildInv'
  <2>1. [proc[p] EXCEPT !.inGroup = FALSE].state = proc[p].state
    BY <1>0 DEF ProcType
  <2>. QED BY <1>14, <2>1, ChangeKeepsChild DEF Leave, Runs
<1>15. ASSUME NEW p \in Pids, NEW q \in Pids, Spawn(p, q) PROVE ChildInv'
  <2>1. q # Leader
    BY <1>0, <1>15 DEF Spawn, Runs, ChildInv
  <2>. QED BY <1>15, <2>1, ChangeKeepsChild DEF Spawn, Runs
<1>16. ASSUME NEW p \in Pids, NEW cpus \in SUBSET Online, Repin(p, cpus) PROVE ChildInv'
  <2>1. [proc[p] EXCEPT !.cpus = cpus].state = proc[p].state
    BY <1>0 DEF ProcType
  <2>. QED BY <1>16, <2>1, ChangeKeepsChild DEF Repin, Runs
<1>17. Startup => ChildInv'
  BY <1>5, <1>6, <1>7, <1>8, <1>9, <1>10 DEF Startup
<1>18. Workload => ChildInv'
  BY <1>11, <1>12, <1>13, <1>14, <1>15, <1>16 DEF Workload
<1>. QED BY <1>1, <1>2, <1>3, <1>4, <1>17, <1>18 DEF Next

----------------------------------------------------------------------------
(* vis-run.                                                                *)
LEMMA StepKeepsParent == ASSUME IInv, Next PROVE ParentInv'
<1>0. ParentInv /\ ChildInv /\ TypeOK /\ result \in ResultType
  BY DEF IInv, TypeOK
<1>a. (pc # "done" => ~result.applied) /\ \A e \in PolicyEvents(args.policy) : e.severity # "error"
  BY <1>0, PolicyEventsAreTyped DEF ParentInv
<1>1. CASE RejectPolicy
  BY <1>0, <1>1 DEF RejectPolicy, ParentInv, processes, Forked
<1>2. CASE AcceptPolicy
  <2>1. /\ pc = "policy" /\ pc' = "select" /\ child = "none"
        /\ UNCHANGED <<args, assigned, written, exit, child>>
    BY <1>0, <1>2 DEF AcceptPolicy, processes, ParentInv
  <2>2. ~HasEvent(result', "error")
    BY <1>a, <1>2, Accepts DEF HasEvent
  <2>. QED BY <1>0, <1>2, <2>1, <2>2, Accepts DEF ParentInv, Forked
<1>3. CASE SelectCpus
  <2>1. child = "none" /\ pc = "select" /\ UNCHANGED <<args, child>> /\ assigned' = Listed
    BY <1>0, <1>3 DEF SelectCpus, processes, ParentInv, Listed
  <2>2. CASE Fail("policy", "failed") \/ Fail("affinity", "failed")
    <3>1. pc' = "done"
      BY <2>2 DEF Fail, Publish
    <3>. QED BY <2>1, <3>1 DEF ParentInv, Forked
  <2>3. CASE Publish(result, 0)
    BY <2>1, <2>3 DEF Publish, ParentInv, Forked
  <2>4. CASE /\ Usable(assigned') /\ ~args.dry_run
             /\ pc' = "fork" /\ UNCHANGED <<result, written, exit>>
    <3>1. Usable(Listed)' /\ Listed' = Listed
      BY <2>1, <2>4 DEF Usable, Listed
    <3>2. ~HasEvent(result', "error")
      BY <1>0, <2>1, <2>4 DEF ParentInv, HasEvent
    <3>. QED BY <1>0, <2>1, <2>4, <3>1, <3>2 DEF ParentInv, Forked
  <2>. QED BY <1>3, <2>2, <2>3, <2>4 DEF SelectCpus
<1>4. CASE CannotFork
  BY <1>0, <1>4 DEF CannotFork, Fail, Publish, ParentInv, processes, Forked
<1>5. CASE \/ Fork \/ CloseWriteEnd \/ SetGroup \/ ReadReady \/ StartScan \/ EndScan
           \/ StillRunning \/ \E p \in Pids : Visit(p) \/ PassOver(p)
  <2>1. /\ UNCHANGED <<args, assigned, result, written, exit>>
        /\ pc \in Forked \cup {"fork"} /\ pc' \in Forked
        /\ child' = child \/ child' = "born"
    BY <1>5 DEF Fork, CloseWriteEnd, SetGroup, ReadReady, StartScan, EndScan, StillRunning,
                Visit, PassOver, processes, Forked
  <2>2. Listed' = Listed /\ Usable(Listed)' = Usable(Listed)
        /\ HasEvent(result, "error")' = HasEvent(result, "error")
    BY <2>1 DEF Listed, Usable, HasEvent
  <2>3. pc = "fork" => child' = "born"
    BY <1>5 DEF Fork, CloseWriteEnd, SetGroup, ReadReady, StartScan, EndScan, StillRunning,
                Visit, PassOver
  <2>4. child' # "none"
    BY <1>0, <2>1, <2>3 DEF ParentInv, Forked
  <2>. QED BY <1>0, <2>1, <2>2, <2>4 DEF ParentInv, Forked
<1>6. CASE ReadFails \/ \E p \in Pids : Look(p)
  <2>1. /\ UNCHANGED <<args, assigned, written, exit, child>>
        /\ pc \in Forked /\ pc' \in Forked
    BY <1>6 DEF ReadFails, Look, processes, Forked
  <2>2. /\ result'.dry_run = result.dry_run
        /\ result'.applied = result.applied /\ result'.exit_code = result.exit_code
        /\ result'.workload_status = result.workload_status
        /\ result'.verdict = result.verdict
        /\ result'.events \in {result.events,
             result.events \cup {Event("warning", "observation", "read_failed")}}
    BY <1>0, <1>6, Looks, ReadFailsEffect
  <2>3. HasEvent(result', "error") => HasEvent(result, "error")
    BY <2>2 DEF HasEvent, Event
  <2>4. Listed' = Listed /\ Usable(Listed)' = Usable(Listed)
    BY <2>1 DEF Listed, Usable
  <2>. QED BY <1>0, <2>1, <2>2, <2>3, <2>4 DEF ParentInv, Forked
<1>7. CASE Reap \/ WaitFails
  <2>1. child = "dead" /\ pc' = "done" /\ UNCHANGED <<args, assigned, child>>
    BY <1>0, <1>7, ProcTyped DEF Reap, WaitFails, Fail, Publish, processes, ChildInv
  <2>2. Listed' = Listed /\ Usable(Listed)' = Usable(Listed)
    BY <2>1 DEF Listed, Usable
  <2>. QED BY <1>0, <2>1, <2>2 DEF ParentInv, Forked
<1>8. CASE Startup \/ Workload
  <2>1. /\ UNCHANGED <<args, pc, assigned, result, written, exit>>
        /\ child # "none" /\ child' # "none"
        /\ child = "dead" => child' = child
    BY <1>8, OthersLeave
  <2>2. Listed' = Listed /\ Usable(Listed)' = Usable(Listed)
        /\ HasEvent(result, "error")' = HasEvent(result, "error")
    BY <2>1 DEF Listed, Usable, HasEvent
  <2>3. pc \notin {"policy", "select", "fork"}
    BY <1>0, <2>1 DEF ParentInv
  <2>4. pc = "done" => child' = "dead"
    BY <1>0, <2>1 DEF ParentInv
  <2>. QED BY <1>0, <2>1, <2>2, <2>3, <2>4 DEF ParentInv, Forked
<1>. QED BY <1>1, <1>2, <1>3, <1>4, <1>5, <1>6, <1>7, <1>8 DEF Next, Parent

----------------------------------------------------------------------------
(* Masks.                                                                  *)
LEMMA StepKeepsMasks == ASSUME IInv, Next PROVE MasksContained'
<1>0. /\ MasksContained /\ ChildInv /\ ParentInv
      /\ proc \in ProcType /\ Leader \in Pids /\ repins \in Nat
  BY ProcTyped DEF IInv
<1>a. ASSUME NEW s, End(s), proc[Leader].state = "running",
             UNCHANGED <<args, parent, pinned, ran, repins>>
      PROVE  MasksContained'
  <2>1. \A p \in Pids : Exists(p)' => Exists(p) /\ proc'[p].cpus = proc[p].cpus
    <3>1. proc'[Leader].cpus = proc[Leader].cpus \/ proc'[Leader].state = "gone"
      BY <1>0, <1>a DEF End, Absent, ProcType
    <3>2. \A p \in Pids \ {Leader} : proc'[p] = proc[p]
      BY <1>0, <1>a DEF End, ProcType
    <3>. QED BY <1>0, <1>a, <3>1, <3>2 DEF Exists
  <2>. QED BY <1>0, <1>a, <2>1 DEF MasksContained, parent
<1>b. ASSUME NEW p \in Pids, NEW q, Change(p, q),
             q.state \in {"running", "zombie"} =>
               \E o \in Pids : Exists(o) /\ q.cpus = proc[o].cpus,
             UNCHANGED repins
      PROVE  MasksContained'
  <2>1. \A r \in Pids : Exists(r)' =>
          \E o \in Pids : Exists(o) /\ proc'[r].cpus = proc[o].cpus
    BY <1>0, <1>b DEF Change, Exists, ProcType
  <2>2. UNCHANGED <<pinned, repins, assigned>>
    BY <1>b DEF Change, parent
  <2>. QED BY <1>0, <2>1, <2>2 DEF MasksContained
<1>1. CASE Fork \/ AcceptPolicy \/ SelectCpus \/ CannotFork \/ RejectPolicy
  <2>1. ~pinned /\ pinned' = pinned
    BY <1>0, <1>1 DEF Fork, AcceptPolicy, SelectCpus, CannotFork, RejectPolicy, history,
                      ParentInv, ChildInv, Unpinned
  <2>. QED BY <2>1 DEF MasksContained
<1>2. CASE SetGroup
  <2>1. \A p \in Pids : Exists(p)' = Exists(p) /\ proc'[p].cpus = proc[p].cpus
    BY <1>0, <1>2 DEF SetGroup, Exists, ProcType
  <2>. QED BY <1>0, <1>2, <2>1 DEF MasksContained, SetGroup, history
<1>3. CASE Reap
  <2>1. \A p \in Pids : Exists(p)' => Exists(p) /\ proc'[p].cpus = proc[p].cpus
    BY <1>0, <1>3 DEF Reap, Exists, ProcType, Absent
  <2>. QED BY <1>0, <1>3, <2>1 DEF MasksContained, Reap, history
<1>4. CASE \/ CloseWriteEnd \/ ReadReady \/ ReadFails \/ StartScan \/ EndScan
           \/ StillRunning \/ WaitFails \/ \E p \in Pids : Visit(p) \/ Look(p) \/ PassOver(p)
  <2>1. UNCHANGED <<pinned, repins, proc, assigned>>
    BY <1>4 DEF CloseWriteEnd, ReadReady, ReadFails, StartScan, EndScan, StillRunning,
                WaitFails, Visit, Look, PassOver, history, processes
  <2>. QED BY <1>0, <2>1 DEF MasksContained, Exists
<1>5. CASE ChildSetGroup
  <2>1. \A p \in Pids : Exists(p)' = Exists(p) /\ proc'[p].cpus = proc[p].cpus
    BY <1>0, <1>5 DEF ChildSetGroup, Exists, ProcType
  <2>. QED BY <1>0, <1>5, <2>1 DEF MasksContained, ChildSetGroup, parent, history
<1>6. CASE ChildSetAffinity
  <2>1. ~pinned /\ \A p \in Pids \ {Leader} : proc[p].state = "none"
    BY <1>0, <1>6 DEF ChildSetAffinity, ChildInv, Unpinned
  <2>2. CASE child' = "refused" /\ UNCHANGED <<proc, pinned>>
    BY <2>1, <2>2 DEF MasksContained
  <2>3. CASE /\ assigned \cap Online # {}
             /\ proc' = [proc EXCEPT ![Leader].cpus = assigned \cap Online]
    <3>1. \A p \in Pids : Exists(p)' => p = Leader /\ proc'[p].cpus = assigned \cap Online
      BY <1>0, <2>1, <2>3 DEF Exists, ProcType
    <3>2. assigned' = assigned
      BY <1>6 DEF ChildSetAffinity, parent
    <3>. QED BY <2>3, <3>1, <3>2 DEF MasksContained
  <2>. QED BY <1>6, <2>2, <2>3 DEF ChildSetAffinity
<1>7. CASE ChildReady \/ ChildClose \/ ChildExec
  BY <1>0, <1>7 DEF MasksContained, Exists, ChildReady, ChildClose, ChildExec, parent, history
<1>8. CASE ChildExit \/ Killed \/ \E code \in Codes : WorkloadExits(code)
  <2>1. child \in {"leaving", "noexec"} => proc[Leader].state = "running"
    BY <1>0 DEF ChildInv
  <2>. QED BY <1>8, <1>a, <2>1 DEF ChildExit, Killed, WorkloadExits, Runs
<1>9. ASSUME NEW p \in Pids, DescendantEnds(p) PROVE MasksContained'
  BY <1>9, <1>b DEF DescendantEnds, Absent
<1>10. ASSUME NEW p \in Pids, Leave(p) PROVE MasksContained'
  <2>1. [proc[p] EXCEPT !.inGroup = FALSE].cpus = proc[p].cpus /\ Exists(p)
    BY <1>0, <1>10 DEF ProcType, Leave, Runs, Exists
  <2>. QED BY <1>10, <1>b, <2>1 DEF Leave
<1>11. ASSUME NEW p \in Pids, NEW q \in Pids, Spawn(p, q) PROVE MasksContained'
  BY <1>11, <1>b DEF Spawn, Runs, Exists
<1>12. ASSUME NEW p \in Pids, NEW cpus \in SUBSET Online, Repin(p, cpus)
       PROVE  MasksContained'
  BY <1>0, <1>12 DEF Repin, MasksContained
<1>. QED BY <1>1, <1>2, <1>3, <1>4, <1>5, <1>6, <1>7, <1>8, <1>9, <1>10, <1>11, <1>12
         DEF Next, Parent, Startup, Workload

----------------------------------------------------------------------------
(* The pipe, and what the observer has reported.                           *)
ReadFailed == Event("warning", "observation", "read_failed")

LEMMA OthersKeepSteady ==
  ASSUME IInv, Startup \/ Workload
  PROVE  /\ steady' \subseteq steady
         /\ \A s \in steady' :
              s.pid \in Pids /\ Exists(s.pid) /\ proc[s.pid].inGroup =>
                Exists(s.pid)' /\ proc'[s.pid].inGroup /\
                (s.cpus = proc[s.pid].cpus => s.cpus = proc'[s.pid].cpus)
<1>1. CASE KeepSteady
  BY <1>1 DEF KeepSteady, Exists
<1>2. CASE UNCHANGED <<proc, steady>>
  BY <1>2 DEF Exists
<1>3. CASE ChildSetGroup
  BY <1>3, ProcTyped DEF ChildSetGroup, Exists, history, ProcType
<1>. QED BY <1>1, <1>2, <1>3
     DEF Startup, ChildSetAffinity, ChildReady, ChildClose, ChildExec, ChildExit, history,
         Workload, Killed, WorkloadExits, DescendantEnds, Leave, Spawn, Repin, Change

LEMMA StepKeepsReadiness == ASSUME IInv, Next PROVE Readiness'
<1>0. /\ Readiness /\ ParentInv /\ ready \in BOOLEAN /\ result \in ResultType
      /\ pc = "done" => child \in {"none", "dead"}
  BY DEF IInv, TypeOK, ParentInv
<1> DEFINE Early == {"none", "born", "grouped"}
           Watching == {"scan", "visit", "wait"}
<1>1. CASE RejectPolicy \/ AcceptPolicy \/ SelectCpus \/ CannotFork
  <2>1. UNCHANGED <<child, writers, ready, steady>> /\ child = "none"
        /\ pc \in {"policy", "select", "fork"}
        /\ pc' \in {"select", "fork", "done"}
    BY <1>0, <1>1 DEF RejectPolicy, AcceptPolicy, SelectCpus, CannotFork, Fail, Publish,
                      pipe, processes, history, ParentInv
  <2>2. pc' # "done" => result'.escapes = {}
    <3>1. CASE AcceptPolicy
      BY <3>1, Accepts
    <3>2. CASE SelectCpus
      BY <1>0, <2>1, <3>2 DEF SelectCpus, Fail, Publish, Readiness
    <3>. QED BY <1>1, <3>1, <3>2 DEF RejectPolicy, CannotFork, Fail, Publish
  <2>. QED BY <1>0, <2>1, <2>2 DEF Readiness
<1>2. CASE Fork
  BY <1>0, <1>2 DEF Fork, Readiness, history, ParentInv
<1>3. CASE CloseWriteEnd
  BY <1>0, <1>3 DEF CloseWriteEnd, Readiness, processes, history
<1>4. CASE SetGroup
  BY <1>0, <1>4 DEF SetGroup, Readiness, pipe, history
<1>5. CASE ReadReady
  <2>1. child # "none" /\ child \notin Early
    BY <1>0, <1>5 DEF ReadReady, Readiness, ParentInv, Forked
  <2>2. pc' = "scan" /\ ~ready' /\ UNCHANGED <<child, writers>>
    BY <1>5 DEF ReadReady, processes
  <2>. QED BY <1>0, <2>1, <2>2 DEF Readiness
<1>6. CASE ReadFails
  <2>1. ReadFailed \in result'.events
    BY <1>0, <1>6, ReadFailsEffect DEF ReadFailed
  <2>2. pc' = "scan" /\ UNCHANGED <<child, writers, ready>>
    BY <1>6 DEF ReadFails, processes, pipe
  <2>. QED BY <1>0, <2>1, <2>2 DEF Readiness, ReadFailed
<1>7. CASE StartScan \/ EndScan \/ StillRunning
           \/ \E p \in Pids : Visit(p) \/ Look(p) \/ PassOver(p)
  <2>1. /\ pc \in Watching /\ pc' \in Watching /\ UNCHANGED <<child, writers, ready>>
        /\ result'.events = result.events
    BY <1>0, <1>7, Looks DEF StartScan, EndScan, StillRunning, Visit, Look,
                       PassOver, processes, pipe
  <2>. QED BY <1>0, <2>1 DEF Readiness
<1>8. CASE Reap \/ WaitFails
  <2>1. pc' = "done" /\ UNCHANGED <<child, ready>>
    BY <1>8 DEF Reap, WaitFails, Fail, Publish, processes, pipe
  <2>2. UNCHANGED writers
    BY <1>8 DEF Reap, WaitFails, pipe
  <2>. QED BY <1>0, <2>1, <2>2 DEF Readiness
<1>9. CASE Startup \/ Workload
  <2>1. UNCHANGED <<pc, result>> /\ steady' \subseteq steady
    BY <1>9, OthersLeave, OthersKeepSteady
  <2>2. child' \in Early => child \in Early /\ ready' = ready
    BY <1>9 DEF Startup, ChildSetGroup, ChildSetAffinity, ChildReady, ChildClose, ChildExec,
                ChildExit, End, Workload, Killed, WorkloadExits, DescendantEnds, Leave,
                Spawn, Repin, Change, pipe
  <2>3. child' \in {"born", "grouped", "pinned", "ready", "refused"} =>
          child \in {"born", "grouped", "pinned", "ready", "refused"} /\ writers' = writers
    BY <1>9 DEF Startup, ChildSetGroup, ChildSetAffinity, ChildReady, ChildClose, ChildExec,
                ChildExit, End, Workload, Killed, WorkloadExits, DescendantEnds, Leave,
                Spawn, Repin, Change, pipe
  <2>4. steady = {} => steady' = {}
    BY <2>1
  <2>5. ready' => child' \notin Early
    BY <1>0, <2>2 DEF Readiness
  <2>6. pc' \in Watching => ReadFailed \in result'.events \/ child' \notin Early
    BY <1>0, <2>1, <2>2 DEF Readiness, ReadFailed
  <2>. QED BY <1>0, <2>1, <2>3, <2>4, <2>5, <2>6 DEF Readiness, ReadFailed
<1>. QED BY <1>1, <1>2, <1>3, <1>4, <1>5, <1>6, <1>7, <1>8, <1>9 DEF Next, Parent

LEMMA StepKeepsScanning == ASSUME IInv, Next PROVE Scanning'
<1>0. Scanning
  BY DEF IInv
<1>1. CASE StartScan
  <2>1. \A p, q \in looking' : p = q
    BY <1>0, <1>1 DEF StartScan, Scanning
  <2>2. ASSUME pc' = "visit", NEW s \in steady'
        PROVE  /\ Outside(s.pid)' /\ proc'[s.pid].inGroup /\ s = Sighting(s.pid)'
               /\ s.pid \in todo' \cup looking'
    <3>1. PICK p \in Pids : Outside(p) /\ proc[p].inGroup /\ s = Sighting(p)
      BY <1>1, <2>2 DEF StartScan
    <3>2. s.pid = p
      BY <3>1 DEF Sighting
    <3>3. UNCHANGED <<proc, assigned>> /\ todo' = Pids
      BY <1>1, <2>2 DEF StartScan, processes
    <3>. QED BY <3>1, <3>2, <3>3 DEF Outside, Exists, Sighting
  <2>. QED BY <2>1, <2>2 DEF Scanning
<1>2. ASSUME NEW p \in Pids, Visit(p) PROVE Scanning'
  <2>1. /\ looking = {} /\ todo' = todo \ {p} /\ pc = "visit"
        /\ UNCHANGED <<proc, assigned, steady, result, pc>>
        /\ looking' = IF Exists(p) /\ proc[p].inGroup THEN {p} ELSE {}
    BY <1>2 DEF Visit, processes, history
  <2>2. \A s \in steady : Outside(s.pid)' = Outside(s.pid) /\ Sighting(s.pid)' = Sighting(s.pid)
    BY <2>1 DEF Outside, Exists, Sighting
  <2>3. ASSUME NEW s \in steady
        PROVE  s.pid \in todo' \cup looking' \/ s \in result.escapes
    BY <1>0, <2>1 DEF Scanning, Outside
  <2>. QED BY <1>0, <2>1, <2>2, <2>3 DEF Scanning
<1>3. ASSUME NEW p \in Pids, Look(p) PROVE Scanning'
  <2>1. /\ p \in looking /\ pc = "visit" /\ looking' = {}
        /\ UNCHANGED <<proc, assigned, steady, todo, pc>>
    BY <1>3 DEF Look, processes, history
  <2>2. \A s \in steady : Outside(s.pid)' = Outside(s.pid) /\ Sighting(s.pid)' = Sighting(s.pid)
    BY <2>1 DEF Outside, Exists, Sighting
  <2>3. ASSUME NEW s \in steady
        PROVE  s.pid \in todo' \cup looking' \/ s \in result'.escapes
    <3>1. s.pid \in todo \/ s.pid = p \/ s \in result.escapes
      BY <1>0, <2>1 DEF Scanning
    <3>2. Outside(s.pid) /\ s = Sighting(s.pid)
      BY <1>0, <2>1 DEF Scanning
    <3>3. result'.escapes = result.escapes \cup (IF Outside(p) THEN {Sighting(p)} ELSE {})
      BY <1>3, Looks
    <3>. QED BY <2>1, <3>1, <3>2, <3>3
  <2>. QED BY <1>0, <2>1, <2>2, <2>3 DEF Scanning
<1>3a. ASSUME NEW p \in Pids, PassOver(p) PROVE Scanning'
  <2>1. /\ pc = "visit" /\ UNCHANGED <<proc, assigned, result, pc>>
        /\ looking' = {} /\ todo' = todo \ {p}
        /\ p \in looking \/ looking = {}
        /\ steady' = {s \in steady : s.pid # p}
    BY <1>3a DEF PassOver, processes
  <2>2. \A s \in steady : Outside(s.pid)' = Outside(s.pid) /\ Sighting(s.pid)' = Sighting(s.pid)
    BY <2>1 DEF Outside, Exists, Sighting
  <2>3. ASSUME NEW s \in steady'
        PROVE  s \in steady /\ (s.pid \in todo' \/ s \in result.escapes)
    BY <1>0, <2>1 DEF Scanning
  <2>. QED BY <1>0, <2>1, <2>2, <2>3 DEF Scanning
<1>4. CASE Startup \/ Workload
  <2>1. UNCHANGED <<pc, assigned, result, todo, looking>> /\ steady' \subseteq steady
    BY <1>4, OthersLeave, OthersKeepSteady
  <2>2. ASSUME pc' = "visit", NEW s \in steady'
        PROVE  /\ Outside(s.pid)' /\ proc'[s.pid].inGroup /\ s = Sighting(s.pid)'
               /\ s.pid \in todo' \cup looking' \/ s \in result'.escapes
    <3>1. /\ Outside(s.pid) /\ proc[s.pid].inGroup /\ s = Sighting(s.pid)
          /\ s.pid \in todo \cup looking \/ s \in result.escapes
      BY <1>0, <2>1, <2>2 DEF Scanning
    <3>2. s.cpus = proc[s.pid].cpus /\ s.pid \in Pids
      BY <2>1, <3>1 DEF Sighting, IInv, TypeOK, Escape
    <3>3. Exists(s.pid)' /\ proc'[s.pid].inGroup /\ s.cpus = proc'[s.pid].cpus
      BY <1>4, <3>1, <3>2, OthersKeepSteady DEF Outside
    <3>. QED BY <2>1, <3>1, <3>2, <3>3 DEF Outside, Sighting
  <2>. QED BY <1>0, <2>1, <2>2 DEF Scanning
<1>5. CASE \/ RejectPolicy \/ AcceptPolicy \/ SelectCpus \/ CannotFork \/ Fork
           \/ CloseWriteEnd \/ SetGroup \/ ReadReady \/ ReadFails \/ EndScan
           \/ StillRunning \/ Reap \/ WaitFails
  <2>1. pc' # "visit" /\ looking' = looking
    BY <1>5 DEF RejectPolicy, AcceptPolicy, SelectCpus, CannotFork, Fork, CloseWriteEnd,
       SetGroup, ReadReady, ReadFails, EndScan, StillRunning, Reap, WaitFails, Fail, Publish
  <2>. QED BY <1>0, <2>1 DEF Scanning
<1>. QED BY <1>1, <1>2, <1>3, <1>3a, <1>4, <1>5 DEF Next, Parent

LEMMA StepKeepsSightings == ASSUME IInv, Next PROVE SteadyEscapesAreReported'
<1>0. Scanning /\ SteadyEscapesAreReported
  BY DEF IInv
<1>1. CASE StartScan
  BY <1>1 DEF StartScan, SteadyEscapesAreReported
<1>2. CASE EndScan
  BY <1>0, <1>2 DEF EndScan, Scanning, SteadyEscapesAreReported, history
<1>3. CASE Startup \/ Workload
  <2>1. UNCHANGED <<pc, result>> /\ steady' \subseteq steady
    BY <1>3, OthersLeave, OthersKeepSteady
  <2>. QED BY <1>0, <2>1 DEF SteadyEscapesAreReported
<1>4. CASE \/ RejectPolicy \/ AcceptPolicy \/ SelectCpus \/ CannotFork \/ Fork
           \/ CloseWriteEnd \/ SetGroup \/ ReadReady \/ ReadFails \/ StillRunning
           \/ Reap \/ WaitFails \/ \E p \in Pids : Visit(p) \/ Look(p) \/ PassOver(p)
  <2>1. pc' # "wait"
    BY <1>4 DEF RejectPolicy, AcceptPolicy, SelectCpus, CannotFork, Fork, CloseWriteEnd,
       SetGroup, ReadReady, ReadFails, Visit, Look, PassOver, StillRunning, Reap, WaitFails, Fail,
       Publish
  <2>. QED BY <2>1 DEF SteadyEscapesAreReported
<1>. QED BY <1>1, <1>2, <1>3, <1>4 DEF Next, Parent

LEMMA StepKeepsNoFalseEscape == ASSUME IInv, Next PROVE NoFalseEscape'
<1>0. /\ NoFalseEscape /\ MasksContained /\ Readiness /\ ParentInv
      /\ result \in ResultType /\ repins \in Nat /\ ~(pc # "done" /\ result.applied)
  BY ProcTyped DEF IInv, TypeOK, ParentInv
<1>a. ASSUME UNCHANGED <<pinned, repins>>, result'.escapes = result.escapes,
             result.events \subseteq result'.events
      PROVE  NoFalseEscape'
  BY <1>0, <1>a DEF NoFalseEscape
<1>1. CASE AcceptPolicy
  BY <1>1, Accepts DEF NoFalseEscape
<1>2. CASE SelectCpus \/ CannotFork \/ Reap \/ WaitFails
  <2>1. UNCHANGED <<pinned, repins>>
    BY <1>2 DEF SelectCpus, CannotFork, Reap, WaitFails, history
  <2>2. CASE \E category \in {"policy", "affinity", "process"} : Fail(category, "failed")
    <3>1. ~result.applied
      BY <1>0, <1>2 DEF SelectCpus, CannotFork, Reap, WaitFails
    <3>2. result'.escapes = result.escapes /\ result.events \subseteq result'.events
      BY <1>0, <2>2, <3>1, Fails
    <3>. QED BY <1>a, <2>1, <3>2
  <2>3. CASE Publish(result, 0)
    BY <1>0, <1>a, <2>1, <2>3, Publishes
  <2>4. CASE Reap
    BY <1>a, <2>1, <2>4, Reaps
  <2>5. CASE UNCHANGED result
    BY <1>a, <2>1, <2>5
  <2>. QED BY <1>2, <2>2, <2>3, <2>4, <2>5 DEF SelectCpus, CannotFork, WaitFails
<1>3. ASSUME NEW p \in Pids, Look(p) PROVE NoFalseEscape'
  <2>1. UNCHANGED <<pinned, repins>> /\ result'.events = result.events
        /\ result'.escapes = result.escapes \cup (IF Outside(p) THEN {Sighting(p)} ELSE {})
    BY <1>3, Looks DEF Look, history
  <2>2. pinned /\ repins = 0 => ~Outside(p)
    BY <1>0 DEF MasksContained, Outside
  <2>. QED BY <1>0, <2>1, <2>2 DEF NoFalseEscape
<1>4. CASE ReadFails
  BY <1>0, <1>4, ReadFailsEffect DEF NoFalseEscape
<1>5. CASE \/ RejectPolicy \/ Fork \/ CloseWriteEnd \/ SetGroup \/ ReadReady
           \/ StartScan \/ EndScan \/ StillRunning
           \/ \E p \in Pids : Visit(p) \/ PassOver(p)
  <2>1. UNCHANGED <<pinned, repins, result>>
    BY <1>5 DEF RejectPolicy, Fork, CloseWriteEnd, SetGroup, ReadReady, StartScan, EndScan,
                StillRunning, Visit, PassOver, history
  <2>. QED BY <1>a, <2>1
<1>6. CASE ChildSetAffinity
  <2>1. child = "grouped" /\ UNCHANGED result
    BY <1>6 DEF ChildSetAffinity, parent
  <2>2. ReadFailed \in result.events \/ result.escapes = {}
    BY <1>0, <2>1 DEF Readiness, ParentInv, ReadFailed
  <2>. QED BY <2>1, <2>2 DEF NoFalseEscape, ReadFailed
<1>7. CASE (Startup \/ Workload) /\ ~ChildSetAffinity
  <2>1. pinned' = pinned /\ repins' \in {repins, repins + 1}
    BY <1>7 DEF Startup, ChildSetGroup, ChildReady, ChildClose, ChildExec, ChildExit,
       Workload, Killed, WorkloadExits, DescendantEnds, Leave, Spawn, Repin, Change, history
  <2>2. UNCHANGED result
    BY <1>7, OthersLeave
  <2>. QED BY <1>0, <2>1, <2>2 DEF NoFalseEscape
<1>. QED BY <1>1, <1>2, <1>3, <1>4, <1>5, <1>6, <1>7 DEF Next, Parent

----------------------------------------------------------------------------
(* The end.                                                                *)
LEMMA AfterTheEnd ==
  ASSUME IInv, Next, pc = "done"
  PROVE  UNCHANGED <<args, pc, result, written, exit, wstatus, pinned, ran>>
<1>1. Startup \/ Workload
  BY DEF Next, Parent, RejectPolicy, AcceptPolicy, SelectCpus, CannotFork, Fork,
     CloseWriteEnd, SetGroup, ReadReady, ReadFails, StartScan, Visit, Look, PassOver, EndScan,
     StillRunning, Reap, WaitFails
<1>. QED BY <1>1, OthersLeave DEF IInv, ParentInv

(* Nothing was run, or the workload was reaped, or the wait failed.        *)
LEMMA AtTheEnd ==
  ASSUME IInv, Next, pc # "done", pc' = "done"
  PROVE  /\ UNCHANGED <<args, wstatus, pinned, ran>>
         /\ \/ /\ exit' = 1 /\ result'.workload_status \in {"not_started", "unknown"}
               /\ result'.verdict \in {"", "FAILED_BEFORE_WORKLOAD", "DRY_RUN"}
               /\ result'.exit_code = 0
               /\ \/ child = "none"
                  \/ child = "dead" /\ result'.verdict = "FAILED_BEFORE_WORKLOAD"
            \/ /\ child = "none" /\ exit' \in {0, 1} /\ result'.verdict = "DRY_RUN"
               /\ result'.workload_status \in {"not_started", "unknown"}
               /\ result'.exit_code = 0 /\ exit' = IF written' = "failed" THEN 1 ELSE 0
            \/ Reap
<1>0. /\ ParentInv /\ ChildInv /\ result \in ResultType
      /\ ~result.applied /\ result.exit_code = 0 /\ result.dry_run \in BOOLEAN
      /\ result.verdict = "" /\ result.workload_status \in {"not_started", "unknown"}
  BY DEF IInv, TypeOK, ParentInv, ResultType
<1>1. RejectPolicy \/ SelectCpus \/ CannotFork \/ Reap \/ WaitFails
  BY OthersLeave DEF Next, Parent, RejectPolicy, AcceptPolicy, SelectCpus, CannotFork, Fork,
     CloseWriteEnd, SetGroup, ReadReady, ReadFails, StartScan, Visit, Look, PassOver, EndScan,
     StillRunning, Reap, WaitFails
<1>2. UNCHANGED <<args, wstatus, pinned, ran>>
  BY <1>1 DEF RejectPolicy, SelectCpus, CannotFork, Reap, WaitFails, history, processes
<1>3. CASE RejectPolicy
  BY <1>0, <1>2, <1>3 DEF RejectPolicy, ParentInv
<1>4. CASE SelectCpus
  <2>0. child = "none"
    BY <1>0, <1>4 DEF SelectCpus, ParentInv
  <2>1. CASE Fail("policy", "failed") \/ Fail("affinity", "failed")
    BY <1>0, <1>2, <2>0, <2>1, Fails
  <2>2. CASE Publish(result, 0) /\ args.dry_run
    <3>1. result.dry_run
      BY <1>0, <1>4, <2>2 DEF SelectCpus, ParentInv
    <3>2. Verdict(result) = "DRY_RUN"
      BY <1>0, <3>1, VerdictMeans
    <3>. QED BY <1>0, <1>2, <2>0, <2>2, <3>2, Publishes
  <2>. QED BY <1>4, <2>1, <2>2 DEF SelectCpus
<1>5. CASE CannotFork
  <2>1. child = "none" /\ Fail("process", "failed")
    BY <1>0, <1>5 DEF CannotFork, ParentInv
  <2>. QED BY <1>0, <1>2, <2>1, Fails
<1>6. CASE WaitFails
  <2>1. child = "dead" /\ Fail("process", "failed") /\ ~result.dry_run
    BY <1>0, <1>6, ProcTyped DEF WaitFails, ChildInv, ParentInv, Forked
  <2>. QED BY <1>0, <1>2, <2>1, Fails
<1>. QED BY <1>1, <1>2, <1>3, <1>4, <1>5, <1>6

LEMMA EndIsOfWorkload ==
  ASSUME IInv, wstatus = Exited(0)
  PROVE  pinned /\ ran
<1>1. Exited(0) \notin {NotEnded, Exited(126), Exited(127), Signaled}
  BY DEF Exited, NotEnded, Signaled
<1>. QED BY <1>1, ProcTyped DEF IInv, ChildInv

LEMMA StepEarnsVerdict == ASSUME IInv, Next PROVE VerdictIsEarned'
<1>1. CASE pc' # "done"
  <2>1. result'.verdict = ""
    BY <1>1, StepKeepsParent DEF ParentInv
  <2>. QED BY <2>1 DEF VerdictIsEarned
<1>2. CASE pc = "done"
  BY <1>2, AfterTheEnd DEF IInv, VerdictIsEarned
<1>3. CASE pc # "done" /\ pc' = "done" /\ ~Reap
  BY <1>3, AtTheEnd DEF VerdictIsEarned
<1>4. CASE pc # "done" /\ pc' = "done" /\ Reap
  <2>1. UNCHANGED <<args, wstatus, pinned, ran>>
    BY <1>4, AtTheEnd
  <2>2. result'.verdict \in {"CONTROLLED", "CONTROLLED_WITH_WARNINGS"} =>
          pinned /\ ran /\ wstatus = Exited(0)
    BY <1>4, Reaps, EndIsOfWorkload
  <2>3. ASSUME result'.verdict = "CONTROLLED"
        PROVE  /\ result'.escapes = {}
               /\ \A e \in PolicyEvents(args.policy) : e.severity = "info"
    <3>1. /\ ~HasEvent(result', "warning")
          /\ result'.escapes = result.escapes
          /\ result'.events = result.events \cup EndEvents(wstatus) \cup EscapeEvents(result)
      BY <1>4, <2>3, Reaps
    <3>2. result.escapes = {}
      <4>1. Event("warning", "runtime_affinity", "escape_detected").severity = "warning"
        BY DEF Event
      <4>. QED BY <3>1, <4>1 DEF HasEvent, EscapeEvents
    <3>3. PolicyEvents(args.policy) \subseteq result.events
      BY <1>4 DEF IInv, ParentInv, Reap
    <3>4. \A e \in PolicyEvents(args.policy) : e.severity \in {"warning", "info"}
      BY PolicyEventsAreTyped DEF EventType
    <3>. QED BY <3>1, <3>2, <3>3, <3>4 DEF HasEvent
  <2>. QED BY <2>1, <2>2, <2>3 DEF VerdictIsEarned
<1>. QED BY <1>1, <1>2, <1>3, <1>4

LEMMA StepPassesThrough == ASSUME IInv, Next PROVE ExitCodePassesThrough'
<1>1. CASE pc' # "done"
  BY <1>1 DEF ExitCodePassesThrough
<1>2. CASE pc = "done"
  BY <1>2, AfterTheEnd DEF IInv, ExitCodePassesThrough
<1>3. CASE pc # "done" /\ pc' = "done" /\ ~Reap
  <2>1. result'.workload_status \in {"not_started", "unknown"}
    BY <1>3, AtTheEnd
  <2>2. exit' = 1 \/ result'.verdict = "DRY_RUN"
    BY <1>3, AtTheEnd
  <2>. QED BY <2>1, <2>2 DEF ExitCodePassesThrough
<1>4. CASE pc # "done" /\ pc' = "done" /\ Reap
  <2>1. wstatus' = wstatus /\ ran' = ran
    BY <1>4, AtTheEnd
  <2>2. /\ wstatus \in EndedStatus
        /\ exit' = IF written' = "failed" THEN 1 ELSE ExitCode(wstatus)
    BY <1>4, Reaps
  <2>3. exit' = 0 => ran /\ wstatus = Exited(0)
    BY <2>2, EndMeans, EndIsOfWorkload
  <2>. QED BY <2>1, <2>2, <2>3 DEF ExitCodePassesThrough
<1>. QED BY <1>1, <1>2, <1>3, <1>4

----------------------------------------------------------------------------
LEMMA InitHolds == Init => IInv
<1>. SUFFICES ASSUME Init PROVE IInv
  OBVIOUS
<1>. USE VisRunAssumption
<1>1. /\ args \in ArgsType /\ pc = "policy" /\ result = NewResult /\ child = "none"
      /\ wstatus = NotEnded /\ ~pinned /\ ~ran /\ repins = 0 /\ steady = {}
      /\ looking = {} /\ exit = 0 /\ written = "no" /\ writers = {} /\ ~ready
      /\ \A p \in Pids : proc[p] = Absent
  BY DEF Init, ArgsType
<1>2. /\ NewResult.verdict = "" /\ NewResult.exit_code = 0 /\ ~NewResult.applied
      /\ NewResult.workload_status = "unknown" /\ ~HasEvent(NewResult, "error")
      /\ NewResult.escapes = {}
  BY DEF NewResult, HasEvent
<1>3. NewResult \in ResultType
  BY DEF NewResult, ResultType
<1>4. Absent \in [state : {"none", "running", "zombie", "gone"}, inGroup : BOOLEAN,
                  cpus : SUBSET Cpus]
  BY DEF Absent
<1>5. TypeOK
  <2>1. proc \in ProcType
    BY <1>4 DEF Init, ProcType
  <2>2. ready \in BOOLEAN /\ pinned \in BOOLEAN /\ ran \in BOOLEAN
    BY DEF Init
  <2>3. /\ pc = "policy" /\ assigned = {} /\ result = NewResult /\ written = "no" /\ exit = 0
        /\ writers = {} /\ todo = {} /\ looking = {} /\ child = "none" /\ wstatus = NotEnded
        /\ repins = 0 /\ steady = {}
    BY DEF Init
  <2>. QED BY <1>3, <2>1, <2>2, <2>3 DEF TypeOK, ProcType
<1>6. ParentInv
  BY <1>1, <1>2 DEF ParentInv, Forked
<1>7. ChildInv
  BY <1>1 DEF ChildInv, Unpinned, Absent
<1>8. MasksContained /\ Scanning /\ SteadyEscapesAreReported
  BY <1>1 DEF MasksContained, Scanning, SteadyEscapesAreReported
<1>9. Readiness /\ NoFalseEscape
  BY <1>1, <1>2 DEF Readiness, NoFalseEscape
<1>10. VerdictIsEarned /\ ExitCodePassesThrough
  BY <1>1, <1>2 DEF VerdictIsEarned, ExitCodePassesThrough
<1>. QED BY <1>1, <1>5, <1>6, <1>7, <1>8, <1>9, <1>10 DEF IInv

LEMMA NextKeeps == IInv /\ [Next]_vars => IInv'
<1>1. ASSUME IInv, Next PROVE IInv'
  <2>1. args' \in ArgsType
    BY <1>1, ParentLeaves, OthersLeave DEF Next, IInv
  <2>. QED BY <1>1, <2>1, StepTypes, StepKeepsParent, StepKeepsChild, StepKeepsMasks,
              StepKeepsReadiness, StepKeepsScanning, StepKeepsSightings,
              StepKeepsNoFalseEscape, StepEarnsVerdict, StepPassesThrough DEF IInv
<1>2. ASSUME IInv, UNCHANGED vars PROVE IInv'
  <2>1. UNCHANGED <<args, pc, assigned, result, written, exit, writers, ready, todo, looking,
                    child, proc, wstatus, pinned, ran, repins, steady>>
    BY <1>2 DEF vars, parent, pipe, processes, history
  <2>2. args' \in ArgsType /\ TypeOK'
    BY <1>2, <2>1 DEF IInv, TypeOK
  <2>3. ChildInv'
    BY <1>2, <2>1 DEF IInv, ChildInv
  <2>a. /\ Listed' = Listed /\ Usable(Listed)' = Usable(Listed)
        /\ HasEvent(result, "error")' = HasEvent(result, "error")
    BY <2>1 DEF Listed, Usable, HasEvent
  <2>b. ParentInv'
    BY <1>2, <2>1, <2>a DEF IInv, ParentInv
  <2>4. MasksContained' /\ Readiness' /\ NoFalseEscape'
    BY <1>2, <2>1 DEF IInv, MasksContained, Readiness, NoFalseEscape, Exists
  <2>5. Scanning' /\ SteadyEscapesAreReported'
    BY <1>2, <2>1 DEF IInv, Scanning, SteadyEscapesAreReported, Outside, Exists, Sighting
  <2>6. VerdictIsEarned' /\ ExitCodePassesThrough'
    BY <1>2, <2>1 DEF IInv, VerdictIsEarned, ExitCodePassesThrough
  <2>. QED BY <2>2, <2>3, <2>b, <2>4, <2>5, <2>6 DEF IInv
<1>. QED BY <1>1, <1>2

LEMMA Invariance == Spec => []IInv
BY InitHolds, NextKeeps, PTL DEF Spec

(* Every variable keeps its type.                                          *)
THEOREM TypeCorrectness == Spec => []TypeOK
<1>1. IInv => TypeOK
  BY DEF IInv
<1>. QED BY <1>1, Invariance, PTL

(* A mask outside the assignment that a member of the group keeps for a    *)
(* whole scan is reported when that scan ends, for any number of processes *)
(* that come and go (vis_run_observe_process_group).                       *)
THEOREM SteadyEscapesReported == Spec => []SteadyEscapesAreReported
<1>1. IInv => SteadyEscapesAreReported
  BY DEF IInv
<1>. QED BY <1>1, Invariance, PTL

(* Both calls of setpgid: from its own call on, and from the parent's on,  *)
(* the child is in its group until the workload runs.                      *)
Grouped ==
  ~ran /\ Exists(Leader) =>
    /\ child \in {"grouped", "pinned", "ready", "refused", "exec", "leaving", "noexec"} =>
         proc[Leader].inGroup
    /\ pc \in {"read", "scan", "visit", "wait"} => proc[Leader].inGroup

LEMMA StepKeepsGrouped == ASSUME IInv, Grouped, Next PROVE Grouped'
<1>0. /\ Leader \in Pids /\ proc \in ProcType /\ ChildInv /\ ParentInv
  BY VisRunAssumption, ProcTyped DEF IInv
<1>. DEFINE Past == {"grouped", "pinned", "ready", "refused", "exec", "leaving", "noexec"}
            After == {"read", "scan", "visit", "wait"}
<1>1. CASE Fork
  BY <1>0, <1>1 DEF Fork, Grouped, ProcType
<1>2. CASE SetGroup
  BY <1>0, <1>2 DEF SetGroup, Grouped, Exists, ProcType, history
<1>3. CASE Reap
  BY <1>0, <1>3 DEF Reap, Grouped, Exists, ProcType, Absent
<1>4. CASE (Parent \/ ReadFails) /\ ~Fork /\ ~SetGroup /\ ~Reap
  <2>1. UNCHANGED <<child, proc, ran>>
    BY <1>4, ParentLeaves DEF processes
  <2>2. pc' \in After => pc \in After
    BY <1>4 DEF Parent, RejectPolicy, AcceptPolicy, SelectCpus, CannotFork, CloseWriteEnd,
       ReadReady, ReadFails, StartScan, Visit, Look, PassOver, EndScan, StillRunning,
       WaitFails, Fail, Publish
  <2>. QED BY <2>1, <2>2 DEF Grouped, Exists
<1>5. CASE ChildSetGroup
  BY <1>0, <1>5 DEF ChildSetGroup, Grouped, ProcType
<1>6. CASE Startup /\ ~ChildSetGroup
  <2>1. UNCHANGED pc /\ (ran \/ child \in Past) /\ (~ran' => ~ran)
    BY <1>6, <1>0 DEF Startup, ChildSetAffinity, ChildReady, ChildClose, ChildExec, ChildExit,
       End, parent, history, ChildInv
  <2>2. proc[Leader].state = "running"
    BY <1>6, <1>0 DEF Startup, ChildSetAffinity, ChildReady, ChildClose, ChildExec, ChildExit,
       ChildInv
  <2>3. CASE ChildExit
    <3>1. Exists(Leader)' => proc'[Leader].inGroup = proc[Leader].inGroup
      BY <1>0, <2>3 DEF ChildExit, End, Exists, ProcType, Absent
    <3>. QED BY <2>1, <2>2, <3>1 DEF Grouped, Exists
  <2>4. CASE ChildSetAffinity
    <3>1. proc'[Leader].inGroup = proc[Leader].inGroup
      BY <1>0, <2>4 DEF ChildSetAffinity, ProcType
    <3>. QED BY <2>1, <2>2, <3>1 DEF Grouped, Exists
  <2>5. CASE ChildReady \/ ChildClose \/ ChildExec
    <3>1. UNCHANGED proc
      BY <2>5 DEF ChildReady, ChildClose, ChildExec
    <3>. QED BY <2>1, <2>2, <3>1 DEF Grouped, Exists
  <2>. QED BY <1>6, <2>3, <2>4, <2>5 DEF Startup
<1>7. CASE Killed
  <2>1. UNCHANGED <<pc, ran>> /\ child' = "dead" /\ Exists(Leader)
    BY <1>7 DEF Killed, End, Exists, parent
  <2>2. Exists(Leader)' => proc'[Leader].inGroup = proc[Leader].inGroup
    BY <1>7, <1>0 DEF Killed, End, Exists, ProcType, Absent
  <2>. QED BY <2>1, <2>2 DEF Grouped
<1>8. CASE Workload /\ ~Killed
  BY <1>8 DEF Workload, WorkloadExits, DescendantEnds, Leave, Spawn, Repin, Change, Runs,
     Grouped
<1>. QED BY <1>1, <1>2, <1>3, <1>4, <1>5, <1>6, <1>7, <1>8 DEF Next, Parent

(* Whichever of the two is late, the observer finds the child in its group *)
(* when it looks before the exec, and the workload begins there (the two   *)
(* calls of setpgid in main).                                              *)
THEOREM LeaderFoundInItsGroup == Spec => []LeaderIsInItsGroup
<1>1. Init => Grouped
  BY DEF Init, Grouped
<1>2. IInv /\ Grouped /\ [Next]_vars => Grouped'
  <2>1. ASSUME Grouped, UNCHANGED vars PROVE Grouped'
    BY <2>1 DEF vars, parent, processes, history, Grouped, Exists
  <2>. QED BY <2>1, StepKeepsGrouped
<1>3. Grouped => LeaderIsInItsGroup
  BY DEF Grouped, LeaderIsInItsGroup
<1>. QED BY <1>1, <1>2, <1>3, Invariance, PTL DEF Spec

(* Until somebody repins it, nothing of the workload may run outside the   *)
(* assignment or on a contaminated CPU (main's child branch,               *)
(* vis_run_select_cpus).                                                   *)
THEOREM WorkloadContained == Spec => []WorkloadIsContained
<1>1. IInv => WorkloadIsContained
  <2>. SUFFICES ASSUME IInv, ran, repins = 0, NEW p \in Pids, Exists(p)
                PROVE  /\ proc[p].cpus # {}
                       /\ proc[p].cpus \subseteq assigned \ args.policy.contaminated
    BY DEF WorkloadIsContained
  <2>1. pinned /\ child # "none"
    BY DEF IInv, ChildInv
  <2>2. proc[p].cpus # {} /\ proc[p].cpus \subseteq assigned
    BY <2>1 DEF IInv, MasksContained
  <2>3. assigned = Listed /\ Usable(Listed)
    BY <2>1 DEF IInv, ParentInv
  <2>4. Listed \cap args.policy.contaminated = {}
    BY <2>3 DEF Usable, Selectable, Listed
  <2>. QED BY <2>2, <2>3, <2>4
<1>. QED BY <1>1, Invariance, PTL

(* No escape is reported of a workload that was pinned and never repinned, *)
(* unless the readiness byte could not be read and the attestation says so *)
(* (the readiness pipe of main).                                           *)
THEOREM NoFalseEscapes == Spec => []NoFalseEscape
<1>1. IInv => NoFalseEscape
  BY DEF IInv
<1>. QED BY <1>1, Invariance, PTL

(* CONTROLLED is said only of a workload that ran under the policy and     *)
(* ended with 0, and without warnings only when there was nothing to warn  *)
(* of (vis_run_result_verdict, main).                                      *)
THEOREM VerdictsEarned == Spec => []VerdictIsEarned
<1>1. IInv => VerdictIsEarned
  BY DEF IInv
<1>. QED BY <1>1, Invariance, PTL

(* vis-run ends with 0 only for a dry run or a workload that ended with 0, *)
(* and with the code of the workload that it reaped and attested (main).   *)
THEOREM ExitCodesPassThrough == Spec => []ExitCodePassesThrough
<1>1. IInv => ExitCodePassesThrough
  BY DEF IInv
<1>. QED BY <1>1, Invariance, PTL

----------------------------------------------------------------------------
(* The contract.  What it speaks of, in terms of vis-run.                  *)
Stage ==
  IF pc = "done" THEN "reported" ELSE IF wstatus # NotEnded THEN "over"
  ELSE IF ran THEN "running" ELSE "pending"
Allowed == ListedCpus(args.policy, args.source) \ args.policy.contaminated
Mask == IF ran /\ wstatus = NotEnded THEN proc[Leader].cpus ELSE {}
ReportNow == [exit |-> exit, file |-> written, exit_code |-> result.exit_code,
              verdict |-> result.verdict]
View == <<Stage, Allowed, Mask, wstatus, ReportNow>>

LEMMA SameOperators ==
  /\ Contract!NotEnded = NotEnded /\ Contract!Signaled = Signaled
  /\ \A c : Contract!Exited(c) = Exited(c)
  /\ \A s : Contract!ExitCode(s) = ExitCode(s)
  /\ Contract!Ended = EndedStatus
BY DEF Contract!NotEnded, NotEnded, Contract!Signaled, Signaled, Contract!Exited, Exited,
       Contract!ExitCode, ExitCode, Contract!Ended, EndedStatus

LEMMA Stutters == UNCHANGED View => UNCHANGED Contract!vars
BY DEF View, Contract!vars, Stage, Allowed, Mask, ReportNow

(* When the contract may report, and what.                                 *)
LEMMA ReportsAre ==
  ASSUME NEW code, NEW attested, NEW verdicts,
         pc' = "done", Mask' = {}, UNCHANGED <<Allowed, wstatus>>,
         written' \in {"no", "yes", "failed"},
         exit' = (IF written' = "failed" THEN 1 ELSE code),
         result'.exit_code = attested, result'.verdict \in verdicts
  PROVE  Contract!Reports(code, attested, verdicts)
<1>1. Stage' = "reported"
  BY DEF Stage
<1>2. \E file \in {"no", "yes", "failed"}, verdict \in verdicts :
        ReportNow' = [exit |-> IF file = "failed" THEN 1 ELSE code, file |-> file,
                      exit_code |-> attested, verdict |-> verdict]
  BY DEF ReportNow
<1>. QED BY <1>1, <1>2 DEF Contract!Reports, Stage, Allowed, Mask, ReportNow

(* What is true of the view of a run that is not reported.                 *)
LEMMA Unreported ==
  ASSUME IInv, pc # "done"
  PROVE  /\ ReportNow = [exit |-> 0, file |-> "no", exit_code |-> 0, verdict |-> ""]
         /\ Stage = "over" <=> child = "dead"
         /\ Stage = "running" <=> child = "workload"
         /\ Stage = "pending" <=> child \notin {"workload", "dead"}
         /\ Stage # "running" => Mask = {}
         /\ Stage = "running" => Mask = proc[Leader].cpus
<1>1. /\ ParentInv /\ ChildInv /\ ran \in BOOLEAN
  BY ProcTyped DEF IInv
<1>2. ReportNow = [exit |-> 0, file |-> "no", exit_code |-> 0, verdict |-> ""]
  BY <1>1 DEF ReportNow, ParentInv
<1>3. /\ wstatus # NotEnded <=> child = "dead"
      /\ child # "dead" => (ran <=> child = "workload")
  BY <1>1 DEF ChildInv
<1>. QED BY <1>1, <1>2, <1>3 DEF Stage, Mask

LEMMA RefinesReap ==
  ASSUME IInv, IInv', Reap
  PROVE  Contract!Report
<1>1. /\ child = "dead" /\ wstatus \in EndedStatus /\ pc' = "done"
      /\ written' \in {"no", "yes", "failed"}
      /\ exit' = IF written' = "failed" THEN 1 ELSE ExitCode(wstatus)
      /\ result'.exit_code = ExitCode(wstatus)
      /\ result'.verdict =
           IF wstatus = Exited(126) THEN "FAILED_BEFORE_WORKLOAD"
           ELSE IF wstatus # Exited(0) THEN "WORKLOAD_FAILED"
           ELSE IF HasEvent(result', "warning") THEN "CONTROLLED_WITH_WARNINGS"
           ELSE "CONTROLLED"
  BY Reaps
<1>2. Stage = "over" /\ wstatus # NotEnded
  BY <1>1, Unreported, EndMeans DEF Reap
<1>3. UNCHANGED <<Allowed, wstatus>> /\ Mask' = {}
  BY <1>2 DEF Reap, Allowed, Mask
<1>4. result'.verdict \in Contract!VerdictsOf(wstatus)
  <2>1. Exited(0) # Exited(126)
    BY DEF Exited
  <2>2. CASE wstatus = Exited(126)
    BY <1>1, <2>1, <2>2, SameOperators DEF Contract!VerdictsOf
  <2>3. CASE wstatus = Exited(0)
    BY <1>1, <2>1, <2>3, SameOperators DEF Contract!VerdictsOf
  <2>4. CASE wstatus \notin {Exited(0), Exited(126)}
    BY <1>1, <2>4, SameOperators DEF Contract!VerdictsOf
  <2>. QED BY <2>2, <2>3, <2>4
<1>5. Contract!Reports(ExitCode(wstatus), ExitCode(wstatus), Contract!VerdictsOf(wstatus))
  BY <1>1, <1>3, <1>4, ReportsAre
<1>. QED BY <1>2, <1>5, SameOperators DEF Contract!Report, Stage

LEMMA RefinesEnd ==
  ASSUME IInv, NEW s \in EndedStatus, child' = "dead", wstatus' = s, child # "dead",
         ran \/ s \in {Exited(126), Exited(127), Signaled},
         UNCHANGED <<args, parent, ran>>, pc # "done"
  PROVE  Contract!End
<1>1. /\ Stage \in {"running", "pending"} /\ (Stage = "running" <=> ran)
  BY ProcTyped DEF Stage, IInv, ChildInv
<1>2. s # NotEnded
  BY EndMeans
<1>3. Stage' = "over" /\ Mask' = {} /\ UNCHANGED <<Allowed, ReportNow>>
  BY <1>2 DEF Stage, Mask, Allowed, ReportNow, parent
<1>4. \/ Stage = "running" /\ wstatus' \in Contract!Ended
      \/ Stage = "pending" /\ wstatus' \in {Contract!Exited(126), Contract!Exited(127),
                                            Contract!Signaled}
  BY <1>1, SameOperators
<1>. QED BY <1>3, <1>4 DEF Contract!End, Stage, Mask, Allowed, ReportNow

(* Whatever vis-run does before its end, the contract does not speak of it. *)
LEMMA ParentStutters ==
  ASSUME IInv, IInv', Parent \/ ReadFails, pc # "done", pc' # "done"
  PROVE  UNCHANGED View
<1>0. ChildInv /\ ChildInv' /\ ParentInv /\ ParentInv' /\ proc \in ProcType /\ Leader \in Pids
  BY ProcTyped DEF IInv
<1>1. UNCHANGED <<args, ran, wstatus>>
  BY ParentLeaves DEF Fork
<1>2. UNCHANGED ReportNow
  BY <1>0 DEF ReportNow, ParentInv
<1>3. UNCHANGED <<Stage, Allowed>>
  BY <1>1 DEF Stage, Allowed
<1>4. UNCHANGED Mask
  <2>1. CASE Fork
    <3>1. ~ran
      BY <1>0, <2>1 DEF Fork, ParentInv, ChildInv
    <3>. QED BY <1>1, <3>1 DEF Mask
  <2>2. CASE SetGroup
    <3>1. proc'[Leader].cpus = proc[Leader].cpus
      BY <1>0, <2>2 DEF SetGroup, ProcType
    <3>. QED BY <1>1, <3>1 DEF Mask
  <2>3. CASE UNCHANGED processes
    BY <1>1, <2>3 DEF Mask, processes
  <2>4. ~Reap
    BY DEF Reap, Publish
  <2>. QED BY <2>1, <2>2, <2>3, <2>4, ParentLeaves
<1>. QED BY <1>1, <1>2, <1>3, <1>4 DEF View

(* The child and the workload, step by step: the exec begins the workload, *)
(* every end ends it, a repin of the leader is the contract's.             *)
LEMMA OthersRefine ==
  ASSUME IInv, IInv', Startup \/ Workload, pc # "done"
  PROVE  Contract!Next \/ UNCHANGED View
<1>0. /\ ChildInv /\ ParentInv /\ MasksContained /\ proc \in ProcType /\ Leader \in Pids
      /\ repins \in Nat /\ ran \in BOOLEAN
  BY ProcTyped DEF IInv
<1>a. UNCHANGED <<args, pc, assigned, result, written, exit, todo, looking>>
  BY OthersLeave
<1>b. UNCHANGED <<Allowed, ReportNow>> /\ pc' # "done"
  BY <1>a DEF Allowed, ReportNow
<1>c. ASSUME UNCHANGED <<ran, wstatus>>, ran => proc'[Leader].cpus = proc[Leader].cpus
      PROVE  UNCHANGED View
  BY <1>a, <1>b, <1>c DEF View, Stage, Mask
<1>d. ASSUME NEW p \in Pids, NEW q, Change(p, q), p = Leader => q.cpus = proc[Leader].cpus
      PROVE  UNCHANGED View
  <2>1. proc'[Leader].cpus = proc[Leader].cpus /\ UNCHANGED <<ran, wstatus>>
    BY <1>0, <1>d DEF Change, ProcType
  <2>. QED BY <1>c, <2>1
<1>e. /\ \A c \in Codes : Exited(c) \in EndedStatus
      /\ Exited(126) \in EndedStatus /\ Exited(127) \in EndedStatus
      /\ Signaled \in EndedStatus
  BY VisRunAssumption DEF EndedStatus
<1>f. ASSUME NEW s \in EndedStatus, End(s), child # "dead",
             ran \/ s \in {Exited(126), Exited(127), Signaled},
             UNCHANGED <<args, parent, pinned, ran, repins>>
      PROVE  Contract!Next
  BY <1>f, RefinesEnd DEF End, Contract!Next
<1>1. CASE ChildSetGroup \/ ChildSetAffinity \/ ChildReady \/ ChildClose
  <2>1. UNCHANGED <<ran, wstatus>>
    BY <1>1 DEF ChildSetGroup, ChildSetAffinity, ChildReady, ChildClose, history
  <2>2. ~ran
    BY <1>0, <1>1 DEF ChildSetGroup, ChildSetAffinity, ChildReady, ChildClose, ChildInv
  <2>. QED BY <1>c, <2>1, <2>2
<1>2. CASE ChildExec
  <2>1. /\ child = "exec" /\ UNCHANGED <<proc, wstatus, pinned, repins>>
        /\ \/ child' = "workload" /\ ran' = TRUE
           \/ child' = "noexec" /\ UNCHANGED ran
    BY <1>2 DEF ChildExec
  <2>2. CASE child' = "workload" /\ ran' = TRUE
    <3>1. /\ pinned /\ ~ran /\ repins = 0 /\ Exists(Leader) /\ wstatus = NotEnded
      BY <1>0, <2>1 DEF ChildInv, Unpinned, Exists
    <3>2. Stage = "pending" /\ Stage' = "running" /\ Mask' = proc[Leader].cpus
      BY <1>b, <2>1, <2>2, <3>1 DEF Stage, Mask
    <3>3. proc[Leader].cpus # {} /\ proc[Leader].cpus \subseteq assigned
      BY <1>0, <3>1 DEF MasksContained
    <3>4. assigned = Listed /\ Listed \cap args.policy.contaminated = {}
      BY <1>0, <2>1 DEF ParentInv, Usable, Selectable, Listed
    <3>5. Mask' \in (SUBSET Allowed) \ {{}}
      BY <3>2, <3>3, <3>4 DEF Allowed, Listed
    <3>6. Contract!Begin
      BY <1>b, <2>1, <3>2, <3>5 DEF Contract!Begin, Stage, Mask, Allowed, ReportNow
    <3>. QED BY <3>6 DEF Contract!Next
  <2>3. CASE child' = "noexec" /\ UNCHANGED ran
    BY <1>c, <2>1, <2>3
  <2>. QED BY <2>1, <2>2, <2>3
<1>3. CASE ChildExit
  BY <1>3, <1>e, <1>f DEF ChildExit
<1>4. CASE Killed
  <2>1. child # "dead"
    BY <1>0, <1>4 DEF Killed, ChildInv
  <2>. QED BY <1>4, <1>e, <1>f, <2>1 DEF Killed
<1>5. ASSUME NEW code \in Codes, WorkloadExits(code) PROVE Contract!Next
  <2>1. child # "dead" /\ ran
    BY <1>0, <1>5 DEF WorkloadExits, Runs, ChildInv
  <2>. QED BY <1>5, <1>e, <1>f, <2>1 DEF WorkloadExits
<1>6. ASSUME NEW p \in Pids, DescendantEnds(p) PROVE UNCHANGED View
  BY <1>6, <1>d DEF DescendantEnds
<1>7. ASSUME NEW p \in Pids, Leave(p) PROVE UNCHANGED View
  <2>1. [proc[p] EXCEPT !.inGroup = FALSE].cpus = proc[p].cpus
    BY <1>0 DEF ProcType
  <2>. QED BY <1>7, <1>d, <2>1 DEF Leave
<1>8. ASSUME NEW p \in Pids, NEW q \in Pids, Spawn(p, q) PROVE UNCHANGED View
  <2>1. q # Leader
    BY <1>0, <1>8 DEF Spawn, Runs, ChildInv
  <2>. QED BY <1>8, <1>d, <2>1 DEF Spawn
<1>9. ASSUME NEW p \in Pids, NEW cpus \in SUBSET Online, Repin(p, cpus)
      PROVE  Contract!Next \/ UNCHANGED View
  <2>1. CASE p # Leader
    BY <1>9, <1>d, <2>1 DEF Repin
  <2>2. CASE p = Leader
    <3>1. /\ ran /\ ran' = ran /\ wstatus' = wstatus /\ wstatus = NotEnded
          /\ proc'[Leader].cpus = cpus
      BY <1>0, <1>9, <2>2 DEF Repin, Runs, Change, ChildInv, ProcType
    <3>2. Stage = "running" /\ Stage' = "running" /\ Mask' = cpus
      BY <1>b, <3>1 DEF Stage, Mask
    <3>3. cpus \in SUBSET Cpus
      BY VisRunAssumption
    <3>4. Contract!Repinned
      BY <1>b, <3>1, <3>2, <3>3 DEF Contract!Repinned, Stage, Mask, Allowed, ReportNow
    <3>. QED BY <3>4 DEF Contract!Next
  <2>. QED BY <2>1, <2>2
<1>10. Startup => Contract!Next \/ UNCHANGED View
  BY <1>1, <1>2, <1>3 DEF Startup
<1>11. Workload => Contract!Next \/ UNCHANGED View
  BY <1>4, <1>5, <1>6, <1>7, <1>8, <1>9 DEF Workload
<1>. QED BY <1>10, <1>11

(* The reports of what never ran, and of what could not be reaped.         *)
LEMMA RefinesOtherEnds ==
  ASSUME IInv, IInv', Next, pc # "done", pc' = "done", ~Reap
  PROVE  Contract!Next
<1>0. /\ ChildInv /\ written' \in {"no", "yes", "failed"} /\ ran \in BOOLEAN
  BY DEF IInv, TypeOK
<1>1. UNCHANGED <<args, wstatus, ran>> /\ result'.exit_code = 0 /\ child \in {"none", "dead"}
  BY AtTheEnd
<1>2. UNCHANGED <<Allowed, wstatus>> /\ Mask' = {}
  BY <1>0, <1>1 DEF Allowed, Mask, ChildInv, Unpinned
<1>3. child = "none" => Stage = "pending"
  BY Unreported
<1>4. child = "dead" => Stage = "over"
  BY Unreported
<1>5. CASE exit' = 1 /\ child = "none"
           /\ result'.verdict \in {"", "FAILED_BEFORE_WORKLOAD", "DRY_RUN"}
  <2>1. Contract!Reports(1, 0, {"", "FAILED_BEFORE_WORKLOAD", "DRY_RUN"})
    BY <1>0, <1>1, <1>2, <1>5, ReportsAre
  <2>. QED BY <1>3, <1>5, <2>1 DEF Contract!Refuse, Contract!Next, Stage
<1>6. CASE exit' = 1 /\ child = "dead" /\ result'.verdict = "FAILED_BEFORE_WORKLOAD"
  <2>1. Contract!Reports(1, 0, {"FAILED_BEFORE_WORKLOAD"})
    BY <1>0, <1>1, <1>2, <1>6, ReportsAre
  <2>. QED BY <1>4, <1>6, <2>1 DEF Contract!ReportLost, Contract!Next, Stage
<1>7. CASE /\ child = "none" /\ result'.verdict = "DRY_RUN"
           /\ exit' = IF written' = "failed" THEN 1 ELSE 0
  <2>1. Contract!Reports(0, 0, {"DRY_RUN"})
    BY <1>0, <1>1, <1>2, <1>7, ReportsAre
  <2>. QED BY <1>3, <1>7, <2>1 DEF Contract!DryRun, Contract!Next, Stage
<1>. QED BY <1>5, <1>6, <1>7, AtTheEnd

LEMMA RefinesInit == Init => Contract!Init
<1>. SUFFICES ASSUME Init PROVE Contract!Init
  OBVIOUS
<1>1. IInv /\ pc = "policy" /\ child = "none" /\ wstatus = NotEnded
  BY InitHolds DEF Init
<1>2. Stage = "pending" /\ Mask = {}
      /\ ReportNow = [exit |-> 0, file |-> "no", exit_code |-> 0, verdict |-> ""]
  BY <1>1, Unreported
<1>3. Allowed \in SUBSET Cpus
  BY <1>1, ListsAreCpus DEF Allowed, Listed, IInv
<1>. QED BY <1>1, <1>2, <1>3, SameOperators
     DEF Contract!Init, Contract!NotReported, Stage, Mask, Allowed, ReportNow

LEMMA RefinesNext == IInv /\ IInv' /\ [Next]_vars => [Contract!Next]_(Contract!vars)
<1>1. ASSUME IInv, IInv', Next PROVE Contract!Next \/ UNCHANGED View
  <2>1. CASE pc = "done"
    <3>1. UNCHANGED <<args, pc, result, written, exit, wstatus, ran>>
      BY <1>1, <2>1, AfterTheEnd
    <3>2. ran => wstatus # NotEnded
      BY <1>1, <2>1, ProcTyped DEF IInv, ParentInv, ChildInv
    <3>. QED BY <3>1, <3>2 DEF View, Stage, Allowed, Mask, ReportNow
  <2>2. CASE pc # "done" /\ pc' = "done"
    <3>1. CASE Reap
      BY <1>1, <3>1, RefinesReap DEF Contract!Next
    <3>2. CASE ~Reap
      BY <1>1, <2>2, <3>2, RefinesOtherEnds
    <3>. QED BY <3>1, <3>2
  <2>3. CASE pc # "done" /\ pc' # "done"
    BY <1>1, <2>3, ParentStutters, OthersRefine DEF Next
  <2>. QED BY <2>1, <2>2, <2>3
<1>2. ASSUME UNCHANGED vars PROVE UNCHANGED View
  BY <1>2 DEF vars, parent, pipe, processes, history, View, Stage, Allowed, Mask, ReportNow
<1>. QED BY <1>1, <1>2, Stutters

(* vis-run keeps its contract with whoever starts it: every behaviour of   *)
(* vis-run, its child and its workload is one of RunContract (main, all of *)
(* its returns).                                                           *)
THEOREM KeepsContract == Spec => ImplementsContract
BY RefinesInit, RefinesNext, Invariance, PTL DEF Spec, ImplementsContract, Contract!Spec
=============================================================================
