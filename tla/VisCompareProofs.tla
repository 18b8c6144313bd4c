-------------------------- MODULE VisCompareProofs --------------------------
(***************************************************************************)
(* The safety properties of vis-compare, for any number of invocations,    *)
(* any output of the workload, any size of the pipe, and every way in      *)
(* which vis-run may end or outlive it.                                    *)
(***************************************************************************)
EXTENDS VisCompare, SequenceTheorems, TLAPS

(* The profile s has its result.                                           *)
Has(s) == pc = "report" \/ (s = "primary" /\ source = "secondary")

Steps == {"launch", "close", "read", "wait", "collect"}
Begun == {"close", "read", "wait", "collect"}

(* Where vis-compare is, and what it holds.                                *)
Control ==
  /\ pc # "idle" => invocation \in 1 .. MaxRuns
  /\ pc = "idle" => source = "primary"
  /\ pc = "report" => source = "secondary"
  /\ pc = "collect" => proc[Current] = "gone"
  /\ ended \in [Sources -> Outcomes \cup {NoOutcome}]
  /\ attestation \in [Sources -> [kind : {"none", "torn", "whole"},
                                  run : Runs \cup {NoRun}, exit_code : 0 .. 255,
                                  escapes : Nat]]
  /\ shown \in [Sources -> SUBSET Nat]

(* What is active is the run that vis-compare is at, or was left by it.    *)
OneAtATime ==
  \A r \in Runs : Active(r) => r \in orphans \/ (r = Current /\ pc \in {"close", "read"})

(* A chunk that was printed is captured or in the pipe.                    *)
NothingLost ==
  /\ printed = captured + pipe
  /\ pc \notin Begun => printed = 0 /\ captured = 0 /\ pipe = 0
  /\ pc \in {"wait", "collect"} => pipe = 0 /\ ~Active(Current)

(* Once vis-run has ended, the attestation is its own, if it left one, or  *)
(* of an orphan.                                                           *)
AttestationIsCurrent ==
  pc \in Begun /\ proc[Current] # "running" =>
    /\ ended[source] \in Outcomes
    /\ \/ ended[source].attested = "none"
       \/ attestation[source].run \in orphans
       \/ attestation[source].escapes = ended[source].escapes

(* What is known of a result.                                              *)
ResultIsEarned(s) ==
  results[s].exit_code = 0 /\ results[s].escapes = 0 =>
    \/ results[s].evidence \in orphans
    \/ /\ proc[<<invocation, s>>] = "gone"
       /\ ended[s].status = [signaled |-> FALSE, n |-> 0]
       /\ ended[s].escapes = 0

MetricIsShown(s) ==
  results[s].metric = IF results[s].started THEN shown[s] ELSE {}

ResultsAreEarned ==
  \A s \in Sources : Has(s) => ResultIsEarned(s) /\ MetricIsShown(s)

(* The metric of what was printed so far.                                  *)
ShownIsPrinted ==
  /\ pc \in Steps => shown[source] = Metric(SubSeq(Output[Current], 1, printed))
  /\ source = "primary" => shown["secondary"] = {}
  /\ pc = "idle" => shown["primary"] = {}

IInv ==
  /\ TypeOK
  /\ Control
  /\ OneAtATime
  /\ NothingLost
  /\ AttestationIsCurrent
  /\ ResultsAreEarned
  /\ ShownIsPrinted

----------------------------------------------------------------------------
(* Results and metrics are well formed.                                    *)
LEMMA MetricIsTyped ==
  ASSUME NEW s \in Seq(Chunk)
  PROVE  Metric(s) \in SUBSET Nat
<1>. SUFFICES ASSUME NEW i \in DOMAIN s PROVE s[i].n \in Nat
  BY DEF Metric
<1>1. s[i] \in Chunk
  BY ElementOfSeq
<1>. QED BY <1>1 DEF Chunk

LEMMA MetricOfNothing ==
  ASSUME NEW s \in Seq(Chunk)
  PROVE  Metric(SubSeq(s, 1, 0)) = {}
<1>1. SubSeq(s, 1, 0) = << >>
  OBVIOUS
<1>2. Metric(<< >>) = {}
  BY DEF Metric
<1>. QED BY <1>1, <1>2

LEMMA ShownIsTyped ==
  ASSUME NEW r \in Runs, NEW n \in 0 .. Len(Output[r])
  PROVE  Metric(SubSeq(Output[r], 1, n)) \in SUBSET Nat
<1>1. Output[r] \in Seq(Chunk)
  BY VisCompareAssumption
<1>2. SubSeq(Output[r], 1, n) \in Seq(Chunk)
  BY <1>1
<1>. QED BY <1>2, MetricIsTyped

LEMMA CurrentIsRun ==
  ASSUME IInv
  PROVE  /\ pc # "idle" => Current \in Runs
         /\ pc # "idle" => \A s \in Sources : <<invocation, s>> \in Runs
         /\ \A r \in Runs : r[1] \in 1 .. MaxRuns /\ r[2] \in Sources /\ r = <<r[1], r[2]>>
BY DEF IInv, TypeOK, Control, Current, Runs

LEMMA ExitCodesAreTyped ==
  ASSUME NEW o \in Outcomes \cup {NoOutcome}
  PROVE  /\ CommandExitCode(o.status) \in 0 .. 255
         /\ CommandExitCode(o.status) = 0 <=> o.status = [signaled |-> FALSE, n |-> 0]
         /\ o.escapes \in Nat
<1>1. o.status \in WaitStatus /\ o.escapes \in Nat
  <2>1. CASE o \in Outcomes
    BY <2>1, VisCompareAssumption DEF OutcomeType
  <2>2. CASE o = NoOutcome
    <3>1. [signaled |-> FALSE, n |-> 0] \in WaitStatus
      BY DEF WaitStatus
    <3>. QED BY <2>2, <3>1 DEF NoOutcome
  <2>. QED BY <2>1, <2>2
<1>2. CASE o.status \in [signaled : {FALSE}, n : 0 .. 255]
  <2>1. ~o.status.signaled
    BY <1>2, Zenon
  <2>2. o.status.n \in 0 .. 255 /\ o.status = [signaled |-> FALSE, n |-> o.status.n]
    BY <1>2
  <2>3. CommandExitCode(o.status) = o.status.n
    BY <2>1 DEF CommandExitCode
  <2>4. o.status.n = 0 => o.status = [signaled |-> FALSE, n |-> 0]
    BY <2>2, Zenon
  <2>5. o.status = [signaled |-> FALSE, n |-> 0] => o.status.n = 0
    <3>1. [signaled |-> FALSE, n |-> 0].n = 0
      OBVIOUS
    <3>. QED BY <3>1, Zenon
  <2>. QED BY <1>1, <2>2, <2>3, <2>4, <2>5
<1>3. CASE o.status \in [signaled : {TRUE}, n : 1 .. 127]
  <2>1. o.status.signaled
    BY <1>3, Zenon
  <2>2. o.status.n \in 1 .. 127 /\ o.status # [signaled |-> FALSE, n |-> 0]
    <3>1. o.status.n \in 1 .. 127
      BY <1>3
    <3>2. [signaled |-> FALSE, n |-> 0].n = 0
      OBVIOUS
    <3>. QED BY <3>1, <3>2
  <2>3. CommandExitCode(o.status) = 128 + o.status.n
    BY <2>1 DEF CommandExitCode
  <2>. QED BY <1>1, <2>2, <2>3
<1>. QED BY <1>1, <1>2, <1>3 DEF WaitStatus

(* The four ways in which a profile gets its result.                       *)
Finishes == CannotLaunch \/ ReadFails \/ WaitFails \/ Collect
IsFailed(r) == r.exit_code = 127 /\ r.metric = {} /\ ~r.started

LEMMA FailedIsResult ==
  ASSUME NEW g \in Nat
  PROVE  Failed(g) \in ResultType /\ IsFailed(Failed(g))
<1>. DEFINE half == [NoResult EXCEPT !.exit_code = 127]
<1>1. /\ NoResult \in ResultType
      /\ NoResult.metric = {} /\ NoResult.started = FALSE
  BY DEF NoResult, ResultType
<1>. HIDE DEF NoResult
<1>2. 127 \in 0 .. 255
  OBVIOUS
<1>3. half \in ResultType
  BY <1>1, <1>2 DEF ResultType
<1>4. half.metric = {} /\ half.started = FALSE /\ half.exit_code = 127
  BY <1>1 DEF ResultType
<1>5. Failed(g) = [half EXCEPT !.escapes = g]
  BY DEF Failed
<1>. HIDE DEF half
<1>6. Failed(g) \in ResultType
  BY <1>3, <1>5 DEF ResultType
<1>7. /\ Failed(g).metric = {} /\ Failed(g).started = FALSE
      /\ Failed(g).exit_code = 127
  BY <1>3, <1>4, <1>5 DEF ResultType
<1>. QED BY <1>6, <1>7 DEF IsFailed

LEMMA ProfileIsResult ==
  ASSUME IInv, pc = "collect"
  PROVE  ProfileResult(attestation[source], ended[source].status) \in ResultType
<1>1. /\ attestation[source].run \in Runs \cup {NoRun}
      /\ attestation[source].escapes \in Nat
      /\ ended[source] \in Outcomes \cup {NoOutcome}
  BY DEF IInv, Control, TypeOK
<1>2. CommandExitCode(ended[source].status) \in 0 .. 255
  BY <1>1, ExitCodesAreTyped
<1>3. captured = printed /\ shown[source] = Metric(SubSeq(Output[Current], 1, printed))
  BY DEF IInv, NothingLost, TypeOK, ShownIsPrinted, Steps
<1>4. CapturedMetric \in SUBSET Nat
  BY <1>3 DEF CapturedMetric, IInv, Control, TypeOK
<1>. QED BY <1>1, <1>2, <1>4 DEF ProfileResult, ResultType

LEMMA FinishEffect ==
  ASSUME IInv, Finishes
  PROVE  /\ \E r \in ResultType :
              /\ Finish(r)
              /\ \/ IsFailed(r)
                 \/ /\ Collect
                    /\ r = ProfileResult(attestation[source], ended[source].status)
         /\ pc \in Steps
         /\ UNCHANGED <<left, ended, attestation, shown>> /\ orphans \subseteq orphans'
         /\ proc' = proc \/ proc' = [proc EXCEPT ![Current] = "gone"]
         /\ pc # "close" /\ (pc = "read" /\ Active(Current) => Current \in orphans')
<1>1. Garbage \subseteq Nat
  BY VisCompareAssumption
<1>2. CASE CannotLaunch
  BY <1>1, <1>2, FailedIsResult DEF CannotLaunch, world, history, Steps
<1>3. CASE ReadFails
  BY <1>1, <1>3, FailedIsResult DEF ReadFails, world, Abandon, Steps
<1>4. CASE WaitFails
  BY <1>1, <1>4, FailedIsResult DEF WaitFails, history, Steps
<1>5. CASE Collect
  <2>1. /\ pc = "collect" /\ UNCHANGED <<world, history>>
        /\ \/ \E g \in Garbage : Finish(Failed(g))
           \/ Finish(Failed(0))
           \/ Finish(ProfileResult(attestation[source], ended[source].status))
    BY <1>5 DEF Collect
  <2>2. \E r \in ResultType :
              /\ Finish(r)
              /\ \/ IsFailed(r)
                 \/ /\ Collect
                    /\ r = ProfileResult(attestation[source], ended[source].status)
    BY <1>1, <1>5, <2>1, FailedIsResult, ProfileIsResult
  <2>. QED BY <2>1, <2>2 DEF world, history, Steps
<1>. QED BY <1>2, <1>3, <1>4, <1>5 DEF Finishes

(* vis-compare ends: whatever still runs is an orphan from then on.        *)
Exits == Report \/ Killed

LEMMA ExitEffect ==
  ASSUME IInv, Exits
  PROVE  /\ \E code \in {0, 1, 137} : Exit(code)
         /\ pc # "idle" /\ orphans \subseteq orphans'
         /\ orphans' \subseteq orphans \cup {Current}
         /\ pc # "report" /\ Active(Current) => Current \in orphans'
<1>1. CASE Report
  BY <1>1 DEF Report
<1>2. CASE Killed
  BY <1>2 DEF Killed, Abandon
<1>. QED BY <1>1, <1>2 DEF Exits

LEMMA NextCases ==
  ASSUME Next
  PROVE  \/ Start \/ Launch \/ CloseWriteEnd \/ Read \/ Eof \/ Wait
         \/ Finishes \/ Exits \/ Prints
         \/ \E r \in Runs : VisRunEnds(r) \/ WorkloadEnds(r)
BY DEF Next, Compare, Finishes, Exits

----------------------------------------------------------------------------
(* Each action keeps the types.                                            *)
LEMMA StraightLineKeepsTypes ==
  ASSUME IInv, Start \/ Launch \/ CloseWriteEnd \/ Read \/ Eof \/ Wait \/ Prints
  PROVE  TypeOK'
<1>. USE VisCompareAssumption DEF IInv, TypeOK
<1>1. CASE Start
  BY <1>1 DEF Start, world, history
<1>2. CASE Launch
  BY <1>2 DEF Launch, history
<1>3. CASE CloseWriteEnd
  BY <1>3 DEF CloseWriteEnd, world, history
<1>4. CASE Read
  BY <1>4 DEF Read, world, history
<1>5. CASE Eof
  BY <1>5 DEF Eof, local, world, history
<1>6. CASE Wait
  BY <1>6 DEF Wait, local, history
<1>7. CASE Prints
  BY <1>7 DEF Prints, local, world
<1>. QED BY <1>1, <1>2, <1>3, <1>4, <1>5, <1>6, <1>7

LEMMA FinishKeepsTypes ==
  ASSUME IInv, Finishes
  PROVE  TypeOK'
<1>1. PICK r \in ResultType : Finish(r)
  BY FinishEffect
<1>2. results' \in [Sources -> ResultType] /\ source' \in Sources
  BY <1>1 DEF Finish, IInv, TypeOK, Sources
<1>3. pc' \in {"idle", "launch", "close", "read", "wait", "collect", "report"}
  BY <1>1 DEF Finish
<1>4. /\ captured' = 0 /\ pipe' = 0 /\ printed' = 0
      /\ UNCHANGED <<invocation, write_end, exit_code, left, attestation>>
  BY <1>1, FinishEffect DEF Finish
<1>5. proc' \in [Runs -> {"none", "running", "zombie", "gone"}]
  BY FinishEffect DEF IInv, TypeOK
<1>6. orphans' \subseteq Runs
  <2>1. Current \in Runs
    BY CurrentIsRun, FinishEffect DEF Steps
  <2>2. orphans' \subseteq orphans \cup {Current}
    BY DEF Finishes, CannotLaunch, ReadFails, WaitFails, Collect, Abandon, history
  <2>. QED BY <2>1, <2>2 DEF IInv, TypeOK
<1>7. /\ captured' \in Nat /\ printed' \in Nat /\ pipe' \in 0 .. PipeSize
      /\ UNCHANGED <<invocation, write_end, exit_code, left, attestation>>
  BY <1>4, VisCompareAssumption
<1>. QED BY <1>2, <1>3, <1>5, <1>6, <1>7 DEF IInv, TypeOK

LEMMA ExitKeepsTypes ==
  ASSUME IInv, Exits
  PROVE  TypeOK'
<1>1. PICK code \in {0, 1, 137} : Exit(code)
  BY ExitEffect
<1>2. NoResult \in ResultType
  BY DEF NoResult, ResultType
<1>3. results' \in [Sources -> ResultType] /\ source' \in Sources
  BY <1>1, <1>2 DEF Exit, Sources
<1>4. /\ captured' = 0 /\ pipe' = 0 /\ printed' = 0 /\ write_end' = FALSE
      /\ pc' = "idle" /\ exit_code' \in {0, 1, 137}
      /\ UNCHANGED <<invocation, left, attestation>>
  BY <1>1 DEF Exit
<1>5. proc' \in [Runs -> {"none", "running", "zombie", "gone"}]
  BY <1>1 DEF Exit, IInv, TypeOK
<1>6. orphans' \subseteq Runs
  BY ExitEffect, CurrentIsRun DEF IInv, TypeOK
<1>7. captured' \in Nat /\ printed' \in Nat /\ pipe' \in 0 .. PipeSize
  BY <1>4, VisCompareAssumption
<1>8. write_end' \in BOOLEAN
  BY <1>4, Zenon
<1>. QED BY <1>3, <1>4, <1>5, <1>6, <1>7, <1>8 DEF IInv, TypeOK

LEMMA EnvironmentKeepsTypes ==
  ASSUME IInv, NEW r \in Runs, VisRunEnds(r) \/ WorkloadEnds(r)
  PROVE  TypeOK'
<1>. USE DEF IInv, TypeOK
<1>1. CASE VisRunEnds(r)
  <2>1. /\ proc' \in [Runs -> {"none", "running", "zombie", "gone"}]
        /\ left' \subseteq Runs
        /\ UNCHANGED <<pc, invocation, source, results, captured, write_end, exit_code,
                       pipe, printed, orphans>>
    BY <1>1 DEF VisRunEnds, local, history
  <2>2. ASSUME NEW s \in Sources
        PROVE  attestation'[s].run \in (Runs \cap (Nat \X {s})) \cup {NoRun}
    <3>1. PICK o \in Outcomes :
            attestation' =
              IF o.attested = "none" THEN attestation
              ELSE [attestation EXCEPT ![r[2]] =
                      [kind |-> o.attested, run |-> r, exit_code |-> o.exit_code,
                       escapes |-> o.escapes]]
      BY <1>1 DEF VisRunEnds
    <3>2. r \in Nat \X {r[2]} /\ r[2] \in Sources
      BY VisCompareAssumption DEF Runs
    <3>3. attestation \in [Sources -> [kind : {"none", "torn", "whole"},
             run : Runs \cup {NoRun}, exit_code : 0 .. 255, escapes : Nat]]
      BY DEF Control
    <3>. QED BY <3>1, <3>2, <3>3
  <2>. QED BY <2>1, <2>2
<1>2. CASE WorkloadEnds(r)
  BY <1>2 DEF WorkloadEnds, local, history
<1>. QED BY <1>1, <1>2

----------------------------------------------------------------------------
(* Each action keeps the control part.                                     *)
LEMMA ControlKept ==
  ASSUME IInv, Next
  PROVE  Control'
<1>. USE DEF IInv, Control
<1>1. CASE Start
  <2>1. /\ pc = "idle" /\ invocation < MaxRuns /\ pc' = "launch"
        /\ invocation' = invocation + 1
        /\ UNCHANGED <<source, ended, attestation, shown>>
    BY <1>1 DEF Start, world, history
  <2>2. invocation' \in 1 .. MaxRuns
    BY <2>1, VisCompareAssumption DEF TypeOK
  <2>. QED BY <2>1, <2>2
<1>2. CASE Launch
  BY <1>2 DEF Launch, history, TypeOK, Current
<1>3. CASE CloseWriteEnd
  BY <1>3 DEF CloseWriteEnd, world, history, TypeOK, Current
<1>4. CASE Read
  BY <1>4 DEF Read, world, history, TypeOK, Current
<1>5. CASE Eof
  BY <1>5 DEF Eof, local, world, history, TypeOK, Current
<1>6. CASE Wait
  BY <1>6, CurrentIsRun DEF Wait, local, history, TypeOK, Current
<1>7. CASE Finishes
  <2>1. PICK r \in ResultType : Finish(r)
    BY <1>7, FinishEffect
  <2>2. pc \in Steps /\ UNCHANGED <<ended, attestation, shown>>
    BY <1>7, FinishEffect
  <2>. QED BY <2>1, <2>2 DEF Finish, Steps, TypeOK, Sources
<1>8. CASE Exits
  <2>1. PICK code \in {0, 1, 137} : Exit(code)
    BY <1>8, ExitEffect
  <2>2. /\ pc' = "idle" /\ source' = "primary" /\ UNCHANGED attestation
        /\ ended' \in [Sources -> Outcomes \cup {NoOutcome}]
        /\ shown' \in [Sources -> SUBSET Nat]
    BY <2>1 DEF Exit
  <2>. QED BY <2>2
<1>9. CASE Prints
  <2>1. /\ pc \in {"close", "read"} /\ printed' = printed + 1
        /\ printed < Len(Output[Current])
        /\ shown' = [shown EXCEPT ![source] = Metric(SubSeq(Output[Current], 1, printed'))]
        /\ UNCHANGED <<pc, invocation, source, ended, attestation>>
    BY <1>9 DEF Prints, local, world
  <2>2. Current \in Runs
    BY <2>1, CurrentIsRun
  <2>3. printed' \in 0 .. Len(Output[Current])
    <3>1. Output[Current] \in Seq(Chunk)
      BY <2>2, VisCompareAssumption
    <3>2. Len(Output[Current]) \in Nat
      BY <3>1
    <3>. QED BY <2>1, <3>2 DEF TypeOK
  <2>4. Metric(SubSeq(Output[Current], 1, printed')) \in SUBSET Nat
    BY <2>2, <2>3, ShownIsTyped
  <2>5. shown' \in [Sources -> SUBSET Nat]
    BY <2>1, <2>4 DEF TypeOK
  <2>. QED BY <2>1, <2>5
<1>10. ASSUME NEW r \in Runs, VisRunEnds(r)
       PROVE  Control'
  <2>1. PICK o \in Outcomes :
          /\ ended' = IF r[1] = invocation /\ pc # "idle" THEN [ended EXCEPT ![r[2]] = o]
                      ELSE ended
          /\ attestation' =
               IF o.attested = "none" THEN attestation
               ELSE [attestation EXCEPT ![r[2]] =
                       [kind |-> o.attested, run |-> r, exit_code |-> o.exit_code,
                        escapes |-> o.escapes]]
    BY <1>10 DEF VisRunEnds
  <2>2. /\ proc[r] = "running"
        /\ proc' = [proc EXCEPT ![r] =
                      IF r[1] = invocation /\ pc # "idle" THEN "zombie" ELSE "gone"]
        /\ UNCHANGED <<pc, invocation, source, shown>>
    BY <1>10 DEF VisRunEnds, local, history
  <2>3. ended' \in [Sources -> Outcomes \cup {NoOutcome}]
    BY <2>1
  <2>4. attestation' \in [Sources -> [kind : {"none", "torn", "whole"},
                run : Runs \cup {NoRun}, exit_code : 0 .. 255, escapes : Nat]]
    <3>1. /\ o.attested \in {"none", "torn", "whole"} /\ o.exit_code \in 0 .. 255
          /\ o.escapes \in Nat
      BY VisCompareAssumption DEF OutcomeType
    <3>. QED BY <2>1, <3>1
  <2>5. pc' = "collect" => proc'[Current'] = "gone"
    BY <2>2, CurrentIsRun DEF TypeOK, Current
  <2>. QED BY <2>2, <2>3, <2>4, <2>5
<1>11. ASSUME NEW r \in Runs, WorkloadEnds(r)
       PROVE  Control'
  BY <1>11 DEF WorkloadEnds, local, history, TypeOK, Current
<1>. QED BY NextCases, <1>1, <1>2, <1>3, <1>4, <1>5, <1>6, <1>7, <1>8, <1>9, <1>10, <1>11

----------------------------------------------------------------------------
(* Nothing comes to life but what is launched.                             *)
LEMMA OneAtATimeKept ==
  ASSUME IInv, Next
  PROVE  OneAtATime'
<1>. USE DEF IInv, OneAtATime, Active
<1>1. CASE Start
  BY <1>1 DEF Start, world, history
<1>2. CASE Launch
  BY <1>2, CurrentIsRun DEF Launch, history, Current, TypeOK
<1>3. CASE CloseWriteEnd
  BY <1>3 DEF CloseWriteEnd, world, history, Current
<1>4. CASE Read
  BY <1>4 DEF Read, world, history, Current
<1>5. CASE Eof
  BY <1>5 DEF Eof, local, world, history, Current
<1>6. CASE Wait
  <2>1. /\ pc = "wait" /\ proc' = [proc EXCEPT ![Current] = "gone"]
        /\ UNCHANGED <<left, orphans>>
    BY <1>6 DEF Wait, history
  <2>2. ASSUME NEW r \in Runs, Active(r)'
        PROVE  Active(r)
    BY <2>1, <2>2 DEF TypeOK
  <2>. QED BY <2>1, <2>2
<1>7. CASE Finishes
  <2>1. /\ UNCHANGED left /\ orphans \subseteq orphans'
        /\ proc' = proc \/ proc' = [proc EXCEPT ![Current] = "gone"]
        /\ pc # "close" /\ (pc = "read" /\ Active(Current) => Current \in orphans')
    BY <1>7, FinishEffect DEF Steps
  <2>2. ASSUME NEW r \in Runs, Active(r)'
        PROVE  Active(r)
    BY <2>1, <2>2 DEF TypeOK
  <2>. QED BY <2>1, <2>2
<1>8. CASE Exits
  <2>1. /\ UNCHANGED left /\ orphans \subseteq orphans'
        /\ proc' = [r \in Runs |-> IF proc[r] = "zombie" THEN "gone" ELSE proc[r]]
        /\ pc # "report" /\ Active(Current) => Current \in orphans'
    BY <1>8, ExitEffect DEF Exit
  <2>2. ASSUME NEW r \in Runs, Active(r)'
        PROVE  Active(r)
    BY <2>1, <2>2 DEF TypeOK
  <2>. QED BY <2>1, <2>2
<1>9. CASE Prints
  BY <1>9 DEF Prints, local, world, Current
<1>10. ASSUME NEW r \in Runs, VisRunEnds(r) \/ WorkloadEnds(r)
       PROVE  OneAtATime'
  <2>1. /\ UNCHANGED <<pc, invocation, source, orphans>>
        /\ left' \subseteq left \cup {r} /\ Active(r)
        /\ proc' = proc \/ \E p \in {"zombie", "gone"} : proc' = [proc EXCEPT ![r] = p]
    BY <1>10 DEF VisRunEnds, WorkloadEnds, local, history
  <2>2. ASSUME NEW q \in Runs, Active(q)'
        PROVE  Active(q)
    BY <2>1, <2>2 DEF TypeOK
  <2>. QED BY <2>1, <2>2 DEF Current
<1>. QED BY NextCases, <1>1, <1>2, <1>3, <1>4, <1>5, <1>6, <1>7, <1>8, <1>9, <1>10

----------------------------------------------------------------------------
(* What is printed stays accounted for.                                    *)
LEMMA NothingLostKept ==
  ASSUME IInv, Next
  PROVE  NothingLost'
<1>. USE DEF IInv, NothingLost, Begun
<1>1. CASE Start
  BY <1>1 DEF Start
<1>2. CASE Launch
  BY <1>2 DEF Launch
<1>3. CASE CloseWriteEnd
  BY <1>3 DEF CloseWriteEnd
<1>4. CASE Read
  BY <1>4 DEF Read, TypeOK
<1>5. CASE Eof
  BY <1>5 DEF Eof, local, world, Active, Current
<1>6. CASE Wait
  <2>1. /\ pc = "wait" /\ pc' = "collect"
        /\ proc' = [proc EXCEPT ![Current] = "gone"]
        /\ UNCHANGED <<invocation, source, left, pipe, printed, captured>>
    BY <1>6 DEF Wait, local, history
  <2>2. ~Active(Current)'
    BY <2>1, CurrentIsRun DEF TypeOK, Active, Current
  <2>. QED BY <2>1, <2>2
<1>7. CASE Finishes
  BY <1>7, FinishEffect DEF Finish
<1>8. CASE Exits
  <2>1. pc' = "idle" /\ captured' = 0 /\ printed' = 0 /\ pipe' = 0
    BY <1>8, ExitEffect DEF Exit
  <2>. QED BY <2>1
<1>9. CASE Prints
  BY <1>9 DEF Prints, local, TypeOK
<1>10. ASSUME NEW r \in Runs, VisRunEnds(r) \/ WorkloadEnds(r)
       PROVE  NothingLost'
  <2>1. /\ UNCHANGED <<pc, invocation, source, captured, printed, pipe>>
        /\ left' \subseteq left \cup {r} /\ Active(r)
        /\ proc' = proc \/ \E p \in {"zombie", "gone"} : proc' = [proc EXCEPT ![r] = p]
    BY <1>10 DEF VisRunEnds, WorkloadEnds, local, history, Active
  <2>2. ASSUME Active(Current)', pc # "idle"
        PROVE  Active(Current)
    <3>1. Current' = Current /\ Current \in Runs
      BY <2>1, <2>2, CurrentIsRun DEF Current
    <3>. QED BY <2>1, <2>2, <3>1 DEF TypeOK, Active
  <2>. QED BY <2>1, <2>2
<1>. QED BY NextCases, <1>1, <1>2, <1>3, <1>4, <1>5, <1>6, <1>7, <1>8, <1>9, <1>10

----------------------------------------------------------------------------
(* The attestation stays that of the run, or of an orphan.                 *)
LEMMA AttestationKept ==
  ASSUME IInv, Next
  PROVE  AttestationIsCurrent'
<1>. USE DEF IInv, AttestationIsCurrent, Begun
<1>1. CASE Start
  BY <1>1 DEF Start
<1>2. CASE Launch
  BY <1>2, CurrentIsRun DEF Launch, TypeOK, Current
<1>3. CASE CloseWriteEnd
  BY <1>3 DEF CloseWriteEnd, world, history, Current
<1>4. CASE Read
  BY <1>4 DEF Read, world, history, Current
<1>5. CASE Eof
  BY <1>5 DEF Eof, local, world, history, Current
<1>6. CASE Wait
  BY <1>6 DEF Wait, local, history, Current
<1>7. CASE Finishes
  BY <1>7, FinishEffect DEF Finish
<1>8. CASE Exits
  BY <1>8, ExitEffect DEF Exit
<1>9. CASE Prints
  BY <1>9 DEF Prints, local, world, Current
<1>10. ASSUME NEW r \in Runs, VisRunEnds(r), pc \in Begun, proc'[Current] # "running"
       PROVE  /\ ended'[source] \in Outcomes
              /\ \/ ended'[source].attested = "none"
                 \/ attestation'[source].run \in orphans
                 \/ attestation'[source].escapes = ended'[source].escapes
  <2>1. PICK o \in Outcomes :
          /\ ended' = IF r[1] = invocation /\ pc # "idle" THEN [ended EXCEPT ![r[2]] = o]
                      ELSE ended
          /\ attestation' =
               IF o.attested = "none" THEN attestation
               ELSE [attestation EXCEPT ![r[2]] =
                       [kind |-> o.attested, run |-> r, exit_code |-> o.exit_code,
                        escapes |-> o.escapes]]
    BY <1>10 DEF VisRunEnds
  <2>2. proc[r] = "running" /\ \A q \in Runs : q # r => proc'[q] = proc[q]
    BY <1>10 DEF VisRunEnds, TypeOK
  <2>3. /\ Current \in Runs /\ source \in Sources
        /\ r[2] \in Sources /\ r = <<r[1], r[2]>>
    BY <1>10, CurrentIsRun DEF TypeOK
  <2>4. /\ ended \in [Sources -> Outcomes \cup {NoOutcome}]
        /\ attestation \in [Sources -> [kind : {"none", "torn", "whole"},
                run : Runs \cup {NoRun}, exit_code : 0 .. 255, escapes : Nat]]
    BY DEF Control
  <2>5. CASE r = Current
    <3>1. r[1] = invocation /\ r[2] = source
      BY <2>5 DEF Current
    <3>2. ended'[source] = o
      BY <1>10, <2>1, <2>3, <2>4, <3>1
    <3>3. o.attested = "none" \/ attestation'[source].escapes = o.escapes
      BY <2>1, <2>3, <2>4, <3>1
    <3>. QED BY <3>2, <3>3
  <2>6. CASE r # Current /\ r[2] = source
    <3>1. r[1] # invocation /\ r \in orphans
      BY <2>2, <2>3, <2>6 DEF Current, OneAtATime, Active
    <3>2. ended' = ended /\ proc[Current] # "running"
      BY <1>10, <2>1, <2>2, <2>3, <2>6, <3>1
    <3>3. \/ attestation' = attestation
          \/ attestation'[source].run = r
      BY <2>1, <2>3, <2>4, <2>6
    <3>. QED BY <1>10, <3>1, <3>2, <3>3
  <2>7. CASE r[2] # source
    <3>1. proc[Current] # "running"
      BY <1>10, <2>2, <2>3, <2>7 DEF Current
    <3>2. ended'[source] = ended[source] /\ attestation'[source] = attestation[source]
      BY <2>1, <2>3, <2>4, <2>7
    <3>. QED BY <1>10, <3>1, <3>2
  <2>. QED BY <2>5, <2>6, <2>7
<1>11. ASSUME NEW r \in Runs, VisRunEnds(r)
       PROVE  AttestationIsCurrent'
  <2>1. UNCHANGED <<pc, invocation, source, orphans>>
    BY <1>11 DEF VisRunEnds, local, history
  <2>2. Current' = Current
    BY <2>1 DEF Current
  <2>. QED BY <1>10, <1>11, <2>1, <2>2
<1>12. ASSUME NEW r \in Runs, WorkloadEnds(r)
       PROVE  AttestationIsCurrent'
  BY <1>12 DEF WorkloadEnds, local, history, Current
<1>. QED BY NextCases, <1>1, <1>2, <1>3, <1>4, <1>5, <1>6, <1>7, <1>8, <1>9, <1>11, <1>12

----------------------------------------------------------------------------
(* A result stays what its own run of this invocation earned.              *)
LEMMA CollectIsEarned ==
  ASSUME IInv, Collect, NEW r,
         r = ProfileResult(attestation[source], ended[source].status)
  PROVE  /\ r.exit_code = 0 /\ r.escapes = 0 =>
              \/ r.evidence \in orphans
              \/ /\ proc[Current] = "gone"
                 /\ ended[source].status = [signaled |-> FALSE, n |-> 0]
                 /\ ended[source].escapes = 0
         /\ r.metric = IF r.started THEN shown[source] ELSE {}
<1>1. pc = "collect"
  BY DEF Collect
<1>2. /\ r.exit_code = CommandExitCode(ended[source].status)
      /\ r.escapes = attestation[source].escapes
      /\ r.evidence = attestation[source].run
      /\ r.metric = CapturedMetric /\ r.started = TRUE
  BY DEF ProfileResult
<1>3. proc[Current] = "gone"
  BY <1>1 DEF IInv, Control
<1>4. /\ ended[source] \in Outcomes
      /\ \/ ended[source].attested = "none"
         \/ attestation[source].run \in orphans
         \/ attestation[source].escapes = ended[source].escapes
  BY <1>1, <1>3 DEF IInv, AttestationIsCurrent, Begun
<1>5. r.exit_code = 0 => /\ ended[source].status = [signaled |-> FALSE, n |-> 0]
                         /\ ended[source].attested # "none"
  <2>1. r.exit_code = 0 => ended[source].status = [signaled |-> FALSE, n |-> 0]
    BY <1>2, <1>4, ExitCodesAreTyped
  <2>. QED BY <2>1, <1>4, OutcomesKeepContract
<1>6. captured = printed /\ shown[source] = Metric(SubSeq(Output[Current], 1, printed))
  BY <1>1 DEF IInv, NothingLost, TypeOK, ShownIsPrinted, Steps
<1>7. r.metric = shown[source]
  BY <1>2, <1>6 DEF CapturedMetric
<1>. QED BY <1>2, <1>3, <1>4, <1>5, <1>7

LEMMA ResultsKept ==
  ASSUME IInv, Next, NEW s \in Sources, Has(s)'
  PROVE  (ResultIsEarned(s) /\ MetricIsShown(s))'
<1>. USE DEF Has
<1>1. ASSUME Has(s), UNCHANGED <<invocation, results>>,
             orphans \subseteq orphans', shown'[s] = shown[s],
             proc[<<invocation, s>>] = "gone" =>
               proc'[<<invocation, s>>] = "gone" /\ ended'[s] = ended[s]
      PROVE  (ResultIsEarned(s) /\ MetricIsShown(s))'
  <2>1. ResultIsEarned(s) /\ MetricIsShown(s)
    BY <1>1 DEF IInv, ResultsAreEarned
  <2>. QED BY <1>1, <2>1 DEF ResultIsEarned, MetricIsShown
<1>2. Has(s) => /\ pc # "idle" /\ <<invocation, s>> \in Runs
                /\ pc # "report" => s # source
  BY CurrentIsRun DEF IInv, Control
<1>3. CASE Start
  BY <1>3 DEF Start, IInv, Control
<1>4. CASE Launch
  <2>1. /\ pc = "launch" /\ pc' = "close"
        /\ proc' = [proc EXCEPT ![Current] = "running"]
        /\ UNCHANGED <<invocation, source, results, ended, orphans, shown>>
    BY <1>4 DEF Launch, history
  <2>2. Has(s)
    BY <2>1
  <2>3. proc'[<<invocation, s>>] = proc[<<invocation, s>>]
    BY <1>2, <2>1, <2>2 DEF IInv, TypeOK, Current
  <2>. QED BY <1>1, <2>1, <2>2, <2>3
<1>5. CASE CloseWriteEnd \/ Read \/ Eof
  <2>1. /\ pc # "report" /\ pc' # "report"
        /\ UNCHANGED <<invocation, source, results, proc, ended, orphans, shown>>
    BY <1>5 DEF CloseWriteEnd, Read, Eof, local, world, history
  <2>. QED BY <1>1, <2>1
<1>6. CASE Wait
  <2>1. /\ pc = "wait" /\ pc' = "collect"
        /\ proc' = [proc EXCEPT ![Current] = "gone"]
        /\ UNCHANGED <<invocation, source, results, ended, orphans, shown>>
    BY <1>6 DEF Wait, local, history
  <2>2. Has(s)
    BY <2>1
  <2>3. proc'[<<invocation, s>>] = proc[<<invocation, s>>]
    BY <1>2, <2>1, <2>2 DEF IInv, TypeOK, Current
  <2>. QED BY <1>1, <2>1, <2>2, <2>3
<1>7. CASE Finishes
  <2>1. PICK r \in ResultType :
           /\ Finish(r)
           /\ \/ IsFailed(r)
              \/ /\ Collect
                 /\ r = ProfileResult(attestation[source], ended[source].status)
    BY <1>7, FinishEffect
  <2>2. /\ pc \in Steps
        /\ UNCHANGED <<left, ended, attestation, shown>> /\ orphans \subseteq orphans'
        /\ proc' = proc \/ proc' = [proc EXCEPT ![Current] = "gone"]
    BY <1>7, FinishEffect
  <2>3. /\ results' = [results EXCEPT ![source] = r] /\ UNCHANGED invocation
        /\ IF source = "primary" THEN source' = "secondary" /\ pc' = "launch"
           ELSE pc' = "report" /\ UNCHANGED source
    BY <2>1 DEF Finish
  <2>4. /\ source \in Sources /\ Current \in Runs
        /\ results \in [Sources -> ResultType]
        /\ proc \in [Runs -> {"none", "running", "zombie", "gone"}]
    BY <2>2, CurrentIsRun DEF Steps, IInv, TypeOK
  <2>5. CASE s = source
    <3>1. results'[s] = r
      BY <2>3, <2>4, <2>5
    <3>2. proc[Current] = "gone" => proc'[<<invocation, s>>] = "gone"
      BY <2>2, <2>4, <2>5 DEF Current
    <3>3. CASE IsFailed(r)
      <4>1. results'[s].exit_code = 127 /\ results'[s].metric = {} /\ ~results'[s].started
        BY <3>1, <3>3 DEF IsFailed
      <4>. QED BY <4>1 DEF ResultIsEarned, MetricIsShown
    <3>4. CASE Collect /\ r = ProfileResult(attestation[source], ended[source].status)
      <4>1. /\ r.exit_code = 0 /\ r.escapes = 0 =>
                 \/ r.evidence \in orphans
                 \/ /\ proc[Current] = "gone"
                    /\ ended[source].status = [signaled |-> FALSE, n |-> 0]
                    /\ ended[source].escapes = 0
            /\ r.metric = IF r.started THEN shown[source] ELSE {}
        BY <3>4, CollectIsEarned
      <4>2. ResultIsEarned(s)'
        BY <2>2, <2>3, <2>5, <3>1, <3>2, <4>1 DEF ResultIsEarned
      <4>3. MetricIsShown(s)'
        BY <2>2, <2>5, <3>1, <4>1 DEF MetricIsShown
      <4>. QED BY <4>2, <4>3
    <3>. QED BY <2>1, <3>3, <3>4
  <2>6. CASE s # source
    <3>1. Has(s) /\ results'[s] = results[s]
      BY <2>2, <2>3, <2>4, <2>6 DEF Steps, Sources
    <3>2. proc[<<invocation, s>>] = "gone" => proc'[<<invocation, s>>] = "gone"
      BY <1>2, <2>2, <2>4, <3>1
    <3>3. ResultIsEarned(s) /\ MetricIsShown(s)
      BY <3>1 DEF IInv, ResultsAreEarned
    <3>. QED BY <2>2, <2>3, <3>1, <3>2, <3>3 DEF ResultIsEarned, MetricIsShown
  <2>. QED BY <2>5, <2>6
<1>8. CASE Exits
  BY <1>8, ExitEffect DEF Exit
<1>9. CASE Prints
  <2>1. /\ pc \in {"close", "read"}
        /\ UNCHANGED <<pc, invocation, source, results, proc, ended, orphans>>
        /\ \A q \in Sources : q # source => shown'[q] = shown[q]
    BY <1>9 DEF Prints, local, world, IInv, Control
  <2>. QED BY <1>1, <1>2, <2>1
<1>10. ASSUME NEW r \in Runs, VisRunEnds(r)
       PROVE  (ResultIsEarned(s) /\ MetricIsShown(s))'
  <2>1. UNCHANGED <<pc, invocation, source, results, orphans, shown>>
    BY <1>10 DEF VisRunEnds, local, history
  <2>2. Has(s) /\ <<invocation, s>> \in Runs /\ pc # "idle"
    BY <1>2, <2>1
  <2>3. proc[r] = "running" /\ \A q \in Runs : q # r => proc'[q] = proc[q]
    BY <1>10 DEF VisRunEnds, IInv, TypeOK
  <2>4. PICK o \in Outcomes :
          ended' = IF r[1] = invocation /\ pc # "idle" THEN [ended EXCEPT ![r[2]] = o]
                   ELSE ended
    BY <1>10 DEF VisRunEnds
  <2>5. r[2] \in Sources /\ r = <<r[1], r[2]>>
    BY CurrentIsRun
  <2>6. ASSUME proc[<<invocation, s>>] = "gone"
        PROVE  proc'[<<invocation, s>>] = "gone" /\ ended'[s] = ended[s]
    <3>1. r # <<invocation, s>>
      BY <2>3, <2>6
    <3>2. proc'[<<invocation, s>>] = "gone"
      BY <2>2, <2>3, <2>6, <3>1
    <3>3. ended'[s] = ended[s]
      BY <2>4, <2>5, <3>1 DEF IInv, Control
    <3>. QED BY <3>2, <3>3
  <2>. QED BY <1>1, <2>1, <2>2, <2>6
<1>11. ASSUME NEW r \in Runs, WorkloadEnds(r)
       PROVE  (ResultIsEarned(s) /\ MetricIsShown(s))'
  <2>1. UNCHANGED <<pc, invocation, source, results, proc, ended, orphans, shown>>
    BY <1>11 DEF WorkloadEnds, local, history
  <2>. QED BY <1>1, <2>1
<1>. QED BY NextCases, <1>3, <1>4, <1>5, <1>6, <1>7, <1>8, <1>9, <1>10, <1>11

----------------------------------------------------------------------------
(* The metric that was shown is that of what was printed.                  *)
LEMMA ShownKept ==
  ASSUME IInv, Next
  PROVE  ShownIsPrinted'
<1>. USE DEF IInv, ShownIsPrinted, Steps
<1>1. CASE Start
  <2>1. /\ pc = "idle" /\ pc' = "launch" /\ invocation' = invocation + 1
        /\ source' = "primary" /\ printed' = 0 /\ UNCHANGED <<source, shown>>
    BY <1>1 DEF Start, history, Control, NothingLost, Begun
  <2>2. Current' \in Runs
    BY <2>1, ControlKept DEF Next, Control, Current, Runs, Sources
  <2>3. Metric(SubSeq(Output[Current'], 1, 0)) = {}
    BY <2>2, MetricOfNothing, VisCompareAssumption
  <2>. QED BY <2>1, <2>3
<1>2. CASE Launch \/ CloseWriteEnd \/ Read \/ Eof \/ Wait
  <2>1. /\ pc \in Steps /\ pc' # "idle"
        /\ UNCHANGED <<invocation, source, printed, shown>>
    BY <1>2 DEF Launch, CloseWriteEnd, Read, Eof, Wait, local, world, history
  <2>2. Current' = Current
    BY <2>1 DEF Current
  <2>. QED BY <2>1, <2>2
<1>3. CASE Finishes
  <2>1. PICK r \in ResultType : Finish(r)
    BY <1>3, FinishEffect
  <2>2. /\ pc \in Steps /\ UNCHANGED <<invocation, shown>> /\ printed' = 0
        /\ IF source = "primary" THEN source' = "secondary" /\ pc' = "launch"
           ELSE pc' = "report" /\ UNCHANGED source
    BY <1>3, <2>1, FinishEffect DEF Finish
  <2>3. CASE source = "primary"
    <3>1. Current' \in Runs
      BY <2>2, <2>3, CurrentIsRun DEF Current, Sources
    <3>2. Metric(SubSeq(Output[Current'], 1, 0)) = {}
      BY <3>1, MetricOfNothing, VisCompareAssumption
    <3>. QED BY <2>2, <2>3, <3>2
  <2>4. CASE source # "primary"
    BY <2>2, <2>4
  <2>. QED BY <2>3, <2>4
<1>4. CASE Exits
  <2>1. /\ pc' = "idle" /\ source' = "primary"
        /\ shown' = [s \in Sources |-> {}]
    BY <1>4, ExitEffect DEF Exit
  <2>. QED BY <2>1 DEF Sources
<1>5. CASE Prints
  <2>1. /\ pc \in {"close", "read"}
        /\ shown' = [shown EXCEPT ![source] = Metric(SubSeq(Output[Current], 1, printed'))]
        /\ UNCHANGED <<pc, invocation, source>>
    BY <1>5 DEF Prints, local
  <2>2. Current' = Current
    BY <2>1 DEF Current
  <2>3. shown'[source] = Metric(SubSeq(Output[Current], 1, printed'))
    BY <2>1 DEF Control, TypeOK
  <2>4. source = "primary" => shown'["secondary"] = {}
    BY <2>1 DEF Control, Sources
  <2>. QED BY <2>1, <2>2, <2>3, <2>4
<1>6. ASSUME NEW r \in Runs, VisRunEnds(r) \/ WorkloadEnds(r)
      PROVE  ShownIsPrinted'
  <2>1. UNCHANGED <<pc, invocation, source, printed, shown>>
    BY <1>6 DEF VisRunEnds, WorkloadEnds, local, history
  <2>2. Current' = Current
    BY <2>1 DEF Current
  <2>. QED BY <2>1, <2>2
<1>. QED BY NextCases, <1>1, <1>2, <1>3, <1>4, <1>5, <1>6

----------------------------------------------------------------------------
(* The invariant holds.                                                    *)
LEMMA InitHolds == Init => IInv
<1>. SUFFICES ASSUME Init PROVE IInv
  OBVIOUS
<1>. USE VisCompareAssumption DEF Init
<1>1. TypeOK
  <2>1. NoResult \in ResultType
    BY DEF NoResult, ResultType
  <2>2. results \in [Sources -> ResultType]
    BY <2>1
  <2>3. \A s \in Sources : attestation[s].run \in (Runs \cap (Nat \X {s})) \cup {NoRun}
    BY DEF NoAttestation
  <2>4. write_end \in BOOLEAN
    BY Zenon
  <2>5. proc \in [Runs -> {"none", "running", "zombie", "gone"}]
    OBVIOUS
  <2>6. /\ pc \in {"idle", "launch", "close", "read", "wait", "collect", "report"}
        /\ invocation \in 0 .. MaxRuns /\ source \in Sources
        /\ captured \in Nat /\ printed \in Nat /\ pipe \in 0 .. PipeSize
        /\ exit_code \in {0, 1, 137}
        /\ left \subseteq Runs /\ orphans \subseteq Runs
    BY DEF Sources
  <2>. QED BY <2>2, <2>3, <2>4, <2>5, <2>6 DEF TypeOK
<1>2. Control
  <2>1. NoAttestation \in [kind : {"none", "torn", "whole"}, run : Runs \cup {NoRun},
                           exit_code : 0 .. 255, escapes : Nat]
    BY DEF NoAttestation
  <2>2. attestation \in [Sources -> [kind : {"none", "torn", "whole"},
                run : Runs \cup {NoRun}, exit_code : 0 .. 255, escapes : Nat]]
    BY <2>1
  <2>3. /\ ended \in [Sources -> Outcomes \cup {NoOutcome}]
        /\ shown \in [Sources -> SUBSET Nat]
    OBVIOUS
  <2>4. pc = "idle" /\ source = "primary"
    OBVIOUS
  <2>. QED BY <2>2, <2>3, <2>4 DEF Control
<1>3. OneAtATime
  BY DEF OneAtATime, Active
<1>4. NothingLost
  BY DEF NothingLost
<1>5. AttestationIsCurrent
  BY DEF AttestationIsCurrent, Begun
<1>6. ResultsAreEarned
  BY DEF ResultsAreEarned, Has
<1>7. ShownIsPrinted
  BY DEF ShownIsPrinted, Steps, Sources
<1>. QED BY <1>1, <1>2, <1>3, <1>4, <1>5, <1>6, <1>7 DEF IInv

LEMMA StutterKeeps == IInv /\ UNCHANGED vars => IInv'
BY DEF IInv, TypeOK, Control, OneAtATime, NothingLost, AttestationIsCurrent,
       ResultsAreEarned, ResultIsEarned, MetricIsShown, ShownIsPrinted, Has, Active,
       Current, vars, local, world, history

LEMMA NextKeeps == IInv /\ [Next]_vars => IInv'
<1>1. ASSUME IInv, Next
      PROVE  IInv'
  <2>1. TypeOK'
    BY <1>1, NextCases, StraightLineKeepsTypes, FinishKeepsTypes, ExitKeepsTypes,
       EnvironmentKeepsTypes
  <2>2. ResultsAreEarned'
    BY <1>1, ResultsKept DEF ResultsAreEarned
  <2>. QED BY <1>1, <2>1, <2>2, ControlKept, OneAtATimeKept, NothingLostKept,
              AttestationKept, ShownKept DEF IInv
<1>. QED BY <1>1, StutterKeeps

LEMMA InvariantHolds == Spec => []IInv
BY InitHolds, NextKeeps, PTL DEF Spec

----------------------------------------------------------------------------
(* Every variable keeps its type, and every exit code that is reported is  *)
(* one that a process can have (command_exit_code).                        *)
THEOREM TypeCorrectness == Spec => []TypeOK
<1>1. IInv => TypeOK
  BY DEF IInv
<1>. QED BY <1>1, InvariantHolds, PTL

(* Two runs are never active together, of one invocation or of two, unless *)
(* vis-compare was made to leave one of them (run_vis_run_profile).        *)
THEOREM RunsDoNotOverlap == Spec => []ProfilesDoNotOverlap
<1>1. IInv => ProfilesDoNotOverlap
  BY DEF IInv, OneAtATime, ProfilesDoNotOverlap
<1>. QED BY <1>1, InvariantHolds, PTL

(* The output that is searched for the metric is all of it                 *)
(* (run_vis_run_profile, vis_compare_capture_metrics).                     *)
THEOREM OutputsAreComplete == Spec => []OutputIsComplete
<1>1. IInv => OutputIsComplete
  BY DEF IInv, NothingLost, TypeOK, OutputIsComplete
<1>. QED BY <1>1, InvariantHolds, PTL

(* A profile that is recommended ran in this invocation, succeeded and had *)
(* no escape, whatever attestations earlier invocations left, but for the  *)
(* overwriting by an orphan (build_recommendation).                        *)
THEOREM RecommendationsAreEarned == Spec => []RecommendationIsEarned
<1>1. ASSUME IInv, pc = "report", NEW s \in Recommended
      PROVE  \/ results[s].evidence \in orphans
             \/ /\ proc[<<invocation, s>>] = "gone"
                /\ ended[s].status = [signaled |-> FALSE, n |-> 0]
                /\ ended[s].escapes = 0
  BY <1>1 DEF IInv, ResultsAreEarned, Has, ResultIsEarned, Recommended
<1>2. IInv => RecommendationIsEarned
  BY <1>1 DEF RecommendationIsEarned
<1>. QED BY <1>2, InvariantHolds, PTL

(* A metric note compares what both runs of this invocation printed, or    *)
(* there is none (vis_compare_capture_metrics, build_recommendation).      *)
THEOREM MetricNotesCompareTheseRuns == Spec => []MetricNotesAreOfTheseRuns
<1>1. ASSUME IInv, pc = "report"
      PROVE  MetricNotes(results["primary"].metric, results["secondary"].metric) =
               IF \A s \in Sources : results[s].started
               THEN MetricNotes(shown["primary"], shown["secondary"]) ELSE {}
  <2>1. \A s \in Sources :
          results[s].metric = IF results[s].started THEN shown[s] ELSE {}
    BY <1>1 DEF IInv, ResultsAreEarned, Has, MetricIsShown
  <2>2. CASE \A s \in Sources : results[s].started
    BY <2>1, <2>2 DEF Sources
  <2>3. CASE \E s \in Sources : ~results[s].started
    <3>1. results["primary"].metric = {} \/ results["secondary"].metric = {}
      BY <2>1, <2>3 DEF Sources
    <3>2. \A t : MetricNotes({}, t) = {} /\ MetricNotes(t, {}) = {}
      BY DEF MetricNotes
    <3>3. MetricNotes(results["primary"].metric, results["secondary"].metric) = {}
      BY <3>1, <3>2
    <3>. QED BY <2>3, <3>3
  <2>. QED BY <2>2, <2>3
<1>2. IInv => MetricNotesAreOfTheseRuns
  BY <1>1 DEF MetricNotesAreOfTheseRuns
<1>. QED BY <1>2, InvariantHolds, PTL
=============================================================================
