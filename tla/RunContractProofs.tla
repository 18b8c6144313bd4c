-------------------------- MODULE RunContractProofs --------------------------
(***************************************************************************)
(* What vis-compare assumes of a run of vis-run follows from the contract. *)
(***************************************************************************)
EXTENDS RunContract, TLAPS

(* The report is made once: until then nothing is attested.                *)
IInv ==
  /\ stage \in {"pending", "running", "over", "reported"}
  /\ stage # "reported" => report = NotReported
  /\ AttestedCodeAgrees

(* A report whose attested code is its exit code, or 0 beside the exit     *)
(* code 1, agrees with itself, whether or not the file could be written.   *)
LEMMA ReportsAgree ==
  ASSUME NEW code, NEW attested, NEW verdicts,
         Reports(code, attested, verdicts),
         code = attested \/ (code = 1 /\ attested = 0)
  PROVE  stage' = "reported" /\ AttestedCodeAgrees'
<1>1. PICK file \in {"no", "yes", "failed"}, verdict \in verdicts :
        report' = [exit |-> IF file = "failed" THEN 1 ELSE code, file |-> file,
                   exit_code |-> attested, verdict |-> verdict]
  BY DEF Reports
<1>2. report'.file = "yes" => report'.exit = code /\ report'.exit_code = attested
  BY <1>1
<1>3. stage' = "reported"
  BY DEF Reports
<1>. QED BY <1>2, <1>3 DEF AttestedCodeAgrees, Agreed

(* Steps before the report leave it alone; each way to report agrees.      *)
LEMMA StepAgrees == IInv /\ [Next]_vars => IInv'
<1>. SUFFICES ASSUME IInv, [Next]_vars PROVE IInv'
  OBVIOUS
<1>1. CASE Refuse
  BY <1>1, ReportsAgree DEF Refuse, IInv
<1>2. CASE DryRun
  BY <1>2, ReportsAgree DEF DryRun, IInv
<1>3. CASE Begin
  BY <1>3 DEF Begin, IInv, AttestedCodeAgrees
<1>4. CASE Repinned
  BY <1>4 DEF Repinned, IInv, AttestedCodeAgrees
<1>5. CASE End
  BY <1>5 DEF End, IInv, AttestedCodeAgrees
<1>6. CASE Report
  BY <1>6, ReportsAgree DEF Report, IInv
<1>7. CASE ReportLost
  BY <1>7, ReportsAgree DEF ReportLost, IInv
<1>8. CASE UNCHANGED vars
  BY <1>8 DEF vars, IInv, AttestedCodeAgrees
<1>. QED BY <1>1, <1>2, <1>3, <1>4, <1>5, <1>6, <1>7, <1>8 DEF Next

(* An attestation that was written holds the code that vis-run ended with, *)
(* or 0 beside the exit code 1: the first part of OutcomesKeepContract of  *)
(* VisCompare, for every run that keeps the contract                       *)
(* (write_attestation_if_requested, main).                                 *)
THEOREM AttestedCodes == Spec => []AttestedCodeAgrees
<1>1. Init => IInv
  <2>. SUFFICES ASSUME Init PROVE IInv
    OBVIOUS
  <2>1. stage = "pending" /\ report = NotReported
    BY DEF Init
  <2>2. report.file # "yes"
    BY <2>1 DEF NotReported
  <2>. QED BY <2>1, <2>2 DEF IInv, AttestedCodeAgrees
<1>2. IInv => AttestedCodeAgrees
  BY DEF IInv
<1>. QED BY <1>1, <1>2, StepAgrees, PTL DEF Spec
=============================================================================
