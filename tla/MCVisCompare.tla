---------------------------- MODULE MCVisCompare ----------------------------
(* Two invocations of vis-compare with every way vis-run may end. *)
EXTENDS VisCompare, TLC

Exited(n) == [signaled |-> FALSE, n |-> n]
Ended(status, attested, code, escapes) ==
  [status |-> status, attested |-> attested, exit_code |-> code, escapes |-> escapes]

(* The workload succeeded, with and without an escape; the attestation is  *)
(* cut off; vis-run refuses the policy, or is killed before it attests.    *)
MCOutcomes ==
  {Ended(Exited(0), "whole", 0, 0), Ended(Exited(0), "whole", 0, 1),
   Ended(Exited(0), "torn", 0, 1), Ended(Exited(1), "whole", 0, 0),
   Ended([signaled |-> TRUE, n |-> 9], "none", 0, 0)}

(* The metric comes late, at once, or first without a number. *)
Text == [kind |-> "text", n |-> 0]
Word == [kind |-> "word", n |-> 0]
Number(n) == [kind |-> "number", n |-> n]
MCOutput ==
  (<<1, "primary">> :> <<Text, Number(1)>>) @@ (<<1, "secondary">> :> <<Word>>)
  @@ (<<2, "primary">> :> <<Number(2)>>) @@ (<<2, "secondary">> :> <<Number(3)>>)
=============================================================================
