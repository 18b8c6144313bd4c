----------------------------- MODULE WindowAudit -----------------------------
(***************************************************************************)
(* What the measurement promises about SMIs, without cores, clocks, file   *)
(* descriptors or single samples: windows of WindowSize samples open and   *)
(* close, and the closing of a window during which the audited core's SMI  *)
(* counter moved rejects every sample the window kept (vis_smi_audit_t's   *)
(* "full_window" policy, src/vis-jitter/include/vis_jitter.hpp).           *)
(***************************************************************************)
EXTENDS Integers

CONSTANTS WindowSize    \* a positive number

VARIABLES
  count,      \* SMIs the audited core has taken
  opened,     \* the count when the open window was opened, Closed between windows
  accepted, rejected, migrated,   \* what became of the samples of closed windows
  outcome
vars == <<count, opened, accepted, rejected, migrated, outcome>>

Closed == -1
Failed == {"VIS_ERR_AFFINITY", "VIS_ERR_MSR", "VIS_ERR_INVALID_ARG"}

Init ==
  /\ count = 0 /\ opened = Closed
  /\ accepted = 0 /\ rejected = 0 /\ migrated = 0
  /\ outcome = "running"

Smi ==
  /\ count' = count + 1
  /\ UNCHANGED <<opened, accepted, rejected, migrated, outcome>>

Open ==
  /\ outcome = "running" /\ opened = Closed
  /\ opened' = count
  /\ UNCHANGED <<count, accepted, rejected, migrated, outcome>>

(* A window closes with k samples kept and the others lost to migration.   *)
Close(k) ==
  /\ opened # Closed
  /\ opened' = Closed
  /\ migrated' = migrated + (WindowSize - k)
  /\ \/ /\ count # opened
        /\ rejected' = rejected + k
        /\ UNCHANGED accepted
     \/ /\ count = opened
        /\ accepted' = accepted + k
        /\ UNCHANGED rejected
  /\ UNCHANGED <<count, outcome>>

Stop ==
  /\ outcome = "running" /\ opened = Closed
  /\ outcome' = IF accepted = 0 THEN "VIS_ERR_NO_SAMPLES" ELSE "VIS_OK"
  /\ UNCHANGED <<count, opened, accepted, rejected, migrated>>

(* A failure abandons the open window: none of its samples count.          *)
Abort ==
  /\ outcome = "running"
  /\ outcome' \in Failed
  /\ opened' = Closed
  /\ UNCHANGED <<count, accepted, rejected, migrated>>

Next == Smi \/ Open \/ (\E k \in 0 .. WindowSize : Close(k)) \/ Stop \/ Abort

Spec == Init /\ [][Next]_vars
=============================================================================
