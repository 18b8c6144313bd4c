---------------------------- MODULE MCMeasurement ----------------------------
(* vis-jitter on one of two cores, with windows of two samples.            *)
EXTENDS VisJitter

CONSTANTS c1, c2
MCCores == {c1, c2}
MCLatencies == {5, 35}
=============================================================================
