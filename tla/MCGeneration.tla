---------------------------- MODULE MCGeneration ----------------------------
(* Constants of the TLC run of GenerationRuns.                             *)
EXTENDS GenerationRuns, TLC

CONSTANT q1
=============================================================================
