-------------------------- MODULE MCInferenceManager --------------------------
(* Instances of InferenceManager for TLC.                                    *)
EXTENDS InferenceManager
CONSTANTS m1, m2, s1, s2
==============================================================================
