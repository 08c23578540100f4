-------------------------- MODULE MCAdapterRegistry --------------------------
(* Instances of AdapterRegistry for TLC.                                    *)
EXTENDS AdapterRegistry, TLC
CONSTANTS yolo, gpu, egress, p, q, poll, m1, m2, s1

NoKeys    == {}
OneName   == {yolo}
OneKey    == {gpu}
BothKeys  == {gpu, egress}
TwoPrints == {p, q}

\* No definition tells the two keys apart while neither is forbidden
KeySymmetry == Permutations(BothKeys)
==============================================================================
