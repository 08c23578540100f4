------------------------ MODULE MCCameraProvisioning ------------------------
(* Instances of CameraProvisioning for TLC.                                  *)
EXTENDS CameraProvisioning, TLC
JobSymmetry == Permutations(Jobs)
==============================================================================
