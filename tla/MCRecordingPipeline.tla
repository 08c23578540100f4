------------------------- MODULE MCRecordingPipeline -------------------------
(* Instances of RecordingPipeline for TLC.                                   *)
EXTENDS RecordingPipeline
==============================================================================
