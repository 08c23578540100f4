------------------------------ MODULE MCEventBus ------------------------------
(* Instances of EventBus for TLC.  Init and Next of LossyFeeds are reached    *)
(* through FeedSpec.                                                         *)
EXTENDS EventBus
CONSTANTS c1, c2, a, b
==============================================================================
