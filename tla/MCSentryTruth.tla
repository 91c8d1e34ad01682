---------------------------- MODULE MCSentryTruth ----------------------------
(* Values of the constants for TLC: two deployments of one creator.       *)
EXTENDS SentryTruth

TwoLaunches == {1, 2}
OneCreator == [l \in Launch |-> "alice"]
==============================================================================
