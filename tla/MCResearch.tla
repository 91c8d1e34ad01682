----------------------------- MODULE MCResearch -----------------------------
(* Values of the constants for TLC: forks later and earlier than the first. *)
EXTENDS Research

OneLaunch == {1}
TwoLaunches == {1, 2}
EagerOutcomes == [truth |-> 1, baseline |-> 1, outcomes |-> 0]
OneHorizon == {7}
ShortHorizon == {4}
LateFork == <<0, 1>>
LateThenEarlyFork == <<0, 1, -1>>
==============================================================================
