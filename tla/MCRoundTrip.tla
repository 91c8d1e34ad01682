----------------------------- MODULE MCRoundTrip -----------------------------
(* Values of the constants for TLC.                                         *)
EXTENDS RoundTrip

CONSTANTS p1, p2

TwoProcesses == {p1, p2}
==============================================================================
