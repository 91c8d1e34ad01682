---------------------------- MODULE MCCanaryEntry ----------------------------
(* Values of the constants for TLC.  Processes are interchangeable, and so  *)
(* are candidates.                                                          *)
EXTENDS CanaryEntry, TLC

CONSTANTS p1, p2, c1, c2, noCandidate

OneProcess == {p1}
TwoProcesses == {p1, p2}
TwoCandidates == {c1, c2}
FullStack == {TRUE}
BothDeployments == BOOLEAN
Symmetry == Permutations(Process) \cup Permutations(Candidate)
==============================================================================
