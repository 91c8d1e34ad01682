--------------------------- MODULE MCCreatorSignal ---------------------------
(* Values of the constants for TLC: two launches of one creator.           *)
EXTENDS CreatorSignal

TwoLaunches == {1, 2}
SameCreator == <<"creator", "creator">>
SeedCreators == {"creator"}
NoCreators == {}
ThreeQualities == {"UNVERIFIED", "NO_ENTRY", "EXECUTABLE"}
LossWinGap == {Unvalued, 0, 15000}
OneOfEach == [mature |-> 1, complete |-> 1, resolved |-> 1, history |-> 1,
              adverse |-> 1, coverageBps |-> 9000]
==============================================================================
