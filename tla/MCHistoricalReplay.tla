-------------------------- MODULE MCHistoricalReplay --------------------------
(* Values of the constants for TLC.  Five launches in three blocks, one of   *)
(* them with two logs, under two implementations: l1 and l5 represent them;  *)
(* l2 has no pool, l3 no oracle price when its last horizon ends, l4 no      *)
(* executable entry, and l1 cannot be sold at its last horizon.  The pools   *)
(* price nothing late, which is why there is an oracle.                      *)
EXTENDS HistoricalReplay

CONSTANTS l1, l2, l3, l4, l5, implA, implB

Logs ==
    { [block |-> 1, index |-> 1, launch |-> l1, special |-> TRUE],
      [block |-> 1, index |-> 2, launch |-> l1, special |-> FALSE],
      [block |-> 1, index |-> 3, launch |-> l2, special |-> FALSE],
      [block |-> 3, index |-> 1, launch |-> l3, special |-> FALSE],
      [block |-> 3, index |-> 2, launch |-> l4, special |-> TRUE],
      [block |-> 6, index |-> 1, launch |-> l5, special |-> FALSE] }
TwoCohorts ==
    << [implementation |-> implA, launches |-> 4, first |-> l1, observed |-> 4],
       [implementation |-> implB, launches |-> 1, first |-> l5, observed |-> 9] >>
Upgraded == [b \in 1..MaxBlock |-> IF b < 6 THEN implA ELSE implB]
TwoHorizons == <<1, 3>>
Markets ==
    [l \in Launch |-> [pool |-> l # l2, base |-> IF l = l4 THEN "usdt0" ELSE "weth",
                       entry |-> l # l4]]
Buyers == [l \in Launch |-> IF l = l1 THEN {2} ELSE 1..MaxBlock]
Prices == [method \in Method |-> IF method = "oracle" THEN 1..MaxBlock \ {6} ELSE {2, 4, 7}]
TwoSplits == {<<1, 3>>, <<4, 5>>, <<1, 2>>, <<3, 5>>, <<2, 5>>}
==============================================================================
