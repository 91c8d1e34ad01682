------------------------------- MODULE MCWallet -------------------------------
(* Values of the constants for TLC.  A dollar buys less WETH from height 4   *)
(* on and more on the second fork; the pool's price moves by one or two      *)
(* tenths, within and beyond the slippage of a tenth.                        *)
EXTENDS Wallet

CONSTANTS p1, c1

OneProcess == {p1}
DollarOf == [b \in Block |-> [f \in 1..MaxReorgs + 1 |-> IF b >= 4 THEN 2 ELSE f + 2]]
RateOf == [b \in Block |-> [f \in 1..MaxReorgs + 1 |-> IF b % 3 = 2 THEN 8 ELSE IF f = 2 THEN 9 ELSE 10]]
==============================================================================
