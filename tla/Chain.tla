-------------------------------- MODULE Chain --------------------------------
(***************************************************************************)
(* The canonical chain as the RPC node presents it to src/src/sentry and   *)
(* src/src/runtime: a head, one hash per height, and the deployments each  *)
(* height holds.  The chain is not part of the repository; this module     *)
(* states only what the ledger code relies on.                             *)
(*                                                                         *)
(* A block hash is the pair (height, fork): fork[b] names the fork that    *)
(* last produced height b.  A reorganisation at p gives every height from  *)
(* p up a fork no hash has had before, so two hashes of one height are     *)
(* equal exactly when the blocks and all their ancestors are.              *)
(***************************************************************************)
EXTENDS Integers

CONSTANTS
    Launch,      \* deployments (factory, txHash, token), as distinct naturals
    MaxBlock,    \* highest block ever mined (bound of the model)
    MaxReorgs,   \* number of reorganisations (bound of the model)
    ReorgDepth   \* how many blocks below the head a reorganisation reaches

ASSUME ChainAssumption ==
    /\ Launch \subseteq Nat
    /\ MaxBlock \in Nat \ {0}
    /\ MaxReorgs \in Nat
    /\ ReorgDepth \in Nat

VARIABLES
    head,        \* height of the newest block
    fork,        \* fork[b]: the fork that produced height b
    place        \* place[l]: height whose block holds launch l, 0 when none

chainVars == <<head, fork, place>>

Block == 0..MaxBlock
NewestFork == fork[MaxBlock]

\* A launch as a log of the canonical chain: its block and that block's hash.
Location == [block : Block, fork : Nat]
NoLocation == [block |-> 0, fork |-> 0]
OnChain(l) == [block |-> place[l], fork |-> fork[place[l]]]

ChainTypeOK ==
    /\ head \in Block
    /\ fork \in [Block -> Nat \ {0}]
    /\ place \in [Launch -> Block]

ChainInit ==
    /\ head = 0
    /\ fork = [b \in Block |-> 1]
    /\ place = [l \in Launch |-> 0]

\* The next block arrives with some of the deployments still to be mined.
Mine ==
    /\ head < MaxBlock
    /\ head' = head + 1
    /\ \E mined \in SUBSET {l \in Launch : place[l] = 0} :
          place' = [l \in Launch |-> IF l \in mined THEN head + 1 ELSE place[l]]
    /\ UNCHANGED fork

\* Heights p..head are replaced.  A deployment of a replaced block is mined
\* again at any replaced height, or returns to the mempool.
Reorg(p) ==
    /\ p \in 1..head
    /\ p > head - ReorgDepth
    /\ NewestFork <= MaxReorgs
    /\ fork' = [b \in Block |-> IF b >= p THEN NewestFork + 1 ELSE fork[b]]
    /\ \E moved \in [{l \in Launch : place[l] >= p} -> {0} \cup p..head] :
          place' = [l \in Launch |-> IF l \in DOMAIN moved THEN moved[l] ELSE place[l]]
    /\ UNCHANGED head
==============================================================================
