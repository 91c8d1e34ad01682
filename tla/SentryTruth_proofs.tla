-------------------------- MODULE SentryTruth_proofs --------------------------
(* Theorems about the ingestion loop, for every chain, option and bound.    *)
EXTENDS SentryTruth, TLAPS

\* The guard of a checkpoint is a height, and not above the checkpoint.
LEMMA GuardBlockBelow ==
    ASSUME NEW b \in Block
    PROVE  GuardBlock(b) \in Block /\ GuardBlock(b) <= b
  BY ChainAssumption, OptionsAssumption
  DEF ChainAssumption, OptionsAssumption, GuardBlock, Block

\* A rewind keeps the tables well typed.
LEMMA RewindTypes ==
    ASSUME TypeOK, NEW b \in Nat, RewindFrom(b)
    PROVE  /\ rows' \in [Launch -> Location]
           /\ facts' \subseteq Launch
           /\ edges' \subseteq Launch \X Launch
           /\ checkpoint' \in [block : Block, fork : Nat, guard : Block, guardFork : Nat]
           /\ scanned' \in [Block -> Nat]
  BY ChainAssumption
  DEF ChainAssumption, TypeOK, RewindFrom, Location, NoLocation, NoCheckpoint, Block

\* The end of a sync leaves its locals well typed.
LEMMA EndTypes ==
    ASSUME EndSync
    PROVE  /\ pc' \in Steps
           /\ target' \in Block /\ from' \in Nat /\ to' \in Block /\ boundary' \in Nat
           /\ launches' \in [Launch -> Location]
           /\ todo' \subseteq Launch
           /\ guardHash' \in Nat
  BY ChainAssumption
  DEF ChainAssumption, EndSync, Steps, Location, NoLocation, Block

LEMMA InitTypes == Init => TypeOK
<1> SUFFICES ASSUME Init PROVE TypeOK OBVIOUS
<1>1. 0 \in Block /\ 1 \in Nat \ {0}
  BY ChainAssumption DEF ChainAssumption, Block
<1>2. ChainTypeOK
  BY <1>1 DEF Init, ChainInit, ChainTypeOK
<1> QED BY <1>1, <1>2 DEF Init, TypeOK, Steps, Location, NoLocation, NoCheckpoint

USE DEF chainVars, ledgerVars, localVars

\* Every step keeps every variable in its type.
LEMMA StepTypes == TypeOK /\ [Next]_vars => TypeOK'
<1> SUFFICES ASSUME TypeOK, [Next]_vars PROVE TypeOK' OBVIOUS
<1> USE ChainAssumption, OptionsAssumption DEF ChainAssumption, OptionsAssumption
<1>w. ASSUME Watch PROVE unseenFork' \in BOOLEAN
  BY <1>w DEF Watch, TypeOK
<1>1. CASE BeginSync
  <2>1. target' \in Block
    BY <1>1 DEF BeginSync, TypeOK, ChainTypeOK, Block
  <2>2. from' \in Nat
    BY <1>1 DEF BeginSync, TypeOK, Block
  <2> QED BY <1>1, <2>1, <2>2, <1>w DEF BeginSync, TypeOK, ChainTypeOK, Steps
<1>2. CASE ReadCheckpointHash
  BY <1>2, <1>w DEF ReadCheckpointHash, TypeOK, ChainTypeOK, Steps
<1>3. CASE RewindToGuard
  <2>1. PICK b \in Nat : RewindFrom(b) /\ from' = IF checkpoint'.block = 0 THEN b ELSE checkpoint'.block + 1
    BY <1>3 DEF RewindToGuard, TypeOK, Block
  <2>2. from' \in Nat
    BY <2>1, RewindTypes DEF Block
  <2> QED BY <1>3, <2>1, <2>2, <1>w, RewindTypes DEF RewindToGuard, TypeOK, ChainTypeOK, Steps
<1>4. CASE HaltAtGuard
  BY <1>4, <1>w, EndTypes DEF HaltAtGuard, TypeOK, ChainTypeOK
<1>5. CASE RepairFacts
  BY <1>5, <1>w DEF RepairFacts, Stored, TypeOK, ChainTypeOK, Steps
<1>6. CASE ReplaceEdges("reproject", "batch") \/ ReplaceEdges("project", "guardRead")
  BY <1>6, <1>w DEF ReplaceEdges, PreviousLaunchEdges, TypeOK, ChainTypeOK, Steps
<1>7. CASE FinishSync
  BY <1>7, <1>w, EndTypes DEF FinishSync, TypeOK, ChainTypeOK
<1>8. CASE BeginBatch
  <2>1. to' \in Block /\ boundary' \in Nat
    BY <1>8 DEF BeginBatch, TypeOK, ChainTypeOK, Block
  <2> QED BY <1>8, <2>1, <1>w DEF BeginBatch, TypeOK, ChainTypeOK, Steps
<1>9. CASE CatchUp
  <2>1. todo' \subseteq Launch /\ launches' \in [Launch -> Location]
    <3>1. NoLocation \in Location
      BY DEF NoLocation, Location, Block
    <3>2. \A l \in Launch : OnChain(l) \in Location
      BY DEF TypeOK, ChainTypeOK, OnChain, Location
    <3> QED BY <1>9, <3>1, <3>2 DEF CatchUp
  <2> QED BY <1>9, <2>1, <1>w DEF CatchUp, TypeOK, ChainTypeOK, Steps
<1>10. CASE CheckLaunchBlocks
  BY <1>10, <1>w, EndTypes DEF CheckLaunchBlocks, TypeOK, ChainTypeOK, Steps
<1>11. CASE CheckAfterRead
  BY <1>11, <1>w, EndTypes DEF CheckAfterRead, TypeOK, ChainTypeOK, Steps
<1>12. CASE PutLaunch
  BY <1>12, <1>w, EndTypes DEF PutLaunch, TypeOK, ChainTypeOK, Steps
<1>13. CASE PutFact
  BY <1>13, <1>w DEF PutFact, TypeOK, ChainTypeOK, Steps
<1>14. CASE AllStored
  BY <1>14, <1>w DEF AllStored, TypeOK, ChainTypeOK, Steps
<1>15. CASE ReadGuardHash
  BY <1>15, <1>w, GuardBlockBelow DEF ReadGuardHash, TypeOK, ChainTypeOK, Steps
<1>16. CASE CheckBeforeCommit
  <2>1. CASE fork[to] = boundary
    BY <1>16, <2>1, <1>w DEF CheckBeforeCommit, TypeOK, ChainTypeOK, Steps
  <2>2. CASE fork[to] # boundary
    BY <1>16, <2>2, <1>w, EndTypes, RewindTypes DEF CheckBeforeCommit, TypeOK, ChainTypeOK
  <2> QED BY <2>1, <2>2
<1>17. CASE AuthorityHolds
  BY <1>17, <1>w DEF AuthorityHolds, TypeOK, ChainTypeOK, Steps
<1>18. CASE AuthorityLost
  BY <1>18, <1>w, EndTypes, RewindTypes DEF AuthorityLost, TypeOK, ChainTypeOK
<1>19. CASE CommitCheckpoint
  <2>1. /\ from' \in Nat /\ to' \in Block /\ boundary' \in Nat /\ guardHash' \in Nat
        /\ launches' \in [Launch -> Location]
    BY <1>19 DEF CommitCheckpoint, TypeOK, Location, NoLocation, Block
  <2>2. checkpoint' \in [block : Block, fork : Nat, guard : Block, guardFork : Nat]
    BY <1>19, GuardBlockBelow DEF CommitCheckpoint, TypeOK
  <2> QED BY <1>19, <2>1, <2>2, <1>w DEF CommitCheckpoint, TypeOK, ChainTypeOK, Steps
<1>20. CASE Abort
  BY <1>20, <1>w, EndTypes DEF Abort, TypeOK, ChainTypeOK
<1>21. CASE ChainGrows
  <2>1. head' \in Block /\ head + 1 \in Block
    BY <1>21 DEF ChainGrows, Mine, TypeOK, ChainTypeOK, Block
  <2>2. place' \in [Launch -> Block]
    BY <1>21, <2>1 DEF ChainGrows, Mine, TypeOK, ChainTypeOK
  <2> QED BY <1>21, <2>1, <2>2, <1>w DEF ChainGrows, Mine, TypeOK, ChainTypeOK
<1>22. CASE ChainReorganises
  <2>1. PICK p \in Block : Reorg(p)
    BY <1>22 DEF ChainReorganises
  <2>2. ChainTypeOK'
    <3>1. NewestFork + 1 \in Nat \ {0}
      BY DEF NewestFork, TypeOK, ChainTypeOK, Block
    <3>2. fork' \in [Block -> Nat \ {0}]
      BY <2>1, <3>1 DEF Reorg, TypeOK, ChainTypeOK
    <3>3. place' \in [Launch -> Block]
      <4>1. PICK moved \in [{l \in Launch : place[l] >= p} -> {0} \cup p..head] :
               place' = [l \in Launch |-> IF l \in DOMAIN moved THEN moved[l] ELSE place[l]]
        BY <2>1 DEF Reorg
      <4>2. {0} \cup p..head \subseteq Block
        BY DEF TypeOK, ChainTypeOK, Block
      <4> QED BY <4>1, <4>2 DEF TypeOK, ChainTypeOK
    <3> QED BY <2>1, <3>2, <3>3 DEF Reorg, TypeOK, ChainTypeOK
  <2> QED BY <1>22, <2>2, <1>w DEF ChainReorganises, TypeOK
<1>23. CASE UNCHANGED vars
  BY <1>23 DEF vars, TypeOK, ChainTypeOK
<1> QED
  BY <1>1, <1>2, <1>3, <1>4, <1>5, <1>6, <1>7, <1>8, <1>9, <1>10, <1>11, <1>12, <1>13,
     <1>14, <1>15, <1>16, <1>17, <1>18, <1>19, <1>20, <1>21, <1>22, <1>23
     DEF Next, SyncStep, SyncFails

\* Type correctness: heights stay heights, whatever the options and the chain.
THEOREM TypeCorrect == Spec => []TypeOK
<1>1. TypeOK /\ [Next]_vars => TypeOK' BY StepTypes
<1> QED BY InitTypes, <1>1, PTL DEF Spec

------------------------------------------------------------------------------
(* GuardCoherent is not inductive: a fork between the guard read and the      *)
(* commit is harmless only because it also moves the boundary hash.  GuardInv *)
(* carries that relation through the last three steps of a batch, and the     *)
(* fact that no hash in hand is younger than the newest fork, so that a       *)
(* replaced block never matches a hash read before.                           *)

HashesAreOld ==
    /\ \A b \in Block : fork[b] <= NewestFork
    /\ checkpoint.fork <= NewestFork
    /\ boundary <= NewestFork

GuardReadOnBoundaryFork ==
    pc \in {"beforeCommit", "authority", "commit"} /\ fork[to] = boundary
        => guardHash = fork[GuardBlock(to)]

GuardInv ==
    /\ HashesAreOld
    /\ checkpoint.guard <= checkpoint.block
    /\ GuardReadOnBoundaryFork
    /\ GuardCoherent

LEMMA NewestForkInNat == TypeOK => NewestFork \in Nat
  BY ChainAssumption DEF ChainAssumption, TypeOK, ChainTypeOK, NewestFork, Block

\* A step that leaves the chain and the checkpoint alone, and ends the batch's
\* commit phase or stays in it with the same hashes, preserves GuardInv.
LEMMA GuardQuietStep ==
    ASSUME TypeOK, GuardInv,
           UNCHANGED fork,
           checkpoint' \in {checkpoint, NoCheckpoint},
           boundary' \in {boundary, 0},
           \/ pc' \notin {"beforeCommit", "authority", "commit"}
           \/ /\ pc \in {"beforeCommit", "authority", "commit"}
              /\ UNCHANGED <<to, guardHash, boundary>>
    PROVE  GuardInv'
<1>1. HashesAreOld'
  BY NewestForkInNat DEF GuardInv, HashesAreOld, NoCheckpoint, NewestFork
<1>2. (checkpoint.guard <= checkpoint.block)'
  BY DEF GuardInv, NoCheckpoint
<1>3. GuardReadOnBoundaryFork'
  BY DEF GuardInv, GuardReadOnBoundaryFork, GuardBlock
<1>4. GuardCoherent'
  BY DEF GuardInv, GuardCoherent, CheckpointIsCanonical, NoCheckpoint
<1> QED BY <1>1, <1>2, <1>3, <1>4 DEF GuardInv

LEMMA GuardInit == Init => GuardInv
<1> SUFFICES ASSUME Init PROVE GuardInv OBVIOUS
<1>1. MaxBlock \in Block /\ 0 \in Block
  BY ChainAssumption DEF ChainAssumption, Block
<1> QED BY <1>1 DEF Init, ChainInit, NoCheckpoint, GuardInv, HashesAreOld, NewestFork,
        GuardReadOnBoundaryFork, GuardCoherent

LEMMA GuardStep == TypeOK /\ GuardInv /\ [Next]_vars => GuardInv'
<1> SUFFICES ASSUME TypeOK, GuardInv, [Next]_vars PROVE GuardInv' OBVIOUS
<1>1. CASE BeginSync
  BY <1>1, GuardQuietStep DEF BeginSync
<1>2. CASE ReadCheckpointHash
  BY <1>2, GuardQuietStep DEF ReadCheckpointHash
<1>3. CASE RewindToGuard
  BY <1>3, GuardQuietStep DEF RewindToGuard, RewindFrom
<1>4. CASE HaltAtGuard
  BY <1>4, GuardQuietStep DEF HaltAtGuard, EndSync
<1>5. CASE RepairFacts
  BY <1>5, GuardQuietStep DEF RepairFacts
<1>6. CASE ReplaceEdges("reproject", "batch") \/ ReplaceEdges("project", "guardRead")
  BY <1>6, GuardQuietStep DEF ReplaceEdges
<1>7. CASE FinishSync
  BY <1>7, GuardQuietStep DEF FinishSync, EndSync
<1>8. CASE BeginBatch
  <2>1. to' \in Block
    BY <1>8, StepTypes DEF Next, SyncStep, TypeOK
  <2>2. HashesAreOld'
    BY <1>8, <2>1 DEF BeginBatch, GuardInv, HashesAreOld, NewestFork
  <2>3. GuardReadOnBoundaryFork' /\ UNCHANGED <<fork, checkpoint>>
    BY <1>8 DEF BeginBatch, GuardReadOnBoundaryFork
  <2> QED BY <2>2, <2>3 DEF GuardInv, GuardCoherent, CheckpointIsCanonical
<1>9. CASE CatchUp
  BY <1>9, GuardQuietStep DEF CatchUp
<1>10. CASE CheckLaunchBlocks
  BY <1>10, GuardQuietStep DEF CheckLaunchBlocks, EndSync
<1>11. CASE CheckAfterRead
  BY <1>11, GuardQuietStep DEF CheckAfterRead, EndSync
<1>12. CASE PutLaunch
  BY <1>12, GuardQuietStep DEF PutLaunch, EndSync
<1>13. CASE PutFact
  BY <1>13, GuardQuietStep DEF PutFact
<1>14. CASE AllStored
  BY <1>14, GuardQuietStep DEF AllStored
<1>15. CASE ReadGuardHash
  <2>1. GuardReadOnBoundaryFork'
    BY <1>15 DEF ReadGuardHash, GuardReadOnBoundaryFork, GuardBlock
  <2>2. UNCHANGED <<fork, checkpoint, boundary>>
    BY <1>15 DEF ReadGuardHash
  <2> QED BY <2>1, <2>2 DEF GuardInv, HashesAreOld, NewestFork, GuardCoherent,
          CheckpointIsCanonical
<1>16. CASE CheckBeforeCommit
  BY <1>16, GuardQuietStep DEF CheckBeforeCommit, EndSync, RewindFrom
<1>17. CASE AuthorityHolds
  BY <1>17, GuardQuietStep DEF AuthorityHolds
<1>18. CASE AuthorityLost
  BY <1>18, GuardQuietStep DEF AuthorityLost, EndSync, RewindFrom
<1>19. CASE CommitCheckpoint
  <2>1. /\ UNCHANGED fork
        /\ checkpoint' = [block |-> to, fork |-> boundary,
                          guard |-> GuardBlock(to), guardFork |-> guardHash]
        /\ pc = "commit" /\ pc' = "batch" /\ boundary' = 0
    BY <1>19 DEF CommitCheckpoint
  <2>2. HashesAreOld'
    BY <2>1, NewestForkInNat DEF GuardInv, HashesAreOld, NewestFork
  <2>3. (checkpoint.guard <= checkpoint.block)'
    BY <2>1, GuardBlockBelow DEF TypeOK
  <2>4. GuardReadOnBoundaryFork'
    BY <2>1 DEF GuardReadOnBoundaryFork
  <2>5. GuardCoherent'
    BY <2>1 DEF GuardInv, GuardReadOnBoundaryFork, GuardCoherent, CheckpointIsCanonical
  <2> QED BY <2>2, <2>3, <2>4, <2>5 DEF GuardInv
<1>20. CASE Abort
  BY <1>20, GuardQuietStep DEF Abort, EndSync
<1>21. CASE ChainGrows
  BY <1>21, GuardQuietStep DEF ChainGrows, Mine
<1>22. CASE ChainReorganises
  <2>1. PICK p \in Block : Reorg(p)
    BY <1>22 DEF ChainReorganises
  <2>2. /\ UNCHANGED <<checkpoint, boundary, to, guardHash, pc>>
        /\ fork' = [b \in Block |-> IF b >= p THEN NewestFork + 1 ELSE fork[b]]
        /\ MaxBlock >= p /\ MaxBlock \in Block
    BY <1>22, <2>1, ChainAssumption
       DEF ChainAssumption, ChainReorganises, Reorg, TypeOK, ChainTypeOK, Block
  <2>3. NewestFork' = NewestFork + 1
    BY <2>2 DEF NewestFork
  <2>4. HashesAreOld'
    BY <2>2, <2>3, NewestForkInNat DEF GuardInv, HashesAreOld, TypeOK, ChainTypeOK
  <2>5. ASSUME NEW a \in Block, NEW b \in Block, a <= b, NEW h \in Nat, NEW g \in Nat,
               h <= NewestFork, fork'[b] = h, fork[b] = h => fork[a] = g
        PROVE  fork'[a] = g
    \* A hash of height b in hand that is still canonical lies below the fork.
    <3>1. ~ b >= p
      BY <2>2, <2>5, NewestForkInNat
    <3>2. ~ a >= p
      BY <3>1, <2>5 DEF Block
    <3> QED BY <3>1, <3>2, <2>2, <2>5
  <2>6. GuardReadOnBoundaryFork'
    <3>1. GuardBlock(to) \in Block /\ GuardBlock(to) <= to /\ GuardBlock(to)' = GuardBlock(to)
      BY <2>2, GuardBlockBelow DEF TypeOK, GuardBlock
    <3>2. SUFFICES ASSUME pc \in {"beforeCommit", "authority", "commit"}, fork'[to] = boundary
                   PROVE  guardHash = fork'[GuardBlock(to)]
      BY <2>2, <3>1 DEF GuardReadOnBoundaryFork
    <3>3. fork[to] = boundary => fork[GuardBlock(to)] = guardHash
      BY <3>2 DEF GuardInv, GuardReadOnBoundaryFork
    <3> QED BY <3>1, <3>2, <3>3, <2>5 DEF GuardInv, HashesAreOld, TypeOK
  <2>7. GuardCoherent'
    BY <2>2, <2>5 DEF GuardInv, HashesAreOld, GuardCoherent, CheckpointIsCanonical, TypeOK
  <2> QED BY <2>2, <2>4, <2>6, <2>7 DEF GuardInv
<1>23. CASE UNCHANGED vars
  BY <1>23 DEF vars, GuardInv, HashesAreOld, NewestFork, GuardReadOnBoundaryFork,
     GuardBlock, GuardCoherent, CheckpointIsCanonical
<1> QED
  BY <1>1, <1>2, <1>3, <1>4, <1>5, <1>6, <1>7, <1>8, <1>9, <1>10, <1>11, <1>12, <1>13,
     <1>14, <1>15, <1>16, <1>17, <1>18, <1>19, <1>20, <1>21, <1>22, <1>23
     DEF Next, SyncStep, SyncFails

\* The guard of a canonical checkpoint is canonical, whatever forks changed
\* while the batch was read and committed.
THEOREM GuardIsCoherent == Spec => []GuardCoherent
<1>1. TypeOK /\ GuardInv /\ [Next]_vars => GuardInv' BY GuardStep
<1>2. GuardInv => GuardCoherent BY DEF GuardInv
<1> QED BY GuardInit, <1>1, <1>2, TypeCorrect, PTL DEF Spec

------------------------------------------------------------------------------
(* A rewind spares committed history.  Two facts have to hold in between: a   *)
(* batch always starts above the checkpoint, so undoing it leaves the rows    *)
(* below alone, and the checkpoint that sent the sync to its guard cannot     *)
(* become canonical again.                                                    *)

RewindInv ==
    /\ pc # "idle" => checkpoint.block < from
    /\ pc = "guard" => ~ CheckpointIsCanonical

LEMMA RewindInit == Init => RewindInv
  BY DEF Init, RewindInv

LEMMA RewindStep == TypeOK /\ GuardInv /\ RewindInv /\ [Next]_vars => RewindInv'
<1> SUFFICES ASSUME TypeOK, GuardInv, RewindInv, [Next]_vars PROVE RewindInv' OBVIOUS
<1> USE DEF RewindInv
<1>q. ASSUME pc # "idle", pc' # "guard", UNCHANGED from,
             checkpoint' \in {checkpoint, NoCheckpoint}
      PROVE  RewindInv'
  BY <1>q DEF TypeOK, NoCheckpoint, Block
<1>e. ASSUME pc' = "idle" PROVE RewindInv'
  BY <1>e
<1>1. CASE BeginSync
  <2>1. StartBlock \in Nat \ {0}
    BY OptionsAssumption DEF OptionsAssumption
  <2> QED BY <1>1, <2>1 DEF BeginSync, TypeOK, Block
<1>2. CASE ReadCheckpointHash
  BY <1>2 DEF ReadCheckpointHash, CheckpointIsCanonical
<1>3. CASE RewindToGuard
  <2>1. PICK b \in Nat \ {0} : /\ RewindFrom(b)
                              /\ from' = IF checkpoint'.block = 0 THEN b ELSE checkpoint'.block + 1
    BY <1>3, OptionsAssumption DEF OptionsAssumption, RewindToGuard, TypeOK, Block
  <2>2. checkpoint'.block \in Nat
    BY <2>1, RewindTypes DEF Block
  <2> QED BY <1>3, <2>1, <2>2 DEF RewindToGuard
<1>4. CASE HaltAtGuard BY <1>4, <1>e DEF HaltAtGuard, EndSync
<1>5. CASE RepairFacts BY <1>5, <1>q DEF RepairFacts
<1>6. CASE ReplaceEdges("reproject", "batch") \/ ReplaceEdges("project", "guardRead")
  BY <1>6, <1>q DEF ReplaceEdges
<1>7. CASE FinishSync BY <1>7, <1>e DEF FinishSync, EndSync
<1>8. CASE BeginBatch BY <1>8, <1>q DEF BeginBatch
<1>9. CASE CatchUp BY <1>9, <1>q DEF CatchUp
<1>10. CASE CheckLaunchBlocks BY <1>10, <1>q, <1>e DEF CheckLaunchBlocks, EndSync
<1>11. CASE CheckAfterRead BY <1>11, <1>q, <1>e DEF CheckAfterRead, EndSync
<1>12. CASE PutLaunch BY <1>12, <1>q, <1>e DEF PutLaunch, EndSync
<1>13. CASE PutFact BY <1>13, <1>q DEF PutFact
<1>14. CASE AllStored BY <1>14, <1>q DEF AllStored
<1>15. CASE ReadGuardHash BY <1>15, <1>q DEF ReadGuardHash
<1>16. CASE CheckBeforeCommit BY <1>16, <1>q, <1>e DEF CheckBeforeCommit, EndSync
<1>17. CASE AuthorityHolds BY <1>17, <1>q DEF AuthorityHolds
<1>18. CASE AuthorityLost BY <1>18, <1>e DEF AuthorityLost, EndSync
<1>19. CASE CommitCheckpoint BY <1>19 DEF CommitCheckpoint, TypeOK, Block
<1>20. CASE Abort BY <1>20, <1>e DEF Abort, EndSync
<1>21. CASE ChainGrows
  BY <1>21 DEF ChainGrows, Mine, CheckpointIsCanonical
<1>22. CASE ChainReorganises
  <2>1. PICK p \in Block : Reorg(p)
    BY <1>22 DEF ChainReorganises
  <2>2. fork'[checkpoint.block] \in {NewestFork + 1, fork[checkpoint.block]}
    BY <2>1 DEF Reorg, TypeOK
  <2>3. CheckpointIsCanonical' => CheckpointIsCanonical
    BY <1>22, <2>2, NewestForkInNat
       DEF ChainReorganises, CheckpointIsCanonical, GuardInv, HashesAreOld, TypeOK
  <2> QED BY <1>22, <2>3 DEF ChainReorganises
<1>23. CASE UNCHANGED vars
  BY <1>23 DEF vars, CheckpointIsCanonical
<1> QED
  BY <1>1, <1>2, <1>3, <1>4, <1>5, <1>6, <1>7, <1>8, <1>9, <1>10, <1>11, <1>12, <1>13,
     <1>14, <1>15, <1>16, <1>17, <1>18, <1>19, <1>20, <1>21, <1>22, <1>23
     DEF Next, SyncStep, SyncFails

LEMMA TouchStep ==
    ASSUME TypeOK, RewindInv, [Next]_vars
    PROVE  TouchIsJustified
<1> SUFFICES ASSUME NEW l \in Launch,
                    rows[l].block \in 1..checkpoint.block, rows'[l] # rows[l]
             PROVE  /\ ~ CheckpointIsCanonical
                    /\ fork[checkpoint.guard] = checkpoint.guardFork
                    /\ rows[l].block > checkpoint.guard
  BY DEF TouchIsJustified
<1>t. rows[l].block \in Nat /\ checkpoint.block \in Nat /\ checkpoint.guard \in Nat
  BY DEF TypeOK, Location, Block
<1>u. rows' # rows
  OBVIOUS
<1>1. ASSUME NEW b \in Nat, RewindFrom(b) PROVE rows[l].block >= b
  BY <1>1, <1>t DEF RewindFrom
<1>2. CASE RewindToGuard
  <2>1. PICK b \in Nat : RewindFrom(b) /\ b > checkpoint.guard
    BY <1>2, <1>t, OptionsAssumption DEF OptionsAssumption, RewindToGuard
  <2> QED BY <1>1, <1>2, <1>t, <2>1 DEF RewindToGuard, RewindInv
<1>3. CASE CheckBeforeCommit \/ AuthorityLost
  \* Only the batch is undone, and it starts above the checkpoint.
  <2>1. RewindFrom(from) /\ checkpoint.block < from
    BY <1>3, <1>u DEF CheckBeforeCommit, AuthorityLost, RewindInv
  <2> QED BY <2>1, <1>1, <1>t DEF TypeOK
<1>4. CASE PutLaunch
  \* Only a launch without a row gets one.
  <2>1. rows[l] = NoLocation
    BY <1>4 DEF PutLaunch, TypeOK
  <2> QED BY <2>1, <1>t DEF NoLocation
<1> QED
  BY <1>u, <1>2, <1>3, <1>4
     DEF Next, SyncStep, SyncFails, BeginSync, ReadCheckpointHash, HaltAtGuard, RepairFacts,
         ReplaceEdges, FinishSync, BeginBatch, CatchUp, CheckLaunchBlocks, CheckAfterRead,
         PutFact, AllStored, ReadGuardHash, AuthorityHolds, CommitCheckpoint, Abort,
         ChainGrows, ChainReorganises, vars

\* No crash, failed call or fork makes the loop delete or rewrite a committed
\* row, except above a guard that is still canonical.
THEOREM RewindsAreJustified == Spec => RewindIsJustified
<1>1. TypeOK /\ GuardInv /\ RewindInv /\ [Next]_vars => RewindInv' BY RewindStep
<1>2. TypeOK /\ GuardInv /\ [Next]_vars => GuardInv' BY GuardStep
<1>3. TypeOK /\ RewindInv /\ [Next]_vars => [TouchIsJustified]_vars BY TouchStep
<1> QED BY GuardInit, RewindInit, <1>1, <1>2, <1>3, TypeCorrect, PTL
        DEF Spec, RewindIsJustified

------------------------------------------------------------------------------
(* What the ledger holds, for every chain, option and bound: provenance is the *)
(* projection of the rows, no launch is missed, and outside the two windows    *)
(* without a hash comparison the rows are exactly those of the chain.          *)

Reading == {"launchBlocks", "afterRead", "put", "fact"}
Written == {"project", "guardRead", "beforeCommit"}
Verified == {"authority", "commit"}
Unrepaired == {"idle", "checkpoint", "guard", "repair"}
Projected == {"batch", "guardRead", "beforeCommit", "authority", "commit"}

USE DEF chainVars, ledgerVars, localVars

LEMMA HeightsAreNumbers == \A b \in Block : b \in Nat
  BY ChainAssumption DEF ChainAssumption, Block

\* The batch is stored in a total order.
LEMMA NextIsUnique ==
    ASSUME TypeOK, NEW k \in Launch, NEW l \in Launch, NextLaunch(k), NextLaunch(l)
    PROVE  k = l
<1>1. k \in Nat /\ l \in Nat
  BY ChainAssumption DEF ChainAssumption
<1>2. launches[k].block \in Nat /\ launches[l].block \in Nat
  <2>1. launches[k].block \in Block /\ launches[l].block \in Block
    BY DEF TypeOK, Location
  <2> QED BY <2>1, HeightsAreNumbers
<1>3. SUFFICES ASSUME k # l PROVE FALSE
  OBVIOUS
<1>4. \/ launches[k].block < launches[l].block
      \/ launches[k].block = launches[l].block /\ k < l
  BY <1>3 DEF NextLaunch
<1>5. \/ launches[l].block < launches[k].block
      \/ launches[l].block = launches[k].block /\ l < k
  BY <1>3 DEF NextLaunch
<1> QED BY <1>1, <1>2, <1>4, <1>5

\* While a sync runs its batch starts at a height above zero.
LEMMA BatchAboveZero ==
    ASSUME TypeOK, RewindInv, pc # "idle"
    PROVE  from \in Nat \ {0}
  BY DEF TypeOK, RewindInv, Block

------------------------------------------------------------------------------
(* Provenance.  Facts and edges are exact at the head of a batch and at its    *)
(* commit because in between only the launch in hand is ahead of its fact, and *)
(* no edge outlives a row: an edge points back, so the rewind that spares the  *)
(* row an edge starts from spares the row it points at.                        *)

BatchInHand == pc \in Reading => \A l \in todo : launches[l].block \in from..to

NextIsStored == pc = "fact" => \A l \in Launch : NextLaunch(l) => rows[l] = launches[l]

EdgesGoBack ==
    \A e \in edges : /\ {e[1], e[2]} \subseteq Stored
                     /\ rows[e[2]].block <= rows[e[1]].block

FactsKeptUp ==
    /\ facts \subseteq Stored
    /\ pc \notin Unrepaired \cup {"fact"} => facts = Stored
    /\ pc = "fact" => \A l \in Stored : l \in facts \/ NextLaunch(l)

EdgesKeptUp == pc \in Projected => edges = PreviousLaunchEdges(facts)

ProvenanceInv == BatchInHand /\ NextIsStored /\ EdgesGoBack /\ FactsKeptUp /\ EdgesKeptUp

LEMMA ProvenanceInit == Init => ProvenanceInv
  BY DEF Init, ProvenanceInv, BatchInHand, NextIsStored, EdgesGoBack, FactsKeptUp, EdgesKeptUp,
     Reading, Unrepaired, Projected, Stored, NoLocation

\* A step that leaves the three tables alone and skips none of the repairs.
LEMMA ProvenanceQuiet ==
    ASSUME ProvenanceInv, UNCHANGED <<rows, facts, edges>>,
           pc' \in Reading => pc \in Reading /\ UNCHANGED <<todo, launches, from, to>>,
           pc' # "fact",
           pc' \in Unrepaired \/ pc \notin Unrepaired \cup {"fact"},
           pc' \in Projected => pc \in Projected
    PROVE  ProvenanceInv'
<1>1. BatchInHand'
  BY DEF ProvenanceInv, BatchInHand
<1>2. NextIsStored'
  BY DEF NextIsStored
<1>3. EdgesGoBack'
  BY DEF ProvenanceInv, EdgesGoBack, Stored
<1>4. FactsKeptUp'
  BY DEF ProvenanceInv, FactsKeptUp, Stored
<1>5. EdgesKeptUp'
  BY DEF ProvenanceInv, EdgesKeptUp, PreviousLaunchEdges, Precedes
<1> QED BY <1>1, <1>2, <1>3, <1>4, <1>5 DEF ProvenanceInv

\* A step of the chain, or none.
LEMMA ProvenanceStill ==
    ASSUME ProvenanceInv, UNCHANGED <<ledgerVars, pc, localVars>>
    PROVE  ProvenanceInv'
<1>1. \A l \in Launch : NextLaunch(l)' = NextLaunch(l)
  BY DEF NextLaunch
<1>2. PreviousLaunchEdges(facts)' = PreviousLaunchEdges(facts)
  BY DEF PreviousLaunchEdges, Precedes
<1>3. Stored' = Stored /\ Stored \subseteq Launch
  BY DEF Stored
<1> QED BY <1>1, <1>2, <1>3
        DEF ProvenanceInv, BatchInHand, NextIsStored, EdgesGoBack, FactsKeptUp, EdgesKeptUp

\* A rewind that ends the sync, or sends it to the repair.
LEMMA ProvenanceRewind ==
    ASSUME TypeOK, ProvenanceInv, NEW b \in Nat, RewindFrom(b), pc' \in Unrepaired
    PROVE  ProvenanceInv'
<1> DEFINE kept == {l \in Launch : rows[l].block < b}
<1>1. /\ rows' = [l \in Launch |-> IF l \in kept THEN rows[l] ELSE NoLocation]
      /\ facts' = facts \cap kept
      /\ edges' = {e \in edges : e[1] \in kept}
  BY DEF RewindFrom
<1>2. \A l \in kept : rows'[l] = rows[l]
  BY <1>1
<1>3. Stored \cap kept \subseteq Stored'
  BY <1>2 DEF Stored
<1>4. EdgesGoBack'
  <2> SUFFICES ASSUME NEW e \in edges' PROVE {e[1], e[2]} \subseteq Stored' /\ rows'[e[2]].block <= rows'[e[1]].block
    BY DEF EdgesGoBack
  <2>1. e \in edges /\ e[1] \in kept
    BY <1>1
  <2>2. {e[1], e[2]} \subseteq Stored /\ rows[e[2]].block <= rows[e[1]].block
    BY <2>1 DEF ProvenanceInv, EdgesGoBack
  <2>3. rows[e[1]].block \in Nat /\ rows[e[2]].block \in Nat /\ rows[e[1]].block < b
    <3>1. e[1] \in kept /\ e[1] \in Launch /\ e[2] \in Launch
      BY <2>1, <2>2 DEF Stored
    <3>2. rows[e[1]].block \in Block /\ rows[e[2]].block \in Block
      BY <3>1 DEF TypeOK, Location
    <3>3. Block \subseteq Nat
      BY ChainAssumption DEF ChainAssumption, Block
    <3> QED BY ONLY <3>1, <3>2, <3>3
  <2>4. e[2] \in kept
    BY <2>2, <2>3 DEF Stored
  <2> QED BY <1>2, <1>3, <2>1, <2>2, <2>4
<1>5. FactsKeptUp'
  BY <1>1, <1>3 DEF ProvenanceInv, FactsKeptUp, Unrepaired
<1>6. BatchInHand' /\ NextIsStored' /\ EdgesKeptUp'
  BY DEF BatchInHand, NextIsStored, EdgesKeptUp, Reading, Unrepaired, Projected
<1> QED BY <1>4, <1>5, <1>6 DEF ProvenanceInv

\* The launch in hand gets its row ...
LEMMA ProvenancePutLaunch ==
    ASSUME TypeOK, RewindInv, ProvenanceInv, PutLaunch
    PROVE  ProvenanceInv'
<1>1. PICK l \in Launch :
          /\ NextLaunch(l)
          /\ IF rows[l] \in {NoLocation, launches[l]}
             THEN /\ rows' = [rows EXCEPT ![l] = launches[l]]
                  /\ pc' = "fact"
                  /\ UNCHANGED localVars
             ELSE EndSync /\ UNCHANGED rows
  BY DEF PutLaunch
<1>2. pc = "put" /\ UNCHANGED <<facts, edges>>
  BY DEF PutLaunch
<1>3. CASE rows[l] \in {NoLocation, launches[l]}
  <2>1. /\ rows' = [rows EXCEPT ![l] = launches[l]] /\ pc' = "fact"
        /\ UNCHANGED <<from, to, todo, launches>>
    BY <1>1, <1>3
  <2>2. rows'[l] = launches[l] /\ rows'[l].block # 0
    <3>1. launches[l].block \in from..to
      BY <1>1, <1>2 DEF ProvenanceInv, BatchInHand, Reading, NextLaunch
    <3>2. from \in Nat \ {0}
      BY <1>2, BatchAboveZero
    <3> QED BY <2>1, <3>1, <3>2 DEF TypeOK, Block
  <2>3. \A m \in Stored : rows'[m] = rows[m]
    BY <1>3, <2>1 DEF Stored, NoLocation, TypeOK
  <2>4. \A m \in Launch : m # l => rows'[m] = rows[m]
    BY <2>1 DEF TypeOK
  <2>5. Stored \subseteq Stored' /\ Stored' \subseteq Stored \cup {l}
    BY <2>3, <2>4 DEF Stored
  <2>6. \A m \in Launch : NextLaunch(m)' <=> NextLaunch(m)
    BY <2>1 DEF NextLaunch
  <2>7. BatchInHand'
    BY <1>2, <2>1 DEF ProvenanceInv, BatchInHand, Reading
  <2>8. NextIsStored'
    BY <1>1, <2>1, <2>2, <2>6, NextIsUnique DEF NextIsStored
  <2>9. EdgesGoBack'
    <3> SUFFICES ASSUME NEW e \in edges
                 PROVE  {e[1], e[2]} \subseteq Stored' /\ rows'[e[2]].block <= rows'[e[1]].block
      BY <1>2 DEF EdgesGoBack
    <3> QED BY <2>3, <2>5 DEF ProvenanceInv, EdgesGoBack
  <2>10. FactsKeptUp'
    BY <1>1, <1>2, <2>1, <2>5, <2>6 DEF ProvenanceInv, FactsKeptUp, Unrepaired
  <2>11. EdgesKeptUp'
    BY <2>1 DEF EdgesKeptUp, Projected
  <2> QED BY <2>7, <2>8, <2>9, <2>10, <2>11 DEF ProvenanceInv
<1>4. CASE rows[l] \notin {NoLocation, launches[l]}
  BY <1>1, <1>2, <1>4, ProvenanceQuiet DEF EndSync, Reading, Unrepaired, Projected
<1> QED BY <1>3, <1>4

\* ... and its fact.
LEMMA ProvenancePutFact ==
    ASSUME TypeOK, RewindInv, ProvenanceInv, PutFact
    PROVE  ProvenanceInv'
<1>1. PICK l \in Launch : NextLaunch(l) /\ facts' = facts \cup {l} /\ todo' = todo \ {l}
  BY DEF PutFact
<1>2. pc = "fact" /\ pc' = "put" /\ UNCHANGED <<rows, edges, from, to, launches>>
  BY DEF PutFact
<1>3. Stored' = Stored
  BY <1>2 DEF Stored
<1>4. l \in Stored
  <2>1. rows[l] = launches[l] /\ launches[l].block \in from..to
    BY <1>1, <1>2 DEF ProvenanceInv, NextIsStored, BatchInHand, Reading, NextLaunch
  <2>2. from \in Nat \ {0}
    BY <1>2, BatchAboveZero
  <2> QED BY <2>1, <2>2 DEF Stored, TypeOK, Block
<1>5. \A m \in Stored : m \in facts \/ m = l
  BY <1>1, <1>2, NextIsUnique DEF ProvenanceInv, FactsKeptUp, Stored
<1>6. FactsKeptUp'
  BY <1>1, <1>2, <1>3, <1>4, <1>5 DEF ProvenanceInv, FactsKeptUp
<1>7. EdgesGoBack'
  BY <1>2, <1>3 DEF ProvenanceInv, EdgesGoBack
<1>8. BatchInHand' /\ NextIsStored' /\ EdgesKeptUp'
  BY <1>1, <1>2 DEF ProvenanceInv, BatchInHand, NextIsStored, EdgesKeptUp, Reading, Projected
<1> QED BY <1>6, <1>7, <1>8 DEF ProvenanceInv

\* replaceProvenanceEdges.
LEMMA ProvenanceReplaceEdges ==
    ASSUME TypeOK, ProvenanceInv,
           ReplaceEdges("reproject", "batch") \/ ReplaceEdges("project", "guardRead")
    PROVE  ProvenanceInv'
<1>1. /\ pc \in {"reproject", "project"} /\ pc' \in {"batch", "guardRead"}
      /\ edges' = PreviousLaunchEdges(facts)
      /\ UNCHANGED <<rows, facts, from, to, todo, launches>>
  BY DEF ReplaceEdges
<1>2. facts = Stored /\ Stored' = Stored
  BY <1>1 DEF ProvenanceInv, FactsKeptUp, Unrepaired, Stored
<1>3. EdgesGoBack'
  <2> SUFFICES ASSUME NEW e \in edges'
               PROVE  {e[1], e[2]} \subseteq Stored /\ rows[e[2]].block <= rows[e[1]].block
    BY <1>1, <1>2 DEF EdgesGoBack
  <2>1. e \in Stored \X Stored /\ Precedes(e[2], e[1])
    BY <1>1, <1>2 DEF PreviousLaunchEdges
  <2>2. e[1] \in Stored /\ e[2] \in Stored
    BY <2>1
  <2>3. \A l \in Stored : rows[l].block \in Nat
    BY DEF Stored, TypeOK, Location, Block
  <2> QED BY <2>1, <2>2, <2>3 DEF Precedes
<1>4. EdgesKeptUp'
  BY <1>1 DEF EdgesKeptUp, PreviousLaunchEdges, Precedes
<1>5. FactsKeptUp' /\ BatchInHand' /\ NextIsStored'
  BY <1>1, <1>2 DEF FactsKeptUp, BatchInHand, NextIsStored, Reading, Unrepaired
<1> QED BY <1>3, <1>4, <1>5 DEF ProvenanceInv

LEMMA ProvenanceStep == TypeOK /\ RewindInv /\ ProvenanceInv /\ [Next]_vars => ProvenanceInv'
<1> SUFFICES ASSUME TypeOK, RewindInv, ProvenanceInv, [Next]_vars PROVE ProvenanceInv' OBVIOUS
<1> USE DEF Reading, Unrepaired, Projected
<1>1. CASE BeginSync BY <1>1, ProvenanceQuiet DEF BeginSync
<1>2. CASE ReadCheckpointHash BY <1>2, ProvenanceQuiet DEF ReadCheckpointHash
<1>3. CASE RewindToGuard
  <2>1. PICK b \in Nat : RewindFrom(b)
    BY <1>3, OptionsAssumption DEF OptionsAssumption, RewindToGuard, TypeOK, Block
  <2> QED BY <1>3, <2>1, ProvenanceRewind DEF RewindToGuard
<1>4. CASE HaltAtGuard BY <1>4, ProvenanceQuiet DEF HaltAtGuard, EndSync
<1>5. CASE RepairFacts
  <2>1. /\ pc' = "reproject" /\ facts' = Stored /\ UNCHANGED <<rows, edges>> /\ Stored' = Stored
    BY <1>5 DEF RepairFacts, Stored
  <2> QED BY <2>1 DEF ProvenanceInv, BatchInHand, NextIsStored, EdgesGoBack, FactsKeptUp, EdgesKeptUp
<1>6. CASE ReplaceEdges("reproject", "batch") \/ ReplaceEdges("project", "guardRead")
  BY <1>6, ProvenanceReplaceEdges
<1>7. CASE FinishSync BY <1>7, ProvenanceQuiet DEF FinishSync, EndSync
<1>8. CASE BeginBatch BY <1>8, ProvenanceQuiet DEF BeginBatch
<1>9. CASE CatchUp
  <2>1. /\ pc = "catchUp" /\ pc' = "launchBlocks" /\ UNCHANGED <<rows, facts, edges, from, to>>
        /\ todo' = {l \in Launch : place[l] \in from..to}
        /\ launches' = [l \in Launch |-> IF l \in todo' THEN OnChain(l) ELSE NoLocation]
    BY <1>9 DEF CatchUp
  <2>2. BatchInHand'
    BY <2>1 DEF BatchInHand, OnChain
  <2> QED BY <2>1, <2>2 DEF ProvenanceInv, NextIsStored, EdgesGoBack, FactsKeptUp, EdgesKeptUp, Stored
<1>10. CASE CheckLaunchBlocks BY <1>10, ProvenanceQuiet DEF CheckLaunchBlocks, EndSync
<1>11. CASE CheckAfterRead BY <1>11, ProvenanceQuiet DEF CheckAfterRead, EndSync
<1>12. CASE PutLaunch BY <1>12, ProvenancePutLaunch
<1>13. CASE PutFact BY <1>13, ProvenancePutFact
<1>14. CASE AllStored BY <1>14, ProvenanceQuiet DEF AllStored
<1>15. CASE ReadGuardHash BY <1>15, ProvenanceQuiet DEF ReadGuardHash
<1>16. CASE CheckBeforeCommit
  <2>1. CASE fork[to] = boundary
    BY <1>16, <2>1, ProvenanceQuiet DEF CheckBeforeCommit
  <2>2. CASE fork[to] # boundary
    BY <1>16, <2>2, ProvenanceRewind DEF CheckBeforeCommit, EndSync, TypeOK
  <2> QED BY <2>1, <2>2
<1>17. CASE AuthorityHolds BY <1>17, ProvenanceQuiet DEF AuthorityHolds
<1>18. CASE AuthorityLost BY <1>18, ProvenanceRewind DEF AuthorityLost, EndSync, TypeOK
<1>19. CASE CommitCheckpoint BY <1>19, ProvenanceQuiet DEF CommitCheckpoint
<1>20. CASE Abort BY <1>20, ProvenanceQuiet DEF Abort, EndSync
<1>21. CASE ChainGrows BY <1>21, ProvenanceStill DEF ChainGrows
<1>22. CASE ChainReorganises BY <1>22, ProvenanceStill DEF ChainReorganises
<1>23. CASE UNCHANGED vars BY <1>23, ProvenanceStill DEF vars
<1> QED
  BY <1>1, <1>2, <1>3, <1>4, <1>5, <1>6, <1>7, <1>8, <1>9, <1>10, <1>11, <1>12, <1>13,
     <1>14, <1>15, <1>16, <1>17, <1>18, <1>19, <1>20, <1>21, <1>22, <1>23
     DEF Next, SyncStep, SyncFails

\* What every step of ingestion preserves, so far.
LEMMA IngestionInvariant == Spec => [](TypeOK /\ GuardInv /\ RewindInv)
<1>1. TypeOK /\ GuardInv /\ [Next]_vars => GuardInv' BY GuardStep
<1>2. TypeOK /\ GuardInv /\ RewindInv /\ [Next]_vars => RewindInv' BY RewindStep
<1> QED BY GuardInit, RewindInit, <1>1, <1>2, TypeCorrect, PTL DEF Spec

LEMMA ProvenanceInvariant == Spec => []ProvenanceInv
<1>1. TypeOK /\ RewindInv /\ ProvenanceInv /\ [Next]_vars => ProvenanceInv' BY ProvenanceStep
<1> QED BY ProvenanceInit, IngestionInvariant, <1>1, PTL DEF Spec

\* Whenever a batch begins or commits, facts and edges are those of the stored
\* launches, whatever crash, failed call or rewind came before.
THEOREM ProvenanceIsExact == Spec => []ProjectionExact
<1>1. ProvenanceInv => ProjectionExact
  BY DEF ProvenanceInv, FactsKeptUp, EdgesKeptUp, ProjectionExact, Unrepaired, Projected
<1> QED BY ProvenanceInvariant, <1>1, PTL

\* No edge outlives a launch it names, also between a rewind and the next repair.
THEOREM EdgesAreOfRows == Spec => []EdgesReferToLedger
<1>1. ProvenanceInv => EdgesReferToLedger
  BY DEF ProvenanceInv, EdgesGoBack, EdgesReferToLedger
<1> QED BY ProvenanceInvariant, <1>1, PTL

------------------------------------------------------------------------------
(* Coverage.  A height counts as read when a batch saw the same boundary       *)
(* before its logs were read and after they were stored.  What the batch has   *)
(* stored in between is then what the chain holds up to that boundary: a fork  *)
(* below it would have changed the boundary hash, and for good.                *)

InBatch == {"catchUp"} \cup Reading \cup Written \cup Verified

BoundaryHolds == fork[to] = boundary

HeightsRead ==
    /\ \A b \in Block : scanned[b] <= NewestFork /\ (scanned[b] # 0 => b \in 1..head)
    /\ pc # "idle" => target <= head
    /\ pc \in InBatch => from <= to /\ to <= head

ScannedUpTo(n) == \A b \in Block : b \in StartBlock..n => scanned[b] # 0

Contiguous ==
    /\ checkpoint.block # 0 => checkpoint.block >= StartBlock
    /\ ScannedUpTo(checkpoint.block)
    /\ pc # "idle" => from >= StartBlock /\ ScannedUpTo(from - 1)
    /\ pc \in Verified => ScannedUpTo(to)

ScannedIsStored ==
    \A b \in Block : scanned[b] = fork[b] =>
        \A l \in Launch : place[l] = b => rows[l] = OnChain(l)

BatchIsOnChain ==
    pc \in Reading /\ BoundaryHolds =>
        \A l \in Launch :
            /\ place[l] \in from..to => l \in todo \/ rows[l] = OnChain(l)
            /\ l \in todo => launches[l] = OnChain(l)

BatchIsStored ==
    pc \in Written /\ BoundaryHolds =>
        \A l \in Launch : place[l] \in from..to => rows[l] = OnChain(l)

CoverInv == HeightsRead /\ Contiguous /\ ScannedIsStored /\ BatchIsOnChain /\ BatchIsStored

LEMMA CoverInit == Init => CoverInv
<1> SUFFICES ASSUME Init PROVE CoverInv OBVIOUS
<1>1. StartBlock \in Nat \ {0} /\ MaxBlock \in Nat
  BY ChainAssumption, OptionsAssumption DEF ChainAssumption, OptionsAssumption
<1> QED BY <1>1 DEF Init, ChainInit, CoverInv, HeightsRead, Contiguous, ScannedUpTo, ScannedIsStored,
        BatchIsOnChain, BatchIsStored, NoCheckpoint, NewestFork, InBatch, Reading, Written, Verified,
        Block

\* The sync moves on without touching what the invariant is about ...
LEMMA CoverQuiet ==
    ASSUME CoverInv,
           UNCHANGED <<chainVars, rows, checkpoint, scanned, target, from, to, boundary,
                       launches, todo>>,
           pc # "idle",
           pc' \in InBatch => pc \in InBatch,
           pc' \in Reading => pc \in Reading,
           pc' \in Written => pc \in Written,
           pc' \in Verified => pc \in Verified
    PROVE  CoverInv'
  BY DEF CoverInv, HeightsRead, Contiguous, ScannedUpTo, ScannedIsStored, BatchIsOnChain,
     BatchIsStored, BoundaryHolds, OnChain, NewestFork

\* ... or ends.
LEMMA CoverEnd ==
    ASSUME CoverInv, UNCHANGED <<chainVars, rows, checkpoint, scanned>>, pc' = "idle"
    PROVE  CoverInv'
  BY DEF CoverInv, HeightsRead, Contiguous, ScannedUpTo, ScannedIsStored, BatchIsOnChain,
     BatchIsStored, OnChain, NewestFork, InBatch, Reading, Written, Verified

\* The chain up to height n is as it was.
Untouched(n) ==
    /\ \A b \in Block : b <= n => fork'[b] = fork[b]
    /\ \A l \in Launch :
          place[l] \in 1..n \/ place'[l] \in 1..n => place'[l] = place[l]

\* A hash that was read at a mined height and is still canonical vouches for the
\* whole chain below it.
LEMMA ChainStepBelow ==
    ASSUME TypeOK, GuardInv, ChainGrows \/ ChainReorganises,
           NEW n \in Block, n <= head, fork'[n] <= NewestFork
    PROVE  Untouched(n)
<1>n. n \in Nat /\ head \in Nat
  BY DEF TypeOK, ChainTypeOK, Block
<1>1. CASE ChainGrows
  <2>1. PICK mined \in SUBSET {l \in Launch : place[l] = 0} :
           place' = [l \in Launch |-> IF l \in mined THEN head + 1 ELSE place[l]]
    BY <1>1 DEF ChainGrows, Mine
  <2>2. UNCHANGED fork
    BY <1>1 DEF ChainGrows, Mine
  <2> QED BY <1>n, <2>1, <2>2 DEF Untouched
<1>2. CASE ChainReorganises
  <2>1. PICK p \in Block : Reorg(p)
    BY <1>2 DEF ChainReorganises
  <2>2. /\ fork' = [b \in Block |-> IF b >= p THEN NewestFork + 1 ELSE fork[b]]
        /\ p \in Nat \ {0}
    BY <2>1 DEF Reorg, Block
  <2>3. n < p
    BY <1>n, <2>2, NewestForkInNat
  <2>4. PICK moved \in [{l \in Launch : place[l] >= p} -> {0} \cup p..head] :
           place' = [l \in Launch |-> IF l \in DOMAIN moved THEN moved[l] ELSE place[l]]
    BY <2>1 DEF Reorg
  <2>5. \A l \in Launch : IF place[l] >= p THEN place'[l] \in {0} \cup p..head
                          ELSE place'[l] = place[l]
    BY <2>4
  <2>6. \A l \in Launch : place[l] \in Nat
    BY DEF TypeOK, ChainTypeOK, Block
  <2>7. \A b \in Block : b <= n => fork'[b] = fork[b]
    BY <1>n, <2>2, <2>3 DEF Block
  <2>8. \A l \in Launch :
          place[l] \in 1..n \/ place'[l] \in 1..n => place'[l] = place[l]
    BY <1>n, <2>2, <2>3, <2>5, <2>6
  <2> QED BY <2>7, <2>8 DEF Untouched
<1> QED BY <1>1, <1>2

LEMMA ChainStepAges ==
    ASSUME TypeOK, ChainGrows \/ ChainReorganises
    PROVE  head <= head' /\ NewestFork <= NewestFork'
<1>1. head \in Nat /\ MaxBlock \in Block
  BY ChainAssumption DEF ChainAssumption, TypeOK, ChainTypeOK, Block
<1>2. CASE ChainGrows
  BY <1>1, <1>2, NewestForkInNat DEF ChainGrows, Mine, NewestFork
<1>3. CASE ChainReorganises
  <2>1. PICK p \in Block : Reorg(p)
    BY <1>3 DEF ChainReorganises
  <2>2. head' = head /\ NewestFork' \in {NewestFork, NewestFork + 1}
    BY <1>1, <2>1 DEF Reorg, NewestFork
  <2> QED BY <1>1, <2>2, NewestForkInNat
<1> QED BY <1>2, <1>3

LEMMA CoverChain ==
    ASSUME TypeOK, TypeOK', GuardInv, RewindInv, ProvenanceInv, CoverInv,
           ChainGrows \/ ChainReorganises
    PROVE  CoverInv'
<1>1. UNCHANGED <<rows, checkpoint, scanned, pc, target, from, to, boundary, launches, todo>>
  BY DEF ChainGrows, ChainReorganises
<1>2. HeightsRead'
  <2>1. head \in Nat /\ head' \in Nat /\ NewestFork \in Nat /\ NewestFork' \in Nat
    BY ChainAssumption DEF ChainAssumption, TypeOK, ChainTypeOK, NewestFork, Block
  <2>2. target \in Nat /\ to \in Nat /\ \A b \in Block : scanned[b] \in Nat
    BY HeightsAreNumbers DEF TypeOK
  <2>3. \A b \in Block : b \in Nat
    BY DEF Block
  <2>4. head <= head' /\ NewestFork <= NewestFork'
    BY ChainStepAges
  <2>5. ASSUME NEW b \in Block
        PROVE  scanned'[b] <= NewestFork' /\ (scanned'[b] # 0 => b \in 1..head')
    <3>1. scanned[b] <= NewestFork /\ (scanned[b] # 0 => b \in 1..head) /\ scanned[b] \in Nat
      BY <2>2 DEF CoverInv, HeightsRead
    <3> QED BY <1>1, <2>1, <2>3, <2>4, <3>1
  <2>6. /\ pc' # "idle" => target' <= head'
        /\ pc' \in InBatch => from' <= to' /\ to' <= head'
    BY <1>1, <2>1, <2>2, <2>4 DEF CoverInv, HeightsRead
  <2> QED BY <2>5, <2>6 DEF HeightsRead
<1>3. Contiguous'
  BY <1>1 DEF CoverInv, Contiguous, ScannedUpTo
<1>4. ScannedIsStored'
  <2> SUFFICES ASSUME NEW b \in Block, scanned[b] = fork'[b],
                      NEW l \in Launch, place'[l] = b
               PROVE  rows[l] = OnChain(l)'
    BY <1>1 DEF ScannedIsStored
  <2>1. scanned[b] # 0
    BY DEF TypeOK, ChainTypeOK
  <2>2. b \in 1..head /\ fork'[b] <= NewestFork
    BY <2>1 DEF CoverInv, HeightsRead
  <2>3. Untouched(b)
    BY <2>2, ChainStepBelow, HeightsAreNumbers DEF TypeOK, ChainTypeOK
  <2>4. fork[b] = scanned[b] /\ place[l] = b
    BY <2>2, <2>3 DEF Untouched
  <2> QED BY <2>4 DEF CoverInv, ScannedIsStored, OnChain
<1>5. ASSUME pc \in InBatch, fork'[to] = boundary
      PROVE  Untouched(to) /\ BoundaryHolds
  <2>1. to \in Block /\ to <= head /\ boundary <= NewestFork
    BY <1>5 DEF TypeOK, CoverInv, HeightsRead, GuardInv, HashesAreOld
  <2>2. Untouched(to)
    BY <1>5, <2>1, ChainStepBelow
  <2> QED BY <1>5, <2>1, <2>2 DEF Untouched, BoundaryHolds, Block
<1>6. ASSUME pc \in InBatch, Untouched(to), NEW l \in Launch,
             place[l] \in from..to \/ place'[l] \in from..to
      PROVE  OnChain(l)' = OnChain(l)
  <2>1. from \in Nat \ {0} /\ to \in Nat
    BY <1>6, BatchAboveZero, HeightsAreNumbers DEF TypeOK, InBatch, Reading, Written, Verified
  <2>2. place'[l] = place[l] /\ place[l] \in from..to
    BY <1>6, <2>1 DEF Untouched
  <2>3. place[l] \in Block /\ place[l] <= to
    BY <2>2, <2>1 DEF TypeOK, ChainTypeOK
  <2> QED BY <1>6, <2>2, <2>3 DEF Untouched, OnChain
<1>7. BatchIsOnChain'
  <2> SUFFICES ASSUME pc \in Reading, fork'[to] = boundary, NEW l \in Launch
               PROVE  /\ place'[l] \in from..to => l \in todo \/ rows[l] = OnChain(l)'
                      /\ l \in todo => launches[l] = OnChain(l)'
    BY <1>1 DEF BatchIsOnChain, BoundaryHolds
  <2>1. Untouched(to) /\ BoundaryHolds
    BY <1>5 DEF InBatch
  <2>2. /\ place[l] \in from..to => l \in todo \/ rows[l] = OnChain(l)
        /\ l \in todo => launches[l] = OnChain(l)
    BY <2>1 DEF CoverInv, BatchIsOnChain
  <2>3. l \in todo => place[l] \in from..to
    BY <2>2 DEF ProvenanceInv, BatchInHand, OnChain
  <2>4. place'[l] \in from..to => place[l] \in from..to
    <3>1. from \in Nat \ {0} /\ to \in Nat
      BY BatchAboveZero, HeightsAreNumbers DEF TypeOK, Reading
    <3> QED BY <2>1, <3>1 DEF Untouched
  <2> QED BY <1>6, <2>1, <2>2, <2>3, <2>4 DEF InBatch
<1>8. BatchIsStored'
  <2> SUFFICES ASSUME pc \in Written, fork'[to] = boundary, NEW l \in Launch,
                      place'[l] \in from..to
               PROVE  rows[l] = OnChain(l)'
    BY <1>1 DEF BatchIsStored, BoundaryHolds
  <2>1. Untouched(to) /\ BoundaryHolds
    BY <1>5 DEF InBatch
  <2>2. place[l] \in from..to
    <3>1. from \in Nat \ {0} /\ to \in Nat
      BY BatchAboveZero, HeightsAreNumbers DEF TypeOK, Written
    <3> QED BY <2>1, <3>1 DEF Untouched
  <2> QED BY <1>6, <2>1, <2>2 DEF CoverInv, BatchIsStored, InBatch
<1> QED BY <1>2, <1>3, <1>4, <1>7, <1>8 DEF CoverInv

\* A rewind forgets what it read above b together with the rows it deletes.
LEMMA CoverRewind ==
    ASSUME TypeOK, CoverInv, NEW b \in Nat \ {0}, RewindFrom(b), UNCHANGED chainVars
    PROVE  /\ \A k \in Block : scanned'[k] = IF k >= b THEN 0 ELSE scanned[k]
           /\ \A k \in Block : scanned'[k] <= NewestFork' /\ (scanned'[k] # 0 => k \in 1..head')
           /\ ScannedUpTo(checkpoint.block)'
           /\ ScannedIsStored'
           /\ checkpoint' \in {checkpoint, NoCheckpoint}
           /\ checkpoint'.block < b
<1> DEFINE kept == {l \in Launch : rows[l].block < b}
<1>1. /\ rows' = [l \in Launch |-> IF l \in kept THEN rows[l] ELSE NoLocation]
      /\ scanned' = [k \in Block |-> IF k >= b THEN 0 ELSE scanned[k]]
      /\ checkpoint' = IF checkpoint.block >= b THEN NoCheckpoint ELSE checkpoint
  BY DEF RewindFrom
<1>2. \A k \in Block : scanned'[k] = IF k >= b THEN 0 ELSE scanned[k]
  BY <1>1
<1>3. \A k \in Block : scanned'[k] <= NewestFork' /\ (scanned'[k] # 0 => k \in 1..head')
  <2>1. NewestFork' = NewestFork /\ NewestFork \in Nat /\ head' = head
    BY NewestForkInNat DEF NewestFork
  <2> QED BY <1>2, <2>1 DEF CoverInv, HeightsRead
<1>t. checkpoint.block \in Nat
  BY HeightsAreNumbers DEF TypeOK
<1>4. checkpoint' \in {checkpoint, NoCheckpoint} /\ checkpoint'.block < b
  BY <1>1, <1>t DEF NoCheckpoint
<1>5. ScannedUpTo(checkpoint.block)'
  <2> SUFFICES ASSUME NEW k \in Block, k \in StartBlock..checkpoint'.block PROVE scanned'[k] # 0
    BY DEF ScannedUpTo
  <2>1. StartBlock \in Nat \ {0} /\ k \in Nat
    BY OptionsAssumption, HeightsAreNumbers DEF OptionsAssumption
  <2>2. checkpoint' = checkpoint
    BY <1>4, <2>1 DEF NoCheckpoint
  <2>3. k < b
    BY <1>4, <1>t, <2>1, <2>2
  <2> QED BY <1>2, <2>1, <2>2, <2>3 DEF CoverInv, Contiguous, ScannedUpTo
<1>6. ScannedIsStored'
  <2> SUFFICES ASSUME NEW k \in Block, scanned'[k] = fork[k], NEW l \in Launch, place[l] = k
               PROVE  rows'[l] = OnChain(l)
    BY DEF ScannedIsStored, OnChain
  <2>1. k < b /\ scanned[k] = fork[k]
    BY <1>2, HeightsAreNumbers DEF TypeOK, ChainTypeOK
  <2>2. rows[l] = OnChain(l)
    BY <2>1 DEF CoverInv, ScannedIsStored
  <2>3. l \in kept
    BY <2>1, <2>2 DEF OnChain
  <2> QED BY <1>1, <2>2, <2>3
<1> QED BY <1>2, <1>3, <1>4, <1>5, <1>6

LEMMA CoverRewindEnds ==
    ASSUME TypeOK, CoverInv, NEW b \in Nat \ {0}, RewindFrom(b), UNCHANGED chainVars, pc' = "idle"
    PROVE  CoverInv'
<1>1. /\ \A k \in Block : scanned'[k] <= NewestFork' /\ (scanned'[k] # 0 => k \in 1..head')
      /\ ScannedUpTo(checkpoint.block)' /\ ScannedIsStored'
      /\ checkpoint' \in {checkpoint, NoCheckpoint}
  BY CoverRewind
<1> QED BY <1>1 DEF CoverInv, HeightsRead, Contiguous, BatchIsOnChain, BatchIsStored, InBatch,
        Reading, Written, Verified, NoCheckpoint

\* A sync begins where the heights read end, also when a rewind deleted the
\* checkpoint: then it begins right above the guard.
LEMMA CoverBegins ==
    ASSUME TypeOK, GuardInv, CoverInv, BeginSync \/ RewindToGuard
    PROVE  CoverInv'
<1>s. StartBlock \in Nat \ {0} /\ Confirmations \in Nat
  BY OptionsAssumption DEF OptionsAssumption
<1>c. checkpoint.block \in Nat /\ checkpoint.guard \in Nat /\ checkpoint.guard <= checkpoint.block
  BY HeightsAreNumbers DEF TypeOK, GuardInv
<1>1. CASE BeginSync
  <2>1. /\ UNCHANGED <<chainVars, rows, checkpoint, scanned>>
        /\ target' = head - Confirmations
        /\ from' = IF checkpoint.block = 0 THEN StartBlock ELSE checkpoint.block + 1
        /\ pc' \in {"repair", "checkpoint"}
    BY <1>1 DEF BeginSync
  <2>2. HeightsRead'
    BY <1>s, <2>1, HeightsAreNumbers
       DEF CoverInv, HeightsRead, NewestFork, InBatch, Reading, Written, Verified, TypeOK, ChainTypeOK
  <2>3. from' >= StartBlock /\ ScannedUpTo(from - 1)'
    <3>1. CASE checkpoint.block = 0
      BY <1>s, <2>1, <3>1 DEF ScannedUpTo
    <3>2. CASE checkpoint.block # 0
      <4>1. from' - 1 = checkpoint.block /\ from' >= StartBlock
        BY <1>s, <1>c, <2>1, <3>2 DEF CoverInv, Contiguous
      <4> QED BY <2>1, <4>1 DEF CoverInv, Contiguous, ScannedUpTo
    <3> QED BY <3>1, <3>2
  <2> QED BY <2>1, <2>2, <2>3
          DEF CoverInv, Contiguous, ScannedUpTo, ScannedIsStored, BatchIsOnChain, BatchIsStored, OnChain,
              Reading, Written, Verified
<1>2. CASE RewindToGuard
  <2> DEFINE b == IF checkpoint.guard + 1 > StartBlock THEN checkpoint.guard + 1 ELSE StartBlock
  <2>1. /\ RewindFrom(b) /\ b \in Nat \ {0} /\ b >= StartBlock
        /\ from' = IF checkpoint'.block = 0 THEN b ELSE checkpoint'.block + 1
        /\ UNCHANGED <<chainVars, target>> /\ pc = "guard" /\ pc' = "repair"
    BY <1>s, <1>c, <1>2 DEF RewindToGuard
  <2> HIDE DEF b
  <2>2. /\ \A k \in Block : scanned'[k] = IF k >= b THEN 0 ELSE scanned[k]
        /\ \A k \in Block : scanned'[k] <= NewestFork' /\ (scanned'[k] # 0 => k \in 1..head')
        /\ ScannedUpTo(checkpoint.block)' /\ ScannedIsStored'
        /\ checkpoint' \in {checkpoint, NoCheckpoint}
    BY <2>1, CoverRewind
  <2>3. from' >= StartBlock /\ ScannedUpTo(from - 1)'
    <3>1. CASE checkpoint'.block = 0
      \* Up to the guard everything was read under the checkpoint.
      <4>1. ASSUME NEW k \in Block, k \in StartBlock..(b - 1) PROVE scanned'[k] # 0
        <5>1. k \in StartBlock..checkpoint.block
          BY <1>s, <1>c, <4>1 DEF b
        <5>2. scanned[k] # 0
          BY <5>1 DEF CoverInv, Contiguous, ScannedUpTo
        <5> QED BY <1>s, <2>1, <2>2, <4>1, <5>2
      <4> QED BY <2>1, <3>1, <4>1 DEF ScannedUpTo
    <3>2. CASE checkpoint'.block # 0
      <4>1. checkpoint' = checkpoint /\ from' - 1 = checkpoint'.block /\ from' >= StartBlock
        BY <1>s, <1>c, <2>1, <2>2, <3>2 DEF CoverInv, Contiguous, NoCheckpoint
      <4> QED BY <2>2, <4>1 DEF ScannedUpTo
    <3> QED BY <3>1, <3>2
  <2>4. HeightsRead'
    BY <2>1, <2>2 DEF CoverInv, HeightsRead, InBatch, Reading, Written, Verified
  <2>5. checkpoint'.block # 0 => checkpoint'.block >= StartBlock
    BY <2>2 DEF CoverInv, Contiguous, NoCheckpoint
  <2> QED BY <2>1, <2>2, <2>3, <2>4, <2>5
          DEF CoverInv, Contiguous, BatchIsOnChain, BatchIsStored, Reading, Written, Verified
<1> QED BY <1>1, <1>2

LEMMA CoverBeginBatch ==
    ASSUME TypeOK, CoverInv, BeginBatch
    PROVE  CoverInv'
<1>1. /\ pc = "batch" /\ pc' = "catchUp" /\ from <= target
      /\ to' = IF from + MaxBatch - 1 < target THEN from + MaxBatch - 1 ELSE target
      /\ UNCHANGED <<chainVars, rows, checkpoint, scanned, target, from, launches, todo>>
  BY DEF BeginBatch
<1>2. MaxBatch \in Nat \ {0} /\ from \in Nat /\ target \in Nat /\ head \in Nat
  BY OptionsAssumption, HeightsAreNumbers DEF OptionsAssumption, TypeOK, ChainTypeOK
<1>3. from' <= to' /\ to' <= head'
  BY <1>1, <1>2 DEF CoverInv, HeightsRead
<1> QED BY <1>1, <1>3
        DEF CoverInv, HeightsRead, Contiguous, ScannedUpTo, ScannedIsStored, BatchIsOnChain,
            BatchIsStored, NewestFork, OnChain, InBatch, Reading, Written, Verified

LEMMA CoverCatchUp ==
    ASSUME TypeOK, CoverInv, CatchUp
    PROVE  CoverInv'
<1>1. /\ pc = "catchUp" /\ pc' = "launchBlocks"
      /\ todo' = {l \in Launch : place[l] \in from..to}
      /\ launches' = [l \in Launch |-> IF l \in todo' THEN OnChain(l) ELSE NoLocation]
      /\ UNCHANGED <<chainVars, rows, checkpoint, scanned, target, from, to, boundary>>
  BY DEF CatchUp
<1>2. BatchIsOnChain'
  BY <1>1 DEF BatchIsOnChain, OnChain
<1> QED BY <1>1, <1>2
        DEF CoverInv, HeightsRead, Contiguous, ScannedUpTo, ScannedIsStored, BatchIsStored,
            NewestFork, OnChain, InBatch, Reading, Written, Verified

LEMMA CoverPutLaunch ==
    ASSUME TypeOK, CoverInv, PutLaunch
    PROVE  CoverInv'
<1>1. PICK l \in Launch :
          /\ NextLaunch(l)
          /\ IF rows[l] \in {NoLocation, launches[l]}
             THEN /\ rows' = [rows EXCEPT ![l] = launches[l]]
                  /\ pc' = "fact"
                  /\ UNCHANGED localVars
             ELSE EndSync /\ UNCHANGED rows
  BY DEF PutLaunch
<1>2. pc = "put" /\ UNCHANGED <<chainVars, checkpoint, scanned>>
  BY DEF PutLaunch
<1>3. CASE rows[l] \in {NoLocation, launches[l]}
  <2>1. /\ rows' = [rows EXCEPT ![l] = launches[l]] /\ pc' = "fact"
        /\ UNCHANGED <<target, from, to, boundary, todo, launches>>
    BY <1>1, <1>3
  \* A row that is already there does not change.
  <2>2. ASSUME NEW m \in Launch, rows[m] = OnChain(m), place[m] \in Nat \ {0}
        PROVE  rows'[m] = OnChain(m)
    BY <1>3, <2>1, <2>2 DEF OnChain, NoLocation, TypeOK
  <2>3. ScannedIsStored'
    <3> SUFFICES ASSUME NEW b \in Block, scanned[b] = fork[b], NEW m \in Launch, place[m] = b
                 PROVE  rows'[m] = OnChain(m)
      BY <1>2 DEF ScannedIsStored, OnChain
    <3>1. rows[m] = OnChain(m)
      BY DEF CoverInv, ScannedIsStored
    <3>2. b \in Nat \ {0}
      BY HeightsAreNumbers DEF CoverInv, HeightsRead, TypeOK, ChainTypeOK
    <3> QED BY <2>2, <3>1, <3>2
  <2>4. BatchIsOnChain'
    <3> SUFFICES ASSUME BoundaryHolds, NEW m \in Launch
                 PROVE  /\ place[m] \in from..to => m \in todo \/ rows'[m] = OnChain(m)
                        /\ m \in todo => launches[m] = OnChain(m)
      BY <1>2, <2>1 DEF BatchIsOnChain, BoundaryHolds, OnChain
    <3>1. /\ place[m] \in from..to => m \in todo \/ rows[m] = OnChain(m)
          /\ m \in todo => launches[m] = OnChain(m)
      BY <1>2 DEF CoverInv, BatchIsOnChain, Reading
    <3>2. place[m] \in from..to => place[m] \in Nat \ {0}
      <4>1. from >= StartBlock /\ StartBlock \in Nat \ {0} /\ from \in Nat /\ to \in Nat
        BY <1>2, OptionsAssumption, HeightsAreNumbers
           DEF CoverInv, Contiguous, OptionsAssumption, TypeOK
      <4> QED BY <4>1
    <3> QED BY <2>2, <3>1, <3>2
  <2> QED BY <1>2, <2>1, <2>3, <2>4
          DEF CoverInv, HeightsRead, Contiguous, ScannedUpTo, BatchIsStored,
              NewestFork, InBatch, Reading, Written, Verified
<1>4. CASE rows[l] \notin {NoLocation, launches[l]}
  BY <1>1, <1>2, <1>4, CoverEnd DEF EndSync
<1> QED BY <1>3, <1>4

LEMMA CoverPutFact ==
    ASSUME TypeOK, ProvenanceInv, CoverInv, PutFact
    PROVE  CoverInv'
<1>1. PICK l \in Launch : NextLaunch(l) /\ todo' = todo \ {l}
  BY DEF PutFact
<1>2. /\ pc = "fact" /\ pc' = "put"
      /\ UNCHANGED <<chainVars, rows, checkpoint, scanned, target, from, to, boundary, launches>>
  BY DEF PutFact
<1>3. rows[l] = launches[l] /\ l \in todo
  BY <1>1, <1>2 DEF ProvenanceInv, NextIsStored, NextLaunch
<1>4. BatchIsOnChain'
  BY <1>1, <1>2, <1>3 DEF CoverInv, BatchIsOnChain, BoundaryHolds, OnChain, Reading
<1> QED BY <1>2, <1>4
        DEF CoverInv, HeightsRead, Contiguous, ScannedUpTo, ScannedIsStored, BatchIsStored,
            NewestFork, OnChain, InBatch, Reading, Written, Verified

LEMMA CoverAllStored ==
    ASSUME CoverInv, AllStored
    PROVE  CoverInv'
<1>1. /\ pc = "put" /\ pc' = "project" /\ todo = {}
      /\ UNCHANGED <<chainVars, rows, checkpoint, scanned, localVars>>
  BY DEF AllStored
<1>2. BatchIsStored'
  BY <1>1 DEF CoverInv, BatchIsOnChain, BatchIsStored, BoundaryHolds, OnChain, Reading, Written
<1> QED BY <1>1, <1>2
        DEF CoverInv, HeightsRead, Contiguous, ScannedUpTo, ScannedIsStored, BatchIsOnChain,
            NewestFork, OnChain, InBatch, Reading, Written, Verified

\* The comparison that makes the batch count as read.
LEMMA CoverCheckBeforeCommit ==
    ASSUME TypeOK, GuardInv, RewindInv, CoverInv, CheckBeforeCommit
    PROVE  CoverInv'
<1>1. pc = "beforeCommit" /\ UNCHANGED chainVars
  BY DEF CheckBeforeCommit
<1>2. from \in Nat \ {0} /\ to \in Nat /\ head \in Nat
  BY <1>1, BatchAboveZero, HeightsAreNumbers DEF TypeOK, ChainTypeOK
<1>3. CASE fork[to] = boundary
  <2>1. /\ pc' = "authority"
        /\ scanned' = [b \in Block |-> IF b \in from..to THEN fork[b] ELSE scanned[b]]
        /\ UNCHANGED <<rows, checkpoint, target, from, to>>
    BY <1>3 DEF CheckBeforeCommit
  <2>2. \A b \in Block : fork[b] \in Nat \ {0} /\ fork[b] <= NewestFork
    BY DEF TypeOK, ChainTypeOK, GuardInv, HashesAreOld
  <2>3. HeightsRead'
    <3>1. ASSUME NEW b \in Block
          PROVE  scanned'[b] <= NewestFork /\ (scanned'[b] # 0 => b \in 1..head)
      <4>1. CASE b \in from..to
        BY <1>1, <1>2, <2>1, <2>2, <4>1 DEF CoverInv, HeightsRead, InBatch, Written
      <4>2. CASE b \notin from..to
        BY <2>1, <4>2 DEF CoverInv, HeightsRead
      <4> QED BY <4>1, <4>2
    <3> QED BY <1>1, <2>1, <3>1 DEF CoverInv, HeightsRead, NewestFork, InBatch, Written, Verified
  <2>4. Contiguous'
    <3>1. \A b \in Block : scanned[b] # 0 => scanned'[b] # 0
      BY <2>1, <2>2
    <3>2. \A b \in Block : b \in StartBlock..to => b \in StartBlock..(from - 1) \/ b \in from..to
      BY <1>2, HeightsAreNumbers
    <3>3. ScannedUpTo(to)'
      BY <1>1, <2>1, <2>2, <3>1, <3>2 DEF CoverInv, Contiguous, ScannedUpTo
    <3> QED BY <1>1, <2>1, <3>1, <3>3 DEF CoverInv, Contiguous, ScannedUpTo
  <2>5. ScannedIsStored'
    BY <1>1, <1>3, <2>1
       DEF CoverInv, ScannedIsStored, BatchIsStored, BoundaryHolds, OnChain, Written
  <2> QED BY <2>1, <2>3, <2>4, <2>5 DEF CoverInv, BatchIsOnChain, BatchIsStored, Reading, Written
<1>4. CASE fork[to] # boundary
  BY <1>1, <1>2, <1>4, CoverRewindEnds DEF CheckBeforeCommit, EndSync
<1> QED BY <1>3, <1>4

LEMMA CoverStep ==
    TypeOK /\ TypeOK' /\ GuardInv /\ RewindInv /\ ProvenanceInv /\ CoverInv /\ [Next]_vars => CoverInv'
<1> SUFFICES ASSUME TypeOK, TypeOK', GuardInv, RewindInv, ProvenanceInv, CoverInv, [Next]_vars
             PROVE  CoverInv'
  OBVIOUS
<1> USE DEF InBatch, Reading, Written, Verified
<1>1. CASE BeginSync \/ RewindToGuard BY <1>1, CoverBegins
<1>2. CASE ReadCheckpointHash BY <1>2, CoverQuiet DEF ReadCheckpointHash
<1>3. CASE HaltAtGuard BY <1>3, CoverEnd DEF HaltAtGuard, EndSync
<1>4. CASE RepairFacts BY <1>4, CoverQuiet DEF RepairFacts
<1>5. CASE ReplaceEdges("reproject", "batch") \/ ReplaceEdges("project", "guardRead")
  BY <1>5, CoverQuiet DEF ReplaceEdges
<1>6. CASE FinishSync BY <1>6, CoverEnd DEF FinishSync, EndSync
<1>7. CASE BeginBatch BY <1>7, CoverBeginBatch
<1>8. CASE CatchUp BY <1>8, CoverCatchUp
<1>9. CASE CheckLaunchBlocks BY <1>9, CoverQuiet, CoverEnd DEF CheckLaunchBlocks, EndSync
<1>10. CASE CheckAfterRead BY <1>10, CoverQuiet, CoverEnd DEF CheckAfterRead, EndSync
<1>11. CASE PutLaunch BY <1>11, CoverPutLaunch
<1>12. CASE PutFact BY <1>12, CoverPutFact
<1>13. CASE AllStored BY <1>13, CoverAllStored
<1>14. CASE ReadGuardHash BY <1>14, CoverQuiet DEF ReadGuardHash
<1>15. CASE CheckBeforeCommit BY <1>15, CoverCheckBeforeCommit
<1>16. CASE AuthorityHolds BY <1>16, CoverQuiet DEF AuthorityHolds
<1>17. CASE AuthorityLost
  BY <1>17, CoverRewindEnds, BatchAboveZero DEF AuthorityLost, EndSync
<1>18. CASE CommitCheckpoint
  <2>1. /\ pc = "commit" /\ pc' = "batch" /\ from' = to + 1 /\ checkpoint'.block = to
        /\ UNCHANGED <<chainVars, rows, scanned, target>>
    BY <1>18 DEF CommitCheckpoint
  <2>2. from \in Nat /\ to \in Nat /\ StartBlock \in Nat \ {0}
    BY OptionsAssumption, HeightsAreNumbers DEF OptionsAssumption, TypeOK
  <2>3. Contiguous'
    <3>1. from >= StartBlock /\ from <= to /\ ScannedUpTo(to)
      BY <2>1 DEF CoverInv, HeightsRead, Contiguous
    <3>2. from' - 1 = to /\ from' >= StartBlock /\ to >= StartBlock
      BY <2>1, <2>2, <3>1
    <3> QED BY <2>1, <3>1, <3>2 DEF Contiguous, ScannedUpTo
  <2> QED BY <2>1, <2>3
          DEF CoverInv, HeightsRead, ScannedIsStored, BatchIsOnChain, BatchIsStored, NewestFork, OnChain
<1>19. CASE Abort BY <1>19, CoverEnd DEF Abort, EndSync
<1>20. CASE ChainGrows \/ ChainReorganises BY <1>20, CoverChain
<1>21. CASE UNCHANGED vars
  BY <1>21 DEF vars, CoverInv, HeightsRead, Contiguous, ScannedUpTo, ScannedIsStored, BatchIsOnChain,
     BatchIsStored, BoundaryHolds, OnChain, NewestFork
<1> QED
  BY <1>1, <1>2, <1>3, <1>4, <1>5, <1>6, <1>7, <1>8, <1>9, <1>10, <1>11, <1>12, <1>13,
     <1>14, <1>15, <1>16, <1>17, <1>18, <1>19, <1>20, <1>21
     DEF Next, SyncStep, SyncFails

LEMMA CoverInvariant == Spec => []CoverInv
<1>1. TypeOK /\ TypeOK' /\ GuardInv /\ RewindInv /\ ProvenanceInv /\ CoverInv /\ [Next]_vars => CoverInv'
  BY CoverStep
<1> QED BY CoverInit, IngestionInvariant, ProvenanceInvariant, <1>1, PTL DEF Spec

\* No launch of a block that is still the one that was read is missing from the
\* ledger, however often a batch failed, was rewound or was read again.
THEOREM NothingIsMissed == Spec => []NothingMissed
<1>1. TypeOK /\ CoverInv => NothingMissed
  <2> SUFFICES ASSUME TypeOK, CoverInv, NEW b \in StartBlock..checkpoint.block
               PROVE  /\ scanned[b] # 0
                      /\ scanned[b] = fork[b] =>
                            \A l \in Launch : place[l] = b => rows[l] = OnChain(l)
    BY DEF NothingMissed
  <2>1. b \in Block
    BY OptionsAssumption, ChainAssumption
       DEF OptionsAssumption, ChainAssumption, TypeOK, Block
  <2> QED BY <2>1 DEF CoverInv, Contiguous, ScannedUpTo, ScannedIsStored
<1> QED BY CoverInvariant, TypeCorrect, <1>1, PTL

------------------------------------------------------------------------------
(* Exactness.  The two windows of unseenFork are the only way to an orphaned   *)
(* row under a canonical checkpoint.  Every other fork also changes a hash the *)
(* sync has in hand: the checkpoint's before the batches, the boundary's during*)
(* one.  Where it has none in hand (NoLongerChecked) the history variable      *)
(* watches the heights, and what a failed sync left is watched as well.        *)

Current(n) == \A b \in Block : b \in StartBlock..n => scanned[b] = fork[b]

NoOrphanUpTo(n) == \A l \in Launch : rows[l].block \in 1..n => rows[l] = OnChain(l)

Resuming == {"repair", "reproject", "batch"}
Collecting == {"catchUp"} \cup Reading \cup Written

\* What the checkpoint and its guard vouch for.
CheckpointVouches ==
    checkpoint.block # 0 =>
        /\ checkpoint.fork = scanned[checkpoint.block]
        /\ checkpoint.guardFork <= NewestFork
        /\ CheckpointIsCanonical => Current(checkpoint.block) /\ NoOrphanUpTo(checkpoint.block)
        /\ fork[checkpoint.guard] = checkpoint.guardFork => Current(checkpoint.guard)

\* What the sync in progress vouches for.
SyncVouches ==
    /\ pc = "checkpoint" => from = checkpoint.block + 1
    /\ pc \in {"checkpoint", "guard"} => checkpoint.block # 0
    /\ pc \in Resuming => /\ Current(from - 1)
                          /\ checkpoint.block = 0 \/ checkpoint.block = from - 1
    /\ pc \in Collecting /\ BoundaryHolds => Current(from - 1) /\ NoOrphanUpTo(to)
    /\ pc \in Verified => Current(to) /\ NoOrphanUpTo(to) /\ BoundaryHolds

ExactInv == ~ unseenFork => ~ OrphanLeftBehind /\ CheckpointVouches /\ SyncVouches

LEMMA ExactInit == Init => ExactInv
  BY DEF Init, ExactInv, OrphanLeftBehind, CheckpointVouches, SyncVouches, NoCheckpoint, NoLocation,
     Stored, Resuming, Collecting, Reading, Written, Verified

\* Every step keeps the watch.
LEMMA StepsAreWatched == Next => Watch
  BY DEF Next, SyncStep, SyncFails, BeginSync, ReadCheckpointHash, RewindToGuard, HaltAtGuard,
     RepairFacts, ReplaceEdges, FinishSync, BeginBatch, CatchUp, CheckLaunchBlocks, CheckAfterRead,
     PutLaunch, PutFact, AllStored, ReadGuardHash, CheckBeforeCommit, AuthorityHolds, AuthorityLost,
     CommitCheckpoint, Abort, ChainGrows, ChainReorganises

\* The sync moves on with nothing changed that anything is vouched for ...
LEMMA ExactQuiet ==
    ASSUME CheckpointVouches, SyncVouches,
           UNCHANGED <<chainVars, rows, checkpoint, scanned, from, to, boundary>>,
           pc' \notin {"checkpoint", "guard"},
           pc' \in Resuming => pc \in Resuming,
           pc' \in Collecting => pc \in Collecting,
           pc' \in Verified => pc \in Verified
    PROVE  CheckpointVouches' /\ SyncVouches'
  BY DEF CheckpointVouches, SyncVouches, CheckpointIsCanonical, Current, NoOrphanUpTo, OnChain,
     BoundaryHolds, NewestFork

\* ... or ends.
LEMMA ExactEnd ==
    ASSUME CheckpointVouches, UNCHANGED <<chainVars, rows, checkpoint, scanned>>, pc' = "idle"
    PROVE  CheckpointVouches' /\ SyncVouches'
  BY DEF CheckpointVouches, SyncVouches, CheckpointIsCanonical, Current, NoOrphanUpTo, OnChain,
     NewestFork, Resuming, Collecting, Reading, Written, Verified

\* What was vouched for survives a step of the chain that leaves it untouched.
LEMMA UntouchedKeeps ==
    ASSUME TypeOK, NEW n \in Nat, Untouched(n), UNCHANGED <<rows, scanned>>
    PROVE  /\ \A m \in Nat : m <= n /\ Current(m) => Current(m)'
           /\ NoOrphanUpTo(n) => NoOrphanUpTo(n)'
<1>1. ASSUME NEW m \in Nat, m <= n, Current(m)
      PROVE  Current(m)'
  <2> SUFFICES ASSUME NEW b \in Block, b \in StartBlock..m PROVE scanned[b] = fork'[b]
    BY DEF Current
  <2>1. b <= n
    BY <1>1, HeightsAreNumbers, OptionsAssumption DEF OptionsAssumption
  <2> QED BY <1>1, <2>1 DEF Current, Untouched
<1>2. ASSUME NoOrphanUpTo(n)
      PROVE  NoOrphanUpTo(n)'
  <2> SUFFICES ASSUME NEW l \in Launch, rows[l].block \in 1..n PROVE rows[l] = OnChain(l)'
    BY DEF NoOrphanUpTo
  <2>1. rows[l] = OnChain(l)
    BY <1>2 DEF NoOrphanUpTo
  <2>2. place[l] \in 1..n /\ place[l] \in Block
    BY <2>1 DEF OnChain, TypeOK, ChainTypeOK
  <2>3. place'[l] = place[l] /\ fork'[place[l]] = fork[place[l]]
    BY <2>2 DEF Untouched
  <2> QED BY <2>1, <2>3 DEF OnChain
<1> QED BY <1>1, <1>2

LEMMA ExactChain ==
    ASSUME TypeOK, TypeOK', GuardInv, RewindInv, CoverInv, CheckpointVouches, SyncVouches,
           ChainGrows \/ ChainReorganises,
           \A b \in NoLongerChecked : fork'[b] = fork[b]
    PROVE  CheckpointVouches' /\ SyncVouches'
<1>1. UNCHANGED <<rows, checkpoint, scanned, pc, from, to, boundary>>
  BY DEF ChainGrows, ChainReorganises
<1>t. /\ checkpoint.block \in Block /\ checkpoint.guard \in Block
      /\ checkpoint.block \in Nat /\ checkpoint.guard \in Nat /\ checkpoint.guard <= checkpoint.block
      /\ to \in Block /\ to \in Nat /\ from \in Nat /\ head \in Nat
      /\ StartBlock \in Nat \ {0}
  BY HeightsAreNumbers, OptionsAssumption DEF OptionsAssumption, TypeOK, ChainTypeOK, GuardInv
<1>2. CheckpointVouches'
  <2> SUFFICES ASSUME checkpoint.block # 0
               PROVE  /\ checkpoint.guardFork <= NewestFork'
                      /\ fork'[checkpoint.block] = checkpoint.fork =>
                            Current(checkpoint.block)' /\ NoOrphanUpTo(checkpoint.block)'
                      /\ fork'[checkpoint.guard] = checkpoint.guardFork => Current(checkpoint.guard)'
    BY <1>1 DEF CheckpointVouches, CheckpointIsCanonical
  <2>1. checkpoint.block <= head
    <3>1. scanned[checkpoint.block] # 0
      BY <1>t DEF CoverInv, Contiguous, ScannedUpTo
    <3> QED BY <1>t, <3>1 DEF CoverInv, HeightsRead
  <2>2. checkpoint.guardFork <= NewestFork'
    <3>1. checkpoint.guardFork \in Nat /\ NewestFork \in Nat /\ NewestFork' \in Nat
      BY ChainAssumption DEF ChainAssumption, TypeOK, ChainTypeOK, NewestFork, Block
    <3> QED BY <3>1, ChainStepAges DEF CheckpointVouches
  <2>3. ASSUME fork'[checkpoint.block] = checkpoint.fork
        PROVE  Current(checkpoint.block)' /\ NoOrphanUpTo(checkpoint.block)'
    <3>1. Untouched(checkpoint.block)
      BY <1>t, <2>1, <2>3, ChainStepBelow DEF GuardInv, HashesAreOld
    <3>2. CheckpointIsCanonical
      BY <1>t, <2>3, <3>1 DEF Untouched, CheckpointIsCanonical
    <3> QED BY <1>1, <1>t, <3>1, <3>2, UntouchedKeeps DEF CheckpointVouches
  <2>4. ASSUME fork'[checkpoint.guard] = checkpoint.guardFork
        PROVE  Current(checkpoint.guard)'
    <3>1. Untouched(checkpoint.guard)
      BY <1>t, <2>1, <2>4, ChainStepBelow DEF CheckpointVouches
    <3>2. fork[checkpoint.guard] = checkpoint.guardFork
      BY <1>t, <2>4, <3>1 DEF Untouched
    <3> QED BY <1>1, <1>t, <3>1, <3>2, UntouchedKeeps DEF CheckpointVouches
  <2> QED BY <2>2, <2>3, <2>4
<1>3. ASSUME pc \in Resuming PROVE Current(from - 1)'
  BY <1>1, <1>3 DEF SyncVouches, Current, NoLongerChecked, Resuming
<1>4. ASSUME pc \in InBatch, fork'[to] = boundary
      PROVE  Untouched(to) /\ BoundaryHolds
  <2>1. to \in Block /\ to <= head /\ boundary <= NewestFork
    BY <1>4 DEF TypeOK, CoverInv, HeightsRead, GuardInv, HashesAreOld
  <2>2. Untouched(to)
    BY <1>4, <2>1, ChainStepBelow
  <2> QED BY <1>4, <1>t, <2>1, <2>2 DEF Untouched, BoundaryHolds
<1>5. ASSUME pc \in Collecting, fork'[to] = boundary
      PROVE  Current(from - 1)' /\ NoOrphanUpTo(to)'
  <2>1. pc \in InBatch /\ pc # "idle"
    BY <1>5 DEF Collecting, InBatch, Reading, Written
  <2>2. from - 1 \in Nat /\ from - 1 <= to
    BY <1>t, <2>1, BatchAboveZero DEF CoverInv, HeightsRead
  <2> QED BY <1>1, <1>4, <1>5, <1>t, <2>1, <2>2, UntouchedKeeps DEF SyncVouches
<1>6. ASSUME pc \in Verified
      PROVE  Current(to)' /\ NoOrphanUpTo(to)' /\ fork'[to] = boundary
  <2>1. pc \in InBatch /\ from >= StartBlock /\ from <= to
    BY <1>6 DEF InBatch, Verified, CoverInv, HeightsRead, Contiguous
  <2>2. fork'[to] = boundary
    BY <1>6, <1>t, <2>1 DEF SyncVouches, BoundaryHolds, NoLongerChecked, Verified
  <2> QED BY <1>1, <1>4, <1>6, <1>t, <2>1, <2>2, UntouchedKeeps DEF SyncVouches
<1>7. SyncVouches'
  BY <1>1, <1>3, <1>5, <1>6 DEF SyncVouches, BoundaryHolds
<1> QED BY <1>2, <1>7

\* A rewind leaves what the checkpoint vouches for alone, or deletes it.
LEMMA ExactRewind ==
    ASSUME TypeOK, GuardInv, CoverInv, CheckpointVouches,
           NEW b \in Nat \ {0}, RewindFrom(b), UNCHANGED chainVars
    PROVE  CheckpointVouches'
<1> SUFFICES ASSUME checkpoint'.block # 0
             PROVE  /\ checkpoint'.fork = scanned'[checkpoint'.block]
                    /\ checkpoint'.guardFork <= NewestFork
                    /\ fork[checkpoint'.block] = checkpoint'.fork =>
                          Current(checkpoint.block)' /\ NoOrphanUpTo(checkpoint.block)'
                    /\ fork[checkpoint'.guard] = checkpoint'.guardFork => Current(checkpoint.guard)'
  BY DEF CheckpointVouches, CheckpointIsCanonical, NewestFork
<1>1. /\ \A k \in Block : scanned'[k] = IF k >= b THEN 0 ELSE scanned[k]
      /\ checkpoint' = checkpoint /\ checkpoint.block < b
  BY CoverRewind DEF NoCheckpoint
<1>t. /\ checkpoint.block \in Block /\ checkpoint.block \in Nat /\ checkpoint.guard \in Nat
      /\ checkpoint.guard <= checkpoint.block
      /\ StartBlock \in Nat \ {0}
  BY HeightsAreNumbers, OptionsAssumption DEF OptionsAssumption, TypeOK, GuardInv
<1>2. /\ checkpoint.fork = scanned[checkpoint.block] /\ checkpoint.guardFork <= NewestFork
      /\ CheckpointIsCanonical => Current(checkpoint.block) /\ NoOrphanUpTo(checkpoint.block)
      /\ fork[checkpoint.guard] = checkpoint.guardFork => Current(checkpoint.guard)
  BY <1>1 DEF CheckpointVouches
<1>3. ASSUME NEW n \in Nat, n < b, Current(n)
      PROVE  \A k \in Block : k \in StartBlock..n => scanned'[k] = fork'[k]
  BY <1>1, <1>3, <1>t, HeightsAreNumbers DEF Current
<1>4. ASSUME NEW n \in Nat, NoOrphanUpTo(n)
      PROVE  \A l \in Launch : rows'[l].block \in 1..n => rows'[l] = OnChain(l)'
  <2>1. \A l \in Launch : rows'[l].block # 0 => rows'[l] = rows[l]
    BY DEF RewindFrom, NoLocation
  <2> QED BY <1>4, <2>1 DEF NoOrphanUpTo, OnChain
<1>5. checkpoint'.fork = scanned'[checkpoint'.block]
  BY <1>1, <1>2, <1>t
<1>6. Current(checkpoint.block) => Current(checkpoint.block)'
  BY <1>1, <1>3, <1>t DEF Current
<1>7. Current(checkpoint.guard) => Current(checkpoint.guard)'
  BY <1>1, <1>3, <1>t DEF Current
<1>8. NoOrphanUpTo(checkpoint.block) => NoOrphanUpTo(checkpoint.block)'
  BY <1>1, <1>4, <1>t DEF NoOrphanUpTo
<1> QED BY <1>1, <1>2, <1>5, <1>6, <1>7, <1>8 DEF CheckpointIsCanonical

LEMMA ExactRewindToGuard ==
    ASSUME TypeOK, GuardInv, CoverInv, CheckpointVouches, SyncVouches, RewindToGuard
    PROVE  CheckpointVouches' /\ SyncVouches'
<1> DEFINE b == IF checkpoint.guard + 1 > StartBlock THEN checkpoint.guard + 1 ELSE StartBlock
<1>t. /\ checkpoint.block \in Nat /\ checkpoint.guard \in Nat /\ checkpoint.guard <= checkpoint.block
      /\ StartBlock \in Nat \ {0}
  BY HeightsAreNumbers, OptionsAssumption DEF OptionsAssumption, TypeOK, GuardInv
<1>1. /\ RewindFrom(b) /\ b \in Nat \ {0}
      /\ from' = IF checkpoint'.block = 0 THEN b ELSE checkpoint'.block + 1
      /\ UNCHANGED chainVars /\ pc = "guard" /\ pc' = "repair"
      /\ fork[checkpoint.guard] = checkpoint.guardFork
  BY <1>t DEF RewindToGuard
<1>2. checkpoint.block # 0 /\ Current(checkpoint.guard) /\ checkpoint.block >= StartBlock
  BY <1>1 DEF SyncVouches, CheckpointVouches, CoverInv, Contiguous
<1>b. b - 1 = checkpoint.guard \/ b = StartBlock
  BY <1>t
<1> HIDE DEF b
<1>3. /\ \A k \in Block : scanned'[k] = IF k >= b THEN 0 ELSE scanned[k]
      /\ checkpoint' \in {checkpoint, NoCheckpoint} /\ checkpoint'.block < b
  BY <1>1, CoverRewind
<1>4. CheckpointVouches'
  BY <1>1, ExactRewind
\* The heights below the new start are those up to the guard.
<1>5. \A k \in Block : k \in StartBlock..(from' - 1) => k <= checkpoint.guard /\ k < b
  <2> SUFFICES ASSUME NEW k \in Block, k \in StartBlock..(from' - 1)
               PROVE  k <= checkpoint.guard /\ k < b
    OBVIOUS
  <2>0. k \in Nat
    BY HeightsAreNumbers
  <2>1. CASE checkpoint'.block = 0
    BY <1>b, <1>1, <1>t, <2>0, <2>1
  <2>2. CASE checkpoint'.block # 0
    <3>1. checkpoint'.block = checkpoint.block /\ checkpoint.block < b /\ from' = checkpoint.block + 1
      BY <1>1, <1>3, <2>2 DEF NoCheckpoint
    <3> QED BY <1>b, <1>1, <1>2, <1>t, <2>0, <3>1
  <2> QED BY <2>1, <2>2
<1>6. Current(from - 1)'
  <2> SUFFICES ASSUME NEW k \in Block, k \in StartBlock..(from' - 1) PROVE scanned'[k] = fork[k]
    BY <1>1 DEF Current
  <2>1. k <= checkpoint.guard /\ k < b /\ k \in Nat
    BY <1>5, HeightsAreNumbers
  <2>2. scanned[k] = fork[k]
    BY <1>2, <1>t, <2>1 DEF Current
  <2> QED BY <1>1, <1>3, <2>1, <2>2
<1>7. checkpoint'.block = 0 \/ checkpoint'.block = from' - 1
  BY <1>1, <1>3, <1>t DEF NoCheckpoint
<1> QED BY <1>1, <1>4, <1>6, <1>7
        DEF SyncVouches, Resuming, Collecting, Reading, Written, Verified

\* The batch begins on a ledger without orphans.
LEMMA ExactBeginBatch ==
    ASSUME TypeOK, GuardInv, CoverInv, CheckpointVouches, SyncVouches, BeginBatch, ~ OrphanLeftBehind
    PROVE  CheckpointVouches' /\ SyncVouches'
<1>1. /\ pc = "batch" /\ pc' = "catchUp"
      /\ UNCHANGED <<chainVars, rows, checkpoint, scanned, from>>
  BY DEF BeginBatch
<1>t. checkpoint.block \in Block /\ checkpoint.block \in Nat
  BY HeightsAreNumbers DEF TypeOK
<1>2. CheckpointVouches'
  BY <1>1 DEF CheckpointVouches, CheckpointIsCanonical, Current, NoOrphanUpTo, OnChain, NewestFork
<1>3. Current(from - 1) /\ (checkpoint.block = 0 \/ checkpoint.block = from - 1)
  BY <1>1 DEF SyncVouches, Resuming
<1>4. checkpoint.block # 0 => CheckpointIsCanonical
  <2> SUFFICES ASSUME checkpoint.block # 0 PROVE CheckpointIsCanonical OBVIOUS
  <2>1. checkpoint.block \in StartBlock..(from - 1)
    BY <1>3, <1>t, OptionsAssumption DEF OptionsAssumption, CoverInv, Contiguous
  <2> QED BY <1>3, <1>t, <2>1 DEF Current, CheckpointVouches, CheckpointIsCanonical
<1>5. \A l \in Stored : rows[l] = OnChain(l)
  <2> SUFFICES ASSUME NEW l \in Stored PROVE rows[l] = OnChain(l) OBVIOUS
  <2>1. l \in Launch /\ rows[l].block \in Nat \ {0}
    BY HeightsAreNumbers DEF Stored, TypeOK, Location
  <2>2. CASE rows[l].block > checkpoint.block
    BY <1>1, <1>4, <2>2 DEF OrphanLeftBehind
  <2>3. CASE rows[l].block <= checkpoint.block
    BY <1>4, <1>t, <2>1, <2>3 DEF CheckpointVouches, NoOrphanUpTo
  <2> QED BY <1>t, <2>1, <2>2, <2>3
<1>6. NoOrphanUpTo(to)'
  BY <1>1, <1>5 DEF NoOrphanUpTo, OnChain, Stored
<1> QED BY <1>1, <1>2, <1>3, <1>6
        DEF SyncVouches, Current, Resuming, Collecting, Reading, Written, Verified

\* What the batch stores lies above the checkpoint and, while its boundary holds,
\* on the chain.
LEMMA ExactPutLaunch ==
    ASSUME TypeOK, RewindInv, ProvenanceInv, CoverInv, CheckpointVouches, SyncVouches, PutLaunch
    PROVE  CheckpointVouches' /\ SyncVouches'
<1>1. PICK l \in Launch :
          /\ NextLaunch(l)
          /\ IF rows[l] \in {NoLocation, launches[l]}
             THEN /\ rows' = [rows EXCEPT ![l] = launches[l]]
                  /\ pc' = "fact"
                  /\ UNCHANGED localVars
             ELSE EndSync /\ UNCHANGED rows
  BY DEF PutLaunch
<1>2. pc = "put" /\ UNCHANGED <<chainVars, checkpoint, scanned>>
  BY DEF PutLaunch
<1>3. CASE rows[l] \in {NoLocation, launches[l]}
  <2>1. /\ rows' = [rows EXCEPT ![l] = launches[l]] /\ pc' = "fact"
        /\ UNCHANGED <<from, to, boundary>>
    BY <1>1, <1>3
  <2>2. launches[l].block \in from..to /\ l \in todo
    BY <1>1, <1>2 DEF ProvenanceInv, BatchInHand, Reading, NextLaunch
  <2>t. checkpoint.block \in Nat /\ from \in Nat /\ checkpoint.block < from
    BY <1>2, HeightsAreNumbers DEF TypeOK, RewindInv
  <2>3. NoOrphanUpTo(checkpoint.block) => NoOrphanUpTo(checkpoint.block)'
    <3> SUFFICES ASSUME NoOrphanUpTo(checkpoint.block), NEW m \in Launch,
                        rows'[m].block \in 1..checkpoint.block
                 PROVE  rows'[m] = OnChain(m)
      BY <1>2 DEF NoOrphanUpTo, OnChain
    <3>1. m # l
      BY <2>1, <2>2, <2>t DEF TypeOK
    <3> QED BY <2>1, <3>1 DEF NoOrphanUpTo, TypeOK
  <2>4. CheckpointVouches'
    BY <1>2, <2>3 DEF CheckpointVouches, CheckpointIsCanonical, Current, NewestFork
  <2>5. ASSUME BoundaryHolds PROVE Current(from - 1) /\ NoOrphanUpTo(to)'
    <3>1. Current(from - 1) /\ NoOrphanUpTo(to) /\ launches[l] = OnChain(l)
      BY <1>2, <2>2, <2>5 DEF SyncVouches, CoverInv, BatchIsOnChain, Collecting, Reading
    <3> QED BY <1>2, <2>1, <3>1 DEF NoOrphanUpTo, OnChain, TypeOK
  <2> QED BY <1>2, <2>1, <2>4, <2>5
          DEF SyncVouches, BoundaryHolds, Current, Resuming, Collecting, Reading, Written, Verified
<1>4. CASE rows[l] \notin {NoLocation, launches[l]}
  BY <1>1, <1>2, <1>4, ExactEnd DEF EndSync
<1> QED BY <1>3, <1>4

\* The heights of the batch count as read on the fork of its boundary.
LEMMA ExactCheckBeforeCommit ==
    ASSUME TypeOK, GuardInv, RewindInv, CoverInv, CheckpointVouches, SyncVouches, CheckBeforeCommit
    PROVE  CheckpointVouches' /\ SyncVouches'
<1>1. pc = "beforeCommit" /\ UNCHANGED chainVars
  BY DEF CheckBeforeCommit
<1>t. /\ checkpoint.block \in Block /\ checkpoint.block \in Nat /\ checkpoint.guard \in Nat
      /\ checkpoint.guard <= checkpoint.block /\ checkpoint.block < from
      /\ from \in Nat \ {0} /\ to \in Nat
  BY <1>1, BatchAboveZero, HeightsAreNumbers DEF TypeOK, GuardInv, RewindInv
<1>2. CASE fork[to] = boundary
  <2>1. /\ pc' = "authority"
        /\ scanned' = [b \in Block |-> IF b \in from..to THEN fork[b] ELSE scanned[b]]
        /\ UNCHANGED <<rows, checkpoint, from, to, boundary>>
    BY <1>2 DEF CheckBeforeCommit
  <2>2. Current(from - 1) /\ NoOrphanUpTo(to)
    BY <1>1, <1>2 DEF SyncVouches, BoundaryHolds, Collecting, Written
  <2>3. \A n : Current(n) => Current(n)'
    BY <1>1, <2>1 DEF Current
  <2>4. scanned'[checkpoint.block] = scanned[checkpoint.block]
    BY <1>t, <2>1
  <2>5. CheckpointVouches'
    BY <1>1, <2>1, <2>3, <2>4
       DEF CheckpointVouches, CheckpointIsCanonical, NoOrphanUpTo, OnChain, NewestFork
  <2>6. Current(to)'
    <3> SUFFICES ASSUME NEW b \in Block, b \in StartBlock..to PROVE scanned'[b] = fork[b]
      BY <1>1, <2>1 DEF Current
    <3>1. CASE b \in from..to BY <2>1, <3>1
    <3>2. CASE b \notin from..to
      <4>1. b \in StartBlock..(from - 1)
        BY <1>t, <3>2, HeightsAreNumbers, OptionsAssumption DEF OptionsAssumption
      <4> QED BY <2>1, <2>2, <3>2, <4>1 DEF Current
    <3> QED BY <3>1, <3>2
  <2> QED BY <1>1, <1>2, <2>1, <2>2, <2>5, <2>6
          DEF SyncVouches, BoundaryHolds, NoOrphanUpTo, OnChain, Resuming, Collecting, Reading,
              Written, Verified
<1>3. CASE fork[to] # boundary
  <2>1. RewindFrom(from) /\ pc' = "idle"
    BY <1>3 DEF CheckBeforeCommit, EndSync
  <2>2. CheckpointVouches'
    BY <1>1, <1>t, <2>1, ExactRewind
  <2> QED BY <2>1, <2>2 DEF SyncVouches, Resuming, Collecting, Reading, Written, Verified
<1> QED BY <1>2, <1>3

\* The new checkpoint vouches for what the batch and its predecessors vouched for.
LEMMA ExactCommit ==
    ASSUME TypeOK, GuardInv, CoverInv, SyncVouches, CommitCheckpoint
    PROVE  CheckpointVouches' /\ SyncVouches'
<1>1. /\ pc = "commit" /\ pc' = "batch" /\ from' = to + 1
      /\ checkpoint' = [block |-> to, fork |-> boundary, guard |-> GuardBlock(to),
                        guardFork |-> guardHash]
      /\ UNCHANGED <<chainVars, rows, scanned>>
  BY DEF CommitCheckpoint
<1>2. Current(to) /\ NoOrphanUpTo(to) /\ BoundaryHolds
  BY <1>1 DEF SyncVouches, Verified
<1>t. /\ to \in Block /\ to \in Nat /\ GuardBlock(to) \in Block /\ GuardBlock(to) \in Nat
      /\ GuardBlock(to) <= to
  BY GuardBlockBelow, HeightsAreNumbers DEF TypeOK
<1>3. scanned[to] = boundary
  <2>1. to \in StartBlock..to
    BY <1>1, <1>t, OptionsAssumption
       DEF OptionsAssumption, CoverInv, HeightsRead, Contiguous, InBatch, Verified, TypeOK
  <2> QED BY <1>2, <1>t, <2>1 DEF Current, BoundaryHolds
<1>4. guardHash <= NewestFork
  BY <1>1, <1>2, <1>t DEF GuardInv, GuardReadOnBoundaryFork, HashesAreOld, BoundaryHolds
<1>5. Current(GuardBlock(to))
  BY <1>2, <1>t, HeightsAreNumbers, OptionsAssumption DEF OptionsAssumption, Current
<1>6. CheckpointVouches'
  BY <1>1, <1>2, <1>3, <1>4, <1>5
     DEF CheckpointVouches, Current, NoOrphanUpTo, OnChain, NewestFork
<1>7. Current(from - 1)' /\ checkpoint'.block = from' - 1
  BY <1>1, <1>2, <1>t DEF Current
<1> QED BY <1>1, <1>6, <1>7
        DEF SyncVouches, Resuming, Collecting, Reading, Written, Verified

LEMMA ExactStep ==
    /\ TypeOK /\ TypeOK' /\ GuardInv /\ RewindInv /\ ProvenanceInv /\ CoverInv /\ ExactInv
    /\ [Next]_vars
    => ExactInv'
<1> SUFFICES ASSUME TypeOK, TypeOK', GuardInv, RewindInv, ProvenanceInv, CoverInv, ExactInv, Next,
                    ~ unseenFork'
             PROVE  ~ OrphanLeftBehind' /\ CheckpointVouches' /\ SyncVouches'
  <2>1. CASE UNCHANGED vars
    BY <2>1 DEF vars, ExactInv, OrphanLeftBehind, Stored, OnChain, CheckpointIsCanonical,
       CheckpointVouches, SyncVouches, Current, NoOrphanUpTo, BoundaryHolds, NewestFork
  <2> QED BY <2>1 DEF ExactInv
<1>w. /\ ~ unseenFork /\ ~ OrphanLeftBehind'
      /\ \A b \in NoLongerChecked : fork'[b] = fork[b]
  BY StepsAreWatched DEF Watch, TypeOK
<1>h. ~ OrphanLeftBehind /\ CheckpointVouches /\ SyncVouches
  BY <1>w DEF ExactInv
<1> SUFFICES CheckpointVouches' /\ SyncVouches'
  BY <1>w
<1> USE <1>h DEF Resuming, Collecting, Reading, Written, Verified
<1>1. CASE BeginSync
  <2>1. /\ pc = "idle" /\ pc' = IF checkpoint.block = 0 THEN "repair" ELSE "checkpoint"
        /\ from' = IF checkpoint.block = 0 THEN StartBlock ELSE checkpoint.block + 1
        /\ UNCHANGED <<chainVars, rows, checkpoint, scanned>>
    BY <1>1 DEF BeginSync
  <2>2. CheckpointVouches'
    BY <2>1 DEF CheckpointVouches, CheckpointIsCanonical, Current, NoOrphanUpTo, OnChain, NewestFork
  <2>3. checkpoint.block = 0 => Current(from - 1)'
    BY <2>1, HeightsAreNumbers, OptionsAssumption DEF OptionsAssumption, Current
  <2> QED BY <2>1, <2>2, <2>3 DEF SyncVouches
<1>2. CASE ReadCheckpointHash
  <2>1. /\ pc = "checkpoint" /\ pc' = IF CheckpointIsCanonical THEN "repair" ELSE "guard"
        /\ UNCHANGED <<chainVars, rows, checkpoint, scanned, from>>
    BY <1>2 DEF ReadCheckpointHash
  <2>2. checkpoint.block # 0 /\ checkpoint.block = from - 1
    BY <2>1, HeightsAreNumbers DEF SyncVouches, TypeOK
  <2>3. CheckpointVouches'
    BY <2>1 DEF CheckpointVouches, CheckpointIsCanonical, Current, NoOrphanUpTo, OnChain, NewestFork
  <2>4. CheckpointIsCanonical => Current(from - 1)'
    BY <2>1, <2>2 DEF CheckpointVouches, Current
  <2> QED BY <2>1, <2>2, <2>3, <2>4 DEF SyncVouches
<1>3. CASE RewindToGuard BY <1>3, ExactRewindToGuard
<1>4. CASE HaltAtGuard BY <1>4, ExactEnd DEF HaltAtGuard, EndSync
<1>5. CASE RepairFacts BY <1>5, ExactQuiet DEF RepairFacts
<1>6. CASE ReplaceEdges("reproject", "batch") \/ ReplaceEdges("project", "guardRead")
  BY <1>6, ExactQuiet DEF ReplaceEdges
<1>7. CASE FinishSync BY <1>7, ExactEnd DEF FinishSync, EndSync
<1>8. CASE BeginBatch BY <1>8, ExactBeginBatch
<1>9. CASE CatchUp BY <1>9, ExactQuiet DEF CatchUp
<1>10. CASE CheckLaunchBlocks BY <1>10, ExactQuiet, ExactEnd DEF CheckLaunchBlocks, EndSync
<1>11. CASE CheckAfterRead BY <1>11, ExactQuiet, ExactEnd DEF CheckAfterRead, EndSync
<1>12. CASE PutLaunch BY <1>12, ExactPutLaunch
<1>13. CASE PutFact BY <1>13, ExactQuiet DEF PutFact
<1>14. CASE AllStored BY <1>14, ExactQuiet DEF AllStored
<1>15. CASE ReadGuardHash BY <1>15, ExactQuiet DEF ReadGuardHash
<1>16. CASE CheckBeforeCommit BY <1>16, ExactCheckBeforeCommit
<1>17. CASE AuthorityHolds BY <1>17, ExactQuiet DEF AuthorityHolds
<1>18. CASE AuthorityLost
  <2>1. RewindFrom(from) /\ pc' = "idle" /\ UNCHANGED chainVars /\ from \in Nat \ {0}
    BY <1>18, BatchAboveZero DEF AuthorityLost, EndSync
  <2>2. CheckpointVouches'
    BY <2>1, ExactRewind
  <2> QED BY <2>1, <2>2 DEF SyncVouches
<1>19. CASE CommitCheckpoint BY <1>19, ExactCommit
<1>20. CASE Abort BY <1>20, ExactEnd DEF Abort, EndSync
<1>21. CASE ChainGrows \/ ChainReorganises BY <1>21, <1>w, ExactChain
<1> QED
  BY <1>1, <1>2, <1>3, <1>4, <1>5, <1>6, <1>7, <1>8, <1>9, <1>10, <1>11, <1>12, <1>13,
     <1>14, <1>15, <1>16, <1>17, <1>18, <1>19, <1>20, <1>21
     DEF Next, SyncStep, SyncFails

\* Under a canonical checkpoint the ledger is the chain, launch by launch, for every
\* schedule of forks, crashes and failed calls outside the two windows.
THEOREM LedgerIsExact == Spec => []ExactUnlessUnseen
<1>1. TypeOK /\ CoverInv /\ ExactInv => ExactUnlessUnseen
  <2> SUFFICES ASSUME TypeOK, CoverInv, CheckpointVouches,
                      checkpoint.block # 0, CheckpointIsCanonical, NEW l \in Launch,
                      \/ rows[l].block \in StartBlock..checkpoint.block
                      \/ place[l] \in StartBlock..checkpoint.block
               PROVE  rows[l] = OnChain(l)
    BY DEF ExactInv, ExactUnlessUnseen, LedgerExact
  <2>1. Current(checkpoint.block) /\ NoOrphanUpTo(checkpoint.block)
    BY DEF CheckpointVouches
  <2>2. CASE rows[l].block \in StartBlock..checkpoint.block
    BY <2>1, <2>2, HeightsAreNumbers, OptionsAssumption DEF OptionsAssumption, NoOrphanUpTo, TypeOK
  <2>3. CASE place[l] \in StartBlock..checkpoint.block
    <3>1. place[l] \in Block
      BY DEF TypeOK, ChainTypeOK
    <3>2. scanned[place[l]] = fork[place[l]]
      BY <2>1, <2>3, <3>1 DEF Current
    <3> QED BY <3>1, <3>2 DEF CoverInv, ScannedIsStored
  <2> QED BY <2>2, <2>3
<1>2. TypeOK /\ TypeOK' /\ GuardInv /\ RewindInv /\ ProvenanceInv /\ CoverInv /\ ExactInv /\ [Next]_vars
      => ExactInv'
  BY ExactStep
<1> QED BY ExactInit, IngestionInvariant, ProvenanceInvariant, CoverInvariant, TypeCorrect,
           <1>1, <1>2, PTL DEF Spec
==============================================================================
