-------------------------- MODULE CreatorSignal_proofs --------------------------
(* Theorems about the creator signal evaluation and the live verdict, for    *)
(* every chain, delay, horizon, number of launches and creators, outcomes,   *)
(* sample floors and amount of interference.                                 *)
EXTENDS CreatorSignal, TLAPS

EvalSteps == {"idle", "snapshot", "baselines", "outcomes", "universe",
              "evidence", "anchor", "done"}

NoLineage == <<>>
Lineages == (UNION {[0..b -> Nat] : b \in Block}) \cup {NoLineage}

EvalTypes ==
    [step : EvalSteps, room : 0..Interference, asOf : Location, lineage : Lineages,
     known : [Launch -> Location], missing : [Launch -> Location],
     facts : [Launch -> Location], baselines : [Launch -> Baseline],
     outcomes : [Launch -> Outcome]]

TypeInv == TypeOK /\ eval \in EvalTypes

------------------------------------------------------------------------------
(* The ledger.                                                             *)

\* A stored launch without its fact is the last one of the ledger.
FactsInOrder ==
    \A m \in Stored : facts[m] = NoLocation =>
        \A k \in Stored \ {m} : Precedes(rows[k], k, rows[m], m)

\* A batch is of the stored launch and of its decision block.
BaselineOfRow ==
    \A l \in Launch : baselines[l] # NoBaseline =>
        l \in Stored /\ baselines[l].at.block = rows[l].block + Delay

\* A receipt is observed after the decision it refers to.
ObservedAfter(receipts) ==
    \A l \in Launch : receipts[l] # NoOutcome => receipts[l].decision.block < receipts[l].at.block

LedgerInv == FactsInOrder /\ BaselineOfRow

------------------------------------------------------------------------------
(* The evaluation.                                                         *)

\* No height is of a fork newer than the newest.
ForksGrow == \A b \in Block : fork[b] <= NewestFork

\* As long as the as-of block is there, so is everything below it.
AnchorKept ==
    eval.step # "idle" =>
        /\ eval.asOf.fork <= NewestFork
        /\ Canonical(eval.asOf) => \A b \in 0..eval.asOf.block : fork[b] = eval.lineage[b]

\* What was read of the ledger, launch by launch.
SnapshotSplit ==
    eval.step \notin {"idle", "snapshot"} =>
        \A l \in Launch : eval.facts[l] = eval.known[l]
            \/ (eval.facts[l] = NoLocation /\ eval.missing[l] = eval.known[l])

ReceiptsBelowAnchor == \A l \in Launch : eval.outcomes[l].at.block <= eval.asOf.block

\* What CheckUniverse has established.
UniverseChecked ==
    eval.step \in {"evidence", "anchor", "done"} =>
        /\ \A l \in Within(eval.missing) : ~ IsMature(eval.missing[l])
        /\ \A l \in EvalRows : HasTarget(l) => eval.outcomes[l].decision = eval.baselines[l].at

\* Up to the last read the points that were compared are of the as-of block's
\* lineage provided that block is still there; the last read makes sure of it.
AnchorHolds == eval.step = "done" \/ Canonical(eval.asOf)

PointsOfLineage ==
    eval.step \in {"evidence", "anchor", "done"} /\ AnchorHolds =>
        /\ \A l \in Within(eval.facts) : OfLineage(eval.facts[l])
        /\ \A l \in Receipts : OfLineage(eval.baselines[l].at)

EvidenceOfLineage ==
    eval.step \in {"anchor", "done"} /\ AnchorHolds =>
        \A l \in Referenced : OfLineage(eval.outcomes[l].at)

EvalInv == /\ ForksGrow
           /\ AnchorKept
           /\ SnapshotSplit
           /\ ReceiptsBelowAnchor
           /\ UniverseChecked
           /\ PointsOfLineage
           /\ EvidenceOfLineage

\* The decision delay is shorter than the 24 hours of the outcome: two blocks
\* (BASELINE_DECISION_DELAY_BLOCKS) against CREATOR_SIGNAL_HORIZON_MS.
DecidedWithinHorizon == Delay < Horizon

DecisionInv == ObservedAfter(outcomes) /\ ObservedAfter(eval.outcomes)

USE DEF chainVars, ledgerVars

------------------------------------------------------------------------------
(* Types.                                                                  *)

LEMMA HeightsAreNumbers == Block \subseteq Nat /\ MaxBlock \in Block /\ 0 \in Block
  BY ChainAssumption DEF ChainAssumption, Block

LEMMA PointsAreLocations ==
    ASSUME ChainTypeOK
    PROVE  /\ NoLocation \in Location
           /\ \A b \in Block : PointAt(b) \in Location
           /\ \A l \in Launch : OnChain(l) \in Location
  BY HeightsAreNumbers DEF ChainTypeOK, NoLocation, Location, PointAt, OnChain

LEMMA EvalRecord ==
    ASSUME NEW step \in EvalSteps, NEW room \in 0..Interference, NEW asOf \in Location,
           NEW lineage \in Lineages, NEW known \in [Launch -> Location],
           NEW missing \in [Launch -> Location], NEW fs \in [Launch -> Location],
           NEW bs \in [Launch -> Baseline], NEW os \in [Launch -> Outcome]
    PROVE  [step |-> step, room |-> room, asOf |-> asOf, lineage |-> lineage, known |-> known,
            missing |-> missing, facts |-> fs, baselines |-> bs, outcomes |-> os] \in EvalTypes
  BY DEF EvalTypes

LEMMA NothingsAreTyped ==
    /\ NoRows \in [Launch -> Location]
    /\ NoBaseline \in Baseline
    /\ NoOutcome \in Outcome
    /\ Idle \in EvalTypes
<1>1. NoLocation \in Location
  BY HeightsAreNumbers DEF NoLocation, Location
<1>2. NoRows \in [Launch -> Location] /\ NoBaseline \in Baseline /\ NoOutcome \in Outcome
  BY <1>1 DEF NoRows, NoBaseline, Baseline, Quality, NoOutcome, Outcome, Unvalued
<1>3. Interference \in 0..Interference
  BY SignalAssumption DEF SignalAssumption
<1>4. "idle" \in EvalSteps
  BY DEF EvalSteps
<1> DEFINE bare == [l \in Launch |-> NoBaseline]
           open == [l \in Launch |-> NoOutcome]
<1>5. bare \in [Launch -> Baseline] /\ open \in [Launch -> Outcome]
  BY <1>2
<1>6. NoLineage \in Lineages
  BY DEF Lineages
<1>7. Idle = [step |-> "idle", room |-> Interference, asOf |-> NoLocation, lineage |-> NoLineage,
              known |-> NoRows, missing |-> NoRows, facts |-> NoRows, baselines |-> bare,
              outcomes |-> open]
  BY DEF Idle, NoLineage
<1> HIDE DEF bare, open
<1>8. Idle \in EvalTypes
  BY <1>1, <1>2, <1>3, <1>4, <1>5, <1>6, <1>7, EvalRecord
<1> QED BY <1>2, <1>8

LEMMA MaxOfTwo ==
    ASSUME NEW a \in Int, NEW b \in Int
    PROVE  Max({a, b}) = IF a >= b THEN a ELSE b
<1>1. CASE a >= b
  <2>1. \A x \in {a, b} : (\A y \in {a, b} : x >= y) => x = a
    BY <1>1
  <2>2. \E x \in {a, b} : \A y \in {a, b} : x >= y
    BY <1>1
  <2> QED BY <1>1, <2>1, <2>2 DEF Max
<1>2. CASE ~ (a >= b)
  <2>1. \A x \in {a, b} : (\A y \in {a, b} : x >= y) => x = b
    BY <1>2
  <2>2. \E x \in {a, b} : \A y \in {a, b} : x >= y
    BY <1>2
  <2> QED BY <1>2, <2>1, <2>2 DEF Max
<1> QED BY <1>1, <1>2

\* A reorganisation gives the heights it replaces a fork none of them had.
LEMMA ReorgRaises ==
    ASSUME ChainTypeOK, ForksGrow, NEW p \in Block, Reorg(p)
    PROVE  /\ ChainTypeOK'
           /\ ForksGrow'
           /\ NewestFork' = NewestFork + 1
           /\ \A b \in Block : fork'[b] = IF b >= p THEN NewestFork + 1 ELSE fork[b]
<1> USE ChainAssumption DEF ChainAssumption, Block
<1>1. NewestFork \in Nat \ {0} /\ MaxBlock \in Block
  BY DEF ChainTypeOK, NewestFork
<1>2. fork' = [b \in Block |-> IF b >= p THEN NewestFork + 1 ELSE fork[b]]
  BY DEF Reorg
<1>3. fork' \in [Block -> Nat \ {0}]
  BY <1>1, <1>2 DEF ChainTypeOK
<1>4. NewestFork' = NewestFork + 1
  BY <1>1, <1>2 DEF NewestFork
<1>5. ForksGrow'
  BY <1>1, <1>2, <1>4 DEF ForksGrow, ChainTypeOK
<1>6. place' \in [Launch -> Block] /\ head' \in Block
  BY DEF Reorg, ChainTypeOK
<1> QED BY <1>2, <1>3, <1>4, <1>5, <1>6 DEF ChainTypeOK

LEMMA MineKeepsForks ==
    ASSUME ChainTypeOK, Mine
    PROVE  ChainTypeOK' /\ fork' = fork
  BY ChainAssumption DEF ChainAssumption, ChainTypeOK, Mine, Block

------------------------------------------------------------------------------
(* The writers keep the tables typed.                                      *)

LedgerTypes ==
    /\ rows \in [Launch -> Location]
    /\ facts \in [Launch -> Location]
    /\ baselines \in [Launch -> Baseline]
    /\ outcomes \in [Launch -> Outcome]
    /\ \A l \in Launch : facts[l] \in {NoLocation, rows[l]}

\* The block a receipt is observed at.
ObservedAt(l) == Max({rows[l].block + Horizon, baselines[l].at.block})

LEMMA ObservedIsHeight ==
    ASSUME ChainTypeOK, LedgerTypes, NEW l \in Launch
    PROVE  ObservedAt(l) \in Nat /\ rows[l].block + Horizon <= ObservedAt(l)
<1>1. rows[l].block \in Nat /\ baselines[l].at.block \in Nat /\ Horizon \in Nat
  BY HeightsAreNumbers, SignalAssumption
  DEF LedgerTypes, Location, Baseline, SignalAssumption
<1> QED BY <1>1, MaxOfTwo DEF ObservedAt

LEMMA WritesAreTyped ==
    ASSUME ChainTypeOK, LedgerTypes, Writes
    PROVE  ChainTypeOK' /\ LedgerTypes'
<1>1. ASSUME NEW l \in Launch, PutLaunch(l) PROVE LedgerTypes' /\ ChainTypeOK'
  BY <1>1, PointsAreLocations DEF PutLaunch, LedgerTypes, Stored, ChainTypeOK
<1>2. ASSUME NEW l \in Launch, PutFact(l) PROVE LedgerTypes' /\ ChainTypeOK'
  BY <1>2 DEF PutFact, LedgerTypes, ChainTypeOK
<1>3. ASSUME NEW l \in Launch, PutBaseline(l) PROVE LedgerTypes' /\ ChainTypeOK'
  <2>1. rows[l].block + Delay \in Block
    <3>1. rows[l].block + Delay <= head
      BY <1>3 DEF PutBaseline
    <3>2. rows[l].block \in Nat /\ Delay \in Nat /\ MaxBlock \in Nat
      BY HeightsAreNumbers, SignalAssumption DEF LedgerTypes, Location, SignalAssumption
    <3>3. head \in Nat /\ head <= MaxBlock
      BY HeightsAreNumbers DEF ChainTypeOK, Block
    <3> DEFINE decided == rows[l].block + Delay
    <3>4. decided \in Nat /\ decided <= MaxBlock
      BY <3>1, <3>2, <3>3
    <3> QED BY ONLY <3>2, <3>4 DEF Block
  <2>2. \A q \in Qualities : [quality |-> q, at |-> PointAt(rows[l].block + Delay)] \in Baseline
    BY <2>1, PointsAreLocations, SignalAssumption DEF Baseline, SignalAssumption
  <2>3. baselines' \in [Launch -> Baseline]
    BY <1>3, <2>2 DEF PutBaseline, LedgerTypes
  <2> QED BY <1>3, <2>3 DEF PutBaseline, LedgerTypes, ChainTypeOK
<1>4. ASSUME NEW l \in Launch, PutOutcome(l) PROVE LedgerTypes' /\ ChainTypeOK'
  <2>1. ObservedAt(l) \in Block
    BY <1>4, ObservedIsHeight, ChainAssumption
    DEF PutOutcome, ObservedAt, ChainTypeOK, Block, ChainAssumption
  <2>2. \A r \in Recoveries :
            [recovery |-> r, at |-> PointAt(ObservedAt(l)), decision |-> baselines[l].at] \in Outcome
    BY <2>1, PointsAreLocations, SignalAssumption
    DEF Outcome, SignalAssumption, LedgerTypes, Baseline, Unvalued
  <2>3. outcomes' \in [Launch -> Outcome]
    BY <1>4, <2>2 DEF PutOutcome, LedgerTypes, ObservedAt
  <2> QED BY <1>4, <2>3 DEF PutOutcome, LedgerTypes, ChainTypeOK
<1>5. ASSUME NEW b \in 1..MaxBlock, RewindFrom(b) PROVE LedgerTypes' /\ ChainTypeOK'
  BY <1>5, NothingsAreTyped, PointsAreLocations DEF RewindFrom, LedgerTypes, ChainTypeOK
<1> QED BY <1>1, <1>2, <1>3, <1>4, <1>5 DEF Writes

------------------------------------------------------------------------------
(* What a step does to the locals of the evaluation.                       *)

SameEvidence ==
    /\ eval'.asOf = eval.asOf /\ eval'.lineage = eval.lineage
    /\ eval'.known = eval.known /\ eval'.missing = eval.missing
    /\ eval'.facts = eval.facts /\ eval'.baselines = eval.baselines
    /\ eval'.outcomes = eval.outcomes

Typed == eval' \in EvalTypes /\ (eval'.step # "idle" => eval'.lineage \in [0..eval'.asOf.block -> Nat])

LEMMA MeanwhileKeeps ==
    ASSUME TypeInv, Meanwhile
    PROVE  SameEvidence /\ eval'.step = eval.step /\ Typed
<1>1. CASE eval.step = "idle"
  BY <1>1 DEF TypeInv, TypeOK, Meanwhile, EvalStep, SameEvidence, Typed
<1>2. CASE eval.step # "idle"
  <2>1. eval.room \in 0..Interference /\ eval.room > 0
    BY <1>2 DEF TypeInv, TypeOK, Meanwhile, EvalStep
  <2>2. eval.room - 1 \in 0..Interference
    BY <2>1, SignalAssumption DEF SignalAssumption
  <2>3. eval' = [eval EXCEPT !.room = eval.room - 1]
    BY <1>2 DEF Meanwhile, EvalStep
  <2>4. eval \in EvalTypes
    BY DEF TypeInv
  <2>5. eval' \in EvalTypes /\ SameEvidence /\ eval'.step = eval.step
    BY <2>2, <2>3, <2>4 DEF EvalTypes, SameEvidence
  <2> QED BY <2>5 DEF Typed, TypeInv, TypeOK, SameEvidence
<1> QED BY <1>1, <1>2

LEMMA StepMoves ==
    ASSUME TypeInv, NEW s \in EvalSteps, eval.step # "idle", eval' = [eval EXCEPT !.step = s]
    PROVE  SameEvidence /\ eval'.step = s /\ Typed
<1>1. eval \in EvalTypes /\ eval.lineage \in [0..eval.asOf.block -> Nat]
  BY DEF TypeInv, TypeOK
<1>2. SameEvidence /\ eval'.step = s /\ eval' \in EvalTypes
  BY <1>1 DEF EvalTypes, SameEvidence
<1> QED BY <1>1, <1>2 DEF SameEvidence, Typed

LEMMA FailsToIdle ==
    ASSUME Fails
    PROVE  eval' = Idle /\ eval'.step = "idle" /\ Typed
  BY NothingsAreTyped DEF Fails, Idle, Typed

LEMMA BeginTypes ==
    ASSUME TypeInv, BeginEvaluation
    PROVE  /\ Typed
           /\ eval'.step = "snapshot"
           /\ eval'.asOf.block \in Block
           /\ eval'.asOf = PointAt(eval'.asOf.block)
           /\ eval'.lineage = [b \in 0..eval'.asOf.block |-> fork[b]]
           /\ eval'.outcomes = [l \in Launch |-> NoOutcome]
<1> DEFINE a == head - Confirmations
           read == [b \in 0..a |-> fork[b]]
<1>1. a \in Block
  <2>1. head \in Block /\ MaxBlock \in Nat /\ Confirmations \in Nat
    BY SignalAssumption, ChainAssumption
    DEF TypeInv, TypeOK, ChainTypeOK, ChainAssumption, SignalAssumption
  <2>2. head >= Confirmations
    BY DEF BeginEvaluation
  <2> QED BY ONLY <2>1, <2>2 DEF Block
<1>2. PointAt(a) \in Location /\ PointAt(a).block = a
  BY <1>1, PointsAreLocations DEF TypeInv, TypeOK, PointAt
<1>3. \A b \in 0..a : b \in Block
  BY <1>1, ChainAssumption DEF Block, ChainAssumption
<1>4. read \in [0..a -> Nat]
  BY <1>3 DEF TypeInv, TypeOK, ChainTypeOK
<1>5. eval' = [Idle EXCEPT !.step = "snapshot", !.asOf = PointAt(a), !.lineage = read]
  BY DEF BeginEvaluation
<1>6. read \in Lineages
  BY <1>1, <1>4 DEF Lineages
<1>7. Idle \in EvalTypes /\ Idle.outcomes = [l \in Launch |-> NoOutcome]
  BY NothingsAreTyped DEF Idle
<1> HIDE DEF a, read
<1>8. "snapshot" \in EvalSteps
  BY DEF EvalSteps
<1>9. /\ eval' \in EvalTypes /\ eval'.step = "snapshot" /\ eval'.asOf = PointAt(a)
      /\ eval'.lineage = read /\ eval'.outcomes = Idle.outcomes
  BY <1>2, <1>5, <1>6, <1>7, <1>8 DEF EvalTypes
<1>10. eval'.asOf.block = a
  BY <1>2, <1>9
<1>11. read = [b \in 0..a |-> fork[b]]
  BY DEF read
<1> QED BY <1>1, <1>4, <1>7, <1>9, <1>10, <1>11 DEF Typed

LEMMA ReadTypes ==
    ASSUME TypeInv, ReadSnapshot \/ ReadBaselines \/ ReadOutcomes
    PROVE  Typed
<1>1. eval \in EvalTypes /\ eval.lineage \in [0..eval.asOf.block -> Nat]
  BY DEF TypeInv, TypeOK, ReadSnapshot, ReadBaselines, ReadOutcomes, EvalStep
<1>2. LedgerTypes
  BY DEF TypeInv, TypeOK, LedgerTypes
<1>3. CASE ReadSnapshot
  <2> DEFINE gone == [l \in Launch |-> IF facts[l] = NoLocation THEN rows[l] ELSE NoLocation]
  <2>1. gone \in [Launch -> Location] /\ "baselines" \in EvalSteps
    BY <1>2, NothingsAreTyped, HeightsAreNumbers DEF LedgerTypes, EvalSteps, NoLocation, Location
  <2>2. eval' = [eval EXCEPT !.step = "baselines", !.known = rows, !.facts = facts, !.missing = gone]
    BY <1>3 DEF ReadSnapshot
  <2> HIDE DEF gone
  <2>3. eval' \in EvalTypes /\ eval'.lineage = eval.lineage /\ eval'.asOf = eval.asOf
    BY <1>1, <1>2, <2>1, <2>2 DEF EvalTypes, LedgerTypes
  <2> QED BY <1>1, <2>3 DEF Typed
<1>4. CASE ReadBaselines
  <2>1. eval' \in EvalTypes /\ eval'.lineage = eval.lineage /\ eval'.asOf = eval.asOf
    BY <1>1, <1>2, <1>4 DEF EvalTypes, EvalSteps, LedgerTypes, ReadBaselines
  <2> QED BY <1>1, <2>1 DEF Typed
<1>5. CASE ReadOutcomes
  <2> DEFINE seen == [l \in Launch |-> IF outcomes[l].at.block <= eval.asOf.block
                                       THEN outcomes[l] ELSE NoOutcome]
  <2>1. seen \in [Launch -> Outcome] /\ "universe" \in EvalSteps
    BY <1>2, NothingsAreTyped DEF LedgerTypes, EvalSteps
  <2>2. eval' = [eval EXCEPT !.step = "universe", !.outcomes = seen]
    BY <1>5 DEF ReadOutcomes
  <2> HIDE DEF seen
  <2>3. eval' \in EvalTypes /\ eval'.lineage = eval.lineage /\ eval'.asOf = eval.asOf
    BY <1>1, <2>1, <2>2 DEF EvalTypes
  <2> QED BY <1>1, <2>3 DEF Typed
<1> QED BY <1>3, <1>4, <1>5

LEMMA CheckMoves ==
    ASSUME TypeInv, CheckUniverse \/ CheckOutcomes \/ CheckAnchor, eval' # Idle
    PROVE  /\ SameEvidence /\ Typed
           /\ CheckUniverse => eval'.step = "evidence"
           /\ CheckOutcomes => eval'.step = "anchor"
           /\ CheckAnchor => eval'.step = "done"
<1>1. {"evidence", "anchor", "done"} \subseteq EvalSteps
  BY DEF EvalSteps
<1>2. CASE CheckUniverse
  <2>1. eval' = [eval EXCEPT !.step = "evidence"] /\ eval.step = "universe"
    BY <1>2 DEF CheckUniverse, Fails, EvalStep
  <2> QED BY <1>1, <1>2, <2>1, StepMoves DEF CheckOutcomes, CheckAnchor, EvalStep
<1>3. CASE CheckOutcomes
  <2>1. eval' = [eval EXCEPT !.step = "anchor"] /\ eval.step = "evidence"
    BY <1>3 DEF CheckOutcomes, Fails, EvalStep
  <2> QED BY <1>1, <1>3, <2>1, StepMoves DEF CheckUniverse, CheckAnchor, EvalStep
<1>4. CASE CheckAnchor
  <2>1. eval' = [eval EXCEPT !.step = "done"] /\ eval.step = "anchor"
    BY <1>4 DEF CheckAnchor, Fails, EvalStep
  <2> QED BY <1>1, <1>4, <2>1, StepMoves DEF CheckUniverse, CheckOutcomes, EvalStep
<1> QED BY <1>2, <1>3, <1>4

LEMMA EvaluatesTypes ==
    ASSUME TypeInv, Evaluates
    PROVE  Typed
<1>1. CASE eval' = Idle
  BY <1>1, FailsToIdle DEF Fails
<1>2. CASE eval' # Idle
  BY <1>2, BeginTypes, ReadTypes, CheckMoves DEF Evaluates, EndEvaluation, Fails
<1> QED BY <1>1, <1>2

------------------------------------------------------------------------------
LEMMA TypeOfParts ==
    ASSUME ChainTypeOK, LedgerTypes, eval \in EvalTypes,
           eval.step # "idle" => eval.lineage \in [0..eval.asOf.block -> Nat]
    PROVE  TypeInv
<1>1. /\ eval.step \in EvalSteps /\ eval.room \in 0..Interference /\ eval.asOf \in Location
      /\ eval.known \in [Launch -> Location] /\ eval.missing \in [Launch -> Location]
      /\ eval.facts \in [Launch -> Location] /\ eval.baselines \in [Launch -> Baseline]
      /\ eval.outcomes \in [Launch -> Outcome]
  BY DEF EvalTypes
<1> QED BY <1>1 DEF TypeInv, TypeOK, LedgerTypes, EvalSteps

LEMMA TypeInit == Init => TypeInv
<1> SUFFICES ASSUME Init PROVE TypeInv
  OBVIOUS
<1>1. ChainTypeOK
  BY HeightsAreNumbers, ChainAssumption DEF Init, ChainInit, ChainTypeOK
<1>2. LedgerTypes
  BY NothingsAreTyped DEF Init, LedgerTypes, NoRows
<1>3. eval \in EvalTypes /\ eval.step = "idle"
  BY NothingsAreTyped DEF Init, Idle
<1> QED BY <1>1, <1>2, <1>3, TypeOfParts

LEMMA ChainMovesTypes ==
    ASSUME ChainTypeOK, ForksGrow, ChainMoves
    PROVE  ChainTypeOK' /\ ForksGrow'
  BY ReorgRaises, MineKeepsForks DEF ChainMoves, ForksGrow, NewestFork

LEMMA TypeStep == TypeInv /\ ForksGrow /\ [Next]_vars => TypeInv' /\ ForksGrow'
<1> SUFFICES ASSUME TypeInv, ForksGrow, [Next]_vars PROVE TypeInv' /\ ForksGrow'
  OBVIOUS
<1>1. ChainTypeOK /\ LedgerTypes
  BY DEF TypeInv, TypeOK, LedgerTypes
<1>2. ASSUME ChainTypeOK', LedgerTypes', Typed PROVE TypeInv'
  <2>1. /\ eval'.step \in EvalSteps /\ eval'.room \in 0..Interference /\ eval'.asOf \in Location
        /\ eval'.known \in [Launch -> Location] /\ eval'.missing \in [Launch -> Location]
        /\ eval'.facts \in [Launch -> Location] /\ eval'.baselines \in [Launch -> Baseline]
        /\ eval'.outcomes \in [Launch -> Outcome]
    BY <1>2 DEF Typed, EvalTypes
  <2> QED BY <1>2, <2>1 DEF TypeInv, TypeOK, LedgerTypes, Typed, EvalSteps
<1>3. CASE ReadsLedger /\ Writes /\ Meanwhile
  <2>1. fork' = fork
    BY <1>3 DEF Writes, PutLaunch, PutFact, PutBaseline, PutOutcome, RewindFrom
  <2> QED BY <1>1, <1>2, <1>3, <2>1, WritesAreTyped, MeanwhileKeeps DEF ForksGrow, NewestFork
<1>4. CASE ChainMoves /\ Meanwhile
  <2>1. LedgerTypes'
    BY <1>1, <1>4 DEF ChainMoves, LedgerTypes
  <2> QED BY <1>1, <1>2, <1>4, <2>1, ChainMovesTypes, MeanwhileKeeps
<1>5. CASE Evaluates
  <2>1. UNCHANGED <<chainVars, ledgerVars>>
    BY <1>5 DEF Evaluates, BeginEvaluation, ReadSnapshot, ReadBaselines, ReadOutcomes,
        CheckUniverse, CheckOutcomes, CheckAnchor, EndEvaluation, Reads
  <2>2. ChainTypeOK' /\ LedgerTypes' /\ ForksGrow'
    BY <1>1, <2>1 DEF ChainTypeOK, LedgerTypes, ForksGrow, NewestFork
  <2> QED BY <1>2, <1>5, <2>2, EvaluatesTypes
<1>6. CASE UNCHANGED vars
  BY <1>6 DEF vars, TypeInv, TypeOK, ChainTypeOK, ForksGrow, NewestFork
<1> QED BY <1>3, <1>4, <1>5, <1>6 DEF Next

LEMMA TypeAlways == Spec => [](TypeInv /\ ForksGrow)
<1>1. Init => ForksGrow
  BY HeightsAreNumbers DEF Init, ChainInit, ForksGrow, NewestFork
<1> QED BY <1>1, TypeInit, TypeStep, PTL DEF Spec

\* Every state of the evaluation and of the ledger it reads is well typed, for any
\* number of launches and any interference.
THEOREM TypeCorrect == Spec => []TypeOK
<1>1. TypeInv => TypeOK
  BY DEF TypeInv
<1> QED BY <1>1, TypeAlways, PTL

------------------------------------------------------------------------------
(* One fork, and no launch left out.                                       *)

\* What is derived from the evidence changes with the evidence only.
LEMMA SameEvidenceSame ==
    ASSUME SameEvidence
    PROVE  /\ Within(eval.facts)' = Within(eval.facts)
           /\ Within(eval.missing)' = Within(eval.missing)
           /\ Within(eval.known)' = Within(eval.known)
           /\ MatureLaunches' = MatureLaunches
           /\ EvalRows' = EvalRows
           /\ Receipts' = Receipts
           /\ Referenced' = Referenced
           /\ \A l \in Launch : HasTarget(l)' = HasTarget(l)
<1>1. /\ Within(eval.facts)' = Within(eval.facts)
      /\ Within(eval.missing)' = Within(eval.missing)
      /\ Within(eval.known)' = Within(eval.known)
  BY DEF SameEvidence, Within
<1>2. MatureLaunches' = MatureLaunches
  BY <1>1 DEF SameEvidence, MatureLaunches, IsMature
<1>3. EvalRows' = EvalRows /\ Receipts' = Receipts
  BY <1>2 DEF SameEvidence, EvalRows, Receipts
<1>4. \A l \in Launch : HasTarget(l)' = HasTarget(l)
  BY DEF SameEvidence, HasTarget
<1>5. \A l : EvalFeature(l)' = EvalFeature(l)
  BY DEF SameEvidence, EvalFeature
<1>6. EvalRows \subseteq Launch
  BY DEF EvalRows, MatureLaunches, Within
<1>7. {l \in EvalRows : HasTarget(l)}' = {l \in EvalRows : HasTarget(l)}
  BY <1>3, <1>4, <1>6
<1>8. {EvalFeature(l).sources : l \in EvalRows}' = {EvalFeature(l).sources : l \in EvalRows}
  BY <1>3, <1>5
<1>9. Referenced' = Referenced
  BY <1>7, <1>8 DEF Referenced
<1> QED BY <1>1, <1>2, <1>3, <1>4, <1>9

\* Nothing is known at the start.
LEMMA IdleHolds ==
    ASSUME ForksGrow', eval' = Idle
    PROVE  EvalInv'
<1>1. eval'.step = "idle" /\ eval'.asOf.block = 0 /\ eval'.outcomes = [l \in Launch |-> NoOutcome]
  BY DEF Idle, NoLocation
<1>2. ReceiptsBelowAnchor'
  BY <1>1 DEF ReceiptsBelowAnchor, NoOutcome, NoLocation
<1> QED BY <1>1, <1>2 DEF EvalInv, AnchorKept, SnapshotSplit, UniverseChecked, PointsOfLineage,
        EvidenceOfLineage

\* The heights below an as-of block that is still there are as they were read.
LEMMA OfAnchor ==
    ASSUME TypeInv, AnchorKept, eval.step # "idle", Canonical(eval.asOf),
           NEW point \in Location, point.block <= eval.asOf.block, Canonical(point)
    PROVE  OfLineage(point)
<1>1. eval.asOf.block \in Nat /\ point.block \in Nat
  BY HeightsAreNumbers DEF TypeInv, TypeOK, Location
<1>2. point.block \in 0..eval.asOf.block
  BY <1>1
<1> QED BY <1>2 DEF AnchorKept, Canonical, OfLineage

LEMMA AsOfIsBlock ==
    ASSUME TypeInv
    PROVE  /\ eval.asOf.block \in Block /\ eval.asOf.fork \in Nat
           /\ eval.asOf.block \in 0..eval.asOf.block
<1>1. eval.asOf.block \in Block /\ eval.asOf.fork \in Nat
  BY DEF TypeInv, TypeOK, Location
<1>2. eval.asOf.block \in Nat
  BY <1>1, HeightsAreNumbers
<1> QED BY <1>1, <1>2

LEMMA NewestIsNumber ==
    ASSUME TypeInv
    PROVE  NewestFork \in Nat
<1>1. ChainTypeOK
  BY DEF TypeInv, TypeOK
<1> QED BY <1>1, HeightsAreNumbers DEF ChainTypeOK, NewestFork

\* A step at which neither the evidence nor the step of the evaluation changes: the
\* anchor can only be lost, and once it is lost it never comes back.
LEMMA OthersKeepEvidence ==
    ASSUME TypeInv, EvalInv, SameEvidence, eval'.step = eval.step, ForksGrow',
           NewestFork' \in Nat, NewestFork <= NewestFork',
           eval.step # "idle" => \/ \A b \in 0..eval.asOf.block : fork'[b] = fork[b]
                                 \/ fork'[eval.asOf.block] = NewestFork + 1
    PROVE  EvalInv'
<1>1. eval.asOf.block \in Block /\ eval.asOf.fork \in Nat
  BY AsOfIsBlock
<1>2. eval.asOf.block \in 0..eval.asOf.block
  BY AsOfIsBlock
<1>3. ASSUME eval.step # "idle", Canonical(eval.asOf)'
      PROVE  Canonical(eval.asOf) /\ \A b \in 0..eval.asOf.block : fork'[b] = fork[b]
  <2>1. eval.asOf.fork <= NewestFork
    BY <1>3 DEF EvalInv, AnchorKept
  <2>2. fork'[eval.asOf.block] = eval.asOf.fork
    BY <1>3 DEF Canonical, SameEvidence
  <2>3. fork'[eval.asOf.block] # NewestFork + 1
    BY <1>1, NewestIsNumber, <2>1, <2>2
  <2> QED BY <1>2, <1>3, <2>2, <2>3 DEF Canonical
<1>4. AnchorKept'
  <2> SUFFICES ASSUME eval.step # "idle"
               PROVE  /\ eval.asOf.fork <= NewestFork'
                      /\ Canonical(eval.asOf)' =>
                             \A b \in 0..eval.asOf.block : fork'[b] = eval.lineage[b]
    BY DEF AnchorKept, SameEvidence
  <2>1. eval.asOf.fork <= NewestFork
    BY DEF EvalInv, AnchorKept
  <2>2. eval.asOf.fork <= NewestFork'
    BY <1>1, NewestIsNumber, <2>1
  <2> QED BY <1>3, <2>2 DEF EvalInv, AnchorKept
<1>5. AnchorHolds' /\ eval.step # "idle" => AnchorHolds
  BY <1>3 DEF AnchorHolds
<1>6. SnapshotSplit' /\ ReceiptsBelowAnchor'
  BY DEF EvalInv, SnapshotSplit, ReceiptsBelowAnchor, SameEvidence
<1>7. UniverseChecked'
  BY SameEvidenceSame DEF EvalInv, UniverseChecked, SameEvidence, IsMature, EvalRows, MatureLaunches, Within
<1>8. PointsOfLineage' /\ EvidenceOfLineage'
  BY <1>5, SameEvidenceSame
  DEF EvalInv, PointsOfLineage, EvidenceOfLineage, SameEvidence, OfLineage
<1> QED BY <1>4, <1>6, <1>7, <1>8 DEF EvalInv

LEMMA ReferencedAreLaunches ==
    ASSUME TypeInv
    PROVE  Referenced \subseteq Launch
<1>1. EvalRows \subseteq Launch
  BY DEF EvalRows, MatureLaunches, Within
<1>2. DOMAIN eval.facts = Launch
  BY DEF TypeInv, TypeOK
<1>3. \A l : EvalFeature(l).sources \subseteq DOMAIN eval.facts
  BY DEF EvalFeature, Feature, Eligible, PriorLaunches
<1> QED BY <1>1, <1>2, <1>3 DEF Referenced

\* The anchor of an evaluation that goes on over an unchanged chain.
LEMMA AnchorStays ==
    ASSUME TypeInv, EvalInv, eval.step # "idle", fork' = fork,
           eval'.asOf = eval.asOf, eval'.lineage = eval.lineage
    PROVE  AnchorKept' /\ ForksGrow'
  BY DEF EvalInv, AnchorKept, ForksGrow, NewestFork, Canonical

LEMMA BeginHolds ==
    ASSUME TypeInv, EvalInv, BeginEvaluation
    PROVE  EvalInv'
<1>1. /\ eval'.step = "snapshot"
      /\ eval'.asOf.block \in Block
      /\ eval'.asOf = PointAt(eval'.asOf.block)
      /\ eval'.lineage = [b \in 0..eval'.asOf.block |-> fork[b]]
      /\ eval'.outcomes = [l \in Launch |-> NoOutcome]
  BY BeginTypes
<1>2. fork' = fork
  BY DEF BeginEvaluation, Reads
<1>3. ForksGrow'
  BY <1>2 DEF EvalInv, ForksGrow, NewestFork
<1>4. eval'.asOf.fork = fork[eval'.asOf.block]
  BY <1>1 DEF PointAt
<1>5. AnchorKept'
  <2>1. eval'.asOf.fork <= NewestFork'
    BY <1>1, <1>2, <1>4 DEF EvalInv, ForksGrow, NewestFork
  <2>2. \A b \in 0..eval'.asOf.block : fork'[b] = eval'.lineage[b]
    BY <1>1, <1>2
  <2> QED BY <2>1, <2>2 DEF AnchorKept
<1>6. ReceiptsBelowAnchor'
  <2>1. eval'.asOf.block \in Nat
    BY <1>1, HeightsAreNumbers
  <2> QED BY <1>1, <2>1 DEF ReceiptsBelowAnchor, NoOutcome, NoLocation
<1> QED BY <1>1, <1>3, <1>5, <1>6 DEF EvalInv, SnapshotSplit, UniverseChecked, PointsOfLineage,
        EvidenceOfLineage

LEMMA ReadHolds ==
    ASSUME TypeInv, EvalInv, ReadSnapshot \/ ReadBaselines \/ ReadOutcomes
    PROVE  EvalInv'
<1>1. eval \in EvalTypes
  BY DEF TypeInv
<1>2. /\ eval.step \in {"snapshot", "baselines", "outcomes"} /\ fork' = fork
      /\ eval'.step \in {"baselines", "outcomes", "universe"}
      /\ eval'.asOf = eval.asOf /\ eval'.lineage = eval.lineage
  BY <1>1 DEF ReadSnapshot, ReadBaselines, ReadOutcomes, EvalStep, Reads, EvalTypes
<1>3. AnchorKept' /\ ForksGrow'
  BY <1>2, AnchorStays
<1>4. SnapshotSplit'
  <2>1. CASE ReadSnapshot
    <3> DEFINE gone == [l \in Launch |-> IF facts[l] = NoLocation THEN rows[l] ELSE NoLocation]
    <3>1. eval' = [eval EXCEPT !.step = "baselines", !.known = rows, !.facts = facts, !.missing = gone]
      BY <2>1 DEF ReadSnapshot
    <3> HIDE DEF gone
    <3>2. eval'.known = rows /\ eval'.facts = facts /\ eval'.missing = gone
      BY <1>1, <3>1 DEF EvalTypes
    <3>3. \A l \in Launch : facts[l] = rows[l] \/ (facts[l] = NoLocation /\ gone[l] = rows[l])
      BY DEF gone, TypeInv, TypeOK
    <3> QED BY <3>2, <3>3 DEF SnapshotSplit
  <2>2. CASE ReadBaselines \/ ReadOutcomes
    <3>1. /\ eval'.known = eval.known /\ eval'.facts = eval.facts /\ eval'.missing = eval.missing
          /\ eval.step \notin {"idle", "snapshot"}
      BY <1>1, <2>2 DEF EvalTypes, ReadBaselines, ReadOutcomes, EvalStep
    <3> QED BY <3>1 DEF EvalInv, SnapshotSplit
  <2> QED BY <2>1, <2>2
<1>5. ReceiptsBelowAnchor'
  <2>1. CASE ReadSnapshot \/ ReadBaselines
    <3>1. eval'.outcomes = eval.outcomes
      BY <1>1, <2>1 DEF EvalTypes, ReadSnapshot, ReadBaselines
    <3> QED BY <1>2, <3>1 DEF EvalInv, ReceiptsBelowAnchor
  <2>2. CASE ReadOutcomes
    <3> DEFINE seen == [l \in Launch |-> IF outcomes[l].at.block <= eval.asOf.block
                                         THEN outcomes[l] ELSE NoOutcome]
    <3>1. eval' = [eval EXCEPT !.step = "universe", !.outcomes = seen]
      BY <2>2 DEF ReadOutcomes
    <3>2. eval.asOf.block \in Nat
      BY AsOfIsBlock, HeightsAreNumbers
    <3>3. \A l \in Launch : seen[l].at.block <= eval.asOf.block
      BY <3>2 DEF NoOutcome, NoLocation
    <3> HIDE DEF seen
    <3>4. eval'.outcomes = seen
      BY <1>1, <3>1 DEF EvalTypes
    <3> QED BY <1>2, <3>3, <3>4 DEF ReceiptsBelowAnchor
  <2> QED BY <2>1, <2>2
<1> QED BY <1>2, <1>3, <1>4, <1>5 DEF EvalInv, UniverseChecked, PointsOfLineage, EvidenceOfLineage

\* What a passed check of the universe is worth.
LEMMA UniversePasses ==
    ASSUME TypeInv, EvalInv, CheckUniverse, eval' # Idle
    PROVE  EvalInv'
<1>1. SameEvidence /\ eval'.step = "evidence"
  BY CheckMoves
<1>2. /\ \A l \in Within(eval.missing) : ~ IsMature(eval.missing[l])
      /\ \A l \in Within(eval.facts) : Canonical(eval.facts[l])
      /\ \A l \in MatureLaunches : eval.baselines[l] # NoBaseline =>
             eval.baselines[l].at.block <= eval.asOf.block /\ Canonical(eval.baselines[l].at)
      /\ \A l \in EvalRows : HasTarget(l) => eval.outcomes[l].decision = eval.baselines[l].at
      /\ eval.step = "universe" /\ fork' = fork
  BY DEF CheckUniverse, Fails, EvalStep, Reads
<1>3. AnchorKept' /\ ForksGrow'
  BY <1>1, <1>2, AnchorStays DEF SameEvidence
<1>4. SnapshotSplit' /\ ReceiptsBelowAnchor'
  BY <1>1, <1>2 DEF EvalInv, SnapshotSplit, ReceiptsBelowAnchor, SameEvidence
<1>5. UniverseChecked'
  BY <1>1, <1>2, SameEvidenceSame
  DEF UniverseChecked, SameEvidence, IsMature, EvalRows, MatureLaunches, Within
<1>6. PointsOfLineage'
  <2>1. ASSUME Canonical(eval.asOf), NEW l \in Within(eval.facts) PROVE OfLineage(eval.facts[l])
    <3>1. l \in Launch /\ eval.facts[l].block \in 1..eval.asOf.block
      BY DEF Within
    <3>2. eval.facts[l] \in Location /\ eval.facts[l].block <= eval.asOf.block
      BY <3>1, AsOfIsBlock DEF TypeInv, TypeOK
    <3> QED BY <1>2, <2>1, <3>2, OfAnchor DEF EvalInv
  <2>2. ASSUME Canonical(eval.asOf), NEW l \in Receipts PROVE OfLineage(eval.baselines[l].at)
    <3>1. l \in Launch /\ l \in MatureLaunches /\ eval.baselines[l] # NoBaseline
      BY DEF Receipts, MatureLaunches, Within
    <3>2. eval.baselines[l].at \in Location
      BY <3>1 DEF TypeInv, TypeOK, Baseline
    <3> QED BY <1>2, <2>2, <3>1, <3>2, OfAnchor DEF EvalInv
  <2>3. AnchorHolds' => Canonical(eval.asOf)
    BY <1>1, <1>2 DEF AnchorHolds, Canonical, SameEvidence
  <2> QED BY <1>1, <2>1, <2>2, <2>3, SameEvidenceSame DEF PointsOfLineage, SameEvidence, OfLineage
<1> QED BY <1>1, <1>3, <1>4, <1>5, <1>6 DEF EvalInv, EvidenceOfLineage

LEMMA OutcomesPass ==
    ASSUME TypeInv, EvalInv, CheckOutcomes, eval' # Idle
    PROVE  EvalInv'
<1>1. SameEvidence /\ eval'.step = "anchor"
  BY CheckMoves
<1>2. /\ \A l \in Referenced : Canonical(eval.outcomes[l].at)
      /\ eval.step = "evidence" /\ fork' = fork
  BY DEF CheckOutcomes, Fails, EvalStep, Reads
<1>3. AnchorKept' /\ ForksGrow'
  BY <1>1, <1>2, AnchorStays DEF SameEvidence
<1>4. SnapshotSplit' /\ ReceiptsBelowAnchor'
  BY <1>1, <1>2 DEF EvalInv, SnapshotSplit, ReceiptsBelowAnchor, SameEvidence
<1>5. UniverseChecked'
  BY <1>1, <1>2, SameEvidenceSame
  DEF EvalInv, UniverseChecked, SameEvidence, IsMature, EvalRows, MatureLaunches, Within
<1>6. AnchorHolds' => Canonical(eval.asOf) /\ AnchorHolds
  BY <1>1, <1>2 DEF AnchorHolds, Canonical, SameEvidence
<1>7. PointsOfLineage'
  BY <1>1, <1>2, <1>6, SameEvidenceSame
  DEF EvalInv, PointsOfLineage, SameEvidence, OfLineage
<1>8. EvidenceOfLineage'
  <2>1. ASSUME Canonical(eval.asOf), NEW l \in Referenced PROVE OfLineage(eval.outcomes[l].at)
    <3>1. l \in Launch
      BY ReferencedAreLaunches
    <3>2. eval.outcomes[l].at \in Location
      BY <3>1 DEF TypeInv, TypeOK, Outcome
    <3>3. eval.outcomes[l].at.block <= eval.asOf.block
      BY <3>1 DEF EvalInv, ReceiptsBelowAnchor
    <3> QED BY <1>2, <2>1, <3>2, <3>3, OfAnchor DEF EvalInv
  <2> QED BY <1>1, <1>6, <2>1, SameEvidenceSame DEF EvidenceOfLineage, SameEvidence, OfLineage
<1> QED BY <1>1, <1>3, <1>4, <1>5, <1>7, <1>8 DEF EvalInv

LEMMA AnchorPasses ==
    ASSUME TypeInv, EvalInv, CheckAnchor, eval' # Idle
    PROVE  EvalInv'
<1>1. SameEvidence /\ eval'.step = "done"
  BY CheckMoves
<1>2. Canonical(eval.asOf) /\ eval.step = "anchor" /\ fork' = fork
  BY DEF CheckAnchor, Fails, EvalStep, Reads
<1>3. AnchorKept' /\ ForksGrow'
  BY <1>1, <1>2, AnchorStays DEF SameEvidence
<1>4. SnapshotSplit' /\ ReceiptsBelowAnchor'
  BY <1>1, <1>2 DEF EvalInv, SnapshotSplit, ReceiptsBelowAnchor, SameEvidence
<1>5. UniverseChecked'
  BY <1>1, <1>2, SameEvidenceSame
  DEF EvalInv, UniverseChecked, SameEvidence, IsMature, EvalRows, MatureLaunches, Within
<1>6. PointsOfLineage' /\ EvidenceOfLineage'
  BY <1>1, <1>2, SameEvidenceSame
  DEF EvalInv, PointsOfLineage, EvidenceOfLineage, AnchorHolds, SameEvidence, OfLineage
<1> QED BY <1>3, <1>4, <1>5, <1>6 DEF EvalInv

LEMMA EvalStepHolds == TypeInv /\ EvalInv /\ [Next]_vars => EvalInv'
<1> SUFFICES ASSUME TypeInv, EvalInv, [Next]_vars PROVE EvalInv'
  OBVIOUS
<1>1. ForksGrow' /\ ChainTypeOK' /\ NewestFork' \in Nat
  <2>1. TypeInv' /\ ForksGrow'
    BY TypeStep DEF EvalInv
  <2>2. ChainTypeOK'
    BY <2>1 DEF TypeInv, TypeOK
  <2> QED BY <2>1, <2>2, HeightsAreNumbers DEF ChainTypeOK, NewestFork
<1>2. ASSUME SameEvidence, eval'.step = eval.step, fork' = fork PROVE EvalInv'
  BY <1>1, <1>2, OthersKeepEvidence, NewestIsNumber DEF NewestFork
<1>3. CASE ReadsLedger /\ Writes /\ Meanwhile
  <2>1. fork' = fork
    BY <1>3 DEF Writes, PutLaunch, PutFact, PutBaseline, PutOutcome, RewindFrom
  <2> QED BY <1>2, <1>3, <2>1, MeanwhileKeeps
<1>4. CASE ChainMoves /\ Meanwhile
  <2>1. SameEvidence /\ eval'.step = eval.step
    BY <1>4, MeanwhileKeeps
  <2>2. ChainTypeOK
    BY DEF TypeInv, TypeOK
  <2>3. CASE Mine
    BY <1>2, <2>1, <2>2, <2>3, MineKeepsForks
  <2>4. ASSUME NEW p \in Block, Reorg(p) PROVE EvalInv'
    <3>1. /\ NewestFork' = NewestFork + 1
          /\ \A b \in Block : fork'[b] = IF b >= p THEN NewestFork + 1 ELSE fork[b]
      BY <2>2, <2>4, ReorgRaises DEF EvalInv
    <3>2. eval.asOf.block \in Block /\ eval.asOf.block \in Nat
      BY AsOfIsBlock, HeightsAreNumbers
    <3>3. NewestFork \in Nat /\ NewestFork <= NewestFork'
      BY <3>1, NewestIsNumber
    <3>4. CASE eval.asOf.block >= p
      <4>1. fork'[eval.asOf.block] = NewestFork + 1
        BY <3>1, <3>2, <3>4
      <4> QED BY <1>1, <2>1, <3>3, <4>1, OthersKeepEvidence
    <3>5. CASE ~ (eval.asOf.block >= p)
      <4>1. \A b \in 0..eval.asOf.block : b \in Block /\ ~ (b >= p)
        BY <3>2, <3>5, ChainAssumption DEF Block, ChainAssumption
      <4>2. \A b \in 0..eval.asOf.block : fork'[b] = fork[b]
        BY <3>1, <4>1
      <4> QED BY <1>1, <2>1, <3>3, <4>2, OthersKeepEvidence
    <3> QED BY <3>4, <3>5
  <2> QED BY <1>4, <2>3, <2>4 DEF ChainMoves
<1>5. CASE Evaluates
  <2>1. CASE eval' = Idle
    BY <1>1, <2>1, IdleHolds
  <2>2. CASE eval' # Idle
    BY <1>5, <2>2, BeginHolds, ReadHolds, UniversePasses, OutcomesPass, AnchorPasses
    DEF Evaluates, EndEvaluation, Fails
  <2> QED BY <2>1, <2>2
<1>6. CASE UNCHANGED vars
  BY <1>2, <1>6 DEF vars, SameEvidence
<1> QED BY <1>3, <1>4, <1>5, <1>6 DEF Next

LEMMA EvalAlways == Spec => [](TypeInv /\ EvalInv)
<1>1. Init => EvalInv
  <2> SUFFICES ASSUME Init PROVE EvalInv
    OBVIOUS
  <2>1. ForksGrow
    BY HeightsAreNumbers DEF Init, ChainInit, ForksGrow, NewestFork
  <2>2. eval.step = "idle" /\ eval.asOf.block = 0 /\ eval.outcomes = [l \in Launch |-> NoOutcome]
    BY DEF Init, Idle, NoLocation
  <2>3. ReceiptsBelowAnchor
    <3>1. NoOutcome.at.block = 0
      BY DEF NoOutcome, NoLocation
    <3>2. \A l \in Launch : eval.outcomes[l] = NoOutcome
      BY <2>2
    <3>3. \A l \in Launch : eval.outcomes[l].at.block = 0
      BY <3>1, <3>2
    <3>4. 0 <= 0
      OBVIOUS
    <3> QED BY <2>2, <3>3, <3>4, Zenon DEF ReceiptsBelowAnchor
  <2>4. AnchorKept /\ SnapshotSplit
    BY <2>2 DEF AnchorKept, SnapshotSplit
  <2>5. UniverseChecked /\ PointsOfLineage /\ EvidenceOfLineage
    BY <2>2 DEF UniverseChecked, PointsOfLineage, EvidenceOfLineage
  <2> QED BY <2>1, <2>3, <2>4, <2>5 DEF EvalInv
<1> QED BY <1>1, TypeAlways, EvalStepHolds, PTL DEF Spec

\* A receipt that names an as-of block rests on that block's ancestors alone, whatever
\* the writers, the rewinds and the forks did between the reads of
\* buildCreatorSignalEvaluation.
THEOREM RestsOnOneFork == Spec => []EvaluationOfOneFork
<1>1. EvalInv => EvaluationOfOneFork
  BY DEF EvalInv, PointsOfLineage, EvidenceOfLineage, EvaluationOfOneFork, Done, AnchorHolds
<1> QED BY <1>1, EvalAlways, PTL

\* Every launch of the ledger that is old enough at the as-of block is in the cohort of
\* a receipt, also one read between its own write and that of its fact.
THEOREM CountsEveryLaunch == Spec => []UniverseComplete
<1>1. TypeInv /\ EvalInv => UniverseComplete
  <2> SUFFICES ASSUME TypeInv, EvalInv, Done, NEW l \in Within(eval.known), IsMature(eval.known[l])
               PROVE  l \in MatureLaunches
    BY DEF UniverseComplete
  <2>1. l \in Launch /\ eval.known[l].block \in 1..eval.asOf.block
    BY DEF Within
  <2>2. CASE eval.facts[l] = eval.known[l]
    BY <2>1, <2>2 DEF MatureLaunches, Within
  <2>3. CASE eval.missing[l] = eval.known[l]
    BY <2>1, <2>3 DEF EvalInv, UniverseChecked, Done, Within
  <2> QED BY <2>1, <2>2, <2>3 DEF EvalInv, SnapshotSplit, Done
<1> QED BY <1>1, EvalAlways, PTL

------------------------------------------------------------------------------
(* The order of the ledger.                                                *)

LEMMA LedgerStep ==
    ASSUME TypeInv, LedgerInv, [Next]_vars
    PROVE  LedgerInv'
<1>1. ChainTypeOK /\ LedgerTypes
  BY DEF TypeInv, TypeOK, LedgerTypes
<1>2. \A l \in Launch : rows[l].block \in Nat /\ baselines[l].at.block \in Nat
  BY <1>1, HeightsAreNumbers DEF LedgerTypes, Location, Baseline
<1>3. CASE ReadsLedger /\ Writes
  <2>1. ASSUME NEW l \in Launch, PutLaunch(l) PROVE LedgerInv'
    <3>1. /\ l \notin Stored /\ rows' = [rows EXCEPT ![l] = OnChain(l)]
          /\ facts' = facts /\ baselines' = baselines
          /\ \A m \in Stored \ {l} : facts[m] # NoLocation /\ Precedes(rows[m], m, OnChain(l), l)
      BY <2>1 DEF PutLaunch, Stored
    <3>2. rows'[l] = OnChain(l) /\ \A m \in Launch \ {l} : rows'[m] = rows[m]
      BY <1>1, <3>1 DEF LedgerTypes
    <3>3. Stored' \subseteq Stored \cup {l}
      BY <3>2 DEF Stored
    <3>4. FactsInOrder'
      BY <3>1, <3>2, <3>3 DEF FactsInOrder
    <3>5. BaselineOfRow'
      BY <3>1, <3>2 DEF LedgerInv, BaselineOfRow, Stored
    <3> QED BY <3>4, <3>5 DEF LedgerInv
  <2>2. ASSUME NEW l \in Launch, PutFact(l) PROVE LedgerInv'
    <3>1. /\ rows' = rows /\ baselines' = baselines /\ l \in Stored
          /\ facts' = [facts EXCEPT ![l] = rows[l]]
      BY <2>2 DEF PutFact
    <3>2. facts'[l] # NoLocation /\ \A m \in Launch \ {l} : facts'[m] = facts[m]
      BY <1>1, <3>1 DEF LedgerTypes, Stored
    <3> QED BY <3>1, <3>2 DEF LedgerInv, FactsInOrder, BaselineOfRow, Stored
  <2>3. ASSUME NEW l \in Launch, PutBaseline(l) PROVE LedgerInv'
    <3>1. /\ rows' = rows /\ facts' = facts /\ l \in Stored
          /\ \A m \in Launch \ {l} : baselines'[m] = baselines[m]
          /\ baselines'[l].at.block = rows[l].block + Delay
      BY <1>1, <2>3 DEF PutBaseline, LedgerTypes, PointAt
    <3> QED BY <3>1 DEF LedgerInv, FactsInOrder, BaselineOfRow, Stored
  <2>4. ASSUME NEW l \in Launch, PutOutcome(l) PROVE LedgerInv'
    BY <2>4 DEF PutOutcome, LedgerInv, FactsInOrder, BaselineOfRow, Stored
  <2>5. ASSUME NEW b \in 1..MaxBlock, RewindFrom(b) PROVE LedgerInv'
    <3>1. \A l \in Launch :
             /\ rows'[l] = IF rows[l].block >= b THEN NoLocation ELSE rows[l]
             /\ facts'[l] = IF rows[l].block >= b THEN NoLocation ELSE facts[l]
             /\ baselines'[l] = IF rows[l].block >= b \/ baselines[l].at.block >= b
                                THEN NoBaseline ELSE baselines[l]
      BY <2>5 DEF RewindFrom
    <3>2. \A l \in Stored' : l \in Stored /\ rows'[l] = rows[l] /\ facts'[l] = facts[l]
      BY <3>1 DEF Stored
    <3>3. FactsInOrder'
      BY <3>2 DEF LedgerInv, FactsInOrder
    <3>4. BaselineOfRow'
      BY <3>1 DEF LedgerInv, BaselineOfRow, Stored
    <3> QED BY <3>3, <3>4 DEF LedgerInv
  <2> QED BY <1>3, <2>1, <2>2, <2>3, <2>4, <2>5 DEF Writes
<1>4. CASE ChainMoves \/ Evaluates \/ UNCHANGED vars
  <2>1. UNCHANGED ledgerVars
    BY <1>4 DEF ChainMoves, Evaluates, BeginEvaluation, ReadSnapshot, ReadBaselines, ReadOutcomes,
        CheckUniverse, CheckOutcomes, CheckAnchor, EndEvaluation, Reads, vars
  <2> QED BY <2>1 DEF LedgerInv, FactsInOrder, BaselineOfRow, Stored
<1> QED BY <1>3, <1>4 DEF Next

LEMMA LedgerAlways == Spec => [](TypeInv /\ EvalInv /\ LedgerInv)
<1>1. Init => LedgerInv
  BY DEF Init, LedgerInv, FactsInOrder, BaselineOfRow, Stored, NoRows
<1>2. TypeInv /\ LedgerInv /\ [Next]_vars => LedgerInv'
  BY LedgerStep
<1> QED BY <1>1, <1>2, EvalAlways, PTL DEF Spec

------------------------------------------------------------------------------
(* A receipt lies behind its decision, and the verdict is earned.          *)

EarnedInv == DecidedWithinHorizon /\ DecisionInv

LEMMA OutcomesFollow ==
    ASSUME TypeInv, LedgerInv, EarnedInv, ReadsLedger /\ Writes
    PROVE  ObservedAfter(outcomes)'
<1>1. ChainTypeOK /\ LedgerTypes /\ ObservedAfter(outcomes)
  BY DEF TypeInv, TypeOK, LedgerTypes, EarnedInv, DecisionInv
<1>2. ASSUME NEW l \in Launch, PutOutcome(l) PROVE ObservedAfter(outcomes)'
  <2>1. /\ \A m \in Launch \ {l} : outcomes'[m] = outcomes[m]
        /\ outcomes'[l].at.block = ObservedAt(l) /\ outcomes'[l].decision = baselines[l].at
        /\ baselines[l] # NoBaseline
    BY <1>1, <1>2 DEF PutOutcome, LedgerTypes, ObservedAt, PointAt, IsComplete, NoBaseline
  <2>2. baselines[l].at.block = rows[l].block + Delay
    BY <2>1 DEF LedgerInv, BaselineOfRow
  <2>3. rows[l].block \in Nat /\ Delay \in Nat /\ Horizon \in Nat /\ Delay < Horizon
    BY <1>1, HeightsAreNumbers, SignalAssumption
    DEF LedgerTypes, Location, SignalAssumption, EarnedInv, DecidedWithinHorizon
  <2>4. ObservedAt(l) \in Nat /\ rows[l].block + Horizon <= ObservedAt(l)
    BY <1>1, ObservedIsHeight
  <2>5. baselines[l].at.block < ObservedAt(l)
    BY <2>2, <2>3, <2>4
  <2> QED BY <1>1, <2>1, <2>5 DEF ObservedAfter
<1>3. ASSUME NEW b \in 1..MaxBlock, RewindFrom(b) PROVE ObservedAfter(outcomes)'
  <2>1. \A l \in Launch : outcomes'[l] \in {outcomes[l], NoOutcome}
    BY <1>3 DEF RewindFrom
  <2> QED BY <1>1, <2>1 DEF ObservedAfter
<1>4. ASSUME outcomes' = outcomes PROVE ObservedAfter(outcomes)'
  BY <1>1, <1>4 DEF ObservedAfter
<1> QED BY <1>2, <1>3, <1>4 DEF Writes, PutLaunch, PutFact, PutBaseline

LEMMA EarnedStep == TypeInv /\ LedgerInv /\ EarnedInv /\ [Next]_vars => EarnedInv'
<1> SUFFICES ASSUME TypeInv, LedgerInv, EarnedInv, [Next]_vars PROVE EarnedInv'
  OBVIOUS
<1>1. DecidedWithinHorizon'
  BY DEF EarnedInv, DecidedWithinHorizon
<1>2. ObservedAfter(outcomes) /\ ObservedAfter(eval.outcomes) /\ eval \in EvalTypes
  BY DEF EarnedInv, DecisionInv, TypeInv
<1>3. CASE ReadsLedger /\ Writes /\ Meanwhile
  <2>1. ObservedAfter(eval.outcomes)'
    BY <1>2, <1>3, MeanwhileKeeps DEF ObservedAfter, SameEvidence
  <2> QED BY <1>1, <1>3, <2>1, OutcomesFollow DEF EarnedInv, DecisionInv
<1>4. CASE ChainMoves /\ Meanwhile
  <2>1. ObservedAfter(eval.outcomes)'
    BY <1>2, <1>4, MeanwhileKeeps DEF ObservedAfter, SameEvidence
  <2>2. ObservedAfter(outcomes)'
    BY <1>2, <1>4 DEF ObservedAfter, ChainMoves
  <2> QED BY <1>1, <2>1, <2>2 DEF EarnedInv, DecisionInv
<1>5. CASE Evaluates
  <2>1. UNCHANGED ledgerVars
    BY <1>5 DEF Evaluates, BeginEvaluation, ReadSnapshot, ReadBaselines, ReadOutcomes,
        CheckUniverse, CheckOutcomes, CheckAnchor, EndEvaluation, Reads
  <2>2. ObservedAfter(outcomes)'
    BY <1>2, <2>1 DEF ObservedAfter
  <2>3. \A l \in Launch : eval'.outcomes[l] \in {outcomes[l], eval.outcomes[l], NoOutcome}
    <3>1. CASE eval' = Idle
      BY <3>1 DEF Idle
    <3>2. CASE eval' # Idle
      <4>1. CASE BeginEvaluation
        BY <4>1, BeginTypes
      <4>2. CASE ReadSnapshot \/ ReadBaselines
        BY <1>2, <4>2 DEF ReadSnapshot, ReadBaselines, EvalTypes
      <4>3. CASE ReadOutcomes
        BY <1>2, <4>3 DEF ReadOutcomes, EvalTypes
      <4>4. CASE CheckUniverse \/ CheckOutcomes \/ CheckAnchor
        BY <3>2, <4>4, CheckMoves DEF SameEvidence
      <4> QED BY <1>5, <3>2, <4>1, <4>2, <4>3, <4>4 DEF Evaluates, EndEvaluation, Fails
    <3> QED BY <3>1, <3>2
  <2>4. ObservedAfter(eval.outcomes)'
    BY <1>2, <2>3 DEF ObservedAfter
  <2> QED BY <1>1, <2>2, <2>4 DEF EarnedInv, DecisionInv
<1>6. CASE UNCHANGED vars
  BY <1>1, <1>2, <1>6 DEF vars, EarnedInv, DecisionInv, ObservedAfter
<1> QED BY <1>3, <1>4, <1>5, <1>6 DEF Next

LEMMA EarnedNow ==
    ASSUME TypeInv, EvalInv, EarnedInv
    PROVE  VerdictIsEarned
<1> SUFFICES ASSUME Done, WorthProspectiveTest
             PROVE  \E target, prior \in Launch :
            /\ Creator[prior] = Creator[target]
            /\ IsAdverse(eval.outcomes[target].recovery) /\ IsAdverse(eval.outcomes[prior].recovery)
            /\ OfLineage(eval.outcomes[target].at) /\ OfLineage(eval.outcomes[prior].at)
            /\ Precedes(eval.facts[prior], prior, eval.facts[target], target)
            /\ eval.outcomes[prior].at.block <= eval.baselines[target].at.block
            /\ eval.outcomes[prior].at.block < eval.outcomes[target].at.block
  BY DEF VerdictIsEarned
<1>1. PICK target \in AdverseTargets \cap Rejected : TRUE
  BY DEF WorthProspectiveTest
<1>2. /\ target \in EvalRows /\ target \in Launch /\ HasTarget(target)
      /\ IsAdverse(eval.outcomes[target].recovery)
      /\ EvalFeature(target).adverse # {}
  BY <1>1 DEF AdverseTargets, Resolved, Rejected, CandidateRejects, EvalRows, MatureLaunches, Within
<1>3. PICK prior \in EvalFeature(target).adverse : TRUE
  BY <1>2
<1>4. DOMAIN eval.facts = Launch
  BY DEF TypeInv, TypeOK
<1>5. /\ prior \in Launch /\ prior \in EvalFeature(target).sources
      /\ IsAdverse(eval.outcomes[prior].recovery)
      /\ Creator[prior] = Creator[target]
      /\ Precedes(eval.facts[prior], prior, eval.facts[target], target)
      /\ eval.outcomes[prior].at.block \in 1..eval.baselines[target].at.block
  BY <1>3, <1>4 DEF EvalFeature, Feature, Eligible, PriorLaunches
<1>6. target \in Referenced /\ prior \in Referenced
  BY <1>2, <1>5 DEF Referenced
<1>7. OfLineage(eval.outcomes[target].at) /\ OfLineage(eval.outcomes[prior].at)
  BY <1>6 DEF EvalInv, EvidenceOfLineage, AnchorHolds, Done
<1>8. eval.outcomes[target].decision = eval.baselines[target].at
  BY <1>2 DEF EvalInv, UniverseChecked, Done
<1>9. eval.baselines[target].at.block < eval.outcomes[target].at.block
  BY <1>2, <1>8 DEF EarnedInv, DecisionInv, ObservedAfter, HasTarget
<1>10. /\ eval.baselines[target].at.block \in Nat /\ eval.outcomes[target].at.block \in Nat
  BY <1>2, HeightsAreNumbers DEF TypeInv, TypeOK, Baseline, Outcome, Location
<1>11. /\ eval.outcomes[prior].at.block <= eval.baselines[target].at.block
       /\ eval.outcomes[prior].at.block < eval.outcomes[target].at.block
  BY <1>5, <1>9, <1>10
<1> QED BY <1>2, <1>5, <1>7, <1>11

\* A favourable evaluation rests on an adverse launch whose creator had an earlier
\* adverse launch that was known by the decision, both on the lineage of the receipt:
\* with a decision delay shorter than a day, the evidence lies before what it predicts.
THEOREM VerdictEarned == DecidedWithinHorizon /\ Spec => []VerdictIsEarned
<1>1. DecidedWithinHorizon /\ Init => EarnedInv
  BY DEF Init, EarnedInv, DecisionInv, ObservedAfter, Idle
<1>2. TypeInv /\ EvalInv /\ EarnedInv => VerdictIsEarned
  BY EarnedNow
<1> QED BY <1>1, <1>2, EarnedStep, LedgerAlways, PTL DEF Spec

------------------------------------------------------------------------------
(* The live verdict is final.                                              *)

\* FastVet by what it depends on: a PASS needs a past that is classified throughout.
LEMMA PassMeans ==
    ASSUME NEW b, NEW f, NEW c, f.classified \subseteq f.prior
    PROVE  Passes(b, f, c) <=> /\ b.quality = "EXECUTABLE"
                               /\ ~ KnownAdverse(f, c)
                               /\ f.classified = f.prior
<1> DEFINE seeded == c \in Seeded
<1>1. CASE f.classified = f.prior
  <2>1. CASE f.prior = {} /\ ~ seeded
    BY <1>1, <2>1 DEF Passes, Coverage
  <2>2. CASE ~ (f.prior = {} /\ ~ seeded)
    <3>1. /\ ~ (f.prior # {} /\ f.classified = {} /\ ~ seeded)
          /\ (f.prior # {} \/ seeded) /\ f.classified = f.prior
      BY <1>1, <2>2
    <3>2. Coverage(f, seeded) = "COMPLETE"
      BY <2>2, <3>1 DEF Coverage
    <3> QED BY <1>1, <3>2 DEF Passes
  <2> QED BY <2>1, <2>2
<1>2. CASE f.classified # f.prior
  <2>1. f.prior # {}
    BY <1>2
  <2>2. Coverage(f, seeded) \in {"UNKNOWN", "PARTIAL"}
    <3>1. CASE f.classified = {} /\ ~ seeded
      BY <2>1, <3>1 DEF Coverage
    <3>2. CASE ~ (f.classified = {} /\ ~ seeded)
      BY <1>2, <2>1, <3>2 DEF Coverage
    <3> QED BY <3>1, <3>2
  <2> QED BY <1>2, <2>2 DEF Passes
<1> QED BY <1>1, <1>2

\* g is f with receipts added.
GainsReceipts(f, g) ==
    /\ g.prior = f.prior /\ f.classified \subseteq f.prior /\ g.classified \subseteq g.prior
    /\ f.adverse \subseteq g.adverse
    /\ f.classified = f.prior => g.classified = f.classified /\ g.adverse = f.adverse

\* A feature that gains receipts changes no PASS and no REJECT.
LEMMA MoreReceiptsSameVerdict ==
    ASSUME NEW b, NEW c, NEW f, NEW g, GainsReceipts(f, g), FastVet(b, f, c) # "UNKNOWN"
    PROVE  FastVet(b, g, c) = FastVet(b, f, c)
<1> USE DEF GainsReceipts
<1>1. CASE Rejects(b, f, c)
  <2>1. Rejects(b, g, c)
    BY <1>1 DEF Rejects, KnownAdverse
  <2> QED BY <1>1, <2>1 DEF FastVet
<1>2. CASE ~ Rejects(b, f, c)
  <2>1. Passes(b, f, c)
    BY <1>2 DEF FastVet
  <2>2. b.quality = "EXECUTABLE" /\ ~ KnownAdverse(f, c) /\ f.classified = f.prior
    BY <2>1, PassMeans
  <2>3. ~ KnownAdverse(g, c) /\ g.classified = g.prior
    BY <2>2 DEF KnownAdverse
  <2>4. Passes(b, g, c)
    BY <2>2, <2>3, PassMeans
  <2>5. ~ Rejects(b, g, c)
    BY <2>2, <2>3 DEF Rejects
  <2> QED BY <1>2, <2>1, <2>4, <2>5 DEF FastVet
<1> QED BY <1>1, <1>2

\* The receipt of one launch more.
LEMMA FeatureGrows ==
    ASSUME NEW fs, NEW os, NEW ps, NEW l, NEW d, NEW m,
           os[m] = NoOutcome,
           \A k \in PriorLaunches(fs, l) \ {m} : ps[k] = os[k]
    PROVE  GainsReceipts(Feature(fs, os, l, d), Feature(fs, ps, l, d))
<1> DEFINE f == Feature(fs, os, l, d)
           g == Feature(fs, ps, l, d)
           before == PriorLaunches(fs, l)
<1>1. /\ f.prior = before /\ g.prior = before
      /\ f.classified = {k \in before : os[k].at.block \in 1..d /\ os[k].recovery # Unvalued}
      /\ g.classified = {k \in before : ps[k].at.block \in 1..d /\ ps[k].recovery # Unvalued}
      /\ f.adverse = {k \in before : os[k].at.block \in 1..d /\ IsAdverse(os[k].recovery)}
      /\ g.adverse = {k \in before : ps[k].at.block \in 1..d /\ IsAdverse(ps[k].recovery)}
  BY DEF Feature, Eligible
<1>2. os[m].recovery = Unvalued
  BY DEF NoOutcome
<1>3. ~ IsAdverse(os[m].recovery)
  BY <1>2 DEF IsAdverse
<1> HIDE DEF f, g, before
<1>4. f.adverse \subseteq g.adverse
  BY <1>1, <1>3 DEF before
<1>5. ASSUME f.classified = f.prior PROVE g.classified = f.classified /\ g.adverse = f.adverse
  <2>1. m \notin before
    BY <1>1, <1>2, <1>5
  <2>2. \A k \in before : ps[k] = os[k]
    BY <2>1 DEF before
  <2> QED BY <1>1, <2>2
<1>6. g.prior = f.prior /\ f.classified \subseteq f.prior /\ g.classified \subseteq g.prior
  BY <1>1
<1>7. GainsReceipts(f, g)
  BY <1>4, <1>5, <1>6 DEF GainsReceipts
<1> QED BY <1>7 DEF f, g

\* Within a ledger that only grows, a step leaves everything a verdict was taken from
\* alone but for one receipt that was not there.
LEMMA VerdictStep ==
    ASSUME TypeInv, LedgerInv, [Next]_vars, Grows,
           NEW l \in Launch, LiveVerdict(l) # "UNKNOWN"
    PROVE  LiveVerdict(l)' = LiveVerdict(l)
<1>1. ChainTypeOK /\ LedgerTypes
  BY DEF TypeInv, TypeOK, LedgerTypes
<1>2. baselines[l] # NoBaseline /\ facts[l] # NoLocation /\ facts[l] = rows[l] /\ l \in Stored
  BY <1>1 DEF LiveVerdict, LedgerTypes, Stored
<1>3. baselines'[l] = baselines[l] /\ rows'[l] = rows[l]
  BY <1>2 DEF Grows, Stored
<1>4. ASSUME facts' = facts, outcomes' = outcomes PROVE LiveVerdict(l)' = LiveVerdict(l)
  BY <1>3, <1>4 DEF LiveVerdict
<1>5. CASE Writes
  <2>1. CASE \E k \in Launch : PutLaunch(k) \/ PutBaseline(k)
    BY <1>4, <2>1 DEF PutLaunch, PutBaseline
  <2>2. ASSUME NEW k \in Launch, PutFact(k) PROVE LiveVerdict(l)' = LiveVerdict(l)
    <3>1. /\ k \in Stored /\ facts[k] = NoLocation /\ outcomes' = outcomes
          /\ facts' = [facts EXCEPT ![k] = rows[k]]
      BY <2>2 DEF PutFact
    <3>2. k # l /\ facts'[k] = rows[k] /\ DOMAIN facts = Launch /\ DOMAIN facts' = Launch
          /\ \A j \in Launch \ {k} : facts'[j] = facts[j]
      BY <1>1, <1>2, <3>1 DEF LedgerTypes
    <3>3. Precedes(rows[l], l, rows[k], k)
      BY <1>2, <3>1, <3>2 DEF LedgerInv, FactsInOrder
    <3>4. ~ Precedes(rows[k], k, rows[l], l)
      <4>1. rows[k].block \in Nat /\ rows[l].block \in Nat /\ k \in Nat /\ l \in Nat
        BY <1>1, HeightsAreNumbers, ChainAssumption DEF LedgerTypes, Location, ChainAssumption
      <4> QED BY <3>3, <4>1 DEF Precedes
    <3>5. facts'[l] = facts[l] /\ facts[l] = rows[l] /\ ~ (facts[k].block > 0)
      BY <1>2, <3>1, <3>2 DEF NoLocation
    <3>6. PriorLaunches(facts', l) = PriorLaunches(facts, l)
      BY <3>2, <3>4, <3>5 DEF PriorLaunches
    <3>7. LiveVerdict(l) = FastVet(baselines[l], Feature(facts, outcomes, l, baselines[l].at.block), Creator[l])
      BY <1>2 DEF LiveVerdict
    <3>8. LiveVerdict(l)' = FastVet(baselines[l], Feature(facts', outcomes, l, baselines[l].at.block), Creator[l])
      BY <1>2, <1>3, <3>1, <3>5 DEF LiveVerdict
    <3>9. Feature(facts', outcomes, l, baselines[l].at.block) = Feature(facts, outcomes, l, baselines[l].at.block)
      BY <3>6 DEF Feature, Eligible
    <3> QED BY <3>7, <3>8, <3>9
  <2>3. ASSUME NEW k \in Launch, PutOutcome(k) PROVE LiveVerdict(l)' = LiveVerdict(l)
    <3> DEFINE d == baselines[l].at.block
               f == Feature(facts, outcomes, l, d)
               g == Feature(facts, outcomes', l, d)
    <3>1. /\ outcomes[k] = NoOutcome /\ facts' = facts
          /\ \A j \in Launch \ {k} : outcomes'[j] = outcomes[j]
      BY <1>1, <2>3 DEF PutOutcome, LedgerTypes
    <3>2. \A j \in PriorLaunches(facts, l) \ {k} : outcomes'[j] = outcomes[j]
      BY <1>1, <3>1 DEF PriorLaunches, LedgerTypes
    <3>3. LiveVerdict(l) = FastVet(baselines[l], f, Creator[l])
          /\ LiveVerdict(l)' = FastVet(baselines[l], g, Creator[l])
      BY <1>2, <1>3, <3>1 DEF LiveVerdict
    <3>4. GainsReceipts(f, g)
      BY <3>1, <3>2, FeatureGrows
    <3>5. FastVet(baselines[l], f, Creator[l]) # "UNKNOWN"
      BY <3>3
    <3> HIDE DEF d, f, g
    <3> QED BY <3>3, <3>4, <3>5, MoreReceiptsSameVerdict
  <2>4. ASSUME NEW b \in 1..MaxBlock, RewindFrom(b) PROVE LiveVerdict(l)' = LiveVerdict(l)
    <3>1. /\ rows' = [k \in Launch |-> IF rows[k].block >= b THEN NoLocation ELSE rows[k]]
          /\ facts' = [k \in Launch |-> IF rows[k].block >= b THEN NoLocation ELSE facts[k]]
          /\ outcomes' = [k \in Launch |-> IF rows[k].block >= b \/ outcomes[k].at.block >= b
                                           THEN NoOutcome ELSE outcomes[k]]
      BY <2>4 DEF RewindFrom
    <3>2. \A k \in Launch : ~ (rows[k].block >= b)
      <4>1. ~ (NoLocation.block >= b)
        BY DEF NoLocation
      <4> QED BY <3>1, <4>1 DEF Grows
    <3>3. facts' = facts
      <4>1. \A k \in Launch : facts'[k] = facts[k]
        BY <3>1, <3>2
      <4>2. facts \in [Launch -> Location] /\ facts' = [k \in Launch |-> facts'[k]]
        BY <1>1, <3>1 DEF LedgerTypes
      <4> QED BY <4>1, <4>2
    <3>4. \A k \in Launch : outcomes'[k] = outcomes[k]
      BY <3>1 DEF Grows
    <3>5. outcomes' = outcomes
      BY <1>1, <3>1, <3>4 DEF LedgerTypes
    <3> QED BY <1>4, <3>3, <3>5
  <2> QED BY <1>5, <2>1, <2>2, <2>3, <2>4 DEF Writes
<1>6. CASE ChainMoves \/ Evaluates \/ UNCHANGED vars
  <2>1. UNCHANGED ledgerVars
    BY <1>6 DEF ChainMoves, Evaluates, BeginEvaluation, ReadSnapshot, ReadBaselines, ReadOutcomes,
        CheckUniverse, CheckOutcomes, CheckAnchor, EndEvaluation, Reads, vars
  <2> QED BY <1>4, <2>1
<1> QED BY <1>5, <1>6 DEF Next

\* As long as nothing is rewound no later launch, fact, batch or receipt changes a PASS
\* or a REJECT: what evaluateFastVet decided live is what a replay decides.
THEOREM VerdictFinal == Spec => VerdictIsFinal
<1> DEFINE Final == Grows => \A l \in Launch :
                        LiveVerdict(l) # "UNKNOWN" => LiveVerdict(l)' = LiveVerdict(l)
<1>1. TypeInv /\ LedgerInv /\ [Next]_vars => [Final]_ledgerVars
  BY VerdictStep
<1> QED BY <1>1, LedgerAlways, PTL DEF Spec, VerdictIsFinal

==============================================================================
