--------------------------- MODULE Research_proofs ---------------------------
(* Theorems about the executable baseline, for every chain, delay, number of *)
(* launches and deployment.                                                  *)
EXTENDS Research, TLAPS

BaselinerTypes == [step : {"idle", "next", "market", "stable", "put"},
                   listed : [Launch -> Location], at : Location,
                   status : {"NONE", "COMPLETE", "UNVERIFIED"}, seen : Nat]

\* The part of TypeOK a baseline depends on.
BaselineTypes ==
    /\ ChainTypeOK
    /\ rows \in [Launch -> Location]
    /\ baselines \in [Launch -> Baseline]
    /\ baseliner \in BaselinerTypes

\* No height is of a fork newer than the newest.
ForksGrow == \A b \in Block : fork[b] <= NewestFork

\* The decision block of a selected launch exists.
ListedWithin ==
    \A l \in Launch :
        baseliner.listed[l] # NoPoint => baseliner.listed[l].block + Delay <= MaxBlock

\* Between the two reads of the decision hash a fork can only raise the fork of
\* that height: it lies between what was read first and what is there now.
ReadsInOrder ==
    /\ baseliner.step = "market" => baseliner.at.fork <= fork[baseliner.at.block]
    /\ baseliner.step = "stable" => /\ baseliner.at.fork <= baseliner.seen
                                    /\ baseliner.seen <= fork[baseliner.at.block]
    /\ baseliner.step = "put" => baseliner.seen = baseliner.at.fork

BaselineInv ==
    /\ BaselineTypes
    /\ ForksGrow
    /\ ListedWithin
    /\ ReadsInOrder
    /\ BaselineOfOneFork

baselineVars == <<head, fork, place, rows, baselines, baseliner>>

USE DEF chainVars, ledgerVars, workerVars

------------------------------------------------------------------------------
(* Facts about the chain and the idle worker.                              *)

LEMMA IdleBaseliner ==
    Idle("baseline") = [step |-> "idle", listed |-> Nothing, at |-> NoPoint,
                        status |-> "NONE", seen |-> 0]
  BY DEF Idle

LEMMA NoPointIsALocation == NoPoint \in Location /\ Nothing \in [Launch -> Location]
  BY ChainAssumption DEF ChainAssumption, NoPoint, NoLocation, Nothing, Location, Block

\* The worker with a list in hand and nothing else.
LEMMA NextInHand ==
    ASSUME NEW listed \in [Launch -> Location],
           baseliner' = [Idle("baseline") EXCEPT !.step = "next", !.listed = listed]
    PROVE  /\ baseliner' \in BaselinerTypes
           /\ baseliner'.step = "next"
           /\ baseliner'.listed = listed
<1>1. Idle("baseline") \in BaselinerTypes
  BY IdleBaseliner, NoPointIsALocation DEF BaselinerTypes
<1> QED BY <1>1 DEF BaselinerTypes

\* A worker that ends leaves its locals typed and nothing in hand.
LEMMA EndIsSafe ==
    ASSUME EndBaselines
    PROVE  baseliner' \in BaselinerTypes /\ ListedWithin' /\ ReadsInOrder'
  BY IdleBaseliner, NoPointIsALocation
  DEF EndBaselines, BaselinerTypes, ListedWithin, ReadsInOrder, Nothing

\* A reorganisation raises the fork of the heights it replaces and of no other.
LEMMA ReorgRaises ==
    ASSUME ChainTypeOK, ForksGrow, NEW p \in Block, Reorg(p)
    PROVE  ChainTypeOK' /\ ForksGrow' /\ \A b \in Block : fork[b] <= fork'[b]
<1> USE ChainAssumption DEF ChainAssumption, Block
<1>1. NewestFork \in Nat \ {0} /\ MaxBlock \in Block
  BY DEF ChainTypeOK, NewestFork
<1>2. fork' = [b \in Block |-> IF b >= p THEN NewestFork + 1 ELSE fork[b]]
  BY DEF Reorg
<1>3. fork' \in [Block -> Nat \ {0}]
  BY <1>1, <1>2 DEF ChainTypeOK
<1>4. p <= MaxBlock
  OBVIOUS
<1>5. NewestFork' = NewestFork + 1
  BY <1>1, <1>2, <1>4 DEF NewestFork
<1>6. ForksGrow' /\ \A b \in Block : fork[b] <= fork'[b]
  BY <1>1, <1>2, <1>5 DEF ForksGrow, ChainTypeOK
<1>7. place' \in [Launch -> Block] /\ head' \in Block
  BY DEF Reorg, ChainTypeOK
<1> QED BY <1>3, <1>6, <1>7 DEF ChainTypeOK

LEMMA MineKeepsForks ==
    ASSUME ChainTypeOK, Mine
    PROVE  ChainTypeOK' /\ fork' = fork
  BY ChainAssumption DEF ChainAssumption, ChainTypeOK, Mine, Block

\* A rewind keeps what it leaves as it was.
LEMMA RewindKeeps ==
    ASSUME BaselineTypes, BaselineOfOneFork, NEW b, RewindFrom(b)
    PROVE  /\ rows' \in [Launch -> Location]
           /\ baselines' \in [Launch -> Baseline]
           /\ BaselineOfOneFork'
<1>1. NoBaseline \in Baseline
  BY NoPointIsALocation DEF NoBaseline, Baseline
<1> QED BY <1>1, NoPointIsALocation DEF RewindFrom, BaselineTypes, BaselineOfOneFork

------------------------------------------------------------------------------
(* The other two workers leave the locals of the baseline alone.           *)

LEMMA TruthKeeps ==
    ASSUME BaselineInv, TruthSteps
    PROVE  BaselineInv'
<1> USE DEF BaselineInv
<1>1. UNCHANGED <<head, fork, place, baseliner>>
  BY DEF TruthSteps, BeginTruth, HaltAtGuard, TruthTooEarly, Ingest, IngestFails
<1>2. /\ rows' \in [Launch -> Location]
      /\ baselines' \in [Launch -> Baseline]
      /\ BaselineOfOneFork'
  <2>1. CASE BeginTruth
    BY <2>1, RewindKeeps DEF BeginTruth, BaselineTypes, BaselineOfOneFork
  <2>2. CASE HaltAtGuard \/ TruthTooEarly
    BY <2>2 DEF HaltAtGuard, TruthTooEarly, BaselineTypes, BaselineOfOneFork
  <2>3. CASE Ingest
    <3>1. ASSUME NEW l \in Launch PROVE OnChain(l) \in Location
      BY DEF OnChain, Location, BaselineTypes, ChainTypeOK
    <3> QED BY <2>3, <3>1 DEF Ingest, BaselineTypes, BaselineOfOneFork
  <2>4. CASE IngestFails
    BY <2>4, RewindKeeps DEF IngestFails
  <2> QED BY <2>1, <2>2, <2>3, <2>4 DEF TruthSteps
<1>3. ChainTypeOK' /\ ForksGrow' /\ ListedWithin' /\ ReadsInOrder'
  BY <1>1 DEF BaselineTypes, ChainTypeOK, ForksGrow, NewestFork, ListedWithin, ReadsInOrder
<1> QED BY <1>1, <1>2, <1>3 DEF BaselineTypes

LEMMA OutcomesKeep ==
    ASSUME OutcomeSteps
    PROVE  UNCHANGED baselineVars
<1> USE DEF OutcomeReads, OutcomeRest, baselineVars
<1>1. CASE BeginOutcomes \/ ReadConfirmedPoint \/ ListBatches \/ FinishOutcomes \/ FinishHorizon
  BY <1>1 DEF BeginOutcomes, ReadConfirmedPoint, ListBatches, FinishOutcomes, FinishHorizon
<1>2. CASE GetLaunch \/ ReadPoints \/ ReadHighPoint \/ Probe \/ ReadPredecessor
  BY <1>2 DEF GetLaunch, ReadPoints, ReadHighPoint, Probe, ReadPredecessor
<1>3. CASE ReadMarketState \/ RecheckPoints \/ RecheckPredecessor \/ RecheckObserved
  BY <1>3 DEF ReadMarketState, RecheckPoints, RecheckPredecessor, RecheckObserved, Recheck
<1>4. CASE PutOutcome
  BY <1>4 DEF PutOutcome
<1> QED BY <1>1, <1>2, <1>3, <1>4 DEF OutcomeSteps

LEMMA StutterKeeps ==
    ASSUME BaselineInv, UNCHANGED baselineVars
    PROVE  BaselineInv'
  BY DEF BaselineInv, BaselineTypes, ChainTypeOK, ForksGrow, NewestFork, ListedWithin,
         ReadsInOrder, BaselineOfOneFork, baselineVars

------------------------------------------------------------------------------
(* The baseline, step by step.                                             *)

\* A step of the baseline that only moves its own locals.
LEMMA LocalStepKeeps ==
    ASSUME BaselineInv, BaselineRest, UNCHANGED baselines,
           baseliner' \in BaselinerTypes, ListedWithin', ReadsInOrder'
    PROVE  BaselineInv'
  BY DEF BaselineInv, BaselineRest, BaselineTypes, ChainTypeOK, ForksGrow, NewestFork,
         BaselineOfOneFork

LEMMA BeginKeeps ==
    ASSUME BaselineInv, BeginBaselines
    PROVE  BaselineInv'
<1> DEFINE maxLaunchBlock == head - Delay - Confirmations["baseline"]
<1> USE ChainAssumption, ResearchAssumption
    DEF ChainAssumption, ResearchAssumption, Worker
<1>1. CASE maxLaunchBlock < 0
  BY <1>1, EndIsSafe, LocalStepKeeps DEF BeginBaselines
<1>2. CASE ~ (maxLaunchBlock < 0)
  <2> DEFINE pending == {l \in Stored : /\ baselines[l] = NoBaseline
                                         /\ rows[l].block <= maxLaunchBlock}
             listed == FirstOf(rows, pending, MaxPerSync)
  <2>1. baseliner' = [Idle("baseline") EXCEPT !.step = "next", !.listed = listed]
    BY <1>2 DEF BeginBaselines
  <2>2. listed \in [Launch -> Location]
    BY NoPointIsALocation DEF FirstOf, BaselineInv, BaselineTypes
  <2>3. ASSUME NEW l \in Launch, listed[l] # NoPoint
        PROVE  listed[l].block + Delay <= MaxBlock
    <3>1. l \in pending /\ listed[l] = rows[l]
      BY <2>3 DEF FirstOf
    <3>2. rows[l].block \in Nat /\ rows[l].block <= maxLaunchBlock
      BY <3>1 DEF BaselineInv, BaselineTypes, Location, Block
    <3>3. head \in Nat /\ head <= MaxBlock
      BY DEF BaselineInv, BaselineTypes, ChainTypeOK, Block
    <3>4. Confirmations["baseline"] \in Nat /\ Delay \in Nat
      OBVIOUS
    <3>5. rows[l].block + Delay <= MaxBlock
      BY <3>2, <3>3, <3>4
    <3> QED BY <3>1, <3>5
  <2> HIDE DEF listed
  <2>4. /\ baseliner' \in BaselinerTypes
        /\ baseliner'.listed = listed /\ baseliner'.step = "next"
    BY <2>1, <2>2, NextInHand
  <2>6. ListedWithin' /\ ReadsInOrder'
    BY <2>3, <2>4 DEF ListedWithin, ReadsInOrder
  <2> QED BY <2>4, <2>6, LocalStepKeeps DEF BeginBaselines
<1> QED BY <1>1, <1>2

\* The decision block of the launch in hand exists, and its hash is read.
LEMMA ReadDecisionKeeps ==
    ASSUME BaselineInv, ReadDecisionHash
    PROVE  BaselineInv'
<1> USE ChainAssumption, ResearchAssumption DEF ChainAssumption, ResearchAssumption
<1>1. PICK l \in Launch :
          /\ Earliest(baseliner.listed, l)
          /\ baseliner' = [baseliner EXCEPT !.step = "market",
                                            !.at = PointAt(baseliner.listed[l].block + Delay)]
  BY DEF ReadDecisionHash
<1>2. baseliner.listed[l].block + Delay \in Block
  <2>1. baseliner.listed[l].block \in Nat
    BY DEF BaselineInv, BaselineTypes, BaselinerTypes, Location, Block
  <2>2. baseliner.listed[l].block + Delay <= MaxBlock
    BY <1>1 DEF Earliest, BaselineInv, ListedWithin
  <2> QED BY <2>1, <2>2 DEF Block
<1>3. ASSUME NEW b \in Block PROVE PointAt(b) \in Location /\ Canonical(PointAt(b))
  BY DEF PointAt, Canonical, Location, BaselineInv, BaselineTypes, ChainTypeOK
<1>4. /\ baseliner' \in BaselinerTypes
      /\ baseliner'.step = "market"
      /\ baseliner'.listed = baseliner.listed
      /\ baseliner'.at = PointAt(baseliner.listed[l].block + Delay)
  BY <1>1, <1>2, <1>3 DEF BaselineInv, BaselineTypes, BaselinerTypes
<1>5. fork' = fork
  BY DEF ReadDecisionHash, BaselineRest
<1>6. ListedWithin'
  BY <1>4 DEF BaselineInv, ListedWithin
<1>7. baseliner'.at.fork = fork'[baseliner'.at.block]
  BY <1>2, <1>4, <1>5 DEF PointAt
<1>8. baseliner'.at.fork \in Nat
  BY <1>4 DEF BaselinerTypes, Location
<1>9. ReadsInOrder'
  BY <1>4, <1>7, <1>8 DEF ReadsInOrder
<1> QED BY <1>4, <1>6, <1>9, LocalStepKeeps DEF ReadDecisionHash

\* The market is read on the fork of the decision hash or a later one.
LEMMA ReadMarketKeeps ==
    ASSUME BaselineInv, ReadMarket
    PROVE  BaselineInv'
<1>1. PICK status \in {"COMPLETE", "UNVERIFIED"} :
          baseliner' = [baseliner EXCEPT !.step = "stable", !.status = status,
                                         !.seen = fork[baseliner.at.block]]
  BY DEF ReadMarket
<1>2. fork[baseliner.at.block] \in Nat
  BY DEF BaselineInv, BaselineTypes, BaselinerTypes, Location, ChainTypeOK
<1>3. /\ baseliner' \in BaselinerTypes
      /\ baseliner'.step = "stable"
      /\ baseliner'.listed = baseliner.listed
      /\ baseliner'.at = baseliner.at
      /\ baseliner'.seen = fork[baseliner.at.block]
  BY <1>1, <1>2 DEF BaselineInv, BaselineTypes, BaselinerTypes
<1>4. fork' = fork /\ baseliner.step = "market"
  BY DEF ReadMarket, BaselineRest, BaselineStep
<1>5. ListedWithin' /\ ReadsInOrder'
  BY <1>2, <1>3, <1>4 DEF BaselineInv, ListedWithin, ReadsInOrder
<1> QED BY <1>3, <1>5, LocalStepKeeps DEF ReadMarket

\* If the decision hash is still there, nothing lay between the two reads.
LEMMA CheckDecisionKeeps ==
    ASSUME BaselineInv, CheckDecisionPoint
    PROVE  BaselineInv'
<1>1. CASE ~ Canonical(baseliner.at)
  BY <1>1, EndIsSafe, LocalStepKeeps DEF CheckDecisionPoint
<1>2. CASE Canonical(baseliner.at)
  <2>1. baseliner' = [baseliner EXCEPT !.step = "put"]
    BY <1>2 DEF CheckDecisionPoint
  <2>2. /\ baseliner' \in BaselinerTypes
        /\ baseliner'.step = "put"
        /\ baseliner'.listed = baseliner.listed
        /\ baseliner'.at = baseliner.at
        /\ baseliner'.seen = baseliner.seen
    BY <2>1 DEF BaselineInv, BaselineTypes, BaselinerTypes
  <2>3. baseliner.seen = baseliner.at.fork
    <3>1. /\ baseliner.at.fork <= baseliner.seen
          /\ baseliner.seen <= fork[baseliner.at.block]
      BY DEF BaselineInv, ReadsInOrder, CheckDecisionPoint, BaselineStep
    <3>2. baseliner.at.fork \in Nat /\ baseliner.seen \in Nat
      BY DEF BaselineInv, BaselineTypes, BaselinerTypes, Location
    <3> QED BY <1>2, <3>1, <3>2 DEF Canonical
  <2>4. ListedWithin' /\ ReadsInOrder'
    BY <2>2, <2>3 DEF BaselineInv, ListedWithin, ReadsInOrder
  <2> QED BY <2>2, <2>4, LocalStepKeeps DEF CheckDecisionPoint
<1> QED BY <1>1, <1>2

\* What is stored is what the second read of the hash has confirmed.
LEMMA PutKeeps ==
    ASSUME BaselineInv, PutBaseline
    PROVE  BaselineInv'
<1>1. PICK l \in Launch :
          /\ Earliest(baseliner.listed, l)
          /\ IF l \in Stored
             THEN /\ baselines' = [baselines EXCEPT ![l] =
                        [status |-> baseliner.status, at |-> baseliner.at,
                         from |-> baseliner.listed[l], seen |-> baseliner.seen,
                         above |-> AboveCheckpoint(baseliner.at.block)]]
                  /\ baseliner' = [Idle("baseline") EXCEPT !.step = "next",
                                      !.listed = [baseliner.listed EXCEPT ![l] = NoPoint]]
                  /\ UNCHANGED turn
             ELSE EndBaselines /\ Throws /\ UNCHANGED baselines
  BY DEF PutBaseline
<1>2. CASE l \notin Stored
  BY <1>1, <1>2, EndIsSafe, LocalStepKeeps DEF PutBaseline
<1>3. CASE l \in Stored
  <2> DEFINE listed == [baseliner.listed EXCEPT ![l] = NoPoint]
             batch == [status |-> baseliner.status, at |-> baseliner.at,
                       from |-> baseliner.listed[l], seen |-> baseliner.seen,
                       above |-> AboveCheckpoint(baseliner.at.block)]
  <2>1. listed \in [Launch -> Location]
    BY NoPointIsALocation DEF BaselineInv, BaselineTypes, BaselinerTypes
  <2>2. /\ baseliner' \in BaselinerTypes
        /\ baseliner'.step = "next"
        /\ baseliner'.listed = listed
    BY <1>1, <1>3, <2>1, NextInHand
  <2>3. ListedWithin' /\ ReadsInOrder'
    BY <2>2 DEF BaselineInv, BaselineTypes, BaselinerTypes, ListedWithin, ReadsInOrder
  <2>4. batch \in Baseline /\ batch.seen = batch.at.fork
    <3>1. AboveCheckpoint(baseliner.at.block) \in BOOLEAN
      BY DEF AboveCheckpoint
    <3>2. baseliner.step = "put"
      BY DEF PutBaseline, BaselineStep
    <3> QED BY <3>1, <3>2
        DEF BaselineInv, BaselineTypes, BaselinerTypes, ReadsInOrder, Baseline
  <2>5. baselines' \in [Launch -> Baseline] /\ BaselineOfOneFork'
    BY <1>1, <1>3, <2>4 DEF BaselineInv, BaselineTypes, BaselineOfOneFork
  <2>6. UNCHANGED <<head, fork, place, rows>>
    BY DEF PutBaseline, BaselineRest
  <2> QED BY <2>2, <2>3, <2>5, <2>6
      DEF BaselineInv, BaselineTypes, ChainTypeOK, ForksGrow, NewestFork
<1> QED BY <1>2, <1>3

LEMMA FinishKeeps ==
    ASSUME BaselineInv, FinishBaselines
    PROVE  BaselineInv'
  BY EndIsSafe, LocalStepKeeps DEF FinishBaselines

LEMMA AbortKeeps ==
    ASSUME BaselineInv, Abort
    PROVE  BaselineInv'
<1>1. CASE UNCHANGED baselineVars
  BY <1>1, StutterKeeps
<1>2. CASE EndBaselines /\ UNCHANGED baselines /\ BaselineRest
  BY <1>2, EndIsSafe, LocalStepKeeps
<1> QED BY <1>1, <1>2 DEF Abort, OutcomeReads, OutcomeRest, baselineVars

\* Forks only rise, so what was read earlier stays below what is there now.
LEMMA ChainKeeps ==
    ASSUME BaselineInv, ChainGrows \/ ChainReorganises
    PROVE  BaselineInv'
<1>1. UNCHANGED <<rows, baselines, baseliner>>
  BY DEF ChainGrows, ChainReorganises
<1>2. /\ ChainTypeOK' /\ ForksGrow'
      /\ \A b \in Block : fork[b] <= fork'[b]
  <2>1. CASE ChainGrows
    <3>1. ChainTypeOK' /\ fork' = fork
      BY <2>1, MineKeepsForks DEF ChainGrows, BaselineInv, BaselineTypes
    <3>2. \A b \in Block : fork[b] \in Nat
      BY DEF BaselineInv, BaselineTypes, ChainTypeOK
    <3> QED BY <3>1, <3>2 DEF BaselineInv, ForksGrow, NewestFork
  <2>2. CASE ChainReorganises
    BY <2>2, ReorgRaises DEF ChainReorganises, BaselineInv, BaselineTypes
  <2> QED BY <2>1, <2>2
<1>3. ReadsInOrder'
  <2>1. /\ baseliner.at.block \in Block
        /\ baseliner.at.fork \in Nat /\ baseliner.seen \in Nat
    BY DEF BaselineInv, BaselineTypes, BaselinerTypes, Location
  <2>2. /\ fork[baseliner.at.block] \in Nat
        /\ fork'[baseliner.at.block] \in Nat
        /\ fork[baseliner.at.block] <= fork'[baseliner.at.block]
    BY <1>2, <2>1 DEF BaselineInv, BaselineTypes, ChainTypeOK
  <2> QED BY <1>1, <2>1, <2>2 DEF BaselineInv, ReadsInOrder
<1> QED BY <1>1, <1>2, <1>3
    DEF BaselineInv, BaselineTypes, ListedWithin, BaselineOfOneFork

LEMMA InitBaseline == Init => BaselineInv
<1> SUFFICES ASSUME Init PROVE BaselineInv
  OBVIOUS
<1>1. ChainTypeOK /\ ForksGrow
  BY ChainAssumption
  DEF Init, ChainInit, ChainAssumption, ChainTypeOK, ForksGrow, NewestFork, Block
<1>2. NoBaseline \in Baseline /\ baselines \in [Launch -> Baseline]
  BY NoPointIsALocation DEF Init, NoBaseline, Baseline
<1>3. baseliner \in BaselinerTypes /\ ListedWithin /\ ReadsInOrder
  BY IdleBaseliner, NoPointIsALocation
  DEF Init, BaselinerTypes, ListedWithin, ReadsInOrder, Nothing
<1> QED BY <1>1, <1>2, <1>3, NoPointIsALocation
    DEF Init, BaselineInv, BaselineTypes, BaselineOfOneFork

LEMMA BaselineStepKeeps ==
    ASSUME BaselineInv, [Next]_vars
    PROVE  BaselineInv'
<1>1. CASE TruthSteps
  BY <1>1, TruthKeeps
<1>2. CASE BaselineSteps
  BY <1>2, BeginKeeps, FinishKeeps, ReadDecisionKeeps, ReadMarketKeeps,
     CheckDecisionKeeps, PutKeeps DEF BaselineSteps
<1>3. CASE OutcomeSteps
  BY <1>3, OutcomesKeep, StutterKeeps
<1>4. CASE Abort
  BY <1>4, AbortKeeps
<1>5. CASE ChainGrows \/ ChainReorganises
  BY <1>5, ChainKeeps
<1>6. CASE UNCHANGED vars
  BY <1>6, StutterKeeps DEF vars, baselineVars
<1> QED BY <1>1, <1>2, <1>3, <1>4, <1>5, <1>6 DEF Next

LEMMA BaselineAlways == Spec => []BaselineInv
  BY InitBaseline, BaselineStepKeeps, PTL DEF Spec

------------------------------------------------------------------------------
(* Every value a stored baseline quotes was read on the fork whose decision *)
(* hash it names, although the chain may fork between any two of its reads *)
(* and the other programs may write between them: the second read of the   *)
(* hash (assertDecisionPointStable) is enough, because the fork of a height *)
(* never goes back to an earlier one.                                      *)
THEOREM BaselinesAreOfOneFork == Spec => []BaselineOfOneFork
<1>1. BaselineInv => BaselineOfOneFork
  BY DEF BaselineInv
<1> QED BY <1>1, BaselineAlways, PTL

------------------------------------------------------------------------------
(* Theorems about the receipts of forward outcomes, for every chain, delay,  *)
(* list of horizons, number of launches and deployment: types, one fork per  *)
(* receipt, no receipt without its launch.                                   *)

Fork == 1..(MaxReorgs + 1)

CollectorTypes ==
    [step : {"idle", "confirmed", "list", "next", "points", "high", "probe",
             "predecessor", "market", "again", "predecessorAgain",
             "observedAgain", "put"},
     confirmed : Location, horizons : SUBSET Horizon, remaining : Nat,
     listed : [Launch -> Location], from : Location, top : Location,
     low : Nat, high : Nat, answer : Location, predecessor : Location,
     seen : Nat]

\* The steps of one receipt: from the launch in hand, from the first probe, from
\* the end of the search, and those between the market reads and the insert.
Searched == {"probe"} \cup {"market", "again", "predecessorAgain", "observedAgain", "put"}
Found == Searched \ {"probe"}
Held == {"points", "high"} \cup Searched
Reread == {"again", "predecessorAgain", "observedAgain"}

\* A point of a mined block.
Mined(point) == point.block >= 1 /\ point.fork \in Fork

\* No height is of a newer fork than the one above it.
ForksOrdered ==
    /\ \A b \in Block : fork[b] \in Fork
    /\ \A b, c \in Block : b <= c => fork[b] <= fork[c]

RowsMined ==
    /\ \A l \in Launch : rows[l] # NoPoint => Mined(rows[l])
    /\ truth.step = "ingest" => truth.from >= 1

LaunchInHand ==
    /\ collector.step \in Held => /\ CurrentLaunch \in Launch
                                  /\ Mined(collector.from)
                                  /\ collector.remaining > 0
    /\ collector.step \in Held \ {"points"} => CurrentBaseline # NoPoint
    /\ collector.step = "high" => collector.confirmed.block >= LowerBound

\* A block the search may end on: read, not below the lower bound, late enough.
Late(point) ==
    /\ Mined(point)
    /\ point.block >= LowerBound
    /\ point.fork <= fork[point.block]
    /\ CurrentHorizon \in Horizon => TimeOf(point) >= TargetTime

SearchInRange ==
    /\ collector.step \in Searched => Late(collector.answer)
    /\ collector.step = "probe" => /\ Late(collector.top)
                                   /\ collector.low >= LowerBound
                                   /\ collector.high <= collector.top.block

\* The market was read on the fork of the answer or on a later one.
SeenInOrder ==
    /\ collector.step \in Reread => /\ collector.answer.fork <= collector.seen
                                    /\ collector.seen <= fork[collector.answer.block]
    /\ collector.step = "put" => collector.seen = collector.answer.fork

\* As long as the answer is canonical nothing below it is late enough: what the
\* predecessor showed holds for the fork of the answer.
BoundaryFound ==
    /\ collector.step \in Found
    /\ CurrentHorizon \in Horizon
    /\ Canonical(collector.answer)
    => \A b \in Block : LowerBound <= b /\ b < collector.answer.block =>
          TimeOf(PointAt(b)) < TargetTime

\* Launch and decision point were looked at again after the answer was read.
PointsChecked ==
    /\ collector.step \in {"predecessorAgain", "observedAgain", "put"}
    /\ Canonical(collector.answer)
    => Canonical(collector.from) /\ Canonical(CurrentBaseline)

HandInv == LaunchInHand /\ SearchInRange /\ SeenInOrder /\ BoundaryFound /\ PointsChecked

\* The hash of a receipt was read, so its fork is not newer than the height's, and
\* its block does not lie below its launch.
OutcomesOld ==
    \A l \in Launch, h \in Horizon :
        outcomes[l][h] # NoOutcome =>
            /\ outcomes[l][h].at.fork <= fork[outcomes[l][h].at.block]
            /\ outcomes[l][h].from.block <= outcomes[l][h].at.block

StoredInv == OutcomesOld /\ OutcomeOfOneFork /\ NothingStranded

TypeInv == TypeOK /\ ForksOrdered /\ RowsMined

ReceiptInv == TypeInv /\ HandInv /\ StoredInv

USE DEF chainVars, ledgerVars, workerVars

------------------------------------------------------------------------------
(* Heights, points and time.                                               *)

LEMMA HeightsAreNumbers == Block \subseteq Nat /\ Fork \subseteq Nat \ {0}
  BY ChainAssumption DEF ChainAssumption, Block, Fork

LEMMA TimeIsAnInteger ==
    ASSUME NEW point \in Location, Mined(point)
    PROVE  TimeOf(point) \in Int
<1>1. BlockTime \in Nat /\ Shift[point.fork] \in Int
  BY ResearchAssumption DEF ResearchAssumption, Mined, Fork
<1>2. point.block \in Nat
  BY HeightsAreNumbers DEF Location
<1>3. BlockTime * point.block \in Int
  BY <1>1, <1>2
<1> QED BY <1>1, <1>3 DEF TimeOf

LEMMA PointsAreMined ==
    ASSUME ChainTypeOK, ForksOrdered, NEW b \in Block
    PROVE  /\ PointAt(b) \in Location /\ Canonical(PointAt(b))
           /\ PointAt(b).block = b /\ PointAt(b).fork = fork[b]
           /\ b >= 1 => Mined(PointAt(b))
           /\ TimeOf(PointAt(b)) \in Int
<1>1. PointAt(b) \in Location /\ PointAt(b).block = b /\ PointAt(b).fork = fork[b]
  BY DEF PointAt, Location, ChainTypeOK
<1>2. BlockTime * b \in Int /\ Shift[fork[b]] \in Int
  BY HeightsAreNumbers, ResearchAssumption DEF ResearchAssumption, ForksOrdered, Fork
<1> QED BY <1>1, <1>2 DEF Mined, ForksOrdered, Canonical, TimeOf

LEMMA ProductsRise ==
    ASSUME NEW unit \in Nat, NEW b \in Nat, NEW c \in Nat, b < c
    PROVE  unit * b + unit <= unit * c
  OBVIOUS

LEMMA LaterIsGreater ==
    ASSUME NEW unit \in Nat, NEW b \in Nat, NEW c \in Nat, b < c,
           NEW s \in Int, NEW t \in Int, s < unit + t
    PROVE  unit * b + s < unit * c + t
<1>1. unit * b + unit <= unit * c
  BY ProductsRise
<1>2. unit * b \in Int /\ unit * c \in Int
  OBVIOUS
<1> QED BY <1>1, <1>2

\* Time rises along the canonical chain, whatever forks its blocks are of.
LEMMA TimeRises ==
    ASSUME ChainTypeOK, ForksOrdered, NEW b \in Block, NEW c \in Block, b < c
    PROVE  TimeOf(PointAt(b)) < TimeOf(PointAt(c))
<1>1. b \in Nat /\ c \in Nat /\ fork[b] \in Fork /\ fork[c] \in Fork /\ fork[b] <= fork[c]
  BY HeightsAreNumbers DEF ForksOrdered
<1>2. /\ BlockTime \in Nat \ {0}
      /\ Shift[fork[b]] \in Int /\ Shift[fork[c]] \in Int
      /\ Shift[fork[b]] < BlockTime + Shift[fork[c]]
  <2>1. CASE fork[b] = fork[c]
    BY <1>1, <2>1, ResearchAssumption DEF ResearchAssumption, Fork
  <2>2. CASE fork[b] < fork[c]
    BY <1>1, <2>2, ResearchAssumption DEF ResearchAssumption, Fork
  <2>3. fork[b] \in Nat /\ fork[c] \in Nat
    BY <1>1, HeightsAreNumbers
  <2>4. fork[b] = fork[c] \/ fork[b] < fork[c]
    BY <1>1, <2>3
  <2> QED BY <2>1, <2>2, <2>4
<1>3. BlockTime * b + Shift[fork[b]] < BlockTime * c + Shift[fork[c]]
  BY <1>1, <1>2, LaterIsGreater
<1> QED BY <1>3 DEF TimeOf, PointAt

\* A block that a fork has spared has kept everything below it.
LEMMA ReorgSpares ==
    ASSUME ChainTypeOK, ForksOrdered, NEW p \in Block, Reorg(p),
           NEW point \in Location, point.fork <= fork[point.block], Canonical(point)'
    PROVE  /\ Canonical(point)
           /\ \A b \in Block : b <= point.block => fork'[b] = fork[b]
<1>1. /\ fork' = [b \in Block |-> IF b >= p THEN NewestFork + 1 ELSE fork[b]]
      /\ point.block \in Block /\ point.fork \in Nat
  BY DEF Reorg, Location
<1>2. /\ fork[point.block] \in Nat /\ NewestFork \in Nat
      /\ fork[point.block] <= NewestFork
  BY <1>1, HeightsAreNumbers, ChainAssumption
  DEF ChainAssumption, ForksOrdered, NewestFork, Block, ChainTypeOK
<1>3. ~ (point.block >= p)
  BY <1>1, <1>2 DEF Canonical
<1>4. ASSUME NEW b \in Block, b <= point.block PROVE ~ (b >= p)
  <2>1. b \in Nat /\ p \in Nat /\ point.block \in Nat
    BY <1>1, HeightsAreNumbers
  <2> QED BY <1>3, <1>4, <2>1
<1>5. Canonical(point)
  BY <1>1, <1>3 DEF Canonical
<1>6. ASSUME NEW b \in Block, b <= point.block PROVE fork'[b] = fork[b]
  BY <1>1, <1>4, <1>6
<1> QED BY <1>5, <1>6

LEMMA ReorgOrders ==
    ASSUME ChainTypeOK, ForksOrdered, NEW p \in Block, Reorg(p)
    PROVE  ForksOrdered' /\ \A b \in Block : fork[b] <= fork'[b]
<1>1. /\ fork' = [b \in Block |-> IF b >= p THEN NewestFork + 1 ELSE fork[b]]
      /\ NewestFork <= MaxReorgs
  BY DEF Reorg
<1>2. /\ MaxReorgs \in Nat /\ NewestFork \in Nat
      /\ \A b \in Block : fork[b] \in Nat \ {0} /\ fork[b] <= NewestFork
  BY HeightsAreNumbers, ChainAssumption
  DEF ChainAssumption, ForksOrdered, NewestFork, Block, ChainTypeOK
<1>3. \A b \in Block : b \in Nat
  BY HeightsAreNumbers
<1> QED BY <1>1, <1>2, <1>3 DEF ForksOrdered, Fork

------------------------------------------------------------------------------
(* Types.                                                                  *)

LEMMA IdleWorkers ==
    /\ Idle("truth") = [step |-> "idle", from |-> 0, target |-> 0]
    /\ Idle("outcomes") =
            [step |-> "idle", confirmed |-> NoPoint, horizons |-> {}, remaining |-> 0,
             listed |-> Nothing, from |-> NoPoint, top |-> NoPoint, low |-> 0, high |-> 0,
             answer |-> NoPoint, predecessor |-> NoPoint, seen |-> 0]
    /\ Idle("outcomes") \in CollectorTypes
    /\ NoOutcome \in Outcome
    /\ NoCheckpoint \in [at : Location, guard : Location]
<1>1. /\ Idle("truth") = [step |-> "idle", from |-> 0, target |-> 0]
      /\ Idle("outcomes") =
            [step |-> "idle", confirmed |-> NoPoint, horizons |-> {}, remaining |-> 0,
             listed |-> Nothing, from |-> NoPoint, top |-> NoPoint, low |-> 0, high |-> 0,
             answer |-> NoPoint, predecessor |-> NoPoint, seen |-> 0]
  BY DEF Idle
<1>2. Idle("outcomes") \in CollectorTypes
  BY <1>1, NoPointIsALocation DEF CollectorTypes
<1>3. NoOutcome \in Outcome /\ NoCheckpoint \in [at : Location, guard : Location]
  BY NoPointIsALocation DEF NoOutcome, Outcome, NoCheckpoint
<1> QED BY <1>1, <1>2, <1>3

LEMMA TypesAre ==
    TypeOK <=> /\ BaselineTypes
               /\ outcomes \in [Launch -> [Horizon -> Outcome]]
               /\ checkpoint \in [at : Location, guard : Location]
               /\ turn \in Worker \cup {"any"}
               /\ truth \in [step : {"idle", "ingest"}, from : Nat, target : Block]
               /\ collector \in CollectorTypes
               /\ unseenFork \in BOOLEAN
  BY DEF TypeOK, BaselineTypes, BaselinerTypes, CollectorTypes

LEMMA TurnsAreTypes ==
    ASSUME turn \in Worker \cup {"any"}, [Next]_vars
    PROVE  turn' \in Worker \cup {"any"} /\ (turn' = "any" <=> turn = "any")
<1> USE DEF Worker, Throws, Returns, After
<1>1. CASE TruthSteps
  BY <1>1 DEF TruthSteps, BeginTruth, HaltAtGuard, TruthTooEarly, Ingest, IngestFails
<1>2. CASE BaselineSteps
  BY <1>2 DEF BaselineSteps, BeginBaselines, FinishBaselines, ReadDecisionHash, ReadMarket,
              CheckDecisionPoint, PutBaseline
<1>3. CASE OutcomeSteps
  <2> USE DEF OutcomeFails, Recheck
  <2>1. CASE BeginOutcomes \/ ReadConfirmedPoint \/ ListBatches \/ FinishOutcomes \/ FinishHorizon
    BY <2>1 DEF BeginOutcomes, ReadConfirmedPoint, ListBatches, FinishOutcomes, FinishHorizon
  <2>2. CASE GetLaunch \/ ReadPoints \/ ReadHighPoint \/ Probe \/ ReadPredecessor
    BY <2>2 DEF GetLaunch, ReadPoints, ReadHighPoint, Probe, ReadPredecessor
  <2>3. CASE ReadMarketState \/ RecheckPoints \/ RecheckPredecessor \/ RecheckObserved \/ PutOutcome
    BY <2>3 DEF ReadMarketState, RecheckPoints, RecheckPredecessor, RecheckObserved, PutOutcome
  <2> QED BY <1>3, <2>1, <2>2, <2>3 DEF OutcomeSteps
<1>4. CASE Abort
  BY <1>4 DEF Abort, OutcomeFails
<1>5. CASE ChainGrows \/ ChainReorganises
  BY <1>5 DEF ChainGrows, ChainReorganises
<1>6. CASE UNCHANGED vars
  BY <1>6 DEF vars
<1> QED BY <1>1, <1>2, <1>3, <1>4, <1>5, <1>6 DEF Next

LEMMA RewindTypes ==
    ASSUME TypeOK, NEW b, RewindFrom(b)
    PROVE  /\ outcomes' \in [Launch -> [Horizon -> Outcome]]
           /\ checkpoint' \in [at : Location, guard : Location]
           /\ \A l \in Launch : rows'[l] \in {rows[l], NoPoint}
  BY IdleWorkers DEF RewindFrom, TypeOK

LEMMA TruthTypes ==
    ASSUME TypeInv, TruthSteps
    PROVE  /\ outcomes' \in [Launch -> [Horizon -> Outcome]]
           /\ checkpoint' \in [at : Location, guard : Location]
           /\ truth' \in [step : {"idle", "ingest"}, from : Nat, target : Block]
           /\ RowsMined'
<1> USE DEF TypeInv
<1> DEFINE truthTypes == [step : {"idle", "ingest"}, from : Nat, target : Block]
<1>1. Idle("truth") \in truthTypes /\ Idle("truth").step = "idle"
  BY IdleWorkers, ChainAssumption DEF ChainAssumption, Block
<1>2. CASE BeginTruth
  <2>1. PICK from \in Nat \ {0} :
            truth' = [step |-> "ingest", from |-> from, target |-> head - Confirmations["truth"]]
    <3>1. checkpoint.at.block \in Nat /\ checkpoint.guard.block \in Nat
      BY HeightsAreNumbers DEF TypeOK, Location
    <3>2. checkpoint.at.block + 1 \in Nat \ {0} /\ checkpoint.guard.block + 1 \in Nat \ {0}
      BY <3>1
    <3> QED BY <1>2, <3>2 DEF BeginTruth
  <2>2. head - Confirmations["truth"] \in Block
    <3>1. Confirmations["truth"] \in Nat
      BY ResearchAssumption DEF ResearchAssumption, Worker
    <3>2. head \in 0..MaxBlock /\ MaxBlock \in Nat /\ head - Confirmations["truth"] > 0
      BY <1>2, ChainAssumption DEF BeginTruth, ChainAssumption, TypeOK, ChainTypeOK, Block
    <3> QED BY <3>1, <3>2 DEF Block
  <2>3. truth' \in truthTypes /\ truth'.from >= 1
    BY <2>1, <2>2
  <2>4. /\ outcomes' \in [Launch -> [Horizon -> Outcome]]
        /\ checkpoint' \in [at : Location, guard : Location]
        /\ \A l \in Launch : rows'[l] \in {rows[l], NoPoint}
    BY <1>2, RewindTypes DEF BeginTruth, TypeOK
  <2> QED BY <2>3, <2>4 DEF RowsMined
<1>3. CASE HaltAtGuard \/ TruthTooEarly
  BY <1>3 DEF HaltAtGuard, TruthTooEarly, TypeOK, RowsMined
<1>4. CASE Ingest
  <2>1. /\ truth' = Idle("truth") /\ outcomes' = outcomes
        /\ checkpoint' \in {checkpoint, [at |-> PointAt(truth.target),
                                         guard |-> PointAt(GuardBlock(truth.target))]}
        /\ \/ rows' = rows
           \/ rows' = [l \in Launch |-> IF place[l] \in truth.from..truth.target
                                        THEN OnChain(l) ELSE rows[l]]
    BY <1>4 DEF Ingest
  <2>2. GuardBlock(truth.target) \in Block /\ truth.target \in Block
    BY ResearchAssumption, ChainAssumption
    DEF ResearchAssumption, ChainAssumption, GuardBlock, TypeOK, Block
  <2>3. [at |-> PointAt(truth.target), guard |-> PointAt(GuardBlock(truth.target))]
          \in [at : Location, guard : Location]
    BY <2>2, PointsAreMined DEF TypeOK
  <2>4. ASSUME NEW l \in Launch, place[l] \in truth.from..truth.target
        PROVE  Mined(OnChain(l))
    <3>1. place[l] \in Block /\ truth.from \in Nat /\ truth.from >= 1
      BY <1>4 DEF Ingest, TypeOK, ChainTypeOK, RowsMined
    <3>2. place[l] >= 1 /\ fork[place[l]] \in Fork
      BY <2>4, <3>1, HeightsAreNumbers DEF ForksOrdered
    <3> QED BY <3>2 DEF Mined, OnChain
  <2>5. RowsMined'
    BY <1>1, <2>1, <2>4 DEF RowsMined, Mined
  <2> QED BY <1>1, <2>1, <2>3, <2>5 DEF TypeOK
<1>5. CASE IngestFails
  BY <1>1, <1>5, RewindTypes DEF IngestFails, RowsMined
<1> QED BY <1>2, <1>3, <1>4, <1>5 DEF TruthSteps

------------------------------------------------------------------------------
(* One receipt, step by step.                                              *)

\* The choices of list and horizon, and the target, are the same after a step that
\* leaves them alone.
LEMMA SameInHand ==
    ASSUME collector'.listed = collector.listed, collector'.horizons = collector.horizons,
           collector'.from = collector.from
    PROVE  /\ CurrentLaunch' = CurrentLaunch /\ CurrentHorizon' = CurrentHorizon
           /\ CurrentBaseline' = CurrentBaseline /\ LowerBound' = LowerBound
           /\ TargetTime' = TargetTime
  BY DEF CurrentLaunch, CurrentHorizon, CurrentBaseline, LowerBound, TargetTime, TimeOf, Earliest

LEMMA NothingInHand ==
    ASSUME collector'.step \notin Held
    PROVE  HandInv'
  BY DEF HandInv, LaunchInHand, SearchInRange, SeenInOrder, BoundaryFound, PointsChecked,
         Held, Searched, Found, Reread

LEMMA HandStays ==
    ASSUME HandInv, UNCHANGED <<fork, collector>>
    PROVE  HandInv'
<1>1. /\ CurrentLaunch' = CurrentLaunch /\ CurrentHorizon' = CurrentHorizon
      /\ CurrentBaseline' = CurrentBaseline /\ LowerBound' = LowerBound
      /\ TargetTime' = TargetTime
  BY SameInHand
<1>2. \A point : /\ Late(point)' <=> Late(point)
                 /\ Canonical(point)' <=> Canonical(point)
  BY <1>1 DEF Late, Mined, Canonical, TimeOf
<1>3. \A b \in Block : TimeOf(PointAt(b))' = TimeOf(PointAt(b))
  BY DEF TimeOf, PointAt
<1>4. LaunchInHand' /\ SearchInRange' /\ SeenInOrder'
  BY <1>1, <1>2 DEF HandInv, LaunchInHand, SearchInRange, SeenInOrder, Mined
<1>5. BoundaryFound' /\ PointsChecked'
  BY <1>1, <1>2, <1>3 DEF HandInv, BoundaryFound, PointsChecked
<1> QED BY <1>4, <1>5 DEF HandInv

\* What the bounds and times of the receipt in hand are.
LEMMA InHand ==
    ASSUME TypeInv, HandInv, collector.step \in Held
    PROVE  /\ CurrentLaunch \in Launch /\ CurrentBaseline \in Location
           /\ LowerBound \in Nat /\ LowerBound >= 1
           /\ LowerBound >= collector.from.block /\ LowerBound >= CurrentBaseline.block
           /\ CurrentHorizon \in Horizon => TargetTime \in Int
<1>1. CurrentLaunch \in Launch /\ Mined(collector.from) /\ collector \in CollectorTypes
  BY TypesAre DEF HandInv, LaunchInHand, TypeInv
<1>2. CurrentBaseline \in Location /\ collector.from \in Location
  BY <1>1 DEF CurrentBaseline, CollectorTypes
<1>3. /\ CurrentBaseline.block \in Nat /\ collector.from.block \in Nat
      /\ collector.from.block >= 1
  BY <1>1, <1>2, HeightsAreNumbers DEF Location, Mined
<1>4. CurrentHorizon \in Horizon => TargetTime \in Int
  BY <1>1, <1>2, TimeIsAnInteger, ResearchAssumption DEF TargetTime, ResearchAssumption
<1> QED BY <1>1, <1>2, <1>3, <1>4 DEF LowerBound

\* The end of a receipt, with or without one, has the next in the list as its step.
LEMMA NextBatchKeeps ==
    ASSUME TypeInv, NEW remaining \in Nat, NextBatch(remaining)
    PROVE  collector' \in CollectorTypes /\ HandInv' /\ collector'.step = "next"
<1>1. collector \in CollectorTypes
  BY TypesAre DEF TypeInv
<1>2. [collector.listed EXCEPT ![CurrentLaunch] = NoPoint] \in [Launch -> Location]
  BY <1>1, NoPointIsALocation DEF CollectorTypes
<1>3. collector' \in CollectorTypes /\ collector'.step = "next"
  BY <1>1, <1>2, IdleWorkers DEF NextBatch, CollectorTypes
<1> QED BY <1>3, NothingInHand DEF Held, Searched

LEMMA EndKeeps ==
    ASSUME EndOutcomes
    PROVE  collector' \in CollectorTypes /\ HandInv'
<1>1. collector' \in CollectorTypes /\ collector'.step = "idle"
  BY IdleWorkers DEF EndOutcomes
<1> QED BY <1>1, NothingInHand DEF Held, Searched

LEMMA ListStepsKeep ==
    ASSUME TypeInv, BeginOutcomes \/ ReadConfirmedPoint \/ ListBatches
                    \/ FinishOutcomes \/ FinishHorizon
    PROVE  collector' \in CollectorTypes /\ HandInv'
<1>0. collector \in CollectorTypes /\ Nothing \in [Launch -> Location]
  BY TypesAre, NoPointIsALocation DEF TypeInv
<1>1. CASE BeginOutcomes
  <2>1. CASE head < Confirmations["outcomes"]
    BY <1>1, <2>1, EndKeeps DEF BeginOutcomes
  <2>2. CASE ~ (head < Confirmations["outcomes"])
    <3>1. head - Confirmations["outcomes"] \in Block
      <4>1. Confirmations["outcomes"] \in Nat
        BY ResearchAssumption DEF ResearchAssumption, Worker
      <4>2. head \in 0..MaxBlock /\ MaxBlock \in Nat
        BY ChainAssumption DEF ChainAssumption, TypeInv, TypeOK, ChainTypeOK, Block
      <4> QED BY <2>2, <4>1, <4>2 DEF Block
    <3>2. [NoPoint EXCEPT !.block = head - Confirmations["outcomes"]] \in Location
      BY <3>1, NoPointIsALocation DEF Location
    <3>3. collector' = [Idle("outcomes") EXCEPT
             !.step = "confirmed", !.remaining = MaxPerSync, !.horizons = Horizon,
             !.confirmed = [NoPoint EXCEPT !.block = head - Confirmations["outcomes"]]]
      BY <1>1, <2>2 DEF BeginOutcomes
    <3>4. MaxPerSync \in Nat
      BY ResearchAssumption DEF ResearchAssumption
    <3>5. collector' \in CollectorTypes /\ collector'.step = "confirmed"
      BY <3>2, <3>3, <3>4, IdleWorkers DEF CollectorTypes
    <3> QED BY <3>5, NothingInHand DEF Held, Searched
  <2> QED BY <2>1, <2>2
<1>2. CASE ReadConfirmedPoint
  <2>1. PointAt(collector.confirmed.block) \in Location
    BY <1>0, PointsAreMined DEF TypeInv, TypeOK, CollectorTypes, Location
  <2>2. collector' \in CollectorTypes /\ collector'.step = "list"
    BY <1>0, <1>2, <2>1 DEF ReadConfirmedPoint, CollectorTypes
  <2> QED BY <2>2, NothingInHand DEF Held, Searched
<1>3. CASE ListBatches
  <2>1. PICK pending : collector' = [collector EXCEPT !.step = "next",
             !.listed = FirstOf([l \in Launch |-> baselines[l].at], pending, collector.remaining)]
    BY <1>3 DEF ListBatches
  <2>2. FirstOf([l \in Launch |-> baselines[l].at], pending, collector.remaining)
          \in [Launch -> Location]
    BY NoPointIsALocation DEF FirstOf, TypeInv, TypeOK, Baseline
  <2>3. collector' \in CollectorTypes /\ collector'.step = "next"
    BY <1>0, <2>1, <2>2 DEF CollectorTypes
  <2> QED BY <2>3, NothingInHand DEF Held, Searched
<1>4. CASE FinishOutcomes
  BY <1>4, EndKeeps DEF FinishOutcomes
<1>5. CASE FinishHorizon
  <2>1. collector' \in CollectorTypes /\ collector'.step = "list"
    BY <1>0, <1>5 DEF FinishHorizon, CollectorTypes
  <2> QED BY <2>1, NothingInHand DEF Held, Searched
<1> QED BY <1>1, <1>2, <1>3, <1>4, <1>5

LEMMA GetLaunchKeeps ==
    ASSUME TypeInv, GetLaunch
    PROVE  collector' \in CollectorTypes /\ HandInv'
<1>1. collector \in CollectorTypes
  BY TypesAre DEF TypeInv
<1>2. CASE CurrentLaunch \notin Stored
  BY <1>2, EndKeeps DEF GetLaunch, OutcomeFails
<1>3. CASE CurrentLaunch \in Stored
  <2>1. /\ collector' = [collector EXCEPT !.step = "points", !.from = rows[CurrentLaunch]]
        /\ CurrentLaunch \in Launch /\ rows[CurrentLaunch] # NoPoint
        /\ collector.remaining > 0
    BY <1>3 DEF GetLaunch, Stored
  <2>2. rows[CurrentLaunch] \in Location /\ Mined(rows[CurrentLaunch])
    BY <2>1 DEF TypeInv, TypeOK, RowsMined
  <2>3. /\ collector' \in CollectorTypes
        /\ collector'.step = "points"
        /\ collector'.from = rows[CurrentLaunch]
        /\ collector'.listed = collector.listed
        /\ collector'.remaining = collector.remaining
    BY <1>1, <2>1, <2>2 DEF CollectorTypes
  <2>4. CurrentLaunch' = CurrentLaunch
    BY <2>3 DEF CurrentLaunch, Earliest
  <2>5. LaunchInHand'
    BY <2>1, <2>2, <2>3, <2>4 DEF LaunchInHand, Held, Mined
  <2>6. HandInv'
    BY <2>3, <2>5
    DEF HandInv, SearchInRange, SeenInOrder, BoundaryFound, PointsChecked, Searched, Found, Reread
  <2> QED BY <2>3, <2>6
<1> QED BY <1>2, <1>3

LEMMA ReadPointsKeeps ==
    ASSUME TypeInv, HandInv, ReadPoints
    PROVE  collector' \in CollectorTypes /\ HandInv'
<1>1. collector \in CollectorTypes /\ collector.step = "points"
  BY TypesAre DEF TypeInv, ReadPoints, OutcomeStep
<1>2. CASE OutcomeFails
  BY <1>2, EndKeeps DEF OutcomeFails
<1>3. CASE NextBatch(collector.remaining)
  BY <1>1, <1>3, NextBatchKeeps DEF CollectorTypes
<1>4. CASE /\ Canonical(CurrentBaseline)
           /\ ~ (collector.confirmed.block < LowerBound)
           /\ collector' = [collector EXCEPT !.step = "high"]
  <2>1. /\ collector' \in CollectorTypes /\ collector'.step = "high"
        /\ collector'.listed = collector.listed /\ collector'.horizons = collector.horizons
        /\ collector'.from = collector.from /\ collector'.confirmed = collector.confirmed
        /\ collector'.remaining = collector.remaining
    BY <1>1, <1>4 DEF CollectorTypes
  <2>2. CurrentBaseline # NoPoint
    <3>1. 0 \in Block /\ fork[0] # 0
      BY ChainAssumption DEF ChainAssumption, Block, TypeInv, TypeOK, ChainTypeOK
    <3> QED BY <1>4, <3>1 DEF Canonical, NoPoint, NoLocation
  <2>3. collector.confirmed.block >= LowerBound
    <3>1. collector.confirmed.block \in Nat /\ LowerBound \in Nat
      BY <1>1, InHand, HeightsAreNumbers DEF CollectorTypes, Location, Held
    <3> QED BY <1>4, <3>1
  <2>4. LaunchInHand'
    BY <1>1, <2>1, <2>2, <2>3, SameInHand DEF HandInv, LaunchInHand, Held, Mined
  <2>5. HandInv'
    BY <2>1, <2>4
    DEF HandInv, SearchInRange, SeenInOrder, BoundaryFound, PointsChecked, Searched, Found, Reread
  <2> QED BY <2>1, <2>5
<1> QED BY <1>2, <1>3, <1>4 DEF ReadPoints

LEMMA ReadHighPointKeeps ==
    ASSUME TypeInv, HandInv, ReadHighPoint
    PROVE  collector' \in CollectorTypes /\ HandInv'
<1>1. /\ collector \in CollectorTypes /\ collector.step = "high"
      /\ fork' = fork
  BY TypesAre DEF TypeInv, ReadHighPoint, OutcomeStep, OutcomeReads, OutcomeRest
<1>2. PICK highPoint \in Location :
      /\ highPoint = PointAt(collector.confirmed.block)
      /\ highPoint.block = collector.confirmed.block /\ highPoint.fork = fork[highPoint.block]
      /\ highPoint.block \in Nat /\ highPoint.block >= LowerBound
      /\ LowerBound \in Nat /\ LowerBound >= 1
      /\ Mined(highPoint) /\ TimeOf(highPoint) \in Int
      /\ fork[highPoint.block] \in Nat
  <2>1. collector.confirmed.block \in Block
    BY <1>1 DEF CollectorTypes, Location
  <2>2. collector.confirmed.block \in Nat /\ LowerBound \in Nat /\ LowerBound >= 1
        /\ collector.confirmed.block >= LowerBound
    BY <1>1, <2>1, InHand, HeightsAreNumbers DEF Held, HandInv, LaunchInHand
  <2>3. fork[collector.confirmed.block] \in Nat
    BY <2>1, HeightsAreNumbers DEF TypeInv, ForksOrdered
  <2> QED BY <2>1, <2>2, <2>3, PointsAreMined DEF TypeInv, TypeOK
<1>3. CASE NextBatch(collector.remaining)
  BY <1>1, <1>3, NextBatchKeeps DEF CollectorTypes
<1>4. CASE /\ ~ (TimeOf(highPoint) < TargetTime)
           /\ collector' = [collector EXCEPT !.step = "probe", !.top = highPoint,
                               !.answer = highPoint, !.low = LowerBound,
                               !.high = highPoint.block]
  <2>1. /\ collector' \in CollectorTypes /\ collector'.step = "probe"
        /\ collector'.listed = collector.listed /\ collector'.horizons = collector.horizons
        /\ collector'.from = collector.from /\ collector'.remaining = collector.remaining
        /\ collector'.top = highPoint /\ collector'.answer = highPoint
        /\ collector'.low = LowerBound /\ collector'.high = highPoint.block
    BY <1>1, <1>2, <1>4 DEF CollectorTypes
  <2>2. /\ CurrentLaunch' = CurrentLaunch /\ CurrentHorizon' = CurrentHorizon
        /\ CurrentBaseline' = CurrentBaseline /\ LowerBound' = LowerBound
        /\ TargetTime' = TargetTime
    BY <2>1, SameInHand
  <2>3. CurrentHorizon \in Horizon => TimeOf(highPoint) >= TargetTime
    BY <1>1, <1>2, <1>4, InHand DEF Held
  <2>4. Late(highPoint)'
    BY <1>1, <1>2, <2>2, <2>3 DEF Late, Mined, TimeOf
  <2>5. LaunchInHand'
    BY <1>1, <2>1, <2>2 DEF HandInv, LaunchInHand, Held, Searched, Mined
  <2>6. SearchInRange'
    BY <1>2, <2>1, <2>2, <2>4 DEF SearchInRange, Searched, Late, Mined
  <2>7. HandInv'
    BY <2>1, <2>5, <2>6 DEF HandInv, SeenInOrder, BoundaryFound, PointsChecked, Found, Searched, Reread
  <2> QED BY <2>1, <2>7
<1> QED BY <1>2, <1>3, <1>4 DEF ReadHighPoint

LEMMA ProbeKeeps ==
    ASSUME TypeInv, HandInv, Probe
    PROVE  collector' \in CollectorTypes /\ HandInv'
<1>1. /\ collector \in CollectorTypes /\ collector.step = "probe"
      /\ fork' = fork /\ collector.low <= collector.high
  BY TypesAre DEF TypeInv, Probe, OutcomeStep, OutcomeReads, OutcomeRest
<1>2. PICK mid \in Int : /\ mid = collector.low + (collector.high - collector.low) \div 2
                         /\ collector.low <= mid /\ mid <= collector.high
  <2>1. collector.low \in Nat /\ collector.high \in Nat
    BY <1>1 DEF CollectorTypes
  <2> QED BY <1>1, <2>1
<1>3. /\ LowerBound \in Nat /\ LowerBound >= 1
      /\ LowerBound <= collector.low /\ collector.high <= collector.top.block
      /\ Late(collector.top) /\ Late(collector.answer)
  BY <1>1, InHand DEF Held, Searched, HandInv, SearchInRange
<1>4. mid \in Block /\ mid >= LowerBound /\ mid >= 1 /\ mid <= collector.top.block
  <2>1. /\ collector.low \in Nat /\ collector.high \in Nat
        /\ collector.top.block \in 0..MaxBlock /\ MaxBlock \in Nat
    BY <1>1, ChainAssumption DEF ChainAssumption, CollectorTypes, Location, Block
  <2> QED BY <1>2, <1>3, <2>1 DEF Block
<1>5. PICK point \in Location :
          point = IF mid = collector.top.block THEN collector.top ELSE PointAt(mid)
  BY <1>1, <1>4, PointsAreMined DEF CollectorTypes, TypeInv, TypeOK
<1>6. CASE TimeOf(point) < TargetTime
  <2>1. collector' = [collector EXCEPT !.low = mid + 1]
    BY <1>2, <1>5, <1>6 DEF Probe
  <2>2. mid + 1 \in Nat /\ mid + 1 >= LowerBound
    BY <1>3, <1>4, HeightsAreNumbers
  <2>3. /\ collector' \in CollectorTypes /\ collector'.step = "probe"
        /\ collector'.listed = collector.listed /\ collector'.horizons = collector.horizons
        /\ collector'.from = collector.from /\ collector'.remaining = collector.remaining
        /\ collector'.top = collector.top /\ collector'.answer = collector.answer
        /\ collector'.low = mid + 1 /\ collector'.high = collector.high
    BY <1>1, <2>1, <2>2 DEF CollectorTypes
  <2>4. /\ CurrentLaunch' = CurrentLaunch /\ CurrentHorizon' = CurrentHorizon
        /\ CurrentBaseline' = CurrentBaseline /\ LowerBound' = LowerBound
        /\ TargetTime' = TargetTime
    BY <2>3, SameInHand
  <2>5. LaunchInHand' /\ SearchInRange'
    BY <1>1, <1>3, <2>2, <2>3, <2>4
    DEF HandInv, LaunchInHand, SearchInRange, Late, Mined, TimeOf, Held, Searched
  <2> QED BY <2>3, <2>5
      DEF HandInv, SeenInOrder, BoundaryFound, PointsChecked, Found, Searched, Reread
<1>7. CASE ~ (TimeOf(point) < TargetTime)
  <2>1. collector' = [collector EXCEPT !.answer = point, !.high = mid - 1]
    BY <1>2, <1>5, <1>7 DEF Probe
  <2>2. mid - 1 \in Nat /\ mid - 1 <= collector.top.block
    <3>1. collector.top.block \in Nat
      BY <1>1, HeightsAreNumbers DEF CollectorTypes, Location
    <3> QED BY <1>4, <3>1
  <2>3. /\ collector' \in CollectorTypes /\ collector'.step = "probe"
        /\ collector'.listed = collector.listed /\ collector'.horizons = collector.horizons
        /\ collector'.from = collector.from /\ collector'.remaining = collector.remaining
        /\ collector'.top = collector.top /\ collector'.answer = point
        /\ collector'.low = collector.low /\ collector'.high = mid - 1
    BY <1>1, <2>1, <2>2 DEF CollectorTypes
  <2>4. /\ CurrentLaunch' = CurrentLaunch /\ CurrentHorizon' = CurrentHorizon
        /\ CurrentBaseline' = CurrentBaseline /\ LowerBound' = LowerBound
        /\ TargetTime' = TargetTime
    BY <2>3, SameInHand
  <2>5. Late(point)
    <3>1. CASE mid = collector.top.block
      BY <1>3, <1>5, <3>1
    <3>2. CASE mid # collector.top.block
      <4>1. /\ point.block = mid /\ point.fork = fork[mid] /\ Mined(point)
            /\ TimeOf(point) \in Int
        BY <1>4, <1>5, <3>2, PointsAreMined DEF TypeInv, TypeOK
      <4>2. fork[mid] \in Nat
        BY <1>4, HeightsAreNumbers DEF TypeInv, ForksOrdered
      <4>3. CurrentHorizon \in Horizon => TimeOf(point) >= TargetTime
        BY <1>1, <1>7, <4>1, InHand DEF Held, Searched
      <4> QED BY <1>4, <4>1, <4>2, <4>3 DEF Late
    <3> QED BY <3>1, <3>2
  <2>6. LaunchInHand' /\ SearchInRange'
    BY <1>1, <1>3, <2>2, <2>3, <2>4, <2>5
    DEF HandInv, LaunchInHand, SearchInRange, Late, Mined, TimeOf, Held, Searched
  <2> QED BY <2>3, <2>6
      DEF HandInv, SeenInOrder, BoundaryFound, PointsChecked, Found, Searched, Reread
<1> QED BY <1>6, <1>7

\* The steps after the search leave list, horizon, launch and answer as they are.
LEMMA AfterSearch ==
    ASSUME TypeInv, HandInv, OutcomeReads, collector.step \in Searched,
           collector' \in CollectorTypes, collector'.step \in Found,
           collector'.listed = collector.listed, collector'.horizons = collector.horizons,
           collector'.from = collector.from, collector'.remaining = collector.remaining,
           collector'.answer = collector.answer
    PROVE  /\ LaunchInHand' /\ SearchInRange'
           /\ CurrentHorizon' = CurrentHorizon /\ CurrentBaseline' = CurrentBaseline
           /\ LowerBound' = LowerBound /\ TargetTime' = TargetTime
           /\ Canonical(collector.answer)' <=> Canonical(collector.answer)
           /\ collector.step \in Found => BoundaryFound'
<1>1. /\ CurrentLaunch' = CurrentLaunch /\ CurrentHorizon' = CurrentHorizon
      /\ CurrentBaseline' = CurrentBaseline /\ LowerBound' = LowerBound
      /\ TargetTime' = TargetTime
  BY SameInHand
<1>2. fork' = fork
  BY DEF OutcomeReads, OutcomeRest
<1>3. Canonical(collector.answer)' <=> Canonical(collector.answer)
  BY <1>2 DEF Canonical
<1>4. LaunchInHand' /\ SearchInRange'
  BY <1>1, <1>2
  DEF HandInv, LaunchInHand, SearchInRange, Late, Mined, TimeOf, Held, Searched, Found
<1>5. ASSUME collector.step \in Found PROVE BoundaryFound'
  <2>1. \A b \in Block : TimeOf(PointAt(b))' = TimeOf(PointAt(b))
    BY <1>2 DEF TimeOf, PointAt
  <2> QED BY <1>1, <1>3, <1>5, <2>1 DEF HandInv, BoundaryFound
<1> QED BY <1>1, <1>3, <1>4, <1>5

\* What the block below the answer shows, while both are canonical, holds for every
\* block down to the lower bound.
LEMMA ReadPredecessorKeeps ==
    ASSUME TypeInv, HandInv, ReadPredecessor
    PROVE  collector' \in CollectorTypes /\ HandInv'
<1>1. /\ collector \in CollectorTypes /\ collector.step = "probe"
      /\ OutcomeReads /\ fork' = fork
  BY TypesAre DEF TypeInv, ReadPredecessor, OutcomeStep, OutcomeReads, OutcomeRest
<1>2. CASE OutcomeFails
  BY <1>2, EndKeeps DEF OutcomeFails
<1>3. CASE \/ /\ collector.answer.block = LowerBound
              /\ collector' = [collector EXCEPT !.step = "market"]
           \/ /\ collector.answer.block > LowerBound
              /\ ~ (TimeOf(PointAt(collector.answer.block - 1)) >= TargetTime)
              /\ collector' = [collector EXCEPT !.step = "market",
                                  !.predecessor = PointAt(collector.answer.block - 1)]
  <2>1. /\ collector.answer.block \in Block /\ collector.answer.block \in Nat
        /\ LowerBound \in Nat /\ LowerBound >= 1
        /\ CurrentHorizon \in Horizon => TargetTime \in Int
    BY <1>1, InHand, HeightsAreNumbers DEF CollectorTypes, Location, Held, Searched
  <2>2. ASSUME collector.answer.block > LowerBound
        PROVE  collector.answer.block - 1 \in Block
    <3>1. collector.answer.block \in 0..MaxBlock /\ MaxBlock \in Nat
      BY <2>1, ChainAssumption DEF ChainAssumption, Block
    <3> QED BY <2>1, <2>2, <3>1 DEF Block
  <2>3. collector.answer.block > LowerBound => PointAt(collector.answer.block - 1) \in Location
    BY <2>2, PointsAreMined DEF TypeInv, TypeOK
  <2>4. /\ collector' \in CollectorTypes /\ collector'.step = "market"
        /\ collector'.listed = collector.listed /\ collector'.horizons = collector.horizons
        /\ collector'.from = collector.from /\ collector'.remaining = collector.remaining
        /\ collector'.answer = collector.answer
    BY <1>1, <1>3, <2>3 DEF CollectorTypes
  <2>5. /\ LaunchInHand' /\ SearchInRange'
        /\ CurrentHorizon' = CurrentHorizon /\ LowerBound' = LowerBound
        /\ TargetTime' = TargetTime
    BY <1>1, <2>4, AfterSearch DEF Searched, Found
  <2>6. ASSUME CurrentHorizon \in Horizon,
               NEW b \in Block, LowerBound <= b, b < collector.answer.block
        PROVE  TimeOf(PointAt(b)) < TargetTime
    <3>1. b \in Nat /\ collector.answer.block > LowerBound
      BY <2>1, <2>6, HeightsAreNumbers
    <3> DEFINE below == collector.answer.block - 1
    <3>2. below \in Block /\ below \in Nat
      BY <2>2, <3>1, HeightsAreNumbers
    <3>3. TimeOf(PointAt(below)) \in Int /\ TimeOf(PointAt(b)) \in Int
      BY <3>2, PointsAreMined DEF TypeInv, TypeOK
    <3>4. TimeOf(PointAt(below)) < TargetTime
      <4>1. ~ (TimeOf(PointAt(below)) >= TargetTime)
        BY <1>3, <2>1, <3>1
      <4> QED BY <2>1, <2>6, <3>3, <4>1
    <3>5. b = below \/ b < below
      BY <2>1, <2>6, <3>1
    <3>6. b < below => TimeOf(PointAt(b)) < TimeOf(PointAt(below))
      BY <3>2, TimeRises DEF TypeInv, TypeOK
    <3> HIDE DEF below
    <3>7. TargetTime \in Int
      BY <2>1, <2>6
    <3> QED BY <3>3, <3>4, <3>5, <3>6, <3>7
  <2>7. BoundaryFound'
    <3>1. \A b \in Block : TimeOf(PointAt(b))' = TimeOf(PointAt(b))
      BY <1>1 DEF TimeOf, PointAt
    <3> QED BY <2>4, <2>5, <2>6, <3>1 DEF BoundaryFound
  <2>8. HandInv'
    BY <2>4, <2>5, <2>7 DEF HandInv, SeenInOrder, PointsChecked, Reread
  <2> QED BY <2>4, <2>8
<1> QED BY <1>2, <1>3 DEF ReadPredecessor

LEMMA ReadMarketStateKeeps ==
    ASSUME TypeInv, HandInv, ReadMarketState
    PROVE  collector' \in CollectorTypes /\ HandInv'
<1>1. /\ collector \in CollectorTypes /\ collector.step = "market"
      /\ OutcomeReads /\ fork' = fork
      /\ collector' = [collector EXCEPT !.step = "again", !.seen = fork[collector.answer.block]]
  BY TypesAre DEF TypeInv, ReadMarketState, OutcomeStep, OutcomeReads, OutcomeRest
<1>2. fork[collector.answer.block] \in Nat
  BY <1>1, HeightsAreNumbers DEF CollectorTypes, Location, TypeInv, ForksOrdered
<1>3. /\ collector' \in CollectorTypes /\ collector'.step = "again"
      /\ collector'.listed = collector.listed /\ collector'.horizons = collector.horizons
      /\ collector'.from = collector.from /\ collector'.remaining = collector.remaining
      /\ collector'.answer = collector.answer
      /\ collector'.seen = fork[collector.answer.block]
  BY <1>1, <1>2 DEF CollectorTypes
<1>4. LaunchInHand' /\ SearchInRange' /\ BoundaryFound'
  BY <1>1, <1>3, AfterSearch DEF Searched, Found
<1>5. collector.answer.fork <= fork[collector.answer.block]
  BY <1>1 DEF HandInv, SearchInRange, Searched, Late
<1>6. SeenInOrder' /\ PointsChecked'
  BY <1>1, <1>2, <1>3, <1>5 DEF SeenInOrder, PointsChecked
<1> QED BY <1>3, <1>4, <1>6 DEF HandInv

LEMMA RecheckKeeps ==
    ASSUME TypeInv, HandInv, RecheckPoints \/ RecheckPredecessor \/ RecheckObserved
    PROVE  collector' \in CollectorTypes /\ HandInv'
<1> USE DEF Recheck
<1>1. /\ collector \in CollectorTypes /\ collector.step \in Reread
      /\ OutcomeReads /\ fork' = fork
  BY TypesAre
  DEF TypeInv, RecheckPoints, RecheckPredecessor, RecheckObserved, OutcomeStep,
      OutcomeReads, OutcomeRest, Reread
<1>2. CASE OutcomeFails
  BY <1>2, EndKeeps DEF OutcomeFails
<1>3. ASSUME NEW next \in {"predecessorAgain", "observedAgain", "put"},
             collector' = [collector EXCEPT !.step = next],
             next = "put" => Canonical(collector.answer),
             collector.step = "again" => Canonical(collector.from) /\ Canonical(CurrentBaseline)
      PROVE  collector' \in CollectorTypes /\ HandInv'
  <2>1. /\ collector' \in CollectorTypes /\ collector'.step = next
        /\ collector'.listed = collector.listed /\ collector'.horizons = collector.horizons
        /\ collector'.from = collector.from /\ collector'.remaining = collector.remaining
        /\ collector'.answer = collector.answer /\ collector'.seen = collector.seen
    BY <1>1, <1>3 DEF CollectorTypes
  <2>2. /\ LaunchInHand' /\ SearchInRange' /\ BoundaryFound'
        /\ CurrentBaseline' = CurrentBaseline
        /\ Canonical(collector.answer)' <=> Canonical(collector.answer)
    BY <1>1, <2>1, AfterSearch DEF Searched, Found, Reread
  <2>3. /\ collector.answer.fork <= collector.seen
        /\ collector.seen <= fork[collector.answer.block]
        /\ collector.answer.fork \in Nat /\ collector.seen \in Nat
    BY <1>1 DEF HandInv, SeenInOrder, CollectorTypes, Location
  <2>4. SeenInOrder'
    <3>1. CASE next = "put"
      <4>1. fork[collector.answer.block] = collector.answer.fork
        BY <1>3, <3>1 DEF Canonical
      <4> QED BY <2>1, <2>3, <3>1, <4>1 DEF SeenInOrder, Reread
    <3>2. CASE next # "put"
      BY <1>1, <2>1, <2>3, <3>2 DEF SeenInOrder, Reread
    <3> QED BY <3>1, <3>2
  <2>5. Canonical(collector.answer) => Canonical(collector.from) /\ Canonical(CurrentBaseline)
    BY <1>1, <1>3 DEF HandInv, PointsChecked, Reread
  <2>6. PointsChecked'
    BY <1>1, <2>1, <2>2, <2>5 DEF PointsChecked, Canonical
  <2> QED BY <2>1, <2>2, <2>4, <2>6 DEF HandInv
<1>4. CASE RecheckPoints /\ ~ OutcomeFails
  BY <1>3, <1>4 DEF RecheckPoints
<1>5. CASE RecheckPredecessor /\ ~ OutcomeFails
  BY <1>3, <1>5 DEF RecheckPredecessor, OutcomeStep
<1>6. CASE RecheckObserved /\ ~ OutcomeFails
  BY <1>3, <1>6 DEF RecheckObserved, OutcomeStep
<1> QED BY <1>2, <1>4, <1>5, <1>6

------------------------------------------------------------------------------
(* What is stored.                                                         *)

\* The conjuncts of OutcomeOfOneFork for one receipt.
OneFork(o, h) ==
    /\ o.seen = o.at.fork
    /\ o.at.block >= o.baseline.block
    /\ Canonical(o.at) =>
          /\ Canonical(o.from) /\ Canonical(o.baseline)
          /\ \A b \in o.from.block..o.at.block :
                b >= o.baseline.block =>
                    (TimeOf(PointAt(b)) >= TimeOf(o.from) + h <=> b = o.at.block)

LEMMA EachIsOfOneFork ==
    OutcomeOfOneFork <=> \A l \in Launch, h \in Horizon :
                            outcomes[l][h] # NoOutcome => OneFork(outcomes[l][h], h)
  BY DEF OutcomeOfOneFork, OneFork

LEMMA NoOutcomeIsNone == NoBaseline = NoBaseline' /\ NoOutcome' = NoOutcome /\ NoPoint' = NoPoint
  BY DEF NoBaseline, NoOutcome, NoPoint, NoLocation

\* Receipts that stay, on the same chain, are what they were.
LEMMA StoredStays ==
    ASSUME StoredInv, fork' = fork,
           \A l \in Launch, h \in Horizon : outcomes'[l][h] \in {outcomes[l][h], NoOutcome}
    PROVE  OutcomesOld' /\ OutcomeOfOneFork'
<1>1. ASSUME NEW l \in Launch, NEW h \in Horizon, outcomes'[l][h] # NoOutcome
      PROVE  /\ outcomes'[l][h] = outcomes[l][h]
             /\ outcomes[l][h] # NoOutcome
             /\ OneFork(outcomes[l][h], h)'
  <2>1. outcomes'[l][h] = outcomes[l][h] /\ outcomes[l][h] # NoOutcome
    BY <1>1
  <2>2. OneFork(outcomes[l][h], h)
    BY <2>1, EachIsOfOneFork DEF StoredInv
  <2> QED BY <2>1, <2>2 DEF OneFork, Canonical, TimeOf, PointAt
<1>2. OutcomesOld'
  BY <1>1, NoOutcomeIsNone DEF StoredInv, OutcomesOld
<1>3. OutcomeOfOneFork'
  BY <1>1, NoOutcomeIsNone, EachIsOfOneFork DEF OutcomeOfOneFork, OneFork
<1> QED BY <1>2, <1>3

LEMMA PutOutcomeKeeps ==
    ASSUME TypeInv, HandInv, StoredInv, PutOutcome
    PROVE  /\ collector' \in CollectorTypes /\ HandInv'
           /\ outcomes' \in [Launch -> [Horizon -> Outcome]]
           /\ StoredInv'
<1>1. /\ collector \in CollectorTypes /\ collector.step = "put"
      /\ UNCHANGED <<fork, rows, baselines>>
  BY TypesAre DEF TypeInv, PutOutcome, OutcomeStep, OutcomeRest
<1>2. CASE CurrentLaunch \notin Stored
  <2>1. outcomes' = outcomes /\ OutcomeFails
    BY <1>2 DEF PutOutcome
  <2>2. OutcomesOld' /\ OutcomeOfOneFork'
    BY <1>1, <2>1, StoredStays
  <2>3. NothingStranded'
    BY <1>1, <2>1 DEF StoredInv, NothingStranded, Stored
  <2> QED BY <2>1, <2>2, <2>3, EndKeeps DEF OutcomeFails, TypeInv, TypeOK, StoredInv
<1>3. CASE CurrentLaunch \in Stored
  <2>1. PICK o : /\ o = [at |-> collector.answer, from |-> collector.from,
                         baseline |-> CurrentBaseline, seen |-> collector.seen,
                         above |-> AboveCheckpoint(collector.answer.block)]
                 /\ outcomes' = [outcomes EXCEPT ![CurrentLaunch][CurrentHorizon] = o]
                 /\ NextBatch(collector.remaining - 1)
    BY <1>3 DEF PutOutcome
  <2>2. /\ CurrentLaunch \in Launch /\ CurrentBaseline \in Location
        /\ LowerBound \in Nat /\ LowerBound >= collector.from.block
        /\ LowerBound >= CurrentBaseline.block
        /\ CurrentHorizon \in Horizon => TargetTime \in Int
    BY <1>1, InHand DEF Held, Searched
  <2>3. o \in Outcome
    <3>1. AboveCheckpoint(collector.answer.block) \in BOOLEAN
      BY DEF AboveCheckpoint
    <3> QED BY <1>1, <2>1, <2>2, <3>1 DEF CollectorTypes, Outcome
  <2>4. outcomes' \in [Launch -> [Horizon -> Outcome]]
    BY <2>1, <2>3 DEF TypeInv, TypeOK
  <2>5. collector' \in CollectorTypes /\ HandInv'
    <3>1. collector.remaining - 1 \in Nat
      BY <1>1 DEF HandInv, LaunchInHand, Held, Searched, CollectorTypes
    <3> QED BY <2>1, <3>1, NextBatchKeeps
  <2>6. /\ Late(collector.answer)
        /\ collector.seen = collector.answer.fork
        /\ Canonical(collector.answer) =>
              Canonical(collector.from) /\ Canonical(CurrentBaseline)
    BY <1>1 DEF HandInv, SearchInRange, SeenInOrder, PointsChecked, Searched
  <2>7. ASSUME CurrentHorizon \in Horizon, Canonical(collector.answer),
               NEW b \in collector.from.block..collector.answer.block,
               b >= CurrentBaseline.block
        PROVE  TimeOf(PointAt(b)) >= TargetTime <=> b = collector.answer.block
    <3>1. /\ collector.answer.block \in 0..MaxBlock /\ MaxBlock \in Nat
          /\ collector.from.block \in Nat /\ CurrentBaseline.block \in Nat
          /\ collector.answer \in Location
      BY <1>1, <2>2, ChainAssumption, HeightsAreNumbers
      DEF ChainAssumption, CollectorTypes, Location, Block
    <3>2. b \in Block /\ b \in Nat /\ b >= LowerBound /\ b <= collector.answer.block
      BY <2>2, <2>7, <3>1 DEF Block, LowerBound
    <3>3. TimeOf(PointAt(b)) \in Int
      BY <3>2, PointsAreMined DEF TypeInv, TypeOK
    <3>4. CASE b = collector.answer.block
      <4>1. TimeOf(PointAt(b)) = TimeOf(collector.answer)
        BY <2>7, <3>4 DEF PointAt, TimeOf, Canonical
      <4> QED BY <2>6, <2>7, <3>4, <4>1 DEF Late
    <3>5. CASE b # collector.answer.block
      <4>1. b < collector.answer.block
        BY <3>1, <3>2, <3>5
      <4>2. TimeOf(PointAt(b)) < TargetTime
        BY <1>1, <2>7, <3>2, <4>1 DEF HandInv, BoundaryFound, Found, Searched
      <4> QED BY <2>2, <2>7, <3>3, <3>5, <4>2
    <3> QED BY <3>4, <3>5
  <2>8. CurrentHorizon \in Horizon => OneFork(o, CurrentHorizon)
    <3>1. collector.answer.block >= CurrentBaseline.block
      <4>1. collector.answer.block \in Nat /\ CurrentBaseline.block \in Nat
        BY <1>1, <2>2, HeightsAreNumbers DEF CollectorTypes, Location
      <4> QED BY <2>2, <2>6, <4>1 DEF Late
    <3> QED BY <2>1, <2>6, <2>7, <3>1 DEF OneFork, TargetTime
  <2>9. ASSUME NEW l \in Launch, NEW h \in Horizon
        PROVE  outcomes'[l][h] = IF l = CurrentLaunch /\ h = CurrentHorizon
                                 THEN o ELSE outcomes[l][h]
    BY <2>1, <2>2 DEF TypeInv, TypeOK
  <2>10. ASSUME NEW l \in Launch, NEW h \in Horizon, outcomes'[l][h] # NoOutcome
         PROVE  /\ OneFork(outcomes'[l][h], h)
                /\ outcomes'[l][h].at.fork <= fork[outcomes'[l][h].at.block]
                /\ outcomes'[l][h].from.block <= outcomes'[l][h].at.block
    <3>1. CASE l = CurrentLaunch /\ h = CurrentHorizon
      <4>1. collector.answer.block \in Nat /\ collector.from.block \in Nat
        BY <1>1, HeightsAreNumbers DEF CollectorTypes, Location
      <4>2. collector.from.block <= collector.answer.block
        BY <2>2, <2>6, <4>1 DEF Late
      <4> QED BY <2>1, <2>6, <2>8, <2>9, <3>1, <4>2 DEF Late
    <3>2. CASE ~ (l = CurrentLaunch /\ h = CurrentHorizon)
      BY <2>9, <2>10, <3>2, EachIsOfOneFork DEF StoredInv, OutcomesOld
    <3> QED BY <3>1, <3>2
  <2>11. OutcomesOld'
    BY <1>1, <2>10, NoOutcomeIsNone DEF OutcomesOld
  <2>12. OutcomeOfOneFork'
    BY <1>1, <2>10, NoOutcomeIsNone DEF OutcomeOfOneFork, OneFork, Canonical, TimeOf, PointAt
  <2>13. NothingStranded'
    BY <1>1, <1>3, <2>9, NoOutcomeIsNone DEF StoredInv, NothingStranded, Stored
  <2> QED BY <2>4, <2>5, <2>11, <2>12, <2>13 DEF StoredInv
<1> QED BY <1>2, <1>3

------------------------------------------------------------------------------
(* The steps of the workers and of the chain.                              *)

LEMMA OutcomeReadsKeep ==
    ASSUME TypeInv, StoredInv, OutcomeReads
    PROVE  /\ outcomes' \in [Launch -> [Horizon -> Outcome]]
           /\ StoredInv'
<1>1. UNCHANGED <<fork, rows, baselines, outcomes>>
  BY DEF OutcomeReads, OutcomeRest
<1>2. OutcomesOld' /\ OutcomeOfOneFork'
  BY <1>1, StoredStays
<1>3. NothingStranded'
  BY <1>1 DEF StoredInv, NothingStranded, Stored
<1> QED BY <1>1, <1>2, <1>3 DEF StoredInv, TypeInv, TypeOK

LEMMA OutcomeStepsKeep ==
    ASSUME ReceiptInv, OutcomeSteps
    PROVE  /\ collector' \in CollectorTypes /\ HandInv'
           /\ outcomes' \in [Launch -> [Horizon -> Outcome]]
           /\ StoredInv'
           /\ UNCHANGED <<checkpoint, truth, unseenFork, head, fork, place, rows>>
<1> USE DEF ReceiptInv
<1>1. CASE BeginOutcomes \/ ReadConfirmedPoint \/ ListBatches \/ FinishOutcomes \/ FinishHorizon
  <2>1. OutcomeReads
    BY <1>1 DEF BeginOutcomes, ReadConfirmedPoint, ListBatches, FinishOutcomes, FinishHorizon
  <2> QED BY <1>1, <2>1, ListStepsKeep, OutcomeReadsKeep DEF OutcomeReads, OutcomeRest
<1>2. CASE GetLaunch \/ ReadPoints \/ ReadHighPoint \/ Probe \/ ReadPredecessor
  <2>1. OutcomeReads
    BY <1>2 DEF GetLaunch, ReadPoints, ReadHighPoint, Probe, ReadPredecessor
  <2>2. collector' \in CollectorTypes /\ HandInv'
    BY <1>2, GetLaunchKeeps, ReadPointsKeeps, ReadHighPointKeeps, ProbeKeeps, ReadPredecessorKeeps
  <2> QED BY <2>1, <2>2, OutcomeReadsKeep DEF OutcomeReads, OutcomeRest
<1>3. CASE ReadMarketState \/ RecheckPoints \/ RecheckPredecessor \/ RecheckObserved
  <2>1. OutcomeReads
    BY <1>3 DEF ReadMarketState, RecheckPoints, RecheckPredecessor, RecheckObserved, Recheck
  <2>2. collector' \in CollectorTypes /\ HandInv'
    BY <1>3, ReadMarketStateKeeps, RecheckKeeps
  <2> QED BY <2>1, <2>2, OutcomeReadsKeep DEF OutcomeReads, OutcomeRest
<1>4. CASE PutOutcome
  BY <1>4, PutOutcomeKeeps DEF PutOutcome, OutcomeRest
<1> QED BY <1>1, <1>2, <1>3, <1>4 DEF OutcomeSteps

\* A rewind takes the receipts of a row with the row.
LEMMA RewindStrandsNothing ==
    ASSUME TypeOK, StoredInv, NEW b, RewindFrom(b), fork' = fork
    PROVE  StoredInv'
<1>1. \A l \in Launch, h \in Horizon : outcomes'[l][h] \in {outcomes[l][h], NoOutcome}
  BY DEF RewindFrom
<1>2. NothingStranded'
  BY NoOutcomeIsNone DEF RewindFrom, TypeOK, StoredInv, NothingStranded, Stored
<1> QED BY <1>1, <1>2, StoredStays DEF StoredInv

LEMMA TruthStepsKeep ==
    ASSUME ReceiptInv, TruthSteps
    PROVE  /\ HandInv' /\ StoredInv'
           /\ UNCHANGED <<collector, fork, unseenFork>>
<1>1. UNCHANGED <<collector, fork, unseenFork>>
  BY DEF TruthSteps, BeginTruth, HaltAtGuard, TruthTooEarly, Ingest, IngestFails
<1>2. HandInv'
  BY <1>1, HandStays DEF ReceiptInv
<1>3. CASE \E b : RewindFrom(b)
  BY <1>1, <1>2, <1>3, RewindStrandsNothing DEF ReceiptInv, TypeInv
<1>4. CASE UNCHANGED <<baselines, outcomes>> /\ \A l \in Launch : rows[l] # NoPoint => rows'[l] # NoPoint
  <2>1. NothingStranded'
    BY <1>4, NoOutcomeIsNone DEF ReceiptInv, StoredInv, NothingStranded, Stored
  <2> QED BY <1>1, <1>2, <1>4, <2>1, StoredStays DEF ReceiptInv, StoredInv
<1>5. TruthSteps => \/ \E b : RewindFrom(b)
                    \/ /\ UNCHANGED <<baselines, outcomes>>
                       /\ \A l \in Launch : rows[l] # NoPoint => rows'[l] # NoPoint
  <2>1. CASE BeginTruth
    BY <2>1 DEF BeginTruth
  <2>2. CASE HaltAtGuard \/ TruthTooEarly
    BY <2>2 DEF HaltAtGuard, TruthTooEarly
  <2>3. CASE Ingest
    <3>1. \A l \in Launch : rows'[l] = rows[l] \/ rows[l] \in {NoPoint, rows'[l]}
      BY <2>3 DEF Ingest, ReceiptInv, TypeInv, TypeOK
    <3> QED BY <2>3, <3>1 DEF Ingest
  <2>4. CASE IngestFails
    BY <2>4 DEF IngestFails
  <2> QED BY <2>1, <2>2, <2>3, <2>4 DEF TruthSteps
<1> QED BY <1>1, <1>2, <1>3, <1>4, <1>5

LEMMA BaselineStepsKeep ==
    ASSUME ReceiptInv, BaselineSteps
    PROVE  /\ HandInv' /\ StoredInv'
           /\ UNCHANGED <<head, fork, place, rows, outcomes, checkpoint, truth, collector,
                          unseenFork>>
<1>1. BaselineRest
  BY DEF BaselineSteps, BeginBaselines, FinishBaselines, ReadDecisionHash, ReadMarket,
         CheckDecisionPoint, PutBaseline
<1>2. UNCHANGED <<head, fork, place, rows, outcomes, checkpoint, truth, collector, unseenFork>>
  BY <1>1 DEF BaselineRest
<1>3. HandInv'
  BY <1>2, HandStays DEF ReceiptInv
<1>4. OutcomesOld' /\ OutcomeOfOneFork'
  BY <1>2, StoredStays DEF ReceiptInv
<1>5. \A l \in Launch : baselines'[l] # baselines[l] => l \in Stored
  <2>1. CASE UNCHANGED baselines
    BY <2>1
  <2>2. CASE PutBaseline
    BY <2>2 DEF PutBaseline, ReceiptInv, TypeInv, TypeOK
  <2> QED BY <2>1, <2>2
      DEF BaselineSteps, BeginBaselines, FinishBaselines, ReadDecisionHash, ReadMarket,
          CheckDecisionPoint
<1>6. NothingStranded'
  <2>1. Stored' = Stored /\ outcomes' = outcomes
    BY <1>2 DEF Stored, NoPoint, NoLocation
  <2>2. ASSUME NEW l \in Launch, baselines'[l] # NoBaseline PROVE l \in Stored
    BY <1>5, <2>2 DEF ReceiptInv, StoredInv, NothingStranded
  <2>3. ASSUME NEW l \in Launch, NEW h \in Horizon, outcomes[l][h] # NoOutcome
        PROVE  l \in Stored
    BY <2>3 DEF ReceiptInv, StoredInv, NothingStranded
  <2> QED BY <2>1, <2>2, <2>3, NoOutcomeIsNone DEF NothingStranded
<1> QED BY <1>2, <1>3, <1>4, <1>6 DEF StoredInv

LEMMA AbortStepKeeps ==
    ASSUME ReceiptInv, Abort
    PROVE  /\ HandInv' /\ StoredInv' /\ RowsMined'
           /\ outcomes' \in [Launch -> [Horizon -> Outcome]]
           /\ truth' \in [step : {"idle", "ingest"}, from : Nat, target : Block]
           /\ collector' \in CollectorTypes
           /\ UNCHANGED <<head, fork, place, rows, baselines, checkpoint, unseenFork>>
<1>1. /\ UNCHANGED <<head, fork, place, rows, baselines, outcomes, checkpoint, unseenFork>>
      /\ truth' \in {truth, Idle("truth")}
      /\ collector' = collector \/ EndOutcomes
  BY DEF Abort, BaselineRest, OutcomeReads, OutcomeRest, OutcomeFails
<1>2. collector' \in CollectorTypes /\ HandInv'
  <2>1. CASE collector' = collector
    BY <1>1, <2>1, HandStays, TypesAre DEF ReceiptInv, TypeInv
  <2>2. CASE EndOutcomes
    BY <2>2, EndKeeps
  <2> QED BY <1>1, <2>1, <2>2
<1>3. RowsMined'
  BY <1>1, IdleWorkers DEF ReceiptInv, TypeInv, RowsMined, Mined
<1>4. truth' \in [step : {"idle", "ingest"}, from : Nat, target : Block]
  BY <1>1, IdleWorkers, ChainAssumption DEF ChainAssumption, Block, ReceiptInv, TypeInv, TypeOK
<1>5. StoredInv'
  <2>1. NothingStranded'
    BY <1>1, NoOutcomeIsNone DEF ReceiptInv, StoredInv, NothingStranded, Stored
  <2> QED BY <1>1, <2>1, StoredStays DEF ReceiptInv, StoredInv
<1> QED BY <1>1, <1>2, <1>3, <1>4, <1>5 DEF ReceiptInv, TypeInv, TypeOK

\* What a reorganisation spares of a receipt, stored or in hand, is all of it.
LEMMA ReorgKeeps ==
    ASSUME ReceiptInv, ChainReorganises
    PROVE  HandInv' /\ StoredInv' /\ ForksOrdered'
<1>1. PICK p \in Block : Reorg(p)
  BY DEF ChainReorganises
<1>2. /\ ChainTypeOK /\ ForksOrdered
      /\ UNCHANGED <<rows, baselines, outcomes, collector>>
  BY DEF ChainReorganises, ReceiptInv, TypeInv, TypeOK
<1>3. ForksOrdered' /\ \A b \in Block : fork[b] <= fork'[b]
  BY <1>1, <1>2, ReorgOrders
<1>4. \A b \in Block : fork[b] \in Nat /\ fork'[b] \in Nat
  BY <1>2, <1>3, HeightsAreNumbers DEF ForksOrdered
<1>5. HandInv'
  <2>1. /\ CurrentLaunch' = CurrentLaunch /\ CurrentHorizon' = CurrentHorizon
        /\ CurrentBaseline' = CurrentBaseline /\ LowerBound' = LowerBound
        /\ TargetTime' = TargetTime
    BY <1>2, SameInHand
  <2>2. collector \in CollectorTypes
    BY TypesAre DEF ReceiptInv, TypeInv
  <2>3. ASSUME NEW point \in Location, Late(point) PROVE Late(point)'
    <3>1. point.block \in Block /\ point.fork \in Nat
      BY DEF Location
    <3>2. point.fork <= fork'[point.block]
      BY <1>3, <1>4, <2>3, <3>1 DEF Late
    <3> QED BY <2>1, <2>3, <3>2 DEF Late, Mined, TimeOf
  <2>4. LaunchInHand' /\ SearchInRange'
    BY <1>2, <2>1, <2>2, <2>3
    DEF ReceiptInv, HandInv, LaunchInHand, SearchInRange, Mined, CollectorTypes
  <2>5. SeenInOrder'
    <3>1. collector.answer.block \in Block /\ collector.seen \in Nat
      BY <2>2 DEF CollectorTypes, Location
    <3>2. /\ fork[collector.answer.block] \in Nat
          /\ fork'[collector.answer.block] \in Nat
          /\ fork[collector.answer.block] <= fork'[collector.answer.block]
      BY <1>3, <1>4, <3>1
    <3> QED BY <1>2, <3>1, <3>2 DEF ReceiptInv, HandInv, SeenInOrder
  <2>6. ASSUME collector.step \in Found, Canonical(collector.answer)'
        PROVE  /\ Canonical(collector.answer)
               /\ \A b \in Block : b <= collector.answer.block => fork'[b] = fork[b]
               /\ collector.answer.block \in Nat
               /\ LowerBound \in Nat /\ LowerBound <= collector.answer.block
               /\ collector.from.block <= collector.answer.block
               /\ CurrentBaseline.block <= collector.answer.block
               /\ collector.from.block \in Block /\ CurrentBaseline.block \in Block
    <3>1. collector.answer.fork <= fork[collector.answer.block] /\ LowerBound <= collector.answer.block
      BY <2>6 DEF ReceiptInv, HandInv, SearchInRange, Late, Found
    <3>2. /\ LowerBound \in Nat /\ LowerBound >= collector.from.block
          /\ LowerBound >= CurrentBaseline.block /\ CurrentBaseline \in Location
      BY <2>6, InHand DEF ReceiptInv, Held, Found
    <3>3. /\ collector.answer \in Location /\ collector.from.block \in Block
          /\ CurrentBaseline.block \in Block
      BY <2>2, <3>2 DEF CollectorTypes, Location
    <3>4. /\ collector.answer.block \in Nat /\ collector.from.block \in Nat
          /\ CurrentBaseline.block \in Nat
      BY <3>3, HeightsAreNumbers DEF Location
    <3>5. /\ Canonical(collector.answer)
          /\ \A b \in Block : b <= collector.answer.block => fork'[b] = fork[b]
      <4> DEFINE answer == collector.answer
      <4>1. PICK point \in Location : point = collector.answer
        BY <3>3
      <4>2. point.fork <= fork[point.block] /\ Canonical(point)'
        BY <1>2, <2>6, <3>1, <4>1 DEF Canonical
      <4> QED BY <1>1, <1>2, <4>1, <4>2, ReorgSpares
    <3> QED BY <3>1, <3>2, <3>3, <3>4, <3>5
  <2>7. BoundaryFound'
    <3> SUFFICES ASSUME collector.step \in Found, CurrentHorizon \in Horizon,
                        Canonical(collector.answer)',
                        NEW b \in Block, LowerBound <= b, b < collector.answer.block
                 PROVE  TimeOf(PointAt(b))' < TargetTime
      BY <1>2, <2>1 DEF BoundaryFound
    <3>1. fork'[b] = fork[b]
      <4>1. b \in Nat /\ collector.answer.block \in Nat
        BY <2>6, HeightsAreNumbers
      <4>2. b <= collector.answer.block
        BY <4>1
      <4> QED BY <2>6, <4>2
    <3>2. TimeOf(PointAt(b))' = TimeOf(PointAt(b))
      BY <3>1 DEF TimeOf, PointAt
    <3> QED BY <2>6, <3>2 DEF ReceiptInv, HandInv, BoundaryFound
  <2>8. PointsChecked'
    BY <1>2, <2>1, <2>6 DEF ReceiptInv, HandInv, PointsChecked, Canonical, Found, Searched
  <2> QED BY <2>4, <2>5, <2>7, <2>8 DEF HandInv
<1>6. ASSUME NEW l \in Launch, NEW h \in Horizon, outcomes[l][h] # NoOutcome
      PROVE  /\ OneFork(outcomes[l][h], h)'
             /\ outcomes[l][h].at.fork <= fork'[outcomes[l][h].at.block]
             /\ outcomes[l][h].from.block <= outcomes[l][h].at.block
  <2>1. PICK o \in Outcome : o = outcomes[l][h]
    BY DEF ReceiptInv, TypeInv, TypeOK
  <2>2. /\ o.at \in Location /\ o.from \in Location /\ o.baseline \in Location
        /\ o.at.block \in Block /\ o.at.fork \in Nat
        /\ o.from.block \in Block /\ o.baseline.block \in Block
    BY DEF Outcome, Location
  <2>3. OneFork(o, h) /\ o.at.fork <= fork[o.at.block]
    BY <1>6, <2>1, EachIsOfOneFork DEF ReceiptInv, StoredInv, OutcomesOld
  <2>4. o.at.fork <= fork'[o.at.block]
    BY <1>3, <1>4, <2>2, <2>3
  <2>5. ASSUME Canonical(o.at)'
        PROVE  /\ Canonical(o.from)' /\ Canonical(o.baseline)'
               /\ \A b \in o.from.block..o.at.block :
                     b >= o.baseline.block =>
                         ((TimeOf(PointAt(b)) >= TimeOf(o.from) + h)' <=> b = o.at.block)
    <3>1. /\ Canonical(o.at)
          /\ \A b \in Block : b <= o.at.block => fork'[b] = fork[b]
      BY <1>1, <1>2, <2>2, <2>3, <2>5, ReorgSpares
    <3>2. /\ o.at.block \in 0..MaxBlock /\ MaxBlock \in Nat /\ o.baseline.block <= o.at.block
          /\ o.from.block \in Nat
      BY <2>2, <2>3, ChainAssumption, HeightsAreNumbers DEF ChainAssumption, Block, OneFork
    <3>3. ASSUME NEW b \in o.from.block..o.at.block PROVE TimeOf(PointAt(b))' = TimeOf(PointAt(b))
      <4>1. b \in Block /\ b <= o.at.block
        BY <3>2 DEF Block
      <4> QED BY <3>1, <4>1 DEF TimeOf, PointAt
    <3>4. TimeOf(o.from)' = TimeOf(o.from)
      BY DEF TimeOf
    <3>5. Canonical(o.baseline)'
      BY <2>2, <2>3, <3>1, <3>2 DEF OneFork, Canonical
    <3>6. Canonical(o.from)'
      <4>1. o.from.block <= o.at.block
        BY <1>6, <2>1 DEF ReceiptInv, StoredInv, OutcomesOld
      <4> QED BY <2>2, <2>3, <3>1, <4>1 DEF OneFork, Canonical
    <3> QED BY <2>3, <3>1, <3>3, <3>4, <3>5, <3>6 DEF OneFork
  <2>6. o.from.block <= o.at.block
    BY <1>6, <2>1 DEF ReceiptInv, StoredInv, OutcomesOld
  <2> QED BY <1>2, <2>1, <2>3, <2>4, <2>5, <2>6 DEF OneFork
<1>7. StoredInv'
  <2>1. OutcomesOld' /\ OutcomeOfOneFork'
    BY <1>2, <1>6, NoOutcomeIsNone DEF OutcomesOld, OutcomeOfOneFork, OneFork
  <2>2. NothingStranded'
    BY <1>2 DEF ReceiptInv, StoredInv, NothingStranded, Stored
  <2> QED BY <2>1, <2>2 DEF StoredInv
<1> QED BY <1>3, <1>5, <1>7

LEMMA ReceiptInit == Init => ReceiptInv
<1> SUFFICES ASSUME Init PROVE ReceiptInv
  OBVIOUS
<1>1. BaselineTypes
  BY InitBaseline DEF BaselineInv
<1>2. /\ outcomes \in [Launch -> [Horizon -> Outcome]]
      /\ checkpoint \in [at : Location, guard : Location]
      /\ turn \in Worker \cup {"any"} /\ unseenFork \in BOOLEAN
  BY IdleWorkers DEF Init, Worker
<1>3. /\ truth = [step |-> "idle", from |-> 0, target |-> 0]
      /\ collector \in CollectorTypes /\ collector.step = "idle"
  BY IdleWorkers DEF Init
<1>4. truth \in [step : {"idle", "ingest"}, from : Nat, target : Block]
  BY <1>3, ChainAssumption DEF ChainAssumption, Block
<1>5. ForksOrdered
  BY ChainAssumption DEF ChainAssumption, Init, ChainInit, ForksOrdered, Fork
<1>6. RowsMined
  BY <1>3 DEF Init, Nothing, RowsMined
<1>7. HandInv
  BY <1>3 DEF HandInv, LaunchInHand, SearchInRange, SeenInOrder, BoundaryFound, PointsChecked,
              Held, Searched, Found, Reread
<1>8. StoredInv
  BY DEF Init, StoredInv, OutcomesOld, OutcomeOfOneFork, NothingStranded
<1> QED BY <1>1, <1>2, <1>3, <1>4, <1>5, <1>6, <1>7, <1>8, TypesAre DEF ReceiptInv, TypeInv

LEMMA ReceiptStepKeeps ==
    ASSUME BaselineInv, ReceiptInv, [Next]_vars
    PROVE  ReceiptInv'
<1>1. BaselineTypes' /\ turn' \in Worker \cup {"any"}
  BY BaselineStepKeeps, TurnsAreTypes DEF BaselineInv, ReceiptInv, TypeInv, TypeOK
<1>2. /\ outcomes' \in [Launch -> [Horizon -> Outcome]]
      /\ checkpoint' \in [at : Location, guard : Location]
      /\ truth' \in [step : {"idle", "ingest"}, from : Nat, target : Block]
      /\ collector' \in CollectorTypes
      /\ unseenFork' \in BOOLEAN
      /\ ForksOrdered' /\ RowsMined' /\ HandInv' /\ StoredInv'
  <2>0. /\ outcomes \in [Launch -> [Horizon -> Outcome]]
        /\ checkpoint \in [at : Location, guard : Location]
        /\ truth \in [step : {"idle", "ingest"}, from : Nat, target : Block]
        /\ collector \in CollectorTypes
        /\ unseenFork \in BOOLEAN
        /\ ForksOrdered /\ RowsMined /\ HandInv /\ StoredInv
    BY TypesAre DEF ReceiptInv, TypeInv
  <2>1. CASE TruthSteps
    BY <2>0, <2>1, TruthTypes, TruthStepsKeep DEF ReceiptInv, ForksOrdered
  <2>2. CASE BaselineSteps
    <3>1. UNCHANGED <<fork, rows, outcomes, checkpoint, truth, collector, unseenFork>>
          /\ HandInv' /\ StoredInv'
      BY <2>2, BaselineStepsKeep
    <3> QED BY <2>0, <3>1 DEF ForksOrdered, RowsMined, Mined
  <2>3. CASE OutcomeSteps
    <3>1. /\ collector' \in CollectorTypes /\ HandInv'
          /\ outcomes' \in [Launch -> [Horizon -> Outcome]]
          /\ StoredInv'
          /\ UNCHANGED <<checkpoint, truth, unseenFork, fork, rows>>
      BY <2>3, OutcomeStepsKeep
    <3> QED BY <2>0, <3>1 DEF ForksOrdered, RowsMined, Mined
  <2>4. CASE Abort
    <3>1. /\ HandInv' /\ StoredInv' /\ RowsMined'
          /\ outcomes' \in [Launch -> [Horizon -> Outcome]]
          /\ truth' \in [step : {"idle", "ingest"}, from : Nat, target : Block]
          /\ collector' \in CollectorTypes
          /\ UNCHANGED <<fork, checkpoint, unseenFork>>
      BY <2>4, AbortStepKeeps
    <3> QED BY <2>0, <3>1 DEF ForksOrdered
  <2>5. CASE ChainReorganises
    <3>1. HandInv' /\ StoredInv' /\ ForksOrdered'
      BY <2>5, ReorgKeeps
    <3>2. UNCHANGED <<rows, outcomes, checkpoint, truth, collector>> /\ unseenFork' \in BOOLEAN
      BY <2>0, <2>5 DEF ChainReorganises, EscapesComparison
    <3> QED BY <2>0, <3>1, <3>2 DEF RowsMined, Mined
  <2>6. CASE ChainGrows \/ UNCHANGED vars
    <3>1. UNCHANGED <<fork, rows, baselines, outcomes, checkpoint, truth, collector, unseenFork>>
      BY <2>6 DEF ChainGrows, Mine, vars
    <3>2. HandInv'
      BY <2>0, <3>1, HandStays
    <3>3. StoredInv'
      <4>1. OutcomesOld' /\ OutcomeOfOneFork'
        BY <2>0, <3>1, StoredStays
      <4>2. NothingStranded'
        BY <2>0, <3>1 DEF StoredInv, NothingStranded, Stored
      <4> QED BY <4>1, <4>2 DEF StoredInv
    <3> QED BY <2>0, <3>1, <3>2, <3>3 DEF ForksOrdered, RowsMined, Mined
  <2> QED BY <2>1, <2>2, <2>3, <2>4, <2>5, <2>6 DEF Next
<1>3. TypeOK'
  BY <1>1, <1>2 DEF TypeOK, BaselineTypes, BaselinerTypes, CollectorTypes
<1> QED BY <1>2, <1>3 DEF ReceiptInv, TypeInv

LEMMA ReceiptAlways == Spec => []ReceiptInv
  BY ReceiptInit, ReceiptStepKeeps, BaselineAlways, PTL DEF Spec

------------------------------------------------------------------------------
(* Every state of the three syncs is well typed, in every deployment: in      *)
(* particular the binary search of the boundary never leaves the chain, and   *)
(* its upper end never falls below zero.                                      *)
THEOREM TypeCorrect == Spec => []TypeOK
<1>1. ReceiptInv => TypeOK
  BY DEF ReceiptInv, TypeInv
<1> QED BY <1>1, ReceiptAlways, PTL

(* A stored outcome is evidence of one fork: its market reads saw the fork it *)
(* names, and while its block is canonical so are launch and decision point,  *)
(* and the block is the first one past the horizon, although the chain may    *)
(* fork between any two probes of the search (buildForwardOutcome).           *)
THEOREM OutcomesAreOfOneFork == Spec => []OutcomeOfOneFork
<1>1. ReceiptInv => OutcomeOfOneFork
  BY DEF ReceiptInv, StoredInv
<1> QED BY <1>1, ReceiptAlways, PTL

(* No baseline and no outcome outlives its launch, also when one program      *)
(* rewinds the ledger between another's last read and its insert.             *)
THEOREM NoneIsStranded == Spec => []NothingStranded
<1>1. ReceiptInv => NothingStranded
  BY DEF ReceiptInv, StoredInv
<1> QED BY <1>1, ReceiptAlways, PTL

------------------------------------------------------------------------------
(* Theorems about the deployment of one process, for every chain, delay, list *)
(* of horizons and number of launches: the ledger is one chain of evidence,   *)
(* and under a canonical checkpoint only what was stored ahead of it can be   *)
(* orphaned.                                                                  *)

USE DEF chainVars, ledgerVars, workerVars

------------------------------------------------------------------------------
(* Whose turn it is.                                                       *)

InTurn ==
    /\ turn # "truth" => truth.step = "idle"
    /\ turn # "baseline" => baseliner = Idle("baseline")
    /\ turn # "outcomes" => collector = Idle("outcomes")

\* What the lists and locals in hand were copied from has not changed.
BaselinesFresh ==
    /\ \A l \in Launch :
          baseliner.listed[l] # NoPoint => /\ baseliner.listed[l] = rows[l]
                                           /\ baselines[l] = NoBaseline
    /\ baseliner.step \in {"market", "stable", "put"} => baseliner.at.block >= 1

OutcomesFresh ==
    /\ \A l \in Launch :
          collector.listed[l] # NoPoint => collector.listed[l] = baselines[l].at
    /\ collector.step \in Held => collector.from = rows[CurrentLaunch]

Linked ==
    \A l \in Launch :
        /\ baselines[l] # NoBaseline => baselines[l].from = rows[l]
        /\ \A h \in Horizon : outcomes[l][h] # NoOutcome =>
              /\ outcomes[l][h].from = rows[l]
              /\ outcomes[l][h].baseline = baselines[l].at
              /\ outcomes[l][h].baseline # NoPoint

LinkInv == turn # "any" => InTurn /\ BaselinesFresh /\ OutcomesFresh /\ Linked

\* The idle workers have nothing in hand.
LEMMA IdleHands ==
    /\ Idle("truth").step = "idle"
    /\ Idle("baseline").step = "idle" /\ Idle("baseline").listed = Nothing
    /\ Idle("outcomes").step = "idle" /\ Idle("outcomes").listed = Nothing
    /\ \A l \in Launch : Nothing[l] = NoPoint
  BY IdleWorkers, IdleBaseliner DEF Nothing

LEMMA IdleIsFresh ==
    /\ baseliner' = Idle("baseline") => BaselinesFresh'
    /\ collector' = Idle("outcomes") => OutcomesFresh'
  BY IdleHands, NoOutcomeIsNone DEF BaselinesFresh, OutcomesFresh, Held, Searched

LEMMA IdleIsIdle == \A worker \in Worker : Idle(worker)' = Idle(worker)
  BY DEF Idle, Worker, Nothing, NoPoint, NoLocation

\* Rows, batches and receipts that all stay, or go together, stay linked.
LEMMA RewindLinks ==
    ASSUME TypeOK, StoredInv, Linked, NEW b \in Nat, RewindFrom(b)
    PROVE  Linked'
<1> SUFFICES ASSUME NEW l \in Launch
             PROVE  /\ baselines'[l] # NoBaseline => baselines'[l].from = rows'[l]
                    /\ \A h \in Horizon : outcomes'[l][h] # NoOutcome =>
                          /\ outcomes'[l][h].from = rows'[l]
                          /\ outcomes'[l][h].baseline = baselines'[l].at
                          /\ outcomes'[l][h].baseline # NoPoint
  BY NoOutcomeIsNone DEF Linked
<1>1. baselines'[l] # NoBaseline => baselines'[l].from = rows'[l]
  BY DEF RewindFrom, Linked
<1>2. ASSUME NEW h \in Horizon, outcomes'[l][h] # NoOutcome
      PROVE  /\ outcomes'[l][h] = outcomes[l][h] /\ outcomes[l][h] # NoOutcome
             /\ ~ (rows[l].block >= b) /\ ~ (outcomes[l][h].at.block >= b)
  BY <1>2 DEF RewindFrom
<1>3. ASSUME NEW h \in Horizon, outcomes'[l][h] # NoOutcome
      PROVE  rows'[l] = rows[l] /\ baselines'[l] = baselines[l]
  <2>1. PICK o \in Outcome : o = outcomes[l][h]
    BY DEF TypeOK
  <2>2. o.at.block >= o.baseline.block /\ o.baseline = baselines[l].at
    BY <1>2, <1>3, <2>1 DEF StoredInv, OutcomeOfOneFork, Linked
  <2>3. o.at.block \in Nat /\ o.baseline.block \in Nat
    BY HeightsAreNumbers DEF Outcome, Location
  <2>4. ~ (baselines[l].at.block >= b)
    BY <1>2, <1>3, <2>1, <2>2, <2>3
  <2> QED BY <1>2, <1>3, <2>4 DEF RewindFrom
<1>4. ASSUME NEW h \in Horizon, outcomes'[l][h] # NoOutcome
      PROVE  /\ outcomes'[l][h].from = rows'[l]
             /\ outcomes'[l][h].baseline = baselines'[l].at
             /\ outcomes'[l][h].baseline # NoPoint
  BY <1>2, <1>3, <1>4 DEF Linked
<1> QED BY <1>1, <1>4

LEMMA TruthLinks ==
    ASSUME ReceiptInv, LinkInv, turn # "any", TruthSteps
    PROVE  LinkInv'
<1>1. /\ turn = "truth" /\ InTurn /\ Linked
      /\ UNCHANGED <<baseliner, collector>>
      /\ turn' \in {"truth", "baseline"}
      /\ turn' = "baseline" => truth'.step = "idle"
  BY IdleHands
  DEF LinkInv, TruthSteps, BeginTruth, HaltAtGuard, TruthTooEarly, Ingest, IngestFails,
      MayRun, Throws, Returns, After
<1>2. baseliner' = Idle("baseline") /\ collector' = Idle("outcomes")
  BY <1>1 DEF InTurn
<1>3. InTurn' /\ BaselinesFresh' /\ OutcomesFresh'
  BY <1>1, <1>2, IdleIsFresh, IdleIsIdle DEF InTurn, Worker
<1>4. Linked'
  <2>1. CASE BeginTruth \/ IngestFails
    <3>1. ASSUME NEW b \in Nat, RewindFrom(b) PROVE Linked'
      BY <1>1, <3>1, RewindLinks DEF ReceiptInv, TypeInv
    <3>2. truth.from \in Nat /\ checkpoint.guard.block + 1 \in Nat
      <4>1. checkpoint.guard.block \in Nat
        BY HeightsAreNumbers DEF ReceiptInv, TypeInv, TypeOK, Location
      <4> QED BY <4>1 DEF ReceiptInv, TypeInv, TypeOK
    <3>3. CASE UNCHANGED ledgerVars
      BY <1>1, <3>3 DEF Linked, NoBaseline, NoOutcome, NoPoint, NoLocation
    <3> QED BY <2>1, <3>1, <3>2, <3>3 DEF BeginTruth, IngestFails
  <2>2. CASE HaltAtGuard \/ TruthTooEarly
    BY <1>1, <2>2 DEF HaltAtGuard, TruthTooEarly, Linked, NoBaseline, NoOutcome, NoPoint, NoLocation
  <2>3. CASE Ingest
    <3>1. UNCHANGED <<baselines, outcomes>>
      BY <2>3 DEF Ingest
    <3>2. ASSUME NEW l \in Stored PROVE rows'[l] = rows[l]
      BY <2>3 DEF Ingest, Stored, ReceiptInv, TypeInv, TypeOK
    <3>3. ASSUME NEW l \in Launch, l \notin Stored
          PROVE  baselines[l] = NoBaseline /\ \A h \in Horizon : outcomes[l][h] = NoOutcome
      BY <3>3 DEF ReceiptInv, StoredInv, NothingStranded
    <3> QED BY <1>1, <3>1, <3>2, <3>3, NoOutcomeIsNone DEF Linked
  <2> QED BY <2>1, <2>2, <2>3 DEF TruthSteps
<1> QED BY <1>3, <1>4 DEF LinkInv

\* A baseline step that only moves its own locals.
LEMMA LinkedStays ==
    ASSUME Linked, UNCHANGED <<rows, baselines, outcomes>>
    PROVE  Linked'
  BY NoOutcomeIsNone DEF Linked

LEMMA BaselineEndLinks ==
    ASSUME LinkInv, turn = "baseline", EndBaselines, UNCHANGED baselines, BaselineRest,
           turn' \in Worker
    PROVE  LinkInv'
<1>1. /\ UNCHANGED <<rows, baselines, outcomes, truth, collector>>
      /\ baseliner' = Idle("baseline") /\ collector' = Idle("outcomes")
      /\ truth'.step = "idle"
  BY DEF EndBaselines, BaselineRest, LinkInv, InTurn
<1>2. Linked'
  BY <1>1, LinkedStays DEF LinkInv
<1>3. InTurn'
  BY <1>1, IdleIsIdle DEF InTurn, Worker
<1> QED BY <1>1, <1>2, <1>3, IdleIsFresh DEF LinkInv

LEMMA BaselineLinks ==
    ASSUME ReceiptInv, LinkInv, turn # "any", BaselineSteps
    PROVE  LinkInv'
<1>1. /\ turn = "baseline" /\ BaselineRest /\ InTurn /\ BaselinesFresh /\ Linked
      /\ collector = Idle("outcomes") /\ truth.step = "idle"
  BY DEF LinkInv, InTurn, BaselineSteps, BeginBaselines, FinishBaselines, ReadDecisionHash,
         ReadMarket, CheckDecisionPoint, PutBaseline, BaselineStep, MayRun
<1>2. CASE EndBaselines /\ UNCHANGED baselines /\ turn' \in Worker
  BY <1>1, <1>2, BaselineEndLinks
<1>3. ASSUME UNCHANGED <<turn, baselines>>, BaselinesFresh' PROVE LinkInv'
  <2>1. /\ UNCHANGED <<rows, baselines, outcomes, truth, collector, turn>>
        /\ collector' = Idle("outcomes")
    BY <1>1, <1>3 DEF BaselineRest
  <2>2. InTurn' /\ OutcomesFresh' /\ Linked'
    BY <1>1, <2>1, IdleIsFresh, IdleIsIdle, LinkedStays DEF InTurn, Worker
  <2> QED BY <1>3, <2>2 DEF LinkInv
<1>4. Throws => turn' \in Worker
  BY <1>1 DEF Throws, Worker
<1>5. Returns("baseline") => turn' \in Worker
  BY <1>1 DEF Returns, After, Worker
<1>6. baseliner \in BaselinerTypes /\ rows' = rows
  BY <1>1, TypesAre DEF ReceiptInv, TypeInv, BaselineTypes, BaselineRest
<1>7. CASE BeginBaselines
  <2>1. CASE head - Delay - Confirmations["baseline"] < 0
    BY <1>2, <1>5, <1>7, <2>1 DEF BeginBaselines
  <2>2. CASE ~ (head - Delay - Confirmations["baseline"] < 0)
    <3>1. PICK pending : 
            /\ pending = {l \in Stored :
                  /\ baselines[l] = NoBaseline
                  /\ rows[l].block <= head - Delay - Confirmations["baseline"]}
            /\ baseliner' = [Idle("baseline") EXCEPT
                 !.step = "next", !.listed = FirstOf(rows, pending, MaxPerSync)]
            /\ UNCHANGED <<turn, baselines>>
      BY <1>7, <2>2 DEF BeginBaselines
    <3>2. /\ baseliner'.step = "next"
          /\ baseliner'.listed = FirstOf(rows, pending, MaxPerSync)
      BY <3>1, IdleBaseliner
    <3>3. \A l \in Launch : baseliner'.listed[l] # NoPoint =>
              l \in pending /\ baseliner'.listed[l] = rows[l]
      BY <3>2 DEF FirstOf
    <3>4. BaselinesFresh'
      BY <1>6, <3>1, <3>2, <3>3, NoOutcomeIsNone DEF BaselinesFresh
    <3> QED BY <1>3, <3>1, <3>4
  <2> QED BY <2>1, <2>2
<1>8. CASE FinishBaselines
  BY <1>2, <1>5, <1>8 DEF FinishBaselines
<1>9. CASE ReadDecisionHash
  <2>1. PICK l \in Launch :
            /\ Earliest(baseliner.listed, l)
            /\ baseliner' = [baseliner EXCEPT !.step = "market",
                                !.at = PointAt(baseliner.listed[l].block + Delay)]
            /\ UNCHANGED <<turn, baselines>>
    BY <1>9 DEF ReadDecisionHash
  <2>2. baseliner.listed[l].block + Delay >= 1
    <3>1. rows[l] # NoPoint /\ baseliner.listed[l] = rows[l]
      BY <1>1, <2>1 DEF Earliest, BaselinesFresh
    <3>2. rows[l].block >= 1 /\ rows[l].block \in Nat
      BY <3>1, HeightsAreNumbers
      DEF ReceiptInv, TypeInv, TypeOK, RowsMined, Mined, Location
    <3> QED BY <3>1, <3>2, ResearchAssumption DEF ResearchAssumption
  <2>3. /\ baseliner'.listed = baseliner.listed
        /\ baseliner'.at.block = baseliner.listed[l].block + Delay
    BY <1>6, <2>1 DEF BaselinerTypes, PointAt
  <2>4. BaselinesFresh'
    BY <1>1, <1>6, <2>1, <2>2, <2>3, NoOutcomeIsNone DEF BaselinesFresh
  <2> QED BY <1>3, <2>1, <2>4
<1>10. CASE ReadMarket
  <2>1. /\ baseliner'.listed = baseliner.listed /\ baseliner'.at = baseliner.at
        /\ baseliner.step = "market" /\ UNCHANGED <<turn, baselines>>
    BY <1>6, <1>10 DEF ReadMarket, BaselineStep, BaselinerTypes
  <2>2. BaselinesFresh'
    BY <1>1, <1>6, <2>1, NoOutcomeIsNone DEF BaselinesFresh
  <2> QED BY <1>3, <2>1, <2>2
<1>11. CASE CheckDecisionPoint
  <2>1. CASE Canonical(baseliner.at)
    <3>1. /\ baseliner'.listed = baseliner.listed /\ baseliner'.at = baseliner.at
          /\ baseliner.step = "stable" /\ UNCHANGED <<turn, baselines>>
      BY <1>6, <1>11, <2>1 DEF CheckDecisionPoint, BaselineStep, BaselinerTypes
    <3>2. BaselinesFresh'
      BY <1>1, <1>6, <3>1, NoOutcomeIsNone DEF BaselinesFresh
    <3> QED BY <1>3, <3>1, <3>2
  <2>2. CASE ~ Canonical(baseliner.at)
    BY <1>2, <1>4, <1>11, <2>2 DEF CheckDecisionPoint
  <2> QED BY <2>1, <2>2
<1>12. CASE PutBaseline
  <2>1. PICK l \in Launch :
            /\ Earliest(baseliner.listed, l)
            /\ IF l \in Stored
               THEN /\ baselines' = [baselines EXCEPT ![l] =
                          [status |-> baseliner.status, at |-> baseliner.at,
                           from |-> baseliner.listed[l], seen |-> baseliner.seen,
                           above |-> AboveCheckpoint(baseliner.at.block)]]
                    /\ baseliner' = [Idle("baseline") EXCEPT !.step = "next",
                                        !.listed = [baseliner.listed EXCEPT ![l] = NoPoint]]
                    /\ UNCHANGED turn
               ELSE EndBaselines /\ Throws /\ UNCHANGED baselines
    BY <1>12 DEF PutBaseline
  <2>2. CASE l \notin Stored
    BY <1>2, <1>4, <2>1, <2>2
  <2>3. CASE l \in Stored
    <3>1. /\ baseliner'.step = "next"
          /\ baseliner'.listed = [baseliner.listed EXCEPT ![l] = NoPoint]
      BY <2>1, <2>3, IdleBaseliner
    <3>2. baseliner.listed[l] = rows[l] /\ baselines[l] = NoBaseline
      BY <1>1, <2>1 DEF Earliest, BaselinesFresh
    <3>3. ASSUME NEW h \in Horizon PROVE outcomes[l][h] = NoOutcome
      BY <1>1, <3>2 DEF Linked, NoBaseline
    <3>4. /\ baselines'[l].from = rows[l]
          /\ \A m \in Launch \ {l} : baselines'[m] = baselines[m]
          /\ UNCHANGED <<rows, outcomes, truth, collector, turn>>
      BY <1>1, <2>1, <2>3, <3>2 DEF BaselineRest, ReceiptInv, TypeInv, TypeOK
    <3>5. Linked'
      BY <1>1, <3>3, <3>4, NoOutcomeIsNone DEF Linked
    <3>6. /\ baseliner'.listed[l] = NoPoint
          /\ \A m \in Launch \ {l} : baseliner'.listed[m] = baseliner.listed[m]
      BY <1>6, <3>1 DEF BaselinerTypes
    <3>7. BaselinesFresh'
      BY <1>1, <3>1, <3>4, <3>6, NoOutcomeIsNone DEF BaselinesFresh
    <3>8. InTurn' /\ OutcomesFresh'
      BY <1>1, <3>4, IdleIsFresh, IdleIsIdle DEF InTurn, Worker
    <3> QED BY <3>5, <3>7, <3>8 DEF LinkInv
  <2> QED BY <2>2, <2>3
<1> QED BY <1>7, <1>8, <1>9, <1>10, <1>11, <1>12 DEF BaselineSteps

LEMMA OutcomeEndLinks ==
    ASSUME LinkInv, turn = "outcomes", EndOutcomes, OutcomeReads, turn' \in Worker
    PROVE  LinkInv'
<1>1. /\ UNCHANGED <<rows, baselines, outcomes, truth, baseliner>>
      /\ baseliner' = Idle("baseline") /\ collector' = Idle("outcomes")
      /\ truth'.step = "idle"
  BY DEF EndOutcomes, OutcomeReads, OutcomeRest, LinkInv, InTurn
<1>2. Linked'
  BY <1>1, LinkedStays DEF LinkInv
<1>3. InTurn'
  BY <1>1, IdleIsIdle DEF InTurn, Worker
<1> QED BY <1>1, <1>2, <1>3, IdleIsFresh DEF LinkInv

LEMMA OutcomesStayFresh ==
    ASSUME OutcomesFresh, UNCHANGED <<rows, baselines>>,
           collector'.listed = collector.listed, collector'.from = collector.from,
           collector.step \in Held
    PROVE  OutcomesFresh'
<1>1. CurrentLaunch' = CurrentLaunch
  BY DEF CurrentLaunch, Earliest
<1> QED BY <1>1, NoOutcomeIsNone DEF OutcomesFresh

LEMMA NextBatchIsFresh ==
    ASSUME TypeInv, OutcomesFresh, UNCHANGED <<rows, baselines>>,
           NEW remaining, NextBatch(remaining)
    PROVE  OutcomesFresh'
<1>1. /\ collector'.step = "next"
      /\ collector'.listed = [collector.listed EXCEPT ![CurrentLaunch] = NoPoint]
      /\ collector.listed \in [Launch -> Location]
  BY IdleWorkers DEF NextBatch, TypeInv, TypeOK
<1>2. \A l \in Launch : collector'.listed[l] # NoPoint => collector'.listed[l] = collector.listed[l]
  BY <1>1
<1> QED BY <1>1, <1>2, NoOutcomeIsNone DEF OutcomesFresh, Held, Searched

LEMMA OutcomeLinks ==
    ASSUME ReceiptInv, LinkInv, turn # "any", OutcomeSteps
    PROVE  LinkInv'
<1>1. /\ turn = "outcomes" /\ OutcomeRest /\ InTurn /\ OutcomesFresh /\ Linked
      /\ baseliner = Idle("baseline") /\ truth.step = "idle"
  <2> USE DEF LinkInv, InTurn, OutcomeStep, MayRun, OutcomeReads, Recheck
  <2>1. CASE BeginOutcomes \/ ReadConfirmedPoint \/ ListBatches \/ FinishOutcomes \/ FinishHorizon
    BY <2>1 DEF BeginOutcomes, ReadConfirmedPoint, ListBatches, FinishOutcomes, FinishHorizon
  <2>2. CASE GetLaunch \/ ReadPoints \/ ReadHighPoint \/ Probe \/ ReadPredecessor
    BY <2>2 DEF GetLaunch, ReadPoints, ReadHighPoint, Probe, ReadPredecessor
  <2>3. CASE ReadMarketState \/ RecheckPoints \/ RecheckPredecessor \/ RecheckObserved \/ PutOutcome
    BY <2>3 DEF ReadMarketState, RecheckPoints, RecheckPredecessor, RecheckObserved, PutOutcome
  <2> QED BY <2>1, <2>2, <2>3 DEF OutcomeSteps
<1>2. /\ UNCHANGED <<rows, baselines, truth, baseliner>>
      /\ collector \in CollectorTypes
  BY <1>1, TypesAre DEF OutcomeRest, ReceiptInv, TypeInv
<1>3. ASSUME OutcomeReads, turn' = turn, OutcomesFresh' PROVE LinkInv'
  <2>1. InTurn' /\ BaselinesFresh' /\ Linked'
    BY <1>1, <1>2, <1>3, IdleIsFresh, IdleIsIdle, LinkedStays DEF InTurn, Worker, OutcomeReads
  <2> QED BY <1>3, <2>1 DEF LinkInv
<1>4. ASSUME OutcomeReads, EndOutcomes, Throws \/ Returns("outcomes") PROVE LinkInv'
  <2>1. turn' \in Worker
    BY <1>1, <1>4 DEF Throws, Returns, After, Worker
  <2> QED BY <1>1, <1>4, <2>1, OutcomeEndLinks
<1>5. ASSUME OutcomeReads, turn' = turn, NEW remaining, NextBatch(remaining) PROVE LinkInv'
  BY <1>1, <1>2, <1>3, <1>5, NextBatchIsFresh DEF ReceiptInv
<1>6. ASSUME OutcomeReads, turn' = turn, collector.step \in Held,
             collector'.listed = collector.listed, collector'.from = collector.from
      PROVE  LinkInv'
  BY <1>1, <1>2, <1>3, <1>6, OutcomesStayFresh
<1>7. CASE BeginOutcomes
  <2>1. CASE head < Confirmations["outcomes"]
    BY <1>4, <1>7, <2>1 DEF BeginOutcomes
  <2>2. CASE ~ (head < Confirmations["outcomes"])
    <3> DEFINE confirmed == [NoPoint EXCEPT !.block = head - Confirmations["outcomes"]]
    <3>1. collector' = [Idle("outcomes") EXCEPT
              !.step = "confirmed", !.remaining = MaxPerSync, !.horizons = Horizon,
              !.confirmed = confirmed]
      BY <1>7, <2>2 DEF BeginOutcomes
    <3> HIDE DEF confirmed
    <3>3. collector'.step = "confirmed" /\ collector'.listed = Nothing
      BY <3>1, IdleWorkers
    <3>2. OutcomesFresh'
      BY <3>3, IdleHands, NoOutcomeIsNone DEF OutcomesFresh, Held, Searched
    <3> QED BY <1>3, <1>7, <2>2, <3>2 DEF BeginOutcomes
  <2> QED BY <2>1, <2>2
<1>8. CASE ReadConfirmedPoint
  <2>1. collector'.step = "list" /\ collector'.listed = collector.listed
    BY <1>2, <1>8 DEF ReadConfirmedPoint, CollectorTypes
  <2>2. OutcomesFresh'
    BY <1>1, <1>2, <2>1, NoOutcomeIsNone DEF OutcomesFresh, Held, Searched
  <2> QED BY <1>3, <1>8, <2>2 DEF ReadConfirmedPoint
<1>9. CASE ListBatches
  <2>1. PICK pending : collector' = [collector EXCEPT !.step = "next",
             !.listed = FirstOf([l \in Launch |-> baselines[l].at], pending, collector.remaining)]
    BY <1>9 DEF ListBatches
  <2>2. /\ collector'.step = "next"
        /\ collector'.listed = FirstOf([l \in Launch |-> baselines[l].at], pending,
                                       collector.remaining)
    BY <1>2, <2>1 DEF CollectorTypes
  <2>3. \A l \in Launch : collector'.listed[l] # NoPoint => collector'.listed[l] = baselines[l].at
    BY <2>2 DEF FirstOf
  <2>4. OutcomesFresh'
    BY <1>2, <2>2, <2>3, NoOutcomeIsNone DEF OutcomesFresh, Held, Searched
  <2> QED BY <1>3, <1>9, <2>4 DEF ListBatches
<1>10. CASE FinishOutcomes
  BY <1>4, <1>10 DEF FinishOutcomes
<1>11. CASE FinishHorizon
  <2>1. collector'.step = "list" /\ collector'.listed = Nothing
    BY <1>2, <1>11 DEF FinishHorizon, CollectorTypes
  <2>2. OutcomesFresh'
    BY <2>1, IdleHands, NoOutcomeIsNone DEF OutcomesFresh, Held, Searched
  <2> QED BY <1>3, <1>11, <2>2 DEF FinishHorizon
<1>12. CASE GetLaunch
  <2>1. CASE CurrentLaunch \notin Stored
    BY <1>4, <1>12, <2>1 DEF GetLaunch, OutcomeFails
  <2>2. CASE CurrentLaunch \in Stored
    <3>1. /\ collector'.step = "points" /\ collector'.listed = collector.listed
          /\ collector'.from = rows[CurrentLaunch]
      BY <1>2, <1>12, <2>2 DEF GetLaunch, CollectorTypes
    <3>2. CurrentLaunch' = CurrentLaunch
      BY <3>1 DEF CurrentLaunch, Earliest
    <3>3. OutcomesFresh'
      BY <1>1, <1>2, <3>1, <3>2, NoOutcomeIsNone DEF OutcomesFresh
    <3> QED BY <1>3, <1>12, <2>2, <3>3 DEF GetLaunch
  <2> QED BY <2>1, <2>2
<1>13. CASE ReadPoints
  <2>1. collector.step \in Held /\ OutcomeReads
    BY <1>13 DEF ReadPoints, OutcomeStep, Held
  <2>2. CASE OutcomeFails
    BY <1>4, <2>1, <2>2 DEF OutcomeFails
  <2>3. CASE NextBatch(collector.remaining) /\ turn' = turn
    BY <1>5, <2>1, <2>3
  <2>4. CASE collector' = [collector EXCEPT !.step = "high"] /\ turn' = turn
    BY <1>2, <1>6, <2>1, <2>4 DEF CollectorTypes
  <2> QED BY <1>13, <2>2, <2>3, <2>4 DEF ReadPoints
<1>14. CASE ReadHighPoint
  <2>1. collector.step \in Held /\ OutcomeReads /\ turn' = turn
    BY <1>14 DEF ReadHighPoint, OutcomeStep, Held
  <2>2. CASE NextBatch(collector.remaining)
    BY <1>5, <2>1, <2>2
  <2>3. CASE collector'.listed = collector.listed /\ collector'.from = collector.from
    BY <1>6, <2>1, <2>3
  <2> QED BY <1>2, <1>14, <2>2, <2>3 DEF ReadHighPoint, CollectorTypes
<1>15. CASE Probe
  BY <1>2, <1>6, <1>15 DEF Probe, OutcomeStep, Held, Searched, CollectorTypes
<1>16. CASE ReadPredecessor
  BY <1>2, <1>4, <1>6, <1>16
  DEF ReadPredecessor, OutcomeFails, OutcomeStep, Held, Searched, CollectorTypes
<1>17. CASE ReadMarketState
  BY <1>2, <1>6, <1>17 DEF ReadMarketState, OutcomeStep, Held, Searched, CollectorTypes
<1>18. CASE RecheckPoints \/ RecheckPredecessor \/ RecheckObserved
  BY <1>2, <1>4, <1>6, <1>18
  DEF RecheckPoints, RecheckPredecessor, RecheckObserved, Recheck, OutcomeFails,
      OutcomeStep, Held, Searched, CollectorTypes
<1>19. CASE PutOutcome
  <2>1. CASE CurrentLaunch \notin Stored
    BY <1>1, <1>4, <1>19, <2>1 DEF PutOutcome, OutcomeFails, OutcomeReads
  <2>2. CASE CurrentLaunch \in Stored
    <3>1. PICK o : /\ o = [at |-> collector.answer, from |-> collector.from,
                           baseline |-> CurrentBaseline, seen |-> collector.seen,
                           above |-> AboveCheckpoint(collector.answer.block)]
                   /\ outcomes' = [outcomes EXCEPT ![CurrentLaunch][CurrentHorizon] = o]
                   /\ NextBatch(collector.remaining - 1)
                   /\ turn' = turn
      BY <1>19, <2>2 DEF PutOutcome
    <3>2. collector.step \in Held \ {"points"} /\ CurrentLaunch \in Launch
      BY <1>19, <2>2 DEF PutOutcome, OutcomeStep, Held, Searched, Stored
    <3>3. CurrentBaseline # NoPoint
      BY <3>2 DEF ReceiptInv, HandInv, LaunchInHand
    <3>4. o.from = rows[CurrentLaunch] /\ o.baseline = baselines[CurrentLaunch].at
      BY <1>1, <3>1, <3>2, <3>3 DEF OutcomesFresh, CurrentBaseline
    <3>5. ASSUME NEW l \in Launch, NEW h \in Horizon
          PROVE  outcomes'[l][h] = IF l = CurrentLaunch /\ h = CurrentHorizon
                                   THEN o ELSE outcomes[l][h]
      BY <3>1, <3>2 DEF ReceiptInv, TypeInv, TypeOK
    <3>6. o.baseline # NoPoint
      BY <3>1, <3>3
    <3>7. Linked'
      BY <1>1, <1>2, <3>4, <3>5, <3>6, NoOutcomeIsNone DEF Linked
    <3>8. OutcomesFresh'
      BY <1>1, <1>2, <3>1, NextBatchIsFresh DEF ReceiptInv
    <3>9. InTurn' /\ BaselinesFresh'
      BY <1>1, <1>2, <3>1, IdleIsFresh, IdleIsIdle DEF InTurn, Worker
    <3> QED BY <3>7, <3>8, <3>9 DEF LinkInv
  <2> QED BY <2>1, <2>2
<1> QED BY <1>7, <1>8, <1>9, <1>10, <1>11, <1>12, <1>13, <1>14, <1>15, <1>16, <1>17,
           <1>18, <1>19 DEF OutcomeSteps

LEMMA LinkInit == Init => LinkInv
<1> SUFFICES ASSUME Init, turn # "any" PROVE LinkInv
  BY DEF LinkInv
<1>1. /\ turn = "truth" /\ truth.step = "idle"
      /\ baseliner = Idle("baseline") /\ collector = Idle("outcomes")
      /\ \A l \in Launch : baselines[l] = NoBaseline
      /\ \A l \in Launch, h \in Horizon : outcomes[l][h] = NoOutcome
  BY IdleWorkers DEF Init
<1>2. InTurn /\ Linked
  BY <1>1 DEF InTurn, Linked
<1>3. BaselinesFresh /\ OutcomesFresh
  BY <1>1, IdleHands DEF BaselinesFresh, OutcomesFresh, Held, Searched
<1> QED BY <1>2, <1>3 DEF LinkInv

LEMMA LinkStepKeeps ==
    ASSUME ReceiptInv, LinkInv, [Next]_vars
    PROVE  LinkInv'
<1>1. turn' = "any" <=> turn = "any"
  BY TurnsAreTypes DEF ReceiptInv, TypeInv, TypeOK
<1> SUFFICES ASSUME turn # "any" PROVE LinkInv'
  BY <1>1 DEF LinkInv
<1>2. CASE TruthSteps
  BY <1>2, TruthLinks
<1>3. CASE BaselineSteps
  BY <1>3, BaselineLinks
<1>4. CASE OutcomeSteps
  BY <1>4, OutcomeLinks
<1>5. CASE Abort
  <2>1. CASE /\ MayRun("truth") /\ truth.step # "idle"
             /\ truth' = Idle("truth") /\ Throws
             /\ UNCHANGED <<chainVars, ledgerVars, baseliner, collector, unseenFork>>
    <3>1. /\ turn = "truth" /\ turn' = "truth" /\ truth'.step = "idle"
          /\ baseliner' = Idle("baseline") /\ collector' = Idle("outcomes")
          /\ UNCHANGED <<rows, baselines, outcomes>>
      BY <2>1, IdleHands DEF MayRun, Throws, LinkInv, InTurn
    <3>2. InTurn' /\ Linked'
      BY <3>1, IdleIsIdle, LinkedStays DEF InTurn, Worker, LinkInv
    <3> QED BY <3>1, <3>2, IdleIsFresh DEF LinkInv
  <2>2. CASE /\ MayRun("baseline") /\ baseliner.step # "idle"
             /\ EndBaselines /\ Throws
             /\ UNCHANGED baselines /\ BaselineRest
    <3>1. turn = "baseline" /\ turn' \in Worker
      BY <2>2 DEF MayRun, Throws, Worker
    <3> QED BY <2>2, <3>1, BaselineEndLinks
  <2>3. CASE /\ MayRun("outcomes") /\ collector.step # "idle"
             /\ OutcomeFails /\ OutcomeReads
    <3>1. turn = "outcomes" /\ turn' \in Worker /\ EndOutcomes
      BY <2>3 DEF MayRun, Throws, OutcomeFails, Worker
    <3> QED BY <2>3, <3>1, OutcomeEndLinks
  <2> QED BY <1>5, <2>1, <2>2, <2>3 DEF Abort
<1>6. CASE UNCHANGED <<rows, baselines, outcomes, turn, truth, baseliner, collector>>
  <2>1. InTurn' /\ Linked'
    BY <1>6, IdleIsIdle, LinkedStays DEF InTurn, Worker, LinkInv
  <2>2. BaselinesFresh' /\ OutcomesFresh'
    BY <1>6, NoOutcomeIsNone
    DEF BaselinesFresh, OutcomesFresh, LinkInv, CurrentLaunch, Earliest
  <2> QED BY <2>1, <2>2 DEF LinkInv
<1>7. ChainGrows \/ ChainReorganises \/ UNCHANGED vars
      => UNCHANGED <<rows, baselines, outcomes, turn, truth, baseliner, collector>>
  BY DEF ChainGrows, ChainReorganises, vars
<1> QED BY <1>2, <1>3, <1>4, <1>5, <1>6, <1>7 DEF Next

(* In one process every batch is of the stored launch, and every receipt of   *)
(* the stored launch and the stored batch, through every rewind: the workers  *)
(* run in turn, so what a list was copied from is still there at the insert.  *)
(* And in any deployment no batch or receipt is stored without its launch.    *)
THEOREM EvidenceIsLinked == Spec => []EvidenceChain
<1>1. ReceiptInv /\ LinkInv /\ [Next]_vars => LinkInv'
  BY LinkStepKeeps
<1>2. LinkInv /\ NothingStranded => EvidenceChain
  BY DEF LinkInv, Linked, EvidenceChain
<1> QED BY <1>1, <1>2, LinkInit, ReceiptAlways, NoneIsStranded, PTL DEF Spec

------------------------------------------------------------------------------
(* What a checkpoint vouches for.                                          *)

Marks == {checkpoint.at, checkpoint.guard}
Confirmed(b) == b <= head - Confirmations["truth"]

\* The marks were read, the guard below the checkpoint, both confirmed.
MarksOld ==
    /\ checkpoint # NoCheckpoint => /\ Confirmed(checkpoint.at.block)
                                    /\ checkpoint.guard.block < checkpoint.at.block
    /\ \A mark \in Marks : mark.fork <= fork[mark.block]
    /\ truth.step = "ingest" => Confirmed(truth.target)

\* The receipts that were not stored ahead of the checkpoint.
Behind == {r \in Receipts : r.at # NoPoint /\ ~ r.above}

\* A canonical mark vouches for every block up to it.
Vouched(point) ==
    \A mark \in Marks : Canonical(mark) /\ point.block <= mark.block => Canonical(point)

\* With no checkpoint left to compare, only a fork that escapes the comparison
\* can orphan the block ...
Reached(point) ==
    IF checkpoint = NoCheckpoint THEN Canonical(point) ELSE point.block <= checkpoint.at.block

\* ... and so it is for the blocks below the range an ingestion is about to commit.
Spared(point) ==
    truth.step = "ingest" => /\ Canonical(point)
                             /\ point.block <= truth.target
                             /\ checkpoint = NoCheckpoint \/ point.block < truth.from

Covered(point) == Vouched(point) /\ Confirmed(point.block) /\ Reached(point) /\ Spared(point)

RewindInv ==
    turn # "any" /\ ~ unseenFork =>
        /\ \A r \in Behind : Covered(r.at)
        /\ baseliner.step = "put" => Vouched(baseliner.at)
        /\ collector.step = "put" => Vouched(collector.answer)

LEMMA ReceiptsAreTyped ==
    ASSUME TypeOK
    PROVE  /\ \A r \in Behind : r \in Receipts /\ r.at \in Location
           /\ checkpoint.at \in Location /\ checkpoint.guard \in Location
           /\ baseliner.at \in Location /\ collector.answer \in Location
           /\ \A point \in Location : point.block \in Nat
           /\ Confirmations["truth"] \in Nat /\ head \in Nat
<1>1. \A r \in Receipts : r.at \in Location
  <2>1. ASSUME NEW l \in Launch PROVE baselines[l].at \in Location
    BY DEF TypeOK, Baseline
  <2>2. ASSUME NEW l \in Launch, NEW h \in Horizon PROVE outcomes[l][h].at \in Location
    BY DEF TypeOK, Outcome
  <2> QED BY <2>1, <2>2 DEF Receipts
<1>2. \A point \in Location : point.block \in Nat
  BY HeightsAreNumbers DEF Location
<1>3. Confirmations["truth"] \in Nat /\ head \in Nat
  BY ResearchAssumption, HeightsAreNumbers DEF ResearchAssumption, Worker, TypeOK, ChainTypeOK
<1> QED BY <1>1, <1>2, <1>3 DEF Behind, TypeOK

LEMMA RewoundBehind ==
    ASSUME TypeOK, NEW b \in Nat, RewindFrom(b)
    PROVE  \A r \in Behind' : r \in Behind /\ r.at.block < b
<1> SUFFICES ASSUME NEW r \in Behind' PROVE r \in Behind /\ r.at.block < b
  OBVIOUS
<1>1. r \in Receipts' /\ r.at # NoPoint /\ ~ r.above
  BY NoOutcomeIsNone DEF Behind
<1>2. NoBaseline.at = NoPoint /\ NoOutcome.at = NoPoint
  BY DEF NoBaseline, NoOutcome
<1>3. ASSUME NEW l \in Launch, r = baselines'[l] PROVE r \in Receipts /\ ~ (r.at.block >= b)
  <2>1. r = baselines[l] /\ ~ (r.at.block >= b)
    BY <1>1, <1>2, <1>3 DEF RewindFrom
  <2> QED BY <2>1 DEF Receipts
<1>4. ASSUME NEW l \in Launch, NEW h \in Horizon, r = outcomes'[l][h]
      PROVE  r \in Receipts /\ ~ (r.at.block >= b)
  <2>1. r = outcomes[l][h] /\ ~ (r.at.block >= b)
    BY <1>1, <1>2, <1>4 DEF RewindFrom
  <2> QED BY <2>1 DEF Receipts
<1>5. r \in Receipts /\ ~ (r.at.block >= b)
  BY <1>1, <1>3, <1>4 DEF Receipts
<1>6. r \in Behind
  BY <1>1, <1>5 DEF Behind
<1> QED BY <1>5, <1>6, ReceiptsAreTyped

LEMMA MarksStay ==
    ASSUME ReceiptInv, MarksOld, [Next]_vars
    PROVE  MarksOld'
<1>1. /\ TypeOK /\ ForksOrdered /\ ChainTypeOK
      /\ Confirmations["truth"] \in Nat /\ head \in Nat
      /\ checkpoint.at \in Location /\ checkpoint.guard \in Location
      /\ NoCheckpoint' = NoCheckpoint
      /\ truth \in [step : {"idle", "ingest"}, from : Nat, target : Block]
  BY ReceiptsAreTyped, NoOutcomeIsNone DEF ReceiptInv, TypeInv, TypeOK, NoCheckpoint
<1>2. NoCheckpoint.at = NoPoint /\ NoCheckpoint.guard = NoPoint /\ NoPoint.block = 0
      /\ NoPoint.fork = 0 /\ 0 \in Block /\ fork[0] >= 1
  BY <1>1, NoPointIsALocation DEF NoCheckpoint, NoPoint, NoLocation, Location, ChainTypeOK
<1>3. ASSUME NEW b \in Nat, RewindFrom(b), UNCHANGED <<fork, head>>
      PROVE  /\ checkpoint' # NoCheckpoint => /\ Confirmed(checkpoint.at.block)'
                                              /\ checkpoint'.guard.block < checkpoint'.at.block
             /\ \A mark \in Marks' : mark.fork <= fork'[mark.block]
  <2>1. checkpoint' \in {checkpoint, NoCheckpoint}
    BY <1>3 DEF RewindFrom
  <2>2. CASE checkpoint' = checkpoint
    BY <1>1, <1>3, <2>2 DEF MarksOld, Marks, Confirmed
  <2>3. CASE checkpoint' = NoCheckpoint
    <3>1. Marks' = {NoPoint} /\ fork'[0] >= 1 /\ fork'[0] \in Nat
      BY <1>1, <1>2, <1>3, <2>3 DEF Marks, ChainTypeOK
    <3> QED BY <1>1, <1>2, <2>3, <3>1
  <2> QED BY <2>1, <2>2, <2>3
<1>4. CASE BeginTruth
  <2>1. Confirmed(truth.target)'
    BY <1>1, <1>4 DEF BeginTruth, Confirmed
  <2>2. CASE UNCHANGED ledgerVars
    BY <1>1, <1>4, <2>1, <2>2 DEF BeginTruth, MarksOld, Marks, Confirmed
  <2>3. CASE RewindFrom(checkpoint.guard.block + 1)
    <3>1. checkpoint.guard.block + 1 \in Nat
      BY <1>1, ReceiptsAreTyped
    <3> QED BY <1>1, <1>3, <1>4, <2>1, <2>3, <3>1 DEF BeginTruth, MarksOld
  <2> QED BY <1>4, <2>2, <2>3 DEF BeginTruth
<1>5. CASE HaltAtGuard \/ TruthTooEarly
  BY <1>1, <1>5 DEF HaltAtGuard, TruthTooEarly, MarksOld, Marks, Confirmed
<1>6. CASE Ingest
  <2>1. truth'.step = "idle" /\ UNCHANGED <<fork, head>> /\ truth.step = "ingest"
    BY <1>6, IdleHands DEF Ingest
  <2>2. CASE checkpoint' = checkpoint
    BY <1>1, <2>1, <2>2 DEF MarksOld, Marks, Confirmed
  <2>3. CASE /\ truth.from <= truth.target
             /\ checkpoint' = [at |-> PointAt(truth.target),
                               guard |-> PointAt(GuardBlock(truth.target))]
    <3>1. truth.target \in Block /\ truth.target \in Nat /\ truth.target >= 1
      <4>1. truth.from \in Nat /\ truth.from >= 1 /\ truth.target \in Block
        BY <1>1, <2>1 DEF ReceiptInv, TypeInv, RowsMined
      <4>2. truth.target \in Nat
        BY <4>1, HeightsAreNumbers
      <4> QED BY <2>3, <4>1, <4>2
    <3>2. GuardBlock(truth.target) \in Block /\ GuardBlock(truth.target) < truth.target
      BY <1>2, <3>1, ResearchAssumption, ChainAssumption
      DEF GuardBlock, ResearchAssumption, ChainAssumption, Block
    <3>3. \A b \in Block : PointAt(b).block = b /\ PointAt(b).fork = fork[b] /\ fork[b] \in Nat
      BY <1>1 DEF PointAt, ChainTypeOK
    <3>4. /\ checkpoint'.at = PointAt(truth.target)
          /\ checkpoint'.guard = PointAt(GuardBlock(truth.target))
      BY <2>3
    <3> QED BY <1>1, <2>1, <3>1, <3>2, <3>3, <3>4 DEF MarksOld, Marks, Confirmed
  <2> QED BY <1>6, <2>2, <2>3 DEF Ingest
<1>7. CASE IngestFails
  BY <1>1, <1>3, <1>7, IdleHands DEF IngestFails, MarksOld
<1>8. CASE ChainGrows
  <2>1. head' = head + 1 /\ UNCHANGED <<fork, checkpoint, truth>>
    BY <1>8 DEF ChainGrows, Mine
  <2>2. truth.target \in Nat /\ checkpoint.at.block \in Nat
    BY <1>1, ReceiptsAreTyped, HeightsAreNumbers
  <2>3. ASSUME NEW b \in Nat, Confirmed(b) PROVE b <= head' - Confirmations["truth"]
    BY <1>1, <2>1, <2>3 DEF Confirmed
  <2> QED BY <1>1, <2>1, <2>2, <2>3 DEF MarksOld, Marks, Confirmed
<1>9. CASE ChainReorganises
  <2>1. PICK p \in Block : Reorg(p)
    BY <1>9 DEF ChainReorganises
  <2>2. \A b \in Block : fork[b] <= fork'[b] /\ fork[b] \in Nat /\ fork'[b] \in Nat
    BY <1>1, <2>1, ReorgOrders, HeightsAreNumbers DEF ForksOrdered
  <2>3. head' = head /\ UNCHANGED <<checkpoint, truth>>
    BY <1>9, <2>1 DEF ChainReorganises, Reorg
  <2>4. \A mark \in Marks : mark \in Location /\ mark.block \in Block /\ mark.fork \in Nat
    BY <1>1 DEF Marks, Location
  <2> QED BY <1>1, <2>2, <2>3, <2>4 DEF MarksOld, Marks, Confirmed
<1>10. CASE /\ UNCHANGED <<fork, head, checkpoint>>
            /\ truth' = truth \/ truth' = Idle("truth")
  BY <1>1, <1>10, IdleHands DEF MarksOld, Marks, Confirmed
<1>11. BaselineSteps \/ OutcomeSteps \/ Abort \/ UNCHANGED vars
       => /\ UNCHANGED <<fork, head, checkpoint>>
          /\ truth' = truth \/ truth' = Idle("truth")
  <2>1. BaselineSteps => BaselineRest
    BY DEF BaselineSteps, BeginBaselines, FinishBaselines, ReadDecisionHash, ReadMarket,
           CheckDecisionPoint, PutBaseline
  <2>2. OutcomeSteps => OutcomeRest
    <3> USE DEF OutcomeReads, Recheck
    <3>1. BeginOutcomes \/ ReadConfirmedPoint \/ ListBatches \/ FinishOutcomes \/ FinishHorizon
          => OutcomeRest
      BY DEF BeginOutcomes, ReadConfirmedPoint, ListBatches, FinishOutcomes, FinishHorizon
    <3>2. GetLaunch \/ ReadPoints \/ ReadHighPoint \/ Probe \/ ReadPredecessor => OutcomeRest
      BY DEF GetLaunch, ReadPoints, ReadHighPoint, Probe, ReadPredecessor
    <3>3. ReadMarketState \/ RecheckPoints \/ RecheckPredecessor \/ RecheckObserved \/ PutOutcome
          => OutcomeRest
      BY DEF ReadMarketState, RecheckPoints, RecheckPredecessor, RecheckObserved, PutOutcome
    <3> QED BY <3>1, <3>2, <3>3 DEF OutcomeSteps
  <2> QED BY <2>1, <2>2 DEF BaselineRest, OutcomeRest, Abort, OutcomeReads, vars
<1> QED BY <1>4, <1>5, <1>6, <1>7, <1>8, <1>9, <1>10, <1>11 DEF Next, TruthSteps

LEMMA NoMark ==
    /\ NoCheckpoint' = NoCheckpoint
    /\ NoCheckpoint.at = NoPoint /\ NoPoint.block = 0
    /\ \A point : Canonical(point)' <=> fork'[point.block] = point.fork
  BY NoOutcomeIsNone DEF NoCheckpoint, NoPoint, NoLocation, Canonical

\* What a mark vouches for it vouches for as long as the chain and the row stay.
LEMMA CoverStays ==
    ASSUME UNCHANGED <<fork, head, checkpoint>>, truth' = truth \/ truth'.step = "idle",
           NEW point
    PROVE  /\ Covered(point) => Covered(point)'
           /\ Vouched(point) => Vouched(point)'
  BY NoMark DEF Covered, Vouched, Marks, Canonical, Confirmed, Reached, Spared

\* A canonical block below the rewound heights is covered by what the rewind leaves.
LEMMA RewindCovers ==
    ASSUME NEW b \in Nat, RewindFrom(b), UNCHANGED <<fork, head>>,
           NEW point, Covered(point), Canonical(point)
    PROVE  Canonical(point)' /\ Vouched(point)' /\ Confirmed(point.block)' /\ Reached(point)'
<1>1. checkpoint' \in {checkpoint, NoCheckpoint}
  BY DEF RewindFrom
<1> QED BY <1>1, NoMark DEF Covered, Vouched, Canonical, Confirmed, Reached

\* What is stored at or below the checkpoint and passed its last check is covered.
LEMMA InsertIsCovered ==
    ASSUME TypeOK, MarksOld, NEW point \in Location, Vouched(point), point.block >= 1,
           ~ AboveCheckpoint(point.block), truth.step = "idle"
    PROVE  Covered(point)
<1>1. /\ point.block \in Nat /\ checkpoint.at.block \in Nat
      /\ Confirmations["truth"] \in Nat /\ head \in Nat
  BY ReceiptsAreTyped
<1>2. point.block <= checkpoint.at.block /\ checkpoint # NoCheckpoint
  BY <1>1, NoMark DEF AboveCheckpoint
<1>3. checkpoint.at.block <= head - Confirmations["truth"]
  BY <1>2 DEF MarksOld, Confirmed
<1>4. Confirmed(point.block)
  BY <1>1, <1>2, <1>3 DEF Confirmed
<1> QED BY <1>2, <1>4 DEF Covered, Reached, Spared

LEMMA TruthCovers ==
    ASSUME ReceiptInv, LinkInv, MarksOld, RewindInv, turn # "any", TruthSteps
    PROVE  RewindInv'
<1>1. /\ TypeOK /\ InTurn /\ UNCHANGED <<fork, head, unseenFork>>
      /\ baseliner'.step = "idle" /\ collector'.step = "idle"
  BY IdleHands
  DEF ReceiptInv, TypeInv, LinkInv, InTurn, TruthSteps, BeginTruth, HaltAtGuard, TruthTooEarly,
      Ingest, IngestFails, MayRun
<1>2. /\ checkpoint.at \in Location /\ checkpoint.guard \in Location
      /\ \A point \in Location : point.block \in Nat
      /\ \A r \in Behind : r.at \in Location
      /\ truth \in [step : {"idle", "ingest"}, from : Nat, target : Block]
      /\ Confirmations["truth"] \in Nat /\ head \in Nat
  BY <1>1, ReceiptsAreTyped DEF TypeOK
<1> SUFFICES ASSUME ~ unseenFork, NEW r \in Behind' PROVE Covered(r.at)'
  BY <1>1 DEF RewindInv
<1>3. \A s \in Behind : Covered(s.at)
  BY DEF RewindInv
<1>4. UNCHANGED <<baselines, outcomes>> => r \in Behind
  BY NoOutcomeIsNone DEF Behind, Receipts
<1>5. CASE BeginTruth /\ UNCHANGED ledgerVars
  <2>1. r \in Behind /\ Covered(r.at) /\ r.at \in Location
    BY <1>2, <1>3, <1>4, <1>5
  <2>2. CASE /\ checkpoint = NoCheckpoint \/ Canonical(checkpoint.at)
             /\ truth' = [step |-> "ingest", from |-> checkpoint.at.block + 1,
                          target |-> head - Confirmations["truth"]]
    <3>1. Canonical(r.at)
      BY <2>1, <2>2 DEF Covered, Reached, Vouched, Marks
    <3>2. r.at.block <= truth'.target
      BY <2>1, <2>2 DEF Covered, Confirmed
    <3>3. checkpoint = NoCheckpoint \/ r.at.block < truth'.from
      <4>1. CASE checkpoint # NoCheckpoint
        <5>1. r.at.block <= checkpoint.at.block
          BY <2>1, <4>1 DEF Covered, Reached
        <5> QED BY <1>2, <2>1, <2>2, <5>1
      <4> QED BY <4>1
    <3> QED BY <1>1, <1>5, <2>1, <3>1, <3>2, <3>3, NoMark
        DEF Covered, Vouched, Marks, Confirmed, Reached, Spared, Canonical
  <2>3. CASE RewindFrom(checkpoint.guard.block + 1) /\ ~ Canonical(checkpoint.at)
             /\ checkpoint # NoCheckpoint
    <3>1. checkpoint'.at.block >= checkpoint.guard.block + 1 /\ checkpoint' # NoCheckpoint
      BY <1>2, <1>5, <2>3, NoMark DEF MarksOld
    <3> QED BY <1>5, <2>3, <3>1 DEF RewindFrom
  <2> QED BY <1>5, <2>2, <2>3 DEF BeginTruth
<1>6. CASE /\ BeginTruth
           /\ checkpoint # NoCheckpoint /\ Canonical(checkpoint.guard)
           /\ RewindFrom(checkpoint.guard.block + 1)
           /\ truth' = [step |-> "ingest", from |-> checkpoint.guard.block + 1,
                        target |-> head - Confirmations["truth"]]
  <2>1. checkpoint.guard.block + 1 \in Nat /\ checkpoint.guard.block \in Nat
    BY <1>2
  <2>2. r \in Behind /\ r.at.block < checkpoint.guard.block + 1
    BY <1>1, <1>6, <2>1, RewoundBehind
  <2>3. Covered(r.at) /\ r.at.block <= checkpoint.guard.block
    BY <1>2, <1>3, <2>1, <2>2
  <2>4. Canonical(r.at)
    BY <1>6, <2>3 DEF Covered, Vouched, Marks
  <2>5. checkpoint' = NoCheckpoint
    <3>1. checkpoint.at.block >= checkpoint.guard.block + 1
      BY <1>2, <1>6, <2>1 DEF MarksOld
    <3> QED BY <1>6, <3>1 DEF RewindFrom
  <2>6. Canonical(r.at)' /\ Vouched(r.at)' /\ Confirmed(r.at.block)' /\ Reached(r.at)'
    BY <1>1, <1>6, <2>1, <2>3, <2>4, RewindCovers
  <2>7. r.at.block <= truth'.target
    BY <1>6, <2>3 DEF Covered, Confirmed
  <2> QED BY <2>5, <2>6, <2>7, NoMark DEF Covered, Spared
<1>7. CASE HaltAtGuard \/ TruthTooEarly
  <2>1. UNCHANGED <<fork, head, checkpoint, truth, baselines, outcomes>>
    BY <1>7 DEF HaltAtGuard, TruthTooEarly
  <2> QED BY <1>3, <1>4, <2>1, CoverStays
<1>8. CASE Ingest
  <2>1. /\ truth'.step = "idle" /\ truth.step = "ingest" /\ UNCHANGED <<baselines, outcomes>>
    BY <1>8, IdleHands DEF Ingest
  <2>2. r \in Behind /\ Covered(r.at)
    BY <1>3, <1>4, <2>1
  <2>3. CASE checkpoint' = checkpoint
    BY <1>1, <2>1, <2>2, <2>3, CoverStays
  <2>4. CASE checkpoint' = [at |-> PointAt(truth.target),
                            guard |-> PointAt(GuardBlock(truth.target))]
    <3>1. Canonical(r.at) /\ r.at.block <= truth.target
      BY <2>1, <2>2 DEF Covered, Spared
    <3>2. checkpoint'.at.block = truth.target
      BY <2>4 DEF PointAt
    <3> QED BY <1>1, <2>1, <2>2, <3>1, <3>2, NoMark
        DEF Covered, Vouched, Confirmed, Reached, Spared, Canonical
  <2> QED BY <1>8, <2>3, <2>4 DEF Ingest
<1>9. CASE IngestFails
  <2>1. truth'.step = "idle" /\ truth.step = "ingest" /\ RewindFrom(truth.from) /\ truth.from \in Nat
    BY <1>2, <1>9, IdleHands DEF IngestFails
  <2>2. r \in Behind
    BY <1>1, <2>1, RewoundBehind
  <2>3. Covered(r.at) /\ Canonical(r.at)
    BY <1>3, <2>1, <2>2 DEF Covered, Spared
  <2>4. Vouched(r.at)' /\ Confirmed(r.at.block)' /\ Reached(r.at)'
    BY <1>1, <2>1, <2>3, RewindCovers
  <2> QED BY <2>1, <2>4 DEF Covered, Spared
<1> QED BY <1>5, <1>6, <1>7, <1>8, <1>9 DEF TruthSteps, BeginTruth

\* A step of a reader: nothing stored changes, and a point is ready to be stored
\* only if it was, or was just found canonical.
LEMMA ReadsCover ==
    ASSUME RewindInv, turn # "any", UNCHANGED <<fork, head, checkpoint, baselines, outcomes, unseenFork>>,
           truth' = truth \/ truth'.step = "idle",
           baseliner'.step = "put" => Canonical(baseliner'.at) \/ baseliner' = baseliner,
           collector'.step = "put" => Canonical(collector'.answer) \/ collector' = collector
    PROVE  RewindInv'
<1> SUFFICES ASSUME ~ unseenFork
             PROVE  /\ \A r \in Behind' : Covered(r.at)'
                    /\ baseliner'.step = "put" => Vouched(baseliner.at)'
                    /\ collector'.step = "put" => Vouched(collector.answer)'
  BY DEF RewindInv
<1>1. \A r \in Behind' : Covered(r.at)'
  <2>1. Behind' = Behind
    BY NoOutcomeIsNone DEF Behind, Receipts
  <2> QED BY <2>1, CoverStays DEF RewindInv
<1>2. ASSUME NEW point, Canonical(point) \/ Vouched(point)
      PROVE  Marks' = Marks /\ \A mark \in Marks :
                fork'[mark.block] = mark.fork /\ point.block <= mark.block
                => fork'[point.block] = point.fork
  BY <1>2 DEF Vouched, Marks, Canonical
<1>3. baseliner'.step = "put" => Vouched(baseliner.at)'
  BY <1>2 DEF RewindInv, Vouched, Canonical
<1>4. collector'.step = "put" => Vouched(collector.answer)'
  BY <1>2 DEF RewindInv, Vouched, Canonical
<1> QED BY <1>1, <1>3, <1>4

LEMMA BaselineCovers ==
    ASSUME ReceiptInv, LinkInv, MarksOld, RewindInv, turn # "any", BaselineSteps
    PROVE  RewindInv'
<1>1. /\ TypeOK /\ baseliner \in BaselinerTypes /\ BaselinesFresh
      /\ truth.step = "idle" /\ collector.step = "idle"
      /\ BaselineRest /\ baseliner.at \in Location
  BY TypesAre, IdleHands, ReceiptsAreTyped
  DEF ReceiptInv, TypeInv, BaselineTypes, LinkInv, InTurn, BaselineSteps, BeginBaselines,
      FinishBaselines, ReadDecisionHash, ReadMarket, CheckDecisionPoint, PutBaseline,
      BaselineStep, MayRun
<1>2. UNCHANGED <<fork, head, checkpoint, outcomes, unseenFork, truth, collector>>
  BY <1>1 DEF BaselineRest
<1>3. ASSUME UNCHANGED baselines,
             baseliner'.step = "put" => Canonical(baseliner'.at)
      PROVE  RewindInv'
  BY <1>1, <1>2, <1>3, ReadsCover
<1>4. EndBaselines => baseliner'.step = "idle"
  BY IdleHands DEF EndBaselines
<1>5. CASE BeginBaselines
  <2>1. CASE head - Delay - Confirmations["baseline"] < 0
    BY <1>3, <1>4, <1>5, <2>1 DEF BeginBaselines
  <2>2. CASE ~ (head - Delay - Confirmations["baseline"] < 0)
    <3>1. PICK listed : baseliner' = [Idle("baseline") EXCEPT !.step = "next", !.listed = listed]
      BY <1>5, <2>2 DEF BeginBaselines
    <3>2. baseliner'.step = "next"
      BY <3>1, IdleBaseliner
    <3> QED BY <1>3, <1>5, <3>2 DEF BeginBaselines
  <2> QED BY <2>1, <2>2
<1>6. CASE FinishBaselines
  BY <1>3, <1>4, <1>6 DEF FinishBaselines
<1>7. CASE ReadDecisionHash \/ ReadMarket
  BY <1>1, <1>3, <1>7 DEF ReadDecisionHash, ReadMarket, BaselinerTypes
<1>8. CASE CheckDecisionPoint
  BY <1>1, <1>3, <1>4, <1>8 DEF CheckDecisionPoint, BaselinerTypes
<1>9. CASE PutBaseline
  <2>1. PICK l \in Launch :
            IF l \in Stored
            THEN /\ baselines' = [baselines EXCEPT ![l] =
                       [status |-> baseliner.status, at |-> baseliner.at,
                        from |-> baseliner.listed[l], seen |-> baseliner.seen,
                        above |-> AboveCheckpoint(baseliner.at.block)]]
                 /\ baseliner' = [Idle("baseline") EXCEPT !.step = "next",
                                     !.listed = [baseliner.listed EXCEPT ![l] = NoPoint]]
            ELSE EndBaselines /\ UNCHANGED baselines
    BY <1>9 DEF PutBaseline
  <2>2. CASE l \notin Stored
    BY <1>3, <1>4, <2>1, <2>2
  <2>3. CASE l \in Stored
    <3>1. baseliner'.step = "next"
      BY <2>1, <2>3, IdleBaseliner
    <3>2. /\ baseliner.step = "put" /\ baseliner.at.block >= 1
      BY <1>1, <1>9 DEF PutBaseline, BaselineStep, BaselinesFresh
    <3> SUFFICES ASSUME ~ unseenFork, NEW r \in Behind' PROVE Covered(r.at)'
      BY <1>1, <1>2, <3>1 DEF RewindInv
    <3>3. r \in Receipts' /\ r.at # NoPoint /\ ~ r.above
      BY NoOutcomeIsNone DEF Behind
    <3>4. CASE r \in Receipts
      <4>1. Covered(r.at)
        BY <3>3, <3>4 DEF Behind, RewindInv
      <4> QED BY <1>2, <4>1, CoverStays
    <3>5. CASE r.at = baseliner.at /\ r.above = AboveCheckpoint(baseliner.at.block)
      <4>1. Covered(r.at)
        BY <1>1, <3>2, <3>3, <3>5, InsertIsCovered DEF RewindInv
      <4> QED BY <1>2, <4>1, CoverStays
    <3>6. r \in Receipts \/ /\ r.at = baseliner.at
                            /\ r.above = AboveCheckpoint(baseliner.at.block)
      <4>1. \A m \in Launch : baselines'[m] = IF m = l
                THEN [status |-> baseliner.status, at |-> baseliner.at,
                      from |-> baseliner.listed[l], seen |-> baseliner.seen,
                      above |-> AboveCheckpoint(baseliner.at.block)]
                ELSE baselines[m]
        BY <1>1, <2>1, <2>3 DEF TypeOK
      <4> QED BY <1>2, <3>3, <4>1 DEF Receipts
    <3> QED BY <3>4, <3>5, <3>6
  <2> QED BY <2>2, <2>3
<1> QED BY <1>5, <1>6, <1>7, <1>8, <1>9 DEF BaselineSteps

\* A receipt is ready to be stored after the last look at its block only.
LEMMA OutcomeReadsCover ==
    ASSUME collector \in CollectorTypes, OutcomeSteps, ~ PutOutcome
    PROVE  OutcomeReads /\ (collector'.step = "put" => Canonical(collector'.answer))
<1>1. EndOutcomes => collector'.step = "idle"
  BY IdleHands DEF EndOutcomes
<1>2. ASSUME NEW remaining, NextBatch(remaining) PROVE collector'.step = "next"
  BY <1>2, IdleWorkers DEF NextBatch
<1>3. CASE BeginOutcomes
  <2> DEFINE confirmed == [NoPoint EXCEPT !.block = head - Confirmations["outcomes"]]
  <2>1. \/ EndOutcomes
        \/ collector' = [Idle("outcomes") EXCEPT
              !.step = "confirmed", !.remaining = MaxPerSync, !.horizons = Horizon,
              !.confirmed = confirmed]
    BY <1>3 DEF BeginOutcomes
  <2> HIDE DEF confirmed
  <2>2. collector'.step # "put"
    BY <1>1, <2>1, IdleWorkers
  <2> QED BY <1>3, <2>2 DEF BeginOutcomes
<1>4. CASE ReadConfirmedPoint \/ ListBatches \/ FinishOutcomes \/ FinishHorizon
  BY <1>1, <1>4 DEF ReadConfirmedPoint, ListBatches, FinishOutcomes, FinishHorizon, CollectorTypes
<1>5. CASE GetLaunch \/ ReadPoints \/ ReadHighPoint
  BY <1>1, <1>2, <1>5 DEF GetLaunch, ReadPoints, ReadHighPoint, OutcomeFails, CollectorTypes
<1>6. CASE Probe
  BY <1>6 DEF Probe, OutcomeStep, CollectorTypes
<1>7. CASE ReadPredecessor \/ ReadMarketState
  BY <1>1, <1>7 DEF ReadPredecessor, ReadMarketState, OutcomeFails, CollectorTypes
<1>8. CASE RecheckPoints \/ RecheckPredecessor
  BY <1>1, <1>8 DEF RecheckPoints, RecheckPredecessor, Recheck, OutcomeFails, CollectorTypes
<1>9. CASE RecheckObserved
  BY <1>1, <1>9 DEF RecheckObserved, Recheck, OutcomeFails, CollectorTypes
<1> QED BY <1>3, <1>4, <1>5, <1>6, <1>7, <1>8, <1>9 DEF OutcomeSteps

LEMMA OutcomeCovers ==
    ASSUME ReceiptInv, LinkInv, MarksOld, RewindInv, turn # "any", OutcomeSteps
    PROVE  RewindInv'
<1>1. /\ TypeOK /\ collector \in CollectorTypes /\ collector.answer \in Location
  BY TypesAre, ReceiptsAreTyped DEF ReceiptInv, TypeInv
<1>2. CASE ~ PutOutcome
  <2>1. OutcomeReads /\ (collector'.step = "put" => Canonical(collector'.answer))
    BY <1>1, <1>2, OutcomeReadsCover
  <2>2. UNCHANGED <<fork, head, checkpoint, baselines, outcomes, unseenFork, truth, baseliner>>
    BY <2>1 DEF OutcomeReads, OutcomeRest
  <2> QED BY <2>1, <2>2, ReadsCover
<1>3. CASE PutOutcome
  <2>1. /\ turn = "outcomes" /\ collector.step = "put" /\ OutcomeRest
    BY <1>3 DEF PutOutcome, OutcomeStep, MayRun
  <2>2. UNCHANGED <<fork, head, checkpoint, baselines, unseenFork, truth, baseliner>>
    BY <2>1 DEF OutcomeRest
  <2>3. truth.step = "idle" /\ baseliner.step = "idle"
    BY <2>1, IdleHands DEF LinkInv, InTurn
  <2>4. CASE CurrentLaunch \notin Stored
    <3>1. collector'.step = "idle" /\ UNCHANGED outcomes
      BY <1>3, <2>4, IdleHands DEF PutOutcome, OutcomeFails, EndOutcomes
    <3> QED BY <2>2, <3>1, ReadsCover
  <2>5. CASE CurrentLaunch \in Stored
    <3>1. PICK o : /\ o = [at |-> collector.answer, from |-> collector.from,
                           baseline |-> CurrentBaseline, seen |-> collector.seen,
                           above |-> AboveCheckpoint(collector.answer.block)]
                   /\ outcomes' = [outcomes EXCEPT ![CurrentLaunch][CurrentHorizon] = o]
                   /\ NextBatch(collector.remaining - 1)
      BY <1>3, <2>5 DEF PutOutcome
    <3>2. collector'.step = "next"
      BY <3>1, IdleWorkers DEF NextBatch
    <3>3. collector.answer.block >= 1
      BY <2>1 DEF ReceiptInv, HandInv, SearchInRange, Searched, Late, Mined
    <3> SUFFICES ASSUME ~ unseenFork, NEW r \in Behind' PROVE Covered(r.at)'
      BY <2>2, <2>3, <3>2 DEF RewindInv
    <3>4. r \in Receipts' /\ r.at # NoPoint /\ ~ r.above
      BY NoOutcomeIsNone DEF Behind
    <3>5. CASE r \in Receipts
      <4>1. Covered(r.at)
        BY <3>4, <3>5 DEF Behind, RewindInv
      <4> QED BY <2>2, <4>1, CoverStays
    <3>6. CASE r = o
      <4>1. Covered(r.at)
        BY <1>1, <2>1, <2>3, <3>1, <3>3, <3>4, <3>6, InsertIsCovered DEF RewindInv
      <4> QED BY <2>2, <4>1, CoverStays
    <3>7. r \in Receipts \/ r = o
      <4>1. ASSUME NEW l \in Launch, NEW h \in Horizon
            PROVE  outcomes'[l][h] \in {outcomes[l][h], o}
        BY <1>1, <3>1 DEF TypeOK
      <4> QED BY <2>2, <3>4, <4>1 DEF Receipts
    <3> QED BY <3>5, <3>6, <3>7
  <2> QED BY <2>4, <2>5
<1> QED BY <1>2, <1>3

\* A fork above a block spares it; one that leaves a mark canonical leaves what the
\* mark vouches for canonical.
LEMMA ForkSpares ==
    ASSUME ReceiptInv, MarksOld, NEW p \in Block, Reorg(p), UNCHANGED checkpoint,
           NEW point \in Location
    PROVE  /\ Canonical(point) /\ ~ (p <= point.block) => Canonical(point)'
           /\ Vouched(point) => Vouched(point)'
<1>1. /\ ChainTypeOK /\ ForksOrdered
      /\ checkpoint.at \in Location /\ checkpoint.guard \in Location
      /\ point.block \in Block /\ point.block \in Nat /\ p \in Nat
  BY ReceiptsAreTyped, HeightsAreNumbers DEF ReceiptInv, TypeInv, TypeOK, Location
<1>2. Canonical(point) /\ ~ (p <= point.block) => Canonical(point)'
  BY <1>1 DEF Reorg, Canonical
<1>3. ASSUME Vouched(point), NEW mark \in Marks, Canonical(mark)', point.block <= mark.block
      PROVE  Canonical(point)'
  <2>1. mark \in Location /\ mark.fork <= fork[mark.block]
    BY <1>1 DEF Marks, MarksOld
  <2>2. Canonical(mark) /\ fork'[point.block] = fork[point.block]
    BY <1>1, <1>3, <2>1, ReorgSpares
  <2>3. Canonical(point)
    BY <1>3, <2>2 DEF Vouched
  <2> QED BY <2>2, <2>3 DEF Canonical
<1> QED BY <1>2, <1>3 DEF Vouched, Marks

LEMMA ReorgCovers ==
    ASSUME ReceiptInv, MarksOld, RewindInv, turn # "any", ChainReorganises
    PROVE  RewindInv'
<1>1. PICK p \in Block : Reorg(p) /\ unseenFork' = (unseenFork \/ EscapesComparison(p))
  BY DEF ChainReorganises
<1>2. /\ UNCHANGED <<checkpoint, truth, baseliner, collector, baselines, outcomes, turn, head>>
      /\ Behind' = Behind
  <2>1. UNCHANGED <<checkpoint, truth, baseliner, collector, baselines, outcomes, turn>>
    BY DEF ChainReorganises
  <2> QED BY <1>1, <2>1, NoOutcomeIsNone DEF Reorg, Behind, Receipts
<1>3. /\ baseliner.at \in Location /\ collector.answer \in Location
      /\ \A r \in Behind : r \in Receipts /\ r.at \in Location
      /\ \A point \in Location : point.block \in Nat
      /\ p \in Nat /\ truth.from \in Nat
  BY ReceiptsAreTyped, HeightsAreNumbers DEF ReceiptInv, TypeInv, TypeOK
<1> SUFFICES ASSUME ~ unseenFork, ~ EscapesComparison(p) PROVE RewindInv'
  BY <1>1 DEF RewindInv
<1>4. ASSUME NEW r \in Behind PROVE Covered(r.at)'
  <2>1. Covered(r.at) /\ r \in Receipts /\ r.at \in Location
    BY <1>3 DEF RewindInv
  <2>2. Vouched(r.at)'
    BY <1>1, <1>2, <2>1, ForkSpares DEF Covered
  <2>3. checkpoint = NoCheckpoint => ~ (p <= r.at.block)
    BY <2>1 DEF EscapesComparison
  <2>4. truth.step = "ingest" => ~ (p <= r.at.block)
    <3>1. ASSUME truth.step = "ingest", checkpoint # NoCheckpoint PROVE ~ (p <= r.at.block)
      <4>1. r.at.block < truth.from /\ ~ (p < truth.from)
        BY <2>1, <3>1 DEF Covered, Spared, EscapesComparison
      <4> QED BY <1>3, <2>1, <4>1
    <3> QED BY <2>3, <3>1
  <2>5. Reached(r.at)' /\ Spared(r.at)'
    BY <1>1, <1>2, <2>1, <2>3, <2>4, ForkSpares, NoMark DEF Covered, Reached, Spared
  <2>6. Confirmed(r.at.block)'
    BY <1>2, <2>1 DEF Covered, Confirmed
  <2> QED BY <2>2, <2>5, <2>6 DEF Covered
<1>5. baseliner.step = "put" => Vouched(baseliner.at)'
  BY <1>1, <1>2, <1>3, ForkSpares DEF RewindInv
<1>6. collector.step = "put" => Vouched(collector.answer)'
  BY <1>1, <1>2, <1>3, ForkSpares DEF RewindInv
<1> QED BY <1>2, <1>4, <1>5, <1>6 DEF RewindInv

LEMMA GrowthCovers ==
    ASSUME ReceiptInv, RewindInv, turn # "any", ChainGrows
    PROVE  RewindInv'
<1>1. /\ UNCHANGED <<fork, checkpoint, truth, baseliner, collector, baselines, outcomes, unseenFork>>
      /\ Behind' = Behind /\ head' = head + 1
  <2>1. /\ UNCHANGED <<fork, checkpoint, truth, baseliner, collector, baselines, outcomes, unseenFork>>
        /\ head' = head + 1
    BY DEF ChainGrows, Mine
  <2> QED BY <2>1, NoOutcomeIsNone DEF Behind, Receipts
<1>2. /\ \A r \in Behind : r.at \in Location
      /\ \A point \in Location : point.block \in Nat
      /\ Confirmations["truth"] \in Nat /\ head \in Nat
  BY ReceiptsAreTyped DEF ReceiptInv, TypeInv
<1>3. ASSUME NEW point \in Location, Covered(point) PROVE Covered(point)'
  BY <1>1, <1>2, <1>3, NoMark
  DEF Covered, Vouched, Marks, Canonical, Confirmed, Reached, Spared
<1>4. ASSUME NEW point, Vouched(point) PROVE Vouched(point)'
  BY <1>1, <1>4 DEF Vouched, Marks, Canonical
<1> QED BY <1>1, <1>2, <1>3, <1>4 DEF RewindInv

LEMMA RewindStepKeeps ==
    ASSUME ReceiptInv, LinkInv, MarksOld, RewindInv, [Next]_vars
    PROVE  RewindInv'
<1>1. turn' = "any" <=> turn = "any"
  BY TurnsAreTypes DEF ReceiptInv, TypeInv, TypeOK
<1> SUFFICES ASSUME turn # "any" PROVE RewindInv'
  BY <1>1 DEF RewindInv
<1>2. CASE Abort \/ UNCHANGED vars
  <2>1. /\ UNCHANGED <<fork, head, checkpoint, baselines, outcomes, unseenFork>>
        /\ truth' = truth \/ truth'.step = "idle"
        /\ baseliner' = baseliner \/ baseliner'.step = "idle"
        /\ collector' = collector \/ collector'.step = "idle"
    BY <1>2, IdleHands
    DEF Abort, vars, EndBaselines, EndOutcomes, OutcomeFails, BaselineRest, OutcomeReads,
        OutcomeRest
  <2> QED BY <2>1, ReadsCover
<1> QED BY <1>2, TruthCovers, BaselineCovers, OutcomeCovers, GrowthCovers, ReorgCovers DEF Next

LEMMA RewindInit == Init => MarksOld /\ RewindInv
<1> SUFFICES ASSUME Init PROVE MarksOld /\ RewindInv
  OBVIOUS
<1>1. /\ checkpoint = NoCheckpoint /\ truth.step = "idle"
      /\ baseliner.step = "idle" /\ collector.step = "idle"
  BY IdleHands DEF Init
<1>2. Marks = {NoPoint} /\ NoPoint.fork = 0 /\ NoPoint.block = 0 /\ fork[0] = 1
  BY <1>1, NoPointIsALocation
  DEF Marks, NoCheckpoint, NoPoint, NoLocation, Init, ChainInit, Location
<1>3. Behind = {}
  <2>1. \A r \in Receipts : r \in {NoBaseline, NoOutcome}
    BY DEF Init, Receipts
  <2> QED BY <2>1 DEF Behind, NoBaseline, NoOutcome
<1> QED BY <1>1, <1>2, <1>3 DEF MarksOld, RewindInv

LEMMA LedgerAlways == Spec => [](ReceiptInv /\ LinkInv /\ MarksOld /\ RewindInv)
  BY LinkInit, LinkStepKeeps, MarksStay, RewindInit, RewindStepKeeps, ReceiptAlways, PTL DEF Spec

(* In one process, while no fork has slipped between the comparison of the    *)
(* checkpoint and its replacement, a canonical checkpoint means that no batch *)
(* and no receipt up to it is orphaned, except those stored ahead of it: the  *)
(* rewind by block (rewindFromBlock) and the recheck before each insert are   *)
(* enough.                                                                    *)
THEOREM RewoundUnlessStoredAhead == Spec => []RewoundUnlessAhead
<1>1. ReceiptInv /\ RewindInv => RewoundUnlessAhead
  <2> SUFFICES ASSUME ReceiptInv, RewindInv, CheckpointVouches, NEW r \in Receipts,
                      Orphaned(r), ~ r.above
               PROVE  FALSE
    BY DEF RewoundUnlessAhead
  <2>1. r \in Behind
    BY DEF Behind, Orphaned
  <2>2. Vouched(r.at) /\ r.at.block \in Nat /\ checkpoint.at.block \in Nat
    BY <2>1, ReceiptsAreTyped
    DEF RewindInv, CheckpointVouches, Covered, ReceiptInv, TypeInv
  <2>3. r.at.block <= checkpoint.at.block
    BY <2>2 DEF Orphaned, AboveCheckpoint
  <2> QED BY <2>2, <2>3 DEF Vouched, Marks, CheckpointVouches, Orphaned
<1> QED BY <1>1, LedgerAlways, PTL
==============================================================================
