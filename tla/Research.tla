------------------------------ MODULE Research ------------------------------
(***************************************************************************)
(* What happens to a launch once it is in the ledger: its executable       *)
(* baseline (src/src/runtime/executableBaseline.ts) and its forward        *)
(* outcomes (src/src/runtime/forwardOutcomes.ts), over tables that the     *)
(* ingestion rewinds when the chain forks.                                 *)
(*                                                                         *)
(* Ingestion is SentryTruth reduced to its two moments that matter here:   *)
(* the comparison of the checkpoint (with the rewind), and the range that  *)
(* is read, stored and committed.  The two later syncs are modelled read   *)
(* by read.  All three either run in turn in one process                   *)
(* (researchRuntimeCli.ts, canarySniperCli.ts) or as three programs that   *)
(* share the file (cli.ts, baselineCli.ts, forwardOutcomeCli.ts).          *)
(***************************************************************************)
EXTENDS Chain, FiniteSets

CONSTANTS
    Confirmations,  \* options.confirmations of each worker
    Lookback,       \* options.reorgLookbackBlocks
    Delay,          \* options.decisionDelayBlocks
    MaxPerSync,     \* options.maxLaunchesPerSync, options.maxOutcomesPerSync
    Horizon,        \* the horizons, in units of block time
    BlockTime,      \* time between two blocks of a fork
    Shift,          \* Shift[f]: how much later or earlier the blocks of fork f are
    SharedReorgs    \* reorganisations while three programs run (bound of the model)

Worker == {"truth", "baseline", "outcomes"}

ASSUME ResearchAssumption ==
    /\ Confirmations \in [Worker -> Nat]
    /\ Lookback \in Nat \ {0}
    /\ Delay \in Nat
    /\ MaxPerSync \in Nat \ {0}
    /\ Horizon \subseteq Nat \ {0}
    /\ BlockTime \in Nat \ {0}
    /\ SharedReorgs \in 0..MaxReorgs
    /\ Shift \in [1..(MaxReorgs + 1) -> Int]
    /\ \A f, g \in DOMAIN Shift : f < g => Shift[f] < BlockTime + Shift[g]

VARIABLES
    rows,       \* launches table: where each launch was observed, or NoPoint
    baselines,  \* baseline_batches: the batch of each launch, or NoBaseline
    outcomes,   \* outcomes table: the receipt of each launch and horizon, or NoOutcome
    checkpoint, \* chain_checkpoints row; block 0 stands for no row
    turn,       \* worker whose turn it is in the one process, "any" for three programs
    truth,      \* locals of syncSentryTruth
    baseliner,  \* locals of syncExecutableBaseline
    collector,  \* locals of syncForwardOutcomes
    unseenFork  \* history: has a fork escaped the comparison of the checkpoint?

ledgerVars == <<rows, baselines, outcomes, checkpoint>>
workerVars == <<truth, baseliner, collector>>
vars == <<chainVars, ledgerVars, turn, workerVars, unseenFork>>

------------------------------------------------------------------------------
(* Blocks and records.                                                     *)

\* OutcomeBlockPoint, and the (number, hash) pair every receipt carries.
NoPoint == NoLocation
PointAt(b) == [block |-> b, fork |-> fork[b]]
Canonical(point) == fork[point.block] = point.fork
TimeOf(point) == BlockTime * point.block + Shift[point.fork]

\* from: the launch row it was built from.  seen: the fork its market reads saw.
\* above: was its block above the checkpoint when it was stored?  (history)
Baseline == [status : {"NONE", "COMPLETE", "UNVERIFIED"}, at : Location,
             from : Location, seen : Nat, above : BOOLEAN]
NoBaseline == [status |-> "NONE", at |-> NoPoint, from |-> NoPoint,
               seen |-> 0, above |-> FALSE]

\* baseline: the decision point its baselineId is derived from.
Outcome == [at : Location, from : Location, baseline : Location,
            seen : Nat, above : BOOLEAN]
NoOutcome == [at |-> NoPoint, from |-> NoPoint, baseline |-> NoPoint,
              seen |-> 0, above |-> FALSE]

NoCheckpoint == [at |-> NoPoint, guard |-> NoPoint]
GuardBlock(b) == IF b > Lookback THEN b - Lookback ELSE 0

Receipts == {baselines[l] : l \in Launch} \cup {outcomes[l][h] : l \in Launch, h \in Horizon}
Stored == {l \in Launch : rows[l] # NoPoint}
AboveCheckpoint(b) == b > checkpoint.at.block

\* The item of a list the code takes next: earliest block, then launch.
Earliest(listed, l) ==
    /\ listed[l] # NoPoint
    /\ \A m \in Launch \ {l} :
          \/ listed[m] = NoPoint
          \/ listed[l].block < listed[m].block
          \/ listed[l].block = listed[m].block /\ l < m

\* ORDER BY block, launch LIMIT limit.
FirstOf(points, pending, limit) ==
    LET before(l) == {m \in pending : \/ points[m].block < points[l].block
                                      \/ points[m].block = points[l].block /\ m < l} IN
    [l \in Launch |-> IF l \in pending /\ Cardinality(before(l)) < limit
                      THEN points[l] ELSE NoPoint]
Nothing == [l \in Launch |-> NoPoint]

Idle(worker) ==
    CASE worker = "truth" -> [step |-> "idle", from |-> 0, target |-> 0]
      [] worker = "baseline" ->
            [step |-> "idle", listed |-> Nothing, at |-> NoPoint,
             status |-> "NONE", seen |-> 0]
      [] worker = "outcomes" ->
            [step |-> "idle", confirmed |-> NoPoint, horizons |-> {}, remaining |-> 0,
             listed |-> Nothing, from |-> NoPoint, top |-> NoPoint, low |-> 0, high |-> 0,
             answer |-> NoPoint, predecessor |-> NoPoint, seen |-> 0]

TypeOK ==
    /\ ChainTypeOK
    /\ rows \in [Launch -> Location]
    /\ baselines \in [Launch -> Baseline]
    /\ outcomes \in [Launch -> [Horizon -> Outcome]]
    /\ checkpoint \in [at : Location, guard : Location]
    /\ turn \in Worker \cup {"any"}
    /\ truth \in [step : {"idle", "ingest"}, from : Nat, target : Block]
    /\ baseliner \in [step : {"idle", "next", "market", "stable", "put"},
                      listed : [Launch -> Location], at : Location,
                      status : {"NONE", "COMPLETE", "UNVERIFIED"}, seen : Nat]
    /\ collector \in [step : {"idle", "confirmed", "list", "next", "points", "high", "probe",
                              "predecessor", "market", "again", "predecessorAgain",
                              "observedAgain", "put"},
                      confirmed : Location, horizons : SUBSET Horizon, remaining : Nat,
                      listed : [Launch -> Location], from : Location, top : Location,
                      low : Nat, high : Nat, answer : Location, predecessor : Location,
                      seen : Nat]
    /\ unseenFork \in BOOLEAN

Init ==
    /\ ChainInit
    /\ rows = Nothing
    /\ baselines = [l \in Launch |-> NoBaseline]
    /\ outcomes = [l \in Launch |-> [h \in Horizon |-> NoOutcome]]
    /\ checkpoint = NoCheckpoint
    /\ turn \in {"truth", "any"}
    /\ truth = Idle("truth")
    /\ baseliner = Idle("baseline")
    /\ collector = Idle("outcomes")
    /\ unseenFork = FALSE

(* One process takes the workers in turn and begins anew after an error;   *)
(* separate programs end and begin their syncs independently.              *)
MayRun(worker) == turn \in {worker, "any"}
After(worker) ==
    CASE worker = "truth" -> "baseline"
      [] worker = "baseline" -> "outcomes"
      [] worker = "outcomes" -> "truth"
Returns(worker) == turn' = IF turn = "any" THEN "any" ELSE After(worker)
Throws == turn' = IF turn = "any" THEN "any" ELSE "truth"

------------------------------------------------------------------------------
(* Ingestion.                                                              *)

\* Mutant: the baselines of the rewound heights stay.
RewindKeepsBaselines(b) ==
    /\ rows' = [l \in Launch |-> IF rows[l].block >= b THEN NoPoint ELSE rows[l]]
    /\ baselines' = [l \in Launch |-> IF rows[l].block >= b THEN NoBaseline ELSE baselines[l]]
    /\ outcomes' = [l \in Launch |-> [h \in Horizon |->
                       IF rows[l].block >= b \/ outcomes[l][h].at.block >= b
                       THEN NoOutcome ELSE outcomes[l][h]]]
    /\ checkpoint' = IF checkpoint.at.block >= b THEN NoCheckpoint ELSE checkpoint

\* Mutant: outcomes go with their launch only, not by the block they observed.
RewindKeepsOutcomes(b) ==
    /\ rows' = [l \in Launch |-> IF rows[l].block >= b THEN NoPoint ELSE rows[l]]
    /\ baselines' = [l \in Launch |-> IF rows[l].block >= b \/ baselines[l].at.block >= b
                                      THEN NoBaseline ELSE baselines[l]]
    /\ outcomes' = [l \in Launch |-> [h \in Horizon |->
                       IF rows[l].block >= b THEN NoOutcome ELSE outcomes[l][h]]]
    /\ checkpoint' = IF checkpoint.at.block >= b THEN NoCheckpoint ELSE checkpoint

\* rewindFromBlock: every row goes by its own block, and with its launch (ON
\* DELETE CASCADE).
RewindFrom(b) ==
    /\ rows' = [l \in Launch |-> IF rows[l].block >= b THEN NoPoint ELSE rows[l]]
    /\ baselines' = [l \in Launch |-> IF rows[l].block >= b \/ baselines[l].at.block >= b
                                      THEN NoBaseline ELSE baselines[l]]
    /\ outcomes' = [l \in Launch |-> [h \in Horizon |->
                       IF rows[l].block >= b \/ outcomes[l][h].at.block >= b
                       THEN NoOutcome ELSE outcomes[l][h]]]
    /\ checkpoint' = IF checkpoint.at.block >= b THEN NoCheckpoint ELSE checkpoint

\* Mutant: the target is not compared with the start block.
BeginTruthUnbounded ==
    /\ MayRun("truth")
    /\ truth.step = "idle"
    /\ checkpoint = NoCheckpoint \/ Canonical(checkpoint.at)
    /\ truth' = [step |-> "ingest", from |-> checkpoint.at.block + 1,
                 target |-> head - Confirmations["truth"]]
    /\ UNCHANGED <<chainVars, ledgerVars, turn, baseliner, collector, unseenFork>>

\* Head, target and the comparison of the stored checkpoint; an orphaned one
\* rewinds the ledger to its guard.
BeginTruth ==
    LET begin(from) == [step |-> "ingest", from |-> from,
                        target |-> head - Confirmations["truth"]] IN
    /\ MayRun("truth")
    /\ truth.step = "idle"
    /\ head - Confirmations["truth"] > 0
    /\ \/ /\ checkpoint = NoCheckpoint \/ Canonical(checkpoint.at)
          /\ truth' = begin(checkpoint.at.block + 1)
          /\ UNCHANGED ledgerVars
       \/ /\ checkpoint # NoCheckpoint
          /\ ~ Canonical(checkpoint.at)
          /\ Canonical(checkpoint.guard)
          /\ truth' = begin(checkpoint.guard.block + 1)
          /\ RewindFrom(checkpoint.guard.block + 1)
    /\ UNCHANGED <<chainVars, turn, baseliner, collector, unseenFork>>

\* REORG_DEPTH_EXCEEDED: the guard is orphaned too, and every sync throws.
HaltAtGuard ==
    /\ MayRun("truth")
    /\ truth.step = "idle"
    /\ checkpoint # NoCheckpoint
    /\ ~ Canonical(checkpoint.at) /\ ~ Canonical(checkpoint.guard)
    /\ Throws
    /\ UNCHANGED <<chainVars, ledgerVars, workerVars, unseenFork>>

\* Fewer confirmations than the sync asks for: it returns at once.
TruthTooEarly ==
    /\ MayRun("truth")
    /\ truth.step = "idle"
    /\ head - Confirmations["truth"] <= 0
    /\ Returns("truth")
    /\ UNCHANGED <<chainVars, ledgerVars, workerVars, unseenFork>>

\* The launches of every height from..target, then the checkpoint with its guard; LAUNCH_IDENTITY_CONFLICT when one is stored at another place.
Ingest ==
    LET found == {l \in Launch : place[l] \in truth.from..truth.target} IN
    /\ MayRun("truth")
    /\ truth.step = "ingest"
    /\ truth' = Idle("truth")
    /\ IF \E l \in found : rows[l] \notin {NoPoint, OnChain(l)}
       THEN Throws /\ UNCHANGED <<rows, checkpoint>>
       ELSE /\ rows' = [l \in Launch |-> IF l \in found THEN OnChain(l) ELSE rows[l]]
            /\ checkpoint' = IF truth.from <= truth.target
                             THEN [at |-> PointAt(truth.target),
                                   guard |-> PointAt(GuardBlock(truth.target))]
                             ELSE checkpoint
            /\ Returns("truth")
    /\ UNCHANGED <<chainVars, baselines, outcomes, baseliner, collector, unseenFork>>

\* REORG_DURING_COMMIT, or authority lost before the commit: the range just
\* written is rewound, and every receipt of its heights with it.
IngestFails ==
    /\ MayRun("truth")
    /\ truth.step = "ingest"
    /\ truth' = Idle("truth")
    /\ RewindFrom(truth.from)
    /\ Throws
    /\ UNCHANGED <<chainVars, baseliner, collector, unseenFork>>

------------------------------------------------------------------------------
(* Executable baseline.                                                    *)

BaselineStep(step) == MayRun("baseline") /\ baseliner.step = step
EndBaselines == baseliner' = Idle("baseline")
BaselineRest == UNCHANGED <<chainVars, rows, outcomes, checkpoint, truth, collector, unseenFork>>

\* listLaunchesPendingBaseline: launches without a batch whose decision block
\* has its confirmations.
BeginBaselines ==
    LET maxLaunchBlock == head - Delay - Confirmations["baseline"] IN
    /\ BaselineStep("idle")
    /\ IF maxLaunchBlock < 0
       THEN EndBaselines /\ Returns("baseline")
       ELSE /\ baseliner' = [Idle("baseline") EXCEPT
                 !.step = "next",
                 !.listed = FirstOf(rows, {l \in Stored : /\ baselines[l] = NoBaseline
                                                          /\ rows[l].block <= maxLaunchBlock},
                                    MaxPerSync)]
            /\ UNCHANGED turn
    /\ UNCHANGED baselines
    /\ BaselineRest

FinishBaselines ==
    /\ BaselineStep("next")
    /\ baseliner.listed = Nothing
    /\ EndBaselines
    /\ Returns("baseline")
    /\ UNCHANGED baselines
    /\ BaselineRest

\* buildBaselineBatch of the next launch: the hash of its decision block.
ReadDecisionHash ==
    /\ BaselineStep("next")
    /\ \E l \in Launch :
          /\ Earliest(baseliner.listed, l)
          /\ baseliner' = [baseliner EXCEPT !.step = "market",
                                            !.at = PointAt(baseliner.listed[l].block + Delay)]
    /\ UNCHANGED <<baselines, turn>>
    /\ BaselineRest

\* resolveMarket, calibrateUsd and the quotes, addressed by block number; one
\* read stands for each of them.  A terminal evidence gap is a result too.
ReadMarket ==
    /\ BaselineStep("market")
    /\ \E status \in {"COMPLETE", "UNVERIFIED"} :
          baseliner' = [baseliner EXCEPT !.step = "stable", !.status = status,
                                         !.seen = fork[baseliner.at.block]]
    /\ UNCHANGED <<baselines, turn>>
    /\ BaselineRest

\* Mutant: the decision hash is not read again.
DecisionPointTrusted ==
    /\ BaselineStep("stable")
    /\ baseliner' = [baseliner EXCEPT !.step = "put"]
    /\ UNCHANGED <<baselines, turn>>
    /\ BaselineRest

\* assertDecisionPointStable, or BASELINE_REORG_DURING_READ.
CheckDecisionPoint ==
    /\ BaselineStep("stable")
    /\ IF Canonical(baseliner.at)
       THEN baseliner' = [baseliner EXCEPT !.step = "put"] /\ UNCHANGED turn
       ELSE EndBaselines /\ Throws
    /\ UNCHANGED baselines
    /\ BaselineRest

\* putBaselineBatch, after the last authority read: inserted, or the launch is
\* gone and the foreign key fails.
PutBaseline ==
    /\ BaselineStep("put")
    /\ \E l \in Launch :
          /\ Earliest(baseliner.listed, l)
          /\ IF l \in Stored
             THEN /\ baselines' = [baselines EXCEPT ![l] =
                        [status |-> baseliner.status, at |-> baseliner.at,
                         from |-> baseliner.listed[l], seen |-> baseliner.seen,
                         above |-> AboveCheckpoint(baseliner.at.block)]]
                  /\ baseliner' = [Idle("baseline") EXCEPT !.step = "next",
                                      !.listed = [baseliner.listed EXCEPT ![l] = NoPoint]]
                  /\ UNCHANGED turn
             ELSE EndBaselines /\ Throws /\ UNCHANGED baselines
    /\ BaselineRest

------------------------------------------------------------------------------
(* Forward outcomes.                                                       *)

OutcomeStep(step) == MayRun("outcomes") /\ collector.step = step
EndOutcomes == collector' = Idle("outcomes")
OutcomeRest == UNCHANGED <<chainVars, rows, baselines, checkpoint, truth, baseliner, unseenFork>>
OutcomeReads == OutcomeRest /\ UNCHANGED outcomes
OutcomeFails == EndOutcomes /\ Throws

CurrentHorizon == CHOOSE h \in collector.horizons : \A g \in collector.horizons : h <= g
CurrentLaunch == CHOOSE l \in Launch : Earliest(collector.listed, l)
CurrentBaseline == collector.listed[CurrentLaunch]

\* targetTimestampMs and the lower bound of the search for it.
TargetTime == TimeOf(collector.from) + CurrentHorizon
LowerBound == IF CurrentBaseline.block > collector.from.block
              THEN CurrentBaseline.block ELSE collector.from.block

\* The locals of buildForwardOutcome are gone; the list goes on behind its launch.
NextBatch(remaining) ==
    collector' = [Idle("outcomes") EXCEPT
        !.step = "next", !.confirmed = collector.confirmed, !.horizons = collector.horizons,
        !.remaining = remaining, !.listed = [collector.listed EXCEPT ![CurrentLaunch] = NoPoint]]

\* getHeadBlockNumber.
BeginOutcomes ==
    /\ OutcomeStep("idle")
    /\ IF head < Confirmations["outcomes"]
       THEN EndOutcomes /\ Returns("outcomes")
       ELSE /\ collector' = [Idle("outcomes") EXCEPT
                 !.step = "confirmed", !.remaining = MaxPerSync, !.horizons = Horizon,
                 !.confirmed = [NoPoint EXCEPT !.block = head - Confirmations["outcomes"]]]
            /\ UNCHANGED turn
    /\ OutcomeReads

\* confirmedHeadPoint.
ReadConfirmedPoint ==
    /\ OutcomeStep("confirmed")
    /\ collector' = [collector EXCEPT !.step = "list",
                                      !.confirmed = PointAt(collector.confirmed.block)]
    /\ UNCHANGED turn
    /\ OutcomeReads

\* Mutant: a batch that has its outcome is still listed.
ListBatchesAgain ==
    LET points == [l \in Launch |-> baselines[l].at]
        complete == {l \in Stored : baselines[l].status = "COMPLETE"} IN
    /\ OutcomeStep("list")
    /\ collector.horizons # {}
    /\ collector.remaining > 0
    /\ collector' = [collector EXCEPT !.step = "next",
                        !.listed = FirstOf(points, complete, collector.remaining)]
    /\ UNCHANGED turn
    /\ OutcomeReads

\* listBaselineBatchesPendingOutcome of the next horizon.
ListBatches ==
    LET points == [l \in Launch |-> baselines[l].at]
        pending == {l \in Stored : /\ baselines[l].status = "COMPLETE"
                                   /\ outcomes[l][CurrentHorizon] = NoOutcome} IN
    /\ OutcomeStep("list")
    /\ collector.horizons # {}
    /\ collector.remaining > 0
    /\ collector' = [collector EXCEPT !.step = "next",
                        !.listed = FirstOf(points, pending, collector.remaining)]
    /\ UNCHANGED turn
    /\ OutcomeReads

FinishOutcomes ==
    /\ OutcomeStep("list")
    /\ collector.horizons = {} \/ collector.remaining = 0
    /\ EndOutcomes
    /\ Returns("outcomes")
    /\ OutcomeReads

FinishHorizon ==
    /\ OutcomeStep("next")
    /\ collector.listed = Nothing \/ collector.remaining = 0
    /\ collector' = [collector EXCEPT !.step = "list", !.listed = Nothing,
                        !.horizons = collector.horizons \ {CurrentHorizon}]
    /\ UNCHANGED turn
    /\ OutcomeReads

\* getLaunch, or OUTCOME_LAUNCH_MISSING.
GetLaunch ==
    /\ OutcomeStep("next")
    /\ collector.listed # Nothing
    /\ collector.remaining > 0
    /\ IF CurrentLaunch \in Stored
       THEN /\ collector' = [collector EXCEPT !.step = "points", !.from = rows[CurrentLaunch]]
            /\ UNCHANGED turn
       ELSE OutcomeFails
    /\ OutcomeReads

\* The canonical launch and decision points: OUTCOME_LAUNCH_REORG,
\* OUTCOME_BASELINE_REORG, not mature yet, or the search begins.  Reading the
\* two is one step: a fork between the reads that leaves both hashes as stored
\* lies above both.
ReadPoints ==
    /\ OutcomeStep("points")
    /\ \/ /\ ~ (Canonical(collector.from) /\ Canonical(CurrentBaseline))
          /\ OutcomeFails
       \/ /\ Canonical(collector.from) /\ Canonical(CurrentBaseline)
          /\ IF \/ collector.confirmed.block < LowerBound
                \/ TimeOf(collector.confirmed) < TargetTime
             THEN NextBatch(collector.remaining)
             ELSE collector' = [collector EXCEPT !.step = "high"]
          /\ UNCHANGED turn
    /\ OutcomeReads

\* findFirstBlockAtOrAfterTimestamp: the upper end is read again.
ReadHighPoint ==
    LET highPoint == PointAt(collector.confirmed.block) IN
    /\ OutcomeStep("high")
    /\ IF TimeOf(highPoint) < TargetTime
       THEN NextBatch(collector.remaining)
       ELSE collector' = [collector EXCEPT !.step = "probe", !.top = highPoint,
                             !.answer = highPoint, !.low = LowerBound, !.high = highPoint.block]
    /\ UNCHANGED turn
    /\ OutcomeReads

\* One round of the binary search; the point of the upper end is not read again.
Probe ==
    LET mid == collector.low + (collector.high - collector.low) \div 2
        point == IF mid = collector.top.block THEN collector.top ELSE PointAt(mid) IN
    /\ OutcomeStep("probe")
    /\ collector.low <= collector.high
    /\ collector' = IF TimeOf(point) < TargetTime
                    THEN [collector EXCEPT !.low = mid + 1]
                    ELSE [collector EXCEPT !.answer = point, !.high = mid - 1]
    /\ UNCHANGED turn
    /\ OutcomeReads

\* Mutant: the block below the answer is not looked at.
PredecessorUnread ==
    /\ OutcomeStep("probe")
    /\ collector.low > collector.high
    /\ collector' = [collector EXCEPT !.step = "market"]
    /\ UNCHANGED turn
    /\ OutcomeReads

\* captureHorizonBoundary: nothing below the lower bound is of interest, and
\* OUTCOME_HORIZON_NONMINIMAL when the predecessor is already late enough.
ReadPredecessor ==
    LET predecessor == PointAt(collector.answer.block - 1) IN
    /\ OutcomeStep("probe")
    /\ collector.low > collector.high
    /\ \/ /\ collector.answer.block = LowerBound
          /\ collector' = [collector EXCEPT !.step = "market"]
          /\ UNCHANGED turn
       \/ /\ collector.answer.block > LowerBound
          /\ IF TimeOf(predecessor) >= TargetTime
             THEN OutcomeFails
             ELSE /\ collector' = [collector EXCEPT !.step = "market",
                                                    !.predecessor = predecessor]
                  /\ UNCHANGED turn
    /\ OutcomeReads

\* readMarketState, quoteTokenToBase and the valuation, by block number.
ReadMarketState ==
    /\ OutcomeStep("market")
    /\ collector' = [collector EXCEPT !.step = "again", !.seen = fork[collector.answer.block]]
    /\ UNCHANGED turn
    /\ OutcomeReads

\* assertEvidenceStable: launch and decision point again, then the predecessor
\* if there is one, then the observed block.
Recheck(step, points, next) ==
    /\ OutcomeStep(step)
    /\ IF \A point \in points : Canonical(point)
       THEN collector' = [collector EXCEPT !.step = next] /\ UNCHANGED turn
       ELSE OutcomeFails
    /\ OutcomeReads

RecheckPoints ==
    Recheck("again", {collector.from, CurrentBaseline},
            IF collector.predecessor = NoPoint THEN "observedAgain" ELSE "predecessorAgain")
RecheckPredecessor == Recheck("predecessorAgain", {collector.predecessor}, "observedAgain")

RecheckObserved == Recheck("observedAgain", {collector.answer}, "put")

\* putOutcome: inserted, or the launch is gone and the foreign key fails.
PutOutcome ==
    /\ OutcomeStep("put")
    /\ IF CurrentLaunch \in Stored
       THEN /\ outcomes' = [outcomes EXCEPT ![CurrentLaunch][CurrentHorizon] =
                   [at |-> collector.answer, from |-> collector.from,
                    baseline |-> CurrentBaseline, seen |-> collector.seen,
                    above |-> AboveCheckpoint(collector.answer.block)]]
            /\ NextBatch(collector.remaining - 1)
            /\ UNCHANGED turn
       ELSE OutcomeFails /\ UNCHANGED outcomes
    /\ OutcomeRest

------------------------------------------------------------------------------
\* A crash, or a call that throws: an RPC failure, authority drift, a head that
\* is no longer there.
Abort ==
    \/ /\ MayRun("truth") /\ truth.step # "idle"
       /\ truth' = Idle("truth") /\ Throws
       /\ UNCHANGED <<chainVars, ledgerVars, baseliner, collector, unseenFork>>
    \/ /\ MayRun("baseline") /\ baseliner.step # "idle"
       /\ EndBaselines /\ Throws
       /\ UNCHANGED baselines /\ BaselineRest
    \/ /\ MayRun("outcomes") /\ collector.step # "idle"
       /\ OutcomeFails
       /\ OutcomeReads

TruthSteps == BeginTruth \/ HaltAtGuard \/ TruthTooEarly \/ Ingest \/ IngestFails
BaselineSteps == \/ BeginBaselines \/ FinishBaselines \/ ReadDecisionHash \/ ReadMarket
                 \/ CheckDecisionPoint \/ PutBaseline
OutcomeSteps == \/ BeginOutcomes \/ ReadConfirmedPoint \/ ListBatches \/ FinishOutcomes
                \/ FinishHorizon \/ GetLaunch \/ ReadPoints \/ ReadHighPoint \/ Probe
                \/ ReadPredecessor \/ ReadMarketState \/ RecheckPoints
                \/ RecheckPredecessor \/ RecheckObserved \/ PutOutcome

ChainGrows == Mine /\ UNCHANGED <<ledgerVars, turn, workerVars, unseenFork>>

\* A fork no comparison will find: it reaches a height that the sync in progress
\* has left behind, or a receipt while no checkpoint row is there to compare
\* (from a rewind to the next commit, across a crash).
EscapesComparison(p) ==
    \/ truth.step = "ingest" /\ p < truth.from
    \/ checkpoint = NoCheckpoint /\ \E receipt \in Receipts : p <= receipt.at.block

ChainReorganises ==
    /\ turn = "any" => NewestFork <= SharedReorgs
    /\ \E p \in Block :
          /\ Reorg(p)
          /\ unseenFork' = (unseenFork \/ EscapesComparison(p))
    /\ UNCHANGED <<ledgerVars, turn, workerVars>>

Next == \/ TruthSteps \/ BaselineSteps \/ OutcomeSteps
        \/ Abort \/ ChainGrows \/ ChainReorganises

Spec == Init /\ [][Next]_vars

\* One process that loops over the three syncs.  An error ends it, and whoever runs
\* it starts it again.
LoopInit == Init /\ turn = "truth"
LoopSpec ==
    /\ LoopInit /\ [][Next]_vars
    /\ WF_vars(TruthSteps \/ BaselineSteps \/ OutcomeSteps)
------------------------------------------------------------------------------
(* Safety.                                                                 *)

\* Everything a stored batch quotes was read on the fork whose hash it names
\* (docs/EXECUTABLE_BASELINE_R1.md: "checked before and after all reads"), also
\* when the chain forks and other programs write between the reads.
BaselineOfOneFork ==
    \A l \in Launch : baselines[l] # NoBaseline => baselines[l].seen = baselines[l].at.fork

\* A receipt is evidence of one fork: its market reads saw the fork whose hash
\* it names, and as long as that hash is canonical so are the launch and the
\* decision point it was computed from, and the block is the first one from the
\* decision block on that reaches the horizon.  The search itself may have mixed
\* two forks (docs/FORWARD_OUTCOMES_R1.md: "A mixed-fork search therefore fails
\* closed instead of storing a non-minimal horizon block").
OutcomeOfOneFork ==
    \A l \in Launch, h \in Horizon :
        LET o == outcomes[l][h] IN
        o # NoOutcome =>
            /\ o.seen = o.at.fork
            /\ o.at.block >= o.baseline.block
            /\ Canonical(o.at) =>
                  /\ Canonical(o.from) /\ Canonical(o.baseline)
                  /\ \A b \in o.from.block..o.at.block :
                        b >= o.baseline.block =>
                            (TimeOf(PointAt(b)) >= TimeOf(o.from) + h <=> b = o.at.block)

\* No receipt refers to a launch the ledger has dropped, in any deployment.
NothingStranded ==
    \A l \in Launch :
        \/ baselines[l] # NoBaseline
        \/ \E h \in Horizon : outcomes[l][h] # NoOutcome
        => l \in Stored

\* The ledger is one chain of evidence through every rewind.  In any deployment
\* nothing is stranded; in one process a batch is of the stored launch, a receipt
\* of the stored launch and of the stored batch.  (Separate programs can break
\* the second part: a rewind between the last read and the write.)
EvidenceChain ==
    /\ NothingStranded
    /\ turn # "any" =>
          \A l \in Launch :
              /\ baselines[l] # NoBaseline => baselines[l].from = rows[l]
              /\ \A h \in Horizon : outcomes[l][h] # NoOutcome =>
                    /\ outcomes[l][h].from = rows[l]
                    /\ outcomes[l][h].baseline = baselines[l].at

Orphaned(receipt) ==
    /\ receipt.at # NoPoint
    /\ ~ AboveCheckpoint(receipt.at.block)
    /\ ~ Canonical(receipt.at)
\* One process, every fork within reach of the comparison, and the checkpoint
\* found canonical.
CheckpointVouches ==
    /\ turn # "any"
    /\ ~ unseenFork
    /\ checkpoint # NoCheckpoint
    /\ Canonical(checkpoint.at)

\* No batch or receipt up to the checkpoint is of an orphaned block: a rewind
\* leaves none behind.  (docs/EXECUTABLE_BASELINE_R1.md: "This fixes the case where
\* a launch at block N survives while its baseline at block N+2 is reorged away.")
EvidenceRewound == CheckpointVouches => \A receipt \in Receipts : ~ Orphaned(receipt)

\* ... which is true of every batch and receipt that was not stored ahead of the
\* checkpoint.
RewoundUnlessAhead ==
    CheckpointVouches => \A receipt \in Receipts : Orphaned(receipt) => receipt.above

------------------------------------------------------------------------------
(* Progress.                                                               *)

\* A step in which no call fails and the process does not die.
Undisturbed ==
    \/ BeginTruth \/ HaltAtGuard \/ TruthTooEarly \/ Ingest
    \/ BaselineSteps \/ OutcomeSteps \/ ChainGrows \/ ChainReorganises

\* An outcome the collector could build: its batch is COMPLETE and canonical, and
\* the confirmed head has reached the horizon.
Due(l, h) ==
    LET confirmed == head - Confirmations["outcomes"] IN
    /\ l \in Stored
    /\ outcomes[l][h] = NoOutcome
    /\ baselines[l].status = "COMPLETE"
    /\ Canonical(rows[l]) /\ Canonical(baselines[l].at)
    /\ confirmed >= baselines[l].at.block
    /\ TimeOf(PointAt(confirmed)) >= TimeOf(rows[l]) + h

\* What waits for an operator: ingestion halted below its guard, a fork it has not
\* seen, or an orphaned batch that was stored ahead of the checkpoint, is not
\* rewound, and throws OUTCOME_BASELINE_REORG whenever the collector meets it.
Obstructed ==
    \/ unseenFork
    \/ checkpoint # NoCheckpoint /\ ~ Canonical(checkpoint.at) /\ ~ Canonical(checkpoint.guard)
    \/ \E l \in Launch, h \in Horizon :
          /\ baselines[l].status = "COMPLETE" /\ outcomes[l][h] = NoOutcome
          /\ baselines[l].above /\ ~ Canonical(baselines[l].at)

\* Once calls no longer fail, no outcome that is due stays out for ever: neither the
\* limit of a sync, nor the fixed order of its list, nor a search that two forks led
\* astray, nor a batch a rewind took away keeps the loop from it (docs/
\* FORWARD_OUTCOMES_R1.md).  Only what waits for an operator does.
OutcomesFollow ==
    <>[][Undisturbed]_vars =>
        \A l \in Launch, h \in Horizon : []<>(Due(l, h) => Obstructed)
==============================================================================
