--------------------------- MODULE HistoricalReplay ---------------------------
(***************************************************************************)
(* The replay of the launches of the past against an archive node.         *)
(*                                                                         *)
(* scripts/historical-full-replay-scope-r1.mjs finds the launches in a log *)
(* scan whose span adapts to the provider and freezes them in order;       *)
(* historical-full-replay-authority-map-r1.mjs gives every launch the      *)
(* Sentry implementation of its cohort; src/historicalFullReplayCli.ts     *)
(* replays a range of the map through the baseline and outcome pipelines   *)
(* and writes a receipt; historical-full-replay-r1-aggregate.mjs joins the *)
(* receipts of a directory into the report.  Four earlier programs run the *)
(* same pipelines over the first launch of every cohort and must pass.     *)
(*                                                                         *)
(* The chain of the past does not change; what an RPC call may do is fail, *)
(* be refused for its rate, or answer from an index that lags.  Jobs share *)
(* nothing but the receipts they leave, so one job at a time, each free to *)
(* die at any read, reaches every directory that parallel ones reach.      *)
(***************************************************************************)
EXTENDS Integers, Sequences, SequencesExt, FiniteSets

CONSTANTS
    FromBlock, ToBlock, \* FROM_BLOCK, TO_BLOCK
    Log,              \* deployment logs of the range: [block, index, launch, special]
    MinSpan, MaxSpan, \* MIN_LOG_SPAN, MAX_LOG_SPAN
    MaxRetries,       \* MAX_RATE_LIMIT_RETRIES
    Cohort,           \* gate.cohorts [implementation, launches, first] and the reviewed block
    Implementation,   \* Implementation[b]: what the Sentry proxy points to at block b
    Delay,            \* DECISION_DELAY_BLOCKS
    Confirmations,    \* OUTCOME_CONFIRMATIONS
    Horizon,          \* OUTCOME_HORIZONS, in units of block time
    Market,           \* Market[l]: [pool, base, entry], what the archive holds at the decision
    Sells,            \* Sells[l]: blocks at which the exit quote succeeds
    Priced,           \* Priced[method]: blocks at which the method has a USD price
    ShardFiles,       \* shard receipts the aggregate expects (11)
    Ranges,           \* ranges shards are run for, of one split of the map or another
    MaxBlock          \* bound of the model: blocks that are mined

Launch == {log.launch : log \in Log}
ExpectedLaunches == Cardinality(Launch)
BlockOf(l) == (CHOOSE log \in Log : log.launch = l).block
Method == {"oracle", "pools"}

ASSUME ReplayAssumption ==
    /\ FromBlock \in Nat \ {0} /\ ToBlock \in Nat /\ FromBlock <= ToBlock
    /\ MaxBlock \in Nat /\ ToBlock + Delay <= MaxBlock
    /\ IsFiniteSet(Log)
    /\ \A log \in Log : /\ log.block \in FromBlock..ToBlock
                        /\ log.index \in Nat
                        /\ log.special \in BOOLEAN
                        /\ log.block = BlockOf(log.launch)
    /\ \A log, other \in Log :
          log.block = other.block /\ log.index = other.index => log = other
    /\ MinSpan \in Nat \ {0} /\ MaxSpan \in Nat /\ MinSpan <= MaxSpan
    /\ MaxRetries \in Nat /\ Delay \in Nat /\ Confirmations \in Nat
    /\ Horizon \in Seq(Nat) \ {<<>>}
    /\ Cohort \in Seq([implementation : Range(Implementation), launches : Nat \ {0},
                       first : Launch, observed : Nat])
    /\ DOMAIN Implementation = 1..MaxBlock
    /\ Market \in [Launch -> [pool : BOOLEAN, base : {"weth", "usdt0", "other"}, entry : BOOLEAN]]
    /\ Sells \in [Launch -> SUBSET (1..MaxBlock)]
    /\ Priced \in [Method -> SUBSET (1..MaxBlock)]
    /\ Ranges \subseteq (1..ExpectedLaunches) \X (1..ExpectedLaunches)
    /\ \A range \in Ranges : range[1] <= range[2]

VARIABLES
    head,     \* the chain head
    scan,     \* locals of discoverLaunches
    scope,    \* the frozen manifest: logs in order, <<>> before it is frozen
    map,      \* the authority map, <<>> before it is frozen
    job,      \* locals of the replay or gate program that is running
    receipts, \* shard receipts written so far
    passed,   \* gates whose verdict was PASS
    report    \* rows of the aggregate's receipt, <<>> before there is one

vars == <<head, scan, scope, map, job, receipts, passed, report>>

------------------------------------------------------------------------------
(* Programs and reads.                                                     *)

\* The programs are one loop over launches (below); they differ in what they take
\* for the launch, in the source that calibrates the notionals of the baseline, in
\* the one that values the outcome, in the horizons, in what a horizon that is not
\* over is worth, and in whether the observed block has been reviewed.
LastHorizon == <<Horizon[Len(Horizon)]>>
Compatibility ==
    [launch |-> "authority", calibration |-> "pools", valuation |-> "pools",
     horizons |-> LastHorizon, pending |-> "UNVERIFIED", reviewed |-> FALSE]
BaselinePolicy ==
    [launch |-> "authority", calibration |-> "oracle", valuation |-> "pools",
     horizons |-> LastHorizon, pending |-> "UNVERIFIED", reviewed |-> FALSE]
OutcomePolicy ==
    [launch |-> "token", calibration |-> "oracle", valuation |-> "oracle",
     horizons |-> LastHorizon, pending |-> "UNVERIFIED", reviewed |-> TRUE]
AllHorizons ==
    [launch |-> "token", calibration |-> "oracle", valuation |-> "oracle",
     horizons |-> Horizon, pending |-> "UNVERIFIED", reviewed |-> FALSE]
FullReplay ==
    [launch |-> "identity", calibration |-> "oracle", valuation |-> "oracle",
     horizons |-> Horizon, pending |-> "throws", reviewed |-> FALSE]
Program ==
    [ compatibility |-> Compatibility, baselinePolicy |-> BaselinePolicy,
      outcomePolicy |-> OutcomePolicy, allHorizons |-> AllHorizons, shard |-> FullReplay ]
Gate == DOMAIN Program \ {"shard"}

\* A read of the archive answers with what is there, or the provider fails.
Reads(truth) == {truth, "unreachable"}

\* Mutant: a failed call is taken for an absence.
AnyFailureIsGap(answer) == answer # "found"

\* What may become a per-launch receipt: an absence the archive itself states.
\* A failed call and a drift of authority never do.
IsTerminalGap(answer) == answer = "gap"

PoolRead(l) ==
    IF Market[l].pool /\ Market[l].base # "other" THEN "found" ELSE "gap"

\* The oracle's absence at the decision block is no terminal gap of the
\* baseline (HISTORICAL_REDSTONE_...), that of a pool quote is.
CalibrationRead(method, l, b) ==
    IF Market[l].base = "usdt0" \/ b \in Priced[method] THEN "found"
    ELSE IF method = "pools" THEN "gap" ELSE "drift"

EntryRead(l) == IF Market[l].entry THEN "found" ELSE "reverts"
ExitRead(l, b) == IF b \in Sells[l] THEN "found" ELSE "reverts"
ValuationRead(method, l, b) ==
    IF Market[l].base = "usdt0" \/ b \in Priced[method] THEN "found" ELSE "gap"

AuthorityRead(implementation, b) ==
    IF Implementation[b] = implementation THEN "found" ELSE "drift"

\* findFirstBlockAtOrAfterTimestamp from the decision block on.
ObservedBlock(l, horizon) ==
    IF horizon > Delay THEN BlockOf(l) + horizon ELSE BlockOf(l) + Delay

------------------------------------------------------------------------------
(* The scope: which launches there are.                                    *)

Smaller(a, b) == IF a < b THEN a ELSE b
Larger(a, b) == IF a > b THEN a ELSE b

ScanEnd == Smaller(scan.cursor + scan.span - 1, ToBlock)
LogsIn(from, to) == {log \in Log : log.block \in from..to}

InOrder(a, b) == a.block < b.block \/ (a.block = b.block /\ a.index < b.index)

\* dedup: of the logs of one launch the first.
Deduplicated(logs) ==
    {log \in logs : \A other \in logs : other.launch = log.launch => log.index <= other.index}

\* The sequences of all logs of a set in chain order: there is one.
Sorted(logs) ==
    {launches \in [1..Cardinality(logs) -> logs] :
        \A m, n \in DOMAIN launches : m < n => InOrder(launches[m], launches[n])}

Unscanned == [step |-> "idle", cursor |-> FromBlock, span |-> MaxSpan, retries |-> 0,
              logs |-> {}, lagged |-> FALSE]

\* A scan whose fixture exists can only confirm it or throw.
BeginScan ==
    /\ scope = <<>> /\ scan.step \in {"idle", "threw"} /\ job.step = "idle"
    /\ scan' = [Unscanned EXCEPT !.step = "scan"]
    /\ UNCHANGED <<head, scope, map, job, receipts, passed, report>>

\* Mutant: the cursor moves by the span of the next chunk.
ReadChunkAfterGrowing ==
    /\ scan.step = "scan" /\ scan.cursor <= ToBlock
    /\ scan' = [scan EXCEPT
          !.logs = @ \cup LogsIn(scan.cursor, ScanEnd),
          !.cursor = Smaller(@ + Smaller(scan.span * 2, MaxSpan), ToBlock + 1),
          !.span = Smaller(@ * 2, MaxSpan),
          !.retries = 0]
    /\ UNCHANGED <<head, scope, map, job, receipts, passed, report>>

\* A chunk was answered.  The index of the node may lack some of its logs.
ReadChunk ==
    /\ scan.step = "scan" /\ scan.cursor <= ToBlock
    /\ \E answer \in SUBSET LogsIn(scan.cursor, ScanEnd) :
          scan' = [scan EXCEPT
             !.logs = @ \cup answer,
             !.lagged = @ \/ answer # LogsIn(scan.cursor, ScanEnd),
             !.cursor = ScanEnd + 1,
             !.span = Smaller(@ * 2, MaxSpan),
             !.retries = 0]
    /\ UNCHANGED <<head, scope, map, job, receipts, passed, report>>

\* The same chunk again, for as long as the provider only asks for patience.
RetryChunk ==
    /\ scan.step = "scan" /\ scan.cursor <= ToBlock
    /\ scan.retries < MaxRetries
    /\ scan' = [scan EXCEPT !.retries = @ + 1]
    /\ UNCHANGED <<head, scope, map, job, receipts, passed, report>>

\* Mutant: the span is halved below the smallest one.
ShrinkChunkUnfloored ==
    /\ scan.step = "scan" /\ scan.cursor <= ToBlock
    /\ scan' = IF scan.span > MinSpan
               THEN [scan EXCEPT !.span = @ \div 2, !.retries = 0]
               ELSE [scan EXCEPT !.step = "threw"]
    /\ UNCHANGED <<head, scope, map, job, receipts, passed, report>>

\* Any other error, or one refusal too many: a smaller chunk from the same
\* cursor, and at the smallest span the error ends the program.
ShrinkChunk ==
    /\ scan.step = "scan" /\ scan.cursor <= ToBlock
    /\ scan' = IF scan.span > MinSpan
               THEN [scan EXCEPT !.span = Larger(@ \div 2, MinSpan), !.retries = 0]
               ELSE [scan EXCEPT !.step = "threw"]
    /\ UNCHANGED <<head, scope, map, job, receipts, passed, report>>

\* The count and the two ends of the frozen range; the receipt of a first scan
\* is committed as the fixture.
ScopeHolds(launches) ==
    /\ Len(launches) = ExpectedLaunches
    /\ launches[1].block = FromBlock
    /\ launches[Len(launches)].block = ToBlock
FreezeScope ==
    /\ scan.step = "scan" /\ scan.cursor > ToBlock
    /\ \E launches \in Sorted(Deduplicated(scan.logs)) :
          IF ScopeHolds(launches)
          THEN scope' = launches /\ scan' = [Unscanned EXCEPT !.lagged = scan.lagged]
          ELSE scan' = [scan EXCEPT !.step = "threw"] /\ UNCHANGED scope
    /\ UNCHANGED <<head, map, job, receipts, passed, report>>

ScanStep == ReadChunk \/ RetryChunk \/ ShrinkChunk \/ FreezeScope

------------------------------------------------------------------------------
(* The authority map: under which implementation each launch is replayed.  *)

CohortStart(i) == 1 + FoldFunctionOnSet(LAMBDA c, sum : c.launches + sum, 0, Cohort, 1..(i - 1))
CohortOf(ordinal) ==
    CHOOSE i \in DOMAIN Cohort :
        ordinal \in CohortStart(i)..(CohortStart(i) + Cohort[i].launches - 1)
MapRows ==
    [n \in DOMAIN scope |-> [ordinal |-> n, log |-> scope[n],
                             implementation |-> Cohort[CohortOf(n)].implementation]]

\* loadFrozenScopeManifest: the committed scope is checked once more, and its
\* launches differ.
LoadsFrozenScope == ScopeHolds(scope) /\ IsInjective(scope)

\* Counts that do not partition the scope, or a cohort that does not begin with
\* its reviewed launch, throw.
FreezeMap ==
    /\ scope # <<>> /\ map = <<>>
    /\ LoadsFrozenScope
    /\ CohortStart(Len(Cohort)) + Cohort[Len(Cohort)].launches - 1 = Len(scope)
    /\ \A i \in DOMAIN Cohort : scope[CohortStart(i)].launch = Cohort[i].first
    /\ map' = MapRows
    /\ UNCHANGED <<head, scan, scope, job, receipts, passed, report>>

------------------------------------------------------------------------------
(* The replay of a range, and the gates.                                   *)

Idle == [program |-> "none", step |-> "idle", range |-> <<0, 0>>, todo |-> <<>>,
         confirmed |-> 0, rows |-> <<>>]

\* What a program replays: rows of the map, or the first launch of each cohort
\* (which the gates take from the reviewed fixture, not from the map).
Representatives ==
    [i \in DOMAIN Cohort |-> [ordinal |-> i, log |-> [launch |-> Cohort[i].first],
                              implementation |-> Cohort[i].implementation]]

Begin(program, range, todo) ==
    /\ job.step = "idle" /\ report = <<>> /\ scan.step # "scan"
    /\ head >= Confirmations
    /\ job' = [program |-> program, step |-> "launch", range |-> range, todo |-> todo,
               confirmed |-> head - Confirmations, rows |-> <<>>]
    /\ UNCHANGED <<head, scan, scope, map, receipts, passed, report>>

BeginGate == \E gate \in Gate \ passed : Begin(gate, <<1, Len(Cohort)>>, Representatives)

\* SHARD_START_ORDINAL and SHARD_END_ORDINAL.
BeginShard ==
    /\ map # <<>>
    /\ \E range \in Ranges : Begin("shard", range, SubSeq(map, range[1], range[2]))

\* An exception ends the program without a receipt.
Throw == job' = Idle

Current == Head(job.todo)
CurrentLaunch == Current.log.launch

\* The log catchUp takes for a launch: the specialised one if there is one.
SourceLog(l) ==
    LET logs == {log \in Log : log.launch = l}
        special == {log \in logs : log.special} IN
    CHOOSE log \in Deduplicated(IF special # {} THEN special ELSE logs) : TRUE

\* catchUp of the launch block.  The shard compares the whole identity with the
\* map; the gates find the launch by its token, two of them after assertAuthority.
Recognised ==
    CASE Program[job.program].launch = "identity" -> SourceLog(CurrentLaunch) = Current.log
      [] Program[job.program].launch = "authority" ->
            AuthorityRead(Current.implementation, BlockOf(CurrentLaunch)) = "found"
      [] Program[job.program].launch = "token" -> TRUE
ReadLaunch ==
    /\ job.step = "launch" /\ job.todo # <<>>
    /\ \/ job' = IF Recognised THEN [job EXCEPT !.step = "baseline"] ELSE Idle
       \/ Throw
    /\ UNCHANGED <<head, scan, scope, map, receipts, passed, report>>

\* The row of the launch is done when its last horizon has a cell.
Horizons == Program[job.program].horizons
NotAttempted(horizon) ==
    [horizon |-> horizon, status |-> "NOT_ATTEMPTED", at |-> 0, evidence |-> FALSE]
NextLaunch(rows) == [job EXCEPT !.step = "launch", !.todo = Tail(@), !.rows = rows]

\* buildBaselineBatch: the first read that does not answer decides.
BuildBaseline ==
    /\ job.step = "baseline"
    /\ LET l == CurrentLaunch
           decision == BlockOf(l) + Delay
           row(status, entry, cells) ==
               [ordinal |-> Current.ordinal, implementation |-> Current.implementation,
                launch |-> l, baseline |-> status, entry |-> entry, cells |-> cells]
       IN
       \E authority \in Reads(AuthorityRead(Current.implementation, decision)),
          pool \in Reads(PoolRead(l)),
          price \in Reads(CalibrationRead(Program[job.program].calibration, l, decision)),
          entry \in Reads(EntryRead(l)) :
          LET answer == IF pool # "found" THEN pool ELSE price IN
          job' = CASE authority # "found" -> Idle
                   [] authority = "found" /\ IsTerminalGap(answer) ->
                        NextLaunch(Append(job.rows, row("UNVERIFIED", "none",
                            [i \in DOMAIN Horizons |-> NotAttempted(Horizons[i])])))
                   [] authority = "found" /\ answer = "found" /\ entry # "unreachable" ->
                        [job EXCEPT !.step = "outcome",
                                    !.rows = Append(@, row("COMPLETE", entry, <<>>))]
                   [] OTHER -> Idle
    /\ UNCHANGED <<head, scan, scope, map, receipts, passed, report>>

\* The cell of a horizon that lies behind the confirmed head.  An outcome that
\* was valued by the oracle carries the evidence the source noted for it.
Cell(horizon, at, entry, exit, value) ==
    LET sold == entry = "found" /\ exit = "found" IN
    [horizon |-> horizon, at |-> at,
     status |-> IF entry = "found" /\ (sold => value = "found") THEN "COMPLETE" ELSE "UNVERIFIED",
     evidence |-> sold /\ value = "found" /\ Market[CurrentLaunch].base = "weth"
                      /\ Program[job.program].valuation = "oracle"]

\* The outcome policy gate throws at a block other than the reviewed one, whatever
\* the status of the outcome (HISTORICAL_OUTCOME_POLICY_OBSERVED_BLOCK_DRIFT).
ObservedBlockDrifts(at) ==
    Program[job.program].reviewed /\ at # Cohort[Current.ordinal].observed

\* buildForwardOutcome, buildHistoricalForwardOutcome.  A horizon that is not
\* over ends the shard, and counts as UNVERIFIED at a gate.
BuildOutcome ==
    /\ job.step = "outcome"
    /\ LET row == job.rows[Len(job.rows)]
           horizon == Horizons[Len(row.cells) + 1]
           at == ObservedBlock(CurrentLaunch, horizon)
           done(cell) ==
               LET rows == [job.rows EXCEPT ![Len(job.rows)].cells = Append(@, cell)] IN
               IF Len(row.cells) + 1 = Len(Horizons)
               THEN NextLaunch(rows) ELSE [job EXCEPT !.rows = rows]
       IN
       IF job.confirmed < at
       THEN job' = IF Program[job.program].pending = "throws" THEN Idle
                   ELSE done([horizon |-> horizon, status |-> "UNVERIFIED", at |-> 0,
                              evidence |-> FALSE])
       ELSE \E exit \in Reads(ExitRead(CurrentLaunch, at)),
               value \in Reads(ValuationRead(Program[job.program].valuation, CurrentLaunch, at)) :
               job' = IF \/ row.entry = "found" /\
                            (exit = "unreachable" \/ (exit = "found" /\ value = "unreachable"))
                         \/ ObservedBlockDrifts(at)
                      THEN Idle ELSE done(Cell(horizon, at, row.entry, exit, value))
    /\ UNCHANGED <<head, scan, scope, map, receipts, passed, report>>

\* accountingPass: as many rows and cells as the range has.
Accounted(range, rows) ==
    LET launches == range[2] - range[1] + 1 IN
    /\ Len(rows) = launches
    /\ Len(FlattenSeq([i \in DOMAIN rows |-> rows[i].cells])) = launches * Len(Horizon)

WriteReceipt ==
    /\ job.step = "launch" /\ job.todo = <<>> /\ job.program = "shard"
    /\ receipts' = receipts \cup {[range |-> job.range, rows |-> job.rows,
                                    pass |-> Accounted(job.range, job.rows)]}
    /\ job' = Idle
    /\ UNCHANGED <<head, scan, scope, map, passed, report>>

\* A gate passes when nothing was left UNVERIFIED or unattempted.
AllComplete(rows) ==
    \A i \in DOMAIN rows :
        /\ rows[i].baseline = "COMPLETE"
        /\ \A h \in DOMAIN rows[i].cells : rows[i].cells[h].status = "COMPLETE"
WriteVerdict ==
    /\ job.step = "launch" /\ job.todo = <<>> /\ job.program \in Gate
    /\ passed' = IF AllComplete(job.rows) THEN passed \cup {job.program} ELSE passed
    /\ job' = Idle
    /\ UNCHANGED <<head, scan, scope, map, receipts, report>>

ReplayStep ==
    \/ BeginGate \/ BeginShard
    \/ ReadLaunch \/ BuildBaseline \/ BuildOutcome \/ WriteReceipt \/ WriteVerdict

------------------------------------------------------------------------------
(* The aggregate.                                                          *)

\* The checks on one row: all horizons in order, attempted iff the baseline is
\* COMPLETE.
RowHolds(row) ==
    /\ row.baseline \in {"COMPLETE", "UNVERIFIED"}
    /\ [i \in DOMAIN row.cells |-> row.cells[i].horizon] = Horizon
    /\ \A i \in DOMAIN row.cells :
          row.baseline = "UNVERIFIED" <=> row.cells[i].status = "NOT_ATTEMPTED"

\* Where the rows of some receipts stand, and what stands there.
Places(files) == UNION {{f} \X DOMAIN files[f].rows : f \in 1..ShardFiles}
RowAt(files, place) == files[place[1]].rows[place[2]]

\* There are as many rows as launches, and sorted they are numbered 1, 2, ...
CoversScope(files) ==
    /\ Cardinality(Places(files)) = ExpectedLaunches
    /\ {RowAt(files, place).ordinal : place \in Places(files)} = 1..ExpectedLaunches
Joined(files) ==
    [n \in 1..ExpectedLaunches |->
        RowAt(files, CHOOSE place \in Places(files) : RowAt(files, place).ordinal = n)]

\* INPUT_DIR: some receipts that jobs have left, the same one perhaps twice.
Aggregate ==
    /\ report = <<>> /\ job.step = "idle"
    /\ \E files \in [1..ShardFiles -> receipts] :
          /\ \A f \in 1..ShardFiles : files[f].pass
          /\ CoversScope(files)
          /\ \A n \in 1..ExpectedLaunches : RowHolds(Joined(files)[n])
          /\ report' = Joined(files)
    /\ UNCHANGED <<head, scan, scope, map, job, receipts, passed>>

Mine ==
    /\ head < MaxBlock
    /\ head' = head + 1
    /\ UNCHANGED <<scan, scope, map, job, receipts, passed, report>>

Init ==
    /\ head = ToBlock + Delay
    /\ scan = Unscanned
    /\ scope = <<>> /\ map = <<>> /\ report = <<>>
    /\ job = Idle
    /\ receipts = {} /\ passed = {}

Next == BeginScan \/ ScanStep \/ FreezeMap \/ ReplayStep \/ Aggregate \/ Mine

Spec == Init /\ [][Next]_vars

\* The scan is one loop of awaits: the program takes its next step.  Nothing is
\* assumed of how often the provider refuses.
FairSpec == Spec /\ WF_vars(ScanStep)

------------------------------------------------------------------------------
(* Types.                                                                  *)

CellType == [horizon : {Horizon[i] : i \in DOMAIN Horizon}, at : 0..MaxBlock,
             status : {"COMPLETE", "UNVERIFIED", "NOT_ATTEMPTED"},
             evidence : BOOLEAN]
RowType(row) ==
    /\ row.ordinal \in 1..ExpectedLaunches /\ row.launch \in Launch
    /\ row.baseline \in {"COMPLETE", "UNVERIFIED"}
    /\ \A i \in DOMAIN row.cells : row.cells[i] \in CellType

TypeOK ==
    /\ head \in 1..MaxBlock
    /\ scan \in [step : {"idle", "scan", "threw"}, cursor : FromBlock..(ToBlock + 1),
                 span : MinSpan..MaxSpan, retries : 0..MaxRetries, logs : SUBSET Log,
                 lagged : BOOLEAN]
    /\ Len(scope) \in {0, ExpectedLaunches} /\ Range(scope) \subseteq Log
    /\ Len(map) \in {0, ExpectedLaunches}
    /\ job.program \in DOMAIN Program \cup {"none"}
    /\ job.step \in {"idle", "launch", "baseline", "outcome"}
    /\ passed \subseteq Gate
    /\ \A receipt \in receipts : \A i \in DOMAIN receipt.rows : RowType(receipt.rows[i])

------------------------------------------------------------------------------
(* What the archive says, apart from how it was read.                      *)

UsdKnown(method, l, b) == Market[l].base = "usdt0" \/ b \in Priced[method]
ArchiveBaseline(program, l) ==
    IF /\ Market[l].pool /\ Market[l].base # "other"
       /\ UsdKnown(Program[program].calibration, l, BlockOf(l) + Delay)
    THEN "COMPLETE" ELSE "UNVERIFIED"
ArchiveCell(program, l, horizon) ==
    LET at == ObservedBlock(l, horizon) IN
    CASE ArchiveBaseline(program, l) = "UNVERIFIED" -> "NOT_ATTEMPTED"
      [] ArchiveBaseline(program, l) = "COMPLETE" /\ Market[l].entry
         /\ (at \in Sells[l] => UsdKnown(Program[program].valuation, l, at)) -> "COMPLETE"
      [] OTHER -> "UNVERIFIED"

\* The report has every launch of the range once, under the implementation that
\* was live, and each of its cells is what the archive says: no failed call has
\* become market evidence, no launch was skipped, doubled or exchanged between
\* shards, whatever lagged, failed or was run again
\* (docs/HISTORICAL_FULL_REPLAY_R1.md).
ReportIsTrue ==
    report # <<>> =>
        /\ {report[n].launch : n \in DOMAIN report} = Launch
        /\ Len(report) = ExpectedLaunches
        /\ \A n \in DOMAIN report :
              LET row == report[n] IN
              /\ row.implementation = Implementation[BlockOf(row.launch) + Delay]
              /\ row.baseline = ArchiveBaseline("shard", row.launch)
              /\ \A i \in DOMAIN Horizon :
                    row.cells[i].status = ArchiveCell("shard", row.launch, Horizon[i])

\* A gate that passed was earned by every cohort on the archive's own evidence,
\* none of it of a horizon that was not over.
GateIsEarned ==
    \A gate \in passed : \A i \in DOMAIN Cohort :
        /\ ArchiveBaseline(gate, Cohort[i].first) = "COMPLETE"
        /\ \A h \in DOMAIN Program[gate].horizons :
              /\ ArchiveCell(gate, Cohort[i].first, Program[gate].horizons[h]) = "COMPLETE"
              /\ ObservedBlock(Cohort[i].first, Program[gate].horizons[h]) <= head - Confirmations

\* What the programs publish of the past is what the archive holds of it.
VerdictsAreTrue == ReportIsTrue /\ GateIsEarned

\* However the provider refuses and fails, a scan ends; and one whose answers
\* were whole ends in the frozen scope unless it gave up at the smallest span:
\* growing and shrinking the span skips no block and never circles.
ScanEnds ==
    scan.step = "scan" ~>
        \/ scope # <<>>
        \/ scan.step = "threw" /\ (scan.lagged \/ scan.cursor <= ToBlock)
==============================================================================
