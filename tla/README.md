# Sentry forensic gate: TLA+ models, checks and proofs

This directory models the program in `src/src`: a process that ingests the
launches of the Sentry factories from an EVM chain into SQLite, builds a
point-in-time baseline and later outcomes for each of them, decides about them
without look-ahead, and may buy one of them, once, with a capped amount.

Paths below are relative to `src/src` unless they say otherwise.

Modelled, every step that changes state:

* **ingestion** (`runtime/sentryTruth.ts`, `db/sqliteStore.ts`): an
  append-and-rewind ledger kept equal to a chain that forks;
* **research** (`runtime/executableBaseline.ts`, `runtime/forwardOutcomes.ts`):
  a baseline and its outcomes, read over many calls from a chain that forks, into
  tables that ingestion rewinds;
* **the creator signal** (`runtime/creatorSignalEval.ts`, `forensic/*`,
  `evaluation/*`): decisions about a launch from what was known of its creator in
  time, and their evaluation;
* **the live canary** (`canary/cycle.ts` with the buy, entry-approval and revoke
  stores and runtimes, and `canary/roundTrip*.ts`): approve, buy, revoke, approve
  the sale, sell, each at most once, across crashes, lost answers and a second
  process;
* **the canary's wallet** (`canary/swapIntent.ts`, the approval intents,
  `canary/viemCanaryExecutor.ts`): what the five transactions spend, approve and
  yield while blocks reprice the pool, take time and are replaced;
* **the historical replay** (`historical*Cli.ts`, `outcome/historicalRedstone*`,
  `tsunami/historicalRedstone*` and `../scripts/historical-full-replay-*.mjs`): scope,
  authority map, shards, gates and aggregate over an archive node that fails,
  refuses and lags.

## 1. Inventory

### Parts, state and operations

| Part | Source | State | Operations |
|---|---|---|---|
| Sentry truth | `runtime/sentryTruth.ts` | locals of one sync | sync: compare checkpoint and guard, rewind, repair provenance, read/verify/store/commit batches |
| Launch source | `sentry/viemSource.ts`, `authority/sentryAuthority.ts` | caches only | head, block hash, launches of a range, authority |
| Ledger store | `db/sqliteStore.ts`, `db/schema.ts` | launches, facts, edges, checkpoint, baselines, outcomes, decisions | put (insert, duplicate, conflict), lists, rewind in one transaction |
| Provenance graph | `graph/provenance.ts` | none | fact of a launch, projection of the facts to edges |
| Executable baseline | `runtime/executableBaseline.ts`, `tsunami/*`, `shadow/*` | rows of the ledger store | one batch of quotes at the decision block of each launch |
| Forward outcomes | `runtime/forwardOutcomes.ts`, `outcome/*` | rows of the ledger store | boundary block of each horizon, observation, classification |
| Creator outcome join, creator signal | `forensic/creatorOutcome.ts`, `runtime/creatorSignalEval.ts`, `evaluation/creatorSignal*.ts` | evaluation tables | features of a decision from outcomes matured before it; evaluation |
| Fast vet | `evaluation/fastVet*.ts` | none | PASS, REJECT or UNKNOWN for a baseline |
| Authority epochs | `authority/*` | none | which infrastructure is trusted at which block |
| Canary buy cycle | `canary/cycle.ts`, `canary/store.ts` | `canary_actions` | take up what is open, vet, quote, reserve, sign, broadcast, reconcile |
| Entry approval | `canary/entryApproval*.ts` | `canary_entry_approval_actions` | the same for the ERC-20 approval that precedes the buy |
| Entry approval revoke | `canary/entryApprovalRevoke*.ts` | `canary_entry_approval_revoke_actions` | the same for the revoke; closes the entry approval |
| Round trip | `canary/roundTrip*.ts`, `approvalStore.ts`, `exitStore.ts` | two more tables of the same kind | exit approval and exit of an included buy |
| Canary executor | `canary/viemCanaryExecutor.ts` | wallet, network | preflight, sign, broadcast, receipt, allowance |
| Intents | `canary/swapIntent.ts`, `roundTrip.ts`, `approval.ts`, `entryApproval.ts`, `entryApprovalRevoke.ts` | none | ids, amounts, slippage and deadline of the five transactions; which of them belong together |
| Gate protocol, receipts, runner | `protocol/hardGate.ts`, `evidence/*`, `runtime/runner.ts` | none | hashing and decision helpers |
| Historical replay | `historical*Cli.ts`, `outcome/historicalRedstone*`, `tsunami/historicalRedstone*`, `../scripts/historical-full-replay-*.mjs` | committed fixtures, shard receipts | scan the logs, freeze scope and authority map, replay a range, four gates, join the receipts |
| Command lines, checks | `*Cli.ts`, `../scripts` | none | process start, tests |

### Interactions

`canarySniperCli.ts` (109-162) runs, in one process and one after the other,
`syncSentryTruth`, `syncExecutableBaseline`, `syncForwardOutcomes`,
`syncCanarySniper` and the round trip, sleeps, and starts again. An exception
leaves the loop and a supervisor starts the process anew; nothing survives but
SQLite, the chain and the wallet. Other programs (`cli.ts`,
`researchRuntimeCli.ts`, the outcome and creator CLIs) open the same ledger
file, and nothing but SQLite keeps two canary processes from opening the same
canary tables.

* Ingestion -> provenance: every stored launch gets a fact, every batch
  replaces the edges.
* Ingestion -> baseline, outcomes: a rewind deletes the rows of the launches it
  deletes (`ON DELETE CASCADE`), under the feet of the later stages. The canary
  tables have no such key: they outlive what they refer to.
* Baseline -> canary: the pending baselines are the candidates; a frozen
  candidate (`parent_buy_action_id`) is looked up again on every cycle.
* Buy -> round trip: an INCLUDED buy is what the exit approval and the exit are
  reserved for (`parent_buy_action_id`, a foreign key); the five tables share
  their row states, the wallet and the router.
* Entry approval -> buy -> revoke: three tables without foreign keys, related by
  ids and by the ERC-20 allowance on the chain.
* All five canary tables -> the executor: it computes on the balances, allowances
  and the pending nonce of one wallet, read at the head of the moment.
* Baseline and outcome pipelines -> historical replay: the same functions over
  blocks of the past, with other sources of price. Its jobs share files only: a
  scope, a map, and the receipts that the aggregate joins.

### What is hard, and what makes each part correct

| Part | Hard behaviour | Correct when |
|---|---|---|
| Ingestion | the chain forks between any two RPC reads; a crash between two writes; a fork deeper than the guard; replay of a half-stored batch | no confirmed launch is skipped or left over; guard and checkpoint lie on one fork; history is only touched above a canonical guard; it catches up |
| Provenance | a rewind or a crash leaves facts or edges behind | facts and edges are those of the stored launches whenever a batch begins or commits |
| Canary | two processes; crash between sign, broadcast and their marks; a broadcast that throws although it was accepted; select and update that are not one statement; an allowance that changes between read and use; a candidate that expires or disappears after its approval | one buy, one approval, one revoke; rows say what the chain did; nothing signed is sent twice; a parked reservation stays parked; no approval is left behind; what is mined is recorded |
| Wallet | the price moves between quote, preflight, signature and block; a block is replaced after its transaction was recorded; two transactions pending together | no more is spent or approved than was quoted as $1; a swap lands while its quote is young and within its slippage; what the wallet held before is not sold; no nonce is used twice |
| Historical replay | a failed call that looks like an absence; a log index that lags; a span that grows and shrinks; shards of two splits, or one twice, in one directory | what is published of the past is what the archive holds; the scan ends, and with whole answers it ends complete |
| Baseline, outcomes | the chain forks between two reads of one receipt; a binary search that mixes two forks; rows rewound between selection and write; receipts above the checkpoint | a stored batch or outcome is evidence of one fork and hangs on a stored launch; its block is the first at or after the horizon; a rewind leaves nothing orphaned behind; an outcome that is due is built |
| Creator signal, fast vet | the ledger and the chain change between the reads of one evaluation; a launch without its fact; outcomes observed after the decision block | an evaluation rests on one chain and counts every launch; no look-ahead: what the ledger gains later changes no decision |

`PROJECT.json` lists the hazards one by one with the line where each bites and
the properties about it.

## 2. Modules

| Module | Models | Kind |
|---|---|---|
| `Chain` | head, block hashes and deployments, as the RPC node shows them | external environment |
| `SentryTruth` | ingestion over the ledger tables, on `Chain` | detailed specification |
| `SentryTruth_proofs` | types, guard, rewind, ledger and provenance of `SentryTruth` | proofs |
| `Research` | baseline and outcomes over a ledger that rewinds, on `Chain`; ingestion reduced to its comparison and its commit | detailed specification |
| `Research_proofs` | types, batches and receipts of `Research`, what hangs on what, and what its rewind leaves | proofs |
| `CreatorJoin` | the creator's past at a decision, the fast vet, the candidate rule | pure operators |
| `CreatorSignal` | the evaluation, read by read, and the verdict of the canary on the same ledger, on `Chain` and `CreatorJoin`; the writers one step each | detailed specification |
| `CreatorSignal_proofs` | types, fork, universe and look-ahead of `CreatorSignal` | proofs |
| `OneShot` | what one canary table promises: one holder, durable before it is sent, sent once | abstract specification |
| `CanaryRow` | the row states the canary stores share | data |
| `CanaryTx` | the life of one canary transaction from reservation to receipt, as five stores and their runtimes share it | actions the next two compose |
| `RoundTrip` | exit approval and exit of an included buy; chain, owner, buy cycle and second process as environment | detailed specification |
| `CanaryEntry` | the canary cycle: buy, entry approval, revoke; chain, owner, ledger and second process as environment | detailed specification |
| `CanaryTx_proofs` | the life of a transaction, for any module built on `CanaryTx`; its step as a step of `OneShot` | proofs |
| `CanaryEntry_proofs`, `RoundTrip_proofs` | theorems about the two, with the refinement of `OneShot` | proofs |
| `SwapIntent` | the five intents: amounts, bounds, identities | pure operators |
| `Wallet` | both cycles of one process in amounts, on `CanaryTx`, `Chain` and `SwapIntent` | detailed specification |
| `Wallet_proofs` | amounts, bounds, holdings and nonces of `Wallet` | proofs |
| `HistoricalReplay` | scan, map, gates, shards and aggregate over an archive | detailed specification |
| `HistoricalReplay_proofs` | scope, receipts, report and gates of `HistoricalReplay` | proofs |
| `MCSentryTruth`, `MCResearch`, `MCCreatorSignal`, `MCCanaryEntry`, `MCRoundTrip`, `MCWallet`, `MCHistoricalReplay` | values of the constants for TLC | instances |

### 2.1 `Chain` and `SentryTruth`

*The chain.* A block hash is the pair (height, fork); a reorganisation from
height p up gives these heights a fork that was never used before. Two hashes of
one height are thus equal exactly when the blocks and all their ancestors are,
which is all `sameHex` is used for. Deployments of replaced blocks are mined
again at another replaced height or return to the mempool. A chain that returns
to an earlier fork is not modelled (listed as a hazard without a property).

*State.* `rows` is the `launches` table (the block and hash under which a launch
was observed, or none), `facts` and `edges` the provenance tables, `checkpoint`
the `chain_checkpoints` row with its guard columns. `pc` names the next RPC read
of the sync in progress; `target`, `from`, `to`, `boundary`, `launches`, `todo`
and `guardHash` are its locals.

*Steps.* Each action is one RPC read with the store calls up to the next one,
in the order of the code:

| Action | Lines of `runtime/sentryTruth.ts` |
|---|---|
| `BeginSync` | 25-35: head, target, stored checkpoint |
| `ReadCheckpointHash`, `RewindToGuard`, `HaltAtGuard` | 37-52; `REORG_DEPTH_EXCEEDED` ends the sync |
| `RepairFacts`, `ReplaceEdges` | 118-125, at the start and after each batch |
| `BeginBatch`, `CatchUp`, `CheckLaunchBlocks`, `CheckAfterRead` | 70-79 and 127-134 |
| `PutLaunch`, `PutFact`, `AllStored` | 81-87; insert, duplicate or `LAUNCH_IDENTITY_CONFLICT` |
| `ReadGuardHash`, `CheckBeforeCommit` | 90-96; a changed boundary rewinds the batch |
| `AuthorityHolds`, `AuthorityLost`, `CommitCheckpoint` | 97-104 |
| `Abort` | an RPC call that throws, or a crash, anywhere |

`PutLaunch` and `PutFact` are two steps because a crash between them leaves a
launch without a fact. The three `eth_getLogs` queries of `catchUp` are one
step: a fork change between them also changes the hash of the last block of the
range, which is read again afterwards. The epoch search inside `assertAuthority`
is one outcome, holds or throws.

*History variables.* `scanned[b]` is the fork under which a batch last read
height b. `unseenFork` becomes true when the chain forks in one of the two
windows that no hash comparison covers: above a canonical checkpoint while a
failed sync has left rows there, or at a height already committed (or already
compared) while the same sync goes on. Neither is read by an action.

### 2.2 `OneShot`, `CanaryRow`, `CanaryTx`, `CanaryEntry`

*State.* `rows[a]` is the row of an action: `"entry"` and `"revoke"` are
singletons (`singleton_key` is UNIQUE), and there is one buy per candidate with
a partial UNIQUE index over committed buys. A row is its state column and
whether it holds a signed transaction. `parent` is the frozen candidate in the
entry row. `tx` and `sent` are what the network knows, `allowance` is the WETH
allowance of the router (zero, the exact entry amount, another value), and
`baseline[c]` says whether a candidate is fresh, too old, or deleted by a ledger
rewind. `local[p]` holds the step of
process p and the row it works on, `choice[p]` its candidate.

*Steps.* A step ends at an RPC read or an SQL write, so a second process, the
network and the wallet's owner act in between. Where a store selects a row and
then updates it by key, this is two steps (`Halt`/`HaltUpdate`,
`Observe`/`Include`, `ReadReceipt`/`MarkReverted`); `markSigned`,
`markSubmitted` and `markCleanupTerminal` are compare-and-set and one step. The
allowance re-read before an approval is signed (`Recheck`) and the write of the
signature (`Sign`) are two.

| Actions | Code |
|---|---|
| `TakeUpBuy`, `TakeUpRevoke`, `TakeUpEntry`, `Reconcile` | `cycle.ts` 62-150, `reconcileOne`, `reconcileEntryApproval`, `reconcileRevoke` |
| `BeginCleanup`, `ExpireParent`, `BeginVet` | `cycle.ts` 155-215 |
| `SkipCandidate`, `PassCandidate`, `RejectParent`, `GiveUp` | `cycle.ts` 228-356 |
| `AdvanceEntry`, `PreflightEntry`, `ReserveEntry`, `ReadLiveAllowance` | `entryApprovalRuntime.ts`, `entryApprovalStore.ts` |
| `BuyOnly`, `PreflightBuy`, `ReserveBuy` | `cycle.ts` 354-400, `store.ts` 104-133 |
| `CanaryTx`: `Sign`, `Broadcast`, `Submit`, `ReadReceipt`, `Observe`, `MarkIncluded`, `MarkReverted`, `Halt`, `HaltUpdate` | the life of one transaction, shared by the runtimes; where they differ a parameter says so (`unparked`: whose row is not parked when signing throws; `evidence`: what is demanded of the value read after a success) |
| `Recheck`, `AllowanceToSign`, `AllowanceToInclude`, `Include` | what buy, entry approval and revoke demand on that way |
| `Recover`, `AdvanceRevoke`, `ReadRevokeAllowance`, `PreflightRevoke`, `ReserveRevoke`, `ReadPostAllowance`, `CloseEntry` | `cleanupCanaryE0EntryApproval`, `entryApprovalRevokeRuntime.ts` |
| `Crash`, `SignFails`, `BroadcastFails`, `ReadFails` | exceptions and crashes; a broadcast that throws may have been accepted |
| `MineTx`, `OwnerApproves`, `BaselineAges` | environment |

*Abstractions.* The verdict of fast vet, the quote and every check of fees,
gas, deadlines and price are inputs: any outcome is possible
(`GiveUp`). Transactions of one wallet may be mined in any order, which allows more
than the network does, and a mined one stays mined; amounts, prices, nonces and
reorganisations are in `Wallet`. Drift errors on immutable
identities and digests are exceptions (`Crash`, `GiveUp`). A launch whose
baseline is rebuilt counts as another candidate. The dry run inserts SKIPPED rows
only, which `SkipCandidate` covers. `withApproval` is what `liveAuthorization.ts`
leaves of a configuration: a live process has the whole approval stack or none of
it. It is chosen once, from `Deployments`, and never changes.

*Refinement.* `BuySlot`, `EntrySlot` and `RevokeSlot` instantiate `OneShot` with
`holder` read from the rows (a row holds the slot when it is neither absent nor
SKIPPED, or has a signature), `durable` from the signature columns and `sent`
from the network. `OneOfEach` states that `CanaryEntry` implements `OneShot` in each
of the three.

### 2.3 `RoundTrip`

*State.* The rows `"approval"` and `"exit"` (`parent_buy_action_id` is UNIQUE in
both tables), `bought` (is the buy's row INCLUDED?), the wallet as the chain has
it (`allowance` of the router for the bought token, whether the acquired `tokens`
are there, `weth` in units of what the exit yields), `before`, the WETH balance
stored with the exit row, and `noted[p]`, the balance a process has read and not
stored yet.

| Actions | Code |
|---|---|
| `BeginApproval`, `TakeUpApproval`, `TakeUpExit` | `roundTripRuntime.ts` 73-128, `reconcileApproval`, `reconcileExit`; possible in both calls of one wiring pass |
| `AskQuote`, `Quote`, `BeginExit`, `Blocked` | `roundTripWiring.ts` 70-134: the first call reports `NEEDS_EXIT_QUOTE`, the second has the quote, and the tables may have changed in between |
| `PreflightApproval`, `ReserveApproval`, `PreflightExit`, `ReserveExit`, `GiveUp` | `executeApproval`, `executeExit`, `approvalStore.ts` 72-172, `exitStore.ts` 65-126 |
| `Recheck`, `Transact`, `Include`, `Evidence` | signing, broadcast and reconciliation through `CanaryTx`; signing that throws parks either row |
| `BuyRecorded`, `MineTx`, `OwnerMoves` | environment: the buy cycle, the network, the owner |

*Deployment.* `Init` chooses one: all processes run, next to an owner who acts, or one
runs (`Lone`), the others are `Away`, and the owner leaves the wallet alone. Safety is
stated of both, `MinedIsRecorded` of the second: an owner or another process can make an
outcome impossible to record (two hazards without a property say how).

*Composition.* The buy enters as `bought`. The cycle and the round trip share no
table but the buy's, and no allowance (one is of WETH, the other of the bought
token), so they are checked apart. With several processes `BuyRecorded` may take the
INCLUDED state back, as `HaltUpdate` in `CanaryEntry` can. A quote and the age
checks of the exit before it is signed may come out either way. `OneOfEach` states
the refinement of `OneShot` for its two slots.

### 2.4 `Research`

*State.* `rows`, `baselines`, `outcomes` and `checkpoint` are the four tables the
two syncs and the rewind share: a row is the (height, fork) pair of its block
number and hash, absent at height 0. A batch also keeps its status and the launch
row it was built from; a receipt the launch row and the decision point its
`baselineId` is derived from. `truth`, `baseliner` and `collector` are the locals
of the three syncs. `turn` is the deployment: the worker whose turn it is in the
one process of `researchRuntimeCli.ts` and `canarySniperCli.ts`, or `"any"` when
`cli.ts`, `baselineCli.ts` and `forwardOutcomeCli.ts` share the file.

| Actions | Code |
|---|---|
| `BeginTruth`, `TruthTooEarly`, `HaltAtGuard`, `Ingest`, `IngestFails` | `sentryTruth.ts` 25-108 in two moments: the comparison of the checkpoint with its rewind, and the range that is stored and committed, or rewound when authority is lost or the boundary changed |
| `BeginBaselines`, `FinishBaselines` | `syncExecutableBaseline`: the head, the pending launches in order, the end |
| `ReadDecisionHash`, `ReadMarket`, `CheckDecisionPoint`, `PutBaseline` | `buildBaselineBatch`: hash, reads by block number, hash again, insert under the foreign key |
| `BeginOutcomes`, `ReadConfirmedPoint`, `ListBatches`, `FinishHorizon`, `FinishOutcomes`, `GetLaunch` | `syncForwardOutcomes`: confirmed head, horizons in order, `remaining` across them |
| `ReadPoints`, `ReadHighPoint`, `Probe`, `ReadPredecessor`, `ReadMarketState` | `buildForwardOutcome`, `findFirstBlockAtOrAfterTimestamp` probe by probe, `captureHorizonBoundary` |
| `RecheckPoints`, `RecheckPredecessor`, `RecheckObserved`, `PutOutcome` | `assertEvidenceStable`, in its order, then the insert |
| `Abort` | a call that throws or a crash, anywhere; one process begins again with ingestion |

*Abstractions.* `Promise.all` of two points is one step: the two are compared with
hashes stored earlier, and a fork between the reads that leaves both as stored
lies above both. The market, the calibration and the quotes of one receipt are
addressed by one block number; one read that notes its fork in `seen` stands for
each of them, because the property must hold for whichever of them it is. Time is
`BlockTime` per block plus `Shift` of the fork: a replaced block may be earlier or
later than the one it replaces, but earlier than the next height of the fork that
replaces it. `putBaselineBatch` and `putOutcome` have a branch for an identical or a conflicting
row; with one writer per table it is not reached, so it is not in the model.
Ingestion proper, with batches, guards and provenance, is `SentryTruth`.

*History.* `from`, `seen` and `above` in the records, and `unseenFork`, which
becomes true when a fork lies in a window no comparison covers
(`EscapesComparison`). No action reads them.

### 2.5 `CreatorJoin`, `CreatorSignal`

*Operators.* `CreatorJoin` translates `projectCreatorOutcomeFeatures` for one
target and decision block: the prior launches of the creator, in block and log
order, and of those the receipts observed by the decision block. What the code
counts is kept as the set that is counted. `Coverage` is `classify` after the
historical seed was added; `FastVet` is `evaluateFastVet`; `CandidateRejects` is the
rule the evaluation tests.

*State.* The tables `rows`, `facts`, `baselines` and `outcomes` (24h), and the locals
`eval` of one evaluation: the as-of point, the tables as read so far.

| Actions | Code |
|---|---|
| `BeginEvaluation`, `ReadSnapshot`, `ReadBaselines`, `ReadOutcomes` | `creatorSignalEval.ts` 44-56 and the store: one statement for launches with facts, two more |
| `CheckUniverse`, `CheckOutcomes`, `CheckAnchor`, `EndEvaluation` | lines 57-162: rows without facts, decision points, referenced outcomes, the as-of block again |
| `PutLaunch`, `PutFact`, `RewindFrom`, `PutBaseline`, `PutOutcome` | the writers, one step each, with what `SentryTruth` and `Research` show of their results |

*Abstractions.* Time is measured in blocks. Writers keep the order of the chain
and write a fact before the next launch. After the evaluation's last read of the
ledger no writes are taken: they could as well come after the evaluation; forks
still happen until the last RPC read. At most `Interference` writes, blocks and
forks fall into one evaluation. `LiveVerdict` is what the canary cycle would
decide from the ledger of the moment; it reads the tables in one step, because
the cycle runs after the writers of its own process and not beside them. It is
UNKNOWN while a baseline has no fact, when the projection throws. Descriptive metrics, digests and
receipts without a policy version, which nothing writes any more, are left out.

### 2.6 `SwapIntent`, `Wallet`

*Operators.* `SwapIntent` translates the builders and the identity checks of the
intents. An id is a digest of the fields that identify an action; here it is the
tuple of them. `MinimumOut` rounds down as bigint division does; `Buildable` is what
`buildCanarySwapIntent` demands, `MatchesParentBuy` and `CoversBuy` are the two ways
an entry approval may belong to a buy (equal in every field, or only in what the
router will take), `ApproveExact` is the rule that an approval replaces nothing but
an allowance of zero.

*State.* `history[b]` is the wallet after block b: WETH, tokens of the launch, the
two allowances of the router, and the nonce. `minedAt[a]` is the block that holds a
transaction. `intent`, `nonce`, `before` and `after` are columns of the rows;
`rows`, `tx`, `sent` and `local` are those of `CanaryTx`. `plan[p]` is what a process
has read and built since it began to quote.

| Actions | Code |
|---|---|
| `TakeUp` | `cycle.ts` 62-150 and `roundTripRuntime.ts` 73-128: what is open comes first |
| `BeginBuyQuote`, `BeginExitQuote`, `Price`, `Plan` | number and hash of the head; calibration and quotes at that number; the hash again, and the deadline from the head's clock |
| `ReserveEntry`, `ReserveBuy`, `ReserveApproval`, `ReserveExit`, `ReserveRevoke` | preflight of the executor, identity checks of the store, insert |
| `SkipBuy`, `BeginCleanup`, `AlreadyClean`, `CloseEntry` | `cycle.ts` 155-215, `entryApprovalRevokeRuntime.ts` |
| `Recheck`, `SignNext` | `sign`, `signApprovalBound`, `signEntryApprovalRevoke`: everything is read again, then the nonce at `'pending'` |
| `Transact`, `ReadOutcome`, `Include` | through `CanaryTx`; the balance of the bought token is read at the head and stored later |
| `GiveUp`, `ProcessFails` | a read that fails, a check that leaves without a trace, a crash |
| `EmptyBlock`, `BlockWith`, `Replace` | environment: a block with at most one of the wallet's transactions, the next by nonce; blocks from a height on are replaced, and their transactions are pending again |

*Abstractions.* One process and one candidate, with the full stack; who may act when
is the subject of `CanaryEntry` and `RoundTrip`. A preflight and the insert behind it
are one step, because the executor reads everything again before it signs. Only swaps
can fail on the chain. The wallet's owner does nothing here. Fee and gas caps and the
bytes of the call data are left out.

*What the model shows beside its properties.* A transaction is recorded from its
first receipt, so it can be mined once more in another block, at another price. If
that happens to the buy, `output_balance_after` is stale, the exit sells what the
*first* block gave, and tokens the wallet held before can go with it: `HoldingsKept`
says that this is the only way. If it happens to the entry approval after its row
was closed, an allowance of WETH is left. A revoke and a buy may be pending
together; the pending nonce keeps them in order.

### 2.7 `HistoricalReplay`

*State.* `scan` holds the locals of the log scan, `scope` and `map` the two frozen
fixtures, `job` the locals of the one replay or gate program that runs, `receipts`
the shard receipts written so far, `passed` the gates with verdict PASS, `report` the
rows of the aggregate.

| Actions | Code |
|---|---|
| `BeginScan`, `ReadChunk`, `RetryChunk`, `ShrinkChunk`, `FreezeScope` | `discoverLaunches` of `historical-full-replay-scope-r1.mjs`: span doubled after an answer and halved after an error, patience for a refusal of the rate; count and ends of the range |
| `FreezeMap` | `historical-full-replay-authority-map-r1.mjs`: the committed scope is checked again (`LoadsFrozenScope`), cohorts partition the scope and begin with their reviewed launch |
| `BeginGate`, `BeginShard`, `ReadLaunch`, `BuildBaseline`, `BuildOutcome`, `WriteReceipt`, `WriteVerdict` | the loop of `historicalFullReplayCli.ts` and of the four gate programs |
| `Aggregate` | `historical-full-replay-r1-aggregate.mjs`: the receipts of a directory, joined and checked row by row |
| `Mine` | environment |

*Abstractions.* The five programs are one loop over launches; a program is a record
that says what it takes for the launch, which source calibrates the notionals of the
baseline, which one values the outcome, which horizons are asked for, what a horizon that
is not over is worth, and whether the observed block has to be the reviewed one
(`ObservedBlockDrifts`). A read answers what the archive holds or
fails (`Reads`); a log index may answer with less (`ReadChunk`). The past does not
fork. Jobs share nothing but the receipts they leave, so one job at a time, each free
to die at any read, reaches every directory that parallel ones reach. Time is
counted in blocks. The ends of the range, the cohorts and the horizons are constants.
A sort is what it returns: the one sequence of the kept logs in chain order (`Sorted`),
the rows of all receipts by ordinal (`Joined`).

*What the model shows beside its properties.* An oracle without a price at the
decision block throws, and the shard leaves no receipt, while at the end of a horizon
the same absence is an UNVERIFIED cell. The scope keeps the log of the lowest index
of a launch, the ingestion source prefers the specialised event: a launch whose
generic log comes first can never be replayed (identity drift, it fails closed). So
does a launch with an upgrade of the proxy between its block and its decision block.
In the instance the pools price nothing late, so the gates that value by
pools never pass there.

## 3. Runs

| Run | Asks | Properties |
|---|---|---|
| `truth_safety` | What does the checkpoint promise of the ledger, whatever the chain does between reads, and does ingestion reach the confirmed head once it stands still? | `TypeOK`, `GuardCoherent`, `NothingMissed`, `ExactUnlessUnseen`, `ProjectionExact`, `EdgesReferToLedger`, `RewindIsJustified`, `CatchesUp` |
| `truth_replay_after_fork` | Is the replay after a crash before the commit safe, as documented? | `LedgerExact`, violated |
| `truth_fork_between_batches` | Is the checkpoint hash re-read before every advance, as documented? | `LedgerExact`, violated |
| `research` | Are batches and receipts evidence of one fork, whatever forks, rewinds and writes fall between the reads, in one process and in three? | `TypeOK`, `BaselineOfOneFork`, `OutcomeOfOneFork`, `EvidenceChain`, `RewoundUnlessAhead` |
| `research_loop` | Is every outcome that is due built in the end, and what can keep the loop from it? | `OutcomesFollow` |
| `research_ahead_of_checkpoint` | Does the rewind delete evidence by its own block, as documented? | `EvidenceRewound`, violated |
| `creator_signal` | Does an evaluation rest on one chain and count every launch, and is a verdict final? | `TypeOK`, `EvaluationOfOneFork`, `UniverseComplete`, `VerdictIsEarned`, `VerdictIsFinal` |
| `canary_two_processes` | Do two processes, with or without the approval stack, crashes, lost answers and an owner who changes the allowance leave each table a one-shot slot? | `TypeOK`, `RecordsAreTrue`, `OneOfEach`, `ParkedForGood` |
| `canary_one_process` | In the deployed form, can an approval be revoked under a buy, or be left behind? Is a mined transaction recorded, and a used-up approval closed? | `BuyIsCovered`, `NothingLeftBehind`, `MinedIsRecorded`, `ApprovalIsClosed` |
| `roundtrip` | Do two processes and an owner who approves, sells and moves WETH leave exit approval and exit one-shot and in order? Does one process alone record what was mined? | `TypeOK`, `RecordsAreTrue`, `ExitFollowsApproval`, `OneOfEach`, `MinedIsRecorded` |
| `wallet` | What do the five transactions do to the wallet when the price moves and a block is replaced at any moment? | `TypeOK`, `NeverOverspent`, `LandsAsQuoted`, `HoldingsKept`, `NoNonceTwice` |
| `historical_replay` | Is what the replay publishes what the archive holds, whatever the provider does and whichever receipts are joined? | `TypeOK`, `VerdictsAreTrue`, `ScanEnds` |

What the properties say, and what they show:

* `GuardCoherent`: the guard of a canonical checkpoint is canonical. The guard
  hash is read between two reads of the boundary, and it is their comparison that
  makes it safe: without it the property fails.
* `NothingMissed`: every height up to the checkpoint was read, and what was read
  from a block that is still there is in the ledger.
* `ExactUnlessUnseen`: up to a canonical checkpoint the ledger is *exactly* the
  chain, except for forks in the two windows of `unseenFork`. With `LedgerExact`
  violated in the two other runs, this says that those windows are the only ones.
* `ProjectionExact`, `EdgesReferToLedger`: provenance is repaired after any crash
  before it matters; a rewind reaches every table.
* `RewindIsJustified`: a committed row is only touched above a canonical guard
  and under an orphaned checkpoint.
* `CatchesUp`: neither a crash nor a shallow fork wedges ingestion.
* `BaselineOfOneFork`: every value of a batch was read on the fork whose decision
  hash it names; two reads of the hash around the others are enough.
* `OutcomeOfOneFork`: the same for a receipt, and while its block is canonical so
  are the launch and the decision point, and the block is the first from the
  decision block on that reaches the horizon. The search itself may have mixed
  two forks and the check of the predecessor is what saves it. When the answer is
  the decision block itself there is no predecessor to look at, and none is
  needed.
* `EvidenceChain`: no batch or receipt without its launch in any deployment, also
  when a rewind falls between the last read and the insert (the foreign key
  decides; `NothingStranded`); in one process a batch is of the stored launch, a
  receipt of the stored launch and batch.
* `RewoundUnlessAhead`: under a canonical checkpoint no batch or receipt is
  orphaned, except those stored ahead of the checkpoint (see Findings).
* `OutcomesFollow`: once calls no longer fail, an outcome whose batch is COMPLETE and
  canonical and whose horizon lies behind the confirmed head is stored, or the loop is
  `Obstructed`: ingestion has halted below its guard, a fork went unseen, or an
  orphaned batch that was stored ahead of the checkpoint throws
  `OUTCOME_BASELINE_REORG` in every sync and keeps the outcomes behind it from being
  built. Those three wait for an operator, each of them does happen (without any one
  of them the property is violated), and nothing else keeps an outcome out.
* `EvaluationOfOneFork`: one hash, the as-of block's, read first and last, stands
  for every fact, decision point and outcome used.
* `UniverseComplete`: no launch falls out of the cohort between two statements or
  between the write of a launch and of its fact.
* `VerdictIsEarned`: the favourable verdict needs an adverse target and an earlier
  adverse launch of its creator, observed in time, both on the as-of chain.
* `VerdictIsFinal`: while nothing is rewound, a PASS or REJECT of a live process is
  what a replay over the complete ledger decides. It rests on the order in which
  launches are stored and on the decision block as the limit of what counts.
* `OneOfEach`: the refinement of `OneShot`, slot by slot: one holder, signed and
  durable before it is sent, sent once. Without the approval stack two processes pass `countCommittedBuys` together and the UNIQUE
  index decides.
* `RecordsAreTrue`: INCLUDED and REVERTED rows agree with the chain, whichever
  process wrote them and however late the answer came.
* `ParkedForGood`: a reservation parked without a signature is never signed, also
  not by the process that was between reservation and signature.
* `BuyIsCovered`: a buy that waits to be mined finds exactly its allowance; no
  cleanup revokes it meanwhile.
* `NothingLeftBehind`: when an entry approval is closed, the allowance is zero and
  no transaction is under way that could spend, restore or revoke one.
* `MinedIsRecorded`, `ApprovalIsClosed`: a transaction of the cycle that was
  mined is recorded as such; an approval that has served its purpose, or whose
  candidate expired, is revoked and closed, or a person is needed (parked row).

* `ExitFollowsApproval`: an exit is not even reserved before its approval was
  mined, also when the owner has made the same allowance by hand and the preflight
  is satisfied.
* `OneOfEach`, `RecordsAreTrue` and `MinedIsRecorded` of `RoundTrip`: as above, for
  the two tables of the way back. The exit's evidence is a WETH balance that has
  grown, which the owner can bring about too: the receipt is what keeps the record
  true.
* `NeverOverspent`: an amount is worth at most $1 at the very block it was quoted
  at, and no block shows more WETH gone or allowed than was approved. An approved
  amount is kept for a later buy, when a dollar may buy less.
* `LandsAsQuoted`: a swap that went through did so within the age of its quote and
  its deadline, and gave what slippage allows of the price of its quoted block,
  wherever the chain was replaced between quote, checks, signature and block. It
  rests on the hash of the quoted block being compared again and on the minimum in
  the call.
* `HoldingsKept`: tokens the wallet held before are neither sold nor approved, as
  long as the buy is in the block in which its outcome was read. Without that
  condition it does not hold (2.6).
* `NoNonceTwice`: what is handed to the network never replaces another transaction
  of the wallet. The count at `'latest'` would, after a reorganisation.
* `VerdictsAreTrue`: the report has every launch once, under the implementation that
  was live, each cell what the archive says (`ReportIsTrue`); a gate that passed was
  earned on evidence of horizons that were over (`GateIsEarned`). Receipts of two
  splits of the map, or one receipt twice, do not join.
* `ScanEnds`: the scan ends however the provider behaves, and if all answers were
  whole it ends in the scope or gave up at the smallest span. A lagging index is
  not noticed by the scan; count and ends of the range are what stops it.

### Bounds

`truth_safety` has two launches, heights up to three, two reorganisations, batches of
two blocks, a guard one block below the checkpoint, no confirmations and one failure:
enough for a fork inside a batch, one across the guard, one below it, two forks in one
sync, a crash between two stores followed by a fork, and a second batch with a
committed checkpoint before it. Without confirmations the head itself is ingested, the
most exposed block there is. Two launches of one creator are the fewest with an edge,
and they may share a block. `truth_replay_after_fork` and `truth_fork_between_batches`
have one confirmation. `ReorgMidSync` FALSE confines the first violation to forks
between syncs; the second run has `MaxFailures = 0`, so only the fork between batches is
left to blame.

`research` has one launch, one horizon and six heights: the receipts of different
launches share nothing but the order of the list. Blocks are three units of time
apart, the horizon is seven, and the second and third fork are one later and one
earlier than the first, so the boundary block differs between forks and a search
that mixes them can come to a block that is right on neither. Two
reorganisations put a fork inside a search and another before its rechecks; with
three programs there is one (`SharedReorgs`), next to rewinds that need no fork.
The confirmations (one, one and none for the outcomes) put the observed block
within reach of a fork. `research_ahead_of_checkpoint` has one process and one fork. `research_loop` has two
launches, the fewest of which one can stand in the way of the other in the list, a
limit of one per sync, five heights, one horizon of four units (two blocks, so launches
of either of two heights come to be due) and one fork, in one process; crashes and failed
calls are free to happen, and stop in the behaviours the property speaks of. Each of the
three exceptions of `Obstructed` is met: without any one of them TLC finds
`OutcomesFollow` violated. About 306,000 states.

`creator_signal` has two launches of one creator, the fewest of which one is the
other's past, and a creator who is in the seed without an adverse launch; the
horizon is one block. Confirmations are zero where the code has two: the tip is
the most exposed as-of block there is. Receipts recover nothing, more than was
paid, or are unvalued; the floors of the sample are one each, so the favourable
verdict can be reached. Two interferences per evaluation are a fork and a write.

The canary tables hold one buy, one approval and one revoke, so one candidate
exercises each of them; two matter where the count of buys and the choice of
candidate matter, and all canary runs have two.
Two processes are the fewest that interleave; a third adds no role, as each
conflict is between a holder and one other. In
`canary_two_processes` both deployments are possible, the owner changes the allowance,
and one failure comes on top of what the second process does. `canary_one_process` has
the full stack, a ledger that rewinds and three failures: a crash in the approval, in
the buy and in the revoke; the owner does nothing, because an owner who changes the
allowance himself can of course make an approval stay. `sent` is not bounded: at most
one transaction per action is what is checked. Processes, and candidates, are
interchangeable; `canary_two_processes`, which checks safety only, uses that symmetry.
No run with a liveness property does.

The round trip holds one pair of actions per buy, and one buy is all there is.
`roundtrip` starts in one of two deployments. Two processes and the owner have one
failure and WETH levels from zero to two, so the balance can fall below the stored one
and come back. One process alone has three failures: one in the approval, one in the
exit, one in a reconciliation. About 1.1 million states.

`wallet` has seven blocks, one reorganisation up to two blocks deep and one failure:
approval, buy and revoke, or approval of the sale and sale, come to be mined, and any of
them may be replaced after it was recorded. A dollar buys less WETH from height four on
and more on the second fork; the price of the pool moves by one or two tenths, within
and beyond the slippage of one tenth. A quote may be one block old and a deadline is two
blocks ahead, so each check can pass and fail. The wallet holds five tokens of the
launch beforehand. About 1.2 million states.

`historical_replay` has five launches in three blocks, one with two logs, two cohorts,
two horizons, spans from two to six blocks and two receipts to join, out of five ranges
of two splits of the map. The launches differ in what the archive holds: no pool, no
oracle price at the last horizon, no executable entry, no sale, everything. About
155,000 states.

Deadlock is checked in all passing runs but `historical_replay`, whose batch jobs end
with the report; an idle canary cycle, a polling sync and an evaluation that ends or
begins are steps.

### Fairness

`SentryTruth!FairSpec` is weak fairness of `SyncStep`: `runSentryTruth` polls for
ever, its supervisor restarts it, and failures are bounded in a run. Nothing is
assumed of the chain; `CatchesUp` speaks of behaviours in which no fork falls into
an unchecked window, and a chain of bounded height stands still in the end.

`Research!LoopSpec` is weak fairness of the steps of the three syncs in one process, which
`researchRuntimeCli.ts` (66-99) runs in a loop. The loop has no `catch`: an exception ends
it, so the fairness assumes that whoever runs the program starts it again. Nothing is
assumed of the chain, and `OutcomesFollow` only of behaviours in which failures end.

`CanaryEntry!FairSpec` is weak fairness of each process's `Advance`, the loop of
`canarySniperCli.ts`; `RoundTrip!FairSpec` is the same of the process that runs alone.
Both assume that the stages before it in the loop return and that an exit by exception
is followed by a restart. They do not assume that a transaction is mined, that the owner
does anything, or that a candidate expires.

`HistoricalReplay!FairSpec` is weak fairness of the steps of a scan, one loop of awaits.
How often the provider fails or refuses is left open: the bounds on retries and on the
span are the code's own.

## 4. Findings

Three documented promises the code does not keep.

* `docs/SENTRY_TRUTH_R1.md:31` says "A crash before checkpoint commit is safe:
  restart replays the range and launch insertion is idempotent." In
  `truth_replay_after_fork` a sync stores a launch and fails before its commit;
  the chain forks above the old checkpoint; the next sync compares only that
  checkpoint, reads the new fork, and commits with the orphaned row in place
  (`runtime/sentryTruth.ts:82`). If the launch was mined again at another block,
  the replay ends in `LAUNCH_IDENTITY_CONFLICT` every time instead.
* `docs/SENTRY_TRUTH_R1.md:35` says "Before advancing, the runtime re-reads the
  persisted checkpoint block hash." It does so once per sync
  (`runtime/sentryTruth.ts:37`), not once per batch: in
  `truth_fork_between_batches` the block of the checkpoint just committed is
  replaced before the next batch and the checkpoint moves on past an orphaned row.

* `docs/EXECUTABLE_BASELINE_R1.md:81` says "Database rewind also deletes evidence
  according to **its own observation block**, not only when its parent launch is
  deleted. This fixes the case where a launch at block N survives while its
  baseline at block N+2 is reorged away." The rewind does; but the baseline reads
  the head anew (`runtime/executableBaseline.ts:43`) and may store a batch above the
  checkpoint. A fork between the two replaces no hash ingestion compares, so there is no
  rewind, and the checkpoint then moves past the orphaned batch
  (`research_ahead_of_checkpoint`).

Behaviours the models show that no document denies, listed as hazards or noted
here. A rewind deletes the checkpoint row too; until the next commit, also across
a crash, no hash is compared, and a deeper fork in that time goes unnoticed
(`EscapesComparison`). With three programs a rewind between the last recheck and
`putOutcome` leaves a receipt that names a baseline which is gone; the slot counts
as filled and no receipt of the new baseline follows. One orphaned baseline that no
rewind deletes ends every sync of the outcomes in `OUTCOME_BASELINE_REORG`, and
later outcomes wait behind it. With two canary processes one may revoke an allowance the other's buy is about to use
(the buy reverts); with two processes an INCLUDED exit approval may be parked
again by a late `markSafeHalt`, and once the exit has spent its allowance neither
row is recorded any more; and a ledger rewind that deletes the baseline of an
included approval stops the cycle with the allowance in place, until a person
acts.

## 5. Proofs

### Ingestion

`SentryTruth_proofs` proves, for every set of launches, chain bound, batch size,
confirmation depth, lookback and number of failures, from `ChainAssumption` and
`OptionsAssumption` (natural-number ranges only):

| Theorem | Statement |
|---|---|
| `TypeCorrect` | `Spec => []TypeOK` |
| `GuardIsCoherent` | `Spec => []GuardCoherent` |
| `RewindsAreJustified` | `Spec => RewindIsJustified` |

`GuardCoherent` alone is not inductive: it speaks of the stored guard, and what
is stored comes from two reads in a sync. `GuardInv` adds

1. `HashesAreOld`: neither the stored checkpoint hash nor the boundary in hand is
   newer than the newest fork, so a reorganisation can only make a hash differ
   for good, never agree again;
2. `GuardReadOnBoundaryFork`: in the last three steps of a batch, if the boundary
   read before it is still canonical, then so is the guard hash read in between;
3. that a guard is not above its checkpoint, so that a fork which replaces the
   guard replaces the checkpoint too.

`RewindIsJustified` needs in addition `RewindInv`: a sync only works above its
checkpoint, and a sync that has come to the guard has an orphaned checkpoint,
which by (1) stays orphaned until the rewind. Each step lemma has one case per
action.

From the same assumptions it proves what the ledger holds:

| Theorem | Statement |
|---|---|
| `ProvenanceIsExact` | `Spec => []ProjectionExact` |
| `EdgesAreOfRows` | `Spec => []EdgesReferToLedger` |
| `NothingIsMissed` | `Spec => []NothingMissed` |
| `LedgerIsExact` | `Spec => []ExactUnlessUnseen` |

* `ProvenanceInv`: between repair and commit facts and edges follow the rows of the
  batch in hand one store call at a time (`BatchInHand`, `NextIsStored`,
  `FactsKeptUp`, `EdgesKeptUp`). A rewind deletes by height; it may not leave an edge
  with one end, and does not because an edge points back (`EdgesGoBack`): who is
  spared has what it refers to spared.
* `CoverInv`: the heights up to the checkpoint were read without a gap
  (`HeightsRead`, `Contiguous`), what was read from a block that is still there is
  stored (`ScannedIsStored`), and the batch in hand is of the chain as long as its
  boundary is (`BatchIsOnChain`, `BatchIsStored`): a fork below a boundary changes the
  hash of the boundary for good.
* `ExactInv`: unless `unseenFork`, a canonical checkpoint or guard has no orphaned row
  at or below it (`CheckpointVouches`), nor has the boundary of the sync in progress
  while it is canonical (`SyncVouches`), and no failed sync has left orphans that
  nothing will compare. That the invariant needs no third window is the content of
  "those two are the only ones".

### Baseline and outcomes

`Research_proofs`, from `ChainAssumption` and `ResearchAssumption`, for every chain,
delay, list of horizons, number of launches and deployment:

| Theorem | Statement |
|---|---|
| `BaselinesAreOfOneFork` | `Spec => []BaselineOfOneFork` |
| `TypeCorrect` | `Spec => []TypeOK` |
| `OutcomesAreOfOneFork` | `Spec => []OutcomeOfOneFork` |
| `NoneIsStranded` | `Spec => []NothingStranded` |
| `EvidenceIsLinked` | `Spec => []EvidenceChain` |
| `RewoundUnlessStoredAhead` | `Spec => []RewoundUnlessAhead` |

*Batches.* What is stored was read in three steps with the chain, ingestion and the
outcomes at work in between. `BaselineInv` adds that no height is of a fork newer
than the newest (`ForksGrow`), so a reorganisation raises the fork of the heights it
replaces and of no other (`ReorgRaises`); that the decision block of a selected launch
exists (`ListedWithin`); and `ReadsInOrder`: at each step the fork read first is at most
the fork the market reads saw, and that is at most the fork of the height now. When the
second read of the hash finds the first one again, the three are equal.

*Receipts.* `ReceiptInv` is `TypeInv` (types, forks never fall with the height, rows
were mined), `HandInv` (what the collector has in hand: `LaunchInHand`,
`SearchInRange`, `SeenInOrder`, `BoundaryFound`, `PointsChecked`) and `StoredInv` (the
same of what is stored). Two facts carry it: a block that a reorganisation spared has
kept everything below it (`ReorgSpares`), so the hash of the answer fixes the fork of
its predecessor; and time rises along the canonical chain (`TimeRises`), so an answer
whose predecessor is too early is the first block in time, whichever forks the binary
search has mixed.

*The ledger.* `LinkInv` says for one process that the syncs work in turn (`InTurn`), so
what a stage has listed is still stored when it writes (`BaselinesFresh`,
`OutcomesFresh`). `RewindInv` says for each batch and receipt that was not stored ahead
of the checkpoint (`Covered`) that a canonical checkpoint or guard above it vouches for
it (`Vouched`), that its block is confirmed, that the checkpoint has reached it, and that
an ingestion under way spares it; and of the evidence about to be written that it is
vouched for. Marks are old as in (1) above
(`MarksOld`).

### Creator signal

`CreatorSignal_proofs`, from the assumptions of `CreatorSignal` and its chain, for any
launches, creators, outcomes, sample floors, delay, horizon and interference:

| Theorem | Statement |
|---|---|
| `TypeCorrect` | `Spec => []TypeOK` |
| `RestsOnOneFork` | `Spec => []EvaluationOfOneFork` |
| `CountsEveryLaunch` | `Spec => []UniverseComplete` |
| `VerdictEarned` | `DecidedWithinHorizon /\ Spec => []VerdictIsEarned` |
| `VerdictFinal` | `Spec => VerdictIsFinal` |

`DecidedWithinHorizon` is `Delay < Horizon`: a launch is decided before its outcome is
due. The code's decision delay is a handful of blocks (2 by default) and its horizon a
day, but neither bounds the other; with the two equal a prior outcome could be observed
in the target's own outcome block, which is what the last conjunct of `VerdictIsEarned`
denies. No other theorem needs it.

*One fork* (`EvalInv`). The evaluation reads its tables one call after the other while
the chain is replaced, the ledger rewound and rows written. Each thing read was compared
with the chain at the moment it was read, so it is of the lineage of the as-of block *if
the as-of block is still canonical*: `PointsOfLineage` and `EvidenceOfLineage` are
conditional on `AnchorHolds`. The condition can be kept because a canonical anchor has
kept every height below it (`AnchorKept`), and every receipt lies below it
(`ReceiptsBelowAnchor`); the last comparison of the anchor discharges it. Were the anchor
not read again, the invariant would have nothing to end on.

*The universe.* `SnapshotSplit` says that the launches of the snapshot are those with a
fact and those without one; `UniverseChecked` that an evaluation past that check misses
no mature one.

*No look-ahead.* `LedgerInv` is about the writers: a stored launch without a fact is the
last of the ledger (`FactsInOrder`), a baseline is of its row's decision block
(`BaselineOfRow`). A ledger that is not rewound can add two things under a verdict. One is
a fact: it belongs to the last launch of the ledger, which does not precede the one
decided, so the past is the same. The other is a receipt (`FeatureGrows`,
`GainsReceipts`): a REJECT keeps the adverse receipt it rests on, and a PASS needed every
launch of the past classified (`PassMeans`), so the receipt is of no launch it looks at
(`MoreReceiptsSameVerdict`). `VerdictEarned` uses `ObservedAfter`: a receipt's block lies
above the decision it refers to.

### Canary

`CanaryTx_proofs` proves lemmas about the life of one transaction for *any* set of
actions and processes: a module that composes `CanaryTx` shows that its own steps leave
`TxInv` alone and has the rest for free. `TxInv` adds to types that whoever is at a step
of a transaction works on a row that is in the state the step presupposes (`InHand`),
that a signature is stored before anything is sent (`StoredFirst`), that one
process at most is about to send an action, which was not sent before (`OneSender`), that a receipt in mind
is the chain's (`ReceiptInMind`), and `RowsAreTrue`. `SlotStep` and `RowsKept` say what
any of the shared steps does to the slot of one row.

| Module | Theorem | Statement |
|---|---|---|
| `CanaryEntry_proofs` | `EntryInvariant` | `Spec => []EntryInv` |
| | `TypeCorrect` | `Spec => []TypeOK` |
| | `RecordsTrue` | `Spec => []RecordsAreTrue` |
| | `ParkedStays` | `Spec => ParkedForGood` |
| | `EachIsOneShot` | `Spec => OneOfEach` |
| | `CoverInvariant` | `Deployed /\ Spec => [](EntryInv /\ CoverInv)` |
| | `BuyStaysCovered` | `Deployed /\ Spec => []BuyIsCovered` |
| | `NothingIsLeftBehind` | `Deployed /\ Spec => []NothingLeftBehind` |
| `RoundTrip_proofs` | `RoundTripInvariant` | `Spec => []RoundTripInv` |
| | `TypeCorrect` | `Spec => []TypeOK` |
| | `RecordsTrue` | `Spec => []RecordsAreTrue` |
| | `ExitIsLast` | `Spec => []ExitFollowsApproval` |
| | `EachIsOneShot` | `Spec => OneOfEach` |

Without `Deployed` they hold for any number of processes, candidates and failures,
with and without the approval stack, an owner who acts and a ledger that rewinds.
`EntryInv` adds the cycle's own part: a process that evaluates has chosen a candidate
(`CandidateChosen`), an entry row names its parent (`ParentKnown`), a committed buy is
the only one (`OneBuyTaken`, the UNIQUE index), and a closed approval was mined
(`ClosedWasMined`). `RoundTripInv` adds `ExitReady`, the reason no exit is reserved
before its approval is recorded, and `NoneSkipped`. The refinement follows for each
slot: the initial state maps to the initial state of `OneShot`, and every step maps, by
`SlotStep` or because it reserves one row, to a step of `OneShot` or a stutter.

`BuyIsCovered` and `NothingLeftBehind` are false of two processes, or when the owner
changes the allowance by hand. `Deployed` excludes both and leaves the rest open:
any candidates, crashes, failed calls and rewinds. It says that there is one process
(`canarySniperCli.ts` runs one cycle after the other), that it has the full approval
stack (without it no approval is made or closed), and that `OwnerActs` is off.
Neither property is inductive. `CoverInv` says why they hold:

* the allowance follows from the receipts (`AllowanceTracked`): it is the exact amount
  from the mined approval to the mined buy or revoke, and zero otherwise;
* the approval is mined before a buy or a revoke is reserved (`ApprovedFirst`), so its
  receipt cannot arrive late and restore an allowance that was spent or revoked;
* while the revoke is taken the buy is over (`BuyIsOver`): no buy is open, and the
  parent's row exists, INCLUDED, REVERTED or SKIPPED, so `INSERT OR IGNORE` can never
  reserve it again;
* what each step of a cycle relies on between its read and its write
  (`StepsAreRight`): the cleanup is entered with the buy over, the reservation of the
  buy with the approval mined and for the approval's own candidate, the closing of
  the entry row with the allowance at zero and the revoke absent or recorded.

### Wallet

`Wallet_proofs`, for every bound of the chain, price per fork and height, slippage,
deadline, age of a quote, initial balance and number of failures, from the assumptions of
`Wallet` and its chain. They include `SingleProcess`: the cycle and the round trip are
run by one process, one after the other, as `canarySniperCli.ts` does it; what a second
process can do is the subject of `CanaryEntry` and `RoundTrip`.

| Theorem | Statement |
|---|---|
| `WalletInvariant` | `Spec => []WalletInv` |
| `TypeCorrect` | `Spec => []TypeOK` |
| `NeverOverspends` | `Spec => []NeverOverspent` |
| `LandsWithinQuote` | `Spec => []LandsAsQuoted` |
| `HoldingsStay` | `Spec => []HoldingsKept` |
| `NoncesDistinct` | `Spec => []NoNonceTwice` |

None of the four properties is inductive: each speaks of what is on the chain, and what
is on the chain was decided many steps earlier, from blocks that may be gone. `WalletInv`
follows an amount all the way:

* `ControlInv`: whose turn it is. A process only quotes for a row that does not exist yet
  (`InTurn`) and only works on one that is open (`InHand`); what was not stored was not
  sent (`StoredFirst`).
* `PlansRight`: what a process has read. As long as the quoted block is canonical, the
  prices read at its height are its prices (`ReadRight`); the second read of its hash
  turns this into a fact about the swap that is built (`SwapRight`), which no later
  reorganisation changes: the price of a block is a function of its height and fork.
* `IntentsRight`: what the columns hold. A buy is for the entry approval's amount, an
  exit for what was acquired, the approval of the sale for the same; deadlines follow
  the age of the quote. What was acquired is fixed once the buy is INCLUDED
  (`BuySettled`).
* `ChainInv`: the wallet of *every* block is the first wallet plus what had landed by
  then (`PurseFollows`, with `Spent`, `Bought`, `Sold`, `Earned` and `Allowed` as sums of
  mined transactions); what landed met its deadline and its minimum, and an exit landed
  after its approval (`LandedWell`).
* `NonceInv`: the nonce of a block counts the transactions mined up to it
  (`NonceCounts`), and the nonce taken next is the number of transactions the network
  knows (`NonceReady`, `NoncesTaken`), which is why the pending count, and not the
  latest one, makes them distinct.

A reorganisation is the hard step (`ReplaceKeeps`): it takes blocks off the end and puts
their transactions back, and the invariant holds because it is stated per block and per
transaction rather than of the head. The other steps fall into three kinds, moves of a
process (`MoveKeeps`), writes of a row (`RowKeeps`) and reservations (`ReserveKeeps`).

### Historical replay

`HistoricalReplay_proofs`, for every archive (launches, pools, sales, prices and the
implementation at each block), log range, span of the scan, list of cohorts and
horizons, number of receipts and set of ranges the shards are run for. `ReplayAssumption`
asks that the log be finite with one place for each entry, that all logs of a launch be
in one block, that every block up to the last decision be mined, and that ranges lie
within the scope, as `historicalFullReplayCli.ts:41` does. It does not ask that
cohorts or ranges fit together: the programs check that, or the theorems hold without it.

| Theorem | Statement |
|---|---|
| `ReplayInvariant` | `Spec => []ReplayInv` |
| `TypeCorrect` | `Spec => []TypeOK` |
| `VerdictsTrue` | `Spec => []VerdictsAreTrue` |
| `ScanGapless` | `Spec => []ScanIsGapless`: the scan has asked for each block below its cursor and for none above |
| `ScopeComplete` | `Spec => []ScopeIsComplete`: a frozen scope names every launch of the range |
| `ReceiptsTrue` | `Spec => []ReceiptInv`: each row of each receipt is the archive's answer |

`VerdictsAreTrue` speaks of the report and of the gates that passed, the end of two long
chains of custody; `ReplayInv` has a conjunct for each link (TLC checks it on the instance
of `historical_replay` too, all of its states):

* `ScopeInv`: the scan may have been answered by an index that lags, so what it collected
  may be anything. What makes the scope whole is the check of the count: the kept logs
  have a launch each (a second log of the same launch would be in the same block and at
  the same index), so as many as there are launches are all of them (`ScopeIsWhole`).
* `ScanIsGapless` (of the proof module; TLC finds it true on the instance of
  `historical_replay`) is inductive with the types alone: the chunk asked for begins at the cursor
  and ends before the next one, so two ranges join (`RangesJoin`), and every other step
  keeps cursor and logs (`StepIsGapless`). It is the safe half of `ScanEnds`, whose other
  half, that the cursor does arrive, stays with TLC.
* `MapInv`: the map numbers the scope, and its rows never change.
* `JobInv`: what a job has done and what it has to do is what it was given, in order
  (`InTurn`); each row so far holds the archive's baseline and, for each horizon before
  the next one, the archive's cell (`RowTrue`). `BaselineByReads` and `CellByReads` say
  why: the reads that decide a row either state what the archive has, or one of them
  failed and there is no row.
* `RowTrue` is weaker for gates than for shards: a gate counts a horizon that is not over
  as UNVERIFIED, whatever the archive will hold, but what it counts as COMPLETE was over at
  a confirmed head. As the head only grows, both stay true (`RowStaysTrue`).
* `ReceiptInv`: a receipt is a finished job whose rows carry their ordinals of the scope. So
  the aggregate may take receipts of any splits, one of them twice: whichever row it
  finds for an ordinal is true, and all ordinals together are the scope (`AggregateKeeps`).

### What stays with TLC

For good, because the prover does not reach them: liveness (`CatchesUp`, `OutcomesFollow`,
`MinedIsRecorded`, `ApprovalIsClosed`, `ScanEnds`), everything about `ENABLED`, and what a recursive
definition computes for every input.

## 6. Not modelled

* Authority epochs (`authority/*`): constants and a guard at the start of a range,
  without state of their own; their failures appear as calls that throw. What an
  upgrade of the proxy does to a replay is in `HistoricalReplay`.
* The read-only shadow report of the fast vet (`evaluation/fastVetShadow.ts`), which
  only scripts call.
* Calibration, quotes and the classification of receipts as functions: a batch is
  COMPLETE, UNVERIFIED or an error, a receipt has a recovery from a small set, a pool
  has a price per block.
* A chain that returns to an earlier fork.
* Decoding of logs and call data, digests, caps on fees and gas: conversions and
  values no checked property is about.
* The memory store (test double), command lines, check scripts and workflows.

## 7. Plan

1. *(done)* `Chain`, `SentryTruth`; `OneShot`, `CanaryRow`, `CanaryTx`,
   `CanaryEntry`; the first theorems.
2. *(done)* `RoundTrip` on `CanaryTx` and `OneShot`: exit approval and exit of an
   included buy.
3. *(done)* `Research`: baseline and outcomes on a ledger that rewinds; its first
   theorem.
4. *(done)* `CreatorJoin`, `CreatorSignal`: no look-ahead, one fork, complete
   universe; the fast vet.
5. *(done)* `SwapIntent`, `Wallet`: amounts, slippage, deadlines, nonces, and a
   reorganisation under a recorded transaction.
6. *(done)* `HistoricalReplay`: scope, map, shards, gates, aggregate.
7. *(done)* Proofs: all invariants of `SentryTruth`, `Research`, `RoundTrip`,
   `CanaryEntry`, `CreatorSignal`, `Wallet` and `HistoricalReplay`; the action properties `RewindIsJustified`,
   `ParkedForGood` and `VerdictIsFinal`; the refinement of `OneShot`.
8. *(done)* Two launches in the loop of `Research`, with a liveness run that says what one
   bad row blocks.
9. Models left: a chain that returns to an earlier fork; the boundary search as a pure
   function against its definition.
