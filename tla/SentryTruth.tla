----------------------------- MODULE SentryTruth -----------------------------
(***************************************************************************)
(* SENTRY_TRUTH_R1: the confirmed-block ingestion loop of                  *)
(* src/src/runtime/sentryTruth.ts over the SQLite ledger of                *)
(* src/src/db/sqliteStore.ts.                                              *)
(*                                                                         *)
(* Every RPC read is a step of its own, so blocks arrive and forks change  *)
(* between any two reads; the store calls that follow a read up to the     *)
(* next one belong to the step of that read unless a crash between them    *)
(* leaves a ledger the program can be restarted on.  A thrown error and a  *)
(* crash look alike: the locals are lost, the ledger stays, and the next   *)
(* poll or the next process begins again.                                  *)
(***************************************************************************)
EXTENDS Chain

CONSTANTS
    CreatorOf,     \* CreatorOf[l]: the wallet that deployed l
    StartBlock,    \* options.startBlock
    Confirmations, \* options.confirmations
    MaxBatch,      \* options.maxBatchBlocks
    Lookback,      \* options.reorgLookbackBlocks
    MaxFailures,   \* number of crashes and failed RPC calls (bound of the model)
    ReorgMidSync   \* may a fork change while a sync is running?

\* validateOptions; block 0 holds no deployment, so a start block is positive.
ASSUME OptionsAssumption ==
    /\ StartBlock \in Nat \ {0}
    /\ Confirmations \in Nat
    /\ MaxBatch \in Nat \ {0}
    /\ Lookback \in Nat \ {0}
    /\ MaxFailures \in Nat
    /\ ReorgMidSync \in BOOLEAN

VARIABLES
    rows,       \* launches table: where each launch was observed, or NoLocation
    facts,      \* launches that have a provenance fact
    edges,      \* PREVIOUS_LAUNCH edges, <<launch, previous launch of its creator>>
    checkpoint, \* chain_checkpoints row; block 0 stands for no row
    pc,         \* next read of the sync in progress, "idle" between syncs
    target,     \* targetBlock
    from,       \* fromBlock
    to,         \* toBlock
    boundary,   \* boundaryHashBefore
    launches,   \* result of catchUp
    todo,       \* launches of the batch not stored yet
    guardHash,  \* guardBlockHash
    failures,   \* crashes and failed calls so far
    scanned,    \* history: fork under which a batch last read a height, 0 for none
    unseenFork  \* history: has a fork fallen into a window no hash check covers?

ledgerVars == <<rows, facts, edges, checkpoint, scanned>>
localVars == <<target, from, to, boundary, launches, todo, guardHash>>
vars == <<chainVars, ledgerVars, pc, localVars, failures, unseenFork>>

Steps == {"idle", "checkpoint", "guard", "repair", "reproject", "batch", "catchUp",
          "launchBlocks", "afterRead", "put", "fact", "project", "guardRead",
          "beforeCommit", "authority", "commit"}

NoCheckpoint == [block |-> 0, fork |-> 0, guard |-> 0, guardFork |-> 0]
Stored == {l \in Launch : rows[l].block # 0}
GuardBlock(b) == IF b > Lookback THEN b - Lookback ELSE 0
CheckpointIsCanonical == fork[checkpoint.block] = checkpoint.fork

TypeOK ==
    /\ ChainTypeOK
    /\ rows \in [Launch -> Location]
    /\ facts \subseteq Launch
    /\ edges \subseteq Launch \X Launch
    /\ checkpoint \in [block : Block, fork : Nat, guard : Block, guardFork : Nat]
    /\ pc \in Steps
    /\ target \in Block
    /\ from \in Nat
    /\ to \in Block
    /\ boundary \in Nat
    /\ launches \in [Launch -> Location]
    /\ todo \subseteq Launch
    /\ guardHash \in Nat
    /\ failures \in Nat
    /\ scanned \in [Block -> Nat]
    /\ unseenFork \in BOOLEAN

\* projectProvenanceEdges: each fact points at the fact of the same creator
\* that precedes it in (observedBlock, logIndex) order, if there is one.
Precedes(m, l) ==
    /\ CreatorOf[m] = CreatorOf[l]
    /\ rows[m].block < rows[l].block \/ (rows[m].block = rows[l].block /\ m < l)
PreviousLaunchEdges(known) ==
    {e \in known \X known :
        /\ Precedes(e[2], e[1])
        /\ ~ \E k \in known : Precedes(e[2], k) /\ Precedes(k, e[1])}

Init ==
    /\ ChainInit
    /\ rows = [l \in Launch |-> NoLocation]
    /\ facts = {}
    /\ edges = {}
    /\ checkpoint = NoCheckpoint
    /\ pc = "idle"
    /\ target = 0 /\ from = 0 /\ to = 0 /\ boundary = 0
    /\ launches = [l \in Launch |-> NoLocation]
    /\ todo = {}
    /\ guardHash = 0
    /\ failures = 0
    /\ scanned = [b \in Block |-> 0]
    /\ unseenFork = FALSE

\* The call returns or throws: its locals are gone.
EndSync ==
    /\ pc' = "idle"
    /\ target' = 0 /\ from' = 0 /\ to' = 0 /\ boundary' = 0
    /\ launches' = [l \in Launch |-> NoLocation]
    /\ todo' = {}
    /\ guardHash' = 0

\* Mutant: the transaction does not touch the provenance_edges table.
RewindKeepsEdges(b) ==
    LET kept == {l \in Launch : rows[l].block < b} IN
    /\ rows' = [l \in Launch |-> IF l \in kept THEN rows[l] ELSE NoLocation]
    /\ facts' = facts \cap kept
    /\ edges' = edges
    /\ checkpoint' = IF checkpoint.block >= b THEN NoCheckpoint ELSE checkpoint
    /\ scanned' = [k \in Block |-> IF k >= b THEN 0 ELSE scanned[k]]

\* store.rewindFromBlock: one transaction over every table of the ledger.
RewindFrom(b) ==
    LET kept == {l \in Launch : rows[l].block < b} IN
    /\ rows' = [l \in Launch |-> IF l \in kept THEN rows[l] ELSE NoLocation]
    /\ facts' = facts \cap kept
    /\ edges' = {e \in edges : e[1] \in kept}
    /\ checkpoint' = IF checkpoint.block >= b THEN NoCheckpoint ELSE checkpoint
    /\ scanned' = [k \in Block |-> IF k >= b THEN 0 ELSE scanned[k]]

\* Heights whose hash this sync will not look at again: up to fromBlock once the
\* checkpoint was compared, up to toBlock once the boundary was.
NoLongerChecked ==
    IF pc \in {"repair", "reproject", "batch"} THEN StartBlock..(from - 1)
    ELSE IF pc \in {"authority", "commit"} THEN StartBlock..to
    ELSE {}

\* An orphaned row above a checkpoint that is itself canonical (or absent): a
\* failed sync stored it, and no later hash check leads to its removal.
OrphanLeftBehind ==
    /\ pc \in {"idle", "checkpoint", "repair", "reproject", "batch"}
    /\ checkpoint.block = 0 \/ CheckpointIsCanonical
    /\ \E l \in Stored : rows[l].block > checkpoint.block /\ rows[l] # OnChain(l)

\* Every step ends with this update of the history variable.
Watch ==
    unseenFork' = ( \/ unseenFork
                    \/ \E b \in NoLongerChecked : fork'[b] # fork[b]
                    \/ OrphanLeftBehind' )

------------------------------------------------------------------------------
(* The sync.                                                               *)

\* getHeadBlockNumber, the target's authority, and the stored checkpoint.
BeginSync ==
    /\ pc = "idle"
    /\ head - Confirmations >= StartBlock
    /\ target' = head - Confirmations
    /\ from' = IF checkpoint.block = 0 THEN StartBlock ELSE checkpoint.block + 1
    /\ pc' = IF checkpoint.block = 0 THEN "repair" ELSE "checkpoint"
    /\ UNCHANGED <<chainVars, ledgerVars, to, boundary, launches, todo, guardHash, failures>>
    /\ Watch

\* Mutant: the persisted hash is not compared.
CheckpointHashTrusted ==
    /\ pc = "checkpoint"
    /\ pc' = "repair"
    /\ UNCHANGED <<chainVars, ledgerVars, localVars, failures>>
    /\ Watch

\* Is the persisted checkpoint hash still canonical?
ReadCheckpointHash ==
    /\ pc = "checkpoint"
    /\ pc' = IF CheckpointIsCanonical THEN "repair" ELSE "guard"
    /\ UNCHANGED <<chainVars, ledgerVars, localVars, failures>>
    /\ Watch

\* Mutant: the rewind does not look at the guard hash.
RewindBlindly ==
    /\ pc = "guard"
    /\ RewindFrom(checkpoint.guard + 1)
    /\ from' = checkpoint.guard + 1
    /\ pc' = "repair"
    /\ UNCHANGED <<chainVars, target, to, boundary, launches, todo, guardHash, failures>>
    /\ Watch

\* Mutant: the checkpoint is not read again after the rewind.
RewindThenResume ==
    /\ pc = "guard"
    /\ fork[checkpoint.guard] = checkpoint.guardFork
    /\ RewindFrom(checkpoint.guard + 1)
    /\ pc' = "repair"
    /\ UNCHANGED <<chainVars, localVars, failures>>
    /\ Watch

\* The guard hash still matches: the ledger is rewound to just above it.
RewindToGuard ==
    /\ pc = "guard"
    /\ fork[checkpoint.guard] = checkpoint.guardFork
    /\ LET rewindFrom == IF checkpoint.guard + 1 > StartBlock
                         THEN checkpoint.guard + 1 ELSE StartBlock IN
       /\ RewindFrom(rewindFrom)
       /\ from' = IF checkpoint'.block = 0 THEN rewindFrom ELSE checkpoint'.block + 1
    /\ pc' = "repair"
    /\ UNCHANGED <<chainVars, target, to, boundary, launches, todo, guardHash, failures>>
    /\ Watch

\* REORG_DEPTH_EXCEEDED: the fork is older than the guard, history is not touched.
HaltAtGuard ==
    /\ pc = "guard"
    /\ fork[checkpoint.guard] # checkpoint.guardFork
    /\ EndSync
    /\ UNCHANGED <<chainVars, ledgerVars, failures>>
    /\ Watch

\* Mutant: launches that a failed sync left without a fact stay without one.
RepairNothing ==
    /\ pc = "repair"
    /\ pc' = "reproject"
    /\ UNCHANGED <<chainVars, ledgerVars, localVars, failures>>
    /\ Watch

\* ensureProvenanceProjection, first half: a fact for every launch without one.
RepairFacts ==
    /\ pc = "repair"
    /\ facts' = Stored
    /\ pc' = "reproject"
    /\ UNCHANGED <<chainVars, rows, edges, checkpoint, scanned, localVars, failures>>
    /\ Watch

\* replaceProvenanceEdges, from the facts stored now.
ReplaceEdges(before, after) ==
    /\ pc = before
    /\ edges' = PreviousLaunchEdges(facts)
    /\ pc' = after
    /\ UNCHANGED <<chainVars, rows, facts, checkpoint, scanned, localVars, failures>>
    /\ Watch

\* Nothing above the checkpoint is confirmed yet, or the last batch is done.
FinishSync ==
    /\ pc = "batch"
    /\ from > target
    /\ EndSync
    /\ UNCHANGED <<chainVars, ledgerVars, failures>>
    /\ Watch

\* Head of the loop: the batch and the hash of its last block.
BeginBatch ==
    /\ pc = "batch"
    /\ from <= target
    /\ to' = IF from + MaxBatch - 1 < target THEN from + MaxBatch - 1 ELSE target
    /\ boundary' = fork[to']
    /\ pc' = "catchUp"
    /\ UNCHANGED <<chainVars, ledgerVars, target, from, launches, todo, guardHash, failures>>
    /\ Watch

\* eth_getLogs over from..to.  Its three queries are one step: a fork change
\* between them also changes the hash of block to, which is read again below.
CatchUp ==
    /\ pc = "catchUp"
    /\ todo' = {l \in Launch : place[l] \in from..to}
    /\ launches' = [l \in Launch |-> IF l \in todo' THEN OnChain(l) ELSE NoLocation]
    /\ pc' = "launchBlocks"
    /\ UNCHANGED <<chainVars, ledgerVars, target, from, to, boundary, guardHash, failures>>
    /\ Watch

\* assertLaunchBlocksStillCanonical.
CheckLaunchBlocks ==
    /\ pc = "launchBlocks"
    /\ IF \A l \in todo : fork[launches[l].block] = launches[l].fork
       THEN pc' = "afterRead" /\ UNCHANGED localVars
       ELSE EndSync
    /\ UNCHANGED <<chainVars, ledgerVars, failures>>
    /\ Watch

\* boundaryHashAfterRead.
CheckAfterRead ==
    /\ pc = "afterRead"
    /\ IF fork[to] = boundary
       THEN pc' = "put" /\ UNCHANGED localVars
       ELSE EndSync
    /\ UNCHANGED <<chainVars, ledgerVars, failures>>
    /\ Watch

\* The batch is stored in (blockNumber, logIndex) order.
NextLaunch(l) ==
    /\ l \in todo
    /\ \A m \in todo \ {l} :
          \/ launches[l].block < launches[m].block
          \/ launches[l].block = launches[m].block /\ l < m

\* Mutant: a row that is already there is a conflict even when it is identical.
PutLaunchOnce ==
    /\ pc = "put"
    /\ \E l \in Launch :
          /\ NextLaunch(l)
          /\ IF rows[l] = NoLocation
             THEN /\ rows' = [rows EXCEPT ![l] = launches[l]]
                  /\ pc' = "fact"
                  /\ UNCHANGED localVars
             ELSE EndSync /\ UNCHANGED rows
    /\ UNCHANGED <<chainVars, facts, edges, checkpoint, scanned, failures>>
    /\ Watch

\* putLaunch: inserted, an identical row already there, or LAUNCH_IDENTITY_CONFLICT.
PutLaunch ==
    /\ pc = "put"
    /\ \E l \in Launch :
          /\ NextLaunch(l)
          /\ IF rows[l] \in {NoLocation, launches[l]}
             THEN /\ rows' = [rows EXCEPT ![l] = launches[l]]
                  /\ pc' = "fact"
                  /\ UNCHANGED localVars
             ELSE EndSync /\ UNCHANGED rows
    /\ UNCHANGED <<chainVars, facts, edges, checkpoint, scanned, failures>>
    /\ Watch

\* putProvenanceFact of the launch just stored.
PutFact ==
    /\ pc = "fact"
    /\ \E l \in Launch :
          /\ NextLaunch(l)
          /\ facts' = facts \cup {l}
          /\ todo' = todo \ {l}
    /\ pc' = "put"
    /\ UNCHANGED <<chainVars, rows, edges, checkpoint, scanned, target, from, to,
                   boundary, launches, guardHash, failures>>
    /\ Watch

AllStored ==
    /\ pc = "put"
    /\ todo = {}
    /\ pc' = "project"
    /\ UNCHANGED <<chainVars, ledgerVars, localVars, failures>>
    /\ Watch

\* guardBlockHash, read before the boundary is checked for the last time.
ReadGuardHash ==
    /\ pc = "guardRead"
    /\ guardHash' = fork[GuardBlock(to)]
    /\ pc' = "beforeCommit"
    /\ UNCHANGED <<chainVars, ledgerVars, target, from, to, boundary, launches, todo, failures>>
    /\ Watch

\* Mutant: the hash read before the commit is stored and compared with nothing.
CommitUnchecked ==
    /\ pc = "beforeCommit"
    /\ pc' = "authority"
    /\ boundary' = fork[to]
    /\ scanned' = [b \in Block |-> IF b \in from..to THEN fork[b] ELSE scanned[b]]
    /\ UNCHANGED <<chainVars, rows, facts, edges, checkpoint, target, from, to,
                   launches, todo, guardHash, failures>>
    /\ Watch

\* boundaryHashBeforeCommit: a moved boundary rewinds the batch just written.
CheckBeforeCommit ==
    /\ pc = "beforeCommit"
    /\ IF fork[to] = boundary
       THEN /\ pc' = "authority"
            /\ scanned' = [b \in Block |-> IF b \in from..to THEN fork[b] ELSE scanned[b]]
            /\ UNCHANGED <<rows, facts, edges, checkpoint, localVars>>
       ELSE RewindFrom(from) /\ EndSync
    /\ UNCHANGED <<chainVars, failures>>
    /\ Watch

\* assertAuthority(targetBlock) holds.
AuthorityHolds ==
    /\ pc = "authority"
    /\ pc' = "commit"
    /\ UNCHANGED <<chainVars, ledgerVars, localVars, failures>>
    /\ Watch

\* ... or throws, and the batch just written is rewound.
AuthorityLost ==
    /\ pc = "authority"
    /\ failures < MaxFailures
    /\ failures' = failures + 1
    /\ RewindFrom(from)
    /\ EndSync
    /\ UNCHANGED chainVars
    /\ Watch

\* Mutant: the row is written without its guard columns, as before v0.4.
CommitWithoutGuard ==
    /\ pc = "commit"
    /\ checkpoint' = [block |-> to, fork |-> boundary]
    /\ from' = to + 1
    /\ to' = 0 /\ boundary' = 0 /\ guardHash' = 0
    /\ launches' = [l \in Launch |-> NoLocation]
    /\ pc' = "batch"
    /\ UNCHANGED <<chainVars, rows, facts, edges, scanned, target, todo, failures>>
    /\ Watch

\* commitCheckpoint, then the next batch.
CommitCheckpoint ==
    /\ pc = "commit"
    /\ checkpoint' = [block |-> to, fork |-> boundary,
                      guard |-> GuardBlock(to), guardFork |-> guardHash]
    /\ from' = to + 1
    /\ to' = 0 /\ boundary' = 0 /\ guardHash' = 0
    /\ launches' = [l \in Launch |-> NoLocation]
    /\ pc' = "batch"
    /\ UNCHANGED <<chainVars, rows, facts, edges, scanned, target, todo, failures>>
    /\ Watch

\* A crash, or an RPC call that throws anywhere else in the sync.
Abort ==
    /\ pc # "idle"
    /\ failures < MaxFailures
    /\ failures' = failures + 1
    /\ EndSync
    /\ UNCHANGED <<chainVars, ledgerVars>>
    /\ Watch

------------------------------------------------------------------------------
SyncStep ==
    \/ BeginSync
    \/ ReadCheckpointHash
    \/ RewindToGuard
    \/ HaltAtGuard
    \/ RepairFacts
    \/ ReplaceEdges("reproject", "batch")
    \/ FinishSync
    \/ BeginBatch
    \/ CatchUp
    \/ CheckLaunchBlocks
    \/ CheckAfterRead
    \/ PutLaunch
    \/ PutFact
    \/ AllStored
    \/ ReplaceEdges("project", "guardRead")
    \/ ReadGuardHash
    \/ CheckBeforeCommit
    \/ AuthorityHolds
    \/ CommitCheckpoint

SyncFails == AuthorityLost \/ Abort

ChainGrows ==
    /\ Mine
    /\ UNCHANGED <<ledgerVars, pc, localVars, failures>>
    /\ Watch

ChainReorganises ==
    /\ ReorgMidSync \/ pc = "idle"
    /\ \E p \in Block : Reorg(p)
    /\ UNCHANGED <<ledgerVars, pc, localVars, failures>>
    /\ Watch

Next == SyncStep \/ SyncFails \/ ChainGrows \/ ChainReorganises

Spec == Init /\ [][Next]_vars

\* runSentryTruth polls for ever and its supervisor restarts it: a sync that
\* can take its next step takes it.  Nothing is assumed of the chain.
FairSpec == Spec /\ WF_vars(SyncStep)
------------------------------------------------------------------------------
(* Safety.                                                                 *)

\* The guard stored with a checkpoint lies on the checkpoint's own fork: as
\* long as the checkpoint hash is canonical its guard hash is too, whatever
\* forks changed while the two were read.  Without it a shallow fork halts
\* ingestion (REORG_DEPTH_EXCEEDED) or a deep one is rewound too little.
GuardCoherent ==
    checkpoint.block # 0 /\ CheckpointIsCanonical
        => fork[checkpoint.guard] = checkpoint.guardFork

\* Every height up to the checkpoint was read by some batch, and a launch of a
\* block that is still the one that was read is in the ledger with its
\* canonical block hash: no crash, fork or rewind makes the loop skip a launch.
NothingMissed ==
    \A b \in StartBlock..checkpoint.block :
        /\ scanned[b] # 0
        /\ scanned[b] = fork[b] =>
              \A l \in Launch : place[l] = b => rows[l] = OnChain(l)

\* While the checkpoint hash is canonical, the rows up to it are exactly the
\* launches of the canonical chain: none is missing, none is left over from an
\* orphaned block.  (docs/SENTRY_TRUTH_R1.md: "every confirmed Sentry deployment
\* exactly once", and replay after a crash "is safe".)
LedgerExact ==
    checkpoint.block # 0 /\ CheckpointIsCanonical =>
        \A l \in Launch :
            \/ rows[l].block \in StartBlock..checkpoint.block
            \/ place[l] \in StartBlock..checkpoint.block
            => rows[l] = OnChain(l)

\* The ledger is exact across every crash, failed call and fork, except for a
\* fork in one of the two windows that no hash check covers (unseenFork).
ExactUnlessUnseen == unseenFork \/ LedgerExact

\* Whenever a batch may begin or commit, every stored launch has its fact and
\* the edges are the projection of the facts, also when a crash left facts or
\* edges behind (ensureProvenanceProjection).
ProjectionExact ==
    pc \in {"batch", "commit"} =>
        /\ facts = Stored
        /\ edges = PreviousLaunchEdges(facts)

\* No edge names a launch the ledger has rewound, also between the rewind and
\* the next projection, when other programs read the tables.
EdgesReferToLedger == \A e \in edges : {e[1], e[2]} \subseteq Stored

TouchIsJustified ==
    \A l \in Launch :
        rows[l].block \in 1..checkpoint.block /\ rows'[l] # rows[l] =>
            /\ ~ CheckpointIsCanonical
            /\ fork[checkpoint.guard] = checkpoint.guardFork
            /\ rows[l].block > checkpoint.guard

\* A row up to the checkpoint is only ever touched when the checkpoint hash is
\* orphaned, the guard hash is not, and the row lies above the guard.
RewindIsJustified == [][TouchIsJustified]_vars

(* Liveness.                                                               *)

\* The guard block is orphaned: the code asks for an operator.
BeyondGuard == checkpoint # NoCheckpoint /\ fork[checkpoint.guard] # checkpoint.guardFork

\* Once the chain stands still the checkpoint reaches the confirmed head and
\* stays there, on the canonical fork: no crash and no fork within the guard
\* horizon wedges ingestion, outside the two windows of unseenFork.
CatchesUp ==
    []~unseenFork /\ []~BeyondGuard =>
        <>[](head - Confirmations >= StartBlock =>
                checkpoint.block = head - Confirmations /\ CheckpointIsCanonical)
==============================================================================
