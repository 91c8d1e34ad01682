---------------------------- MODULE CreatorSignal ----------------------------
(***************************************************************************)
(* The creator signal evaluation (src/src/runtime/creatorSignalEval.ts and  *)
(* src/src/evaluation/creatorSignal.ts), a program of its own that reads a  *)
(* ledger other programs write, of a chain that forks; and the verdict the  *)
(* canary cycle takes from the same ledger (src/src/canary/cycle.ts).       *)
(*                                                                         *)
(* The writers are the ones of SentryTruth and Research, each reduced to    *)
(* one step: what those modules show of their results is taken from there.  *)
(* Time is measured in blocks.                                              *)
(***************************************************************************)
EXTENDS Chain, CreatorJoin, FiniteSetsExt

CONSTANTS
    Delay,          \* decision delay of the baselines
    Horizon,        \* CREATOR_SIGNAL_HORIZON_MS, in blocks
    Confirmations,  \* CREATOR_SIGNAL_CONFIRMATIONS
    Qualities,      \* what the batches of the model say (subset of Quality)
    Recoveries,     \* what the outcomes of the model say
    Sample,         \* the floors of CREATOR_SIGNAL_EVAL_CONFIGURATION.sampleAdequacy
    Interference    \* writes, blocks and forks during one evaluation (bound of the model)

ASSUME SignalAssumption ==
    /\ Delay \in Nat
    /\ Horizon \in Nat \ {0}
    /\ Confirmations \in Nat
    /\ Qualities \subseteq Quality \ {"NONE"}
    /\ Recoveries \subseteq Nat \cup {Unvalued}
    /\ Sample \in [mature : Nat, complete : Nat, resolved : Nat, history : Nat,
                   adverse : Nat, coverageBps : Nat]
    /\ Interference \in Nat

VARIABLES
    rows,       \* launches table: where each launch was observed, or NoLocation
    facts,      \* provenance_facts: the same of its fact
    baselines,  \* baseline_batches
    outcomes,   \* 24h receipts of the outcomes table
    eval        \* locals of buildCreatorSignalEvaluation

ledgerVars == <<rows, facts, baselines, outcomes>>
vars == <<chainVars, ledgerVars, eval>>

PointAt(b) == [block |-> b, fork |-> fork[b]]
Canonical(point) == fork[point.block] = point.fork

Baseline == [quality : Quality, at : Location]
NoBaseline == [quality |-> "NONE", at |-> NoLocation]

\* decision: the decision point its baselineId is derived from.
Outcome == [recovery : Int, at : Location, decision : Location]
NoOutcome == [recovery |-> Unvalued, at |-> NoLocation, decision |-> NoLocation]

NoRows == [l \in Launch |-> NoLocation]
Stored == {l \in Launch : rows[l] # NoLocation}

\* missing: rows without a fact in the snapshot.  lineage: the forks of the
\* heights up to asOf when it was read (history).  known: the rows at the
\* snapshot (history).  room: how much interference is left (bound).
Idle == [step |-> "idle", room |-> Interference, asOf |-> NoLocation, lineage |-> <<>>, known |-> NoRows,
         missing |-> NoRows, facts |-> NoRows,
         baselines |-> [l \in Launch |-> NoBaseline],
         outcomes |-> [l \in Launch |-> NoOutcome]]

TypeOK ==
    /\ ChainTypeOK
    /\ rows \in [Launch -> Location]
    /\ facts \in [Launch -> Location]
    /\ baselines \in [Launch -> Baseline]
    /\ outcomes \in [Launch -> Outcome]
    /\ \A l \in Launch : facts[l] \in {NoLocation, rows[l]}
    /\ eval.step \in {"idle", "snapshot", "baselines", "outcomes", "universe",
                      "evidence", "anchor", "done"}
    /\ eval.room \in 0..Interference
    /\ eval.asOf \in Location
    /\ eval.step # "idle" => eval.lineage \in [0..eval.asOf.block -> Nat]
    /\ eval.known \in [Launch -> Location]
    /\ eval.missing \in [Launch -> Location]
    /\ eval.facts \in [Launch -> Location]
    /\ eval.baselines \in [Launch -> Baseline]
    /\ eval.outcomes \in [Launch -> Outcome]

Init ==
    /\ ChainInit
    /\ rows = NoRows
    /\ facts = NoRows
    /\ baselines = [l \in Launch |-> NoBaseline]
    /\ outcomes = [l \in Launch |-> NoOutcome]
    /\ eval = Idle

------------------------------------------------------------------------------
(* The writers.                                                            *)

\* Launches are stored in the order of the chain, each with its fact before
\* the next one: a sync repairs missing facts before it reads a range.
PutLaunch(l) ==
    /\ l \notin Stored
    /\ place[l] # 0
    /\ \A m \in Launch \ {l} :
          /\ m \in Stored => facts[m] # NoLocation /\ Precedes(rows[m], m, OnChain(l), l)
          /\ place[m] # 0 /\ Precedes(OnChain(m), m, OnChain(l), l) => m \in Stored
    /\ rows' = [rows EXCEPT ![l] = OnChain(l)]
    /\ UNCHANGED <<chainVars, facts, baselines, outcomes>>

PutFact(l) ==
    /\ l \in Stored
    /\ facts[l] = NoLocation
    /\ facts' = [facts EXCEPT ![l] = rows[l]]
    /\ UNCHANGED <<chainVars, rows, baselines, outcomes>>

\* Mutant: provenance_facts are left to the next sync.
RewindKeepsFacts(b) ==
    LET gone(l) == rows[l].block >= b IN
    /\ rows' = [l \in Launch |-> IF gone(l) THEN NoLocation ELSE rows[l]]
    /\ baselines' = [l \in Launch |-> IF gone(l) THEN NoBaseline ELSE baselines[l]]
    /\ outcomes' = [l \in Launch |-> IF gone(l) THEN NoOutcome ELSE outcomes[l]]
    /\ UNCHANGED <<chainVars, facts>>

\* rewindFromBlock, after a fork or when authority is lost.
RewindFrom(b) ==
    LET gone(l) == rows[l].block >= b IN
    /\ rows' = [l \in Launch |-> IF gone(l) THEN NoLocation ELSE rows[l]]
    /\ facts' = [l \in Launch |-> IF gone(l) THEN NoLocation ELSE facts[l]]
    /\ baselines' = [l \in Launch |-> IF gone(l) \/ baselines[l].at.block >= b
                                      THEN NoBaseline ELSE baselines[l]]
    /\ outcomes' = [l \in Launch |-> IF gone(l) \/ outcomes[l].at.block >= b
                                     THEN NoOutcome ELSE outcomes[l]]
    /\ UNCHANGED chainVars

\* putBaselineBatch of a batch built at the decision block.
PutBaseline(l) ==
    LET decisionBlock == rows[l].block + Delay IN
    /\ l \in Stored
    /\ baselines[l] = NoBaseline
    /\ decisionBlock <= head
    /\ \E quality \in Qualities :
          baselines' = [baselines EXCEPT ![l] =
                            [quality |-> quality, at |-> PointAt(decisionBlock)]]
    /\ UNCHANGED <<chainVars, rows, facts, outcomes>>

\* putOutcome of the receipt observed at the first block, from the decision on,
\* that reaches the horizon; UNVERIFIED when nothing was bought at the baseline.
PutOutcome(l) ==
    LET observed == Max({rows[l].block + Horizon, baselines[l].at.block}) IN
    /\ l \in Stored
    /\ IsComplete(baselines[l])
    /\ Canonical(rows[l]) /\ Canonical(baselines[l].at)
    /\ outcomes[l] = NoOutcome
    /\ observed <= head
    /\ \E recovery \in Recoveries :
          /\ baselines[l].quality = "NO_ENTRY" => recovery = Unvalued
          /\ outcomes' = [outcomes EXCEPT ![l] =
                 [recovery |-> recovery, at |-> PointAt(observed), decision |-> baselines[l].at]]
    /\ UNCHANGED <<chainVars, rows, facts, baselines>>

------------------------------------------------------------------------------
(* The evaluation.                                                         *)

EvalStep(step) == eval.step = step
Reads == UNCHANGED <<chainVars, ledgerVars>>
Fails == eval' = Idle

\* The head and the confirmed as-of block, or CREATOR_SIGNAL_HEAD_BELOW_CONFIRMATIONS.
BeginEvaluation ==
    /\ EvalStep("idle")
    /\ head >= Confirmations
    /\ LET asOf == head - Confirmations IN
       eval' = [Idle EXCEPT !.step = "snapshot", !.asOf = PointAt(asOf),
                            !.lineage = [b \in 0..asOf |-> fork[b]]]
    /\ Reads

\* Mutant: an inner join, which drops the rows without a fact.
ReadInnerJoin ==
    /\ EvalStep("snapshot")
    /\ eval' = [eval EXCEPT !.step = "baselines", !.known = rows, !.facts = facts]
    /\ Reads

\* readLaunchProvenanceSnapshot: one statement for launches and facts.
ReadSnapshot ==
    /\ EvalStep("snapshot")
    /\ eval' = [eval EXCEPT !.step = "baselines", !.known = rows, !.facts = facts,
                   !.missing = [l \in Launch |-> IF facts[l] = NoLocation
                                                 THEN rows[l] ELSE NoLocation]]
    /\ Reads

\* listBaselineDecisionPoints and listOutcomes are statements of their own.
ReadBaselines ==
    /\ EvalStep("baselines")
    /\ eval' = [eval EXCEPT !.step = "outcomes", !.baselines = baselines]
    /\ Reads

ReadOutcomes ==
    /\ EvalStep("outcomes")
    /\ eval' = [eval EXCEPT !.step = "universe",
                   !.outcomes = [l \in Launch |-> IF outcomes[l].at.block <= eval.asOf.block
                                                  THEN outcomes[l] ELSE NoOutcome]]
    /\ Reads

\* The launches of a table that are old enough at the as-of block.
Within(table) == {l \in Launch : table[l].block \in 1..eval.asOf.block}
IsMature(point) == point.block + Horizon <= eval.asOf.block
MatureLaunches == {l \in Within(eval.facts) : IsMature(eval.facts[l])}
EvalRows == {l \in MatureLaunches : IsComplete(eval.baselines[l])}
EvalFeature(l) == Feature(eval.facts, eval.outcomes, l, eval.baselines[l].at.block)
HasTarget(l) == eval.outcomes[l] # NoOutcome

\* The projection of all baselines, the rows without provenance, then the mature
\* launches with their decision points; each point by an RPC read.
CheckUniverse ==
    LET projects == \A l \in Launch : eval.baselines[l] # NoBaseline => eval.facts[l] # NoLocation
        provenanceComplete == \A l \in Within(eval.missing) :
            Canonical(eval.missing[l]) /\ ~ IsMature(eval.missing[l])
        factsCanonical == \A l \in Within(eval.facts) : Canonical(eval.facts[l])
        decisionsCanonical == \A l \in MatureLaunches : eval.baselines[l] # NoBaseline =>
            /\ eval.baselines[l].at.block <= eval.asOf.block
            /\ Canonical(eval.baselines[l].at)
        targetsOfBaseline == \A l \in EvalRows : HasTarget(l) =>
            eval.outcomes[l].decision = eval.baselines[l].at IN
    /\ EvalStep("universe")
    /\ IF projects /\ provenanceComplete /\ factsCanonical /\ decisionsCanonical /\ targetsOfBaseline
       THEN eval' = [eval EXCEPT !.step = "evidence"]
       ELSE Fails
    /\ Reads

\* referencedOutcomeIds: targets and sources of features.
Referenced == {l \in EvalRows : HasTarget(l)} \cup UNION {EvalFeature(l).sources : l \in EvalRows}

CheckOutcomes ==
    /\ EvalStep("evidence")
    /\ IF \A l \in Referenced : Canonical(eval.outcomes[l].at)
       THEN eval' = [eval EXCEPT !.step = "anchor"]
       ELSE Fails
    /\ Reads

\* Mutant: the as-of block is not read again.
AnchorTrusted ==
    /\ EvalStep("anchor")
    /\ eval' = [eval EXCEPT !.step = "done"]
    /\ Reads

\* The final read of the as-of block, or CREATOR_SIGNAL_ASOF_REORG.
CheckAnchor ==
    /\ EvalStep("anchor")
    /\ IF Canonical(eval.asOf) THEN eval' = [eval EXCEPT !.step = "done"] ELSE Fails
    /\ Reads

\* The receipt is printed and the program ends; or an RPC call throws on the way.
EndEvaluation ==
    /\ eval.step # "idle"
    /\ Fails
    /\ Reads

------------------------------------------------------------------------------
(* evaluateCreatorSignal.                                                  *)

RatioBps(part, whole) ==
    IF whole = {} THEN -1 ELSE (Cardinality(part) * 10000) \div Cardinality(whole)

Receipts == {l \in MatureLaunches : eval.baselines[l] # NoBaseline}
Resolved == {l \in EvalRows : HasTarget(l) /\ eval.outcomes[l].recovery # Unvalued}
Rejected == {l \in EvalRows : CandidateRejects(EvalFeature(l))}
AdverseTargets == {l \in Resolved : IsAdverse(eval.outcomes[l].recovery)}

\* sampleAdequacyFailures is empty.
SampleAdequate ==
    /\ Cardinality(MatureLaunches) >= Sample.mature
    /\ RatioBps(Receipts, MatureLaunches) >= Sample.coverageBps
    /\ Cardinality(EvalRows) >= Sample.complete
    /\ Cardinality(Resolved) >= Sample.resolved
    /\ RatioBps(Resolved, EvalRows) >= Sample.coverageBps
    /\ Cardinality({l \in EvalRows : EvalFeature(l).prior # {}}) >= Sample.history
    /\ Cardinality(AdverseTargets) >= Sample.adverse

\* What keeping a dollar in cash gains over each rejected launch.
CapitalDelta == MapThenSumSet(LAMBDA l : PAR_RECOVERY_BPS - eval.outcomes[l].recovery,
                              Rejected \cap Resolved)

WorthProspectiveTest ==
    /\ SampleAdequate
    /\ AdverseTargets \cap Rejected # {}
    /\ CapitalDelta >= 0

------------------------------------------------------------------------------
(* The verdict of the canary cycle on a baseline, from the ledger as it is. *)
(* While a baseline has no fact the projection throws and there is none.    *)

LiveVerdict(l) ==
    IF baselines[l] = NoBaseline \/ facts[l] = NoLocation THEN "UNKNOWN"
    ELSE FastVet(baselines[l], Feature(facts, outcomes, l, baselines[l].at.block), Creator[l])

------------------------------------------------------------------------------
\* Between two reads of the evaluation anything may happen, Interference times;
\* a write after its last read of the ledger is left out, for it could as well
\* come after the evaluation.
ReadsLedger == eval.step \in {"idle", "snapshot", "baselines", "outcomes"}

Meanwhile ==
    /\ EvalStep("idle") \/ (eval.room > 0 /\ ~ EvalStep("done"))
    /\ eval' = IF EvalStep("idle") THEN eval ELSE [eval EXCEPT !.room = @ - 1]

Writes ==
    \/ \E l \in Launch : PutLaunch(l) \/ PutFact(l) \/ PutBaseline(l) \/ PutOutcome(l)
    \/ \E b \in 1..MaxBlock : RewindFrom(b)

Evaluates == \/ BeginEvaluation \/ ReadSnapshot \/ ReadBaselines \/ ReadOutcomes
             \/ CheckUniverse \/ CheckOutcomes \/ CheckAnchor \/ EndEvaluation

ChainMoves == (Mine \/ \E p \in Block : Reorg(p)) /\ UNCHANGED ledgerVars

Next == \/ ((ReadsLedger /\ Writes) \/ ChainMoves) /\ Meanwhile
        \/ Evaluates

Spec == Init /\ [][Next]_vars

------------------------------------------------------------------------------
(* Safety.                                                                 *)

Done == eval.step = "done"
OfLineage(point) == eval.lineage[point.block] = point.fork

\* A receipt that names an as-of block rests on that block's ancestors alone,
\* whatever forks, rewinds and writes happened between the reads
\* (creatorSignalEval.ts: "Any suffix reorg that affected facts, baseline decisions,
\* or outcome evidence during the read window necessarily changes this anchor").
EvaluationOfOneFork ==
    Done =>
        /\ \A l \in Within(eval.facts) : OfLineage(eval.facts[l])
        /\ \A l \in Receipts : OfLineage(eval.baselines[l].at)
        /\ \A l \in Referenced : OfLineage(eval.outcomes[l].at)

\* No launch of the ledger falls out of the cohort: one that is old enough is
\* counted, or the evaluation fails, also in the moment between the write of a
\* launch and of its fact (creatorSignalSqliteStore.ts: "it cannot fall between two
\* autocommit reads").
UniverseComplete ==
    Done => \A l \in Within(eval.known) : IsMature(eval.known[l]) => l \in MatureLaunches

\* A favourable verdict rests on a launch that turned out adverse and that its
\* creator's past gave away in time: another adverse outcome, on the same fork and
\* observed by the block of the decision.
VerdictIsEarned ==
    Done /\ WorthProspectiveTest =>
        \E target, prior \in Launch :
            /\ Creator[prior] = Creator[target]
            /\ IsAdverse(eval.outcomes[target].recovery) /\ IsAdverse(eval.outcomes[prior].recovery)
            /\ OfLineage(eval.outcomes[target].at) /\ OfLineage(eval.outcomes[prior].at)
            /\ Precedes(eval.facts[prior], prior, eval.facts[target], target)
            /\ eval.outcomes[prior].at.block <= eval.baselines[target].at.block
            /\ eval.outcomes[prior].at.block < eval.outcomes[target].at.block

\* As long as nothing is rewound, what the ledger gains later does not change a
\* PASS or a REJECT: a replay over the complete ledger decides as the live process
\* did.  Only UNKNOWN is open.
Grows ==
    \A l \in Launch :
        /\ rows[l] # NoLocation => rows'[l] = rows[l]
        /\ baselines[l] # NoBaseline => baselines'[l] = baselines[l]
        /\ outcomes[l] # NoOutcome => outcomes'[l] = outcomes[l]
VerdictIsFinal ==
    [][Grows => \A l \in Launch :
           LiveVerdict(l) # "UNKNOWN" => LiveVerdict(l)' = LiveVerdict(l)]_ledgerVars
==============================================================================
