----------------------------- MODULE CreatorJoin -----------------------------
(***************************************************************************)
(* The point-in-time join of a launch with the past of its creator         *)
(* (src/src/forensic/creatorOutcome.ts), the fast vet that decides on it    *)
(* (src/src/evaluation/fastVet.ts) and the candidate rule of the creator    *)
(* signal (src/src/evaluation/creatorSignal.ts).                            *)
(*                                                                         *)
(* The three tables are functions on launches: facts[l] is the place of l,  *)
(* baselines[l] its batch and outcomes[l] its 24h receipt (one per launch:  *)
(* the table has one slot for each launch, horizon and policy).  Height 0   *)
(* stands for an absent row.  The counts of the feature receipt are kept as *)
(* the sets they count.                                                     *)
(***************************************************************************)
EXTENDS Integers

CONSTANTS
    Creator,      \* the creator of each launch
    Seeded,       \* creators with launches in CANARY_HISTORICAL_CREATOR_SEED
    AdverseSeed   \* those of them with an adverse launch there

ASSUME SeedAssumption == AdverseSeed \subseteq Seeded

\* What the batch says of the $1 leg; all but NONE and UNVERIFIED have status COMPLETE.
Quality == {"NONE", "UNVERIFIED", "NO_ENTRY", "NO_REVERSE", "EXECUTABLE"}
IsComplete(baseline) == baseline.quality \in {"NO_ENTRY", "NO_REVERSE", "EXECUTABLE"}

\* executableReturnBps of an outcome; Unvalued for status UNVERIFIED.
Unvalued == -1
PAR_RECOVERY_BPS == 10000
CATASTROPHIC_RECOVERY_BPS == 2000

\* CATASTROPHIC_LOSS, or EXIT_FAILURE and LIQUIDITY_COLLAPSE, which recover nothing.
IsAdverse(recovery) == recovery # Unvalued /\ recovery <= CATASTROPHIC_RECOVERY_BPS

\* compareFacts: block, then log index (the order of the launches' names).
Precedes(point, l, other, m) ==
    point.block < other.block \/ (point.block = other.block /\ l < m)

PriorLaunches(facts, target) ==
    {l \in DOMAIN facts : /\ facts[l].block > 0
                          /\ Creator[l] = Creator[target]
                          /\ Precedes(facts[l], l, facts[target], target)}

\* Mutant: a receipt observed after the decision counts as well.
EligibleEver(facts, outcomes, target, decisionBlock) ==
    {l \in PriorLaunches(facts, target) : outcomes[l].at.block > 0}

\* selectEligibleOutcomes: the prior launches whose receipt was observed by then.
Eligible(facts, outcomes, target, decisionBlock) ==
    {l \in PriorLaunches(facts, target) : outcomes[l].at.block \in 1..decisionBlock}

\* The feature receipt of a target decided at decisionBlock.
Feature(facts, outcomes, target, decisionBlock) ==
    LET eligible == Eligible(facts, outcomes, target, decisionBlock) IN
    [prior      |-> PriorLaunches(facts, target),
     sources    |-> eligible,
     classified |-> {l \in eligible : outcomes[l].recovery # Unvalued},
     adverse    |-> {l \in eligible : IsAdverse(outcomes[l].recovery)}]

\* candidateDecision of the creator signal: no missing evidence rejects.
CandidateRejects(feature) == feature.adverse # {}

\* classify, after applyHistoricalCreatorSeed added the seeded launches of the
\* creator, all of them classified.
Coverage(feature, seeded) ==
    CASE feature.prior = {} /\ ~ seeded -> "NO_HISTORY"
      [] feature.prior # {} /\ feature.classified = {} /\ ~ seeded -> "UNKNOWN"
      [] (feature.prior # {} \/ seeded) /\ feature.classified = feature.prior -> "COMPLETE"
      [] OTHER -> "PARTIAL"

KnownAdverse(feature, creator) == feature.adverse # {} \/ creator \in AdverseSeed

\* Mutant: an incomplete creator history is no reason to skip.
PassesUnlessAdverse(baseline, feature, creator) ==
    baseline.quality = "EXECUTABLE" /\ ~ KnownAdverse(feature, creator)

Passes(baseline, feature, creator) ==
    /\ baseline.quality = "EXECUTABLE"
    /\ ~ KnownAdverse(feature, creator)
    /\ Coverage(feature, creator \in Seeded) \in {"NO_HISTORY", "COMPLETE"}

Rejects(baseline, feature, creator) ==
    \/ baseline.quality \in {"NO_ENTRY", "NO_REVERSE"}
    \/ baseline.quality = "EXECUTABLE" /\ KnownAdverse(feature, creator)

\* evaluateFastVet.
FastVet(baseline, feature, creator) ==
    IF Rejects(baseline, feature, creator) THEN "REJECT"
    ELSE IF Passes(baseline, feature, creator) THEN "PASS"
    ELSE "UNKNOWN"
==============================================================================
