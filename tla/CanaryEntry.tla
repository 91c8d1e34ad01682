----------------------------- MODULE CanaryEntry -----------------------------
(***************************************************************************)
(* The live canary cycle of src/src/canary/cycle.ts: choose one candidate, *)
(* approve the router for the exact amount, buy once, revoke what is left. *)
(* The three actions live in three SQLite tables that every process of the *)
(* host shares; each leads to at most one transaction of one wallet.       *)
(***************************************************************************)
EXTENDS CanaryTx

CONSTANTS
    Candidate,    \* a launch with its COMPLETE baseline, hence one buy action
    NoCandidate,
    Deployments,  \* values of withApproval to consider
    OwnerActs,    \* does the wallet's owner change the allowance by hand?
    LedgerRewinds \* may a ledger rewind delete the baseline of a candidate?

Action == {"entry", "revoke"} \cup Candidate

ASSUME CanaryAssumption ==
    /\ NoCandidate \notin Candidate
    /\ {"entry", "revoke", "none"} \cap Candidate = {}
    /\ Deployments \subseteq BOOLEAN
    /\ OwnerActs \in BOOLEAN
    /\ LedgerRewinds \in BOOLEAN

VARIABLES
    withApproval, \* the full E0 stack, or BUY-only: liveAuthorization allows no other
    parent,       \* launch_id and parent_buy_action_id of the entry approval
    baseline,     \* is a candidate's baseline fresh, too old, or deleted?
    allowance,    \* WETH allowance of the router: zero, the entry amount, other
    choice        \* choice[p]: the candidate of the cycle, baselines not vetted yet

tables == <<rows, parent>>
around == <<withApproval, baseline, allowance, network, failures>>
aside == <<withApproval, parent, baseline, allowance, choice>>
vars == <<rows, network, local, failures, aside>>

Steps == {"idle", "vet", "quote", "entryPreflight", "entryReserve", "liveAllowance",
          "buyPreflight", "buyReserve", "recheck", "sign", "broadcast", "submit", "receipt",
          "observe", "include", "revert", "halt", "haltUpdate", "recover", "cleanup",
          "revokeAllowance", "revokePreflight", "revokeReserve", "postAllowance", "terminal"}

Locals == [pc : Steps, act : Action \cup {"none"}, mode : Modes]
Choice == [cand : Candidate \cup {NoCandidate}, todo : SUBSET Candidate]

TypeOK ==
    /\ withApproval \in Deployments
    /\ rows \in [Action -> Row]
    /\ parent \in Candidate \cup {NoCandidate}
    /\ baseline \in [Candidate -> {"fresh", "expired", "missing"}]
    /\ tx \in [Action -> TxStates]
    /\ sent \in [Action -> Nat]
    /\ allowance \in {"zero", "exact", "other"}
    /\ local \in [Process -> Locals]
    /\ failures \in Nat
    /\ choice \in [Process -> Choice]

Init ==
    /\ withApproval \in Deployments
    /\ rows = [a \in Action |-> Absent]
    /\ parent = NoCandidate
    /\ baseline = [c \in Candidate |-> "fresh"]
    /\ tx = [a \in Action |-> "none"]
    /\ sent = [a \in Action |-> 0]
    /\ allowance = "zero"
    /\ local = [p \in Process |-> Idle]
    /\ failures = 0
    /\ choice = [p \in Process |-> [cand |-> NoCandidate, todo |-> {}]]

------------------------------------------------------------------------------
(* The start of a cycle: what the tables say is taken up in this order.    *)

OpenBuys == {c \in Candidate : IsOpen(c)}
CommittedBuys == {c \in Candidate : rows[c].state \notin {"NONE", "SKIPPED"}}
\* Mutant: an open buy does not keep the cycle from going on.
NoApprovalOpen == ~IsOpen("revoke") /\ ~IsOpen("entry")

NothingOpen == OpenBuys = {} /\ ~IsOpen("revoke") /\ ~IsOpen("entry")

TakeUpBuy(p) ==
    /\ At(p, "idle")
    /\ \E c \in OpenBuys : Reconcile(p, c, "reconcile")
    /\ UNCHANGED <<tables, choice, around>>

TakeUpRevoke(p) ==
    /\ At(p, "idle")
    /\ OpenBuys = {}
    /\ IsOpen("revoke")
    /\ Reconcile(p, "revoke", "reconcile")
    /\ UNCHANGED <<tables, choice, around>>

TakeUpEntry(p) ==
    /\ At(p, "idle")
    /\ OpenBuys = {}
    /\ ~IsOpen("revoke")
    /\ IsOpen("entry")
    /\ Reconcile(p, "entry", "reconcile")
    /\ UNCHANGED <<tables, choice, around>>

\* The parent buy is over, or a revoke went through before the entry row was closed.
ParentIsOver ==
    \/ rows["revoke"].state = "INCLUDED"
    \/ rows[parent].state \in {"INCLUDED", "REVERTED", "SKIPPED"}

BeginCleanup(p) ==
    /\ At(p, "idle")
    /\ NothingOpen
    /\ rows["entry"].state = "INCLUDED"
    /\ ParentIsOver
    /\ Goto(p, "cleanup")
    /\ UNCHANGED <<tables, choice, around>>

\* INSERT OR IGNORE of a SKIPPED row.
InsertSkipped(c) ==
    rows' = [rows EXCEPT ![c] = IF rows[c] = Absent THEN Skipped ELSE rows[c]]

\* Mutant: an expired candidate blocks the cycle and is left as it is.
ExpireNothing(p) == At(p, "idle") /\ UNCHANGED vars

\* The approved candidate is too old: its buy is closed and the approval revoked.
ExpireParent(p) ==
    /\ At(p, "idle")
    /\ NothingOpen
    /\ rows["entry"].state = "INCLUDED"
    /\ ~ParentIsOver
    /\ baseline[parent] = "expired"
    /\ InsertSkipped(parent)
    /\ Goto(p, "cleanup")
    /\ UNCHANGED <<parent, choice, around>>

\* The candidate of the cycle is c, and the baselines of `pending` are not vetted.
Choose(p, c, pending) == choice' = [choice EXCEPT ![p] = [cand |-> c, todo |-> pending]]
Forget(p) == Choose(p, NoCandidate, {})

\* The frozen candidate of the approval, or the pending baselines.
BeginVet(p) ==
    /\ At(p, "idle")
    /\ NothingOpen
    /\ \/ /\ rows["entry"].state = "INCLUDED"
          /\ ~ParentIsOver
          /\ baseline[parent] = "fresh"
          /\ Choose(p, parent, {parent})
       \/ /\ rows["entry"] = Absent
          /\ \E pending \in SUBSET {c \in Candidate : baseline[c] = "fresh" /\ rows[c] = Absent} :
                pending # {} /\ Choose(p, NoCandidate, pending)
    /\ Goto(p, "vet")
    /\ UNCHANGED <<tables, around>>

\* A cycle that reports NONE or BLOCKED and changes nothing.
NothingToDo(p) == At(p, "idle") /\ UNCHANGED vars

------------------------------------------------------------------------------
(* Fast Vet and the quote.  Their inputs are ledger and market data, so    *)
(* every decision is possible.                                             *)

\* REJECT or UNKNOWN, or PASS when the buy slot is taken: the row says SKIPPED.
SkipCandidate(p) ==
    /\ At(p, "vet")
    /\ choice[p].cand = NoCandidate
    /\ \E c \in choice[p].todo :
          /\ InsertSkipped(c)
          /\ Choose(p, NoCandidate, choice[p].todo \ {c})
          /\ IF choice[p].todo = {c} THEN End(p) ELSE UNCHANGED local
    /\ UNCHANGED <<parent, around>>

\* PASS, and countCommittedBuys is below the limit of one.
PassCandidate(p) ==
    /\ At(p, "vet")
    /\ CommittedBuys = {}
    /\ \E c \in choice[p].todo :
          /\ choice[p].cand \in {NoCandidate, c}
          /\ Choose(p, c, {})
    /\ Goto(p, "quote")
    /\ UNCHANGED <<tables, around>>

\* REJECT of the candidate that was approved.
RejectParent(p) ==
    /\ At(p, "vet")
    /\ choice[p].cand # NoCandidate
    /\ InsertSkipped(choice[p].cand)
    /\ Goto(p, "cleanup")
    /\ Forget(p)
    /\ UNCHANGED <<parent, around>>

\* UNKNOWN, the slot already taken, a quote, a read or a preflight that fails.
GiveUp(p) ==
    /\ local[p].pc \in {"vet", "quote", "entryPreflight", "liveAllowance", "buyPreflight"}
    /\ End(p)
    /\ Forget(p)
    /\ UNCHANGED <<tables, around>>

\* The entry approval is off: the quote is followed by the preflight of the swap.
BuyOnly(p) ==
    /\ At(p, "quote")
    /\ ~withApproval
    /\ Goto(p, "buyPreflight")
    /\ UNCHANGED <<tables, choice, around>>

\* advanceCanaryE0EntryApproval: the approval must exist and cover this buy.
AdvanceEntry(p) ==
    /\ At(p, "quote")
    /\ withApproval
    /\ \/ rows["entry"] = Absent /\ Goto(p, "entryPreflight") /\ UNCHANGED choice
       \/ /\ rows["entry"].state = "INCLUDED"
          /\ parent = choice[p].cand
          /\ Goto(p, "liveAllowance")
          /\ UNCHANGED choice
       \/ /\ IsOpen("entry")
          /\ parent = choice[p].cand
          /\ Reconcile(p, "entry", "advance")
          /\ Forget(p)
    /\ UNCHANGED <<tables, around>>

\* preflightApproval: the router must have no allowance yet.
PreflightEntry(p) ==
    /\ At(p, "entryPreflight")
    /\ allowance = "zero"
    /\ Goto(p, "entryReserve")
    /\ UNCHANGED <<tables, choice, around>>

\* insertReserved; singleton_key is UNIQUE, the loser does not sign.
ReserveEntry(p) ==
    /\ At(p, "entryReserve")
    /\ IF rows["entry"] = Absent
       THEN /\ rows' = [rows EXCEPT !["entry"] = Reserved]
            /\ parent' = choice[p].cand
            /\ Execute(p, "entry")
       ELSE End(p) /\ UNCHANGED tables
    /\ Forget(p)
    /\ UNCHANGED around

\* READY_TO_BUY only while the allowance on the chain is exactly the amount.
ReadLiveAllowance(p) ==
    /\ At(p, "liveAllowance")
    /\ allowance = "exact"
    /\ Goto(p, "buyPreflight")
    /\ UNCHANGED <<tables, choice, around>>

\* preflight of the swap: the allowance covers the amount, and with an entry
\* approval it is still exactly the amount.
PreflightBuy(p) ==
    /\ At(p, "buyPreflight")
    /\ allowance = "exact" \/ (allowance = "other" /\ ~withApproval)
    /\ Goto(p, "buyReserve")
    /\ UNCHANGED <<tables, choice, around>>

\* Mutant: the partial UNIQUE index over committed buys is missing.
ReserveBuyUnindexed(p) ==
    /\ At(p, "buyReserve")
    /\ LET c == choice[p].cand IN
       IF rows[c] = Absent
       THEN rows' = [rows EXCEPT ![c] = Reserved] /\ Execute(p, c)
       ELSE End(p) /\ UNCHANGED rows
    /\ Forget(p)
    /\ UNCHANGED <<parent, around>>

\* insert: INSERTED, DUPLICATE of the same action, or BUY_LIMIT.
ReserveBuy(p) ==
    /\ At(p, "buyReserve")
    /\ LET c == choice[p].cand IN
       IF rows[c] = Absent /\ CommittedBuys = {}
       THEN rows' = [rows EXCEPT ![c] = Reserved] /\ Execute(p, c)
       ELSE End(p) /\ UNCHANGED rows
    /\ Forget(p)
    /\ UNCHANGED <<parent, around>>

------------------------------------------------------------------------------
(* What the three actions demand on the way from reservation to receipt.   *)

\* The approvals read the allowance again before they sign.
AllowanceToSign(a) ==
    CASE a = "entry" -> allowance = "zero"
      [] a = "revoke" -> allowance = "exact"
      [] OTHER -> TRUE

\* The reads of sign, signApprovalBound and signEntryApprovalRevoke.  A buy that
\* fails to be signed is not parked, it is left as it is.
Recheck(p) ==
    /\ At(p, "recheck")
    /\ IF AllowanceToSign(local[p].act) THEN Goto(p, "sign") ELSE SigningThrew(p, Candidate)
    /\ UNCHANGED <<rows, aside, network, failures>>

\* What markIncluded demands of the allowance the chain reports.
AllowanceToInclude(a) ==
    CASE a = "entry" -> allowance = "exact"
      [] a = "revoke" -> allowance = "zero"
      [] OTHER -> TRUE

\* markIncluded; after a revoke the entry row is closed.
Include(p) ==
    /\ MarkIncluded(p)
    /\ IF local[p].act # "revoke" THEN End(p)
       ELSE IF local[p].mode = "reconcile" THEN Goto(p, "recover")
       ELSE Goto(p, "terminal")
    /\ UNCHANGED aside

Transact(p) ==
    /\ TransactionStep(p, Candidate, AllowanceToInclude(local[p].act))
    /\ UNCHANGED aside

------------------------------------------------------------------------------
(* cleanupCanaryE0EntryApproval.                                           *)

\* The cycle that has just recorded the revoke reads the entry row again.
Recover(p) ==
    /\ At(p, "recover")
    /\ IF rows["entry"].state = "INCLUDED" THEN Goto(p, "cleanup") ELSE End(p)
    /\ UNCHANGED <<tables, choice, around>>

\* advanceCanaryE0EntryApprovalRevoke.
AdvanceRevoke(p) ==
    /\ At(p, "cleanup")
    /\ CASE rows["revoke"].state = "NONE" -> Goto(p, "revokeAllowance")
         [] rows["revoke"].state = "INCLUDED" -> Goto(p, "postAllowance")
         [] IsOpen("revoke") -> Reconcile(p, "revoke", "advance")
         [] OTHER -> End(p)
    /\ UNCHANGED <<tables, choice, around>>

\* Mutant: an approval whose buy is over is taken for spent.
AssumeSpent(p) ==
    /\ At(p, "revokeAllowance")
    /\ Goto(p, "terminal")
    /\ UNCHANGED <<tables, choice, around>>

\* Nothing left to revoke, exactly the amount, or BLOCKED_SETUP on any other value.
ReadRevokeAllowance(p) ==
    /\ At(p, "revokeAllowance")
    /\ CASE allowance = "zero" -> Goto(p, "terminal")
         [] allowance = "exact" -> Goto(p, "revokePreflight")
         [] OTHER -> End(p)
    /\ UNCHANGED <<tables, choice, around>>

PreflightRevoke(p) ==
    /\ At(p, "revokePreflight")
    /\ IF allowance = "exact" THEN Goto(p, "revokeReserve") ELSE End(p)
    /\ UNCHANGED <<tables, choice, around>>

\* insertReserved of the revoke store; singleton_key is UNIQUE here too.
ReserveRevoke(p) ==
    /\ At(p, "revokeReserve")
    /\ IF rows["revoke"] = Absent
       THEN rows' = [rows EXCEPT !["revoke"] = Reserved] /\ Execute(p, "revoke")
       ELSE End(p) /\ UNCHANGED rows
    /\ UNCHANGED <<parent, choice, around>>

\* A revoke that is recorded already: the allowance must still be zero.
ReadPostAllowance(p) ==
    /\ At(p, "postAllowance")
    /\ IF allowance = "zero" THEN Goto(p, "terminal") ELSE End(p)
    /\ UNCHANGED <<tables, choice, around>>

\* markCleanupTerminal, a compare-and-set.
CloseEntry(p) ==
    /\ At(p, "terminal")
    /\ rows' = [rows EXCEPT !["entry"].state = IF @ = "INCLUDED" THEN "SKIPPED" ELSE @]
    /\ End(p)
    /\ UNCHANGED <<parent, choice, around>>

------------------------------------------------------------------------------
Advance(p) ==
    \/ TakeUpBuy(p) \/ TakeUpRevoke(p) \/ TakeUpEntry(p)
    \/ BeginCleanup(p) \/ ExpireParent(p) \/ BeginVet(p)
    \/ SkipCandidate(p) \/ PassCandidate(p) \/ RejectParent(p) \/ GiveUp(p)
    \/ BuyOnly(p) \/ AdvanceEntry(p) \/ PreflightEntry(p) \/ ReserveEntry(p)
    \/ ReadLiveAllowance(p) \/ PreflightBuy(p) \/ ReserveBuy(p)
    \/ Recheck(p) \/ Transact(p) \/ Include(p)
    \/ Recover(p) \/ AdvanceRevoke(p) \/ ReadRevokeAllowance(p) \/ PreflightRevoke(p)
    \/ ReserveRevoke(p) \/ ReadPostAllowance(p) \/ CloseEntry(p)

Stops(p) == Crash(p) /\ Forget(p) /\ UNCHANGED <<withApproval, parent, baseline, allowance>>

ProcessFails(p) == (TransactionFails(p, Candidate) /\ UNCHANGED aside) \/ Stops(p)

\* What the swap leaves of an allowance that covers it.
AfterSwap == CASE allowance = "exact" -> {"zero"}
               [] allowance = "other" -> {"exact", "other"}
               [] OTHER -> {}

\* A block includes the transaction of action a.  The swap spends from the
\* allowance and reverts when it is too small; an approval sets it.
MineTx(a) ==
    /\ tx[a] = "pending"
    /\ \/ /\ tx' = [tx EXCEPT ![a] = "success"]
          /\ CASE a = "entry" -> allowance' = "exact"
               [] a = "revoke" -> allowance' = "zero"
               [] OTHER -> allowance' \in AfterSwap
       \/ /\ tx' = [tx EXCEPT ![a] = "reverted"]
          /\ UNCHANGED allowance
    /\ UNCHANGED <<withApproval, tables, baseline, choice, sent, local, failures>>

\* The owner of the wallet approves some amount by hand.
OwnerApproves ==
    /\ OwnerActs
    /\ allowance' \in {"zero", "exact", "other"} \ {allowance}
    /\ UNCHANGED <<withApproval, tables, baseline, choice, network, local, failures>>

\* Blocks go by, or the ledger is rewound below the candidate's baseline.
BaselineAges(c) ==
    /\ \/ baseline[c] = "fresh" /\ baseline' = [baseline EXCEPT ![c] = "expired"]
       \/ LedgerRewinds /\ baseline[c] # "missing" /\ baseline' = [baseline EXCEPT ![c] = "missing"]
    /\ UNCHANGED <<withApproval, tables, allowance, choice, network, local, failures>>

Environment ==
    \/ \E a \in Action : MineTx(a)
    \/ OwnerApproves
    \/ \E c \in Candidate : BaselineAges(c)

Next ==
    \/ \E p \in Process : Advance(p) \/ NothingToDo(p) \/ ProcessFails(p)
    \/ Environment

Spec == Init /\ [][Next]_vars

\* canarySniperCli.ts runs one cycle after the other and is started again after
\* an exception.  Nothing is assumed of the network, the owner or the ledger.
FairSpec == Spec /\ \A p \in Process : WF_vars(Advance(p))

------------------------------------------------------------------------------
(* Each table against the promise of a one-shot slot.                      *)

Holds(a) == rows[a].state \notin {"NONE", "SKIPPED"} \/ rows[a].signed
Holder(S) == IF \E a \in S : Holds(a) THEN CHOOSE a \in S : Holds(a) ELSE "none"

BuySlot == INSTANCE OneShot WITH
    Contender <- Candidate, Nobody <- "none", holder <- Holder(Candidate),
    durable <- \E c \in Candidate : rows[c].signed, sent <- [c \in Candidate |-> sent[c]]
EntrySlot == INSTANCE OneShot WITH
    Contender <- {"entry"}, Nobody <- "none", holder <- Holder({"entry"}),
    durable <- rows["entry"].signed, sent <- [a \in {"entry"} |-> sent[a]]
RevokeSlot == INSTANCE OneShot WITH
    Contender <- {"revoke"}, Nobody <- "none", holder <- Holder({"revoke"}),
    durable <- rows["revoke"].signed, sent <- [a \in {"revoke"} |-> sent[a]]

\* Over all candidates, processes, crashes and failed calls there is one buy,
\* one entry approval (whose row outlives its cleanup) and one revoke at most:
\* one reservation each, stored as signed before it is sent, and sent once.
OneOfEach == BuySlot!Spec /\ EntrySlot!Spec /\ RevokeSlot!Spec

------------------------------------------------------------------------------
(* Safety.                                                                 *)

\* What a row says of its transaction is what the chain did with it, whichever
\* process recorded it; an approval is only closed after it was mined.
RecordsAreTrue ==
    \A a \in Action :
        /\ rows[a].state = "INCLUDED" => tx[a] = "success"
        /\ rows[a].state = "REVERTED" => tx[a] = "reverted"
        /\ a = "entry" /\ rows[a].state = "SKIPPED" => tx[a] = "success"

StaysParked ==
    \A a \in Action :
        rows[a].state = "SAFE_HALT" /\ ~rows[a].signed =>
            rows'[a] = rows[a] /\ sent'[a] = sent[a]

\* A reservation that was parked unsigned is never signed or sent any more,
\* also not by the process that made it and is still at work on it.
ParkedForGood == [][StaysParked]_vars

\* With one process and no hand but its own on the allowance, a buy that waits
\* to be mined finds exactly its allowance: no cleanup revokes it meanwhile.
BuyIsCovered == \A c \in Candidate : tx[c] = "pending" => allowance = "exact"

\* A closed approval leaves no allowance behind and no transaction under way
\* that could still spend, restore or revoke one.
NothingLeftBehind ==
    rows["entry"].state = "SKIPPED" =>
        allowance = "zero" /\ \A a \in Action : tx[a] # "pending"

(* Liveness.                                                               *)

\* The outcome of a mined transaction reaches its row, whatever crashed between
\* the reservation, the broadcast and the receipt.
MinedIsRecorded ==
    \A a \in Action : (tx[a] \in Receipts /\ IsOpen(a)) ~> ~IsOpen(a)

Waits(a) == IsOpen(a) /\ tx[a] \notin Receipts
Exposed ==
    /\ rows["entry"].state = "INCLUDED"
    /\ baseline[parent] = "expired" \/ ParentIsOver

\* An approval whose buy is over or too old is closed in the end, except when
\* the buy or the revoke is parked or never mined, the revoke reverts, or a
\* rewind of the ledger took the frozen baseline it is bound to: without it
\* every cycle ends in BASELINE_MISSING before the cleanup (cycle.ts:193).
ApprovalIsClosed ==
    [](Exposed =>
        <>(\/ rows["entry"].state = "SKIPPED"
           \/ [](\E c \in Candidate : c = parent /\ Waits(c))
           \/ [](Waits("revoke") \/ rows["revoke"].state = "REVERTED")
           \/ [](\E c \in Candidate : c = parent /\ baseline[c] = "missing")))
==============================================================================
