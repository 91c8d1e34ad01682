------------------------------ MODULE RoundTrip ------------------------------
(***************************************************************************)
(* The way back of the canary: once the buy is INCLUDED, the router is     *)
(* approved for the acquired tokens and these are sold, each at most once  *)
(* (src/src/canary/roundTripWiring.ts and roundTripRuntime.ts).            *)
(*                                                                         *)
(* One call of the wiring advances the pair of actions, and if only a      *)
(* fresh quote is missing it asks for one and advances once more.          *)
(***************************************************************************)
EXTENDS CanaryTx

CONSTANTS
    MaxWeth,        \* WETH units the wallet may hold (bound of the model)
    SharedFailures  \* failures while several processes run (bound of the model)

ASSUME RoundTripAssumption ==
    /\ MaxWeth \in Nat
    /\ SharedFailures \in Nat

Action == {"approval", "exit"}

VARIABLES
    bought,      \* is the row of the buy INCLUDED?
    allowance,   \* the router's allowance of the bought token: zero, exact, other
    tokens,      \* does the wallet hold the acquired amount?
    weth,        \* WETH of the wallet, in units of what the exit yields
    before,      \* output_balance_before of the exit row
    noted        \* noted[p]: the WETH balance p read in its preflight of the exit

wallet == <<allowance, tokens, weth>>
exitRow == <<before, noted>>
around == <<bought, wallet, network, failures>>
aside == <<bought, wallet, exitRow>>
vars == <<rows, network, local, failures, aside>>

Steps == {"idle", "quote", "quoted", "approvalPreflight", "approvalReserve", "exitPreflight",
          "exitReserve", "recheck", "sign", "broadcast", "submit", "receipt", "observe",
          "include", "revert", "halt", "haltUpdate", "away"}

\* The deployment: all processes run, and the wallet's owner approves, sells and moves
\* WETH by hand; or one runs, the others are away, and the owner leaves the wallet alone.
Away == [Idle EXCEPT !.pc = "away"]
Running == {p \in Process : ~At(p, "away")}
Lone == Running # Process

TypeOK ==
    /\ rows \in [Action -> Row]
    /\ bought \in BOOLEAN
    /\ tx \in [Action -> TxStates]
    /\ sent \in [Action -> Nat]
    /\ allowance \in {"zero", "exact", "other"}
    /\ tokens \in BOOLEAN
    /\ weth \in 0..MaxWeth
    /\ before \in 0..MaxWeth
    /\ noted \in [Process -> 0..MaxWeth]
    /\ local \in [Process -> [pc : Steps, act : Action \cup {"none"}, mode : Modes]]
    /\ failures \in Nat

Init ==
    /\ rows = [a \in Action |-> Absent]
    /\ bought = FALSE
    /\ tx = [a \in Action |-> "none"]
    /\ sent = [a \in Action |-> 0]
    /\ allowance = "zero"
    /\ tokens = TRUE
    /\ weth = 0
    /\ before = 0
    /\ noted = [p \in Process |-> 0]
    /\ \E running \in {Process} \cup {{p} : p \in Process} :
          local = [p \in Process |-> IF p \in running THEN Idle ELSE Away]
    /\ failures = 0

------------------------------------------------------------------------------
(* advanceCanaryE0RoundTrip: the approval first, the exit after it.        *)

\* Called first without a quote, then with one.
Advancing(p) == bought /\ (At(p, "idle") \/ At(p, "quoted"))

\* Mutant: an approval that was sent is as good as an included one.
ApprovalSent == rows["approval"].state \in {"SUBMITTED", "INCLUDED"}

ApprovalIncluded == rows["approval"].state = "INCLUDED"
ExitMissing == ApprovalIncluded /\ rows["exit"] = Absent

BeginApproval(p) ==
    /\ Advancing(p)
    /\ rows["approval"] = Absent
    /\ Goto(p, "approvalPreflight")
    /\ UNCHANGED <<rows, exitRow, around>>

TakeUpApproval(p) ==
    /\ Advancing(p)
    /\ IsOpen("approval")
    /\ Reconcile(p, "approval", "reconcile")
    /\ UNCHANGED <<rows, exitRow, around>>

\* Mutant: the approval is looked at again, although the exit has spent it.
TakeUpExitIfApproved(p) ==
    /\ Advancing(p)
    /\ ApprovalIncluded
    /\ IsOpen("exit")
    /\ allowance = "exact"
    /\ Reconcile(p, "exit", "reconcile")
    /\ UNCHANGED <<rows, exitRow, around>>

TakeUpExit(p) ==
    /\ Advancing(p)
    /\ ApprovalIncluded
    /\ IsOpen("exit")
    /\ Reconcile(p, "exit", "reconcile")
    /\ UNCHANGED <<rows, exitRow, around>>

\* NEEDS_EXIT_QUOTE.
AskQuote(p) ==
    /\ At(p, "idle")
    /\ bought
    /\ ExitMissing
    /\ Goto(p, "quote")
    /\ UNCHANGED <<rows, exitRow, around>>

\* A quote at the head, under an unchanged block hash.
Quote(p) ==
    /\ At(p, "quote")
    /\ Goto(p, "quoted")
    /\ UNCHANGED <<rows, exitRow, around>>

BeginExit(p) ==
    /\ At(p, "quoted")
    /\ bought
    /\ ExitMissing
    /\ Goto(p, "exitPreflight")
    /\ UNCHANGED <<rows, exitRow, around>>

Over == {"INCLUDED", "REVERTED"}

\* Another process got ahead: the second call finds the approval reverted, the
\* exit over, or the buy no longer INCLUDED.
Blocked(p) ==
    /\ At(p, "quoted")
    /\ ~bought \/ rows["approval"].state = "REVERTED" \/ (ApprovalIncluded /\ rows["exit"].state \in Over)
    /\ End(p)
    /\ UNCHANGED <<rows, exitRow, around>>

\* A quote that cannot be had, or a preflight that fails.
GiveUp(p) ==
    /\ local[p].pc \in {"quote", "approvalPreflight", "exitPreflight"}
    /\ End(p)
    /\ UNCHANGED <<rows, exitRow, around>>

\* WAITING_BUY, BUY_NOT_INCLUDED, COMPLETE, BLOCKED_SETUP: nothing is changed.
NothingToDo(p) == At(p, "idle") /\ UNCHANGED vars

------------------------------------------------------------------------------
(* executeApproval and executeExit.                                        *)

\* The tokens are there, and the router has no allowance yet.
PreflightApproval(p) ==
    /\ At(p, "approvalPreflight")
    /\ tokens
    /\ allowance = "zero"
    /\ Goto(p, "approvalReserve")
    /\ UNCHANGED <<rows, exitRow, around>>

\* insertReserved: an INCLUDED parent, and parent_buy_action_id is UNIQUE.
ReserveApproval(p) ==
    /\ At(p, "approvalReserve")
    /\ IF bought /\ rows["approval"] = Absent
       THEN rows' = [rows EXCEPT !["approval"] = Reserved] /\ Execute(p, "approval")
       ELSE End(p) /\ UNCHANGED rows
    /\ UNCHANGED <<exitRow, around>>

\* The allowance is exactly the acquired amount; the WETH balance is kept in mind.
PreflightExit(p) ==
    /\ At(p, "exitPreflight")
    /\ tokens
    /\ allowance = "exact"
    /\ noted' = [noted EXCEPT ![p] = weth]
    /\ Goto(p, "exitReserve")
    /\ UNCHANGED <<rows, before, around>>

\* Mutant: the insert replaces the row of another process.
ReserveExitAgain(p) ==
    /\ At(p, "exitReserve")
    /\ rows' = [rows EXCEPT !["exit"] = Reserved]
    /\ before' = noted[p]
    /\ Execute(p, "exit")
    /\ UNCHANGED <<noted, around>>

\* insertReserved of the exit store.
ReserveExit(p) ==
    /\ At(p, "exitReserve")
    /\ IF bought /\ rows["exit"] = Absent
       THEN /\ rows' = [rows EXCEPT !["exit"] = Reserved]
            /\ before' = noted[p]
            /\ Execute(p, "exit")
       ELSE End(p) /\ UNCHANGED <<rows, before>>
    /\ UNCHANGED <<noted, around>>

\* The approval reads balance and allowance again.  The exit only looks at the
\* age of its quote and at its deadline: blocks may have gone by.
Recheck(p) ==
    /\ At(p, "recheck")
    /\ \E ready \in IF local[p].act = "exit" THEN BOOLEAN ELSE {tokens /\ allowance = "zero"} :
          IF ready THEN Goto(p, "sign") ELSE SigningThrew(p, {})
    /\ UNCHANGED <<rows, aside, network, failures>>

\* What markIncluded demands: the exact allowance, a balance that has grown.
Evidence(a) == IF a = "exit" THEN weth > before ELSE allowance = "exact"

Transact(p) ==
    /\ TransactionStep(p, {}, Evidence(local[p].act))
    /\ UNCHANGED aside

Include(p) ==
    /\ MarkIncluded(p)
    /\ End(p)
    /\ UNCHANGED aside

------------------------------------------------------------------------------
Advance(p) ==
    \/ BeginApproval(p) \/ TakeUpApproval(p) \/ TakeUpExit(p)
    \/ AskQuote(p) \/ Quote(p) \/ BeginExit(p) \/ Blocked(p) \/ GiveUp(p)
    \/ PreflightApproval(p) \/ ReserveApproval(p) \/ PreflightExit(p) \/ ReserveExit(p)
    \/ Recheck(p) \/ Transact(p) \/ Include(p)

ProcessFails(p) ==
    /\ p \in Running
    /\ Lone \/ failures < SharedFailures
    /\ TransactionFails(p, {}) \/ Crash(p)
    /\ UNCHANGED aside

\* The buy cycle records its buy.  A second process whose select came before
\* may park the row again, as HaltUpdate does with the rows here.
BuyRecorded ==
    /\ \/ ~bought
       \/ \E p, q \in Running : p # q
    /\ bought' = ~bought
    /\ UNCHANGED <<rows, exitRow, wallet, network, local, failures>>

\* What the swap leaves of an allowance that covers it.
AfterSwap == CASE allowance = "exact" -> {"zero"}
               [] allowance = "other" -> {"exact", "other"}
               [] OTHER -> {}

\* A block includes the transaction of action a, or it reverts.
MineTx(a) ==
    /\ tx[a] = "pending"
    /\ \/ /\ a = "approval"
          /\ allowance' = "exact"
          /\ tx' = [tx EXCEPT ![a] = "success"]
          /\ UNCHANGED <<tokens, weth>>
       \/ /\ a = "exit"
          /\ tokens
          /\ weth < MaxWeth
          /\ allowance' \in AfterSwap
          /\ tokens' = FALSE
          /\ weth' = weth + 1
          /\ tx' = [tx EXCEPT ![a] = "success"]
       \/ /\ tx' = [tx EXCEPT ![a] = "reverted"]
          /\ UNCHANGED wallet
    /\ UNCHANGED <<rows, bought, exitRow, sent, local, failures>>

\* The owner approves an amount, sells the tokens, or moves WETH.
OwnerMoves ==
    /\ ~Lone
    /\ \/ allowance' \in {"zero", "exact", "other"} \ {allowance} /\ UNCHANGED <<tokens, weth>>
       \/ tokens /\ tokens' = FALSE /\ UNCHANGED <<allowance, weth>>
       \/ weth' \in 0..MaxWeth \ {weth} /\ UNCHANGED <<allowance, tokens>>
    /\ UNCHANGED <<rows, bought, exitRow, network, local, failures>>

Environment == BuyRecorded \/ (\E a \in Action : MineTx(a)) \/ OwnerMoves

Next ==
    \/ \E p \in Process : Advance(p) \/ NothingToDo(p) \/ ProcessFails(p)
    \/ Environment

Spec == Init /\ [][Next]_vars

\* The loop of canarySniperCli.ts, in one process, started again after an exception.
FairSpec == Spec /\ WF_vars(Lone /\ \E p \in Process : Advance(p))

------------------------------------------------------------------------------
(* Both tables against the promise of a one-shot slot.                     *)

Holder(a) == IF rows[a] = Absent THEN "none" ELSE a

ApprovalSlot == INSTANCE OneShot WITH
    Contender <- {"approval"}, Nobody <- "none", holder <- Holder("approval"),
    durable <- rows["approval"].signed, sent <- [a \in {"approval"} |-> sent[a]]
ExitSlot == INSTANCE OneShot WITH
    Contender <- {"exit"}, Nobody <- "none", holder <- Holder("exit"),
    durable <- rows["exit"].signed, sent <- [a \in {"exit"} |-> sent[a]]

\* Whatever two processes, crashes and lost answers do, the exit approval and
\* the exit are each reserved once, stored as signed before they are sent, and
\* sent once: the acquired tokens are not sold twice.
OneOfEach == ApprovalSlot!Spec /\ ExitSlot!Spec

------------------------------------------------------------------------------
\* INCLUDED and REVERTED are what the chain did with the transaction, even when
\* the owner's own transfers bring about the balances that are read as evidence.
RecordsAreTrue ==
    \A a \in Action :
        /\ rows[a].state = "INCLUDED" => tx[a] = "success"
        /\ rows[a].state = "REVERTED" => tx[a] = "reverted"

\* No exit is reserved, and none is sent, before the approval it spends was
\* mined, however the exact allowance its preflight saw came about.
ExitFollowsApproval == rows["exit"] # Absent => tx["approval"] = "success"

\* One process, as deployed: the outcome of a mined exit approval or exit reaches its
\* row, also after a crash, and although the exit has spent the approval's allowance
\* by then.
MinedIsRecorded ==
    Lone => \A a \in Action : (tx[a] \in Receipts /\ IsOpen(a)) ~> ~IsOpen(a)
==============================================================================
