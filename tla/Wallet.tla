-------------------------------- MODULE Wallet --------------------------------
(***************************************************************************)
(* The canary's five transactions as the wallet feels them: the amounts    *)
(* that cycle.ts, roundTripRuntime.ts and viemCanaryExecutor.ts compute,   *)
(* check and sign, over a chain whose blocks reprice the pool, take time,  *)
(* and are replaced.  CanaryEntry and RoundTrip say which row exists when; *)
(* here one process runs both for one candidate, with the full E0 stack.   *)
(*                                                                         *)
(* A preflight and the insert that follows it are one step: the executor   *)
(* reads everything again before it signs.  Any read may fail (GiveUp).    *)
(***************************************************************************)
EXTENDS CanaryTx, Chain, SwapIntent, FiniteSets

CONSTANTS
    Candidate,    \* the launch with its COMPLETE baseline
    Dollar,       \* Dollar[b][f]: WETH units worth $1 at height b of fork f
    Rate,         \* Rate[b][f]: tokens the pool gives for a WETH unit there
    Funds,        \* WETH units the wallet starts with
    Held,         \* tokens of the launch the wallet holds already
    MaxQuoteAge   \* maxQuoteAgeBlocks, in blocks

ASSUME WalletAssumption ==
    /\ Dollar \in [Block -> [1..MaxReorgs + 1 -> Nat \ {0}]]
    /\ Rate \in [Block -> [1..MaxReorgs + 1 -> Nat \ {0}]]
    /\ Funds \in Nat
    /\ Held \in Nat
    /\ MaxQuoteAge \in 0..3

\* canarySniperCli.ts, which runs both cycles, is one process.
ASSUME SingleProcess == \A p, q \in Process : p = q

Action == {"entry", "buy", "revoke", "approval", "exit"}
Swaps == {"buy", "exit"}

VARIABLES
    history,   \* history[b]: the wallet after block b; above the head, as at the head
    minedAt,   \* minedAt[a]: the block that holds a's transaction, 0 when none
    intent,    \* intent_json of the rows
    nonce,     \* nonce column of the rows, -1 when not signed
    before,    \* output_balance_before of the rows of the swaps
    after,     \* output_balance_after
    plan       \* plan[p]: what p has read and built since it began to quote

columns == <<intent, nonce, before, after>>
chainSide == <<head, fork, place, history, minedAt>>
aside == <<chainSide, columns, plan>>
vars == <<rows, network, local, failures, aside>>

Steps == {"idle", "quote", "clock", "preflight", "recheck", "sign", "broadcast", "submit",
          "receipt", "observe", "include", "revert", "halt", "haltUpdate", "cleanup", "terminal"}

NoIntent == [amount |-> 0]
NoPlan == [quote |-> NoLocation, amount |-> 0, quoted |-> 0, swap |-> NoIntent, noted |-> 0]

\* The wallet as a call at the head finds it, and that block's timestamp.
Now == history[head]
Time(b) == b + 1
Point(b) == [block |-> b, fork |-> fork[b]]
DollarAt(point) == Dollar[point.block][point.fork]
RateAt(point) == Rate[point.block][point.fork]

Purse == [weth : Nat, tokens : Nat, wethAllowance : Nat, tokenAllowance : Nat, nonce : Nat]

TypeOK ==
    /\ ChainTypeOK
    /\ rows \in [Action -> Row]
    /\ tx \in [Action -> TxStates]
    /\ sent \in [Action -> Nat]
    /\ local \in [Process -> [pc : Steps, act : Action \cup {"none"}, mode : Modes]]
    /\ failures \in Nat
    /\ history \in [Block -> Purse]
    /\ minedAt \in [Action -> Block]
    /\ \A a \in Action : (minedAt[a] # 0) = (tx[a] \in Receipts) /\ minedAt[a] <= head
    /\ \A a \in Action : (rows[a] = Absent \/ rows[a] = Skipped) = (intent[a] = NoIntent)
    /\ \A a \in Action : rows[a].signed = (nonce[a] \in Nat)
    /\ before \in [Swaps -> Nat]
    /\ after \in [Swaps -> Nat]

Init ==
    /\ ChainInit
    /\ rows = [a \in Action |-> Absent]
    /\ tx = [a \in Action |-> "none"]
    /\ sent = [a \in Action |-> 0]
    /\ local = [p \in Process |-> Idle]
    /\ failures = 0
    /\ history = [b \in Block |-> [weth |-> Funds, tokens |-> Held, wethAllowance |-> 0,
                                   tokenAllowance |-> 0, nonce |-> 0]]
    /\ minedAt = [a \in Action |-> 0]
    /\ intent = [a \in Action |-> NoIntent]
    /\ nonce = [a \in Action |-> -1]
    /\ before = [s \in Swaps |-> 0]
    /\ after = [s \in Swaps |-> 0]
    /\ plan = [p \in Process |-> NoPlan]

------------------------------------------------------------------------------
(* What the executor demands of a swap, first in its preflight and again   *)
(* before it signs.                                                        *)

\* Mutant: the age of a quote is compared off by one.
QuoteOneOlder(i) == head - i.quote.block <= MaxQuoteAge + 1

\* assertQuoteFresh.
QuoteFresh(i) == head >= i.quote.block /\ head - i.quote.block <= MaxQuoteAge

\* assertCanaryDeadlineAgainstChainClock.
DeadlineOpen(i) == i.deadline > Time(head) /\ i.deadline - Time(head) <= MaxDeadlineSeconds

\* assertQuoteBlockCanonical.
QuoteCanonical(i) == fork[i.quote.block] = i.quote.fork

SwapStillGood(i) == QuoteFresh(i) /\ DeadlineOpen(i) /\ QuoteCanonical(i)

\* What a swap of the given amount yields at the price of a block.
Yield(i, point) == IF i.pays = "weth" THEN i.amount * RateAt(point) ELSE i.amount \div RateAt(point)

Covered(i, purse) ==
    IF i.pays = "weth" THEN purse.weth >= i.amount /\ purse.wethAllowance >= i.amount
    ELSE purse.tokens >= i.amount /\ purse.tokenAllowance >= i.amount

\* The swap goes through in block `point` on top of `purse`; the router compares
\* the block's timestamp with the deadline and the output with the minimum.
GoesThrough(i, purse, point) ==
    /\ Time(point.block) <= i.deadline
    /\ Covered(i, purse)
    /\ Yield(i, point) >= i.minimum

\* The preflight of a swap: the checks above, balance and allowance at least the
\* amount, a simulation at the head.
SwapReady(i) == SwapStillGood(i) /\ GoesThrough(i, Now, Point(head))

\* What both runtimes add to it: the allowance is the amount and no more
\* (CANARY_E0_ENTRY_APPROVAL_BUY_ALLOWANCE_NOT_EXACT, ..._EXIT_ALLOWANCE_NOT_EXACT).
AllowanceExact(i) == i.amount = IF i.pays = "weth" THEN Now.wethAllowance ELSE Now.tokenAllowance

\* preflightApproval, and again signApprovalBound.
ApprovalReady(i) ==
    IF i.token = "weth" THEN Now.weth >= i.amount /\ ApproveExact(Now.wethAllowance, i.amount)
    ELSE Now.tokens >= i.amount /\ ApproveExact(Now.tokenAllowance, i.amount)

\* preflightEntryApprovalRevoke, and again signEntryApprovalRevoke.
RevokeReady(i) == Now.wethAllowance = i.expected

------------------------------------------------------------------------------
(* The cycle and the round trip begin with what the rows say.              *)

NothingOpen == ~IsOpen("buy") /\ ~IsOpen("revoke") /\ ~IsOpen("entry")

\* Mutant: the whole balance counts as acquired.
WholeBalance == after["buy"]

\* assertIncludedBuy.
Acquired == after["buy"] - before["buy"]

BuyIncluded == rows["buy"].state = "INCLUDED" /\ Acquired > 0

\* The cycle takes up the buy, the revoke and the entry approval in this order;
\* the round trip the exit approval, and after it the exit.
TakeUp(p) ==
    /\ At(p, "idle")
    /\ \E a \in Action :
          /\ IsOpen(a)
          /\ CASE a = "buy" -> TRUE
               [] a = "revoke" -> ~IsOpen("buy")
               [] a = "entry" -> ~IsOpen("buy") /\ ~IsOpen("revoke")
               [] a = "approval" -> BuyIncluded
               [] a = "exit" -> BuyIncluded /\ rows["approval"].state = "INCLUDED"
          /\ Reconcile(p, a, "reconcile")
    /\ UNCHANGED <<rows, network, failures, aside>>

StartPlan(p, act) ==
    /\ local' = [local EXCEPT ![p] = [pc |-> "quote", act |-> act, mode |-> "none"]]
    /\ plan' = [plan EXCEPT ![p] = [NoPlan EXCEPT !.quote = Point(head)]]
    /\ UNCHANGED <<rows, network, failures, chainSide, columns>>

\* The candidate passed the vet: number and hash of the head are read.
BeginBuyQuote(p) ==
    /\ At(p, "idle")
    /\ NothingOpen
    /\ rows["buy"] = Absent
    /\ rows["entry"] = Absent \/ rows["entry"].state = "INCLUDED"
    /\ StartPlan(p, "buy")

\* NEEDS_EXIT_QUOTE: the same for the exit, never below the quote of the buy.
BeginExitQuote(p) ==
    /\ At(p, "idle")
    /\ BuyIncluded
    /\ rows["approval"].state = "INCLUDED"
    /\ rows["exit"] = Absent
    /\ head >= intent["buy"].quote.block
    /\ StartPlan(p, "exit")

\* Mutant: the approved amount is spent whatever it is worth by now.
PriceUncapped(p) ==
    /\ At(p, "quote")
    /\ LET point == Point(plan[p].quote.block)
           amount == IF local[p].act = "exit" THEN Acquired
                     ELSE IF rows["entry"].state = "INCLUDED" THEN intent["entry"].amount
                     ELSE DollarAt(point)
       IN  plan' = [plan EXCEPT ![p].amount = amount,
                                ![p].quoted = IF local[p].act = "exit" THEN amount \div RateAt(point)
                                              ELSE amount * RateAt(point)]
    /\ Goto(p, "clock")
    /\ UNCHANGED <<rows, network, failures, chainSide, columns>>

\* calibrateUsd and the quotes, at the block's number, whatever fork it is of by
\* now.  A buy that was approved keeps its amount, if that is still at most $1.
Price(p) ==
    /\ At(p, "quote")
    /\ LET point == Point(plan[p].quote.block)
           selling == local[p].act = "exit"
           approved == rows["entry"].state = "INCLUDED"
           amount == IF selling THEN Acquired
                     ELSE IF approved THEN intent["entry"].amount ELSE DollarAt(point)
           quoted == IF selling THEN amount \div RateAt(point) ELSE amount * RateAt(point)
       IN  /\ selling \/ ~approved \/ amount <= DollarAt(point)
           /\ plan' = [plan EXCEPT ![p].amount = amount, ![p].quoted = quoted]
    /\ Goto(p, "clock")
    /\ UNCHANGED <<rows, network, failures, chainSide, columns>>

\* The quoted block still has its hash; the deadline runs from the head's clock.
Plan(p) ==
    /\ At(p, "clock")
    /\ LET read == plan[p]
           swap == IF local[p].act = "exit"
                   THEN ExitSwap(intent["buy"], read.quote, read.amount, read.quoted, Time(head))
                   ELSE BuySwap(Candidate, read.quote, read.amount, read.quoted, Time(head))
       IN  /\ QuoteCanonical(read)
           /\ Buildable(read.amount, read.quoted, Time(head))
           /\ plan' = [plan EXCEPT ![p].swap = swap]
    /\ Goto(p, "preflight")
    /\ UNCHANGED <<rows, network, failures, chainSide, columns>>

\* A read that fails, or one of the checks that leave without a trace.
GiveUp(p) ==
    /\ local[p].pc \in {"quote", "clock", "preflight", "cleanup"}
    /\ End(p)
    /\ plan' = [plan EXCEPT ![p] = NoPlan]
    /\ UNCHANGED <<rows, network, failures, chainSide, columns>>

------------------------------------------------------------------------------
(* Reservations: intent and evidence of the preflight enter the row.       *)

Reserve(p, a, what) ==
    /\ rows' = [rows EXCEPT ![a] = Reserved]
    /\ intent' = [intent EXCEPT ![a] = what]
    /\ Execute(p, a)
    /\ plan' = [plan EXCEPT ![p] = NoPlan]
    /\ UNCHANGED <<network, failures, chainSide, nonce, after>>

\* executeEntryApproval: the first plan of the buy is approved, not bought.
ReserveEntry(p) ==
    /\ At(p, "preflight")
    /\ local[p].act = "buy"
    /\ rows["entry"] = Absent
    /\ LET buy == plan[p].swap IN
       /\ ApprovalReady(EntryApproval(buy))
       /\ EntryIdentity(EntryApproval(buy))
       /\ MatchesParentBuy(EntryApproval(buy), buy)
       /\ Reserve(p, "entry", EntryApproval(buy))
    /\ UNCHANGED before

\* READY_TO_BUY, preflight and insert.
ReserveBuy(p) ==
    /\ At(p, "preflight")
    /\ local[p].act = "buy"
    /\ rows["entry"].state = "INCLUDED"
    /\ CoversBuy(intent["entry"], plan[p].swap)
    /\ SwapReady(plan[p].swap) /\ AllowanceExact(plan[p].swap)
    /\ Reserve(p, "buy", plan[p].swap)
    /\ before' = [before EXCEPT !["buy"] = Now.tokens]

\* executeApproval: the router may take exactly what the buy brought in.
ReserveApproval(p) ==
    /\ At(p, "idle")
    /\ BuyIncluded
    /\ rows["approval"] = Absent
    /\ LET approval == ExitApproval(intent["buy"], Acquired) IN
       /\ ApprovalReady(approval)
       /\ ApprovalIdentity(approval, intent["buy"], Acquired)
       /\ Reserve(p, "approval", approval)
    /\ UNCHANGED before

\* executeExit.
ReserveExit(p) ==
    /\ At(p, "preflight")
    /\ local[p].act = "exit"
    /\ LET exit == plan[p].swap IN
       /\ exit.id = intent["approval"].exit
       /\ SwapReady(exit) /\ AllowanceExact(exit)
       /\ ExitWellFormed(exit)
       /\ ExitBoundToBuy(exit, intent["buy"])
       /\ exit.amount = Acquired
       /\ Reserve(p, "exit", exit)
    /\ before' = [before EXCEPT !["exit"] = Now.weth]

\* The approved candidate has expired, or the vet says REJECT by now.
SkipBuy(p) ==
    /\ At(p, "idle")
    /\ NothingOpen
    /\ rows["entry"].state = "INCLUDED"
    /\ rows["buy"] = Absent
    /\ rows' = [rows EXCEPT !["buy"] = Skipped]
    /\ Goto(p, "cleanup")
    /\ UNCHANGED <<network, failures, aside>>

BeginCleanup(p) ==
    /\ At(p, "idle")
    /\ NothingOpen
    /\ rows["entry"].state = "INCLUDED"
    /\ rows["buy"].state \in {"INCLUDED", "REVERTED", "SKIPPED"}
    /\ Goto(p, "cleanup")
    /\ UNCHANGED <<rows, network, failures, aside>>

\* advanceCanaryE0EntryApprovalRevoke when the allowance is the approved amount.
ReserveRevoke(p) ==
    /\ At(p, "cleanup")
    /\ rows["revoke"] = Absent
    /\ RevokeReady(Revoke(intent["entry"]))
    /\ RevokeIdentity(Revoke(intent["entry"]), intent["entry"])
    /\ Reserve(p, "revoke", Revoke(intent["entry"]))
    /\ UNCHANGED before

\* ... and when it is zero, before any revoke or after it.
AlreadyClean(p) ==
    /\ At(p, "cleanup")
    /\ rows["revoke"].state \in {"NONE", "INCLUDED"}
    /\ rows["revoke"] # Absent => RevokeCoversParent(intent["revoke"], intent["entry"])
    /\ Now.wethAllowance = 0
    /\ Goto(p, "terminal")
    /\ UNCHANGED <<rows, network, failures, aside>>

\* markCleanupTerminal.
CloseEntry(p) ==
    /\ At(p, "terminal")
    /\ rows' = [rows EXCEPT !["entry"].state = IF @ = "INCLUDED" THEN "SKIPPED" ELSE @]
    /\ End(p)
    /\ UNCHANGED <<network, failures, aside>>

------------------------------------------------------------------------------
(* From the reservation to the receipt.                                    *)

Ready(a) ==
    CASE a \in {"entry", "approval"} -> ApprovalReady(intent[a])
      [] a = "revoke" -> RevokeReady(intent[a])
      [] a \in Swaps -> SwapStillGood(intent[a])

\* The reads of sign, signApprovalBound and signEntryApprovalRevoke.  A buy that
\* fails here stays RESERVED, the other rows are parked.
Recheck(p) ==
    /\ At(p, "recheck")
    /\ IF Ready(local[p].act) THEN Goto(p, "sign") ELSE SigningThrew(p, {"buy"})
    /\ UNCHANGED <<rows, network, failures, aside>>

\* Mutant: the nonce is the count of the transactions mined so far.
LatestNonce == Now.nonce

\* getTransactionCount with the block tag 'pending'.
PendingNonce == Now.nonce + Cardinality({a \in Action : tx[a] = "pending"})

SignNext(p) ==
    /\ Sign(p, {"buy"})
    /\ nonce' = IF rows' = rows THEN nonce ELSE [nonce EXCEPT ![local[p].act] = PendingNonce]
    /\ UNCHANGED <<chainSide, intent, before, after, plan>>

Transact(p) ==
    /\ \/ Broadcast(p) \/ Submit(p) \/ ReadReceipt(p) \/ MarkReverted(p)
       \/ Halt(p) \/ HaltUpdate(p)
    /\ UNCHANGED aside

\* assertSignedProvenance: the row holds the transaction whose receipt was read.
SignedProvenance(a) == rows[a].signed /\ nonce[a] # -1

\* What markIncluded demands of the balance or allowance at the head.
Evidence(a) ==
    CASE a = "entry" -> Now.wethAllowance = intent[a].amount
      [] a = "revoke" -> Now.wethAllowance = 0
      [] a = "approval" -> Now.tokenAllowance = intent[a].amount
      [] a = "exit" -> Now.weth > before[a]
      [] a = "buy" -> TRUE

\* getTokenBalance of the token the swap paid out; the value is recorded later.
ReadOutcome(p) ==
    /\ Observe(p, SignedProvenance(local[p].act) /\ Evidence(local[p].act))
    /\ plan' = [plan EXCEPT ![p].noted = IF local[p].act = "exit" THEN Now.weth ELSE Now.tokens]
    /\ UNCHANGED <<chainSide, columns>>

Include(p) ==
    /\ MarkIncluded(p)
    /\ LET a == local[p].act IN
       /\ after' = [s \in Swaps |-> IF s = a THEN plan[p].noted ELSE after[s]]
       /\ IF a # "revoke" THEN End(p)
          ELSE Goto(p, IF local[p].mode = "reconcile" THEN "cleanup" ELSE "terminal")
    /\ plan' = [plan EXCEPT ![p] = NoPlan]
    /\ UNCHANGED <<chainSide, intent, nonce, before>>

\* A cycle that waits, is complete or BLOCKED, and changes nothing.
NothingToDo(p) == At(p, "idle") /\ UNCHANGED vars

Advance(p) ==
    \/ TakeUp(p) \/ BeginBuyQuote(p) \/ BeginExitQuote(p) \/ Price(p) \/ Plan(p) \/ GiveUp(p)
    \/ ReserveEntry(p) \/ ReserveBuy(p) \/ ReserveApproval(p) \/ ReserveExit(p) \/ ReserveRevoke(p)
    \/ SkipBuy(p) \/ BeginCleanup(p) \/ AlreadyClean(p) \/ CloseEntry(p)
    \/ Recheck(p) \/ SignNext(p) \/ Transact(p) \/ ReadOutcome(p) \/ Include(p)

Stops(p) ==
    /\ Crash(p)
    /\ plan' = [plan EXCEPT ![p] = NoPlan]
    /\ UNCHANGED <<chainSide, columns>>

ProcessFails(p) == (TransactionFails(p, {"buy"}) /\ UNCHANGED aside) \/ Stops(p)

------------------------------------------------------------------------------
(* The chain includes one of the wallet's transactions per block at most,  *)
(* in the order of their nonces.                                           *)

\* Of the five only a swap can fail.
Succeeds(a, purse, point) == a \in Swaps => GoesThrough(intent[a], purse, point)

Effect(a, purse, point) ==
    LET i == intent[a] IN
    CASE a = "entry" -> [purse EXCEPT !.wethAllowance = i.amount]
      [] a = "revoke" -> [purse EXCEPT !.wethAllowance = 0]
      [] a = "approval" -> [purse EXCEPT !.tokenAllowance = i.amount]
      [] a = "buy" -> [purse EXCEPT !.weth = @ - i.amount, !.wethAllowance = @ - i.amount,
                                    !.tokens = @ + Yield(i, point)]
      [] a = "exit" -> [purse EXCEPT !.tokens = @ - i.amount, !.tokenAllowance = @ - i.amount,
                                     !.weth = @ + Yield(i, point)]

EmptyBlock == Mine /\ UNCHANGED <<rows, network, local, failures, history, minedAt, columns, plan>>

BlockWith(a) ==
    /\ Mine
    /\ tx[a] = "pending"
    /\ nonce[a] = Now.nonce
    /\ LET point == Point(head + 1)
           good == Succeeds(a, Now, point)
           purse == [(IF good THEN Effect(a, Now, point) ELSE Now) EXCEPT !.nonce = @ + 1]
       IN  /\ history' = [b \in Block |-> IF b > head THEN purse ELSE history[b]]
           /\ tx' = [tx EXCEPT ![a] = IF good THEN "success" ELSE "reverted"]
    /\ minedAt' = [minedAt EXCEPT ![a] = head + 1]
    /\ UNCHANGED <<rows, sent, local, failures, columns, plan>>

\* Blocks from height b on are replaced; the wallet's transactions in them return
\* to the mempool.
Replace(b) ==
    /\ Reorg(b)
    /\ history' = [c \in Block |-> IF c >= b THEN history[b - 1] ELSE history[c]]
    /\ tx' = [a \in Action |-> IF minedAt[a] >= b THEN "pending" ELSE tx[a]]
    /\ minedAt' = [a \in Action |-> IF minedAt[a] >= b THEN 0 ELSE minedAt[a]]
    /\ UNCHANGED <<rows, sent, local, failures, columns, plan>>

Environment == EmptyBlock \/ (\E a \in Action : BlockWith(a)) \/ (\E b \in Block : Replace(b))

Next ==
    \/ \E p \in Process : Advance(p) \/ NothingToDo(p) \/ ProcessFails(p)
    \/ Environment

Spec == Init /\ [][Next]_vars

------------------------------------------------------------------------------
(* Safety.                                                                 *)

\* The $1 promise, at the price of the quote each amount was planned with and not
\* of an orphaned or an older one: what was approved and what is spent stay below
\* it, and no block ever shows more WETH gone or allowed than was approved.
NeverOverspent ==
    /\ \A a \in {"entry", "buy"} :
          intent[a] # NoIntent => intent[a].amount <= DollarAt(intent[a].quote)
    /\ \A b \in Block :
          LET approved == intent["entry"].amount IN
          /\ Funds - history[b].weth <= approved
          /\ history[b].wethAllowance <= approved

\* A swap that went through did so soon after the block it was quoted at, and gave
\* what slippage allows of the price of that block, however the chain was replaced
\* between the quote, the checks, the signature and the block that holds it.
LandsAsQuoted ==
    \A s \in Swaps :
        tx[s] = "success" =>
            LET i == intent[s] IN
            /\ minedAt[s] <= i.quote.block + MaxQuoteAge + DeadlineSeconds
            /\ Yield(i, Point(minedAt[s])) >= MinimumOut(Yield(i, i.quote))

\* What the wallet held before is neither sold nor put at the router's disposal, as
\* long as the buy is in the block in which its outcome was read.
HoldingsKept ==
    (tx["buy"] = "success" /\ rows["buy"].state = "INCLUDED"
        /\ after["buy"] - before["buy"] = Yield(intent["buy"], Point(minedAt["buy"]))) =>
    /\ Now.tokens >= Held
    /\ Now.tokens - Now.tokenAllowance >= Held

\* No two transactions handed to the network carry one nonce, so that none takes
\* the place of another, also while a replaced block's transactions are pending.
NoNonceTwice ==
    \A a, b \in Action : a # b /\ sent[a] > 0 /\ sent[b] > 0 => nonce[a] # nonce[b]
==============================================================================
