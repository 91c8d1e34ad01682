------------------------------ MODULE SwapIntent ------------------------------
(***************************************************************************)
(* The five transactions the canary may sign, as src/src/canary builds and *)
(* checks them: two swaps, two exact approvals and a revoke.               *)
(*                                                                         *)
(* An action id is the digest of the fields that identify the action; here *)
(* it is the tuple of these fields.  The wallet, the router and the $1     *)
(* notional are compile-time constants that every builder insists on, so   *)
(* they are left out.  Amounts are in the token's smallest unit.           *)
(***************************************************************************)
EXTENDS Integers

CONSTANTS
    Infinite,        \* ERC20_MAX_UINT256
    SlippageBps,     \* CANARY_SLIPPAGE_BPS
    DeadlineSeconds  \* CANARY_DEADLINE_SECONDS

ASSUME IntentAssumption ==
    /\ Infinite \in Nat
    /\ SlippageBps \in 0..10000
    /\ DeadlineSeconds \in Nat

MaxSlippageBps == 2000
MaxDeadlineSeconds == 120

\* A launch of the ledger with its COMPLETE baseline.
BuyId(candidate) == <<"CANARY_SNIPER_R0", candidate>>

ExitId(buyId) == <<"CANARY_E0_EXIT_R0", buyId>>

\* The least a swap may yield; the division of bigints rounds down.
MinimumOut(quoted) == (quoted * (10000 - SlippageBps)) \div 10000

\* assertEntryApprovalAmount, assertExactApprovalAmount, assertExpectedAllowance.
ExactAmount(amount) == amount > 0 /\ amount # Infinite

\* Everything buildCanarySwapIntent demands before it encodes the calldata.
Buildable(amountIn, quotedOut, now) ==
    /\ amountIn > 0
    /\ quotedOut > 0
    /\ SlippageBps \in 1..MaxSlippageBps
    /\ now > 0
    /\ DeadlineSeconds \in 1..MaxDeadlineSeconds
    /\ MinimumOut(quotedOut) > 0

\* `quote` is number and hash of the block the amounts were quoted at; the
\* deadline runs from `now`, the timestamp of the block that was the head then.
Swap(id, pays, quote, amountIn, quotedOut, now) ==
    [id |-> id, pays |-> pays, quote |-> quote, amount |-> amountIn, quoted |-> quotedOut,
     minimum |-> MinimumOut(quotedOut), deadline |-> now + DeadlineSeconds]

BuySwap(candidate, quote, amountIn, quotedOut, now) ==
    Swap(BuyId(candidate), "weth", quote, amountIn, quotedOut, now)

\* The generic builder with the tokens reversed and an id of its own.
ExitSwap(buy, quote, acquired, quotedOut, now) ==
    [Swap(buy.id, "launched", quote, acquired, quotedOut, now) EXCEPT !.id = ExitId(buy.id)]

\* What the exit store asks of the calldata: nothing but what the builder makes.
ExitWellFormed(exit) ==
    /\ exit.amount > 0
    /\ exit.quoted > 0
    /\ exit.minimum > 0
    /\ exit.minimum = MinimumOut(exit.quoted)
    /\ exit.deadline > 0

\* The exit is the stored buy turned round.
ExitBoundToBuy(exit, buy) == exit.id = ExitId(buy.id) /\ buy.pays = "weth" /\ exit.pays = "launched"

------------------------------------------------------------------------------
(* The approval of the buy, and its revocation.                            *)

\* The id binds the quote the approval was planned with.
EntryApprovalId(buy) ==
    <<"CANARY_E0_ENTRY_APPROVAL_R0", buy.id, buy.pays, buy.amount, buy.quote>>

EntryApproval(buy) ==
    [id |-> EntryApprovalId(buy), parent |-> buy.id, token |-> buy.pays,
     amount |-> buy.amount, quote |-> buy.quote]

\* assertRecordIdentity of the entry approval store: the id is that of the fields.
EntryIdentity(approval) ==
    approval.id = <<"CANARY_E0_ENTRY_APPROVAL_R0", approval.parent, approval.token, approval.amount, approval.quote>>

\* The stored approval against the plan it is stored with: equal in every field.
MatchesParentBuy(approval, buy) ==
    /\ buy.pays = "weth"
    /\ ExactAmount(buy.amount)
    /\ approval = EntryApproval(buy)

\* A later plan of the same buy is covered: its quote may differ, its amount not.
CoversBuy(approval, buy) ==
    /\ approval.parent = buy.id
    /\ approval.token = buy.pays
    /\ approval.amount = buy.amount

RevokeId(approval) ==
    <<"CANARY_E0_ENTRY_APPROVAL_REVOKE_R0", approval.id, approval.parent, approval.token, approval.amount>>

Revoke(approval) ==
    [id |-> RevokeId(approval), parent |-> approval.id, token |-> approval.token,
     expected |-> approval.amount, amount |-> 0]

\* assertRecordIdentity of the revoke store.
RevokeIdentity(revoke, approval) == revoke.id = RevokeId(approval) /\ revoke.parent = approval.id

RevokeCoversParent(revoke, approval) ==
    /\ ExactAmount(approval.amount)
    /\ revoke.parent = approval.id
    /\ revoke.token = approval.token
    /\ revoke.expected = approval.amount
    /\ revoke.amount = 0

------------------------------------------------------------------------------
(* The approval of the exit.                                               *)

ExitApprovalId(buy, acquired) ==
    <<"CANARY_E0_APPROVAL_R0", buy.id, ExitId(buy.id), acquired>>

ExitApproval(buy, acquired) ==
    [id |-> ExitApprovalId(buy, acquired), parent |-> buy.id, exit |-> ExitId(buy.id),
     token |-> "launched", amount |-> acquired]

\* The approval store against the stored buy and the balances around it.
ApprovalIdentity(approval, buy, acquired) ==
    /\ approval.parent = buy.id
    /\ approval.exit = ExitId(buy.id)
    /\ approval.amount = acquired
    /\ approval.id = ExitApprovalId(buy, acquired)

\* classifyCanaryApprovalAllowance: an approval only replaces an allowance of zero.
ApproveExact(current, required) == ExactAmount(required) /\ current = 0
==============================================================================
