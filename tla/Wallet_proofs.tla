----------------------------- MODULE Wallet_proofs -----------------------------
(* Theorems about the amounts of the canary's transactions, for every chain,  *)
(* price, slippage, deadline, quote age and balance the wallet starts with.   *)
EXTENDS Wallet, FiniteSetTheorems, TLAPS

------------------------------------------------------------------------------
(* Shapes.                                                                 *)

PlanRecords(s) == [quote : Location, amount : Nat, quoted : Nat, swap : {s}, noted : Nat]

PlansTyped ==
    /\ DOMAIN plan = Process
    /\ \A p \in Process : plan[p] \in PlanRecords(plan[p].swap)

Shapes ==
    /\ DOMAIN intent = Action
    /\ \A a \in Action : intent[a].amount \in Nat
    /\ nonce \in [Action -> Int]
    /\ PlansTyped

TypeInv == TypeOK /\ Shapes

\* No height is of a fork newer than the newest, nor that newer than the bound.
ForksGrow ==
    /\ \A b \in Block : fork[b] <= NewestFork
    /\ NewestFork <= MaxReorgs + 1

------------------------------------------------------------------------------
(* Whose turn it is.                                                       *)

Quoting == {"quote", "clock", "preflight"}
InHandSteps == {"recheck", "sign", "broadcast", "submit", "receipt", "observe",
                "include", "revert", "halt", "haltUpdate"}
StoredSteps == {"broadcast", "submit", "receipt", "observe", "include", "revert"}

\* The row in hand is open, and stored once its transaction is under way.
InHand(p) ==
    /\ local[p].pc \in InHandSteps => local[p].act \in Action /\ IsOpen(local[p].act)
    /\ local[p].pc \in {"recheck", "sign"} => ~ rows[local[p].act].signed
    /\ local[p].pc \in StoredSteps => rows[local[p].act].signed
    /\ local[p].pc = "broadcast" => sent[local[p].act] = 0

\* What a process quotes for is not reserved yet, and its turn has come.
BuyInTurn == rows["buy"] = Absent /\ (rows["entry"] = Absent \/ rows["entry"].state = "INCLUDED")
ExitInTurn == rows["exit"] = Absent /\ BuyIncluded /\ rows["approval"].state = "INCLUDED"

InTurn(p) == local[p].pc \in Quoting => \/ local[p].act = "buy" /\ BuyInTurn
                                        \/ local[p].act = "exit" /\ ExitInTurn

\* What was not stored was not sent, and what was sent the network knows.
StoredFirst ==
    \A a \in Action : /\ ~ rows[a].signed => sent[a] = 0
                      /\ sent[a] = 0 <=> tx[a] = "none"

ControlInv == (\A p \in Process : InHand(p) /\ InTurn(p)) /\ StoredFirst

------------------------------------------------------------------------------
(* What is planned and what is stored.                                     *)

\* A swap as it was quoted: the price is that of the quoted block.
AsQuoted(i) ==
    /\ i.amount \in Nat \ {0}
    /\ i.quote \in Location /\ i.quote.fork \in 1..MaxReorgs + 1
    /\ i.minimum = MinimumOut(Yield(i, i.quote))
    /\ i.deadline \in Nat

WithinDollar(i) == i.amount <= DollarAt(i.quote)

\* While a quote is canonical the prices read at its height are those of its block.
ReadRight(read, act) ==
    IF act = "buy"
    THEN read.amount <= DollarAt(read.quote) /\ read.quoted = read.amount * RateAt(read.quote)
    ELSE read.amount = Acquired /\ read.quoted = read.amount \div RateAt(read.quote)

SwapRight(i, act) ==
    /\ AsQuoted(i)
    /\ i.deadline <= Time(head) + DeadlineSeconds
    /\ IF act = "buy" THEN i.pays = "weth" /\ WithinDollar(i) ELSE i.pays = "launched"

PlanRight(p) ==
    /\ local[p].pc \in Quoting =>
           plan[p].quote.block <= head /\ plan[p].quote.fork \in 1..NewestFork
    /\ local[p].pc = "clock" /\ QuoteCanonical(plan[p]) => ReadRight(plan[p], local[p].act)
    /\ local[p].pc = "preflight" => SwapRight(plan[p].swap, local[p].act)

PlansRight == \A p \in Process : PlanRight(p)

Committed(a) == intent[a] # NoIntent

IntentsRight ==
    /\ Committed("entry") => WithinDollar(intent["entry"])
    /\ Committed("buy") =>
           /\ intent["buy"].pays = "weth" /\ WithinDollar(intent["buy"])
           /\ Committed("entry") /\ intent["buy"].amount = intent["entry"].amount
    /\ Committed("exit") =>
           /\ intent["exit"].pays = "launched" /\ rows["buy"].state = "INCLUDED"
           /\ intent["exit"].amount = Acquired
           /\ Committed("approval")
    /\ Committed("approval") =>
           rows["buy"].state = "INCLUDED" /\ intent["approval"].amount = Acquired
    /\ \A s \in Swaps : Committed(s) =>
           /\ AsQuoted(intent[s])
           /\ intent[s].deadline <= Time(intent[s].quote.block + MaxQuoteAge) + DeadlineSeconds

------------------------------------------------------------------------------
(* What the chain made of it.                                              *)

Landed(a, b) == tx[a] = "success" /\ minedAt[a] <= b
Gain(s) == Yield(intent[s], Point(minedAt[s]))

\* What the swaps have moved by block b, and what the exit's approval allows there.
Spent(b) == IF Landed("buy", b) THEN intent["buy"].amount ELSE 0
Bought(b) == IF Landed("buy", b) THEN Gain("buy") ELSE 0
Sold(b) == IF Landed("exit", b) THEN intent["exit"].amount ELSE 0
Earned(b) == IF Landed("exit", b) THEN Gain("exit") ELSE 0
Allowed(b) == IF Landed("approval", b) /\ ~ Landed("exit", b) THEN intent["approval"].amount ELSE 0

\* Every block's wallet is the first one and what was mined up to that block.
PurseFollows ==
    \A b \in Block :
        /\ history[b].weth = Funds - Spent(b) + Earned(b)
        /\ history[b].tokens = Held + Bought(b) - Sold(b)
        /\ history[b].tokenAllowance = Allowed(b)
        /\ history[b].wethAllowance <= intent["entry"].amount

\* A swap that went through met its deadline and its minimum; the exit found its
\* approval in an earlier block.
LandedWell ==
    /\ \A s \in Swaps : tx[s] = "success" =>
           Time(minedAt[s]) <= intent[s].deadline /\ Gain(s) >= intent[s].minimum
    /\ tx["exit"] = "success" => tx["approval"] = "success" /\ minedAt["approval"] < minedAt["exit"]

ChainInv == PurseFollows /\ LandedWell

------------------------------------------------------------------------------
(* Nonces.                                                                 *)

MinedBy(b) == {a \in Action : minedAt[a] \in 1..b}
Known == {a \in Action : tx[a] # "none"}

\* The wallet's nonce counts what was mined, and a nonce is taken from the number of
\* transactions the network knows.
NonceCounts == \A b \in Block : history[b].nonce = Cardinality(MinedBy(b))

NonceReady(p) == local[p].pc = "broadcast" => nonce[local[p].act] = Cardinality(Known)

NoncesTaken ==
    /\ \A a \in Known : nonce[a] < Cardinality(Known)
    /\ \A a, b \in Known : a # b => nonce[a] # nonce[b]

NonceInv == NonceCounts /\ NoncesTaken /\ (\A p \in Process : NonceReady(p))

WalletInv == TypeInv /\ ForksGrow /\ ControlInv /\ PlansRight /\ IntentsRight /\ ChainInv /\ NonceInv

USE DEF network, chainVars, chainSide, columns, aside

------------------------------------------------------------------------------
(* Numbers.                                                                *)

LEMMA HeightsAreNumbers == Block \subseteq Nat /\ MaxBlock \in Block /\ 0 \in Block
  BY ChainAssumption DEF ChainAssumption, Block

LEMMA NewestIsNumber ==
    ASSUME ChainTypeOK
    PROVE  NewestFork \in Nat \ {0}
  BY HeightsAreNumbers DEF ChainTypeOK, NewestFork

LEMMA PricesArePositive ==
    ASSUME NEW point \in Location, point.fork \in 1..MaxReorgs + 1
    PROVE  DollarAt(point) \in Nat \ {0} /\ RateAt(point) \in Nat \ {0}
<1>1. point.block \in Block
  BY DEF Location
<1> QED BY <1>1, WalletAssumption DEF WalletAssumption, DollarAt, RateAt

\* The points of the chain as it is.
LEMMA PointsArePriced ==
    ASSUME ChainTypeOK, ForksGrow, NEW b \in Block
    PROVE  Point(b) \in Location /\ Point(b).fork \in 1..MaxReorgs + 1 /\ Point(b).block = b
<1>1. fork[b] \in Nat \ {0} /\ fork[b] <= NewestFork /\ NewestFork <= MaxReorgs + 1
  BY DEF ChainTypeOK, ForksGrow
<1>2. fork[b] \in 1..MaxReorgs + 1
  BY <1>1, NewestIsNumber, ChainAssumption DEF ChainAssumption
<1> QED BY <1>1, <1>2 DEF Point, Location

LEMMA Products == \A m, n \in Nat : m * n \in Nat
  OBVIOUS

LEMMA Quotients == \A m \in Nat, n \in Nat \ {0} : m \div n \in Nat
  OBVIOUS

LEMMA YieldsAreNumbers ==
    ASSUME NEW i, i.amount \in Nat, NEW point \in Location, point.fork \in 1..MaxReorgs + 1
    PROVE  Yield(i, point) \in Nat
<1>1. RateAt(point) \in Nat \ {0}
  BY PricesArePositive
<1> QED BY <1>1, Products, Quotients DEF Yield

LEMMA CommittedByAmount ==
    ASSUME NEW i, i.amount > 0
    PROVE  i # NoIntent
  BY DEF NoIntent

\* A revoke is a record of more fields than no intent has.
LEMMA RevokeIsCommitted ==
    ASSUME NEW approval
    PROVE  Revoke(approval) # NoIntent /\ Revoke(approval).amount = 0
<1>1. "parent" \in DOMAIN Revoke(approval) /\ "parent" \notin DOMAIN NoIntent
  BY DEF Revoke, NoIntent
<1> QED BY <1>1 DEF Revoke

------------------------------------------------------------------------------
(* Types.                                                                  *)

Locals == [pc : Steps, act : Action \cup {"none"}, mode : Modes]

LEMMA LocalMoves ==
    ASSUME TypeInv, NEW p \in Process, NEW step \in Steps
    PROVE  /\ [local[p] EXCEPT !.pc = step] \in Locals
           /\ [local EXCEPT ![p].pc = step] = [local EXCEPT ![p] = [local[p] EXCEPT !.pc = step]]
           /\ Idle \in Locals
<1>1. local[p] \in Locals
  BY DEF TypeInv, TypeOK, Locals
<1> QED BY <1>1 DEF Locals, Idle, Modes, Steps

\* Locals, counters and plans change; rows, columns and chain do not.
LEMMA MoveTypes ==
    ASSUME TypeInv, UNCHANGED <<rows, network, chainSide, columns>>, failures' \in Nat,
           local' \in [Process -> Locals], PlansTyped'
    PROVE  TypeInv'
<1>1. TypeOK'
  BY DEF TypeInv, TypeOK, ChainTypeOK, Locals
<1>2. Shapes'
  BY DEF TypeInv, Shapes
<1> QED BY <1>1, <1>2 DEF TypeInv

\* The plan of one process is written.
LEMMA PlanWritten ==
    ASSUME TypeInv, NEW p \in Process, NEW s, NEW r \in PlanRecords(s), plan' = [plan EXCEPT ![p] = r]
    PROVE  /\ PlansTyped'
           /\ plan'[p] = r /\ \A q \in Process \ {p} : plan'[q] = plan[q]
<1>1. DOMAIN plan = Process /\ \A q \in Process : plan[q] \in PlanRecords(plan[q].swap)
  BY DEF TypeInv, Shapes, PlansTyped
<1>2. plan'[p] = r /\ DOMAIN plan' = Process /\ \A q \in Process \ {p} : plan'[q] = plan[q]
  BY <1>1
<1>3. r \in PlanRecords(r.swap)
  BY DEF PlanRecords
<1> QED BY <1>1, <1>2, <1>3 DEF PlansTyped

LEMMA NoPlanTyped == NoPlan \in PlanRecords(NoIntent)
  BY HeightsAreNumbers DEF NoPlan, PlanRecords, NoLocation, Location

\* A row that is taken goes on to a state that keeps it taken.
LEMMA RowTypes ==
    ASSUME TypeInv, NEW a \in Action, NEW r \in Row, rows[a] # Absent, rows[a] # Skipped,
           r # Absent, r # Skipped, r.signed = rows[a].signed, rows' = [rows EXCEPT ![a] = r],
           UNCHANGED <<network, chainSide, intent, nonce, before, failures>>,
           after' \in [Swaps -> Nat], local' \in [Process -> Locals], PlansTyped'
    PROVE  TypeInv'
<1>1. rows \in [Action -> Row] /\ intent[a] # NoIntent
  BY DEF TypeInv, TypeOK
<1>2. rows' \in [Action -> Row] /\ rows'[a] = r /\ \A b \in Action \ {a} : rows'[b] = rows[b]
  BY <1>1
<1>3. \A b \in Action : (rows'[b] = Absent \/ rows'[b] = Skipped) = (intent[b] = NoIntent)
  BY <1>1, <1>2 DEF TypeInv, TypeOK
<1>4. \A b \in Action : rows'[b].signed = (nonce[b] \in Nat)
  BY <1>2 DEF TypeInv, TypeOK
<1>5. TypeOK'
  BY <1>2, <1>3, <1>4 DEF TypeInv, TypeOK, ChainTypeOK, Locals
<1>6. Shapes'
  BY DEF TypeInv, Shapes
<1> QED BY <1>5, <1>6 DEF TypeInv

\* A free row is reserved with its intent.
LEMMA ReserveTypes ==
    ASSUME TypeInv, NEW p \in Process, NEW a \in Action, NEW what, what # NoIntent,
           what.amount \in Nat, rows[a] = Absent, Reserve(p, a, what),
           before' \in [Swaps -> Nat]
    PROVE  /\ TypeInv'
           /\ rows'[a] = Reserved /\ \A b \in Action \ {a} : rows'[b] = rows[b]
           /\ intent'[a] = what /\ \A b \in Action \ {a} : intent'[b] = intent[b]
<1>1. rows \in [Action -> Row] /\ DOMAIN intent = Action
  BY DEF TypeInv, TypeOK, Shapes
<1>2. /\ rows' = [rows EXCEPT ![a] = Reserved] /\ intent' = [intent EXCEPT ![a] = what]
      /\ UNCHANGED <<network, failures, chainSide, nonce, after>>
  BY DEF Reserve
<1>3. Reserved \in Row /\ Reserved # Absent /\ Reserved # Skipped /\ Reserved.signed = rows[a].signed
  BY DEF Reserved, Row, Absent, Skipped
<1>4. rows' \in [Action -> Row] /\ rows'[a] = Reserved /\ \A b \in Action \ {a} : rows'[b] = rows[b]
  BY <1>1, <1>2, <1>3
<1>5. DOMAIN intent' = Action /\ intent'[a] = what /\ \A b \in Action \ {a} : intent'[b] = intent[b]
  BY <1>1, <1>2
<1>6. \A b \in Action : (rows'[b] = Absent \/ rows'[b] = Skipped) = (intent'[b] = NoIntent)
  BY <1>3, <1>4, <1>5 DEF TypeInv, TypeOK
<1>7. \A b \in Action : rows'[b].signed = (nonce'[b] \in Nat)
  BY <1>2, <1>3, <1>4 DEF TypeInv, TypeOK
<1>8. local' \in [Process -> Locals]
  BY DEF Reserve, Execute, TypeInv, TypeOK, Locals, Modes, Steps
<1>9. TypeOK'
  BY <1>2, <1>4, <1>6, <1>7, <1>8 DEF TypeInv, TypeOK, ChainTypeOK, Locals
<1>10. plan' = [plan EXCEPT ![p] = NoPlan]
  BY DEF Reserve
<1>11. PlansTyped'
  BY <1>10, NoPlanTyped, PlanWritten
<1>12. Shapes'
  BY <1>2, <1>5, <1>11 DEF TypeInv, Shapes
<1> QED BY <1>4, <1>5, <1>9, <1>12 DEF TypeInv

------------------------------------------------------------------------------
(* What of the invariant a step of the process keeps.                      *)

LEMMA OneOf == ASSUME NEW p \in Process PROVE Process = {p}
  BY SingleProcess DEF SingleProcess

\* What the invariant says of the place a process has reached.
PlaceRight(p) == InHand(p) /\ InTurn(p) /\ PlanRight(p) /\ NonceReady(p)

\* The rest of it, but for the types.
LedgerInv == ForksGrow /\ StoredFirst /\ IntentsRight /\ ChainInv /\ NonceCounts /\ NoncesTaken

LEMMA InvariantByPlace ==
    ASSUME NEW p \in Process
    PROVE  WalletInv <=> TypeInv /\ LedgerInv /\ PlaceRight(p)
  BY OneOf DEF WalletInv, LedgerInv, PlaceRight, ControlInv, PlansRight, NonceInv

LEMMA InvariantByPlaceNext ==
    ASSUME NEW p \in Process, TypeInv', LedgerInv', PlaceRight(p)'
    PROVE  WalletInv'
  BY OneOf DEF WalletInv, LedgerInv, PlaceRight, ControlInv, PlansRight, NonceInv

\* What was acquired is settled once the buy is included.
BuySettled ==
    rows["buy"].state = "INCLUDED" =>
        rows'["buy"].state = "INCLUDED" /\ before'["buy"] = before["buy"] /\ after'["buy"] = after["buy"]

LEMMA IntentsKept ==
    ASSUME IntentsRight, UNCHANGED intent, BuySettled
    PROVE  IntentsRight'
<1>1. /\ intent' = intent
      /\ rows["buy"].state = "INCLUDED" => rows'["buy"].state = "INCLUDED" /\ Acquired' = Acquired
  BY DEF BuySettled, Acquired
<1>2. \A a : Committed(a)' <=> Committed(a)
  BY <1>1 DEF Committed
<1>3. \A swap : /\ WithinDollar(swap)' <=> WithinDollar(swap)
                /\ AsQuoted(swap)' <=> AsQuoted(swap)
  BY DEF WithinDollar, DollarAt, AsQuoted, MinimumOut, Yield, RateAt
<1> QED BY <1>1, <1>2, <1>3 DEF IntentsRight, Time

\* Nothing is mined; what is mined keeps its intent, and the approved amount grows.
NothingMined ==
    /\ UNCHANGED <<fork, history, minedAt>>
    /\ \A a \in Action : tx'[a] = tx[a] \/ (tx[a] = "none" /\ tx'[a] = "pending")
    /\ \A a \in Action : tx[a] = "success" => intent'[a] = intent[a]
    /\ intent'["entry"].amount \in Nat /\ intent'["entry"].amount >= intent["entry"].amount

LEMMA GainKept ==
    ASSUME NEW s \in Action, intent'[s] = intent[s], minedAt'[s] = minedAt[s],
           fork'[minedAt[s]] = fork[minedAt[s]]
    PROVE  Gain(s)' = Gain(s)
  BY DEF Gain, Yield, RateAt, Point

\* Block b holds after the step what block c held before it.
FlowsFrom(b, c) ==
    /\ Spent(b)' = Spent(c) /\ Bought(b)' = Bought(c) /\ Sold(b)' = Sold(c)
    /\ Earned(b)' = Earned(c) /\ Allowed(b)' = Allowed(c)

LEMMA SameFlows ==
    ASSUME NEW b, NEW c,
           \A x \in {"buy", "exit", "approval"} :
               /\ Landed(x, b)' <=> Landed(x, c)
               /\ Landed(x, c) => intent'[x] = intent[x] /\ Gain(x)' = Gain(x)
    PROVE  FlowsFrom(b, c)
  BY DEF FlowsFrom, Spent, Bought, Sold, Earned, Allowed

LEMMA ChainKept ==
    ASSUME TypeInv, ChainInv, NothingMined
    PROVE  ChainInv'
<1>1. \A a \in Action : tx'[a] = "success" <=> tx[a] = "success"
  BY DEF NothingMined
<1>2. \A a \in Action : tx[a] = "success" => intent'[a] = intent[a] /\ Gain(a)' = Gain(a)
  BY GainKept DEF NothingMined
<1>3. {"buy", "exit", "approval"} \subseteq Action /\ "entry" \in Action /\ Swaps \subseteq Action
  BY DEF Action, Swaps
<1>4. PurseFollows'
  <2> SUFFICES ASSUME NEW b \in Block
               PROVE  /\ history[b].weth = Funds - Spent(b)' + Earned(b)'
                      /\ history[b].tokens = Held + Bought(b)' - Sold(b)'
                      /\ history[b].tokenAllowance = Allowed(b)'
                      /\ history[b].wethAllowance <= intent'["entry"].amount
    BY DEF PurseFollows, NothingMined, Block
  <2>1. \A x \in {"buy", "exit", "approval"} :
            /\ Landed(x, b)' <=> Landed(x, b)
            /\ Landed(x, b) => intent'[x] = intent[x] /\ Gain(x)' = Gain(x)
    BY <1>1, <1>2, <1>3 DEF Landed, NothingMined
  <2>2. FlowsFrom(b, b)
    BY <2>1, SameFlows
  <2>3. history[b].wethAllowance <= intent["entry"].amount
    BY DEF ChainInv, PurseFollows
  <2>4. history[b].wethAllowance \in Nat /\ intent["entry"].amount \in Nat
    BY <1>3 DEF TypeInv, TypeOK, Shapes, Purse
  <2>5. history[b].wethAllowance <= intent'["entry"].amount
    BY <2>3, <2>4 DEF NothingMined
  <2> QED BY <2>2, <2>5 DEF ChainInv, PurseFollows, FlowsFrom
<1>5. LandedWell'
  BY <1>1, <1>2, <1>3 DEF ChainInv, LandedWell, NothingMined, Time
<1> QED BY <1>4, <1>5 DEF ChainInv

LEMMA NoncesKept ==
    ASSUME NonceCounts, NoncesTaken, UNCHANGED <<chainSide, tx>>,
           \A a \in Known : nonce'[a] = nonce[a]
    PROVE  NonceCounts' /\ NoncesTaken'
<1>1. Known' = Known /\ \A b : MinedBy(b)' = MinedBy(b)
  BY DEF Known, MinedBy
<1>2. NonceCounts'
  BY <1>1 DEF NonceCounts, Block
<1> QED BY <1>1, <1>2 DEF NoncesTaken

\* Only locals, counters and plans change.
LEMMA MoveKeeps ==
    ASSUME WalletInv, NEW p \in Process, UNCHANGED <<rows, network, chainSide, columns>>,
           failures' \in Nat, local' \in [Process -> Locals], PlansTyped', PlaceRight(p)'
    PROVE  WalletInv'
<1> USE DEF WalletInv
<1>1. TypeInv'
  BY MoveTypes
<1>2. NothingMined
  BY DEF NothingMined, TypeInv, Shapes, Action
<1>3. ChainInv'
  BY <1>2, ChainKept
<1>4. IntentsRight'
  BY IntentsKept DEF BuySettled
<1>5. NonceCounts' /\ NoncesTaken'
  BY NoncesKept DEF NonceInv
<1>6. ForksGrow' /\ StoredFirst'
  BY DEF ForksGrow, NewestFork, StoredFirst, ControlInv, Block
<1>7. LedgerInv'
  BY <1>3, <1>4, <1>5, <1>6 DEF LedgerInv
<1> QED BY <1>1, <1>7, InvariantByPlaceNext

\* An open row goes on to another state.
LEMMA RowKeeps ==
    ASSUME WalletInv, NEW p \in Process, NEW a \in Action, NEW r \in Row,
           rows[a] # Absent, rows[a] # Skipped, a = "buy" => rows[a].state # "INCLUDED",
           r # Absent, r # Skipped, r.signed = rows[a].signed, rows' = [rows EXCEPT ![a] = r],
           UNCHANGED <<network, chainSide, intent, nonce, before, failures>>,
           after' \in [Swaps -> Nat], a # "buy" => after'["buy"] = after["buy"],
           local' \in [Process -> Locals], PlansTyped', PlaceRight(p)'
    PROVE  WalletInv'
<1> USE DEF WalletInv
<1>1. TypeInv'
  BY RowTypes
<1>2. rows \in [Action -> Row] /\ "buy" \in Action
  BY DEF TypeInv, TypeOK, Action
<1>3. rows'[a] = r /\ \A b \in Action \ {a} : rows'[b] = rows[b]
  BY <1>2
<1>4. BuySettled
  BY <1>2, <1>3 DEF BuySettled
<1>5. NothingMined
  BY DEF NothingMined, TypeInv, Shapes, Action
<1>6. ChainInv' /\ IntentsRight'
  BY <1>4, <1>5, ChainKept, IntentsKept
<1>7. NonceCounts' /\ NoncesTaken'
  BY NoncesKept DEF NonceInv
<1>8. ForksGrow'
  BY DEF ForksGrow, NewestFork, Block
<1>9. StoredFirst'
  BY <1>3 DEF StoredFirst, ControlInv
<1>10. LedgerInv'
  BY <1>6, <1>7, <1>8, <1>9 DEF LedgerInv
<1> QED BY <1>1, <1>10, InvariantByPlaceNext

\* A free row is reserved: what is right of its intent is the caller's to show.
LEMMA ReserveKeeps ==
    ASSUME WalletInv, NEW p \in Process, NEW a \in Action, NEW what, what # NoIntent,
           what.amount \in Nat, rows[a] = Absent, Reserve(p, a, what),
           before' \in [Swaps -> Nat], IntentsRight'
    PROVE  WalletInv'
<1> USE DEF WalletInv
<1>1. /\ TypeInv'
      /\ rows'[a] = Reserved /\ \A b \in Action \ {a} : rows'[b] = rows[b]
      /\ intent'[a] = what /\ \A b \in Action \ {a} : intent'[b] = intent[b]
  BY ReserveTypes
<1>2. UNCHANGED <<network, failures, chainSide, nonce, after>>
  BY DEF Reserve
<1>3. intent[a] = NoIntent /\ tx[a] = "none" /\ sent[a] = 0
  BY DEF TypeInv, TypeOK, ControlInv, StoredFirst, Absent
<1>4. intent["entry"].amount \in Nat /\ intent'["entry"].amount \in Nat
  BY <1>1 DEF TypeInv, Shapes, Action
<1>5. NothingMined
  BY <1>1, <1>2, <1>3, <1>4 DEF NothingMined, NoIntent, Action
<1>6. ChainInv'
  BY <1>5, ChainKept
<1>7. NonceCounts' /\ NoncesTaken'
  BY <1>2, NoncesKept DEF NonceInv
<1>8. ForksGrow'
  BY <1>2 DEF ForksGrow, NewestFork, Block
<1>9. StoredFirst'
  BY <1>1, <1>2, <1>3 DEF StoredFirst, ControlInv
<1>10. LedgerInv'
  BY <1>6, <1>7, <1>8, <1>9 DEF LedgerInv
<1>11. local'[p] = [pc |-> "recheck", act |-> a, mode |-> "execute"]
  BY DEF Reserve, Execute, TypeInv, TypeOK
<1>12. Reserved.state \in Unresolved /\ ~ Reserved.signed
  BY DEF Reserved, Unresolved
<1>13. PlaceRight(p)'
  BY <1>1, <1>11, <1>12 DEF PlaceRight, InHand, InTurn, PlanRight, NonceReady, IsOpen, Quoting,
                            StoredSteps
<1> QED BY <1>1, <1>10, <1>13, InvariantByPlaceNext

------------------------------------------------------------------------------
(* Steps that read and decide.                                             *)

LEMMA GoesTo ==
    ASSUME TypeInv, NEW p \in Process, NEW step \in Steps, Goto(p, step)
    PROVE  /\ local' \in [Process -> Locals]
           /\ local'[p].pc = step /\ local'[p].act = local[p].act
<1>1. local \in [Process -> Locals]
  BY DEF TypeInv, TypeOK, Locals
<1>2. local' = [local EXCEPT ![p] = [local[p] EXCEPT !.pc = step]]
  BY <1>1, LocalMoves DEF Goto
<1>3. [local[p] EXCEPT !.pc = step] \in Locals
  BY LocalMoves
<1>4. local'[p] = [local[p] EXCEPT !.pc = step]
  BY <1>1, <1>2
<1> QED BY <1>1, <1>2, <1>3, <1>4 DEF Locals

LEMMA Ends ==
    ASSUME TypeInv, NEW p \in Process, End(p)
    PROVE  local' \in [Process -> Locals] /\ local'[p].pc = "idle"
<1>1. local \in [Process -> Locals] /\ Idle \in Locals
  BY LocalMoves DEF TypeInv, TypeOK, Locals, Steps
<1> QED BY <1>1 DEF End, Idle

LEMMA PlanKept == ASSUME TypeInv, UNCHANGED plan PROVE PlansTyped'
  BY DEF TypeInv, Shapes, PlansTyped

LEMMA PlanForgotten ==
    ASSUME TypeInv, NEW p \in Process, plan' = [plan EXCEPT ![p] = NoPlan]
    PROVE  PlansTyped'
  BY NoPlanTyped, PlanWritten

\* A process that leaves has nothing in hand.
FreeSteps == {"idle", "cleanup", "terminal"}

LEMMA FreePlace ==
    ASSUME NEW p \in Process, local'[p].pc \in FreeSteps
    PROVE  PlaceRight(p)'
  BY DEF FreeSteps, PlaceRight, InHand, InTurn, PlanRight, NonceReady, InHandSteps, StoredSteps, Quoting

LEMMA LeaveKeeps ==
    ASSUME WalletInv, NEW p \in Process, UNCHANGED <<rows, network, chainSide, columns>>,
           failures' \in Nat, PlansTyped',
           End(p) \/ (\E step \in FreeSteps : Goto(p, step))
    PROVE  WalletInv'
<1>1. TypeInv
  BY DEF WalletInv
<1>2. local' \in [Process -> Locals] /\ local'[p].pc \in FreeSteps
  BY <1>1, Ends, GoesTo DEF FreeSteps, Steps
<1> QED BY <1>2, FreePlace, MoveKeeps

\* The row in hand, at a step that demands no more than the last.
HandSteps == {"sign", "submit", "receipt", "observe", "include", "revert", "halt", "haltUpdate"}

LEMMA HandKeeps ==
    ASSUME WalletInv, NEW p \in Process, UNCHANGED <<rows, network, chainSide, columns>>,
           failures' \in Nat, PlansTyped', NEW step \in HandSteps, Goto(p, step),
           local[p].pc \in InHandSteps,
           step = "sign" => local[p].pc = "recheck",
           step \in StoredSteps => local[p].pc \in StoredSteps
    PROVE  WalletInv'
<1>1. TypeInv /\ InHand(p)
  BY DEF WalletInv, ControlInv
<1>2. step \in Steps
  BY DEF HandSteps, Steps
<1>3. local' \in [Process -> Locals] /\ local'[p].pc = step /\ local'[p].act = local[p].act
  BY <1>1, <1>2, GoesTo
<1>4. local'[p].act \in Action /\ rows'[local'[p].act].state \in Unresolved
  BY <1>1, <1>3 DEF InHand, IsOpen
<1>5. step = "sign" => ~ rows[local[p].act].signed
  BY <1>1 DEF InHand
<1>6. step \in StoredSteps => rows[local[p].act].signed
  BY <1>1 DEF InHand
<1>7. step # "broadcast" /\ step # "recheck" /\ step \notin Quoting
  BY DEF HandSteps, Quoting
<1>8. PlaceRight(p)'
  BY <1>3, <1>4, <1>5, <1>6, <1>7 DEF PlaceRight, InHand, InTurn, PlanRight, NonceReady, Quoting,
                                      IsOpen
<1> QED BY <1>3, <1>8, MoveKeeps

LEMMA TakeUpKeeps ==
    ASSUME WalletInv, NEW p \in Process, TakeUp(p)
    PROVE  WalletInv'
<1>1. PICK a \in Action : IsOpen(a) /\ Reconcile(p, a, "reconcile")
  BY DEF TakeUp
<1>2. UNCHANGED <<rows, network, failures, aside>> /\ failures' \in Nat /\ TypeInv
  BY DEF TakeUp, WalletInv, TypeInv, TypeOK
<1>3. local \in [Process -> Locals]
  BY <1>2 DEF TypeInv, TypeOK, Locals
<1>4. PICK step \in {"receipt", "halt"} :
          /\ step = "receipt" => rows[a].signed
          /\ local' = [local EXCEPT ![p] = [pc |-> step, act |-> a, mode |-> "reconcile"]]
  BY <1>1 DEF Reconcile
<1>5. [pc |-> step, act |-> a, mode |-> "reconcile"] \in Locals
  BY DEF Locals, Steps, Modes
<1>6. local' \in [Process -> Locals] /\ local'[p] = [pc |-> step, act |-> a, mode |-> "reconcile"]
  BY <1>3, <1>4, <1>5
<1>7. PlaceRight(p)'
  BY <1>1, <1>2, <1>4, <1>6 DEF PlaceRight, InHand, InTurn, PlanRight, NonceReady, IsOpen, Quoting,
                                StoredSteps, InHandSteps
<1> QED BY <1>2, <1>6, <1>7, PlanKept, MoveKeeps

LEMMA StartPlanKeeps ==
    ASSUME WalletInv, NEW p \in Process, NEW act \in Action, StartPlan(p, act),
           (act = "buy" /\ BuyInTurn) \/ (act = "exit" /\ ExitInTurn)
    PROVE  WalletInv'
<1>1. TypeInv /\ ForksGrow /\ failures' \in Nat
      /\ UNCHANGED <<rows, network, chainSide, columns>>
  BY DEF WalletInv, TypeInv, TypeOK, StartPlan
<1>2. local \in [Process -> Locals] /\ head \in Block /\ ChainTypeOK
  BY <1>1 DEF TypeInv, TypeOK, Locals, ChainTypeOK
<1>3. [pc |-> "quote", act |-> act, mode |-> "none"] \in Locals
  BY DEF Locals, Steps, Modes
<1>4. local' \in [Process -> Locals] /\ local'[p] = [pc |-> "quote", act |-> act, mode |-> "none"]
  BY <1>2, <1>3 DEF StartPlan
<1>5. Point(head) \in Location /\ Point(head).block = head /\ Point(head).fork = fork[head]
  BY <1>1, <1>2, PointsArePriced DEF Point
<1> DEFINE begun == [NoPlan EXCEPT !.quote = Point(head)]
<1>6. begun \in PlanRecords(NoIntent) /\ begun.quote = Point(head)
  BY <1>5 DEF NoPlan, PlanRecords
<1>7. plan' = [plan EXCEPT ![p] = begun]
  BY DEF StartPlan
<1> HIDE DEF begun
<1>8. PlansTyped' /\ plan'[p] = begun
  BY ONLY <1>1, <1>6, <1>7, PlanWritten
<1>9. fork[head] \in 1..NewestFork
  BY <1>1, <1>2, NewestIsNumber DEF ForksGrow, ChainTypeOK
<1>10. head' = head /\ NewestFork' = NewestFork /\ head <= head
  BY <1>1, <1>2, HeightsAreNumbers DEF NewestFork
<1>11. (act = "buy" /\ BuyInTurn') \/ (act = "exit" /\ ExitInTurn')
  BY <1>1 DEF BuyInTurn, ExitInTurn, BuyIncluded, Acquired
<1>12. PlanRight(p)'
  BY <1>4, <1>5, <1>6, <1>8, <1>9, <1>10 DEF PlanRight
<1>13. PlaceRight(p)'
  BY <1>4, <1>11, <1>12 DEF PlaceRight, InHand, InTurn, NonceReady, Quoting,
                                 StoredSteps, InHandSteps
<1> QED BY <1>1, <1>4, <1>8, <1>13, MoveKeeps

LEMMA PlanBuilt ==
    ASSUME NEW s, NEW r \in PlanRecords(s), NEW i, NEW t, t = [r EXCEPT !.swap = i]
    PROVE  t \in PlanRecords(i) /\ t.quote = r.quote /\ t.swap = i
  BY DEF PlanRecords

LEMMA PlanNoted ==
    ASSUME NEW s, NEW r \in PlanRecords(s), NEW m \in Nat
    PROVE  [r EXCEPT !.noted = m] \in PlanRecords(s)
  BY DEF PlanRecords

\* A quote below the head at a fork seen by now can be priced.
LEMMA QuoteInReach ==
    ASSUME TypeInv, ForksGrow, NEW quote \in Location, quote.fork \in 1..NewestFork
    PROVE  quote.fork \in 1..MaxReorgs + 1 /\ quote.block \in Block
  BY NewestIsNumber, ChainAssumption DEF ForksGrow, Location, TypeInv, TypeOK, ChainAssumption

LEMMA PriceKeeps ==
    ASSUME WalletInv, NEW p \in Process, Price(p)
    PROVE  WalletInv'
<1>1. /\ TypeInv /\ ForksGrow /\ failures' \in Nat
      /\ UNCHANGED <<rows, network, chainSide, columns>>
      /\ local[p].pc = "quote" /\ Goto(p, "clock")
  BY DEF WalletInv, TypeInv, TypeOK, Price, At
<1> DEFINE read == plan[p]
           point == Point(read.quote.block)
           selling == local[p].act = "exit"
           amount == IF selling THEN Acquired
                     ELSE IF rows["entry"].state = "INCLUDED" THEN intent["entry"].amount ELSE DollarAt(point)
           quoted == IF selling THEN amount \div RateAt(point) ELSE amount * RateAt(point)
           priced == [read EXCEPT !.amount = amount, !.quoted = quoted]
<1>2. read \in PlanRecords(read.swap) /\ read.quote \in Location
  BY <1>1 DEF TypeInv, Shapes, PlansTyped, PlanRecords
<1>3. point \in Location /\ point.fork \in 1..MaxReorgs + 1 /\ point.block = read.quote.block
  BY <1>1, <1>2, PointsArePriced DEF TypeInv, TypeOK, Location
<1>4. DollarAt(point) \in Nat \ {0} /\ RateAt(point) \in Nat \ {0}
  BY <1>3, PricesArePositive
<1>5. InTurn(p)
  BY DEF WalletInv, ControlInv
<1>6. \/ local[p].act = "buy" /\ BuyInTurn /\ ~ selling
      \/ local[p].act = "exit" /\ ExitInTurn /\ selling
  BY <1>1, <1>5 DEF InTurn, Quoting
<1>7. intent["entry"].amount \in Nat /\ after["buy"] \in Nat /\ before["buy"] \in Nat
  BY <1>1 DEF TypeInv, TypeOK, Shapes, Action, Swaps
<1>8. selling => Acquired \in Nat
  BY <1>6, <1>7 DEF ExitInTurn, BuyIncluded, Acquired
<1>9. amount \in Nat
  BY <1>4, <1>7, <1>8
<1>10. amount \div RateAt(point) \in Nat /\ amount * RateAt(point) \in Nat
  <2> HIDE DEF amount
  <2> QED BY <1>4, <1>9, Products, Quotients
<1>11. quoted \in Nat
  BY <1>10
<1>12. ~ selling => amount <= DollarAt(point)
  BY <1>4 DEF Price
<1>13. plan' = [plan EXCEPT ![p] = priced]
  BY <1>1 DEF Price, TypeInv, Shapes, PlansTyped
<1>14. priced \in PlanRecords(read.swap) /\ priced.quote = read.quote /\ priced.amount = amount
       /\ priced.quoted = quoted
  <2>1. PICK s, r, m, n : s = read.swap /\ r = read /\ m = amount /\ n = quoted
    OBVIOUS
  <2>2. r \in PlanRecords(s) /\ m \in Nat /\ n \in Nat /\ priced = [r EXCEPT !.amount = m, !.quoted = n]
    BY <1>2, <1>9, <1>11, <2>1
  <2> HIDE DEF read, priced, amount, quoted
  <2>3. priced \in PlanRecords(s) /\ priced.quote = r.quote /\ priced.amount = m /\ priced.quoted = n
    BY <2>2 DEF PlanRecords
  <2> QED BY <2>1, <2>3
<1>15. selling => amount = Acquired /\ quoted = amount \div RateAt(point)
  OBVIOUS
<1>16. ~ selling => quoted = amount * RateAt(point)
  OBVIOUS
<1>17. PICK r : r = priced
  OBVIOUS
<1> HIDE DEF priced, amount, quoted
<1>18. PlansTyped' /\ plan'[p] = r
  BY ONLY <1>1, <1>13, <1>14, <1>17, PlanWritten
<1>19. local' \in [Process -> Locals] /\ local'[p].pc = "clock" /\ local'[p].act = local[p].act
  BY <1>1, GoesTo DEF Steps
<1>20. r.quote = read.quote /\ r.amount = amount /\ r.quoted = quoted
  BY <1>14, <1>17
<1>21. fork[r.quote.block] = r.quote.fork => r.quote = point
  BY <1>2, <1>20 DEF Point, Location
<1>22. fork[r.quote.block] = r.quote.fork => ReadRight(r, local[p].act)
  BY <1>6, <1>12, <1>15, <1>16, <1>20, <1>21 DEF ReadRight
<1>23. ReadRight(plan[p], local[p].act)' <=> ReadRight(r, local[p].act)
  BY <1>1, <1>18, <1>19 DEF ReadRight, Acquired
<1>24. QuoteCanonical(plan[p])' <=> fork[r.quote.block] = r.quote.fork
  BY <1>1, <1>18 DEF QuoteCanonical
<1>25. read.quote.block <= head /\ read.quote.fork \in 1..NewestFork
  BY <1>1 DEF WalletInv, PlansRight, PlanRight, Quoting
<1>26. PlanRight(p)'
  BY <1>1, <1>18, <1>19, <1>20, <1>22, <1>23, <1>24, <1>25 DEF PlanRight, NewestFork
<1>27. (local'[p].act = "buy" /\ BuyInTurn') \/ (local'[p].act = "exit" /\ ExitInTurn')
  BY <1>1, <1>6, <1>19 DEF BuyInTurn, ExitInTurn, BuyIncluded, Acquired
<1>28. PlaceRight(p)'
  BY <1>19, <1>26, <1>27 DEF PlaceRight, InHand, InTurn, NonceReady, StoredSteps, InHandSteps
<1> QED BY <1>1, <1>18, <1>19, <1>28, MoveKeeps

LEMMA PlanKeeps ==
    ASSUME WalletInv, NEW p \in Process, Plan(p)
    PROVE  WalletInv'
<1>1. /\ TypeInv /\ ForksGrow /\ failures' \in Nat
      /\ UNCHANGED <<rows, network, chainSide, columns>>
      /\ local[p].pc = "clock" /\ Goto(p, "preflight")
  BY DEF WalletInv, TypeInv, TypeOK, Plan, At
<1>2. PICK read : read = plan[p]
  OBVIOUS
<1>3. InTurn(p) /\ PlanRight(p)
  BY DEF WalletInv, ControlInv, PlansRight
<1>4. \/ local[p].act = "buy" /\ BuyInTurn
      \/ local[p].act = "exit" /\ ExitInTurn
  BY <1>1, <1>3 DEF InTurn, Quoting
<1>5. read \in PlanRecords(read.swap)
  BY <1>1, <1>2 DEF TypeInv, Shapes, PlansTyped
<1>6. read.quote \in Location /\ read.amount \in Nat /\ read.quoted \in Nat
  BY <1>5 DEF PlanRecords
<1>7. PICK swap : swap = IF local[p].act = "exit"
                         THEN ExitSwap(intent["buy"], read.quote, read.amount, read.quoted, Time(head))
                         ELSE BuySwap(Candidate, read.quote, read.amount, read.quoted, Time(head))
  OBVIOUS
<1>8. plan' = [plan EXCEPT ![p] = [read EXCEPT !.swap = swap]]
  BY <1>1, <1>2, <1>7 DEF Plan, TypeInv, Shapes, PlansTyped
<1>9. PICK r : r = [read EXCEPT !.swap = swap]
  OBVIOUS
<1>10. r \in PlanRecords(swap) /\ r.quote = read.quote /\ r.swap = swap
  BY <1>5, <1>9, PlanBuilt
<1>11. PlansTyped' /\ plan'[p] = r
  BY ONLY <1>1, <1>8, <1>9, <1>10, PlanWritten
<1>12. local' \in [Process -> Locals] /\ local'[p].pc = "preflight" /\ local'[p].act = local[p].act
  BY <1>1, GoesTo DEF Steps
<1>13. QuoteCanonical(read) /\ Buildable(read.amount, read.quoted, Time(head))
  BY <1>2 DEF Plan
<1>14. ReadRight(read, local[p].act) /\ read.quote.block <= head /\ read.quote.fork \in 1..NewestFork
  BY <1>1, <1>2, <1>3, <1>13 DEF PlanRight, Quoting
<1>15. /\ swap.amount = read.amount /\ swap.quote = read.quote
       /\ swap.minimum = MinimumOut(read.quoted) /\ swap.deadline = Time(head) + DeadlineSeconds
       /\ swap.pays = IF local[p].act = "exit" THEN "launched" ELSE "weth"
  BY <1>7 DEF ExitSwap, BuySwap, Swap
<1>16. Yield(swap, swap.quote) = read.quoted
  BY <1>4, <1>14, <1>15 DEF ReadRight, Yield
<1>17. head \in Nat /\ Time(head) + DeadlineSeconds \in Nat
  <2>1. head \in Nat /\ DeadlineSeconds \in Nat
    <3>1. head \in Block
      BY <1>1 DEF TypeInv, TypeOK, ChainTypeOK
    <3>2. DeadlineSeconds \in Nat
      BY IntentAssumption DEF IntentAssumption
    <3> QED BY ONLY <3>1, <3>2, HeightsAreNumbers
  <2> QED BY ONLY <2>1 DEF Time
<1>18. read.quote.fork \in 1..MaxReorgs + 1
  BY <1>1, <1>6, <1>14, QuoteInReach
<1>19. AsQuoted(swap) /\ swap.deadline <= Time(head) + DeadlineSeconds
  BY <1>6, <1>13, <1>15, <1>16, <1>17, <1>18 DEF AsQuoted, Buildable
<1>20. IF local[p].act = "buy" THEN swap.pays = "weth" /\ WithinDollar(swap) ELSE swap.pays = "launched"
  BY <1>4, <1>14, <1>15 DEF WithinDollar, ReadRight
<1>21. SwapRight(plan[p].swap, local[p].act)'
  <2>1. AsQuoted(plan[p].swap)'
    BY <1>10, <1>11, <1>19 DEF AsQuoted, MinimumOut, Yield, RateAt
  <2>2. WithinDollar(plan[p].swap)' <=> WithinDollar(swap)
    BY <1>10, <1>11 DEF WithinDollar, DollarAt
  <2> QED BY <1>1, <1>10, <1>11, <1>12, <1>19, <1>20, <2>1, <2>2 DEF SwapRight, Time
<1>22. PlanRight(p)'
  BY <1>1, <1>10, <1>11, <1>12, <1>14, <1>21 DEF PlanRight, NewestFork
<1>23. (local'[p].act = "buy" /\ BuyInTurn') \/ (local'[p].act = "exit" /\ ExitInTurn')
  BY <1>1, <1>4, <1>12 DEF BuyInTurn, ExitInTurn, BuyIncluded, Acquired
<1>24. PlaceRight(p)'
  BY <1>12, <1>22, <1>23 DEF PlaceRight, InHand, InTurn, NonceReady, StoredSteps, InHandSteps
<1> QED BY <1>1, <1>11, <1>12, <1>24, MoveKeeps

LEMMA RecheckKeeps ==
    ASSUME WalletInv, NEW p \in Process, Recheck(p)
    PROVE  WalletInv'
<1>1. /\ TypeInv /\ failures' \in Nat /\ UNCHANGED <<rows, network, chainSide, columns>>
      /\ PlansTyped' /\ local[p].pc \in InHandSteps /\ local[p].pc = "recheck"
  BY PlanKept DEF WalletInv, TypeInv, TypeOK, Recheck, At, InHandSteps
<1>2. Goto(p, "sign") \/ End(p) \/ Goto(p, "halt")
  BY DEF Recheck, SigningThrew
<1>3. CASE Goto(p, "sign")
  BY <1>1, <1>3, HandKeeps DEF HandSteps, StoredSteps
<1>4. CASE End(p)
  BY <1>1, <1>4, LeaveKeeps
<1>5. CASE Goto(p, "halt")
  BY <1>1, <1>5, HandKeeps DEF HandSteps, StoredSteps
<1> QED BY <1>2, <1>3, <1>4, <1>5

\* A receipt or a balance is read, or the row looked up: no row is written.
LEMMA LooksKeep ==
    ASSUME WalletInv, NEW p \in Process, UNCHANGED <<rows, network, chainSide, columns>>,
           failures' \in Nat, PlansTyped', local[p].pc \in {"receipt", "observe", "halt"},
           \/ End(p) \/ Goto(p, "halt")
           \/ local[p].pc = "halt" /\ Goto(p, "haltUpdate")
           \/ local[p].pc # "halt" /\ (\E step \in {"observe", "include", "revert"} : Goto(p, step))
    PROVE  WalletInv'
<1>1. local[p].pc \in InHandSteps
  BY DEF InHandSteps
<1>2. CASE End(p)
  BY <1>2, LeaveKeeps
<1>3. CASE Goto(p, "halt")
  BY <1>1, <1>3, HandKeeps DEF HandSteps, StoredSteps
<1>4. CASE Goto(p, "haltUpdate")
  BY <1>1, <1>4, HandKeeps DEF HandSteps, StoredSteps
<1>5. CASE local[p].pc # "halt" /\ (\E step \in {"observe", "include", "revert"} : Goto(p, step))
  <2>1. PICK step \in {"observe", "include", "revert"} : Goto(p, step)
    BY <1>5
  <2>2. local[p].pc \in StoredSteps /\ step \in HandSteps /\ step # "sign"
    BY <1>5 DEF StoredSteps, HandSteps
  <2> QED BY <1>1, <2>1, <2>2, HandKeeps
<1> QED BY <1>2, <1>3, <1>4, <1>5

LEMMA ReceiptKeeps ==
    ASSUME WalletInv, NEW p \in Process, ReadReceipt(p) \/ Halt(p), UNCHANGED aside
    PROVE  WalletInv'
<1>1. /\ UNCHANGED <<rows, network, chainSide, columns>> /\ failures' \in Nat /\ PlansTyped'
  BY PlanKept DEF WalletInv, TypeInv, TypeOK, ReadReceipt, Halt
<1>2. CASE ReadReceipt(p)
  <2>1. local[p].pc = "receipt"
    BY <1>2 DEF ReadReceipt, At
  <2>2. End(p) \/ Goto(p, "halt") \/ Goto(p, "observe") \/ Goto(p, "revert")
    BY <1>2 DEF ReadReceipt, Throw
  <2> QED BY <1>1, <2>1, <2>2, LooksKeep
<1>3. CASE Halt(p)
  BY <1>1, <1>3, LooksKeep DEF Halt, At
<1> QED BY <1>2, <1>3

LEMMA ReadOutcomeKeeps ==
    ASSUME WalletInv, NEW p \in Process, ReadOutcome(p)
    PROVE  WalletInv'
<1>1. /\ UNCHANGED <<rows, network, chainSide, columns>> /\ failures' \in Nat /\ TypeInv
      /\ local[p].pc = "observe"
  BY DEF WalletInv, TypeInv, TypeOK, ReadOutcome, Observe, At
<1>2. End(p) \/ Goto(p, "halt") \/ Goto(p, "include")
  BY DEF ReadOutcome, Observe, Throw
<1>3. PICK m : m = IF local[p].act = "exit" THEN Now.weth ELSE Now.tokens
  OBVIOUS
<1>4. m \in Nat
  BY <1>1, <1>3 DEF TypeInv, TypeOK, ChainTypeOK, Purse, Now
<1>5. plan[p] \in PlanRecords(plan[p].swap) /\ DOMAIN plan = Process
  BY <1>1 DEF TypeInv, Shapes, PlansTyped
<1>6. plan' = [plan EXCEPT ![p] = [plan[p] EXCEPT !.noted = m]]
  BY <1>3, <1>5 DEF ReadOutcome
<1>7. [plan[p] EXCEPT !.noted = m] \in PlanRecords(plan[p].swap)
  BY <1>4, <1>5, PlanNoted
<1>8. PlansTyped'
  BY ONLY <1>1, <1>6, <1>7, PlanWritten
<1> QED BY <1>1, <1>2, <1>8, LooksKeep

------------------------------------------------------------------------------
(* Steps that write a row.                                                 *)

\* The row in hand can be written: it is open, whatever its transaction.
LEMMA OpenRow ==
    ASSUME TypeInv, NEW a \in Action, IsOpen(a), NEW state
    PROVE  /\ rows[a] \in Row /\ rows[a] # Absent /\ rows[a] # Skipped /\ rows[a].state # "INCLUDED"
           /\ [rows EXCEPT ![a].state = state] = [rows EXCEPT ![a] = [rows[a] EXCEPT !.state = state]]
           /\ [rows[a] EXCEPT !.state = state].signed = rows[a].signed
           /\ [rows[a] EXCEPT !.state = state].state = state
<1>1. rows[a] \in Row
  BY DEF TypeInv, TypeOK
<1>2. rows[a].state \in Unresolved
  BY DEF IsOpen
<1>3. rows[a] # Absent /\ rows[a] # Skipped /\ rows[a].state # "INCLUDED"
  BY <1>2 DEF Unresolved, Absent, Skipped
<1>4. [rows EXCEPT ![a].state = state] = [rows EXCEPT ![a] = [rows[a] EXCEPT !.state = state]]
  BY DEF TypeInv, TypeOK
<1>5. [rows[a] EXCEPT !.state = state].signed = rows[a].signed
      /\ [rows[a] EXCEPT !.state = state].state = state
  BY <1>1 DEF Row
<1> QED BY <1>1, <1>3, <1>4, <1>5

\* A stored one may take any of these states, an open one SAFE_HALT.
LEMMA RowWrites ==
    ASSUME WalletInv, NEW p \in Process, NEW a \in Action, IsOpen(a),
           NEW state \in {"SUBMITTED", "INCLUDED", "REVERTED", "SAFE_HALT"},
           rows[a].signed \/ state = "SAFE_HALT", rows' = [rows EXCEPT ![a].state = state],
           UNCHANGED <<network, chainSide, intent, nonce, before, failures>>,
           after' \in [Swaps -> Nat], a # "buy" => after'["buy"] = after["buy"],
           local' \in [Process -> Locals], PlansTyped', PlaceRight(p)'
    PROVE  WalletInv'
<1>1. PICK r : r = [rows[a] EXCEPT !.state = state]
  OBVIOUS
<1>2. TypeInv
  BY DEF WalletInv
<1>3. /\ rows[a] \in Row /\ rows[a] # Absent /\ rows[a] # Skipped /\ rows[a].state # "INCLUDED"
      /\ rows' = [rows EXCEPT ![a] = r] /\ r.signed = rows[a].signed /\ r.state = state
  BY <1>1, <1>2, OpenRow
<1>4. \/ r = [state |-> state, signed |-> TRUE]
      \/ state = "SAFE_HALT" /\ r = [state |-> state, signed |-> FALSE]
  BY <1>1, <1>3 DEF Row
<1>5. r \in Row
  <2>1. [state |-> state, signed |-> TRUE] \in Row
    BY DEF Row
  <2>2. [state |-> "SAFE_HALT", signed |-> FALSE] \in Row
    BY DEF Row
  <2> QED BY <1>4, <2>1, <2>2
<1>6. r # Absent /\ r # Skipped
  BY <1>3 DEF Absent, Skipped
<1> QED BY <1>3, <1>5, <1>6, RowKeeps

LEMMA InHandRow ==
    ASSUME WalletInv, NEW p \in Process, local[p].pc \in InHandSteps
    PROVE  /\ local[p].act \in Action /\ IsOpen(local[p].act) /\ TypeInv
           /\ local[p].pc \in StoredSteps => rows[local[p].act].signed
           /\ local[p].pc \in {"recheck", "sign"} => ~ rows[local[p].act].signed
           /\ local[p].pc = "broadcast" => sent[local[p].act] = 0
  BY DEF WalletInv, ControlInv, InHand

LEMMA SubmitKeeps ==
    ASSUME WalletInv, NEW p \in Process, Submit(p), UNCHANGED aside
    PROVE  WalletInv'
<1>1. PICK a : a = local[p].act
  OBVIOUS
<1>2. local[p].pc = "submit" /\ UNCHANGED <<network, failures>> /\ failures' \in Nat
  BY DEF Submit, At, WalletInv, TypeInv, TypeOK
<1>3. a \in Action /\ IsOpen(a) /\ rows[a].signed /\ TypeInv /\ PlansTyped'
  BY <1>1, <1>2, InHandRow, PlanKept DEF InHandSteps, StoredSteps
<1>4. CASE Goto(p, "halt") /\ UNCHANGED rows
  BY <1>2, <1>3, <1>4, HandKeeps DEF InHandSteps, HandSteps, StoredSteps
<1>5. CASE rows' = [rows EXCEPT ![a].state = "SUBMITTED"] /\ Goto(p, "receipt")
  <2>1. local' \in [Process -> Locals] /\ local'[p].pc = "receipt" /\ local'[p].act = a
    BY <1>1, <1>3, <1>5, GoesTo DEF Steps
  <2>2. rows'[a].state = "SUBMITTED" /\ rows'[a].signed
    BY <1>3, <1>5 DEF TypeInv, TypeOK, Row
  <2>3. PlaceRight(p)'
    BY <1>3, <2>1, <2>2 DEF PlaceRight, InHand, InTurn, PlanRight, NonceReady, Quoting,
                            StoredSteps, InHandSteps, IsOpen, Unresolved
  <2>4. after' \in [Swaps -> Nat] /\ after'["buy"] = after["buy"]
    BY <1>3 DEF TypeInv, TypeOK
  <2> QED BY <1>2, <1>3, <1>5, <2>1, <2>3, <2>4, RowWrites
<1> QED BY <1>1, <1>4, <1>5 DEF Submit

LEMMA MarkRevertedKeeps ==
    ASSUME WalletInv, NEW p \in Process, MarkReverted(p) \/ HaltUpdate(p), UNCHANGED aside
    PROVE  WalletInv'
<1>1. PICK a : a = local[p].act
  OBVIOUS
<1>2. /\ local[p].pc \in {"revert", "haltUpdate"} /\ End(p)
      /\ UNCHANGED <<network, failures>> /\ failures' \in Nat
  BY DEF MarkReverted, HaltUpdate, At, WalletInv, TypeInv, TypeOK
<1>3. /\ a \in Action /\ IsOpen(a) /\ TypeInv /\ PlansTyped'
      /\ local[p].pc = "revert" => rows[a].signed
  BY <1>1, <1>2, InHandRow, PlanKept DEF InHandSteps, StoredSteps
<1>4. PICK state \in {"REVERTED", "SAFE_HALT"} :
          /\ rows' = [rows EXCEPT ![a].state = state]
          /\ rows[a].signed \/ state = "SAFE_HALT"
  BY <1>1, <1>3 DEF MarkReverted, HaltUpdate, At
<1>5. local' \in [Process -> Locals] /\ PlaceRight(p)'
  BY <1>2, <1>3, Ends, FreePlace DEF FreeSteps
<1>6. after' \in [Swaps -> Nat] /\ after'["buy"] = after["buy"]
  BY <1>3 DEF TypeInv, TypeOK
<1> QED BY <1>2, <1>3, <1>4, <1>5, <1>6, RowWrites

LEMMA IncludeKeeps ==
    ASSUME WalletInv, NEW p \in Process, Include(p)
    PROVE  WalletInv'
<1>1. PICK a : a = local[p].act
  OBVIOUS
<1>2. local[p].pc = "include" /\ UNCHANGED <<network, failures, chainSide, intent, nonce, before>>
  BY DEF Include, MarkIncluded, At
<1>3. a \in Action /\ IsOpen(a) /\ rows[a].signed /\ TypeInv
  BY <1>1, <1>2, InHandRow DEF InHandSteps, StoredSteps
<1>4. PlansTyped'
  BY <1>3, PlanForgotten DEF Include
<1>5. End(p) \/ Goto(p, "cleanup") \/ Goto(p, "terminal")
  BY DEF Include
<1>6. local' \in [Process -> Locals] /\ local'[p].pc \in FreeSteps
  BY <1>3, <1>5, Ends, GoesTo DEF FreeSteps, Steps
<1>7. plan[p].noted \in Nat /\ after \in [Swaps -> Nat]
  BY <1>3 DEF TypeInv, TypeOK, Shapes, PlansTyped, PlanRecords
<1>8. after' = [s \in Swaps |-> IF s = a THEN plan[p].noted ELSE after[s]]
  BY <1>1 DEF Include
<1>9. after' \in [Swaps -> Nat] /\ (a # "buy" => after'["buy"] = after["buy"])
  BY <1>7, <1>8 DEF Swaps
<1>10. rows' = [rows EXCEPT ![a].state = "INCLUDED"]
  BY <1>1 DEF Include, MarkIncluded
<1> QED BY <1>2, <1>3, <1>4, <1>6, <1>9, <1>10, FreePlace, RowWrites

LEMMA SkipBuyKeeps ==
    ASSUME WalletInv, NEW p \in Process, SkipBuy(p)
    PROVE  WalletInv'
<1>1. /\ TypeInv /\ rows["buy"] = Absent /\ rows' = [rows EXCEPT !["buy"] = Skipped]
      /\ UNCHANGED <<network, failures, aside>> /\ Goto(p, "cleanup")
  BY DEF WalletInv, SkipBuy
<1>2. rows \in [Action -> Row] /\ "buy" \in Action /\ PlansTyped'
  BY <1>1, PlanKept DEF TypeInv, TypeOK, Action
<1>3. /\ rows' \in [Action -> Row] /\ rows'["buy"] = Skipped
      /\ \A b \in Action \ {"buy"} : rows'[b] = rows[b]
  BY <1>1, <1>2 DEF Row, Skipped
<1>4. \A b \in Action : /\ rows'[b].signed = rows[b].signed
                        /\ (rows'[b] = Absent \/ rows'[b] = Skipped) = (rows[b] = Absent \/ rows[b] = Skipped)
  <2> SUFFICES ASSUME NEW b \in Action
               PROVE  /\ rows'[b].signed = rows[b].signed
                      /\ (rows'[b] = Absent \/ rows'[b] = Skipped) = (rows[b] = Absent \/ rows[b] = Skipped)
    OBVIOUS
  <2>1. CASE b = "buy"
    <3>1. rows[b] = Absent /\ rows'[b] = Skipped
      BY <1>1, <1>3, <2>1
    <3> QED BY <3>1 DEF Absent, Skipped
  <2>2. CASE b # "buy"
    <3>1. rows'[b] = rows[b]
      BY <1>3, <2>2
    <3> QED BY <3>1
  <2> QED BY <2>1, <2>2
<1>5. local' \in [Process -> Locals] /\ local'[p].pc = "cleanup"
  BY <1>1, GoesTo DEF Steps
<1>6. TypeInv'
  <2>1. TypeOK'
    BY <1>1, <1>3, <1>4, <1>5 DEF TypeInv, TypeOK, ChainTypeOK, Locals
  <2>2. Shapes'
    BY <1>1, <1>2 DEF TypeInv, Shapes
  <2> QED BY <2>1, <2>2 DEF TypeInv
<1>7. NothingMined
  BY <1>1 DEF NothingMined, TypeInv, Shapes, Action
<1>8. ChainInv' /\ IntentsRight'
  BY <1>1, <1>7, ChainKept, IntentsKept DEF WalletInv, BuySettled, Absent
<1>9. NonceCounts' /\ NoncesTaken'
  BY <1>1, NoncesKept DEF WalletInv, NonceInv
<1>10. ForksGrow' /\ StoredFirst'
  BY <1>1, <1>4 DEF WalletInv, ForksGrow, NewestFork, Block, StoredFirst, ControlInv
<1>11. LedgerInv' /\ PlaceRight(p)'
  BY <1>5, <1>8, <1>9, <1>10, FreePlace DEF LedgerInv, FreeSteps
<1> QED BY <1>6, <1>11, InvariantByPlaceNext

LEMMA CloseEntryKeeps ==
    ASSUME WalletInv, NEW p \in Process, CloseEntry(p)
    PROVE  WalletInv'
<1>1. /\ TypeInv /\ UNCHANGED <<network, failures, aside>> /\ End(p) /\ failures' \in Nat
      /\ rows' = [rows EXCEPT !["entry"].state = IF @ = "INCLUDED" THEN "SKIPPED" ELSE @]
  BY DEF WalletInv, TypeInv, TypeOK, CloseEntry
<1>2. rows \in [Action -> Row] /\ "entry" \in Action /\ PlansTyped'
  BY <1>1, PlanKept DEF TypeInv, TypeOK, Action
<1>3. CASE rows["entry"].state = "INCLUDED"
  <2>1. rows["entry"] = [state |-> "INCLUDED", signed |-> TRUE]
    BY <1>2, <1>3 DEF Row
  <2>2. PICK r : r = [rows["entry"] EXCEPT !.state = "SKIPPED"]
    OBVIOUS
  <2>3. rows' = [rows EXCEPT !["entry"] = r]
    <3>1. rows' = [rows EXCEPT !["entry"] = [rows["entry"] EXCEPT !.state =
                       IF rows["entry"].state = "INCLUDED" THEN "SKIPPED" ELSE rows["entry"].state]]
      BY <1>2 DEF CloseEntry
    <3> QED BY <1>3, <2>2, <3>1
  <2>4. r \in Row /\ r.state = "SKIPPED" /\ r.signed = TRUE
    <3>1. rows["entry"] \in [state : {"INCLUDED"}, signed : {TRUE}]
      BY <2>1
    <3>2. r \in [state : {"SKIPPED"}, signed : BOOLEAN] /\ r.state = "SKIPPED" /\ r.signed = TRUE
      BY <2>2, <3>1
    <3> QED BY <3>2 DEF Row
  <2>5. /\ rows["entry"] # Absent /\ rows["entry"] # Skipped /\ r # Absent /\ r # Skipped
        /\ r.signed = rows["entry"].signed
    <3>1. rows["entry"].state = "INCLUDED" /\ rows["entry"].signed = TRUE
      BY <2>1
    <3>2. Absent.state = "NONE" /\ Skipped.signed = FALSE
      BY DEF Absent, Skipped
    <3> QED BY <2>4, <3>1, <3>2
  <2>6. after' \in [Swaps -> Nat] /\ after'["buy"] = after["buy"]
    BY <1>1 DEF TypeInv, TypeOK
  <2>7. local' \in [Process -> Locals] /\ PlaceRight(p)'
    BY <1>1, Ends, FreePlace DEF FreeSteps
  <2>8. UNCHANGED <<network, chainSide, intent, nonce, before, failures>> /\ "entry" # "buy"
    BY <1>1
  <2> QED BY <1>2, <2>3, <2>4, <2>5, <2>6, <2>7, <2>8, RowKeeps
<1>4. CASE rows["entry"].state # "INCLUDED"
  <2>1. rows' = rows
    BY <1>1, <1>2, <1>4 DEF Row
  <2> QED BY <1>1, <1>2, <2>1, LeaveKeeps
<1> QED BY <1>3, <1>4

------------------------------------------------------------------------------
(* Signing takes the next nonce, sending uses it.                          *)

LEMMA ActionIsFinite == IsFiniteSet(Action)
<1>1. Action = {"entry"} \cup ({"buy"} \cup ({"revoke"} \cup ({"approval"} \cup {"exit"})))
  BY DEF Action
<1> QED BY <1>1, FS_Singleton, FS_Union

LEMMA ActionsCount ==
    ASSUME NEW T, T \subseteq Action
    PROVE  IsFiniteSet(T) /\ Cardinality(T) \in Nat
  BY ActionIsFinite, FS_Subset, FS_CardinalityType

\* The pending count is that of all the transactions the network knows.
LEMMA PendingIsKnown ==
    ASSUME TypeInv, NonceCounts
    PROVE  PendingNonce = Cardinality(Known)
<1> DEFINE pending == {a \in Action : tx[a] = "pending"}
           mined == MinedBy(head)
<1>1. head \in Block /\ minedAt \in [Action -> Block] /\ tx \in [Action -> TxStates]
      /\ \A a \in Action : (minedAt[a] # 0) = (tx[a] \in Receipts) /\ minedAt[a] <= head
  BY DEF TypeInv, TypeOK, ChainTypeOK
<1>2. \A a \in Action : minedAt[a] \in 1..head <=> tx[a] \in Receipts
  <2> SUFFICES ASSUME NEW a \in Action
               PROVE  minedAt[a] \in 1..head <=> tx[a] \in Receipts
    OBVIOUS
  <2>1. minedAt[a] \in Nat /\ head \in Nat /\ minedAt[a] <= head
    BY <1>1, HeightsAreNumbers
  <2>2. minedAt[a] # 0 <=> tx[a] \in Receipts
    BY <1>1
  <2> QED BY <2>1, <2>2
<1>3. \A a \in Action : (a \in mined) <=> tx[a] \in Receipts
  BY <1>2 DEF MinedBy
<1>4. Known = mined \cup pending
  BY <1>1, <1>3 DEF Known, TxStates, Receipts, MinedBy
<1>5. mined \cap pending = {}
  BY <1>3 DEF Receipts
<1>6. mined \subseteq Action /\ pending \subseteq Action
  BY DEF MinedBy
<1>7. Now.nonce = Cardinality(mined)
  BY <1>1 DEF NonceCounts, Now
<1> HIDE DEF mined
<1>8. PendingNonce = Cardinality(mined) + Cardinality(pending)
  BY <1>7 DEF PendingNonce
<1> HIDE DEF pending
<1>9. Cardinality(mined \cup pending) = Cardinality(mined) + Cardinality(pending) - Cardinality(mined \cap pending)
  BY <1>6, ActionsCount, FS_Union
<1>10. Cardinality(mined) \in Nat /\ Cardinality(pending) \in Nat
  BY <1>6, ActionsCount
<1>11. Cardinality(mined \cap pending) = 0
  BY <1>5, FS_EmptySet
<1> QED BY <1>4, <1>8, <1>9, <1>10, <1>11

LEMMA SignNextKeeps ==
    ASSUME WalletInv, NEW p \in Process, SignNext(p)
    PROVE  WalletInv'
<1>1. PICK a : a = local[p].act
  OBVIOUS
<1>2. /\ local[p].pc = "sign" /\ UNCHANGED <<network, failures, chainSide, intent, before, after, plan>>
      /\ failures' \in Nat
  BY DEF SignNext, Sign, At, WalletInv, TypeInv, TypeOK
<1>3. a \in Action /\ IsOpen(a) /\ ~ rows[a].signed /\ TypeInv /\ PlansTyped'
  BY <1>1, <1>2, InHandRow, PlanKept DEF InHandSteps
<1>4. rows \in [Action -> Row] /\ nonce \in [Action -> Int]
  BY <1>3 DEF TypeInv, TypeOK, Shapes
<1>5. CASE SigningThrew(p, {"buy"}) /\ UNCHANGED rows
  <2>1. nonce' = nonce
    BY <1>5 DEF SignNext
  <2>2. End(p) \/ Goto(p, "halt")
    BY <1>5 DEF SigningThrew
  <2>3. CASE End(p)
    BY <1>2, <1>3, <1>5, <2>1, <2>3, LeaveKeeps
  <2>4. CASE Goto(p, "halt")
    BY <1>2, <1>3, <1>5, <2>1, <2>4, HandKeeps DEF InHandSteps, HandSteps, StoredSteps
  <2> QED BY <2>2, <2>3, <2>4
<1>6. CASE rows[a].state = "RESERVED" /\ rows' = [rows EXCEPT ![a] = Signed] /\ Goto(p, "broadcast")
  <2>1. /\ rows' \in [Action -> Row] /\ rows'[a] = Signed /\ \A b \in Action \ {a} : rows'[b] = rows[b]
    BY <1>3, <1>4, <1>6 DEF Signed, Row
  <2>2. Signed.signed /\ Signed # Absent /\ Signed # Skipped /\ rows[a] # Absent /\ rows[a] # Skipped
        /\ Signed.state \in Unresolved
    BY <1>6 DEF Signed, Absent, Skipped, Unresolved
  <2>3. rows' # rows
    BY <1>3, <2>1, <2>2
  <2>4. nonce' = [nonce EXCEPT ![a] = Cardinality(Known)]
    BY <1>1, <1>3, <2>3, PendingIsKnown DEF SignNext, WalletInv, NonceInv
  <2>5. Known \subseteq Action /\ Cardinality(Known) \in Nat
    BY ActionsCount DEF Known
  <2>6. /\ nonce' \in [Action -> Int] /\ nonce'[a] = Cardinality(Known)
        /\ \A b \in Action \ {a} : nonce'[b] = nonce[b]
    BY <1>3, <1>4, <2>4, <2>5
  <2>7. local' \in [Process -> Locals] /\ local'[p].pc = "broadcast" /\ local'[p].act = a
    BY <1>1, <1>3, <1>6, GoesTo DEF Steps
  <2>8. \A b \in Action : (rows'[b] = Absent \/ rows'[b] = Skipped) = (intent[b] = NoIntent)
    BY <1>3, <2>1, <2>2 DEF TypeInv, TypeOK
  <2>9. \A b \in Action : rows'[b].signed = (nonce'[b] \in Nat)
    <3> SUFFICES ASSUME NEW b \in Action PROVE rows'[b].signed = (nonce'[b] \in Nat)
      OBVIOUS
    <3>1. CASE b = a
      <4>1. nonce'[b] \in Nat /\ rows'[b] = Signed
        BY <2>1, <2>5, <2>6, <3>1
      <4>2. rows'[b].signed = TRUE
        BY <4>1 DEF Signed
      <4>3. (nonce'[b] \in Nat) = TRUE
        BY <4>1
      <4> QED BY <4>2, <4>3
    <3>2. CASE b # a
      <4>1. nonce'[b] = nonce[b] /\ rows'[b] = rows[b]
        BY <2>1, <2>6, <3>2
      <4> QED BY <1>3, <4>1 DEF TypeInv, TypeOK
    <3> QED BY <3>1, <3>2
  <2>10. TypeInv'
    <3>1. TypeOK'
      BY <1>2, <1>3, <2>1, <2>7, <2>8, <2>9 DEF TypeInv, TypeOK, ChainTypeOK, Locals
    <3>2. Shapes'
      BY <1>2, <1>3, <2>6 DEF TypeInv, Shapes
    <3> QED BY <3>1, <3>2 DEF TypeInv
  <2>11. tx[a] = "none" /\ sent[a] = 0
    BY <1>3 DEF WalletInv, ControlInv, StoredFirst
  <2>12. a \notin Known
    BY <2>11 DEF Known
  <2>13. NonceCounts' /\ NoncesTaken'
    BY <1>2, <2>5, <2>6, <2>12, NoncesKept DEF WalletInv, NonceInv
  <2>14. BuySettled
    BY <1>2, <1>3, <1>6, <2>1 DEF BuySettled, Action
  <2>15. NothingMined
    BY <1>2, <1>3 DEF NothingMined, TypeInv, Shapes, Action
  <2>16. ChainInv' /\ IntentsRight'
    BY <1>2, <2>14, <2>15, ChainKept, IntentsKept DEF WalletInv
  <2>17. ForksGrow' /\ StoredFirst'
    BY <1>2, <2>1, <2>2, <2>11 DEF WalletInv, ForksGrow, NewestFork, Block, StoredFirst, ControlInv
  <2>18. Known' = Known
    BY <1>2 DEF Known
  <2>19. PlaceRight(p)'
    BY <1>2, <1>3, <2>1, <2>2, <2>6, <2>7, <2>11, <2>18
       DEF PlaceRight, InHand, InTurn, PlanRight, NonceReady, Quoting, IsOpen
  <2> QED BY <2>10, <2>13, <2>16, <2>17, <2>19, InvariantByPlaceNext DEF LedgerInv
<1> QED BY <1>1, <1>5, <1>6 DEF SignNext, Sign

LEMMA SendKeeps ==
    ASSUME WalletInv, NEW p \in Process, local[p].pc = "broadcast", Send(local[p].act),
           NEW step \in {"submit", "halt"}, Goto(p, step), UNCHANGED <<rows, aside>>, failures' \in Nat
    PROVE  WalletInv'
<1>1. PICK a : a = local[p].act
  OBVIOUS
<1>2. a \in Action /\ IsOpen(a) /\ rows[a].signed /\ sent[a] = 0 /\ TypeInv /\ PlansTyped'
  BY <1>1, InHandRow, PlanKept DEF InHandSteps, StoredSteps
<1>3. tx[a] = "none" /\ tx \in [Action -> TxStates] /\ sent \in [Action -> Nat]
  BY <1>2 DEF TypeInv, TypeOK, WalletInv, ControlInv, StoredFirst
<1>4. /\ tx' = [tx EXCEPT ![a] = "pending"] /\ sent' = [sent EXCEPT ![a] = 1]
  BY <1>1, <1>2, <1>3 DEF Send
<1>5. /\ tx' \in [Action -> TxStates] /\ sent' \in [Action -> Nat]
      /\ tx'[a] = "pending" /\ sent'[a] = 1
      /\ \A b \in Action \ {a} : tx'[b] = tx[b] /\ sent'[b] = sent[b]
  BY <1>2, <1>3, <1>4 DEF TxStates
<1>6. local' \in [Process -> Locals] /\ local'[p].pc = step /\ local'[p].act = a
  BY <1>1, <1>2, GoesTo DEF Steps
<1>7. TypeInv'
  <2>1. \A b \in Action : (minedAt[b] # 0) = (tx'[b] \in Receipts)
    BY <1>2, <1>3, <1>5 DEF TypeInv, TypeOK, Receipts
  <2>2. TypeOK'
    BY <1>2, <1>5, <1>6, <2>1 DEF TypeInv, TypeOK, ChainTypeOK, Locals
  <2>3. Shapes'
    BY <1>2 DEF TypeInv, Shapes
  <2> QED BY <2>2, <2>3 DEF TypeInv
<1>8. Known' = Known \cup {a} /\ a \notin Known
  BY <1>2, <1>3, <1>5 DEF Known
<1>9. Known \subseteq Action
  BY DEF Known
<1>10. Cardinality(Known') = Cardinality(Known) + 1 /\ Cardinality(Known) \in Nat
  BY <1>8, <1>9, ActionsCount, FS_AddElement
<1>11. nonce[a] = Cardinality(Known) /\ NoncesTaken /\ NonceCounts
  BY <1>1 DEF WalletInv, NonceInv, NonceReady
<1>12. \A b \in Known : nonce[b] \in Int
  BY <1>2, <1>9 DEF TypeInv, Shapes
<1>13. NoncesTaken'
  <2>1. \A b \in Known' : nonce'[b] < Cardinality(Known')
    BY <1>8, <1>10, <1>11, <1>12 DEF NoncesTaken
  <2>2. \A b, c \in Known' : b # c => nonce'[b] # nonce'[c]
    BY <1>8, <1>10, <1>11, <1>12 DEF NoncesTaken
  <2> QED BY <2>1, <2>2 DEF NoncesTaken
<1>14. NonceCounts'
  BY <1>11 DEF NonceCounts, MinedBy, Block
<1>15. NothingMined
  BY <1>2, <1>3, <1>5 DEF NothingMined, TypeInv, Shapes, Action
<1>16. ChainInv' /\ IntentsRight'
  BY <1>2, <1>15, ChainKept, IntentsKept DEF WalletInv, BuySettled
<1>17. ForksGrow' /\ StoredFirst'
  BY <1>2, <1>5 DEF WalletInv, ForksGrow, NewestFork, Block, StoredFirst, ControlInv
<1>18. PlaceRight(p)'
  BY <1>2, <1>6 DEF PlaceRight, InHand, InTurn, PlanRight, NonceReady, Quoting, IsOpen, InHandSteps
<1> QED BY <1>7, <1>13, <1>14, <1>16, <1>17, <1>18, InvariantByPlaceNext DEF LedgerInv

LEMMA BroadcastKeeps ==
    ASSUME WalletInv, NEW p \in Process, Broadcast(p) \/ BroadcastFails(p), UNCHANGED aside
    PROVE  WalletInv'
<1>1. /\ local[p].pc = "broadcast" /\ UNCHANGED rows /\ failures' \in Nat /\ PlansTyped'
  BY PlanKept DEF WalletInv, TypeInv, TypeOK, Broadcast, BroadcastFails, At, Fails
<1>2. CASE Broadcast(p)
  BY <1>1, <1>2, SendKeeps DEF Broadcast
<1>3. CASE BroadcastFails(p) /\ Send(local[p].act)
  BY <1>1, <1>3, SendKeeps DEF BroadcastFails
<1>4. CASE BroadcastFails(p) /\ UNCHANGED network
  <2>1. Goto(p, "halt")
    BY <1>4 DEF BroadcastFails
  <2> QED BY <1>1, <1>4, <2>1, HandKeeps DEF InHandSteps, HandSteps, StoredSteps
<1> QED BY <1>2, <1>3, <1>4 DEF BroadcastFails

------------------------------------------------------------------------------
(* Reservations.                                                           *)

LEMMA CommittedRows ==
    ASSUME TypeInv, NEW a \in Action
    PROVE  /\ rows[a] = Absent => ~ Committed(a)
           /\ rows[a].state = "INCLUDED" => Committed(a)
  BY DEF TypeInv, TypeOK, Committed, Absent, Skipped

\* What a process at the preflight has built is right, and its turn has come.
LEMMA AtPreflight ==
    ASSUME WalletInv, NEW p \in Process, local[p].pc = "preflight", NEW act \in {"buy", "exit"},
           local[p].act = act
    PROVE  /\ SwapRight(plan[p].swap, act)
           /\ act = "buy" => BuyInTurn
           /\ act = "exit" => ExitInTurn
  BY DEF WalletInv, ControlInv, PlansRight, PlanRight, InTurn, Quoting

LEMMA BalancesAreNumbers ==
    ASSUME TypeInv
    PROVE  /\ [before EXCEPT !["buy"] = Now.tokens] \in [Swaps -> Nat]
           /\ [before EXCEPT !["exit"] = Now.weth] \in [Swaps -> Nat]
           /\ before \in [Swaps -> Nat]
           /\ BuyIncluded => Acquired \in Nat \ {0}
<1>1. Now.tokens \in Nat /\ Now.weth \in Nat
  BY DEF TypeInv, TypeOK, ChainTypeOK, Purse, Now
<1>2. before \in [Swaps -> Nat] /\ after \in [Swaps -> Nat]
  BY DEF TypeInv, TypeOK
<1>3. BuyIncluded => Acquired \in Nat \ {0}
  BY <1>2 DEF BuyIncluded, Acquired, Swaps
<1> QED BY <1>1, <1>2, <1>3

\* A swap that is fresh at the head: its deadline follows its quote.
LEMMA DeadlineFollowsQuote ==
    ASSUME TypeInv, NEW i, NEW act, SwapRight(i, act), QuoteFresh(i)
    PROVE  /\ i # NoIntent /\ i.amount \in Nat
           /\ AsQuoted(i) /\ i.deadline <= Time(i.quote.block + MaxQuoteAge) + DeadlineSeconds
<1>1. AsQuoted(i) /\ i.deadline <= Time(head) + DeadlineSeconds
  BY DEF SwapRight
<1>2. i.amount \in Nat \ {0} /\ i.deadline \in Nat /\ i.quote.block \in Nat /\ head \in Nat
  BY <1>1, HeightsAreNumbers DEF AsQuoted, Location, TypeInv, TypeOK, ChainTypeOK
<1>3. MaxQuoteAge \in Nat /\ DeadlineSeconds \in Nat
  BY WalletAssumption, IntentAssumption DEF WalletAssumption, IntentAssumption
<1>4. i.deadline <= Time(i.quote.block + MaxQuoteAge) + DeadlineSeconds
  BY <1>1, <1>2, <1>3 DEF QuoteFresh, Time
<1>5. i # NoIntent
  BY <1>2, CommittedByAmount
<1> QED BY <1>1, <1>2, <1>4, <1>5

\* The intents of the other rows say what they said; one more is right.
LEMMA IntentsGrow ==
    ASSUME TypeInv, IntentsRight, NEW a \in Action, NEW what, what # NoIntent,
           intent'[a] = what, \A b \in Action \ {a} : intent'[b] = intent[b],
           \A b \in Action \ {a} : rows'[b] = rows[b], rows[a] = Absent,
           after' = after, before'["buy"] = before["buy"] \/ a = "buy",
           a = "entry" => WithinDollar(what) /\ rows["buy"] = Absent,
           a = "buy" => /\ what.pays = "weth" /\ WithinDollar(what)
                        /\ Committed("entry") /\ what.amount = intent["entry"].amount,
           a = "exit" => /\ what.pays = "launched" /\ BuyIncluded /\ what.amount = Acquired
                         /\ Committed("approval"),
           a = "approval" => BuyIncluded /\ what.amount = Acquired,
           a \in Swaps => /\ AsQuoted(what)
                          /\ what.deadline <= Time(what.quote.block + MaxQuoteAge) + DeadlineSeconds
    PROVE  IntentsRight'
<1>1. ~ Committed(a) /\ Committed(a)' /\ \A b \in Action \ {a} : Committed(b)' <=> Committed(b)
  BY CommittedRows DEF Committed
<1>2. /\ "entry" \in Action /\ "buy" \in Action /\ "approval" \in Action /\ "exit" \in Action
      /\ Swaps = {"buy", "exit"}
  BY DEF Action, Swaps
<1>3. a = "buy" => ~ Committed("exit") /\ ~ Committed("approval")
  BY DEF IntentsRight, Absent
<1>4. a # "buy" => Acquired' = Acquired /\ (rows'["buy"].state = "INCLUDED") = (rows["buy"].state = "INCLUDED")
  BY <1>2 DEF Acquired
<1>5. \A i : /\ AsQuoted(i)' <=> AsQuoted(i)
             /\ WithinDollar(i)' <=> WithinDollar(i)
  BY DEF AsQuoted, WithinDollar, MinimumOut, Yield, RateAt, DollarAt
<1>6. (Committed("entry") => WithinDollar(intent["entry"]))'
  BY <1>1, <1>2, <1>5 DEF IntentsRight
<1>7. (Committed("buy") => /\ intent["buy"].pays = "weth" /\ WithinDollar(intent["buy"])
                           /\ Committed("entry") /\ intent["buy"].amount = intent["entry"].amount)'
  <2>1. CASE a = "buy"
    BY <1>1, <1>2, <1>5, <2>1
  <2>2. CASE a = "entry"
    BY <1>1, <1>2, <2>2, CommittedRows
  <2>3. CASE a \notin {"buy", "entry"}
    BY <1>1, <1>2, <1>5, <2>3 DEF IntentsRight
  <2> QED BY <2>1, <2>2, <2>3
<1>8. (Committed("exit") => /\ intent["exit"].pays = "launched" /\ rows["buy"].state = "INCLUDED"
                            /\ intent["exit"].amount = Acquired /\ Committed("approval"))'
  <2>1. CASE a = "exit"
    BY <1>1, <1>2, <1>4, <2>1 DEF BuyIncluded
  <2>2. CASE a = "buy"
    BY <1>1, <1>2, <1>3, <2>2
  <2>3. CASE a = "approval"
    BY <1>1, <1>2, <1>4, <2>3 DEF IntentsRight
  <2>4. CASE a \notin {"exit", "buy", "approval"}
    BY <1>1, <1>2, <1>4, <2>4 DEF IntentsRight
  <2> QED BY <2>1, <2>2, <2>3, <2>4
<1>9. (Committed("approval") => rows["buy"].state = "INCLUDED" /\ intent["approval"].amount = Acquired)'
  <2>1. CASE a = "approval"
    BY <1>1, <1>2, <1>4, <2>1 DEF BuyIncluded
  <2>2. CASE a = "buy"
    BY <1>1, <1>2, <1>3, <2>2
  <2>3. CASE a \notin {"approval", "buy"}
    BY <1>1, <1>2, <1>4, <2>3 DEF IntentsRight
  <2> QED BY <2>1, <2>2, <2>3
<1>10. ASSUME NEW s \in Swaps, Committed(s)'
       PROVE  /\ AsQuoted(intent[s])'
              /\ intent'[s].deadline <= Time(intent'[s].quote.block + MaxQuoteAge) + DeadlineSeconds
  <2>1. CASE s = a
    BY <1>5, <1>10, <2>1
  <2>2. CASE s # a
    <3>1. s \in Action \ {a} /\ intent'[s] = intent[s] /\ Committed(s)
      BY <1>1, <1>2, <1>10, <2>2
    <3> QED BY <1>5, <3>1 DEF IntentsRight
  <2> QED BY <2>1, <2>2
<1> QED BY <1>6, <1>7, <1>8, <1>9, <1>10 DEF IntentsRight, Time

\* ReserveKeeps, with the intents of IntentsGrow.
LEMMA ReservedRight ==
    ASSUME WalletInv, NEW p \in Process, NEW a \in Action, NEW what, what # NoIntent,
           what.amount \in Nat, rows[a] = Absent, Reserve(p, a, what),
           before' \in [Swaps -> Nat], before'["buy"] = before["buy"] \/ a = "buy",
           a = "entry" => WithinDollar(what) /\ rows["buy"] = Absent,
           a = "buy" => /\ what.pays = "weth" /\ WithinDollar(what)
                        /\ Committed("entry") /\ what.amount = intent["entry"].amount,
           a = "exit" => /\ what.pays = "launched" /\ BuyIncluded /\ what.amount = Acquired
                         /\ Committed("approval"),
           a = "approval" => BuyIncluded /\ what.amount = Acquired,
           a \in Swaps => /\ AsQuoted(what)
                          /\ what.deadline <= Time(what.quote.block + MaxQuoteAge) + DeadlineSeconds
    PROVE  WalletInv'
<1>1. TypeInv /\ IntentsRight
  BY DEF WalletInv
<1>2. /\ \A b \in Action \ {a} : rows'[b] = rows[b]
      /\ intent'[a] = what /\ \A b \in Action \ {a} : intent'[b] = intent[b]
  BY <1>1, ReserveTypes
<1>3. after' = after
  BY DEF Reserve
<1>4. IntentsRight'
  BY <1>1, <1>2, <1>3, IntentsGrow
<1> QED BY <1>4, ReserveKeeps

LEMMA ReserveEntryKeeps ==
    ASSUME WalletInv, NEW p \in Process, ReserveEntry(p)
    PROVE  WalletInv'
<1>1. PICK buy : buy = plan[p].swap
  OBVIOUS
<1>2. /\ rows["entry"] = Absent /\ before' = before /\ Reserve(p, "entry", EntryApproval(buy))
      /\ local[p].pc = "preflight" /\ local[p].act = "buy"
  BY <1>1 DEF ReserveEntry, At
<1>3. TypeInv /\ SwapRight(buy, "buy") /\ BuyInTurn
  BY <1>1, <1>2, AtPreflight DEF WalletInv
<1>4. buy.amount \in Nat \ {0} /\ WithinDollar(buy)
  BY <1>3 DEF SwapRight, AsQuoted
<1>5. PICK what : what = EntryApproval(buy)
  OBVIOUS
<1>6. what.amount = buy.amount /\ what.quote = buy.quote
  BY <1>5 DEF EntryApproval
<1>7. what # NoIntent /\ what.amount \in Nat /\ WithinDollar(what)
  BY <1>4, <1>6, CommittedByAmount DEF WithinDollar
<1>8. "entry" \in Action /\ "entry" \notin Swaps /\ before' \in [Swaps -> Nat]
  BY <1>2, <1>3, BalancesAreNumbers DEF Action, Swaps
<1> QED BY <1>2, <1>3, <1>5, <1>7, <1>8, ReservedRight DEF BuyInTurn

LEMMA ReserveBuyKeeps ==
    ASSUME WalletInv, NEW p \in Process, ReserveBuy(p)
    PROVE  WalletInv'
<1>1. PICK buy : buy = plan[p].swap
  OBVIOUS
<1>2. /\ before' = [before EXCEPT !["buy"] = Now.tokens] /\ Reserve(p, "buy", buy)
      /\ local[p].pc = "preflight" /\ local[p].act = "buy"
      /\ rows["entry"].state = "INCLUDED" /\ CoversBuy(intent["entry"], buy) /\ QuoteFresh(buy)
  BY <1>1 DEF ReserveBuy, At, SwapReady, SwapStillGood
<1>3. TypeInv /\ SwapRight(buy, "buy") /\ BuyInTurn
  BY <1>1, <1>2, AtPreflight DEF WalletInv
<1>4. buy # NoIntent /\ buy.amount \in Nat
      /\ AsQuoted(buy) /\ buy.deadline <= Time(buy.quote.block + MaxQuoteAge) + DeadlineSeconds
  BY <1>2, <1>3, DeadlineFollowsQuote
<1>5. Committed("entry") /\ buy.amount = intent["entry"].amount
  BY <1>2, <1>3, CommittedRows DEF Action, CoversBuy
<1>6. "buy" \in Action /\ before' \in [Swaps -> Nat] /\ rows["buy"] = Absent
  BY <1>2, <1>3, BalancesAreNumbers DEF Action, BuyInTurn
<1>7. buy.pays = "weth" /\ WithinDollar(buy)
  BY <1>3 DEF SwapRight
<1> QED BY <1>2, <1>4, <1>5, <1>6, <1>7, ReservedRight

LEMMA ReserveApprovalKeeps ==
    ASSUME WalletInv, NEW p \in Process, ReserveApproval(p)
    PROVE  WalletInv'
<1>1. PICK what : what = ExitApproval(intent["buy"], Acquired)
  OBVIOUS
<1>2. BuyIncluded /\ rows["approval"] = Absent /\ before' = before /\ Reserve(p, "approval", what) /\ TypeInv
  BY <1>1 DEF ReserveApproval, WalletInv
<1>3. what.amount = Acquired /\ Acquired \in Nat \ {0} /\ before' \in [Swaps -> Nat]
  BY <1>1, <1>2, BalancesAreNumbers DEF ExitApproval
<1>4. what # NoIntent
  BY <1>3, CommittedByAmount
<1>5. "approval" \in Action /\ "approval" \notin Swaps
  BY DEF Action, Swaps
<1> QED BY <1>2, <1>3, <1>4, <1>5, ReservedRight

LEMMA ReserveExitKeeps ==
    ASSUME WalletInv, NEW p \in Process, ReserveExit(p)
    PROVE  WalletInv'
<1>1. PICK exit : exit = plan[p].swap
  OBVIOUS
<1>2. /\ before' = [before EXCEPT !["exit"] = Now.weth] /\ Reserve(p, "exit", exit)
      /\ local[p].pc = "preflight" /\ local[p].act = "exit"
      /\ exit.amount = Acquired /\ QuoteFresh(exit)
  BY <1>1 DEF ReserveExit, At, SwapReady, SwapStillGood
<1>3. TypeInv /\ SwapRight(exit, "exit") /\ ExitInTurn
  BY <1>1, <1>2, AtPreflight DEF WalletInv
<1>4. exit # NoIntent /\ exit.amount \in Nat
      /\ AsQuoted(exit) /\ exit.deadline <= Time(exit.quote.block + MaxQuoteAge) + DeadlineSeconds
  BY <1>2, <1>3, DeadlineFollowsQuote
<1>5. Committed("approval") /\ BuyIncluded /\ rows["exit"] = Absent
  BY <1>3, CommittedRows DEF Action, ExitInTurn
<1>6. "exit" \in Action /\ before' \in [Swaps -> Nat] /\ before'["buy"] = before["buy"]
  BY <1>2, <1>3, BalancesAreNumbers DEF Action
<1>7. exit.pays = "launched"
  BY <1>3 DEF SwapRight
<1> QED BY <1>2, <1>4, <1>5, <1>6, <1>7, ReservedRight

LEMMA ReserveRevokeKeeps ==
    ASSUME WalletInv, NEW p \in Process, ReserveRevoke(p)
    PROVE  WalletInv'
<1>1. PICK what : what = Revoke(intent["entry"])
  OBVIOUS
<1>2. rows["revoke"] = Absent /\ before' = before /\ Reserve(p, "revoke", what) /\ TypeInv
  BY <1>1 DEF ReserveRevoke, WalletInv
<1>3. what # NoIntent /\ what.amount \in Nat /\ before' \in [Swaps -> Nat]
  BY <1>1, <1>2, RevokeIsCommitted, BalancesAreNumbers
<1>4. "revoke" \in Action /\ "revoke" \notin Swaps
  BY DEF Action, Swaps
<1> QED BY <1>2, <1>3, <1>4, ReservedRight

------------------------------------------------------------------------------
(* Every step of the process.                                              *)

LEMMA LeavingSteps ==
    ASSUME WalletInv, NEW p \in Process, GiveUp(p) \/ Stops(p) \/ BeginCleanup(p) \/ AlreadyClean(p)
    PROVE  WalletInv'
<1>1. /\ UNCHANGED <<rows, network, chainSide, columns>> /\ failures' \in Nat /\ TypeInv
  BY DEF WalletInv, TypeInv, TypeOK, GiveUp, Stops, BeginCleanup, AlreadyClean, Crash, Fails
<1>2. PlansTyped'
  BY <1>1, PlanKept, PlanForgotten DEF GiveUp, Stops, BeginCleanup, AlreadyClean
<1>3. End(p) \/ (\E step \in FreeSteps : Goto(p, step))
  BY DEF GiveUp, Stops, BeginCleanup, AlreadyClean, Crash, FreeSteps
<1> QED BY <1>1, <1>2, <1>3, LeaveKeeps

LEMMA FailsKeeps ==
    ASSUME WalletInv, NEW p \in Process, SignFails(p, {"buy"}) \/ ReadFails(p), UNCHANGED aside
    PROVE  WalletInv'
<1>1. /\ UNCHANGED <<rows, network, chainSide, columns>> /\ failures' \in Nat /\ PlansTyped'
      /\ local[p].pc \in InHandSteps
  BY PlanKept DEF WalletInv, TypeInv, TypeOK, SignFails, ReadFails, Fails, At, InHandSteps
<1>2. End(p) \/ Goto(p, "halt")
  BY DEF SignFails, ReadFails, SigningThrew, Throw
<1>3. CASE End(p)
  BY <1>1, <1>3, LeaveKeeps
<1>4. CASE Goto(p, "halt")
  BY <1>1, <1>4, HandKeeps DEF HandSteps, StoredSteps
<1> QED BY <1>2, <1>3, <1>4

LEMMA BeginQuoteKeeps ==
    ASSUME WalletInv, NEW p \in Process, BeginBuyQuote(p) \/ BeginExitQuote(p)
    PROVE  WalletInv'
<1>1. CASE BeginBuyQuote(p)
  BY <1>1, StartPlanKeeps DEF BeginBuyQuote, BuyInTurn, Action
<1>2. CASE BeginExitQuote(p)
  BY <1>2, StartPlanKeeps DEF BeginExitQuote, ExitInTurn, Action
<1> QED BY <1>1, <1>2

LEMMA TransactKeeps == ASSUME WalletInv, NEW p \in Process, Transact(p) PROVE WalletInv'
<1>1. UNCHANGED aside
  BY DEF Transact
<1>2. \/ Broadcast(p) \/ Submit(p) \/ ReadReceipt(p) \/ MarkReverted(p) \/ Halt(p) \/ HaltUpdate(p)
  BY DEF Transact
<1> QED BY <1>1, <1>2, BroadcastKeeps, SubmitKeeps, ReceiptKeeps, MarkRevertedKeeps

LEMMA AdvanceKeeps == ASSUME WalletInv, NEW p \in Process, Advance(p) PROVE WalletInv'
  BY TakeUpKeeps, BeginQuoteKeeps, PriceKeeps, PlanKeeps, LeavingSteps, ReserveEntryKeeps,
     ReserveBuyKeeps, ReserveApprovalKeeps, ReserveExitKeeps, ReserveRevokeKeeps, SkipBuyKeeps,
     CloseEntryKeeps, RecheckKeeps, SignNextKeeps, TransactKeeps, ReadOutcomeKeeps, IncludeKeeps
  DEF Advance

LEMMA ProcessFailsKeeps == ASSUME WalletInv, NEW p \in Process, ProcessFails(p) PROVE WalletInv'
  BY LeavingSteps, FailsKeeps, BroadcastKeeps DEF ProcessFails, TransactionFails

------------------------------------------------------------------------------
(* The chain's steps.                                                      *)

Outside == UNCHANGED <<rows, sent, local, failures, columns, plan>>

\* What a step of the chain has to show.
LEMMA OutsideKeeps ==
    ASSUME WalletInv, Outside, \A a \in Action : tx'[a] = "none" <=> tx[a] = "none",
           TypeOK', ForksGrow', PlansRight', ChainInv', NonceCounts'
    PROVE  WalletInv'
<1> USE DEF WalletInv, Outside
<1>1. TypeInv'
  BY DEF TypeInv, Shapes, PlansTyped
<1>2. ControlInv'
  BY DEF ControlInv, InHand, InTurn, BuyInTurn, ExitInTurn, BuyIncluded, Acquired, StoredFirst, IsOpen
<1>3. IntentsRight'
  BY IntentsKept DEF BuySettled
<1>4. Known' = Known
  BY DEF Known
<1>5. NonceInv'
  BY <1>4 DEF NonceInv, NoncesTaken, NonceReady
<1> QED BY <1>1, <1>2, <1>3, <1>5

\* A new head: no fork changes and time goes on.
LEMMA HeadGrows ==
    ASSUME WalletInv, Outside, Mine
    PROVE  ChainTypeOK' /\ ForksGrow' /\ PlansRight' /\ head + 1 \in Block /\ head' = head + 1
<1>1. TypeInv /\ ForksGrow /\ PlansRight /\ fork' = fork /\ head' = head + 1 /\ head < MaxBlock
  BY DEF WalletInv, Mine
<1>2. head \in Nat /\ head + 1 \in Block /\ ChainTypeOK
  BY <1>1, HeightsAreNumbers, ChainAssumption DEF TypeInv, TypeOK, ChainTypeOK, Block, ChainAssumption
<1>3. ChainTypeOK'
  <2>1. PICK mined \in SUBSET {l \in Launch : place[l] = 0} :
            place' = [l \in Launch |-> IF l \in mined THEN head + 1 ELSE place[l]]
    BY DEF Mine
  <2>2. place' \in [Launch -> Block]
    BY <1>2, <2>1 DEF ChainTypeOK
  <2> QED BY <1>1, <1>2, <2>2 DEF ChainTypeOK
<1>4. ForksGrow'
  BY <1>1 DEF ForksGrow, NewestFork, Block
<1>5. ASSUME NEW p \in Process
      PROVE  PlanRight(p)'
  <2>1. plan[p] \in PlanRecords(plan[p].swap) /\ local' = local /\ plan' = plan
    BY <1>1 DEF TypeInv, Shapes, PlansTyped, Outside
  <2>2. plan[p].quote.block \in Nat
    BY <2>1, HeightsAreNumbers DEF PlanRecords, Location
  <2>3. PlanRight(p) /\ NewestFork' = NewestFork
    BY <1>1 DEF PlansRight, NewestFork
  <2>4. local[p].pc \in Quoting => plan[p].quote.block <= head + 1 /\ plan[p].quote.fork \in 1..NewestFork
    BY <1>2, <2>2, <2>3 DEF PlanRight
  <2>5. QuoteCanonical(plan[p])' <=> QuoteCanonical(plan[p])
    BY <1>1, <2>1 DEF QuoteCanonical
  <2>6. ReadRight(plan[p], local[p].act)' <=> ReadRight(plan[p], local[p].act)
    BY <2>1 DEF ReadRight, DollarAt, RateAt, Acquired, Outside
  <2>7. SwapRight(plan[p].swap, local[p].act) => SwapRight(plan[p].swap, local[p].act)'
    <3> SUFFICES ASSUME SwapRight(plan[p].swap, local[p].act)
                 PROVE  SwapRight(plan[p].swap, local[p].act)'
      OBVIOUS
    <3>1. plan[p].swap.deadline \in Nat /\ plan[p].swap.deadline <= Time(head) + DeadlineSeconds
      BY DEF SwapRight, AsQuoted
    <3>2. plan[p].swap.deadline <= Time(head + 1) + DeadlineSeconds
      BY <1>2, <3>1, IntentAssumption DEF Time, IntentAssumption
    <3>3. AsQuoted(plan[p].swap)' <=> AsQuoted(plan[p].swap)
      BY <2>1 DEF AsQuoted, MinimumOut, Yield, RateAt
    <3>4. WithinDollar(plan[p].swap)' <=> WithinDollar(plan[p].swap)
      BY <2>1 DEF WithinDollar, DollarAt
    <3> QED BY <1>1, <2>1, <3>2, <3>3, <3>4 DEF SwapRight, Time
  <2> QED BY <1>1, <2>1, <2>3, <2>4, <2>5, <2>6, <2>7 DEF PlanRight
<1> QED BY <1>1, <1>2, <1>3, <1>4, <1>5 DEF PlansRight

LEMMA EmptyBlockKeeps == ASSUME WalletInv, EmptyBlock PROVE WalletInv'
<1>1. /\ Outside /\ Mine /\ UNCHANGED <<tx, history, minedAt>> /\ fork' = fork
      /\ TypeInv /\ ChainInv /\ NonceInv
  BY DEF EmptyBlock, Outside, WalletInv, Mine
<1>2. ChainTypeOK' /\ ForksGrow' /\ PlansRight' /\ head' = head + 1
  BY <1>1, HeadGrows
<1>3. \A a \in Action : minedAt[a] <= head + 1
  <2>1. head \in Nat /\ \A a \in Action : minedAt[a] \in Nat /\ minedAt[a] <= head
    BY <1>1, HeightsAreNumbers DEF TypeInv, TypeOK, ChainTypeOK
  <2> QED BY <2>1
<1>4. TypeOK'
  BY <1>1, <1>2, <1>3 DEF TypeInv, TypeOK, Outside
<1>5. NothingMined
  BY <1>1 DEF NothingMined, Outside, TypeInv, Shapes, Action
<1>6. ChainInv'
  BY <1>1, <1>5, ChainKept
<1>7. NonceCounts'
  BY <1>1 DEF NonceInv, NonceCounts, MinedBy, Block
<1> QED BY <1>1, <1>2, <1>4, <1>6, <1>7, OutsideKeeps

------------------------------------------------------------------------------
(* A block with one of the transactions.                                   *)

\* What is moved is counted in naturals.
LEMMA FlowsAreNumbers ==
    ASSUME TypeInv, ForksGrow, NEW b \in Block
    PROVE  /\ Spent(b) \in Nat /\ Bought(b) \in Nat /\ Sold(b) \in Nat /\ Earned(b) \in Nat
           /\ Allowed(b) \in Nat
<1>1. \A a \in Action : intent[a].amount \in Nat /\ minedAt[a] \in Block
  BY DEF TypeInv, TypeOK, Shapes
<1>2. ASSUME NEW a \in Action PROVE Gain(a) \in Nat
  <2>1. Point(minedAt[a]) \in Location /\ Point(minedAt[a]).fork \in 1..MaxReorgs + 1
    BY <1>1, PointsArePriced DEF TypeInv, TypeOK
  <2> QED BY <1>1, <2>1, YieldsAreNumbers DEF Gain
<1>3. "buy" \in Action /\ "exit" \in Action /\ "approval" \in Action
  BY DEF Action
<1> QED BY <1>1, <1>2, <1>3 DEF Spent, Bought, Sold, Earned, Allowed

\* A pending transaction belongs to a row that was stored, with its intent.
LEMMA PendingIsCommitted ==
    ASSUME WalletInv, NEW a \in Action, tx[a] = "pending"
    PROVE  Committed(a) /\ intent[a].amount \in Nat /\ minedAt[a] = 0
<1>1. TypeInv /\ StoredFirst
  BY DEF WalletInv, ControlInv
<1>2. rows[a].signed
  BY <1>1 DEF StoredFirst
<1>3. rows[a] # Absent /\ rows[a] # Skipped
  BY <1>2 DEF Absent, Skipped
<1>4. Committed(a)
  BY <1>1, <1>3 DEF TypeInv, TypeOK, Committed
<1>5. intent[a].amount \in Nat /\ minedAt[a] = 0
  BY <1>1 DEF TypeInv, TypeOK, Shapes, Receipts
<1> QED BY <1>4, <1>5

LEMMA EffectIsPurse ==
    ASSUME WalletInv, NEW a \in Action, tx[a] = "pending", NEW point \in Location,
           point.fork \in 1..MaxReorgs + 1, NEW purse \in Purse, Succeeds(a, purse, point)
    PROVE  /\ Effect(a, purse, point) \in Purse
           /\ Effect(a, purse, point).nonce = purse.nonce
<1>1. intent[a].amount \in Nat /\ IntentsRight /\ Committed(a)
  BY PendingIsCommitted DEF WalletInv
<1>2. Yield(intent[a], point) \in Nat
  BY <1>1, YieldsAreNumbers
<1>3. purse.weth \in Nat /\ purse.tokens \in Nat /\ purse.wethAllowance \in Nat /\ purse.tokenAllowance \in Nat
  BY DEF Purse
<1>4. CASE a = "buy"
  <2>1. intent[a].pays = "weth" /\ Covered(intent[a], purse)
    BY <1>1, <1>4 DEF IntentsRight, Succeeds, Swaps, GoesThrough
  <2>2. purse.weth - intent[a].amount \in Nat /\ purse.wethAllowance - intent[a].amount \in Nat
        /\ purse.tokens + Yield(intent[a], point) \in Nat
    BY <1>1, <1>2, <1>3, <2>1 DEF Covered
  <2> QED BY <1>4, <2>2 DEF Effect, Purse
<1>5. CASE a = "exit"
  <2>1. intent[a].pays = "launched" /\ Covered(intent[a], purse)
    BY <1>1, <1>5 DEF IntentsRight, Succeeds, Swaps, GoesThrough
  <2>2. purse.tokens - intent[a].amount \in Nat /\ purse.tokenAllowance - intent[a].amount \in Nat
        /\ purse.weth + Yield(intent[a], point) \in Nat
    BY <1>1, <1>2, <1>3, <2>1 DEF Covered
  <2> QED BY <1>5, <2>2 DEF Effect, Purse
<1>6. CASE a = "entry"
  BY <1>1, <1>6 DEF Effect, Purse
<1>7. CASE a = "revoke"
  BY <1>7 DEF Effect, Purse
<1>8. CASE a = "approval"
  BY <1>1, <1>8 DEF Effect, Purse
<1> QED BY <1>4, <1>5, <1>6, <1>7, <1>8 DEF Action

\* The block's wallet, by what became of the transaction in it.
Mined(a, good, purse) ==
    /\ purse.nonce = Now.nonce + 1
    /\ LET i == intent[a]
           point == Point(head + 1)
       IN  /\ purse.weth = IF good /\ a = "buy" THEN Now.weth - i.amount
                           ELSE IF good /\ a = "exit" THEN Now.weth + Yield(i, point) ELSE Now.weth
           /\ purse.tokens = IF good /\ a = "buy" THEN Now.tokens + Yield(i, point)
                             ELSE IF good /\ a = "exit" THEN Now.tokens - i.amount ELSE Now.tokens
           /\ purse.wethAllowance = IF good /\ a = "entry" THEN i.amount
                                    ELSE IF good /\ a = "revoke" THEN 0
                                    ELSE IF good /\ a = "buy" THEN Now.wethAllowance - i.amount
                                    ELSE Now.wethAllowance
           /\ purse.tokenAllowance = IF good /\ a = "approval" THEN i.amount
                                     ELSE IF good /\ a = "exit" THEN Now.tokenAllowance - i.amount
                                     ELSE Now.tokenAllowance

LEMMA BlockIsMined ==
    ASSUME WalletInv, NEW a \in Action, BlockWith(a), NEW good, good <=> Succeeds(a, Now, Point(head + 1))
    PROVE  \E purse \in Purse :
               /\ Mined(a, good, purse)
               /\ history' = [b \in Block |-> IF b > head THEN purse ELSE history[b]]
<1>1. TypeInv /\ ForksGrow /\ tx[a] = "pending" /\ head + 1 \in Block /\ Now \in Purse
  BY HeadGrows DEF WalletInv, BlockWith, Outside, TypeInv, TypeOK, ChainTypeOK, Now
<1>2. PICK point : point = Point(head + 1)
  OBVIOUS
<1>3. point \in Location /\ point.fork \in 1..MaxReorgs + 1
  BY <1>1, <1>2, PointsArePriced DEF TypeInv, TypeOK
<1>4. PICK mid : mid = IF good THEN Effect(a, Now, point) ELSE Now
  OBVIOUS
<1>5. mid \in Purse /\ mid.nonce = Now.nonce
  BY <1>1, <1>2, <1>3, <1>4, EffectIsPurse
<1>6. PICK purse : purse = [mid EXCEPT !.nonce = @ + 1]
  OBVIOUS
<1>7. purse \in Purse /\ purse.nonce = Now.nonce + 1 /\ purse.weth = mid.weth /\ purse.tokens = mid.tokens
      /\ purse.wethAllowance = mid.wethAllowance /\ purse.tokenAllowance = mid.tokenAllowance
  BY <1>5, <1>6 DEF Purse
<1>8. history' = [b \in Block |-> IF b > head THEN purse ELSE history[b]]
  BY <1>2, <1>4, <1>6 DEF BlockWith
<1>9. Mined(a, good, purse)
  <2>1. CASE ~ good
    BY <1>4, <1>7, <2>1 DEF Mined
  <2>2. CASE good /\ a = "buy"
    BY <1>1, <1>2, <1>4, <1>7, <2>2 DEF Mined, Effect, Purse
  <2>3. CASE good /\ a = "exit"
    BY <1>1, <1>2, <1>4, <1>7, <2>3 DEF Mined, Effect, Purse
  <2>4. CASE good /\ a = "entry"
    BY <1>1, <1>2, <1>4, <1>7, <2>4 DEF Mined, Effect, Purse
  <2>5. CASE good /\ a = "revoke"
    BY <1>1, <1>2, <1>4, <1>7, <2>5 DEF Mined, Effect, Purse
  <2>6. CASE good /\ a = "approval"
    BY <1>1, <1>2, <1>4, <1>7, <2>6 DEF Mined, Effect, Purse
  <2> QED BY <2>1, <2>2, <2>3, <2>4, <2>5, <2>6 DEF Action
<1> QED BY <1>7, <1>8, <1>9

\* Which transaction is in which block afterwards.
LEMMA LandsInBlock ==
    ASSUME WalletInv, NEW a \in Action, BlockWith(a), NEW b \in Block,
           NEW good, good <=> Succeeds(a, Now, Point(head + 1))
    PROVE  /\ \A x \in Action \ {a} : tx'[x] = tx[x] /\ minedAt'[x] = minedAt[x] /\ Gain(x)' = Gain(x)
           /\ minedAt'[a] = head + 1 /\ intent' = intent /\ ~ Landed(a, b) /\ ~ Landed(a, head)
           /\ tx'[a] = IF good THEN "success" ELSE "reverted"
           /\ Gain(a)' = Yield(intent[a], Point(head + 1))
           /\ b <= head => \A x \in Action : Landed(x, b)' <=> Landed(x, b)
           /\ b > head => /\ \A x \in Action \ {a} : Landed(x, b)' <=> Landed(x, head)
                          /\ Landed(a, b)' <=> good
<1>1. /\ tx[a] = "pending" /\ intent' = intent /\ fork' = fork /\ head' = head + 1
      /\ minedAt' = [minedAt EXCEPT ![a] = head + 1]
      /\ tx' = [tx EXCEPT ![a] = IF good THEN "success" ELSE "reverted"]
  BY DEF BlockWith, Mine
<1>2. TypeInv
  BY DEF WalletInv
<1>3. minedAt \in [Action -> Block] /\ DOMAIN tx = Action
  BY <1>2 DEF TypeInv, TypeOK
<1>4. /\ minedAt'[a] = head + 1 /\ tx'[a] = IF good THEN "success" ELSE "reverted"
      /\ \A x \in Action \ {a} : tx'[x] = tx[x] /\ minedAt'[x] = minedAt[x]
  BY <1>1, <1>3
<1>5. \A x \in Action \ {a} : Gain(x)' = Gain(x)
  BY <1>1, <1>4, GainKept
<1>6. Gain(a)' = Yield(intent[a], Point(head + 1))
  BY <1>1, <1>4 DEF Gain, Yield, RateAt, Point
<1>7. ~ Landed(a, b) /\ ~ Landed(a, head)
  BY <1>1 DEF Landed
<1>8. /\ b \in Nat /\ head \in Nat
      /\ \A x \in Action : minedAt[x] \in Nat /\ minedAt[x] <= head
  BY <1>2, <1>3, HeightsAreNumbers DEF TypeInv, TypeOK, ChainTypeOK
<1>9. ASSUME b <= head, NEW x \in Action PROVE Landed(x, b)' <=> Landed(x, b)
  <2>1. CASE x = a
    BY <1>4, <1>7, <1>8, <1>9, <2>1 DEF Landed
  <2>2. CASE x # a
    BY <1>4, <2>2 DEF Landed
  <2> QED BY <2>1, <2>2
<1>10. ASSUME b > head, NEW x \in Action \ {a} PROVE Landed(x, b)' <=> Landed(x, head)
  BY <1>4, <1>8, <1>10 DEF Landed
<1>11. b > head => (Landed(a, b)' <=> good)
  BY <1>4, <1>8 DEF Landed
<1> QED BY <1>1, <1>4, <1>5, <1>6, <1>7, <1>9, <1>10, <1>11

\* The exit finds its approval and nothing else, and uses it up.
LEMMA ExitFindsApproval ==
    ASSUME WalletInv, tx["exit"] = "pending", Succeeds("exit", Now, Point(head + 1))
    PROVE  /\ Landed("approval", head) /\ Now.tokenAllowance = intent["exit"].amount
           /\ Now.tokenAllowance = Allowed(head)
<1>1. Committed("exit") /\ "exit" \in Action /\ IntentsRight /\ TypeInv /\ ChainInv
  BY PendingIsCommitted DEF Action, WalletInv
<1>2. /\ intent["exit"].pays = "launched" /\ Committed("approval")
      /\ intent["exit"].amount = Acquired /\ intent["approval"].amount = Acquired
      /\ intent["exit"].amount \in Nat \ {0}
  BY <1>1 DEF IntentsRight, Swaps, AsQuoted
<1>3. Now.tokenAllowance >= intent["exit"].amount
  BY <1>2 DEF Succeeds, GoesThrough, Covered, Swaps
<1>4. head \in Block /\ Now.tokenAllowance = Allowed(head)
  BY <1>1 DEF ChainInv, PurseFollows, Now, TypeInv, TypeOK, ChainTypeOK
<1>5. Allowed(head) # 0
  BY <1>2, <1>3, <1>4
<1>6. Landed("approval", head) /\ Allowed(head) = intent["approval"].amount
  BY <1>5 DEF Allowed
<1> QED BY <1>2, <1>4, <1>6

LEMMA MinedPurse ==
    ASSUME WalletInv, NEW a \in Action, BlockWith(a), NEW b \in Block, b > head, NEW good,
           good <=> Succeeds(a, Now, Point(head + 1)), NEW purse \in Purse, Mined(a, good, purse)
    PROVE  /\ purse.weth = Funds - Spent(b)' + Earned(b)'
           /\ purse.tokens = Held + Bought(b)' - Sold(b)'
           /\ purse.tokenAllowance = Allowed(b)'
           /\ purse.wethAllowance <= intent["entry"].amount
<1>1. /\ \A x \in Action \ {a} : (Landed(x, b)' <=> Landed(x, head)) /\ Gain(x)' = Gain(x)
      /\ intent' = intent /\ ~ Landed(a, head) /\ (Landed(a, b)' <=> good)
      /\ Gain(a)' = Yield(intent[a], Point(head + 1)) /\ tx[a] = "pending"
  BY LandsInBlock DEF BlockWith
<1>2. TypeInv /\ ForksGrow /\ ChainInv /\ head \in Block /\ Now \in Purse
  BY DEF WalletInv, TypeInv, TypeOK, ChainTypeOK, Now
<1>3. /\ Now.weth = Funds - Spent(head) + Earned(head)
      /\ Now.tokens = Held + Bought(head) - Sold(head)
      /\ Now.tokenAllowance = Allowed(head)
      /\ Now.wethAllowance <= intent["entry"].amount
  BY <1>2 DEF ChainInv, PurseFollows, Now
<1>4. /\ Spent(head) \in Nat /\ Bought(head) \in Nat /\ Sold(head) \in Nat /\ Earned(head) \in Nat
      /\ Allowed(head) \in Nat /\ Funds \in Nat /\ Held \in Nat
  BY <1>2, FlowsAreNumbers, WalletAssumption DEF WalletAssumption
<1>5. "entry" \in Action /\ "buy" \in Action /\ "approval" \in Action /\ "exit" \in Action
  BY DEF Action
<1>6. intent["entry"].amount \in Nat /\ intent[a].amount \in Nat /\ Now.wethAllowance \in Nat
  BY <1>2, <1>5 DEF TypeInv, Shapes, Purse
<1>7. CASE ~ good \/ a \in {"entry", "revoke"}
  <2>1. FlowsFrom(b, head)
    <3>1. \A x \in {"buy", "exit", "approval"} :
              /\ Landed(x, b)' <=> Landed(x, head)
              /\ Landed(x, head) => intent'[x] = intent[x] /\ Gain(x)' = Gain(x)
      BY <1>1, <1>5, <1>7
    <3> QED BY <3>1, SameFlows
  <2>2. purse.weth = Now.weth /\ purse.tokens = Now.tokens /\ purse.tokenAllowance = Now.tokenAllowance
    BY <1>7 DEF Mined
  <2>3. purse.wethAllowance \in {Now.wethAllowance, 0} \/ (a = "entry" /\ purse.wethAllowance = intent["entry"].amount)
    BY <1>7 DEF Mined
  <2>4. purse.wethAllowance <= intent["entry"].amount
    BY <1>3, <1>6, <2>3
  <2> QED BY <1>3, <2>1, <2>2, <2>4 DEF FlowsFrom
<1>8. CASE good /\ a = "buy"
  <2>1. /\ Spent(b)' = intent["buy"].amount /\ Spent(head) = 0
        /\ Bought(b)' = Yield(intent["buy"], Point(head + 1)) /\ Bought(head) = 0
    BY <1>1, <1>8 DEF Spent, Bought
  <2>2. Sold(b)' = Sold(head) /\ Earned(b)' = Earned(head) /\ Allowed(b)' = Allowed(head)
    BY <1>1, <1>5, <1>8 DEF Sold, Earned, Allowed
  <2>3. /\ purse.weth = Now.weth - intent["buy"].amount
        /\ purse.tokens = Now.tokens + Yield(intent["buy"], Point(head + 1))
        /\ purse.tokenAllowance = Now.tokenAllowance
        /\ purse.wethAllowance = Now.wethAllowance - intent["buy"].amount
    BY <1>8 DEF Mined
  <2>4. Yield(intent["buy"], Point(head + 1)) \in Nat
    <3>1. Point(head + 1) \in Location /\ Point(head + 1).fork \in 1..MaxReorgs + 1
      BY <1>2, PointsArePriced, HeadGrows DEF BlockWith, Outside, TypeInv, TypeOK
    <3> QED BY <1>6, <1>8, <3>1, YieldsAreNumbers
  <2> QED BY <1>3, <1>4, <1>6, <1>8, <2>1, <2>2, <2>3, <2>4
<1>9. CASE good /\ a = "exit"
  <2>1. /\ Sold(b)' = intent["exit"].amount /\ Sold(head) = 0
        /\ Earned(b)' = Yield(intent["exit"], Point(head + 1)) /\ Earned(head) = 0 /\ Allowed(b)' = 0
    BY <1>1, <1>9 DEF Sold, Earned, Allowed
  <2>2. Spent(b)' = Spent(head) /\ Bought(b)' = Bought(head)
    BY <1>1, <1>5, <1>9 DEF Spent, Bought
  <2>3. /\ purse.weth = Now.weth + Yield(intent["exit"], Point(head + 1))
        /\ purse.tokens = Now.tokens - intent["exit"].amount
        /\ purse.tokenAllowance = Now.tokenAllowance - intent["exit"].amount
        /\ purse.wethAllowance = Now.wethAllowance
    BY <1>9 DEF Mined
  <2>4. Yield(intent["exit"], Point(head + 1)) \in Nat
    <3>1. Point(head + 1) \in Location /\ Point(head + 1).fork \in 1..MaxReorgs + 1
      BY <1>2, PointsArePriced, HeadGrows DEF BlockWith, Outside, TypeInv, TypeOK
    <3> QED BY <1>6, <1>9, <3>1, YieldsAreNumbers
  <2>5. Now.tokenAllowance = intent["exit"].amount
    BY <1>1, <1>9, ExitFindsApproval
  <2> QED BY <1>3, <1>4, <1>6, <1>9, <2>1, <2>2, <2>3, <2>4, <2>5
<1>10. CASE good /\ a = "approval"
  <2>1. ~ Landed("exit", head)
    <3>1. tx["exit"] # "success"
      BY <1>1, <1>2, <1>10 DEF ChainInv, LandedWell
    <3> QED BY <3>1 DEF Landed
  <2>2. Allowed(b)' = intent["approval"].amount
    BY <1>1, <1>5, <1>10, <2>1 DEF Allowed
  <2>3. Sold(b)' = Sold(head) /\ Earned(b)' = Earned(head) /\ Spent(b)' = Spent(head)
        /\ Bought(b)' = Bought(head)
    BY <1>1, <1>5, <1>10 DEF Sold, Earned, Spent, Bought
  <2>4. /\ purse.weth = Now.weth /\ purse.tokens = Now.tokens
        /\ purse.tokenAllowance = intent["approval"].amount /\ purse.wethAllowance = Now.wethAllowance
    BY <1>10 DEF Mined
  <2> QED BY <1>3, <2>2, <2>3, <2>4
<1> QED BY <1>7, <1>8, <1>9, <1>10 DEF Action

LEMMA BlockWithKeeps == ASSUME WalletInv, NEW a \in Action, BlockWith(a) PROVE WalletInv'
<1>1. /\ Outside /\ Mine /\ tx[a] = "pending" /\ TypeInv /\ ForksGrow /\ ChainInv /\ NonceInv /\ fork' = fork
      /\ minedAt' = [minedAt EXCEPT ![a] = head + 1]
  BY DEF BlockWith, Outside, WalletInv, Mine
<1>2. ChainTypeOK' /\ ForksGrow' /\ PlansRight' /\ head + 1 \in Block /\ head' = head + 1
  BY <1>1, HeadGrows
<1>3. PICK good : good = Succeeds(a, Now, Point(head + 1))
  OBVIOUS
<1>4. PICK purse \in Purse : /\ Mined(a, good, purse)
                             /\ history' = [b \in Block |-> IF b > head THEN purse ELSE history[b]]
  BY <1>3, BlockIsMined
<1>5. \A b \in Block :
          /\ \A x \in Action \ {a} : tx'[x] = tx[x] /\ minedAt'[x] = minedAt[x] /\ Gain(x)' = Gain(x)
          /\ minedAt'[a] = head + 1 /\ intent' = intent /\ ~ Landed(a, b) /\ ~ Landed(a, head)
          /\ tx'[a] = IF good THEN "success" ELSE "reverted"
          /\ Gain(a)' = Yield(intent[a], Point(head + 1))
          /\ b <= head => \A x \in Action : Landed(x, b)' <=> Landed(x, b)
  BY <1>3, LandsInBlock
<1>6. /\ \A x \in Action \ {a} : tx'[x] = tx[x] /\ minedAt'[x] = minedAt[x] /\ Gain(x)' = Gain(x)
      /\ minedAt'[a] = head + 1 /\ intent' = intent
      /\ tx'[a] = IF good THEN "success" ELSE "reverted"
      /\ Gain(a)' = Yield(intent[a], Point(head + 1))
  BY <1>2, <1>5
<1>7. /\ history \in [Block -> Purse] /\ minedAt \in [Action -> Block] /\ tx \in [Action -> TxStates]
      /\ head \in Nat /\ head \in Block
      /\ \A x \in Action : (minedAt[x] # 0) = (tx[x] \in Receipts) /\ minedAt[x] \in Nat /\ minedAt[x] <= head
  BY <1>1, HeightsAreNumbers DEF TypeInv, TypeOK, ChainTypeOK
<1>8. TypeOK'
  <2>1. history' \in [Block -> Purse] /\ minedAt' \in [Action -> Block]
    BY <1>1, <1>2, <1>4, <1>7
  <2>2. tx' \in [Action -> TxStates]
    BY <1>7 DEF BlockWith, TxStates, Receipts
  <2>3. ASSUME NEW x \in Action
        PROVE  (minedAt'[x] # 0) = (tx'[x] \in Receipts) /\ minedAt'[x] <= head'
    <3>1. CASE x = a
      <4>1. minedAt'[x] # 0 /\ tx'[x] \in Receipts /\ minedAt'[x] <= head'
        BY <1>2, <1>6, <1>7, <3>1 DEF Receipts
      <4> QED BY <4>1
    <3>2. CASE x # a
      <4>1. minedAt'[x] = minedAt[x] /\ tx'[x] = tx[x]
        BY <1>6, <3>2
      <4>2. minedAt[x] <= head + 1
        BY <1>7
      <4> QED BY <1>2, <1>7, <4>1, <4>2
    <3> QED BY <3>1, <3>2
  <2> QED BY <1>1, <1>2, <2>1, <2>2, <2>3 DEF TypeInv, TypeOK, Outside
<1>9. PurseFollows'
  <2> SUFFICES ASSUME NEW b \in Block
               PROVE  /\ history'[b].weth = Funds - Spent(b)' + Earned(b)'
                      /\ history'[b].tokens = Held + Bought(b)' - Sold(b)'
                      /\ history'[b].tokenAllowance = Allowed(b)'
                      /\ history'[b].wethAllowance <= intent'["entry"].amount
    BY DEF PurseFollows, Block
  <2>1. CASE b > head
    <3>1. history'[b] = purse
      BY <1>4, <2>1
    <3> QED BY <1>3, <1>4, <1>6, <2>1, <3>1, MinedPurse
  <2>2. CASE ~ b > head
    <3>1. history'[b] = history[b] /\ b <= head
      BY <1>4, <1>7, <2>2, HeightsAreNumbers
    <3>2. \A x \in {"buy", "exit", "approval"} :
              /\ Landed(x, b)' <=> Landed(x, b)
              /\ Landed(x, b) => intent'[x] = intent[x] /\ Gain(x)' = Gain(x)
      <4>1. {"buy", "exit", "approval"} \subseteq Action
        BY DEF Action
      <4> QED BY <1>5, <3>1, <4>1
    <3>3. FlowsFrom(b, b)
      BY <3>2, SameFlows
    <3> QED BY <1>1, <1>6, <3>1, <3>3 DEF ChainInv, PurseFollows, FlowsFrom
  <2> QED BY <2>1, <2>2
<1>10. LandedWell'
  <2>1. ASSUME NEW s \in Swaps, tx'[s] = "success"
        PROVE  Time(minedAt'[s]) <= intent'[s].deadline /\ Gain(s)' >= intent'[s].minimum
    <3>1. CASE s = a
      <4>1. Succeeds(a, Now, Point(head + 1))
        BY <1>3, <1>6, <2>1, <3>1
      <4>2. Time(head + 1) <= intent[a].deadline /\ Yield(intent[a], Point(head + 1)) >= intent[a].minimum
        BY <3>1, <4>1 DEF Succeeds, GoesThrough, Point
      <4> QED BY <1>6, <3>1, <4>2
    <3>2. CASE s # a
      <4>1. s \in Action \ {a}
        BY <3>2 DEF Action, Swaps
      <4> QED BY <1>1, <1>6, <2>1, <4>1 DEF ChainInv, LandedWell
    <3> QED BY <3>1, <3>2
  <2>2. ASSUME tx'["exit"] = "success"
        PROVE  tx'["approval"] = "success" /\ minedAt'["approval"] < minedAt'["exit"]
    <3>1. "exit" \in Action /\ "approval" \in Action
      BY DEF Action
    <3>2. CASE a = "exit"
      <4>1. Landed("approval", head)
        BY <1>1, <1>3, <1>6, <2>2, <3>2, ExitFindsApproval
      <4> QED BY <1>6, <1>7, <3>1, <3>2, <4>1 DEF Landed
    <3>3. CASE a # "exit"
      <4>1. tx["exit"] = "success"
        BY <1>6, <2>2, <3>1, <3>3
      <4>2. tx["approval"] = "success" /\ minedAt["approval"] < minedAt["exit"]
        BY <1>1, <4>1 DEF ChainInv, LandedWell
      <4>3. a # "approval"
        BY <1>1, <4>2
      <4> QED BY <1>6, <3>1, <3>3, <4>2, <4>3
    <3> QED BY <3>2, <3>3
  <2> QED BY <2>1, <2>2 DEF LandedWell, Time
<1>11. NonceCounts'
  <2> SUFFICES ASSUME NEW b \in Block PROVE history'[b].nonce = Cardinality(MinedBy(b)')
    BY DEF NonceCounts, Block
  <2>1. b \in Nat
    BY HeightsAreNumbers
  <2>2. minedAt[a] = 0
    BY <1>1, PendingIsCommitted
  <2>3. CASE b > head
    <3>1. MinedBy(b)' = MinedBy(head) \cup {a} /\ a \notin MinedBy(head)
      <4>1. a \notin MinedBy(head) /\ a \in MinedBy(b)'
        BY <1>6, <1>7, <2>1, <2>2, <2>3 DEF MinedBy
      <4>2. ASSUME NEW x \in Action \ {a} PROVE x \in MinedBy(b)' <=> x \in MinedBy(head)
        BY <1>6, <1>7, <2>1, <2>3 DEF MinedBy
      <4> QED BY <4>1, <4>2 DEF MinedBy
    <3>2. MinedBy(head) \subseteq Action
      BY DEF MinedBy
    <3>3. Cardinality(MinedBy(b)') = Cardinality(MinedBy(head)) + 1
      BY <3>1, <3>2, ActionsCount, FS_AddElement
    <3>4. history'[b].nonce = Now.nonce + 1
      BY <1>4, <2>3 DEF Mined
    <3> QED BY <1>1, <1>7, <3>3, <3>4 DEF NonceInv, NonceCounts, Now
  <2>4. CASE ~ b > head
    <3>1. MinedBy(b)' = MinedBy(b)
      <4>1. a \notin MinedBy(b) /\ a \notin MinedBy(b)'
        BY <1>6, <1>7, <2>1, <2>2, <2>4 DEF MinedBy
      <4>2. ASSUME NEW x \in Action \ {a} PROVE x \in MinedBy(b)' <=> x \in MinedBy(b)
        BY <1>6 DEF MinedBy
      <4> QED BY <4>1, <4>2 DEF MinedBy
    <3>2. history'[b] = history[b]
      BY <1>4, <2>4
    <3> QED BY <1>1, <3>1, <3>2 DEF NonceInv, NonceCounts
  <2> QED BY <2>3, <2>4
<1>12. ChainInv'
  BY <1>9, <1>10 DEF ChainInv
<1>13. ASSUME NEW x \in Action PROVE tx'[x] = "none" <=> tx[x] = "none"
  BY <1>1, <1>6
<1> QED BY <1>1, <1>2, <1>8, <1>11, <1>12, <1>13, OutsideKeeps

------------------------------------------------------------------------------
(* A replacement returns every block from r on to the wallet of r - 1.     *)

LEMMA ReplacedForks ==
    ASSUME WalletInv, NEW r \in Block, Replace(r)
    PROVE  /\ ForksGrow' /\ ChainTypeOK' /\ NewestFork' = NewestFork + 1 /\ NewestFork \in Nat \ {0}
           /\ \A b \in Block : fork'[b] = IF b >= r THEN NewestFork + 1 ELSE fork[b]
           /\ r \in 1..head /\ head' = head
<1>1. /\ TypeInv /\ ForksGrow /\ ChainTypeOK /\ Reorg(r) /\ r \in 1..head /\ head' = head
      /\ NewestFork <= MaxReorgs
  BY DEF WalletInv, TypeInv, TypeOK, Replace, Reorg
<1>2. NewestFork \in Nat \ {0} /\ MaxBlock \in Block /\ Block \subseteq Nat /\ head \in Nat /\ head <= MaxBlock
      /\ \A b \in Block : b <= MaxBlock
  BY <1>1, NewestIsNumber, HeightsAreNumbers, ChainAssumption DEF ChainTypeOK, Block, ChainAssumption
<1>3. fork' = [b \in Block |-> IF b >= r THEN NewestFork + 1 ELSE fork[b]]
  BY <1>1 DEF Reorg
<1>4. \A b \in Block : fork'[b] = IF b >= r THEN NewestFork + 1 ELSE fork[b]
  BY <1>3
<1>5. NewestFork' = NewestFork + 1
  <2>1. MaxBlock >= r
    BY <1>1, <1>2, ChainAssumption DEF ChainAssumption
  <2> QED BY <1>2, <1>4, <2>1 DEF NewestFork
<1>6. ForksGrow'
  <2>1. ASSUME NEW b \in Block PROVE fork'[b] <= NewestFork + 1
    <3>1. fork[b] \in Nat /\ fork[b] <= NewestFork
      BY <1>1 DEF ForksGrow, ChainTypeOK
    <3> QED BY <1>2, <1>4, <3>1
  <2>2. NewestFork + 1 <= MaxReorgs + 1
    BY <1>1, <1>2, ChainAssumption DEF ChainAssumption
  <2> QED BY <1>5, <2>1, <2>2 DEF ForksGrow, Block
<1>7. ChainTypeOK'
  <2>1. fork' \in [Block -> Nat \ {0}]
    BY <1>1, <1>2, <1>3 DEF ChainTypeOK
  <2>2. place' \in [Launch -> Block]
    <3>1. PICK moved \in [{l \in Launch : place[l] >= r} -> {0} \cup r..head] :
              place' = [l \in Launch |-> IF l \in DOMAIN moved THEN moved[l] ELSE place[l]]
      BY <1>1 DEF Reorg
    <3>2. {0} \cup r..head \subseteq Block
      BY <1>1, <1>2, ChainAssumption DEF Block, ChainAssumption
    <3> QED BY <1>1, <3>1, <3>2 DEF ChainTypeOK
  <2> QED BY <1>1, <2>1, <2>2 DEF ChainTypeOK
<1> QED BY <1>1, <1>2, <1>4, <1>5, <1>6, <1>7

LEMMA ReplacedPlans ==
    ASSUME WalletInv, NEW r \in Block, Replace(r)
    PROVE  PlansRight'
<1>1. /\ NewestFork' = NewestFork + 1 /\ NewestFork \in Nat \ {0} /\ head' = head /\ ChainTypeOK
      /\ \A b \in Block : fork'[b] = IF b >= r THEN NewestFork + 1 ELSE fork[b]
      /\ Outside /\ TypeInv /\ ForksGrow /\ PlansRight
  BY ReplacedForks DEF Replace, Outside, WalletInv, TypeInv, TypeOK
<1> SUFFICES ASSUME NEW p \in Process PROVE PlanRight(p)'
  BY DEF PlansRight
<1>2. plan[p] \in PlanRecords(plan[p].swap) /\ local' = local /\ plan' = plan
  BY <1>1 DEF TypeInv, Shapes, PlansTyped, Outside
<1>3. plan[p].quote.block \in Block /\ plan[p].quote.fork \in Nat
  BY <1>2 DEF PlanRecords, Location
<1>4. PlanRight(p)
  BY <1>1 DEF PlansRight
<1>5. local[p].pc \in Quoting => plan[p].quote.block <= head /\ plan[p].quote.fork \in 1..NewestFork + 1
  BY <1>1, <1>4 DEF PlanRight
<1>6. local[p].pc \in Quoting /\ QuoteCanonical(plan[p])' => QuoteCanonical(plan[p])
  <2>1. local[p].pc \in Quoting => plan[p].quote.fork < NewestFork + 1
    BY <1>1, <1>3, <1>4 DEF PlanRight
  <2> QED BY <1>1, <1>2, <1>3, <2>1 DEF QuoteCanonical
<1>7. ReadRight(plan[p], local[p].act)' <=> ReadRight(plan[p], local[p].act)
  BY <1>1, <1>2 DEF ReadRight, DollarAt, RateAt, Acquired, Outside
<1>8. SwapRight(plan[p].swap, local[p].act)' <=> SwapRight(plan[p].swap, local[p].act)
  BY <1>1, <1>2 DEF SwapRight, AsQuoted, WithinDollar, MinimumOut, Yield, RateAt, DollarAt, Time
<1>9. local[p].pc = "clock" => local[p].pc \in Quoting
  BY DEF Quoting
<1> QED BY <1>1, <1>2, <1>4, <1>5, <1>6, <1>7, <1>8, <1>9 DEF PlanRight

LEMMA ReplaceKeeps == ASSUME WalletInv, NEW r \in Block, Replace(r) PROVE WalletInv'
<1>1. /\ ForksGrow' /\ ChainTypeOK' /\ PlansRight' /\ r \in 1..head /\ head' = head
      /\ NewestFork \in Nat \ {0}
      /\ \A b \in Block : fork'[b] = IF b >= r THEN NewestFork + 1 ELSE fork[b]
  BY ReplacedForks, ReplacedPlans
<1>2. /\ Outside /\ TypeInv /\ ChainInv /\ NonceInv
      /\ history' = [c \in Block |-> IF c >= r THEN history[r - 1] ELSE history[c]]
      /\ tx' = [a \in Action |-> IF minedAt[a] >= r THEN "pending" ELSE tx[a]]
      /\ minedAt' = [a \in Action |-> IF minedAt[a] >= r THEN 0 ELSE minedAt[a]]
  BY DEF Replace, Outside, WalletInv
<1>3. /\ history \in [Block -> Purse] /\ minedAt \in [Action -> Block] /\ tx \in [Action -> TxStates]
      /\ head \in Nat /\ head \in Block
      /\ \A x \in Action : (minedAt[x] # 0) = (tx[x] \in Receipts) /\ minedAt[x] \in Nat /\ minedAt[x] <= head
  BY <1>2, HeightsAreNumbers DEF TypeInv, TypeOK, ChainTypeOK
<1>4. r \in Nat \ {0} /\ r - 1 \in Block /\ 0 \in Block /\ Block \subseteq Nat
  BY <1>1, HeightsAreNumbers DEF Block
<1>5. \A x \in Action : /\ minedAt[x] >= r => tx'[x] = "pending" /\ minedAt'[x] = 0
                        /\ ~ minedAt[x] >= r => tx'[x] = tx[x] /\ minedAt'[x] = minedAt[x]
  BY <1>2
<1>6. TypeOK'
  <2>1. history' \in [Block -> Purse] /\ minedAt' \in [Action -> Block]
    BY <1>2, <1>3, <1>4
  <2>2. tx' \in [Action -> TxStates]
    BY <1>2, <1>3 DEF TxStates
  <2>3. ASSUME NEW x \in Action
        PROVE  (minedAt'[x] # 0) = (tx'[x] \in Receipts) /\ minedAt'[x] <= head'
    <3>1. CASE minedAt[x] >= r
      <4>1. minedAt'[x] = 0 /\ tx'[x] \notin Receipts
        BY <1>5, <3>1 DEF Receipts
      <4> QED BY <1>1, <1>3, <4>1
    <3>2. CASE ~ minedAt[x] >= r
      <4>1. minedAt'[x] = minedAt[x] /\ tx'[x] = tx[x]
        BY <1>5, <3>2
      <4> QED BY <1>1, <1>3, <4>1
    <3> QED BY <3>1, <3>2
  <2> QED BY <1>1, <1>2, <2>1, <2>2, <2>3 DEF TypeInv, TypeOK, Outside
<1>7. \A x \in Action : tx'[x] = "success" <=> tx[x] = "success" /\ minedAt[x] < r
  BY <1>3, <1>4, <1>5
<1>8. \A x \in Action : tx'[x] = "success" => minedAt'[x] = minedAt[x] /\ minedAt[x] < r
  BY <1>3, <1>4, <1>5
<1>9. intent' = intent
  BY <1>2 DEF Outside
<1>10. ASSUME NEW x \in Action, tx[x] = "success", minedAt[x] < r PROVE Gain(x)' = Gain(x)
  <2>1. minedAt'[x] = minedAt[x]
    BY <1>3, <1>4, <1>5, <1>10
  <2>2. fork'[minedAt[x]] = fork[minedAt[x]]
    BY <1>1, <1>3, <1>4, <1>10
  <2> QED BY <1>9, <2>1, <2>2, GainKept
<1>11. PurseFollows'
  <2> SUFFICES ASSUME NEW b \in Block
               PROVE  /\ history'[b].weth = Funds - Spent(b)' + Earned(b)'
                      /\ history'[b].tokens = Held + Bought(b)' - Sold(b)'
                      /\ history'[b].tokenAllowance = Allowed(b)'
                      /\ history'[b].wethAllowance <= intent'["entry"].amount
    BY DEF PurseFollows, Block
  <2>1. PICK c : c = IF b >= r THEN r - 1 ELSE b
    OBVIOUS
  <2>2. c \in Block /\ c \in Nat /\ b \in Nat /\ c < r /\ history'[b] = history[c]
    <3>1. b \in Nat /\ history'[b] = history[c]
      BY <1>2, <1>4, <2>1
    <3>2. c \in Block /\ c \in Nat
      BY <1>4, <2>1
    <3> QED BY <1>4, <2>1, <3>1, <3>2
  <2>3. {"buy", "exit", "approval"} \subseteq Action
    BY DEF Action
  <2>4. ASSUME NEW x \in Action PROVE Landed(x, b)' <=> Landed(x, c)
    <3>1. minedAt[x] < r => (minedAt[x] <= b <=> minedAt[x] <= c)
      BY <1>3, <1>4, <2>1, <2>2
    <3>2. minedAt[x] <= c => minedAt[x] < r
      BY <1>3, <1>4, <2>2
    <3> QED BY <1>7, <1>8, <3>1, <3>2 DEF Landed
  <2>5. ASSUME NEW x \in Action, Landed(x, c) PROVE Gain(x)' = Gain(x)
    <3>1. tx[x] = "success" /\ minedAt[x] < r
      BY <1>3, <1>4, <2>2, <2>5 DEF Landed
    <3> QED BY <1>10, <3>1
  <2>6. FlowsFrom(b, c)
    <3>1. \A x \in {"buy", "exit", "approval"} :
              /\ Landed(x, b)' <=> Landed(x, c)
              /\ Landed(x, c) => intent'[x] = intent[x] /\ Gain(x)' = Gain(x)
      BY <1>9, <2>3, <2>4, <2>5
    <3> QED BY <3>1, SameFlows
  <2> QED BY <1>2, <1>9, <2>2, <2>6 DEF ChainInv, PurseFollows, FlowsFrom
<1>12. LandedWell'
  <2>1. ASSUME NEW s \in Swaps, tx'[s] = "success"
        PROVE  Time(minedAt'[s]) <= intent'[s].deadline /\ Gain(s)' >= intent'[s].minimum
    <3>1. s \in Action
      BY DEF Action, Swaps
    <3>2. tx[s] = "success" /\ minedAt'[s] = minedAt[s] /\ minedAt[s] < r
      BY <1>7, <1>8, <2>1, <3>1
    <3>3. Gain(s)' = Gain(s)
      BY <1>10, <3>1, <3>2
    <3> QED BY <1>2, <1>9, <3>2, <3>3 DEF ChainInv, LandedWell
  <2>2. ASSUME tx'["exit"] = "success"
        PROVE  tx'["approval"] = "success" /\ minedAt'["approval"] < minedAt'["exit"]
    <3>1. "exit" \in Action /\ "approval" \in Action
      BY DEF Action
    <3>2. tx["exit"] = "success" /\ minedAt'["exit"] = minedAt["exit"] /\ minedAt["exit"] < r
      BY <1>7, <1>8, <2>2, <3>1
    <3>3. tx["approval"] = "success" /\ minedAt["approval"] < minedAt["exit"]
      BY <1>2, <3>2 DEF ChainInv, LandedWell
    <3>4. minedAt["approval"] < r
      <4>1. minedAt["approval"] \in Nat /\ minedAt["exit"] \in Nat /\ r \in Nat
        BY <1>3, <1>4, <3>1
      <4> QED BY <3>2, <3>3, <4>1
    <3> QED BY <1>7, <1>8, <3>1, <3>2, <3>3, <3>4
  <2> QED BY <2>1, <2>2 DEF LandedWell, Time
<1>13. NonceCounts'
  <2> SUFFICES ASSUME NEW b \in Block PROVE history'[b].nonce = Cardinality(MinedBy(b)')
    BY DEF NonceCounts, Block
  <2>1. PICK c : c = IF b >= r THEN r - 1 ELSE b
    OBVIOUS
  <2>2. c \in Block /\ c \in Nat /\ b \in Nat /\ history'[b] = history[c]
    BY <1>2, <1>4, <2>1
  <2>3. ASSUME NEW x \in Action PROVE minedAt'[x] \in 1..b <=> minedAt[x] \in 1..c
    BY <1>3, <1>4, <1>5, <2>1, <2>2
  <2>4. MinedBy(b)' = MinedBy(c)
    BY <2>3 DEF MinedBy
  <2> QED BY <1>2, <2>2, <2>4 DEF NonceInv, NonceCounts
<1>14. ASSUME NEW x \in Action PROVE tx'[x] = "none" <=> tx[x] = "none"
  <2>1. minedAt[x] >= r => tx[x] \in Receipts
    BY <1>3, <1>4
  <2> QED BY <1>5, <2>1 DEF Receipts
<1>15. ChainInv'
  BY <1>11, <1>12 DEF ChainInv
<1> QED BY <1>1, <1>2, <1>6, <1>13, <1>14, <1>15, OutsideKeeps

------------------------------------------------------------------------------
(* The invariant, from the first state on.                                 *)

LEMMA EnvironmentKeeps == ASSUME WalletInv, Environment PROVE WalletInv'
  BY EmptyBlockKeeps, BlockWithKeeps, ReplaceKeeps DEF Environment

LEMMA StutterKeeps == ASSUME WalletInv, UNCHANGED vars PROVE WalletInv'
<1>1. /\ Outside /\ UNCHANGED <<tx, head, fork, place, history, minedAt>>
      /\ TypeInv /\ ForksGrow /\ PlansRight /\ ChainInv /\ NonceInv
  BY DEF vars, Outside, WalletInv
<1>2. TypeOK'
  BY <1>1 DEF TypeInv, TypeOK, ChainTypeOK, Outside
<1>3. ForksGrow'
  BY <1>1 DEF ForksGrow, NewestFork, Block
<1>4. PlansRight'
  <2>1. ASSUME NEW p \in Process PROVE PlanRight(p)'
    <3>1. PlanRight(p) /\ local' = local /\ plan' = plan
      BY <1>1 DEF PlansRight, Outside
    <3>2. ReadRight(plan[p], local[p].act)' <=> ReadRight(plan[p], local[p].act)
      BY <1>1, <3>1 DEF ReadRight, DollarAt, RateAt, Acquired, Outside
    <3>3. SwapRight(plan[p].swap, local[p].act)' <=> SwapRight(plan[p].swap, local[p].act)
      BY <1>1, <3>1 DEF SwapRight, AsQuoted, WithinDollar, MinimumOut, Yield, RateAt, DollarAt, Time
    <3>4. QuoteCanonical(plan[p])' <=> QuoteCanonical(plan[p])
      BY <1>1, <3>1 DEF QuoteCanonical
    <3>5. NewestFork' = NewestFork
      BY <1>1 DEF NewestFork
    <3> QED BY <1>1, <3>1, <3>2, <3>3, <3>4, <3>5 DEF PlanRight
  <2> QED BY <2>1 DEF PlansRight
<1>5. NothingMined
  BY <1>1 DEF NothingMined, Outside, TypeInv, Shapes, Action
<1>6. ChainInv'
  BY <1>1, <1>5, ChainKept
<1>7. NonceCounts'
  BY <1>1 DEF NonceInv, NonceCounts, MinedBy, Block
<1> QED BY <1>1, <1>2, <1>3, <1>4, <1>6, <1>7, OutsideKeeps

LEMMA NextKeeps == ASSUME WalletInv, [Next]_vars PROVE WalletInv'
<1>1. ASSUME NEW p \in Process, Advance(p) \/ NothingToDo(p) \/ ProcessFails(p)
      PROVE  WalletInv'
  BY <1>1, AdvanceKeeps, ProcessFailsKeeps, StutterKeeps DEF NothingToDo
<1> QED BY <1>1, EnvironmentKeeps, StutterKeeps DEF Next

LEMMA InitEstablishes == ASSUME Init PROVE WalletInv
<1> USE DEF Init
<1>1. /\ \A a \in Action : rows[a] = Absent /\ tx[a] = "none" /\ sent[a] = 0 /\ intent[a] = NoIntent
                           /\ nonce[a] = -1 /\ minedAt[a] = 0
      /\ \A p \in Process : local[p] = Idle /\ plan[p] = NoPlan
  OBVIOUS
<1>2. Absent \in Row /\ Absent.signed = FALSE /\ Absent # Skipped /\ -1 \notin Nat /\ -1 \in Int
  BY DEF Absent, Skipped, Row
<1>3. ChainTypeOK
  BY HeightsAreNumbers DEF ChainInit, ChainTypeOK
<1>4. \A b \in Block : history[b].weth = Funds /\ history[b].tokens = Held /\ history[b].wethAllowance = 0
                       /\ history[b].tokenAllowance = 0 /\ history[b].nonce = 0
  OBVIOUS
<1>5. history \in [Block -> Purse]
  BY WalletAssumption DEF WalletAssumption, Purse
<1>6. TypeOK
  <2>1. local \in [Process -> Locals]
    BY DEF Locals, Idle, Steps, Modes
  <2>2. rows \in [Action -> Row] /\ tx \in [Action -> TxStates] /\ sent \in [Action -> Nat] /\ failures \in Nat
    BY <1>2 DEF TxStates
  <2>3. minedAt \in [Action -> Block] /\ before \in [Swaps -> Nat] /\ after \in [Swaps -> Nat]
    BY HeightsAreNumbers
  <2>4. ASSUME NEW a \in Action
        PROVE  (minedAt[a] # 0) = (tx[a] \in Receipts) /\ minedAt[a] <= head
    <3>1. minedAt[a] = 0 /\ tx[a] \notin Receipts /\ head = 0
      BY <1>1 DEF Receipts, ChainInit
    <3> QED BY <3>1
  <2>5. ASSUME NEW a \in Action
        PROVE  /\ (rows[a] = Absent \/ rows[a] = Skipped) = (intent[a] = NoIntent)
               /\ rows[a].signed = (nonce[a] \in Nat)
    <3>1. rows[a] = Absent /\ intent[a] = NoIntent
      BY <1>1
    <3>2. rows[a].signed = FALSE /\ (nonce[a] \in Nat) = FALSE
      BY <1>1, <1>2
    <3> QED BY <3>1, <3>2
  <2> QED BY <1>3, <1>5, <2>1, <2>2, <2>3, <2>4, <2>5 DEF TypeOK, Locals
<1>7. TypeInv
  <2>1. PlansTyped
    BY <1>1, NoPlanTyped DEF PlansTyped, NoPlan
  <2>2. \A a \in Action : intent[a].amount \in Nat
    BY <1>1 DEF NoIntent
  <2>3. nonce \in [Action -> Int]
    BY <1>2
  <2> QED BY <1>6, <2>1, <2>2, <2>3 DEF TypeInv, Shapes
<1>8. ForksGrow
  BY HeightsAreNumbers, ChainAssumption DEF ForksGrow, NewestFork, ChainInit, ChainAssumption
<1>9. ASSUME NEW p \in Process PROVE PlaceRight(p)
  BY <1>1 DEF PlaceRight, InHand, InTurn, PlanRight, NonceReady, Idle, InHandSteps, StoredSteps, Quoting
<1>10. StoredFirst
  BY <1>1 DEF StoredFirst
<1>11. /\ "entry" \in Action /\ "buy" \in Action /\ "approval" \in Action /\ "exit" \in Action
       /\ Swaps \subseteq Action
  BY DEF Action, Swaps
<1>12. IntentsRight
  BY <1>1, <1>11 DEF IntentsRight, Committed
<1>13. ChainInv
  <2>1. \A x \in Action : \A b : ~ Landed(x, b)
    BY <1>1 DEF Landed
  <2>2. \A b : Spent(b) = 0 /\ Bought(b) = 0 /\ Sold(b) = 0 /\ Earned(b) = 0 /\ Allowed(b) = 0
    BY <1>11, <2>1 DEF Spent, Bought, Sold, Earned, Allowed
  <2>3. intent["entry"].amount = 0
    BY <1>1, <1>11 DEF NoIntent
  <2>4. PurseFollows
    BY <1>4, <2>2, <2>3, WalletAssumption DEF PurseFollows, WalletAssumption
  <2>5. LandedWell
    BY <1>1, <1>11 DEF LandedWell
  <2> QED BY <2>4, <2>5 DEF ChainInv
<1>14. NonceCounts /\ NoncesTaken
  <2>1. Known = {} /\ \A b \in Block : MinedBy(b) = {}
    BY <1>1 DEF Known, MinedBy
  <2> QED BY <1>4, <2>1, FS_EmptySet DEF NonceCounts, NoncesTaken
<1> QED BY <1>7, <1>8, <1>9, <1>10, <1>12, <1>13, <1>14
        DEF WalletInv, ControlInv, PlansRight, NonceInv, PlaceRight

THEOREM WalletInvariant == Spec => []WalletInv
<1>1. Init => WalletInv
  BY InitEstablishes
<1>2. WalletInv /\ [Next]_vars => WalletInv'
  BY NextKeeps
<1> QED BY <1>1, <1>2, PTL DEF Spec

------------------------------------------------------------------------------
(* What follows from it.                                                   *)

LEMMA SentIsCommitted ==
    ASSUME WalletInv, NEW a \in Action, tx[a] # "none"
    PROVE  Committed(a)
<1>1. TypeInv /\ StoredFirst
  BY DEF WalletInv, ControlInv
<1>2. rows[a].signed
  BY <1>1 DEF StoredFirst
<1>3. rows[a] # Absent /\ rows[a] # Skipped
  BY <1>2 DEF Absent, Skipped
<1> QED BY <1>1, <1>3 DEF TypeInv, TypeOK, Committed

\* Rows, columns, wallet and chain are of their types; an intent is stored exactly
\* for the rows that were reserved, a nonce for the signed ones, a block for those
\* with a receipt.
THEOREM TypeCorrect == Spec => []TypeOK
<1>1. WalletInv => TypeOK
  BY DEF WalletInv, TypeInv
<1> QED BY <1>1, WalletInvariant, PTL

\* Approved and bought for stays at most $1 at the price of the quoted block, and no
\* block shows more WETH gone, or more of it allowed, than was approved.
THEOREM NeverOverspends == Spec => []NeverOverspent
<1>1. WalletInv => NeverOverspent
  <2> SUFFICES ASSUME WalletInv PROVE NeverOverspent
    OBVIOUS
  <2>1. TypeInv /\ ForksGrow /\ IntentsRight /\ ChainInv
    BY DEF WalletInv
  <2>2. ASSUME NEW a \in {"entry", "buy"}, intent[a] # NoIntent
        PROVE  intent[a].amount <= DollarAt(intent[a].quote)
    BY <2>1, <2>2 DEF IntentsRight, Committed, WithinDollar
  <2>3. ASSUME NEW b \in Block
        PROVE  /\ Funds - history[b].weth <= intent["entry"].amount
               /\ history[b].wethAllowance <= intent["entry"].amount
    <3>1. /\ history[b].weth = Funds - Spent(b) + Earned(b)
          /\ history[b].wethAllowance <= intent["entry"].amount
      BY <2>1 DEF ChainInv, PurseFollows
    <3>2. Spent(b) \in Nat /\ Earned(b) \in Nat /\ Funds \in Nat /\ intent["entry"].amount \in Nat
      BY <2>1, FlowsAreNumbers, WalletAssumption DEF WalletAssumption, TypeInv, Shapes, Action
    <3>3. Spent(b) <= intent["entry"].amount
      <4>1. CASE Landed("buy", b)
        <5>1. Committed("buy")
          BY <4>1, SentIsCommitted DEF Landed, Action
        <5>2. Spent(b) = intent["entry"].amount
          BY <2>1, <4>1, <5>1 DEF Spent, IntentsRight
        <5> QED BY <3>2, <5>2
      <4>2. CASE ~ Landed("buy", b)
        BY <3>2, <4>2 DEF Spent
      <4> QED BY <4>1, <4>2
    <3> QED BY <3>1, <3>2, <3>3
  <2> QED BY <2>2, <2>3 DEF NeverOverspent
<1> QED BY <1>1, WalletInvariant, PTL

\* A swap that went through did so within the quote's age and the deadline, and gave
\* what slippage allows of the quoted block's price.
THEOREM LandsWithinQuote == Spec => []LandsAsQuoted
<1>1. WalletInv => LandsAsQuoted
  <2> SUFFICES ASSUME WalletInv, NEW s \in Swaps, tx[s] = "success"
               PROVE  /\ minedAt[s] <= intent[s].quote.block + MaxQuoteAge + DeadlineSeconds
                      /\ Yield(intent[s], Point(minedAt[s])) >= MinimumOut(Yield(intent[s], intent[s].quote))
    BY DEF LandsAsQuoted
  <2>1. TypeInv /\ IntentsRight /\ ChainInv /\ s \in Action
    BY DEF WalletInv, Action, Swaps
  <2>2. Committed(s)
    BY <2>1, SentIsCommitted
  <2>3. /\ AsQuoted(intent[s])
        /\ intent[s].deadline <= Time(intent[s].quote.block + MaxQuoteAge) + DeadlineSeconds
    BY <2>1, <2>2 DEF IntentsRight
  <2>4. Time(minedAt[s]) <= intent[s].deadline /\ Gain(s) >= intent[s].minimum
    BY <2>1 DEF ChainInv, LandedWell
  <2>5. minedAt[s] \in Nat /\ intent[s].quote.block \in Nat /\ intent[s].deadline \in Nat
        /\ MaxQuoteAge \in Nat /\ DeadlineSeconds \in Nat
    <3>1. minedAt[s] \in Block
      BY <2>1 DEF TypeInv, TypeOK
    <3>2. intent[s].quote.block \in Block /\ intent[s].deadline \in Nat
      BY <2>3 DEF AsQuoted, Location
    <3>3. MaxQuoteAge \in Nat /\ DeadlineSeconds \in Nat
      BY WalletAssumption, IntentAssumption DEF WalletAssumption, IntentAssumption
    <3> QED BY <3>1, <3>2, <3>3, HeightsAreNumbers
  <2>6. minedAt[s] <= intent[s].quote.block + MaxQuoteAge + DeadlineSeconds
    BY <2>3, <2>4, <2>5 DEF Time
  <2> QED BY <2>3, <2>4, <2>6 DEF AsQuoted, Gain
<1> QED BY <1>1, WalletInvariant, PTL

\* What the wallet held before the buy is neither sold nor allowed to the router,
\* as long as the buy is in the block whose outcome was read.
THEOREM HoldingsStay == Spec => []HoldingsKept
<1>1. WalletInv => HoldingsKept
  <2> SUFFICES ASSUME WalletInv, tx["buy"] = "success", rows["buy"].state = "INCLUDED",
                      Acquired = Gain("buy")
               PROVE  Now.tokens >= Held /\ Now.tokens - Now.tokenAllowance >= Held
    BY DEF HoldingsKept, Acquired, Gain
  <2>1. TypeInv /\ ForksGrow /\ IntentsRight /\ ChainInv /\ head \in Block
    BY DEF WalletInv, TypeInv, TypeOK, ChainTypeOK
  <2>2. Now.tokens = Held + Bought(head) - Sold(head) /\ Now.tokenAllowance = Allowed(head)
    BY <2>1 DEF ChainInv, PurseFollows, Now
  <2>3. "buy" \in Action /\ "exit" \in Action /\ "approval" \in Action
    BY DEF Action
  <2>4. Landed("buy", head)
    <3>1. minedAt["buy"] <= head
      BY <2>1, <2>3 DEF TypeInv, TypeOK
    <3> QED BY <3>1 DEF Landed
  <2>5. Bought(head) = Acquired /\ Acquired \in Nat /\ Held \in Nat
    BY <2>1, <2>4, FlowsAreNumbers, WalletAssumption DEF Bought, WalletAssumption
  <2>6. CASE Landed("exit", head)
    <3>1. Committed("exit")
      BY <2>3, <2>6, SentIsCommitted DEF Landed
    <3>2. Sold(head) = Acquired /\ Allowed(head) = 0
      BY <2>1, <2>6, <3>1 DEF Sold, Allowed, IntentsRight
    <3> QED BY <2>2, <2>5, <3>2
  <2>7. CASE ~ Landed("exit", head)
    <3>1. Sold(head) = 0
      BY <2>7 DEF Sold
    <3>2. Allowed(head) = 0 \/ Allowed(head) = Acquired
      <4>1. CASE Landed("approval", head)
        <5>1. Committed("approval")
          BY <2>3, <4>1, SentIsCommitted DEF Landed
        <5> QED BY <2>1, <2>7, <4>1, <5>1 DEF Allowed, IntentsRight
      <4>2. CASE ~ Landed("approval", head)
        BY <4>2 DEF Allowed
      <4> QED BY <4>1, <4>2
    <3> QED BY <2>2, <2>5, <3>1, <3>2
  <2> QED BY <2>6, <2>7
<1> QED BY <1>1, WalletInvariant, PTL

\* Two transactions that were handed to the network never carry one nonce.
THEOREM NoncesDistinct == Spec => []NoNonceTwice
<1>1. WalletInv => NoNonceTwice
  <2> SUFFICES ASSUME WalletInv, NEW a \in Action, NEW b \in Action, a # b, sent[a] > 0, sent[b] > 0
               PROVE  nonce[a] # nonce[b]
    BY DEF NoNonceTwice
  <2>1. TypeInv /\ StoredFirst /\ NoncesTaken
    BY DEF WalletInv, ControlInv, NonceInv
  <2>2. sent[a] # 0 /\ sent[b] # 0
    BY <2>1 DEF TypeInv, TypeOK
  <2>3. a \in Known /\ b \in Known
    BY <2>1, <2>2 DEF StoredFirst, Known
  <2> QED BY <2>1, <2>3 DEF NoncesTaken
<1> QED BY <1>1, WalletInvariant, PTL

==============================================================================
