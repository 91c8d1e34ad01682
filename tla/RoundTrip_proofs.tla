--------------------------- MODULE RoundTrip_proofs ---------------------------
(***************************************************************************)
(* Theorems about the way back of the canary, for every number of          *)
(* processes and failures and whatever the wallet's owner does.            *)
(***************************************************************************)
EXTENDS RoundTrip, CanaryTx_proofs

WalletTypes ==
    /\ bought \in BOOLEAN
    /\ allowance \in {"zero", "exact", "other"}
    /\ tokens \in BOOLEAN
    /\ weth \in 0..MaxWeth
    /\ before \in 0..MaxWeth
    /\ noted \in [Process -> 0..MaxWeth]

\* A process that is about to exit has seen the approval INCLUDED.
ExitReady ==
    \A p \in Process :
        local[p].pc \in {"exitPreflight", "exitReserve"} => tx["approval"] = "success"

NoneSkipped == \A a \in Action : rows[a].state # "SKIPPED"

RoundTripInv ==
    /\ TxInv(Action, Steps)
    /\ WalletTypes
    /\ ExitReady
    /\ ExitFollowsApproval
    /\ NoneSkipped

\* A reservation of a free slot.
ReservesOne ==
    \E a \in Action : /\ rows[a] = Absent
                      /\ rows' = [rows EXCEPT ![a] = Reserved]
                      /\ sent' = sent

Effect == SlotStep(Action) \/ ReservesOne

USE DEF wallet, exitRow, around, aside, network, vars

------------------------------------------------------------------------------
LEMMA StepNames ==
    /\ TxSteps \cup {"idle"} \subseteq Steps
    /\ {"exitPreflight", "exitReserve", "idle"} \cap TxSteps = {}
  BY DEF TxSteps, Steps

\* A row is absent exactly when it is not taken.
LEMMA TakenOrAbsent ==
    ASSUME NEW r \in Row, r.state # "SKIPPED"
    PROVE  (r.state \notin {"NONE", "SKIPPED"} \/ r.signed) <=> r # Absent
<1>1. r = [state |-> r.state, signed |-> r.signed]
  BY RowWithState
<1>2. CASE r.state = "NONE"
  <2>1. r.signed = FALSE
    BY <1>2 DEF Row
  <2> QED BY <1>1, <1>2, <2>1 DEF Absent
<1>3. CASE r.state # "NONE"
  BY <1>3 DEF Absent
<1> QED BY <1>2, <1>3

\* A step of CanaryTx, of the chain, or of a process without an action in hand.
LEMMA KeptRowsKeep ==
    ASSUME RoundTripInv, TxInv(Action, Steps)', SlotStep(Action), RowsKept(Action),
           WalletTypes',
           \A p \in Process : local'[p].pc \in {"exitPreflight", "exitReserve"} =>
               tx["approval"] = "success"
    PROVE  RoundTripInv' /\ Effect
<1>1. {"approval", "exit"} \subseteq Action
  BY DEF Action
<1>2. tx["approval"] = "success" => tx'["approval"] = "success"
  BY <1>1 DEF RowsKept
<1>3. ExitReady'
  BY <1>2 DEF ExitReady
<1>4. NoneSkipped'
  BY DEF RoundTripInv, NoneSkipped, RowsKept
<1>5. ExitFollowsApproval'
  <2>1. CASE Taken("exit")
    BY <1>2, <2>1 DEF RoundTripInv, ExitFollowsApproval, Taken, Absent
  <2>2. CASE ~Taken("exit")
    <3>1. rows'["exit"] = rows["exit"]
      BY <1>1, <2>2 DEF RowsKept
    <3> QED BY <1>2, <3>1 DEF RoundTripInv, ExitFollowsApproval
  <2> QED BY <2>1, <2>2
<1> QED BY <1>3, <1>4, <1>5 DEF RoundTripInv, Effect

\* A process goes to a step without an action in hand, or leaves.
LEMMA QuietKeeps ==
    ASSUME RoundTripInv, NEW p \in Process,
           End(p) \/ \E step \in Steps \ TxSteps :
               Goto(p, step) /\ (step \in {"exitPreflight", "exitReserve"} =>
                                     tx["approval"] = "success"),
           UNCHANGED <<rows, network, failures>>, WalletTypes'
    PROVE  RoundTripInv' /\ Effect
<1>0. TxInv(Action, Steps) /\ TxTypes(Action, Steps) /\ failures' \in Nat
  BY DEF RoundTripInv, TxInv, TxTypes
<1>1. PICK l \in LocalsOver(Action, Steps) :
         /\ local' = [local EXCEPT ![p] = l]
         /\ l.pc \notin TxSteps
         /\ l.pc \in {"exitPreflight", "exitReserve"} => tx["approval"] = "success"
  <2>1. CASE End(p)
    <3>1. /\ local' = [local EXCEPT ![p] = Idle] /\ Idle.pc = "idle"
          /\ Idle \in LocalsOver(Action, Steps)
      BY <2>1, IdleTyped, StepNames DEF End, Idle
    <3> QED BY <3>1, StepNames
  <2>2. ASSUME NEW step \in Steps \ TxSteps, Goto(p, step),
               step \in {"exitPreflight", "exitReserve"} => tx["approval"] = "success"
        PROVE  \E m \in LocalsOver(Action, Steps) :
                  /\ local' = [local EXCEPT ![p] = m]
                  /\ m.pc \notin TxSteps
                  /\ m.pc \in {"exitPreflight", "exitReserve"} => tx["approval"] = "success"
    <3> DEFINE m == [local[p] EXCEPT !.pc = step]
    <3>1. m \in LocalsOver(Action, Steps) /\ m.pc = step /\ local' = [local EXCEPT ![p] = m]
      BY <1>0, <2>2 DEF Goto, TxTypes, LocalsOver
    <3> HIDE DEF m
    <3> QED BY <2>2, <3>1
  <2> QED BY <2>1, <2>2
<1>2. TxInv(Action, Steps)'
  BY <1>0, <1>1, MoveKeeps
<1>3. \A q \in Process : local'[q].pc \in {"exitPreflight", "exitReserve"} =>
          tx["approval"] = "success"
  BY <1>0, <1>1 DEF RoundTripInv, ExitReady, TxTypes
<1> QED BY <1>2, <1>3, NothingOfSlots, KeptRowsKeep

\* A step with an action in hand, or one that takes an open row up again.
LEMMA InHandKeeps ==
    ASSUME RoundTripInv, NEW p \in Process, TxInv(Action, Steps)',
           SlotStep(Action), RowsKept(Action), WalletTypes',
           \/ End(p)
           \/ \E step \in TxSteps : Goto(p, step)
           \/ \E a \in Action, how \in Modes : Reconcile(p, a, how)
    PROVE  RoundTripInv' /\ Effect
<1>1. PICK l : local' = [local EXCEPT ![p] = l] /\ l.pc \notin {"exitPreflight", "exitReserve"}
  <2>1. CASE End(p)
    <3>1. local' = [local EXCEPT ![p] = Idle] /\ Idle.pc = "idle"
      BY <2>1 DEF End, Idle
    <3> QED BY <3>1
  <2>2. ASSUME NEW step \in TxSteps, Goto(p, step)
        PROVE  \E m : local' = [local EXCEPT ![p] = m] /\ m.pc \notin {"exitPreflight", "exitReserve"}
    <3> DEFINE m == [local[p] EXCEPT !.pc = step]
    <3>1. local' = [local EXCEPT ![p] = m] /\ m.pc = step
      BY <2>2 DEF Goto, RoundTripInv, TxInv, TxTypes, LocalsOver
    <3> QED BY <3>1, StepNames
  <2>3. ASSUME NEW a \in Action, NEW how \in Modes, Reconcile(p, a, how)
        PROVE  \E m : local' = [local EXCEPT ![p] = m] /\ m.pc \notin {"exitPreflight", "exitReserve"}
    <3> DEFINE m == [pc |-> IF rows[a].signed THEN "receipt" ELSE "halt", act |-> a, mode |-> how]
    <3>1. local' = [local EXCEPT ![p] = m] /\ m.pc \in {"receipt", "halt"}
      BY <2>3 DEF Reconcile
    <3> QED BY <3>1
  <2> QED BY <2>1, <2>2, <2>3
<1>2. \A q \in Process : local'[q].pc \in {"exitPreflight", "exitReserve"} =>
          tx["approval"] = "success"
  BY <1>1 DEF RoundTripInv, ExitReady, TxInv, TxTypes
<1> QED BY <1>2, KeptRowsKeep

\* A reservation; that of the exit finds the approval mined.
LEMMA ReserveKeeps ==
    ASSUME RoundTripInv, NEW p \in Process, NEW a \in Action, rows[a] = Absent,
           a = "exit" => tx["approval"] = "success",
           rows' = [rows EXCEPT ![a] = Reserved], Execute(p, a),
           UNCHANGED <<network, failures>>, WalletTypes'
    PROVE  RoundTripInv' /\ Effect
<1>0. TxInv(Action, Steps) /\ TxTypes(Action, Steps) /\ "recheck" \in Steps
  BY DEF RoundTripInv, TxInv, Steps
<1>1. TxInv(Action, Steps)'
  BY <1>0, ExecuteKeeps
<1>2. rows'[a] = Reserved /\ \A b \in Action : b # a => rows'[b] = rows[b]
  BY <1>0 DEF TxTypes
<1>3. NoneSkipped'
  BY <1>2 DEF RoundTripInv, NoneSkipped, Reserved
<1>4. ExitFollowsApproval'
  BY <1>2 DEF RoundTripInv, ExitFollowsApproval, Action
<1>5. ExitReady'
  BY <1>0 DEF RoundTripInv, ExitReady, Execute, TxTypes
<1>6. ReservesOne
  BY DEF ReservesOne
<1> QED BY <1>1, <1>3, <1>4, <1>5, <1>6 DEF RoundTripInv, Effect

LEMMA WalletUntouched ==
    ASSUME RoundTripInv, UNCHANGED <<bought, allowance, tokens, weth, before, noted>>
    PROVE  WalletTypes'
  BY DEF RoundTripInv, WalletTypes

------------------------------------------------------------------------------
(* The actions of the round trip.                                          *)

LEMMA TakeUpsKeep ==
    ASSUME RoundTripInv, NEW p \in Process, TakeUpApproval(p) \/ TakeUpExit(p)
    PROVE  RoundTripInv' /\ Effect
<1>1. PICK a \in Action : IsOpen(a) /\ Reconcile(p, a, "reconcile")
  BY DEF TakeUpApproval, TakeUpExit, Action
<1>2. "reconcile" \in Modes /\ {"receipt", "halt"} \subseteq Steps
  BY DEF Modes, Steps
<1>3. UNCHANGED <<rows, network, failures>> /\ failures' \in Nat /\ WalletTypes'
  BY WalletUntouched DEF TakeUpApproval, TakeUpExit, RoundTripInv, TxInv, TxTypes
<1>4. TxInv(Action, Steps)'
  BY <1>1, <1>2, <1>3, ReconcileKeeps DEF RoundTripInv
<1> QED BY <1>1, <1>2, <1>3, <1>4, NothingOfSlots, InHandKeeps

\* The steps between the rows: quotes, preflights, and giving up.
LEMMA BetweenKeeps ==
    ASSUME RoundTripInv, NEW p \in Process,
           \/ BeginApproval(p) \/ AskQuote(p) \/ Quote(p) \/ BeginExit(p)
           \/ Blocked(p) \/ GiveUp(p) \/ PreflightApproval(p)
    PROVE  RoundTripInv' /\ Effect
<1>1. UNCHANGED <<rows, network, failures>> /\ WalletTypes'
  BY WalletUntouched
  DEF BeginApproval, AskQuote, Quote, BeginExit, Blocked, GiveUp, PreflightApproval
<1>2. ASSUME BeginExit(p) PROVE tx["approval"] = "success"
  BY <1>2 DEF BeginExit, ExitMissing, ApprovalIncluded, RoundTripInv, TxInv, RowsAreTrue, Action
<1>3. \/ End(p)
      \/ \E step \in {"approvalPreflight", "quote", "quoted", "approvalReserve"} : Goto(p, step)
      \/ Goto(p, "exitPreflight") /\ tx["approval"] = "success"
  BY <1>2 DEF BeginApproval, AskQuote, Quote, BeginExit, Blocked, GiveUp, PreflightApproval
<1>4. {"approvalPreflight", "quote", "quoted", "approvalReserve", "exitPreflight"}
          \subseteq Steps \ TxSteps
  BY DEF Steps, TxSteps
<1> QED BY <1>1, <1>3, <1>4, QuietKeeps

LEMMA PreflightExitKeeps ==
    ASSUME RoundTripInv, NEW p \in Process, PreflightExit(p)
    PROVE  RoundTripInv' /\ Effect
<1>1. WalletTypes' /\ UNCHANGED <<rows, network, failures>>
  BY DEF PreflightExit, RoundTripInv, WalletTypes
<1>2. tx["approval"] = "success"
  BY DEF PreflightExit, At, RoundTripInv, ExitReady
<1>3. "exitReserve" \in Steps \ TxSteps /\ Goto(p, "exitReserve")
  BY DEF Steps, TxSteps, PreflightExit
<1> QED BY <1>1, <1>2, <1>3, QuietKeeps

LEMMA ReserveApprovalKeeps ==
    ASSUME RoundTripInv, NEW p \in Process, ReserveApproval(p)
    PROVE  RoundTripInv' /\ Effect
<1>1. UNCHANGED <<network, failures>> /\ WalletTypes'
  BY WalletUntouched DEF ReserveApproval
<1>2. CASE bought /\ rows["approval"] = Absent
  BY <1>1, <1>2, ReserveKeeps DEF ReserveApproval, Action
<1>3. CASE ~(bought /\ rows["approval"] = Absent)
  BY <1>1, <1>3, QuietKeeps DEF ReserveApproval
<1> QED BY <1>2, <1>3

LEMMA ReserveExitKeeps ==
    ASSUME RoundTripInv, NEW p \in Process, ReserveExit(p)
    PROVE  RoundTripInv' /\ Effect
<1>1. UNCHANGED <<network, failures>> /\ WalletTypes'
  BY DEF ReserveExit, RoundTripInv, WalletTypes
<1>2. tx["approval"] = "success"
  BY DEF ReserveExit, At, RoundTripInv, ExitReady
<1>3. CASE bought /\ rows["exit"] = Absent
  BY <1>1, <1>2, <1>3, ReserveKeeps DEF ReserveExit, Action
<1>4. CASE ~(bought /\ rows["exit"] = Absent)
  BY <1>1, <1>4, QuietKeeps DEF ReserveExit
<1> QED BY <1>3, <1>4

LEMMA TransactKeeps ==
    ASSUME RoundTripInv, NEW p \in Process,
           Recheck(p) \/ Transact(p) \/ Include(p) \/ ProcessFails(p)
    PROVE  RoundTripInv' /\ Effect
<1>0. TxInv(Action, Steps) /\ TxTypes(Action, Steps) /\ failures \in Nat
  BY DEF RoundTripInv, TxInv, TxTypes
<1>1. WalletTypes'
  BY WalletUntouched DEF Recheck, Transact, Include, ProcessFails
<1>2. TxInv(Action, Steps)' /\ SlotStep(Action) /\ RowsKept(Action)
  <2>1. CASE Recheck(p)
    <3>1. local[p].pc = "recheck" /\ UNCHANGED <<rows, network>> /\ failures' \in Nat
      BY <1>0, <2>1 DEF Recheck, At
    <3>2. "recheck" \in TxSteps /\ {"sign", "idle", "halt"} \subseteq Steps /\ "sign" \notin StoredSteps
      BY DEF TxSteps, Steps, StoredSteps
    <3>3. CASE Goto(p, "sign")
      BY <1>0, <3>1, <3>2, <3>3, StepKeeps, NothingOfSlots
    <3>4. CASE End(p) \/ Goto(p, "halt")
      BY <1>0, <3>1, <3>2, <3>4, LeaveKeeps, NothingOfSlots
    <3> QED BY <2>1, <3>3, <3>4 DEF Recheck, SigningThrew
  <2>2. CASE Transact(p)
    BY <1>0, <2>2, TransactionKeeps, StepNames DEF Transact
  <2>3. CASE ProcessFails(p)
    BY <1>0, <2>3, FailureKeeps, StepNames DEF ProcessFails
  <2>4. CASE Include(p)
    <3>1. /\ local' = [local EXCEPT ![p] = Idle] /\ Idle.pc \notin TxSteps
          /\ Idle \in LocalsOver(Action, Steps) /\ MarkIncluded(p)
      BY <2>4, IdleTyped, StepNames DEF Include, End, Idle
    <3> QED BY <1>0, <3>1, IncludeKeeps
  <2> QED BY <2>1, <2>2, <2>3, <2>4
<1>3. End(p) \/ \E step \in TxSteps : Goto(p, step)
  BY DEF Recheck, SigningThrew, Transact, TransactionStep, Sign, Broadcast, Submit,
         ReadReceipt, Observe, MarkReverted, Halt, HaltUpdate, Include, ProcessFails,
         TransactionFails, SignFails, BroadcastFails, ReadFails, Crash, Throw, TxSteps
<1> QED BY <1>1, <1>2, <1>3, InHandKeeps

LEMMA AdvanceKeeps ==
    ASSUME RoundTripInv, NEW p \in Process, Advance(p)
    PROVE  RoundTripInv' /\ Effect
  BY TakeUpsKeep, BetweenKeeps, PreflightExitKeeps, ReserveApprovalKeeps, ReserveExitKeeps,
     TransactKeeps
  DEF Advance

\* The world around: nobody's locals change, and rows only through the network.
LEMMA AroundKeeps ==
    ASSUME RoundTripInv, UNCHANGED <<rows, tx, sent, local, failures>>, WalletTypes'
    PROVE  RoundTripInv' /\ Effect
<1>1. TxInv(Action, Steps)'
  BY DEF RoundTripInv, TxInv, TxTypes, InHand, StoredFirst, OneSender, ReceiptInMind,
         RowsAreTrue, Taken, At
<1>2. \A p \in Process : local'[p].pc \in {"exitPreflight", "exitReserve"} =>
          tx["approval"] = "success"
  BY DEF RoundTripInv, ExitReady
<1> QED BY <1>1, <1>2, NothingOfSlots, KeptRowsKeep

LEMMA EnvironmentKeeps ==
    ASSUME RoundTripInv, Environment
    PROVE  RoundTripInv' /\ Effect
<1> USE RoundTripAssumption DEF RoundTripAssumption
<1>1. ASSUME NEW a \in Action, MineTx(a)
      PROVE  RoundTripInv' /\ Effect
  <2>1. tx[a] = "pending" /\ UNCHANGED <<rows, sent, local, failures, bought, before, noted>>
    BY <1>1 DEF MineTx
  <2>2. PICK r \in Receipts : tx' = [tx EXCEPT ![a] = r]
    BY <1>1 DEF MineTx, Receipts
  <2>3. TxInv(Action, Steps)' /\ TxTypes(Action, Steps)
    BY <2>1, <2>2, MiningKeeps DEF RoundTripInv, TxInv
  <2>4. SlotStep(Action) /\ RowsKept(Action)
    BY <2>1, <2>2, <2>3 DEF SlotStep, SlotsUnchanged, RowsKept, Taken, TxTypes
  <2>5. WalletTypes'
    <3>1. AfterSwap \subseteq {"zero", "exact", "other"}
      BY DEF AfterSwap
    <3>2. /\ UNCHANGED <<bought, before, noted>> /\ tokens' \in {tokens, FALSE}
          /\ allowance' \in {allowance, "exact"} \cup AfterSwap
          /\ weth' = weth \/ (weth < MaxWeth /\ weth' = weth + 1)
      BY <1>1, <2>1 DEF MineTx
    <3>3. allowance' \in {"zero", "exact", "other"} /\ tokens' \in BOOLEAN
      BY <3>1, <3>2 DEF RoundTripInv, WalletTypes
    <3>4. weth' \in 0..MaxWeth
      BY <3>2 DEF RoundTripInv, WalletTypes
    <3> QED BY <3>2, <3>3, <3>4 DEF RoundTripInv, WalletTypes
  <2>6. \A p \in Process : local'[p].pc \in {"exitPreflight", "exitReserve"} =>
            tx["approval"] = "success"
    BY <2>1 DEF RoundTripInv, ExitReady
  <2> QED BY <2>3, <2>4, <2>5, <2>6, KeptRowsKeep
<1>2. CASE BuyRecorded
  BY <1>2, AroundKeeps DEF BuyRecorded, RoundTripInv, WalletTypes
<1>3. CASE OwnerMoves
  <2>1. UNCHANGED <<rows, tx, sent, local, failures, bought, before, noted>>
    BY <1>3 DEF OwnerMoves
  <2>2. WalletTypes'
    BY <1>3, <2>1 DEF OwnerMoves, RoundTripInv, WalletTypes
  <2> QED BY <2>1, <2>2, AroundKeeps
<1> QED BY <1>1, <1>2, <1>3 DEF Environment

LEMMA InitEstablishes == ASSUME Init PROVE RoundTripInv
<1>0. PICK running \in SUBSET Process : local = [p \in Process |-> IF p \in running THEN Idle ELSE Away]
  BY DEF Init
<1>1. TxTypes(Action, Steps)
  <2>1. Idle \in LocalsOver(Action, Steps)
    BY IdleTyped, StepNames
  <2>2. Away \in LocalsOver(Action, Steps)
    <3>1. "away" \in Steps
      BY DEF Steps
    <3> QED BY <2>1, <3>1 DEF Away, LocalsOver
  <2>3. local \in [Process -> LocalsOver(Action, Steps)]
    BY <1>0, <2>1, <2>2
  <2> QED BY <2>3 DEF Init, TxTypes, Row, Absent, TxStates
<1>2. \A p \in Process : local[p].pc \in {"idle", "away"}
  BY <1>0 DEF Idle, Away
<1>3. InHand(Action) /\ OneSender /\ ReceiptInMind /\ ExitReady
  BY <1>2 DEF InHand, OneSender, ReceiptInMind, ExitReady, At, TxSteps, StoredSteps
<1>4. StoredFirst(Action) /\ RowsAreTrue(Action) /\ NoneSkipped /\ ExitFollowsApproval
  BY DEF Init, StoredFirst, RowsAreTrue, NoneSkipped, ExitFollowsApproval, Absent, Action
<1>5. WalletTypes
  <2>1. 0 \in 0..MaxWeth
    BY RoundTripAssumption DEF RoundTripAssumption
  <2>2. bought = FALSE /\ allowance = "zero" /\ tokens = TRUE /\ weth = 0 /\ before = 0
        /\ noted = [p \in Process |-> 0]
    BY DEF Init
  <2> QED BY <2>1, <2>2 DEF WalletTypes
<1> QED BY <1>1, <1>3, <1>4, <1>5 DEF RoundTripInv, TxInv

LEMMA NextKeeps == ASSUME RoundTripInv, [Next]_vars PROVE RoundTripInv' /\ Effect
<1>1. CASE UNCHANGED vars
  BY <1>1, AroundKeeps, WalletUntouched
<1>2. ASSUME NEW p \in Process, Advance(p) \/ NothingToDo(p) \/ ProcessFails(p)
      PROVE  RoundTripInv' /\ Effect
  BY <1>1, <1>2, AdvanceKeeps, TransactKeeps DEF NothingToDo
<1> QED BY <1>1, <1>2, EnvironmentKeeps DEF Next

------------------------------------------------------------------------------
(* The theorems.                                                           *)

\* The invariant holds throughout.
THEOREM RoundTripInvariant == Spec => []RoundTripInv
<1>1. Init => RoundTripInv
  BY InitEstablishes
<1>2. RoundTripInv /\ [Next]_vars => RoundTripInv'
  BY NextKeeps
<1> QED BY <1>1, <1>2, PTL DEF Spec

\* Every state of the round trip is well typed.
THEOREM TypeCorrect == Spec => []TypeOK
<1>1. RoundTripInv => TypeOK
  BY DEF RoundTripInv, TxInv, TxTypes, WalletTypes, TypeOK, LocalsOver
<1> QED BY <1>1, RoundTripInvariant, PTL

\* The rows of the exit approval and of the exit (exitStore.ts, approvalStore.ts)
\* say what the chain did, whatever balances the owner brings about.
THEOREM RecordsTrue == Spec => []RecordsAreTrue
<1>1. RoundTripInv => RecordsAreTrue
  BY DEF RoundTripInv, TxInv, RowsAreTrue, RecordsAreTrue
<1> QED BY <1>1, RoundTripInvariant, PTL

\* No exit is reserved before the approval it spends was mined.
THEOREM ExitIsLast == Spec => []ExitFollowsApproval
<1>1. RoundTripInv => ExitFollowsApproval
  BY DEF RoundTripInv
<1> QED BY <1>1, RoundTripInvariant, PTL

------------------------------------------------------------------------------
(* Each of the two tables implements a one-shot slot.                      *)

\* The four things that can happen to the slot of a.
SlotMoves(a) ==
    \/ /\ Holder(a)' = Holder(a) /\ rows'[a].signed = rows[a].signed /\ sent'[a] = sent[a]
    \/ /\ Holder(a) = "none" /\ Holder(a)' = a
       /\ rows'[a].signed = rows[a].signed /\ sent'[a] = sent[a]
    \/ /\ Holder(a) = a /\ Holder(a)' = a
       /\ ~rows[a].signed /\ rows'[a].signed = TRUE /\ sent'[a] = sent[a]
    \/ /\ Holder(a) = a /\ Holder(a)' = a
       /\ rows[a].signed /\ rows'[a].signed = rows[a].signed
       /\ sent[a] = 0 /\ sent'[a] = 1

LEMMA SlotsMove ==
    ASSUME RoundTripInv, RoundTripInv', Effect, NEW a \in Action
    PROVE  SlotMoves(a)
<1>0. TxTypes(Action, Steps) /\ a # "none"
  BY DEF RoundTripInv, TxInv, Action
<1>1. (Taken(a) <=> rows[a] # Absent) /\ (Taken(a)' <=> rows'[a] # Absent)
  BY TakenOrAbsent DEF RoundTripInv, TxInv, TxTypes, NoneSkipped, Taken
<1>2. CASE SlotsUnchanged(Action)
  BY <1>1, <1>2 DEF SlotsUnchanged, SlotMoves, Holder
<1>3. CASE StoresOne(Action)
  <2>1. PICK b \in Action :
           /\ rows[b].state = "RESERVED" /\ ~rows[b].signed
           /\ rows' = [rows EXCEPT ![b] = Signed]
           /\ sent' = sent
    BY <1>3 DEF StoresOne
  <2>2. CASE a # b
    BY <1>0, <2>1, <2>2 DEF TxTypes, SlotMoves, Holder
  <2>3. CASE a = b
    <3>1. rows'[a].signed = TRUE /\ rows[a] # Absent /\ rows'[a] # Absent
      BY <1>0, <2>1, <2>3 DEF TxTypes, Signed, Absent
    <3> QED BY <2>1, <2>3, <3>1 DEF SlotMoves, Holder
  <2> QED BY <2>2, <2>3
<1>4. CASE SendsOne(Action)
  <2>1. PICK b \in Action :
           /\ rows[b].signed /\ sent[b] = 0
           /\ rows' = rows
           /\ sent' = [sent EXCEPT ![b] = 1]
    BY <1>4 DEF SendsOne
  <2>2. CASE a # b
    BY <1>0, <2>1, <2>2 DEF TxTypes, SlotMoves, Holder
  <2>3. CASE a = b
    <3>1. rows[a] # Absent
      BY <2>1, <2>3 DEF Absent
    <3> QED BY <1>0, <2>1, <2>3, <3>1 DEF TxTypes, SlotMoves, Holder
  <2> QED BY <2>2, <2>3
<1>5. CASE ReservesOne
  <2>1. PICK b \in Action :
           /\ rows[b] = Absent
           /\ rows' = [rows EXCEPT ![b] = Reserved]
           /\ sent' = sent
    BY <1>5 DEF ReservesOne
  <2>2. CASE a # b
    BY <1>0, <2>1, <2>2 DEF TxTypes, SlotMoves, Holder
  <2>3. CASE a = b
    <3>1. rows'[a] = Reserved
      BY <1>0, <2>1, <2>3 DEF TxTypes
    <3>2. Reserved # Absent /\ Reserved.signed = Absent.signed
      BY DEF Reserved, Absent
    <3> QED BY <2>1, <2>3, <3>1, <3>2 DEF SlotMoves, Holder
  <2> QED BY <2>2, <2>3
<1> QED BY <1>2, <1>3, <1>4, <1>5 DEF Effect, SlotStep

LEMMA SlotsStep ==
    ASSUME RoundTripInv, RoundTripInv', Effect
    PROVE  /\ [ApprovalSlot!Next]_(ApprovalSlot!vars)
           /\ [ExitSlot!Next]_(ExitSlot!vars)
<1>1. [ApprovalSlot!Next]_(ApprovalSlot!vars)
  <2>1. SlotMoves("approval")
    BY SlotsMove DEF Action
  <2> QED BY <2>1 DEF SlotMoves, ApprovalSlot!Next, ApprovalSlot!vars, ApprovalSlot!Reserve,
                      ApprovalSlot!Sign, ApprovalSlot!Send
<1>2. [ExitSlot!Next]_(ExitSlot!vars)
  <2>1. SlotMoves("exit")
    BY SlotsMove DEF Action
  <2> QED BY <2>1 DEF SlotMoves, ExitSlot!Next, ExitSlot!vars, ExitSlot!Reserve,
                      ExitSlot!Sign, ExitSlot!Send
<1> QED BY <1>1, <1>2

LEMMA SlotsBeginFree == ASSUME Init PROVE ApprovalSlot!Init /\ ExitSlot!Init
  BY DEF Init, Absent, Holder, Action, ApprovalSlot!Init, ExitSlot!Init

\* The exit approval and the exit are each reserved once, stored as signed before
\* they are sent, and sent once: the acquired tokens are not sold twice.
THEOREM EachIsOneShot == Spec => OneOfEach
<1>1. Init => ApprovalSlot!Init /\ ExitSlot!Init
  BY SlotsBeginFree
<1>2. RoundTripInv /\ RoundTripInv' /\ [Next]_vars =>
         /\ [ApprovalSlot!Next]_(ApprovalSlot!vars)
         /\ [ExitSlot!Next]_(ExitSlot!vars)
  BY NextKeeps, SlotsStep
<1> QED BY <1>1, <1>2, RoundTripInvariant, PTL
        DEF Spec, OneOfEach, ApprovalSlot!Spec, ExitSlot!Spec
==============================================================================
