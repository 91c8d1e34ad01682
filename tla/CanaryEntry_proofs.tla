-------------------------- MODULE CanaryEntry_proofs --------------------------
(***************************************************************************)
(* Theorems about the canary cycle, for every number of processes,         *)
(* candidates and failures, whatever the owner and the ledger do; the last *)
(* section is about one process whose allowance the owner leaves alone.    *)
(***************************************************************************)
EXTENDS CanaryEntry, CanaryTx_proofs

\* The steps at which the cycle has settled on a candidate.
ChosenSteps == {"quote", "entryPreflight", "entryReserve", "liveAllowance",
                "buyPreflight", "buyReserve"}

CycleTypes ==
    /\ withApproval \in Deployments
    /\ parent \in Candidate \cup {NoCandidate}
    /\ baseline \in [Candidate -> {"fresh", "expired", "missing"}]
    /\ allowance \in {"zero", "exact", "other"}
    /\ choice \in [Process -> Choice]

CandidateChosen == \A p \in Process : local[p].pc \in ChosenSteps => choice[p].cand \in Candidate

ParentKnown == rows["entry"] # Absent => parent \in Candidate

\* Among the buys one row at most was ever reserved; a SKIPPED one never was.
OneBuyTaken ==
    /\ \A c \in Candidate : rows[c].state = "SKIPPED" => ~rows[c].signed
    /\ \A c, d \in Candidate : Taken(c) /\ Taken(d) => c = d

\* An approval is only closed after it was mined.
ClosedWasMined == rows["entry"].state = "SKIPPED" => tx["entry"] = "success"

EntryInv ==
    /\ TxInv(Action, Steps)
    /\ CycleTypes
    /\ CandidateChosen
    /\ ParentKnown
    /\ OneBuyTaken
    /\ ClosedWasMined

\* A reservation: of a free slot only.
ReservesOne ==
    \E a \in Action : /\ rows[a] = Absent
                      /\ a \in Candidate => CommittedBuys = {}
                      /\ rows' = [rows EXCEPT ![a] = Reserved]
                      /\ sent' = sent

\* What a step may do to the rows and to the network.
Effect == (SlotStep(Action) \/ ReservesOne) /\ StaysParked

\* Process p goes on to l with choice ch, and only the world around it may change.
MovesTo(p, l, ch) ==
    /\ local' = [local EXCEPT ![p] = l]
    /\ choice' = [choice EXCEPT ![p] = ch]
    /\ l.pc \in ChosenSteps => ch.cand \in Candidate
    /\ UNCHANGED <<withApproval, parent, baseline, allowance, network, failures>>

USE DEF tables, around, aside, network, vars

------------------------------------------------------------------------------
LEMMA StepNames ==
    /\ TxSteps \cup {"idle"} \subseteq Steps
    /\ TxSteps \cap ChosenSteps = {}
    /\ ChosenSteps \subseteq Steps
    /\ "idle" \notin TxSteps \cup ChosenSteps
  BY DEF TxSteps, Steps, ChosenSteps

LEMMA RowsKeptParks ==
    ASSUME NEW A, A = Action, RowsKept(A)
    PROVE  StaysParked
  BY DEF RowsKept, StaysParked

\* A step that keeps the rows keeps what the cycle knows of them.
LEMMA RowsKeptKeeps ==
    ASSUME EntryInv, RowsKept(Action), UNCHANGED parent
    PROVE  ParentKnown' /\ OneBuyTaken' /\ ClosedWasMined'
<1>1. {"entry", "revoke"} \subseteq Action /\ Candidate \subseteq Action
  BY DEF Action
<1>2. ParentKnown'
  BY <1>1 DEF EntryInv, ParentKnown, RowsKept, Taken, Absent
<1>3. \A c \in Candidate : Taken(c)' => Taken(c)
  BY <1>1 DEF RowsKept, Taken
<1>4. \A c \in Candidate : rows'[c].state = "SKIPPED" => ~rows'[c].signed
  <2> SUFFICES ASSUME NEW c \in Candidate, rows'[c].state = "SKIPPED"
               PROVE  ~rows'[c].signed
    OBVIOUS
  <2>1. CASE Taken(c)
    <3>1. rows[c].state = "SKIPPED"
      BY <1>1, <2>1 DEF RowsKept
    <3> QED BY <2>1, <3>1 DEF EntryInv, OneBuyTaken, Taken
  <2>2. CASE ~Taken(c)
    BY <1>1, <2>2 DEF RowsKept, Taken
  <2> QED BY <2>1, <2>2
<1>5. \A c, d \in Candidate : Taken(c)' /\ Taken(d)' => c = d
  BY <1>3 DEF EntryInv, OneBuyTaken
<1>6. OneBuyTaken'
  BY <1>4, <1>5 DEF OneBuyTaken
<1>7. ClosedWasMined'
  <2> SUFFICES ASSUME rows'["entry"].state = "SKIPPED" PROVE tx'["entry"] = "success"
    BY DEF ClosedWasMined
  <2>1. rows["entry"].state = "SKIPPED"
    BY <1>1 DEF RowsKept
  <2> QED BY <1>1, <2>1 DEF EntryInv, ClosedWasMined, RowsKept
<1> QED BY <1>2, <1>6, <1>7

\* A process moves on without an action in hand, and no row changes.
LEMMA QuietKeeps ==
    ASSUME EntryInv, NEW p \in Process,
           NEW l \in LocalsOver(Action, Steps), l.pc \notin TxSteps,
           NEW ch \in Choice, MovesTo(p, l, ch), UNCHANGED rows
    PROVE  EntryInv' /\ Effect
<1>1. TxInv(Action, Steps)'
  BY MoveKeeps DEF MovesTo, EntryInv, TxInv, TxTypes
<1>2. CycleTypes'
  BY DEF MovesTo, EntryInv, CycleTypes
<1>3. CandidateChosen'
  BY DEF MovesTo, EntryInv, CandidateChosen, CycleTypes, TxInv, TxTypes
<1>4. SlotStep(Action) /\ RowsKept(Action)
  BY NothingOfSlots DEF MovesTo
<1>5. ParentKnown' /\ OneBuyTaken' /\ ClosedWasMined'
  BY <1>4, RowsKeptKeeps DEF MovesTo
<1> QED BY <1>1, <1>2, <1>3, <1>4, <1>5, RowsKeptParks DEF EntryInv, Effect

\* ... the same, with the step by its name.
LEMMA GotoKeeps ==
    ASSUME EntryInv, NEW p \in Process, NEW step \in Steps \ TxSteps, Goto(p, step),
           step \in ChosenSteps => choice[p].cand \in Candidate,
           UNCHANGED <<rows, parent, choice, around>>
    PROVE  EntryInv' /\ Effect
<1> DEFINE l == [local[p] EXCEPT !.pc = step]
<1>1. l \in LocalsOver(Action, Steps) /\ l.pc = step
  BY DEF EntryInv, TxInv, TxTypes, LocalsOver
<1>2. local' = [local EXCEPT ![p] = l]
  BY DEF Goto
<1>3. choice[p] \in Choice /\ choice' = [choice EXCEPT ![p] = choice[p]]
  BY DEF EntryInv, CycleTypes
<1> HIDE DEF l
<1>4. MovesTo(p, l, choice[p])
  BY <1>1, <1>2, <1>3 DEF MovesTo
<1> QED BY <1>1, <1>3, <1>4, QuietKeeps

\* ... the same, for a process that leaves the cycle.
LEMMA EndKeeps ==
    ASSUME EntryInv, NEW p \in Process, End(p), Forget(p) \/ UNCHANGED choice,
           UNCHANGED <<rows, parent, around>>
    PROVE  EntryInv' /\ Effect
<1>1. Idle \in LocalsOver(Action, Steps) /\ Idle.pc = "idle"
  BY IdleTyped, StepNames DEF Idle
<1>2. local' = [local EXCEPT ![p] = Idle]
  BY DEF End
<1>3. PICK ch \in Choice : choice' = [choice EXCEPT ![p] = ch]
  <2>1. CASE Forget(p)
    <3>1. [cand |-> NoCandidate, todo |-> {}] \in Choice
      BY DEF Choice
    <3> QED BY <2>1, <3>1 DEF Forget, Choose
  <2>2. CASE UNCHANGED choice
    BY <2>2 DEF EntryInv, CycleTypes
  <2> QED BY <2>1, <2>2
<1>4. MovesTo(p, Idle, ch)
  BY <1>1, <1>2, <1>3, StepNames DEF MovesTo
<1> QED BY <1>1, <1>3, <1>4, QuietKeeps, StepNames

\* A step of CanaryTx, or of the chain: the cycle keeps its choice.
LEMMA TxStepKeeps ==
    ASSUME EntryInv, TxInv(Action, Steps)', SlotStep(Action), RowsKept(Action),
           UNCHANGED parent, CycleTypes',
           \A p \in Process : local'[p].pc \in ChosenSteps =>
               local'[p].pc = local[p].pc /\ choice'[p] = choice[p]
    PROVE  EntryInv' /\ Effect
<1>1. CandidateChosen'
  BY DEF EntryInv, CandidateChosen
<1> QED BY <1>1, RowsKeptKeeps, RowsKeptParks DEF EntryInv, Effect

\* Process p goes to a step that is not one of the chosen ones.
LEMMA OthersKeepChoice ==
    ASSUME EntryInv, NEW p \in Process, NEW l, l.pc \notin ChosenSteps,
           local' = [local EXCEPT ![p] = l],
           NEW ch, UNCHANGED choice \/ choice' = [choice EXCEPT ![p] = ch]
    PROVE  \A q \in Process : local'[q].pc \in ChosenSteps =>
               local'[q].pc = local[q].pc /\ choice'[q] = choice[q]
  BY DEF EntryInv, TxInv, TxTypes, CycleTypes

LEMMA ForgetKeepsTypes ==
    ASSUME EntryInv, NEW p \in Process, Forget(p) \/ UNCHANGED choice,
           UNCHANGED <<withApproval, parent, baseline, allowance>>
    PROVE  CycleTypes'
  BY DEF EntryInv, CycleTypes, Forget, Choose, Choice

\* An open row is taken up again.
LEMMA TakeUpKeeps ==
    ASSUME EntryInv, NEW p \in Process, NEW a \in Action, NEW how \in Modes,
           IsOpen(a), Reconcile(p, a, how), Forget(p) \/ UNCHANGED choice,
           UNCHANGED <<rows, parent, around>>
    PROVE  EntryInv' /\ Effect
<1> DEFINE l == [pc |-> IF rows[a].signed THEN "receipt" ELSE "halt", act |-> a, mode |-> how]
<1>1. local' = [local EXCEPT ![p] = l] /\ l.pc \notin ChosenSteps
  BY DEF Reconcile, ChosenSteps
<1> HIDE DEF l
<1>2. TxInv(Action, Steps)'
  BY ReconcileKeeps, StepNames DEF EntryInv, TxInv, TxTypes, TxSteps
<1>3. SlotStep(Action) /\ RowsKept(Action)
  BY NothingOfSlots
<1>4. CycleTypes'
  BY ForgetKeepsTypes
<1>5. UNCHANGED choice \/ choice' = [choice EXCEPT ![p] = [cand |-> NoCandidate, todo |-> {}]]
  BY DEF Forget, Choose
<1> QED BY <1>1, <1>2, <1>3, <1>4, <1>5, OthersKeepChoice, TxStepKeeps

\* A SKIPPED row is inserted where there was none.
LEMMA SkipKeeps ==
    ASSUME EntryInv, NEW p \in Process, NEW c \in Candidate, InsertSkipped(c),
           NEW l \in LocalsOver(Action, Steps), l.pc \notin TxSteps,
           NEW ch \in Choice, MovesTo(p, l, ch)
    PROVE  EntryInv' /\ Effect
<1>1. CASE rows[c] # Absent
  <2>1. UNCHANGED rows
    BY <1>1 DEF InsertSkipped, EntryInv, TxInv, TxTypes
  <2> QED BY <2>1, QuietKeeps
<1>2. CASE rows[c] = Absent
  <2>1. rows' = [rows EXCEPT ![c] = Skipped] /\ c \in Action /\ c \notin {"entry", "revoke"}
    BY <1>2, CanaryAssumption DEF InsertSkipped, Action, CanaryAssumption
  <2>2. /\ \A a \in Action : a # c => rows'[a] = rows[a]
        /\ rows'[c] = Skipped /\ ~Taken(c) /\ ~Taken(c)'
    BY <1>2, <2>1 DEF EntryInv, TxInv, TxTypes, Taken, Absent, Skipped
  <2>3. /\ TxTypes(Action, Steps)
        /\ local' = [local EXCEPT ![p] = l] /\ UNCHANGED <<tx, sent, failures>>
    BY DEF EntryInv, TxInv, MovesTo
  <2>4. TxTypes(Action, Steps)'
    BY <2>1, <2>3 DEF TxTypes, Skipped, Row
  <2>5. InHand(Action)'
    <3> SUFFICES ASSUME NEW q \in Process, local'[q].pc \in TxSteps
                 PROVE  /\ local'[q].act \in Action /\ Taken(local[q].act)'
                        /\ local'[q].act = local[q].act
                        /\ local'[q].pc \in StoredSteps => rows'[local[q].act].signed
      BY DEF InHand, StoredSteps, TxSteps, Taken
    <3>1. local'[q] = local[q] /\ local[q].pc \in TxSteps
      BY <2>3 DEF TxTypes
    <3>2. local[q].act \in Action /\ Taken(local[q].act)
      BY <3>1 DEF EntryInv, TxInv, InHand
    <3>3. rows'[local[q].act] = rows[local[q].act]
      BY <2>2, <3>2
    <3> QED BY <3>1, <3>2, <3>3 DEF EntryInv, TxInv, InHand, Taken
  <2>6. OneSender' /\ ReceiptInMind'
    BY <2>3 DEF EntryInv, TxInv, OneSender, ReceiptInMind, At, TxTypes, TxSteps
  <2>7. StoredFirst(Action)' /\ RowsAreTrue(Action)'
    BY <1>2, <2>1, <2>2, <2>3
    DEF EntryInv, TxInv, StoredFirst, RowsAreTrue, Skipped, Absent
  <2>8. CycleTypes'
    BY DEF MovesTo, EntryInv, CycleTypes
  <2>9. CandidateChosen'
    BY <2>3 DEF MovesTo, EntryInv, CandidateChosen, CycleTypes, TxTypes
  <2>10. ParentKnown' /\ ClosedWasMined'
    BY <2>1, <2>2, <2>3 DEF EntryInv, ParentKnown, ClosedWasMined, MovesTo, Action
  <2>11. OneBuyTaken'
    BY <2>2 DEF EntryInv, OneBuyTaken, Skipped, Taken, Action
  <2>12. SlotStep(Action)
    <3>1. \A a \in Action : Taken(a)' <=> Taken(a)
      BY <2>2 DEF Taken
    <3>2. \A a \in Action : rows'[a].signed = rows[a].signed
      <4>1. rows'[c].signed = FALSE /\ rows[c].signed = FALSE
        BY <1>2, <2>2 DEF Skipped, Absent
      <4> QED BY <2>2, <4>1
    <3> QED BY <2>3, <3>1, <3>2 DEF SlotStep, SlotsUnchanged
  <2>13. StaysParked
    BY <1>2, <2>2, <2>3 DEF StaysParked, Absent
  <2> QED BY <2>4, <2>5, <2>6, <2>7, <2>8, <2>9, <2>10, <2>11, <2>12, <2>13
          DEF EntryInv, TxInv, Effect
<1> QED BY <1>1, <1>2

\* A reservation, which begins the execution of its action.
LEMMA ReserveKeeps ==
    ASSUME EntryInv, NEW p \in Process, NEW a \in Action, rows[a] = Absent,
           a \in Candidate => CommittedBuys = {},
           rows' = [rows EXCEPT ![a] = Reserved], Execute(p, a),
           Forget(p) \/ UNCHANGED choice,
           IF a = "entry" THEN parent' \in Candidate ELSE UNCHANGED parent,
           UNCHANGED around
    PROVE  EntryInv' /\ Effect
<1>0. "recheck" \in Steps /\ TxInv(Action, Steps) /\ TxTypes(Action, Steps)
  BY DEF Steps, EntryInv, TxInv
<1>1. TxInv(Action, Steps)'
  BY <1>0, ExecuteKeeps
<1>2. CycleTypes'
  BY DEF EntryInv, CycleTypes, Forget, Choose, Choice
<1>3. /\ \A b \in Action : b # a => rows'[b] = rows[b]
      /\ rows'[a] = Reserved /\ Taken(a)'
  BY <1>0 DEF TxTypes, Taken, Reserved
<1>4. CandidateChosen'
  <2> SUFFICES ASSUME NEW q \in Process, local'[q].pc \in ChosenSteps
               PROVE  choice'[q].cand \in Candidate
    BY DEF CandidateChosen
  <2>1. q # p /\ local'[q] = local[q]
    BY <1>0 DEF Execute, TxTypes, ChosenSteps
  <2>2. choice'[q] = choice[q]
    BY <2>1 DEF Forget, Choose, EntryInv, CycleTypes
  <2> QED BY <2>1, <2>2 DEF EntryInv, CandidateChosen
<1>5. ParentKnown' /\ ClosedWasMined'
  BY <1>3 DEF EntryInv, ParentKnown, ClosedWasMined, Reserved, Action
<1>6. OneBuyTaken'
  <2>1. CASE a \notin Candidate
    BY <1>3, <2>1 DEF EntryInv, OneBuyTaken, Taken, Action
  <2>2. CASE a \in Candidate
    <3>1. \A c \in Candidate : ~Taken(c)
      <4> SUFFICES ASSUME NEW c \in Candidate PROVE ~Taken(c)
        OBVIOUS
      <4>1. rows[c].state \in {"NONE", "SKIPPED"}
        BY <2>2 DEF CommittedBuys
      <4>2. rows[c] \in Row
        BY <1>0 DEF TxTypes, Action
      <4> QED BY <4>1, <4>2 DEF EntryInv, OneBuyTaken, Taken, Row
    <3>2. \A c \in Candidate : Taken(c)' => c = a
      BY <1>3, <3>1 DEF Taken, Action
    <3> QED BY <1>3, <3>2 DEF EntryInv, OneBuyTaken, Reserved, Action
  <2> QED BY <2>1, <2>2
<1>7. ReservesOne
  BY DEF ReservesOne
<1>8. StaysParked
  BY <1>3 DEF StaysParked, Absent
<1> QED BY <1>1, <1>2, <1>4, <1>5, <1>6, <1>7, <1>8 DEF EntryInv, Effect

------------------------------------------------------------------------------
(* The actions of the cycle.                                               *)

LEMMA TakeUpsKeep ==
    ASSUME EntryInv, NEW p \in Process,
           TakeUpBuy(p) \/ TakeUpRevoke(p) \/ TakeUpEntry(p)
    PROVE  EntryInv' /\ Effect
<1>0. Candidate \subseteq Action /\ {"entry", "revoke"} \subseteq Action /\ "reconcile" \in Modes
  BY DEF Action, Modes
<1>1. PICK a \in Action : IsOpen(a) /\ Reconcile(p, a, "reconcile")
  BY <1>0 DEF TakeUpBuy, TakeUpRevoke, TakeUpEntry, OpenBuys
<1>2. UNCHANGED choice /\ UNCHANGED <<rows, parent, around>>
  BY DEF TakeUpBuy, TakeUpRevoke, TakeUpEntry
<1> QED BY <1>0, <1>1, <1>2, TakeUpKeeps

\* A cycle that goes on without a row of its own.
LEMMA CycleStepsKeep ==
    ASSUME EntryInv, NEW p \in Process,
           \/ BeginCleanup(p) \/ BuyOnly(p) \/ PreflightEntry(p)
           \/ ReadLiveAllowance(p) \/ PreflightBuy(p)
    PROVE  EntryInv' /\ Effect
<1>1. UNCHANGED <<rows, parent, choice, around>>
  BY DEF BeginCleanup, BuyOnly, PreflightEntry, ReadLiveAllowance, PreflightBuy
<1>2. local[p].pc \in ChosenSteps => choice[p].cand \in Candidate
  BY DEF EntryInv, CandidateChosen
<1>3. CASE BeginCleanup(p)
  BY <1>1, <1>3, GotoKeeps DEF BeginCleanup, Steps, TxSteps, ChosenSteps
<1>4. CASE BuyOnly(p)
  BY <1>1, <1>2, <1>4, GotoKeeps DEF BuyOnly, At, Steps, TxSteps, ChosenSteps
<1>5. CASE PreflightEntry(p)
  BY <1>1, <1>2, <1>5, GotoKeeps DEF PreflightEntry, At, Steps, TxSteps, ChosenSteps
<1>6. CASE ReadLiveAllowance(p)
  BY <1>1, <1>2, <1>6, GotoKeeps DEF ReadLiveAllowance, At, Steps, TxSteps, ChosenSteps
<1>7. CASE PreflightBuy(p)
  BY <1>1, <1>2, <1>7, GotoKeeps DEF PreflightBuy, At, Steps, TxSteps, ChosenSteps
<1> QED BY <1>3, <1>4, <1>5, <1>6, <1>7

\* The steps of the cleanup, up to the reservation of the revoke.
LEMMA CleanupStepsKeep ==
    ASSUME EntryInv, NEW p \in Process,
           \/ Recover(p) \/ AdvanceRevoke(p) \/ ReadRevokeAllowance(p)
           \/ PreflightRevoke(p) \/ ReadPostAllowance(p)
    PROVE  EntryInv' /\ Effect
<1>1. UNCHANGED <<rows, parent, choice, around>>
  BY DEF Recover, AdvanceRevoke, ReadRevokeAllowance, PreflightRevoke, ReadPostAllowance
<1>2. \/ \E step \in {"cleanup", "revokeAllowance", "postAllowance", "terminal",
                      "revokePreflight", "revokeReserve"} : Goto(p, step)
      \/ End(p)
      \/ IsOpen("revoke") /\ Reconcile(p, "revoke", "advance")
  BY DEF Recover, AdvanceRevoke, ReadRevokeAllowance, PreflightRevoke, ReadPostAllowance
<1>3. CASE \E step \in {"cleanup", "revokeAllowance", "postAllowance", "terminal",
                        "revokePreflight", "revokeReserve"} : Goto(p, step)
  BY <1>1, <1>3, GotoKeeps DEF Steps, TxSteps, ChosenSteps
<1>4. CASE End(p)
  BY <1>1, <1>4, EndKeeps
<1>5. CASE IsOpen("revoke") /\ Reconcile(p, "revoke", "advance")
  BY <1>1, <1>5, TakeUpKeeps DEF Action, Modes
<1> QED BY <1>2, <1>3, <1>4, <1>5

\* The process goes to a step by its name and settles on a choice.
LEMMA ChooseKeeps ==
    ASSUME EntryInv, NEW p \in Process, NEW step \in Steps \ TxSteps, Goto(p, step),
           NEW cand \in Candidate \cup {NoCandidate}, NEW todo \in SUBSET Candidate,
           Choose(p, cand, todo), step \in ChosenSteps => cand \in Candidate,
           UNCHANGED <<rows, parent, around>>
    PROVE  EntryInv' /\ Effect
<1> DEFINE l == [local[p] EXCEPT !.pc = step]
           ch == [cand |-> cand, todo |-> todo]
<1>1. l \in LocalsOver(Action, Steps) /\ l.pc = step /\ local' = [local EXCEPT ![p] = l]
  BY DEF EntryInv, TxInv, TxTypes, LocalsOver, Goto
<1>2. ch \in Choice /\ ch.cand = cand /\ choice' = [choice EXCEPT ![p] = ch]
  BY DEF Choice, Choose
<1> HIDE DEF l, ch
<1>3. MovesTo(p, l, ch)
  BY <1>1, <1>2 DEF MovesTo
<1> QED BY <1>1, <1>2, <1>3, QuietKeeps

LEMMA BeginVetKeeps ==
    ASSUME EntryInv, NEW p \in Process, BeginVet(p)
    PROVE  EntryInv' /\ Effect
<1>1. Goto(p, "vet") /\ UNCHANGED <<rows, parent, around>>
  BY DEF BeginVet
<1>2. "vet" \in Steps \ TxSteps /\ "vet" \notin ChosenSteps
  BY DEF Steps, TxSteps, ChosenSteps
<1>3. CASE rows["entry"].state = "INCLUDED" /\ Choose(p, parent, {parent})
  <2>1. parent \in Candidate
    BY <1>3 DEF EntryInv, ParentKnown, Absent
  <2> QED BY <1>1, <1>2, <1>3, <2>1, ChooseKeeps
<1>4. CASE \E pending \in SUBSET Candidate : Choose(p, NoCandidate, pending)
  BY <1>1, <1>2, <1>4, ChooseKeeps
<1> QED BY <1>3, <1>4 DEF BeginVet

LEMMA PassKeeps ==
    ASSUME EntryInv, NEW p \in Process, PassCandidate(p)
    PROVE  EntryInv' /\ Effect
<1>1. Goto(p, "quote") /\ UNCHANGED <<rows, parent, around>>
  BY DEF PassCandidate
<1>2. PICK c \in choice[p].todo : Choose(p, c, {})
  BY DEF PassCandidate
<1>3. c \in Candidate
  BY <1>2 DEF EntryInv, CycleTypes, Choice
<1> QED BY <1>1, <1>2, <1>3, ChooseKeeps DEF Steps, TxSteps, ChosenSteps

\* The steps that insert a SKIPPED row.
LEMMA SkipsKeep ==
    ASSUME EntryInv, NEW p \in Process,
           ExpireParent(p) \/ SkipCandidate(p) \/ RejectParent(p)
    PROVE  EntryInv' /\ Effect
<1> DEFINE Cleanup == [local[p] EXCEPT !.pc = "cleanup"]
           Nobody == [cand |-> NoCandidate, todo |-> {}]
<1>0. /\ local[p] \in LocalsOver(Action, Steps)
      /\ choice[p] \in Choice
      /\ local = [local EXCEPT ![p] = local[p]]
      /\ choice = [choice EXCEPT ![p] = choice[p]]
  BY DEF EntryInv, TxInv, TxTypes, CycleTypes
<1>1. /\ Cleanup \in LocalsOver(Action, Steps)
      /\ Cleanup.pc \notin TxSteps /\ Cleanup.pc \notin ChosenSteps
  BY <1>0 DEF LocalsOver, Steps, TxSteps, ChosenSteps
<1>2. Nobody \in Choice
  BY DEF Choice
<1>3. CASE ExpireParent(p)
  <2>1. parent \in Candidate /\ InsertSkipped(parent)
    BY <1>3 DEF ExpireParent, EntryInv, ParentKnown, Absent
  <2>2. MovesTo(p, Cleanup, choice[p])
    BY <1>0, <1>1, <1>3 DEF ExpireParent, MovesTo, Goto
  <2> HIDE DEF Cleanup
  <2> QED BY <1>0, <1>1, <2>1, <2>2, SkipKeeps
<1>4. CASE RejectParent(p)
  <2>1. choice[p].cand \in Candidate /\ InsertSkipped(choice[p].cand)
    BY <1>0, <1>4 DEF RejectParent, Choice
  <2>2. MovesTo(p, Cleanup, Nobody)
    BY <1>1, <1>4 DEF RejectParent, MovesTo, Goto, Forget, Choose
  <2> HIDE DEF Cleanup, Nobody
  <2> QED BY <1>1, <1>2, <2>1, <2>2, SkipKeeps
<1>5. CASE SkipCandidate(p)
  <2>1. PICK c \in choice[p].todo :
           /\ InsertSkipped(c)
           /\ Choose(p, NoCandidate, choice[p].todo \ {c})
           /\ IF choice[p].todo = {c} THEN End(p) ELSE UNCHANGED local
    BY <1>5 DEF SkipCandidate
  <2> DEFINE Rest == [cand |-> NoCandidate, todo |-> choice[p].todo \ {c}]
  <2>2. c \in Candidate /\ Rest \in Choice
    BY <1>0, <2>1 DEF Choice
  <2>3. PICK l \in LocalsOver(Action, Steps) :
           /\ local' = [local EXCEPT ![p] = l]
           /\ l.pc \notin TxSteps /\ l.pc \notin ChosenSteps
    <3>1. CASE choice[p].todo = {c}
      BY <2>1, <3>1, IdleTyped, StepNames DEF End, Idle
    <3>2. CASE choice[p].todo # {c}
      <4>1. local' = [local EXCEPT ![p] = local[p]] /\ local[p].pc = "vet"
        BY <1>0, <1>5, <2>1, <3>2 DEF SkipCandidate, At
      <4> QED BY <1>0, <4>1 DEF TxSteps, ChosenSteps
    <3> QED BY <3>1, <3>2
  <2>4. MovesTo(p, l, Rest)
    BY <1>5, <2>1, <2>3 DEF SkipCandidate, MovesTo, Choose
  <2> HIDE DEF Rest
  <2> QED BY <2>1, <2>2, <2>3, <2>4, SkipKeeps
<1> QED BY <1>3, <1>4, <1>5

LEMMA AdvanceEntryKeeps ==
    ASSUME EntryInv, NEW p \in Process, AdvanceEntry(p)
    PROVE  EntryInv' /\ Effect
<1>1. UNCHANGED <<rows, parent, around>> /\ choice[p].cand \in Candidate
  BY DEF AdvanceEntry, At, EntryInv, CandidateChosen, ChosenSteps
<1>2. CASE (Goto(p, "entryPreflight") \/ Goto(p, "liveAllowance")) /\ UNCHANGED choice
  BY <1>1, <1>2, GotoKeeps DEF Steps, TxSteps
<1>3. CASE IsOpen("entry") /\ Reconcile(p, "entry", "advance") /\ Forget(p)
  BY <1>1, <1>3, TakeUpKeeps DEF Action, Modes
<1> QED BY <1>2, <1>3 DEF AdvanceEntry

\* The three reservations.
LEMMA ReservationsKeep ==
    ASSUME EntryInv, NEW p \in Process,
           ReserveEntry(p) \/ ReserveBuy(p) \/ ReserveRevoke(p)
    PROVE  EntryInv' /\ Effect
<1>0. {"entry", "revoke"} \cap Candidate = {}
  BY CanaryAssumption DEF CanaryAssumption
<1>1. CASE ReserveEntry(p)
  <2>1. choice[p].cand \in Candidate /\ UNCHANGED around /\ Forget(p)
    BY <1>1 DEF ReserveEntry, At, EntryInv, CandidateChosen, ChosenSteps
  <2>2. CASE rows["entry"] = Absent
    BY <1>0, <1>1, <2>1, <2>2, ReserveKeeps DEF ReserveEntry, Action
  <2>3. CASE rows["entry"] # Absent
    BY <1>1, <2>1, <2>3, EndKeeps DEF ReserveEntry
  <2> QED BY <2>2, <2>3
<1>2. CASE ReserveBuy(p)
  <2> DEFINE c == choice[p].cand
  <2>1. c \in Candidate /\ UNCHANGED <<parent, around>> /\ Forget(p)
    BY <1>2 DEF ReserveBuy, At, EntryInv, CandidateChosen, ChosenSteps
  <2>2. CASE rows[c] = Absent /\ CommittedBuys = {}
    <3>1. rows' = [rows EXCEPT ![c] = Reserved] /\ Execute(p, c)
      BY <1>2, <2>2 DEF ReserveBuy
    <3> QED BY <1>0, <2>1, <2>2, <3>1, ReserveKeeps DEF Action
  <2>3. CASE ~(rows[c] = Absent /\ CommittedBuys = {})
    BY <1>2, <2>1, <2>3, EndKeeps DEF ReserveBuy
  <2> QED BY <2>2, <2>3
<1>3. CASE ReserveRevoke(p)
  <2>1. UNCHANGED <<parent, choice, around>>
    BY <1>3 DEF ReserveRevoke
  <2>2. CASE rows["revoke"] = Absent
    BY <1>0, <1>3, <2>1, <2>2, ReserveKeeps DEF ReserveRevoke, Action
  <2>3. CASE rows["revoke"] # Absent
    BY <1>3, <2>1, <2>3, EndKeeps DEF ReserveRevoke
  <2> QED BY <2>2, <2>3
<1> QED BY <1>1, <1>2, <1>3

\* Recheck, the steps from signing to the receipt, and what can fail on the way.
LEMMA TransactKeeps ==
    ASSUME EntryInv, NEW p \in Process, Recheck(p) \/ Transact(p) \/ ProcessFails(p)
    PROVE  EntryInv' /\ Effect
<1>0. TxInv(Action, Steps) /\ TxTypes(Action, Steps) /\ failures \in Nat
  BY DEF EntryInv, TxInv, TxTypes
<1>1. CycleTypes'
  BY ForgetKeepsTypes DEF Recheck, Transact, ProcessFails, Stops
<1>2. UNCHANGED parent
  BY DEF Recheck, Transact, ProcessFails, Stops
<1>3. TxInv(Action, Steps)' /\ SlotStep(Action) /\ RowsKept(Action)
  <2>1. CASE Recheck(p)
    <3>1. /\ local[p].pc = "recheck" /\ UNCHANGED <<rows, network>>
          /\ failures' \in Nat
      BY <1>0, <2>1 DEF Recheck, At
    <3>0. "recheck" \in TxSteps /\ {"sign", "idle", "halt"} \subseteq Steps /\ "sign" \notin StoredSteps
      BY DEF TxSteps, Steps, StoredSteps
    <3>2. Goto(p, "sign") \/ End(p) \/ Goto(p, "halt")
      BY <2>1 DEF Recheck, SigningThrew
    <3>3. CASE Goto(p, "sign")
      BY <1>0, <3>0, <3>1, <3>3, StepKeeps, NothingOfSlots
    <3>4. CASE End(p) \/ Goto(p, "halt")
      BY <1>0, <3>0, <3>1, <3>4, LeaveKeeps, NothingOfSlots
    <3> QED BY <3>2, <3>3, <3>4
  <2>2. CASE Transact(p)
    BY <1>0, <2>2, TransactionKeeps, StepNames DEF Transact
  <2>3. CASE ProcessFails(p)
    BY <1>0, <2>3, FailureKeeps, StepNames DEF ProcessFails, Stops
  <2> QED BY <2>1, <2>2, <2>3
<1>4. PICK l : local' = [local EXCEPT ![p] = l] /\ l.pc \notin ChosenSteps
  <2>1. \/ End(p)
        \/ \E step \in TxSteps : Goto(p, step)
    BY DEF Recheck, SigningThrew, Transact, TransactionStep, Sign, Broadcast, Submit,
           ReadReceipt, Observe, MarkReverted, Halt, HaltUpdate, ProcessFails, Stops,
           TransactionFails, SignFails, BroadcastFails, ReadFails, Crash, Throw, TxSteps
  <2>2. CASE End(p)
    <3>1. local' = [local EXCEPT ![p] = Idle] /\ Idle.pc = "idle"
      BY <2>2 DEF End, Idle
    <3> QED BY <3>1, StepNames
  <2>3. ASSUME NEW step \in TxSteps, Goto(p, step)
        PROVE  \E m : local' = [local EXCEPT ![p] = m] /\ m.pc \notin ChosenSteps
    <3> DEFINE m == [local[p] EXCEPT !.pc = step]
    <3>1. local' = [local EXCEPT ![p] = m] /\ m.pc = step
      BY <1>0, <2>3 DEF Goto, TxTypes, LocalsOver
    <3>2. step \notin ChosenSteps
      BY StepNames
    <3> QED BY <3>1, <3>2
  <2> QED BY <2>1, <2>2, <2>3
<1>5. PICK ch : UNCHANGED choice \/ choice' = [choice EXCEPT ![p] = ch]
  BY DEF Recheck, Transact, ProcessFails, Stops, Forget, Choose
<1> QED BY <1>1, <1>2, <1>3, <1>4, <1>5, OthersKeepChoice, TxStepKeeps

LEMMA IncludeStepKeeps ==
    ASSUME EntryInv, NEW p \in Process, Include(p)
    PROVE  EntryInv' /\ Effect
<1>0. TxInv(Action, Steps) /\ TxTypes(Action, Steps)
  BY DEF EntryInv, TxInv
<1>1. PICK l \in LocalsOver(Action, Steps) :
         /\ local' = [local EXCEPT ![p] = l]
         /\ l.pc \notin TxSteps /\ l.pc \notin ChosenSteps
  <2>1. End(p) \/ Goto(p, "recover") \/ Goto(p, "terminal")
    BY DEF Include
  <2>2. CASE End(p)
    <3>1. /\ local' = [local EXCEPT ![p] = Idle] /\ Idle.pc = "idle"
          /\ Idle \in LocalsOver(Action, Steps)
      BY <2>2, IdleTyped, StepNames DEF End, Idle
    <3> QED BY <3>1, StepNames
  <2>3. ASSUME NEW step \in {"recover", "terminal"}, Goto(p, step)
        PROVE  \E m \in LocalsOver(Action, Steps) :
                  /\ local' = [local EXCEPT ![p] = m]
                  /\ m.pc \notin TxSteps /\ m.pc \notin ChosenSteps
    <3> DEFINE m == [local[p] EXCEPT !.pc = step]
    <3>1. m \in LocalsOver(Action, Steps) /\ m.pc = step /\ local' = [local EXCEPT ![p] = m]
      BY <1>0, <2>3 DEF Goto, TxTypes, LocalsOver, Steps
    <3> HIDE DEF m
    <3> QED BY <3>1 DEF TxSteps, ChosenSteps
  <2> QED BY <2>1, <2>2, <2>3
<1>2. TxInv(Action, Steps)' /\ SlotStep(Action) /\ RowsKept(Action)
  BY <1>0, <1>1, IncludeKeeps DEF Include
<1>3. CycleTypes' /\ UNCHANGED <<parent, choice>>
  BY ForgetKeepsTypes DEF Include
<1> QED BY <1>1, <1>2, <1>3, OthersKeepChoice, TxStepKeeps

\* The entry row is closed: it stays taken, and its transaction was a success.
LEMMA CloseEntryKeeps ==
    ASSUME EntryInv, NEW p \in Process, CloseEntry(p)
    PROVE  EntryInv' /\ Effect
<1>1. Idle \in LocalsOver(Action, Steps) /\ Idle.pc = "idle"
  BY IdleTyped, StepNames DEF Idle
<1>2. choice[p] \in Choice /\ choice' = [choice EXCEPT ![p] = choice[p]]
  BY DEF CloseEntry, EntryInv, CycleTypes
<1>3. MovesTo(p, Idle, choice[p]) /\ TxTypes(Action, Steps) /\ "entry" \in Action
  BY <1>1, <1>2, StepNames DEF CloseEntry, End, MovesTo, EntryInv, TxInv, Action
<1>4. CASE rows["entry"].state # "INCLUDED"
  <2>1. rows' = [rows EXCEPT !["entry"] = [rows["entry"] EXCEPT !.state = rows["entry"].state]]
    BY <1>4 DEF CloseEntry
  <2>2. rows["entry"] \in Row
    BY <1>3 DEF TxTypes
  <2>3. [rows["entry"] EXCEPT !.state = rows["entry"].state] = rows["entry"]
    BY <2>2, RowWithState
  <2>4. UNCHANGED rows
    BY <1>3, <2>1, <2>3 DEF TxTypes
  <2> QED BY <1>1, <1>2, <1>3, <2>4, QuietKeeps, StepNames
<1>5. CASE rows["entry"].state = "INCLUDED"
  <2> DEFINE closed == [state |-> "SKIPPED", signed |-> TRUE]
  <2>1. rows["entry"] \in Row /\ rows["entry"].signed = TRUE
    BY <1>3, <1>5 DEF TxTypes, Row
  <2>2. rows' = [rows EXCEPT !["entry"] = [rows["entry"] EXCEPT !.state = "SKIPPED"]]
    BY <1>5 DEF CloseEntry
  <2>3. rows' = [rows EXCEPT !["entry"] = closed]
    BY <2>1, <2>2, RowWithState
  <2>4. /\ rows'["entry"] = closed /\ closed \in Row
        /\ \A a \in Action : a # "entry" => rows'[a] = rows[a]
    BY <1>3, <2>3 DEF TxTypes, Row
  <2>5. /\ \A a \in Action : (Taken(a)' <=> Taken(a)) /\ rows'[a].signed = rows[a].signed
        /\ \A a \in Action : rows'[a].state # rows[a].state => a = "entry"
    <3>1. rows'["entry"].state = "SKIPPED" /\ rows'["entry"].signed = TRUE
      BY <2>4
    <3>2. Taken("entry")' /\ Taken("entry")
      BY <2>1, <3>1 DEF Taken
    <3>3. \A a \in Action : a # "entry" => (Taken(a)' <=> Taken(a))
      BY <2>4 DEF Taken
    <3> QED BY <2>1, <2>4, <3>1, <3>2, <3>3
  <2>6. /\ local' = [local EXCEPT ![p] = Idle] /\ UNCHANGED <<tx, sent, failures>>
    BY <1>3 DEF MovesTo
  <2>7. TxTypes(Action, Steps)'
    BY <1>1, <1>3, <2>3, <2>4, <2>6 DEF TxTypes
  <2>8. InHand(Action)'
    <3> SUFFICES ASSUME NEW q \in Process, local'[q].pc \in TxSteps
                 PROVE  /\ local'[q].act \in Action /\ Taken(local[q].act)'
                        /\ local'[q].act = local[q].act
                        /\ local'[q].pc \in StoredSteps => rows'[local[q].act].signed
      BY DEF InHand, StoredSteps, TxSteps, Taken
    <3>1. local'[q] = local[q]
      BY <1>1, <1>3, <2>6, StepNames DEF TxTypes
    <3> QED BY <2>5, <3>1 DEF EntryInv, TxInv, InHand
  <2>9. OneSender' /\ ReceiptInMind'
    BY <1>1, <1>3, <2>6 DEF EntryInv, TxInv, OneSender, ReceiptInMind, At, TxTypes
  <2>10. StoredFirst(Action)' /\ RowsAreTrue(Action)'
    BY <2>4, <2>5, <2>6 DEF EntryInv, TxInv, StoredFirst, RowsAreTrue
  <2>11. CycleTypes' /\ CandidateChosen'
    BY <1>1, <1>2, <1>3, <2>6, StepNames
    DEF MovesTo, EntryInv, CycleTypes, CandidateChosen, TxTypes
  <2>12. ParentKnown' /\ ClosedWasMined'
    BY <1>3, <1>5, <2>6
    DEF EntryInv, TxInv, ParentKnown, ClosedWasMined, RowsAreTrue, MovesTo, Absent
  <2>13. OneBuyTaken'
    <3>1. \A c \in Candidate : c \in Action /\ c # "entry"
      BY CanaryAssumption DEF CanaryAssumption, Action
    <3> QED BY <2>4, <2>5, <3>1 DEF EntryInv, OneBuyTaken
  <2>14. SlotStep(Action)
    BY <2>5, <2>6 DEF SlotStep, SlotsUnchanged
  <2>15. StaysParked
    BY <1>5, <2>4, <2>6 DEF StaysParked
  <2> QED BY <2>7, <2>8, <2>9, <2>10, <2>11, <2>12, <2>13, <2>14, <2>15
          DEF EntryInv, TxInv, Effect
<1> QED BY <1>4, <1>5

LEMMA AdvanceKeeps ==
    ASSUME EntryInv, NEW p \in Process, Advance(p)
    PROVE  EntryInv' /\ Effect
<1>1. CASE GiveUp(p)
  BY <1>1, EndKeeps DEF GiveUp
<1> QED BY <1>1, TakeUpsKeep, CycleStepsKeep, CleanupStepsKeep, BeginVetKeeps, PassKeeps,
           SkipsKeep, AdvanceEntryKeeps, ReservationsKeep, TransactKeeps,
           IncludeStepKeeps, CloseEntryKeeps
        DEF Advance

LEMMA StutterKeeps ==
    ASSUME EntryInv, UNCHANGED vars
    PROVE  EntryInv' /\ Effect
<1>1. UNCHANGED <<rows, tx, sent, local, failures, withApproval, parent, baseline,
                  allowance, choice>>
  OBVIOUS
<1>2. TxInv(Action, Steps)'
  BY <1>1 DEF EntryInv, TxInv, TxTypes, InHand, StoredFirst, OneSender, ReceiptInMind,
              RowsAreTrue, Taken, At
<1>3. CycleTypes' /\ CandidateChosen'
  BY <1>1 DEF EntryInv, CycleTypes, CandidateChosen
<1>4. SlotStep(Action) /\ RowsKept(Action)
  BY <1>1, NothingOfSlots
<1> QED BY <1>1, <1>2, <1>3, <1>4, RowsKeptKeeps, RowsKeptParks DEF EntryInv, Effect

\* The chain, the owner and the ledger.
LEMMA EnvironmentKeeps ==
    ASSUME EntryInv, Environment
    PROVE  EntryInv' /\ Effect
<1>1. ASSUME NEW a \in Action, MineTx(a)
      PROVE  EntryInv' /\ Effect
  <2>1. /\ tx[a] = "pending" /\ UNCHANGED <<rows, sent, local, failures>>
        /\ UNCHANGED <<withApproval, parent, baseline, choice>>
        /\ allowance' \in {"zero", "exact", "other"}
    BY <1>1 DEF MineTx, AfterSwap, EntryInv, CycleTypes
  <2>2. PICK r \in Receipts : tx' = [tx EXCEPT ![a] = r]
    BY <1>1 DEF MineTx, Receipts
  <2>3. TxInv(Action, Steps)' /\ TxTypes(Action, Steps)
    BY <2>1, <2>2, MiningKeeps DEF EntryInv, TxInv
  <2>4. SlotStep(Action) /\ RowsKept(Action)
    BY <2>1, <2>2, <2>3 DEF SlotStep, SlotsUnchanged, RowsKept, Taken, TxTypes
  <2>5. CycleTypes'
    BY <2>1 DEF EntryInv, CycleTypes
  <2> QED BY <2>1, <2>3, <2>4, <2>5, TxStepKeeps
<1>2. CASE OwnerApproves \/ \E c \in Candidate : BaselineAges(c)
  <2>1. UNCHANGED <<withApproval, rows, parent, choice, tx, sent, local, failures>>
    BY <1>2 DEF OwnerApproves, BaselineAges
  <2>2. CycleTypes'
    BY <1>2, <2>1 DEF OwnerApproves, BaselineAges, EntryInv, CycleTypes
  <2>3. TxInv(Action, Steps)'
    BY <2>1 DEF EntryInv, TxInv, TxTypes, InHand, StoredFirst, OneSender, ReceiptInMind,
                RowsAreTrue, Taken, At
  <2>4. SlotStep(Action) /\ RowsKept(Action)
    BY <2>1, NothingOfSlots
  <2> QED BY <2>1, <2>2, <2>3, <2>4, TxStepKeeps
<1> QED BY <1>1, <1>2 DEF Environment

LEMMA InitEstablishes == ASSUME Init PROVE EntryInv
<1>0. {"entry", "revoke"} \subseteq Action /\ Candidate \subseteq Action
  BY DEF Action
<1>1. TxTypes(Action, Steps)
  BY IdleTyped, StepNames DEF Init, TxTypes, Row, Absent, TxStates
<1>2. \A p \in Process : local[p].pc = "idle"
  BY DEF Init, Idle
<1>3. InHand(Action) /\ OneSender /\ ReceiptInMind /\ CandidateChosen
  BY <1>2, StepNames
  DEF InHand, OneSender, ReceiptInMind, CandidateChosen, At, TxSteps, StoredSteps, ChosenSteps
<1>4. StoredFirst(Action) /\ RowsAreTrue(Action)
  BY DEF Init, StoredFirst, RowsAreTrue, Absent
<1>5. CycleTypes
  BY DEF Init, CycleTypes, Choice
<1>6. ParentKnown /\ OneBuyTaken /\ ClosedWasMined
  BY <1>0 DEF Init, ParentKnown, OneBuyTaken, ClosedWasMined, Taken, Absent
<1> QED BY <1>1, <1>3, <1>4, <1>5, <1>6 DEF EntryInv, TxInv

LEMMA NextKeeps == ASSUME EntryInv, [Next]_vars PROVE EntryInv' /\ Effect
<1>1. ASSUME NEW p \in Process, Advance(p) \/ NothingToDo(p) \/ ProcessFails(p)
      PROVE  EntryInv' /\ Effect
  <2>1. CASE NothingToDo(p)
    BY <2>1, StutterKeeps DEF NothingToDo
  <2> QED BY <1>1, <2>1, AdvanceKeeps, TransactKeeps
<1> QED BY <1>1, EnvironmentKeeps, StutterKeeps DEF Next

------------------------------------------------------------------------------
(* The theorems.                                                           *)

\* The invariant holds throughout, and so does what a step may do.
THEOREM EntryInvariant == Spec => []EntryInv
<1>1. Init => EntryInv
  BY InitEstablishes
<1>2. EntryInv /\ [Next]_vars => EntryInv'
  BY NextKeeps
<1> QED BY <1>1, <1>2, PTL DEF Spec

\* Every state of the canary cycle is well typed.
THEOREM TypeCorrect == Spec => []TypeOK
<1>1. EntryInv => TypeOK
  BY DEF EntryInv, TxInv, TxTypes, CycleTypes, TypeOK, Locals, LocalsOver
<1> QED BY <1>1, EntryInvariant, PTL

\* What the five tables say of a transaction is what the chain did with it
\* (markIncluded and markReverted of the canary stores, markCleanupTerminal),
\* for every number of processes, candidates, crashes and failed calls.
THEOREM RecordsTrue == Spec => []RecordsAreTrue
<1>1. EntryInv => RecordsAreTrue
  BY DEF EntryInv, TxInv, RowsAreTrue, ClosedWasMined, RecordsAreTrue
<1> QED BY <1>1, EntryInvariant, PTL

\* A reservation that was parked unsigned (markSafeHalt) is never signed or sent.
THEOREM ParkedStays == Spec => ParkedForGood
<1>1. EntryInv /\ [Next]_vars => [StaysParked]_vars
  BY NextKeeps DEF Effect
<1> QED BY <1>1, EntryInvariant, PTL DEF Spec, ParkedForGood

------------------------------------------------------------------------------
(* Each table implements a one-shot slot.                                  *)

\* At most one action of S was ever reserved.
Unique(S) == \A c, d \in S : Taken(c) /\ Taken(d) => c = d

\* The holder of S is the action of S that is taken, if there is one.
HolderIsTaken(S) ==
    /\ \A c \in S : Taken(c) => Holder(S) = c
    /\ (\A c \in S : ~Taken(c)) => Holder(S) = "none"

SentBy(S) == [c \in S |-> sent[c]]

\* The four things that can happen to the slot of S.
SlotRests(S) ==
    /\ Holder(S)' = Holder(S)
    /\ \A c \in S : rows'[c].signed = rows[c].signed
    /\ SentBy(S)' = SentBy(S)
SlotReserved(S) ==
    /\ Holder(S) = "none" /\ Holder(S)' \in S
    /\ \A c \in S : rows'[c].signed = rows[c].signed
    /\ SentBy(S)' = SentBy(S)
SlotStored(S) ==
    /\ Holder(S)' = Holder(S) /\ Holder(S) \in S
    /\ \A c \in S : ~rows[c].signed
    /\ \E c \in S : rows'[c].signed
    /\ SentBy(S)' = SentBy(S)
SlotSent(S) ==
    /\ Holder(S)' = Holder(S) /\ Holder(S) \in S
    /\ \A c \in S : rows'[c].signed = rows[c].signed
    /\ rows[Holder(S)].signed
    /\ \A c \in S : SentBy(S)[c] = 0
    /\ SentBy(S)' = [SentBy(S) EXCEPT ![Holder(S)] = 1]
SlotMoves(S) == SlotRests(S) \/ SlotReserved(S) \/ SlotStored(S) \/ SlotSent(S)

LEMMA HolderFound ==
    ASSUME NEW S, Unique(S), Unique(S)'
    PROVE  HolderIsTaken(S) /\ HolderIsTaken(S)'
<1>1. HolderIsTaken(S)
  BY DEF Unique, HolderIsTaken, Holder, Holds, Taken
<1>2. HolderIsTaken(S)'
  BY DEF Unique, HolderIsTaken, Holder, Holds, Taken
<1> QED BY <1>1, <1>2

\* A step of the cycle is a step of the slot of S, or leaves it as it is.
LEMMA SlotsStep ==
    ASSUME EntryInv, NEW S \in SUBSET Action, Unique(S), Unique(S)',
           SlotStep(Action) \/ ReservesOne,
           \A a \in S : S # {a} => a \in Candidate /\ S = Candidate
    PROVE  SlotMoves(S)
<1> USE DEF SlotMoves, SlotRests, SlotReserved, SlotStored, SlotSent
<1>0. /\ HolderIsTaken(S) /\ HolderIsTaken(S)'
      /\ TxTypes(Action, Steps) /\ StoredFirst(Action)
  BY HolderFound DEF EntryInv, TxInv
<1>1. ASSUME \A c \in S : Taken(c)' <=> Taken(c)
      PROVE  Holder(S)' = Holder(S)
  <2>1. CASE \E c \in S : Taken(c)
    BY <1>0, <1>1, <2>1 DEF HolderIsTaken
  <2>2. CASE \A c \in S : ~Taken(c)
    BY <1>0, <1>1, <2>2 DEF HolderIsTaken
  <2> QED BY <2>1, <2>2
<1>2. CASE SlotsUnchanged(Action)
  BY <1>1, <1>2 DEF SlotsUnchanged, SentBy
<1>3. CASE StoresOne(Action)
  <2>1. PICK a \in Action :
           /\ rows[a].state = "RESERVED" /\ ~rows[a].signed
           /\ rows' = [rows EXCEPT ![a] = Signed]
           /\ sent' = sent
    BY <1>3 DEF StoresOne
  <2>2. /\ Taken(a) /\ Taken(a)' /\ rows'[a].signed
        /\ \A c \in Action : c # a => rows'[c] = rows[c]
    BY <1>0, <2>1 DEF TxTypes, Taken, Signed
  <2>3. SentBy(S)' = SentBy(S) /\ \A c \in S : Taken(c)' <=> Taken(c)
    BY <2>1, <2>2 DEF SentBy, Taken
  <2>4. Holder(S)' = Holder(S)
    BY <1>1, <2>3
  <2>5. CASE a \notin S
    BY <2>2, <2>3, <2>4, <2>5
  <2>6. CASE a \in S
    <3>1. Holder(S) = a
      BY <1>0, <2>2, <2>6 DEF HolderIsTaken
    <3>2. \A c \in S : c # a => ~Taken(c)
      BY <2>2, <2>6 DEF Unique
    <3>3. \A c \in S : c # a => ~rows[c].signed /\ ~rows'[c].signed
      BY <2>2, <3>2 DEF Taken
    <3> QED BY <2>1, <2>2, <2>3, <2>4, <2>6, <3>1, <3>3
  <2> QED BY <2>5, <2>6
<1>4. CASE SendsOne(Action)
  <2>1. PICK a \in Action :
           /\ rows[a].signed /\ sent[a] = 0
           /\ rows' = rows
           /\ sent' = [sent EXCEPT ![a] = 1]
    BY <1>4 DEF SendsOne
  <2>2. Holder(S)' = Holder(S)
    BY <1>1, <2>1 DEF Taken
  <2>3. CASE a \notin S
    <3>1. \A c \in S : sent'[c] = sent[c]
      BY <1>0, <2>1, <2>3 DEF TxTypes
    <3> QED BY <2>1, <2>2, <3>1 DEF SentBy
  <2>4. CASE a \in S
    <3>1. Holder(S) = a
      BY <1>0, <2>1, <2>4 DEF HolderIsTaken, Taken
    <3>2. \A c \in S : c # a => ~rows[c].signed
      BY <2>1, <2>4 DEF Unique, Taken
    <3>3. \A c \in S : SentBy(S)[c] = 0
      BY <1>0, <2>1, <3>2 DEF StoredFirst, SentBy
    <3>4. SentBy(S)' = [SentBy(S) EXCEPT ![a] = 1]
      BY <1>0, <2>1, <2>4 DEF SentBy, TxTypes
    <3> QED BY <2>1, <2>2, <2>4, <3>1, <3>3, <3>4
  <2> QED BY <2>3, <2>4
<1>5. CASE ReservesOne
  <2>1. PICK a \in Action :
           /\ rows[a] = Absent
           /\ a \in Candidate => CommittedBuys = {}
           /\ rows' = [rows EXCEPT ![a] = Reserved]
           /\ sent' = sent
    BY <1>5 DEF ReservesOne
  <2>2. /\ \A c \in Action : c # a => rows'[c] = rows[c]
        /\ rows'[a] = Reserved
    BY <1>0, <2>1 DEF TxTypes
  <2>3. Taken(a)' /\ ~Taken(a) /\ rows'[a].signed = rows[a].signed
    <3>1. rows'[a].signed = FALSE /\ rows[a].signed = FALSE
      BY <2>1, <2>2 DEF Absent, Reserved
    <3>2. rows'[a].state = "RESERVED" /\ rows[a].state = "NONE"
      BY <2>1, <2>2 DEF Absent, Reserved
    <3> QED BY <3>1, <3>2 DEF Taken
  <2>4. SentBy(S)' = SentBy(S) /\ \A c \in S : rows'[c].signed = rows[c].signed
    BY <2>1, <2>2, <2>3 DEF SentBy
  <2>5. CASE a \notin S
    <3>1. Holder(S)' = Holder(S)
      BY <1>1, <2>2, <2>5 DEF Taken
    <3> QED BY <2>4, <3>1
  <2>6. CASE a \in S
    <3>1. Holder(S)' = a
      BY <1>0, <2>3, <2>6 DEF HolderIsTaken
    <3>2. \A c \in S : ~Taken(c)
      <4>1. CASE S = {a}
        BY <2>3, <4>1
      <4>2. CASE S # {a}
        <5>1. S = Candidate /\ CommittedBuys = {}
          BY <2>1, <2>6, <4>2
        <5>2. ASSUME NEW c \in Candidate PROVE ~Taken(c)
          <6>1. rows[c].state \in {"NONE", "SKIPPED"}
            BY <5>1 DEF CommittedBuys
          <6>2. rows[c] \in Row
            BY <1>0 DEF TxTypes, Action
          <6> QED BY <6>1, <6>2 DEF EntryInv, OneBuyTaken, Taken, Row
        <5> QED BY <5>1, <5>2
      <4> QED BY <4>1, <4>2
    <3>3. Holder(S) = "none"
      BY <1>0, <3>2 DEF HolderIsTaken
    <3> QED BY <2>4, <2>6, <3>1, <3>3
  <2> QED BY <2>5, <2>6
<1> QED BY <1>2, <1>3, <1>4, <1>5 DEF SlotStep

LEMMA UniqueSlots ==
    ASSUME EntryInv
    PROVE  Unique(Candidate) /\ Unique({"entry"}) /\ Unique({"revoke"})
  BY DEF EntryInv, OneBuyTaken, Unique

LEMMA BuySlotStep ==
    ASSUME EntryInv, EntryInv', Effect
    PROVE  [BuySlot!Next]_(BuySlot!vars)
<1>1. Unique(Candidate) /\ Unique(Candidate)'
  BY UniqueSlots DEF EntryInv, OneBuyTaken, Unique
<1>2. Candidate \in SUBSET Action /\ \A a \in Candidate : a # "none"
  BY CanaryAssumption DEF Action, CanaryAssumption
<1>3. SlotMoves(Candidate)
  BY <1>1, <1>2, SlotsStep DEF Effect
<1> DEFINE stored == \E c \in Candidate : rows[c].signed
<1>4. CASE SlotRests(Candidate)
  <2>1. stored' = stored
    BY <1>4 DEF SlotRests
  <2> QED BY <1>4, <2>1 DEF SlotRests, BuySlot!vars, SentBy
<1>5. CASE SlotReserved(Candidate)
  <2>1. stored' = stored
    BY <1>5 DEF SlotReserved
  <2> QED BY <1>5, <2>1 DEF SlotReserved, BuySlot!Next, BuySlot!Reserve, SentBy
<1>6. CASE SlotStored(Candidate)
  <2>1. ~stored /\ stored' = TRUE
    BY <1>6 DEF SlotStored
  <2> QED BY <1>2, <1>6, <2>1 DEF SlotStored, BuySlot!Next, BuySlot!Sign, SentBy
<1>7. CASE SlotSent(Candidate)
  <2>1. stored /\ stored' = stored
    BY <1>7 DEF SlotSent
  <2> QED BY <1>7, <2>1 DEF SlotSent, BuySlot!Next, BuySlot!Send, SentBy
<1> QED BY <1>3, <1>4, <1>5, <1>6, <1>7 DEF SlotMoves

LEMMA EntrySlotStep ==
    ASSUME EntryInv, EntryInv', Effect
    PROVE  [EntrySlot!Next]_(EntrySlot!vars)
<1> DEFINE S == {"entry"}
<1>1. Unique(S) /\ Unique(S)' /\ S \in SUBSET Action
  BY DEF Unique, Action
<1>2. SlotMoves(S)
  BY <1>1, SlotsStep DEF Effect
<1>3. rows["entry"].signed \in BOOLEAN /\ rows'["entry"].signed \in BOOLEAN
  BY RowWithState DEF EntryInv, TxInv, TxTypes, Action, Row
<1>4. CASE SlotRests(S)
  BY <1>4 DEF SlotRests, EntrySlot!vars, SentBy
<1>5. CASE SlotReserved(S)
  BY <1>5 DEF SlotReserved, EntrySlot!Next, EntrySlot!Reserve, SentBy
<1>6. CASE SlotStored(S)
  <2>1. ~rows["entry"].signed /\ rows'["entry"].signed = TRUE
    BY <1>3, <1>6 DEF SlotStored
  <2> QED BY <1>6, <2>1 DEF SlotStored, EntrySlot!Next, EntrySlot!Sign, SentBy
<1>7. CASE SlotSent(S)
  BY <1>7 DEF SlotSent, EntrySlot!Next, EntrySlot!Send, SentBy
<1> QED BY <1>2, <1>4, <1>5, <1>6, <1>7 DEF SlotMoves

LEMMA RevokeSlotStep ==
    ASSUME EntryInv, EntryInv', Effect
    PROVE  [RevokeSlot!Next]_(RevokeSlot!vars)
<1> DEFINE S == {"revoke"}
<1>1. Unique(S) /\ Unique(S)' /\ S \in SUBSET Action
  BY DEF Unique, Action
<1>2. SlotMoves(S)
  BY <1>1, SlotsStep DEF Effect
<1>3. rows["revoke"].signed \in BOOLEAN /\ rows'["revoke"].signed \in BOOLEAN
  BY RowWithState DEF EntryInv, TxInv, TxTypes, Action, Row
<1>4. CASE SlotRests(S)
  BY <1>4 DEF SlotRests, RevokeSlot!vars, SentBy
<1>5. CASE SlotReserved(S)
  BY <1>5 DEF SlotReserved, RevokeSlot!Next, RevokeSlot!Reserve, SentBy
<1>6. CASE SlotStored(S)
  <2>1. ~rows["revoke"].signed /\ rows'["revoke"].signed = TRUE
    BY <1>3, <1>6 DEF SlotStored
  <2> QED BY <1>6, <2>1 DEF SlotStored, RevokeSlot!Next, RevokeSlot!Sign, SentBy
<1>7. CASE SlotSent(S)
  BY <1>7 DEF SlotSent, RevokeSlot!Next, RevokeSlot!Send, SentBy
<1> QED BY <1>2, <1>4, <1>5, <1>6, <1>7 DEF SlotMoves

LEMMA SlotsBeginFree == ASSUME Init PROVE BuySlot!Init /\ EntrySlot!Init /\ RevokeSlot!Init
<1>1. Candidate \subseteq Action /\ {"entry", "revoke"} \subseteq Action
  BY DEF Action
<1>2. \A a \in Action : ~Holds(a) /\ rows[a].signed = FALSE /\ sent[a] = 0
  BY DEF Init, Absent, Holds
<1>3. /\ Holder(Candidate) = "none" /\ Holder({"entry"}) = "none" /\ Holder({"revoke"}) = "none"
  BY <1>1, <1>2 DEF Holder
<1>4. (\E c \in Candidate : rows[c].signed) = FALSE
  BY <1>1, <1>2
<1> QED BY <1>1, <1>2, <1>3, <1>4 DEF BuySlot!Init, EntrySlot!Init, RevokeSlot!Init

\* Over all processes, candidates, crashes and failed calls there is one buy, one
\* entry approval and one revoke at most: each is reserved once (the UNIQUE keys
\* of insert and insertReserved), stored as signed before it is sent (markSigned
\* before broadcastExact), and sent once.
THEOREM EachIsOneShot == Spec => OneOfEach
<1>1. Init => BuySlot!Init /\ EntrySlot!Init /\ RevokeSlot!Init
  BY SlotsBeginFree
<1>2. EntryInv /\ EntryInv' /\ [Next]_vars =>
         /\ [BuySlot!Next]_(BuySlot!vars)
         /\ [EntrySlot!Next]_(EntrySlot!vars)
         /\ [RevokeSlot!Next]_(RevokeSlot!vars)
  BY NextKeeps, BuySlotStep, EntrySlotStep, RevokeSlotStep
<1> QED BY <1>1, <1>2, EntryInvariant, PTL
        DEF Spec, OneOfEach, BuySlot!Spec, EntrySlot!Spec, RevokeSlot!Spec
------------------------------------------------------------------------------
(* One process with the whole approval stack, and no hand but its own on   *)
(* the allowance: what the allowance is, and who may still change it.      *)
(*                                                                         *)
(* The allowance follows from the receipts, the approval is mined before   *)
(* anything else is reserved, and a revoke finds the buy over: the cycle   *)
(* comes to its cleanup only with no buy open and the parent's row taken,  *)
(* which keeps it from being bought later.                                 *)

Deployed ==
    /\ \A p, q \in Process : p = q
    /\ Deployments \subseteq {TRUE}
    /\ ~OwnerActs

EvaluationSteps == {"vet"} \cup ChosenSteps
BuySteps == {"liveAllowance", "buyPreflight", "buyReserve"}
CleanupSteps == {"cleanup", "revokeAllowance", "revokePreflight", "revokeReserve",
                 "postAllowance", "terminal"}

Approved == tx["entry"] = "success"
Spent == \E c \in Candidate : tx[c] = "success"

AllowanceTracked ==
    allowance = IF Approved /\ ~Spent /\ tx["revoke"] # "success" THEN "exact" ELSE "zero"

ApprovedFirst == Taken("revoke") \/ (\E c \in Candidate : Taken(c)) => Approved

BuyIsOver == OpenBuys = {} /\ rows[parent] # Absent

\* What a process may rely on that is at a step, with an action in hand and a
\* candidate chosen.
MayBeAt(step, act, cand) ==
    /\ step \in TxSteps /\ act \in Candidate => ~Taken("revoke")
    /\ step \in EvaluationSteps => OpenBuys = {}
    /\ step \in BuySteps \/ (step = "vet" /\ cand # NoCandidate) => Approved /\ cand = parent
    /\ step \in CleanupSteps => Approved /\ BuyIsOver
    /\ step = "revokeAllowance" => rows["revoke"].state = "NONE"
    /\ step \in {"recover", "postAllowance"} => rows["revoke"].state = "INCLUDED"
    /\ step = "terminal" => allowance = "zero" /\ rows["revoke"].state \in {"NONE", "INCLUDED"}
    /\ rows["entry"].state = "SKIPPED" => step = "idle"

StepsAreRight == \A p \in Process : MayBeAt(local[p].pc, local[p].act, choice[p].cand)

ClosedIsClean ==
    rows["entry"].state = "SKIPPED" =>
        /\ allowance = "zero"
        /\ OpenBuys = {}
        /\ rows["revoke"].state \in {"NONE", "INCLUDED"}

CoverInv ==
    /\ Deployed
    /\ AllowanceTracked
    /\ ApprovedFirst
    /\ Taken("revoke") => BuyIsOver
    /\ rows["revoke"].state # "SKIPPED"
    /\ ClosedIsClean
    /\ StepsAreRight

\* What the receipts say of the rows.
LEMMA RowFacts ==
    ASSUME EntryInv, CoverInv
    PROVE  /\ {"entry", "revoke"} \subseteq Action /\ Candidate \subseteq Action
           /\ {"entry", "revoke", "none"} \cap Candidate = {}
           /\ \A a \in Action : rows[a] \in Row /\ tx[a] \in TxStates
           /\ \A a \in Action : ~Taken(a) => tx[a] = "none"
           /\ \A a \in Action : ~IsOpen(a) => tx[a] # "pending"
           /\ Approved => parent \in Candidate
<1>1. {"entry", "revoke"} \subseteq Action /\ Candidate \subseteq Action
  BY DEF Action
<1>2. {"entry", "revoke", "none"} \cap Candidate = {}
  BY CanaryAssumption DEF CanaryAssumption
<1>3. \A a \in Action : rows[a] \in Row /\ tx[a] \in TxStates
  BY DEF EntryInv, TxInv, TxTypes
<1>4. \A a \in Action : ~Taken(a) => tx[a] = "none"
  BY DEF EntryInv, TxInv, StoredFirst, Taken
<1>5. ASSUME NEW a \in Action, ~IsOpen(a), tx[a] = "pending" PROVE FALSE
  <2>1. rows[a].signed /\ rows[a].state \notin {"INCLUDED", "REVERTED"}
    BY <1>5 DEF EntryInv, TxInv, StoredFirst, RowsAreTrue
  <2>2. a \in Candidate \/ a \in {"entry", "revoke"}
    BY DEF Action
  <2>3. rows[a].state = "SKIPPED"
    BY <1>3, <1>5, <2>1 DEF IsOpen, Unresolved, Row
  <2>4. a \notin {"entry", "revoke"}
    BY <1>5, <2>3 DEF EntryInv, ClosedWasMined, CoverInv
  <2>5. a \notin Candidate
    BY <2>1, <2>3 DEF EntryInv, OneBuyTaken
  <2> QED BY <2>1, <2>2, <2>3, <2>4, <2>5
<1>6. Approved => parent \in Candidate
  BY <1>1 DEF EntryInv, ParentKnown, TxInv, StoredFirst, Approved, Absent
<1> QED BY <1>1, <1>2, <1>3, <1>4, <1>5, <1>6

\* The process moves, and nothing else of interest changes.
LEMMA MoveCovers ==
    ASSUME EntryInv, CoverInv, NEW p \in Process,
           NEW step, NEW act, local'[p].pc = step, local'[p].act = act,
           NEW cand, choice'[p].cand = cand, MayBeAt(step, act, cand),
           UNCHANGED <<rows, tx, parent, allowance>>
    PROVE  CoverInv'
<1>1. MayBeAt(step, act, cand)'
  BY DEF MayBeAt, Taken, OpenBuys, IsOpen, Approved, BuyIsOver
<1>2. StepsAreRight'
  BY <1>1 DEF StepsAreRight, CoverInv, Deployed
<1> QED BY <1>2 DEF CoverInv, Deployed, AllowanceTracked, ApprovedFirst, ClosedIsClean,
                    Taken, OpenBuys, IsOpen, Approved, Spent, BuyIsOver

\* ... to a step it names, with the action it has in hand.
LEMMA GotoCovers ==
    ASSUME EntryInv, CoverInv, NEW p \in Process, NEW step \in Steps, Goto(p, step),
           NEW cand, choice'[p].cand = cand, MayBeAt(step, local[p].act, cand),
           UNCHANGED <<rows, tx, parent, allowance>>
    PROVE  CoverInv'
<1>1. local'[p].pc = step /\ local'[p].act = local[p].act
  BY DEF Goto, EntryInv, TxInv, TxTypes, LocalsOver
<1> QED BY <1>1, MoveCovers

\* ... out of the cycle.
LEMMA EndCovers ==
    ASSUME EntryInv, CoverInv, NEW p \in Process, End(p),
           UNCHANGED <<rows, tx, parent, allowance>>
    PROVE  CoverInv'
<1>1. local'[p].pc = "idle" /\ local'[p].act = "none"
  BY DEF End, Idle, EntryInv, TxInv, TxTypes
<1>2. MayBeAt("idle", "none", choice'[p].cand)
  BY DEF MayBeAt, TxSteps, EvaluationSteps, ChosenSteps, BuySteps, CleanupSteps
<1> QED BY <1>1, <1>2, MoveCovers

\* ... on with a transaction, or to its parking.
LEMMA TxMoveCovers ==
    ASSUME EntryInv, CoverInv, NEW p \in Process, local[p].pc \in TxSteps,
           NEW step \in TxSteps, Goto(p, step),
           UNCHANGED <<rows, tx, parent, allowance>>
    PROVE  CoverInv'
<1>1. MayBeAt(step, local[p].act, choice'[p].cand)
  BY DEF CoverInv, StepsAreRight, MayBeAt, TxSteps, EvaluationSteps, ChosenSteps, BuySteps,
         CleanupSteps
<1>2. step \in Steps
  BY DEF TxSteps, Steps
<1> QED BY <1>1, <1>2, GotoCovers

\* An open row is taken up: a buy only while there is no revoke.
LEMMA TakeUpCovers ==
    ASSUME EntryInv, CoverInv, NEW p \in Process, NEW a \in Action, NEW how,
           IsOpen(a), Reconcile(p, a, how),
           UNCHANGED <<rows, tx, parent, allowance>>
    PROVE  CoverInv'
<1> DEFINE step == IF rows[a].signed THEN "receipt" ELSE "halt"
<1>1. local'[p].pc = step /\ local'[p].act = a
  BY DEF Reconcile, EntryInv, TxInv, TxTypes
<1>2. a \in Candidate => ~Taken("revoke")
  BY DEF CoverInv, BuyIsOver, OpenBuys
<1>3. rows["entry"].state # "SKIPPED"
  BY DEF CoverInv, ClosedIsClean, OpenBuys, IsOpen, Unresolved, Action
<1>4. MayBeAt(step, a, choice'[p].cand)
  BY <1>2, <1>3 DEF MayBeAt, TxSteps, EvaluationSteps, ChosenSteps, BuySteps, CleanupSteps
<1> QED BY <1>1, <1>4, MoveCovers

LEMMA TakeUpsCover ==
    ASSUME EntryInv, CoverInv, NEW p \in Process,
           TakeUpBuy(p) \/ TakeUpRevoke(p) \/ TakeUpEntry(p)
    PROVE  CoverInv'
<1>1. PICK a \in Action : IsOpen(a) /\ Reconcile(p, a, "reconcile")
  BY DEF TakeUpBuy, TakeUpRevoke, TakeUpEntry, OpenBuys, Action
<1>2. UNCHANGED <<rows, tx, parent, allowance>>
  BY DEF TakeUpBuy, TakeUpRevoke, TakeUpEntry
<1> QED BY <1>1, <1>2, TakeUpCovers

\* An INCLUDED entry row was mined and is not SKIPPED.
LEMMA IncludedIsApproved ==
    ASSUME EntryInv, rows["entry"].state = "INCLUDED"
    PROVE  Approved /\ rows["entry"].state # "SKIPPED"
  BY DEF EntryInv, TxInv, RowsAreTrue, Approved, Action

\* From idle to the vet, or straight to the cleanup.
LEMMA BeginningsCover ==
    ASSUME EntryInv, CoverInv, NEW p \in Process, BeginCleanup(p) \/ BeginVet(p)
    PROVE  CoverInv'
<1>0. choice[p] \in Choice /\ choice \in [Process -> Choice]
  BY DEF EntryInv, CycleTypes
<1>1. CASE BeginCleanup(p)
  <2>1. Approved /\ rows["entry"].state = "INCLUDED" /\ OpenBuys = {}
    BY <1>1, IncludedIsApproved DEF BeginCleanup, NothingOpen
  <2>2. rows[parent] # Absent
    <3>1. CASE rows["revoke"].state = "INCLUDED"
      BY <3>1 DEF CoverInv, BuyIsOver, Taken
    <3>2. CASE rows[parent].state \in {"INCLUDED", "REVERTED", "SKIPPED"}
      BY <3>2 DEF Absent
    <3> QED BY <1>1, <3>1, <3>2 DEF BeginCleanup, ParentIsOver
  <2>3. MayBeAt("cleanup", local[p].act, choice[p].cand)
    BY <2>1, <2>2 DEF MayBeAt, BuyIsOver, TxSteps, EvaluationSteps, ChosenSteps, BuySteps, CleanupSteps
  <2> QED BY <1>1, <2>3, GotoCovers DEF BeginCleanup, Steps
<1>2. CASE BeginVet(p)
  <2>1. OpenBuys = {} /\ UNCHANGED <<rows, tx, parent, allowance>> /\ Goto(p, "vet")
    BY <1>2 DEF BeginVet, NothingOpen
  <2>2. \/ rows["entry"].state = "INCLUDED" /\ choice'[p].cand = parent
        \/ rows["entry"] = Absent /\ choice'[p].cand = NoCandidate
    BY <1>0, <1>2 DEF BeginVet, Choose
  <2>3. rows["entry"].state # "SKIPPED"
    BY <2>2 DEF Absent
  <2>4. choice'[p].cand # NoCandidate => Approved /\ choice'[p].cand = parent
    BY <2>2, IncludedIsApproved
  <2>5. MayBeAt("vet", local[p].act, choice'[p].cand)
    BY <2>1, <2>3, <2>4 DEF MayBeAt, TxSteps, EvaluationSteps, ChosenSteps, BuySteps, CleanupSteps
  <2> QED BY <2>1, <2>5, GotoCovers DEF Steps
<1> QED BY <1>1, <1>2

\* From the vet to the reservation of the approval or of the buy.
LEMMA EvaluationCovers ==
    ASSUME EntryInv, CoverInv, NEW p \in Process,
           \/ PassCandidate(p) \/ BuyOnly(p) \/ AdvanceEntry(p) \/ PreflightEntry(p)
           \/ ReadLiveAllowance(p) \/ PreflightBuy(p)
    PROVE  CoverInv'
<1> USE DEF TxSteps, EvaluationSteps, ChosenSteps, BuySteps, CleanupSteps
<1>0. /\ UNCHANGED <<rows, tx, parent, allowance>>
      /\ MayBeAt(local[p].pc, local[p].act, choice[p].cand)
      /\ local[p].pc \in EvaluationSteps
  BY DEF PassCandidate, BuyOnly, AdvanceEntry, PreflightEntry, ReadLiveAllowance, PreflightBuy,
         CoverInv, StepsAreRight, At
<1>1. OpenBuys = {} /\ rows["entry"].state # "SKIPPED"
  BY <1>0 DEF MayBeAt
<1>2. CASE PassCandidate(p)
  <2>1. MayBeAt("quote", local[p].act, choice'[p].cand)
    BY <1>1 DEF MayBeAt
  <2> QED BY <1>0, <1>2, <2>1, GotoCovers DEF PassCandidate, Steps
<1>3. CASE BuyOnly(p)
  BY <1>3 DEF BuyOnly, EntryInv, CycleTypes, CoverInv, Deployed
<1>4. CASE AdvanceEntry(p)
  <2>1. CASE IsOpen("entry") /\ Reconcile(p, "entry", "advance")
    BY <1>0, <2>1, TakeUpCovers DEF Action
  <2>2. CASE Goto(p, "entryPreflight") /\ UNCHANGED choice
    <3>1. MayBeAt("entryPreflight", local[p].act, choice[p].cand)
      BY <1>1 DEF MayBeAt
    <3> QED BY <1>0, <2>2, <3>1, GotoCovers DEF Steps
  <2>3. CASE /\ rows["entry"].state = "INCLUDED" /\ parent = choice[p].cand
             /\ Goto(p, "liveAllowance") /\ UNCHANGED choice
    <3>1. MayBeAt("liveAllowance", local[p].act, choice[p].cand)
      BY <1>1, <2>3, IncludedIsApproved DEF MayBeAt
    <3> QED BY <1>0, <2>3, <3>1, GotoCovers DEF Steps
  <2> QED BY <1>4, <2>1, <2>2, <2>3 DEF AdvanceEntry
<1>5. CASE PreflightEntry(p)
  <2>1. MayBeAt("entryReserve", local[p].act, choice[p].cand)
    BY <1>1 DEF MayBeAt
  <2> QED BY <1>0, <1>5, <2>1, GotoCovers DEF PreflightEntry, Steps
<1>6. CASE ReadLiveAllowance(p)
  <2>1. MayBeAt("buyPreflight", local[p].act, choice[p].cand)
    BY <1>0, <1>1, <1>6 DEF MayBeAt, ReadLiveAllowance, At
  <2> QED BY <1>0, <1>6, <2>1, GotoCovers DEF ReadLiveAllowance, Steps
<1>7. CASE PreflightBuy(p)
  <2>1. MayBeAt("buyReserve", local[p].act, choice[p].cand)
    BY <1>0, <1>1, <1>7 DEF MayBeAt, PreflightBuy, At
  <2> QED BY <1>0, <1>7, <2>1, GotoCovers DEF PreflightBuy, Steps
<1> QED BY <1>2, <1>3, <1>4, <1>5, <1>6, <1>7

\* The cleanup, up to the reservation of the revoke.
LEMMA CleanupCovers ==
    ASSUME EntryInv, CoverInv, NEW p \in Process,
           \/ Recover(p) \/ AdvanceRevoke(p) \/ ReadRevokeAllowance(p)
           \/ PreflightRevoke(p) \/ ReadPostAllowance(p)
    PROVE  CoverInv'
<1> USE DEF TxSteps, EvaluationSteps, ChosenSteps, BuySteps, CleanupSteps
<1>0. /\ UNCHANGED <<rows, tx, parent, allowance, choice>>
      /\ MayBeAt(local[p].pc, local[p].act, choice[p].cand)
      /\ local[p].pc \in CleanupSteps \cup {"recover"}
      /\ "revoke" \in Action /\ "revoke" \notin Candidate
  BY RowFacts
  DEF Recover, AdvanceRevoke, ReadRevokeAllowance, PreflightRevoke, ReadPostAllowance,
      CoverInv, StepsAreRight, At
<1>1. rows["entry"].state # "SKIPPED"
  BY <1>0 DEF MayBeAt
<1>2. CASE End(p)
  BY <1>0, <1>2, EndCovers
<1>3. CASE Recover(p) /\ rows["entry"].state = "INCLUDED"
  <2>0. Goto(p, "cleanup") /\ Taken("revoke")
    BY <1>0, <1>3 DEF Recover, At, MayBeAt, Taken
  <2>1. Approved /\ BuyIsOver
    BY <1>3, <2>0, IncludedIsApproved DEF CoverInv
  <2>2. MayBeAt("cleanup", local[p].act, choice[p].cand)
    BY <1>1, <2>1 DEF MayBeAt
  <2> QED BY <1>0, <2>0, <2>2, GotoCovers DEF Steps
<1>4. CASE AdvanceRevoke(p)
  <2>1. Approved /\ BuyIsOver
    BY <1>0, <1>4 DEF AdvanceRevoke, At, MayBeAt
  <2>2. CASE rows["revoke"].state = "NONE"
    <3>1. Goto(p, "revokeAllowance")
      BY <1>4, <2>2 DEF AdvanceRevoke, IsOpen, Unresolved
    <3>2. MayBeAt("revokeAllowance", local[p].act, choice[p].cand)
      BY <1>1, <2>1, <2>2 DEF MayBeAt
    <3> QED BY <1>0, <3>1, <3>2, GotoCovers DEF Steps
  <2>3. CASE rows["revoke"].state = "INCLUDED"
    <3>1. Goto(p, "postAllowance")
      BY <1>4, <2>3 DEF AdvanceRevoke, IsOpen, Unresolved
    <3>2. MayBeAt("postAllowance", local[p].act, choice[p].cand)
      BY <1>1, <2>1, <2>3 DEF MayBeAt
    <3> QED BY <1>0, <3>1, <3>2, GotoCovers DEF Steps
  <2>4. CASE rows["revoke"].state \notin {"NONE", "INCLUDED"}
    <3>1. (IsOpen("revoke") /\ Reconcile(p, "revoke", "advance")) \/ End(p)
      BY <1>4, <2>4 DEF AdvanceRevoke
    <3> QED BY <1>0, <1>2, <3>1, TakeUpCovers
  <2> QED BY <2>2, <2>3, <2>4
<1>5. CASE ReadRevokeAllowance(p)
  <2>1. Approved /\ BuyIsOver /\ rows["revoke"].state = "NONE"
    BY <1>0, <1>5 DEF ReadRevokeAllowance, At, MayBeAt
  <2>2. CASE allowance = "zero"
    <3>1. Goto(p, "terminal") /\ MayBeAt("terminal", local[p].act, choice[p].cand)
      BY <1>1, <1>5, <2>1, <2>2 DEF ReadRevokeAllowance, MayBeAt
    <3> QED BY <1>0, <3>1, GotoCovers DEF Steps
  <2>3. CASE allowance = "exact"
    <3>1. Goto(p, "revokePreflight") /\ MayBeAt("revokePreflight", local[p].act, choice[p].cand)
      BY <1>1, <1>5, <2>1, <2>3 DEF ReadRevokeAllowance, MayBeAt
    <3> QED BY <1>0, <3>1, GotoCovers DEF Steps
  <2> QED BY <1>2, <1>5, <2>2, <2>3 DEF ReadRevokeAllowance
<1>6. CASE PreflightRevoke(p) /\ Goto(p, "revokeReserve")
  <2>1. MayBeAt("revokeReserve", local[p].act, choice[p].cand)
    BY <1>0, <1>1, <1>6 DEF PreflightRevoke, At, MayBeAt
  <2> QED BY <1>0, <1>6, <2>1, GotoCovers DEF Steps
<1>7. CASE ReadPostAllowance(p)
  <2>1. CASE allowance = "zero"
    <3>1. Goto(p, "terminal") /\ MayBeAt("terminal", local[p].act, choice[p].cand)
      BY <1>0, <1>1, <1>7, <2>1 DEF ReadPostAllowance, At, MayBeAt
    <3> QED BY <1>0, <3>1, GotoCovers DEF Steps
  <2> QED BY <1>2, <1>7, <2>1 DEF ReadPostAllowance
<1> QED BY <1>2, <1>3, <1>4, <1>5, <1>6, <1>7 DEF Recover, PreflightRevoke

\* The steps between two writes of a transaction, and what fails on the way.
LEMMA TxMovesCover ==
    ASSUME EntryInv, CoverInv, NEW p \in Process,
           \/ Recheck(p) \/ ReadReceipt(p) \/ Halt(p) \/ (\E evidence : Observe(p, evidence))
           \/ SignFails(p, Candidate) \/ ReadFails(p) \/ Crash(p),
           UNCHANGED <<parent, allowance>>
    PROVE  CoverInv'
<1>1. UNCHANGED <<rows, tx, parent, allowance>>
  BY DEF Recheck, ReadReceipt, Halt, Observe, SignFails, ReadFails, Crash
<1>2. End(p) \/ \E step \in TxSteps : Goto(p, step) /\ local[p].pc \in TxSteps
  BY DEF Recheck, SigningThrew, ReadReceipt, Halt, Observe, SignFails, ReadFails, Crash, Throw,
         At, TxSteps
<1> QED BY <1>1, <1>2, EndCovers, TxMoveCovers

\* A transaction is handed to the network: no receipt changes.
LEMMA SendCovers ==
    ASSUME EntryInv, CoverInv, NEW p \in Process, At(p, "broadcast"), Send(local[p].act),
           NEW step \in {"submit", "halt"}, Goto(p, step),
           UNCHANGED <<rows, parent, allowance, choice>>
    PROVE  CoverInv'
<1>1. local[p].act \in Action /\ tx \in [Action -> TxStates]
  BY DEF At, EntryInv, TxInv, TxTypes, InHand, TxSteps
<1>2. \A a \in Action : tx'[a] = "success" <=> tx[a] = "success"
  BY <1>1 DEF Send
<1>3. (Approved' <=> Approved) /\ (Spent' <=> Spent)
      /\ (tx'["revoke"] = "success" <=> tx["revoke"] = "success")
  BY <1>2 DEF Approved, Spent, Action
<1>4. PICK act, cand : /\ local[p].act = act /\ choice'[p].cand = cand
                       /\ local'[p].pc = step /\ local'[p].act = act
  BY DEF Goto, EntryInv, TxInv, TxTypes, LocalsOver
<1>5. MayBeAt(step, act, cand)'
  <2>1. step \notin EvaluationSteps \cup BuySteps \cup CleanupSteps
             \cup {"vet", "revokeAllowance", "recover", "postAllowance", "terminal"}
    BY DEF EvaluationSteps, ChosenSteps, BuySteps, CleanupSteps
  <2>2. rows["entry"].state # "SKIPPED" /\ (act \in Candidate => ~Taken("revoke"))
    BY <1>4 DEF CoverInv, StepsAreRight, MayBeAt, At, TxSteps
  <2> QED BY <1>4, <2>1, <2>2 DEF MayBeAt, Taken
<1>6. StepsAreRight'
  BY <1>4, <1>5 DEF StepsAreRight, CoverInv, Deployed
<1> QED BY <1>3, <1>6 DEF CoverInv, Deployed, AllowanceTracked, ApprovedFirst, ClosedIsClean,
                          Taken, OpenBuys, IsOpen, BuyIsOver

\* The row in hand moves on: it was taken and stays taken, and no other changes.
LEMMA RowCovers ==
    ASSUME EntryInv, CoverInv, NEW p \in Process, local[p].pc \in TxSteps,
           NEW a, a = local[p].act, NEW row, rows' = [rows EXCEPT ![a] = row],
           row.state \notin {"NONE", "SKIPPED"},
           NEW step, local'[p].pc = step, local'[p].act = a \/ step = "idle",
           \/ step \in TxSteps \cup {"idle"}
           \/ step \in {"recover", "terminal"} /\ a = "revoke" /\ row.state = "INCLUDED"
                 /\ tx[a] = "success",
           UNCHANGED <<tx, parent, allowance>>
    PROVE  CoverInv'
<1> USE RowFacts
<1>1. a \in Action /\ Taken(a) /\ rows \in [Action -> Row]
  BY DEF EntryInv, TxInv, TxTypes, InHand
<1>2. /\ rows'[a] = row /\ Taken(a)'
      /\ \A b \in Action : b # a => rows'[b] = rows[b]
  BY <1>1 DEF Taken
<1>3. \A b \in Action : Taken(b)' <=> Taken(b)
  BY <1>1, <1>2 DEF Taken
<1>4. (Taken("revoke")' <=> Taken("revoke")) /\ ApprovedFirst'
  BY <1>3 DEF CoverInv, ApprovedFirst, Approved
<1>5. rows["entry"].state # "SKIPPED" /\ rows'["entry"].state # "SKIPPED"
  BY <1>2 DEF CoverInv, StepsAreRight, MayBeAt, TxSteps
<1>6. rows'["revoke"].state # "SKIPPED"
  BY <1>2 DEF CoverInv
<1>7. a \in Candidate => ~Taken("revoke")
  BY DEF CoverInv, StepsAreRight, MayBeAt
<1>8. Taken("revoke") => BuyIsOver'
  <2> SUFFICES ASSUME Taken("revoke") PROVE BuyIsOver'
    OBVIOUS
  <2>1. BuyIsOver /\ Approved /\ a \notin Candidate
    BY <1>7 DEF CoverInv, ApprovedFirst
  <2>2. \A c \in Candidate : rows'[c] = rows[c]
    BY <1>2, <2>1
  <2> QED BY <2>1, <2>2 DEF BuyIsOver, OpenBuys, IsOpen
<1>9. AllowanceTracked' /\ ClosedIsClean'
  BY <1>5 DEF CoverInv, AllowanceTracked, ClosedIsClean, Approved, Spent
<1>10. PICK act, cand : local'[p].act = act /\ choice'[p].cand = cand
  OBVIOUS
<1>11. MayBeAt(step, act, cand)'
  <2>1. CASE step \in TxSteps \cup {"idle"}
    BY <1>4, <1>5, <1>7, <1>10, <2>1
    DEF MayBeAt, TxSteps, EvaluationSteps, ChosenSteps, BuySteps, CleanupSteps
  <2>2. CASE step \in {"recover", "terminal"} /\ a = "revoke" /\ row.state = "INCLUDED"
             /\ tx[a] = "success"
    <3>1. BuyIsOver' /\ Approved' /\ allowance' = "zero" /\ rows'["revoke"].state = "INCLUDED"
      BY <1>1, <1>2, <1>8, <1>9, <2>2 DEF CoverInv, ApprovedFirst, Approved, AllowanceTracked
    <3> QED BY <1>5, <2>2, <3>1
            DEF MayBeAt, TxSteps, EvaluationSteps, ChosenSteps, BuySteps, CleanupSteps
  <2> QED BY <2>1, <2>2
<1>12. StepsAreRight'
  BY <1>10, <1>11 DEF StepsAreRight, CoverInv, Deployed
<1> QED BY <1>4, <1>6, <1>8, <1>9, <1>12 DEF CoverInv, Deployed

\* A row is reserved: the approval first, then the buy, at last the revoke.
LEMMA ReservedCovers ==
    ASSUME EntryInv, CoverInv, NEW p \in Process, NEW a \in Action, rows[a] = Absent,
           rows' = [rows EXCEPT ![a] = Reserved], Execute(p, a), ~At(p, "idle"),
           UNCHANGED <<tx, allowance>>,
           \/ a = "entry"
           \/ a \in Candidate /\ a = parent /\ Approved /\ UNCHANGED parent
           \/ a = "revoke" /\ Approved /\ BuyIsOver /\ UNCHANGED parent
    PROVE  CoverInv'
<1> USE RowFacts
<1>1. rows \in [Action -> Row] /\ ~Taken(a)
  BY DEF EntryInv, TxInv, TxTypes, Taken, Absent
<1>2. /\ rows'[a] = Reserved /\ Taken(a)'
      /\ \A b \in Action : b # a => rows'[b] = rows[b]
  BY <1>1 DEF Taken, Reserved
<1>3. \A b \in Action : b # a => (Taken(b)' <=> Taken(b))
  BY <1>2 DEF Taken
<1>4. a = "entry" => ~Approved /\ ~Taken("revoke") /\ \A c \in Candidate : ~Taken(c)
  BY <1>1 DEF CoverInv, ApprovedFirst, Approved
<1>5. ApprovedFirst' /\ AllowanceTracked'
  BY <1>2, <1>3, <1>4 DEF CoverInv, ApprovedFirst, AllowanceTracked, Approved, Spent
<1>6. /\ rows["entry"].state # "SKIPPED" /\ rows'["entry"].state # "SKIPPED"
      /\ rows'["revoke"].state # "SKIPPED"
  <2>1. rows["entry"].state # "SKIPPED"
    BY DEF CoverInv, StepsAreRight, MayBeAt, At
  <2> QED BY <1>2, <2>1 DEF CoverInv, Reserved
<1>7. a \in Candidate => ~Taken("revoke") /\ ~Taken("revoke")'
  BY <1>3 DEF CoverInv, BuyIsOver
<1>8. Taken("revoke")' => BuyIsOver'
  <2> SUFFICES ASSUME Taken("revoke")' PROVE BuyIsOver'
    OBVIOUS
  <2>1. BuyIsOver /\ UNCHANGED parent /\ a = "revoke" /\ parent \in Candidate
    BY <1>3, <1>4, <1>7 DEF CoverInv
  <2>2. \A c \in Candidate : rows'[c] = rows[c]
    BY <1>2, <2>1
  <2> QED BY <2>1, <2>2 DEF BuyIsOver, OpenBuys, IsOpen
<1>9. PICK cand : choice'[p].cand = cand
  OBVIOUS
<1>10. local'[p].pc = "recheck" /\ local'[p].act = a
  BY DEF Execute, EntryInv, TxInv, TxTypes
<1>11. MayBeAt("recheck", a, cand)'
  BY <1>6, <1>7, <1>9
  DEF MayBeAt, TxSteps, EvaluationSteps, ChosenSteps, BuySteps, CleanupSteps
<1>12. StepsAreRight'
  BY <1>9, <1>10, <1>11 DEF StepsAreRight, CoverInv, Deployed
<1>13. ClosedIsClean'
  BY <1>6 DEF ClosedIsClean
<1> QED BY <1>5, <1>6, <1>8, <1>12, <1>13 DEF CoverInv, Deployed

LEMMA ReservationsCover ==
    ASSUME EntryInv, CoverInv, NEW p \in Process,
           ReserveEntry(p) \/ ReserveBuy(p) \/ ReserveRevoke(p)
    PROVE  CoverInv'
<1> USE RowFacts
<1>0. ~At(p, "idle") /\ UNCHANGED <<tx, allowance>>
  BY DEF ReserveEntry, ReserveBuy, ReserveRevoke, At
<1>1. MayBeAt(local[p].pc, local[p].act, choice[p].cand)
  BY DEF CoverInv, StepsAreRight
<1>2. CASE End(p) /\ UNCHANGED <<rows, parent>>
  BY <1>0, <1>2, EndCovers
<1>3. CASE ReserveEntry(p)
  <2>1. CASE rows["entry"] = Absent
    BY <1>0, <1>3, <2>1, ReservedCovers DEF ReserveEntry
  <2> QED BY <1>2, <1>3, <2>1 DEF ReserveEntry
<1>4. CASE ReserveBuy(p)
  <2> DEFINE c == choice[p].cand
  <2>1. CASE rows[c] = Absent /\ CommittedBuys = {}
    <3>1. c \in Candidate /\ c = parent /\ Approved
      BY <1>1, <1>4, StepNames
      DEF ReserveBuy, At, MayBeAt, BuySteps, EntryInv, CandidateChosen, ChosenSteps
    <3>2. rows' = [rows EXCEPT ![c] = Reserved] /\ Execute(p, c) /\ UNCHANGED parent
      BY <1>4, <2>1 DEF ReserveBuy
    <3> QED BY <1>0, <2>1, <3>1, <3>2, ReservedCovers
  <2> QED BY <1>2, <1>4, <2>1 DEF ReserveBuy
<1>5. CASE ReserveRevoke(p)
  <2>1. CASE rows["revoke"] = Absent
    <3>1. Approved /\ BuyIsOver
      BY <1>1, <1>5 DEF ReserveRevoke, At, MayBeAt, CleanupSteps
    <3> QED BY <1>0, <1>5, <2>1, <3>1, ReservedCovers DEF ReserveRevoke
  <2> QED BY <1>2, <1>5, <2>1 DEF ReserveRevoke
<1> QED BY <1>3, <1>4, <1>5

\* An absent row is closed as SKIPPED: nothing is open or taken that was not.
LEMMA SkippedRows ==
    ASSUME EntryInv, CoverInv, NEW c \in Candidate, InsertSkipped(c), UNCHANGED <<tx, parent>>
    PROVE  /\ rows'["entry"] = rows["entry"] /\ rows'["revoke"] = rows["revoke"]
           /\ rows'[c] # Absent
           /\ \A a \in Action : Taken(a)' <=> Taken(a)
           /\ OpenBuys' = OpenBuys
           /\ BuyIsOver => BuyIsOver'
<1> USE RowFacts
<1>1. rows \in [Action -> Row] /\ c \in Action
  BY DEF EntryInv, TxInv, TxTypes
<1>2. /\ rows'[c] = IF rows[c] = Absent THEN Skipped ELSE rows[c]
      /\ \A a \in Action : a # c => rows'[a] = rows[a]
  BY <1>1 DEF InsertSkipped
<1>3. \A a \in Action : (Taken(a)' <=> Taken(a)) /\ (IsOpen(a)' <=> IsOpen(a))
  BY <1>1, <1>2 DEF Taken, IsOpen, Unresolved, Absent, Skipped
<1>4. OpenBuys' = OpenBuys
  BY <1>3 DEF OpenBuys
<1>5. rows[parent] # Absent => rows'[parent] # Absent
  BY <1>1 DEF InsertSkipped, Skipped, Absent
<1> QED BY <1>1, <1>2, <1>3, <1>4, <1>5 DEF BuyIsOver, Skipped, Absent

LEMMA SkippedCovers ==
    ASSUME EntryInv, CoverInv, NEW p \in Process, NEW c \in Candidate, InsertSkipped(c),
           NEW step, NEW act, local'[p].pc = step, local'[p].act = act,
           NEW cand, choice'[p].cand = cand, MayBeAt(step, act, cand)',
           UNCHANGED <<tx, parent, allowance>>
    PROVE  CoverInv'
<1> USE RowFacts, SkippedRows
<1>1. StepsAreRight'
  BY DEF StepsAreRight, CoverInv, Deployed
<1>2. AllowanceTracked'
  BY DEF CoverInv, AllowanceTracked, Approved, Spent
<1>3. ApprovedFirst'
  BY DEF CoverInv, ApprovedFirst, Approved
<1>4. ClosedIsClean'
  BY DEF CoverInv, ClosedIsClean
<1>5. Taken("revoke")' => BuyIsOver'
  BY DEF CoverInv
<1> QED BY <1>1, <1>2, <1>3, <1>4, <1>5 DEF CoverInv, Deployed

LEMMA SkipsCover ==
    ASSUME EntryInv, CoverInv, NEW p \in Process,
           SkipCandidate(p) \/ ExpireParent(p) \/ RejectParent(p)
    PROVE  CoverInv'
<1> USE RowFacts DEF TxSteps, EvaluationSteps, ChosenSteps, BuySteps, CleanupSteps
<1>0. /\ local \in [Process -> Locals] /\ choice \in [Process -> Choice]
      /\ UNCHANGED <<tx, parent, allowance>>
      /\ MayBeAt(local[p].pc, local[p].act, choice[p].cand)
  BY DEF EntryInv, TxInv, TxTypes, LocalsOver, Locals, CycleTypes, SkipCandidate, ExpireParent,
         RejectParent, CoverInv, StepsAreRight
<1>1. CASE SkipCandidate(p)
  <2>1. PICK c \in Candidate : /\ InsertSkipped(c)
                               /\ choice'[p].cand = NoCandidate
                               /\ End(p) \/ UNCHANGED local
    BY <1>0, <1>1 DEF SkipCandidate, Choice, Choose
  <2>2. OpenBuys' = {} /\ rows'["entry"].state # "SKIPPED"
    BY <1>0, <1>1, <2>1, SkippedRows DEF SkipCandidate, At, MayBeAt
  <2>3. PICK step \in {"vet", "idle"} : local'[p].pc = step
    BY <1>0, <1>1, <2>1 DEF SkipCandidate, At, End, Idle
  <2>4. PICK act : local'[p].act = act
    OBVIOUS
  <2>5. MayBeAt(step, act, NoCandidate)'
    BY <2>2, <2>3 DEF MayBeAt
  <2> QED BY <1>0, <2>1, <2>3, <2>4, <2>5, SkippedCovers
<1>2. CASE ExpireParent(p) \/ RejectParent(p)
  <2>1. /\ parent \in Candidate /\ InsertSkipped(parent) /\ Goto(p, "cleanup")
        /\ Approved /\ OpenBuys = {} /\ rows["entry"].state # "SKIPPED"
    <3>1. CASE ExpireParent(p)
      BY <3>1, IncludedIsApproved DEF ExpireParent, NothingOpen
    <3>2. CASE RejectParent(p)
      BY <1>0, <3>2 DEF RejectParent, At, MayBeAt
    <3> QED BY <1>2, <3>1, <3>2
  <2>2. /\ OpenBuys' = {} /\ rows'[parent] # Absent /\ Approved'
        /\ rows'["entry"].state # "SKIPPED"
    BY <1>0, <2>1, SkippedRows DEF Approved
  <2>3. PICK act, cand : local'[p].act = act /\ choice'[p].cand = cand
    OBVIOUS
  <2>4. local'[p].pc = "cleanup"
    BY <1>0, <2>1 DEF Goto, Locals
  <2>5. MayBeAt("cleanup", act, cand)'
    BY <1>0, <2>2 DEF MayBeAt, BuyIsOver
  <2> QED BY <1>0, <2>1, <2>3, <2>4, <2>5, SkippedCovers
<1> QED BY <1>1, <1>2

\* ... its state alone moves on, or the whole row, and the process with it.
LEMMA MarkCovers ==
    ASSUME EntryInv, CoverInv, NEW p \in Process, local[p].pc \in TxSteps,
           NEW state, state \notin {"NONE", "SKIPPED"},
           \/ rows' = [rows EXCEPT ![local[p].act].state = state]
           \/ state = "SIGNED" /\ rows' = [rows EXCEPT ![local[p].act] = Signed],
           NEW step, (End(p) /\ step = "idle") \/ Goto(p, step),
           \/ step \in TxSteps \cup {"idle"}
           \/ /\ step \in {"recover", "terminal"}
              /\ local[p].act = "revoke" /\ state = "INCLUDED" /\ tx["revoke"] = "success",
           UNCHANGED <<tx, parent, allowance>>
    PROVE  CoverInv'
<1> DEFINE a == local[p].act
<1>1. a \in Action /\ rows[a] \in Row
  BY DEF EntryInv, TxInv, TxTypes, InHand
<1>2. PICK row : row.state = state /\ rows' = [rows EXCEPT ![a] = row]
  <2>1. CASE rows' = [rows EXCEPT ![a].state = state]
    <3> DEFINE r == [rows[a] EXCEPT !.state = state]
    <3>1. r = [state |-> state, signed |-> rows[a].signed]
      BY <1>1, RowWithState
    <3>2. r.state = state
      BY <3>1
    <3>3. rows' = [rows EXCEPT ![a] = r]
      BY <2>1
    <3> QED BY <3>2, <3>3
  <2>2. CASE state = "SIGNED" /\ rows' = [rows EXCEPT ![a] = Signed]
    BY <2>2 DEF Signed
  <2> QED BY <2>1, <2>2
<1>3. local'[p].pc = step /\ (local'[p].act = a \/ step = "idle")
  BY DEF End, Goto, Idle, EntryInv, TxInv, TxTypes, LocalsOver
<1> QED BY <1>2, <1>3, RowCovers

\* The writes of a transaction: its row, and the network.
LEMMA TxWritesCover ==
    ASSUME EntryInv, CoverInv, NEW p \in Process,
           \/ Sign(p, Candidate) \/ Submit(p) \/ MarkReverted(p) \/ HaltUpdate(p)
           \/ Broadcast(p) \/ BroadcastFails(p),
           UNCHANGED aside
    PROVE  CoverInv'
<1>0. local[p].pc \in TxSteps /\ {"submit", "halt", "broadcast", "receipt"} \subseteq TxSteps
  BY DEF Sign, Submit, MarkReverted, HaltUpdate, Broadcast, BroadcastFails, At, TxSteps
<1>1. CASE End(p) /\ UNCHANGED <<rows, tx>>
  BY <1>1, EndCovers
<1>2. CASE Goto(p, "halt") /\ UNCHANGED <<rows, tx>>
  BY <1>0, <1>2, TxMoveCovers
<1>3. CASE Sign(p, Candidate)
  <2>1. CASE rows[local[p].act].state = "RESERVED"
    <3>1. rows' = [rows EXCEPT ![local[p].act] = Signed] /\ Goto(p, "broadcast")
         /\ UNCHANGED <<tx, parent, allowance>> /\ "SIGNED" \notin {"NONE", "SKIPPED"}
      BY <1>3, <2>1 DEF Sign
    <3> QED BY <1>0, <3>1, MarkCovers
  <2> QED BY <1>1, <1>2, <1>3, <2>1 DEF Sign, SigningThrew
<1>4. CASE Submit(p)
  <2>1. CASE rows[local[p].act].state = "SIGNED"
    BY <1>0, <1>4, <2>1, MarkCovers DEF Submit
  <2> QED BY <1>2, <1>4, <2>1 DEF Submit
<1>5. CASE MarkReverted(p)
  <2>1. rows' = [rows EXCEPT ![local[p].act].state = "REVERTED"] /\ End(p)
       /\ UNCHANGED <<tx, parent, allowance>> /\ "REVERTED" \notin {"NONE", "SKIPPED"}
    BY <1>5 DEF MarkReverted
  <2> QED BY <1>0, <2>1, MarkCovers
<1>6. CASE HaltUpdate(p)
  <2>1. rows' = [rows EXCEPT ![local[p].act].state = "SAFE_HALT"] /\ End(p)
       /\ UNCHANGED <<tx, parent, allowance>> /\ "SAFE_HALT" \notin {"NONE", "SKIPPED"}
    BY <1>6 DEF HaltUpdate
  <2> QED BY <1>0, <2>1, MarkCovers
<1>7. CASE Broadcast(p)
  BY <1>7, SendCovers DEF Broadcast
<1>8. CASE BroadcastFails(p)
  <2>1. CASE Send(local[p].act)
    BY <1>8, <2>1, SendCovers DEF BroadcastFails
  <2> QED BY <1>2, <1>8, <2>1 DEF BroadcastFails
<1> QED BY <1>3, <1>4, <1>5, <1>6, <1>7, <1>8

LEMMA TransactionsCover ==
    ASSUME EntryInv, CoverInv, NEW p \in Process,
           Recheck(p) \/ Transact(p) \/ Include(p) \/ GiveUp(p) \/ ProcessFails(p)
    PROVE  CoverInv'
<1>1. CASE Include(p)
  <2>1. local[p].pc \in TxSteps /\ tx[local[p].act] = "success"
    BY <1>1 DEF Include, MarkIncluded, At, TxSteps, EntryInv, TxInv, ReceiptInMind
  <2>2. PICK step : /\ (End(p) /\ step = "idle") \/ Goto(p, step)
                    /\ \/ step = "idle"
                       \/ step \in {"recover", "terminal"} /\ local[p].act = "revoke"
    BY <1>1 DEF Include
  <2>3. /\ rows' = [rows EXCEPT ![local[p].act].state = "INCLUDED"]
        /\ UNCHANGED <<tx, parent, allowance>>
    BY <1>1 DEF Include, MarkIncluded
  <2> QED BY <2>1, <2>2, <2>3, MarkCovers
<1>2. CASE GiveUp(p)
  BY <1>2, EndCovers DEF GiveUp
<1>3. CASE Recheck(p)
  BY <1>3, TxMovesCover DEF Recheck
<1>4. CASE Transact(p)
  BY <1>4, TxMovesCover, TxWritesCover DEF Transact, TransactionStep
<1>5. CASE ProcessFails(p)
  BY <1>5, TxMovesCover, TxWritesCover DEF ProcessFails, TransactionFails, Stops
<1> QED BY <1>1, <1>2, <1>3, <1>4, <1>5

\* The closing of the entry row: the allowance is zero and nobody is at work.
LEMMA CloseEntryCovers ==
    ASSUME EntryInv, CoverInv, NEW p \in Process, CloseEntry(p)
    PROVE  CoverInv'
<1> USE RowFacts
<1>1. /\ allowance = "zero" /\ Approved /\ BuyIsOver
      /\ rows["revoke"].state \in {"NONE", "INCLUDED"}
  BY DEF CloseEntry, At, CoverInv, StepsAreRight, MayBeAt, CleanupSteps
<1>2. /\ rows \in [Action -> Row] /\ UNCHANGED <<tx, parent, allowance, choice>>
      /\ local'[p].pc = "idle"
  BY DEF CloseEntry, End, Idle, EntryInv, TxInv, TxTypes
<1>3. \A a \in Action : a # "entry" => rows'[a] = rows[a]
  BY <1>2 DEF CloseEntry
<1>4. /\ rows'["revoke"] = rows["revoke"]
      /\ \A c \in Candidate : rows'[c] = rows[c]
  BY <1>3
<1>5. (Taken("revoke")' <=> Taken("revoke")) /\ (\A c \in Candidate : Taken(c)' <=> Taken(c))
  BY <1>4 DEF Taken
<1>6. OpenBuys' = {} /\ BuyIsOver'
  BY <1>1, <1>2, <1>4 DEF BuyIsOver, OpenBuys, IsOpen
<1>7. PICK act, cand : local'[p].act = act /\ choice'[p].cand = cand
  OBVIOUS
<1>8. MayBeAt("idle", act, cand)'
  BY DEF MayBeAt, TxSteps, EvaluationSteps, ChosenSteps, BuySteps, CleanupSteps
<1>9. StepsAreRight'
  BY <1>2, <1>7, <1>8 DEF StepsAreRight, CoverInv, Deployed
<1>10. AllowanceTracked' /\ ApprovedFirst'
  BY <1>1, <1>2 DEF CoverInv, AllowanceTracked, ApprovedFirst, Approved, Spent
<1>11. ClosedIsClean'
  BY <1>1, <1>2, <1>4, <1>6 DEF ClosedIsClean
<1> QED BY <1>4, <1>6, <1>9, <1>10, <1>11 DEF CoverInv, Deployed

\* A block: an approval is mined before anything else is reserved, and the buy or
\* the revoke that follows takes its allowance away.
LEMMA MiningCovers ==
    ASSUME EntryInv, CoverInv, NEW a \in Action, MineTx(a)
    PROVE  CoverInv'
<1> USE RowFacts
<1>1. /\ tx[a] = "pending" /\ UNCHANGED <<rows, parent, local, choice>>
      /\ tx \in [Action -> TxStates]
  BY DEF MineTx, EntryInv, TxInv, TxTypes
<1>2. PICK r \in Receipts :
         /\ tx' = [tx EXCEPT ![a] = r]
         /\ r = "reverted" => UNCHANGED allowance
         /\ r = "success" => /\ a = "entry" => allowance' = "exact"
                             /\ a = "revoke" => allowance' = "zero"
                             /\ a \in Candidate => allowance' \in AfterSwap
  BY DEF MineTx, Receipts
<1>3. tx'[a] = r /\ \A b \in Action : b # a => tx'[b] = tx[b]
  BY <1>1, <1>2
<1>4. \A b \in Action : tx'[b] = "success" <=> tx[b] = "success" \/ (b = a /\ r = "success")
  BY <1>1, <1>3
<1>5. /\ Approved' <=> Approved \/ (a = "entry" /\ r = "success")
      /\ Spent' <=> Spent \/ (a \in Candidate /\ r = "success")
      /\ tx'["revoke"] = "success" <=> tx["revoke"] = "success" \/ (a = "revoke" /\ r = "success")
  BY <1>4 DEF Approved, Spent
<1>6. a = "entry" => /\ ~Approved /\ ~Spent /\ tx["revoke"] # "success"
                     /\ rows["entry"].state # "SKIPPED"
  <2> SUFFICES ASSUME a = "entry"
               PROVE  /\ ~Approved /\ ~Spent /\ tx["revoke"] # "success"
                      /\ rows["entry"].state # "SKIPPED"
    OBVIOUS
  <2>1. ~Approved /\ rows["entry"].state # "SKIPPED"
    BY <1>1 DEF Approved, EntryInv, ClosedWasMined
  <2>2. ~Taken("revoke") /\ \A c \in Candidate : ~Taken(c)
    BY <2>1 DEF CoverInv, ApprovedFirst
  <2> QED BY <2>1, <2>2 DEF Spent
<1>7. a \in Candidate /\ r = "success" => allowance' = "zero"
  BY <1>2 DEF AfterSwap, CoverInv, AllowanceTracked
<1>8. AllowanceTracked'
  <2>1. CASE r = "reverted"
    BY <1>2, <1>5, <2>1 DEF CoverInv, AllowanceTracked
  <2>2. CASE r = "success"
    <3>1. CASE a = "entry"
      BY <1>2, <1>5, <1>6, <2>2, <3>1 DEF AllowanceTracked
    <3>2. CASE a = "revoke"
      BY <1>2, <1>5, <2>2, <3>2 DEF AllowanceTracked
    <3>3. CASE a \in Candidate
      BY <1>5, <1>7, <2>2, <3>3 DEF AllowanceTracked
    <3> QED BY <3>1, <3>2, <3>3 DEF Action
  <2> QED BY <2>1, <2>2 DEF Receipts
<1>9. allowance = "zero" => allowance' = "zero" \/ a = "entry"
  BY <1>2, <1>7 DEF Action, Receipts
<1>10. ApprovedFirst' /\ (BuyIsOver' <=> BuyIsOver) /\ (Taken("revoke")' <=> Taken("revoke"))
  BY <1>1, <1>5 DEF CoverInv, ApprovedFirst, Taken, BuyIsOver, OpenBuys, IsOpen
<1>11. ClosedIsClean'
  BY <1>1, <1>6, <1>9 DEF CoverInv, ClosedIsClean, OpenBuys, IsOpen
<1>12. \A p \in Process : local[p].pc = "terminal" => allowance' = "zero"
  BY <1>6, <1>9 DEF CoverInv, StepsAreRight, MayBeAt, CleanupSteps
<1>13. StepsAreRight'
  BY <1>1, <1>5, <1>10, <1>12 DEF CoverInv, StepsAreRight, MayBeAt, OpenBuys, IsOpen
<1> QED BY <1>1, <1>8, <1>10, <1>11, <1>13 DEF CoverInv, Deployed

\* Nothing of interest changes.
LEMMA QuietCovers ==
    ASSUME CoverInv, UNCHANGED <<rows, tx, parent, allowance, local, choice>>
    PROVE  CoverInv'
  BY DEF CoverInv, Deployed, AllowanceTracked, ApprovedFirst, ClosedIsClean, StepsAreRight,
         MayBeAt, Taken, OpenBuys, IsOpen, Approved, Spent, BuyIsOver

LEMMA NextCovers == ASSUME EntryInv, CoverInv, [Next]_vars PROVE CoverInv'
<1>1. ASSUME NEW p \in Process, Advance(p) \/ NothingToDo(p) \/ ProcessFails(p)
      PROVE  CoverInv'
  <2>1. CASE TakeUpBuy(p) \/ TakeUpRevoke(p) \/ TakeUpEntry(p)
    BY <2>1, TakeUpsCover
  <2>2. CASE BeginCleanup(p) \/ BeginVet(p)
    BY <2>2, BeginningsCover
  <2>3. CASE SkipCandidate(p) \/ ExpireParent(p) \/ RejectParent(p)
    BY <2>3, SkipsCover
  <2>4. CASE \/ PassCandidate(p) \/ BuyOnly(p) \/ AdvanceEntry(p) \/ PreflightEntry(p)
             \/ ReadLiveAllowance(p) \/ PreflightBuy(p)
    BY <2>4, EvaluationCovers
  <2>5. CASE ReserveEntry(p) \/ ReserveBuy(p) \/ ReserveRevoke(p)
    BY <2>5, ReservationsCover
  <2>6. CASE Recheck(p) \/ Transact(p) \/ Include(p) \/ GiveUp(p) \/ ProcessFails(p)
    BY <2>6, TransactionsCover
  <2>7. CASE \/ Recover(p) \/ AdvanceRevoke(p) \/ ReadRevokeAllowance(p)
             \/ PreflightRevoke(p) \/ ReadPostAllowance(p)
    BY <2>7, CleanupCovers
  <2>8. CASE CloseEntry(p)
    BY <2>8, CloseEntryCovers
  <2>9. CASE NothingToDo(p)
    BY <2>9, QuietCovers DEF NothingToDo
  <2> QED BY <1>1, <2>1, <2>2, <2>3, <2>4, <2>5, <2>6, <2>7, <2>8, <2>9 DEF Advance
<1>2. CASE Environment
  <2>1. CASE OwnerApproves
    BY <2>1 DEF OwnerApproves, CoverInv, Deployed
  <2>2. CASE \E c \in Candidate : BaselineAges(c)
    BY <2>2, QuietCovers DEF BaselineAges
  <2> QED BY <1>2, <2>1, <2>2, MiningCovers DEF Environment
<1>3. CASE UNCHANGED vars
  BY <1>3, QuietCovers
<1> QED BY <1>1, <1>2, <1>3 DEF Next

LEMMA InitCovers == ASSUME Deployed, Init PROVE CoverInv
<1>1. {"entry", "revoke"} \subseteq Action /\ Candidate \subseteq Action
  BY DEF Action
<1>2. \A a \in Action : ~Taken(a) /\ ~IsOpen(a) /\ tx[a] = "none" /\ rows[a].state = "NONE"
  BY DEF Init, Taken, IsOpen, Unresolved, Absent
<1>3. \A p \in Process : MayBeAt(local[p].pc, local[p].act, choice[p].cand)
  <2>1. \A p \in Process : local[p].pc = "idle"
    BY DEF Init, Idle
  <2> QED BY <2>1 DEF MayBeAt, TxSteps, EvaluationSteps, ChosenSteps, BuySteps, CleanupSteps
<1>4. AllowanceTracked
  BY <1>1, <1>2 DEF Init, AllowanceTracked, Approved
<1> QED BY <1>1, <1>2, <1>3, <1>4
        DEF CoverInv, ApprovedFirst, ClosedIsClean, StepsAreRight

LEMMA Covered == ASSUME EntryInv, CoverInv PROVE BuyIsCovered /\ NothingLeftBehind
<1> USE RowFacts
<1>1. ASSUME NEW c \in Candidate, tx[c] = "pending"
      PROVE  allowance = "exact"
  <2>1. Taken(c) /\ IsOpen(c)
    BY <1>1
  <2>2. Approved /\ tx["revoke"] # "success"
    BY <2>1 DEF CoverInv, ApprovedFirst, BuyIsOver, OpenBuys
  <2>3. ~Spent
    BY <1>1, <2>1 DEF EntryInv, OneBuyTaken, Spent
  <2> QED BY <2>2, <2>3 DEF CoverInv, AllowanceTracked
<1>2. ASSUME rows["entry"].state = "SKIPPED"
      PROVE  allowance = "zero" /\ \A a \in Action : tx[a] # "pending"
  <2>1. /\ allowance = "zero" /\ OpenBuys = {} /\ rows["revoke"].state \in {"NONE", "INCLUDED"}
    BY <1>2 DEF CoverInv, ClosedIsClean
  <2>2. ~IsOpen("entry") /\ ~IsOpen("revoke") /\ \A c \in Candidate : ~IsOpen(c)
    BY <1>2, <2>1 DEF IsOpen, Unresolved, OpenBuys
  <2> QED BY <2>1, <2>2 DEF Action
<1> QED BY <1>1, <1>2 DEF BuyIsCovered, NothingLeftBehind

\* One process with the whole stack, on an allowance nobody else touches: what
\* CoverInv says of the allowance, the receipts and the steps holds throughout.
THEOREM CoverInvariant == Deployed /\ Spec => [](EntryInv /\ CoverInv)
<1>1. Init => EntryInv
  BY InitEstablishes
<1>2. Deployed /\ Init => CoverInv
  BY InitCovers
<1>3. EntryInv /\ CoverInv /\ [Next]_vars => (EntryInv /\ CoverInv)'
  BY NextKeeps, NextCovers
<1> QED BY <1>1, <1>2, <1>3, PTL DEF Spec

\* A buy that waits to be mined finds exactly its allowance: whatever crashes,
\* expires or is rejected, no cleanup of this process revokes it meanwhile.
THEOREM BuyStaysCovered == Deployed /\ Spec => []BuyIsCovered
  BY CoverInvariant, Covered, PTL

\* A closed approval leaves no allowance behind, and no transaction that could
\* still spend, restore or revoke one: markCleanupTerminal is the last word.
THEOREM NothingIsLeftBehind == Deployed /\ Spec => []NothingLeftBehind
  BY CoverInvariant, Covered, PTL

==============================================================================
