--------------------------- MODULE CanaryTx_proofs ---------------------------
(***************************************************************************)
(* What the life of a canary transaction preserves, for every set of       *)
(* actions and of processes, and every schedule of crashes and failed      *)
(* calls.  CanaryEntry_proofs and RoundTrip_proofs cite these lemmas.      *)
(*                                                                         *)
(* A is the set of actions, S the set of steps of the module that uses     *)
(* CanaryTx.                                                               *)
(***************************************************************************)
EXTENDS CanaryTx, TLAPS

\* The steps at which a process has an action in hand.
TxSteps == {"recheck", "sign", "broadcast", "submit", "receipt", "observe",
            "include", "revert", "halt", "haltUpdate"}

\* ... and those that come after its transaction was stored.
StoredSteps == {"broadcast", "submit", "receipt", "observe", "include", "revert"}

LocalsOver(A, S) == [pc : S, act : A \cup {"none"}, mode : Modes]

TxTypes(A, S) ==
    /\ rows \in [A -> Row]
    /\ tx \in [A -> TxStates]
    /\ sent \in [A -> Nat]
    /\ local \in [Process -> LocalsOver(A, S)]
    /\ failures \in Nat

\* The row of a is taken: it was reserved, whatever became of it.
Taken(a) == rows[a].state \notin {"NONE", "SKIPPED"} \/ rows[a].signed

\* The action in hand was reserved, and stored before it is sent.
InHand(A) ==
    \A p \in Process :
        /\ local[p].pc \in TxSteps => local[p].act \in A /\ Taken(local[p].act)
        /\ local[p].pc \in StoredSteps => rows[local[p].act].signed

\* What was not stored was not sent.
StoredFirst(A) == \A a \in A : ~rows[a].signed => tx[a] = "none" /\ sent[a] = 0

\* One process at most is about to send an action, and it was not sent before.
OneSender ==
    \A p \in Process : At(p, "broadcast") =>
        /\ sent[local[p].act] = 0
        /\ \A q \in Process : At(q, "broadcast") /\ local[q].act = local[p].act => q = p

\* The receipt in mind is the one on the chain.
ReceiptInMind ==
    \A p \in Process :
        /\ local[p].pc \in {"observe", "include"} => tx[local[p].act] = "success"
        /\ At(p, "revert") => tx[local[p].act] = "reverted"

\* A row says of its transaction what the chain did with it.
RowsAreTrue(A) ==
    \A a \in A :
        /\ rows[a].state = "INCLUDED" => tx[a] = "success"
        /\ rows[a].state = "REVERTED" => tx[a] = "reverted"

TxInv(A, S) ==
    /\ TxTypes(A, S)
    /\ InHand(A)
    /\ StoredFirst(A)
    /\ OneSender
    /\ ReceiptInMind
    /\ RowsAreTrue(A)

\* What a step does to the slots: nothing, it stores one transaction, or it
\* sends one that is stored and was not sent.
SlotsUnchanged(A) ==
    /\ \A a \in A : (Taken(a)' <=> Taken(a)) /\ rows'[a].signed = rows[a].signed
    /\ sent' = sent
StoresOne(A) ==
    \E a \in A : /\ rows[a].state = "RESERVED" /\ ~rows[a].signed
                 /\ rows' = [rows EXCEPT ![a] = Signed]
                 /\ sent' = sent
SendsOne(A) ==
    \E a \in A : /\ rows[a].signed /\ sent[a] = 0
                 /\ rows' = rows
                 /\ sent' = [sent EXCEPT ![a] = 1]
SlotStep(A) == SlotsUnchanged(A) \/ StoresOne(A) \/ SendsOne(A)

\* A row that is taken never becomes free, nor SKIPPED; one parked unsigned stays
\* so; and a success stays one.
RowsKept(A) ==
    \A a \in A :
        /\ tx[a] = "success" => tx'[a] = "success"
        /\ Taken(a) => Taken(a)' /\ (rows'[a].state = "SKIPPED" => rows[a].state = "SKIPPED")
        /\ ~Taken(a) => rows'[a] = rows[a]
        /\ rows[a].state = "SAFE_HALT" /\ ~rows[a].signed =>
               rows'[a] = rows[a] /\ sent'[a] = sent[a]

------------------------------------------------------------------------------
\* A process moves to a step without an action in hand; nothing else changes.
LEMMA MoveKeeps ==
    ASSUME NEW A, NEW S, TxInv(A, S), NEW p \in Process,
           NEW l \in LocalsOver(A, S), l.pc \notin TxSteps,
           local' = [local EXCEPT ![p] = l],
           UNCHANGED <<rows, network>>, failures' \in Nat
    PROVE  TxInv(A, S)'
<1> USE DEF TxInv, network
<1>1. TxTypes(A, S)'
  BY DEF TxTypes
<1>2. InHand(A)'
  BY DEF InHand, Taken, TxTypes, TxSteps, StoredSteps
<1>3. OneSender'
  BY DEF OneSender, At, TxTypes, TxSteps
<1>4. ReceiptInMind'
  BY DEF ReceiptInMind, At, TxTypes, TxSteps
<1>5. StoredFirst(A)' /\ RowsAreTrue(A)'
  BY DEF StoredFirst, RowsAreTrue
<1> QED BY <1>1, <1>2, <1>3, <1>4, <1>5

\* A process goes on with the action in hand, at a step that asks for nothing new.
LEMMA StepKeeps ==
    ASSUME NEW A, NEW S, TxInv(A, S), NEW p \in Process,
           NEW step \in S,
           local[p].pc \in TxSteps \/ step \notin TxSteps,
           step \in StoredSteps => local[p].pc \in StoredSteps,
           step # "broadcast",
           step \in {"observe", "include"} => tx[local[p].act] = "success",
           step = "revert" => tx[local[p].act] = "reverted",
           Goto(p, step),
           UNCHANGED <<rows, network>>, failures' \in Nat
    PROVE  TxInv(A, S)'
<1> USE DEF TxInv, network
<1>0. local' = [local EXCEPT ![p] = [local[p] EXCEPT !.pc = step]]
  BY DEF Goto
<1>1. TxTypes(A, S)'
  BY <1>0 DEF TxTypes, LocalsOver
<1>2. InHand(A)'
  BY <1>0 DEF InHand, Taken, TxTypes, LocalsOver, TxSteps, StoredSteps
<1>3. OneSender'
  BY <1>0 DEF OneSender, At, TxTypes, LocalsOver
<1>4. ReceiptInMind'
  BY <1>0 DEF ReceiptInMind, At, TxTypes, LocalsOver
<1>5. StoredFirst(A)' /\ RowsAreTrue(A)'
  BY DEF StoredFirst, RowsAreTrue
<1> QED BY <1>1, <1>2, <1>3, <1>4, <1>5

\* A process begins to execute an action whose row was absent.
LEMMA ExecuteKeeps ==
    ASSUME NEW A, NEW S, TxInv(A, S), NEW p \in Process, NEW a \in A,
           "recheck" \in S, rows[a] = Absent,
           rows' = [rows EXCEPT ![a] = Reserved], Execute(p, a),
           UNCHANGED <<network, failures>>
    PROVE  TxInv(A, S)'
<1> USE DEF TxInv, network
<1>0. local' = [local EXCEPT ![p] = [pc |-> "recheck", act |-> a, mode |-> "execute"]]
  BY DEF Execute
<1>1. TxTypes(A, S)'
  BY <1>0 DEF TxTypes, LocalsOver, Modes, Row, Reserved
<1>2. /\ Taken(a)' /\ ~rows'[a].signed
      /\ \A b \in A : b # a => rows'[b] = rows[b]
      /\ ~Taken(a) /\ ~rows[a].signed
  BY DEF TxTypes, Taken, Reserved, Absent
<1>3. InHand(A)'
  BY <1>0, <1>2 DEF InHand, Taken, TxTypes, TxSteps, StoredSteps
<1>4. OneSender'
  BY <1>0 DEF OneSender, At, TxTypes, LocalsOver
<1>5. ReceiptInMind'
  BY <1>0 DEF ReceiptInMind, At, TxTypes, LocalsOver
<1>6. StoredFirst(A)' /\ RowsAreTrue(A)'
  BY <1>2 DEF StoredFirst, RowsAreTrue, Reserved, TxTypes
<1> QED BY <1>1, <1>3, <1>4, <1>5, <1>6

\* A process takes up an open action again.
LEMMA ReconcileKeeps ==
    ASSUME NEW A, NEW S, TxInv(A, S), NEW p \in Process, NEW a \in A,
           {"receipt", "halt"} \subseteq S, IsOpen(a), NEW how \in Modes, Reconcile(p, a, how),
           UNCHANGED <<rows, network>>, failures' \in Nat
    PROVE  TxInv(A, S)'
<1> USE DEF TxInv, network
<1>0. local' = [local EXCEPT ![p] = [pc |-> IF rows[a].signed THEN "receipt" ELSE "halt",
                                     act |-> a, mode |-> how]]
  BY DEF Reconcile
<1>1. TxTypes(A, S)'
  BY <1>0 DEF TxTypes, LocalsOver
<1>2. Taken(a)
  BY DEF IsOpen, Unresolved, Taken
<1>3. InHand(A)'
  BY <1>0, <1>2 DEF InHand, Taken, TxTypes, TxSteps, StoredSteps
<1>4. OneSender'
  BY <1>0 DEF OneSender, At, TxTypes, LocalsOver
<1>5. ReceiptInMind'
  BY <1>0 DEF ReceiptInMind, At, TxTypes, LocalsOver
<1>6. StoredFirst(A)' /\ RowsAreTrue(A)'
  BY DEF StoredFirst, RowsAreTrue
<1> QED BY <1>1, <1>3, <1>4, <1>5, <1>6

\* The chain decides on a pending transaction.
LEMMA MiningKeeps ==
    ASSUME NEW A, NEW S, TxInv(A, S), NEW a \in A, NEW r \in Receipts,
           tx[a] = "pending", tx' = [tx EXCEPT ![a] = r],
           UNCHANGED <<rows, sent, local, failures>>
    PROVE  TxInv(A, S)'
<1> USE DEF TxInv
<1>1. TxTypes(A, S)'
  BY DEF TxTypes, TxStates
<1>2. InHand(A)' /\ OneSender'
  BY DEF InHand, OneSender, Taken, At
<1>3. ReceiptInMind'
  BY DEF ReceiptInMind, InHand, TxSteps, TxTypes, At, LocalsOver
<1>4. StoredFirst(A)' /\ RowsAreTrue(A)'
  BY DEF StoredFirst, RowsAreTrue, TxTypes
<1> QED BY <1>1, <1>2, <1>3, <1>4

\* Only the state of a row changes.
LEMMA RowWithState ==
    ASSUME NEW r \in Row, NEW s
    PROVE  /\ r = [state |-> r.state, signed |-> r.signed]
           /\ [r EXCEPT !.state = s] = [state |-> s, signed |-> r.signed]
           /\ r.signed \in BOOLEAN
<1> DEFINE States == {"NONE", "RESERVED", "SIGNED", "SUBMITTED", "SAFE_HALT",
                      "INCLUDED", "REVERTED", "SKIPPED"}
<1>1. r \in [state : States, signed : BOOLEAN]
  BY DEF Row
<1> QED BY <1>1

\* The row of an action that is taken moves on, to a state its transaction allows.
LEMMA RowKeeps ==
    ASSUME NEW A, NEW S, TxInv(A, S), NEW p \in Process, NEW a \in A, Taken(a),
           NEW s \in {"SUBMITTED", "INCLUDED", "REVERTED", "SAFE_HALT"},
           s # "SAFE_HALT" => rows[a].signed,
           s = "INCLUDED" => tx[a] = "success",
           s = "REVERTED" => tx[a] = "reverted",
           rows' = [rows EXCEPT ![a].state = s],
           NEW l \in LocalsOver(A, S), local' = [local EXCEPT ![p] = l],
           l.pc \in TxSteps => l.pc = "receipt" /\ l.act = a /\ rows[a].signed,
           UNCHANGED <<network, failures>>
    PROVE  /\ TxInv(A, S)'
           /\ SlotStep(A)
           /\ RowsKept(A)
<1> USE DEF TxInv, network
<1>0. rows \in [A -> Row] /\ rows[a] \in Row
  BY DEF TxTypes
<1>1. rows' = [rows EXCEPT ![a] = [state |-> s, signed |-> rows[a].signed]]
  <2>1. rows' = [rows EXCEPT ![a] = [rows[a] EXCEPT !.state = s]]
    OBVIOUS
  <2> QED BY <1>0, <2>1, RowWithState
<1>2. [state |-> s, signed |-> rows[a].signed] \in Row
  BY <1>0 DEF Row
<1>3. TxTypes(A, S)'
  BY <1>1, <1>2 DEF TxTypes
<1>4. /\ \A b \in A : rows'[b].signed = rows[b].signed /\ (b # a => rows'[b] = rows[b])
      /\ rows'[a].state = s /\ Taken(a)'
  <2>1. rows'[a] = [state |-> s, signed |-> rows[a].signed]
    BY <1>0, <1>1
  <2>2. \A b \in A : b # a => rows'[b] = rows[b]
    BY <1>0, <1>1
  <2>3. rows'[a].state = s /\ rows'[a].signed = rows[a].signed
    BY <2>1
  <2>4. Taken(a)'
    BY <2>3 DEF Taken
  <2> QED BY <2>2, <2>3, <2>4
<1>5. InHand(A)'
  BY <1>4 DEF InHand, Taken, TxTypes, TxSteps, StoredSteps
<1>6. OneSender'
  BY DEF OneSender, At, TxTypes, LocalsOver, TxSteps
<1>7. ReceiptInMind'
  BY DEF ReceiptInMind, At, TxTypes, LocalsOver, TxSteps
<1>8. StoredFirst(A)' /\ RowsAreTrue(A)'
  BY <1>4 DEF StoredFirst, RowsAreTrue
<1>9. SlotStep(A)
  BY <1>4 DEF SlotStep, SlotsUnchanged, Taken
<1>10. RowsKept(A)
  <2>1. ASSUME rows[a].state = "SAFE_HALT", ~rows[a].signed
        PROVE  rows'[a] = rows[a]
    <3>1. rows[a] = [state |-> s, signed |-> rows[a].signed]
      BY <2>1, <1>0, RowWithState
    <3> QED BY <3>1, <1>0, <1>1
  <2> QED BY <2>1, <1>4 DEF RowsKept, Taken
<1> QED BY <1>3, <1>5, <1>6, <1>7, <1>8, <1>9, <1>10

LEMMA IdleTyped == ASSUME NEW A, NEW S, "idle" \in S PROVE Idle \in LocalsOver(A, S)
  BY DEF Idle, LocalsOver, Modes

\* Leaving the cycle, or going on to park the row.
LEMMA LeaveKeeps ==
    ASSUME NEW A, NEW S, {"idle", "halt"} \subseteq S, TxInv(A, S), NEW p \in Process,
           End(p) \/ (Goto(p, "halt") /\ local[p].pc \in TxSteps),
           UNCHANGED <<rows, network>>, failures' \in Nat
    PROVE  TxInv(A, S)'
<1>1. CASE End(p)
  BY <1>1, IdleTyped, MoveKeeps DEF End, Idle, TxSteps
<1>2. CASE Goto(p, "halt") /\ local[p].pc \in TxSteps
  BY <1>2, StepKeeps DEF StoredSteps
<1> QED BY <1>1, <1>2

\* A step that leaves rows and transactions alone leaves the slots alone.
LEMMA NothingOfSlots ==
    ASSUME NEW A, UNCHANGED <<rows, network>>
    PROVE  SlotStep(A) /\ RowsKept(A)
  BY DEF SlotStep, SlotsUnchanged, RowsKept, Taken, network

------------------------------------------------------------------------------
(* The steps of CanaryTx, one by one.                                      *)

LEMMA SignKeeps ==
    ASSUME NEW A, NEW S, TxSteps \cup {"idle"} \subseteq S, TxInv(A, S),
           NEW p \in Process, NEW unparked, Sign(p, unparked)
    PROVE  TxInv(A, S)' /\ SlotStep(A) /\ RowsKept(A)
<1> DEFINE a == local[p].act
<1> USE DEF TxInv, network
<1>1. At(p, "sign") /\ a \in A /\ Taken(a) /\ UNCHANGED <<tx, sent, failures>>
  BY DEF Sign, At, InHand, TxSteps
<1>2. CASE rows[a].state = "RESERVED"
  <2>1. /\ rows' = [rows EXCEPT ![a] = Signed]
        /\ local' = [local EXCEPT ![p] = [local[p] EXCEPT !.pc = "broadcast"]]
    BY <1>2 DEF Sign, Goto
  <2>2. ~rows[a].signed
    BY <1>1, <1>2 DEF TxTypes, Row
  <2>3. TxTypes(A, S)'
    BY <1>1, <2>1 DEF TxTypes, LocalsOver, Row, Signed, TxSteps
  <2>4. Taken(a)' /\ rows'[a].signed /\ \A b \in A : b # a => rows'[b] = rows[b]
    BY <1>1, <2>1 DEF TxTypes, Taken, Signed
  <2>5. InHand(A)'
    BY <1>1, <2>1, <2>4 DEF InHand, Taken, TxTypes, LocalsOver, TxSteps, StoredSteps
  <2>6. tx[a] = "none" /\ sent[a] = 0
    BY <1>1, <2>2 DEF StoredFirst
  <2>7. \A q \in Process : At(q, "broadcast") => local[q].act # a
    BY <2>2 DEF InHand, StoredSteps, At
  <2>8. OneSender'
    BY <1>1, <2>1, <2>6, <2>7 DEF OneSender, At, TxTypes, LocalsOver
  <2>9. ReceiptInMind'
    BY <1>1, <2>1 DEF ReceiptInMind, At, TxTypes, LocalsOver
  <2>10. StoredFirst(A)' /\ RowsAreTrue(A)'
    BY <1>1, <2>1, <2>4 DEF StoredFirst, RowsAreTrue, TxTypes, Signed
  <2>11. SlotStep(A)
    BY <1>1, <1>2, <2>1, <2>2 DEF SlotStep, StoresOne
  <2>12. RowsKept(A)
    BY <1>1, <1>2, <2>1, <2>4 DEF RowsKept, TxTypes, Signed, Taken
  <2> QED BY <2>3, <2>5, <2>8, <2>9, <2>10, <2>11, <2>12
<1>3. CASE rows[a].state # "RESERVED"
  <2>1. UNCHANGED rows /\ (End(p) \/ Goto(p, "halt")) /\ failures' \in Nat
    BY <1>1, <1>3 DEF Sign, SigningThrew, TxTypes
  <2>2. TxInv(A, S)'
    BY <1>1, <2>1, LeaveKeeps DEF At, TxSteps
  <2> QED BY <1>1, <2>1, <2>2, NothingOfSlots
<1> QED BY <1>2, <1>3

\* The network learns of the transaction, and nobody sends it again.
LEMMA SendKeeps ==
    ASSUME NEW A, NEW S, TxInv(A, S), NEW p \in Process, At(p, "broadcast"),
           Send(local[p].act), NEW step \in {"submit", "halt"} \cap S, Goto(p, step),
           UNCHANGED rows, failures' \in Nat
    PROVE  TxInv(A, S)' /\ SlotStep(A) /\ RowsKept(A)
<1> DEFINE a == local[p].act
<1> USE DEF TxInv
<1>1. a \in A /\ rows[a].signed /\ sent[a] = 0
  BY DEF InHand, OneSender, TxSteps, StoredSteps, At
<1>2. /\ tx' = [tx EXCEPT ![a] = IF @ = "none" THEN "pending" ELSE @]
      /\ sent' = [sent EXCEPT ![a] = @ + 1]
      /\ local' = [local EXCEPT ![p] = [local[p] EXCEPT !.pc = step]]
  BY DEF Send, Goto
<1>3. sent' = [sent EXCEPT ![a] = 1] /\ tx' \in [A -> TxStates]
  BY <1>1, <1>2 DEF TxTypes, TxStates
<1>4. TxTypes(A, S)'
  BY <1>2, <1>3 DEF TxTypes, LocalsOver
<1>5. InHand(A)'
  BY <1>2 DEF InHand, Taken, TxTypes, LocalsOver, TxSteps, StoredSteps, At
<1>6. OneSender'
  BY <1>2, <1>3 DEF OneSender, At, TxTypes, LocalsOver, InHand, TxSteps
<1>7. \A b \in A : tx[b] \in Receipts => tx'[b] = tx[b]
  BY <1>1, <1>2 DEF TxTypes, Receipts
<1>8. ReceiptInMind'
  BY <1>2, <1>7 DEF ReceiptInMind, At, TxTypes, LocalsOver, InHand, TxSteps, Receipts
<1>9. StoredFirst(A)' /\ RowsAreTrue(A)'
  BY <1>1, <1>2, <1>3, <1>7 DEF StoredFirst, RowsAreTrue, TxTypes, Receipts
<1>10. SlotStep(A) /\ RowsKept(A)
  BY <1>1, <1>3, <1>7 DEF SlotStep, SendsOne, RowsKept, Taken, TxTypes, Receipts
<1> QED BY <1>4, <1>5, <1>6, <1>8, <1>9, <1>10

LEMMA SubmitKeeps ==
    ASSUME NEW A, NEW S, TxSteps \cup {"idle"} \subseteq S, TxInv(A, S),
           NEW p \in Process, Submit(p)
    PROVE  TxInv(A, S)' /\ SlotStep(A) /\ RowsKept(A)
<1> DEFINE a == local[p].act
<1>1. /\ At(p, "submit") /\ a \in A /\ Taken(a) /\ rows[a].signed
      /\ UNCHANGED <<network, failures>> /\ failures' \in Nat
  BY DEF Submit, At, TxInv, InHand, TxTypes, TxSteps, StoredSteps
<1>2. CASE rows[a].state = "SIGNED"
  <2> DEFINE l == [local[p] EXCEPT !.pc = "receipt"]
  <2>1. rows' = [rows EXCEPT ![a].state = "SUBMITTED"] /\ local' = [local EXCEPT ![p] = l]
    BY <1>2 DEF Submit, Goto
  <2>2. l \in LocalsOver(A, S) /\ l.pc = "receipt" /\ l.act = a
    BY DEF TxInv, TxTypes, LocalsOver, TxSteps
  <2> HIDE DEF l
  <2> QED BY <1>1, <2>1, <2>2, RowKeeps
<1>3. CASE rows[a].state # "SIGNED"
  <2>1. UNCHANGED rows /\ Goto(p, "halt")
    BY <1>3 DEF Submit
  <2>2. TxInv(A, S)'
    BY <1>1, <2>1, LeaveKeeps DEF At, TxSteps
  <2> QED BY <1>1, <2>1, <2>2, NothingOfSlots DEF network
<1> QED BY <1>2, <1>3

LEMMA ReadReceiptKeeps ==
    ASSUME NEW A, NEW S, TxSteps \cup {"idle"} \subseteq S, TxInv(A, S),
           NEW p \in Process, ReadReceipt(p)
    PROVE  TxInv(A, S)'
<1> DEFINE a == local[p].act
<1>1. At(p, "receipt") /\ UNCHANGED <<rows, network>> /\ failures' \in Nat
  BY DEF ReadReceipt, TxInv, TxTypes
<1>2. \/ tx[a] = "success" /\ Goto(p, "observe")
      \/ tx[a] = "reverted" /\ Goto(p, "revert")
      \/ End(p) \/ Goto(p, "halt")
  BY DEF ReadReceipt, Throw
<1>3. CASE tx[a] = "success" /\ Goto(p, "observe")
  BY <1>1, <1>3, StepKeeps DEF At, TxSteps, StoredSteps
<1>4. CASE tx[a] = "reverted" /\ Goto(p, "revert")
  BY <1>1, <1>4, StepKeeps DEF At, TxSteps, StoredSteps
<1>5. CASE End(p) \/ Goto(p, "halt")
  BY <1>1, <1>5, LeaveKeeps DEF At, TxSteps
<1> QED BY <1>2, <1>3, <1>4, <1>5

LEMMA ObserveKeeps ==
    ASSUME NEW A, NEW S, TxSteps \cup {"idle"} \subseteq S, TxInv(A, S),
           NEW p \in Process, NEW evidence, Observe(p, evidence)
    PROVE  TxInv(A, S)'
<1>1. At(p, "observe") /\ UNCHANGED <<rows, network>> /\ failures' \in Nat
  BY DEF Observe, TxInv, TxTypes
<1>2. tx[local[p].act] = "success"
  BY <1>1 DEF TxInv, ReceiptInMind, At
<1>3. CASE Goto(p, "include")
  BY <1>1, <1>2, <1>3, StepKeeps DEF At, TxSteps, StoredSteps
<1>4. CASE End(p) \/ Goto(p, "halt")
  BY <1>1, <1>4, LeaveKeeps DEF At, TxSteps
<1> QED BY <1>3, <1>4 DEF Observe, Throw

\* markIncluded, whatever step without an action in hand the process goes on to.
LEMMA IncludeKeeps ==
    ASSUME NEW A, NEW S, TxInv(A, S), NEW p \in Process, MarkIncluded(p),
           NEW l \in LocalsOver(A, S), l.pc \notin TxSteps, local' = [local EXCEPT ![p] = l]
    PROVE  TxInv(A, S)' /\ SlotStep(A) /\ RowsKept(A)
<1> DEFINE a == local[p].act
<1>1. a \in A /\ Taken(a) /\ rows[a].signed /\ tx[a] = "success"
  BY DEF MarkIncluded, At, TxInv, InHand, ReceiptInMind, TxSteps, StoredSteps
<1>2. rows' = [rows EXCEPT ![a].state = "INCLUDED"] /\ UNCHANGED <<network, failures>>
  BY DEF MarkIncluded
<1> QED BY <1>1, <1>2, RowKeeps

LEMMA MarkRevertedKeeps ==
    ASSUME NEW A, NEW S, "idle" \in S, TxInv(A, S), NEW p \in Process, MarkReverted(p)
    PROVE  TxInv(A, S)' /\ SlotStep(A) /\ RowsKept(A)
<1> DEFINE a == local[p].act
<1>1. a \in A /\ Taken(a) /\ rows[a].signed /\ tx[a] = "reverted"
  BY DEF MarkReverted, At, TxInv, InHand, ReceiptInMind, TxSteps, StoredSteps
<1>2. /\ rows' = [rows EXCEPT ![a].state = "REVERTED"]
      /\ local' = [local EXCEPT ![p] = Idle]
      /\ UNCHANGED <<network, failures>>
  BY DEF MarkReverted, End
<1>3. Idle \in LocalsOver(A, S) /\ Idle.pc \notin TxSteps
  BY IdleTyped DEF Idle, TxSteps
<1> QED BY <1>1, <1>2, <1>3, RowKeeps

LEMMA HaltKeeps ==
    ASSUME NEW A, NEW S, TxSteps \cup {"idle"} \subseteq S, TxInv(A, S),
           NEW p \in Process, Halt(p)
    PROVE  TxInv(A, S)'
<1>1. At(p, "halt") /\ UNCHANGED <<rows, network>> /\ failures' \in Nat
  BY DEF Halt, TxInv, TxTypes
<1>2. CASE Goto(p, "haltUpdate")
  BY <1>1, <1>2, StepKeeps DEF At, TxSteps, StoredSteps
<1>3. CASE End(p)
  BY <1>1, <1>3, LeaveKeeps DEF TxSteps
<1> QED BY <1>2, <1>3 DEF Halt

LEMMA HaltUpdateKeeps ==
    ASSUME NEW A, NEW S, "idle" \in S, TxInv(A, S), NEW p \in Process, HaltUpdate(p)
    PROVE  TxInv(A, S)' /\ SlotStep(A) /\ RowsKept(A)
<1> DEFINE a == local[p].act
<1>1. a \in A /\ Taken(a)
  BY DEF HaltUpdate, At, TxInv, InHand, TxSteps
<1>2. /\ rows' = [rows EXCEPT ![a].state = "SAFE_HALT"]
      /\ local' = [local EXCEPT ![p] = Idle]
      /\ UNCHANGED <<network, failures>>
  BY DEF HaltUpdate, End
<1>3. Idle \in LocalsOver(A, S) /\ Idle.pc \notin TxSteps
  BY IdleTyped DEF Idle, TxSteps
<1> QED BY <1>1, <1>2, <1>3, RowKeeps

------------------------------------------------------------------------------
(* All of them together.                                                   *)

LEMMA TransactionKeeps ==
    ASSUME NEW A, NEW S, TxSteps \cup {"idle"} \subseteq S, TxInv(A, S),
           NEW p \in Process, NEW unparked, NEW evidence,
           TransactionStep(p, unparked, evidence)
    PROVE  TxInv(A, S)' /\ SlotStep(A) /\ RowsKept(A)
<1>1. CASE Sign(p, unparked)
  BY <1>1, SignKeeps
<1>2. CASE Broadcast(p)
  <2>1. /\ At(p, "broadcast") /\ Send(local[p].act) /\ Goto(p, "submit")
        /\ UNCHANGED rows /\ failures' \in Nat
    BY <1>2 DEF Broadcast, TxInv, TxTypes
  <2>2. "submit" \in {"submit", "halt"} \cap S
    BY DEF TxSteps
  <2> QED BY <2>1, <2>2, SendKeeps
<1>3. CASE Submit(p)
  BY <1>3, SubmitKeeps
<1>4. CASE ReadReceipt(p)
  BY <1>4, ReadReceiptKeeps, NothingOfSlots DEF ReadReceipt, network
<1>5. CASE Observe(p, evidence)
  BY <1>5, ObserveKeeps, NothingOfSlots DEF Observe, network
<1>6. CASE MarkReverted(p)
  BY <1>6, MarkRevertedKeeps
<1>7. CASE Halt(p)
  BY <1>7, HaltKeeps, NothingOfSlots DEF Halt, network
<1>8. CASE HaltUpdate(p)
  BY <1>8, HaltUpdateKeeps
<1> QED BY <1>1, <1>2, <1>3, <1>4, <1>5, <1>6, <1>7, <1>8 DEF TransactionStep

LEMMA FailureKeeps ==
    ASSUME NEW A, NEW S, TxSteps \cup {"idle"} \subseteq S, TxInv(A, S),
           NEW p \in Process, NEW unparked,
           TransactionFails(p, unparked) \/ Crash(p)
    PROVE  TxInv(A, S)' /\ SlotStep(A) /\ RowsKept(A)
<1>0. failures' \in Nat /\ UNCHANGED rows
  BY DEF TransactionFails, Crash, SignFails, BroadcastFails, ReadFails, Fails, TxInv, TxTypes
<1>1. CASE SignFails(p, unparked)
  BY <1>0, <1>1, LeaveKeeps, NothingOfSlots
  DEF SignFails, SigningThrew, At, TxSteps, network
<1>2. CASE BroadcastFails(p)
  <2>1. At(p, "broadcast") /\ Goto(p, "halt")
    BY <1>2 DEF BroadcastFails
  <2>2. CASE Send(local[p].act)
    BY <1>0, <2>1, <2>2, SendKeeps, "halt" \in {"submit", "halt"} \cap S DEF TxSteps
  <2>3. CASE UNCHANGED network
    BY <1>0, <2>1, <2>3, LeaveKeeps, NothingOfSlots DEF At, TxSteps, network
  <2> QED BY <1>2, <2>2, <2>3 DEF BroadcastFails
<1>3. CASE ReadFails(p)
  BY <1>0, <1>3, LeaveKeeps, NothingOfSlots DEF ReadFails, Throw, TxSteps, network
<1>4. CASE Crash(p)
  BY <1>0, <1>4, LeaveKeeps, NothingOfSlots DEF Crash, TxSteps, network
<1> QED BY <1>1, <1>2, <1>3, <1>4 DEF TransactionFails
==============================================================================
