------------------------------- MODULE CanaryTx -------------------------------
(***************************************************************************)
(* The life of one canary transaction, from its reservation to its receipt,*)
(* as the buy, the entry approval, the revoke, the exit approval and the   *)
(* exit share it: sign, store, broadcast, mark, read the receipt, park.    *)
(*                                                                         *)
(* A step ends at an RPC read or at an SQL write, so that other processes, *)
(* the chain and the wallet's owner act in between: where a store selects  *)
(* a row and then updates it by key, select and update are two steps.  A   *)
(* crash, or an exception that leaves the cycle, loses a process's locals  *)
(* and nothing else; its supervisor starts it again.                       *)
(*                                                                         *)
(* These actions say nothing of the variables of the modules that use them.*)
(***************************************************************************)
EXTENDS CanaryRow

CONSTANTS
    Process,      \* canary processes over one database and one wallet
    MaxFailures   \* number of crashes and failed RPC calls (bound of the model)

ASSUME FailuresAssumption == MaxFailures \in Nat

VARIABLES
    rows,       \* rows[a]: the row of action a in its table
    tx,         \* tx[a]: what the network knows of a's transaction
    sent,       \* sent[a]: signed transactions of a handed to the network
    local,      \* local[p]: step, action and mode of process p
    failures    \* crashes and failed calls so far

network == <<tx, sent>>

\* act: the action whose row is worked on.  mode: is it being executed, taken up
\* again by the cycle, or taken up again by a later stage of the same cycle?
Modes == {"none", "execute", "reconcile", "advance"}
Idle == [pc |-> "idle", act |-> "none", mode |-> "none"]

At(p, step) == local[p].pc = step
Goto(p, step) == local' = [local EXCEPT ![p].pc = step]
End(p) == local' = [local EXCEPT ![p] = Idle]
IsOpen(a) == rows[a].state \in Unresolved

\* Begin to execute the freshly reserved action a.
Execute(p, a) == local' = [local EXCEPT ![p] = [pc |-> "recheck", act |-> a, mode |-> "execute"]]

\* reconcileOne, reconcileEntryApproval, reconcileRevoke, reconcileApproval and
\* reconcileExit: a reservation that was never signed is parked, a signed one has
\* its receipt looked up.
Reconcile(p, a, how) ==
    local' = [local EXCEPT ![p] = [pc |-> IF rows[a].signed THEN "receipt" ELSE "halt",
                                   act |-> a, mode |-> how]]

\* A store call or an RPC call threw: an executing process parks the row, a
\* reconciling one leaves the cycle.
Throw(p) == IF local[p].mode = "execute" THEN Goto(p, "halt") ELSE End(p)

Fails == failures < MaxFailures /\ failures' = failures + 1

\* Signing threw: the row is parked, except that of an action in `unparked`.
SigningThrew(p, unparked) == IF local[p].act \in unparked THEN End(p) ELSE Goto(p, "halt")

\* Mutant: markSigned forgets the transaction columns.
SignWithoutHash(p, unparked) ==
    /\ At(p, "sign")
    /\ LET a == local[p].act IN
       IF rows[a].state = "RESERVED"
       THEN /\ rows' = [rows EXCEPT ![a].state = "SIGNED"]
            /\ Goto(p, "broadcast")
       ELSE SigningThrew(p, unparked) /\ UNCHANGED rows
    /\ UNCHANGED <<network, failures>>

\* Mutant: markSigned updates by key alone.
SignAnyState(p, unparked) ==
    /\ At(p, "sign")
    /\ rows' = [rows EXCEPT ![local[p].act] = Signed]
    /\ Goto(p, "broadcast")
    /\ UNCHANGED <<network, failures>>

\* signTransaction, and markSigned with WHERE state = 'RESERVED'.
Sign(p, unparked) ==
    /\ At(p, "sign")
    /\ LET a == local[p].act IN
       IF rows[a].state = "RESERVED"
       THEN /\ rows' = [rows EXCEPT ![a] = Signed]
            /\ Goto(p, "broadcast")
       ELSE SigningThrew(p, unparked) /\ UNCHANGED rows
    /\ UNCHANGED <<network, failures>>

SignFails(p, unparked) ==
    /\ At(p, "recheck")
    /\ Fails
    /\ SigningThrew(p, unparked)
    /\ UNCHANGED <<rows, network>>

Send(a) ==
    /\ tx' = [tx EXCEPT ![a] = IF @ = "none" THEN "pending" ELSE @]
    /\ sent' = [sent EXCEPT ![a] = @ + 1]

\* broadcastExact.
Broadcast(p) ==
    /\ At(p, "broadcast")
    /\ Send(local[p].act)
    /\ Goto(p, "submit")
    /\ UNCHANGED <<rows, failures>>

\* ... throws, and the network may have the transaction all the same.
BroadcastFails(p) ==
    /\ At(p, "broadcast")
    /\ Fails
    /\ Send(local[p].act) \/ UNCHANGED network
    /\ Goto(p, "halt")
    /\ UNCHANGED rows

\* markSubmitted.
Submit(p) ==
    /\ At(p, "submit")
    /\ LET a == local[p].act IN
       IF rows[a].state = "SIGNED"
       THEN /\ rows' = [rows EXCEPT ![a].state = "SUBMITTED"]
            /\ Goto(p, "receipt")
       ELSE Goto(p, "halt") /\ UNCHANGED rows
    /\ UNCHANGED <<network, failures>>

\* Mutant: a receipt that is not there yet counts as a success.
ReadReceiptEagerly(p) ==
    /\ At(p, "receipt")
    /\ Goto(p, "observe")
    /\ UNCHANGED <<rows, network, failures>>

\* Mutant: the reconciliation only knows successful receipts.
ReadSuccessOnly(p) ==
    /\ At(p, "receipt")
    /\ IF tx[local[p].act] = "success" THEN Goto(p, "observe") ELSE End(p)
    /\ UNCHANGED <<rows, network, failures>>

\* getReceiptIfPresent.  markReverted selects its row in the same stretch.
ReadReceipt(p) ==
    /\ At(p, "receipt")
    /\ LET a == local[p].act IN
       CASE tx[a] = "success" -> Goto(p, "observe")
         [] tx[a] = "reverted" -> IF rows[a].state \in Reconcilable THEN Goto(p, "revert") ELSE Throw(p)
         [] OTHER -> End(p)
    /\ UNCHANGED <<rows, network, failures>>

\* The read of the balance or allowance after a success, and the select of
\* markIncluded; `evidence` is what it demands of the value read.
Observe(p, evidence) ==
    /\ At(p, "observe")
    /\ IF rows[local[p].act].state \in Reconcilable /\ evidence
       THEN Goto(p, "include")
       ELSE Throw(p)
    /\ UNCHANGED <<rows, network, failures>>

ReadFails(p) ==
    /\ local[p].pc \in {"receipt", "observe"}
    /\ Fails
    /\ Throw(p)
    /\ UNCHANGED <<rows, network>>

\* The update of markIncluded.
MarkIncluded(p) ==
    /\ At(p, "include")
    /\ rows' = [rows EXCEPT ![local[p].act].state = "INCLUDED"]
    /\ UNCHANGED <<network, failures>>

\* The update of markReverted.
MarkReverted(p) ==
    /\ At(p, "revert")
    /\ rows' = [rows EXCEPT ![local[p].act].state = "REVERTED"]
    /\ End(p)
    /\ UNCHANGED <<network, failures>>

\* markSafeHalt: its select ...
Halt(p) ==
    /\ At(p, "halt")
    /\ IF IsOpen(local[p].act) THEN Goto(p, "haltUpdate") ELSE End(p)
    /\ UNCHANGED <<rows, network, failures>>

\* ... and its update, which keeps the transaction columns.
HaltUpdate(p) ==
    /\ At(p, "haltUpdate")
    /\ rows' = [rows EXCEPT ![local[p].act].state = "SAFE_HALT"]
    /\ End(p)
    /\ UNCHANGED <<network, failures>>

\* A crash, or an exception that leaves the cycle.
Crash(p) ==
    /\ ~At(p, "idle")
    /\ Fails
    /\ End(p)
    /\ UNCHANGED <<rows, network>>

------------------------------------------------------------------------------
\* What every action does between its reservation and its outcome.  `evidence` is
\* what the row under way demands of the value read after a success.
TransactionStep(p, unparked, evidence) ==
    \/ Sign(p, unparked)
    \/ Broadcast(p)
    \/ Submit(p)
    \/ ReadReceipt(p)
    \/ Observe(p, evidence)
    \/ MarkReverted(p)
    \/ Halt(p)
    \/ HaltUpdate(p)

TransactionFails(p, unparked) == SignFails(p, unparked) \/ BroadcastFails(p) \/ ReadFails(p)
==============================================================================
