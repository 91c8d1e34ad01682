------------------------------ MODULE CanaryRow ------------------------------
(***************************************************************************)
(* One row of a canary action table: the state machine that the buy, the   *)
(* entry approval, the revoke, the exit approval and the exit stores share *)
(* (canary_actions and the four tables beside it in src/src/canary).       *)
(*                                                                         *)
(* The stores differ in what they demand before a transition; those guards *)
(* are in the modules that use the rows.                                   *)
(***************************************************************************)
EXTENDS Naturals

\* `signed`: transaction_hash and serialized_transaction are stored.  A
\* parked row may lack them; a SKIPPED one has them when it closes an approval.
Row == [state : {"NONE", "RESERVED", "SAFE_HALT"}, signed : {FALSE}]
       \cup [state : {"SIGNED", "SUBMITTED", "SAFE_HALT", "INCLUDED", "REVERTED"}, signed : {TRUE}]
       \cup [state : {"SKIPPED"}, signed : BOOLEAN]

Absent == [state |-> "NONE", signed |-> FALSE]
Skipped == [state |-> "SKIPPED", signed |-> FALSE]
Reserved == [state |-> "RESERVED", signed |-> FALSE]
Signed == [state |-> "SIGNED", signed |-> TRUE]

\* listUnresolvedActions, listUnresolved, and the states markSafeHalt accepts.
Unresolved == {"RESERVED", "SIGNED", "SUBMITTED", "SAFE_HALT"}

\* The states markIncluded and markReverted accept.
Reconcilable == {"SIGNED", "SUBMITTED", "SAFE_HALT"}

\* The outcome of a transaction as its receipt shows it.
Receipts == {"success", "reverted"}
TxStates == {"none", "pending"} \cup Receipts
==============================================================================
