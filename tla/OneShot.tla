------------------------------- MODULE OneShot -------------------------------
(***************************************************************************)
(* What a canary store promises of the one transaction it guards.  Of all  *)
(* the actions that compete for a slot at most one ever holds it, its      *)
(* signed transaction is on disk before it reaches the network, and it     *)
(* reaches the network as one transaction.  A crash may stop this anywhere *)
(* and nothing is retried: there is no fairness.                           *)
(***************************************************************************)
EXTENDS Naturals

CONSTANTS
    Contender,   \* actions that compete for the slot
    Nobody       \* none of them

VARIABLES
    holder,      \* the action that holds the slot
    durable,     \* is its signed transaction stored?
    sent         \* sent[a]: signed transactions of a handed to the network

vars == <<holder, durable, sent>>

Init ==
    /\ holder = Nobody
    /\ durable = FALSE
    /\ sent = [a \in Contender |-> 0]

Reserve(a) ==
    /\ holder = Nobody
    /\ holder' = a
    /\ UNCHANGED <<durable, sent>>

Sign ==
    /\ holder # Nobody
    /\ ~durable
    /\ durable' = TRUE
    /\ UNCHANGED <<holder, sent>>

Send ==
    /\ durable
    /\ \A a \in Contender : sent[a] = 0
    /\ sent' = [sent EXCEPT ![holder] = 1]
    /\ UNCHANGED <<holder, durable>>

Next == (\E a \in Contender : Reserve(a)) \/ Sign \/ Send

Spec == Init /\ [][Next]_vars
==============================================================================
