---------------------------- MODULE BillingLedger ----------------------------
(***************************************************************************)
(* What the traffic accounting promises, without counters, rounds, users   *)
(* that change or nodes that are reloaded.  A byte that is moved is due    *)
(* once.  Reports settle part of what is due, and the panel bills just     *)
(* that.  A report whose answer is lost may be billed and stays due, so it *)
(* can be billed again: once for every such report.  What is due may get   *)
(* lost, and does not come back.                                           *)
(***************************************************************************)
EXTENDS Naturals

CONSTANT Key          \* what is billed separately

VARIABLES used,       \* bytes moved so far, per key
          due,        \* bytes still to be reported
          settled,    \* bytes of the reports that were acknowledged
          billed,     \* bytes the panel has added up
          doubts      \* reports without an answer so far

LedgerInit ==
    /\ used = [k \in Key |-> 0] /\ due = used /\ settled = used /\ billed = used
    /\ doubts = 0

\* A byte is moved; one on a connection nobody reads the counter of is not due.
Use(k) ==
    /\ used' = [used EXCEPT ![k] = @ + 1]
    /\ due' \in {due, [due EXCEPT ![k] = @ + 1]}
    /\ UNCHANGED <<settled, billed, doubts>>

\* An acknowledged report: the amounts move from due to settled, and are billed.
Settle ==
    /\ \A k \in Key : /\ due'[k] \in 0..due[k]
                      /\ settled'[k] = settled[k] + (due[k] - due'[k])
                      /\ billed'[k] = billed[k] + (due[k] - due'[k])
    /\ UNCHANGED <<used, doubts>>

\* A report without an answer: it may be billed, and all of it stays due.
Doubt ==
    /\ doubts' = doubts + 1
    /\ \A k \in Key : billed'[k] \in billed[k]..(billed[k] + due[k])
    /\ UNCHANGED <<used, due, settled>>

Lose ==
    /\ \A k \in Key : due'[k] \in 0..due[k]
    /\ UNCHANGED <<used, settled, billed, doubts>>

LedgerNext == Settle \/ Doubt \/ Lose \/ \E k \in Key : Use(k)

LedgerSpec == LedgerInit /\ [][LedgerNext]_<<used, due, settled, billed, doubts>>
=============================================================================
