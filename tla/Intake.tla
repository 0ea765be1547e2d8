------------------------------- MODULE Intake -------------------------------
(***************************************************************************)
(* What an upload promises, without its steps: a file's rows become        *)
(* visible to the engine all at once or not at all, no row is visible      *)
(* twice, and only the demo reset takes anything away.                     *)
(***************************************************************************)
EXTENDS FiniteSets

CONSTANTS
    Uploads,     \* the imports there may be
    Wholes       \* the sets of rows that make up one whole file

VARIABLE published   \* published[u]: the rows that upload u made visible

Init == published = [u \in Uploads |-> {}]

Publish(u, rows) ==
    /\ published[u] = {}
    /\ \A other \in Uploads : published[other] \cap rows = {}
    /\ published' = [published EXCEPT ![u] = rows]

Withdraw == published' = [u \in Uploads |-> {}]

Next == \/ \E u \in Uploads, rows \in Wholes : Publish(u, rows)
        \/ Withdraw

Spec == Init /\ [][Next]_published
=============================================================================
