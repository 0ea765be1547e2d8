---------------------------- MODULE Attribution ----------------------------
(***************************************************************************)
(* What a reconciliation run promises about money: which credit on the     *)
(* bank statement pays which settlement.  An attribution is final, one to  *)
(* one, and a settlement is cleared, if at all, when it gets its credit.   *)
(***************************************************************************)
CONSTANTS Payouts, Money

VARIABLES
    owner,      \* pairs <<credit, payout>>
    cleared     \* payouts that nobody has to look at

vars == <<owner, cleared>>

Init ==
    /\ owner = {}
    /\ cleared = {}

Attribute(k, b) ==
    /\ \A pair \in owner : pair[1] # k /\ pair[2] # b
    /\ owner' = owner \cup {<<k, b>>}
    /\ cleared' \in {cleared, cleared \cup {b}}

Next == \E k \in Money, b \in Payouts : Attribute(k, b)

Spec == Init /\ [][Next]_vars

\* No credit pays twice, no payout is paid twice, and what is cleared is paid.
OneToOne ==
    /\ \A p, q \in owner : p[1] = q[1] \/ p[2] = q[2] => p = q
    /\ \A b \in cleared : \E pair \in owner : pair[2] = b
=============================================================================
