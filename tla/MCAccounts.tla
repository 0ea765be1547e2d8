----------------------------- MODULE MCAccounts -----------------------------
(* Instances of Accounts for TLC.                                          *)
EXTENDS Accounts, TLC

CONSTANTS ann, bob, cy, q1, q2, q3

\* Seeded accounts of two roles; the third address can only register.
MCDemoRole == ann :> "admin" @@ bob :> "analyst"

RequestSymmetry == Permutations(Requests)
=============================================================================
