----------------------------- MODULE MCWorkflow -----------------------------
(* Instances of Workflow for TLC.                                          *)
EXTENDS Workflow, TLC

CONSTANTS r1, r2, c1, c2, rita, chitra

\* A reviewer and a controller.
MCRole == [u \in Users |-> IF u = rita THEN "reviewer" ELSE "controller"]

\* The first import raises one case below the threshold; the second makes it
\* material and raises another one.
MCFound == [d \in 0..MaxData |->
    [c \in Cases |-> CASE d = 0 -> "absent"
                          [] d = 1 -> IF c = c1 THEN "within" ELSE "absent"
                          [] OTHER -> IF c = c1 THEN "material" ELSE "within"]]

\* With the second file the first case is explained, and another one appears.
MCFoundAnew == [d \in 0..MaxData |->
    [c \in Cases |-> CASE d = 1 /\ c = c1 -> "within"
                       [] d = 2 /\ c = c2 -> "material"
                       [] OTHER -> "absent"]]

RunSymmetry == Permutations({r1, r2})
=============================================================================
