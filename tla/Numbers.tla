------------------------------ MODULE Numbers ------------------------------
(***************************************************************************)
(* What the modules of money and of evidence need of numbers written in    *)
(* decimal, and the sum of a sequence.                                     *)
(***************************************************************************)
EXTENDS Integers, Sequences

\* The powers of ten.
Ten[n \in Nat] == IF n = 0 THEN 1 ELSE 10 * Ten[n - 1]

\* The powers of two.
Two[n \in Nat] == IF n = 0 THEN 1 ELSE 2 * Two[n - 1]

\* How many binary digits n has.
BitCount[n \in Nat] == IF n = 0 THEN 0 ELSE BitCount[n \div 2] + 1

\* The quotient n / d as a whole number, half to even.
HalfEven(n, d) ==
    LET q == n \div d
        r == n % d
    IN  IF 2 * r > d \/ (2 * r = d /\ q % 2 = 1) THEN q + 1 ELSE q

\* How many digits n is written with.
DigitCount[n \in Nat] == IF n < 10 THEN 1 ELSE DigitCount[n \div 10] + 1

\* How many zeros n, not zero itself, ends in, and n without them.
Zeros[n \in Nat] == IF n # 0 /\ n % 10 = 0 THEN Zeros[n \div 10] + 1 ELSE 0
Trimmed(n)       == n \div Ten[Zeros[n]]

SumOf(seq) ==
    LET upTo[n \in 0..Len(seq)] == IF n = 0 THEN 0 ELSE upTo[n - 1] + seq[n]
    IN  upTo[Len(seq)]
=============================================================================
