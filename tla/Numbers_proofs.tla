--------------------------- MODULE Numbers_proofs ---------------------------
(***************************************************************************)
(* The lemmas about numbers that the proofs of the other modules cite.     *)
(* The library's induction theorems take an operator; here a set stands    *)
(* for it, and the recursions of Numbers are shown to define functions.    *)
(***************************************************************************)
EXTENDS Numbers, FiniteSets, FiniteSetTheorems, WellFoundedInduction, TLAPS

\* A set of naturals has a smallest member.
LEMMA SmallestOf ==
    ASSUME NEW T \in SUBSET Nat, T # {}
    PROVE  \E n \in T : \A m \in T : n <= m
<1> DEFINE R == {pair \in Nat \X Nat : pair[1] < pair[2]}
<1>1. IsWellFoundedOn(R, Nat)
  BY NatLessThanWellFounded DEF OpToRel
<1>2. \A m, n \in Nat : m < n => <<m, n>> \in R
  OBVIOUS
<1> HIDE DEF R
<1>3. PICK n \in T : \A m \in T : <<m, n>> \notin R
  BY <1>1, WFMin
<1>4. ASSUME NEW m \in T
      PROVE  n <= m
  <2>1. ~(m < n)
    BY <1>2, <1>3
  <2> QED  BY <2>1
<1> QED  BY <1>4

\* Induction, with the set of the numbers that it has reached for the predicate.
LEMMA Induction ==
    ASSUME NEW T \in SUBSET Nat, 0 \in T, \A n \in T : n + 1 \in T
    PROVE  T = Nat
<1> SUFFICES ASSUME T # Nat
             PROVE  FALSE
  OBVIOUS
<1>1. PICK n \in Nat \ T : \A m \in Nat \ T : n <= m
  BY SmallestOf
<1>2. n # 0 /\ n - 1 \in Nat /\ n - 1 \in T
  BY <1>1
<1> QED  BY <1>1, <1>2

\* Induction on everything below.
LEMMA StrongInduction ==
    ASSUME NEW T \in SUBSET Nat, \A n \in Nat : 0..(n - 1) \subseteq T => n \in T
    PROVE  T = Nat
<1> SUFFICES ASSUME T # Nat
             PROVE  FALSE
  OBVIOUS
<1>1. PICK n \in Nat \ T : \A m \in Nat \ T : n <= m
  BY SmallestOf
<1>2. 0..(n - 1) \subseteq T
  BY <1>1
<1> QED  BY <1>1, <1>2

----------------------------------------------------------------------------
(* Recursion.                                                             *)

\* A first value and a step from each value to the next, in S, and the sequence
\* of values that they determine.
CanIterate(S, a, step) == a \in S /\ step \in [Nat \X S -> S]
Iterates(f, S, a, step) ==
    /\ f \in [Nat -> S]
    /\ f[0] = a /\ \A n \in Nat : f[n + 1] = step[<<n, f[n]>>]

\* A recursion from each number to the next defines a function.
LEMMA Recursion ==
    ASSUME NEW S, NEW a, NEW step, CanIterate(S, a, step)
    PROVE  \E f : Iterates(f, S, a, step)
<1> USE DEF CanIterate
<1> DEFINE Approx(n) == {h \in [0..n -> S] :
                             h[0] = a /\ \A i \in 0..(n - 1) : h[i + 1] = step[<<i, h[i]>>]}
<1>1. \A n \in Nat : Approx(n) # {}
  <2> DEFINE T == {n \in Nat : Approx(n) # {}}
  <2>1. 0 \in T
    <3>1. [i \in 0..0 |-> a] \in Approx(0)
      OBVIOUS
    <3> QED  BY <3>1
  <2>2. ASSUME NEW n \in T
        PROVE  n + 1 \in T
    <3>1. PICK h : h \in Approx(n)
      BY <2>2
    <3> DEFINE g == [i \in 0..(n + 1) |-> IF i = n + 1 THEN step[<<n, h[n]>>] ELSE h[i]]
    <3>2. h \in [0..n -> S] /\ n \in Nat /\ h[n] \in S
      BY <3>1
    <3>3. g \in [0..(n + 1) -> S]
      BY <3>2
    <3>4. g[0] = a
      BY <3>1, <3>2
    <3>5. ASSUME NEW i \in 0..(n + 1 - 1)
          PROVE  g[i + 1] = step[<<i, g[i]>>]
      <4>1. i \in 0..n /\ g[i] = h[i]
        BY <3>2
      <4>2. CASE i = n
        <5>1. i + 1 = n + 1 /\ n + 1 \in 0..(n + 1)
          BY <3>2, <4>2
        <5>2. g[n + 1] = step[<<n, h[n]>>]
          BY <5>1
        <5> QED  BY <4>1, <4>2, <5>1, <5>2
      <4>3. CASE i # n
        <5>1. i \in 0..(n - 1) /\ g[i + 1] = h[i + 1]
          BY <3>2, <4>3
        <5> QED  BY <3>1, <4>1, <5>1
      <4> QED  BY <4>2, <4>3
    <3> HIDE DEF g
    <3>6. g \in Approx(n + 1)
      BY <3>3, <3>4, <3>5
    <3> QED  BY <3>2, <3>6
  <2> HIDE DEF T, Approx
  <2>3. T = Nat
    <3>1. T \in SUBSET Nat
      BY DEF T
    <3> QED  BY <2>1, <2>2, <3>1, Induction
  <2> QED  BY <2>3 DEF T
<1>0. \A n \in Nat : \A h \in Approx(n) :
          /\ h \in [0..n -> S] /\ h[0] = a
          /\ \A i \in 0..(n - 1) : h[i + 1] = step[<<i, h[i]>>]
  OBVIOUS
<1> HIDE DEF Approx
<1> DEFINE Agree(i) == \A n, m \in Nat : \A h \in Approx(n), g \in Approx(m) :
                           i <= n /\ i <= m => h[i] = g[i]
<1>2. \A i \in Nat : Agree(i)
  <2>1. Agree(0)
    BY <1>0
  <2>2. ASSUME NEW i \in Nat, Agree(i)
        PROVE  Agree(i + 1)
    <3>1. SUFFICES ASSUME NEW n \in Nat, NEW m \in Nat,
                          NEW h \in Approx(n), NEW g \in Approx(m), i + 1 <= n, i + 1 <= m
                   PROVE  h[i + 1] = g[i + 1]
      OBVIOUS
    <3>2. i \in 0..(n - 1) /\ i \in 0..(m - 1) /\ i <= n /\ i <= m
      BY <3>1
    <3>3. h[i] = g[i]
      BY <2>2, <3>2
    <3>4. h[i + 1] = step[<<i, h[i]>>] /\ g[i + 1] = step[<<i, g[i]>>]
      BY <1>0, <3>2
    <3> QED  BY <3>3, <3>4
  <2> DEFINE T == {i \in Nat : Agree(i)}
  <2> HIDE DEF Agree
  <2>3. T = Nat
    <3>1. T \in SUBSET Nat /\ 0 \in T /\ \A i \in T : i + 1 \in T
      BY <2>1, <2>2
    <3> HIDE DEF T
    <3> QED  BY <3>1, Induction
  <2> QED  BY <2>3
<1> DEFINE F(n) == CHOOSE h : h \in Approx(n)
           f == [n \in Nat |-> F(n)[n]]
<1>3. \A n \in Nat : F(n) \in Approx(n)
  BY <1>1
<1> HIDE DEF F
<1>4. f \in [Nat -> S]
  BY <1>0, <1>3
<1>5. f[0] = a
  BY <1>0, <1>3
<1>6. ASSUME NEW n \in Nat
      PROVE  f[n + 1] = step[<<n, f[n]>>]
  <2>1. F(n + 1) \in Approx(n + 1) /\ F(n) \in Approx(n) /\ n + 1 \in Nat
    BY <1>3
  <2>2. F(n + 1)[n] = F(n)[n]
    BY <1>2, <2>1
  <2>3. F(n + 1)[n + 1] = step[<<n, F(n + 1)[n]>>]
    BY <1>0, <2>1
  <2> QED  BY <2>1, <2>2, <2>3
<1> QED  BY <1>4, <1>5, <1>6 DEF Iterates

----------------------------------------------------------------------------
(* Powers of ten and digits.                                              *)

\* The powers of ten are the powers of ten.
LEMMA TenFacts ==
    /\ Ten \in [Nat -> Nat \ {0}]
    /\ Ten[0] = 1
    /\ \A n \in Nat : Ten[n + 1] = 10 * Ten[n]
<1> DEFINE Pos == Nat \ {0}
           step == [p \in Nat \X Pos |-> 10 * p[2]]
           Is(f) == f = [n \in Nat |-> IF n = 0 THEN 1 ELSE 10 * f[n - 1]]
<1>1. CanIterate(Pos, 1, step)
  BY DEF CanIterate
<1>2. PICK f : Iterates(f, Pos, 1, step)
  <2> HIDE DEF step, Pos
  <2> QED  BY <1>1, Recursion
<1>3. \A n \in Nat : f[n + 1] = 10 * f[n]
  BY <1>2 DEF Iterates
<1>4. Is(f)
  <2>1. ASSUME NEW n \in Nat, n # 0
        PROVE  f[n] = 10 * f[n - 1]
    <3>1. n - 1 \in Nat /\ (n - 1) + 1 = n
      BY <2>1
    <3> QED  BY <1>3, <3>1
  <2> QED  BY <1>2, <2>1 DEF Iterates
<1>5. Is(Ten)
  BY <1>4 DEF Ten
<1>6. Ten[0] = 1 /\ \A n \in Nat : Ten[n + 1] = 10 * Ten[n]
  <2>1. \A n \in Nat : Ten[n] = IF n = 0 THEN 1 ELSE 10 * Ten[n - 1]
    BY <1>5
  <2>2. ASSUME NEW n \in Nat
        PROVE  Ten[n + 1] = 10 * Ten[n]
    <3>1. n + 1 \in Nat /\ n + 1 # 0 /\ (n + 1) - 1 = n
      OBVIOUS
    <3>2. Ten[n + 1] = 10 * Ten[(n + 1) - 1]
      BY <2>1, <3>1
    <3> QED  BY <3>1, <3>2
  <2> QED  BY <2>1, <2>2
<1>7. DOMAIN Ten = Nat /\ Ten = [n \in Nat |-> Ten[n]]
  BY <1>5
<1> DEFINE T == {n \in Nat : Ten[n] \in Nat \ {0}}
<1>8. T = Nat
  <2>1. 0 \in T /\ \A n \in T : n + 1 \in T
    BY <1>6
  <2>2. T \in SUBSET Nat
    OBVIOUS
  <2> HIDE DEF T
  <2> QED  BY <2>1, <2>2, Induction
<1>9. \A n \in Nat : Ten[n] \in Nat \ {0}
  BY <1>8
<1> QED  BY <1>6, <1>7, <1>9

\* A value for the numbers in stop and a step from the value of back[n], a
\* smaller number, for the others, in S, and the function that they determine.
CanDescend(S, stop, back, base, step) ==
    /\ stop \in SUBSET Nat /\ 0 \in stop
    /\ back \in [Nat -> Nat] /\ \A n \in Nat : n # 0 => back[n] <= n - 1
    /\ base \in [Nat -> S] /\ step \in [S -> S]
Descends(f, S, stop, back, base, step) ==
    /\ f \in [Nat -> S]
    /\ \A n \in Nat : f[n] = IF n \in stop THEN base[n] ELSE step[f[back[n]]]

\* A recursion from a smaller number to n, as over the digits of n, defines a function.
LEMMA Descent ==
    ASSUME NEW S, NEW stop, NEW back, NEW base, NEW step, CanDescend(S, stop, back, base, step)
    PROVE  \E f : Descends(f, S, stop, back, base, step)
<1> USE DEF CanDescend
<1> DEFINE F == [Nat -> S]
           next == [p \in Nat \X F |->
                       [n \in Nat |-> IF n \in stop THEN base[n] ELSE step[p[2][back[n]]]]]
<1>0. \A n \in Nat : back[n] \in Nat /\ (n # 0 => back[n] <= n - 1)
  OBVIOUS
<1>1. CanIterate(F, base, next)
  <2>1. ASSUME NEW p \in Nat \X F, NEW n \in Nat
        PROVE  (IF n \in stop THEN base[n] ELSE step[p[2][back[n]]]) \in S
    <3>1. p[2] \in F
      OBVIOUS
    <3>2. p[2][back[n]] \in S
      BY <1>0, <3>1
    <3> QED  BY <3>2
  <2> QED  BY <2>1 DEF CanIterate
<1>2. PICK G : Iterates(G, F, base, next)
  <2> HIDE DEF F, next
  <2> QED  BY <1>1, Recursion
<1>3. G \in [Nat -> [Nat -> S]] /\ G[0] = base
  BY <1>2 DEF Iterates
<1>4. \A m, n \in Nat : G[m + 1][n] = IF n \in stop THEN base[n] ELSE step[G[m][back[n]]]
  <2>1. ASSUME NEW m \in Nat, NEW n \in Nat
        PROVE  G[m + 1][n] = IF n \in stop THEN base[n] ELSE step[G[m][back[n]]]
    <3>1. G[m + 1] = next[<<m, G[m]>>] /\ G[m] \in F /\ <<m, G[m]>> \in Nat \X F
      BY <1>2, <1>3 DEF Iterates
    <3> QED  BY <3>1
  <2> QED  BY <2>1
<1> HIDE DEF F, next
<1> DEFINE Stable(m) == \A n \in 0..m : G[m + 1][n] = G[m][n]
<1>5. \A m \in Nat : Stable(m)
  <2>1. Stable(0)
    <3>1. \A n \in 0..0 : n = 0
      OBVIOUS
    <3>2. G[0 + 1][0] = base[0]
      BY <1>4
    <3> QED  BY <1>3, <3>1, <3>2
  <2>2. ASSUME NEW m \in Nat, Stable(m)
        PROVE  Stable(m + 1)
    <3>1. SUFFICES ASSUME NEW n \in 0..(m + 1)
                   PROVE  G[m + 1 + 1][n] = G[m + 1][n]
      OBVIOUS
    <3>2. m + 1 \in Nat /\ n \in Nat
      OBVIOUS
    <3>3. CASE n \in stop
      BY <1>4, <3>2, <3>3
    <3>4. CASE n \notin stop
      <4>1. n # 0 /\ back[n] \in 0..m
        BY <1>0, <3>2, <3>4
      <4>2. G[m + 1][back[n]] = G[m][back[n]]
        BY <2>2, <4>1
      <4> QED  BY <1>4, <3>2, <3>4, <4>2
    <3> QED  BY <3>3, <3>4
  <2> DEFINE T == {m \in Nat : Stable(m)}
  <2> HIDE DEF Stable
  <2>3. T = Nat
    <3>1. T \in SUBSET Nat /\ 0 \in T /\ \A m \in T : m + 1 \in T
      BY <2>1, <2>2
    <3> HIDE DEF T
    <3> QED  BY <3>1, Induction
  <2> QED  BY <2>3
<1>6. \A n, j \in Nat : G[n + j][n] = G[n][n]
  <2> SUFFICES ASSUME NEW n \in Nat
               PROVE  \A j \in Nat : G[n + j][n] = G[n][n]
    OBVIOUS
  <2> DEFINE T == {j \in Nat : G[n + j][n] = G[n][n]}
  <2>1. 0 \in T
    OBVIOUS
  <2>2. ASSUME NEW j \in T
        PROVE  j + 1 \in T
    <3>1. n + j \in Nat /\ n \in 0..(n + j) /\ n + (j + 1) = (n + j) + 1
      OBVIOUS
    <3>2. G[(n + j) + 1][n] = G[n + j][n]
      BY <1>5, <3>1
    <3> QED  BY <3>1, <3>2
  <2>3. T \in SUBSET Nat
    OBVIOUS
  <2> HIDE DEF T
  <2>4. T = Nat
    BY <2>1, <2>2, <2>3, Induction
  <2> QED  BY <2>4 DEF T
<1> HIDE DEF Stable
<1> DEFINE f == [n \in Nat |-> G[n][n]]
<1>7. f \in [Nat -> S]
  BY <1>3
<1>8. ASSUME NEW n \in Nat
      PROVE  f[n] = IF n \in stop THEN base[n] ELSE step[f[back[n]]]
  <2>1. CASE n = 0
    BY <1>3, <2>1
  <2>2. CASE n # 0
    <3>1. n - 1 \in Nat /\ (n - 1) + 1 = n /\ back[n] \in Nat
          /\ n - 1 - back[n] \in Nat /\ n - 1 = back[n] + (n - 1 - back[n])
      BY <1>0, <2>2
    <3>2. G[n][n] = IF n \in stop THEN base[n] ELSE step[G[n - 1][back[n]]]
      <4> HIDE DEF f
      <4>1. PICK k \in Nat : k = n - 1 /\ k + 1 = n
        BY <3>1
      <4>2. G[k + 1][n] = IF n \in stop THEN base[n] ELSE step[G[k][back[n]]]
        BY <1>4
      <4> QED  BY <4>1, <4>2
    <3>3. G[n - 1][back[n]] = G[back[n]][back[n]]
      <4>1. PICK b \in Nat, j \in Nat : b = back[n] /\ n - 1 = b + j
        BY <3>1
      <4>2. G[b + j][b] = G[b][b]
        BY <1>6
      <4> QED  BY <4>1, <4>2
    <3> QED  BY <3>1, <3>2, <3>3
  <2> QED  BY <2>1, <2>2
<1> HIDE DEF f
<1> QED  BY <1>7, <1>8 DEF Descends

\* What the recursion of DigitCount says of it.
LEMMA DigitCountFacts ==
    /\ DigitCount \in [Nat -> Nat \ {0}]
    /\ \A n \in Nat : DigitCount[n] = IF n < 10 THEN 1 ELSE DigitCount[n \div 10] + 1
<1> DEFINE Pos  == Nat \ {0}
           stop == 0..9
           tenth == [n \in Nat |-> n \div 10]
           base == [n \in Nat |-> 1]
           step == [d \in Pos |-> d + 1]
           Is(f) == f = [n \in Nat |-> IF n < 10 THEN 1 ELSE f[n \div 10] + 1]
<1>1. CanDescend(Pos, stop, tenth, base, step)
  BY DEF CanDescend
<1>2. PICK f : Descends(f, Pos, stop, tenth, base, step)
  <2> HIDE DEF Pos, stop, tenth, base, step
  <2> QED  BY <1>1, Descent
<1>3. f \in [Nat -> Pos] /\ \A n \in Nat : n \div 10 \in Nat
  BY <1>2 DEF Descends
<1>4. ASSUME NEW n \in Nat
      PROVE  f[n] = IF n < 10 THEN 1 ELSE f[n \div 10] + 1
  <2>1. n \div 10 \in Nat /\ f[n \div 10] \in Pos
    BY <1>3
  <2>2. f[n] = IF n \in stop THEN base[n] ELSE step[f[n \div 10]]
    <3>1. f[n] = IF n \in stop THEN base[n] ELSE step[f[tenth[n]]]
      <4> HIDE DEF stop, tenth, base, step
      <4> QED  BY <1>2 DEF Descends
    <3> HIDE DEF stop, base, step
    <3> QED  BY <3>1
  <2> QED  BY <2>1, <2>2
<1>5. Is(f)
  BY <1>3, <1>4
<1>6. DigitCount = CHOOSE g : Is(g)
  BY DEF DigitCount
<1> HIDE DEF Is
<1>7. Is(DigitCount)
  BY <1>5, <1>6
<1>8. DigitCount = [n \in Nat |-> IF n < 10 THEN 1 ELSE DigitCount[n \div 10] + 1]
  BY <1>7 DEF Is
<1>9. \A n \in Nat : DigitCount[n] = IF n < 10 THEN 1 ELSE DigitCount[n \div 10] + 1
  BY <1>8
<1> DEFINE T == {n \in Nat : DigitCount[n] \in Pos}
<1>10. T = Nat
  <2>1. ASSUME NEW n \in Nat, 0..(n - 1) \subseteq T
        PROVE  n \in T
    <3>1. CASE n < 10
      BY <1>9, <3>1
    <3>2. CASE ~(n < 10)
      <4>1. n \div 10 \in 0..(n - 1)
        BY <3>2
      <4>2. DigitCount[n \div 10] \in Pos
        BY <2>1, <4>1
      <4> QED  BY <1>9, <3>2, <4>2
    <3> QED  BY <3>1, <3>2
  <2>2. T \in SUBSET Nat
    OBVIOUS
  <2> HIDE DEF T
  <2> QED  BY <2>1, <2>2, StrongInduction
<1>11. \A n \in Nat : DigitCount[n] \in Pos
  BY <1>10
<1> QED  BY <1>8, <1>9, <1>11

\* What the recursion of Zeros says of it.
LEMMA ZerosFacts ==
    /\ Zeros \in [Nat -> Nat]
    /\ \A n \in Nat : Zeros[n] = IF n # 0 /\ n % 10 = 0 THEN Zeros[n \div 10] + 1 ELSE 0
<1> DEFINE stop == {n \in Nat : ~(n # 0 /\ n % 10 = 0)}
           tenth == [n \in Nat |-> n \div 10]
           base == [n \in Nat |-> 0]
           step == [d \in Nat |-> d + 1]
           Is(f) == f = [n \in Nat |-> IF n # 0 /\ n % 10 = 0 THEN f[n \div 10] + 1 ELSE 0]
<1>1. CanDescend(Nat, stop, tenth, base, step)
  BY DEF CanDescend
<1>2. PICK f : Descends(f, Nat, stop, tenth, base, step)
  <2> HIDE DEF stop, tenth, base, step
  <2> QED  BY <1>1, Descent
<1>3. f \in [Nat -> Nat] /\ \A n \in Nat : n \div 10 \in Nat
  BY <1>2 DEF Descends
<1>4. ASSUME NEW n \in Nat
      PROVE  f[n] = IF n # 0 /\ n % 10 = 0 THEN f[n \div 10] + 1 ELSE 0
  <2>1. n \div 10 \in Nat /\ f[n \div 10] \in Nat
    BY <1>3
  <2>2. f[n] = IF n \in stop THEN base[n] ELSE step[f[n \div 10]]
    <3>1. f[n] = IF n \in stop THEN base[n] ELSE step[f[tenth[n]]]
      <4> HIDE DEF stop, tenth, base, step
      <4> QED  BY <1>2 DEF Descends
    <3> HIDE DEF stop, base, step
    <3> QED  BY <3>1
  <2> QED  BY <2>1, <2>2
<1>5. Is(f)
  BY <1>3, <1>4
<1>6. Zeros = CHOOSE g : Is(g)
  BY DEF Zeros
<1> HIDE DEF Is
<1>7. Is(Zeros)
  BY <1>5, <1>6
<1>8. Zeros = [n \in Nat |-> IF n # 0 /\ n % 10 = 0 THEN Zeros[n \div 10] + 1 ELSE 0]
  BY <1>7 DEF Is
<1>9. \A n \in Nat : Zeros[n] = IF n # 0 /\ n % 10 = 0 THEN Zeros[n \div 10] + 1 ELSE 0
  BY <1>8
<1> DEFINE T == {n \in Nat : Zeros[n] \in Nat}
<1>10. T = Nat
  <2>1. ASSUME NEW n \in Nat, 0..(n - 1) \subseteq T
        PROVE  n \in T
    <3>1. CASE ~(n # 0 /\ n % 10 = 0)
      BY <1>9, <3>1
    <3>2. CASE n # 0 /\ n % 10 = 0
      <4>1. n \div 10 \in 0..(n - 1)
        BY <3>2
      <4>2. Zeros[n \div 10] \in Nat
        BY <2>1, <4>1
      <4> QED  BY <1>9, <3>2, <4>2
    <3> QED  BY <3>1, <3>2
  <2>2. T \in SUBSET Nat
    OBVIOUS
  <2> HIDE DEF T
  <2> QED  BY <2>1, <2>2, StrongInduction
<1>11. \A n \in Nat : Zeros[n] \in Nat
  BY <1>10
<1> QED  BY <1>8, <1>9, <1>11

----------------------------------------------------------------------------
(* Sums.                                                                  *)

\* A sum is the last of the sums of the beginnings.
LEMMA SumOfFacts ==
    ASSUME NEW seq \in Seq(Int)
    PROVE  \E f \in [0..Len(seq) -> Int] :
               /\ f[0] = 0
               /\ \A n \in 1..Len(seq) : f[n] = f[n - 1] + seq[n]
               /\ SumOf(seq) = f[Len(seq)]
<1> DEFINE len  == Len(seq)
           step == [p \in Nat \X Int |-> IF p[1] < len THEN p[2] + seq[p[1] + 1] ELSE 0]
           Is(f) == f = [n \in 0..len |-> IF n = 0 THEN 0 ELSE f[n - 1] + seq[n]]
<1>0. len \in Nat /\ \A n \in 1..len : seq[n] \in Int
  OBVIOUS
<1>1. CanIterate(Int, 0, step)
  <2>1. ASSUME NEW p \in Nat \X Int
        PROVE  (IF p[1] < len THEN p[2] + seq[p[1] + 1] ELSE 0) \in Int
    <3>1. p[1] < len => p[1] + 1 \in 1..len
      BY <1>0
    <3> QED  BY <1>0, <3>1
  <2> HIDE DEF len
  <2> QED  BY <2>1 DEF CanIterate
<1>2. PICK g : Iterates(g, Int, 0, step)
  <2> HIDE DEF step
  <2> QED  BY <1>1, Recursion
<1>3. g \in [Nat -> Int] /\ g[0] = 0
  BY <1>2 DEF Iterates
<1>4. ASSUME NEW n \in 1..len
      PROVE  g[n] = g[n - 1] + seq[n]
  <2>1. n - 1 \in Nat /\ n - 1 < len /\ (n - 1) + 1 = n /\ g[n - 1] \in Int
    BY <1>0, <1>3
  <2>2. \A k \in Nat : g[k + 1] = step[<<k, g[k]>>]
    BY <1>2 DEF Iterates
  <2>3. g[n] = step[<<n - 1, g[n - 1]>>]
    <3> HIDE DEF step
    <3> QED  BY <2>1, <2>2
  <2> QED  BY <2>1, <2>3
<1> DEFINE f == [n \in 0..len |-> g[n]]
<1>5. Is(f)
  <2>1. \A n \in 0..len : n # 0 => n \in 1..len /\ n - 1 \in 0..len
    BY <1>0
  <2> HIDE DEF len
  <2> QED  BY <1>3, <1>4, <2>1
<1>6. SumOf(seq) = (CHOOSE h : Is(h))[len]
  BY DEF SumOf
<1>7. PICK h : h = (CHOOSE u : Is(u))
  OBVIOUS
<1>8. Is(h)
  <2> HIDE DEF Is, f
  <2> QED  BY <1>5, <1>7
<1>9. h = [n \in 0..len |-> IF n = 0 THEN 0 ELSE h[n - 1] + seq[n]]
  BY <1>8 DEF Is
<1> HIDE DEF Is
<1>10. h[0] = 0 /\ \A n \in 1..len : h[n] = h[n - 1] + seq[n]
  BY <1>0, <1>9
<1> DEFINE T == {n \in Nat : n <= len => h[n] \in Int}
<1>11. T = Nat
  <2>1. 0 \in T
    BY <1>10
  <2>2. ASSUME NEW n \in T
        PROVE  n + 1 \in T
    <3>1. SUFFICES ASSUME n + 1 <= len
                   PROVE  h[n + 1] \in Int
      OBVIOUS
    <3>2. n + 1 \in 1..len /\ (n + 1) - 1 = n /\ h[n] \in Int
      BY <1>0, <3>1
    <3> QED  BY <1>0, <1>10, <3>2
  <2>3. T \in SUBSET Nat
    OBVIOUS
  <2> HIDE DEF T
  <2> QED  BY <2>1, <2>2, <2>3, Induction
<1>12. h \in [0..len -> Int]
  <2>1. \A n \in 0..len : n \in Nat /\ n <= len
    BY <1>0
  <2>2. \A n \in 0..len : h[n] \in Int
    BY <1>11, <2>1
  <2>3. h = [n \in 0..len |-> h[n]]
    BY <1>9
  <2> HIDE DEF len
  <2> QED  BY <2>2, <2>3
<1> QED  BY <1>6, <1>7, <1>10, <1>12

\* A sum of whole numbers is one.
LEMMA SumIsInt ==
    ASSUME NEW seq \in Seq(Int)
    PROVE  SumOf(seq) \in Int
<1>1. Len(seq) \in Nat
  OBVIOUS
<1> QED  BY <1>1, SumOfFacts

\* The sum of sums.
LEMMA SumOfSums ==
    ASSUME NEW a \in Seq(Int), NEW b \in Seq(Int), NEW c \in Seq(Int),
           Len(b) = Len(a), Len(c) = Len(a),
           \A i \in 1..Len(a) : c[i] = a[i] + b[i]
    PROVE  SumOf(c) = SumOf(a) + SumOf(b)
<1> DEFINE len == Len(a)
<1>0. len \in Nat /\ \A i \in 1..len : a[i] \in Int /\ b[i] \in Int
  OBVIOUS
<1>1. PICK f \in [0..len -> Int] : /\ f[0] = 0 /\ \A n \in 1..len : f[n] = f[n - 1] + a[n]
                                   /\ SumOf(a) = f[len]
  BY SumOfFacts
<1>2. PICK g \in [0..len -> Int] : /\ g[0] = 0 /\ \A n \in 1..len : g[n] = g[n - 1] + b[n]
                                   /\ SumOf(b) = g[len]
  BY SumOfFacts
<1>3. PICK h \in [0..len -> Int] : /\ h[0] = 0 /\ \A n \in 1..len : h[n] = h[n - 1] + c[n]
                                   /\ SumOf(c) = h[len]
  BY SumOfFacts
<1> DEFINE T == {n \in Nat : n <= len => h[n] = f[n] + g[n]}
<1>4. T = Nat
  <2>1. 0 \in T
    BY <1>1, <1>2, <1>3
  <2>2. ASSUME NEW n \in T
        PROVE  n + 1 \in T
    <3>1. SUFFICES ASSUME n + 1 <= len
                   PROVE  h[n + 1] = f[n + 1] + g[n + 1]
      OBVIOUS
    <3>2. n + 1 \in 1..len /\ (n + 1) - 1 = n /\ n \in 0..len
      BY <1>0, <3>1
    <3>3. h[n] = f[n] + g[n]
      BY <1>0, <3>2
    <3>4. /\ h[n + 1] = h[n] + c[n + 1] /\ f[n + 1] = f[n] + a[n + 1]
          /\ g[n + 1] = g[n] + b[n + 1] /\ c[n + 1] = a[n + 1] + b[n + 1]
      BY <1>1, <1>2, <1>3, <3>2
    <3>5. f[n] \in Int /\ g[n] \in Int /\ a[n + 1] \in Int /\ b[n + 1] \in Int
      BY <1>0, <3>2
    <3>6. PICK x \in Int, y \in Int, u \in Int, v \in Int :
              x = f[n] /\ y = a[n + 1] /\ u = g[n] /\ v = b[n + 1]
      BY <3>5
    <3>7. (x + u) + (y + v) = (x + y) + (u + v)
      OBVIOUS
    <3> QED  BY <3>3, <3>4, <3>6, <3>7
  <2>3. T \in SUBSET Nat
    OBVIOUS
  <2> HIDE DEF T
  <2> QED  BY <2>1, <2>2, <2>3, Induction
<1>5. len \in T
  BY <1>0, <1>4
<1> QED  BY <1>1, <1>2, <1>3, <1>5

\* The sum of multiples.
LEMMA SumOfMultiples ==
    ASSUME NEW k \in Int, NEW a \in Seq(Int), NEW c \in Seq(Int), Len(c) = Len(a),
           \A i \in 1..Len(a) : c[i] = k * a[i]
    PROVE  SumOf(c) = k * SumOf(a)
<1> DEFINE len == Len(a)
<1>0. len \in Nat /\ \A i \in 1..len : a[i] \in Int
  OBVIOUS
<1>1. PICK f \in [0..len -> Int] : /\ f[0] = 0 /\ \A n \in 1..len : f[n] = f[n - 1] + a[n]
                                   /\ SumOf(a) = f[len]
  BY SumOfFacts
<1>2. PICK h \in [0..len -> Int] : /\ h[0] = 0 /\ \A n \in 1..len : h[n] = h[n - 1] + c[n]
                                   /\ SumOf(c) = h[len]
  BY SumOfFacts
<1> DEFINE T == {n \in Nat : n <= len => h[n] = k * f[n]}
<1>3. T = Nat
  <2>1. 0 \in T
    BY <1>1, <1>2
  <2>2. ASSUME NEW n \in T
        PROVE  n + 1 \in T
    <3>1. SUFFICES ASSUME n + 1 <= len
                   PROVE  h[n + 1] = k * f[n + 1]
      OBVIOUS
    <3>2. n + 1 \in 1..len /\ (n + 1) - 1 = n /\ n \in 0..len
      BY <1>0, <3>1
    <3>3. h[n] = k * f[n]
      BY <1>0, <3>2
    <3>4. /\ h[n + 1] = h[n] + c[n + 1] /\ f[n + 1] = f[n] + a[n + 1]
          /\ c[n + 1] = k * a[n + 1]
      BY <1>1, <1>2, <3>2
    <3>5. PICK x \in Int, y \in Int : x = f[n] /\ y = a[n + 1]
      BY <1>0, <3>2
    <3>6. k * x + k * y = k * (x + y)
      OBVIOUS
    <3> QED  BY <3>3, <3>4, <3>5, <3>6
  <2>3. T \in SUBSET Nat
    OBVIOUS
  <2> HIDE DEF T
  <2> QED  BY <2>1, <2>2, <2>3, Induction
<1>4. len \in T
  BY <1>0, <1>3
<1> QED  BY <1>1, <1>2, <1>4

\* Smaller parts, smaller sum.
LEMMA SumIsMonotone ==
    ASSUME NEW a \in Seq(Int), NEW b \in Seq(Int), Len(b) = Len(a),
           \A i \in 1..Len(a) : a[i] <= b[i]
    PROVE  SumOf(a) <= SumOf(b)
<1> DEFINE len == Len(a)
<1>0. len \in Nat /\ \A i \in 1..len : a[i] \in Int /\ b[i] \in Int
  OBVIOUS
<1>1. PICK f \in [0..len -> Int] : /\ f[0] = 0 /\ \A n \in 1..len : f[n] = f[n - 1] + a[n]
                                   /\ SumOf(a) = f[len]
  BY SumOfFacts
<1>2. PICK g \in [0..len -> Int] : /\ g[0] = 0 /\ \A n \in 1..len : g[n] = g[n - 1] + b[n]
                                   /\ SumOf(b) = g[len]
  BY SumOfFacts
<1> DEFINE T == {n \in Nat : n <= len => f[n] <= g[n]}
<1>4. T = Nat
  <2>1. 0 \in T
    BY <1>1, <1>2
  <2>2. ASSUME NEW n \in T
        PROVE  n + 1 \in T
    <3>1. SUFFICES ASSUME n + 1 <= len
                   PROVE  f[n + 1] <= g[n + 1]
      OBVIOUS
    <3>2. n + 1 \in 1..len /\ (n + 1) - 1 = n /\ n \in 0..len
      BY <1>0, <3>1
    <3>3. f[n] <= g[n]
      BY <1>0, <3>2
    <3>4. f[n + 1] = f[n] + a[n + 1] /\ g[n + 1] = g[n] + b[n + 1] /\ a[n + 1] <= b[n + 1]
      BY <1>1, <1>2, <3>2
    <3>5. f[n] \in Int /\ g[n] \in Int /\ a[n + 1] \in Int /\ b[n + 1] \in Int
      BY <1>0, <3>2
    <3> QED  BY <3>3, <3>4, <3>5
  <2>3. T \in SUBSET Nat
    OBVIOUS
  <2> HIDE DEF T
  <2> QED  BY <2>1, <2>2, <2>3, Induction
<1>5. len \in T
  BY <1>0, <1>4
<1> QED  BY <1>1, <1>2, <1>5

\* A sum of ones counts.
LEMMA SumOfIndicator ==
    ASSUME NEW a \in Seq(Int), NEW A \in SUBSET (1..Len(a)),
           \A i \in 1..Len(a) : a[i] = IF i \in A THEN 1 ELSE 0
    PROVE  SumOf(a) = Cardinality(A)
<1> DEFINE len == Len(a)
           Upto(n) == {i \in A : i <= n}
<1>0. len \in Nat /\ IsFiniteSet(A) /\ \A i \in A : i \in 1..len /\ i \in Nat
  <2>1. len \in Nat /\ 1 \in Int /\ len \in Int
    OBVIOUS
  <2>2. IsFiniteSet(1..len)
    BY <2>1, FS_Interval
  <2>3. A \subseteq 1..len
    OBVIOUS
  <2>4. IsFiniteSet(A)
    <3> HIDE DEF len
    <3> QED  BY <2>2, <2>3, FS_Subset
  <2>5. \A i \in A : i \in 1..len /\ i \in Nat
    BY <2>1, <2>3
  <2> QED  BY <2>1, <2>4, <2>5
<1>1. PICK f \in [0..len -> Int] : /\ f[0] = 0 /\ \A n \in 1..len : f[n] = f[n - 1] + a[n]
                                   /\ SumOf(a) = f[len]
  BY SumOfFacts
<1> DEFINE T == {n \in Nat : n <= len => f[n] = Cardinality(Upto(n))}
<1>2. T = Nat
  <2>1. 0 \in T
    <3>1. Upto(0) = {}
      <4>1. \A i \in A : ~(i <= 0)
        BY <1>0
      <4> QED  BY <4>1
    <3> QED  BY <1>1, <3>1, FS_EmptySet
  <2>2. ASSUME NEW n \in T
        PROVE  n + 1 \in T
    <3>1. SUFFICES ASSUME n + 1 <= len
                   PROVE  f[n + 1] = Cardinality(Upto(n + 1))
      OBVIOUS
    <3>2. n \in Nat /\ n + 1 \in 1..len /\ (n + 1) - 1 = n /\ n \in 0..len
      BY <1>0, <3>1
    <3>3. f[n] = Cardinality(Upto(n)) /\ f[n + 1] = f[n] + a[n + 1]
      BY <1>0, <1>1, <3>2
    <3>4. IsFiniteSet(Upto(n)) /\ n + 1 \notin Upto(n)
      BY <1>0, <3>2, FS_Subset
    <3>5. CASE n + 1 \in A
      <4>1. Upto(n + 1) = Upto(n) \cup {n + 1}
        <5>1. \A i \in A : i <= n + 1 <=> i <= n \/ i = n + 1
          BY <1>0, <3>2
        <5> QED  BY <3>5, <5>1
      <4>2. Cardinality(Upto(n) \cup {n + 1}) = Cardinality(Upto(n)) + 1
        <5> HIDE DEF Upto
        <5> QED  BY <3>4, FS_AddElement
      <4> QED  BY <3>2, <3>3, <3>5, <4>1, <4>2
    <3>6. CASE n + 1 \notin A
      <4>1. Upto(n + 1) = Upto(n)
        <5>1. \A i \in A : i <= n + 1 <=> i <= n
          BY <1>0, <3>2, <3>6
        <5> QED  BY <5>1
      <4>2. a[n + 1] = 0 /\ f[n] \in Int
        BY <3>2, <3>6
      <4>3. f[n + 1] = f[n]
        BY <3>3, <4>2
      <4> QED  BY <3>3, <4>1, <4>3
    <3> QED  BY <3>5, <3>6
  <2>3. T \in SUBSET Nat
    OBVIOUS
  <2> HIDE DEF T
  <2> QED  BY <2>1, <2>2, <2>3, Induction
<1>3. len \in T
  BY <1>0, <1>2
<1>4. Upto(len) = A
  <2>1. \A i \in A : i <= len
    BY <1>0
  <2> HIDE DEF len
  <2> QED  BY <2>1
<1>5. f[len] = Cardinality(Upto(len))
  BY <1>0, <1>3
<1> QED  BY <1>1, <1>4, <1>5

----------------------------------------------------------------------------
(* Trailing zeros.                                                        *)

\* Quotient and remainder are what they must be.
LEMMA DivisionIsUnique ==
    ASSUME NEW a \in Int, NEW b \in Nat \ {0}, NEW q \in Int, NEW r \in 0..(b - 1),
           a = q * b + r
    PROVE  a \div b = q /\ a % b = r
OBVIOUS

\* Zeros that were put behind a number are divided off again.
LEMMA TimesTen ==
    ASSUME NEW n \in Nat, NEW k \in Nat
    PROVE  /\ n * Ten[k] \in Nat
           /\ (n * Ten[k]) \div Ten[k] = n /\ (n * Ten[k]) % Ten[k] = 0
<1>1. PICK t \in Nat \ {0} : t = Ten[k]
  BY TenFacts
<1>2. n * t \in Nat /\ (n * t) \div t = n /\ (n * t) % t = 0
  OBVIOUS
<1> QED  BY <1>1, <1>2

\* Zeros behind zeros.
LEMMA SumOfExponents ==
    ASSUME NEW k \in Nat, NEW j \in Nat
    PROVE  Ten[k + j] = Ten[k] * Ten[j]
<1> DEFINE T == {i \in Nat : Ten[k + i] = Ten[k] * Ten[i]}
<1>1. 0 \in T
  <2>1. k + 0 = k /\ Ten[k] \in Nat /\ Ten[0] = 1
    BY TenFacts
  <2>2. Ten[k] * 1 = Ten[k]
    BY <2>1
  <2> QED  BY <2>1, <2>2
<1>2. ASSUME NEW i \in T
      PROVE  i + 1 \in T
  <2>1. k + i \in Nat /\ k + (i + 1) = (k + i) + 1
    OBVIOUS
  <2>2. Ten[k + (i + 1)] = 10 * Ten[k + i] /\ Ten[i + 1] = 10 * Ten[i]
    BY <2>1, TenFacts
  <2>3. PICK x \in Nat, y \in Nat, z \in Nat : x = Ten[k] /\ y = Ten[i] /\ z = Ten[k + i]
    BY <2>1, TenFacts
  <2>4. z = x * y
    BY <2>3
  <2>5. 10 * z = x * (10 * y)
    BY <2>4
  <2> QED  BY <2>2, <2>3, <2>5
<1>3. T \in SUBSET Nat
  OBVIOUS
<1> HIDE DEF T
<1>4. j \in T
  BY <1>1, <1>2, <1>3, Induction
<1> QED  BY <1>4 DEF T

\* More zeros make a larger number.
LEMMA TenGrows ==
    ASSUME NEW m \in Nat, NEW n \in Nat
    PROVE  m < n <=> Ten[m] < Ten[n]
<1>1. ASSUME NEW i \in Nat, NEW j \in Nat, i <= j
      PROVE  Ten[i] <= Ten[j]
  <2>1. PICK k \in Nat : j = i + k
    <3>1. j - i \in Nat /\ j = i + (j - i)
      BY <1>1
    <3> QED  BY <3>1
  <2>2. PICK x \in Nat, y \in Nat \ {0} : x = Ten[i] /\ y = Ten[k]
    BY TenFacts
  <2>3. Ten[j] = x * y
    BY <2>1, <2>2, SumOfExponents
  <2>4. x <= x * y
    OBVIOUS
  <2> QED  BY <2>2, <2>3, <2>4
<1>2. CASE m < n
  <2>1. m + 1 <= n /\ m + 1 \in Nat
    BY <1>2
  <2>2. Ten[m + 1] <= Ten[n] /\ Ten[m + 1] = 10 * Ten[m]
    BY <1>1, <2>1, TenFacts
  <2>3. Ten[m] \in Nat \ {0} /\ Ten[n] \in Nat
    BY TenFacts
  <2> QED  BY <1>2, <2>2, <2>3
<1>3. CASE ~(m < n)
  <2>1. n <= m
    BY <1>3
  <2>2. Ten[n] <= Ten[m] /\ Ten[m] \in Nat /\ Ten[n] \in Nat
    BY <1>1, <2>1, TenFacts
  <2> QED  BY <1>3, <2>2
<1> QED  BY <1>2, <1>3

\* A number lies between the powers of ten that its digits are counted by.
LEMMA DigitsTell ==
    ASSUME NEW n \in Nat \ {0}
    PROVE  /\ DigitCount[n] - 1 \in Nat
           /\ Ten[DigitCount[n] - 1] <= n /\ n < Ten[DigitCount[n]]
<1> DEFINE Between(m) == Ten[DigitCount[m] - 1] <= m /\ m < Ten[DigitCount[m]]
           T == {m \in Nat : m # 0 => Between(m)}
<1>1. ASSUME NEW m \in Nat, 0..(m - 1) \subseteq T, m # 0
      PROVE  Between(m)
  <2>1. CASE m < 10
    <3>1. DigitCount[m] = 1 /\ Ten[1] = 10 /\ Ten[0] = 1
      <4>1. Ten[0 + 1] = 10 * Ten[0] /\ Ten[0] = 1
        BY TenFacts
      <4> QED  BY <2>1, <4>1, DigitCountFacts
    <3> QED  BY <1>1, <2>1, <3>1
  <2>2. CASE ~(m < 10)
    <3>1. m \div 10 \in 0..(m - 1) /\ m \div 10 \in Nat \ {0}
      BY <2>2
    <3>2. m \div 10 \in T
      BY <1>1, <3>1
    <3>3. Between(m \div 10)
      BY <3>1, <3>2
    <3>4. PICK c \in Nat : c + 1 = DigitCount[m \div 10] /\ c = DigitCount[m \div 10] - 1
      <4>1. DigitCount[m \div 10] \in Nat \ {0}
        BY <3>1, DigitCountFacts
      <4> QED  BY <4>1
    <3>5. DigitCount[m] = c + 2 /\ DigitCount[m] - 1 = c + 1
      <4>1. DigitCount[m] = DigitCount[m \div 10] + 1
        BY <2>2, DigitCountFacts
      <4> QED  BY <3>4, <4>1
    <3>6. Ten[c + 1] = 10 * Ten[c] /\ Ten[c + 2] = 10 * Ten[c + 1] /\ Ten[c] \in Nat
      <4>1. Ten[(c + 1) + 1] = 10 * Ten[c + 1] /\ (c + 1) + 1 = c + 2
        BY TenFacts
      <4> QED  BY <4>1, TenFacts
    <3>7. PICK x \in Nat : x = Ten[c] /\ Ten[c + 1] = 10 * x /\ Ten[c + 2] = 100 * x
      BY <3>6
    <3>8. x <= m \div 10 /\ m \div 10 < 10 * x
      BY <3>3, <3>4, <3>7
    <3>9. 10 * x <= m /\ m < 100 * x
      BY <3>8
    <3> QED  BY <3>5, <3>7, <3>9
  <2> QED  BY <2>1, <2>2
<1>2. T \in SUBSET Nat
  OBVIOUS
<1>3. \A m \in Nat : (m # 0 => Between(m)) => m \in T
  OBVIOUS
<1> HIDE DEF T, Between
<1>4. T = Nat
  BY <1>1, <1>2, <1>3, StrongInduction
<1>5. DigitCount[n] - 1 \in Nat
  BY DigitCountFacts
<1> QED  BY <1>4, <1>5 DEF T, Between

\* A number is its trimmed digits and its zeros.
LEMMA TrimmedTells ==
    ASSUME NEW n \in Nat
    PROVE  Trimmed(n) \in Nat /\ Zeros[n] \in Nat /\ n = Trimmed(n) * Ten[Zeros[n]]
<1> DEFINE Ends(m) == \E t \in Nat : m = t * Ten[Zeros[m]]
           T == {m \in Nat : Ends(m)}
<1>1. T = Nat
  <2>1. ASSUME NEW m \in Nat, 0..(m - 1) \subseteq T
        PROVE  Ends(m)
    <3>1. CASE m # 0 /\ m % 10 = 0
      <4>1. m \div 10 \in 0..(m - 1) /\ m = 10 * (m \div 10) /\ m \div 10 \in Nat
        BY <3>1
      <4>2. PICK t \in Nat : m \div 10 = t * Ten[Zeros[m \div 10]]
        BY <2>1, <4>1
      <4>3. Zeros[m] = Zeros[m \div 10] + 1 /\ Zeros[m \div 10] \in Nat
        BY <3>1, <4>1, ZerosFacts
      <4>4. PICK x \in Nat : x = Ten[Zeros[m \div 10]] /\ Ten[Zeros[m]] = 10 * x
        BY <4>3, TenFacts
      <4>5. m \div 10 = t * x
        BY <4>2, <4>4
      <4>6. 10 * (t * x) = t * (10 * x)
        OBVIOUS
      <4>7. m = t * (10 * x)
        BY <4>1, <4>5, <4>6
      <4> QED  BY <4>4, <4>7
    <3>2. CASE ~(m # 0 /\ m % 10 = 0)
      <4>1. Zeros[m] = 0 /\ Ten[0] = 1
        BY <3>2, ZerosFacts, TenFacts
      <4>2. m = m * 1
        OBVIOUS
      <4> QED  BY <4>1, <4>2
    <3> QED  BY <3>1, <3>2
  <2>2. T \in SUBSET Nat /\ \A m \in Nat : Ends(m) => m \in T
    OBVIOUS
  <2> HIDE DEF T, Ends
  <2> QED  BY <2>1, <2>2, StrongInduction
<1>2. PICK t \in Nat : n = t * Ten[Zeros[n]]
  BY <1>1
<1>3. Zeros[n] \in Nat
  BY ZerosFacts
<1>4. Trimmed(n) = t
  <2>1. (t * Ten[Zeros[n]]) \div Ten[Zeros[n]] = t
    BY <1>3, TimesTen
  <2> QED  BY <1>2, <2>1 DEF Trimmed
<1> QED  BY <1>2, <1>3, <1>4

\* Zeros behind a number change nothing of what it is trimmed to.
LEMMA TrimmedTimesTen ==
    ASSUME NEW n \in Nat, NEW k \in Nat
    PROVE  Trimmed(n * Ten[k]) = Trimmed(n)
<1>1. ASSUME NEW m \in Nat
      PROVE  Trimmed(10 * m) = Trimmed(m)
  <2>1. CASE m = 0
    BY <2>1
  <2>2. CASE m # 0
    <3>1. 10 * m \in Nat /\ 10 * m # 0 /\ (10 * m) % 10 = 0 /\ (10 * m) \div 10 = m
      BY <2>2
    <3>2. Zeros[10 * m] = Zeros[m] + 1 /\ Zeros[m] \in Nat
      BY <3>1, ZerosFacts
    <3>3. PICK t \in Nat, x \in Nat \ {0} :
              t = Trimmed(m) /\ x = Ten[Zeros[m]] /\ Ten[Zeros[10 * m]] = 10 * x
      <4>1. Trimmed(m) \in Nat
        BY TrimmedTells
      <4>2. Ten[Zeros[m]] \in Nat \ {0} /\ Ten[Zeros[m] + 1] = 10 * Ten[Zeros[m]]
        BY <3>2, TenFacts
      <4> QED  BY <3>2, <4>1, <4>2
    <3>4. m = t * x
      BY <3>3, TrimmedTells
    <3>5. 10 * (t * x) = t * (10 * x) + 0
      OBVIOUS
    <3>6. 10 * m = t * (10 * x) + 0
      BY <3>4, <3>5
    <3>7. (10 * m) \div (10 * x) = t
      <4>1. 10 * x \in Nat \ {0} /\ 0 \in 0..(10 * x - 1) /\ 10 * m \in Int /\ t \in Int
        OBVIOUS
      <4> HIDE <3>4, <3>5
      <4> QED  BY <3>6, <4>1, DivisionIsUnique
    <3> QED  BY <3>3, <3>7 DEF Trimmed
  <2> QED  BY <2>1, <2>2
<1> DEFINE T == {j \in Nat : Trimmed(n * Ten[j]) = Trimmed(n)}
<1>2. 0 \in T
  <2>1. n * 1 = n /\ Ten[0] = 1
    BY TenFacts
  <2> QED  BY <2>1
<1>3. ASSUME NEW j \in T
      PROVE  j + 1 \in T
  <2>1. j \in Nat /\ Trimmed(n * Ten[j]) = Trimmed(n) /\ n * Ten[j] \in Nat
    BY TimesTen
  <2>2. PICK x \in Nat : x = Ten[j] /\ Ten[j + 1] = 10 * x
    BY <2>1, TenFacts
  <2>3. n * (10 * x) = 10 * (n * x)
    OBVIOUS
  <2>4. Trimmed(10 * (n * x)) = Trimmed(n * x)
    BY <1>1, <2>1, <2>2
  <2>5. Trimmed(n * Ten[j + 1]) = Trimmed(n)
    BY <2>1, <2>2, <2>3, <2>4
  <2> QED  BY <2>1, <2>5
<1>4. T \in SUBSET Nat
  OBVIOUS
<1> HIDE DEF T
<1>5. k \in T
  BY <1>2, <1>3, <1>4, Induction
<1> QED  BY <1>5 DEF T

----------------------------------------------------------------------------
(* Powers of two and binary digits.                                        *)

\* The powers of two are the powers of two.
LEMMA TwoFacts ==
    /\ Two \in [Nat -> Nat \ {0}]
    /\ Two[0] = 1
    /\ \A n \in Nat : Two[n + 1] = 2 * Two[n]
<1> DEFINE Pos == Nat \ {0}
           step == [p \in Nat \X Pos |-> 2 * p[2]]
           Is(f) == f = [n \in Nat |-> IF n = 0 THEN 1 ELSE 2 * f[n - 1]]
<1>1. CanIterate(Pos, 1, step)
  BY DEF CanIterate
<1>2. PICK f : Iterates(f, Pos, 1, step)
  <2> HIDE DEF step, Pos
  <2> QED  BY <1>1, Recursion
<1>3. \A n \in Nat : f[n + 1] = 2 * f[n]
  BY <1>2 DEF Iterates
<1>4. Is(f)
  <2>1. ASSUME NEW n \in Nat, n # 0
        PROVE  f[n] = 2 * f[n - 1]
    <3>1. n - 1 \in Nat /\ (n - 1) + 1 = n
      BY <2>1
    <3> QED  BY <1>3, <3>1
  <2> QED  BY <1>2, <2>1 DEF Iterates
<1>5. Is(Two)
  BY <1>4 DEF Two
<1>6. Two[0] = 1 /\ \A n \in Nat : Two[n + 1] = 2 * Two[n]
  <2>1. \A n \in Nat : Two[n] = IF n = 0 THEN 1 ELSE 2 * Two[n - 1]
    BY <1>5
  <2>2. ASSUME NEW n \in Nat
        PROVE  Two[n + 1] = 2 * Two[n]
    <3>1. n + 1 \in Nat /\ n + 1 # 0 /\ (n + 1) - 1 = n
      OBVIOUS
    <3>2. Two[n + 1] = 2 * Two[(n + 1) - 1]
      BY <2>1, <3>1
    <3> QED  BY <3>1, <3>2
  <2> QED  BY <2>1, <2>2
<1>7. DOMAIN Two = Nat /\ Two = [n \in Nat |-> Two[n]]
  BY <1>5
<1> DEFINE T == {n \in Nat : Two[n] \in Nat \ {0}}
<1>8. T = Nat
  <2>1. 0 \in T /\ \A n \in T : n + 1 \in T
    BY <1>6
  <2>2. T \in SUBSET Nat
    OBVIOUS
  <2> HIDE DEF T
  <2> QED  BY <2>1, <2>2, Induction
<1>9. \A n \in Nat : Two[n] \in Nat \ {0}
  BY <1>8
<1> QED  BY <1>6, <1>7, <1>9

\* A power of two times a power of two.
LEMMA SumOfBinaryExponents ==
    ASSUME NEW k \in Nat, NEW j \in Nat
    PROVE  Two[k + j] = Two[k] * Two[j]
<1> DEFINE T == {i \in Nat : Two[k + i] = Two[k] * Two[i]}
<1>1. 0 \in T
  <2>1. k + 0 = k /\ Two[k] \in Nat /\ Two[0] = 1
    BY TwoFacts
  <2>2. Two[k] * 1 = Two[k]
    BY <2>1
  <2> QED  BY <2>1, <2>2
<1>2. ASSUME NEW i \in T
      PROVE  i + 1 \in T
  <2>1. k + i \in Nat /\ k + (i + 1) = (k + i) + 1
    OBVIOUS
  <2>2. Two[k + (i + 1)] = 2 * Two[k + i] /\ Two[i + 1] = 2 * Two[i]
    BY <2>1, TwoFacts
  <2>3. PICK x \in Nat, y \in Nat, z \in Nat : x = Two[k] /\ y = Two[i] /\ z = Two[k + i]
    BY <2>1, TwoFacts
  <2>4. z = x * y
    BY <2>3
  <2>5. 2 * z = x * (2 * y)
    BY <2>4
  <2> QED  BY <2>2, <2>3, <2>5
<1>3. T \in SUBSET Nat
  OBVIOUS
<1> HIDE DEF T
<1>4. j \in T
  BY <1>1, <1>2, <1>3, Induction
<1> QED  BY <1>4 DEF T

\* What the recursion of BitCount says of it.
LEMMA BitCountFacts ==
    /\ BitCount \in [Nat -> Nat]
    /\ \A n \in Nat : BitCount[n] = IF n = 0 THEN 0 ELSE BitCount[n \div 2] + 1
<1> DEFINE stop == {0}
           half == [n \in Nat |-> n \div 2]
           base == [n \in Nat |-> 0]
           step == [d \in Nat |-> d + 1]
           Is(f) == f = [n \in Nat |-> IF n = 0 THEN 0 ELSE f[n \div 2] + 1]
<1>1. CanDescend(Nat, stop, half, base, step)
  BY DEF CanDescend
<1>2. PICK f : Descends(f, Nat, stop, half, base, step)
  <2> HIDE DEF stop, half, base, step
  <2> QED  BY <1>1, Descent
<1>3. f \in [Nat -> Nat] /\ \A n \in Nat : n \div 2 \in Nat
  BY <1>2 DEF Descends
<1>4. ASSUME NEW n \in Nat
      PROVE  f[n] = IF n = 0 THEN 0 ELSE f[n \div 2] + 1
  <2>1. n \div 2 \in Nat /\ f[n \div 2] \in Nat
    BY <1>3
  <2>2. f[n] = IF n \in stop THEN base[n] ELSE step[f[n \div 2]]
    <3>1. f[n] = IF n \in stop THEN base[n] ELSE step[f[half[n]]]
      <4> HIDE DEF stop, half, base, step
      <4> QED  BY <1>2 DEF Descends
    <3> HIDE DEF stop, base, step
    <3> QED  BY <3>1
  <2> QED  BY <2>1, <2>2
<1>5. Is(f)
  BY <1>3, <1>4
<1>6. BitCount = CHOOSE g : Is(g)
  BY DEF BitCount
<1> HIDE DEF Is
<1>7. Is(BitCount)
  BY <1>5, <1>6
<1>8. BitCount = [n \in Nat |-> IF n = 0 THEN 0 ELSE BitCount[n \div 2] + 1]
  BY <1>7 DEF Is
<1>9. \A n \in Nat : BitCount[n] = IF n = 0 THEN 0 ELSE BitCount[n \div 2] + 1
  BY <1>8
<1> DEFINE T == {n \in Nat : BitCount[n] \in Nat}
<1>10. T = Nat
  <2>1. ASSUME NEW n \in Nat, 0..(n - 1) \subseteq T
        PROVE  n \in T
    <3>1. CASE n = 0
      BY <1>9, <3>1
    <3>2. CASE n # 0
      <4>1. n \div 2 \in 0..(n - 1)
        BY <3>2
      <4>2. BitCount[n \div 2] \in Nat
        BY <2>1, <4>1
      <4> QED  BY <1>9, <3>2, <4>2
    <3> QED  BY <3>1, <3>2
  <2>2. T \in SUBSET Nat
    OBVIOUS
  <2> HIDE DEF T
  <2> QED  BY <2>1, <2>2, StrongInduction
<1>11. \A n \in Nat : BitCount[n] \in Nat
  BY <1>10
<1> QED  BY <1>8, <1>9, <1>11

\* A number lies between the powers of two that its binary digits say.
LEMMA BitsTell ==
    ASSUME NEW n \in Nat
    PROVE  /\ n < Two[BitCount[n]]
           /\ \A k \in Nat : BitCount[n] = k + 1 => Two[k] <= n
<1> DEFINE Told(m) == /\ m < Two[BitCount[m]]
                      /\ \A k \in Nat : BitCount[m] = k + 1 => Two[k] <= m
           T == {m \in Nat : Told(m)}
<1>1. ASSUME NEW m \in Nat, 0..(m - 1) \subseteq T
      PROVE  m \in T
  <2>1. CASE m = 0
    <3>1. BitCount[m] = 0 /\ Two[0] = 1
      BY <2>1, BitCountFacts, TwoFacts
    <3> QED  BY <2>1, <3>1
  <2>2. CASE m # 0
    <3>1. PICK h \in Nat : h = m \div 2 /\ h \in 0..(m - 1) /\ m \in {2 * h, 2 * h + 1}
      BY <2>2
    <3>2. PICK b \in Nat : b = BitCount[h] /\ BitCount[m] = b + 1
      BY <2>2, <3>1, BitCountFacts
    <3>3. h < Two[b] /\ \A k \in Nat : b = k + 1 => Two[k] <= h
      BY <1>1, <3>1, <3>2
    <3>4. Two[b] \in Nat /\ Two[b + 1] = 2 * Two[b]
      BY TwoFacts
    <3>5. m < Two[b + 1]
      BY <3>1, <3>3, <3>4
    <3>6. Two[b] <= m
      <4>1. CASE b = 0
        BY <2>2, <4>1, TwoFacts
      <4>2. CASE b # 0
        <5>1. PICK k \in Nat : b = k + 1
          <6>1. b - 1 \in Nat /\ b = (b - 1) + 1
            BY <4>2
          <6> QED  BY <6>1
        <5>2. Two[k] <= h /\ Two[b] = 2 * Two[k] /\ Two[k] \in Nat
          BY <3>3, <5>1, TwoFacts
        <5> QED  BY <3>1, <5>2
      <4> QED  BY <4>1, <4>2
    <3>7. \A k \in Nat : BitCount[m] = k + 1 => k = b
      BY <3>2
    <3> QED  BY <3>2, <3>5, <3>6, <3>7
  <2> QED  BY <2>1, <2>2
<1>2. T \in SUBSET Nat
  OBVIOUS
<1> HIDE DEF T
<1>3. n \in T
  BY <1>1, <1>2, StrongInduction
<1> QED  BY <1>3 DEF T

\* HalfEven is off by half a unit at most, and there is one whole number that is off
\* by less than that.
LEMMA HalfEvenIsNearest ==
    ASSUME NEW n \in Nat, NEW d \in Nat \ {0}
    PROVE  /\ HalfEven(n, d) \in Nat
           /\ 2 * (HalfEven(n, d) * d - n) <= d /\ 2 * (n - HalfEven(n, d) * d) <= d
           /\ \A x \in Nat : 2 * (x * d - n) < d /\ 2 * (n - x * d) < d => HalfEven(n, d) = x
<1>1. PICK q \in Nat, r \in 0..(d - 1) : q = n \div d /\ r = n % d /\ n = q * d + r
  OBVIOUS
<1>2. PICK h \in {q, q + 1} : /\ h = HalfEven(n, d)
                              /\ h = q => 2 * r <= d
                              /\ h = q + 1 => 2 * r >= d
  BY <1>1 DEF HalfEven
<1>3. h \in Nat /\ 2 * (h * d - n) <= d /\ 2 * (n - h * d) <= d
  <2>1. PICK m \in Nat : m = q * d
    OBVIOUS
  <2>2. (q + 1) * d = m + d
    BY <2>1
  <2>3. CASE h = q
    BY <1>1, <1>2, <2>1, <2>3
  <2>4. CASE h = q + 1
    BY <1>1, <1>2, <2>1, <2>2, <2>4
  <2> QED  BY <2>3, <2>4
<1>4. ASSUME NEW x \in Nat, 2 * (x * d - n) < d, 2 * (n - x * d) < d
      PROVE  h = x
  <2>1. PICK e \in Int : e = h - x
    BY <1>3
  <2>2. e * d = h * d - x * d /\ e * d \in Int
    BY <1>3, <2>1
  <2>3. 2 * (e * d) < 2 * d /\ 2 * (e * d) > -(2 * d)
    BY <1>3, <1>4, <2>2
  <2>4. e * d < d /\ -d < e * d
    BY <2>2, <2>3
  <2>5. e < 1 /\ e > -1
    <3>1. e >= 1 => e * d >= d
      OBVIOUS
    <3>2. e <= -1 => e * d <= -d
      OBVIOUS
    <3> QED  BY <2>2, <2>4, <3>1, <3>2
  <2> QED  BY <1>3, <2>1, <2>5
<1> QED  BY <1>2, <1>3, <1>4
=============================================================================
