------------------------------ MODULE Evidence ------------------------------
(***************************************************************************)
(* What a model is shown of a case and what its answer is held against     *)
(* (ledgergraph_ai: packet.py, redact.py, schemas.py, verify.py).  A       *)
(* number in a text is its digits and its decimal places, and a sign that  *)
(* only a computed value can have.  Floats have a bounded significand and  *)
(* any exponent; computed texts that float() reads though they are not     *)
(* plain decimal numbers (an exponent, "nan") are left out.                *)
(***************************************************************************)
EXTENDS Numbers, FiniteSets

CONSTANTS
    Exponent,    \* decimal places of the currency
    FloatBits,   \* significant bits of a float: 53
    Digest       \* Digest[seed][customer]: the token that sha256 gives, collisions included

ASSUME EvidenceAssumption == Exponent \in Nat /\ FloatBits \in Nat \ {0}

Figure == [neg : BOOLEAN, coef : Nat, places : Nat]
Number(coef, places) == [neg |-> FALSE, coef |-> coef, places |-> places]
Whole(n) == [neg |-> n < 0, coef |-> IF n < 0 THEN -n ELSE n, places |-> 0]

SameValue(a, b) == a.neg = b.neg /\ a.coef * Ten[b.places] = b.coef * Ten[a.places]

----------------------------------------------------------------------------
(* The figures of a case *)

\* Each amount as str(minor) and as format_minor writes it.
Amount(n) == {Whole(n), [Whole(n) EXCEPT !.places = Exponent]}

\* Everything the engine computed: the amount at risk, the four amounts of each
\* record, the bridge, what the evidence compared and what the gate's conditions say.
ComputedValues(case) ==
    LET recorded == UNION {case.records[i].amounts : i \in DOMAIN case.records}
        compared == UNION {case.evidence[i].computed : i \in DOMAIN case.evidence}
    IN  compared \cup case.gate \cup (UNION {Amount(n) : n \in {case.atRisk} \cup case.bridge \cup recorded})

\* Digits of dates, ids and statements, which are not claims about money.
Mentioned(case) ==
    (UNION {case.records[i].digits : i \in DOMAIN case.records})
    \cup (UNION {case.evidence[i].digits : i \in DOMAIN case.evidence})

----------------------------------------------------------------------------
(* The tokens that the verifier allows *)

\* rstrip("0").rstrip("."): the zeros behind a point, or else those of the number.
Strip(t) ==
    LET cut == IF t.places \in 1..Zeros[t.coef] THEN t.places ELSE Zeros[t.coef]
    IN  IF t.coef = 0 THEN [t EXCEPT !.places = 0]
        ELSE [t EXCEPT !.coef   = @ \div Ten[cut],
                       !.places = IF @ = 0 THEN 0 ELSE @ - cut]

\* The number nearest n / d, a whole one, of at most FloatBits significant bits.
Rounded(n, d) ==
    LET bits == BitCount[n \div d]
        lost == IF bits > FloatBits THEN bits - FloatBits ELSE 0
    IN  HalfEven(n, d * Two[lost]) * Two[lost]

\* float(text): the binary fraction scaled / Two[scale] nearest the decimal one.
AsFloat(t) ==
    LET d     == Ten[t.places]
        scale == IF t.coef = 0 THEN 0 ELSE BitCount[(Two[FloatBits - 1] * d) \div t.coef]
    IN  [scaled |-> Rounded(t.coef * Two[scale], d), scale |-> scale]

\* str(int(round(as_float * 100)))
Hundredfold(t) ==
    LET x == AsFloat(t)
    IN  [t EXCEPT !.places = 0, !.coef = HalfEven(Rounded(100 * x.scaled, 1), Two[x.scale])]

\* str(int(as_float)), if as_float.is_integer().
WholeForms(t) ==
    LET x == AsFloat(t)
    IN  IF x.scaled % Two[x.scale] = 0
        THEN {[t EXCEPT !.places = 0, !.coef = x.scaled \div Two[x.scale]]} ELSE {}

\* The forms in which a computed value may be written.
Forms(t) ==
    {t, Hundredfold(t)} \cup WholeForms(t) \cup (IF t.places > 0 THEN {Strip(t)} ELSE {})

AllowedTokens(case) == (UNION {Forms(t) : t \in ComputedValues(case)}) \cup Mentioned(case)

----------------------------------------------------------------------------
(* The packet *)

\* Variant: a pseudonym is whatever the digest says.
FreeSuffixUnchecked(names, token) == 0

\* Redactor.pseudonym: the first suffix under which the token is nobody else's.
IsTaken(names, token, suffix) ==
    \E i \in DOMAIN names : names[i] = [token |-> token, suffix |-> suffix]
FreeSuffix(names, token) ==
    CHOOSE s \in 0..Len(names) :
        /\ ~IsTaken(names, token, s)
        /\ \A lower \in 0..(s - 1) : IsTaken(names, token, lower)

\* The pseudonyms so far and the next customer's: the one it has, or a new one.
NextPseudonym(seed, customers, names) ==
    LET next    == Len(names) + 1
        token   == Digest[seed][customers[next]]
        earlier == {j \in 1..Len(names) : customers[j] = customers[next]}
    IN  IF earlier # {} THEN names[CHOOSE j \in earlier : TRUE]
        ELSE [token |-> token, suffix |-> FreeSuffix(names, token)]

\* Each customer in turn.
Pseudonyms(seed, customers) ==
    LET upTo[n \in 0..Len(customers)] ==
            IF n = 0 THEN <<>>
            ELSE LET names == upTo[n - 1]
                 IN  Append(names, NextPseudonym(seed, customers, names))
    IN  upTo[Len(customers)]

\* build_packet, with the run's id as the redactor's seed.  Of its figures the model
\* keeps the tokens that the verifier allows for them: what a provider makes of the
\* others is arbitrary.
BuildPacket(case, seed) ==
    [evidence |-> DOMAIN case.evidence,
     allowed  |-> AllowedTokens(case),
     names    |-> Pseudonyms(seed, [i \in DOMAIN case.records |-> case.records[i].customer])]

----------------------------------------------------------------------------
(* The verifier *)

SmallNumberCeiling == 100

UngroundedNumbers(answer, packet) ==
    {t \in answer.numbers :
        ~(t.places = 0 /\ t.coef < SmallNumberCeiling)
        /\ t \notin packet.allowed /\ Strip(t) \notin packet.allowed}

UnknownCitations(answer, packet) == answer.cites \ packet.evidence

\* Variant: a hypothesis is grounded if one of its citations is.
VerifyLeniently(answer, packet) ==
    CASE answer.cites \cap packet.evidence = {}  -> "citation_violation"
      [] UngroundedNumbers(answer, packet) # {} -> "numeric_violation"
      [] OTHER                                  -> "valid"

Verify(answer, packet) ==
    CASE UnknownCitations(answer, packet) # {}  -> "citation_violation"
      [] UnknownCitations(answer, packet) = {}
         /\ UngroundedNumbers(answer, packet) # {} -> "numeric_violation"
      [] OTHER                                  -> "valid"

\* Investigation.model_validate, as far as the verifier relies on it.
Parses(answer) ==
    /\ answer.json
    /\ answer.hypotheses \in 1..5
    /\ answer.cites # {}
    /\ answer.uncertainties \in 1..6
=============================================================================
