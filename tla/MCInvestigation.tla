-------------------------- MODULE MCInvestigation --------------------------
(* Instances of Investigation for TLC.                                     *)
EXTENDS Investigation

CONSTANTS ask1, ask2

MCRecord(customer, amounts) ==
    [customer |-> customer, amounts |-> amounts, digits |-> {Whole(2026)}]

\* The same case as two runs compute it: the second finds more evidence.
MCEvidence(n) == [computed |-> {Whole(n)}, digits |-> {Whole(7)}]
MCCaseOf ==
    << [atRisk |-> 10005, bridge |-> {-350}, gate |-> {Number(95, 2)},
        evidence |-> << MCEvidence(10005) >>,
        records |-> << MCRecord("x", {10005, 0}), MCRecord("y", {9655}) >>],
       [atRisk |-> 2000, bridge |-> {}, gate |-> {}, evidence |-> << MCEvidence(3), MCEvidence(200) >>,
        records |-> << MCRecord("x", {2000}), MCRecord("y", {0}), MCRecord("z", {350}),
                       MCRecord("y", {20}) >>] >>

\* Under one seed three customers collide, under the other two.
MCDigest == << [x |-> "A", y |-> "A", z |-> "A"], [x |-> "A", y |-> "B", z |-> "A"] >>

MCAnswer(cites, numbers) ==
    [json |-> TRUE, hypotheses |-> 1, cites |-> cites, numbers |-> numbers, uncertainties |-> 1]

ASSUME FiguresFitFloats

\* Grounded, with an unknown citation, with figures in every form, with none of
\* the engine's, and answers that do not parse.
MCAnswers ==
    { MCAnswer({1}, {Number(10005, 2), Number(100050, 3), Whole(2026), Whole(99)}),
      MCAnswer({1}, {Whole(1000500), Whole(7000)}), MCAnswer({1, 2}, {Whole(2000)}),
      MCAnswer({3}, {}), MCAnswer({1, 3}, {}),
      MCAnswer({1}, {Whole(350)}), MCAnswer({1}, {Whole(777)}), MCAnswer({1}, {Number(5, 1)}),
      MCAnswer({}, {}), [MCAnswer({1}, {}) EXCEPT !.json = FALSE],
      [MCAnswer({1}, {}) EXCEPT !.uncertainties = 0] }
=============================================================================
