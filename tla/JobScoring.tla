----------------------------- MODULE JobScoring ------------------------------
(***************************************************************************)
(* scoring-v1 (packages/job-matching): the score of a posting.  Every      *)
(* dimension the posting asks for has a weight, split evenly over its      *)
(* requirements; satisfied requirements earn theirs, and what a card shows *)
(* is rounded to hundredths of a percent in such a way that the dimensions *)
(* add up.  Numbers are exact here; a hundredth of a point is the unit.    *)
(*                                                                         *)
(* A state is one posting with the outcomes known of it, counted by kind;  *)
(* a step is evidence for one requirement that was unknown.                *)
(***************************************************************************)
EXTENDS Naturals, Sequences, SequencesExt, FiniteSetsExt

CONSTANTS
    Dimensions,     \* in the order of the code's table, as a sequence
    Weight,         \* dimension -> its weight
    KindsOf,        \* dimension -> the kinds of outcomes its requirements can have
    MaxNeeds        \* bound on the requirements of a dimension

VARIABLES
    tally           \* dimension -> kind of outcome -> number of requirements

\* An outcome and the quality of its best evidence, in tenths: an expectation
\* decides without evidence, a confirmed fact counts in full, a related one less.
Kinds == [outcome : {"satisfied", "conflict", "unknown"}, quality : {0, 6, 10}]
Unknown == [outcome |-> "unknown", quality |-> 0]

Named == ToSet(Dimensions)
Total(f, S) == MapThenSumSet(LAMBDA x : f[x], S)

Init ==
    \E n \in [Named -> 0..MaxNeeds] :
        tally = [d \in Named |-> [k \in KindsOf[d] |-> IF k = Unknown THEN n[d] ELSE 0]]

With(d, outcome) == Total(tally[d], {k \in KindsOf[d] : k.outcome = outcome})
Needs_Decided(d) == With(d, "satisfied") + With(d, "conflict")
Needs(d) == Total(tally[d], KindsOf[d])
Asked == {d \in Named : Needs(d) > 0}
Present == Total(Weight, Asked)

\* Math.round(value * 100) / 100 of the fraction n / m, in hundredths.
Nearest(n, m) == (2 * n + m) \div (2 * m)
Round2(n, m) == Nearest(100 * n, m)

\* The weight of one requirement of d is Weight / Present / Needs; part is how many
\* tenths of requirements count.  The common denominator is exact.
Scale == Present * FoldSet(LAMBDA d, p : Needs(d) * p, 1, Asked)
Share(d) == (Weight[d] * Scale) \div (Present * Needs(d))

Earned == [d \in Asked |-> 100 * Share(d) * With(d, "satisfied")]
Available == [d \in Asked |-> 100 * Share(d) * Needs(d)]

\* roundComponents: what rounding lost or gained goes to the last dimension that
\* has anything.
LastPart(parts) ==
    LET having == {i \in DOMAIN Dimensions : Dimensions[i] \in Asked /\ parts[Dimensions[i]] > 0}
    IN  IF having = {} THEN 0 ELSE Max(having)
Rounded(parts) ==
    LET each == [d \in Asked |-> Round2(parts[d], Scale)]
        last == LastPart(parts)
        rest == Round2(Total(parts, Asked), Scale) - Total(each, Asked)
    IN  IF last = 0 THEN each ELSE [each EXCEPT ![Dimensions[last]] = @ + rest]

FitScore == IF Asked = {} THEN 0 ELSE Round2(Total(Earned, Asked), Scale)

\* 100 * (0.7 * what is known + 0.3 * the quality of the evidence).
Quality(d) == MapThenSumSet(LAMBDA k : k.quality * tally[d][k], KindsOf[d])
Covered(d) == Needs(d) - With(d, "unknown")
Confidence ==
    LET points == [d \in Asked |-> Share(d) * (70 * Covered(d) + 3 * Quality(d))]
    IN  IF Asked = {} THEN 0 ELSE Round2(Total(points, Asked), Scale)

\* A quarter of the score depends on the confidence.
RankingScore == Nearest(FitScore * (30000 + Confidence), 40000)

\* Evidence for a requirement that had none, or was only related to it: it decides
\* the requirement, or is related.
Learn(d, from, to) ==
    /\ tally[d][from] > 0 /\ from.outcome = "unknown"
    /\ to.outcome # "unknown" \/ to.quality > from.quality
    /\ tally' = [tally EXCEPT ![d][from] = @ - 1, ![d][to] = @ + 1]

Next == \E d \in Named : \E from, to \in KindsOf[d] : Learn(d, from, to)

Spec == Init /\ [][Next]_tally

-----------------------------------------------------------------------------
\* Properties.

\* The dimensions of a card add up to its score and its full marks to 100, no
\* dimension is negative, and none exceeds its full marks by more than the
\* hundredth that rounding moved.
PartsAddUp ==
    LET earned == Rounded(Earned)
        available == Rounded(Available)
    IN  /\ FitScore = Total(earned, Asked) /\ FitScore <= 10000
        /\ RankingScore <= FitScore /\ Confidence <= 10000
        /\ Asked # {} => Total(available, Asked) = 10000
        /\ \A d \in Asked : earned[d] <= available[d] + 1

\* Evidence never costs a posting anything: neither score nor confidence falls when
\* a requirement is decided, and only a satisfied one raises the score.
LowersNothing ==
    /\ FitScore' >= FitScore /\ Confidence' >= Confidence /\ RankingScore' >= RankingScore
    /\ FitScore' > FitScore =>
           \E d \in Named : (With(d, "satisfied"))' > With(d, "satisfied")
EvidenceNeverLowers == [][LowersNothing]_tally
=============================================================================
