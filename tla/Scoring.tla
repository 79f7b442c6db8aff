------------------------------- MODULE Scoring -------------------------------
(***************************************************************************)
(* coldpath/scoring.py, version v1, and the weighted mean of               *)
(* coldpath/scoring_service.py. A score is a whole number of points, an    *)
(* overall score is in hundredths of a point and an average in tenths: the *)
(* precision the code rounds to. A score card is a function on the         *)
(* dimensions that were scored.                                            *)
(***************************************************************************)
EXTENDS Listing

DIMENSIONS == <<"pronunciation", "grammar", "vocabulary", "listening",
                "fluency", "confidence", "coherence", "relevance">>
Dims == ToSet(DIMENSIONS)

\* In percent. They sum to 100.
weights == [d \in Dims |->
               CASE d = "pronunciation" -> 20
                 [] d = "confidence" -> 10
                 [] d \in {"coherence", "relevance"} -> 5
                 [] OTHER -> 15]

\* The best overall score.
Perfect == 10000

\* The upper bound of each level, in points.
Upper == <<39, 54, 69, 82, 93, 100>>
TopLevel == Len(Upper) - 1

Weighted(card) == SumOf([d \in DOMAIN card |-> weights[d] * card[d]])

\* ScoringModel.overall: a missing dimension counts as 0.
compute_overall(card) == Weighted(card)

\* ScoringService._weighted_overall: over the dimensions present, so that a
\* skipped evaluator does not lower the score.
weighted_overall(card) ==
    LET wsum == SumOf([d \in DOMAIN card |-> weights[d]])
    IN  IF wsum = 0 THEN 0 ELSE Rounded(100 * Weighted(card), wsum)

\* The first level whose bound is not exceeded; above all of them, the top.
level_for_overall(overall) ==
    LET reached == {i \in DOMAIN Upper : overall <= 100 * Upper[i]}
    IN  IF reached = {} THEN TopLevel ELSE Min(reached) - 1

\* The dimensions of S, in the order in which they are declared.
InOrder(S) == Kept(DIMENSIONS, {i \in DOMAIN DIMENSIONS : DIMENSIONS[i] \in S})
=============================================================================
