----------------------------- MODULE AssetScoring -----------------------------
(***************************************************************************)
(* evaluate_asset_submission: the score of a submission, in units of       *)
(* 1/1800 of a point, which keep every term whole, rounded to hundredths   *)
(* at the end.  The text is reduced to what the score reads of it.         *)
(***************************************************************************)
EXTENDS Integers, FiniteSets, FiniteSetsExt

Point == 1800
Least(a, b) == IF a < b THEN a ELSE b
Clamp(x, low, high) == IF x < low THEN low ELSE IF x > high THEN high ELSE x

\* What is submitted and counted in the text; the valuation is in millions.
SubmissionType ==
    [category : STRING, documented : BOOLEAN, words : Nat, title : Nat, positive : Nat,
     negative : Nat, valuation : Nat]

CategoryScore(category) ==
    CASE category = "real_estate" -> 72 [] category = "commodity" -> 65
      [] category = "invoice" -> 69     [] category = "art" -> 58
      [] OTHER -> 55

\* Tenths of a per cent a year.
CategoryRoi(category) ==
    CASE category = "real_estate" -> 64 [] category = "commodity" -> 71
      [] category = "invoice" -> 88     [] category = "art" -> 52
      [] OTHER -> 60

\* Mutant: the largest valuations fall through to the middle bracket.
ValuationWithoutTop(millions) ==
    CASE millions <= 5 -> 6 [] millions > 5 /\ millions <= 25 -> 3
      [] millions > 150 /\ millions <= 500 -> -4 [] OTHER -> 0

ValuationModifier(millions) ==
    CASE millions <= 5 -> 6 [] millions > 5 /\ millions <= 25 -> 3
      [] millions > 25 /\ millions <= 150 -> 0 [] millions > 150 /\ millions <= 500 -> -4
      [] OTHER -> -8

RawScore(s) ==
    Point * CategoryScore(s.category)
    + Point * (IF s.documented THEN 8 ELSE -12)
    + Least(s.words * 990, 12 * Point)                    \* 0.55 a word
    + Least(s.title * 100, 4 * Point)                     \* 1/18 a character
    + Least(s.positive * 4500, 8 * Point)                 \* 2.5 a keyword
    - Least(s.negative * 6300, 14 * Point)                \* 3.5 a keyword
    + Point * ValuationModifier(s.valuation)

\* Hundredths of a point.
Score(s) == (Clamp(RawScore(s), 0, 100 * Point) + 9) \div 18

\* Hundredths of a per cent: a score point above 60 is worth 1/7.5.
ProjectedRoi(s) ==
    Clamp(10 * CategoryRoi(s.category) + (4 * (Score(s) - 6000) + 15) \div 30
          + 25 * s.positive - 35 * s.negative, 150, 2400)

RiskLevel(s) ==
    IF Score(s) >= 8200 THEN "low" ELSE IF Score(s) >= 6500 THEN "moderate" ELSE "high"

MarketTiming(s) ==
    IF Score(s) >= 7500 THEN "favorable" ELSE IF Score(s) >= 6000 THEN "watchlist" ELSE "cautious"

MaxScore == 10000
MaxRoi == 2400

Verdict(s) == IF Score(s) >= 7000 THEN "approved" ELSE "rejected"

EvaluateAssetSubmission(s) ==
    [score |-> Score(s), roi |-> ProjectedRoi(s), status |-> Verdict(s),
     risk |-> RiskLevel(s), timing |-> MarketTiming(s)]
=============================================================================
