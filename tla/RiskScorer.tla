----------------------------- MODULE RiskScorer -----------------------------
(***************************************************************************)
(* services/risk_scorer.py: how urgently somebody should look at a report. *)
(* It is given the report, its category and a count, and nothing about the *)
(* reporter.  Points are whole numbers: 40 scaled by a severity out of 5   *)
(* is 8 per step.                                                          *)
(***************************************************************************)
EXTENDS Integers

WEIGHTS == [category_severity |-> 40, emergency |-> 25, ongoing |-> 20,
            recent |-> 5, night_hours |-> 5, location_repeat |-> 5]

Bands == {"low", "moderate", "high", "critical"}

BAND_THRESHOLDS == [critical |-> 75, high |-> 50, moderate |-> 25, low |-> 0]

Least(a, b) == IF a <= b THEN a ELSE b
Points(factor, applies) == IF applies THEN WEIGHTS[factor] ELSE 0

\* A report without a category counts as severity 3.
SeverityPoints(severity) ==
  (WEIGHTS.category_severity \div 5) * (IF severity < 1 THEN 1 ELSE Least(5, severity))

IsNight(hour) == hour >= 20 \/ hour < 6

Contributions(severity, emergency, ongoing, ageMinutes, hour, repeats) ==
  SeverityPoints(severity) + Points("emergency", emergency) + Points("ongoing", ongoing)
    + Points("recent", ageMinutes <= 60) + Points("night_hours", IsNight(hour))
    + Least(WEIGHTS.location_repeat, repeats)

score_report(severity, emergency, ongoing, ageMinutes, hour, repeats) ==
  Least(100, Contributions(severity, emergency, ongoing, ageMinutes, hour, repeats))

band_for(score) ==
  CASE score >= BAND_THRESHOLDS.critical -> "critical"
    [] score < BAND_THRESHOLDS.critical /\ score >= BAND_THRESHOLDS.high -> "high"
    [] score < BAND_THRESHOLDS.high /\ score >= BAND_THRESHOLDS.moderate -> "moderate"
    [] OTHER -> "low"
=============================================================================
