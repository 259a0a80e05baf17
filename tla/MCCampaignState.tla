--------------------------- MODULE MCCampaignState ---------------------------
(* A small campaign journal for TLC: two processes and one step, either a    *)
(* model turn, which is never repeated silently, or a measurement, which may *)
(* be repeated after an interruption.                                        *)
EXTENDS CampaignState, TLC

CONSTANTS w1, w2, turn, measure, i1, i2, r1, r2, e1, e2

MCWorkers == {w1, w2}
TurnOnly == {turn}
MeasureOnly == {measure}
MCRepeatable == {measure}
NoneRepeatable == {}
OneInput == {i1}
TwoInputs == {i1, i2}
MCResults == {r1, r2}
OneEvidence == {e1}
TwoEvidence == {e1, e2}

Symmetry == Permutations(MCWorkers) \cup Permutations(MCResults)
=============================================================================
