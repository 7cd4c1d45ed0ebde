------------------------ MODULE MCAssessmentPipeline ------------------------
(* Small instances of AssessmentPipeline for TLC. *)
EXTENDS AssessmentPipeline, TLC

MCSymmetry == Permutations(Tickers) \cup Permutations(Refreshers)
                \cup Permutations(Batchers) \cup Permutations(Runners)
=============================================================================
