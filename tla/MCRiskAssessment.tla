--------------------------- MODULE MCRiskAssessment ---------------------------
(***************************************************************************)
(* RiskAssessment with three scores around the threshold: the threshold    *)
(* itself, one above it that is stored as the threshold, and one that is   *)
(* stored as more.                                                         *)
(***************************************************************************)
EXTENDS RiskAssessment

MCScores == {700000, 700003, 700006}

AllFaults == {"db", "ack", "crash"}
===============================================================================
