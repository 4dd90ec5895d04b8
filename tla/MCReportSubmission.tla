------------------------- MODULE MCReportSubmission -------------------------
(***************************************************************************)
(* Small instances of ReportSubmission.                                    *)
(***************************************************************************)
EXTENDS ReportSubmission, TLC

Symmetry == Permutations(Workers) \cup Permutations(Users)
=============================================================================
