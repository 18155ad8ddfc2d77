------------------------- MODULE CaseAssessmentClaims -------------------------
(***************************************************************************)
(* What the documentation says of an assessment and the code does not do.  *)
(***************************************************************************)
EXTENDS CaseAssessment

\* domain/rules/outcome.py:23: "`APPROVE_FOR_POSTING` only when every control passed"; but a
\* history that could not be read counts as an empty one, and the duplicate control passes.
ApprovedOnlyOnHistory ==
    Approved => \A u \in run.unknowns : u.source # "check_invoice_history"
=============================================================================
