------------------------------ MODULE RunPhases ------------------------------
(***************************************************************************)
(* The closed vocabularies of a run and the shape of its phase plan:       *)
(* domain/enums.py, orchestration/phases/__init__.py and the transition    *)
(* functions of orchestration/machine.py.  Nothing here has state.         *)
(***************************************************************************)
EXTENDS Naturals

\* The run goes no further: every later delivery finds it so.
TerminalPhases == {"COMPLETED", "HELD", "FAILED"}

\* Phases that read and compute but write nothing besides the run itself.
ReadOnlyPhases ==
    {"INTAKE", "RETRIEVE_POLICY", "GATHER_EVIDENCE", "RECONCILE", "ASSESS_RISK"}

\* The two phases that call the model, which may be unreachable or unrepairable.
ModelPhases == {"ASSESS_RISK", "RECOMMEND"}

Phases ==
    ReadOnlyPhases \cup TerminalPhases
        \cup {"RECOMMEND", "AWAITING_APPROVAL", "EXECUTE_DECISION"}

\* The driver returns to its caller as soon as a run is in one of these.
StopPhases == TerminalPhases \cup {"AWAITING_APPROVAL"}

\* The linear plan: what follows each phase but the last.
NextPhase ==
    [ INTAKE          |-> "RETRIEVE_POLICY",
      RETRIEVE_POLICY |-> "GATHER_EVIDENCE",
      GATHER_EVIDENCE |-> "RECONCILE",
      RECONCILE       |-> "ASSESS_RISK",
      ASSESS_RISK     |-> "RECOMMEND" ]

Outcomes ==
    { "APPROVE_FOR_POSTING", "HOLD_FOR_INFORMATION", "REJECT_DUPLICATE",
      "REJECT_INVALID", "ESCALATE_CONTROL_REVIEW" }

\* Posting and rejection both write to the ledger, so both need a human.
Consequential == {"APPROVE_FOR_POSTING", "REJECT_DUPLICATE", "REJECT_INVALID"}

\* Slip: a case nobody has to approve counts as completed.
AfterRecommendSlip(outcome) ==
    IF outcome \in Consequential THEN "AWAITING_APPROVAL" ELSE "COMPLETED"

\* Where RECOMMEND leads: to the gate, or straight to a hold.
AfterRecommend(outcome) ==
    IF outcome \in Consequential THEN "AWAITING_APPROVAL" ELSE "HELD"

ApprovalStatus == {"PENDING", "APPROVED", "REJECTED"}
=============================================================================
