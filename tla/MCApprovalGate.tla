---------------------------- MODULE MCApprovalGate ----------------------------
(***************************************************************************)
(* Small instances of ApprovalGate.                                        *)
(***************************************************************************)
EXTENDS ApprovalGateClaims, TLC

CONSTANTS r1, r2, cfo, ceo, fc, clerk

OneInvoice == [ r \in RunIds |-> "INV" ]

OwnInvoice == [ r \in RunIds |-> r ]

Either == {TRUE, FALSE}

PostOrHold == {"APPROVE_FOR_POSTING", "HOLD_FOR_INFORMATION"}

PostRejectOrHold == PostOrHold \cup {"REJECT_DUPLICATE"}

ApprovalSymmetry == Permutations(ApprovalIds)
=============================================================================
