----------------------------- MODULE SignOffClaims -----------------------------
(***************************************************************************)
(* What a comment says of the decision and the code does not do.           *)
(***************************************************************************)
EXTENDS SignOff

MasterBlocks == master # None /\ master.status # "ACTIVE"

\* orchestration/phases/execute_decision.py:52-57: "a vendor which became BLOCKED [...]
\* between recommendation and approval would be posted on stale facts [...] Vendor *status*
\* is a fact about the world, and it is re-read here."  A posting is not recorded while the
\* vendor master blocks the vendor.
VendorRevalidated ==
    [][(\E d \in ledger' \ ledger : d.outcome = "APPROVE_FOR_POSTING") => ~MasterBlocks]_signOffVars
=============================================================================
