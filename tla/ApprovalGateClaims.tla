-------------------------- MODULE ApprovalGateClaims --------------------------
(***************************************************************************)
(* What the repository's comments and documents say of the approval gate   *)
(* and the code does not do, each checked by a run of its own, which finds *)
(* the behaviour that refutes it; and the two states a run never leaves,   *)
(* though neither is an end.                                               *)
(***************************************************************************)
EXTENDS ApprovalGate

\* "A stale write is rejected and the caller reloads.  The failure mode is a retry, not a
\* stuck run."  (persistence/repository.py)  A run whose approval is granted leaves the
\* gate, as long as its approvers retry and operators resume it.
GrantedRunsProceed ==
    \A r \in RunIds :
        (VerdictOn(r) = "granted" /\ runs[r].phase = "AWAITING_APPROVAL")
            ~> runs[r].phase # "AWAITING_APPROVAL"

\* "the co-approval is valid only once a signature that does satisfy the limit is already
\* on file.  Without that ordering the role the policy names as the second approver could
\* never be one."  (orchestration/approvals.py)  With such a signature on file, Financial
\* Control is not refused.
CoSignerAdmitted ==
    [][\A w \in Workers :
         (/\ pc[w] = "signatures" /\ pc'[w] = "refuse"
          /\ job[w].approver \in FinancialControl)
            => Signers(w) \cap Primary = {}]_vars

\* A worker that may yet take run r off the gate: it will sign or reject, it reads the run
\* again first, or it holds the run as it is stored and only has to save it.
MayYetMove(w) ==
    \/ pc[w] \in {"sign", "reject", "reload"}
    \/ pc[w] = "signatures" /\ seen[w] = "PENDING"
    \/ pc[w] \in {"open", "hold"} /\ Fresh(w)

\* Run r waits for an answer that has been given, and nobody is about to act on it.
Stranded(r) ==
    /\ runs[r].phase = "AWAITING_APPROVAL"
    /\ VerdictOn(r) \in {"granted", "refused"}
    /\ \A w \in Workers : job[w].run = r => ~MayYetMove(w)

\* How a run comes to be stuck after all: when the worker that settled its approval dies or
\* loses the race to save it, no delivery, retry or resume ever moves it again, for each
\* finds the matter settled and returns the run as it is (short_circuit_replay, resume).
StrandedForGood == [][\A r \in RunIds : Stranded(r) => Stranded(r)']_vars

\* Run r is approved, nothing on it stands in the way, and another run of the same invoice
\* was decided first.
Outrun(r) ==
    /\ runs[r].phase = "EXECUTE_DECISION"
    /\ ~runs[r].vendorBlocks /\ ~Exhausted(runs[r])
    /\ \E q \in RunIds \ {r} : Decided(q) /\ Invoice[q] = Invoice[r]

\* Such a run is neither posted nor ended: the conflict the ledger reports reaches whoever
\* resumes it, and no handler writes it down on the run (record_decision, _drive).
OutrunForGood == [][\A r \in RunIds : Outrun(r) => Outrun(r)']_vars
=============================================================================
