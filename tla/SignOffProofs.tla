----------------------------- MODULE SignOffProofs -----------------------------
(***************************************************************************)
(* For every set of cases and every authority register: who signed could   *)
(* sign, what is posted was within a signer's authority, a risky posting   *)
(* has two signers, and a granted run fails only for what was presented.   *)
(*                                                                         *)
(* The argument has two halves.  While there is no approval, the run is    *)
(* the one CaseAssessmentProofs is about, and what an approval will rest   *)
(* on is already on it (Assessing).  From the approval on, everything it   *)
(* was shown stands still, and only signatures are added (Deciding).       *)
(***************************************************************************)
EXTENDS SignOff, CaseAssessmentProofs, FiniteSetTheorems

USE CaseAssumption, CallerAssumption

-----------------------------------------------------------------------------
(* The authority ladder *)

LEMMA LadderFacts ==
    /\ DOMAIN AuthorityLadder = 1..5
    /\ AuthorityLadder[5].limit = None
    /\ \A i \in 1..4 : AuthorityLadder[i].limit \in Nat /\ AuthorityLadder[i].limit # None
    /\ \A i, j \in 1..4 : i < j => AuthorityLadder[i].limit < AuthorityLadder[j].limit
    /\ \A i, j \in 1..5 : AuthorityLadder[i].role = AuthorityLadder[j].role => i = j
    /\ \A i \in 1..5 : AuthorityLadder[i].role # FinancialControl
<1>1. /\ DOMAIN AuthorityLadder = 1..5
      /\ AuthorityLadder[1] = [role |-> "COST_CENTRE_MANAGER", limit |-> 1000000]
      /\ AuthorityLadder[2] = [role |-> "DEPARTMENT_DIRECTOR", limit |-> 5000000]
      /\ AuthorityLadder[3] = [role |-> "EXECUTIVE_DIRECTOR", limit |-> 25000000]
      /\ AuthorityLadder[4] = [role |-> "CFO", limit |-> 100000000]
      /\ AuthorityLadder[5] = [role |-> "CEO", limit |-> None]
  BY SMT DEF AuthorityLadder
<1>2. /\ AuthorityLadder[1].limit = 1000000 /\ AuthorityLadder[2].limit = 5000000
      /\ AuthorityLadder[3].limit = 25000000 /\ AuthorityLadder[4].limit = 100000000
      /\ AuthorityLadder[5].limit = None
  BY <1>1, SMT
<1>3. /\ AuthorityLadder[1].role = "COST_CENTRE_MANAGER"
      /\ AuthorityLadder[2].role = "DEPARTMENT_DIRECTOR"
      /\ AuthorityLadder[3].role = "EXECUTIVE_DIRECTOR"
      /\ AuthorityLadder[4].role = "CFO"
      /\ AuthorityLadder[5].role = "CEO"
  BY <1>1, SMT
<1>4. \A i \in 1..4 : AuthorityLadder[i].limit \in Nat /\ AuthorityLadder[i].limit # None
  BY <1>2, SMT
<1>5. \A i, j \in 1..4 : i < j => AuthorityLadder[i].limit < AuthorityLadder[j].limit
  BY <1>2, SMT
<1>6. \A i, j \in 1..5 : AuthorityLadder[i].role = AuthorityLadder[j].role => i = j
  BY <1>3, SMT
<1>7. \A i \in 1..5 : AuthorityLadder[i].role # FinancialControl
  BY <1>3, SMT DEF FinancialControl
<1> QED
  BY <1>1, <1>2, <1>4, <1>5, <1>6, <1>7

\* The first rung that covers an amount.
LEMMA LeastRung ==
    ASSUME NEW amount \in Nat
    PROVE  \E i \in 1..5 : /\ AuthorityLadder[i].role = MinimumRole(amount)
                           /\ Covers(AuthorityLadder[i], amount)
                           /\ \A j \in 1..5 : Covers(AuthorityLadder[j], amount) => i <= j
<1> DEFINE Rungs == { i \in 1..5 : Covers(AuthorityLadder[i], amount) }
<1>1. 5 \in Rungs
  BY LadderFacts DEF Covers
<1>2. \E i \in Rungs : \A j \in Rungs : i <= j
  <2>1. CASE 1 \in Rungs
    BY <2>1
  <2>2. CASE 1 \notin Rungs /\ 2 \in Rungs
    BY <2>2
  <2>3. CASE 1 \notin Rungs /\ 2 \notin Rungs /\ 3 \in Rungs
    BY <2>3
  <2>4. CASE 1 \notin Rungs /\ 2 \notin Rungs /\ 3 \notin Rungs
    BY <1>1, <2>4
  <2> QED
    BY <2>1, <2>2, <2>3, <2>4
<1>3. MinimumRole(amount) = AuthorityLadder[Min(Rungs)].role
  BY LadderFacts DEF MinimumRole
<1>4. Min(Rungs) \in Rungs /\ \A j \in Rungs : Min(Rungs) <= j
  <2> HIDE DEF Rungs
  <2> QED
    BY <1>2 DEF Min
<1> QED
  BY <1>3, <1>4

\* The rung of a role on the ladder is the one that names it.
LEMMA RungOf ==
    ASSUME NEW i \in 1..5
    PROVE  Seniority(AuthorityLadder[i].role) = i
  BY LadderFacts DEF Seniority

-----------------------------------------------------------------------------
(* What the phases leave for an approval *)

ValidityRules ==
    { "document_total_agrees_with_lines", "invoice_date_not_in_the_future",
      "document_is_an_invoice_not_a_credit_note" }

\* What of the vendor's record stops a decision, whatever else the record says.
VendorBlocks(vendor) ==
    IF vendor = None
    THEN {Fault("record_exists")}
    ELSE When(vendor.status # "ACTIVE", {Fault("status_active")})
         \cup When(vendor.onHold, {Fault("not_on_payment_hold")})

\* RECONCILE leaves the role for the amount and the vendor's blocks; before it nothing is on
\* the record but what makes a submission unusable.
Prepared ==
    run # None =>
        /\ run.phase = "INTAKE" => run.exceptions = {}
        /\ run.phase \in Unreconciled => \A e \in run.exceptions : e.rule \in ValidityRules
        /\ run.phase \notin Unreconciled =>
               /\ run.role = MinimumRole(run.request.gross)
               /\ VendorBlocks(run.vendor) \subseteq run.exceptions

LEMMA BlocksOfVendor ==
    ASSUME NEW vendor, NEW invoice, NEW history
    PROVE  /\ VendorBlocks(vendor) \subseteq VendorExceptions(vendor, invoice, history)
           /\ \A e \in VendorExceptions(vendor, invoice, history) :
                  e.blocking /\ e.rule # BankChangeRule => e \in VendorBlocks(vendor)
           /\ \A e \in VendorBlocks(vendor) :
                  /\ e.blocking
                  /\ e.rule \in {"record_exists", "status_active", "not_on_payment_hold"}
  BY DEF VendorBlocks, VendorExceptions, When, Fault, Notice, BankChangeRule

LEMMA GrossIsKept ==
    ASSUME NEW r, RequestFields \subseteq DOMAIN r, NEW d
    PROVE  /\ ToInvoice(r, d).gross = r.gross
           /\ Redacted(r).gross = r.gross /\ Redacted(r).vendor = r.vendor
           /\ DOMAIN Redacted(r) = DOMAIN r
  BY DEF ToInvoice, Redacted, RequestFields

\* The exceptions and the role after each phase.
LEMMA IntakeFinds ==
    ASSUME NEW s, HasShape(s), s.exceptions = {}
    PROVE  \A e \in IntakeOf(s).exceptions : e.rule \in ValidityRules
<1>1. IntakeOf(s).exceptions = Recorded({}, ValidityExceptions(Redacted(s.request), day))
  BY DEF HasShape, FreshCase, IntakeOf
<1>2. \A e \in ValidityExceptions(Redacted(s.request), day) : e.rule \in ValidityRules
  BY DEF ValidityExceptions, InvalidReasons, When, Fault, ValidityRules
<1> QED
  BY <1>1, <1>2 DEF Recorded

SameFindings(s, t) == t.exceptions = s.exceptions /\ t.role = s.role

LEMMA RetrieveFinds ==
    ASSUME NEW s, HasShape(s), NEW answered
    PROVE  SameFindings(s, RetrievePolicyOf(s, answered))
  BY DEF HasShape, FreshCase, RetrievePolicyOf, SameFindings

LEMMA GatherFinds ==
    ASSUME NEW s, HasShape(s), NEW answered
    PROVE  SameFindings(s, GatherEvidenceOf(s, answered))
<1> DEFINE v == VendorLookup(s, "get_vendor_record" \in answered)
           o == OrderLookup(v, "get_purchase_order" \in answered)
           h == HistoryLookup(o, "check_invoice_history" \in answered)
           t == DocumentSearch(h, "retrieve_finance_documents" \in answered)
<1>1. HasShape(v) /\ SameFindings(s, v)
  BY DEF HasShape, FreshCase, VendorLookup, SameFindings
<1>2. HasShape(o) /\ SameFindings(v, o)
  BY <1>1 DEF HasShape, FreshCase, OrderLookup, SameFindings
<1>3. HasShape(h) /\ SameFindings(o, h)
  BY <1>2 DEF HasShape, FreshCase, HistoryLookup, SameFindings
<1>4. SameFindings(h, t)
  BY <1>3 DEF HasShape, FreshCase, DocumentSearch, SameFindings
<1>5. t = GatherEvidenceOf(s, answered)
  BY DEF GatherEvidenceOf
<1> HIDE DEF v, o, h, t
<1> QED
  BY <1>1, <1>2, <1>3, <1>4, <1>5 DEF SameFindings

LEMMA ReconcileFinds ==
    ASSUME NEW s, HasShape(s), \A e \in s.exceptions : e.rule \in ValidityRules
    PROVE  LET t == ReconcileOf(s)
           IN  /\ t.role = MinimumRole(ToInvoice(s.request, day).gross)
               /\ VendorBlocks(s.vendor) \subseteq t.exceptions
<1> DEFINE found == ReconcileExceptions(s, ToInvoice(s.request, day))
<1>1. /\ ReconcileOf(s).role = MinimumRole(ToInvoice(s.request, day).gross)
      /\ ReconcileOf(s).exceptions = Recorded(s.exceptions, found)
  BY DEF HasShape, FreshCase, ReconcileOf
<1>2. VendorBlocks(s.vendor) \subseteq found
  BY BlocksOfVendor DEF ReconcileExceptions
<1>3. \A e \in VendorBlocks(s.vendor) : \A o \in s.exceptions : o.rule # e.rule
  BY BlocksOfVendor DEF ValidityRules
<1> HIDE DEF found
<1> QED
  BY <1>1, <1>2, <1>3 DEF Recorded

LEMMA AssessFinds ==
    ASSUME NEW s, HasShape(s)
    PROVE  SameFindings(s, AssessRiskOf(s))
  BY DEF HasShape, FreshCase, AssessRiskOf, SameFindings

LEMMA RecommendFinds ==
    ASSUME NEW s, HasShape(s), NEW suggestion
    PROVE  SameFindings(s, RecommendOf(s, suggestion))
  BY DEF HasShape, FreshCase, RecommendOf, SameFindings

LEMMA SavedFinds ==
    ASSUME NEW t, HasShape(t), NEW p
    PROVE  SameFindings(t, [t EXCEPT !.phase = p])
  BY DEF HasShape, FreshCase, SameFindings

\* A saved copy has what the copy had, in its new phase.
LEMMA Saved ==
    ASSUME NEW t, HasShape(t), NEW p, run' = [t EXCEPT !.phase = p]
    PROVE  /\ run'.phase = p /\ run'.outcome = t.outcome
           /\ run'.exceptions = t.exceptions /\ run'.role = t.role
           /\ run'.request = t.request /\ run'.vendor = t.vendor
  BY DEF HasShape, FreshCase

LEMMA SubmitPrepares ==
    ASSUME Submit
    PROVE  Prepared' /\ run'.phase \in Undecided
  BY DEF Submit, FreshCase, Prepared, Unreconciled, Undecided, ReadOnlyPhases

LEMMA IntakePrepares ==
    ASSUME Inv, Prepared, Intake
    PROVE  Prepared' /\ run'.phase \in Undecided
<1> DEFINE t == IntakeOf(run)
<1>1. run # None /\ run.phase = "INTAKE" /\ run.exceptions = {} /\ HasShape(run)
  BY TypeIsStored DEF Intake, In, Prepared, Inv
<1>2. HasShape(t) /\ t.phase = "INTAKE"
  BY <1>1, IntakeKeeps DEF Kept
<1>3. \A e \in t.exceptions : e.rule \in ValidityRules
  BY <1>1, IntakeFinds
<1>4. run' = [t EXCEPT !.phase = NextPhase[@]]
  BY DEF Intake, Completed
<1> HIDE DEF t
<1>5. run' = [t EXCEPT !.phase = "RETRIEVE_POLICY"]
  BY <1>2, <1>4 DEF NextPhase
<1>6. run'.phase = "RETRIEVE_POLICY" /\ run'.exceptions = t.exceptions
  BY <1>2, <1>5, Saved
<1> QED
  BY <1>3, <1>6 DEF Prepared, Unreconciled, Undecided, ReadOnlyPhases

LEMMA LookupsPrepare ==
    ASSUME Inv, Prepared, RetrievePolicy \/ GatherEvidence
    PROVE  Prepared' /\ run'.phase \in Undecided
<1>1. run # None /\ run.phase \in {"RETRIEVE_POLICY", "GATHER_EVIDENCE"} /\ HasShape(run)
  BY TypeIsStored DEF RetrievePolicy, GatherEvidence, In, Inv
<1>2. \E t : /\ HasShape(t) /\ t.phase = run.phase /\ t.exceptions = run.exceptions
              /\ run' = [t EXCEPT !.phase = NextPhase[@]]
  <2>1. CASE RetrievePolicy
    <3> PICK answered \in Answers : Completed(RetrievePolicyOf(run, answered))
      BY <2>1 DEF RetrievePolicy
    <3>1. /\ HasShape(RetrievePolicyOf(run, answered))
          /\ RetrievePolicyOf(run, answered).phase = run.phase
          /\ RetrievePolicyOf(run, answered).exceptions = run.exceptions
      BY <1>1, RetrieveKeeps, RetrieveFinds DEF Kept, SameFindings
    <3> QED
      BY <3>1 DEF Completed
  <2>2. CASE GatherEvidence
    <3> PICK answered \in Answers : Completed(GatherEvidenceOf(run, answered))
      BY <2>2 DEF GatherEvidence
    <3>1. /\ HasShape(GatherEvidenceOf(run, answered))
          /\ GatherEvidenceOf(run, answered).phase = run.phase
          /\ GatherEvidenceOf(run, answered).exceptions = run.exceptions
      BY <1>1, GatherKeeps, GatherFinds DEF Kept, SameFindings
    <3> QED
      BY <3>1 DEF Completed
  <2> QED
    BY <2>1, <2>2
<1> PICK t : /\ HasShape(t) /\ t.phase = run.phase /\ t.exceptions = run.exceptions
             /\ run' = [t EXCEPT !.phase = NextPhase[@]]
  BY <1>2
<1>3. NextPhase[t.phase] \in {"GATHER_EVIDENCE", "RECONCILE"}
  BY <1>1 DEF NextPhase
<1>4. run' = [t EXCEPT !.phase = NextPhase[t.phase]]
  OBVIOUS
<1>5. run'.phase = NextPhase[t.phase] /\ run'.exceptions = run.exceptions
  BY <1>4, Saved
<1> QED
  BY <1>1, <1>3, <1>5 DEF Prepared, Unreconciled, Undecided, ReadOnlyPhases

LEMMA ReconcilePrepares ==
    ASSUME Inv, Prepared, Reconcile
    PROVE  Prepared' /\ run'.phase \in Undecided
<1> DEFINE t == ReconcileOf(run)
<1>1. run # None /\ run.phase = "RECONCILE" /\ HasShape(run)
  BY TypeIsStored DEF Reconcile, In, Inv
<1>2. \A e \in run.exceptions : e.rule \in ValidityRules
  BY <1>1 DEF Prepared, Unreconciled
<1>3. /\ HasShape(t) /\ t.phase = "RECONCILE"
      /\ t.request = run.request /\ t.vendor = run.vendor
  BY <1>1, ReconcileKeeps DEF Kept, SameEvidence
<1>4. /\ t.role = MinimumRole(ToInvoice(run.request, day).gross)
      /\ VendorBlocks(run.vendor) \subseteq t.exceptions
  BY <1>1, <1>2, ReconcileFinds
<1>5. ToInvoice(run.request, day).gross = run.request.gross
  <2>1. run.request = Redacted(world.request)
    BY <1>1 DEF Inv, RecordInv, Unvalidated
  <2>2. RequestFields \subseteq DOMAIN run.request
    BY <2>1, GrossIsKept DEF Inv
  <2> QED
    BY <2>2, GrossIsKept
<1>6. run' = [t EXCEPT !.phase = NextPhase[@]]
  BY DEF Reconcile, Completed
<1> HIDE DEF t
<1>7. run' = [t EXCEPT !.phase = "ASSESS_RISK"]
  BY <1>3, <1>6 DEF NextPhase
<1>8. /\ run'.phase = "ASSESS_RISK" /\ run'.exceptions = t.exceptions /\ run'.role = t.role
      /\ run'.request = run.request /\ run'.vendor = run.vendor
  BY <1>3, <1>7, Saved
<1> QED
  BY <1>4, <1>5, <1>8 DEF Prepared, Unreconciled, Undecided, ReadOnlyPhases

LEMMA AssessPrepares ==
    ASSUME Inv, Prepared, AssessRisk \/ AssessmentFails
    PROVE  Prepared' /\ run'.phase \in Undecided
<1> DEFINE t == AssessRiskOf(run)
<1>1. run # None /\ run.phase = "ASSESS_RISK" /\ HasShape(run)
  BY TypeIsStored DEF AssessRisk, AssessmentFails, In, Inv
<1>2. /\ HasShape(t) /\ t.phase = "ASSESS_RISK"
      /\ t.request = run.request /\ t.vendor = run.vendor
      /\ t.exceptions = run.exceptions /\ t.role = run.role
  BY <1>1, AssessKeeps, AssessFinds DEF Kept, SameEvidence, SameFindings
<1>3. run' = [t EXCEPT !.phase = NextPhase[@]] \/ run' = [t EXCEPT !.phase = "FAILED"]
  BY DEF AssessRisk, AssessmentFails, Completed
<1> HIDE DEF t
<1>4. run' = [t EXCEPT !.phase = "RECOMMEND"] \/ run' = [t EXCEPT !.phase = "FAILED"]
  BY <1>2, <1>3 DEF NextPhase
<1>5. /\ run'.phase \in {"RECOMMEND", "FAILED"}
      /\ run'.exceptions = run.exceptions /\ run'.role = run.role
      /\ run'.request = run.request /\ run'.vendor = run.vendor
  <2>1. CASE run' = [t EXCEPT !.phase = "RECOMMEND"]
    BY <1>2, <2>1, Saved
  <2>2. CASE run' = [t EXCEPT !.phase = "FAILED"]
    BY <1>2, <2>2, Saved
  <2> QED
    BY <1>4, <2>1, <2>2
<1> QED
  BY <1>1, <1>5 DEF Prepared, Unreconciled, Undecided, ReadOnlyPhases

LEMMA NarrativePrepares ==
    ASSUME Inv, Prepared, NarrativeFails
    PROVE  Prepared' /\ run'.phase \in Undecided
<1>1. /\ run # None /\ run.phase = "RECOMMEND" /\ HasShape(run)
      /\ run' = [run EXCEPT !.phase = "FAILED"]
  BY TypeIsStored DEF NarrativeFails, In, Inv
<1>2. /\ run'.phase = "FAILED"
      /\ run'.exceptions = run.exceptions /\ run'.role = run.role
      /\ run'.request = run.request /\ run'.vendor = run.vendor
  BY <1>1, Saved
<1> QED
  BY <1>1, <1>2 DEF Prepared, Unreconciled, Undecided

\* After RECOMMEND the run waits or is held, and what was prepared is still there.
LEMMA RecommendPrepares ==
    ASSUME Inv, Prepared, Recommend
    PROVE  /\ Prepared'
           /\ run'.phase = AfterRecommend(run'.outcome)
           /\ run'.role = run.role /\ run'.exceptions = run.exceptions
<1>1. run # None /\ run.phase = "RECOMMEND" /\ HasShape(run)
  BY TypeIsStored DEF Recommend, In, Inv
<1> PICK suggestion \in Outcomes \cup {None} : Concluded(RecommendOf(run, suggestion))
  BY DEF Recommend
<1> DEFINE t == RecommendOf(run, suggestion)
<1>2. /\ HasShape(t) /\ t.request = run.request /\ t.vendor = run.vendor
      /\ t.exceptions = run.exceptions /\ t.role = run.role
  BY <1>1, RecommendKeeps, RecommendFinds DEF SameEvidence, SameFindings
<1>3. run' = [t EXCEPT !.phase = AfterRecommend(t.outcome)]
  BY DEF Concluded
<1> HIDE DEF t
<1>4. /\ run'.phase = AfterRecommend(t.outcome) /\ run'.outcome = t.outcome
      /\ run'.exceptions = run.exceptions /\ run'.role = run.role
      /\ run'.request = run.request /\ run'.vendor = run.vendor
  BY <1>2, <1>3, Saved
<1>5. run'.phase \notin Unreconciled
  BY <1>4 DEF AfterRecommend, Unreconciled
<1> QED
  BY <1>1, <1>4, <1>5 DEF Prepared, Unreconciled

-----------------------------------------------------------------------------
(* What stands from the request of an approval on *)

\* Until an approval is requested.
Assessing ==
    /\ ledger = {}
    /\ run # None => run.phase \in Undecided \cup {"HELD"}
    /\ RecordInv
    /\ Prepared

RowFields ==
    {"status", "outcome", "amount", "vendor", "role", "second", "presented", "signatures"}

\* What the approvers are shown is the case, and the row asks for what its risk asks for.
Shown ==
    /\ DOMAIN approval = RowFields
    /\ run.request = Redacted(world.request)
    /\ run.role = MinimumRole(world.request.gross) /\ approval.role = run.role
    /\ run.outcome \in Consequential /\ approval.outcome = run.outcome
    /\ approval.amount = world.request.gross /\ approval.vendor = world.request.vendor
    /\ approval.second \in BOOLEAN /\ (Risky => approval.second)
    /\ VendorBlocks(run.vendor) \subseteq approval.presented

\* Why a signature may stand on the row.
Justified(s) ==
    /\ run.request.requestedBy \notin {None, s.approver}
    /\ s.approver \notin Receivers(run)
    /\ (run.vendor # None /\ run.vendor.createdBy = s.approver) =>
           ~(s.on <= AddBusinessDays(ChangedOn(run.vendor), CoolingOffBusinessDays))
    /\ IF s.held = FinancialControl
       THEN \E t \in approval.signatures :
                t # s /\ t.held # FinancialControl /\ Within(t.held, approval.amount)
       ELSE Within(s.held, approval.amount)
    /\ s.delegation # None =>
           \E e \in Register :
               /\ e.id = s.delegation /\ e.delegate = s.approver /\ e.role = s.held
               /\ e.from <= s.on /\ s.on <= e.until
               /\ ScopeCovers(e.scope, run.request.centre)

Signed == \A s \in approval.signatures : Filed(s) /\ Justified(s)

PostedRow ==
    [ outcome |-> run.outcome, amount |-> world.request.gross, vendor |-> world.request.vendor ]

\* Run, approval and ledger move together.
Stage ==
    \/ run.phase = "AWAITING_APPROVAL" /\ approval.status = "PENDING" /\ ledger = {}
    \/ run.phase = "HELD" /\ approval.status = "REJECTED" /\ ledger = {}
    \/ /\ approval.status = "APPROVED" /\ RequirementMet(approval)
       /\ \/ run.phase = "EXECUTE_DECISION" /\ ledger = {}
          \/ run.phase = "COMPLETED" /\ ledger = {PostedRow}
          \/ run.phase = "FAILED" /\ ledger = {} /\ VendorBlocks(run.vendor) # {}

Deciding == Shown /\ Signed /\ Stage

SignOffInv ==
    /\ TypeOK
    /\ world \in Cases
    /\ ~Asked => Assessing
    /\ Asked => Deciding

\* The fields no step changes once an approval is requested.
SameCase(s, t) ==
    /\ HasShape(t)
    /\ SameEvidence(s, t) /\ SameDates(s, t)
    /\ t.role = s.role /\ t.outcome = s.outcome
    /\ t.second = s.second /\ t.tightened = s.tightened

SameRow(a, b) ==
    /\ DOMAIN b = RowFields
    /\ b.outcome = a.outcome /\ b.amount = a.amount /\ b.vendor = a.vendor
    /\ b.role = a.role /\ b.second = a.second /\ b.presented = a.presented

LEMMA InitHolds == SignOffInit => SignOffInv
  BY DEF SignOffInit, NoApproval, Asked, SignOffInv, Assessing, Init, TypeOK, RecordInv, Prepared

LEMMA StoredStands ==
    ASSUME Stored(run), SameCase(run, run'), run'.phase \in Phases, UNCHANGED <<day, world>>
    PROVE  Stored(run)'
  BY DEF Stored, SameCase, SameEvidence, SameDates, HasShape

LEMMA ShownStands ==
    ASSUME Shown, SameCase(run, run'), SameRow(approval, approval'), world' = world
    PROVE  Shown'
  BY DEF Shown, SameCase, SameRow, SameEvidence, SameDates, Risky

\* A signature stays justified while others join it and the days pass.
LEMMA SignatureStands ==
    ASSUME SameCase(run, run'), SameRow(approval, approval'),
           day \in Nat, day' \in Nat, day <= day',
           approval.signatures \subseteq approval'.signatures,
           NEW s, Filed(s), Justified(s)
    PROVE  Filed(s)' /\ Justified(s)'
<1>1. Filed(s)'
  BY DEF Filed
<1>2. Justified(s)'
  BY DEF Justified, SameCase, SameEvidence, SameRow, Receivers
<1> QED
  BY <1>1, <1>2

LEMMA SignedStands ==
    ASSUME Signed, SameCase(run, run'), SameRow(approval, approval'),
           day \in Nat, day' \in Nat, day <= day',
           approval'.signatures = approval.signatures
    PROVE  Signed'
  BY SignatureStands DEF Signed

\* Phases: nothing before the gate happens to a run that has reached it.
LEMMA AssessAfter ==
    ASSUME SignOffInv, Asked, Assess
    PROVE  Tick
<1>1. run.phase \notin ReadOnlyPhases \cup {"RECOMMEND"}
  BY DEF SignOffInv, Deciding, Stage, ReadOnlyPhases
<1> QED
  BY <1>1 DEF Assess, Submit, Intake, RetrievePolicy, GatherEvidence, Reconcile, AssessRisk,
              AssessmentFails, NarrativeFails, In, ReadOnlyPhases

-----------------------------------------------------------------------------
(* Each step *)

\* Before the request: the phases are those CaseAssessmentProofs is about.
LEMMA AssessHolds ==
    ASSUME SignOffInv, ~Asked, Assess
    PROVE  SignOffInv'
<1>1. Inv /\ Prepared /\ ledger = {} /\ (run # None => run.phase \in Undecided \cup {"HELD"})
  BY DEF SignOffInv, Assessing, Inv
<1>2. ledger' = {} /\ ~Asked'
  BY <1>1 DEF Assess, Asked
<1>3. Inv'
  BY <1>1, SubmitOK, IntakeOK, RetrievePolicyOK, GatherEvidenceOK, ReconcileOK, AssessOK,
     NarrativeFailsOK, TickOK DEF Assess
<1>4. Prepared' /\ (run' # None => run'.phase \in Undecided \cup {"HELD"})
  <2>1. CASE Tick
    BY <1>1, <2>1 DEF Tick, Prepared
  <2>2. CASE ~Tick
    BY <1>1, <2>2, SubmitPrepares, IntakePrepares, LookupsPrepare, ReconcilePrepares,
       AssessPrepares, NarrativePrepares DEF Assess
  <2> QED
    BY <2>1, <2>2
<1> QED
  BY <1>2, <1>3, <1>4 DEF SignOffInv, Assessing, Inv

\* After it only the days pass.
LEMMA WaitHolds ==
    ASSUME SignOffInv, Asked, Assess
    PROVE  SignOffInv'
<1>1. Tick /\ UNCHANGED <<approval, revoked, master, ledger>>
  BY AssessAfter DEF Assess
<1>2. /\ day \in Nat /\ day' \in Nat /\ day <= day' /\ TypeOK' /\ world' = world /\ run' = run
      /\ approval' = approval /\ ledger' = ledger
  <2>1. day \in FirstDay..LastDay /\ day < LastDay /\ day' = day + 1 /\ run' = run /\ world' = world
    BY <1>1 DEF Tick, SignOffInv, TypeOK
  <2>2. day' \in FirstDay..LastDay /\ FirstDay..day \subseteq FirstDay..day'
    BY <2>1
  <2>3. TypeOK'
    BY <2>1, <2>2 DEF SignOffInv, TypeOK, Stored, FreshCase
  <2> QED
    BY <1>1, <2>1, <2>2, <2>3
<1>3. Shown' /\ Stage'
  BY <1>2 DEF SignOffInv, Deciding, Shown, Stage, Risky, RequirementMet, Signers, PostedRow
<1>4. \A s \in approval.signatures : Filed(s) /\ Justified(s)
  BY DEF SignOffInv, Deciding, Signed
<1>5. Signed'
  BY <1>2, <1>4 DEF Signed, Filed, Justified, Receivers
<1> QED
  BY <1>2, <1>3, <1>5 DEF SignOffInv, Asked, Deciding

\* RECOMMEND requests an approval for what it has recorded, or holds the case.
LEMMA ConcludeHolds ==
    ASSUME SignOffInv, Conclude
    PROVE  SignOffInv'
<1>1. Recommend /\ UNCHANGED <<revoked, master, ledger>>
  BY DEF Conclude
<1>2. run # None /\ run.phase = "RECOMMEND" /\ UNCHANGED <<day, world>>
  BY <1>1 DEF Recommend, In
<1>3. ~Asked
  BY <1>2 DEF SignOffInv, Deciding, Stage
<1>4. Inv /\ Prepared /\ ledger = {}
  BY <1>3 DEF SignOffInv, Assessing, Inv
<1>5. /\ Inv' /\ Prepared' /\ ledger' = {} /\ (Risky' => run'.second)
      /\ run'.phase = AfterRecommend(run'.outcome) /\ run'.phase \in {"AWAITING_APPROVAL", "HELD"}
      /\ run'.outcome \in Outcomes /\ run'.second \in BOOLEAN
      /\ run'.request = run.request /\ run'.vendor = run.vendor
      /\ run'.role = run.role /\ run'.exceptions = run.exceptions
  BY <1>1, <1>4, RecommendOK, RecommendPrepares, RiskAtRecommend, Verdict DEF SameEvidence
<1>6. CASE run'.phase = "HELD"
  <2>1. approval' = approval
    BY <1>6 DEF Conclude
  <2> QED
    BY <1>3, <1>5, <1>6, <2>1 DEF SignOffInv, Assessing, Inv, Asked
<1>7. CASE run'.phase = "AWAITING_APPROVAL"
  <2>1. approval' = Requested(run')
    BY <1>7 DEF Conclude
  <2>2. run'.outcome \in Consequential
    BY <1>5, <1>7 DEF AfterRecommend
  <2>3. /\ run.request = Redacted(world.request) /\ run.role = MinimumRole(run.request.gross)
        /\ VendorBlocks(run.vendor) \subseteq run.exceptions
    BY <1>2, <1>4 DEF Inv, RecordInv, Unvalidated, Prepared, Unreconciled
  <2>4. /\ ToInvoice(run.request, day).gross = world.request.gross
        /\ run.request.gross = world.request.gross /\ run.request.vendor = world.request.vendor
    <3>1. RequestFields \subseteq DOMAIN world.request
      BY DEF SignOffInv
    <3>2. /\ run.request.gross = world.request.gross /\ run.request.vendor = world.request.vendor
          /\ RequestFields \subseteq DOMAIN run.request
      BY <2>3, <3>1, GrossIsKept
    <3> QED
      BY <3>2, GrossIsKept
  <2>5. /\ approval'.status = "PENDING" /\ approval'.signatures = {}
        /\ DOMAIN approval' = RowFields
        /\ approval'.outcome = run'.outcome /\ approval'.role = run'.role
        /\ approval'.amount = ToInvoice(run'.request, day).gross
        /\ approval'.vendor = run'.request.vendor
        /\ approval'.second = run'.second /\ approval'.presented = run'.exceptions
    BY <1>2, <2>1 DEF Requested, RowFields
  <2>6. Risky' => run'.second
    BY <1>5
  <2>7. Shown'
    BY <1>2, <1>5, <2>2, <2>3, <2>4, <2>5, <2>6 DEF Shown
  <2>8. Signed' /\ Stage' /\ Asked'
    BY <1>5, <1>7, <2>5 DEF Signed, Stage, Asked
  <2> QED
    BY <1>5, <2>7, <2>8 DEF SignOffInv, Inv, Deciding
<1> QED
  BY <1>5, <1>6, <1>7

-----------------------------------------------------------------------------
(* A signature *)

\* A role on the ladder is within an amount when its limit is.
LEMMA LimitWithin ==
    ASSUME NEW role \in LadderRoles, NEW amount \in Nat,
           LimitOf(role) # None, LimitOf(role) >= amount
    PROVE  Within(role, amount)
  BY DEF LimitOf, Within, Covers

LEMMA NotBarred ==
    ASSUME NEW a, Barred(a) = {}, a.approver # None
    PROVE  a.requester # None /\ a.requester # a.approver /\ a.role \in Roles
  BY DEF Barred, When

LEMMA HeldIsRole ==
    ASSUME NEW a, a.role \in Roles
    PROVE  HeldRole(a) \in Roles
  BY DEF HeldRole, Raised, Applies

\* What the register answers with is an entry of it, as far as its words go.
LEMMA EntryOf ==
    ASSUME NEW c, NEW answers, LookedUp(c, answers) # None
    PROVE  \E e \in Register :
               LET x == LookedUp(c, answers)
               IN  /\ x.id = e.id /\ x.delegate = e.delegate /\ x.role = e.role
                   /\ x.scope = e.scope /\ x.from = e.from /\ x.until = e.until
<1>1. /\ \E e \in Register : e.id = c.delegation
      /\ LookedUp(c, answers) = RegisterEntry(c.delegation)
  BY DEF LookedUp, RegisterEntry
<1> DEFINE e == CHOOSE f \in Register : f.id = c.delegation
<1>2. e \in Register
  BY <1>1
<1>3. LookedUp(c, answers) = [e EXCEPT !.revoked = c.delegation \in revoked]
  BY <1>1 DEF RegisterEntry
<1>4. EntryFields \subseteq DOMAIN e
  BY <1>2
<1> HIDE DEF e
<1> QED
  BY <1>2, <1>3, <1>4 DEF EntryFields

\* A signature that is filed can be justified from the row it joins.
LEMMA SignatureJustified ==
    ASSUME SignOffInv, Deciding, NEW c, c.approver # None, NEW answers, NEW a,
           a = Application(c, LookedUp(c, answers)),
           c.approver \notin Signers(approval), Sufficient(a), Clashes(c.approver) = {}
    PROVE  Filed(Signature(a)) /\ Justified(Signature(a)) /\ Signature(a).approver = c.approver
<1> DEFINE s == Signature(a)
<1>1. /\ a.approver = c.approver /\ a.role = c.role /\ a.entry = LookedUp(c, answers)
      /\ a.requester = run.request.requestedBy /\ a.centre = run.request.centre
      /\ a.amount = approval.amount /\ a.coSigns = Covered(approval) /\ a.today = day
  BY DEF Application
<1>2. /\ s.approver = a.approver /\ s.held = HeldRole(a)
      /\ s.limit = (IF HeldRole(a) = FinancialControl THEN None ELSE LimitOf(HeldRole(a)))
      /\ s.delegation = (IF Raised(a) THEN a.entry.id ELSE None)
      /\ s.overseer = (a.role = FinancialControl) /\ s.on = a.today
  BY DEF Signature
<1>3. /\ a.requester # None /\ a.requester # a.approver /\ a.role \in Roles
      /\ HeldRole(a) \in Roles
  BY <1>1, NotBarred, HeldIsRole DEF Sufficient
<1>4. Filed(s)
  BY <1>1, <1>2, <1>3 DEF Filed, SignOffInv, TypeOK
<1>5. run.request.requestedBy \notin {None, s.approver}
  BY <1>1, <1>2, <1>3
<1>6. /\ s.approver \notin Receivers(run)
      /\ (run.vendor # None /\ run.vendor.createdBy = s.approver) =>
             ~(s.on <= AddBusinessDays(ChangedOn(run.vendor), CoolingOffBusinessDays))
  <2>1. ToInvoice(run.request, day).gross = run.request.gross
    <3>1. RequestFields \subseteq DOMAIN run.request
      BY GrossIsKept DEF SignOffInv, Deciding, Shown
    <3> QED
      BY <3>1, GrossIsKept
  <2>2. /\ ~(/\ run.vendor # None /\ run.vendor.createdBy = c.approver
             /\ day <= AddBusinessDays(ChangedOn(run.vendor), CoolingOffBusinessDays))
        /\ ~(ThreeParties(ToInvoice(run.request, day)) /\ c.approver \in Receipters(run.order))
    BY DEF Clashes, ApproverClashes, When
  <2> QED
    BY <1>1, <1>2, <2>1, <2>2 DEF Receivers, ThreeParties
<1>7. IF s.held = FinancialControl
      THEN \E t \in approval.signatures :
               t # s /\ t.held # FinancialControl /\ Within(t.held, approval.amount)
      ELSE Within(s.held, approval.amount)
  <2>1. CASE s.held = FinancialControl
    <3>1. Covered(approval)
      BY <1>1, <1>2, <2>1 DEF Sufficient
    <3>2. PICK t \in approval.signatures : t.limit # None /\ t.limit >= approval.amount
      BY <3>1 DEF Covered
    <3>3. /\ t.held \in LadderRoles /\ t.limit = LimitOf(t.held)
      BY <3>2 DEF Deciding, Signed, Filed, Roles
    <3>4. approval.amount \in Nat
      BY DEF Deciding, Shown, SignOffInv
    <3>5. Within(t.held, approval.amount)
      BY <3>2, <3>3, <3>4, LimitWithin
    <3>6. t # s
      BY <1>1, <1>2, <3>2 DEF Signers
    <3>7. t.held # FinancialControl
      BY <3>3, LadderFacts DEF LadderRoles
    <3> QED
      BY <2>1, <3>5, <3>6, <3>7
  <2>2. CASE s.held # FinancialControl
    BY <1>1, <1>2, <2>2 DEF Sufficient
  <2> QED
    BY <2>1, <2>2
<1>8. s.delegation # None =>
          \E e \in Register :
              /\ e.id = s.delegation /\ e.delegate = s.approver /\ e.role = s.held
              /\ e.from <= s.on /\ s.on <= e.until
              /\ ScopeCovers(e.scope, run.request.centre)
  <2> SUFFICES ASSUME Raised(a)
               PROVE  \E e \in Register :
                          /\ e.id = s.delegation /\ e.delegate = s.approver /\ e.role = s.held
                          /\ e.from <= s.on /\ s.on <= e.until
                          /\ ScopeCovers(e.scope, run.request.centre)
    BY <1>2
  <2>1. PICK e \in Register :
            /\ a.entry.id = e.id /\ a.entry.delegate = e.delegate /\ a.entry.role = e.role
            /\ a.entry.scope = e.scope /\ a.entry.from = e.from /\ a.entry.until = e.until
    BY <1>1, EntryOf DEF Raised
  <2>2. /\ a.entry.delegate = a.approver /\ InForce(a.entry, a.today)
        /\ ScopeCovers(a.entry.scope, a.centre)
    BY DEF Raised, Applies
  <2>3. s.held = a.entry.role
    BY <1>2 DEF HeldRole
  <2> QED
    BY <1>1, <1>2, <2>1, <2>2, <2>3 DEF InForce
<1> HIDE DEF s
<1>9. Justified(s)
  BY <1>5, <1>6, <1>7, <1>8 DEF Justified
<1> QED
  BY <1>1, <1>2, <1>4, <1>9 DEF s

-----------------------------------------------------------------------------
(* The answers and the decision *)

\* What a run waiting for an answer has.
LEMMA AtTheGate ==
    ASSUME SignOffInv, Pending
    PROVE  /\ Asked /\ Deciding /\ ledger = {}
           /\ run # None /\ run.phase = "AWAITING_APPROVAL" /\ Stored(run) /\ HasShape(run)
           /\ approval.status = "PENDING" /\ DOMAIN approval = RowFields
<1>1. Asked /\ Deciding /\ run # None /\ run.phase = "AWAITING_APPROVAL"
  BY DEF Pending, Asked, In, SignOffInv
<1>2. ledger = {}
  BY <1>1 DEF Deciding, Stage
<1> QED
  BY <1>1, <1>2, TypeIsStored DEF SignOffInv, Pending, Deciding, Shown

\* A step of the gate that leaves the day, the case and the row's words.
LEMMA GateStep ==
    ASSUME SignOffInv, Deciding, Stored(run), run # None,
           SameCase(run, run'), SameRow(approval, approval'), UNCHANGED <<day, world>>,
           run'.phase \in Phases, approval'.status # "ABSENT", Signed', Stage'
    PROVE  SignOffInv'
<1>1. Shown'
  BY ShownStands DEF Deciding
<1>2. TypeOK'
  BY StoredStands DEF SignOffInv, TypeOK
<1> QED
  BY <1>1, <1>2 DEF SignOffInv, Asked, Deciding

\* Nobody's signature is filed unless it can be justified, and the last one moves the run.
LEMMA SignHolds ==
    ASSUME SignOffInv, NEW c \in world.callers, NEW answers, Sign(c, answers)
    PROVE  SignOffInv'
<1> DEFINE a == Application(c, LookedUp(c, answers))
           filed == [approval EXCEPT !.signatures = @ \cup {Signature(a)}]
<1>1. /\ Pending /\ c.approver \notin Signers(approval)
      /\ Sufficient(a) /\ Clashes(c.approver) = {}
      /\ approval' = [filed EXCEPT !.status = IF RequirementMet(filed) THEN "APPROVED" ELSE @]
      /\ run' = [run EXCEPT !.unknowns = @ \cup LookupGaps(c, answers),
                            !.phase = IF RequirementMet(filed) THEN "EXECUTE_DECISION" ELSE @]
      /\ UNCHANGED <<day, world, ledger>>
  BY DEF Sign
<1>2. /\ Deciding /\ ledger = {} /\ run # None /\ run.phase = "AWAITING_APPROVAL"
      /\ Stored(run) /\ HasShape(run)
      /\ approval.status = "PENDING" /\ DOMAIN approval = RowFields
  BY <1>1, AtTheGate
<1>3. Filed(Signature(a)) /\ Justified(Signature(a))
  <2>1. c.approver # None
    BY DEF SignOffInv
  <2> QED
    BY <1>1, <1>2, <2>1, SignatureJustified
<1> HIDE DEF a
<1>4. /\ DOMAIN filed = RowFields /\ filed.signatures = approval.signatures \cup {Signature(a)}
      /\ filed.status = "PENDING" /\ SameRow(approval, filed)
  BY <1>2 DEF RowFields, SameRow
<1> HIDE DEF filed
<1>5. /\ SameRow(filed, approval') /\ approval'.signatures = filed.signatures
      /\ approval'.status = IF RequirementMet(filed) THEN "APPROVED" ELSE "PENDING"
  BY <1>1, <1>4 DEF RowFields, SameRow
<1>6. /\ SameCase(run, run')
      /\ run'.phase = IF RequirementMet(filed) THEN "EXECUTE_DECISION" ELSE "AWAITING_APPROVAL"
  BY <1>1, <1>2 DEF HasShape, FreshCase, SameCase, SameEvidence, SameDates
<1>7. SameRow(approval, approval')
  BY <1>4, <1>5 DEF SameRow
<1>8. Signed'
  <2>1. day \in Nat
    BY DEF SignOffInv, TypeOK
  <2>2. \A s \in approval.signatures \cup {Signature(a)} : Filed(s) /\ Justified(s)
    BY <1>2, <1>3 DEF Deciding, Signed
  <2>3. approval.signatures \subseteq approval'.signatures
    BY <1>4, <1>5
  <2>4. \A s : Filed(s) /\ Justified(s) => Filed(s)' /\ Justified(s)'
    BY <1>1, <1>6, <1>7, <2>1, <2>3, SignatureStands
  <2> QED
    BY <1>4, <1>5, <2>2, <2>4 DEF Signed
<1>9. RequirementMet(filed) <=> RequirementMet(approval')
  BY <1>5 DEF RequirementMet, Signers, SameRow
<1>10. Stage'
  BY <1>1, <1>2, <1>5, <1>6, <1>9 DEF Stage
<1> QED
  BY <1>1, <1>2, <1>5, <1>6, <1>7, <1>8, <1>10, GateStep DEF Phases, ReadOnlyPhases

LEMMA RefuseSignerHolds ==
    ASSUME SignOffInv, NEW c, NEW answers, RefuseSigner(c, answers)
    PROVE  SignOffInv'
<1>1. Pending /\ UNCHANGED <<day, world, approval, ledger>>
  BY DEF RefuseSigner
<1>2. /\ Deciding /\ ledger = {} /\ run # None /\ run.phase = "AWAITING_APPROVAL"
      /\ Stored(run) /\ HasShape(run)
      /\ approval.status = "PENDING" /\ DOMAIN approval = RowFields
  BY <1>1, AtTheGate
<1>3. SameCase(run, run') /\ run'.phase = "AWAITING_APPROVAL"
  BY <1>2 DEF RefuseSigner, HasShape, FreshCase, SameCase, SameEvidence, SameDates
<1>4. SameRow(approval, approval')
  BY <1>1, <1>2 DEF SameRow
<1>5. Signed'
  BY <1>1, <1>2, <1>3, <1>4, SignedStands DEF Deciding, SignOffInv, TypeOK
<1>6. Stage'
  BY <1>1, <1>2, <1>3 DEF Stage
<1> QED
  BY <1>1, <1>2, <1>3, <1>4, <1>5, <1>6, GateStep DEF Phases

LEMMA RejectHolds ==
    ASSUME SignOffInv, NEW c, NEW answers, Reject(c, answers)
    PROVE  SignOffInv'
<1>1. /\ Pending /\ UNCHANGED <<day, world, ledger>>
      /\ approval' = [approval EXCEPT !.status = "REJECTED"]
  BY DEF Reject
<1>2. /\ Deciding /\ ledger = {} /\ run # None /\ run.phase = "AWAITING_APPROVAL"
      /\ Stored(run) /\ HasShape(run)
      /\ approval.status = "PENDING" /\ DOMAIN approval = RowFields
  BY <1>1, AtTheGate
<1>3. SameCase(run, run') /\ run'.phase = "HELD"
  BY <1>2 DEF Reject, HasShape, FreshCase, SameCase, SameEvidence, SameDates
<1>4. /\ SameRow(approval, approval') /\ approval'.status = "REJECTED"
      /\ approval'.signatures = approval.signatures
  BY <1>1, <1>2 DEF SameRow, RowFields
<1>5. Signed'
  BY <1>1, <1>2, <1>3, <1>4, SignedStands DEF Deciding, SignOffInv, TypeOK
<1>6. Stage'
  BY <1>1, <1>2, <1>3, <1>4 DEF Stage
<1> QED
  BY <1>1, <1>2, <1>3, <1>4, <1>5, <1>6, GateStep DEF Phases, TerminalPhases

\* A granted run: the gate of the write tool finds the approval and the run as they were.
LEMMA GrantedIsPermitted ==
    ASSUME SignOffInv, In("EXECUTE_DECISION")
    PROVE  /\ Asked /\ Deciding /\ Permitted
           /\ run # None /\ run.phase = "EXECUTE_DECISION" /\ Stored(run) /\ HasShape(run)
           /\ approval.status = "APPROVED" /\ RequirementMet(approval) /\ ledger = {}
           /\ ToInvoice(run.request, day).gross = world.request.gross
           /\ run.request.vendor = world.request.vendor
<1>1. run # None /\ run.phase = "EXECUTE_DECISION" /\ Stored(run) /\ HasShape(run)
  BY TypeIsStored DEF In, SignOffInv
<1>2. Asked /\ Deciding
  <2>1. run.phase \notin Undecided \cup {"HELD"}
    BY <1>1 DEF Undecided, ReadOnlyPhases
  <2> QED
    BY <1>1, <2>1 DEF SignOffInv, Assessing
<1>3. approval.status = "APPROVED" /\ RequirementMet(approval) /\ ledger = {}
  BY <1>1, <1>2 DEF Deciding, Stage
<1>4. /\ ToInvoice(run.request, day).gross = world.request.gross
      /\ run.request.vendor = world.request.vendor
  <2>1. RequestFields \subseteq DOMAIN world.request
    BY DEF SignOffInv
  <2>2. /\ run.request.gross = world.request.gross /\ run.request.vendor = world.request.vendor
        /\ RequestFields \subseteq DOMAIN run.request
    BY <1>2, <2>1, GrossIsKept DEF Deciding, Shown
  <2> QED
    BY <2>2, GrossIsKept
<1> QED
  BY <1>1, <1>2, <1>3, <1>4 DEF Permitted, Deciding, Shown

LEMMA RecordHolds ==
    ASSUME SignOffInv, RecordDecision
    PROVE  SignOffInv'
<1>1. /\ In("EXECUTE_DECISION") /\ UNCHANGED <<day, world, approval>>
      /\ run' = [run EXCEPT !.phase = "COMPLETED"]
  BY DEF RecordDecision
<1>2. /\ Deciding /\ run # None /\ Stored(run) /\ HasShape(run)
      /\ approval.status = "APPROVED" /\ RequirementMet(approval) /\ ledger = {}
      /\ ToInvoice(run.request, day).gross = world.request.gross
      /\ run.request.vendor = world.request.vendor
  BY <1>1, GrantedIsPermitted
<1>3. SameCase(run, run') /\ run'.phase = "COMPLETED"
  BY <1>1, <1>2 DEF HasShape, FreshCase, SameCase, SameEvidence, SameDates
<1>4. SameRow(approval, approval')
  BY <1>1, <1>2 DEF SameRow, Deciding, Shown
<1>5. Signed'
  BY <1>1, <1>2, <1>3, <1>4, SignedStands DEF Deciding, SignOffInv, TypeOK
<1>6. ledger' = {PostedRow}'
  <2>1. approval.outcome = run.outcome
    BY <1>2 DEF Deciding, Shown
  <2>2. run'.outcome = run.outcome
    BY <1>3 DEF SameCase
  <2> QED
    BY <1>1, <1>2, <2>1, <2>2 DEF RecordDecision, PostedRow
<1>7. Stage'
  BY <1>1, <1>2, <1>3, <1>6 DEF Stage, RequirementMet, Signers
<1> QED
  BY <1>1, <1>2, <1>3, <1>4, <1>5, <1>7, GateStep DEF Phases, TerminalPhases

\* The only refusal left is the vendor's.
LEMMA RefuseHolds ==
    ASSUME SignOffInv, RefuseDecision
    PROVE  SignOffInv'
<1>1. In("EXECUTE_DECISION") /\ UNCHANGED <<day, world, approval, ledger>>
  BY DEF RefuseDecision
<1>2. /\ Deciding /\ Permitted /\ run # None /\ Stored(run) /\ HasShape(run)
      /\ approval.status = "APPROVED" /\ RequirementMet(approval) /\ ledger = {}
  BY <1>1, GrantedIsPermitted
<1>3. SameCase(run, run') /\ run'.phase = "FAILED"
  BY <1>2 DEF RefuseDecision, HasShape, FreshCase, SameCase, SameEvidence, SameDates
<1>4. SameRow(approval, approval')
  BY <1>1, <1>2 DEF SameRow, Deciding, Shown
<1>5. Signed'
  BY <1>1, <1>2, <1>3, <1>4, SignedStands DEF Deciding, SignOffInv, TypeOK
<1>6. VendorBlocks(run.vendor) # {}
  BY <1>2, BlocksOfVendor DEF RefuseDecision, NewlyBlocking
<1>7. Stage'
  BY <1>1, <1>2, <1>3, <1>6 DEF Stage, RequirementMet, Signers, SameCase, SameEvidence
<1> QED
  BY <1>1, <1>2, <1>3, <1>4, <1>5, <1>7, GateStep DEF Phases, TerminalPhases

\* The register and the vendor master are not the run's.
LEMMA WorldHolds ==
    ASSUME SignOffInv, RevokeDelegation \/ VendorChanges \/ UNCHANGED signOffVars
    PROVE  SignOffInv'
<1>1. UNCHANGED <<day, world, run, approval, ledger>>
  BY DEF RevokeDelegation, VendorChanges, signOffVars
<1>2. TypeOK' /\ (Assessing => Assessing')
  BY <1>1 DEF SignOffInv, TypeOK, Stored, FreshCase, Assessing, RecordInv, PostDated, HigherRisk, Prepared
<1>3. (Shown => Shown') /\ (Stage => Stage')
  BY <1>1 DEF Shown, Risky, Stage, RequirementMet, Signers, PostedRow
<1>4. Signed => Signed'
  BY <1>1 DEF Signed, Filed, Justified, Receivers
<1> QED
  BY <1>1, <1>2, <1>3, <1>4 DEF SignOffInv, Asked, Deciding

LEMMA SignOffInvHolds == SignOffSpec => []SignOffInv
<1>1. SignOffInv /\ [SignOffNext]_signOffVars => SignOffInv'
  <2> SUFFICES ASSUME SignOffInv, [SignOffNext]_signOffVars PROVE SignOffInv'
    OBVIOUS
  <2>1. CASE Assess
    BY <2>1, AssessHolds, WaitHolds
  <2>2. CASE Conclude
    BY <2>2, ConcludeHolds
  <2>3. CASE Answer
    BY <2>3, SignHolds, RefuseSignerHolds, RejectHolds DEF Answer
  <2>4. CASE RecordDecision \/ RefuseDecision
    BY <2>4, RecordHolds, RefuseHolds
  <2>5. CASE RevokeDelegation \/ VendorChanges \/ UNCHANGED signOffVars
    BY <2>5, WorldHolds
  <2> QED
    BY <2>1, <2>2, <2>3, <2>4, <2>5 DEF SignOffNext
<1> QED
  BY <1>1, InitHolds, PTL DEF SignOffSpec

-----------------------------------------------------------------------------
(* What an approval and a posting promise *)

\* Types, and run, approval and ledger move together.
THEOREM SignOffTypeCorrect == SignOffSpec => []SignOffTypeOK
<1>1. SignOffInv => SignOffTypeOK
  <2> SUFFICES ASSUME SignOffInv PROVE SignOffTypeOK
    OBVIOUS
  <2>1. CASE Asked
    <3>1. Row(approval) /\ run.outcome = approval.outcome
      BY <2>1 DEF SignOffInv, Deciding, Shown, Signed, Stage, Row, ApprovalStatus
    <3> QED
      BY <2>1, <3>1 DEF SignOffInv, Deciding, Stage, SignOffTypeOK, In
  <2>2. CASE ~Asked
    BY <2>2 DEF SignOffInv, Assessing, SignOffTypeOK, In, Undecided, ReadOnlyPhases
  <2> QED
    BY <2>1, <2>2
<1> QED
  BY <1>1, SignOffInvHolds, PTL

\* Every signature on file can be justified from what is stored (authorise_signature).
THEOREM SignaturesAreJustified == SignOffSpec => []SignaturesJustified
<1>1. SignOffInv => SignaturesJustified
  BY DEF SignOffInv, Deciding, Signed, Justified, SignaturesJustified
<1> QED
  BY <1>1, SignOffInvHolds, PTL

\* The role presented is the least that covers the amount, for every amount
\* (_minimum_role_for).
THEOREM PresentedRolesAreLeast == SignOffSpec => []PresentedRoleIsLeast
<1>1. SignOffInv => PresentedRoleIsLeast
  <2> SUFFICES ASSUME SignOffInv, Asked PROVE PresentedRoleIsLeast
    BY DEF PresentedRoleIsLeast
  <2>1. approval.role = MinimumRole(approval.amount) /\ approval.amount \in Nat
    BY DEF SignOffInv, Deciding, Shown
  <2>2. PICK i \in 1..5 : /\ AuthorityLadder[i].role = approval.role
                          /\ Covers(AuthorityLadder[i], approval.amount)
                          /\ \A j \in 1..5 : Covers(AuthorityLadder[j], approval.amount) => i <= j
    BY <2>1, LeastRung
  <2>3. AuthorityLadder[i].limit = None \/ AuthorityLadder[i].limit >= approval.amount
    BY <2>2 DEF Covers
  <2>4. \A j \in 1..(i - 1) : AuthorityLadder[j].limit < approval.amount
    <3> SUFFICES ASSUME NEW j \in 1..(i - 1) PROVE AuthorityLadder[j].limit < approval.amount
      OBVIOUS
    <3>1. j \in 1..4 /\ ~(i <= j)
      OBVIOUS
    <3>2. ~Covers(AuthorityLadder[j], approval.amount)
      BY <2>2, <3>1
    <3> QED
      BY <2>1, <3>1, <3>2, LadderFacts DEF Covers
  <2> QED
    BY <2>2, <2>3, <2>4, LadderFacts DEF PresentedRoleIsLeast
<1> QED
  BY <1>1, SignOffInvHolds, PTL

\* What is posted is what was submitted, under a signature senior enough for it
\* (validate_approval, authorise_decision).
THEOREM PostingsAreWithinAuthority == SignOffSpec => []PostedWithinAuthority
<1>1. SignOffInv => PostedWithinAuthority
  <2> SUFFICES ASSUME SignOffInv, NEW d \in ledger
               PROVE  /\ d.amount = world.request.gross /\ d.vendor = world.request.vendor
                      /\ d.outcome = run.outcome
                      /\ \E s \in approval.signatures : Seniority(s.held) >= Seniority(run.role)
    BY DEF PostedWithinAuthority
  <2>1. Deciding /\ d = PostedRow /\ RequirementMet(approval)
    BY DEF SignOffInv, Assessing, Deciding, Stage
  <2>2. approval.amount \in Nat /\ run.role = MinimumRole(approval.amount)
    BY <2>1 DEF SignOffInv, Deciding, Shown
  <2>3. \E s \in approval.signatures : TRUE
    <3>1. Signers(approval) # {}
      <4>1. Cardinality({}) = 0
        BY FS_EmptySet
      <4>2. Cardinality(Signers(approval)) >= (IF approval.second THEN 2 ELSE 1)
        BY <2>1 DEF RequirementMet
      <4>3. ~(0 >= (IF approval.second THEN 2 ELSE 1))
        OBVIOUS
      <4>4. ASSUME Signers(approval) = {}
            PROVE  FALSE
        <5>1. Cardinality(Signers(approval)) = 0
          BY <4>1, <4>4
        <5> QED
          BY <4>2, <4>3, <5>1
      <4> QED
        BY <4>4
    <3> QED
      BY <3>1 DEF Signers
  <2>4. PICK t \in approval.signatures :
            t.held # FinancialControl /\ Within(t.held, approval.amount)
    BY <2>1, <2>3 DEF Deciding, Signed, Justified
  <2>5. PICK k \in 1..5 : t.held = AuthorityLadder[k].role
    BY <2>1, <2>4, LadderFacts DEF Deciding, Signed, Filed, Roles, LadderRoles
  <2>6. Covers(AuthorityLadder[k], approval.amount) /\ Seniority(t.held) = k
    BY <2>4, <2>5, RungOf DEF Within
  <2>7. PICK i \in 1..5 : /\ AuthorityLadder[i].role = run.role
                          /\ \A j \in 1..5 : Covers(AuthorityLadder[j], approval.amount) => i <= j
    BY <2>2, LeastRung
  <2>8. Seniority(run.role) = i /\ i <= k
    BY <2>6, <2>7, RungOf
  <2>9. Seniority(t.held) >= Seniority(run.role)
    BY <2>6, <2>8
  <2> QED
    BY <2>1, <2>9 DEF PostedRow
<1> QED
  BY <1>1, SignOffInvHolds, PTL

\* A case that was higher-risk when it was reconciled is decided on under two people's
\* signatures, one of them of Financial Control (required_authority, authorise_decision).
THEOREM RiskyPostingsAreCoSigned == SignOffSpec => []RiskyPostingsCoSigned
<1>1. SignOffInv => RiskyPostingsCoSigned
  <2> SUFFICES ASSUME SignOffInv, ledger # {}, Risky
               PROVE  \E s, t \in approval.signatures : s.approver # t.approver /\ s.overseer
    BY DEF RiskyPostingsCoSigned, Risky
  <2>1. Deciding /\ RequirementMet(approval)
    BY DEF SignOffInv, Assessing, Deciding, Stage
  <2>2. approval.second = TRUE
    BY <2>1 DEF Deciding, Shown
  <2>3. PICK s \in approval.signatures : s.overseer
    BY <2>1, <2>2 DEF RequirementMet
  <2>4. Cardinality(Signers(approval)) >= 2
    BY <2>1, <2>2 DEF RequirementMet
  <2>5. Signers(approval) # {s.approver}
    <3>1. Cardinality({s.approver}) = 1
      BY FS_Singleton
    <3>2. ~(1 >= 2)
      OBVIOUS
    <3>3. ASSUME Signers(approval) = {s.approver}
          PROVE  Cardinality(Signers(approval)) = 1
      BY <3>1, <3>3
    <3> QED
      BY <2>4, <3>2, <3>3
  <2> QED
    BY <2>3, <2>5 DEF Signers
<1> QED
  BY <1>1, SignOffInvHolds, PTL

\* A granted run fails only for a block of the vendor its approvers were shown
\* (execute_decision.run).
THEOREM FailuresWerePresented == SignOffSpec => []GateFailuresWerePresented
<1>1. SignOffInv => GateFailuresWerePresented
  <2> SUFFICES ASSUME SignOffInv, Asked, run.phase = "FAILED"
               PROVE  /\ approval.status = "APPROVED" /\ ledger = {}
                      /\ \E e \in approval.presented :
                             /\ e.blocking
                             /\ e.rule \in {"record_exists", "status_active", "not_on_payment_hold"}
    BY DEF GateFailuresWerePresented, In
  <2>1. /\ approval.status = "APPROVED" /\ ledger = {} /\ VendorBlocks(run.vendor) # {}
        /\ VendorBlocks(run.vendor) \subseteq approval.presented
    BY DEF SignOffInv, Deciding, Shown, Stage
  <2> QED
    BY <2>1, BlocksOfVendor
<1> QED
  BY <1>1, SignOffInvHolds, PTL

-----------------------------------------------------------------------------
(* The refinement of DecisionLedger *)

VerdictMap == [ c \in TheCase |-> VerdictGiven ]

PostedCase == { c \in TheCase : ledger # {} }

\* What the ledger is told of a step of the case.
LEMMA GivenOnce ==
    ASSUME NEW from, NEW to, VerdictGiven = from, VerdictGiven' = to, UNCHANGED ledger
    PROVE  Decisions!Give("case", from, to)
BY DEF Decisions!Give, TheCase

LEMMA NothingGiven ==
    ASSUME VerdictGiven' = VerdictGiven, UNCHANGED ledger
    PROVE  UNCHANGED <<VerdictMap, PostedCase>>
BY DEF VerdictMap, PostedCase

\* The gate's steps: asked once, answered once, posted once.
LEMMA ConcludeAsks ==
    ASSUME SignOffInv, Conclude
    PROVE  [Decisions!LedgerNext]_<<VerdictMap, PostedCase>>
<1>1. ~Asked /\ UNCHANGED ledger
  BY DEF Conclude, Recommend, In, SignOffInv, Deciding, Stage
<1>2. VerdictGiven = "unasked"
  BY <1>1 DEF Asked, VerdictGiven
<1>3. CASE approval' = approval
  <2>1. VerdictGiven' = VerdictGiven
    BY <1>3 DEF VerdictGiven
  <2> QED
    BY <1>1, <2>1, NothingGiven
<1>4. CASE approval' = Requested(run')
  <2>1. VerdictGiven' = "asked"
    BY <1>4 DEF Requested, VerdictGiven
  <2>2. Decisions!Give("case", "unasked", "asked")
    BY <1>1, <1>2, <2>1, GivenOnce
  <2> QED
    BY <2>2 DEF Decisions!LedgerNext, Decisions!Ask, TheCase
<1> QED
  BY <1>3, <1>4 DEF Conclude

LEMMA AnswerGives ==
    ASSUME SignOffInv, NEW c, NEW answers,
           Sign(c, answers) \/ RefuseSigner(c, answers) \/ Reject(c, answers)
    PROVE  [Decisions!LedgerNext]_<<VerdictMap, PostedCase>>
<1>1. Pending /\ UNCHANGED ledger
  BY DEF Sign, RefuseSigner, Reject
<1>2. approval.status = "PENDING" /\ DOMAIN approval = RowFields
  BY <1>1, AtTheGate
<1>3. approval'.status \in {"PENDING", "APPROVED", "REJECTED"}
  <2>1. CASE Sign(c, answers)
    <3> DEFINE filed == [approval EXCEPT !.signatures =
                            @ \cup {Signature(Application(c, LookedUp(c, answers)))}]
    <3>1. filed.status = "PENDING" /\ DOMAIN filed = RowFields
      BY <1>2 DEF RowFields
    <3>2. approval' = [filed EXCEPT !.status = IF RequirementMet(filed) THEN "APPROVED" ELSE @]
      BY <2>1 DEF Sign
    <3> HIDE DEF filed
    <3> QED
      BY <3>1, <3>2 DEF RowFields
  <2>2. CASE RefuseSigner(c, answers)
    BY <1>2, <2>2 DEF RefuseSigner
  <2>3. CASE Reject(c, answers)
    BY <1>2, <2>3 DEF Reject, RowFields
  <2> QED
    BY <2>1, <2>2, <2>3
<1>4. VerdictGiven = "asked"
  BY <1>2 DEF VerdictGiven
<1>5. CASE approval'.status = "PENDING"
  <2>1. VerdictGiven' = VerdictGiven
    BY <1>2, <1>5 DEF VerdictGiven
  <2> QED
    BY <1>1, <2>1, NothingGiven
<1>6. CASE approval'.status = "APPROVED"
  <2>1. VerdictGiven' = "granted"
    BY <1>6 DEF VerdictGiven
  <2>2. Decisions!Give("case", "asked", "granted")
    BY <1>1, <1>4, <2>1, GivenOnce
  <2> QED
    BY <2>2 DEF Decisions!LedgerNext, Decisions!Grant, TheCase
<1>7. CASE approval'.status = "REJECTED"
  <2>1. VerdictGiven' = "refused"
    BY <1>7 DEF VerdictGiven
  <2>2. Decisions!Give("case", "asked", "refused")
    BY <1>1, <1>4, <2>1, GivenOnce
  <2> QED
    BY <2>2 DEF Decisions!LedgerNext, Decisions!Refuse, TheCase
<1> QED
  BY <1>3, <1>5, <1>6, <1>7

LEMMA RecordPosts ==
    ASSUME SignOffInv, RecordDecision
    PROVE  [Decisions!LedgerNext]_<<VerdictMap, PostedCase>>
<1>1. approval.status = "APPROVED" /\ ledger = {}
  BY GrantedIsPermitted DEF RecordDecision
<1>2. approval' = approval /\ ledger' # {}
  BY DEF RecordDecision
<1>3. VerdictGiven = "granted" /\ VerdictGiven' = VerdictGiven
  BY <1>1, <1>2 DEF VerdictGiven
<1>4. Decisions!Post("case")
  BY <1>1, <1>2, <1>3 DEF Decisions!Post, TheCase
<1> QED
  BY <1>4 DEF Decisions!LedgerNext, TheCase

\* Whoever signs, under whatever delegation and on whatever day: the case is put to a human
\* once, answered once, and posted only when it was granted, and once.
THEOREM SignOffImplementsTheLedger == SignOffSpec => SignOffImplementsLedger
<1>1. SignOffInit => Decisions!LedgerInit
  BY DEF SignOffInit, NoApproval, VerdictGiven, Decisions!LedgerInit
<1>2. SignOffInv /\ [SignOffNext]_signOffVars
          => [Decisions!LedgerNext]_<<VerdictMap, PostedCase>>
  <2> SUFFICES ASSUME SignOffInv, [SignOffNext]_signOffVars
               PROVE  [Decisions!LedgerNext]_<<VerdictMap, PostedCase>>
    OBVIOUS
  <2>1. CASE Assess \/ RefuseDecision \/ RevokeDelegation \/ VendorChanges
             \/ UNCHANGED signOffVars
    <3>1. UNCHANGED <<approval, ledger>>
      BY <2>1 DEF Assess, RefuseDecision, RevokeDelegation, VendorChanges, signOffVars
    <3>2. VerdictGiven' = VerdictGiven
      BY <3>1 DEF VerdictGiven
    <3> QED
      BY <3>1, <3>2, NothingGiven
  <2>2. CASE Conclude
    BY <2>2, ConcludeAsks
  <2>3. CASE Answer
    BY <2>3, AnswerGives DEF Answer
  <2>4. CASE RecordDecision
    BY <2>4, RecordPosts
  <2> QED
    BY <2>1, <2>2, <2>3, <2>4 DEF SignOffNext
<1> QED
  BY <1>1, <1>2, SignOffInvHolds, PTL
  DEF SignOffSpec, SignOffImplementsLedger, Decisions!LedgerSpec, VerdictMap, PostedCase
===============================================================================
