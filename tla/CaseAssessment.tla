---------------------------- MODULE CaseAssessment ----------------------------
(***************************************************************************)
(* One run from its submission to its recommendation: the six read-only    *)
(* phases of orchestration/phases/, the evidence they gather, and what     *)
(* they record on the run state.  ApprovalGate takes over where a          *)
(* recommendation is ready, with an outcome it leaves open.                *)
(*                                                                         *)
(* A phase works on a copy of the stored run and saves it once, at its     *)
(* end: a process that dies before the save leaves the stored run as it    *)
(* was, and the phase is entered again.  So a phase is one step, which may *)
(* never be taken, and days may pass between two of them.                  *)
(***************************************************************************)
EXTENDS OutcomeRules, AuthorityRules, HistoryRules

CONSTANTS
    Cases,      \* the requests considered, each with what the systems of record hold
    FirstDay,   \* the day the request is submitted
    LastDay     \* bound: no phase runs later

RequestFields ==
    { "vendor", "name", "reference", "creditNote", "gross", "currency", "net", "tax",
      "date", "po", "terms", "lines", "requestedBy", "texts" }

ASSUME CaseAssumption ==
    /\ FirstDay \in Nat /\ LastDay \in Nat /\ FirstDay <= LastDay
    /\ None \notin Nat
    /\ \A c \in Cases : RequestFields \subseteq DOMAIN c.request /\ c.request.gross \in Nat

\* Dates are days, terms a number of them.
ASSUME DatesAssumption ==
    \A c \in Cases :
        /\ c.request.date \in Int \cup {None}
        /\ \A h \in c.history : h.date \in Int
        /\ c.order # None => c.order.terms \in Int \cup {None}

\* An invoice without a date is compared with nothing dated far ahead of its submission.
ASSUME UndatedAssumption ==
    \A c \in Cases :
        c.request.date = None => \A h \in c.history : h.date <= FirstDay + 14

VARIABLES
    day,    \* the clock, whole days
    world,  \* the case: its request, what the tools would find, and which of them may fail
    run     \* the stored run; None before create_run

vars == <<day, world, run>>

Lookups ==
    { "get_vendor_record", "get_purchase_order", "check_invoice_history",
      "retrieve_finance_documents" }

\* The tools that answer; bound: only those the case calls unreliable may fail.
Answers == { answered \in SUBSET Lookups : Lookups \ answered \subseteq world.unreliable }

Init ==
    /\ day = FirstDay
    /\ world \in Cases
    /\ run = None

\* The run state the repository creates; the request is stored as it came.
FreshCase(request) ==
    [ phase       |-> "INTAKE",
      request     |-> request,
      vendor      |-> None,
      order       |-> None,
      history     |-> {},
      chunks      |-> {},
      unknowns    |-> {},
      exceptions  |-> {},
      invalid     |-> {},
      indicators  |-> {},
      risks       |-> {},
      role        |-> None,
      payableOn   |-> None,
      proposedRun |-> None,
      outcome     |-> None,
      second      |-> FALSE,
      tightened   |-> FALSE,
      validatedOn |-> None,
      reconciledOn |-> None ]

\* The stored run is in phase p.
In(p) == run # None /\ run.phase = p

\* The end of _execute_phase: the copy is saved in its next phase.
Completed(s) == run' = [s EXCEPT !.phase = NextPhase[@]]

\* The same after RECOMMEND, where the outcome says which phase that is.
Concluded(s) == run' = [s EXCEPT !.phase = AfterRecommend(s.outcome)]

\* Orchestrator.start, as far as the row it creates.
Submit ==
    /\ run = None
    /\ run' = FreshCase(world.request)
    /\ UNCHANGED <<day, world>>

-----------------------------------------------------------------------------
(* INTAKE *)

\* What the submission did not say.
SubmissionGaps(request) ==
    When(request.date = None, {Gap("invoice date", None)})
    \cup When(request.lines = <<>>, {Gap("invoice lines", None)})

IntakeOf(s) ==
    LET request == Redacted(s.request)
    IN  [ s EXCEPT !.request    = request,
                   !.unknowns   = @ \cup SubmissionGaps(request),
                   !.exceptions = Recorded(@, ValidityExceptions(request, day)),
                   !.invalid    = @ \cup InvalidReasons(request, day),
                   !.validatedOn = day ]

Intake ==
    /\ In("INTAKE")
    /\ Completed(IntakeOf(run))
    /\ UNCHANGED <<day, world>>

-----------------------------------------------------------------------------
(* RETRIEVE_POLICY *)

\* A policy that could not be cited is reported; the controls apply all the same.
RetrievePolicyOf(s, answered) ==
    [ s EXCEPT !.unknowns = @ \cup When("retrieve_finance_documents" \notin answered,
                                {Gap("policy citations", "retrieve_finance_documents")}) ]

RetrievePolicy ==
    /\ In("RETRIEVE_POLICY")
    /\ \E answered \in Answers : Completed(RetrievePolicyOf(run, answered))
    /\ UNCHANGED <<day, world>>

-----------------------------------------------------------------------------
(* GATHER_EVIDENCE *)

\* A lookup that fails and one that finds nothing leave the same field empty; the order is
\* the one case where the record says which it was.
VendorLookup(s, answered) ==
    LET found == IF answered THEN world.vendor ELSE None
    IN  [ s EXCEPT !.vendor   = IF answered THEN found ELSE @,
                   !.unknowns = @ \cup When(found = None,
                                    {Gap("vendor record", "get_vendor_record")}) ]

OrderLookup(s, answered) ==
    IF s.request.po = None
    THEN s
    ELSE IF answered
         THEN [ s EXCEPT !.order    = world.order,
                         !.unknowns = @ \cup When(world.order = None,
                                          {Gap("order", "get_purchase_order")}) ]
         ELSE [ s EXCEPT !.unknowns = @ \cup {Gap("order unreachable", "get_purchase_order")} ]

\* check_invoice_history answers with the vendor's records, whatever their number.
HistoryLookup(s, answered) ==
    IF answered
    THEN [ s EXCEPT !.history = { h \in world.history : h.vendor = s.request.vendor } ]
    ELSE [ s EXCEPT !.unknowns = @ \cup {Gap("history", "check_invoice_history")} ]

NeedsEvidenceSearch(s) ==
    \/ s.request.texts # {}
    \/ s.vendor # None /\ BankChangedRecently(s.vendor, day)

DocumentSearch(s, answered) ==
    [ s EXCEPT !.chunks = @ \cup When(answered /\ NeedsEvidenceSearch(s), world.corpus) ]

\* The lookups in their order, each on what those before it left.
GatherEvidenceOf(s, answered) ==
    LET v == VendorLookup(s, "get_vendor_record" \in answered)
        o == OrderLookup(v, "get_purchase_order" \in answered)
        h == HistoryLookup(o, "check_invoice_history" \in answered)
    IN  DocumentSearch(h, "retrieve_finance_documents" \in answered)

GatherEvidence ==
    /\ In("GATHER_EVIDENCE")
    /\ \E answered \in Answers : Completed(GatherEvidenceOf(run, answered))
    /\ UNCHANGED <<day, world>>

-----------------------------------------------------------------------------
(* RECONCILE *)

\* Slip: the rule's own gap is never reported.
SupersededSlip(unknowns) == {OrderLinesGap}

\* _without_superseded_unknowns: the matching rule's own gap gives way to what the lookup
\* of the order reported.
Superseded(unknowns) ==
    When(\E u \in unknowns : u.source = "get_purchase_order", {OrderLinesGap})

\* Slip: the vendor's status is only checked when the outcome is computed.
ReconcileExceptionsSlip(s, invoice) ==
    MatchExceptions(invoice, s.order)
        \cup DuplicateExceptions(invoice, s.history)
        \cup InstructionExceptions(s.vendor, s.request.texts)
        \cup SegregationExceptions(invoice, s.order)
        \cup TaxExceptions(invoice, TaxSeparated(s.request), s.order)
        \cup TermsExceptions(invoice, s.order, day)
        \cup NonPoExceptions(invoice, s.history)

\* Every control in the order it is applied.
ReconcileExceptions(s, invoice) ==
    MatchExceptions(invoice, s.order)
        \cup DuplicateExceptions(invoice, s.history)
        \cup VendorExceptions(s.vendor, invoice, s.history)
        \cup InstructionExceptions(s.vendor, s.request.texts)
        \cup SegregationExceptions(invoice, s.order)
        \cup TaxExceptions(invoice, TaxSeparated(s.request), s.order)
        \cup TermsExceptions(invoice, s.order, day)
        \cup NonPoExceptions(invoice, s.history)

ReconcileOf(s) ==
    LET invoice == ToInvoice(s.request, day)
        risks   == VendorRisks(s.vendor, s.history, day)
                       \cup When(InstructionExceptions(s.vendor, s.request.texts) # {},
                                 {"instructions"})
    IN  [ s EXCEPT !.exceptions  = Recorded(@, ReconcileExceptions(s, invoice)),
                   !.unknowns    = @ \cup VendorGaps(s.vendor)
                                     \cup (MatchGaps(invoice, s.order) \ Superseded(@)),
                   !.risks       = risks,
                   !.role        = MinimumRole(invoice.gross),
                   !.payableOn   = PayableOn(invoice, s.order),
                   !.proposedRun = ProposedRun(invoice, s.order, day),
                   !.reconciledOn = day ]

Reconcile ==
    /\ In("RECONCILE")
    /\ Completed(ReconcileOf(run))
    /\ UNCHANGED <<day, world>>

-----------------------------------------------------------------------------
(* ASSESS_RISK *)

\* Slip: whatever was retrieved is read as well.
AssessRiskOfSlip(s) ==
    [ s EXCEPT !.indicators = @ \cup FraudIndicators(ToInvoice(s.request, day), s.vendor,
                                                    s.request.texts \cup s.chunks,
                                                    s.history, day) ]

\* Only the texts of the request are read for indicators, not the documents retrieved.
\* What the model then adds of facts, inferences and unknowns decides nothing later and is
\* left out.
AssessRiskOf(s) ==
    [ s EXCEPT !.indicators = @ \cup FraudIndicators(ToInvoice(s.request, day), s.vendor,
                                                    s.request.texts, s.history, day) ]

AssessRisk ==
    /\ In("ASSESS_RISK")
    /\ Completed(AssessRiskOf(run))
    /\ UNCHANGED <<day, world>>

\* The model is asked after the indicators are on the copy that _fail saves.
AssessmentFails ==
    /\ In("ASSESS_RISK")
    /\ run' = [ AssessRiskOf(run) EXCEPT !.phase = "FAILED" ]
    /\ UNCHANGED <<day, world>>

-----------------------------------------------------------------------------
(* RECOMMEND *)

\* Slip: only the controls checked again decide.
ComputedOutcomeSlip(s) ==
    LET invoice == ToInvoice(s.request, day)
    IN  DecideOutcome(MatchExceptions(invoice, s.order)
                          \cup DuplicateExceptions(invoice, s.history)
                          \cup VendorExceptions(s.vendor, invoice, s.history),
                      IsSettledDuplicate(invoice, s.history),
                      NeedsControlReview(s.vendor),
                      s.indicators,
                      s.invalid)

\* Slip: the submission is validated again, on the day.
ComputedOutcomeLateSlip(s) ==
    LET invoice == ToInvoice(s.request, day)
    IN  DecideOutcome(MatchExceptions(invoice, s.order) \cup s.exceptions,
                      IsSettledDuplicate(invoice, s.history),
                      NeedsControlReview(s.vendor),
                      s.indicators,
                      InvalidReasons(s.request, day))

\* Match, duplicates and vendor are checked again; everything recorded counts as well.
ComputedOutcome(s) ==
    LET invoice == ToInvoice(s.request, day)
    IN  DecideOutcome(MatchExceptions(invoice, s.order)
                          \cup DuplicateExceptions(invoice, s.history)
                          \cup VendorExceptions(s.vendor, invoice, s.history)
                          \cup s.exceptions,
                      IsSettledDuplicate(invoice, s.history),
                      NeedsControlReview(s.vendor),
                      s.indicators,
                      s.invalid)

\* Slip: only the reasons the vendor gives today.
ApplicableRisksSlip(s) == VendorRisks(s.vendor, s.history, day)

\* The reasons found while reconciling, or else those the vendor gives today.
ApplicableRisks(s) ==
    IF s.risks # {} THEN s.risks ELSE VendorRisks(s.vendor, s.history, day)

\* The outcome with the model's suggestion, None when it makes none.
RecommendOf(s, suggestion) ==
    LET computed == ComputedOutcome(s)
        applied  == suggestion # None /\ Tightens(suggestion, computed)
    IN  [ s EXCEPT !.outcome   = IF applied THEN suggestion ELSE computed,
                   !.tightened = applied,
                   !.second    = ApplicableRisks(s) # {} ]

Recommend ==
    /\ In("RECOMMEND")
    /\ \E suggestion \in Outcomes \cup {None} : Concluded(RecommendOf(run, suggestion))
    /\ UNCHANGED <<day, world>>

\* Nothing is on the copy yet when the model is asked for the narrative.
NarrativeFails ==
    /\ In("RECOMMEND")
    /\ run' = [run EXCEPT !.phase = "FAILED"]
    /\ UNCHANGED <<day, world>>

-----------------------------------------------------------------------------

\* A day passes: between the phases of a run that was interrupted and resumed.
Tick ==
    /\ day < LastDay
    /\ day' = day + 1
    /\ UNCHANGED <<world, run>>

Next ==
    \/ Submit \/ Intake \/ RetrievePolicy \/ GatherEvidence \/ Reconcile
    \/ AssessRisk \/ AssessmentFails \/ Recommend \/ NarrativeFails \/ Tick

Spec == Init /\ [][Next]_vars
-----------------------------------------------------------------------------
(* Safety *)

Stored(s) ==
    /\ DOMAIN s = DOMAIN FreshCase(world.request)
    /\ s.phase \in Phases
    /\ s.request \in {world.request, Redacted(world.request)}
    /\ s.vendor \in {None, world.vendor} /\ s.order \in {None, world.order}
    /\ s.history \subseteq world.history /\ s.chunks \subseteq world.corpus
    /\ s.outcome \in Outcomes \cup {None}
    /\ s.second \in BOOLEAN /\ s.tightened \in BOOLEAN
    /\ s.validatedOn \in {None} \cup FirstDay..day
    /\ s.reconciledOn \in {None} \cup FirstDay..day

TypeOK ==
    /\ day \in FirstDay..LastDay
    /\ run = None \/ Stored(run)

Recommended == run # None /\ run.outcome # None

Approved == Recommended /\ run.outcome = "APPROVE_FOR_POSTING"

\* A recommendation to post rests on a record of everything it takes, whichever control
\* looks at it: an active vendor, not on hold, already paid on its present account, the one
\* every text names; an approved order with a receipt on record, with a line for each line
\* invoiced and at least that much received of it; nothing alike but what was rejected; a
\* requester who did not receive the goods of a large invoice; no credit note, no
\* contradiction, one indicator at most (decide_outcome, recommend.run).
ApprovedPassedEveryControl ==
    Approved =>
        LET v == run.vendor
            o == run.order
            invoice == run.request
        IN  /\ v # None
            /\ v.status = "ACTIVE" /\ ~v.onHold /\ ~v.flagged
            /\ v.bankChangedOn # None =>
                   \E h \in run.history : h.status \in SettledStatus /\ h.date >= v.bankChangedOn
            /\ AssertedTails(run.request.texts) \subseteq {v.tail}
            /\ o # None
            /\ o.approved
            /\ o.receipts # {} \/ \E n \in DOMAIN o.lines : Confirmed(o.lines[n])
            /\ invoice.currency = o.currency =>
                   \A i \in DOMAIN invoice.lines :
                       LET n == invoice.lines[i].poLine
                       IN  /\ Mapped(invoice.lines[i], o) /\ HasReceipt(o, n)
                           /\ ~ (invoice.lines[i].quantity > DeliveredQuantity(o, n))
            /\ \A h \in run.history : h.reference = invoice.reference => h.status = "REJECTED"
            /\ invoice.gross > 2500000 =>
                   \A r \in o.receipts : r.by = None \/ r.by # invoice.requestedBy
            /\ ~IsCreditNote(run.request)
            /\ run.invalid = {} /\ Cardinality(run.indicators) <= 1

\* An invoice the records show as paid or posted is rejected, or escalated: no failed
\* control, invalid submission or suggestion turns it into a hold (decide_outcome).
SettledDuplicateNeverHeld ==
    (Recommended /\ IsSettledDuplicate(run.request, run.history)) =>
        run.outcome \in {"REJECT_DUPLICATE", "ESCALATE_CONTROL_REVIEW"}

\* Two indicators, a risk flag or a sanctions review escalate the case, whatever else was
\* found and whatever the model suggests (decide_outcome, tightens).
EscalationSticks ==
    (/\ Recommended
     /\ \/ Cardinality(run.indicators) >= 2
        \/ run.vendor # None /\ (run.vendor.flagged \/ run.vendor.status = "SANCTIONS_REVIEW"))
    => run.outcome = "ESCALATE_CONTROL_REVIEW"

\* What made a case higher-risk when it was reconciled still asks for a second approval
\* after the days that took it away have passed (required_authority, recommend.run).
RiskRemembered ==
    (/\ Recommended
     /\ \/ /\ run.vendor # None
           /\ \/ run.reconciledOn - run.vendor.createdOn < 30
              \/ run.vendor.overseas
        \/ \E t \in AssertedTails(run.request.texts) :
               run.vendor = None \/ t # run.vendor.tail)
    => run.second

\* A submission dated in the future stays unusable, even where its day has come by the
\* time of the recommendation (check_invoice_validity, recommend.run).
PostDatedNeverHeldOrApproved ==
    (/\ Recommended
     /\ world.request.date # None /\ world.request.date > run.validatedOn)
    => run.outcome \notin {"APPROVE_FOR_POSTING", "HOLD_FOR_INFORMATION"}

\* What the run could not read is on its record, with the tool that was asked, however the
\* lookups fail together: the vendor, the order, the history
\* (gather_evidence.run, _without_superseded_unknowns).
GapsDisclosed ==
    Recommended =>
        /\ run.vendor = None => \E u \in run.unknowns : u.source = "get_vendor_record"
        /\ run.order = None => \E u \in run.unknowns : u.source = "get_purchase_order"
        /\ \A h \in world.history \ run.history :
               h.vendor = run.request.vendor =>
                   \E u \in run.unknowns : u.source = "check_invoice_history"

\* The payment proposed is on a run day, not before the day it was worked out, the last one
\* on or before a business day which is at most two days ahead of the due date; a later one
\* is on the record as missing the terms (assess_payment_terms).
ScheduleMeetsTerms ==
    (run # None /\ run.payableOn # None) =>
        LET today == run.reconciledOn
            due   == DueDate(ToInvoice(run.request, today), run.order)
            late  == Notice("standard_run_available_before_due_date") \in run.exceptions
        IN  /\ run.payableOn \in (due - 2)..due /\ Weekday(run.payableOn) \notin {5, 6}
            /\ run.proposedRun = None => run.payableOn < today /\ late
            /\ run.proposedRun # None =>
                   /\ Weekday(run.proposedRun) \in {1, 3} /\ run.proposedRun >= today
                   /\ ~late => /\ run.proposedRun <= run.payableOn
                               /\ run.payableOn - run.proposedRun <= 4
                   /\ late => run.proposedRun > run.payableOn

\* An indicator read from text is read from a text of this request: a document which the
\* search brought up never escalates a case (assess_risk.run, fraud_indicators).
IndicatorsAreOfThisCase ==
    run # None =>
        /\ "EMBEDDED_INSTRUCTION" \in run.indicators => "INJECTION" \in Said(run.request.texts)
        /\ "BANK_CHANGE_REQUESTED" \in run.indicators => "BANK_CHANGE" \in Said(run.request.texts)

\* What a submission says in the part of each text that is kept.
SaidInKept(texts) == UNION { t.says \ t.lost : t \in texts }

\* Masking takes nothing from the controls: an instruction within the part of a text that is
\* kept is an indicator on every recommendation, and no case is approved when such a part, as
\* it was submitted, names an account that is not the vendor's ("both controls that read this
\* text still work afterwards", redact_request).
KeptTextIsControlled ==
    Recommended =>
        /\ "INJECTION" \in SaidInKept(world.request.texts) =>
               "EMBEDDED_INSTRUCTION" \in run.indicators
        /\ Approved => \A t \in SaidInKept(world.request.texts) \cap AccountTails :
                           run.vendor # None /\ t = run.vendor.tail

\* A case that is not approved says why on its own record: a control that failed, what
\* made it unusable, the settled record, the indicators, or the model's suggestion.  The
\* controls run again at the end find nothing which the record has not (recommend.run).
EveryOutcomeIsExplained ==
    (Recommended /\ ~run.tightened) =>
        CASE run.outcome = "HOLD_FOR_INFORMATION" -> IsBlocked(run.exceptions)
          [] run.outcome = "REJECT_INVALID"       -> run.invalid # {}
          [] run.outcome = "REJECT_DUPLICATE"     ->
                 Fault("exact_match_to_settled_record") \in run.exceptions
          [] run.outcome = "ESCALATE_CONTROL_REVIEW" ->
                 \/ Cardinality(run.indicators) >= 2
                 \/ "risk flags" \in run.risks \/ "sanctions review" \in run.risks
          [] OTHER -> TRUE

\* No later phase drops what an earlier one recorded (the add_ methods of RunState).
NothingIsForgotten ==
    [][run # None =>
         /\ run.unknowns \subseteq run'.unknowns
         /\ run.exceptions \subseteq run'.exceptions
         /\ run.invalid \subseteq run'.invalid
         /\ run.indicators \subseteq run'.indicators]_vars
=============================================================================
