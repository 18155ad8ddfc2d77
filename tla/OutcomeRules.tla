---------------------------- MODULE OutcomeRules ----------------------------
(***************************************************************************)
(* From what the controls found to what the case becomes:                  *)
(* domain/rules/validity.py, domain/rules/fraud.py,                        *)
(* domain/rules/outcome.py, and how far the model may change it            *)
(* (llm/schemas.py).                                                       *)
(***************************************************************************)
EXTENDS RunPhases, MatchingRules, VendorRules

\* A stated net may differ from the lines by a cent for each of them.
ContradictsItself(invoice, separated) ==
    /\ separated /\ invoice.lines # <<>>
    /\ Distance(invoice.net, MapThenSumSet(LAMBDA i : invoice.lines[i].total,
                                           DOMAIN invoice.lines))
           > Len(invoice.lines)

\* Only a date the request stated can be in the future.
IsPostDated(request, today) == request.date # None /\ request.date > today

\* check_invoice_validity: what makes a submission unusable.
InvalidReasons(request, today) ==
    When(ContradictsItself(ToInvoice(request, today), TaxSeparated(request)),
         {"document_total_agrees_with_lines"})
    \cup When(IsPostDated(request, today), {"invoice_date_not_in_the_future"})

IsCreditNote(request) == request.creditNote \/ "CREDIT_NOTE" \in Said(request.texts)

ValidityExceptions(request, today) ==
    { Fault(reason) : reason \in InvalidReasons(request, today) }
        \cup When(IsCreditNote(request), {Fault("document_is_an_invoice_not_a_credit_note")})

IsRoundDollar(amount) == amount > 0 /\ amount % 100000 = 0

\* A manual payment outside the cycle, or on the same day when today is no business day.
\* Both are asked for in one text.
AsksForWeekendPayment(text, today) ==
    /\ "MANUAL" \in text.says
    /\ \/ "OUT_OF_CYCLE" \in text.says
       \/ "SAME_DAY" \in text.says /\ today % 7 >= 5

\* fraud_indicators: at most one of each code, whatever the number of texts that raise it.
FraudIndicators(invoice, vendor, texts, history, today) ==
    When("INJECTION" \in Said(texts), {"EMBEDDED_INSTRUCTION"})
    \cup When("URGENCY" \in Said(texts), {"URGENCY_OR_SECRECY"})
    \cup When(\E t \in texts : AsksForWeekendPayment(t, today), {"WEEKEND_MANUAL_PAYMENT"})
    \cup When("BANK_CHANGE" \in Said(texts), {"BANK_CHANGE_REQUESTED"})
    \cup When(/\ IsRoundDollar(invoice.gross)
              /\ \E h \in history : h.vendor = invoice.vendor /\ IsRoundDollar(h.gross),
              {"REPEATED_ROUND_DOLLAR"})
    \cup When(vendor # None,
              When(BankChangedRecently(vendor, today), {"BANK_DETAILS_RECENTLY_CHANGED"})
              \cup When(NameDiffers(vendor, invoice), {"VENDOR_NAME_MISMATCH"})
              \cup When(vendor.overseas /\ IsNew(vendor, today), {"PAYMENT_TO_NEW_COUNTRY"})
              \cup When(vendor.flagged, {"VENDOR_RISK_FLAG"}))

EscalationThreshold == 2

\* Slip: a failed control holds the case before anything rejects it.
DecideOutcomeSlip(exceptions, settled, controlReview, indicators, invalidReasons) ==
    IF Cardinality(indicators) >= EscalationThreshold \/ controlReview
    THEN "ESCALATE_CONTROL_REVIEW"
    ELSE IF IsBlocked(exceptions) THEN "HOLD_FOR_INFORMATION"
    ELSE IF settled THEN "REJECT_DUPLICATE"
    ELSE IF invalidReasons # {} THEN "REJECT_INVALID"
    ELSE "APPROVE_FOR_POSTING"

\* decide_outcome: the first of these that applies.
DecideOutcome(exceptions, settled, controlReview, indicators, invalidReasons) ==
    IF Cardinality(indicators) >= EscalationThreshold \/ controlReview
    THEN "ESCALATE_CONTROL_REVIEW"
    ELSE IF settled THEN "REJECT_DUPLICATE"
    ELSE IF invalidReasons # {} THEN "REJECT_INVALID"
    ELSE IF IsBlocked(exceptions) THEN "HOLD_FOR_INFORMATION"
    ELSE "APPROVE_FOR_POSTING"

\* OUTCOME_SEVERITY
Severity ==
    [ APPROVE_FOR_POSTING     |-> 0,
      HOLD_FOR_INFORMATION    |-> 1,
      REJECT_INVALID          |-> 2,
      REJECT_DUPLICATE        |-> 3,
      ESCALATE_CONTROL_REVIEW |-> 4 ]

\* Slip: any suggestion that differs is taken.
TightensSlip(suggested, computed) == suggested # computed

\* tightens: a suggestion counts only when it is more cautious.
Tightens(suggested, computed) == Severity[suggested] > Severity[computed]
=============================================================================
