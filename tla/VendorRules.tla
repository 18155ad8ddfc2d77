----------------------------- MODULE VendorRules -----------------------------
(***************************************************************************)
(* What the vendor master and the people of a case say:                    *)
(* domain/rules/vendor.py, domain/rules/payment_instructions.py and the    *)
(* part of domain/rules/segregation.py that needs no approver.             *)
(***************************************************************************)
EXTENDS CaseRecords

NewVendorDays == 30

RecentChangeDays == 30

\* age_in_days: a record created in the future is new.
IsNew(vendor, today) == today - vendor.createdOn < NewVendorDays

\* bank_changed_recently
BankChangedRecently(vendor, today) ==
    vendor.bankChangedOn # None /\ today - vendor.bankChangedOn < RecentChangeDays

\* _awaiting_first_payment_after_bank_change: nothing settled since, however long ago.
AwaitingFirstPayment(vendor, history) ==
    /\ vendor.bankChangedOn # None
    /\ \A h \in history :
           ~ (/\ h.vendor = vendor.id
              /\ h.status \in SettledStatus
              /\ h.date >= vendor.bankChangedOn)

NameDiffers(vendor, invoice) == invoice.name # vendor.name

\* vendor_status_check, as far as the exceptions it raises.
VendorExceptions(vendor, invoice, history) ==
    IF vendor = None
    THEN {Fault("record_exists")}
    ELSE When(vendor.status # "ACTIVE", {Fault("status_active")})
         \cup When(vendor.onHold, {Fault("not_on_payment_hold")})
         \cup When(AwaitingFirstPayment(vendor, history),
                   {Fault("first_payment_after_bank_change")})
         \cup When(NameDiffers(vendor, invoice), {Notice("legal_name_agreement")})

VendorGaps(vendor) == When(vendor = None, {Gap("vendor status", "get_vendor_record")})

\* higher_risk_reasons
VendorRisks(vendor, history, today) ==
    IF vendor = None
    THEN {}
    ELSE When(vendor.status = "SANCTIONS_REVIEW", {"sanctions review"})
         \cup When(AwaitingFirstPayment(vendor, history), {"first payment"})
         \cup When(IsNew(vendor, today), {"new vendor"})
         \cup When(vendor.overseas, {"overseas account"})
         \cup When(vendor.flagged, {"risk flags"})

\* requires_control_escalation
NeedsControlReview(vendor) ==
    vendor # None /\ (vendor.status = "SANCTIONS_REVIEW" \/ vendor.flagged)

AssertedTails(texts) == Said(texts) \cap AccountTails

\* check_payment_instructions: every account the texts assert is the one on file.
InstructionExceptions(vendor, texts) ==
    LET onFile == IF vendor = None THEN None ELSE vendor.tail
    IN  IF onFile = None
        THEN When(AssertedTails(texts) # {}, {Fault("master_available_for_comparison")})
        ELSE When(\E tail \in AssertedTails(texts) : tail # onFile,
                  {Fault("match_vendor_master")})

\* THREE_PARTY_DISTINCTNESS_THRESHOLD: 25,000 is not above it.
ThreeParties(invoice) == invoice.gross > 2500000

Receipters(order) == IF order = None THEN {} ELSE { r.by : r \in order.receipts }

\* check_reconciliation_time: no approver is known yet.
SegregationExceptions(invoice, order) ==
    When(ThreeParties(invoice) /\ invoice.requestedBy \in Receipters(order) \ {None},
         {Fault("requester_distinct_from_receipter")})
=============================================================================
