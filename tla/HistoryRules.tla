---------------------------- MODULE HistoryRules ----------------------------
(***************************************************************************)
(* What earlier invoices of the vendor say: domain/rules/duplicates.py and *)
(* domain/rules/non_po.py.  References are already normalised.             *)
(***************************************************************************)
EXTENDS CaseRecords

\* _is_exact
IsExact(invoice, h) ==
    /\ h.vendor = invoice.vendor
    /\ h.reference = invoice.reference
    /\ h.currency = invoice.currency
    /\ h.gross = invoice.gross

SharesDocument(invoice, h) ==
    \E t \in invoice.texts : t.hash # None /\ t.hash \in h.hashes

\* _amount_variance_percent below 0.5, unrounded: 200 times the difference is below the
\* prior amount.
IsNear(candidate, prior) ==
    LET apart == IF candidate >= prior THEN candidate - prior ELSE prior - candidate
    IN  prior > 0 /\ apart <= (prior - 1) \div 200

WithinDays(a, b, days) == a - b <= days /\ b - a <= days

\* _fuzzy_reasons: the same document, the same number against a record that was not
\* rejected, or a near amount within 14 days or on the same order.
IsProbable(invoice, h) ==
    /\ h.vendor = invoice.vendor
    /\ \/ SharesDocument(invoice, h)
       \/ h.reference = invoice.reference /\ h.status # "REJECTED"
       \/ /\ IsNear(invoice.gross, h.gross)
          /\ \/ WithinDays(invoice.date, h.date, 14)
             \/ invoice.po # None /\ invoice.po = h.po

IsSettledDuplicate(invoice, history) ==
    \E h \in history : IsExact(invoice, h) /\ h.status \in SettledStatus

\* duplicate_check
DuplicateExceptions(invoice, history) ==
    IF IsSettledDuplicate(invoice, history)
    THEN {Fault("exact_match_to_settled_record")}
    ELSE When(\E h \in history : IsExact(invoice, h) \/ IsProbable(invoice, h),
              {Fault("probable_match")})

\* check_repeated_non_po: one more invoice without an order in the 90 days before.
NonPoExceptions(invoice, history) ==
    When(/\ invoice.po = None
         /\ \E h \in history : /\ h.vendor = invoice.vendor
                               /\ h.po = None
                               /\ h.date \in (invoice.date - 90)..invoice.date,
         {Notice("repeated_use_within_window")})
=============================================================================
