----------------------------- MODULE CaseRecords -----------------------------
(***************************************************************************)
(* The records the controls read and write: domain/request.py,             *)
(* domain/evidence.py, domain/results.py, and the redaction of a request.  *)
(*                                                                         *)
(* Amounts are whole cents, quantities whole units, days count from a      *)
(* Monday.  A text is what screening finds in it: a set of Statements, an  *)
(* account tail it asserts being one of them.  Names, references and       *)
(* hashes are values already normalised; wording is left out.              *)
(***************************************************************************)
EXTENDS Integers, FiniteSets

CONSTANTS
    None,           \* an optional field the record does not carry
    AccountTails    \* the last four digits of accounts

Phrases ==
    { "INJECTION", "URGENCY", "MANUAL", "OUT_OF_CYCLE", "SAME_DAY",
      "BANK_CHANGE", "CREDIT_NOTE" }

Statements == Phrases \cup AccountTails

\* ExceptionRecord: a control that failed.  Most stop the case; some are only reported.
Fault(rule)  == [rule |-> rule, blocking |-> TRUE]
Notice(rule) == [rule |-> rule, blocking |-> FALSE]

IsBlocked(exceptions) == \E e \in exceptions : e.blocking

\* Unknown: what could not be established, and the tool that was asked.
Gap(item, source) == [item |-> item, source |-> source]

When(condition, records) == IF condition THEN records ELSE {}

\* Slip: what was recorded before is overwritten.
RecordedSlip(old, new) == new

\* add_exceptions: one record for each failed rule, the first one recorded.
Recorded(old, new) == old \cup { e \in new : \A o \in old : o.rule # e.rule }

\* Slip: a text that is too long is replaced by the notice that it was cut.
RedactedTextSlip(t) ==
    [ t EXCEPT !.says   = IF t.lost = {} THEN @ \cup t.gained ELSE {},
               !.lost   = {},
               !.gained = {},
               !.hash   = IF t.intact THEN @ ELSE None ]

\* redact_text: accounts and secrets masked, and nothing kept after 2,000 characters.
\* "lost" is what a text no longer says then; "gained" the tails of its long numbers, which
\* read as masked accounts once the other digits are masked.  An altered text has another hash.
RedactedText(t) ==
    [ t EXCEPT !.says   = (@ \ t.lost) \cup t.gained,
               !.lost   = {},
               !.gained = {},
               !.hash   = IF t.intact THEN @ ELSE None ]

Redacted(request) ==
    [request EXCEPT !.texts = { RedactedText(t) : t \in @ }]

Said(texts) == UNION { t.says : t \in texts }

TaxSeparated(request) == request.net # None \/ request.tax # None

\* to_invoice: what was not stated is derived, the date from the clock at every call.
ToInvoice(request, today) ==
    LET net == CASE request.net # None -> request.net
                 [] request.net = None /\ request.tax # None -> request.gross - request.tax
                 [] OTHER -> request.gross
        tax == IF request.tax # None THEN request.tax ELSE request.gross - net
    IN  [ request EXCEPT !.net  = net,
                         !.tax  = tax,
                         !.date = IF @ = None THEN today ELSE @ ]

SettledStatus == {"PAID", "POSTED"}
HistoryStatus == SettledStatus \cup {"HELD", "REJECTED"}
VendorStatus ==
    {"ACTIVE", "BLOCKED", "DORMANT", "SANCTIONS_REVIEW", "PENDING_VERIFICATION"}
=============================================================================
