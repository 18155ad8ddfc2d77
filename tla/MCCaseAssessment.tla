--------------------------- MODULE MCCaseAssessment ---------------------------
(***************************************************************************)
(* Cases for CaseAssessment: a clean invoice, every way to depart from it  *)
(* in one record, and the departures in two records that bear on each      *)
(* other.  Day 704 is a Friday; amounts sit on the limits of the rules.    *)
(***************************************************************************)
EXTENDS CaseAssessmentClaims

CONSTANTS t1, t2, acme, other, clerk, storeman, h1

Line(quantity, price) ==
    [quantity |-> quantity, price |-> price, total |-> quantity * price, poLine |-> 1]

Clean ==
    [ vendor |-> acme, name |-> acme, reference |-> "A1", creditNote |-> FALSE,
      gross |-> 1100000, currency |-> "AUD", net |-> 1000000, tax |-> 100000,
      date |-> 700, po |-> "PO1", terms |-> None, lines |-> <<Line(100, 10000)>>,
      requestedBy |-> clerk, texts |-> {} ]

Active ==
    [ id |-> acme, name |-> acme, status |-> "ACTIVE", tail |-> t1, overseas |-> FALSE,
      bankChangedOn |-> None, createdOn |-> 0, flagged |-> FALSE, onHold |-> FALSE ]

Receipt(quantity) == [line |-> 1, quantity |-> quantity, by |-> storeman]

OrderLine ==
    [ type |-> "GOODS", ordered |-> 100, price |-> 10000, value |-> 1000000,
      freight |-> FALSE, confirmed |-> FALSE ]

Standing ==
    [ currency |-> "AUD", total |-> 1000000, approved |-> TRUE, converts |-> FALSE,
      terms |-> None, lines |-> <<OrderLine>>, receipts |-> {Receipt(100)} ]

Earlier ==
    [ vendor |-> acme, reference |-> "A0", currency |-> "AUD", gross |-> 250050,
      date |-> 650, status |-> "PAID", po |-> "PO0", hashes |-> {} ]

Text(says) == [says |-> says, lost |-> {}, gained |-> {}, intact |-> TRUE, hash |-> None]

Saying(texts) == [Clean EXCEPT !.texts = texts]

\* An injection beyond the 2,000th character, and one in a document about somebody else.
Instruction == Text({"INJECTION"})

\* Dates: none, tomorrow, due today, past due, due on a Sunday.
Dated == { [Clean EXCEPT !.date = d] : d \in {None, 705, 674, 660, 704} }

\* Amounts: no lines, gross only, two lines for one, a line for none, a contradiction, a
\* price at its tolerance and a cent above, tax five and six cents too high.
Amounts ==
    { [Clean EXCEPT !.lines = <<>>],
      [Clean EXCEPT !.lines = <<>>, !.net = None, !.tax = None],
      [Clean EXCEPT !.lines = <<Line(60, 10000), Line(60, 10000)>>,
                    !.net = 1200000, !.tax = 120000, !.gross = 1320000],
      [Clean EXCEPT !.lines = <<[Line(100, 10000) EXCEPT !.poLine = 9]>>],
      [Clean EXCEPT !.net = 1050000, !.tax = 50000] }
    \cup { [Clean EXCEPT !.lines = <<[Line(100, 10000) EXCEPT !.total = t]>>,
                         !.net = t, !.tax = 1100000 - t] : t \in {1005000, 1005001} }
    \cup { [Clean EXCEPT !.tax = t, !.gross = 1000000 + t] : t \in {100005, 100006} }

\* 25,000 and one dollar more, requested by who received the goods.
Large ==
    { [Clean EXCEPT !.net = n, !.tax = g - n, !.gross = g, !.requestedBy = storeman,
                    !.lines = <<Line(100, n \div 100)>>] :
      <<n, g>> \in { <<2280000, 2500000>>, <<2280000, 2500100>> } }

Texts ==
    { Saying(ts) : ts \in
        { {Instruction}, {Instruction, Text({"URGENCY"})}, {Text({t1})}, {Text({t2})},
          {[Text({t2}) EXCEPT !.lost = {t2}, !.intact = FALSE]},
          {[Text({"INJECTION", "URGENCY"}) EXCEPT !.lost = {"INJECTION"}, !.intact = FALSE]},
          {[Text({"INJECTION", "URGENCY"}) EXCEPT !.lost = {"URGENCY"}, !.intact = FALSE]},
          {[Text({}) EXCEPT !.gained = {t2}, !.intact = FALSE]},
          {Text({"MANUAL", "SAME_DAY"})}, {Text({"MANUAL"}), Text({"OUT_OF_CYCLE"})},
          {Text({"BANK_CHANGE"})}, {Text({"CREDIT_NOTE"})},
          {[Text({}) EXCEPT !.hash = h1]} } }

Others ==
    { [Clean EXCEPT !.po = None], [Clean EXCEPT !.creditNote = TRUE],
      [Clean EXCEPT !.name = other], [Clean EXCEPT !.terms = 14] }

Requests == {Clean} \cup Dated \cup Amounts \cup Large \cup Texts \cup Others

Vendors ==
    { Active, None,
      [Active EXCEPT !.status = "DORMANT"], [Active EXCEPT !.status = "SANCTIONS_REVIEW"],
      [Active EXCEPT !.onHold = TRUE], [Active EXCEPT !.flagged = TRUE],
      [Active EXCEPT !.createdOn = 675], [Active EXCEPT !.createdOn = 675, !.overseas = TRUE],
      [Active EXCEPT !.bankChangedOn = 675], [Active EXCEPT !.tail = None] }

Service == [OrderLine EXCEPT !.type = "SERVICE", !.confirmed = TRUE]

Orders ==
    { Standing, None, [Standing EXCEPT !.approved = FALSE], [Standing EXCEPT !.terms = 14],
      [Standing EXCEPT !.currency = "EUR"],
      [Standing EXCEPT !.currency = "EUR", !.converts = TRUE],
      [Standing EXCEPT !.receipts = {}], [Standing EXCEPT !.receipts = {Receipt(99)}],
      [Standing EXCEPT !.receipts = {Receipt(0)}],
      [Standing EXCEPT !.receipts = {}, !.lines = <<Service>>],
      [Standing EXCEPT !.lines = <<OrderLine, [Service EXCEPT !.confirmed = FALSE]>>],
      [Standing EXCEPT !.lines = <<[OrderLine EXCEPT !.price = 22800, !.value = 2280000]>>,
                       !.total = 2280000] }

Histories ==
    {{}} \cup { {h} : h \in
        { [Earlier EXCEPT !.reference = "A1", !.gross = 1100000, !.status = s] :
          s \in HistoryStatus }
        \cup { [Earlier EXCEPT !.reference = "A1", !.status = s] : s \in {"HELD", "REJECTED"} }
        \cup { Earlier, [Earlier EXCEPT !.date = 690], [Earlier EXCEPT !.hashes = {h1}],
               [Earlier EXCEPT !.gross = 1105527, !.date = 686],
               [Earlier EXCEPT !.gross = 1105528, !.date = 690],
               [Earlier EXCEPT !.gross = 1100000, !.date = 690, !.vendor = other],
               [Earlier EXCEPT !.gross = 1100001, !.po = "PO1"],
               [Earlier EXCEPT !.gross = 300000, !.po = None] } }

Case(request, vendor, order, history) ==
    [ request |-> request, vendor |-> vendor, order |-> order, history |-> history,
      corpus  |-> {Instruction}, unreliable |-> {} ]

\* One record that departs from the clean case; any lookup may fail.
Departures ==
    { Case(r, Active, Standing, {}) : r \in Requests }
    \cup { Case(Clean, v, Standing, {}) : v \in Vendors }
    \cup { Case(Clean, Active, o, {}) : o \in Orders }
    \cup { Case(Clean, Active, Standing, h) : h \in Histories }

\* Two records that depart from it together.
Combinations ==
    { Case(r, v, Standing, {}) : r \in Requests, v \in Vendors }
    \cup { Case(r, Active, o, {}) : r \in Requests, o \in Orders }
    \cup { Case(r, Active, Standing, h) : r \in Requests, h \in Histories }
    \cup { Case(Clean, v, o, {}) : v \in Vendors, o \in Orders }
    \cup { Case(Clean, v, Standing, h) : v \in Vendors, h \in Histories }
    \cup { Case(Clean, Active, o, h) : o \in Orders, h \in Histories }

AllCases ==
    { [c EXCEPT !.unreliable = Lookups] : c \in Departures } \cup Combinations
=============================================================================
