---------------------------- MODULE MatchingRules ----------------------------
(***************************************************************************)
(* Whether the amounts agree: an invoice against its purchase order and    *)
(* the receipts (domain/rules/matching.py), and its tax                    *)
(* (domain/rules/tax.py).  An order's lines are a function on line         *)
(* numbers, its receipts a set; the lines of an invoice are a sequence.    *)
(***************************************************************************)
EXTENDS CaseRecords, Sequences, FiniteSetsExt

PolicyCurrency == "AUD"

Lesser(a, b) == IF a <= b THEN a ELSE b

Distance(a, b) == IF a >= b THEN a - b ELSE b - a

\* Whole percentages of an amount, half a cent rounded up (Money.quantize).
PercentOf(amount, percent) == (amount * percent + 50) \div 100

\* _tolerance_limit_for
ToleranceLimit(orderLine) ==
    CASE orderLine.type = "SERVICE" -> Lesser(10000, PercentOf(orderLine.value, 2))
      [] orderLine.type = "FREIGHT" -> IF orderLine.freight THEN 7500 ELSE 0
      [] OTHER -> Lesser(5000, PercentOf(orderLine.value, 1))

\* _document_tolerance_limit: the widest allowance of one line, never their sum.
DocumentLimit(order) ==
    IF DOMAIN order.lines = {}
    THEN Lesser(5000, PercentOf(order.total, 1))
    ELSE Max({ ToleranceLimit(order.lines[n]) : n \in DOMAIN order.lines })

\* quantity_received_for
Received(order, n) ==
    MapThenSumSet(LAMBDA r : r.quantity, { r \in order.receipts : r.line = n })

\* A service its owner confirmed needs no receipt.
Confirmed(orderLine) == orderLine.type = "SERVICE" /\ orderLine.confirmed

\* _line_has_receipt_evidence
HasReceipt(order, n) == Received(order, n) > 0 \/ Confirmed(order.lines[n])

DeliveredQuantity(order, n) ==
    IF Received(order, n) = 0 /\ Confirmed(order.lines[n])
    THEN order.lines[n].ordered
    ELSE Received(order, n)

Mapped(line, order) == line.poLine \in DOMAIN order.lines

\* The price is judged on the quantity invoiced, so that a part delivery is no variance.
ExpectedValue(line, order) == line.quantity * order.lines[line.poLine].price

\* _match_line
LineExceptions(line, order) ==
    LET n == line.poLine
        delivered == DeliveredQuantity(order, n)
    IN  When(Distance(line.total, ExpectedValue(line, order)) > ToleranceLimit(order.lines[n]),
             {Fault("line_within_tolerance")})
        \cup When(~HasReceipt(order, n), {Fault("line_receipt_recorded")})
        \cup When(HasReceipt(order, n) /\ line.quantity > delivered,
                  {Fault("quantity_not_above_received")})

SameCurrency(invoice, order) == invoice.currency = order.currency

LineLevel(invoice, order) == invoice.lines # <<>> /\ SameCurrency(invoice, order)

Unmapped(invoice, order) ==
    { i \in DOMAIN invoice.lines : ~Mapped(invoice.lines[i], order) }

\* The lines at the order's prices; only meaningful when every line is mapped.
LinesTotal(lines, order) ==
    MapThenSumSet(LAMBDA i : ExpectedValue(lines[i], order), DOMAIN lines)

\* What the document should come to.
ExpectedTotal(invoice, order) ==
    IF LineLevel(invoice, order)
    THEN LinesTotal(invoice.lines, order)
    ELSE order.total

NothingReceived(order) ==
    /\ order.receipts = {}
    /\ \A n \in DOMAIN order.lines : ~Confirmed(order.lines[n])

TotalCompared(invoice, order) ==
    /\ SameCurrency(invoice, order)
    /\ LineLevel(invoice, order) => Unmapped(invoice, order) = {}

TotalExceptions(invoice, order) ==
    When(/\ TotalCompared(invoice, order)
         /\ Distance(invoice.net, ExpectedTotal(invoice, order)) > DocumentLimit(order),
         {Fault("document_total_within_tolerance")})

\* three_way_match, as far as the exceptions it raises.
MatchExceptions(invoice, order) ==
    IF order = None
    THEN {Fault("purchase_order_present")}
    ELSE When(~order.approved, {Fault("purchase_order_approved")})
         \cup When(~SameCurrency(invoice, order),
                   {[rule |-> "currency_agreement", blocking |-> ~order.converts]})
         \cup When(NothingReceived(order), {Fault("receipt_recorded")})
         \cup When(LineLevel(invoice, order),
                   When(Unmapped(invoice, order) # {}, {Fault("line_maps_to_order_line")})
                   \cup UNION { LineExceptions(invoice.lines[i], order) :
                                i \in DOMAIN invoice.lines \ Unmapped(invoice, order) })
         \cup TotalExceptions(invoice, order)

OrderLinesGap == Gap("purchase-order lines", "get_purchase_order")

\* three_way_match, as far as what it reports as not established.
MatchGaps(invoice, order) ==
    IF order = None
    THEN {OrderLinesGap}
    ELSE When(~SameCurrency(invoice, order), {Gap("order currency equivalent", None)})
         \cup When(NothingReceived(order),
                   {Gap("receipt evidence", "get_purchase_order.receipts")})
         \cup When(invoice.lines = <<>>, {Gap("invoice lines", None)})
         \cup When(SameCurrency(invoice, order) /\ ~TotalCompared(invoice, order),
                   {Gap("document total variance", None)})

\* _expected_tax
ExpectedTax(net) == PercentOf(net, 10)

\* _assess_separated: only too much tax is queried, beyond five cents.
OverstatesTax(invoice) ==
    invoice.tax # 0 /\ invoice.tax - ExpectedTax(invoice.net) > 5

\* A gross-only invoice above a comparable order which allows no freight.
LeavesTaxUnattributed(invoice, order) ==
    /\ order # None
    /\ SameCurrency(invoice, order) /\ invoice.currency = PolicyCurrency
    /\ invoice.net > order.total
    /\ \A n \in DOMAIN order.lines : ~order.lines[n].freight

\* assess_tax: reported, never blocking.
TaxExceptions(invoice, separated, order) ==
    IF separated
    THEN When(OverstatesTax(invoice), {Notice("stated_tax_within_configured_rate")})
    ELSE When(LeavesTaxUnattributed(invoice, order), {Notice("invoice_separates_its_tax")})
=============================================================================
