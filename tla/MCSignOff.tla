------------------------------ MODULE MCSignOff ------------------------------
(***************************************************************************)
(* Cases and people for SignOff.  Days 704 and 705 are a Friday and a      *)
(* Saturday; amounts sit on the limits of the matrix.                      *)
(***************************************************************************)
EXTENDS SignOffClaims

CONSTANTS t1, t2, acme, clerk, storeman, director, cfo, ceo, fc, keeper

Text(says) == [says |-> says, lost |-> {}, gained |-> {}, intact |-> TRUE, hash |-> None]

Request(gross) ==
    [ vendor |-> acme, name |-> acme, reference |-> "A1", creditNote |-> FALSE,
      gross |-> gross, currency |-> "AUD", net |-> gross, tax |-> 0,
      date |-> 700, po |-> "PO1", terms |-> None,
      lines |-> <<[quantity |-> 1, price |-> gross, total |-> gross, poLine |-> 1]>>,
      requestedBy |-> clerk, centre |-> {"plant"}, texts |-> {} ]

\* Edited by keeper on a Friday, so that the fifth business day after it is day 704.
Vendor ==
    [ id |-> acme, name |-> acme, status |-> "ACTIVE", tail |-> t1, overseas |-> FALSE,
      bankChangedOn |-> None, createdOn |-> 0, createdBy |-> keeper, updatedOn |-> 697,
      flagged |-> FALSE, onHold |-> FALSE ]

New == [Vendor EXCEPT !.createdOn = 675]

Order(gross) ==
    [ currency |-> "AUD", total |-> gross, approved |-> TRUE, converts |-> FALSE,
      terms |-> None,
      lines |-> <<[type |-> "GOODS", ordered |-> 1, price |-> gross, value |-> gross,
                   freight |-> FALSE, confirmed |-> FALSE]>>,
      receipts |-> {[line |-> 1, quantity |-> 1, by |-> storeman]} ]

Settled ==
    [ vendor |-> acme, reference |-> "A1", currency |-> "AUD", gross |-> 1000000,
      date |-> 650, status |-> "PAID", po |-> "PO0", hashes |-> {} ]

Entry(id, delegate, role, scope, from, until) ==
    [ id |-> id, delegate |-> delegate, role |-> role, scope |-> scope,
      from |-> from, until |-> until, revoked |-> FALSE ]

\* Until the Friday, for another cost centre, for Financial Control.
Entries ==
    { Entry("D1", keeper, "CFO", {}, 700, 704),
      Entry("D2", director, "CFO", {"office"}, 700, 710),
      Entry("D3", fc, "CFO", {"plant"}, 705, 710) }

By(approver, role, delegation) ==
    [approver |-> approver, role |-> role, delegation |-> delegation]


Case(request, vendor, history, callers) ==
    [ request |-> request, vendor |-> vendor, order |-> Order(request.gross),
      history |-> history, corpus |-> {}, unreliable |-> {}, callers |-> callers ]

Chief   == By(ceo, "CEO", None)
Finance == By(cfo, "CFO", None)
Control == By(fc, "FINANCIAL_CONTROL", None)
Manager(person, delegation) == By(person, "COST_CENTRE_MANAGER", delegation)

\* On a limit and a cent above it: the requester, a receiver, the vendor's editor on either
\* side of the cooling-off, delegations out of date, out of scope, of another, of no use.
Ordinary ==
    { Case(Request(1000000), Vendor, {},
           { Manager(keeper, None), Manager(clerk, None), By(director, "TREASURER", None) }),
      Case(Request(1000001), Vendor, {},
           { Manager(keeper, "D1"), Manager(director, "D2"), Manager(director, "D1"), Control }),
      Case([Request(1000001) EXCEPT !.centre = None], Vendor, {},
           { Manager(director, "D2"), By(fc, "FINANCIAL_CONTROL", "D3") }),
      Case([Request(1000000) EXCEPT !.requestedBy = None], Vendor, {}, {Chief}),
      Case(Request(2500000), Vendor, {}, {By(storeman, "CFO", None)}),
      Case(Request(2500100), Vendor, {}, {By(storeman, "CFO", None), Finance}) }

\* Two signatures: a vendor that stops being new on day 705, an account the vendor does not
\* have on a rejected duplicate, an amount beyond every limit.
HigherRisk ==
    { Case(Request(5000000), New, {},
           { Control, Finance, By(director, "DEPARTMENT_DIRECTOR", None), Manager(keeper, None) }),
      Case(Request(5000000), New, {}, {Control, By(fc, "FINANCIAL_CONTROL", "D3"), Finance}),
      Case(Request(100000001), New, {}, {Control, Finance, Chief}),
      Case([Request(1000000) EXCEPT !.texts = {Text({t2})}], Vendor, {Settled},
           {Control, Manager(director, "D2"), Manager(director, None)}) }

\* A paid duplicate, of a blocked vendor too.
Duplicates ==
    { Case(Request(1000000), v, {Settled}, {Manager(director, None), Manager(clerk, None)}) :
      v \in {Vendor, [Vendor EXCEPT !.status = "BLOCKED"]} }

AllCases == Ordinary \cup HigherRisk \cup Duplicates
=============================================================================
