---------------------------- MODULE ScheduleRules ----------------------------
(***************************************************************************)
(* Agreed terms, due date and payment run (domain/rules/payment_terms.py   *)
(* and the calendar of domain/rules/_shared.py).  Day 0 is a Monday; there *)
(* are no holidays.                                                        *)
(***************************************************************************)
EXTENDS CaseRecords, FiniteSetsExt

Weekday(day) == day % 7

IsBusinessDay(day) == Weekday(day) < 5

\* Slip: a due date on a weekend moves to the business day after it.
PreviousBusinessDaySlip(day) == CHOOSE d \in day..(day + 2) : IsBusinessDay(d)

\* previous_business_day: a weekend is two days long.
PreviousBusinessDay(day) == Max({ d \in (day - 2)..day : IsBusinessDay(d) })

\* add_business_days, one business day at a time: the next one is at most three days away.
AddBusinessDays(start, days) ==
    LET after[n \in 0..days] ==
            IF n = 0
            THEN start
            ELSE Min({ d \in (after[n - 1] + 1)..(after[n - 1] + 3) : IsBusinessDay(d) })
    IN  after[days]

\* STANDARD_RUN_WEEKDAYS: Tuesday and Thursday.
IsRunDay(day) == Weekday(day) \in {1, 3}

DefaultTermsDays == 30

AgreedTerms(order) ==
    IF order # None /\ order.terms # None THEN order.terms ELSE DefaultTermsDays

DueDate(invoice, order) == invoice.date + AgreedTerms(order)

PayableOn(invoice, order) == PreviousBusinessDay(DueDate(invoice, order))

\* _latest_run_by: the last run that still meets the terms.
LatestRunBy(payable, today) ==
    LET runs == { d \in today..payable : IsRunDay(d) }
    IN  IF runs = {} THEN None ELSE Max(runs)

\* _first_run_after: any week has a run.
FirstRunAfter(day) == Min({ d \in (day + 1)..(day + 7) : IsRunDay(d) })

\* assess_payment_terms: nothing is proposed for what is past due, and the next run when
\* none is left before the due date.
ProposedRun(invoice, order, today) ==
    LET payable == PayableOn(invoice, order)
        latest  == LatestRunBy(payable, today)
    IN  CASE payable < today -> None
          [] payable >= today /\ latest # None -> latest
          [] OTHER -> FirstRunAfter(payable)

TermsExceptions(invoice, order, today) ==
    When(invoice.terms # None /\ invoice.terms # AgreedTerms(order),
         {Notice("printed_terms_match_agreed_terms")})
    \cup When(LatestRunBy(PayableOn(invoice, order), today) = None,
              {Notice("standard_run_available_before_due_date")})
=============================================================================
