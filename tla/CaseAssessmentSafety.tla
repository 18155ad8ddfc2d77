------------------------ MODULE CaseAssessmentSafety ------------------------
(***************************************************************************)
(* What an assessment's record is good for: every gap is on it, what is    *)
(* approved passed every control, what is not approved says why, and the   *)
(* payment proposed meets the terms or says that it does not; what of a    *)
(* redacted text the controls still see; and when an approval rests on a   *)
(* history that was read.                                                  *)
(* Here the rules are opened, one lemma for each fact needed of one.       *)
(***************************************************************************)
EXTENDS CaseAssessmentProofs, CaseAssessmentClaims, FiniteSetTheorems

USE CaseAssumption

-----------------------------------------------------------------------------
(* What each handler leaves, field by field *)

\* Everything a control recorded, apart from the indicators.
SameFindings(s, t) ==
    /\ t.exceptions = s.exceptions /\ t.risks = s.risks
    /\ t.payableOn = s.payableOn /\ t.proposedRun = s.proposedRun

\* A step that only moves the run on.
Quiet(s, t) ==
    /\ HasShape(t)
    /\ SameEvidence(s, t) /\ SameDates(s, t) /\ SameFindings(s, t)
    /\ s.unknowns \subseteq t.unknowns

LEMMA SavedFully ==
    ASSUME NEW t, HasShape(t), NEW p, NEW u, u = [t EXCEPT !.phase = p]
    PROVE  /\ HasShape(u) /\ u.phase = p
           /\ SameEvidence(t, u) /\ SameDates(t, u) /\ SameFindings(t, u)
           /\ u.unknowns = t.unknowns /\ u.indicators = t.indicators
           /\ u.invalid = t.invalid /\ u.outcome = t.outcome /\ u.tightened = t.tightened
  BY DEF HasShape, FreshCase, SameEvidence, SameDates, SameFindings

LEMMA IntakeEffect ==
    ASSUME Inv, Intake
    PROVE  /\ run # None /\ run.phase = "INTAKE" /\ run'.phase = "RETRIEVE_POLICY"
           /\ world' = world /\ day' = day
           /\ run'.request = Redacted(run.request)
           /\ run'.vendor = run.vendor /\ run'.order = run.order
           /\ run'.history = run.history
           /\ run'.exceptions = Recorded(run.exceptions,
                                         ValidityExceptions(Redacted(run.request), day))
           /\ run'.indicators = run.indicators /\ run'.payableOn = run.payableOn
<1>1. run # None /\ run.phase = "INTAKE" /\ UNCHANGED <<day, world>>
  BY DEF Intake, In
<1>2. HasShape(run)
  BY <1>1, TypeIsStored DEF Inv
<1> DEFINE t == IntakeOf(run)
<1>3. /\ HasShape(t) /\ t.phase = run.phase
      /\ t.request = Redacted(run.request)
      /\ t.vendor = run.vendor /\ t.order = run.order /\ t.history = run.history
      /\ t.exceptions = Recorded(run.exceptions, ValidityExceptions(Redacted(run.request), day))
      /\ t.indicators = run.indicators /\ t.payableOn = run.payableOn
  BY <1>2 DEF HasShape, FreshCase, IntakeOf
<1>4. run' = [t EXCEPT !.phase = NextPhase[@]]
  BY DEF Completed, Intake
<1> HIDE DEF t
<1>5. run' = [t EXCEPT !.phase = "RETRIEVE_POLICY"]
  BY <1>1, <1>3, <1>4 DEF NextPhase
<1> QED
  BY <1>1, <1>3, <1>5, SavedFully DEF SameEvidence, SameFindings

LEMMA RetrieveEffect ==
    ASSUME Inv, RetrievePolicy
    PROVE  /\ run # None /\ run.phase = "RETRIEVE_POLICY" /\ run'.phase = "GATHER_EVIDENCE"
           /\ world' = world /\ day' = day
           /\ Quiet(run, run') /\ run'.indicators = run.indicators
<1>1. run # None /\ run.phase = "RETRIEVE_POLICY" /\ UNCHANGED <<day, world>>
  BY DEF RetrievePolicy, In
<1>2. HasShape(run)
  BY <1>1, TypeIsStored DEF Inv
<1> PICK answered \in Answers : Completed(RetrievePolicyOf(run, answered))
  BY DEF RetrievePolicy
<1> DEFINE t == RetrievePolicyOf(run, answered)
<1>3. Quiet(run, t) /\ t.phase = run.phase /\ t.indicators = run.indicators
  BY <1>2 DEF HasShape, FreshCase, RetrievePolicyOf, Quiet, SameEvidence, SameDates, SameFindings
<1>4. run' = [t EXCEPT !.phase = NextPhase[@]]
  BY DEF Completed
<1> HIDE DEF t
<1>5. run' = [t EXCEPT !.phase = "GATHER_EVIDENCE"]
  BY <1>1, <1>3, <1>4 DEF NextPhase
<1> QED
  BY <1>1, <1>3, <1>5, SavedFully DEF Quiet, SameEvidence, SameDates, SameFindings

\* The lookups one after the other, each on its own tool.
LEMMA GatherEffect ==
    ASSUME Inv, GatherEvidence
    PROVE  /\ run # None /\ run.phase = "GATHER_EVIDENCE" /\ run'.phase = "RECONCILE"
           /\ world' = world /\ day' = day
           /\ run'.request = run.request /\ SameFindings(run, run')
           /\ run'.indicators = run.indicators
           /\ run'.vendor = None => \E u \in run'.unknowns : u.source = "get_vendor_record"
           /\ (run'.order = None /\ run'.request.po # None) =>
                  \E u \in run'.unknowns : u.source = "get_purchase_order"
           /\ \/ run'.history = { h \in world.history : h.vendor = run.request.vendor }
              \/ /\ run'.history = run.history
                 /\ \E u \in run'.unknowns : u.source = "check_invoice_history"
<1>1. run # None /\ run.phase = "GATHER_EVIDENCE" /\ UNCHANGED <<day, world>>
  BY DEF GatherEvidence, In
<1>2. HasShape(run)
  BY <1>1, TypeIsStored DEF Inv
<1> PICK answered \in Answers : Completed(GatherEvidenceOf(run, answered))
  BY DEF GatherEvidence
<1> DEFINE v == VendorLookup(run, "get_vendor_record" \in answered)
           o == OrderLookup(v, "get_purchase_order" \in answered)
           h == HistoryLookup(o, "check_invoice_history" \in answered)
           t == DocumentSearch(h, "retrieve_finance_documents" \in answered)
<1>3. /\ HasShape(v) /\ v.phase = run.phase /\ SameFindings(run, v)
      /\ v.request = run.request /\ v.indicators = run.indicators
      /\ v.history = run.history
      /\ v.vendor = None => Gap("vendor record", "get_vendor_record") \in v.unknowns
  BY <1>2 DEF HasShape, FreshCase, VendorLookup, When, SameFindings
<1> HIDE DEF v
<1>4. /\ HasShape(o) /\ o.phase = v.phase /\ SameFindings(v, o)
      /\ o.request = v.request /\ o.indicators = v.indicators
      /\ o.vendor = v.vendor /\ o.history = v.history
      /\ v.unknowns \subseteq o.unknowns
      /\ (o.order = None /\ o.request.po # None) =>
             \/ Gap("order", "get_purchase_order") \in o.unknowns
             \/ Gap("order unreachable", "get_purchase_order") \in o.unknowns
  BY <1>3 DEF HasShape, FreshCase, OrderLookup, When, SameFindings
<1> HIDE DEF o
<1>5. /\ HasShape(h) /\ h.phase = o.phase /\ SameFindings(o, h)
      /\ h.request = o.request /\ h.indicators = o.indicators
      /\ h.vendor = o.vendor /\ h.order = o.order
      /\ o.unknowns \subseteq h.unknowns
      /\ \/ h.history = { g \in world.history : g.vendor = o.request.vendor }
         \/ h.history = o.history /\ Gap("history", "check_invoice_history") \in h.unknowns
  BY <1>4 DEF HasShape, FreshCase, HistoryLookup, SameFindings
<1> HIDE DEF h
<1>6. /\ HasShape(t) /\ t.phase = h.phase /\ SameFindings(h, t)
      /\ t.request = h.request /\ t.indicators = h.indicators
      /\ t.vendor = h.vendor /\ t.order = h.order /\ t.history = h.history
      /\ t.unknowns = h.unknowns
  BY <1>5 DEF HasShape, FreshCase, DocumentSearch, SameFindings
<1>7. run' = [t EXCEPT !.phase = NextPhase[@]]
  BY DEF Completed, GatherEvidenceOf, v, o, h
<1> HIDE DEF t
<1>8. run' = [t EXCEPT !.phase = "RECONCILE"]
  <2>1. t.phase = "GATHER_EVIDENCE"
    BY <1>1, <1>3, <1>4, <1>5, <1>6
  <2> QED
    BY <2>1, <1>7 DEF NextPhase
<1>9. /\ run'.phase = "RECONCILE" /\ run'.request = t.request /\ run'.vendor = t.vendor
      /\ run'.order = t.order /\ run'.history = t.history /\ run'.unknowns = t.unknowns
      /\ run'.indicators = t.indicators /\ SameFindings(t, run')
  BY <1>6, <1>8, SavedFully DEF SameEvidence
<1>10. SameFindings(run, run')
  BY <1>3, <1>4, <1>5, <1>6, <1>9 DEF SameFindings
<1>11. run'.vendor = None => \E u \in run'.unknowns : u.source = "get_vendor_record"
  <2> SUFFICES ASSUME run'.vendor = None
               PROVE  Gap("vendor record", "get_vendor_record") \in run'.unknowns
    BY DEF Gap
  <2> QED
    BY <1>3, <1>4, <1>5, <1>6, <1>9
<1>12. (run'.order = None /\ run'.request.po # None) =>
           \E u \in run'.unknowns : u.source = "get_purchase_order"
  <2> SUFFICES ASSUME run'.order = None, run'.request.po # None
               PROVE  \/ Gap("order", "get_purchase_order") \in run'.unknowns
                      \/ Gap("order unreachable", "get_purchase_order") \in run'.unknowns
    BY DEF Gap
  <2> QED
    BY <1>3, <1>4, <1>5, <1>6, <1>9
<1>13. Gap("history", "check_invoice_history") \in run'.unknowns =>
           \E u \in run'.unknowns : u.source = "check_invoice_history"
  BY DEF Gap
<1>14. \/ run'.history = { g \in world.history : g.vendor = run.request.vendor }
       \/ run'.history = run.history /\ Gap("history", "check_invoice_history") \in run'.unknowns
  <2>1. run'.history = h.history /\ run'.unknowns = h.unknowns
    BY <1>6, <1>9
  <2>2. o.history = run.history /\ o.request = run.request
    BY <1>3, <1>4
  <2> QED
    BY <1>5, <2>1, <2>2
<1>15. run'.request = run.request /\ run'.indicators = run.indicators
  BY <1>3, <1>4, <1>5, <1>6, <1>9
<1> QED
  BY <1>1, <1>9, <1>10, <1>11, <1>12, <1>13, <1>14, <1>15

LEMMA ReconcileEffect ==
    ASSUME Inv, Reconcile
    PROVE  LET invoice == ToInvoice(run.request, day)
           IN  /\ run # None /\ run.phase = "RECONCILE" /\ run'.phase = "ASSESS_RISK"
               /\ world' = world /\ day' = day
               /\ SameEvidence(run, run') /\ run'.reconciledOn = day
               /\ run'.indicators = run.indicators
               /\ run'.exceptions = Recorded(run.exceptions, ReconcileExceptions(run, invoice))
               /\ run'.unknowns = run.unknowns \cup VendorGaps(run.vendor)
                      \cup (MatchGaps(invoice, run.order) \ Superseded(run.unknowns))
               /\ VendorRisks(run.vendor, run.history, day) \subseteq run'.risks
               /\ run'.payableOn = PayableOn(invoice, run.order)
               /\ run'.proposedRun = ProposedRun(invoice, run.order, day)
<1>1. run # None /\ run.phase = "RECONCILE" /\ UNCHANGED <<day, world>>
  BY DEF Reconcile, In
<1>2. HasShape(run)
  BY <1>1, TypeIsStored DEF Inv
<1> DEFINE t == ReconcileOf(run)
           invoice == ToInvoice(run.request, day)
<1>3. /\ HasShape(t) /\ t.phase = run.phase
      /\ SameEvidence(run, t) /\ t.reconciledOn = day /\ t.indicators = run.indicators
      /\ t.exceptions = Recorded(run.exceptions, ReconcileExceptions(run, invoice))
      /\ t.unknowns = run.unknowns \cup VendorGaps(run.vendor)
             \cup (MatchGaps(invoice, run.order) \ Superseded(run.unknowns))
      /\ VendorRisks(run.vendor, run.history, day) \subseteq t.risks
      /\ t.payableOn = PayableOn(invoice, run.order)
      /\ t.proposedRun = ProposedRun(invoice, run.order, day)
  BY <1>2 DEF HasShape, FreshCase, ReconcileOf, SameEvidence
<1>4. run' = [t EXCEPT !.phase = NextPhase[@]]
  BY DEF Completed, Reconcile
<1> HIDE DEF t
<1>5. run' = [t EXCEPT !.phase = "ASSESS_RISK"]
  BY <1>1, <1>3, <1>4 DEF NextPhase
<1> QED
  BY <1>1, <1>3, <1>5, SavedFully DEF SameEvidence, SameFindings, SameDates

LEMMA AssessEffect ==
    ASSUME Inv, AssessRisk \/ AssessmentFails
    PROVE  /\ run # None /\ run.phase = "ASSESS_RISK" /\ run'.phase \in {"RECOMMEND", "FAILED"}
           /\ world' = world /\ day' = day
           /\ Quiet(run, run')
           /\ run'.indicators = run.indicators
                  \cup FraudIndicators(ToInvoice(run.request, day), run.vendor,
                                       run.request.texts, run.history, day)
<1>1. run # None /\ run.phase = "ASSESS_RISK" /\ UNCHANGED <<day, world>>
  BY DEF AssessRisk, AssessmentFails, In
<1>2. HasShape(run)
  BY <1>1, TypeIsStored DEF Inv
<1> DEFINE t == AssessRiskOf(run)
<1>3. /\ Quiet(run, t) /\ t.phase = run.phase
      /\ t.indicators = run.indicators
             \cup FraudIndicators(ToInvoice(run.request, day), run.vendor,
                                  run.request.texts, run.history, day)
  BY <1>2 DEF HasShape, FreshCase, AssessRiskOf, Quiet, SameEvidence, SameDates, SameFindings
<1>4. \/ run' = [t EXCEPT !.phase = NextPhase[@]]
      \/ run' = [t EXCEPT !.phase = "FAILED"]
  BY DEF AssessRisk, AssessmentFails, Completed
<1> HIDE DEF t
<1>5. \E p \in {"RECOMMEND", "FAILED"} : run' = [t EXCEPT !.phase = p]
  BY <1>1, <1>3, <1>4 DEF NextPhase
<1>6. /\ run'.phase \in {"RECOMMEND", "FAILED"} /\ HasShape(run')
      /\ SameEvidence(t, run') /\ SameDates(t, run') /\ SameFindings(t, run')
      /\ run'.unknowns = t.unknowns /\ run'.indicators = t.indicators
  BY <1>3, <1>5, SavedFully DEF Quiet
<1>7. Quiet(run, run')
  BY <1>3, <1>6 DEF Quiet, SameEvidence, SameDates, SameFindings
<1> QED
  BY <1>1, <1>3, <1>6, <1>7

Concluding == {"AWAITING_APPROVAL", "HELD", "FAILED"}

LEMMA RecommendEffect ==
    ASSUME Inv, Recommend \/ NarrativeFails
    PROVE  /\ run # None /\ run.phase = "RECOMMEND" /\ run'.phase \in Concluding
           /\ world' = world /\ day' = day
           /\ Quiet(run, run') /\ run'.indicators = run.indicators
           /\ run'.invalid = run.invalid
<1>1. run # None /\ run.phase = "RECOMMEND" /\ UNCHANGED <<day, world>>
  BY DEF Recommend, NarrativeFails, In
<1>2. HasShape(run)
  BY <1>1, TypeIsStored DEF Inv
<1>3. CASE Recommend
  <2> PICK suggestion \in Outcomes \cup {None} : Concluded(RecommendOf(run, suggestion))
    BY <1>3 DEF Recommend
  <2> DEFINE t == RecommendOf(run, suggestion)
  <2>1. /\ Quiet(run, t) /\ t.phase = run.phase /\ t.indicators = run.indicators
        /\ t.invalid = run.invalid
    BY <1>2 DEF HasShape, FreshCase, RecommendOf, Quiet, SameEvidence, SameDates, SameFindings
  <2>2. run' = [t EXCEPT !.phase = AfterRecommend(t.outcome)]
    BY DEF Concluded
  <2> HIDE DEF t
  <2>3. AfterRecommend(t.outcome) \in Concluding
    BY DEF AfterRecommend, Concluding
  <2> QED
    BY <1>1, <2>1, <2>2, <2>3, SavedFully DEF Quiet, SameEvidence, SameDates, SameFindings
<1>4. CASE NarrativeFails
  <2>1. run' = [run EXCEPT !.phase = "FAILED"]
    BY <1>4 DEF NarrativeFails
  <2> QED
    BY <1>1, <1>2, <2>1, SavedFully DEF Quiet, Concluding
<1> QED
  BY <1>3, <1>4

\* Every step is one of these.
LEMMA Steps ==
    ASSUME Inv, [Next]_vars
    PROVE  \/ Submit \/ Intake \/ RetrievePolicy \/ GatherEvidence \/ Reconcile
           \/ AssessRisk \/ AssessmentFails \/ Recommend \/ NarrativeFails
           \/ run' = run /\ world' = world
BY DEF Next, Tick, vars

-----------------------------------------------------------------------------
(* Indicators *)

Codes ==
    { "EMBEDDED_INSTRUCTION", "URGENCY_OR_SECRECY", "WEEKEND_MANUAL_PAYMENT",
      "BANK_CHANGE_REQUESTED", "REPEATED_ROUND_DOLLAR", "BANK_DETAILS_RECENTLY_CHANGED",
      "VENDOR_NAME_MISMATCH", "PAYMENT_TO_NEW_COUNTRY", "VENDOR_RISK_FLAG" }

\* fraud_indicators yields nothing but its codes, and two of them only from a text.
LEMMA IndicatorsFound ==
    ASSUME NEW i, NEW v, NEW texts, NEW h, NEW d
    PROVE  LET found == FraudIndicators(i, v, texts, h, d)
           IN  /\ found \subseteq Codes
               /\ "EMBEDDED_INSTRUCTION" \in found => "INJECTION" \in Said(texts)
               /\ "BANK_CHANGE_REQUESTED" \in found => "BANK_CHANGE" \in Said(texts)
  BY DEF FraudIndicators, Codes, When

Unassessed == Unreconciled \cup {"ASSESS_RISK"}

\* No indicator is on record before the texts are masked, and what is read later is read
\* from the masked texts.
IndicatorInv ==
    /\ IndicatorsAreOfThisCase
    /\ run # None =>
          /\ run.phase \in Unassessed => run.indicators = {}
          /\ run.indicators \subseteq Codes

LEMMA IndicatorStep == Inv /\ IndicatorInv /\ [Next]_vars => IndicatorInv'
<1> SUFFICES ASSUME Inv, IndicatorInv, [Next]_vars PROVE IndicatorInv'
  OBVIOUS
<1> USE DEF IndicatorInv, IndicatorsAreOfThisCase, Unassessed, Unreconciled
<1>1. CASE Submit
  BY <1>1 DEF Submit, FreshCase
<1>2. CASE Intake
  BY <1>2, IntakeEffect
<1>3. CASE RetrievePolicy
  BY <1>3, RetrieveEffect DEF Quiet, SameEvidence
<1>4. CASE GatherEvidence
  BY <1>4, GatherEffect
<1>5. CASE Reconcile
  BY <1>5, ReconcileEffect DEF SameEvidence
<1>6. CASE AssessRisk \/ AssessmentFails
  <2>1. /\ run # None /\ run.indicators = {}
        /\ run'.phase \in {"RECOMMEND", "FAILED"} /\ run'.request = run.request
        /\ run'.indicators = run.indicators
               \cup FraudIndicators(ToInvoice(run.request, day), run.vendor,
                                    run.request.texts, run.history, day)
    BY <1>6, AssessEffect DEF Quiet, SameEvidence
  <2> QED
    BY <2>1, IndicatorsFound
<1>7. CASE Recommend \/ NarrativeFails
  BY <1>7, RecommendEffect DEF Quiet, SameEvidence, Concluding
<1>8. CASE run' = run
  BY <1>8
<1> QED
  BY <1>1, <1>2, <1>3, <1>4, <1>5, <1>6, <1>7, <1>8, Steps

THEOREM IndicatorsHold == Spec => []IndicatorInv
<1>1. Init => IndicatorInv
  BY DEF Init, IndicatorInv, IndicatorsAreOfThisCase
<1> QED
  BY <1>1, IndicatorStep, InvHolds, PTL DEF Spec

\* An indicator read from text is read from a text of this request, whatever documents the
\* search brings up (assess_risk.run, fraud_indicators).
THEOREM IndicatorsAreRead == Spec => []IndicatorsAreOfThisCase
<1>1. IndicatorInv => IndicatorsAreOfThisCase
  BY DEF IndicatorInv
<1> QED
  BY <1>1, IndicatorsHold, PTL

-----------------------------------------------------------------------------
(* Gaps *)

Ungathered == {"INTAKE", "RETRIEVE_POLICY", "GATHER_EVIDENCE"}

Asked(source) == \E u \in run.unknowns : u.source = source

\* An order that was looked for and not found is a gap at once, one that was not looked for
\* when it is missed.
GapInv ==
    run # None =>
        /\ run.phase \in Ungathered => run.history = {}
        /\ run.phase \notin Ungathered =>
               /\ run.history \subseteq { h \in world.history : h.vendor = run.request.vendor }
               /\ run.vendor = None => Asked("get_vendor_record")
               /\ (run.order = None /\ run.request.po # None) => Asked("get_purchase_order")
               /\ (\E h \in world.history \ run.history : h.vendor = run.request.vendor)
                      => Asked("check_invoice_history")
        /\ run.phase \notin Unreconciled => (run.order = None => Asked("get_purchase_order"))

LEMMA GapStep == Inv /\ GapInv /\ [Next]_vars => GapInv'
<1> SUFFICES ASSUME Inv, GapInv, [Next]_vars PROVE GapInv'
  OBVIOUS
<1> USE DEF GapInv, Asked, Ungathered, Unreconciled
<1>1. CASE Submit
  BY <1>1 DEF Submit, FreshCase
<1>2. CASE Intake
  BY <1>2, IntakeEffect
<1>3. CASE RetrievePolicy
  BY <1>3, RetrieveEffect DEF Quiet, SameEvidence
<1>4. CASE GatherEvidence
  BY <1>4, GatherEffect
<1>5. CASE Reconcile
  <2> DEFINE invoice == ToInvoice(run.request, day)
  <2>1. /\ run # None /\ run.phase = "RECONCILE" /\ run'.phase = "ASSESS_RISK"
        /\ world' = world /\ SameEvidence(run, run')
        /\ run'.unknowns = run.unknowns \cup VendorGaps(run.vendor)
               \cup (MatchGaps(invoice, run.order) \ Superseded(run.unknowns))
    BY <1>5, ReconcileEffect
  <2> HIDE DEF invoice
  <2>2. ASSUME run.order = None PROVE \E u \in run'.unknowns : u.source = "get_purchase_order"
    <3>1. OrderLinesGap \in MatchGaps(invoice, run.order)
      BY <2>2 DEF MatchGaps
    <3>2. OrderLinesGap.source = "get_purchase_order"
      BY DEF OrderLinesGap, Gap
    <3>3. CASE \E u \in run.unknowns : u.source = "get_purchase_order"
      BY <2>1, <3>3
    <3>4. CASE ~\E u \in run.unknowns : u.source = "get_purchase_order"
      BY <2>1, <3>1, <3>2, <3>4 DEF Superseded, When
    <3> QED
      BY <3>3, <3>4
  <2>3. run.unknowns \subseteq run'.unknowns
    BY <2>1
  <2> QED
    BY <2>1, <2>2, <2>3 DEF SameEvidence
<1>6. CASE AssessRisk \/ AssessmentFails
  BY <1>6, AssessEffect DEF Quiet, SameEvidence
<1>7. CASE Recommend \/ NarrativeFails
  BY <1>7, RecommendEffect DEF Quiet, SameEvidence, Concluding
<1>8. CASE run' = run /\ world' = world
  BY <1>8
<1> QED
  BY <1>1, <1>2, <1>3, <1>4, <1>5, <1>6, <1>7, <1>8, Steps

THEOREM GapsHold == Spec => []GapInv
<1>1. Init => GapInv
  BY DEF Init, GapInv
<1> QED
  BY <1>1, GapStep, InvHolds, PTL DEF Spec

\* Only a run past RECONCILE has a verdict.
LEMMA VerdictsAreLate == Inv /\ Recommended => run.phase \notin Unreconciled
BY DEF Inv, RecordInv, Recommended, Undecided, Unreconciled, ReadOnlyPhases

\* What a recommended run could not read is on its record with the tool that was asked: the
\* vendor, the order and every invoice of the vendor's that is missing from the history
\* (gather_evidence.run, _without_superseded_unknowns).
THEOREM GapsAreDisclosed == Spec => []GapsDisclosed
<1>1. Inv /\ GapInv => GapsDisclosed
  BY VerdictsAreLate DEF GapInv, GapsDisclosed, Asked, Recommended, Ungathered, Unreconciled
<1> QED
  BY <1>1, GapsHold, InvHolds, PTL

-----------------------------------------------------------------------------
(* The calendar *)

\* The last of a set of days is the one that none of it is after.
LEMMA MaxIs ==
    ASSUME NEW S, NEW m \in S, m \in Int, S \subseteq Int, \A d \in S : d <= m
    PROVE  Max(S) = m
<1>1. \A x \in S : (\A d \in S : x >= d) => x = m
  OBVIOUS
<1>2. \A d \in S : m >= d
  OBVIOUS
<1> QED
  BY <1>1, <1>2 DEF Max

LEMMA MinIs ==
    ASSUME NEW S, NEW m \in S, m \in Int, S \subseteq Int, \A d \in S : m <= d
    PROVE  Min(S) = m
<1>1. \A x \in S : (\A d \in S : x =< d) => x = m
  OBVIOUS
<1> QED
  BY <1>1 DEF Min

\* A weekend is two days long.
LEMMA BusinessDayBefore ==
    ASSUME NEW d \in Int
    PROVE  /\ PreviousBusinessDay(d) \in (d - 2)..d
           /\ Weekday(PreviousBusinessDay(d)) \notin {5, 6}
<1> DEFINE S == { x \in (d - 2)..d : IsBusinessDay(x) }
           m == IF d % 7 < 5 THEN d ELSE IF d % 7 = 5 THEN d - 1 ELSE d - 2
<1>1. m \in Int /\ m \in S /\ m \in (d - 2)..d
  BY DEF IsBusinessDay, Weekday
<1>2. \A x \in S : x <= m
  BY DEF IsBusinessDay, Weekday
<1>3. S \subseteq Int
  OBVIOUS
<1>4. IsBusinessDay(m)
  BY <1>1
<1> HIDE DEF m
<1>5. PreviousBusinessDay(d) = m
  BY <1>1, <1>2, <1>3, MaxIs DEF PreviousBusinessDay
<1> QED
  BY <1>1, <1>4, <1>5 DEF IsBusinessDay, Weekday

\* From a Friday, Saturday, Sunday or Monday it is two to five days back to a run day.
LEMMA LatestRun ==
    ASSUME NEW p \in Int, NEW t \in Nat
    PROVE  LET latest == LatestRunBy(p, t)
           IN  latest # None => /\ latest \in t..p /\ Weekday(latest) \in {1, 3}
                                /\ p - latest <= 4
<1> DEFINE S == { d \in t..p : IsRunDay(d) }
           w == p % 7
           m == CASE w = 0 -> p - 4 [] w = 1 -> p [] w = 2 -> p - 1 [] w = 3 -> p
                  [] w = 4 -> p - 1 [] w = 5 -> p - 2 [] OTHER -> p - 3
<1>1. m \in Int /\ IsRunDay(m) /\ m <= p /\ p - m <= 4
  BY DEF IsRunDay, Weekday
<1>2. \A d \in Int : (d <= p /\ IsRunDay(d)) => d <= m
  BY DEF IsRunDay, Weekday
<1> HIDE DEF m
<1>3. CASE S = {}
  BY <1>3 DEF LatestRunBy
<1>4. CASE S # {}
  <2>1. m \in S
    BY <1>1, <1>2, <1>4
  <2>2. Max(S) = m
    BY <1>1, <1>2, <2>1, MaxIs
  <2>3. LatestRunBy(p, t) = m
    BY <1>4, <2>2 DEF LatestRunBy
  <2> QED
    BY <1>1, <2>1, <2>3 DEF IsRunDay
<1> QED
  BY <1>3, <1>4

LEMMA NoLateRun ==
    ASSUME NEW p \in Int, NEW t \in Nat, p < t
    PROVE  LatestRunBy(p, t) = None
<1>1. { d \in t..p : IsRunDay(d) } = {}
  OBVIOUS
<1> QED
  BY <1>1 DEF LatestRunBy

\* Any week has a run.
LEMMA FirstRun ==
    ASSUME NEW p \in Int
    PROVE  /\ FirstRunAfter(p) \in Int /\ FirstRunAfter(p) > p
           /\ Weekday(FirstRunAfter(p)) \in {1, 3}
<1> DEFINE S == { d \in (p + 1)..(p + 7) : IsRunDay(d) }
           w == p % 7
           m == CASE w = 0 -> p + 1 [] w = 1 -> p + 2 [] w = 2 -> p + 1 [] w = 3 -> p + 5
                  [] w = 4 -> p + 4 [] w = 5 -> p + 3 [] OTHER -> p + 2
<1>1. m \in Int /\ m \in S /\ m > p /\ IsRunDay(m)
  BY DEF IsRunDay, Weekday
<1>2. \A d \in S : m <= d
  BY DEF IsRunDay, Weekday
<1>3. S \subseteq Int
  OBVIOUS
<1> HIDE DEF m
<1>4. FirstRunAfter(p) = m
  BY <1>1, <1>2, <1>3, MinIs DEF FirstRunAfter
<1> QED
  BY <1>1, <1>4 DEF IsRunDay

\* What assess_payment_terms proposes: a run that meets the terms, or the next one, or none
\* for what is past due; the last two are reported.
LEMMA ProposalMeetsTerms ==
    ASSUME NEW i, NEW o, NEW t \in Nat, i.date \in Int, AgreedTerms(o) \in Int
    PROVE  LET payable == PayableOn(i, o)
               due     == DueDate(i, o)
               run1    == ProposedRun(i, o, t)
               late    == LatestRunBy(payable, t) = None
           IN  /\ payable \in (due - 2)..due /\ Weekday(payable) \notin {5, 6}
               /\ run1 = None => payable < t /\ late
               /\ run1 # None =>
                      /\ Weekday(run1) \in {1, 3} /\ run1 >= t
                      /\ ~late => run1 <= payable /\ payable - run1 <= 4
                      /\ late => run1 > payable
<1> DEFINE due == DueDate(i, o)
           p == PayableOn(i, o)
           latest == LatestRunBy(p, t)
           first == FirstRunAfter(p)
<1>1. due \in Int
  BY DEF DueDate
<1> HIDE DEF due
<1>2. p \in (due - 2)..due /\ Weekday(p) \notin {5, 6}
  BY <1>1, BusinessDayBefore DEF PayableOn, due
<1>3. p \in Int
  BY <1>1, <1>2
<1> HIDE DEF p
<1>4. latest # None => latest \in t..p /\ Weekday(latest) \in {1, 3} /\ p - latest <= 4
  BY <1>3, LatestRun
<1>5. p < t => latest = None
  BY <1>3, NoLateRun
<1>6. first \in Int /\ first > p /\ Weekday(first) \in {1, 3}
  BY <1>3, FirstRun
<1> HIDE DEF latest, first
<1>7. ProposedRun(i, o, t) = IF p < t THEN None ELSE IF latest # None THEN latest ELSE first
  BY <1>3, <1>5 DEF ProposedRun, p, latest, first
<1>8. p >= t => first # None
  <2> SUFFICES ASSUME p >= t PROVE first \in Nat
    OBVIOUS
  <2> QED
    BY <1>3, <1>6
<1> DEFINE run1 == ProposedRun(i, o, t)
<1> HIDE DEF run1
<1>9. run1 = IF p < t THEN None ELSE IF latest # None THEN latest ELSE first
  BY <1>7 DEF run1
<1>10. run1 = None => p < t /\ latest = None
  BY <1>3, <1>5, <1>8, <1>9
<1>11. run1 # None =>
          /\ Weekday(run1) \in {1, 3} /\ run1 >= t
          /\ latest # None => run1 <= p /\ p - run1 <= 4
          /\ latest = None => run1 > p
  <2> SUFFICES ASSUME run1 # None
               PROVE  /\ Weekday(run1) \in {1, 3} /\ run1 >= t
                      /\ latest # None => run1 <= p /\ p - run1 <= 4
                      /\ latest = None => run1 > p
    OBVIOUS
  <2>1. ~(p < t)
    BY <1>9
  <2>2. CASE latest # None
    BY <1>3, <1>4, <1>9, <2>1, <2>2
  <2>3. CASE latest = None
    BY <1>3, <1>6, <1>9, <2>1, <2>3
  <2> QED
    BY <2>2, <2>3
<1> QED
  BY <1>2, <1>10, <1>11 DEF p, due, latest, run1

-----------------------------------------------------------------------------
(* What the rules raise *)

\* What the submission alone can be faulted for; all of it stops the case.
Submitted ==
    { Fault("document_total_agrees_with_lines"), Fault("invoice_date_not_in_the_future"),
      Fault("document_is_an_invoice_not_a_credit_note") }

LEMMA ValidityRules ==
    ASSUME NEW r, NEW d
    PROVE  /\ ValidityExceptions(r, d) \subseteq Submitted
           /\ IsCreditNote(r) =>
                  Fault("document_is_an_invoice_not_a_credit_note") \in ValidityExceptions(r, d)
  BY DEF ValidityExceptions, InvalidReasons, When, Submitted

\* A control that fails does so on the record, whatever was recorded before it.
LEMMA BlockedIsRecorded ==
    ASSUME NEW old, NEW new, old \subseteq Submitted, IsBlocked(new)
    PROVE  IsBlocked(Recorded(old, new))
<1> PICK e \in new : e.blocking
  BY DEF IsBlocked
<1>1. CASE \E o \in old : o.rule = e.rule
  BY <1>1 DEF IsBlocked, Recorded, Submitted, Fault
<1>2. CASE \A o \in old : o.rule # e.rule
  BY <1>2 DEF IsBlocked, Recorded
<1> QED
  BY <1>1, <1>2

Late == "standard_run_available_before_due_date"

\* No control but that of the terms reports a late run.
LEMMA MatchIsNotLate ==
    ASSUME NEW i, NEW o, NEW e \in MatchExceptions(i, o)
    PROVE  e.rule # Late
<1>1. \A l : \A x \in LineExceptions(l, o) : x.rule # Late
  BY DEF LineExceptions, When, Fault, Late
<1>2. \A x \in TotalExceptions(i, o) : x.rule # Late
  BY DEF TotalExceptions, When, Fault, Late
<1> QED
  BY <1>1, <1>2 DEF MatchExceptions, When, Fault, Late

LEMMA OthersAreNotLate ==
    ASSUME NEW i, NEW o, NEW v, NEW h, NEW texts, NEW separated
    PROVE  /\ \A e \in DuplicateExceptions(i, h) : e.rule # Late
           /\ \A e \in VendorExceptions(v, i, h) : e.rule # Late
           /\ \A e \in InstructionExceptions(v, texts) : e.rule # Late
           /\ \A e \in SegregationExceptions(i, o) : e.rule # Late
           /\ \A e \in TaxExceptions(i, separated, o) : e.rule # Late
           /\ \A e \in NonPoExceptions(i, h) : e.rule # Late
<1> USE DEF When, Fault, Notice, Late
<1>1. \A e \in DuplicateExceptions(i, h) : e.rule # Late
  BY DEF DuplicateExceptions
<1>2. \A e \in VendorExceptions(v, i, h) : e.rule # Late
  BY DEF VendorExceptions
<1>3. \A e \in InstructionExceptions(v, texts) : e.rule # Late
  BY DEF InstructionExceptions
<1>4. \A e \in SegregationExceptions(i, o) : e.rule # Late
  BY DEF SegregationExceptions
<1>5. \A e \in TaxExceptions(i, separated, o) : e.rule # Late
  BY DEF TaxExceptions
<1>6. \A e \in NonPoExceptions(i, h) : e.rule # Late
  BY DEF NonPoExceptions
<1> QED
  BY <1>1, <1>2, <1>3, <1>4, <1>5, <1>6

LEMMA LateIsReported ==
    ASSUME NEW i, NEW o, NEW d
    PROVE  Notice(Late) \in TermsExceptions(i, o, d) <=> LatestRunBy(PayableOn(i, o), d) = None
  BY DEF TermsExceptions, When, Notice, Late

\* A vendor that needs a review of Financial Control is higher-risk for the same reason.
LEMMA ReviewIsARisk ==
    ASSUME NEW v, NEW h, NEW d, NeedsControlReview(v)
    PROVE  \/ "risk flags" \in VendorRisks(v, h, d)
           \/ "sanctions review" \in VendorRisks(v, h, d)
  BY Zenon DEF NeedsControlReview, VendorRisks, When

-----------------------------------------------------------------------------
(* A control found today was found when the case was reconciled *)

\* Deriving what a request leaves out touches nothing else, and the day only its date.
LEMMA Derived ==
    ASSUME NEW r, RequestFields \subseteq DOMAIN r, NEW d, NEW e
    PROVE  LET i == ToInvoice(r, d)
               j == ToInvoice(r, e)
           IN  /\ i.vendor = r.vendor /\ i.reference = r.reference /\ i.name = r.name
               /\ i.currency = r.currency /\ i.gross = r.gross /\ i.lines = r.lines
               /\ i.requestedBy = r.requestedBy /\ i.texts = r.texts /\ i.po = r.po
               /\ i.net = j.net
               /\ i.date = IF r.date = None THEN d ELSE r.date
  BY DEF ToInvoice, RequestFields

LEMMA SameMatch ==
    ASSUME NEW i, NEW j, NEW o,
           i.lines = j.lines, i.currency = j.currency, i.net = j.net
    PROVE  MatchExceptions(i, o) = MatchExceptions(j, o)
<1>1. LineLevel(i, o) = LineLevel(j, o) /\ SameCurrency(i, o) = SameCurrency(j, o)
  BY DEF LineLevel, SameCurrency
<1>2. Unmapped(i, o) = Unmapped(j, o)
  BY DEF Unmapped
<1>3. ExpectedTotal(i, o) = ExpectedTotal(j, o)
  BY <1>1 DEF ExpectedTotal
<1>4. TotalExceptions(i, o) = TotalExceptions(j, o)
  BY <1>1, <1>2, <1>3 DEF TotalExceptions, TotalCompared
<1> QED
  BY <1>1, <1>2, <1>4 DEF MatchExceptions

\* As days pass an undated invoice moves away from what is dated before it, and what is
\* dated after it was near enough from the start.
LEMMA DuplicateBefore ==
    ASSUME Inv, NEW d \in FirstDay..day, NEW h, h \subseteq world.history,
           IsBlocked(DuplicateExceptions(ToInvoice(Redacted(world.request), day), h))
    PROVE  IsBlocked(DuplicateExceptions(ToInvoice(Redacted(world.request), d), h))
<1> PICK r : r = Redacted(world.request)
  OBVIOUS
<1>1. world \in Cases /\ RequestFields \subseteq DOMAIN world.request
  BY DEF Inv
<1>2. RequestFields \subseteq DOMAIN r /\ r.date = world.request.date
  BY <1>1, RedactedDate DEF Redacted
<1> DEFINE i == ToInvoice(r, day)
           j == ToInvoice(r, d)
<1>3. /\ j.vendor = i.vendor /\ j.reference = i.reference /\ j.currency = i.currency
      /\ j.gross = i.gross /\ j.texts = i.texts /\ j.po = i.po
      /\ i.date = IF r.date = None THEN day ELSE r.date
      /\ j.date = IF r.date = None THEN d ELSE r.date
  BY <1>2, Derived
<1> HIDE DEF i, j
<1>4. ASSUME NEW g \in h, IsExact(i, g)
      PROVE  IsExact(j, g)
  BY <1>3, <1>4 DEF IsExact
<1>5. ASSUME NEW g \in h, WithinDays(i.date, g.date, 14)
      PROVE  WithinDays(j.date, g.date, 14)
  <2>1. g.date \in Int /\ (r.date = None => g.date <= FirstDay + 14)
    BY <1>1, <1>2, DatesAssumption, UndatedAssumption
  <2>2. day \in Int /\ d \in Int /\ FirstDay <= d /\ d <= day
    BY DEF Inv, TypeOK
  <2>3. CASE r.date = None
    BY <1>3, <1>5, <2>1, <2>2, <2>3 DEF WithinDays
  <2>4. CASE r.date # None
    BY <1>3, <1>5, <2>4
  <2> QED
    BY <2>3, <2>4
<1>6. ASSUME NEW g \in h, IsProbable(i, g)
      PROVE  IsProbable(j, g)
  BY <1>3, <1>5, <1>6 DEF IsProbable, SharesDocument
<1>7. ASSUME IsSettledDuplicate(i, h)
      PROVE  IsSettledDuplicate(j, h)
  BY <1>4, <1>7 DEF IsSettledDuplicate
<1>8. IsSettledDuplicate(i, h) \/ \E g \in h : IsExact(i, g) \/ IsProbable(i, g)
  BY DEF DuplicateExceptions, IsBlocked, When, i
<1>9. IsSettledDuplicate(j, h) \/ \E g \in h : IsExact(j, g) \/ IsProbable(j, g)
  BY <1>4, <1>6, <1>7, <1>8
<1> QED
  BY <1>9 DEF DuplicateExceptions, IsBlocked, When, Fault, j

-----------------------------------------------------------------------------
(* What the record of a reconciled run says *)

\* Everything a control that stops the case finds in s on day d.
Stopping(s, d) ==
    LET invoice == ToInvoice(s.request, d)
    IN  MatchExceptions(invoice, s.order)
            \cup DuplicateExceptions(invoice, s.history)
            \cup VendorExceptions(s.vendor, invoice, s.history)
            \cup InstructionExceptions(s.vendor, s.request.texts)
            \cup SegregationExceptions(invoice, s.order)

\* The record of a run agrees with what the controls found on the day it was reconciled.
Judged(s) ==
    LET today   == s.reconciledOn
        invoice == ToInvoice(s.request, today)
    IN  /\ today \in Nat
        /\ IsBlocked(Stopping(s, today)) => IsBlocked(s.exceptions)
        /\ IsSettledDuplicate(s.request, s.history) =>
               Fault("exact_match_to_settled_record") \in s.exceptions
        /\ NeedsControlReview(s.vendor) =>
               "risk flags" \in s.risks \/ "sanctions review" \in s.risks
        /\ s.payableOn = PayableOn(invoice, s.order)
        /\ s.proposedRun = ProposedRun(invoice, s.order, today)
        /\ Notice(Late) \in s.exceptions <=> LatestRunBy(s.payableOn, today) = None

ControlInv ==
    run # None =>
        /\ run.phase = "INTAKE" => run.exceptions = {}
        /\ run.phase \in Unreconciled =>
               run.exceptions \subseteq Submitted /\ run.payableOn = None
        /\ run.phase \notin Unvalidated =>
               (IsCreditNote(run.request) =>
                    Fault("document_is_an_invoice_not_a_credit_note") \in run.exceptions)
        /\ run.phase \notin Unreconciled => Judged(run)

LEMMA JudgedKeeps ==
    ASSUME NEW s, NEW t, Judged(s), SameEvidence(s, t), SameFindings(s, t), SameDates(s, t)
    PROVE  Judged(t)
<1>1. Stopping(t, t.reconciledOn) = Stopping(s, s.reconciledOn)
  BY DEF Stopping, SameEvidence, SameDates
<1>2. /\ t.reconciledOn = s.reconciledOn /\ t.request = s.request /\ t.order = s.order
      /\ t.history = s.history /\ t.vendor = s.vendor /\ t.exceptions = s.exceptions
      /\ t.risks = s.risks /\ t.payableOn = s.payableOn /\ t.proposedRun = s.proposedRun
  BY DEF SameEvidence, SameFindings, SameDates
<1> QED
  BY <1>1, <1>2 DEF Judged

LEMMA ReconcileJudges ==
    ASSUME Inv, ControlInv, Reconcile
    PROVE  Judged(run')
<1> PICK s : s = run
  OBVIOUS
<1> PICK t : t = run'
  OBVIOUS
<1> DEFINE invoice == ToInvoice(s.request, day)
           found == ReconcileExceptions(s, invoice)
<1>1. /\ SameEvidence(s, t) /\ t.reconciledOn = day
      /\ t.exceptions = Recorded(s.exceptions, found)
      /\ VendorRisks(s.vendor, s.history, day) \subseteq t.risks
      /\ t.payableOn = PayableOn(invoice, s.order)
      /\ t.proposedRun = ProposedRun(invoice, s.order, day)
      /\ s.exceptions \subseteq Submitted
  BY ReconcileEffect DEF ControlInv, Unreconciled
<1>2. day \in Nat
  BY DEF Inv, TypeOK
<1>3. RequestFields \subseteq DOMAIN s.request
  BY ReconcileEffect DEF Inv, RecordInv, Unvalidated, Redacted
<1>4. t.request = s.request /\ t.vendor = s.vendor /\ t.order = s.order /\ t.history = s.history
  BY <1>1 DEF SameEvidence
<1>5. ASSUME IsBlocked(Stopping(s, day)) PROVE IsBlocked(t.exceptions)
  <2>1. Stopping(s, day) \subseteq found
    BY DEF Stopping, ReconcileExceptions
  <2> HIDE DEF found
  <2>2. IsBlocked(found)
    BY <1>5, <2>1 DEF IsBlocked
  <2> QED
    BY <1>1, <2>2, BlockedIsRecorded
<1>6. Stopping(t, day) = Stopping(s, day)
  BY <1>4 DEF Stopping
<1>7. ASSUME IsSettledDuplicate(s.request, s.history)
      PROVE  Fault("exact_match_to_settled_record") \in t.exceptions
  <2>1. Fault("exact_match_to_settled_record") \in found
    BY <1>3, <1>7, SameInvoice DEF ReconcileExceptions, DuplicateExceptions
  <2> HIDE DEF found
  <2> QED
    BY <1>1, <2>1 DEF Recorded, Submitted, Fault
<1>8. Notice(Late) \in t.exceptions <=> LatestRunBy(t.payableOn, day) = None
  <2>1. Notice(Late) \in found <=> Notice(Late) \in TermsExceptions(invoice, s.order, day)
    <3>1. Notice(Late).rule = Late
      BY DEF Notice
    <3> HIDE DEF invoice
    <3> QED
      BY <3>1, MatchIsNotLate, OthersAreNotLate DEF ReconcileExceptions
  <2>2. Notice(Late) \in t.exceptions <=> Notice(Late) \in found
    <3> HIDE DEF found
    <3> QED
      BY <1>1 DEF Recorded, Submitted, Notice, Fault, Late
  <2> QED
    BY <1>1, <2>1, <2>2, LateIsReported
<1>9. NeedsControlReview(s.vendor) => "risk flags" \in t.risks \/ "sanctions review" \in t.risks
  BY <1>1, ReviewIsARisk, Zenon
<1> QED
  BY <1>1, <1>2, <1>4, <1>5, <1>6, <1>7, <1>8, <1>9 DEF Judged

LEMMA ControlStep == Inv /\ ControlInv /\ [Next]_vars => ControlInv'
<1> SUFFICES ASSUME Inv, ControlInv, [Next]_vars PROVE ControlInv'
  OBVIOUS
<1> USE DEF ControlInv, Unreconciled, Unvalidated
<1>1. CASE Submit
  BY <1>1 DEF Submit, FreshCase
<1>2. CASE Intake
  <2>1. /\ run'.phase = "RETRIEVE_POLICY" /\ run'.payableOn = None
        /\ run'.exceptions = ValidityExceptions(run'.request, day)
    BY <1>2, IntakeEffect DEF Recorded
  <2> QED
    BY <2>1, ValidityRules
<1>3. CASE RetrievePolicy
  BY <1>3, RetrieveEffect DEF Quiet, SameEvidence, SameFindings
<1>4. CASE GatherEvidence
  BY <1>4, GatherEffect DEF SameFindings
<1>5. CASE Reconcile
  BY <1>5, ReconcileEffect, ReconcileJudges DEF Recorded, SameEvidence
<1>6. CASE AssessRisk \/ AssessmentFails
  BY <1>6, AssessEffect, JudgedKeeps DEF Quiet, SameEvidence, SameFindings
<1>7. CASE Recommend \/ NarrativeFails
  BY <1>7, RecommendEffect, JudgedKeeps DEF Quiet, SameEvidence, SameFindings, Concluding
<1>8. CASE run' = run
  BY <1>8
<1> QED
  BY <1>1, <1>2, <1>3, <1>4, <1>5, <1>6, <1>7, <1>8, Steps

THEOREM ControlsHold == Spec => []ControlInv
<1>1. Init => ControlInv
  BY DEF Init, ControlInv
<1> QED
  BY <1>1, ControlStep, InvHolds, PTL DEF Spec

-----------------------------------------------------------------------------
(* The payment proposed *)

\* The payment proposed is the last run that meets the terms, or the record says that none
\* does (assess_payment_terms).
THEOREM SchedulesMeetTerms == Spec => []ScheduleMeetsTerms
<1>1. Inv /\ ControlInv => ScheduleMeetsTerms
  <2> SUFFICES ASSUME Inv, ControlInv, run # None, run.payableOn # None
               PROVE  ScheduleMeetsTerms
    BY DEF ScheduleMeetsTerms
  <2> DEFINE today == run.reconciledOn
             invoice == ToInvoice(run.request, today)
  <2>1. run.phase \notin Unreconciled /\ Judged(run)
    BY DEF ControlInv
  <2>2. run.request = Redacted(world.request) /\ world \in Cases
    BY <2>1 DEF Inv, RecordInv, Unreconciled, Unvalidated
  <2>3. RequestFields \subseteq DOMAIN run.request /\ run.request.date = world.request.date
    BY <2>2, RedactedDate DEF Redacted
  <2>4. today \in Nat
    BY <2>1 DEF Judged
  <2>5. invoice.date \in Int
    BY <2>2, <2>3, <2>4, Derived, DatesAssumption
  <2>6. AgreedTerms(run.order) \in Int
    <3>1. run.order # None => run.order = world.order
      BY DEF Inv, TypeOK, Stored
    <3> QED
      BY <2>2, <3>1, DatesAssumption DEF AgreedTerms, DefaultTermsDays
  <2>7. /\ run.payableOn = PayableOn(invoice, run.order)
        /\ run.proposedRun = ProposedRun(invoice, run.order, today)
        /\ Notice(Late) \in run.exceptions <=> LatestRunBy(run.payableOn, today) = None
    BY <2>1 DEF Judged
  <2> HIDE DEF invoice, today
  <2>8. LET due  == DueDate(invoice, run.order)
            late == Notice(Late) \in run.exceptions
        IN  /\ run.payableOn \in (due - 2)..due /\ Weekday(run.payableOn) \notin {5, 6}
            /\ run.proposedRun = None => run.payableOn < today /\ late
            /\ run.proposedRun # None =>
                   /\ Weekday(run.proposedRun) \in {1, 3} /\ run.proposedRun >= today
                   /\ ~late => /\ run.proposedRun <= run.payableOn
                               /\ run.payableOn - run.proposedRun <= 4
                   /\ late => run.proposedRun > run.payableOn
    BY <2>4, <2>5, <2>6, <2>7, ProposalMeetsTerms
  <2> QED
    BY <2>8 DEF ScheduleMeetsTerms, Late, invoice, today
<1> QED
  BY <1>1, ControlsHold, InvHolds, PTL

-----------------------------------------------------------------------------
(* The recommendation *)

\* The run as RECOMMEND finds it.
LEMMA AtRecommend ==
    ASSUME Inv, ControlInv, run # None, run.phase = "RECOMMEND"
    PROVE  /\ Judged(run) /\ run.reconciledOn \in FirstDay..day /\ day \in Nat
           /\ run.request = Redacted(world.request)
           /\ RequestFields \subseteq DOMAIN run.request
           /\ run.history \subseteq world.history
<1>1. Judged(run) /\ run.request = Redacted(world.request)
  BY DEF ControlInv, Inv, RecordInv, Unreconciled, Unvalidated
<1>2. run.reconciledOn \in Nat
  BY <1>1 DEF Judged
<1>3. /\ run.reconciledOn \in {None} \cup FirstDay..day /\ day \in Nat
      /\ run.history \subseteq world.history
  BY DEF Inv, TypeOK, Stored
<1> QED
  BY <1>1, <1>2, <1>3 DEF Inv, Redacted

\* What stops the case today is on its record.
LEMMA StopsAreRecorded ==
    ASSUME Inv, ControlInv, run # None, run.phase = "RECOMMEND",
           IsBlocked(Stopping(run, day))
    PROVE  IsBlocked(run.exceptions)
<1> DEFINE i == ToInvoice(run.request, day)
           d == run.reconciledOn
           j == ToInvoice(run.request, d)
<1>1. MatchExceptions(i, run.order) = MatchExceptions(j, run.order)
  BY AtRecommend, Derived, SameMatch
<1>2. IsBlocked(DuplicateExceptions(i, run.history))
          => IsBlocked(DuplicateExceptions(j, run.history))
  BY AtRecommend, DuplicateBefore
<1>3. /\ VendorExceptions(run.vendor, i, run.history)
              = VendorExceptions(run.vendor, j, run.history)
      /\ SegregationExceptions(i, run.order) = SegregationExceptions(j, run.order)
  <2>1. i.name = j.name /\ i.gross = j.gross /\ i.requestedBy = j.requestedBy
    BY AtRecommend, Derived
  <2> HIDE DEF i, j
  <2> QED
    BY <2>1 DEF VendorExceptions, NameDiffers, SegregationExceptions, ThreeParties
<1>4. Stopping(run, day) = MatchExceptions(i, run.order)
          \cup DuplicateExceptions(i, run.history)
          \cup VendorExceptions(run.vendor, i, run.history)
          \cup InstructionExceptions(run.vendor, run.request.texts)
          \cup SegregationExceptions(i, run.order)
  BY DEF Stopping
<1>5. Stopping(run, d) = MatchExceptions(j, run.order)
          \cup DuplicateExceptions(j, run.history)
          \cup VendorExceptions(run.vendor, j, run.history)
          \cup InstructionExceptions(run.vendor, run.request.texts)
          \cup SegregationExceptions(j, run.order)
  BY DEF Stopping
<1> HIDE DEF i, j, d
<1>6. IsBlocked(Stopping(run, d))
  BY <1>1, <1>2, <1>3, <1>4, <1>5 DEF IsBlocked
<1> QED
  BY <1>6, AtRecommend DEF Judged, d

\* What counts at the end, besides the record, is checked again on the day.
LEMMA Computed ==
    ASSUME Inv, ControlInv, run # None, run.phase = "RECOMMEND"
    PROVE  ComputedOutcome(run) =
               IF Cardinality(run.indicators) >= 2 \/ NeedsControlReview(run.vendor)
               THEN "ESCALATE_CONTROL_REVIEW"
               ELSE IF IsSettledDuplicate(run.request, run.history) THEN "REJECT_DUPLICATE"
               ELSE IF run.invalid # {} THEN "REJECT_INVALID"
               ELSE IF IsBlocked(run.exceptions) THEN "HOLD_FOR_INFORMATION"
               ELSE "APPROVE_FOR_POSTING"
<1> DEFINE i == ToInvoice(run.request, day)
           found == MatchExceptions(i, run.order)
                        \cup DuplicateExceptions(i, run.history)
                        \cup VendorExceptions(run.vendor, i, run.history)
                        \cup run.exceptions
<1>1. IsSettledDuplicate(i, run.history) <=> IsSettledDuplicate(run.request, run.history)
  BY AtRecommend, SameInvoice
<1>2. IsBlocked(found) <=> IsBlocked(run.exceptions)
  <2>1. IsBlocked(found) => IsBlocked(Stopping(run, day)) \/ IsBlocked(run.exceptions)
    BY DEF IsBlocked, Stopping
  <2> QED
    BY <2>1, StopsAreRecorded DEF IsBlocked
<1>3. ComputedOutcome(run) =
          DecideOutcome(found, IsSettledDuplicate(i, run.history),
                        NeedsControlReview(run.vendor), run.indicators, run.invalid)
  BY DEF ComputedOutcome
<1> HIDE DEF found, i
<1> QED
  BY <1>1, <1>2, <1>3 DEF DecideOutcome, EscalationThreshold

\* Unless the model's suggestion is taken, the outcome is the computed one.
LEMMA Untightened ==
    ASSUME Inv, Recommend, ~run'.tightened
    PROVE  run'.outcome = ComputedOutcome(run)
<1>1. HasShape(run)
  BY Verdict, TypeIsStored DEF Inv
<1> PICK suggestion \in Outcomes \cup {None} : Concluded(RecommendOf(run, suggestion))
  BY DEF Recommend
<1> DEFINE t == RecommendOf(run, suggestion)
<1>2. /\ HasShape(t)
      /\ t.tightened = (suggestion # None /\ Tightens(suggestion, ComputedOutcome(run)))
      /\ t.outcome = IF suggestion # None /\ Tightens(suggestion, ComputedOutcome(run))
                     THEN suggestion ELSE ComputedOutcome(run)
  BY <1>1 DEF HasShape, FreshCase, RecommendOf
<1>3. run' = [t EXCEPT !.phase = AfterRecommend(t.outcome)]
  BY DEF Concluded
<1> HIDE DEF t
<1>4. run'.tightened = t.tightened /\ run'.outcome = t.outcome
  BY <1>2, <1>3, SavedFully
<1> QED
  BY <1>2, <1>4

\* A case that is not approved says why on its own record, on whatever day it is decided on
\* (recommend.run, decide_outcome).
THEOREM OutcomesAreExplained == Spec => []EveryOutcomeIsExplained
<1>1. Init => EveryOutcomeIsExplained
  BY DEF Init, EveryOutcomeIsExplained, Recommended
<1>2. Inv /\ ControlInv /\ EveryOutcomeIsExplained /\ [Next]_vars => EveryOutcomeIsExplained'
  <2> SUFFICES ASSUME Inv, ControlInv, EveryOutcomeIsExplained, [Next]_vars
               PROVE  EveryOutcomeIsExplained'
    OBVIOUS
  <2>1. CASE Recommend
    <3> SUFFICES ASSUME ~run'.tightened PROVE EveryOutcomeIsExplained'
      BY DEF EveryOutcomeIsExplained
    <3> PICK o : o = run'.outcome
      OBVIOUS
    <3>1. run # None /\ run.phase = "RECOMMEND" /\ o = ComputedOutcome(run)
      BY <2>1, RecommendEffect, Untightened
    <3>2. /\ run'.exceptions = run.exceptions /\ run'.risks = run.risks
          /\ run'.indicators = run.indicators /\ run'.invalid = run.invalid
      BY <2>1, RecommendEffect DEF Quiet, SameFindings
    <3>3. Judged(run)
      BY <3>1, AtRecommend
    <3>4. /\ o = "HOLD_FOR_INFORMATION" => IsBlocked(run.exceptions)
          /\ o = "REJECT_INVALID" => run.invalid # {}
          /\ o = "REJECT_DUPLICATE" => IsSettledDuplicate(run.request, run.history)
          /\ o = "ESCALATE_CONTROL_REVIEW" =>
                 Cardinality(run.indicators) >= 2 \/ NeedsControlReview(run.vendor)
      BY <3>1, Computed
    <3>5. /\ o = "REJECT_DUPLICATE" =>
                 Fault("exact_match_to_settled_record") \in run.exceptions
          /\ o = "ESCALATE_CONTROL_REVIEW" =>
                 \/ Cardinality(run.indicators) >= 2
                 \/ "risk flags" \in run.risks \/ "sanctions review" \in run.risks
      BY <3>3, <3>4, Zenon DEF Judged
    <3> QED
      BY <3>2, <3>4, <3>5, Zenon DEF EveryOutcomeIsExplained
  <2>2. CASE ~Recommend
    BY <2>2, VerdictsAreRecommended DEF EveryOutcomeIsExplained, Recommended
  <2> QED
    BY <2>1, <2>2
<1> QED
  BY <1>1, <1>2, ControlsHold, InvHolds, PTL DEF Spec

-----------------------------------------------------------------------------
(* What is approved *)

LEMMA CodesAreFinite == IsFiniteSet(Codes)
<1>1. \A x : IsFiniteSet({x})
  BY FS_Singleton
<1>2. \A S, x : IsFiniteSet(S) => IsFiniteSet(S \cup {x})
  BY FS_AddElement
<1>3. Codes = {"EMBEDDED_INSTRUCTION"} \cup {"URGENCY_OR_SECRECY"}
        \cup {"WEEKEND_MANUAL_PAYMENT"} \cup {"BANK_CHANGE_REQUESTED"}
        \cup {"REPEATED_ROUND_DOLLAR"} \cup {"BANK_DETAILS_RECENTLY_CHANGED"}
        \cup {"VENDOR_NAME_MISMATCH"} \cup {"PAYMENT_TO_NEW_COUNTRY"}
        \cup {"VENDOR_RISK_FLAG"}
  BY DEF Codes
<1> HIDE DEF Codes
<1> QED
  BY <1>1, <1>2, <1>3, Zenon

LEMMA FaultsBlock ==
    ASSUME NEW S, ~IsBlocked(S)
    PROVE  \A rule : Fault(rule) \notin S
  BY DEF IsBlocked, Fault

\* What a line passed when its rules raise nothing that blocks.
LEMMA LinePassed ==
    ASSUME NEW l, NEW o, ~IsBlocked(LineExceptions(l, o))
    PROVE  HasReceipt(o, l.poLine) /\ ~ (l.quantity > DeliveredQuantity(o, l.poLine))
<1>1. /\ Fault("line_receipt_recorded") \notin LineExceptions(l, o)
      /\ Fault("quantity_not_above_received") \notin LineExceptions(l, o)
  BY FaultsBlock
<1>2. HasReceipt(o, l.poLine)
  BY <1>1, Zenon DEF LineExceptions, When
<1>3. ~ (l.quantity > DeliveredQuantity(o, l.poLine))
  BY <1>1, <1>2, Zenon DEF LineExceptions, When
<1> QED
  BY <1>2, <1>3

\* What an order passed when matching raises nothing that blocks.
LEMMA MatchPassed ==
    ASSUME NEW i, NEW o, ~IsBlocked(MatchExceptions(i, o))
    PROVE  /\ o # None /\ o.approved
           /\ o.receipts # {} \/ \E n \in DOMAIN o.lines : Confirmed(o.lines[n])
           /\ (i.currency = o.currency /\ i.lines # <<>>) =>
                  \A k \in DOMAIN i.lines :
                      LET n == i.lines[k].poLine
                      IN  /\ Mapped(i.lines[k], o) /\ HasReceipt(o, n)
                          /\ ~ (i.lines[k].quantity > DeliveredQuantity(o, n))
<1>1. \A rule : Fault(rule) \notin MatchExceptions(i, o)
  BY FaultsBlock
<1>2. o # None
  BY <1>1, Zenon DEF MatchExceptions
<1>3. o.approved
  BY <1>1, <1>2, Zenon DEF MatchExceptions, When
<1>4. ~NothingReceived(o)
  BY <1>1, <1>2, Zenon DEF MatchExceptions, When
<1>5. ASSUME i.currency = o.currency, i.lines # <<>>
      PROVE  /\ Unmapped(i, o) = {}
             /\ \A k \in DOMAIN i.lines : ~IsBlocked(LineExceptions(i.lines[k], o))
  <2>1. LineLevel(i, o)
    BY <1>5 DEF LineLevel, SameCurrency
  <2>2. Unmapped(i, o) = {}
    BY <1>1, <1>2, <2>1, Zenon DEF MatchExceptions, When
  <2>3. \A k \in DOMAIN i.lines : LineExceptions(i.lines[k], o) \subseteq MatchExceptions(i, o)
    BY <1>2, <2>1, <2>2 DEF MatchExceptions, When
  <2> QED
    BY <2>2, <2>3 DEF IsBlocked
<1> QED
  BY <1>2, <1>3, <1>4, <1>5, LinePassed DEF NothingReceived, Unmapped

LEMMA VendorPassed ==
    ASSUME NEW v, NEW i, NEW h, ~IsBlocked(VendorExceptions(v, i, h)), ~NeedsControlReview(v)
    PROVE  /\ v # None /\ v.status = "ACTIVE" /\ ~v.onHold /\ ~v.flagged
           /\ v.bankChangedOn # None =>
                  \E g \in h : g.status \in SettledStatus /\ g.date >= v.bankChangedOn
<1>1. \A rule : Fault(rule) \notin VendorExceptions(v, i, h)
  BY FaultsBlock
<1>2. v # None
  BY <1>1, Zenon DEF VendorExceptions
<1>3. v.status = "ACTIVE" /\ ~v.onHold /\ ~AwaitingFirstPayment(v, h)
  BY <1>1, <1>2, Zenon DEF VendorExceptions, When
<1> QED
  BY <1>2, <1>3 DEF AwaitingFirstPayment, NeedsControlReview

LEMMA SegregationPassed ==
    ASSUME NEW i, NEW o, o # None, ~IsBlocked(SegregationExceptions(i, o)), ThreeParties(i)
    PROVE  \A r \in o.receipts : r.by = None \/ r.by # i.requestedBy
<1>1. \A rule : Fault(rule) \notin SegregationExceptions(i, o)
  BY FaultsBlock
<1>2. i.requestedBy \notin { r.by : r \in o.receipts } \ {None}
  BY <1>1, Zenon DEF SegregationExceptions, When, Receipters
<1> QED
  BY <1>2

\* An approval rests on every control, whichever phase looked at it and on whatever day
\* (decide_outcome, recommend.run).
THEOREM ApprovalsPassedEveryControl == Spec => []ApprovedPassedEveryControl
<1>1. Init => ApprovedPassedEveryControl
  BY DEF Init, ApprovedPassedEveryControl, Approved, Recommended
<1>2. Inv /\ IndicatorInv /\ GapInv /\ ControlInv /\ ApprovedPassedEveryControl /\ [Next]_vars
          => ApprovedPassedEveryControl'
  <2> SUFFICES ASSUME Inv, IndicatorInv, GapInv, ControlInv, ApprovedPassedEveryControl,
                      [Next]_vars
               PROVE  ApprovedPassedEveryControl'
    OBVIOUS
  <2>1. CASE Recommend
    <3> SUFFICES ASSUME run'.outcome = "APPROVE_FOR_POSTING"
                 PROVE  ApprovedPassedEveryControl'
      BY DEF ApprovedPassedEveryControl, Approved
    <3> PICK s : s = run
      OBVIOUS
    <3> DEFINE v == s.vendor
               o == s.order
               invoice == s.request
               i == ToInvoice(invoice, s.reconciledOn)
    <3>1. /\ run # None /\ run.phase = "RECOMMEND"
          /\ SameEvidence(s, run') /\ run'.indicators = s.indicators
          /\ run'.invalid = s.invalid
      BY <2>1, RecommendEffect DEF Quiet
    <3>2. ComputedOutcome(s) = "APPROVE_FOR_POSTING"
      <4>1. \A x \in Outcomes :
                Severity["APPROVE_FOR_POSTING"] >= Severity[x] => x = "APPROVE_FOR_POSTING"
        BY DEF Outcomes, Severity
      <4> QED
        BY <2>1, <4>1, Verdict, ComputedInOutcomes
    <3>3. /\ ~(Cardinality(s.indicators) >= 2) /\ ~NeedsControlReview(v)
          /\ ~IsSettledDuplicate(invoice, s.history)
          /\ s.invalid = {} /\ ~IsBlocked(s.exceptions)
      BY <3>1, <3>2, Computed
    <3>4. Judged(s) /\ RequestFields \subseteq DOMAIN invoice
      BY <3>1, AtRecommend
    <3>5. ~IsBlocked(Stopping(s, s.reconciledOn))
      BY <3>3, <3>4 DEF Judged
    <3>6. /\ ~IsBlocked(MatchExceptions(i, o)) /\ ~IsBlocked(DuplicateExceptions(i, s.history))
          /\ ~IsBlocked(VendorExceptions(v, i, s.history))
          /\ ~IsBlocked(InstructionExceptions(v, invoice.texts))
          /\ ~IsBlocked(SegregationExceptions(i, o))
      BY <3>5 DEF Stopping, IsBlocked
    <3>7. /\ i.vendor = invoice.vendor /\ i.reference = invoice.reference
          /\ i.gross = invoice.gross /\ i.lines = invoice.lines
          /\ i.currency = invoice.currency /\ i.requestedBy = invoice.requestedBy
      BY <3>4, Derived
    <3> HIDE DEF i
    <3>8. /\ v # None /\ v.status = "ACTIVE" /\ ~v.onHold /\ ~v.flagged
          /\ v.bankChangedOn # None =>
                 \E h \in s.history : h.status \in SettledStatus /\ h.date >= v.bankChangedOn
      BY <3>3, <3>6, VendorPassed
    <3>9. AssertedTails(invoice.texts) \subseteq {v.tail}
      BY <3>6, <3>8 DEF InstructionExceptions, IsBlocked, Fault, When
    <3>10. /\ o # None /\ o.approved
           /\ o.receipts # {} \/ \E n \in DOMAIN o.lines : Confirmed(o.lines[n])
           /\ invoice.currency = o.currency =>
                  \A k \in DOMAIN invoice.lines :
                      LET n == invoice.lines[k].poLine
                      IN  /\ Mapped(invoice.lines[k], o) /\ HasReceipt(o, n)
                          /\ ~ (invoice.lines[k].quantity > DeliveredQuantity(o, n))
      <4>1. CASE invoice.lines = <<>>
        BY <3>6, <4>1, MatchPassed
      <4>2. CASE invoice.lines # <<>>
        BY <3>6, <3>7, <4>2, MatchPassed
      <4> QED
        BY <4>1, <4>2
    <3>11. \A h \in s.history : h.reference = invoice.reference => h.status = "REJECTED"
      <4>1. \A h \in s.history : h.vendor = invoice.vendor
        BY <3>1 DEF GapInv, Ungathered
      <4>2. \A h \in s.history : ~IsProbable(i, h)
        BY <3>6 DEF DuplicateExceptions, IsBlocked, Fault, When
      <4> QED
        BY <3>7, <4>1, <4>2 DEF IsProbable
    <3>12. ThreeParties(i) => \A r \in o.receipts : r.by = None \/ r.by # invoice.requestedBy
      BY <3>6, <3>7, <3>10, SegregationPassed
    <3>13. ~IsCreditNote(invoice)
      BY <3>1, <3>3 DEF ControlInv, Unvalidated, IsBlocked, Fault
    <3>14. Cardinality(s.indicators) <= 1
      <4>1. IsFiniteSet(s.indicators)
        BY <3>1, CodesAreFinite, FS_Subset DEF IndicatorInv
      <4> QED
        BY <3>3, <4>1, FS_CardinalityType
    <3>15. /\ run'.vendor = v /\ run'.order = o /\ run'.history = s.history
           /\ run'.request = invoice /\ run'.indicators = s.indicators
           /\ run'.invalid = s.invalid
      BY <3>1 DEF SameEvidence
    <3> HIDE DEF v, o, invoice
    <3> QED
      BY <3>3, <3>7, <3>8, <3>9, <3>10, <3>11, <3>12, <3>13, <3>14, <3>15, SMTT(60)
      DEF ApprovedPassedEveryControl, ThreeParties
  <2>2. CASE ~Recommend
    BY <2>2, VerdictsAreRecommended DEF ApprovedPassedEveryControl, Approved, Recommended
  <2> QED
    BY <2>1, <2>2
<1> QED
  BY <1>1, <1>2, IndicatorsHold, GapsHold, ControlsHold, InvHolds, PTL DEF Spec

-----------------------------------------------------------------------------
(* Texts that are redacted *)

\* fraud_indicators misses no instruction in the texts it is given.
LEMMA InstructionFound ==
    ASSUME NEW i, NEW v, NEW texts, NEW h, NEW d, "INJECTION" \in Said(texts)
    PROVE  "EMBEDDED_INSTRUCTION" \in FraudIndicators(i, v, texts, h, d)
  BY DEF FraudIndicators, When

\* What a run read of its texts is on its record once ASSESS_RISK is done.
ReadInv ==
    (run # None /\ run.phase \notin Unassessed \cup {"FAILED"}) =>
        ("INJECTION" \in Said(run.request.texts) => "EMBEDDED_INSTRUCTION" \in run.indicators)

LEMMA ReadStep == Inv /\ ReadInv /\ [Next]_vars => ReadInv'
<1> SUFFICES ASSUME Inv, ReadInv, [Next]_vars PROVE ReadInv'
  OBVIOUS
<1> USE DEF ReadInv, Unassessed, Unreconciled
<1>1. CASE Submit
  BY <1>1 DEF Submit, FreshCase
<1>2. CASE Intake
  BY <1>2, IntakeEffect
<1>3. CASE RetrievePolicy
  BY <1>3, RetrieveEffect
<1>4. CASE GatherEvidence
  BY <1>4, GatherEffect
<1>5. CASE Reconcile
  BY <1>5, ReconcileEffect
<1>6. CASE AssessRisk \/ AssessmentFails
  <2> PICK found : found = FraudIndicators(ToInvoice(run.request, day), run.vendor,
                                           run.request.texts, run.history, day)
    OBVIOUS
  <2>1. run'.request = run.request /\ found \subseteq run'.indicators
    BY <1>6, AssessEffect DEF Quiet, SameEvidence
  <2>2. "INJECTION" \in Said(run.request.texts) => "EMBEDDED_INSTRUCTION" \in found
    BY InstructionFound
  <2> QED
    BY <2>1, <2>2
<1>7. CASE Recommend \/ NarrativeFails
  BY <1>7, RecommendEffect DEF Quiet, SameEvidence
<1>8. CASE run' = run
  BY <1>8
<1> QED
  BY <1>1, <1>2, <1>3, <1>4, <1>5, <1>6, <1>7, <1>8, Steps

\* Masked and cut, a text still says what it said in the part kept.
LEMMA KeptIsSaid ==
    ASSUME NEW r, "texts" \in DOMAIN r, \A t \in r.texts : "says" \in DOMAIN t
    PROVE  SaidInKept(r.texts) \subseteq Said(Redacted(r).texts)
<1>1. Redacted(r).texts = { RedactedText(t) : t \in r.texts }
  BY DEF Redacted
<1>2. \A t \in r.texts : t.says \ t.lost \subseteq RedactedText(t).says
  BY DEF RedactedText
<1> QED
  BY <1>1, <1>2 DEF Said, SaidInKept

\* For every set of cases, whatever their texts say, lose and gain: what both controls need
\* of a text survives its redaction, as long as it is not behind the characters kept.
THEOREM KeptTextsAreControlled ==
    ASSUME \A c \in Cases : \A t \in c.request.texts : "says" \in DOMAIN t
    PROVE  Spec => []KeptTextIsControlled
<1>1. Init => ReadInv
  BY DEF Init, ReadInv
<1>2. Inv /\ ReadInv /\ ApprovedPassedEveryControl => KeptTextIsControlled
  <2> SUFFICES ASSUME Inv, ReadInv, ApprovedPassedEveryControl, Recommended
               PROVE  KeptTextIsControlled
    BY DEF KeptTextIsControlled
  <2>1. run # None /\ run.phase \notin Unassessed \cup {"FAILED"}
    BY DEF Inv, RecordInv, Recommended, Undecided, ReadOnlyPhases, Unassessed, Unreconciled
  <2>2. run.request = Redacted(world.request)
    BY <2>1 DEF Inv, RecordInv, Unassessed, Unreconciled, Unvalidated
  <2>3. SaidInKept(world.request.texts) \subseteq Said(run.request.texts)
    BY <2>2, KeptIsSaid DEF Inv, RequestFields
  <2>4. "INJECTION" \in SaidInKept(world.request.texts) => "EMBEDDED_INSTRUCTION" \in run.indicators
    BY <2>1, <2>3 DEF ReadInv
  <2>5. Approved => /\ run.vendor # None
                    /\ AssertedTails(run.request.texts) \subseteq {run.vendor.tail}
    BY DEF ApprovedPassedEveryControl
  <2>6. SaidInKept(world.request.texts) \cap AccountTails \subseteq AssertedTails(run.request.texts)
    BY <2>3 DEF AssertedTails
  <2> QED
    BY <2>4, <2>5, <2>6 DEF KeptTextIsControlled
<1> QED
  BY <1>1, <1>2, ReadStep, InvHolds, ApprovalsPassedEveryControl, PTL DEF Spec

-----------------------------------------------------------------------------
(* Histories that were read *)

HistoryRead(s) == \A u \in s.unknowns : u.source # "check_invoice_history"

\* No vendor's invoice is approved a second time on a history that was read: of all the
\* systems hold of that vendor, under the invoice's reference there is only what was
\* rejected (check_duplicates, gather_evidence.run).
THEOREM ReadHistoriesRuleOutDuplicates ==
    Spec => [](Approved /\ HistoryRead(run) =>
                   \A h \in world.history :
                       (h.vendor = run.request.vendor /\ h.reference = run.request.reference)
                           => h.status = "REJECTED")
<1>1. GapsDisclosed /\ ApprovedPassedEveryControl =>
          (Approved /\ HistoryRead(run) =>
               \A h \in world.history :
                   (h.vendor = run.request.vendor /\ h.reference = run.request.reference)
                       => h.status = "REJECTED")
  BY DEF GapsDisclosed, ApprovedPassedEveryControl, Approved, HistoryRead
<1> QED
  BY <1>1, GapsAreDisclosed, ApprovalsPassedEveryControl, PTL

LEMMA GapSource ==
    ASSUME NEW item, NEW source, NEW u, u = Gap(item, source)
    PROVE  u.source = source
BY DEF Gap

\* A record with the gaps of G added to its unknowns.
With(s, G) == [s EXCEPT !.unknowns = @ \cup G]

\* Adding gaps of other sources to a record keeps it so.
LEMMA GapAdded ==
    ASSUME NEW s, HasShape(s), HistoryRead(s),
           NEW G, \A u \in G : u.source # "check_invoice_history"
    PROVE  HasShape(With(s, G)) /\ HistoryRead(With(s, G))
<1> PICK t : t = With(s, G)
  OBVIOUS
<1>1. HasShape(t) /\ t.unknowns = s.unknowns \cup G
  BY DEF With, HasShape, FreshCase
<1>2. HistoryRead(t)
  BY <1>1 DEF HistoryRead
<1> QED
  BY <1>1, <1>2

\* No handler but the lookup of the history reports that source.
LEMMA OtherSources ==
    ASSUME None # "check_invoice_history", NEW request, NEW v, NEW o
    PROVE  /\ \A u \in SubmissionGaps(request) : u.source # "check_invoice_history"
           /\ \A u \in VendorGaps(v) : u.source # "check_invoice_history"
           /\ \A u \in MatchGaps(request, o) : u.source # "check_invoice_history"
<1>1. ASSUME NEW u \in SubmissionGaps(request) PROVE u.source # "check_invoice_history"
  <2>1. u = Gap("invoice date", None) \/ u = Gap("invoice lines", None)
    BY <1>1, Zenon DEF SubmissionGaps, When
  <2>2. u.source = None
    BY <2>1, GapSource, Zenon
  <2> QED
    BY <2>2
<1>2. ASSUME NEW u \in VendorGaps(v) PROVE u.source # "check_invoice_history"
  <2>1. u = Gap("vendor status", "get_vendor_record")
    BY <1>2, Zenon DEF VendorGaps, When
  <2>2. u.source = "get_vendor_record"
    BY <2>1, GapSource, Zenon
  <2> QED
    BY <2>2
<1>3. ASSUME NEW u \in MatchGaps(request, o) PROVE u.source # "check_invoice_history"
  <2>1. \/ u = Gap("purchase-order lines", "get_purchase_order")
        \/ u = Gap("order currency equivalent", None)
        \/ u = Gap("receipt evidence", "get_purchase_order.receipts")
        \/ u = Gap("invoice lines", None) \/ u = Gap("document total variance", None)
    BY <1>3, Zenon DEF MatchGaps, OrderLinesGap, When
  <2>2. u.source \in {None, "get_purchase_order", "get_purchase_order.receipts"}
    BY <2>1, GapSource, Zenon
  <2> QED
    BY <2>2
<1> QED
  BY <1>1, <1>2, <1>3

LEMMA VendorLookupReads ==
    ASSUME NEW s, HasShape(s), HistoryRead(s), NEW answered
    PROVE  HasShape(VendorLookup(s, answered)) /\ HistoryRead(VendorLookup(s, answered))
<1> DEFINE found == IF answered THEN world.vendor ELSE None
           G == When(found = None, {Gap("vendor record", "get_vendor_record")})
<1> PICK t : t = [s EXCEPT !.vendor = IF answered THEN found ELSE @]
  OBVIOUS
<1>1. HasShape(t) /\ HistoryRead(t)
  BY DEF HasShape, FreshCase, HistoryRead
<1>2. VendorLookup(s, answered) = With(t, G)
  BY Zenon DEF VendorLookup, With
<1>3. \A u \in G : u.source = "get_vendor_record"
  BY GapSource, Zenon DEF When
<1> HIDE DEF G
<1>4. \A u \in G : u.source # "check_invoice_history"
  BY <1>3
<1> QED
  BY <1>1, <1>2, <1>4, GapAdded

LEMMA OrderLookupReads ==
    ASSUME NEW s, HasShape(s), HistoryRead(s), NEW answered
    PROVE  HasShape(OrderLookup(s, answered)) /\ HistoryRead(OrderLookup(s, answered))
<1>1. CASE s.request.po = None
  BY <1>1 DEF OrderLookup
<1>2. CASE s.request.po # None /\ answered
  <2> DEFINE G == When(world.order = None, {Gap("order", "get_purchase_order")})
  <2> PICK t : t = [s EXCEPT !.order = world.order]
    OBVIOUS
  <2>1. HasShape(t) /\ HistoryRead(t)
    BY DEF HasShape, FreshCase, HistoryRead
  <2>2. OrderLookup(s, answered) = With(t, G)
    BY <1>2, Zenon DEF OrderLookup, With
  <2>3. \A u \in G : u.source = "get_purchase_order"
    BY GapSource, Zenon DEF When
  <2> HIDE DEF G
  <2>4. \A u \in G : u.source # "check_invoice_history"
    BY <2>3
  <2> QED
    BY <2>1, <2>2, <2>4, GapAdded
<1>3. CASE s.request.po # None /\ ~answered
  <2> DEFINE G == {Gap("order unreachable", "get_purchase_order")}
  <2>1. OrderLookup(s, answered) = With(s, G)
    BY <1>3, Zenon DEF OrderLookup, With
  <2>2. \A u \in G : u.source = "get_purchase_order"
    BY GapSource, Zenon
  <2> HIDE DEF G
  <2>3. \A u \in G : u.source # "check_invoice_history"
    BY <2>2
  <2> QED
    BY <2>1, <2>3, GapAdded
<1> QED
  BY <1>1, <1>2, <1>3

HistoryReadInv == run # None => HistoryRead(run)

LEMMA HistoryReadStep ==
    ASSUME None # "check_invoice_history",
           \A c \in Cases : "check_invoice_history" \notin c.unreliable
    PROVE  Inv /\ HistoryReadInv /\ [Next]_vars => HistoryReadInv'
<1> SUFFICES ASSUME Inv, HistoryReadInv, [Next]_vars PROVE HistoryReadInv'
  OBVIOUS
<1>a. ASSUME NEW t, HasShape(t), HistoryRead(t), NEW p, run' = [t EXCEPT !.phase = p]
      PROVE  HistoryReadInv'
  <2>1. run'.unknowns = t.unknowns
    BY <1>a, SavedFully
  <2> QED
    BY <1>a, <2>1 DEF HistoryReadInv, HistoryRead
<1>b. run # None => HasShape(run) /\ HistoryRead(run)
  BY TypeIsStored DEF Inv, HistoryReadInv
<1>1. CASE Submit
  BY <1>1 DEF Submit, FreshCase, HistoryReadInv, HistoryRead
<1>2. CASE Intake
  <2> DEFINE t == IntakeOf(run)
  <2>1. HasShape(t) /\ t.unknowns = run.unknowns \cup SubmissionGaps(Redacted(run.request))
    BY <1>2, <1>b DEF Intake, In, HasShape, FreshCase, IntakeOf
  <2>2. HistoryRead(t)
    BY <1>2, <1>b, <2>1, OtherSources DEF Intake, In, HistoryRead
  <2>3. run' = [t EXCEPT !.phase = NextPhase[@]]
    BY <1>2 DEF Intake, Completed
  <2> HIDE DEF t
  <2> QED
    BY <1>a, <2>1, <2>2, <2>3
<1>3. CASE RetrievePolicy
  <2> PICK answered \in Answers : Completed(RetrievePolicyOf(run, answered))
    BY <1>3 DEF RetrievePolicy
  <2> DEFINE gaps == When("retrieve_finance_documents" \notin answered,
                          {Gap("policy citations", "retrieve_finance_documents")})
  <2>1. HasShape(run) /\ HistoryRead(run)
    BY <1>3, <1>b DEF RetrievePolicy, In
  <2>2. \A u \in gaps : u.source = "retrieve_finance_documents"
    BY GapSource, Zenon DEF When
  <2>4. RetrievePolicyOf(run, answered) = With(run, gaps)
    BY Zenon DEF RetrievePolicyOf, With
  <2> HIDE DEF gaps
  <2>3. \A u \in gaps : u.source # "check_invoice_history"
    BY <2>2
  <2> PICK t : t = RetrievePolicyOf(run, answered)
    OBVIOUS
  <2>5. HasShape(t) /\ HistoryRead(t)
    BY <2>1, <2>3, <2>4, GapAdded
  <2>6. run' = [t EXCEPT !.phase = NextPhase[@]]
    BY DEF Completed
  <2> QED
    BY <1>a, <2>5, <2>6
<1>4. CASE GatherEvidence
  <2> PICK answered \in Answers : Completed(GatherEvidenceOf(run, answered))
    BY <1>4 DEF GatherEvidence
  <2>0. run # None /\ "check_invoice_history" \in answered
    BY <1>4 DEF GatherEvidence, In, Answers, Lookups, Inv
  <2> DEFINE v == VendorLookup(run, "get_vendor_record" \in answered)
             o == OrderLookup(v, "get_purchase_order" \in answered)
             h == HistoryLookup(o, "check_invoice_history" \in answered)
             t == DocumentSearch(h, "retrieve_finance_documents" \in answered)
  <2>1. HasShape(v) /\ HistoryRead(v)
    BY <1>b, <2>0, VendorLookupReads
  <2> HIDE DEF v
  <2>2. HasShape(o) /\ HistoryRead(o)
    BY <2>1, OrderLookupReads
  <2> HIDE DEF o
  <2>3. HasShape(h) /\ HistoryRead(h)
    BY <2>0, <2>2 DEF HasShape, FreshCase, HistoryLookup, HistoryRead
  <2> HIDE DEF h
  <2>4. HasShape(t) /\ HistoryRead(t)
    BY <2>3 DEF HasShape, FreshCase, DocumentSearch, HistoryRead
  <2>5. run' = [t EXCEPT !.phase = NextPhase[@]]
    BY DEF Completed, GatherEvidenceOf, v, o, h
  <2> HIDE DEF t
  <2> QED
    BY <1>a, <2>4, <2>5
<1>5. CASE Reconcile
  <2> PICK invoice : invoice = ToInvoice(run.request, day)
    OBVIOUS
  <2>1. run # None /\ run'.unknowns \subseteq
            run.unknowns \cup VendorGaps(run.vendor) \cup MatchGaps(invoice, run.order)
    BY <1>5, ReconcileEffect
  <2> QED
    BY <1>b, <2>1, OtherSources DEF HistoryReadInv, HistoryRead
<1>6. CASE AssessRisk \/ AssessmentFails
  <2> DEFINE t == AssessRiskOf(run)
  <2>1. HasShape(t) /\ HistoryRead(t)
    BY <1>6, <1>b
    DEF AssessRisk, AssessmentFails, In, HasShape, FreshCase, AssessRiskOf, HistoryRead
  <2>2. run' = [t EXCEPT !.phase = NextPhase[@]] \/ run' = [t EXCEPT !.phase = "FAILED"]
    BY <1>6 DEF AssessRisk, AssessmentFails, Completed
  <2> HIDE DEF t
  <2> QED
    BY <1>a, <2>1, <2>2
<1>7. CASE Recommend
  <2> PICK suggestion \in Outcomes \cup {None} : Concluded(RecommendOf(run, suggestion))
    BY <1>7 DEF Recommend
  <2> DEFINE t == RecommendOf(run, suggestion)
  <2>1. HasShape(t) /\ HistoryRead(t)
    BY <1>7, <1>b DEF Recommend, In, HasShape, FreshCase, RecommendOf, HistoryRead
  <2>2. run' = [t EXCEPT !.phase = AfterRecommend(t.outcome)]
    BY DEF Concluded
  <2> HIDE DEF t
  <2> QED
    BY <1>a, <2>1, <2>2
<1>8. CASE NarrativeFails
  BY <1>8, <1>a, <1>b DEF NarrativeFails, In
<1>9. CASE run' = run
  BY <1>9 DEF HistoryReadInv, HistoryRead
<1> QED
  BY <1>1, <1>2, <1>3, <1>4, <1>5, <1>6, <1>7, <1>8, <1>9, Steps

\* Where the lookup of the history always answers, an approval does rest on every control
\* having been applied, as domain/rules/outcome.py:23 says: a history that could not be read
\* is all that refutes it.
THEOREM AnsweredHistoriesAreRead ==
    ASSUME None # "check_invoice_history",
           \A c \in Cases : "check_invoice_history" \notin c.unreliable
    PROVE  Spec => []ApprovedOnlyOnHistory
<1>1. Init => HistoryReadInv
  BY DEF Init, HistoryReadInv
<1>2. HistoryReadInv => ApprovedOnlyOnHistory
  BY DEF HistoryReadInv, HistoryRead, ApprovedOnlyOnHistory, Approved, Recommended
<1>3. Inv /\ HistoryReadInv /\ [Next]_vars => HistoryReadInv'
  BY HistoryReadStep
<1> QED
  BY <1>1, <1>2, <1>3, InvHolds, PTL DEF Spec
=============================================================================
