------------------------ MODULE CaseAssessmentProofs ------------------------
(***************************************************************************)
(* For every set of cases, whatever the controls find in them: what an     *)
(* assessment recommends is never looser than what it recorded.  The       *)
(* rules stay closed where a proof does not depend on what they say.       *)
(***************************************************************************)
EXTENDS CaseAssessment, TLAPS

USE CaseAssumption

-----------------------------------------------------------------------------
(* What the handlers leave alone, whatever the rules say *)

HasShape(s) == DOMAIN s = DOMAIN FreshCase(world.request)

\* The fields by which a phase finds what an earlier one concluded.
Kept(s, t) ==
    /\ HasShape(t)
    /\ t.phase = s.phase
    /\ t.outcome = s.outcome /\ t.second = s.second /\ t.tightened = s.tightened

Grown(s, t) ==
    /\ s.unknowns \subseteq t.unknowns
    /\ s.exceptions \subseteq t.exceptions
    /\ s.invalid \subseteq t.invalid
    /\ s.indicators \subseteq t.indicators

\* The days on which the run was validated and reconciled.
SameDates(s, t) ==
    t.validatedOn = s.validatedOn /\ t.reconciledOn = s.reconciledOn

\* What RECONCILE judges the risk of a case by.
SameEvidence(s, t) ==
    /\ t.request = s.request /\ t.vendor = s.vendor
    /\ t.order = s.order /\ t.history = s.history /\ t.chunks = s.chunks

LEMMA IntakeKeeps ==
    ASSUME NEW s, HasShape(s)
    PROVE  LET t == IntakeOf(s)
           IN  /\ Kept(s, t) /\ Grown(s, t)
               /\ t.request = Redacted(s.request)
               /\ t.vendor = s.vendor /\ t.order = s.order
               /\ t.history = s.history /\ t.chunks = s.chunks
               /\ t.validatedOn = day /\ t.reconciledOn = s.reconciledOn
               /\ InvalidReasons(Redacted(s.request), day) \subseteq t.invalid
  BY DEF HasShape, FreshCase, IntakeOf, Kept, Grown, Recorded

LEMMA RetrieveKeeps ==
    ASSUME NEW s, HasShape(s), NEW answered
    PROVE  LET t == RetrievePolicyOf(s, answered)
           IN  /\ Kept(s, t) /\ Grown(s, t) /\ SameEvidence(s, t) /\ SameDates(s, t)
  BY DEF HasShape, FreshCase, RetrievePolicyOf, Kept, Grown, SameEvidence, SameDates

LEMMA GatherKeeps ==
    ASSUME NEW s, HasShape(s), NEW answered
    PROVE  LET t == GatherEvidenceOf(s, answered)
           IN  /\ Kept(s, t) /\ Grown(s, t) /\ SameDates(s, t)
               /\ t.request = s.request
               /\ t.vendor \in {s.vendor, world.vendor}
               /\ t.order \in {s.order, world.order}
               /\ t.history \subseteq s.history \cup world.history
               /\ t.chunks \subseteq s.chunks \cup world.corpus
<1> DEFINE v == VendorLookup(s, "get_vendor_record" \in answered)
           o == OrderLookup(v, "get_purchase_order" \in answered)
           h == HistoryLookup(o, "check_invoice_history" \in answered)
           t == DocumentSearch(h, "retrieve_finance_documents" \in answered)
<1>1. /\ Kept(s, v) /\ Grown(s, v) /\ SameDates(s, v) /\ v.request = s.request
      /\ v.vendor \in {s.vendor, world.vendor}
      /\ v.order = s.order /\ v.history = s.history /\ v.chunks = s.chunks
  BY DEF HasShape, FreshCase, VendorLookup, Kept, Grown, SameDates
<1>2. /\ Kept(v, o) /\ Grown(v, o) /\ SameDates(v, o) /\ o.request = v.request
      /\ o.vendor = v.vendor
      /\ o.order \in {v.order, world.order} /\ o.history = v.history /\ o.chunks = v.chunks
  BY <1>1 DEF HasShape, FreshCase, OrderLookup, Kept, Grown, SameDates
<1>3. /\ Kept(o, h) /\ Grown(o, h) /\ SameDates(o, h) /\ h.request = o.request
      /\ h.vendor = o.vendor /\ h.order = o.order
      /\ h.history \subseteq o.history \cup world.history /\ h.chunks = o.chunks
  BY <1>2 DEF HasShape, FreshCase, HistoryLookup, Kept, Grown, SameDates
<1>4. /\ Kept(h, t) /\ Grown(h, t) /\ SameDates(h, t) /\ t.request = h.request
      /\ t.vendor = h.vendor /\ t.order = h.order /\ t.history = h.history
      /\ t.chunks \subseteq h.chunks \cup world.corpus
  BY <1>3 DEF HasShape, FreshCase, DocumentSearch, When, Kept, Grown, SameDates
<1>5. t = GatherEvidenceOf(s, answered)
  BY DEF GatherEvidenceOf
<1> HIDE DEF v, o, h, t
<1>6. Kept(s, t) /\ Grown(s, t) /\ SameDates(s, t)
  BY <1>1, <1>2, <1>3, <1>4 DEF Kept, Grown, SameDates
<1> QED
  BY <1>1, <1>2, <1>3, <1>4, <1>5, <1>6

LEMMA ReconcileKeeps ==
    ASSUME NEW s, HasShape(s)
    PROVE  LET t == ReconcileOf(s)
           IN  /\ Kept(s, t) /\ Grown(s, t) /\ SameEvidence(s, t)
               /\ t.validatedOn = s.validatedOn /\ t.reconciledOn = day
               /\ t.risks = VendorRisks(s.vendor, s.history, day)
                               \cup When(InstructionExceptions(s.vendor, s.request.texts) # {},
                                         {"instructions"})
  BY DEF HasShape, FreshCase, ReconcileOf, Kept, Grown, SameEvidence, Recorded

LEMMA AssessKeeps ==
    ASSUME NEW s, HasShape(s)
    PROVE  LET t == AssessRiskOf(s)
           IN  /\ Kept(s, t) /\ Grown(s, t) /\ SameEvidence(s, t) /\ SameDates(s, t)
               /\ t.risks = s.risks
  BY DEF HasShape, FreshCase, AssessRiskOf, Kept, Grown, SameEvidence, SameDates

LEMMA RecommendKeeps ==
    ASSUME NEW s, HasShape(s), NEW suggestion
    PROVE  LET t == RecommendOf(s, suggestion)
           IN  /\ HasShape(t) /\ t.phase = s.phase
               /\ Grown(s, t) /\ SameEvidence(s, t) /\ SameDates(s, t)
               /\ t.indicators = s.indicators /\ t.invalid = s.invalid
               /\ t.exceptions = s.exceptions
               /\ t.risks = s.risks
               /\ t.tightened \in BOOLEAN
               /\ t.second = (ApplicableRisks(s) # {})
  BY DEF HasShape, FreshCase, RecommendOf, Grown, SameEvidence, SameDates

-----------------------------------------------------------------------------
(* The outcome and the suggestion *)

LEMMA ComputedInOutcomes ==
    ASSUME NEW s
    PROVE  ComputedOutcome(s) \in Outcomes
  BY DEF ComputedOutcome, DecideOutcome, Outcomes

\* A suggestion never makes an outcome less severe.
LEMMA OnlyTightened ==
    ASSUME NEW s, HasShape(s), NEW suggestion \in Outcomes \cup {None}
    PROVE  LET t == RecommendOf(s, suggestion)
           IN  /\ t.outcome \in Outcomes
               /\ Severity[t.outcome] >= Severity[ComputedOutcome(s)]
<1>1. \A x \in Outcomes : Severity[x] \in Nat
  BY DEF Outcomes, Severity
<1>2. ComputedOutcome(s) \in Outcomes
  BY ComputedInOutcomes
<1> DEFINE c == ComputedOutcome(s)
<1>3. RecommendOf(s, suggestion).outcome =
          IF suggestion # None /\ Tightens(suggestion, c) THEN suggestion ELSE c
  BY DEF RecommendOf, HasShape, FreshCase
<1> HIDE DEF c
<1>4. CASE suggestion # None /\ Tightens(suggestion, c)
  BY <1>1, <1>2, <1>3, <1>4 DEF Tightens, c
<1>5. CASE ~(suggestion # None /\ Tightens(suggestion, c))
  BY <1>1, <1>2, <1>3, <1>5 DEF c
<1> QED
  BY <1>4, <1>5

-----------------------------------------------------------------------------
(* What holds of the stored run between any two phases *)

Unvalidated == {"INTAKE"}
Unreconciled == {"INTAKE", "RETRIEVE_POLICY", "GATHER_EVIDENCE", "RECONCILE"}
Undecided == ReadOnlyPhases \cup {"RECOMMEND", "FAILED"}

PostDated == world.request.date # None /\ world.request.date > run.validatedOn

\* What the risk of the case was on the day it was reconciled.
HigherRisk ==
    \/ VendorRisks(run.vendor, run.history, run.reconciledOn) # {}
    \/ InstructionExceptions(run.vendor, run.request.texts) # {}

\* A verdict is the last thing recorded; by then the run is validated and reconciled, and
\* what those phases found is still on it.
RecordInv ==
    run # None =>
        /\ run.phase \in Undecided => run.outcome = None
        /\ run.phase \in Unvalidated => run.request = world.request
        /\ run.phase \notin Unvalidated =>
               /\ run.request = Redacted(world.request)
               /\ run.validatedOn \in FirstDay..day
               /\ PostDated => "invoice_date_not_in_the_future" \in run.invalid
        /\ run.phase \notin Unreconciled => (HigherRisk => run.risks # {})

Inv == TypeOK /\ world \in Cases /\ RecordInv

-----------------------------------------------------------------------------
(* Each step *)

LEMMA InitOK == Init => Inv
  BY DEF Init, Inv, TypeOK, RecordInv

LEMMA SubmitOK == Inv /\ Submit => Inv'
<1> SUFFICES ASSUME Inv, Submit PROVE Inv'
  OBVIOUS
<1>1. TypeOK'
  BY DEF Inv, TypeOK, Submit, Stored, FreshCase, Phases, ReadOnlyPhases
<1>2. RecordInv'
  BY DEF Inv, Submit, RecordInv, FreshCase, Undecided, Unvalidated, Unreconciled
<1> QED
  BY <1>1, <1>2 DEF Inv, Submit

\* Saving a copy in its next phase changes nothing else.
LEMMA SavedAs ==
    ASSUME NEW t, HasShape(t), NEW p, NEW u, u = [t EXCEPT !.phase = p]
    PROVE  /\ HasShape(u) /\ u.phase = p
           /\ u.outcome = t.outcome /\ u.second = t.second /\ u.tightened = t.tightened
           /\ Grown(t, u) /\ SameDates(t, u) /\ SameEvidence(t, u)
           /\ u.risks = t.risks
           /\ u.invalid = t.invalid /\ u.indicators = t.indicators
           /\ u.exceptions = t.exceptions
  BY DEF HasShape, FreshCase, Grown, SameDates, SameEvidence

LEMMA TypeIsStored == TypeOK /\ run # None => Stored(run) /\ HasShape(run)
  BY DEF TypeOK, Stored, HasShape

\* Masking the texts of a request leaves its date.
LEMMA RedactedDate ==
    ASSUME NEW r, RequestFields \subseteq DOMAIN r
    PROVE  Redacted(r).date = r.date
  BY DEF Redacted, RequestFields

\* A date still to come is among the reasons INTAKE finds.
LEMMA PostDatedFound ==
    ASSUME NEW r, RequestFields \subseteq DOMAIN r, NEW d, r.date # None, r.date > d
    PROVE  "invoice_date_not_in_the_future" \in InvalidReasons(Redacted(r), d)
  BY RedactedDate DEF InvalidReasons, IsPostDated, When

LEMMA IntakeOK == Inv /\ Intake => Inv' /\ run'.outcome = None
<1> SUFFICES ASSUME Inv, Intake PROVE Inv' /\ run'.outcome = None
  OBVIOUS
<1> DEFINE t == IntakeOf(run)
<1>1. /\ run # None /\ run.phase = "INTAKE" /\ run' = [t EXCEPT !.phase = NextPhase[@]]
      /\ UNCHANGED <<day, world>>
      /\ run.request = world.request /\ run.outcome = None
  BY DEF Inv, Intake, In, Completed, RecordInv, Undecided, Unvalidated, ReadOnlyPhases
<1>2. Stored(run) /\ HasShape(run)
  BY <1>1, TypeIsStored DEF Inv
<1>3. /\ Kept(run, t) /\ t.request = Redacted(world.request)
      /\ t.vendor = run.vendor /\ t.order = run.order
      /\ t.history = run.history /\ t.chunks = run.chunks
      /\ t.validatedOn = day /\ t.reconciledOn = run.reconciledOn
      /\ InvalidReasons(Redacted(world.request), day) \subseteq t.invalid
  BY <1>1, <1>2, IntakeKeeps
<1> HIDE DEF t
<1>4. run' = [t EXCEPT !.phase = "RETRIEVE_POLICY"]
  BY <1>1, <1>3 DEF Kept, NextPhase
<1>5. /\ run'.phase = "RETRIEVE_POLICY" /\ run'.outcome = None
      /\ SameDates(t, run') /\ SameEvidence(t, run') /\ run'.invalid = t.invalid
      /\ run'.second = t.second /\ run'.tightened = t.tightened
      /\ HasShape(run')
  <2>1. HasShape(t) /\ t.outcome = None
    BY <1>1, <1>3 DEF Kept
  <2> QED
    BY <1>4, <2>1, SavedAs
<1>6. TypeOK'
  <2>1. Stored(run)'
    BY <1>1, <1>2, <1>3, <1>5
    DEF Inv, TypeOK, Stored, SameDates, SameEvidence, HasShape, Kept, Phases, ReadOnlyPhases
  <2> QED
    BY <1>1, <2>1 DEF Inv, TypeOK
<1>7. PostDated' => "invoice_date_not_in_the_future" \in run'.invalid
  BY <1>1, <1>3, <1>5, PostDatedFound DEF PostDated, Inv, SameDates
<1>8. RecordInv'
  BY <1>1, <1>3, <1>5, <1>7
  DEF Inv, TypeOK, RecordInv, Undecided, Unvalidated, Unreconciled, SameDates, SameEvidence
<1> QED
  BY <1>1, <1>5, <1>6, <1>8 DEF Inv

\* Before RECONCILE a step only has to leave what INTAKE validated.
LEMMA RetrievePolicyOK == Inv /\ RetrievePolicy => Inv' /\ run'.outcome = None
<1> SUFFICES ASSUME Inv, RetrievePolicy PROVE Inv' /\ run'.outcome = None
  OBVIOUS
<1>1. run # None /\ run.phase = "RETRIEVE_POLICY" /\ UNCHANGED <<day, world>>
  BY DEF RetrievePolicy, In
<1>2. Stored(run) /\ HasShape(run)
  BY <1>1, TypeIsStored DEF Inv
<1> PICK answered \in Answers : Completed(RetrievePolicyOf(run, answered))
  BY DEF RetrievePolicy
<1> DEFINE t == RetrievePolicyOf(run, answered)
<1>3. Kept(run, t) /\ Grown(run, t) /\ SameEvidence(run, t) /\ SameDates(run, t)
  BY <1>2, RetrieveKeeps
<1>4. run' = [t EXCEPT !.phase = NextPhase[@]]
  BY DEF Completed
<1> HIDE DEF t
<1>5. run' = [t EXCEPT !.phase = "GATHER_EVIDENCE"]
  BY <1>1, <1>3, <1>4 DEF Kept, NextPhase
<1>6. /\ run'.phase = "GATHER_EVIDENCE" /\ run'.outcome = run.outcome
      /\ SameDates(t, run') /\ SameEvidence(t, run') /\ Grown(t, run')
      /\ run'.second = run.second /\ run'.tightened = run.tightened
      /\ HasShape(run')
  BY <1>3, <1>5, SavedAs DEF Kept
<1>7. Stored(run)'
  BY <1>1, <1>2, <1>3, <1>6
  DEF Stored, SameDates, SameEvidence, HasShape, Phases, ReadOnlyPhases
<1>8. RecordInv'
  BY <1>1, <1>3, <1>6
  DEF Inv, RecordInv, PostDated, Undecided, Unvalidated, Unreconciled, ReadOnlyPhases,
      SameDates, SameEvidence, Grown
<1> QED
  BY <1>1, <1>6, <1>7, <1>8 DEF Inv, TypeOK, RecordInv, Undecided, ReadOnlyPhases

LEMMA GatherEvidenceOK == Inv /\ GatherEvidence => Inv' /\ run'.outcome = None
<1> SUFFICES ASSUME Inv, GatherEvidence PROVE Inv' /\ run'.outcome = None
  OBVIOUS
<1>1. run # None /\ run.phase = "GATHER_EVIDENCE" /\ UNCHANGED <<day, world>>
  BY DEF GatherEvidence, In
<1>2. Stored(run) /\ HasShape(run)
  BY <1>1, TypeIsStored DEF Inv
<1> PICK answered \in Answers : Completed(GatherEvidenceOf(run, answered))
  BY DEF GatherEvidence
<1> DEFINE t == GatherEvidenceOf(run, answered)
<1>3. /\ Kept(run, t) /\ Grown(run, t) /\ SameDates(run, t) /\ t.request = run.request
      /\ t.vendor \in {run.vendor, world.vendor} /\ t.order \in {run.order, world.order}
      /\ t.history \subseteq run.history \cup world.history
      /\ t.chunks \subseteq run.chunks \cup world.corpus
  BY <1>2, GatherKeeps
<1>4. run' = [t EXCEPT !.phase = NextPhase[@]]
  BY DEF Completed
<1> HIDE DEF t
<1>5. run' = [t EXCEPT !.phase = "RECONCILE"]
  BY <1>1, <1>3, <1>4 DEF Kept, NextPhase
<1>6. /\ run'.phase = "RECONCILE" /\ run'.outcome = run.outcome
      /\ SameDates(t, run') /\ SameEvidence(t, run') /\ Grown(t, run')
      /\ run'.second = run.second /\ run'.tightened = run.tightened
      /\ HasShape(run')
  BY <1>3, <1>5, SavedAs DEF Kept
<1>7. Stored(run)'
  BY <1>1, <1>2, <1>3, <1>6
  DEF Stored, SameDates, SameEvidence, HasShape, Phases, ReadOnlyPhases
<1>8. RecordInv'
  BY <1>1, <1>3, <1>6
  DEF Inv, RecordInv, PostDated, Undecided, Unvalidated, Unreconciled, ReadOnlyPhases,
      SameDates, SameEvidence, Grown
<1> QED
  BY <1>1, <1>6, <1>7, <1>8 DEF Inv, TypeOK, RecordInv, Undecided, ReadOnlyPhases

\* Where a case is higher-risk today, the reasons are recorded today.
LEMMA ReconcileOK == Inv /\ Reconcile => Inv' /\ run'.outcome = None
<1> SUFFICES ASSUME Inv, Reconcile PROVE Inv' /\ run'.outcome = None
  OBVIOUS
<1>1. run # None /\ run.phase = "RECONCILE" /\ UNCHANGED <<day, world>>
  BY DEF Reconcile, In
<1>2. Stored(run) /\ HasShape(run)
  BY <1>1, TypeIsStored DEF Inv
<1> DEFINE t == ReconcileOf(run)
<1>3. /\ Kept(run, t) /\ Grown(run, t) /\ SameEvidence(run, t)
      /\ t.validatedOn = run.validatedOn /\ t.reconciledOn = day
      /\ t.risks = VendorRisks(run.vendor, run.history, day)
                      \cup When(InstructionExceptions(run.vendor, run.request.texts) # {},
                                {"instructions"})
  BY <1>2, ReconcileKeeps
<1>4. run' = [t EXCEPT !.phase = NextPhase[@]]
  BY DEF Completed, Reconcile
<1> HIDE DEF t
<1>5. run' = [t EXCEPT !.phase = "ASSESS_RISK"]
  BY <1>1, <1>3, <1>4 DEF Kept, NextPhase
<1>6. /\ run'.phase = "ASSESS_RISK" /\ run'.outcome = run.outcome
      /\ SameDates(t, run') /\ SameEvidence(t, run') /\ Grown(t, run')
      /\ run'.second = run.second /\ run'.tightened = run.tightened
      /\ run'.risks = t.risks
      /\ HasShape(run')
  BY <1>3, <1>5, SavedAs DEF Kept
<1>7. Stored(run)'
  BY <1>1, <1>2, <1>3, <1>6
  DEF Inv, TypeOK, Stored, SameDates, SameEvidence, HasShape, Phases, ReadOnlyPhases
<1>8. HigherRisk' => run'.risks # {}
  BY <1>1, <1>3, <1>6 DEF HigherRisk, When, SameDates, SameEvidence
<1>9. RecordInv'
  BY <1>1, <1>3, <1>6, <1>8
  DEF Inv, RecordInv, PostDated, Undecided, Unvalidated, Unreconciled, ReadOnlyPhases,
      SameDates, SameEvidence, Grown
<1> QED
  BY <1>1, <1>6, <1>7, <1>9 DEF Inv, TypeOK, RecordInv, Undecided, ReadOnlyPhases

\* With the model's answer or without it, the evidence and the risks stay.
LEMMA AssessOK == Inv /\ (AssessRisk \/ AssessmentFails) => Inv' /\ run'.outcome = None
<1> SUFFICES ASSUME Inv, AssessRisk \/ AssessmentFails PROVE Inv' /\ run'.outcome = None
  OBVIOUS
<1>1. run # None /\ run.phase = "ASSESS_RISK" /\ UNCHANGED <<day, world>>
  BY DEF AssessRisk, AssessmentFails, In
<1>2. Stored(run) /\ HasShape(run)
  BY <1>1, TypeIsStored DEF Inv
<1> DEFINE t == AssessRiskOf(run)
<1>3. /\ Kept(run, t) /\ Grown(run, t) /\ SameEvidence(run, t) /\ SameDates(run, t)
      /\ t.risks = run.risks
  BY <1>2, AssessKeeps
<1>4. \E p : run' = [t EXCEPT !.phase = p] /\ p \in {"RECOMMEND", "FAILED"}
  <2>1. CASE AssessRisk
    <3>1. run' = [t EXCEPT !.phase = NextPhase[@]]
      BY <2>1 DEF AssessRisk, Completed
    <3> HIDE DEF t
    <3> QED
      BY <1>1, <1>3, <3>1 DEF Kept, NextPhase
  <2>2. CASE AssessmentFails
    BY <2>2 DEF AssessmentFails
  <2> QED
    BY <2>1, <2>2
<1> HIDE DEF t
<1>5. /\ run'.phase \in {"RECOMMEND", "FAILED"} /\ run'.outcome = run.outcome
      /\ SameDates(t, run') /\ SameEvidence(t, run') /\ Grown(t, run')
      /\ run'.second = run.second /\ run'.tightened = run.tightened
      /\ run'.risks = t.risks
      /\ HasShape(run')
  BY <1>3, <1>4, SavedAs DEF Kept
<1>6. Stored(run)'
  BY <1>1, <1>2, <1>3, <1>5
  DEF Stored, SameDates, SameEvidence, HasShape, Phases, ReadOnlyPhases, TerminalPhases
<1>7. RecordInv'
  BY <1>1, <1>3, <1>5
  DEF Inv, RecordInv, PostDated, HigherRisk, Undecided, Unvalidated, Unreconciled,
      ReadOnlyPhases, SameDates, SameEvidence, Grown
<1> QED
  BY <1>1, <1>5, <1>6, <1>7 DEF Inv, TypeOK, RecordInv, Undecided, ReadOnlyPhases

\* What RECOMMEND does, apart from what the controls find: at least as severe as computed.
LEMMA Verdict ==
    ASSUME Inv, Recommend
    PROVE  /\ run # None /\ run.phase = "RECOMMEND" /\ UNCHANGED <<day, world>>
           /\ run'.phase \in {"AWAITING_APPROVAL", "HELD"}
           /\ run'.outcome \in Outcomes
           /\ Severity[run'.outcome] >= Severity[ComputedOutcome(run)]
           /\ run'.second = (ApplicableRisks(run) # {}) /\ run'.tightened \in BOOLEAN
           /\ Grown(run, run') /\ SameEvidence(run, run') /\ SameDates(run, run')
           /\ run'.indicators = run.indicators /\ run'.invalid = run.invalid
           /\ run'.risks = run.risks
           /\ HasShape(run')
<1>1. run # None /\ run.phase = "RECOMMEND" /\ UNCHANGED <<day, world>>
  BY DEF Recommend, In
<1>2. HasShape(run)
  BY <1>1, TypeIsStored DEF Inv
<1> PICK suggestion \in Outcomes \cup {None} : Concluded(RecommendOf(run, suggestion))
  BY DEF Recommend
<1> DEFINE t == RecommendOf(run, suggestion)
<1>3. /\ HasShape(t) /\ Grown(run, t) /\ SameEvidence(run, t) /\ SameDates(run, t)
      /\ t.indicators = run.indicators /\ t.invalid = run.invalid
      /\ t.risks = run.risks /\ t.tightened \in BOOLEAN
      /\ t.second = (ApplicableRisks(run) # {})
  BY <1>2, RecommendKeeps
<1>4. t.outcome \in Outcomes /\ Severity[t.outcome] >= Severity[ComputedOutcome(run)]
  BY <1>2, OnlyTightened
<1>5. run' = [t EXCEPT !.phase = AfterRecommend(t.outcome)]
  BY DEF Concluded
<1> HIDE DEF t
<1>6. AfterRecommend(t.outcome) \in {"AWAITING_APPROVAL", "HELD"}
  BY DEF AfterRecommend
<1>7. /\ run'.phase \in {"AWAITING_APPROVAL", "HELD"} /\ run'.outcome = t.outcome
      /\ SameDates(t, run') /\ SameEvidence(t, run') /\ Grown(t, run')
      /\ run'.second = t.second /\ run'.tightened = t.tightened
      /\ run'.indicators = t.indicators /\ run'.invalid = t.invalid
      /\ run'.risks = t.risks
      /\ HasShape(run')
  BY <1>3, <1>5, <1>6, SavedAs
<1>8. Grown(run, run') /\ SameEvidence(run, run') /\ SameDates(run, run')
  BY <1>3, <1>7 DEF Grown, SameEvidence, SameDates
<1> QED
  BY <1>1, <1>3, <1>4, <1>7, <1>8

LEMMA RecommendOK == Inv /\ Recommend => Inv'
<1> SUFFICES ASSUME Inv, Recommend PROVE Inv'
  OBVIOUS
<1>1. Stored(run)
  BY Verdict, TypeIsStored DEF Inv
<1>2. Stored(run)'
  BY <1>1, Verdict
  DEF Stored, SameDates, SameEvidence, HasShape, Phases, TerminalPhases
<1>3. RecordInv'
  BY Verdict
  DEF Inv, RecordInv, PostDated, HigherRisk, Undecided, Unvalidated, Unreconciled,
      ReadOnlyPhases, SameDates, SameEvidence, Grown
<1> QED
  BY <1>2, <1>3, Verdict DEF Inv, TypeOK

LEMMA NarrativeFailsOK == Inv /\ NarrativeFails => Inv' /\ run'.outcome = None
<1> SUFFICES ASSUME Inv, NarrativeFails PROVE Inv' /\ run'.outcome = None
  OBVIOUS
<1>1. /\ run # None /\ run.phase = "RECOMMEND" /\ UNCHANGED <<day, world>>
      /\ run' = [run EXCEPT !.phase = "FAILED"]
  BY DEF NarrativeFails, In
<1>2. Stored(run) /\ HasShape(run)
  BY <1>1, TypeIsStored DEF Inv
<1>3. /\ run'.phase = "FAILED" /\ run'.outcome = run.outcome
      /\ SameDates(run, run') /\ SameEvidence(run, run') /\ Grown(run, run')
      /\ run'.second = run.second /\ run'.tightened = run.tightened
      /\ run'.risks = run.risks
      /\ HasShape(run')
  BY <1>1, <1>2, SavedAs
<1>4. Stored(run)'
  BY <1>1, <1>2, <1>3
  DEF Stored, SameDates, SameEvidence, HasShape, Phases, TerminalPhases
<1>5. RecordInv'
  BY <1>1, <1>3
  DEF Inv, RecordInv, PostDated, HigherRisk, Undecided, Unvalidated, Unreconciled,
      ReadOnlyPhases, SameDates, SameEvidence, Grown
<1> QED
  BY <1>1, <1>3, <1>4, <1>5 DEF Inv, TypeOK, RecordInv, Undecided

LEMMA TickOK == Inv /\ Tick => Inv'
<1> SUFFICES ASSUME Inv, Tick PROVE Inv'
  OBVIOUS
<1>1. /\ day \in FirstDay..LastDay /\ day < LastDay /\ day' = day + 1
      /\ world' = world /\ run' = run
  BY DEF Inv, TypeOK, Tick
<1>2. day' \in FirstDay..LastDay /\ FirstDay..day \subseteq FirstDay..day'
  BY <1>1
<1>3. run # None => Stored(run)'
  BY <1>1, <1>2 DEF Inv, TypeOK, Stored, FreshCase
<1>4. RecordInv'
  BY <1>1, <1>2 DEF Inv, RecordInv, PostDated, HigherRisk
<1> QED
  BY <1>1, <1>2, <1>3, <1>4 DEF Inv, TypeOK

LEMMA StutterOK == Inv /\ UNCHANGED vars => Inv'
  BY DEF Inv, TypeOK, Stored, FreshCase, RecordInv, PostDated, HigherRisk, vars

THEOREM InvHolds == Spec => []Inv
<1>1. Inv /\ [Next]_vars => Inv'
  BY SubmitOK, IntakeOK, RetrievePolicyOK, GatherEvidenceOK, ReconcileOK, AssessOK,
     RecommendOK, NarrativeFailsOK, TickOK, StutterOK DEF Next
<1> QED
  BY <1>1, InitOK, PTL DEF Spec

\* The stored run has the shape the repository gives it, and its evidence is the case's.
THEOREM TypeCorrect == Spec => []TypeOK
<1>1. Inv => TypeOK
  BY DEF Inv
<1> QED
  BY <1>1, InvHolds, PTL

-----------------------------------------------------------------------------
(* What a recommendation promises *)

\* Every verdict is RECOMMEND's: any other step leaves none, or the run as it is.
LEMMA VerdictsAreRecommended ==
    ASSUME Inv, [Next]_vars
    PROVE  \/ Recommend
           \/ run' = None
           \/ run'.outcome = None
           \/ run' = run /\ world' = world
<1>1. Submit => run'.outcome = None
  BY DEF Submit, FreshCase
<1> QED
  BY <1>1, IntakeOK, RetrievePolicyOK, GatherEvidenceOK, ReconcileOK, AssessOK, NarrativeFailsOK
  DEF Next, Tick, vars

LEMMA EscalationComputed ==
    ASSUME NEW s,
           \/ Cardinality(s.indicators) >= 2
           \/ s.vendor # None /\ (s.vendor.flagged \/ s.vendor.status = "SANCTIONS_REVIEW")
    PROVE  ComputedOutcome(s) = "ESCALATE_CONTROL_REVIEW"
  BY DEF ComputedOutcome, DecideOutcome, NeedsControlReview, EscalationThreshold

\* Two indicators, a risk flag or a sanctions review escalate every case, whatever the
\* model suggests (decide_outcome, tightens).
THEOREM Escalates == Spec => []EscalationSticks
<1>1. Init => EscalationSticks
  BY DEF Init, EscalationSticks, Recommended
<1>2. Inv /\ EscalationSticks /\ [Next]_vars => EscalationSticks'
  <2> SUFFICES ASSUME Inv, EscalationSticks, [Next]_vars PROVE EscalationSticks'
    OBVIOUS
  <2>1. CASE Recommend
    <3>1. \/ Cardinality(run.indicators) >= 2
          \/ run.vendor # None /\ (run.vendor.flagged \/ run.vendor.status = "SANCTIONS_REVIEW")
          => ComputedOutcome(run) = "ESCALATE_CONTROL_REVIEW"
      BY EscalationComputed
    <3>2. \A x \in Outcomes : Severity[x] >= Severity["ESCALATE_CONTROL_REVIEW"]
                                 => x = "ESCALATE_CONTROL_REVIEW"
      BY DEF Outcomes, Severity
    <3> QED
      BY <2>1, <3>1, <3>2, Verdict DEF EscalationSticks, SameEvidence
  <2>2. CASE ~Recommend
    BY <2>2, VerdictsAreRecommended DEF EscalationSticks, Recommended
  <2> QED
    BY <2>1, <2>2
<1> QED
  BY <1>1, <1>2, InvHolds, PTL DEF Spec

\* Deriving what a request leaves out does not touch what identifies the invoice.
LEMMA SameInvoice ==
    ASSUME NEW r, RequestFields \subseteq DOMAIN r, NEW d, NEW h
    PROVE  IsSettledDuplicate(ToInvoice(r, d), h) <=> IsSettledDuplicate(r, h)
<1> DEFINE i == ToInvoice(r, d)
<1>1. /\ i.vendor = r.vendor /\ i.reference = r.reference
      /\ i.currency = r.currency /\ i.gross = r.gross
  BY DEF ToInvoice, RequestFields
<1> HIDE DEF i
<1> QED
  BY <1>1 DEF IsSettledDuplicate, IsExact, i

\* An invoice on record as paid or posted is rejected or escalated, never held or approved
\* (decide_outcome, duplicate_check).
THEOREM SettledDuplicates == Spec => []SettledDuplicateNeverHeld
<1>1. Init => SettledDuplicateNeverHeld
  BY DEF Init, SettledDuplicateNeverHeld, Recommended
<1>2. Inv /\ SettledDuplicateNeverHeld /\ [Next]_vars => SettledDuplicateNeverHeld'
  <2> SUFFICES ASSUME Inv, SettledDuplicateNeverHeld, [Next]_vars
               PROVE  SettledDuplicateNeverHeld'
    OBVIOUS
  <2>1. CASE Recommend
    <3>1. run.request = Redacted(world.request) /\ world \in Cases
      BY <2>1, Verdict DEF Inv, RecordInv, Unvalidated
    <3>2. RequestFields \subseteq DOMAIN run.request
      BY <3>1 DEF Redacted
    <3>3. IsSettledDuplicate(run.request, run.history)
              => ComputedOutcome(run) \in {"REJECT_DUPLICATE", "ESCALATE_CONTROL_REVIEW"}
      BY <3>2, SameInvoice DEF ComputedOutcome, DecideOutcome
    <3>4. \A x \in Outcomes, c \in {"REJECT_DUPLICATE", "ESCALATE_CONTROL_REVIEW"} :
              Severity[x] >= Severity[c]
                  => x \in {"REJECT_DUPLICATE", "ESCALATE_CONTROL_REVIEW"}
      BY DEF Outcomes, Severity
    <3> QED
      BY <2>1, <3>3, <3>4, Verdict DEF SettledDuplicateNeverHeld, SameEvidence
  <2>2. CASE ~Recommend
    BY <2>2, VerdictsAreRecommended DEF SettledDuplicateNeverHeld, Recommended
  <2> QED
    BY <2>1, <2>2
<1> QED
  BY <1>1, <1>2, InvHolds, PTL DEF Spec

\* A submission dated in the future is never held or approved, though its day may have come
\* by the time it is decided on (check_invoice_validity, recommend.run).
THEOREM PostDatedSticks == Spec => []PostDatedNeverHeldOrApproved
<1>1. Init => PostDatedNeverHeldOrApproved
  BY DEF Init, PostDatedNeverHeldOrApproved, Recommended
<1>2. Inv /\ PostDatedNeverHeldOrApproved /\ [Next]_vars => PostDatedNeverHeldOrApproved'
  <2> SUFFICES ASSUME Inv, PostDatedNeverHeldOrApproved, [Next]_vars
               PROVE  PostDatedNeverHeldOrApproved'
    OBVIOUS
  <2> DEFINE Refused == {"REJECT_INVALID", "REJECT_DUPLICATE", "ESCALATE_CONTROL_REVIEW"}
  <2>1. CASE Recommend
    <3>1. PostDated => run.invalid # {}
      BY <2>1, Verdict DEF Inv, RecordInv, Unvalidated
    <3>2. run.invalid # {} => ComputedOutcome(run) \in Refused
      BY DEF ComputedOutcome, DecideOutcome
    <3>3. \A x \in Outcomes, c \in Refused : Severity[x] >= Severity[c] => x \in Refused
      BY DEF Outcomes, Severity
    <3>4. (PostDated)' => PostDated
      BY <2>1, Verdict DEF PostDated, SameDates
    <3> QED
      BY <2>1, <3>1, <3>2, <3>3, <3>4, Verdict DEF PostDatedNeverHeldOrApproved, PostDated
  <2>2. CASE ~Recommend
    BY <2>2, VerdictsAreRecommended DEF PostDatedNeverHeldOrApproved, Recommended
  <2> QED
    BY <2>1, <2>2
<1> QED
  BY <1>1, <1>2, InvHolds, PTL DEF Spec

\* The risk the case had when it was reconciled.
Risky ==
    \/ /\ run.vendor # None
       /\ run.reconciledOn - run.vendor.createdOn < 30 \/ run.vendor.overseas
    \/ \E t \in AssertedTails(run.request.texts) : run.vendor = None \/ t # run.vendor.tail

LEMMA RiskAtRecommend ==
    ASSUME Inv, Recommend
    PROVE  Risky' => run'.second
<1>1. HigherRisk => run.risks # {}
  BY Verdict DEF Inv, RecordInv, Unreconciled
<1>2. run.risks # {} => run'.second
  BY Verdict DEF ApplicableRisks
<1>3. /\ run.vendor # None
      /\ run.reconciledOn - run.vendor.createdOn < 30 \/ run.vendor.overseas
      => HigherRisk
  <2>1. ASSUME run.vendor # None, IsNew(run.vendor, run.reconciledOn) \/ run.vendor.overseas
        PROVE  VendorRisks(run.vendor, run.history, run.reconciledOn) # {}
    <3>1. \E risk : risk \in VendorRisks(run.vendor, run.history, run.reconciledOn)
      BY <2>1, Zenon DEF VendorRisks, When
    <3> QED
      BY <3>1
  <2> QED
    BY <2>1 DEF HigherRisk, IsNew, NewVendorDays
<1>4. (\E t \in AssertedTails(run.request.texts) :
           run.vendor = None \/ t # run.vendor.tail) => HigherRisk
  BY DEF HigherRisk, InstructionExceptions, When
<1> QED
  BY <1>1, <1>2, <1>3, <1>4, Verdict DEF Risky, SameEvidence, SameDates

\* What made a case higher-risk when it was reconciled asks for a second approval whenever
\* it is decided on (vendor_status_check, required_authority).
THEOREM RisksAreRemembered == Spec => []RiskRemembered
<1>1. Init => RiskRemembered
  BY DEF Init, RiskRemembered, Recommended
<1>2. Inv /\ RiskRemembered /\ [Next]_vars => RiskRemembered'
  BY RiskAtRecommend, VerdictsAreRecommended DEF RiskRemembered, Recommended, Risky
<1> QED
  BY <1>1, <1>2, InvHolds, PTL DEF Spec

-----------------------------------------------------------------------------
(* What is on the record stays there *)

LEMMA SavedGrows ==
    ASSUME NEW s, NEW t, NEW p, HasShape(t), Grown(s, t), run' = [t EXCEPT !.phase = p]
    PROVE  Grown(s, run')
<1>1. Grown(t, run')
  BY SavedAs
<1> QED
  BY <1>1 DEF Grown

LEMMA FindingsGrow ==
    ASSUME Inv, [Next]_vars, run # None
    PROVE  Grown(run, run')
<1> HasShape(run)
  BY TypeIsStored DEF Inv
<1>1. CASE Intake
  <2> DEFINE t == IntakeOf(run)
  <2>1. HasShape(t) /\ Grown(run, t)
    BY IntakeKeeps DEF Kept
  <2>2. run' = [t EXCEPT !.phase = NextPhase[@]]
    BY <1>1 DEF Intake, Completed
  <2> HIDE DEF t
  <2> QED
    BY <2>1, <2>2, SavedGrows
<1>2. CASE RetrievePolicy
  <2> PICK answered \in Answers : Completed(RetrievePolicyOf(run, answered))
    BY <1>2 DEF RetrievePolicy
  <2> DEFINE t == RetrievePolicyOf(run, answered)
  <2>1. HasShape(t) /\ Grown(run, t)
    BY RetrieveKeeps DEF Kept
  <2>2. run' = [t EXCEPT !.phase = NextPhase[@]]
    BY DEF Completed
  <2> HIDE DEF t
  <2> QED
    BY <2>1, <2>2, SavedGrows
<1>3. CASE GatherEvidence
  <2> PICK answered \in Answers : Completed(GatherEvidenceOf(run, answered))
    BY <1>3 DEF GatherEvidence
  <2> DEFINE t == GatherEvidenceOf(run, answered)
  <2>1. HasShape(t) /\ Grown(run, t)
    BY GatherKeeps DEF Kept
  <2>2. run' = [t EXCEPT !.phase = NextPhase[@]]
    BY DEF Completed
  <2> HIDE DEF t
  <2> QED
    BY <2>1, <2>2, SavedGrows
<1>4. CASE Reconcile
  <2> DEFINE t == ReconcileOf(run)
  <2>1. HasShape(t) /\ Grown(run, t)
    BY ReconcileKeeps DEF Kept
  <2>2. run' = [t EXCEPT !.phase = NextPhase[@]]
    BY <1>4 DEF Reconcile, Completed
  <2> HIDE DEF t
  <2> QED
    BY <2>1, <2>2, SavedGrows
<1>5. CASE AssessRisk \/ AssessmentFails
  <2> DEFINE t == AssessRiskOf(run)
  <2>1. HasShape(t) /\ Grown(run, t)
    BY AssessKeeps DEF Kept
  <2>2. run' = [t EXCEPT !.phase = NextPhase[@]] \/ run' = [t EXCEPT !.phase = "FAILED"]
    BY <1>5 DEF AssessRisk, AssessmentFails, Completed
  <2> HIDE DEF t
  <2> QED
    BY <2>1, <2>2, SavedGrows
<1>6. CASE Recommend
  BY <1>6, Verdict
<1>7. CASE NarrativeFails
  <2>1. run' = [run EXCEPT !.phase = "FAILED"] /\ Grown(run, run)
    BY <1>7 DEF NarrativeFails, Grown
  <2> QED
    BY <2>1, SavedGrows
<1>8. CASE Tick \/ UNCHANGED vars
  BY <1>8 DEF Tick, vars, Grown
<1> QED
  BY <1>1, <1>2, <1>3, <1>4, <1>5, <1>6, <1>7, <1>8 DEF Next, Submit

\* Whatever fails and however often a run is resumed, no later phase drops an exception, an
\* indicator, a gap or an invalid reason (the add_ methods of RunState).
THEOREM FindingsAreKept == Spec => NothingIsForgotten
<1>1. Inv /\ [Next]_vars => [run # None => Grown(run, run')]_vars
  BY FindingsGrow
<1>2. [](Inv) /\ [][Next]_vars => [][run # None => Grown(run, run')]_vars
  BY <1>1, PTL
<1>3. [run # None => Grown(run, run')]_vars =>
        [run # None =>
           /\ run.unknowns \subseteq run'.unknowns
           /\ run.exceptions \subseteq run'.exceptions
           /\ run.invalid \subseteq run'.invalid
           /\ run.indicators \subseteq run'.indicators]_vars
  BY DEF Grown
<1> QED
  BY <1>2, <1>3, InvHolds, PTL DEF Spec, NothingIsForgotten
=============================================================================
