------------------------------- MODULE SignOff -------------------------------
(***************************************************************************)
(* One case from its submission to the ledger: CaseAssessment until its    *)
(* recommendation, then the people who sign, with the authority they have  *)
(* on that day, and the decision that is recorded in the end.              *)
(*                                                                         *)
(* ApprovalGate has the interleavings, crashes and repeated deliveries of  *)
(* these steps, and takes who may sign as a parameter; here one delivery   *)
(* follows another, and who may sign is what validate_approval and         *)
(* check_approval_time say.  Days pass, delegations are revoked and the    *)
(* vendor master changes between any two steps.                            *)
(***************************************************************************)
EXTENDS CaseAssessment

CONSTANT
    Register    \* the authority register: entries with identifiers of their own

\* A case also says who may answer: an approver, the role claimed, a delegation or None.
EntryFields == {"id", "delegate", "role", "scope", "from", "until", "revoked"}

ASSUME CallerAssumption ==
    /\ \A c \in Cases : \A k \in c.callers : k.approver # None
    /\ \A e \in Register : EntryFields \subseteq DOMAIN e
    /\ \A e, f \in Register : e.id = f.id => e = f

VARIABLES
    approval,   \* the approval row with its signatures
    revoked,    \* the identifiers of the delegations revoked so far
    master,     \* the vendor master's record, which is not the run's
    ledger      \* the rows record_decision wrote

signOffVars == <<day, world, run, approval, revoked, master, ledger>>

\* Before create_approval there is no row.
NoApproval == [status |-> "ABSENT"]

SignOffInit ==
    /\ Init
    /\ approval = NoApproval /\ revoked = {} /\ master = world.vendor /\ ledger = {}

Asked == approval.status # "ABSENT"

-----------------------------------------------------------------------------
(* The request *)

\* create_approval: what the approver is shown, and the signatures its risk asks for.
Requested(s) ==
    [ status     |-> "PENDING",
      outcome    |-> s.outcome,
      amount     |-> ToInvoice(s.request, day).gross,
      vendor     |-> s.request.vendor,
      role       |-> s.role,
      second     |-> s.second,
      presented  |-> s.exceptions,
      signatures |-> {} ]

\* The phases up to the recommendation, and the clock at any time.  A run is created once:
\* an approval refers to it (runs.run_id).
Assess ==
    /\ \/ Submit /\ ~Asked
       \/ Intake \/ RetrievePolicy \/ GatherEvidence \/ Reconcile
       \/ AssessRisk \/ AssessmentFails \/ NarrativeFails \/ Tick
    /\ UNCHANGED <<approval, revoked, master, ledger>>

\* RECOMMEND asks for an approval when its outcome needs one.
Conclude ==
    /\ Recommend
    /\ approval' = IF run'.phase = "AWAITING_APPROVAL" THEN Requested(run') ELSE approval
    /\ UNCHANGED <<revoked, master, ledger>>

-----------------------------------------------------------------------------
(* The answers *)

\* Slip: a settled approval is answered again.
PendingSlip == Asked

Pending == In("AWAITING_APPROVAL") /\ approval.status = "PENDING"

\* get_authority_delegation: the entry as it stands, None when there is none.
RegisterEntry(id) ==
    IF \E e \in Register : e.id = id
    THEN [(CHOOSE e \in Register : e.id = id) EXCEPT !.revoked = id \in revoked]
    ELSE None

\* _load_delegation: asked only when the callback names one, and the register may not answer.
LookedUp(c, answers) ==
    IF c.delegation # None /\ answers THEN RegisterEntry(c.delegation) ELSE None

LookupGaps(c, answers) ==
    When(c.delegation # None /\ ~answers, {Gap("delegation", "get_authority_delegation")})

\* primary_signed: a recorded limit reaches the amount.  A role without a ceiling records none.
Covered(row) ==
    \E s \in row.signatures : s.limit # None /\ s.limit >= row.amount

\* What authorise_signature asks about: the callback against the stored case.
Application(c, entry) ==
    [ approver  |-> c.approver,
      role      |-> c.role,
      entry     |-> entry,
      requester |-> run.request.requestedBy,
      centre    |-> run.request.centre,
      amount    |-> approval.amount,
      coSigns   |-> Covered(approval),
      today     |-> day ]

Clashes(approver) ==
    ApproverClashes(run.vendor, run.order, ToInvoice(run.request, day), approver, day)

\* Slip: the limit of the role claimed, not of the role applied.
SignatureSlip(a) ==
    [ approver   |-> a.approver,
      held       |-> HeldRole(a),
      limit      |-> IF a.role = FinancialControl THEN None ELSE LimitOf(a.role),
      delegation |-> IF Raised(a) THEN a.entry.id ELSE None,
      overseer   |-> a.role = FinancialControl,
      on         |-> a.today ]

\* ApprovalSignature: the verdict recorded beside the name.
Signature(a) ==
    [ approver   |-> a.approver,
      held       |-> HeldRole(a),
      limit      |-> IF HeldRole(a) = FinancialControl THEN None ELSE LimitOf(HeldRole(a)),
      delegation |-> IF Raised(a) THEN a.entry.id ELSE None,
      overseer   |-> a.role = FinancialControl,
      on         |-> a.today ]

Signers(row) == { s.approver : s \in row.signatures }

\* Slip: two signatures, whoever gives them.
RequirementMetSlip(row) == Cardinality(Signers(row)) >= (IF row.second THEN 2 ELSE 1)

\* signature_requirement_met
RequirementMet(row) ==
    /\ Cardinality(Signers(row)) >= (IF row.second THEN 2 ELSE 1)
    /\ row.second => \E s \in row.signatures : s.overseer

\* Authority and duties are judged before a signature is filed; the last one that is needed
\* sends the run on.
Sign(c, answers) ==
    LET a == Application(c, LookedUp(c, answers))
        filed == [approval EXCEPT !.signatures = @ \cup {Signature(a)}]
    IN  /\ Pending
        /\ c.approver \notin Signers(approval)
        /\ Sufficient(a) /\ Clashes(c.approver) = {}
        /\ approval' = [filed EXCEPT !.status = IF RequirementMet(filed) THEN "APPROVED" ELSE @]
        /\ run' = [run EXCEPT !.unknowns = @ \cup LookupGaps(c, answers),
                              !.phase = IF RequirementMet(filed) THEN "EXECUTE_DECISION" ELSE @]
        /\ UNCHANGED <<day, world, revoked, master, ledger>>

\* A refusal leaves its reasons on the run, and nothing else.
RefuseSigner(c, answers) ==
    LET a == Application(c, LookedUp(c, answers))
    IN  /\ Pending
        /\ c.approver \notin Signers(approval)
        /\ ~(Sufficient(a) /\ Clashes(c.approver) = {})
        /\ run' = [run EXCEPT !.unknowns   = @ \cup LookupGaps(c, answers),
                              !.exceptions = Recorded(@, AuthorityFaults(a)
                                                             \cup Clashes(c.approver))]
        /\ UNCHANGED <<day, world, approval, revoked, master, ledger>>

\* A rejection asks for no authority; a delegation it names is looked up all the same.
Reject(c, answers) ==
    /\ Pending
    /\ approval' = [approval EXCEPT !.status = "REJECTED"]
    /\ run' = [run EXCEPT !.unknowns = @ \cup LookupGaps(c, answers), !.phase = "HELD"]
    /\ UNCHANGED <<day, world, revoked, master, ledger>>

-----------------------------------------------------------------------------
(* The decision *)

\* authorise_decision, on the run and the approval as they are stored.
Permitted ==
    /\ approval.status = "APPROVED" /\ RequirementMet(approval)
    /\ run.outcome \in Consequential /\ approval.outcome = run.outcome
    /\ approval.amount = ToInvoice(run.request, day).gross
    /\ approval.vendor = run.request.vendor

BankChangeRule == "first_payment_after_bank_change"

\* Slip: whatever is on the record by now stops the decision.
NewlyBlockingSlip(s) == { e \in s.exceptions : e.blocking /\ e.rule # BankChangeRule }

\* The vendor check at decision time, on the vendor record the run has kept.
NewlyBlocking(s) ==
    { e \in VendorExceptions(s.vendor, ToInvoice(s.request, day), s.history) :
          e.blocking /\ e.rule # BankChangeRule }

\* submit_finance_decision
RecordDecision ==
    /\ In("EXECUTE_DECISION")
    /\ Permitted /\ NewlyBlocking(run) = {}
    /\ ledger' = ledger \cup {[ outcome |-> approval.outcome,
                                amount  |-> ToInvoice(run.request, day).gross,
                                vendor  |-> run.request.vendor ]}
    /\ run' = [run EXCEPT !.phase = "COMPLETED"]
    /\ UNCHANGED <<day, world, approval, revoked, master>>

\* What blocks is recorded and the run fails.
RefuseDecision ==
    /\ In("EXECUTE_DECISION")
    /\ ~(Permitted /\ NewlyBlocking(run) = {})
    /\ run' = [run EXCEPT !.phase = "FAILED",
                          !.exceptions = Recorded(@, IF Permitted THEN NewlyBlocking(run) ELSE {})]
    /\ UNCHANGED <<day, world, approval, revoked, master, ledger>>

-----------------------------------------------------------------------------
(* The world meanwhile; before the request a change is another case *)

\* Bound: a delegation nobody names is not revoked.
Named == { c.delegation : c \in world.callers }

RevokeDelegation ==
    /\ Asked
    /\ \E e \in Register : e.id \in Named /\ revoked' = revoked \cup {e.id}
    /\ UNCHANGED <<day, world, run, approval, master, ledger>>

VendorChanges ==
    /\ Asked /\ master # None
    /\ \E status \in {"ACTIVE", "BLOCKED"} : master' = [master EXCEPT !.status = status]
    /\ UNCHANGED <<day, world, run, approval, revoked, ledger>>

Answer ==
    \E c \in world.callers, answers \in BOOLEAN :
        Sign(c, answers) \/ RefuseSigner(c, answers) \/ Reject(c, answers)

SignOffNext ==
    \/ Assess \/ Conclude \/ Answer \/ RecordDecision \/ RefuseDecision
    \/ RevokeDelegation \/ VendorChanges

SignOffSpec == SignOffInit /\ [][SignOffNext]_signOffVars
-----------------------------------------------------------------------------
(* Safety *)

Filed(s) ==
    /\ s.held \in Roles
    /\ s.limit = (IF s.held = FinancialControl THEN None ELSE LimitOf(s.held))
    /\ s.overseer \in BOOLEAN
    /\ s.on \in FirstDay..day

Row(a) ==
    /\ a.status \in ApprovalStatus /\ a.outcome \in Consequential
    /\ a.second \in BOOLEAN
    /\ \A s \in a.signatures : Filed(s)

\* Types, and what goes together: an approval exists from the gate on, it is settled when
\* the run leaves the gate, and the ledger is written when the run completes.
SignOffTypeOK ==
    /\ TypeOK
    /\ Asked => Row(approval) /\ run.outcome = approval.outcome
    /\ In("AWAITING_APPROVAL") => approval.status = "PENDING"
    /\ In("EXECUTE_DECISION") => approval.status = "APPROVED"
    /\ In("COMPLETED") => ledger # {}
    /\ ledger # {} => run.phase = "COMPLETED" /\ approval.status = "APPROVED"

\* The large invoices, of which requester, receipter and approver are three people.
Receivers(s) == IF s.request.gross > 2500000 THEN Receipters(s.order) ELSE {}

\* Each signature can be justified from what is stored, whatever happened since: not the
\* requester's, not a receiver's, not the vendor's editor's in the days after the change;
\* within the limit of the role held, or Financial Control's beside one that is; and where
\* a delegation raised it, that delegation's own words allow it: its delegate, its days, its
\* scope, its role (authorise_signature, ApprovalSignature).
SignaturesJustified ==
    Asked =>
        \A s \in approval.signatures :
            /\ run.request.requestedBy \notin {None, s.approver}
            /\ s.approver \notin Receivers(run)
            /\ (run.vendor # None /\ run.vendor.createdBy = s.approver) =>
                   ~(s.on <= AddBusinessDays(ChangedOn(run.vendor), CoolingOffBusinessDays))
            /\ IF s.held = FinancialControl
               THEN \E t \in approval.signatures :
                        t # s /\ t.held # FinancialControl /\ Within(t.held, approval.amount)
               ELSE Within(s.held, approval.amount)
            /\ s.delegation # None =>
                   \E e \in Register :
                       /\ e.id = s.delegation /\ e.delegate = s.approver /\ e.role = s.held
                       /\ e.from <= s.on /\ s.on <= e.until
                       /\ ScopeCovers(e.scope, run.request.centre)

\* What reaches the ledger is the submitted amount to the submitted vendor, as it was
\* recommended, and one of its signers holds a role at least as senior as the one the case
\* was found to need when it was reconciled (required_authority, validate_approval,
\* authorise_decision).
PostedWithinAuthority ==
    \A d \in ledger :
        /\ d.amount = world.request.gross /\ d.vendor = world.request.vendor
        /\ d.outcome = run.outcome
        /\ \E s \in approval.signatures : Seniority(s.held) >= Seniority(run.role)

\* A vendor that was new or overseas when the case was reconciled, or a text that named
\* another account, still takes two people, one of them of Financial Control, on the day
\* the decision is recorded (required_authority, create_approval, authorise_decision).
RiskyPostingsCoSigned ==
    (/\ ledger # {}
     /\ \/ /\ run.vendor # None
           /\ run.reconciledOn - run.vendor.createdOn < 30 \/ run.vendor.overseas
        \/ \E t \in AssertedTails(run.request.texts) : run.vendor = None \/ t # run.vendor.tail)
    => \E s, t \in approval.signatures : s.approver # t.approver /\ s.overseer

\* The role presented to the approvers is the least that covers the amount presented, on
\* the limits too: every role below it falls short (_minimum_role_for, create_approval).
PresentedRoleIsLeast ==
    Asked =>
        \E i \in DOMAIN AuthorityLadder :
            /\ AuthorityLadder[i].role = approval.role
            /\ AuthorityLadder[i].limit = None \/ AuthorityLadder[i].limit >= approval.amount
            /\ \A j \in 1..(i - 1) : AuthorityLadder[j].limit < approval.amount

\* A granted run fails at the gate only for a vendor block its approvers were shown: what
\* refused signatures left on the record since does not stop it (execute_decision.run).
GateFailuresWerePresented ==
    (Asked /\ In("FAILED")) =>
        /\ approval.status = "APPROVED" /\ ledger = {}
        /\ \E e \in approval.presented :
               /\ e.blocking
               /\ e.rule \in {"record_exists", "status_active", "not_on_payment_hold"}

-----------------------------------------------------------------------------
(* Refinement *)

TheCase == {"case"}

\* What a human has been asked about the case, and has answered.
VerdictGiven ==
    [ ABSENT |-> "unasked", PENDING |-> "asked", APPROVED |-> "granted",
      REJECTED |-> "refused" ][approval.status]

Decisions == INSTANCE DecisionLedger WITH
    Cases <- TheCase,
    Invoice <- [ c \in TheCase |-> c ],
    verdict <- [ c \in TheCase |-> VerdictGiven ],
    posted <- { c \in TheCase : ledger # {} }

\* Whoever signs, under whatever delegation and on whatever day, and whatever is revoked or
\* blocked meanwhile: the case is put to a human once, answered once, and posted only when
\* it was granted, and once (_resolve, record_decision).
SignOffImplementsLedger == Decisions!LedgerSpec
=============================================================================
