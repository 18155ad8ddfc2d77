----------------------------- MODULE ApprovalGate -----------------------------
(***************************************************************************)
(* Runs, approvals and decisions of the accounts-payable agent as several  *)
(* processes advance them at once.                                         *)
(*                                                                         *)
(* The store (runs, approvals, approval_signatures, decisions, events of   *)
(* persistence/repository.py) is shared; every write to it is one          *)
(* transaction and so one action.  A worker is a thread or a process that  *)
(* serves one call at a time: start, resume, approve or reject.  Between   *)
(* two of its actions it holds only a copy of the run it read, which other *)
(* workers may make stale, and it may die, losing the copy.                *)
(*                                                                         *)
(* What a phase computes is abstracted to the facts later steps read: the  *)
(* outcome, whether the case is higher risk, whether the stored vendor     *)
(* record blocks processing.                                               *)
(***************************************************************************)
EXTENDS RunPhases, FiniteSets

CONSTANTS
    RunIds,             \* runs that may be created
    Workers,            \* concurrent callers of the orchestrator
    ApprovalIds,        \* supply of fresh approval identifiers
    Approvers,          \* people who may deliver a decision
    Primary,            \* those whose own authority covers the amount
    Unlimited,          \* those of them whose role has no monetary limit
    Delegated,          \* those of them whose authority is a delegation to look up
    FinancialControl,   \* those who sign for Financial Control
    Invoices,           \* invoice fingerprints
    Invoice,            \* the fingerprint of each run's invoice
    PossibleOutcomes,   \* outcomes the rules and the model reach in this instance
    HigherRisk,         \* whether a case may be higher risk, in this instance
    BlockedVendor,      \* whether the vendor record may block processing
    StepBudgets,        \* the values of settings.max_steps in this instance
    MaxVersion,         \* bound: no delivery to a run written this often
    MaxCrashes,         \* bound: crashes in a behaviour
    None                \* no approval, no person, no run

ASSUME PeopleAssumption ==
    /\ IsFiniteSet(Approvers)
    /\ Primary \subseteq Approvers
    /\ Unlimited \subseteq Primary
    /\ Delegated \subseteq Primary
    /\ FinancialControl \subseteq Approvers

ASSUME IdentityAssumption ==
    /\ None \notin ApprovalIds /\ None \notin Approvers /\ None \notin RunIds
    /\ Invoice \in [RunIds -> Invoices]

ASSUME BoundAssumption ==
    /\ StepBudgets \subseteq Nat /\ MaxVersion \in Nat /\ MaxCrashes \in Nat
    /\ PossibleOutcomes \subseteq Outcomes
    /\ HigherRisk \subseteq BOOLEAN /\ BlockedVendor \subseteq BOOLEAN

VARIABLES
    runs,        \* the runs table: the state saved last; version 0 is no row
    approvals,   \* the approvals table: status "ABSENT" is no row
    signatures,  \* the approval_signatures table: who signed which approval
    decisions,   \* the decisions table: approval None is no row
    announced,   \* DECISION_SUBMITTED events recorded for each run
    pc,          \* what each worker does next
    job,         \* the call each worker serves
    copy,        \* the run state each worker holds
    seen,        \* the approval status each worker read last
    crashes      \* crashes so far

store == << runs, approvals, signatures, decisions, announced >>
vars  == << runs, approvals, signatures, decisions, announced,
            pc, job, copy, seen, crashes >>

-----------------------------------------------------------------------------
(* Values *)

\* RunState, reduced to the fields that decide what happens next.
RunState ==
    [ phase : Phases, version : Nat, steps : Nat, budget : Nat,
      approval : ApprovalIds \cup {None},
      outcome : Outcomes \cup {"NONE"},
      vendorBlocks : BOOLEAN, higherRisk : BOOLEAN,
      decided : BOOLEAN ]

\* RunState.create
FreshRun ==
    [ phase |-> "INTAKE", version |-> 0, steps |-> 0, budget |-> 0,
      approval |-> None, outcome |-> "NONE", vendorBlocks |-> FALSE,
      higherRisk |-> FALSE, decided |-> FALSE ]

\* ApprovalRequest
ApprovalRow ==
    [ run : RunIds \cup {None}, status : ApprovalStatus \cup {"ABSENT"},
      outcome : Outcomes \cup {"NONE"}, higherRisk : BOOLEAN,
      decidedBy : Approvers \cup {None} ]

NoApproval ==
    [ run |-> None, status |-> "ABSENT", outcome |-> "NONE",
      higherRisk |-> FALSE, decidedBy |-> None ]

\* A row of decisions; the receipt and the idempotency key are functions of these.
DecisionRow ==
    [ approval : ApprovalIds \cup {None}, outcome : Outcomes \cup {"NONE"} ]

NoDecision == [ approval |-> None, outcome |-> "NONE" ]

\* The call a worker serves; for an ApprovalDecision, also which approval, who,
\* and whether the callback approves or rejects.
Job == [ run : RunIds \cup {None}, approval : ApprovalIds \cup {None},
         approver : Approvers \cup {None},
         verdict : {"APPROVED", "REJECTED", "NONE"} ]

NoJob == [ run |-> None, approval |-> None, approver |-> None, verdict |-> "NONE" ]

Labels ==
    { "idle", "approval", "signatures", "refuse", "sign", "reject", "reload",
      "collect", "hold", "open", "drive", "park", "tool", "record",
      "announce", "complete", "fail" }

Init ==
    /\ runs = [ r \in RunIds |-> FreshRun ]
    /\ approvals = [ a \in ApprovalIds |-> NoApproval ]
    /\ signatures = [ a \in ApprovalIds |-> {} ]
    /\ decisions = [ r \in RunIds |-> NoDecision ]
    /\ announced = [ r \in RunIds |-> 0 ]
    /\ pc = [ w \in Workers |-> "idle" ]
    /\ job = [ w \in Workers |-> NoJob ]
    /\ copy = [ w \in Workers |-> FreshRun ]
    /\ seen = [ w \in Workers |-> "ABSENT" ]
    /\ crashes = 0

-----------------------------------------------------------------------------
(* Loading and saving a run *)

\* The call ends: its answer or its exception goes back to the caller.
Release(w) ==
    /\ pc' = [pc EXCEPT ![w] = "idle"]
    /\ job' = [job EXCEPT ![w] = NoJob]
    /\ copy' = [copy EXCEPT ![w] = FreshRun]
    /\ seen' = [seen EXCEPT ![w] = "ABSENT"]

GoTo(w, label) == pc' = [pc EXCEPT ![w] = label]

\* Slip: the write does not look at the version.
FreshSlip(w) == TRUE

\* save_run writes only over the version its caller read.
Fresh(w) == runs[job[w].run].version = copy[w].version

\* save_run: write s as the next version and go on with what was written.
Save(w, s, next) ==
    LET saved == [s EXCEPT !.version = @ + 1]
    IN  /\ Fresh(w)
        /\ runs' = [runs EXCEPT ![job[w].run] = saved]
        /\ IF next = "idle"
           THEN Release(w)
           ELSE /\ GoTo(w, next)
                /\ copy' = [copy EXCEPT ![w] = saved]
                /\ UNCHANGED << job, seen >>
        /\ UNCHANGED << approvals, signatures, decisions, announced, crashes >>

\* A phase is over: count it and move on.
Advanced(s, next) == [s EXCEPT !.phase = next, !.steps = @ + 1]

-----------------------------------------------------------------------------
(* The public calls *)

Begin(w, call, label) ==
    /\ pc[w] = "idle"
    /\ job' = [job EXCEPT ![w] = call]
    /\ GoTo(w, label)

\* start: create the run at version 1 and drive it.
Start(w, r) ==
    \E limit \in StepBudgets :
        LET created == [FreshRun EXCEPT !.version = 1, !.budget = limit]
        IN  /\ runs[r].version = 0
            /\ Begin(w, [NoJob EXCEPT !.run = r], "drive")
            /\ runs' = [runs EXCEPT ![r] = created]
            /\ copy' = [copy EXCEPT ![w] = created]
            /\ UNCHANGED << approvals, signatures, decisions, announced, seen, crashes >>

\* resume: re-enter a run at its stored phase; one that waits or is over is returned.
Resume(w, r) ==
    /\ runs[r].version > 0
    /\ runs[r].phase \notin StopPhases
    /\ Begin(w, [NoJob EXCEPT !.run = r], "drive")
    /\ copy' = [copy EXCEPT ![w] = runs[r]]
    /\ UNCHANGED << store, seen, crashes >>

\* Slip: any approval that was ever created for the run will do.
AddressedSlip(r, a) == approvals[a].run = r

\* A decision must name the approval its run holds; any other is a conflict.
Addressed(r, a) == runs[r].approval = a

\* approve, reject: any approver, at any time, any number of times.
Deliver(w, r, a, p, v) ==
    /\ runs[r].version < MaxVersion
    /\ approvals[a].status # "ABSENT"
    /\ Addressed(r, a)
    /\ Begin(w, [run |-> r, approval |-> a, approver |-> p, verdict |-> v], "approval")
    /\ copy' = [copy EXCEPT ![w] = runs[r]]
    /\ UNCHANGED << store, seen, crashes >>

\* The process dies: what it wrote stays, what it held is gone.
Crash(w) ==
    /\ pc[w] # "idle"
    /\ crashes < MaxCrashes
    /\ crashes' = crashes + 1
    /\ Release(w)
    /\ UNCHANGED store

-----------------------------------------------------------------------------
(* Resolving an approval *)

\* load_approval, first SELECT: the row with its status.
ReadApproval(w) ==
    /\ pc[w] = "approval"
    /\ seen' = [seen EXCEPT ![w] = approvals[job[w].approval].status]
    /\ GoTo(w, "signatures")
    /\ UNCHANGED << store, job, copy, crashes >>

Approving(w) == job[w].verdict = "APPROVED"
Rejecting(w) == job[w].verdict = "REJECTED"

Signers(w) == signatures[job[w].approval]

\* Slip: a signature on file counts as this person's.
InertSlip(w) == (Approving(w) /\ Signers(w) # {}) \/ seen[w] # "PENDING"

\* Slip: a settled approval is taken up again.
InertUnsettledSlip(w) == Approving(w) /\ job[w].approver \in Signers(w)

\* short_circuit_replay: this person has signed already, or the matter is settled.
Inert(w) ==
    \/ Approving(w) /\ job[w].approver \in Signers(w)
    \/ seen[w] # "PENDING"

\* Slip: Financial Control may sign at any time.
SufficientSlip(p, signers, registerAnswers) ==
    p \in FinancialControl \/ (p \in Primary /\ (p \in Delegated => registerAnswers))

\* authorise_signature: a limit that covers the amount, or Financial Control after
\* a signature whose recorded limit does.  A role without a limit records none.
Sufficient(p, signers, registerAnswers) ==
    \/ p \in Primary /\ (p \in Delegated => registerAnswers)
    \/ p \in FinancialControl /\ signers \cap (Primary \ Unlimited) # {}

\* load_approval, second SELECT (the signatures), and everything decided from it.
ReadSignatures(w) == pc[w] = "signatures"

AnswerReplay(w) ==
    /\ ReadSignatures(w)
    /\ Inert(w)
    /\ Release(w)
    /\ UNCHANGED << store, crashes >>

Admit(w, label) ==
    /\ ReadSignatures(w)
    /\ ~Inert(w)
    /\ GoTo(w, label)
    /\ UNCHANGED << store, job, copy, seen, crashes >>

RefuseSigner(w) ==
    /\ Approving(w)
    /\ \E answers \in BOOLEAN : ~Sufficient(job[w].approver, Signers(w), answers)
    /\ Admit(w, "refuse")

AcceptSigner(w) ==
    /\ Approving(w)
    /\ \E answers \in BOOLEAN : Sufficient(job[w].approver, Signers(w), answers)
    /\ Admit(w, "sign")

\* Authority is not asked of a rejection.
AcceptRejection(w) == Rejecting(w) /\ Admit(w, "reject")

\* The refusal's exceptions are saved on the run before the caller hears of it.
SaveRefusal(w) == pc[w] = "refuse" /\ Save(w, copy[w], "idle")

\* Slip: the requirement is recorded and nothing reads it.
RequirementMetSlip(row, signers) == signers # {}

\* ApprovalRequest.signature_requirement_met
RequirementMet(row, signers) ==
    /\ Cardinality(signers) >= IF row.higherRisk THEN 2 ELSE 1
    /\ row.higherRisk => signers \cap FinancialControl # {}

\* Slip: the first signature opens the gate.
AfterSignatureSlip(met, replayed) == IF replayed THEN "reload" ELSE "open"

\* Slip: no branch is left for one signature of two.
AfterSignatureGap(met, replayed) ==
    IF replayed THEN "reload" ELSE IF met THEN "open" ELSE "nowhere"

\* The driver goes on only once every signature is there; a replay reloads first.
AfterSignature(met, replayed) ==
    IF replayed THEN "reload" ELSE IF met THEN "open" ELSE "collect"

\* The signature filed last by its own clock: after a settled approval's decider,
\* which one that is depends on who read the clock first.
LastSigners(row, signers, p) ==
    IF row.decidedBy = None THEN signers ELSE {row.decidedBy, p}

\* add_approval_signature, one transaction.
Sign(w) ==
    LET a == job[w].approval
        p == job[w].approver
        row == approvals[a]
        signed == signatures[a] \cup {p}
        met == RequirementMet(row, signed)
        replayed == p \in signatures[a]
    IN  /\ pc[w] = "sign"
        /\ row.status # "REJECTED"
        /\ signatures' = [signatures EXCEPT ![a] = signed]
        /\ \/ /\ met /\ ~replayed
              /\ \E last \in LastSigners(row, signed, p) :
                    approvals' = [approvals EXCEPT ![a] =
                                    [row EXCEPT !.status = "APPROVED", !.decidedBy = last]]
           \/ /\ ~(met /\ ~replayed)
              /\ UNCHANGED approvals
        /\ seen' = [seen EXCEPT ![w] = IF met THEN "APPROVED" ELSE "PENDING"]
        /\ GoTo(w, AfterSignature(met, replayed))
        /\ UNCHANGED << runs, decisions, announced, job, copy, crashes >>

\* Slip: a late rejection overrides an approval.
RejectableSlip(a) == approvals[a].status # "REJECTED"

Rejectable(a) == approvals[a].status = "PENDING"

\* reject_approval, one transaction, on an approval still pending.
Reject(w) ==
    LET a == job[w].approval
    IN  /\ pc[w] = "reject"
        /\ Rejectable(a)
        /\ approvals' = [approvals EXCEPT ![a].status = "REJECTED",
                                          ![a].decidedBy = job[w].approver]
        /\ GoTo(w, "hold")
        /\ UNCHANGED << runs, signatures, decisions, announced, job, copy, seen, crashes >>

\* reject_approval on one that is rejected already.
RejectAgain(w) ==
    /\ pc[w] = "reject"
    /\ approvals[job[w].approval].status = "REJECTED"
    /\ GoTo(w, "reload")
    /\ UNCHANGED << store, job, copy, seen, crashes >>

\* ApprovalStateConflict: the other verdict was recorded since the status was read.
Contradicted(w) ==
    /\ \/ pc[w] = "sign" /\ approvals[job[w].approval].status = "REJECTED"
       \/ pc[w] = "reject" /\ approvals[job[w].approval].status = "APPROVED"
    /\ Release(w)
    /\ UNCHANGED << store, crashes >>

\* The delivery turned out to be a replay: what happens next is decided on the run as it is.
Reload(w) ==
    LET stored == runs[job[w].run]
    IN  /\ pc[w] = "reload"
        /\ IF stored.phase \in TerminalPhases
           THEN Release(w)
           ELSE /\ copy' = [copy EXCEPT ![w] = stored]
                /\ GoTo(w, IF Rejecting(w) THEN "hold"
                           ELSE IF seen[w] = "APPROVED" THEN "open" ELSE "collect")
                /\ UNCHANGED << job, seen >>
        /\ UNCHANGED << store, crashes >>

\* One signature more, and not yet enough: the run is saved and goes on waiting.
Collect(w) == pc[w] = "collect" /\ Save(w, copy[w], "idle")

\* Rejected: nothing is posted and accounts payable keeps the case.
Hold(w) == pc[w] = "hold" /\ Save(w, [copy[w] EXCEPT !.phase = "HELD"], "idle")

\* The gate opens: the same call goes on to execute the decision.
Open(w) == pc[w] = "open" /\ Save(w, [copy[w] EXCEPT !.phase = "EXECUTE_DECISION"], "drive")

-----------------------------------------------------------------------------
(* The driver: one phase after another, each saved before the next *)

\* Slip: one step too many.
ExhaustedSlip(s) == s.steps > s.budget

\* Budget.check_step.  The budget is a setting of the deployment; a run keeps the one it
\* was created under, so that one instance covers several settings.
Exhausted(s) == s.steps >= s.budget

Driving(w, phases) ==
    /\ pc[w] = "drive"
    /\ copy[w].phase \in phases
    /\ ~Exhausted(copy[w])

\* BudgetExhausted
ExhaustSteps(w) ==
    /\ pc[w] = "drive"
    /\ Exhausted(copy[w])
    /\ GoTo(w, "fail")
    /\ UNCHANGED << store, job, copy, seen, crashes >>

\* What a read-only phase may establish, of what later steps read.
Established(s) ==
    CASE s.phase = "GATHER_EVIDENCE" -> { [s EXCEPT !.vendorBlocks = b] : b \in BlockedVendor }
      [] s.phase = "RECONCILE" -> { [s EXCEPT !.higherRisk = b] : b \in HigherRisk }
      [] OTHER -> {s}

ReadPhase(w) ==
    /\ Driving(w, ReadOnlyPhases)
    /\ \E s \in Established(copy[w]) : Save(w, Advanced(s, NextPhase[s.phase]), "drive")

\* ModelOutputInvalid, ModelError: the model answered badly twice or not at all.
ModelFails(w) ==
    /\ Driving(w, ModelPhases)
    /\ GoTo(w, "fail")
    /\ UNCHANGED << store, job, copy, seen, crashes >>

\* decide_outcome, and what a model may tighten it to: a blocking exception on the
\* record rules posting out.
Recommendable(s) ==
    PossibleOutcomes \ (IF s.vendorBlocks THEN {"APPROVE_FOR_POSTING"} ELSE {})

\* The recommendation is a hold or an escalation: no human is asked.
RecommendHold(w) ==
    /\ Driving(w, {"RECOMMEND"})
    /\ \E o \in Recommendable(copy[w]) \ Consequential :
          copy' = [copy EXCEPT ![w].outcome = o]
    /\ GoTo(w, "park")
    /\ UNCHANGED << store, job, seen, crashes >>

\* create_approval commits the request in a transaction of its own, ahead of the run
\* that will name it.
RequestApproval(w) ==
    /\ Driving(w, {"RECOMMEND"})
    /\ copy[w].approval = None
    /\ \E o \in Recommendable(copy[w]) \cap Consequential, a \in ApprovalIds :
          /\ approvals[a].status = "ABSENT"
          /\ approvals' = [approvals EXCEPT ![a] =
                [ run |-> job[w].run, status |-> "PENDING", outcome |-> o,
                  higherRisk |-> copy[w].higherRisk, decidedBy |-> None ]]
          /\ copy' = [copy EXCEPT ![w].outcome = o, ![w].approval = a]
    /\ GoTo(w, "park")
    /\ UNCHANGED << runs, signatures, decisions, announced, job, seen, crashes >>

\* RECOMMEND is over: the run waits for a human, or is held.
Park(w) ==
    /\ pc[w] = "park"
    /\ Save(w, Advanced(copy[w], AfterRecommend(copy[w].outcome)), "idle")

\* Slip: a run whose decision is on the ledger is denied, whoever recorded it.
GatePermitsSlip(w) ==
    LET row == approvals[copy[w].approval]
    IN  /\ row.status = "APPROVED"
        /\ decisions[job[w].run] = NoDecision
        /\ ~copy[w].vendorBlocks

\* authorise_decision, then the vendor check on the record the run stored.
GatePermits(w) ==
    LET s == copy[w]
        row == approvals[s.approval]
    IN  /\ s.outcome \in Consequential
        /\ s.approval # None
        /\ row.run = job[w].run
        /\ row.status = "APPROVED"
        /\ RequirementMet(row, signatures[s.approval])
        /\ row.outcome = s.outcome
        /\ ~s.decided
        /\ ~s.vendorBlocks

PassGate(w) ==
    /\ Driving(w, {"EXECUTE_DECISION"})
    /\ GatePermits(w)
    /\ GoTo(w, "tool")
    /\ UNCHANGED << store, job, copy, seen, crashes >>

\* ToolPermissionDenied by the gate.
GateRefuses(w) ==
    /\ Driving(w, {"EXECUTE_DECISION"})
    /\ ~GatePermits(w)
    /\ GoTo(w, "fail")
    /\ UNCHANGED << store, job, copy, seen, crashes >>

\* submit_finance_decision reads the approval again and asks the same of it.
ToolPermits(w) ==
    LET row == approvals[copy[w].approval]
    IN  /\ row.run = job[w].run
        /\ row.status = "APPROVED"
        /\ row.outcome = copy[w].outcome
        /\ RequirementMet(row, signatures[copy[w].approval])

CheckTool(w) ==
    /\ pc[w] = "tool"
    /\ GoTo(w, IF ToolPermits(w) THEN "record" ELSE "fail")
    /\ UNCHANGED << store, job, copy, seen, crashes >>

\* Slip: the invoice is not looked up.
RulingPerRun(r, row) ==
    IF decisions[r] = row THEN "REPLAY"
    ELSE IF decisions[r] # NoDecision THEN "CONFLICT" ELSE "FIRST"

\* Slip: neither the key nor the run is looked up.
RulingPerInvoice(r, row) ==
    IF \E q \in RunIds \ {r} : decisions[q] # NoDecision /\ Invoice[q] = Invoice[r]
    THEN "CONFLICT" ELSE "FIRST"

\* Slip: the same decision again is a conflict.
RulingWithoutReplay(r, row) ==
    IF \E q \in RunIds : decisions[q] # NoDecision /\ Invoice[q] = Invoice[r]
    THEN "CONFLICT" ELSE "FIRST"

\* record_decision: the same decision again, a second one for the run or for the
\* invoice, or a first.
Ruling(r, row) ==
    IF decisions[r] = row THEN "REPLAY"
    ELSE IF \/ decisions[r] # NoDecision
            \/ \E q \in RunIds : decisions[q] # NoDecision /\ Invoice[q] = Invoice[r]
         THEN "CONFLICT"
         ELSE "FIRST"

DecisionOf(w) == [ approval |-> copy[w].approval, outcome |-> copy[w].outcome ]

RecordFirst(w) ==
    /\ pc[w] = "record"
    /\ Ruling(job[w].run, DecisionOf(w)) = "FIRST"
    /\ decisions' = [decisions EXCEPT ![job[w].run] = DecisionOf(w)]
    /\ copy' = [copy EXCEPT ![w].decided = TRUE]
    /\ GoTo(w, "announce")
    /\ UNCHANGED << runs, approvals, signatures, announced, job, seen, crashes >>

\* The stored receipt is returned and DECISION_REPLAYED recorded.
RecordAgain(w) ==
    /\ pc[w] = "record"
    /\ Ruling(job[w].run, DecisionOf(w)) = "REPLAY"
    /\ copy' = [copy EXCEPT ![w].decided = TRUE]
    /\ GoTo(w, "complete")
    /\ UNCHANGED << store, job, seen, crashes >>

\* ApprovalStateConflict, which the driver does not catch.
RecordConflict(w) ==
    /\ pc[w] = "record"
    /\ Ruling(job[w].run, DecisionOf(w)) = "CONFLICT"
    /\ Release(w)
    /\ UNCHANGED << store, crashes >>

\* DECISION_SUBMITTED
Announce(w) ==
    /\ pc[w] = "announce"
    /\ announced' = [announced EXCEPT ![job[w].run] = @ + 1]
    /\ GoTo(w, "complete")
    /\ UNCHANGED << runs, approvals, signatures, decisions, job, copy, seen, crashes >>

Complete(w) ==
    pc[w] = "complete" /\ Save(w, Advanced(copy[w], "COMPLETED"), "idle")

\* _fail: a failed run keeps everything it established.
Fail(w) == pc[w] = "fail" /\ Save(w, [copy[w] EXCEPT !.phase = "FAILED"], "idle")

SaveLabels == { "refuse", "collect", "hold", "open", "park", "complete", "fail" }

\* StaleRunVersion: another worker wrote the run first, and nothing catches it.
StaleWrite(w) ==
    /\ pc[w] \in SaveLabels \/ Driving(w, ReadOnlyPhases)
    /\ ~Fresh(w)
    /\ Release(w)
    /\ UNCHANGED << store, crashes >>

-----------------------------------------------------------------------------
(* The system *)

Resolve(w) ==
    \/ ReadApproval(w)
    \/ AnswerReplay(w)
    \/ RefuseSigner(w)
    \/ AcceptSigner(w)
    \/ AcceptRejection(w)
    \/ SaveRefusal(w)
    \/ Sign(w)
    \/ Reject(w)
    \/ RejectAgain(w)
    \/ Contradicted(w)
    \/ Reload(w)
    \/ Collect(w)
    \/ Hold(w)
    \/ Open(w)

Drive(w) ==
    \/ ExhaustSteps(w)
    \/ ReadPhase(w)
    \/ ModelFails(w)
    \/ RecommendHold(w)
    \/ RequestApproval(w)
    \/ Park(w)
    \/ PassGate(w)
    \/ GateRefuses(w)
    \/ CheckTool(w)
    \/ RecordFirst(w)
    \/ RecordAgain(w)
    \/ RecordConflict(w)
    \/ Announce(w)
    \/ Complete(w)
    \/ Fail(w)

\* What a worker does of itself once it serves a call.
Work(w) == Resolve(w) \/ Drive(w) \/ StaleWrite(w)

Call(w) ==
    \E r \in RunIds :
        \/ Start(w, r)
        \/ Resume(w, r)
        \/ \E a \in ApprovalIds, p \in Approvers, v \in {"APPROVED", "REJECTED"} :
              Deliver(w, r, a, p, v)

Next == \E w \in Workers : Call(w) \/ Work(w) \/ Crash(w)

Spec == Init /\ [][Next]_vars

\* Fairness.  A worker that serves a call goes on with it.  Operators resume an
\* unfinished run and approvers deliver again, as long as that is possible.
Fairness ==
    /\ \A w \in Workers : WF_vars(Work(w))
    /\ \A r \in RunIds : SF_vars(\E w \in Workers : Resume(w, r))
    /\ \A r \in RunIds, p \in Approvers :
          SF_vars(\E w \in Workers, a \in ApprovalIds : Deliver(w, r, a, p, "APPROVED"))

LiveSpec == Spec /\ Fairness

-----------------------------------------------------------------------------
(* Invariants *)

\* Every variable keeps its shape.
TypeOK ==
    /\ runs \in [RunIds -> RunState]
    /\ approvals \in [ApprovalIds -> ApprovalRow]
    /\ signatures \in [ApprovalIds -> SUBSET Approvers]
    /\ decisions \in [RunIds -> DecisionRow]
    /\ announced \in [RunIds -> Nat]
    /\ pc \in [Workers -> Labels]
    /\ job \in [Workers -> Job]
    /\ copy \in [Workers -> RunState]
    /\ seen \in [Workers -> ApprovalStatus \cup {"ABSENT"}]
    /\ crashes \in Nat

Decided(r) == decisions[r] # NoDecision

\* A decision on the ledger rests on an approval of that very run, granted for that
\* very outcome, signed by somebody, and by two people with Financial Control among
\* them when the case is higher risk (FIN-POL-001 s3, FIN-POL-003 s3; authorise_decision,
\* submit_finance_decision, add_approval_signature).
DecisionAuthorised ==
    \A r \in RunIds : Decided(r) =>
        LET a == decisions[r].approval
        IN  /\ approvals[a].run = r
            /\ approvals[a].status = "APPROVED"
            /\ approvals[a].outcome = decisions[r].outcome
            /\ signatures[a] # {}
            /\ approvals[a].higherRisk =>
                  \E p, q \in signatures[a] : p # q /\ q \in FinancialControl

\* However signatures and refusals interleave, one of those filed on an approval is of
\* somebody whose own limit covers the amount: Financial Control, which has none, never
\* signs first (authorise_signature, validate_approval).
LimitCovered ==
    \A a \in ApprovalIds : signatures[a] # {} => signatures[a] \cap Primary # {}

\* A posted decision is never followed by a run that says it failed or was held, even if
\* a worker dies right after recording it and another takes over (execute_decision.run).
PostedRunsNeverFail ==
    \A r \in RunIds : Decided(r) => runs[r].phase \in {"EXECUTE_DECISION", "COMPLETED"}

\* A run reads COMPLETED only with its decision on the ledger, under the approval and the
\* outcome that the run itself names (_transition_from, record_decision).
CompletedMeansPosted ==
    \A r \in RunIds : runs[r].phase = "COMPLETED" =>
        decisions[r] = [ approval |-> runs[r].approval, outcome |-> runs[r].outcome ]

\* While the approval a run names is pending, the run waits at the gate.  approve and
\* reject never look at the phase; this is why they need not.
PendingOnlyAtGate ==
    \A r \in RunIds : runs[r].approval # None =>
        (approvals[runs[r].approval].status = "PENDING" => runs[r].phase = "AWAITING_APPROVAL")

\* The record says at most once that a decision was submitted, and only of a decision
\* that was: a retry is recorded as a replay.
AnnouncedAtMostOnce ==
    \A r \in RunIds : announced[r] <= 1 /\ (announced[r] = 1 => Decided(r))

\* An approval that its run does not name (its creator died, or lost the race to save the
\* run) gathers no signature and no verdict.
OrphansUntouched ==
    \A a \in ApprovalIds :
        (approvals[a].status # "ABSENT" /\ runs[approvals[a].run].approval # a)
            => approvals[a].status = "PENDING" /\ signatures[a] = {}

\* An invoice is decided on at most once, in however many runs and workers it is processed
\* (record_decision, ux_decisions_invoice).
OneDecisionPerInvoice ==
    \A r, q \in RunIds :
        (r # q /\ Decided(r) /\ Decided(q)) => Invoice[r] # Invoice[q]

\* No run takes more steps than its budget, retries and takeovers included (check_step).
StepsWithinBudget == \A r \in RunIds : runs[r].steps <= runs[r].budget

-----------------------------------------------------------------------------
(* Action properties *)

Settled == {"APPROVED", "REJECTED"}

\* No delivery, however late, turns a verdict, withdraws a signature, or signs what was
\* rejected (add_approval_signature, reject_approval).
SettledIsFinal ==
    [][\A a \in ApprovalIds :
         /\ approvals[a].status \in Settled => approvals'[a].status = approvals[a].status
         /\ signatures[a] \subseteq signatures'[a]
         /\ approvals[a].status = "REJECTED" => signatures'[a] = signatures[a]]_vars

\* How far along a run in each phase is.
Rank ==
    [ INTAKE |-> 1, RETRIEVE_POLICY |-> 2, GATHER_EVIDENCE |-> 3, RECONCILE |-> 4,
      ASSESS_RISK |-> 5, RECOMMEND |-> 6, AWAITING_APPROVAL |-> 7,
      EXECUTE_DECISION |-> 8, COMPLETED |-> 9, HELD |-> 9, FAILED |-> 9 ]

\* A stored run moves one version at a time, never back to an earlier phase, never back in
\* its budget, and never once it is over: a worker with an old copy cannot undo what
\* another has saved (save_run).
RunsOnlyAdvance ==
    [][\A r \in RunIds : runs'[r] # runs[r] =>
         /\ runs'[r].version = runs[r].version + 1
         /\ Rank[runs[r].phase] <= Rank[runs'[r].phase]
         /\ runs[r].steps <= runs'[r].steps
         /\ runs[r].phase \notin TerminalPhases]_vars

-----------------------------------------------------------------------------
(* Liveness *)

InPhase(r, phases) == runs[r].version > 0 /\ runs[r].phase \in phases

\* Whoever dies and whoever races, a run on the move comes to a stop: finished, or waiting
\* for a human (_drive, resume).
DriverProgress ==
    \A r \in RunIds : InPhase(r, Phases \ StopPhases) ~> InPhase(r, StopPhases)

\* Decisions delivered one at a time always conclude the run.
EveryRunConcludes == \A r \in RunIds : InPhase(r, Phases) ~> InPhase(r, TerminalPhases)

-----------------------------------------------------------------------------
(* Refinement *)

\* What a human has been asked, and has answered, about a run.
VerdictOn(r) ==
    IF runs[r].approval = None THEN "unasked"
    ELSE [ ABSENT |-> "unasked", PENDING |-> "asked", APPROVED |-> "granted",
           REJECTED |-> "refused" ][approvals[runs[r].approval].status]

Ledger == INSTANCE DecisionLedger WITH
    Cases <- RunIds,
    Invoice <- Invoice,
    verdict <- [ r \in RunIds |-> VerdictOn(r) ],
    posted <- { r \in RunIds : Decided(r) }

\* All of the workers' interleavings, crashes and replays amount to nothing more than the
\* ledger's four steps.
ImplementsLedger == Ledger!LedgerSpec
=============================================================================
