-------------------------- MODULE ApprovalGateSafety --------------------------
(***************************************************************************)
(* More theorems of ApprovalGate, for any number of runs, workers,         *)
(* approvers, approvals and crashes: whose signatures a grant carries and  *)
(* when there can be none, what the ledger holds and announces, and what a *)
(* run may spend.                                                          *)
(***************************************************************************)
EXTENDS ApprovalGateProofs

-----------------------------------------------------------------------------
(* What a step of one worker leaves alone *)

LEMMA OthersStay ==
    ASSUME TypeInv, NEW w \in Workers, NEW v \in Workers, v # w,
           Call(w) \/ Work(w) \/ Crash(w)
    PROVE  UNCHANGED << pc[v], job[v], copy[v], seen[v] >>
<1> USE DEF TypeInv, TypeOK
<1>1. CASE Call(w)
  BY <1>1 DEF Call, Start, Resume, Deliver, Begin, GoTo
<1>2. CASE Crash(w) \/ StaleWrite(w)
  BY <1>2 DEF Crash, StaleWrite, Release
<1>3. CASE Resolve(w)
  BY <1>3
  DEF Resolve, ReadApproval, AnswerReplay, RefuseSigner, AcceptSigner, AcceptRejection,
      Admit, SaveRefusal, Sign, Reject, RejectAgain, Contradicted, Reload, Collect, Hold,
      Open, Save, Release, GoTo
<1>4. CASE Drive(w)
  BY <1>4
  DEF Drive, ExhaustSteps, ReadPhase, ModelFails, RecommendHold, RequestApproval, Park,
      PassGate, GateRefuses, CheckTool, RecordFirst, RecordAgain, RecordConflict, Announce,
      Complete, Fail, Save, Release, GoTo
<1> QED BY <1>1, <1>2, <1>3, <1>4 DEF Work

-----------------------------------------------------------------------------
(* A limit that covers the amount *)

LEMMA SignLeaves ==
    ASSUME NEW w \in Workers, Sign(w)
    PROVE  pc[w] = "sign" /\ UNCHANGED << runs, job >>
BY Zenon DEF Sign

LEMMA OnlySignSigns ==
    ASSUME NEW w \in Workers, Call(w) \/ Work(w) \/ Crash(w), ~Sign(w)
    PROVE  UNCHANGED signatures
BY QuietSteps DEF Reject, RequestApproval

\* LimitCovered is not inductive: between the check of a signer and the signature others
\* may sign, but nobody can withdraw the signature the check rested on.
SignInv ==
    /\ LimitCovered
    /\ \A w \in Workers : pc[w] = "sign" =>
          job[w].approver \in Primary \/ signatures[job[w].approval] \cap Primary # {}

LEMMA OnlyAcceptedSign ==
    ASSUME TypeInv, NEW w \in Workers, Call(w) \/ Work(w) \/ Crash(w), pc'[w] = "sign"
    PROVE  AcceptSigner(w)
<1> USE DEF TypeInv, TypeOK
<1>1. CASE Call(w)
  BY <1>1 DEF Call, Start, Resume, Deliver, Begin, GoTo
<1>2. CASE Crash(w) \/ StaleWrite(w)
  BY <1>2 DEF Crash, StaleWrite, Release
<1>3. CASE Resolve(w)
  BY <1>3
  DEF Resolve, ReadApproval, AnswerReplay, RefuseSigner, AcceptRejection,
      Admit, SaveRefusal, Sign, Reject, RejectAgain, Contradicted, Reload, Collect, Hold,
      Open, Save, Release, GoTo, AfterSignature
<1>4. CASE Drive(w)
  BY <1>4
  DEF Drive, ExhaustSteps, ReadPhase, ModelFails, RecommendHold, RequestApproval, Park,
      PassGate, GateRefuses, CheckTool, RecordFirst, RecordAgain, RecordConflict, Announce,
      Complete, Fail, Save, Release, GoTo
<1> QED BY <1>1, <1>2, <1>3, <1>4 DEF Work

LEMMA SignInvStep == TypeInv /\ SignInv /\ [Next]_vars => SignInv'
<1> SUFFICES ASSUME TypeInv, SignInv, [Next]_vars PROVE SignInv'
  OBVIOUS
<1>1. CASE UNCHANGED vars
  BY <1>1 DEF vars, SignInv, LimitCovered
<1>2. ASSUME NEW w \in Workers, Call(w) \/ Work(w) \/ Crash(w) PROVE SignInv'
  <2>1. ASSUME NEW v \in Workers, pc'[v] = "sign"
        PROVE  \/ job'[v].approver \in Primary
               \/ signatures'[job'[v].approval] \cap Primary # {}
    <3>1. CASE v # w
      <4>1. UNCHANGED << pc[v], job[v] >>
        BY <1>2, <3>1, OthersStay
      <4>2. job[v].approval \in ApprovalIds
        BY <2>1, <4>1, WorkerTypes DEF Resolving
      <4>3. signatures[job[v].approval] \subseteq signatures'[job[v].approval]
        BY <4>2, ApprovalsLast DEF Lasting
      <4> QED BY <2>1, <4>1, <4>3 DEF SignInv
    <3>2. CASE v = w
      <4>1. AcceptSigner(w)
        BY <1>2, <2>1, <3>2, OnlyAcceptedSign
      <4>2. UNCHANGED << signatures, job >>
        BY <4>1 DEF AcceptSigner, Admit, store
      <4> QED BY <3>2, <4>1, <4>2 DEF AcceptSigner, Sufficient, Signers
    <3> QED BY <3>1, <3>2
  <2>2. LimitCovered'
    <3>1. CASE ~Sign(w)
      BY <1>2, <3>1, OnlySignSigns DEF SignInv, LimitCovered
    <3>2. CASE Sign(w)
      <4> DEFINE a == job[w].approval
      <4>1. /\ signatures' = [signatures EXCEPT ![a] = signatures[a] \cup {job[w].approver}]
            /\ pc[w] = "sign" /\ a \in ApprovalIds
        BY <3>2, WorkerTypes DEF Sign, Resolving
      <4>2. signatures'[a] \cap Primary # {}
        BY <4>1 DEF SignInv, TypeInv, TypeOK
      <4> QED BY <4>1, <4>2 DEF SignInv, LimitCovered, TypeInv, TypeOK
    <3> QED BY <3>1, <3>2
  <2> QED BY <2>1, <2>2 DEF SignInv
<1> QED BY <1>1, <1>2 DEF Next

\* However signatures and refusals interleave, Financial Control never signs first: one of
\* the signatures on an approval is always somebody's whose own authority covers it.
THEOREM SignaturesCoverTheAmount == Spec => []LimitCovered
<1>1. Init => SignInv
  BY DEF Init, SignInv, LimitCovered
<1>2. SignInv => LimitCovered
  BY DEF SignInv
<1> QED BY <1>1, <1>2, SignInvStep, TypeCorrect, PTL DEF Spec

-----------------------------------------------------------------------------
(* An amount only an unlimited role covers *)

NoHigherRiskGranted ==
    \A a \in ApprovalIds : approvals[a].higherRisk => approvals[a].status # "APPROVED"

\* Financial Control waits for a signature with a limit, and there will be none.
NoCoSigner ==
    /\ NoHigherRiskGranted
    /\ \A a \in ApprovalIds : signatures[a] \subseteq Primary
    /\ \A w \in Workers : pc[w] = "sign" => job[w].approver \in Primary

LEMMA NoCoSignerStep ==
    ASSUME Primary \subseteq Unlimited, Primary \cap FinancialControl = {}
    PROVE  TypeInv /\ NoCoSigner /\ [Next]_vars => NoCoSigner'
<1> SUFFICES ASSUME TypeInv, NoCoSigner, [Next]_vars PROVE NoCoSigner'
  OBVIOUS
<1>1. CASE UNCHANGED vars
  BY <1>1 DEF vars, NoCoSigner, NoHigherRiskGranted
<1>2. ASSUME NEW w \in Workers, Call(w) \/ Work(w) \/ Crash(w) PROVE NoCoSigner'
  <2>1. ASSUME NEW v \in Workers, pc'[v] = "sign" PROVE job'[v].approver \in Primary
    <3>1. CASE v # w
      BY <1>2, <2>1, <3>1, OthersStay DEF NoCoSigner
    <3>2. CASE v = w
      <4>1. AcceptSigner(w)
        BY <1>2, <2>1, <3>2, OnlyAcceptedSign
      <4>2. /\ Sufficient(job[w].approver, signatures[job[w].approval], TRUE)
                   \/ Sufficient(job[w].approver, signatures[job[w].approval], FALSE)
            /\ job' = job /\ job[w].approval \in ApprovalIds
        BY <4>1, WorkerTypes
        DEF AcceptSigner, Admit, ReadSignatures, Signers, Resolving
      <4>3. signatures[job[w].approval] \cap (Primary \ Unlimited) = {}
        OBVIOUS
      <4> QED BY <3>2, <4>2, <4>3 DEF Sufficient
    <3> QED BY <3>1, <3>2
  <2>2. CASE ~Sign(w) /\ ~Reject(w) /\ ~RequestApproval(w)
    BY <1>2, <2>1, <2>2, QuietSteps DEF NoCoSigner, NoHigherRiskGranted
  <2>3. CASE Reject(w)
    <3>1. /\ signatures' = signatures
          /\ \E p : approvals' = [approvals EXCEPT ![job[w].approval].status = "REJECTED",
                                                   ![job[w].approval].decidedBy = p]
      BY <2>3 DEF Reject
    <3> QED BY <2>1, <3>1
        DEF NoCoSigner, NoHigherRiskGranted, TypeInv, TypeOK, ApprovalRow
  <2>4. CASE RequestApproval(w)
    <3> PICK o \in Outcomes, a \in ApprovalIds :
            approvals' = [approvals EXCEPT ![a] =
                 [ run |-> job[w].run, status |-> "PENDING", outcome |-> o,
                   higherRisk |-> copy[w].higherRisk, decidedBy |-> None ]]
      BY <2>4 DEF RequestApproval, Recommendable, Consequential, Outcomes
    <3>1. signatures' = signatures
      BY <2>4 DEF RequestApproval
    <3> QED BY <2>1, <3>1 DEF NoCoSigner, NoHigherRiskGranted, TypeInv, TypeOK
  <2>5. CASE Sign(w)
    <3> PICK b \in ApprovalIds : b = job[w].approval
      BY <2>5, WorkerTypes, SignLeaves DEF Resolving
    <3> PICK row \in ApprovalRow : row = approvals[b]
      BY DEF TypeInv, TypeOK
    <3> PICK signed : signed = signatures[b] \cup {job[w].approver}
      OBVIOUS
    <3>1. pc[w] = "sign" /\ signatures' = [signatures EXCEPT ![b] = signed]
      BY <2>5, SignLeaves, Zenon DEF Sign
    <3>2. signed \subseteq Primary
      <4>1. job[w].approver \in Primary /\ signatures[b] \subseteq Primary
        BY <3>1 DEF NoCoSigner
      <4> QED BY <4>1
    <3>3. \A a \in ApprovalIds : signatures'[a] \subseteq Primary
      BY <3>1, <3>2 DEF NoCoSigner, TypeInv, TypeOK
    <3>4. RequirementMet(row, signed) => ~row.higherRisk
      BY <3>2 DEF RequirementMet
    <3>5. \/ approvals' = approvals
          \/ /\ RequirementMet(row, signed)
             /\ \E last : approvals' = [approvals EXCEPT ![b] =
                              [row EXCEPT !.status = "APPROVED", !.decidedBy = last]]
      BY <2>5, Zenon DEF Sign
    <3>6. CASE approvals' = approvals
      BY <2>1, <3>3, <3>6 DEF NoCoSigner, NoHigherRiskGranted
    <3>7. ASSUME NEW last, ~row.higherRisk,
                 approvals' = [approvals EXCEPT ![b] =
                                 [row EXCEPT !.status = "APPROVED", !.decidedBy = last]]
          PROVE  NoHigherRiskGranted'
      BY <3>7 DEF NoCoSigner, NoHigherRiskGranted, TypeInv, TypeOK, ApprovalRow
    <3>8. NoHigherRiskGranted'
      BY <3>4, <3>5, <3>6, <3>7, Zenon DEF NoCoSigner
    <3> QED BY <2>1, <3>3, <3>8 DEF NoCoSigner
  <2> QED BY <2>2, <2>3, <2>4, <2>5
<1> QED BY <1>1, <1>2 DEF Next

\* The refusal that refutes CoSignerAdmitted is no matter of who comes first: of an amount
\* that none but unlimited roles cover, and Financial Control does not, a higher-risk case
\* is never granted, whoever signs, in whatever order and however often (authorise_signature,
\* signature_requirement_met).
THEOREM UnlimitedCasesAreNeverGranted ==
    ASSUME Primary \subseteq Unlimited, Primary \cap FinancialControl = {}
    PROVE  Spec => []NoHigherRiskGranted
<1>1. Init => NoCoSigner
  BY DEF Init, NoCoSigner, NoHigherRiskGranted, NoApproval
<1>2. NoCoSigner => NoHigherRiskGranted
  BY DEF NoCoSigner
<1>3. TypeInv /\ NoCoSigner /\ [Next]_vars => NoCoSigner'
  BY NoCoSignerStep
<1> QED BY <1>1, <1>2, <1>3, TypeCorrect, PTL DEF Spec

-----------------------------------------------------------------------------
(* One decision, one announcement *)

LEMMA OnlyAnnounceAnnounces ==
    ASSUME NEW w \in Workers, Call(w) \/ Work(w) \/ Crash(w), ~Announce(w)
    PROVE  UNCHANGED announced
<1>1. CASE Call(w) \/ Crash(w) \/ StaleWrite(w)
  BY <1>1 DEF Call, Start, Resume, Deliver, Crash, StaleWrite, store
<1>2. CASE Resolve(w)
  BY <1>2
  DEF Resolve, ReadApproval, AnswerReplay, RefuseSigner, AcceptSigner, AcceptRejection,
      Admit, SaveRefusal, Sign, Reject, RejectAgain, Contradicted, Reload, Collect, Hold,
      Open, Save, store
<1>3. CASE Drive(w)
  BY <1>3
  DEF Drive, ExhaustSteps, ReadPhase, ModelFails, RecommendHold, RequestApproval, Park,
      PassGate, GateRefuses, CheckTool, RecordFirst, RecordAgain, RecordConflict, Complete,
      Fail, Save, store
<1> QED BY <1>1, <1>2, <1>3 DEF Work

LEMMA OnlyFirstAnnounced ==
    ASSUME TypeInv, NEW w \in Workers, Call(w) \/ Work(w) \/ Crash(w), pc'[w] = "announce"
    PROVE  RecordFirst(w)
<1> USE DEF TypeInv, TypeOK
<1>1. CASE Call(w)
  BY <1>1 DEF Call, Start, Resume, Deliver, Begin, GoTo
<1>2. CASE Crash(w) \/ StaleWrite(w)
  BY <1>2 DEF Crash, StaleWrite, Release
<1>3. CASE Resolve(w)
  BY <1>3
  DEF Resolve, ReadApproval, AnswerReplay, RefuseSigner, AcceptSigner, AcceptRejection,
      Admit, SaveRefusal, Sign, Reject, RejectAgain, Contradicted, Reload, Collect, Hold,
      Open, Save, Release, GoTo, AfterSignature
<1>4. CASE Drive(w)
  BY <1>4
  DEF Drive, ExhaustSteps, ReadPhase, ModelFails, RecommendHold, RequestApproval, Park,
      PassGate, GateRefuses, CheckTool, RecordAgain, RecordConflict, Announce,
      Complete, Fail, Save, Release, GoTo
<1> QED BY <1>1, <1>2, <1>3, <1>4 DEF Work

\* A worker about to announce is the only one, and nobody has announced before it.
LedgerInv ==
    /\ OneDecisionPerInvoice
    /\ AnnouncedAtMostOnce
    /\ \A w \in Workers : pc[w] = "announce" =>
          Decided(job[w].run) /\ announced[job[w].run] = 0
    /\ \A v, w \in Workers :
          (v # w /\ pc[v] = "announce" /\ pc[w] = "announce") => job[v].run # job[w].run

\* What the ledger answers to a first decision, and what it holds afterwards.
LEMMA FirstDecision ==
    ASSUME TypeInv, AuthInv, NEW w \in Workers, RecordFirst(w), NEW r, r = job[w].run
    PROVE  /\ r \in RunIds /\ ~Decided(r) /\ Decided(r)'
           /\ \A q \in RunIds : Decided(q) => Invoice[q] # Invoice[r]
           /\ decisions' = [decisions EXCEPT ![r] = DecisionOf(w)]
<1>1. r \in RunIds
  BY WorkerTypes DEF RecordFirst
<1>2. Ruling(r, DecisionOf(w)) = "FIRST"
  BY DEF RecordFirst
<1>3. /\ ~Decided(r)
      /\ \A q \in RunIds : Decided(q) => Invoice[q] # Invoice[r]
  BY <1>2 DEF Ruling, Decided
<1>4. decisions' = [decisions EXCEPT ![r] = DecisionOf(w)]
  BY DEF RecordFirst
<1>5. DecisionOf(w).approval \in ApprovalIds
  BY DEF AuthInv, Covers, RecordFirst, DecisionOf
<1>6. decisions'[r].approval # None
  BY <1>1, <1>4, <1>5, IdentityAssumption DEF TypeInv, TypeOK
<1>7. Decided(r)'
  BY <1>6 DEF Decided, NoDecision
<1> QED BY <1>1, <1>3, <1>4, <1>7

LEMMA LedgerInvStep == TypeInv /\ AuthInv /\ LedgerInv /\ [Next]_vars => LedgerInv'
<1> SUFFICES ASSUME TypeInv, AuthInv, LedgerInv, [Next]_vars PROVE LedgerInv'
  OBVIOUS
<1>1. CASE UNCHANGED vars
  BY <1>1 DEF vars, LedgerInv, OneDecisionPerInvoice, AnnouncedAtMostOnce, Decided
<1>2. ASSUME NEW w \in Workers, Call(w) \/ Work(w) \/ Crash(w) PROVE LedgerInv'
  <2>a. \A v \in Workers : v # w => UNCHANGED << pc[v], job[v] >>
    BY <1>2, OthersStay
  <2>1. CASE RecordFirst(w)
    <3> PICK r \in RunIds : r = job[w].run
      BY <2>1, WorkerTypes DEF RecordFirst
    <3>1. /\ r \in RunIds /\ ~Decided(r) /\ Decided(r)'
          /\ \A q \in RunIds : Decided(q) => Invoice[q] # Invoice[r]
          /\ decisions' = [decisions EXCEPT ![r] = DecisionOf(w)]
      BY <2>1, FirstDecision
    <3>2. UNCHANGED << announced, job >> /\ pc' = [pc EXCEPT ![w] = "announce"]
      BY <2>1 DEF RecordFirst, GoTo
    <3>3. announced[r] = 0
      BY <3>1 DEF LedgerInv, AnnouncedAtMostOnce, TypeInv, TypeOK
    <3>4. \A q \in RunIds : q # r => decisions'[q] = decisions[q]
      BY <3>1 DEF TypeInv, TypeOK
    <3>5. \A v \in Workers : (v # w /\ pc[v] = "announce") => job[v].run # r
      BY <3>1 DEF LedgerInv
    <3>6. OneDecisionPerInvoice'
      BY <3>1, <3>4 DEF LedgerInv, OneDecisionPerInvoice, Decided
    <3>7. AnnouncedAtMostOnce'
      BY <3>1, <3>2, <3>3, <3>4 DEF LedgerInv, AnnouncedAtMostOnce, Decided
    <3>8. \A v \in Workers : pc'[v] = "announce" =>
              Decided(job[v].run)' /\ announced'[job'[v].run] = 0
      BY <3>1, <3>2, <3>3, <3>4, WorkerTypes DEF LedgerInv, Decided, TypeInv, TypeOK
    <3>9. \A u, v \in Workers :
              (u # v /\ pc'[u] = "announce" /\ pc'[v] = "announce") =>
                  job'[u].run # job'[v].run
      BY <3>2, <3>5 DEF LedgerInv, TypeInv, TypeOK
    <3> QED BY <3>6, <3>7, <3>8, <3>9 DEF LedgerInv
  <2>2. CASE Announce(w)
    <3> DEFINE r == job[w].run
    <3>1. /\ r \in RunIds /\ pc[w] = "announce"
          /\ announced' = [announced EXCEPT ![r] = @ + 1]
          /\ pc' = [pc EXCEPT ![w] = "complete"]
          /\ UNCHANGED << decisions, job >>
      BY <2>2, WorkerTypes DEF Announce, GoTo
    <3>2. announced'[r] = 1 /\ Decided(r)
      BY <3>1 DEF LedgerInv, TypeInv, TypeOK
    <3>3. \A q \in RunIds : q # r => announced'[q] = announced[q]
      BY <3>1 DEF TypeInv, TypeOK
    <3>4. AnnouncedAtMostOnce'
      BY <3>1, <3>2, <3>3 DEF LedgerInv, AnnouncedAtMostOnce, Decided
    <3>5. \A v \in Workers : pc'[v] = "announce" =>
              /\ v # w /\ pc[v] = "announce" /\ job'[v].run = job[v].run
              /\ job[v].run # r /\ job[v].run \in RunIds
      BY <3>1, WorkerTypes DEF LedgerInv, TypeInv, TypeOK
    <3> QED
      BY <3>1, <3>3, <3>4, <3>5 DEF LedgerInv, OneDecisionPerInvoice, Decided
  <2>3. CASE ~RecordFirst(w) /\ ~Announce(w)
    <3>1. UNCHANGED << decisions, announced >>
      BY <1>2, <2>3, OnlyAnnounceAnnounces, OnlyRecordDecides
    <3>2. pc'[w] # "announce"
      BY <1>2, <2>3, OnlyFirstAnnounced
    <3> QED
      BY <2>a, <3>1, <3>2
      DEF LedgerInv, OneDecisionPerInvoice, AnnouncedAtMostOnce, Decided
  <2> QED BY <2>1, <2>2, <2>3
<1> QED BY <1>1, <1>2 DEF Next

LEMMA InitAuth == Init => AuthInv
BY DEF Init, AuthInv, Decided

THEOREM LedgerHolds == Spec => [](TypeInv /\ AuthInv /\ LedgerInv)
<1>1. Init => LedgerInv
  BY DEF Init, LedgerInv, OneDecisionPerInvoice, AnnouncedAtMostOnce, Decided
<1> QED BY <1>1, InitAuth, AuthInvStep, LedgerInvStep, TypeCorrect, PTL DEF Spec

\* An invoice is decided on at most once, in however many runs and workers.
THEOREM InvoicesDecidedOnce == Spec => []OneDecisionPerInvoice
<1>1. LedgerInv => OneDecisionPerInvoice
  BY DEF LedgerInv
<1> QED BY <1>1, LedgerHolds, PTL

\* The record announces a decision at most once, and only one that was taken.
THEOREM AnnouncementsAreOnce == Spec => []AnnouncedAtMostOnce
<1>1. LedgerInv => AnnouncedAtMostOnce
  BY DEF LedgerInv
<1> QED BY <1>1, LedgerHolds, PTL

-----------------------------------------------------------------------------
(* The step budget *)

\* Where a phase has been entered and is still to be counted.
Entered == {"park", "tool", "record", "announce", "complete"}

BudgetInv ==
    /\ StepsWithinBudget
    /\ \A w \in Workers :
          /\ copy[w].steps <= copy[w].budget
          /\ pc[w] \in Entered => copy[w].steps < copy[w].budget

\* What save_run leaves behind.
LEMMA Saved ==
    ASSUME TypeInv, NEW w \in Workers, pc[w] # "idle", NEW s \in RunState,
           NEW next \in {"idle", "drive"}, Save(w, s, next), NEW r, r = job[w].run
    PROVE  /\ r \in RunIds /\ runs[r].version = copy[w].version
           /\ runs' = [runs EXCEPT ![r] = [s EXCEPT !.version = @ + 1]]
           /\ runs'[r].version = s.version + 1
           /\ runs'[r].phase = s.phase /\ runs'[r].steps = s.steps
           /\ runs'[r].budget = s.budget /\ runs'[r].approval = s.approval
           /\ runs'[r].outcome = s.outcome /\ runs'[r].vendorBlocks = s.vendorBlocks
           /\ runs'[r].decided = s.decided
           /\ \A q \in RunIds : q # r => runs'[q] = runs[q]
           /\ UNCHANGED << approvals, signatures, decisions, announced, crashes >>
           /\ next = "idle" => Release(w)
           /\ next = "drive" =>
                 /\ pc' = [pc EXCEPT ![w] = "drive"]
                 /\ copy' = [copy EXCEPT ![w] = runs'[r]]
                 /\ UNCHANGED << job, seen >>
<1> DEFINE saved == [s EXCEPT !.version = @ + 1]
<1>1. /\ saved.version = s.version + 1 /\ saved.phase = s.phase /\ saved.steps = s.steps
      /\ saved.budget = s.budget /\ saved.approval = s.approval
      /\ saved.outcome = s.outcome /\ saved.vendorBlocks = s.vendorBlocks
      /\ saved.decided = s.decided
  BY DEF RunState
<1>2. /\ runs' = [runs EXCEPT ![r] = saved] /\ runs[r].version = copy[w].version
      /\ UNCHANGED << approvals, signatures, decisions, announced, crashes >>
  BY DEF Save, Fresh
<1>3. r \in RunIds
  BY WorkerTypes
<1>4. runs'[r] = saved /\ \A q \in RunIds : q # r => runs'[q] = runs[q]
  BY <1>2, <1>3 DEF TypeInv, TypeOK
<1>5. /\ next = "idle" => Release(w)
      /\ next = "drive" =>
            /\ pc' = [pc EXCEPT ![w] = "drive"]
            /\ copy' = [copy EXCEPT ![w] = saved]
            /\ UNCHANGED << job, seen >>
  BY DEF Save, GoTo
<1> HIDE DEF saved
<1>6. /\ runs'[r].version = s.version + 1
      /\ runs'[r].phase = s.phase /\ runs'[r].steps = s.steps
      /\ runs'[r].budget = s.budget /\ runs'[r].approval = s.approval
      /\ runs'[r].outcome = s.outcome /\ runs'[r].vendorBlocks = s.vendorBlocks
      /\ runs'[r].decided = s.decided
  BY <1>1, <1>4
<1>7. runs' = [runs EXCEPT ![r] = [s EXCEPT !.version = @ + 1]]
  BY <1>2 DEF saved
<1> QED BY <1>2, <1>3, <1>4, <1>5, <1>6, <1>7

LEMMA FreshFits ==
    /\ FreshRun.steps = 0 /\ FreshRun.budget = 0 /\ FreshRun.version = 0
    /\ FreshRun.phase = "INTAKE" /\ FreshRun.approval = None /\ FreshRun.decided = FALSE
BY DEF FreshRun

\* A state within its budget is saved.
LEMMA SaveFits ==
    ASSUME TypeInv, BudgetInv, NEW w \in Workers, pc[w] # "idle", NEW s \in RunState,
           NEW next \in {"idle", "drive"}, Save(w, s, next), s.steps <= s.budget
    PROVE  BudgetInv'
<1> DEFINE r == job[w].run
<1>1. /\ r \in RunIds
      /\ runs'[r].steps = s.steps /\ runs'[r].budget = s.budget
      /\ \A q \in RunIds : q # r => runs'[q] = runs[q]
      /\ next = "idle" => Release(w)
      /\ next = "drive" =>
            pc' = [pc EXCEPT ![w] = "drive"] /\ copy' = [copy EXCEPT ![w] = runs'[r]]
  BY Saved
<1>2. StepsWithinBudget'
  BY <1>1 DEF BudgetInv, StepsWithinBudget
<1>3. CASE next = "idle"
  BY <1>1, <1>2, <1>3, FreshFits DEF Release, BudgetInv, Entered, TypeInv, TypeOK
<1>4. CASE next = "drive"
  BY <1>1, <1>2, <1>4 DEF BudgetInv, Entered, TypeInv, TypeOK
<1> QED BY <1>3, <1>4

\* A step that writes no run and leaves the worker's copy within its budget.
LEMMA LocalFits ==
    ASSUME TypeInv, BudgetInv, NEW w \in Workers, UNCHANGED runs,
           \A v \in Workers : v # w => UNCHANGED << pc[v], copy[v] >>,
           copy'[w].steps <= copy'[w].budget,
           pc'[w] \in Entered => copy'[w].steps < copy'[w].budget
    PROVE  BudgetInv'
BY DEF BudgetInv, StepsWithinBudget

LEMMA BudgetInvStep == TypeInv /\ BudgetInv /\ [Next]_vars => BudgetInv'
<1> SUFFICES ASSUME TypeInv, BudgetInv, [Next]_vars PROVE BudgetInv'
  OBVIOUS
<1>1. CASE UNCHANGED vars
  BY <1>1 DEF vars, BudgetInv, StepsWithinBudget
<1>2. ASSUME NEW w \in Workers, Call(w) \/ Work(w) \/ Crash(w) PROVE BudgetInv'
  <2>a. /\ \A v \in Workers : v # w => UNCHANGED << pc[v], copy[v] >>
        /\ copy[w] \in RunState /\ copy[w].steps <= copy[w].budget
        /\ pc[w] \in Entered => copy[w].steps < copy[w].budget
    BY <1>2, OthersStay, WorkerTypes DEF BudgetInv
  <2>b. ASSUME Release(w), UNCHANGED runs PROVE BudgetInv'
    <3>1. copy'[w] = FreshRun /\ pc'[w] = "idle"
      BY <2>b DEF Release, TypeInv, TypeOK
    <3> QED BY <2>a, <2>b, <3>1, LocalFits, FreshFits DEF Entered
  <2>c. ASSUME NEW l, GoTo(w, l), UNCHANGED << runs, copy >>,
               l \in Entered => pc[w] \in Entered \/ ~Exhausted(copy[w])
        PROVE  BudgetInv'
    <3>1. pc'[w] = l
      BY <2>c DEF GoTo, TypeInv, TypeOK
    <3> QED BY <2>a, <2>c, <3>1, LocalFits DEF Exhausted, RunState
  <2>1. CASE Call(w)
    <3>1. PICK r \in RunIds :
              \/ Start(w, r)
              \/ Resume(w, r)
              \/ \E a \in ApprovalIds, p \in Approvers, v \in {"APPROVED", "REJECTED"} :
                    Deliver(w, r, a, p, v)
      BY <2>1 DEF Call
    <3>2. CASE Start(w, r)
      <4>1. PICK limit \in StepBudgets :
                /\ runs' = [runs EXCEPT ![r] =
                              [FreshRun EXCEPT !.version = 1, !.budget = limit]]
                /\ copy' = [copy EXCEPT ![w] =
                              [FreshRun EXCEPT !.version = 1, !.budget = limit]]
                /\ pc' = [pc EXCEPT ![w] = "drive"]
        BY <3>2 DEF Start, Begin, GoTo
      <4>2. /\ [FreshRun EXCEPT !.version = 1, !.budget = limit].steps = 0
            /\ [FreshRun EXCEPT !.version = 1, !.budget = limit].budget = limit
            /\ 0 <= limit
        BY BoundAssumption DEF FreshRun
      <4> QED BY <4>1, <4>2 DEF BudgetInv, StepsWithinBudget, Entered, TypeInv, TypeOK
    <3>3. CASE Resume(w, r)
      BY <3>3 DEF Resume, Begin, GoTo, store, BudgetInv, StepsWithinBudget, Entered, TypeInv, TypeOK
    <3>4. ASSUME NEW a \in ApprovalIds, NEW p \in Approvers,
                 NEW v \in {"APPROVED", "REJECTED"}, Deliver(w, r, a, p, v)
          PROVE  BudgetInv'
      BY <3>4 DEF Deliver, Begin, GoTo, store, BudgetInv, StepsWithinBudget, Entered, TypeInv, TypeOK
    <3> QED BY <3>1, <3>2, <3>3, <3>4
  <2>2. CASE Crash(w) \/ StaleWrite(w) \/ AnswerReplay(w) \/ Contradicted(w) \/ RecordConflict(w)
    BY <2>2, <2>b DEF Crash, StaleWrite, AnswerReplay, Contradicted, RecordConflict, store
  <2>3. CASE SaveRefusal(w) \/ Collect(w)
    BY <2>3, <2>a, SaveFits DEF SaveRefusal, Collect
  <2>4. CASE Hold(w)
    <3>1. /\ [copy[w] EXCEPT !.phase = "HELD"] \in RunState
          /\ [copy[w] EXCEPT !.phase = "HELD"].steps = copy[w].steps
          /\ [copy[w] EXCEPT !.phase = "HELD"].budget = copy[w].budget
      BY <2>a DEF RunState, Phases, TerminalPhases
    <3> QED BY <2>4, <2>a, <3>1, SaveFits DEF Hold
  <2>5. CASE Open(w)
    <3>1. /\ [copy[w] EXCEPT !.phase = "EXECUTE_DECISION"] \in RunState
          /\ [copy[w] EXCEPT !.phase = "EXECUTE_DECISION"].steps = copy[w].steps
          /\ [copy[w] EXCEPT !.phase = "EXECUTE_DECISION"].budget = copy[w].budget
      BY <2>a DEF RunState, Phases
    <3> QED BY <2>5, <2>a, <3>1, SaveFits DEF Open
  <2>6. CASE Fail(w)
    <3>1. /\ [copy[w] EXCEPT !.phase = "FAILED"] \in RunState
          /\ [copy[w] EXCEPT !.phase = "FAILED"].steps = copy[w].steps
          /\ [copy[w] EXCEPT !.phase = "FAILED"].budget = copy[w].budget
      BY <2>a DEF RunState, Phases, TerminalPhases
    <3> QED BY <2>6, <2>a, <3>1, SaveFits DEF Fail
  <2>7. ASSUME NEW s \in RunState, NEW next \in Phases, s.steps < s.budget
        PROVE  Advanced(s, next) \in RunState /\ Advanced(s, next).steps <= Advanced(s, next).budget
    <3>1. Advanced(s, next) \in RunState
      BY AdvancedTypes
    <3>2. Advanced(s, next).steps = s.steps + 1 /\ Advanced(s, next).budget = s.budget
      BY DEF Advanced, RunState
    <3> QED BY <2>7, <3>1, <3>2 DEF RunState
  <2>8. CASE ReadPhase(w)
    <3>1. PICK s \in Established(copy[w]) : Save(w, Advanced(s, NextPhase[s.phase]), "drive")
      BY <2>8 DEF ReadPhase
    <3>2. /\ s \in RunState /\ s.steps = copy[w].steps /\ s.budget = copy[w].budget
          /\ s.phase = copy[w].phase
      BY <2>a, BoundAssumption DEF Established, RunState
    <3>3. NextPhase[s.phase] \in Phases
      BY <2>8, <3>2 DEF ReadPhase, Driving, NextPhase, Phases, ReadOnlyPhases
    <3>4. pc[w] # "idle" /\ s.steps < s.budget
      BY <2>8, <2>a, <3>2 DEF ReadPhase, Driving, Exhausted, RunState
    <3> QED BY <2>7, <3>1, <3>2, <3>3, <3>4, SaveFits
  <2>9. CASE Park(w)
    <3>1. AfterRecommend(copy[w].outcome) \in Phases
      BY DEF AfterRecommend, Phases, TerminalPhases
    <3>2. pc[w] = "park" /\ copy[w].steps < copy[w].budget
      BY <2>9, <2>a DEF Park, Entered
    <3> QED BY <2>9, <2>a, <2>7, <3>1, <3>2, SaveFits DEF Park
  <2>10. CASE Complete(w)
    <3>1. "COMPLETED" \in Phases
      BY DEF Phases, TerminalPhases
    <3>2. pc[w] = "complete" /\ copy[w].steps < copy[w].budget
      BY <2>10, <2>a DEF Complete, Entered
    <3> QED BY <2>10, <2>a, <2>7, <3>1, <3>2, SaveFits DEF Complete
  <2>11. CASE ReadApproval(w) \/ RefuseSigner(w) \/ AcceptSigner(w) \/ AcceptRejection(w)
              \/ Sign(w) \/ Reject(w) \/ RejectAgain(w)
    BY <2>11, <2>c
    DEF ReadApproval, RefuseSigner, AcceptSigner, AcceptRejection, Admit, Sign, Reject,
        RejectAgain, AfterSignature, Entered, store
  <2>12. CASE Reload(w)
    <3>1. CASE Release(w)
      BY <2>12, <2>b, <3>1 DEF Reload, store
    <3>2. CASE ~Release(w)
      <4>1. /\ job[w].run \in RunIds /\ UNCHANGED runs
            /\ copy'[w] = runs[job[w].run] /\ pc'[w] \in {"hold", "open", "collect"}
        BY <2>12, <3>2, WorkerTypes DEF Reload, GoTo, TypeInv, TypeOK, store
      <4> QED BY <2>a, <4>1, LocalFits DEF Entered, BudgetInv, StepsWithinBudget
    <3> QED BY <3>1, <3>2
  <2>13. CASE ExhaustSteps(w) \/ ModelFails(w) \/ PassGate(w) \/ GateRefuses(w)
    BY <2>13, <2>c
    DEF ExhaustSteps, ModelFails, PassGate, GateRefuses, Driving, Entered, store
  <2>14. CASE CheckTool(w) \/ Announce(w)
    BY <2>14, <2>c DEF CheckTool, Announce, Entered, store
  <2>15. CASE RecommendHold(w) \/ RequestApproval(w) \/ RecordFirst(w) \/ RecordAgain(w)
    <3>1. UNCHANGED runs /\ copy[w].steps < copy[w].budget
      BY <2>15, <2>a
      DEF RecommendHold, RequestApproval, RecordFirst, RecordAgain, Driving, Exhausted,
          Entered, RunState, store
    <3>2. copy'[w].steps = copy[w].steps /\ copy'[w].budget = copy[w].budget
      <4>1. CASE RecommendHold(w)
        BY <2>a, <4>1 DEF RecommendHold, TypeInv, TypeOK, RunState
      <4>2. CASE RequestApproval(w)
        <5> PICK o \in Recommendable(copy[w]) \cap Consequential, a \in ApprovalIds :
                copy' = [copy EXCEPT ![w].outcome = o, ![w].approval = a]
          BY <4>2 DEF RequestApproval
        <5>1. copy'[w] = [copy[w] EXCEPT !.outcome = o, !.approval = a]
          BY DEF TypeInv, TypeOK
        <5>2. \A t \in RunState :
                  /\ [t EXCEPT !.outcome = o, !.approval = a].steps = t.steps
                  /\ [t EXCEPT !.outcome = o, !.approval = a].budget = t.budget
          BY DEF RunState
        <5> QED BY <2>a, <5>1, <5>2
      <4>3. CASE RecordFirst(w) \/ RecordAgain(w)
        BY <2>a, <4>3 DEF RecordFirst, RecordAgain, TypeInv, TypeOK, RunState
      <4> QED BY <2>15, <4>1, <4>2, <4>3
    <3> QED BY <2>a, <3>1, <3>2, LocalFits DEF RunState
  <2> QED
    BY <1>2, <2>1, <2>2, <2>3, <2>4, <2>5, <2>6, <2>8, <2>9, <2>10, <2>11, <2>12, <2>13,
       <2>14, <2>15
    DEF Work, Resolve, Drive
<1> QED BY <1>1, <1>2 DEF Next

\* No run takes more steps than its budget, in retries and takeovers too.
THEOREM StepsStayWithinBudget == Spec => []StepsWithinBudget
<1>1. Init => BudgetInv
  BY FreshFits DEF Init, BudgetInv, StepsWithinBudget, Entered
<1>2. BudgetInv => StepsWithinBudget
  BY DEF BudgetInv
<1> QED BY <1>1, <1>2, BudgetInvStep, TypeCorrect, PTL DEF Spec
=============================================================================
