-------------------------- MODULE ApprovalGateProofs --------------------------
(***************************************************************************)
(* Theorems of ApprovalGate, for any number of runs, workers, approvers,   *)
(* approvals and crashes.                                                  *)
(***************************************************************************)
EXTENDS ApprovalGate, FiniteSetTheorems, TLAPS

-----------------------------------------------------------------------------
(* Types *)

\* Where a worker resolves an approval, its call names the approval and the approver.
Resolving ==
    { "approval", "signatures", "refuse", "sign", "reject", "reload",
      "collect", "hold", "open" }

\* A busy worker serves a call on some run; a resolving one, some person's on some approval.
Serving ==
    \A w \in Workers :
        /\ pc[w] # "idle" => job[w].run \in RunIds
        /\ pc[w] \in Resolving =>
              job[w].approval \in ApprovalIds /\ job[w].approver \in Approvers

TypeInv == TypeOK /\ Serving

LEMMA InitTypes == Init => TypeInv
BY IdentityAssumption
DEF Init, TypeInv, TypeOK, Serving, RunState, FreshRun, ApprovalRow, NoApproval,
    DecisionRow, NoDecision, Job, NoJob, Labels, Resolving, Phases, ReadOnlyPhases,
    TerminalPhases

\* The end of a call, whatever it was.
LEMMA ReleaseTypes ==
    ASSUME TypeInv, NEW w \in Workers, Release(w), UNCHANGED store, crashes' \in Nat
    PROVE  TypeInv'
<1>1. /\ NoJob \in Job /\ FreshRun \in RunState
      /\ "idle" \in Labels /\ "idle" \notin Resolving
  BY IdentityAssumption
  DEF NoJob, Job, FreshRun, RunState, Labels, Resolving, Phases, ReadOnlyPhases, TerminalPhases
<1>2. TypeOK'
  BY <1>1 DEF TypeInv, TypeOK, Release, store
<1>3. Serving'
  BY <1>1 DEF TypeInv, TypeOK, Serving, Release, store
<1> QED BY <1>2, <1>3 DEF TypeInv

\* A step that changes the worker's label, and perhaps its copy, and nothing else.
LEMMA GoToTypes ==
    ASSUME TypeInv, NEW w \in Workers, NEW label \in Labels, GoTo(w, label),
           pc[w] # "idle", label \in Resolving => pc[w] \in Resolving,
           copy' \in [Workers -> RunState], UNCHANGED << store, job, seen, crashes >>
    PROVE  TypeInv'
<1>1. TypeOK'
  BY DEF TypeInv, TypeOK, GoTo, store
<1>2. Serving'
  BY DEF TypeInv, TypeOK, Serving, GoTo, store
<1> QED BY <1>1, <1>2 DEF TypeInv

\* save_run of a well-formed state.
LEMMA SaveTypes ==
    ASSUME TypeInv, NEW w \in Workers, pc[w] # "idle", NEW s \in RunState,
           NEW next \in {"idle", "drive"}, Save(w, s, next)
    PROVE  TypeInv'
<1> DEFINE saved == [s EXCEPT !.version = @ + 1]
<1>1. saved \in RunState
  BY DEF RunState
<1>2. runs' = [runs EXCEPT ![job[w].run] = saved] /\ runs' \in [RunIds -> RunState]
  BY <1>1 DEF Save, TypeInv, TypeOK
<1>3. UNCHANGED << approvals, signatures, decisions, announced, crashes >>
  BY DEF Save
<1>4. CASE next = "idle"
  <2>1. Release(w)
    BY <1>4 DEF Save
  <2>2. /\ NoJob \in Job /\ FreshRun \in RunState
        /\ "idle" \in Labels /\ "idle" \notin Resolving
    BY IdentityAssumption
    DEF NoJob, Job, FreshRun, RunState, Labels, Resolving, Phases, ReadOnlyPhases,
        TerminalPhases
  <2>3. TypeOK'
    BY <1>2, <1>3, <2>1, <2>2 DEF TypeInv, TypeOK, Release
  <2>4. Serving'
    BY <1>3, <2>1, <2>2 DEF TypeInv, TypeOK, Serving, Release
  <2> QED BY <2>3, <2>4 DEF TypeInv
<1>5. CASE next = "drive"
  <2>1. /\ pc' = [pc EXCEPT ![w] = "drive"]
        /\ copy' = [copy EXCEPT ![w] = saved]
        /\ UNCHANGED << job, seen >>
    BY <1>5 DEF Save, GoTo
  <2>2. "drive" \in Labels /\ "drive" \notin Resolving
    BY DEF Labels, Resolving
  <2>3. TypeOK'
    BY <1>1, <1>2, <1>3, <2>1, <2>2 DEF TypeInv, TypeOK
  <2>4. Serving'
    BY <1>3, <2>1, <2>2 DEF TypeInv, TypeOK, Serving
  <2> QED BY <2>3, <2>4 DEF TypeInv
<1> QED BY <1>4, <1>5

\* What a worker sits on when it is about to do something.
LEMMA WorkerTypes ==
    ASSUME TypeInv, NEW w \in Workers
    PROVE  /\ copy[w] \in RunState /\ job[w] \in Job /\ pc[w] \in Labels
           /\ pc[w] # "idle" => job[w].run \in RunIds
           /\ pc[w] \in Resolving =>
                 job[w].approval \in ApprovalIds /\ job[w].approver \in Approvers
BY DEF TypeInv, TypeOK, Serving

LEMMA CallTypes == ASSUME TypeInv, NEW w \in Workers, Call(w) PROVE TypeInv'
<1> PICK r \in RunIds :
        \/ Start(w, r)
        \/ Resume(w, r)
        \/ \E a \in ApprovalIds, p \in Approvers, v \in {"APPROVED", "REJECTED"} :
              Deliver(w, r, a, p, v)
  BY DEF Call
<1> USE DEF Begin, GoTo
<1>a. /\ "drive" \in Labels /\ "drive" \notin Resolving
      /\ "approval" \in Labels
  BY DEF Labels, Resolving
<1>b. [NoJob EXCEPT !.run = r] \in Job /\ [NoJob EXCEPT !.run = r].run = r
  BY IdentityAssumption DEF NoJob, Job
<1>1. CASE Start(w, r)
  <2> DEFINE created(limit) == [FreshRun EXCEPT !.version = 1, !.budget = limit]
  <2>1. PICK limit \in StepBudgets :
            /\ Begin(w, [NoJob EXCEPT !.run = r], "drive")
            /\ runs' = [runs EXCEPT ![r] = created(limit)]
            /\ copy' = [copy EXCEPT ![w] = created(limit)]
            /\ UNCHANGED << approvals, signatures, decisions, announced, seen, crashes >>
    BY <1>1 DEF Start
  <2>2. created(limit) \in RunState
    BY BoundAssumption DEF FreshRun, RunState, Phases, ReadOnlyPhases
  <2> HIDE DEF created
  <2>3. TypeOK'
    BY <2>1, <2>2, <1>a, <1>b DEF TypeInv, TypeOK
  <2>4. Serving'
    BY <2>1, <1>a, <1>b DEF TypeInv, TypeOK, Serving
  <2> QED BY <2>3, <2>4 DEF TypeInv
<1>2. CASE Resume(w, r)
  <2>1. TypeOK'
    BY <1>2, <1>a, <1>b DEF Resume, TypeInv, TypeOK, store
  <2>2. Serving'
    BY <1>2, <1>a, <1>b DEF Resume, TypeInv, TypeOK, Serving, store
  <2> QED BY <2>1, <2>2 DEF TypeInv
<1>3. ASSUME NEW a \in ApprovalIds, NEW p \in Approvers, NEW v \in {"APPROVED", "REJECTED"},
             Deliver(w, r, a, p, v)
      PROVE  TypeInv'
  <2>1. [run |-> r, approval |-> a, approver |-> p, verdict |-> v] \in Job
    BY DEF Job
  <2>2. TypeOK'
    BY <1>3, <1>a, <2>1 DEF Deliver, TypeInv, TypeOK, store
  <2>3. Serving'
    BY <1>3, <1>a DEF Deliver, TypeInv, TypeOK, Serving, store
  <2> QED BY <2>2, <2>3 DEF TypeInv
<1> QED BY <1>1, <1>2, <1>3

LEMMA ResolveTypes == ASSUME TypeInv, NEW w \in Workers, Resolve(w) PROVE TypeInv'
<1>a. copy \in [Workers -> RunState] /\ crashes \in Nat
  BY DEF TypeInv, TypeOK
<1>b. Resolving \subseteq Labels /\ "idle" \notin Resolving
  BY DEF Resolving, Labels
<1>1. CASE ReadApproval(w)
  <2>1. approvals[job[w].approval].status \in ApprovalStatus \cup {"ABSENT"}
    BY <1>1, WorkerTypes DEF ReadApproval, TypeInv, TypeOK, ApprovalRow, Resolving
  <2>2. "signatures" \in Labels /\ "approval" \in Resolving
    BY DEF Labels, Resolving
  <2>3. TypeOK'
    BY <1>1, <2>1, <2>2 DEF ReadApproval, GoTo, TypeInv, TypeOK, store
  <2>4. Serving'
    BY <1>1, <2>2, WorkerTypes DEF ReadApproval, GoTo, TypeInv, TypeOK, Serving, store
  <2> QED BY <2>3, <2>4 DEF TypeInv
<1>2. CASE AnswerReplay(w)
  BY <1>2, <1>a, ReleaseTypes DEF AnswerReplay
<1>3. ASSUME NEW label \in {"refuse", "sign", "reject"}, Admit(w, label) PROVE TypeInv'
  <2>1. label \in Labels /\ pc[w] \in Resolving /\ pc[w] # "idle"
    BY <1>3 DEF Labels, Admit, ReadSignatures, Resolving
  <2> QED BY <1>3, <1>a, <2>1, GoToTypes DEF Admit
<1>4. CASE SaveRefusal(w)
  BY <1>4, SaveTypes, WorkerTypes DEF SaveRefusal
<1>5. CASE Sign(w)
  <2> DEFINE a == job[w].approval
             p == job[w].approver
             row == approvals[a]
             signed == signatures[a] \cup {p}
             met == RequirementMet(row, signed)
             replayed == p \in signatures[a]
  <2>1. /\ pc[w] \in Resolving /\ pc[w] # "idle"
        /\ a \in ApprovalIds /\ p \in Approvers /\ row \in ApprovalRow
    BY <1>5, WorkerTypes DEF Sign, Resolving, TypeInv, TypeOK
  <2>2. signatures' = [signatures EXCEPT ![a] = signed]
    BY <1>5 DEF Sign
  <2>3. signatures' \in [ApprovalIds -> SUBSET Approvers] /\ signed \subseteq Approvers
    BY <2>1, <2>2 DEF TypeInv, TypeOK
  <2>4. approvals' \in [ApprovalIds -> ApprovalRow]
    <3>1. CASE UNCHANGED approvals
      BY <3>1 DEF TypeInv, TypeOK
    <3>2. ASSUME NEW last \in LastSigners(row, signed, p),
                 approvals' = [approvals EXCEPT ![a] =
                                 [row EXCEPT !.status = "APPROVED", !.decidedBy = last]]
          PROVE  approvals' \in [ApprovalIds -> ApprovalRow]
      <4>1. last \in Approvers \cup {None}
        BY <2>1, <2>3 DEF LastSigners, ApprovalRow
      <4>2. [row EXCEPT !.status = "APPROVED", !.decidedBy = last] \in ApprovalRow
        BY <2>1, <4>1 DEF ApprovalRow, ApprovalStatus
      <4> QED BY <3>2, <4>2 DEF TypeInv, TypeOK
    <3> QED BY <1>5, <3>1, <3>2 DEF Sign
  <2>5. AfterSignature(met, replayed) \in Resolving
    BY DEF AfterSignature, Resolving
  <2>6. /\ pc' = [pc EXCEPT ![w] = AfterSignature(met, replayed)]
        /\ seen' = [seen EXCEPT ![w] = IF met THEN "APPROVED" ELSE "PENDING"]
        /\ UNCHANGED << runs, decisions, announced, job, copy, crashes >>
    BY <1>5 DEF Sign, GoTo
  <2>7. (IF met THEN "APPROVED" ELSE "PENDING") \in ApprovalStatus \cup {"ABSENT"}
    BY DEF ApprovalStatus
  <2> HIDE DEF met, replayed
  <2>8. TypeOK'
    BY <1>b, <2>3, <2>4, <2>5, <2>6, <2>7 DEF TypeInv, TypeOK
  <2>9. Serving'
    BY <2>1, <2>6, WorkerTypes DEF TypeInv, TypeOK, Serving
  <2> QED BY <2>8, <2>9 DEF TypeInv
<1>6. CASE Reject(w)
  <2>1. /\ pc[w] \in Resolving /\ job[w].approval \in ApprovalIds
        /\ job[w].approver \in Approvers
    BY <1>6, WorkerTypes DEF Reject, Resolving
  <2>2. approvals' \in [ApprovalIds -> ApprovalRow]
    BY <1>6, <2>1 DEF Reject, TypeInv, TypeOK, ApprovalRow, ApprovalStatus
  <2>3. "hold" \in Labels /\ "hold" \in Resolving
    BY DEF Labels, Resolving
  <2>4. TypeOK'
    BY <1>6, <2>2, <2>3 DEF Reject, GoTo, TypeInv, TypeOK
  <2>5. Serving'
    BY <1>6, <1>b, <2>1, WorkerTypes DEF Reject, GoTo, TypeInv, TypeOK, Serving
  <2> QED BY <2>4, <2>5 DEF TypeInv
<1>7. CASE RejectAgain(w)
  <2>1. "reload" \in Labels /\ pc[w] \in Resolving /\ pc[w] # "idle"
    BY <1>7 DEF RejectAgain, Labels, Resolving
  <2> QED BY <1>7, <1>a, <2>1, GoToTypes DEF RejectAgain
<1>8. CASE Contradicted(w)
  BY <1>8, <1>a, ReleaseTypes DEF Contradicted
<1>9. CASE Reload(w)
  <2> DEFINE stored == runs[job[w].run]
             next == IF Rejecting(w) THEN "hold"
                     ELSE IF seen[w] = "APPROVED" THEN "open" ELSE "collect"
  <2>1. CASE stored.phase \in TerminalPhases
    BY <1>9, <1>a, <2>1, ReleaseTypes DEF Reload
  <2>2. CASE stored.phase \notin TerminalPhases
    <3>1. /\ pc[w] \in Resolving /\ pc[w] # "idle"
          /\ next \in Resolving /\ next \in Labels
      BY <1>9 DEF Reload, Resolving, Labels
    <3>2. stored \in RunState
      BY <1>9, <3>1, WorkerTypes DEF TypeInv, TypeOK
    <3>3. copy' \in [Workers -> RunState]
      BY <1>9, <2>2, <3>2 DEF Reload, TypeInv, TypeOK
    <3>4. GoTo(w, next) /\ UNCHANGED << store, job, seen, crashes >>
      BY <1>9, <2>2 DEF Reload
    <3> HIDE DEF next
    <3> QED BY <3>1, <3>3, <3>4, GoToTypes
  <2> QED BY <2>1, <2>2
<1>10. CASE Collect(w)
  BY <1>10, SaveTypes, WorkerTypes DEF Collect
<1>11. CASE Hold(w)
  <2>1. [copy[w] EXCEPT !.phase = "HELD"] \in RunState
    BY WorkerTypes DEF RunState, Phases, TerminalPhases
  <2> QED BY <1>11, <2>1, SaveTypes DEF Hold
<1>12. CASE Open(w)
  <2>1. [copy[w] EXCEPT !.phase = "EXECUTE_DECISION"] \in RunState
    BY WorkerTypes DEF RunState, Phases
  <2> QED BY <1>12, <2>1, SaveTypes DEF Open
<1> QED
  BY <1>1, <1>2, <1>3, <1>4, <1>5, <1>6, <1>7, <1>8, <1>9, <1>10, <1>11, <1>12
  DEF Resolve, RefuseSigner, AcceptSigner, AcceptRejection

LEMMA AdvancedTypes ==
    ASSUME NEW s \in RunState, NEW next \in Phases
    PROVE  Advanced(s, next) \in RunState
<1>1. s.steps \in Nat /\ s.steps + 1 \in Nat
  BY DEF RunState
<1>2. \A n \in Nat : [s EXCEPT !.phase = next, !.steps = n] \in RunState
  BY DEF RunState
<1>3. Advanced(s, next) = [s EXCEPT !.phase = next, !.steps = s.steps + 1]
  BY DEF Advanced
<1> QED BY <1>1, <1>2, <1>3

\* What a read-only phase establishes, and where the plan goes from there.
LEMMA ReadPhaseTypes ==
    ASSUME NEW t \in RunState, t.phase \in ReadOnlyPhases, NEW s \in Established(t)
    PROVE  Advanced(s, NextPhase[s.phase]) \in RunState
<1>1. s \in RunState /\ s.phase = t.phase
  <2>1. CASE t.phase = "GATHER_EVIDENCE"
    BY <2>1, BoundAssumption DEF Established, RunState
  <2>2. CASE t.phase = "RECONCILE"
    BY <2>2, BoundAssumption DEF Established, RunState
  <2>3. CASE t.phase \notin {"GATHER_EVIDENCE", "RECONCILE"}
    BY <2>3 DEF Established, RunState
  <2> QED BY <2>1, <2>2, <2>3
<1>2. NextPhase[s.phase] \in Phases
  BY <1>1 DEF NextPhase, Phases, ReadOnlyPhases
<1> HIDE DEF NextPhase
<1> QED BY <1>1, <1>2, AdvancedTypes

LEMMA DriveTypes == ASSUME TypeInv, NEW w \in Workers, Drive(w) PROVE TypeInv'
<1>a. copy \in [Workers -> RunState] /\ crashes \in Nat
  BY DEF TypeInv, TypeOK
<1>b. /\ {"drive", "park", "tool", "record", "announce", "complete", "fail"} \subseteq Labels
      /\ \A l \in {"drive", "park", "tool", "record", "announce", "complete", "fail"} :
            l \notin Resolving
  BY DEF Labels, Resolving
<1>c. PossibleOutcomes \subseteq Outcomes
  BY BoundAssumption
<1>1. CASE ExhaustSteps(w)
  BY <1>1, <1>a, <1>b, GoToTypes DEF ExhaustSteps
<1>2. CASE ReadPhase(w)
  BY <1>2, SaveTypes, WorkerTypes, ReadPhaseTypes DEF ReadPhase, Driving
<1>3. CASE ModelFails(w)
  BY <1>3, <1>a, <1>b, GoToTypes DEF ModelFails, Driving
<1>4. CASE RecommendHold(w)
  <2>1. copy' \in [Workers -> RunState]
    BY <1>4, <1>a, <1>c, WorkerTypes DEF RecommendHold, Recommendable, RunState
  <2> QED BY <1>4, <1>b, <2>1, GoToTypes DEF RecommendHold, Driving
<1>5. CASE RequestApproval(w)
  <2> PICK o \in Recommendable(copy[w]) \cap Consequential, a \in ApprovalIds :
        /\ approvals' = [approvals EXCEPT ![a] =
              [ run |-> job[w].run, status |-> "PENDING", outcome |-> o,
                higherRisk |-> copy[w].higherRisk, decidedBy |-> None ]]
        /\ copy' = [copy EXCEPT ![w].outcome = o, ![w].approval = a]
    BY <1>5 DEF RequestApproval
  <2>1. o \in Outcomes
    BY <1>c DEF Recommendable
  <2>2. copy' \in [Workers -> RunState]
    <3>1. copy[w] \in RunState
      BY <1>a
    <3>2. [copy[w] EXCEPT !.outcome = o, !.approval = a] \in RunState
      BY <2>1, <3>1 DEF RunState
    <3>3. copy' = [copy EXCEPT ![w] = [copy[w] EXCEPT !.outcome = o, !.approval = a]]
      BY <1>a
    <3> QED BY <1>a, <3>2, <3>3
  <2>3. [ run |-> job[w].run, status |-> "PENDING", outcome |-> o,
          higherRisk |-> copy[w].higherRisk, decidedBy |-> None ] \in ApprovalRow
    BY <2>1, WorkerTypes DEF ApprovalRow, ApprovalStatus, Job, RunState
  <2>4. approvals' \in [ApprovalIds -> ApprovalRow]
    BY <2>3 DEF TypeInv, TypeOK
  <2>5. /\ pc[w] # "idle" /\ pc' = [pc EXCEPT ![w] = "park"]
        /\ UNCHANGED << runs, signatures, decisions, announced, job, seen, crashes >>
    BY <1>5 DEF RequestApproval, Driving, GoTo
  <2>6. TypeOK'
    BY <1>b, <2>2, <2>4, <2>5 DEF TypeInv, TypeOK
  <2>7. Serving'
    BY <1>b, <2>5 DEF TypeInv, TypeOK, Serving
  <2> QED BY <2>6, <2>7 DEF TypeInv
<1>6. CASE Park(w)
  <2>1. AfterRecommend(copy[w].outcome) \in Phases
    BY DEF AfterRecommend, Phases, TerminalPhases
  <2>2. Advanced(copy[w], AfterRecommend(copy[w].outcome)) \in RunState
    BY <2>1, WorkerTypes, AdvancedTypes
  <2> QED BY <1>6, <2>2, SaveTypes DEF Park
<1>7. CASE PassGate(w)
  BY <1>7, <1>a, <1>b, GoToTypes DEF PassGate, Driving
<1>8. CASE GateRefuses(w)
  BY <1>8, <1>a, <1>b, GoToTypes DEF GateRefuses, Driving
<1>9. CASE CheckTool(w)
  BY <1>9, <1>a, <1>b, GoToTypes DEF CheckTool
<1>10. CASE RecordFirst(w)
  <2>1. DecisionOf(w) \in DecisionRow
    BY WorkerTypes DEF DecisionOf, DecisionRow, RunState
  <2>2. copy' \in [Workers -> RunState]
    BY <1>10, <1>a, WorkerTypes DEF RecordFirst, RunState
  <2>3. decisions' \in [RunIds -> DecisionRow]
    BY <1>10, <2>1 DEF RecordFirst, TypeInv, TypeOK
  <2>4. TypeOK'
    BY <1>10, <1>b, <2>2, <2>3 DEF RecordFirst, GoTo, TypeInv, TypeOK
  <2>5. Serving'
    BY <1>10, <1>b DEF RecordFirst, GoTo, TypeInv, TypeOK, Serving
  <2> QED BY <2>4, <2>5 DEF TypeInv
<1>11. CASE RecordAgain(w)
  <2>1. copy' \in [Workers -> RunState]
    BY <1>11, <1>a, WorkerTypes DEF RecordAgain, RunState
  <2> QED BY <1>11, <1>b, <2>1, GoToTypes DEF RecordAgain
<1>12. CASE RecordConflict(w)
  BY <1>12, <1>a, ReleaseTypes DEF RecordConflict
<1>13. CASE Announce(w)
  <2>1. announced' \in [RunIds -> Nat]
    <3>1. \A r \in RunIds : announced[r] \in Nat /\ announced[r] + 1 \in Nat
      BY DEF TypeInv, TypeOK
    <3> QED BY <1>13, <3>1 DEF Announce, TypeInv, TypeOK
  <2>2. TypeOK'
    BY <1>13, <1>b, <2>1 DEF Announce, GoTo, TypeInv, TypeOK
  <2>3. Serving'
    BY <1>13, <1>b DEF Announce, GoTo, TypeInv, TypeOK, Serving
  <2> QED BY <2>2, <2>3 DEF TypeInv
<1>14. CASE Complete(w)
  <2>1. Advanced(copy[w], "COMPLETED") \in RunState
    BY WorkerTypes, AdvancedTypes DEF Phases, TerminalPhases
  <2> QED BY <1>14, <2>1, SaveTypes DEF Complete
<1>15. CASE Fail(w)
  <2>1. [copy[w] EXCEPT !.phase = "FAILED"] \in RunState
    BY WorkerTypes DEF RunState, Phases, TerminalPhases
  <2> QED BY <1>15, <2>1, SaveTypes DEF Fail
<1> QED
  BY <1>1, <1>2, <1>3, <1>4, <1>5, <1>6, <1>7, <1>8, <1>9, <1>10, <1>11, <1>12, <1>13,
     <1>14, <1>15
  DEF Drive

LEMMA NextTypes == TypeInv /\ [Next]_vars => TypeInv'
<1> SUFFICES ASSUME TypeInv, [Next]_vars PROVE TypeInv'
  OBVIOUS
<1>1. CASE UNCHANGED vars
  BY <1>1 DEF vars, TypeInv, TypeOK, Serving
<1>2. ASSUME NEW w \in Workers, Call(w) \/ Work(w) \/ Crash(w) PROVE TypeInv'
  <2>1. CASE StaleWrite(w)
    BY <2>1, ReleaseTypes DEF StaleWrite, TypeInv, TypeOK
  <2>2. CASE Crash(w)
    BY <2>2, ReleaseTypes DEF Crash, TypeInv, TypeOK
  <2> QED BY <1>2, <2>1, <2>2, CallTypes, ResolveTypes, DriveTypes DEF Work
<1> QED BY <1>1, <1>2 DEF Next

\* Every reachable state is well formed, and no worker resolves an approval without one.
THEOREM TypeCorrect == Spec => []TypeInv
BY InitTypes, NextTypes, PTL DEF Spec

THEOREM TypeOKHolds == Spec => []TypeOK
<1>1. TypeInv => TypeOK
  BY DEF TypeInv
<1> QED BY <1>1, TypeCorrect, PTL

-----------------------------------------------------------------------------
(* Approvals *)

\* Only three steps write to approvals and signatures.
LEMMA QuietSteps ==
    ASSUME NEW w \in Workers, Call(w) \/ Work(w) \/ Crash(w),
           ~Sign(w), ~Reject(w), ~RequestApproval(w)
    PROVE  UNCHANGED << approvals, signatures >>
<1>1. CASE Call(w) \/ Crash(w) \/ StaleWrite(w)
  BY <1>1 DEF Call, Start, Resume, Deliver, Crash, StaleWrite, store
<1>2. CASE Resolve(w)
  BY <1>2
  DEF Resolve, ReadApproval, AnswerReplay, RefuseSigner, AcceptSigner, AcceptRejection,
      Admit, SaveRefusal, RejectAgain, Contradicted, Reload, Collect, Hold, Open, Save, store
<1>3. CASE Drive(w)
  BY <1>3
  DEF Drive, ExhaustSteps, ReadPhase, ModelFails, RecommendHold, Park, PassGate,
      GateRefuses, CheckTool, RecordFirst, RecordAgain, RecordConflict, Announce, Complete,
      Fail, Save, store
<1> QED BY <1>1, <1>2, <1>3 DEF Work

\* What a step may do to an approval: nothing is taken back.
Lasting(a) ==
    /\ signatures[a] \subseteq signatures'[a]
    /\ approvals[a].status # "ABSENT" =>
          /\ approvals'[a].status # "ABSENT"
          /\ approvals'[a].run = approvals[a].run
          /\ approvals'[a].outcome = approvals[a].outcome
          /\ approvals'[a].higherRisk = approvals[a].higherRisk
    /\ approvals[a].status \in Settled => approvals'[a].status = approvals[a].status
    /\ approvals[a].status = "REJECTED" => signatures'[a] = signatures[a]

LEMMA ApprovalsLast ==
    ASSUME TypeInv, [Next]_vars, NEW a \in ApprovalIds
    PROVE  Lasting(a)
<1>1. CASE UNCHANGED << approvals, signatures >>
  BY <1>1 DEF Lasting
<1>2. ASSUME NEW w \in Workers, RequestApproval(w) PROVE Lasting(a)
  BY <1>2 DEF RequestApproval, Lasting, Settled, TypeInv, TypeOK
<1>3. ASSUME NEW w \in Workers, Reject(w) PROVE Lasting(a)
  BY <1>3 DEF Reject, Rejectable, Lasting, Settled, TypeInv, TypeOK, ApprovalRow
<1>4. ASSUME NEW w \in Workers, Sign(w) PROVE Lasting(a)
  <2> DEFINE b == job[w].approval
             row == approvals[b]
  <2>1. /\ row.status # "REJECTED"
        /\ signatures' = [signatures EXCEPT ![b] = signatures[b] \cup {job[w].approver}]
        /\ b \in ApprovalIds /\ row \in ApprovalRow
    BY <1>4, WorkerTypes DEF Sign, Resolving, TypeInv, TypeOK
  <2>2. /\ signatures[a] \subseteq signatures'[a]
        /\ approvals[a].status = "REJECTED" => signatures'[a] = signatures[a]
    BY <2>1 DEF TypeInv, TypeOK
  <2>3. CASE UNCHANGED approvals
    BY <2>2, <2>3 DEF Lasting
  <2>4. ASSUME NEW last,
               approvals' = [approvals EXCEPT ![b] =
                               [row EXCEPT !.status = "APPROVED", !.decidedBy = last]]
        PROVE  Lasting(a)
    BY <2>1, <2>2, <2>4 DEF Lasting, Settled, TypeInv, TypeOK, ApprovalRow, ApprovalStatus
  <2> QED BY <1>4, <2>3, <2>4 DEF Sign
<1> QED BY <1>1, <1>2, <1>3, <1>4, QuietSteps DEF Next, vars

\* No step of any worker turns a verdict, withdraws a signature, or signs what was rejected.
THEOREM SettledStaysFinal == Spec => SettledIsFinal
<1> DEFINE Kept == \A a \in ApprovalIds :
         /\ approvals[a].status \in Settled => approvals'[a].status = approvals[a].status
         /\ signatures[a] \subseteq signatures'[a]
         /\ approvals[a].status = "REJECTED" => signatures'[a] = signatures[a]
<1>1. TypeInv /\ [Next]_vars => [Kept]_vars
  BY ApprovalsLast DEF Lasting
<1> QED BY <1>1, TypeCorrect, PTL DEF Spec, SettledIsFinal

-----------------------------------------------------------------------------
(* No decision without its approval *)

\* Approval a covers outcome o of run r: what the gate and the tool both ask.
Covers(a, r, o) ==
    /\ a \in ApprovalIds
    /\ approvals[a].run = r
    /\ approvals[a].status = "APPROVED"
    /\ approvals[a].outcome = o
    /\ RequirementMet(approvals[a], signatures[a])

\* DecisionAuthorised is not inductive: a worker asks, and records some steps later.  What
\* it asked stays true in between because approvals last.
AuthInv ==
    /\ \A w \in Workers :
          /\ pc[w] = "tool" => copy[w].approval \in ApprovalIds
          /\ pc[w] = "record" => Covers(copy[w].approval, job[w].run, copy[w].outcome)
    /\ \A r \in RunIds :
          Decided(r) => Covers(decisions[r].approval, r, decisions[r].outcome)

\* A requirement that is met stays met: more people sign, and the case is what it was.
LEMMA RequirementLasts ==
    ASSUME NEW before, NEW after, NEW S, NEW T,
           after.higherRisk = before.higherRisk, before.higherRisk \in BOOLEAN,
           S \subseteq T, T \subseteq Approvers, RequirementMet(before, S)
    PROVE  RequirementMet(after, T)
<1>1. IsFiniteSet(T)
  BY PeopleAssumption, FS_Subset
<1>2. IsFiniteSet(S) /\ Cardinality(S) <= Cardinality(T)
  BY <1>1, FS_Subset
<1>3. Cardinality(S) \in Nat /\ Cardinality(T) \in Nat
  BY <1>1, <1>2, FS_CardinalityType
<1> QED BY <1>2, <1>3 DEF RequirementMet

LEMMA CoversLasts ==
    ASSUME TypeInv, [Next]_vars, NEW a, NEW r, NEW o, Covers(a, r, o)
    PROVE  Covers(a, r, o)'
<1>1. a \in ApprovalIds /\ Lasting(a)
  BY ApprovalsLast DEF Covers
<1>2. /\ approvals[a].status = "APPROVED"
      /\ approvals'[a].status = "APPROVED"
      /\ approvals'[a].run = r /\ approvals'[a].outcome = o
      /\ approvals'[a].higherRisk = approvals[a].higherRisk
      /\ signatures[a] \subseteq signatures'[a]
  BY <1>1 DEF Covers, Lasting, Settled
<1>3. signatures'[a] \subseteq Approvers /\ approvals[a].higherRisk \in BOOLEAN
  BY <1>1, NextTypes DEF TypeInv, TypeOK, ApprovalRow
<1>4. RequirementMet(approvals'[a], signatures'[a])
  BY <1>2, <1>3, RequirementLasts DEF Covers
<1> QED BY <1>1, <1>2, <1>4 DEF Covers

\* Where a worker comes to the tool and to the ledger from, and with what.
LEMMA OnlyCheckedRecord ==
    ASSUME TypeInv, NEW w \in Workers, NEW v \in Workers, Call(w) \/ Work(w) \/ Crash(w)
    PROVE  /\ pc'[v] = "tool" =>
                 \/ UNCHANGED << pc[v], job[v], copy[v] >>
                 \/ v = w /\ PassGate(w)
           /\ pc'[v] = "record" =>
                 \/ UNCHANGED << pc[v], job[v], copy[v] >>
                 \/ v = w /\ CheckTool(w) /\ ToolPermits(w)
<1> USE DEF TypeInv, TypeOK
<1>1. CASE Call(w)
  BY <1>1 DEF Call, Start, Resume, Deliver, Begin, GoTo
<1>2. CASE Crash(w) \/ StaleWrite(w)
  BY <1>2 DEF Crash, StaleWrite, Release
<1>3. CASE Resolve(w)
  BY <1>3
  DEF Resolve, ReadApproval, AnswerReplay, RefuseSigner, AcceptSigner, AcceptRejection,
      Admit, SaveRefusal, Sign, Reject, RejectAgain, Contradicted, Reload, Collect, Hold,
      Open, Save, Release, GoTo, AfterSignature
<1>4. CASE Drive(w)
  BY <1>4
  DEF Drive, ExhaustSteps, ReadPhase, ModelFails, RecommendHold, RequestApproval, Park,
      PassGate, GateRefuses, CheckTool, RecordFirst, RecordAgain, RecordConflict, Announce,
      Complete, Fail, Save, Release, GoTo
<1> QED BY <1>1, <1>2, <1>3, <1>4 DEF Work

\* The ledger is written by one step only.
LEMMA OnlyRecordDecides ==
    ASSUME NEW w \in Workers, Call(w) \/ Work(w) \/ Crash(w), ~RecordFirst(w)
    PROVE  UNCHANGED decisions
<1>1. CASE Call(w) \/ Crash(w) \/ StaleWrite(w)
  BY <1>1 DEF Call, Start, Resume, Deliver, Crash, StaleWrite, store
<1>2. CASE Resolve(w)
  BY <1>2
  DEF Resolve, ReadApproval, AnswerReplay, RefuseSigner, AcceptSigner, AcceptRejection,
      Admit, SaveRefusal, Sign, Reject, RejectAgain, Contradicted, Reload, Collect, Hold,
      Open, Save, store
<1>3. CASE Drive(w)
  BY <1>3
  DEF Drive, ExhaustSteps, ReadPhase, ModelFails, RecommendHold, RequestApproval, Park,
      PassGate, GateRefuses, CheckTool, RecordAgain, RecordConflict, Announce, Complete,
      Fail, Save, store
<1> QED BY <1>1, <1>2, <1>3 DEF Work

LEMMA AuthInvStep == TypeInv /\ AuthInv /\ [Next]_vars => AuthInv'
<1> SUFFICES ASSUME TypeInv, AuthInv, [Next]_vars PROVE AuthInv'
  OBVIOUS
<1>1. CASE UNCHANGED vars
  BY <1>1 DEF vars, AuthInv, Covers, Decided
<1>2. ASSUME NEW w \in Workers, Call(w) \/ Work(w) \/ Crash(w) PROVE AuthInv'
  <2>1. ASSUME NEW v \in Workers, pc'[v] = "tool" PROVE copy'[v].approval \in ApprovalIds
    <3>1. CASE UNCHANGED << pc[v], job[v], copy[v] >>
      BY <2>1, <3>1 DEF AuthInv
    <3>2. CASE v = w /\ PassGate(w)
      BY <3>2, WorkerTypes DEF PassGate, GatePermits, RunState
    <3> QED BY <1>2, <2>1, <3>1, <3>2, OnlyCheckedRecord
  <2>2. ASSUME NEW v \in Workers, pc'[v] = "record"
        PROVE  Covers(copy[v].approval, job[v].run, copy[v].outcome)'
    <3>1. CASE UNCHANGED << pc[v], job[v], copy[v] >>
      <4>1. Covers(copy[v].approval, job[v].run, copy[v].outcome)
        BY <2>2, <3>1 DEF AuthInv
      <4> QED BY <3>1, <4>1, CoversLasts DEF Covers
    <3>2. CASE v = w /\ CheckTool(w) /\ ToolPermits(w)
      BY <3>2 DEF AuthInv, CheckTool, ToolPermits, Covers, store
    <3> QED BY <1>2, <2>2, <3>1, <3>2, OnlyCheckedRecord
  <2>3. ASSUME NEW r \in RunIds, Decided(r)'
        PROVE  Covers(decisions[r].approval, r, decisions[r].outcome)'
    <3>1. CASE decisions'[r] = decisions[r]
      <4>1. Covers(decisions[r].approval, r, decisions[r].outcome)
        BY <2>3, <3>1 DEF AuthInv, Decided
      <4> QED BY <3>1, <4>1, CoversLasts DEF Covers
    <3>2. CASE RecordFirst(w) /\ r = job[w].run
      <4>1. decisions'[r] = [ approval |-> copy[w].approval, outcome |-> copy[w].outcome ]
        BY <3>2 DEF RecordFirst, DecisionOf, TypeInv, TypeOK
      <4>2. Covers(copy[w].approval, r, copy[w].outcome)
        BY <3>2 DEF RecordFirst, AuthInv
      <4> QED BY <4>1, <4>2, CoversLasts DEF Covers
    <3> QED BY <1>2, <3>1, <3>2, OnlyRecordDecides DEF RecordFirst, TypeInv, TypeOK
  <2> QED BY <2>1, <2>2, <2>3 DEF AuthInv
<1> QED BY <1>1, <1>2 DEF Next

\* A met requirement in the words of the policy: somebody signed, and if the case is higher
\* risk two people did, one of them for Financial Control.
LEMMA RequirementMeans ==
    ASSUME NEW row, NEW S, S \subseteq Approvers, row.higherRisk \in BOOLEAN,
           RequirementMet(row, S)
    PROVE  /\ S # {}
           /\ row.higherRisk => \E p, q \in S : p # q /\ q \in FinancialControl
<1>1. IsFiniteSet(S) /\ Cardinality(S) \in Nat /\ Cardinality(S) >= 1
  BY PeopleAssumption, FS_Subset, FS_CardinalityType DEF RequirementMet
<1>2. S # {}
  BY <1>1, FS_EmptySet
<1>3. ASSUME row.higherRisk PROVE \E p, q \in S : p # q /\ q \in FinancialControl
  <2>1. PICK q \in S : q \in FinancialControl
    BY <1>3 DEF RequirementMet
  <2>2. Cardinality(S) # 1
    BY <1>1, <1>3 DEF RequirementMet
  <2>3. S # {q}
    BY <2>2, FS_Singleton
  <2> QED BY <2>1, <2>3
<1> QED BY <1>2, <1>3

\* A decision on the ledger always rests on a granted approval of its run and outcome with
\* the signatures the policy asks for, however workers interleave and die.
THEOREM DecisionsAuthorised == Spec => []DecisionAuthorised
<1>1. Init => AuthInv
  BY DEF Init, AuthInv, Decided
<1>2. TypeInv /\ AuthInv => DecisionAuthorised
  <2> SUFFICES ASSUME TypeInv, AuthInv, NEW r \in RunIds, Decided(r),
                      NEW a, a = decisions[r].approval
               PROVE  /\ approvals[a].run = r
                      /\ approvals[a].status = "APPROVED"
                      /\ approvals[a].outcome = decisions[r].outcome
                      /\ signatures[a] # {}
                      /\ approvals[a].higherRisk =>
                            \E p, q \in signatures[a] : p # q /\ q \in FinancialControl
    BY DEF DecisionAuthorised
  <2>1. Covers(a, r, decisions[r].outcome)
    BY DEF AuthInv
  <2>2. signatures[a] \subseteq Approvers /\ approvals[a].higherRisk \in BOOLEAN
    BY <2>1 DEF Covers, TypeInv, TypeOK, ApprovalRow
  <2> QED BY <2>1, <2>2, RequirementMeans DEF Covers
<1> QED BY <1>1, <1>2, AuthInvStep, TypeCorrect, PTL DEF Spec
=============================================================================
