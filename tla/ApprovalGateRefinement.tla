------------------------ MODULE ApprovalGateRefinement ------------------------
(***************************************************************************)
(* The invariant that ties a run's row, the approval it names, the ledger  *)
(* and the copies workers hold to one another, and what follows from it:   *)
(* ApprovalGate implements DecisionLedger, and there are two states that   *)
(* are no end but which a run never leaves.                                *)
(***************************************************************************)
EXTENDS ApprovalGateSafety, ApprovalGateClaims

-----------------------------------------------------------------------------
(* The invariant *)

\* Before the gate.
Early == ReadOnlyPhases \cup {"RECOMMEND"}

\* Approval a was asked for run r and outcome o.
AskedFor(a, r, o) ==
    /\ a \in ApprovalIds
    /\ approvals[a].status # "ABSENT"
    /\ approvals[a].run = r
    /\ approvals[a].outcome = o

\* What stops an approved run at the gate, as it stands on the run itself.
Doomed(s) == s.vendorBlocks \/ s.steps >= s.budget

\* A row of runs, together with the approval it names and the ledger.
RowInv(r) ==
    LET s == runs[r]
    IN  /\ s.version = 0 => s = FreshRun
        /\ s.phase \in Early => s.approval = None
        /\ s.approval # None =>
              /\ AskedFor(s.approval, r, s.outcome)
              /\ s.outcome \in Consequential
              /\ approvals[s.approval].status = "PENDING" => s.phase = "AWAITING_APPROVAL"
        /\ s.phase = "EXECUTE_DECISION" => Covers(s.approval, r, s.outcome)
        /\ (s.phase = "FAILED" /\ s.approval # None) => Doomed(s)
        /\ s.decided => s.phase = "COMPLETED"
        /\ s.phase = "COMPLETED" =>
              decisions[r] = [ approval |-> s.approval, outcome |-> s.outcome ]
        /\ Decided(r) =>
              /\ s.phase \in {"EXECUTE_DECISION", "COMPLETED"}
              /\ s.phase = "EXECUTE_DECISION" => ~Doomed(s)

\* A row of approvals: only the one its run names gathers signatures, and one that is
\* still pending lacks some.
ApprovalInv(a) ==
    /\ approvals[a].status = "ABSENT" => signatures[a] = {}
    /\ approvals[a].status # "ABSENT" =>
          /\ approvals[a].run \in RunIds
          /\ runs[approvals[a].run].approval # a =>
                approvals[a].status = "PENDING" /\ signatures[a] = {}
    /\ approvals[a].status = "PENDING" => ~RequirementMet(approvals[a], signatures[a])

\* A copy is never newer than its run; as long as it is as new, it differs from it in no
\* more than what its worker is about to save.
CopyInv(w) ==
    LET s == copy[w]
        t == runs[job[w].run]
    IN  /\ t.version > 0 /\ s.version <= t.version
        /\ s.version = t.version =>
              /\ s.phase = t.phase /\ s.steps = t.steps /\ s.budget = t.budget
              /\ s.vendorBlocks = t.vendorBlocks
              /\ pc[w] # "park" => s.approval = t.approval /\ s.outcome = t.outcome
        /\ s.decided => s.phase = "COMPLETED" \/ pc[w] \in {"announce", "complete"}

Granted(a) ==
    approvals[a].status = "APPROVED" /\ RequirementMet(approvals[a], signatures[a])

\* A worker that resolves an approval.
AnswerInv(w) ==
    LET a == job[w].approval
        s == copy[w]
    IN  /\ runs[job[w].run].approval = a
        /\ (pc[w] = "approval" /\ approvals[a].status = "PENDING") =>
              s.phase = "AWAITING_APPROVAL"
        /\ (pc[w] = "signatures" /\ seen[w] = "PENDING") => s.phase = "AWAITING_APPROVAL"
        /\ pc[w] \in {"refuse", "sign", "reject"} => s.phase = "AWAITING_APPROVAL"
        /\ pc[w] \in {"collect", "hold", "open"} => s.phase \notin TerminalPhases
        /\ pc[w] = "sign" => ~Rejecting(w)
        /\ pc[w] = "reject" => Rejecting(w)
        /\ (pc[w] = "hold" \/ (pc[w] = "reload" /\ Rejecting(w))) =>
              approvals[a].status = "REJECTED"
        /\ (pc[w] = "open" \/ (pc[w] = "reload" /\ ~Rejecting(w) /\ seen[w] = "APPROVED")) =>
              Granted(a)

\* Past the gate: whoever else carries the run forward, it is the same approved run, and
\* the gate's answer to it is the same.
PastGate == {"tool", "record", "announce", "complete"}

ExecuteInv(w) ==
    LET s == copy[w]
        t == runs[job[w].run]
    IN  /\ s.outcome \in Consequential
        /\ Covers(s.approval, job[w].run, s.outcome)
        /\ t.phase \in {"EXECUTE_DECISION", "COMPLETED", "FAILED"}
        /\ s.approval = t.approval /\ s.outcome = t.outcome
        /\ s.vendorBlocks = t.vendorBlocks /\ s.budget = t.budget
        /\ t.phase # "COMPLETED" => s.steps = t.steps
        /\ pc[w] \in PastGate => ~Doomed(s)
        /\ pc[w] = "fail" => Doomed(s)
        /\ pc[w] \in {"announce", "complete"} => decisions[job[w].run] = DecisionOf(w)

\* A worker that drives a run.
DriveInv(w) ==
    LET s == copy[w]
    IN  /\ pc[w] \in {"drive", "fail"} => s.phase \in Early \cup {"EXECUTE_DECISION"}
        /\ pc[w] = "park" =>
              /\ s.phase = "RECOMMEND"
              /\ s.approval = None => s.outcome \notin Consequential
              /\ s.approval # None =>
                    s.outcome \in Consequential /\ AskedFor(s.approval, job[w].run, s.outcome)
        /\ pc[w] \in PastGate => s.phase = "EXECUTE_DECISION"
        /\ (pc[w] # "park" /\ s.phase \in Early) => s.approval = None
        /\ s.phase = "EXECUTE_DECISION" => ExecuteInv(w)

WorkerInv(w) ==
    pc[w] # "idle" =>
        /\ CopyInv(w)
        /\ IF pc[w] \in Resolving THEN AnswerInv(w) ELSE DriveInv(w)

GateInv ==
    /\ \A r \in RunIds : RowInv(r)
    /\ \A a \in ApprovalIds : ApprovalInv(a)
    /\ \A w \in Workers : WorkerInv(w)

-----------------------------------------------------------------------------
(* What a step may do to a run *)

\* A run is left alone, or written once more by somebody who read it last.
Moves(r) ==
    \/ runs'[r] = runs[r]
    \/ /\ runs'[r].version = runs[r].version + 1
       /\ runs[r].phase \notin TerminalPhases
       /\ Rank[runs[r].phase] <= Rank[runs'[r].phase]
       /\ runs[r].steps <= runs'[r].steps
       /\ runs[r].approval # None =>
             runs'[r].approval = runs[r].approval /\ runs'[r].outcome = runs[r].outcome
       /\ runs[r].phase = "EXECUTE_DECISION" =>
             /\ runs'[r].phase \in {"EXECUTE_DECISION", "COMPLETED", "FAILED"}
             /\ runs'[r].vendorBlocks = runs[r].vendorBlocks
             /\ runs'[r].budget = runs[r].budget
             /\ runs'[r].phase # "COMPLETED" => runs'[r].steps = runs[r].steps

LEMMA RowTypes ==
    ASSUME TypeInv, NEW r \in RunIds
    PROVE  /\ runs[r] \in RunState /\ runs[r].version \in Nat /\ runs[r].steps \in Nat
           /\ runs[r].budget \in Nat /\ runs[r].phase \in Phases
           /\ runs[r].approval \in ApprovalIds \cup {None}
BY DEF TypeInv, TypeOK, RunState

LEMMA CopyTypes ==
    ASSUME TypeInv, NEW w \in Workers
    PROVE  /\ copy[w].version \in Nat /\ copy[w].steps \in Nat
           /\ copy[w].budget \in Nat /\ copy[w].phase \in Phases
           /\ copy[w].approval \in ApprovalIds \cup {None}
           /\ copy[w].outcome \in Outcomes \cup {"NONE"}
BY DEF TypeInv, TypeOK, RunState

LEMMA AskedForLasts ==
    ASSUME TypeInv, [Next]_vars, NEW a, NEW r, NEW o, AskedFor(a, r, o)
    PROVE  /\ AskedFor(a, r, o)'
           /\ approvals'[a].status = "PENDING" => approvals[a].status = "PENDING"
<1>1. a \in ApprovalIds /\ Lasting(a)
  BY ApprovalsLast DEF AskedFor
<1>2. approvals[a].status \in {"PENDING", "APPROVED", "REJECTED"}
  BY <1>1 DEF AskedFor, TypeInv, TypeOK, ApprovalRow, ApprovalStatus
<1> QED BY <1>1, <1>2 DEF AskedFor, Lasting, Settled

LEMMA GrantedLasts ==
    ASSUME TypeInv, [Next]_vars, NEW a \in ApprovalIds, Granted(a)
    PROVE  Granted(a)'
<1>1. Lasting(a)
  BY ApprovalsLast
<1>2. /\ approvals'[a].status = "APPROVED"
      /\ approvals'[a].higherRisk = approvals[a].higherRisk
      /\ signatures[a] \subseteq signatures'[a]
  BY <1>1 DEF Granted, Lasting, Settled
<1>3. signatures'[a] \subseteq Approvers /\ approvals[a].higherRisk \in BOOLEAN
  BY NextTypes DEF TypeInv, TypeOK, ApprovalRow
<1>4. RequirementMet(approvals'[a], signatures'[a])
  BY <1>2, <1>3, RequirementLasts DEF Granted
<1> QED BY <1>2, <1>4 DEF Granted

\* A run nobody writes stays right: what it rests on lasts.
LEMMA RowKeeps ==
    ASSUME TypeInv, GateInv, [Next]_vars, NEW r \in RunIds,
           runs'[r] = runs[r], decisions'[r] = decisions[r]
    PROVE  RowInv(r)'
<1>1. RowInv(r)
  BY DEF GateInv
<1>2. runs[r].approval # None =>
          /\ AskedFor(runs[r].approval, r, runs[r].outcome)'
          /\ approvals'[runs[r].approval].status = "PENDING" =>
                approvals[runs[r].approval].status = "PENDING"
  <2> SUFFICES ASSUME NEW a, a = runs[r].approval, NEW o, o = runs[r].outcome, a # None
               PROVE  /\ AskedFor(a, r, o)'
                      /\ approvals'[a].status = "PENDING" => approvals[a].status = "PENDING"
    BY DEF AskedFor
  <2> QED BY <1>1, AskedForLasts DEF RowInv
<1>3. runs[r].phase = "EXECUTE_DECISION" => Covers(runs[r].approval, r, runs[r].outcome)'
  <2> SUFFICES ASSUME NEW a, a = runs[r].approval, NEW o, o = runs[r].outcome,
                      runs[r].phase = "EXECUTE_DECISION"
               PROVE  Covers(a, r, o)'
    BY DEF Covers
  <2> QED BY <1>1, CoversLasts DEF RowInv
<1> QED BY <1>1, <1>2, <1>3 DEF RowInv, Doomed, Decided, AskedFor, Covers

\* So does an approval nobody writes, because a run that names it goes on naming it.
LEMMA ApprovalKeeps ==
    ASSUME TypeInv, GateInv, NEW a \in ApprovalIds,
           approvals'[a] = approvals[a], signatures'[a] = signatures[a],
           \A r \in RunIds : Moves(r)
    PROVE  ApprovalInv(a)'
<1>1. ApprovalInv(a) /\ a # None
  BY IdentityAssumption DEF GateInv
<1>2. \A r \in RunIds : runs[r].approval = a => runs'[r].approval = a
  BY <1>1 DEF Moves
<1>3. approvals[a].status # "ABSENT" => approvals[a].run \in RunIds
  BY <1>1 DEF ApprovalInv
<1> QED BY <1>1, <1>2, <1>3 DEF ApprovalInv, RequirementMet

\* And a worker, whatever the others do.
LEMMA OthersKeep ==
    ASSUME TypeInv, GateInv, [Next]_vars, NEW v \in Workers,
           UNCHANGED << pc[v], job[v], copy[v], seen[v] >>,
           \A r \in RunIds : Moves(r),
           \A r \in RunIds : Decided(r) => decisions'[r] = decisions[r]
    PROVE  WorkerInv(v)'
<1> SUFFICES ASSUME pc[v] # "idle" PROVE WorkerInv(v)'
  BY DEF WorkerInv
<1> PICK r \in RunIds : r = job[v].run
  BY WorkerTypes
<1> PICK a : a = job[v].approval
  OBVIOUS
<1> PICK s \in RunState : s = copy[v]
  BY WorkerTypes
<1>1. WorkerInv(v) /\ Moves(r) /\ RowInv(r)
  BY DEF GateInv
<1>2. s.version \in Nat /\ runs[r].version \in Nat
  BY RowTypes DEF RunState
<1>3. CopyInv(v)'
  BY <1>1, <1>2 DEF WorkerInv, CopyInv, Moves
<1>4. ASSUME pc[v] \in Resolving PROVE AnswerInv(v)'
  <2>1. AnswerInv(v) /\ a \in ApprovalIds /\ a # None
    BY <1>1, <1>4, WorkerTypes, IdentityAssumption DEF WorkerInv
  <2>2. runs[r].approval = a /\ runs'[r].approval = a
    BY <1>1, <2>1 DEF AnswerInv, Moves
  <2>3. AskedFor(a, r, runs[r].outcome)
    BY <1>1, <2>1, <2>2 DEF RowInv
  <2>4. approvals'[a].status = "PENDING" => approvals[a].status = "PENDING"
    BY <2>3, AskedForLasts
  <2>5. approvals[a].status = "REJECTED" => approvals'[a].status = "REJECTED"
    BY <2>1, ApprovalsLast DEF Lasting, Settled
  <2>6. Granted(a) => Granted(a)'
    BY <2>1, GrantedLasts
  <2> QED BY <2>1, <2>2, <2>4, <2>5, <2>6 DEF AnswerInv, Rejecting, Granted
<1>5. ASSUME pc[v] \notin Resolving PROVE DriveInv(v)'
  <2>1. DriveInv(v)
    BY <1>1, <1>5 DEF WorkerInv
  <2>2. AskedFor(s.approval, r, s.outcome) => AskedFor(s.approval, r, s.outcome)'
    <3> PICK b, o : b = s.approval /\ o = s.outcome
      OBVIOUS
    <3>1. AskedFor(b, r, o) => AskedFor(b, r, o)'
      BY AskedForLasts
    <3> QED BY <3>1 DEF AskedFor
  <2>3. ASSUME s.phase = "EXECUTE_DECISION" PROVE ExecuteInv(v)'
    <3>1. ExecuteInv(v)
      BY <2>1, <2>3 DEF DriveInv
    <3>2. Covers(s.approval, r, s.outcome) /\ s.approval # None
      BY <3>1, IdentityAssumption DEF ExecuteInv, Covers
    <3>3. Covers(s.approval, r, s.outcome)'
      <4> PICK b, o : b = s.approval /\ o = s.outcome
        OBVIOUS
      <4>1. Covers(b, r, o)'
        BY <3>2, CoversLasts
      <4> QED BY <4>1 DEF Covers
    <3>4. decisions[r] = DecisionOf(v) => decisions'[r] = DecisionOf(v)
      <4>1. DecisionOf(v).approval # NoDecision.approval
        BY <3>2 DEF DecisionOf, NoDecision
      <4> QED BY <4>1 DEF Decided
    <3>5. /\ runs'[r].phase \in {"EXECUTE_DECISION", "COMPLETED", "FAILED"}
          /\ s.approval = runs'[r].approval /\ s.outcome = runs'[r].outcome
          /\ s.vendorBlocks = runs'[r].vendorBlocks /\ s.budget = runs'[r].budget
          /\ runs'[r].phase # "COMPLETED" => s.steps = runs'[r].steps
      BY <1>1, <3>1, <3>2 DEF ExecuteInv, Moves, TerminalPhases
    <3> QED BY <3>1, <3>3, <3>4, <3>5 DEF ExecuteInv, DecisionOf, Doomed
  <2> QED BY <2>1, <2>2, <2>3 DEF DriveInv, AskedFor
<1> QED BY <1>3, <1>4, <1>5 DEF WorkerInv

-----------------------------------------------------------------------------
(* What each kind of step has to show *)

\* The invariant survives the step, and every run moves as it may.
Kept == GateInv' /\ \A r \in RunIds : Moves(r)

Step(w) == Call(w) \/ Work(w) \/ Crash(w)

LEMMA StepKeeps ==
    ASSUME TypeInv, GateInv, NEW w \in Workers, Step(w),
           \A r \in RunIds : Moves(r) /\ RowInv(r)',
           \A a \in ApprovalIds : ApprovalInv(a)',
           \A r \in RunIds : Decided(r) => decisions'[r] = decisions[r],
           WorkerInv(w)'
    PROVE  Kept
<1>1. [Next]_vars
  BY DEF Step, Next
<1>2. ASSUME NEW v \in Workers, v # w PROVE WorkerInv(v)'
  <2>1. UNCHANGED << pc[v], job[v], copy[v], seen[v] >>
    BY <1>2, OthersStay DEF Step
  <2> QED BY <1>1, <2>1, OthersKeep
<1> QED BY <1>2 DEF Kept, GateInv

\* A step that writes neither runs nor approvals nor decisions.
LEMMA LocalKeeps ==
    ASSUME TypeInv, GateInv, NEW w \in Workers, Step(w),
           UNCHANGED << runs, approvals, signatures, decisions >>, WorkerInv(w)'
    PROVE  Kept
<1>1. \A r \in RunIds : Moves(r)
  BY DEF Moves
<1>2. ASSUME NEW r \in RunIds PROVE RowInv(r)'
  <2>1. [Next]_vars
    BY DEF Step, Next
  <2> QED BY <2>1, RowKeeps
<1>3. ASSUME NEW a \in ApprovalIds PROVE ApprovalInv(a)'
  BY <1>1, ApprovalKeeps
<1> QED BY <1>1, <1>2, <1>3, StepKeeps

\* The end of a call that wrote nothing in its last step.
LEMMA ReleaseKeeps ==
    ASSUME TypeInv, GateInv, NEW w \in Workers, Step(w), Release(w), UNCHANGED store
    PROVE  Kept
<1>1. pc'[w] = "idle"
  BY DEF Release, TypeInv, TypeOK
<1> QED BY <1>1, LocalKeeps DEF WorkerInv, store

\* One run is written.
LEMMA WriteKeeps ==
    ASSUME TypeInv, GateInv, NEW w \in Workers, Step(w), NEW r \in RunIds,
           UNCHANGED << approvals, signatures, decisions >>,
           \A q \in RunIds : q # r => runs'[q] = runs[q],
           Moves(r), RowInv(r)', WorkerInv(w)'
    PROVE  Kept
<1>1. \A q \in RunIds : Moves(q)
  BY DEF Moves
<1>2. ASSUME NEW q \in RunIds PROVE RowInv(q)'
  <2>1. [Next]_vars
    BY DEF Step, Next
  <2>2. CASE q # r
    BY <2>1, <2>2, RowKeeps
  <2> QED BY <2>2
<1>3. ASSUME NEW a \in ApprovalIds PROVE ApprovalInv(a)'
  BY <1>1, ApprovalKeeps
<1> QED BY <1>1, <1>2, <1>3, StepKeeps

-----------------------------------------------------------------------------
(* The calls *)

LEMMA CallKeeps == ASSUME TypeInv, GateInv, NEW w \in Workers, Call(w) PROVE Kept
<1> PICK r \in RunIds :
        \/ Start(w, r)
        \/ Resume(w, r)
        \/ \E a \in ApprovalIds, p \in Approvers, v \in {"APPROVED", "REJECTED"} :
              Deliver(w, r, a, p, v)
  BY DEF Call
<1>a. Step(w) /\ RowInv(r)
  BY DEF Step, GateInv
<1>1. CASE Start(w, r)
  <2> PICK limit \in StepBudgets :
          /\ runs[r].version = 0
          /\ Begin(w, [NoJob EXCEPT !.run = r], "drive")
          /\ runs' = [runs EXCEPT ![r] = [FreshRun EXCEPT !.version = 1, !.budget = limit]]
          /\ copy' = [copy EXCEPT ![w] = [FreshRun EXCEPT !.version = 1, !.budget = limit]]
          /\ UNCHANGED << approvals, signatures, decisions, announced, seen, crashes >>
    BY <1>1 DEF Start
  <2> DEFINE created == [FreshRun EXCEPT !.version = 1, !.budget = limit]
  <2>1. /\ created.version = 1 /\ created.phase = "INTAKE" /\ created.steps = 0
        /\ created.approval = None /\ created.decided = FALSE
    BY DEF FreshRun
  <2> HIDE DEF created
  <2>2. /\ runs'[r] = created /\ copy'[w] = created /\ pc'[w] = "drive"
        /\ job'[w].run = r
        /\ \A q \in RunIds : q # r => runs'[q] = runs[q]
    BY DEF Begin, GoTo, NoJob, TypeInv, TypeOK, created
  <2>3. runs[r] = FreshRun
    BY <1>a DEF RowInv
  <2>4. Moves(r)
    BY <2>1, <2>2, <2>3 DEF Moves, FreshRun, TerminalPhases, Rank
  <2>5. ~Decided(r)'
    BY <1>a, <2>3 DEF RowInv, FreshRun, Decided
  <2>6. /\ runs'[r].version = 1 /\ runs'[r].phase = "INTAKE"
        /\ runs'[r].approval = None /\ ~runs'[r].decided
        /\ copy'[w] = runs'[r] /\ job'[w].run = r /\ pc'[w] = "drive"
    BY <2>1, <2>2
  <2>7. RowInv(r)'
    BY <2>5, <2>6 DEF RowInv
  <2>8. CopyInv(w)' /\ DriveInv(w)'
    <3>1. CopyInv(w)'
      <4>1. copy'[w].version = 1 /\ runs'[job'[w].run].version = 1 /\ copy'[w] = runs'[job'[w].run]
        BY <2>6
      <4>2. ~copy'[w].decided
        BY <2>6
      <4>3. runs'[job'[w].run].version > 0 /\ copy'[w].version <= runs'[job'[w].run].version
        BY <4>1
      <4> QED BY <4>1, <4>2, <4>3 DEF CopyInv
    <3>2. "INTAKE" \in Early /\ "drive" \notin PastGate
      BY DEF Early, ReadOnlyPhases, PastGate
    <3>3. copy'[w].phase = "INTAKE" /\ copy'[w].approval = None
      BY <2>6
    <3>4. DriveInv(w)'
      BY <2>6, <3>2, <3>3 DEF DriveInv
    <3> QED BY <3>1, <3>4
  <2>9. WorkerInv(w)'
    BY <2>6, <2>8 DEF WorkerInv, Resolving
  <2> QED BY <1>a, <2>2, <2>4, <2>7, <2>9, WriteKeeps
<1>2. CASE Resume(w, r)
  <2>1. /\ pc'[w] = "drive" /\ job'[w].run = r /\ copy'[w] = runs[r]
        /\ runs[r].version > 0 /\ runs[r].phase \notin StopPhases
        /\ UNCHANGED store
    BY <1>2 DEF Resume, Begin, GoTo, NoJob, TypeInv, TypeOK
  <2>2. runs[r].version \in Nat /\ runs[r].phase \in Early \cup {"EXECUTE_DECISION"}
    BY <2>1, RowTypes DEF Phases, StopPhases, Early
  <2>3. CopyInv(w)'
    BY <1>a, <2>1, <2>2 DEF CopyInv, RowInv, store
  <2>4. runs[r].phase = "EXECUTE_DECISION" => ExecuteInv(w)'
    BY <1>a, <2>1, IdentityAssumption DEF ExecuteInv, RowInv, Covers, RequirementMet, PastGate, store
  <2>5. DriveInv(w)'
    BY <1>a, <2>1, <2>2, <2>4 DEF DriveInv, RowInv, PastGate
  <2> QED BY <1>a, <2>1, <2>3, <2>5, LocalKeeps DEF WorkerInv, Resolving, store
<1>3. ASSUME NEW a \in ApprovalIds, NEW p \in Approvers, NEW v \in {"APPROVED", "REJECTED"},
             Deliver(w, r, a, p, v)
      PROVE  Kept
  <2>1. /\ pc'[w] = "approval" /\ job'[w].run = r /\ job'[w].approval = a
        /\ copy'[w] = runs[r] /\ runs[r].approval = a /\ a # None
        /\ UNCHANGED store
    BY <1>3, IdentityAssumption DEF Deliver, Addressed, Begin, GoTo, TypeInv, TypeOK
  <2>2. runs[r].version \in Nat /\ runs[r].version > 0
    BY <1>a, <2>1, RowTypes DEF RowInv, FreshRun
  <2>3. CopyInv(w)'
    BY <1>a, <2>1, <2>2 DEF CopyInv, RowInv, store
  <2>4. AnswerInv(w)'
    BY <1>a, <2>1 DEF AnswerInv, RowInv, store
  <2> QED BY <1>a, <2>1, <2>3, <2>4, LocalKeeps DEF WorkerInv, Resolving, store
<1> QED BY <1>1, <1>2, <1>3

-----------------------------------------------------------------------------
(* Resolving an approval *)

\* What a resolving worker, its run and its approval have to do with one another.
LEMMA Answering ==
    ASSUME TypeInv, GateInv, NEW w \in Workers, pc[w] \in Resolving
    PROVE  /\ job[w].run \in RunIds /\ job[w].approval \in ApprovalIds
           /\ CopyInv(w) /\ AnswerInv(w) /\ RowInv(job[w].run)
           /\ runs[job[w].run].approval = job[w].approval /\ job[w].approval # None
           /\ AskedFor(job[w].approval, job[w].run, runs[job[w].run].outcome)
           /\ approvals[job[w].approval].status \in ApprovalStatus
           /\ ~copy[w].decided \/ copy[w].phase = "COMPLETED"
<1>1. pc[w] # "idle" /\ pc[w] \notin {"announce", "complete"}
  BY DEF Resolving
<1>2. job[w].run \in RunIds /\ job[w].approval \in ApprovalIds
  BY <1>1, WorkerTypes
<1>3. CopyInv(w) /\ AnswerInv(w) /\ RowInv(job[w].run)
  BY <1>1, <1>2 DEF GateInv, WorkerInv
<1>4. runs[job[w].run].approval = job[w].approval /\ job[w].approval # None
  BY <1>2, <1>3, IdentityAssumption DEF AnswerInv
<1>5. AskedFor(job[w].approval, job[w].run, runs[job[w].run].outcome)
  BY <1>3, <1>4 DEF RowInv
<1>6. approvals[job[w].approval].status \in ApprovalStatus
  BY <1>5 DEF AskedFor, TypeInv, TypeOK, ApprovalRow
<1>7. ~copy[w].decided \/ copy[w].phase = "COMPLETED"
  BY <1>1, <1>3 DEF CopyInv
<1> QED BY <1>2, <1>3, <1>4, <1>5, <1>6, <1>7

\* The worker turns to its next action and writes nothing.
LEMMA TurnKeeps ==
    ASSUME TypeInv, GateInv, NEW w \in Workers, Step(w), pc[w] \in Resolving,
           NEW l \in Resolving, GoTo(w, l), UNCHANGED << store, job, copy >>,
           (l = "signatures" /\ seen'[w] = "PENDING") => copy[w].phase = "AWAITING_APPROVAL",
           l # "approval",
           l \in {"refuse", "sign", "reject"} => copy[w].phase = "AWAITING_APPROVAL",
           l \notin {"collect", "hold", "open"},
           l = "sign" => ~Rejecting(w),
           l = "reject" => Rejecting(w),
           l = "reload" => Rejecting(w) /\ approvals[job[w].approval].status = "REJECTED"
    PROVE  Kept
<1>1. CopyInv(w) /\ AnswerInv(w) /\ pc'[w] = l
  BY Answering DEF GoTo, TypeInv, TypeOK
<1>2. CopyInv(w)'
  BY <1>1 DEF CopyInv, Resolving, store
<1>3. AnswerInv(w)'
  BY <1>1 DEF AnswerInv, Rejecting, store
<1> QED BY <1>1, <1>2, <1>3, LocalKeeps DEF WorkerInv, store

LEMMA AnswerLocalKeeps ==
    ASSUME TypeInv, GateInv, NEW w \in Workers,
           \/ ReadApproval(w) \/ AnswerReplay(w) \/ RefuseSigner(w) \/ AcceptSigner(w)
           \/ AcceptRejection(w) \/ RejectAgain(w) \/ Contradicted(w) \/ Reload(w)
    PROVE  Kept
<1>a. Step(w)
  BY DEF Step, Work, Resolve
<1>1. CASE AnswerReplay(w) \/ Contradicted(w)
  BY <1>1, <1>a, ReleaseKeeps DEF AnswerReplay, Contradicted
<1>2. CASE ReadApproval(w)
  <2>1. /\ pc[w] = "approval" /\ GoTo(w, "signatures")
        /\ UNCHANGED << store, job, copy >>
        /\ seen'[w] = approvals[job[w].approval].status
    BY <1>2 DEF ReadApproval, TypeInv, TypeOK
  <2>2. pc[w] \in Resolving /\ "signatures" \in Resolving
    BY <2>1 DEF Resolving
  <2>3. seen'[w] = "PENDING" => copy[w].phase = "AWAITING_APPROVAL"
    BY <2>1, <2>2, Answering DEF AnswerInv
  <2> QED BY <1>a, <2>1, <2>2, <2>3, TurnKeeps
<1>3. ASSUME NEW l \in {"refuse", "sign", "reject"}, Admit(w, l),
             l = "sign" => ~Rejecting(w), l = "reject" => Rejecting(w)
      PROVE  Kept
  <2>1. /\ pc[w] = "signatures" /\ seen[w] = "PENDING" /\ GoTo(w, l)
        /\ UNCHANGED << store, job, copy >>
    BY <1>3 DEF Admit, ReadSignatures, Inert
  <2>2. pc[w] \in Resolving /\ l \in Resolving
    BY <2>1 DEF Resolving
  <2>3. copy[w].phase = "AWAITING_APPROVAL"
    BY <2>1, <2>2, Answering DEF AnswerInv
  <2> QED BY <1>3, <1>a, <2>1, <2>2, <2>3, TurnKeeps
<1>4. CASE RefuseSigner(w)
  BY <1>3, <1>4 DEF RefuseSigner
<1>5. CASE AcceptSigner(w)
  BY <1>3, <1>5 DEF AcceptSigner, Approving, Rejecting
<1>6. CASE AcceptRejection(w)
  BY <1>3, <1>6 DEF AcceptRejection
<1>7. CASE RejectAgain(w)
  <2>1. /\ pc[w] = "reject" /\ approvals[job[w].approval].status = "REJECTED"
        /\ GoTo(w, "reload") /\ UNCHANGED << store, job, copy >>
    BY <1>7 DEF RejectAgain
  <2>2. pc[w] \in Resolving /\ "reload" \in Resolving
    BY <2>1 DEF Resolving
  <2>3. Rejecting(w)
    BY <2>1, <2>2, Answering DEF AnswerInv
  <2> QED BY <1>a, <2>1, <2>2, <2>3, TurnKeeps
<1>8. CASE Reload(w)
  <2>1. CASE runs[job[w].run].phase \in TerminalPhases
    BY <1>8, <1>a, <2>1, ReleaseKeeps DEF Reload
  <2>2. CASE runs[job[w].run].phase \notin TerminalPhases
    <3> DEFINE l == IF Rejecting(w) THEN "hold"
                    ELSE IF seen[w] = "APPROVED" THEN "open" ELSE "collect"
    <3>1. /\ pc[w] = "reload" /\ pc[w] \in Resolving /\ pc'[w] = l
          /\ copy'[w] = runs[job[w].run] /\ UNCHANGED << store, job, seen >>
      BY <1>8, <2>2 DEF Reload, GoTo, Resolving, TypeInv, TypeOK
    <3>2. /\ AnswerInv(w) /\ RowInv(job[w].run) /\ job[w].run \in RunIds
          /\ CopyInv(w)
      BY <3>1, Answering
    <3>3. runs[job[w].run].version \in Nat /\ l \in {"hold", "open", "collect"}
      BY <3>2, RowTypes
    <3>4. CopyInv(w)'
      BY <2>2, <3>1, <3>2, <3>3 DEF CopyInv, RowInv, TerminalPhases, store
    <3>5. AnswerInv(w)'
      BY <2>2, <3>1, <3>2 DEF AnswerInv, Rejecting, Granted, RequirementMet, store
    <3>6. l \in Resolving
      BY DEF Resolving
    <3> QED BY <1>a, <3>1, <3>4, <3>5, <3>6, LocalKeeps DEF WorkerInv, store
  <2> QED BY <2>1, <2>2
<1> QED BY <1>1, <1>2, <1>4, <1>5, <1>6, <1>7, <1>8

\* A run saved as it stands, while it is not over.
LEMMA AnswerSavesKeep ==
    ASSUME TypeInv, GateInv, NEW w \in Workers,
           SaveRefusal(w) \/ Collect(w) \/ Hold(w) \/ Open(w)
    PROVE  Kept
<1>a. Step(w)
  BY DEF Step, Work, Resolve
<1>b. pc[w] \in {"refuse", "collect", "hold", "open"} /\ pc[w] \in Resolving /\ pc[w] # "idle"
  BY DEF SaveRefusal, Collect, Hold, Open, Resolving
<1> PICK r \in RunIds : r = job[w].run
  BY <1>b, Answering
<1> PICK a \in ApprovalIds : a = job[w].approval
  BY <1>b, Answering
<1> PICK s \in RunState : s = copy[w]
  BY WorkerTypes
<1>c. /\ CopyInv(w) /\ AnswerInv(w) /\ RowInv(r) /\ runs[r].approval = a /\ a # None
      /\ AskedFor(a, r, runs[r].outcome)
      /\ ~s.decided \/ s.phase = "COMPLETED"
  BY <1>b, Answering
<1>d. s.phase \notin TerminalPhases
  BY <1>b, <1>c DEF AnswerInv, TerminalPhases
<1>e. ~s.decided
  BY <1>c, <1>d DEF TerminalPhases
<1>f. /\ runs[r].version \in Nat /\ runs[r].steps \in Nat /\ runs[r].phase \in Phases
      /\ s.version \in Nat
  BY RowTypes DEF RunState
<1>g. ASSUME runs[r].version = s.version
      PROVE  /\ s.phase = runs[r].phase /\ s.steps = runs[r].steps
             /\ s.budget = runs[r].budget /\ s.vendorBlocks = runs[r].vendorBlocks
             /\ s.approval = runs[r].approval /\ s.outcome = runs[r].outcome
  BY <1>b, <1>c, <1>g DEF CopyInv
<1>1. CASE SaveRefusal(w) \/ Collect(w)
  <2>1. Save(w, s, "idle")
    BY <1>1 DEF SaveRefusal, Collect
  <2>2. /\ runs[r].version = s.version /\ runs'[r].version = s.version + 1
        /\ runs'[r].phase = s.phase /\ runs'[r].steps = s.steps
        /\ runs'[r].budget = s.budget /\ runs'[r].approval = s.approval
        /\ runs'[r].outcome = s.outcome /\ runs'[r].vendorBlocks = s.vendorBlocks
        /\ runs'[r].decided = s.decided
        /\ \A q \in RunIds : q # r => runs'[q] = runs[q]
        /\ UNCHANGED << approvals, signatures, decisions >>
        /\ pc'[w] = "idle"
    BY <1>b, <2>1, Saved DEF Release, TypeInv, TypeOK
  <2>3. Moves(r)
    BY <1>d, <1>f, <1>g, <2>2 DEF Moves, Rank, Phases, ReadOnlyPhases, TerminalPhases
  <2>4. RowInv(r)'
    BY <1>c, <1>d, <1>e, <1>f, <1>g, <2>2
    DEF RowInv, AskedFor, Covers, RequirementMet, Doomed, Decided, TerminalPhases
  <2>5. WorkerInv(w)'
    BY <2>2 DEF WorkerInv
  <2> QED BY <1>a, <2>2, <2>3, <2>4, <2>5, WriteKeeps
<1>2. CASE Hold(w)
  <2>1. Save(w, [s EXCEPT !.phase = "HELD"], "idle")
    BY <1>2 DEF Hold
  <2>2. \A t \in RunState :
            /\ [t EXCEPT !.phase = "HELD"] \in RunState
            /\ [t EXCEPT !.phase = "HELD"].version = t.version
            /\ [t EXCEPT !.phase = "HELD"].phase = "HELD"
            /\ [t EXCEPT !.phase = "HELD"].steps = t.steps
            /\ [t EXCEPT !.phase = "HELD"].approval = t.approval
            /\ [t EXCEPT !.phase = "HELD"].outcome = t.outcome
            /\ [t EXCEPT !.phase = "HELD"].decided = t.decided
    BY DEF RunState, Phases, TerminalPhases
  <2>3. /\ runs[r].version = s.version /\ runs'[r].version = s.version + 1
        /\ runs'[r].phase = "HELD" /\ runs'[r].steps = s.steps
        /\ runs'[r].approval = s.approval
        /\ runs'[r].outcome = s.outcome
        /\ runs'[r].decided = s.decided
        /\ \A q \in RunIds : q # r => runs'[q] = runs[q]
        /\ UNCHANGED << approvals, signatures, decisions >>
        /\ pc'[w] = "idle"
    <3>1. PICK h \in RunState : h = [s EXCEPT !.phase = "HELD"]
      BY <2>2
    <3>2. Save(w, h, "idle")
      BY <2>1, <3>1
    <3>3. /\ h.version = s.version /\ h.phase = "HELD" /\ h.steps = s.steps
          /\ h.approval = s.approval /\ h.outcome = s.outcome /\ h.decided = s.decided
      BY <2>2, <3>1
    <3>4. Release(w) => pc'[w] = "idle"
      BY DEF Release, TypeInv, TypeOK
    <3> QED BY <1>b, <3>2, <3>3, <3>4, Saved
  <2>4. approvals[a].status = "REJECTED"
    BY <1>2, <1>c DEF AnswerInv, Hold
  <2>5. runs[r].phase # "EXECUTE_DECISION" /\ ~Decided(r)
    BY <1>c, <1>d, <1>g, <2>3, <2>4 DEF RowInv, Covers, TerminalPhases
  <2>6. Moves(r)
    BY <1>d, <1>f, <1>g, <2>3, <2>5 DEF Moves, Rank, Phases, ReadOnlyPhases, TerminalPhases
  <2>7. RowInv(r)'
    BY <1>c, <1>e, <1>f, <1>g, <2>3, <2>4, <2>5
    DEF RowInv, AskedFor, Decided, Early, ReadOnlyPhases
  <2>8. WorkerInv(w)'
    BY <2>3 DEF WorkerInv
  <2> QED BY <1>a, <2>3, <2>6, <2>7, <2>8, WriteKeeps
<1>3. CASE Open(w)
  <2>1. Save(w, [s EXCEPT !.phase = "EXECUTE_DECISION"], "drive")
    BY <1>3 DEF Open
  <2>2. \A t \in RunState :
            /\ [t EXCEPT !.phase = "EXECUTE_DECISION"] \in RunState
            /\ [t EXCEPT !.phase = "EXECUTE_DECISION"].version = t.version
            /\ [t EXCEPT !.phase = "EXECUTE_DECISION"].phase = "EXECUTE_DECISION"
            /\ [t EXCEPT !.phase = "EXECUTE_DECISION"].steps = t.steps
            /\ [t EXCEPT !.phase = "EXECUTE_DECISION"].budget = t.budget
            /\ [t EXCEPT !.phase = "EXECUTE_DECISION"].approval = t.approval
            /\ [t EXCEPT !.phase = "EXECUTE_DECISION"].outcome = t.outcome
            /\ [t EXCEPT !.phase = "EXECUTE_DECISION"].vendorBlocks = t.vendorBlocks
            /\ [t EXCEPT !.phase = "EXECUTE_DECISION"].decided = t.decided
    BY DEF RunState, Phases
  <2>3. /\ runs[r].version = s.version /\ runs'[r].version = s.version + 1
        /\ runs'[r].phase = "EXECUTE_DECISION" /\ runs'[r].steps = s.steps
        /\ runs'[r].budget = s.budget /\ runs'[r].approval = s.approval
        /\ runs'[r].outcome = s.outcome /\ runs'[r].vendorBlocks = s.vendorBlocks
        /\ runs'[r].decided = s.decided
        /\ \A q \in RunIds : q # r => runs'[q] = runs[q]
        /\ UNCHANGED << approvals, signatures, decisions >>
        /\ pc'[w] = "drive" /\ copy'[w] = runs'[r] /\ job'[w] = job[w]
    <3>1. PICK h \in RunState : h = [s EXCEPT !.phase = "EXECUTE_DECISION"]
      BY <2>2
    <3>2. Save(w, h, "drive")
      BY <2>1, <3>1
    <3>3. /\ h.version = s.version /\ h.phase = "EXECUTE_DECISION" /\ h.steps = s.steps
          /\ h.budget = s.budget /\ h.approval = s.approval /\ h.outcome = s.outcome
          /\ h.vendorBlocks = s.vendorBlocks /\ h.decided = s.decided
      BY <2>2, <3>1
    <3>4. /\ runs'[r].version = h.version + 1 /\ runs[r].version = copy[w].version
          /\ runs'[r].phase = h.phase /\ runs'[r].steps = h.steps
          /\ runs'[r].budget = h.budget /\ runs'[r].approval = h.approval
          /\ runs'[r].outcome = h.outcome /\ runs'[r].vendorBlocks = h.vendorBlocks
          /\ runs'[r].decided = h.decided
          /\ \A q \in RunIds : q # r => runs'[q] = runs[q]
          /\ UNCHANGED << approvals, signatures, decisions, job >>
          /\ pc' = [pc EXCEPT ![w] = "drive"] /\ copy' = [copy EXCEPT ![w] = runs'[r]]
      BY <1>b, <3>2, Saved
    <3>5. pc'[w] = "drive" /\ copy'[w] = runs'[r]
      BY <3>4 DEF TypeInv, TypeOK
    <3> QED BY <3>3, <3>4, <3>5
  <2>4. Granted(a)
    BY <1>3, <1>c DEF AnswerInv, Open
  <2>5. Covers(a, r, runs[r].outcome)
    BY <1>c, <2>4 DEF Granted, AskedFor, Covers
  <2>6. Covers(a, r, runs[r].outcome)' /\ AskedFor(a, r, runs[r].outcome)'
    BY <1>c, <1>g, <2>3, <2>5 DEF Covers, AskedFor, RequirementMet
  <2>7. Moves(r)
    BY <1>d, <1>f, <1>g, <2>3 DEF Moves, Rank, Phases, ReadOnlyPhases, TerminalPhases
  <2>8. RowInv(r)'
    BY <1>c, <1>d, <1>e, <1>f, <1>g, <2>3, <2>5, <2>6
    DEF RowInv, Doomed, Decided, Early, ReadOnlyPhases, TerminalPhases, Covers
  <2>9. CopyInv(w)'
    BY <1>e, <1>f, <2>3 DEF CopyInv
  <2>10. ExecuteInv(w)'
    BY <1>c, <1>g, <2>3, <2>6 DEF ExecuteInv, RowInv, PastGate
  <2>11. DriveInv(w)'
    BY <2>3, <2>10 DEF DriveInv, Early, ReadOnlyPhases, PastGate
  <2>12. WorkerInv(w)'
    BY <2>3, <2>9, <2>11 DEF WorkerInv, Resolving
  <2> QED BY <1>a, <2>3, <2>7, <2>8, <2>12, WriteKeeps
<1> QED BY <1>1, <1>2, <1>3

\* add_approval_signature: one that is filed and still leaves the approval pending did not
\* complete it; one that completes it is what the gate asks for.
LEMMA SignKeeps == ASSUME TypeInv, GateInv, NEW w \in Workers, Sign(w) PROVE Kept
<1>a. Step(w) /\ [Next]_vars
  BY DEF Step, Work, Resolve, Next
<1>b. pc[w] = "sign" /\ pc[w] \in Resolving /\ pc[w] # "idle"
  BY DEF Sign, Resolving
<1> PICK r \in RunIds : r = job[w].run
  BY <1>b, Answering
<1> PICK a \in ApprovalIds : a = job[w].approval
  BY <1>b, Answering
<1> PICK p \in Approvers : p = job[w].approver
  BY <1>b, WorkerTypes
<1> PICK signed : signed = signatures[a] \cup {p}
  OBVIOUS
<1> PICK met \in BOOLEAN : met <=> RequirementMet(approvals[a], signed)
  OBVIOUS
<1> PICK replayed \in BOOLEAN : replayed <=> p \in signatures[a]
  OBVIOUS
<1>c. /\ CopyInv(w) /\ AnswerInv(w) /\ RowInv(r) /\ runs[r].approval = a /\ a # None
      /\ AskedFor(a, r, runs[r].outcome)
      /\ approvals[a].status \in ApprovalStatus
      /\ ApprovalInv(a)
  BY <1>b, Answering DEF GateInv
<1>1. /\ approvals[a].status # "REJECTED"
      /\ signatures' = [signatures EXCEPT ![a] = signed]
      /\ met /\ ~replayed =>
            \E last : approvals' = [approvals EXCEPT ![a] =
                         [approvals[a] EXCEPT !.status = "APPROVED", !.decidedBy = last]]
      /\ ~(met /\ ~replayed) => UNCHANGED approvals
      /\ seen' = [seen EXCEPT ![w] = IF met THEN "APPROVED" ELSE "PENDING"]
      /\ pc' = [pc EXCEPT ![w] =
                  IF replayed THEN "reload" ELSE IF met THEN "open" ELSE "collect"]
      /\ UNCHANGED << runs, decisions, announced, job, copy, crashes >>
  BY DEF Sign, GoTo, AfterSignature
<1>2. /\ signatures'[a] = signed
      /\ \A b \in ApprovalIds : b # a =>
            approvals'[b] = approvals[b] /\ signatures'[b] = signatures[b]
  BY <1>1 DEF TypeInv, TypeOK
<1>3. /\ approvals'[a].run = approvals[a].run
      /\ approvals'[a].outcome = approvals[a].outcome
      /\ approvals'[a].higherRisk = approvals[a].higherRisk
      /\ approvals'[a].status = IF met /\ ~replayed THEN "APPROVED" ELSE approvals[a].status
  <2>1. approvals[a] \in ApprovalRow
    BY DEF TypeInv, TypeOK
  <2>2. CASE ~(met /\ ~replayed)
    BY <1>1, <2>2
  <2>3. CASE met /\ ~replayed
    <3> PICK last : approvals' = [approvals EXCEPT ![a] =
                       [approvals[a] EXCEPT !.status = "APPROVED", !.decidedBy = last]]
      BY <1>1, <2>3
    <3>1. approvals'[a] = [approvals[a] EXCEPT !.status = "APPROVED", !.decidedBy = last]
      BY DEF TypeInv, TypeOK
    <3>2. \A row \in ApprovalRow :
            /\ [row EXCEPT !.status = "APPROVED", !.decidedBy = last].run = row.run
            /\ [row EXCEPT !.status = "APPROVED", !.decidedBy = last].outcome = row.outcome
            /\ [row EXCEPT !.status = "APPROVED", !.decidedBy = last].higherRisk
                  = row.higherRisk
            /\ [row EXCEPT !.status = "APPROVED", !.decidedBy = last].status = "APPROVED"
      BY DEF ApprovalRow
    <3> QED BY <2>1, <2>3, <3>1, <3>2
  <2> QED BY <2>2, <2>3
<1>4. RequirementMet(approvals'[a], signatures'[a]) <=> met
  BY <1>2, <1>3 DEF RequirementMet
<1>5. approvals[a].status = "PENDING" => ~(met /\ replayed)
  <2>1. replayed => signed = signatures[a]
    OBVIOUS
  <2> QED BY <1>c, <2>1 DEF ApprovalInv
<1>6. \A q \in RunIds : Moves(q) /\ RowInv(q)'
  BY <1>a, <1>1, RowKeeps DEF Moves
<1>7. ApprovalInv(a)'
  <2>1. approvals'[a].status # "ABSENT" /\ approvals'[a].run = r
    BY <1>c, <1>3 DEF AskedFor, ApprovalStatus
  <2>2. approvals'[a].status = "PENDING" => ~met
    BY <1>3, <1>5
  <2> QED BY <1>c, <1>1, <1>4, <2>1, <2>2 DEF ApprovalInv
<1>8. ASSUME NEW b \in ApprovalIds PROVE ApprovalInv(b)'
  BY <1>2, <1>6, <1>7, ApprovalKeeps
<1>9. met => Granted(a)'
  <2>1. met => approvals'[a].status = "APPROVED"
    BY <1>c, <1>1, <1>3, <1>5 DEF ApprovalStatus
  <2> QED BY <1>4, <2>1 DEF Granted
<1>10. /\ pc'[w] = IF replayed THEN "reload" ELSE IF met THEN "open" ELSE "collect"
       /\ seen'[w] = IF met THEN "APPROVED" ELSE "PENDING"
       /\ UNCHANGED << job, copy, runs >>
  BY <1>1 DEF TypeInv, TypeOK
<1>11. pc'[w] \in {"reload", "open", "collect"} /\ pc'[w] \in Resolving
  BY <1>10 DEF Resolving
<1>12. CopyInv(w)'
  BY <1>b, <1>c, <1>10, <1>11 DEF CopyInv
<1>13. ~Rejecting(w) /\ ~Rejecting(w)' /\ copy[w].phase = "AWAITING_APPROVAL"
  BY <1>b, <1>c, <1>10 DEF AnswerInv, Rejecting
<1>14. (pc'[w] = "open" \/ seen'[w] = "APPROVED") => met
  BY <1>10
<1>15. AnswerInv(w)'
  BY <1>c, <1>9, <1>10, <1>11, <1>13, <1>14 DEF AnswerInv, TerminalPhases, Granted
<1> QED BY <1>a, <1>1, <1>6, <1>8, <1>11, <1>12, <1>15, StepKeeps DEF WorkerInv

LEMMA RejectKeeps == ASSUME TypeInv, GateInv, NEW w \in Workers, Reject(w) PROVE Kept
<1>a. Step(w) /\ [Next]_vars
  BY DEF Step, Work, Resolve, Next
<1>b. pc[w] = "reject" /\ pc[w] \in Resolving /\ pc[w] # "idle"
  BY DEF Reject, Resolving
<1> PICK r \in RunIds : r = job[w].run
  BY <1>b, Answering
<1> PICK a \in ApprovalIds : a = job[w].approval
  BY <1>b, Answering
<1>c. /\ CopyInv(w) /\ AnswerInv(w) /\ runs[r].approval = a /\ a # None
      /\ AskedFor(a, r, runs[r].outcome)
  BY <1>b, Answering
<1>1. /\ approvals' = [approvals EXCEPT ![a].status = "REJECTED",
                                        ![a].decidedBy = job[w].approver]
      /\ pc'[w] = "hold"
      /\ UNCHANGED << runs, signatures, decisions, job, copy >>
  BY DEF Reject, GoTo, TypeInv, TypeOK
<1>2. /\ approvals'[a].status = "REJECTED" /\ approvals'[a].run = approvals[a].run
      /\ \A b \in ApprovalIds : b # a => approvals'[b] = approvals[b]
  BY <1>1 DEF TypeInv, TypeOK, ApprovalRow
<1>3. \A q \in RunIds : Moves(q) /\ RowInv(q)'
  BY <1>a, <1>1, RowKeeps DEF Moves
<1>4. ApprovalInv(a)'
  BY <1>c, <1>1, <1>2 DEF ApprovalInv, AskedFor
<1>5. ASSUME NEW b \in ApprovalIds PROVE ApprovalInv(b)'
  BY <1>1, <1>2, <1>3, <1>4, ApprovalKeeps
<1>6. CopyInv(w)'
  BY <1>b, <1>c, <1>1 DEF CopyInv
<1>7. AnswerInv(w)'
  BY <1>b, <1>c, <1>1, <1>2 DEF AnswerInv, TerminalPhases
<1>8. "hold" \in Resolving
  BY DEF Resolving
<1> QED BY <1>a, <1>1, <1>3, <1>5, <1>6, <1>7, <1>8, StepKeeps DEF WorkerInv

-----------------------------------------------------------------------------
(* Driving a run *)

LEMMA Driven ==
    ASSUME TypeInv, GateInv, NEW w \in Workers, pc[w] # "idle", pc[w] \notin Resolving
    PROVE  /\ job[w].run \in RunIds /\ CopyInv(w) /\ DriveInv(w) /\ RowInv(job[w].run)
           /\ copy[w] \in RunState
           /\ copy[w].version \in Nat /\ runs[job[w].run].version \in Nat
BY WorkerTypes, CopyTypes, RowTypes DEF GateInv, WorkerInv

\* A worker whose run passed the gate, or comes to it: what it carries is approved.
LEMMA Executing ==
    ASSUME TypeInv, GateInv, NEW w \in Workers, pc[w] # "idle", pc[w] \notin Resolving,
           copy[w].phase = "EXECUTE_DECISION"
    PROVE  /\ ExecuteInv(w) /\ copy[w].approval \in ApprovalIds /\ copy[w].approval # None
           /\ copy[w].decided => pc[w] \in {"announce", "complete"}
BY Driven, IdentityAssumption DEF DriveInv, CopyInv, ExecuteInv, Covers

\* The worker turns to its next action with the copy it has.
LEMMA DriveTurnKeeps ==
    ASSUME TypeInv, GateInv, NEW w \in Workers, Step(w), pc[w] \in {"drive", "tool"},
           NEW l \in {"fail", "tool", "record"}, GoTo(w, l),
           UNCHANGED << runs, approvals, signatures, decisions, job, copy >>,
           (l = "fail" /\ copy[w].phase = "EXECUTE_DECISION") => Doomed(copy[w]),
           l # "fail" => copy[w].phase = "EXECUTE_DECISION" /\ ~Doomed(copy[w])
    PROVE  Kept
<1>a. pc[w] # "idle" /\ pc[w] \notin Resolving /\ pc[w] # "park" /\ l \notin Resolving
  BY DEF Resolving
<1>b. CopyInv(w) /\ DriveInv(w) /\ pc'[w] = l
  BY <1>a, Driven DEF GoTo, TypeInv, TypeOK
<1>1. CopyInv(w)'
  BY <1>a, <1>b DEF CopyInv
<1>2. ASSUME copy[w].phase = "EXECUTE_DECISION" PROVE ExecuteInv(w)'
  BY <1>a, <1>b, <1>2, Executing
  DEF ExecuteInv, Covers, RequirementMet, Doomed, PastGate, DecisionOf
<1>3. copy[w].phase \in Early \cup {"EXECUTE_DECISION"}
  BY <1>b DEF DriveInv, PastGate
<1>4. l = "fail" <=> l \notin PastGate
  BY DEF PastGate
<1>5. DriveInv(w)'
  BY <1>a, <1>b, <1>2, <1>3, <1>4 DEF DriveInv
<1> QED BY <1>a, <1>b, <1>1, <1>5, LocalKeeps DEF WorkerInv

LEMMA DriveLocalKeeps ==
    ASSUME TypeInv, GateInv, NEW w \in Workers,
           \/ ExhaustSteps(w) \/ ModelFails(w) \/ PassGate(w) \/ GateRefuses(w)
           \/ CheckTool(w) \/ RecordConflict(w)
    PROVE  Kept
<1>a. Step(w)
  BY DEF Step, Work, Drive
<1>1. CASE RecordConflict(w)
  BY <1>1, <1>a, ReleaseKeeps DEF RecordConflict
<1>2. CASE ExhaustSteps(w)
  BY <1>2, <1>a, DriveTurnKeeps DEF ExhaustSteps, Exhausted, Doomed, store
<1>3. CASE ModelFails(w)
  BY <1>3, <1>a, DriveTurnKeeps DEF ModelFails, Driving, ModelPhases, store
<1>4. CASE PassGate(w)
  BY <1>4, <1>a, DriveTurnKeeps
  DEF PassGate, GatePermits, Driving, Exhausted, Doomed, store
<1>5. CASE GateRefuses(w)
  <2>1. /\ pc[w] = "drive" /\ copy[w].phase = "EXECUTE_DECISION" /\ ~GatePermits(w)
        /\ GoTo(w, "fail") /\ UNCHANGED << store, job, copy >>
    BY <1>5 DEF GateRefuses, Driving
  <2>2. /\ ExecuteInv(w) /\ copy[w].approval # None /\ ~copy[w].decided
    BY <2>1, Executing DEF Resolving
  <2>3. copy[w].vendorBlocks
    BY <2>1, <2>2 DEF GatePermits, ExecuteInv, Covers
  <2> QED BY <1>a, <2>1, <2>3, DriveTurnKeeps DEF Doomed, store
<1>6. CASE CheckTool(w)
  <2>1. pc[w] = "tool" /\ UNCHANGED << store, job, copy >>
    BY <1>6 DEF CheckTool
  <2>2. copy[w].phase = "EXECUTE_DECISION"
    BY <2>1, Driven DEF DriveInv, PastGate, Resolving
  <2>3. ExecuteInv(w)
    BY <2>1, <2>2, Executing DEF Resolving
  <2>4. ToolPermits(w) /\ ~Doomed(copy[w])
    BY <2>1, <2>3 DEF ExecuteInv, Covers, ToolPermits, PastGate
  <2>5. GoTo(w, "record")
    BY <1>6, <2>4 DEF CheckTool
  <2> QED BY <1>a, <2>1, <2>2, <2>4, <2>5, DriveTurnKeeps DEF store
<1> QED BY <1>1, <1>2, <1>3, <1>4, <1>5, <1>6

\* The recommendation: the copy takes an outcome, and an approval when one is needed.
LEMMA RecommendKeeps ==
    ASSUME TypeInv, GateInv, NEW w \in Workers, RecommendHold(w) \/ RequestApproval(w)
    PROVE  Kept
<1>a. Step(w) /\ [Next]_vars
  BY DEF Step, Work, Drive, Next
<1>b. /\ pc[w] = "drive" /\ copy[w].phase = "RECOMMEND"
      /\ pc[w] # "idle" /\ pc[w] \notin Resolving
  BY DEF RecommendHold, RequestApproval, Driving, Resolving
<1> PICK r \in RunIds : r = job[w].run
  BY <1>b, Driven
<1>c. /\ CopyInv(w) /\ DriveInv(w) /\ RowInv(r) /\ copy[w] \in RunState
      /\ copy[w].approval = None /\ ~copy[w].decided
  BY <1>b, Driven DEF DriveInv, CopyInv, Early
<1>d. "park" \notin Resolving /\ "park" \notin PastGate
  BY DEF Resolving, PastGate
<1>1. CASE RecommendHold(w)
  <2> PICK o \in Recommendable(copy[w]) \ Consequential :
          copy' = [copy EXCEPT ![w].outcome = o]
    BY <1>1 DEF RecommendHold
  <2>1. /\ pc'[w] = "park"
        /\ UNCHANGED << runs, approvals, signatures, decisions, job >>
    BY <1>1 DEF RecommendHold, GoTo, store, TypeInv, TypeOK
  <2>2. /\ copy'[w].phase = "RECOMMEND" /\ copy'[w].version = copy[w].version
        /\ copy'[w].steps = copy[w].steps /\ copy'[w].budget = copy[w].budget
        /\ copy'[w].vendorBlocks = copy[w].vendorBlocks
        /\ copy'[w].approval = None /\ copy'[w].outcome = o
        /\ copy'[w].decided = copy[w].decided
    BY <1>b, <1>c DEF TypeInv, TypeOK, RunState
  <2>3. CopyInv(w)'
    BY <1>b, <1>c, <2>1, <2>2 DEF CopyInv
  <2>4. DriveInv(w)'
    BY <1>d, <2>1, <2>2 DEF DriveInv
  <2> QED BY <1>a, <1>d, <2>1, <2>3, <2>4, LocalKeeps DEF WorkerInv
<1>2. CASE RequestApproval(w)
  <2> PICK o \in Recommendable(copy[w]) \cap Consequential, a \in ApprovalIds :
        /\ approvals[a].status = "ABSENT"
        /\ approvals' = [approvals EXCEPT ![a] =
              [ run |-> job[w].run, status |-> "PENDING", outcome |-> o,
                higherRisk |-> copy[w].higherRisk, decidedBy |-> None ]]
        /\ copy' = [copy EXCEPT ![w].outcome = o, ![w].approval = a]
    BY <1>2 DEF RequestApproval
  <2>1. /\ pc'[w] = "park" /\ UNCHANGED << runs, signatures, decisions, job >>
    BY <1>2 DEF RequestApproval, GoTo, TypeInv, TypeOK
  <2>2. /\ approvals'[a].status = "PENDING" /\ approvals'[a].run = r
        /\ approvals'[a].outcome = o
        /\ \A b \in ApprovalIds : b # a => approvals'[b] = approvals[b]
    BY DEF TypeInv, TypeOK
  <2>3. \A t \in RunState :
          LET u == [t EXCEPT !.outcome = o, !.approval = a]
          IN  /\ u.phase = t.phase /\ u.version = t.version /\ u.steps = t.steps
              /\ u.budget = t.budget /\ u.vendorBlocks = t.vendorBlocks
              /\ u.approval = a /\ u.outcome = o /\ u.decided = t.decided
    BY DEF RunState
  <2>4. copy'[w] = [copy[w] EXCEPT !.outcome = o, !.approval = a]
    BY DEF TypeInv, TypeOK
  <2>5. /\ copy'[w].phase = "RECOMMEND" /\ copy'[w].version = copy[w].version
        /\ copy'[w].steps = copy[w].steps /\ copy'[w].budget = copy[w].budget
        /\ copy'[w].vendorBlocks = copy[w].vendorBlocks
        /\ copy'[w].approval = a /\ copy'[w].outcome = o
        /\ copy'[w].decided = copy[w].decided
    BY <1>b, <1>c, <2>3, <2>4
  <2>6. \A q \in RunIds : Moves(q) /\ RowInv(q)'
    BY <1>a, <2>1, RowKeeps DEF Moves
  <2>7. ApprovalInv(a)'
    <3>1. signatures'[a] = {}
      BY <2>1 DEF GateInv, ApprovalInv
    <3>2. ~RequirementMet(approvals'[a], signatures'[a])
      <4>1. Cardinality({}) = 0
        BY FS_EmptySet
      <4> QED BY <3>1, <4>1 DEF RequirementMet
    <3> QED BY <2>2, <3>1, <3>2 DEF ApprovalInv
  <2>8. ASSUME NEW b \in ApprovalIds PROVE ApprovalInv(b)'
    BY <2>1, <2>2, <2>6, <2>7, ApprovalKeeps
  <2>9. CopyInv(w)'
    BY <1>b, <1>c, <2>1, <2>5 DEF CopyInv
  <2>10. DriveInv(w)'
    BY <1>d, <2>1, <2>2, <2>5, IdentityAssumption DEF DriveInv, AskedFor
  <2> QED BY <1>a, <1>d, <2>1, <2>6, <2>8, <2>9, <2>10, StepKeeps DEF WorkerInv
<1> QED BY <1>1, <1>2

\* A phase of the plan is over, or the run fails.
LEMMA EarlySavesKeep ==
    ASSUME TypeInv, GateInv, NEW w \in Workers, ReadPhase(w) \/ Park(w)
    PROVE  Kept
<1>a. Step(w)
  BY DEF Step, Work, Drive
<1>b. /\ pc[w] \in {"drive", "park"} /\ pc[w] # "idle" /\ pc[w] \notin Resolving
      /\ pc[w] \notin {"announce", "complete"}
  BY DEF ReadPhase, Park, Driving, Resolving
<1> PICK r \in RunIds : r = job[w].run
  BY <1>b, Driven
<1>c. /\ CopyInv(w) /\ DriveInv(w) /\ RowInv(r) /\ copy[w] \in RunState
      /\ copy[w].version \in Nat /\ copy[w].steps \in Nat
      /\ runs[r].version \in Nat /\ runs[r].steps \in Nat
  BY <1>b, Driven, RowTypes, CopyTypes
<1>d. copy[w].phase \in Early /\ copy[w].phase \notin {"EXECUTE_DECISION", "COMPLETED", "FAILED"}
  BY <1>b, <1>c DEF ReadPhase, Park, Driving, DriveInv, Early, ReadOnlyPhases
<1>e. ~copy[w].decided
  BY <1>b, <1>c, <1>d DEF CopyInv
<1>f. ASSUME runs[r].version = copy[w].version
      PROVE  /\ copy[w].phase = runs[r].phase /\ copy[w].steps = runs[r].steps
             /\ runs[r].approval = None /\ ~Decided(r)
  BY <1>c, <1>d, <1>f DEF CopyInv, RowInv
<1>1. CASE ReadPhase(w)
  <2> PICK s \in Established(copy[w]) : Save(w, Advanced(s, NextPhase[s.phase]), "drive")
    BY <1>1 DEF ReadPhase
  <2>1. copy[w].phase \in ReadOnlyPhases /\ pc[w] = "drive" /\ copy[w].approval = None
    BY <1>1, <1>c, <1>d DEF ReadPhase, Driving, DriveInv
  <2>2. /\ s \in RunState /\ s.steps = copy[w].steps /\ s.phase = copy[w].phase
        /\ s.version = copy[w].version /\ s.approval = None /\ s.decided = copy[w].decided
    BY <1>c, <2>1, BoundAssumption DEF Established, RunState
  <2> PICK next \in Early : next = NextPhase[s.phase]
    BY <2>1, <2>2 DEF NextPhase, Early, ReadOnlyPhases
  <2>3. /\ Rank[s.phase] <= Rank[next]
        /\ next \in Phases /\ next \notin {"EXECUTE_DECISION", "COMPLETED", "FAILED"}
    BY <2>1, <2>2 DEF NextPhase, Rank, ReadOnlyPhases, Phases, Early
  <2> PICK h : h = Advanced(s, next)
    OBVIOUS
  <2>4. h \in RunState
    BY <2>2, <2>3, AdvancedTypes
  <2>5. /\ h.phase = next /\ h.steps = s.steps + 1 /\ h.version = s.version
        /\ h.approval = s.approval /\ h.decided = s.decided
    BY <2>2 DEF Advanced, RunState
  <2>6. Save(w, h, "drive")
    OBVIOUS
  <2>7. /\ runs[r].version = copy[w].version /\ runs'[r].version = h.version + 1
        /\ runs'[r].phase = h.phase /\ runs'[r].steps = h.steps
        /\ runs'[r].approval = h.approval
        /\ runs'[r].decided = h.decided
        /\ \A q \in RunIds : q # r => runs'[q] = runs[q]
        /\ UNCHANGED << approvals, signatures, decisions, job >>
        /\ pc' = [pc EXCEPT ![w] = "drive"] /\ copy' = [copy EXCEPT ![w] = runs'[r]]
    BY <1>b, <2>4, <2>6, Saved
  <2>8. /\ runs'[r].version = copy[w].version + 1 /\ runs'[r].phase = next
        /\ runs'[r].steps = copy[w].steps + 1
        /\ runs'[r].approval = None /\ ~runs'[r].decided
        /\ pc'[w] = "drive" /\ copy'[w] = runs'[r]
    BY <1>e, <2>2, <2>5, <2>7 DEF TypeInv, TypeOK
  <2>9. Moves(r)
    BY <1>c, <1>d, <1>f, <2>2, <2>3, <2>7, <2>8 DEF Moves, Early, ReadOnlyPhases, TerminalPhases
  <2>10. RowInv(r)'
    BY <1>c, <1>f, <2>3, <2>7, <2>8 DEF RowInv, Decided
  <2>11. CopyInv(w)'
    BY <1>c, <2>7, <2>8 DEF CopyInv
  <2>12. DriveInv(w)'
    BY <2>3, <2>8 DEF DriveInv, PastGate
  <2>13. WorkerInv(w)'
    BY <2>8, <2>11, <2>12 DEF WorkerInv, Resolving
  <2> QED BY <1>a, <2>7, <2>9, <2>10, <2>13, WriteKeeps
<1>2. CASE Park(w)
  <2> PICK next \in {"AWAITING_APPROVAL", "HELD"} : next = AfterRecommend(copy[w].outcome)
    BY DEF AfterRecommend
  <2> PICK h : h = Advanced(copy[w], next)
    OBVIOUS
  <2>1. Save(w, h, "idle") /\ pc[w] = "park" /\ copy[w].phase = "RECOMMEND"
    BY <1>2, <1>c DEF Park, DriveInv
  <2>2. h \in RunState
    BY <1>c, AdvancedTypes DEF Phases, TerminalPhases
  <2>3. /\ h.phase = next /\ h.steps = copy[w].steps + 1 /\ h.version = copy[w].version
        /\ h.approval = copy[w].approval /\ h.outcome = copy[w].outcome
        /\ h.decided = copy[w].decided
    BY <1>c DEF Advanced, RunState
  <2>4. /\ runs[r].version = copy[w].version /\ runs'[r].version = h.version + 1
        /\ runs'[r].phase = h.phase /\ runs'[r].steps = h.steps
        /\ runs'[r].approval = h.approval /\ runs'[r].outcome = h.outcome
        /\ runs'[r].decided = h.decided
        /\ \A q \in RunIds : q # r => runs'[q] = runs[q]
        /\ UNCHANGED << approvals, signatures, decisions >>
        /\ Release(w)
    BY <1>b, <2>1, <2>2, Saved
  <2>5. /\ runs'[r].version = copy[w].version + 1 /\ runs'[r].phase = next
        /\ runs'[r].steps = copy[w].steps + 1
        /\ runs'[r].approval = copy[w].approval /\ runs'[r].outcome = copy[w].outcome
        /\ ~runs'[r].decided
    BY <1>e, <2>3, <2>4
  <2>6. WorkerInv(w)'
    BY <2>4 DEF WorkerInv, Release, TypeInv, TypeOK
  <2>7. Moves(r)
    BY <1>c, <1>f, <2>1, <2>4, <2>5 DEF Moves, Rank, TerminalPhases
  <2>8. copy[w].approval # None =>
            /\ AskedFor(copy[w].approval, r, copy[w].outcome)
            /\ copy[w].outcome \in Consequential /\ next = "AWAITING_APPROVAL"
    BY <1>c, <2>1 DEF DriveInv, AfterRecommend
  <2>9. RowInv(r)'
    BY <1>c, <1>f, <2>4, <2>5, <2>8 DEF RowInv, AskedFor, Decided, Early, ReadOnlyPhases
  <2> QED BY <1>a, <2>4, <2>6, <2>7, <2>9, WriteKeeps
<1> QED BY <1>1, <1>2

LEMMA CompleteKeeps == ASSUME TypeInv, GateInv, NEW w \in Workers, Complete(w) PROVE Kept
<1>a. Step(w)
  BY DEF Step, Work, Drive
<1>b. pc[w] = "complete" /\ pc[w] # "idle" /\ pc[w] \notin Resolving
  BY DEF Complete, Resolving
<1> PICK r \in RunIds : r = job[w].run
  BY <1>b, Driven
<1>c. /\ CopyInv(w) /\ RowInv(r) /\ copy[w] \in RunState
      /\ copy[w].version \in Nat /\ copy[w].steps \in Nat
      /\ runs[r].version \in Nat /\ runs[r].steps \in Nat
      /\ copy[w].phase = "EXECUTE_DECISION"
  BY <1>b, Driven, RowTypes, CopyTypes DEF DriveInv, PastGate
<1>d. /\ ExecuteInv(w) /\ copy[w].approval # None
  BY <1>b, <1>c, Executing
<1> PICK h : h = Advanced(copy[w], "COMPLETED")
  OBVIOUS
<1>1. Save(w, h, "idle")
  BY DEF Complete
<1>2. h \in RunState
  BY <1>c, AdvancedTypes DEF Phases, TerminalPhases
<1>3. /\ h.phase = "COMPLETED" /\ h.steps = copy[w].steps + 1
      /\ h.approval = copy[w].approval /\ h.outcome = copy[w].outcome
      /\ h.version = copy[w].version /\ h.vendorBlocks = copy[w].vendorBlocks
      /\ h.budget = copy[w].budget
  BY <1>c DEF Advanced, RunState
<1>4. /\ runs[r].version = copy[w].version /\ runs'[r].version = h.version + 1
      /\ runs'[r].phase = h.phase /\ runs'[r].steps = h.steps
      /\ runs'[r].approval = h.approval /\ runs'[r].outcome = h.outcome
      /\ runs'[r].budget = h.budget /\ runs'[r].vendorBlocks = h.vendorBlocks
      /\ \A q \in RunIds : q # r => runs'[q] = runs[q]
      /\ UNCHANGED << approvals, signatures, decisions >>
      /\ Release(w)
  BY <1>b, <1>1, <1>2, Saved
<1>5. /\ runs'[r].version = copy[w].version + 1 /\ runs'[r].phase = "COMPLETED"
      /\ runs'[r].steps = copy[w].steps + 1
      /\ runs'[r].approval = copy[w].approval /\ runs'[r].outcome = copy[w].outcome
      /\ runs'[r].budget = copy[w].budget /\ runs'[r].vendorBlocks = copy[w].vendorBlocks
  BY <1>3, <1>4
<1>6. WorkerInv(w)'
  BY <1>4 DEF WorkerInv, Release, TypeInv, TypeOK
<1>7. /\ runs[r].phase = "EXECUTE_DECISION" /\ runs[r].steps = copy[w].steps
      /\ runs[r].approval = copy[w].approval /\ runs[r].outcome = copy[w].outcome
      /\ runs[r].budget = copy[w].budget /\ runs[r].vendorBlocks = copy[w].vendorBlocks
  BY <1>b, <1>c, <1>4 DEF CopyInv
<1>8. Moves(r)
  BY <1>c, <1>4, <1>5, <1>7 DEF Moves, Rank, TerminalPhases
<1>9. decisions[r] = [ approval |-> copy[w].approval, outcome |-> copy[w].outcome ]
  BY <1>b, <1>d DEF ExecuteInv, DecisionOf
<1>10. /\ AskedFor(copy[w].approval, r, copy[w].outcome) /\ copy[w].outcome \in Consequential
       /\ approvals[copy[w].approval].status = "APPROVED"
  BY <1>d DEF ExecuteInv, Covers, AskedFor
<1>11. RowInv(r)'
  BY <1>c, <1>4, <1>5, <1>9, <1>10
  DEF RowInv, AskedFor, Early, ReadOnlyPhases
<1> QED BY <1>a, <1>4, <1>6, <1>8, <1>11, WriteKeeps

\* A run fails before the gate, or at it; a run past it has nothing left to fail on.
LEMMA FailKeeps == ASSUME TypeInv, GateInv, NEW w \in Workers, Fail(w) PROVE Kept
<1>a. Step(w)
  BY DEF Step, Work, Drive
<1>b. pc[w] = "fail" /\ pc[w] # "idle" /\ pc[w] \notin Resolving
  BY DEF Fail, Resolving
<1> PICK r \in RunIds : r = job[w].run
  BY <1>b, Driven
<1>c. /\ CopyInv(w) /\ DriveInv(w) /\ RowInv(r) /\ copy[w] \in RunState
      /\ copy[w].version \in Nat
      /\ runs[r].version \in Nat /\ runs[r].steps \in Nat
      /\ copy[w].phase \in Early \cup {"EXECUTE_DECISION"}
  BY <1>b, Driven, RowTypes DEF DriveInv
<1>d. ~copy[w].decided
  BY <1>b, <1>c DEF CopyInv, Early, ReadOnlyPhases
<1>1. LET h == [copy[w] EXCEPT !.phase = "FAILED"]
      IN  /\ h \in RunState
          /\ h.phase = "FAILED" /\ h.steps = copy[w].steps
          /\ h.approval = copy[w].approval /\ h.outcome = copy[w].outcome
          /\ h.version = copy[w].version /\ h.vendorBlocks = copy[w].vendorBlocks
          /\ h.budget = copy[w].budget /\ h.decided = copy[w].decided
          /\ Save(w, h, "idle")
  BY <1>c DEF RunState, Phases, TerminalPhases, Fail
<1>2. PICK h \in RunState :
          /\ h.phase = "FAILED" /\ h.steps = copy[w].steps
          /\ h.approval = copy[w].approval /\ h.outcome = copy[w].outcome
          /\ h.version = copy[w].version /\ h.vendorBlocks = copy[w].vendorBlocks
          /\ h.budget = copy[w].budget /\ h.decided = copy[w].decided
          /\ Save(w, h, "idle")
  BY <1>1
<1>3. /\ runs[r].version = copy[w].version /\ runs'[r].version = h.version + 1
      /\ runs'[r].phase = h.phase /\ runs'[r].steps = h.steps
      /\ runs'[r].approval = h.approval /\ runs'[r].outcome = h.outcome
      /\ runs'[r].budget = h.budget /\ runs'[r].vendorBlocks = h.vendorBlocks
      /\ runs'[r].decided = h.decided
      /\ \A q \in RunIds : q # r => runs'[q] = runs[q]
      /\ UNCHANGED << approvals, signatures, decisions >>
      /\ Release(w)
  BY <1>b, <1>2, Saved
<1>4. /\ runs'[r].version = copy[w].version + 1 /\ runs'[r].phase = "FAILED"
      /\ runs'[r].steps = copy[w].steps
      /\ runs'[r].approval = copy[w].approval /\ runs'[r].outcome = copy[w].outcome
      /\ runs'[r].budget = copy[w].budget /\ runs'[r].vendorBlocks = copy[w].vendorBlocks
      /\ ~runs'[r].decided
  BY <1>d, <1>2, <1>3
<1>5. WorkerInv(w)'
  BY <1>3 DEF WorkerInv, Release, TypeInv, TypeOK
<1>6. /\ runs[r].phase = copy[w].phase /\ runs[r].steps = copy[w].steps
      /\ runs[r].approval = copy[w].approval /\ runs[r].outcome = copy[w].outcome
      /\ runs[r].budget = copy[w].budget /\ runs[r].vendorBlocks = copy[w].vendorBlocks
  BY <1>b, <1>c, <1>3 DEF CopyInv
<1>7. Moves(r)
  BY <1>c, <1>3, <1>4, <1>6 DEF Moves, Rank, Early, ReadOnlyPhases, TerminalPhases
<1>8. CASE copy[w].phase \in Early
  <2>1. runs'[r].approval = None /\ ~Decided(r)
    BY <1>c, <1>4, <1>6, <1>8 DEF RowInv, Early, ReadOnlyPhases
  <2>2. RowInv(r)'
    BY <1>c, <1>3, <1>4, <2>1 DEF RowInv, Decided
  <2> QED BY <1>a, <1>3, <1>5, <1>7, <2>2, WriteKeeps
<1>9. CASE copy[w].phase = "EXECUTE_DECISION"
  <2>1. ExecuteInv(w) /\ copy[w].approval # None
    BY <1>b, <1>9, Executing
  <2>2. Doomed(copy[w]) /\ Doomed(runs'[r])
    BY <1>b, <1>4, <2>1 DEF ExecuteInv, Doomed
  <2>3. ~Decided(r)
    BY <1>c, <1>6, <1>9, <2>2 DEF RowInv, Doomed
  <2>4. /\ AskedFor(copy[w].approval, r, copy[w].outcome) /\ copy[w].outcome \in Consequential
        /\ approvals[copy[w].approval].status = "APPROVED"
    BY <2>1 DEF ExecuteInv, Covers, AskedFor
  <2>5. RowInv(r)'
    BY <1>c, <1>3, <1>4, <2>2, <2>3, <2>4
    DEF RowInv, AskedFor, Doomed, Decided, Early, ReadOnlyPhases
  <2> QED BY <1>a, <1>3, <1>5, <1>7, <2>5, WriteKeeps
<1> QED BY <1>c, <1>8, <1>9

-----------------------------------------------------------------------------
(* The ledger *)

\* Whoever records first finds the run still to be completed and open to it.
LEMMA RecordFirstKeeps ==
    ASSUME TypeInv, AuthInv, GateInv, NEW w \in Workers, RecordFirst(w)
    PROVE  Kept
<1>a. Step(w) /\ [Next]_vars
  BY DEF Step, Work, Drive, Next
<1>b. pc[w] = "record" /\ pc[w] # "idle" /\ pc[w] \notin Resolving
  BY DEF RecordFirst, Resolving
<1> PICK r \in RunIds : r = job[w].run
  BY <1>b, Driven
<1>c. /\ CopyInv(w) /\ RowInv(r) /\ copy[w] \in RunState
      /\ copy[w].phase = "EXECUTE_DECISION"
  BY <1>b, Driven DEF DriveInv, PastGate
<1>d. ExecuteInv(w) /\ copy[w].approval # None
  BY <1>b, <1>c, Executing
<1>1. ~Decided(r) /\ Decided(r)' /\ decisions' = [decisions EXCEPT ![r] = DecisionOf(w)]
  BY FirstDecision
<1>2. /\ pc'[w] = "announce" /\ UNCHANGED << runs, approvals, signatures, job >>
      /\ copy' = [copy EXCEPT ![w].decided = TRUE]
  BY DEF RecordFirst, GoTo, TypeInv, TypeOK
<1>3. /\ decisions'[r] = DecisionOf(w)
      /\ \A q \in RunIds : q # r => decisions'[q] = decisions[q]
  BY <1>1 DEF TypeInv, TypeOK
<1>4. /\ copy'[w].phase = copy[w].phase /\ copy'[w].steps = copy[w].steps
      /\ copy'[w].version = copy[w].version /\ copy'[w].budget = copy[w].budget
      /\ copy'[w].approval = copy[w].approval /\ copy'[w].outcome = copy[w].outcome
      /\ copy'[w].vendorBlocks = copy[w].vendorBlocks
  BY <1>c, <1>2 DEF TypeInv, TypeOK, RunState
<1>5. ~Doomed(copy[w])
  BY <1>b, <1>d DEF ExecuteInv, PastGate
<1>6. runs[r].phase = "EXECUTE_DECISION" /\ ~Doomed(runs[r])
  <2>1. runs[r].phase # "COMPLETED"
    <3>1. DecisionOf(w).approval # NoDecision.approval
      BY <1>d DEF DecisionOf, NoDecision
    <3>2. runs[r].phase = "COMPLETED" => decisions[r] = DecisionOf(w)
      BY <1>c, <1>d DEF RowInv, ExecuteInv, DecisionOf
    <3> QED BY <1>1, <3>1, <3>2 DEF Decided
  <2>2. ~Doomed(runs[r])
    BY <1>d, <1>5, <2>1 DEF ExecuteInv, Doomed
  <2> QED BY <1>c, <1>d, <2>1, <2>2 DEF RowInv, ExecuteInv
<1>7. RowInv(r)'
  BY <1>c, <1>2, <1>6
  DEF RowInv, AskedFor, Covers, RequirementMet, Doomed, Decided, Early, ReadOnlyPhases
<1>8. \A q \in RunIds : Moves(q) /\ RowInv(q)'
  BY <1>a, <1>2, <1>3, <1>7, RowKeeps DEF Moves
<1>9. \A b \in ApprovalIds : ApprovalInv(b)'
  BY <1>2, <1>8, ApprovalKeeps
<1>10. CopyInv(w)'
  BY <1>b, <1>c, <1>2, <1>4 DEF CopyInv
<1>11. ExecuteInv(w)'
  BY <1>b, <1>d, <1>2, <1>3, <1>4, <1>5
  DEF ExecuteInv, Covers, RequirementMet, Doomed, PastGate, DecisionOf
<1>12. DriveInv(w)'
  BY <1>c, <1>2, <1>4, <1>11 DEF DriveInv, Early, ReadOnlyPhases
<1>13. WorkerInv(w)'
  BY <1>2, <1>10, <1>12 DEF WorkerInv, Resolving
<1>14. \A q \in RunIds : Decided(q) => decisions'[q] = decisions[q]
  BY <1>1, <1>3
<1> QED BY <1>a, <1>8, <1>9, <1>13, <1>14, StepKeeps

LEMMA RecordedKeeps ==
    ASSUME TypeInv, GateInv, NEW w \in Workers, RecordAgain(w) \/ Announce(w)
    PROVE  Kept
<1>a. Step(w)
  BY DEF Step, Work, Drive
<1>b. pc[w] \in {"record", "announce"} /\ pc[w] # "idle" /\ pc[w] \notin Resolving
  BY DEF RecordAgain, Announce, Resolving
<1> PICK r \in RunIds : r = job[w].run
  BY <1>b, Driven
<1>c. CopyInv(w) /\ copy[w] \in RunState /\ copy[w].phase = "EXECUTE_DECISION"
  BY <1>b, Driven DEF DriveInv, PastGate
<1>d. ExecuteInv(w) /\ copy[w].approval # None
  BY <1>b, <1>c, Executing
<1>1. decisions[r] = DecisionOf(w)
  BY <1>b, <1>d DEF RecordAgain, Announce, Ruling, ExecuteInv
<1>2. /\ pc'[w] = "complete" /\ UNCHANGED << runs, approvals, signatures, decisions, job >>
      /\ copy' = [copy EXCEPT ![w].decided = TRUE] \/ copy' = copy
  BY DEF RecordAgain, Announce, GoTo, TypeInv, TypeOK, store
<1>3. /\ copy'[w].phase = copy[w].phase /\ copy'[w].steps = copy[w].steps
      /\ copy'[w].version = copy[w].version /\ copy'[w].budget = copy[w].budget
      /\ copy'[w].approval = copy[w].approval /\ copy'[w].outcome = copy[w].outcome
      /\ copy'[w].vendorBlocks = copy[w].vendorBlocks
  BY <1>c, <1>2 DEF TypeInv, TypeOK, RunState
<1>4. ~Doomed(copy[w])
  BY <1>b, <1>d DEF ExecuteInv, PastGate
<1>5. CopyInv(w)'
  BY <1>b, <1>c, <1>2, <1>3 DEF CopyInv
<1>6. ExecuteInv(w)'
  BY <1>d, <1>1, <1>2, <1>3, <1>4
  DEF ExecuteInv, Covers, RequirementMet, Doomed, PastGate, DecisionOf
<1>7. DriveInv(w)'
  BY <1>c, <1>2, <1>3, <1>6 DEF DriveInv, Early, ReadOnlyPhases
<1> QED BY <1>a, <1>2, <1>5, <1>7, LocalKeeps DEF WorkerInv, Resolving

-----------------------------------------------------------------------------
(* The invariant holds *)

LEMMA GateInvStep == TypeInv /\ AuthInv /\ GateInv /\ [Next]_vars => Kept
<1> SUFFICES ASSUME TypeInv, AuthInv, GateInv, [Next]_vars PROVE Kept
  OBVIOUS
<1>1. CASE UNCHANGED vars
  <2>1. \A r \in RunIds : Moves(r) /\ RowInv(r)'
    BY <1>1, RowKeeps DEF Moves, vars
  <2>2. \A a \in ApprovalIds : ApprovalInv(a)'
    BY <1>1, <2>1, ApprovalKeeps DEF vars
  <2>3. \A v \in Workers : WorkerInv(v)'
    BY <1>1, <2>1, OthersKeep DEF vars
  <2> QED BY <2>1, <2>2, <2>3 DEF Kept, GateInv
<1>2. ASSUME NEW w \in Workers, Step(w) PROVE Kept
  <2>1. CASE Crash(w) \/ StaleWrite(w)
    BY <1>2, <2>1, ReleaseKeeps DEF Crash, StaleWrite
  <2>2. CASE Resolve(w)
    BY <2>2, AnswerLocalKeeps, AnswerSavesKeep, SignKeeps, RejectKeeps DEF Resolve
  <2>3. CASE Drive(w)
    BY <2>3, DriveLocalKeeps, RecommendKeeps, EarlySavesKeep, CompleteKeeps, FailKeeps,
       RecordFirstKeeps, RecordedKeeps
    DEF Drive
  <2> QED BY <1>2, <2>1, <2>2, <2>3, CallKeeps DEF Step, Work
<1> QED BY <1>1, <1>2 DEF Next, Step

LEMMA InitGate == Init => GateInv
<1> SUFFICES ASSUME Init PROVE GateInv
  OBVIOUS
<1>1. ASSUME NEW r \in RunIds PROVE RowInv(r)
  BY <1>1 DEF Init, RowInv, FreshRun, Decided
<1>2. ASSUME NEW a \in ApprovalIds PROVE ApprovalInv(a)
  BY <1>2 DEF Init, ApprovalInv, NoApproval
<1>3. ASSUME NEW w \in Workers PROVE WorkerInv(w)
  BY <1>3 DEF Init, WorkerInv
<1> QED BY <1>1, <1>2, <1>3 DEF GateInv

THEOREM GateHolds == Spec => [](TypeInv /\ AuthInv /\ GateInv)
<1>1. TypeInv /\ AuthInv /\ GateInv /\ [Next]_vars => GateInv'
  BY GateInvStep DEF Kept
<1> QED BY <1>1, InitGate, InitAuth, AuthInvStep, TypeCorrect, PTL DEF Spec

\* A decision on the ledger is never followed by a run that failed or was held.
THEOREM PostedRunsCannotFail == Spec => []PostedRunsNeverFail
<1>1. GateInv => PostedRunsNeverFail
  BY DEF GateInv, RowInv, PostedRunsNeverFail
<1> QED BY <1>1, GateHolds, PTL

\* A completed run has its own decision on the ledger.
THEOREM CompletedRunsArePosted == Spec => []CompletedMeansPosted
<1>1. GateInv => CompletedMeansPosted
  BY DEF GateInv, RowInv, CompletedMeansPosted
<1> QED BY <1>1, GateHolds, PTL

\* A run whose approval is pending waits at the gate.
THEOREM PendingRunsWait == Spec => []PendingOnlyAtGate
<1>1. GateInv => PendingOnlyAtGate
  BY DEF GateInv, RowInv, PendingOnlyAtGate
<1> QED BY <1>1, GateHolds, PTL

\* An approval that its run does not name is never signed or decided.
THEOREM OrphansStayUntouched == Spec => []OrphansUntouched
<1>1. GateInv => OrphansUntouched
  BY DEF GateInv, ApprovalInv, OrphansUntouched
<1> QED BY <1>1, GateHolds, PTL

\* A stored run moves one version at a time, never back, and never once it is over.
THEOREM RunsAdvance == Spec => RunsOnlyAdvance
<1> DEFINE Onward == \A r \in RunIds : runs'[r] # runs[r] =>
         /\ runs'[r].version = runs[r].version + 1
         /\ Rank[runs[r].phase] <= Rank[runs'[r].phase]
         /\ runs[r].steps <= runs'[r].steps
         /\ runs[r].phase \notin TerminalPhases
<1>1. TypeInv /\ AuthInv /\ GateInv /\ [Next]_vars => [Onward]_vars
  BY GateInvStep DEF Kept, Moves
<1> QED BY <1>1, GateHolds, PTL DEF Spec, RunsOnlyAdvance

-----------------------------------------------------------------------------
(* Stranded runs *)

\* The verdict on a run changes only with the approval it names or that approval's status.
LEMMA VerdictStays ==
    ASSUME NEW r \in RunIds, runs'[r].approval = runs[r].approval,
           runs[r].approval # None =>
              approvals'[runs[r].approval].status = approvals[runs[r].approval].status
    PROVE  VerdictOn(r)' = VerdictOn(r)
BY DEF VerdictOn

\* Driving a run is never resolving its approval.
LEMMA AfterDriving ==
    ASSUME TypeInv, NEW w \in Workers, Drive(w)
    PROVE  pc'[w] \notin Resolving
<1>1. pc \in [Workers -> Labels]
  BY DEF TypeInv, TypeOK
<1>2. ASSUME NEW label \in Labels \ Resolving, GoTo(w, label) PROVE pc'[w] \notin Resolving
  BY <1>1, <1>2 DEF GoTo
<1>3. ASSUME Release(w) PROVE pc'[w] \notin Resolving
  BY <1>1, <1>3 DEF Release, Resolving
<1>4. {"drive", "park", "tool", "record", "announce", "complete", "fail"}
          \subseteq Labels \ Resolving
  BY DEF Labels, Resolving
<1>5. CASE ReadPhase(w) \/ Park(w) \/ Complete(w) \/ Fail(w)
  <2>1. Release(w) \/ GoTo(w, "drive")
    BY <1>5 DEF ReadPhase, Park, Complete, Fail, Save
  <2> QED BY <1>2, <1>3, <1>4, <2>1
<1>6. CASE ExhaustSteps(w) \/ ModelFails(w) \/ RecommendHold(w) \/ RequestApproval(w)
  BY <1>2, <1>4, <1>6 DEF ExhaustSteps, ModelFails, RecommendHold, RequestApproval
<1>7. CASE PassGate(w) \/ GateRefuses(w) \/ CheckTool(w)
  <2>1. GoTo(w, "tool") \/ GoTo(w, "record") \/ GoTo(w, "fail")
    BY <1>7 DEF PassGate, GateRefuses, CheckTool
  <2> QED BY <1>2, <1>4, <2>1
<1>8. CASE RecordFirst(w) \/ RecordAgain(w) \/ RecordConflict(w) \/ Announce(w)
  BY <1>2, <1>3, <1>4, <1>8 DEF RecordFirst, RecordAgain, RecordConflict, Announce
<1> QED BY <1>5, <1>6, <1>7, <1>8 DEF Drive

\* The approval a stranded run names is settled, and stays so.
LEMMA StrandedAnswer ==
    ASSUME TypeInv, GateInv, NEW r \in RunIds, Stranded(r)
    PROVE  /\ runs[r].version > 0 /\ runs[r].approval \in ApprovalIds
           /\ runs[r].approval # None
           /\ approvals[runs[r].approval].status \in Settled
<1>1. RowInv(r)
  BY DEF GateInv
<1>2. runs[r].version # 0
  BY <1>1 DEF RowInv, Stranded, FreshRun
<1>3. runs[r].approval \in ApprovalIds /\ runs[r].approval # None
  BY <1>1 DEF Stranded, VerdictOn, RowInv, AskedFor
<1>4. approvals[runs[r].approval].status \in ApprovalStatus
  BY <1>1, <1>3 DEF RowInv, AskedFor, TypeInv, TypeOK, ApprovalRow
<1> QED BY <1>2, <1>3, <1>4, RowTypes DEF Stranded, VerdictOn, Settled, ApprovalStatus

\* Whoever drives such a run holds an old copy of it.
LEMMA StrandedDrivers ==
    ASSUME TypeInv, GateInv, NEW w \in Workers, Stranded(job[w].run),
           pc[w] # "idle", pc[w] \notin Resolving
    PROVE  ~Fresh(w)
<1>1. CopyInv(w) /\ DriveInv(w) /\ pc[w] \in Labels
  BY WorkerTypes DEF GateInv, WorkerInv
<1>2. copy[w].phase # "AWAITING_APPROVAL"
  BY <1>1 DEF DriveInv, Labels, Resolving, PastGate, Early, ReadOnlyPhases
<1> QED BY <1>1, <1>2 DEF CopyInv, Fresh, Stranded

\* Nobody writes such a run but to leave it where it is.
LEMMA StrandedStays ==
    ASSUME TypeInv, GateInv, NEW w \in Workers, Step(w), NEW r \in RunIds, Stranded(r)
    PROVE  runs'[r].phase = runs[r].phase /\ runs'[r].approval = runs[r].approval
<1>0. runs[r].version > 0
  BY StrandedAnswer
<1>1. CASE Call(w)
  <2>1. ASSUME NEW q \in RunIds, Start(w, q) PROVE runs'[r] = runs[r]
    BY <1>0, <2>1 DEF Start, TypeInv, TypeOK
  <2> QED BY <1>1, <2>1 DEF Call, Resume, Deliver, store
<1>2. ASSUME NEW s, NEW next, Save(w, s, next), job[w].run # r PROVE runs'[r] = runs[r]
  BY <1>2 DEF Save, TypeInv, TypeOK
<1>3. ASSUME SaveRefusal(w) \/ Collect(w), job[w].run = r
      PROVE  runs'[r].phase = runs[r].phase /\ runs'[r].approval = runs[r].approval
  <2>1. pc[w] \in {"refuse", "collect"} /\ Fresh(w)
    BY <1>3 DEF SaveRefusal, Collect, Save
  <2>2. copy[w].phase = runs[r].phase /\ copy[w].approval = runs[r].approval
    BY <1>3, <2>1 DEF GateInv, WorkerInv, CopyInv, Fresh
  <2>3. copy[w] \in RunState
    BY WorkerTypes
  <2>4. runs'[r] = [copy[w] EXCEPT !.version = @ + 1]
    BY <1>3 DEF SaveRefusal, Collect, Save, TypeInv, TypeOK
  <2> QED BY <2>2, <2>3, <2>4 DEF RunState
<1>4. ASSUME Hold(w) \/ Open(w), job[w].run = r PROVE FALSE
  BY <1>4 DEF Hold, Open, Save, Stranded, MayYetMove
<1>5. ASSUME pc[w] \in {"drive", "park", "complete", "fail"}, Fresh(w), job[w].run = r
      PROVE  FALSE
  BY <1>5, StrandedDrivers DEF Resolving
<1>6. CASE Resolve(w)
  <2>1. CASE SaveRefusal(w) \/ Collect(w) \/ Hold(w) \/ Open(w)
    <3>1. \E s, next : Save(w, s, next)
      BY <2>1 DEF SaveRefusal, Collect, Hold, Open
    <3> QED BY <1>2, <1>3, <1>4, <2>1, <3>1
  <2>2. CASE ~(SaveRefusal(w) \/ Collect(w) \/ Hold(w) \/ Open(w))
    <3>1. CASE Sign(w) \/ Reject(w)
      BY <3>1, SignLeaves DEF Reject
    <3>2. CASE RejectAgain(w) \/ Contradicted(w) \/ Reload(w) \/ ReadApproval(w)
      BY <3>2 DEF RejectAgain, Contradicted, Reload, ReadApproval, store
    <3> QED BY <1>6, <2>2, <3>1, <3>2
        DEF Resolve, AnswerReplay, RefuseSigner, AcceptSigner, AcceptRejection, Admit, store
  <2> QED BY <2>1, <2>2
<1>7. CASE Drive(w)
  <2>1. CASE ReadPhase(w) \/ Park(w) \/ Complete(w) \/ Fail(w)
    BY <1>2, <1>5, <2>1 DEF ReadPhase, Driving, Park, Complete, Fail, Save
  <2>2. CASE ~(ReadPhase(w) \/ Park(w) \/ Complete(w) \/ Fail(w))
    BY <1>7, <2>2
    DEF Drive, ExhaustSteps, ModelFails, RecommendHold, RequestApproval, PassGate,
        GateRefuses, CheckTool, RecordFirst, RecordAgain, RecordConflict, Announce, store
  <2> QED BY <2>1, <2>2
<1>8. CASE Crash(w) \/ StaleWrite(w)
  BY <1>8 DEF Crash, StaleWrite, store
<1> QED BY <1>1, <1>6, <1>7, <1>8 DEF Step, Work

\* A worker that serves such a run, or comes to, finds its approval settled and turns back.
LEMMA StrandedTurnsBack ==
    ASSUME TypeInv, GateInv, NEW w \in Workers, Step(w), NEW r \in RunIds, Stranded(r),
           job'[w].run = r
    PROVE  /\ pc'[w] \notin {"sign", "reject", "reload", "open", "hold"}
           /\ pc'[w] = "signatures" => seen'[w] # "PENDING"
<1>1. CASE Call(w)
  <2>1. runs[r].version > 0 /\ runs[r].phase \in StopPhases
    BY StrandedAnswer DEF Stranded, StopPhases
  <2>2. pc \in [Workers -> Labels] /\ job \in [Workers -> Job]
    BY DEF TypeInv, TypeOK
  <2>3. ASSUME NEW q \in RunIds, Start(w, q) PROVE q # r /\ pc'[w] = "drive"
    <3>1. job' = [job EXCEPT ![w] = [NoJob EXCEPT !.run = q]] /\ GoTo(w, "drive")
      BY <2>3 DEF Start, Begin
    <3>2. runs[q].version = 0
      BY <2>3 DEF Start
    <3> QED BY <2>1, <2>2, <3>1, <3>2 DEF NoJob, GoTo
  <2>4. ASSUME NEW q \in RunIds, Resume(w, q) PROVE pc'[w] = "drive"
    BY <2>2, <2>4 DEF Resume, Begin, GoTo
  <2>5. ASSUME NEW q \in RunIds, NEW b, NEW p, NEW u, Deliver(w, q, b, p, u)
        PROVE  pc'[w] = "approval"
    BY <2>2, <2>5 DEF Deliver, Begin, GoTo
  <2> QED BY <1>1, <2>3, <2>4, <2>5 DEF Call
<1>2. Release(w) => job'[w].run = None
  BY DEF Release, NoJob, TypeInv, TypeOK
<1>3. r # None
  BY IdentityAssumption
<1>4. CASE Crash(w) \/ StaleWrite(w)
  BY <1>2, <1>3, <1>4 DEF Crash, StaleWrite
<1>5. ASSUME job' = job PROVE ~MayYetMove(w)
  BY <1>5 DEF Stranded
<1>6. CASE Resolve(w)
  <2>1. CASE ReadApproval(w)
    <3>1. /\ pc[w] = "approval" /\ job' = job /\ pc'[w] = "signatures"
          /\ seen'[w] = approvals[job[w].approval].status
      BY <2>1 DEF ReadApproval, GoTo, TypeInv, TypeOK
    <3>2. runs[r].approval = job[w].approval
      BY <3>1 DEF GateInv, WorkerInv, AnswerInv, Resolving
    <3> QED BY <3>1, <3>2, StrandedAnswer DEF Settled
  <2>2. CASE AnswerReplay(w) \/ SaveRefusal(w) \/ Contradicted(w) \/ Collect(w)
    BY <1>2, <1>3, <2>2 DEF AnswerReplay, SaveRefusal, Contradicted, Collect, Save
  <2>3. CASE RefuseSigner(w) \/ AcceptSigner(w) \/ AcceptRejection(w)
    BY <1>5, <2>3
    DEF RefuseSigner, AcceptSigner, AcceptRejection, Admit, ReadSignatures, Inert, MayYetMove
  <2>4. CASE Sign(w) \/ Reject(w) \/ RejectAgain(w) \/ Reload(w)
    <3>1. job' = job \/ job'[w].run = None
      BY <1>2, <2>4, SignLeaves DEF Reject, RejectAgain, Reload
    <3>2. pc[w] \in {"sign", "reject", "reload"}
      BY <2>4, SignLeaves DEF Reject, RejectAgain, Reload
    <3> QED BY <1>3, <1>5, <3>1, <3>2 DEF MayYetMove
  <2>5. CASE Hold(w) \/ Open(w)
    BY <1>2, <1>3, <1>5, <2>5 DEF Hold, Open, Save, MayYetMove
  <2> QED BY <1>6, <2>1, <2>2, <2>3, <2>4, <2>5 DEF Resolve
<1>7. CASE Drive(w)
  <2>1. pc'[w] \notin Resolving
    BY <1>7, AfterDriving
  <2> QED BY <2>1 DEF Resolving
<1> QED BY <1>1, <1>4, <1>6, <1>7 DEF Step, Work

\* When the worker that settled an approval dies or loses the race to save its run, the run
\* waits for ever: each delivery, retry or resume finds the matter settled and returns it as
\* it is, for any number of workers, approvers and retries.
THEOREM StrandedRunsStay == Spec => StrandedForGood
<1> DEFINE Stuck == \A r \in RunIds : Stranded(r) => Stranded(r)'
<1>1. TypeInv /\ AuthInv /\ GateInv /\ [Next]_vars => [Stuck]_vars
  <2> SUFFICES ASSUME TypeInv, AuthInv, GateInv, [Next]_vars, vars' # vars,
                      NEW r \in RunIds, Stranded(r)
               PROVE  Stranded(r)'
    OBVIOUS
  <2> PICK w \in Workers : Step(w)
    BY DEF Next, Step
  <2> PICK a \in ApprovalIds : a = runs[r].approval
    BY StrandedAnswer
  <2>1. runs'[r].phase = "AWAITING_APPROVAL" /\ runs'[r].approval = a
    BY StrandedStays DEF Stranded
  <2>2. VerdictOn(r)' = VerdictOn(r)
    <3>1. approvals'[a].status = approvals[a].status
      BY StrandedAnswer, ApprovalsLast DEF Lasting
    <3> QED BY <2>1, <3>1, VerdictStays
  <2>3. ASSUME NEW v \in Workers, job'[v].run = r PROVE ~MayYetMove(v)'
    <3>1. CASE v = w
      BY <2>3, <3>1, StrandedTurnsBack DEF MayYetMove
    <3>2. CASE v # w
      <4>1. UNCHANGED << pc[v], job[v], copy[v], seen[v] >>
        BY <3>2, OthersStay DEF Step
      <4>2. pc[v] \in {"open", "hold"} => copy[v].version < runs[r].version
        <5>1. pc[v] \in {"open", "hold"} => CopyInv(v) /\ ~Fresh(v)
          BY <2>3, <4>1 DEF GateInv, WorkerInv, Stranded, MayYetMove
        <5> QED BY <2>3, <4>1, <5>1, RowTypes, CopyTypes DEF CopyInv, Fresh
      <4>3. runs[r].version <= runs'[r].version
        <5>1. Moves(r)
          BY GateInvStep DEF Kept
        <5> QED BY <5>1, RowTypes DEF Moves
      <4>4. runs'[r].version \in Nat /\ runs[r].version \in Nat /\ copy[v].version \in Nat
        BY NextTypes, RowTypes, CopyTypes DEF TypeInv, TypeOK, RunState
      <4>5. ~MayYetMove(v)
        BY <2>3, <4>1 DEF Stranded
      <4>6. pc[v] \in {"open", "hold"} => copy[v].version # runs'[r].version
        BY <4>2, <4>3, <4>4
      <4> QED BY <2>3, <4>1, <4>5, <4>6 DEF MayYetMove, Fresh
    <3> QED BY <3>1, <3>2
  <2> QED BY <2>1, <2>2, <2>3 DEF Stranded
<1> QED BY <1>1, GateHolds, PTL DEF Spec, StrandedForGood

\* So the refutation of GrantedRunsProceed is no accident of an instance or of unfair
\* scheduling: from a stranded state on, the run waits at the gate in every behaviour.
THEOREM StrandedRunsNeverProceed ==
    ASSUME NEW q \in RunIds
    PROVE  Spec => [](Stranded(q) => [](runs[q].phase = "AWAITING_APPROVAL"))
<1> DEFINE Stuck == \A r \in RunIds : Stranded(r) => Stranded(r)'
<1>1. [Stuck]_vars => (Stranded(q) => Stranded(q)')
  BY DEF vars, Stranded, VerdictOn, MayYetMove, Fresh
<1>2. Stranded(q) => runs[q].phase = "AWAITING_APPROVAL"
  BY DEF Stranded
<1>3. Spec => [][Stuck]_vars
  BY StrandedRunsStay DEF StrandedForGood
<1> HIDE DEF Stuck
<1> QED BY <1>1, <1>2, <1>3, PTL

-----------------------------------------------------------------------------
(* The second run of an invoice *)

LEMMA DecisionsLast ==
    ASSUME TypeInv, AuthInv, [Next]_vars, NEW q \in RunIds, Decided(q)
    PROVE  Decided(q)'
<1>1. CASE UNCHANGED decisions
  BY <1>1 DEF Decided
<1>2. ASSUME NEW w \in Workers, RecordFirst(w) PROVE Decided(q)'
  <2> PICK r : r = job[w].run
    OBVIOUS
  <2>1. /\ \A p \in RunIds : Decided(p) => Invoice[p] # Invoice[r]
        /\ decisions' = [decisions EXCEPT ![r] = DecisionOf(w)]
    BY <1>2, FirstDecision
  <2>2. decisions'[q] = decisions[q]
    BY <2>1 DEF TypeInv, TypeOK
  <2> QED BY <2>2 DEF Decided
<1> QED BY <1>1, <1>2, OnlyRecordDecides DEF Next, vars

\* Of two approved runs of one invoice, only the first to be decided ever ends: the other
\* is neither posted nor failed, however often it is resumed.
THEOREM OutrunRunsStay == Spec => OutrunForGood
<1> DEFINE Stuck == \A r \in RunIds : Outrun(r) => Outrun(r)'
<1>1. TypeInv /\ AuthInv /\ GateInv /\ LedgerInv /\ LedgerInv' /\ [Next]_vars => [Stuck]_vars
  <2> SUFFICES ASSUME TypeInv, AuthInv, GateInv, LedgerInv, LedgerInv', [Next]_vars,
                      NEW r \in RunIds, Outrun(r)
               PROVE  Outrun(r)'
    OBVIOUS
  <2>1. /\ runs[r].phase = "EXECUTE_DECISION" /\ ~Doomed(runs[r])
        /\ \E q \in RunIds \ {r} : Decided(q) /\ Invoice[q] = Invoice[r]
    BY DEF Outrun, Doomed, Exhausted
  <2>2. /\ runs'[r].phase \in {"EXECUTE_DECISION", "COMPLETED", "FAILED"}
        /\ runs'[r].vendorBlocks = runs[r].vendorBlocks /\ runs'[r].budget = runs[r].budget
        /\ runs'[r].phase # "COMPLETED" => runs'[r].steps = runs[r].steps
        /\ runs'[r].approval = runs[r].approval /\ runs[r].approval # None
    <3>1. Moves(r) /\ RowInv(r)
      BY GateInvStep DEF Kept, GateInv
    <3>2. runs[r].approval # None
      BY <2>1, <3>1, IdentityAssumption DEF RowInv, Covers
    <3> QED BY <2>1, <3>1, <3>2 DEF Moves
  <2>3. \E q \in RunIds \ {r} : Decided(q)' /\ Invoice[q] = Invoice[r]
    BY <2>1, DecisionsLast DEF Decided
  <2>4. ~Decided(r)'
    BY <2>3 DEF LedgerInv, OneDecisionPerInvoice
  <2>5. RowInv(r)'
    BY GateInvStep DEF Kept, GateInv
  <2>6. runs'[r].phase # "COMPLETED"
    <3>1. runs'[r].phase = "COMPLETED" => decisions'[r].approval # None
      BY <2>2, <2>5 DEF RowInv
    <3> QED BY <2>4, <3>1 DEF Decided, NoDecision
  <2>7. runs'[r].phase # "FAILED"
    BY <2>1, <2>2, <2>5 DEF RowInv, Doomed
  <2> QED BY <2>1, <2>2, <2>3, <2>6, <2>7 DEF Outrun, Doomed, Exhausted
<1> QED BY <1>1, GateHolds, LedgerHolds, PTL DEF Spec, OutrunForGood

\* So DriverProgress needs an invoice of its own for every run: from such a state on, the
\* run is at EXECUTE_DECISION in every behaviour.
THEOREM OutrunRunsNeverEnd ==
    ASSUME NEW q \in RunIds
    PROVE  Spec => [](Outrun(q) => [](runs[q].phase = "EXECUTE_DECISION"))
<1> DEFINE Stuck == \A r \in RunIds : Outrun(r) => Outrun(r)'
<1>1. [Stuck]_vars => (Outrun(q) => Outrun(q)')
  BY DEF vars, Outrun, Exhausted, Decided
<1>2. Outrun(q) => runs[q].phase = "EXECUTE_DECISION"
  BY DEF Outrun
<1>3. Spec => [][Stuck]_vars
  BY OutrunRunsStay DEF OutrunForGood
<1> HIDE DEF Stuck
<1> QED BY <1>1, <1>2, <1>3, PTL

-----------------------------------------------------------------------------
(* The refinement of DecisionLedger *)

Verdict == [ r \in RunIds |-> VerdictOn(r) ]

Posted == { r \in RunIds : Decided(r) }

\* A step writes one run at most.
LEMMA OneRunWritten ==
    ASSUME TypeInv, NEW w \in Workers, Step(w), ~UNCHANGED runs
    PROVE  \E r \in RunIds : \A q \in RunIds : q # r => runs'[q] = runs[q]
<1> USE DEF TypeInv, TypeOK
<1>1. CASE Call(w)
  BY <1>1 DEF Call, Start, Resume, Deliver, store
<1>2. CASE Crash(w) \/ StaleWrite(w)
  BY <1>2 DEF Crash, StaleWrite, store
<1>3. ASSUME NEW s, NEW next, Save(w, s, next), pc[w] # "idle"
      PROVE  \E r \in RunIds : \A q \in RunIds : q # r => runs'[q] = runs[q]
  BY <1>3, WorkerTypes DEF Save
<1>4. CASE Resolve(w)
  BY <1>3, <1>4
  DEF Resolve, ReadApproval, AnswerReplay, RefuseSigner, AcceptSigner, AcceptRejection,
      Admit, SaveRefusal, Sign, Reject, RejectAgain, Contradicted, Reload, Collect, Hold,
      Open, store
<1>5. CASE Drive(w)
  BY <1>3, <1>5
  DEF Drive, Driving, ExhaustSteps, ReadPhase, ModelFails, RecommendHold, RequestApproval,
      Park, PassGate, GateRefuses, CheckTool, RecordFirst, RecordAgain, RecordConflict,
      Announce, Complete, Fail, store
<1> QED BY <1>1, <1>2, <1>4, <1>5 DEF Step, Work

\* One run's verdict is given, and nothing is posted.
LEMMA VerdictGiven ==
    ASSUME NEW r \in RunIds, NEW from, NEW to, VerdictOn(r) = from, VerdictOn(r)' = to,
           \A q \in RunIds : q # r => VerdictOn(q)' = VerdictOn(q),
           UNCHANGED decisions
    PROVE  Ledger!Give(r, from, to)
BY DEF Ledger!Give, Decided

LEMMA LedgerStutters ==
    ASSUME \A q \in RunIds : VerdictOn(q)' = VerdictOn(q), UNCHANGED decisions
    PROVE  UNCHANGED << Verdict, Posted >>
BY DEF Verdict, Posted, Decided

LEMMA SignRefines ==
    ASSUME TypeInv, GateInv, NEW w \in Workers, Sign(w) \/ Reject(w)
    PROVE  [Ledger!LedgerNext]_<< Verdict, Posted >>
<1>b. pc[w] \in Resolving
  BY DEF Sign, Reject, Resolving
<1> PICK r \in RunIds : r = job[w].run
  BY <1>b, Answering
<1> PICK a \in ApprovalIds : a = job[w].approval
  BY <1>b, Answering
<1>a. /\ runs[r].approval = a /\ a # None /\ approvals[a].run = r
      /\ approvals[a].status \in ApprovalStatus
  BY <1>b, Answering DEF AskedFor
<1>1. /\ UNCHANGED << runs, decisions >>
      /\ \A b \in ApprovalIds : b # a => approvals'[b] = approvals[b]
      /\ \/ approvals'[a].status = approvals[a].status
         \/ approvals[a].status # "REJECTED" /\ approvals'[a].status = "APPROVED"
         \/ approvals[a].status = "PENDING" /\ approvals'[a].status = "REJECTED"
  <2>1. CASE Reject(w)
    BY <2>1 DEF Reject, Rejectable, TypeInv, TypeOK, ApprovalRow
  <2>2. CASE Sign(w)
    <3>1. \/ UNCHANGED approvals
          \/ \E last : approvals' = [approvals EXCEPT ![a] =
                         [approvals[a] EXCEPT !.status = "APPROVED", !.decidedBy = last]]
      BY <2>2 DEF Sign
    <3>2. UNCHANGED << runs, decisions >> /\ approvals[a].status # "REJECTED"
      BY <2>2 DEF Sign
    <3> QED BY <3>1, <3>2 DEF TypeInv, TypeOK, ApprovalRow
  <2> QED BY <2>1, <2>2
<1>2. ASSUME NEW q \in RunIds, q # r PROVE VerdictOn(q)' = VerdictOn(q)
  <2>1. runs[q].approval # None =>
            runs[q].approval \in ApprovalIds /\ runs[q].approval # a
    BY <1>2, <1>a DEF GateInv, RowInv, AskedFor
  <2> QED BY <1>1, <2>1, VerdictStays
<1>3. CASE approvals'[a].status = approvals[a].status
  <2>1. \A q \in RunIds : VerdictOn(q)' = VerdictOn(q)
    BY <1>1, <1>2, <1>3, <1>a, VerdictStays
  <2> QED BY <1>1, <2>1, LedgerStutters
<1>4. CASE approvals[a].status = "PENDING" /\ approvals'[a].status \in {"APPROVED", "REJECTED"}
  <2>1. /\ VerdictOn(r) = "asked"
        /\ VerdictOn(r)' = IF approvals'[a].status = "APPROVED" THEN "granted" ELSE "refused"
    BY <1>1, <1>4, <1>a DEF VerdictOn
  <2>2. Ledger!Give(r, "asked", "granted") \/ Ledger!Give(r, "asked", "refused")
    BY <1>1, <1>2, <2>1, VerdictGiven
  <2> QED BY <2>2 DEF Ledger!LedgerNext, Ledger!Grant, Ledger!Refuse
<1> QED BY <1>1, <1>3, <1>4, <1>a DEF ApprovalStatus

LEMMA PostRefines ==
    ASSUME TypeInv, AuthInv, GateInv, NEW w \in Workers, RecordFirst(w)
    PROVE  [Ledger!LedgerNext]_<< Verdict, Posted >>
<1>b. pc[w] = "record" /\ pc[w] # "idle" /\ pc[w] \notin Resolving
  BY DEF RecordFirst, Resolving
<1> PICK r \in RunIds : r = job[w].run
  BY <1>b, Driven
<1>1. ExecuteInv(w) /\ copy[w].approval # None
  BY <1>b, Driven, Executing DEF DriveInv, PastGate
<1>2. VerdictOn(r) = "granted"
  BY <1>1 DEF VerdictOn, ExecuteInv, Covers
<1>3. /\ \A q \in RunIds : Decided(q) => Invoice[q] # Invoice[r]
      /\ Decided(r)' /\ decisions' = [decisions EXCEPT ![r] = DecisionOf(w)]
  BY FirstDecision
<1>4. \A q \in RunIds : q # r => decisions'[q] = decisions[q]
  BY <1>3 DEF TypeInv, TypeOK
<1>5. UNCHANGED << runs, approvals >>
  BY DEF RecordFirst
<1>6. \A q \in RunIds : VerdictOn(q)' = VerdictOn(q)
  BY <1>5, VerdictStays
<1>7. { q \in RunIds : Decided(q) }' = { q \in RunIds : Decided(q) } \cup {r}
  BY <1>3, <1>4 DEF Decided
<1>8. Ledger!Post(r)
  BY <1>2, <1>3, <1>6, <1>7 DEF Ledger!Post
<1> QED BY <1>8 DEF Ledger!LedgerNext

\* Any other step gives at most one run its approval, and that one is still pending.
LEMMA AskRefines ==
    ASSUME TypeInv, GateInv, NEW w \in Workers, Step(w), Kept,
           UNCHANGED << approvals, decisions >>
    PROVE  [Ledger!LedgerNext]_<< Verdict, Posted >>
<1>1. ASSUME NEW q \in RunIds, runs'[q].approval = runs[q].approval
      PROVE  VerdictOn(q)' = VerdictOn(q)
  BY <1>1, VerdictStays
<1>2. CASE \A q \in RunIds : runs'[q].approval = runs[q].approval
  BY <1>1, <1>2, LedgerStutters
<1>3. ASSUME NEW r \in RunIds, runs'[r].approval # runs[r].approval
      PROVE  [Ledger!LedgerNext]_<< Verdict, Posted >>
  <2> PICK a : a = runs'[r].approval
    OBVIOUS
  <2>1. Moves(r) /\ RowInv(r)'
    BY DEF Kept, GateInv
  <2>2. runs[r].approval = None /\ a # None
    BY <1>3, <2>1 DEF Moves
  <2>3. a \in ApprovalIds /\ approvals[a].status # "ABSENT" /\ approvals[a].run = r
    BY <2>1, <2>2 DEF RowInv, AskedFor
  <2>4. approvals[a].status = "PENDING"
    BY <2>2, <2>3 DEF GateInv, ApprovalInv
  <2>5. VerdictOn(r) = "unasked" /\ VerdictOn(r)' = "asked"
    BY <2>2, <2>4 DEF VerdictOn
  <2>6. \A q \in RunIds : q # r => runs'[q].approval = runs[q].approval
    BY <1>3, OneRunWritten
  <2>7. Ledger!Give(r, "unasked", "asked")
    BY <1>1, <2>5, <2>6, VerdictGiven
  <2> QED BY <2>7 DEF Ledger!LedgerNext, Ledger!Ask
<1> QED BY <1>2, <1>3

LEMMA StepRefines ==
    TypeInv /\ AuthInv /\ GateInv /\ [Next]_vars => [Ledger!LedgerNext]_<< Verdict, Posted >>
<1> SUFFICES ASSUME TypeInv, AuthInv, GateInv, [Next]_vars
             PROVE  [Ledger!LedgerNext]_<< Verdict, Posted >>
  OBVIOUS
<1>1. CASE UNCHANGED vars
  <2>1. \A q \in RunIds : VerdictOn(q)' = VerdictOn(q)
    BY <1>1, VerdictStays DEF vars
  <2> QED BY <1>1, <2>1, LedgerStutters DEF vars
<1>2. ASSUME NEW w \in Workers, Step(w) PROVE [Ledger!LedgerNext]_<< Verdict, Posted >>
  <2>1. CASE Sign(w) \/ Reject(w)
    BY <2>1, SignRefines
  <2>2. CASE RecordFirst(w)
    BY <2>2, PostRefines
  <2>3. CASE RequestApproval(w)
    <3> PICK a \in ApprovalIds :
            /\ approvals[a].status = "ABSENT"
            /\ \A b \in ApprovalIds : b # a => approvals'[b] = approvals[b]
      BY <2>3 DEF RequestApproval, TypeInv, TypeOK
    <3>1. UNCHANGED << runs, decisions >>
      BY <2>3 DEF RequestApproval
    <3>2. ASSUME NEW q \in RunIds PROVE VerdictOn(q)' = VerdictOn(q)
      <4>1. runs[q].approval # None =>
                runs[q].approval \in ApprovalIds /\ runs[q].approval # a
        BY DEF GateInv, RowInv, AskedFor
      <4> QED BY <3>1, <4>1, VerdictStays
    <3> QED BY <3>1, <3>2, LedgerStutters
  <2>4. CASE ~(Sign(w) \/ Reject(w) \/ RecordFirst(w) \/ RequestApproval(w))
    <3>1. UNCHANGED << approvals, decisions >>
      BY <1>2, <2>4, QuietSteps, OnlyRecordDecides DEF Step
    <3> QED BY <1>2, <3>1, GateInvStep, AskRefines
  <2> QED BY <2>1, <2>2, <2>3, <2>4
<1> QED BY <1>1, <1>2 DEF Next, Step

\* All of the workers' interleavings, crashes and replays amount to nothing more than the
\* ledger's four steps: a case is put to a human once, answered once, and posted only when
\* granted, once for each invoice.
THEOREM GateImplementsLedger == Spec => ImplementsLedger
<1>1. Init => Ledger!LedgerInit
  BY DEF Init, FreshRun, Decided, VerdictOn, Ledger!LedgerInit
<1>2. TypeInv /\ AuthInv /\ GateInv /\ [Next]_vars => [Ledger!LedgerNext]_<< Verdict, Posted >>
  BY StepRefines
<1> QED
  BY <1>1, <1>2, GateHolds, PTL
  DEF Spec, ImplementsLedger, Ledger!LedgerSpec, Verdict, Posted

=============================================================================
