--------------------------- MODULE ToolRunnerProofs ---------------------------
(***************************************************************************)
(* For every set of tools, plan and budget: the counters of ToolRunner     *)
(* stay within what they are allowed, crashes forgive at most one phase's  *)
(* attempts each, no handler runs beside another, and a budget that covers *)
(* the plan's worst case never denies a call of it.                        *)
(***************************************************************************)
EXTENDS ToolRunner, TLAPS

\* What one crash can forgive.
Forgiven == Longest * MostAttempts

\* Where in a call the process is, whenever it is not idle.
CallInv ==
    /\ Len(results) <= Len(Calls)
    /\ pc \in {"waiting", "closing"} => Pending /\ attempt # 0
    /\ attempt # 0 => Pending
    /\ (pc = "loop" /\ attempt # 0) => last # "NONE"
    /\ last # "NONE" => attempt # 0

\* What was spent is on the runner's count, but for what crashes forgave; and the runner
\* is ahead of the stored run by no more than the calls of this phase account for.
SpendInv ==
    /\ spent <= used + crashes * Forgiven
    /\ used <= saved + Len(results) * MostAttempts + attempt

Inv ==
    /\ TypeOK
    /\ pc = "idle" => attempt = 0 /\ last = "NONE" /\ spent <= saved + crashes * Forgiven
    /\ pc # "idle" => CallInv /\ SpendInv
    /\ handler = "RUNNING" => pc \in {"waiting", "closing"}

USE ToolAssumption, PlanAssumption, BudgetAssumption

-----------------------------------------------------------------------------
(* Arithmetic *)

\* Calls that are over and the one under way fit into a phase.
LEMMA PhaseFits ==
    ASSUME NEW k \in Nat, NEW n \in Nat, NEW m \in Nat, NEW a \in Nat, k < n, a <= m
    PROVE  k * m + a <= n * m
<1>1. n = k + 1 + (n - k - 1) /\ n - k - 1 \in Nat
  OBVIOUS
<1>2. n * m = k * m + m + (n - k - 1) * m
  BY <1>1
<1>3. (n - k - 1) * m \in Nat /\ k * m \in Nat /\ n * m \in Nat
  BY <1>1
<1>4. \A x, y, z \in Nat : x = y + m + z => y + a <= x
  OBVIOUS
<1> QED
  BY <1>2, <1>3, <1>4

\* Fewer calls need fewer attempts.
LEMMA ProductsGrow ==
    ASSUME NEW k \in Nat, NEW n \in Nat, NEW m \in Nat, k <= n
    PROVE  k * m <= n * m
<1>1. n = k + (n - k) /\ n - k \in Nat
  OBVIOUS
<1>2. n * m = k * m + (n - k) * m
  BY <1>1
<1>3. (n - k) * m \in Nat /\ k * m \in Nat
  BY <1>1
<1> QED
  BY <1>2, <1>3

\* Adding a call, or a crash, adds its share.
LEMMA OneMore ==
    ASSUME NEW k \in Nat, NEW m \in Nat
    PROVE  (k + 1) * m = k * m + m /\ k * m \in Nat
OBVIOUS

-----------------------------------------------------------------------------
(* The calls of a phase *)

\* Whatever the run is at, its calls are a short sequence of tools.
LEMMA CallsAreTools ==
    ASSUME TypeOK
    PROVE  Calls \in Seq(Tools) /\ Len(Calls) <= Longest
<1>1. CASE AtGate
  BY <1>1 DEF Calls
<1>2. CASE ~AtGate
  <2>1. phase \in 1 .. Len(Plan)
    BY <1>2 DEF TypeOK, AtGate
  <2> QED
    BY <1>2, <2>1 DEF Calls
<1> QED
  BY <1>1, <1>2

\* The current tool allows at least one attempt and at most MostAttempts.
LEMMA ToolAllows ==
    ASSUME TypeOK, Pending
    PROVE  /\ Tool \in Tools
           /\ Attempts[Tool] \in Nat /\ Attempts[Tool] >= 1 /\ Attempts[Tool] <= MostAttempts
<1>1. Calls \in Seq(Tools)
  BY CallsAreTools
<1>2. Len(results) + 1 \in 1 .. Len(Calls)
  BY <1>1 DEF TypeOK, Pending
<1>3. Tool \in Tools
  BY <1>1, <1>2 DEF Tool
<1> QED
  BY <1>3

-----------------------------------------------------------------------------
(* The invariant *)

LEMMA InitInv == Init => Inv
BY DEF Init, Inv, TypeOK, Outcome, Forgiven

\* A call ends: one result more, accounted for by its attempts.
LEMMA ReturnInv ==
    ASSUME Inv, pc # "idle", Pending, handler # "RUNNING", NEW outcome \in Outcome, Return(outcome),
           UNCHANGED << stored, used, handler, spent, crashes >>
    PROVE  Inv'
<1>1. TypeOK /\ CallInv /\ SpendInv
  BY DEF Inv
<1>2. results \in Seq(Outcome) /\ results' = Append(results, outcome)
      /\ Len(results') = Len(results) + 1 /\ results' \in Seq(Outcome)
  BY <1>1 DEF TypeOK, Return
<1>3. attempt' = 0 /\ last' = "NONE" /\ pc' = "loop"
  BY DEF Return
<1>4. TypeOK'
  BY <1>1, <1>2, <1>3 DEF TypeOK, stored
<1>5. Calls' = Calls /\ Calls \in Seq(Tools) /\ Len(Calls) \in Nat
  BY <1>1, CallsAreTools DEF Calls, AtGate, stored
<1>6. CallInv'
  BY <1>1, <1>2, <1>3, <1>5 DEF CallInv, Pending
<1>7. Len(results') * MostAttempts = Len(results) * MostAttempts + MostAttempts
  BY <1>2, OneMore
<1>8. used <= saved + Len(results) * MostAttempts + attempt /\ attempt <= MostAttempts
  BY <1>1 DEF TypeOK, SpendInv
<1>9. Len(results) * MostAttempts \in Nat
  BY <1>2, OneMore
<1>10. used <= saved + Len(results') * MostAttempts + attempt'
  BY <1>3, <1>7, <1>8, <1>9, <1>1 DEF TypeOK
<1>11. SpendInv'
  BY <1>1, <1>10 DEF SpendInv, stored, Forgiven
<1> QED
  BY <1>3, <1>4, <1>6, <1>11 DEF Inv, stored

LEMMA EnterInv == Inv /\ Enter => Inv'
<1> SUFFICES ASSUME Inv, Enter PROVE Inv'
  OBVIOUS
<1>1. TypeOK /\ attempt = 0 /\ last = "NONE" /\ spent <= saved + crashes * Forgiven
  BY DEF Inv, Enter
<1>2. TypeOK'
  BY <1>1 DEF TypeOK, Enter, Carried
<1>3. Calls' = Calls /\ Len(Calls) \in Nat
  BY <1>1, CallsAreTools DEF Calls, AtGate, Enter
<1>4. CallInv'
  BY <1>1, <1>3 DEF CallInv, Enter, Pending
<1>5. SpendInv'
  BY <1>1 DEF SpendInv, Enter, Carried, TypeOK, Forgiven
<1> QED
  BY <1>2, <1>4, <1>5 DEF Inv, Enter

\* Saving catches the stored run up with the runner.
LEMMA SaveInv == Inv /\ (Save \/ Conclude) => Inv'
<1> SUFFICES ASSUME Inv, Save \/ Conclude PROVE Inv'
  OBVIOUS
<1>1. TypeOK /\ CallInv /\ SpendInv
  BY DEF Inv, Save, Conclude
<1>2. attempt = 0 /\ last = "NONE"
  BY <1>1 DEF CallInv, Save, Conclude
<1>3. TypeOK' /\ pc' = "idle" /\ attempt' = 0
  <2>1. CASE Save
    BY <1>1, <1>2, <2>1 DEF TypeOK, Save, AtGate
  <2>2. CASE Conclude
    BY <1>1, <1>2, <2>2 DEF TypeOK, Conclude
  <2> QED
    BY <2>1, <2>2
<1>4. spent' <= saved' + crashes' * Forgiven
  BY <1>1 DEF SpendInv, Save, Conclude, Forgiven
<1>5. last' = "NONE"
  BY <1>2 DEF Save, Conclude
<1>6. handler' # "RUNNING"
  BY DEF Inv, Save, Conclude
<1> QED
  BY <1>3, <1>4, <1>5, <1>6 DEF Inv

\* A crash forgives what the runner was ahead by: a phase's attempts at most.
LEMMA CrashInv == Inv /\ Crash => Inv'
<1> SUFFICES ASSUME Inv, Crash PROVE Inv'
  OBVIOUS
<1>1. TypeOK /\ CallInv /\ SpendInv
  BY DEF Inv, Crash
<1>2. TypeOK'
  BY <1>1 DEF TypeOK, Crash, stored
<1>3. Len(results) \in Nat /\ Len(Calls) \in Nat /\ Len(Calls) <= Longest
  BY <1>1, CallsAreTools DEF TypeOK
<1>4. Len(results) * MostAttempts + attempt <= Forgiven
  <2>1. CASE attempt # 0
    <3>1. Len(results) < Longest
      BY <2>1, <1>1, <1>3 DEF CallInv, Pending
    <3>2. attempt \in Nat /\ attempt <= MostAttempts /\ Longest \in Nat
      BY <1>1 DEF TypeOK
    <3> QED
      BY <3>1, <3>2, <1>3, PhaseFits DEF Forgiven
  <2>2. CASE attempt = 0
    <3>1. Len(results) <= Longest
      BY <1>1, <1>3 DEF CallInv
    <3>2. Len(results) * MostAttempts <= Forgiven
      BY <3>1, <1>3, ProductsGrow DEF Forgiven
    <3>3. Len(results) * MostAttempts \in Nat
      BY <1>3, OneMore
    <3> QED
      BY <2>2, <3>2, <3>3
  <2> QED
    BY <2>1, <2>2
<1>5. Forgiven \in Nat /\ crashes \in Nat
  BY <1>1, OneMore DEF Forgiven, TypeOK
<1>6. (crashes + 1) * Forgiven = crashes * Forgiven + Forgiven /\ crashes * Forgiven \in Nat
  BY <1>5, OneMore
<1>7. Len(results) * MostAttempts \in Nat
  BY <1>3, OneMore
<1>8. spent <= saved + (crashes + 1) * Forgiven
  BY <1>1, <1>4, <1>5, <1>6, <1>7 DEF SpendInv, TypeOK
<1> QED
  BY <1>2, <1>8 DEF Inv, Crash, stored

LEMMA InvokeInv == Inv /\ Invoke => Inv'
<1> SUFFICES ASSUME Inv, Invoke PROVE Inv'
  OBVIOUS
<1>1. TypeOK /\ CallInv /\ SpendInv
  BY DEF Inv, Invoke
<1>2. /\ Attempts[Tool] \in Nat /\ Attempts[Tool] >= 1 /\ Attempts[Tool] <= MostAttempts
  BY <1>1, ToolAllows DEF Invoke
<1>3. attempt + 1 <= MostAttempts /\ used + 1 <= MaxToolCalls
  BY <1>1, <1>2 DEF TypeOK, Invoke, MoreAttempts, Remaining
<1>4. TypeOK'
  BY <1>1, <1>3 DEF TypeOK, Invoke, stored
<1>5. Calls' = Calls
  BY DEF Calls, AtGate, Invoke, stored
<1>6. CallInv'
  BY <1>1, <1>5 DEF CallInv, Invoke, Pending, TypeOK
<1>7. Len(results) * MostAttempts \in Nat /\ Forgiven \in Nat /\ crashes * Forgiven \in Nat
  BY <1>1, OneMore DEF TypeOK, Forgiven
<1>8. SpendInv'
  BY <1>1, <1>7 DEF SpendInv, Invoke, TypeOK, stored, Forgiven
<1> QED
  BY <1>4, <1>6, <1>8 DEF Inv, Invoke

\* Steps that touch neither a counter nor a result.
LEMMA WaitInv ==
    ASSUME Inv, Answer \/ Falter \/ TimeOut \/ Close
    PROVE  Inv'
<1>1. TypeOK /\ CallInv /\ SpendInv /\ pc # "idle"
  BY DEF Inv, Answer, Falter, TimeOut, Close
<1>2. Calls' = Calls
  BY DEF Calls, AtGate, Answer, Falter, TimeOut, Close, Fail, stored
<1>3. CASE Answer
  <2>1. Pending
    BY <1>1, <1>3 DEF CallInv, Inv, Answer
  <2>2. Answers[Tool] \subseteq AnswerKinds
    BY <1>1, <2>1, ToolAllows
  <2>3. handler' \in AnswerKinds
    BY <1>3, <2>2 DEF Answer
  <2>4. TypeOK'
    BY <1>1, <1>3, <2>3 DEF TypeOK, Answer, stored
  <2>5. CallInv' /\ SpendInv'
    BY <1>1, <1>2, <1>3 DEF CallInv, SpendInv, Pending, Answer, stored, Forgiven
  <2> QED
    BY <1>1, <1>3, <2>3, <2>4, <2>5 DEF Inv, Answer, AnswerKinds
<1>4. CASE Falter \/ TimeOut \/ Close
  <2>1. TypeOK'
    BY <1>1, <1>4 DEF TypeOK, Falter, TimeOut, Close, Fail, stored
  <2>2. attempt # 0
    BY <1>1, <1>4 DEF CallInv, Falter, TimeOut, Close
  <2>3. CallInv' /\ SpendInv'
    BY <1>1, <1>2, <1>4, <2>2
    DEF CallInv, SpendInv, Pending, Falter, TimeOut, Close, Fail, stored, Forgiven
  <2>4. pc' # "idle" /\ (handler' = "RUNNING" => pc' = "closing")
    BY <1>4 DEF Falter, TimeOut, Close, Fail, Closable
  <2> QED
    BY <2>1, <2>3, <2>4 DEF Inv
<1> QED
  BY <1>3, <1>4

\* Steps that end a call.
LEMMA EndInv ==
    ASSUME Inv, Deny \/ Settle \/ GiveUp
    PROVE  Inv'
<1>1. TypeOK /\ CallInv
  BY DEF Inv, Deny, Settle, GiveUp
<1>2. CASE Deny
  BY <1>2, ReturnInv DEF Deny, Outcome, Inv
<1>3. CASE Settle
  <2>1. Pending
    BY <1>1, <1>3 DEF CallInv, Settle
  <2>2. PICK outcome \in Outcome : Return(outcome)
    BY <1>3 DEF Settle, Outcome
  <2> QED
    BY <1>3, <2>1, <2>2, ReturnInv DEF Settle
<1>4. CASE GiveUp
  <2>1. attempt # 0
    BY <1>1, <1>4, ToolAllows DEF GiveUp, MoreAttempts, TypeOK
  <2>2. last \in Outcome
    BY <1>1, <1>4, <2>1 DEF CallInv, GiveUp, TypeOK, Outcome
  <2> QED
    BY <1>4, <2>2, ReturnInv DEF GiveUp, Inv
<1> QED
  BY <1>2, <1>3, <1>4

LEMMA NextInv == Inv /\ [Next]_vars => Inv'
<1> SUFFICES ASSUME Inv, [Next]_vars PROVE Inv'
  OBVIOUS
<1>1. CASE Next
  BY <1>1, EnterInv, SaveInv, CrashInv, InvokeInv, WaitInv, EndInv DEF Next, Run
<1>2. CASE UNCHANGED vars
  BY <1>2 DEF vars, Inv, TypeOK, CallInv, SpendInv, Calls, AtGate, Pending, Forgiven
<1> QED
  BY <1>1, <1>2

\* The runner's counters stay within the budget and the attempts of the tools, and its
\* other variables keep their shape, whatever the plan, the tools and the budget are.
THEOREM CountersBounded == Spec => []TypeOK
<1>1. Init => Inv
  BY InitInv
<1>2. Inv /\ [Next]_vars => Inv'
  BY NextInv
<1>3. Inv => TypeOK
  BY DEF Inv
<1> QED
  BY <1>1, <1>2, <1>3, PTL DEF Spec

LEMMA InvMeansBounded == Inv => SpendBounded
<1> SUFFICES ASSUME Inv PROVE SpendBounded
  OBVIOUS
<1>1. TypeOK
  BY DEF Inv
<1>2. Forgiven \in Nat
  BY OneMore DEF Forgiven
<1>3. crashes * Forgiven \in Nat
  BY <1>1, <1>2, OneMore DEF TypeOK
<1>4. CASE pc = "idle"
  BY <1>1, <1>3, <1>4 DEF Inv, TypeOK, SpendBounded, Forgiven
<1>5. CASE pc # "idle"
  BY <1>1, <1>3, <1>5 DEF Inv, TypeOK, SpendBounded, SpendInv, Forgiven
<1> QED
  BY <1>4, <1>5

\* Over any number of restarts, a run makes no more attempts than its budget and the
\* attempts of one phase for each restart.
THEOREM RestartsForgiveOnePhase == Spec => []SpendBounded
<1>1. Init => Inv
  BY InitInv
<1>2. Inv /\ [Next]_vars => Inv'
  BY NextInv
<1>3. Inv => SpendBounded
  BY InvMeansBounded
<1> QED
  BY <1>1, <1>2, <1>3, PTL DEF Spec

LEMMA NoOverlapStep == Inv /\ [Next]_vars => (spent' # spent => handler # "RUNNING")
BY DEF Inv, Next, Run, Enter, Save, Conclude, Deny, Invoke, Settle, Falter, TimeOut, Close,
       GiveUp, Answer, Crash, Fail, stored, vars

\* A retried tool never runs beside its own earlier attempt.
THEOREM RetriesNeverOverlap == Spec => OneHandlerAtATime
<1>1. Init => Inv
  BY InitInv
<1>2. Inv /\ [Next]_vars => Inv'
  BY NextInv
<1>3. Inv /\ [Next]_vars => [spent' # spent => handler # "RUNNING"]_vars
  BY NoOverlapStep
<1> QED
  BY <1>1, <1>2, <1>3, PTL DEF Spec, OneHandlerAtATime

-----------------------------------------------------------------------------
(* The budget and the plan *)

\* A tool that answers in time, and never with a fault that may pass, is asked once.
AnswersAtOnce(t) == t \notin Slow /\ "TRANSIENT" \notin Answers[t]

Worst(t) == IF AnswersAtOnce(t) THEN 1 ELSE Attempts[t]

\* need[p][k] allows for what the plan takes at worst up to the k-th call of phase p.
RunningTotal(need) ==
    /\ need \in [Nat -> [Nat -> Nat]]
    /\ \A p \in 1 .. Len(Plan) :
          /\ \A k \in 1 .. Len(Plan[p]) : need[p][k] >= need[p][k - 1] + Worst(Plan[p][k])
          /\ need[p + 1][0] >= need[p][Len(Plan[p])]

CoveredByBudget(need) ==
    \A p \in 1 .. Len(Plan) : \A k \in 0 .. Len(Plan[p]) : need[p][k] <= MaxToolCalls

\* As long as nobody dies, the runner has used no more than the calls that are over needed
\* at worst and the attempts of the current one, which are no more than that one may need.
PlanInv(need) ==
    (crashes = 0 /\ ~AtGate) =>
        /\ pc = "idle" => saved <= need[phase][0]
        /\ pc # "idle" =>
              /\ used <= need[phase][Len(results)] + attempt
              /\ Pending =>
                    /\ attempt <= Attempts[Tool]
                    /\ AnswersAtOnce(Tool) =>
                          /\ attempt <= 1
                          /\ pc = "loop" => attempt = 0
                          /\ pc = "waiting" => handler # "TRANSIENT"
                          /\ pc # "closing"
        /\ \A i \in DOMAIN results : results[i] # "DENIED"

\* What a call may take at worst is within the budget together with all that precede it.
LEMMA NextCallFits ==
    ASSUME NEW need, RunningTotal(need), CoveredByBudget(need), TypeOK, ~AtGate, Pending
    PROVE  LET k == Len(results)
           IN  /\ need[phase][k] \in Nat /\ Worst(Tool) \in Nat /\ Worst(Tool) >= 1
               /\ need[phase][k + 1] >= need[phase][k] + Worst(Tool)
               /\ need[phase][k] + Worst(Tool) <= MaxToolCalls
<1> DEFINE k == Len(results)
<1>1. phase \in 1 .. Len(Plan) /\ Calls = Plan[phase]
  BY DEF TypeOK, AtGate, Calls
<1>2. k \in Nat /\ k + 1 \in 1 .. Len(Plan[phase]) /\ (k + 1) - 1 = k
  <2>1. Calls \in Seq(Tools)
    BY CallsAreTools
  <2> QED
    BY <1>1, <2>1 DEF TypeOK, Pending
<1>3. Tool = Plan[phase][k + 1]
  BY <1>1 DEF Tool
<1>4. Worst(Tool) \in Nat /\ Worst(Tool) >= 1
  BY ToolAllows DEF Worst
<1>5. need[phase][k] \in Nat
  BY <1>1, <1>2 DEF RunningTotal
<1>6. need[phase][k + 1] >= need[phase][k] + Worst(Tool)
  BY <1>1, <1>2, <1>3 DEF RunningTotal
<1>7. need[phase][k + 1] \in Nat /\ need[phase][k + 1] <= MaxToolCalls
  <2>1. phase \in Nat /\ k + 1 \in Nat /\ k + 1 \in 0 .. Len(Plan[phase])
    BY <1>1, <1>2
  <2>2. need[phase][k + 1] \in Nat
    <3>1. \A p, j \in Nat : need[p][j] \in Nat
      BY DEF RunningTotal
    <3> QED
      BY <2>1, <3>1
  <2> QED
    BY <1>1, <2>1, <2>2 DEF CoveredByBudget
<1> QED
  BY <1>4, <1>5, <1>6, <1>7

\* A call that ends as anything but denied moves the runner on to the next sum.
LEMMA PlanReturn ==
    ASSUME NEW need, RunningTotal(need), CoveredByBudget(need), Inv, PlanInv(need),
           pc # "idle", Pending, NEW outcome \in Outcome \ {"DENIED"}, Return(outcome),
           UNCHANGED << stored, used, handler, spent, crashes >>
    PROVE  PlanInv(need)'
<1> SUFFICES ASSUME crashes = 0, ~AtGate
             PROVE  PlanInv(need)'
  BY DEF PlanInv, AtGate, stored
<1>1. TypeOK
  BY DEF Inv
<1>2. /\ results \in Seq(Outcome) /\ results' = Append(results, outcome)
      /\ Len(results') = Len(results) + 1 /\ Len(results) \in Nat
      /\ attempt' = 0 /\ pc' = "loop"
  BY <1>1 DEF TypeOK, Return
<1>3. /\ used <= need[phase][Len(results)] + attempt
      /\ attempt \in Nat /\ attempt <= Worst(Tool)
  BY <1>1 DEF PlanInv, TypeOK, Worst
<1>4. used <= need[phase][Len(results) + 1] /\ need[phase][Len(results) + 1] \in Nat
  <2>3. need[phase][Len(results) + 1] \in Nat
    BY <1>1, <1>2 DEF RunningTotal, TypeOK
  <2>1. /\ need[phase][Len(results)] \in Nat /\ Worst(Tool) \in Nat
        /\ need[phase][Len(results) + 1] >= need[phase][Len(results)] + Worst(Tool)
    BY <1>1, NextCallFits
  <2>2. used \in Nat
    BY <1>1 DEF TypeOK
  <2> QED
    BY <1>3, <2>1, <2>2, <2>3
<1>5. used' <= need[phase'][Len(results')] + attempt'
  BY <1>2, <1>4, <1>1 DEF stored, TypeOK
<1>6. \A i \in DOMAIN results' : results'[i] # "DENIED"
  BY <1>2 DEF PlanInv
<1>7. Pending' => Attempts[Tool]' \in Nat
  <2> SUFFICES ASSUME Pending' PROVE Attempts[Tool'] \in Nat
    OBVIOUS
  <2>1. TypeOK'
    BY ReturnInv, <1>1, NextInv, <1>2 DEF Inv, TypeOK, Return, stored
  <2>2. Calls' \in Seq(Tools)
    BY <1>1, CallsAreTools DEF Calls, AtGate, stored
  <2>3. Tool' \in Tools
    BY <1>2, <2>2 DEF Tool, Pending
  <2> QED
    BY <2>3
<1> QED
  BY <1>2, <1>5, <1>6, <1>7 DEF PlanInv

LEMMA PlanStep ==
    ASSUME NEW need, RunningTotal(need), CoveredByBudget(need), Inv, PlanInv(need), [Next]_vars
    PROVE  PlanInv(need)'
<1>1. TypeOK /\ TypeOK'
  BY NextInv DEF Inv
<1>2. CASE UNCHANGED vars
  BY <1>2 DEF vars, PlanInv, AtGate, Pending, Calls, Tool
<1>3. CASE Enter
  <2> SUFFICES ASSUME crashes = 0, ~AtGate
               PROVE  PlanInv(need)'
    BY <1>3 DEF PlanInv, AtGate, Enter
  <2>1. saved <= need[phase][0] /\ saved \in Nat /\ attempt = 0
    BY <1>1, <1>3 DEF PlanInv, Enter, Inv, TypeOK
  <2>4. phase \in Nat /\ need[phase][0] \in Nat
    <3>1. phase \in Nat
      BY <1>1 DEF TypeOK
    <3> QED
      BY <3>1 DEF RunningTotal
  <2>2. Calls' \in Seq(Tools)
    <3>1. Calls' = Calls
      BY <1>3 DEF Calls, AtGate, Enter
    <3> QED
      BY <1>1, <3>1, CallsAreTools
  <2>3. Pending' => Tool' \in Tools
    BY <1>3, <2>2 DEF Tool, Pending, Enter
  <2> QED
    BY <1>3, <2>1, <2>3, <2>4 DEF PlanInv, Enter, Carried
<1>4. CASE Save
  <2> SUFFICES ASSUME crashes = 0
               PROVE  PlanInv(need)'
    BY <1>4 DEF PlanInv, Save
  <2>1. phase \in 1 .. Len(Plan) /\ Calls = Plan[phase] /\ Calls \in Seq(Tools)
    BY <1>1, <1>4, CallsAreTools DEF TypeOK, AtGate, Calls, Save
  <2>2. Len(results) = Len(Plan[phase]) /\ attempt = 0
    BY <1>1, <1>4, <2>1 DEF Save, Pending, Inv, CallInv, TypeOK
  <2>3. used <= need[phase][Len(results)] + 0
    BY <1>4, <2>2 DEF PlanInv, Save
  <2>4. /\ need[phase + 1][0] >= need[phase][Len(results)]
        /\ need[phase + 1][0] \in Nat /\ need[phase][Len(results)] \in Nat
    <3>1. need[phase + 1][0] >= need[phase][Len(Plan[phase])]
      BY <2>1 DEF RunningTotal
    <3>2. phase \in Nat /\ phase + 1 \in Nat /\ Len(results) \in Nat
      BY <1>1, <2>1 DEF TypeOK
    <3> QED
      BY <2>2, <3>1, <3>2 DEF RunningTotal
  <2> QED
    <3>1. used <= need[phase + 1][0]
      <4>1. used \in Nat
        BY <1>1 DEF TypeOK
      <4> QED
        BY <2>3, <2>4, <4>1
    <3> QED
      BY <1>4, <3>1 DEF PlanInv, Save
<1>5. CASE Conclude
  BY <1>5 DEF PlanInv, AtGate, Conclude
<1>6. CASE Crash
  BY <1>1, <1>6 DEF PlanInv, Crash, TypeOK
<1>7. CASE Deny
  <2>1. ~(crashes = 0 /\ ~AtGate)
    <3> SUFFICES ASSUME crashes = 0, ~AtGate
                 PROVE  FALSE
      OBVIOUS
    <3>1. /\ used <= need[phase][Len(results)] + attempt
          /\ attempt \in Nat /\ attempt < Worst(Tool)
      BY <1>1, <1>7 DEF Deny, PlanInv, MoreAttempts, Worst, TypeOK
    <3>2. used < MaxToolCalls
      <4>1. LET k == Len(results)
            IN  /\ need[phase][k] \in Nat /\ Worst(Tool) \in Nat
                /\ need[phase][k] + Worst(Tool) <= MaxToolCalls
        BY <1>1, <1>7, NextCallFits DEF Deny
      <4>2. used \in Nat
        BY <1>1 DEF TypeOK
      <4> QED
        BY <3>1, <4>1, <4>2
    <3> QED
      BY <1>1, <1>7, <3>2 DEF Deny, Remaining, TypeOK
  <2> QED
    BY <1>7, <2>1 DEF PlanInv, AtGate, Deny, stored
<1>8. CASE Invoke
  <2> SUFFICES ASSUME crashes = 0, ~AtGate
               PROVE  PlanInv(need)'
    BY <1>8 DEF PlanInv, AtGate, Invoke, stored
  <2>1. Pending /\ Tool' = Tool /\ (Pending' <=> Pending)
    BY <1>8 DEF Invoke, Tool, Calls, AtGate, Pending, stored
  <2>2. need[phase][Len(results)] \in Nat /\ Attempts[Tool] \in Nat
    BY <1>1, <2>1, NextCallFits, ToolAllows
  <2>3. phase' = phase /\ results' = results /\ attempt' = attempt + 1 /\ used' = used + 1
        /\ attempt < Attempts[Tool] /\ attempt \in Nat /\ used \in Nat
        /\ pc' = "waiting" /\ handler' = "RUNNING" /\ pc = "loop"
    BY <1>1, <1>8 DEF Invoke, MoreAttempts, TypeOK, stored
  <2>4. used <= need[phase][Len(results)] + attempt
    BY <2>3 DEF PlanInv
  <2>5. used' <= need[phase'][Len(results')] + attempt'
    BY <2>2, <2>3, <2>4
  <2>6. attempt' <= Attempts[Tool']
    BY <2>1, <2>2, <2>3
  <2>7. AnswersAtOnce(Tool) => attempt' <= 1
    BY <2>1, <2>3 DEF PlanInv
  <2>8. AnswersAtOnce(Tool') => AnswersAtOnce(Tool)
    BY <2>1
  <2> QED
    BY <2>1, <2>3, <2>5, <2>6, <2>7, <2>8 DEF PlanInv
<1>9. CASE Answer
  <2>1. Tool' = Tool /\ (Pending' <=> Pending) /\ (AtGate' <=> AtGate)
    BY <1>9 DEF Answer, Tool, Calls, AtGate, Pending, stored
  <2>2. pc # "idle"
    BY <1>9 DEF Inv, Answer
  <2>3. AnswersAtOnce(Tool) => handler' # "TRANSIENT"
    BY <1>9 DEF Answer, AnswersAtOnce
  <2> QED
    BY <1>9, <2>1, <2>2, <2>3 DEF PlanInv, Answer, stored
<1>10. CASE Settle
  <2>1. PICK outcome \in Outcome \ {"DENIED"} : Return(outcome)
    BY <1>10 DEF Settle, Outcome
  <2>2. Pending
    BY <1>10 DEF Settle, Inv, CallInv
  <2> QED
    BY <1>10, <2>1, <2>2, PlanReturn DEF Settle
<1>11. CASE Falter \/ TimeOut \/ Close
  <2>1. Tool' = Tool /\ (Pending' <=> Pending) /\ (AtGate' <=> AtGate)
    BY <1>11 DEF Falter, TimeOut, Close, Fail, Tool, Calls, AtGate, Pending, stored
  <2>2. Pending /\ pc # "idle"
    BY <1>11 DEF Inv, CallInv, Falter, TimeOut, Close
  <2>3. (crashes = 0 /\ ~AtGate) => ~AnswersAtOnce(Tool)
    BY <1>11, <2>2 DEF PlanInv, Falter, TimeOut, Close, AnswersAtOnce
  <2> QED
    BY <1>11, <2>1, <2>2, <2>3 DEF PlanInv, Falter, TimeOut, Close, Fail, stored
<1>12. CASE GiveUp
  <2>1. attempt # 0
    BY <1>1, <1>12, ToolAllows DEF GiveUp, MoreAttempts, TypeOK
  <2>2. last \in Outcome \ {"DENIED"}
    BY <1>1, <1>12, <2>1 DEF Inv, CallInv, GiveUp, TypeOK, Outcome
  <2> QED
    BY <1>12, <2>2, PlanReturn DEF GiveUp
<1> QED
  BY <1>2, <1>3, <1>4, <1>5, <1>6, <1>7, <1>8, <1>9, <1>10, <1>11, <1>12 DEF Next, Run

\* Whatever the plan and the tools are: if the budget covers the running total of what
\* each call may take at worst, then no call of the plan is denied while nobody dies.
THEOREM CoveredPlansFit ==
    ASSUME NEW need, RunningTotal(need), CoveredByBudget(need)
    PROVE  Spec => []PlanFitsBudget
<1>1. Init => Inv /\ PlanInv(need)
  <2>1. Init /\ ~AtGate => need[1][0] \in Nat
    BY DEF RunningTotal
  <2> QED
    BY <2>1, InitInv DEF Init, PlanInv, AtGate
<1>2. Inv /\ PlanInv(need) /\ [Next]_vars => Inv' /\ PlanInv(need)'
  BY NextInv, PlanStep
<1>3. PlanInv(need) => PlanFitsBudget
  BY DEF PlanInv, PlanFitsBudget
<1> QED
  BY <1>1, <1>2, <1>3, PTL DEF Spec

\* The agent's plan, with three attempts for each record system and a policy index that
\* answers at once: fourteen attempts are enough, whatever the record systems do.
\* The agent has sixteen (WORST_CASE_TOOL_ATTEMPTS).
THEOREM FourteenAttemptsDo ==
    ASSUME NEW retrieve, NEW vendor, NEW order, NEW history,
           Plan = << << retrieve, retrieve, retrieve, retrieve >>,
                     << vendor, order, history, retrieve >> >>,
           AnswersAtOnce(retrieve),
           Attempts[vendor] = 3, Attempts[order] = 3, Attempts[history] = 3,
           MaxToolCalls >= 14
    PROVE  Spec => []PlanFitsBudget
<1> DEFINE need == [ p \in Nat |-> [ k \in Nat |->
                      IF p = 1 THEN k ELSE IF p = 2 /\ k < 4 THEN 4 + 3 * k ELSE 14 ] ]
<1>1. /\ Worst(retrieve) = 1
      /\ Worst(vendor) <= 3 /\ Worst(order) <= 3 /\ Worst(history) <= 3
      /\ Worst(vendor) \in Nat /\ Worst(order) \in Nat /\ Worst(history) \in Nat
  BY DEF Worst
<1>2. /\ Len(Plan) = 2 /\ Len(Plan[1]) = 4 /\ Len(Plan[2]) = 4
      /\ \A k \in 1 .. 4 : Plan[1][k] = retrieve
      /\ Plan[2][1] = vendor /\ Plan[2][2] = order /\ Plan[2][3] = history /\ Plan[2][4] = retrieve
  OBVIOUS
<1>3. need \in [Nat -> [Nat -> Nat]]
  OBVIOUS
<1>4. \A k \in 1 .. 4 : need[1][k] >= need[1][k - 1] + Worst(Plan[1][k])
  BY <1>1, <1>2
<1>5. \A k \in 1 .. 4 : need[2][k] >= need[2][k - 1] + Worst(Plan[2][k])
  <2>1. need[2][1] >= need[2][0] + Worst(vendor)
    BY <1>1
  <2>2. need[2][2] >= need[2][1] + Worst(order)
    BY <1>1
  <2>3. need[2][3] >= need[2][2] + Worst(history)
    BY <1>1
  <2>4. need[2][4] >= need[2][3] + Worst(retrieve)
    BY <1>1
  <2>5. \A k \in 1 .. 4 : k = 1 \/ k = 2 \/ k = 3 \/ k = 4
    OBVIOUS
  <2> HIDE DEF need
  <2> QED
    BY <1>2, <2>1, <2>2, <2>3, <2>4, <2>5
<1>6. need[2][0] >= need[1][4] /\ need[3][0] >= need[2][4]
  OBVIOUS
<1>7. \A p \in 1 .. 2 : \A k \in 0 .. 4 : need[p][k] <= MaxToolCalls
  OBVIOUS
<1> HIDE DEF need
<1>8. RunningTotal(need)
  <2>1. \A k \in 1 .. Len(Plan[1]) : need[1][k] >= need[1][k - 1] + Worst(Plan[1][k])
    BY <1>2, <1>4
  <2>2. \A k \in 1 .. Len(Plan[2]) : need[2][k] >= need[2][k - 1] + Worst(Plan[2][k])
    BY <1>2, <1>5
  <2>3. need[1 + 1][0] >= need[1][Len(Plan[1])] /\ need[2 + 1][0] >= need[2][Len(Plan[2])]
    BY <1>2, <1>6
  <2>4. \A p \in 1 .. Len(Plan) :
          /\ \A k \in 1 .. Len(Plan[p]) : need[p][k] >= need[p][k - 1] + Worst(Plan[p][k])
          /\ need[p + 1][0] >= need[p][Len(Plan[p])]
    <3> TAKE p \in 1 .. Len(Plan)
    <3>1. p = 1 \/ p = 2
      BY <1>2
    <3> QED
      BY <2>1, <2>2, <2>3, <3>1
  <2> QED
    BY <1>3, <2>4 DEF RunningTotal
<1>9. CoveredByBudget(need)
  <2>1. \A p \in 1 .. 2 : p = 1 \/ p = 2
    OBVIOUS
  <2> QED
    BY <1>2, <1>7, <2>1 DEF CoveredByBudget
<1> QED
  BY <1>8, <1>9, CoveredPlansFit

=============================================================================
