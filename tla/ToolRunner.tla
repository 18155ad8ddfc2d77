------------------------------ MODULE ToolRunner ------------------------------
(***************************************************************************)
(* The tool calls of one run, over all the processes that advance it: the  *)
(* attempts of a call, its timeout, and the budget of attempts, which the  *)
(* run carries from one process to the next (tools/base.py, and the phases *)
(* and the approval handling that call it).                                *)
(*                                                                         *)
(* A handler runs on a pool thread of its own while the runner waits.      *)
(* What a tool returns is reduced to how the runner classifies it.         *)
(***************************************************************************)
EXTENDS Naturals, Sequences

CONSTANTS
    Tools,
    Attempts,       \* attempts_allowed of each tool
    Plan,           \* the calls of each phase, in order
    Register,       \* the tool that an approval callback may need
    Answers,        \* what each tool may answer
    Slow,           \* tools that may take longer than their timeout
    MaxToolCalls,   \* budget of attempts of a run
    Longest,        \* bound on the calls of a phase
    MostAttempts,   \* bound on the attempts of a call
    MaxLookups,     \* bound: approval callbacks that look a delegation up
    MaxCrashes      \* bound: crashes in a behaviour

\* A value of the declared type, data that does not validate, a refusal, a passing fault.
AnswerKinds == {"VALUE", "MALFORMED", "PERMANENT", "TRANSIENT"}

ASSUME ToolAssumption ==
    /\ Register \in Tools /\ Slow \subseteq Tools
    /\ Attempts \in [Tools -> Nat \ {0}] /\ \A t \in Tools : Attempts[t] <= MostAttempts
    /\ Answers \in [Tools -> SUBSET AnswerKinds]

ASSUME PlanAssumption ==
    /\ Plan \in Seq(Seq(Tools))
    /\ \A p \in 1 .. Len(Plan) : Len(Plan[p]) <= Longest

ASSUME BudgetAssumption ==
    /\ MaxToolCalls \in Nat /\ MaxLookups \in Nat /\ MaxCrashes \in Nat
    /\ Longest \in Nat \ {0} /\ MostAttempts \in Nat

VARIABLES
    phase,      \* of the stored run: the phase to run next; past the plan, the gate
    saved,      \* tool_calls_used of the stored run
    pc,         \* where the process that advances the run is
    used,       \* calls_used of its ToolRunner
    results,    \* how the calls of the phase have ended so far
    attempt,    \* attempts of the current call
    last,       \* how its last attempt failed
    handler,    \* the pool thread of the latest attempt: at work, or its answer
    signed,     \* signatures collected at the gate
    lookups,    \* callbacks delivered at the gate
    spent,      \* attempts ever made, whether or not the run still knows
    crashes

stored == << phase, saved, signed, lookups >>
vars == << phase, saved, pc, used, results, attempt, last, handler,
           signed, lookups, spent, crashes >>

AtGate == phase > Len(Plan)

Calls == IF AtGate THEN << Register >> ELSE Plan[phase]

Pending == Len(results) < Len(Calls)

Tool == Calls[Len(results) + 1]

Outcome == {"SUCCESS", "TIMEOUT", "TRANSIENT_ERROR", "PERMANENT_ERROR", "DENIED"}

Init ==
    /\ phase = 1 /\ saved = 0 /\ signed = 0 /\ lookups = 0
    /\ pc = "idle" /\ used = 0 /\ results = << >>
    /\ attempt = 0 /\ last = "NONE" /\ handler = "NONE"
    /\ spent = 0 /\ crashes = 0

-----------------------------------------------------------------------------
(* A process takes the run up and puts it down *)

\* Slip: every process starts from a full budget.
CarriedSlip == 0

\* calls_already_used
Carried == saved

Enter ==
    /\ pc = "idle"
    /\ AtGate => lookups < MaxLookups
    /\ lookups' = IF AtGate THEN lookups + 1 ELSE lookups
    /\ pc' = "loop"
    /\ used' = Carried
    /\ results' = << >>
    /\ UNCHANGED << phase, saved, attempt, last, handler, signed, spent, crashes >>

\* The calls are made: the phase is saved with what the runner has used.
Save ==
    /\ pc = "loop" /\ ~Pending /\ ~AtGate
    /\ saved' = used
    /\ phase' = phase + 1
    /\ pc' = "idle"
    /\ UNCHANGED << used, results, attempt, last, handler, signed, lookups, spent, crashes >>

\* The callback ends in a signature, for which a delegate needs the register's answer,
\* or in a refusal; either way the run is saved.
Conclude ==
    /\ pc = "loop" /\ ~Pending /\ AtGate
    /\ saved' = used
    /\ \/ signed' = signed
       \/ results[1] = "SUCCESS" /\ signed' = signed + 1
    /\ pc' = "idle"
    /\ UNCHANGED << phase, used, results, attempt, last, handler, lookups, spent, crashes >>

\* The process dies, its pool threads with it.
Crash ==
    /\ pc # "idle" /\ crashes < MaxCrashes
    /\ crashes' = crashes + 1
    /\ pc' = "idle"
    /\ attempt' = 0 /\ last' = "NONE" /\ handler' = "NONE"
    /\ UNCHANGED << stored, used, results, spent >>

-----------------------------------------------------------------------------
(* One call *)

\* The call is over and the next one begins.
Return(outcome) ==
    /\ results' = Append(results, outcome)
    /\ attempt' = 0 /\ last' = "NONE"
    /\ pc' = "loop"

Remaining == IF used < MaxToolCalls THEN MaxToolCalls - used ELSE 0

\* Slip: one attempt more than max_retries + 1.
MoreAttemptsSlip == attempt <= Attempts[Tool]

MoreAttempts == attempt < Attempts[Tool]

\* The budget is looked at before every attempt, the first one included.
Deny ==
    /\ pc = "loop" /\ Pending /\ MoreAttempts /\ Remaining = 0
    /\ Return("DENIED")
    /\ UNCHANGED << stored, used, handler, spent, crashes >>

\* pool.submit
Invoke ==
    /\ pc = "loop" /\ Pending /\ MoreAttempts /\ Remaining > 0
    /\ attempt' = attempt + 1 /\ used' = used + 1 /\ spent' = spent + 1
    /\ handler' = "RUNNING"
    /\ pc' = "waiting"
    /\ UNCHANGED << stored, results, last, crashes >>

\* The handler finishes, in time or not.
Answer ==
    /\ handler = "RUNNING"
    /\ handler' \in Answers[Tool]
    /\ UNCHANGED << stored, pc, used, results, attempt, last, spent, crashes >>

\* A validated value ends the call; what cannot get better ends it too.
Settle ==
    /\ pc = "waiting" /\ handler \in {"VALUE", "MALFORMED", "PERMANENT"}
    /\ Return(IF handler = "VALUE" THEN "SUCCESS" ELSE "PERMANENT_ERROR")
    /\ UNCHANGED << stored, used, handler, spent, crashes >>

\* The attempt is over without a result; the loop decides whether there is another.
Fail(how) ==
    /\ last' = how
    /\ pc' = "loop"
    /\ UNCHANGED << stored, used, results, attempt, handler, spent, crashes >>

Falter == pc = "waiting" /\ handler = "TRANSIENT" /\ Fail("TRANSIENT_ERROR")

\* result(timeout=...) raises; the with block is left.
TimeOut ==
    /\ pc = "waiting" /\ handler = "RUNNING" /\ Tool \in Slow
    /\ pc' = "closing"
    /\ UNCHANGED << stored, used, results, attempt, last, handler, spent, crashes >>

\* Slip: the pool is shut down without waiting for its thread.
ClosableSlip == TRUE

\* Leaving the with block waits for the pool's thread, whose late answer is dropped.
Closable == handler # "RUNNING"

Close == pc = "closing" /\ Closable /\ Fail("TIMEOUT")

\* No attempt left.
GiveUp ==
    /\ pc = "loop" /\ Pending /\ ~MoreAttempts
    /\ Return(last)
    /\ UNCHANGED << stored, used, handler, spent, crashes >>

-----------------------------------------------------------------------------
Run == Save \/ Conclude \/ Deny \/ Invoke \/ Settle \/ Falter \/ TimeOut \/ Close \/ GiveUp

Next == Enter \/ Run \/ Answer \/ Crash

Spec == Init /\ [][Next]_vars

-----------------------------------------------------------------------------
(* Properties *)

\* Every variable keeps its shape, neither the run nor a call exceeds what it is allowed.
TypeOK ==
    /\ phase \in 1 .. Len(Plan) + 1
    /\ saved \in 0 .. MaxToolCalls /\ used \in 0 .. MaxToolCalls
    /\ attempt \in 0 .. MostAttempts
    /\ spent \in Nat /\ crashes \in Nat /\ signed \in Nat /\ lookups \in Nat
    /\ pc \in {"idle", "loop", "waiting", "closing"}
    /\ results \in Seq(Outcome)
    /\ last \in {"NONE", "TIMEOUT", "TRANSIENT_ERROR"}
    /\ handler \in AnswerKinds \cup {"NONE", "RUNNING"}

\* A crash forgives no more than the attempts of the phase it interrupts: over any number
\* of processes a run makes no more attempts than its budget and that, once for each crash
\* (calls_already_used, _execute_phase).
SpendBounded == spent <= MaxToolCalls + crashes * (Longest * MostAttempts)

\* An attempt never begins while the handler of an earlier one is still at work, although
\* nothing can cancel it: a retried read never runs beside itself (_call_once).
OneHandlerAtATime == [][spent' # spent => handler # "RUNNING"]_vars

\* The default budget covers the plan: as long as the policy index, which is local, answers
\* at once and no process dies, no record system is given up on for want of budget, however
\* the others flap (WORST_CASE_TOOL_ATTEMPTS).
PlanFitsBudget ==
    (~AtGate /\ crashes = 0) => \A i \in DOMAIN results : results[i] # "DENIED"
=============================================================================
