# Accounts-payable agent: specifications, checks and proofs

The agent under `src/ap_agent` takes an invoice through a fixed plan of phases,
recommends an outcome, stops at a gate until humans have approved what is
consequential, and records the decision on a ledger of record. These modules state what
that machinery promises when several threads and processes serve the same store, when
they die half way, and when the same decision is delivered twice, late, or against
another one; and what a recommendation rests on, when records are missing, lookups fail
and days pass between one phase and the next.

## 1. Inventory

| Component | State it keeps | Operations | Talks to |
|---|---|---|---|
| Run driver (`orchestration/machine.py`, `gates.py`) | none between calls: a copy of the run while it serves one | `start`, `resume`, `approve`, `reject`; `_drive`, `_execute_phase`, `_fail` | repository, phases, tool runner, model |
| Approval handling (`orchestration/approvals.py`, `_resolve`) | none | `create_approval`, `short_circuit_replay`, `authorise_signature` | repository, authority rules |
| Decision gate and write tool (`gates.py`, `phases/execute_decision.py`, `tools/contracts.py`) | none | `authorise_decision`, vendor revalidation, `submit_finance_decision` | repository, vendor rules |
| Phases (`orchestration/phases/`) | what they add to the run | `intake`, `retrieve_policy`, `gather_evidence`, `reconcile`, `assess_risk`, `recommend`, `execute_decision` | tools, rules, model, retrieval |
| Repository (`persistence/`) | `runs`, `events`, `approvals`, `approval_signatures`, `decisions`, the schema version | versioned `save_run`, `append_event`, `create_approval`, `add_approval_signature`, `reject_approval`, `record_decision`, migration | SQLite |
| Tool runner (`tools/base.py`) | calls used | `run`: timeout, retries, budget | tools, events |
| Rules (`domain/rules/`) | none: pure | authority, segregation, outcome, vendor, matching, duplicates, validity, payment terms, tax, fraud, payment instructions, non-PO | - |
| Records (`domain/`) | none | enumerations, `RunState`, `ApprovalRequest`, `DecisionReceipt`, validation | - |
| Model gateway (`llm/`) | none | `complete_structured` with one repair | the provider |
| Redaction (`orchestration/redaction.py`, `observability/redact.py`) | none | masking and cutting the texts of a request | phases |
| Text (`narrative_screen`, `summaries`, `citations`) | none | screening and wording | - |
| Retrieval (`rag/`) | an immutable index | ingest, search, fusion | - |
| Observability (`observability/`) | none (events are rows) | `emit`, redaction | repository |
| API and command line (`api/`, `cli/`) | none | one orchestrator call per request or command | orchestrator |
| Evaluation (`evaluation/`) | none | runs cases and scores them | orchestrator |

What couples them is the store. A call loads the run once, works on its copy for the
whole call, and writes it back with `save_run`, which succeeds only over the version that
was loaded. Approvals, signatures and decisions are written by transactions of their own
in between. So the hard behaviours are these:

* two calls on one run whose copies differ in age (API threads, a CLI beside the API,
  a resume beside an approval);
* a process that dies after one of those transactions and before the next;
* approval callbacks that arrive twice, late, or after the opposite verdict;
* a human's approval that is checked, checked again, and acted on in three transactions;
* two runs of one invoice;
* phases of one run on different days, each asking the clock anew, with controls that run
  twice and controls that run once;
* people who sign on a later day than the case was assessed, under delegations that expire or
  are revoked meanwhile;
* processes that open, create and migrate one store at once, or die half way through it;
* lookups that fail, and leave the run with what an empty answer would have left.

What makes each component correct:

* **driver**: a run only moves forward and never once it is over; its budget holds across
  takeovers; it stops only at the gate or at an end;
* **approvals**: a verdict is final, a signature stays; a grant needs the signatures the
  risk asks for, one of a person whose limit covers the amount;
* **gate and ledger**: nothing is recorded that was not granted, for the outcome that was
  granted; once per run and per invoice, retries included; what was recorded is never
  reported as failed;
* **repository**: stale writes are refused; a store that opens is complete, the version it
  is stamped with is kept, and no crash of one process locks the next one out;
* **tool runner**: bounded attempts, none beside an earlier one, a budget that survives
  restarts and covers the plan;
* **phases**: nothing recorded is dropped, nothing found counts only on the day it was
  found, every gap is on the record;
* **who may sign**: every signature on file stays justified by what is stored (limit, role,
  delegation, duties), a case found to be higher-risk is co-signed however late it is decided,
  and the gate fails a granted case only for what its approvers were shown;
* **rules and outcome**: an approval rests on every control; what outranks what holds for
  every combination; the payment proposed meets the terms or says that it does not.

`PROJECT.json` lists every hazard at its line with the properties aimed at it.

## 2. Modules

| Module | What it is |
|---|---|
| `RunPhases` | the closed vocabularies and the shape of the phase plan |
| `ApprovalGate` | the core: store, workers, every step of driver, approval handling, gate and write tool |
| `DecisionLedger` | the abstract specification: ask once, answer once, post only what was granted and each invoice once |
| `ApprovalGateClaims` | statements of comments and documents which the code refutes, and the two states a run never leaves |
| `MCApprovalGate` | the instances TLC checks |
| `ApprovalGateProofs` | theorems about `ApprovalGate`: types, finality, authorisation |
| `ApprovalGateSafety` | the covering signature, the amounts that only an unlimited role covers, the ledger and its announcement, the step budget |
| `ApprovalGateRefinement` | runs, approvals, ledger and workers tied together; `ApprovalGate` implements `DecisionLedger`; stranded and outrun runs |
| `ToolRunner` | the tool calls of one run: attempts, timeouts, the budget and its way over saves, crashes and callbacks |
| `MCToolRunner` | the agent's plan |
| `ToolRunnerProofs` | theorems about `ToolRunner` |
| `CaseRecords` | the records the controls read and write; redaction; the derived invoice |
| `MatchingRules` | `three_way_match`, `assess_tax` |
| `ScheduleRules` | `assess_payment_terms` and the calendar |
| `VendorRules` | `vendor_status_check`, `check_payment_instructions`, `check_reconciliation_time` |
| `HistoryRules` | `duplicate_check`, `check_repeated_non_po` |
| `OutcomeRules` | `check_invoice_validity`, `fraud_indicators`, `decide_outcome`, `tightens` |
| `AuthorityRules` | the authority matrix, `validate_approval` with delegations, `check_approval_time` |
| `CaseAssessment` | one run from its submission to its recommendation |
| `CaseAssessmentClaims` | statements about an assessment which the code refutes |
| `MCCaseAssessment` | the cases TLC checks |
| `CaseAssessmentProofs` | theorems about `CaseAssessment`: types, precedence, memory, monotony |
| `CaseAssessmentSafety` | what an outcome, a schedule, a gap and an indicator rest on; what of a redacted text they see; when a refuted statement holds after all |
| `SignOff` | one case from its submission to the ledger: `CaseAssessment`, then who signs, on which day, and the decision |
| `SignOffClaims` | a statement about the decision which the code refutes |
| `MCSignOff` | the cases, people and delegations TLC checks |
| `SignOffProofs` | theorems about `SignOff`; it implements `DecisionLedger` |
| `StoreSchema` | several processes open, create and migrate one database file |
| `MCStoreSchema` | three processes |
| `StoreSchemaProofs` | theorems about `StoreSchema` |

`ApprovalGate` and `CaseAssessment` both extend `RunPhases` and meet at the recommendation:
the gate takes the outcome, the vendor block and the higher-risk flag as any that the
instance allows, and `CaseAssessment` says which of them a case can produce. `SignOff` extends
`CaseAssessment` and `AuthorityRules` and goes through the gate as well, one delivery after
another: the two models of the gate split the question. `ApprovalGate` has every interleaving,
crash and repeated delivery and takes who may sign as a parameter; `SignOff` has the days, the
delegations and the amounts and says who that is.

### How `ApprovalGate` corresponds to the code

`runs`, `approvals`, `signatures`, `decisions`, `announced` are the tables (`announced`
counts the `DECISION_SUBMITTED` rows of `events`). A run is reduced to the fields later
steps read: phase, version, steps used, approval id, outcome, whether the vendor record
blocks, whether the case is higher risk, whether it holds a receipt.

A **worker** is a thread or a process that serves one call at a time. `pc` is where in the
call it is, `job` the call, `copy` the `RunState` object it holds, `seen` the approval
status it read last. Each transaction of the repository is one action; what the code does
between two of them without touching the store is part of the action before or after.
`load_approval` is two statements, hence two actions (`ReadApproval`, then the one that
reads the signatures); another thread on the shared connection can commit between them.

| Code | Actions |
|---|---|
| `start`, `resume`, `approve`/`reject` | `Start`, `Resume`, `Deliver` |
| `_resolve` | `ReadApproval`, then `AnswerReplay`, `RefuseSigner` + `SaveRefusal`, `AcceptSigner` + `Sign`, or `AcceptRejection` + `Reject`/`RejectAgain`; `Contradicted`; `Reload`; `Collect`, `Hold`, `Open` |
| `_drive`, `_execute_phase` | `ExhaustSteps`, `ReadPhase`, `ModelFails`, `RecommendHold` or `RequestApproval` + `Park` |
| `execute_decision.run`, `submit_finance_decision`, `record_decision` | `PassGate`/`GateRefuses`, `CheckTool`, `RecordFirst`/`RecordAgain`/`RecordConflict`, `Announce`, `Complete` |
| `_fail`, `StaleRunVersion` | `Fail`, `StaleWrite` |
| the process dying anywhere | `Crash` |

Calls that change nothing and return at once (a decision that names another approval, a
resume of a run that waits or is over) are not actions. `resume` of a waiting run does
write an event, which the model leaves out.

**Who may sign** is a parameter. `Primary` are the people whose own authority covers the
amount; `Unlimited` those of them whose role has no limit, because such a signature is
stored with limit `None`; `Delegated` those whose authority rests on a delegation the
register may fail to return at that moment (a nondeterministic choice in
`RefuseSigner`/`AcceptSigner`); `FinancialControl` those who may only co-sign. How
`validate_approval` arrives at these verdicts is `AuthorityRules`.

**Phases** that only read are one action (`ReadPhase`): nothing they do is visible until
the save at their end. `ASSESS_RISK` and `RECOMMEND` may fail with the model.

### How `ToolRunner` corresponds to the code

One run, advanced by one process at a time. `Plan` says which tools each phase calls, in
order; past the plan the run is at the gate, where a callback that names a delegation calls
the `Register` tool. `Enter` is a process taking the run up: a `ToolRunner` is constructed
with `calls_already_used`, the stored `tool_calls_used` (`saved`). `Save` and `Conclude`
store `calls_used` back; between them `Deny`, `Invoke`, `Settle`, `Falter`, `TimeOut`,
`Close` and `GiveUp` are the loop of `ToolRunner.run` and the `with` block of `_call_once`,
and `Answer` is the pool thread that executes the handler and finishes when it likes,
before or after the timeout. `spent` counts the attempts ever made: the code has no such
counter, and the difference between it and `saved` is what a crash forgets.

`_drive` keeps one runner over several phases; the model takes the run up anew at each
phase, which is the same because `Save` stores exactly what the runner has counted.
An exception that is not a tool error leaves the runner and the process's call: it
leaves the store as a crash does.

### How `CaseAssessment` corresponds to the code

`day` is the clock, `run` the stored `RunState`, `world` what is outside: the request as it
was submitted, what each system of record holds, and which lookups may fail. Each of the six
phase handlers is one action (`Intake`, `RetrievePolicy`, `GatherEvidence`, `Reconcile`,
`AssessRisk`, `Recommend`), since `_execute_phase` saves the copy once, at its end. A process
that dies in a phase leaves the stored run as it was, which is the phase not being taken, and
a resume on a later day is `Tick` before the same action. `AssessmentFails` and
`NarrativeFails` are the two places where the model's failure reaches `_fail`, with what is on
the copy by then.

The operators `IntakeOf` ... `RecommendOf` are the handlers, in the order of their calls; the
rule modules are the rules, each as an operator for the exceptions it raises and, where it has
any, one for the gaps, the indicators or the dates. An exception is its rule and whether it
blocks; an unknown is its subject and the tool that was asked; explanations, calculations and
findings are left out. Amounts are cents, and a rate or a tolerance in per cent is rounded as
`Money` does. A text is the set of statements that screening would find in it (an instruction,
urgency, a bank change, an account tail, ...), with what it would no longer say (`lost`) and
what it would newly say (`gained`) after redaction, because `redact_text` cuts at 2,000
characters and masks long digit runs down to their last four.

`ToInvoice` is evaluated at every use, as in the code, so an invoice without a date has the
date of the day. `validatedOn` and `reconciledOn` record the day of a phase for the
properties; nothing reads them.

### How `SignOff` corresponds to the code

`run` goes on where `CaseAssessment` leaves it at the gate; `approval` is the approval row with
its signatures (`NoApproval` before `create_approval`), `master` the vendor master's record,
`revoked` what was withdrawn from the authority register, `ledger` the rows of
`record_decision`.

| Code | Definitions |
|---|---|
| `recommend.run`, `create_approval` | `Conclude`, `Requested` |
| `_load_delegation`, `get_delegation` | `LookedUp`, `RegisterEntry`, `LookupGaps` |
| `authorise_signature` | `Application`, `Sufficient`, `Clashes` |
| `_resolve` | `Sign`, `RefuseSigner`, `Reject`; a repeated delivery of the same person changes nothing and is not an action |
| `ApprovalSignature`, `signature_requirement_met` | `Signature`, `RequirementMet` |
| `authorise_decision`, the vendor check, `submit_finance_decision`, `_fail` | `Permitted`, `NewlyBlocking`, `RecordDecision`, `RefuseDecision` |
| the clock, the register, the vendor master | `Tick` (in `Assess`), `RevokeDelegation`, `VendorChanges` |

A case carries the callbacks that may arrive for it (`callers`: who, the role claimed, the
delegation named); each may arrive at any time and any number of times, approving or rejecting,
with the register answering or not. A role is one of `ApproverRole` or any other word. The
register's entries are given by `Register`; the scope of an entry and a cost centre are the sets
of words that `_scope_covers` compares after dropping common ones. What a `Signature` holds is
what `ApprovalSignature` stores, plus the day (`on`), which is `signed_at`.

### How `StoreSchema` corresponds to the code

The database is its stamp (`PRAGMA user_version`) and the `objects` that exist: the five tables,
the column `decisions.invoice_fingerprint`, the unique index that needs it. A process is
somewhere in `_apply_schema` (`pc`), with the version it read and the next statement of
`schema.sql` it will run. `ReadStamp` and `LookForTables` are the two queries of
`_store_version`, outside any transaction; `Claim` is `_stamp` on a fresh file; `MigrateTo` is
one `BEGIN IMMEDIATE` transaction of `_migrate_to`; `RunStatement` one statement of
`executescript`, which commits by itself; `Stop` is a close or a death anywhere. `Databases`
are the files a process may be given: none, what a build without versions left complete or half
created, what an early build left between its `ALTER` and its stamp (the docstrings of
`_AddColumn` and `_apply_schema` tell of both), and a newer build's. Plain indexes, rows and the
busy timeout of SQLite are left out.

## 3. Runs

The runs of the gate use `MCApprovalGate`; `CHECK_DEADLOCK FALSE` because the system does stop, when
every run is over and no delivery is left to make.

| Run | Instance | Shows |
|---|---|---|
| `gate` | 1 run, 2 workers, 1 crash; a CFO by delegation, a Financial Controller, a clerk; 12 steps, or 6, which end exactly at the gate | `TypeOK`, `DecisionAuthorised`, `LimitCovered`, `PostedRunsNeverFail`, `CompletedMeansPosted`, `PendingOnlyAtGate`, `AnnouncedAtMostOnce`, `OrphansUntouched`, `StepsWithinBudget`, `SettledIsFinal`, `RunsOnlyAdvance`, `StrandedForGood` |
| `shared_invoice` | 2 runs of one invoice, 2 workers, 1 crash | `ImplementsLedger`: every step is a step of `DecisionLedger`, which posts an invoice once, or changes nothing of it; `OutrunForGood`: the run that comes second never ends |
| `progress` | 1 run, 2 workers, 1 crash, fair | `DriverProgress` |
| `serial` | 1 worker, two signatures, fair | `EveryRunConcludes` |
| `claim_stale_write` | 2 signatures at once, no crash, fair | refutes `GrantedRunsProceed` |
| `claim_cosigner` | the CEO signs first | refutes `CoSignerAdmitted` |
| `tools` | the agent's 8 calls, attempts and budget of 16, 2 callbacks, 2 crashes; the index answers at once, the record systems do anything | `SpendBounded`, `PlanFitsBudget`, `OneHandlerAtATime` |
| `case` | 1,637 cases, every lookup of a simple one may fail, three days | `ApprovedPassedEveryControl`, `SettledDuplicateNeverHeld`, `EscalationSticks`, `RiskRemembered`, `PostDatedNeverHeldOrApproved`, `GapsDisclosed`, `ScheduleMeetsTerms`, `IndicatorsAreOfThisCase`, `KeptTextIsControlled`, `EveryOutcomeIsExplained`, `NothingIsForgotten` |
| `claim_history` | the same cases | refutes `ApprovedOnlyOnHistory` |
| `signoff` | twelve cases, seven people, three delegations, two days | `SignOffTypeOK`, `SignaturesJustified`, `PostedWithinAuthority`, `RiskyPostingsCoSigned`, `PresentedRoleIsLeast`, `GateFailuresWerePresented`; `SignOffImplementsLedger`: submission, verdict and posting are those of `DecisionLedger` |
| `claim_vendor` | the same cases | refutes `VendorRevalidated` |
| `store` | three processes, eleven kinds of file, fair | `OpenIsUsable`, `StampKeepsPromise`, `StoreOpensInTheEnd` |

**Bounds.** `MaxVersion` stops new deliveries to a run that was written that often; a run
needs eight writes from creation to its end and one more for each refusal or extra
signature, so 10 leaves room for refused and collected signatures in every order (the
`serial` run, with more signing, uses 20). It bounds only `Deliver`: work in progress is
never cut off. `MaxCrashes = 1` is one death at any point of any call; a second adds no
new kind of state, since a crash leaves only the store, and every store reachable after
one is also the start of the other worker's interleavings. `ApprovalIds` holds one
identifier for each request that can be created (one per worker or crash), so that
`RequestApproval` never lacks one. Two workers give every pairwise race. Approval
identifiers are interchangeable, hence the symmetry of the safety runs; the liveness runs
use none.

For the tool runner the plan, the attempts and the budget are the agent's own, which a crash
or a second callback can exhaust in every place, before the first attempt of a call and
between two. Two crashes show that what is forgiven adds up.

For the assessment the cases are a clean one, every departure from it in one record (the
request, the vendor, the order, the history), and every pair of departures in two records.
The rules relate at most two records at a time (a request to its order, a vendor to the
texts, the history to the vendor's bank change), so pairs reach every relation; the theorems
need no such argument. The departures sit on the limits: a price at its tolerance and a cent
above, tax five and six cents too high, 25,000 and a dollar more, a receipt of quantity zero, a prior amount on either
side of half a per cent, dates around today and on weekends. Day 704 is a Friday and the
clock runs to the Sunday, which takes a vendor of day 675 over the thirty days, a date of
tomorrow into the past, and the working week into the weekend. Lookups fail in cases with
one departure only (`unreliable`), in every combination: a failed lookup is itself a
departure. Stopping there is why `CHECK_DEADLOCK` is off: a recommended run and a spent
clock are the end.

For signing, the amounts lie on a limit and a cent above it (10,000; 50,000; 1,000,000) and on
either side of 25,000; the callers of a case are those that can go wrong there: the requester, a
receiver, the vendor's last editor on the last day of the five and the first after them, a
delegation out of date, out of scope, another's, of no use, Financial Control alone, before and
after a covering signature, the CEO, a role of no matrix. Two days suffice for everything that
turns overnight: a delegation ends or begins, the cooling-off ends, a vendor stops being new.
Vendor and register change only once the approval is asked for: an earlier change is another
case. `Named` leaves alone the delegations nobody names. A case rejected, posted or
refused is the end, hence `CHECK_DEADLOCK FALSE`.

For the store, three processes give one that migrates, one that believes an older version and
one that finds the work of both, each dying and opening again any number of times; nothing is
bounded but their number. A newer store refuses everybody, hence `CHECK_DEADLOCK FALSE`.

**Fairness.** A worker that serves a call goes on (`WF` on `Work`: no phase waits for
another; the model and the tools are taken to answer or fail). Unfinished runs are resumed
again and again (`SF` on `Resume`: the CLI and the API offer it to operators, and the
design counts on it after a restart). Approvers deliver their approval again and again
(`SF` on `Deliver`: at-least-once callers), which only `EveryRunConcludes` and
`GrantedRunsProceed` need. Rejection and crash are never fair.
A process that has begun to open the store goes on (`WF` on `Advance`: SQLite's write lock is
held only for a statement or a transaction); opening, closing and dying are never fair.
`ToolRunner`, `CaseAssessment` and `SignOff` claim safety only and assume no fairness.

## 4. Proofs

TLC agreed with every formula below on the runs of section 3 before it was proved; the
theorems hold for every value of the constants which the named assumptions allow. The
runs show what the theorems cannot: that the interesting states exist.

**The gate** (any number of runs, workers, approvals, people and crashes).
`ApprovalGateProofs`:

* `TypeCorrect` and `TypeOKHolds`: `Spec => []TypeOK`. The inductive invariant `TypeInv`
  adds to `TypeOK` what the types need to be preserved: which part of a call is under way
  at which label.
* `SettledStaysFinal`: `Spec => SettledIsFinal`, from the lemma `ApprovalsLast`: no action
  but `RequestApproval`, `Sign` and `Reject` writes an approval, and each of those only
  where the property lets it.
* `DecisionsAuthorised`: `Spec => []DecisionAuthorised`. The ledger check and the write are
  separate transactions, so the property is not inductive. `AuthInv` adds that a worker at
  `record` holds a copy whose approval satisfies the tool's check **now**; that the check,
  made one step earlier, still holds is because a granted approval and its signatures last
  (`ApprovalsLast`, `RequirementLasts`, `CoversLasts`), and this is where it would fail if
  a late rejection could turn a grant.

`ApprovalGateSafety`:

* `SignaturesCoverTheAmount` (`LimitCovered`). Others may sign between the check of a signer
  and the signature, so `SignInv` adds that whoever is at `sign` covers the amount or finds
  somebody on file who does; signatures only gather.
* `InvoicesDecidedOnce` and `AnnouncementsAreOnce`. `LedgerInv` adds that the worker about to
  announce is the only one of its run and that nobody announced before; `FirstDecision`
  states what the ledger's answer to a first decision says about all other rows.
* `StepsStayWithinBudget`. The check is made on a copy and the step counted when it is saved:
  `BudgetInv` says what a copy may have used at each place in between (`Entered`).
* `UnlimitedCasesAreNeverGranted`. What refutes `CoSignerAdmitted` is not a matter of who
  signs first. Where everybody who covers the amount has no limit (`Primary \subseteq
  Unlimited`: above 1,000,000 that is the CEO) and Financial Control does not cover it, no
  higher-risk approval is ever granted. `NoCoSigner` adds that every
  signature on file, and of whoever is about to sign, is one of `Primary`.

`ApprovalGateRefinement` ties the store together. `GateInv` has three parts: `RowInv`, a row of
`runs` with the approval it names and the ledger; `ApprovalInv`, a row of `approvals` with
the signatures on it; `WorkerInv`, a worker's copy. The last is the one that is hard to find.
`CopyInv` says that a copy as new as its run differs from it in no more than what the worker is
about to save, so that a save which passes the version check loses nothing; `AnswerInv` says
what a worker that resolves an approval has read and may still rely on; `ExecuteInv` says that
past the gate everybody who carries the run carries the same approved run and gets the
gate's same answer, which is why a second worker cannot fail what the first one posted.
`Moves` is what a step may do to a run. From `GateHolds`:

* `PostedRunsCannotFail`, `CompletedRunsArePosted`, `PendingRunsWait`, `OrphansStayUntouched`
  and `RunsAdvance`: the invariants and the action property of those names in the `gate` run.
* `GateImplementsLedger`: `Spec => ImplementsLedger`. Parking a run with an approval is
  `Ask`, the granting signature `Grant`, the rejection `Refuse`, `RecordFirst` is `Post`, and
  everything else changes nothing of `DecisionLedger`. Its guards are `GateInv`:
  what is granted was asked for, what is posted was granted.
* `StrandedRunsStay` and `OutrunRunsStay`: the action properties `StrandedForGood` and
  `OutrunForGood`. A run is stranded when it waits at the gate, its approval is settled, and no
  worker is about to move it (`MayYetMove`: it is going to sign or reject, reads the run again
  first, or holds it as stored); it is outrun when it is approved and another run of its invoice
  was posted. Every call that meets such a run finds the matter settled, is refused as stale or
  meets the ledger's conflict. `CopyInv` is what shows that a stale copy cannot pass the
  version check, `ExecuteInv` that nobody carries another version of an approved run.
* `StrandedRunsNeverProceed` and `OutrunRunsNeverEnd` conclude that once such a state is reached
  the run is at `AWAITING_APPROVAL` or `EXECUTE_DECISION` for ever, in every behaviour of `Spec`,
  so under every fairness. They are why `GrantedRunsProceed` fails for more than one instance,
  why `EveryRunConcludes` is checked without crash and race, and why `DriverProgress` is about
  one run of each invoice. That the states are reached is what `claim_stale_write`, and the
  mutants of the two properties, show.

**The tool runner** (every plan, set of tools and attempts, budget and number of crashes).
`ToolRunnerProofs`:

* `CountersBounded`: `Spec => []TypeOK`, which holds the stored and the runner's counter
  within the budget and a call's attempts within what its tool allows.
* `RestartsForgiveOnePhase`: `Spec => []SpendBounded`. Alone it is not inductive: a crash
  adds what the runner is ahead of the store. `SpendInv` bounds that difference by the
  attempts of the calls that are over (`Len(results) * MostAttempts`) plus those of the
  current one, and `PhaseFits` that by a phase's. The arithmetic, which multiplies
  variables, is kept in lemmas of its own (`PhaseFits`, `ProductsGrow`, `OneMore`).
* `RetriesNeverOverlap`: `Spec => OneHandlerAtATime`, because a handler is at work only
  while the runner waits for it, in the `with` block or at its exit.
* `CoveredPlansFit`: `Spec => []PlanFitsBudget`, for every plan. What a plan takes at worst is a
  sum over its calls, which is an induction over data; so the theorem takes the sum as given, as a
  table `need` of running totals (`RunningTotal`: each entry is at least the one before it and the
  call's worst case, which is one for a tool that answers at once), and asks that the budget
  covers them (`CoveredByBudget`). `PlanInv` compares the runner's count with the entry of the
  calls that are over. `FourteenAttemptsDo` gives the table for the agent's plan: fourteen
  attempts suffice whatever the record systems do. The agent has sixteen, because
  `phases/__init__.py:98-112` counts the delegation lookup and the submission in.

**The assessment** (every set of cases, every vendor, order and history in them, and every
span of days). `CaseAssessmentProofs`:

* `TypeCorrect`: `Spec => []TypeOK`.
* `Escalates` and `SettledDuplicates`: what outranks what. The rules stay closed operators:
  the argument needs only that `decide_outcome` asks first for escalation and then for the
  settled record (`EscalationComputed`, `VerdictsAreRecommended`), and that a suggestion is
  taken only when it is more severe (`OnlyTightened`).
* `PostDatedSticks` and `RisksAreRemembered`: what was established on one day still counts on
  another. Neither is inductive: both rest on `RecordInv`, which ties each part of the record
  to the day it was written (the reasons of a validated run to `validatedOn`, the risks of a
  reconciled one to `reconciledOn`) and says which parts are still empty in which phase.
* `FindingsAreKept`: `Spec => NothingIsForgotten`, one lemma for each phase.

The inductive invariant of that module is `Inv`: `TypeOK`, that the world is one of the cases,
and `RecordInv`. `CaseAssessmentSafety` opens the rules as well, with one lemma for what each
phase changes and what it leaves (`IntakeEffect` ... `RecommendEffect`):

* `IndicatorsAreRead` (`IndicatorInv`) and `GapsAreDisclosed`. `GapInv` follows the three
  lookups from the phase that makes them to the one that decides; an order nobody asked for
  becomes a gap only in `RECONCILE`, where the rule's own gap gives way to the lookup's.
* `SchedulesMeetTerms`, from the calendar lemmas (`BusinessDayBefore`, `LatestRun`, `NoLateRun`,
  `FirstRun`): the proposal is the last run in time whatever weekday the due date is.
* `OutcomesAreExplained` and `ApprovalsPassedEveryControl`. Both rest on `ControlInv`, whose
  part `Judged` says that the record of a reconciled run agrees with what the controls found
  on that day, although exceptions are recorded once for each rule. The controls which run again
  in `RECOMMEND`, on a later day, find nothing new (`AtRecommend`), so what the record does not
  hold against a case no control holds against it; the lemmas `MatchPassed`, `LinePassed`,
  `VendorPassed` and `SegregationPassed` say what that means of each rule.
* `KeptTextsAreControlled`. `KeptIsSaid` is about redaction alone: a masked text still says what
  it said in the part kept. `ReadInv` carries that from `INTAKE` over `ASSESS_RISK` to the
  recommendation, and `ApprovedPassedEveryControl` to the account. Its hypothesis says that a text
  is a record with a field `says`.
* `AnsweredHistoriesAreRead` and `ReadHistoriesRuleOutDuplicates`: how far the statement that
  `claim_history` refutes is from the truth. `ApprovedOnlyOnHistory` holds of every set of cases
  whose history lookup does not fail, because no other handler and no rule reports a gap with that
  source (`OtherSources`, `HistoryReadStep`). And an approval whose record has no such gap has, in
  what the systems hold of the vendor and the reference, only rejected records: it is the failed
  lookup alone through which a duplicate can pass.

Assumptions: `CaseAssumption` (a request has its fields, the clock's days are numbers),
`DatesAssumption` (dates and terms are numbers or missing) and `UndatedAssumption`: an invoice
without a date is compared with no record dated more than fourteen days ahead of its
submission. Without the last, such an invoice, dated anew on each day, can come within the
duplicate window of a record only on the day of `RECOMMEND`, and is held with nothing on its
record that says why. Amounts, names and references are nothing in particular.

**Signing** (every set of cases, callers and register). `SignOffProofs` puts the two together.
`SignOffInv` has two halves: until an approval is requested, the run is the one
`CaseAssessmentProofs` is about and what the approval will rest on is already on it
(`Assessing`); from then on what the approvers were shown stands still (`Shown`), every
signature has its justification (`Signed`), and run, approval and ledger move together
(`Stage`). From it `SignOffTypeCorrect`, `SignaturesAreJustified`, `PresentedRolesAreLeast`
(`MinimumRole` is the least role that covers an amount), `PostingsAreWithinAuthority`,
`RiskyPostingsAreCoSigned` (with `RiskAtRecommend`: what made the case higher-risk is still
known when the approval is requested) and `FailuresWerePresented`.

`SignOffImplementsTheLedger`: `SignOffSpec => SignOffImplementsLedger`, the same abstract
specification that the gate implements, here with a single case: the verdict is the approval's
status, what is posted the ledger. The two models split the gate between them (section 2); that both
refine `DecisionLedger` is what keeps them two views of one thing. Its step condition follows from
`SignOffInv`: `Conclude` finds no approval and nothing posted (`ConcludeAsks`), a signature that
meets the requirement or a rejection finds the approval pending (`AnswerGives`), and
`RecordDecision` a granted one and nothing posted (`RecordPosts`).

**The store** (any number of processes). `StoreSchemaProofs` rests on one fact: the shape is
only ever completed. `Sound` (once there is a `decisions` table it has its column) is kept by
every step, and `ChoseWell` says what a process relies on in each place, however old the
version it read. From it `StoreTypeCorrect`, `OpenStoresAreUsable`, `StampsKeepTheirPromise` and
`OpeningNeverFails`.

**Only model-checked**: liveness (`DriverProgress`, `EveryRunConcludes`, `StoreOpensInTheEnd`),
which the prover does not reach, and that the states of the refuted statements are reached. Every
invariant and every action property of the passing runs is proved.

**Only proved**: `OneDecisionPerInvoice`, which `ImplementsLedger` implies on the run; the type
invariants of `ToolRunner`, `CaseAssessment` (a conjunct of `SignOffTypeOK`, which a run checks)
and `StoreSchema`; and what holds under a hypothesis no run's constants are chosen for
(`UnlimitedCasesAreNeverGranted`, `AnsweredHistoriesAreRead`).

## 5. What the checks found

Four statements of comments and documents that the code does not keep, each with its run
and in `PROJECT.json` under `findings`. The gravest are `claim_stale_write`, where two people
who sign a higher-risk case at the same moment can leave it granted and stuck without any
failure, and `claim_history`, where an unreadable invoice history counts as an empty one.
`StrandedRunsNeverProceed` proves that the first does not mend itself, and
`AnsweredHistoriesAreRead` that the second needs the failed lookup.

More follow from the models and have no run of their own.

Of the gate and the tools:

* A second approver whose call read the approval while it was pending and signs after it was
  granted overwrites `decided_by` and `decided_at` (`persistence/repository.py:688-716`),
  although the requirement "was met without them" (`orchestration/approvals.py:173-178`).
  In the model `Sign` is enabled on a granted approval and `decidedBy` changes.
* The vendor check at decision time reads the record stored in `GATHER_EVIDENCE` and is asked
  of rejections too, so an approved rejection of a blocked vendor's duplicate fails, on "a
  blocking condition that was not present at assessment"
  (`orchestration/phases/execute_decision.py:86-88`) which was.
* A tool's timeout is raised inside `with ThreadPoolExecutor(...)`, whose exit waits for the
  handler (`TimeOut`, then `Close` only when the handler has ended): a tool that never answers
  is waited for, where `tools/base.py:6` says "A tool that does not answer is a failure, not
  a wait."
* A crash between `create_approval` and the run's save, then a resume, asks a second time
  (`docs/specs/2026-09-11-ap-agent-design.md:127` says the only write is idempotent). The
  first request is an orphan, and `OrphansUntouched` shows that it stays harmless.
* A restart forgives the attempts of the phase it interrupts (`tools/base.py:109-111` says
  the budget is not had again): `SpendBounded` is the bound that does hold.
* Refused callbacks that name a delegation spend budget too, so not only the second
  signature (`docs/DESIGN_NOTE.md:96-100`) but also the first can be refused because the
  register can no longer be asked.
* A second run of an invoice that was approved as well conflicts with the first at the ledger
  (`persistence/repository.py:829-840`). `_drive` catches three exceptions and that is none of
  them (`orchestration/machine.py:253-263`), so the run stays at `EXECUTE_DECISION` and every
  resume meets the conflict again, against "There is no condition under which it can run
  indefinitely" (`orchestration/machine.py:225-229`). `OutrunRunsNeverEnd` proves it; hence
  `DriverProgress` is about one run of each invoice.

Of signing and the store:

* A delegation that does not apply (out of date, out of scope, another's) takes away a person's
  own sufficient authority, because any reason makes the verdict insufficient
  (`domain/rules/authority.py:591-594`), where the comment above that line says it "leaves the
  approver on their own authority" and line 460 that a delegation "never removes the
  approver's own". `Sufficient` is what the code does.
* Naming somebody else's delegation, or one that confers an unknown role, leaves no exception on
  the record; an expired or out-of-scope one does.
* The cooling-off is asked of the vendor's creator only, while its docstring and message say
  "creator or last editor" (`domain/rules/segregation.py:192-204`): an edit starts the window
  anew, for the creator.
* Above 1,000,000 a higher-risk case cannot be granted at all: only the CEO covers it and
  records no limit (`claim_cosigner`, `UnlimitedCasesAreNeverGranted`).
* `approver_role` is whatever the callback says (`domain/request.py:235-250`), so
  `SignaturesJustified` is relative to the role claimed.
* The version of a store is read before the database's write lock is taken, so a build that
  knows only an older version may stamp that version again behind a newer one; the model has
  one build at a time, and the proofs say nothing of two.
* Decisions that were on file before the fingerprint column are migrated with an empty
  fingerprint, which the check of `record_decision` leaves out: their invoices are not
  protected against a second posting.

Of the assessment:

* The run is created with the request as it came and redacted in `INTAKE` (`Submit`,
  `IntakeOf`): a process that dies in between leaves the text unredacted in the store, where
  `docs/MANIFEST.md:183` says redaction is "applied before anything is written".
* Masking turns a long number into a masked account with four digits left, which the
  payment-instruction control then reads as an asserted account (`gained`).
* Redaction changes the hash of an altered text, so a redacted attachment no longer matches
  the same document in the history (`intact`).
* `to_invoice` dates an undated invoice by the machine's clock at every call, not by the
  run's clock, so re-evaluating the run from its record (`domain/run_state.py:12-14`) need
  not give the same dates.
* The exception for the first payment after a bank change blocks
  (`first_payment_after_bank_change`), so the case is held and the second approval that the
  same condition asks for is never reached.
* No control compares the vendor of the purchase order with the vendor of the invoice.
* An invoice without lines passes the receipt control on any receipt row, be it of quantity
  zero (`domain/evidence.py:32`) or of a line the order does not have
  (`has_any_receipt`, `domain/rules/matching.py:344`), where line by line it takes a quantity
  above zero (`domain/rules/matching.py:155-167`) and
  `finance_rag_corpus/02_three_way_matching_and_tolerances.md:31` says "An invoice without a
  required receipt cannot be approved for payment". `ApprovedPassedEveryControl` states what
  does hold in each case.
* Two invoice lines of one order line are each compared with all that was received
  (`domain/rules/matching.py:686-687`): together they may invoice more.
* Redaction cuts a text at 2,000 characters before any control reads it
  (`observability/redact.py:70`): an instruction or an account named further on is not seen
  (`lost`), where `orchestration/redaction.py:22-25` says both controls still work and redacting
  is "safe rather than lossy". `KeptTextIsControlled` is what does hold; stated of the whole text
  (`t.says` for `t.says \ t.lost`) TLC refutes it on the `case` instance.

## 6. Not modelled, and why

Prompts, narratives, summaries and citations are wording; recognising a statement in a text
is pattern matching, and the model starts from what was recognised. Retrieval ranks an
immutable index and shares no state with a run. The evaluation harness is not part of the
running system. Timestamps order nothing that the control flow reads, except the order of
signatures, for which `LastSigners` allows every order two clocks can produce.

## 7. Plan

1. (done) `RunPhases`, `ApprovalGate`, `DecisionLedger`, claims; proofs of every safety
   property and of the refinement.
2. (done) `ToolRunner`: attempts, timeouts, budget, crash and resume; the plan of the
   phases against the default budget; proofs.
3. (done) `StoreSchema`: several processes open one store, crashes between statements; proofs.
4. (done) The rules, `CaseAssessment`, claims; proofs of every safety property.
5. (done) `AuthorityRules` and `SignOff`: `validate_approval`, delegation and the cooling-off of
   `check_approval_time`, from the recommendation to the ledger; proofs.
6. (done) `SignOff` implements `DecisionLedger`; the plan's budget for every plan; the states a
   run never leaves; the conditions under which a refuted statement holds.
7. `ModelGateway`: the repair attempt of `complete_structured`.
8. `EventLog`: the sequence of a run's events against its phases.
9. Two runs of one invoice to their end, once the driver turns the conflict into a failure.
