\* One run, two workers, one crash; a CFO, a Financial Controller, a clerk.
SPECIFICATION Spec
CONSTANTS
    r1 = r1
    r2 = r2
    cfo = cfo
    ceo = ceo
    fc = fc
    clerk = clerk
    None = None
    RunIds = {r1}
    Workers = {w1, w2}
    ApprovalIds = {a1, a2, a3}
    Approvers = {cfo, fc, clerk}
    Primary = {cfo}
    Unlimited = {}
    Delegated = {cfo}
    FinancialControl = {fc}
    Invoices = {r1, r2}
    Invoice <- OwnInvoice
    PossibleOutcomes <- PostOrHold
    HigherRisk <- Either
    BlockedVendor <- Either
    StepBudgets = {6, 12}
    MaxVersion = 10
    MaxCrashes = 1
SYMMETRY ApprovalSymmetry
INVARIANTS
    TypeOK
    DecisionAuthorised
    LimitCovered
    PostedRunsNeverFail
    CompletedMeansPosted
    PendingOnlyAtGate
    AnnouncedAtMostOnce
    OrphansUntouched
    StepsWithinBudget
PROPERTIES
    SettledIsFinal
    RunsOnlyAdvance
    StrandedForGood
CHECK_DEADLOCK FALSE
