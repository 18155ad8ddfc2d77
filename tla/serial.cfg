\* One worker: decisions are delivered one at a time, two signatures needed.
SPECIFICATION LiveSpec
CONSTANTS
    r1 = r1
    r2 = r2
    cfo = cfo
    ceo = ceo
    fc = fc
    clerk = clerk
    None = None
    RunIds = {r1}
    Workers = {w1}
    ApprovalIds = {a1}
    Approvers = {cfo, fc}
    Primary = {cfo, fc}
    Unlimited = {}
    Delegated = {}
    FinancialControl = {fc}
    Invoices = {r1, r2}
    Invoice <- OwnInvoice
    PossibleOutcomes <- PostRejectOrHold
    HigherRisk <- Either
    BlockedVendor <- Either
    StepBudgets = {12}
    MaxVersion = 20
    MaxCrashes = 0
PROPERTY EveryRunConcludes
CHECK_DEADLOCK FALSE
