\* Liveness of the driver: two workers, one crash, one run.
SPECIFICATION LiveSpec
CONSTANTS
    r1 = r1
    r2 = r2
    cfo = cfo
    ceo = ceo
    fc = fc
    clerk = clerk
    None = None
    RunIds = {r1}
    Workers = {w1, w2}
    ApprovalIds = {a1, a2, a3}
    Approvers = {cfo}
    Primary = {cfo}
    Unlimited = {}
    Delegated = {}
    FinancialControl = {}
    Invoices = {r1, r2}
    Invoice <- OwnInvoice
    PossibleOutcomes <- PostOrHold
    HigherRisk = {FALSE}
    BlockedVendor = {FALSE}
    StepBudgets = {12}
    MaxVersion = 9
    MaxCrashes = 1
PROPERTY DriverProgress
CHECK_DEADLOCK FALSE
