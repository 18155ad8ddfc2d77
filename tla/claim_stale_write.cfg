\* Two signatures collected at the same time by two workers; nobody crashes.
SPECIFICATION LiveSpec
CONSTANTS
    r1 = r1
    r2 = r2
    cfo = cfo
    ceo = ceo
    fc = fc
    clerk = clerk
    None = None
    RunIds = {r1}
    Workers = {w1, w2}
    ApprovalIds = {a1, a2}
    Approvers = {cfo, fc}
    Primary = {cfo, fc}
    Unlimited = {}
    Delegated = {}
    FinancialControl = {fc}
    Invoices = {r1, r2}
    Invoice <- OwnInvoice
    PossibleOutcomes = {"APPROVE_FOR_POSTING"}
    HigherRisk = {TRUE}
    BlockedVendor = {FALSE}
    StepBudgets = {12}
    MaxVersion = 14
    MaxCrashes = 0
PROPERTY GrantedRunsProceed
CHECK_DEADLOCK FALSE
