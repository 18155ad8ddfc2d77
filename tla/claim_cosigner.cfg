\* The CEO, whose role has no limit, signs first.
SPECIFICATION Spec
CONSTANTS
    r1 = r1
    r2 = r2
    cfo = cfo
    ceo = ceo
    fc = fc
    clerk = clerk
    None = None
    RunIds = {r1}
    Workers = {w1}
    ApprovalIds = {a1, a2, a3}
    Approvers = {ceo, fc}
    Primary = {ceo}
    Unlimited = {ceo}
    Delegated = {}
    FinancialControl = {fc}
    Invoices = {r1, r2}
    Invoice <- OwnInvoice
    PossibleOutcomes = {"APPROVE_FOR_POSTING"}
    HigherRisk = {TRUE}
    BlockedVendor = {FALSE}
    StepBudgets = {12}
    MaxVersion = 10
    MaxCrashes = 0
PROPERTY CoSignerAdmitted
CHECK_DEADLOCK FALSE
