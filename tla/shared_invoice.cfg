\* Two runs of one invoice, two workers, one crash; the CFO decides.
SPECIFICATION Spec
CONSTANTS
    r1 = r1
    r2 = r2
    cfo = cfo
    ceo = ceo
    fc = fc
    clerk = clerk
    None = None
    RunIds = {r1, r2}
    Workers = {w1, w2}
    ApprovalIds = {a1, a2, a3, a4}
    Approvers = {cfo}
    Primary = {cfo}
    Unlimited = {}
    Delegated = {}
    FinancialControl = {}
    Invoices = {"INV"}
    Invoice <- OneInvoice
    PossibleOutcomes = {"APPROVE_FOR_POSTING"}
    HigherRisk = {FALSE}
    BlockedVendor = {FALSE}
    StepBudgets = {12}
    MaxVersion = 9
    MaxCrashes = 1
SYMMETRY ApprovalSymmetry
PROPERTIES
    ImplementsLedger
    OutrunForGood
CHECK_DEADLOCK FALSE
