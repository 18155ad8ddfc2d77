\* The agent's own plan and budget; the record systems flap, and a process may die.
SPECIFICATION Spec
CONSTANTS
    retrieve = retrieve
    vendor = vendor
    order = order
    history = history
    register = register
    Tools = {retrieve, vendor, order, history, register}
    Register = register
    Plan <- DefaultPlan
    Attempts <- DefaultAttempts
    Answers <- LocalIndex
    Slow = {vendor, order, history, register}
    MaxToolCalls = 16
    Longest = 4
    MostAttempts = 3
    MaxLookups = 2
    MaxCrashes = 2
INVARIANTS
    SpendBounded
    PlanFitsBudget
PROPERTY OneHandlerAtATime
CHECK_DEADLOCK FALSE
