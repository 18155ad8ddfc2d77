\* One case of every kind, submitted on a Friday and finished by the Sunday.
SPECIFICATION Spec
CONSTANTS
    t1 = t1
    t2 = t2
    acme = acme
    other = other
    clerk = clerk
    storeman = storeman
    h1 = h1
    None = None
    AccountTails = {t1, t2}
    Cases <- AllCases
    FirstDay = 704
    LastDay = 706
INVARIANTS
    ApprovedPassedEveryControl
    SettledDuplicateNeverHeld
    EscalationSticks
    RiskRemembered
    PostDatedNeverHeldOrApproved
    GapsDisclosed
    ScheduleMeetsTerms
    IndicatorsAreOfThisCase
    KeptTextIsControlled
    EveryOutcomeIsExplained
PROPERTIES
    NothingIsForgotten
CHECK_DEADLOCK FALSE
