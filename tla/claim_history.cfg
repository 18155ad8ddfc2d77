\* An approval recommended on a duplicate history nobody could read.
SPECIFICATION Spec
CONSTANTS
    t1 = t1
    t2 = t2
    acme = acme
    other = other
    clerk = clerk
    storeman = storeman
    h1 = h1
    None = None
    AccountTails = {t1, t2}
    Cases <- AllCases
    FirstDay = 704
    LastDay = 706
INVARIANT
    ApprovedOnlyOnHistory
CHECK_DEADLOCK FALSE
