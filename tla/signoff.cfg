\* Twelve cases to the ledger, over two days.
SPECIFICATION SignOffSpec
CONSTANTS
    t1 = t1
    t2 = t2
    acme = acme
    clerk = clerk
    storeman = storeman
    director = director
    cfo = cfo
    ceo = ceo
    fc = fc
    keeper = keeper
    None = None
    AccountTails = {t1, t2}
    Cases <- AllCases
    FirstDay = 704
    LastDay = 705
    Register <- Entries
INVARIANTS
    SignOffTypeOK
    SignaturesJustified
    PostedWithinAuthority
    RiskyPostingsCoSigned
    PresentedRoleIsLeast
    GateFailuresWerePresented
PROPERTIES
    SignOffImplementsLedger
CHECK_DEADLOCK FALSE
