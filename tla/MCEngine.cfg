SPECIFICATION FairSpec
CONSTANTS
    A = A
    B = B
    s1 = s1
    s2 = s2
    b1 = b1
    OrderId = {s1, s2, b1}
    Trader = {A, B}
    Token = {"base", "quote"}
    Order <- MCOrder
    Balance <- MCBalance
    MaxWaiting = 1
    SkipWaiting = 2
    FlushWaiting = 2
    MaxStalled = 1
    MaxRequests = 4
    MaxInflight = 2
    MaxFailures = 1
INVARIANTS TypeOK OrderConserved NoCrossedBook TablesAgree FreezeWithinBalance PendingBacked AccountsSound
PROPERTIES BestPriceFirst ImplementsLedger 
\* The requests are bounded: when they are used up the system stops.
CHECK_DEADLOCK FALSE
