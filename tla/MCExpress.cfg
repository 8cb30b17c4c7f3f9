SPECIFICATION FairSpec
CONSTANTS
    Unit = 2
    Tick = 2
    Token = {"T", "CNYC"}
    Kinds = {"good", "stray", "unreadable", "unquoted"}
    Pairs <- MCPairs
    BaseAmounts = {1, 3}
    Books <- MCBooks
    Pool <- MCPool
    MaxRows = 2
    MaxTroubles = 1
    MaxPayments = 2
INVARIANTS TypeOK 
PROPERTIES KeepsPromises Served
\* When every request is served, or its loop is dead, the exchange rests.
CHECK_DEADLOCK FALSE
