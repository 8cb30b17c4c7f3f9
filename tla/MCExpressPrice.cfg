SPECIFICATION Spec
CONSTANTS
    Unit = 10
    Tick = 1
    Token = {"T", "U"}
    Kinds = {"good"}
    Pairs <- SwapPairs
    BaseAmounts = {1}
    Books <- SwapBooks
    Pool <- SwapPool
    MaxRows = 1
    MaxTroubles = 0
    MaxPayments = 1
INVARIANTS BookPrice
CHECK_DEADLOCK FALSE
