SPECIFICATION Spec
CONSTANTS
    s1 = s1
    b1 = b1
    t1 = t1
    t2 = t2
    OrderId = {s1, b1}
    Order <- MCOrder
    TradeId = {t1, t2}
    Deposit = 1
    Epoch = 5
    MaxHours = 1
    MaxFailures = 1
    Coin = 2
    Whole = 10
    Growth <- MCGrowth
    FeeDivisor = 2
SYMMETRY Symmetric
INVARIANTS TypeOK TablesSound  NeverBoth
\* When the orders are settled and nothing is left to do the system rests.
CHECK_DEADLOCK FALSE
