SPECIFICATION Spec
CONSTANTS
    s1 = s1
    b1 = b1
    t1 = t1
    t2 = t2
    OrderId = {s1, b1}
    Order <- MCOrder
    TradeId = {t1, t2}
    Deposit = 0
    Epoch = 5
    MaxHours = 1
    MaxFailures = 0
    Coin = 2
    Whole = 10
    Growth <- MCGrowth
    FeeDivisor = 2
PROPERTIES CreditedInFull
CHECK_DEADLOCK FALSE
