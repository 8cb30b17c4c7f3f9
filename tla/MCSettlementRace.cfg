SPECIFICATION Spec
CONSTANTS
    t1 = t1
    t2 = t2
    t3 = t3
    TradeId = {t1, t2}
    Offline = {}
    BatchSize = 2
    CheckTimes = 0
    MaxSends = 2
    MaxFailures = 0
PROPERTIES BatchClosed
CHECK_DEADLOCK FALSE
