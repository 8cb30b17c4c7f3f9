SPECIFICATION Spec
CONSTANTS
    t1 = t1
    t2 = t2
    t3 = t3
    TradeId = {t1, t2, t3}
    Offline = {}
    BatchSize = 2
    CheckTimes = 0
    MaxSends = 3
    MaxFailures = 1
SYMMETRY Symmetric
INVARIANTS TypeOK ConfirmedOnce CallsCounted UnfrozenIsConfirmed SuccessfulIsMined
PROPERTIES FinalStays
\* No more trades to make and none to settle: the system rests.
CHECK_DEADLOCK FALSE
