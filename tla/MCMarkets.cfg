SPECIFICATION Spec
CONSTANTS
    Market <- MCMarket
    Seeded <- MCSeeded
    Price = {1, 3}
    Amount = {2}
    Day = 1
    Decade = 10
    MaxTime = 3
    MaxTrades = 2
    MaxChanges = 2
INVARIANTS TypeOK CallsFit 
 
\* When time is over and every trade is called the system rests.
CHECK_DEADLOCK FALSE
