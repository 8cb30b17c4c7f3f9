SPECIFICATION FairSpec
CONSTANTS
    A = A
    B = B
    Trader = {A, B}
    Kinds = {"freeze", "move", "unfreeze"}
    MaxOps = 3
    MaxFailures = 1
INVARIANTS TypeOK OneHolder
PROPERTIES NoUpdateLost ChangesEnd
\* When all the changes are made the processes rest.
CHECK_DEADLOCK FALSE
