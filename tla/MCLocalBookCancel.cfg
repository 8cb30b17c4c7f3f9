SPECIFICATION Spec
CONSTANTS
    A = A
    B = B
    Trader = {A, B}
    Kinds = {"cancel", "move"}
    MaxOps = 2
    MaxFailures = 0
PROPERTIES OnlyOrdersFreeze
\* When all the changes are made the processes rest.
CHECK_DEADLOCK FALSE
