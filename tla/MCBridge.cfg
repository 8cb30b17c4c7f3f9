SPECIFICATION FairSpec
CONSTANTS
    c1 = c1
    c2 = c2
    Client = {c1, c2}
    Address = {"u", "v", "bridge"}
    Asset = {"mt", "asim", "other"}
    FeeAsset = "asim"
    Deposit = {"coin", "asim", "stray", "malformed", "foreign"}
    Tx <- MCTx
    BridgeAddress = "bridge"
    Listed = {"mt", "asim"}
    MaxRows = 2
    MaxRefusals = 1
    MaxTroubles = 1
    MaxPayments = 2
INVARIANTS TypeOK PaidOnce  MintedAsReceived 
PROPERTIES KeepsPromises 
\* When every request is settled, or its loop is dead, the bridge rests.
CHECK_DEADLOCK FALSE
