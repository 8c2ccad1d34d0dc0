SPECIFICATION MSpec
CONSTANTS
    QosChoice = {0, 1}
    MaxTicks = 2
    MaxOutages = 1
    MaxWire = 1
INVARIANTS
    MTypeOK
    NothingCutOff
PROPERTIES
    BackOnlyToUnfinished
    OfflineInTheEnd
    KeptDiscoveryArrives
CHECK_DEADLOCK FALSE
