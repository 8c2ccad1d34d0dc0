SPECIFICATION MSpec
CONSTANTS
    QosChoice = {0, 1}
    MaxTicks = 2
    MaxOutages = 1
    MaxWire = 2
INVARIANT NoStalePercent
CHECK_DEADLOCK FALSE
