SPECIFICATION HSpec
CONSTANTS
    Sensor <- GuardSensor
    SensorCfg <- GuardCfg
    Readings <- GuardReadings
    Group = {"main"}
    GroupCfg <- GuardGroup
    GlobalCritC = 0
    RecoverHysteresisC = 1
    RecoverGoodTicks = 2
    MaxConsecutiveErrors = 2
    MinFanPct = 2
    MaxFanPct = 5
    MaxStepUpPct = 2
    MaxStepDownPct = 1
    MinChangePct = 1
    RampDownHoldTicks = 2
    Unit = 1
    NumZones = 1
    DryRun = FALSE
    Faults = {"lost", "late"}
INVARIANTS InChargeOnlyInManual NeverBlindForLong
PROPERTIES ResumeWasEarned FallWasHeld FailsSafe
