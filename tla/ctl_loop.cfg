SPECIFICATION Spec
CONSTANTS
    Sensor <- LoopSensor
    SensorCfg <- LoopCfg
    Readings <- LoopReadings
    Group = {"all", "disks", "off"}
    GroupCfg <- LoopGroup
    GlobalCritC = 0
    RecoverHysteresisC = 1
    RecoverGoodTicks = 2
    MaxConsecutiveErrors = 1
    MinFanPct = 2
    MaxFanPct = 8
    MaxStepUpPct = 4
    MaxStepDownPct = 2
    MinChangePct = 1
    RampDownHoldTicks = 2
    Unit = 2
    NumZones = 2
    DryRun = FALSE
    Faults = {}
INVARIANTS IInv ZonesFollowCommanded
PROPERTIES RisesAtOnce Settles FailsSafeAndRecovers
