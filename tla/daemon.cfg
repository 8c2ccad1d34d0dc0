SPECIFICATION DSpec
CONSTANTS
    Sensor <- OneSensor
    SensorCfg <- OneCfg
    Readings <- OneReadings
    Group = {"main"}
    GroupCfg <- OneGroup
    GlobalCritC = 0
    RecoverHysteresisC = 0
    RecoverGoodTicks = 1
    MaxConsecutiveErrors = 1
    MinFanPct = 1
    MaxFanPct = 2
    MaxStepUpPct = 1
    MaxStepDownPct = 1
    MinChangePct = 1
    RampDownHoldTicks = 1
    Unit = 1
    NumZones = 1
    DryRun = FALSE
    Faults = {"lost", "late"}
    RevertOnExit = TRUE
    SetSpeeds = {50, 101}
    MaxHooks = 2
INVARIANTS DTypeOK ChargeUnlessMeddled GracefulExitHandsBack
PROPERTIES SignalEndsProcess ReplacedAfterKill
