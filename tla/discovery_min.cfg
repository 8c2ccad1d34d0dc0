SPECIFICATION DSpec
CONSTANTS
    Probe <- MCProbe
    CustomIds <- MCCustomIds
    MaxEdits = 2
INVARIANTS OnlyHardwareFactsRefresh
CHECK_DEADLOCK FALSE
