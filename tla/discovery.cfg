SPECIFICATION DSpec
CONSTANTS
    Probe <- MCProbe
    CustomIds <- MCCustomIds
    MaxEdits = 2
INVARIANTS
    DiscTypeOK
    OnlyCarriedGroupsBreakTheFile
    EditsSurvive
    RequiredIsCurrent
CHECK_DEADLOCK FALSE
