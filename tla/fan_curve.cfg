SPECIFICATION CSpec
CONSTANTS
    Temps = {1, 2, 4}
    Percents = {0, 5, 10}
    MaxPoints = 3
INVARIANTS OnThePolyline WithinTheCurve
PROPERTIES HotterNeverSlower
