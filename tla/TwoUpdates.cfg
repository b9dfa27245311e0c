SPECIFICATION HistorySpec
CONSTANTS
    Vehicles = {"v1", "v2"}
    CycleLines = {"every_2_min", "daily_0605"}
    Places <- MCPlaces
    BikeIds = {"b1", "b2"}
    Sightings <- MCFewSightings
    AbsentStopAfter = 2
    MinMissedCycles = 1
    SweepWindow = 1
    Threshold = 25
    InPlaceRadius = 50
    JitterRadius = 50
    UnrotatedMove = 100
    FailedStartDecay = 500
    MaxTime = 3
    MaxFaults = 1
CHECK_DEADLOCK FALSE
INVARIANTS OneOpenStop ParkedHasStopUnlessRaced
