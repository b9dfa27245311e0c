SPECIFICATION HistorySpec
CONSTANTS
    Vehicles = {"v1", "v2"}
    CycleLines = {"every_2_min"}
    Places <- MCPlaces
    BikeIds = {"b1", "b2"}
    Sightings <- MCSightings
    AbsentStopAfter = 1
    MinMissedCycles = 2
    SweepWindow = 1
    Threshold = 25
    InPlaceRadius = 50
    JitterRadius = 50
    UnrotatedMove = 100
    FailedStartDecay = 500
    MaxTime = 4
    MaxFaults = 0
CHECK_DEADLOCK FALSE
INVARIANTS TypeOK StopsDisjoint ParkedHasStopUnlessRaced SweepComplete DwellCountersAgree TripsJoinStops
PROPERTIES AbsentOnlyIfMissed
