SPECIFICATION Spec
CONSTANTS
    Rides = {r1}
    Accounts = {a1}
    Vehicles = {v1}
    Routes = {}
    CycleLines = {"every_2_min", "daily_0605"}
    OptionSets <- MCTracksOnly
    SurveyForms <- MCNoForm
    Distances <- MCShort
    Referrals <- MCNoReferral
    WatchDuration = 1
    SettledGrace = 0
    ForceFloor = 1
    StandDownPoints = 50
    MaxPointsPerRide = 100
    MaxTime = 3
    MaxFaults = 1
CHECK_DEADLOCK FALSE
INVARIANTS TypeOK HeldMeansWaiting EligibleOnFeedEnd NoDenialInWindow
PROPERTIES SettledForever KeepsPromise
