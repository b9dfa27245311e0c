SPECIFICATION Spec
CONSTANTS
    Rides = {r1}
    Accounts = {a1}
    Vehicles = {v1}
    Routes = {q1}
    CycleLines = {"every_2_min"}
    OptionSets <- MCAnyDevice
    SurveyForms <- MCFullForm
    Distances <- MCLong
    Referrals <- MCStandDown
    WatchDuration = 1
    SettledGrace = 0
    ForceFloor = 0
    StandDownPoints = 50
    MaxPointsPerRide = 100
    MaxTime = 2
    MaxFaults = 0
CHECK_DEADLOCK FALSE
INVARIANTS RideCap AwardsOnlyIfEligible TrackTotal
