SPECIFICATION PromptSpec
CONSTANTS
    Rides = {r1}
    Accounts = {a1}
    Vehicles = {v1}
    Routes = {}
    CycleLines = {"every_2_min"}
    OptionSets <- MCTracksOnly
    SurveyForms <- MCNoForm
    Distances <- MCShort
    Referrals <- MCNoReferral
    WatchDuration = 1
    SettledGrace = 0
    ForceFloor = 2
    StandDownPoints = 50
    MaxPointsPerRide = 100
    MaxTime = 4
    MaxFaults = 1
CHECK_DEADLOCK FALSE
INVARIANTS FeedEndAfterStart
PROPERTIES EveryDonationIsDeidentified HeldSettlesUnlessAJobFails
