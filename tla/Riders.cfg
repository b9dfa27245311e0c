SPECIFICATION MCSpec
CONSTANTS
    Parts = {"dibs", "watches", "reports", "checks", "features", "referrals", "off_feed",
             "awards", "images", "places", "settings", "limits"}
    Rows = {a1, a2}
    Actors = {b1, b2}
    Hands = {h1, h2, h3}
    Scooters = {"v"}
    Problems = {"r"}
    Subscriptions = {"w"}
    MaxTexts = 2
    MaxTicks = 4
    MaxLag = 1
    PlacesRestarts = 1
    Features = {"bell", "basket"}
    ToConfirm = {"bell"}
    Catalogs <- MCCatalogs
    AnswerSets <- MCAnswerSets
    MaxFeatureReports = 4
    Referrals = {"r"}
    Handles = {"h1", "h2"}
    OffRides = {"o"}
    FixTimes = {1, 2}
    Places = {0, 2, 5}
    LegCap = 3
    DistanceCap = 6
    MaxFixes = 2
    Payees = {"p"}
    AwardScooters = {"v1", "v2"}
    AwardWindow = 1
    MaxPhotosPerDevice = 1
    CheckDailyCap = 1
    MaxAwards = 3
    MaxAwardClock = 3
    Shots = {"s"}
    Photos = {"p"}
    Receipts = {"f"}
    BreakerMinCount = 1
    PlaceIds = {"home", "gym"}
    Slots = {"home"}
    Coords = {"s1", "s2"}
    Readers = {"g"}
    Lists <- MCLists
    LegacyRows <- MCLegacyRows
    MaxKey = 2
    MaxPuts = 2
    Kinds = {"map", "spec"}
    Names = {"n1", "n2", "n3"}
    CapOf <- MCCapOf
    LimitOf <- MCLimitOf
    WindowTicks = 1
    MaxLimitClock = 2
SYMMETRY MCSymmetry
CHECK_DEADLOCK FALSE
INVARIANTS RidersTypeOK NothingIsLost
PROPERTIES TextedOnceOrNotAtAll ReportsFollowTheFeed RulesHold
