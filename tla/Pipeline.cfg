SPECIFICATION MCSpec
CONSTANTS
    Parts = {"cycles", "stops", "sla", "servicing", "battery", "payloads", "addresses",
             "photon", "assets", "metrics", "replies"}
    Rows = {a1, a2}
    Procs = {b1, b2}
    IngestLines = {every_2_min, at_06_05}
    MaxCycleRows = 3
    MaxFeedVersions = 2
    RegionWindow = 1
    MaxStopCounts = 2
    SlaProcesses = {"daily", "sweep", "manual"}
    SlaSweeps = {"sweep"}
    FeedReadings <- MCFeedReadings
    MaxFeedReadings = 3
    TrackedFrom = 2
    MaxFeedSamples = 4
    NightWindow = 1
    NightLookback = 2
    LongestRental = 2
    MaxCompleteCycles = 2
    MaxReportMoves = 1
    CityStreets = {"e10", "w10"}
    ApiProcesses = {"p"}
    RowsServed = 1
    RowsAsked = 2
    RowsShort = 1
    MaxCityEdits = 2
    MaxBuilds = 2
    CrossedBuilds = 1
    MaxFileVersions = 3
    HttpRequests = {"q1", "q2", "q3"}
    BufferRows = 2
    PhoneHolders = {"h"}
    RepliesPerPoll = 2
    MaxTextsBack = 3
SYMMETRY MCSymmetry
CHECK_DEADLOCK FALSE
INVARIANTS PipelineTypeOK NothingCountedTwice PublishedWhole
PROPERTIES AddressesWhole
