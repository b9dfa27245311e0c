----------------------------- MODULE MCPipeline -----------------------------
(***************************************************************************)
(* What runs behind the riders' calls, as TLC checks it: the cycles with    *)
(* their archive and rollups, the stops' rollup, the compliance row, the    *)
(* servicing log, the battery model's observations, the payload cache, the  *)
(* address index, the geocoder's index, the router's files, the request     *)
(* metrics and the riders' replies, each a module with its bounds below.    *)
(* These parts share no table here.  A behaviour runs one of them, in       *)
(* variables that all of them use in turn.                                  *)
(***************************************************************************)
EXTENDS Naturals, FiniteSets, TLC

CONSTANTS
    Parts,         \* the parts a run explores
    Rows, Procs,   \* interchangeable ids
    \* cycles and stops; the lines of the crontab that run a cycle
    IngestLines, MaxCycleRows, MaxFeedVersions, RegionWindow, MaxStopCounts,
    \* the compliance row: its jobs, and those that work off a list
    SlaProcesses, SlaSweeps,
    \* servicing: what a feed shows, how often, and from which reading on it is tracked
    FeedReadings, MaxFeedReadings, TrackedFrom,
    \* the battery model, in samples
    MaxFeedSamples, NightWindow, NightLookback, LongestRental,
    \* payloads
    MaxCompleteCycles, MaxReportMoves,
    \* the address layer: its streets, the processes that read it, pages in rows
    CityStreets, ApiProcesses, RowsServed, RowsAsked, RowsShort, MaxCityEdits,
    \* map files; builds that are published in spite of jobs that crossed
    MaxBuilds, CrossedBuilds, MaxFileVersions,
    \* request metrics
    HttpRequests, BufferRows,
    \* replies
    PhoneHolders, RepliesPerPoll, MaxTextsBack

VARIABLES part, x1, x2, x3, x4, x5, x6, x7, x8, x9

MCvars == <<part, x1, x2, x3, x4, x5, x6, x7, x8, x9>>

MCSymmetry == Permutations(Rows) \cup Permutations(Procs) \cup Permutations(IngestLines)

-----------------------------------------------------------------------------
(* The parts, and their bounds. *)

Rollup == INSTANCE Rollups WITH
    Lines <- IngestLines, MaxCycles <- MaxCycleRows, MaxFeeds <- MaxFeedVersions,
    RegionStep <- RegionWindow,
    feed <- x1, cycle <- x2, snapshots <- x3, raw <- x4, lake <- x5, archive <- x6,
    overtaken <- x7, watermark <- x8, folded <- x9

StopClose == INSTANCE StopCloses WITH
    Stops <- Rows, MaxCounts <- MaxStopCounts,
    stop <- x1, closes <- x2, swept <- x3, counted <- x4, lateReopen <- x5

Sla == INSTANCE Compliance WITH
    WindowSnapshots <- Rows, SlaJobs <- SlaProcesses, Sweeps <- SlaSweeps,
    figure <- x1, sla <- x2, slaJob <- x3, windowOver <- x4

Service == INSTANCE Servicing WITH
    Seen <- FeedReadings, MaxReadings <- MaxFeedReadings, LoggedFrom <- TrackedFrom,
    readings <- x1, tracker <- x2, serviceLog <- x3, keptUpTo <- x4, replay <- x5,
    disturbed <- x6, visits <- x7, rebuild <- x8

Battery == INSTANCE BatteryTrips WITH
    MaxSamples <- MaxFeedSamples, MineWindow <- NightWindow, MineLookback <- NightLookback,
    MaxSpan <- LongestRental,
    reserved <- x1, rawFrom <- x2, files <- x3, observed <- x4, donation <- x5, mining <- x6,
    fit <- x7

Payload == INSTANCE PayloadCache WITH
    Workers <- Procs, Callers <- Rows, MaxSnapshots <- MaxCompleteCycles,
    MaxReportChanges <- MaxReportMoves,
    newest <- x1, vehicleState <- x2, reportStamp <- x3, memo <- x4, stored <- x5, caller <- x6

Address == INSTANCE AddressIndex WITH
    Streets <- CityStreets, Servers <- ApiProcesses, PageServed <- RowsServed,
    PageAsked <- RowsAsked, Slack <- RowsShort, MaxLayerEdits <- MaxCityEdits,
    layer <- x1, edits <- x2, loading <- x3, streetTable <- x4, streetIndex <- x5,
    looking <- x6, answered <- x7

Photon == INSTANCE PhotonIndex WITH
    IndexJobs <- Procs, MaxBuild <- MaxBuilds,
    published <- x1, disk <- x2, tarball <- x3, marker <- x4, job <- x5, crossed <- x6

Asset == INSTANCE MapAssets WITH
    SyncJobs <- Procs, MaxVersion <- MaxFileVersions,
    remote <- x1, target <- x2, tmp <- x3, etag <- x4, syncing <- x5

Metrics == INSTANCE RequestMetrics WITH
    Requests <- HttpRequests, Flushers <- Procs, BufferCap <- BufferRows,
    unseen <- x1, buffer <- x2, flush <- x3, metric <- x4, forgotten <- x5

Reply == INSTANCE CommsReplies WITH
    Holders <- PhoneHolders, Numbers <- Procs, NoNumber <- "no_number",
    PollLimit <- RepliesPerPoll, MaxReplies <- MaxTextsBack,
    holder <- x1, replies <- x2, inbox <- x3, batch <- x4, stored <- x5, toAck <- x6,
    noting <- x7, astray <- x8

ASSUME PipelineAssumption ==
    /\ {MaxCycleRows, MaxFeedVersions} \subseteq Nat \ {0} /\ RegionWindow \in Nat
    /\ FeedReadings \subseteq Service!Reading
    /\ {MaxFeedReadings, TrackedFrom, MaxFeedSamples, NightWindow, NightLookback, LongestRental} \subseteq Nat
    /\ {MaxCompleteCycles, MaxReportMoves, RowsServed, RowsShort, MaxCityEdits} \subseteq Nat
    /\ {MaxStopCounts, MaxBuilds, MaxFileVersions, RepliesPerPoll, MaxTextsBack} \subseteq Nat
    /\ MaxCompleteCycles # 0 /\ BufferRows \in Nat \ {0} /\ IsFiniteSet(CityStreets)

-----------------------------------------------------------------------------
Spare9 == x9 = {}
Spare8 == x8 = {} /\ Spare9
Spare7 == x7 = {} /\ Spare8
Spare6 == x6 = {} /\ Spare7
Spare5 == x5 = {} /\ Spare6

\* Bound: one build is enough for jobs that cross.
FewCrossed == x1' <= CrossedBuilds \/ ~x6'

\* A vehicle that is low, full, or in a rental, and full in a depot.
Shows(charge, reserved, depot) == [charge |-> charge, reserved |-> reserved, depot |-> depot]
MCFeedReadings == {Shows("low", FALSE, FALSE), Shows("full", FALSE, FALSE),
                   Shows("low", TRUE, FALSE), Shows("full", FALSE, TRUE)}

MCInit ==
    /\ part \in Parts
    /\ \/ part = "cycles"    /\ Rollup!RollupsInit
       \/ part = "stops"     /\ StopClose!StopsInit     /\ Spare6
       \/ part = "sla"       /\ Sla!SlaInit             /\ Spare5
       \/ part = "servicing" /\ Service!ServicingInit   /\ Spare9
       \/ part = "battery"   /\ Battery!BatteryInit     /\ Spare8
       \/ part = "payloads"  /\ Payload!PayloadInit     /\ Spare7
       \/ part = "addresses" /\ Address!AddressInit     /\ Spare8
       \/ part = "photon"    /\ Photon!PhotonInit       /\ Spare7
       \/ part = "assets"    /\ Asset!AssetsInit        /\ Spare6
       \/ part = "metrics"   /\ Metrics!MetricsInit     /\ Spare6
       \/ part = "replies"   /\ Reply!RepliesInit       /\ Spare9

MCNext ==
    \/ part = "cycles"    /\ Rollup!RollupsNext     /\ UNCHANGED part
    \/ part = "stops"     /\ StopClose!StopsNext    /\ UNCHANGED <<part, x6, x7, x8, x9>>
    \/ part = "sla"       /\ Sla!SlaNext            /\ UNCHANGED <<part, x5, x6, x7, x8, x9>>
    \/ part = "servicing" /\ Service!ServicingNext  /\ UNCHANGED <<part, x9>>
    \/ part = "battery"   /\ Battery!BatteryNext    /\ UNCHANGED <<part, x8, x9>>
    \/ part = "payloads"  /\ Payload!PayloadNext    /\ UNCHANGED <<part, x7, x8, x9>>
    \/ part = "addresses" /\ Address!AddressNext    /\ UNCHANGED <<part, x8, x9>>
    \/ part = "photon"    /\ Photon!PhotonNext      /\ FewCrossed /\ UNCHANGED <<part, x7, x8, x9>>
    \/ part = "assets"    /\ Asset!AssetsNext       /\ UNCHANGED <<part, x6, x7, x8, x9>>
    \/ part = "metrics"   /\ Metrics!MetricsNext    /\ UNCHANGED <<part, x6, x7, x8, x9>>
    \/ part = "replies"   /\ Reply!RepliesNext     /\ UNCHANGED <<part, x9>>

MCSpec == MCInit /\ [][MCNext]_MCvars

-----------------------------------------------------------------------------
(* Properties: those of the parts, brought together. *)

PipelineTypeOK ==
    CASE part = "cycles"    -> Rollup!RollupsTypeOK
      [] part = "stops"     -> StopClose!StopsTypeOK
      [] part = "sla"       -> Sla!SlaTypeOK
      [] part = "servicing" -> Service!ServicingTypeOK
      [] part = "battery"   -> Battery!BatteryTypeOK
      [] part = "payloads"  -> Payload!PayloadTypeOK
      [] part = "addresses" -> Address!AddressTypeOK
      [] part = "photon"    -> Photon!PhotonTypeOK
      [] part = "assets"    -> Asset!AssetsTypeOK
      [] part = "metrics"   -> Metrics!MetricsTypeOK
      [] part = "replies"   -> Reply!RepliesTypeOK

\* What is counted is counted once, through crashes, overlapping jobs, replays and
\* backfills: a cycle's snapshot and a stop's close in the rollups, a servicing in the log
\* and a depot visit at a time, a rental in the battery model's fit, a request in the
\* metrics.  A snapshot may be left out, where a cycle of the crontab's other line passed
\* its own over it.
NothingCountedTwice ==
    /\ part = "cycles"    => Rollup!FoldedUnlessPassedOver
    /\ part = "stops"     => StopClose!EachStopCountedOnce
    /\ part = "servicing" => Service!EachServicingLoggedOnce /\ Service!OneVisitAtATime
    /\ part = "battery"   => Battery!FitCountsEachRentalOnce
    /\ part = "metrics"   => Metrics!EachRequestCountedOnce

\* What is kept or served is whole and is what its tag says, wherever a job stops and
\* whichever jobs overlap: the raw rows, a payload, the compliance row, the geocoder's
\* index, a map file, the echo of a rider's STOP.
PublishedWhole ==
    /\ part = "cycles"   => Rollup!RawRowsKeptUnlessOvertaken
    /\ part = "payloads" => Payload!TagIsTrueOfBody
    /\ part = "sla"      => Sla!FigureOrVerdict
    /\ part = "photon"   => Photon!ServedIndexIsWhole
    /\ part = "assets"   => Asset!FileIsAsNoted
    /\ part = "replies"  => Reply!EchoIsHonest

\* The city's address layer is swapped in whole, and never lost from a process that has it
\* (refresh_address_points, street_index).
AddressesWhole == [][part = "addresses" => Address!WholeLayerIndexed]_MCvars

\* lookup, in src/addresses.py: "A directional the rider gave is a HARD filter, never a
\* preference: E 10th Ave and W 10th Ave are different streets, and offering one for the
\* other is the wrong-side-of-town failure this service exists to end".
AnswerIsOnTheStreet == part = "addresses" => Address!AnswerIsOnTheStreet
=============================================================================
