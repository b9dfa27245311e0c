------------------------------ MODULE MCRiders ------------------------------
(***************************************************************************)
(* What riders send and are sent, as TLC checks it: claims, watches,        *)
(* reports, checks, features, referrals, off-feed rides, awards, images,    *)
(* saved places, named settings and the limiter at the doors, each a module *)
(* with its bounds below.                                                   *)
(* These parts share no table here.  A behaviour runs one of them, in       *)
(* variables that all of them use in turn.                                  *)
(***************************************************************************)
EXTENDS Naturals, FiniteSets, TLC

CONSTANTS
    Parts,         \* the parts a run explores
    Rows, Actors,  \* interchangeable ids
    Hands,         \* three of them
    Scooters,      \* the scooters that claims are made on
    Problems,      \* the reports on a scooter
    Subscriptions, \* the watches on a scooter
    MaxTexts,      \* the texts a watch has
    MaxTicks,      \* how long a check's day is
    MaxLag,        \* how old a feed is when a check's cycle applies it
    PlacesRestarts \* how often the saved places' keys may be changed

CONSTANTS          \* of the modules below that bear these names
    Features, ToConfirm, Catalogs, AnswerSets, MaxFeatureReports,
    Referrals, Handles,
    OffRides, FixTimes, Places, LegCap, DistanceCap, MaxFixes,
    Payees, AwardScooters, AwardWindow, MaxPhotosPerDevice, CheckDailyCap, MaxAwards, MaxAwardClock,
    Shots, Photos, Receipts, BreakerMinCount,
    PlaceIds, Slots, Coords, Readers, Lists, LegacyRows, MaxKey, MaxPuts,
    Kinds, Names, CapOf,
    LimitOf, WindowTicks, MaxLimitClock

ASSUME BoundsAssumption == MaxTexts \in Nat /\ MaxTicks \in Nat /\ MaxTicks >= 2

ASSUME CapsAssumption ==
    /\ MaxFeatureReports \in Nat /\ LegCap \in Nat /\ DistanceCap \in Nat /\ MaxFixes \in Nat
    /\ AwardWindow \in Nat /\ MaxPhotosPerDevice \in Nat /\ CheckDailyCap \in Nat
    /\ MaxAwards \in Nat /\ MaxAwardClock \in Nat /\ MaxKey \in Nat \ {0}
    /\ WindowTicks \in Nat /\ MaxLimitClock \in Nat
    /\ CapOf \in [Kinds -> Nat] /\ LimitOf \in [{"ip", "account", "phone", "global"} -> Nat]

\* Ids are not the marks that stand for a missing one; the legs of a ride are measured in
\* metres; a report answers every question or leaves it unasked.
ASSUME DataAssumption ==
    /\ "nobody" \notin Actors /\ "no_contact" \notin Actors /\ "no_key" \notin Rows
    /\ Coords \cap {"none", "free"} = {}
    /\ IsFiniteSet(Actors)
    /\ FixTimes \subseteq Nat /\ Places \subseteq Nat
    /\ AnswerSets \subseteq [Features -> {"yes", "poor", "no", "unasked"}]
    /\ Slots \subseteq PlaceIds /\ Lists \subseteq [PlaceIds -> Coords \cup {"none"}]
    /\ LegacyRows \subseteq [favorites : [PlaceIds -> Coords \cup {"none"}],
                            pair : [Slots -> Coords \cup {"none"}]]

VARIABLES part, x1, x2, x3, x4, x5, x6, x7

MCvars == <<part, x1, x2, x3, x4, x5, x6, x7>>

-----------------------------------------------------------------------------
(* The values that TLC gives the constants which are no sets of names or    *)
(* numbers.                                                                 *)

MCSymmetry == Permutations(Rows) \cup Permutations(Actors) \cup Permutations(Hands)

Says(bell, basket) == [f \in {"bell", "basket"} |-> IF f = "bell" THEN bell ELSE basket]
MCCatalogs   == {{}, {"bell"}}
MCAnswerSets == {Says("yes", "no"), Says("no", "poor"), Says("no", "unasked")}

At(home, gym) == [i \in {"home", "gym"} |-> IF i = "home" THEN home ELSE gym]
Pair(spot)    == [i \in {"home"} |-> spot]
MCLists       == {At("none", "none"), At("s1", "none"), At("s2", "s1")}
MCLegacyRows  == {[favorites |-> At("none", "none"), pair |-> Pair("s1")],
                  [favorites |-> At("none", "s1"), pair |-> Pair("none")]}

MCCapOf == [map |-> 2, spec |-> 1]

\* The account's own bucket and the one that every request shares have room for two.
MCLimitOf == [ip |-> 1, account |-> 2, phone |-> 1, global |-> 2]

-----------------------------------------------------------------------------
(* The parts, and their bounds. *)

Dibs == INSTANCE Dibs WITH
    Claims <- Rows, ClaimedVehicles <- Scooters, DibsCycles <- Actors,
    dibs <- x1, called <- x2, watcher <- x3, sent <- x4, quiet <- x5

Watch == INSTANCE AdminWatch WITH
    Watches <- Subscriptions, WatchCycles <- Actors, Spots <- Rows, MaxTextsPerWatch <- MaxTexts,
    MaxLiveWatches <- 1,
    watch <- x1, asked <- x2, confirming <- x3, scan <- x4, told <- x5

Fleet == INSTANCE FleetReports WITH
    Reports <- Problems, ReportPlaces <- Rows,
    vehicle <- x1, report <- x2, since <- x3

Check == INSTANCE ConditionChecks WITH
    Checks <- Rows, Conditions <- Problems, Checkers <- Actors, MaxCheckClock <- MaxTicks,
    MaxFeedLag <- MaxLag,
    clock <- x1, shown <- x2, parked <- x3, rental <- x4, check <- x5, condition <- x6,
    ledger <- x7

Feature == INSTANCE DeviceFeatures WITH log <- x1, features <- x2, standard <- x3

Referral == INSTANCE Referrals WITH
    Riders <- Rows, Contacts <- Actors,
    rider <- x1, referral <- x2, payments <- x3

Ride == INSTANCE OffFeedRides WITH
    Appends <- Actors,
    offRide <- x1, track <- x2, appending <- x3

Award == INSTANCE Awards WITH
    Scooters <- AwardScooters, AwardRequests <- Actors,
    kind <- x1, paid <- x2, asking <- x3, awardClock <- x4

Image == INSTANCE Images WITH
    Keys <- Rows, Uploads <- Actors, PhotosPerDevice <- MaxPhotosPerDevice,
    object <- x1, record <- x2, gone <- x3, cleaning <- x4, upload <- x5, sweep <- x6

Place == INSTANCE SavedPlaces WITH
    MaxRestarts <- PlacesRestarts,
    row <- x1, keys <- x2, reading <- x3, wanted <- x4, excused <- x5, puts <- x6,
    restarts <- x7

Setting == INSTANCE SavedBlobs WITH
    Putters <- Actors,
    saved <- x1, putting <- x2, accountHeld <- x3

Limit == INSTANCE RateLimit WITH
    Callers <- Hands,
    limitClock <- x1, events <- x2, caller <- x3

-----------------------------------------------------------------------------
Spare7 == x7 = {}
Spare6 == x6 = {} /\ Spare7
Spare5 == x5 = {} /\ Spare6
Spare4 == x4 = {} /\ Spare5

MCInit ==
    /\ part \in Parts
    /\ \/ part = "dibs"      /\ Dibs!DibsInit          /\ Spare6
       \/ part = "watches"   /\ Watch!WatchInit        /\ Spare6
       \/ part = "reports"   /\ Fleet!ReportsInit      /\ Spare4
       \/ part = "checks"    /\ Check!ChecksInit
       \/ part = "features"  /\ Feature!FeaturesInit   /\ Spare4
       \/ part = "referrals" /\ Referral!ReferralsInit /\ Spare4
       \/ part = "off_feed"  /\ Ride!OffRidesInit      /\ Spare4
       \/ part = "awards"    /\ Award!AwardsInit       /\ Spare5
       \/ part = "images"    /\ Image!ImagesInit       /\ Spare7
       \/ part = "places"    /\ Place!PlacesInit
       \/ part = "settings"  /\ Setting!BlobsInit      /\ Spare4
       \/ part = "limits"    /\ Limit!LimitInit        /\ Spare4

MCNext ==
    \/ part = "dibs"      /\ Dibs!DibsNext          /\ UNCHANGED <<part, x6, x7>>
    \/ part = "watches"   /\ Watch!WatchNext        /\ UNCHANGED <<part, x6, x7>>
    \/ part = "reports"   /\ Fleet!ReportsNext      /\ UNCHANGED <<part, x4, x5, x6, x7>>
    \/ part = "checks"    /\ Check!ChecksNext       /\ UNCHANGED part
    \/ part = "features"  /\ Feature!FeaturesNext   /\ UNCHANGED <<part, x4, x5, x6, x7>>
    \/ part = "referrals" /\ Referral!ReferralsNext /\ UNCHANGED <<part, x4, x5, x6, x7>>
    \/ part = "off_feed"  /\ Ride!OffRidesNext      /\ UNCHANGED <<part, x4, x5, x6, x7>>
    \/ part = "awards"    /\ Award!AwardsNext       /\ UNCHANGED <<part, x5, x6, x7>>
    \/ part = "images"    /\ Image!ImagesNext       /\ UNCHANGED <<part, x7>>
    \/ part = "places"    /\ Place!PlacesNext       /\ UNCHANGED part
    \/ part = "settings"  /\ Setting!BlobsNext      /\ UNCHANGED <<part, x4, x5, x6, x7>>
    \/ part = "limits"    /\ Limit!LimitNext        /\ UNCHANGED <<part, x4, x5, x6, x7>>

MCSpec == MCInit /\ [][MCNext]_MCvars

-----------------------------------------------------------------------------
(* Properties: those of the parts, brought together. *)

RidersTypeOK ==
    CASE part = "dibs"      -> Dibs!DibsTypeOK
      [] part = "watches"   -> Watch!WatchTypeOK
      [] part = "reports"   -> Fleet!ReportsTypeOK
      [] part = "checks"    -> Check!ChecksTypeOK
      [] part = "features"  -> Feature!FeaturesTypeOK
      [] part = "referrals" -> Referral!ReferralsTypeOK
      [] part = "off_feed"  -> Ride!OffRidesTypeOK
      [] part = "awards"    -> Award!AwardsTypeOK
      [] part = "images"    -> Image!ImagesTypeOK
      [] part = "places"    -> Place!PlacesTypeOK
      [] part = "settings"  -> Setting!BlobsTypeOK
      [] part = "limits"    -> Limit!LimitTypeOK

\* What is entrusted to the service is what the service keeps, through overlapping
\* requests, jobs and crashes: the image of a row, the distance of a ride, the places as
\* they were last edited, the names within their cap, the answers about a scooter whichever
\* way the grading jobs cut them, the last state an admin was told of, and a check for every
\* report that a check holds.
NothingIsLost ==
    /\ part = "images"   => Image!RowKeepsItsImage
    /\ part = "off_feed" => Ride!DistanceIsWholeRideUnlessOvertaken
    /\ part = "places"   => Place!EditsStandUnlessOvertaken
    /\ part = "settings" => Setting!CapBindsNewNamesOnly
    /\ part = "features" => Feature!BatchingDoesNotMatter
    /\ part = "watches"  => Watch!BaselineIsTold
    /\ part = "checks"   => Check!HeldReportHasCheck

\* What is said about a scooter follows what the feed and the riders showed: a report is
\* cleared by a real change only and stands again from its new baseline, a check is given
\* up only by the feed's own clock, a certificate keeps its verdict, and a watch that is
\* over is silent.
ReportsFollowTheFeed ==
    [][/\ part = "reports" => Fleet!OnlyARealChangeClears /\ Fleet!RebaselinedStands
       /\ part = "checks"  => Check!NotGivenUpEarly /\ Check!HeldThroughTheRide
       /\ part = "dibs"    => Dibs!CertificateStands
       /\ part = "watches" => Watch!EndedWatchIsSilent]_MCvars

\* Whatever overlaps, points for anything but a ride are paid by the published rules, each
\* award within its window and caps, a check's bonus after its base and never for a rider's
\* own reports, a referral's two debts once; and no window of a shared limit is overfull,
\* however long a request waits for the lock with its time already read (enforce).
RulesHold ==
    [][/\ part = "awards"    => Award!AwardsWithinRules'
       /\ part = "checks"    => Check!CheckAwardsEarned
       /\ part = "referrals" => Referral!DebtsSettledOnce
       /\ part = "limits"    => Limit!WindowNeverOverfull']_MCvars

\* A claim's holder is texted once at most, through crashes, lost answers and overlapping
\* cycles, and never when the claim had ended or been called "mine" before a text was on
\* its way (dibs_watch._reserve).
Alert == INSTANCE AlertOnce WITH
    Alerts <- Rows,
    alert <- IF part = "dibs" THEN Dibs!AlertOf ELSE [c \in Rows |-> "open"]

TextedOnceOrNotAtAll == Alert!AlertSpec

\* "a client that sends garbage coordinates (or none) still gets its upload stored"
\* (src/api_device_photos.py, _form_coords).
UploadIsStored == part = "images" => Image!UploadIsStored

\* fold_legacy: "A rider who moved house, updated Home in the app, and still has the old
\* coordinates sitting in home_lat must not have the move undone by a migration".
MoveIsNotUndone == part = "places" => Place!MoveIsNotUndone
=============================================================================
