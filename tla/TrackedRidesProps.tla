------------------------- MODULE TrackedRidesProps -------------------------
(***************************************************************************)
(* What must be true of tracked rides, and the mapping under which they     *)
(* implement Contribution.                                                  *)
(***************************************************************************)
EXTENDS TrackedRides

Seen(time) == time # Never

\* The in-flight state of an ingest cycle and of the expiry.
CycleRun ==
    [pc : {"idle", "observed", "finalizing"}, snapshot_time : Time,
     checked_out : SUBSET Vehicles, todo : SUBSET Rides]
ExpiryRun == [pc : {"idle", "finalizing"}, todo : SUBSET Rides]

\* Every variable has its type: the columns of the schema, the in-flight jobs.
TypeOK ==
    /\ now \in Time
    /\ tracked_rides \in [Rides -> TrackedRide]
    /\ watch_list \in [Rides -> WatchStatus]
    /\ track_donations \in [Rides -> TrackDonation]
    /\ ride_surveys \subseteq Rides
    /\ ride_routes \in [Routes -> RideRoute]
    /\ user_points \in [Rides -> RideLedger]
    /\ battery_observations \subseteq Rides
    /\ referrals \in [Accounts -> Referrals \cup {"awarded", "none"}]
    /\ cycle \in [CycleLines -> CycleRun]
    /\ expiry \in ExpiryRun
    /\ faults \in 0 .. MaxFaults

\* A ride its rider has not ended, whose vehicle the feed has not shown back and
\* whose watch window is open.
Open(r) ==
    /\ tracked_rides[r].row = "live" /\ ~tracked_rides[r].ended
    /\ ~Seen(tracked_rides[r].gbfs_reappeared_at)
    /\ now < tracked_rides[r].watch_expires_at

\* An account has at most one open ride, however its earlier rides were closed:
\* by the rider, by a cycle or by the clock (start_ride's 409 active_ride_exists).
OneActiveRide ==
    \A r, s \in Rides :
        Open(r) /\ Open(s) /\ tracked_rides[r].account = tracked_rides[s].account => r = s

\* All that one ride earns, from its track now or later and from its survey, stays
\* within MAX_POINTS_PER_RIDE (points._apply_ride_cap).
RideCap == \A r \in Rides : RidePoints(user_points[r]) <= MaxPointsPerRide

\* A donation still linked to its ride is unsettled exactly as long as the ride's
\* status says that the feed is awaited: finalize_validation selects by the two
\* together, and de-identification counts from the settlement.
HeldMeansWaiting ==
    \A r \in Rides : track_donations[r].row = "linked" =>
        /\ tracked_rides[r].row = "live" /\ tracked_rides[r].donated
        /\ track_donations[r].points_settled_at = Never
             <=> tracked_rides[r].validation = "pending_feed"

\* A ride is eligible only after the feed has shown its vehicle back and for a
\* track its rider agreed to save, whoever settled it and however late; and only
\* an eligible ride has given the battery model an observation.
EligibleOnFeedEnd ==
    \A r \in Rides : Live(r) =>
        /\ tracked_rides[r].validation = "eligible" =>
               /\ Seen(tracked_rides[r].gbfs_reappeared_at)
               /\ tracked_rides[r].donated /\ "save_tracks" \in tracked_rides[r].options
        /\ r \in battery_observations => tracked_rides[r].validation = "eligible"

\* A track has earned points only on a ride that is eligible and was not put
\* aside for review, and battery points never on the rider's own device.
AwardsOnlyIfEligible ==
    \A r \in Rides : Live(r) /\ DonationPoints(user_points[r]) > 0 =>
        /\ tracked_rides[r].validation = "eligible"
        /\ track_donations[r].points_status = "ok"
        /\ user_points[r]["battery_contribution"] > 0 =>
               "own_device" \notin tracked_rides[r].options

\* The total on the donation is what the ledger holds for the track: the two
\* settlement paths write it separately.  A donation stamped with a stand-down
\* credit is set aside: finalize_validation overwrites that part.
TrackTotal ==
    \A r \in Rides : track_donations[r].row # "none" /\ track_donations[r].stand_down = 0 =>
        track_donations[r].points_awarded = DonationPoints(user_points[r])

\* A track is denied for want of a feed end only once the watch window is over.
NoDenialInWindow ==
    \A r \in Rides :
        /\ Live(r) /\ "end_mismatch" \in tracked_rides[r].reasons
        /\ ~Seen(tracked_rides[r].gbfs_reappeared_at)
        => tracked_rides[r].watch_expires_at < now

\* The feed has a vehicle back only after it was out and after the ride began:
\* the API documents the two times as "checked out at" and "available again at".
FeedEndAfterStart ==
    \A r \in Rides : Live(r) /\ Seen(tracked_rides[r].gbfs_reappeared_at) =>
        /\ tracked_rides[r].gbfs_reappeared_at >= tracked_rides[r].started
        /\ tracked_rides[r].gbfs_reappeared_at >= tracked_rides[r].gbfs_left_feed_at

-----------------------------------------------------------------------------
Deleted(r) == tracked_rides[r].row = "deleted"
Settled(r) == Live(r) /\ Seen(track_donations[r].points_settled_at)

\* A settled donation keeps its verdict and its settlement time, from which its
\* de-identification counts, until the ride is deleted.
SettledForever ==
    [][\A r \in Rides : Settled(r) =>
           \/ Deleted(r)'
           \/ /\ track_donations'[r].points_settled_at = track_donations[r].points_settled_at
              /\ tracked_rides'[r].validation = tracked_rides[r].validation
              /\ tracked_rides'[r].reasons = tracked_rides[r].reasons]_vars

\* A route that a ride has used is never claimed by another ride: feedback on one
\* route is paid for once.
RouteLinkIsFinal ==
    [][\A q \in Routes, r \in Rides : ride_routes[q].ride = r =>
           ride_routes'[q].ride = r \/ ride_routes'[q].row # "owned"]_vars

-----------------------------------------------------------------------------
Linked(r) == track_donations[r].row = "linked"

\* Every donation loses the link to its rider, however its settlement fares
\* (deidentify_donations and its force floor).
EveryDonationIsDeidentified == \A r \in Rides : Linked(r) ~> ~Linked(r)

\* A held donation settles without the rider having to do anything, unless its ride is
\* deleted first (finalize_validation's docstring), as long as no job has failed: the
\* cycle that sees the vehicle back or the expiry that ends the watch settles it,
\* before it can be de-identified.
HeldSettlesUnlessAJobFails ==
    \A r \in Rides : HeldDonation(r) ~> Deleted(r) \/ Settled(r) \/ faults > 0

-----------------------------------------------------------------------------
(* Refinement. *)

ContributionStage(r) ==
    IF tracked_rides[r].row = "deleted" THEN "withdrawn"
    ELSE IF ~tracked_rides[r].donated THEN "none"
    ELSE IF tracked_rides[r].validation \in {"eligible", "ineligible"}
    THEN tracked_rides[r].validation
    ELSE IF Linked(r) THEN "held" ELSE "lapsed"

Promise == INSTANCE Contribution WITH
    contribution <- [r \in Rides |-> ContributionStage(r)],
    paid <- [r \in Rides |-> DonationPoints(user_points[r])]

\* Tracked rides keep the promise of Contribution: one offer, one final verdict,
\* payment only with it, whatever a donation, a cycle, the expiry, a
\* de-identification and a deletion do in whatever order.
KeepsPromise == Promise!Spec

-----------------------------------------------------------------------------
(* The values that TLC gives the constants of TrackedRides. *)

AllOn == {"save_tracks", "battery_modeling", "nav_improvement", "end_survey"}

\* Riders who share everything, on a rental or on their own device; who save
\* tracks for the battery model only; who save nothing; who only help navigation.
MCAnyDevice  == {AllOn, AllOn \cup {"own_device"}}
MCTracksOnly == {{"save_tracks", "battery_modeling"}}
MCNothing    == {{}}
MCNavOnly    == {{"nav_improvement", "end_survey"}}

\* A survey that answers everything; one is enough, for each ride has one survey.
MCFullForm == {[feedback |-> TRUE, rating |-> TRUE, words |-> 12]}
MCNoForm   == {}

\* A track whose two awards together pass the cap of 100, and a short one.
MCLong  == {80}
MCShort == {1}

MCStandDown  == {"none", "stand_down"}
MCNoReferral == {"none"}
=============================================================================
