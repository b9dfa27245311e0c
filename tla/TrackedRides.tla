---------------------------- MODULE TrackedRides ----------------------------
(***************************************************************************)
(* A tracked ride from its start to the settlement of its donated track.    *)
(*                                                                          *)
(* The rows live in Postgres and each action is one committed transaction:  *)
(* a rider's request (src/api_tracked_rides.py, src/api_ride_surveys.py,    *)
(* src/api_ride_routes.py), one transaction of an ingest cycle's ride watch *)
(* (src/ride_watch.py), or one of a cron job (src/cli.py).  Every writer    *)
(* but the sweeps locks the ride's row, or its ride_validation advisory     *)
(* lock and then its row, before it reads; so a transaction is atomic, and  *)
(* what interleaves is the sequence of transactions of a cycle or a job.    *)
(* A refused request (404, 409, 422, 429) writes nothing and is no action.  *)
(***************************************************************************)
EXTENDS PointsLedger, FiniteSets

CONSTANTS
    Rides, Accounts, Vehicles,
    Routes,           \* ids of ride_routes rows
    CycleLines,       \* crontab lines that start an ingest cycle
    OptionSets,       \* the ride_options a rider may start with
    SurveyForms,      \* the survey payloads a rider may submit
    Distances,        \* verified track distances, in whole km
    Referrals,        \* referral rows an account may have before it rides
    WatchDuration,    \* WATCH_DURATION_HOURS
    SettledGrace,     \* _DEID_SETTLED_GRACE_HOURS
    ForceFloor,       \* _DEID_DONATION_FORCE_FLOOR_HOURS
    StandDownPoints,  \* STAND_DOWN_POINTS_EXISTING
    MaxTime,          \* bound: the clock stops here
    MaxFaults         \* bound: failures and crashes in one behaviour

Never   == -1             \* a NULL timestamp
NoRide  == "no_ride"      \* a NULL tracked_ride_id
NoRoute == "no_route"     \* a NULL ride_route_id
Time    == 0 .. MaxTime

ASSUME ClockAssumption ==
    /\ WatchDuration \in Nat \ {0}
    /\ SettledGrace \in Nat
    /\ ForceFloor \in Nat
    /\ MaxTime \in Nat
    /\ MaxFaults \in Nat
    /\ StandDownPoints \in Nat

Options == {"save_tracks", "battery_modeling", "nav_improvement",
            "end_survey", "own_device"}

ASSUME InputAssumption ==
    /\ OptionSets \subseteq SUBSET Options
    /\ SurveyForms \subseteq [feedback : BOOLEAN, rating : BOOLEAN, words : {0, 6, 12}]
    /\ Distances \subseteq Nat /\ Distances # {}
    /\ Accounts # {} /\ Vehicles # {}
    /\ Referrals \subseteq {"none", "referral", "stand_down"}
    /\ NoRide \notin Rides
    /\ NoRoute \notin Routes

VARIABLES
    now,
    tracked_rides,         \* the row of each ride
    watch_list,            \* user_device_watch_list.status of each ride
    track_donations,       \* the donation of each ride
    ride_surveys,          \* the rides that have a survey row
    ride_routes,           \* the row of each planned route
    user_points,           \* the ledger of each ride
    battery_observations,  \* the rides with a donated battery observation
    referrals,             \* the referral of each account
    cycle,                 \* the ingest cycle each crontab line is running
    expiry,                \* the expire_stale_watches run
    faults                 \* failures and crashes so far

vars == <<now, tracked_rides, watch_list, track_donations, ride_surveys,
          ride_routes, user_points, battery_observations, referrals, cycle,
          expiry, faults>>

settlement == <<tracked_rides, track_donations, user_points, battery_observations>>

-----------------------------------------------------------------------------
(* The tables. *)

RideStatus   == {"watching", "left_feed", "completed", "expired"}
WatchStatus  == {"none", "watching", "left_feed", "resolved", "expired"}
Validation   == {"pending", "pending_feed", "eligible", "ineligible"}
Reasons      == {"tracking_not_opted", "end_mismatch", "track_rejected"}
PointsStatus == {"ok", "pending_review"}

TrackedRide ==
    [row : {"none", "live", "deleted"}, account : Accounts, vehicle : Vehicles,
     options : SUBSET Options, status : RideStatus, started : Time,
     watch_expires_at : Nat, gbfs_left_feed_at : Time \cup {Never},
     gbfs_reappeared_at : Time \cup {Never}, ended : BOOLEAN,
     batteries : BOOLEAN, donated : BOOLEAN, validation : Validation,
     reasons : SUBSET Reasons]

TrackDonation ==
    [row : {"none", "linked", "unlinked"}, donated_at : Time,
     points_settled_at : Time \cup {Never}, points_status : PointsStatus,
     km : Distances, points_awarded : Nat, stand_down : Nat]

RideRoute ==
    [row : {"none", "owned", "unowned"}, account : Accounts,
     ride : Rides \cup {NoRide}, created_at : Time]

BlankRide(state) ==
    [row |-> state, account |-> CHOOSE a \in Accounts : TRUE,
     vehicle |-> CHOOSE v \in Vehicles : TRUE, options |-> {},
     status |-> "watching", started |-> 0, watch_expires_at |-> 0,
     gbfs_left_feed_at |-> Never, gbfs_reappeared_at |-> Never,
     ended |-> FALSE, batteries |-> FALSE, donated |-> FALSE,
     validation |-> "pending", reasons |-> {}]

NoDonation ==
    [row |-> "none", donated_at |-> 0, points_settled_at |-> Never,
     points_status |-> "ok", km |-> CHOOSE d \in Distances : TRUE,
     points_awarded |-> 0, stand_down |-> 0]

BlankRoute ==
    [row |-> "none", account |-> CHOOSE a \in Accounts : TRUE, ride |-> NoRide,
     created_at |-> 0]

Idle == [pc |-> "idle", snapshot_time |-> 0, checked_out |-> {}, todo |-> {}]

Init ==
    /\ now = 0
    /\ tracked_rides = [r \in Rides |-> BlankRide("none")]
    /\ watch_list = [r \in Rides |-> "none"]
    /\ track_donations = [r \in Rides |-> NoDonation]
    /\ ride_surveys = {}
    /\ ride_routes = [q \in Routes |-> BlankRoute]
    /\ user_points = [r \in Rides |-> EmptyLedger]
    /\ battery_observations = {}
    /\ referrals \in [Accounts -> Referrals]
    /\ cycle = [c \in CycleLines |-> Idle]
    /\ expiry = [pc |-> "idle", todo |-> {}]
    /\ faults = 0

Live(r) == tracked_rides[r].row = "live"

-----------------------------------------------------------------------------
(* The rider's requests. *)

\* Mutation: only rides whose vehicle has left the feed count as active.
ActiveOnceLeft(r, t) ==
    /\ Live(r) /\ tracked_rides[r].status = "left_feed"
    /\ ~tracked_rides[r].ended
    /\ tracked_rides[r].gbfs_reappeared_at = Never
    /\ tracked_rides[r].watch_expires_at > t

\* The active-ride predicate start_ride and active_ride share.
Active(r, t) ==
    /\ Live(r) /\ ~tracked_rides[r].ended
    /\ tracked_rides[r].gbfs_reappeared_at = Never
    /\ tracked_rides[r].watch_expires_at > t

HasActiveRide(a) == \E r \in Rides : Active(r, now) /\ tracked_rides[r].account = a

\* Bound: a watch opened later would outlive the clock.
StartBound == now + WatchDuration < MaxTime

\* POST /api/v1/tracked-rides
StartRide(r, a, v, options) ==
    /\ StartBound
    /\ tracked_rides[r].row = "none"
    /\ ~HasActiveRide(a)
    /\ tracked_rides' = [tracked_rides EXCEPT ![r] =
           [BlankRide("live") EXCEPT !.account = a, !.vehicle = v, !.options = options,
               !.started = now, !.watch_expires_at = now + WatchDuration]]
    /\ watch_list' = [watch_list EXCEPT ![r] = "watching"]
    /\ UNCHANGED <<now, track_donations, ride_surveys, ride_routes, user_points,
                   battery_observations, referrals, cycle, expiry, faults>>

\* _provisional_validation: what PATCH .../end can already say, and why.
ProvisionalValidation(ride) ==
    IF "save_tracks" \notin ride.options
    THEN [status |-> "ineligible", reasons |-> {"tracking_not_opted"}]
    ELSE IF ride.gbfs_reappeared_at = Never
    THEN [status |-> "pending_feed", reasons |-> {}]
    ELSE [status |-> "pending", reasons |-> {}]

WithProvisional(ride) ==
    LET provisional == ProvisionalValidation(ride)
    IN  [ride EXCEPT !.validation = provisional.status, !.reasons = provisional.reasons]

MayEnd(r) == Live(r) /\ ~tracked_rides[r].ended

\* PATCH /api/v1/tracked-rides/{ride_id}/end
EndRide(r, batteries) ==
    /\ MayEnd(r)
    /\ tracked_rides' = [tracked_rides EXCEPT ![r] =
           [WithProvisional(@) EXCEPT !.status = "completed", !.ended = TRUE,
               !.batteries = batteries]]
    /\ UNCHANGED <<now, watch_list, track_donations, ride_surveys, ride_routes,
                   user_points, battery_observations, referrals, cycle, expiry, faults>>

\* A route row linked to the ride: the precondition of nav_distance_bonus.
HasRoute(r) == \E q \in Routes : ride_routes[q].row # "none" /\ ride_routes[q].ride = r

\* The preconditions of the two awards a donated track can earn.
BatteryDue(ride) ==
    /\ "battery_modeling" \in ride.options
    /\ "own_device" \notin ride.options
    /\ ride.batteries
NavDue(r) == "nav_improvement" \in tracked_rides[r].options /\ HasRoute(r)

\* The ledger of r after the awards of a track of `km` are credited in turn.
WithDonationAwards(r, km) ==
    LET battery == CreditIf(BatteryDue(tracked_rides[r]), user_points[r],
                            "battery_contribution", BatteryContribution(km))
    IN  CreditIf(NavDue(r), battery, "nav_distance_bonus", NavDistanceBonus(km))

\* What the credits add to the ride's ledger: the points of the rows returned.
Granted(r, ledger) == DonationPoints(ledger) - DonationPoints(user_points[r])

\* Mutation: a verifier that failed is stored as a verdict of its own.
VerdictOfError(ride, clean, matches) ==
    [reasons |-> {}, status |-> IF clean THEN "pending_feed" ELSE "error"]

\* verify_track_chain on a chain it accepts.  `clean` is checks 3, 4, 6 and the
\* start correlation; `matches` the end correlation, read once the feed resolved.
Verdict(ride, clean, matches) ==
    LET resolved == ride.gbfs_reappeared_at # Never
        reasons == (IF clean THEN {} ELSE {"track_rejected"})
                     \cup (IF resolved /\ ~matches THEN {"end_mismatch"} ELSE {})
    IN  [reasons |-> reasons,
         status |-> IF reasons # {} THEN "ineligible"
                    ELSE IF resolved THEN "eligible" ELSE "pending_feed"]

\* settle_referrals_for_account: the newcomer's stand-down is paid by its deadline.
StandDownCredit(a, inTime) ==
    IF referrals[a] = "stand_down" /\ inTime THEN StandDownPoints ELSE 0

\* Mutation: the one-donation-per-ride slot is not checked.
MayDonateAgain(r) ==
    Live(r) /\ tracked_rides[r].ended /\ "save_tracks" \in tracked_rides[r].options

MayDonate(r) ==
    /\ Live(r) /\ tracked_rides[r].ended /\ ~tracked_rides[r].donated
    /\ "save_tracks" \in tracked_rides[r].options

\* Bound: a later donation would reach the force floor after the clock stops.
DonateBound == now + ForceFloor < MaxTime

\* Mutation: points are due whatever the verdict is.
AwardOnAnyVerdict(verdict, points_status) == points_status = "ok"

MayAward(verdict, points_status) == verdict = "eligible" /\ points_status = "ok"

SettledAt(verdict, time) == IF verdict = "pending_feed" THEN Never ELSE time

\* POST /api/v1/tracked-rides/{ride_id}/track
DonateTrack(r, clean, matches, points_status, km, inTime, usable) ==
    LET ride == tracked_rides[r]
        verdict == Verdict(ride, clean, matches)
        standDown == StandDownCredit(ride.account, inTime)
        ledger == IF MayAward(verdict.status, points_status)
                  THEN WithDonationAwards(r, km) ELSE user_points[r]
    IN
    /\ DonateBound
    /\ MayDonate(r)
    /\ tracked_rides' = [tracked_rides EXCEPT ![r].donated = TRUE,
           ![r].validation = verdict.status, ![r].reasons = verdict.reasons]
    /\ track_donations' = [track_donations EXCEPT ![r] =
           [row |-> "linked", donated_at |-> now,
            points_settled_at |-> SettledAt(verdict.status, now),
            points_status |-> points_status, km |-> km,
            points_awarded |-> Granted(r, ledger) + standDown,
            stand_down |-> standDown]]
    /\ user_points' = [user_points EXCEPT ![r] = ledger]
    /\ battery_observations' =
           battery_observations \cup (IF verdict.status = "eligible" /\ usable THEN {r} ELSE {})
    /\ referrals' = [referrals EXCEPT ![ride.account] =
           IF @ = "none" THEN "none" ELSE "awarded"]
    /\ UNCHANGED <<now, watch_list, ride_surveys, ride_routes, cycle, expiry, faults>>

\* Mutation: the route row is not locked, so a survey may claim a linked one.
ClaimableByOwner(q, r) ==
    /\ ride_routes[q].row = "owned"
    /\ ride_routes[q].account = tracked_rides[r].account

\* A survey may name a route its account owns that no other ride is linked to.
Claimable(q, r) ==
    /\ ride_routes[q].row = "owned"
    /\ ride_routes[q].account = tracked_rides[r].account
    /\ ride_routes[q].ride \in {NoRide, r}

\* POST /api/v1/tracked-rides/{ride_id}/survey; q is the ride_route_id it names.
SubmitSurvey(r, q, form) ==
    LET options == tracked_rides[r].options
        survey == CreditIf(form.feedback /\ "end_survey" \in options
                             /\ "own_device" \notin options,
                           user_points[r], "ride_survey", RideSurveyPoints)
        route == CreditIf(form.rating /\ q # NoRoute /\ "nav_improvement" \in options,
                          survey, "nav_route_feedback", NavRouteFeedbackPoints)
    IN
    /\ Live(r) /\ tracked_rides[r].ended
    /\ r \notin ride_surveys
    /\ \/ q = NoRoute /\ UNCHANGED ride_routes
       \/ q \in Routes /\ Claimable(q, r)
            /\ ride_routes' = [ride_routes EXCEPT ![q].ride = r]
    /\ ride_surveys' = ride_surveys \cup {r}
    /\ user_points' = [user_points EXCEPT ![r] =
           CreditIf(form.words # 0 /\ "nav_improvement" \in options, route,
                    "nav_qualitative_feedback", form.words)]
    /\ UNCHANGED <<now, tracked_rides, watch_list, track_donations,
                   battery_observations, referrals, cycle, expiry, faults>>

\* POST /api/v1/ride-routes, before the ride or, with r, during it.
CreateRideRoute(q, a, r) ==
    /\ ride_routes[q].row = "none" /\ ride_routes[q].created_at = 0
    /\ r # NoRide => Live(r) /\ tracked_rides[r].account = a
    /\ ride_routes' = [ride_routes EXCEPT ![q] =
           [row |-> "owned", account |-> a, ride |-> r, created_at |-> now]]
    /\ UNCHANGED <<now, tracked_rides, watch_list, track_donations, ride_surveys,
                   user_points, battery_observations, referrals, cycle, expiry, faults>>

\* DELETE of rides, with the cascades of the schema: the watch, the survey, a
\* donation and a route still linked to a ride go with it.
DeleteRides(gone) ==
    /\ gone # {}
    /\ tracked_rides' = [r \in Rides |->
           IF r \in gone THEN BlankRide("deleted") ELSE tracked_rides[r]]
    /\ watch_list' = [r \in Rides |-> IF r \in gone THEN "none" ELSE watch_list[r]]
    /\ track_donations' = [r \in Rides |->
           IF r \in gone /\ track_donations[r].row = "linked"
           THEN NoDonation ELSE track_donations[r]]
    /\ ride_routes' = [q \in Routes |->
           IF ride_routes[q].ride \in gone
           THEN [BlankRoute EXCEPT !.created_at = MaxTime] ELSE ride_routes[q]]
    /\ ride_surveys' = ride_surveys \ gone
    /\ UNCHANGED <<now, user_points, battery_observations, referrals, cycle,
                   expiry, faults>>

DeleteTrackedRide(r) == Live(r) /\ DeleteRides({r})

DeleteAllTrackedRides(a) ==
    DeleteRides({r \in Rides : Live(r) /\ tracked_rides[r].account = a})

-----------------------------------------------------------------------------
(* finalize_validation: what a pending_feed ride settles to once the feed, or *)
(* the end of its watch window, has answered.  It locks and re-reads the row. *)

\* Mutation: the re-read under the lock does not look at the status again.
AwaitsFeedUnchecked(r) == Live(r) /\ track_donations[r].row = "linked"

AwaitsFeed(r) == Live(r) /\ tracked_rides[r].validation = "pending_feed"

HeldDonation(r) ==
    track_donations[r].row = "linked" /\ track_donations[r].points_settled_at = Never

FinalizeNothing(r) == ~AwaitsFeed(r) /\ UNCHANGED settlement

\* No unsettled donation: refresh the provisional status, a no-op if unchanged.
FinalizeProvisional(r) ==
    /\ AwaitsFeed(r) /\ ~HeldDonation(r)
    /\ tracked_rides' = [tracked_rides EXCEPT ![r] = WithProvisional(@)]
    /\ UNCHANGED <<track_donations, user_points, battery_observations>>

\* Mutation: the late settlement forgets that the feed may never have resolved.
EndMatchesBlindly(ride, matches) == matches

\* Mutation: a denied donation is not stamped as settled.
StampIfEligible(eligible, time) == IF eligible THEN time ELSE Never

\* _gbfs_end_matches: False while the feed has not resolved.
EndMatches(ride, matches) == ride.gbfs_reappeared_at # Never /\ matches

\* points_settled_at is stamped whatever the outcome.
StampSettled(eligible, time) == time

\* A held donation settles, and on eligible the held points are credited.
FinalizeDonation(r, matches, usable) ==
    LET donation == track_donations[r]
        eligible == EndMatches(tracked_rides[r], matches)
        verdict == IF eligible THEN "eligible" ELSE "ineligible"
        ledger == IF MayAward(verdict, donation.points_status)
                  THEN WithDonationAwards(r, donation.km) ELSE user_points[r]
    IN
    /\ AwaitsFeed(r) /\ HeldDonation(r)
    /\ tracked_rides' = [tracked_rides EXCEPT ![r].validation = verdict,
           ![r].reasons = IF eligible THEN {} ELSE {"end_mismatch"}]
    /\ track_donations' = [track_donations EXCEPT
           ![r].points_settled_at = StampSettled(eligible, now),
           ![r].points_awarded = IF Granted(r, ledger) > 0 THEN Granted(r, ledger) ELSE @]
    /\ user_points' = [user_points EXCEPT ![r] = ledger]
    /\ battery_observations' =
           battery_observations \cup (IF eligible /\ usable THEN {r} ELSE {})

FinalizeValidation(r) ==
    \/ FinalizeNothing(r)
    \/ FinalizeProvisional(r)
    \/ \E matches, usable \in BOOLEAN : FinalizeDonation(r, matches, usable)

-----------------------------------------------------------------------------
(* The ingest cycles: cycle.run_once as the ride watch sees it.             *)

\* The cycle stamps its snapshot_time and fetches the feed; checked_out holds the
\* vehicles that are absent from it or listed as reserved (is_checked_out).
CycleFetch(c, checkedOut) ==
    /\ cycle[c].pc = "idle"
    /\ cycle' = [cycle EXCEPT ![c] =
           [pc |-> "observed", snapshot_time |-> now, checked_out |-> checkedOut,
            todo |-> {}]]
    /\ UNCHANGED <<now, watch_list, settlement, ride_surveys, ride_routes, referrals,
                   expiry, faults>>

\* Mutation: a watch resolves although its vehicle was never seen to leave.
ReappearedFromWatching(status, checkedOut) ==
    status \in {"watching", "left_feed"} /\ ~checkedOut

\* _classify, per watch row.
NewlyLeft(status, checkedOut) == status = "watching" /\ checkedOut
NewlyReappeared(status, checkedOut) == status = "left_feed" /\ ~checkedOut

OpenWatches(c) ==
    {r \in Rides : /\ watch_list[r] \in {"watching", "left_feed"}
                   /\ tracked_rides[r].watch_expires_at > cycle[c].snapshot_time}

\* The departure is written only over a ride that is still 'watching'.
MarkLeft(ride, time) ==
    IF ride.status = "watching"
    THEN [ride EXCEPT !.status = "left_feed", !.gbfs_left_feed_at = time]
    ELSE ride

\* update_watches_for_cycle up to its commit.
CycleWatch(c) ==
    LET out(r) == tracked_rides[r].vehicle \in cycle[c].checked_out
        left == {r \in OpenWatches(c) : NewlyLeft(watch_list[r], out(r))}
        back == {r \in OpenWatches(c) : NewlyReappeared(watch_list[r], out(r))}
        seen == cycle[c].snapshot_time
    IN
    /\ cycle[c].pc = "observed"
    /\ watch_list' = [r \in Rides |->
           IF r \in left THEN "left_feed"
           ELSE IF r \in back THEN "resolved" ELSE watch_list[r]]
    /\ tracked_rides' = [r \in Rides |->
           IF r \in left THEN MarkLeft(tracked_rides[r], seen)
           ELSE IF r \in back THEN [tracked_rides[r] EXCEPT !.gbfs_reappeared_at = seen]
           ELSE tracked_rides[r]]
    /\ cycle' = [cycle EXCEPT ![c] =
           IF back = {} THEN Idle ELSE [Idle EXCEPT !.pc = "finalizing", !.todo = back]]
    /\ UNCHANGED <<now, track_donations, ride_surveys, ride_routes, user_points,
                   battery_observations, referrals, expiry, faults>>

CycleRemaining(c, r) ==
    IF cycle[c].todo = {r} THEN Idle ELSE [cycle[c] EXCEPT !.todo = @ \ {r}]

\* Then one transaction per ride that reappeared.
CycleFinalize(c, r) ==
    /\ r \in cycle[c].todo
    /\ FinalizeValidation(r)
    /\ cycle' = [cycle EXCEPT ![c] = CycleRemaining(c, r)]
    /\ UNCHANGED <<now, watch_list, ride_surveys, ride_routes, referrals, expiry, faults>>

\* An exception in it is rolled back and logged, and the next ride is taken.
CycleFinalizeFails(c, r) ==
    /\ faults < MaxFaults
    /\ r \in cycle[c].todo
    /\ cycle' = [cycle EXCEPT ![c] = CycleRemaining(c, r)]
    /\ faults' = faults + 1
    /\ UNCHANGED <<now, watch_list, settlement, ride_surveys, ride_routes, referrals, expiry>>

\* The feed was unavailable or stale, the cycle failed, or its process died.
CycleAbandoned(c) ==
    /\ faults < MaxFaults
    /\ cycle[c].pc # "idle"
    /\ cycle' = [cycle EXCEPT ![c] = Idle]
    /\ faults' = faults + 1
    /\ UNCHANGED <<now, watch_list, settlement, ride_surveys, ride_routes, referrals, expiry>>

-----------------------------------------------------------------------------
(* The cron jobs. *)

\* Mutation: the finisher takes a ride while its window is still open.
WindowElapsedEarly(r) == TRUE

\* Mutation: the finisher skips ended rides, as the ride-side expiry does.
WindowElapsedUnended(r) ==
    tracked_rides[r].watch_expires_at < now /\ ~tracked_rides[r].ended

\* Mutation: the force floor is left to the settlement clock.
DeidOnSettledOnly(d) ==
    d.points_settled_at # Never /\ d.points_settled_at < now - SettledGrace

ExpiringWatch(r) ==
    /\ watch_list[r] \in {"watching", "left_feed"}
    /\ tracked_rides[r].watch_expires_at < now

ExpiringRide(r) ==
    /\ Live(r) /\ tracked_rides[r].status \in {"watching", "left_feed"}
    /\ tracked_rides[r].watch_expires_at < now
    /\ ~tracked_rides[r].ended

WindowElapsed(r) == tracked_rides[r].watch_expires_at < now

StaleRides ==
    {r \in Rides : /\ AwaitsFeed(r) /\ WindowElapsed(r)
                   /\ tracked_rides[r].gbfs_reappeared_at = Never}

\* expire_stale_watches up to its first commit.
ExpireStaleWatches ==
    /\ expiry.pc = "idle"
    /\ watch_list' = [r \in Rides |-> IF ExpiringWatch(r) THEN "expired" ELSE watch_list[r]]
    /\ tracked_rides' = [r \in Rides |->
           IF ExpiringRide(r) THEN [tracked_rides[r] EXCEPT !.status = "expired"]
           ELSE tracked_rides[r]]
    /\ expiry' = IF StaleRides = {} THEN expiry ELSE [pc |-> "finalizing", todo |-> StaleRides]
    /\ UNCHANGED <<now, track_donations, ride_surveys, ride_routes, user_points,
                   battery_observations, referrals, cycle, faults>>

ExpiryRemaining(r) ==
    IF expiry.todo = {r} THEN [pc |-> "idle", todo |-> {}]
    ELSE [expiry EXCEPT !.todo = @ \ {r}]

ExpireFinalize(r) ==
    /\ r \in expiry.todo
    /\ FinalizeValidation(r)
    /\ expiry' = ExpiryRemaining(r)
    /\ UNCHANGED <<now, watch_list, ride_surveys, ride_routes, referrals, cycle, faults>>

ExpireFinalizeFails(r) ==
    /\ faults < MaxFaults
    /\ r \in expiry.todo
    /\ expiry' = ExpiryRemaining(r)
    /\ faults' = faults + 1
    /\ UNCHANGED <<now, watch_list, settlement, ride_surveys, ride_routes, referrals, cycle>>

ExpiryDies ==
    /\ faults < MaxFaults
    /\ expiry.pc # "idle"
    /\ expiry' = [pc |-> "idle", todo |-> {}]
    /\ faults' = faults + 1
    /\ UNCHANGED <<now, watch_list, settlement, ride_surveys, ride_routes, referrals, cycle>>

\* A donation is de-identified SettledGrace after it settled, and ForceFloor after
\* it was made whether or not it ever settles.
DeidDue(d) ==
    \/ d.points_settled_at # Never /\ d.points_settled_at < now - SettledGrace
    \/ d.donated_at < now - ForceFloor

Deidentifiable(r) == track_donations[r].row = "linked" /\ DeidDue(track_donations[r])

RouteDeidentifiable(q) ==
    ride_routes[q].row = "owned" /\ ride_routes[q].created_at < now - ForceFloor

\* deidentify_donations
DeidentifyDonations ==
    /\ \/ \E r \in Rides : Deidentifiable(r)
       \/ \E q \in Routes : RouteDeidentifiable(q)
    /\ track_donations' = [r \in Rides |->
           IF Deidentifiable(r) THEN [track_donations[r] EXCEPT !.row = "unlinked"]
           ELSE track_donations[r]]
    /\ ride_routes' = [q \in Routes |->
           IF RouteDeidentifiable(q) THEN [ride_routes[q] EXCEPT !.row = "unowned", !.ride = NoRide]
           ELSE ride_routes[q]]
    /\ UNCHANGED <<now, tracked_rides, watch_list, ride_surveys, user_points,
                   battery_observations, referrals, cycle, expiry, faults>>

Tick ==
    /\ now < MaxTime
    /\ now' = now + 1
    /\ UNCHANGED <<watch_list, settlement, ride_surveys, ride_routes, referrals,
                   cycle, expiry, faults>>

-----------------------------------------------------------------------------
RiderNext ==
    \/ \E r \in Rides, a \in Accounts, v \in Vehicles, options \in OptionSets :
           StartRide(r, a, v, options)
    \/ \E r \in Rides, batteries \in BOOLEAN : EndRide(r, batteries)
    \/ \E r \in Rides, clean, matches, inTime, usable \in BOOLEAN,
          points_status \in PointsStatus, km \in Distances :
           DonateTrack(r, clean, matches, points_status, km, inTime, usable)
    \/ \E r \in Rides, q \in Routes \cup {NoRoute}, form \in SurveyForms :
           SubmitSurvey(r, q, form)
    \/ \E q \in Routes, a \in Accounts, r \in Rides \cup {NoRide} :
           CreateRideRoute(q, a, r)
    \/ \E r \in Rides : DeleteTrackedRide(r)
    \/ \E a \in Accounts : DeleteAllTrackedRides(a)

CycleNext ==
    \E c \in CycleLines :
        \/ \E checkedOut \in SUBSET Vehicles : CycleFetch(c, checkedOut)
        \/ CycleWatch(c)
        \/ \E r \in Rides : CycleFinalize(c, r) \/ CycleFinalizeFails(c, r)
        \/ CycleAbandoned(c)

CronNext ==
    \/ ExpireStaleWatches
    \/ \E r \in Rides : ExpireFinalize(r) \/ ExpireFinalizeFails(r)
    \/ ExpiryDies
    \/ DeidentifyDonations

Next == RiderNext \/ CycleNext \/ CronNext \/ Tick

Spec == Init /\ [][Next]_vars

\* supercronic starts each job again and again and runs it to its end; that a job
\* fails is a fault of its own, and riders owe nothing.
JobFairness ==
    /\ \A c \in CycleLines :
           /\ WF_vars(\E checkedOut \in SUBSET Vehicles : CycleFetch(c, checkedOut))
           /\ WF_vars(CycleWatch(c))
           /\ \A r \in Rides : WF_vars(CycleFinalize(c, r))
    /\ WF_vars(ExpireStaleWatches)
    /\ \A r \in Rides : WF_vars(ExpireFinalize(r))
    /\ WF_vars(DeidentifyDonations)

\* The crontab runs the cycles every 2 minutes and the expiry every 15, and a unit
\* of the clock is an hour: with a live scheduler an hour does not pass while a
\* job has rides to settle.
JobsDue ==
    \/ \E c \in CycleLines : cycle[c].todo # {}
    \/ expiry.pc # "idle"
    \/ StaleRides \cap {r \in Rides : HeldDonation(r)} # {}

PromptTick == ~JobsDue /\ Tick

PromptNext == RiderNext \/ CycleNext \/ CronNext \/ PromptTick

PromptSpec == Init /\ [][PromptNext]_vars /\ JobFairness /\ WF_vars(PromptTick)
=============================================================================
