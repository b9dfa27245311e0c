-------------------------- MODULE SettlementProofs --------------------------
(***************************************************************************)
(* The life of a donation, for every value of the constants: it settles     *)
(* only after the feed has answered, once, and for good.                    *)
(*                                                                          *)
(* Lifecycle is the inductive invariant.  HeldMeansWaiting alone is not:    *)
(* that an end report cannot reset the verdict of a donation rests on       *)
(* donations being made after the end, and that a finisher never settles a  *)
(* donation twice rests on a settled ride no longer awaiting the feed, even *)
(* after its donation has lost the link to it.                              *)
(* WindowInv adds that a job's list is never too early, Paid that points    *)
(* follow the verdict; then rides keep Contribution's promise, by steps.    *)
(***************************************************************************)
EXTENDS TrackedRidesProofs

Lifecycle(r) ==
    LET ride == tracked_rides[r]
        donation == track_donations[r]
    IN
    /\ ride.row = "none" => donation = NoDonation /\ r \notin battery_observations
    /\ donation.row = "linked" => Live(r) /\ ride.donated
    /\ donation.row = "linked" /\ donation.points_settled_at = Never =>
           ride.validation = "pending_feed"
    /\ Live(r) =>
           /\ ride.donated => ride.ended /\ "save_tracks" \in ride.options
           /\ ~ride.donated => donation = NoDonation /\ ride.validation # "eligible"
           /\ donation.points_settled_at # Never =>
                  ride.validation \in {"eligible", "ineligible"}
           /\ ride.validation = "eligible" => ride.gbfs_reappeared_at # Never
           /\ r \in battery_observations => ride.validation = "eligible"

Lifecycles == \A r \in Rides : Lifecycle(r)

\* A ride whose rows a step leaves alone keeps its invariant.
LEMMA LifecycleFrame ==
    ASSUME NEW r \in Rides, Lifecycle(r),
           tracked_rides'[r] = tracked_rides[r],
           track_donations'[r] = track_donations[r],
           r \in battery_observations' <=> r \in battery_observations
    PROVE  Lifecycle(r)'
BY DEF Lifecycle, Live

\* So does one of which a step changes only what Lifecycle does not read, or to
\* which it adds the time of a reappearance.
LEMMA LifecycleWatched ==
    ASSUME NEW r \in Rides, Lifecycle(r), UNCHANGED <<track_donations, battery_observations>>,
           tracked_rides'[r].row = tracked_rides[r].row,
           tracked_rides'[r].donated = tracked_rides[r].donated,
           tracked_rides'[r].ended = tracked_rides[r].ended,
           tracked_rides'[r].options = tracked_rides[r].options,
           tracked_rides'[r].validation = tracked_rides[r].validation,
           \/ tracked_rides'[r].gbfs_reappeared_at = tracked_rides[r].gbfs_reappeared_at
           \/ tracked_rides'[r].gbfs_reappeared_at # Never
    PROVE  Lifecycle(r)'
BY DEF Lifecycle, Live

\* No ride has begun.
LEMMA InitLifecycles == Init => Lifecycles
<1> SUFFICES ASSUME Init, NEW r \in Rides PROVE Lifecycle(r)
  BY DEF Lifecycles
<1>1. tracked_rides[r].row = "none" /\ track_donations[r] = NoDonation
  BY DEF Init, BlankRide
<1>2. NoDonation.row = "none"
  BY DEF NoDonation
<1>3. QED
  BY <1>1, <1>2 DEF Init, Lifecycle, Live

\* No clock reading is a NULL timestamp.
LEMMA NowIsNotNever == TypeOK => now # Never
BY ClockAssumption DEF TypeOK, Time, Never

\* A settling transaction keeps the invariant of the ride it settles.
LEMMA FinalizeLifecycle ==
    ASSUME TypeOK, Lifecycles, NEW r \in Rides, FinalizeValidation(r)
    PROVE  Lifecycles'
<1> SUFFICES ASSUME NEW s \in Rides PROVE Lifecycle(s)'
  BY DEF Lifecycles
<1>1. Lifecycle(s)
  BY DEF Lifecycles
<1>2. CASE FinalizeNothing(r)
  BY <1>1, <1>2, LifecycleFrame DEF FinalizeNothing, settlement
<1>3. CASE FinalizeProvisional(r)
  <2>1. CASE s # r
    BY <1>1, <1>3, <2>1, LifecycleFrame DEF FinalizeProvisional, TypeOK
  <2>2. CASE s = r
    <3> DEFINE ride == tracked_rides[r]
    <3>1. ride \in TrackedRide
      BY DEF TypeOK
    <3>2. /\ tracked_rides'[r] = WithProvisional(ride)
          /\ UNCHANGED <<track_donations, battery_observations>>
          /\ ride.validation = "pending_feed" /\ Live(r)
          /\ ~HeldDonation(r)
      BY <1>3 DEF FinalizeProvisional, AwaitsFeed, TypeOK
    <3>3. /\ WithProvisional(ride).row = ride.row
          /\ WithProvisional(ride).donated = ride.donated
          /\ WithProvisional(ride).ended = ride.ended
          /\ WithProvisional(ride).options = ride.options
          /\ WithProvisional(ride).validation \in {"ineligible", "pending_feed", "pending"}
      BY <3>1 DEF WithProvisional, ProvisionalValidation, TrackedRide
    <3>4. QED
      BY <1>1, <2>2, <3>2, <3>3 DEF Lifecycle, Live, HeldDonation
  <2>3. QED
    BY <2>1, <2>2
<1>4. ASSUME NEW matches \in BOOLEAN, NEW usable \in BOOLEAN,
             FinalizeDonation(r, matches, usable)
      PROVE  Lifecycle(s)'
  <2>1. CASE s # r
    BY <1>1, <1>4, <2>1, LifecycleFrame DEF FinalizeDonation, TypeOK
  <2>2. CASE s = r
    <3> DEFINE ride == tracked_rides[r]
               eligible == EndMatches(ride, matches)
               verdict == IF eligible THEN "eligible" ELSE "ineligible"
    <3>1. ride \in TrackedRide /\ track_donations[r] \in TrackDonation
      BY DEF TypeOK
    <3>2. /\ Live(r) /\ HeldDonation(r) /\ ride.validation = "pending_feed"
      BY <1>4 DEF FinalizeDonation, AwaitsFeed
    <3>3. /\ tracked_rides'[r].row = ride.row
          /\ tracked_rides'[r].donated = ride.donated
          /\ tracked_rides'[r].ended = ride.ended
          /\ tracked_rides'[r].options = ride.options
          /\ tracked_rides'[r].gbfs_reappeared_at = ride.gbfs_reappeared_at
          /\ tracked_rides'[r].validation = verdict
      BY <1>4, <3>1 DEF FinalizeDonation, TypeOK, TrackedRide
    <3>4. /\ track_donations'[r].row = "linked"
          /\ track_donations'[r].points_settled_at = now
      BY <1>4, <3>1, <3>2
         DEF FinalizeDonation, TypeOK, TrackDonation, HeldDonation, StampSettled
    <3>5. r \in battery_observations' => verdict = "eligible"
      BY <1>1, <1>4, <2>2, <3>2 DEF FinalizeDonation, Lifecycle
    <3>6. ride.donated
      BY <1>1, <2>2, <3>2 DEF Lifecycle, HeldDonation
    <3>7. QED
      BY <1>1, <2>2, <3>2, <3>3, <3>4, <3>5, <3>6, NowIsNotNever
         DEF Lifecycle, Live, EndMatches
  <2>3. QED
    BY <2>1, <2>2
<1>5. QED
  BY <1>2, <1>3, <1>4 DEF FinalizeValidation

\* Every step keeps it.
LEMMA StepLifecycles == TypeOK /\ Lifecycles /\ [Next]_vars => Lifecycles'
<1> SUFFICES ASSUME TypeOK, Lifecycles, [Next]_vars, NEW s \in Rides
             PROVE  Lifecycle(s)'
  BY DEF Lifecycles
<1>1. Lifecycle(s) /\ tracked_rides[s] \in TrackedRide
  BY DEF Lifecycles, TypeOK
<1>2. CASE UNCHANGED settlement
  BY <1>1, <1>2, LifecycleFrame DEF settlement
<1>3. ASSUME NEW r \in Rides, NEW a \in Accounts, NEW v \in Vehicles,
             NEW options \in OptionSets, StartRide(r, a, v, options)
      PROVE  Lifecycle(s)'
  <2>1. CASE s # r
    BY <1>1, <1>3, <2>1, LifecycleFrame DEF StartRide, TypeOK
  <2>2. CASE s = r
    <3>1. /\ tracked_rides'[r].row = "live"
          /\ tracked_rides'[r].donated = FALSE
          /\ tracked_rides'[r].validation = "pending"
          /\ tracked_rides[r].row = "none"
          /\ UNCHANGED <<track_donations, battery_observations>>
      BY <1>3 DEF StartRide, TypeOK, BlankRide
    <3>2. NoDonation.points_settled_at = Never /\ NoDonation.row = "none"
      BY DEF NoDonation
    <3>3. QED
      BY <1>1, <2>2, <3>1, <3>2 DEF Lifecycle, Live
  <2>3. QED
    BY <2>1, <2>2
<1>4. ASSUME NEW r \in Rides, NEW batteries \in BOOLEAN, EndRide(r, batteries)
      PROVE  Lifecycle(s)'
  <2>1. CASE s # r
    BY <1>1, <1>4, <2>1, LifecycleFrame DEF EndRide, TypeOK
  <2>2. CASE s = r
    <3> DEFINE ride == tracked_rides[r]
    <3>1. /\ tracked_rides'[r].row = ride.row
          /\ tracked_rides'[r].donated = ride.donated
          /\ tracked_rides'[r].validation \in {"ineligible", "pending_feed", "pending"}
      BY <1>1, <1>4, <2>2
         DEF EndRide, TypeOK, WithProvisional, ProvisionalValidation, TrackedRide
    <3>2. ~ride.ended /\ Live(r) /\ UNCHANGED <<track_donations, battery_observations>>
      BY <1>4 DEF EndRide, MayEnd
    <3>3. ~ride.donated
      BY <1>1, <2>2, <3>2 DEF Lifecycle
    <3>4. NoDonation.points_settled_at = Never /\ NoDonation.row = "none"
      BY DEF NoDonation
    <3>5. QED
      BY <1>1, <2>2, <3>1, <3>2, <3>3, <3>4 DEF Lifecycle, Live
  <2>3. QED
    BY <2>1, <2>2
<1>5. ASSUME NEW r \in Rides, NEW clean \in BOOLEAN, NEW matches \in BOOLEAN,
             NEW inTime \in BOOLEAN, NEW usable \in BOOLEAN,
             NEW points_status \in PointsStatus, NEW km \in Distances,
             DonateTrack(r, clean, matches, points_status, km, inTime, usable)
      PROVE  Lifecycle(s)'
  <2>1. CASE s # r
    BY <1>1, <1>5, <2>1, LifecycleFrame DEF DonateTrack, TypeOK
  <2>2. CASE s = r
    <3> DEFINE ride == tracked_rides[r]
               verdict == Verdict(ride, clean, matches)
    <3>1. /\ tracked_rides'[r].row = ride.row
          /\ tracked_rides'[r].donated = TRUE
          /\ tracked_rides'[r].ended = ride.ended
          /\ tracked_rides'[r].options = ride.options
          /\ tracked_rides'[r].gbfs_reappeared_at = ride.gbfs_reappeared_at
          /\ tracked_rides'[r].validation = verdict.status
      BY <1>1, <1>5, <2>2 DEF DonateTrack, TypeOK, TrackedRide
    <3>2. /\ track_donations'[r].row = "linked"
          /\ track_donations'[r].points_settled_at = SettledAt(verdict.status, now)
      BY <1>5 DEF DonateTrack, TypeOK
    <3>3. r \in battery_observations' =>
              r \in battery_observations \/ verdict.status = "eligible"
      BY <1>5 DEF DonateTrack
    <3>4. Live(r) /\ ride.ended /\ ~ride.donated /\ "save_tracks" \in ride.options
      BY <1>5 DEF DonateTrack, MayDonate
    <3>5. /\ verdict.status \in {"eligible", "ineligible", "pending_feed"}
          /\ verdict.status = "eligible" => ride.gbfs_reappeared_at # Never
      BY DEF Verdict
    <3> HIDE DEF verdict
    <3>6. r \notin battery_observations
      BY <1>1, <2>2, <3>4 DEF Lifecycle
    <3>7. QED
      BY <2>2, <3>1, <3>2, <3>3, <3>4, <3>5, <3>6, NowIsNotNever
         DEF Lifecycle, Live, SettledAt
  <2>3. QED
    BY <2>1, <2>2
<1>6. ASSUME NEW gone \in SUBSET Rides, DeleteRides(gone)
      PROVE  Lifecycle(s)'
  <2>1. CASE s \notin gone
    BY <1>1, <1>6, <2>1, LifecycleFrame DEF DeleteRides
  <2>2. CASE s \in gone
    <3>1. tracked_rides'[s].row = "deleted"
      BY <1>6, <2>2 DEF DeleteRides, BlankRide
    <3>2. track_donations'[s].row # "linked"
      BY <1>6, <2>2 DEF DeleteRides, NoDonation
    <3>3. QED
      BY <3>1, <3>2 DEF Lifecycle, Live
  <2>3. QED
    BY <2>1, <2>2
<1>7. ASSUME NEW c \in CycleLines, CycleWatch(c)
      PROVE  Lifecycle(s)'
  <2> DEFINE seen == cycle[c].snapshot_time
  <2>1. seen # Never
    <3>1. cycle[c] \in CycleRun
      BY DEF TypeOK
    <3>2. QED
      BY <3>1 DEF CycleRun, Time, Never
  <2>2. \/ tracked_rides'[s] = tracked_rides[s]
        \/ tracked_rides'[s] = MarkLeft(tracked_rides[s], seen)
        \/ tracked_rides'[s] = [tracked_rides[s] EXCEPT !.gbfs_reappeared_at = seen]
    BY <1>7 DEF CycleWatch
  <2>3. UNCHANGED <<track_donations, battery_observations>>
    BY <1>7 DEF CycleWatch
  <2> HIDE DEF seen
  <2>4. /\ tracked_rides'[s].row = tracked_rides[s].row
        /\ tracked_rides'[s].donated = tracked_rides[s].donated
        /\ tracked_rides'[s].ended = tracked_rides[s].ended
        /\ tracked_rides'[s].options = tracked_rides[s].options
        /\ tracked_rides'[s].validation = tracked_rides[s].validation
        /\ \/ tracked_rides'[s].gbfs_reappeared_at = tracked_rides[s].gbfs_reappeared_at
           \/ tracked_rides'[s].gbfs_reappeared_at = seen
    BY <1>1, <2>2 DEF MarkLeft, TrackedRide
  <2>5. QED
    BY <1>1, <2>1, <2>3, <2>4, LifecycleWatched
<1>8. CASE ExpireStaleWatches
  <2>1. \/ tracked_rides'[s] = tracked_rides[s]
        \/ tracked_rides'[s] = [tracked_rides[s] EXCEPT !.status = "expired"]
    BY <1>8 DEF ExpireStaleWatches
  <2>2. UNCHANGED <<track_donations, battery_observations>>
    BY <1>8 DEF ExpireStaleWatches
  <2>3. QED
    BY <1>1, <2>1, <2>2, LifecycleWatched DEF TrackedRide
<1>9. CASE DeidentifyDonations
  <2>1. UNCHANGED <<tracked_rides, battery_observations>>
    BY <1>9 DEF DeidentifyDonations
  <2>2. CASE Deidentifiable(s)
    <3>1. /\ track_donations'[s].row = "unlinked"
          /\ track_donations'[s].points_settled_at = track_donations[s].points_settled_at
      BY <1>9, <2>2 DEF DeidentifyDonations, TypeOK, TrackDonation
    <3>2. track_donations[s].row = "linked" /\ NoDonation.row = "none"
      BY <2>2 DEF Deidentifiable, NoDonation
    <3>3. QED
      BY <1>1, <2>1, <3>1, <3>2 DEF Lifecycle, Live
  <2>3. CASE ~Deidentifiable(s)
    BY <1>1, <1>9, <2>1, <2>3, LifecycleFrame DEF DeidentifyDonations
  <2>4. QED
    BY <2>2, <2>3
<1>10. CASE RiderNext
  <2>1. ASSUME NEW r \in Rides, NEW q \in Routes \cup {NoRoute}, NEW form \in SurveyForms,
               SubmitSurvey(r, q, form)
        PROVE  Lifecycle(s)'
    BY <1>1, <2>1, LifecycleFrame DEF SubmitSurvey
  <2>2. ASSUME NEW q \in Routes, NEW a \in Accounts, NEW r \in Rides \cup {NoRide},
               CreateRideRoute(q, a, r)
        PROVE  Lifecycle(s)'
    BY <1>1, <2>2, LifecycleFrame DEF CreateRideRoute
  <2>3. ASSUME NEW r \in Rides, DeleteTrackedRide(r) PROVE Lifecycle(s)'
    BY <1>6, <2>3 DEF DeleteTrackedRide
  <2>4. ASSUME NEW a \in Accounts, DeleteAllTrackedRides(a) PROVE Lifecycle(s)'
    BY <1>6, <2>4 DEF DeleteAllTrackedRides
  <2>5. QED
    BY <1>3, <1>4, <1>5, <1>10, <2>1, <2>2, <2>3, <2>4 DEF RiderNext
<1>11. CASE CycleNext
  <2>1. ASSUME NEW c \in CycleLines, NEW r \in Rides, CycleFinalize(c, r)
        PROVE  Lifecycle(s)'
    BY <2>1, FinalizeLifecycle DEF CycleFinalize, Lifecycles
  <2>2. ASSUME NEW c \in CycleLines
        PROVE  /\ \A checkedOut \in SUBSET Vehicles :
                      CycleFetch(c, checkedOut) => UNCHANGED settlement
               /\ \A r \in Rides : CycleFinalizeFails(c, r) => UNCHANGED settlement
               /\ CycleAbandoned(c) => UNCHANGED settlement
    BY DEF CycleFetch, CycleFinalizeFails, CycleAbandoned
  <2>3. QED
    BY <1>2, <1>7, <1>11, <2>1, <2>2 DEF CycleNext
<1>12. CASE CronNext
  <2>1. ASSUME NEW r \in Rides, ExpireFinalize(r) PROVE Lifecycle(s)'
    BY <2>1, FinalizeLifecycle DEF ExpireFinalize, Lifecycles
  <2>2. QED
    BY <1>2, <1>8, <1>9, <1>12, <2>1 DEF CronNext, ExpireFinalizeFails, ExpiryDies
<1>13. CASE Tick \/ UNCHANGED vars
  BY <1>2, <1>13 DEF Tick, vars, settlement
<1>14. QED
  BY <1>10, <1>11, <1>12, <1>13 DEF Next

\* The inductive invariant holds in every behaviour.
THEOREM LifecyclesHold == Spec => []Lifecycles
<1>1. QED
  BY InitLifecycles, StepLifecycles, TypeCorrect, PTL DEF Spec

\* A linked donation is unsettled exactly while its ride awaits the feed.
THEOREM HeldMeansWaitingHolds == Spec => []HeldMeansWaiting
<1>1. Lifecycles => HeldMeansWaiting
  BY DEF Lifecycles, Lifecycle, HeldMeansWaiting, Live
<1>2. QED
  BY <1>1, LifecyclesHold, PTL

\* A ride is eligible, and feeds the battery model, only once the feed has shown
\* its vehicle back and for a track its rider agreed to save.
THEOREM EligibleOnFeedEndHolds == Spec => []EligibleOnFeedEnd
<1>1. Lifecycles => EligibleOnFeedEnd
  BY DEF Lifecycles, Lifecycle, EligibleOnFeedEnd, Live, Seen
<1>2. QED
  BY <1>1, LifecyclesHold, PTL

-----------------------------------------------------------------------------
(* What a step may not do to a settled donation. *)

\* The verdict, its reasons and the settlement time of r.
Outcome(r) ==
    <<track_donations[r].points_settled_at, tracked_rides[r].validation,
      tracked_rides[r].reasons>>

\* A settled ride is not awaiting the feed, has ended and has donated.
LEMMA SettledFacts ==
    ASSUME TypeOK, Lifecycles, NEW r \in Rides, Settled(r)
    PROVE  ~AwaitsFeed(r) /\ tracked_rides[r].ended /\ tracked_rides[r].donated
<1>1. NoDonation.points_settled_at = Never
  BY DEF NoDonation
<1>2. QED
  BY <1>1 DEF Lifecycles, Lifecycle, Settled, Seen, AwaitsFeed

\* A transaction that settles one ride leaves every settled one alone.
LEMMA FinalizeKeepsOutcome ==
    ASSUME TypeOK, Lifecycles, NEW r \in Rides, FinalizeValidation(r),
           NEW s \in Rides, Settled(s)
    PROVE  UNCHANGED Outcome(s)
<1>1. CASE FinalizeNothing(r)
  BY <1>1 DEF FinalizeNothing, settlement, Outcome
<1>2. CASE AwaitsFeed(r)
  <2>1. s # r
    BY <1>2, SettledFacts
  <2>2. /\ tracked_rides'[s] = tracked_rides[s]
        /\ track_donations'[s] = track_donations[s]
    BY <1>2, <2>1 DEF FinalizeValidation, FinalizeNothing, FinalizeProvisional,
                      FinalizeDonation, TypeOK
  <2>3. QED
    BY <2>2 DEF Outcome
<1>3. QED
  BY <1>1, <1>2 DEF FinalizeValidation, FinalizeProvisional, FinalizeDonation

\* Every step keeps the outcome of a settled donation, or deletes its ride.
LEMMA StepKeepsOutcome ==
    ASSUME TypeOK, Lifecycles, [Next]_vars, NEW s \in Rides, Settled(s)
    PROVE  Deleted(s)' \/ UNCHANGED Outcome(s)
<1>1. /\ Live(s) /\ tracked_rides[s].ended /\ tracked_rides[s].donated
      /\ tracked_rides[s] \in TrackedRide /\ track_donations[s] \in TrackDonation
  BY SettledFacts DEF Settled, TypeOK
<1>2. ASSUME tracked_rides'[s] = tracked_rides[s], track_donations'[s] = track_donations[s]
      PROVE  UNCHANGED Outcome(s)
  BY <1>2 DEF Outcome
<1>3. CASE UNCHANGED settlement
  BY <1>2, <1>3 DEF settlement
<1>4. CASE RiderNext
  <2>1. ASSUME NEW r \in Rides, NEW a \in Accounts, NEW v \in Vehicles,
               NEW options \in OptionSets, StartRide(r, a, v, options)
        PROVE  UNCHANGED Outcome(s)
    <3>1. s # r
      BY <1>1, <2>1 DEF StartRide, Live
    <3>2. QED
      BY <1>2, <2>1, <3>1 DEF StartRide, TypeOK
  <2>2. ASSUME NEW r \in Rides, NEW batteries \in BOOLEAN, EndRide(r, batteries)
        PROVE  UNCHANGED Outcome(s)
    <3>1. s # r
      BY <1>1, <2>2 DEF EndRide, MayEnd
    <3>2. QED
      BY <1>2, <2>2, <3>1 DEF EndRide, TypeOK
  <2>3. ASSUME NEW r \in Rides, NEW clean \in BOOLEAN, NEW matches \in BOOLEAN,
               NEW inTime \in BOOLEAN, NEW usable \in BOOLEAN,
               NEW points_status \in PointsStatus, NEW km \in Distances,
               DonateTrack(r, clean, matches, points_status, km, inTime, usable)
        PROVE  UNCHANGED Outcome(s)
    <3>1. s # r
      BY <1>1, <2>3 DEF DonateTrack, MayDonate
    <3>2. QED
      BY <1>2, <2>3, <3>1 DEF DonateTrack, TypeOK
  <2>4. ASSUME NEW r \in Rides, NEW q \in Routes \cup {NoRoute}, NEW form \in SurveyForms,
               SubmitSurvey(r, q, form)
        PROVE  UNCHANGED Outcome(s)
    BY <1>2, <2>4 DEF SubmitSurvey
  <2>5. ASSUME NEW q \in Routes, NEW a \in Accounts, NEW r \in Rides \cup {NoRide},
               CreateRideRoute(q, a, r)
        PROVE  UNCHANGED Outcome(s)
    BY <1>2, <2>5 DEF CreateRideRoute
  <2>6. ASSUME NEW gone \in SUBSET Rides, DeleteRides(gone)
        PROVE  Deleted(s)' \/ UNCHANGED Outcome(s)
    BY <1>2, <2>6 DEF DeleteRides, Deleted, BlankRide
  <2>7. /\ \A r \in Rides : DeleteTrackedRide(r) => Deleted(s)' \/ UNCHANGED Outcome(s)
        /\ \A a \in Accounts : DeleteAllTrackedRides(a) =>
               Deleted(s)' \/ UNCHANGED Outcome(s)
    BY <2>6 DEF DeleteTrackedRide, DeleteAllTrackedRides
  <2>8. QED
    BY <1>4, <2>1, <2>2, <2>3, <2>4, <2>5, <2>7 DEF RiderNext
<1>5. CASE CycleNext
  <2>1. ASSUME NEW c \in CycleLines, CycleWatch(c)
        PROVE  UNCHANGED Outcome(s)
    <3>1. \/ tracked_rides'[s] = tracked_rides[s]
          \/ tracked_rides'[s] = MarkLeft(tracked_rides[s], cycle[c].snapshot_time)
          \/ tracked_rides'[s] = [tracked_rides[s] EXCEPT
                                      !.gbfs_reappeared_at = cycle[c].snapshot_time]
      BY <2>1 DEF CycleWatch
    <3>2. UNCHANGED track_donations
      BY <2>1 DEF CycleWatch
    <3>3. QED
      BY <1>1, <3>1, <3>2 DEF Outcome, MarkLeft, TrackedRide
  <2>2. ASSUME NEW c \in CycleLines, NEW r \in Rides, CycleFinalize(c, r)
        PROVE  UNCHANGED Outcome(s)
    BY <2>2, FinalizeKeepsOutcome DEF CycleFinalize
  <2>3. ASSUME NEW c \in CycleLines
        PROVE  /\ \A checkedOut \in SUBSET Vehicles :
                      CycleFetch(c, checkedOut) => UNCHANGED settlement
               /\ \A r \in Rides : CycleFinalizeFails(c, r) => UNCHANGED settlement
               /\ CycleAbandoned(c) => UNCHANGED settlement
    BY DEF CycleFetch, CycleFinalizeFails, CycleAbandoned
  <2>4. QED
    BY <1>3, <1>5, <2>1, <2>2, <2>3 DEF CycleNext
<1>6. CASE CronNext
  <2>1. CASE ExpireStaleWatches
    <3>1. \/ tracked_rides'[s] = tracked_rides[s]
          \/ tracked_rides'[s] = [tracked_rides[s] EXCEPT !.status = "expired"]
      BY <2>1 DEF ExpireStaleWatches
    <3>2. UNCHANGED track_donations
      BY <2>1 DEF ExpireStaleWatches
    <3>3. QED
      BY <1>1, <3>1, <3>2 DEF Outcome, TrackedRide
  <2>2. CASE DeidentifyDonations
    <3>1. UNCHANGED tracked_rides
      BY <2>2 DEF DeidentifyDonations
    <3>2. \/ track_donations'[s] = track_donations[s]
          \/ track_donations'[s] = [track_donations[s] EXCEPT !.row = "unlinked"]
      BY <2>2 DEF DeidentifyDonations
    <3>3. QED
      BY <1>1, <3>1, <3>2 DEF Outcome, TrackDonation
  <2>3. ASSUME NEW r \in Rides, ExpireFinalize(r)
        PROVE  UNCHANGED Outcome(s)
    BY <2>3, FinalizeKeepsOutcome DEF ExpireFinalize
  <2>4. QED
    BY <1>3, <1>6, <2>1, <2>2, <2>3 DEF CronNext, ExpireFinalizeFails, ExpiryDies
<1>7. CASE Tick \/ UNCHANGED vars
  BY <1>3, <1>7 DEF Tick, vars, settlement
<1>8. QED
  BY <1>4, <1>5, <1>6, <1>7 DEF Next

\* A settled donation keeps its verdict, its reasons and its settlement time until
\* its ride is deleted, in every interleaving of any number of rides and cycles.
THEOREM SettledForeverHolds == Spec => SettledForever
<1> DEFINE VerdictKept == \A r \in Rides : Settled(r) =>
               \/ Deleted(r)'
               \/ /\ track_donations'[r].points_settled_at = track_donations[r].points_settled_at
                  /\ tracked_rides'[r].validation = tracked_rides[r].validation
                  /\ tracked_rides'[r].reasons = tracked_rides[r].reasons
<1>1. TypeOK /\ Lifecycles /\ [Next]_vars => VerdictKept
  BY StepKeepsOutcome DEF Outcome
<1>2. TypeOK /\ Lifecycles /\ [Next]_vars => [VerdictKept]_vars
  BY <1>1
<1>3. Spec => [][VerdictKept]_vars
  BY <1>2, TypeCorrect, LifecyclesHold, PTL DEF Spec
<1>4. QED
  BY <1>3 DEF SettledForever

-----------------------------------------------------------------------------
(* A denial for want of a feed end.  NoDenialInWindow is not inductive: that *)
(* a finisher which finds no return comes after the window rests on how the  *)
(* ride came into its hands.                                                 *)

WindowInv(r) ==
    LET ride == tracked_rides[r] IN
    /\ watch_list[r] # "none" => Live(r)
    /\ r \in expiry.todo =>
           /\ ride.row # "none"
           /\ Live(r) => ride.watch_expires_at < now
    /\ \A c \in CycleLines : r \in cycle[c].todo =>
           /\ ride.row # "none"
           /\ Live(r) => ride.gbfs_reappeared_at # Never
    /\ Live(r) /\ "end_mismatch" \in ride.reasons /\ ride.gbfs_reappeared_at = Never =>
           ride.watch_expires_at < now

WindowInvs == \A r \in Rides : WindowInv(r)

\* How a ride comes to be watched, and into the hands of the two finishers.
LEMMA JobsEffect ==
    ASSUME TypeOK, [Next]_vars, NEW s \in Rides
    PROVE  /\ watch_list'[s] # "none" => watch_list[s] # "none" \/ Starts(s)
           /\ s \in expiry'.todo => s \in expiry.todo \/ s \in StaleRides
           /\ \A c \in CycleLines : s \in cycle'[c].todo =>
                  \/ s \in cycle[c].todo
                  \/ watch_list[s] # "none" /\ tracked_rides'[s].gbfs_reappeared_at # Never
<1> DEFINE Watch == watch_list'[s] # "none" => watch_list[s] # "none" \/ Starts(s)
           Expiry == s \in expiry'.todo => s \in expiry.todo \/ s \in StaleRides
           Cycles == \A c \in CycleLines : s \in cycle'[c].todo =>
                  \/ s \in cycle[c].todo
                  \/ watch_list[s] # "none" /\ tracked_rides'[s].gbfs_reappeared_at # Never
<1>1. CASE RiderNext
  <2>1. ASSUME NEW r \in Rides, NEW a \in Accounts, NEW v \in Vehicles,
               NEW options \in OptionSets, StartRide(r, a, v, options)
        PROVE  Watch /\ UNCHANGED <<expiry, cycle>>
    <3>1. CASE s = r
      BY <2>1, <3>1 DEF StartRide, Starts
    <3>2. CASE s # r
      BY <2>1, <3>2 DEF StartRide, TypeOK
    <3>3. QED
      BY <3>1, <3>2
  <2>2. ASSUME NEW r \in Rides, NEW clean, NEW matches, NEW inTime, NEW usable,
               NEW points_status, NEW km,
               DonateTrack(r, clean, matches, points_status, km, inTime, usable)
        PROVE  Watch /\ UNCHANGED <<expiry, cycle>>
    BY <2>2 DEF DonateTrack
  <2>3. ASSUME NEW r \in Rides, NEW q, NEW form, SubmitSurvey(r, q, form)
        PROVE  Watch /\ UNCHANGED <<expiry, cycle>>
    BY <2>3 DEF SubmitSurvey
  <2>4. ASSUME NEW gone \in SUBSET Rides, DeleteRides(gone)
        PROVE  Watch /\ UNCHANGED <<expiry, cycle>>
    BY <2>4 DEF DeleteRides
  <2>5. ASSUME NEW r \in Rides, NEW batteries, EndRide(r, batteries)
        PROVE  Watch /\ UNCHANGED <<expiry, cycle>>
    BY <2>5 DEF EndRide
  <2>6. ASSUME NEW q, NEW a, NEW r, CreateRideRoute(q, a, r)
        PROVE  Watch /\ UNCHANGED <<expiry, cycle>>
    BY <2>6 DEF CreateRideRoute
  <2> HIDE DEF Watch
  <2>7. QED
    BY <1>1, <2>1, <2>2, <2>3, <2>4, <2>5, <2>6
       DEF RiderNext, DeleteTrackedRide, DeleteAllTrackedRides, Watch
<1>2. CASE CycleNext
  <2>1. ASSUME NEW c \in CycleLines, CycleWatch(c)
        PROVE  Watch /\ Cycles /\ UNCHANGED expiry
    <3> DEFINE seen == cycle[c].snapshot_time
               out(r) == tracked_rides[r].vehicle \in cycle[c].checked_out
               back == {r \in OpenWatches(c) : NewlyReappeared(watch_list[r], out(r))}
               left == {r \in OpenWatches(c) : NewlyLeft(watch_list[r], out(r))}
    <3>1. seen # Never /\ tracked_rides[s] \in TrackedRide
      <4>1. cycle[c] \in CycleRun
        BY DEF TypeOK
      <4>2. QED
        BY <4>1 DEF CycleRun, Time, Never, TypeOK
    <3>2. s \in left \/ s \in back => watch_list[s] # "none"
      BY DEF OpenWatches
    <3>3. Watch /\ UNCHANGED expiry
      BY <2>1, <3>2 DEF CycleWatch
    <3>4. ASSUME s \in back
          PROVE  tracked_rides'[s].gbfs_reappeared_at # Never
      <4>1. s \notin left
        BY <3>4 DEF NewlyLeft, NewlyReappeared
      <4> HIDE DEF left, back, seen
      <4>2. tracked_rides' = [r \in Rides |->
               IF r \in left THEN MarkLeft(tracked_rides[r], seen)
               ELSE IF r \in back THEN [tracked_rides[r] EXCEPT !.gbfs_reappeared_at = seen]
               ELSE tracked_rides[r]]
        BY <2>1 DEF CycleWatch, left, back, seen
      <4>3. tracked_rides'[s] = [tracked_rides[s] EXCEPT !.gbfs_reappeared_at = seen]
        BY <3>4, <4>1, <4>2
      <4>4. QED
        BY <3>1, <4>3 DEF TrackedRide
    <3>5. ASSUME NEW d \in CycleLines, s \in cycle'[d].todo
          PROVE  s \in cycle[d].todo \/ s \in back
      <4>1. cycle' = [cycle EXCEPT ![c] =
                IF back = {} THEN Idle ELSE [Idle EXCEPT !.pc = "finalizing", !.todo = back]]
        BY <2>1 DEF CycleWatch
      <4> HIDE DEF back
      <4>2. Idle.todo = {} /\ [Idle EXCEPT !.pc = "finalizing", !.todo = back].todo = back
        BY DEF Idle
      <4>3. QED
        BY <3>5, <4>1, <4>2 DEF TypeOK
    <3>6. QED
      BY <3>2, <3>3, <3>4, <3>5
  <2>2. ASSUME NEW c \in CycleLines, NEW r \in Rides,
               CycleFinalize(c, r) \/ CycleFinalizeFails(c, r)
        PROVE  Cycles /\ UNCHANGED <<watch_list, expiry>>
    <3>1. cycle' = [cycle EXCEPT ![c] = CycleRemaining(c, r)]
      BY <2>2 DEF CycleFinalize, CycleFinalizeFails
    <3>2. cycle[c] \in CycleRun /\ Idle.todo = {}
      BY DEF TypeOK, Idle
    <3>3. CycleRemaining(c, r).todo \subseteq cycle[c].todo
      BY <3>2 DEF CycleRemaining, CycleRun
    <3>4. QED
      BY <2>2, <3>1, <3>3 DEF CycleFinalize, CycleFinalizeFails, TypeOK
  <2>3. ASSUME NEW c \in CycleLines,
               CycleAbandoned(c) \/ \E checkedOut \in SUBSET Vehicles : CycleFetch(c, checkedOut)
        PROVE  Cycles /\ UNCHANGED <<watch_list, expiry>>
    <3>1. \A d \in CycleLines : cycle'[d].todo \in {cycle[d].todo, {}}
      BY <2>3 DEF CycleAbandoned, CycleFetch, TypeOK, Idle
    <3>2. QED
      BY <2>3, <3>1 DEF CycleAbandoned, CycleFetch
  <2>4. QED
    BY <1>2, <2>1, <2>2, <2>3 DEF CycleNext
<1>3. CASE CronNext
  <2>1. ASSUME NEW r \in Rides, ExpireFinalize(r) \/ ExpireFinalizeFails(r)
        PROVE  Expiry /\ UNCHANGED <<watch_list, cycle>>
    BY <2>1 DEF ExpireFinalize, ExpireFinalizeFails, ExpiryRemaining, TypeOK, ExpiryRun
  <2>2. ASSUME ExpireStaleWatches
        PROVE  Watch /\ Expiry /\ UNCHANGED cycle
    <3>1. Watch /\ UNCHANGED cycle
      BY <2>2 DEF ExpireStaleWatches, ExpiringWatch
    <3>2. Expiry
      BY <2>2 DEF ExpireStaleWatches
    <3>3. QED
      BY <3>1, <3>2
  <2>3. ASSUME ExpiryDies \/ DeidentifyDonations
        PROVE  Expiry /\ UNCHANGED <<watch_list, cycle>>
    <3>1. expiry' = [pc |-> "idle", todo |-> {}] \/ UNCHANGED expiry
      BY <2>3 DEF ExpiryDies, DeidentifyDonations
    <3>2. Expiry
      BY <3>1
    <3>3. QED
      BY <2>3, <3>2 DEF ExpiryDies, DeidentifyDonations
  <2>4. QED
    BY <1>3, <2>1, <2>2, <2>3 DEF CronNext
<1>4. CASE Tick \/ UNCHANGED vars
  BY <1>4 DEF Tick, vars
<1>5. QED
  BY <1>1, <1>2, <1>3, <1>4 DEF Next

\* Every step keeps it.
LEMMA StepWindow == TypeOK /\ WindowInvs /\ [Next]_vars => WindowInvs'
<1> SUFFICES ASSUME TypeOK, WindowInvs, [Next]_vars, NEW s \in Rides
             PROVE  WindowInv(s)'
  BY DEF WindowInvs
<1> DEFINE ride == tracked_rides[s]
<1>1. WindowInv(s) /\ ride \in TrackedRide /\ ride.watch_expires_at \in Nat
  BY DEF WindowInvs, TypeOK, TrackedRide
<1>2. now \in Nat /\ now' \in Nat /\ now <= now'
  BY ClockRises
<1>3. s \in StaleRides => Live(s) /\ ride.watch_expires_at < now
  BY DEF StaleRides, AwaitsFeed, WindowElapsed
<1>4. ASSUME ~Starts(s), UNCHANGED <<ride.row, ride.watch_expires_at>>,
             ride.gbfs_reappeared_at' = Never => ride.gbfs_reappeared_at = Never,
             Live(s)' /\ "end_mismatch" \in ride.reasons' /\ ride.gbfs_reappeared_at' = Never =>
                 ride.watch_expires_at < now'
      PROVE  WindowInv(s)'
  <2>1. watch_list'[s] # "none" => Live(s)'
    BY <1>1, <1>4, JobsEffect DEF WindowInv, Live
  <2>2. s \in expiry'.todo =>
            /\ tracked_rides'[s].row # "none"
            /\ Live(s)' => tracked_rides'[s].watch_expires_at < now'
    BY <1>1, <1>2, <1>3, <1>4, JobsEffect DEF WindowInv, Live
  <2>3. ASSUME NEW c \in CycleLines, s \in cycle'[c].todo
        PROVE  /\ tracked_rides'[s].row # "none"
               /\ Live(s)' => tracked_rides'[s].gbfs_reappeared_at # Never
    BY <1>1, <1>4, <2>3, JobsEffect DEF WindowInv, Live
  <2>4. QED
    BY <1>4, <2>1, <2>2, <2>3 DEF WindowInv
<1>5. CASE Starts(s)
  <2>1. PICK a \in Accounts, v \in Vehicles, options \in OptionSets : StartRide(s, a, v, options)
    BY <1>5 DEF Starts
  <2>2. /\ ride.row = "none" /\ watch_list[s] = "none" /\ s \notin expiry'.todo
        /\ \A c \in CycleLines : s \notin cycle'[c].todo
    BY <1>1, <1>3, <2>1 DEF StartRide, WindowInv, Live
  <2>3. Live(s)' /\ tracked_rides'[s].reasons = {}
    BY <2>1 DEF StartRide, BlankRide, TypeOK, Live
  <2>4. QED
    BY <2>2, <2>3 DEF WindowInv
<1>6. CASE Removed(s)
  <2>1. tracked_rides'[s].row = "deleted" /\ watch_list'[s] = "none"
    BY <1>6 DEF Removed, BlankRide
  <2>2. QED
    BY <2>1 DEF WindowInv, Live
<1>7. CASE ~Starts(s) /\ (Kept(s) \/ Noted(s) \/ Unlinked(s))
  BY <1>1, <1>2, <1>4, <1>7 DEF Kept, Noted, Unlinked, WindowInv, Live
<1>8. CASE ~Starts(s) /\ (Ends(s) \/ Refreshes(s))
  <2>1. \/ ride' = WithProvisional(ride)
        \/ \E batteries \in BOOLEAN : ride' = [WithProvisional(ride) EXCEPT
               !.status = "completed", !.ended = TRUE, !.batteries = batteries]
    BY <1>8 DEF Ends, EndRide, Refreshes, FinalizeProvisional, TypeOK
  <2>2. "end_mismatch" \notin ProvisionalValidation(ride).reasons
    BY DEF ProvisionalValidation
  <2>3. /\ UNCHANGED <<ride.row, ride.watch_expires_at, ride.gbfs_reappeared_at>>
        /\ ride.reasons' = ProvisionalValidation(ride).reasons
    BY <1>1, <2>1 DEF WithProvisional, TrackedRide
  <2>4. QED
    BY <1>4, <1>8, <2>2, <2>3
<1>9. CASE ~Starts(s) /\ Donates(s)
  <2>1. PICK clean \in BOOLEAN, matches \in BOOLEAN, points_status \in PointsStatus,
             km \in Distances, inTime \in BOOLEAN, usable \in BOOLEAN :
            DonateTrack(s, clean, matches, points_status, km, inTime, usable)
    BY <1>9 DEF Donates
  <2>2. /\ UNCHANGED <<ride.row, ride.watch_expires_at, ride.gbfs_reappeared_at>>
        /\ ride.reasons' = Verdict(ride, clean, matches).reasons
    BY <1>1, <2>1 DEF DonateTrack, TypeOK, TrackedRide
  <2>3. ride.gbfs_reappeared_at = Never => "end_mismatch" \notin Verdict(ride, clean, matches).reasons
    BY DEF Verdict
  <2>4. QED
    BY <1>4, <1>9, <2>2, <2>3
<1>10. CASE ~Starts(s) /\ Settles(s)
  <2>1. PICK matches \in BOOLEAN, usable \in BOOLEAN : FinalizeDonation(s, matches, usable)
    BY <1>10 DEF Settles
  <2>2. Live(s) /\ UNCHANGED <<ride.row, ride.watch_expires_at, ride.gbfs_reappeared_at>>
    BY <1>1, <2>1 DEF FinalizeDonation, AwaitsFeed, TypeOK, TrackedRide
  <2>3. ride.gbfs_reappeared_at = Never => ride.watch_expires_at < now
    BY <1>1, <1>10, <2>2 DEF Settles, BeingFinalized, WindowInv
  <2>4. ride.gbfs_reappeared_at' = Never => ride.watch_expires_at' < now'
    BY <1>1, <1>2, <2>2, <2>3
  <2>5. QED
    BY <1>4, <1>10, <2>2, <2>4
<1>11. QED
  BY <1>5, <1>6, <1>7, <1>8, <1>9, <1>10, StepEffect DEF Effect

\* No ride is watched, nor in the hands of a job.
LEMMA InitWindow == Init => WindowInvs
BY DEF Init, WindowInvs, WindowInv, BlankRide, Live, Idle

\* A track is denied for want of a feed end only once its watch window is over,
\* whichever of the finishers, of any number of cycles, comes to it.
THEOREM NoDenialInWindowHolds == Spec => []NoDenialInWindow
<1>1. WindowInvs => NoDenialInWindow
  BY DEF WindowInvs, WindowInv, NoDenialInWindow, Seen
<1>2. QED
  BY <1>1, InitWindow, StepWindow, TypeCorrect, PTL DEF Spec

-----------------------------------------------------------------------------
(* What a track has earned.  AwardsOnlyIfEligible and TrackTotal are proved   *)
(* together: that the total a late settlement writes is what the ledger holds *)
(* rests on the ledger holding nothing for a track that still waits.          *)

Paid(r) ==
    LET ride == tracked_rides[r]
        donation == track_donations[r]
        points == DonationPoints(user_points[r])
    IN
    /\ ride.row = "none" => ~ride.donated /\ points = 0
    /\ Live(r) /\ points # 0 =>
           /\ ride.donated /\ ride.validation = "eligible"
           /\ donation.points_status = "ok"
           /\ user_points[r]["battery_contribution"] # 0 => "own_device" \notin ride.options
    /\ donation.row # "none" /\ donation.stand_down = 0 => donation.points_awarded = points

PaidInv == \A r \in Rides : Paid(r)

\* The battery award goes to no ride that does not meet its preconditions.
LEMMA BatteryOnlyIfDue ==
    ASSUME TypeOK, NEW r \in Rides, NEW km \in Distances, ~BatteryDue(tracked_rides[r])
    PROVE  WithDonationAwards(r, km)["battery_contribution"] =
               user_points[r]["battery_contribution"]
<1> DEFINE battery == CreditIf(BatteryDue(tracked_rides[r]), user_points[r],
                               "battery_contribution", BatteryContribution(km))
<1>1. battery = user_points[r] /\ user_points[r] \in RideLedger
  BY DEF CreditIf, TypeOK
<1>2. /\ NavDue(r) \in BOOLEAN /\ NavDistanceBonus(km) \in Nat
      /\ "nav_distance_bonus" \in RideActions
      /\ "battery_contribution" \in RideActions \ {"nav_distance_bonus"}
  <2>1. km \in Nat
    BY InputAssumption
  <2>2. QED
    BY <2>1 DEF NavDue, NavDistanceBonus, RideActions
<1>3. WithDonationAwards(r, km) =
          CreditIf(NavDue(r), battery, "nav_distance_bonus", NavDistanceBonus(km))
  BY DEF WithDonationAwards
<1> HIDE DEF battery
<1>4. QED
  BY <1>1, <1>2, <1>3, CreditTouchesOneRow

\* The points of a track are those of its two rows.
LEMMA TrackPointsSound ==
    ASSUME TypeOK, NEW r \in Rides
    PROVE  /\ user_points[r]["battery_contribution"] \in Nat
           /\ user_points[r]["nav_distance_bonus"] \in Nat
           /\ DonationPoints(user_points[r]) \in Nat
           /\ DonationPoints(user_points[r]) = 0 => user_points[r]["battery_contribution"] = 0
           /\ UNCHANGED TrackPoints(r) => UNCHANGED DonationPoints(user_points[r])
           /\ UNCHANGED TrackPoints(r) => UNCHANGED user_points[r]["battery_contribution"]
<1>1. /\ user_points[r]["battery_contribution"] \in Nat
      /\ user_points[r]["nav_distance_bonus"] \in Nat
  BY DEF TypeOK, RideLedger, RideActions
<1>2. QED
  BY <1>1 DEF DonationPoints, TrackPoints

\* Awards that are due leave the ledger of a ride as Paid wants it; the step credits
\* them with the verdict "eligible" and no review, and notes the total.
LEMMA AwardsArePaid ==
    ASSUME TypeOK, NEW r \in Rides, NEW km \in Distances, DonationPoints(user_points[r]) = 0
    PROVE  /\ Granted(r, WithDonationAwards(r, km)) = DonationPoints(WithDonationAwards(r, km))
           /\ Granted(r, user_points[r]) = 0
           /\ DonationPoints(WithDonationAwards(r, km)) \in Nat
           /\ WithDonationAwards(r, km)["battery_contribution"] # 0 =>
                  "own_device" \notin tracked_rides[r].options
<1>1. WithDonationAwards(r, km) \in RideLedger
  BY DonationAwardsSound
<1>2. \A ledger \in RideLedger : DonationPoints(ledger) \in Nat
  BY DEF RideLedger, RideActions, DonationPoints
<1>3. user_points[r]["battery_contribution"] = 0
  BY TrackPointsSound
<1>4. WithDonationAwards(r, km)["battery_contribution"] # 0 =>
          "own_device" \notin tracked_rides[r].options
  BY <1>3, BatteryOnlyIfDue DEF BatteryDue
<1> HIDE DEF WithDonationAwards
<1>5. QED
  BY <1>1, <1>2, <1>4 DEF Granted

\* Every step keeps it.
LEMMA StepPaid == TypeOK /\ Lifecycles /\ PaidInv /\ [Next]_vars => PaidInv'
<1> SUFFICES ASSUME TypeOK, Lifecycles, PaidInv, [Next]_vars, NEW s \in Rides
             PROVE  Paid(s)'
  BY DEF PaidInv
<1> DEFINE ride == tracked_rides[s]
           donation == track_donations[s]
           points == DonationPoints(user_points[s])
<1>1. /\ Paid(s) /\ Lifecycle(s) /\ ride \in TrackedRide /\ donation \in TrackDonation
      /\ user_points[s] \in RideLedger
  BY DEF PaidInv, Lifecycles, TypeOK
<1>2. /\ points \in Nat
      /\ UNCHANGED TrackPoints(s) => UNCHANGED <<points, user_points[s]["battery_contribution"]>>
  BY TrackPointsSound
<1>3. CASE Kept(s)
  BY <1>1, <1>2, <1>3 DEF Kept, Paid, Live
<1>4. CASE Noted(s)
  BY <1>1, <1>2, <1>4 DEF Noted, Paid, Live
<1>5. CASE Unlinked(s)
  BY <1>1, <1>2, <1>5 DEF Unlinked, Paid, Live, TrackDonation
<1>6. CASE Removed(s)
  <2>1. ride'.row = "deleted" /\ NoDonation.row = "none"
    BY <1>6 DEF Removed, BlankRide, NoDonation
  <2>2. QED
    BY <1>1, <1>2, <1>6, <2>1 DEF Removed, Paid, Live
<1>7. CASE Starts(s)
  <2>1. PICK a \in Accounts, v \in Vehicles, options \in OptionSets : StartRide(s, a, v, options)
    BY <1>7 DEF Starts
  <2>2. /\ ride.row = "none" /\ UNCHANGED <<donation, user_points>> /\ ride'.row = "live"
    BY <2>1 DEF StartRide, TypeOK, BlankRide
  <2>3. QED
    BY <1>1, <2>2 DEF Paid, Lifecycle, NoDonation
<1>8. CASE Ends(s)
  <2>1. /\ Live(s) /\ ~ride.ended /\ ride'.row = "live" /\ UNCHANGED <<donation, user_points>>
    BY <1>1, <1>8 DEF Ends, EndRide, MayEnd, Live, WithProvisional, TypeOK, TrackedRide
  <2>2. ~ride.donated
    BY <1>1, <2>1 DEF Lifecycle
  <2>3. QED
    BY <1>1, <2>1, <2>2 DEF Paid
<1>9. CASE Refreshes(s)
  <2>1. /\ Live(s) /\ ride.validation = "pending_feed" /\ ride'.row = "live"
        /\ UNCHANGED <<donation, user_points>>
    BY <1>1, <1>9
       DEF Refreshes, FinalizeProvisional, AwaitsFeed, Live, WithProvisional, TypeOK, TrackedRide
  <2>2. QED
    BY <1>1, <2>1 DEF Paid
<1>10. CASE Donates(s)
  <2>1. PICK clean \in BOOLEAN, matches \in BOOLEAN, points_status \in PointsStatus,
             km \in Distances, inTime \in BOOLEAN, usable \in BOOLEAN :
            DonateTrack(s, clean, matches, points_status, km, inTime, usable)
    BY <1>10 DEF Donates
  <2> DEFINE verdict == Verdict(ride, clean, matches)
             standDown == StandDownCredit(ride.account, inTime)
             ledger == IF MayAward(verdict.status, points_status)
                       THEN WithDonationAwards(s, km) ELSE user_points[s]
  <2>2. Live(s) /\ ~ride.donated /\ points = 0
    BY <1>1, <2>1 DEF DonateTrack, MayDonate, Paid
  <2>3. /\ ride'.row = "live" /\ ride'.donated /\ ride'.validation = verdict.status
        /\ UNCHANGED ride.options
    BY <1>1, <2>1, <2>2 DEF DonateTrack, TypeOK, TrackedRide, Live
  <2>4. /\ donation'.points_status = points_status /\ donation'.stand_down = standDown
        /\ donation'.points_awarded = Granted(s, ledger) + standDown
        /\ user_points'[s] = ledger
    BY <2>1 DEF DonateTrack, TypeOK
  <2> HIDE DEF standDown
  <2>5. CASE MayAward(verdict.status, points_status)
    <3>1. ledger = WithDonationAwards(s, km) /\ verdict.status = "eligible" /\ points_status = "ok"
      BY <2>5 DEF MayAward
    <3> HIDE DEF ledger, verdict
    <3>2. QED
      BY <2>2, <2>3, <2>4, <3>1, AwardsArePaid DEF Paid, Live
  <2>6. CASE ~MayAward(verdict.status, points_status)
    <3>1. ledger = user_points[s]
      BY <2>6
    <3> HIDE DEF ledger, verdict
    <3>2. QED
      BY <2>2, <2>3, <2>4, <3>1, AwardsArePaid DEF Paid, Live
  <2>7. QED
    BY <2>5, <2>6
<1>11. CASE Settles(s)
  <2>1. PICK matches \in BOOLEAN, usable \in BOOLEAN : FinalizeDonation(s, matches, usable)
    BY <1>11 DEF Settles
  <2> DEFINE eligible == EndMatches(ride, matches)
             verdict == IF eligible THEN "eligible" ELSE "ineligible"
             ledger == IF MayAward(verdict, donation.points_status)
                       THEN WithDonationAwards(s, donation.km) ELSE user_points[s]
  <2>2. /\ Live(s) /\ ride.donated /\ donation.row # "none" /\ donation.km \in Distances
        /\ points = 0
    BY <1>1, <2>1 DEF FinalizeDonation, AwaitsFeed, HeldDonation, Paid, Lifecycle, TrackDonation
  <2>3. /\ ride'.row = "live" /\ ride'.donated /\ ride'.validation = verdict
        /\ UNCHANGED ride.options
    BY <1>1, <2>1, <2>2 DEF FinalizeDonation, TypeOK, TrackedRide, Live
  <2>4. /\ UNCHANGED <<donation.points_status, donation.stand_down>>
        /\ donation'.points_awarded = IF Granted(s, ledger) > 0 THEN Granted(s, ledger)
                                      ELSE donation.points_awarded
        /\ user_points'[s] = ledger
    BY <1>1, <2>1 DEF FinalizeDonation, TypeOK, TrackDonation
  <2>5. donation.stand_down = 0 => donation.points_awarded = 0
    BY <1>1, <2>2 DEF Paid
  <2>6. CASE MayAward(verdict, donation.points_status)
    <3>1. /\ ledger = WithDonationAwards(s, donation.km) /\ verdict = "eligible"
          /\ donation.points_status = "ok"
      BY <2>6 DEF MayAward
    <3> HIDE DEF ledger, verdict
    <3>2. QED
      BY <2>2, <2>3, <2>4, <2>5, <3>1, AwardsArePaid DEF Paid, Live
  <2>7. CASE ~MayAward(verdict, donation.points_status)
    <3>1. ledger = user_points[s]
      BY <2>7
    <3> HIDE DEF ledger, verdict
    <3>2. QED
      BY <2>2, <2>3, <2>4, <2>5, <3>1, AwardsArePaid DEF Paid, Live
  <2>8. QED
    BY <2>6, <2>7
<1>12. QED
  BY <1>3, <1>4, <1>5, <1>6, <1>7, <1>8, <1>9, <1>10, <1>11, StepEffect DEF Effect

\* No track has earned anything yet.
LEMMA InitPaid == Init => PaidInv
BY DEF Init, PaidInv, Paid, BlankRide, NoDonation, Live, EmptyLedger, RideActions, DonationPoints

\* A track has earned points only on an eligible ride that was not put aside for
\* review, and battery points never on the rider's own device.
THEOREM AwardsOnlyIfEligibleHolds == Spec => []AwardsOnlyIfEligible
<1>1. TypeOK /\ PaidInv => AwardsOnlyIfEligible
  <2> SUFFICES ASSUME TypeOK, PaidInv, NEW r \in Rides, Live(r), DonationPoints(user_points[r]) > 0
               PROVE  /\ tracked_rides[r].validation = "eligible"
                      /\ track_donations[r].points_status = "ok"
                      /\ user_points[r]["battery_contribution"] > 0 =>
                             "own_device" \notin tracked_rides[r].options
    BY DEF AwardsOnlyIfEligible
  <2>1. DonationPoints(user_points[r]) # 0
    BY TrackPointsSound
  <2>2. user_points[r]["battery_contribution"] > 0 => user_points[r]["battery_contribution"] # 0
    BY TrackPointsSound
  <2>3. QED
    BY <2>1, <2>2 DEF PaidInv, Paid
<1>2. QED
  BY <1>1, InitPaid, StepPaid, LifecyclesHold, TypeCorrect, PTL DEF Spec

\* The total on a donation is what the ledger holds for the track, written as it is by
\* two paths, whenever no stand-down credit was stamped on it.
THEOREM TrackTotalHolds == Spec => []TrackTotal
<1>1. PaidInv => TrackTotal
  BY DEF PaidInv, Paid, TrackTotal
<1>2. QED
  BY <1>1, InitPaid, StepPaid, LifecyclesHold, TypeCorrect, PTL DEF Spec

-----------------------------------------------------------------------------
(* The refinement.  Every step of a tracked ride, seen through the mapping,   *)
(* is a step of Contribution or a stutter.                                    *)

Points(r) == DonationPoints(user_points[r])

\* What a step does to the stage of one ride, and to what is paid for its track.
StageEffect(s) ==
    \/ UNCHANGED <<ContributionStage(s), Points(s)>>
    \/ /\ Removed(s) /\ ContributionStage(s)' = "withdrawn" /\ UNCHANGED Points(s)
    \/ /\ Unlinked(s) /\ ContributionStage(s) = "held" /\ ContributionStage(s)' = "lapsed"
       /\ UNCHANGED Points(s)
    \/ /\ Donates(s) /\ ContributionStage(s) = "none"
       /\ ContributionStage(s)' \in {"held", "eligible", "ineligible"}
       /\ ContributionStage(s)' # "eligible" => UNCHANGED Points(s)
    \/ /\ Settles(s) /\ ContributionStage(s) = "held"
       /\ ContributionStage(s)' \in {"eligible", "ineligible"}
       /\ ContributionStage(s)' # "eligible" => UNCHANGED Points(s)

LEMMA StepStage ==
    ASSUME TypeOK, Lifecycles, PaidInv, [Next]_vars, NEW s \in Rides
    PROVE  StageEffect(s)
<1> DEFINE ride == tracked_rides[s]
           donation == track_donations[s]
<1>1. /\ Paid(s) /\ Lifecycle(s) /\ ride \in TrackedRide /\ donation \in TrackDonation
  BY DEF PaidInv, Lifecycles, TypeOK
<1>2. UNCHANGED TrackPoints(s) => UNCHANGED Points(s)
  BY TrackPointsSound DEF Points
<1>3. CASE Kept(s)
  BY <1>2, <1>3 DEF Kept, StageEffect, ContributionStage, Linked
<1>4. CASE Noted(s)
  BY <1>2, <1>4 DEF Noted, StageEffect, ContributionStage, Linked
<1>5. CASE Unlinked(s)
  <2>1. donation'.row = "unlinked" /\ donation.row = "linked" /\ UNCHANGED ride
    BY <1>1, <1>5 DEF Unlinked, TrackDonation
  <2>2. Live(s) /\ ride.donated
    BY <1>1, <2>1 DEF Lifecycle
  <2>3. QED
    BY <1>2, <1>5, <2>1, <2>2 DEF Unlinked, StageEffect, ContributionStage, Linked, Live
<1>6. CASE Removed(s)
  <2>1. ContributionStage(s)' = "withdrawn"
    BY <1>6 DEF Removed, BlankRide, ContributionStage
  <2>2. QED
    BY <1>2, <1>6, <2>1 DEF Removed, StageEffect
<1>7. CASE Starts(s)
  <2>1. PICK a \in Accounts, v \in Vehicles, options \in OptionSets : StartRide(s, a, v, options)
    BY <1>7 DEF Starts
  <2>2. /\ ride.row = "none" /\ UNCHANGED user_points
        /\ ride'.row = "live" /\ ~ride'.donated
    BY <2>1 DEF StartRide, TypeOK, BlankRide
  <2>3. QED
    BY <1>1, <2>2 DEF Paid, StageEffect, ContributionStage, Points
<1>8. CASE Ends(s)
  <2>1. /\ Live(s) /\ ~ride.ended /\ UNCHANGED <<ride.row, ride.donated, user_points>>
    BY <1>1, <1>8 DEF Ends, EndRide, MayEnd, WithProvisional, TypeOK, TrackedRide
  <2>2. ~ride.donated
    BY <1>1, <2>1 DEF Lifecycle
  <2>3. QED
    BY <2>1, <2>2 DEF StageEffect, ContributionStage, Points, Live
<1>9. CASE Refreshes(s)
  <2>1. /\ AwaitsFeed(s) /\ ~HeldDonation(s) /\ ride' = WithProvisional(ride)
        /\ UNCHANGED <<track_donations, user_points>>
    BY <1>9 DEF Refreshes, FinalizeProvisional, TypeOK
  <2>2. /\ UNCHANGED <<ride.row, ride.donated>>
        /\ ride'.validation = ProvisionalValidation(ride).status
    BY <1>1, <2>1 DEF WithProvisional, TrackedRide
  <2>3. ~Linked(s)
    BY <1>1, <2>1 DEF Linked, HeldDonation, Lifecycle, AwaitsFeed
  <2>4. ride.donated => ride'.validation \in {"pending", "pending_feed"}
    BY <1>1, <2>1, <2>2 DEF Lifecycle, AwaitsFeed, ProvisionalValidation
  <2>5. QED
    BY <2>1, <2>2, <2>3, <2>4
       DEF StageEffect, ContributionStage, Points, Linked, AwaitsFeed, Live
<1>10. CASE Donates(s)
  <2>1. PICK clean \in BOOLEAN, matches \in BOOLEAN, points_status \in PointsStatus,
             km \in Distances, inTime \in BOOLEAN, usable \in BOOLEAN :
            DonateTrack(s, clean, matches, points_status, km, inTime, usable)
    BY <1>10 DEF Donates
  <2> DEFINE verdict == Verdict(ride, clean, matches).status
  <2>2. verdict \in {"eligible", "ineligible", "pending_feed"}
    BY DEF Verdict
  <2>3. /\ Live(s) /\ ~ride.donated
        /\ ride'.row = "live" /\ ride'.donated /\ ride'.validation = verdict
        /\ donation'.row = "linked"
    BY <1>1, <2>1 DEF DonateTrack, MayDonate, Live, TypeOK, TrackedRide
  <2>4. verdict # "eligible" => UNCHANGED Points(s)
    BY <2>1 DEF DonateTrack, MayAward, Points, TypeOK
  <2> HIDE DEF verdict
  <2>5. QED
    BY <1>10, <2>2, <2>3, <2>4 DEF StageEffect, ContributionStage, Linked, Live
<1>11. CASE Settles(s)
  <2>1. PICK matches \in BOOLEAN, usable \in BOOLEAN : FinalizeDonation(s, matches, usable)
    BY <1>11 DEF Settles
  <2> DEFINE verdict == IF EndMatches(ride, matches) THEN "eligible" ELSE "ineligible"
  <2>2. verdict \in {"eligible", "ineligible"}
    OBVIOUS
  <2>3. /\ Live(s) /\ ride.donated /\ Linked(s) /\ ride.validation = "pending_feed"
    BY <1>1, <2>1 DEF FinalizeDonation, AwaitsFeed, HeldDonation, Linked, Lifecycle
  <2>4. ride'.row = "live" /\ ride'.donated /\ ride'.validation = verdict
    BY <1>1, <2>1, <2>3 DEF FinalizeDonation, TypeOK, TrackedRide, Live
  <2>5. verdict # "eligible" => UNCHANGED Points(s)
    BY <2>1 DEF FinalizeDonation, MayAward, Points, TypeOK
  <2> HIDE DEF verdict
  <2>6. QED
    BY <1>11, <2>2, <2>3, <2>4, <2>5 DEF StageEffect, ContributionStage, Live
<1>12. QED
  BY <1>3, <1>4, <1>5, <1>6, <1>7, <1>8, <1>9, <1>10, <1>11, StepEffect DEF Effect

\* Only the de-identification sweep takes the link from a donation, and it deletes no ride.
LEMMA OnlyTheSweepUnlinks ==
    ASSUME TypeOK, [Next]_vars, NEW s \in Rides, Unlinked(s)
    PROVE  UNCHANGED tracked_rides
<1>1. track_donations[s].row = "linked" /\ track_donations'[s].row = "unlinked"
  <2>1. track_donations[s] \in TrackDonation
    BY DEF TypeOK
  <2>2. QED
    BY <2>1 DEF Unlinked, TrackDonation
<1>2. ASSUME NEW r \in Rides, FinalizeValidation(r)
      PROVE  FALSE
  <2>1. track_donations[r] \in TrackDonation
    BY DEF TypeOK
  <2>2. track_donations'[s].row = track_donations[s].row
    <3>1. CASE FinalizeNothing(r) \/ FinalizeProvisional(r)
      BY <3>1 DEF FinalizeNothing, FinalizeProvisional, settlement
    <3>2. ASSUME NEW matches, NEW usable, FinalizeDonation(r, matches, usable)
          PROVE  track_donations'[s].row = track_donations[s].row
      <4>1. CASE s # r
        BY <3>2, <4>1 DEF FinalizeDonation, TypeOK
      <4>2. CASE s = r
        BY <2>1, <3>2, <4>2 DEF FinalizeDonation, TypeOK, TrackDonation
      <4>3. QED
        BY <4>1, <4>2
    <3>3. QED
      BY <1>2, <3>1, <3>2 DEF FinalizeValidation
  <2>3. QED
    BY <1>1, <2>2
<1>3. CASE RiderNext
  <2>1. ASSUME NEW r \in Rides, NEW clean, NEW matches, NEW inTime, NEW usable,
               NEW points_status, NEW km,
               DonateTrack(r, clean, matches, points_status, km, inTime, usable)
        PROVE  FALSE
    BY <1>1, <2>1 DEF DonateTrack, TypeOK
  <2>2. ASSUME NEW r, NEW q, NEW form, SubmitSurvey(r, q, form)
        PROVE  FALSE
    BY <1>1, <2>2 DEF SubmitSurvey
  <2>3. ASSUME NEW gone, DeleteRides(gone)
        PROVE  FALSE
    BY <1>1, <2>3 DEF DeleteRides, NoDonation
  <2>4. ASSUME NEW r, NEW a, NEW v, NEW options,
               StartRide(r, a, v, options) \/ EndRide(r, a) \/ CreateRideRoute(r, a, v)
        PROVE  FALSE
    BY <1>1, <2>4 DEF StartRide, EndRide, CreateRideRoute
  <2>5. QED
    BY <1>3, <2>1, <2>2, <2>3, <2>4
       DEF RiderNext, DeleteTrackedRide, DeleteAllTrackedRides
<1>4. CASE CycleNext
  BY <1>1, <1>2, <1>4 DEF CycleNext, CycleFetch, CycleWatch, CycleFinalize, CycleFinalizeFails,
                          CycleAbandoned, settlement
<1>5. CASE CronNext
  BY <1>1, <1>2, <1>5 DEF CronNext, ExpireStaleWatches, ExpireFinalize, ExpireFinalizeFails,
                          ExpiryDies, DeidentifyDonations, settlement
<1>6. CASE Tick \/ UNCHANGED vars
  BY <1>1, <1>6 DEF Tick, vars, settlement
<1>7. QED
  BY <1>3, <1>4, <1>5, <1>6 DEF Next

\* The donation, or the settlement, of one ride changes the row of no other.
LEMMA OthersKept ==
    ASSUME TypeOK, NEW r \in Rides, Donates(r) \/ Settles(r), NEW s \in Rides \ {r}
    PROVE  UNCHANGED <<ContributionStage(s), Points(s)>>
<1>1. UNCHANGED <<tracked_rides[s], track_donations[s], user_points[s]>>
  <2>1. ASSUME NEW clean, NEW matches, NEW inTime, NEW usable, NEW points_status, NEW km,
               DonateTrack(r, clean, matches, points_status, km, inTime, usable)
        PROVE  UNCHANGED <<tracked_rides[s], track_donations[s], user_points[s]>>
    BY <2>1 DEF DonateTrack, TypeOK
  <2>2. ASSUME NEW matches, NEW usable, FinalizeDonation(r, matches, usable)
        PROVE  UNCHANGED <<tracked_rides[s], track_donations[s], user_points[s]>>
    BY <2>2 DEF FinalizeDonation, TypeOK
  <2>3. QED
    BY <2>1, <2>2 DEF Donates, Settles
<1>2. QED
  BY <1>1 DEF ContributionStage, Points, Linked

\* Every step is a step of Contribution or a stutter.
LEMMA StepPromise ==
    ASSUME TypeOK, TypeOK', Lifecycles, PaidInv, [Next]_vars
    PROVE  [Promise!Next]_<<[r \in Rides |-> ContributionStage(r)],
                            [r \in Rides |-> DonationPoints(user_points[r])]>>
<1> DEFINE stages == [r \in Rides |-> ContributionStage(r)]
           points == [r \in Rides |-> DonationPoints(user_points[r])]
<1>1. \A s \in Rides : StageEffect(s)
  BY StepStage
<1>2. \A s \in Rides : Points(s)' \in Nat
  <2>1. \A ledger \in RideLedger : DonationPoints(ledger) \in Nat
    BY DEF RideLedger, RideActions, DonationPoints
  <2>2. QED
    BY <2>1 DEF TypeOK, Points
<1>3. ASSUME NEW r \in Rides, Donates(r) \/ Settles(r)
      PROVE  /\ stages' = [stages EXCEPT ![r] = ContributionStage(r)']
             /\ points' = [points EXCEPT ![r] = Points(r)']
  <2>1. \A s \in Rides \ {r} : UNCHANGED <<ContributionStage(s), Points(s)>>
    BY <1>3, OthersKept
  <2>2. QED
    BY <2>1 DEF Points
<1>4. ASSUME NEW r \in Rides, ContributionStage(r)' # "eligible" => UNCHANGED Points(r),
             points' = [points EXCEPT ![r] = Points(r)']
      PROVE  Promise!Pays(r, ContributionStage(r)')
  <2>1. points'[r] = Points(r)' /\ points'[r] \in Nat
    BY <1>2 DEF Points
  <2>2. UNCHANGED Points(r) => points' = points
    BY <1>4 DEF Points
  <2>3. QED
    BY <1>4, <2>1, <2>2 DEF Promise!Pays
<1>5. ASSUME NEW r \in Rides, Donates(r), ContributionStage(r) = "none",
             ContributionStage(r)' \in {"held", "eligible", "ineligible"},
             ContributionStage(r)' # "eligible" => UNCHANGED Points(r)
      PROVE  Promise!Offer(r)
  <2>1. stages' = [stages EXCEPT ![r] = ContributionStage(r)'] /\ stages[r] = "none"
    BY <1>3, <1>5
  <2>2. Promise!Pays(r, ContributionStage(r)')
    BY <1>3, <1>4, <1>5
  <2>3. ContributionStage(r)' \in Promise!Verdicts \cup {"held"}
    BY <1>5 DEF Promise!Verdicts
  <2>4. QED
    BY <2>1, <2>2, <2>3 DEF Promise!Offer
<1>6. ASSUME NEW r \in Rides, Settles(r), ContributionStage(r) = "held",
             ContributionStage(r)' \in {"eligible", "ineligible"},
             ContributionStage(r)' # "eligible" => UNCHANGED Points(r)
      PROVE  Promise!Settle(r)
  <2>1. stages' = [stages EXCEPT ![r] = ContributionStage(r)'] /\ stages[r] = "held"
    BY <1>3, <1>6
  <2>2. Promise!Pays(r, ContributionStage(r)')
    BY <1>3, <1>4, <1>6
  <2>3. ContributionStage(r)' \in Promise!Verdicts
    BY <1>6 DEF Promise!Verdicts
  <2>4. QED
    BY <2>1, <2>2, <2>3 DEF Promise!Settle
<1> DEFINE lapses(s) == Unlinked(s) /\ ContributionStage(s) = "held" /\ ContributionStage(s)' = "lapsed"
           goes(s) == Removed(s) /\ ContributionStage(s)' = "withdrawn"
<1>7. ASSUME \A s \in Rides :
                 /\ UNCHANGED Points(s)
                 /\ UNCHANGED ContributionStage(s) \/ goes(s) \/ lapses(s),
             NEW lapsed \in Rides, lapses(lapsed)
      PROVE  \E some \in SUBSET Rides : Promise!Lapse(some)
  <2> DEFINE swept == {s \in Rides : lapses(s)}
  <2>1. \A s \in Rides : ~goes(s)
    BY <1>7, OnlyTheSweepUnlinks DEF Removed, BlankRide, Live
  <2>2. stages' = [s \in Rides |-> IF s \in swept THEN "lapsed" ELSE stages[s]]
    BY <1>7, <2>1
  <2>3. points' = points
    BY <1>7 DEF Points
  <2>4. \A s \in swept : stages[s] = "held"
    OBVIOUS
  <2>5. QED
    BY <2>2, <2>3, <2>4 DEF Promise!Lapse
<1>8. ASSUME \A s \in Rides :
                 /\ UNCHANGED Points(s)
                 /\ UNCHANGED ContributionStage(s) \/ goes(s)
      PROVE  \E some \in SUBSET Rides : Promise!Withdraw(some)
  <2> DEFINE gone == {s \in Rides : goes(s)}
  <2>1. stages' = [s \in Rides |-> IF s \in gone THEN "withdrawn" ELSE stages[s]]
    BY <1>8
  <2>2. points' = points
    BY <1>8 DEF Points
  <2>3. QED
    BY <2>1, <2>2 DEF Promise!Withdraw
<1>9. QED
  BY <1>1, <1>5, <1>6, <1>7, <1>8 DEF StageEffect, Promise!Next

\* Tracked rides keep the promise of Contribution: one offer, one final verdict, points
\* only with it, for any number of rides, cycles and faults.
THEOREM KeepsPromiseHolds == Spec => KeepsPromise
<1>1. Init => Promise!Init
  BY DEF Init, Promise!Init, ContributionStage, BlankRide, EmptyLedger, RideActions, DonationPoints
<1>2. QED
  BY <1>1, InitPaid, StepPromise, StepPaid, LifecyclesHold, TypeCorrect, PTL
     DEF Spec, KeepsPromise, Promise!Spec

-----------------------------------------------------------------------------
(* The two times of the feed.  A cycle judges by the snapshot it took before  *)
(* its transaction; the times are in order as long as no two cycles are       *)
(* between snapshot and transaction at once, and the crontab's two lines can  *)
(* be.                                                                        *)

NoOverlap ==
    \A c, d \in CycleLines : cycle[c].pc = "observed" /\ cycle[d].pc = "observed" => c = d

FeedInv(r) ==
    LET ride == tracked_rides[r] IN
    Live(r) =>
        /\ ride.started <= now /\ ride.gbfs_left_feed_at <= now
        /\ watch_list[r] \in {"watching", "left_feed"} => ride.gbfs_reappeared_at = Never
        /\ \A c \in CycleLines : watch_list[r] = "left_feed" /\ cycle[c].pc = "observed" =>
               /\ ride.started <= cycle[c].snapshot_time
               /\ ride.gbfs_left_feed_at <= cycle[c].snapshot_time
        /\ ride.gbfs_reappeared_at # Never =>
               /\ ride.started <= ride.gbfs_reappeared_at
               /\ ride.gbfs_left_feed_at <= ride.gbfs_reappeared_at

FeedInvs ==
    /\ \A r \in Rides : FeedInv(r)
    /\ \A c \in CycleLines : cycle[c].snapshot_time <= now

FeedTimes(r) == <<tracked_rides[r].row, tracked_rides[r].started,
                  tracked_rides[r].gbfs_left_feed_at, tracked_rides[r].gbfs_reappeared_at>>

\* A settling transaction touches no time of the feed.
LEMMA FinalizeKeepsTimes ==
    ASSUME TypeOK, NEW r \in Rides, FinalizeValidation(r), NEW s \in Rides
    PROVE  UNCHANGED FeedTimes(s)
<1>1. tracked_rides[s] \in TrackedRide
  BY DEF TypeOK
<1>2. CASE FinalizeNothing(r)
  BY <1>2 DEF FinalizeNothing, settlement, FeedTimes
<1>3. CASE FinalizeProvisional(r)
  BY <1>1, <1>3 DEF FinalizeProvisional, WithProvisional, TypeOK, FeedTimes, TrackedRide
<1>4. ASSUME NEW matches, NEW usable, FinalizeDonation(r, matches, usable)
      PROVE  UNCHANGED FeedTimes(s)
  BY <1>1, <1>4 DEF FinalizeDonation, TypeOK, FeedTimes, TrackedRide
<1>5. QED
  BY <1>2, <1>3, <1>4 DEF FinalizeValidation

\* The steps that change a time of the feed of a ride that stays, or its watch: its
\* start, the transaction of a cycle, and the expiry, which only closes a watch.
LEMMA FeedEffect ==
    ASSUME TypeOK, [Next]_vars, NEW s \in Rides
    PROVE  \/ Starts(s)
           \/ ~Live(s)'
           \/ \E c \in CycleLines : CycleWatch(c)
           \/ UNCHANGED FeedTimes(s) /\ watch_list'[s] \in {watch_list[s], "expired"}
<1> DEFINE Goal == \/ Starts(s)
                   \/ ~Live(s)'
                   \/ \E c \in CycleLines : CycleWatch(c)
                   \/ UNCHANGED FeedTimes(s) /\ watch_list'[s] \in {watch_list[s], "expired"}
<1>1. ASSUME UNCHANGED <<tracked_rides, watch_list>> PROVE Goal
  BY <1>1 DEF FeedTimes
<1>2. tracked_rides[s] \in TrackedRide
  BY DEF TypeOK
<1>3. ASSUME RiderNext PROVE Goal
  <2>1. ASSUME NEW r \in Rides, NEW a \in Accounts, NEW v \in Vehicles,
               NEW options \in OptionSets, StartRide(r, a, v, options)
        PROVE  Goal
    BY <2>1 DEF StartRide, Starts, TypeOK, FeedTimes
  <2>2. ASSUME NEW r \in Rides, NEW batteries, EndRide(r, batteries)
        PROVE  Goal
    BY <1>2, <2>2 DEF EndRide, WithProvisional, TypeOK, FeedTimes, TrackedRide
  <2>3. ASSUME NEW r \in Rides, NEW clean, NEW matches, NEW inTime, NEW usable,
               NEW points_status, NEW km,
               DonateTrack(r, clean, matches, points_status, km, inTime, usable)
        PROVE  Goal
    BY <1>2, <2>3 DEF DonateTrack, TypeOK, FeedTimes, TrackedRide
  <2>4. ASSUME NEW r, NEW q, NEW form, SubmitSurvey(r, q, form)
        PROVE  Goal
    BY <1>1, <2>4 DEF SubmitSurvey
  <2>5. ASSUME NEW q, NEW a, NEW r, CreateRideRoute(q, a, r)
        PROVE  Goal
    BY <1>1, <2>5 DEF CreateRideRoute
  <2>6. ASSUME NEW gone, DeleteRides(gone)
        PROVE  Goal
    BY <2>6 DEF DeleteRides, BlankRide, Live, FeedTimes
  <2> HIDE DEF Goal
  <2>7. QED
    BY <1>3, <2>1, <2>2, <2>3, <2>4, <2>5, <2>6
       DEF RiderNext, DeleteTrackedRide, DeleteAllTrackedRides
<1>4. ASSUME CycleNext PROVE Goal
  <2>1. ASSUME NEW c \in CycleLines, NEW r \in Rides, CycleFinalize(c, r)
        PROVE  Goal
    BY <2>1, FinalizeKeepsTimes DEF CycleFinalize
  <2>2. ASSUME NEW c \in CycleLines, NEW r,
               \/ CycleFinalizeFails(c, r) \/ CycleAbandoned(c)
               \/ CycleFetch(c, r)
        PROVE  Goal
    BY <1>1, <2>2 DEF CycleFinalizeFails, CycleAbandoned, CycleFetch, settlement
  <2>3. ASSUME NEW c \in CycleLines, CycleWatch(c)
        PROVE  Goal
    BY <2>3
  <2> HIDE DEF Goal
  <2>4. QED
    BY <1>4, <2>1, <2>2, <2>3 DEF CycleNext
<1>5. ASSUME CronNext PROVE Goal
  <2>1. ASSUME NEW r \in Rides, ExpireFinalize(r)
        PROVE  Goal
    BY <2>1, FinalizeKeepsTimes DEF ExpireFinalize
  <2>2. ASSUME ExpireStaleWatches
        PROVE  Goal
    <3>1. watch_list'[s] \in {watch_list[s], "expired"}
      BY <2>2 DEF ExpireStaleWatches
    <3>2. UNCHANGED FeedTimes(s)
      BY <1>2, <2>2 DEF ExpireStaleWatches, FeedTimes, TrackedRide
    <3>3. QED
      BY <3>1, <3>2
  <2>3. ASSUME NEW r, ExpireFinalizeFails(r) \/ ExpiryDies \/ DeidentifyDonations
        PROVE  Goal
    BY <1>1, <2>3 DEF ExpireFinalizeFails, ExpiryDies, DeidentifyDonations, settlement
  <2> HIDE DEF Goal
  <2>4. QED
    BY <1>5, <2>1, <2>2, <2>3 DEF CronNext
<1>6. ASSUME Tick \/ UNCHANGED vars
      PROVE  Goal
  BY <1>1, <1>6 DEF Tick, vars, settlement
<1> HIDE DEF Goal
<1>7. Goal
  BY <1>3, <1>4, <1>5, <1>6 DEF Next
<1>8. QED
  BY <1>7 DEF Goal

\* What a step does to a cycle: it keeps the snapshot it has, or drops it; or it takes
\* one now, and touches no ride.
KeepsOrDrops(c) ==
    /\ cycle'[c].snapshot_time \in {0, cycle[c].snapshot_time}
    /\ cycle'[c].pc = "observed" =>
           cycle[c].pc = "observed" /\ cycle'[c].snapshot_time = cycle[c].snapshot_time

Fetches(c) ==
    /\ cycle'[c].snapshot_time = now
    /\ UNCHANGED <<now, tracked_rides, watch_list>>

LEMMA CycleEffect ==
    ASSUME TypeOK, [Next]_vars, NEW c \in CycleLines
    PROVE  KeepsOrDrops(c) \/ Fetches(c)
<1>1. ASSUME UNCHANGED cycle PROVE KeepsOrDrops(c)
  BY <1>1 DEF KeepsOrDrops
<1>2. cycle[c] \in CycleRun /\ Idle.pc = "idle" /\ Idle.snapshot_time = 0
  BY DEF TypeOK, Idle
<1>3. CASE RiderNext
  <2>1. ASSUME NEW r, NEW clean, NEW matches, NEW inTime, NEW usable, NEW points_status, NEW km,
               DonateTrack(r, clean, matches, points_status, km, inTime, usable)
        PROVE  UNCHANGED cycle
    BY <2>1 DEF DonateTrack
  <2>2. ASSUME NEW r, NEW q, NEW form, SubmitSurvey(r, q, form)
        PROVE  UNCHANGED cycle
    BY <2>2 DEF SubmitSurvey
  <2>3. ASSUME NEW gone, DeleteRides(gone)
        PROVE  UNCHANGED cycle
    BY <2>3 DEF DeleteRides
  <2>4. QED
    BY <1>1, <1>3, <2>1, <2>2, <2>3 DEF RiderNext, StartRide, EndRide, CreateRideRoute,
                                        DeleteTrackedRide, DeleteAllTrackedRides
<1>4. CASE CycleNext
  <2>1. ASSUME NEW d \in CycleLines, NEW r \in Rides,
               CycleFinalize(d, r) \/ CycleFinalizeFails(d, r)
        PROVE  KeepsOrDrops(c)
    <3>1. cycle' = [cycle EXCEPT ![d] = CycleRemaining(d, r)]
      BY <2>1 DEF CycleFinalize, CycleFinalizeFails
    <3>2. QED
      BY <1>2, <3>1 DEF KeepsOrDrops, CycleRemaining, CycleRun, TypeOK
  <2>2. ASSUME NEW d \in CycleLines, CycleWatch(d)
        PROVE  KeepsOrDrops(c)
    <3> DEFINE back == {r \in OpenWatches(d) :
                 NewlyReappeared(watch_list[r], tracked_rides[r].vehicle \in cycle[d].checked_out)}
    <3>1. cycle' = [cycle EXCEPT ![d] =
              IF back = {} THEN Idle ELSE [Idle EXCEPT !.pc = "finalizing", !.todo = back]]
      BY <2>2 DEF CycleWatch
    <3> HIDE DEF back
    <3>2. /\ [Idle EXCEPT !.pc = "finalizing", !.todo = back].pc = "finalizing"
          /\ [Idle EXCEPT !.pc = "finalizing", !.todo = back].snapshot_time = 0
      BY DEF Idle
    <3>3. QED
      BY <1>2, <3>1, <3>2 DEF KeepsOrDrops, TypeOK
  <2>3. ASSUME NEW d \in CycleLines, CycleAbandoned(d)
        PROVE  KeepsOrDrops(c)
    BY <1>2, <2>3 DEF CycleAbandoned, KeepsOrDrops, TypeOK
  <2>4. ASSUME NEW d \in CycleLines, NEW checkedOut, CycleFetch(d, checkedOut)
        PROVE  KeepsOrDrops(c) \/ Fetches(c)
    BY <2>4 DEF CycleFetch, KeepsOrDrops, Fetches, settlement, TypeOK
  <2>5. QED
    BY <1>4, <2>1, <2>2, <2>3, <2>4 DEF CycleNext
<1>5. CASE CronNext
  BY <1>1, <1>5 DEF CronNext, ExpireStaleWatches, ExpireFinalize, ExpireFinalizeFails,
                    ExpiryDies, DeidentifyDonations
<1>6. CASE Tick \/ UNCHANGED vars
  BY <1>1, <1>6 DEF Tick, vars
<1>7. QED
  BY <1>3, <1>4, <1>5, <1>6 DEF Next

\* Every step keeps FeedInvs, as long as no two cycles overlap.
LEMMA StepFeed ==
    TypeOK /\ WindowInvs /\ NoOverlap /\ FeedInvs /\ [Next]_vars => FeedInvs'
<1> SUFFICES ASSUME TypeOK, WindowInvs, NoOverlap, FeedInvs, [Next]_vars
             PROVE  FeedInvs'
  OBVIOUS
<1>1. now \in Nat /\ now' \in Nat /\ now <= now'
  BY ClockRises
<1>2. \A c \in CycleLines : cycle[c].snapshot_time \in Nat /\ cycle[c].snapshot_time <= now
  BY ClockAssumption DEF FeedInvs, TypeOK, CycleRun, Time
<1>3. \A c \in CycleLines : cycle'[c].snapshot_time <= now'
  BY <1>1, <1>2, CycleEffect DEF KeepsOrDrops, Fetches
<1>4. ASSUME NEW s \in Rides PROVE FeedInv(s)'
  <2> DEFINE ride == tracked_rides[s]
  <2>1. /\ FeedInv(s) /\ ride \in TrackedRide /\ ride.started \in Nat
        /\ ride.gbfs_left_feed_at \in Nat \cup {Never}
        /\ ride.gbfs_reappeared_at \in Nat \cup {Never}
    BY ClockAssumption DEF FeedInvs, TypeOK, TrackedRide, Time
  <2>2. watch_list[s] # "none" => Live(s)
    BY DEF WindowInvs, WindowInv
  <2>3. CASE Starts(s)
    <3>1. PICK a \in Accounts, v \in Vehicles, options \in OptionSets : StartRide(s, a, v, options)
      BY <2>3 DEF Starts
    <3>2. /\ ride'.started = now /\ now' = now /\ ride'.gbfs_left_feed_at = Never
          /\ ride'.gbfs_reappeared_at = Never /\ watch_list'[s] = "watching"
      BY <3>1 DEF StartRide, BlankRide, TypeOK
    <3>3. QED
      BY <1>1, <3>2 DEF FeedInv, Never
  <2>4. CASE ~Live(s)'
    BY <2>4 DEF FeedInv
  <2>5. ASSUME NEW c \in CycleLines, CycleWatch(c)
        PROVE  FeedInv(s)'
    <3> DEFINE seen == cycle[c].snapshot_time
               out(r) == tracked_rides[r].vehicle \in cycle[c].checked_out
               left == {r \in OpenWatches(c) : NewlyLeft(watch_list[r], out(r))}
               back == {r \in OpenWatches(c) : NewlyReappeared(watch_list[r], out(r))}
    <3>1. /\ cycle[c].pc = "observed" /\ now' = now
          /\ tracked_rides'[s] = IF s \in left THEN MarkLeft(ride, seen)
                                 ELSE IF s \in back THEN [ride EXCEPT !.gbfs_reappeared_at = seen]
                                 ELSE ride
          /\ watch_list'[s] = IF s \in left THEN "left_feed"
                              ELSE IF s \in back THEN "resolved" ELSE watch_list[s]
      BY <2>5 DEF CycleWatch
    <3>2. \A d \in CycleLines : cycle'[d].pc # "observed"
      <4>1. cycle'[c].pc # "observed"
        <5> HIDE DEF left
        <5>1. cycle' = [cycle EXCEPT ![c] =
                  IF back = {} THEN Idle ELSE [Idle EXCEPT !.pc = "finalizing", !.todo = back]]
          BY <2>5 DEF CycleWatch
        <5> HIDE DEF back
        <5>2. Idle.pc # "observed" /\ [Idle EXCEPT !.pc = "finalizing", !.todo = back].pc # "observed"
          BY DEF Idle
        <5>3. QED
          BY <5>1, <5>2 DEF TypeOK
      <4>2. ASSUME NEW d \in CycleLines, d # c PROVE cycle'[d].pc # "observed"
        <5>1. cycle'[d] = cycle[d]
          BY <2>5, <4>2 DEF CycleWatch, TypeOK
        <5>2. QED
          BY <3>1, <4>2, <5>1 DEF NoOverlap
      <4>3. QED
        BY <4>1, <4>2
    <3>3. /\ s \in left => watch_list[s] = "watching"
          /\ s \in back => watch_list[s] = "left_feed"
      BY DEF NewlyLeft, NewlyReappeared
    <3>4. seen \in Nat /\ seen <= now
      BY <1>2
    <3> HIDE DEF left, back, seen
    <3>5. CASE s \in left
      <4>1. /\ watch_list'[s] = "left_feed" /\ Live(s) /\ ride.gbfs_reappeared_at = Never
            /\ ride.started <= now /\ ride.gbfs_left_feed_at <= now
        BY <2>1, <2>2, <3>1, <3>3, <3>5 DEF FeedInv
      <4>2. /\ UNCHANGED <<ride.started, ride.gbfs_reappeared_at>>
            /\ ride'.gbfs_left_feed_at \in {seen, ride.gbfs_left_feed_at}
        BY <2>1, <3>1, <3>5 DEF MarkLeft, TrackedRide
      <4>3. QED
        BY <3>1, <3>2, <3>4, <4>1, <4>2 DEF FeedInv
    <3>6. CASE s \notin left /\ s \in back
      <4>1. /\ watch_list'[s] = "resolved" /\ Live(s)
            /\ ride.started <= now /\ ride.gbfs_left_feed_at <= now
            /\ ride.started <= seen /\ ride.gbfs_left_feed_at <= seen
        BY <2>1, <2>2, <3>1, <3>3, <3>6 DEF FeedInv, seen
      <4>2. /\ UNCHANGED <<ride.started, ride.gbfs_left_feed_at>>
            /\ ride'.gbfs_reappeared_at = seen
        BY <2>1, <3>1, <3>6 DEF TrackedRide
      <4>3. QED
        BY <3>1, <3>2, <4>1, <4>2 DEF FeedInv
    <3>7. CASE s \notin left /\ s \notin back
      BY <2>1, <3>1, <3>2, <3>7 DEF FeedInv, Live
    <3>8. QED
      BY <3>5, <3>6, <3>7
  <2>6. CASE UNCHANGED FeedTimes(s) /\ watch_list'[s] \in {watch_list[s], "expired"}
    <3> SUFFICES ASSUME Live(s)' PROVE FeedInv(s)'
      BY DEF FeedInv
    <3>1. /\ Live(s)
          /\ UNCHANGED <<ride.started, ride.gbfs_left_feed_at, ride.gbfs_reappeared_at>>
      BY <2>6 DEF FeedTimes, Live
    <3>2. ride'.started <= now' /\ ride'.gbfs_left_feed_at <= now'
      BY <1>1, <2>1, <3>1 DEF FeedInv, Never
    <3>3. ASSUME NEW c \in CycleLines, watch_list'[s] = "left_feed", cycle'[c].pc = "observed"
          PROVE  /\ ride'.started <= cycle'[c].snapshot_time
                 /\ ride'.gbfs_left_feed_at <= cycle'[c].snapshot_time
      <4>1. CASE Fetches(c)
        BY <2>1, <3>1, <4>1 DEF FeedInv, Fetches
      <4>2. CASE KeepsOrDrops(c)
        BY <2>1, <2>6, <3>1, <3>3, <4>2 DEF FeedInv, KeepsOrDrops
      <4>3. QED
        BY <4>1, <4>2, CycleEffect
    <3>4. QED
      BY <2>1, <2>6, <3>1, <3>2, <3>3 DEF FeedInv
  <2>7. QED
    BY <2>3, <2>4, <2>5, <2>6, FeedEffect
<1>5. QED
  BY <1>3, <1>4 DEF FeedInvs

\* The feed has a vehicle back only after it was out and after the ride began, for any
\* number of rides and crontab lines, as long as no two cycles overlap.
THEOREM FeedEndAfterStartHolds == Spec /\ []NoOverlap => []FeedEndAfterStart
<1>1. Init => FeedInvs
  BY DEF Init, FeedInvs, FeedInv, BlankRide, Live, Idle
<1>2. FeedInvs => FeedEndAfterStart
  BY DEF FeedInvs, FeedInv, FeedEndAfterStart, Seen
<1>3. Spec => []WindowInvs
  <2>1. QED
    BY InitWindow, StepWindow, TypeCorrect, PTL DEF Spec
<1>4. QED
  BY <1>1, <1>2, <1>3, StepFeed, TypeCorrect, PTL DEF Spec
==============================================================================
