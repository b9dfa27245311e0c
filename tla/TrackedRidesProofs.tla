------------------------- MODULE TrackedRidesProofs -------------------------
(***************************************************************************)
(* Theorems about TrackedRides for every value of its constants: its types, *)
(* the cap on what a ride earns, one open ride of an account, and what any  *)
(* step can do to one ride (StepEffect), on which SettlementProofs rests.   *)
(***************************************************************************)
EXTENDS TrackedRidesProps, TLAPS

-----------------------------------------------------------------------------
(* The ledger. *)

\* What one credit does to a ride's ledger: it keeps its type, it never lowers a
\* row, and it leaves the ride's total within the cap if it was within it.
LEMMA CreditPointsSound ==
    ASSUME NEW ledger \in RideLedger, NEW action \in RideActions, NEW points \in Nat
    PROVE  /\ CreditPoints(ledger, action, points) \in RideLedger
           /\ \A a \in RideActions : CreditPoints(ledger, action, points)[a] >= ledger[a]
           /\ RidePoints(ledger) <= MaxPointsPerRide =>
                  RidePoints(CreditPoints(ledger, action, points)) <= MaxPointsPerRide
<1> DEFINE grant == ApplyRideCap(ledger, points)
<1>1. \A a \in RideActions : ledger[a] \in Nat
  BY DEF RideLedger
<1>2. RidePoints(ledger) \in Nat
  BY <1>1 DEF RidePoints, RideActions
<1>3. /\ grant \in Nat
      /\ RidePoints(ledger) <= MaxPointsPerRide =>
             RidePoints(ledger) + grant <= MaxPointsPerRide
  BY <1>2, CapAssumption DEF ApplyRideCap
<1>4. CASE ledger[action] # 0
  BY <1>1, <1>4 DEF CreditPoints
<1>5. CASE ledger[action] = 0
  <2> DEFINE credited == [ledger EXCEPT ![action] = grant]
  <2>1. CreditPoints(ledger, action, points) = credited
    BY <1>5 DEF CreditPoints
  <2> HIDE DEF grant
  <2>2. credited \in RideLedger
    BY <1>3 DEF RideLedger
  <2>3. \A a \in RideActions : credited[a] >= ledger[a]
    BY <1>1, <1>3, <1>5 DEF RideLedger
  <2>4. RidePoints(credited) = RidePoints(ledger) + grant
    BY <1>1, <1>3, <1>5 DEF RidePoints, RideLedger, RideActions
  <2>5. QED
    BY <2>1, <2>2, <2>3, <2>4, <1>3
<1>6. QED
  BY <1>4, <1>5

\* The same of a credit whose preconditions may fail.
LEMMA CreditIfSound ==
    ASSUME NEW due \in BOOLEAN, NEW ledger \in RideLedger, NEW action \in RideActions,
           NEW points \in Nat
    PROVE  /\ CreditIf(due, ledger, action, points) \in RideLedger
           /\ \A a \in RideActions : CreditIf(due, ledger, action, points)[a] >= ledger[a]
           /\ RidePoints(ledger) <= MaxPointsPerRide =>
                  RidePoints(CreditIf(due, ledger, action, points)) <= MaxPointsPerRide
<1>1. \A a \in RideActions : ledger[a] \in Nat
  BY DEF RideLedger
<1>2. QED
  BY <1>1, CreditPointsSound DEF CreditIf

\* A credit writes the row of its own action and no other.
LEMMA CreditTouchesOneRow ==
    ASSUME NEW due \in BOOLEAN, NEW ledger \in RideLedger, NEW action \in RideActions,
           NEW points \in Nat, NEW other \in RideActions \ {action}
    PROVE  CreditIf(due, ledger, action, points)[other] = ledger[other]
BY DEF CreditIf, CreditPoints, RideLedger

\* The awards of a donated track: the ledger keeps its type and its cap, and the
\* points it adds for the track are a natural number.
LEMMA DonationAwardsSound ==
    ASSUME TypeOK, NEW r \in Rides, NEW km \in Distances
    PROVE  /\ WithDonationAwards(r, km) \in RideLedger
           /\ Granted(r, WithDonationAwards(r, km)) \in Nat
           /\ RidePoints(user_points[r]) <= MaxPointsPerRide =>
                  RidePoints(WithDonationAwards(r, km)) <= MaxPointsPerRide
<1> DEFINE battery == CreditIf(BatteryDue(tracked_rides[r]), user_points[r],
                               "battery_contribution", BatteryContribution(km))
           both == CreditIf(NavDue(r), battery, "nav_distance_bonus", NavDistanceBonus(km))
<1>1. /\ BatteryContribution(km) \in Nat /\ NavDistanceBonus(km) \in Nat
      /\ user_points[r] \in RideLedger
      /\ BatteryDue(tracked_rides[r]) \in BOOLEAN /\ NavDue(r) \in BOOLEAN
  <2>1. km \in Nat
    BY InputAssumption
  <2>2. BatteryContribution(km) \in Nat /\ NavDistanceBonus(km) \in Nat
    BY <2>1 DEF BatteryContribution, NavDistanceBonus
  <2>3. tracked_rides[r].batteries \in BOOLEAN
    BY DEF TypeOK, TrackedRide
  <2>4. QED
    BY <2>2, <2>3 DEF TypeOK, BatteryDue, NavDue
<1>2. /\ battery \in RideLedger
      /\ \A a \in RideActions : battery[a] >= user_points[r][a]
      /\ RidePoints(user_points[r]) <= MaxPointsPerRide =>
             RidePoints(battery) <= MaxPointsPerRide
  <2>1. "battery_contribution" \in RideActions
    BY DEF RideActions
  <2>2. QED
    BY <1>1, <2>1, CreditIfSound
<1> HIDE DEF battery
<1>3. /\ both \in RideLedger
      /\ \A a \in RideActions : both[a] >= battery[a]
      /\ RidePoints(battery) <= MaxPointsPerRide =>
             RidePoints(both) <= MaxPointsPerRide
  <2>1. "nav_distance_bonus" \in RideActions
    BY DEF RideActions
  <2>2. QED
    BY <1>1, <1>2, <2>1, CreditIfSound
<1>4. WithDonationAwards(r, km) = both
  BY DEF WithDonationAwards, battery
<1> HIDE DEF both
<1>5. DonationPoints(both) - DonationPoints(user_points[r]) \in Nat
  <2>1. /\ "battery_contribution" \in RideActions /\ "nav_distance_bonus" \in RideActions
    BY DEF RideActions
  <2>2. \A ledger \in RideLedger : \A a \in RideActions : ledger[a] \in Nat
    BY DEF RideLedger
  <2>3. QED
    BY <1>1, <1>2, <1>3, <2>1, <2>2 DEF DonationPoints
<1>6. QED
  BY <1>2, <1>3, <1>4, <1>5 DEF Granted

\* The awards of a survey: the ledger keeps its type and its cap, and what the track
\* of the ride has earned.
LEMMA SurveySound ==
    ASSUME TypeOK, NEW r \in Rides, NEW q, NEW form \in SurveyForms,
           SubmitSurvey(r, q, form)
    PROVE  \E ledger \in RideLedger :
               /\ user_points' = [user_points EXCEPT ![r] = ledger]
               /\ RidePoints(user_points[r]) <= MaxPointsPerRide =>
                      RidePoints(ledger) <= MaxPointsPerRide
               /\ \A a \in {"battery_contribution", "nav_distance_bonus"} :
                      ledger[a] = user_points[r][a]
<1> DEFINE options == tracked_rides[r].options
           due1 == form.feedback /\ "end_survey" \in options /\ "own_device" \notin options
           due2 == form.rating /\ q # NoRoute /\ "nav_improvement" \in options
           due3 == form.words # 0 /\ "nav_improvement" \in options
           survey == CreditIf(due1, user_points[r], "ride_survey", RideSurveyPoints)
           route == CreditIf(due2, survey, "nav_route_feedback", NavRouteFeedbackPoints)
           words == CreditIf(due3, route, "nav_qualitative_feedback", form.words)
           track == {"battery_contribution", "nav_distance_bonus"}
<1>1. /\ {"ride_survey", "nav_route_feedback", "nav_qualitative_feedback"} \subseteq RideActions
      /\ RideSurveyPoints \in Nat /\ NavRouteFeedbackPoints \in Nat
  BY DEF RideActions, RideSurveyPoints, NavRouteFeedbackPoints
<1>2. form.words \in Nat /\ form.feedback \in BOOLEAN /\ form.rating \in BOOLEAN
  BY InputAssumption
<1>3. due1 \in BOOLEAN /\ due2 \in BOOLEAN /\ due3 \in BOOLEAN
  BY <1>2
<1>4. user_points[r] \in RideLedger
  BY DEF TypeOK
<1>5. user_points' = [user_points EXCEPT ![r] = words]
  BY DEF SubmitSurvey
<1> HIDE DEF due1, due2, due3
<1>6. /\ survey \in RideLedger
      /\ RidePoints(user_points[r]) <= MaxPointsPerRide =>
             RidePoints(survey) <= MaxPointsPerRide
      /\ \A a \in track : survey[a] = user_points[r][a]
  <2>1. /\ survey \in RideLedger
        /\ RidePoints(user_points[r]) <= MaxPointsPerRide => RidePoints(survey) <= MaxPointsPerRide
    BY <1>1, <1>3, <1>4, CreditIfSound
  <2>2. ASSUME NEW a \in track PROVE survey[a] = user_points[r][a]
    <3>1. a \in RideActions \ {"ride_survey"}
      BY DEF RideActions
    <3>2. QED
      BY <1>1, <1>3, <1>4, <3>1, CreditTouchesOneRow
  <2>3. QED
    BY <2>1, <2>2
<1> HIDE DEF survey
<1>7. /\ route \in RideLedger
      /\ RidePoints(survey) <= MaxPointsPerRide => RidePoints(route) <= MaxPointsPerRide
      /\ \A a \in track : route[a] = survey[a]
  <2>1. /\ route \in RideLedger
        /\ RidePoints(survey) <= MaxPointsPerRide => RidePoints(route) <= MaxPointsPerRide
    BY <1>1, <1>3, <1>6, CreditIfSound
  <2>2. ASSUME NEW a \in track PROVE route[a] = survey[a]
    <3>1. a \in RideActions \ {"nav_route_feedback"}
      BY DEF RideActions
    <3>2. QED
      BY <1>1, <1>3, <1>6, <3>1, CreditTouchesOneRow
  <2>3. QED
    BY <2>1, <2>2
<1> HIDE DEF route
<1>8. /\ words \in RideLedger
      /\ RidePoints(route) <= MaxPointsPerRide => RidePoints(words) <= MaxPointsPerRide
      /\ \A a \in track : words[a] = route[a]
  <2>1. /\ words \in RideLedger
        /\ RidePoints(route) <= MaxPointsPerRide => RidePoints(words) <= MaxPointsPerRide
    BY <1>1, <1>2, <1>3, <1>7, CreditIfSound
  <2>2. ASSUME NEW a \in track PROVE words[a] = route[a]
    <3>1. a \in RideActions \ {"nav_qualitative_feedback"}
      BY DEF RideActions
    <3>2. QED
      BY <1>1, <1>2, <1>3, <1>7, <3>1, CreditTouchesOneRow
  <2>3. QED
    BY <2>1, <2>2
<1> HIDE DEF words
<1>9. QED
  BY <1>5, <1>6, <1>7, <1>8

-----------------------------------------------------------------------------
(* Types. *)

\* The rows that stand for "no row" have the type of a row.
LEMMA BlankRowsType ==
    /\ \A state \in {"none", "live", "deleted"} : BlankRide(state) \in TrackedRide
    /\ NoDonation \in TrackDonation
    /\ BlankRoute \in RideRoute
<1>1. /\ (CHOOSE a \in Accounts : TRUE) \in Accounts
      /\ (CHOOSE v \in Vehicles : TRUE) \in Vehicles
      /\ (CHOOSE d \in Distances : TRUE) \in Distances
  BY InputAssumption
<1>2. 0 \in Time
  BY ClockAssumption DEF Time
<1>3. \A state \in {"none", "live", "deleted"} : BlankRide(state) \in TrackedRide
  BY <1>1, <1>2 DEF BlankRide, TrackedRide, RideStatus, Validation
<1>4. NoDonation \in TrackDonation
  BY <1>1, <1>2 DEF NoDonation, TrackDonation, PointsStatus
<1>5. BlankRoute \in RideRoute
  BY <1>1, <1>2 DEF BlankRoute, RideRoute
<1>6. QED
  BY <1>3, <1>4, <1>5

\* An idle cycle has the type of a cycle, and so has one with a ride less to settle.
LEMMA IdleType == Idle \in CycleRun
  BY ClockAssumption DEF Idle, CycleRun, Time

LEMMA RemainingType ==
    ASSUME TypeOK
    PROVE  /\ \A c \in CycleLines, r \in Rides : CycleRemaining(c, r) \in CycleRun
           /\ \A r \in Rides : ExpiryRemaining(r) \in ExpiryRun
<1>1. ASSUME NEW c \in CycleLines, NEW r \in Rides
      PROVE  CycleRemaining(c, r) \in CycleRun
  <2>1. cycle[c] \in CycleRun
    BY DEF TypeOK
  <2>2. [cycle[c] EXCEPT !.todo = @ \ {r}] \in CycleRun
    BY <2>1 DEF CycleRun
  <2>3. QED
    BY <2>2, IdleType DEF CycleRemaining
<1>2. ASSUME NEW r \in Rides
      PROVE  ExpiryRemaining(r) \in ExpiryRun
  BY DEF TypeOK, ExpiryRun, ExpiryRemaining
<1>3. QED
  BY <1>1, <1>2

\* A ride with its provisional verdict is a ride.
LEMMA ProvisionalType ==
    ASSUME NEW ride \in TrackedRide
    PROVE  WithProvisional(ride) \in TrackedRide
<1> DEFINE provisional == ProvisionalValidation(ride)
<1>1. /\ provisional.status \in Validation
      /\ provisional.reasons \in SUBSET Reasons
  BY DEF ProvisionalValidation, Validation, Reasons
<1>2. WithProvisional(ride) =
        [ride EXCEPT !.validation = provisional.status, !.reasons = provisional.reasons]
  BY DEF WithProvisional
<1> HIDE DEF provisional
<1>3. QED
  BY <1>1, <1>2 DEF TrackedRide

\* The initial state has its types.
LEMMA InitType == Init => TypeOK
<1> SUFFICES ASSUME Init PROVE TypeOK
  OBVIOUS
<1> USE DEF Init
<1>1. now \in Time /\ faults \in 0 .. MaxFaults
  BY ClockAssumption DEF Time
<1>2. /\ tracked_rides \in [Rides -> TrackedRide]
      /\ track_donations \in [Rides -> TrackDonation]
      /\ ride_routes \in [Routes -> RideRoute]
  BY BlankRowsType
<1>3. user_points \in [Rides -> RideLedger]
  BY DEF EmptyLedger, RideLedger
<1>4. referrals \in [Accounts -> Referrals \cup {"awarded", "none"}]
  OBVIOUS
<1>5. cycle \in [CycleLines -> CycleRun]
  BY <1>1, IdleType
<1>6. /\ watch_list \in [Rides -> WatchStatus]
      /\ expiry \in ExpiryRun
      /\ ride_surveys \subseteq Rides /\ battery_observations \subseteq Rides
  BY DEF WatchStatus, ExpiryRun
<1>7. QED
  BY <1>1, <1>2, <1>3, <1>4, <1>5, <1>6 DEF TypeOK

\* The rides and donations of a transaction that settles one ride keep their types.
LEMMA FinalizeType ==
    ASSUME TypeOK, NEW r \in Rides, FinalizeValidation(r)
    PROVE  /\ tracked_rides' \in [Rides -> TrackedRide]
           /\ track_donations' \in [Rides -> TrackDonation]
           /\ user_points' \in [Rides -> RideLedger]
           /\ battery_observations' \subseteq Rides
<1>1. CASE FinalizeNothing(r)
  BY <1>1 DEF FinalizeNothing, settlement, TypeOK
<1>2. CASE FinalizeProvisional(r)
  <2>1. WithProvisional(tracked_rides[r]) \in TrackedRide
    BY ProvisionalType DEF TypeOK
  <2>2. QED
    BY <1>2, <2>1 DEF FinalizeProvisional, TypeOK
<1>3. ASSUME NEW matches \in BOOLEAN, NEW usable \in BOOLEAN,
             FinalizeDonation(r, matches, usable)
      PROVE  /\ tracked_rides' \in [Rides -> TrackedRide]
             /\ track_donations' \in [Rides -> TrackDonation]
             /\ user_points' \in [Rides -> RideLedger]
             /\ battery_observations' \subseteq Rides
  <2> DEFINE donation == track_donations[r]
             eligible == EndMatches(tracked_rides[r], matches)
             verdict == IF eligible THEN "eligible" ELSE "ineligible"
             ledger == IF MayAward(verdict, donation.points_status)
                       THEN WithDonationAwards(r, donation.km) ELSE user_points[r]
             total == IF Granted(r, ledger) > 0 THEN Granted(r, ledger)
                      ELSE donation.points_awarded
  <2>1. /\ tracked_rides[r] \in TrackedRide /\ donation \in TrackDonation
        /\ user_points[r] \in RideLedger
    BY DEF TypeOK
  <2>2. donation.km \in Distances /\ donation.points_awarded \in Nat
    BY <2>1 DEF TrackDonation
  <2>3. ledger \in RideLedger /\ Granted(r, ledger) \in Int
    <3>1. Granted(r, user_points[r]) \in Int
      BY <2>1 DEF Granted, DonationPoints, RideLedger, RideActions
    <3>2. QED
      BY <2>1, <2>2, <3>1, DonationAwardsSound
  <2>4. total \in Nat
    BY <2>2, <2>3
  <2>5. now \in Time
    BY DEF TypeOK
  <2> HIDE DEF ledger, total
  <2>6. tracked_rides' \in [Rides -> TrackedRide]
    <3>1. tracked_rides' = [tracked_rides EXCEPT ![r] =
              [tracked_rides[r] EXCEPT !.validation = verdict,
                  !.reasons = IF eligible THEN {} ELSE {"end_mismatch"}]]
      BY <1>3 DEF FinalizeDonation, TypeOK
    <3>2. [tracked_rides[r] EXCEPT !.validation = verdict,
              !.reasons = IF eligible THEN {} ELSE {"end_mismatch"}] \in TrackedRide
      BY <2>1 DEF TrackedRide, Validation, Reasons
    <3>3. QED
      BY <3>1, <3>2 DEF TypeOK
  <2>7. track_donations' \in [Rides -> TrackDonation]
    <3>1. track_donations' = [track_donations EXCEPT ![r] =
              [donation EXCEPT !.points_settled_at = now, !.points_awarded = total]]
      BY <1>3 DEF FinalizeDonation, TypeOK, StampSettled, total, ledger
    <3>2. [donation EXCEPT !.points_settled_at = now, !.points_awarded = total]
              \in TrackDonation
      BY <2>1, <2>4, <2>5 DEF TrackDonation
    <3>3. QED
      BY <3>1, <3>2 DEF TypeOK
  <2>8. user_points' \in [Rides -> RideLedger]
    BY <1>3, <2>3 DEF FinalizeDonation, TypeOK, ledger
  <2>9. battery_observations' \subseteq Rides
    BY <1>3 DEF FinalizeDonation, TypeOK
  <2>10. QED
    BY <2>6, <2>7, <2>8, <2>9
<1>4. QED
  BY <1>1, <1>2, <1>3 DEF FinalizeValidation

\* Every step keeps the types.
LEMMA StepType == TypeOK /\ [Next]_vars => TypeOK'
<1> SUFFICES ASSUME TypeOK, [Next]_vars PROVE TypeOK'
  OBVIOUS
<1>1. ASSUME NEW r \in Rides, NEW a \in Accounts, NEW v \in Vehicles,
             NEW options \in OptionSets, StartRide(r, a, v, options)
      PROVE  TypeOK'
  <2>1. now + WatchDuration \in Nat /\ options \in SUBSET Options /\ now \in Time
    BY ClockAssumption, InputAssumption DEF TypeOK, Time
  <2>2. [BlankRide("live") EXCEPT !.account = a, !.vehicle = v, !.options = options,
            !.started = now, !.watch_expires_at = now + WatchDuration] \in TrackedRide
    <3>1. BlankRide("live") \in TrackedRide
      BY BlankRowsType
    <3>2. QED
      BY <2>1, <3>1 DEF TrackedRide
  <2>3. QED
    BY <1>1, <2>2 DEF StartRide, TypeOK, WatchStatus
<1>2. ASSUME NEW r \in Rides, NEW batteries \in BOOLEAN, EndRide(r, batteries)
      PROVE  TypeOK'
  <2>1. WithProvisional(tracked_rides[r]) \in TrackedRide
    BY ProvisionalType DEF TypeOK
  <2>2. [WithProvisional(tracked_rides[r]) EXCEPT !.status = "completed",
            !.ended = TRUE, !.batteries = batteries] \in TrackedRide
    BY <2>1 DEF TrackedRide, RideStatus
  <2>3. QED
    BY <1>2, <2>2 DEF EndRide, TypeOK
<1>3. ASSUME NEW r \in Rides, NEW clean \in BOOLEAN, NEW matches \in BOOLEAN,
             NEW inTime \in BOOLEAN, NEW usable \in BOOLEAN,
             NEW points_status \in PointsStatus, NEW km \in Distances,
             DonateTrack(r, clean, matches, points_status, km, inTime, usable)
      PROVE  TypeOK'
  <2> DEFINE ride == tracked_rides[r]
             verdict == Verdict(ride, clean, matches)
             standDown == StandDownCredit(ride.account, inTime)
             ledger == IF MayAward(verdict.status, points_status)
                       THEN WithDonationAwards(r, km) ELSE user_points[r]
             settled_at == SettledAt(verdict.status, now)
             total == Granted(r, ledger) + standDown
  <2>1. ride \in TrackedRide /\ user_points[r] \in RideLedger /\ now \in Time
    BY DEF TypeOK
  <2>2. verdict.status \in Validation /\ verdict.reasons \in SUBSET Reasons
    BY DEF Verdict, Validation, Reasons
  <2>3. settled_at \in Time \cup {Never}
    BY <2>1 DEF SettledAt
  <2>4. standDown \in Nat
    BY ClockAssumption DEF StandDownCredit
  <2>5. ledger \in RideLedger /\ Granted(r, ledger) \in Nat
    <3>1. Granted(r, user_points[r]) \in Nat
      BY <2>1 DEF Granted, DonationPoints, RideLedger, RideActions
    <3>2. QED
      BY <2>1, <3>1, DonationAwardsSound
  <2>6. total \in Nat
    BY <2>4, <2>5
  <2> HIDE DEF verdict, standDown, ledger, settled_at, total
  <2>7. tracked_rides' \in [Rides -> TrackedRide]
    <3>1. tracked_rides' = [tracked_rides EXCEPT ![r] =
              [ride EXCEPT !.donated = TRUE, !.validation = verdict.status,
                           !.reasons = verdict.reasons]]
      BY <1>3 DEF DonateTrack, TypeOK, verdict
    <3>2. [ride EXCEPT !.donated = TRUE, !.validation = verdict.status,
                       !.reasons = verdict.reasons] \in TrackedRide
      BY <2>1, <2>2 DEF TrackedRide
    <3>3. QED
      BY <3>1, <3>2 DEF TypeOK
  <2>8. track_donations' \in [Rides -> TrackDonation]
    <3>1. track_donations' = [track_donations EXCEPT ![r] =
              [row |-> "linked", donated_at |-> now, points_settled_at |-> settled_at,
               points_status |-> points_status, km |-> km, points_awarded |-> total,
               stand_down |-> standDown]]
      BY <1>3 DEF DonateTrack, verdict, standDown, ledger, settled_at, total
    <3>2. [row |-> "linked", donated_at |-> now, points_settled_at |-> settled_at,
           points_status |-> points_status, km |-> km, points_awarded |-> total,
           stand_down |-> standDown] \in TrackDonation
      BY <2>1, <2>3, <2>4, <2>6 DEF TrackDonation
    <3>3. QED
      BY <3>1, <3>2 DEF TypeOK
  <2>9. user_points' \in [Rides -> RideLedger]
    BY <1>3, <2>5 DEF DonateTrack, TypeOK, ledger, verdict
  <2>10. battery_observations' \subseteq Rides
    BY <1>3 DEF DonateTrack, TypeOK
  <2>11. referrals' \in [Accounts -> Referrals \cup {"awarded", "none"}]
    BY <1>3 DEF DonateTrack, TypeOK
  <2>12. QED
    BY <1>3, <2>7, <2>8, <2>9, <2>10, <2>11 DEF DonateTrack, TypeOK
<1>4. ASSUME NEW r \in Rides, NEW q \in Routes \cup {NoRoute}, NEW form \in SurveyForms,
             SubmitSurvey(r, q, form)
      PROVE  TypeOK'
  <2>1. ride_routes' \in [Routes -> RideRoute]
    <3>1. CASE UNCHANGED ride_routes
      BY <3>1 DEF TypeOK
    <3>2. CASE q \in Routes /\ ride_routes' = [ride_routes EXCEPT ![q].ride = r]
      BY <3>2 DEF TypeOK, RideRoute
    <3>3. QED
      BY <1>4, <3>1, <3>2 DEF SubmitSurvey
  <2>2. user_points' \in [Rides -> RideLedger]
    <3>1. PICK ledger \in RideLedger : user_points' = [user_points EXCEPT ![r] = ledger]
      BY <1>4, SurveySound
    <3>2. QED
      BY <3>1 DEF TypeOK
  <2>3. QED
    BY <1>4, <2>1, <2>2 DEF SubmitSurvey, TypeOK
<1>5. ASSUME NEW q \in Routes, NEW a \in Accounts, NEW r \in Rides \cup {NoRide},
             CreateRideRoute(q, a, r)
      PROVE  TypeOK'
  <2>1. [row |-> "owned", account |-> a, ride |-> r, created_at |-> now] \in RideRoute
    BY DEF RideRoute, TypeOK
  <2>2. QED
    BY <1>5, <2>1 DEF CreateRideRoute, TypeOK
<1>6. ASSUME NEW gone \in SUBSET Rides, DeleteRides(gone)
      PROVE  TypeOK'
  <2>1. tracked_rides' \in [Rides -> TrackedRide]
    BY <1>6, BlankRowsType DEF DeleteRides, TypeOK
  <2>2. track_donations' \in [Rides -> TrackDonation]
    BY <1>6, BlankRowsType DEF DeleteRides, TypeOK
  <2>3. ride_routes' \in [Routes -> RideRoute]
    <3>1. MaxTime \in Time
      BY ClockAssumption DEF Time
    <3>2. [BlankRoute EXCEPT !.created_at = MaxTime] \in RideRoute
      BY <3>1, BlankRowsType DEF RideRoute
    <3>3. QED
      BY <1>6, <3>2 DEF DeleteRides, TypeOK
  <2>4. QED
    BY <1>6, <2>1, <2>2, <2>3 DEF DeleteRides, TypeOK, WatchStatus
<1>7. ASSUME NEW c \in CycleLines, NEW checkedOut \in SUBSET Vehicles,
             CycleFetch(c, checkedOut)
      PROVE  TypeOK'
  <2>1. [pc |-> "observed", snapshot_time |-> now, checked_out |-> checkedOut, todo |-> {}]
          \in CycleRun
    BY DEF TypeOK, CycleRun
  <2>2. QED
    BY <1>7, <2>1 DEF CycleFetch, TypeOK, settlement
<1>8. ASSUME NEW c \in CycleLines, CycleWatch(c)
      PROVE  TypeOK'
  <2> DEFINE out(r) == tracked_rides[r].vehicle \in cycle[c].checked_out
             left == {r \in OpenWatches(c) : NewlyLeft(watch_list[r], out(r))}
             back == {r \in OpenWatches(c) : NewlyReappeared(watch_list[r], out(r))}
             seen == cycle[c].snapshot_time
  <2>1. seen \in Time /\ back \in SUBSET Rides
    <3>1. cycle[c] \in CycleRun
      BY DEF TypeOK
    <3>2. QED
      BY <3>1 DEF CycleRun, OpenWatches
  <2>2. ASSUME NEW ride \in TrackedRide
        PROVE  /\ MarkLeft(ride, seen) \in TrackedRide
               /\ [ride EXCEPT !.gbfs_reappeared_at = seen] \in TrackedRide
    <3> HIDE DEF seen
    <3>1. [ride EXCEPT !.status = "left_feed", !.gbfs_left_feed_at = seen] \in TrackedRide
      BY <2>1 DEF TrackedRide, RideStatus
    <3>2. [ride EXCEPT !.gbfs_reappeared_at = seen] \in TrackedRide
      BY <2>1 DEF TrackedRide
    <3>3. QED
      BY <3>1, <3>2 DEF MarkLeft
  <2>3. tracked_rides' \in [Rides -> TrackedRide]
    <3> HIDE DEF left, back, seen
    <3>1. tracked_rides' = [r \in Rides |->
              IF r \in left THEN MarkLeft(tracked_rides[r], seen)
              ELSE IF r \in back THEN [tracked_rides[r] EXCEPT !.gbfs_reappeared_at = seen]
              ELSE tracked_rides[r]]
      BY <1>8 DEF CycleWatch, left, back, seen
    <3>2. QED
      BY <2>2, <3>1 DEF TypeOK
  <2>4. watch_list' \in [Rides -> WatchStatus]
    BY <1>8 DEF CycleWatch, TypeOK, WatchStatus
  <2>5. cycle' \in [CycleLines -> CycleRun]
    <3>1. Idle \in CycleRun /\ [Idle EXCEPT !.pc = "finalizing", !.todo = back] \in CycleRun
      BY <2>1, IdleType DEF CycleRun
    <3>2. QED
      BY <1>8, <3>1 DEF CycleWatch, TypeOK
  <2>6. QED
    BY <1>8, <2>3, <2>4, <2>5 DEF CycleWatch, TypeOK
<1>9. ASSUME NEW c \in CycleLines, NEW r \in Rides, CycleFinalize(c, r)
      PROVE  TypeOK'
  BY <1>9, FinalizeType, RemainingType DEF CycleFinalize, TypeOK
<1>10. ASSUME NEW c \in CycleLines, NEW r \in Rides, CycleFinalizeFails(c, r)
       PROVE  TypeOK'
  <2>1. faults' \in 0 .. MaxFaults
    BY <1>10, ClockAssumption DEF CycleFinalizeFails, TypeOK
  <2>2. QED
    BY <1>10, <2>1, RemainingType DEF CycleFinalizeFails, TypeOK, settlement
<1>11. ASSUME NEW c \in CycleLines, CycleAbandoned(c)
       PROVE  TypeOK'
  <2>1. faults' \in 0 .. MaxFaults
    BY <1>11, ClockAssumption DEF CycleAbandoned, TypeOK
  <2>2. QED
    BY <1>11, <2>1, IdleType DEF CycleAbandoned, TypeOK, settlement
<1>12. CASE ExpireStaleWatches
  <2>1. tracked_rides' \in [Rides -> TrackedRide]
    <3>1. \A ride \in TrackedRide : [ride EXCEPT !.status = "expired"] \in TrackedRide
      BY DEF TrackedRide, RideStatus
    <3>2. QED
      BY <1>12, <3>1 DEF ExpireStaleWatches, TypeOK
  <2>2. watch_list' \in [Rides -> WatchStatus]
    BY <1>12 DEF ExpireStaleWatches, TypeOK, WatchStatus
  <2>3. expiry' \in ExpiryRun
    BY <1>12 DEF ExpireStaleWatches, TypeOK, ExpiryRun, StaleRides
  <2>4. QED
    BY <1>12, <2>1, <2>2, <2>3 DEF ExpireStaleWatches, TypeOK
<1>13. ASSUME NEW r \in Rides, ExpireFinalize(r)
       PROVE  TypeOK'
  BY <1>13, FinalizeType, RemainingType DEF ExpireFinalize, TypeOK
<1>14. ASSUME NEW r \in Rides, ExpireFinalizeFails(r)
       PROVE  TypeOK'
  <2>1. faults' \in 0 .. MaxFaults
    BY <1>14, ClockAssumption DEF ExpireFinalizeFails, TypeOK
  <2>2. QED
    BY <1>14, <2>1, RemainingType DEF ExpireFinalizeFails, TypeOK, settlement
<1>15. CASE ExpiryDies
  <2>1. faults' \in 0 .. MaxFaults
    BY <1>15, ClockAssumption DEF ExpiryDies, TypeOK
  <2>2. QED
    BY <1>15, <2>1 DEF ExpiryDies, TypeOK, settlement, ExpiryRun
<1>16. CASE DeidentifyDonations
  <2>1. \A r \in Rides : [track_donations[r] EXCEPT !.row = "unlinked"] \in TrackDonation
    BY DEF TypeOK, TrackDonation
  <2>2. \A q \in Routes : [ride_routes[q] EXCEPT !.row = "unowned", !.ride = NoRide] \in RideRoute
    BY DEF TypeOK, RideRoute
  <2>3. QED
    BY <1>16, <2>1, <2>2 DEF DeidentifyDonations, TypeOK
<1>17. CASE Tick
  <2>1. now' \in Time
    BY <1>17, ClockAssumption DEF Tick, TypeOK, Time
  <2>2. QED
    BY <1>17, <2>1 DEF Tick, TypeOK, settlement
<1>18. CASE UNCHANGED vars
  BY <1>18 DEF vars, TypeOK
<1>19. CASE RiderNext
  <2>1. ASSUME NEW r \in Rides, DeleteTrackedRide(r) PROVE TypeOK'
    BY <1>6, <2>1 DEF DeleteTrackedRide
  <2>2. ASSUME NEW a \in Accounts, DeleteAllTrackedRides(a) PROVE TypeOK'
    BY <1>6, <2>2 DEF DeleteAllTrackedRides
  <2>3. QED
    BY <1>1, <1>2, <1>3, <1>4, <1>5, <1>19, <2>1, <2>2 DEF RiderNext
<1>20. CASE CycleNext
  BY <1>7, <1>8, <1>9, <1>10, <1>11, <1>20 DEF CycleNext
<1>21. CASE CronNext
  BY <1>12, <1>13, <1>14, <1>15, <1>16, <1>21 DEF CronNext
<1>22. QED
  BY <1>17, <1>18, <1>19, <1>20, <1>21 DEF Next

\* The tables and the in-flight jobs keep their types in every behaviour.
THEOREM TypeCorrect == Spec => []TypeOK
<1>1. QED
  BY InitType, StepType, PTL DEF Spec

-----------------------------------------------------------------------------
(* The cap.  It is inductive given the types, which say that what a ledger   *)
(* holds and what an award adds are natural numbers.                         *)

\* A settling transaction leaves every ride within the cap.
LEMMA FinalizeCap ==
    ASSUME TypeOK, RideCap, NEW r \in Rides, FinalizeValidation(r)
    PROVE  RideCap'
<1>1. CASE UNCHANGED user_points
  BY <1>1 DEF RideCap
<1>2. ASSUME NEW matches \in BOOLEAN, NEW usable \in BOOLEAN,
             FinalizeDonation(r, matches, usable)
      PROVE  RideCap'
  <2>1. track_donations[r].km \in Distances
    <3>1. track_donations[r] \in TrackDonation
      BY DEF TypeOK
    <3>2. QED
      BY <3>1 DEF TrackDonation
  <2>2. \/ user_points' = [user_points EXCEPT ![r] = user_points[r]]
        \/ user_points' = [user_points EXCEPT ![r] =
                               WithDonationAwards(r, track_donations[r].km)]
    BY <1>2 DEF FinalizeDonation
  <2>3. QED
    BY <2>1, <2>2, DonationAwardsSound DEF RideCap, TypeOK
<1>3. QED
  BY <1>1, <1>2 DEF FinalizeValidation, FinalizeNothing, FinalizeProvisional, settlement

\* Every step does.
LEMMA StepCap == TypeOK /\ RideCap /\ [Next]_vars => RideCap'
<1> SUFFICES ASSUME TypeOK, RideCap, [Next]_vars PROVE RideCap'
  OBVIOUS
<1>1. CASE UNCHANGED user_points
  BY <1>1 DEF RideCap
<1>2. ASSUME NEW r \in Rides, NEW clean \in BOOLEAN, NEW matches \in BOOLEAN,
             NEW inTime \in BOOLEAN, NEW usable \in BOOLEAN,
             NEW points_status \in PointsStatus, NEW km \in Distances,
             DonateTrack(r, clean, matches, points_status, km, inTime, usable)
      PROVE  RideCap'
  <2>1. \/ user_points' = [user_points EXCEPT ![r] = user_points[r]]
        \/ user_points' = [user_points EXCEPT ![r] = WithDonationAwards(r, km)]
    BY <1>2 DEF DonateTrack
  <2>2. QED
    BY <2>1, DonationAwardsSound DEF RideCap, TypeOK
<1>3. ASSUME NEW r \in Rides, NEW q \in Routes \cup {NoRoute}, NEW form \in SurveyForms,
             SubmitSurvey(r, q, form)
      PROVE  RideCap'
  <2>1. PICK ledger \in RideLedger :
            /\ user_points' = [user_points EXCEPT ![r] = ledger]
            /\ RidePoints(user_points[r]) <= MaxPointsPerRide =>
                   RidePoints(ledger) <= MaxPointsPerRide
    BY <1>3, SurveySound
  <2>2. QED
    BY <2>1 DEF RideCap, TypeOK
<1>4. CASE RiderNext
  <2>1. \A r \in Rides, a \in Accounts, v \in Vehicles, options \in OptionSets :
            StartRide(r, a, v, options) => UNCHANGED user_points
    BY DEF StartRide
  <2>2. \A r \in Rides, batteries \in BOOLEAN :
            EndRide(r, batteries) => UNCHANGED user_points
    BY DEF EndRide
  <2>3. \A q \in Routes, a \in Accounts, r \in Rides \cup {NoRide} :
            CreateRideRoute(q, a, r) => UNCHANGED user_points
    BY DEF CreateRideRoute
  <2>4. /\ \A r \in Rides : DeleteTrackedRide(r) => UNCHANGED user_points
        /\ \A a \in Accounts : DeleteAllTrackedRides(a) => UNCHANGED user_points
    BY DEF DeleteTrackedRide, DeleteAllTrackedRides, DeleteRides
  <2>5. QED
    BY <1>1, <1>2, <1>3, <1>4, <2>1, <2>2, <2>3, <2>4 DEF RiderNext
<1>5. CASE CycleNext
  BY <1>1, <1>5, FinalizeCap DEF CycleNext, CycleFetch, CycleWatch, CycleFinalize,
     CycleFinalizeFails, CycleAbandoned, settlement
<1>6. CASE CronNext
  BY <1>1, <1>6, FinalizeCap DEF CronNext, ExpireStaleWatches, ExpireFinalize,
     ExpireFinalizeFails, ExpiryDies, DeidentifyDonations, settlement
<1>7. QED
  BY <1>1, <1>4, <1>5, <1>6 DEF Next, Tick, settlement, vars

\* No ride ever earns more than MAX_POINTS_PER_RIDE, whatever the cap, the
\* distances, the awards' order and the number of rides are.
THEOREM RideCapHolds == Spec => []RideCap
<1>1. Init => RideCap
  <2>1. RidePoints(EmptyLedger) = 0
    BY DEF EmptyLedger, RidePoints, RideActions
  <2>2. QED
    BY <2>1, CapAssumption DEF Init, RideCap
<1>2. QED
  BY <1>1, StepCap, TypeCorrect, PTL DEF Spec

-----------------------------------------------------------------------------
(* What a step does to one ride.                                             *)

\* The points that the track of r has earned.
TrackPoints(r) ==
    <<user_points[r]["battery_contribution"], user_points[r]["nav_distance_bonus"]>>

\* It leaves the ride, its donation and its track's points alone.
Kept(r) == UNCHANGED <<tracked_rides[r], track_donations[r], TrackPoints(r)>>

\* It only notes where the feed or the clock has the ride; a time of return, once
\* there, is never taken back.
Noted(r) ==
    LET ride == tracked_rides[r] IN
    /\ UNCHANGED <<ride.row, ride.account, ride.options, ride.started, ride.ended,
                   ride.watch_expires_at, ride.donated, ride.validation, ride.reasons>>
    /\ ride.gbfs_reappeared_at' = Never => ride.gbfs_reappeared_at = Never
    /\ UNCHANGED <<track_donations[r], TrackPoints(r)>>

\* It takes the link to its rider from the donation.
Unlinked(r) ==
    /\ track_donations'[r] = [track_donations[r] EXCEPT !.row = "unlinked"]
    /\ track_donations[r].row = "linked"
    /\ UNCHANGED <<tracked_rides[r], TrackPoints(r)>>

\* It deletes the ride, with its watch and a donation still linked to it.
Removed(r) ==
    /\ Live(r) /\ tracked_rides'[r] = BlankRide("deleted") /\ watch_list'[r] = "none"
    /\ track_donations'[r] = IF track_donations[r].row = "linked" THEN NoDonation
                             ELSE track_donations[r]
    /\ UNCHANGED TrackPoints(r)

Starts(r) == \E a \in Accounts, v \in Vehicles, options \in OptionSets : StartRide(r, a, v, options)
Ends(r) == \E batteries \in BOOLEAN : EndRide(r, batteries)
Donates(r) ==
    \E clean, matches, inTime, usable \in BOOLEAN, points_status \in PointsStatus, km \in Distances :
        DonateTrack(r, clean, matches, points_status, km, inTime, usable)

\* A finisher of a cycle or of the expiry holds r.
BeingFinalized(r) == r \in expiry.todo \/ \E c \in CycleLines : r \in cycle[c].todo

Settles(r) ==
    /\ BeingFinalized(r)
    /\ \E matches, usable \in BOOLEAN : FinalizeDonation(r, matches, usable)

Refreshes(r) == FinalizeProvisional(r)

\* The steps that may change what is kept of a ride, and how.
Effect(r) ==
    \/ Kept(r) \/ Noted(r) \/ Unlinked(r) \/ Removed(r)
    \/ Starts(r) \/ Ends(r) \/ Donates(r) \/ Refreshes(r) \/ Settles(r)

\* A settling transaction changes the ride it settles and no other.
LEMMA FinalizeEffect ==
    ASSUME TypeOK, NEW r \in Rides, FinalizeValidation(r), BeingFinalized(r),
           NEW s \in Rides
    PROVE  Effect(s)
<1>1. CASE FinalizeNothing(r)
  BY <1>1 DEF FinalizeNothing, settlement, Effect, Kept, TrackPoints
<1>2. CASE FinalizeProvisional(r)
  <2>1. CASE s = r
    BY <1>2, <2>1 DEF Effect, Refreshes
  <2>2. CASE s # r
    BY <1>2, <2>2 DEF FinalizeProvisional, TypeOK, Effect, Kept, TrackPoints
  <2>3. QED
    BY <2>1, <2>2
<1>3. ASSUME NEW matches \in BOOLEAN, NEW usable \in BOOLEAN,
             FinalizeDonation(r, matches, usable)
      PROVE  Effect(s)
  <2>1. CASE s = r
    BY <1>3, <2>1 DEF Effect, Settles
  <2>2. CASE s # r
    BY <1>3, <2>2 DEF FinalizeDonation, TypeOK, Effect, Kept, TrackPoints
  <2>3. QED
    BY <2>1, <2>2
<1>4. QED
  BY <1>1, <1>2, <1>3 DEF FinalizeValidation

\* Every step has one of these effects on every ride.
LEMMA StepEffect ==
    ASSUME TypeOK, [Next]_vars, NEW s \in Rides
    PROVE  Effect(s)
<1>1. ASSUME UNCHANGED settlement PROVE Effect(s)
  BY <1>1 DEF settlement, Effect, Kept, TrackPoints
<1>2. CASE RiderNext
  <2>1. ASSUME NEW r \in Rides, NEW a \in Accounts, NEW v \in Vehicles,
               NEW options \in OptionSets, StartRide(r, a, v, options)
        PROVE  Effect(s)
    <3>1. CASE s = r
      BY <2>1, <3>1 DEF Effect, Starts
    <3>2. CASE s # r
      BY <2>1, <3>2 DEF StartRide, TypeOK, Effect, Kept, TrackPoints
    <3>3. QED
      BY <3>1, <3>2
  <2>2. ASSUME NEW r \in Rides, NEW batteries \in BOOLEAN, EndRide(r, batteries)
        PROVE  Effect(s)
    <3>1. CASE s = r
      BY <2>2, <3>1 DEF Effect, Ends
    <3>2. CASE s # r
      BY <2>2, <3>2 DEF EndRide, TypeOK, Effect, Kept, TrackPoints
    <3>3. QED
      BY <3>1, <3>2
  <2>3. ASSUME NEW r \in Rides, NEW clean \in BOOLEAN, NEW matches \in BOOLEAN,
               NEW inTime \in BOOLEAN, NEW usable \in BOOLEAN,
               NEW points_status \in PointsStatus, NEW km \in Distances,
               DonateTrack(r, clean, matches, points_status, km, inTime, usable)
        PROVE  Effect(s)
    <3>1. CASE s = r
      BY <2>3, <3>1 DEF Effect, Donates
    <3>2. CASE s # r
      BY <2>3, <3>2 DEF DonateTrack, TypeOK, Effect, Kept, TrackPoints
    <3>3. QED
      BY <3>1, <3>2
  <2>4. ASSUME NEW r \in Rides, NEW q \in Routes \cup {NoRoute}, NEW form \in SurveyForms,
               SubmitSurvey(r, q, form)
        PROVE  Effect(s)
    <3>1. PICK ledger \in RideLedger :
              /\ user_points' = [user_points EXCEPT ![r] = ledger]
              /\ \A a \in {"battery_contribution", "nav_distance_bonus"} :
                     ledger[a] = user_points[r][a]
      BY <2>4, SurveySound
    <3>2. UNCHANGED TrackPoints(s)
      BY <3>1 DEF TrackPoints, TypeOK
    <3>3. QED
      BY <2>4, <3>2 DEF SubmitSurvey, Effect, Kept
  <2>5. ASSUME NEW q \in Routes, NEW a \in Accounts, NEW r \in Rides \cup {NoRide},
               CreateRideRoute(q, a, r)
        PROVE  Effect(s)
    BY <1>1, <2>5 DEF CreateRideRoute, settlement
  <2>6. ASSUME NEW gone \in SUBSET Rides, \A r \in gone : Live(r), DeleteRides(gone)
        PROVE  Effect(s)
    <3>1. CASE s \in gone
      BY <2>6, <3>1 DEF DeleteRides, Effect, Removed, TrackPoints
    <3>2. CASE s \notin gone
      BY <2>6, <3>2 DEF DeleteRides, Effect, Kept, TrackPoints
    <3>3. QED
      BY <3>1, <3>2
  <2>7. ASSUME NEW r \in Rides, DeleteTrackedRide(r) PROVE Effect(s)
    BY <2>6, <2>7 DEF DeleteTrackedRide
  <2>8. ASSUME NEW a \in Accounts, DeleteAllTrackedRides(a) PROVE Effect(s)
    BY <2>6, <2>8 DEF DeleteAllTrackedRides
  <2>9. QED
    BY <1>2, <2>1, <2>2, <2>3, <2>4, <2>5, <2>7, <2>8 DEF RiderNext
<1>3. CASE CycleNext
  <2>1. ASSUME NEW c \in CycleLines, CycleWatch(c)
        PROVE  Effect(s)
    <3> DEFINE seen == cycle[c].snapshot_time
    <3>1. seen # Never
      <4>1. cycle[c] \in CycleRun
        BY DEF TypeOK
      <4>2. QED
        BY <4>1 DEF CycleRun, Time, Never
    <3>2. \/ tracked_rides'[s] = tracked_rides[s]
          \/ tracked_rides'[s] = MarkLeft(tracked_rides[s], seen)
          \/ tracked_rides'[s] = [tracked_rides[s] EXCEPT !.gbfs_reappeared_at = seen]
      BY <2>1 DEF CycleWatch
    <3>3. UNCHANGED <<track_donations[s], TrackPoints(s)>> /\ tracked_rides[s] \in TrackedRide
      BY <2>1 DEF CycleWatch, TrackPoints, TypeOK
    <3> HIDE DEF seen
    <3>4. QED
      BY <3>1, <3>2, <3>3 DEF Effect, Noted, MarkLeft, TrackedRide
  <2>2. ASSUME NEW c \in CycleLines, NEW r \in Rides, CycleFinalize(c, r)
        PROVE  Effect(s)
    BY <2>2, FinalizeEffect DEF CycleFinalize, BeingFinalized
  <2>3. ASSUME NEW c \in CycleLines
        PROVE  /\ \A checkedOut \in SUBSET Vehicles :
                      CycleFetch(c, checkedOut) => UNCHANGED settlement
               /\ \A r \in Rides : CycleFinalizeFails(c, r) => UNCHANGED settlement
               /\ CycleAbandoned(c) => UNCHANGED settlement
    BY DEF CycleFetch, CycleFinalizeFails, CycleAbandoned
  <2>4. QED
    BY <1>1, <1>3, <2>1, <2>2, <2>3 DEF CycleNext
<1>4. CASE CronNext
  <2>1. CASE ExpireStaleWatches
    <3>1. \/ tracked_rides'[s] = tracked_rides[s]
          \/ tracked_rides'[s] = [tracked_rides[s] EXCEPT !.status = "expired"]
      BY <2>1 DEF ExpireStaleWatches
    <3>2. UNCHANGED <<track_donations[s], TrackPoints(s)>> /\ tracked_rides[s] \in TrackedRide
      BY <2>1 DEF ExpireStaleWatches, TrackPoints, TypeOK
    <3>3. QED
      BY <3>1, <3>2 DEF Effect, Noted, TrackedRide
  <2>2. CASE DeidentifyDonations
    BY <2>2 DEF DeidentifyDonations, Deidentifiable, Effect, Kept, Unlinked, TrackPoints
  <2>3. ASSUME NEW r \in Rides, ExpireFinalize(r) PROVE Effect(s)
    BY <2>3, FinalizeEffect DEF ExpireFinalize, BeingFinalized
  <2>4. QED
    BY <1>1, <1>4, <2>1, <2>2, <2>3 DEF CronNext, ExpireFinalizeFails, ExpiryDies
<1>5. CASE Tick \/ UNCHANGED vars
  BY <1>1, <1>5 DEF Tick, vars, settlement
<1>6. QED
  BY <1>2, <1>3, <1>4, <1>5 DEF Next

-----------------------------------------------------------------------------
(* One active ride.                                                          *)

\* The clock never goes back, and is never before its first hour.
LEMMA ClockRises == TypeOK /\ [Next]_vars => now \in Nat /\ now' \in Nat /\ now <= now'
<1> SUFFICES ASSUME TypeOK, [Next]_vars PROVE now \in Nat /\ now' \in Nat /\ now <= now'
  OBVIOUS
<1>1. now \in Nat /\ now' \in Nat
  BY StepType, ClockAssumption DEF TypeOK, Time
<1>2. RiderNext => now' = now
  <2>1. ASSUME NEW r \in Rides, NEW q, NEW form, SubmitSurvey(r, q, form) PROVE now' = now
    BY <2>1 DEF SubmitSurvey
  <2>2. ASSUME NEW r \in Rides, NEW clean, NEW matches, NEW inTime, NEW usable,
               NEW points_status, NEW km,
               DonateTrack(r, clean, matches, points_status, km, inTime, usable)
        PROVE  now' = now
    BY <2>2 DEF DonateTrack
  <2>3. ASSUME NEW gone, DeleteRides(gone) PROVE now' = now
    BY <2>3 DEF DeleteRides
  <2>4. QED
    BY <2>1, <2>2, <2>3
       DEF RiderNext, StartRide, EndRide, CreateRideRoute, DeleteTrackedRide,
           DeleteAllTrackedRides
<1>3. CycleNext => now' = now
  BY DEF CycleNext, CycleFetch, CycleWatch, CycleFinalize, CycleFinalizeFails, CycleAbandoned
<1>4. CronNext => now' = now
  BY DEF CronNext, ExpireStaleWatches, ExpireFinalize, ExpireFinalizeFails, ExpiryDies,
         DeidentifyDonations
<1>5. QED
  BY <1>1, <1>2, <1>3, <1>4 DEF Next, Tick, vars

\* A ride that is open after a step and did not start in it was open before, for the
\* same account: nothing reopens a ride, neither the feed nor the clock nor a job.
LEMMA NothingReopens ==
    ASSUME TypeOK, [Next]_vars, NEW s \in Rides, ~Starts(s), Open(s)'
    PROVE  Open(s) /\ tracked_rides'[s].account = tracked_rides[s].account
<1> DEFINE ride == tracked_rides[s]
<1>1. ride \in TrackedRide /\ track_donations[s] \in TrackDonation
  BY DEF TypeOK
<1>2. ride.watch_expires_at \in Nat
  BY <1>1 DEF TrackedRide
<1>3. /\ tracked_rides'[s].row = "live" /\ ~tracked_rides'[s].ended
      /\ tracked_rides'[s].gbfs_reappeared_at = Never
      /\ now' < tracked_rides'[s].watch_expires_at
  BY DEF Open, Seen
<1>4. ASSUME ~ride.ended, ride.row = "live", ride.gbfs_reappeared_at = Never,
             tracked_rides'[s].watch_expires_at = ride.watch_expires_at,
             tracked_rides'[s].account = ride.account
      PROVE  Open(s) /\ tracked_rides'[s].account = ride.account
  <2>1. now < ride.watch_expires_at
    BY <1>2, <1>3, <1>4, ClockRises
  <2>2. QED
    BY <1>4, <2>1 DEF Open, Seen
<1>5. CASE Kept(s) \/ Noted(s) \/ Unlinked(s)
  BY <1>3, <1>4, <1>5 DEF Kept, Noted, Unlinked
<1>6. CASE Removed(s)
  BY <1>3, <1>6 DEF Removed, BlankRide
<1>7. CASE Ends(s)
  BY <1>1, <1>3, <1>7 DEF Ends, EndRide, WithProvisional, TypeOK, TrackedRide
<1>8. CASE Donates(s)
  BY <1>1, <1>3, <1>8 DEF Donates, DonateTrack, MayDonate, TypeOK, TrackedRide
<1>9. CASE Refreshes(s)
  BY <1>1, <1>3, <1>4, <1>9
     DEF Refreshes, FinalizeProvisional, WithProvisional, TypeOK, TrackedRide
<1>10. CASE Settles(s)
  BY <1>1, <1>3, <1>4, <1>10 DEF Settles, FinalizeDonation, TypeOK, TrackedRide
<1>11. QED
  BY <1>5, <1>6, <1>7, <1>8, <1>9, <1>10, StepEffect DEF Effect

\* An account never has two active rides, for any number of rides, cycles and jobs:
\* start_ride tests and inserts under a lock, and nothing reopens a ride.
THEOREM OneActiveRideHolds == Spec => []OneActiveRide
<1>1. Init => OneActiveRide
  BY DEF Init, OneActiveRide, Open, BlankRide
<1>2. TypeOK /\ OneActiveRide /\ [Next]_vars => OneActiveRide'
  <2> SUFFICES ASSUME TypeOK, OneActiveRide, [Next]_vars, NEW r \in Rides, NEW s \in Rides,
                      Open(r)', Open(s)',
                      tracked_rides'[r].account = tracked_rides'[s].account
               PROVE  r = s
    BY DEF OneActiveRide
  <2>1. ASSUME NEW x \in Rides, NEW y \in Rides, Starts(x), Open(x)', Open(y)',
               tracked_rides'[x].account = tracked_rides'[y].account
        PROVE  x = y
    <3> SUFFICES ASSUME x # y PROVE FALSE
      OBVIOUS
    <3>1. PICK a \in Accounts, v \in Vehicles, options \in OptionSets :
              StartRide(x, a, v, options)
      BY <2>1 DEF Starts
    <3>2. /\ tracked_rides'[x].account = a /\ ~HasActiveRide(a)
          /\ tracked_rides'[y] = tracked_rides[y] /\ now' = now
      BY <3>1 DEF StartRide, TypeOK, BlankRide
    <3>3. Active(y, now) /\ tracked_rides[y].account = a
      <4>1. tracked_rides[y] \in TrackedRide /\ now \in Nat
        BY ClockRises DEF TypeOK
      <4>2. QED
        BY <2>1, <3>2, <4>1 DEF Open, Seen, Active, Live, TrackedRide
    <3>4. QED
      BY <3>2, <3>3 DEF HasActiveRide
  <2>2. CASE Starts(r)
    BY <2>1, <2>2
  <2>3. CASE Starts(s)
    BY <2>1, <2>3
  <2>4. CASE ~Starts(r) /\ ~Starts(s)
    <3>1. /\ Open(r) /\ tracked_rides'[r].account = tracked_rides[r].account
          /\ Open(s) /\ tracked_rides'[s].account = tracked_rides[s].account
      BY <2>4, NothingReopens
    <3>2. QED
      BY <3>1 DEF OneActiveRide
  <2>5. QED
    BY <2>2, <2>3, <2>4
<1>3. QED
  BY <1>1, <1>2, TypeCorrect, PTL DEF Spec

-----------------------------------------------------------------------------
(* Planned routes.                                                           *)

\* A route that has no row is linked to no ride.
NoRowNoLink == \A q \in Routes : ride_routes[q].row = "none" => ride_routes[q].ride = NoRide

\* What a step does to one route: nothing; it is linked to a ride, by a survey that may
\* claim it or at its creation; or it loses its owner or its row, and its link with it.
LEMMA RouteEffect ==
    ASSUME TypeOK, [Next]_vars, NEW q \in Routes
    PROVE  \/ UNCHANGED ride_routes[q]
           \/ \E r \in Rides : /\ Claimable(q, r)
                               /\ ride_routes'[q] = [ride_routes[q] EXCEPT !.ride = r]
           \/ ride_routes[q].row = "none" /\ ride_routes'[q].row = "owned"
           \/ ride_routes'[q].row # "owned" /\ ride_routes'[q].ride = NoRide
<1>1. ASSUME NEW r \in Rides, NEW p \in Routes \cup {NoRoute}, NEW form \in SurveyForms,
             SubmitSurvey(r, p, form)
      PROVE  \/ UNCHANGED ride_routes[q]
             \/ /\ Claimable(q, r)
                /\ ride_routes'[q] = [ride_routes[q] EXCEPT !.ride = r]
  BY <1>1 DEF SubmitSurvey, TypeOK
<1>2. ASSUME NEW p \in Routes, NEW a \in Accounts, NEW r \in Rides \cup {NoRide},
             CreateRideRoute(p, a, r)
      PROVE  \/ UNCHANGED ride_routes[q]
             \/ ride_routes[q].row = "none" /\ ride_routes'[q].row = "owned"
  BY <1>2 DEF CreateRideRoute, TypeOK
<1>3. ASSUME NEW gone \in SUBSET Rides, DeleteRides(gone)
      PROVE  \/ UNCHANGED ride_routes[q]
             \/ ride_routes'[q].row # "owned" /\ ride_routes'[q].ride = NoRide
  BY <1>3 DEF DeleteRides, BlankRoute
<1>4. CASE DeidentifyDonations
  <2>1. ride_routes[q] \in RideRoute
    BY DEF TypeOK
  <2>2. QED
    BY <1>4, <2>1 DEF DeidentifyDonations, RideRoute
<1>5. CASE RiderNext
  <2>1. /\ \A r \in Rides, a \in Accounts, v \in Vehicles, options \in OptionSets :
               StartRide(r, a, v, options) => UNCHANGED ride_routes
        /\ \A r \in Rides, batteries \in BOOLEAN :
               EndRide(r, batteries) => UNCHANGED ride_routes
    BY DEF StartRide, EndRide
  <2>2. ASSUME NEW r \in Rides, NEW clean, NEW matches, NEW inTime, NEW usable,
               NEW points_status, NEW km,
               DonateTrack(r, clean, matches, points_status, km, inTime, usable)
        PROVE  UNCHANGED ride_routes
    BY <2>2 DEF DonateTrack
  <2>3. CASE \E r \in Rides, p \in Routes \cup {NoRoute}, form \in SurveyForms :
                 SubmitSurvey(r, p, form)
    BY <1>1, <2>3
  <2>4. CASE \E p \in Routes, a \in Accounts, r \in Rides \cup {NoRide} :
                 CreateRideRoute(p, a, r)
    BY <1>2, <2>4
  <2>5. CASE \/ \E r \in Rides : DeleteTrackedRide(r)
             \/ \E a \in Accounts : DeleteAllTrackedRides(a)
    BY <1>3, <2>5 DEF DeleteTrackedRide, DeleteAllTrackedRides
  <2>6. QED
    BY <1>5, <2>1, <2>2, <2>3, <2>4, <2>5 DEF RiderNext
<1>6. CASE CycleNext
  BY <1>6 DEF CycleNext, CycleFetch, CycleWatch, CycleFinalize, CycleFinalizeFails,
              CycleAbandoned
<1>7. CASE CronNext
  BY <1>4, <1>7 DEF CronNext, ExpireStaleWatches, ExpireFinalize, ExpireFinalizeFails,
                    ExpiryDies
<1>8. CASE Tick \/ UNCHANGED vars
  BY <1>8 DEF Tick, vars
<1>9. QED
  BY <1>5, <1>6, <1>7, <1>8 DEF Next

\* A route that a ride has used stays with it until the route or the ride is gone.
THEOREM RouteLinkIsFinalHolds == Spec => RouteLinkIsFinal
<1>1. Init => NoRowNoLink
  BY DEF Init, NoRowNoLink, BlankRoute
<1>2. TypeOK /\ NoRowNoLink /\ [Next]_vars => NoRowNoLink'
  <2> SUFFICES ASSUME TypeOK, NoRowNoLink, [Next]_vars, NEW q \in Routes,
                      ride_routes'[q].row = "none"
               PROVE  ride_routes'[q].ride = NoRide
    BY DEF NoRowNoLink
  <2>1. ride_routes[q] \in RideRoute
    BY DEF TypeOK
  <2>2. QED
    BY <2>1, RouteEffect DEF NoRowNoLink, Claimable, RideRoute
<1> DEFINE Final == \A q \in Routes, r \in Rides : ride_routes[q].ride = r =>
                        ride_routes'[q].ride = r \/ ride_routes'[q].row # "owned"
<1>3. TypeOK /\ NoRowNoLink /\ [Next]_vars => Final
  <2> SUFFICES ASSUME TypeOK, NoRowNoLink, [Next]_vars, NEW q \in Routes, NEW r \in Rides,
                      ride_routes[q].ride = r
               PROVE  ride_routes'[q].ride = r \/ ride_routes'[q].row # "owned"
    OBVIOUS
  <2>1. ride_routes[q] \in RideRoute /\ r # NoRide
    BY InputAssumption DEF TypeOK
  <2>2. QED
    BY <2>1, RouteEffect DEF NoRowNoLink, Claimable, RideRoute
<1>4. TypeOK /\ NoRowNoLink /\ [Next]_vars => [Final]_vars
  BY <1>3
<1>5. Spec => [][Final]_vars
  BY <1>1, <1>2, <1>4, TypeCorrect, PTL DEF Spec
<1>6. QED
  BY <1>5 DEF RouteLinkIsFinal
=============================================================================
