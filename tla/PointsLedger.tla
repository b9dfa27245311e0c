---------------------------- MODULE PointsLedger ----------------------------
(***************************************************************************)
(* The ride awards of src/points.py: what credit_points writes to           *)
(* user_points for one ride.  A ride's ledger maps each award action to     *)
(* the points of its row; 0 says that there is no row, which is faithful    *)
(* because credit_points writes no row when nothing is left to grant.       *)
(* Distances are whole kilometres.                                          *)
(***************************************************************************)
EXTENDS Integers

CONSTANT MaxPointsPerRide      \* ride_limits.MAX_POINTS_PER_RIDE, 100

ASSUME CapAssumption == MaxPointsPerRide \in Nat

\* The ledger actions that name a tracked ride as their source.
RideActions == {"battery_contribution", "nav_distance_bonus", "ride_survey",
                "nav_route_feedback", "nav_qualitative_feedback"}

RideLedger == [RideActions -> Nat]

EmptyLedger == [action \in RideActions |-> 0]

\* SELECT SUM(points) over the rows of one ride.
RidePoints(ledger) ==
    ledger["battery_contribution"] + ledger["nav_distance_bonus"]
      + ledger["ride_survey"] + ledger["nav_route_feedback"]
      + ledger["nav_qualitative_feedback"]

\* The awards a donated track earns, as opposed to a survey.
DonationPoints(ledger) ==
    ledger["battery_contribution"] + ledger["nav_distance_bonus"]

BatteryContribution(km) == 8 + 2 * ((km + 1) \div 2)   \* per started 2 km
NavDistanceBonus(km)    == 2 * ((km + 2) \div 3)       \* per started 3 km
RideSurveyPoints        == 4
NavRouteFeedbackPoints  == 4

\* Mutation: the award is granted whole whenever any headroom is left.
GrantWhole(ledger, points) ==
    IF RidePoints(ledger) >= MaxPointsPerRide THEN 0 ELSE points

\* What is creditable of an award under the per-ride cap; 0 is the code's None.
ApplyRideCap(ledger, points) ==
    LET headroom == MaxPointsPerRide - RidePoints(ledger)
    IN  IF headroom <= 0 THEN 0
        ELSE IF points > headroom THEN headroom
        ELSE points

\* credit_points: one row per (ride, action), trimmed to the cap.
CreditPoints(ledger, action, points) ==
    IF ledger[action] # 0 THEN ledger
    ELSE [ledger EXCEPT ![action] = ApplyRideCap(ledger, points)]

\* The credit of an award whose preconditions are `due`.
CreditIf(due, ledger, action, points) ==
    IF due THEN CreditPoints(ledger, action, points) ELSE ledger
=============================================================================
