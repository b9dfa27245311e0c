---------------------------- MODULE FleetReports ----------------------------
(***************************************************************************)
(* Riders' negative reports on a scooter and what clears them               *)
(* (src/fleet_reports.py, src/api_frontend_reports.py, and the charge rule  *)
(* of src/servicing.py).  Whether a report stands is computed whenever it   *)
(* is read, from the vehicle as it is and from what has happened to it      *)
(* since the report's baseline.                                             *)
(*                                                                          *)
(* One vehicle.  Places are at least CLEAR_MOVE_METERS apart; a charge is   *)
(* at most half (0), between (1) or full (2).  What has happened since a    *)
(* report's base_at is kept with the report, in place of the timestamps.    *)
(***************************************************************************)
EXTENDS Naturals, FiniteSets

CONSTANTS
    Reports,       \* ids of device_reports rows on the vehicle
    ReportPlaces   \* where the vehicle may stand

LegacyClearMoves == 3      \* LEGACY_CLEAR_MOVES
Full     == 2
NoCharge == 3              \* range_at_report_meters IS NULL
Nowhere  == "nowhere"

VARIABLES
    vehicle,     \* device_state and the feed's last reading
    report,      \* the rows
    since        \* what has happened to the vehicle since each report's base_at

reportVars == <<vehicle, report, since>>

Vehicle   == [place : ReportPlaces \cup {Nowhere}, charge : 0 .. Full, inFeed : BOOLEAN,
              low : BOOLEAN, atDepot : BOOLEAN]
ReportRow == [kind : {"none", "rideability", "location"}, signedIn : BOOLEAN,
              place : ReportPlaces \cup {Nowhere}, charge : 0 .. NoCharge, legacy : BOOLEAN,
              pending : BOOLEAN, faded : BOOLEAN, resolved : {"no", "admin", "rider_check"}]
Since     == [serviced : BOOLEAN, lost : SUBSET ReportPlaces, depot : {"no", "in", "done"},
              moves : 0 .. LegacyClearMoves]

NoReport == [kind |-> "none", signedIn |-> FALSE, place |-> Nowhere, charge |-> NoCharge,
             legacy |-> FALSE, pending |-> FALSE, faded |-> FALSE, resolved |-> "no"]
Nothing  == [serviced |-> FALSE, lost |-> {}, depot |-> "no", moves |-> 0]

ReportsInit ==
    /\ vehicle = [place |-> Nowhere, charge |-> Full, inFeed |-> FALSE, low |-> FALSE,
                  atDepot |-> FALSE]
    /\ report = [r \in Reports |-> NoReport]
    /\ since = [r \in Reports |-> Nothing]

-----------------------------------------------------------------------------
(* Which reports stand: uncleared_negative_sql.                             *)

Filed == {r \in Reports : report[r].kind # "none"}

Moved(r)   == vehicle.place # report[r].place
IsFull     == vehicle.inFeed /\ vehicle.charge = Full
Rose(r)    == /\ vehicle.inFeed
              /\ \/ report[r].charge # NoCharge /\ vehicle.charge > report[r].charge
                 \/ report[r].charge = NoCharge /\ IsFull
\* It went off the map since, and is back somewhere else.
OffMap(r)  == \E p \in since[r].lost : vehicle.place # p
LegacyMoved(r) == report[r].legacy /\ report[r].charge = NoCharge
                  /\ since[r].moves >= LegacyClearMoves

Cleared(r) ==
    \/ since[r].depot = "done"
    \/ /\ report[r].kind = "rideability"
       /\ \/ Moved(r) /\ (Rose(r) \/ since[r].serviced)
          \/ IsFull /\ OffMap(r)
          \/ LegacyMoved(r)
    \/ report[r].kind = "location" /\ (Moved(r) \/ OffMap(r))

Stands(r) == /\ r \in Filed /\ report[r].resolved = "no"
             /\ report[r].pending \/ ~Cleared(r)

\* _summarise: an anonymous report that has faded makes the risk unknown, not low.
Risk == LET standing == {r \in Reports : Stands(r)} IN
        IF standing = {} THEN "none"
        ELSE IF \E r \in standing : report[r].signedIn \/ ~report[r].faded
             THEN "high_risk" ELSE "unknown"

-----------------------------------------------------------------------------
(* The vehicle.                                                             *)

\* What every report learns of an event.
Learns(Change(_)) == since' = [r \in Reports |-> IF r \in Filed THEN Change(r) ELSE since[r]]

\* Moves are counted for the reports that can clear by them.
OneMore(r) == IF report[r].legacy /\ since[r].moves < LegacyClearMoves
              THEN since[r].moves + 1 ELSE since[r].moves

\* A move of at least CLEAR_MOVE_METERS; a ride also costs charge.
VehicleMoves(to) ==
    /\ vehicle.inFeed
    /\ to # vehicle.place
    /\ vehicle' = [vehicle EXCEPT !.place = to]
    /\ Learns(LAMBDA r : [since[r] EXCEPT !.moves = OneMore(r)])
    /\ UNCHANGED report

\* step: full again, parked, after a parked reading at or below half.
ServicedBy(charge) == vehicle.low /\ charge = Full

ChargeChanges(charge) ==
    /\ vehicle.inFeed
    /\ charge # vehicle.charge
    /\ vehicle' = [vehicle EXCEPT !.charge = charge,
                                  !.low = charge = 0 \/ (@ /\ charge # Full)]
    /\ Learns(LAMBDA r : [since[r] EXCEPT !.serviced = @ \/ ServicedBy(charge)])
    /\ UNCHANGED report

\* Its stop is closed as absent, from the moment it was last seen.  Its stored position
\* stays.
VehicleVanishes ==
    /\ vehicle.inFeed
    /\ vehicle' = [vehicle EXCEPT !.inFeed = FALSE]
    /\ Learns(LAMBDA r : [since[r] EXCEPT !.lost = @ \cup {vehicle.place}])
    /\ UNCHANGED report

VehicleReturns(to, charge) ==
    /\ ~vehicle.inFeed
    /\ vehicle' = [vehicle EXCEPT !.inFeed = TRUE, !.place = to, !.charge = charge,
                                  !.low = charge = 0 \/ (@ /\ charge # Full)]
    /\ Learns(LAMBDA r : [since[r] EXCEPT !.serviced = @ \/ ServicedBy(charge),
                                   !.moves = IF to # vehicle.place THEN OneMore(r) ELSE @])
    /\ UNCHANGED report

EntersDepot ==
    /\ vehicle.inFeed
    /\ ~vehicle.atDepot
    /\ vehicle' = [vehicle EXCEPT !.atDepot = TRUE]
    /\ Learns(LAMBDA r : [since[r] EXCEPT !.depot = IF @ = "no" THEN "in" ELSE @])
    /\ UNCHANGED report

LeavesDepot ==
    /\ vehicle.inFeed
    /\ vehicle.atDepot
    /\ vehicle' = [vehicle EXCEPT !.atDepot = FALSE]
    /\ Learns(LAMBDA r : [since[r] EXCEPT !.depot = IF @ = "in" THEN "done" ELSE @])
    /\ UNCHANGED report

-----------------------------------------------------------------------------
(* The reports.                                                             *)

\* submit_device_report, on a vehicle that has been seen: the charge only from a reading
\* of the last hour.
FileReport(r, kind, signedIn) ==
    /\ report[r].kind = "none"
    /\ vehicle.place # Nowhere
    /\ report' = [report EXCEPT ![r] =
                    [NoReport EXCEPT !.kind = kind, !.signedIn = signedIn,
                                     !.place = vehicle.place,
                                     !.charge = IF vehicle.inFeed THEN vehicle.charge
                                                ELSE NoCharge]]
    /\ UNCHANGED <<vehicle, since>>

\* One filed before the charge was recorded, which makes a difference to one kind only.
LegacyReport(r, signedIn) ==
    /\ report[r].kind = "none"
    /\ vehicle.place # Nowhere
    /\ report' = [report EXCEPT ![r] = [NoReport EXCEPT !.kind = "rideability",
                                                        !.signedIn = signedIn, !.place = vehicle.place,
                                                        !.legacy = TRUE]]
    /\ UNCHANGED <<vehicle, since>>

ReportFades(r) ==
    /\ r \in Filed
    /\ ~report[r].signedIn
    /\ ~report[r].faded
    /\ report' = [report EXCEPT ![r].faded = TRUE]
    /\ UNCHANGED <<vehicle, since>>

\* resolve_report, by an admin or by a rider's check.
ResolveReport(r, source) ==
    /\ r \in Filed
    /\ report[r].resolved = "no"
    /\ source = "rider_check" => Stands(r)
    /\ report' = [report EXCEPT ![r].resolved = source]
    /\ UNCHANGED <<vehicle, since>>

\* reinstate_report: an admin's resolution is final.
Reinstatable(r) == report[r].resolved = "rider_check"

ReinstateReport(r) ==
    /\ Reinstatable(r)
    /\ report' = [report EXCEPT ![r].resolved = "no"]
    /\ UNCHANGED <<vehicle, since>>

\* "Still a problem", by a rider who will test-ride it: held until the ride settles.
Reconfirm(r) ==
    /\ Stands(r)
    /\ report' = [report EXCEPT ![r].pending = TRUE]
    /\ UNCHANGED <<vehicle, since>>

Rebaselined(r) == Nothing

\* settle_baselines: position, latest charge and instant of the baseline are the
\* vehicle's now.
SettleBaseline(r) ==
    /\ report[r].pending
    /\ report' = [report EXCEPT ![r].pending = FALSE, ![r].place = vehicle.place,
                                ![r].charge = vehicle.charge]
    /\ since' = [since EXCEPT ![r] = Rebaselined(r)]
    /\ UNCHANGED vehicle

ReportsNext ==
    \/ \E to \in ReportPlaces : VehicleMoves(to)
    \/ \E charge \in 0 .. Full : ChargeChanges(charge)
    \/ VehicleVanishes \/ EntersDepot \/ LeavesDepot
    \/ \E to \in ReportPlaces, charge \in 0 .. Full : VehicleReturns(to, charge)
    \/ \E r \in Reports, kind \in {"rideability", "location"}, signedIn \in BOOLEAN :
            FileReport(r, kind, signedIn)
    \/ \E r \in Reports, signedIn \in BOOLEAN : LegacyReport(r, signedIn)
    \/ \E r \in Reports, source \in {"admin", "rider_check"} : ResolveReport(r, source)
    \/ \E r \in Reports : ReportFades(r) \/ ReinstateReport(r) \/ Reconfirm(r) \/ SettleBaseline(r)

ReportsSpec == ReportsInit /\ [][ReportsNext]_reportVars

-----------------------------------------------------------------------------
(* Properties.                                                              *)

ReportsTypeOK ==
    /\ vehicle \in Vehicle
    /\ report \in [Reports -> ReportRow]
    /\ since \in [Reports -> Since]

\* What may stop a report from standing in one step: an answer by a person, or the vehicle
\* being elsewhere than its baseline, elsewhere than where it was lost, back from the
\* depot, or (a report older than the charge record) moved three times.  Never time, and
\* never a change of charge where it stands.
OnlyARealChangeClears ==
    \A r \in Reports : (Stands(r) /\ ~Stands(r)') =>
        \/ report'[r].resolved # "no"
        \/ since'[r].depot = "done"
        \/ Moved(r)'
        \/ OffMap(r)' /\ (IsFull' \/ report[r].kind = "location")
        \/ report[r].legacy /\ since'[r].moves = LegacyClearMoves

\* A report that is held through a test ride stands again from the place and the charge
\* the ride left the vehicle with, whatever happened before; and an admin's resolution is
\* final (settle_baselines, reinstate_report).
RebaselinedStands ==
    \A r \in Reports :
        /\ (report[r].pending /\ ~report'[r].pending /\ report[r].resolved = "no") => Stands(r)'
        /\ report[r].resolved = "admin" => report'[r].resolved = "admin"
=============================================================================
