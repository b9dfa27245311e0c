--------------------------- MODULE DeviceStateProps ---------------------------
(***************************************************************************)
(* What the stops and trips of DeviceState promise.  Two history variables  *)
(* record what the tables do not: how many payloads in a row each vehicle   *)
(* was missing from, and whether anything happened out of order.            *)
(***************************************************************************)
EXTENDS DeviceState

VARIABLES
    missed,     \* the latest payloads, of those that showed anything, without the vehicle
    reordered,  \* a cycle has committed after one that fetched later
    raced       \* the vehicle's stop was closed while a cycle that had fetched it was waiting

allVars == <<vars, missed, reordered, raced>>

\* The cycle of line c commits in this step.
Commits(c) ==
    /\ cycle[c].pc = "updating" /\ cycle'[c].pc = "idle"
    /\ Conflicts(c) = {} /\ faults' = faults

\* The cycle of line c has fetched, and does not begin its update in this step.
Waits(c) == cycle[c].pc = "fetched" /\ cycle'[c].pc = "fetched"

History ==
    /\ missed' = [v \in Vehicles |->
           IF \E c \in CycleLines : Commits(c) /\ v \in DOMAIN cycle[c].seen THEN 0
           ELSE IF \E c \in CycleLines : Commits(c) /\ DOMAIN cycle[c].seen # {}
                THEN Smaller(missed[v] + 1, MinMissedCycles) ELSE missed[v]]
    /\ reordered' = (reordered \/
           \E c \in CycleLines : Commits(c) /\
               \E v \in Vehicles : device_state[v].last_observed_at > cycle[c].snapshot_time)
    /\ raced' = [v \in Vehicles |->
           /\ OpenStops(v)' = {}
           /\ \/ raced[v]
              \/ OpenStops(v) # {} /\ \E c \in CycleLines : Waits(c) /\ v \in DOMAIN cycle[c].seen]

HistoryInit ==
    /\ Init
    /\ missed = [v \in Vehicles |-> 0]
    /\ reordered = FALSE
    /\ raced = [v \in Vehicles |-> FALSE]

HistorySpec == HistoryInit /\ [][Next /\ History]_allVars

-----------------------------------------------------------------------------
(* Every table has its columns' types. *)
TypeOK ==
    /\ now \in Time
    /\ device_state \in [Vehicles -> DeviceRow]
    /\ device_history \in [Vehicles -> SUBSET Stop]
    /\ trip_events \in [Vehicles -> SUBSET Trip]
    /\ processed_cycles \subseteq Time
    /\ cycle \in [CycleLines -> CycleState]
    /\ \A c \in CycleLines : cycle[c].pc # "idle" => cycle[c].snapshot_time \in Time
    /\ faults \in 0 .. MaxFaults

\* A vehicle has at most one open stop, whatever cycles and cleanups overlap
\* (ghost_stops.py and the partial index of device_history rely on it).
OneOpenStop == \A v \in Vehicles : Cardinality(OpenStops(v)) <= 1

\* Stops of one vehicle follow each other and never overlap in time, though a
\* release reopens an earlier stop and an absent one is closed in the past.
StopsDisjoint ==
    ~reordered =>
        \A v \in Vehicles : \A one, other \in device_history[v] :
            one # other =>
                \/ one.departed # Never /\ one.departed <= other.arrived
                \/ other.departed # Never /\ other.departed <= one.arrived

Parked(v) == device_state[v].known /\ device_state[v].rental_started_at = Never

OutOfFeed(v) == device_state[v].last_observed_at < now - AbsentStopAfter

\* A parked vehicle that is not long out of the feed has an open stop, but for the race of
\* a sweep with a cycle that waits to begin, and of two cycles that commit out of order:
\* the lock on the vehicle's row covers the rest.
ParkedHasStopUnlessRaced ==
    \A v \in Vehicles :
        Parked(v) /\ ~OutOfFeed(v) => OpenStops(v) # {} \/ raced[v] \/ reordered

\* Absence is never concluded from our own downtime: a stop is closed as absent only
\* when the vehicle was missing from the last MinMissedCycles payloads that showed
\* anything (what ABSENT_MIN_MISSED_CYCLES promises).
AbsentOnlyIfMissed ==
    [][\A v \in Vehicles :
           (\E stop \in device_history'[v] :
                /\ stop.reason = "absent"
                /\ stop \notin device_history[v])
           => reordered' \/ missed'[v] >= MinMissedCycles]_allVars

\* The window of a cycle's sweep loses no vehicle: what the rule without a window
\* selects as of the latest observed cycle has no open stop left.
SweepComplete ==
    \A t \in processed_cycles :
        (\A u \in processed_cycles : u <= t) /\ ~reordered =>
            \A v \in Absent(device_state, processed_cycles, t, FALSE) : OpenStops(v) = {}

\* A trip joins two stops of its vehicle: it ends where and when one begins, and it
\* starts at the place of an earlier one that is over by then, however far the
\* vehicle drifted or was seen during the rental.
TripsJoinStops ==
    ~reordered =>
        \A v \in Vehicles : \A trip \in trip_events[v] :
            /\ \E stop \in device_history[v] : stop.arrived = trip.at /\ stop.place = trip.to
            /\ \E stop \in device_history[v] :
                   /\ stop.place = trip.from /\ stop.arrived < trip.at
                   /\ stop.departed # Never /\ stop.departed <= trip.at

\* The failed starts of an open stop agree with the vehicle's: all of them when the
\* stop is as old as the dwell clock, and never more.
DwellCountersAgree ==
    \A v \in Vehicles : \A stop \in OpenStops(v) :
        ~reordered =>
            /\ stop.arrived >= device_state[v].first_observed_at_location
            /\ stop.failed_starts <= device_state[v].number_failed_starts
            /\ stop.arrived = device_state[v].first_observed_at_location =>
                   stop.failed_starts = device_state[v].number_failed_starts

-----------------------------------------------------------------------------
(* The instances that TLC checks.                                           *)

MCPlaces == {0, 40, 600}

See(place, reserved, bike) == [place |-> place, reserved |-> reserved, bike |-> bike]

\* The vehicle under test: parked, drifted or far away, with its bike_id or another,
\* and reserved.  The other one only shows that the feed is alive.
MCSightings ==
    [v \in {"v1", "v2"} |->
        IF v = "v1" THEN {See(0, FALSE, "b1"), See(40, FALSE, "b2"), See(600, FALSE, "b2"),
                          See(0, TRUE, "b2")}
                    ELSE {See(0, FALSE, "b1")}]

\* Parked, or parked elsewhere: enough for cycles that overlap.
MCFewSightings ==
    [v \in {"v1", "v2"} |->
        IF v = "v1" THEN {See(0, FALSE, "b1"), See(600, FALSE, "b1")} ELSE {See(0, FALSE, "b1")}]
=============================================================================
