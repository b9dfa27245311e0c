---------------------------- MODULE DeviceState ----------------------------
(***************************************************************************)
(* What the ingest cycles make of the vehicles they see (device_state.py)   *)
(* and the cleanup of ghost stops (ghost_stops.py).                         *)
(*                                                                          *)
(* A cycle fetches a snapshot of the feed, and update_for_cycle applies it  *)
(* in one transaction: it first locks and reads the rows of the vehicles it *)
(* saw (UpdateBegin), then writes and commits (UpdateCommit); a failure     *)
(* rolls everything back (UpdateFails).  The absence sweep, a cycle's own   *)
(* or the cleanup's, skips the rows that another transaction has locked.    *)
(*                                                                          *)
(* Places are metres along a street.  A bike_id is an element of BikeIds;   *)
(* the feed gives a vehicle a new one ("rotates" it) after each rental.     *)
(***************************************************************************)
EXTENDS Integers, FiniteSets

CONSTANTS
    Vehicles, CycleLines,
    Places,             \* positions, in metres from some origin
    BikeIds,
    Sightings,          \* what the feed may show of each vehicle
    AbsentStopAfter,    \* ABSENT_STOP_AFTER
    MinMissedCycles,    \* ABSENT_MIN_MISSED_CYCLES
    SweepWindow,        \* ABSENT_SWEEP_WINDOW_CYCLES
    Threshold,          \* stationary_threshold_meters, 25
    InPlaceRadius,      \* IN_PLACE_RADIUS_M, 50
    JitterRadius,       \* JITTER_RADIUS_M, 50
    UnrotatedMove,      \* UNROTATED_MOVE_M, 100
    FailedStartDecay,   \* FAILED_START_DECAY_M, 500
    MaxTime,            \* bound: the clock stops here
    MaxFaults           \* bound: failed updates in one behaviour

Never   == -1           \* a NULL timestamp
Unknown == -1           \* a NULL distance
NoBike  == "no_bike"    \* a NULL bike_id
Time    == 0 .. MaxTime

Sighting == [place : Places, reserved : BOOLEAN, bike : BikeIds]

ASSUME DeviceAssumption ==
    /\ Places \subseteq Int /\ 0 \in Places
    /\ NoBike \notin BikeIds
    /\ "cleanup" \notin CycleLines      \* it sweeps, and is no crontab line of cycles
    /\ Sightings \in [Vehicles -> SUBSET Sighting]
    /\ {AbsentStopAfter, MinMissedCycles, SweepWindow} \subseteq Nat \ {0}
    /\ {Threshold, InPlaceRadius, JitterRadius, UnrotatedMove, FailedStartDecay} \subseteq Nat
    /\ {MaxTime, MaxFaults} \subseteq Nat

VARIABLES
    now,
    device_state,      \* the row of each vehicle
    device_history,    \* the stops of each vehicle
    trip_events,       \* the trips of each vehicle
    processed_cycles,  \* snapshot times of the cycles that count as observations
    cycle,             \* the cycle each crontab line is running
    faults

vars == <<now, device_state, device_history, trip_events, processed_cycles, cycle, faults>>

tables == <<device_state, device_history, trip_events, processed_cycles>>

-----------------------------------------------------------------------------
(* The tables. *)

DeviceRow ==
    [known : BOOLEAN, place : Places, fix : Places,
     bike : BikeIds \cup {NoBike}, first_observed_at_location : Time,
     number_failed_starts : Nat, last_observed_at : Time \cup {Never},
     rental_started_at : Time \cup {Never}, rental_max : Nat \cup {Unknown},
     rental_origin : BikeIds \cup {NoBike}]

Stop ==
    [place : Places, arrived : Time, departed : Time \cup {Never},
     reason : {"none", "moved", "absent"}, failed_starts : Nat]

Trip == [at : Time, from : Places, to : Places]

NoRow ==
    [known |-> FALSE, place |-> 0, fix |-> 0, bike |-> NoBike,
     first_observed_at_location |-> 0, number_failed_starts |-> 0,
     last_observed_at |-> Never, rental_started_at |-> Never,
     rental_max |-> Unknown, rental_origin |-> NoBike]

\* A payload shows some of the vehicles, each with one of its sightings.
Payloads ==
    UNION {{payload \in [some -> UNION {Sightings[v] : v \in some}] :
               \A v \in some : payload[v] \in Sightings[v]} : some \in SUBSET Vehicles}

CycleState ==
    [pc : {"idle", "fetched", "updating"}, snapshot_time : Time \cup {Never},
     seen : Payloads, prior : SUBSET Vehicles, without_open_stop : SUBSET Vehicles]

\* Between its cycles a line keeps the time of its latest.
IdleSince(t) ==
    [pc |-> "idle", snapshot_time |-> t, seen |-> <<>>, prior |-> {},
     without_open_stop |-> {}]

Init ==
    /\ now = 0
    /\ device_state = [v \in Vehicles |-> NoRow]
    /\ device_history = [v \in Vehicles |-> {}]
    /\ trip_events = [v \in Vehicles |-> {}]
    /\ processed_cycles = {}
    /\ cycle = [c \in CycleLines |-> IdleSince(Never)]
    /\ faults = 0

OpenStops(v) == {stop \in device_history[v] : stop.departed = Never}

-----------------------------------------------------------------------------
(* The branch update_for_cycle takes for a vehicle with row `row` that is    *)
(* seen as `seen`.                                                          *)

Apart(a, b) == IF a > b THEN a - b ELSE b - a
Larger(a, b) == IF a > b THEN a ELSE b

Distance(row, seen) == Apart(row.place, seen.place)

\* Mutation: the distance from the fix has a direction.
SignedFromFix(row, seen) == seen.place - row.fix

FromFix(row, seen)  == Apart(row.fix, seen.place)
Rotated(row, seen)  == seen.bike # row.bike
Released(row)       == row.rental_started_at # Never

\* The rental never left the circle around the place it was unlocked at.
InPlace(row, seen) ==
    /\ Released(row) /\ row.rental_max # Unknown
    /\ row.rental_max <= InPlaceRadius
    /\ FromFix(row, seen) <= InPlaceRadius

\* What counts as a relocation.
Relocated(row, seen) ==
    \/ Released(row)
    \/ Distance(row, seen) > UnrotatedMove
    \/ Rotated(row, seen) /\ Distance(row, seen) > JitterRadius

Branch(row, seen) ==
    CASE ~row.known                                   -> "new"
      [] row.known /\ seen.reserved /\ ~Released(row) -> "rental_start"
      [] row.known /\ seen.reserved /\ Released(row)  -> "rental_hold"
      [] row.known /\ ~seen.reserved                  ->
           IF InPlace(row, seen) THEN "in_place_release"
           ELSE IF Relocated(row, seen) THEN "moved"
           ELSE IF Rotated(row, seen) THEN "failed_start" ELSE "stationary"

\* An in-place release whose bike_id has rotated since the unlock.
ReleaseFailed(row, seen) ==
    seen.bike # (IF row.rental_origin = NoBike THEN row.bike ELSE row.rental_origin)

Count(condition) == IF condition THEN 1 ELSE 0

RentalCleared(row) ==
    [row EXCEPT !.rental_started_at = Never, !.rental_max = Unknown, !.rental_origin = NoBike]

Decays(row, seen) == Distance(row, seen) >= FailedStartDecay

\* The failed starts that a vehicle takes along when it moves.
CarriedFailedStarts(row, seen) ==
    IF Decays(row, seen) THEN 0 ELSE row.number_failed_starts

NewRow(seen, t) ==
    [known |-> TRUE, place |-> seen.place, fix |-> seen.place, bike |-> seen.bike,
     first_observed_at_location |-> t, number_failed_starts |-> 0,
     last_observed_at |-> t,
     rental_started_at |-> IF seen.reserved THEN t ELSE Never,
     rental_max |-> Unknown, rental_origin |-> NoBike]

\* Mutation: the stored place follows the rental.
RentalFollowed(row, seen, t) ==
    [row EXCEPT !.last_observed_at = t, !.bike = seen.bike, !.rental_started_at = t,
                !.rental_max = FromFix(row, seen), !.rental_origin = row.bike,
                !.place = seen.place]

\* The first cycle of a rental: place and fix stay at its origin until it ends.
RentalStarted(row, seen, t) ==
    [row EXCEPT !.last_observed_at = t, !.bike = seen.bike, !.rental_started_at = t,
                !.rental_max = FromFix(row, seen), !.rental_origin = row.bike]

\* The vehicle's row after the cycle with snapshot time t.
UpdatedRow(row, seen, t) ==
    LET branch == Branch(row, seen)
        observed == [row EXCEPT !.last_observed_at = t, !.fix = seen.place, !.bike = seen.bike]
    IN
    CASE branch = "new" -> NewRow(seen, t)
      [] branch = "rental_start" -> RentalStarted(row, seen, t)
      [] branch = "rental_hold" ->
           [row EXCEPT !.last_observed_at = t,
                       !.rental_max = IF @ = Unknown THEN Unknown
                                      ELSE Larger(@, FromFix(row, seen))]
      [] branch = "in_place_release" ->
           [RentalCleared(observed) EXCEPT
                !.number_failed_starts = @ + Count(ReleaseFailed(row, seen))]
      [] branch = "moved" ->
           [RentalCleared(observed) EXCEPT
                !.place = seen.place, !.first_observed_at_location = t,
                !.number_failed_starts = CarriedFailedStarts(row, seen)]
      [] branch = "failed_start" -> [observed EXCEPT !.number_failed_starts = @ + 1]
      [] branch = "stationary" -> observed

-----------------------------------------------------------------------------
(* The stops. *)

NewStop(seen, t, failedStarts) ==
    [place |-> seen.place, arrived |-> t, departed |-> Never, reason |-> "none",
     failed_starts |-> failedStarts]

\* Mutation: closing does not ask for the open stop.
ClosedAgain(stops, departed, reason) ==
    {[stop EXCEPT !.departed = departed, !.reason = reason] : stop \in stops}

\* The open stops of `stops` closed, no earlier than they began if absent.
Closed(stops, departed, reason) ==
    {IF stop.departed = Never
     THEN [stop EXCEPT !.departed = IF reason = "absent"
                                    THEN Larger(departed, stop.arrived) ELSE departed,
                       !.reason = reason]
     ELSE stop : stop \in stops}

BumpOpen(stops) ==
    {IF stop.departed = Never THEN [stop EXCEPT !.failed_starts = @ + 1] ELSE stop :
         stop \in stops}

\* Gone for longer than ABSENT_STOP_AFTER when it is seen again at t.
LongGone(row, t) ==
    row.last_observed_at # Never /\ row.last_observed_at < t - AbsentStopAfter

\* The stop that the rental's start closed, unless the vehicle has another one.
Reopenable(stops, row, t) ==
    {stop \in stops :
         /\ ~LongGone(row, t)
         /\ stop.departed = row.rental_started_at /\ stop.reason = "moved"
         /\ \A other \in stops : other.departed # Never}

\* Mutation: the failed start is not counted on the stop that is reopened.
ResumedUncounted(stops, row, seen, t) ==
    LET reopened == Reopenable(stops, row, t)
    IN  IF reopened = {} THEN stops \cup {NewStop(seen, t, Count(ReleaseFailed(row, seen)))}
        ELSE (stops \ reopened) \cup
               {[stop EXCEPT !.departed = Never, !.reason = "none"] : stop \in reopened}

\* An in-place release: the rental's stop goes on, or a new one begins.
Resumed(stops, row, seen, t) ==
    LET failed == Count(ReleaseFailed(row, seen))
        reopened == Reopenable(stops, row, t)
    IN  IF reopened = {} THEN stops \cup {NewStop(seen, t, failed)}
        ELSE (stops \ reopened) \cup
               {[stop EXCEPT !.departed = Never, !.reason = "none",
                             !.failed_starts = @ + failed] : stop \in reopened}

\* A vehicle back where its stop was closed as absent gets a new stop.
Reappeared(stops, seen, t, failedStarts, without) ==
    IF without THEN stops \cup {NewStop(seen, t, failedStarts)} ELSE stops

\* The vehicle's stops after the cycle with snapshot time t; `without` is what the
\* probe for an open stop answered when the transaction began.
UpdatedStops(stops, row, seen, t, without) ==
    LET branch == Branch(row, seen)
    IN
    CASE branch = "new"              -> stops \cup {NewStop(seen, t, 0)}
      [] branch = "rental_start"     -> Closed(stops, t, "moved")
      [] branch = "rental_hold"      -> stops
      [] branch = "in_place_release" -> Resumed(stops, row, seen, t)
      [] branch = "moved"            ->
           Closed(stops, t, "moved") \cup {NewStop(seen, t, CarriedFailedStarts(row, seen))}
      [] branch = "failed_start"     -> Reappeared(BumpOpen(stops), seen, t, 1, without)
      [] branch = "stationary"       -> Reappeared(stops, seen, t, 0, without)

\* One trip for a relocation of more than the stationary threshold.
UpdatedTrips(trips, row, seen, t) ==
    IF Branch(row, seen) = "moved" /\ Distance(row, seen) > Threshold
    THEN trips \cup {[at |-> t, from |-> row.place, to |-> seen.place]}
    ELSE trips

-----------------------------------------------------------------------------
(* The absence rule. *)

\* The n-th most recent of a set of times.
Recent(times, n) ==
    CHOOSE t \in times : Cardinality({u \in times : u >= t}) = n

Smaller(a, b) == IF a < b THEN a ELSE b

\* Mutation: the window of the sweep begins one cycle late.
AbsentLate(rows, observed, time, bounded) ==
    LET k == MinMissedCycles
        m == SweepWindow
        times == {t \in observed : t <= time}
        cutoff == Smaller(time - AbsentStopAfter, Recent(times, k))
        since == IF bounded /\ Cardinality(times) >= k + m
                 THEN Smaller(Recent(times, m) - AbsentStopAfter, Recent(times, m + k - 1))
                 ELSE Never
    IN  IF Cardinality(times) < k THEN {}
        ELSE {v \in Vehicles : /\ rows[v].known
                               /\ rows[v].last_observed_at < cutoff
                               /\ rows[v].last_observed_at >= since}

\* The vehicles absence_window selects as of `time`, among those with rows `rows`
\* and the observed cycles `observed`.
Absent(rows, observed, time, bounded) ==
    LET k == MinMissedCycles
        m == SweepWindow
        times == {t \in observed : t <= time}
        cutoff == Smaller(time - AbsentStopAfter, Recent(times, k))
        since == IF bounded /\ Cardinality(times) >= k + m
                 THEN Smaller(Recent(times, m + 1) - AbsentStopAfter, Recent(times, m + k))
                 ELSE Never
    IN  IF Cardinality(times) < k THEN {}
        ELSE {v \in Vehicles : /\ rows[v].known
                               /\ rows[v].last_observed_at < cutoff
                               /\ rows[v].last_observed_at >= since}

\* Mutation: the sweep waits for no one's lock.
LockedByNone(c) == {}

\* The vehicles whose rows the transactions of other cycles have locked.
LockedByOthers(c) ==
    UNION {cycle[d].prior :
               d \in {e \in CycleLines \ {c} : cycle[e].pc = "updating"}}

\* close_absent_stops: `stops` of each vehicle once those of `gone` are closed at
\* the time their vehicle was last seen.
Swept(stops, rows, gone) ==
    [v \in Vehicles |->
        IF v \in gone THEN Closed(stops[v], rows[v].last_observed_at, "absent")
        ELSE stops[v]]

-----------------------------------------------------------------------------
(* The ingest cycle. *)

\* Bound: no two cycles stamp one instant.
FreshTime == \A c \in CycleLines : cycle[c].snapshot_time # now

\* The cycle stamps its snapshot time and fetches the feed.
CycleFetch(c, payload) ==
    /\ cycle[c].pc = "idle" /\ FreshTime
    /\ cycle' = [cycle EXCEPT ![c].pc = "fetched", ![c].snapshot_time = now,
                              ![c].seen = payload]
    /\ UNCHANGED <<now, tables, faults>>

\* Mutation: the probe for an open stop is skipped.
WithoutProbe(v, t) == LongGone(device_state[v], t)

\* Mutation: a vehicle that comes back gets no new stop.
NeverWithout(v, t) == FALSE

\* Has v lost its open stop to the absence rule?  Only those long gone are asked.
WithoutOpenStop(v, t) == LongGone(device_state[v], t) /\ OpenStops(v) = {}

\* SELECT ... FOR UPDATE of the vehicles seen, and the probe for open stops.
UpdateBegin(c) ==
    LET seen == DOMAIN cycle[c].seen
        t == cycle[c].snapshot_time
    IN
    /\ cycle[c].pc = "fetched"
    /\ seen \cap LockedByOthers(c) = {}
    /\ cycle' = [cycle EXCEPT ![c].pc = "updating",
           ![c].prior = {v \in seen : device_state[v].known},
           ![c].without_open_stop = {v \in seen : WithoutOpenStop(v, t)}]
    /\ UNCHANGED <<now, tables, faults>>

\* The vehicles that were new to c, and that another cycle has inserted since.
Conflicts(c) ==
    {v \in DOMAIN cycle[c].seen \ cycle[c].prior : device_state[v].known}

\* Mutation: a cycle that no vehicle can be told from still counts as observed.
AnyPayloadCounts(payload, plausible) == plausible

\* counts_as_observation: the payload is not empty, and reaches half the baseline
\* of recent cycles, which is an input here (`plausible`).
CountsAsObservation(payload, plausible) == DOMAIN payload # {} /\ plausible

\* The rest of the transaction, and its commit.  The rows read at its beginning
\* are still locked, so they are the current ones; a vehicle that had none is
\* inserted, which the primary key allows once.
UpdateCommit(c, plausible) ==
    LET payload == cycle[c].seen
        t == cycle[c].snapshot_time
        rows == [v \in Vehicles |->
            IF v \in DOMAIN payload THEN UpdatedRow(device_state[v], payload[v], t)
            ELSE device_state[v]]
        stops == [v \in Vehicles |->
            IF v \in DOMAIN payload
            THEN UpdatedStops(device_history[v], device_state[v], payload[v], t,
                              v \in cycle[c].without_open_stop)
            ELSE device_history[v]]
        observed == processed_cycles \cup
            (IF CountsAsObservation(payload, plausible) THEN {t} ELSE {})
    IN
    /\ cycle[c].pc = "updating" /\ Conflicts(c) = {}
    /\ device_state' = rows
    /\ trip_events' = [v \in Vehicles |->
           IF v \in DOMAIN payload
           THEN UpdatedTrips(trip_events[v], device_state[v], payload[v], t)
           ELSE trip_events[v]]
    /\ processed_cycles' = observed
    /\ device_history' =
           Swept(stops, rows, Absent(rows, observed, t, TRUE) \ LockedByOthers(c))
    /\ cycle' = [cycle EXCEPT ![c] = IdleSince(@.snapshot_time)]
    /\ UNCHANGED <<now, faults>>

\* The update raises or its process dies; the cycle goes on without it.
UpdateFails(c) ==
    /\ faults < MaxFaults
    /\ cycle[c].pc \in {"fetched", "updating"}
    /\ cycle' = [cycle EXCEPT ![c] = IdleSince(@.snapshot_time)]
    /\ faults' = faults + 1
    /\ UNCHANGED <<now, tables>>

\* A second INSERT of one vehicle raises, and the transaction rolls back.
UpdateConflict(c) ==
    /\ cycle[c].pc = "updating" /\ Conflicts(c) # {}
    /\ cycle' = [cycle EXCEPT ![c] = IdleSince(@.snapshot_time)]
    /\ UNCHANGED <<now, tables, faults>>

\* ghost_stops.run: the rule without a window, as of now.
CloseGhostStops ==
    LET gone == Absent(device_state, processed_cycles, now, FALSE) \ LockedByOthers("cleanup")
    IN
    /\ gone # {}
    /\ device_history' = Swept(device_history, device_state, gone)
    /\ UNCHANGED <<now, device_state, trip_events, processed_cycles, cycle, faults>>

Tick ==
    /\ now < MaxTime
    /\ now' = now + 1
    /\ UNCHANGED <<tables, cycle, faults>>

Next ==
    \/ \E c \in CycleLines :
           \/ \E payload \in Payloads : CycleFetch(c, payload)
           \/ UpdateBegin(c)
           \/ \E plausible \in BOOLEAN : UpdateCommit(c, plausible)
           \/ UpdateConflict(c)
           \/ UpdateFails(c)
    \/ CloseGhostStops
    \/ Tick

Spec == Init /\ [][Next]_vars
=============================================================================
