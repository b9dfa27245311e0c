--------------------------- MODULE DeviceStateProofs ---------------------------
(***************************************************************************)
(* Theorems about DeviceState, for any fleet, any number of crontab lines   *)
(* and any thresholds: its types, and that a vehicle has at most one open   *)
(* stop.                                                                    *)
(***************************************************************************)
EXTENDS DeviceStateProps, TLAPS, FiniteSetTheorems

USE DEF Never, Unknown, NoBike

\* What a payload shows is a sighting of a vehicle.
LEMMA PayloadSound ==
    ASSUME NEW payload \in Payloads, NEW v \in DOMAIN payload
    PROVE  v \in Vehicles /\ payload[v] \in Sighting
<1>1. PICK some \in SUBSET Vehicles :
          /\ payload \in [some -> UNION {Sightings[u] : u \in some}]
          /\ \A u \in some : payload[u] \in Sightings[u]
    BY DEF Payloads
<1>2. v \in some
    BY <1>1
<1> QED
    BY <1>1, <1>2, DeviceAssumption DEF DeviceAssumption

\* Distances are numbers of metres.
LEMMA DistancesSound ==
    ASSUME NEW row \in DeviceRow, NEW seen \in Sighting
    PROVE  FromFix(row, seen) \in Nat /\ Distance(row, seen) \in Nat
<1>1. row.fix \in Int /\ row.place \in Int /\ seen.place \in Int
    BY DeviceAssumption DEF DeviceAssumption, DeviceRow, Sighting
<1> QED
    BY <1>1 DEF FromFix, Distance, Apart

\* A row that a cycle has updated is a row, of a known vehicle.
LEMMA UpdatedRowSound ==
    ASSUME NEW row \in DeviceRow, NEW seen \in Sighting, NEW t \in Time
    PROVE  /\ UpdatedRow(row, seen, t) \in DeviceRow
           /\ UpdatedRow(row, seen, t).known
<1>1. FromFix(row, seen) \in Nat
    BY DistancesSound
<1>2. seen.place \in Places /\ seen.bike \in BikeIds /\ seen.reserved \in BOOLEAN
    BY DEF Sighting
<1>3. CarriedFailedStarts(row, seen) \in Nat /\ Count(ReleaseFailed(row, seen)) \in Nat
    BY DEF CarriedFailedStarts, Count, DeviceRow
<1>4. Larger(row.rental_max, FromFix(row, seen)) \in Nat
    BY <1>1 DEF Larger, DeviceRow
<1>5. NewRow(seen, t) \in DeviceRow /\ NewRow(seen, t).known
    BY <1>2 DEF NewRow, DeviceRow, Time
<1>6. RentalStarted(row, seen, t) \in DeviceRow
    BY <1>1, <1>2 DEF RentalStarted, DeviceRow
<1>7. CASE ~row.known
    BY <1>5, <1>7 DEF UpdatedRow, Branch
<1>8. CASE row.known
    <2> DEFINE observed == [row EXCEPT !.last_observed_at = t, !.fix = seen.place,
                                       !.bike = seen.bike]
    <2>1. observed \in DeviceRow /\ observed.known
        BY <1>2, <1>8 DEF DeviceRow
    <2>2. RentalCleared(observed) \in DeviceRow /\ RentalCleared(observed).known
        BY <2>1 DEF RentalCleared, DeviceRow
    <2>3. Branch(row, seen) \in {"rental_start", "rental_hold", "in_place_release",
                                 "moved", "failed_start", "stationary"}
        BY <1>2, <1>8 DEF Branch, Released
    <2>4. CASE Branch(row, seen) = "rental_start"
        BY <1>6, <1>8, <2>4 DEF UpdatedRow, RentalStarted, DeviceRow
    <2>5. CASE Branch(row, seen) = "rental_hold"
        <3>1. UpdatedRow(row, seen, t) =
                [row EXCEPT !.last_observed_at = t,
                            !.rental_max = IF @ = Unknown THEN Unknown
                                           ELSE Larger(@, FromFix(row, seen))]
            BY <2>5 DEF UpdatedRow
        <3> QED
            BY <3>1, <1>4, <1>8 DEF DeviceRow
    <2>6. CASE Branch(row, seen) = "in_place_release"
        <3>1. UpdatedRow(row, seen, t) =
                [RentalCleared(observed) EXCEPT
                     !.number_failed_starts = @ + Count(ReleaseFailed(row, seen))]
            BY <2>6 DEF UpdatedRow
        <3> HIDE DEF observed
        <3> QED
            BY <3>1, <2>2, <1>3 DEF DeviceRow
    <2>7. CASE Branch(row, seen) = "moved"
        <3>1. UpdatedRow(row, seen, t) =
                [RentalCleared(observed) EXCEPT
                     !.place = seen.place, !.first_observed_at_location = t,
                     !.number_failed_starts = CarriedFailedStarts(row, seen)]
            BY <2>7 DEF UpdatedRow
        <3> HIDE DEF observed
        <3> QED
            BY <3>1, <2>2, <1>2, <1>3 DEF DeviceRow
    <2>8. CASE Branch(row, seen) = "failed_start"
        <3>1. UpdatedRow(row, seen, t) = [observed EXCEPT !.number_failed_starts = @ + 1]
            BY <2>8 DEF UpdatedRow
        <3> HIDE DEF observed
        <3> QED
            BY <3>1, <2>1 DEF DeviceRow
    <2>9. CASE Branch(row, seen) = "stationary"
        BY <2>9, <2>1 DEF UpdatedRow
    <2> QED
        BY <2>3, <2>4, <2>5, <2>6, <2>7, <2>8, <2>9
<1> QED
    BY <1>7, <1>8
-----------------------------------------------------------------------------
(* What the operators on stops return. *)

\* Closing, bumping and opening stops gives stops.
LEMMA StopsSound ==
    ASSUME NEW stops \in SUBSET Stop, NEW departed \in Time \cup {Never},
           NEW reason \in {"moved", "absent"}
    PROVE  Closed(stops, departed, reason) \subseteq Stop /\ BumpOpen(stops) \subseteq Stop
<1>1. ASSUME NEW stop \in Stop
      PROVE  /\ [stop EXCEPT !.departed = IF reason = "absent"
                                           THEN Larger(departed, stop.arrived) ELSE departed,
                              !.reason = reason] \in Stop
             /\ [stop EXCEPT !.failed_starts = @ + 1] \in Stop
    <2> DEFINE left == IF reason = "absent" THEN Larger(departed, stop.arrived) ELSE departed
    <2>1. stop.arrived \in Time /\ stop.failed_starts + 1 \in Nat
        BY DEF Stop
    <2>2. left \in Time \cup {Never}
        BY <2>1 DEF Larger
    <2> HIDE DEF left
    <2>3. [stop EXCEPT !.departed = left, !.reason = reason] \in Stop
        BY <2>2 DEF Stop
    <2>4. [stop EXCEPT !.failed_starts = @ + 1] \in Stop
        BY <2>1 DEF Stop
    <2> QED
        BY <2>3, <2>4 DEF left
<1> QED
    BY <1>1 DEF Closed, BumpOpen

LEMMA NewStopSound ==
    ASSUME NEW seen \in Sighting, NEW t \in Time, NEW n \in Nat
    PROVE  NewStop(seen, t, n) \in Stop
BY DEF NewStop, Stop, Sighting, Time

\* The branches of a cycle, and nothing else.
LEMMA Branches ==
    ASSUME NEW row \in DeviceRow, NEW seen \in Sighting
    PROVE  /\ Branch(row, seen) \in {"new", "rental_start", "rental_hold", "in_place_release",
                                     "moved", "failed_start", "stationary"}
           /\ Branch(row, seen) = "new" <=> ~row.known
           /\ Branch(row, seen) = "in_place_release" => row.rental_started_at # Never
<1>1. row.known \in BOOLEAN /\ seen.reserved \in BOOLEAN
    BY DEF DeviceRow, Sighting
<1> QED
    BY <1>1 DEF Branch, Released, InPlace

\* The stops of a vehicle stay stops.
LEMMA UpdatedStopsSound ==
    ASSUME NEW stops \in SUBSET Stop, NEW row \in DeviceRow, NEW seen \in Sighting,
           NEW t \in Time, NEW without
    PROVE  UpdatedStops(stops, row, seen, t, without) \subseteq Stop
<1> DEFINE failed == Count(ReleaseFailed(row, seen))
<1>1. \A n \in Nat : NewStop(seen, t, n) \in Stop
    BY NewStopSound
<1>2. Closed(stops, t, "moved") \subseteq Stop /\ BumpOpen(stops) \subseteq Stop
    BY StopsSound
<1>3. CarriedFailedStarts(row, seen) \in Nat /\ failed \in Nat
    BY DEF CarriedFailedStarts, Count, DeviceRow
<1>4. Resumed(stops, row, seen, t) \subseteq Stop
    <2> HIDE DEF failed
    <2>1. ASSUME NEW stop \in Stop
          PROVE  [stop EXCEPT !.departed = Never, !.reason = "none",
                              !.failed_starts = @ + failed] \in Stop
        <3>1. stop.failed_starts + failed \in Nat
            BY <1>3 DEF Stop
        <3> QED
            BY <3>1 DEF Stop
    <2>2. Reopenable(stops, row, t) \subseteq Stop
        BY DEF Reopenable
    <2> QED
        BY <2>1, <2>2, <1>1, <1>3 DEF Resumed, failed
<1>5. \A n \in Nat : /\ Reappeared(stops, seen, t, n, without) \subseteq Stop
                     /\ Reappeared(BumpOpen(stops), seen, t, n, without) \subseteq Stop
    BY <1>1, <1>2 DEF Reappeared
<1>6. Branch(row, seen) \in {"new", "rental_start", "rental_hold", "in_place_release",
                            "moved", "failed_start", "stationary"}
    BY Branches
<1> QED
    BY <1>1, <1>2, <1>3, <1>4, <1>5, <1>6 DEF UpdatedStops

\* The trips of a vehicle stay trips.
LEMMA UpdatedTripsSound ==
    ASSUME NEW trips \in SUBSET Trip, NEW row \in DeviceRow, NEW seen \in Sighting,
           NEW t \in Time
    PROVE  UpdatedTrips(trips, row, seen, t) \subseteq Trip
BY DEF UpdatedTrips, Trip, DeviceRow, Sighting

\* A sweep leaves stops.
LEMMA SweptSound ==
    ASSUME NEW stops \in [Vehicles -> SUBSET Stop], NEW rows \in [Vehicles -> DeviceRow],
           NEW gone
    PROVE  Swept(stops, rows, gone) \in [Vehicles -> SUBSET Stop]
<1>1. ASSUME NEW v \in Vehicles
      PROVE  Closed(stops[v], rows[v].last_observed_at, "absent") \subseteq Stop
    <2>1. rows[v].last_observed_at \in Time \cup {Never}
        BY DEF DeviceRow
    <2> QED
        BY <2>1, StopsSound
<1> QED
    BY <1>1 DEF Swept

-----------------------------------------------------------------------------
(* Types. *)

LEMMA InitType == Init => TypeOK
<1> SUFFICES ASSUME Init PROVE TypeOK
    OBVIOUS
<1>1. 0 \in Time /\ 0 \in Places /\ 0 \in 0 .. MaxFaults
    BY DeviceAssumption DEF DeviceAssumption, Time
<1>2. NoRow \in DeviceRow
    BY <1>1 DEF NoRow, DeviceRow
<1>3. <<>> \in Payloads
    <2>1. <<>> \in [{} -> UNION {Sightings[u] : u \in {}}]
        OBVIOUS
    <2> QED
        BY <2>1 DEF Payloads
<1>4. IdleSince(Never) \in CycleState
    BY <1>3 DEF IdleSince, CycleState
<1> QED
    BY <1>1, <1>2, <1>4 DEF Init, TypeOK, IdleSince

\* A fetch, or a failure, leaves a line in one of its states.
LEMMA FetchType ==
    ASSUME TypeOK, NEW c \in CycleLines, NEW payload \in Payloads, CycleFetch(c, payload)
    PROVE  TypeOK'
<1>1. cycle[c] \in CycleState /\ now \in Time
    BY DEF TypeOK
<1>2. cycle' = [cycle EXCEPT ![c] = [cycle[c] EXCEPT !.pc = "fetched", !.snapshot_time = now,
                                                     !.seen = payload]]
    BY DEF CycleFetch, TypeOK
<1>3. [cycle[c] EXCEPT !.pc = "fetched", !.snapshot_time = now, !.seen = payload] \in CycleState
    BY <1>1 DEF CycleState
<1> QED
    BY <1>1, <1>2, <1>3 DEF CycleFetch, TypeOK, tables

LEMMA BeginType ==
    ASSUME TypeOK, NEW c \in CycleLines, UpdateBegin(c)
    PROVE  TypeOK'
<1> DEFINE seen == DOMAIN cycle[c].seen
           known == {v \in seen : device_state[v].known}
           without == {v \in seen : WithoutOpenStop(v, cycle[c].snapshot_time)}
<1>1. cycle[c] \in CycleState
    BY DEF TypeOK
<1>2. seen \subseteq Vehicles
    <2>1. cycle[c].seen \in Payloads
        BY <1>1 DEF CycleState
    <2> QED
        BY <2>1, PayloadSound
<1>3. known \in SUBSET Vehicles /\ without \in SUBSET Vehicles
    BY <1>2
<1>4. cycle' = [cycle EXCEPT ![c] = [cycle[c] EXCEPT !.pc = "updating", !.prior = known,
                                                     !.without_open_stop = without]]
    BY DEF UpdateBegin, TypeOK
<1>5. cycle[c].snapshot_time \in Time
    BY DEF UpdateBegin, TypeOK
<1> HIDE DEF known, without
<1>6. [cycle[c] EXCEPT !.pc = "updating", !.prior = known,
                       !.without_open_stop = without] \in CycleState
    BY <1>1, <1>3 DEF CycleState
<1>7. cycle' \in [CycleLines -> CycleState]
    BY <1>4, <1>6 DEF TypeOK
<1>8. ASSUME NEW d \in CycleLines, cycle'[d].pc # "idle" PROVE cycle'[d].snapshot_time \in Time
    <2>1. CASE d = c
        BY <2>1, <1>1, <1>4, <1>5 DEF TypeOK, CycleState
    <2>2. CASE d # c
        BY <2>2, <1>4, <1>8 DEF TypeOK
    <2> QED
        BY <2>1, <2>2
<1> QED
    BY <1>7, <1>8 DEF UpdateBegin, TypeOK, tables

\* The line of c goes back to idle.
LEMMA IdleType ==
    ASSUME TypeOK, NEW c \in CycleLines,
           cycle' = [cycle EXCEPT ![c] = IdleSince(@.snapshot_time)]
    PROVE  /\ cycle' \in [CycleLines -> CycleState]
           /\ \A d \in CycleLines : cycle'[d].pc # "idle" => cycle'[d].snapshot_time \in Time
<1>1. cycle[c].snapshot_time \in Time \cup {Never}
    BY DEF TypeOK, CycleState
<1>2. <<>> \in Payloads
    <2>1. <<>> \in [{} -> UNION {Sightings[u] : u \in {}}]
        OBVIOUS
    <2> QED
        BY <2>1 DEF Payloads
<1>3. IdleSince(cycle[c].snapshot_time) \in CycleState
    BY <1>1, <1>2 DEF IdleSince, CycleState
<1> QED
    BY <1>3 DEF TypeOK, IdleSince

\* What a commit writes.
LEMMA CommitType ==
    ASSUME TypeOK, NEW c \in CycleLines, NEW plausible \in BOOLEAN, UpdateCommit(c, plausible)
    PROVE  TypeOK'
<1> DEFINE payload == cycle[c].seen
           t == cycle[c].snapshot_time
           rows == [v \in Vehicles |->
               IF v \in DOMAIN payload THEN UpdatedRow(device_state[v], payload[v], t)
               ELSE device_state[v]]
           stops == [v \in Vehicles |->
               IF v \in DOMAIN payload
               THEN UpdatedStops(device_history[v], device_state[v], payload[v], t,
                                 v \in cycle[c].without_open_stop)
               ELSE device_history[v]]
           trips == [v \in Vehicles |->
               IF v \in DOMAIN payload
               THEN UpdatedTrips(trip_events[v], device_state[v], payload[v], t)
               ELSE trip_events[v]]
           observed == processed_cycles \cup
               (IF CountsAsObservation(payload, plausible) THEN {t} ELSE {})
           gone == Absent(rows, observed, t, TRUE) \ LockedByOthers(c)
<1>1. t \in Time /\ payload \in Payloads
    BY DEF UpdateCommit, TypeOK, CycleState
<1>2. \A v \in DOMAIN payload : payload[v] \in Sighting
    BY <1>1, PayloadSound
<1>3. /\ device_state \in [Vehicles -> DeviceRow]
      /\ device_history \in [Vehicles -> SUBSET Stop]
      /\ trip_events \in [Vehicles -> SUBSET Trip]
    BY DEF TypeOK
<1>4. rows \in [Vehicles -> DeviceRow]
    <2>1. ASSUME NEW v \in Vehicles, v \in DOMAIN payload
          PROVE  UpdatedRow(device_state[v], payload[v], t) \in DeviceRow
        BY <2>1, <1>1, <1>2, <1>3, UpdatedRowSound
    <2> QED
        BY <2>1, <1>3
<1>5. stops \in [Vehicles -> SUBSET Stop]
    <2>1. ASSUME NEW v \in Vehicles, v \in DOMAIN payload
          PROVE  UpdatedStops(device_history[v], device_state[v], payload[v], t,
                              v \in cycle[c].without_open_stop) \subseteq Stop
        BY <2>1, <1>1, <1>2, <1>3, UpdatedStopsSound
    <2> QED
        BY <2>1, <1>3
<1>6. trips \in [Vehicles -> SUBSET Trip]
    <2>1. ASSUME NEW v \in Vehicles, v \in DOMAIN payload
          PROVE  UpdatedTrips(trip_events[v], device_state[v], payload[v], t) \subseteq Trip
        BY <2>1, <1>1, <1>2, <1>3, UpdatedTripsSound
    <2> QED
        BY <2>1, <1>3
<1>7. observed \subseteq Time
    BY <1>1 DEF TypeOK
<1>8. /\ device_state' = rows /\ trip_events' = trips /\ processed_cycles' = observed
      /\ device_history' = Swept(stops, rows, gone)
      /\ cycle' = [cycle EXCEPT ![c] = IdleSince(@.snapshot_time)]
      /\ now' = now /\ faults' = faults
    BY DEF UpdateCommit
<1> HIDE DEF rows, stops, trips, observed, gone
<1>9. device_history' \in [Vehicles -> SUBSET Stop]
    BY <1>4, <1>5, <1>8, SweptSound
<1>10. /\ cycle' \in [CycleLines -> CycleState]
       /\ \A d \in CycleLines : cycle'[d].pc # "idle" => cycle'[d].snapshot_time \in Time
    BY <1>8, IdleType
<1> QED
    BY <1>4, <1>6, <1>7, <1>8, <1>9, <1>10 DEF TypeOK

LEMMA StepType == TypeOK /\ [Next]_vars => TypeOK'
<1> SUFFICES ASSUME TypeOK, [Next]_vars PROVE TypeOK'
    OBVIOUS
<1>1. ASSUME NEW c \in CycleLines, NEW payload \in Payloads, CycleFetch(c, payload)
      PROVE  TypeOK'
    BY <1>1, FetchType
<1>2. ASSUME NEW c \in CycleLines, UpdateBegin(c) PROVE TypeOK'
    BY <1>2, BeginType
<1>3. ASSUME NEW c \in CycleLines, NEW plausible \in BOOLEAN, UpdateCommit(c, plausible)
      PROVE  TypeOK'
    BY <1>3, CommitType
<1>4. ASSUME NEW c \in CycleLines, UpdateConflict(c) PROVE TypeOK'
    <2>1. /\ cycle' \in [CycleLines -> CycleState]
          /\ \A d \in CycleLines : cycle'[d].pc # "idle" => cycle'[d].snapshot_time \in Time
        BY <1>4, IdleType DEF UpdateConflict
    <2> QED
        BY <1>4, <2>1 DEF UpdateConflict, TypeOK, tables
<1>5. ASSUME NEW c \in CycleLines, UpdateFails(c) PROVE TypeOK'
    <2>1. /\ cycle' \in [CycleLines -> CycleState]
          /\ \A d \in CycleLines : cycle'[d].pc # "idle" => cycle'[d].snapshot_time \in Time
        BY <1>5, IdleType DEF UpdateFails
    <2>2. faults' \in 0 .. MaxFaults
        BY <1>5, DeviceAssumption DEF UpdateFails, TypeOK, DeviceAssumption
    <2> QED
        BY <1>5, <2>1, <2>2 DEF UpdateFails, TypeOK, tables
<1>6. ASSUME CloseGhostStops PROVE TypeOK'
    <2> DEFINE gone == Absent(device_state, processed_cycles, now, FALSE)
                           \ LockedByOthers("cleanup")
    <2>1. device_history' = Swept(device_history, device_state, gone)
        BY <1>6 DEF CloseGhostStops
    <2>2. device_history' \in [Vehicles -> SUBSET Stop]
        <3>1. device_history \in [Vehicles -> SUBSET Stop]
            BY DEF TypeOK
        <3>2. device_state \in [Vehicles -> DeviceRow]
            BY DEF TypeOK
        <3> HIDE DEF gone
        <3> QED
            BY <2>1, <3>1, <3>2, SweptSound
    <2> QED
        BY <1>6, <2>2 DEF CloseGhostStops, TypeOK
<1>7. ASSUME Tick PROVE TypeOK'
    <2>1. now' \in Time
        BY <1>7, DeviceAssumption DEF Tick, TypeOK, Time, DeviceAssumption
    <2> QED
        BY <1>7, <2>1 DEF Tick, TypeOK, tables
<1>8. ASSUME UNCHANGED vars PROVE TypeOK'
    BY <1>8 DEF vars, TypeOK
<1> QED
    BY <1>1, <1>2, <1>3, <1>4, <1>5, <1>6, <1>7, <1>8 DEF Next

\* The tables hold what their columns allow, for any fleet and any thresholds.
THEOREM DeviceTypeCorrect == Spec => []TypeOK
<1> QED
    BY InitType, StepType, PTL DEF Spec

-----------------------------------------------------------------------------
(***************************************************************************)
(* A vehicle has at most one open stop, however many cycles, conflicts,     *)
(* failures and cleanups overlap.  On its own this is not inductive:        *)
(*   - what a transaction read at its beginning must still be true when it  *)
(*     commits, because it has locked the rows (Locks);                     *)
(*   - a release reopens every stop closed at the rental's start, so no two *)
(*     stops of a vehicle were closed as moved at one time, which needs the *)
(*     snapshot times of the cycles to be different (Clocks, Closures);     *)
(*   - a release that reopens nothing begins a stop, so a rental with a     *)
(*     known origin has no open one.                                        *)
(***************************************************************************)

AtMostOneOpen(stops) ==
    \A one, other \in stops :
        one.departed = Never /\ other.departed = Never => one = other

\* No two stops were closed as moved at one time.
ClosedApart(stops) ==
    \A one, other \in stops :
        /\ one.reason = "moved" /\ other.reason = "moved"
        /\ one.departed # Never /\ one.departed = other.departed
        => one = other

\* No stop was closed as moved at time t.
NotMovedAt(stops, t) == \A stop \in stops : ~(stop.reason = "moved" /\ stop.departed = t)

\* Apart from t, no stop has been closed as moved since `stops`.
KeepsMoved(updated, stops, t) ==
    \A stop \in updated : stop.reason = "moved" /\ stop.departed # Never =>
        stop.departed = t \/ stop \in stops

AllClosed(stops) == \A stop \in stops : stop.departed # Never

\* The vehicle is in a rental whose start was observed.
AwayFromOrigin(row) == row.rental_started_at # Never /\ row.rental_max # Unknown

InFlight(c) == cycle[c].pc # "idle"

\* Cycles in flight have snapshot times of their own.
Clocks ==
    \A c, d \in CycleLines :
        /\ cycle[c].snapshot_time <= now
        /\ c # d /\ InFlight(c) => cycle[c].snapshot_time # cycle[d].snapshot_time

\* A row that an update has locked is its own until it commits.
Locks ==
    \A c \in CycleLines : cycle[c].pc = "updating" =>
        /\ cycle[c].without_open_stop \subseteq cycle[c].prior
        /\ \A v \in cycle[c].prior : device_state[v].known
        /\ \A v \in cycle[c].without_open_stop : OpenStops(v) = {}
        /\ \A d \in CycleLines \ {c} :
               cycle[d].pc = "updating" => cycle[c].prior \cap cycle[d].prior = {}

Closures ==
    \A v \in Vehicles :
        /\ ~device_state[v].known =>
               device_history[v] = {} /\ device_state[v].last_observed_at = Never
        /\ AtMostOneOpen(device_history[v])
        /\ AwayFromOrigin(device_state[v]) => AllClosed(device_history[v])
        /\ ClosedApart(device_history[v])
        /\ \A c \in CycleLines :
               InFlight(c) => NotMovedAt(device_history[v], cycle[c].snapshot_time)
        /\ \A stop \in device_history[v] : stop.reason = "moved" /\ stop.departed # Never =>
               /\ stop.departed <= now
               /\ stop.departed = now => \E c \in CycleLines : cycle[c].snapshot_time = now

OpenStopInv == TypeOK /\ Clocks /\ Locks /\ Closures

-----------------------------------------------------------------------------
(* The operators on stops. *)

LEMMA TimesAreNatural == Time \subseteq Nat
BY DeviceAssumption DEF Time, DeviceAssumption

LEMMA InstantsAreIntegers == Time \cup {Never} \subseteq Int
<1>1. Time \subseteq Int
    BY TimesAreNatural
<1>2. Never \in Int
    OBVIOUS
<1> QED
    BY <1>1, <1>2

\* Closing as absent opens nothing and moves nothing.
LEMMA AbsentClosing ==
    ASSUME NEW stops \in SUBSET Stop, NEW departed \in Time \cup {Never}
    PROVE  LET closed == Closed(stops, departed, "absent") IN
           /\ AllClosed(closed)
           /\ \A stop \in closed : stop.reason = "moved" => stop \in stops
           /\ stops = {} => closed = {}
<1> DEFINE left(stop) == Larger(departed, stop.arrived)
           shut(stop) == [stop EXCEPT !.departed = left(stop), !.reason = "absent"]
           closed == Closed(stops, departed, "absent")
<1>1. ASSUME NEW stop \in stops
      PROVE  left(stop) # Never
    <2>1. stop.arrived \in Nat /\ departed \in Nat \cup {Never}
        BY <1>1, TimesAreNatural DEF Stop
    <2> QED
        BY <2>1 DEF Larger
<1>2. closed = {IF stop.departed = Never THEN shut(stop) ELSE stop : stop \in stops}
    BY DEF Closed
<1>3. \A stop \in stops : shut(stop).departed = left(stop) /\ shut(stop).reason = "absent"
    BY DEF Stop
<1> HIDE DEF left, shut, closed
<1>4. ASSUME NEW stop \in closed
      PROVE  \/ stop \in stops /\ stop.departed # Never
             \/ \E open \in stops : stop = shut(open)
    BY <1>2
<1>5. \A stop \in closed : stop.departed # Never
    BY <1>1, <1>3, <1>4
<1>6. \A stop \in closed : stop.reason = "moved" => stop \in stops
    BY <1>3, <1>4
<1> QED
    BY <1>2, <1>5, <1>6 DEF closed, AllClosed

\* Closing as moved closes what was open, at t.
LEMMA MovedClosing ==
    ASSUME NEW stops \in SUBSET Stop, NEW t \in Time,
           AtMostOneOpen(stops), ClosedApart(stops), NotMovedAt(stops, t)
    PROVE  LET closed == Closed(stops, t, "moved") IN
           /\ AllClosed(closed)
           /\ ClosedApart(closed)
           /\ \A stop \in closed : stop.reason = "moved" => stop.departed = t \/ stop \in stops
<1> DEFINE shut(stop) == [stop EXCEPT !.departed = t, !.reason = "moved"]
           closed == Closed(stops, t, "moved")
<1>1. t # Never
    BY TimesAreNatural
<1>0. closed = {IF stop.departed = Never THEN shut(stop) ELSE stop : stop \in stops}
    BY DEF Closed
<1>3. \A stop \in stops : shut(stop).departed = t /\ shut(stop).reason = "moved"
    BY DEF Stop
<1> HIDE DEF shut, closed
<1>2. ASSUME NEW stop \in closed
      PROVE  \/ stop \in stops /\ stop.departed # Never
             \/ \E open \in stops : open.departed = Never /\ stop = shut(open)
    BY <1>0
<1>4. \A stop \in closed : stop.departed # Never
    BY <1>1, <1>2, <1>3
<1>5. ASSUME NEW one \in closed, NEW other \in closed,
             one.reason = "moved", other.reason = "moved", one.departed = other.departed
      PROVE  one = other
    <2>1. CASE one \in stops /\ other \in stops
        BY <1>4, <1>5, <2>1 DEF ClosedApart
    <2>2. CASE one \notin stops /\ other \notin stops
        BY <1>2, <2>2 DEF AtMostOneOpen
    <2>3. CASE one \in stops /\ other \notin stops
        BY <1>2, <1>3, <1>5, <2>3 DEF NotMovedAt
    <2>4. CASE one \notin stops /\ other \in stops
        BY <1>2, <1>3, <1>5, <2>4 DEF NotMovedAt
    <2> QED
        BY <2>1, <2>2, <2>3, <2>4
<1> QED
    BY <1>2, <1>3, <1>4, <1>5 DEF ClosedApart, closed, AllClosed

\* A bump changes no closed stop, and opens none.
LEMMA Bumping ==
    ASSUME NEW stops \in SUBSET Stop, AtMostOneOpen(stops), ClosedApart(stops)
    PROVE  /\ AtMostOneOpen(BumpOpen(stops)) /\ ClosedApart(BumpOpen(stops))
           /\ \A stop \in BumpOpen(stops) :
                  stop.departed # Never => stop \in stops
           /\ AllClosed(stops) => AllClosed(BumpOpen(stops))
<1> DEFINE bumped(stop) == [stop EXCEPT !.failed_starts = @ + 1]
<1>1. \A stop \in stops : bumped(stop).departed = stop.departed
    BY DEF Stop
<1>2. BumpOpen(stops) = {IF stop.departed = Never THEN bumped(stop) ELSE stop : stop \in stops}
    BY DEF BumpOpen
<1> HIDE DEF bumped
<1>3. ASSUME NEW stop \in BumpOpen(stops)
      PROVE  \/ stop \in stops /\ stop.departed # Never
             \/ \E open \in stops : open.departed = Never /\ stop = bumped(open)
    BY <1>2
<1>4. AtMostOneOpen(BumpOpen(stops))
    BY <1>3 DEF AtMostOneOpen
<1>5. \A stop \in BumpOpen(stops) : stop.departed # Never => stop \in stops
    BY <1>1, <1>3
<1>6. ClosedApart(BumpOpen(stops))
    BY <1>5 DEF ClosedApart
<1> QED
    BY <1>1, <1>3, <1>4, <1>5, <1>6 DEF AllClosed

\* A new stop beside none that is open.
LEMMA Opening ==
    ASSUME NEW stops \in SUBSET Stop, NEW seen, NEW t, NEW n,
           AllClosed(stops), ClosedApart(stops)
    PROVE  LET opened == stops \cup {NewStop(seen, t, n)} IN
           /\ AtMostOneOpen(opened) /\ ClosedApart(opened)
           /\ \A stop \in opened : stop.reason = "moved" => stop \in stops
<1>1. NewStop(seen, t, n).reason = "none"
    BY DEF NewStop
<1> QED
    BY <1>1 DEF AtMostOneOpen, ClosedApart, AllClosed

\* An in-place release reopens one stop or begins one, if none is open.
LEMMA Resuming ==
    ASSUME NEW stops \in SUBSET Stop, NEW row \in DeviceRow, NEW seen, NEW t,
           row.rental_started_at # Never,
           AllClosed(stops), ClosedApart(stops)
    PROVE  LET resumed == Resumed(stops, row, seen, t) IN
           /\ AtMostOneOpen(resumed) /\ ClosedApart(resumed)
           /\ \A stop \in resumed : stop.reason = "moved" => stop \in stops
<1> DEFINE failed == Count(ReleaseFailed(row, seen))
           reopened == Reopenable(stops, row, t)
           again(stop) == [stop EXCEPT !.departed = Never, !.reason = "none",
                                       !.failed_starts = @ + failed]
<1>1. CASE reopened = {}
    <2>1. Resumed(stops, row, seen, t) = stops \cup {NewStop(seen, t, failed)}
        BY <1>1 DEF Resumed
    <2> HIDE DEF failed
    <2> QED
        BY <2>1, Opening
<1>2. CASE reopened # {}
    <2>1. Resumed(stops, row, seen, t) =
              (stops \ reopened) \cup {again(stop) : stop \in reopened}
        BY <1>2 DEF Resumed
    <2>2. \A one, other \in reopened : one = other
        BY DEF Reopenable, ClosedApart
    <2>3. \A stop \in reopened : stop \in stops /\ again(stop).reason = "none"
        BY DEF Reopenable, Stop
    <2> HIDE DEF again, reopened
    <2> QED
        BY <2>1, <2>2, <2>3 DEF AtMostOneOpen, ClosedApart, AllClosed
<1> QED
    BY <1>1, <1>2

\* What a cycle makes of the stops of one vehicle.
LEMMA UpdatedStopsOneOpen ==
    ASSUME NEW stops \in SUBSET Stop, NEW row \in DeviceRow, NEW seen \in Sighting,
           NEW t \in Time, NEW without,
           AtMostOneOpen(stops), ClosedApart(stops), NotMovedAt(stops, t),
           ~row.known => stops = {},
           AwayFromOrigin(row) => AllClosed(stops),
           without => AllClosed(stops)
    PROVE  LET updated == UpdatedStops(stops, row, seen, t, without) IN
           /\ AtMostOneOpen(updated) /\ ClosedApart(updated)
           /\ AwayFromOrigin(UpdatedRow(row, seen, t)) => AllClosed(updated)
           /\ KeepsMoved(updated, stops, t)
<1> DEFINE updated == UpdatedStops(stops, row, seen, t, without)
           after == UpdatedRow(row, seen, t)
           branch == Branch(row, seen)
           shut == Closed(stops, t, "moved")
           Good == /\ AtMostOneOpen(updated) /\ ClosedApart(updated)
                   /\ AwayFromOrigin(after) => AllClosed(updated)
                   /\ KeepsMoved(updated, stops, t)
<1> SUFFICES Good
    OBVIOUS
<1>1. /\ branch \in {"new", "rental_start", "rental_hold", "in_place_release",
                     "moved", "failed_start", "stationary"}
      /\ branch = "new" <=> ~row.known
    BY Branches
<1>2. /\ AllClosed(shut) /\ ClosedApart(shut) /\ shut \subseteq Stop
      /\ KeepsMoved(shut, stops, t)
    BY MovedClosing, StopsSound DEF KeepsMoved
<1>3. \A some \in SUBSET Stop : AllClosed(some) => AtMostOneOpen(some)
    BY DEF AllClosed, AtMostOneOpen
<1>4. CASE branch = "new"
    <2>1. updated = {} \cup {NewStop(seen, t, 0)}
        BY <1>1, <1>4 DEF UpdatedStops
    <2>2. AllClosed({}) /\ ClosedApart({})
        BY DEF AllClosed, ClosedApart
    <2>3. ~AwayFromOrigin(after)
        BY <1>4 DEF AwayFromOrigin, UpdatedRow, NewRow
    <2> QED
        BY <2>1, <2>2, <2>3, Opening DEF KeepsMoved
<1>5. CASE branch = "rental_start"
    <2>1. updated = shut
        BY <1>5 DEF UpdatedStops
    <2> QED
        BY <2>1, <1>2, <1>3
<1>6. CASE branch = "rental_hold"
    <2>1. updated = stops
        BY <1>6 DEF UpdatedStops
    <2>2. AwayFromOrigin(after) => AwayFromOrigin(row)
        BY <1>6 DEF AwayFromOrigin, UpdatedRow, DeviceRow
    <2> QED
        BY <2>1, <2>2 DEF KeepsMoved
<1>7. CASE branch = "in_place_release"
    <2>1. updated = Resumed(stops, row, seen, t)
        BY <1>7 DEF UpdatedStops
    <2>2. AwayFromOrigin(row)
        BY <1>7 DEF Branch, InPlace, Released, AwayFromOrigin
    <2>3. ~AwayFromOrigin(after)
        BY <1>7 DEF AwayFromOrigin, UpdatedRow, RentalCleared, DeviceRow
    <2> QED
        BY <2>1, <2>2, <2>3, Resuming DEF AwayFromOrigin, KeepsMoved
<1>8. CASE branch = "moved"
    <2>1. updated = shut \cup {NewStop(seen, t, CarriedFailedStarts(row, seen))}
        BY <1>8 DEF UpdatedStops
    <2>2. ~AwayFromOrigin(after)
        BY <1>8 DEF AwayFromOrigin, UpdatedRow, RentalCleared, DeviceRow
    <2> DEFINE n == CarriedFailedStarts(row, seen)
               opened == shut \cup {NewStop(seen, t, n)}
    <2> HIDE DEF shut, n
    <2>3. /\ AtMostOneOpen(opened) /\ ClosedApart(opened)
          /\ \A stop \in opened : stop.reason = "moved" => stop \in shut
        BY <1>2, Opening
    <2>4. KeepsMoved(opened, stops, t)
        BY <2>3, <1>2 DEF KeepsMoved
    <2> HIDE DEF opened, after, updated
    <2> QED
        BY <2>1, <2>2, <2>3, <2>4 DEF opened, n
<1>9. CASE branch \in {"failed_start", "stationary"}
    <2> DEFINE before == IF branch = "failed_start" THEN BumpOpen(stops) ELSE stops
    <2>1. /\ before \subseteq Stop
          /\ AtMostOneOpen(before) /\ ClosedApart(before)
          /\ AllClosed(stops) => AllClosed(before)
          /\ KeepsMoved(before, stops, t)
        BY Bumping, StopsSound DEF KeepsMoved
    <2>2. \/ updated = before
          \/ AllClosed(stops) /\ \E n \in {0, 1} : updated = before \cup {NewStop(seen, t, n)}
        BY <1>9 DEF UpdatedStops, Reappeared
    <2>3. AwayFromOrigin(after) => FALSE
        BY <1>9 DEF AwayFromOrigin, UpdatedRow, Branch, Relocated, Released
    <2> HIDE DEF before, updated, after
    <2>4. CASE updated = before
        BY <2>1, <2>3, <2>4
    <2>5. ASSUME AllClosed(stops), NEW n \in {0, 1},
                 updated = before \cup {NewStop(seen, t, n)}
          PROVE  Good
        <3>1. /\ AtMostOneOpen(updated) /\ ClosedApart(updated)
              /\ \A stop \in updated : stop.reason = "moved" => stop \in before
            BY <2>1, <2>5, Opening
        <3> QED
            BY <2>1, <2>3, <3>1 DEF KeepsMoved
    <2> QED
        BY <2>2, <2>4, <2>5
<1> HIDE DEF Good, branch
<1> QED
    BY <1>1, <1>4, <1>5, <1>6, <1>7, <1>8, <1>9

-----------------------------------------------------------------------------
(* The invariant. *)

\* What a sweep keeps of the stops of one vehicle.
LEMMA SweepKeeps ==
    ASSUME NEW stops \in [Vehicles -> SUBSET Stop], NEW rows \in [Vehicles -> DeviceRow],
           NEW gone, NEW v \in Vehicles, NEW old, NEW t,
           AtMostOneOpen(stops[v]), ClosedApart(stops[v]), KeepsMoved(stops[v], old, t)
    PROVE  LET swept == Swept(stops, rows, gone)[v] IN
           /\ AtMostOneOpen(swept) /\ ClosedApart(swept) /\ KeepsMoved(swept, old, t)
           /\ AllClosed(stops[v]) => AllClosed(swept)
           /\ stops[v] = {} => swept = {}
<1> DEFINE swept == Swept(stops, rows, gone)[v]
           closed == Closed(stops[v], rows[v].last_observed_at, "absent")
<1>1. swept = IF v \in gone THEN closed ELSE stops[v]
    BY DEF Swept
<1>2. rows[v].last_observed_at \in Time \cup {Never} /\ stops[v] \in SUBSET Stop
    BY DEF DeviceRow
<1>3. /\ \A stop \in closed : stop.departed # Never
      /\ \A stop \in closed : stop.reason = "moved" => stop \in stops[v]
      /\ stops[v] = {} => closed = {}
    BY <1>2, AbsentClosing DEF AllClosed
<1> HIDE DEF closed, swept
<1> QED
    BY <1>1, <1>3 DEF AtMostOneOpen, ClosedApart, KeepsMoved, AllClosed, swept

LEMMA InitOpenStop == Init => OpenStopInv
<1> SUFFICES ASSUME Init PROVE OpenStopInv
    OBVIOUS
<1>1. TypeOK
    BY InitType
<1>2. Clocks /\ Locks
    BY DEF Init, IdleSince, Clocks, Locks, InFlight
<1>3. Closures
    BY DEF Init, NoRow, Closures, AtMostOneOpen, AllClosed, ClosedApart, NotMovedAt
<1> QED
    BY <1>1, <1>2, <1>3 DEF OpenStopInv

\* A fetch takes a time that no other cycle has.
LEMMA FetchOpenStop ==
    ASSUME OpenStopInv, NEW c \in CycleLines, NEW payload \in Payloads, CycleFetch(c, payload)
    PROVE  Clocks' /\ Locks' /\ Closures'
<1>1. /\ cycle' = [cycle EXCEPT ![c] = [cycle[c] EXCEPT !.pc = "fetched", !.snapshot_time = now,
                                                        !.seen = payload]]
      /\ cycle \in [CycleLines -> CycleState]
      /\ UNCHANGED <<now, device_state, device_history>>
      /\ \A d \in CycleLines : cycle[d].snapshot_time # now
      /\ now \in Nat
    BY TimesAreNatural DEF OpenStopInv, CycleFetch, TypeOK, tables, FreshTime
<1>2. cycle'[c].pc = "fetched" /\ cycle'[c].snapshot_time = now
    BY <1>1 DEF CycleState
<1>3. \A d \in CycleLines \ {c} : cycle'[d] = cycle[d]
    BY <1>1
<1>4. Clocks'
    BY <1>1, <1>2, <1>3 DEF OpenStopInv, Clocks, InFlight
<1>5. Locks'
    BY <1>1, <1>2, <1>3 DEF OpenStopInv, Locks, OpenStops
<1>6. Closures'
    <2>1. ASSUME NEW v \in Vehicles PROVE NotMovedAt(device_history[v], now)
        BY <1>1 DEF OpenStopInv, Closures, NotMovedAt
    <2> QED
        BY <1>1, <1>2, <1>3, <2>1 DEF OpenStopInv, Closures, InFlight
<1> QED
    BY <1>4, <1>5, <1>6

\* An update begins with rows that no other one has locked.
LEMMA BeginOpenStop ==
    ASSUME OpenStopInv, NEW c \in CycleLines, UpdateBegin(c)
    PROVE  Clocks' /\ Locks' /\ Closures'
<1> DEFINE seen == DOMAIN cycle[c].seen
           known == {v \in seen : device_state[v].known}
           without == {v \in seen : WithoutOpenStop(v, cycle[c].snapshot_time)}
<1>1. /\ cycle' = [cycle EXCEPT ![c] = [cycle[c] EXCEPT !.pc = "updating", !.prior = known,
                                                        !.without_open_stop = without]]
      /\ cycle \in [CycleLines -> CycleState]
      /\ UNCHANGED <<now, device_state, device_history>>
      /\ cycle[c].pc = "fetched" /\ seen \cap LockedByOthers(c) = {}
    BY DEF OpenStopInv, UpdateBegin, TypeOK, tables
<1>2. /\ cycle'[c].pc = "updating" /\ cycle'[c].snapshot_time = cycle[c].snapshot_time
      /\ cycle'[c].prior = known /\ cycle'[c].without_open_stop = without
    BY <1>1 DEF CycleState
<1>3. \A d \in CycleLines \ {c} : cycle'[d] = cycle[d]
    BY <1>1
<1>4. Clocks'
    BY <1>1, <1>2, <1>3 DEF OpenStopInv, Clocks, InFlight
<1>5. Locks'
    <2>1. without \subseteq known
        <3>1. seen \subseteq Vehicles
            BY <1>1, PayloadSound DEF CycleState
        <3>2. \A v \in without : device_state[v].last_observed_at # Never
            BY DEF WithoutOpenStop, LongGone
        <3> QED
            BY <3>1, <3>2 DEF OpenStopInv, Closures
    <2>2. \A v \in without : OpenStops(v) = {}
        BY DEF WithoutOpenStop
    <2>3. ASSUME NEW d \in CycleLines \ {c}, cycle[d].pc = "updating"
          PROVE  known \cap cycle[d].prior = {}
        BY <1>1, <2>3 DEF LockedByOthers
    <2> QED
        BY <1>1, <1>2, <1>3, <2>1, <2>2, <2>3 DEF OpenStopInv, Locks, OpenStops
<1>6. Closures'
    BY <1>1, <1>2, <1>3 DEF OpenStopInv, Closures, InFlight
<1> QED
    BY <1>4, <1>5, <1>6

\* A commit writes what its transaction read and locked.
LEMMA CommitOpenStop ==
    ASSUME OpenStopInv, NEW c \in CycleLines, NEW plausible \in BOOLEAN,
           UpdateCommit(c, plausible)
    PROVE  Clocks' /\ Locks' /\ Closures'
<1> DEFINE payload == cycle[c].seen
           t == cycle[c].snapshot_time
           without == cycle[c].without_open_stop
           rows == [v \in Vehicles |->
               IF v \in DOMAIN payload THEN UpdatedRow(device_state[v], payload[v], t)
               ELSE device_state[v]]
           stops == [v \in Vehicles |->
               IF v \in DOMAIN payload
               THEN UpdatedStops(device_history[v], device_state[v], payload[v], t, v \in without)
               ELSE device_history[v]]
           observed == processed_cycles \cup
               (IF CountsAsObservation(payload, plausible) THEN {t} ELSE {})
           gone == Absent(rows, observed, t, TRUE) \ LockedByOthers(c)
<1>1. /\ device_state' = rows
      /\ device_history' = Swept(stops, rows, gone)
      /\ cycle' = [cycle EXCEPT ![c] = IdleSince(@.snapshot_time)]
      /\ now' = now
      /\ cycle[c].pc = "updating" /\ Conflicts(c) = {}
    BY DEF UpdateCommit
<1> HIDE DEF observed, gone
<1>2. /\ device_state \in [Vehicles -> DeviceRow] /\ device_history \in [Vehicles -> SUBSET Stop]
      /\ cycle \in [CycleLines -> CycleState] /\ now \in Time
    BY DEF OpenStopInv, TypeOK
<1>3. t \in Time /\ payload \in Payloads
    BY <1>1, <1>2 DEF OpenStopInv, TypeOK, CycleState
<1>4. \A v \in DOMAIN payload : v \in Vehicles /\ payload[v] \in Sighting
    BY <1>3, PayloadSound
<1>5. /\ cycle'[c].pc = "idle" /\ cycle'[c].snapshot_time = t
      /\ \A d \in CycleLines \ {c} : cycle'[d] = cycle[d]
    BY <1>1, <1>2 DEF IdleSince
<1>6. ASSUME NEW v \in Vehicles
      PROVE  /\ AtMostOneOpen(device_history[v]) /\ ClosedApart(device_history[v])
             /\ NotMovedAt(device_history[v], t)
             /\ ~device_state[v].known => device_history[v] = {}
             /\ AwayFromOrigin(device_state[v]) => AllClosed(device_history[v])
             /\ v \in without => AllClosed(device_history[v])
    <2>1. v \in without => OpenStops(v) = {}
        BY <1>1 DEF OpenStopInv, Locks
    <2> QED
        BY <1>1, <2>1 DEF OpenStopInv, Closures, InFlight, OpenStops, AllClosed
<1>7. ASSUME NEW v \in Vehicles, v \in DOMAIN payload
      PROVE  /\ rows[v] \in DeviceRow /\ rows[v].known
             /\ stops[v] \in SUBSET Stop
             /\ AtMostOneOpen(stops[v]) /\ ClosedApart(stops[v])
             /\ KeepsMoved(stops[v], device_history[v], t)
             /\ AwayFromOrigin(rows[v]) => AllClosed(stops[v])
    <2>1. payload[v] \in Sighting /\ device_state[v] \in DeviceRow
          /\ device_history[v] \in SUBSET Stop
        BY <1>2, <1>4, <1>7
    <2>2. UpdatedRow(device_state[v], payload[v], t) \in DeviceRow
          /\ UpdatedRow(device_state[v], payload[v], t).known
        BY <2>1, <1>3, UpdatedRowSound
    <2>3. UpdatedStops(device_history[v], device_state[v], payload[v], t, v \in without) \subseteq Stop
        BY <2>1, <1>3, UpdatedStopsSound
    <2>4. LET updated == UpdatedStops(device_history[v], device_state[v], payload[v], t,
                                      v \in without) IN
          /\ AtMostOneOpen(updated) /\ ClosedApart(updated)
          /\ AwayFromOrigin(UpdatedRow(device_state[v], payload[v], t)) => AllClosed(updated)
          /\ KeepsMoved(updated, device_history[v], t)
        BY <2>1, <1>3, <1>6, UpdatedStopsOneOpen
    <2> QED
        BY <1>7, <2>2, <2>3, <2>4
<1>8. ASSUME NEW v \in Vehicles, v \notin DOMAIN payload
      PROVE  /\ rows[v] = device_state[v] /\ stops[v] = device_history[v]
             /\ KeepsMoved(stops[v], device_history[v], t)
    BY <1>8 DEF KeepsMoved
<1>9. rows \in [Vehicles -> DeviceRow] /\ stops \in [Vehicles -> SUBSET Stop]
    <2>1. \A v \in Vehicles : rows[v] \in DeviceRow /\ stops[v] \in SUBSET Stop
        BY <1>2, <1>7, <1>8
    <2> QED
        BY <2>1
<1> HIDE DEF rows, stops
<1>10. ASSUME NEW v \in Vehicles
       PROVE  /\ AtMostOneOpen(device_history'[v]) /\ ClosedApart(device_history'[v])
              /\ KeepsMoved(device_history'[v], device_history[v], t)
              /\ AllClosed(stops[v]) => AllClosed(device_history'[v])
              /\ stops[v] = {} => device_history'[v] = {}
    <2>1. AtMostOneOpen(stops[v]) /\ ClosedApart(stops[v])
          /\ KeepsMoved(stops[v], device_history[v], t)
        BY <1>6, <1>7, <1>8
    <2> QED
        BY <1>1, <1>9, <2>1, SweepKeeps
<1>11. Clocks'
    BY <1>1, <1>5 DEF OpenStopInv, Clocks, InFlight
<1>12. Locks'
    <2>1. ASSUME NEW d \in CycleLines \ {c}, cycle[d].pc = "updating",
                 NEW v \in cycle[d].prior
          PROVE  device_state'[v].known
        <3>1. v \in Vehicles /\ device_state[v].known
            BY <1>2, <2>1 DEF OpenStopInv, Locks, CycleState
        <3> QED
            BY <1>1, <1>7, <1>8, <3>1
    <2>2. ASSUME NEW d \in CycleLines \ {c}, cycle[d].pc = "updating",
                 NEW v \in cycle[d].without_open_stop
          PROVE  OpenStops(v)' = {}
        <3>1. /\ v \in Vehicles /\ device_state[v].known /\ v \in cycle[d].prior
              /\ v \notin cycle[c].prior /\ OpenStops(v) = {}
            BY <1>1, <1>2, <2>2 DEF OpenStopInv, Locks, CycleState
        <3>2. v \notin DOMAIN payload
            BY <1>1, <3>1 DEF Conflicts
        <3>3. AllClosed(stops[v])
            BY <1>8, <3>1, <3>2 DEF AllClosed, OpenStops
        <3> QED
            BY <1>10, <3>1, <3>3 DEF AllClosed, OpenStops
    <2> QED
        BY <1>5, <2>1, <2>2 DEF OpenStopInv, Locks
<1>13. Closures'
    <2> SUFFICES ASSUME NEW v \in Vehicles
                 PROVE
        /\ ~device_state'[v].known =>
               device_history'[v] = {} /\ device_state'[v].last_observed_at = Never
        /\ AwayFromOrigin(device_state'[v]) => AllClosed(device_history'[v])
        /\ \A d \in CycleLines :
               cycle'[d].pc # "idle" => NotMovedAt(device_history'[v], cycle'[d].snapshot_time)
        /\ \A stop \in device_history'[v] : stop.reason = "moved" /\ stop.departed # Never =>
               /\ stop.departed <= now
               /\ stop.departed = now => \E d \in CycleLines : cycle'[d].snapshot_time = now
        BY <1>1, <1>10 DEF Closures, InFlight
    <2>1. /\ ~device_state'[v].known =>
                 device_history'[v] = {} /\ device_state'[v].last_observed_at = Never
          /\ AwayFromOrigin(device_state'[v]) => AllClosed(device_history'[v])
        <3>1. CASE v \in DOMAIN payload
            BY <1>1, <1>7, <1>10, <3>1
        <3>2. CASE v \notin DOMAIN payload
            BY <1>1, <1>8, <1>10, <3>2 DEF OpenStopInv, Closures
        <3> QED
            BY <3>1, <3>2
    <2>2. ASSUME NEW d \in CycleLines, cycle'[d].pc # "idle"
          PROVE  NotMovedAt(device_history'[v], cycle'[d].snapshot_time)
        <3>1. /\ d # c /\ cycle'[d] = cycle[d] /\ cycle[d].pc # "idle"
              /\ cycle[d].snapshot_time # t
            BY <1>5, <2>2 DEF OpenStopInv, Clocks, InFlight
        <3>2. NotMovedAt(device_history[v], cycle[d].snapshot_time)
            BY <3>1 DEF OpenStopInv, Closures, InFlight
        <3>3. cycle[d].snapshot_time \in Time
            BY <3>1 DEF OpenStopInv, TypeOK
        <3>4. cycle[d].snapshot_time # Never
            BY <3>3, TimesAreNatural
        <3> QED
            BY <1>10, <3>1, <3>2, <3>4 DEF NotMovedAt, KeepsMoved
    <2>3. ASSUME NEW stop \in device_history'[v], stop.reason = "moved", stop.departed # Never
          PROVE  /\ stop.departed <= now
                 /\ stop.departed = now => \E d \in CycleLines : cycle'[d].snapshot_time = now
        <3>1. CASE stop.departed = t
            BY <1>5, <3>1 DEF OpenStopInv, Clocks
        <3>2. CASE stop.departed # t
            <4>1. stop \in device_history[v]
                BY <1>10, <2>3, <3>2 DEF KeepsMoved
            <4>2. \A d \in CycleLines : cycle'[d].snapshot_time = cycle[d].snapshot_time
                BY <1>5
            <4> QED
                BY <2>3, <4>1, <4>2 DEF OpenStopInv, Closures
        <3> QED
            BY <3>1, <3>2
    <2> QED
        BY <2>1, <2>2, <2>3
<1> QED
    BY <1>11, <1>12, <1>13

\* A transaction that rolls back gives up its locks and nothing else.
LEMMA RollbackOpenStop ==
    ASSUME OpenStopInv, NEW c \in CycleLines,
           cycle' = [cycle EXCEPT ![c] = IdleSince(@.snapshot_time)],
           UNCHANGED <<now, device_state, device_history>>
    PROVE  Clocks' /\ Locks' /\ Closures'
<1>1. cycle'[c].pc = "idle" /\ cycle'[c].snapshot_time = cycle[c].snapshot_time
    BY DEF OpenStopInv, TypeOK, IdleSince
<1>2. \A d \in CycleLines \ {c} : cycle'[d] = cycle[d]
    BY DEF OpenStopInv, TypeOK
<1>3. Clocks'
    BY <1>1, <1>2 DEF OpenStopInv, Clocks, InFlight
<1>4. Locks'
    BY <1>1, <1>2 DEF OpenStopInv, Locks, OpenStops
<1>5. Closures'
    <2>1. \A d \in CycleLines : cycle'[d].snapshot_time = cycle[d].snapshot_time
        BY <1>1, <1>2
    <2>2. \A d \in CycleLines : cycle'[d].pc # "idle" => cycle[d].pc # "idle"
        BY <1>1, <1>2
    <2> QED
        BY <2>1, <2>2 DEF OpenStopInv, Closures, InFlight
<1> QED
    BY <1>3, <1>4, <1>5

\* The cleanup closes stops and opens none.
LEMMA CleanupOpenStop ==
    ASSUME OpenStopInv, CloseGhostStops
    PROVE  Clocks' /\ Locks' /\ Closures'
<1> DEFINE gone == Absent(device_state, processed_cycles, now, FALSE) \ LockedByOthers("cleanup")
<1>1. /\ device_history' = Swept(device_history, device_state, gone)
      /\ UNCHANGED <<now, device_state, cycle>>
    BY DEF CloseGhostStops
<1> HIDE DEF gone
<1>2. ASSUME NEW v \in Vehicles
      PROVE  /\ AtMostOneOpen(device_history'[v]) /\ ClosedApart(device_history'[v])
             /\ KeepsMoved(device_history'[v], device_history[v], Never)
             /\ AllClosed(device_history[v]) => AllClosed(device_history'[v])
             /\ device_history[v] = {} => device_history'[v] = {}
    <2>1. /\ device_state \in [Vehicles -> DeviceRow]
          /\ device_history \in [Vehicles -> SUBSET Stop]
        BY DEF OpenStopInv, TypeOK
    <2>2. AtMostOneOpen(device_history[v]) /\ ClosedApart(device_history[v])
          /\ KeepsMoved(device_history[v], device_history[v], Never)
        BY DEF OpenStopInv, Closures, KeepsMoved
    <2> QED
        BY <1>1, <2>1, <2>2, SweepKeeps
<1>3. Clocks'
    BY <1>1 DEF OpenStopInv, Clocks, InFlight
<1>4. Locks'
    <2>1. ASSUME NEW c \in CycleLines, cycle[c].pc = "updating",
                 NEW v \in cycle[c].without_open_stop
          PROVE  OpenStops(v)' = {}
        <3>1. v \in Vehicles /\ OpenStops(v) = {}
            BY <2>1 DEF OpenStopInv, Locks, TypeOK, CycleState
        <3> QED
            BY <1>2, <3>1 DEF AllClosed, OpenStops
    <2> QED
        BY <1>1, <2>1 DEF OpenStopInv, Locks
<1>5. Closures'
    <2>1. ASSUME NEW v \in Vehicles, NEW c \in CycleLines, cycle[c].pc # "idle"
          PROVE  NotMovedAt(device_history'[v], cycle[c].snapshot_time)
        <3>1. NotMovedAt(device_history[v], cycle[c].snapshot_time)
            BY <2>1 DEF OpenStopInv, Closures, InFlight
        <3>2. cycle[c].snapshot_time # Never
            BY <2>1, TimesAreNatural DEF OpenStopInv, TypeOK
        <3> QED
            BY <1>2, <3>1, <3>2 DEF NotMovedAt, KeepsMoved
    <2>2. ASSUME NEW v \in Vehicles, NEW stop \in device_history'[v],
                 stop.reason = "moved", stop.departed # Never
          PROVE  stop \in device_history[v]
        BY <1>2, <2>2 DEF KeepsMoved
    <2> QED
        BY <1>1, <1>2, <2>1, <2>2 DEF OpenStopInv, Closures, InFlight
<1> QED
    BY <1>3, <1>4, <1>5

LEMMA StepOpenStop == OpenStopInv /\ [Next]_vars => OpenStopInv'
<1> SUFFICES ASSUME OpenStopInv, [Next]_vars PROVE OpenStopInv'
    OBVIOUS
<1>1. TypeOK'
    BY StepType DEF OpenStopInv
<1>2. ASSUME NEW c \in CycleLines, NEW payload \in Payloads, CycleFetch(c, payload)
      PROVE  Clocks' /\ Locks' /\ Closures'
    BY <1>2, FetchOpenStop
<1>3. ASSUME NEW c \in CycleLines, UpdateBegin(c) PROVE Clocks' /\ Locks' /\ Closures'
    BY <1>3, BeginOpenStop
<1>4. ASSUME NEW c \in CycleLines, NEW plausible \in BOOLEAN, UpdateCommit(c, plausible)
      PROVE  Clocks' /\ Locks' /\ Closures'
    BY <1>4, CommitOpenStop
<1>5. ASSUME NEW c \in CycleLines, UpdateConflict(c) \/ UpdateFails(c)
      PROVE  Clocks' /\ Locks' /\ Closures'
    <2>1. /\ cycle' = [cycle EXCEPT ![c] = IdleSince(@.snapshot_time)]
          /\ UNCHANGED <<now, device_state, device_history>>
        BY <1>5 DEF UpdateConflict, UpdateFails, tables
    <2> QED
        BY <2>1, RollbackOpenStop
<1>6. ASSUME CloseGhostStops PROVE Clocks' /\ Locks' /\ Closures'
    BY <1>6, CleanupOpenStop
<1>7. ASSUME Tick PROVE Clocks' /\ Locks' /\ Closures'
    <2>1. /\ UNCHANGED <<device_state, device_history, cycle>>
          /\ now' = now + 1 /\ now \in Nat
        <3>1. UNCHANGED <<device_state, device_history, cycle>> /\ now' = now + 1
            BY <1>7 DEF Tick, tables
        <3>2. now \in Time
            BY DEF OpenStopInv, TypeOK
        <3> QED
            BY <3>1, <3>2, TimesAreNatural
    <2>2. \A c \in CycleLines : cycle[c].snapshot_time \in Int
        <3> SUFFICES ASSUME NEW c \in CycleLines PROVE cycle[c].snapshot_time \in Int
            OBVIOUS
        <3>1. cycle[c] \in CycleState
            BY DEF OpenStopInv, TypeOK
        <3>2. cycle[c].snapshot_time \in Time \cup {Never}
            BY <3>1 DEF CycleState
        <3> QED
            BY <3>2, InstantsAreIntegers
    <2>3. \A v \in Vehicles : \A stop \in device_history[v] : stop.departed \in Int
        <3> SUFFICES ASSUME NEW v \in Vehicles, NEW stop \in device_history[v]
                     PROVE  stop.departed \in Int
            OBVIOUS
        <3>1. stop \in Stop
            BY DEF OpenStopInv, TypeOK
        <3>2. stop.departed \in Time \cup {Never}
            BY <3>1 DEF Stop
        <3> QED
            BY <3>2, InstantsAreIntegers
    <2>4. Clocks'
        BY <2>1, <2>2 DEF OpenStopInv, Clocks, InFlight
    <2>5. Locks'
        BY <2>1 DEF OpenStopInv, Locks, OpenStops
    <2>6. Closures'
        BY <2>1, <2>3 DEF OpenStopInv, Closures, InFlight
    <2> QED
        BY <2>4, <2>5, <2>6
<1>8. ASSUME UNCHANGED vars PROVE Clocks' /\ Locks' /\ Closures'
    <2>1. UNCHANGED <<now, device_state, device_history, cycle>>
        BY <1>8 DEF vars
    <2> QED
        BY <2>1 DEF OpenStopInv, Clocks, Locks, Closures, InFlight, OpenStops
<1>9. Clocks' /\ Locks' /\ Closures'
    BY <1>2, <1>3, <1>4, <1>5, <1>6, <1>7, <1>8 DEF Next
<1> QED
    BY <1>1, <1>9 DEF OpenStopInv

\* A vehicle has at most one open stop, for any number of overlapping cycles and
\* cleanups, any fleet and any thresholds (update_for_cycle, close_absent_stops).
THEOREM OneOpenStopHolds == Spec => []OneOpenStop
<1>1. OpenStopInv => OneOpenStop
    <2> SUFFICES ASSUME OpenStopInv, NEW v \in Vehicles PROVE Cardinality(OpenStops(v)) <= 1
        BY DEF OneOpenStop
    <2>1. \A one, other \in OpenStops(v) : one = other
        BY DEF OpenStopInv, Closures, AtMostOneOpen, OpenStops
    <2>2. CASE OpenStops(v) = {}
        BY <2>2, FS_EmptySet
    <2>3. CASE OpenStops(v) # {}
        <3>1. PICK stop \in OpenStops(v) : TRUE
            BY <2>3
        <3>2. OpenStops(v) = {stop}
            BY <2>1, <3>1
        <3>3. Cardinality({stop}) = 1
            BY FS_Singleton
        <3> QED
            BY <3>2, <3>3
    <2> QED
        BY <2>2, <2>3
<1> QED
    BY <1>1, InitOpenStop, StepOpenStop, PTL DEF Spec

=============================================================================
