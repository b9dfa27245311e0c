---------------------------- MODULE TimelinesProofs ----------------------------
(***************************************************************************)
(* Theorems about the histories of DeviceState: the stops, the trips and    *)
(* the row of a vehicle tell one story (StopsDisjoint, DwellCountersAgree,  *)
(* TripsJoinStops), an absence is a matter of cycles that did not see the   *)
(* vehicle (AbsentOnlyIfMissed), a parked vehicle has a stop unless a race  *)
(* took it (ParkedHasStopUnlessRaced), and what is absent has none          *)
(* (SweepComplete).                                                         *)
(***************************************************************************)
EXTENDS DeviceStateProofs, WellFoundedInduction

USE DEF Never, Unknown, NoBike

-----------------------------------------------------------------------------
(***************************************************************************)
(* The stops and trips of a vehicle make up a timeline as long as cycles    *)
(* commit in the order of their snapshots.  StopsDisjoint, TripsJoinStops   *)
(* and DwellCountersAgree each need the others: a release that reopens a    *)
(* stop keeps the rest apart only because every stop began before the       *)
(* rental's start, leaves every trip a stop that is over only because no    *)
(* trip is that recent, and finds the counters in agreement only because    *)
(* the stop that the start closed still agreed with the row.                *)
(***************************************************************************)

\* The stop is as old as the row's dwell clock or newer, with as many failed starts.
Agrees(stop, row) ==
    /\ stop.arrived >= row.first_observed_at_location
    /\ stop.failed_starts <= row.number_failed_starts
    /\ stop.arrived = row.first_observed_at_location =>
           stop.failed_starts = row.number_failed_starts

\* The stop that the start of the rental closed, which its release may reopen.
LeftAtUnlock(stop, row) ==
    /\ row.rental_started_at # Never
    /\ stop.reason = "moved" /\ stop.departed = row.rental_started_at

Disjoint(stops) ==
    \A one, other \in stops :
        one # other =>
            \/ one.departed # Never /\ one.departed <= other.arrived
            \/ other.departed # Never /\ other.departed <= one.arrived

Arrives(trip, stops) == \E stop \in stops : stop.arrived = trip.at /\ stop.place = trip.to

Leaves(trip, stops) ==
    \E stop \in stops :
        /\ stop.place = trip.from /\ stop.arrived < trip.at
        /\ stop.departed # Never /\ stop.departed <= trip.at

\* No stop is newer than time t.
Until(stops, t) == \A stop \in stops : stop.arrived <= t /\ stop.departed <= t

\* A rental whose origin is known began after every stop did.
RentalLast(stops, row) ==
    AwayFromOrigin(row) => \A stop \in stops : stop.arrived < row.rental_started_at

AllAgree(stops, row) ==
    \A stop \in stops : stop.departed = Never \/ LeftAtUnlock(stop, row) => Agrees(stop, row)

Timeline(row, stops, trips) ==
    /\ row.last_observed_at # Never
    /\ row.first_observed_at_location <= row.last_observed_at
    /\ Until(stops, row.last_observed_at)
    /\ RentalLast(stops, row)
    /\ AllAgree(stops, row)
    /\ Disjoint(stops)
    /\ \E stop \in stops : stop.place = row.place
    /\ \A trip \in trips : Arrives(trip, stops) /\ Leaves(trip, stops)

\* No cycle in flight has the snapshot time a vehicle was last seen at.
Instants ==
    \A v \in Vehicles :
        LET seen_at == device_state[v].last_observed_at IN
        /\ seen_at <= now
        /\ seen_at = now => \E c \in CycleLines : cycle[c].snapshot_time = now
        /\ \A c \in CycleLines : InFlight(c) => seen_at # cycle[c].snapshot_time

Timelines ==
    ~reordered =>
        \A v \in Vehicles :
            IF device_state[v].known
            THEN Timeline(device_state[v], device_history[v], trip_events[v])
            ELSE trip_events[v] = {}

\* Stops stay where they were, from when they began to when they were over.
Lasts(stops, updated) ==
    \A stop \in stops : \E same \in updated :
        /\ same.place = stop.place /\ same.arrived = stop.arrived
        /\ stop.departed # Never => same.departed = stop.departed

\* The times of stops, rows and trips are integers.
LEMMA StopTimes ==
    ASSUME NEW stop \in Stop
    PROVE  /\ stop.arrived \in Nat /\ stop.departed \in Int /\ stop.failed_starts \in Nat
           /\ stop.departed \in Nat \cup {Never}
<1>1. stop.arrived \in Time /\ stop.departed \in Time \cup {Never}
      /\ stop.failed_starts \in Nat
    BY DEF Stop
<1>2. Time \cup {Never} \subseteq Nat \cup {Never}
    BY TimesAreNatural
<1>3. \A instant \in Time \cup {Never} : instant \in Int
    BY InstantsAreIntegers
<1>4. Time \subseteq Nat
    BY TimesAreNatural
<1> HIDE DEF Never
<1> QED
    BY <1>1, <1>2, <1>3, <1>4

\* The times of a row are numbers, or Never.
LEMMA RowTimes ==
    ASSUME NEW row \in DeviceRow
    PROVE  /\ row.first_observed_at_location \in Nat /\ row.number_failed_starts \in Nat
           /\ row.last_observed_at \in Int /\ row.rental_started_at \in Int
           /\ row.last_observed_at \in Time \cup {Never}
           /\ row.rental_started_at \in Nat \cup {Never}
<1>1. /\ row.first_observed_at_location \in Time /\ row.number_failed_starts \in Nat
      /\ row.last_observed_at \in Time \cup {Never}
      /\ row.rental_started_at \in Time \cup {Never}
    BY DEF DeviceRow
<1>2. Time \cup {Never} \subseteq Nat \cup {Never}
    BY TimesAreNatural
<1>3. \A instant \in Time \cup {Never} : instant \in Int
    BY InstantsAreIntegers
<1>4. Time \subseteq Nat
    BY TimesAreNatural
<1> HIDE DEF Never
<1> QED
    BY <1>1, <1>2, <1>3, <1>4

\* A trip between stops that last stays one.
LEMMA TripsLast ==
    ASSUME NEW stops, NEW updated, Lasts(stops, updated), NEW trip
    PROVE  /\ Arrives(trip, stops) => Arrives(trip, updated)
           /\ Leaves(trip, stops) => Leaves(trip, updated)
<1>1. ASSUME Arrives(trip, stops) PROVE Arrives(trip, updated)
    BY <1>1 DEF Lasts, Arrives
<1>2. ASSUME Leaves(trip, stops) PROVE Leaves(trip, updated)
    <2>1. PICK stop \in stops : /\ stop.place = trip.from /\ stop.arrived < trip.at
                                /\ stop.departed # Never /\ stop.departed <= trip.at
        BY <1>2 DEF Leaves
    <2>2. PICK same \in updated : /\ same.place = stop.place /\ same.arrived = stop.arrived
                                  /\ same.departed = stop.departed
        BY <2>1 DEF Lasts
    <2> QED
        BY <2>1, <2>2 DEF Leaves
<1> QED
    BY <1>1, <1>2

\* Closing the open stops at a time when none is newer.
LEMMA ClosingInTime ==
    ASSUME NEW stops \in SUBSET Stop, NEW t \in Time, NEW reason \in {"moved", "absent"},
           Disjoint(stops), Until(stops, t)
    PROVE  LET closed == Closed(stops, t, reason) IN
           /\ Disjoint(closed) /\ AllClosed(closed) /\ Until(closed, t) /\ Lasts(stops, closed)
           /\ \A stop \in closed :
                  \/ stop \in stops /\ stop.departed # Never
                  \/ stop.reason = reason /\ \E open \in stops :
                         /\ open.departed = Never
                         /\ stop.departed = t /\ stop.arrived = open.arrived
                         /\ stop.failed_starts = open.failed_starts
<1> DEFINE left(stop) == IF reason = "absent" THEN Larger(t, stop.arrived) ELSE t
           shut(stop) == [stop EXCEPT !.departed = left(stop), !.reason = reason]
           closed == Closed(stops, t, reason)
<1>1. closed = {IF stop.departed = Never THEN shut(stop) ELSE stop : stop \in stops}
    BY DEF Closed
<1>2. t \in Nat /\ t # Never
    BY TimesAreNatural
<1>3. ASSUME NEW stop \in stops
      PROVE  /\ shut(stop).departed = t /\ shut(stop).reason = reason
             /\ shut(stop).arrived = stop.arrived /\ shut(stop).place = stop.place
             /\ shut(stop).failed_starts = stop.failed_starts
    <2>1. left(stop) = t
        BY <1>2, StopTimes DEF Until, Larger
    <2> HIDE DEF left
    <2> QED
        BY <2>1 DEF Stop
<1> HIDE DEF left, shut, closed
<1>4. ASSUME NEW stop \in closed
      PROVE  \/ stop \in stops /\ stop.departed # Never
             \/ \E open \in stops : open.departed = Never /\ stop = shut(open)
    BY <1>1
<1>5. ASSUME NEW stop \in stops
      PROVE  (IF stop.departed = Never THEN shut(stop) ELSE stop) \in closed
    BY <1>1
<1>6. AllClosed(closed)
    BY <1>2, <1>3, <1>4 DEF AllClosed
<1>7. Until(closed, t)
    BY <1>2, <1>3, <1>4, StopTimes DEF Until
<1>8. Lasts(stops, closed)
    <2> SUFFICES ASSUME NEW stop \in stops
                 PROVE  \E same \in closed :
                            /\ same.place = stop.place /\ same.arrived = stop.arrived
                            /\ stop.departed # Never => same.departed = stop.departed
        BY DEF Lasts
    <2>1. CASE stop.departed = Never
        BY <1>3, <1>5, <2>1
    <2>2. CASE stop.departed # Never
        BY <1>5, <2>2
    <2> QED
        BY <2>1, <2>2
<1>9. Disjoint(closed)
    <2> SUFFICES ASSUME NEW one \in closed, NEW other \in closed, one # other
                 PROVE  \/ one.departed # Never /\ one.departed <= other.arrived
                        \/ other.departed # Never /\ other.departed <= one.arrived
        BY DEF Disjoint
    <2>1. CASE one \in stops /\ other \in stops
        BY <2>1 DEF Disjoint
    <2>2. ASSUME one \notin stops, other \in stops
          PROVE  other.departed # Never /\ other.departed <= one.arrived
        <3>1. PICK open \in stops : open.departed = Never /\ one = shut(open)
            BY <1>4, <2>2
        <3>2. other.departed # Never
            BY <1>6 DEF AllClosed
        <3> QED
            BY <2>2, <3>1, <3>2, <1>3 DEF Disjoint
    <2>3. ASSUME other \notin stops, one \in stops
          PROVE  one.departed # Never /\ one.departed <= other.arrived
        <3>1. PICK open \in stops : open.departed = Never /\ other = shut(open)
            BY <1>4, <2>3
        <3>2. one.departed # Never
            BY <1>6 DEF AllClosed
        <3> QED
            BY <2>3, <3>1, <3>2, <1>3 DEF Disjoint
    <2>4. CASE one \notin stops /\ other \notin stops
        BY <1>4, <2>4 DEF Disjoint
    <2> QED
        BY <2>1, <2>2, <2>3, <2>4
<1>10. ASSUME NEW stop \in closed
       PROVE  \/ stop \in stops /\ stop.departed # Never
              \/ stop.reason = reason /\ \E open \in stops :
                     /\ open.departed = Never
                     /\ stop.departed = t /\ stop.arrived = open.arrived
                     /\ stop.failed_starts = open.failed_starts
    BY <1>3, <1>4
<1> QED
    BY <1>6, <1>7, <1>8, <1>9, <1>10 DEF closed

\* A stop that begins at t, beside stops that are over by then.
LEMMA OpeningInTime ==
    ASSUME NEW stops \in SUBSET Stop, NEW seen \in Sighting, NEW t \in Time, NEW n \in Nat,
           Disjoint(stops), AllClosed(stops), Until(stops, t)
    PROVE  LET opened == stops \cup {NewStop(seen, t, n)} IN
           Disjoint(opened) /\ Until(opened, t) /\ Lasts(stops, opened)
<1> DEFINE new == NewStop(seen, t, n)
<1>1. new.arrived = t /\ new.departed = Never
    BY DEF NewStop
<1>2. t \in Nat
    BY TimesAreNatural
<1> HIDE DEF new
<1>3. Disjoint(stops \cup {new})
    BY <1>1 DEF Disjoint, AllClosed, Until
<1>4. Until(stops \cup {new}, t)
    BY <1>1, <1>2 DEF Until
<1>5. Lasts(stops, stops \cup {new})
    BY DEF Lasts
<1> QED
    BY <1>3, <1>4, <1>5 DEF new

\* Bumping the open stops moves nothing.
LEMMA BumpingInTime ==
    ASSUME NEW stops \in SUBSET Stop, NEW t, Disjoint(stops), Until(stops, t)
    PROVE  /\ Disjoint(BumpOpen(stops)) /\ Until(BumpOpen(stops), t)
           /\ Lasts(stops, BumpOpen(stops))
           /\ AllClosed(stops) => BumpOpen(stops) = stops
           /\ \A stop \in BumpOpen(stops) :
                  \/ stop \in stops /\ stop.departed # Never
                  \/ \E open \in stops :
                         /\ open.departed = Never /\ stop.departed = Never
                         /\ stop.arrived = open.arrived
                         /\ stop.failed_starts = open.failed_starts + 1
<1> DEFINE bumped(stop) == [stop EXCEPT !.failed_starts = @ + 1]
<1>1. BumpOpen(stops) = {IF stop.departed = Never THEN bumped(stop) ELSE stop : stop \in stops}
    BY DEF BumpOpen
<1>2. ASSUME NEW stop \in stops
      PROVE  /\ bumped(stop).departed = stop.departed /\ bumped(stop).place = stop.place
             /\ bumped(stop).arrived = stop.arrived
             /\ bumped(stop).failed_starts = stop.failed_starts + 1
    BY DEF Stop
<1> HIDE DEF bumped
<1>3. ASSUME NEW stop \in BumpOpen(stops)
      PROVE  \/ stop \in stops /\ stop.departed # Never
             \/ \E open \in stops : open.departed = Never /\ stop = bumped(open)
    BY <1>1
<1>4. ASSUME NEW stop \in stops
      PROVE  (IF stop.departed = Never THEN bumped(stop) ELSE stop) \in BumpOpen(stops)
    BY <1>1
<1>5. Until(BumpOpen(stops), t)
    BY <1>2, <1>3 DEF Until
<1>6. Lasts(stops, BumpOpen(stops))
    BY <1>2, <1>4 DEF Lasts
<1>7. Disjoint(BumpOpen(stops))
    BY <1>2, <1>3 DEF Disjoint
<1>8. AllClosed(stops) => BumpOpen(stops) = stops
    BY <1>3, <1>4 DEF AllClosed
<1> QED
    BY <1>2, <1>3, <1>5, <1>6, <1>7, <1>8

-----------------------------------------------------------------------------
(* What each branch of a cycle makes of a timeline. *)

\* What the branches write in the columns that the timeline is about.
LEMMA RowAfter ==
    ASSUME NEW row \in DeviceRow, NEW seen \in Sighting, NEW t \in Time
    PROVE  LET after == UpdatedRow(row, seen, t)
               branch == Branch(row, seen)
           IN
           /\ after.last_observed_at = t
           /\ branch = "new" =>
                  /\ after.place = seen.place /\ after.first_observed_at_location = t
                  /\ after.number_failed_starts = 0 /\ ~AwayFromOrigin(after)
                  /\ after.rental_started_at \in {t, Never}
           /\ branch \in {"rental_start", "rental_hold", "failed_start", "stationary",
                          "in_place_release"} =>
                  /\ after.place = row.place
                  /\ after.first_observed_at_location = row.first_observed_at_location
           /\ branch \in {"rental_start", "rental_hold", "stationary"} =>
                  after.number_failed_starts = row.number_failed_starts
           /\ branch = "rental_start" => after.rental_started_at = t
           /\ branch = "rental_hold" =>
                  /\ after.rental_started_at = row.rental_started_at
                  /\ AwayFromOrigin(after) => AwayFromOrigin(row)
           /\ branch \in {"in_place_release", "moved", "failed_start", "stationary"} =>
                  after.rental_started_at = Never
           /\ branch = "in_place_release" =>
                  after.number_failed_starts =
                      row.number_failed_starts + Count(ReleaseFailed(row, seen))
           /\ branch = "failed_start" =>
                  after.number_failed_starts = row.number_failed_starts + 1
           /\ branch = "moved" =>
                  /\ after.place = seen.place /\ after.first_observed_at_location = t
                  /\ after.number_failed_starts = CarriedFailedStarts(row, seen)
<1> DEFINE after == UpdatedRow(row, seen, t)
           branch == Branch(row, seen)
           failed == Count(ReleaseFailed(row, seen))
           carried == CarriedFailedStarts(row, seen)
           observed == [row EXCEPT !.last_observed_at = t, !.fix = seen.place,
                                   !.bike = seen.bike]
<1>1. branch \in {"new", "rental_start", "rental_hold", "in_place_release",
                  "moved", "failed_start", "stationary"}
    BY Branches
<1>2. /\ observed.last_observed_at = t /\ observed.place = row.place
      /\ observed.first_observed_at_location = row.first_observed_at_location
      /\ observed.number_failed_starts = row.number_failed_starts
      /\ observed.rental_started_at = row.rental_started_at
    BY DEF DeviceRow
<1>3. CASE branch = "new"
    BY <1>3 DEF UpdatedRow, NewRow, AwayFromOrigin
<1>4. CASE branch = "rental_start"
    BY <1>4 DEF UpdatedRow, RentalStarted, DeviceRow
<1>5. CASE branch = "rental_hold"
    BY <1>5 DEF UpdatedRow, AwayFromOrigin, DeviceRow
<1>6. CASE branch = "in_place_release"
    <2>1. after = [RentalCleared(observed) EXCEPT !.number_failed_starts = @ + failed]
        BY <1>6 DEF UpdatedRow
    <2> HIDE DEF failed
    <2>2. /\ after.last_observed_at = t /\ after.place = row.place
          /\ after.first_observed_at_location = row.first_observed_at_location
          /\ after.rental_started_at = Never
          /\ after.number_failed_starts = row.number_failed_starts + failed
        BY <2>1 DEF RentalCleared, DeviceRow
    <2> QED
        BY <1>6, <2>2 DEF failed
<1>7. CASE branch = "moved"
    <2>1. after = [RentalCleared(observed) EXCEPT
                      !.place = seen.place, !.first_observed_at_location = t,
                      !.number_failed_starts = carried]
        BY <1>7 DEF UpdatedRow
    <2> HIDE DEF carried
    <2>2. /\ after.last_observed_at = t /\ after.place = seen.place
          /\ after.first_observed_at_location = t
          /\ after.rental_started_at = Never
          /\ after.number_failed_starts = carried
        BY <2>1 DEF RentalCleared, DeviceRow
    <2> QED
        BY <1>7, <2>2 DEF carried
<1>8. CASE branch \in {"failed_start", "stationary"}
    <2>1. row.rental_started_at = Never
        BY <1>8 DEF Branch, Relocated, Released
    <2>2. after = IF branch = "failed_start"
                  THEN [observed EXCEPT !.number_failed_starts = @ + 1] ELSE observed
        BY <1>8 DEF UpdatedRow
    <2> QED
        BY <1>8, <2>1, <2>2 DEF DeviceRow
<1> QED
    BY <1>1, <1>3, <1>4, <1>5, <1>6, <1>7, <1>8

\* A vehicle seen for the first time.
LEMMA NewTimeline ==
    ASSUME NEW row \in DeviceRow, NEW seen \in Sighting, NEW t \in Time, NEW without,
           Branch(row, seen) = "new"
    PROVE  Timeline(UpdatedRow(row, seen, t), UpdatedStops({}, row, seen, t, without),
                    UpdatedTrips({}, row, seen, t))
<1> DEFINE after == UpdatedRow(row, seen, t)
           new == NewStop(seen, t, 0)
<1>1. UpdatedStops({}, row, seen, t, without) = {new} /\ UpdatedTrips({}, row, seen, t) = {}
    BY DEF UpdatedStops, UpdatedTrips
<1>2. /\ new.arrived = t /\ new.departed = Never /\ new.failed_starts = 0
      /\ new.place = seen.place
    BY DEF NewStop
<1>3. /\ after.last_observed_at = t /\ after.place = seen.place
      /\ after.first_observed_at_location = t
      /\ after.number_failed_starts = 0 /\ ~AwayFromOrigin(after)
    BY RowAfter
<1>4. t \in Nat
    BY TimesAreNatural
<1> HIDE DEF after, new
<1>5. Timeline(after, {new}, {})
    BY <1>2, <1>3, <1>4 DEF Timeline, Until, RentalLast, AllAgree, Agrees, Disjoint
<1> QED
    BY <1>1, <1>5 DEF after

\* A rental begins: its stop is closed, and is the one that a release may reopen.
LEMMA StartTimeline ==
    ASSUME NEW stops \in SUBSET Stop, NEW trips, NEW row \in DeviceRow,
           NEW seen \in Sighting, NEW t \in Time, NEW without,
           Branch(row, seen) = "rental_start",
           Timeline(row, stops, trips), row.last_observed_at < t
    PROVE  Timeline(UpdatedRow(row, seen, t), UpdatedStops(stops, row, seen, t, without),
                    UpdatedTrips(trips, row, seen, t))
<1> DEFINE after == UpdatedRow(row, seen, t)
           closed == Closed(stops, t, "moved")
<1>1. UpdatedStops(stops, row, seen, t, without) = closed
      /\ UpdatedTrips(trips, row, seen, t) = trips
    BY DEF UpdatedStops, UpdatedTrips
<1>2. /\ after.last_observed_at = t /\ after.place = row.place
      /\ after.first_observed_at_location = row.first_observed_at_location
      /\ after.number_failed_starts = row.number_failed_starts
      /\ after.rental_started_at = t
    BY RowAfter
<1>3. t \in Nat /\ row.last_observed_at \in Int
      /\ row.first_observed_at_location \in Nat
    BY TimesAreNatural, RowTimes
<1>4. Until(stops, t) /\ Disjoint(stops)
    BY <1>3, StopTimes DEF Timeline, Until
<1>5. /\ Disjoint(closed) /\ AllClosed(closed) /\ Until(closed, t) /\ Lasts(stops, closed)
      /\ \A stop \in closed :
             \/ stop \in stops /\ stop.departed # Never
             \/ \E open \in stops :
                    /\ open.departed = Never
                    /\ stop.departed = t /\ stop.arrived = open.arrived
                    /\ stop.failed_starts = open.failed_starts
    BY <1>4, ClosingInTime
<1> HIDE DEF after, closed
<1>6. RentalLast(closed, after)
    BY <1>2, <1>3, <1>5, StopTimes DEF Timeline, Until, RentalLast
<1>7. AllAgree(closed, after)
    <2> SUFFICES ASSUME NEW stop \in closed, LeftAtUnlock(stop, after)
                 PROVE  Agrees(stop, after)
        BY <1>5 DEF AllAgree, AllClosed
    <2>1. stop.departed = t
        BY <1>2 DEF LeftAtUnlock
    <2>2. CASE stop \in stops
        BY <1>3, <2>1, <2>2, StopTimes DEF Timeline, Until
    <2>3. CASE stop \notin stops
        <3>1. PICK open \in stops :
                  /\ open.departed = Never /\ stop.arrived = open.arrived
                  /\ stop.failed_starts = open.failed_starts
            BY <1>5, <2>3
        <3>2. Agrees(open, row)
            BY <3>1 DEF Timeline, AllAgree
        <3> QED
            BY <1>2, <3>1, <3>2 DEF Agrees
    <2> QED
        BY <2>2, <2>3
<1>8. \E stop \in closed : stop.place = after.place
    BY <1>2, <1>5 DEF Timeline, Lasts
<1>9. \A trip \in trips : Arrives(trip, closed) /\ Leaves(trip, closed)
    BY <1>5, TripsLast DEF Timeline
<1>10. Timeline(after, closed, trips)
    BY <1>2, <1>3, <1>5, <1>6, <1>7, <1>8, <1>9 DEF Timeline
<1> QED
    BY <1>1, <1>10 DEF after

\* A rental goes on: nothing but the row changes.
LEMMA HoldTimeline ==
    ASSUME NEW stops \in SUBSET Stop, NEW trips, NEW row \in DeviceRow,
           NEW seen \in Sighting, NEW t \in Time, NEW without,
           Branch(row, seen) = "rental_hold",
           Timeline(row, stops, trips), row.last_observed_at < t
    PROVE  Timeline(UpdatedRow(row, seen, t), UpdatedStops(stops, row, seen, t, without),
                    UpdatedTrips(trips, row, seen, t))
<1> DEFINE after == UpdatedRow(row, seen, t)
<1>1. UpdatedStops(stops, row, seen, t, without) = stops
      /\ UpdatedTrips(trips, row, seen, t) = trips
    BY DEF UpdatedStops, UpdatedTrips
<1>2. /\ after.last_observed_at = t /\ after.place = row.place
      /\ after.first_observed_at_location = row.first_observed_at_location
      /\ after.number_failed_starts = row.number_failed_starts
      /\ after.rental_started_at = row.rental_started_at
      /\ AwayFromOrigin(after) => AwayFromOrigin(row)
    BY RowAfter
<1>3. t \in Nat /\ row.last_observed_at \in Int
      /\ row.first_observed_at_location \in Nat
    BY TimesAreNatural, RowTimes
<1> HIDE DEF after
<1>4. Until(stops, t)
    BY <1>3, StopTimes DEF Timeline, Until
<1>5. RentalLast(stops, after) /\ AllAgree(stops, after)
    BY <1>2 DEF Timeline, RentalLast, AllAgree, LeftAtUnlock, Agrees
<1>6. Timeline(after, stops, trips)
    BY <1>2, <1>3, <1>4, <1>5 DEF Timeline
<1> QED
    BY <1>1, <1>6 DEF after

\* A release reopens the stop that the rental's start closed: no stop began since
\* then, and no trip did, so the reopened one is the latest and no trip's origin.
LEMMA ReopenedTimeline ==
    ASSUME NEW stops \in SUBSET Stop, NEW trips, NEW row \in DeviceRow,
           NEW seen \in Sighting, NEW t \in Time, NEW without,
           Branch(row, seen) = "in_place_release", Reopenable(stops, row, t) # {},
           Timeline(row, stops, trips), row.last_observed_at < t,
           AwayFromOrigin(row) => AllClosed(stops)
    PROVE  Timeline(UpdatedRow(row, seen, t), UpdatedStops(stops, row, seen, t, without),
                    UpdatedTrips(trips, row, seen, t))
<1> DEFINE after == UpdatedRow(row, seen, t)
           failed == Count(ReleaseFailed(row, seen))
           reopened == Reopenable(stops, row, t)
           again(stop) == [stop EXCEPT !.departed = Never, !.reason = "none",
                                       !.failed_starts = @ + failed]
           updated == (stops \ reopened) \cup {again(stop) : stop \in reopened}
<1>1. UpdatedStops(stops, row, seen, t, without) = updated
      /\ UpdatedTrips(trips, row, seen, t) = trips
    BY DEF UpdatedStops, UpdatedTrips, Resumed
<1>2. /\ after.last_observed_at = t /\ after.place = row.place
      /\ after.first_observed_at_location = row.first_observed_at_location
      /\ after.number_failed_starts = row.number_failed_starts + failed
      /\ after.rental_started_at = Never
    BY RowAfter
<1>3. /\ t \in Nat /\ row.last_observed_at \in Int
      /\ row.first_observed_at_location \in Nat /\ row.number_failed_starts \in Nat
      /\ row.rental_started_at \in Int /\ failed \in Nat
    BY TimesAreNatural, RowTimes DEF Count
<1>4. AwayFromOrigin(row) /\ AllClosed(stops)
    BY DEF Branch, InPlace, Released, AwayFromOrigin
<1>5. \A stop \in stops : /\ stop.arrived \in Nat /\ stop.departed \in Int
                          /\ stop.failed_starts \in Nat
                          /\ stop.arrived < row.rental_started_at
    BY <1>4, StopTimes DEF Timeline, RentalLast
<1>6. \A stop \in reopened :
          /\ stop \in stops /\ stop.departed = row.rental_started_at
          /\ LeftAtUnlock(stop, row)
    BY <1>4 DEF Reopenable, LeftAtUnlock, AwayFromOrigin
<1>7. \A stop \in stops :
          /\ again(stop).departed = Never /\ again(stop).place = stop.place
          /\ again(stop).arrived = stop.arrived
          /\ again(stop).failed_starts = stop.failed_starts + failed
    BY DEF Stop
<1> HIDE DEF after, failed, again, reopened
<1>8. ASSUME NEW stop \in updated
      PROVE  \/ stop \in stops /\ stop \notin reopened
             \/ \E old \in reopened : stop = again(old)
    BY <1>8
<1>9. Until(updated, t)
    BY <1>3, <1>5, <1>6, <1>7, <1>8 DEF Timeline, Until
<1>10. Disjoint(updated)
    <2>1. ASSUME NEW old \in reopened, NEW other \in stops, other # old
          PROVE  other.departed # Never /\ other.departed <= old.arrived
        <3>1. ~(old.departed <= other.arrived)
            BY <2>1, <1>3, <1>5, <1>6
        <3> QED
            BY <2>1, <3>1, <1>6 DEF Timeline, Disjoint
    <2>2. \A one, other \in reopened : one = other
        BY <2>1, <1>5, <1>6
    <2> SUFFICES ASSUME NEW one \in updated, NEW other \in updated, one # other
                 PROVE  \/ one.departed # Never /\ one.departed <= other.arrived
                        \/ other.departed # Never /\ other.departed <= one.arrived
        BY DEF Disjoint
    <2>3. CASE one \in stops /\ one \notin reopened /\ other \in stops /\ other \notin reopened
        BY <2>3 DEF Timeline, Disjoint
    <2>4. ASSUME NEW old \in reopened, one = again(old), other \in stops, other \notin reopened
          PROVE  other.departed # Never /\ other.departed <= one.arrived
        BY <2>1, <2>4, <1>6, <1>7
    <2>5. ASSUME NEW old \in reopened, other = again(old), one \in stops, one \notin reopened
          PROVE  one.departed # Never /\ one.departed <= other.arrived
        BY <2>1, <2>5, <1>6, <1>7
    <2>6. ASSUME NEW a \in reopened, NEW b \in reopened, one = again(a), other = again(b)
          PROVE  FALSE
        BY <2>2, <2>6
    <2> QED
        BY <1>8, <2>3, <2>4, <2>5, <2>6
<1>11. AllAgree(updated, after)
    <2> SUFFICES ASSUME NEW stop \in updated, stop.departed = Never
                 PROVE  Agrees(stop, after)
        BY <1>2 DEF AllAgree, LeftAtUnlock
    <2>1. PICK old \in reopened : stop = again(old)
        BY <1>4, <1>8 DEF AllClosed
    <2>2. Agrees(old, row)
        BY <1>6 DEF Timeline, AllAgree
    <2> QED
        BY <1>2, <1>3, <1>5, <1>6, <1>7, <2>1, <2>2 DEF Agrees
<1>12. ASSUME NEW stop \in stops
       PROVE  \E same \in updated : same.place = stop.place /\ same.arrived = stop.arrived
    <2>1. CASE stop \in reopened
        <3>1. again(stop) \in updated
            BY <2>1
        <3> HIDE DEF updated
        <3> QED
            BY <1>7, <3>1
    <2>2. CASE stop \notin reopened
        BY <2>2
    <2> QED
        BY <2>1, <2>2
<1>13. ASSUME NEW trip \in trips PROVE Arrives(trip, updated) /\ Leaves(trip, updated)
    <2>1. Arrives(trip, updated)
        BY <1>12 DEF Timeline, Arrives
    <2>2. PICK to \in stops : to.arrived = trip.at
        BY DEF Timeline, Arrives
    <2>3. PICK from \in stops :
              /\ from.place = trip.from /\ from.arrived < trip.at
              /\ from.departed # Never /\ from.departed <= trip.at
        BY DEF Timeline, Leaves
    <2>4. from \notin reopened
        BY <1>3, <1>5, <1>6, <2>2, <2>3
    <2> QED
        BY <2>1, <2>3, <2>4 DEF Leaves
<1>14. \E stop \in updated : stop.place = row.place
    BY <1>12 DEF Timeline
<1> HIDE DEF updated
<1>15. Timeline(after, updated, trips)
    <2>1. RentalLast(updated, after)
        BY <1>2 DEF RentalLast, AwayFromOrigin
    <2> QED
        BY <1>2, <1>3, <1>9, <1>10, <1>11, <1>13, <1>14, <2>1 DEF Timeline
<1> QED
    BY <1>1, <1>15 DEF after

\* What a new stop at time t leaves to show.
LEMMA OpenedTimeline ==
    ASSUME NEW stops \in SUBSET Stop, NEW trips, NEW after, NEW seen \in Sighting,
           NEW t \in Time, NEW n \in Nat,
           Disjoint(stops), AllClosed(stops), Until(stops, t),
           after.last_observed_at = t, after.rental_started_at = Never,
           after.first_observed_at_location \in Nat, after.first_observed_at_location <= t,
           n <= after.number_failed_starts,
           after.first_observed_at_location = t => n = after.number_failed_starts,
           \/ after.place = seen.place
           \/ \E stop \in stops : stop.place = after.place,
           \A trip \in trips :
               /\ Leaves(trip, stops)
               /\ Arrives(trip, stops) \/ (trip.at = t /\ trip.to = seen.place)
    PROVE  Timeline(after, stops \cup {NewStop(seen, t, n)}, trips)
<1> DEFINE new == NewStop(seen, t, n)
           opened == stops \cup {new}
<1>1. /\ new.arrived = t /\ new.departed = Never /\ new.failed_starts = n
      /\ new.place = seen.place
    BY DEF NewStop
<1>2. Disjoint(opened) /\ Until(opened, t) /\ Lasts(stops, opened)
    BY OpeningInTime
<1>3. t \in Nat
    BY TimesAreNatural
<1> HIDE DEF new
<1>4. AllAgree(opened, after) /\ RentalLast(opened, after)
    BY <1>1, <1>3 DEF AllAgree, Agrees, LeftAtUnlock, AllClosed, RentalLast, AwayFromOrigin
<1>5. \A trip \in trips : Arrives(trip, opened) /\ Leaves(trip, opened)
    <2> SUFFICES ASSUME NEW trip \in trips PROVE Arrives(trip, opened) /\ Leaves(trip, opened)
        OBVIOUS
    <2>1. Leaves(trip, opened)
        BY <1>2, TripsLast
    <2>2. ASSUME Arrives(trip, stops) PROVE Arrives(trip, opened)
        BY <1>2, <2>2, TripsLast
    <2>3. ASSUME trip.at = t, trip.to = seen.place PROVE Arrives(trip, opened)
        BY <1>1, <2>3 DEF Arrives
    <2> QED
        BY <2>1, <2>2, <2>3
<1>6. \E stop \in opened : stop.place = after.place
    BY <1>1
<1> QED
    BY <1>2, <1>3, <1>4, <1>5, <1>6 DEF Timeline, new

\* A release with no stop to reopen begins one.
LEMMA ReleasedTimeline ==
    ASSUME NEW stops \in SUBSET Stop, NEW trips, NEW row \in DeviceRow,
           NEW seen \in Sighting, NEW t \in Time, NEW without,
           Branch(row, seen) = "in_place_release", Reopenable(stops, row, t) = {},
           Timeline(row, stops, trips), row.last_observed_at < t,
           AwayFromOrigin(row) => AllClosed(stops)
    PROVE  Timeline(UpdatedRow(row, seen, t), UpdatedStops(stops, row, seen, t, without),
                    UpdatedTrips(trips, row, seen, t))
<1> DEFINE after == UpdatedRow(row, seen, t)
           failed == Count(ReleaseFailed(row, seen))
<1>1. UpdatedStops(stops, row, seen, t, without) = stops \cup {NewStop(seen, t, failed)}
      /\ UpdatedTrips(trips, row, seen, t) = trips
    BY DEF UpdatedStops, UpdatedTrips, Resumed
<1>2. /\ after.last_observed_at = t /\ after.place = row.place
      /\ after.first_observed_at_location = row.first_observed_at_location
      /\ after.number_failed_starts = row.number_failed_starts + failed
      /\ after.rental_started_at = Never
    BY RowAfter
<1>3. /\ t \in Nat /\ row.last_observed_at \in Int
      /\ row.first_observed_at_location \in Nat /\ row.number_failed_starts \in Nat
      /\ failed \in Nat
    BY TimesAreNatural, RowTimes DEF Count
<1>4. AllClosed(stops)
    BY DEF Branch, InPlace, Released, AwayFromOrigin
<1>5. Until(stops, t)
    BY <1>3, StopTimes DEF Timeline, Until
<1> HIDE DEF after, failed
<1>6. Timeline(after, stops \cup {NewStop(seen, t, failed)}, trips)
    <2>1. /\ after.first_observed_at_location \in Nat
          /\ after.first_observed_at_location <= t /\ after.first_observed_at_location # t
          /\ failed <= after.number_failed_starts
        BY <1>2, <1>3 DEF Timeline
    <2>2. \E stop \in stops : stop.place = after.place
        BY <1>2 DEF Timeline
    <2>3. Disjoint(stops) /\ \A trip \in trips : Leaves(trip, stops) /\ Arrives(trip, stops)
        BY DEF Timeline
    <2> QED
        BY <1>2, <1>3, <1>4, <1>5, <2>1, <2>2, <2>3, OpenedTimeline
<1> QED
    BY <1>1, <1>6 DEF after

\* A vehicle that moved leaves the stop it was at and begins one where it is.
LEMMA MovedTimeline ==
    ASSUME NEW stops \in SUBSET Stop, NEW trips, NEW row \in DeviceRow,
           NEW seen \in Sighting, NEW t \in Time, NEW without,
           Branch(row, seen) = "moved",
           Timeline(row, stops, trips), row.last_observed_at < t
    PROVE  Timeline(UpdatedRow(row, seen, t), UpdatedStops(stops, row, seen, t, without),
                    UpdatedTrips(trips, row, seen, t))
<1> DEFINE after == UpdatedRow(row, seen, t)
           closed == Closed(stops, t, "moved")
           carried == CarriedFailedStarts(row, seen)
           travelled == UpdatedTrips(trips, row, seen, t)
<1>1. UpdatedStops(stops, row, seen, t, without) = closed \cup {NewStop(seen, t, carried)}
    BY DEF UpdatedStops
<1>2. \A trip \in travelled :
          trip \in trips \/ trip = [at |-> t, from |-> row.place, to |-> seen.place]
    BY DEF UpdatedTrips
<1>3. /\ after.last_observed_at = t /\ after.place = seen.place
      /\ after.first_observed_at_location = t
      /\ after.number_failed_starts = carried
      /\ after.rental_started_at = Never
    BY RowAfter
<1>4. t \in Nat /\ row.last_observed_at \in Int /\ carried \in Nat
    BY TimesAreNatural, RowTimes DEF CarriedFailedStarts
<1>5. Until(stops, t) /\ Disjoint(stops)
    BY <1>4, StopTimes DEF Timeline, Until
<1>6. /\ Disjoint(closed) /\ AllClosed(closed) /\ Until(closed, t) /\ Lasts(stops, closed)
      /\ closed \subseteq Stop
    BY <1>5, ClosingInTime, StopsSound
<1> HIDE DEF after, closed, carried, travelled
<1>7. ASSUME NEW trip \in travelled
      PROVE  /\ Leaves(trip, closed)
             /\ Arrives(trip, closed) \/ (trip.at = t /\ trip.to = seen.place)
    <2>1. CASE trip \in trips
        BY <2>1, <1>6, TripsLast DEF Timeline
    <2>2. CASE trip = [at |-> t, from |-> row.place, to |-> seen.place]
        <3>1. PICK stop \in stops : stop.place = row.place
            BY DEF Timeline
        <3>2. stop.arrived < t
            BY <1>4, StopTimes DEF Timeline, Until
        <3>3. PICK same \in closed : same.place = row.place /\ same.arrived = stop.arrived
            BY <1>6, <3>1 DEF Lasts
        <3>4. same.departed # Never /\ same.departed <= t
            BY <1>6 DEF AllClosed, Until
        <3> QED
            BY <2>2, <3>2, <3>3, <3>4 DEF Leaves
    <2> QED
        BY <1>2, <2>1, <2>2
<1>8. Timeline(after, closed \cup {NewStop(seen, t, carried)}, travelled)
    BY <1>3, <1>4, <1>6, <1>7, OpenedTimeline
<1> QED
    BY <1>1, <1>8 DEF after, travelled

\* A vehicle that is still where it was, with its bike_id or a new one.
LEMMA StayedTimeline ==
    ASSUME NEW stops \in SUBSET Stop, NEW trips, NEW row \in DeviceRow,
           NEW seen \in Sighting, NEW t \in Time, NEW without,
           Branch(row, seen) \in {"failed_start", "stationary"},
           Timeline(row, stops, trips), row.last_observed_at < t,
           without => AllClosed(stops)
    PROVE  Timeline(UpdatedRow(row, seen, t), UpdatedStops(stops, row, seen, t, without),
                    UpdatedTrips(trips, row, seen, t))
<1> DEFINE after == UpdatedRow(row, seen, t)
           more == IF Branch(row, seen) = "failed_start" THEN 1 ELSE 0
           before == IF Branch(row, seen) = "failed_start" THEN BumpOpen(stops) ELSE stops
<1>1. UpdatedStops(stops, row, seen, t, without) = Reappeared(before, seen, t, more, without)
      /\ UpdatedTrips(trips, row, seen, t) = trips
    BY DEF UpdatedStops, UpdatedTrips
<1>2. /\ after.last_observed_at = t /\ after.place = row.place
      /\ after.first_observed_at_location = row.first_observed_at_location
      /\ after.number_failed_starts = row.number_failed_starts + more
      /\ after.rental_started_at = Never
    BY RowAfter, RowTimes
<1>3. /\ t \in Nat /\ row.last_observed_at \in Int
      /\ row.first_observed_at_location \in Nat /\ row.number_failed_starts \in Nat
      /\ more \in Nat
    BY TimesAreNatural, RowTimes
<1>4. Until(stops, t) /\ Disjoint(stops)
    BY <1>3, StopTimes DEF Timeline, Until
<1>5. /\ Disjoint(before) /\ Until(before, t) /\ Lasts(stops, before)
      /\ AllClosed(stops) => before = stops
      /\ \A stop \in before :
             \/ stop \in stops /\ stop.departed # Never
             \/ \E open \in stops :
                    /\ open.departed = Never /\ stop.departed = Never
                    /\ stop.arrived = open.arrived
                    /\ stop.failed_starts = open.failed_starts + more
    <2>1. CASE Branch(row, seen) = "failed_start"
        BY <1>4, <2>1, BumpingInTime
    <2>2. CASE Branch(row, seen) = "stationary"
        <3>1. \A stop \in stops : stop.failed_starts + 0 = stop.failed_starts
            BY StopTimes
        <3> QED
            BY <1>4, <2>2, <3>1 DEF Lasts
    <2> QED
        BY <2>1, <2>2
<1> HIDE DEF after, more, before
<1>6. ASSUME NEW trip \in trips PROVE Arrives(trip, before) /\ Leaves(trip, before)
    BY <1>5, TripsLast DEF Timeline
<1>7. CASE ~without
    <2>1. AllAgree(before, after)
        <3> SUFFICES ASSUME NEW stop \in before, stop.departed = Never
                     PROVE  Agrees(stop, after)
            BY <1>2 DEF AllAgree, LeftAtUnlock
        <3>1. PICK open \in stops :
                  /\ open.departed = Never /\ stop.arrived = open.arrived
                  /\ stop.failed_starts = open.failed_starts + more
            BY <1>5
        <3>2. Agrees(open, row)
            BY <3>1 DEF Timeline, AllAgree
        <3> QED
            BY <1>2, <1>3, <3>1, <3>2, StopTimes DEF Agrees
    <2>2. RentalLast(before, after)
        BY <1>2 DEF RentalLast, AwayFromOrigin
    <2>3. \E stop \in before : stop.place = after.place
        BY <1>2, <1>5 DEF Timeline, Lasts
    <2>4. Timeline(after, before, trips)
        BY <1>2, <1>3, <1>5, <1>6, <2>1, <2>2, <2>3 DEF Timeline
    <2> QED
        BY <1>1, <1>7, <2>4 DEF after, Reappeared
<1>8. CASE without
    <2>1. AllClosed(stops) /\ before = stops
        BY <1>5, <1>8
    <2>2. /\ after.first_observed_at_location \in Nat
          /\ after.first_observed_at_location <= t /\ after.first_observed_at_location # t
          /\ more <= after.number_failed_starts
        BY <1>2, <1>3 DEF Timeline
    <2>3. \E stop \in stops : stop.place = after.place
        BY <1>2 DEF Timeline
    <2>4. \A trip \in trips : Leaves(trip, stops) /\ Arrives(trip, stops)
        BY DEF Timeline
    <2>5. Timeline(after, stops \cup {NewStop(seen, t, more)}, trips)
        BY <1>2, <1>3, <1>4, <2>1, <2>2, <2>3, <2>4, OpenedTimeline
    <2> QED
        BY <1>1, <1>8, <2>1, <2>5 DEF after, Reappeared
<1> QED
    BY <1>7, <1>8

\* Every branch of a cycle keeps a vehicle's timeline, when the vehicle was last seen
\* before the cycle's snapshot.
LEMMA UpdateKeepsTimeline ==
    ASSUME NEW stops \in SUBSET Stop, NEW trips, NEW row \in DeviceRow,
           NEW seen \in Sighting, NEW t \in Time, NEW without,
           row.known => Timeline(row, stops, trips) /\ row.last_observed_at < t,
           ~row.known => stops = {} /\ trips = {},
           AwayFromOrigin(row) => AllClosed(stops),
           without => AllClosed(stops)
    PROVE  Timeline(UpdatedRow(row, seen, t), UpdatedStops(stops, row, seen, t, without),
                    UpdatedTrips(trips, row, seen, t))
<1> DEFINE branch == Branch(row, seen)
<1>1. /\ branch \in {"new", "rental_start", "rental_hold", "in_place_release",
                     "moved", "failed_start", "stationary"}
      /\ branch = "new" <=> ~row.known
    BY Branches
<1>2. CASE branch = "new"
    BY <1>1, <1>2, NewTimeline
<1>3. CASE branch = "rental_start"
    BY <1>1, <1>3, StartTimeline
<1>4. CASE branch = "rental_hold"
    BY <1>1, <1>4, HoldTimeline
<1>5. CASE branch = "in_place_release"
    <2>1. CASE Reopenable(stops, row, t) # {}
        BY <1>1, <1>5, <2>1, ReopenedTimeline
    <2>2. CASE Reopenable(stops, row, t) = {}
        BY <1>1, <1>5, <2>2, ReleasedTimeline
    <2> QED
        BY <2>1, <2>2
<1>6. CASE branch = "moved"
    BY <1>1, <1>6, MovedTimeline
<1>7. CASE branch \in {"failed_start", "stationary"}
    BY <1>1, <1>7, StayedTimeline
<1> QED
    BY <1>1, <1>2, <1>3, <1>4, <1>5, <1>6, <1>7

\* A sweep keeps it too: the stop it closes was over when the vehicle was last seen.
LEMMA SweepKeepsTimeline ==
    ASSUME NEW stops \in SUBSET Stop, NEW trips, NEW row \in DeviceRow,
           Timeline(row, stops, trips)
    PROVE  Timeline(row, Closed(stops, row.last_observed_at, "absent"), trips)
<1> DEFINE seen_at == row.last_observed_at
           closed == Closed(stops, seen_at, "absent")
<1>1. seen_at \in Time
    BY RowTimes DEF Timeline
<1>2. /\ Disjoint(closed) /\ AllClosed(closed) /\ Until(closed, seen_at)
      /\ Lasts(stops, closed)
      /\ \A stop \in closed :
             \/ stop \in stops /\ stop.departed # Never
             \/ stop.reason = "absent" /\ \E open \in stops : stop.arrived = open.arrived
    BY <1>1, ClosingInTime DEF Timeline
<1> HIDE DEF closed
<1>3. RentalLast(closed, row)
    BY <1>2 DEF Timeline, RentalLast
<1>4. AllAgree(closed, row)
    BY <1>2 DEF Timeline, AllAgree, LeftAtUnlock, AllClosed
<1>5. \E stop \in closed : stop.place = row.place
    BY <1>2 DEF Timeline, Lasts
<1>6. \A trip \in trips : Arrives(trip, closed) /\ Leaves(trip, closed)
    BY <1>2, TripsLast DEF Timeline
<1> QED
    BY <1>2, <1>3, <1>4, <1>5, <1>6 DEF Timeline, closed

-----------------------------------------------------------------------------
(* What a commit leaves, vehicle by vehicle. *)

\* The stops of v as the commit of c has written them, before its sweep.
Written(c, v) ==
    IF v \in DOMAIN cycle[c].seen
    THEN UpdatedStops(device_history[v], device_state[v], cycle[c].seen[v],
                      cycle[c].snapshot_time, v \in cycle[c].without_open_stop)
    ELSE device_history[v]

\* The vehicles that the sweep of c's commit finds absent.
SweptBy(c) ==
    Absent(device_state', processed_cycles', cycle[c].snapshot_time, TRUE) \ LockedByOthers(c)

\* What the commit of an update writes: the rows and the trips of the vehicles it has seen,
\* their stops, and then the closes of its sweep.
LEMMA CommitEffect ==
    ASSUME TypeOK, NEW c \in CycleLines, NEW plausible \in BOOLEAN, UpdateCommit(c, plausible)
    PROVE  LET t == cycle[c].snapshot_time
               seen == cycle[c].seen
           IN
           /\ t \in Time /\ DOMAIN seen \subseteq Vehicles
           /\ \A v \in DOMAIN seen : seen[v] \in Sighting
           /\ \A v \in Vehicles :
                  /\ device_state'[v] = IF v \in DOMAIN seen
                                        THEN UpdatedRow(device_state[v], seen[v], t)
                                        ELSE device_state[v]
                  /\ trip_events'[v] = IF v \in DOMAIN seen
                                       THEN UpdatedTrips(trip_events[v], device_state[v], seen[v], t)
                                       ELSE trip_events[v]
                  /\ Written(c, v) \in SUBSET Stop
                  /\ device_history'[v] =
                         IF v \in SweptBy(c)
                         THEN Closed(Written(c, v), device_state'[v].last_observed_at, "absent")
                         ELSE Written(c, v)
           /\ processed_cycles' = processed_cycles \cup
                  (IF CountsAsObservation(seen, plausible) THEN {t} ELSE {})
           /\ now' = now /\ faults' = faults
           /\ cycle[c].pc = "updating" /\ Conflicts(c) = {}
           /\ cycle'[c].pc = "idle" /\ cycle'[c].snapshot_time = t
           /\ cycle'[c].seen = <<>>
           /\ \A d \in CycleLines \ {c} : cycle'[d] = cycle[d]
<1> DEFINE payload == cycle[c].seen
           t == cycle[c].snapshot_time
           rows == [v \in Vehicles |->
               IF v \in DOMAIN payload THEN UpdatedRow(device_state[v], payload[v], t)
               ELSE device_state[v]]
           stops == [v \in Vehicles |->
               IF v \in DOMAIN payload
               THEN UpdatedStops(device_history[v], device_state[v], payload[v], t,
                                 v \in cycle[c].without_open_stop)
               ELSE device_history[v]]
           observed == processed_cycles \cup
               (IF CountsAsObservation(payload, plausible) THEN {t} ELSE {})
           gone == Absent(rows, observed, t, TRUE) \ LockedByOthers(c)
<1>1. /\ device_state' = rows
      /\ trip_events' = [v \in Vehicles |->
             IF v \in DOMAIN payload
             THEN UpdatedTrips(trip_events[v], device_state[v], payload[v], t)
             ELSE trip_events[v]]
      /\ processed_cycles' = observed
      /\ device_history' = Swept(stops, rows, gone)
      /\ cycle' = [cycle EXCEPT ![c] = IdleSince(@.snapshot_time)]
      /\ now' = now /\ faults' = faults
      /\ cycle[c].pc = "updating" /\ Conflicts(c) = {}
    BY DEF UpdateCommit
<1>2. t \in Time /\ payload \in Payloads
    BY <1>1 DEF TypeOK, CycleState
<1>3. DOMAIN payload \subseteq Vehicles /\ \A v \in DOMAIN payload : payload[v] \in Sighting
    BY <1>2, PayloadSound
<1>4. gone = SweptBy(c)
    BY <1>1 DEF SweptBy
<1>5. \A v \in Vehicles : stops[v] = Written(c, v)
    BY DEF Written
<1>6. ASSUME NEW v \in Vehicles
      PROVE  Written(c, v) \in SUBSET Stop
    <2>1. device_history[v] \in SUBSET Stop /\ device_state[v] \in DeviceRow
        BY DEF TypeOK
    <2>2. CASE v \in DOMAIN payload
        <3>1. payload[v] \in Sighting
            BY <2>2, <1>3
        <3> QED
            BY <2>1, <2>2, <3>1, <1>2, UpdatedStopsSound DEF Written
    <2>3. CASE v \notin DOMAIN payload
        BY <2>1, <2>3 DEF Written
    <2> QED
        BY <2>2, <2>3
<1> HIDE DEF stops, gone
<1>7. ASSUME NEW v \in Vehicles
      PROVE  device_history'[v] =
                 IF v \in SweptBy(c)
                 THEN Closed(Written(c, v), device_state'[v].last_observed_at, "absent")
                 ELSE Written(c, v)
    BY <1>1, <1>4, <1>5 DEF Swept
<1>8. /\ cycle'[c].pc = "idle" /\ cycle'[c].snapshot_time = t /\ cycle'[c].seen = <<>>
      /\ \A d \in CycleLines \ {c} : cycle'[d] = cycle[d]
    BY <1>1 DEF TypeOK, IdleSince
<1> HIDE DEF observed
<1>9. \A v \in Vehicles :
          /\ device_state'[v] = IF v \in DOMAIN payload
                                THEN UpdatedRow(device_state[v], payload[v], t)
                                ELSE device_state[v]
          /\ trip_events'[v] = IF v \in DOMAIN payload
                               THEN UpdatedTrips(trip_events[v], device_state[v], payload[v], t)
                               ELSE trip_events[v]
    BY <1>1
<1> QED
    BY <1>1, <1>2, <1>3, <1>6, <1>7, <1>8, <1>9 DEF observed

\* A step of the system that is no commit leaves the rows and the trips alone.
LEMMA QuietStep ==
    ASSUME TypeOK, [Next]_vars,
           ~ \E c \in CycleLines, plausible \in BOOLEAN : UpdateCommit(c, plausible)
    PROVE  /\ UNCHANGED <<device_state, trip_events, processed_cycles>>
           /\ \/ UNCHANGED device_history
              \/ CloseGhostStops
<1>1. ASSUME NEW c \in CycleLines, NEW payload \in Payloads, CycleFetch(c, payload)
      PROVE  UNCHANGED tables
    BY <1>1 DEF CycleFetch
<1>2. ASSUME NEW c \in CycleLines, UpdateBegin(c) PROVE UNCHANGED tables
    BY <1>2 DEF UpdateBegin
<1>3. ASSUME NEW c \in CycleLines, UpdateConflict(c) \/ UpdateFails(c) PROVE UNCHANGED tables
    BY <1>3 DEF UpdateConflict, UpdateFails
<1>4. ASSUME CloseGhostStops PROVE UNCHANGED <<device_state, trip_events, processed_cycles>>
    BY <1>4 DEF CloseGhostStops
<1>5. ASSUME Tick \/ UNCHANGED vars PROVE UNCHANGED tables
    BY <1>5 DEF Tick, vars, tables
<1> QED
    BY <1>1, <1>2, <1>3, <1>4, <1>5 DEF Next, tables

\* Where the clocks of the cycles are after a step.
LEMMA InstantsStep == OpenStopInv /\ Instants /\ [Next]_vars => Instants'
<1> SUFFICES ASSUME OpenStopInv, Instants, [Next]_vars PROVE Instants'
    OBVIOUS
<1>0. TypeOK /\ now \in Nat /\ cycle \in [CycleLines -> CycleState]
      /\ \A v \in Vehicles : device_state[v].last_observed_at \in Int
    <2>1. TypeOK
        BY DEF OpenStopInv
    <2>2. \A v \in Vehicles : device_state[v] \in DeviceRow
        BY <2>1 DEF TypeOK
    <2> QED
        BY <2>1, <2>2, TimesAreNatural, RowTimes DEF TypeOK
<1>1. ASSUME NEW c \in CycleLines, NEW payload \in Payloads, CycleFetch(c, payload)
      PROVE  Instants'
    <2>1. /\ UNCHANGED <<now, device_state>>
          /\ \A d \in CycleLines : cycle[d].snapshot_time # now
          /\ cycle'[c].snapshot_time = now
          /\ \A d \in CycleLines \ {c} : cycle'[d] = cycle[d]
        BY <1>0, <1>1 DEF CycleFetch, FreshTime, tables, CycleState
    <2> QED
        BY <2>1 DEF Instants, InFlight
<1>2. ASSUME NEW c \in CycleLines, UpdateBegin(c) PROVE Instants'
    <2>1. /\ UNCHANGED <<now, device_state>>
          /\ \A d \in CycleLines : cycle'[d].snapshot_time = cycle[d].snapshot_time
          /\ \A d \in CycleLines : cycle'[d].pc # "idle" => cycle[d].pc # "idle"
        BY <1>0, <1>2 DEF UpdateBegin, tables, CycleState
    <2> QED
        BY <2>1 DEF Instants, InFlight
<1>3. ASSUME NEW c \in CycleLines, NEW plausible \in BOOLEAN, UpdateCommit(c, plausible)
      PROVE  Instants'
    <2> DEFINE t == cycle[c].snapshot_time
    <2>1. /\ now' = now /\ t \in Time
          /\ cycle'[c].pc = "idle" /\ cycle'[c].snapshot_time = t
          /\ \A d \in CycleLines \ {c} : cycle'[d] = cycle[d]
          /\ cycle[c].pc = "updating"
        BY <1>0, <1>3, CommitEffect
    <2>2. ASSUME NEW v \in Vehicles
          PROVE  \/ device_state'[v] = device_state[v]
                 \/ device_state'[v].last_observed_at = t
        <3>1. device_state[v] \in DeviceRow
            BY <1>0 DEF TypeOK
        <3>2. \A seen \in Sighting : UpdatedRow(device_state[v], seen, t).last_observed_at = t
            BY <2>1, <3>1, RowAfter
        <3> QED
            BY <1>0, <1>3, <3>2, CommitEffect
    <2>3. /\ t <= now
          /\ \A d \in CycleLines \ {c} : InFlight(d) => cycle[d].snapshot_time # t
        BY DEF OpenStopInv, Clocks
    <2> HIDE DEF t
    <2> QED
        BY <2>1, <2>2, <2>3 DEF Instants, InFlight
<1>4. ASSUME NEW c \in CycleLines, UpdateConflict(c) \/ UpdateFails(c) PROVE Instants'
    <2>1. /\ UNCHANGED <<now, device_state>>
          /\ \A d \in CycleLines : cycle'[d].snapshot_time = cycle[d].snapshot_time
          /\ \A d \in CycleLines : cycle'[d].pc # "idle" => cycle[d].pc # "idle"
        BY <1>0, <1>4 DEF UpdateConflict, UpdateFails, IdleSince, tables
    <2> QED
        BY <2>1 DEF Instants, InFlight
<1>5. ASSUME CloseGhostStops \/ UNCHANGED vars PROVE Instants'
    <2>1. UNCHANGED <<now, device_state, cycle>>
        BY <1>5 DEF CloseGhostStops, vars
    <2> QED
        BY <2>1 DEF Instants, InFlight
<1>6. ASSUME Tick PROVE Instants'
    <2>1. UNCHANGED <<device_state, cycle>> /\ now' = now + 1
        BY <1>6 DEF Tick, tables
    <2> QED
        BY <2>1, <1>0 DEF Instants, InFlight
<1> QED
    BY <1>1, <1>2, <1>3, <1>4, <1>5, <1>6 DEF Next

\* A commit in order sees each vehicle later than all cycles before it did.
LEMMA InOrder ==
    ASSUME OpenStopInv, Instants, NEW c \in CycleLines, NEW plausible \in BOOLEAN,
           UpdateCommit(c, plausible), History, ~reordered'
    PROVE  \A v \in Vehicles : device_state[v].last_observed_at < cycle[c].snapshot_time
<1>1. TypeOK
    BY DEF OpenStopInv
<1>2. /\ cycle[c].pc = "updating" /\ cycle'[c].pc = "idle" /\ Conflicts(c) = {}
      /\ faults' = faults /\ cycle[c].snapshot_time \in Time
    BY <1>1, CommitEffect
<1>3. Commits(c)
    BY <1>2 DEF Commits
<1>4. ASSUME NEW v \in Vehicles
      PROVE  device_state[v].last_observed_at < cycle[c].snapshot_time
    <2>1. ~(device_state[v].last_observed_at > cycle[c].snapshot_time)
        BY <1>3 DEF History
    <2>2. device_state[v].last_observed_at # cycle[c].snapshot_time
        BY <1>2 DEF Instants, InFlight
    <2>3. device_state[v].last_observed_at \in Int /\ cycle[c].snapshot_time \in Int
        <3>1. device_state[v] \in DeviceRow
            BY <1>1 DEF TypeOK
        <3> QED
            BY <3>1, <1>2, RowTimes, TimesAreNatural
    <2> QED
        BY <2>1, <2>2, <2>3
<1> QED
    BY <1>4

\* Whatever the step, every vehicle's row, stops and trips still tell one story.
LEMMA StepTimelines ==
    OpenStopInv /\ Instants /\ Timelines /\ [Next /\ History]_allVars => Timelines'
<1> SUFFICES ASSUME OpenStopInv, Instants, Timelines, [Next /\ History]_allVars, ~reordered'
             PROVE  \A v \in Vehicles :
                        IF device_state'[v].known
                        THEN Timeline(device_state'[v], device_history'[v], trip_events'[v])
                        ELSE trip_events'[v] = {}
    BY DEF Timelines
<1>1. TypeOK /\ [Next]_vars /\ ~reordered
    <2>1. CASE Next /\ History
        BY <2>1 DEF History, OpenStopInv
    <2>2. CASE UNCHANGED allVars
        BY <2>2 DEF allVars, OpenStopInv
    <2> QED
        BY <2>1, <2>2
<1>2. ASSUME NEW v \in Vehicles
      PROVE  /\ device_state[v] \in DeviceRow /\ device_history[v] \in SUBSET Stop
             /\ IF device_state[v].known
                THEN Timeline(device_state[v], device_history[v], trip_events[v])
                ELSE trip_events[v] = {} /\ device_history[v] = {}
    BY <1>1 DEF Timelines, TypeOK, OpenStopInv, Closures
<1>3. ASSUME NEW c \in CycleLines, NEW plausible \in BOOLEAN, UpdateCommit(c, plausible),
             NEW v \in Vehicles
      PROVE  IF device_state'[v].known
             THEN Timeline(device_state'[v], device_history'[v], trip_events'[v])
             ELSE trip_events'[v] = {}
    <2> DEFINE t == cycle[c].snapshot_time
               without == v \in cycle[c].without_open_stop
    <2>1. History
        <3>1. UNCHANGED allVars => UNCHANGED cycle
            BY DEF allVars, vars
        <3>2. cycle'[c].pc # cycle[c].pc
            BY <1>1, <1>3, CommitEffect
        <3> QED
            BY <3>1, <3>2
    <2>2. device_state[v].last_observed_at < t
        BY <1>3, <2>1, InOrder
    <2>3. t \in Time
        BY <1>1, <1>3, CommitEffect
    <2>4. AwayFromOrigin(device_state[v]) => AllClosed(device_history[v])
        BY DEF OpenStopInv, Closures
    <2>5. without => AllClosed(device_history[v])
        <3>1. cycle[c].pc = "updating"
            BY <1>3 DEF UpdateCommit
        <3> QED
            BY <3>1 DEF OpenStopInv, Locks, OpenStops, AllClosed
    <2>6. CASE v \in DOMAIN cycle[c].seen
        <3>1. /\ cycle[c].seen[v] \in Sighting
              /\ device_state'[v] = UpdatedRow(device_state[v], cycle[c].seen[v], t)
              /\ trip_events'[v] = UpdatedTrips(trip_events[v], device_state[v],
                                                cycle[c].seen[v], t)
              /\ Written(c, v) = UpdatedStops(device_history[v], device_state[v],
                                              cycle[c].seen[v], t, without)
            BY <1>1, <1>3, <2>6, CommitEffect DEF Written
        <3>2. device_state'[v] \in DeviceRow
            BY <1>2, <2>3, <3>1, UpdatedRowSound
        <3>7. Timeline(UpdatedRow(device_state[v], cycle[c].seen[v], t),
                       UpdatedStops(device_history[v], device_state[v], cycle[c].seen[v], t,
                                    without),
                       UpdatedTrips(trip_events[v], device_state[v], cycle[c].seen[v], t))
            <4> HIDE DEF t, without
            <4>1. /\ device_state[v] \in DeviceRow /\ device_history[v] \in SUBSET Stop
                  /\ cycle[c].seen[v] \in Sighting
                  /\ device_state[v].known =>
                         /\ Timeline(device_state[v], device_history[v], trip_events[v])
                         /\ device_state[v].last_observed_at < t
                  /\ ~device_state[v].known =>
                         device_history[v] = {} /\ trip_events[v] = {}
                BY <1>2, <2>2, <3>1
            <4> QED
                BY <4>1, <2>3, <2>4, <2>5, UpdateKeepsTimeline
        <3>3. Timeline(device_state'[v], Written(c, v), trip_events'[v])
            BY <3>1, <3>7
        <3>4. \/ device_history'[v] = Written(c, v)
              \/ device_history'[v] =
                     Closed(Written(c, v), device_state'[v].last_observed_at, "absent")
            BY <1>1, <1>3, CommitEffect
        <3>5. Written(c, v) \in SUBSET Stop
            BY <1>1, <1>3, CommitEffect
        <3>6. device_state'[v].known
            BY <1>2, <2>3, <3>1, UpdatedRowSound
        <3> QED
            BY <3>2, <3>3, <3>4, <3>5, <3>6, SweepKeepsTimeline
    <2>7. CASE v \notin DOMAIN cycle[c].seen
        <3>1. /\ device_state'[v] = device_state[v] /\ trip_events'[v] = trip_events[v]
              /\ \/ device_history'[v] = device_history[v]
                 \/ device_history'[v] =
                        Closed(device_history[v], device_state[v].last_observed_at, "absent")
            BY <1>1, <1>3, <2>7, CommitEffect DEF Written
        <3> QED
            BY <3>1, <1>2, SweepKeepsTimeline
    <2> QED
        BY <2>6, <2>7
<1>4. ASSUME ~ \E c \in CycleLines, plausible \in BOOLEAN : UpdateCommit(c, plausible),
             NEW v \in Vehicles
      PROVE  IF device_state'[v].known
             THEN Timeline(device_state'[v], device_history'[v], trip_events'[v])
             ELSE trip_events'[v] = {}
    <2>1. /\ UNCHANGED <<device_state, trip_events>>
          /\ UNCHANGED device_history \/ CloseGhostStops
        BY <1>1, <1>4, QuietStep
    <2>2. \/ device_history'[v] = device_history[v]
          \/ device_history'[v] =
                 Closed(device_history[v], device_state[v].last_observed_at, "absent")
        BY <2>1 DEF CloseGhostStops, Swept
    <2> QED
        BY <2>1, <2>2, <1>2, SweepKeepsTimeline
<1> QED
    BY <1>3, <1>4

\* What the three properties have in common.
LEMMA TimelinesAlways == HistorySpec => [](OpenStopInv /\ Instants /\ Timelines)
<1>1. HistoryInit => OpenStopInv /\ Instants /\ Timelines
    <2> SUFFICES ASSUME HistoryInit PROVE OpenStopInv /\ Instants /\ Timelines
        OBVIOUS
    <2>1. OpenStopInv
        BY InitOpenStop DEF HistoryInit
    <2>2. Instants
        BY DEF HistoryInit, Init, NoRow, IdleSince, Instants, InFlight
    <2>3. Timelines
        BY DEF HistoryInit, Init, NoRow, Timelines
    <2> QED
        BY <2>1, <2>2, <2>3
<1>2. [Next /\ History]_allVars => [Next]_vars
    BY DEF allVars
<1> QED
    BY <1>1, <1>2, StepOpenStop, InstantsStep, StepTimelines, PTL DEF HistorySpec

\* Stops of one vehicle never overlap in time, as long as cycles commit in order
\* (update_for_cycle, close_absent_stops).
THEOREM StopsDisjointHolds == HistorySpec => []StopsDisjoint
<1>1. OpenStopInv /\ Timelines => StopsDisjoint
    <2> SUFFICES ASSUME OpenStopInv, Timelines, ~reordered, NEW v \in Vehicles
                 PROVE  Disjoint(device_history[v])
        BY DEF StopsDisjoint, Disjoint
    <2> QED
        BY DEF Timelines, Timeline, OpenStopInv, Closures, Disjoint
<1> QED
    BY <1>1, TimelinesAlways, PTL

\* The failed starts of an open stop agree with the vehicle's row.
THEOREM DwellCountersAgreeHolds == HistorySpec => []DwellCountersAgree
<1>1. OpenStopInv /\ Timelines => DwellCountersAgree
    <2> SUFFICES ASSUME OpenStopInv, Timelines, ~reordered, NEW v \in Vehicles,
                        NEW stop \in OpenStops(v)
                 PROVE  Agrees(stop, device_state[v])
        BY DEF DwellCountersAgree, Agrees
    <2>1. device_state[v].known
        BY DEF OpenStopInv, Closures, OpenStops
    <2> QED
        BY <2>1 DEF Timelines, Timeline, AllAgree, OpenStops
<1> QED
    BY <1>1, TimelinesAlways, PTL

\* A trip joins two stops of its vehicle, the one it left and the one it ended at.
THEOREM TripsJoinStopsHolds == HistorySpec => []TripsJoinStops
<1>1. OpenStopInv /\ Timelines => TripsJoinStops
    <2> SUFFICES ASSUME Timelines, ~reordered, NEW v \in Vehicles, NEW trip \in trip_events[v]
                 PROVE  Arrives(trip, device_history[v]) /\ Leaves(trip, device_history[v])
        BY DEF TripsJoinStops, Arrives, Leaves
    <2> QED
        BY DEF Timelines, Timeline
<1> QED
    BY <1>1, TimelinesAlways, PTL

-----------------------------------------------------------------------------
(* The absence rule: what the n-th most recent of a set of times is. *)

\* Of numbers there is a least.
LEMMA LeastNumber ==
    ASSUME NEW numbers \in SUBSET Nat, numbers # {}
    PROVE  \E least \in numbers : \A n \in numbers : least <= n
<1>1. \E least \in numbers : \A n \in numbers : ~(<<n, least>> \in OpToRel(<, Nat))
    BY NatLessThanWellFounded, WFMin
<1>2. PICK least \in numbers : \A n \in numbers : ~(<<n, least>> \in OpToRel(<, Nat))
    BY <1>1
<1>3. ASSUME NEW n \in numbers PROVE least <= n
    <2>1. ~(n < least)
        BY <1>2, <1>3 DEF OpToRel
    <2> QED
        BY <2>1
<1> QED
    BY <1>3

\* Of snapshot times there is a latest, for they are bounded.
LEMMA LatestTime ==
    ASSUME NEW times \in SUBSET Time, times # {}
    PROVE  \E latest \in times : \A t \in times : t <= latest
<1> DEFINE left == {MaxTime - t : t \in times}
<1>1. MaxTime \in Nat
    BY DeviceAssumption DEF DeviceAssumption
<1>2. left \in SUBSET Nat /\ left # {}
    <2>1. ASSUME NEW t \in times PROVE MaxTime - t \in Nat
        <3>1. t \in 0 .. MaxTime
            BY DEF Time
        <3> QED
            BY <1>1, <3>1
    <2> QED
        BY <2>1
<1>3. PICK least \in left : \A n \in left : least <= n
    <2> HIDE DEF left
    <2> QED
        BY <1>2, LeastNumber
<1>4. PICK latest \in times : least = MaxTime - latest
    OBVIOUS
<1>5. ASSUME NEW t \in times PROVE t <= latest
    <2>1. least <= MaxTime - t
        BY <1>3
    <2> QED
        BY <1>1, <1>4, <2>1 DEF Time
<1> QED
    BY <1>5

\* Of snapshot times there is an earliest.
LEMMA EarliestTime ==
    ASSUME NEW times \in SUBSET Time, times # {}
    PROVE  \E earliest \in times : \A t \in times : earliest <= t
BY LeastNumber, TimesAreNatural

\* Sets of snapshot times can be counted.
LEMMA TimesAreFinite ==
    ASSUME NEW times \in SUBSET Time
    PROVE  IsFiniteSet(times) /\ Cardinality(times) \in Nat
<1>1. IsFiniteSet(Time)
    BY FS_Interval, DeviceAssumption DEF Time, DeviceAssumption
<1>2. IsFiniteSet(times)
    BY <1>1, FS_Subset
<1> QED
    BY <1>2, FS_CardinalityType

\* There is an n-th most recent of n times or more.
LEMMA RecentSound ==
    ASSUME NEW times \in SUBSET Time, NEW n \in Nat \ {0}, Cardinality(times) >= n
    PROVE  /\ Recent(times, n) \in times
           /\ Cardinality({u \in times : u >= Recent(times, n)}) = n
<1> DEFINE since(t) == {u \in times : u >= t}
           enough == {t \in times : Cardinality(since(t)) >= n}
<1>0. times \subseteq Nat
    BY TimesAreNatural
<1>1. \A t : since(t) \in SUBSET Time
    OBVIOUS
<1>2. \A t : IsFiniteSet(since(t)) /\ Cardinality(since(t)) \in Nat
    <2> HIDE DEF since
    <2> QED
        BY <1>1, TimesAreFinite
<1>3. times # {}
    BY FS_EmptySet
<1>4. PICK earliest \in times : \A t \in times : earliest <= t
    BY <1>3, EarliestTime
<1>5. since(earliest) = times
    BY <1>0, <1>4
<1>6. earliest \in enough
    BY <1>5
<1>7. enough \in SUBSET Time /\ enough # {}
    BY <1>6
<1>8. PICK latest \in enough : \A t \in enough : t <= latest
    <2> HIDE DEF enough
    <2> QED
        BY <1>7, LatestTime
<1>9. Cardinality(since(latest)) = n
    <2> SUFFICES ASSUME Cardinality(since(latest)) # n PROVE FALSE
        OBVIOUS
    <2> DEFINE later == since(latest) \ {latest}
    <2>1. latest \in since(latest)
        BY <1>0
    <2>2. Cardinality(later) = Cardinality(since(latest)) - 1
        <3> HIDE DEF since
        <3> QED
            BY <1>2, <2>1, FS_RemoveElement
    <2>3. Cardinality(later) >= n
        <3>1. Cardinality(since(latest)) >= n
            OBVIOUS
        <3> HIDE DEF since, later
        <3> QED
            BY <1>2, <2>2, <3>1
    <2>4. later \in SUBSET Time
        OBVIOUS
    <2>5. later # {}
        <3> HIDE DEF later
        <3> QED
            BY <2>3, FS_EmptySet
    <2>6. PICK next \in later : \A t \in later : next <= t
        <3> HIDE DEF later
        <3> QED
            BY <2>4, <2>5, EarliestTime
    <2>7. since(next) = later
        <3>1. /\ latest \in Nat /\ next \in Nat /\ next \in times
              /\ next >= latest /\ next # latest
            BY <1>0, <2>6
        <3>2. ASSUME NEW u \in times
              PROVE  (u >= next) <=> (u >= latest /\ u # latest)
            <4>1. u \in Nat
                BY <1>0
            <4>2. (u >= latest /\ u # latest) => u \in later
                BY <4>1
            <4>3. u \in later => next <= u
                BY <2>6
            <4> HIDE DEF later, since
            <4> QED
                BY <3>1, <4>1, <4>2, <4>3
        <3> QED
            BY <3>2
    <2>8. next \in enough
        BY <2>3, <2>7
    <2> QED
        BY <1>0, <1>8, <2>6, <2>8
<1> HIDE DEF since
<1>10. Recent(times, n) \in times /\ Cardinality(since(Recent(times, n))) = n
    BY <1>9 DEF Recent, since
<1> QED
    BY <1>10 DEF since

\* Who is absent was last seen long before `time`, and before the last MinMissedCycles
\* of the cycles observed by then.
LEMMA AbsentSound ==
    ASSUME NEW rows \in [Vehicles -> DeviceRow], NEW observed \in SUBSET Time,
           NEW time \in Time, NEW bounded, NEW v \in Absent(rows, observed, time, bounded)
    PROVE  LET times == {t \in observed : t <= time} IN
           /\ v \in Vehicles /\ rows[v].known
           /\ Cardinality(times) >= MinMissedCycles
           /\ rows[v].last_observed_at < time - AbsentStopAfter
           /\ rows[v].last_observed_at < Recent(times, MinMissedCycles)
           /\ rows[v].last_observed_at < time
<1> DEFINE times == {t \in observed : t <= time}
<1>1. Cardinality(times) >= MinMissedCycles
    <2>1. ~(Cardinality(times) < MinMissedCycles)
        BY DEF Absent
    <2>2. times \in SUBSET Time
        OBVIOUS
    <2>3. Cardinality(times) \in Nat
        BY <2>2, TimesAreFinite
    <2> QED
        BY <2>1, <2>3, DeviceAssumption DEF DeviceAssumption
<1>2. /\ v \in Vehicles /\ rows[v].known
      /\ rows[v].last_observed_at <
             Smaller(time - AbsentStopAfter, Recent(times, MinMissedCycles))
    BY DEF Absent
<1>3. times \in SUBSET Time /\ MinMissedCycles \in Nat \ {0} /\ AbsentStopAfter \in Nat
      /\ time \in Nat
    BY DeviceAssumption, TimesAreNatural DEF DeviceAssumption
<1> HIDE DEF times
<1>4. Recent(times, MinMissedCycles) \in times
    BY <1>1, <1>3, RecentSound
<1>5. Recent(times, MinMissedCycles) \in Nat
    BY <1>3, <1>4, TimesAreNatural
<1>6. rows[v].last_observed_at \in Int
    BY <1>2, RowTimes
<1>7. /\ rows[v].last_observed_at < time - AbsentStopAfter
      /\ rows[v].last_observed_at < Recent(times, MinMissedCycles)
    BY <1>2, <1>3, <1>5, <1>6 DEF Smaller
<1>8. rows[v].last_observed_at < time
    BY <1>3, <1>6, <1>7
<1> QED
    BY <1>1, <1>2, <1>7, <1>8 DEF times

-----------------------------------------------------------------------------
(***************************************************************************)
(* Absence is never concluded from our own downtime.  The count of payloads *)
(* in a row that missed a vehicle is tied to the cycles observed since the  *)
(* vehicle was last seen: as long as cycles commit in order, each one of    *)
(* those cycles has been counted (Counted).                                 *)
(***************************************************************************)

\* The observed cycles that are later than the latest that saw v.
Unseen(v) == {u \in processed_cycles : u > device_state[v].last_observed_at}

Counted ==
    /\ missed \in [Vehicles -> Nat]
    /\ \A v \in Vehicles : \A stop \in OpenStops(v) : stop.reason = "none"
    /\ ~reordered =>
           /\ \A u \in processed_cycles :
                  \E v \in Vehicles : u <= device_state[v].last_observed_at
           /\ \A v \in Vehicles :
                  Smaller(Cardinality(Unseen(v)), MinMissedCycles) <= missed[v]

\* A vehicle that the rule finds absent was seen by none of the last MinMissedCycles.
LEMMA AbsentUnseen ==
    ASSUME NEW rows \in [Vehicles -> DeviceRow], NEW observed \in SUBSET Time,
           NEW time \in Time, NEW bounded, NEW v \in Absent(rows, observed, time, bounded)
    PROVE  Cardinality({u \in observed : u > rows[v].last_observed_at}) >= MinMissedCycles
<1> DEFINE times == {t \in observed : t <= time}
           k == MinMissedCycles
           recent == {u \in times : u >= Recent(times, k)}
           unseen == {u \in observed : u > rows[v].last_observed_at}
<1>1. /\ v \in Vehicles /\ Cardinality(times) >= k
      /\ rows[v].last_observed_at < Recent(times, k)
    BY AbsentSound
<1>2. times \in SUBSET Time /\ k \in Nat \ {0}
    BY DeviceAssumption DEF DeviceAssumption
<1>3. Recent(times, k) \in Nat /\ Cardinality(recent) = k
    <2> HIDE DEF times
    <2>1. Recent(times, k) \in times /\ Cardinality({u \in times : u >= Recent(times, k)}) = k
        BY <1>1, <1>2, RecentSound
    <2> QED
        BY <2>1, <1>2, TimesAreNatural
<1>4. ASSUME NEW u \in recent PROVE u \in unseen
    <2>1. u \in Nat /\ u \in observed /\ u >= Recent(times, k)
        BY TimesAreNatural
    <2>2. rows[v].last_observed_at \in Int
        BY <1>1, RowTimes
    <2> HIDE DEF recent, times
    <2> QED
        BY <2>1, <2>2, <1>1, <1>3
<1>5. unseen \in SUBSET Time /\ recent \in SUBSET unseen
    BY <1>4
<1> HIDE DEF recent, unseen, times
<1>6. IsFiniteSet(unseen) /\ Cardinality(unseen) \in Nat /\ Cardinality(recent) <= Cardinality(unseen)
    BY <1>5, TimesAreFinite, FS_Subset
<1> QED
    BY <1>2, <1>3, <1>6 DEF unseen

\* No branch of a cycle closes a stop as absent, and what is open has no reason.
LEMMA UpdatedReasons ==
    ASSUME NEW stops \in SUBSET Stop, NEW row \in DeviceRow, NEW seen \in Sighting,
           NEW t \in Time, NEW without,
           \A stop \in stops : stop.departed = Never => stop.reason = "none"
    PROVE  \A stop \in UpdatedStops(stops, row, seen, t, without) :
               /\ stop.departed = Never => stop.reason = "none"
               /\ stop.reason = "absent" => stop \in stops
<1> DEFINE updated == UpdatedStops(stops, row, seen, t, without)
           Fine(some) == \A stop \in some :
               /\ stop.departed = Never => stop.reason = "none"
               /\ stop.reason = "absent" => stop \in stops
<1>1. t # Never
    BY TimesAreNatural
<1>2. Fine(stops)
    OBVIOUS
<1>3. \A some, n : Fine(some) => Fine(some \cup {NewStop(seen, t, n)})
    BY DEF NewStop
<1>4. Fine(Closed(stops, t, "moved"))
    <2>1. \A stop \in stops : /\ [stop EXCEPT !.departed = t, !.reason = "moved"].departed = t
                              /\ [stop EXCEPT !.departed = t, !.reason = "moved"].reason = "moved"
        BY DEF Stop
    <2> QED
        BY <1>1, <2>1 DEF Closed
<1>5. Fine(BumpOpen(stops))
    <2>1. \A stop \in stops : [stop EXCEPT !.failed_starts = @ + 1].reason = stop.reason
        BY DEF Stop
    <2> QED
        BY <2>1 DEF BumpOpen
<1>6. Fine(Resumed(stops, row, seen, t))
    <2> DEFINE failed == Count(ReleaseFailed(row, seen))
               reopened == Reopenable(stops, row, t)
               again(stop) == [stop EXCEPT !.departed = Never, !.reason = "none",
                                           !.failed_starts = @ + failed]
    <2>1. \A stop \in reopened : again(stop).reason = "none"
        BY DEF Reopenable, Stop
    <2>2. \/ Resumed(stops, row, seen, t) = stops \cup {NewStop(seen, t, failed)}
          \/ Resumed(stops, row, seen, t) =
                 (stops \ reopened) \cup {again(stop) : stop \in reopened}
        BY DEF Resumed
    <2> HIDE DEF again, reopened, failed
    <2>3. Fine((stops \ reopened) \cup {again(stop) : stop \in reopened})
        BY <2>1
    <2>4. Fine(stops \cup {NewStop(seen, t, failed)})
        BY <1>2, <1>3
    <2> HIDE DEF Fine
    <2> QED
        BY <2>2, <2>3, <2>4
<1> HIDE DEF Fine
<1>7. \A n : /\ Fine(Reappeared(stops, seen, t, n, without))
             /\ Fine(Reappeared(BumpOpen(stops), seen, t, n, without))
    BY <1>2, <1>3, <1>5 DEF Reappeared
<1>8. Branch(row, seen) \in {"new", "rental_start", "rental_hold", "in_place_release",
                             "moved", "failed_start", "stationary"}
    BY Branches
<1>9. Fine(updated)
    BY <1>2, <1>3, <1>4, <1>6, <1>7, <1>8 DEF UpdatedStops
<1> QED
    BY <1>9 DEF Fine

\* Commits are what the history calls so, and one step is the commit of one line.
LEMMA CommitsSound ==
    ASSUME TypeOK, [Next]_vars, NEW c \in CycleLines
    PROVE  Commits(c) <=> \E plausible \in BOOLEAN : UpdateCommit(c, plausible)
<1>1. ASSUME NEW plausible \in BOOLEAN, UpdateCommit(c, plausible) PROVE Commits(c)
    BY <1>1, CommitEffect DEF Commits
<1>2. ASSUME Commits(c), ~ \E plausible \in BOOLEAN : UpdateCommit(c, plausible) PROVE FALSE
    <2>0. cycle[c].pc = "updating" /\ cycle'[c].pc = "idle" /\ cycle'[c] # cycle[c]
        BY <1>2 DEF Commits
    <2>1. ASSUME NEW d \in CycleLines, NEW payload \in Payloads, CycleFetch(d, payload)
          PROVE  FALSE
        BY <2>0, <2>1 DEF CycleFetch, TypeOK
    <2>2. ASSUME NEW d \in CycleLines, UpdateBegin(d) PROVE FALSE
        <3>1. d = c => cycle[c].pc = "fetched"
            BY <2>2 DEF UpdateBegin
        <3>2. d # c => cycle'[c] = cycle[c]
            BY <2>2 DEF UpdateBegin, TypeOK
        <3> QED
            BY <2>0, <3>1, <3>2
    <2>3. ASSUME NEW d \in CycleLines, NEW plausible \in BOOLEAN, UpdateCommit(d, plausible)
          PROVE  FALSE
        <3>1. d # c
            BY <1>2, <2>3
        <3> QED
            BY <2>0, <2>3, <3>1, CommitEffect
    <2>4. ASSUME NEW d \in CycleLines, UpdateConflict(d) PROVE FALSE
        BY <1>2, <2>0, <2>4 DEF UpdateConflict, Commits, TypeOK
    <2>5. ASSUME NEW d \in CycleLines, UpdateFails(d) PROVE FALSE
        BY <1>2, <2>5 DEF UpdateFails, Commits, TypeOK
    <2>6. ASSUME CloseGhostStops \/ Tick \/ UNCHANGED vars PROVE FALSE
        BY <2>0, <2>6 DEF CloseGhostStops, Tick, vars
    <2> QED
        BY <1>2, <2>1, <2>2, <2>3, <2>4, <2>5, <2>6 DEF Next
<1> QED
    BY <1>1, <1>2

\* Of the reasons of the stops, whatever the step.
LEMMA StepReasons ==
    ASSUME TypeOK, [Next]_vars, NEW v \in Vehicles,
           \A stop \in OpenStops(v) : stop.reason = "none"
    PROVE  \A stop \in OpenStops(v)' : stop.reason = "none"
<1>1. device_history[v] \in SUBSET Stop /\ device_state[v] \in DeviceRow
    BY DEF TypeOK
<1>2. ASSUME NEW stops \in SUBSET Stop, NEW departed \in Time \cup {Never}
      PROVE  AllClosed(Closed(stops, departed, "absent"))
    BY <1>2, AbsentClosing
<1>3. ASSUME NEW c \in CycleLines, NEW plausible \in BOOLEAN, UpdateCommit(c, plausible)
      PROVE  \A stop \in OpenStops(v)' : stop.reason = "none"
    <2>1. Written(c, v) \in SUBSET Stop
        BY <1>3, CommitEffect
    <2>2. \A stop \in Written(c, v) : stop.departed = Never => stop.reason = "none"
        <3>1. CASE v \in DOMAIN cycle[c].seen
            <4>1. cycle[c].seen[v] \in Sighting /\ cycle[c].snapshot_time \in Time
                BY <1>3, <3>1, CommitEffect
            <4> QED
                BY <1>1, <3>1, <4>1, UpdatedReasons DEF Written, OpenStops
        <3>2. CASE v \notin DOMAIN cycle[c].seen
            BY <3>2 DEF Written, OpenStops
        <3> QED
            BY <3>1, <3>2
    <2>3. device_state'[v].last_observed_at \in Time \cup {Never}
        <3>1. TypeOK'
            BY StepType
        <3> QED
            BY <3>1 DEF TypeOK, DeviceRow
    <2>4. \/ device_history'[v] = Written(c, v)
          \/ device_history'[v] =
                 Closed(Written(c, v), device_state'[v].last_observed_at, "absent")
        BY <1>3, CommitEffect
    <2>5. AllClosed(Closed(Written(c, v), device_state'[v].last_observed_at, "absent"))
        BY <1>2, <2>1, <2>3
    <2> QED
        BY <2>2, <2>4, <2>5 DEF OpenStops, AllClosed
<1>4. ASSUME ~ \E c \in CycleLines, plausible \in BOOLEAN : UpdateCommit(c, plausible)
      PROVE  \A stop \in OpenStops(v)' : stop.reason = "none"
    <2>1. \/ device_history'[v] = device_history[v]
          \/ device_history'[v] =
                 Closed(device_history[v], device_state[v].last_observed_at, "absent")
        BY <1>4, QuietStep DEF CloseGhostStops, Swept
    <2>2. device_state[v].last_observed_at \in Time \cup {Never}
        BY <1>1 DEF DeviceRow
    <2>3. AllClosed(Closed(device_history[v], device_state[v].last_observed_at, "absent"))
        BY <1>1, <1>2, <2>2
    <2> QED
        BY <2>1, <2>3 DEF OpenStops, AllClosed
<1> QED
    BY <1>3, <1>4

\* The count after the commit of c: every line commits for itself.
LEMMA CommitCounts ==
    ASSUME TypeOK, [Next]_vars, History, NEW c \in CycleLines, NEW plausible \in BOOLEAN,
           UpdateCommit(c, plausible)
    PROVE  missed' = [v \in Vehicles |->
               IF v \in DOMAIN cycle[c].seen THEN 0
               ELSE IF DOMAIN cycle[c].seen # {}
                    THEN Smaller(missed[v] + 1, MinMissedCycles) ELSE missed[v]]
<1>1. Commits(c)
    BY CommitsSound
<1>2. \A d \in CycleLines \ {c} : ~Commits(d)
    BY CommitEffect DEF Commits
<1>3. \A v : (\E d \in CycleLines : Commits(d) /\ v \in DOMAIN cycle[d].seen)
                 <=> v \in DOMAIN cycle[c].seen
    BY <1>1, <1>2
<1>4. (\E d \in CycleLines : Commits(d) /\ DOMAIN cycle[d].seen # {})
          <=> DOMAIN cycle[c].seen # {}
    BY <1>1, <1>2
<1> QED
    BY <1>3, <1>4 DEF History

\* The commit of an update counts what it has not seen.
LEMMA CommitCounted ==
    ASSUME OpenStopInv, Instants, Counted, [Next]_vars, History, ~reordered,
           ~reordered', NEW c \in CycleLines, NEW plausible \in BOOLEAN,
           UpdateCommit(c, plausible)
    PROVE  /\ \A u \in processed_cycles' :
                  \E v \in Vehicles : u <= device_state'[v].last_observed_at
           /\ \A v \in Vehicles :
                  Smaller(Cardinality(Unseen(v)'), MinMissedCycles) <= missed'[v]
           /\ \A u \in processed_cycles : u < cycle[c].snapshot_time
<1> DEFINE t == cycle[c].snapshot_time
           seen == cycle[c].seen
           k == MinMissedCycles
<1>0. /\ TypeOK /\ processed_cycles \subseteq Time /\ k \in Nat \ {0}
      /\ missed \in [Vehicles -> Nat]
    BY DeviceAssumption DEF OpenStopInv, TypeOK, Counted, DeviceAssumption
<1>1. /\ t \in Time /\ DOMAIN seen \subseteq Vehicles
      /\ \A v \in DOMAIN seen : seen[v] \in Sighting
      /\ \A v \in Vehicles : device_state'[v] = IF v \in DOMAIN seen
                                               THEN UpdatedRow(device_state[v], seen[v], t)
                                               ELSE device_state[v]
      /\ processed_cycles' = processed_cycles \cup
             (IF CountsAsObservation(seen, plausible) THEN {t} ELSE {})
    BY <1>0, CommitEffect
<1>2. ASSUME NEW v \in Vehicles
      PROVE  device_state[v].last_observed_at < t /\ device_state[v].last_observed_at \in Int
             /\ device_state[v] \in DeviceRow
    BY <1>0, InOrder, RowTimes DEF TypeOK
<1>3. ASSUME NEW v \in DOMAIN seen PROVE device_state'[v].last_observed_at = t
    BY <1>1, <1>2, RowAfter
<1>4. t \in Nat /\ processed_cycles \subseteq Nat
    BY <1>0, <1>1, TimesAreNatural
<1> HIDE DEF t, seen
<1>5. ASSUME NEW u \in processed_cycles PROVE u < t
    <2>1. PICK v \in Vehicles : u <= device_state[v].last_observed_at
        BY DEF Counted
    <2> QED
        BY <1>2, <1>4, <2>1
<1>6. CountsAsObservation(seen, plausible) => DOMAIN seen # {}
    BY DEF CountsAsObservation
<1>7. ASSUME NEW u \in processed_cycles'
      PROVE  \E v \in Vehicles : u <= device_state'[v].last_observed_at
    <2>1. CASE DOMAIN seen # {}
        <3>1. PICK v \in DOMAIN seen : TRUE
            BY <2>1
        <3>2. u <= t
            BY <1>1, <1>4, <1>5
        <3> QED
            BY <1>1, <1>3, <3>1, <3>2
    <2>2. CASE DOMAIN seen = {}
        BY <1>1, <1>6, <2>2 DEF Counted
    <2> QED
        BY <2>1, <2>2
<1>8. missed' = [v \in Vehicles |->
          IF v \in DOMAIN seen THEN 0
          ELSE IF DOMAIN seen # {} THEN Smaller(missed[v] + 1, k) ELSE missed[v]]
    BY <1>0, CommitCounts DEF seen
<1>9. ASSUME NEW v \in Vehicles
      PROVE  Smaller(Cardinality(Unseen(v)'), k) <= missed'[v]
    <2>1. CASE v \in DOMAIN seen
        <3>1. ASSUME NEW u \in processed_cycles' PROVE u \in Nat /\ ~(u > t)
            <4>1. CASE u \in processed_cycles
                BY <1>4, <1>5, <4>1
            <4>2. CASE u = t
                BY <1>4, <4>2
            <4> QED
                BY <1>1, <4>1, <4>2
        <3>2. device_state'[v].last_observed_at = t
            BY <1>3, <2>1
        <3>3. Unseen(v)' = {}
            BY <3>1, <3>2 DEF Unseen
        <3> QED
            BY <1>0, <1>8, <2>1, <3>3, FS_EmptySet DEF Smaller
    <2>2. ASSUME v \notin DOMAIN seen, DOMAIN seen # {}
          PROVE  Smaller(Cardinality(Unseen(v)'), k) <= missed'[v]
        <3>1. device_state'[v] = device_state[v]
            BY <1>1, <2>2
        <3>2. Unseen(v)' \subseteq Unseen(v) \cup {t}
            BY <1>1, <3>1 DEF Unseen
        <3>3. Unseen(v) \in SUBSET Time
            BY <1>0 DEF Unseen
        <3>4. IsFiniteSet(Unseen(v)) /\ Cardinality(Unseen(v)) \in Nat
            BY <3>3, TimesAreFinite
        <3>5. /\ IsFiniteSet(Unseen(v) \cup {t})
              /\ Cardinality(Unseen(v) \cup {t}) <= Cardinality(Unseen(v)) + 1
            BY <3>4, FS_AddElement
        <3>6. Cardinality(Unseen(v)') \in Nat
              /\ Cardinality(Unseen(v)') <= Cardinality(Unseen(v) \cup {t})
              /\ Cardinality(Unseen(v) \cup {t}) \in Nat
            BY <3>2, <3>5, FS_Subset, FS_CardinalityType
        <3>7. Smaller(Cardinality(Unseen(v)), k) <= missed[v]
            BY DEF Counted
        <3>8. missed'[v] = Smaller(missed[v] + 1, k)
            BY <1>8, <2>2
        <3>9. missed[v] \in Nat
            BY <1>0
        <3> QED
            BY <1>0, <3>4, <3>5, <3>6, <3>7, <3>8, <3>9 DEF Smaller
    <2>3. ASSUME v \notin DOMAIN seen, DOMAIN seen = {}
          PROVE  Smaller(Cardinality(Unseen(v)'), k) <= missed'[v]
        <3>1. Unseen(v)' = Unseen(v)
            BY <1>1, <1>6, <2>3 DEF Unseen
        <3> QED
            BY <1>8, <2>3, <3>1 DEF Counted
    <2> QED
        BY <2>1, <2>2, <2>3
<1> QED
    BY <1>5, <1>7, <1>9 DEF t

\* Whatever the step, the cycles that did not see a vehicle are counted.
LEMMA StepCounted ==
    OpenStopInv /\ Instants /\ Counted /\ [Next /\ History]_allVars => Counted'
<1> SUFFICES ASSUME OpenStopInv, Instants, Counted, [Next /\ History]_allVars PROVE Counted'
    OBVIOUS
<1>1. TypeOK
    BY DEF OpenStopInv
<1>2. CASE UNCHANGED allVars
    BY <1>2 DEF allVars, vars, Counted, OpenStops, Unseen
<1>3. CASE Next /\ History
    <2>1. [Next]_vars /\ (~reordered' => ~reordered)
        BY <1>3 DEF History
    <2>2. \A v \in Vehicles : \A stop \in OpenStops(v)' : stop.reason = "none"
        BY <1>1, <2>1, StepReasons DEF Counted
    <2>3. missed' \in [Vehicles -> Nat]
        <3>1. MinMissedCycles \in Nat
            BY DeviceAssumption DEF DeviceAssumption
        <3>2. \A n \in Nat : Smaller(n + 1, MinMissedCycles) \in Nat
            BY <3>1 DEF Smaller
        <3> QED
            BY <1>3, <3>2 DEF History, Counted
    <2>4. ASSUME NEW c \in CycleLines, NEW plausible \in BOOLEAN, UpdateCommit(c, plausible)
          PROVE  Counted'
        BY <1>3, <2>1, <2>2, <2>3, <2>4, CommitCounted DEF Counted
    <2>5. ASSUME ~ \E c \in CycleLines, plausible \in BOOLEAN : UpdateCommit(c, plausible)
          PROVE  Counted'
        <3>1. UNCHANGED <<device_state, processed_cycles>>
            BY <1>1, <2>1, <2>5, QuietStep
        <3>2. \A c \in CycleLines : ~Commits(c)
            BY <1>1, <2>1, <2>5, CommitsSound
        <3>3. \A v \in Vehicles : missed'[v] = missed[v]
            BY <1>3, <3>2 DEF History
        <3>4. \A v \in Vehicles : Unseen(v)' = Unseen(v)
            BY <3>1 DEF Unseen
        <3> QED
            BY <2>1, <2>2, <2>3, <3>1, <3>3, <3>4 DEF Counted
    <2> QED
        BY <2>4, <2>5
<1> QED
    BY <1>2, <1>3

\* The invariants of the rows, taken together.
LEMMA CountedAlways == HistorySpec => [](OpenStopInv /\ Instants /\ Timelines /\ Counted)
<1>1. HistoryInit => Counted
    <2> SUFFICES ASSUME HistoryInit PROVE Counted
        OBVIOUS
    <2>1. \A v \in Vehicles : OpenStops(v) = {} /\ Unseen(v) = {} /\ missed[v] = 0
        BY DEF HistoryInit, Init, OpenStops, Unseen
    <2>2. missed \in [Vehicles -> Nat] /\ processed_cycles = {}
        BY DEF HistoryInit, Init
    <2>3. MinMissedCycles \in Nat \ {0}
        BY DeviceAssumption DEF DeviceAssumption
    <2> QED
        BY <2>1, <2>2, <2>3, FS_EmptySet DEF Counted, Smaller
<1> QED
    BY <1>1, StepCounted, TimelinesAlways, PTL DEF HistorySpec

\* A sweep, of a commit or of the cleanup, closes only what the last MinMissedCycles
\* payloads were without.
LEMMA ClosedIfMissed ==
    ASSUME OpenStopInv, Instants, Counted, Counted', [Next /\ History]_allVars,
           NEW v \in Vehicles, NEW stop \in device_history'[v],
           stop.reason = "absent", stop \notin device_history[v], ~reordered'
    PROVE  missed'[v] >= MinMissedCycles
<1>1. TypeOK /\ TypeOK'
    <2>1. [Next]_vars
        BY DEF allVars
    <2> QED
        BY <2>1, StepType DEF OpenStopInv
<1>2. [Next]_vars
    BY DEF allVars
<1>3. device_history[v] \in SUBSET Stop /\ device_state[v] \in DeviceRow
    BY <1>1 DEF TypeOK
<1>4. Cardinality(Unseen(v)') >= MinMissedCycles
    <2>1. ASSUME NEW c \in CycleLines, NEW plausible \in BOOLEAN, UpdateCommit(c, plausible)
          PROVE  Cardinality(Unseen(v)') >= MinMissedCycles
        <3>1. cycle[c].snapshot_time \in Time
            BY <1>1, <2>1, CommitEffect
        <3>2. \A kept \in Written(c, v) : kept.reason = "absent" => kept \in device_history[v]
            <4>1. CASE v \in DOMAIN cycle[c].seen
                <5>1. cycle[c].seen[v] \in Sighting
                    BY <1>1, <2>1, <4>1, CommitEffect
                <5>2. \A kept \in device_history[v] : kept.departed = Never => kept.reason = "none"
                    BY DEF Counted, OpenStops
                <5> QED
                    BY <1>3, <3>1, <4>1, <5>1, <5>2, UpdatedReasons DEF Written
            <4>2. CASE v \notin DOMAIN cycle[c].seen
                BY <4>2 DEF Written
            <4> QED
                BY <4>1, <4>2
        <3>3. v \in SweptBy(c)
            BY <1>1, <2>1, <3>2, CommitEffect
        <3>4. v \in Absent(device_state', processed_cycles', cycle[c].snapshot_time, TRUE)
            BY <3>3 DEF SweptBy
        <3>5. device_state' \in [Vehicles -> DeviceRow] /\ processed_cycles' \in SUBSET Time
            BY <1>1 DEF TypeOK
        <3> QED
            BY <3>1, <3>4, <3>5, AbsentUnseen DEF Unseen
    <2>2. ASSUME ~ \E c \in CycleLines, plausible \in BOOLEAN : UpdateCommit(c, plausible)
          PROVE  Cardinality(Unseen(v)') >= MinMissedCycles
        <3>1. UNCHANGED <<device_state, processed_cycles>> /\ CloseGhostStops
            BY <1>1, <1>2, <2>2, QuietStep
        <3>2. v \in Absent(device_state, processed_cycles, now, FALSE)
            BY <3>1 DEF CloseGhostStops, Swept
        <3>3. /\ device_state \in [Vehicles -> DeviceRow] /\ processed_cycles \in SUBSET Time
              /\ now \in Time
            BY <1>1 DEF TypeOK
        <3>4. Cardinality(Unseen(v)) >= MinMissedCycles
            BY <3>2, <3>3, AbsentUnseen DEF Unseen
        <3>5. Unseen(v)' = Unseen(v)
            BY <3>1 DEF Unseen
        <3> QED
            BY <3>4, <3>5
    <2> QED
        BY <2>1, <2>2
<1>5. Smaller(Cardinality(Unseen(v)'), MinMissedCycles) <= missed'[v]
      /\ missed'[v] \in Nat
    BY DEF Counted
<1>6. MinMissedCycles \in Nat /\ Cardinality(Unseen(v)') \in Nat
    <2>1. Unseen(v)' \in SUBSET Time
        BY <1>1 DEF TypeOK, Unseen
    <2> QED
        BY <2>1, TimesAreFinite, DeviceAssumption DEF DeviceAssumption
<1> QED
    BY <1>4, <1>5, <1>6 DEF Smaller

\* A stop is closed as absent only when its vehicle was missing from the last
\* MinMissedCycles payloads that showed anything (absence_window).
THEOREM AbsentOnlyIfMissedHolds == HistorySpec => AbsentOnlyIfMissed
<1> DEFINE Closing == \A v \in Vehicles :
               (\E stop \in device_history'[v] :
                    /\ stop.reason = "absent"
                    /\ stop \notin device_history[v])
               => reordered' \/ missed'[v] >= MinMissedCycles
<1>1. OpenStopInv /\ Instants /\ Counted /\ Counted' /\ [Next /\ History]_allVars
          => [Closing]_allVars
    BY ClosedIfMissed
<1>2. AbsentOnlyIfMissed <=> [][Closing]_allVars
    BY DEF AbsentOnlyIfMissed
<1> HIDE DEF Closing
<1> QED
    BY <1>1, <1>2, CountedAlways, PTL DEF HistorySpec

-----------------------------------------------------------------------------
(***************************************************************************)
(* A parked vehicle that is not long out of the feed has an open stop, but  *)
(* for the two races that the property names.  A vehicle whose stop was     *)
(* closed fairly must not get lost in what the cycles in flight have read:  *)
(* one that waits must find it long gone, so that it asks for the stop, and *)
(* one that has begun must have found it without (Covered).                 *)
(***************************************************************************)

Covered ==
    ~reordered =>
        \A v \in Vehicles : Parked(v) /\ OpenStops(v) = {} /\ ~raced[v] =>
            /\ OutOfFeed(v)
            /\ \A c \in CycleLines : v \in DOMAIN cycle[c].seen =>
                   /\ cycle[c].pc = "fetched" =>
                          LongGone(device_state[v], cycle[c].snapshot_time)
                   /\ cycle[c].pc = "updating" /\ v \in cycle[c].prior =>
                          v \in cycle[c].without_open_stop

\* After a cycle saw it, a parked vehicle has an open stop, if it had one or the probe
\* has found it without.
LEMMA SeenHasStop ==
    ASSUME NEW stops \in SUBSET Stop, NEW row \in DeviceRow, NEW seen \in Sighting,
           NEW t \in Time, NEW without,
           UpdatedRow(row, seen, t).rental_started_at = Never,
           row.known /\ row.rental_started_at = Never =>
               without \/ \E stop \in stops : stop.departed = Never
    PROVE  \E stop \in UpdatedStops(stops, row, seen, t, without) : stop.departed = Never
<1> DEFINE branch == Branch(row, seen)
           updated == UpdatedStops(stops, row, seen, t, without)
           Open(some) == \E stop \in some : stop.departed = Never
<1>1. /\ branch \in {"new", "rental_start", "rental_hold", "in_place_release",
                     "moved", "failed_start", "stationary"}
      /\ branch = "new" <=> ~row.known
    BY Branches
<1>2. \A some, n : Open(some \cup {NewStop(seen, t, n)})
    <2> SUFFICES ASSUME NEW some, NEW n PROVE Open(some \cup {NewStop(seen, t, n)})
        OBVIOUS
    <2>1. NewStop(seen, t, n).departed = Never
        BY DEF NewStop
    <2> QED
        BY <2>1
<1>3. CASE branch \in {"new", "moved"}
    <2>1. \E some, n : updated = some \cup {NewStop(seen, t, n)}
        BY <1>3 DEF UpdatedStops
    <2> HIDE DEF updated, Open
    <2> QED
        BY <1>2, <2>1 DEF Open, updated
<1>4. CASE branch \in {"rental_start", "rental_hold"}
    <2>1. t # Never
        BY TimesAreNatural
    <2>2. branch = "rental_hold" => row.rental_started_at # Never
        BY <1>1 DEF Branch, Released, InPlace, Relocated
    <2> QED
        BY <1>4, <2>1, <2>2, RowAfter
<1>5. CASE branch = "in_place_release"
    <2> DEFINE failed == Count(ReleaseFailed(row, seen))
               reopened == Reopenable(stops, row, t)
               again(stop) == [stop EXCEPT !.departed = Never, !.reason = "none",
                                           !.failed_starts = @ + failed]
    <2>1. updated = Resumed(stops, row, seen, t)
        BY <1>5 DEF UpdatedStops
    <2>2. CASE reopened = {}
        <3>1. updated = stops \cup {NewStop(seen, t, failed)}
            BY <2>1, <2>2 DEF Resumed
        <3> HIDE DEF failed
        <3> QED
            BY <3>1, <1>2
    <2>3. CASE reopened # {}
        <3>1. updated = (stops \ reopened) \cup {again(stop) : stop \in reopened}
            BY <2>1, <2>3 DEF Resumed
        <3>2. PICK stop \in reopened : TRUE
            BY <2>3
        <3>3. again(stop).departed = Never
            BY DEF Reopenable, Stop
        <3>4. again(stop) \in updated
            BY <3>1, <3>2
        <3> QED
            BY <3>3, <3>4
    <2> QED
        BY <2>2, <2>3
<1>6. CASE branch \in {"failed_start", "stationary"}
    <2>1. row.known /\ row.rental_started_at = Never
        BY <1>1, <1>6 DEF Branch, Relocated, Released
    <2> DEFINE before == IF branch = "failed_start" THEN BumpOpen(stops) ELSE stops
               more == IF branch = "failed_start" THEN 1 ELSE 0
    <2>2. updated = Reappeared(before, seen, t, more, without)
        BY <1>6 DEF UpdatedStops
    <2>3. CASE without
        BY <2>2, <2>3, <1>2 DEF Reappeared
    <2>4. CASE ~without
        <3>1. PICK stop \in stops : stop.departed = Never
            BY <2>1, <2>4
        <3>2. [stop EXCEPT !.failed_starts = @ + 1].departed = Never
            BY <3>1 DEF Stop
        <3>3. \E same \in before : same.departed = Never
            <4>1. CASE branch = "failed_start"
                <5>1. [stop EXCEPT !.failed_starts = @ + 1] \in BumpOpen(stops)
                    BY <3>1 DEF BumpOpen
                <5> QED
                    BY <3>2, <4>1, <5>1
            <4>2. CASE branch = "stationary"
                BY <3>1, <4>2
            <4> QED
                BY <1>6, <4>1, <4>2
        <3> QED
            BY <2>2, <2>4, <3>3 DEF Reappeared
    <2> QED
        BY <2>3, <2>4
<1> QED
    BY <1>1, <1>3, <1>4, <1>5, <1>6

\* Whom a sweep closes: long gone, and locked by no other cycle.
LEMMA AbsentOutOfFeed ==
    ASSUME NEW rows \in [Vehicles -> DeviceRow], NEW observed \in SUBSET Time,
           NEW time \in Time, NEW bounded, NEW v \in Absent(rows, observed, time, bounded),
           now \in Time, time <= now
    PROVE  /\ rows[v].last_observed_at < now - AbsentStopAfter
           /\ rows[v].last_observed_at < time
<1>1. /\ v \in Vehicles /\ rows[v].last_observed_at < time - AbsentStopAfter
      /\ rows[v].last_observed_at < time
    BY AbsentSound
<1>2. rows[v].last_observed_at \in Int /\ time \in Nat /\ now \in Nat /\ AbsentStopAfter \in Nat
    BY <1>1, RowTimes, TimesAreNatural, DeviceAssumption DEF DeviceAssumption
<1> QED
    BY <1>1, <1>2

\* The obligation of one step, for one vehicle.
CoveredAfter(v) ==
    Parked(v)' /\ OpenStops(v)' = {} /\ ~raced'[v] =>
        /\ OutOfFeed(v)'
        /\ \A c \in CycleLines : v \in DOMAIN cycle'[c].seen =>
               /\ cycle'[c].pc = "fetched" =>
                      LongGone(device_state'[v], cycle'[c].snapshot_time)
               /\ cycle'[c].pc = "updating" /\ v \in cycle'[c].prior =>
                      v \in cycle'[c].without_open_stop

\* What `raced` says when it stays false.
LEMMA NotRaced ==
    ASSUME History, NEW v \in Vehicles, OpenStops(v)' = {}, ~raced'[v]
    PROVE  /\ ~raced[v]
           /\ OpenStops(v) # {} =>
                  \A c \in CycleLines : v \in DOMAIN cycle[c].seen =>
                      ~(cycle[c].pc = "fetched" /\ cycle'[c].pc = "fetched")
BY DEF History, Waits

\* The commit of an update leaves a stop with every vehicle that stands, or a reason.
LEMMA CommitCovered ==
    ASSUME OpenStopInv, Instants, Covered, History, ~reordered, ~reordered',
           NEW c \in CycleLines, NEW plausible \in BOOLEAN, UpdateCommit(c, plausible),
           [Next]_vars, NEW v \in Vehicles
    PROVE  CoveredAfter(v)
<1> DEFINE t == cycle[c].snapshot_time
           seen == cycle[c].seen
<1> SUFFICES ASSUME Parked(v)', OpenStops(v)' = {}, ~raced'[v]
             PROVE  /\ OutOfFeed(v)'
                    /\ \A d \in CycleLines : v \in DOMAIN cycle'[d].seen =>
                           /\ cycle'[d].pc = "fetched" =>
                                  LongGone(device_state'[v], cycle'[d].snapshot_time)
                           /\ cycle'[d].pc = "updating" /\ v \in cycle'[d].prior =>
                                  v \in cycle'[d].without_open_stop
    BY DEF CoveredAfter
<1>1. TypeOK /\ TypeOK'
    BY StepType DEF OpenStopInv
<1>2. /\ ~raced[v]
      /\ OpenStops(v) # {} =>
             \A d \in CycleLines : v \in DOMAIN cycle[d].seen =>
                 ~(cycle[d].pc = "fetched" /\ cycle'[d].pc = "fetched")
    BY NotRaced
<1>3. /\ t \in Time /\ t <= now /\ now' = now /\ now \in Time
      /\ cycle[c].pc = "updating" /\ Conflicts(c) = {}
      /\ cycle'[c].pc = "idle"
      /\ \A d \in CycleLines \ {c} : cycle'[d] = cycle[d]
      /\ device_history'[v] =
             IF v \in SweptBy(c)
             THEN Closed(Written(c, v), device_state'[v].last_observed_at, "absent")
             ELSE Written(c, v)
    BY <1>1, CommitEffect DEF OpenStopInv, Clocks, TypeOK
<1>4. device_state' \in [Vehicles -> DeviceRow] /\ processed_cycles' \in SUBSET Time
    BY <1>1 DEF TypeOK
<1>5. v \in SweptBy(c) => /\ device_state'[v].last_observed_at < now - AbsentStopAfter
                          /\ device_state'[v].last_observed_at < t
                          /\ v \notin LockedByOthers(c)
    BY <1>3, <1>4, AbsentOutOfFeed DEF SweptBy
<1>6. v \notin DOMAIN seen
    <2> SUFFICES ASSUME v \in DOMAIN seen PROVE FALSE
        OBVIOUS
    <2>1. /\ seen[v] \in Sighting /\ device_state[v] \in DeviceRow
          /\ device_history[v] \in SUBSET Stop
          /\ device_state'[v] = UpdatedRow(device_state[v], seen[v], t)
          /\ Written(c, v) = UpdatedStops(device_history[v], device_state[v], seen[v], t,
                                          v \in cycle[c].without_open_stop)
        BY <1>1, CommitEffect DEF Written, TypeOK
    <2>2. device_state'[v].last_observed_at = t
        BY <1>3, <2>1, RowAfter
    <2>3. v \notin SweptBy(c)
        BY <1>3, <1>5, <2>2, TimesAreNatural
    <2>4. device_state[v].known /\ device_state[v].rental_started_at = Never =>
              \/ v \in cycle[c].without_open_stop
              \/ \E stop \in device_history[v] : stop.departed = Never
        <3>1. device_state[v].known => v \in cycle[c].prior
            BY <1>3 DEF Conflicts
        <3> QED
            BY <1>2, <1>3, <3>1 DEF Covered, Parked, OpenStops
    <2>5. UpdatedRow(device_state[v], seen[v], t).rental_started_at = Never
        BY <2>1 DEF Parked
    <2>6. \E stop \in Written(c, v) : stop.departed = Never
        <3> DEFINE without == v \in cycle[c].without_open_stop
        <3>1. \E stop \in UpdatedStops(device_history[v], device_state[v], seen[v], t, without) :
                  stop.departed = Never
            <4>1. device_state[v].known /\ device_state[v].rental_started_at = Never =>
                      without \/ \E stop \in device_history[v] : stop.departed = Never
                BY <2>4
            <4>2. t \in Time
                BY <1>3
            <4> HIDE DEF t, seen, without
            <4> QED
                BY <2>1, <2>5, <4>1, <4>2, SeenHasStop
        <3> QED
            BY <2>1, <3>1
    <2> QED
        BY <1>3, <2>3, <2>6 DEF OpenStops
<1>7. device_state'[v] = device_state[v] /\ Written(c, v) = device_history[v]
    BY <1>1, <1>6, CommitEffect DEF Written
<1>8. CASE OpenStops(v) = {}
    BY <1>2, <1>3, <1>7, <1>8 DEF Covered, Parked, OutOfFeed
<1>9. CASE OpenStops(v) # {}
    <2>1. v \in SweptBy(c)
        BY <1>3, <1>7, <1>9 DEF OpenStops
    <2>2. OutOfFeed(v)'
        BY <1>3, <1>5, <2>1 DEF OutOfFeed
    <2>3. ASSUME NEW d \in CycleLines, v \in DOMAIN cycle'[d].seen, d # c
          PROVE  cycle'[d].pc # "fetched" /\ ~(cycle'[d].pc = "updating" /\ v \in cycle'[d].prior)
        BY <1>2, <1>3, <1>5, <1>9, <2>1, <2>3 DEF LockedByOthers
    <2> QED
        BY <1>3, <2>2, <2>3
<1> QED
    BY <1>8, <1>9

\* The cleanup, which skips what any cycle has locked.
LEMMA CleanupCovered ==
    ASSUME OpenStopInv, Covered, History, ~reordered, CloseGhostStops, NEW v \in Vehicles
    PROVE  CoveredAfter(v)
<1> SUFFICES ASSUME Parked(v)', OpenStops(v)' = {}, ~raced'[v]
             PROVE  /\ OutOfFeed(v)'
                    /\ \A d \in CycleLines : v \in DOMAIN cycle'[d].seen =>
                           /\ cycle'[d].pc = "fetched" =>
                                  LongGone(device_state'[v], cycle'[d].snapshot_time)
                           /\ cycle'[d].pc = "updating" /\ v \in cycle'[d].prior =>
                                  v \in cycle'[d].without_open_stop
    BY DEF CoveredAfter
<1> DEFINE gone == Absent(device_state, processed_cycles, now, FALSE)
                       \ LockedByOthers("cleanup")
<1>1. /\ UNCHANGED <<now, device_state, cycle>>
      /\ device_history' = Swept(device_history, device_state, gone)
    BY DEF CloseGhostStops
<1>2. /\ ~raced[v]
      /\ OpenStops(v) # {} =>
             \A d \in CycleLines : v \in DOMAIN cycle[d].seen =>
                 ~(cycle[d].pc = "fetched" /\ cycle'[d].pc = "fetched")
    BY NotRaced
<1>3. CASE OpenStops(v) = {}
    BY <1>1, <1>2, <1>3 DEF Covered, Parked, OutOfFeed
<1>4. CASE OpenStops(v) # {}
    <2>1. v \in gone
        BY <1>1, <1>4 DEF Swept, OpenStops
    <2>2. /\ device_state \in [Vehicles -> DeviceRow] /\ processed_cycles \in SUBSET Time
          /\ now \in Time /\ now <= now
        BY TimesAreNatural DEF OpenStopInv, TypeOK
    <2>3. OutOfFeed(v)
        BY <2>1, <2>2, AbsentOutOfFeed DEF OutOfFeed
    <2>4. \A d \in CycleLines : ~(cycle[d].pc = "updating" /\ v \in cycle[d].prior)
        BY <2>1, DeviceAssumption DEF LockedByOthers, DeviceAssumption
    <2> QED
        BY <1>1, <1>2, <1>4, <2>3, <2>4 DEF OutOfFeed
<1> QED
    BY <1>3, <1>4

\* Whatever the step, a vehicle that stands has a stop, or a reason to have none.
LEMMA StepCovered ==
    /\ OpenStopInv /\ Instants /\ Timelines /\ Covered
    /\ [Next /\ History]_allVars
    => Covered'
<1> SUFFICES ASSUME OpenStopInv, Instants, Timelines, Covered, [Next /\ History]_allVars
             PROVE  Covered'
    OBVIOUS
<1>1. TypeOK /\ cycle \in [CycleLines -> CycleState] /\ now \in Nat
    BY TimesAreNatural DEF OpenStopInv, TypeOK
<1>2. CASE UNCHANGED allVars
    BY <1>2 DEF allVars, vars, Covered, Parked, OpenStops, OutOfFeed
<1>3. CASE Next /\ History
    <2> SUFFICES ASSUME ~reordered', NEW v \in Vehicles PROVE CoveredAfter(v)
        BY DEF Covered, CoveredAfter
    <2>1. History /\ [Next]_vars /\ ~reordered
        BY <1>3 DEF History
    <2> DEFINE Goal == CoveredAfter(v)
    <2> HIDE DEF Goal
    <2>2. ASSUME NEW c \in CycleLines, NEW payload \in Payloads, CycleFetch(c, payload)
          PROVE  Goal
        <3>1. /\ UNCHANGED <<now, device_state, device_history>>
              /\ cycle'[c].pc = "fetched" /\ cycle'[c].snapshot_time = now
              /\ \A d \in CycleLines \ {c} : cycle'[d] = cycle[d]
            BY <1>1, <2>2 DEF CycleFetch, tables, CycleState
        <3>2. device_state[v].known => device_state[v].last_observed_at # Never
            BY <2>1 DEF Timelines, Timeline
        <3> QED
            BY <2>1, <3>1, <3>2, NotRaced
            DEF Goal, CoveredAfter, Covered, Parked, OpenStops, OutOfFeed, LongGone
    <2>3. ASSUME NEW c \in CycleLines, UpdateBegin(c) PROVE Goal
        <3>1. /\ UNCHANGED <<now, device_state, device_history>>
              /\ cycle[c].pc = "fetched" /\ cycle'[c].pc = "updating"
              /\ cycle'[c].seen = cycle[c].seen
              /\ v \in DOMAIN cycle[c].seen /\ WithoutOpenStop(v, cycle[c].snapshot_time) =>
                     v \in cycle'[c].without_open_stop
              /\ \A d \in CycleLines \ {c} : cycle'[d] = cycle[d]
            BY <1>1, <2>3 DEF UpdateBegin, tables, CycleState
        <3> QED
            BY <2>1, <3>1, NotRaced
            DEF Goal, CoveredAfter, Covered, Parked, OpenStops, OutOfFeed, WithoutOpenStop
    <2>4. ASSUME NEW c \in CycleLines, NEW plausible \in BOOLEAN, UpdateCommit(c, plausible)
          PROVE  Goal
        BY <2>1, <2>4, CommitCovered DEF Goal
    <2>5. ASSUME NEW c \in CycleLines, UpdateConflict(c) \/ UpdateFails(c) PROVE Goal
        <3>1. /\ UNCHANGED <<now, device_state, device_history>>
              /\ cycle'[c].pc = "idle"
              /\ \A d \in CycleLines \ {c} : cycle'[d] = cycle[d]
            BY <1>1, <2>5 DEF UpdateConflict, UpdateFails, IdleSince, tables
        <3> QED
            BY <2>1, <3>1, NotRaced
            DEF Goal, CoveredAfter, Covered, Parked, OpenStops, OutOfFeed
    <2>6. ASSUME CloseGhostStops PROVE Goal
        BY <2>1, <2>6, CleanupCovered DEF Goal
    <2>7. ASSUME Tick PROVE Goal
        <3>1. UNCHANGED <<device_state, device_history, cycle>> /\ now' = now + 1
            BY <2>7 DEF Tick, tables
        <3>2. /\ device_state[v].last_observed_at \in Int /\ AbsentStopAfter \in Nat
              /\ device_state[v] \in DeviceRow
            BY <1>1, RowTimes, DeviceAssumption DEF TypeOK, DeviceAssumption
        <3>3. OutOfFeed(v) => OutOfFeed(v)'
            BY <1>1, <3>1, <3>2 DEF OutOfFeed
        <3> QED
            BY <2>1, <3>1, <3>3, NotRaced DEF Goal, CoveredAfter, Covered, Parked, OpenStops
    <2>8. Goal
        BY <1>3, <2>2, <2>3, <2>4, <2>5, <2>6, <2>7 DEF Next
    <2> QED
        BY <2>8 DEF Goal
<1> QED
    BY <1>2, <1>3

\* A parked vehicle that is not long out of the feed has an open stop, but for the race of
\* a sweep with a cycle that waits, and of cycles that commit out of order.
THEOREM ParkedHasStopUnlessRacedHolds == HistorySpec => []ParkedHasStopUnlessRaced
<1>1. HistoryInit => Covered
    BY DEF HistoryInit, Init, NoRow, Covered, Parked
<1>2. Covered => ParkedHasStopUnlessRaced
    BY DEF Covered, ParkedHasStopUnlessRaced
<1> QED
    BY <1>1, <1>2, StepCovered, TimelinesAlways, PTL DEF HistorySpec

-----------------------------------------------------------------------------
(***************************************************************************)
(* The window of a cycle's sweep loses no vehicle.  What the rule without a *)
(* window selects at an observed cycle and the sweep leaves out, because it *)
(* was last seen before the window, the rule has already selected at the    *)
(* observed cycle before (WindowIsEnough): no stop of it was open then.     *)
(* A sweep also leaves out the rows that another update has locked, which   *)
(* no later sweep may make up for (it has moved on by one cycle), so this   *)
(* is about updates that do not run at the same time.                       *)
(***************************************************************************)

OneUpdating ==
    \A c, d \in CycleLines :
        cycle[c].pc = "updating" /\ cycle[d].pc = "updating" => c = d

\* The n-th most recent of a set with a new latest one is the n-th or a later one of
\* the rest.
LEMMA RecentShifts ==
    ASSUME NEW times \in SUBSET Time, NEW t \in Time, \A u \in times : u < t,
           NEW n \in Nat \ {0}, NEW k \in Nat \ {0}, n > k, Cardinality(times) >= k,
           Cardinality(times \cup {t}) >= n
    PROVE  /\ Recent(times \cup {t}, n) \in times
           /\ Recent(times \cup {t}, n) <= Recent(times, k)
<1> DEFINE all == times \cup {t}
           x == Recent(all, n)
           y == Recent(times, k)
           sinceX == {u \in all : u >= x}
           sinceY == {u \in times : u >= y}
<1>1. /\ all \in SUBSET Time /\ times \subseteq Nat /\ t \in Nat
      /\ \A u \in all : u \in Nat /\ u <= t
    BY TimesAreNatural
<1>2. x \in all /\ Cardinality(sinceX) = n
    <2> HIDE DEF all
    <2> QED
        BY <1>1, RecentSound DEF all
<1>3. y \in times /\ Cardinality(sinceY) = k
    BY RecentSound
<1>4. x # t
    <2> SUFFICES ASSUME x = t PROVE FALSE
        OBVIOUS
    <2>1. sinceX = {t}
        <3>1. \A u \in all : u >= t <=> u = t
            BY <1>1
        <3> QED
            BY <3>1
    <2>2. Cardinality({t}) = 1
        BY FS_Singleton
    <2> HIDE DEF sinceX
    <2> QED
        BY <1>2, <2>1, <2>2
<1>5. sinceY \in SUBSET Time /\ sinceX \in SUBSET Time
    BY <1>1
<1>6. IsFiniteSet(sinceY \cup {t}) /\ Cardinality(sinceY \cup {t}) = k + 1
    <2>1. IsFiniteSet(sinceY) /\ t \notin sinceY
        <3>1. t \notin times
            BY <1>1
        <3>2. IsFiniteSet(sinceY)
            <4> HIDE DEF sinceY
            <4> QED
                BY <1>5, TimesAreFinite
        <3> QED
            BY <3>1, <3>2
    <2> HIDE DEF sinceY
    <2> QED
        BY <1>3, <2>1, FS_AddElement
<1>7. x <= y
    <2>0. x \in Nat /\ y \in Nat
        <3> HIDE DEF x, y
        <3> QED
            BY <1>1, <1>2, <1>3
    <2> HIDE DEF x, y
    <2> SUFFICES ASSUME x > y PROVE FALSE
        BY <2>0
    <2>1. ASSUME NEW u \in sinceX PROVE u \in (sinceY \cup {t}) \ {y}
        <3>1. u \in all /\ u \in Nat /\ u >= x
            BY <1>1
        <3>2. u > y
            BY <2>0, <3>1
        <3> QED
            BY <2>0, <3>1, <3>2
    <2>2. y \in sinceY \cup {t}
        BY <2>0, <1>3
    <2> HIDE DEF sinceX, sinceY
    <2>5. sinceX \in SUBSET ((sinceY \cup {t}) \ {y})
        BY <2>1
    <2>3. /\ IsFiniteSet((sinceY \cup {t}) \ {y})
          /\ Cardinality((sinceY \cup {t}) \ {y}) = k
        <3> DEFINE both == sinceY \cup {t}
        <3>1. IsFiniteSet(both) /\ Cardinality(both) = k + 1 /\ y \in both
            BY <1>6, <2>2
        <3> HIDE DEF both
        <3>2. IsFiniteSet(both \ {y}) /\ Cardinality(both \ {y}) = Cardinality(both) - 1
            BY <3>1, FS_RemoveElement
        <3>3. Cardinality(both \ {y}) = k
            BY <3>1, <3>2
        <3> QED
            BY <3>2, <3>3 DEF both
    <2>4. Cardinality(sinceX) <= k
        BY <2>3, <2>5, FS_Subset
    <2> QED
        BY <1>2, <2>4
<1> QED
    BY <1>2, <1>4, <1>7

\* What the sweep at t leaves out was absent already at the observed cycle before t.
LEMMA WindowIsEnough ==
    ASSUME NEW rows \in [Vehicles -> DeviceRow], NEW observed \in SUBSET Time, NEW t \in Time,
           \A u \in observed : u < t,
           NEW v \in Absent(rows, observed \cup {t}, t, FALSE),
           v \notin Absent(rows, observed \cup {t}, t, TRUE)
    PROVE  \E latest \in observed :
               /\ \A u \in observed : u <= latest
               /\ v \in Absent(rows, observed, latest, FALSE)
<1> DEFINE all == observed \cup {t}
           k == MinMissedCycles
           m == SweepWindow
           seen_at == rows[v].last_observed_at
           after == Recent(all, m + 1)
           oldest == Recent(all, m + k)
<1>1. /\ k \in Nat \ {0} /\ m \in Nat \ {0} /\ AbsentStopAfter \in Nat
      /\ t \in Nat /\ observed \subseteq Nat /\ all \in SUBSET Time
    BY TimesAreNatural, DeviceAssumption DEF DeviceAssumption
<1>2. {u \in all : u <= t} = all
    <2>1. \A u \in all : u <= t
        BY <1>1
    <2> QED
        BY <2>1
<1>3. v \in Vehicles /\ rows[v].known /\ seen_at \in Int
    BY RowTimes, AbsentSound, <1>1
<1>4. Cardinality(all) >= k + m /\ seen_at < Smaller(after - AbsentStopAfter, oldest)
    <2> DEFINE cutoff == Smaller(t - AbsentStopAfter, Recent(all, k))
               since == IF Cardinality(all) >= k + m
                        THEN Smaller(after - AbsentStopAfter, oldest) ELSE Never
    <2>1. Absent(rows, all, t, FALSE) =
              IF Cardinality(all) < k THEN {}
              ELSE {w \in Vehicles : /\ rows[w].known
                                     /\ rows[w].last_observed_at < cutoff
                                     /\ rows[w].last_observed_at >= Never}
        BY <1>2 DEF Absent
    <2>2. Absent(rows, all, t, TRUE) =
              IF Cardinality(all) < k THEN {}
              ELSE {w \in Vehicles : /\ rows[w].known
                                     /\ rows[w].last_observed_at < cutoff
                                     /\ rows[w].last_observed_at >= since}
        BY <1>2 DEF Absent
    <2> HIDE DEF cutoff, after, oldest
    <2>3. /\ ~(Cardinality(all) < k)
          /\ seen_at >= Never /\ ~(seen_at >= since)
        BY <1>3, <2>1, <2>2
    <2>4. Cardinality(all) >= k + m
        BY <2>3
    <2>5. ~(seen_at >= Smaller(after - AbsentStopAfter, oldest))
        BY <2>3, <2>4
    <2>6. after \in Int /\ oldest \in Int
        <3>1. Cardinality(all) \in Nat
            BY <1>1, TimesAreFinite
        <3> HIDE DEF all
        <3>2. ASSUME Cardinality(all) >= k + m
              PROVE  Recent(all, m + 1) \in all /\ Recent(all, m + k) \in all
            <4>1. /\ Cardinality(all) >= m + 1 /\ Cardinality(all) >= m + k
                  /\ m + 1 \in Nat \ {0} /\ m + k \in Nat \ {0}
                BY <1>1, <3>1, <3>2
            <4> QED
                BY <1>1, <4>1, RecentSound
        <3>3. \A u \in all : u \in Int
            BY <1>1, TimesAreNatural
        <3>4. Recent(all, m + 1) \in Int /\ Recent(all, m + k) \in Int
            BY <2>4, <3>2, <3>3
        <3> QED
            BY <3>4 DEF after, oldest
    <2> QED
        BY <1>1, <1>3, <2>4, <2>5, <2>6 DEF Smaller
<1>5. /\ IsFiniteSet(observed) /\ Cardinality(observed) \in Nat
      /\ Cardinality(all) = Cardinality(observed) + 1
    <2>1. IsFiniteSet(observed) /\ Cardinality(observed) \in Nat
        BY TimesAreFinite
    <2>2. t \notin observed
        BY <1>1
    <2> QED
        BY <2>1, <2>2, FS_AddElement
<1>6. Cardinality(observed) >= k /\ observed # {}
    <2>1. Cardinality(observed) >= k
        <3> HIDE DEF all
        <3> QED
            BY <1>1, <1>4, <1>5
    <2> QED
        BY <1>1, <2>1, FS_EmptySet
<1>7. PICK latest \in observed : \A u \in observed : u <= latest
    BY <1>6, LatestTime
<1>8. after \in observed /\ oldest \in observed /\ oldest <= Recent(observed, k)
    <2>1. /\ m + 1 \in Nat \ {0} /\ m + k \in Nat \ {0} /\ m + 1 > 1 /\ m + k > k
          /\ 1 \in Nat \ {0}
          /\ Cardinality(observed) >= 1
        BY <1>1, <1>5, <1>6
    <2>2. Cardinality(all) >= m + 1 /\ Cardinality(all) >= m + k
        <3> HIDE DEF all
        <3> QED
            BY <1>1, <1>4, <1>5
    <2>3. after \in observed
        BY <2>1, <2>2, RecentShifts
    <2>4. oldest \in observed /\ oldest <= Recent(observed, k)
        BY <1>1, <1>6, <2>1, <2>2, RecentShifts
    <2> QED
        BY <2>3, <2>4
<1>9. Recent(observed, k) \in observed
    BY <1>1, <1>6, RecentSound
<1> HIDE DEF after, oldest, all
<1>10. seen_at < Smaller(latest - AbsentStopAfter, Recent(observed, k))
    <2>1. after \in Nat /\ oldest \in Nat /\ latest \in Nat /\ Recent(observed, k) \in Nat
          /\ after <= latest
        BY <1>1, <1>7, <1>8, <1>9
    <2> QED
        BY <1>1, <1>3, <1>4, <1>8, <2>1 DEF Smaller
<1>11. {u \in observed : u <= latest} = observed
    BY <1>7
<1>12. v \in Absent(rows, observed, latest, FALSE)
    <2>1. seen_at >= Never
        BY <1>3, RowTimes, TimesAreNatural
    <2>2. ~(Cardinality(observed) < k)
        BY <1>1, <1>5, <1>6
    <2> QED
        BY <1>3, <1>10, <1>11, <2>1, <2>2 DEF Absent
<1> QED
    BY <1>7, <1>12

\* A vehicle that is absent as of the latest observed cycle has no open stop.
SweptSince(v) ==
    \A t \in processed_cycles :
        /\ \A u \in processed_cycles : u <= t
        /\ v \in Absent(device_state, processed_cycles, t, FALSE)
        => OpenStops(v) = {}

\* The commit of an update sweeps what is absent as of its own cycle.
LEMMA CommitSweeps ==
    ASSUME OpenStopInv, Instants, Counted, OneUpdating, [Next]_vars, History,
           ~reordered, ~reordered', NEW c \in CycleLines, NEW plausible \in BOOLEAN,
           UpdateCommit(c, plausible), NEW v \in Vehicles, SweptSince(v)
    PROVE  SweptSince(v)'
<1> DEFINE t == cycle[c].snapshot_time
           seen == cycle[c].seen
<1> SUFFICES ASSUME NEW latest \in processed_cycles',
                    \A u \in processed_cycles' : u <= latest,
                    v \in Absent(device_state', processed_cycles', latest, FALSE)
             PROVE  OpenStops(v)' = {}
    BY DEF SweptSince
<1>1. TypeOK /\ TypeOK'
    BY StepType DEF OpenStopInv
<1>2. /\ t \in Time /\ t \in Nat
      /\ processed_cycles' = processed_cycles \cup
             (IF CountsAsObservation(seen, plausible) THEN {t} ELSE {})
      /\ Written(c, v) \in SUBSET Stop
      /\ device_history'[v] =
             IF v \in SweptBy(c)
             THEN Closed(Written(c, v), device_state'[v].last_observed_at, "absent")
             ELSE Written(c, v)
      /\ cycle[c].pc = "updating"
    BY <1>1, CommitEffect, TimesAreNatural
<1>3. \A u \in processed_cycles : u < t
    BY CommitCounted
<1>4. /\ device_state' \in [Vehicles -> DeviceRow] /\ device_state \in [Vehicles -> DeviceRow]
      /\ processed_cycles' \in SUBSET Time /\ processed_cycles \in SUBSET Time
    BY <1>1 DEF TypeOK
<1>5. device_state'[v].last_observed_at < latest /\ latest \in Time /\ latest \in Nat
      /\ device_state'[v].last_observed_at \in Int /\ latest <= t
    <2>1. latest \in Time
        BY <1>4
    <2>2. device_state'[v].last_observed_at < latest
        BY <1>4, <2>1, AbsentSound
    <2>3. latest <= t
        BY <1>2, <1>3, <2>1, TimesAreNatural
    <2> QED
        BY <1>4, <2>1, <2>2, <2>3, RowTimes, TimesAreNatural
<1>6. v \notin DOMAIN seen
    <2> SUFFICES ASSUME v \in DOMAIN seen PROVE FALSE
        OBVIOUS
    <2>1. seen[v] \in Sighting /\ device_state'[v] = UpdatedRow(device_state[v], seen[v], t)
        BY <1>1, CommitEffect
    <2>2. device_state'[v].last_observed_at = t
        BY <1>2, <1>4, <2>1, RowAfter
    <2> QED
        BY <1>2, <1>5, <2>2
<1>7. device_state'[v] = device_state[v] /\ Written(c, v) = device_history[v]
    BY <1>1, <1>6, CommitEffect DEF Written
<1>8. ASSUME NEW u \in processed_cycles, NEW time \in Time, NEW observed,
             v \in Absent(device_state', observed, time, FALSE)
      PROVE  v \in Absent(device_state, observed, time, FALSE)
    BY <1>7, <1>8 DEF Absent
<1>9. OpenStops(v) = {} => OpenStops(v)' = {}
    <2>1. ASSUME v \in SweptBy(c) PROVE OpenStops(v)' = {}
        <3>1. device_state'[v].last_observed_at \in Time \cup {Never}
            BY <1>4 DEF DeviceRow
        <3> QED
            BY <1>2, <2>1, <3>1, AbsentClosing DEF AllClosed, OpenStops
    <2>2. ASSUME v \notin SweptBy(c), OpenStops(v) = {} PROVE OpenStops(v)' = {}
        BY <1>2, <1>7, <2>2 DEF OpenStops
    <2> QED
        BY <2>1, <2>2
<1>10. CASE ~CountsAsObservation(seen, plausible)
    <2>1. processed_cycles' = processed_cycles
        BY <1>2, <1>10
    <2>2. v \in Absent(device_state, processed_cycles, latest, FALSE)
        BY <1>5, <1>8, <2>1
    <2> QED
        BY <1>9, <2>1, <2>2 DEF SweptSince
<1>11. CASE CountsAsObservation(seen, plausible)
    <2>1. processed_cycles' = processed_cycles \cup {t}
        BY <1>2, <1>11
    <2>2. latest = t
        BY <1>2, <1>5, <2>1
    <2>3. CASE v \in Absent(device_state', processed_cycles', t, TRUE)
        <3>1. v \notin LockedByOthers(c)
            BY <1>2 DEF OneUpdating, LockedByOthers
        <3>2. v \in SweptBy(c)
            BY <2>3, <3>1 DEF SweptBy
        <3>3. device_state'[v].last_observed_at \in Time \cup {Never}
            BY <1>4 DEF DeviceRow
        <3> QED
            BY <1>2, <3>2, <3>3, AbsentClosing DEF AllClosed, OpenStops
    <2>4. CASE v \notin Absent(device_state', processed_cycles', t, TRUE)
        <3>1. PICK before \in processed_cycles :
                  /\ \A u \in processed_cycles : u <= before
                  /\ v \in Absent(device_state', processed_cycles, before, FALSE)
            <4> HIDE DEF t
            <4> QED
                BY <1>2, <1>3, <1>4, <2>1, <2>2, <2>4, WindowIsEnough
        <3>2. v \in Absent(device_state, processed_cycles, before, FALSE)
            BY <1>4, <1>8, <3>1
        <3> QED
            BY <1>9, <3>1, <3>2 DEF SweptSince
    <2> QED
        BY <2>3, <2>4
<1> QED
    BY <1>10, <1>11

\* Whatever the step, nothing absent as of the latest cycle keeps an open stop.
LEMMA StepSweeps ==
    /\ OpenStopInv /\ Instants /\ Counted /\ OneUpdating
    /\ [Next /\ History]_allVars /\ SweepComplete
    => SweepComplete'
<1> SUFFICES ASSUME OpenStopInv, Instants, Counted, OneUpdating,
                    [Next /\ History]_allVars, SweepComplete
             PROVE  SweepComplete'
    OBVIOUS
<1>1. TypeOK /\ TypeOK' /\ [Next]_vars
    <2>1. [Next]_vars
        BY DEF allVars
    <2> QED
        BY <2>1, StepType DEF OpenStopInv
<1>2. CASE UNCHANGED allVars
    BY <1>2 DEF allVars, vars, SweepComplete, OpenStops, Absent
<1>3. CASE Next /\ History
    <2>1. ~reordered' => ~reordered
        BY <1>3 DEF History
    <2>2. ASSUME ~reordered', NEW v \in Vehicles PROVE SweptSince(v)
        BY <2>1, <2>2 DEF SweepComplete, SweptSince
    <2>3. ASSUME ~reordered', NEW v \in Vehicles PROVE SweptSince(v)'
        <3>1. ASSUME NEW c \in CycleLines, NEW plausible \in BOOLEAN, UpdateCommit(c, plausible)
              PROVE  SweptSince(v)'
            BY <1>1, <1>3, <2>1, <2>2, <2>3, <3>1, CommitSweeps
        <3>2. ASSUME ~ \E c \in CycleLines, plausible \in BOOLEAN : UpdateCommit(c, plausible)
              PROVE  SweptSince(v)'
            <4>1. /\ UNCHANGED <<device_state, processed_cycles>>
                  /\ UNCHANGED device_history \/ CloseGhostStops
                BY <1>1, <3>2, QuietStep
            <4>2. \/ device_history'[v] = device_history[v]
                  \/ device_history'[v] =
                         Closed(device_history[v], device_state[v].last_observed_at, "absent")
                BY <4>1 DEF CloseGhostStops, Swept
            <4>3. /\ device_history[v] \in SUBSET Stop
                  /\ device_state[v].last_observed_at \in Time \cup {Never}
                BY <1>1 DEF TypeOK, DeviceRow
            <4>4. OpenStops(v) = {} => OpenStops(v)' = {}
                BY <4>2, <4>3, AbsentClosing DEF AllClosed, OpenStops
            <4> QED
                BY <2>2, <2>3, <4>1, <4>4 DEF SweptSince, Absent
        <3> QED
            BY <3>1, <3>2
    <2>4. ASSUME ~reordered', NEW t \in processed_cycles',
                 \A u \in processed_cycles' : u <= t,
                 NEW v \in Absent(device_state', processed_cycles', t, FALSE)
          PROVE  OpenStops(v)' = {}
        <3>1. v \in Vehicles
            BY DEF Absent
        <3> QED
            BY <2>3, <2>4, <3>1 DEF SweptSince
    <2> QED
        BY <2>4 DEF SweepComplete
<1> QED
    BY <1>2, <1>3

\* The window of a cycle's sweep loses no vehicle, as long as no two updates run at the
\* same time: what the rule without a window selects has no open stop left.
THEOREM SweepCompleteHolds == HistorySpec /\ []OneUpdating => []SweepComplete
<1>1. HistoryInit => SweepComplete
    BY DEF HistoryInit, Init, SweepComplete
<1> QED
    BY <1>1, StepSweeps, CountedAlways, PTL DEF HistorySpec
=============================================================================
