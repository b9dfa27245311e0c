---------------------------- MODULE OffFeedRides ----------------------------
(***************************************************************************)
(* Rides on vehicles that are not in the feed (src/api_rides.py) and the    *)
(* operator's caps on them (src/ride_limits.py).  A fix is checked against  *)
(* the track read by a plain SELECT; its row is inserted, the whole track   *)
(* measured and the ride's row rewritten later in the same transaction, so  *)
(* another append or the end of the ride may commit in between.  The ride's *)
(* row is key-share locked by the insert (its foreign key), which an end or *)
(* a delete waits for.  Positions are points of a line.                     *)
(***************************************************************************)
EXTENDS Naturals, FiniteSets, SequencesExt

CONSTANTS
    OffRides,      \* ids of the account's rows of rides
    Appends,       \* add_waypoint requests that may be in flight
    FixTimes,      \* waypoint_at of the fixes
    Places,        \* positions, a set of naturals
    LegCap,        \* MAX_LEG_METERS
    DistanceCap,   \* MAX_RIDE_DISTANCE_METERS
    MaxFixes       \* bound: rows of off_feed_ride_waypoints per ride

VARIABLES
    offRide,       \* rides
    track,         \* off_feed_ride_waypoints, in waypoint_at order
    appending      \* requests between their reads and their commit

offRideVars == <<offRide, track, appending>>

Fix      == [at : FixTimes, pos : Places]
Distance == [m : 0..DistanceCap, source : {"", "client", "waypoints", "waypoints_partial",
             "straight_line"}, clamped : BOOLEAN]
NoDistance == [m |-> 0, source |-> "", clamped |-> FALSE]

\* overtaken: the distance was written by an append that something else
\* committed in front of (kept for the properties, not a column).
NoRide  == [status |-> "none", start |-> 0, end |-> 0, distance |-> NoDistance,
            overtaken |-> FALSE]
Idle    == [stage |-> "idle"]

OffRidesInit ==
    /\ offRide = [r \in OffRides |-> NoRide]
    /\ track = [r \in OffRides |-> <<>>]
    /\ appending = [a \in Appends |-> Idle]

OffRidesTypeOK ==
    /\ \A r \in OffRides :
          /\ offRide[r].status \in {"none", "active", "completed", "expired"}
          /\ offRide[r].distance \in Distance
          /\ track[r] \in Seq(Fix) /\ Len(track[r]) <= MaxFixes
    /\ \A a \in Appends : appending[a].stage \in {"idle", "checked", "measured"}

-----------------------------------------------------------------------------
(* src/ride_limits.py *)

Leg(p, q)  == IF p > q THEN p - q ELSE q - p
Plausible(p, q) == Leg(p, q) <= LegCap

Steps(path) == 1..(Len(path) - 1)
Long(path)  == {i \in Steps(path) : ~Plausible(path[i], path[i + 1])}
\* How far the path has gone at its n-th position, by the legs that count.
Gone(path, legs) ==
    LET gone[n \in 1..Len(path)] ==
            IF n = 1 THEN 0
            ELSE gone[n - 1] + IF n - 1 \in legs THEN Leg(path[n - 1], path[n]) ELSE 0
    IN gone
Length(path, legs) == Gone(path, legs)[Len(path)]

\* measure_path: a leg that is not believed adds nothing.
Measured(path, capLegs) == Length(path, IF capLegs THEN Steps(path) \ Long(path) ELSE Steps(path))

\* Mutation: the number is kept as it is.
Unclamped(m, source) == [m |-> m, source |-> source, clamped |-> m > DistanceCap]
Clamped(m, source) == [m |-> IF m <= DistanceCap THEN m ELSE DistanceCap,
                       source |-> source, clamped |-> m > DistanceCap]

Positions(fixes) == [i \in DOMAIN fixes |-> fixes[i].pos]
Path(start, fixes) == <<start>> \o Positions(fixes)

\* _rebuild_track: the ride so far.
SoFar(start, fixes) ==
    LET path == Path(start, fixes)
    IN Clamped(Measured(path, TRUE),
               IF Long(path) = {} THEN "waypoints" ELSE "waypoints_partial")

\* close_out_path: an end that the last fix cannot reach is left out, unless
\* the ride has no fix at all.
CloseOut(start, fixes, end) ==
    LET open == Path(start, fixes)
        unbelieved == fixes # <<>> /\ ~Plausible(Last(open), end)
        path == IF unbelieved THEN open ELSE Append(open, end)
        m == Measured(path, fixes # <<>>)
    IN Clamped(m, IF fixes = <<>> THEN "straight_line"
                  ELSE IF unbelieved \/ Long(path) # {} THEN "waypoints_partial" ELSE "waypoints")

-----------------------------------------------------------------------------
(* Start, expiry, deletion and the one-shot log *)

InFlight(stages) == {b \in Appends : appending[b].stage \in stages}

\* A new row has a new id: no request in flight names it.
Unused(r) == /\ offRide[r].status = "none"
             /\ \A b \in InFlight({"checked", "measured"}) : appending[b].ride # r

Active == {r \in OffRides : offRide[r].status = "active"}

\* start_ride; idx_rides_one_active_per_account answers 409.
StartRide(r, start) ==
    /\ Unused(r)
    /\ Active = {}
    /\ offRide' = [offRide EXCEPT ![r] = [NoRide EXCEPT !.status = "active", !.start = start]]
    /\ UNCHANGED <<track, appending>>

\* expire_stale_off_feed_rides: 24 hours after created_at; the distance stays.
ExpireRide(r) ==
    /\ offRide[r].status = "active"
    /\ offRide' = [offRide EXCEPT ![r].status = "expired"]
    /\ UNCHANGED <<track, appending>>

\* create_ride with _check_plausible: the client's own distance, believed up
\* to three times the route it drew or one leg more, and never above the cap.
LogRide(r, m, route) ==
    /\ Unused(r)
    /\ m <= DistanceCap
    /\ m = 0 \/ m <= route * 3 \/ m <= route + LegCap
    /\ offRide' = [offRide EXCEPT ![r] = [NoRide EXCEPT !.status = "completed",
                      !.distance = [NoDistance EXCEPT !.m = m, !.source = "client"]]]
    /\ UNCHANGED <<track, appending>>

Inserted(r) == {a \in Appends : appending[a].stage = "measured" /\ appending[a].ride = r}

\* delete_ride, delete_all_rides: the waypoints go with their ride.
DeleteRides(gone) ==
    /\ \A r \in gone : offRide[r].status # "none" /\ Inserted(r) = {}
    /\ offRide' = [r \in OffRides |-> IF r \in gone THEN NoRide ELSE offRide[r]]
    /\ track' = [r \in OffRides |-> IF r \in gone THEN <<>> ELSE track[r]]
    /\ UNCHANGED appending

-----------------------------------------------------------------------------
(* Appending a fix *)

\* _prospective_path: a late fix lands between those around it, and after
\* those of its own instant.
Slot(fixes, fix) == Cardinality({i \in DOMAIN fixes : fixes[i].at <= fix.at}) + 1
With(fixes, fix) == InsertAt(fixes, Slot(fixes, fix), fix)

\* _check_appendable: both new legs, then the whole ride.
Appendable(start, fixes, fix) ==
    LET path == Path(start, With(fixes, fix))
        at   == Slot(fixes, fix) + 1
    IN /\ \A i \in {at - 1, at} \cap Steps(path) : Plausible(path[i], path[i + 1])
       /\ Measured(path, TRUE) <= DistanceCap

CheckFix(a, r, fix) ==
    /\ appending[a].stage = "idle"
    /\ offRide[r].status = "active"
    /\ Len(track[r]) + Cardinality(InFlight({"checked", "measured"})) < MaxFixes
    /\ Appendable(offRide[r].start, track[r], fix)
    /\ appending' = [appending EXCEPT ![a] = [stage |-> "checked", ride |-> r, fix |-> fix,
                                              overtaken |-> FALSE]]
    /\ UNCHANGED <<offRide, track>>

\* INSERT, and _rebuild_track's reading of what is committed and its own row.
\* The ride it was checked against may have ended since; the row of a ride
\* deleted since cannot be inserted.
InsertFix(a) ==
    /\ appending[a].stage = "checked"
    /\ LET r == appending[a].ride IN
          IF offRide[r].status = "none"
          THEN appending' = [appending EXCEPT ![a] = Idle]
          ELSE appending' = [appending EXCEPT ![a] =
                  [stage |-> "measured", ride |-> r, fix |-> appending[a].fix,
                   overtaken |-> appending[a].overtaken,
                   distance |-> SoFar(offRide[r].start, With(track[r], appending[a].fix))]]
    /\ UNCHANGED <<offRide, track>>

\* The requests on ride r that read it before this commit; `late` are those
\* whose result it makes wrong.
Overtake(r, late) ==
    [b \in Appends |-> IF b \in late /\ appending[b].ride = r
                       THEN [appending[b] EXCEPT !.overtaken = TRUE] ELSE appending[b]]

\* UPDATE rides ... WHERE id, and COMMIT: no status is tested.
WriteFix(a) ==
    /\ appending[a].stage = "measured"
    /\ LET r == appending[a].ride IN
          /\ offRide' = [offRide EXCEPT ![r].distance = appending[a].distance,
                                        ![r].overtaken = appending[a].overtaken]
          /\ track' = [track EXCEPT ![r] = With(@, appending[a].fix)]
          /\ appending' = [Overtake(r, InFlight({"measured"}) \ {a}) EXCEPT ![a] = Idle]

\* end_ride, under FOR UPDATE.
EndRide(r, end) ==
    /\ offRide[r].status = "active"
    /\ Inserted(r) = {}
    /\ offRide' = [offRide EXCEPT ![r] =
          [@ EXCEPT !.status = "completed", !.end = end, !.overtaken = FALSE,
                    !.distance = CloseOut(offRide[r].start, track[r], end)]]
    /\ appending' = Overtake(r, InFlight({"checked"}))
    /\ UNCHANGED track

OffRidesNext ==
    \/ \E r \in OffRides, p \in Places : StartRide(r, p) \/ EndRide(r, p)
    \/ \E r \in OffRides : ExpireRide(r)
    \/ \E r \in OffRides, m \in 0..(DistanceCap + 1), route \in Places : LogRide(r, m, route)
    \/ \E gone \in (SUBSET OffRides) \ {{}} : DeleteRides(gone)
    \/ \E a \in Appends, r \in OffRides, t \in FixTimes, p \in Places :
          CheckFix(a, r, [at |-> t, pos |-> p])
    \/ \E a \in Appends : InsertFix(a) \/ WriteFix(a)

-----------------------------------------------------------------------------
(* Properties *)

\* The stored distance is that of the whole track as it stands, late fixes in
\* their place, and of a completed ride up to the end that was reported, less
\* the legs nobody believes; a number with a hole in it says so.  Except where
\* the last writer was overtaken.
WholePath(ride, fixes) ==
    Path(ride.start, fixes) \o (IF ride.status = "completed" THEN <<ride.end>> ELSE <<>>)

DistanceIsWholeRideUnlessOvertaken ==
    \A r \in OffRides :
       LET ride == offRide[r]
           path == WholePath(ride, track[r])
           m    == Measured(path, track[r] # <<>>)
       IN ride.status # "none" /\ ~ride.overtaken /\ ride.distance.source # "client" =>
             /\ ride.distance.m = (IF m > DistanceCap THEN DistanceCap ELSE m)
             /\ (ride.distance.source = "waypoints_partial")
                   = (track[r] # <<>> /\ Long(path) # {})
=============================================================================
