----------------------------- MODULE Servicing ------------------------------
(***************************************************************************)
(* The servicing log and the depot visits of one vehicle (src/servicing.py): *)
(* the one charge rule, stepped live by every ingest cycle and replayed over  *)
(* the archive and the hot buffer, and the geofence visits, opened and        *)
(* closed live and rebuilt from the stop history.                            *)
(***************************************************************************)
EXTENDS Integers, Sequences

CONSTANTS
    Seen,            \* the readings the feed shows
    MaxReadings,     \* bound: cycles
    LoggedFrom       \* the cycle the charge tracker was deployed in

VARIABLES
    readings,        \* the vehicle as the feed showed it, cycle by cycle
    tracker,         \* the charge state device_state carries for it
    serviceLog,      \* service_events
    keptUpTo,        \* the last cycle the archive holds
    replay,          \* the backfill: how far its listing and its replay reach
    disturbed,       \* whether a layer failed, or a cycle or the archive met a backfill
    visits,          \* depot_visits
    rebuild          \* the depot backfill: the stops it read

serviceVars == <<readings, tracker, serviceLog, keptUpTo, replay, disturbed, visits, rebuild>>

Charges == {"low", "half", "full"}
Reading == [charge : Charges, reserved : BOOLEAN, depot : BOOLEAN]
Tracked == [low : Charges \cup {"unknown"}, rental : BOOLEAN]
Event   == [at : Nat, source : {"ingest", "backfill"}]
Visit   == [entered : Nat, exited : Nat, source : {"ingest", "backfill"}]
StillInside == 0

Fresh == [low |-> "unknown", rental |-> FALSE]
NotReplaying == [on |-> FALSE, listed |-> 0, done |-> 0, state |-> Fresh]
NotRebuilding == [on |-> FALSE, found |-> {}]

ServicingInit ==
    /\ readings = <<>> /\ tracker = Fresh /\ keptUpTo = 0
    /\ serviceLog = {} /\ visits = {} /\ disturbed = FALSE
    /\ replay = NotReplaying /\ rebuild = NotRebuilding

ParkedReading(s, r) == ~r.reserved /\ ~s.rental

LowAfter(s, r) ==
    IF ParkedReading(s, r) /\ (r.charge = "full" \/ s.low = "unknown"
                                 \/ (r.charge = "low" /\ s.low # "low")
                                 \/ (r.charge = "half" /\ s.low = "full"))
      THEN r.charge ELSE s.low

\* One reading through the rule: the low since the last full, and whether it is a
\* servicing.  The settled range, which only the map shows, is left out.
ChargeStep(s, r) == [low |-> LowAfter(s, r), rental |-> r.reserved]
Serviced(s, r) == ParkedReading(s, r) /\ r.charge = "full" /\ s.low = "low"

\* ON CONFLICT (vehicle_identifier, observed_at) DO NOTHING.
Logged(at, source) ==
    IF \E e \in serviceLog : e.at = at THEN serviceLog
                                       ELSE serviceLog \cup {[at |-> at, source |-> source]}

-----------------------------------------------------------------------------

\* What a cycle does to the visits; this layer fails on its own.
VisitsAfter(at, r) ==
    LET open == {v \in visits : v.exited = StillInside}
    IN  IF r.depot
          THEN IF open = {} /\ \A v \in visits : v.entered # at
                 THEN {visits \cup {[entered |-> at, exited |-> StillInside, source |-> "ingest"]}}
                 ELSE {visits}
          ELSE IF open = {} THEN {visits}
                 \* open_by keeps one id a vehicle, whichever the query returned last
                 ELSE {(visits \ {v}) \cup {[v EXCEPT !.exited = at]} : v \in open}

\* An ingest cycle: the raw rows are written; then device_state and its servicing
\* events, one transaction; then the visits, another.  Either may fail.  The rentals
\* were in device_state before the charge was.
FeedCycle(r, applied, visited) ==
    LET at == Len(readings) + 1
        tracks == applied /\ at >= LoggedFrom
    IN  /\ at <= MaxReadings
        /\ readings' = Append(readings, r)
        /\ tracker' = IF tracks THEN ChargeStep(tracker, r)
                      ELSE IF applied THEN [tracker EXCEPT !.rental = r.reserved] ELSE tracker
        /\ serviceLog' = IF tracks /\ Serviced(tracker, r) THEN Logged(at, "ingest")
                                                           ELSE serviceLog
        /\ disturbed' = (disturbed \/ rebuild.on \/ ~applied \/ (at >= LoggedFrom /\ ~visited))
        /\ \/ visited /\ at >= LoggedFrom /\ visits' \in VisitsAfter(at, r)
           \/ (~visited \/ at < LoggedFrom) /\ UNCHANGED visits
        /\ UNCHANGED <<keptUpTo, replay, rebuild>>

\* The archive takes the buffer over; a replay that listed its files before has a gap.
ArchiveReadings ==
    /\ keptUpTo < Len(readings)
    /\ keptUpTo' = Len(readings)
    /\ disturbed' = (disturbed \/ replay.on)
    /\ UNCHANGED <<readings, tracker, serviceLog, replay, visits, rebuild>>

\* backfill_service_events: the files are listed once; every day is a commit.
StartReplay ==
    /\ ~replay.on
    /\ replay' = [NotReplaying EXCEPT !.on = TRUE, !.listed = keptUpTo]
    /\ UNCHANGED <<readings, tracker, serviceLog, keptUpTo, disturbed, visits, rebuild>>

ReplayDay ==
    LET at == replay.done + 1
        r  == readings[at]
    IN  /\ replay.on /\ replay.done < replay.listed
        /\ replay' = [replay EXCEPT !.done = at, !.state = ChargeStep(@, r)]
        /\ serviceLog' = IF Serviced(replay.state, r) THEN Logged(at, "backfill") ELSE serviceLog
        /\ UNCHANGED <<readings, tracker, keptUpTo, disturbed, visits, rebuild>>

StopReplay ==
    /\ replay.on
    /\ replay' = NotReplaying
    /\ UNCHANGED <<readings, tracker, serviceLog, keptUpTo, disturbed, visits, rebuild>>

\* The buffer's readings after the last archived one, up to the first event ingest
\* logged: what state they leave, and where they show a servicing.
Until ==
    LET live == {e.at : e \in {f \in serviceLog : f.source = "ingest"}}
    IN  IF live = {} THEN Len(readings) + 1 ELSE CHOOSE t \in live : \A u \in live : t <= u

Replayed(from, s) ==
    LET held == {t \in (from + 1)..Len(readings) : t > keptUpTo /\ t < Until}
        State[t \in from..Len(readings)] ==
            IF t = from THEN s
            ELSE IF t \in held THEN ChargeStep(State[t - 1], readings[t]) ELSE State[t - 1]
    IN  {t \in held : Serviced(State[t - 1], readings[t])}

\* _replay_raw_buffer: one transaction, and the end of the backfill.
ReplayBuffer ==
    /\ replay.on /\ replay.done = replay.listed
    /\ serviceLog' = serviceLog \cup
          {[at |-> t, source |-> "backfill"] : t \in
              {u \in Replayed(replay.done, replay.state) : \A e \in serviceLog : e.at # u}}
    /\ replay' = NotReplaying
    /\ UNCHANGED <<readings, tracker, keptUpTo, disturbed, visits, rebuild>>

\* The stays the stop history shows: consecutive stops inside, with no stop outside
\* between.  A stop is a parked reading; a reserved one is none.
Stays ==
    LET stops == {t \in 1..Len(readings) : ~readings[t].reserved}
        first == {t \in stops : readings[t].depot
                     /\ \A u \in stops : u < t => \/ ~readings[u].depot
                                                  \/ \E w \in stops : u < w /\ w < t /\ ~readings[w].depot}
        Left(t) == {u \in stops : u > t /\ ~readings[u].depot}
    IN  {[entered |-> t, source |-> "backfill",
          exited |-> IF Left(t) = {} THEN StillInside
                     ELSE CHOOSE u \in Left(t) : \A w \in Left(t) : u <= w] : t \in first}

\* backfill_depot_visits, run by hand after the deploy: the stops are read ...
StartRebuild ==
    /\ ~rebuild.on /\ Len(readings) >= LoggedFrom
    /\ rebuild' = [on |-> TRUE, found |-> Stays]
    /\ UNCHANGED <<readings, tracker, serviceLog, keptUpTo, replay, disturbed, visits>>

\* ... and each stay takes the place of the ingest visits that began inside it.
Superseded(v, s) ==
    /\ v.source = "ingest" /\ v.entered > s.entered
    /\ s.exited = StillInside \/ v.entered < s.exited

FinishRebuild ==
    LET kept == {v \in visits : ~\E s \in rebuild.found : Superseded(v, s)}
    IN  /\ rebuild.on
        /\ visits' = kept \cup {s \in rebuild.found : \A v \in kept : v.entered # s.entered}
        /\ rebuild' = NotRebuilding
        /\ UNCHANGED <<readings, tracker, serviceLog, keptUpTo, replay, disturbed>>

ServicingNext ==
    \/ \E r \in Seen, applied, visited \in BOOLEAN : FeedCycle(r, applied, visited)
    \/ ArchiveReadings
    \/ StartReplay
    \/ ReplayDay
    \/ StopReplay
    \/ ReplayBuffer
    \/ StartRebuild
    \/ FinishRebuild

ServicingSpec == ServicingInit /\ [][ServicingNext]_serviceVars

-----------------------------------------------------------------------------

ServicingTypeOK ==
    /\ readings \in Seq(Seen) /\ Len(readings) <= MaxReadings
    /\ tracker \in Tracked /\ replay.state \in Tracked
    /\ serviceLog \subseteq Event /\ visits \subseteq Visit /\ rebuild.found \subseteq Visit
    /\ keptUpTo \in 0..MaxReadings /\ replay.listed \in 0..keptUpTo
    /\ disturbed \in BOOLEAN

\* A servicing is in the log once, whichever of the cycles, the archive replay and
\* the buffer replay found it: between two events the vehicle was seen low, parked,
\* after a ride had settled.  A cycle that was not applied, and an archive run that
\* moves readings from under a replay, are the two ways to log it twice.
EachServicingLoggedOnce ==
    disturbed \/ \A e, f \in serviceLog : e.at < f.at =>
        \E t \in (e.at + 1)..(f.at - 1) :
            /\ readings[t].charge = "low" /\ ~readings[t].reserved
            /\ t > 1 => ~readings[t - 1].reserved

\* A vehicle is in one depot visit at a time, however the cycles and the rebuilding of
\* the visits from the stops alternate; but not when it was reserved inside a depot,
\* which the cycles call a visit and the stop history does not.
OneVisitAtATime ==
    \/ disturbed
    \/ \E t \in 1..Len(readings) : readings[t].depot /\ readings[t].reserved
    \/ \A v, w \in visits : v # w =>
          \/ v.exited # StillInside /\ v.exited <= w.entered
          \/ w.exited # StillInside /\ w.exited <= v.entered
=============================================================================
