---------------------------- MODULE BatteryTrips ----------------------------
(***************************************************************************)
(* The observations the battery model is fitted on                          *)
(* (src/battery_model.py), for one vehicle: rentals mined from the hot       *)
(* telemetry buffer and from the archived files, a rider's donated ride, and *)
(* the guards against counting a rental twice.                               *)
(***************************************************************************)
EXTENDS Integers, Sequences

CONSTANTS
    MaxSamples,      \* bound: cycles of the feed
    MineWindow,      \* cycles a nightly run reports on
    MineLookback,    \* cycles its scan reaches back before that
    MaxSpan          \* cycles the longest accepted rental spans

VARIABLES
    reserved,        \* the feed: whether the vehicle was reserved, cycle by cycle
    rawFrom,         \* the first cycle raw_telemetry_points still holds
    files,           \* the archived files, each the cycles it covers
    observed,        \* battery_trip_observations
    donation,        \* a rider's ride, by their own clock, and whether it is ingested
    mining,          \* a nightly run: rows inserted and not yet committed
    fit              \* the observations the newest coefficients were fitted on

batteryVars == <<reserved, rawFrom, files, observed, donation, mining, fit>>

\* The feed is sampled at even times; a rider's ride starts and ends in between.
Observation == [from : Nat, to : Nat, source : {"gbfs_rental", "donated_ride"}]

NotMining == [on |-> FALSE, rows |-> {}]

BatteryInit ==
    /\ reserved = <<>> /\ rawFrom = 1 /\ files = <<>>
    /\ observed = {} /\ fit = {}
    /\ donation = [state |-> "none", from |-> 0, to |-> 0]
    /\ mining = NotMining

BatteryNow == 2 * Len(reserved) + 1

Overlaps(o, p) == o.from < p.to /\ p.from < o.to

DepartsAt(S, a) == a

\* The rentals a scan of the cycles S finds: a reserved run between two available samples.
Episodes(S) ==
    {[from |-> 2 * DepartsAt(S, e[1]), to |-> 2 * e[2], source |-> "gbfs_rental"] :
        e \in {p \in S \X S :
                 /\ ~reserved[p[1]] /\ ~reserved[p[2]]
                 /\ p[2] - p[1] \in 2..MaxSpan
                 /\ \A t \in (p[1] + 1)..(p[2] - 1) : t \in S /\ reserved[t]}}

\* (vehicle_identifier, departed_at) is unique; a second row is dropped.
StoredWith(rows) == observed \cup {r \in rows : \A o \in observed : o.from # r.from}

-----------------------------------------------------------------------------

SampleFeed(r) ==
    /\ Len(reserved) < MaxSamples
    /\ reserved' = Append(reserved, r)
    /\ UNCHANGED <<rawFrom, files, observed, donation, mining, fit>>

\* archive_if_due; the rows it loses while it runs are IngestCycle's.
ArchiveBuffer ==
    /\ rawFrom <= Len(reserved)
    /\ files' = Append(files, rawFrom..Len(reserved))
    /\ rawFrom' = Len(reserved) + 1
    /\ UNCHANGED <<reserved, observed, donation, mining, fit>>

\* The track key is issued, and the ride reported as ended, when the rider says so.
BeginDonatedRide ==
    /\ donation.state = "none"
    /\ donation' = [donation EXCEPT !.state = "riding", !.from = BatteryNow]
    /\ UNCHANGED <<reserved, rawFrom, files, observed, mining, fit>>

FinishDonatedRide ==
    /\ donation.state = "riding" /\ BatteryNow > donation.from
    /\ donation' = [donation EXCEPT !.state = "ended", !.to = BatteryNow]
    /\ UNCHANGED <<reserved, rawFrom, files, observed, mining, fit>>

\* What the donation's transaction deletes of the mined rows.
GuardDeletes(o) ==
    o.source # "donated_ride" /\ o.from \in donation.from..donation.to

\* The donation settles as eligible, now or late; unless both ends' batteries are
\* known and the burn is in bounds, nothing is written.
IngestDonation(usable) ==
    /\ donation.state = "ended"
    /\ donation' = [donation EXCEPT !.state = "settled"]
    /\ observed' = IF usable
                     THEN {o \in observed : ~GuardDeletes(o)}
                            \cup {[from |-> donation.from, to |-> donation.to,
                                   source |-> "donated_ride"]}
                     ELSE observed
    /\ UNCHANGED <<reserved, rawFrom, files, mining, fit>>

\* Rentals that ended in the window and are neither stored nor straddled by a donation.
Minable ==
    LET start == Len(reserved) - MineWindow
    IN  {e \in Episodes({t \in rawFrom..Len(reserved) : t > start - MineLookback}) :
           /\ e.to > 2 * start
           /\ \A o \in observed : o.from # e.from
           /\ \A o \in observed : o.source = "donated_ride" => ~Overlaps(o, e)}

\* One transaction: the rentals are read first; each is routed (slowly), filtered and
\* inserted, at most `limit` of them, drawn at random; the commit comes last.
StartMining(rows) ==
    /\ ~mining.on
    /\ mining' = [on |-> TRUE, rows |-> rows]
    /\ UNCHANGED <<reserved, rawFrom, files, observed, donation, fit>>

CommitMining ==
    /\ mining.on
    /\ observed' = StoredWith(mining.rows)
    /\ mining' = NotMining
    /\ UNCHANGED <<reserved, rawFrom, files, donation, fit>>

FailMining ==
    /\ mining.on
    /\ mining' = NotMining
    /\ UNCHANGED <<reserved, rawFrom, files, observed, donation, fit>>

\* _rental_episodes_from_archive_file: a rental that straddles two files is in neither.
ArchivedEpisodes(f) == Episodes(files[f])

\* The seeding from the archive: one file at a time, each its own commit, with no
\* look at what is stored but the unique key.
BackfillFile(f, rows) ==
    /\ observed' = StoredWith(rows)
    /\ UNCHANGED <<reserved, rawFrom, files, donation, mining, fit>>

Trainable(o) == o.source = "gbfs_rental"

\* Only rows with a known, fresh pre-ride reading; a donated row carries none.
TrainModel ==
    /\ \E o \in observed : Trainable(o)
    /\ fit' = {o \in observed : Trainable(o)}
    /\ UNCHANGED <<reserved, rawFrom, files, observed, donation, mining>>

BatteryNext ==
    \/ \E r \in BOOLEAN : SampleFeed(r)
    \/ ArchiveBuffer
    \/ BeginDonatedRide
    \/ FinishDonatedRide
    \/ \E usable \in BOOLEAN : IngestDonation(usable)
    \/ \E rows \in SUBSET Minable : StartMining(rows)
    \/ CommitMining
    \/ FailMining
    \/ \E f \in 1..Len(files) : \E rows \in SUBSET ArchivedEpisodes(f) : BackfillFile(f, rows)
    \/ TrainModel

BatterySpec == BatteryInit /\ [][BatteryNext]_batteryVars

-----------------------------------------------------------------------------

BatteryTypeOK ==
    /\ reserved \in Seq(BOOLEAN) /\ Len(reserved) \in 0..MaxSamples
    /\ rawFrom \in 1..(MaxSamples + 1)
    /\ \A f \in 1..Len(files) : files[f] \subseteq 1..MaxSamples
    /\ observed \subseteq Observation /\ mining.rows \subseteq Observation
    /\ fit \subseteq Observation
    /\ donation.state \in {"none", "riding", "ended", "settled"}

\* No rental is in a fit twice, however the nightly runs, the backfill, the archive
\* and a donation met: extract_trips' claim that re-runs are idempotent, which needs
\* every scan of a rental, from whatever part of the feed, to give it the same
\* departed_at.
FitCountsEachRentalOnce == \A o, p \in fit : o # p => ~Overlaps(o, p)
=============================================================================
