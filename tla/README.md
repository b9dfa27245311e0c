# Specifications of the scooter.fyi API

TLA+ models of the program in `src/`, the TLC configurations that check them and
TLAPS proofs about them. Paths such as `ride_watch.py` are under `src/src/`.

The program is a FastAPI service and a set of cron jobs over one Postgres database.
Every two minutes an *ingest cycle* fetches the operator's vehicle feed (GBFS) and runs
a stack of layers over it. Riders start and end *tracked rides*, donate GPS tracks and
answer surveys, and are paid in points. Nothing is shared but the database: what
interleaves are transactions, of requests, of cycles and of jobs.

## 1. The parts

| part | state (tables) | operations | hard behaviour | what makes it correct |
|---|---|---|---|---|
| tracked rides (`api_tracked_rides.py`, `ride_limits.py`) | `tracked_rides`, `track_donations`, `ride_waypoints` | start, waypoint, end, donate track, delete one, delete all | active-ride test and insert; donation against cycle, expiry, de-identification; waypoints against the end report | one active ride per account; one donation per ride; verdicts final |
| ride watch (`ride_watch.py`) | `user_device_watch_list`, feed times of a ride | per cycle: classify watches, one transaction; then settle each reappeared ride in its own | two crontab lines overlap; commit, then crash before settling; snapshots out of order | a verdict exactly once, on the right evidence |
| jobs (`cli.py`) | the same rows | `expire_stale_watches`, `deidentify_donations`, retention | select, commit, then one transaction per ride; sweeps against late settlement | every donation loses its rider; denial only after the window |
| points (`points.py`) | `user_points` | `credit_points` and its dozen callers; flat awards that count and insert | one ride paid from four places in any order; a cap shared by all; a window counted by two requests at once | cap per ride; one row per source; windows and daily caps kept |
| surveys, planned routes (`api_ride_surveys.py`, `api_ride_routes.py`) | `ride_surveys`, `ride_routes` | create route, submit survey | two surveys claim one route | a route pays once |
| device state (`device_state.py`, `ghost_stops.py`) | `device_state`, `device_history`, `trip_events`, `rental_outcomes_hourly`, `device_state_processed_cycles` | per cycle: new, rental start/hold, in-place release, moved, failed start, stationary, absence sweep; `close_ghost_stops` | overlapping cycles; a cleanup beside a cycle; outages and partial payloads | one open stop per vehicle in the feed; one trip per rental; our downtime is never a vehicle's absence |
| ingest cycle and archive (`cycle.py`, `ingest.py`, `compute.py`, `transmit.py`, `archive.py`) | `observation_cycles`, snapshot tables, `raw_telemetry_points`, files in R2 | fetch, staleness, compute, write, layers, transmit; export, upload, truncate | each layer's failure isolated; process killed midway; archive beside a cycle | no raw row dropped before it is in R2 |
| rollups, compliance (`analytics_rollups.py`, `equity_backfill.py`, `daily_sla.py`) | `analytics_*`, watermarks, the queue of stop closes, `daily_sla_compliance` | refresh, backfill, close, reopen, sweep; daily average, reprocess | a killed cycle before its refresh; a stop reopened after its close was queued; an average read and written in two transactions | each snapshot and each stop counted once; a figure or a verdict, not both |
| servicing, depots (`servicing.py`, `depots.py`, `fleet_service.py`) | charge columns of `device_state`, `service_events`, `depot_visits` | one charge step per reading; replay of archive and buffer; rebuild of visits | sag and rebound around a ride; a replay beside the cycles | a service is recorded once |
| battery model (`battery_model.py`) | its observations and fits | mine the buffer, backfill the archive, take a donated ride, fit | the same rental found in three places | a rental is fitted once |
| dibs (`api_dibs.py`, `dibs_watch.py`) | `dibs` | claim, release, "mine", certificate, alert per cycle | reserve, slow SMS, confirm; crash between | an alert at most once; a certificate's verdict stands |
| referrals, stand-downs (`api_dibs.py`, `points.py`, `accounts.py`) | `referrals`, `public_username` | refer, stand down, lapse at midnight, settle with a donation | a handle changed and a contact moved between making and paying | each debt paid once, to whom it was promised |
| condition checks (`condition_checks.py`) | `device_condition_checks` and answers | submit, confirm per cycle, pay, hold and re-baseline reports | late and out-of-order cycles; a rental begun beside the check | no check given up early; paid once |
| admin watches (`admin_watch.py`) | `admin_device_watches` | subscribe, confirm, scan, text, end | two cycles with feeds of different ages | no change told twice, none swallowed |
| fleet and rider reports (`fleet_reports.py`, `api_frontend_reports.py`) | `device_reports` | file, clear by what the feed shows, resolve, reinstate, reconfirm | a report's standing is computed anew at each read | only a real change or a person clears it |
| device features (`device_features.py`, `api_device_features.py`) | `device_feature_reports`, the features of a vehicle | report, grade, review, retire, seed | the same backlog cut into firings differently | the answer does not depend on the cut |
| off-feed rides (`api_rides.py`) | `rides`, `off_feed_ride_waypoints` | start, waypoint, end, log in one shot, expire, delete | two appends, or an append and the end, overlap | the distance is the whole track's |
| images (`device_photos.py`, `receipts.py`, `api_ride_screenshots.py`, `image_sweep.py`, ...) | rows and an object store | upload, replace, delete, retention, orphan sweep | row and object written apart; a sweep lists before it reads the rows | no live row without its object |
| accounts (`accounts.py`, `api_auth.py`, `api_profile.py`, `google_auth.py`) | `accounts`, `login_codes` | ask for a code, send, settle, type it back; sign in; edit a profile; prove a number | overlapping sends and slow answers; simultaneous guesses; a claim reads another account's row without its lock | bounded attempts; one live code per number; a proved number is never taken; an account keeps a door |
| sessions, links, allowlist (`accounts.py`, `api_auth.py`, `api_private.py`) | `auth_sessions`, `magic_link_tokens`, `admin_allowlist` | mint, load, refresh, sign out; send and redeem a link; add and remove administrators | two refreshes of one session; two removals at once; a door that gives no scope | a session with the admin scope ends after a day; the list is never emptied |
| rate limits (`ratelimit.py`) | `rate_limit_events` | `enforce` over several buckets | the time read before the wait for the lock | no window overfull |
| places, settings (`saved_places.py`, `place_crypto.py`, `api_preferences.py`) | the sealed column and older columns of `accounts`; `user_preferences` | put, read and fold, change of key; put and delete a named setting | a read that writes; a put of one name by two requests | an edit stands; the cap binds new names only |
| payload cache (`payload_cache.py`) | a memo per worker, `payload_cache` | build, store, serve, warm | what is newest is read before the wait for the builder | a tag is true of its body |
| address index (`addresses.py`) | `address_points`, `address_streets`, an index per process | page, swap, look up | short pages; ids dealt anew under a process's memory | the layer whole or not at all |
| geocoder index, map files (`r2_map.py`) | directories, a marker, ETags | list, download, unpack, rename; promote | sidecar and scheduled run on one volume, killed anywhere | what is served is one whole build |
| request metrics (`request_metrics.py`) | a bounded buffer, `request_metrics` | record, flush | two flushes overlap | counted once |
| replies (`comms_replies.py`, `comms.py`) | `comms_replies`, `accounts.sms_opted_out_at` | poll, store with its consent, ack; note a refused send | polling claims what it returns; a refused send is noted late; numbers change hands | the echo of a rider's consent is the consent |
| the rest (`api_public.py`, `api_route.py`, `campaigns.py`, ...) | none of its own, or derived | queries, numerical fits, external calls | | not modelled, section 7 |

How they interact. A cycle (`cycle.py:run_once`) calls, one after the other and each in
transactions of its own, device state, servicing, the ride watch, dibs, condition checks,
admin watches, the transmission and the rollups; a layer that raises is logged and the
next one runs. The ride watch settles rides through `finalize_validation`, which also
`expire_stale_watches` calls; both pay through `points.py`, as donations and surveys do.
`crontab` starts the cycles on *two* lines, `*/2` and 06:05, which supercronic does not
keep apart. `points.settle_referrals_for_account` pays a referral when the newcomer's first
track is donated. A condition check and a rider's report share a baseline: the check
holds the report until the feed has confirmed it. A texted or typed code proves a number
in the same transaction that signs its rider in or changes its profile, and mints the
session.

## 2. The plan

A module per component, parameterised by CONSTANTS with named assumptions; one action per
committed transaction, or per stretch between two lock acquisitions where a transaction
reads before it locks. Properties, where there are many, are in a `...Props` module, TLC's
constants in an `MC...` module (those of `DeviceState` and `TrackedRides` in their `Props`),
proofs in `...Proofs` modules. Nothing is RECURSIVE, so every module can be proved about.

| step | modules | state |
|---|---|---|
| 1 | `PointsLedger`, `TrackedRides`, `TrackedRidesProps`; `Contribution`, the abstract promise of a donation | done |
| 2 | `DeviceState`, `DeviceStateProps` | done |
| 3 | `Addresses`, `LoginCodes`, `SignInAccounts`, `Sessions`, `MCSignIn` | done |
| 4 | the layers of a cycle that reserve a row, call a slow sender and record its answer, and what they share with riders: `Dibs` and `AlertOnce`, which it implements; `AdminWatch`; `ConditionChecks`; `FleetReports` | done, in `MCRiders` |
| 5 | riders' other tables: `OffFeedRides`, `DeviceFeatures`, `Referrals`, `Awards`, `Images`, `SavedPlaces`, `SavedBlobs`, `RateLimit` | done, in `MCRiders` |
| 6 | what runs behind: `IngestCycle` and `Rollups`, which composes with it; `StopCloses`, `Compliance`, `Servicing`, `BatteryTrips`, `PayloadCache`, `AddressIndex`, `PhotonIndex`, `MapAssets`, `RequestMetrics`, `CommsReplies` | done, in `MCPipeline` |
| 7 | proofs about rides, vehicles and sign-in: every safety property and the refinement | done |
| | proofs about `Dibs`, `AdminWatch`, `ConditionChecks` and `FleetReports` (step 4) | done, with the refinement |
| | proofs about the modules of step 6: every property of `Pipeline` | done |
| | proofs about the modules of step 5: every property of `Riders` | done |
| 8 | live waypoints of a tracked ride; the lock order of a deletion and a cycle; the rides' watermark over ids, with the row locks two inserting lines share or do not; the census of `api_fleet_reports.py` and its acknowledgements | open |

Every safety property and both refinements that a passing run checks are proved. Step 8
needs models first.

## 3. Models and code

### Tracked rides

`TrackedRides.tla` keeps one record per `tracked_rides` row, its
`user_device_watch_list` status, its `track_donations` row, surveys, planned routes, the
ride's points (`PointsLedger.tla`), which rides gave the battery model an observation, and
the referrals of an account. The clock counts hours.

* Riders: `StartRide`, `EndRide`, `DonateTrack`, `SubmitSurvey`, `CreateRideRoute`,
  `DeleteTrackedRide`, `DeleteAllTrackedRides`: each is the endpoint's transaction, with
  its validation status, awards and cascades. A refused request writes nothing.
* A cycle of a crontab line: `CycleFetch` takes a snapshot before any lock,
  `CycleWatch` is the watch transaction, `CycleFinalize` one `finalize_validation` per
  reappeared ride; `CycleFinalizeFails` and `CycleAbandoned` are a caught exception and a
  killed process.
* Jobs: `ExpireStaleWatches` then `ExpireFinalize` per ride (and its failures), and
  `DeidentifyDonations`.

The verdict (`Verdict`) has the structure of `_verify_track_chain`: what a signature, a
speed or a distance says is an input, what the feed says is state. Points are computed as
`_apply_ride_cap` computes them. `DonationPoints` and `RidePoints` sum the ledger.

`Contribution.tla` says what a rider is promised about a donation: offered once, at most
one verdict, paid only with an eligible one. `TrackedRidesProps` maps rides to it
(`ContributionStage`, `KeepsPromise`).

### Device state

`DeviceState.tla` keeps the `device_state` row of each vehicle, its stops
(`device_history`), trips (`trip_events`) and the cycles that count as observations. A
place is a number of metres along a street, so that every threshold of the code
(25, 50, 100, 500 m) is compared as it is. An update is two actions, because it reads and
locks rows at its beginning: `UpdateBegin` (SELECT ... FOR UPDATE, the probe for lost
stops), `UpdateCommit` (the branches NEW, IN RENTAL, IN-PLACE RELEASE, MOVED,
STATIONARY, reappearance, and the absence sweep with SKIP LOCKED). `UpdateConflict` is
the unique violation of two first sightings, `UpdateFails` any other failure.
`CloseGhostStops` is the cleanup, in any state.

### Sign-in

`LoginCodes.tla` has the rows of `login_codes`. A request for a code is `SendBegin`
(the transaction starts and its `created_at` is fixed), `IssueCode` (commit, under the
rate limit's lock on the address), `SendAccepted` or `SendRefused` (the provider's
answer) and `SettleIssuedCode`, or `SettlementLost`. A guess is `GuessBegin`
(the row it reads) and one of six ends: too late, too many, wrong, right, right but
refused by the account step (409, committed), rolled back. The e-mail door burns as it
issues; the SMS door and the profile door share the rows of a number, and only the SMS
door's guesses hold a lock on it.

`SignInAccounts.tla` has each account's e-mail, number and proof. `ProofReads` and
`ProofWrites` are the two halves of `claim_verified_phone` and
`upsert_account_by_phone`: the number is locked, the holder's row is not. `PutEmail` and
`PutPhone` are `put_profile`, under its own row's lock. The unique keys and the CHECK
of the table are guards of every write; a step they refuse is `ProofRolledBack`.

`Sessions.tla` has `auth_sessions`, `magic_link_tokens` and the allowlist. A request
loads its session in one transaction (`RefreshLoads`) and acts in another
(`RefreshCommits`), so two refreshes may both have loaded a token before either revokes
it. An administrator is who has an address in the allowlist (`MayAdminister`, read on
each request), but only a door that mints with an address gives the admin scope, and with
it the day's lifetime: `SignInBy` takes the door, and by `"phone"` there is no scope
(`HasAdminScope`). A session keeps its `door` and whether its account was `listed` at the
sign-in; addresses are fixed here, as their edits are `SignInAccounts`'. A removal of an
administrator is `GuardedCounts`, under its advisory lock, and `GuardedRemoves`;
`PortalRemoves` is the portal's, which takes no lock. A tick is `ADMIN_SESSION_HOURS`; the
minutes of a link are `LinkLapses`.

The three share no table: what the first calls a right guess the second calls a proof
and the third a sign-in, so `MCSignIn` runs one of them.

### What riders send and are sent

Modules of `MCRiders`. Where a cycle reads, sends and writes in turn, each is an action.

* `Dibs.tla`: `dibs` rows in the order they were made, the watcher's pass of each cycle
  (`FetchDibsFeed`, `MarkTaken`, `Reserve` or `ReserveRefused`, then the text:
  `CommsAccepts`, `MarkNotified`, `Skip`, `Defer`), and `WatcherDies` between any two. What
  went out is `sent`; comms delivers once per idempotency key. `AlertOnce.tla` is the
  promise: told once, or closed in silence.
* `AdminWatch.tla`: `SubscribeCount` and `SubscribeInsert` are apart because the count takes
  no lock. A cycle reads the watches (`ReadWatches`, which expires first), then `Judge`s
  one at a time: baseline and number of the text in one guarded UPDATE, then the text.
* `FleetReports.tla`: a report stands or not by the vehicle as it is and by what has
  happened since its baseline; what the code reads off timestamps is kept in `since`.
* `ConditionChecks.tla`: `SubmitCheck` is one transaction under the vehicle's lock;
  `ConfirmPass` compares the pending checks with the feed up to its own time, which may be
  late or older than the last one's; and so may be the feed that a cycle applies to the
  vehicle's row (`RentalStarts`, `RentalEnds`, `VehicleMoves`), for the cycles of the two
  crontab lines overlap and nothing orders their commits.
* `DeviceFeatures.tla`: the log of reports and the published answers. `ProcessVehicle`
  grades a vehicle's backlog in order (`Graded`, by `GradeOne`: first report,
  reconfirmation, or a vote of the review, whose votes are read back from the log).
* `Referrals.tla`: a row names its introducer by handle and its newcomer by contact, so
  `ChangeHandle` and `EditContacts` may move either before `SettleReferrals`.
* `OffFeedRides.tla`: `CheckFix` (a plain SELECT), `InsertFix`, `WriteFix` are the stretches
  of one append; an end or another append may commit between. The measured distance
  (`Gone` along the path) leaves out implausible legs and is capped, as in the code.
* `Awards.tla`: an award is asked for (`NOW()` is fixed), counts under its lock, pays.
* `Images.tla`: objects, rows, uploads (object before row), retention (`FindDue`,
  `DeleteDue`, `CommitDue`) and the sweep (`List`, `ReadReferences`, `DeleteOrphans`).
* `SavedPlaces.tla`: the sealed column, the two generations of older columns, and the keys;
  a profile read selects (`GetRead`), folds, and writes (`GetWrite`). `wanted` is what the
  rider asked for last. `SavedBlobs.tla`: named settings under the account's row lock.
* `RateLimit.tla`: `Asks` reads the time, `Passes` counts and inserts under the bucket's
  lock, one bucket after another; locks last to the end of the transaction.

### What runs behind

Modules of `MCPipeline`.

* `IngestCycle.tla`: a cycle is `StartCycle`, `FetchFeed`, `Compute`, `WriteSnapshot`,
  `RunDerived`, `Transmit`, with `UpstreamFails`, `CycleRaises` and `CycleKilled`; the
  archive is `ExportRaw`, `UploadRaw`, `TruncateRaw`. `Rollups.tla` composes with it: the
  refresh is a cycle's last step, the backfill a job beside the cycles. The two crontab
  lines overlap, so a snapshot may be written after that of a later cycle, and after the
  refresh that followed it.
* `StopCloses.tla`: the trigger's queue of closed stops, its settling time, reopening, and the
  sweep of what was closed before the migration.
* `Compliance.tla`: one day's row. `ReadAverage` and `UpsertAverage` are two transactions;
  a reprocess rewrites what passes its fidelity gate, or concludes that nothing can be
  measured. The sweep's list of days is older than its work (`ListBacklog`).
* `Servicing.tla`: the one charge rule, stepped by `FeedCycle` (which knows a vehicle's
  rentals before it was taught its charge, from cycle `LoggedFrom` on) and replayed by
  `ReplayDay` and `ReplayBuffer`; visits opened and closed live, or rebuilt.
* `BatteryTrips.tla`: rentals mined from the buffer (`StartMining`, `CommitMining`), from the
  archive's files (`BackfillFile`), and donated rides; `TrainModel` takes what is trainable.
* `PayloadCache.tla`: memo per worker, shared table, build lock; a caller has read what is
  newest before it waits (`AskPayload`), and reads the data after (`ReadData`).
* `AddressIndex.tla`: `FetchPage`, `SwapTables`; a process's index by `BuildIndex`, used by
  `FindStreet` and `FindPoint` with the ids it holds.
* `PhotonIndex.tla`: each file operation of `_stage_photon_index` is a step, with `SyncDies`
  after any; the operator's promotion is `SetLiveAside`, `PromoteStaged`, `RemoveOld`.
  `MapAssets.tla`: the files that are compared by ETag.
* `RequestMetrics.tla`: the deque, emptied row by row by overlapping flushes.
* `CommsReplies.tla`: what riders text back, in order; comms blocks a number from its STOP
  to its UNSTOP at once (`Blocked`), the service hears of it in batches (`Poll`, then
  `StoreReply`, `SkipDuplicate` or `StoreFails` for each, and `AckReply`), and a process that
  dies takes its batch along (`PollDies`). `SendBlocked` and `NoteOptOut` are a refused
  send and its note, in a later transaction.

## 4. What the runs check

| run | instance | question |
|---|---|---|
| `RideRaces` | 1 ride, both crontab lines, 3 h, 1 failure | can a donation, two cycles, the expiry, the de-identification and a deletion give a ride two verdicts, a wrong one, or undo an end? Implements `Contribution`. |
| `RidePoints` | 1 ride, 1 route, an 80 km track, survey, own device, stand-down | is the cap kept, and paid only what is due, in every order of awards? |
| `TwoRides` | 2 rides of one account, 1 route | one active ride; a route is used once |
| `RideJobs` | 1 line, jobs under fairness, 4 h, 1 failure | does every donation lose its rider, and every held one settle unless a job failed? |
| `DeviceHistory` | 2 vehicles, 1 line, cleanup, 4 h | do stops, trips and failed starts tell one story? |
| `TwoUpdates` | 2 vehicles, 2 overlapping lines, cleanup, 3 h, 1 failure | one open stop; a parked vehicle has one |
| `SignIn` | 2 codes of an e-mail address or a number, 3 guesses, 1 lost settlement; 2 accounts, 2 e-mails, 2 numbers, 2 proofs; 2 sessions, 2 requests, 1 link, 3 members of whom 1 has no e-mail address, 2 ticks | are attempts bounded, one code alive, a proved number safe, a door kept, a session with the admin scope a day long, whatever the door, and the allowlist never emptied? |
| `Riders` | the twelve parts of `MCRiders` | is what riders entrust kept, what they are told true, what they are paid by the rules? Claims implement `AlertOnce`. |
| `Pipeline` | the eleven parts of `MCPipeline` | is what is counted counted once, and what is kept or served whole? |

`PhotoRefused`, `MoveUndone` and `WrongStreet` each show one statement of the code's
documentation violated (section 5).

**Parts.** The components of `SignIn`, `Riders` and `Pipeline` share no table with each
other in the models. A behaviour of these runs has a `part`, chosen in its initial state,
and takes the steps of that part alone: the state spaces add instead of multiplying, and
one property brings together the parts' answers to one question. In `MCRiders` and
`MCPipeline` each module is an INSTANCE over the same variables `x1`, `x2`, ... .

| property | parts it speaks of |
|---|---|
| `NothingIsLost` | images (`RowKeepsItsImage`), off-feed rides (`DistanceIsWholeRideUnlessOvertaken`), places (`EditsStandUnlessOvertaken`), settings (`CapBindsNewNamesOnly`), features (`BatchingDoesNotMatter`), watches (`BaselineIsTold`), checks (`HeldReportHasCheck`) |
| `ReportsFollowTheFeed` | reports (`OnlyARealChangeClears`, `RebaselinedStands`), checks (`NotGivenUpEarly`, `HeldThroughTheRide`), claims (`CertificateStands`), watches (`EndedWatchIsSilent`) |
| `RulesHold` | awards (`AwardsWithinRules`), checks (`CheckAwardsEarned`), referrals (`DebtsSettledOnce`), limits (`WindowNeverOverfull`) |
| `TextedOnceOrNotAtAll` | claims, as a refinement of `AlertOnce` |
| `NothingCountedTwice` | cycles and rollups (`FoldedUnlessPassedOver`), stops (`EachStopCountedOnce`), servicing (`EachServicingLoggedOnce`, `OneVisitAtATime`), battery (`FitCountsEachRentalOnce`), metrics (`EachRequestCountedOnce`) |
| `PublishedWhole` | archive (`RawRowsKeptUnlessOvertaken`), payloads (`TagIsTrueOfBody`), compliance (`FigureOrVerdict`), geocoder (`ServedIndexIsWhole`), map files (`FileIsAsNoted`), replies (`EchoIsHonest`) |
| `AddressesWhole` | addresses (`WholeLayerIndexed`) |

Some of these say "unless overtaken" or name an exception (`excused`, `disturbed`,
`lateReopen`, `crossed`, `forgotten`, `astray`, `PassedOver`, `OutOfOrder`): the exception is
a state or a step of the model, brought about by what the code does not defend against, and
section 5 lists it. Everything else
must be right in spite of every crash and overlap.

**Bounds.** A unit of the clock is an hour in tracked rides and device state, and the
constants in hours keep their order (watch window, grace, floor), not their size:
`WATCH_DURATION_HOURS` 3 becomes 1, the de-identification floor 28 becomes the end of the
window or later, `ABSENT_STOP_AFTER` stays 1 or is 2 where a cycle must be able to wait
through it. What matters is that a cycle may be in flight across each deadline, which
needs one unit before and one after it: `MaxTime` 3 or 4. `MaxFaults` 1 is one failure
anywhere; the properties that survive one failure treat rides one by one, so a second one
would have to hit the same ride again, when nothing is left to settle it anyway.
Two lines are all the crontab has. One vehicle is under test in
`DeviceHistory`, with places at 0, 40 and 600 m (in place, drift below the decay, beyond
it), and the second keeps the feed alive: vehicles do not interact but through
the sweep's window. The number of missed cycles is 2 or 1 instead of 5; the sweep's window 1
instead of 30. `MAX_CODE_ATTEMPTS` is 2 instead of 5 with three guesses, so that the
cap is met and passed; two codes are a pair of overlapping sends, and a pair of proofs is
what a race of two claims takes. Runs with 3 codes and 2 guesses, and with 3 accounts,
were also tried and found nothing else.

In `Riders` and `Pipeline` a race is two actors on one row, so two cycles, requests or jobs
is the rule; three callers share the limiter's one global bucket, which has room for two, so
that one is refused while another waits. Counts have room for one more than the cap they
meet: 2 texts of a watch, 1 live watch and 2 asked for; 1 photo of a device and 2 uploads, 1
check a day and 3 awards; 2 settings of a cap of 2 and 3 names; a buffer of 2 rows and 3
requests. Clocks run one unit past the longest window: 2 for a limit of 1, 3 for an award
window of 1, 4 for a check, whose wait is 2. Four feature reports are one more than a review
takes. An off-feed ride has three places, of which the leg from 0 to 5 is implausible and a
ride to and fro exceeds the cap, and two fixes. Places have two keys, two puts and one
restart with other keys; three cycles of two lines are two snapshots and an archive between
them, a killed cycle between two good ones, or a cycle that a whole other one overtakes, with
two versions of the feed (`MaxFeedVersions`); a cycle applies to a vehicle a feed that is at
most a tick of 20 minutes older than the newest (`MaxLag`), when the line that overtakes it
runs every two minutes; the charge rule takes three readings; a
rental may span two of four samples and straddle an archive. Three replies of two numbers in
batches of two are a STOP, its UNSTOP and one more, cut by a batch's end. The geocoder has
two jobs and two builds, but the second build comes only while no jobs have crossed
(`FewCrossed`, with `CrossedBuilds` 1): the rest is beyond five minutes and adds only states
that `crossed` excuses. The bounds and the data of the modules are constants of `MCRiders`
and `MCPipeline`; what the proofs need of them is assumed there by name, and TLC evaluates
it: that limits are numbers, that a mark such as "nobody" or "none" is no id, that requests
are finitely many, that a report's answers are answers. The proofs of section 6 lift the
bounds for the properties they cover.

**Symmetry.** Actors and rows that the actions treat alike are interchangeable model
values (codes and guesses in `SignIn`; rows, cycles or requests, callers and crontab lines in
the other two). No run with symmetry checks liveness.

**Fairness.** Safety runs have none. `PromptSpec` (`RideJobs`) has weak
fairness of each step of a cycle, of the expiry and of the de-identification, for
supercronic starts them for ever (`src/crontab`), and riders owe nothing. An hour does
not pass while a job has rides to settle: cycles run every 2 minutes and the expiry every 15.
A failure is a step of its own, bounded by `MaxFaults`, so fairness never excludes it.
The deadlock check is off in every run: the bounded clock stops, and requests are
one-shot.

## 5. What the code does otherwise than it says

Shown by runs:

* `PhotoRefused`: an upload of a device photo without coordinates asks `device_state` for a
  column that does not exist; the request fails and the photo goes with it, though it
  should be stored and merely earn nothing.
* `MoveUndone`: a profile read folds older coordinates into the list it read without a
  lock, and writes the fold over a new Home put in between.
* `WrongStreet`: street ids are dealt anew at each swap while a process answers by the ids
  in its memory: a query for one street is answered with a house of another.

Found by earlier runs of these models, and told here without one (the properties say
where they bite):

* a reappearance is committed before its ride is settled, and nothing retries the
  settlement; a failure between the two leaves a donation unsettled until it is
  de-identified unpaid (`HeldSettlesUnlessAJobFails` has that exception);
* with two cycle lines, a cycle that fetched first may commit last, and record that a
  vehicle was back before it was out (`FeedEndAfterStart` is checked with one line, and
  proved for cycles that do not overlap);
* the cleanup closes a stop while a cycle that has fetched the vehicle waits; the cycle
  does not probe, and the parked vehicle is left without a stop
  (`ParkedHasStopUnlessRaced`);
* the settlement of a delivered SMS code burns *every* other unused code of the number,
  newer ones too: two overlapping sends that both go out burn each other
  (`OnlyADeliveryBurns` allows it);
* "the `admin` scope is agnostic to the sign-in method: any door, same allowlist, same
  answer", so that "an admin session is an admin session" (`accounts.py:299`), but
  `auth_sms_code_verify` mints with no address (`api_auth.py:855`): a member of the allowlist
  who signs in by SMS has a sliding session of 30 days without the scope, which
  `require_admin` accepts all the same (`LongRights` says who may administer for longer
  than a day);
* "a cycle that ran late must not expire a check whose confirming rental it simply has not
  seen yet" (`condition_checks.py:541`), but the window closes against the feed of whichever
  cycle passes first (`condition_checks.py:585`): a newer cycle gives the check up, then an
  older one of the other line commits a rental that began in the window
  (`device_state.py:881`), and the check stays unconfirmed (`OutOfOrder`, the exception of
  `NotGivenUpEarly`);
* the rollups say that "a crash re-processes nothing twice and skips nothing"
  (`analytics_rollups.py:8`), but their watermark is the newest snapshot time
  (`analytics_rollups.py:286`): a cycle that commits its snapshot after a later cycle of
  the other line (`crontab:14`, `crontab:28`) has committed and refreshed is never folded
  in (`PassedOver`, the exception of `FoldedUnlessPassedOver`);
* a claim clears the number of a holder by id, though the holder may by then have proved
  another number (`ProofNotTaken` is about the taker, not about that loss).

Seen while modelling:

* `finalize_validation` overwrites `track_donations.points_awarded` (`ride_watch.py:604`), and
  a stand-down award stamped by `donate_track` is lost from the total (which is why
  `TrackTotal` leaves those donations out);
* a drift during a rental followed by an in-place release can make a later stationary
  sample a trip (`device_state.py`, "A rental that never left IN_PLACE_RADIUS_M is not a
  trip at all");
* the archive "only truncates after R2 returns HTTP 200" (`src/README.md:1064`), but a
  cycle that writes between the export and the TRUNCATE loses its rows all the same
  (`archive.py:132`; `overtaken` in `IngestCycle`);
* the rides' watermark over ids (`analytics_rollups.py:169`) would miss a row that commits
  late; that ids commit in order rests on cycles that "serialize on device_state's row locks"
  (`analytics_rollups.py:11`), and two cycles that write no vehicle in common share no lock;
* a donation deletes the mined rows that *departed* within it
  (`battery_model.py:1762`), not "any overlapping" one (`src/docs/API_REQUIREMENTS.md:380`);
  the fit takes no donated row, so none is counted twice;
* a referral names its introducer by handle: whoever has the handle when it is paid is
  paid (`OwedToIntroducer`);
* two refreshes of one session mint two tokens (`api_auth.py:893`);
* "request_metrics flush failed; will retry" (`request_metrics.py:134`), but the rows are
  out of the buffer (`forgotten`);
* an account keeps `sms_opted_out_at` when its number changes (`api_profile.py:440` resets the
  proof only), and a note of a refused send may commit after the UNSTOP that answers it
  (`api_auth.py:648`): the profile then shows a number as blocked that is not, which "only an
  UNSTOP text can" clear (`api_profile.py:254`), and `admin_watch.py:355` ends a watch on that
  echo, which is "never an authorization decision" (`comms_replies.py:119`) (`astray`);
* a slow builder of a payload overwrites a newer memo of its worker; the next request
  builds it again, so only time is lost (`PayloadCache`).

## 6. What is proved

All for every value of the constants, under the assumptions the modules name.

* `TrackedRidesProofs`: types, `RideCap`, `OneActiveRide` and `RouteLinkIsFinal`. The cap
  follows from one lemma about `CreditPoints`, which grants what the cap leaves and never
  lowers a row. `StepEffect` says what any step can do to one ride: nothing that counts, or
  start it, end it, donate or settle its track, unlink it, remove it. `NothingReopens`
  follows: a step opens a ride only by starting it, which `start_ride` refuses while
  another is open, and the clock only closes rides; `OneActiveRide` is then
  inductive. A route's row is never taken again while it is owned, and a row
  that was never written names no ride.
* `SettlementProofs`: `HeldMeansWaiting`, `EligibleOnFeedEnd`, `SettledForever`,
  `NoDenialInWindow`, `AwardsOnlyIfEligible`, `TrackTotal`, the refinement `KeepsPromise`
  and, under a hypothesis, `FeedEndAfterStart`. Three invariants carry them. `Lifecycle`:
  donations are made after the end of a ride, an unsettled one awaits the feed, a settled
  ride has a verdict, an eligible ride a feed end. Without it an end report could reset a
  verdict, or a finisher settle a ride whose donation has lost its link. `WindowInv`: a ride
  is on a job's list only if the feed has shown it back or its window is over, and remains
  so until the job comes to it, for neither is ever taken back; hence no denial in the
  window, though the lists are older than the work. `Paid`: the track's points and the
  total change only where the verdict does, and together. The refinement takes each step of
  a ride, as `StepEffect` names it, to a step of `Contribution` (a de-identification to a
  `Lapse` of several rides, a deletion to a `Withdraw`), the rest to stutters.
  `FeedEndAfterStart` is proved of the behaviours in which no two cycles are between
  snapshot and transaction at once (`NoOverlap`): with two lines it is false (section 5), and
  the run checks it with one.
* `DeviceStateProofs`: types, and `OneOpenStop` by `OpenStopInv`: what an
  update read is still true when it commits, because it has locked the rows; snapshot
  times differ; a release reopens at most one stop, because no two of a vehicle were
  closed as moved at one time.
* `TimelinesProofs`: the other properties of a vehicle's history. `Timeline` relates row,
  stops and trips: stops are disjoint, everything is over by the time the vehicle was last
  seen, the open stop agrees with the counters, and during a rental the stop
  that the unlock closed is the last (else the release could not reopen it without an
  overlap). Each branch of a cycle keeps it, in a lemma of its own, and `StopsDisjoint`,
  `DwellCountersAgree` and `TripsJoinStops` follow. `Counted`: of the cycles that count
  as observations, those later than a vehicle's last sighting are no more than the payloads
  that missed it; with what the absence rule computes (`RecentSound`, `AbsentSound`) this is
  `AbsentOnlyIfMissed`. `Covered`: a parked vehicle without a stop is out of the feed or was
  raced, and a cycle in flight that will write it has probed for the missing stop;
  `ParkedHasStopUnlessRaced` follows. `SweepComplete` rests on `WindowIsEnough`: what is
  absent now, and was not in the window of this sweep, was absent as of the cycle before,
  and had no open stop then. It is proved of the behaviours in which no two updates hold
  their rows at once (`OneUpdating`), and is false without: a sweep skips the rows that
  another update has locked, and the next one looks only as far back as its window. The
  run has one line. `DeviceAssumption` says that the cleanup is not a crontab line of
  cycles.
* `SignInProofs`: of the codes, `GuessesBounded`, `OneLiveCode`, `OnlyADeliveryBurns`. The
  invariant counts (a row is compared at most as often as attempts were claimed, and has
  bought something only if used), places each row by the stage of its send, and says that
  of the settled rows of a number at most one stands, and was delivered. An e-mail
  address and a number must differ (`AddressAssumption`), or one door would burn for the
  other. Of the accounts, types, `ProofNotTaken`, `LastDoorKept`, `NeverAdopted`.
  The invariant: the keys are unique, and while a proof is between its reads and its
  writes no other account has proved the number and no other proof of it is under way,
  which is what the advisory lock is for. Of the sessions, types (`SessionsTyped`) and
  `AdminRights` (`AdminRightsKept`). The
  invariant has two halves. Every row with the admin scope, and every one a refresh has
  loaded and not yet written, expires a day after its sign-in: what is copied is bounded
  even if the row it came from has been revoked. A row without the scope came by SMS, or
  its account was not in the list at the sign-in, and a refresh copies both: so nobody else
  may administer for longer than a day. And a removal that has counted holds
  the lock and leaves somebody else in the list, which stays true until it deletes
  because nobody else may remove meanwhile; the portal's removal, which takes no lock,
  is the exception the property names. `SignInTyped` puts the three parts side by side.
* `RidersProofs`: `TextedOnceOrNotAtAll`, `ReportsFollowTheFeed` and, for the theorems of
  `EntrustedProofs`, the share that these parts have in its properties; for any number of
  claims, reports, watches, checks, scooters and overlapping cycles, any number of texts and
  any clock (`BoundsAssumption` only leaves room for the ticks a check waits). The parts are
  proved one by one, each with its own invariant, and a step of another part is a stutter of
  this one. Claims (`DibsInv`): a text on its way holds the reservation of its claim, is the
  only one that does, and its claim did not end before; so a second cycle cannot text, and
  an answer that comes late closes what it was sent for. The refinement maps an accepted
  text to `AlertOnce`'s telling, an end to its closing in silence, the rest to stutters.
  Watches (`WatchInv`): a cycle judges by the watches it read, which may since have been
  texted by another; but where the number of texts is still the one it read, the baseline it
  read does not differ from what the subscriber was told last, which is why the guarded
  UPDATE suffices. Checks (`ChecksInv`): the feed's time is at most the clock's, and a check
  is given up only when the feed itself has shown all of its window. What is newer than that
  cannot be a signal of the check's ride any more, so a late or repeated feed gives up
  nothing that is still to come; a signal that does come is of an older feed, applied out of
  order (`UnconfirmedStays`). Reports (`ReportsInv`): only a filed report is ever resolved or held,
  and a vehicle in the feed has a place, so that a real change is told from a reappearance.

* `EntrustedProofs`: `RidersTypeOK`, `NothingIsLost` and `RulesHold`, by `EntrustedInv`, which
  puts an invariant of each remaining part beside those of `RidersProofs`.
  - Images (`ImagesInv`): a key has one owner at a time. An object whose row has not
    committed is known to its own request (`PendingIsOwn`) and has not aged; the key that an
    upload replaces is in its own row, and in none once the new row has committed
    (`SupersededIsOwn`); what retention and the sweep may take is in no row that is not due
    (`TakenIsNotNeeded`). The last holds although the sweep lists objects before it
    reads the rows, because what is old when listed can be in no upload that will commit.
  - Off-feed rides (`OffRidesInv`): a request that nothing committed in front of holds the
    distance of the track with its fix, though it read the track in an earlier statement
    (`AppendFits`), and a row is as long as its track (`WholeRide`). A close-out whose
    end is not believed measures as if the end were not there (`LastLegLeftOut`).
  - Places (`PlacesInv`): a slot that the app deleted has no older pair (`PairsGone`), so a
    fold under a lock brings nothing back (`FoldStands`); a read that was not overtaken
    folds the row that is still there.
  - Settings: a request that has counted holds the account's row, and what it counted is
    still so when it stores. Limits: likewise under the bucket's lock (`Counted`), and for
    the window at *every* time, not only the request's own: the time was read
    before the wait, so later rows may be there already, and they were counted too. A
    door must ask of a bucket once (`DoorsAsk`). Awards (`AwardsInv`): the room that
    a request counted is there until it pays, because whoever could use it up waits for the
    same lock; requests under another lock pay another account or scooter.
  - Referrals (`ReferralsInv`): a payment exists only for a row that is settled, and settled
    rows stay so; handles are unique, so a debt goes to one rider.
  - Features (`FeaturesInv`): `Cut(n)` says that the first n reports are graded and the
    published answers are what they give one by one; a job moves it from n to the end of
    the log (`JobGradesTheRest`). The votes of a review are the reports since the one that
    opened it, and fewer than three as long as it is open (`VotesFit`): reading them back
    from the log gives the votes that one job at a time would have seen.

* `PipelineProofs`: all that `Pipeline` checks, for any number of cycles, jobs, processes,
  readings, builds, requests and replies. `PipelineInv` has an invariant for each part.
  - Rollups (`RollupInv`): for any set of lines. The watermark is a snapshot's, so one that is
    written ahead of it is folded by the refresh that passes it, and once. While a cycle is
    under way only other lines start one, so whatever passed the watermark beyond it is of
    another line: a snapshot written behind the watermark was passed over, and stays so
    (`PassedOverStays`). What is in the raw table when it is truncated is in the export that
    was uploaded, or overtook it.
  - Stops (`StopFine`): a stop in the queue is closed and not counted yet; one that was closed
    before the migration is the sweep's, and is in the queue only if it was reopened late.
  - Servicing: while nothing was disturbed, whoever steps the charge rule, the cycles or a
    replay, *knows* the same of the readings it has come to (`Knows`): "low" means low at a
    reading since the last full one. So a servicing is logged only where the readings
    show one (`ServicedAt`), and two of them have a low reading in between. `VisitInv`: a
    visit is a stay (`VisitFine`), and of two one is over before the other begins
    (`Before`), also when the rebuild writes what it found into what the cycles wrote.
  - Battery (`BatteryInv`): a mined row, from buffer or archive, has the ends of a rental as
    the samples show it (`Shown`). Two such rentals do not overlap, and rows that agree
    are one row.
  - Payloads (`TagIsTrue`, `CallerIsTrue`): the stamp that a builder has read is never
    newer than the data it reads after it.
  - Addresses (`AddressInv`): while the layer stands still, what was read is its beginning; a
    load that has come to its end has all of it.
  - Geocoder (`PhotonInv`): while jobs did not cross, the stage of the one that runs says
    what each directory and the tarball hold (`StageIs`), whatever the operator
    promotes meanwhile; once the marker knows a build, the staged tree is that build, or
    gone because it was promoted (`PhotonMarked`). Map files: the file is at least as
    new as its ETag, also while several jobs write it.
  - Metrics (`InOnePlace`): a request is unseen, in the buffer, in one flush's hands, counted
    or forgotten, never two of these. Replies (`ReplyInv`): what is to be heard is the
    newest texts (`InOrder`), so a stored consent is the last that was said, and the echo
    is right for every number with nothing left to hear (`ShownAsBlocked`).

  `WholeLayerIndexed` is an action property, and `AddressStep` proves it with the
  invariant.

`Replayed`, `InOrderMet`, `Gone`, `Graded` and `OneByOne` are recursive functions. What is
proved of their values takes no induction theorem with an operator for a parameter: a set of
numbers has a least (`LeastNumber`), so a set that has 0, and a number whenever it has the
one before, has all (`CountingUp`), and a function that is made step by step from the one
before exists (`Recursed`), which is what the CHOOSE behind a recursive definition needs.

Only model-checked: the liveness properties (`EveryDonationIsDeidentified`,
`HeldSettlesUnlessAJobFails`), and the three statements of section 5 that runs refute. What
`FeedEndAfterStart` and `SweepComplete` say is proved under the hypotheses named above.

## 7. What is not modelled

Each component of `PROJECT.json` has its status. Of the modelled parts:

* floating point and cryptography (track signatures, speeds and distances of a donated
  track, presence beside a scooter, the regression of the battery model, spatial measures
  of a cycle), which are inputs;
* the live waypoints of a tracked ride (those of an off-feed ride, with the same
  arithmetic and the same statements, are in `OffFeedRides`);
* rental counters, the recent-outcome mask and the hourly outcome rollup of `device_state.py`;
* the QR and report awards, one row per event; the hex blunting of a location; the
  arithmetic of a receipt claim; scalar fields of a profile; the Google token's verdict;
* the census of `api_fleet_reports.py` and its acknowledgements; summaries and exports;
* the fuzzy matching of street names; reverse geocoding; daily trips and spatial measures;
  retention of the rollup tables; one-off backfills and scrubs.

Transactions are atomic where the code locks before it reads, so lock order and the
aborts of deadlocked transactions do not appear.

Not to be modelled: favourites, plates, QR codes and recommendations, single statements
on which no other component depends; read-only APIs; routing and geocoding calls;
telemetry, start-up and migrations, campaigns and the e-mail provider, which keep no state
that the rest depends on. The texting service is external: `CommsReplies` has its rule of
consent, and its refusals are inputs of the senders.
