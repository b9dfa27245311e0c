------------------------------- MODULE Images -------------------------------
(***************************************************************************)
(* The images riders upload, and what removes them.  An upload PUTs its     *)
(* object to R2 before the row that names it commits (receipts, model       *)
(* photos, ride screenshots, device photos); a ride screenshot replaces the *)
(* one before it.  Objects go with the retention jobs (src/cli.py), with    *)
(* the deletion of their ride or account, and last with the weekly sweep    *)
(* (src/image_sweep.py), which deletes what no row names.                   *)
(***************************************************************************)
EXTENDS Naturals, FiniteSets

CONSTANTS
    Keys,          \* object keys; every upload takes a new one
    Shots,         \* ride screenshots: a (ride, type) with one row
    Photos,        \* device photos of one vehicle: a row each
    Receipts,      \* receipts and the photos of model reports: a row each
    Uploads,       \* upload requests that may be in flight
    PhotosPerDevice,  \* MAX_PHOTOS_PER_DEVICE
    BreakerMinCount   \* BREAKER_MIN_COUNT

Records == Shots \cup Photos \cup Receipts
NoKey   == "no_key"

VARIABLES
    object,        \* R2: "unused", "young" (within GRACE), "old", "gone"
    record,        \* the rows, and whether retention is due
    gone,          \* what has been deleted of the account and its ride
    cleaning,      \* the retention job: the rows it found due, with their keys
    upload,        \* requests
    sweep          \* the weekly sweep

imageVars == <<object, record, gone, cleaning, upload, sweep>>

Stored == {k \in Keys : object[k] \in {"young", "old"}}
Named  == {record[s].key : s \in Records} \ {NoKey}

NoRecord == [key |-> NoKey, due |-> FALSE]
NoUpload == [stage |-> "idle", record |-> NoKey, old |-> NoKey, new |-> NoKey]
NoSweep  == [stage |-> "idle", listed |-> {}, orphans |-> {}]

ImagesInit ==
    /\ object = [k \in Keys |-> "unused"]
    /\ record = [s \in Records |-> NoRecord]
    /\ gone = {}
    /\ cleaning = {}
    /\ upload = [u \in Uploads |-> NoUpload]
    /\ sweep = NoSweep

ImagesTypeOK ==
    /\ object \in [Keys -> {"unused", "young", "old", "gone"}]
    /\ record \in [Records -> [key : Keys \cup {NoKey}, due : BOOLEAN]]
    /\ gone \subseteq {"ride", "account"}
    /\ cleaning \subseteq Records \X Keys
    /\ \A u \in Uploads : upload[u].stage \in {"idle", "read", "stored", "committed", "failed"}
    /\ sweep.stage \in {"idle", "listed", "read"}

-----------------------------------------------------------------------------
(* Uploads *)

Kept(s) == "account" \notin gone /\ (s \in Shots => "ride" \notin gone)

Upload(u, stage, s, old, new) ==
    upload' = [upload EXCEPT ![u] = [stage |-> stage, record |-> s, old |-> old, new |-> new]]

\* upload_device_photo holds the vehicle's advisory lock from here to the end
\* of its transaction, and counts the photos under it; upload_ride_screenshot
\* reads the key it will replace, and locks nothing.
VehicleLocked == \E u \in Uploads : /\ upload[u].stage \in {"read", "stored"}
                                    /\ upload[u].record \in Photos
Visible == {s \in Photos : record[s].key # NoKey}

ReadPhotos(u, s) ==
    /\ upload[u] = NoUpload
    /\ Kept(s)
    /\ s \in Photos /\ record[s].key = NoKey
    /\ ~VehicleLocked
    /\ Cardinality(Visible) < PhotosPerDevice
    /\ Upload(u, "read", s, NoKey, NoKey)
    /\ UNCHANGED <<object, record, gone, cleaning, sweep>>

ReadShot(u, s) ==
    /\ upload[u] = NoUpload
    /\ Kept(s)
    /\ s \in Shots
    /\ Upload(u, "read", s, record[s].key, NoKey)
    /\ UNCHANGED <<object, record, gone, cleaning, sweep>>

\* _submit_receipt_claim, submit_model_report: no lock, and no row to count.
ReadForm(u, s) ==
    /\ upload[u] = NoUpload
    /\ Kept(s)
    /\ s \in Receipts /\ record[s].key = NoKey
    /\ \A v \in Uploads : upload[v].record # s
    /\ Upload(u, "read", s, NoKey, NoKey)
    /\ UNCHANGED <<object, record, gone, cleaning, sweep>>

\* store_device_photo, store_screenshot, store_receipt, store_model_photo.
Put(u, k) ==
    /\ upload[u].stage = "read"
    /\ object[k] = "unused"
    /\ object' = [object EXCEPT ![k] = "young"]
    /\ Upload(u, "stored", upload[u].record, upload[u].old, k)
    /\ UNCHANGED <<record, gone, cleaning, sweep>>

\* INSERT (or the screenshot's upsert) and COMMIT; the row's foreign keys
\* refuse an account or a ride deleted since.  A screenshot that is replaced
\* keeps its created_at, and with it when retention is due.
InsertRow(u) ==
    /\ upload[u].stage = "stored"
    /\ LET up == upload[u] IN
          IF Kept(up.record)
          THEN /\ record' = [record EXCEPT ![up.record].key = up.new]
               /\ Upload(u, "committed", up.record, up.old, up.new)
          ELSE /\ Upload(u, "failed", up.record, up.old, up.new)
               /\ UNCHANGED record
    /\ UNCHANGED <<object, gone, cleaning, sweep>>

\* _device_coords, for an upload that sent no usable coordinates: it names a
\* column that device_state does not have, and the transaction fails.
LocatePhoto(u) ==
    /\ upload[u].stage = "stored"
    /\ upload[u].record \in Photos
    /\ Upload(u, "failed", upload[u].record, NoKey, upload[u].new)
    /\ UNCHANGED <<object, record, gone, cleaning, sweep>>

\* delete_device_photo, delete_receipt after any failure; upload_ride_screenshot
\* cleans up only after an HTTPException, which a failed INSERT is not.
CleanUp(u) ==
    /\ upload[u].stage = "failed"
    /\ \/ object' = [object EXCEPT ![upload[u].new] =
             IF upload[u].record \in Shots THEN @ ELSE "gone"]
       \/ UNCHANGED object
    /\ upload' = [upload EXCEPT ![u] = NoUpload]
    /\ UNCHANGED <<record, gone, cleaning, sweep>>

\* The superseded screenshot's object is deleted after the commit, or is not.
DropSuperseded(u) ==
    /\ upload[u].stage = "committed"
    /\ \/ object' = [k \in Keys |-> IF k = upload[u].old /\ k # upload[u].new
                                    THEN "gone" ELSE object[k]]
       \/ UNCHANGED object
    /\ upload' = [upload EXCEPT ![u] = NoUpload]
    /\ UNCHANGED <<record, gone, cleaning, sweep>>

\* The process dies: the transaction is rolled back, the object stays.
UploadDies(u) ==
    /\ upload[u].stage # "idle"
    /\ upload' = [upload EXCEPT ![u] = NoUpload]
    /\ UNCHANGED <<object, record, gone, cleaning, sweep>>

-----------------------------------------------------------------------------
(* Deletion and retention *)

\* delete_one_ride: the screenshots' rows cascade, and their objects follow
\* the commit (delete_screenshots_best_effort), less those R2 fails to delete.
DeleteRide ==
    /\ gone = {}
    /\ gone' = {"ride"}
    /\ record' = [s \in Records |-> IF s \in Shots THEN NoRecord ELSE record[s]]
    /\ \E missed \in SUBSET {record[s].key : s \in Shots} :
          object' = [k \in Keys |-> IF k \in {record[s].key : s \in Shots} \ missed
                                    THEN "gone" ELSE object[k]]
    /\ UNCHANGED <<cleaning, upload, sweep>>

\* delete_account up to its COMMIT, and its step 3: everything under the
\* account's prefixes by then.
DeleteAccount ==
    /\ "account" \notin gone
    /\ gone' = gone \cup {"account"}
    /\ record' = [s \in Records |-> NoRecord]
    /\ UNCHANGED <<object, cleaning, upload, sweep>>

PurgeAccount ==
    /\ "account" \in gone
    /\ \E found \in SUBSET Stored :
          object' = [k \in Keys |-> IF k \in found THEN "gone" ELSE object[k]]
    /\ UNCHANGED <<record, gone, cleaning, upload, sweep>>

\* 18 months after created_at.
RetentionDue(s) ==
    /\ record[s].key # NoKey /\ object[record[s].key] # "young"
    /\ ~record[s].due
    /\ record' = [record EXCEPT ![s].due = TRUE]
    /\ UNCHANGED <<object, gone, cleaning, upload, sweep>>

\* cleanup_receipts, cleanup_ride_screenshots, cleanup_model_report_photos:
\* the rows are read, the objects deleted, and the rows then by their ids.
FindDue ==
    /\ cleaning = {}
    /\ cleaning' = {<<s, record[s].key>> : s \in {r \in Records : record[r].due}}
    /\ UNCHANGED <<object, record, gone, upload, sweep>>

DeleteDue(s, k) ==
    /\ <<s, k>> \in cleaning
    /\ object' = [object EXCEPT ![k] = "gone"]
    /\ UNCHANGED <<record, gone, cleaning, upload, sweep>>

CommitDue ==
    /\ cleaning # {}
    /\ \E done \in SUBSET {c \in cleaning : object[c[2]] = "gone"} :
          record' = [s \in Records |-> IF \E c \in done : c[1] = s THEN NoRecord ELSE record[s]]
    /\ cleaning' = {}
    /\ UNCHANGED <<object, gone, upload, sweep>>

-----------------------------------------------------------------------------
(* The sweep *)

\* GRACE has passed since the PUT; no request lasts that long.
Age(k) ==
    /\ object[k] = "young"
    /\ \A u \in Uploads : upload[u].new # k
    /\ object' = [object EXCEPT ![k] = "old"]
    /\ UNCHANGED <<record, gone, cleaning, upload, sweep>>

\* Mutation: whatever is listed may be taken, however young.
NoGrace(k) == k \in Stored

PastGrace(k) == object[k] = "old"

\* list_objects, before the rows are read; LastModified comes with it.
List ==
    /\ sweep = NoSweep
    /\ sweep' = [stage |-> "listed", listed |-> Stored,
                 orphans |-> {k \in Stored : PastGrace(k)}]
    /\ UNCHANGED <<object, record, gone, cleaning, upload>>

\* referenced_keys
ReadReferences ==
    /\ sweep.stage = "listed"
    /\ sweep' = [sweep EXCEPT !.stage = "read", !.orphans = @ \ Named]
    /\ UNCHANGED <<object, record, gone, cleaning, upload>>

Tripped == /\ Cardinality(sweep.orphans) > BreakerMinCount
           /\ 2 * Cardinality(sweep.orphans) > Cardinality(sweep.listed)

\* delete_keys, batch by batch: some may fail, and a dry run, a tripped
\* breaker without --force or a crash leaves them all.
DeleteOrphans ==
    /\ sweep.stage = "read"
    /\ \E force \in BOOLEAN : \E taken \in SUBSET sweep.orphans :
          /\ Tripped /\ ~force => taken = {}
          /\ object' = [k \in Keys |-> IF k \in taken THEN "gone" ELSE object[k]]
    /\ sweep' = NoSweep
    /\ UNCHANGED <<record, gone, cleaning, upload>>

ImagesNext ==
    \/ \E u \in Uploads, s \in Records : ReadPhotos(u, s) \/ ReadShot(u, s) \/ ReadForm(u, s)
    \/ \E u \in Uploads, k \in Keys : Put(u, k)
    \/ \E u \in Uploads :
          InsertRow(u) \/ LocatePhoto(u) \/ CleanUp(u) \/ DropSuperseded(u) \/ UploadDies(u)
    \/ DeleteRide \/ DeleteAccount \/ PurgeAccount
    \/ \E s \in Records : RetentionDue(s)
    \/ \E s \in Records, k \in Keys : DeleteDue(s, k)
    \/ FindDue \/ CommitDue
    \/ \E k \in Keys : Age(k)
    \/ List \/ ReadReferences \/ DeleteOrphans

-----------------------------------------------------------------------------
(* Properties *)

\* No row loses its image before retention is due: not to the sweep while the
\* row was committing, not to the replacing of a screenshot by two requests at
\* once, not to the cleaning up of an upload that failed.
RowKeepsItsImage ==
    \A s \in Records : record[s].key # NoKey /\ ~record[s].due => record[s].key \in Stored

\* "a client that sends garbage coordinates (or none) still gets its upload
\* stored" (_form_coords).
UploadIsStored ==
    \A u \in Uploads : upload[u].stage = "failed" => ~Kept(upload[u].record)
=============================================================================
