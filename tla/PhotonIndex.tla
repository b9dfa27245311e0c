----------------------------- MODULE PhotonIndex -----------------------------
(***************************************************************************)
(* The geocoder's index (src/r2_map.py).  A job lists the bucket, downloads *)
(* the newest build, unpacks it in a directory of its own and renames that   *)
(* to the staged one; the deploy's sidecar and the nightly run share the    *)
(* volume and take no lock.  An operator promotes what is staged.           *)
(*                                                                          *)
(* A build is a number, a directory the set of build parts in it; removing  *)
(* a directory is one step.                                                 *)
(***************************************************************************)
EXTENDS Naturals, FiniteSets

CONSTANTS
    IndexJobs,      \* the sidecar, the scheduled run
    MaxBuild        \* bound

VARIABLES
    published,      \* the newest build in the bucket, 0 when there is none
    disk,           \* the volume's directories
    tarball,        \* the build of photon-index.tar.zst.part, 0 when absent
    marker,         \* photon-index.etag
    job,
    crossed         \* two jobs were at work at once

photonVars == <<published, disk, tarball, marker, job, crossed>>

Dirs == {"extract", "staged", "replacing", "live", "old"}
Absent == [there |-> FALSE, has |-> {}]
Empty  == [there |-> TRUE, has |-> {}]
Members  == {1, 2}
Whole(b) == [there |-> TRUE, has |-> {<<b, part>> : part \in Members}]
IdleJob == [at |-> "idle", build |-> 0, reads |-> 0]

PhotonInit ==
    /\ published = 0
    /\ disk = [d \in Dirs |-> Absent]
    /\ tarball = 0
    /\ marker = 0
    /\ job = [j \in IndexJobs |-> IdleJob]
    /\ crossed = FALSE

-----------------------------------------------------------------------------
(* sync_photon_index. *)

Publish ==
    /\ published < MaxBuild
    /\ published' = published + 1
    /\ UNCHANGED <<disk, tarball, marker, job, crossed>>

\* _newest_photon_index, _read_photon_marker: nothing to do when it is staged already.
StartSync(j) ==
    /\ job[j].at = "idle"
    /\ published # 0
    /\ ~(disk["staged"].there /\ marker = published)
    /\ job' = [job EXCEPT ![j] = [at |-> "listed", build |-> published, reads |-> 0]]
    /\ crossed' = (crossed \/ \E i \in IndexJobs \ {j} : job[i] # IdleJob)
    /\ UNCHANGED <<published, disk, tarball, marker>>

Step(j, from, to) ==
    /\ job[j].at = from
    /\ job' = [job EXCEPT ![j].at = to]
    /\ UNCHANGED <<published, crossed>>

\* download_file puts the file in place when it is complete.
Download(j) ==
    /\ Step(j, "listed", "downloaded")
    /\ tarball' = job[j].build
    /\ UNCHANGED <<disk, marker>>

\* .photon_index_extract.
ExtractDir == "extract"

ClearExtract(j) ==
    /\ Step(j, "downloaded", "cleared")
    /\ disk' = [disk EXCEPT ![ExtractDir] = Empty]
    /\ UNCHANGED <<tarball, marker>>

\* open(archive): what is read from here on is this file.
OpenArchive(j) ==
    /\ job[j].at = "cleared"
    /\ tarball # 0
    /\ job' = [job EXCEPT ![j].at = "opened", ![j].reads = tarball]
    /\ UNCHANGED <<published, crossed, disk, tarball, marker>>

\* extractall, the directory made again if it is gone.
Extract(j, part, from, to) ==
    /\ Step(j, from, to)
    /\ disk' = [disk EXCEPT ![ExtractDir] =
            [there |-> TRUE, has |-> @.has \cup {<<job[j].reads, part>>}]]
    /\ UNCHANGED <<tarball, marker>>

MoveAside(j) ==
    /\ Step(j, "extracted", "aside")
    /\ disk[ExtractDir].has # {}
    /\ disk' = IF disk["staged"].there
               THEN [disk EXCEPT !["replacing"] = disk["staged"], !["staged"] = Absent]
               ELSE [disk EXCEPT !["replacing"] = Absent]
    /\ UNCHANGED <<tarball, marker>>

PutInPlace(j) ==
    /\ Step(j, "aside", "placed")
    /\ disk["extract"].has # {} /\ disk["staged"].has = {}
    /\ disk' = [disk EXCEPT !["staged"] = disk["extract"], !["extract"] = Empty]
    /\ UNCHANGED <<tarball, marker>>

CleanUp(j) ==
    /\ Step(j, "placed", "unpacked")
    /\ disk' = [disk EXCEPT !["replacing"] = Absent, !["extract"] = Absent]
    /\ tarball' = 0
    /\ UNCHANGED marker

WriteMarker(j) ==
    /\ job[j].at = "unpacked"
    /\ marker' = job[j].build
    /\ job' = [job EXCEPT ![j] = IdleJob]
    /\ UNCHANGED <<published, disk, tarball, crossed>>

\* An error at any step before the marker: the tarball goes, the rest stays as it is.
SyncFails(j) ==
    /\ job[j].at \notin {"idle", "unpacked"}
    /\ tarball' = 0
    /\ job' = [job EXCEPT ![j] = IdleJob]
    /\ UNCHANGED <<published, disk, marker, crossed>>

\* The container is stopped.
SyncDies(j) ==
    /\ job[j] # IdleJob
    /\ job' = [job EXCEPT ![j] = IdleJob]
    /\ UNCHANGED <<published, disk, tarball, marker, crossed>>

-----------------------------------------------------------------------------
(* The operator's sequence, as sync_photon_index's comment gives it. *)

Move(from, to) == [disk EXCEPT ![to] = disk[from], ![from] = Absent]

SetLiveAside ==
    /\ disk["live"].there /\ ~disk["old"].there /\ disk["staged"].there
    /\ disk' = Move("live", "old")
    /\ UNCHANGED <<published, tarball, marker, job, crossed>>

PromoteStaged ==
    /\ ~disk["live"].there /\ disk["staged"].there
    /\ disk' = Move("staged", "live")
    /\ UNCHANGED <<published, tarball, marker, job, crossed>>

\* Verified.
RemoveOld ==
    /\ disk["live"].there /\ disk["old"].there
    /\ disk' = [disk EXCEPT !["old"] = Absent]
    /\ UNCHANGED <<published, tarball, marker, job, crossed>>

\* Not verified: the two moves reversed.
UndoPromotion ==
    /\ disk["live"].there /\ disk["old"].there /\ ~disk["staged"].there
    /\ disk' = [disk EXCEPT !["staged"] = disk["live"], !["live"] = disk["old"], !["old"] = Absent]
    /\ UNCHANGED <<published, tarball, marker, job, crossed>>

PhotonNext ==
    \/ Publish
    \/ \E j \in IndexJobs :
          \/ StartSync(j) \/ Download(j) \/ ClearExtract(j) \/ OpenArchive(j)
          \/ Extract(j, 1, "opened", "half") \/ Extract(j, 2, "half", "extracted")
          \/ MoveAside(j) \/ PutInPlace(j) \/ CleanUp(j) \/ WriteMarker(j)
          \/ SyncFails(j) \/ SyncDies(j)
    \/ SetLiveAside \/ PromoteStaged \/ RemoveOld \/ UndoPromotion

PhotonSpec == PhotonInit /\ [][PhotonNext]_photonVars

-----------------------------------------------------------------------------
(* Properties. *)

IndexBuilds == 1 .. MaxBuild

PhotonTypeOK ==
    /\ published \in 0 .. MaxBuild /\ tarball \in 0 .. MaxBuild /\ marker \in 0 .. MaxBuild
    /\ disk \in [Dirs -> [there : BOOLEAN, has : SUBSET (IndexBuilds \X Members)]]
    /\ \A j \in IndexJobs : job[j].build \in 0 .. MaxBuild

\* As long as no two jobs crossed, whatever crashed and whenever the operator promoted: what
\* may be served is one whole build, and a build the marker remembers as done is the one
\* that is staged, "so a truncated download or a failed unpack is retried on the next run
\* instead of being remembered as done" (_stage_photon_index, sync_photon_index).
ServedIndexIsWhole == ~crossed =>
    /\ \A d \in {"staged", "live", "old"} :
          disk[d].there => \E b \in IndexBuilds : disk[d] = Whole(b)
    /\ (published # 0 /\ marker = published /\ disk["staged"].there) => disk["staged"] = Whole(published)
=============================================================================
