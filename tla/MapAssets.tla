------------------------------ MODULE MapAssets ------------------------------
(***************************************************************************)
(* The router's files (src/r2_map.py): the deploy's sidecar and a scheduled *)
(* run compare each object's ETag with the one beside the file, download to *)
(* a temporary name, rename and note the ETag.  The router keeps the tiles   *)
(* it built until an operator has it built again.  One file, its versions   *)
(* numbers.                                                                  *)
(***************************************************************************)
EXTENDS Naturals

CONSTANTS
    SyncJobs,       \* the sidecar, the scheduled run
    MaxVersion      \* bound

VARIABLES
    remote,         \* the object in the bucket, 0 when there is none
    target,         \* the file the router builds from, 0 when there is none
    tmp,            \* the file's .part
    etag,           \* the file's .etag
    syncing         \* each job

assetVars == <<remote, target, tmp, etag, syncing>>

NotSyncing == [at |-> "idle", saw |-> 0]

AssetsInit ==
    /\ remote = 0 /\ target = 0 /\ tmp = 0 /\ etag = 0
    /\ syncing = [j \in SyncJobs |-> NotSyncing]

UploadAsset ==
    /\ remote < MaxVersion
    /\ remote' = remote + 1
    /\ UNCHANGED <<target, tmp, etag, syncing>>

\* target.exists(), and the ETag beside it.
Unchanged(version) == target # 0 /\ etag = version

\* head_object; an object that is not there is skipped.
HeadAsset(j) ==
    /\ syncing[j] = NotSyncing
    /\ remote # 0 /\ ~Unchanged(remote)
    /\ syncing' = [syncing EXCEPT ![j] = [at |-> "seen", saw |-> remote]]
    /\ UNCHANGED <<remote, target, tmp, etag>>

\* What is downloaded is the object as it is now.
DownloadAsset(j) ==
    /\ syncing[j].at = "seen"
    /\ tmp' = remote
    /\ syncing' = [syncing EXCEPT ![j].at = "downloaded"]
    /\ UNCHANGED <<remote, target, etag>>

ReplaceAsset(j) ==
    /\ syncing[j].at = "downloaded" /\ tmp # 0
    /\ target' = tmp
    /\ tmp' = 0
    /\ syncing' = [syncing EXCEPT ![j].at = "replaced"]
    /\ UNCHANGED <<remote, etag>>

\* remote_etag: asked for before it.
RemoteEtag(j) == syncing[j].saw

NoteEtag(j) ==
    /\ syncing[j].at = "replaced"
    /\ etag' = RemoteEtag(j)
    /\ syncing' = [syncing EXCEPT ![j] = NotSyncing]
    /\ UNCHANGED <<remote, target, tmp>>

\* An error, caught for each object, or the container stopped.
AssetFails(j) ==
    /\ syncing[j] # NotSyncing
    /\ syncing' = [syncing EXCEPT ![j] = NotSyncing]
    /\ UNCHANGED <<remote, target, tmp, etag>>

AssetsNext ==
    \/ UploadAsset
    \/ \E j \in SyncJobs : HeadAsset(j) \/ DownloadAsset(j) \/ ReplaceAsset(j) \/ NoteEtag(j) \/ AssetFails(j)

AssetsSpec == AssetsInit /\ [][AssetsNext]_assetVars

AssetsTypeOK ==
    /\ remote \in 0 .. MaxVersion /\ target \in 0 .. MaxVersion
    /\ tmp \in 0 .. MaxVersion /\ etag \in 0 .. MaxVersion

\* A file taken for up to date is the object that is in the bucket, whatever was uploaded
\* between the comparison and the download, whichever runs overlap, wherever one stops
\* (_download_if_changed).
FileIsAsNoted == Unchanged(remote) /\ remote # 0 => target = remote
=============================================================================
