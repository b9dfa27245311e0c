----------------------------- MODULE IngestCycle -----------------------------
(***************************************************************************)
(* The observation cycle (src/cycle.py, src/ingest.py, src/compute.py,      *)
(* src/transmit.py) and the archive of its raw rows (src/archive.py): cycles *)
(* started by the crontab, each a sequence of commits, and a daily job that *)
(* exports the raw table to R2 and truncates it.                            *)
(*                                                                          *)
(* A cycle's number is its place in the order of snapshot_time, which is    *)
(* the time it started.  Supercronic does not start a line that is still    *)
(* running; two lines may overlap.  A process may be killed between any two *)
(* steps.  What the derived layers do with the feed is in the modules of    *)
(* those layers: here each has run or failed.                               *)
(***************************************************************************)
EXTENDS Naturals, FiniteSets

CONSTANTS
    Lines,         \* crontab lines that run ingest_cycle
    MaxCycles,     \* bound
    MaxFeeds       \* bound: the feed's versions

Cycles == 1 .. MaxCycles
Stages == {"fetch", "compute", "write", "derive", "transmit", "refresh", "ended"}
Statuses == {"in_progress", "upstream_failure", "stale_aborted", "internal_failure", "complete"}

VARIABLES
    feed,        \* the upstream's last_updated
    cycle,       \* observation_cycles, and where each cycle's process is
    snapshots,   \* cycles whose snapshot_metadata_core and metrics rows are committed
    raw,         \* cycles whose rows are in raw_telemetry_points
    lake,        \* cycles whose raw rows are in R2
    archive,     \* the archive job: where it is, and what it exported
    overtaken    \* history: cycles that wrote while the archive job was under way

cycleVars == <<feed, cycle, snapshots, raw, lake, archive, overtaken>>

NotStarted == [status |-> "none", stage |-> "ended", line |-> "none", payload |-> 0]
CycleRow == [status : Statuses \cup {"none"}, stage : Stages, line : Lines \cup {"none"},
             payload : 0 .. MaxFeeds]

CycleInit ==
    /\ feed = 1
    /\ cycle = [c \in Cycles |-> NotStarted]
    /\ snapshots = {}
    /\ raw = {}
    /\ lake = {}
    /\ archive = [at |-> "idle", exported |-> {}]
    /\ overtaken = {}

Started  == {c \in Cycles : cycle[c].status # "none"}
AtStage(s) == {c \in Started : cycle[c].stage = s}

-----------------------------------------------------------------------------
(* run_once.                                                                *)

FeedAdvances ==
    /\ feed < MaxFeeds
    /\ feed' = feed + 1
    /\ UNCHANGED <<cycle, snapshots, raw, lake, archive, overtaken>>

\* _start_cycle.
StartCycle(line) ==
    LET c == Cardinality(Started) + 1 IN
    /\ c \in Cycles
    /\ ~ \E d \in Started : cycle[d].line = line /\ cycle[d].stage # "ended"
    /\ cycle' = [cycle EXCEPT ![c] = [NotStarted EXCEPT !.status = "in_progress",
                                                        !.stage = "fetch", !.line = line]]
    /\ UNCHANGED <<feed, snapshots, raw, lake, archive, overtaken>>

End(c, status) == cycle' = [cycle EXCEPT ![c].stage = "ended", ![c].status = status]

UpstreamFails(c) ==
    /\ c \in AtStage("fetch")
    /\ End(c, "upstream_failure")
    /\ UNCHANGED <<feed, snapshots, raw, lake, archive, overtaken>>

\* previous_signature: of the complete cycle that started last.
Completed == {c \in Started : cycle[c].status = "complete"}
Previous  == IF Completed = {} THEN 0
             ELSE cycle[CHOOSE c \in Completed : \A d \in Completed : d <= c].payload
IsStale(payload) == payload = Previous

FetchFeed(c) ==
    /\ c \in AtStage("fetch")
    /\ IF IsStale(feed)
       THEN cycle' = [cycle EXCEPT ![c].payload = feed, ![c].stage = "ended",
                                   ![c].status = "stale_aborted"]
       ELSE cycle' = [cycle EXCEPT ![c].payload = feed, ![c].stage = "compute"]
    /\ UNCHANGED <<feed, snapshots, raw, lake, archive, overtaken>>

\* run_cycle: the snapshot's rows, in memory.
Compute(c) ==
    /\ c \in AtStage("compute")
    /\ cycle' = [cycle EXCEPT ![c].stage = "write"]
    /\ UNCHANGED <<feed, snapshots, raw, lake, archive, overtaken>>

\* write_to_postgres, one transaction.  Its rows carry the snapshot_time of the start.
WriteSnapshot(c) ==
    /\ c \in AtStage("write")
    /\ cycle' = [cycle EXCEPT ![c].stage = "derive"]
    /\ snapshots' = snapshots \cup {c}
    /\ raw' = raw \cup {c}
    /\ overtaken' = IF archive.at = "idle" THEN overtaken ELSE overtaken \cup {c}
    /\ UNCHANGED <<feed, lake, archive>>

\* The derived layers, each of which may fail by itself.
RunDerived(c) ==
    /\ c \in AtStage("derive")
    /\ cycle' = [cycle EXCEPT ![c].stage = "transmit"]
    /\ UNCHANGED <<feed, snapshots, raw, lake, archive, overtaken>>

\* fanout, and the cycle is complete whatever the endpoints answered.
Transmit(c) ==
    /\ c \in AtStage("transmit")
    /\ cycle' = [cycle EXCEPT ![c].stage = "refresh", ![c].status = "complete"]
    /\ UNCHANGED <<feed, snapshots, raw, lake, archive, overtaken>>

\* The analytics refresh, which never raises, and the return.
FinishCycle(c) ==
    /\ c \in AtStage("refresh")
    /\ cycle' = [cycle EXCEPT ![c].stage = "ended"]
    /\ UNCHANGED <<feed, snapshots, raw, lake, archive, overtaken>>

\* The top-level safety net.
CycleRaises(c) ==
    /\ c \in Started \ (AtStage("refresh") \cup AtStage("ended"))
    /\ End(c, "internal_failure")
    /\ UNCHANGED <<feed, snapshots, raw, lake, archive, overtaken>>

\* The process is killed: the row stays as it is.
CycleKilled(c) ==
    /\ c \in Started \ AtStage("ended")
    /\ cycle' = [cycle EXCEPT ![c].stage = "ended"]
    /\ UNCHANGED <<feed, snapshots, raw, lake, archive, overtaken>>

-----------------------------------------------------------------------------
(* run_archive.                                                             *)

\* archive_if_due, and the export of the table as it is.  An empty table ends the job.
ExportRaw ==
    /\ archive.at = "idle"
    /\ raw # {}
    /\ archive' = [at |-> "exported", exported |-> raw]
    /\ UNCHANGED <<feed, cycle, snapshots, raw, lake, overtaken>>

\* A crash from here to the truncation exports the same rows again, under another key.
UploadRaw ==
    /\ archive.at = "exported"
    /\ lake' = lake \cup archive.exported
    /\ archive' = [archive EXCEPT !.at = "uploaded"]
    /\ UNCHANGED <<feed, cycle, snapshots, raw, overtaken>>

ArchiveStops ==
    /\ archive.at # "idle"
    /\ archive' = [at |-> "idle", exported |-> {}]
    /\ UNCHANGED <<feed, cycle, snapshots, raw, lake, overtaken>>

\* Mutation: the table is emptied whether or not the upload has been answered.
TruncatedAnyway == archive.at # "idle"
Archived == archive.at = "uploaded"

TruncateRaw ==
    /\ Archived
    /\ raw' = {}
    /\ archive' = [at |-> "idle", exported |-> {}]
    /\ UNCHANGED <<feed, cycle, snapshots, lake, overtaken>>

ArchiveNext == ExportRaw \/ UploadRaw \/ ArchiveStops \/ TruncateRaw

CycleNext ==
    \/ FeedAdvances
    \/ \E line \in Lines : StartCycle(line)
    \/ \E c \in Cycles :
        \/ UpstreamFails(c) \/ FetchFeed(c) \/ Compute(c) \/ WriteSnapshot(c)
        \/ RunDerived(c) \/ Transmit(c)
        \/ CycleRaises(c) \/ CycleKilled(c)

-----------------------------------------------------------------------------
(* Properties.                                                              *)

CycleTypeOK ==
    /\ feed \in 1 .. MaxFeeds
    /\ cycle \in [Cycles -> CycleRow]
    /\ snapshots \subseteq Cycles
    /\ raw \subseteq Cycles
    /\ lake \subseteq Cycles
    /\ archive \in [at : {"idle", "exported", "uploaded"}, exported : SUBSET Cycles]
    /\ overtaken \subseteq snapshots

\* What a cycle has written is in the table until it is in R2, whatever uploads, crashes and
\* retries the archive job goes through, unless the cycle wrote while the job was between
\* its export and its truncation (run_archive: the truncation takes rows no export read).
RawRowsKeptUnlessOvertaken == snapshots \subseteq raw \cup lake \cup overtaken
=============================================================================
