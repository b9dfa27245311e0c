------------------------------- MODULE Rollups -------------------------------
(***************************************************************************)
(* The rollup of the vehicles per region (src/analytics_rollups.py): sums   *)
(* over the cycles' snapshots, which a transaction folds in as it moves the *)
(* watermark past them.  Composes with IngestCycle: the refresh is a        *)
(* cycle's last step, and the backfill runs beside the cycles.  Two lines   *)
(* of the crontab overlap, so a cycle may commit after one that started     *)
(* later.  The rides' rollup has ids as its watermark, which overlapping    *)
(* cycles commit in order (they wait for each other on device_state's rows).*)
(***************************************************************************)
EXTENDS IngestCycle

CONSTANTS
    RegionStep     \* CYCLE_REGION_WINDOW, in cycles

VARIABLES
    watermark,     \* analytics_rollup_state: region_devices
    folded         \* how often each cycle's region rows were added to the sums

rollupVars == <<watermark, folded>>

RollupsInit ==
    /\ CycleInit
    /\ watermark = 0
    /\ folded = [c \in Cycles |-> 0]

-----------------------------------------------------------------------------
(* refresh: one transaction, with the advisory lock.                        *)

Newest == IF snapshots = {} THEN 0 ELSE CHOOSE c \in snapshots : \A d \in snapshots : d <= c

\* Mutation: the watermark follows the clock, past a cycle that is being written.
UpToNow(step) == Cardinality(Started)
UpTo(step) == IF Newest > watermark + step THEN watermark + step ELSE Newest

\* refresh_region_devices: a window of snapshot_time from the watermark, up to the newest.
FoldRegions(step) ==
    IF UpTo(step) <= watermark THEN UNCHANGED <<watermark, folded>>
    ELSE /\ watermark' = UpTo(step)
         /\ folded' = [c \in Cycles |->
                folded[c] + IF c \in snapshots /\ watermark < c /\ c <= UpTo(step) THEN 1 ELSE 0]

CycleRefresh(c) ==
    /\ FinishCycle(c)
    /\ FoldRegions(RegionStep)

\* The backfill has the lock, or a statement ran out of time: nothing is folded.
CycleSkipsRefresh(c) ==
    /\ FinishCycle(c)
    /\ UNCHANGED rollupVars

BackfillPass ==
    /\ FoldRegions(MaxCycles)
    /\ UNCHANGED cycleVars

RollupsNext ==
    \/ CycleNext /\ UNCHANGED rollupVars
    \/ ArchiveNext /\ UNCHANGED rollupVars
    \/ \E c \in Cycles : CycleRefresh(c) \/ CycleSkipsRefresh(c)
    \/ BackfillPass

RollupsSpec == RollupsInit /\ [][RollupsNext]_<<cycleVars, rollupVars>>

-----------------------------------------------------------------------------
(* Properties.                                                              *)

RollupsTypeOK ==
    /\ CycleTypeOK
    /\ watermark \in 0 .. MaxCycles
    /\ folded \in [Cycles -> Nat]

\* A cycle that started later has committed, and everything that started since is of
\* another line than this one: this one may have been under way all the while.
PassedOver(c) ==
    \E d \in snapshots : d > c /\ \A e \in c + 1 .. d : cycle[e].line # cycle[c].line

\* A snapshot is folded in once at most, and never one ahead of the watermark; one behind it
\* is folded in unless a cycle of the other line could pass it over, as it committed behind
\* the watermark (refresh: "a crash re-processes nothing twice and skips nothing").
FoldedUnlessPassedOver ==
    \A c \in Cycles :
        IF c \in snapshots /\ c <= watermark
        THEN folded[c] = 1 \/ (folded[c] = 0 /\ PassedOver(c))
        ELSE folded[c] = 0
=============================================================================
