----------------------------- MODULE Compliance ------------------------------
(***************************************************************************)
(* The daily compliance row (src/daily_sla.py) and the reprocessing of past *)
(* days (src/equity_backfill.py): the average of the window's snapshots is  *)
(* read and written in two transactions, a reprocess rewrites the snapshots *)
(* it can reconstruct, re-averages, and records a verdict when it can       *)
(* reconstruct none.                                                        *)
(*                                                                          *)
(* One day.  A snapshot's figure is told apart by where it comes from, and  *)
(* an average by the snapshots it is over.  Whether a snapshot passes the    *)
(* fidelity gate depends on a history that cycles and clean-ups still       *)
(* change, so it may differ from one run to the next.                       *)
(***************************************************************************)
EXTENDS FiniteSets

CONSTANTS
    WindowSnapshots,     \* the day's 6-9 AM snapshots
    SlaJobs,             \* processes: daily_sla, the nightly sweep, the manual command
    Sweeps               \* those of them that take the day from their list

VARIABLES
    figure,      \* snapshot_metadata_core: where each snapshot's equity figure is from
    sla,         \* daily_sla_compliance: the day's row
    slaJob,      \* each process: where it is, what it has read
    windowOver   \* the wall clock

slaVars == <<figure, sla, slaJob, windowOver>>

NoAverage == {}
NoJob == [at |-> "idle", read |-> NoAverage, verdict |-> "none"]

SlaRow == [exists : BOOLEAN, average : SUBSET WindowSnapshots,
           verdict : {"none", "low_fidelity", "no_history"}]
JobRow == [at : {"idle", "listed", "rewriting", "averaging", "averaged", "concluding"},
           read : SUBSET WindowSnapshots, verdict : {"none", "low_fidelity", "no_history"}]

SlaInit ==
    /\ figure = [s \in WindowSnapshots |-> "absent"]
    /\ sla = [exists |-> FALSE, average |-> NoAverage, verdict |-> "none"]
    /\ slaJob = [j \in SlaJobs |-> NoJob]
    /\ windowOver = FALSE

WithFigure == {s \in WindowSnapshots : figure[s] \in {"live", "rebuilt"}}
Present  == {s \in WindowSnapshots : figure[s] # "absent"}

Goto(j, row) == slaJob' = [slaJob EXCEPT ![j] = row]

-----------------------------------------------------------------------------

\* A cycle's snapshot is committed, with a figure or (before the deploy) with none.  One
\* that started in the window may be late.
CommitSnapshot(s, measured) ==
    /\ figure[s] = "absent"
    /\ figure' = [figure EXCEPT ![s] = IF measured THEN "live" ELSE "null"]
    /\ UNCHANGED <<sla, slaJob, windowOver>>

WindowEnds ==
    /\ ~windowOver
    /\ windowOver' = TRUE
    /\ UNCHANGED <<figure, sla, slaJob>>

\* run_daily and the range backfill: compute_for_date alone.
StartDailySla(j) ==
    /\ j \notin Sweeps /\ slaJob[j].at = "idle"
    /\ Goto(j, [NoJob EXCEPT !.at = "averaging"])
    /\ UNCHANGED <<figure, sla, windowOver>>

\* days_needing_reprocess: past days with a row and no figure.  The sweep lists them once and
\* comes to this one later.
ListBacklog(j) ==
    /\ j \in Sweeps /\ slaJob[j].at = "idle"
    /\ windowOver /\ sla.exists /\ sla.average = NoAverage
    /\ Goto(j, [NoJob EXCEPT !.at = "listed"])
    /\ UNCHANGED <<figure, sla, windowOver>>

\* reprocess_date, of a listed day or, by the manual command, of any.  Nothing is done for a
\* day with no snapshots, and an open window gets no verdict.
SlaVerdict(passing, checked) == IF passing # {} \/ ~windowOver THEN "none"
                             ELSE IF checked THEN "low_fidelity" ELSE "no_history"

\* reconstruct_snapshots, with what tag_equity_membership, fleet_at and rebuild_metrics
\* measure abstracted to a choice of the snapshots that pass the gate.
Rebuildable == SUBSET Present

StartReprocess(j, passing, checked) ==
    /\ slaJob[j].at = IF j \in Sweeps THEN "listed" ELSE "idle"
    /\ Present # {}
    /\ passing \in Rebuildable
    /\ Goto(j, [at |-> IF passing = {} THEN "concluding" ELSE "rewriting", read |-> passing,
                verdict |-> SlaVerdict(passing, checked)])
    /\ UNCHANGED <<figure, sla, windowOver>>

\* _write_metrics, one transaction.
RewriteFigures(j) ==
    /\ slaJob[j].at = "rewriting"
    /\ figure' = [s \in WindowSnapshots |-> IF s \in slaJob[j].read THEN "rebuilt" ELSE figure[s]]
    /\ Goto(j, [NoJob EXCEPT !.at = "averaging"])
    /\ UNCHANGED <<sla, windowOver>>

\* compute_for_date: AVG skips the snapshots without a figure.
ReadAverage(j) ==
    /\ slaJob[j].at = "averaging"
    /\ Goto(j, [NoJob EXCEPT !.at = "averaged", !.read = WithFigure])
    /\ UNCHANGED <<figure, sla, windowOver>>

\* _clear_unmeasurable_clause.
VerdictWith(average) == IF average = NoAverage THEN sla.verdict ELSE "none"

UpsertAverage(j) ==
    /\ slaJob[j].at = "averaged"
    /\ sla' = [exists |-> TRUE, average |-> slaJob[j].read, verdict |-> VerdictWith(slaJob[j].read)]
    /\ Goto(j, NoJob)
    /\ UNCHANGED <<figure, windowOver>>

\* _record_unmeasurable: only on a row that exists and has no figure.
MayRecord == sla.exists /\ sla.average = NoAverage

ConcludeUnmeasurable(j) ==
    /\ slaJob[j].at = "concluding"
    /\ sla' = IF MayRecord /\ slaJob[j].verdict # "none"
              THEN [sla EXCEPT !.verdict = slaJob[j].verdict] ELSE sla
    /\ Goto(j, NoJob)
    /\ UNCHANGED <<figure, windowOver>>

\* The process dies, or a statement fails; the sweep goes on with the other days, as it does when a listed day has no snapshots.
JobDies(j) ==
    /\ slaJob[j].at # "idle"
    /\ Goto(j, NoJob)
    /\ UNCHANGED <<figure, sla, windowOver>>

SlaNext ==
    \/ \E s \in WindowSnapshots, measured \in BOOLEAN : CommitSnapshot(s, measured)
    \/ WindowEnds
    \/ \E j \in SlaJobs : ListBacklog(j) \/ StartDailySla(j) \/ RewriteFigures(j) \/ ReadAverage(j)
                          \/ UpsertAverage(j) \/ ConcludeUnmeasurable(j) \/ JobDies(j)
    \/ \E j \in SlaJobs, passing \in SUBSET WindowSnapshots, checked \in BOOLEAN :
            StartReprocess(j, passing, checked)

SlaSpec == SlaInit /\ [][SlaNext]_slaVars

-----------------------------------------------------------------------------
(* Properties.                                                              *)

SlaTypeOK ==
    /\ figure \in [WindowSnapshots -> {"absent", "null", "live", "rebuilt"}]
    /\ sla \in SlaRow
    /\ slaJob \in [SlaJobs -> JobRow]
    /\ windowOver \in BOOLEAN

\* The row never carries a figure and the claim that there is none, whichever jobs overlap;
\* and a day that is still open is not called unmeasurable (_clear_unmeasurable_clause, "a
\* row can never carry both"; reprocess_date, "must not stamp a still-open day").
FigureOrVerdict ==
    sla.verdict # "none" => sla.average = NoAverage /\ windowOver /\ sla.exists
=============================================================================
