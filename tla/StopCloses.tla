----------------------------- MODULE StopCloses ------------------------------
(***************************************************************************)
(* The rollup of failed starts and dwell (src/analytics_rollups.py and the  *)
(* queue its SQL reads): every close of a stop is queued by a trigger, taken *)
(* back when the stop is reopened, and added to the sums after a settle; the *)
(* stops that were closed when the migration ran are swept once.            *)
(***************************************************************************)
EXTENDS Naturals

CONSTANTS
    Stops,         \* rows of device_history
    MaxCounts      \* bound: how often one stop is counted

VARIABLES
    stop,          \* each stop: whether it is open, and was closed at the migration
    closes,        \* analytics_stop_closes: stops with a queued close, settled or not
    swept,         \* whether the sweep of the old closes is done
    counted,       \* how often each stop was added to the sums
    lateReopen     \* stops reopened when their close was no longer queued

stopVars == <<stop, closes, swept, counted, lateReopen>>

StopRow == [open : BOOLEAN, old : BOOLEAN, backdated : BOOLEAN]

\* `old`: closed when the migration ran.  A backdated departed_at lies before that.
StopsInit ==
    /\ stop \in [Stops -> {[open |-> TRUE, old |-> FALSE, backdated |-> FALSE],
                           [open |-> FALSE, old |-> TRUE, backdated |-> TRUE]}]
    /\ closes = [s \in Stops |-> "none"]
    /\ swept = FALSE
    /\ counted = [s \in Stops |-> 0]
    /\ lateReopen = {}

-----------------------------------------------------------------------------

\* Any close, by a cycle or by close_ghost_stops, is queued by the trigger; its
\* departed_at may be far in the past.
CloseStop(s, backdated) ==
    /\ stop[s].open
    /\ stop' = [stop EXCEPT ![s].open = FALSE, ![s].backdated = backdated]
    /\ closes' = [closes EXCEPT ![s] = "queued"]
    /\ UNCHANGED <<swept, counted, lateReopen>>

Unqueued(s) == [closes EXCEPT ![s] = "none"]

\* An in-place release: the close is undone, and taken out of the queue.
ReopenStop(s) ==
    /\ ~stop[s].open
    /\ stop' = [stop EXCEPT ![s].open = TRUE]
    /\ closes' = Unqueued(s)
    /\ lateReopen' = IF closes[s] = "none" THEN lateReopen \cup {s} ELSE lateReopen
    /\ counted[s] < MaxCounts
    /\ UNCHANGED <<swept, counted>>

\* DEPARTURE_LAG has passed.
CloseSettles(s) ==
    /\ closes[s] = "queued"
    /\ closes' = [closes EXCEPT ![s] = "settled"]
    /\ UNCHANGED <<stop, swept, counted, lateReopen>>

\* refresh_stops: the old closes once, without the stops that the queue owns.
OldCloses == {s \in Stops : stop[s].old /\ ~stop[s].open /\ stop[s].backdated}

Due == {s \in Stops : closes[s] = "settled"}

FoldStops ==
    /\ counted' = [s \in Stops |-> counted[s]
                        + (IF s \in Due /\ ~stop[s].open THEN 1 ELSE 0)
                        + (IF ~swept /\ s \in OldCloses THEN 1 ELSE 0)]
    /\ closes' = [s \in Stops |-> IF s \in Due THEN "none" ELSE closes[s]]
    /\ swept' = TRUE
    /\ UNCHANGED <<stop, lateReopen>>

StopsNext ==
    \/ FoldStops
    \/ \E s \in Stops : ReopenStop(s) \/ CloseSettles(s)
    \/ \E s \in Stops, backdated \in BOOLEAN : CloseStop(s, backdated)

StopsSpec == StopsInit /\ [][StopsNext]_stopVars

-----------------------------------------------------------------------------
(* Properties.                                                              *)

StopsTypeOK ==
    /\ stop \in [Stops -> StopRow]
    /\ closes \in [Stops -> {"none", "queued", "settled"}]
    /\ swept \in BOOLEAN
    /\ counted \in [Stops -> 0 .. MaxCounts + 2]
    /\ lateReopen \subseteq Stops

\* A closed stop is waiting or has been counted, once; an open one has not been, unless it
\* was reopened too late (refresh_stops: "no stop is counted by both and none is lost").
EachStopCountedOnce ==
    \A s \in Stops \ lateReopen :
        counted[s] = IF stop[s].open \/ closes[s] # "none" \/ (stop[s].old /\ ~swept)
                     THEN 0 ELSE 1
=============================================================================
