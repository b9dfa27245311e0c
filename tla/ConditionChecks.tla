-------------------------- MODULE ConditionChecks ---------------------------
(***************************************************************************)
(* Riders' condition checks (src/condition_checks.py): a rider beside a     *)
(* scooter says which of its reported problems are still there.  A check is *)
(* one transaction under the vehicle's lock; once per cycle, after the      *)
(* vehicle's state is updated, the pending checks are compared with the     *)
(* feed, and the reports they reconfirmed get a new baseline.               *)
(*                                                                          *)
(* One vehicle.  A tick is FEED_WINDOW; two are MAX_SETTLE_WAIT.  The       *)
(* vehicle's state is what the last cycle applied, of a feed whose time     *)
(* runs behind the clock; a cycle's pass may come late, or not at all.  Two *)
(* lines of the crontab overlap and nothing orders them, so a cycle may     *)
(* apply, and pass with, an older feed than the one before it.  Whether a   *)
(* report stands is FleetReports' question: here it may go away any time.   *)
(***************************************************************************)
EXTENDS Naturals, FiniteSets

CONSTANTS
    Checks,          \* ids of device_condition_checks rows
    Conditions,      \* ids of the reports on the vehicle that a check asks about
    Checkers,        \* accounts
    MaxCheckClock,   \* bound: ticks
    MaxFeedLag       \* bound: how old a feed is when a cycle applies it, or passes with it

FeedWindow    == 1
MaxSettleWait == 2
Never         == MaxCheckClock + 1      \* a NULL timestamp

VARIABLES
    clock,       \* now
    shown,       \* history: the newest feed's time that a cycle has applied
    parked,      \* device_state.first_observed_at_location
    rental,      \* device_state.rental_started_at
    check,       \* the check rows
    condition,   \* the reports: who filed it, whether it stands, its pending baseline
    ledger       \* the awards of the checks

checkVars == <<clock, shown, parked, rental, check, condition, ledger>>

Times    == 0 .. MaxCheckClock
CheckRow == [feed : {"none", "not_applicable", "pending", "confirmed", "unconfirmed"},
             by : Checkers \cup {"nobody"}, at : Times, parked : Times, rental : Times \cup {Never},
             base : BOOLEAN, reconfirmed : SUBSET Conditions, settled : BOOLEAN]
Condition == [by : Checkers \cup {"nobody"}, stands : BOOLEAN,
              pending : BOOLEAN, owner : Checks \cup {"no_check"}]
Awards    == [check : Checks, confirmed : BOOLEAN]

NoCheck == [feed |-> "none", by |-> "nobody", at |-> 0, parked |-> 0,
            rental |-> Never, base |-> FALSE, reconfirmed |-> {}, settled |-> FALSE]

NotFiled == [by |-> "nobody", stands |-> FALSE, pending |-> FALSE, owner |-> "no_check"]

\* The vehicle has been parked for longer than a window.
ChecksInit ==
    /\ clock = FeedWindow + 1
    /\ shown = clock
    /\ parked = 0
    /\ rental = Never
    /\ check = [c \in Checks |-> NoCheck]
    /\ condition = [r \in Conditions |-> NotFiled]
    /\ ledger = {}

-----------------------------------------------------------------------------
(* The vehicle and the day.                                                 *)

Tick ==
    /\ clock < MaxCheckClock
    /\ clock' = clock + 1
    /\ UNCHANGED <<shown, parked, rental, check, condition, ledger>>

\* update_for_cycle, with a feed of time t, be it older than the one before.
Applies(t) ==
    /\ t <= clock /\ clock <= t + MaxFeedLag
    /\ shown' = IF t > shown THEN t ELSE shown

RentalStarts(t) ==
    /\ Applies(t)
    /\ rental = Never
    /\ rental' = t
    /\ UNCHANGED <<clock, parked, check, condition, ledger>>

\* The release, where it was rented or elsewhere.
RentalEnds(t, moved) ==
    /\ Applies(t)
    /\ rental # Never
    /\ rental' = Never
    /\ parked' = IF moved THEN t ELSE parked
    /\ UNCHANGED <<clock, check, condition, ledger>>

\* A relocation with no rental.
VehicleMoves(t) ==
    /\ Applies(t)
    /\ rental = Never
    /\ parked' = t
    /\ UNCHANGED <<clock, rental, check, condition, ledger>>

\* submit_device_report, by an account.
FileCondition(r, by) ==
    /\ condition[r] = NotFiled
    /\ condition' = [condition EXCEPT ![r].by = by, ![r].stands = TRUE]
    /\ UNCHANGED <<clock, shown, parked, rental, check, ledger>>

\* The vehicle moved or was serviced, so the report no longer stands; or an admin did it.
ConditionClears(r, byAdmin) ==
    /\ condition[r].stands
    /\ byAdmin \/ ~condition[r].pending
    /\ condition' = [condition EXCEPT ![r].stands = FALSE]
    /\ UNCHANGED <<clock, shown, parked, rental, check, ledger>>

-----------------------------------------------------------------------------
(* A check: submit_check.                                                   *)

Standing == {r \in Conditions : condition[r].stands}

\* condition_check_points_blocker counts the paid checks of the last day, and FeedWindow
\* ticks are minutes: an account is paid once for a vehicle here.
PaidTo(a) == {c \in Checks : check[c].by = a /\ check[c].base}

Withheld(a) == (\A r \in Standing : condition[r].by = a) \/ PaidTo(a) # {}

\* test_ride = no: every answer is discarded.
SubmitWithoutRide(c, a) ==
    /\ check[c].feed = "none"
    /\ Standing # {}
    /\ check' = [check EXCEPT ![c] = [NoCheck EXCEPT !.feed = "not_applicable", !.by = a,
                                                     !.at = clock]]
    /\ UNCHANGED <<clock, shown, parked, rental, condition, ledger>>

\* `still`: the standing reports answered "still a problem"; the rest are resolved.
SubmitCheck(c, a, still) ==
    /\ check[c].feed = "none"
    /\ Standing # {}
    /\ still \subseteq Standing
    /\ LET base == ~Withheld(a) IN
        /\ check' = [check EXCEPT ![c] = [NoCheck EXCEPT
                !.feed = "pending", !.by = a, !.at = clock, !.parked = parked,
                !.rental = rental, !.base = base, !.reconfirmed = still]]
        /\ ledger' = IF base THEN ledger \cup {[check |-> c, confirmed |-> FALSE]} ELSE ledger
    /\ condition' = [r \in Conditions |->
                        IF r \in still THEN [condition[r] EXCEPT !.pending = TRUE, !.owner = c]
                        ELSE IF r \in Standing
                        THEN [condition[r] EXCEPT !.stands = FALSE]
                        ELSE condition[r]]
    /\ UNCHANGED <<clock, shown, parked, rental>>

-----------------------------------------------------------------------------
(* The pass of one cycle: confirm_pending_checks and settle_baselines.      *)

InWindow(t, at) == t # Never /\ t + FeedWindow >= at /\ t <= at + FeedWindow
\* feed_signal.
Signal(c) ==
    \/ InWindow(rental, check[c].at)
    \/ parked > check[c].parked /\ parked <= check[c].at + FeedWindow
    \/ InWindow(check[c].rental, check[c].at)
    \/ InWindow(check[c].parked, check[c].at) /\ check[c].parked <= check[c].at

PendingChecks == {c \in Checks : check[c].feed = "pending"}

\* Mutation: the window closes by the clock, before the feed has shown it.
ClosedByNow(c, snap) == clock > check[c].at + FeedWindow
WindowClosed(c, snap) == snap > check[c].at + FeedWindow

FeedAfter(c, snap) ==
    IF c \notin PendingChecks THEN check[c].feed
    ELSE IF Signal(c) THEN "confirmed"
    ELSE IF WindowClosed(c, snap) THEN "unconfirmed" ELSE "pending"

Settles(c, snap) ==
    /\ check[c].reconfirmed # {}
    /\ ~check[c].settled
    /\ snap >= check[c].at + FeedWindow
    /\ rental = Never \/ snap >= check[c].at + MaxSettleWait

ConfirmPass(snap) ==
    /\ snap <= clock /\ clock <= snap + MaxFeedLag
    /\ shown' = IF snap > shown THEN snap ELSE shown
    /\ check' = [c \in Checks |-> [check[c] EXCEPT !.feed = FeedAfter(c, snap),
                                                   !.settled = @ \/ Settles(c, snap)]]
    /\ ledger' = ledger \cup {[check |-> c, confirmed |-> TRUE] :
                                c \in {d \in PendingChecks : Signal(d) /\ check[d].base}}
    /\ condition' = [r \in Conditions |->
                        IF /\ condition[r].pending
                           /\ \E c \in Checks : condition[r].owner = c /\ Settles(c, snap)
                        THEN [condition[r] EXCEPT !.pending = FALSE] ELSE condition[r]]
    /\ UNCHANGED <<clock, parked, rental>>

ChecksNext ==
    \/ Tick
    \/ \E t \in Times : RentalStarts(t) \/ VehicleMoves(t)
    \/ \E t \in Times, moved \in BOOLEAN : RentalEnds(t, moved)
    \/ \E r \in Conditions, by \in Checkers : FileCondition(r, by)
    \/ \E r \in Conditions, byAdmin \in BOOLEAN : ConditionClears(r, byAdmin)
    \/ \E c \in Checks, a \in Checkers : SubmitWithoutRide(c, a)
    \/ \E c \in Checks, a \in Checkers, still \in SUBSET Conditions : SubmitCheck(c, a, still)
    \/ \E snap \in Times : ConfirmPass(snap)

ChecksSpec == ChecksInit /\ [][ChecksNext]_checkVars

-----------------------------------------------------------------------------
(* Properties.                                                              *)

ChecksTypeOK ==
    /\ clock \in Times /\ shown \in Times
    /\ parked \in Times
    /\ rental \in Times \cup {Never}
    /\ check \in [Checks -> CheckRow]
    /\ condition \in [Conditions -> Condition]
    /\ ledger \subseteq Awards

\* A report that is held has a check that will let it go: the latest that reconfirmed it,
\* with its settlement still to come, however many checks have handed it on.
HeldReportHasCheck ==
    \A r \in Conditions : condition[r].pending =>
        \E c \in Checks : /\ condition[r].owner = c
                          /\ r \in check[c].reconfirmed
                          /\ ~check[c].settled

\* The +40 follows a paid 10 and a confirmation by the feed, and nobody is ever paid for a
\* check of nothing but its own reports (submit_check: "otherwise 'report it, then check
\* it' is a points loop").
CheckAwardsEarned ==
    \A e \in ledger' \ ledger :
        IF e.confirmed
        THEN /\ [check |-> e.check, confirmed |-> FALSE] \in ledger
             /\ check'[e.check].feed = "confirmed"
        ELSE \E r \in Conditions : condition[r].stands /\ condition[r].by # check'[e.check].by

\* This step applies, to the vehicle's state, an older feed than one that was applied.
OutOfOrder ==
    \/ rental' \notin {rental, Never} /\ rental' < shown
    \/ parked' # parked /\ parked' < shown

\* A test ride that the feed shows is not passed over because a cycle came late: a check
\* that is given up gets no signal of its ride any more, whatever the vehicle does
\* (confirm_pending_checks: "a cycle that ran late must not expire a check whose confirming
\* rental it simply has not seen yet"), unless the signal is of a cycle that was overtaken by
\* the one that gave the check up.
NotGivenUpEarly ==
    \A c \in Checks :
        (check[c].feed = "unconfirmed" /\ ~Signal(c) /\ Signal(c)') => OutOfOrder

\* A report is let go while its vehicle is parked, or after the longest wait only
\* (settle_baselines: its new place is the one the test ride left it at).
HeldThroughTheRide ==
    \A r \in Conditions :
        (condition[r].pending /\ ~condition'[r].pending) =>
            rental = Never \/ clock >= check[condition[r].owner].at + MaxSettleWait
=============================================================================
