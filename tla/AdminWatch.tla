----------------------------- MODULE AdminWatch -----------------------------
(***************************************************************************)
(* Administrators' watches on a scooter (src/admin_watch.py): a row per     *)
(* watch, compared once per cycle with the feed, that texts what changed.   *)
(* A cycle reads every live watch, then takes them one at a time: the new   *)
(* baseline and the number of the text are committed before the text is     *)
(* sent, guarded on the number that was read.  Cycles overlap, die, and     *)
(* hold feeds of different ages; texts are lost.                            *)
(***************************************************************************)
EXTENDS Naturals, FiniteSets

CONSTANTS
    Watches,              \* ids of admin_device_watches rows
    WatchCycles,          \* the cycles that overlap: one per crontab line
    Spots,                \* places more than MOVE_RADIUS_M apart
    MaxTextsPerWatch,     \* MAX_TEXTS_PER_WATCH
    MaxLiveWatches        \* MAX_LIVE_WATCHES_PER_ACCOUNT

VARIABLES
    watch,      \* the row of each watch
    asked,      \* subscriptions that were under the cap when they counted
    confirming, \* watches whose confirmation text is being sent
    scan,       \* the pass over the watches in each cycle
    told        \* history: the observation each watch last texted

watchVars == <<watch, asked, confirming, scan, told>>

NoSpot   == "no_spot"
NotSeen  == [feed |-> "unknown", spot |-> NoSpot]
Observed == [feed : {"absent", "free", "rented"}, spot : Spots \cup {NoSpot}]
Baseline == Observed \cup {NotSeen}

\* "unreachable": opted_out, unusable, no_phone or unverified.
Reasons  == {"expired", "unsubscribed", "unreachable", "cap_reached"}
WatchRow == [ended : {"none", "live", "due"} \cup Reasons, base : Baseline,
             texts : 0 .. MaxTextsPerWatch]
Scan     == [stage : {"idle", "fetched", "reading", "sending"}, seen : Baseline,
             rows : [Watches -> WatchRow], todo : SUBSET Watches, at : SUBSET Watches]

NoWatch == [ended |-> "none", base |-> NotSeen, texts |-> 0]
NoScan  == [stage |-> "idle", seen |-> NotSeen, rows |-> [w \in Watches |-> NoWatch],
            todo |-> {}, at |-> {}]

WatchInit ==
    /\ watch = [w \in Watches |-> NoWatch]
    /\ asked = {}
    /\ confirming = {}
    /\ scan = [k \in WatchCycles |-> NoScan]
    /\ told = [w \in Watches |-> NotSeen]

-----------------------------------------------------------------------------
\* ended_at IS NULL; a watch that is "due" has outlived expires_at and is not yet ended.
Unended(w) == watch[w].ended \in {"live", "due"}

\* _end, which never relabels a watch that has ended.
Ended(w, reason) ==
    IF Unended(w) THEN [watch EXCEPT ![w].ended = reason] ELSE watch

\* changes: a position counts only outside a rental, and not before the first baseline.
Changed(prev, now) ==
    /\ prev.feed # "unknown"
    /\ \/ prev.feed # now.feed
       \/ now.feed = "free" /\ prev.spot # now.spot

\* What a cycle stores: the position stays what it was while the scooter is out.
NewBaseline(prev, now) ==
    IF now.feed = "free" THEN now ELSE [feed |-> now.feed, spot |-> prev.spot]

-----------------------------------------------------------------------------
(* Subscribing.                                                             *)

LiveWatches == {w \in Watches : watch[w].ended = "live"}

\* The gates, and the count of live watches, which takes no lock.
SubscribeCount(w) ==
    /\ watch[w].ended = "none"
    /\ w \notin asked
    /\ Cardinality(LiveWatches) < MaxLiveWatches
    /\ asked' = asked \cup {w}
    /\ UNCHANGED <<watch, confirming, scan, told>>

SubscribeInsert(w) ==
    /\ w \in asked
    /\ watch[w].ended = "none"
    /\ watch' = [watch EXCEPT ![w].ended = "live"]
    /\ confirming' = confirming \cup {w}
    /\ UNCHANGED <<asked, scan, told>>

\* The confirmation text is taken, or the watch ends: "no watch that cannot text".
Confirm(w, accepted) ==
    /\ w \in confirming
    /\ confirming' = confirming \ {w}
    /\ watch' = IF accepted THEN watch ELSE Ended(w, "unreachable")
    /\ UNCHANGED <<asked, scan, told>>

Unsubscribe(w) ==
    /\ Unended(w)
    /\ watch' = Ended(w, "unsubscribed")
    /\ UNCHANGED <<asked, confirming, scan, told>>

\* expires_at passes.
WatchDue(w) ==
    /\ watch[w].ended = "live"
    /\ watch' = [watch EXCEPT ![w].ended = "due"]
    /\ UNCHANGED <<asked, confirming, scan, told>>

-----------------------------------------------------------------------------
(* One cycle's pass: watch_for_cycle.                                       *)

\* The spot of a scooter that is not free is never looked at.  A cycle that could only find
\* watches that are over is left out.
WatchFetch(k, now) ==
    /\ scan[k].stage = "idle"
    /\ \E w \in Watches : watch[w].ended \notin Reasons
    /\ now.feed = "free" <=> now.spot \in Spots
    /\ scan' = [scan EXCEPT ![k] = [NoScan EXCEPT !.stage = "fetched", !.seen = now]]
    /\ UNCHANGED <<watch, asked, confirming, told>>

\* The pass of cycle `k` once watch `w` is done with.
Scanned(k, w) ==
    IF scan[k].todo = {w} THEN NoScan
    ELSE [scan[k] EXCEPT !.stage = "reading", !.todo = @ \ {w}, !.at = {}, !.rows[w] = NoWatch]

\* Expire first, then read what is left.
ExpireDue == [w \in Watches |-> IF watch[w].ended = "due"
                                THEN [watch[w] EXCEPT !.ended = "expired"] ELSE watch[w]]

ReadWatches(k) ==
    LET live == {w \in Watches : ExpireDue[w].ended \in {"live", "due"}} IN
    /\ scan[k].stage = "fetched"
    /\ watch' = ExpireDue
    /\ scan' = [scan EXCEPT ![k] =
                  IF live = {} THEN NoScan
                  ELSE [@ EXCEPT !.stage = "reading", !.rows = ExpireDue, !.todo = live]]
    /\ UNCHANGED <<asked, confirming, told>>

\* The account has lost its number, its proof or its consent.
WatchUnreachable(k, w) ==
    /\ scan[k].stage = "reading"
    /\ w \in scan[k].todo
    /\ watch' = Ended(w, "unreachable")
    /\ scan' = [scan EXCEPT ![k] = Scanned(k, w)]
    /\ UNCHANGED <<asked, confirming, told>>

\* There is something to say (a change, or a service of this cycle), and a text left for it.
HasNews(k, w, serviced) ==
    \/ Changed(scan[k].rows[w].base, scan[k].seen)
    \/ serviced /\ scan[k].rows[w].base.feed # "unknown"
Texting(k, w, serviced) ==
    HasNews(k, w, serviced) /\ scan[k].rows[w].texts < MaxTextsPerWatch

\* WHERE texts_sent = sent AND ended_at IS NULL.
ClaimHolds(k, w) == Unended(w) /\ watch[w].texts = scan[k].rows[w].texts

Judge(k, w, serviced) ==
    LET texting == Texting(k, w, serviced)
        base    == NewBaseline(scan[k].rows[w].base, scan[k].seen)
    IN
    /\ scan[k].stage = "reading"
    /\ w \in scan[k].todo
    /\ ClaimHolds(k, w)
    /\ watch' = [watch EXCEPT ![w].base = base,
                              ![w].texts = scan[k].rows[w].texts + (IF texting THEN 1 ELSE 0)]
    /\ told' = IF texting THEN [told EXCEPT ![w] = base] ELSE told
    /\ scan' = [scan EXCEPT ![k] = IF texting THEN [@ EXCEPT !.stage = "sending", !.at = {w}]
                                   ELSE Scanned(k, w)]
    /\ UNCHANGED <<asked, confirming>>

\* Another cycle has moved the watch on, or it has ended.
JudgeLoses(k, w) ==
    /\ scan[k].stage = "reading"
    /\ w \in scan[k].todo
    /\ ~ClaimHolds(k, w)
    /\ scan' = [scan EXCEPT ![k] = Scanned(k, w)]
    /\ UNCHANGED <<watch, asked, confirming, told>>

\* The text is taken, or dropped by an outage or the quota: either way it counts.
TextGone(k, w) ==
    /\ scan[k].stage = "sending"
    /\ w \in scan[k].at
    /\ watch' = IF scan[k].rows[w].texts + 1 >= MaxTextsPerWatch
                THEN Ended(w, "cap_reached") ELSE watch
    /\ scan' = [scan EXCEPT ![k] = Scanned(k, w)]
    /\ UNCHANGED <<asked, confirming, told>>

TextImpossible(k, w) ==
    /\ scan[k].stage = "sending"
    /\ w \in scan[k].at
    /\ watch' = Ended(w, "unreachable")
    /\ scan' = [scan EXCEPT ![k] = Scanned(k, w)]
    /\ UNCHANGED <<asked, confirming, told>>

ScanDies(k) ==
    /\ scan[k].stage # "idle"
    /\ scan' = [scan EXCEPT ![k] = NoScan]
    /\ UNCHANGED <<watch, asked, confirming, told>>

WatchNext ==
    \/ \E w \in Watches : SubscribeCount(w) \/ SubscribeInsert(w) \/ Unsubscribe(w) \/ WatchDue(w)
    \/ \E w \in Watches, accepted \in BOOLEAN : Confirm(w, accepted)
    \/ \E k \in WatchCycles, now \in Observed : WatchFetch(k, now)
    \/ \E k \in WatchCycles : ReadWatches(k) \/ ScanDies(k)
    \/ \E k \in WatchCycles, w \in Watches :
            WatchUnreachable(k, w) \/ JudgeLoses(k, w) \/ TextGone(k, w) \/ TextImpossible(k, w)
    \/ \E k \in WatchCycles, w \in Watches, serviced \in BOOLEAN : Judge(k, w, serviced)

WatchSpec == WatchInit /\ [][WatchNext]_watchVars

-----------------------------------------------------------------------------
(* Properties.                                                              *)

WatchTypeOK ==
    /\ watch \in [Watches -> WatchRow]
    /\ asked \subseteq Watches
    /\ confirming \subseteq Watches
    /\ scan \in [WatchCycles -> Scan]
    /\ told \in [Watches -> Baseline]

\* Once a watch has texted, what it is compared with next is what it last spoke of,
\* whichever of the cycles in flight wrote last: no change is told twice and none is
\* swallowed by an older feed (watch_for_cycle: "an overlapping cycle cannot text the same
\* change twice").
BaselineIsTold ==
    \A w \in Watches : watch[w].texts \in 1 .. MaxTextsPerWatch - 1
                        => ~Changed(told[w], watch[w].base)

\* A watch that is over stays over, for the reason it ended, and counts no further text;
\* one that was past its time when a cycle began never texts in it ("Expire first: an
\* expired watch never texts again").
EndedWatchIsSilent ==
    \A w \in Watches :
        /\ watch[w].ended \in Reasons => watch'[w] = watch[w]
        /\ watch'[w].texts >= watch[w].texts
=============================================================================
