-------------------------------- MODULE Dibs --------------------------------
(***************************************************************************)
(* Claims on scooters (src/api_dibs.py) and the watcher that texts their    *)
(* holders (src/dibs_watch.py).  A claim is one row of dibs, ended by its   *)
(* holder or by its clock.  Once per cycle the watcher compares the watched *)
(* claims with the feed it fetched earlier, and tells each holder whose     *)
(* scooter is out: a reservation on the row, a text, and a note of what     *)
(* became of it, in three transactions.                                     *)
(*                                                                          *)
(* Cycles overlap (the crontab has a line per feed offset), and a cycle may *)
(* die anywhere.  The texting service (comms) is external: it delivers a    *)
(* message once per idempotency key, which names the claim.                 *)
(***************************************************************************)
EXTENDS Naturals, Sequences, FiniteSets

CONSTANTS
    Claims,            \* ids of dibs rows
    ClaimedVehicles,   \* the scooters claims are made on
    DibsCycles         \* the cycles that overlap: one per crontab line

VARIABLES
    dibs,      \* the row of each claim
    called,    \* the claims made, by claimed_at
    watcher,   \* the watcher's pass in each cycle
    sent,      \* claims whose text comms has accepted
    quiet      \* history: claims that ended untold, with no text on its way

dibsVars == <<dibs, called, watcher, sent, quiet>>

NoClaim == "no_claim"

NoVehicle == "no_vehicle"

ClaimRow == [vehicle : ClaimedVehicles \cup {NoVehicle}, life : {"none", "live", "released", "expired"},
             notify : BOOLEAN, mine : BOOLEAN, taken : BOOLEAN, attempt : BOOLEAN,
             notified : BOOLEAN, skipped : BOOLEAN]
Pass == [stage : {"idle", "fetched", "reserving", "sending"}, out : SUBSET ClaimedVehicles,
         todo : SUBSET Claims, claim : Claims \cup {NoClaim}]

NoRow  == [vehicle |-> NoVehicle, life |-> "none", notify |-> FALSE,
           mine |-> FALSE, taken |-> FALSE, attempt |-> FALSE, notified |-> FALSE,
           skipped |-> FALSE]
NoPass == [stage |-> "idle", out |-> {}, todo |-> {}, claim |-> NoClaim]

DibsInit ==
    /\ dibs = [c \in Claims |-> NoRow]
    /\ called = <<>>
    /\ watcher = [k \in DibsCycles |-> NoPass]
    /\ sent = {}
    /\ quiet = {}

-----------------------------------------------------------------------------
Made == {called[i] : i \in DOMAIN called}

\* expires_at > NOW()
LiveClaim(c) == dibs[c].life = "live"

\* The claim a map shows for a scooter: the oldest live one.
ShownClaim(v) == {c \in Made : /\ LiveClaim(c) /\ dibs[c].vehicle = v
                               /\ \A i, j \in DOMAIN called :
                                    (called[i] = c /\ j < i /\ dibs[called[j]].vehicle = v)
                                        => ~LiveClaim(called[j])}

\* What a certificate says of its claim.
Verdict(c) == CASE LiveClaim(c) -> "still good"
                [] dibs[c].life = "released" -> "free for anyone"
                [] OTHER -> "null and void"

\* Claims that end with nothing said and no reservation outstanding.
Quietened(cs) == quiet \cup {c \in cs : c \notin sent /\ ~dibs[c].attempt}

-----------------------------------------------------------------------------
(* The rider's calls.                                                       *)

\* create_dibs: notify_sms only for a signed-in rider.
CreateDibs(c, v, signedIn, notifySms) ==
    /\ dibs[c].life = "none"
    /\ dibs' = [dibs EXCEPT ![c] = [NoRow EXCEPT !.vehicle = v, !.life = "live",
                                                 !.notify = notifySms /\ signedIn]]
    /\ called' = Append(called, c)
    /\ UNCHANGED <<watcher, sent, quiet>>

Releasable(c) == LiveClaim(c)

DibsRelease(c) ==
    /\ Releasable(c)
    /\ dibs' = [dibs EXCEPT ![c].life = "released"]
    /\ quiet' = Quietened({c})
    /\ UNCHANGED <<called, watcher, sent>>

ClaimExpires(c) ==
    /\ LiveClaim(c)
    /\ dibs' = [dibs EXCEPT ![c].life = "expired"]
    /\ quiet' = Quietened({c})
    /\ UNCHANGED <<called, watcher, sent>>

\* dibs_mine: also on a claim that is over.
DibsMine(c) ==
    /\ dibs[c].life # "none"
    /\ ~dibs[c].mine
    /\ dibs' = [dibs EXCEPT ![c].mine = TRUE]
    /\ quiet' = Quietened({c})
    /\ UNCHANGED <<called, watcher, sent>>

-----------------------------------------------------------------------------
(* The watcher.                                                             *)

\* The cycle fetches the feed, minutes before its watcher runs: `out` are the scooters
\* that are in somebody's hands.
FetchDibsFeed(k, out) ==
    /\ watcher[k].stage = "idle"
    /\ watcher' = [watcher EXCEPT ![k].stage = "fetched", ![k].out = out]
    /\ UNCHANGED <<dibs, called, sent, quiet>>

\* The gates that _candidates and _reserve share.
Open(c) == /\ LiveClaim(c) /\ ~dibs[c].mine
           /\ ~dibs[c].notified /\ ~dibs[c].skipped /\ ~dibs[c].attempt

TakenClaims(k) == {c \in Made : Open(c) /\ dibs[c].notify /\ dibs[c].vehicle \in watcher[k].out}

\* _candidates, taken_claims and _mark_taken.  COALESCE keeps the first taken_at.
MarkTaken(k) ==
    LET claims == TakenClaims(k) IN
    /\ watcher[k].stage = "fetched"
    /\ watcher' = [watcher EXCEPT ![k] =
                    IF claims = {} THEN NoPass
                    ELSE [NoPass EXCEPT !.stage = "reserving", !.todo = claims]]
    /\ dibs' = [c \in Claims |-> [dibs[c] EXCEPT !.taken = @ \/ c \in claims]]
    /\ UNCHANGED <<called, sent, quiet>>

\* The pass of cycle `k` without claim `c`, which is its last one or not.
PassWithout(k, c) ==
    IF watcher[k].todo = {c} THEN NoPass
    ELSE [watcher[k] EXCEPT !.stage = "reserving", !.todo = @ \ {c}, !.claim = NoClaim]

\* Mutation: the reservation does not re-test the gates.
AlwaysReservable(c) == TRUE
Reservable(c) == Open(c)

\* _reserve: one UPDATE, and what the account's phone is at that moment.
ReserveRefused(k, c) ==
    /\ watcher[k].stage = "reserving"
    /\ c \in watcher[k].todo
    /\ ~Reservable(c)
    /\ watcher' = [watcher EXCEPT ![k] = PassWithout(k, c)]
    /\ UNCHANGED <<dibs, called, sent, quiet>>

Reserve(k, c) ==
    /\ watcher[k].stage = "reserving"
    /\ c \in watcher[k].todo
    /\ Reservable(c)
    /\ dibs' = [dibs EXCEPT ![c].attempt = TRUE]
    /\ watcher' = [watcher EXCEPT ![k].stage = "sending", ![k].claim = c]
    /\ UNCHANGED <<called, sent, quiet>>

\* send_sms reaches comms, which takes the message: whether or not the answer comes back.
CommsAccepts(k) ==
    /\ watcher[k].stage = "sending"
    /\ watcher[k].claim \notin sent
    /\ sent' = sent \cup {watcher[k].claim}
    /\ UNCHANGED <<dibs, called, watcher, quiet>>

\* _mark_notified.
MarkNotified(k) ==
    LET c == watcher[k].claim IN
    /\ watcher[k].stage = "sending"
    /\ c \in sent
    /\ dibs' = [dibs EXCEPT ![c].notified = TRUE]
    /\ watcher' = [watcher EXCEPT ![k] = PassWithout(k, c)]
    /\ UNCHANGED <<called, sent, quiet>>

\* _skip: no phone, unverified, opted out or unusable.
Skip(k) ==
    LET c == watcher[k].claim IN
    /\ watcher[k].stage = "sending"
    /\ dibs' = [dibs EXCEPT ![c].skipped = TRUE, ![c].attempt = FALSE]
    /\ watcher' = [watcher EXCEPT ![k] = PassWithout(k, c)]
    /\ UNCHANGED <<called, sent, quiet>>

\* QuotaExceeded or CommsError, which a lost answer is too.
Defer(k) ==
    LET c == watcher[k].claim IN
    /\ watcher[k].stage = "sending"
    /\ dibs' = [dibs EXCEPT ![c].attempt = FALSE]
    /\ watcher' = [watcher EXCEPT ![k] = PassWithout(k, c)]
    /\ UNCHANGED <<called, sent, quiet>>

\* The process dies; the next cycle on that line starts afresh.
WatcherDies(k) ==
    /\ watcher[k].stage # "idle"
    /\ watcher' = [watcher EXCEPT ![k] = NoPass]
    /\ UNCHANGED <<dibs, called, sent, quiet>>

\* DIBS_NOTIFY_LEASE runs out.  It is minutes and a send is bounded by seconds, so it
\* runs out only on a reservation whose process died.
LeaseLapses(c) ==
    /\ dibs[c].attempt
    /\ ~dibs[c].notified
    /\ \A k \in DibsCycles : watcher[k].claim # c
    /\ dibs' = [dibs EXCEPT ![c].attempt = FALSE]
    /\ UNCHANGED <<called, watcher, sent, quiet>>

DibsNext ==
    \/ \E c \in Claims, v \in ClaimedVehicles, signedIn, notifySms \in BOOLEAN :
            CreateDibs(c, v, signedIn, notifySms)
    \/ \E c \in Claims : DibsRelease(c) \/ ClaimExpires(c) \/ DibsMine(c) \/ LeaseLapses(c)
    \/ \E k \in DibsCycles, out \in SUBSET ClaimedVehicles : FetchDibsFeed(k, out)
    \/ \E k \in DibsCycles : MarkTaken(k)
    \/ \E k \in DibsCycles, c \in Claims : ReserveRefused(k, c) \/ Reserve(k, c)
    \/ \E k \in DibsCycles : CommsAccepts(k) \/ MarkNotified(k) \/ Skip(k) \/ Defer(k)
    \/ \E k \in DibsCycles : WatcherDies(k)

DibsSpec == DibsInit /\ [][DibsNext]_dibsVars

-----------------------------------------------------------------------------
(* Properties.                                                              *)

DibsTypeOK ==
    /\ dibs \in [Claims -> ClaimRow]
    /\ called \in Seq(Claims)
    /\ watcher \in [DibsCycles -> Pass]
    /\ \A k \in DibsCycles : watcher[k].stage = "sending" => watcher[k].claim \in Claims
    /\ sent \subseteq Claims
    /\ quiet \subseteq Claims

\* What has become of each claim's alert, in the terms of AlertOnce.
AlertOf == [c \in Claims |-> IF c \in sent THEN "told"
                             ELSE IF c \in quiet THEN "closed" ELSE "open"]

\* What a certificate once said of an ended claim it says for ever, and the claim shown
\* for a scooter is displaced only when it ends, never by a later one (dibs_release,
\* dibs_for_vehicle).
CertificateStands ==
    /\ \A c \in Claims : dibs[c].life \in {"released", "expired"} =>
             /\ Verdict(c)' = Verdict(c)
             /\ dibs[c].taken => dibs'[c].taken
    /\ \A v \in ClaimedVehicles : \A c \in ShownClaim(v) :
             LiveClaim(c)' => c \in ShownClaim(v)'
=============================================================================
