------------------------------ MODULE RateLimit -----------------------------
(***************************************************************************)
(* The limiter every door shares (src/ratelimit.py): a row per counted      *)
(* event, counted and inserted under an advisory lock on (bucket, key) that *)
(* is held to the end of the caller's transaction.  A door asks of several  *)
(* buckets in turn; the time of an event is read before the wait for its    *)
(* lock, and what a refused or failed request inserted is rolled back.      *)
(***************************************************************************)
EXTENDS Naturals, Sequences, FiniteSets

CONSTANTS
    Callers,           \* requests
    LimitOf,           \* the limit of each bucket
    WindowTicks,       \* window_seconds
    MaxLimitClock      \* bound: ticks

\* What the two doors that text a rider ask of, in this order.  The
\* number of a proven owner spares the request the last one.
LimitedDoors   == {<<"ip", "phone", "global">>, <<"account", "phone", "global">>, <<"ip", "phone">>}
Buckets == {"ip", "account", "phone", "global"}

LimitTicks  == 0 .. MaxLimitClock
NotAsking   == MaxLimitClock + 1

VARIABLES
    limitClock,     \* the time
    events,         \* rate_limit_events; a request inserts one row in a bucket at most
    caller          \* where each request stands in its door

limitVars == <<limitClock, events, caller>>

Event  == [by : Callers, bucket : Buckets, at : LimitTicks]
Caller == [stage : {"new", "inside", "admitted", "refused"}, door : LimitedDoors,
           times : Seq(LimitTicks), asked : LimitTicks \cup {NotAsking}]

LimitInit ==
    /\ limitClock = 0
    /\ events = {}
    /\ caller \in [Callers -> [stage : {"new"}, door : LimitedDoors, times : {<<>>},
                               asked : {NotAsking}]]

-----------------------------------------------------------------------------
Holds(c, b) == caller[c].stage = "inside" /\ \E i \in DOMAIN caller[c].times : caller[c].door[i] = b
NextBucket(c) == caller[c].door[Len(caller[c].times) + 1]

Locked(b) == \E c \in Callers : Holds(c, b)

\* COUNT(*) ... AND at >= window_start; the events of the future count too, for the lock
\* was waited for.
CountSince(b, t) == Cardinality({e \in events : e.bucket = b /\ e.at + WindowTicks >= t})

LimitTick ==
    /\ limitClock < MaxLimitClock
    /\ limitClock' = limitClock + 1
    /\ UNCHANGED <<events, caller>>

\* enforce: its time, and then the wait for the lock.
Asks(c) ==
    /\ caller[c].stage \in {"new", "inside"}
    /\ caller[c].asked = NotAsking
    /\ Len(caller[c].times) < Len(caller[c].door)
    /\ caller' = [caller EXCEPT ![c].stage = "inside", ![c].asked = limitClock]
    /\ UNCHANGED <<limitClock, events>>

\* The lock is there and the count is under the limit.
Passes(c) ==
    /\ caller[c].asked # NotAsking
    /\ ~Locked(NextBucket(c))
    /\ CountSince(NextBucket(c), caller[c].asked) < LimitOf[NextBucket(c)]
    /\ caller' = [caller EXCEPT ![c].times = Append(@, caller[c].asked), ![c].asked = NotAsking]
    /\ UNCHANGED <<limitClock, events>>

\* 429: the transaction is rolled back, and its locks with it.
IsRefused(c) ==
    /\ caller[c].asked # NotAsking
    /\ ~Locked(NextBucket(c))
    /\ CountSince(NextBucket(c), caller[c].asked) >= LimitOf[NextBucket(c)]
    /\ caller' = [caller EXCEPT ![c].stage = "refused", ![c].times = <<>>, ![c].asked = NotAsking]
    /\ UNCHANGED <<limitClock, events>>

\* An error of the handler, or a crash.
HandlerFails(c) ==
    /\ caller[c].stage = "inside"
    /\ caller' = [caller EXCEPT ![c].stage = "refused", ![c].times = <<>>, ![c].asked = NotAsking]
    /\ UNCHANGED <<limitClock, events>>

\* The handler's COMMIT; a text or an e-mail goes out only after it.
Commits(c) ==
    /\ caller[c].stage = "inside"
    /\ Len(caller[c].times) = Len(caller[c].door)
    /\ caller' = [caller EXCEPT ![c].stage = "admitted", ![c].times = <<>>]
    /\ events' = events \cup {[by |-> c, bucket |-> caller[c].door[i], at |-> caller[c].times[i]] :
                                 i \in DOMAIN caller[c].times}
    /\ UNCHANGED limitClock

LimitNext ==
    \/ LimitTick
    \/ \E c \in Callers : Asks(c) \/ Passes(c) \/ IsRefused(c) \/ HandlerFails(c) \/ Commits(c)

LimitSpec == LimitInit /\ [][LimitNext]_limitVars

-----------------------------------------------------------------------------
(* Properties.                                                              *)

LimitTypeOK ==
    /\ limitClock \in LimitTicks
    /\ events \subseteq Event
    /\ caller \in [Callers -> Caller]

\* No window of any bucket holds more events than its limit, however many requests ask at
\* once and however long one waits for the lock with its time already read (enforce).
WindowNeverOverfull ==
    \A b \in Buckets, t \in LimitTicks :
        Cardinality({e \in events : e.bucket = b /\ t <= e.at /\ e.at <= t + WindowTicks}) <= LimitOf[b]
=============================================================================
