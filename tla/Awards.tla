------------------------------- MODULE Awards -------------------------------
(***************************************************************************)
(* The awards that are not a ride's (src/points.py): for a device-feature   *)
(* report, a device photo, a condition check and a completed profile.  Each *)
(* counts the rows of the ledger and then inserts one, and two requests may *)
(* do so at once; a lock taken before the count and held until the commit   *)
(* makes the second wait.  NOW() is the time the transaction began, which   *)
(* may be well before it gets its lock.                                     *)
(***************************************************************************)
EXTENDS Naturals, FiniteSets, Sequences

CONSTANTS
    Payees,              \* accounts
    Scooters,            \* vehicle identifiers
    AwardRequests,       \* requests that may be in flight
    AwardWindow,         \* the 24 hours of both cooldowns, in ticks
    MaxPhotosPerDevice,  \* MAX_PHOTOS_PER_DEVICE
    CheckDailyCap,       \* CONDITION_CHECK_DAILY_CAP
    MaxAwards,           \* bound: rows of the ledger
    MaxAwardClock        \* bound: ticks

AwardKinds == {"features", "photo", "check", "profile"}

VARIABLES
    kind,          \* the award followed: no two kinds share a lock or a count
    paid,          \* user_points, in insertion order
    asking,        \* requests
    awardClock

awardVars == <<kind, paid, asking, awardClock>>

Award   == [payee : Payees, scooter : Scooters, at : 0..MaxAwardClock]
NoAward == [stage |-> "idle"]

AwardsInit ==
    /\ kind \in AwardKinds
    /\ paid = <<>>
    /\ asking = [q \in AwardRequests |-> NoAward]
    /\ awardClock = 0

AwardsTypeOK ==
    /\ kind \in AwardKinds
    /\ paid \in Seq(Award) /\ Len(paid) <= MaxAwards
    /\ \A q \in AwardRequests :
          asking[q] = NoAward \/ /\ asking[q].stage \in {"waiting", "paying"}
                                 /\ asking[q].award \in Award
    /\ awardClock \in 0..MaxAwardClock

-----------------------------------------------------------------------------
(* The counts *)

WindowStart(now) == IF now < AwardWindow THEN 0 ELSE now - AwardWindow

SameTarget(a, b)  == a.payee = b.payee /\ a.scooter = b.scooter
RecentAward(a, b) == a.at >= WindowStart(b.at)

PaidFor(v) == {i \in DOMAIN paid : paid[i].scooter = v}
PaidTo(p)  == {i \in DOMAIN paid : paid[i].payee = p}

\* credit_device_feature_points, credit_device_photo_points,
\* condition_check_points_blocker, maybe_credit_profile_completion.
Room(a) ==
    CASE kind = "features" -> ~\E i \in DOMAIN paid : SameTarget(paid[i], a) /\ RecentAward(paid[i], a)
      [] kind = "photo"    -> Cardinality(PaidFor(a.scooter)) < MaxPhotosPerDevice
      [] kind = "check"    ->
            /\ ~\E i \in DOMAIN paid : SameTarget(paid[i], a) /\ RecentAward(paid[i], a)
            /\ Cardinality({i \in PaidTo(a.payee) : RecentAward(paid[i], a)}) < CheckDailyCap
      [] kind = "profile"  -> PaidTo(a.payee) = {}

\* Mutation: each vehicle is locked, never the account.
VehicleLock(a) == <<a.scooter>>
\* The advisory lock's key, or the account's row that PUT /profile has updated.
LockKey(a) ==
    CASE kind = "features" -> <<a.payee, a.scooter>>
      [] kind = "photo"    -> <<a.scooter>>
      [] kind \in {"check", "profile"} -> <<a.payee>>

-----------------------------------------------------------------------------
AskAward(q, p, v) ==
    /\ asking[q] = NoAward
    /\ Len(paid) < MaxAwards
    /\ asking' = [asking EXCEPT ![q] =
          [stage |-> "waiting", award |-> [payee |-> p, scooter |-> v, at |-> awardClock]]]
    /\ UNCHANGED <<kind, paid, awardClock>>

Holding(key) == {q \in AwardRequests : /\ asking[q].stage = "paying"
                                       /\ LockKey(asking[q].award) = key}

\* The lock, then the count, from what is committed by then.
CountAwards(q) ==
    /\ asking[q].stage = "waiting"
    /\ Holding(LockKey(asking[q].award)) = {}
    /\ asking' = [asking EXCEPT ![q] =
          IF Room(asking[q].award) THEN [stage |-> "paying", award |-> asking[q].award]
                                   ELSE NoAward]
    /\ UNCHANGED <<kind, paid, awardClock>>

\* credit_points and COMMIT.
Pay(q) ==
    /\ asking[q].stage = "paying"
    /\ Len(paid) < MaxAwards
    /\ paid' = Append(paid, asking[q].award)
    /\ asking' = [asking EXCEPT ![q] = NoAward]
    /\ UNCHANGED <<kind, awardClock>>

\* The transaction fails, or its process dies.
GiveUp(q) ==
    /\ asking[q] # NoAward
    /\ asking' = [asking EXCEPT ![q] = NoAward]
    /\ UNCHANGED <<kind, paid, awardClock>>

AwardTick ==
    /\ awardClock < MaxAwardClock
    /\ awardClock' = awardClock + 1
    /\ UNCHANGED <<kind, paid, asking>>

AwardsNext ==
    \/ \E q \in AwardRequests, p \in Payees, v \in Scooters : AskAward(q, p, v)
    \/ \E q \in AwardRequests : CountAwards(q) \/ Pay(q) \/ GiveUp(q)
    \/ AwardTick

AwardsSpec == AwardsInit /\ [][AwardsNext]_awardVars

-----------------------------------------------------------------------------
(* Properties *)

\* No overlap of requests pays more than the published rules: a vehicle's
\* features or its check once a window to an account, its photos
\* MAX_PHOTOS_PER_DEVICE times ever, an account's checks the daily cap in any
\* window, and a profile once.
AwardsApart(i, j) == paid[i].at > paid[j].at + AwardWindow \/ paid[j].at > paid[i].at + AwardWindow

AwardsWithinRules ==
    /\ kind \in {"features", "check"} =>
          \A i, j \in DOMAIN paid :
             i # j /\ SameTarget(paid[i], paid[j]) => AwardsApart(i, j)
    /\ kind = "photo" =>
          \A v \in Scooters : Cardinality(PaidFor(v)) <= MaxPhotosPerDevice
    /\ kind = "check" =>
          \A p \in Payees, t \in 0..MaxAwardClock :
             Cardinality({i \in PaidTo(p) : paid[i].at <= t /\ t <= paid[i].at + AwardWindow})
                 <= CheckDailyCap
    /\ kind = "profile" =>
          \A i, j \in DOMAIN paid : paid[i].payee = paid[j].payee => i = j
=============================================================================
