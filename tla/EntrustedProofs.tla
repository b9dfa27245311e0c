--------------------------- MODULE EntrustedProofs --------------------------
(***************************************************************************)
(* What riders entrust to the service is kept, what they are owed is paid   *)
(* by the rules, and every row has its type, for any number of riders,      *)
(* rows, requests and jobs: the parts of MCRiders that RidersProofs leaves.  *)
(***************************************************************************)
EXTENDS RidersProofs, Integers, FiniteSetTheorems, WellFoundedInduction


-----------------------------------------------------------------------------
(* Counting up, and functions that do. *)

\* Of numbers there is a least.
LEMMA LeastNumber ==
    ASSUME NEW numbers \in SUBSET Nat, numbers # {}
    PROVE  \E least \in numbers : \A n \in numbers : least <= n
<1>1. PICK least \in numbers : \A n \in numbers : ~(<<n, least>> \in OpToRel(<, Nat))
    BY NatLessThanWellFounded, WFMin
<1>2. ASSUME NEW n \in numbers PROVE least <= n
    <2>1. ~(n < least)
        BY <1>1, <1>2 DEF OpToRel
    <2> QED
        BY <2>1
<1> QED
    BY <1>2

\* What holds of 0, and of a number if it does of the one before, holds of all.
LEMMA CountingUp ==
    ASSUME NEW N \in Nat, NEW good, 0 \in good, \A n \in 1 .. N : n - 1 \in good => n \in good
    PROVE  \A n \in 0 .. N : n \in good
<1> DEFINE bad == {n \in 0 .. N : n \notin good}
<1>1. bad \in SUBSET Nat
    OBVIOUS
<1>2. ASSUME bad # {} PROVE FALSE
  <2> HIDE DEF bad
  <2>1. PICK n \in bad : \A m \in bad : n <= m
      BY <1>1, <1>2, LeastNumber
  <2> USE DEF bad
  <2>2. n \in 1 .. N /\ n - 1 \in 0 .. N /\ n - 1 < n
      BY <2>1
  <2>3. n - 1 \in good
      BY <2>1, <2>2
  <2> QED
      BY <2>1, <2>2, <2>3
<1> QED
    BY <1>2

\* Each value is made from the one before, as far as N; there are such functions.
Recurs(f, N, base, step) == f[0] = base /\ \A n \in 1 .. N : f[n] = step[n][f[n - 1]]

LEMMA Recursed ==
    ASSUME NEW N \in Nat, NEW S, NEW base \in S, NEW step \in [1 .. N -> [S -> S]]
    PROVE  \E f \in [0 .. N -> S] : Recurs(f, N, base, step)
<1> DEFINE Made(k, f) == f \in [0 .. k -> S] /\ f[0] = base /\ \A n \in 1 .. k : f[n] = step[n][f[n - 1]]
           good == {k \in 0 .. N : \E f : Made(k, f)}
<1>1. 0 \in good
  <2> DEFINE f == [n \in 0 .. 0 |-> base]
  <2>1. Made(0, f)
      OBVIOUS
  <2> HIDE DEF Made, f
  <2> QED
      BY <2>1
<1>2. ASSUME NEW k \in 1 .. N, k - 1 \in good PROVE k \in good
  <2>1. PICK f : Made(k - 1, f)
      BY <1>2
  <2> DEFINE g == [n \in 0 .. k |-> IF n < k THEN f[n] ELSE step[k][f[k - 1]]]
  <2>2. k - 1 \in 0 .. k - 1 /\ f[k - 1] \in S
      BY <2>1
  <2>3. step[k][f[k - 1]] \in S
      BY <2>2
  <2>4. g \in [0 .. k -> S] /\ g[0] = base
      BY <2>1, <2>3
  <2>5. ASSUME NEW n \in 1 .. k PROVE g[n] = step[n][g[n - 1]]
    <3>1. CASE n = k
        BY <3>1
    <3>2. CASE n # k
      <4>1. n \in 1 .. k - 1 /\ n - 1 \in 0 .. k /\ n - 1 < k /\ n < k
          BY <3>2
      <4> QED
          BY <2>1, <4>1
    <3> QED
        BY <3>1, <3>2
  <2>6. Made(k, g)
      BY <2>4, <2>5
  <2> HIDE DEF Made
  <2> QED
      BY <2>6
<1> HIDE DEF good
<1>3. N \in good
  <2>1. \A k \in 1 .. N : k - 1 \in good => k \in good
      BY <1>2
  <2>2. \A k \in 0 .. N : k \in good
      BY <1>1, <2>1, CountingUp
  <2> QED
      BY <2>2
<1> QED
    BY <1>3 DEF good, Recurs

\* A function on the first N numbers is a sequence.
LEMMA SequenceOf ==
    ASSUME NEW N \in Nat, NEW S, NEW f \in [1 .. N -> S]
    PROVE  f \in Seq(S) /\ Len(f) = N /\ DOMAIN f = 1 .. N
OBVIOUS

-----------------------------------------------------------------------------
(* Referrals.  x1 is rider, x2 referral and x3 payments. *)

\* A handle is one rider's; a row that was paid for is settled, and only a row that was made.
ReferralsInv ==
    /\ Referral!ReferralsTypeOK
    /\ \A a, b \in Referral!Existing : x1[a].handle = x1[b].handle => a = b
    /\ \A p \in x3 : x2[p.source].awarded
    /\ \A r \in Referrals : x2[r].awarded => x2[r].kind # "none"
    /\ \A r \in Referrals : /\ x2[r].kind = "none" => x2[r].contact = "no_contact"
                            /\ x2[r].kind = "stand_down" => x2[r].owed # 0

LEMMA InitReferralsInv == Referral!ReferralsInit => ReferralsInv
BY DEF Referral!ReferralsInit, ReferralsInv, Referral!ReferralsTypeOK, Referral!Rider, Referral!Row,
   Referral!NoRider, Referral!NoReferral, Referral!Existing, Referral!Anonymous, Referral!NoContact

LEMMA ReferralRows ==
    ASSUME Referral!ReferralsTypeOK
    PROVE  /\ x1 \in [Rows -> Referral!Rider] /\ x2 \in [Referrals -> Referral!Row]
           /\ x3 \subseteq Referral!Payment
           /\ Referral!NoReferral \in Referral!Row
BY DEF Referral!ReferralsTypeOK, Referral!Row, Referral!NoReferral, Referral!NoContact, Referral!Anonymous

\* Accounts come, and change their handles and addresses.
LEMMA RidersEdited ==
    ASSUME ReferralsInv, UNCHANGED <<x2, x3>>,
           \/ \E a \in Rows, h \in Handles, c \in Actors : Referral!SignUp(a, h, c)
           \/ \E a \in Rows, h \in Handles : Referral!ChangeHandle(a, h)
           \/ \E a \in Rows, cs \in SUBSET Actors : Referral!EditContacts(a, cs)
    PROVE  ReferralsInv'
<1>0. x1 \in [Rows -> Referral!Rider]
    BY ReferralRows DEF ReferralsInv
<1>1. ASSUME NEW a \in Rows, NEW h \in Handles, NEW c \in Actors, Referral!SignUp(a, h, c)
      PROVE  /\ x1' \in [Rows -> Referral!Rider]
             /\ (\A b, d \in Referral!Existing : x1[b].handle = x1[d].handle => b = d)'
  <2>1. [exists |-> TRUE, handle |-> h, contacts |-> {c}] \in Referral!Rider
      BY DEF Referral!Rider
  <2>2. x1' = [x1 EXCEPT ![a] = [exists |-> TRUE, handle |-> h, contacts |-> {c}]]
      BY <1>1 DEF Referral!SignUp
  <2>3. \A b \in Referral!Existing : x1[b].handle # h
      BY <1>1 DEF Referral!SignUp, Referral!HandleOf
  <2> QED
      BY <1>0, <2>1, <2>2, <2>3 DEF ReferralsInv, Referral!Existing
<1>2. ASSUME NEW a \in Rows, NEW h \in Handles, Referral!ChangeHandle(a, h)
      PROVE  /\ x1' \in [Rows -> Referral!Rider]
             /\ (\A b, d \in Referral!Existing : x1[b].handle = x1[d].handle => b = d)'
  <2>2. x1' = [x1 EXCEPT ![a] = [x1[a] EXCEPT !.handle = h]]
      BY <1>2 DEF Referral!ChangeHandle
  <2>3. \A b \in Referral!Existing : x1[b].handle # h
      BY <1>2 DEF Referral!ChangeHandle, Referral!HandleOf
  <2>4. [x1[a] EXCEPT !.handle = h] \in Referral!Rider
      BY <1>0 DEF Referral!Rider
  <2> QED
      BY <1>0, <2>2, <2>3, <2>4 DEF ReferralsInv, Referral!Existing, Referral!Rider
<1>3. ASSUME NEW a \in Rows, NEW cs \in SUBSET Actors, Referral!EditContacts(a, cs)
      PROVE  /\ x1' \in [Rows -> Referral!Rider]
             /\ (\A b, d \in Referral!Existing : x1[b].handle = x1[d].handle => b = d)'
  <2>2. x1' = [x1 EXCEPT ![a] = [x1[a] EXCEPT !.contacts = cs]]
      BY <1>3 DEF Referral!EditContacts
  <2>4. [x1[a] EXCEPT !.contacts = cs] \in Referral!Rider
      BY <1>0 DEF Referral!Rider
  <2> QED
      BY <1>0, <2>2, <2>4 DEF ReferralsInv, Referral!Existing, Referral!Rider
<1>4. /\ x1' \in [Rows -> Referral!Rider]
      /\ (\A b, d \in Referral!Existing : x1[b].handle = x1[d].handle => b = d)'
    BY <1>1, <1>2, <1>3
<1> QED
    BY <1>4 DEF ReferralsInv, Referral!ReferralsTypeOK

\* A certificate's page fills an empty row.
LEMMA ReferralMade ==
    ASSUME ReferralsInv, NEW r \in Referrals, NEW a \in Rows \cup {"anonymous"}, NEW c \in Actors,
           Referral!DibsRefer(r, a, c) \/ Referral!DibsStandDown(r, a, c)
    PROVE  ReferralsInv'
<1>0. /\ x1 \in [Rows -> Referral!Rider] /\ x2 \in [Referrals -> Referral!Row]
      /\ x2[r].kind = "none" /\ UNCHANGED <<x1, x3>>
    BY ReferralRows DEF ReferralsInv, Referral!DibsRefer, Referral!DibsStandDown
<1>1. Referral!NameOn(a) \in Handles \cup {"anonymous"}
    BY <1>0 DEF Referral!NameOn, Referral!Anonymous, Referral!Rider
<1>2. Referral!StandDownRate(c) \in {300, 50}
    BY DEF Referral!StandDownRate, Referral!STAND_DOWN_POINTS_NEW, Referral!STAND_DOWN_POINTS_EXISTING
<1>3. Referral!NoReferral \in Referral!Row /\ Referral!NoReferral.awarded = FALSE
    BY ReferralRows DEF ReferralsInv, Referral!NoReferral
<1>4. \E new \in Referral!Row : /\ x2' = [x2 EXCEPT ![r] = new]
                                /\ new.kind # "none" /\ new.awarded = FALSE
                                /\ new.kind = "stand_down" => new.owed # 0
  <2>1. CASE Referral!DibsRefer(r, a, c)
    <3> DEFINE made == [[[[Referral!NoReferral EXCEPT !.kind = "referral"] EXCEPT !.by = Referral!NameOn(a)]
                            EXCEPT !.introducer = a] EXCEPT !.contact = c]
    <3>1. x2' = [x2 EXCEPT ![r] = made]
        BY <2>1 DEF Referral!DibsRefer
    <3>2. made \in Referral!Row /\ made.kind = "referral" /\ made.awarded = FALSE
        BY <1>1, <1>3 DEF Referral!Row, Referral!Anonymous
    <3> HIDE DEF made
    <3> QED
        BY <3>1, <3>2
  <2>2. CASE Referral!DibsStandDown(r, a, c)
    <3> DEFINE rate == Referral!StandDownRate(c)
    <3> DEFINE made == [[[[[Referral!NoReferral EXCEPT !.kind = "stand_down"] EXCEPT !.by = Referral!NameOn(a)]
                            EXCEPT !.introducer = a] EXCEPT !.contact = c]
                            EXCEPT !.owed = rate]
    <3>1. x2' = [x2 EXCEPT ![r] = made]
        BY <2>2 DEF Referral!DibsStandDown
    <3>2. rate \in {0, Referral!STAND_DOWN_POINTS_NEW, Referral!STAND_DOWN_POINTS_EXISTING} /\ rate # 0
        BY <1>2 DEF Referral!STAND_DOWN_POINTS_NEW, Referral!STAND_DOWN_POINTS_EXISTING
    <3> HIDE DEF rate
    <3>3. /\ made \in Referral!Row /\ made.kind = "stand_down" /\ made.awarded = FALSE
          /\ made.owed # 0
        BY <1>1, <1>3, <3>2 DEF Referral!Row, Referral!Anonymous
    <3> HIDE DEF made
    <3> QED
        BY <3>1, <3>2, <3>3
  <2> QED
      BY <2>1, <2>2
<1>5. PICK new \in Referral!Row : /\ x2' = [x2 EXCEPT ![r] = new]
                                  /\ new.kind # "none" /\ new.awarded = FALSE
                                  /\ new.kind = "stand_down" => new.owed # 0
    BY <1>4
<1>6. x2' \in [Referrals -> Referral!Row] /\ x2'[r] = new /\ \A q \in Referrals \ {r} : x2'[q] = x2[q]
    BY <1>0, <1>5
<1>7. \A p \in x3 : p.source \in Referrals /\ p.source # r
    BY <1>0, ReferralRows DEF ReferralsInv, Referral!Payment
<1>8. \A q \in Referrals : /\ x2'[q].awarded => x2'[q].kind # "none"
                           /\ x2'[q].kind = "none" => x2'[q].contact = "no_contact"
                           /\ x2'[q].kind = "stand_down" => x2'[q].owed # 0
    BY <1>5, <1>6 DEF ReferralsInv
<1> QED
    BY <1>0, <1>6, <1>7, <1>8 DEF ReferralsInv, Referral!ReferralsTypeOK, Referral!Existing

LEMMA MidnightStrikes ==
    ASSUME ReferralsInv, Referral!Midnight
    PROVE  ReferralsInv'
<1>0. x2 \in [Referrals -> Referral!Row] /\ UNCHANGED <<x1, x3>>
    BY ReferralRows DEF ReferralsInv, Referral!Midnight
<1>1. ASSUME NEW r \in Referrals
      PROVE  /\ x2'[r] \in Referral!Row
             /\ x2'[r].awarded = x2[r].awarded /\ x2'[r].kind = x2[r].kind
             /\ x2'[r].contact = x2[r].contact /\ x2'[r].owed = x2[r].owed
  <2> DEFINE late == x2[r].kind = "stand_down"
  <2>1. x2'[r] = [x2[r] EXCEPT !.late = late] /\ x2[r] \in Referral!Row
      BY <1>0 DEF Referral!Midnight
  <2>2. late \in BOOLEAN
      OBVIOUS
  <2> HIDE DEF late
  <2> QED
      BY <2>1, <2>2 DEF Referral!Row
<1>2. x2' \in [Referrals -> Referral!Row]
    BY <1>1 DEF Referral!Midnight
<1>3. \A p \in x3 : p.source \in Referrals
    BY ReferralRows DEF ReferralsInv, Referral!Payment
<1> QED
    BY <1>0, <1>1, <1>2, <1>3 DEF ReferralsInv, Referral!ReferralsTypeOK, Referral!Existing

\* What a settlement pays: a debt of a row it settles, and one rider for each.
LEMMA Settlement ==
    ASSUME ReferralsInv, NEW a \in Rows, Referral!SettleReferrals(a)
    PROVE  /\ x3 \subseteq x3'
           /\ \A r \in Referrals :
                 /\ x2'[r] = IF r \in Referral!PendingFor(a) THEN [x2[r] EXCEPT !.awarded = TRUE] ELSE x2[r]
                 /\ r \in Referral!PendingFor(a) => x2[r].kind # "none" /\ ~x2[r].awarded
           /\ \A p \in x3' \ x3 :
                 /\ p \in Referral!Payment /\ p.source \in Referral!PendingFor(a)
                 /\ p.action = "stand_down" => ~x2[p.source].late
                 /\ \A q \in x3' \ x3 : q.source = p.source /\ q.action = p.action => q = p
<1>0. /\ x1 \in [Rows -> Referral!Rider] /\ x2 \in [Referrals -> Referral!Row]
      /\ Referral!PendingFor(a) \subseteq Referrals
    BY ReferralRows DEF ReferralsInv, Referral!PendingFor
<1>1. x3 \subseteq x3'
    BY DEF Referral!SettleReferrals
<1>2. \A r \in Referrals : x2'[r] = IF r \in Referral!PendingFor(a) THEN [x2[r] EXCEPT !.awarded = TRUE]
                                    ELSE x2[r]
    BY DEF Referral!SettleReferrals
<1>3. \A r \in Referral!PendingFor(a) : x2[r].kind # "none" /\ ~x2[r].awarded
    BY <1>0, DataAssumption DEF ReferralsInv, Referral!PendingFor, Referral!Rider
<1>4. ASSUME NEW p \in x3' \ x3
      PROVE  /\ p \in Referral!OwedToIntroducer(Referral!PendingFor(a))
                        \cup Referral!OwedToNewcomer(Referral!PendingFor(a), a)
    BY DEF Referral!SettleReferrals, Referral!NotYetPaid
<1>5. ASSUME NEW p \in Referral!OwedToIntroducer(Referral!PendingFor(a))
      PROVE  /\ p \in Referral!Payment /\ p.source \in Referral!PendingFor(a) /\ p.action = "referral"
             /\ p.to \in Referral!HandleOf(x2[p.source].by) /\ p.points = 100
  <2>1. PICK r \in Referral!PendingFor(a) :
            p \in [source : {r}, action : {"referral"}, to : Referral!HandleOf(x2[r].by), points : {100}]
      BY DEF Referral!OwedToIntroducer, Referral!POINTS_REFERRAL
  <2> QED
      BY <1>0, <2>1 DEF Referral!Payment, Referral!HandleOf, Referral!Existing, Referral!POINTS_REFERRAL
<1>6. ASSUME NEW p \in Referral!OwedToNewcomer(Referral!PendingFor(a), a)
      PROVE  /\ p.source \in Referral!PendingFor(a) /\ p.action = "stand_down" /\ p.to = a
             /\ ~x2[p.source].late /\ p.points = x2[p.source].owed
             /\ p = [source |-> p.source, action |-> "stand_down", to |-> a, points |-> x2[p.source].owed]
  <2>1. PICK r \in {x \in Referral!PendingFor(a) : x2[x].kind = "stand_down" /\ ~x2[x].late} :
            p \in [source : {r}, action : {"stand_down"}, to : {a}, points : {x2[r].owed}]
      BY DEF Referral!OwedToNewcomer
  <2> QED
      BY <2>1
<1>7. ASSUME NEW p \in x3' \ x3, NEW q \in x3' \ x3, q.source = p.source, q.action = p.action
      PROVE  q = p
  <2>1. CASE p.action = "referral"
    <3>1. /\ p \in Referral!OwedToIntroducer(Referral!PendingFor(a))
          /\ q \in Referral!OwedToIntroducer(Referral!PendingFor(a))
        BY <1>4, <1>6, <1>7, <2>1
    <3>2. p.to \in Referral!HandleOf(x2[p.source].by) /\ q.to \in Referral!HandleOf(x2[p.source].by)
        BY <1>5, <1>7, <3>1
    <3>3. p.to = q.to
        BY <3>2 DEF ReferralsInv, Referral!HandleOf
    <3>4. p \in Referral!Payment /\ q \in Referral!Payment /\ p.points = q.points
        BY <1>5, <3>1
    <3> QED
        BY <1>7, <3>3, <3>4 DEF Referral!Payment
  <2>2. CASE p.action # "referral"
    <3>1. /\ p \in Referral!OwedToNewcomer(Referral!PendingFor(a), a)
          /\ q \in Referral!OwedToNewcomer(Referral!PendingFor(a), a)
        BY <1>4, <1>5, <1>7, <2>2
    <3> QED
        BY <1>6, <1>7, <3>1
  <2> QED
      BY <2>1, <2>2
<1>8. ASSUME NEW p \in x3' \ x3
      PROVE  /\ p \in Referral!Payment /\ p.source \in Referral!PendingFor(a)
             /\ p.action = "stand_down" => ~x2[p.source].late
  <2>1. CASE p \in Referral!OwedToIntroducer(Referral!PendingFor(a))
      BY <1>5, <2>1
  <2>2. CASE p \in Referral!OwedToNewcomer(Referral!PendingFor(a), a)
    <3> DEFINE r == p.source
    <3>1. PICK s \in Referral!PendingFor(a) :
              /\ x2[s].kind = "stand_down" /\ ~x2[s].late
              /\ p \in [source : {s}, action : {"stand_down"}, to : {a}, points : {x2[s].owed}]
        BY <2>2 DEF Referral!OwedToNewcomer
    <3>2. x2[s].owed \in {0, 300, 50}
        BY <1>0, <3>1 DEF Referral!Row, Referral!STAND_DOWN_POINTS_NEW, Referral!STAND_DOWN_POINTS_EXISTING
    <3>3. x2[s].owed # 0
        BY <1>0, <3>1 DEF ReferralsInv
    <3> QED
        BY <1>0, <3>1, <3>2, <3>3 DEF Referral!Payment, Referral!STAND_DOWN_POINTS_NEW,
           Referral!STAND_DOWN_POINTS_EXISTING
  <2> QED
      BY <1>4, <2>1, <2>2
<1> QED
    BY <1>1, <1>2, <1>3, <1>7, <1>8

LEMMA Settled ==
    ASSUME ReferralsInv, NEW a \in Rows, Referral!SettleReferrals(a)
    PROVE  ReferralsInv'
<1>0. /\ x2 \in [Referrals -> Referral!Row] /\ x3 \subseteq Referral!Payment
      /\ Referral!PendingFor(a) \subseteq Referrals /\ UNCHANGED x1
    BY ReferralRows DEF ReferralsInv, Referral!PendingFor, Referral!SettleReferrals
<1>1. \A r \in Referrals : x2'[r] = IF r \in Referral!PendingFor(a) THEN [x2[r] EXCEPT !.awarded = TRUE]
                                    ELSE x2[r]
    BY Settlement
<1>2. \A r \in Referrals :
         /\ x2'[r] \in Referral!Row
         /\ x2'[r].kind = x2[r].kind /\ x2'[r].contact = x2[r].contact /\ x2'[r].owed = x2[r].owed
         /\ r \in Referral!PendingFor(a) => x2'[r].awarded
         /\ r \notin Referral!PendingFor(a) => x2'[r].awarded = x2[r].awarded
  <2> SUFFICES ASSUME NEW r \in Referrals
               PROVE  /\ x2'[r] \in Referral!Row
                      /\ x2'[r].kind = x2[r].kind /\ x2'[r].contact = x2[r].contact /\ x2'[r].owed = x2[r].owed
                      /\ r \in Referral!PendingFor(a) => x2'[r].awarded
                      /\ r \notin Referral!PendingFor(a) => x2'[r].awarded = x2[r].awarded
      OBVIOUS
  <2>1. x2[r] \in Referral!Row
      BY <1>0
  <2>2. CASE r \in Referral!PendingFor(a)
    <3>1. x2'[r] = [x2[r] EXCEPT !.awarded = TRUE]
        BY <1>1, <2>2
    <3> QED
        BY <2>1, <2>2, <3>1 DEF Referral!Row
  <2>3. CASE r \notin Referral!PendingFor(a)
      BY <1>1, <2>1, <2>3
  <2> QED
      BY <2>2, <2>3
<1>3. x2' \in [Referrals -> Referral!Row]
    BY <1>2 DEF Referral!SettleReferrals
<1>4. x3' \subseteq Referral!Payment
    BY <1>0, Settlement
<1>5. \A p \in x3' : x2'[p.source].awarded
    BY <1>0, <1>2, Settlement DEF ReferralsInv, Referral!Payment
<1>6. \A r \in Referral!PendingFor(a) : x2[r].kind # "none"
    BY <1>0, Settlement
<1>7. \A r \in Referrals : x2'[r].awarded => x2'[r].kind # "none"
    BY <1>2, <1>6 DEF ReferralsInv
<1>8. \A r \in Referrals : /\ x2'[r].kind = "none" => x2'[r].contact = "no_contact"
                           /\ x2'[r].kind = "stand_down" => x2'[r].owed # 0
    BY <1>2 DEF ReferralsInv
<1> QED
    BY <1>0, <1>3, <1>4, <1>5, <1>7, <1>8 DEF ReferralsInv, Referral!ReferralsTypeOK, Referral!Existing

LEMMA ReferralsStep ==
    ASSUME ReferralsInv, Referral!ReferralsNext
    PROVE  ReferralsInv' /\ Referral!DebtsSettledOnce
<1>1. CASE \/ \E a \in Rows, h \in Handles, c \in Actors : Referral!SignUp(a, h, c)
           \/ \E a \in Rows, h \in Handles : Referral!ChangeHandle(a, h)
           \/ \E a \in Rows, cs \in SUBSET Actors : Referral!EditContacts(a, cs)
  <2>1. UNCHANGED <<x2, x3>>
      BY <1>1 DEF Referral!SignUp, Referral!ChangeHandle, Referral!EditContacts
  <2> QED
      BY <1>1, <2>1, RidersEdited DEF Referral!DebtsSettledOnce
<1>2. ASSUME NEW r \in Referrals, NEW a \in Rows \cup {"anonymous"}, NEW c \in Actors,
             Referral!DibsRefer(r, a, c) \/ Referral!DibsStandDown(r, a, c)
      PROVE  ReferralsInv' /\ UNCHANGED x3
    BY <1>2, ReferralMade DEF Referral!DibsRefer, Referral!DibsStandDown
<1>3. CASE Referral!Midnight
    BY <1>3, MidnightStrikes DEF Referral!DebtsSettledOnce, Referral!Midnight
<1>4. ASSUME NEW a \in Rows, Referral!SettleReferrals(a)
      PROVE  ReferralsInv' /\ Referral!DebtsSettledOnce
  <2>1. ASSUME NEW p \in x3' \ x3
        PROVE  /\ ~x2[p.source].awarded /\ x2'[p.source].awarded
               /\ \A q \in x3' : q.source = p.source => q \notin x3 /\ (q = p \/ q.action # p.action)
               /\ p.action = "stand_down" => ~x2[p.source].late
    <3>1. /\ p.source \in Referral!PendingFor(a) /\ p.source \in Referrals
          /\ p.action = "stand_down" => ~x2[p.source].late
          /\ \A q \in x3' \ x3 : q.source = p.source /\ q.action = p.action => q = p
        BY <1>4, <2>1, Settlement DEF Referral!PendingFor
    <3>2. ~x2[p.source].awarded /\ x2'[p.source].awarded
      <4>1. x2[p.source] \in Referral!Row
          BY <3>1, ReferralRows DEF ReferralsInv
      <4> QED
          BY <1>4, <3>1, <4>1, Settlement DEF Referral!Row
    <3>3. \A q \in x3 : q.source # p.source
        BY <3>2 DEF ReferralsInv
    <3> QED
        BY <3>1, <3>2, <3>3
  <2>2. x3 \subseteq x3'
      BY <1>4, Settlement
  <2> QED
      BY <1>4, <2>1, <2>2, Settled DEF Referral!DebtsSettledOnce
<1>5. UNCHANGED x3 => Referral!DebtsSettledOnce
    BY DEF Referral!DebtsSettledOnce
<1> QED
    BY <1>1, <1>2, <1>3, <1>4, <1>5 DEF Referral!ReferralsNext, Referral!Anonymous

-----------------------------------------------------------------------------
(* Named settings.  x1 is saved, x2 putting and x3 accountHeld. *)

Put == [stage : {"idle", "asked", "counted", "full"}, kind : Kinds \cup {"none"}, name : Names \cup {"none"}]

\* Who has counted holds the account's row, and what it counted still holds: a name that
\* goes leaves more room, and no name can come.
SettingsInv ==
    /\ Setting!BlobsTypeOK
    /\ x2 \in [Actors -> Put]
    /\ \A k \in Kinds : IsFiniteSet(x1[k]) /\ Cardinality(x1[k]) <= CapOf[k]
    /\ \A p \in Actors : /\ x3 = p <=> x2[p].stage \in {"counted", "full"}
                         /\ x2[p].stage # "idle" => x2[p].kind \in Kinds /\ x2[p].name \in Names
                         /\ x2[p].stage = "counted" =>
                                Cardinality(Setting!Others(p)) < CapOf[x2[p].kind]
                         /\ x2[p].stage = "full" => x2[p].name \notin x1[x2[p].kind]

\* The instance's cardinality is the one of the library's theorems.
LEMMA NamedCardinality == \A S : Setting!Cardinality(S) = Cardinality(S)
BY DEF Setting!Cardinality, Cardinality

LEMMA SettingsKept == SettingsInv => Setting!CapBindsNewNamesOnly
BY NamedCardinality DEF SettingsInv, Setting!CapBindsNewNamesOnly

LEMMA InitSettingsInv == Setting!BlobsInit => SettingsInv
<1> SUFFICES ASSUME Setting!BlobsInit PROVE SettingsInv
    OBVIOUS
<1>1. /\ x1 = [k \in Kinds |-> {}] /\ x3 = "nobody" /\ "nobody" \notin Actors
      /\ x2 = [p \in Actors |-> [stage |-> "idle", kind |-> "none", name |-> "none"]]
    BY DataAssumption DEF Setting!BlobsInit, Setting!Nobody, Setting!NotPutting
<1>2. IsFiniteSet({}) /\ Cardinality({}) = 0
    BY FS_EmptySet
<1>3. \A k \in Kinds : CapOf[k] \in Nat
    BY CapsAssumption
<1> QED
  <2>1. x2 \in [Actors -> Put]
      BY <1>1 DEF Put
  <2>2. \A k \in Kinds : IsFiniteSet(x1[k]) /\ Cardinality(x1[k]) <= CapOf[k]
      BY <1>1, <1>2, <1>3
  <2> QED
      BY <1>1, <2>1, <2>2 DEF SettingsInv, Setting!BlobsTypeOK, Setting!Nobody

LEMMA SettingsStep ==
    ASSUME SettingsInv, Setting!BlobsNext
    PROVE  SettingsInv'
<1>0. /\ x1 \in [Kinds -> SUBSET Names] /\ x2 \in [Actors -> Put] /\ x3 \in Actors \cup {"nobody"}
      /\ "nobody" \notin Actors
      /\ \A k \in Kinds : IsFiniteSet(x1[k]) /\ CapOf[k] \in Nat /\ Cardinality(x1[k]) <= CapOf[k]
    BY CapsAssumption, DataAssumption
       DEF SettingsInv, Setting!BlobsTypeOK, Setting!Nobody
<1>c. ASSUME NEW k \in Kinds, NEW name
      PROVE  /\ Cardinality(x1[k]) \in Nat
             /\ IsFiniteSet(x1[k] \ {name}) /\ Cardinality(x1[k] \ {name}) \in Nat
  <2>1. IsFiniteSet(x1[k]) /\ x1[k] \ {name} \subseteq x1[k]
      BY <1>0
  <2>2. IsFiniteSet(x1[k] \ {name})
      BY <2>1, FS_Subset
  <2> QED
      BY <2>1, <2>2, FS_CardinalityType
<1>1. ASSUME NEW p \in Actors, NEW kind \in Kinds, NEW name \in Names, Setting!AskToPut(p, kind, name)
      PROVE  SettingsInv'
  <2> DEFINE new == [stage |-> "asked", kind |-> kind, name |-> name]
  <2>1. x2' = [x2 EXCEPT ![p] = new] /\ new \in Put /\ x2[p].stage = "idle" /\ UNCHANGED <<x1, x3>>
      BY <1>1 DEF Setting!AskToPut, Put
  <2>2. x2' \in [Actors -> Put] /\ x2'[p] = new /\ \A q \in Actors \ {p} : x2'[q] = x2[q]
      BY <1>0, <2>1
  <2> QED
      BY <1>0, <2>1, <2>2 DEF SettingsInv, Setting!BlobsTypeOK, Setting!Others, Put
<1>2. ASSUME NEW p \in Actors, Setting!EnforceNamedCap(p)
      PROVE  SettingsInv'
  <2>1. /\ x2[p].stage = "asked" /\ x3 = "nobody" /\ x3' = p /\ x1' = x1
        /\ x2[p].kind \in Kinds /\ x2[p].name \in Names
      BY <1>2 DEF Setting!EnforceNamedCap, Setting!RowFree, Setting!Nobody, SettingsInv
  <2>2. \A q \in Actors : x2[q].stage \notin {"counted", "full"}
      BY <1>0, <2>1 DEF SettingsInv
  <2> DEFINE others == x1[x2[p].kind] \ {x2[p].name}
             cap == CapOf[x2[p].kind]
  <2>3. Setting!Others(p) = others /\ Setting!Cardinality(Setting!Others(p)) = Cardinality(others)
      BY NamedCardinality DEF Setting!Others
  <2>4. IsFiniteSet(others) /\ Cardinality(others) \in Nat
      BY <1>c, <2>1
  <2>5. CASE Setting!Cardinality(Setting!Others(p)) >= CapOf[x2[p].kind]
    <3>1. x2' = [x2 EXCEPT ![p] = [x2[p] EXCEPT !.stage = "full"]]
        BY <1>2, <2>5 DEF Setting!EnforceNamedCap
    <3>2. x2' \in [Actors -> Put] /\ x2'[p] = [x2[p] EXCEPT !.stage = "full"]
          /\ \A q \in Actors \ {p} : x2'[q] = x2[q]
        BY <1>0, <3>1 DEF Put
    <3>3. x2'[p].stage = "full" /\ x2'[p].kind = x2[p].kind /\ x2'[p].name = x2[p].name
        BY <1>0, <3>2 DEF Put
    <3>4. x2[p].name \notin x1[x2[p].kind]
      <4> SUFFICES ASSUME x2[p].name \in x1[x2[p].kind] PROVE FALSE
          OBVIOUS
      <4> DEFINE names == x1[x2[p].kind]
      <4>1. IsFiniteSet(names) /\ Cardinality(names) \in Nat /\ Cardinality(names) <= cap /\ cap \in Nat
          BY <1>0, <1>c, <2>1
      <4>2. others = names \ {x2[p].name} /\ x2[p].name \in names
          OBVIOUS
      <4>3. Cardinality(names \ {x2[p].name}) = Cardinality(names) - 1
        <5> HIDE DEF names, others
        <5> QED
            BY <4>1, <4>2, FS_RemoveElement
      <4>4. Cardinality(others) >= cap
          BY <2>3, <2>5
      <4> HIDE DEF others, names, cap
      <4> QED
          BY <4>1, <4>2, <4>3, <4>4
    <3> QED
        BY <1>0, <2>1, <2>2, <3>2, <3>3, <3>4
           DEF SettingsInv, Setting!BlobsTypeOK, Setting!Nobody, Setting!Others
  <2>6. CASE ~(Setting!Cardinality(Setting!Others(p)) >= CapOf[x2[p].kind])
    <3>1. x2' = [x2 EXCEPT ![p] = [x2[p] EXCEPT !.stage = "counted"]]
        BY <1>2, <2>6 DEF Setting!EnforceNamedCap
    <3>2. x2' \in [Actors -> Put] /\ x2'[p] = [x2[p] EXCEPT !.stage = "counted"]
          /\ \A q \in Actors \ {p} : x2'[q] = x2[q]
        BY <1>0, <3>1 DEF Put
    <3>3. x2'[p].stage = "counted" /\ x2'[p].kind = x2[p].kind /\ x2'[p].name = x2[p].name
        BY <1>0, <3>2 DEF Put
    <3>4. Setting!Others(p)' = others /\ Cardinality(others) < cap
      <4>1. ~(Cardinality(others) >= cap)
          BY <2>3, <2>6
      <4>2. Setting!Others(p)' = others
          BY <2>1, <3>3 DEF Setting!Others
      <4> HIDE DEF others
      <4> QED
          BY <1>0, <2>1, <2>4, <4>1, <4>2
    <3> QED
        BY <1>0, <2>1, <2>2, <3>2, <3>3, <3>4
           DEF SettingsInv, Setting!BlobsTypeOK, Setting!Nobody, Setting!Others
  <2> QED
      BY <2>5, <2>6
<1>3. ASSUME NEW p \in Actors, Setting!EndPut(p), x2[p].stage \in {"counted", "full"},
             NEW k \in Kinds, NEW name \in Names,
             \/ x1' = x1
             \/ /\ x1' = [x1 EXCEPT ![k] = @ \cup {name}]
                /\ x2[p].stage = "counted" /\ x2[p].kind = k /\ x2[p].name = name
      PROVE  SettingsInv'
  <2>1. x2' = [x2 EXCEPT ![p] = Setting!NotPutting] /\ x3' = "nobody" /\ x3 = p
      BY <1>3 DEF Setting!EndPut, Setting!Nobody, SettingsInv
  <2>2. Setting!NotPutting \in Put /\ Setting!NotPutting.stage = "idle"
      BY DEF Setting!NotPutting, Put
  <2>3. x2' \in [Actors -> Put] /\ x2'[p].stage = "idle" /\ \A q \in Actors \ {p} : x2'[q] = x2[q]
      BY <1>0, <2>1, <2>2
  <2>4. \A q \in Actors \ {p} : x2[q].stage \notin {"counted", "full"}
      BY <1>0, <2>1 DEF SettingsInv
  <2>5. /\ x1' \in [Kinds -> SUBSET Names]
        /\ \A j \in Kinds : IsFiniteSet(x1'[j]) /\ Cardinality(x1'[j]) <= CapOf[j]
    <3>1. CASE x1' = x1
        BY <1>0, <3>1
    <3>2. CASE /\ x1' = [x1 EXCEPT ![k] = @ \cup {name}]
               /\ x2[p].stage = "counted" /\ x2[p].kind = k /\ x2[p].name = name
      <4> DEFINE others == x1[k] \ {name}
      <4>1. IsFiniteSet(others) /\ Cardinality(others) \in Nat
          BY <1>c
      <4>2. Cardinality(others) < CapOf[k]
          BY <3>2 DEF SettingsInv, Setting!Others
      <4>3. IsFiniteSet(others \cup {name}) /\ Cardinality(others \cup {name}) = Cardinality(others) + 1
          BY <4>1, FS_AddElement
      <4>4. others \cup {name} = x1[k] \cup {name}
          OBVIOUS
      <4>5. IsFiniteSet(x1[k] \cup {name}) /\ Cardinality(x1[k] \cup {name}) <= CapOf[k]
        <5> DEFINE cap == CapOf[k]
        <5>1. cap \in Nat /\ Cardinality(others) < cap
            BY <1>0, <4>2
        <5> HIDE DEF cap, others
        <5>2. IsFiniteSet(x1[k] \cup {name}) /\ Cardinality(x1[k] \cup {name}) <= cap
            BY <5>1, <4>1, <4>3, <4>4
        <5> QED
            BY <5>2 DEF cap
      <4> HIDE DEF others
      <4> QED
          BY <1>0, <3>2, <4>5
    <3> QED
        BY <1>3, <3>1, <3>2
  <2>6. \A q \in Actors : x3' = q <=> x2'[q].stage \in {"counted", "full"}
      BY <1>0, <2>1, <2>3, <2>4
  <2>7. \A q \in Actors : /\ x2'[q].stage # "idle" => x2'[q].kind \in Kinds /\ x2'[q].name \in Names
                          /\ x2'[q].stage \notin {"counted", "full"}
      BY <2>3, <2>4 DEF SettingsInv
  <2>8. \A q \in Actors : x2'[q].stage \in {"idle", "asked", "counted", "full"}
      BY <2>3 DEF Put
  <2> QED
      BY <1>0, <2>1, <2>3, <2>5, <2>6, <2>7, <2>8
         DEF SettingsInv, Setting!BlobsTypeOK, Setting!Nobody
<1>4. ASSUME NEW p \in Actors, Setting!StoreBlob(p) \/ Setting!PutEnds(p)
      PROVE  SettingsInv'
  <2>1. x2[p].kind \in Kinds /\ x2[p].name \in Names /\ x2[p].stage \in {"counted", "full"}
      BY <1>4 DEF SettingsInv, Setting!StoreBlob, Setting!PutEnds
  <2> QED
      BY <1>3, <1>4, <2>1 DEF Setting!StoreBlob, Setting!PutEnds
<1>5. ASSUME NEW kind \in Kinds, NEW name \in Names, Setting!DeleteBlob(kind, name)
      PROVE  SettingsInv'
  <2>1. x1' = [x1 EXCEPT ![kind] = x1[kind] \ {name}] /\ UNCHANGED <<x2, x3>>
      BY <1>5 DEF Setting!DeleteBlob
  <2>2. x1' \in [Kinds -> SUBSET Names] /\ \A k \in Kinds : x1'[k] \subseteq x1[k]
      BY <1>0, <2>1
  <2>3. \A k \in Kinds : IsFiniteSet(x1'[k]) /\ Cardinality(x1'[k]) <= CapOf[k]
    <3> SUFFICES ASSUME NEW k \in Kinds PROVE IsFiniteSet(x1'[k]) /\ Cardinality(x1'[k]) <= CapOf[k]
        OBVIOUS
    <3> DEFINE before == x1[k]
               after  == x1'[k]
               cap    == CapOf[k]
    <3>1. /\ IsFiniteSet(before) /\ after \subseteq before /\ Cardinality(before) \in Nat
          /\ cap \in Nat /\ Cardinality(before) <= cap
        BY <1>0, <1>c, <2>2
    <3> HIDE DEF before, after, cap
    <3>2. IsFiniteSet(after) /\ Cardinality(after) <= Cardinality(before)
        BY <3>1, FS_Subset
    <3>3. Cardinality(after) \in Nat
        BY <3>2, FS_CardinalityType
    <3>4. Cardinality(after) <= cap
        BY <3>1, <3>2, <3>3
    <3> QED
        BY <3>2, <3>4 DEF after, cap
  <2>4. \A p \in Actors : x2[p].stage = "counted" => Cardinality(Setting!Others(p)') < CapOf[x2[p].kind]
    <3> SUFFICES ASSUME NEW p \in Actors, x2[p].stage = "counted"
                 PROVE  Cardinality(Setting!Others(p)') < CapOf[x2[p].kind]
        OBVIOUS
    <3> DEFINE before == x1[x2[p].kind] \ {x2[p].name}
               after  == x1'[x2[p].kind] \ {x2[p].name}
    <3>1. x2[p].kind \in Kinds /\ Cardinality(before) < CapOf[x2[p].kind]
        BY DEF SettingsInv, Setting!Others
    <3>2. IsFiniteSet(before) /\ after \subseteq before
        BY <1>c, <2>2, <3>1
    <3>3. Cardinality(after) <= Cardinality(before) /\ Cardinality(after) \in Nat /\ Cardinality(before) \in Nat
        BY <3>2, FS_Subset, FS_CardinalityType
    <3>4. Setting!Others(p)' = after
        BY <2>1 DEF Setting!Others
    <3> HIDE DEF before, after
    <3> QED
        BY <1>0, <3>1, <3>3, <3>4
  <2>5. \A p \in Actors : x2[p].stage = "full" => x2[p].name \notin x1'[x2[p].kind]
      BY <2>2 DEF SettingsInv
  <2>6. \A p \in Actors : x2'[p].stage = "counted" => Cardinality(Setting!Others(p)') < CapOf[x2'[p].kind]
      BY <2>1, <2>4
  <2>7. \A p \in Actors : x2'[p].stage = "full" => x2'[p].name \notin x1'[x2'[p].kind]
      BY <2>1, <2>5
  <2> QED
      BY <1>0, <2>1, <2>2, <2>3, <2>6, <2>7 DEF SettingsInv, Setting!BlobsTypeOK
<1> QED
    BY <1>1, <1>2, <1>4, <1>5 DEF Setting!BlobsNext


-----------------------------------------------------------------------------
(* The limiter at the doors.  x1 is limitClock, x2 events and x3 caller. *)

Since(counted, b, t) == {e \in counted : e.bucket = b /\ e.at + WindowTicks >= t}
Within(counted, b, t) == {e \in counted : e.bucket = b /\ t <= e.at /\ e.at <= t + WindowTicks}

\* What a request was counted against still holds when it commits: nobody but the one who
\* holds a bucket's lock can add to the bucket.
Counted(c) ==
    /\ x3[c].stage # "inside" => x3[c].times = <<>> /\ x3[c].asked = Limit!NotAsking
    /\ Len(x3[c].times) <= Len(x3[c].door)
    /\ x3[c].asked # Limit!NotAsking => Len(x3[c].times) < Len(x3[c].door)
    /\ \A i \in DOMAIN x3[c].times :
           Cardinality(Since(x2, x3[c].door[i], x3[c].times[i])) < LimitOf[x3[c].door[i]]

LimitsInv ==
    /\ Limit!LimitTypeOK
    /\ IsFiniteSet(x2)
    /\ \A c \in Hands : Counted(c)
    /\ \A c, d \in Hands : \A i \in DOMAIN x3[c].times, j \in DOMAIN x3[d].times :
           x3[c].door[i] = x3[d].door[j] => c = d
    /\ \A b \in Limit!Buckets, t \in Limit!LimitTicks : Cardinality(Within(x2, b, t)) <= LimitOf[b]

\* The instance's cardinality is the one of the library's theorems.
LEMMA LimiterCardinality == \A S : Limit!Cardinality(S) = Cardinality(S)
BY DEF Limit!Cardinality, Cardinality

LEMMA WindowsHold == LimitsInv => Limit!WindowNeverOverfull
BY LimiterCardinality DEF LimitsInv, Limit!WindowNeverOverfull, Within

\* A door asks of a bucket once.
LEMMA DoorsAsk ==
    \A door \in Limit!LimitedDoors :
        /\ Len(door) \in Nat /\ Len(door) >= 1
        /\ \A i \in 1 .. Len(door) : door[i] \in Limit!Buckets
        /\ \A i, j \in 1 .. Len(door) : door[i] = door[j] => i = j
BY DEF Limit!LimitedDoors, Limit!Buckets

LEMMA LimitsTyped ==
    ASSUME LimitsInv
    PROVE  /\ x1 \in Limit!LimitTicks /\ x2 \subseteq Limit!Event /\ x3 \in [Hands -> Limit!Caller]
           /\ WindowTicks \in Nat /\ MaxLimitClock \in Nat
           /\ \A b \in Limit!Buckets : LimitOf[b] \in Nat
           /\ \A c \in Hands : x3[c].door \in Limit!LimitedDoors /\ x3[c].times \in Seq(Limit!LimitTicks)
BY CapsAssumption DEF LimitsInv, Limit!LimitTypeOK, Limit!Buckets, Limit!Caller

LEMMA InitLimitsInv == Limit!LimitInit => LimitsInv
<1> SUFFICES ASSUME Limit!LimitInit PROVE LimitsInv
    OBVIOUS
<1>1. /\ x1 = 0 /\ x2 = {}
      /\ x3 \in [Hands -> [stage : {"new"}, door : Limit!LimitedDoors, times : {<<>>},
                           asked : {Limit!NotAsking}]]
    BY DEF Limit!LimitInit
<1>2. x1 \in Limit!LimitTicks /\ x2 \subseteq Limit!Event
    BY <1>1, CapsAssumption DEF Limit!LimitTicks
<1>3. \A c \in Hands : /\ x3[c].stage = "new" /\ x3[c].door \in Limit!LimitedDoors /\ x3[c].times = <<>>
                       /\ x3[c].asked = Limit!NotAsking
    BY <1>1
<1>4. x3 \in [Hands -> Limit!Caller]
  <2>1. <<>> \in Seq(Limit!LimitTicks)
      OBVIOUS
  <2>2. [stage : {"new"}, door : Limit!LimitedDoors, times : {<<>>}, asked : {Limit!NotAsking}]
            \subseteq Limit!Caller
      BY <2>1 DEF Limit!Caller
  <2> QED
      BY <1>1, <2>2
<1>5. IsFiniteSet({}) /\ Cardinality({}) = 0
    BY FS_EmptySet
<1>6. \A c \in Hands : Counted(c)
    BY <1>3, DoorsAsk DEF Counted
<1>7. \A b \in Limit!Buckets, t \in Limit!LimitTicks : Cardinality(Within(x2, b, t)) <= LimitOf[b]
  <2>1. \A b, t : Within(x2, b, t) = {}
      BY <1>1 DEF Within
  <2>2. \A b \in Limit!Buckets : LimitOf[b] \in Nat
      BY CapsAssumption DEF Limit!Buckets
  <2> QED
      BY <1>5, <2>1, <2>2
<1> QED
    BY <1>1, <1>2, <1>3, <1>4, <1>5, <1>6, <1>7 DEF LimitsInv, Limit!LimitTypeOK

\* One request moves on and the rows stay.
LEMMA CallerMoves ==
    ASSUME LimitsInv, x1' \in Limit!LimitTicks, x2' = x2,
           NEW c \in Hands, NEW made \in Limit!Caller, x3' = [x3 EXCEPT ![c] = made],
           made.door = x3[c].door,
           made.stage # "inside" => made.times = <<>> /\ made.asked = Limit!NotAsking,
           Len(made.times) <= Len(made.door),
           made.asked # Limit!NotAsking => Len(made.times) < Len(made.door),
           \A i \in DOMAIN made.times :
               /\ Cardinality(Since(x2, made.door[i], made.times[i])) < LimitOf[made.door[i]]
               /\ \A d \in Hands \ {c} : \A j \in DOMAIN x3[d].times : made.door[i] # x3[d].door[j]
    PROVE  LimitsInv'
<1>1. x3 \in [Hands -> Limit!Caller]
    BY LimitsTyped
<1>2. x3' \in [Hands -> Limit!Caller] /\ x3'[c] = made /\ \A d \in Hands \ {c} : x3'[d] = x3[d]
    BY <1>1
<1>3. \A d \in Hands : Counted(d)'
  <2>1. Counted(c)'
      BY <1>2 DEF Counted, Since, Limit!NotAsking
  <2>2. ASSUME NEW d \in Hands \ {c} PROVE Counted(d)'
    <3>1. Counted(d)
        BY DEF LimitsInv
    <3>2. x3'[d] = x3[d]
        BY <1>2
    <3> QED
        BY SMTT(60), <3>1, <3>2 DEF Counted, Since, Limit!NotAsking
  <2> QED
      BY <2>1, <2>2
<1>4. \A d, e \in Hands : \A i \in DOMAIN x3'[d].times, j \in DOMAIN x3'[e].times :
          x3'[d].door[i] = x3'[e].door[j] => d = e
    BY <1>2 DEF LimitsInv
<1> QED
    BY <1>2, <1>3, <1>4 DEF LimitsInv, Limit!LimitTypeOK, Within

LEMMA RequestAsks ==
    ASSUME LimitsInv, NEW c \in Hands, Limit!Asks(c)
    PROVE  LimitsInv'
<1> DEFINE made == [[x3[c] EXCEPT !.stage = "inside"] EXCEPT !.asked = x1]
<1>1. /\ x3' = [x3 EXCEPT ![c] = made] /\ x1' = x1 /\ x2' = x2
      /\ Len(x3[c].times) < Len(x3[c].door)
    BY LimitsTyped DEF Limit!Asks
<1>2. x3[c] \in Limit!Caller /\ x1 \in Limit!LimitTicks
    BY LimitsTyped
<1>3. /\ made \in Limit!Caller /\ made.stage = "inside" /\ made.door = x3[c].door
      /\ made.times = x3[c].times
    BY <1>2 DEF Limit!Caller
<1>4. Counted(c)
    BY DEF LimitsInv
<1>5. \A d \in Hands \ {c} : \A i \in DOMAIN made.times : \A j \in DOMAIN x3[d].times :
          made.door[i] # x3[d].door[j]
    BY <1>3 DEF LimitsInv
<1> HIDE DEF made
<1>6. Len(made.times) < Len(made.door) /\ Len(made.times) <= Len(made.door)
    BY <1>1, <1>3, <1>4 DEF Counted
<1>7. \A i \in DOMAIN made.times :
          Cardinality(Since(x2, made.door[i], made.times[i])) < LimitOf[made.door[i]]
    BY <1>3, <1>4 DEF Counted
<1> QED
    BY <1>1, <1>2, <1>3, <1>5, <1>6, <1>7, CallerMoves

LEMMA RequestPasses ==
    ASSUME LimitsInv, NEW c \in Hands, Limit!Passes(c)
    PROVE  LimitsInv'
<1> DEFINE asked == x3[c].asked
           n     == Len(x3[c].times) + 1
           b     == x3[c].door[n]
           made  == [[x3[c] EXCEPT !.times = Append(x3[c].times, asked)] EXCEPT !.asked = Limit!NotAsking]
<1>1. x3' = [x3 EXCEPT ![c] = made] /\ x1' = x1 /\ x2' = x2 /\ asked # Limit!NotAsking
    BY LimitsTyped DEF Limit!Passes
<1>2. /\ x3[c] \in Limit!Caller /\ x1 \in Limit!LimitTicks /\ x3[c].times \in Seq(Limit!LimitTicks)
      /\ x3[c].door \in Limit!LimitedDoors
    BY LimitsTyped
<1>3. Counted(c)
    BY DEF LimitsInv
<1>4. x3[c].stage = "inside" /\ n \in 1 .. Len(x3[c].door) /\ asked \in Limit!LimitTicks
  <2>1. Len(x3[c].times) \in Nat /\ Len(x3[c].times) < Len(x3[c].door) /\ x3[c].stage = "inside"
      BY <1>1, <1>2, <1>3 DEF Counted
  <2>2. Len(x3[c].door) \in Nat
      BY <1>2, DoorsAsk
  <2>3. asked \in Limit!LimitTicks
      BY <1>1, <1>2 DEF Limit!Caller
  <2> QED
      BY <2>1, <2>2, <2>3
<1>5. Limit!NextBucket(c) = b
    BY DEF Limit!NextBucket
<1>6. Cardinality(Since(x2, b, asked)) < LimitOf[b]
    BY <1>5, LimiterCardinality DEF Limit!Passes, Limit!CountSince, Since
<1>7. \A d \in Hands : \A j \in DOMAIN x3[d].times : b # x3[d].door[j]
  <2>1. ~Limit!Locked(b)
      BY <1>5 DEF Limit!Passes
  <2> QED
      BY <2>1 DEF Limit!Locked, Limit!Holds, LimitsInv, Counted
<1>8. /\ made \in Limit!Caller /\ made.door = x3[c].door /\ made.times = Append(x3[c].times, asked)
      /\ made.asked = Limit!NotAsking /\ made.stage = "inside"
  <2>1. Append(x3[c].times, asked) \in Seq(Limit!LimitTicks)
      BY <1>2, <1>4
  <2> QED
      BY <1>2, <1>4, <2>1 DEF Limit!Caller
<1>9. /\ Len(made.times) = n
      /\ DOMAIN made.times = 1 .. n
      /\ made.times[n] = asked
      /\ \A i \in 1 .. n : i = n \/ (i \in DOMAIN x3[c].times /\ made.times[i] = x3[c].times[i])
    BY <1>2, <1>4, <1>8
<1>10. \A i \in DOMAIN made.times :
           Cardinality(Since(x2, made.door[i], made.times[i])) < LimitOf[made.door[i]]
  <2> SUFFICES ASSUME NEW i \in DOMAIN made.times
               PROVE  Cardinality(Since(x2, made.door[i], made.times[i])) < LimitOf[made.door[i]]
      OBVIOUS
  <2>1. CASE i = n
      BY <1>6, <1>8, <1>9, <2>1
  <2>2. CASE i # n
    <3>1. i \in DOMAIN x3[c].times /\ made.times[i] = x3[c].times[i]
        BY <1>9, <2>2
    <3> HIDE DEF made
    <3> QED
        BY <1>3, <1>8, <3>1 DEF Counted
  <2> QED
      BY <2>1, <2>2
<1>11. \A i \in DOMAIN made.times : \A d \in Hands \ {c} : \A j \in DOMAIN x3[d].times :
           made.door[i] # x3[d].door[j]
  <2> SUFFICES ASSUME NEW i \in DOMAIN made.times, NEW d \in Hands \ {c}, NEW j \in DOMAIN x3[d].times
               PROVE  made.door[i] # x3[d].door[j]
      OBVIOUS
  <2>1. CASE i = n
      BY <1>7, <1>8, <2>1
  <2>2. CASE i # n
    <3>1. i \in DOMAIN x3[c].times
        BY <1>9, <2>2
    <3> QED
        BY <1>8, <3>1 DEF LimitsInv
  <2> QED
      BY <2>1, <2>2
<1>12. Len(made.times) <= Len(made.door)
  <2>1. Len(x3[c].door) \in Nat
      BY <1>2, DoorsAsk
  <2> QED
      BY <1>4, <1>8, <1>9, <2>1
<1> HIDE DEF made
<1> QED
    BY <1>1, <1>2, <1>8, <1>10, <1>11, <1>12, CallerMoves

LEMMA RequestEnds ==
    ASSUME LimitsInv, NEW c \in Hands, Limit!IsRefused(c) \/ Limit!HandlerFails(c)
    PROVE  LimitsInv'
<1> DEFINE made == [[[x3[c] EXCEPT !.stage = "refused"] EXCEPT !.times = <<>>]
                                   EXCEPT !.asked = Limit!NotAsking]
<1>1. x3' = [x3 EXCEPT ![c] = made] /\ x1' = x1 /\ x2' = x2
    BY LimitsTyped DEF Limit!IsRefused, Limit!HandlerFails
<1>2. x3[c] \in Limit!Caller /\ x1 \in Limit!LimitTicks /\ x3[c].door \in Limit!LimitedDoors
    BY LimitsTyped
<1>e. <<>> \in Seq(Limit!LimitTicks) /\ Len(<<>>) = 0 /\ \A i \in DOMAIN <<>> : FALSE
    OBVIOUS
<1>3. /\ made \in Limit!Caller /\ made.door = x3[c].door /\ made.times = <<>>
      /\ made.asked = Limit!NotAsking /\ made.stage = "refused"
    BY <1>2, <1>e DEF Limit!Caller
<1>4. Len(made.times) <= Len(made.door)
    BY <1>2, <1>3, DoorsAsk
<1>5. \A i \in DOMAIN made.times : FALSE
    BY <1>3, <1>e
<1> HIDE DEF made
<1> QED
    BY <1>1, <1>2, <1>3, <1>4, <1>5, CallerMoves

\* The rows of a request that commits: one in each bucket of its door, and each bucket's
\* window that the new row falls in was counted, with its later events, under the lock.
LEMMA RequestCommits ==
    ASSUME LimitsInv, NEW c \in Hands, Limit!Commits(c)
    PROVE  LimitsInv'
<1> DEFINE door  == x3[c].door
           times == x3[c].times
           Row(i) == [by |-> c, bucket |-> door[i], at |-> times[i]]
           new   == {Row(i) : i \in DOMAIN times}
           made  == [[x3[c] EXCEPT !.stage = "admitted"] EXCEPT !.times = <<>>]
<1>t. /\ x3[c] \in Limit!Caller /\ x1 \in Limit!LimitTicks /\ x2 \subseteq Limit!Event
      /\ times \in Seq(Limit!LimitTicks) /\ door \in Limit!LimitedDoors
      /\ WindowTicks \in Nat /\ MaxLimitClock \in Nat
    BY LimitsTyped
<1>c. Counted(c)
    BY DEF LimitsInv
<1>1. /\ x3' = [x3 EXCEPT ![c] = made] /\ x1' = x1 /\ x2' = x2 \cup new
      /\ x3[c].stage = "inside" /\ Len(times) = Len(door)
    BY LimitsTyped DEF Limit!Commits
<1>2. /\ Len(door) \in Nat /\ DOMAIN times = 1 .. Len(door)
      /\ \A i \in DOMAIN times : door[i] \in Limit!Buckets /\ times[i] \in Limit!LimitTicks
      /\ \A i, j \in DOMAIN times : door[i] = door[j] => i = j
  <2>1. /\ Len(door) \in Nat
        /\ \A i \in 1 .. Len(door) : door[i] \in Limit!Buckets
        /\ \A i, j \in 1 .. Len(door) : door[i] = door[j] => i = j
      BY <1>t, DoorsAsk
  <2>2. DOMAIN times = 1 .. Len(door) /\ \A i \in DOMAIN times : times[i] \in Limit!LimitTicks
      BY <1>t, <1>1
  <2> QED
      BY <2>1, <2>2
<1>3. x3[c].asked = Limit!NotAsking
  <2>1. ~(Len(times) < Len(door))
      BY <1>1, <1>2
  <2> QED
      BY <1>c, <2>1 DEF Counted
<1>4. /\ made \in Limit!Caller /\ made.times = <<>> /\ made.stage = "admitted"
      /\ made.asked = Limit!NotAsking /\ made.door = door
  <2>1. <<>> \in Seq(Limit!LimitTicks)
      OBVIOUS
  <2> QED
      BY <1>t, <1>3, <2>1 DEF Limit!Caller
<1>5. /\ x3' \in [Hands -> Limit!Caller] /\ x3'[c] = made
      /\ \A d \in Hands \ {c} : x3'[d] = x3[d]
  <2>1. x3 \in [Hands -> Limit!Caller]
      BY LimitsTyped
  <2> HIDE DEF made
  <2> QED
      BY <1>1, <1>4, <2>1
<1>6. new \subseteq Limit!Event
    BY <1>2 DEF Limit!Event
<1>7. IsFiniteSet(new)
  <2> DEFINE f == [i \in DOMAIN times |-> Row(i)]
  <2>1. IsFiniteSet(DOMAIN times)
    <3> DEFINE n == Len(door)
    <3>1. n \in Int /\ 1 \in Int /\ DOMAIN times = 1 .. n
        BY <1>2
    <3> HIDE DEF n
    <3>2. IsFiniteSet(1 .. n)
        BY <3>1, FS_Interval
    <3> QED
        BY <3>1, <3>2
  <2>2. f \in Surjection(DOMAIN times, new)
      BY DEF Surjection
  <2> HIDE DEF new, f
  <2> QED
      BY <2>1, <2>2, FS_Surjection
<1>8. IsFiniteSet(x2')
  <2>1. IsFiniteSet(x2)
      BY DEF LimitsInv
  <2> HIDE DEF new
  <2> QED
      BY <1>1, <1>7, <2>1, FS_Union
<1>9. \A d \in Hands : Counted(d)'
  <2>1. Counted(c)'
    <3>1. Len(<<>>) = 0 /\ \A i \in DOMAIN <<>> : FALSE
        OBVIOUS
    <3> HIDE DEF made
    <3> QED
        BY <1>2, <1>4, <1>5, <3>1 DEF Counted, Limit!NotAsking
  <2>2. ASSUME NEW d \in Hands \ {c} PROVE Counted(d)'
    <3>1. Counted(d) /\ x3'[d] = x3[d]
        BY <1>5 DEF LimitsInv
    <3>2. \A i \in DOMAIN x3[d].times : \A j \in DOMAIN times : x3[d].door[i] # door[j]
        BY DEF LimitsInv
    <3>3. \A i \in DOMAIN x3[d].times :
              Since(x2', x3[d].door[i], x3[d].times[i]) = Since(x2, x3[d].door[i], x3[d].times[i])
      <4> SUFFICES ASSUME NEW i \in DOMAIN x3[d].times
                   PROVE  Since(x2', x3[d].door[i], x3[d].times[i]) = Since(x2, x3[d].door[i], x3[d].times[i])
          OBVIOUS
      <4>1. \A e \in new : e.bucket # x3[d].door[i]
          BY <3>2
      <4> HIDE DEF new
      <4> QED
          BY <1>1, <4>1 DEF Since
    <3> QED
        BY <3>1, <3>3 DEF Counted, Limit!NotAsking
  <2> QED
      BY <2>1, <2>2
<1>10. \A d, e \in Hands : \A i \in DOMAIN x3'[d].times, j \in DOMAIN x3'[e].times :
           x3'[d].door[i] = x3'[e].door[j] => d = e
  <2>1. \A i \in DOMAIN made.times : FALSE
      BY <1>4
  <2> HIDE DEF made
  <2> QED
      BY <1>5, <2>1 DEF LimitsInv
<1>11. ASSUME NEW b \in Limit!Buckets, NEW t \in Limit!LimitTicks
       PROVE  Cardinality(Within(x2', b, t)) <= LimitOf[b]
  <2> DEFINE old == Within(x2, b, t)
             cap == LimitOf[b]
  <2>1. cap \in Nat /\ Cardinality(old) <= cap
      BY LimitsTyped DEF LimitsInv
  <2>2. CASE \A e \in new : ~(e.bucket = b /\ t <= e.at /\ e.at <= t + WindowTicks)
    <3>1. Within(x2', b, t) = old
      <4> HIDE DEF new
      <4> QED
          BY <1>1, <2>2 DEF Within
    <3> HIDE DEF old, cap
    <3> QED
        BY <2>1, <3>1 DEF old, cap
  <2>3. CASE \E e \in new : e.bucket = b /\ t <= e.at /\ e.at <= t + WindowTicks
    <3>1. PICK i \in DOMAIN times : door[i] = b /\ t <= times[i] /\ times[i] <= t + WindowTicks
        BY <2>3
    <3> DEFINE counted == Since(x2, b, times[i])
               row     == Row(i)
    <3>2. Within(x2', b, t) = old \cup {row}
      <4>1. \A e \in new : e.bucket = b => e = row
          BY <1>2, <3>1
      <4>2. row \in new /\ row.bucket = b /\ t <= row.at /\ row.at <= t + WindowTicks
          BY <3>1
      <4> HIDE DEF new, row
      <4> QED
          BY <1>1, <4>1, <4>2 DEF Within
    <3>3. IsFiniteSet(counted) /\ old \subseteq counted
      <4>1. IsFiniteSet(x2) /\ counted \subseteq x2
          BY DEF LimitsInv, Since
      <4>2. times[i] \in Nat /\ t \in Nat /\ \A e \in x2 : e.at \in Nat
          BY <1>t, <1>2 DEF Limit!Event, Limit!LimitTicks
      <4>3. old \subseteq counted
          BY <1>t, <3>1, <4>2 DEF Within, Since
      <4> HIDE DEF counted
      <4> QED
          BY <4>1, <4>3, FS_Subset
    <3>4. Cardinality(counted) < cap
        BY <1>c, <3>1 DEF Counted
    <3> HIDE DEF old, counted, row, cap
    <3>5. IsFiniteSet(old) /\ Cardinality(old) <= Cardinality(counted)
        BY <3>3, FS_Subset
    <3>6. Cardinality(old) \in Nat /\ Cardinality(counted) \in Nat
        BY <3>3, <3>5, FS_CardinalityType
    <3>7. /\ Cardinality(old \cup {row}) = Cardinality(old)
             \/ Cardinality(old \cup {row}) = Cardinality(old) + 1
        BY <3>5, FS_AddElement
    <3>8. Cardinality(old \cup {row}) <= cap
        BY <2>1, <3>4, <3>5, <3>6, <3>7
    <3> QED
        BY <3>2, <3>8 DEF cap
  <2> QED
      BY <2>2, <2>3
<1> HIDE DEF new, made
<1> QED
    BY <1>t, <1>1, <1>5, <1>6, <1>8, <1>9, <1>10, <1>11
       DEF LimitsInv, Limit!LimitTypeOK, Limit!LimitTicks, Limit!Buckets

LEMMA LimitsStep ==
    ASSUME LimitsInv, Limit!LimitNext
    PROVE  LimitsInv'
<1>1. CASE Limit!LimitTick
  <2>1. x1' \in Limit!LimitTicks /\ x2' = x2 /\ x3' = x3
      BY <1>1, LimitsTyped DEF Limit!LimitTick, Limit!LimitTicks
  <2>2. \A c \in Hands : Counted(c)'
      BY <2>1 DEF LimitsInv, Counted, Limit!NotAsking
  <2> QED
      BY <2>1, <2>2 DEF LimitsInv, Limit!LimitTypeOK
<1> QED
    BY <1>1, RequestAsks, RequestPasses, RequestEnds, RequestCommits DEF Limit!LimitNext


-----------------------------------------------------------------------------
(* Awards.  x1 is kind, x2 paid, x3 asking and x4 awardClock. *)

AwardRequest == {Award!NoAward} \cup [stage : {"waiting", "paying"}, award : Award!Award]

\* Who is about to pay holds the lock of the award's key, and what it counted leaves room
\* still: another key's award is none of what it counted.
AwardsInv ==
    /\ Award!AwardsTypeOK
    /\ x3 \in [Actors -> AwardRequest]
    /\ \A q \in Actors : x3[q].stage = "paying" => Award!Room(x3[q].award)
    /\ \A q, r \in Actors :
           /\ x3[q].stage = "paying" /\ x3[r].stage = "paying"
           /\ Award!LockKey(x3[q].award) = Award!LockKey(x3[r].award)
           => q = r
    /\ Award!AwardsWithinRules

\* The instance's cardinality is the one of the library's theorems.
LEMMA LedgerCardinality == \A S : Award!Cardinality(S) = Cardinality(S)
BY DEF Award!Cardinality, Cardinality

LEMMA AwardsTyped ==
    ASSUME AwardsInv
    PROVE  /\ x1 \in Award!AwardKinds /\ x2 \in Seq(Award!Award) /\ Len(x2) \in Nat
           /\ x3 \in [Actors -> AwardRequest] /\ x4 \in 0 .. MaxAwardClock
           /\ AwardWindow \in Nat /\ MaxAwardClock \in Nat /\ MaxPhotosPerDevice \in Nat
           /\ CheckDailyCap \in Nat
           /\ \A q \in Actors : x3[q].stage \in {"waiting", "paying"} => x3[q].award \in Award!Award
BY CapsAssumption DEF AwardsInv, Award!AwardsTypeOK, AwardRequest, Award!NoAward

LEMMA InitAwardsInv == Award!AwardsInit => AwardsInv
<1> SUFFICES ASSUME Award!AwardsInit PROVE AwardsInv
    OBVIOUS
<1>1. /\ x1 \in Award!AwardKinds /\ x2 = <<>> /\ x4 = 0 /\ x3 = [q \in Actors |-> Award!NoAward]
      /\ MaxAwards \in Nat /\ MaxAwardClock \in Nat /\ MaxPhotosPerDevice \in Nat
      /\ CheckDailyCap \in Nat
    BY CapsAssumption DEF Award!AwardsInit
<1>2. x3 \in [Actors -> AwardRequest] /\ \A q \in Actors : x3[q] = Award!NoAward /\ x3[q].stage = "idle"
    BY <1>1 DEF AwardRequest, Award!NoAward
<1>3. x2 \in Seq(Award!Award) /\ Len(x2) = 0 /\ DOMAIN x2 = {}
    BY <1>1
<1>4. Cardinality({}) = 0
    BY FS_EmptySet
<1>5. Award!AwardsTypeOK
    BY <1>1, <1>2, <1>3 DEF Award!AwardsTypeOK
<1>6. Award!AwardsWithinRules
  <2>1. /\ \A v : Award!PaidFor(v) = {}
        /\ \A p, t : {i \in Award!PaidTo(p) : x2[i].at <= t /\ t <= x2[i].at + AwardWindow} = {}
      BY <1>3 DEF Award!PaidFor, Award!PaidTo
  <2>2. Award!Cardinality({}) <= MaxPhotosPerDevice /\ Award!Cardinality({}) <= CheckDailyCap
      BY <1>1, <1>4, LedgerCardinality
  <2> QED
      BY <1>3, <2>1, <2>2 DEF Award!AwardsWithinRules
<1> QED
    BY <1>2, <1>5, <1>6 DEF AwardsInv

\* One request moves on and the ledger stays.
LEMMA RequestMoves ==
    ASSUME AwardsInv, UNCHANGED <<x1, x2, x4>>,
           NEW q \in Actors, NEW made \in AwardRequest, x3' = [x3 EXCEPT ![q] = made],
           made.stage = "paying" =>
               /\ Award!Room(made.award)
               /\ \A r \in Actors : x3[r].stage = "paying"
                      => Award!LockKey(x3[r].award) # Award!LockKey(made.award)
    PROVE  AwardsInv'
<1>1. x3' \in [Actors -> AwardRequest] /\ x3'[q] = made /\ \A r \in Actors \ {q} : x3'[r] = x3[r]
    BY AwardsTyped
<1>4. \A r \in Actors : x3'[r].stage = "paying" => Award!Room(x3'[r].award)
    BY <1>1 DEF AwardsInv
<1>5. \A r, s \in Actors :
          /\ x3'[r].stage = "paying" /\ x3'[s].stage = "paying"
          /\ Award!LockKey(x3'[r].award) = Award!LockKey(x3'[s].award)
          => r = s
    BY <1>1 DEF AwardsInv
<1>6. Award!AwardsTypeOK' /\ Award!AwardsWithinRules'
  <2>1. \A r \in Actors : x3'[r] = Award!NoAward
            \/ (x3'[r].stage \in {"waiting", "paying"} /\ x3'[r].award \in Award!Award)
      BY <1>1 DEF AwardRequest
  <2>2. Award!AwardsTypeOK'
      BY <2>1 DEF AwardsInv, Award!AwardsTypeOK, Award!NoAward, Award!Award, Award!AwardKinds
  <2>3. Award!AwardsWithinRules'
      BY DEF AwardsInv, Award!AwardsWithinRules, Award!AwardsApart, Award!PaidFor, Award!PaidTo
  <2> QED
      BY <2>2, <2>3
<1>7. (\A r \in Actors : x3[r].stage = "paying" => Award!Room(x3[r].award))'
    BY <1>4 DEF Award!Room, Award!PaidFor, Award!PaidTo, Award!RecentAward
<1>8. (\A r, s \in Actors :
          /\ x3[r].stage = "paying" /\ x3[s].stage = "paying"
          /\ Award!LockKey(x3[r].award) = Award!LockKey(x3[s].award)
          => r = s)'
    BY <1>5 DEF Award!LockKey
<1> QED
    BY <1>1, <1>6, <1>7, <1>8 DEF AwardsInv, AwardRequest, Award!NoAward, Award!Award

LEMMA AwardAsked ==
    ASSUME AwardsInv, NEW q \in Actors, NEW p \in Payees, NEW v \in AwardScooters,
           Award!AskAward(q, p, v)
    PROVE  AwardsInv'
<1> DEFINE made == [stage |-> "waiting", award |-> [payee |-> p, scooter |-> v, at |-> x4]]
<1>1. x3' = [x3 EXCEPT ![q] = made] /\ UNCHANGED <<x1, x2, x4>>
    BY DEF Award!AskAward
<1>2. made \in AwardRequest /\ made.stage = "waiting"
    BY AwardsTyped DEF AwardRequest, Award!Award
<1> HIDE DEF made
<1> QED
    BY <1>1, <1>2, RequestMoves

LEMMA AwardCounted ==
    ASSUME AwardsInv, NEW q \in Actors, Award!CountAwards(q)
    PROVE  AwardsInv'
<1> DEFINE a    == x3[q].award
           made == IF Award!Room(a) THEN [stage |-> "paying", award |-> a] ELSE Award!NoAward
<1>1. /\ x3' = [x3 EXCEPT ![q] = made] /\ UNCHANGED <<x1, x2, x4>> /\ a \in Award!Award
    BY AwardsTyped DEF Award!CountAwards
<1>2. \A r \in Actors : x3[r].stage = "paying" => Award!LockKey(x3[r].award) # Award!LockKey(a)
    BY DEF Award!CountAwards, Award!Holding
<1>3. made \in AwardRequest /\ (made.stage = "paying" => Award!Room(a) /\ made.award = a)
    BY <1>1 DEF AwardRequest, Award!NoAward
<1> HIDE DEF made
<1> QED
    BY <1>1, <1>2, <1>3, RequestMoves

LEMMA AwardGivenUp ==
    ASSUME AwardsInv, NEW q \in Actors, Award!GiveUp(q)
    PROVE  AwardsInv'
<1>1. x3' = [x3 EXCEPT ![q] = Award!NoAward] /\ UNCHANGED <<x1, x2, x4>>
    BY DEF Award!GiveUp
<1>2. Award!NoAward \in AwardRequest /\ Award!NoAward.stage # "paying"
    BY DEF AwardRequest, Award!NoAward
<1> QED
    BY <1>1, <1>2, RequestMoves

\* The award that is paid.  What another request counted under another key is the same
\* after it, and the windows that the new row falls in lie within what its own request
\* counted.
LEMMA AwardPaid ==
    ASSUME AwardsInv, NEW q \in Actors, Award!Pay(q)
    PROVE  AwardsInv'
<1> DEFINE a == x3[q].award
           n == Len(x2) + 1
<1>1. /\ x2' = Append(x2, a) /\ x3' = [x3 EXCEPT ![q] = Award!NoAward] /\ x1' = x1 /\ x4' = x4
      /\ Len(x2) < MaxAwards /\ x3[q].stage = "paying"
    BY DEF Award!Pay
<1>t. /\ x1 \in Award!AwardKinds /\ x2 \in Seq(Award!Award) /\ Len(x2) \in Nat
      /\ AwardWindow \in Nat /\ MaxAwardClock \in Nat /\ MaxPhotosPerDevice \in Nat
      /\ CheckDailyCap \in Nat /\ MaxAwards \in Nat /\ a \in Award!Award
    BY <1>1, AwardsTyped, CapsAssumption
<1>2. /\ x2' \in Seq(Award!Award) /\ Len(x2') = n /\ n <= MaxAwards
      /\ DOMAIN x2' = 1 .. n /\ DOMAIN x2 = 1 .. Len(x2) /\ x2'[n] = a
      /\ \A i \in DOMAIN x2 : i \in DOMAIN x2' /\ x2'[i] = x2[i] /\ i # n /\ x2[i] \in Award!Award
      /\ \A i \in DOMAIN x2' : i = n \/ i \in DOMAIN x2
    BY <1>1, <1>t
<1>3. Award!Room(a)
    BY <1>1 DEF AwardsInv
<1>4. /\ x3' \in [Actors -> AwardRequest] /\ x3'[q] = Award!NoAward
      /\ \A r \in Actors \ {q} : x3'[r] = x3[r]
      /\ x3'[q].stage = "idle"
  <2>1. x3 \in [Actors -> AwardRequest] /\ Award!NoAward \in AwardRequest
      BY AwardsTyped DEF AwardRequest
  <2> QED
      BY <1>1, <2>1 DEF Award!NoAward
<1>5. /\ \A v : Award!PaidFor(v)' = IF v = a.scooter THEN Award!PaidFor(v) \cup {n} ELSE Award!PaidFor(v)
      /\ \A p : Award!PaidTo(p)' = IF p = a.payee THEN Award!PaidTo(p) \cup {n} ELSE Award!PaidTo(p)
    BY <1>2 DEF Award!PaidFor, Award!PaidTo
<1>6. /\ \A v : IsFiniteSet(Award!PaidFor(v)) /\ Award!PaidFor(v) \subseteq DOMAIN x2
      /\ \A p : IsFiniteSet(Award!PaidTo(p)) /\ Award!PaidTo(p) \subseteq DOMAIN x2
  <2>1. IsFiniteSet(DOMAIN x2)
    <3> DEFINE m == Len(x2)
    <3>1. m \in Int /\ 1 \in Int /\ DOMAIN x2 = 1 .. m
        BY <1>t, <1>2
    <3> HIDE DEF m
    <3>2. IsFiniteSet(1 .. m)
        BY <3>1, FS_Interval
    <3> QED
        BY <3>1, <3>2
  <2>2. \A v : Award!PaidFor(v) \subseteq DOMAIN x2 /\ Award!PaidTo(v) \subseteq DOMAIN x2
      BY DEF Award!PaidFor, Award!PaidTo
  <2> QED
      BY <2>1, <2>2, FS_Subset
<1>r. ASSUME NEW old, NEW new, NEW cap \in Nat, IsFiniteSet(old), Cardinality(old) < cap,
             new \subseteq old \cup {n}
      PROVE  Award!Cardinality(new) <= cap
  <2>1. /\ IsFiniteSet(old \cup {n})
        /\ Cardinality(old \cup {n}) = Cardinality(old) \/ Cardinality(old \cup {n}) = Cardinality(old) + 1
      BY <1>r, FS_AddElement
  <2>2. Cardinality(new) <= Cardinality(old \cup {n}) /\ IsFiniteSet(new)
      BY <1>r, <2>1, FS_Subset
  <2>3. Cardinality(old) \in Nat /\ Cardinality(new) \in Nat /\ Cardinality(old \cup {n}) \in Nat
      BY <1>r, <2>1, <2>2, FS_CardinalityType
  <2>4. Cardinality(new) <= cap
    <3> DEFINE co == Cardinality(old)
               cn == Cardinality(new)
               cu == Cardinality(old \cup {n})
    <3>1. co \in Nat /\ cn \in Nat /\ cu \in Nat /\ cn <= cu /\ co < cap /\ (cu = co \/ cu = co + 1)
        BY <1>r, <2>1, <2>2, <2>3
    <3> HIDE DEF co, cn, cu
    <3>2. cn <= cap
        BY <3>1
    <3> QED
        BY <3>2 DEF cn
  <2> QED
      BY <2>4, LedgerCardinality
<1>7. Award!AwardsTypeOK'
  <2>1. \A r \in Actors : x3'[r] = Award!NoAward
            \/ (x3'[r].stage \in {"waiting", "paying"} /\ x3'[r].award \in Award!Award)
      BY <1>4 DEF AwardRequest
  <2> QED
      BY <1>1, <1>2, <2>1 DEF AwardsInv, Award!AwardsTypeOK, Award!NoAward, Award!Award, Award!AwardKinds
<1>8. ASSUME NEW r \in Actors, x3'[r].stage = "paying"
      PROVE  /\ r # q /\ x3'[r] = x3[r] /\ x3[r].stage = "paying" /\ Award!Room(x3[r].award)
             /\ Award!LockKey(x3[r].award) # Award!LockKey(a)
  <2>1. r # q /\ x3'[r] = x3[r]
      BY <1>4, <1>8
  <2> QED
      BY <1>1, <1>8, <2>1 DEF AwardsInv
<1>9. ASSUME NEW b \in Award!Award, Award!Room(b), Award!LockKey(b) # Award!LockKey(a)
      PROVE  Award!Room(b)'
  <2>1. Award!Room(b) /\ Award!LockKey(b) # Award!LockKey(a)
      BY <1>9
  <2>2. b.payee # a.payee => Award!PaidTo(b.payee)' = Award!PaidTo(b.payee)
      BY <1>5
  <2>3. b.scooter # a.scooter => Award!PaidFor(b.scooter)' = Award!PaidFor(b.scooter)
      BY <1>5
  <2>4. ~Award!SameTarget(a, b) =>
            ((\E i \in DOMAIN x2' : Award!SameTarget(x2'[i], b) /\ Award!RecentAward(x2'[i], b))
             <=> \E i \in DOMAIN x2 : Award!SameTarget(x2[i], b) /\ Award!RecentAward(x2[i], b))
      BY <1>2
  <2>5. \A i \in Award!PaidTo(b.payee) : x2'[i] = x2[i]
      BY <1>2, <1>6
  <2> QED
    <3>1. CASE x1 = "features"
      <4>1. ~Award!SameTarget(a, b)
          BY <2>1, <3>1 DEF Award!SameTarget, Award!LockKey
      <4> QED
          BY <1>1, <2>1, <2>4, <3>1, <4>1
             DEF Award!Room, Award!SameTarget, Award!RecentAward, Award!WindowStart
    <3>2. CASE x1 = "photo"
      <4>1. b.scooter # a.scooter
          BY <2>1, <3>2 DEF Award!LockKey
      <4> QED
          BY <1>1, <2>1, <2>3, <3>2, <4>1 DEF Award!Room
    <3>3. CASE x1 = "check"
      <4>1. b.payee # a.payee
          BY <2>1, <3>3 DEF Award!LockKey
      <4>2. ~Award!SameTarget(a, b)
          BY <4>1 DEF Award!SameTarget
      <4>3. ~\E i \in DOMAIN x2' : Award!SameTarget(x2'[i], b) /\ Award!RecentAward(x2'[i], b)
          BY <2>1, <2>4, <3>3, <4>2 DEF Award!Room
      <4>4. {i \in Award!PaidTo(b.payee) : Award!RecentAward(x2'[i], b)}
                = {i \in Award!PaidTo(b.payee) : Award!RecentAward(x2[i], b)}
          BY <2>5
      <4>5. Award!Cardinality({i \in Award!PaidTo(b.payee) : Award!RecentAward(x2[i], b)}) < CheckDailyCap
          BY <2>1, <3>3 DEF Award!Room
      <4> QED
          BY <1>1, <2>2, <3>3, <4>1, <4>3, <4>4, <4>5
             DEF Award!Room, Award!SameTarget, Award!RecentAward, Award!WindowStart
    <3>4. CASE x1 = "profile"
      <4>1. b.payee # a.payee
          BY <2>1, <3>4 DEF Award!LockKey
      <4> QED
          BY <1>1, <2>1, <2>2, <3>4, <4>1 DEF Award!Room
    <3> QED
        BY <1>t, <3>1, <3>2, <3>3, <3>4 DEF Award!AwardKinds
<1>10. (\A r, s \in Actors :
           /\ x3[r].stage = "paying" /\ x3[s].stage = "paying"
           /\ Award!LockKey(x3[r].award) = Award!LockKey(x3[s].award)
           => r = s)'
  <2> SUFFICES ASSUME NEW r \in Actors, NEW s \in Actors, x3'[r].stage = "paying", x3'[s].stage = "paying",
                      (Award!LockKey(x3[r].award) = Award!LockKey(x3[s].award))'
               PROVE  r = s
      OBVIOUS
  <2>1. x3'[r] = x3[r] /\ x3'[s] = x3[s]
      BY <1>8
  <2>2. Award!LockKey(x3[r].award) = Award!LockKey(x3[s].award)
      BY <1>1, <2>1 DEF Award!LockKey
  <2> QED
      BY <2>1, <2>2 DEF AwardsInv
<1>11. Award!AwardsWithinRules'
  <2>1. ASSUME x1 \in {"features", "check"}, NEW i \in DOMAIN x2', NEW j \in DOMAIN x2', i # j,
               Award!SameTarget(x2'[i], x2'[j])
        PROVE  x2'[i].at > x2'[j].at + AwardWindow \/ x2'[j].at > x2'[i].at + AwardWindow
    <3>1. \A k \in DOMAIN x2 : Award!SameTarget(x2[k], a) => a.at > x2[k].at + AwardWindow
      <4> SUFFICES ASSUME NEW k \in DOMAIN x2, Award!SameTarget(x2[k], a)
                   PROVE  a.at > x2[k].at + AwardWindow
          OBVIOUS
      <4>1. ~Award!RecentAward(x2[k], a)
          BY <1>3, <2>1 DEF Award!Room
      <4>2. x2[k].at \in Nat /\ a.at \in Nat
          BY <1>t, <1>2 DEF Award!Award
      <4> QED
          BY <1>t, <4>1, <4>2 DEF Award!RecentAward, Award!WindowStart
    <3>2. CASE i = n
      <4>1. j \in DOMAIN x2 /\ x2'[j] = x2[j] /\ x2'[i] = a
          BY <1>2, <2>1, <3>2
      <4>2. Award!SameTarget(x2[j], a)
          BY <2>1, <4>1 DEF Award!SameTarget
      <4> QED
          BY <3>1, <4>1, <4>2
    <3>3. CASE j = n
      <4>1. i \in DOMAIN x2 /\ x2'[i] = x2[i] /\ x2'[j] = a
          BY <1>2, <2>1, <3>3
      <4> QED
          BY <2>1, <3>1, <4>1
    <3>4. CASE i # n /\ j # n
      <4>1. i \in DOMAIN x2 /\ x2'[i] = x2[i] /\ j \in DOMAIN x2 /\ x2'[j] = x2[j]
          BY <1>2, <3>4
      <4>2. Award!AwardsApart(i, j)
          BY <2>1, <4>1 DEF AwardsInv, Award!AwardsWithinRules
      <4> QED
          BY <4>1, <4>2 DEF Award!AwardsApart
    <3> QED
        BY <3>2, <3>3, <3>4
  <2>2. ASSUME x1 = "photo", NEW v \in AwardScooters
        PROVE  Award!Cardinality(Award!PaidFor(v)') <= MaxPhotosPerDevice
    <3>1. CASE v = a.scooter
      <4>1. Cardinality(Award!PaidFor(v)) < MaxPhotosPerDevice
          BY <1>3, <2>2, <3>1, LedgerCardinality DEF Award!Room
      <4>2. Award!PaidFor(v)' = Award!PaidFor(v) \cup {n}
          BY <1>5, <3>1
      <4> DEFINE old == Award!PaidFor(v)
      <4>3. IsFiniteSet(old) /\ Cardinality(old) < MaxPhotosPerDevice /\ Award!PaidFor(v)' = old \cup {n}
          BY <1>6, <4>1, <4>2
      <4> HIDE DEF old
      <4>4. Award!Cardinality(old \cup {n}) <= MaxPhotosPerDevice
          BY <1>r, <1>t, <4>3
      <4> QED
          BY <4>3, <4>4
    <3>2. CASE v # a.scooter
      <4>1. Award!PaidFor(v)' = Award!PaidFor(v)
          BY <1>5, <3>2
      <4>2. Award!Cardinality(Award!PaidFor(v)) <= MaxPhotosPerDevice
          BY <2>2 DEF AwardsInv, Award!AwardsWithinRules
      <4> QED
          BY <4>1, <4>2
    <3> QED
        BY <3>1, <3>2
  <2>3. ASSUME x1 = "check", NEW p \in Payees, NEW t \in 0 .. MaxAwardClock
        PROVE  Award!Cardinality({i \in Award!PaidTo(p)' : x2'[i].at <= t /\ t <= x2'[i].at + AwardWindow})
                   <= CheckDailyCap
    <3> DEFINE now == {i \in Award!PaidTo(p)' : x2'[i].at <= t /\ t <= x2'[i].at + AwardWindow}
               old == {i \in Award!PaidTo(p) : x2[i].at <= t /\ t <= x2[i].at + AwardWindow}
               recent == {i \in Award!PaidTo(p) : Award!RecentAward(x2[i], a)}
    <3>0. \A i \in Award!PaidTo(p) : i # n /\ x2'[i] = x2[i] /\ x2[i].at \in Nat
        BY <1>2, <1>6, <1>t DEF Award!Award
    <3>1. CASE p = a.payee /\ a.at <= t /\ t <= a.at + AwardWindow
      <4>1. Cardinality(recent) < CheckDailyCap
          BY <1>3, <2>3, <3>1, LedgerCardinality DEF Award!Room
      <4>2. IsFiniteSet(recent)
        <5>1. recent \subseteq Award!PaidTo(p) /\ IsFiniteSet(Award!PaidTo(p))
            BY <1>6
        <5> QED
            BY <5>1, FS_Subset
      <4>3. now \subseteq recent \cup {n}
        <5> SUFFICES ASSUME NEW i \in Award!PaidTo(p)', t <= x2'[i].at + AwardWindow, i # n
                     PROVE  i \in recent
            OBVIOUS
        <5>1. i \in Award!PaidTo(p) /\ x2'[i] = x2[i] /\ x2[i].at \in Nat
            BY <1>5, <3>0
        <5>2. a.at \in Nat /\ t \in Nat
            BY <1>t DEF Award!Award
        <5>3. Award!RecentAward(x2[i], a)
            BY SMTT(30), <1>t, <3>1, <5>1, <5>2 DEF Award!RecentAward, Award!WindowStart
        <5> QED
            BY <5>1, <5>3
      <4> HIDE DEF now, recent
      <4>4. Award!Cardinality(now) <= CheckDailyCap
          BY <1>r, <1>t, <4>1, <4>2, <4>3
      <4> QED
          BY <4>4 DEF now
    <3>2. CASE ~(p = a.payee /\ a.at <= t /\ t <= a.at + AwardWindow)
      <4>1. now = old
        <5>1. Award!PaidTo(p)' = IF p = a.payee THEN Award!PaidTo(p) \cup {n} ELSE Award!PaidTo(p)
            BY <1>5
        <5>2. x2'[n] = a
            BY <1>2
        <5>3. \A i : i \in now <=> i \in old
            BY <3>0, <3>2, <5>1, <5>2
        <5> HIDE DEF now, old
        <5> QED
            BY <5>3
      <4>2. Award!Cardinality(old) <= CheckDailyCap
          BY <2>3 DEF AwardsInv, Award!AwardsWithinRules
      <4> HIDE DEF now, old
      <4>3. Award!Cardinality(now) <= CheckDailyCap
          BY <4>1, <4>2
      <4> QED
          BY <4>3 DEF now
    <3> QED
        BY <3>1, <3>2
  <2>4. ASSUME x1 = "profile", NEW i \in DOMAIN x2', NEW j \in DOMAIN x2', x2'[i].payee = x2'[j].payee
        PROVE  i = j
    <3>1. \A k \in DOMAIN x2 : x2[k].payee # a.payee
        BY <1>3, <2>4 DEF Award!Room, Award!PaidTo
    <3>2. CASE i \in DOMAIN x2 /\ j \in DOMAIN x2
        BY <1>2, <2>4, <3>2 DEF AwardsInv, Award!AwardsWithinRules
    <3>3. CASE ~(i \in DOMAIN x2 /\ j \in DOMAIN x2)
        BY <1>2, <2>4, <3>1, <3>3
    <3> QED
        BY <3>2, <3>3
  <2> QED
      BY <1>1, <2>1, <2>2, <2>3, <2>4 DEF Award!AwardsWithinRules, Award!AwardsApart, Award!SameTarget
<1>12. (\A r \in Actors : x3[r].stage = "paying" => Award!Room(x3[r].award))'
  <2> SUFFICES ASSUME NEW r \in Actors, x3'[r].stage = "paying"
               PROVE  (Award!Room(x3[r].award))'
      OBVIOUS
  <2>1. /\ x3'[r] = x3[r] /\ x3[r].award \in Award!Award
        /\ Award!Room(x3[r].award) /\ Award!LockKey(x3[r].award) # Award!LockKey(a)
      BY <1>8, AwardsTyped
  <2>2. PICK c : c = x3[r].award
      OBVIOUS
  <2>3. Award!Room(c)'
      BY <1>9, <2>1, <2>2
  <2> QED
      BY <2>1, <2>2, <2>3 DEF Award!Room, Award!SameTarget, Award!RecentAward, Award!WindowStart
<1> QED
    BY <1>4, <1>7, <1>10, <1>11, <1>12 DEF AwardsInv, AwardRequest, Award!NoAward, Award!Award

LEMMA AwardsStep ==
    ASSUME AwardsInv, Award!AwardsNext
    PROVE  AwardsInv'
<1>1. CASE Award!AwardTick
  <2>1. UNCHANGED <<x1, x2, x3>> /\ x4' \in 0 .. MaxAwardClock
      BY <1>1, AwardsTyped DEF Award!AwardTick
  <2>2. Award!AwardsTypeOK'
      BY <2>1 DEF AwardsInv, Award!AwardsTypeOK, Award!NoAward, Award!Award, Award!AwardKinds
  <2>3. Award!AwardsWithinRules'
      BY <2>1 DEF AwardsInv, Award!AwardsWithinRules, Award!AwardsApart, Award!PaidFor, Award!PaidTo
  <2>4. (\A r \in Actors : x3[r].stage = "paying" => Award!Room(x3[r].award))'
      BY <2>1 DEF AwardsInv, Award!Room, Award!PaidFor, Award!PaidTo, Award!RecentAward
  <2>5. (\A r, s \in Actors :
            /\ x3[r].stage = "paying" /\ x3[s].stage = "paying"
            /\ Award!LockKey(x3[r].award) = Award!LockKey(x3[s].award)
            => r = s)'
      BY <2>1 DEF AwardsInv, Award!LockKey
  <2> QED
      BY <2>1, <2>2, <2>3, <2>4, <2>5, AwardsTyped DEF AwardsInv, AwardRequest, Award!NoAward, Award!Award
<1>2. CASE \E q \in Actors, p \in Payees, v \in AwardScooters : Award!AskAward(q, p, v)
    BY <1>2, AwardAsked
<1>3. CASE \E q \in Actors : Award!CountAwards(q) \/ Award!Pay(q) \/ Award!GiveUp(q)
    BY <1>3, AwardCounted, AwardPaid, AwardGivenUp
<1> QED
    BY <1>1, <1>2, <1>3 DEF Award!AwardsNext


-----------------------------------------------------------------------------
(* Saved places.  x1 is row, x2 keys, x3 reading, x4 wanted, x5 excused, x6 puts and x7  *)
(* restarts.                                                                *)

PlacesRow == [sealed : [key : 0 .. MaxKey, places : Place!PlaceLists],
              favorites : Place!PlaceLists, pair : [Slots -> Coords \cup {Place!None}]]

PlacesRead == {Place!NotReading} \cup [stage : {"folded"}, row : PlacesRow, merged : Place!PlaceLists]

\* What the app put is what the sealed list says.
Stands(r, w) ==
    \A i \in PlaceIds :
        /\ w[i] \in Coords => r.sealed.places[i] = w[i]
        /\ i \in Slots /\ w[i] = Place!None /\ r.favorites[i] = Place!None
               => r.sealed.places[i] = Place!None

\* A slot that the app deleted has no plaintext pair that a fold could bring back.
PairsGone(r, w) == \A i \in Slots : w[i] = Place!None => r.pair[i] = Place!None

\* A read that has folded did so from the row it read, under the keys of now: a restart
\* with other keys loses it.
PlacesInv ==
    /\ x1 \in PlacesRow
    /\ x2 \in [primary : 0 .. MaxKey, old : 0 .. MaxKey]
    /\ x3 \in [Readers -> PlacesRead]
    /\ \A r \in Readers :
           x3[r].stage = "folded" => x3[r].merged = Place!Merged(x3[r].row) /\ x2.primary # 0
    /\ x4 \in [PlaceIds -> Coords \cup {Place!None, Place!Free}]
    /\ x5 \in BOOLEAN
    /\ PairsGone(x1, x4)
    /\ x5 \/ Stands(x1, x4)

LEMMA SpotsDiffer ==
    /\ Place!None \notin Coords /\ Place!Free \notin Coords /\ Place!None # Place!Free
    /\ Slots \subseteq PlaceIds /\ MaxKey \in Nat
    /\ Lists \subseteq Place!PlaceLists
BY DataAssumption, CapsAssumption DEF Place!None, Place!Free, Place!PlaceLists

LEMMA NothingPut == Place!NoPlaces \in Place!PlaceLists /\ Place!NotReading \in PlacesRead
BY DEF Place!NoPlaces, Place!PlaceLists, PlacesRead

LEMMA PlacesKept == PlacesInv => Place!PlacesTypeOK /\ Place!EditsStandUnlessOvertaken
<1> SUFFICES ASSUME PlacesInv PROVE Place!PlacesTypeOK /\ Place!EditsStandUnlessOvertaken
    OBVIOUS
<1>1. \A r \in Readers : x3[r].merged \in Place!PlaceLists
    BY NothingPut DEF PlacesInv, PlacesRead, Place!NotReading
<1>2. Place!PlacesTypeOK
    BY <1>1 DEF PlacesInv, PlacesRow, Place!PlacesTypeOK, Place!PlaceLists
<1>3. Stands(x1, x4) => Place!Undone = {}
    BY DEF Stands, Place!Undone
<1>4. x5 = FALSE => Stands(x1, x4)
    BY DEF PlacesInv
<1> QED
    BY <1>2, <1>3, <1>4 DEF PlacesInv, Place!EditsStandUnlessOvertaken

LEMMA InitPlacesInv == Place!PlacesInit => PlacesInv
<1> SUFFICES ASSUME Place!PlacesInit PROVE PlacesInv
    OBVIOUS
<1>1. PICK old \in LegacyRows :
          x1 = [sealed |-> Place!NoBlob, favorites |-> old.favorites, pair |-> old.pair]
    BY DEF Place!PlacesInit
<1>2. /\ x2 = [primary |-> 1, old |-> 0] /\ x3 = [r \in Readers |-> Place!NotReading]
      /\ x4 = [i \in PlaceIds |-> Place!Free] /\ x5 = FALSE
    BY DEF Place!PlacesInit
<1>3. old \in [favorites : Place!PlaceLists, pair : [Slots -> Coords \cup {Place!None}]]
    BY DataAssumption DEF Place!PlaceLists, Place!None
<1>4. 0 \in 0 .. MaxKey /\ 1 \in 0 .. MaxKey
    BY CapsAssumption
<1>5. x1 \in PlacesRow
    BY <1>1, <1>3, <1>4, NothingPut DEF PlacesRow, Place!NoBlob
<1>6. x3 \in [Readers -> PlacesRead] /\ \A r \in Readers : x3[r].stage = "idle"
    BY <1>2, NothingPut DEF Place!NotReading
<1>7. PairsGone(x1, x4) /\ Stands(x1, x4)
    BY <1>2, SpotsDiffer DEF PairsGone, Stands
<1> QED
    BY <1>2, <1>4, <1>5, <1>6, <1>7 DEF PlacesInv

LEMMA MergedIsList ==
    ASSUME NEW r \in PlacesRow
    PROVE  Place!Merged(r) \in Place!PlaceLists
<1>1. Place!Current(r) \in Place!PlaceLists
    BY NothingPut DEF Place!Current, PlacesRow
<1> QED
    BY <1>1 DEF Place!Merged, PlacesRow, Place!PlaceLists

\* Folding into a list that the keys open brings nothing back that the app has moved or
\* deleted: what the list has wins, and a deleted slot has neither favourite nor pair.
LEMMA FoldStands ==
    ASSUME NEW r \in PlacesRow, NEW w, Stands(r, w), PairsGone(r, w), ~Place!Stranded(r),
           NEW sealed, sealed.places = Place!Merged(r), NEW s \in PlacesRow,
           s.sealed = sealed, s.favorites = r.favorites
    PROVE  Stands(s, w)
<1>1. Place!Current(r) = r.sealed.places
    BY DEF Place!Stranded, Place!Current, Place!NoBlob
<1>2. \A i \in PlaceIds :
          s.sealed.places[i] = IF r.sealed.places[i] # Place!None THEN r.sealed.places[i]
                               ELSE IF r.favorites[i] # Place!None THEN r.favorites[i]
                               ELSE IF i \in Slots THEN r.pair[i] ELSE Place!None
    BY <1>1 DEF Place!Merged
<1> QED
    BY <1>2, SpotsDiffer DEF Stands, PairsGone

LEMMA Sealed ==
    ASSUME PlacesInv, NEW list \in Place!PlaceLists
    PROVE  /\ Place!Seal(list) \in [key : 0 .. MaxKey, places : Place!PlaceLists]
           /\ Place!Seal(list).places = list
BY DEF PlacesInv, Place!Seal

\* The row that an update leaves, from the row as the update changed it.
LEMMA ProfileUpdated ==
    ASSUME PlacesInv, NEW changed \in PlacesRow, Place!UpdateProfile(changed),
           x4' \in [PlaceIds -> Coords \cup {Place!None, Place!Free}],
           PairsGone(changed, x4'), x5 \/ Stands(changed, x4')
    PROVE  PlacesInv'
<1> DEFINE made == [changed EXCEPT !.sealed = Place!Seal(Place!Merged(changed))]
<1>1. /\ x1' = IF Place!WorthWriting(changed) THEN made ELSE changed
      /\ x2' = x2 /\ x3' = x3
    BY DEF Place!UpdateProfile, Place!Migrated
<1>2. x5' = (x5 \/ (Place!WorthWriting(changed) /\ Place!Stranded(changed)))
    BY DEF Place!UpdateProfile
<1>3. /\ Place!Seal(Place!Merged(changed)) \in [key : 0 .. MaxKey, places : Place!PlaceLists]
      /\ Place!Seal(Place!Merged(changed)).places = Place!Merged(changed)
    BY MergedIsList, Sealed
<1>4. /\ made \in PlacesRow /\ made.favorites = changed.favorites /\ made.pair = changed.pair
      /\ made.sealed = Place!Seal(Place!Merged(changed))
    BY <1>3 DEF PlacesRow
<1>5. x1' \in PlacesRow /\ x1'.pair = changed.pair
    BY <1>1, <1>4
<1>6. x5' \in BOOLEAN
    BY <1>2 DEF PlacesInv
<1>7. x5' \/ Stands(x1', x4')
  <2>1. CASE x5
      BY <1>2, <2>1
  <2>2. CASE ~Place!WorthWriting(changed)
      BY <1>1, <1>2, <2>2
  <2>3. CASE Place!WorthWriting(changed) /\ Place!Stranded(changed)
      BY <1>2, <2>3
  <2>4. CASE ~x5 /\ Place!WorthWriting(changed) /\ ~Place!Stranded(changed)
    <3>1. Stands(changed, x4')
        BY <2>4
    <3>2. Stands(made, x4')
      <4> HIDE DEF made
      <4> QED
          BY <1>3, <1>4, <2>4, <3>1, FoldStands
    <3> QED
        BY <1>1, <2>4, <3>2
  <2> QED
      BY <2>1, <2>2, <2>3, <2>4
<1>8. PairsGone(x1', x4')
    BY <1>5 DEF PairsGone
<1>9. (\A r \in Readers :
           x3[r].stage = "folded" => x3[r].merged = Place!Merged(x3[r].row) /\ x2.primary # 0)'
    BY <1>1 DEF PlacesInv, Place!Merged, Place!Current, Place!Readable
<1> HIDE DEF made
<1> QED
    BY <1>1, <1>5, <1>6, <1>7, <1>8, <1>9
       DEF PlacesInv, PlacesRow, PlacesRead, Stands, PairsGone, Place!None, Place!Free, Place!PlaceLists,
           Place!NotReading

LEMMA ListPut ==
    ASSUME PlacesInv, NEW list \in Lists, Place!PutPlaces(list)
    PROVE  PlacesInv'
<1> DEFINE pair    == [i \in Slots |-> IF list[i] = Place!None THEN Place!None ELSE x1.pair[i]]
           changed == [[x1 EXCEPT !.sealed = Place!Seal(list)] EXCEPT !.pair = pair]
<1>1. list \in Place!PlaceLists /\ x1 \in PlacesRow
    BY SpotsDiffer DEF PlacesInv
<1>2. /\ Place!Seal(list) \in [key : 0 .. MaxKey, places : Place!PlaceLists]
      /\ Place!Seal(list).places = list
    BY <1>1, Sealed
<1>3. pair \in [Slots -> Coords \cup {Place!None}]
    BY <1>1 DEF PlacesRow
<1>4. /\ changed \in PlacesRow /\ changed.sealed = Place!Seal(list) /\ changed.pair = pair
      /\ changed.favorites = x1.favorites
  <2> HIDE DEF pair
  <2> QED
      BY <1>1, <1>2, <1>3 DEF PlacesRow
<1>5. Place!UpdateProfile(changed) /\ x4' = list
    BY DEF Place!PutPlaces
<1>6. x4' \in [PlaceIds -> Coords \cup {Place!None, Place!Free}]
    BY <1>1, <1>5 DEF Place!PlaceLists
<1>7. PairsGone(changed, x4') /\ Stands(changed, x4')
  <2>1. \A i \in Slots : list[i] = Place!None => changed.pair[i] = Place!None
      BY <1>4
  <2>2. changed.sealed.places = list
      BY <1>2, <1>4
  <2> HIDE DEF changed
  <2> QED
      BY <1>5, <2>1, <2>2 DEF PairsGone, Stands
<1> HIDE DEF changed
<1> QED
    BY <1>4, <1>5, <1>6, <1>7, ProfileUpdated

LEMMA FavoritesPut ==
    ASSUME PlacesInv, NEW list \in Lists, Place!PutFavorites(list)
    PROVE  PlacesInv'
<1> DEFINE changed == [x1 EXCEPT !.favorites = list]
<1>1. list \in Place!PlaceLists /\ x1 \in PlacesRow
    BY SpotsDiffer DEF PlacesInv
<1>2. changed \in PlacesRow /\ changed.sealed = x1.sealed /\ changed.pair = x1.pair
    BY <1>1 DEF PlacesRow
<1>3. /\ Place!UpdateProfile(changed)
      /\ x4' = [i \in PlaceIds |-> IF x4[i] = Place!None THEN Place!Free ELSE x4[i]]
    BY DEF Place!PutFavorites
<1>4. x4' \in [PlaceIds -> Coords \cup {Place!None, Place!Free}]
    BY <1>3 DEF PlacesInv
<1>5. \A i \in PlaceIds : x4'[i] # Place!None /\ (x4'[i] \in Coords => x4[i] = x4'[i])
    BY <1>3, SpotsDiffer
<1>6. PairsGone(changed, x4') /\ (x5 \/ Stands(changed, x4'))
  <2> HIDE DEF changed
  <2> QED
      BY <1>2, <1>5, SpotsDiffer DEF PlacesInv, PairsGone, Stands
<1> HIDE DEF changed
<1> QED
    BY <1>2, <1>3, <1>4, <1>6, ProfileUpdated

LEMMA PairPut ==
    ASSUME PlacesInv, NEW i \in Slots, NEW spot \in Coords \cup {Place!None}, Place!PutPair(i, spot)
    PROVE  PlacesInv'
<1> DEFINE pair    == [x1.pair EXCEPT ![i] = spot]
           changed == [x1 EXCEPT !.pair = pair]
<1>1. x1 \in PlacesRow /\ x4 \in [PlaceIds -> Coords \cup {Place!None, Place!Free}] /\ i \in PlaceIds
    BY SpotsDiffer DEF PlacesInv
<1>2. pair \in [Slots -> Coords \cup {Place!None}] /\ \A j \in Slots \ {i} : pair[j] = x1.pair[j]
    BY <1>1 DEF PlacesRow
<1>3. /\ changed \in PlacesRow /\ changed.sealed = x1.sealed /\ changed.favorites = x1.favorites
      /\ changed.pair = pair
  <2> HIDE DEF pair
  <2> QED
      BY <1>1, <1>2 DEF PlacesRow
<1>4. /\ Place!UpdateProfile(changed)
      /\ x4' = [x4 EXCEPT ![i] = IF x4[i] = Place!None THEN Place!Free ELSE x4[i]]
    BY DEF Place!PutPair
<1>5. /\ x4' \in [PlaceIds -> Coords \cup {Place!None, Place!Free}] /\ x4'[i] # Place!None
      /\ x4'[i] \in Coords => x4[i] = x4'[i]
      /\ \A j \in PlaceIds \ {i} : x4'[j] = x4[j]
    BY <1>1, <1>4, SpotsDiffer
<1>6. PairsGone(changed, x4')
  <2> SUFFICES ASSUME NEW j \in Slots, x4'[j] = Place!None PROVE changed.pair[j] = Place!None
      BY DEF PairsGone
  <2>1. j # i /\ x4[j] = Place!None
      BY <1>5, SpotsDiffer
  <2>2. x1.pair[j] = Place!None
      BY <2>1 DEF PlacesInv, PairsGone
  <2> QED
      BY <1>2, <1>3, <2>1, <2>2
<1>7. x5 \/ Stands(changed, x4')
  <2> SUFFICES ASSUME x5 = FALSE PROVE Stands(changed, x4')
      BY DEF PlacesInv
  <2>1. Stands(x1, x4)
      BY DEF PlacesInv
  <2> HIDE DEF changed
  <2> QED
      BY <1>3, <1>5, <2>1 DEF Stands
<1> HIDE DEF changed
<1> QED
    BY <1>3, <1>4, <1>5, <1>6, <1>7, ProfileUpdated

LEMMA PlacesAreRead ==
    ASSUME PlacesInv, NEW r \in Readers, Place!GetRead(r) \/ Place!GetFails(r)
    PROVE  PlacesInv'
<1>1. UNCHANGED <<x1, x2, x4, x5>>
    BY DEF Place!GetRead, Place!GetFails
<1>2. /\ x3' \in [Readers -> PlacesRead]
      /\ \A g \in Readers :
             x3'[g].stage = "folded" => x3'[g].merged = Place!Merged(x3'[g].row) /\ x2.primary # 0
  <2>0. x3 \in [Readers -> PlacesRead] /\ x1 \in PlacesRow
      BY DEF PlacesInv
  <2>1. CASE Place!GetRead(r)
    <3> DEFINE made == [stage |-> "folded", row |-> x1, merged |-> Place!Merged(x1)]
    <3>1. x3' = [x3 EXCEPT ![r] = made] /\ x2.primary # 0
        BY <2>1 DEF Place!GetRead, Place!WorthWriting
    <3>2. made \in PlacesRead /\ made.row = x1 /\ made.merged = Place!Merged(x1)
        BY <2>0, MergedIsList DEF PlacesRead
    <3> HIDE DEF made
    <3> QED
        BY <2>0, <3>1, <3>2 DEF PlacesInv
  <2>2. CASE Place!GetFails(r)
    <3>1. x3' = [x3 EXCEPT ![r] = Place!NotReading] /\ Place!NotReading.stage = "idle"
        BY <2>2 DEF Place!GetFails, Place!NotReading
    <3> QED
        BY <2>0, <3>1, NothingPut DEF PlacesInv
  <2> QED
      BY <2>1, <2>2
<1>3. (\A g \in Readers :
           x3[g].stage = "folded" => x3[g].merged = Place!Merged(x3[g].row) /\ x2.primary # 0)'
    BY <1>1, <1>2 DEF Place!Merged, Place!Current, Place!Readable
<1> QED
    BY <1>1, <1>2, <1>3
       DEF PlacesInv, PlacesRow, PlacesRead, Stands, PairsGone, Place!None, Place!Free, Place!PlaceLists,
           Place!NotReading

LEMMA PlacesWritten ==
    ASSUME PlacesInv, NEW r \in Readers, Place!GetWrite(r)
    PROVE  PlacesInv'
<1> DEFINE made == [x1 EXCEPT !.sealed = Place!Seal(x3[r].merged)]
<1>0. x3 \in [Readers -> PlacesRead] /\ x1 \in PlacesRow
    BY DEF PlacesInv
<1>1. /\ x3[r].stage = "folded" /\ x1' = made /\ x3' = [x3 EXCEPT ![r] = Place!NotReading]
      /\ UNCHANGED <<x2, x4>>
    BY DEF Place!GetWrite
<1>2. x5' = (x5 \/ x3[r].row # x1 \/ Place!Stranded(x1))
    BY DEF Place!GetWrite
<1>3. x3[r].merged \in Place!PlaceLists /\ x3[r].merged = Place!Merged(x3[r].row)
    BY <1>0, <1>1, NothingPut DEF PlacesInv, PlacesRead, Place!NotReading
<1>4. /\ Place!Seal(x3[r].merged) \in [key : 0 .. MaxKey, places : Place!PlaceLists]
      /\ Place!Seal(x3[r].merged).places = x3[r].merged
    BY <1>3, Sealed
<1>5. /\ made \in PlacesRow /\ made.favorites = x1.favorites /\ made.pair = x1.pair
      /\ made.sealed = Place!Seal(x3[r].merged)
    BY <1>0, <1>4 DEF PlacesRow
<1>6. /\ x3' \in [Readers -> PlacesRead] /\ x3'[r].stage = "idle"
      /\ \A g \in Readers \ {r} : x3'[g] = x3[g]
    BY <1>0, <1>1, NothingPut DEF Place!NotReading
<1>7. x5' \in BOOLEAN
    BY <1>2 DEF PlacesInv
<1>8. x5' \/ Stands(made, x4)
  <2>1. CASE x5 \/ x3[r].row # x1 \/ Place!Stranded(x1)
      BY <1>2, <2>1
  <2>2. CASE ~x5 /\ x3[r].row = x1 /\ ~Place!Stranded(x1)
    <3>1. Stands(x1, x4) /\ PairsGone(x1, x4)
        BY <2>2 DEF PlacesInv
    <3> HIDE DEF made
    <3> QED
        BY <1>0, <1>3, <1>4, <1>5, <2>2, <3>1, FoldStands
  <2> QED
      BY <2>1, <2>2
<1>9. (\A g \in Readers :
           x3[g].stage = "folded" => x3[g].merged = Place!Merged(x3[g].row) /\ x2.primary # 0)'
    BY <1>1, <1>6 DEF PlacesInv, Place!Merged, Place!Current, Place!Readable
<1>10. PairsGone(made, x4)
    BY <1>5 DEF PlacesInv, PairsGone
<1> HIDE DEF made
<1> QED
    BY <1>1, <1>5, <1>6, <1>7, <1>8, <1>9, <1>10
       DEF PlacesInv, PlacesRow, PlacesRead, Stands, PairsGone, Place!None, Place!Free, Place!PlaceLists,
           Place!NotReading

LEMMA ServiceRestarts ==
    ASSUME PlacesInv, NEW primary \in 0 .. MaxKey, NEW old \in 0 .. MaxKey, Place!Restart(primary, old)
    PROVE  PlacesInv'
<1>1. /\ x2' = [primary |-> primary, old |-> old] /\ x3' = [g \in Readers |-> Place!NotReading]
      /\ UNCHANGED <<x1, x4, x5>>
    BY DEF Place!Restart
<1>2. x3' \in [Readers -> PlacesRead] /\ \A g \in Readers : x3'[g].stage # "folded"
    BY <1>1, NothingPut DEF Place!NotReading
<1> QED
    BY <1>1, <1>2
       DEF PlacesInv, PlacesRow, PlacesRead, Stands, PairsGone, Place!None, Place!Free, Place!PlaceLists,
           Place!NotReading

LEMMA PlacesStep ==
    ASSUME PlacesInv, Place!PlacesNext
    PROVE  PlacesInv'
BY ListPut, FavoritesPut, PairPut, PlacesAreRead, PlacesWritten, ServiceRestarts
   DEF Place!PlacesNext, Place!None


-----------------------------------------------------------------------------
(* Images.  x1 is object, x2 record, x3 gone, x4 cleaning, x5 upload and x6 sweep. *)

KeyOrNone == Rows \cup {Image!NoKey}

UploadRow == [stage : {"idle", "read", "stored", "committed", "failed"},
              record : Image!Records \cup {Image!NoKey}, old : KeyOrNone, new : KeyOrNone]

ImagesTyped ==
    /\ x1 \in [Rows -> {"unused", "young", "old", "gone"}]
    /\ x2 \in [Image!Records -> [key : KeyOrNone, due : BOOLEAN]]
    /\ x3 \subseteq {"ride", "account"}
    /\ x4 \subseteq Image!Records \X Rows
    /\ x5 \in [Actors -> UploadRow]
    /\ x6 \in [stage : {"idle", "listed", "read"}, listed : SUBSET Rows, orphans : SUBSET Rows]

\* A key that nobody has taken is known nowhere.
UnusedIsUnknown ==
    \A k \in Rows : x1[k] = "unused" =>
        /\ \A s \in Image!Records : x2[s].key # k
        /\ \A u \in Actors : x5[u].old # k /\ x5[u].new # k
        /\ \A c \in x4 : c[2] # k
        /\ k \notin x6.orphans

\* A key has one row at most, and no row outlives its account.
RowsApart ==
    /\ \A s, t \in Image!Records : x2[s].key = x2[t].key /\ x2[s].key # Image!NoKey => s = t
    /\ \A s \in Image!Records : x2[s].due => x2[s].key # Image!NoKey
    /\ "account" \in x3 => \A s \in Image!Records : x2[s].key = Image!NoKey

\* Which keys an upload knows, by its stage.
UploadsApart ==
    /\ \A u \in Actors :
           /\ x5[u].stage = "idle" => x5[u] = Image!NoUpload
           /\ x5[u].stage # "idle" => x5[u].record \in Image!Records
           /\ x5[u].stage = "read" => x5[u].new = Image!NoKey
           /\ x5[u].stage \in {"stored", "committed", "failed"} => x5[u].new \in Rows
    /\ \A u, v \in Actors : x5[u].new = x5[v].new /\ x5[u].new # Image!NoKey => u = v

\* An object whose row has not committed is known to its own request only, is there unless
\* the account is gone, and has not aged.
PendingIsOwn ==
    \A u \in Actors : x5[u].stage \in {"stored", "failed"} =>
        /\ \A s \in Image!Records : x2[s].key # x5[u].new
        /\ \A v \in Actors : x5[v].old # x5[u].new
        /\ \A c \in x4 : c[2] # x5[u].new
        /\ x5[u].new \notin x6.orphans
        /\ x5[u].stage = "stored" => x1[x5[u].new] = "young" \/ "account" \in x3
        /\ x1[x5[u].new] # "old"

\* The key that an upload read and replaces is its own row's, and no row's once it has.
SupersededIsOwn ==
    \A u \in Actors, s \in Image!Records :
        x5[u].old # Image!NoKey /\ x2[s].key = x5[u].old
            => x5[u].record = s /\ x5[u].stage # "committed"

\* The retention job takes the objects of rows that are due; the sweep, of no row at all.
TakenIsNotNeeded ==
    /\ \A c \in x4 : \A s \in Image!Records : x2[s].key = c[2] => x2[s].due
    /\ \A k \in x6.orphans : x1[k] \in {"old", "gone"}
    /\ x6.stage = "read" => \A s \in Image!Records : x2[s].key \notin x6.orphans

RowsImage ==
    \A s \in Image!Records :
        x2[s].key # Image!NoKey /\ ~x2[s].due => x1[x2[s].key] \in {"young", "old"}

ImagesInv ==
    /\ ImagesTyped
    /\ UnusedIsUnknown
    /\ RowsApart
    /\ UploadsApart
    /\ PendingIsOwn
    /\ SupersededIsOwn
    /\ TakenIsNotNeeded
    /\ RowsImage

LEMMA ImagesKept == ImagesInv => Image!ImagesTypeOK /\ Image!RowKeepsItsImage
<1> SUFFICES ASSUME ImagesInv PROVE Image!ImagesTypeOK /\ Image!RowKeepsItsImage
    OBVIOUS
<1>1. Image!ImagesTypeOK
    BY DEF ImagesInv, ImagesTyped, Image!ImagesTypeOK, UploadRow, KeyOrNone
<1>2. \A s \in Image!Records : x2[s].key # Image!NoKey => x2[s].key \in Rows
    BY DEF ImagesInv, ImagesTyped, KeyOrNone
<1> QED
    BY <1>1, <1>2 DEF ImagesInv, RowsImage, Image!RowKeepsItsImage, Image!Stored

LEMMA NoKeyIsNone ==
    /\ Image!NoKey \notin Rows
    /\ Image!NoUpload \in UploadRow /\ Image!NoUpload.stage = "idle"
    /\ Image!NoUpload.old = Image!NoKey /\ Image!NoUpload.new = Image!NoKey
    /\ Image!NoRecord \in [key : KeyOrNone, due : BOOLEAN]
    /\ Image!NoRecord.key = Image!NoKey /\ Image!NoRecord.due = FALSE
    /\ Image!NoSweep \in [stage : {"idle", "listed", "read"}, listed : SUBSET Rows, orphans : SUBSET Rows]
    /\ Image!NoSweep.stage = "idle" /\ Image!NoSweep.orphans = {}
BY DataAssumption DEF Image!NoKey, Image!NoUpload, Image!NoRecord, Image!NoSweep, UploadRow, KeyOrNone

LEMMA InitImagesInv == Image!ImagesInit => ImagesInv
<1> SUFFICES ASSUME Image!ImagesInit PROVE ImagesInv
    OBVIOUS
<1>1. /\ x1 = [k \in Rows |-> "unused"] /\ x2 = [s \in Image!Records |-> Image!NoRecord]
      /\ x3 = {} /\ x4 = {} /\ x5 = [u \in Actors |-> Image!NoUpload] /\ x6 = Image!NoSweep
    BY DEF Image!ImagesInit
<1>2. ImagesTyped
    BY <1>1, NoKeyIsNone DEF ImagesTyped
<1>3. UnusedIsUnknown
    BY <1>1, NoKeyIsNone DEF UnusedIsUnknown
<1>4. RowsApart /\ UploadsApart /\ PendingIsOwn
    BY <1>1, NoKeyIsNone DEF RowsApart, UploadsApart, PendingIsOwn
<1>5. SupersededIsOwn /\ TakenIsNotNeeded /\ RowsImage
    BY <1>1, NoKeyIsNone DEF SupersededIsOwn, TakenIsNotNeeded, RowsImage
<1> QED
    BY <1>2, <1>3, <1>4, <1>5 DEF ImagesInv

\* Uploads end, the sweep may, and objects go that no row needs and no upload waits for.
LEMMA ObjectsGo ==
    ASSUME ImagesInv, UNCHANGED <<x2, x3, x4>>,
           NEW taken, x1' = [k \in Rows |-> IF k \in taken THEN "gone" ELSE x1[k]],
           x5' \in [Actors -> UploadRow], \A u \in Actors : x5'[u] = x5[u] \/ x5'[u] = Image!NoUpload,
           x6' = x6 \/ x6' = Image!NoSweep,
           \A k \in taken : /\ \A s \in Image!Records : x2[s].key = k => x2[s].due
                            /\ \A u \in Actors : x5'[u].stage = "stored" /\ x5'[u].new = k => "account" \in x3
    PROVE  ImagesInv'
<1>1. ImagesTyped'
    BY NoKeyIsNone DEF ImagesInv, ImagesTyped, UploadRow, KeyOrNone, Image!Records, Image!NoKey
<1>2. UnusedIsUnknown'
    BY NoKeyIsNone DEF ImagesInv, UnusedIsUnknown, Image!Records
<1>3. RowsApart'
    BY DEF ImagesInv, RowsApart, Image!Records, Image!NoKey
<1>4. UploadsApart'
    BY NoKeyIsNone DEF ImagesInv, UploadsApart, Image!Records, Image!NoKey, Image!NoUpload
<1>5. PendingIsOwn'
  <2> SUFFICES ASSUME NEW u \in Actors, x5'[u].stage \in {"stored", "failed"}
               PROVE  /\ \A s \in Image!Records : x2[s].key # x5'[u].new
                      /\ \A v \in Actors : x5'[v].old # x5'[u].new
                      /\ \A c \in x4 : c[2] # x5'[u].new
                      /\ x5'[u].new \notin x6'.orphans
                      /\ x5'[u].stage = "stored" => x1'[x5'[u].new] = "young" \/ "account" \in x3
                      /\ x1'[x5'[u].new] # "old"
      BY DEF PendingIsOwn, Image!Records
  <2>1. x5'[u] = x5[u] /\ x5[u].stage \in {"stored", "failed"} /\ x5[u].new \in Rows
      BY NoKeyIsNone DEF ImagesInv, UploadsApart
  <2>2. /\ \A s \in Image!Records : x2[s].key # x5[u].new
        /\ \A v \in Actors : x5[v].old # x5[u].new
        /\ \A c \in x4 : c[2] # x5[u].new
        /\ x5[u].new \notin x6.orphans
        /\ x5[u].stage = "stored" => x1[x5[u].new] = "young" \/ "account" \in x3
        /\ x1[x5[u].new] # "old"
      BY <2>1 DEF ImagesInv, PendingIsOwn
  <2>3. \A v \in Actors : x5'[v].old # x5[u].new
      BY <2>1, <2>2, NoKeyIsNone
  <2> QED
      BY <2>1, <2>2, <2>3, NoKeyIsNone
<1>6. SupersededIsOwn'
    BY NoKeyIsNone DEF ImagesInv, SupersededIsOwn, Image!Records, Image!NoKey
<1>7. TakenIsNotNeeded'
    BY NoKeyIsNone DEF ImagesInv, ImagesTyped, TakenIsNotNeeded, Image!Records
<1>8. RowsImage'
    BY DEF ImagesInv, ImagesTyped, RowsImage, Image!Records, Image!NoKey, KeyOrNone
<1> QED
    BY <1>1, <1>2, <1>3, <1>4, <1>5, <1>6, <1>7, <1>8 DEF ImagesInv

LEMMA UploadEnds ==
    ASSUME ImagesInv, NEW u \in Actors,
           Image!CleanUp(u) \/ Image!DropSuperseded(u) \/ Image!UploadDies(u)
    PROVE  ImagesInv'
<1>t. /\ x1 \in [Rows -> {"unused", "young", "old", "gone"}] /\ x5 \in [Actors -> UploadRow]
    BY DEF ImagesInv, ImagesTyped
<1>1. /\ x5' = [x5 EXCEPT ![u] = Image!NoUpload] /\ x5[u].stage # "idle"
      /\ UNCHANGED <<x2, x3, x4, x6>>
    BY DEF Image!CleanUp, Image!DropSuperseded, Image!UploadDies
<1>2. /\ x5' \in [Actors -> UploadRow] /\ x5'[u].stage = "idle" 
      /\ \A v \in Actors : x5'[v] = x5[v] \/ x5'[v] = Image!NoUpload
      /\ \A v \in Actors : x5'[v].stage # "idle" => v # u /\ x5'[v] = x5[v]
    BY <1>t, <1>1, NoKeyIsNone
<1>3. CASE x1' = x1
  <2> DEFINE none == {}
  <2>1. x1' = [k \in Rows |-> IF k \in none THEN "gone" ELSE x1[k]] /\ \A k \in none : FALSE
      BY <1>t, <1>3
  <2> HIDE DEF none
  <2> QED
      BY <1>1, <1>2, <2>1, ObjectsGo
<1>4. CASE x5[u].stage = "failed" /\ x1' = [x1 EXCEPT ![x5[u].new] = "gone"]
  <2> DEFINE taken == {x5[u].new}
  <2>1. x1' = [k \in Rows |-> IF k \in taken THEN "gone" ELSE x1[k]]
      BY <1>t, <1>4
  <2>2. x5[u].new \in Rows /\ \A s \in Image!Records : x2[s].key # x5[u].new
      BY <1>4 DEF ImagesInv, UploadsApart, PendingIsOwn
  <2>3. \A v \in Actors \ {u} : x5[v].new # x5[u].new
      BY <2>2, NoKeyIsNone DEF ImagesInv, UploadsApart
  <2>4. \A v \in Actors : ~(x5'[v].stage = "stored" /\ x5'[v].new = x5[u].new)
      BY <1>2, <2>3
  <2>5. \A k \in taken :
            /\ \A s \in Image!Records : x2[s].key = k => x2[s].due
            /\ \A v \in Actors : x5'[v].stage = "stored" /\ x5'[v].new = k => "account" \in x3
      BY <2>2, <2>4
  <2> HIDE DEF taken
  <2> QED
      BY <1>1, <1>2, <2>1, <2>5, ObjectsGo
<1>5. CASE /\ x5[u].stage = "committed"
           /\ x1' = [k \in Rows |-> IF k = x5[u].old /\ k # x5[u].new THEN "gone" ELSE x1[k]]
  <2> DEFINE taken == {k \in Rows : k = x5[u].old /\ k # x5[u].new}
  <2>1. x1' = [k \in Rows |-> IF k \in taken THEN "gone" ELSE x1[k]]
      BY <1>5
  <2>2. \A k \in taken : \A s \in Image!Records : x2[s].key # k
      BY <1>5, NoKeyIsNone DEF ImagesInv, SupersededIsOwn
  <2>3. \A k \in taken : \A v \in Actors : ~(x5'[v].stage = "stored" /\ x5'[v].new = k)
      BY <1>2 DEF ImagesInv, PendingIsOwn
  <2> HIDE DEF taken
  <2> QED
      BY <1>1, <1>2, <2>1, <2>2, <2>3, ObjectsGo
<1>6. \/ x1' = x1
      \/ x5[u].stage = "failed" /\ x1' = [x1 EXCEPT ![x5[u].new] = "gone"]
      \/ /\ x5[u].stage = "committed"
         /\ x1' = [k \in Rows |-> IF k = x5[u].old /\ k # x5[u].new THEN "gone" ELSE x1[k]]
  <2>1. CASE Image!CleanUp(u)
    <3>1. \/ x1' = [x1 EXCEPT ![x5[u].new] = IF x5[u].record \in Shots THEN x1[x5[u].new] ELSE "gone"]
          \/ x1' = x1
        BY <2>1 DEF Image!CleanUp
    <3>2. x5[u].stage = "failed" /\ x5[u].new \in Rows
        BY <2>1 DEF Image!CleanUp, ImagesInv, UploadsApart
    <3> QED
        BY <1>t, <3>1, <3>2
  <2>2. CASE Image!DropSuperseded(u)
      BY <2>2 DEF Image!DropSuperseded
  <2>3. CASE Image!UploadDies(u)
      BY <2>3 DEF Image!UploadDies
  <2> QED
      BY <2>1, <2>2, <2>3
<1> QED
    BY <1>3, <1>4, <1>5, <1>6

LEMMA ObjectsTaken ==
    ASSUME ImagesInv,
           \/ Image!PurgeAccount
           \/ \E s \in Image!Records, k \in Rows : Image!DeleteDue(s, k)
           \/ Image!DeleteOrphans
    PROVE  ImagesInv'
<1>t. /\ x1 \in [Rows -> {"unused", "young", "old", "gone"}] /\ x5 \in [Actors -> UploadRow]
    BY DEF ImagesInv, ImagesTyped
<1>1. CASE Image!PurgeAccount
  <2>1. PICK found \in SUBSET Image!Stored :
            x1' = [k \in Rows |-> IF k \in found THEN "gone" ELSE x1[k]]
      BY <1>1 DEF Image!PurgeAccount
  <2>2. UNCHANGED <<x2, x3, x4, x5, x6>> /\ "account" \in x3
      BY <1>1 DEF Image!PurgeAccount
  <2>3. \A k \in found : \A s \in Image!Records : x2[s].key # k
      BY <2>2, NoKeyIsNone DEF ImagesInv, RowsApart, Image!Stored
  <2> QED
      BY <1>t, <2>1, <2>2, <2>3, ObjectsGo
<1>2. CASE \E s \in Image!Records, k \in Rows : Image!DeleteDue(s, k)
  <2>1. PICK s \in Image!Records, k \in Rows : Image!DeleteDue(s, k)
      BY <1>2
  <2> DEFINE taken == {k}
  <2>2. /\ <<s, k>> \in x4 /\ x1' = [j \in Rows |-> IF j \in taken THEN "gone" ELSE x1[j]]
        /\ UNCHANGED <<x2, x3, x4, x5, x6>> /\ \A j \in taken : j = k
      BY <1>t, <2>1 DEF Image!DeleteDue
  <2>3. \A r \in Image!Records : x2[r].key = k => x2[r].due
      BY <2>2 DEF ImagesInv, TakenIsNotNeeded
  <2>4. \A u \in Actors : x5[u].stage = "stored" => x5[u].new # k
      BY <2>2 DEF ImagesInv, PendingIsOwn
  <2> HIDE DEF taken
  <2> QED
      BY <1>t, <2>2, <2>3, <2>4, ObjectsGo
<1>3. CASE Image!DeleteOrphans
  <2>1. PICK taken \in SUBSET x6.orphans :
            x1' = [k \in Rows |-> IF k \in taken THEN "gone" ELSE x1[k]]
      BY <1>3 DEF Image!DeleteOrphans
  <2>2. UNCHANGED <<x2, x3, x4, x5>> /\ x6.stage = "read" /\ x6' = Image!NoSweep
      BY <1>3 DEF Image!DeleteOrphans
  <2>3. \A k \in taken : \A s \in Image!Records : x2[s].key # k
      BY <2>2 DEF ImagesInv, TakenIsNotNeeded
  <2>4. \A k \in taken : \A u \in Actors : x5[u].stage = "stored" => x5[u].new # k
      BY DEF ImagesInv, PendingIsOwn
  <2> QED
      BY <1>t, <2>1, <2>2, <2>3, <2>4, ObjectsGo
<1> QED
    BY <1>1, <1>2, <1>3

LEMMA UploadReads ==
    ASSUME ImagesInv, NEW u \in Actors, NEW s \in Image!Records,
           Image!ReadPhotos(u, s) \/ Image!ReadShot(u, s) \/ Image!ReadForm(u, s)
    PROVE  ImagesInv'
<1> DEFINE old  == IF Image!ReadShot(u, s) THEN x2[s].key ELSE Image!NoKey
           made == [stage |-> "read", record |-> s, old |-> old, new |-> Image!NoKey]
<1>t. ImagesTyped
    BY DEF ImagesInv
<1>1. /\ x5' = [x5 EXCEPT ![u] = made] /\ x5[u] = Image!NoUpload
      /\ UNCHANGED <<x1, x2, x3, x4, x6>>
  <2>1. CASE Image!ReadShot(u, s)
      BY <2>1 DEF Image!ReadShot, Image!Upload
  <2>2. CASE ~Image!ReadShot(u, s)
      BY <2>2 DEF Image!ReadPhotos, Image!ReadForm, Image!Upload
  <2> QED
      BY <2>1, <2>2
<1>2. old \in KeyOrNone /\ (old = Image!NoKey \/ old = x2[s].key)
    BY <1>t DEF ImagesTyped, KeyOrNone
<1>3. /\ made \in UploadRow /\ made.stage = "read" /\ made.record = s /\ made.old = old
      /\ made.new = Image!NoKey
  <2> HIDE DEF old
  <2> QED
      BY <1>2 DEF UploadRow, KeyOrNone
<1> HIDE DEF made, old
<1>4. /\ x5' \in [Actors -> UploadRow] /\ x5'[u] = made
      /\ \A v \in Actors : v # u => x5'[v] = x5[v]
    BY <1>t, <1>1, <1>3 DEF ImagesTyped
<1>5. \A v \in Actors : x5[v].stage \in {"stored", "failed"} => v # u /\ x5[v].new \in Rows
    BY <1>1, NoKeyIsNone DEF ImagesInv, UploadsApart
<1>6. ImagesTyped'
    BY <1>t, <1>1, <1>4 DEF ImagesTyped, UploadRow, KeyOrNone, Image!Records, Image!NoKey
<1>7. UnusedIsUnknown'
    BY <1>1, <1>2, <1>3, <1>4, NoKeyIsNone DEF ImagesInv, UnusedIsUnknown, Image!Records
<1>8. RowsApart'
    BY <1>1 DEF ImagesInv, RowsApart, Image!Records, Image!NoKey
<1>9. UploadsApart'
  <2>1. \A v \in Actors :
            /\ x5'[v].stage = "idle" => x5'[v] = Image!NoUpload
            /\ x5'[v].stage # "idle" => x5'[v].record \in Image!Records
            /\ x5'[v].stage = "read" => x5'[v].new = Image!NoKey
            /\ x5'[v].stage \in {"stored", "committed", "failed"} => x5'[v].new \in Rows
      BY <1>3, <1>4 DEF ImagesInv, UploadsApart
  <2>2. \A v, w \in Actors : x5'[v].new = x5'[w].new /\ x5'[v].new # Image!NoKey => v = w
      BY <1>3, <1>4 DEF ImagesInv, UploadsApart
  <2> QED
      BY <2>1, <2>2 DEF UploadsApart, Image!Records, Image!NoKey, Image!NoUpload
<1>10. PendingIsOwn'
  <2> SUFFICES ASSUME NEW v \in Actors, x5'[v].stage \in {"stored", "failed"}
               PROVE  /\ \A r \in Image!Records : x2[r].key # x5'[v].new
                      /\ \A w \in Actors : x5'[w].old # x5'[v].new
                      /\ \A c \in x4 : c[2] # x5'[v].new
                      /\ x5'[v].new \notin x6.orphans
                      /\ x5'[v].stage = "stored" => x1[x5'[v].new] = "young" \/ "account" \in x3
                      /\ x1[x5'[v].new] # "old"
      BY <1>1 DEF PendingIsOwn, Image!Records
  <2>1. x5'[v] = x5[v] /\ v # u /\ x5[v].new \in Rows
      BY <1>3, <1>4, <1>5
  <2>2. old # x5[v].new
      BY <1>2, <2>1, NoKeyIsNone DEF ImagesInv, PendingIsOwn
  <2> QED
      BY <1>3, <1>4, <2>1, <2>2 DEF ImagesInv, PendingIsOwn
<1>11. SupersededIsOwn'
    BY <1>1, <1>2, <1>3, <1>4 DEF ImagesInv, RowsApart, SupersededIsOwn, Image!Records, Image!NoKey
<1>12. TakenIsNotNeeded' /\ RowsImage'
    BY <1>1 DEF ImagesInv, TakenIsNotNeeded, RowsImage, Image!Records, Image!NoKey
<1> QED
    BY <1>6, <1>7, <1>8, <1>9, <1>10, <1>11, <1>12 DEF ImagesInv

LEMMA ObjectIsPut ==
    ASSUME ImagesInv, NEW u \in Actors, NEW k \in Rows, Image!Put(u, k)
    PROVE  ImagesInv'
<1> DEFINE made == [stage |-> "stored", record |-> x5[u].record, old |-> x5[u].old, new |-> k]
<1>t. ImagesTyped
    BY DEF ImagesInv
<1>1. /\ x5' = [x5 EXCEPT ![u] = made] /\ x5[u].stage = "read" /\ x1[k] = "unused"
      /\ x1' = [x1 EXCEPT ![k] = "young"] /\ UNCHANGED <<x2, x3, x4, x6>>
    BY DEF Image!Put, Image!Upload
<1>2. /\ made \in UploadRow /\ made.stage = "stored" /\ made.record = x5[u].record
      /\ made.old = x5[u].old /\ made.new = k /\ made.record \in Image!Records
    BY <1>t, <1>1 DEF ImagesInv, ImagesTyped, UploadsApart, UploadRow, KeyOrNone
<1> HIDE DEF made
<1>3. /\ x5' \in [Actors -> UploadRow] /\ x5'[u] = made
      /\ \A v \in Actors : v # u => x5'[v] = x5[v]
    BY <1>t, <1>1, <1>2 DEF ImagesTyped
<1>4. /\ \A s \in Image!Records : x2[s].key # k
      /\ \A v \in Actors : x5[v].old # k /\ x5[v].new # k
      /\ \A c \in x4 : c[2] # k
      /\ k \notin x6.orphans
    BY <1>1 DEF ImagesInv, UnusedIsUnknown
<1>5. /\ x1' \in [Rows -> {"unused", "young", "old", "gone"}] /\ x1'[k] = "young"
      /\ \A j \in Rows : j # k => x1'[j] = x1[j]
    BY <1>t, <1>1 DEF ImagesTyped
<1>6. ImagesTyped'
    BY <1>t, <1>1, <1>3, <1>5 DEF ImagesTyped, UploadRow, KeyOrNone, Image!Records, Image!NoKey
<1>7. UnusedIsUnknown'
    BY <1>1, <1>2, <1>3, <1>5 DEF ImagesInv, UnusedIsUnknown, Image!Records
<1>8. RowsApart'
    BY <1>1 DEF ImagesInv, RowsApart, Image!Records, Image!NoKey
<1>9. UploadsApart'
  <2>1. \A v \in Actors :
            /\ x5'[v].stage = "idle" => x5'[v] = Image!NoUpload
            /\ x5'[v].stage # "idle" => x5'[v].record \in Image!Records
            /\ x5'[v].stage = "read" => x5'[v].new = Image!NoKey
            /\ x5'[v].stage \in {"stored", "committed", "failed"} => x5'[v].new \in Rows
      BY <1>2, <1>3 DEF ImagesInv, UploadsApart
  <2>2. \A v, w \in Actors : x5'[v].new = x5'[w].new /\ x5'[v].new # Image!NoKey => v = w
      BY <1>2, <1>3, <1>4 DEF ImagesInv, UploadsApart
  <2> QED
      BY <2>1, <2>2 DEF UploadsApart, Image!Records, Image!NoKey, Image!NoUpload
<1>10. PendingIsOwn'
  <2> SUFFICES ASSUME NEW v \in Actors, x5'[v].stage \in {"stored", "failed"}
               PROVE  /\ \A r \in Image!Records : x2[r].key # x5'[v].new
                      /\ \A w \in Actors : x5'[w].old # x5'[v].new
                      /\ \A c \in x4 : c[2] # x5'[v].new
                      /\ x5'[v].new \notin x6.orphans
                      /\ x5'[v].stage = "stored" => x1'[x5'[v].new] = "young" \/ "account" \in x3
                      /\ x1'[x5'[v].new] # "old"
      BY <1>1 DEF PendingIsOwn, Image!Records
  <2>1. CASE v = u
      BY <1>2, <1>3, <1>4, <1>5, <2>1
  <2>2. CASE v # u
    <3>1. x5'[v] = x5[v] /\ x5[v].stage \in {"stored", "failed"} /\ x5[v].new # k /\ x5[v].new \in Rows
        BY <1>3, <1>4, <2>2 DEF ImagesInv, UploadsApart
    <3>2. /\ \A r \in Image!Records : x2[r].key # x5[v].new
          /\ \A w \in Actors : x5[w].old # x5[v].new
          /\ \A c \in x4 : c[2] # x5[v].new
          /\ x5[v].new \notin x6.orphans
          /\ x5[v].stage = "stored" => x1[x5[v].new] = "young" \/ "account" \in x3
          /\ x1[x5[v].new] # "old"
        BY <3>1 DEF ImagesInv, PendingIsOwn
    <3> QED
        BY <1>2, <1>3, <1>5, <3>1, <3>2
  <2> QED
      BY <2>1, <2>2
<1>11. SupersededIsOwn'
    BY <1>1, <1>2, <1>3 DEF ImagesInv, SupersededIsOwn, Image!Records, Image!NoKey
<1>12. TakenIsNotNeeded'
    BY <1>t, <1>1, <1>4, <1>5 DEF ImagesInv, ImagesTyped, TakenIsNotNeeded, Image!Records
<1>13. RowsImage'
    BY <1>t, <1>1, <1>4, <1>5 DEF ImagesInv, ImagesTyped, RowsImage, Image!Records, Image!NoKey, KeyOrNone
<1> QED
    BY <1>6, <1>7, <1>8, <1>9, <1>10, <1>11, <1>12, <1>13 DEF ImagesInv

LEMMA UploadFails ==
    ASSUME ImagesInv, NEW u \in Actors, x5[u].stage = "stored", NEW old \in {x5[u].old, Image!NoKey},
           x5' = [x5 EXCEPT ![u] = [stage |-> "failed", record |-> x5[u].record, old |-> old,
                                    new |-> x5[u].new]],
           UNCHANGED <<x1, x2, x3, x4, x6>>
    PROVE  ImagesInv'
<1> DEFINE made == [stage |-> "failed", record |-> x5[u].record, old |-> old, new |-> x5[u].new]
<1>t. ImagesTyped
    BY DEF ImagesInv
<1>2. /\ made \in UploadRow /\ made.stage = "failed" /\ made.record = x5[u].record
      /\ made.old = old /\ made.new = x5[u].new /\ made.record \in Image!Records /\ made.new \in Rows
    BY <1>t DEF ImagesInv, ImagesTyped, UploadsApart, UploadRow, KeyOrNone
<1>1. x5' = [x5 EXCEPT ![u] = made]
    OBVIOUS
<1> HIDE DEF made
<1>3. /\ x5' \in [Actors -> UploadRow] /\ x5'[u] = made
      /\ \A v \in Actors : v # u => x5'[v] = x5[v]
    BY <1>t, <1>1, <1>2 DEF ImagesTyped
<1>4. \A v \in Actors :
          /\ x5'[v].new = x5[v].new /\ x5'[v].record = x5[v].record
          /\ x5'[v].old = x5[v].old \/ x5'[v].old = Image!NoKey
          /\ x5'[v].stage = x5[v].stage \/ (x5'[v].stage = "failed" /\ x5[v].stage = "stored")
    BY <1>2, <1>3
<1>6. ImagesTyped'
    BY <1>t, <1>3 DEF ImagesTyped, UploadRow, KeyOrNone, Image!Records, Image!NoKey
<1>7. UnusedIsUnknown'
    BY <1>4, NoKeyIsNone DEF ImagesInv, UnusedIsUnknown, Image!Records
<1>8. RowsApart'
    BY DEF ImagesInv, RowsApart, Image!Records, Image!NoKey
<1>9. UploadsApart'
  <2>1. \A v \in Actors :
            /\ x5'[v].stage = "idle" => x5'[v] = Image!NoUpload
            /\ x5'[v].stage # "idle" => x5'[v].record \in Image!Records
            /\ x5'[v].stage = "read" => x5'[v].new = Image!NoKey
            /\ x5'[v].stage \in {"stored", "committed", "failed"} => x5'[v].new \in Rows
      BY <1>2, <1>3 DEF ImagesInv, UploadsApart
  <2>2. \A v, w \in Actors : x5'[v].new = x5'[w].new /\ x5'[v].new # Image!NoKey => v = w
      BY <1>4 DEF ImagesInv, UploadsApart
  <2> QED
      BY <2>1, <2>2 DEF UploadsApart, Image!Records, Image!NoKey, Image!NoUpload
<1>10. PendingIsOwn'
  <2> SUFFICES ASSUME NEW v \in Actors, x5'[v].stage \in {"stored", "failed"}
               PROVE  /\ \A r \in Image!Records : x2[r].key # x5'[v].new
                      /\ \A w \in Actors : x5'[w].old # x5'[v].new
                      /\ \A c \in x4 : c[2] # x5'[v].new
                      /\ x5'[v].new \notin x6.orphans
                      /\ x5'[v].stage = "stored" => x1[x5'[v].new] = "young" \/ "account" \in x3
                      /\ x1[x5'[v].new] # "old"
      BY DEF PendingIsOwn, Image!Records
  <2>1. x5'[v].new = x5[v].new /\ x5[v].stage \in {"stored", "failed"} /\ x5[v].new \in Rows
      BY <1>4 DEF ImagesInv, UploadsApart
  <2>2. /\ \A r \in Image!Records : x2[r].key # x5[v].new
        /\ \A w \in Actors : x5[w].old # x5[v].new
        /\ \A c \in x4 : c[2] # x5[v].new
        /\ x5[v].new \notin x6.orphans
        /\ x5[v].stage = "stored" => x1[x5[v].new] = "young" \/ "account" \in x3
        /\ x1[x5[v].new] # "old"
      BY <2>1 DEF ImagesInv, PendingIsOwn
  <2> QED
      BY <1>4, <2>1, <2>2, NoKeyIsNone
<1>11. SupersededIsOwn'
    BY <1>4 DEF ImagesInv, SupersededIsOwn, Image!Records, Image!NoKey
<1>12. TakenIsNotNeeded' /\ RowsImage'
    BY DEF ImagesInv, TakenIsNotNeeded, RowsImage, Image!Records, Image!NoKey
<1> QED
    BY <1>6, <1>7, <1>8, <1>9, <1>10, <1>11, <1>12 DEF ImagesInv

LEMMA RowIsInserted ==
    ASSUME ImagesInv, NEW u \in Actors, Image!InsertRow(u), Image!Kept(x5[u].record)
    PROVE  ImagesInv'
<1> DEFINE s    == x5[u].record
           k    == x5[u].new
           made == [stage |-> "committed", record |-> s, old |-> x5[u].old, new |-> k]
           set  == [x2[s] EXCEPT !.key = k]
<1>t. ImagesTyped
    BY DEF ImagesInv
<1>1. /\ x5' = [x5 EXCEPT ![u] = made] /\ x5[u].stage = "stored"
      /\ x2' = [x2 EXCEPT ![s] = set] /\ UNCHANGED <<x1, x3, x4, x6>>
    BY DEF Image!InsertRow, Image!Upload
<1>2. s \in Image!Records /\ k \in Rows
    BY <1>1 DEF ImagesInv, UploadsApart
<1>3. /\ made \in UploadRow /\ made.stage = "committed" /\ made.record = s
      /\ made.old = x5[u].old /\ made.new = k
    BY <1>t, <1>2 DEF ImagesTyped, UploadRow, KeyOrNone
<1>4. set \in [key : KeyOrNone, due : BOOLEAN] /\ set.key = k /\ set.due = x2[s].due
    BY <1>t, <1>2 DEF ImagesTyped, KeyOrNone
<1> HIDE DEF made, set
<1>5. /\ x5' \in [Actors -> UploadRow] /\ x5'[u] = made
      /\ \A v \in Actors : v # u => x5'[v] = x5[v]
    BY <1>t, <1>1, <1>3 DEF ImagesTyped
<1>6. /\ x2' \in [Image!Records -> [key : KeyOrNone, due : BOOLEAN]] /\ x2'[s].key = k
      /\ \A r \in Image!Records : r # s => x2'[r] = x2[r]
      /\ \A r \in Image!Records : x2'[r].due = x2[r].due
    BY <1>t, <1>1, <1>2, <1>4 DEF ImagesTyped
<1>7. /\ \A r \in Image!Records : x2[r].key # k
      /\ \A v \in Actors : x5[v].old # k
      /\ \A c \in x4 : c[2] # k
      /\ k \notin x6.orphans
      /\ x1[k] = "young" \/ "account" \in x3
    BY <1>1 DEF ImagesInv, PendingIsOwn
<1>8. "account" \notin x3 /\ x1[k] = "young"
    BY <1>7 DEF Image!Kept
<1>9. k # Image!NoKey
    BY <1>2, NoKeyIsNone
<1>10. \A v \in Actors : v # u => x5[v].new # k
    BY <1>9 DEF ImagesInv, UploadsApart
<1>11. \A v \in Actors : x5'[v].new = x5[v].new /\ x5'[v].old = x5[v].old /\ x5'[v].record = x5[v].record
    BY <1>3, <1>5
<1> HIDE DEF k, s
<1>12. ImagesTyped'
    BY <1>t, <1>1, <1>5, <1>6 DEF ImagesTyped, UploadRow, KeyOrNone, Image!Records, Image!NoKey
<1>13. UnusedIsUnknown'
    BY <1>1, <1>6, <1>8, <1>11 DEF ImagesInv, UnusedIsUnknown, Image!Records
<1>14. RowsApart'
    BY <1>1, <1>6, <1>7, <1>8, <1>9 DEF ImagesInv, RowsApart, Image!Records, Image!NoKey
<1>15. UploadsApart'
  <2>1. \A v \in Actors :
            /\ x5'[v].stage = "idle" => x5'[v] = Image!NoUpload
            /\ x5'[v].stage # "idle" => x5'[v].record \in Image!Records
            /\ x5'[v].stage = "read" => x5'[v].new = Image!NoKey
            /\ x5'[v].stage \in {"stored", "committed", "failed"} => x5'[v].new \in Rows
      BY <1>2, <1>3, <1>5 DEF ImagesInv, UploadsApart
  <2>2. \A v, w \in Actors : x5'[v].new = x5'[w].new /\ x5'[v].new # Image!NoKey => v = w
      BY <1>11 DEF ImagesInv, UploadsApart
  <2> QED
      BY <2>1, <2>2 DEF UploadsApart, Image!Records, Image!NoKey, Image!NoUpload
<1>16. PendingIsOwn'
  <2> SUFFICES ASSUME NEW v \in Actors, x5'[v].stage \in {"stored", "failed"}
               PROVE  /\ \A r \in Image!Records : x2'[r].key # x5'[v].new
                      /\ \A w \in Actors : x5'[w].old # x5'[v].new
                      /\ \A c \in x4 : c[2] # x5'[v].new
                      /\ x5'[v].new \notin x6.orphans
                      /\ x5'[v].stage = "stored" => x1[x5'[v].new] = "young" \/ "account" \in x3
                      /\ x1[x5'[v].new] # "old"
      BY <1>1 DEF PendingIsOwn, Image!Records
  <2>1. v # u /\ x5'[v] = x5[v] /\ x5[v].stage \in {"stored", "failed"} /\ x5[v].new # k
      BY <1>3, <1>5, <1>10
  <2>2. /\ \A r \in Image!Records : x2[r].key # x5[v].new
        /\ \A w \in Actors : x5[w].old # x5[v].new
        /\ \A c \in x4 : c[2] # x5[v].new
        /\ x5[v].new \notin x6.orphans
        /\ x5[v].stage = "stored" => x1[x5[v].new] = "young" \/ "account" \in x3
        /\ x1[x5[v].new] # "old"
      BY <2>1 DEF ImagesInv, PendingIsOwn
  <2> QED
      BY <1>6, <1>11, <2>1, <2>2
<1>17. SupersededIsOwn'
  <2> SUFFICES ASSUME NEW v \in Actors, NEW r \in Image!Records, x5'[v].old # Image!NoKey,
                      x2'[r].key = x5'[v].old
               PROVE  x5'[v].record = r /\ x5'[v].stage # "committed"
      BY DEF SupersededIsOwn, Image!Records, Image!NoKey
  <2>1. r # s /\ x2[r].key = x5[v].old
      BY <1>6, <1>7, <1>11
  <2>2. x5[v].record = r /\ x5[v].stage # "committed"
      BY <1>11, <2>1 DEF ImagesInv, SupersededIsOwn
  <2>3. v # u
      BY <2>1, <2>2 DEF s
  <2> QED
      BY <1>5, <2>2, <2>3
<1>18. TakenIsNotNeeded'
    BY <1>1, <1>6, <1>7 DEF ImagesInv, TakenIsNotNeeded, Image!Records
<1>19. RowsImage'
  <2> SUFFICES ASSUME NEW r \in Image!Records, x2'[r].key # Image!NoKey, ~x2'[r].due
               PROVE  x1[x2'[r].key] \in {"young", "old"}
      BY <1>1 DEF RowsImage, Image!Records, Image!NoKey
  <2>1. CASE r = s
      BY <1>6, <1>8, <2>1
  <2>2. CASE r # s
      BY <1>6, <2>2 DEF ImagesInv, RowsImage
  <2> QED
      BY <2>1, <2>2
<1> QED
    BY <1>12, <1>13, <1>14, <1>15, <1>16, <1>17, <1>18, <1>19 DEF ImagesInv

\* Rows go or become due, and the objects that go with them are nobody else's.
LEMMA RowsGo ==
    ASSUME ImagesInv, UNCHANGED <<x5, x6>>, x3' \subseteq {"ride", "account"}, x3 \subseteq x3',
           x4' = x4 \/ x4' = {},
           x2' \in [Image!Records -> [key : KeyOrNone, due : BOOLEAN]],
           \A s \in Image!Records :
               \/ x2'[s] = x2[s]
               \/ x2'[s] = Image!NoRecord
               \/ x2'[s].key = x2[s].key /\ x2[s].key # Image!NoKey /\ x2'[s].due = TRUE,
           "account" \in x3' => \A s \in Image!Records : x2'[s].key = Image!NoKey,
           NEW taken, x1' = [k \in Rows |-> IF k \in taken THEN "gone" ELSE x1[k]],
           \A k \in taken : /\ \A s \in Image!Records : x2'[s].key # k
                            /\ \A u \in Actors : x5[u].stage = "stored" => x5[u].new # k
    PROVE  ImagesInv'
<1>t. ImagesTyped
    BY DEF ImagesInv
<1>0. \A s \in Image!Records :
          /\ x2'[s].key = x2[s].key \/ x2'[s].key = Image!NoKey
          /\ x2'[s].due => x2'[s].key # Image!NoKey
          /\ x2[s].due => x2'[s].due \/ x2'[s].key = Image!NoKey
    BY NoKeyIsNone DEF ImagesInv, RowsApart
<1>n. Image!NoKey \notin x6.orphans
    BY <1>t, NoKeyIsNone DEF ImagesTyped
<1>1. ImagesTyped'
    BY <1>t DEF ImagesTyped, UploadRow, KeyOrNone, Image!Records, Image!NoKey
<1>2. UnusedIsUnknown'
    BY <1>0, NoKeyIsNone DEF ImagesInv, UnusedIsUnknown, Image!Records
<1>3. RowsApart'
    BY <1>0 DEF ImagesInv, RowsApart, Image!Records, Image!NoKey
<1>4. UploadsApart'
    BY DEF ImagesInv, UploadsApart, Image!Records, Image!NoKey, Image!NoUpload
<1>5. PendingIsOwn'
  <2> SUFFICES ASSUME NEW u \in Actors, x5[u].stage \in {"stored", "failed"}
               PROVE  /\ \A s \in Image!Records : x2'[s].key # x5[u].new
                      /\ \A v \in Actors : x5[v].old # x5[u].new
                      /\ \A c \in x4' : c[2] # x5[u].new
                      /\ x5[u].new \notin x6.orphans
                      /\ x5[u].stage = "stored" => x1'[x5[u].new] = "young" \/ "account" \in x3'
                      /\ x1'[x5[u].new] # "old"
      BY DEF PendingIsOwn, Image!Records
  <2>1. x5[u].new \in Rows
      BY DEF ImagesInv, UploadsApart
  <2>2. /\ \A s \in Image!Records : x2[s].key # x5[u].new
        /\ \A v \in Actors : x5[v].old # x5[u].new
        /\ \A c \in x4 : c[2] # x5[u].new
        /\ x5[u].new \notin x6.orphans
        /\ x5[u].stage = "stored" => x1[x5[u].new] = "young" \/ "account" \in x3
        /\ x1[x5[u].new] # "old"
      BY DEF ImagesInv, PendingIsOwn
  <2> QED
      BY <1>0, <2>1, <2>2, NoKeyIsNone
<1>6. SupersededIsOwn'
    BY <1>0 DEF ImagesInv, SupersededIsOwn, Image!Records, Image!NoKey
<1>7. TakenIsNotNeeded'
  <2>1. \A c \in x4' : \A s \in Image!Records : x2'[s].key = c[2] => x2'[s].due
    <3> SUFFICES ASSUME NEW c \in x4', NEW s \in Image!Records, x2'[s].key = c[2] PROVE x2'[s].due
        OBVIOUS
    <3>1. c \in x4 /\ c[2] \in Rows
        BY <1>t DEF ImagesTyped
    <3> QED
        BY <1>0, <3>1, NoKeyIsNone DEF ImagesInv, TakenIsNotNeeded
  <2>2. \A k \in x6.orphans : x1'[k] \in {"old", "gone"}
      BY <1>t DEF ImagesInv, ImagesTyped, TakenIsNotNeeded
  <2>3. x6.stage = "read" => \A s \in Image!Records : x2'[s].key \notin x6.orphans
      BY <1>0, <1>n DEF ImagesInv, TakenIsNotNeeded
  <2> QED
      BY <2>1, <2>2, <2>3 DEF TakenIsNotNeeded, Image!Records
<1>8. RowsImage'
  <2> SUFFICES ASSUME NEW s \in Image!Records, x2'[s].key # Image!NoKey, ~x2'[s].due
               PROVE  x1'[x2'[s].key] \in {"young", "old"}
      BY DEF RowsImage, Image!Records, Image!NoKey
  <2>1. x2'[s].key = x2[s].key /\ ~x2[s].due /\ x2[s].key \in Rows
      BY <1>0, <1>t DEF ImagesTyped, KeyOrNone
  <2> QED
      BY <2>1 DEF ImagesInv, RowsImage
<1> QED
    BY <1>1, <1>2, <1>3, <1>4, <1>5, <1>6, <1>7, <1>8 DEF ImagesInv

LEMMA RowsDeleted ==
    ASSUME ImagesInv, Image!DeleteRide \/ Image!DeleteAccount \/ Image!CommitDue
    PROVE  ImagesInv'
<1>t. /\ x1 \in [Rows -> {"unused", "young", "old", "gone"}]
      /\ x2 \in [Image!Records -> [key : KeyOrNone, due : BOOLEAN]] /\ x3 \subseteq {"ride", "account"}
    BY DEF ImagesInv, ImagesTyped
<1> DEFINE none == {}
<1>0. x1 = [k \in Rows |-> IF k \in none THEN "gone" ELSE x1[k]] /\ \A k \in none : FALSE
    BY <1>t
<1>1. CASE Image!DeleteRide
  <2> DEFINE shown == {x2[s].key : s \in Shots}
  <2>1. PICK missed \in SUBSET shown :
            x1' = [k \in Rows |-> IF k \in shown \ missed THEN "gone" ELSE x1[k]]
      BY <1>1 DEF Image!DeleteRide
  <2> DEFINE taken == (shown \ missed) \cap Rows
  <2>2. x1' = [k \in Rows |-> IF k \in taken THEN "gone" ELSE x1[k]]
      BY <2>1
  <2>3. /\ x2' = [s \in Image!Records |-> IF s \in Shots THEN Image!NoRecord ELSE x2[s]]
        /\ UNCHANGED <<x4, x5, x6>> /\ x3 = {} /\ x3' = {"ride"}
      BY <1>1 DEF Image!DeleteRide
  <2>4. /\ x2' \in [Image!Records -> [key : KeyOrNone, due : BOOLEAN]]
        /\ \A s \in Image!Records : x2'[s] = x2[s] \/ x2'[s] = Image!NoRecord
      BY <1>t, <2>3, NoKeyIsNone
  <2>5. ASSUME NEW k \in taken
        PROVE  /\ \A s \in Image!Records : x2'[s].key # k
               /\ \A u \in Actors : x5[u].stage = "stored" => x5[u].new # k
    <3>1. PICK r \in Shots : x2[r].key = k
        OBVIOUS
    <3>2. r \in Image!Records /\ k # Image!NoKey
        BY NoKeyIsNone DEF Image!Records
    <3>3. \A s \in Image!Records \ Shots : x2[s].key # k
        BY <3>1, <3>2 DEF ImagesInv, RowsApart
    <3> QED
        BY <2>3, <3>1, <3>2, <3>3, NoKeyIsNone DEF ImagesInv, PendingIsOwn
  <2> HIDE DEF taken, shown
  <2> QED
      BY <2>2, <2>3, <2>4, <2>5, RowsGo
<1>2. CASE Image!DeleteAccount
  <2>1. /\ x2' = [s \in Image!Records |-> Image!NoRecord] /\ x3' = x3 \cup {"account"}
        /\ UNCHANGED <<x1, x4, x5, x6>>
      BY <1>2 DEF Image!DeleteAccount
  <2>2. /\ x2' \in [Image!Records -> [key : KeyOrNone, due : BOOLEAN]]
        /\ \A s \in Image!Records : x2'[s] = Image!NoRecord /\ x2'[s].key = Image!NoKey
      BY <2>1, NoKeyIsNone
  <2> HIDE DEF none
  <2> QED
      BY <1>0, <1>t, <2>1, <2>2, RowsGo
<1>3. CASE Image!CommitDue
  <2>1. PICK done \in SUBSET {c \in x4 : x1[c[2]] = "gone"} :
            x2' = [s \in Image!Records |-> IF \E c \in done : c[1] = s THEN Image!NoRecord ELSE x2[s]]
      BY <1>3 DEF Image!CommitDue
  <2>2. x4' = {} /\ UNCHANGED <<x1, x3, x5, x6>>
      BY <1>3 DEF Image!CommitDue
  <2>3. /\ x2' \in [Image!Records -> [key : KeyOrNone, due : BOOLEAN]]
        /\ \A s \in Image!Records : x2'[s] = x2[s] \/ x2'[s] = Image!NoRecord
      BY <1>t, <2>1, NoKeyIsNone
  <2>4. "account" \in x3' => \A s \in Image!Records : x2'[s].key = Image!NoKey
      BY <2>2, <2>3, NoKeyIsNone DEF ImagesInv, RowsApart
  <2> HIDE DEF none
  <2> QED
      BY <1>0, <1>t, <2>2, <2>3, <2>4, RowsGo
<1> QED
    BY <1>1, <1>2, <1>3

LEMMA RowIsDue ==
    ASSUME ImagesInv, NEW s \in Image!Records, Image!RetentionDue(s)
    PROVE  ImagesInv'
<1>t. /\ x1 \in [Rows -> {"unused", "young", "old", "gone"}]
      /\ x2 \in [Image!Records -> [key : KeyOrNone, due : BOOLEAN]] /\ x3 \subseteq {"ride", "account"}
    BY DEF ImagesInv, ImagesTyped
<1> DEFINE none == {}
           made == [x2[s] EXCEPT !.due = TRUE]
<1>0. x1 = [k \in Rows |-> IF k \in none THEN "gone" ELSE x1[k]] /\ \A k \in none : FALSE
    BY <1>t
<1>1. x2' = [x2 EXCEPT ![s] = made] /\ x2[s].key # Image!NoKey /\ UNCHANGED <<x1, x3, x4, x5, x6>>
    BY DEF Image!RetentionDue
<1>2. made \in [key : KeyOrNone, due : BOOLEAN] /\ made.key = x2[s].key /\ made.due = TRUE
    BY <1>t
<1> HIDE DEF made
<1>3. /\ x2' \in [Image!Records -> [key : KeyOrNone, due : BOOLEAN]] /\ x2'[s] = made
      /\ \A r \in Image!Records : r # s => x2'[r] = x2[r]
    BY <1>t, <1>1, <1>2
<1>4. \A r \in Image!Records :
          \/ x2'[r] = x2[r]
          \/ x2'[r].key = x2[r].key /\ x2[r].key # Image!NoKey /\ x2'[r].due = TRUE
    BY <1>1, <1>2, <1>3
<1>5. "account" \in x3' => \A r \in Image!Records : x2'[r].key = Image!NoKey
    BY <1>1, <1>4 DEF ImagesInv, RowsApart
<1> HIDE DEF none
<1> QED
    BY <1>0, <1>t, <1>1, <1>3, <1>4, <1>5, RowsGo

LEMMA DueIsFound ==
    ASSUME ImagesInv, Image!FindDue
    PROVE  ImagesInv'
<1>t. ImagesTyped
    BY DEF ImagesInv
<1>1. /\ x4' = {<<s, x2[s].key>> : s \in {r \in Image!Records : x2[r].due}}
      /\ UNCHANGED <<x1, x2, x3, x5, x6>>
    BY DEF Image!FindDue
<1>2. \A c \in x4' : \E s \in Image!Records : c = <<s, x2[s].key>> /\ x2[s].due /\ x2[s].key \in Rows
    BY <1>t, <1>1 DEF ImagesInv, ImagesTyped, RowsApart, KeyOrNone
<1>3. ImagesTyped'
    BY <1>t, <1>1, <1>2 DEF ImagesTyped, UploadRow, KeyOrNone, Image!Records, Image!NoKey
<1>4. UnusedIsUnknown'
    BY <1>1, <1>2 DEF ImagesInv, UnusedIsUnknown, Image!Records
<1>5. RowsApart' /\ UploadsApart'
    BY <1>1 DEF ImagesInv, RowsApart, UploadsApart, Image!Records, Image!NoKey, Image!NoUpload
<1>6. PendingIsOwn'
    BY <1>1, <1>2 DEF ImagesInv, PendingIsOwn, Image!Records
<1>7. SupersededIsOwn'
    BY <1>1 DEF ImagesInv, SupersededIsOwn, Image!Records, Image!NoKey
<1>8. TakenIsNotNeeded'
  <2>1. \A c \in x4' : \A s \in Image!Records : x2[s].key = c[2] => x2[s].due
    <3> SUFFICES ASSUME NEW c \in x4', NEW s \in Image!Records, x2[s].key = c[2] PROVE x2[s].due
        OBVIOUS
    <3>1. PICK r \in Image!Records : c = <<r, x2[r].key>> /\ x2[r].due /\ x2[r].key \in Rows
        BY <1>2
    <3> QED
        BY <3>1, NoKeyIsNone DEF ImagesInv, RowsApart
  <2> QED
      BY <1>1, <2>1 DEF ImagesInv, TakenIsNotNeeded, Image!Records
<1>9. RowsImage'
    BY <1>1 DEF ImagesInv, RowsImage, Image!Records, Image!NoKey
<1> QED
    BY <1>3, <1>4, <1>5, <1>6, <1>7, <1>8, <1>9 DEF ImagesInv

LEMMA ObjectAges ==
    ASSUME ImagesInv, NEW k \in Rows, Image!Age(k)
    PROVE  ImagesInv'
<1>t. ImagesTyped
    BY DEF ImagesInv
<1>1. /\ x1[k] = "young" /\ x1' = [x1 EXCEPT ![k] = "old"] /\ UNCHANGED <<x2, x3, x4, x5, x6>>
      /\ \A u \in Actors : x5[u].new # k
    BY DEF Image!Age
<1>2. /\ x1' \in [Rows -> {"unused", "young", "old", "gone"}] /\ x1'[k] = "old"
      /\ \A j \in Rows : j # k => x1'[j] = x1[j]
    BY <1>t, <1>1 DEF ImagesTyped
<1>3. ImagesTyped'
    BY <1>t, <1>1, <1>2 DEF ImagesTyped, UploadRow, KeyOrNone, Image!Records, Image!NoKey
<1>4. UnusedIsUnknown'
    BY <1>1, <1>2 DEF ImagesInv, UnusedIsUnknown, Image!Records
<1>5. RowsApart' /\ UploadsApart'
    BY <1>1 DEF ImagesInv, RowsApart, UploadsApart, Image!Records, Image!NoKey, Image!NoUpload
<1>6. PendingIsOwn'
    BY <1>1, <1>2 DEF ImagesInv, UploadsApart, PendingIsOwn, Image!Records
<1>7. SupersededIsOwn'
    BY <1>1 DEF ImagesInv, SupersededIsOwn, Image!Records, Image!NoKey
<1>8. TakenIsNotNeeded'
    BY <1>t, <1>1, <1>2 DEF ImagesInv, ImagesTyped, TakenIsNotNeeded, Image!Records
<1>9. RowsImage'
    BY <1>t, <1>1, <1>2 DEF ImagesInv, ImagesTyped, RowsImage, Image!Records, Image!NoKey, KeyOrNone
<1> QED
    BY <1>3, <1>4, <1>5, <1>6, <1>7, <1>8, <1>9 DEF ImagesInv

LEMMA SweepGoesOn ==
    ASSUME ImagesInv, Image!List \/ Image!ReadReferences
    PROVE  ImagesInv'
<1>t. ImagesTyped
    BY DEF ImagesInv
<1>1. UNCHANGED <<x1, x2, x3, x4, x5>>
    BY DEF Image!List, Image!ReadReferences
<1>2. /\ x6' \in [stage : {"idle", "listed", "read"}, listed : SUBSET Rows, orphans : SUBSET Rows]
      /\ \A k \in x6'.orphans : x1[k] \in {"old", "gone"} /\ (x1[k] = "old" \/ k \in x6.orphans)
      /\ x6'.stage = "read" => \A s \in Image!Records : x2[s].key \notin x6'.orphans
  <2>1. CASE Image!List
    <3> DEFINE old == {k \in Image!Stored : Image!PastGrace(k)}
    <3>1. x6' = [stage |-> "listed", listed |-> Image!Stored, orphans |-> old]
        BY <2>1 DEF Image!List
    <3>2. Image!Stored \subseteq Rows /\ old \subseteq Rows /\ \A k \in old : x1[k] = "old"
        BY DEF Image!Stored, Image!PastGrace
    <3> HIDE DEF old
    <3> QED
        BY <3>1, <3>2
  <2>2. CASE Image!ReadReferences
    <3> DEFINE left == x6.orphans \ Image!Named
               made == [[x6 EXCEPT !.stage = "read"] EXCEPT !.orphans = left]
    <3>1. x6' = made
        BY <1>t, <2>2 DEF Image!ReadReferences, ImagesTyped
    <3>2. left \subseteq x6.orphans /\ left \subseteq Rows
        BY <1>t DEF ImagesTyped
    <3>3. \A s \in Image!Records : x2[s].key \notin left
        BY <3>2, NoKeyIsNone DEF Image!Named
    <3> HIDE DEF left
    <3>4. /\ made \in [stage : {"idle", "listed", "read"}, listed : SUBSET Rows, orphans : SUBSET Rows]
          /\ made.orphans = left
        BY <1>t, <3>2 DEF ImagesTyped
    <3> HIDE DEF made
    <3> QED
        BY <3>1, <3>2, <3>3, <3>4 DEF ImagesInv, TakenIsNotNeeded
  <2> QED
      BY <2>1, <2>2
<1>3. ImagesTyped'
    BY <1>t, <1>1, <1>2 DEF ImagesTyped, UploadRow, KeyOrNone, Image!Records, Image!NoKey
<1>4. UnusedIsUnknown'
    BY <1>1, <1>2 DEF ImagesInv, UnusedIsUnknown, Image!Records
<1>5. RowsApart' /\ UploadsApart'
    BY <1>1 DEF ImagesInv, RowsApart, UploadsApart, Image!Records, Image!NoKey, Image!NoUpload
<1>6. PendingIsOwn'
  <2> SUFFICES ASSUME NEW u \in Actors, x5[u].stage \in {"stored", "failed"}, x5[u].new \in x6'.orphans
               PROVE  FALSE
      BY <1>1 DEF ImagesInv, PendingIsOwn, Image!Records
  <2>1. x1[x5[u].new] = "old"
      BY <1>2 DEF ImagesInv, PendingIsOwn
  <2> QED
      BY <2>1 DEF ImagesInv, PendingIsOwn
<1>7. SupersededIsOwn'
    BY <1>1 DEF ImagesInv, SupersededIsOwn, Image!Records, Image!NoKey
<1>8. TakenIsNotNeeded'
    BY <1>1, <1>2 DEF ImagesInv, TakenIsNotNeeded, Image!Records
<1>9. RowsImage'
    BY <1>1 DEF ImagesInv, RowsImage, Image!Records, Image!NoKey
<1> QED
    BY <1>3, <1>4, <1>5, <1>6, <1>7, <1>8, <1>9 DEF ImagesInv

LEMMA ImagesStep ==
    ASSUME ImagesInv, Image!ImagesNext
    PROVE  ImagesInv'
<1>1. ASSUME NEW u \in Actors, Image!InsertRow(u) \/ Image!LocatePhoto(u)
      PROVE  ImagesInv'
  <2>1. CASE Image!InsertRow(u) /\ Image!Kept(x5[u].record)
      BY <2>1, RowIsInserted
  <2>2. CASE Image!InsertRow(u) /\ ~Image!Kept(x5[u].record)
    <3>1. /\ x5[u].stage = "stored" /\ UNCHANGED <<x1, x2, x3, x4, x6>>
          /\ x5' = [x5 EXCEPT ![u] = [stage |-> "failed", record |-> x5[u].record, old |-> x5[u].old,
                                      new |-> x5[u].new]]
        BY <2>2 DEF Image!InsertRow, Image!Upload
    <3> QED
        BY <3>1, UploadFails
  <2>3. CASE Image!LocatePhoto(u)
    <3>1. /\ x5[u].stage = "stored" /\ UNCHANGED <<x1, x2, x3, x4, x6>>
          /\ x5' = [x5 EXCEPT ![u] = [stage |-> "failed", record |-> x5[u].record, old |-> Image!NoKey,
                                      new |-> x5[u].new]]
        BY <2>3 DEF Image!LocatePhoto, Image!Upload
    <3> QED
        BY <3>1, UploadFails
  <2> QED
      BY <1>1, <2>1, <2>2, <2>3
<1>2. CASE \E u \in Actors, s \in Image!Records :
               Image!ReadPhotos(u, s) \/ Image!ReadShot(u, s) \/ Image!ReadForm(u, s)
    BY <1>2, UploadReads
<1>3. CASE \E u \in Actors, k \in Rows : Image!Put(u, k)
    BY <1>3, ObjectIsPut
<1>4. CASE \E u \in Actors : \/ Image!InsertRow(u) \/ Image!LocatePhoto(u)
                             \/ Image!CleanUp(u) \/ Image!DropSuperseded(u) \/ Image!UploadDies(u)
    BY <1>1, <1>4, UploadEnds
<1>5. CASE Image!DeleteRide \/ Image!DeleteAccount \/ Image!CommitDue
    BY <1>5, RowsDeleted
<1>6. CASE \/ Image!PurgeAccount \/ Image!DeleteOrphans
           \/ \E s \in Image!Records, k \in Rows : Image!DeleteDue(s, k)
    BY <1>6, ObjectsTaken
<1>7. CASE \E s \in Image!Records : Image!RetentionDue(s)
    BY <1>7, RowIsDue
<1>8. CASE Image!FindDue \/ (\E k \in Rows : Image!Age(k)) \/ Image!List \/ Image!ReadReferences
    BY <1>8, DueIsFound, ObjectAges, SweepGoesOn
<1> QED
    BY <1>2, <1>3, <1>4, <1>5, <1>6, <1>7, <1>8 DEF Image!ImagesNext


-----------------------------------------------------------------------------
(* Off-feed rides.  x1 is offRide, x2 track and x3 appending. *)

OffRideRow == [status : {"none", "active", "completed", "expired"}, start : Nat, end : Nat,
               distance : Ride!Distance, overtaken : BOOLEAN]

AppendRow == {Ride!Idle}
             \cup [stage : {"checked"}, ride : OffRides, fix : Ride!Fix, overtaken : BOOLEAN]
             \cup [stage : {"measured"}, ride : OffRides, fix : Ride!Fix, overtaken : BOOLEAN,
                   distance : Ride!Distance]

Appending(a) == x3[a].stage \in {"checked", "measured"}
On(r) == {a \in Actors : Appending(a) /\ x3[a].ride = r}

\* The ride's row says how long its track is.
WholeRide(ride, fixes) ==
    LET path == Ride!WholePath(ride, fixes)
        m    == Ride!Measured(path, fixes # <<>>)
    IN ride.status # "none" /\ ~ride.overtaken /\ ride.distance.source # "client" =>
          /\ ride.distance.m = (IF m > DistanceCap THEN DistanceCap ELSE m)
          /\ (ride.distance.source = "waypoints_partial") = (fixes # <<>> /\ Ride!Long(path) # {})

RideFits(r) == /\ x1[r].status = "none" => x2[r] = <<>>
               /\ Len(x2[r]) + Cardinality(On(r)) <= MaxFixes
               /\ WholeRide(x1[r], x2[r])

\* A request that nothing was committed in front of holds the distance of the track with
\* its fix, of a ride that has not ended.
AppendFits(a) ==
    /\ Appending(a) /\ ~x3[a].overtaken => x1[x3[a].ride].status # "completed"
    /\ x3[a].stage = "measured" =>
           /\ x1[x3[a].ride].status # "none"
           /\ x3[a].overtaken
              \/ x3[a].distance = Ride!SoFar(x1[x3[a].ride].start, Ride!With(x2[x3[a].ride], x3[a].fix))

OffRidesInv ==
    /\ x1 \in [OffRides -> OffRideRow]
    /\ x2 \in [OffRides -> Seq(Ride!Fix)]
    /\ x3 \in [Actors -> AppendRow]
    /\ \A r \in OffRides : RideFits(r)
    /\ \A a \in Actors : AppendFits(a)

LEMMA RideCardinality == \A S : Ride!Cardinality(S) = Cardinality(S)
BY DEF Ride!Cardinality, Cardinality

LEMMA PathFits ==
    ASSUME NEW start \in Nat, NEW fixes \in Seq(Ride!Fix)
    PROVE  LET path == Ride!Path(start, fixes)
           IN path \in Seq(Nat) /\ Len(path) = Len(fixes) + 1
<1> DEFINE places == Ride!Positions(fixes)
<1>1. \A i \in 1 .. Len(fixes) : fixes[i].pos \in Nat
  <2>1. Places \subseteq Nat
      BY DataAssumption
  <2>2. \A i \in 1 .. Len(fixes) : fixes[i] \in Ride!Fix
      OBVIOUS
  <2> QED
      BY <2>1, <2>2 DEF Ride!Fix
<1>2. places \in Seq(Nat) /\ Len(places) = Len(fixes)
    BY <1>1 DEF Ride!Positions
<1> HIDE DEF places
<1>3. Ride!Path(start, fixes) = <<start>> \o places
    BY DEF Ride!Path, places
<1> QED
    BY <1>2, <1>3

\* Each leg that counts is added to what was gone before it.
LEMMA GoneAlong ==
    ASSUME NEW path \in Seq(Nat), Len(path) >= 1, NEW legs
    PROVE  /\ Ride!Gone(path, legs) \in [1 .. Len(path) -> Nat]
           /\ Ride!Gone(path, legs)[1] = 0
           /\ \A n \in 2 .. Len(path) :
                 Ride!Gone(path, legs)[n] = Ride!Gone(path, legs)[n - 1]
                     + IF n - 1 \in legs THEN Ride!Leg(path[n - 1], path[n]) ELSE 0
<1> DEFINE Add(n) == IF n - 1 \in legs THEN Ride!Leg(path[n - 1], path[n]) ELSE 0
           N == Len(path) - 1
           step == [n \in 1 .. N |-> [m \in Nat |-> m + Add(n + 1)]]
           Goes(f) == f = [n \in 1 .. Len(path) |-> IF n = 1 THEN 0 ELSE f[n - 1] + Add(n)]
           gone == CHOOSE f : Goes(f)
<1>1. \A n \in 2 .. Len(path) : Add(n) \in Nat
    BY DEF Ride!Leg
<1>2. N \in Nat /\ 0 \in Nat
    OBVIOUS
<1> HIDE DEF Add
<1>3. \A n \in 1 .. N : n + 1 \in 2 .. Len(path) /\ Add(n + 1) \in Nat
    BY <1>1
<1>4. step \in [1 .. N -> [Nat -> Nat]]
    BY <1>3
<1>5. \A n \in 1 .. N : \A m \in Nat : step[n][m] = m + Add(n + 1)
    OBVIOUS
<1> HIDE DEF N, step
<1>6. PICK f \in [0 .. N -> Nat] : f[0] = 0 /\ \A n \in 1 .. N : f[n] = step[n][f[n - 1]]
  <2>1. \E f \in [0 .. N -> Nat] : Recurs(f, N, 0, step)
      BY <1>2, <1>4, Recursed
  <2> QED
      BY <2>1 DEF Recurs
<1> USE DEF N
<1> DEFINE g == [n \in 1 .. Len(path) |-> f[n - 1]]
<1>g. \A n \in 1 .. Len(path) : g[n] = f[n - 1]
    OBVIOUS
<1> HIDE DEF g
<1>7. g[1] = 0 /\ \A n \in 2 .. Len(path) : g[n] = g[n - 1] + Add(n)
  <2>1. ASSUME NEW n \in 2 .. Len(path) PROVE g[n] = g[n - 1] + Add(n)
    <3>1. n - 1 \in 1 .. N /\ n - 2 \in 0 .. N /\ (n - 1) + 1 = n /\ (n - 1) - 1 = n - 2
        OBVIOUS
    <3>2. f[n - 1] = step[n - 1][f[n - 2]] /\ f[n - 2] \in Nat
        BY <1>6, <3>1
    <3>3. f[n - 1] = f[n - 2] + Add(n)
        BY <1>5, <3>1, <3>2
    <3>4. g[n] = f[n - 1] /\ g[n - 1] = f[n - 2]
        BY <1>g, <3>1
    <3> QED
        BY <3>3, <3>4
  <2>2. g[1] = 0
      BY <1>6, <1>g
  <2> QED
      BY <2>1, <2>2
<1>8. Goes(g)
  <2>1. ASSUME NEW n \in 1 .. Len(path) PROVE g[n] = IF n = 1 THEN 0 ELSE g[n - 1] + Add(n)
    <3>1. n = 1 \/ n \in 2 .. Len(path)
        OBVIOUS
    <3> QED
        BY <1>7, <3>1
  <2>2. g = [n \in 1 .. Len(path) |-> g[n]]
      BY DEF g
  <2> QED
      BY <2>1, <2>2
<1>9. Goes(gone)
  <2> HIDE DEF Goes, g
  <2> QED
      BY <1>8
<1> HIDE DEF g, gone
<1>10. gone = [n \in 1 .. Len(path) |-> IF n = 1 THEN 0 ELSE gone[n - 1] + Add(n)]
    BY <1>9
<1>11. \A n \in 0 .. N : gone[n + 1] \in Nat
  <2> DEFINE good == {n \in 0 .. N : gone[n + 1] \in Nat}
  <2>1. 0 \in good
      BY <1>10
  <2>2. ASSUME NEW n \in 1 .. N, n - 1 \in good PROVE n \in good
    <3>1. gone[n + 1] = gone[n] + Add(n + 1)
        BY <1>10
    <3>2. gone[n] \in Nat
        BY <2>2
    <3> QED
        BY <1>3, <3>1, <3>2
  <2> HIDE DEF good
  <2>3. \A n \in 1 .. N : n - 1 \in good => n \in good
      BY <2>2
  <2>4. \A n \in 0 .. N : n \in good
      BY <1>2, <2>1, <2>3, CountingUp
  <2> QED
      BY <2>4 DEF good
<1>12. \A n \in 1 .. Len(path) : gone[n] \in Nat
  <2> SUFFICES ASSUME NEW n \in 1 .. Len(path) PROVE gone[n] \in Nat
      OBVIOUS
  <2>1. n - 1 \in 0 .. N /\ (n - 1) + 1 = n
      OBVIOUS
  <2> QED
      BY <1>11, <2>1
<1>13. Ride!Gone(path, legs) = gone
    BY DEF Ride!Gone, gone, Goes, Add
<1>14. gone \in [1 .. Len(path) -> Nat] /\ gone[1] = 0
    BY <1>10, <1>12
<1>15. \A n \in 2 .. Len(path) : gone[n] = gone[n - 1] + Add(n)
  <2> SUFFICES ASSUME NEW n \in 2 .. Len(path) PROVE gone[n] = gone[n - 1] + Add(n)
      OBVIOUS
  <2>1. n \in 1 .. Len(path) /\ n # 1
      OBVIOUS
  <2> QED
      BY <1>10, <2>1
<1> QED
    BY <1>13, <1>14, <1>15 DEF Add

\* Paths that agree as far as the shorter, in their positions and the legs that count, have
\* gone as far there.
LEMMA GoneAgrees ==
    ASSUME NEW path \in Seq(Nat), NEW longer \in Seq(Nat), NEW legs, NEW more,
           Len(path) >= 1, Len(longer) >= Len(path),
           \A n \in 1 .. Len(path) : longer[n] = path[n],
           \A n \in 1 .. Len(path) - 1 : n \in more <=> n \in legs
    PROVE  Ride!Gone(longer, more)[Len(path)] = Ride!Gone(path, legs)[Len(path)]
<1> DEFINE short == Ride!Gone(path, legs)
           long  == Ride!Gone(longer, more)
           N     == Len(path) - 1
           good  == {n \in 0 .. N : long[n + 1] = short[n + 1]}
<1>1. /\ short \in [1 .. Len(path) -> Nat] /\ short[1] = 0
      /\ \A n \in 2 .. Len(path) :
            short[n] = short[n - 1] + IF n - 1 \in legs THEN Ride!Leg(path[n - 1], path[n]) ELSE 0
    BY GoneAlong
<1>2. /\ long \in [1 .. Len(longer) -> Nat] /\ long[1] = 0
      /\ \A n \in 2 .. Len(longer) :
            long[n] = long[n - 1] + IF n - 1 \in more THEN Ride!Leg(longer[n - 1], longer[n]) ELSE 0
  <2>1. Len(longer) >= 1
      OBVIOUS
  <2> HIDE DEF long
  <2> QED
      BY <2>1, GoneAlong DEF long
<1> HIDE DEF short, long
<1>3. N \in Nat /\ 0 \in good
    BY <1>1, <1>2
<1>4. ASSUME NEW n \in 1 .. N, n - 1 \in good PROVE n \in good
  <2>1. n + 1 \in 2 .. Len(path) /\ n + 1 \in 2 .. Len(longer) /\ n \in 1 .. Len(path) - 1 /\ (n + 1) - 1 = n
      OBVIOUS
  <2>2. long[n] = short[n]
      BY <1>4
  <2>3. short[n + 1] = short[n] + IF n \in legs THEN Ride!Leg(path[n], path[n + 1]) ELSE 0
      BY <1>1, <2>1
  <2>4. long[n + 1] = long[n] + IF n \in more THEN Ride!Leg(longer[n], longer[n + 1]) ELSE 0
      BY <1>2, <2>1
  <2>5. longer[n] = path[n] /\ longer[n + 1] = path[n + 1]
    <3>1. n \in 1 .. Len(path) /\ n + 1 \in 1 .. Len(path)
        BY <2>1
    <3> QED
        BY <3>1
  <2>6. n \in more <=> n \in legs
      BY <2>1
  <2> QED
      BY <2>2, <2>3, <2>4, <2>5, <2>6
<1> HIDE DEF good, N
<1>5. \A n \in 0 .. N : n \in good
    BY <1>3, <1>4, CountingUp
<1> USE DEF N
<1>6. N \in good /\ N + 1 = Len(path)
    BY <1>3, <1>5
<1> QED
    BY <1>6 DEF good, short, long

LEMMA MeasuredInNat ==
    ASSUME NEW path \in Seq(Nat), Len(path) >= 1, NEW capLegs
    PROVE  Ride!Measured(path, capLegs) \in Nat
<1> DEFINE legs == IF capLegs THEN Ride!Steps(path) \ Ride!Long(path) ELSE Ride!Steps(path)
<1>1. Ride!Measured(path, capLegs) = Ride!Gone(path, legs)[Len(path)]
    BY DEF Ride!Measured, Ride!Length
<1> HIDE DEF legs
<1>2. Ride!Gone(path, legs) \in [1 .. Len(path) -> Nat]
    BY GoneAlong
<1> QED
    BY <1>1, <1>2

\* A last leg that is not believed adds nothing.
LEMMA LastLegLeftOut ==
    ASSUME NEW path \in Seq(Nat), Len(path) >= 1, NEW end \in Nat,
           ~Ride!Plausible(path[Len(path)], end)
    PROVE  /\ Ride!Measured(Append(path, end), TRUE) = Ride!Measured(path, TRUE)
           /\ Ride!Long(Append(path, end)) # {}
<1> DEFINE longer == Append(path, end)
           N    == Len(path)
           legs == Ride!Steps(path) \ Ride!Long(path)
           more == Ride!Steps(longer) \ Ride!Long(longer)
<1>1. /\ longer \in Seq(Nat) /\ Len(longer) = N + 1 /\ longer[N + 1] = end
      /\ \A n \in 1 .. N : longer[n] = path[n]
    OBVIOUS
<1> HIDE DEF longer
<1>2. N \in Ride!Long(longer)
    BY <1>1 DEF Ride!Long, Ride!Steps
<1>3. \A n \in 1 .. N - 1 : n \in more <=> n \in legs
    BY <1>1 DEF Ride!Long, Ride!Steps
<1>4. N + 1 \in 2 .. Len(longer) /\ N \notin more
    BY <1>1, <1>2
<1> HIDE DEF legs, more
<1>5. Ride!Gone(longer, more)[N] = Ride!Gone(path, legs)[N]
    BY <1>1, <1>3, GoneAgrees
<1>6. /\ Ride!Gone(longer, more) \in [1 .. Len(longer) -> Nat]
      /\ \A n \in 2 .. Len(longer) :
            Ride!Gone(longer, more)[n] = Ride!Gone(longer, more)[n - 1]
                + IF n - 1 \in more THEN Ride!Leg(longer[n - 1], longer[n]) ELSE 0
    BY <1>1, GoneAlong
<1>7. Ride!Gone(longer, more)[N + 1] = Ride!Gone(longer, more)[N]
  <2>1. (N + 1) - 1 = N /\ N + 1 \in 1 .. Len(longer) /\ N \in 1 .. Len(longer)
      BY <1>1
  <2>2. Ride!Gone(longer, more)[N + 1] = Ride!Gone(longer, more)[N] + 0
      BY <1>4, <1>6, <2>1
  <2>3. Ride!Gone(longer, more)[N] \in Nat
      BY <1>6, <2>1
  <2> QED
      BY <2>2, <2>3
<1>8. /\ Ride!Measured(longer, TRUE) = Ride!Gone(longer, more)[N + 1]
      /\ Ride!Measured(path, TRUE) = Ride!Gone(path, legs)[N]
    BY <1>1 DEF Ride!Measured, Ride!Length, more, legs
<1> QED
    BY <1>2, <1>5, <1>7, <1>8 DEF longer

LEMMA ClampedIsDistance ==
    ASSUME NEW m \in Nat, NEW source \in {"waypoints", "waypoints_partial", "straight_line"}
    PROVE  /\ Ride!Clamped(m, source) \in Ride!Distance
           /\ Ride!Clamped(m, source).m = (IF m > DistanceCap THEN DistanceCap ELSE m)
           /\ Ride!Clamped(m, source).source = source
<1> DEFINE kept == IF m <= DistanceCap THEN m ELSE DistanceCap
           over == m > DistanceCap
<1>1. kept \in 0 .. DistanceCap /\ over \in BOOLEAN /\ kept = (IF m > DistanceCap THEN DistanceCap ELSE m)
    BY CapsAssumption
<1>2. Ride!Clamped(m, source) = [m |-> kept, source |-> source, clamped |-> over]
    BY DEF Ride!Clamped
<1> HIDE DEF kept, over
<1>3. source \in {"", "client", "waypoints", "waypoints_partial", "straight_line"}
    OBVIOUS
<1>4. [m |-> kept, source |-> source, clamped |-> over] \in Ride!Distance
    BY <1>1, <1>3 DEF Ride!Distance
<1> QED
    BY <1>1, <1>2, <1>4

\* The ride so far is as long as its track.
LEMMA SoFarIsWhole ==
    ASSUME NEW start \in Nat, NEW fixes \in Seq(Ride!Fix)
    PROVE  LET path == Ride!Path(start, fixes)
               m    == Ride!Measured(path, TRUE)
               far  == Ride!SoFar(start, fixes)
           IN /\ far \in Ride!Distance
              /\ far.m = (IF m > DistanceCap THEN DistanceCap ELSE m)
              /\ (far.source = "waypoints_partial") = (Ride!Long(path) # {})
<1> DEFINE path   == Ride!Path(start, fixes)
           m      == Ride!Measured(path, TRUE)
           source == IF Ride!Long(path) = {} THEN "waypoints" ELSE "waypoints_partial"
<1>1. path \in Seq(Nat) /\ Len(path) >= 1
    BY PathFits
<1>2. Ride!SoFar(start, fixes) = Ride!Clamped(m, source)
    BY DEF Ride!SoFar
<1> HIDE DEF path
<1>3. m \in Nat
    BY <1>1, MeasuredInNat
<1>4. source \in {"waypoints", "waypoints_partial", "straight_line"}
    OBVIOUS
<1>5. (source = "waypoints_partial") = (Ride!Long(path) # {})
    OBVIOUS
<1> HIDE DEF m, source
<1>6. /\ Ride!Clamped(m, source) \in Ride!Distance
      /\ Ride!Clamped(m, source).m = (IF m > DistanceCap THEN DistanceCap ELSE m)
      /\ Ride!Clamped(m, source).source = source
    BY <1>3, <1>4, ClampedIsDistance
<1> QED
    BY <1>2, <1>5, <1>6 DEF m, path

\* The ride that has ended is as long as its track with the end, or as its track alone
\* where the end is not believed.
LEMMA CloseOutIsWhole ==
    ASSUME NEW start \in Nat, NEW fixes \in Seq(Ride!Fix), NEW end \in Nat
    PROVE  LET path == Ride!Path(start, fixes) \o <<end>>
               m    == Ride!Measured(path, fixes # <<>>)
               all  == Ride!CloseOut(start, fixes, end)
           IN /\ all \in Ride!Distance
              /\ all.m = (IF m > DistanceCap THEN DistanceCap ELSE m)
              /\ (all.source = "waypoints_partial") = (fixes # <<>> /\ Ride!Long(path) # {})
<1> DEFINE open == Ride!Path(start, fixes)
           ended == Append(open, end)
           unbelieved == fixes # <<>> /\ ~Ride!Plausible(Ride!Last(open), end)
           path == IF unbelieved THEN open ELSE ended
           m    == Ride!Measured(path, fixes # <<>>)
           whole == Ride!Measured(ended, fixes # <<>>)
           source == IF fixes = <<>> THEN "straight_line"
                     ELSE IF unbelieved \/ Ride!Long(path) # {} THEN "waypoints_partial" ELSE "waypoints"
<1>1. open \in Seq(Nat) /\ Len(open) >= 1
    BY PathFits
<1>2. Ride!CloseOut(start, fixes, end) = Ride!Clamped(m, source)
    BY DEF Ride!CloseOut
<1> HIDE DEF open
<1>3. Ride!Last(open) = open[Len(open)]
    BY DEF Ride!Last
<1>4. ended \in Seq(Nat) /\ Len(ended) >= 1 /\ open \o <<end>> = ended
    BY <1>1
<1>5. m = whole
  <2>1. CASE unbelieved
    <3>1. ~Ride!Plausible(open[Len(open)], end) /\ fixes # <<>>
        BY <1>3, <2>1
    <3>2. Ride!Measured(ended, TRUE) = Ride!Measured(open, TRUE)
        BY <1>1, <3>1, LastLegLeftOut
    <3>3. (fixes # <<>>) = TRUE /\ path = open
        BY <2>1
    <3> HIDE DEF ended, path, unbelieved
    <3> QED
        BY <3>2, <3>3
  <2>2. CASE ~unbelieved
      BY <2>2
  <2> QED
      BY <2>1, <2>2
<1>6. (source = "waypoints_partial") = (fixes # <<>> /\ Ride!Long(ended) # {})
  <2>1. CASE unbelieved
    <3>1. ~Ride!Plausible(open[Len(open)], end)
        BY <1>3, <2>1
    <3>2. Ride!Long(ended) # {}
        BY <1>1, <3>1, LastLegLeftOut
    <3> HIDE DEF ended
    <3> QED
        BY <2>1, <3>2
  <2>2. CASE ~unbelieved
    <3> HIDE DEF ended
    <3> QED
        BY <2>2
  <2> QED
      BY <2>1, <2>2
<1>7. source \in {"waypoints", "waypoints_partial", "straight_line"}
    OBVIOUS
<1> HIDE DEF ended, source, m
<1>8. whole \in Nat
    BY <1>4, MeasuredInNat
<1> HIDE DEF whole
<1>9. /\ Ride!Clamped(whole, source) \in Ride!Distance
      /\ Ride!Clamped(whole, source).m = (IF whole > DistanceCap THEN DistanceCap ELSE whole)
      /\ Ride!Clamped(whole, source).source = source
    BY <1>7, <1>8, ClampedIsDistance
<1> QED
    BY <1>2, <1>4, <1>5, <1>6, <1>9 DEF whole, open

\* A fix takes its place among those of the track.
LEMMA WithOneMore ==
    ASSUME NEW fixes \in Seq(Ride!Fix), NEW fix \in Ride!Fix
    PROVE  Ride!With(fixes, fix) \in Seq(Ride!Fix) /\ Len(Ride!With(fixes, fix)) = Len(fixes) + 1
<1> DEFINE before == {i \in DOMAIN fixes : fixes[i].at <= fix.at}
           count  == Cardinality(before)
           all    == 1 .. Len(fixes)
           size   == Len(fixes)
<1>1. size \in Nat /\ before \subseteq all
    OBVIOUS
<1> HIDE DEF before, size
<1>2. IsFiniteSet(all) /\ Cardinality(all) = size
  <2>1. IsFiniteSet(1 .. size) /\ Cardinality(1 .. size) = IF 1 > size THEN 0 ELSE size - 1 + 1
      BY <1>1, FS_Interval
  <2> QED
      BY <1>1, <2>1 DEF size
<1> HIDE DEF all
<1>3. IsFiniteSet(before) /\ count <= size
    BY <1>1, <1>2, FS_Subset
<1>4. count \in Nat
    BY <1>3, FS_CardinalityType
<1> HIDE DEF count
<1>5. Ride!Slot(fixes, fix) = count + 1
    BY RideCardinality DEF Ride!Slot, count, before
<1> DEFINE head == SubSeq(fixes, 1, count)
           tail == SubSeq(fixes, count + 1, Len(fixes))
<1>6. Ride!With(fixes, fix) = head \o <<fix>> \o tail
  <2>1. (count + 1) - 1 = count
      BY <1>4
  <2> QED
      BY <1>5, <2>1 DEF Ride!With, Ride!InsertAt
<1>7. head \in Seq(Ride!Fix) /\ Len(head) = count
    BY <1>3, <1>4 DEF size
<1>8. tail \in Seq(Ride!Fix) /\ Len(tail) = Len(fixes) - count
    BY <1>3, <1>4 DEF size
<1>9. <<fix>> \in Seq(Ride!Fix) /\ Len(<<fix>>) = 1
    OBVIOUS
<1> HIDE DEF head, tail
<1> QED
    BY <1>4, <1>6, <1>7, <1>8

LEMMA OffRidesKept == OffRidesInv => Ride!OffRidesTypeOK /\ Ride!DistanceIsWholeRideUnlessOvertaken
<1> SUFFICES ASSUME OffRidesInv PROVE Ride!OffRidesTypeOK /\ Ride!DistanceIsWholeRideUnlessOvertaken
    OBVIOUS
<1>1. ASSUME NEW r \in OffRides
      PROVE  /\ x1[r].status \in {"none", "active", "completed", "expired"}
             /\ x1[r].distance \in Ride!Distance
             /\ x2[r] \in Seq(Ride!Fix) /\ Len(x2[r]) <= MaxFixes
  <2>1. x1[r] \in OffRideRow /\ x2[r] \in Seq(Ride!Fix) /\ Len(x2[r]) + Cardinality(On(r)) <= MaxFixes
      BY DEF OffRidesInv, RideFits
  <2>2. On(r) \subseteq Actors /\ IsFiniteSet(Actors)
      BY DataAssumption DEF On
  <2>3. Cardinality(On(r)) \in Nat
      BY <2>2, FS_Subset, FS_CardinalityType
  <2>4. Len(x2[r]) <= MaxFixes
      BY <2>1, <2>3, CapsAssumption
  <2> QED
      BY <2>1, <2>4 DEF OffRideRow
<1>2. \A a \in Actors : x3[a].stage \in {"idle", "checked", "measured"}
    BY DEF OffRidesInv, AppendRow, Ride!Idle
<1>3. \A r \in OffRides : WholeRide(x1[r], x2[r])
    BY DEF OffRidesInv, RideFits
<1> QED
    BY <1>1, <1>2, <1>3 DEF Ride!OffRidesTypeOK, Ride!DistanceIsWholeRideUnlessOvertaken, WholeRide

LEMMA OnCounts ==
    ASSUME NEW r
    PROVE  On(r) \subseteq Actors /\ IsFiniteSet(On(r)) /\ Cardinality(On(r)) \in Nat
<1>1. On(r) \subseteq Actors /\ IsFiniteSet(Actors)
    BY DataAssumption DEF On
<1> QED
    BY <1>1, FS_Subset, FS_CardinalityType

\* A ride with no fix that has gone nowhere.
LEMMA NewRideIsWhole ==
    ASSUME NEW ride, ride.start \in Nat, ride.status # "completed", ride.distance.m = 0,
           ride.distance.source # "waypoints_partial"
    PROVE  WholeRide(ride, <<>>)
<1> DEFINE start == ride.start
           fixes == <<>>
           path  == Ride!Path(start, fixes)
<1>1. fixes \in Seq(Ride!Fix) /\ Len(fixes) = 0
    OBVIOUS
<1>n. start \in Nat
    OBVIOUS
<1> HIDE DEF fixes, start
<1>2. path \in Seq(Nat) /\ Len(path) = 1
  <2>1. path \in Seq(Nat) /\ Len(path) = Len(fixes) + 1
      BY <1>1, <1>n, PathFits
  <2> QED
      BY <1>1, <2>1
<1>w. Ride!WholePath(ride, fixes) = path
  <2> HIDE DEF path
  <2>1. path \o <<>> = path
      BY <1>2
  <2> QED
      BY <2>1 DEF Ride!WholePath, path, start
<1> HIDE DEF path
<1>3. Ride!Measured(path, FALSE) = 0
  <2> DEFINE legs == Ride!Steps(path)
  <2>1. Ride!Measured(path, FALSE) = Ride!Gone(path, legs)[Len(path)]
      BY DEF Ride!Measured, Ride!Length
  <2> HIDE DEF legs
  <2>2. Ride!Gone(path, legs)[1] = 0
      BY <1>2, GoneAlong
  <2> QED
      BY <1>2, <2>1, <2>2
<1>4. ~(0 > DistanceCap)
    BY CapsAssumption
<1>5. (fixes # <<>>) = FALSE
    BY DEF fixes
<1>6. WholeRide(ride, fixes)
    BY <1>w, <1>3, <1>4, <1>5 DEF WholeRide
<1> QED
    BY <1>6 DEF fixes

LEMMA NoRideFits ==
    /\ Ride!NoDistance \in Ride!Distance /\ Ride!NoDistance.m = 0
    /\ Ride!NoDistance.source # "waypoints_partial"
    /\ Ride!NoRide \in OffRideRow /\ Ride!NoRide.status = "none"
    /\ Ride!NoRide.distance = Ride!NoDistance
    /\ Ride!Idle \in AppendRow /\ Ride!Idle.stage = "idle"
<1>1. DistanceCap \in Nat /\ 0 \in 0 .. DistanceCap
    BY CapsAssumption
<1>2. /\ Ride!NoDistance \in Ride!Distance /\ Ride!NoDistance.m = 0
      /\ Ride!NoDistance.source # "waypoints_partial"
    BY <1>1 DEF Ride!NoDistance, Ride!Distance
<1>3. /\ Ride!NoRide \in OffRideRow /\ Ride!NoRide.status = "none"
      /\ Ride!NoRide.distance = Ride!NoDistance
    BY <1>2 DEF Ride!NoRide, OffRideRow
<1>4. Ride!Idle \in AppendRow /\ Ride!Idle.stage = "idle"
    BY DEF Ride!Idle, AppendRow
<1> QED
    BY <1>2, <1>3, <1>4

LEMMA InitOffRidesInv == Ride!OffRidesInit => OffRidesInv
<1> SUFFICES ASSUME Ride!OffRidesInit PROVE OffRidesInv
    OBVIOUS
<1>1. /\ x1 = [r \in OffRides |-> Ride!NoRide] /\ x2 = [r \in OffRides |-> <<>>]
      /\ x3 = [a \in Actors |-> Ride!Idle]
    BY DEF Ride!OffRidesInit
<1>2. Ride!NoRide \in OffRideRow /\ Ride!NoRide.status = "none"
    BY NoRideFits
<1>3. Ride!Idle.stage = "idle" /\ Ride!Idle \in AppendRow
    BY NoRideFits
<1>4. <<>> \in Seq(Ride!Fix) /\ Len(<<>>) = 0
    OBVIOUS
<1>5. ASSUME NEW r \in OffRides PROVE RideFits(r)
  <2>1. On(r) = {}
      BY <1>1, <1>3 DEF On, Appending
  <2>2. Cardinality(On(r)) = 0
      BY <2>1, FS_EmptySet
  <2>3. x1[r].status = "none" /\ x2[r] = <<>>
      BY <1>1, <1>2
  <2> QED
      BY <1>4, <2>2, <2>3, CapsAssumption DEF RideFits, WholeRide
<1>6. \A a \in Actors : AppendFits(a)
    BY <1>1, <1>3 DEF AppendFits, Appending
<1> QED
    BY <1>1, <1>2, <1>3, <1>4, <1>5, <1>6 DEF OffRidesInv

\* A ride's row changes, and nothing else.
LEMMA RowChanges ==
    ASSUME OffRidesInv, NEW r \in OffRides, NEW made \in OffRideRow,
           x1' = [x1 EXCEPT ![r] = made], UNCHANGED <<x2, x3>>,
           made.status # "none", WholeRide(made, x2[r]),
           \A a \in On(r) : made.status # "completed" /\ made.start = x1[r].start
    PROVE  OffRidesInv'
<1>1. x1' \in [OffRides -> OffRideRow] /\ x1'[r] = made /\ \A s \in OffRides : s # r => x1'[s] = x1[s]
    BY DEF OffRidesInv
<1>2. ASSUME NEW s \in OffRides PROVE RideFits(s)'
  <2>1. On(s)' = On(s)
      BY DEF On, Appending
  <2>2. RideFits(s)
      BY DEF OffRidesInv
  <2>3. CASE s = r
      BY <1>1, <2>1, <2>2, <2>3 DEF RideFits
  <2>4. CASE s # r
      BY <1>1, <2>1, <2>2, <2>4 DEF RideFits
  <2> QED
      BY <2>3, <2>4
<1>3. ASSUME NEW a \in Actors PROVE AppendFits(a)'
  <2>1. AppendFits(a) /\ x3[a] \in AppendRow
      BY DEF OffRidesInv
  <2>2. CASE Appending(a)
    <3>1. x3[a].ride \in OffRides /\ (x3[a].ride = r => a \in On(r))
        BY <2>1, <2>2 DEF Appending, AppendRow, Ride!Idle, On
    <3>2. \/ x1'[x3[a].ride] = x1[x3[a].ride]
          \/ x3[a].ride = r /\ x1'[r].status \notin {"none", "completed"} /\ x1'[r].start = x1[r].start
        BY <1>1, <3>1
    <3> QED
        BY <2>1, <3>2 DEF AppendFits, Appending
  <2>3. CASE ~Appending(a)
      BY <2>3 DEF AppendFits, Appending
  <2> QED
      BY <2>2, <2>3
<1> QED
    BY <1>1, <1>2, <1>3 DEF OffRidesInv

LEMMA RideStarts ==
    ASSUME OffRidesInv, NEW r \in OffRides, NEW p \in Places, Ride!StartRide(r, p)
    PROVE  OffRidesInv'
<1> DEFINE made == [[Ride!NoRide EXCEPT !.status = "active"] EXCEPT !.start = p]
<1>1. /\ x1' = [x1 EXCEPT ![r] = made] /\ UNCHANGED <<x2, x3>> /\ Ride!Unused(r)
    BY DEF Ride!StartRide
<1>p. p \in Nat
    BY DataAssumption
<1>2. /\ made \in OffRideRow /\ made.status = "active" /\ made.start = p /\ made.distance = Ride!NoDistance
    BY <1>p, NoRideFits DEF OffRideRow
<1> HIDE DEF made
<1>3. On(r) = {} /\ x2[r] = <<>>
  <2>1. On(r) = {}
      BY <1>1 DEF Ride!Unused, Ride!InFlight, On, Appending
  <2> QED
      BY <1>1, <2>1 DEF Ride!Unused, OffRidesInv, RideFits
<1>4. WholeRide(made, x2[r])
  <2>1. /\ made.start \in Nat /\ made.distance.m = 0 /\ made.status # "completed"
        /\ made.distance.source # "waypoints_partial"
      BY <1>p, <1>2, NoRideFits
  <2>2. WholeRide(made, <<>>)
      BY <2>1, NewRideIsWhole
  <2> QED
      BY <1>3, <2>2
<1> QED
    BY <1>1, <1>2, <1>3, <1>4, RowChanges

LEMMA RideIsLogged ==
    ASSUME OffRidesInv, NEW r \in OffRides, NEW m \in 0 .. DistanceCap + 1, NEW route, Ride!LogRide(r, m, route)
    PROVE  OffRidesInv'
<1> DEFINE gone == [[Ride!NoDistance EXCEPT !.m = m] EXCEPT !.source = "client"]
           made == [[Ride!NoRide EXCEPT !.status = "completed"] EXCEPT !.distance = gone]
<1>1. /\ x1' = [x1 EXCEPT ![r] = made] /\ UNCHANGED <<x2, x3>> /\ Ride!Unused(r) /\ m <= DistanceCap
    BY DEF Ride!LogRide
<1>2. gone \in Ride!Distance /\ gone.source = "client"
  <2>1. m \in 0 .. DistanceCap
      BY <1>1, CapsAssumption
  <2> QED
      BY <2>1, NoRideFits DEF Ride!Distance
<1> HIDE DEF gone
<1>3. made \in OffRideRow /\ made.status = "completed" /\ made.distance = gone
    BY <1>2, NoRideFits DEF OffRideRow
<1> HIDE DEF made
<1>4. On(r) = {}
    BY <1>1 DEF Ride!Unused, Ride!InFlight, On, Appending
<1>5. WholeRide(made, x2[r])
    BY <1>2, <1>3 DEF WholeRide
<1> QED
    BY <1>1, <1>3, <1>4, <1>5, RowChanges

LEMMA RideExpires ==
    ASSUME OffRidesInv, NEW r \in OffRides, Ride!ExpireRide(r)
    PROVE  OffRidesInv'
<1> DEFINE made == [x1[r] EXCEPT !.status = "expired"]
<1>1. /\ x1' = [x1 EXCEPT ![r] = made] /\ UNCHANGED <<x2, x3>> /\ x1[r].status = "active"
    BY DEF Ride!ExpireRide
<1>2. x1[r] \in OffRideRow /\ WholeRide(x1[r], x2[r])
    BY DEF OffRidesInv, RideFits
<1>3. /\ made \in OffRideRow /\ made.status = "expired" /\ made.start = x1[r].start
      /\ made.distance = x1[r].distance /\ made.overtaken = x1[r].overtaken
    BY <1>2 DEF OffRideRow
<1> HIDE DEF made
<1>4. Ride!WholePath(made, x2[r]) = Ride!WholePath(x1[r], x2[r])
    BY <1>1, <1>3 DEF Ride!WholePath
<1>5. WholeRide(made, x2[r])
    BY <1>1, <1>2, <1>3, <1>4 DEF WholeRide
<1> QED
    BY <1>1, <1>3, <1>5, RowChanges

LEMMA RidesAreDeleted ==
    ASSUME OffRidesInv, NEW gone \in SUBSET OffRides, Ride!DeleteRides(gone)
    PROVE  OffRidesInv'
<1>1. /\ x1' = [r \in OffRides |-> IF r \in gone THEN Ride!NoRide ELSE x1[r]]
      /\ x2' = [r \in OffRides |-> IF r \in gone THEN <<>> ELSE x2[r]]
      /\ UNCHANGED x3
      /\ \A r \in gone : Ride!Inserted(r) = {}
    BY DEF Ride!DeleteRides
<1>2. <<>> \in Seq(Ride!Fix) /\ Len(<<>>) = 0
    OBVIOUS
<1>3. x1' \in [OffRides -> OffRideRow] /\ x2' \in [OffRides -> Seq(Ride!Fix)]
    BY <1>1, <1>2, NoRideFits DEF OffRidesInv
<1>4. ASSUME NEW r \in OffRides PROVE RideFits(r)'
  <2>1. On(r)' = On(r) /\ RideFits(r)
      BY <1>1 DEF On, Appending, OffRidesInv
  <2>2. CASE r \in gone
    <3>1. x1'[r] = Ride!NoRide /\ x2'[r] = <<>>
        BY <1>1, <2>2
    <3>2. Len(x2'[r]) + Cardinality(On(r)) <= MaxFixes
      <4>1. x2[r] \in Seq(Ride!Fix) /\ Len(x2[r]) + Cardinality(On(r)) <= MaxFixes
          BY <2>1 DEF RideFits, OffRidesInv
      <4>2. Len(x2[r]) \in Nat /\ Len(x2'[r]) = 0
          BY <1>2, <3>1, <4>1
      <4> QED
          BY <4>1, <4>2, OnCounts, CapsAssumption
    <3> QED
        BY <2>1, <3>1, <3>2, NoRideFits DEF RideFits, WholeRide
  <2>3. CASE r \notin gone
      BY <1>1, <2>1, <2>3 DEF RideFits
  <2> QED
      BY <2>2, <2>3
<1>5. ASSUME NEW a \in Actors PROVE AppendFits(a)'
  <2>1. AppendFits(a) /\ x3[a] \in AppendRow
      BY DEF OffRidesInv
  <2>2. CASE Appending(a)
    <3>1. x3[a].ride \in OffRides
        BY <2>1, <2>2 DEF Appending, AppendRow, Ride!Idle
    <3>2. CASE x3[a].ride \in gone
      <4>1. x3[a].stage # "measured"
          BY <1>1, <3>2 DEF Ride!Inserted
      <4>2. x1'[x3[a].ride].status = "none"
          BY <1>1, <3>1, <3>2, NoRideFits
      <4> QED
          BY <1>1, <4>1, <4>2 DEF AppendFits
    <3>3. CASE x3[a].ride \notin gone
      <4>1. x1'[x3[a].ride] = x1[x3[a].ride] /\ x2'[x3[a].ride] = x2[x3[a].ride]
          BY <1>1, <3>1, <3>3
      <4> QED
          BY <1>1, <2>1, <4>1 DEF AppendFits, Appending
    <3> QED
        BY <3>2, <3>3
  <2>3. CASE ~Appending(a)
      BY <1>1, <2>3 DEF AppendFits, Appending
  <2> QED
      BY <2>2, <2>3
<1> QED
    BY <1>1, <1>3, <1>4, <1>5 DEF OffRidesInv

LEMMA FixIsChecked ==
    ASSUME OffRidesInv, NEW a \in Actors, NEW r \in OffRides, NEW fix \in Ride!Fix, Ride!CheckFix(a, r, fix)
    PROVE  OffRidesInv'
<1> DEFINE made == [stage |-> "checked", ride |-> r, fix |-> fix, overtaken |-> FALSE]
<1>1. /\ x3' = [x3 EXCEPT ![a] = made] /\ UNCHANGED <<x1, x2>>
      /\ x3[a].stage = "idle" /\ x1[r].status = "active"
      /\ Len(x2[r]) + Cardinality(Ride!InFlight({"checked", "measured"})) < MaxFixes
    BY RideCardinality DEF Ride!CheckFix
<1>2. made \in AppendRow /\ made.stage = "checked" /\ made.ride = r
    BY DEF AppendRow
<1> HIDE DEF made
<1>3. x3' \in [Actors -> AppendRow] /\ x3'[a] = made /\ \A b \in Actors : b # a => x3'[b] = x3[b]
    BY <1>1, <1>2 DEF OffRidesInv
<1>4. ASSUME NEW s \in OffRides PROVE RideFits(s)'
  <2>1. RideFits(s)
      BY DEF OffRidesInv
  <2>2. CASE s = r
    <3> DEFINE flying == Ride!InFlight({"checked", "measured"})
               on     == On(r)
               more   == On(r)'
    <3>1. on \subseteq flying /\ flying \subseteq Actors /\ IsFiniteSet(Actors)
        BY DataAssumption DEF Ride!InFlight, On, Appending
    <3>2. more = on \cup {a} /\ a \notin on
        BY <1>1, <1>2, <1>3 DEF On, Appending
    <3>3. x2[r] \in Seq(Ride!Fix)
        BY DEF OffRidesInv
    <3> HIDE DEF flying, on, more
    <3>4. IsFiniteSet(flying)
        BY <3>1, FS_Subset
    <3>5. /\ IsFiniteSet(on) /\ Cardinality(on) <= Cardinality(flying)
        BY <3>1, <3>4, FS_Subset
    <3>6. Cardinality(more) = Cardinality(on) + 1 /\ Cardinality(on) \in Nat /\ Cardinality(flying) \in Nat
        BY <3>2, <3>4, <3>5, FS_AddElement, FS_CardinalityType
    <3>7. Len(x2[r]) \in Nat /\ Len(x2[r]) + Cardinality(flying) < MaxFixes
        BY <1>1, <3>3 DEF flying
    <3>8. Len(x2[r]) + Cardinality(more) <= MaxFixes
        BY <3>5, <3>6, <3>7, CapsAssumption
    <3> QED
        BY <1>1, <2>1, <2>2, <3>8 DEF RideFits, more
  <2>3. CASE s # r
    <3>1. On(s)' = On(s)
        BY <1>1, <1>2, <1>3, <2>3 DEF On, Appending
    <3> QED
        BY <1>1, <2>1, <3>1 DEF RideFits
  <2> QED
      BY <2>2, <2>3
<1>5. ASSUME NEW b \in Actors PROVE AppendFits(b)'
  <2>1. CASE b = a
      BY <1>1, <1>2, <1>3, <2>1 DEF AppendFits
  <2>2. CASE b # a
      BY <1>1, <1>3, <2>2 DEF AppendFits, Appending, OffRidesInv
  <2> QED
      BY <2>1, <2>2
<1> QED
    BY <1>1, <1>3, <1>4, <1>5 DEF OffRidesInv

LEMMA FixIsInserted ==
    ASSUME OffRidesInv, NEW a \in Actors, Ride!InsertFix(a)
    PROVE  OffRidesInv'
<1> DEFINE r    == x3[a].ride
           far  == Ride!SoFar(x1[r].start, Ride!With(x2[r], x3[a].fix))
           made == [stage |-> "measured", ride |-> r, fix |-> x3[a].fix, overtaken |-> x3[a].overtaken,
                    distance |-> far]
           next == IF x1[r].status = "none" THEN Ride!Idle ELSE made
<1>1. x3' = [x3 EXCEPT ![a] = next] /\ UNCHANGED <<x1, x2>> /\ x3[a].stage = "checked"
    BY DEF Ride!InsertFix
<1>2. /\ r \in OffRides /\ x3[a].fix \in Ride!Fix /\ x3[a].overtaken \in BOOLEAN
      /\ x1[r] \in OffRideRow /\ x2[r] \in Seq(Ride!Fix)
  <2>1. x3[a] \in AppendRow
      BY DEF OffRidesInv
  <2>2. r \in OffRides /\ x3[a].fix \in Ride!Fix /\ x3[a].overtaken \in BOOLEAN
      BY <1>1, <2>1 DEF AppendRow, Ride!Idle
  <2> QED
      BY <2>2 DEF OffRidesInv
<1>3. far \in Ride!Distance
  <2> DEFINE fixes == Ride!With(x2[r], x3[a].fix)
             start == x1[r].start
  <2>1. fixes \in Seq(Ride!Fix) /\ start \in Nat
      BY <1>2, WithOneMore DEF OffRideRow
  <2> HIDE DEF fixes, start
  <2>2. Ride!SoFar(start, fixes) \in Ride!Distance
      BY <2>1, SoFarIsWhole
  <2> QED
      BY <2>2 DEF fixes, start
<1> HIDE DEF r, far
<1>4. /\ made \in AppendRow /\ made.stage = "measured" /\ made.ride = r /\ made.fix = x3[a].fix
      /\ made.overtaken = x3[a].overtaken /\ made.distance = far
    BY <1>2, <1>3 DEF AppendRow
<1> HIDE DEF made
<1>5. next \in AppendRow /\ (next = made \/ next.stage = "idle")
    BY <1>4, NoRideFits
<1>6. x3' \in [Actors -> AppendRow] /\ x3'[a] = next /\ \A b \in Actors : b # a => x3'[b] = x3[b]
    BY <1>1, <1>5 DEF OffRidesInv
<1>7. ASSUME NEW s \in OffRides PROVE RideFits(s)'
  <2> DEFINE on   == On(s)
             less == On(s)'
  <2>1. RideFits(s) /\ x2[s] \in Seq(Ride!Fix)
      BY DEF OffRidesInv
  <2>2. less \subseteq on
      BY <1>1, <1>4, <1>5, <1>6 DEF On, Appending, r
  <2>3. IsFiniteSet(on)
      BY OnCounts
  <2>4. Len(x2[s]) + Cardinality(on) <= MaxFixes
      BY <2>1 DEF RideFits
  <2> HIDE DEF on, less
  <2>5. /\ IsFiniteSet(less) /\ Cardinality(less) <= Cardinality(on)
      BY <2>2, <2>3, FS_Subset
  <2>6. Cardinality(less) \in Nat /\ Cardinality(on) \in Nat /\ Len(x2[s]) \in Nat
      BY <2>1, <2>3, <2>5, FS_CardinalityType
  <2>7. Len(x2[s]) + Cardinality(less) <= MaxFixes
      BY <2>4, <2>5, <2>6, CapsAssumption
  <2> QED
      BY <1>1, <2>1, <2>7 DEF RideFits, less
<1>8. ASSUME NEW b \in Actors PROVE AppendFits(b)'
  <2>1. CASE b = a
    <3>1. AppendFits(a) /\ Appending(a)
        BY <1>1 DEF OffRidesInv, Appending
    <3>2. CASE next = made
      <4>1. x1[r].status # "none"
          BY <1>4, <3>2, NoRideFits
      <4> QED
          BY <1>1, <1>4, <1>6, <2>1, <3>1, <3>2, <4>1 DEF AppendFits, Appending, r, far
    <3>3. CASE next.stage = "idle"
        BY <1>6, <2>1, <3>3 DEF AppendFits, Appending
    <3> QED
        BY <1>5, <3>2, <3>3
  <2>2. CASE b # a
      BY <1>1, <1>6, <2>2 DEF AppendFits, Appending, OffRidesInv
  <2> QED
      BY <2>1, <2>2
<1> QED
    BY <1>1, <1>6, <1>7, <1>8 DEF OffRidesInv

LEMMA OvertakenRow ==
    ASSUME NEW row \in AppendRow, row.stage # "idle"
    PROVE  LET late == [row EXCEPT !.overtaken = TRUE]
           IN /\ late \in AppendRow /\ late.stage = row.stage /\ late.ride = row.ride
              /\ late.overtaken = TRUE
<1>1. CASE row \in [stage : {"checked"}, ride : OffRides, fix : Ride!Fix, overtaken : BOOLEAN]
    BY <1>1 DEF AppendRow
<1>2. CASE row \in [stage : {"measured"}, ride : OffRides, fix : Ride!Fix, overtaken : BOOLEAN,
                    distance : Ride!Distance]
    BY <1>2 DEF AppendRow
<1> QED
    BY <1>1, <1>2 DEF AppendRow, Ride!Idle

\* Requests that are overtaken stay what they were otherwise.
LEMMA Overtaking ==
    ASSUME OffRidesInv, NEW r, NEW stages, stages \subseteq {"checked", "measured"}, NEW b \in Actors
    PROVE  LET row  == x3[b]
               then == Ride!Overtake(r, Ride!InFlight(stages))[b]
           IN /\ then \in AppendRow /\ then.stage = row.stage
              /\ row.stage # "idle" => then.ride = row.ride
              /\ row.stage \in stages /\ row.ride = r => then.overtaken = TRUE
              /\ ~(row.stage \in stages /\ row.ride = r) => then = row
<1>1. x3[b] \in AppendRow
    BY DEF OffRidesInv
<1>2. CASE x3[b].stage \in stages /\ x3[b].ride = r
  <2>1. Ride!Overtake(r, Ride!InFlight(stages))[b] = [x3[b] EXCEPT !.overtaken = TRUE]
      BY <1>2 DEF Ride!Overtake, Ride!InFlight
  <2>2. x3[b].stage # "idle"
      BY <1>2
  <2> QED
      BY <1>1, <1>2, <2>1, <2>2, OvertakenRow
<1>3. CASE ~(x3[b].stage \in stages /\ x3[b].ride = r)
  <2>1. Ride!Overtake(r, Ride!InFlight(stages))[b] = x3[b]
      BY <1>3 DEF Ride!Overtake, Ride!InFlight
  <2> QED
      BY <1>1, <1>3, <2>1
<1> QED
    BY <1>2, <1>3

LEMMA FixIsWritten ==
    ASSUME OffRidesInv, NEW a \in Actors, Ride!WriteFix(a)
    PROVE  OffRidesInv'
<1> DEFINE r     == x3[a].ride
           all   == Ride!With(x2[r], x3[a].fix)
           made  == [[x1[r] EXCEPT !.distance = x3[a].distance] EXCEPT !.overtaken = x3[a].overtaken]
           after == [b \in Actors |-> IF b = a THEN Ride!Idle
                                      ELSE Ride!Overtake(r, Ride!InFlight({"measured"}))[b]]
<1>1. /\ x3[a].stage = "measured" /\ x1' = [x1 EXCEPT ![r] = made] /\ x2' = [x2 EXCEPT ![r] = all]
      /\ x3' = after
  <2>1. /\ x3[a].stage = "measured"
        /\ x1' = [x1 EXCEPT ![r].distance = x3[a].distance, ![r].overtaken = x3[a].overtaken]
        /\ x2' = [x2 EXCEPT ![r] = Ride!With(@, x3[a].fix)]
        /\ x3' = [Ride!Overtake(r, Ride!InFlight({"measured"}) \ {a}) EXCEPT ![a] = Ride!Idle]
      BY DEF Ride!WriteFix
  <2>2. r \in OffRides
      BY <2>1 DEF OffRidesInv, AppendRow, Ride!Idle
  <2>3. x1' = [x1 EXCEPT ![r] = made]
      BY <2>1, <2>2 DEF OffRidesInv
  <2>4. x3' = after
      BY <2>1 DEF Ride!Overtake
  <2> QED
      BY <2>1, <2>3, <2>4
<1>2. /\ r \in OffRides /\ x3[a].fix \in Ride!Fix /\ x3[a].overtaken \in BOOLEAN
      /\ x3[a].distance \in Ride!Distance /\ x1[r] \in OffRideRow /\ x2[r] \in Seq(Ride!Fix)
  <2>1. x3[a] \in AppendRow
      BY DEF OffRidesInv
  <2>2. /\ r \in OffRides /\ x3[a].fix \in Ride!Fix /\ x3[a].overtaken \in BOOLEAN
        /\ x3[a].distance \in Ride!Distance
      BY <1>1, <2>1 DEF AppendRow, Ride!Idle
  <2> QED
      BY <2>2 DEF OffRidesInv
<1>3. AppendFits(a) /\ Appending(a)
    BY <1>1 DEF OffRidesInv, Appending
<1>4. all \in Seq(Ride!Fix) /\ Len(all) = Len(x2[r]) + 1
    BY <1>2, WithOneMore
<1>5. /\ made \in OffRideRow /\ made.status = x1[r].status /\ made.start = x1[r].start
      /\ made.distance = x3[a].distance /\ made.overtaken = x3[a].overtaken
    BY <1>2 DEF OffRideRow
<1> HIDE DEF all, made
<1>6. WholeRide(made, all)
  <2> SUFFICES ASSUME ~made.overtaken PROVE WholeRide(made, all)
      BY DEF WholeRide
  <2> DEFINE start == x1[r].start
             path  == Ride!Path(start, all)
             far   == Ride!SoFar(start, all)
             m     == Ride!Measured(path, TRUE)
  <2>1. x1[r].status # "completed" /\ made.distance = far
      BY <1>3, <1>1, <1>5 DEF AppendFits, all
  <2>2. start \in Nat
      BY <1>2 DEF OffRideRow
  <2> HIDE DEF start
  <2>3. path \in Seq(Nat)
      BY <1>4, <2>2, PathFits
  <2>4. Ride!WholePath(made, all) = path
    <3> HIDE DEF path
    <3>1. path \o <<>> = path
        BY <2>3
    <3> QED
        BY <1>5, <2>1, <3>1 DEF Ride!WholePath, path, start
  <2>5. /\ far.m = (IF m > DistanceCap THEN DistanceCap ELSE m)
        /\ (far.source = "waypoints_partial") = (Ride!Long(path) # {})
      BY <1>4, <2>2, SoFarIsWhole
  <2>6. (all # <<>>) = TRUE
    <3>1. Len(all) # 0
        BY <1>2, <1>4
    <3> QED
        BY <3>1
  <2> HIDE DEF path, far
  <2>7. made.distance.m = (IF m > DistanceCap THEN DistanceCap ELSE m)
      BY <2>1, <2>5
  <2>8. (made.distance.source = "waypoints_partial") = (all # <<>> /\ Ride!Long(path) # {})
      BY <2>1, <2>5, <2>6
  <2> QED
      BY <2>4, <2>6, <2>7, <2>8 DEF WholeRide
<1>7. /\ x1' \in [OffRides -> OffRideRow] /\ x1'[r] = made /\ \A s \in OffRides : s # r => x1'[s] = x1[s]
      /\ x2' \in [OffRides -> Seq(Ride!Fix)] /\ x2'[r] = all /\ \A s \in OffRides : s # r => x2'[s] = x2[s]
    BY <1>1, <1>2, <1>4, <1>5 DEF OffRidesInv
<1>8. ASSUME NEW b \in Actors, b # a
      PROVE  /\ x3'[b] \in AppendRow /\ x3'[b].stage = x3[b].stage
             /\ x3[b].stage # "idle" => x3'[b].ride = x3[b].ride
             /\ x3[b].stage = "measured" /\ x3[b].ride = r => x3'[b].overtaken = TRUE
             /\ ~(x3[b].stage = "measured" /\ x3[b].ride = r) => x3'[b] = x3[b]
  <2> DEFINE stages == {"measured"}
  <2>1. x3'[b] = Ride!Overtake(r, Ride!InFlight(stages))[b]
      BY <1>1, <1>8
  <2>2. stages \subseteq {"checked", "measured"} /\ \A stage : stage \in stages <=> stage = "measured"
      OBVIOUS
  <2> HIDE DEF stages, r
  <2> DEFINE then == Ride!Overtake(r, Ride!InFlight(stages))[b]
  <2>3. /\ then \in AppendRow /\ then.stage = x3[b].stage
        /\ x3[b].stage # "idle" => then.ride = x3[b].ride
        /\ x3[b].stage \in stages /\ x3[b].ride = r => then.overtaken = TRUE
        /\ ~(x3[b].stage \in stages /\ x3[b].ride = r) => then = x3[b]
      BY ZenonT(30), <2>2, Overtaking
  <2> HIDE DEF then
  <2>4. x3'[b] = then
      BY <2>1 DEF then
  <2> QED
      BY <2>2, <2>3, <2>4
<1>9. x3' \in [Actors -> AppendRow] /\ x3'[a] = Ride!Idle
    BY <1>1, <1>8, NoRideFits
<1>10. ASSUME NEW s \in OffRides PROVE RideFits(s)'
  <2> DEFINE on   == On(s)
             then == On(s)'
  <2>1. RideFits(s) /\ x2[s] \in Seq(Ride!Fix)
      BY DEF OffRidesInv
  <2>2. then = on \ {a}
      BY <1>8, <1>9, NoRideFits DEF On, Appending
  <2>3. (a \in on) = (s = r)
      BY <1>3 DEF On
  <2>4. IsFiniteSet(on) /\ Cardinality(on) \in Nat /\ Len(x2[s]) + Cardinality(on) <= MaxFixes
      BY <2>1, OnCounts DEF RideFits
  <2> HIDE DEF on, then
  <2>5. CASE s = r
    <3>1. Cardinality(then) = Cardinality(on) - 1
        BY <2>2, <2>3, <2>4, <2>5, FS_RemoveElement
    <3>2. Len(all) + Cardinality(then) <= MaxFixes
        BY <1>4, <2>1, <2>4, <2>5, <3>1, CapsAssumption
    <3>3. x1[r].status # "none"
        BY <1>1, <1>3 DEF AppendFits
    <3> QED
        BY <1>5, <1>6, <1>7, <2>5, <3>2, <3>3 DEF RideFits, then
  <2>6. CASE s # r
    <3>1. then = on
        BY <2>2, <2>3, <2>6
    <3> QED
        BY <1>7, <2>1, <2>6, <3>1 DEF RideFits, on, then
  <2> QED
      BY <2>5, <2>6
<1>11. ASSUME NEW b \in Actors PROVE AppendFits(b)'
  <2>1. CASE b = a
      BY <1>9, <2>1, NoRideFits DEF AppendFits, Appending
  <2>2. CASE b # a /\ Appending(b)
    <3>1. AppendFits(b) /\ x3[b] \in AppendRow
        BY DEF OffRidesInv
    <3>2. x3[b].ride \in OffRides /\ x3[b].stage # "idle"
        BY <2>2, <3>1 DEF Appending, AppendRow, Ride!Idle
    <3>3. x1'[x3[b].ride].status = x1[x3[b].ride].status
        BY <1>5, <1>7, <3>2
    <3>4. CASE x3[b].stage = "measured" /\ x3[b].ride = r
        BY <1>8, <2>2, <3>1, <3>2, <3>3, <3>4 DEF AppendFits, Appending
    <3>5. CASE ~(x3[b].stage = "measured" /\ x3[b].ride = r)
      <4>1. x3'[b] = x3[b]
          BY <1>8, <2>2, <3>5
      <4>2. x3[b].stage = "measured" =>
                x1'[x3[b].ride] = x1[x3[b].ride] /\ x2'[x3[b].ride] = x2[x3[b].ride]
          BY <1>7, <3>2, <3>5
      <4> HIDE DEF r
      <4> QED
          BY <3>1, <3>3, <4>1, <4>2 DEF AppendFits, Appending
    <3> QED
        BY <3>4, <3>5
  <2>3. CASE b # a /\ ~Appending(b)
      BY <1>8, <2>3 DEF AppendFits, Appending
  <2> QED
      BY <2>1, <2>2, <2>3
<1> QED
    BY <1>7, <1>9, <1>10, <1>11 DEF OffRidesInv

LEMMA RideEnds ==
    ASSUME OffRidesInv, NEW r \in OffRides, NEW end \in Places, Ride!EndRide(r, end)
    PROVE  OffRidesInv'
<1> DEFINE all  == Ride!CloseOut(x1[r].start, x2[r], end)
           m4   == [x1[r] EXCEPT !.status = "completed"]
           m3   == [m4 EXCEPT !.end = end]
           m2   == [m3 EXCEPT !.overtaken = FALSE]
           made == [m2 EXCEPT !.distance = all]
<1>1. /\ x1[r].status = "active" /\ Ride!Inserted(r) = {}
      /\ x1' = [x1 EXCEPT ![r] = made] /\ UNCHANGED x2
      /\ x3' = Ride!Overtake(r, Ride!InFlight({"checked"}))
  <2>1. /\ x1[r].status = "active" /\ Ride!Inserted(r) = {} /\ UNCHANGED x2
        /\ x3' = Ride!Overtake(r, Ride!InFlight({"checked"}))
        /\ x1' = [x1 EXCEPT ![r] = [@ EXCEPT !.status = "completed", !.end = end, !.overtaken = FALSE,
                                            !.distance = all]]
      BY DEF Ride!EndRide
  <2> QED
      BY <2>1 DEF OffRidesInv
<1>2. x1[r] \in OffRideRow /\ x2[r] \in Seq(Ride!Fix) /\ x1[r].start \in Nat /\ end \in Nat
  <2>1. x1[r] \in OffRideRow /\ x2[r] \in Seq(Ride!Fix)
      BY DEF OffRidesInv
  <2> QED
      BY <2>1, DataAssumption DEF OffRideRow
<1> DEFINE start == x1[r].start
           fixes == x2[r]
           path  == Ride!Path(start, fixes) \o <<end>>
           m     == Ride!Measured(path, fixes # <<>>)
<1>3. /\ all \in Ride!Distance
      /\ all.m = (IF m > DistanceCap THEN DistanceCap ELSE m)
      /\ (all.source = "waypoints_partial") = (fixes # <<>> /\ Ride!Long(path) # {})
  <2> HIDE DEF start, fixes
  <2>1. start \in Nat /\ fixes \in Seq(Ride!Fix)
      BY <1>2 DEF start, fixes
  <2>2. all = Ride!CloseOut(start, fixes, end)
      BY DEF start, fixes
  <2> HIDE DEF all
  <2> QED
      BY <1>2, <2>1, <2>2, CloseOutIsWhole
<1> HIDE DEF all
<1>4. /\ made \in OffRideRow /\ made.status = "completed" /\ made.start = start /\ made.end = end
      /\ made.distance = all
    BY <1>2, <1>3 DEF OffRideRow
<1> HIDE DEF made
<1>5. WholeRide(made, x2[r])
  <2>1. Ride!WholePath(made, x2[r]) = path
      BY <1>4 DEF Ride!WholePath
  <2> HIDE DEF path
  <2> QED
      BY <1>3, <1>4, <2>1 DEF WholeRide
<1>6. x1' \in [OffRides -> OffRideRow] /\ x1'[r] = made /\ \A s \in OffRides : s # r => x1'[s] = x1[s]
    BY <1>1, <1>4 DEF OffRidesInv
<1>7. ASSUME NEW b \in Actors
      PROVE  /\ x3'[b] \in AppendRow /\ x3'[b].stage = x3[b].stage
             /\ x3[b].stage # "idle" => x3'[b].ride = x3[b].ride
             /\ x3[b].stage = "checked" /\ x3[b].ride = r => x3'[b].overtaken = TRUE
             /\ ~(x3[b].stage = "checked" /\ x3[b].ride = r) => x3'[b] = x3[b]
  <2> DEFINE stages == {"checked"}
  <2>1. x3'[b] = Ride!Overtake(r, Ride!InFlight(stages))[b]
      BY <1>1
  <2>2. stages \subseteq {"checked", "measured"} /\ \A stage : stage \in stages <=> stage = "checked"
      OBVIOUS
  <2> HIDE DEF stages
  <2> DEFINE then == Ride!Overtake(r, Ride!InFlight(stages))[b]
  <2>3. /\ then \in AppendRow /\ then.stage = x3[b].stage
        /\ x3[b].stage # "idle" => then.ride = x3[b].ride
        /\ x3[b].stage \in stages /\ x3[b].ride = r => then.overtaken = TRUE
        /\ ~(x3[b].stage \in stages /\ x3[b].ride = r) => then = x3[b]
      BY ZenonT(30), <2>2, Overtaking
  <2> HIDE DEF then
  <2>4. x3'[b] = then
      BY <2>1 DEF then
  <2> QED
      BY <2>2, <2>3, <2>4
<1>8. x3' \in [Actors -> AppendRow]
    BY <1>1, <1>7 DEF Ride!Overtake
<1>9. ASSUME NEW s \in OffRides PROVE RideFits(s)'
  <2>1. RideFits(s)
      BY DEF OffRidesInv
  <2>2. On(s)' = On(s)
      BY <1>7 DEF On, Appending
  <2> QED
      BY <1>1, <1>4, <1>5, <1>6, <2>1, <2>2 DEF RideFits
<1>10. ASSUME NEW b \in Actors PROVE AppendFits(b)'
  <2>1. CASE Appending(b)
    <3>1. AppendFits(b) /\ x3[b] \in AppendRow
        BY DEF OffRidesInv
    <3>2. x3[b].ride \in OffRides /\ x3[b].stage # "idle"
        BY <2>1, <3>1 DEF Appending, AppendRow, Ride!Idle
    <3>3. CASE x3[b].ride = r
      <4>1. x3[b].stage = "checked"
          BY <1>1, <2>1, <3>3 DEF Ride!Inserted, Appending
      <4> QED
          BY <1>7, <3>3, <4>1 DEF AppendFits, Appending
    <3>4. CASE x3[b].ride # r
      <4>1. x3'[b] = x3[b] /\ x1'[x3[b].ride] = x1[x3[b].ride]
          BY <1>6, <1>7, <3>2, <3>4
      <4> QED
          BY <1>1, <3>1, <4>1 DEF AppendFits, Appending
    <3> QED
        BY <3>3, <3>4
  <2>2. CASE ~Appending(b)
      BY <1>7, <2>2 DEF AppendFits, Appending
  <2> QED
      BY <2>1, <2>2
<1> QED
    BY <1>1, <1>6, <1>8, <1>9, <1>10 DEF OffRidesInv

LEMMA OffRidesStep ==
    ASSUME OffRidesInv, Ride!OffRidesNext
    PROVE  OffRidesInv'
<1>1. CASE \E r \in OffRides, p \in Places : Ride!StartRide(r, p) \/ Ride!EndRide(r, p)
    BY <1>1, RideStarts, RideEnds
<1>2. CASE \E r \in OffRides : Ride!ExpireRide(r)
    BY <1>2, RideExpires
<1>3. CASE \E r \in OffRides, m \in 0 .. (DistanceCap + 1), route \in Places : Ride!LogRide(r, m, route)
    BY <1>3, RideIsLogged
<1>4. CASE \E gone \in (SUBSET OffRides) \ {{}} : Ride!DeleteRides(gone)
  <2>1. PICK gone \in SUBSET OffRides : Ride!DeleteRides(gone)
      BY <1>4
  <2> QED
      BY <2>1, RidesAreDeleted
<1>5. CASE \E a \in Actors, r \in OffRides, t \in FixTimes, p \in Places :
               Ride!CheckFix(a, r, [at |-> t, pos |-> p])
  <2>1. PICK a \in Actors, r \in OffRides, t \in FixTimes, p \in Places :
                 Ride!CheckFix(a, r, [at |-> t, pos |-> p])
      BY <1>5
  <2> DEFINE fix == [at |-> t, pos |-> p]
  <2>2. fix \in Ride!Fix
      BY DEF Ride!Fix
  <2>3. Ride!CheckFix(a, r, fix)
      BY <2>1
  <2> HIDE DEF fix
  <2> QED
      BY <2>2, <2>3, FixIsChecked
<1>6. CASE \E a \in Actors : Ride!InsertFix(a) \/ Ride!WriteFix(a)
    BY <1>6, FixIsInserted, FixIsWritten
<1> QED
    BY <1>1, <1>2, <1>3, <1>4, <1>5, <1>6 DEF Ride!OffRidesNext


-----------------------------------------------------------------------------
(* Device features.  x1 is log, x2 features and x3 standard. *)

Answer == Feature!Given \cup {"unasked"}
Logged == x1 \in Seq(Feature!ReportOf)
InTurn == \A i \in 1 .. Len(x1) : x1[i].at = i

\* What one job at a time knows after one report, and after the next.
OneBefore == [published : Feature!Published, votes : SUBSET (1 .. Len(x1))]
OneAfter(one, n) ==
    IF ~x1[n].valid THEN one
    ELSE LET p      == one.published
             votes  == one.votes \cup {n}
             winner == Feature!Filled(Feature!Consensus(votes), p.stored)
         IN IF p.status # "needs_review"
            THEN [published |-> Feature!GradeOne(p, n), votes |-> {n}]
            ELSE IF Feature!Cardinality(votes) < Feature!ReviewReports
            THEN [published |-> p, votes |-> votes]
            ELSE [published |-> Feature!Publish(winner, Feature!StatusOf(winner, "needs_confirmation")),
                  votes |-> {}]

\* A report or none, at a time of its own.
GradedAt(p, t) ==
    IF \E i \in Feature!Pending : x1[i].at = t
    THEN Feature!GradeOne(p, CHOOSE i \in Feature!Pending : x1[i].at = t)
    ELSE p

\* The votes of a review are the reports since the one that opened it.
VotesFit(one, n) ==
    one.published.status = "needs_review" =>
        /\ one.published.confirmed
        /\ one.published.since <= n
        /\ one.votes = {j \in Feature!Valid : one.published.since <= j /\ j <= n}
        /\ Cardinality(one.votes) < 3

FeaturesInv ==
    /\ Feature!FeaturesTypeOK
    /\ Len(x1) <= MaxFeatureReports
    /\ Feature!BatchingDoesNotMatter

LEMMA FeatureCardinality == \A S : Feature!Cardinality(S) = Cardinality(S)
BY DEF Feature!Cardinality, Cardinality

LEMMA ReportFits ==
    ASSUME Logged, NEW i \in 1 .. Len(x1)
    PROVE  /\ x1[i] \in Feature!ReportOf /\ x1[i].says \in [Features -> Answer]
           /\ x1[i].at \in 1 .. MaxFeatureReports + 1
           /\ x1[i].valid \in BOOLEAN /\ x1[i].processed \in BOOLEAN
<1>1. x1[i] \in Feature!ReportOf
    BY DEF Logged
<1>2. AnswerSets \subseteq [Features -> {"yes", "poor", "no", "unasked"}]
    BY DataAssumption
<1>3. Answer = {"yes", "poor", "no", "unasked"}
    BY DEF Answer, Feature!Given
<1> HIDE DEF Answer
<1> QED
    BY <1>1, <1>2, <1>3 DEF Feature!ReportOf

LEMMA AnswersFit ==
    /\ \A a, b \in [Features -> Answer] : Feature!Filled(a, b) \in [Features -> Answer]
    /\ \A votes : Feature!Consensus(votes) \in [Features -> Answer]
    /\ \A votes, f : Feature!Vote(votes, f) \in Answer
<1>1. \A a, b \in [Features -> Answer] : Feature!Filled(a, b) \in [Features -> Answer]
    BY DEF Feature!Filled
<1>2. ASSUME NEW votes, NEW f PROVE Feature!Vote(votes, f) \in Answer
    BY DEF Feature!Vote, Answer, Feature!Given
<1>3. \A votes : Feature!Consensus(votes) \in [Features -> Answer]
    BY <1>2 DEF Feature!Consensus
<1> QED
    BY <1>1, <1>2, <1>3

\* Publishing closes a review, and puts none in place of a status that was none.
LEMMA PublishFits ==
    ASSUME NEW says \in [Features -> Answer], NEW otherwise \in {"needs_confirmation", "up_to_date"}
    PROVE  LET p == Feature!Publish(says, Feature!StatusOf(says, otherwise))
           IN p \in Feature!Published /\ p.status # "needs_review" /\ p.confirmed
<1> DEFINE status == Feature!StatusOf(says, otherwise)
<1>1. status \in {"needs_confirmation", "up_to_date"}
    BY DEF Feature!StatusOf
<1> HIDE DEF status
<1>2. /\ Feature!Publish(says, status) = [status |-> status, stored |-> says, confirmed |-> TRUE, since |-> 0]
      /\ 0 \in 0 .. MaxFeatureReports + 1
    BY CapsAssumption DEF Feature!Publish
<1>3. [status |-> status, stored |-> says, confirmed |-> TRUE, since |-> 0] \in Feature!Published
    BY <1>1, <1>2 DEF Feature!Published, Answer
<1> QED
    BY <1>1, <1>2, <1>3 DEF status

\* Outside a review a grade opens one with its own report, or leaves none open.
LEMMA GradeOutsideReview ==
    ASSUME Logged, NEW p \in Feature!Published, NEW i \in 1 .. Len(x1), p.status # "needs_review"
    PROVE  LET q == Feature!GradeOne(p, i)
           IN /\ q \in Feature!Published
              /\ q.status = "needs_review" => q.confirmed /\ q.since = x1[i].at
<1> DEFINE says   == x1[i].says
           q      == Feature!GradeOne(p, i)
           filled == Feature!Filled(p.stored, says)
<1>1. says \in [Features -> Answer] /\ x1[i].at \in 0 .. MaxFeatureReports + 1
    BY ReportFits, CapsAssumption
<1>2. p.status \in {"needs_confirmation", "up_to_date"} /\ p.stored \in [Features -> Answer]
      /\ p.confirmed \in BOOLEAN
    BY DEF Feature!Published, Answer
<1>3. filled \in [Features -> Answer]
    BY <1>1, <1>2, AnswersFit
<1> HIDE DEF filled, says
<1>4. CASE ~p.confirmed
  <2>1. q = Feature!Publish(says, Feature!StatusOf(says, p.status))
      BY <1>4 DEF Feature!GradeOne, Feature!FirstReport, says
  <2> HIDE DEF q
  <2> QED
      BY <1>1, <1>2, <2>1, PublishFits DEF q
<1>5. CASE p.confirmed /\ Feature!Agree(says, p.stored)
  <2>1. q = IF filled = p.stored THEN p ELSE Feature!Publish(filled, Feature!StatusOf(filled, p.status))
      BY <1>5 DEF Feature!GradeOne, Feature!Reconfirmed, says, filled
  <2>2. Feature!Publish(filled, Feature!StatusOf(filled, p.status)) \in Feature!Published
        /\ Feature!Publish(filled, Feature!StatusOf(filled, p.status)).status # "needs_review"
      BY <1>2, <1>3, PublishFits
  <2> HIDE DEF q
  <2> QED
      BY <2>1, <2>2 DEF q
<1>6. CASE p.confirmed /\ ~Feature!Agree(says, p.stored)
  <2> DEFINE m1 == [p EXCEPT !.status = "needs_review"]
             m2 == [m1 EXCEPT !.since = x1[i].at]
  <2>1. q = m2
      BY <1>6 DEF Feature!GradeOne, says
  <2>2. /\ m2 \in Feature!Published /\ m2.status = "needs_review" /\ m2.since = x1[i].at
        /\ m2.confirmed = p.confirmed
      BY <1>1 DEF Feature!Published
  <2> HIDE DEF q, m2
  <2> QED
      BY <1>6, <2>1, <2>2 DEF q
<1> QED
    BY <1>2, <1>4, <1>5, <1>6

LEMMA GradeFits ==
    ASSUME Logged, NEW p \in Feature!Published, NEW i \in 1 .. Len(x1)
    PROVE  Feature!GradeOne(p, i) \in Feature!Published
<1>1. CASE p.status # "needs_review"
    BY <1>1, GradeOutsideReview
<1>2. CASE p.status = "needs_review" /\ p.confirmed
  <2> DEFINE votes  == Feature!VotesUpTo(p, i)
             few    == Feature!Cardinality(votes) < Feature!ReviewReports
             winner == Feature!Filled(Feature!Consensus(Feature!Oldest(votes)), p.stored)
             done   == Feature!Publish(winner, Feature!StatusOf(winner, "needs_confirmation"))
  <2>1. Feature!GradeOne(p, i) = IF few THEN p ELSE done
      BY <1>2 DEF Feature!GradeOne, Feature!Reviewed
  <2>2. winner \in [Features -> Answer]
      BY AnswersFit DEF Feature!Published, Answer
  <2> HIDE DEF winner, few
  <2>3. done \in Feature!Published
      BY <2>2, PublishFits
  <2> HIDE DEF done
  <2> QED
      BY <2>1, <2>3
<1>3. CASE ~p.confirmed
  <2> DEFINE says == x1[i].says
             done == Feature!Publish(says, Feature!StatusOf(says, p.status))
  <2>1. Feature!GradeOne(p, i) = done
      BY <1>3 DEF Feature!GradeOne, Feature!FirstReport
  <2>2. says \in [Features -> Answer] /\ p.status \in {"needs_review", "needs_confirmation", "up_to_date"}
      BY ReportFits DEF Feature!Published
  <2> DEFINE status == Feature!StatusOf(says, p.status)
  <2>3. status \in {"needs_review", "needs_confirmation", "up_to_date"}
      BY <2>2 DEF Feature!StatusOf
  <2> HIDE DEF status, says
  <2>4. [status |-> status, stored |-> says, confirmed |-> TRUE, since |-> 0] \in Feature!Published
      BY <2>2, <2>3, CapsAssumption DEF Feature!Published, Answer
  <2> QED
      BY <2>1, <2>4 DEF Feature!Publish, status
<1> QED
    BY <1>1, <1>2, <1>3 DEF Feature!Published

LEMMA OneAfterFits ==
    ASSUME Logged, NEW one \in OneBefore, NEW n \in 1 .. Len(x1)
    PROVE  OneAfter(one, n) \in OneBefore
<1> DEFINE p      == one.published
           votes  == one.votes \cup {n}
           winner == Feature!Filled(Feature!Consensus(votes), p.stored)
           done   == Feature!Publish(winner, Feature!StatusOf(winner, "needs_confirmation"))
           grade  == Feature!GradeOne(p, n)
           few    == Feature!Cardinality(votes) < Feature!ReviewReports
           none   == {}
           own    == {n}
<1>1. p \in Feature!Published /\ votes \in SUBSET (1 .. Len(x1))
    BY DEF OneBefore
<1>2. grade \in Feature!Published
    BY <1>1, GradeFits
<1>3. winner \in [Features -> Answer]
    BY <1>1, AnswersFit DEF Feature!Published, Answer
<1> HIDE DEF winner
<1>4. done \in Feature!Published
    BY <1>3, PublishFits
<1>5. none \in SUBSET (1 .. Len(x1)) /\ own \in SUBSET (1 .. Len(x1))
    OBVIOUS
<1>6. \/ OneAfter(one, n) = one
      \/ OneAfter(one, n) = [published |-> grade, votes |-> own]
      \/ OneAfter(one, n) = [published |-> p, votes |-> votes]
      \/ OneAfter(one, n) = [published |-> done, votes |-> none]
    BY DEF OneAfter, winner
<1> HIDE DEF p, votes, done, grade, none, own
<1>7. /\ [published |-> grade, votes |-> own] \in OneBefore
      /\ [published |-> p, votes |-> votes] \in OneBefore
      /\ [published |-> done, votes |-> none] \in OneBefore
    BY <1>1, <1>2, <1>4, <1>5 DEF OneBefore
<1> QED
    BY <1>6, <1>7

LEMMA NothingFits ==
    /\ Feature!NothingKnown \in Feature!Published /\ Feature!NothingKnown.status = "needs_confirmation"
    /\ [published |-> Feature!NothingKnown, votes |-> {}] \in OneBefore
<1>1. Feature!Unasked \in [Features -> Answer]
    BY DEF Feature!Unasked, Answer
<1>2. 0 \in 0 .. MaxFeatureReports + 1
    BY CapsAssumption
<1>3. Feature!NothingKnown \in Feature!Published /\ Feature!NothingKnown.status = "needs_confirmation"
    BY <1>1, <1>2 DEF Feature!NothingKnown, Feature!Published, Answer
<1> QED
    BY <1>3 DEF OneBefore

\* A function that is made step by step is the one its recursive definition chooses.
LEMMA OneByOneSteps ==
    ASSUME Logged
    PROVE  /\ Feature!OneByOne \in [0 .. Len(x1) -> OneBefore]
           /\ Feature!OneByOne[0] = [published |-> Feature!NothingKnown, votes |-> {}]
           /\ \A n \in 1 .. Len(x1) : Feature!OneByOne[n] = OneAfter(Feature!OneByOne[n - 1], n)
<1> DEFINE N    == Len(x1)
           base == [published |-> Feature!NothingKnown, votes |-> {}]
           step == [n \in 1 .. N |-> [v \in OneBefore |-> OneAfter(v, n)]]
           Goes(f) == f = [n \in 0 .. Len(x1) |-> IF n = 0 THEN base ELSE OneAfter(f[n - 1], n)]
           one  == CHOOSE f : Goes(f)
<1>1. N \in Nat /\ base \in OneBefore
    BY NothingFits DEF Logged
<1> HIDE DEF base
<1>2. step \in [1 .. N -> [OneBefore -> OneBefore]]
    BY OneAfterFits
<1>3. \A n \in 1 .. N : \A v \in OneBefore : step[n][v] = OneAfter(v, n)
    OBVIOUS
<1> HIDE DEF N, step
<1>4. PICK f \in [0 .. N -> OneBefore] : Recurs(f, N, base, step)
    BY <1>1, <1>2, Recursed
<1>5. f[0] = base /\ \A n \in 1 .. N : f[n] = step[n][f[n - 1]]
    BY <1>4 DEF Recurs
<1>6. \A n \in 1 .. N : f[n] = OneAfter(f[n - 1], n)
  <2> SUFFICES ASSUME NEW n \in 1 .. N PROVE f[n] = OneAfter(f[n - 1], n)
      OBVIOUS
  <2>1. f[n - 1] \in OneBefore
      BY <1>1
  <2> QED
      BY <1>3, <1>5, <2>1
<1>7. Goes(f)
  <2>1. \A n \in 0 .. N : f[n] = IF n = 0 THEN base ELSE OneAfter(f[n - 1], n)
      BY <1>1, <1>5, <1>6
  <2> QED
      BY <2>1 DEF N
<1>8. Goes(one)
  <2> HIDE DEF Goes
  <2> QED
      BY <1>7
<1>9. Feature!OneByOne = one
    BY DEF Feature!OneByOne, one, Goes, OneAfter, base
<1> HIDE DEF one
<1>10. /\ one[0] = base /\ \A n \in 1 .. N : one[n] = OneAfter(one[n - 1], n)
       /\ one = [n \in 0 .. N |-> one[n]]
  <2>1. \A n \in 0 .. N : one[n] = IF n = 0 THEN base ELSE OneAfter(one[n - 1], n)
      BY <1>8 DEF N
  <2>2. one = [n \in 0 .. N |-> one[n]]
      BY <1>8 DEF N
  <2>3. one[0] = base
      BY <1>1, <2>1
  <2>4. ASSUME NEW n \in 1 .. N PROVE one[n] = OneAfter(one[n - 1], n)
    <3>1. n \in 0 .. N /\ n # 0
        BY <1>1
    <3> QED
        BY <2>1, <3>1
  <2> QED
      BY <2>2, <2>3, <2>4
<1>11. \A n \in 0 .. N : one[n] \in OneBefore
  <2> DEFINE good == {n \in 0 .. N : one[n] \in OneBefore}
  <2>1. 0 \in good
      BY <1>1, <1>10
  <2>2. ASSUME NEW n \in 1 .. N, n - 1 \in good PROVE n \in good
    <3>1. one[n - 1] \in OneBefore /\ n \in 1 .. Len(x1) /\ n \in 0 .. N
        BY <1>1, <2>2 DEF N
    <3>2. one[n] \in OneBefore
        BY <1>10, <3>1, OneAfterFits
    <3> QED
        BY <3>1, <3>2
  <2> HIDE DEF good
  <2>3. \A n \in 0 .. N : n \in good
      BY <1>1, <2>1, <2>2, CountingUp
  <2> QED
      BY <2>3 DEF good
<1>12. one \in [0 .. N -> OneBefore]
    BY <1>10, <1>11
<1> QED
    BY <1>9, <1>10, <1>12 DEF N, base

LEMMA GradedSteps ==
    ASSUME Logged, x2 \in Feature!Published
    PROVE  /\ Feature!Graded \in [0 .. MaxFeatureReports + 1 -> Feature!Published]
           /\ Feature!Graded[0] = x2
           /\ \A t \in 1 .. MaxFeatureReports + 1 :
                 Feature!Graded[t] = GradedAt(Feature!Graded[t - 1], t)
<1> DEFINE N    == MaxFeatureReports + 1
           step == [t \in 1 .. N |-> [p \in Feature!Published |-> GradedAt(p, t)]]
           Goes(f) == f = [t \in 0 .. MaxFeatureReports + 1 |-> IF t = 0 THEN x2 ELSE GradedAt(f[t - 1], t)]
           graded == CHOOSE f : Goes(f)
<1>1. N \in Nat
    BY CapsAssumption
<1>2. \A t \in 1 .. N : \A p \in Feature!Published : GradedAt(p, t) \in Feature!Published
  <2> SUFFICES ASSUME NEW t \in 1 .. N, NEW p \in Feature!Published PROVE GradedAt(p, t) \in Feature!Published
      OBVIOUS
  <2>1. CASE \E i \in Feature!Pending : x1[i].at = t
    <3>1. PICK i : i = CHOOSE j \in Feature!Pending : x1[j].at = t
        OBVIOUS
    <3>2. i \in Feature!Pending
        BY <2>1, <3>1
    <3>3. i \in 1 .. Len(x1)
        BY <3>2 DEF Feature!Pending, Feature!Valid, Logged
    <3>4. GradedAt(p, t) = Feature!GradeOne(p, i)
        BY <2>1, <3>1 DEF GradedAt
    <3> QED
        BY <3>3, <3>4, GradeFits
  <2>2. CASE ~\E i \in Feature!Pending : x1[i].at = t
      BY <2>2 DEF GradedAt
  <2> QED
      BY <2>1, <2>2
<1>3. /\ step \in [1 .. N -> [Feature!Published -> Feature!Published]]
      /\ \A t \in 1 .. N : \A p \in Feature!Published : step[t][p] = GradedAt(p, t)
    BY <1>2
<1> HIDE DEF N, step
<1>4. PICK f \in [0 .. N -> Feature!Published] : Recurs(f, N, x2, step)
    BY <1>1, <1>3, Recursed
<1>5. f[0] = x2 /\ \A t \in 1 .. N : f[t] = step[t][f[t - 1]]
    BY <1>4 DEF Recurs
<1>6. \A t \in 1 .. N : f[t] = GradedAt(f[t - 1], t)
  <2> SUFFICES ASSUME NEW t \in 1 .. N PROVE f[t] = GradedAt(f[t - 1], t)
      OBVIOUS
  <2>1. f[t - 1] \in Feature!Published
      BY <1>1
  <2> QED
      BY <1>3, <1>5, <2>1
<1>7. Goes(f)
  <2>1. \A t \in 0 .. N : f[t] = IF t = 0 THEN x2 ELSE GradedAt(f[t - 1], t)
      BY <1>1, <1>5, <1>6
  <2> QED
      BY <2>1 DEF N
<1>8. Goes(graded)
  <2> HIDE DEF Goes
  <2> QED
      BY <1>7
<1>9. Feature!Graded = graded
    BY DEF Feature!Graded, graded, Goes, GradedAt
<1> HIDE DEF graded
<1>10. /\ graded[0] = x2 /\ \A t \in 1 .. N : graded[t] = GradedAt(graded[t - 1], t)
       /\ graded = [t \in 0 .. N |-> graded[t]]
  <2>1. \A t \in 0 .. N : graded[t] = IF t = 0 THEN x2 ELSE GradedAt(graded[t - 1], t)
      BY <1>8 DEF N
  <2>2. graded = [t \in 0 .. N |-> graded[t]]
      BY <1>8 DEF N
  <2>3. graded[0] = x2
      BY <1>1, <2>1
  <2>4. ASSUME NEW t \in 1 .. N PROVE graded[t] = GradedAt(graded[t - 1], t)
    <3>1. t \in 0 .. N /\ t # 0
        BY <1>1
    <3> QED
        BY <2>1, <3>1
  <2> QED
      BY <2>2, <2>3, <2>4
<1>11. \A t \in 0 .. N : graded[t] \in Feature!Published
  <2> DEFINE good == {t \in 0 .. N : graded[t] \in Feature!Published}
  <2>1. 0 \in good
      BY <1>1, <1>10
  <2>2. ASSUME NEW t \in 1 .. N, t - 1 \in good PROVE t \in good
      BY <1>2, <1>10, <2>2
  <2> HIDE DEF good
  <2>3. \A t \in 0 .. N : t \in good
      BY <1>1, <2>1, <2>2, CountingUp
  <2> QED
      BY <2>3 DEF good
<1>12. graded \in [0 .. N -> Feature!Published]
    BY <1>10, <1>11
<1> QED
    BY <1>9, <1>10, <1>12 DEF N

LEMMA VotesFitNext ==
    ASSUME Logged, InTurn, NEW one \in OneBefore, NEW n \in 1 .. Len(x1), VotesFit(one, n - 1)
    PROVE  VotesFit(OneAfter(one, n), n)
<1> DEFINE p      == one.published
           votes  == one.votes \cup {n}
           winner == Feature!Filled(Feature!Consensus(votes), p.stored)
           done   == Feature!Publish(winner, Feature!StatusOf(winner, "needs_confirmation"))
           grade  == Feature!GradeOne(p, n)
           few    == Cardinality(votes) < 3
           after  == OneAfter(one, n)
<1>1. /\ p \in Feature!Published /\ votes \in SUBSET (1 .. Len(x1)) /\ n \in Nat
      /\ \A j \in Feature!Valid : j \in Nat
      /\ n \in Feature!Valid <=> x1[n].valid
    BY DEF OneBefore, Feature!Valid, Logged
<1>2. CASE ~x1[n].valid
  <2>1. after = one
      BY <1>2 DEF OneAfter
  <2> SUFFICES ASSUME p.status = "needs_review" PROVE VotesFit(one, n)
      BY <2>1 DEF VotesFit
  <2>2. /\ p.confirmed /\ p.since <= n - 1 /\ Cardinality(one.votes) < 3
        /\ one.votes = {j \in Feature!Valid : p.since <= j /\ j <= n - 1}
      BY DEF VotesFit
  <2>3. p.since \in Nat
      BY <1>1 DEF Feature!Published
  <2>4. {j \in Feature!Valid : p.since <= j /\ j <= n - 1} = {j \in Feature!Valid : p.since <= j /\ j <= n}
      BY <1>1, <1>2
  <2>5. p.since <= n
      BY <1>1, <2>2, <2>3
  <2> QED
      BY <2>2, <2>4, <2>5 DEF VotesFit
<1>3. CASE x1[n].valid /\ p.status # "needs_review"
  <2>1. after = [published |-> grade, votes |-> {n}]
      BY <1>3 DEF OneAfter
  <2>2. grade.status = "needs_review" => grade.confirmed /\ grade.since = x1[n].at
      BY <1>1, <1>3, GradeOutsideReview
  <2>3. x1[n].at = n
      BY DEF InTurn
  <2>4. {n} = {j \in Feature!Valid : n <= j /\ j <= n}
      BY <1>1, <1>3
  <2> DEFINE own == {n}
  <2>5. Cardinality(own) = 1
      BY FS_Singleton
  <2> HIDE DEF grade, after, own
  <2>6. after.published = grade /\ after.votes = own /\ Cardinality(own) < 3
      BY <2>1, <2>5 DEF own
  <2> SUFFICES ASSUME grade.status = "needs_review"
               PROVE  /\ grade.confirmed /\ grade.since <= n
                      /\ own = {j \in Feature!Valid : grade.since <= j /\ j <= n}
      BY <2>6 DEF VotesFit, after
  <2>7. grade.confirmed /\ grade.since = n
      BY <2>2, <2>3
  <2> QED
      BY <1>1, <2>4, <2>7 DEF own
<1>4. CASE x1[n].valid /\ p.status = "needs_review" /\ few
  <2>1. after = [published |-> p, votes |-> votes]
      BY <1>4, FeatureCardinality DEF OneAfter, Feature!ReviewReports
  <2>2. /\ p.confirmed /\ p.since <= n - 1
        /\ one.votes = {j \in Feature!Valid : p.since <= j /\ j <= n - 1}
      BY <1>4 DEF VotesFit
  <2>3. p.since \in Nat
      BY <1>1 DEF Feature!Published
  <2>4. p.since <= n
      BY <1>1, <2>2, <2>3
  <2>5. votes = {j \in Feature!Valid : p.since <= j /\ j <= n}
      BY <1>1, <1>4, <2>2, <2>3, <2>4
  <2> HIDE DEF p, votes, after
  <2>6. after.published = p /\ after.votes = votes
      BY <2>1
  <2>7. Cardinality(votes) < 3
      BY <1>4
  <2> QED
      BY <2>2, <2>4, <2>5, <2>6, <2>7 DEF VotesFit, after
<1>5. CASE x1[n].valid /\ p.status = "needs_review" /\ ~few
  <2>1. after = [published |-> done, votes |-> {}]
      BY <1>5, FeatureCardinality DEF OneAfter, Feature!ReviewReports
  <2>2. winner \in [Features -> Answer]
      BY <1>1, AnswersFit DEF Feature!Published, Answer
  <2> HIDE DEF winner, after
  <2>3. done.status # "needs_review"
      BY <2>2, PublishFits
  <2> HIDE DEF done
  <2> QED
      BY <2>1, <2>3 DEF VotesFit, after
<1>6. x1[n].valid \in BOOLEAN
    BY ReportFits
<1> HIDE DEF few, after, p
<1> QED
    BY <1>2, <1>3, <1>4, <1>5, <1>6 DEF after

LEMMA VotesFitAlong ==
    ASSUME Logged, InTurn
    PROVE  \A n \in 0 .. Len(x1) : VotesFit(Feature!OneByOne[n], n)
<1> DEFINE N    == Len(x1)
           one  == Feature!OneByOne
           good == {n \in 0 .. N : VotesFit(one[n], n)}
<1>1. /\ N \in Nat /\ one \in [0 .. N -> OneBefore]
      /\ one[0] = [published |-> Feature!NothingKnown, votes |-> {}]
      /\ \A n \in 1 .. N : one[n] = OneAfter(one[n - 1], n)
    BY OneByOneSteps DEF Logged
<1> HIDE DEF one
<1>2. 0 \in good
  <2>1. one[0].published.status # "needs_review"
      BY <1>1, NothingFits
  <2> QED
      BY <1>1, <2>1 DEF VotesFit
<1>3. ASSUME NEW n \in 1 .. N, n - 1 \in good PROVE n \in good
  <2>1. n \in 0 .. N /\ n - 1 \in 0 .. N /\ VotesFit(one[n - 1], n - 1)
      BY <1>3
  <2>2. one[n - 1] \in OneBefore
      BY <1>1, <2>1
  <2>3. VotesFit(OneAfter(one[n - 1], n), n)
      BY <2>1, <2>2, VotesFitNext
  <2> QED
      BY <1>1, <2>1, <2>3
<1> HIDE DEF good, N
<1>4. \A n \in 0 .. N : n \in good
    BY <1>1, <1>2, <1>3, CountingUp
<1> QED
    BY <1>4 DEF good, N, one

\* A job that finds a review open counts the votes that one job at a time has counted.
LEMMA GradeInTurn ==
    ASSUME Logged, InTurn, NEW one \in OneBefore, NEW n \in 1 .. Len(x1), VotesFit(one, n - 1),
           x1[n].valid
    PROVE  Feature!GradeOne(one.published, n) = OneAfter(one, n).published
<1> DEFINE p      == one.published
           votes  == one.votes \cup {n}
           winner == Feature!Filled(Feature!Consensus(votes), p.stored)
           done   == Feature!Publish(winner, Feature!StatusOf(winner, "needs_confirmation"))
<1>1. /\ p \in Feature!Published /\ n \in Nat /\ n \in Feature!Valid
      /\ \A j \in Feature!Valid : j \in Nat /\ x1[j].at = j
    BY DEF OneBefore, Feature!Valid, Logged, InTurn
<1>2. CASE p.status # "needs_review"
    BY <1>2 DEF OneAfter
<1>3. CASE p.status = "needs_review"
  <2>1. /\ p.confirmed /\ p.since <= n - 1 /\ Cardinality(one.votes) < 3
        /\ one.votes = {j \in Feature!Valid : p.since <= j /\ j <= n - 1}
      BY <1>3 DEF VotesFit
  <2>2. p.since \in Nat
      BY <1>1 DEF Feature!Published
  <2>3. Feature!VotesUpTo(p, n) = votes
    <3> DEFINE since == p.since
    <3>1. Feature!VotesUpTo(p, n) = {j \in Feature!Valid : x1[j].at >= since /\ j <= n}
        BY DEF Feature!VotesUpTo
    <3>2. since \in Nat /\ since <= n - 1 /\ one.votes = {j \in Feature!Valid : since <= j /\ j <= n - 1}
        BY <2>1, <2>2
    <3> HIDE DEF since
    <3>3. \A j \in Feature!Valid : x1[j].at >= since <=> since <= j
        BY <1>1, <3>2
    <3>4. \A j \in Feature!Valid : j <= n <=> (j <= n - 1 \/ j = n)
        BY <1>1
    <3>5. since <= n
        BY <1>1, <3>2
    <3> QED
        BY <1>1, <3>1, <3>2, <3>3, <3>4, <3>5
  <2>4. n \notin one.votes /\ one.votes \subseteq 1 .. Len(x1)
      BY <1>1, <2>1 DEF OneBefore
  <2> DEFINE few == Cardinality(votes) < 3
  <2>5. /\ Feature!GradeOne(p, n) = IF few THEN p
                                    ELSE LET last == Feature!Filled(Feature!Consensus(Feature!Oldest(votes)),
                                                                    p.stored)
                                         IN Feature!Publish(last, Feature!StatusOf(last, "needs_confirmation"))
        /\ OneAfter(one, n).published = IF few THEN p ELSE done
    <3>1. Feature!GradeOne(p, n) = Feature!Reviewed(p, n)
        BY <1>3, <2>1 DEF Feature!GradeOne
    <3>2. OneAfter(one, n) = IF few THEN [published |-> p, votes |-> votes]
                             ELSE [published |-> done, votes |-> {}]
        BY <1>3, FeatureCardinality DEF OneAfter, Feature!ReviewReports
    <3> HIDE DEF done
    <3>3. OneAfter(one, n).published = IF few THEN p ELSE done
        BY <3>2
    <3> HIDE DEF p, votes
    <3> QED
        BY <2>3, <3>1, <3>3, FeatureCardinality DEF Feature!Reviewed, Feature!ReviewReports
  <2>6. CASE few
    <3> HIDE DEF p, done, few
    <3> QED
        BY <2>5, <2>6 DEF p
  <2>7. CASE ~few
    <3> DEFINE counted == one.votes
               size    == Cardinality(counted)
    <3>1. IsFiniteSet(1 .. Len(x1))
        BY FS_Interval DEF Logged
    <3> HIDE DEF counted
    <3>2. IsFiniteSet(counted)
        BY <2>4, <3>1, FS_Subset DEF counted
    <3>3. /\ size \in Nat /\ size < 3 /\ n \notin counted /\ votes = counted \cup {n}
        BY <2>1, <2>4, <3>2, FS_CardinalityType DEF counted
    <3>4. IsFiniteSet(votes) /\ Cardinality(votes) = size + 1
        BY <3>2, <3>3, FS_AddElement
    <3> HIDE DEF votes, size
    <3>5. Cardinality(votes) <= 3
        BY <3>3, <3>4
    <3>6. ASSUME NEW j \in votes PROVE Cardinality({k \in votes : Feature!Earlier(k, j)}) < 3
      <4> DEFINE others == votes \ {j}
                 before == {k \in votes : Feature!Earlier(k, j)}
      <4>1. j \in Nat /\ x1[j].at = j
          BY <1>1, <2>1 DEF votes
      <4>2. before \subseteq others
          BY <4>1 DEF Feature!Earlier
      <4>3. IsFiniteSet(others) /\ Cardinality(others) = Cardinality(votes) - 1
          BY <3>4, FS_RemoveElement
      <4> HIDE DEF before, others
      <4>4. IsFiniteSet(before) /\ Cardinality(before) <= Cardinality(others)
          BY <4>2, <4>3, FS_Subset
      <4>5. Cardinality(before) \in Nat /\ Cardinality(others) \in Nat /\ Cardinality(votes) \in Nat
          BY <3>4, <4>3, <4>4, FS_CardinalityType
      <4>6. Cardinality(before) < 3
          BY <3>5, <4>3, <4>4, <4>5
      <4> QED
          BY <4>6 DEF before
    <3>7. Feature!Oldest(votes) = votes
        BY <3>6, FeatureCardinality DEF Feature!Oldest, Feature!ReviewReports
    <3> HIDE DEF p, few
    <3> QED
        BY <2>5, <2>7, <3>7 DEF p
  <2> QED
      BY <2>6, <2>7
<1> QED
    BY <1>2, <1>3

\* What the first reports give one by one does not change while more are logged.
LEMMA OneByOneStands ==
    ASSUME Logged, Logged', Len(x1) <= Len(x1'),
           \A i \in 1 .. Len(x1) : /\ x1'[i].says = x1[i].says
                                   /\ x1'[i].at = x1[i].at
                                   /\ x1'[i].valid = x1[i].valid
    PROVE  \A n \in 0 .. Len(x1) : Feature!OneByOne'[n] = Feature!OneByOne[n]
<1> DEFINE N    == Len(x1)
           now  == Feature!OneByOne
           then == Feature!OneByOne'
           good == {n \in 0 .. N : then[n] = now[n]}
<1>1. N \in Nat /\ Len(x1') \in Nat
    BY DEF Logged
<1>2. /\ now \in [0 .. N -> OneBefore]
      /\ now[0] = [published |-> Feature!NothingKnown, votes |-> {}]
      /\ \A n \in 1 .. N : now[n] = OneAfter(now[n - 1], n)
    BY OneByOneSteps
<1>3. (Logged => /\ Feature!OneByOne \in [0 .. Len(x1) -> OneBefore]
                 /\ Feature!OneByOne[0] = [published |-> Feature!NothingKnown, votes |-> {}]
                 /\ \A n \in 1 .. Len(x1) : Feature!OneByOne[n] = OneAfter(Feature!OneByOne[n - 1], n))'
    BY OneByOneSteps, PTL
<1>4. /\ then[0] = [published |-> Feature!NothingKnown, votes |-> {}]
      /\ \A n \in 1 .. Len(x1') : then[n] = (OneAfter(Feature!OneByOne[n - 1], n))'
    BY <1>3 DEF Feature!NothingKnown
<1>5. ASSUME NEW n \in 1 .. N, NEW one \in OneBefore
      PROVE  OneAfter(one, n)' = OneAfter(one, n)
  <2> DEFINE p     == one.published
             votes == one.votes \cup {n}
  <2>1. votes \subseteq 1 .. N /\ p \in Feature!Published
      BY DEF OneBefore
  <2>2. Feature!Consensus(votes)' = Feature!Consensus(votes)
    <3> HIDE DEF votes
    <3>1. ASSUME NEW f \in Features PROVE Feature!Vote(votes, f)' = Feature!Vote(votes, f)
      <4> DEFINE asked == {i \in votes : f \in Feature!Asked(x1[i].says)}
      <4>1. \A i \in votes : x1'[i].says = x1[i].says
          BY <2>1
      <4>2. {i \in votes : f \in Feature!Asked(x1'[i].says)} = asked
          BY <4>1
      <4> HIDE DEF asked
      <4>3. \A S : {i \in asked : x1'[i].says[f] \in S} = {i \in asked : x1[i].says[f] \in S}
          BY <4>1 DEF asked
      <4> QED
          BY <4>2, <4>3 DEF Feature!Vote, asked
    <3> QED
        BY <3>1 DEF Feature!Consensus
  <2>3. CASE p.status # "needs_review"
    <3>1. x1'[n].says = x1[n].says /\ x1'[n].at = x1[n].at /\ x1'[n].valid = x1[n].valid
        OBVIOUS
    <3>2. Feature!GradeOne(p, n)' = Feature!GradeOne(p, n)
        BY <2>3, <3>1 DEF Feature!GradeOne
    <3> QED
        BY <2>3, <3>1, <3>2 DEF OneAfter
  <2>4. CASE p.status = "needs_review"
    <3>1. x1'[n].valid = x1[n].valid
        OBVIOUS
    <3> QED
        BY <2>2, <2>4, <3>1 DEF OneAfter
  <2> QED
      BY <2>3, <2>4
<1> HIDE DEF now, then
<1>6. 0 \in good
  <2> DEFINE base == [published |-> Feature!NothingKnown, votes |-> {}]
  <2>1. then[0] = base /\ now[0] = base
      BY <1>2, <1>4
  <2> HIDE DEF base
  <2> QED
      BY <1>1, <2>1
<1>7. ASSUME NEW n \in 1 .. N, n - 1 \in good PROVE n \in good
  <2>1. then[n - 1] = now[n - 1] /\ now[n - 1] \in OneBefore /\ n \in 1 .. Len(x1') /\ n \in 0 .. N
      BY <1>1, <1>2, <1>7
  <2>2. PICK one : one = now[n - 1]
      OBVIOUS
  <2>3. one = Feature!OneByOne'[n - 1]
      BY <2>1, <2>2 DEF then
  <2>4. then[n] = OneAfter(one, n)'
      BY <1>4, <2>1, <2>3
  <2>5. now[n] = OneAfter(one, n)
      BY <1>2, <2>1, <2>2
  <2> QED
      BY <1>5, <2>1, <2>2, <2>4, <2>5
<1> HIDE DEF good, N
<1>8. \A n \in 0 .. N : n \in good
    BY <1>1, <1>6, <1>7, CountingUp
<1> QED
    BY <1>8 DEF good, N, now, then

\* A job that has the first n reports behind it publishes what all of them give one by one.
LEMMA JobGradesTheRest ==
    ASSUME Logged, InTurn, Len(x1) <= MaxFeatureReports, x2 \in Feature!Published,
           NEW n \in 0 .. Len(x1), \A i \in Feature!Valid : x1[i].processed <=> i <= n,
           x2 = Feature!OneByOne[n].published
    PROVE  Feature!Graded[MaxFeatureReports + 1] = Feature!OneByOne[Len(x1)].published
<1> DEFINE N      == Len(x1)
           M      == MaxFeatureReports + 1
           one    == Feature!OneByOne
           graded == Feature!Graded
           good   == {t \in 0 .. M : /\ t <= n => graded[t] = x2
                                     /\ n <= t /\ t <= N => graded[t] = one[t].published
                                     /\ N <= t => graded[t] = one[N].published}
<1>1. N \in Nat /\ M \in Nat /\ n \in Nat /\ n <= N /\ N <= M /\ MaxFeatureReports \in Nat
    BY CapsAssumption DEF Logged
<1>2. /\ one \in [0 .. N -> OneBefore]
      /\ \A k \in 1 .. N : one[k] = OneAfter(one[k - 1], k)
    BY OneByOneSteps
<1>3. /\ graded[0] = x2
      /\ \A t \in 1 .. M : graded[t] = GradedAt(graded[t - 1], t)
    BY GradedSteps
<1>4. \A k \in 0 .. N : VotesFit(one[k], k)
    BY VotesFitAlong
<1> HIDE DEF one, graded
<1>5. x2 = one[n].published
    BY DEF one
<1>6. /\ \A i \in Feature!Pending : i \in n + 1 .. N /\ x1[i].at = i
      /\ \A i \in n + 1 .. N : i \in Feature!Pending <=> x1[i].valid
  <2>1. \A i \in 1 .. N : i \in Feature!Valid <=> x1[i].valid
      BY DEF Feature!Valid, Logged
  <2>2. Feature!Valid \subseteq 1 .. N
      BY DEF Feature!Valid, Logged
  <2>3. \A i \in Feature!Pending : i \in Feature!Valid /\ ~(i <= n)
      BY DEF Feature!Pending
  <2>4. \A i \in 1 .. N : i > n => (i \in Feature!Pending <=> i \in Feature!Valid)
      BY <1>1 DEF Feature!Pending
  <2>5. ASSUME NEW i \in Feature!Pending PROVE i \in n + 1 .. N /\ x1[i].at = i
    <3>1. i \in 1 .. N /\ ~(i <= n)
        BY <2>2, <2>3
    <3>2. x1[i].at = i
        BY <3>1 DEF InTurn
    <3> QED
        BY <1>1, <3>1, <3>2
  <2>6. ASSUME NEW i \in n + 1 .. N PROVE i \in Feature!Pending <=> x1[i].valid
    <3>1. i \in 1 .. N /\ i > n
        BY <1>1
    <3> QED
        BY <2>1, <2>4, <3>1
  <2> QED
      BY <2>5, <2>6
<1>7. 0 \in good
    BY <1>1, <1>3, <1>5
<1>8. ASSUME NEW t \in 1 .. M, t - 1 \in good PROVE t \in good
  <2>1. /\ t - 1 <= n => graded[t - 1] = x2
        /\ n <= t - 1 /\ t - 1 <= N => graded[t - 1] = one[t - 1].published
        /\ N <= t - 1 => graded[t - 1] = one[N].published
        /\ t \in 0 .. M /\ graded[t] = GradedAt(graded[t - 1], t)
      BY <1>3, <1>8
  <2>2. CASE t <= n \/ N < t
    <3>1. ~\E i \in Feature!Pending : x1[i].at = t
        BY <1>1, <1>6, <2>2
    <3>2. graded[t] = graded[t - 1]
        BY <2>1, <3>1 DEF GradedAt
    <3>3. CASE t <= n
        BY <1>1, <1>5, <2>1, <3>2, <3>3
    <3>4. CASE N < t
        BY <1>1, <1>5, <2>1, <3>2, <3>4
    <3> QED
        BY <2>2, <3>3, <3>4
  <2>3. CASE n < t /\ t <= N
    <3>1. t \in 1 .. N /\ t - 1 \in 0 .. N /\ n <= t - 1 /\ t - 1 <= N
        BY <1>1, <2>3
    <3>2. /\ graded[t - 1] = one[t - 1].published /\ one[t - 1] \in OneBefore
          /\ VotesFit(one[t - 1], t - 1) /\ one[t] = OneAfter(one[t - 1], t)
        BY <1>2, <1>4, <2>1, <3>1
    <3>3. CASE x1[t].valid
      <4>1. t \in Feature!Pending /\ x1[t].at = t
          BY <1>1, <1>6, <2>3, <3>3
      <4>2. t = CHOOSE i \in Feature!Pending : x1[i].at = t
          BY <1>6, <4>1
      <4>3. graded[t] = Feature!GradeOne(graded[t - 1], t)
          BY <2>1, <4>1, <4>2 DEF GradedAt
      <4>4. Feature!GradeOne(one[t - 1].published, t) = OneAfter(one[t - 1], t).published
          BY <3>1, <3>2, <3>3, GradeInTurn
      <4>5. graded[t] = one[t].published
          BY <3>2, <4>3, <4>4
      <4> QED
          BY <1>1, <2>1, <2>3, <4>5
    <3>4. CASE ~x1[t].valid
      <4>1. ~\E i \in Feature!Pending : x1[i].at = t
          BY <1>6, <3>4
      <4>2. graded[t] = graded[t - 1]
          BY <2>1, <4>1 DEF GradedAt
      <4>3. one[t] = one[t - 1]
          BY <3>2, <3>4 DEF OneAfter
      <4>4. graded[t] = one[t].published
          BY <3>2, <4>2, <4>3
      <4> QED
          BY <1>1, <2>1, <2>3, <4>4
    <3>5. x1[t].valid \in BOOLEAN
        BY <3>1, ReportFits
    <3> QED
        BY <3>3, <3>4, <3>5
  <2> QED
      BY <1>1, <2>2, <2>3
<1> HIDE DEF good, M, N
<1>9. \A t \in 0 .. M : t \in good
    BY <1>1, <1>7, <1>8, CountingUp
<1>10. M \in good /\ N <= M
    BY <1>1, <1>9
<1> QED
    BY <1>10 DEF good, M, N, one, graded

Cut(n) == /\ n \in 0 .. Len(x1)
          /\ \A i \in Feature!Valid : x1[i].processed <=> i <= n
          /\ x2 = Feature!OneByOne[n].published

LEMMA BatchesAreCuts ==
    Logged => (Feature!BatchingDoesNotMatter <=> (x3 = {} /\ InTurn => \E n : Cut(n)))
<1> SUFFICES ASSUME Logged
             PROVE  Feature!BatchingDoesNotMatter <=> (x3 = {} /\ InTurn => \E n : Cut(n))
    OBVIOUS
<1>1. DOMAIN x1 = 1 .. Len(x1)
    BY DEF Logged
<1> QED
    BY <1>1 DEF Feature!BatchingDoesNotMatter, InTurn, Cut

LEMMA InitFeaturesInv == Feature!FeaturesInit => FeaturesInv
<1> SUFFICES ASSUME Feature!FeaturesInit PROVE FeaturesInv
    OBVIOUS
<1>1. x3 \in Catalogs /\ x1 = <<>> /\ x2 = Feature!NothingKnown
    BY DEF Feature!FeaturesInit
<1>2. Logged /\ Len(x1) = 0
    BY <1>1 DEF Logged
<1>3. Feature!FeaturesTypeOK
    BY <1>1, <1>2, NothingFits DEF Feature!FeaturesTypeOK, Logged
<1>4. Cut(0)
  <2>1. Feature!OneByOne[0] = [published |-> Feature!NothingKnown, votes |-> {}]
      BY <1>2, OneByOneSteps
  <2>2. Feature!Valid = {}
      BY <1>2 DEF Feature!Valid, Logged
  <2> QED
      BY <1>1, <1>2, <2>1, <2>2 DEF Cut
<1> QED
    BY <1>2, <1>3, <1>4, BatchesAreCuts, CapsAssumption DEF FeaturesInv

\* What a step of the log shows of the jobs so far.
LEMMA LogGrows ==
    ASSUME FeaturesInv, Feature!FeaturesTypeOK', Len(x1') <= MaxFeatureReports, Len(x1) <= Len(x1'),
           x3' = x3,
           \A i \in 1 .. Len(x1) : /\ x1'[i].says = x1[i].says
                                   /\ x1'[i].at = x1[i].at
                                   /\ x1'[i].valid = x1[i].valid,
           ASSUME NEW n, InTurn, x3 = {}, Cut(n)
           PROVE  \E m \in 0 .. Len(x1) :
                      /\ \A i \in Feature!Valid' : x1'[i].processed <=> i <= m
                      /\ x2' = Feature!OneByOne[m].published
    PROVE  FeaturesInv'
<1>1. Logged /\ Logged'
    BY DEF FeaturesInv, Feature!FeaturesTypeOK, Logged
<1>2. (Logged => (Feature!BatchingDoesNotMatter <=> (x3 = {} /\ InTurn => \E n : Cut(n))))'
    BY BatchesAreCuts, PTL
<1>3. ASSUME x3' = {}, InTurn' PROVE \E m : Cut(m)'
  <2>1. Len(x1) \in Nat /\ Len(x1') \in Nat
      BY <1>1 DEF Logged
  <2>2. InTurn
    <3> SUFFICES ASSUME NEW i \in 1 .. Len(x1) PROVE x1[i].at = i
        BY DEF InTurn
    <3>1. i \in 1 .. Len(x1')
        BY <2>1
    <3> QED
        BY <1>3, <3>1 DEF InTurn
  <2>3. PICK n : Cut(n)
      BY <1>1, <1>3, <2>2, BatchesAreCuts DEF FeaturesInv
  <2>4. PICK m \in 0 .. Len(x1) : /\ \A i \in Feature!Valid' : x1'[i].processed <=> i <= m
                                  /\ x2' = Feature!OneByOne[m].published
      BY <1>3, <2>2, <2>3
  <2>5. Feature!OneByOne'[m] = Feature!OneByOne[m]
      BY <1>1, OneByOneStands
  <2>6. m \in 0 .. Len(x1')
      BY <2>1
  <2> QED
      BY <2>4, <2>5, <2>6 DEF Cut
<1>4. Feature!BatchingDoesNotMatter'
    BY <1>1, <1>2, <1>3
<1> QED
    BY <1>4 DEF FeaturesInv

LEMMA FeaturesAreSubmitted ==
    ASSUME FeaturesInv, NEW says \in AnswerSets, NEW at \in 1 .. MaxFeatureReports + 1, NEW valid \in BOOLEAN,
           Feature!SubmitFeatures(says, at, valid)
    PROVE  FeaturesInv'
<1> DEFINE row == [at |-> at, says |-> says, valid |-> valid, processed |-> FALSE]
<1>1. x1' = Append(x1, row) /\ x2' = x2 /\ x3' = x3 /\ Len(x1) < MaxFeatureReports
    BY DEF Feature!SubmitFeatures
<1>2. row \in Feature!ReportOf /\ row.processed = FALSE /\ row.valid = valid
    BY DEF Feature!ReportOf
<1>3. x1 \in Seq(Feature!ReportOf) /\ x2 \in Feature!Published /\ x3 \in Catalogs
    BY DEF FeaturesInv, Feature!FeaturesTypeOK
<1> HIDE DEF row
<1>4. /\ x1' \in Seq(Feature!ReportOf) /\ Len(x1') = Len(x1) + 1 /\ Len(x1) \in Nat
      /\ \A i \in 1 .. Len(x1) : x1'[i] = x1[i]
      /\ x1'[Len(x1) + 1] = row /\ DOMAIN x1' = 1 .. Len(x1) + 1 /\ DOMAIN x1 = 1 .. Len(x1)
    BY <1>1, <1>2, <1>3
<1>5. Feature!FeaturesTypeOK'
    BY <1>1, <1>3, <1>4 DEF Feature!FeaturesTypeOK, Feature!Published
<1>6. Len(x1) <= Len(x1') /\ Len(x1') <= MaxFeatureReports
    BY <1>1, <1>4, CapsAssumption
<1>7. ASSUME NEW n, Cut(n)
      PROVE  \E m \in 0 .. Len(x1) :
                 /\ \A i \in Feature!Valid' : x1'[i].processed <=> i <= m
                 /\ x2' = Feature!OneByOne[m].published
  <2>1. n \in 0 .. Len(x1) /\ x2' = Feature!OneByOne[n].published
      BY <1>1, <1>7 DEF Cut
  <2>2. ASSUME NEW i \in Feature!Valid' PROVE x1'[i].processed <=> i <= n
    <3>1. i \in 1 .. Len(x1) \/ i = Len(x1) + 1
        BY <1>4 DEF Feature!Valid
    <3>2. CASE i \in 1 .. Len(x1)
      <4>1. i \in Feature!Valid /\ x1'[i] = x1[i]
          BY <1>4, <3>2 DEF Feature!Valid
      <4> QED
          BY <1>7, <4>1 DEF Cut
    <3>3. CASE i = Len(x1) + 1
      <4>1. ~(i <= n)
          BY <1>4, <2>1, <3>3
      <4> QED
          BY <1>2, <1>4, <3>3, <4>1
    <3> QED
        BY <3>1, <3>2, <3>3
  <2> QED
      BY <2>1, <2>2
<1> QED
    BY <1>1, <1>4, <1>5, <1>6, <1>7, LogGrows

\* Reports are marked processed, in place.
LEMMA ReportsAreMarked ==
    ASSUME Logged, NEW now, x1' = [i \in DOMAIN x1 |-> [x1[i] EXCEPT !.processed = @ \/ i \in now]]
    PROVE  /\ x1' \in Seq(Feature!ReportOf) /\ Len(x1') = Len(x1) /\ DOMAIN x1' = DOMAIN x1
           /\ \A i \in 1 .. Len(x1) : /\ x1'[i].says = x1[i].says
                                      /\ x1'[i].at = x1[i].at
                                      /\ x1'[i].valid = x1[i].valid
                                      /\ x1'[i].processed <=> x1[i].processed \/ i \in now
<1>1. DOMAIN x1 = 1 .. Len(x1) /\ Len(x1) \in Nat
    BY DEF Logged
<1>2. ASSUME NEW i \in 1 .. Len(x1)
      PROVE  /\ x1'[i] \in Feature!ReportOf /\ x1'[i].says = x1[i].says
             /\ x1'[i].at = x1[i].at /\ x1'[i].valid = x1[i].valid
             /\ x1'[i].processed <=> x1[i].processed \/ i \in now
  <2> DEFINE done == x1[i].processed \/ i \in now
             made == [x1[i] EXCEPT !.processed = done]
  <2>1. x1'[i] = made /\ x1[i] \in Feature!ReportOf /\ done \in BOOLEAN
      BY <1>1 DEF Logged
  <2>2. x1'[i].processed <=> done
    <3> HIDE DEF done
    <3>1. x1'[i].processed = done
        BY <2>1 DEF Feature!ReportOf
    <3> QED
        BY <3>1
  <2> HIDE DEF done
  <2>3. made \in Feature!ReportOf /\ made.says = x1[i].says /\ made.at = x1[i].at /\ made.valid = x1[i].valid
      BY <2>1 DEF Feature!ReportOf
  <2> HIDE DEF made
  <2> QED
      BY <2>1, <2>2, <2>3 DEF done
<1>3. x1' = [i \in 1 .. Len(x1) |-> x1'[i]]
    BY <1>1
<1>4. x1' \in Seq(Feature!ReportOf) /\ Len(x1') = Len(x1) /\ DOMAIN x1' = DOMAIN x1
  <2>1. x1' \in [1 .. Len(x1) -> Feature!ReportOf]
      BY <1>2, <1>3
  <2> QED
      BY <1>1, <2>1, SequenceOf
<1> QED
    BY <1>2, <1>4

LEMMA VehicleIsProcessed ==
    ASSUME FeaturesInv, Feature!ProcessVehicle
    PROVE  FeaturesInv'
<1> DEFINE now == Feature!Pending
<1>1. /\ x1' = [i \in DOMAIN x1 |-> [x1[i] EXCEPT !.processed = @ \/ i \in now]]
      /\ x2' = Feature!Graded[MaxFeatureReports + 1] /\ x3' = x3
    BY DEF Feature!ProcessVehicle
<1>2. Logged /\ x2 \in Feature!Published /\ x3 \in Catalogs /\ Len(x1) <= MaxFeatureReports
    BY DEF FeaturesInv, Feature!FeaturesTypeOK, Logged
<1> HIDE DEF now
<1>3. /\ x1' \in Seq(Feature!ReportOf) /\ Len(x1') = Len(x1) /\ DOMAIN x1' = DOMAIN x1
      /\ \A i \in 1 .. Len(x1) : /\ x1'[i].says = x1[i].says
                                 /\ x1'[i].at = x1[i].at
                                 /\ x1'[i].valid = x1[i].valid
                                 /\ x1'[i].processed <=> x1[i].processed \/ i \in now
    BY <1>1, <1>2, ReportsAreMarked
<1>4. DOMAIN x1 = 1 .. Len(x1) /\ Len(x1) \in Nat
    BY <1>2 DEF Logged
<1>5. x2' \in Feature!Published
  <2>1. MaxFeatureReports + 1 \in 0 .. MaxFeatureReports + 1
      BY CapsAssumption
  <2> QED
      BY <1>1, <1>2, <2>1, GradedSteps
<1>6. Feature!FeaturesTypeOK'
    BY <1>1, <1>2, <1>3, <1>5 DEF Feature!FeaturesTypeOK, Feature!Published
<1>7. ASSUME NEW n, InTurn, Cut(n)
      PROVE  \E m \in 0 .. Len(x1) :
                 /\ \A i \in Feature!Valid' : x1'[i].processed <=> i <= m
                 /\ x2' = Feature!OneByOne[m].published
  <2>1. x2' = Feature!OneByOne[Len(x1)].published
      BY <1>1, <1>2, <1>7, JobGradesTheRest DEF Cut
  <2>2. ASSUME NEW i \in Feature!Valid' PROVE x1'[i].processed /\ i <= Len(x1)
    <3>1. i \in 1 .. Len(x1) /\ x1[i].valid
        BY <1>3, <1>4 DEF Feature!Valid
    <3>2. x1[i].processed \/ i \in now
        BY <1>4, <3>1 DEF now, Feature!Pending, Feature!Valid
    <3> QED
        BY <1>3, <1>4, <3>1, <3>2
  <2>3. Len(x1) \in 0 .. Len(x1)
      BY <1>4
  <2> QED
      BY <2>1, <2>2, <2>3
<1>8. Len(x1) <= Len(x1') /\ Len(x1') <= MaxFeatureReports
    BY <1>2, <1>3, <1>4
<1> QED
    BY <1>1, <1>3, <1>6, <1>7, <1>8, LogGrows

LEMMA InvalidAreRetired ==
    ASSUME FeaturesInv, Feature!RetireInvalid
    PROVE  FeaturesInv'
<1> DEFINE now == {i \in DOMAIN x1 : ~x1[i].valid}
<1>1. /\ x1' = [i \in DOMAIN x1 |-> [x1[i] EXCEPT !.processed = @ \/ i \in now]]
      /\ x2' = x2 /\ x3' = x3
  <2>1. \A i \in DOMAIN x1 : i \in now <=> ~x1[i].valid
      OBVIOUS
  <2>2. /\ x1' = [i \in DOMAIN x1 |-> [x1[i] EXCEPT !.processed = @ \/ ~x1[i].valid]]
        /\ x2' = x2 /\ x3' = x3
      BY DEF Feature!RetireInvalid
  <2> HIDE DEF now
  <2> QED
      BY <2>1, <2>2
<1>2. Logged /\ x2 \in Feature!Published /\ x3 \in Catalogs /\ Len(x1) <= MaxFeatureReports
    BY DEF FeaturesInv, Feature!FeaturesTypeOK, Logged
<1> HIDE DEF now
<1>3. /\ x1' \in Seq(Feature!ReportOf) /\ Len(x1') = Len(x1) /\ DOMAIN x1' = DOMAIN x1
      /\ \A i \in 1 .. Len(x1) : /\ x1'[i].says = x1[i].says
                                 /\ x1'[i].at = x1[i].at
                                 /\ x1'[i].valid = x1[i].valid
                                 /\ x1'[i].processed <=> x1[i].processed \/ i \in now
    BY <1>1, <1>2, ReportsAreMarked
<1>4. DOMAIN x1 = 1 .. Len(x1) /\ Len(x1) \in Nat
    BY <1>2 DEF Logged
<1>5. Feature!FeaturesTypeOK'
    BY <1>1, <1>2, <1>3 DEF Feature!FeaturesTypeOK, Feature!Published
<1>6. ASSUME NEW n, Cut(n)
      PROVE  \E m \in 0 .. Len(x1) :
                 /\ \A i \in Feature!Valid' : x1'[i].processed <=> i <= m
                 /\ x2' = Feature!OneByOne[m].published
  <2>1. n \in 0 .. Len(x1) /\ x2' = Feature!OneByOne[n].published
      BY <1>1, <1>6 DEF Cut
  <2>2. ASSUME NEW i \in Feature!Valid' PROVE x1'[i].processed <=> i <= n
    <3>1. i \in 1 .. Len(x1) /\ x1[i].valid /\ i \in Feature!Valid /\ i \notin now
        BY <1>3, <1>4 DEF Feature!Valid, now
    <3> QED
        BY <1>3, <1>6, <3>1 DEF Cut
  <2> QED
      BY <2>1, <2>2
<1>7. Len(x1) <= Len(x1') /\ Len(x1') <= MaxFeatureReports
    BY <1>2, <1>3, <1>4
<1> QED
    BY <1>1, <1>3, <1>5, <1>6, <1>7, LogGrows

LEMMA CatalogIsSeeded ==
    ASSUME FeaturesInv, Feature!SeedCatalog
    PROVE  FeaturesInv'
<1> DEFINE stored == [f \in Features |-> IF f \in x3 /\ x2.stored[f] = "unasked" THEN "yes" ELSE x2.stored[f]]
           m1     == [x2 EXCEPT !.stored = stored]
           made   == [m1 EXCEPT !.confirmed = TRUE]
<1>1. x2 \in Feature!Published
    BY DEF FeaturesInv, Feature!FeaturesTypeOK
<1>2. x1' = x1 /\ x3' = x3 /\ x3 # {} /\ x2' = made
  <2>1. /\ x1' = x1 /\ x3' = x3 /\ \E f \in x3 : x2.stored[f] = "unasked"
        /\ x2' = [x2 EXCEPT
            !.stored = [f \in Features |-> IF f \in x3 /\ @[f] = "unasked" THEN "yes" ELSE @[f]],
            !.confirmed = TRUE]
      BY DEF Feature!SeedCatalog
  <2>2. x2' = made
      BY <1>1, <2>1 DEF Feature!Published
  <2> QED
      BY <2>1, <2>2
<1>3. stored \in [Features -> Feature!Given \cup {"unasked"}]
    BY <1>1 DEF Feature!Published, Feature!Given
<1> HIDE DEF stored
<1>4. made \in Feature!Published
    BY <1>1, <1>3 DEF Feature!Published
<1> HIDE DEF made
<1>5. Feature!FeaturesTypeOK'
    BY <1>2, <1>4 DEF FeaturesInv, Feature!FeaturesTypeOK, Feature!Published, Feature!ReportOf
<1>6. Feature!BatchingDoesNotMatter'
    BY <1>2 DEF Feature!BatchingDoesNotMatter
<1> QED
    BY <1>2, <1>5, <1>6 DEF FeaturesInv

LEMMA FeaturesStep ==
    ASSUME FeaturesInv, Feature!FeaturesNext
    PROVE  FeaturesInv'
BY FeaturesAreSubmitted, VehicleIsProcessed, InvalidAreRetired, CatalogIsSeeded DEF Feature!FeaturesNext


-----------------------------------------------------------------------------
(* The parts side by side, those of RidersProofs with them. *)

ThePart == part \in {"dibs", "watches", "reports", "checks", "features", "referrals", "off_feed",
                     "awards", "images", "places", "settings", "limits"}

EntrustedInv ==
    /\ ThePart
    /\ RidersInv
    /\ part = "features"  => FeaturesInv
    /\ part = "referrals" => ReferralsInv
    /\ part = "off_feed"  => OffRidesInv
    /\ part = "awards"    => AwardsInv
    /\ part = "images"    => ImagesInv
    /\ part = "places"    => PlacesInv
    /\ part = "settings"  => SettingsInv
    /\ part = "limits"    => LimitsInv

LEMMA InitEntrustedInv == MCInit => EntrustedInv
<1> SUFFICES ASSUME MCInit PROVE EntrustedInv
    OBVIOUS
<1>1. ThePart /\ RidersInv
    BY InitRidersInv DEF MCInit, ThePart
<1>2. /\ part = "features"  => Feature!FeaturesInit
      /\ part = "referrals" => Referral!ReferralsInit
      /\ part = "off_feed"  => Ride!OffRidesInit
      /\ part = "awards"    => Award!AwardsInit
      /\ part = "images"    => Image!ImagesInit
      /\ part = "places"    => Place!PlacesInit
      /\ part = "settings"  => Setting!BlobsInit
      /\ part = "limits"    => Limit!LimitInit
    BY DEF MCInit
<1> QED
    BY <1>1, <1>2, InitFeaturesInv, InitReferralsInv, InitOffRidesInv, InitAwardsInv, InitImagesInv,
       InitPlacesInv, InitSettingsInv, InitLimitsInv
       DEF EntrustedInv

\* Invariants say nothing of a step that changes nothing.
LEMMA NothingHappens ==
    ASSUME EntrustedInv, UNCHANGED MCvars
    PROVE  EntrustedInv'
<1> USE DEF MCvars
<1>1. ReferralsInv => ReferralsInv'
    BY DEF ReferralsInv, Referral!ReferralsTypeOK, Referral!Existing
<1>2. SettingsInv => SettingsInv'
    BY DEF SettingsInv, Setting!BlobsTypeOK, Setting!Others
<1>3. LimitsInv => LimitsInv'
    BY DEF LimitsInv, Counted, Limit!LimitTypeOK
<1>4. AwardsInv => AwardsInv'
  <2>1. Award!AwardsTypeOK => Award!AwardsTypeOK'
      BY DEF Award!AwardsTypeOK
  <2>2. \A a : Award!Room(a) <=> Award!Room(a)'
      BY DEF Award!Room, Award!PaidFor, Award!PaidTo
  <2>3. Award!AwardsWithinRules => Award!AwardsWithinRules'
      BY DEF Award!AwardsWithinRules, Award!AwardsApart, Award!PaidFor, Award!PaidTo
  <2> QED
      BY <2>1, <2>2, <2>3 DEF AwardsInv, Award!LockKey
<1>5. PlacesInv => PlacesInv'
    BY DEF PlacesInv, PairsGone, Stands, Place!Merged, Place!Current, Place!Readable
<1>6. ImagesInv => ImagesInv'
    BY DEF ImagesInv, ImagesTyped, UnusedIsUnknown, RowsApart, UploadsApart, PendingIsOwn,
       SupersededIsOwn, TakenIsNotNeeded, RowsImage
<1>7. OffRidesInv => OffRidesInv'
    BY DEF OffRidesInv, RideFits, AppendFits, Appending, On
<1>8. FeaturesInv => FeaturesInv'
  <2> SUFFICES ASSUME FeaturesInv PROVE FeaturesInv'
      OBVIOUS
  <2>1. /\ Feature!FeaturesTypeOK' /\ Len(x1') <= MaxFeatureReports
        /\ Len(x1) <= Len(x1') /\ x3' = x3
        /\ \A i \in 1 .. Len(x1) : /\ x1'[i].says = x1[i].says
                                   /\ x1'[i].at = x1[i].at
                                   /\ x1'[i].valid = x1[i].valid
      BY DEF FeaturesInv, Feature!FeaturesTypeOK
  <2>2. ASSUME NEW n, InTurn, x3 = {}, Cut(n)
        PROVE  \E m \in 0 .. Len(x1) :
                   /\ \A i \in Feature!Valid' : x1'[i].processed <=> i <= m
                   /\ x2' = Feature!OneByOne[m].published
      BY <2>2 DEF Cut, Feature!Valid
  <2> QED
      BY <2>1, <2>2, LogGrows
<1>9. ThePart' /\ RidersInv' /\ part' = part
    BY NoStep DEF EntrustedInv, ThePart
<1>10. /\ part = "features"  => FeaturesInv
       /\ part = "referrals" => ReferralsInv
       /\ part = "off_feed"  => OffRidesInv
       /\ part = "awards"    => AwardsInv
       /\ part = "images"    => ImagesInv
       /\ part = "places"    => PlacesInv
       /\ part = "settings"  => SettingsInv
       /\ part = "limits"    => LimitsInv
    BY DEF EntrustedInv
<1> QED
    BY <1>1, <1>2, <1>3, <1>4, <1>5, <1>6, <1>7, <1>8, <1>9, <1>10 DEF EntrustedInv

LEMMA NextEntrustedInv == EntrustedInv /\ [MCNext]_MCvars => EntrustedInv'
<1> SUFFICES ASSUME EntrustedInv, MCNext PROVE EntrustedInv'
    BY NothingHappens
<1>1. part' = part /\ ThePart' /\ RidersInv'
    BY NextRidersInv DEF EntrustedInv, ThePart, MCNext
<1>2. /\ part = "features"  => FeaturesInv /\ Feature!FeaturesNext
      /\ part = "referrals" => ReferralsInv /\ Referral!ReferralsNext
      /\ part = "off_feed"  => OffRidesInv /\ Ride!OffRidesNext
      /\ part = "awards"    => AwardsInv /\ Award!AwardsNext
      /\ part = "images"    => ImagesInv /\ Image!ImagesNext
      /\ part = "places"    => PlacesInv /\ Place!PlacesNext
      /\ part = "settings"  => SettingsInv /\ Setting!BlobsNext
      /\ part = "limits"    => LimitsInv /\ Limit!LimitNext
    BY DEF EntrustedInv, MCNext
<1> QED
    BY <1>1, <1>2, FeaturesStep, ReferralsStep, OffRidesStep, AwardsStep, ImagesStep, PlacesStep,
       SettingsStep, LimitsStep
       DEF EntrustedInv

\* Every row, claim, request and job that riders and the jobs behind them make has its type:
\* what its handler assigns to it, from any state the handlers can reach, however many there
\* are of each (dibs_watch, admin_watch, fleet_reports, condition_checks, device_features,
\* dibs_referrals, off_feed_rides, awards, the image stores, profile_pii, user_settings and
\* rate_limit).
THEOREM RidersTypeOKHolds == MCSpec => []RidersTypeOK
<1>1. EntrustedInv => RidersTypeOK
  <2> SUFFICES ASSUME EntrustedInv PROVE RidersTypeOK
      OBVIOUS
  <2>1. /\ part = "dibs"      => Dibs!DibsTypeOK
        /\ part = "watches"   => Watch!WatchTypeOK
        /\ part = "reports"   => Fleet!ReportsTypeOK
        /\ part = "checks"    => Check!ChecksTypeOK
      BY DEF EntrustedInv, RidersInv, DibsInv, WatchInv, ReportsInv, ChecksInv
  <2>2. /\ part = "features"  => Feature!FeaturesTypeOK
        /\ part = "referrals" => Referral!ReferralsTypeOK
        /\ part = "off_feed"  => Ride!OffRidesTypeOK
        /\ part = "awards"    => Award!AwardsTypeOK
      BY OffRidesKept DEF EntrustedInv, FeaturesInv, ReferralsInv, AwardsInv
  <2>3. /\ part = "images"    => Image!ImagesTypeOK
        /\ part = "places"    => Place!PlacesTypeOK
        /\ part = "settings"  => Setting!BlobsTypeOK
        /\ part = "limits"    => Limit!LimitTypeOK
      BY ImagesKept, PlacesKept DEF EntrustedInv, SettingsInv, LimitsInv
  <2>4. CASE part = "dibs"
      BY <2>1, <2>4 DEF RidersTypeOK
  <2>5. CASE part = "watches"
      BY <2>1, <2>5 DEF RidersTypeOK
  <2>6. CASE part = "reports"
      BY <2>1, <2>6 DEF RidersTypeOK
  <2>7. CASE part = "checks"
      BY <2>1, <2>7 DEF RidersTypeOK
  <2>8. CASE part = "features"
      BY <2>2, <2>8 DEF RidersTypeOK
  <2>9. CASE part = "referrals"
      BY <2>2, <2>9 DEF RidersTypeOK
  <2>10. CASE part = "off_feed"
      BY <2>2, <2>10 DEF RidersTypeOK
  <2>11. CASE part = "awards"
      BY <2>2, <2>11 DEF RidersTypeOK
  <2>12. CASE part = "images"
      BY <2>3, <2>12 DEF RidersTypeOK
  <2>13. CASE part = "places"
      BY <2>3, <2>13 DEF RidersTypeOK
  <2>14. CASE part = "settings"
      BY <2>3, <2>14 DEF RidersTypeOK
  <2>15. CASE part = "limits"
      BY <2>3, <2>15 DEF RidersTypeOK
  <2> QED
      BY <2>4, <2>5, <2>6, <2>7, <2>8, <2>9, <2>10, <2>11, <2>12, <2>13, <2>14, <2>15
         DEF EntrustedInv, ThePart
<1> QED
    BY <1>1, InitEntrustedInv, NextEntrustedInv, PTL DEF MCSpec

\* What is entrusted to the service is what the service keeps, however many requests, jobs
\* and crashes overlap: a row that shows an image has it (the photo, receipt and screenshot
\* stores, their retention job and the orphan sweep); an off-feed ride is as long as its
\* track, unless its writer was overtaken (off_feed_rides); the places stand as they were
\* last edited, unless a read was overtaken (profile_pii); the named settings are within
\* their cap (user_settings); the answers about a scooter are those that its reports give
\* one by one, whichever way the jobs cut them (device_features); a watch's baseline is what
\* its admin was told (admin_watch); and a held report has a check that will let it go
\* (condition_checks).
THEOREM NothingIsLostHolds == MCSpec => []NothingIsLost
<1>1. EntrustedInv => NothingIsLost
  <2> SUFFICES ASSUME EntrustedInv PROVE NothingIsLost
      OBVIOUS
  <2>1. /\ part = "images"   => Image!RowKeepsItsImage
        /\ part = "off_feed" => Ride!DistanceIsWholeRideUnlessOvertaken
        /\ part = "places"   => Place!EditsStandUnlessOvertaken
        /\ part = "settings" => Setting!CapBindsNewNamesOnly
      BY ImagesKept, OffRidesKept, PlacesKept, SettingsKept DEF EntrustedInv
  <2>2. /\ part = "features" => Feature!BatchingDoesNotMatter
        /\ part = "watches"  => Watch!BaselineIsTold
        /\ part = "checks"   => Check!HeldReportHasCheck
      BY HeldAndTold DEF EntrustedInv, FeaturesInv
  <2> QED
      BY <2>1, <2>2 DEF NothingIsLost
<1> QED
    BY <1>1, InitEntrustedInv, NextEntrustedInv, PTL DEF MCSpec

LEMMA NextRules ==
    /\ AwardsInv' => Award!AwardsWithinRules'
    /\ LimitsInv' => Limit!WindowNeverOverfull'
<1>1. AwardsInv => Award!AwardsWithinRules
    BY DEF AwardsInv
<1> QED
    BY <1>1, WindowsHold, PTL

\* Whatever overlaps, points for anything but a ride are paid by the published rules: each
\* award within its window and its caps (awards.award and its advisory locks), a check's
\* bonus after its base and never for a rider's own reports (condition_checks), and the two
\* debts of a referral once (dibs_referrals.settle); and no window of a shared limit is
\* overfull, however long a request waits for the lock with its time already read
\* (rate_limit.enforce).
THEOREM RulesHoldHolds == MCSpec => RulesHold
<1>1. EntrustedInv /\ [MCNext]_MCvars =>
        [/\ part = "awards"    => Award!AwardsWithinRules'
         /\ part = "checks"    => Check!CheckAwardsEarned
         /\ part = "referrals" => Referral!DebtsSettledOnce
         /\ part = "limits"    => Limit!WindowNeverOverfull']_MCvars
  <2> SUFFICES ASSUME EntrustedInv, MCNext
               PROVE  /\ part = "awards"    => Award!AwardsWithinRules'
                      /\ part = "checks"    => Check!CheckAwardsEarned
                      /\ part = "referrals" => Referral!DebtsSettledOnce
                      /\ part = "limits"    => Limit!WindowNeverOverfull'
      OBVIOUS
  <2>1. EntrustedInv' /\ part' = part
      BY NextEntrustedInv DEF MCNext
  <2>2. /\ part = "awards" => Award!AwardsWithinRules'
        /\ part = "limits" => Limit!WindowNeverOverfull'
      BY <2>1, NextRules DEF EntrustedInv
  <2>3. part = "referrals" => Referral!DebtsSettledOnce
      BY ReferralsStep DEF EntrustedInv, MCNext
  <2>4. part = "checks" => Check!CheckAwardsEarned
      BY ChecksFollow DEF EntrustedInv, RidersInv, MCNext
  <2> QED
      BY <2>2, <2>3, <2>4
<1> QED
    BY <1>1, InitEntrustedInv, NextEntrustedInv, PTL DEF MCSpec, RulesHold

=============================================================================
