----------------------------- MODULE Referrals ------------------------------
(***************************************************************************)
(* Referrals and stand-downs: made on a certificate's page                  *)
(* (src/api_dibs.py) for a contact that may or may not belong to a rider,   *)
(* and paid by the first donated ride of a rider who has that contact       *)
(* (settle_referrals_for_account in src/points.py).  The introducer is      *)
(* stored as the public username on the certificate.                        *)
(***************************************************************************)
EXTENDS Naturals, FiniteSets

CONSTANTS
    Referrals,     \* ids of referrals rows
    Riders,        \* accounts
    Handles,       \* public usernames
    Contacts       \* e-mail addresses and numbers, normalised

POINTS_REFERRAL            == 100
STAND_DOWN_POINTS_NEW      == 300
STAND_DOWN_POINTS_EXISTING == 50

NoContact == "no_contact"
Anonymous == "anonymous"       \* a certificate that names no account

VARIABLES
    rider,         \* accounts
    referral,      \* referrals
    payments       \* user_points rows whose source is a referral

referralVars == <<rider, referral, payments>>

Rider    == [exists : BOOLEAN, handle : Handles \cup {Anonymous}, contacts : SUBSET Contacts]
Row      == [kind : {"none", "referral", "stand_down"}, by : Handles \cup {Anonymous},
             introducer : Riders \cup {Anonymous}, contact : Contacts \cup {NoContact},
             owed : {0, STAND_DOWN_POINTS_NEW, STAND_DOWN_POINTS_EXISTING},
             late : BOOLEAN, awarded : BOOLEAN]
Payment  == [source : Referrals, action : {"referral", "stand_down"}, to : Riders,
             points : {POINTS_REFERRAL, STAND_DOWN_POINTS_NEW, STAND_DOWN_POINTS_EXISTING}]

NoRider    == [exists |-> FALSE, handle |-> Anonymous, contacts |-> {}]
NoReferral == [kind |-> "none", by |-> Anonymous, introducer |-> Anonymous,
               contact |-> NoContact, owed |-> 0, late |-> FALSE, awarded |-> FALSE]

ReferralsInit ==
    /\ rider = [a \in Riders |-> NoRider]
    /\ referral = [r \in Referrals |-> NoReferral]
    /\ payments = {}

-----------------------------------------------------------------------------
Existing   == {a \in Riders : rider[a].exists}
HandleOf(h) == {a \in Existing : rider[a].handle = h}
HasContact(c) == {a \in Existing : c \in rider[a].contacts}

(* Accounts: addresses and handles are unique.                              *)

SignUp(a, h, c) ==
    /\ ~rider[a].exists
    /\ HandleOf(h) = {}
    /\ HasContact(c) = {}
    /\ rider' = [rider EXCEPT ![a] = [exists |-> TRUE, handle |-> h, contacts |-> {c}]]
    /\ UNCHANGED <<referral, payments>>

\* choose_public_username, or a reroll.
ChangeHandle(a, h) ==
    /\ rider[a].exists
    /\ HandleOf(h) = {}
    /\ rider' = [rider EXCEPT ![a].handle = h]
    /\ UNCHANGED <<referral, payments>>

\* A profile edit that fills in the other address, or takes one out.
EditContacts(a, contacts) ==
    /\ rider[a].exists
    /\ contacts # {}
    /\ \A c \in contacts : HasContact(c) \subseteq {a}
    /\ rider' = [rider EXCEPT ![a].contacts = contacts]
    /\ UNCHANGED <<referral, payments>>

-----------------------------------------------------------------------------
(* The certificate's page.  `a` is who called dibs, if it was an account.   *)

NameOn(a) == IF a = Anonymous THEN Anonymous ELSE rider[a].handle

DibsRefer(r, a, c) ==
    /\ referral[r].kind = "none"
    /\ a = Anonymous \/ a \in Existing
    /\ referral' = [referral EXCEPT ![r] = [NoReferral EXCEPT
            !.kind = "referral", !.by = NameOn(a), !.introducer = a, !.contact = c]]
    /\ UNCHANGED <<rider, payments>>

\* The rate is decided now, by whether the number belongs to an account.
StandDownRate(c) == IF HasContact(c) = {} THEN STAND_DOWN_POINTS_NEW
                                          ELSE STAND_DOWN_POINTS_EXISTING

DibsStandDown(r, a, c) ==
    /\ referral[r].kind = "none"
    /\ a = Anonymous \/ a \in Existing
    /\ referral' = [referral EXCEPT ![r] = [NoReferral EXCEPT
            !.kind = "stand_down", !.by = NameOn(a), !.introducer = a, !.contact = c,
            !.owed = StandDownRate(c)]]
    /\ UNCHANGED <<rider, payments>>

Midnight ==
    /\ \E r \in Referrals : referral[r].kind = "stand_down" /\ ~referral[r].late
    /\ referral' = [r \in Referrals |-> [referral[r] EXCEPT !.late = referral[r].kind = "stand_down"]]
    /\ UNCHANGED <<rider, payments>>

-----------------------------------------------------------------------------
(* settle_referrals_for_account, in the transaction of a track donation.    *)
(* The UPDATE that selects the rows locks them, so two rides that match one *)
(* row are paid one after the other.                                        *)

PendingFor(a) == {r \in Referrals : /\ referral[r].contact \in rider[a].contacts
                                    /\ ~referral[r].awarded}

\* _account_id_for_username: whoever has the name now, if anyone.
OwedToIntroducer(rows) ==
    UNION {[source : {r}, action : {"referral"}, to : HandleOf(referral[r].by),
            points : {POINTS_REFERRAL}] : r \in rows}

OwedToNewcomer(rows, a) ==
    UNION {[source : {r}, action : {"stand_down"}, to : {a}, points : {referral[r].owed}]
                : r \in {x \in rows : referral[x].kind = "stand_down" /\ ~referral[x].late}}

\* credit_points: one row for a source and an action, whoever it was paid to.
NotYetPaid(ps) ==
    {p \in ps : ~\E q \in payments : q.source = p.source /\ q.action = p.action}

SettleReferrals(a) ==
    /\ rider[a].exists
    /\ PendingFor(a) # {}
    /\ payments' = payments \cup NotYetPaid(OwedToIntroducer(PendingFor(a))
                                                \cup OwedToNewcomer(PendingFor(a), a))
    /\ referral' = [r \in Referrals |-> IF r \in PendingFor(a)
                                        THEN [referral[r] EXCEPT !.awarded = TRUE]
                                        ELSE referral[r]]
    /\ UNCHANGED rider

ReferralsNext ==
    \/ \E a \in Riders, h \in Handles, c \in Contacts : SignUp(a, h, c)
    \/ \E a \in Riders, h \in Handles : ChangeHandle(a, h)
    \/ \E a \in Riders, cs \in SUBSET Contacts : EditContacts(a, cs)
    \/ \E r \in Referrals, a \in Riders \cup {Anonymous}, c \in Contacts :
            DibsRefer(r, a, c) \/ DibsStandDown(r, a, c)
    \/ Midnight
    \/ \E a \in Riders : SettleReferrals(a)

ReferralsSpec == ReferralsInit /\ [][ReferralsNext]_referralVars

-----------------------------------------------------------------------------
(* Properties.                                                              *)

ReferralsTypeOK ==
    /\ rider \in [Riders -> Rider]
    /\ referral \in [Referrals -> Row]
    /\ payments \subseteq Payment

\* A row's two debts are each paid once at most, in the one step that settles it and to one
\* rider, and the newcomer's not after the midnight its page printed, whatever becomes of the
\* accounts, the addresses and the handles in between (settle_referrals_for_account).
DebtsSettledOnce ==
    /\ \A p \in payments' \ payments :
         /\ ~referral[p.source].awarded /\ referral'[p.source].awarded
         /\ \A q \in payments' : q.source = p.source => q \notin payments /\ (q = p \/ q.action # p.action)
         /\ p.action = "stand_down" => ~referral[p.source].late
    /\ payments \subseteq payments'
=============================================================================
