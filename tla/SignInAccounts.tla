--------------------------- MODULE SignInAccounts ---------------------------
(***************************************************************************)
(* Who an address belongs to: the accounts of src/accounts.py, their        *)
(* e-mail, their phone number and its proof.                                *)
(*                                                                          *)
(* A number written to a profile is an assertion; a code typed back is a    *)
(* proof, and a proof takes the number from whoever merely asserted it.     *)
(* The transactions that act on a proof lock the *number* (_lock_phone);    *)
(* they read its holder without locking the holder's row, and a profile     *)
(* edit locks its own row and no number.  So such a transaction is two      *)
(* actions here, its reads and its writes; the edit is one.                 *)
(***************************************************************************)
EXTENDS Addresses, FiniteSets, Naturals

CONSTANTS Proofs      \* verification requests whose code was right

VARIABLES
    account,     \* the accounts table; neither address: no such row yet
    claim        \* where each proven request stands

accountsVars == <<account, claim>>

Account == [email : Emails \cup {None}, phone : Phones \cup {None}, verified : BOOLEAN]
Claim   == [stage : {"idle", "read", "done"}, by : Accounts \cup {NoAccount},
            phone : Phones \cup {None}, holder : Accounts \cup {NoAccount},
            session : Accounts \cup {NoAccount}]

NoRow      == [email |-> None, phone |-> None, verified |-> FALSE]
BlankClaim == [stage |-> "idle", by |-> NoAccount, phone |-> None,
               holder |-> NoAccount, session |-> NoAccount]

AccountsInit ==
    /\ account = [a \in Accounts |-> NoRow]
    /\ claim = [k \in Proofs |-> BlankClaim]

-----------------------------------------------------------------------------
Exists(a)    == account[a].email # None \/ account[a].phone # None
Holders(p)   == {a \in Accounts : account[a].phone = p}
Proved(a, p) == account[a].phone = p /\ account[a].verified

\* Mutation: whoever has typed the number owns it.
OwnersByAssertion(p) == Holders(p)
\* Who signs in with the number: phone_verified_at IS NOT NULL.
Owners(p) == {a \in Accounts : Proved(a, p)}

\* The constraints of the table: unique addresses, and one of them at least in every row.
\* Mutation: no unique key on the number.
UniqueEmails(rows) ==
    \A a, b \in Accounts : a # b /\ rows[a].email # None => rows[a].email # rows[b].email
Unique(rows) ==
    \A a, b \in Accounts : a # b =>
        /\ rows[a].email # None => rows[a].email # rows[b].email
        /\ rows[a].phone # None => rows[a].phone # rows[b].phone
HasAddress(row) == row.email # None \/ row.phone # None

-----------------------------------------------------------------------------
(* The doors that prove an e-mail address: upsert_account, one statement.   *)
EmailSignIn(a, e) ==
    /\ \A b \in Accounts : account[b].email # e
    /\ ~Exists(a)
    /\ account' = [account EXCEPT ![a] = [NoRow EXCEPT !.email = e]]
    /\ UNCHANGED claim

-----------------------------------------------------------------------------
(* PUT /api/v1/profile, under its own row's lock.                           *)

\* The edit that would destroy the last door: a proved number, and no e-mail.
\* Mutation: any edit that leaves an address is accepted.
NeverDestroysLastDoor(a, email) == FALSE
DestroysLastDoor(a, email) == email = None /\ account[a].verified

EditRow(a, row) ==
    /\ Exists(a)
    /\ HasAddress(row)
    /\ account' = [account EXCEPT ![a] = row]
    /\ Unique(account')
    /\ UNCHANGED claim

PutEmail(a, email) ==
    EditRow(a, [account[a] EXCEPT !.email = email])

\* Writing the number, even the same one, drops its proof.
PutPhone(a, email, phone) ==
    /\ ~DestroysLastDoor(a, email)
    /\ EditRow(a, [email |-> email, phone |-> phone, verified |-> FALSE])

-----------------------------------------------------------------------------
(* A code came back: upsert_account_by_phone for the SMS door, and          *)
(* claim_verified_phone for the profile of a signed-in account.             *)

\* Mutation: no advisory lock on the number.
NeverLocked(p) == FALSE
PhoneLocked(p) == \E k \in Proofs : claim[k].stage = "read" /\ claim[k].phone = p

Ends(k, by, p, session) ==
    claim' = [claim EXCEPT ![k] = [BlankClaim EXCEPT !.stage = "done", !.by = by,
                                                     !.phone = p, !.session = session]]

Reads(k, by, p, holder) ==
    claim' = [claim EXCEPT ![k] = [BlankClaim EXCEPT !.stage = "read", !.by = by,
                                                     !.phone = p, !.holder = holder]]

ProofBegins(k, by, p) ==
    /\ claim[k].stage = "idle"
    /\ by # NoAccount => Exists(by)
    /\ ~PhoneLocked(p)
    /\ UNCHANGED account

\* The proven owner signs in again.
OwnerSignsIn(k, p) ==
    \E a \in Owners(p) : ProofBegins(k, NoAccount, p) /\ Ends(k, NoAccount, p, a)

\* PhoneNumberTaken: only the profile door can meet another account's proof.
ProofTaken(k, by, p) ==
    /\ ProofBegins(k, by, p)
    /\ by # NoAccount
    /\ Owners(p) \ {by} # {}
    /\ Ends(k, by, p, NoAccount)

\* PhoneNumberContested: the holder asserts the number and has no other address.
ProofContested(k, by, p) ==
    /\ ProofBegins(k, by, p)
    /\ \E a \in Holders(p) \ {by} : ~account[a].verified /\ account[a].email = None
    /\ Ends(k, by, p, NoAccount)

\* The reads of _release_unverified_holder.  Nothing is locked but the number.
Releasable(a) == ~account[a].verified /\ account[a].email # None

ProofReads(k, by, p) ==
    /\ ProofBegins(k, by, p)
    /\ \/ Holders(p) \subseteq {by} /\ Reads(k, by, p, NoAccount)
       \/ \E a \in Holders(p) \ {by} : Releasable(a) /\ Reads(k, by, p, a)

\* UPDATE accounts SET phone_number = NULL WHERE id = the holder that was read.
Released(k) ==
    [a \in Accounts |-> IF a = claim[k].holder THEN [account[a] EXCEPT !.phone = None]
                                               ELSE account[a]]

\* The writes: the holder's number, then the claimant's row, or a new one.
ProofWrites(k) ==
    \E target \in Accounts :
        LET row  == [email |-> account[target].email, phone |-> claim[k].phone, verified |-> TRUE]
            rows == [Released(k) EXCEPT ![target] = row] IN
        /\ claim[k].stage = "read"
        /\ IF claim[k].by = NoAccount THEN ~Exists(target) ELSE target = claim[k].by
        /\ claim[k].holder # NoAccount => HasAddress(Released(k)[claim[k].holder])
        /\ Unique(rows)
        /\ account' = rows
        /\ Ends(k, claim[k].by, claim[k].phone, IF claim[k].by = NoAccount THEN target
                                                                           ELSE NoAccount)

\* A constraint is violated, or the process dies: the transaction is rolled back.
ProofRolledBack(k) ==
    /\ claim[k].stage = "read"
    /\ Ends(k, claim[k].by, claim[k].phone, NoAccount)
    /\ UNCHANGED account

Claimants == Accounts \cup {NoAccount}

AccountsNext ==
    \/ \E a \in Accounts, e \in Emails : EmailSignIn(a, e)
    \/ \E a \in Accounts, e \in Emails \cup {None} : PutEmail(a, e)
    \/ \E a \in Accounts, e \in Emails \cup {None}, p \in Phones \cup {None} : PutPhone(a, e, p)
    \/ \E k \in Proofs, p \in Phones : OwnerSignsIn(k, p)
    \/ \E k \in Proofs, by \in Claimants, p \in Phones : ProofTaken(k, by, p)
    \/ \E k \in Proofs, by \in Claimants, p \in Phones : ProofContested(k, by, p)
    \/ \E k \in Proofs, by \in Claimants, p \in Phones : ProofReads(k, by, p)
    \/ \E k \in Proofs : ProofWrites(k)
    \/ \E k \in Proofs : ProofRolledBack(k)

AccountsSpec == AccountsInit /\ [][AccountsNext]_accountsVars

-----------------------------------------------------------------------------
(* Properties.                                                              *)

\* The shape of the rows, and a number is in one row at most.
AccountsTypeOK ==
    /\ account \in [Accounts -> Account]
    /\ claim \in [Proofs -> Claim]
    /\ \A p \in Phones : Cardinality(Holders(p)) <= 1

\* An account whose only way in is a proved number keeps one way in, through its own
\* edits and through the claims of others (put_profile: "the one edit that would destroy
\* the rider's last door").
LastDoorKept ==
    [][\A a \in Accounts :
        (\E p \in Phones : account[a].email = None /\ Proved(a, p)) =>
            (account'[a].email # None \/ \E p \in Phones : Proved(a, p)')]_accountsVars

\* A proved number passes to another account only after its owner has let it go: proofs
\* do not beat proofs (PhoneNumberTaken), however the two transactions interleave.
ProofNotTaken ==
    [][\A a, b \in Accounts, p \in Phones :
        (a # b /\ Proved(a, p)) => ~Proved(b, p)']_accountsVars

\* An SMS sign-in opens the account that proved the number, or a new one, and never an
\* account that merely typed it into its profile (upsert_account_by_phone).
NeverAdopted ==
    [][\A k \in Proofs, a \in Accounts, p \in Phones :
        (claim[k].session = NoAccount /\ claim'[k].session = a /\ claim'[k].phone = p) =>
            /\ Exists(a) => Proved(a, p)
            /\ Proved(a, p)']_accountsVars
=============================================================================
