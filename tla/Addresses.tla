----------------------------- MODULE Addresses -----------------------------
(* The addresses an account is reached at and proves (src/accounts.py).     *)
CONSTANTS
    Accounts,         \* ids of accounts rows
    Emails, Phones    \* normalised addresses: lower case, and E.164

None         == "none"           \* a NULL email or phone_number
NoAccount    == "no_account"
Destinations == Emails \cup Phones

ASSUME AddressAssumption ==
    /\ Emails \cap Phones = {}
    /\ None \notin Destinations
    /\ NoAccount \notin Accounts
=============================================================================
