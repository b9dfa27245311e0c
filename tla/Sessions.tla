------------------------------ MODULE Sessions ------------------------------
(***************************************************************************)
(* Bearer sessions, the links that are emailed for them and the allowlist   *)
(* of administrators (src/accounts.py, src/api_auth.py).  A request first   *)
(* loads its session in a transaction of its own, and the handler acts on   *)
(* what it loaded; the removal of an administrator counts and deletes under *)
(* an advisory lock that the portal's removal does not take.                *)
(*                                                                          *)
(* There are two kinds of door: Google, a link and an e-mailed code prove   *)
(* an address, which is the account's; a texted code proves a number, and   *)
(* no address is then looked up, though the account may have one.           *)
(*                                                                          *)
(* A tick is ADMIN_SESSION_HOURS; a link's minutes are a step of their own. *)
(***************************************************************************)
EXTENDS Naturals, FiniteSets

CONSTANTS
    Tokens,            \* auth_sessions rows
    Links,             \* magic_link_tokens rows
    Members,           \* accounts, each with its address
    PhoneOnly,         \* those that signed in by phone and have none
    Requests,          \* requests in flight
    MaxSessionClock    \* bound: ticks

AdminHours == 1
RiderDays  == 2
Nobody     == "nobody"

\* Nobody holds no request, and the allowlist can be counted.
ASSUME SessionsAssumption ==
    /\ Nobody \notin Requests
    /\ IsFiniteSet(Members)
    /\ PhoneOnly \subseteq Members
    /\ MaxSessionClock \in Nat

VARIABLES
    now,          \* the time
    session,      \* auth_sessions
    link,         \* magic_link_tokens
    allowlist,    \* admin_allowlist
    request,      \* what each request has loaded, or counted
    listLock,     \* who holds the advisory lock on the allowlist
    portalUsed    \* history: a removal that takes no lock has run

sessionVars == <<now, session, link, allowlist, request, listLock, portalUsed>>

Ticks       == 0 .. MaxSessionClock
Expiry      == 0 .. MaxSessionClock + RiderDays
SignInDoors == {"email", "phone"}
\* listed is history: whether its member was in the allowlist at the sign-in.
Token  == [life : {"none", "valid", "revoked"}, of : Members \cup {Nobody},
           door : SignInDoors \cup {"none"}, listed : BOOLEAN, admin : BOOLEAN,
           sliding : BOOLEAN, expires : Expiry, born : Ticks]
Link   == [life : {"none", "sent", "over"}, of : Members \cup {Nobody}]
NoRequest   == [at |-> "idle"]

NoToken == [life |-> "none", of |-> Nobody, door |-> "none", listed |-> FALSE, admin |-> FALSE,
            sliding |-> FALSE, expires |-> 0, born |-> 0]
NoLink  == [life |-> "none", of |-> Nobody]

\* Nothing more is asked of a row that is over.
Revoked  == [NoToken EXCEPT !.life = "revoked"]
OverLink == [NoLink EXCEPT !.life = "over"]

SessionsInit ==
    /\ now = 0
    /\ session = [t \in Tokens |-> NoToken]
    /\ link = [l \in Links |-> NoLink]
    /\ allowlist \in {S \in SUBSET (Members \ PhoneOnly) : S # {}}
    /\ request = [r \in Requests |-> NoRequest]
    /\ listLock = Nobody
    /\ portalUsed = FALSE

-----------------------------------------------------------------------------
IsAdmin(m) == m \in allowlist

\* session_expiry.
Lifetime(admin) == IF admin THEN AdminHours ELSE RiderDays

\* session_scopes: the address is None if the sign-in is by SMS.
HasAdminScope(m, door) == door = "email" /\ IsAdmin(m)

\* mint_session: the scopes are fixed now, from the allowlist as it is.
Minted(m, door) ==
    LET admin == HasAdminScope(m, door) IN
    [life |-> "valid", of |-> m, door |-> door, listed |-> IsAdmin(m), admin |-> admin,
     sliding |-> ~admin, expires |-> now + Lifetime(admin), born |-> now]

\* _load_session
Loadable(t) == session[t].life = "valid" /\ session[t].expires >= now

PassTime ==
    /\ now < MaxSessionClock
    /\ now' = now + 1
    /\ UNCHANGED <<session, link, allowlist, request, listLock, portalUsed>>

\* A verified Google token, or a code that was answered.
SignInBy(t, m, door) ==
    /\ session[t].life = "none"
    /\ door = "email" => m \notin PhoneOnly
    /\ session' = [session EXCEPT ![t] = Minted(m, door)]
    /\ UNCHANGED <<now, link, allowlist, request, listLock, portalUsed>>

RequestMagicLink(l, m) ==
    /\ link[l].life = "none"
    /\ m \notin PhoneOnly
    /\ link' = [link EXCEPT ![l] = [life |-> "sent", of |-> m]]
    /\ UNCHANGED <<now, session, allowlist, request, listLock, portalUsed>>

\* It expires unused.
LinkLapses(l) ==
    /\ link[l].life = "sent"
    /\ link' = [link EXCEPT ![l] = OverLink]
    /\ UNCHANGED <<now, session, allowlist, request, listLock, portalUsed>>

RedeemMagicLink(l, t) ==
    /\ link[l].life = "sent"
    /\ session[t].life = "none"
    /\ link' = [link EXCEPT ![l] = OverLink]
    /\ session' = [session EXCEPT ![t] = Minted(link[l].of, "email")]
    /\ UNCHANGED <<now, allowlist, request, listLock, portalUsed>>

-----------------------------------------------------------------------------
(* Refresh and sign-out.                                                    *)

RefreshLoads(r, t) ==
    /\ request[r] = NoRequest
    /\ Loadable(t)
    /\ request' = [request EXCEPT ![r] = [at |-> "refresh", token |-> t, row |-> session[t]]]
    /\ UNCHANGED <<now, session, link, allowlist, listLock, portalUsed>>

NewExpiry(row) == IF row.sliding THEN now + RiderDays ELSE row.expires

\* The new row copies what was loaded; the old one is revoked whatever has become of it.
RefreshCommits(r, t) ==
    /\ request[r].at = "refresh"
    /\ session[t].life = "none"
    /\ LET row == request[r].row IN
        session' = [session EXCEPT
            ![t] = [row EXCEPT !.life = "valid", !.expires = NewExpiry(row)],
            ![request[r].token] = Revoked]
    /\ request' = [request EXCEPT ![r] = NoRequest]
    /\ UNCHANGED <<now, link, allowlist, listLock, portalUsed>>

\* 429, an error, or the process is gone: rolled back.
RequestFails(r) ==
    /\ request[r] # NoRequest
    /\ request' = [request EXCEPT ![r] = NoRequest]
    /\ listLock' = IF listLock = r THEN Nobody ELSE listLock
    /\ UNCHANGED <<now, session, link, allowlist, portalUsed>>

SignOut(t) ==
    /\ session[t].life = "valid"
    /\ session' = [session EXCEPT ![t] = Revoked]
    /\ UNCHANGED <<now, link, allowlist, request, listLock, portalUsed>>

-----------------------------------------------------------------------------
(* The allowlist.                                                           *)

\* Mutation: nobody waits for the lock.
ListNeverLocked == TRUE
ListFree == listLock = Nobody

\* require_admin: the session, and then the allowlist as it is.
MayAdminister(t) == Loadable(t) /\ IsAdmin(session[t].of)

AddAdmin(m) ==
    /\ m \notin PhoneOnly
    /\ allowlist' = allowlist \cup {m}
    /\ UNCHANGED <<now, session, link, request, listLock, portalUsed>>

\* remove_admin_guarded, up to its decision.
GuardedCounts(r, t, m) ==
    /\ request[r] = NoRequest
    /\ MayAdminister(t)
    /\ ListFree
    /\ m \in allowlist => Cardinality(allowlist) > 1
    /\ listLock' = r
    /\ request' = [request EXCEPT ![r] = [at |-> "remove", member |-> m]]
    /\ UNCHANGED <<now, session, link, allowlist, portalUsed>>

GuardedRemoves(r) ==
    /\ request[r].at = "remove"
    /\ allowlist' = allowlist \ {request[r].member}
    /\ listLock' = Nobody
    /\ request' = [request EXCEPT ![r] = NoRequest]
    /\ UNCHANGED <<now, session, link, portalUsed>>

\* remove_admin: the portal and the command line.
PortalRemoves(m) ==
    /\ m \in allowlist
    /\ allowlist' = allowlist \ {m}
    /\ portalUsed' = TRUE
    /\ UNCHANGED <<now, session, link, request, listLock>>

SessionsNext ==
    \/ PassTime
    \/ \E t \in Tokens, m \in Members, door \in SignInDoors : SignInBy(t, m, door)
    \/ \E l \in Links, m \in Members : RequestMagicLink(l, m)
    \/ \E l \in Links : LinkLapses(l)
    \/ \E l \in Links, t \in Tokens : RedeemMagicLink(l, t)
    \/ \E r \in Requests, t \in Tokens : RefreshLoads(r, t) \/ RefreshCommits(r, t)
    \/ \E r \in Requests : RequestFails(r) \/ GuardedRemoves(r)
    \/ \E t \in Tokens : SignOut(t)
    \/ \E m \in Members : AddAdmin(m) \/ PortalRemoves(m)
    \/ \E r \in Requests, t \in Tokens, m \in Members : GuardedCounts(r, t, m)

SessionsSpec == SessionsInit /\ [][SessionsNext]_sessionVars

-----------------------------------------------------------------------------
(* Properties.                                                              *)

InFlight ==
    {NoRequest} \cup [at : {"refresh"}, token : Tokens, row : Token]
           \cup [at : {"remove"}, member : Members]

SessionsTypeOK ==
    /\ now \in Ticks
    /\ session \in [Tokens -> Token]
    /\ link \in [Links -> Link]
    /\ allowlist \subseteq Members \ PhoneOnly
    /\ request \in [Requests -> InFlight]
    /\ listLock \in Requests \cup {Nobody}
    /\ portalUsed \in BOOLEAN

\* However often a session with the admin scope is refreshed, from one request or several at
\* once, it ends ADMIN_SESSION_HOURS after its sign-in; only one without it is prolonged.
AdminSessionsEnd ==
    \A t \in Tokens : session[t].life = "valid" =>
        /\ session[t].admin => session[t].expires = session[t].born + AdminHours
        /\ session[t].sliding # session[t].admin

\* Who may administer for longer after a sign-in came by SMS, whose sessions never have the
\* scope (auth_sms_code_verify), or was put in the allowlist since, which require_admin
\* reads on every request.
LongRights ==
    \A t \in Tokens : (MayAdminister(t) /\ now > session[t].born + AdminHours) =>
        session[t].door = "phone" \/ ~session[t].listed

\* The guarded removals alone never empty the allowlist, however they overlap
\* (remove_admin_guarded).
AllowlistNotEmptied == portalUsed \/ allowlist # {}

\* What an administrator was given by e-mail ends in a day, and the service is never without
\* one: sessions of either kind, and the list that both they and the removals read.
AdminRights == AdminSessionsEnd /\ LongRights /\ AllowlistNotEmptied
=============================================================================
