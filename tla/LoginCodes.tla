----------------------------- MODULE LoginCodes -----------------------------
(***************************************************************************)
(* The typed codes of src/api_auth.py: one row of login_codes per request,  *)
(* for an e-mail address or a phone number.  An e-mailed code burns its     *)
(* predecessors when it is issued; a texted one waits for the sender's      *)
(* answer and then burns the others, or itself.                             *)
(*                                                                          *)
(* A request runs in several transactions, and requests for one address     *)
(* overlap.  The rate limit's advisory lock on the address serialises the   *)
(* inserts of codes and the guesses of the SMS door, but not settlements    *)
(* and not the guesses of the profile and e-mail doors.  A request that a   *)
(* rate limit refuses writes nothing and is no action.                      *)
(***************************************************************************)
EXTENDS Addresses, Naturals, Sequences, FiniteSets

CONSTANTS
    Codes,              \* ids of login_codes rows: one per request for a code
    Guesses,            \* requests to verify a code
    Recipients,         \* bound: the addresses that ask for codes
    MaxCodeAttempts,    \* MAX_CODE_ATTEMPTS
    MaxLost             \* bound: settlements that fail, or die with the process

ASSUME BoundsAssumption ==
    /\ IsFiniteSet(Codes)
    /\ Recipients \subseteq Destinations
    /\ MaxCodeAttempts \in Nat
    /\ MaxLost \in Nat

NoCode == "no_code"         \* a guess that has read no row
Wrong  == "wrong_code"      \* what is typed matches no row

VARIABLES
    code,        \* the row each request inserts
    send,        \* where each request for a code stands
    issued,      \* the inserted rows, in the order of their commits
    expired,     \* how many of them have outlived their minutes
    guess,       \* where each request to verify stands
    lost,        \* settlements that never happened
    delivered,   \* history: codes whose text the sender accepted
    compared,    \* history: typed codes that were compared with each row, and answered
    spent        \* history: sign-ins and proofs that each row has bought

vars == <<code, send, issued, expired, guess, lost, delivered, compared, spent>>

CodeRow  == [dest : Destinations \cup {None}, created : Nat, attempts : Nat, used : BOOLEAN]
Stage    == {"idle", "begun", "sending", "delivered", "refused", "settled"}
GuessJob == [stage : {"idle", "read", "done"}, door : {"email", "sms", "profile"},
             typed : Codes \cup {Wrong}, row : Codes \cup {NoCode}]

BlankCode  == [dest |-> None, created |-> 0, attempts |-> 0, used |-> FALSE]
BlankGuess == [stage |-> "idle", door |-> "email", typed |-> Wrong, row |-> NoCode]

Init ==
    /\ code = [c \in Codes |-> BlankCode]
    /\ send = [c \in Codes |-> "idle"]
    /\ issued = <<>>
    /\ expired = 0
    /\ guess = [g \in Guesses |-> BlankGuess]
    /\ lost = 0
    /\ delivered = {}
    /\ compared = [c \in Codes |-> 0]
    /\ spent = [c \in Codes |-> 0]

-----------------------------------------------------------------------------
Rows      == {issued[i] : i \in DOMAIN issued}
Fresh     == {issued[i] : i \in expired + 1 .. Len(issued)}     \* expires_at >= NOW()
RowsOf(d) == {c \in Rows : code[c].dest = d}
Live(d)   == {c \in RowsOf(d) : ~code[c].used}

\* `cs` with used_at set.
Burnt(cs) == [c \in Codes |-> IF c \in cs THEN [code[c] EXCEPT !.used = TRUE] ELSE code[c]]

-----------------------------------------------------------------------------
(* Asking for a code.                                                       *)

\* The transaction starts, which fixes the row's created_at; it then waits for the
\* rate limit's lock on the address.
SendBegin(c, d) ==
    /\ send[c] = "idle"
    /\ send' = [send EXCEPT ![c] = "begun"]
    /\ code' = [code EXCEPT ![c].dest = d,
                            ![c].created = Cardinality({x \in Codes : send[x] # "idle"})]
    /\ UNCHANGED <<issued, expired, guess, lost, delivered, compared, spent>>

\* burn_previous: only the e-mail door burns as it issues.
\* Mutation: the SMS doors burn at issue as well.
BurnedAtEveryIssue(d) == Live(d)
BurnedAtIssue(d) == IF d \in Emails THEN Live(d) ELSE {}

\* _issue_code, and the commit before the send.
IssueCode(c) ==
    /\ send[c] = "begun"
    /\ send' = [send EXCEPT ![c] = "sending"]
    /\ code' = Burnt(BurnedAtIssue(code[c].dest))
    /\ issued' = Append(issued, c)
    /\ UNCHANGED <<expired, guess, lost, delivered, compared, spent>>

\* An e-mailed code needs no settlement, whatever became of the mail.
AfterSend(c, answer) == IF code[c].dest \in Emails THEN "settled" ELSE answer

SendAccepted(c) ==
    /\ send[c] = "sending"
    /\ send' = [send EXCEPT ![c] = AfterSend(c, "delivered")]
    /\ delivered' = delivered \cup {c}
    /\ UNCHANGED <<code, issued, expired, guess, lost, compared, spent>>

SendRefused(c) ==
    /\ send[c] = "sending"
    /\ send' = [send EXCEPT ![c] = AfterSend(c, "refused")]
    /\ UNCHANGED <<code, issued, expired, guess, lost, delivered, compared, spent>>

\* What _settle_issued_code burns: every other unused code, or the code itself.
\* Mutation: a refused send burns nothing.
BurnedByDelivery(c) ==
    IF send[c] = "delivered" THEN Live(code[c].dest) \ {c} ELSE {}
BurnedAtSettlement(c) ==
    IF send[c] = "delivered" THEN Live(code[c].dest) \ {c} ELSE {c}

SettleIssuedCode(c) ==
    /\ send[c] \in {"delivered", "refused"}
    /\ send' = [send EXCEPT ![c] = "settled"]
    /\ code' = Burnt(BurnedAtSettlement(c))
    /\ UNCHANGED <<issued, expired, guess, lost, delivered, compared, spent>>

\* The settlement fails, which is logged and swallowed, or the process is gone.
SettlementLost(c) ==
    /\ send[c] \in {"sending", "delivered", "refused"}
    /\ code[c].dest \in Phones
    /\ lost < MaxLost
    /\ lost' = lost + 1
    /\ send' = [send EXCEPT ![c] = "settled"]
    /\ UNCHANGED <<code, issued, expired, guess, delivered, compared, spent>>

\* The oldest code runs out.
CodeExpires ==
    /\ expired < Len(issued)
    /\ expired' = expired + 1
    /\ UNCHANGED <<code, send, issued, guess, lost, delivered, compared, spent>>

-----------------------------------------------------------------------------
(* Typing it back: _verify_code, then the account's part of the transaction. *)

Doors(d) == IF d \in Emails THEN {"email"} ELSE {"sms", "profile"}

\* The lock of sms_code_verify_phone is held until the transaction ends.
PhoneGuessed(d) ==
    \E g \in Guesses : /\ guess[g].stage = "read" /\ guess[g].door = "sms"
                       /\ code[guess[g].row].dest = d

\* The row a guess is about: the newest live one, ORDER BY created_at DESC.
Verifiable(d) == Live(d) \cap Fresh
IsNewest(c, d) == c \in Verifiable(d) /\ \A x \in Verifiable(d) : code[x].created <= code[c].created

\* With no live row the request ends in a 401 and writes nothing.
GuessBegin(g, d, door, typed) ==
    /\ guess[g].stage = "idle"
    /\ door \in Doors(d)
    /\ door = "sms" => ~PhoneGuessed(d)
    /\ typed \in RowsOf(d) \cup {Wrong}
    /\ \E c \in Codes :
        /\ IsNewest(c, d)
        /\ guess' = [guess EXCEPT ![g] = [stage |-> "read", door |-> door,
                                          typed |-> typed, row |-> c]]
    /\ UNCHANGED <<code, send, issued, expired, lost, delivered, compared, spent>>

Finished(g) == guess' = [guess EXCEPT ![g] = [BlankGuess EXCEPT !.stage = "done"]]

\* The atomic claim of an attempt: UPDATE ... WHERE used_at IS NULL RETURNING attempts.
\* Mutation: no WHERE used_at IS NULL.
AlwaysClaimable(c) == TRUE
Claimable(c) == ~code[c].used
Exhausted(attempts) == attempts > MaxCodeAttempts
Attempted(c)         == [code EXCEPT ![c].attempts = @ + 1]
AttemptedAndBurnt(c) == [code EXCEPT ![c].attempts = @ + 1, ![c].used = TRUE]

\* The row was burned after it was read.
GuessTooLate(g) ==
    /\ guess[g].stage = "read"
    /\ ~Claimable(guess[g].row)
    /\ Finished(g)
    /\ UNCHANGED <<code, send, issued, expired, lost, delivered, compared, spent>>

GuessExhausts(g) ==
    LET c == guess[g].row IN
    /\ guess[g].stage = "read"
    /\ Claimable(c)
    /\ Exhausted(code[c].attempts + 1)
    /\ code' = AttemptedAndBurnt(c)
    /\ Finished(g)
    /\ UNCHANGED <<send, issued, expired, lost, delivered, compared, spent>>

Compares(g) ==
    LET c == guess[g].row IN
    /\ guess[g].stage = "read"
    /\ Claimable(c)
    /\ ~Exhausted(code[c].attempts + 1)
    /\ compared' = [compared EXCEPT ![c] = @ + 1]
    /\ Finished(g)
    /\ UNCHANGED <<send, issued, expired, lost, delivered>>

GuessWrong(g) ==
    /\ Compares(g)
    /\ guess[g].typed # guess[g].row
    /\ code' = Attempted(guess[g].row)
    /\ UNCHANGED spent

\* The code is burned in the transaction that signs in or proves the number.
GuessRight(g) ==
    /\ Compares(g)
    /\ guess[g].typed = guess[g].row
    /\ code' = AttemptedAndBurnt(guess[g].row)
    /\ spent' = [spent EXCEPT ![guess[g].row] = @ + 1]

\* The account step refuses the number (409): the burn is committed and buys nothing.
GuessContested(g) ==
    /\ Compares(g)
    /\ guess[g].door # "email"
    /\ guess[g].typed = guess[g].row
    /\ code' = AttemptedAndBurnt(guess[g].row)
    /\ UNCHANGED spent

\* The account step fails, or the process dies: everything is rolled back, the attempt too.
GuessRolledBack(g) ==
    /\ guess[g].stage = "read"
    /\ Finished(g)
    /\ UNCHANGED <<code, send, issued, expired, lost, delivered, compared, spent>>

Next ==
    \/ \E c \in Codes, d \in Recipients : SendBegin(c, d)
    \/ \E c \in Codes : IssueCode(c)
    \/ \E c \in Codes : SendAccepted(c)
    \/ \E c \in Codes : SendRefused(c)
    \/ \E c \in Codes : SettleIssuedCode(c)
    \/ \E c \in Codes : SettlementLost(c)
    \/ CodeExpires
    \/ \E g \in Guesses, d \in Recipients, door \in {"email", "sms", "profile"},
          typed \in Codes \cup {Wrong} : GuessBegin(g, d, door, typed)
    \/ \E g \in Guesses : GuessTooLate(g)
    \/ \E g \in Guesses : GuessExhausts(g)
    \/ \E g \in Guesses : GuessWrong(g)
    \/ \E g \in Guesses : GuessRight(g)
    \/ \E g \in Guesses : GuessContested(g)
    \/ \E g \in Guesses : GuessRolledBack(g)

Spec == Init /\ [][Next]_vars

-----------------------------------------------------------------------------
(* Properties.                                                              *)

\* The shape of the rows and of the requests in flight.
TypeOK ==
    /\ code \in [Codes -> CodeRow]
    /\ send \in [Codes -> Stage]
    /\ issued \in Seq(Codes)
    /\ expired \in 0 .. Len(issued)
    /\ guess \in [Guesses -> GuessJob]
    /\ \A g \in Guesses : guess[g].stage = "read" => guess[g].row \in Codes
    /\ lost \in 0 .. MaxLost
    /\ delivered \subseteq Codes
    /\ compared \in [Codes -> Nat]
    /\ spent \in [Codes -> Nat]

\* However many guesses are in flight at once, a code is compared with at most
\* MaxCodeAttempts of them, and buys at most one sign-in (_verify_code: "so N simultaneous
\* guesses can't all pass a stale `attempts` snapshot").
GuessesBounded == \A c \in Codes : compared[c] <= MaxCodeAttempts /\ spent[c] <= 1

\* No request for a code to `d` is under way, and none lost its settlement.
Quiet(d) ==
    /\ lost = 0
    /\ \A c \in Codes : code[c].dest = d => send[c] \in {"begun", "settled"}

\* Once every send has resolved a phone number has at most one live code, and it is one
\* that went out: no code lives on that shadows it (_settle_issued_code).
OneLiveCode ==
    \A d \in Phones : Quiet(d) =>
        /\ Cardinality(Live(d)) <= 1
        /\ Live(d) \subseteq delivered

\* A refused resend never costs a rider the code in hand: a delivered code is burned only
\* by a guess about itself, or when another code has gone out.
OnlyADeliveryBurns ==
    [][\A c \in delivered :
        (code[c].dest \in Phones /\ ~code[c].used /\ code'[c].used) =>
            \/ code'[c].attempts > code[c].attempts
            \/ \E x \in delivered \ {c} : send[x] = "delivered" /\ send'[x] = "settled"]_vars
=============================================================================
