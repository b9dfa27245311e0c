------------------------------ MODULE MCSignIn ------------------------------
(***************************************************************************)
(* Signing in, as TLC checks it: the codes, the accounts they prove, and    *)
(* the sessions that are minted then.  The parts share no table here: what  *)
(* the codes call a right guess is what the accounts call a proof, and the  *)
(* same transaction.  A behaviour runs one part, for running several would  *)
(* only multiply their states.                                              *)
(***************************************************************************)
EXTENDS LoginCodes, SignInAccounts, Sessions, TLC

CONSTANTS Parts                    \* the parts a run explores

ASSUME PartsAssumption == Parts \subseteq {"codes", "accounts", "sessions"}

VARIABLES part

MCvars == <<part, vars, accountsVars, sessionVars>>

\* A part that does not run stands in one state.
MCInit ==
    /\ part \in Parts
    /\ Init
    /\ AccountsInit
    /\ SessionsInit
    /\ part # "sessions" => allowlist = Members \ PhoneOnly

MCNext ==
    \/ part = "codes"    /\ Next         /\ UNCHANGED <<part, accountsVars, sessionVars>>
    \/ part = "accounts" /\ AccountsNext /\ UNCHANGED <<part, vars, sessionVars>>
    \/ part = "sessions" /\ SessionsNext /\ UNCHANGED <<part, vars, accountsVars>>

MCSpec == MCInit /\ [][MCNext]_MCvars

MCSymmetry == Permutations(Codes) \cup Permutations(Guesses) \cup Permutations(Members \ PhoneOnly)

MCTypeOK ==
    CASE part = "codes"    -> TypeOK
      [] part = "accounts" -> AccountsTypeOK
      [] part = "sessions" -> SessionsTypeOK
=============================================================================
