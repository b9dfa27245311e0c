----------------------------- MODULE SavedBlobs ------------------------------
(***************************************************************************)
(* A rider's named settings (src/api_preferences.py): map settings, Usuals  *)
(* and ride specs, each kind with its cap.  A PUT locks the account's row,   *)
(* counts the other names and inserts or replaces, in one transaction; a    *)
(* DELETE takes no lock.  One account.                                       *)
(***************************************************************************)
EXTENDS Naturals, FiniteSets

CONSTANTS
    Kinds,
    Names,
    CapOf,          \* MAX_SAVED_MAP_SETTINGS, MAX_RIDE_USUALS, MAX_RIDE_SPECS
    Putters         \* PUTs under way

VARIABLES
    saved,          \* user_preferences: the names of each kind
    putting,
    accountHeld     \* accounts ... FOR UPDATE: who holds the row

blobVars == <<saved, putting, accountHeld>>

NotPutting == [stage |-> "idle", kind |-> "none", name |-> "none"]
Nobody == "nobody"

BlobsInit ==
    /\ saved = [k \in Kinds |-> {}]
    /\ putting = [p \in Putters |-> NotPutting]
    /\ accountHeld = Nobody

\* _serialize: a blob that is too large is refused before anything is read.
AskToPut(p, kind, name) ==
    /\ putting[p].stage = "idle"
    /\ putting' = [putting EXCEPT ![p] = [stage |-> "asked", kind |-> kind, name |-> name]]
    /\ UNCHANGED <<saved, accountHeld>>

RowFree(p) == accountHeld = Nobody

Others(p) == saved[putting[p].kind] \ {putting[p].name}

\* _enforce_named_cap.
EnforceNamedCap(p) ==
    /\ putting[p].stage = "asked"
    /\ RowFree(p)
    /\ IF Cardinality(Others(p)) >= CapOf[putting[p].kind]
       THEN putting' = [putting EXCEPT ![p].stage = "full"]
       ELSE putting' = [putting EXCEPT ![p].stage = "counted"]
    /\ accountHeld' = p
    /\ UNCHANGED saved

EndPut(p) ==
    /\ putting' = [putting EXCEPT ![p] = NotPutting]
    /\ accountHeld' = Nobody

\* INSERT ... ON CONFLICT (account_id, name) WHERE kind = ...
StoreBlob(p) ==
    /\ putting[p].stage = "counted"
    /\ saved' = [saved EXCEPT ![putting[p].kind] = @ \cup {putting[p].name}]
    /\ EndPut(p)

\* The 409, or a connection lost before the commit.
PutEnds(p) ==
    /\ putting[p].stage \in {"full", "counted"}
    /\ EndPut(p)
    /\ UNCHANGED saved

DeleteBlob(kind, name) ==
    /\ name \in saved[kind]
    /\ saved' = [saved EXCEPT ![kind] = @ \ {name}]
    /\ UNCHANGED <<putting, accountHeld>>

BlobsNext ==
    \/ \E p \in Putters, kind \in Kinds, name \in Names : AskToPut(p, kind, name)
    \/ \E p \in Putters : EnforceNamedCap(p) \/ StoreBlob(p) \/ PutEnds(p)
    \/ \E kind \in Kinds, name \in Names : DeleteBlob(kind, name)

BlobsSpec == BlobsInit /\ [][BlobsNext]_blobVars

-----------------------------------------------------------------------------

BlobsTypeOK ==
    /\ saved \in [Kinds -> SUBSET Names]
    /\ \A p \in Putters : putting[p].stage \in {"idle", "asked", "counted", "full"}
    /\ accountHeld \in Putters \cup {Nobody}

\* "a limit on how much you may store" and not "a lock on your own data": no kind grows past
\* its cap, whatever overlaps, and a name that is saved is never refused (_enforce_named_cap).
CapBindsNewNamesOnly ==
    /\ \A k \in Kinds : Cardinality(saved[k]) <= CapOf[k]
    /\ \A p \in Putters : putting[p].stage = "full" => putting[p].name \notin saved[putting[p].kind]
=============================================================================
