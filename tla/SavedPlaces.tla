----------------------------- MODULE SavedPlaces -----------------------------
(***************************************************************************)
(* A rider's saved places (src/saved_places.py, src/place_crypto.py, the    *)
(* profile handlers of src/api_profile.py).  The list is sealed in one       *)
(* column; what older builds left in plaintext is folded into it on a read, *)
(* which selects the row, folds, and writes the column back.  One account;  *)
(* a list is a function from the places' ids, a coordinate is a spot.       *)
(***************************************************************************)
EXTENDS Naturals

CONSTANTS
    PlaceIds,       \* ids
    Slots,          \* those the home and work pairs stand for
    Coords,         \* coordinates
    Readers,        \* GETs under way
    LegacyRows,     \* what older builds left: records of favorites and pair
    Lists,          \* lists the app puts
    MaxKey, MaxPuts, MaxRestarts    \* bounds

None == "none"
Free == "free"      \* the app never said anything of this place
NoPlaces == [i \in PlaceIds |-> None]
NoBlob  == [key |-> 0, places |-> NoPlaces]
NotReading == [stage |-> "idle", row |-> [sealed |-> NoBlob], merged |-> NoPlaces]

VARIABLES
    row,        \* accounts: sealed (its key and list), favorites, pair
    keys,       \* VEO_PLACES_KEY and VEO_PLACES_KEY_OLD, 0 when unset
    reading,    \* GET between its SELECT and its UPDATE
    wanted,     \* what the app last put, for each place
    excused,    \* a read overlapped a write, or a blob could not be read
    puts, restarts

placesVars == <<row, keys, reading, wanted, excused, puts, restarts>>

PlacesInit ==
    /\ \E old \in LegacyRows :
          row = [sealed |-> NoBlob, favorites |-> old.favorites, pair |-> old.pair]
    /\ keys = [primary |-> 1, old |-> 0]
    /\ reading = [r \in Readers |-> NotReading]
    /\ wanted = [i \in PlaceIds |-> Free]
    /\ excused = FALSE
    /\ puts = 0 /\ restarts = 0

-----------------------------------------------------------------------------
(* The cipher, and the fold. *)

\* MultiFernet: nothing is read without a primary key.
Readable(blob) == keys.primary # 0 /\ blob.key \in {keys.primary, keys.old} \ {0}

\* unseal: any failure is an empty list.
Current(r) == IF Readable(r.sealed) THEN r.sealed.places ELSE NoPlaces

\* fold_legacy: what the list has wins, then the favourites, then the pairs.
Merged(r) == [i \in PlaceIds |->
    IF Current(r)[i] # None THEN Current(r)[i]
    ELSE IF r.favorites[i] # None THEN r.favorites[i]
    ELSE IF i \in Slots THEN r.pair[i] ELSE None]

\* legacy_present, merged == current, configured.
WorthWriting(r) == Merged(r) # Current(r) /\ keys.primary # 0

Seal(list) == [key |-> keys.primary, places |-> list]

\* _read_and_migrate_places, with the row locked by its transaction.
Migrated(r) == IF WorthWriting(r) THEN [r EXCEPT !.sealed = Seal(Merged(r))] ELSE r

Stranded(r) == r.sealed # NoBlob /\ ~Readable(r.sealed)

-----------------------------------------------------------------------------
(* PUT /api/v1/profile: the update and the answer's own fold, one transaction. *)

UpdateProfile(changed) ==
    /\ puts < MaxPuts
    /\ puts' = puts + 1
    /\ row' = Migrated(changed)
    /\ excused' = (excused \/ (WorthWriting(changed) /\ Stranded(changed)))
    /\ UNCHANGED <<keys, reading, restarts>>

\* A slot that is not in the new list loses its plaintext pair.
PutPlaces(list) ==
    /\ keys.primary # 0
    /\ UpdateProfile([row EXCEPT !.sealed = Seal(list),
                       !.pair = [i \in Slots |-> IF list[i] = None THEN None ELSE @[i]]])
    /\ wanted' = list

\* Older builds.
PutFavorites(list) ==
    /\ UpdateProfile([row EXCEPT !.favorites = list])
    /\ wanted' = [i \in PlaceIds |-> IF wanted[i] = None THEN Free ELSE wanted[i]]
PutPair(i, spot) ==
    /\ UpdateProfile([row EXCEPT !.pair[i] = spot])
    /\ wanted' = [wanted EXCEPT ![i] = IF @ = None THEN Free ELSE @]

-----------------------------------------------------------------------------
(* GET /api/v1/profile: no lock between the SELECT and the UPDATE. *)

GetRead(r) ==
    /\ reading[r].stage = "idle"
    /\ WorthWriting(row)
    /\ reading' = [reading EXCEPT ![r] = [stage |-> "folded", row |-> row, merged |-> Merged(row)]]
    /\ UNCHANGED <<row, keys, wanted, excused, puts, restarts>>

GetWrite(r) ==
    /\ reading[r].stage = "folded"
    /\ row' = [row EXCEPT !.sealed = Seal(reading[r].merged)]
    /\ excused' = (excused \/ reading[r].row # row \/ Stranded(row))
    /\ reading' = [reading EXCEPT ![r] = NotReading]
    /\ UNCHANGED <<keys, wanted, puts, restarts>>

\* The UPDATE fails, which the read survives.
GetFails(r) ==
    /\ reading[r].stage = "folded"
    /\ reading' = [reading EXCEPT ![r] = NotReading]
    /\ UNCHANGED <<row, keys, wanted, excused, puts, restarts>>

\* The service is restarted with other keys, and what was under way is lost.
Restart(primary, old) ==
    /\ restarts < MaxRestarts
    /\ restarts' = restarts + 1
    /\ keys' = [primary |-> primary, old |-> old]
    /\ reading' = [r \in Readers |-> NotReading]
    /\ UNCHANGED <<row, wanted, excused, puts>>

PlacesNext ==
    \/ \E list \in Lists : PutPlaces(list) \/ PutFavorites(list)
    \/ \E i \in Slots, spot \in Coords \cup {None} : PutPair(i, spot)
    \/ \E r \in Readers : GetRead(r) \/ GetWrite(r) \/ GetFails(r)
    \/ \E primary, old \in 0 .. MaxKey : Restart(primary, old)

PlacesSpec == PlacesInit /\ [][PlacesNext]_placesVars

-----------------------------------------------------------------------------
(* Properties. *)

PlaceLists == [PlaceIds -> Coords \cup {None}]

PlacesTypeOK ==
    /\ row \in [sealed : [key : 0 .. MaxKey, places : PlaceLists],
                favorites : PlaceLists, pair : [Slots -> Coords \cup {None}]]
    /\ keys \in [primary : 0 .. MaxKey, old : 0 .. MaxKey]
    /\ \A r \in Readers : reading[r].merged \in PlaceLists
    /\ wanted \in [PlaceIds -> Coords \cup {None, Free}]

\* What the app asked for and the column does not hold: a place it put somewhere, or a
\* slot it deleted that no favourite of an older build still names.
Undone == {i \in PlaceIds : \/ wanted[i] \in Coords /\ row.sealed.places[i] # wanted[i]
                          \/ /\ i \in Slots /\ wanted[i] = None /\ row.favorites[i] = None
                             /\ row.sealed.places[i] # None}

\* fold_legacy: "A rider who moved house, updated Home in the app, and still has the old
\* coordinates sitting in home_lat must not have the move undone by a migration".
MoveIsNotUndone == \A i \in Undone : wanted[i] = None

\* Neither a move nor a deletion is undone by the fold, unless a read overlapped a write or
\* met a blob its keys do not open (fold_legacy, put_profile, _read_and_migrate_places).
EditsStandUnlessOvertaken == ~excused => Undone = {}
=============================================================================
