---------------------------- MODULE AddressIndex ----------------------------
(***************************************************************************)
(* The city's address index (src/addresses.py).  A scheduled job, in the    *)
(* scheduler's process, pages through the city's layer and swaps both       *)
(* tables in one transaction; street ids are dealt anew each time, in the   *)
(* order the streets are met.  Each API process keeps the streets with      *)
(* their ids in memory, for a while, and asks the points by those ids.      *)
(*                                                                          *)
(* A street has one address here; a row of the layer is its street.         *)
(***************************************************************************)
EXTENDS Naturals, SequencesExt

CONSTANTS
    Streets,
    Servers,        \* API processes
    PageServed,     \* rows the layer gives in a page, at most PageAsked
    PageAsked,      \* ARCGIS_PAGE
    Slack,          \* rows a read may be short of the layer's own count
    MaxLayerEdits   \* bound

VARIABLES
    layer,          \* the city's rows, by OBJECTID
    edits,          \* how often the city has changed it
    loading,        \* refresh_address_points
    streetTable,    \* address_streets: the street of each id
    streetIndex,    \* _INDEX of each process, and whether its time is over
    looking,        \* a lookup between its index and its points
    answered        \* what the last lookup asked and gave

addressVars == <<layer, edits, loading, streetTable, streetIndex, looking, answered>>

NoLoad   == [stage |-> "idle", rows |-> <<>>, expected |-> 0, since |-> 0]
NoIndex  == [built |-> FALSE, due |-> FALSE, rows |-> <<>>]
NoLookup == [stage |-> "idle"]
NoAnswer == "none"

AddressInit ==
    /\ layer \in SetToSeqs(Streets)
    /\ edits = 0
    /\ loading = NoLoad
    /\ streetTable = <<>>
    /\ streetIndex = [p \in Servers |-> NoIndex]
    /\ looking = [p \in Servers |-> NoLookup]
    /\ answered = [asked |-> NoAnswer, got |-> NoAnswer]

-----------------------------------------------------------------------------
(* The city. *)

Edit(rows) ==
    /\ edits < MaxLayerEdits
    /\ layer' = rows
    /\ edits' = edits + 1
    /\ UNCHANGED <<loading, streetTable, streetIndex, looking, answered>>

RetireAddress(i) == i \in DOMAIN layer /\ Edit(RemoveAt(layer, i))
FileAddress(s)   == s \notin ToSet(layer) /\ Edit(Append(layer, s))

-----------------------------------------------------------------------------
(* The job. *)

\* The count probe may fail, which switches the completeness check off.
StartLoad(counts) ==
    /\ loading.stage = "idle"
    /\ loading' = [stage |-> "paging", rows |-> <<>>, since |-> edits,
                   expected |-> IF counts THEN Len(layer) ELSE 0]
    /\ UNCHANGED <<layer, edits, streetTable, streetIndex, looking, answered>>

\* Mutation: a page that is not full is the last.
FullPage(offset) == PageServed = PageAsked /\ offset + PageServed < Len(layer)
\* exceededTransferLimit.
MoreAfter(offset) == offset + PageServed < Len(layer)

Page(offset) == IF offset >= Len(layer) THEN <<>>
                ELSE SubSeq(layer, offset + 1,
                            IF offset + PageServed > Len(layer) THEN Len(layer) ELSE offset + PageServed)

FetchPage ==
    LET offset == Len(loading.rows) IN
    /\ loading.stage = "paging"
    /\ loading' = [loading EXCEPT !.rows = @ \o Page(offset),
                                  !.stage = IF MoreAfter(offset) THEN "paging" ELSE "fetched"]
    /\ UNCHANGED <<layer, edits, streetTable, streetIndex, looking, answered>>

\* street_keys: a street gets its id when it is first met.
InOrderMet(rows) ==
    LET Met[n \in 0 .. Len(rows)] ==
            IF n = 0 THEN <<>>
            ELSE IF Contains(Met[n - 1], rows[n]) THEN Met[n - 1] ELSE Append(Met[n - 1], rows[n])
    IN  Met[Len(rows)]

ShortRead == loading.expected # 0 /\ Len(loading.rows) + Slack < loading.expected

SwapTables ==
    /\ loading.stage = "fetched"
    /\ loading.rows # <<>> /\ ~ShortRead
    /\ streetTable' = InOrderMet(loading.rows)
    /\ loading' = NoLoad
    /\ UNCHANGED <<layer, edits, streetIndex, looking, answered>>

\* Nothing fetched, a short read, an error of the layer or of the database, or a crash.
LoadFails ==
    /\ loading.stage # "idle"
    /\ loading' = NoLoad
    /\ UNCHANGED <<layer, edits, streetTable, streetIndex, looking, answered>>

-----------------------------------------------------------------------------
(* The API's processes. *)

\* street_index: an empty read never replaces an index that has something.
Published(p, rows) == rows # <<>> \/ ~streetIndex[p].built

\* `readable`: _load_street_rows answers [] when the database does not.
BuildIndex(p, readable) ==
    LET rows == IF readable THEN streetTable ELSE <<>> IN
    /\ looking[p] = NoLookup
    /\ ~streetIndex[p].built \/ streetIndex[p].due
    /\ streetIndex' = [streetIndex EXCEPT ![p] =
            [built |-> TRUE, due |-> FALSE, rows |-> IF Published(p, rows) THEN rows ELSE @.rows]]
    /\ UNCHANGED <<layer, edits, loading, streetTable, looking, answered>>

\* _INDEX_TTL_SECONDS, or the shorter one of an empty index.
IndexExpires(p) ==
    /\ streetIndex[p].built /\ ~streetIndex[p].due
    /\ streetIndex' = [streetIndex EXCEPT ![p].due = TRUE]
    /\ UNCHANGED <<layer, edits, loading, streetTable, looking, answered>>

\* StreetIndex: the streets in memory that a text names exactly, begins or misspells, by
\* their ids; here, the one street.
StreetIds(p, s) == {i \in DOMAIN streetIndex[p].rows : streetIndex[p].rows[i] = s}

\* lookup as far as its candidates.  No candidate leaves the answer to Photon.
FindStreet(p, s) ==
    /\ looking[p] = NoLookup
    /\ streetIndex[p].built /\ ~streetIndex[p].due
    /\ \E i \in StreetIds(p, s) :
            looking' = [looking EXCEPT ![p] = [stage |-> "found", street |-> s, id |-> i]]
    /\ UNCHANGED <<layer, edits, loading, streetTable, streetIndex, answered>>

\* The point's street is named by the table as it is now.
FindPoint(p) ==
    /\ looking[p] # NoLookup
    /\ answered' = [asked |-> looking[p].street,
                    got |-> IF looking[p].id \in DOMAIN streetTable
                            THEN streetTable[looking[p].id] ELSE NoAnswer]
    /\ looking' = [looking EXCEPT ![p] = NoLookup]
    /\ UNCHANGED <<layer, edits, loading, streetTable, streetIndex>>

AddressNext ==
    \/ \E i \in 1 .. Len(layer) : RetireAddress(i)
    \/ \E s \in Streets : FileAddress(s)
    \/ \E counts \in BOOLEAN : StartLoad(counts)
    \/ FetchPage \/ SwapTables \/ LoadFails
    \/ \E p \in Servers, readable \in BOOLEAN : BuildIndex(p, readable)
    \/ \E p \in Servers, s \in Streets : FindStreet(p, s)
    \/ \E p \in Servers : IndexExpires(p) \/ FindPoint(p)

AddressSpec == AddressInit /\ [][AddressNext]_addressVars

-----------------------------------------------------------------------------
(* Properties. *)

AddressTypeOK ==
    /\ layer \in Seq(Streets)
    /\ edits \in 0 .. MaxLayerEdits
    /\ loading.stage \in {"idle", "paging", "fetched"} /\ loading.rows \in Seq(Streets)
    /\ streetTable \in Seq(Streets)
    /\ \A p \in Servers : streetIndex[p].rows \in Seq(Streets)

\* An index that is swapped in is the whole layer if the layer stood still, whether or not
\* it said how many rows it has ("Silent truncation is the failure mode that would be
\* hardest to notice"); and a process that has an index never loses it to a database that
\* does not answer (refresh_address_points, _fetch_page, street_index).
WholeLayerIndexed ==
    /\ (streetTable' # streetTable /\ loading.since = edits) => streetTable' = layer
    /\ \A p \in Servers : streetIndex[p].rows # <<>> => streetIndex'[p].rows # <<>>

\* lookup: "A directional the rider gave is a HARD filter, never a preference: E 10th Ave
\* and W 10th Ave are different streets, and offering one for the other is the
\* wrong-side-of-town failure this service exists to end": an answer is on the street that
\* was asked for.
AnswerIsOnTheStreet == answered.got \in {answered.asked, NoAnswer}
=============================================================================
