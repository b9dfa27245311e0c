---------------------------- MODULE PayloadCache ----------------------------
(***************************************************************************)
(* The precomputed map payloads (src/payload_cache.py) and their callers in  *)
(* src/api_public.py and src/api_h3.py: an entry per worker process in        *)
(* memory, one in the payload_cache table, one builder at a time in a worker, *)
(* and requests and warmers that read what is newest before they ask for it.  *)
(* One key; a request filtered by bbox builds its own and is left out.        *)
(***************************************************************************)
EXTENDS Naturals

CONSTANTS
    Workers,         \* processes
    Callers,         \* requests, and the warmer threads' rounds
    MaxSnapshots,    \* bound: completed cycles
    MaxReportChanges \* bound: reports filed, resolved, reinstated, ...

VARIABLES
    newest,          \* the newest complete cycle
    vehicleState,    \* the cycle device_state is at: the newest, or the one in progress
    reportStamp,     \* reports_stamp: what every report change moves
    memo,            \* each worker's entry
    stored,          \* the row of payload_cache
    caller           \* each caller: its worker, the cycle and stamp it read, what it built

payloadVars == <<newest, vehicleState, reportStamp, memo, stored, caller>>

Nobody == "none"

\* An entry names a cycle and a stamp; its body shows a cycle's vehicles, the state
\* device_state was in, and the reports of the moment.  `old`: past MAX_STALE_SECONDS.
Body  == [cycle : Nat, state : Nat, reports : Nat]
Entry == [cycle : Nat, stamp : Nat, body : Body, old : BOOLEAN]
NoBody  == [cycle |-> 0, state |-> 0, reports |-> 0]
NoEntry == [cycle |-> 0, stamp |-> 0, body |-> NoBody, old |-> TRUE]

FreshFor(e, c, s) == e.cycle = c /\ e.stamp = s

\* at: "away", "waits" for the worker's builder, or holds the lock: "building", and
\* then "built" with a body.
Gone == [at |-> "away", worker |-> Nobody, cycle |-> 0, stamp |-> 0, body |-> NoBody]

PayloadInit ==
    /\ newest = 1 /\ vehicleState = 1 /\ reportStamp = 0
    /\ memo = [w \in Workers |-> NoEntry]
    /\ stored = NoEntry
    /\ caller = [c \in Callers |-> Gone]

Builds(w) == \E c \in Callers : caller[c].worker = w /\ caller[c].at \in {"building", "built"}

-----------------------------------------------------------------------------

\* A cycle applies its device_state before it is marked complete.
ApplyVehicleState ==
    /\ vehicleState = newest /\ newest < MaxSnapshots
    /\ vehicleState' = newest + 1
    /\ UNCHANGED <<newest, reportStamp, memo, stored, caller>>

CompleteCycle ==
    /\ newest < MaxSnapshots
    /\ newest' = newest + 1 /\ vehicleState' = newest + 1
    /\ UNCHANGED <<reportStamp, memo, stored, caller>>

ChangeReports ==
    /\ reportStamp < MaxReportChanges
    /\ reportStamp' = reportStamp + 1
    /\ UNCHANGED <<newest, vehicleState, memo, stored, caller>>

\* latest_complete_cycle, and the stamp of the reports, as the caller finds them.
Asked(w) == [Gone EXCEPT !.worker = w, !.cycle = newest, !.stamp = reportStamp]

\* get_or_build as far as the lock.  A caller that finds the fresh entry, or, while
\* another caller of the worker builds, one that is not too old, is given that and
\* leaves; the others take the lock or wait for it.
AskPayload(c, w) ==
    /\ caller[c].at = "away"
    /\ ~FreshFor(memo[w], newest, reportStamp)
    /\ \/ ~Builds(w) /\ caller' = [caller EXCEPT ![c] = [Asked(w) EXCEPT !.at = "building"]]
       \/ Builds(w) /\ memo[w].old /\ caller' = [caller EXCEPT ![c] = [Asked(w) EXCEPT !.at = "waits"]]
    /\ UNCHANGED <<newest, vehicleState, reportStamp, memo, stored>>

TakeLock(c) ==
    /\ caller[c].at = "waits" /\ ~Builds(caller[c].worker)
    /\ caller' = [caller EXCEPT ![c].at = "building"]
    /\ UNCHANGED <<newest, vehicleState, reportStamp, memo, stored>>

\* With the lock: someone built it meanwhile, or another process stored it ...
FindBuilt(c) ==
    LET k == caller[c]
        w == k.worker
    IN  /\ k.at = "building"
        /\ \/ FreshFor(memo[w], k.cycle, k.stamp) /\ memo' = memo
           \/ /\ ~FreshFor(memo[w], k.cycle, k.stamp)
              /\ FreshFor(stored, k.cycle, k.stamp) /\ memo' = [memo EXCEPT ![w] = stored]
        /\ caller' = [caller EXCEPT ![c] = Gone]
        /\ UNCHANGED <<newest, vehicleState, reportStamp, stored>>

\* ... or the data is read: the caller's cycle, the rest as it is now.  A failed read
\* of the table is a miss.
ReadData(c) ==
    LET k == caller[c]
    IN  /\ k.at = "building" /\ ~FreshFor(memo[k.worker], k.cycle, k.stamp)
        /\ caller' = [caller EXCEPT ![c].at = "built",
                        ![c].body = [cycle |-> k.cycle, state |-> vehicleState,
                                     reports |-> reportStamp]]
        /\ UNCHANGED <<newest, vehicleState, reportStamp, memo, stored>>

EntryOf(c) == [cycle |-> caller[c].cycle, stamp |-> caller[c].stamp, body |-> caller[c].body,
               old |-> FALSE]

\* _store: ON CONFLICT DO UPDATE, whatever the row holds.
Store(entry, written) == stored' = IF written THEN entry ELSE stored

\* The entry is kept in the worker and, unless the write fails, in the table: an
\* entry of an older cycle, built late, takes the place of a newer one.
FinishBuild(c, written) ==
    /\ caller[c].at = "built"
    /\ memo' = [memo EXCEPT ![caller[c].worker] = EntryOf(c)]
    /\ Store(EntryOf(c), written)
    /\ caller' = [caller EXCEPT ![c] = Gone]
    /\ UNCHANGED <<newest, vehicleState, reportStamp>>

\* The build raised: the lock is released, and the caller gets an error.
FailBuild(c) ==
    /\ caller[c].at = "building"
    /\ caller' = [caller EXCEPT ![c] = Gone]
    /\ UNCHANGED <<newest, vehicleState, reportStamp, memo, stored>>

AgeEntry(w) ==
    /\ ~memo[w].old
    /\ memo' = [memo EXCEPT ![w].old = TRUE]
    /\ UNCHANGED <<newest, vehicleState, reportStamp, stored, caller>>

RestartWorker(w) ==
    /\ memo' = [memo EXCEPT ![w] = NoEntry]
    /\ caller' = [c \in Callers |-> IF caller[c].worker = w THEN Gone ELSE caller[c]]
    /\ UNCHANGED <<newest, vehicleState, reportStamp, stored>>

\* UNLOGGED: a Postgres crash empties it.
LoseTable ==
    /\ stored # NoEntry
    /\ stored' = NoEntry
    /\ UNCHANGED <<newest, vehicleState, reportStamp, memo, caller>>

PayloadNext ==
    \/ ApplyVehicleState \/ CompleteCycle \/ ChangeReports \/ LoseTable
    \/ \E c \in Callers, w \in Workers : AskPayload(c, w)
    \/ \E c \in Callers : TakeLock(c)
    \/ \E c \in Callers : FindBuilt(c)
    \/ \E c \in Callers : ReadData(c)
    \/ \E c \in Callers, written \in BOOLEAN : FinishBuild(c, written)
    \/ \E c \in Callers : FailBuild(c)
    \/ \E w \in Workers : AgeEntry(w)
    \/ \E w \in Workers : RestartWorker(w)

PayloadSpec == PayloadInit /\ [][PayloadNext]_payloadVars

-----------------------------------------------------------------------------

PayloadTypeOK ==
    /\ newest \in 1..MaxSnapshots /\ vehicleState \in newest..MaxSnapshots
    /\ reportStamp \in 0..MaxReportChanges
    /\ memo \in [Workers -> Entry] /\ stored \in Entry
    /\ \A c \in Callers : /\ caller[c].worker \in Workers \cup {Nobody}
                          /\ caller[c].body \in Body

\* What is served, the entries kept, carries a tag that is true of its body, whichever
\* process built it and whatever changed meanwhile: the body shows the tag's cycle, and no report change
\* the tag's stamp counts is missing from it.  A body older than its tag would be kept
\* by every client, on a 304, until the next change.
TagIsTrueOfBody ==
    \A e \in {memo[w] : w \in Workers} \cup {stored} :
        e.body.cycle = e.cycle /\ e.body.reports >= e.stamp
=============================================================================
