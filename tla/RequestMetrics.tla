--------------------------- MODULE RequestMetrics ----------------------------
(***************************************************************************)
(* Request metrics (src/request_metrics.py).  The middleware appends a row   *)
(* to a bounded buffer in memory; the loop's flush and the early one run on *)
(* worker threads and may overlap: each empties the buffer from the left,   *)
(* row by row, and inserts what it took in one transaction.                 *)
(***************************************************************************)
EXTENDS Naturals, Sequences

CONSTANTS
    Requests,
    Flushers,       \* worker threads
    BufferCap       \* _BUFFER_CAP, the deque's maxlen

VARIABLES
    unseen,         \* requests still to come
    buffer,         \* _buffer
    flush,          \* flush_pending on each thread
    metric,         \* request_metrics: how many rows each request has
    forgotten       \* dropped by the full buffer, a failed insert or a stop

metricsVars == <<unseen, buffer, flush, metric, forgotten>>

NotFlushing == [on |-> FALSE, rows |-> {}]

MetricsInit ==
    /\ unseen = Requests
    /\ buffer = <<>>
    /\ flush = [f \in Flushers |-> NotFlushing]
    /\ metric = [q \in Requests |-> 0]
    /\ forgotten = {}

\* Mutation: the deque has no maxlen.
NoMaxlen == buffer
\* A full deque loses its oldest row.
WithRoom == IF Len(buffer) = BufferCap THEN Tail(buffer) ELSE buffer

\* middleware, record.
Record(q) ==
    /\ q \in unseen
    /\ unseen' = unseen \ {q}
    /\ buffer' = Append(WithRoom, q)
    /\ forgotten' = IF WithRoom = buffer THEN forgotten ELSE forgotten \cup {Head(buffer)}
    /\ UNCHANGED <<flush, metric>>

\* The loop's timer, the early flush of a long buffer, or the shutdown.
StartFlush(f) ==
    /\ ~flush[f].on
    /\ buffer # <<>>
    /\ flush' = [flush EXCEPT ![f].on = TRUE]
    /\ UNCHANGED <<unseen, buffer, metric, forgotten>>

\* popleft.
PoppedBuffer == Tail(buffer)

PopRow(f) ==
    /\ flush[f].on
    /\ buffer # <<>>
    /\ flush' = [flush EXCEPT ![f].rows = @ \cup {Head(buffer)}]
    /\ buffer' = PoppedBuffer
    /\ UNCHANGED <<unseen, metric, forgotten>>

\* The buffer was empty when it last looked; nothing taken, nothing written.
InsertRows(f) ==
    /\ flush[f].on
    /\ metric' = [q \in Requests |-> IF q \in flush[f].rows THEN metric[q] + 1 ELSE metric[q]]
    /\ flush' = [flush EXCEPT ![f] = NotFlushing]
    /\ UNCHANGED <<unseen, buffer, forgotten>>

\* The insert raises.  "will retry" is said of the loop: the rows it took are gone.
FlushFails(f) ==
    /\ flush[f].on
    /\ forgotten' = forgotten \cup flush[f].rows
    /\ flush' = [flush EXCEPT ![f] = NotFlushing]
    /\ UNCHANGED <<unseen, buffer, metric>>

MetricsNext ==
    \/ \E q \in Requests : Record(q)
    \/ \E f \in Flushers : StartFlush(f) \/ PopRow(f) \/ InsertRows(f) \/ FlushFails(f)

MetricsSpec == MetricsInit /\ [][MetricsNext]_metricsVars

-----------------------------------------------------------------------------

MetricsTypeOK ==
    /\ unseen \subseteq Requests /\ forgotten \subseteq Requests
    /\ buffer \in Seq(Requests) /\ Len(buffer) <= BufferCap
    /\ \A f \in Flushers : flush[f].rows \subseteq Requests
    /\ \A q \in Requests : metric[q] \in Nat

\* Overlapping flushes neither count a request twice nor lose one: a request that came is in
\* the buffer, in one thread's hands, in the table once, or known to be lost (flush_pending).
EachRequestCountedOnce ==
    \A q \in Requests \ unseen :
        /\ metric[q] <= 1
        /\ metric[q] = 0 /\ q \notin forgotten =>
              (\E i \in DOMAIN buffer : buffer[i] = q) \/ \E f \in Flushers : q \in flush[f].rows
        /\ metric[q] = 1 => \A f \in Flushers : q \notin flush[f].rows
=============================================================================
