------------------------------ MODULE TraceReads ------------------------------
(* Reading a retrieval run while its pipeline may commit                      *)
(* (apps/api/app/retrieval_reads.py and the stream of retrieval.py).          *)
(*                                                                            *)
(* The trace endpoint issues one statement after another in a REPEATABLE READ *)
(* transaction: the run, a probe of its events, the events in batches, the    *)
(* claims. The event stream captures a high water mark when it is opened and  *)
(* replays up to it, one short transaction per page, with nothing open while  *)
(* it yields; a client that was cut off comes back with Last-Event-ID.        *)
EXTENDS Integers, Sequences

CONSTANTS
    TraceLengths,     \* the numbers of events a pipeline may write
    PageRows,         \* LIMIT of _event_rows
    MaxTraceEvents,   \* what get_retrieval_run serves at most
    MaxConnects       \* bound: streams a client opens

ASSUME TraceAssumption ==
    /\ TraceLengths \subseteq Nat \ {0}
    /\ PageRows \in Nat \ {0} /\ MaxTraceEvents \in Nat /\ MaxConnects \in Nat

VARIABLES
    traceRow,    \* committed: the run's status, its events and its claims
    reading,     \* the trace request: what it sees and has read
    served,      \* the traces it has answered with
    stream,      \* the event stream
    got,         \* the events the client has, by sequence number
    connects     \* number of streams opened

traceVars == <<traceRow, reading, served, stream, got, connects>>

QueuedRun == [status |-> "queued", events |-> 0, claims |-> FALSE]
NoRead == [pc |-> "idle", view |-> QueuedRun, trace |-> QueuedRun, high |-> 0]
Shut == [pc |-> "closed", after |-> 0, high |-> 0, page |-> 0, late |-> FALSE]

TraceInit ==
    /\ traceRow = QueuedRun /\ reading = NoRead /\ served = {}
    /\ stream = Shut /\ got = <<>> /\ connects = 0

\* The pipeline's one commit, or the failure transaction's single event.
CommitTrace ==
    /\ traceRow = QueuedRun
    /\ \E n \in TraceLengths :
         \/ traceRow' = [status |-> "succeeded", events |-> n, claims |-> TRUE]
         \/ traceRow' = [status |-> "failed", events |-> 1, claims |-> FALSE]
    /\ UNCHANGED <<reading, served, stream, got, connects>>

(* --------------------------- get_retrieval_run --------------------------- *)
\* Every statement sees what was committed when it began.
ReadCommittedMutant == traceRow

\* tenant_connection(snapshot_read=True): what the first statement saw.
Snapshot == reading.view

OpenTrace ==
    /\ reading.pc = "idle"
    /\ reading' = [NoRead EXCEPT !.pc = "run", !.view = traceRow]
    /\ UNCHANGED <<traceRow, served, stream, got, connects>>

ReadRun ==
    /\ reading.pc = "run"
    /\ reading' = [reading EXCEPT !.pc = "probe", !.trace.status = Snapshot.status]
    /\ UNCHANGED <<traceRow, served, stream, got, connects>>

\* More events than the limit are answered 413.
ProbeEvents ==
    /\ reading.pc = "probe"
    /\ reading' = IF Snapshot.events > MaxTraceEvents THEN NoRead
                  ELSE [reading EXCEPT !.pc = "events", !.high = Snapshot.events]
    /\ UNCHANGED <<traceRow, served, stream, got, connects>>

\* Sequence number of the last row of a page after `after`, up to `high`.
PageEnd(after, high) == IF after + PageRows < high THEN after + PageRows ELSE high

\* _event_rows until the high water mark.
ReadEvents ==
    /\ reading.pc = "events"
    /\ reading' = IF reading.trace.events < reading.high
                  THEN [reading EXCEPT !.trace.events = PageEnd(@, reading.high)]
                  ELSE [reading EXCEPT !.pc = "claims"]
    /\ UNCHANGED <<traceRow, served, stream, got, connects>>

ServeTrace ==
    /\ reading.pc = "claims"
    /\ served' = served \cup {[reading.trace EXCEPT !.claims = Snapshot.claims]}
    /\ reading' = NoRead
    /\ UNCHANGED <<traceRow, stream, got, connects>>

(* ------------------------------ event stream ------------------------------ *)
LastEventId == Len(got)

\* stream_retrieval_run_events: the high water mark and the first page.
OpenStream ==
    /\ stream.pc = "closed" /\ connects < MaxConnects
    /\ connects' = connects + 1
    /\ stream' = [pc |-> "sending", after |-> LastEventId, high |-> traceRow.events,
                  page |-> PageEnd(LastEventId, traceRow.events),
                  late |-> traceRow # QueuedRun]
    /\ UNCHANGED <<traceRow, reading, served, got>>

\* _sse_stream: a row of the page in hand.
SendRow ==
    /\ stream.pc = "sending" /\ stream.after < stream.page
    /\ got' = Append(got, stream.after + 1)
    /\ stream' = [stream EXCEPT !.after = @ + 1]
    /\ UNCHANGED <<traceRow, reading, served, connects>>

ReplayOver(s) == s.after >= s.high

\* A page is out: another transaction reads the next one, or the replay is over.
TurnPage ==
    /\ stream.pc = "sending" /\ stream.after >= stream.page
    /\ stream' = IF ReplayOver(stream) THEN [stream EXCEPT !.pc = "ended"]
                 ELSE [stream EXCEPT !.page = PageEnd(stream.after, stream.high)]
    /\ UNCHANGED <<traceRow, reading, served, got, connects>>

\* The connection is lost, or the client turns to another request.
DropStream ==
    /\ stream.pc \in {"sending", "ended"}
    /\ stream' = Shut
    /\ UNCHANGED <<traceRow, reading, served, got, connects>>

TraceNext ==
    \/ CommitTrace
    \/ OpenTrace \/ ReadRun \/ ProbeEvents \/ ReadEvents \/ ServeTrace
    \/ OpenStream \/ SendRow \/ TurnPage \/ DropStream

TraceSpec == TraceInit /\ [][TraceNext]_traceVars

(* ------------------------------- properties ------------------------------- *)
\* A trace is of the run before its pipeline committed or after it, never of
\* both: a finished run comes with every event and claim, the same at each read
\* ("byte-stable"), and a queued one with none (get_retrieval_run).
TraceIsWhole == served \subseteq {QueuedRun, traceRow}

\* Over any number of cut connections the client holds the first events of the
\* run, each once and in order; a stream that was opened on a finished run and
\* ran to its end has left none out (_sse_stream).
ReplayIsExact ==
    /\ \A i \in DOMAIN got : got[i] = i
    /\ Len(got) <= traceRow.events
    /\ stream.pc = "ended" /\ stream.late => Len(got) = traceRow.events
=============================================================================
