----------------------------- MODULE EventStream -----------------------------
(* The event log of one extraction run and a client that follows it: writers  *)
(* (workers and API calls) append events in transactions, the API streams the *)
(* log in pages after the last id it sent, the client resumes after the last  *)
(* id it received (extraction/persist_events.py, apps/api/app/extraction/     *)
(* events.py and routes_events.py, apps/web/src/lib/extraction/sse.ts).       *)
(*                                                                            *)
(* Ids come from a sequence outside transactions: an id is drawn at the       *)
(* insert and seen by others at the commit. Only the run's row lock, taken    *)
(* before the first insert, keeps the two orders alike.                       *)
EXTENDS Integers, Sequences, FiniteSets

CONSTANTS
    Writers,
    NoWriter,
    MaxId,        \* bound: identities drawn
    PageLimit,    \* LIMIT of a fetch (200 in the code)
    MaxDrops,     \* bound: broken connections
    Reconnects    \* consecutive fruitless reconnects a client makes (5)

ASSUME StreamAssumption ==
    /\ NoWriter \notin Writers
    /\ MaxId \in Nat /\ PageLimit \in Nat \ {0} /\ MaxDrops \in Nat /\ Reconnects \in Nat

VARIABLES
    holder,    \* the transaction with the run's row lock
    uncommitted,  \* per writer: the events inserted by its open transaction
    nextId,    \* the identity sequence
    eventLog,  \* committed events
    runEnded,  \* the run's status is terminal
    owed,      \* a worker has appended a terminal event and not yet the status
    server,    \* the open stream: last id sent and the rest of its batch
    wire,      \* frames sent and not yet received
    client,    \* last id received, how it stands, its reconnects
    seen,      \* history: events handed to onEvent, in order
    drops      \* history: broken connections

logVars    == <<holder, uncommitted, nextId, eventLog, runEnded, owed>>
followVars == <<server, wire, client, seen, drops>>
streamVars == <<holder, uncommitted, nextId, eventLog, runEnded, owed, server, wire, client, seen, drops>>

Closed == [open |-> FALSE, last |-> 0, batch |-> {}]

StreamInit ==
    /\ holder = NoWriter /\ uncommitted = [w \in Writers |-> {}]
    /\ nextId = 1 /\ eventLog = {} /\ runEnded = FALSE /\ owed = NoWriter
    /\ server = Closed /\ wire = <<>>
    /\ client = [last |-> 0, state |-> "connecting", tries |-> 0, progressed |-> FALSE]
    /\ seen = <<>> /\ drops = 0

(* -------------------------------- writers -------------------------------- *)
UnlockedMutant(w) == holder # w

\* _lock_event_run: FOR NO KEY UPDATE on the run, before the first child write.
MayLock(w) == holder = NoWriter

Begin(w) ==
    /\ MayLock(w) /\ uncommitted[w] = {} /\ ~runEnded
    /\ nextId <= MaxId
    /\ holder' = w
    /\ UNCHANGED <<uncommitted, nextId, eventLog, runEnded, owed>> /\ UNCHANGED followVars

\* The insert of append; the child guard refuses it once the run is terminal.
\* Nothing follows a terminal event in its transaction.
Insert(w, type) ==
    /\ holder = w \/ uncommitted[w] # {}
    /\ ~runEnded /\ nextId <= MaxId
    /\ \A e \in uncommitted[w] : e.type # "terminal"
    /\ uncommitted' = [uncommitted EXCEPT ![w] = @ \cup {[id |-> nextId, type |-> type]}]
    /\ nextId' = nextId + 1
    /\ UNCHANGED <<holder, eventLog, runEnded, owed>> /\ UNCHANGED followVars

LockAfter(w) == IF holder = w THEN NoWriter ELSE holder

\* An API transaction writes the status with the event; a worker appends the
\* terminal event first and writes the status in a transaction of its own.
Commit(w) ==
    /\ uncommitted[w] # {}
    /\ eventLog' = eventLog \cup uncommitted[w]
    /\ uncommitted' = [uncommitted EXCEPT ![w] = {}]
    /\ holder' = LockAfter(w)
    /\ IF \E e \in uncommitted[w] : e.type = "terminal"
       THEN \/ runEnded' = TRUE /\ owed' = NoWriter
            \/ runEnded' = runEnded /\ owed' = w
       ELSE UNCHANGED <<runEnded, owed>>
    /\ UNCHANGED nextId /\ UNCHANGED followVars

\* The identities drawn by a transaction that rolls back are never used.
Rollback(w) ==
    /\ holder = w \/ uncommitted[w] # {}
    /\ uncommitted' = [uncommitted EXCEPT ![w] = {}]
    /\ holder' = LockAfter(w)
    /\ UNCHANGED <<nextId, eventLog, runEnded, owed>> /\ UNCHANGED followVars

WriteStatus ==
    /\ owed # NoWriter /\ holder = NoWriter
    /\ runEnded' = TRUE /\ owed' = NoWriter
    /\ UNCHANGED <<holder, uncommitted, nextId, eventLog>> /\ UNCHANGED followVars

\* The worker dies in between; a later attempt goes on appending.
WorkerDies ==
    /\ owed # NoWriter /\ owed' = NoWriter
    /\ UNCHANGED <<holder, uncommitted, nextId, eventLog, runEnded>> /\ UNCHANGED followVars

(* --------------------------------- server -------------------------------- *)
SkipsOneMutant(n) == {e \in eventLog : e.id > n + 1}

After(n) == {e \in eventLog : e.id > n}

\* events.fetch: one snapshot of the rows after n, ORDER BY id LIMIT PageLimit:
\* the ones with fewer than PageLimit rows before them. The order is SendFrame's.
Page(n) ==
    {e \in After(n) : Cardinality({d \in After(n) : d.id < e.id}) < PageLimit}

\* stream_events up to its response: the resume id must be an event of the run.
Connect ==
    /\ client.state = "connecting" /\ ~server.open
    /\ client.last = 0 \/ \E e \in eventLog : e.id = client.last
    /\ server' = [open |-> TRUE, last |-> client.last, batch |-> Page(client.last)]
    /\ client' = [client EXCEPT !.state = "connected", !.progressed = FALSE]
    /\ UNCHANGED <<wire, seen, drops>> /\ UNCHANGED logVars

SendFrame ==
    /\ server.open
    /\ \E e \in server.batch :
         /\ \A d \in server.batch : e.id <= d.id
         /\ wire' = Append(wire, e)
         /\ server' = [server EXCEPT !.last = e.id, !.batch = @ \ {e},
                                     !.open = e.type # "terminal"]
    /\ UNCHANGED <<client, seen, drops>> /\ UNCHANGED logVars

\* The batch is sent: an empty fetch of a terminal run ends the stream, any
\* other fetch is sent and followed by another.
PollStream ==
    /\ server.open /\ server.batch = {}
    /\ server' = IF After(server.last) = {} /\ runEnded
                 THEN [server EXCEPT !.open = FALSE]
                 ELSE [server EXCEPT !.batch = Page(server.last)]
    /\ UNCHANGED <<wire, client, seen, drops>> /\ UNCHANGED logVars

(* --------------------------------- client -------------------------------- *)
\* consumeExtractionEvents: frames up to lastId are dropped, a terminal event
\* completes the stream.
Receive ==
    /\ client.state = "connected" /\ wire # <<>>
    /\ LET e == Head(wire)
       IN /\ wire' = Tail(wire)
          /\ IF e.id <= client.last THEN UNCHANGED <<client, seen>>
             ELSE /\ seen' = Append(seen, e)
                  /\ client' = [client EXCEPT
                        !.last = e.id, !.progressed = TRUE,
                        !.state = IF e.type = "terminal" THEN "complete" ELSE @]
    /\ UNCHANGED <<server, drops>> /\ UNCHANGED logVars

\* The end of a connection: the attempts start afresh if it delivered events or
\* stayed up for HEALTHY_CONNECTION_MS, and five in a row are the limit.
Retry(healthy) ==
    LET tries == IF client.progressed \/ healthy THEN 0 ELSE client.tries
    IN client' = [client EXCEPT
                    !.tries = IF tries = Reconnects THEN tries ELSE tries + 1,
                    !.state = IF tries = Reconnects THEN "stopped" ELSE "connecting"]

\* The stream ends and everything sent has arrived.
StreamEnds(healthy) ==
    /\ client.state = "connected" /\ ~server.open /\ wire = <<>>
    /\ Retry(healthy)
    /\ UNCHANGED <<server, wire, seen, drops>> /\ UNCHANGED logVars

\* The connection breaks: what is on the wire is lost and the server notices.
Drop(healthy) ==
    /\ client.state = "connected" /\ drops < MaxDrops
    /\ drops' = drops + 1
    /\ wire' = <<>> /\ server' = Closed
    /\ Retry(healthy)
    /\ UNCHANGED seen /\ UNCHANGED logVars

Follow == Connect \/ SendFrame \/ PollStream \/ Receive \/ \E h \in BOOLEAN : StreamEnds(h)

StreamNext ==
    \/ \E w \in Writers : Begin(w) \/ Commit(w) \/ Rollback(w)
    \/ \E w \in Writers, type \in {"progress", "terminal"} : Insert(w, type)
    \/ WriteStatus \/ WorkerDies
    \/ Follow
    \/ \E h \in BOOLEAN : Drop(h)

\* The server polls without end and the client reconnects by itself; no writer
\* is made to go on.
StreamFairness == WF_streamVars(Follow)

StreamSpec == StreamInit /\ [][StreamNext]_streamVars /\ StreamFairness
-----------------------------------------------------------------------------
\* Whatever the order in which transactions draw ids and commit, roll back or
\* overtake each other, and however often the connection breaks, the client has
\* been handed exactly the committed events up to its resume id, in order.
NothingSkipped ==
    /\ {seen[i] : i \in DOMAIN seen} = {e \in eventLog : e.id <= client.last}
    /\ \A i, j \in DOMAIN seen : i < j => seen[i].id < seen[j].id

\* A run that ends by an event ends its stream: the client is handed the
\* terminal event unless it has used up its reconnects.
StreamCompletes ==
    (\E e \in eventLog : e.type = "terminal") ~> client.state \in {"complete", "stopped"}
=============================================================================
