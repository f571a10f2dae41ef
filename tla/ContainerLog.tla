----------------------------- MODULE ContainerLog ------------------------------
(***************************************************************************)
(* A followed container log: the log view of the web client                *)
(* (components/log/container) and the node's event stream                  *)
(* (node/api/container_log_stream.go).                                     *)
(*                                                                         *)
(* Every connection runs docker logs --follow --tail, whose output is      *)
(* numbered, sent to the view and remembered in one bounded history for    *)
(* all connections with the same parameters; the view reconnects with the  *)
(* number of the last event it has seen.  The model follows one set of     *)
(* parameters, with follow switched on.  A log line is its position in the *)
(* container's log.  The error of a docker that cannot be started, or that *)
(* fails, is the event "close", which the view treats alike.               *)
(***************************************************************************)
EXTENDS Naturals, Sequences, SequencesExt, FiniteSetsExt

CONSTANTS
    Conns,          \* connections that may exist at the same time
    Tail100,        \* lines that docker prints of what is already logged
    MaxReplay,      \* maxContainerSSEReplay
    MaxLines,       \* bound on the length of the log
    MaxID,          \* bound on the number of a heartbeat
    MaxTurns        \* bound on searches, closings and broken connections together

ASSUME LogAssumption ==
    /\ Conns \subseteq Nat \ {0}
    /\ {Tail100, MaxReplay} \subseteq Nat \ {0}
    /\ {MaxLines, MaxID, MaxTurns} \subseteq Nat

VARIABLES
    logged,     \* lines in the container's log
    history,    \* containerSSEReplay: the last events of these parameters
    conn,       \* connection -> its handler in the node and its way to the view
    view,       \* the log view
    shown,      \* lines in the terminal
    breaks,     \* connections broken or too slow so far
    printed,    \* history: lines remembered since the search, or remembered then
    lapsed      \* history: has anything happened since the search that may cost lines?

logVars == <<logged, history, conn, view, shown, breaks, printed, lapsed>>

NoLine == 0
NoConn == 0

Event(id, kind, line) == [id |-> id, kind |-> kind, line |-> line]

\* "at" is the handler's position, "first" the first line docker prints and "next"
\* the line it prints next, both 0 until docker has opened the log; "reading"
\* tells whether the view's reader is still attached.
Unused == [at |-> "free", generation |-> 0, resume |-> 0, nextID |-> 0, first |-> 0,
           next |-> 0, out |-> <<>>, reading |-> FALSE, gone |-> FALSE]

Lines == {e.line : e \in shown}

-----------------------------------------------------------------------------
(* The node: handleContainerLogStream                                      *)

\* rememberLocked
Remembered(event) ==
    LET events == Append(history, event)
    IN  IF Len(events) > MaxReplay THEN Tail(events) ELSE events

\* Once the view is gone, a write that does not fail goes into a buffer.
Sent(c, events) == IF conn[c].gone THEN conn[c].out ELSE conn[c].out \o events

LastID == IF history = <<>> THEN 0 ELSE Last(history).id

\* The id that newContainerSSEWriter starts from.
FirstID(resume) == IF LastID > resume THEN LastID ELSE resume

Accepted ==
    [Unused EXCEPT !.at = "started", !.generation = view.generation,
                   !.resume = view.lastEventId, !.nextID = FirstID(view.lastEventId),
                   !.reading = TRUE]

\* The history drops a line that the view's cursor has not reached.
Evicts ==
    /\ Len(history) = MaxReplay
    /\ Head(history).kind = "line" /\ Head(history).id > view.lastEventId

\* The event is remembered.  Lines may be lost when another one is evicted, when
\* a handler numbers its event below those of another one, and when an event goes
\* ahead of others ("ahead").
Writes(event, ahead) ==
    /\ history' = Remembered(event)
    /\ printed' = printed \cup ({event.line} \ {NoLine})
    /\ lapsed' = (lapsed \/ Evicts \/ ahead \/ event.id <= LastID)

\* The line from which docker logs --tail prints.
FirstLine == IF logged > Tail100 THEN logged - Tail100 + 1 ELSE 1

\* Docker, started before the replay, opens the log and evaluates --tail.  Lines
\* before that which no handler has printed since the view's first are lost.
Attach(c) ==
    /\ conn[c].at \in {"started", "live"}
    /\ conn[c].first = 0
    /\ conn' = [conn EXCEPT ![c].first = FirstLine, ![c].next = FirstLine]
    /\ IF view.conn = c
       THEN /\ view' = [view EXCEPT !.from = IF @ = 0 THEN FirstLine ELSE @]
            /\ lapsed' = (lapsed \/ ~(view'.from .. FirstLine - 1 \subseteq printed))
       ELSE UNCHANGED <<view, lapsed>>
    /\ UNCHANGED <<logged, history, shown, breaks, printed>>

\* Does the view's handler, before its replay, print ahead of lines to be replayed?
Overtakes(c) ==
    /\ view.conn = c /\ conn[c].at = "started"
    /\ \E e \in Range(history) :
        e.kind = "line" /\ e.id > conn[c].resume /\ e.line \notin conn[c].first .. conn[c].next - 1

\* Docker prints a line; its output is read from the moment it is started.
DockerWrites(c) ==
    LET event == Event(conn[c].nextID + 1, "line", conn[c].next)
    IN  /\ conn[c].at \in {"started", "live"}
        /\ conn[c].first # 0
        /\ conn[c].next <= logged
        /\ conn' = [conn EXCEPT ![c].nextID = event.id, ![c].next = @ + 1,
                                ![c].out = Sent(c, <<event>>)]
        /\ Writes(event, Overtakes(c))
        /\ UNCHANGED <<logged, view, shown, breaks>>

\* The ticker of a live connection: an event that shows nothing.
Heartbeat(c) ==
    LET event == Event(conn[c].nextID + 1, "heartbeat", NoLine)
    IN  /\ conn[c].at = "live"
        /\ event.id <= MaxID
        /\ conn' = [conn EXCEPT ![c].nextID = event.id, ![c].out = Sent(c, <<event>>)]
        /\ Writes(event, FALSE)
        /\ UNCHANGED <<logged, view, shown, breaks>>

After(resume, event) == event.id > resume

\* Mutant: nothing is replayed.
NothingAfter(resume) == <<>>

\* The history's events after the cursor, in their order.  (SelectSeq without its
\* recursion, which cannot be proved about.)
EventsAfter(resume) ==
    LET after == {n \in DOMAIN history : After(resume, history[n])}
        Place(n) == Cardinality({m \in after : m <= n})
    IN  [k \in 1..Cardinality(after) |-> history[CHOOSE n \in after : Place(n) = k]]

\* replay, whose events keep their ids and names, and the event ready.
Replay(c) ==
    LET events == EventsAfter(conn[c].resume)
        ready == Event(Max({conn[c].nextID} \cup {e.id : e \in Range(events)}) + 1, "ready", NoLine)
    IN  /\ conn[c].at = "started"
        /\ conn' = [conn EXCEPT ![c].at = "live", ![c].nextID = ready.id, ![c].resume = 0,
                                ![c].out = Sent(c, Append(events, ready))]
        /\ Writes(ready, FALSE)
        /\ UNCHANGED <<logged, view, shown, breaks>>

\* Docker ends, cannot be started or fails, the request is cancelled or its time
\* is over: the handler sends and remembers close, and returns.  The view treats
\* the event error like close.
Close(c) ==
    LET event == Event(conn[c].nextID + 1, "close", NoLine)
    IN  /\ conn[c].at = "live" \/ (conn[c].at = "started" /\ conn[c].first = 0)
        /\ conn' = [conn EXCEPT ![c].at = "returned", ![c].out = Sent(c, <<event>>)]
        /\ Writes(event, FALSE)
        /\ UNCHANGED <<logged, view, shown, breaks>>

\* A write fails, because the view is gone or because it has not taken the last
\* one before the write deadline: the handler returns.
WriteFails(c) ==
    /\ conn[c].at \in {"started", "live"}
    /\ \/ conn[c].gone /\ UNCHANGED breaks
       \/ /\ ~conn[c].gone
          /\ view.generation + breaks < MaxTurns
          /\ breaks' = breaks + 1
    /\ conn' = [conn EXCEPT ![c].at = "returned"]
    /\ UNCHANGED <<logged, history, view, shown, printed, lapsed>>

-----------------------------------------------------------------------------
(* The view                                                                *)

\* stopListening: the connection is aborted; a chunk that was already read may
\* still come.
Aborted ==
    [c \in Conns |-> IF c # view.conn THEN conn[c]
                     ELSE [conn[c] EXCEPT !.gone = TRUE, !.reading = conn[c].out # <<>>,
                                          !.out = SubSeq(@, 1, IF @ = <<>> THEN 0 ELSE 1)]]

\* No handler has numbered, or is going to number, its events below those of others.
IdsInOrder ==
    /\ \A m, n \in DOMAIN history : m < n => history[m].id < history[n].id
    /\ \A c \in Conns : conn[c].at \in {"started", "live"} => conn[c].nextID <= LastID

\* searchLogs: stopListening, clearTerminal and connectLogStream.
SearchLogs ==
    /\ view.generation + breaks < MaxTurns
    /\ conn' = Aborted
    /\ view' = [at |-> "fetch", generation |-> view.generation + 1, conn |-> NoConn,
                lastEventId |-> 0, from |-> 0]
    /\ shown' = {}
    /\ printed' = {e.line : e \in Range(history)} \ {NoLine}
    /\ lapsed' = ~IdsInOrder
    /\ UNCHANGED <<logged, history, breaks>>

\* handleClose: stopListening.
HandleClose ==
    /\ view.at # "closed"
    /\ view.generation + breaks < MaxTurns
    /\ conn' = Aborted
    /\ view' = [view EXCEPT !.at = "closed", !.generation = @ + 1, !.conn = NoConn]
    /\ UNCHANGED <<logged, history, shown, breaks, printed, lapsed>>

IsFree(c) == conn[c].at = "free" \/ (conn[c].at = "returned" /\ ~conn[c].reading)

\* fetch of connectLogStream: a stream.
Connect(c) ==
    /\ view.at = "fetch"
    /\ \E d \in Conns : IsFree(d)
    /\ c = Min({d \in Conns : IsFree(d)})
    /\ conn' = [conn EXCEPT ![c] = Accepted]
    /\ view' = [view EXCEPT !.at = "read", !.conn = c]
    /\ UNCHANGED <<logged, history, shown, breaks, printed, lapsed>>

\* fetch of connectLogStream: an answer below 500 that is no stream.
Refused ==
    /\ view.at = "fetch"
    /\ view' = [view EXCEPT !.at = "done"]
    /\ UNCHANGED <<logged, history, conn, shown, breaks, printed, lapsed>>

\* reader.cancel
Detached(c) == [conn EXCEPT ![c].reading = FALSE, ![c].gone = TRUE, ![c].out = <<>>]

\* The connection breaks, or none is made.
Break ==
    /\ view.at \in {"fetch", "read"}
    /\ view.generation + breaks < MaxTurns
    /\ breaks' = breaks + 1
    /\ conn' = IF view.conn = NoConn THEN conn ELSE Detached(view.conn)
    /\ view' = [view EXCEPT !.at = "retry", !.conn = NoConn]
    /\ UNCHANGED <<logged, history, shown, printed, lapsed>>

\* The stream ends without close, its handler having returned early.
EndOfStream ==
    /\ view.at = "read"
    /\ conn[view.conn].at = "returned" /\ conn[view.conn].out = <<>>
    /\ conn' = [conn EXCEPT ![view.conn].reading = FALSE]
    /\ view' = [view EXCEPT !.at = "retry", !.conn = NoConn]
    /\ UNCHANGED <<logged, history, shown, breaks, printed, lapsed>>

\* Mutant: the wait for the timer is never over.
ReconnectForgotten == view.at = "retry" /\ UNCHANGED logVars

\* The timer of connectLogStream.
Reconnect ==
    /\ view.at = "retry"
    /\ view' = [view EXCEPT !.at = "fetch"]
    /\ UNCHANGED <<logged, history, conn, shown, breaks, printed, lapsed>>

\* Mutant: the generation is not compared.
AnyGeneration(c) == TRUE

IsCurrent(c) == conn[c].generation = view.generation

Completes(event) == event.kind = "close"

\* readSseStream with handleSseEvent
Read(c) ==
    LET event == Head(conn[c].out)
    IN  /\ conn[c].reading
        /\ conn[c].out # <<>>
        /\ \/ /\ ~IsCurrent(c)
              /\ conn' = Detached(c)
              /\ UNCHANGED <<view, shown>>
           \/ /\ IsCurrent(c) /\ Completes(event)
              /\ conn' = Detached(c)
              /\ view' = [view EXCEPT !.at = "done", !.conn = NoConn, !.lastEventId = event.id]
              /\ UNCHANGED shown
           \/ /\ IsCurrent(c) /\ ~Completes(event)
              /\ conn' = [conn EXCEPT ![c].out = Tail(@)]
              /\ view' = [view EXCEPT !.lastEventId = event.id]
              /\ shown' = IF event.kind = "line"
                          THEN shown \cup {[line |-> event.line, generation |-> conn[c].generation]}
                          ELSE shown
        /\ UNCHANGED <<logged, history, breaks, printed, lapsed>>

\* The container logs a line.
Log ==
    /\ logged < MaxLines
    /\ logged' = logged + 1
    /\ UNCHANGED <<history, conn, view, shown, breaks, printed, lapsed>>

-----------------------------------------------------------------------------

LogInit ==
    /\ logged = 0 /\ history = <<>>
    /\ conn = [c \in Conns |-> Unused]
    /\ view = [at |-> "closed", generation |-> 0, conn |-> NoConn, lastEventId |-> 0,
               from |-> 0]
    /\ shown = {} /\ breaks = 0
    /\ printed = {} /\ lapsed = FALSE

NodeStep(c) == Attach(c) \/ DockerWrites(c) \/ Replay(c)

ViewStep ==
    \/ Reconnect
    \/ EndOfStream
    \/ \E c \in Conns : Connect(c) \/ Read(c)

LogNext ==
    \/ SearchLogs \/ HandleClose \/ Refused \/ Break \/ Log
    \/ ViewStep
    \/ \E c \in Conns : NodeStep(c) \/ Heartbeat(c) \/ Close(c) \/ WriteFails(c)

\* Docker opens the log, its output is read, the handler goes on and returns when
\* the view is gone, and the browser delivers what was sent.
LogFairness ==
    /\ WF_logVars(ViewStep)
    /\ \A c \in Conns :
        /\ WF_logVars(NodeStep(c))
        /\ WF_logVars(conn[c].gone /\ (Close(c) \/ WriteFails(c)))

LogSpec == LogInit /\ [][LogNext]_logVars /\ LogFairness

-----------------------------------------------------------------------------

\* readSseStream: what an aborted connection still brings never gets into the
\* window of the next search.
OldStreamsStaySilent ==
    view.at # "closed" => \A e \in shown : e.generation = view.generation

\* Is everything that the connection has to bring in the terminal?
CaughtUp ==
    /\ view.at = "read"
    /\ conn[view.conn].at = "live"
    /\ conn[view.conn].out = <<>>
    /\ conn[view.conn].first # 0
    /\ conn[view.conn].next > logged

\* Last-Event-ID, the bounded history and docker --tail together: a view that
\* has caught up shows every line from the first one docker printed for it on,
\* however often it reconnected, unless lines passed by while no handler ran, the
\* history was too short, or handlers that ran beside each other mixed up the ids.
NoGapUnlessLapse ==
    (CaughtUp /\ ~lapsed) => view.from..logged \subseteq Lines

\* connectLogStream and the node's stream: a view that is not replaced catches
\* up with the log, unless a close event or a refusal ended it.
ViewCatchesUp ==
    (view.at # "closed") ~> (CaughtUp \/ view.at \in {"closed", "done"})

=============================================================================
