------------------------------ MODULE TeamEvents ------------------------------
(***************************************************************************)
(* The event log of one project, its persistence, and the event streams    *)
(* that clients read it through (node/api/agent_team.go: serveTeamSSE,     *)
(* appendTeamEventLocked, saveTeamStateLocked).                            *)
(*                                                                         *)
(* Any handler that changes the team state takes s.mu, appends events,     *)
(* saves, and either closes the channel s.notify or restores its snapshot. *)
(* A stream takes s.mu only to copy the retained events and the current    *)
(* channel: it writes to its client, and sleeps, without the lock.         *)
(*                                                                         *)
(* Event n is the n-th of "log"; what is kept of it is the task it is      *)
(* about.  Only the newest Retention events are retained.                  *)
(***************************************************************************)
EXTENDS Integers, Sequences, FiniteSets

CONSTANTS
    Streams,      \* clients, each reading one stream at a time
    Topics,       \* taskIds that events are about
    All,          \* the topic of a stream over the whole project
    Topic,        \* client -> what it subscribes to
    Retention,    \* teamEventLimit
    StreamLimit,  \* nodeRuntimeLimits.streams
    MaxEvents,    \* bound on the events of a behaviour
    MaxAppend     \* bound on the events one handler appends

ASSUME EventsAssumption ==
    /\ Retention \in Nat \ {0}
    /\ MaxEvents \in Nat
    /\ MaxAppend \in Nat \ {0}
    /\ All \notin Topics
    /\ Topic \in [Streams -> Topics \cup {All}]

VARIABLES
    log,      \* s.data.TeamEvents and TeamSequences, in memory
    disk,     \* the log of the saved state
    before,   \* length of the log in the lock holder's snapshot, or Free
    notify,   \* number of times the channel s.notify was closed and renewed
    stream,   \* client -> the goroutine of serveTeamSSE
    client    \* client -> what it has received (external)

eventVars == <<log, disk, before, notify, stream, client>>

Free == -1

Fresh == -1

\* Mutant: a log shorter than the window is not considered.
OldestOfFullWindow(n) == n - Retention + 1

OldestOf(n) == IF n > Retention THEN n - Retention + 1 ELSE 1

Oldest == OldestOf(Len(log))

\* cursor, events lo..hi copied in the last round and the channel waited on;
\* opened counts what the client had received when it connected.
Stream == [phase : {"closed", "reading", "writing", "waiting"}, cursor : Nat,
           lo : Nat, hi : Nat, chan : Nat, opened : Nat]

\* last is the Last-Event-ID it will send; got lists what arrived after "base"
\* in the current subscription; lagged marks that events it wanted were
\* dropped from the window before its stream copied them, renumbered that the
\* node has since begun again with an empty log, whose numbers start at 1.
Client == [last : Nat, base : Nat \cup {Fresh}, got : Seq(Nat), lagged : BOOLEAN,
           renumbered : BOOLEAN]

Closed == [phase |-> "closed", cursor |-> 0, lo |-> 1, hi |-> 0, chan |-> 0, opened |-> 0]

\* Number of events in the log that no failing save takes back.
Committed == IF before = Free THEN Len(log) ELSE before

Live == {s \in Streams : stream[s].phase # "closed"}

Wanted(s, e) == Topic[s] = All \/ log[e] = Topic[s]

\* Mutant: the event at the cursor is sent again.
UnwrittenFromCursor(s) ==
    {e \in stream[s].lo .. stream[s].hi : e >= stream[s].cursor /\ Wanted(s, e)}

\* The events of the copied window that the loop has still to write.
Unwritten(s) == {e \in stream[s].lo .. stream[s].hi : e > stream[s].cursor /\ Wanted(s, e)}

-----------------------------------------------------------------------------
(* Handlers that publish events.                                           *)

\* snapshotTeamStateLocked, then appendTeamEventLocked for each event.
AppendEvents(new) ==
    /\ before = Free
    /\ Len(log) + Len(new) <= MaxEvents
    /\ before' = Len(log)
    /\ log' = log \o new
    /\ UNCHANGED <<disk, notify, stream, client>>

\* Mutant: the channel is not closed.
SaveWithoutWakeup ==
    /\ before # Free
    /\ disk' = log
    /\ before' = Free
    /\ UNCHANGED <<log, notify, stream, client>>

Save ==
    /\ before # Free
    /\ disk' = log
    /\ notify' = notify + 1
    /\ before' = Free
    /\ UNCHANGED <<log, stream, client>>

\* Mutant: the snapshot is not restored.
SaveFailsWithoutRollback ==
    /\ before # Free
    /\ before' = Free
    /\ UNCHANGED <<log, disk, notify, stream, client>>

SaveFails ==
    /\ before # Free
    /\ log' = SubSeq(log, 1, before)
    /\ before' = Free
    /\ UNCHANGED <<disk, notify, stream, client>>

-----------------------------------------------------------------------------
(* serveTeamSSE.                                                           *)

CursorExpired(s) ==
    /\ client[s].last > 0
    /\ client[s].last < Oldest - 1

Connect(s) ==
    /\ before = Free
    /\ stream[s].phase = "closed"
    /\ Cardinality(Live) < StreamLimit
    /\ ~CursorExpired(s)
    /\ client' = [client EXCEPT ![s] =
            IF @.last = 0
            THEN [@ EXCEPT !.base = Fresh, !.got = << >>,
                                            !.lagged = FALSE, !.renumbered = FALSE]
            ELSE @]
    /\ stream' = [stream EXCEPT ![s] =
            [Closed EXCEPT !.phase = "reading", !.cursor = client[s].last,
                           !.opened = Len(client'[s].got)]]
    /\ UNCHANGED <<log, disk, before, notify>>

\* EVENT_CURSOR_EXPIRED: the client reads a snapshot and starts again from the
\* newest event.
Resynchronise(s) ==
    /\ before = Free
    /\ stream[s].phase = "closed"
    /\ Cardinality(Live) < StreamLimit
    /\ CursorExpired(s)
    /\ client' = [client EXCEPT ![s] =
            [last |-> Len(log), base |-> Len(log), got |-> << >>, lagged |-> FALSE,
             renumbered |-> FALSE]]
    /\ UNCHANGED <<log, disk, before, notify, stream>>

\* A subscription without a cursor starts with the oldest retained event.
Read(s) ==
    /\ before = Free
    /\ stream[s].phase = "reading"
    /\ stream' = [stream EXCEPT ![s].phase = "writing", ![s].lo = Oldest,
                                ![s].hi = Len(log), ![s].chan = notify]
    /\ client' = [client EXCEPT
            ![s].base = IF @ = Fresh THEN Oldest - 1 ELSE @,
            ![s].lagged = \/ @
                          \/ /\ client[s].base # Fresh
                             /\ \E e \in 1..(Oldest - 1) :
                                  /\ e > client[s].base /\ e > stream[s].cursor
                                  /\ Wanted(s, e)]
    /\ UNCHANGED <<log, disk, before, notify>>

WriteEvent(s, e) ==
    /\ stream[s].phase = "writing"
    /\ e \in Unwritten(s)
    /\ \A d \in Unwritten(s) : e <= d
    /\ stream' = [stream EXCEPT ![s].cursor = e]
    /\ client' = [client EXCEPT ![s].got = Append(@, e)]
    /\ UNCHANGED <<log, disk, before, notify>>

\* Mutant: the channel is only fetched when the stream goes to sleep.
ParkOnNewChannel(s) ==
    /\ stream[s].phase = "writing"
    /\ Unwritten(s) = {}
    /\ stream' = [stream EXCEPT ![s].phase = "waiting", ![s].chan = notify]
    /\ UNCHANGED <<log, disk, before, notify, client>>

Park(s) ==
    /\ stream[s].phase = "writing"
    /\ Unwritten(s) = {}
    /\ stream' = [stream EXCEPT ![s].phase = "waiting"]
    /\ UNCHANGED <<log, disk, before, notify, client>>

\* The channel that the stream waits on was closed.
Wake(s) ==
    /\ stream[s].phase = "waiting"
    /\ stream[s].chan # notify
    /\ stream' = [stream EXCEPT ![s].phase = "reading"]
    /\ UNCHANGED <<log, disk, before, notify, client>>

\* time.After(15 * time.Second)
Timer(s) ==
    /\ stream[s].phase = "waiting"
    /\ stream' = [stream EXCEPT ![s].phase = "reading"]
    /\ UNCHANGED <<log, disk, before, notify, client>>

\* A connection breaks: only the first n events had reached the client.
Disconnect(s, n) ==
    /\ stream[s].phase # "closed"
    /\ n \in stream[s].opened .. Len(client[s].got)
    /\ client' = [client EXCEPT
            ![s].got = SubSeq(@, 1, n),
            ![s].last = IF n > stream[s].opened THEN client[s].got[n] ELSE @]
    /\ stream' = [stream EXCEPT ![s] = Closed]
    /\ UNCHANGED <<log, disk, before, notify>>

\* The process dies, whoever holds the lock, and getAIState loads the saved
\* state.  It takes its connections with it: each has broken by a Disconnect,
\* which needs no lock, before this step.
Restart ==
    /\ Live = {}
    /\ log' = disk
    /\ before' = Free
    /\ notify' = 0
    /\ UNCHANGED <<disk, stream, client>>

\* The same when loadJSONState fails, on the query or on the JSON: getAIState
\* goes on with an empty state.  The saved one stays until the next save writes
\* over it, so a restart before that finds it again.
RestartEmpty ==
    /\ Live = {}
    /\ log' = << >>
    /\ before' = Free
    /\ notify' = 0
    /\ client' = [s \in Streams |-> [client[s] EXCEPT !.renumbered = TRUE]]
    /\ UNCHANGED <<disk, stream>>

-----------------------------------------------------------------------------

EventsInit ==
    /\ log = << >>
    /\ disk = << >>
    /\ before = Free
    /\ notify = 0
    /\ stream = [s \in Streams |-> Closed]
    /\ client = [s \in Streams |->
            [last |-> 0, base |-> Fresh, got |-> << >>, lagged |-> FALSE, renumbered |-> FALSE]]

\* The loop of serveTeamSSE, without the timer.
Unlocked(s) == (\E e \in 1..MaxEvents : WriteEvent(s, e)) \/ Park(s) \/ Wake(s)

Loop(s) == Read(s) \/ Unlocked(s)

EventsNext ==
    \/ \E k \in 1..MaxAppend : \E new \in [1..k -> Topics] : AppendEvents(new)
    \/ Save
    \/ SaveFails
    \/ \E s \in Streams :
         \/ Connect(s)
         \/ Resynchronise(s)
         \/ Loop(s)
         \/ Timer(s)
         \/ \E n \in 0..MaxEvents : Disconnect(s, n)
    \/ Restart
    \/ RestartEmpty

(***************************************************************************)
(* A handler that holds the lock ends.  The loop goes on as long as the    *)
(* client reads.  A sync.Mutex starves no goroutine, so a stream gets the  *)
(* lock even if others take it again and again: strong fairness of Read.   *)
(* The timer is not fair: delivery must not depend on it.                  *)
(***************************************************************************)
EventsFairness ==
    /\ WF_eventVars(Save \/ SaveFails)
    /\ \A s \in Streams : SF_eventVars(Read(s)) /\ WF_eventVars(Unlocked(s))

EventsSpec == EventsInit /\ [][EventsNext]_eventVars /\ EventsFairness

-----------------------------------------------------------------------------

\* Type invariant of the log, the streams and their clients.
EventsTypeOK ==
    /\ log \in Seq(Topics)
    /\ disk \in Seq(Topics)
    /\ before \in Nat \cup {Free}
    /\ notify \in Nat
    /\ stream \in [Streams -> Stream]
    /\ client \in [Streams -> Client]

\* saveTeamStateLocked restores the snapshot when the save fails: no client was
\* ever sent an event that a restart would take back.  What the exception names
\* is getAIState's: a node that could not load its state overwrites it, and the
\* clients of before hold events that no longer exist.
DeliveredIsDurable ==
    \A s \in Streams :
        ~client[s].renumbered =>
            \A i \in DOMAIN client[s].got :
                /\ client[s].got[i] <= Len(disk)
                /\ Topic[s] = All \/ disk[client[s].got[i]] = Topic[s]

\* serveTeamSSE copies the channel together with the events: a stream that
\* sleeps on a channel still open has written every retained event its client
\* wants, however saves and reads interleave.
NoLostWakeup ==
    \A s \in Streams :
        stream[s].phase = "waiting" /\ stream[s].chan = notify =>
            \A e \in OldestOf(Committed) .. Committed : Wanted(s, e) => e <= stream[s].cursor

\* Where the client of stream s stands.
Position(s) == IF stream[s].phase = "closed" THEN client[s].last ELSE stream[s].cursor

\* The cursor checks of serveTeamSSE: over broken connections, restarts and
\* reconnections, a client whose stream was never outrun by the retention window
\* has received every event it wants once and in order.  After a restart that
\* could not load the log, a cursor of before passes over the new events with
\* its numbers, until the client resynchronises.
CompleteUnlessLagged ==
    \A s \in Streams : LET got == client[s].got IN
        ~client[s].lagged /\ ~client[s].renumbered =>
            /\ {got[i] : i \in DOMAIN got} =
                 {e \in 1..Position(s) : e > client[s].base /\ Wanted(s, e)}
            /\ \A i, j \in DOMAIN got : i < j => got[i] < got[j]

Delivered(s, e) == \E i \in DOMAIN client[s].got : client[s].got[i] = e

\* saveTeamStateLocked and serveTeamSSE together: an event a connected client
\* wants reaches it unless the connection ends, the window outruns the stream or
\* its cursor is one of a log that was lost, and the 15-second timer is not
\* needed for it.
EventuallyDelivered ==
    \A s \in Streams, e \in 1..MaxEvents :
        (s \in Live /\ e <= Committed /\ e > client[s].base /\ client[s].base # Fresh /\ Wanted(s, e))
            ~> (Delivered(s, e) \/ client[s].lagged \/ client[s].renumbered \/ s \notin Live)

=============================================================================
