----------------------------- MODULE ProcessSocket -----------------------------
(***************************************************************************)
(* The process store of the web client (store/modules/process.ts), which   *)
(* the process page and the network page share, and the node's process     *)
(* socket (node/api/process.go), which answers the requests of a           *)
(* connection in their order.                                              *)
(*                                                                         *)
(* Actions are the tasks of the browser's event loop: a page is mounted or *)
(* unmounted, a timer fires, a socket reports an event, the check before   *)
(* the connection is answered.  A socket that the store closes reports its *)
(* close event later, and no more messages.                                *)
(***************************************************************************)
EXTENDS Naturals, Sequences

CONSTANTS
    Sockets,      \* 1 .. the number of sockets that exist at the same time
    MaxMounts     \* bound on the number of times a page is mounted

ASSUME SocketAssumption ==
    /\ Sockets # {} /\ Sockets \subseteq Nat \ {0}
    /\ MaxMounts \in Nat

VARIABLES
    page,         \* the mounted page
    mounts,       \* how often a page was mounted
    socket,       \* socket -> what the browser knows of it
    wire,         \* socket -> requests without an answer
    websocket,    \* the socket of the store
    token,        \* initWebSocketToken
    inits,        \* tokens of the calls that wait for checkStreamAuth
    refCount,     \* connectionRefCount
    isConnecting,
    closeTimer,   \* disconnectTimer
    pending,      \* pendingRequestType
    queued,       \* queuedRequestType
    fetching,     \* the types that isPsFetching and isNetFetching hold for
    polling,      \* activePollingType, and the type that pollingTimer sends
    checks,       \* types that a checkConnection interval runs for, and whether
                  \* their first fetch is delayed
    delayed,      \* types whose first fetch is scheduled
    data,         \* type -> the type of the answer that is shown
    failed,       \* history: the check or the network refused or broke a connection
    lost,         \* history: a socket was closed that owed an answer
    late          \* history: a closed socket reported late and took the next
                  \* socket from the store

conn == <<socket, websocket, token, inits, refCount, isConnecting, closeTimer>>
requests == <<wire, pending, queued, fetching>>
timers == <<polling, checks, delayed>>
history == <<failed, lost, late>>
socketVars == <<page, mounts, conn, requests, timers, data, history>>

Types == {"ps", "net"}
Nothing == "none"
NoSocket == 0

IsWsOpen == websocket # NoSocket /\ socket[websocket] = "open"

-----------------------------------------------------------------------------
(* Requests                                                                *)

DoSendMessage(type) ==
    /\ pending' = type
    /\ fetching' = fetching \cup {type}
    /\ wire' = [wire EXCEPT ![websocket] = Append(@, type)]

\* Mutant: a request does not wait for the answer to the one before.
SendAtOnce(type) ==
    \/ /\ ~IsWsOpen \/ type \in fetching
       /\ UNCHANGED requests
    \/ /\ IsWsOpen /\ type \notin fetching
       /\ DoSendMessage(type)
       /\ UNCHANGED queued

\* sendPsMessage and sendNetMessage
SendMessage(type) ==
    \/ /\ ~IsWsOpen \/ (pending = Nothing /\ type \in fetching)
       /\ UNCHANGED requests
    \/ /\ IsWsOpen /\ pending # Nothing
       /\ queued' = type
       /\ UNCHANGED <<wire, pending, fetching>>
    \/ /\ IsWsOpen /\ pending = Nothing /\ type \notin fetching
       /\ DoSendMessage(type)
       /\ UNCHANGED queued

\* Is an answer to this type still wanted?
Shown(type) == type = polling

\* Mutant: the answered request stays pending.
PendingKept(s) ==
    /\ socket[s] = "open"
    /\ wire[s] # <<>>
    /\ wire' = [wire EXCEPT ![s] = Tail(@)]
    /\ fetching' = fetching \ {pending}
    /\ data' = IF pending # Nothing /\ Shown(pending)
               THEN [data EXCEPT ![pending] = Head(wire[s])] ELSE data
    /\ UNCHANGED <<page, mounts, conn, pending, queued, timers, history>>

\* onMessage; the node answers the oldest request of the connection.
OnMessage(s) ==
    /\ socket[s] = "open"
    /\ wire[s] # <<>>
    /\ data' = IF pending # Nothing /\ Shown(pending)
               THEN [data EXCEPT ![pending] = Head(wire[s])] ELSE data
    /\ IF queued # Nothing /\ IsWsOpen
       THEN /\ pending' = queued
            /\ queued' = Nothing
            /\ fetching' = (fetching \ {pending}) \cup {queued}
            /\ wire' = [[wire EXCEPT ![s] = Tail(@)] EXCEPT ![websocket] = Append(@, queued)]
       ELSE /\ pending' = Nothing
            /\ fetching' = fetching \ {pending}
            /\ wire' = [wire EXCEPT ![s] = Tail(@)]
            /\ UNCHANGED queued
    /\ UNCHANGED <<page, mounts, conn, timers, history>>

-----------------------------------------------------------------------------
(* Connections                                                             *)

\* initWebSocket, up to its await.
InitWebSocket ==
    IF websocket # NoSocket \/ isConnecting
    THEN UNCHANGED <<token, inits, isConnecting>>
    ELSE /\ token' = token + 1
         /\ inits' = inits \cup {token + 1}
         /\ isConnecting' = TRUE

\* Mutant: the call goes on although another one was started since.
AnyCall(t) == refCount > 0

StillWanted(t) == t = token /\ refCount > 0

\* initWebSocket, after its await: stale, refused or a new socket.
AuthChecked(t) ==
    /\ t \in inits
    /\ inits' = inits \ {t}
    /\ \/ /\ ~StillWanted(t)
          /\ isConnecting' = (isConnecting /\ t # token)
          /\ UNCHANGED <<socket, wire, websocket, failed>>
       \/ /\ StillWanted(t)
          /\ isConnecting' = FALSE
          /\ failed' = TRUE
          /\ UNCHANGED <<socket, wire, websocket>>
       \/ /\ StillWanted(t)
          /\ \E s \in Sockets :
                /\ socket[s] = "none"
                /\ \A r \in Sockets : socket[r] = "none" => s <= r
                /\ websocket' = s
                /\ socket' = [socket EXCEPT ![s] = "connecting"]
                /\ wire' = [wire EXCEPT ![s] = <<>>]
          /\ UNCHANGED <<isConnecting, failed>>
    /\ UNCHANGED <<page, mounts, token, refCount, closeTimer, pending, queued,
                   fetching, timers, data, lost, late>>

OnOpen(s) ==
    /\ socket[s] = "connecting"
    /\ socket' = [socket EXCEPT ![s] = "open"]
    /\ isConnecting' = FALSE
    /\ UNCHANGED <<page, mounts, websocket, token, inits, refCount, closeTimer,
                   requests, timers, data, history>>

\* onClose does not look at which socket was closed, and leaves the requests.
OnClose(s) ==
    /\ isConnecting' = FALSE
    /\ websocket' = NoSocket
    /\ late' = (late \/ websocket \notin {NoSocket, s})
    /\ socket' = [socket EXCEPT ![s] = "none"]
    /\ lost' = (lost \/ wire[s] # <<>>)
    /\ wire' = [wire EXCEPT ![s] = <<>>]
    /\ UNCHANGED <<page, mounts, token, inits, refCount, closeTimer, pending, queued,
                   fetching, timers, data>>

\* The network or the node ends the connection.
Breaks(s) ==
    /\ socket[s] \in {"connecting", "open"}
    /\ OnClose(s)
    /\ failed' = TRUE

\* The close event of a socket that the store has closed.
CloseEvent(s) ==
    /\ socket[s] = "closing"
    /\ OnClose(s)
    /\ UNCHANGED failed

\* The callback of disconnectTimer: closeWebSocket, with stopPolling.
CloseWebSocket ==
    /\ closeTimer
    /\ closeTimer' = FALSE
    /\ IF refCount > 0
       THEN UNCHANGED <<token, socket, wire, websocket, isConnecting, polling, lost>>
       ELSE /\ token' = token + 1
            /\ socket' = [s \in Sockets |-> IF s = websocket THEN "closing" ELSE socket[s]]
            /\ lost' = (lost \/ (websocket # NoSocket /\ wire[websocket] # <<>>))
            /\ wire' = [s \in Sockets |-> IF s = websocket THEN <<>> ELSE wire[s]]
            /\ websocket' = NoSocket
            /\ isConnecting' = FALSE
            /\ polling' = Nothing
    /\ UNCHANGED <<page, mounts, inits, refCount, pending, queued, fetching, checks,
                   delayed, data, failed, late>>

-----------------------------------------------------------------------------
(* Pages and timers                                                        *)

ScheduleInitialFetch(type, delay) ==
    IF delay THEN delayed' = delayed \cup {type} /\ UNCHANGED requests
    ELSE SendMessage(type) /\ UNCHANGED delayed

\* onMounted: connect and startPolling.  The first fetch is delayed when the
\* page has rows to show; an answer may have none.
Mount(type) ==
    /\ page = Nothing
    /\ mounts < MaxMounts
    /\ mounts' = mounts + 1
    /\ page' = type
    /\ closeTimer' = FALSE
    /\ refCount' = refCount + 1
    /\ InitWebSocket
    /\ polling' = type
    /\ \E delay \in BOOLEAN :
        /\ delay => data[type] # Nothing
        /\ \/ /\ IsWsOpen
              /\ ScheduleInitialFetch(type, delay)
              /\ UNCHANGED checks
           \/ /\ ~IsWsOpen
              /\ checks' = checks \cup {<<type, delay>>}
              /\ UNCHANGED <<requests, delayed>>
    /\ UNCHANGED <<socket, websocket, data, history>>

\* Mutant: disconnect is forgotten.
UnmountKeepsConnection ==
    /\ page # Nothing
    /\ page' = Nothing
    /\ polling' = Nothing
    /\ UNCHANGED <<mounts, conn, requests, checks, delayed, data, history>>

\* onUnmounted: stopPolling and disconnect.
Unmount ==
    /\ page # Nothing
    /\ page' = Nothing
    /\ polling' = Nothing
    /\ refCount' = refCount - 1
    /\ closeTimer' = (closeTimer \/ refCount' = 0)
    /\ UNCHANGED <<mounts, socket, websocket, token, inits, isConnecting, requests,
                   checks, delayed, data, history>>

\* The polling timer, or the user's search on the page.
Poll ==
    /\ polling # Nothing
    /\ SendMessage(polling)
    /\ UNCHANGED <<page, mounts, conn, timers, data, history>>

\* The interval of startPolling finds the socket open.  Nothing but its time
\* limit cancels it, so it may belong to a page that was left.
CheckConnection(type, delay) ==
    /\ <<type, delay>> \in checks
    /\ IsWsOpen
    /\ checks' = checks \ {<<type, delay>>}
    /\ ScheduleInitialFetch(type, delay)
    /\ UNCHANGED <<page, mounts, conn, polling, data, history>>

CheckExpires(type, delay) ==
    /\ <<type, delay>> \in checks
    /\ checks' = checks \ {<<type, delay>>}
    /\ UNCHANGED <<page, mounts, conn, requests, polling, delayed, data, history>>

SendInitial(type) ==
    /\ type \in delayed
    /\ delayed' = delayed \ {type}
    /\ SendMessage(type)
    /\ UNCHANGED <<page, mounts, conn, polling, checks, data, history>>

-----------------------------------------------------------------------------

SocketInit ==
    /\ page = Nothing /\ mounts = 0
    /\ socket = [s \in Sockets |-> "none"]
    /\ wire = [s \in Sockets |-> <<>>]
    /\ websocket = NoSocket /\ token = 0 /\ inits = {}
    /\ refCount = 0 /\ isConnecting = FALSE /\ closeTimer = FALSE
    /\ pending = Nothing /\ queued = Nothing /\ fetching = {}
    /\ polling = Nothing /\ checks = {} /\ delayed = {}
    /\ data = [t \in Types |-> Nothing]
    /\ failed = FALSE /\ lost = FALSE /\ late = FALSE

TimerStep ==
    \/ \E type \in Types, delay \in BOOLEAN : CheckConnection(type, delay) \/ CheckExpires(type, delay)
    \/ \E type \in Types : SendInitial(type)

SocketStep(s) == OnMessage(s) \/ OnOpen(s) \/ CloseEvent(s)

SocketNext ==
    \/ \E type \in Types : Mount(type)
    \/ Unmount
    \/ Poll
    \/ TimerStep
    \/ CloseWebSocket
    \/ \E t \in inits : AuthChecked(t)
    \/ \E s \in Sockets : SocketStep(s) \/ Breaks(s)

\* Timers fire, the check is answered or times out, the node answers and the
\* browser reports what happened to a socket.
SocketFairness ==
    /\ WF_socketVars(Poll)
    /\ WF_socketVars(CloseWebSocket)
    /\ WF_socketVars(\E t \in inits : AuthChecked(t))
    /\ \A s \in Sockets : WF_socketVars(SocketStep(s))

SocketSpec == SocketInit /\ [][SocketNext]_socketVars /\ SocketFairness

-----------------------------------------------------------------------------

\* doSendMessage, onMessage and every way to close and replace a socket: over
\* all sockets that can still report a message, at most one answer is due, it is
\* for pendingRequestType, and what a page shows was asked for by that page.
AnswerMatchesRequest ==
    /\ \A s, r \in Sockets : wire[s] # <<>> /\ wire[r] # <<>> => s = r
    /\ \A s \in Sockets : wire[s] # <<>> => wire[s] = <<pending>>
    /\ \A type \in Types : data[type] \in {Nothing, type}

\* connect, disconnect, initWebSocket and closeWebSocket under every order of
\* mounting, timers and checks: the store never loses a connection that is open
\* or being opened, unless the close event of an earlier socket was late.
NoOrphanUnlessLate ==
    ~late => \A s \in Sockets : socket[s] \in {"connecting", "open"} => s = websocket

\* disconnect: when the pages are left for good, the connection is closed.
LeavingDisconnects ==
    (page = Nothing) ~>
        \/ page # Nothing
        \/ late
        \/ \A s \in Sockets : socket[s] \notin {"connecting", "open"}

\* startPolling and the queue of one request: a page that stays open shows an
\* answer, unless a connection was refused or broken, an answer was lost with
\* its socket, or a close event was late.
PageShowsData ==
    \A type \in Types :
        (page = type) ~> (page # type \/ data[type] = type \/ failed \/ lost \/ late)

=============================================================================
