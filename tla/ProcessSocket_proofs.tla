------------------------- MODULE ProcessSocket_proofs --------------------------
(***************************************************************************)
(* Proofs about ProcessSocket, for any number of sockets: an answer is     *)
(* never taken for that to another request, and the store does not lose a  *)
(* connection unless a close event is late.                                *)
(*                                                                         *)
(* AnswerInv is AnswerMatchesRequest with the types it needs.              *)
(* NoOrphanUnlessLate rests on the token: a call of initWebSocket that     *)
(* still holds the newest token finds the store without a socket.          *)
(***************************************************************************)
EXTENDS ProcessSocket, TLAPS

-----------------------------------------------------------------------------
(* the answer to a request                                                 *)

RequestTypes ==
    /\ websocket \in Sockets \cup {NoSocket}
    /\ wire \in [Sockets -> Seq(Types)]
    /\ pending \in Types \cup {Nothing}
    /\ queued \in Types \cup {Nothing}
    /\ polling \in Types \cup {Nothing}
    /\ data \in [Types -> Types \cup {Nothing}]

\* At most one socket owes an answer, and it is for the pending request.
OneAnswerDue ==
    /\ \A s \in Sockets : wire[s] = <<>> \/ (pending \in Types /\ wire[s] = <<pending>>)
    /\ \A s, r \in Sockets : wire[s] # <<>> /\ wire[r] # <<>> => s = r

ShownIsAsked == \A type \in Types : data[type] \in {Nothing, type}

AnswerInv == RequestTypes /\ OneAnswerDue /\ ShownIsAsked

\* A queue of one request.
LEMMA OneRequest ==
  ASSUME NEW type \in Types
  PROVE  /\ Append(<<>>, type) = <<type>> /\ <<type>> \in Seq(Types)
         /\ Head(<<type>>) = type /\ Tail(<<type>>) = <<>> /\ <<type>> # <<>>
  OBVIOUS

\* An empty queue.
LEMMA NoRequest == <<>> \in Seq(Types)
  OBVIOUS

\* The first state.
LEMMA AnswerInit == SocketInit => AnswerInv
  BY DEF SocketInit, AnswerInv, RequestTypes, OneAnswerDue, ShownIsAsked

\* A request is sent only when no answer is due.
LEMMA AnswerSend ==
  ASSUME AnswerInv, NEW type \in Types, SendMessage(type), UNCHANGED <<websocket, data>>,
         polling' \in Types \cup {Nothing}
  PROVE  AnswerInv'
  <1>1. CASE UNCHANGED requests
    BY <1>1 DEF requests, AnswerInv, RequestTypes, OneAnswerDue, ShownIsAsked
  <1>2. CASE queued' = type /\ UNCHANGED <<wire, pending, fetching>>
    BY <1>2 DEF AnswerInv, RequestTypes, OneAnswerDue, ShownIsAsked
  <1>3. CASE IsWsOpen /\ pending = Nothing /\ DoSendMessage(type) /\ UNCHANGED queued
    <2>1. websocket \in Sockets /\ \A s \in Sockets : wire[s] = <<>>
      BY <1>3 DEF AnswerInv, RequestTypes, OneAnswerDue, IsWsOpen, Types, Nothing
    <2>2. pending' = type /\ wire' = [wire EXCEPT ![websocket] = <<type>>]
      BY <1>3, <2>1, OneRequest DEF DoSendMessage
    <2>3. RequestTypes'
      BY <1>3, <2>1, <2>2, OneRequest DEF AnswerInv, RequestTypes
    <2>4. OneAnswerDue'
      BY <2>1, <2>2, OneRequest DEF AnswerInv, RequestTypes, OneAnswerDue
    <2> QED
      BY <2>3, <2>4 DEF AnswerInv, ShownIsAsked
  <1> QED
    BY <1>1, <1>2, <1>3 DEF SendMessage

\* The answer empties the connection, and the queued request may fill it again.
LEMMA AnswerMessage ==
  ASSUME AnswerInv, NEW s \in Sockets, OnMessage(s)
  PROVE  AnswerInv'
  <1>1. /\ wire[s] = <<pending>> /\ pending \in Types
        /\ \A r \in Sockets : r # s => wire[r] = <<>>
        /\ Head(wire[s]) = pending /\ Tail(wire[s]) = <<>>
    BY OneRequest DEF OnMessage, AnswerInv, OneAnswerDue
  <1>2. UNCHANGED <<websocket, polling>>
    BY DEF OnMessage, conn, timers
  <1>3. /\ data' = data \/ data' = [data EXCEPT ![pending] = pending]
        /\ data' \in [Types -> Types \cup {Nothing}]
        /\ ShownIsAsked'
    <2>1. data' = data \/ data' = [data EXCEPT ![pending] = pending]
      BY <1>1 DEF OnMessage
    <2> QED
      BY <1>1, <2>1 DEF AnswerInv, RequestTypes, ShownIsAsked
  <1>4. CASE queued # Nothing /\ IsWsOpen
    <2>1. websocket \in Sockets /\ queued \in Types
      BY <1>4 DEF AnswerInv, RequestTypes, IsWsOpen
    <2>2. /\ pending' = queued /\ queued' = Nothing
          /\ wire' = [[wire EXCEPT ![s] = Tail(@)] EXCEPT ![websocket] = Append(@, queued)]
      BY <1>4 DEF OnMessage
    <2>3. wire' = [r \in Sockets |-> IF r = websocket THEN <<queued>> ELSE <<>>]
      BY <1>1, <2>1, <2>2, OneRequest DEF AnswerInv, RequestTypes
    <2>4. RequestTypes'
      BY <1>2, <1>3, <2>1, <2>2, <2>3, OneRequest, NoRequest DEF AnswerInv, RequestTypes
    <2>5. OneAnswerDue'
      BY <2>1, <2>2, <2>3, OneRequest DEF OneAnswerDue
    <2> QED
      BY <1>3, <2>4, <2>5 DEF AnswerInv
  <1>5. CASE ~(queued # Nothing /\ IsWsOpen)
    <2>1. pending' = Nothing /\ queued' = queued /\ wire' = [wire EXCEPT ![s] = Tail(@)]
      BY <1>5 DEF OnMessage
    <2>2. wire' = [r \in Sockets |-> <<>>]
      BY <1>1, <2>1 DEF AnswerInv, RequestTypes
    <2>3. RequestTypes'
      BY <1>2, <1>3, <2>1, <2>2, NoRequest DEF AnswerInv, RequestTypes
    <2>4. OneAnswerDue'
      BY <2>2 DEF OneAnswerDue
    <2> QED
      BY <1>3, <2>3, <2>4 DEF AnswerInv
  <1> QED
    BY <1>4, <1>5

\* A socket that is opened, replaced or closed owes nothing.
LEMMA AnswerConnection ==
  ASSUME AnswerInv, UNCHANGED <<pending, queued, data>>,
         polling' \in {polling, Nothing},
         websocket' \in Sockets \cup {NoSocket},
         wire' \in [Sockets -> Seq(Types)],
         \A s \in Sockets : wire'[s] = wire[s] \/ wire'[s] = <<>>
  PROVE  AnswerInv'
  BY DEF AnswerInv, RequestTypes, OneAnswerDue, ShownIsAsked

\* Every step keeps the invariant.
LEMMA AnswerStep == AnswerInv /\ [SocketNext]_socketVars => AnswerInv'
  <1> SUFFICES ASSUME AnswerInv, [SocketNext]_socketVars PROVE AnswerInv'
    OBVIOUS
  <1> USE DEF conn, requests, timers, history
  <1>1. ASSUME NEW type \in Types, Mount(type)
        PROVE  AnswerInv'
    <2>1. UNCHANGED <<websocket, data>> /\ polling' = type
      BY <1>1 DEF Mount
    <2>2. SendMessage(type) \/ UNCHANGED requests
      BY <1>1 DEF Mount, ScheduleInitialFetch
    <2>3. CASE UNCHANGED requests
      BY <2>1, <2>3 DEF AnswerInv, RequestTypes, OneAnswerDue, ShownIsAsked
    <2> QED
      BY <2>1, <2>2, <2>3, AnswerSend
  <1>2. CASE Unmount
    <2>1. UNCHANGED <<requests, websocket, data>> /\ polling' = Nothing
      BY <1>2 DEF Unmount
    <2> QED
      BY <2>1 DEF AnswerInv, RequestTypes, OneAnswerDue, ShownIsAsked
  <1>3. CASE Poll
    <2>1. polling \in Types
      BY <1>3 DEF Poll, AnswerInv, RequestTypes
    <2> QED
      BY <1>3, <2>1, AnswerSend DEF Poll, AnswerInv, RequestTypes
  <1>4. CASE TimerStep
    <2>1. \/ UNCHANGED requests
          \/ \E type \in Types : SendMessage(type)
      BY <1>4 DEF TimerStep, CheckConnection, CheckExpires, SendInitial, ScheduleInitialFetch
    <2>2. UNCHANGED <<websocket, data, polling>>
      BY <1>4 DEF TimerStep, CheckConnection, CheckExpires, SendInitial
    <2>3. CASE UNCHANGED requests
      BY <2>2, <2>3 DEF AnswerInv, RequestTypes, OneAnswerDue, ShownIsAsked
    <2> QED
      BY <2>1, <2>2, <2>3, AnswerSend DEF AnswerInv, RequestTypes
  <1>5. CASE CloseWebSocket
    <2>1. UNCHANGED <<pending, queued, data>> /\ polling' \in {polling, Nothing}
      BY <1>5 DEF CloseWebSocket
    <2>2. websocket' \in Sockets \cup {NoSocket}
      BY <1>5 DEF CloseWebSocket, AnswerInv, RequestTypes
    <2>3. \/ wire' = wire
          \/ wire' = [s \in Sockets |-> IF s = websocket THEN <<>> ELSE wire[s]]
      BY <1>5 DEF CloseWebSocket
    <2>4. /\ wire' \in [Sockets -> Seq(Types)]
          /\ \A s \in Sockets : wire'[s] = wire[s] \/ wire'[s] = <<>>
      BY <2>3, NoRequest DEF AnswerInv, RequestTypes
    <2> QED
      BY <2>1, <2>2, <2>4, AnswerConnection
  <1>6. ASSUME NEW t \in inits, AuthChecked(t)
        PROVE  AnswerInv'
    <2>1. UNCHANGED <<pending, queued, data, polling>>
      BY <1>6 DEF AuthChecked
    <2>2. \/ UNCHANGED <<wire, websocket>>
          \/ \E s \in Sockets : websocket' = s /\ wire' = [wire EXCEPT ![s] = <<>>]
      BY <1>6 DEF AuthChecked
    <2>3. CASE UNCHANGED <<wire, websocket>>
      BY <2>1, <2>3 DEF AnswerInv, RequestTypes, OneAnswerDue, ShownIsAsked
    <2>4. ASSUME NEW s \in Sockets, websocket' = s, wire' = [wire EXCEPT ![s] = <<>>]
          PROVE  AnswerInv'
      <3>1. /\ wire' \in [Sockets -> Seq(Types)]
            /\ \A r \in Sockets : wire'[r] = wire[r] \/ wire'[r] = <<>>
        BY <2>4, NoRequest DEF AnswerInv, RequestTypes
      <3> QED
        BY <2>1, <2>4, <3>1, AnswerConnection
    <2> QED
      BY <2>2, <2>3, <2>4
  <1>7. ASSUME NEW s \in Sockets, OnMessage(s)
        PROVE  AnswerInv'
    BY <1>7, AnswerMessage
  <1>8. ASSUME NEW s \in Sockets, OnOpen(s)
        PROVE  AnswerInv'
    <2>1. UNCHANGED <<requests, websocket, data, polling>>
      BY <1>8 DEF OnOpen
    <2> QED
      BY <2>1 DEF AnswerInv, RequestTypes, OneAnswerDue, ShownIsAsked
  <1>9. ASSUME NEW s \in Sockets, CloseEvent(s) \/ Breaks(s)
        PROVE  AnswerInv'
    <2>1. /\ UNCHANGED <<pending, queued, data, polling>>
          /\ websocket' = NoSocket /\ wire' = [wire EXCEPT ![s] = <<>>]
      BY <1>9 DEF CloseEvent, Breaks, OnClose
    <2>2. /\ wire' \in [Sockets -> Seq(Types)]
          /\ \A r \in Sockets : wire'[r] = wire[r] \/ wire'[r] = <<>>
      BY <2>1 DEF AnswerInv, RequestTypes
    <2> QED
      BY <2>1, <2>2, AnswerConnection
  <1>10. CASE UNCHANGED socketVars
    BY <1>10 DEF socketVars, AnswerInv, RequestTypes, OneAnswerDue, ShownIsAsked
  <1> QED
    BY <1>1, <1>2, <1>3, <1>4, <1>5, <1>6, <1>7, <1>8, <1>9, <1>10 DEF SocketNext, SocketStep

\* sendPsMessage, sendNetMessage, onMessage and every way to close and replace a
\* socket: at most one answer is due, for pendingRequestType, and a page shows
\* only what was asked for by it, whatever the number of sockets.
THEOREM AnswersMatch == SocketSpec => []AnswerMatchesRequest
  <1>1. AnswerInv => AnswerMatchesRequest
    BY DEF AnswerInv, OneAnswerDue, ShownIsAsked, AnswerMatchesRequest
  <1> QED
    BY <1>1, AnswerInit, AnswerStep, PTL DEF SocketSpec

-----------------------------------------------------------------------------
(* connections                                                             *)

ConnTypes ==
    /\ websocket \in Sockets \cup {NoSocket}
    /\ socket \in [Sockets -> {"none", "connecting", "open", "closing"}]
    /\ token \in Nat /\ inits \subseteq Nat

\* A call with the newest token has found no socket, and none was made since.
TokenInv ==
    /\ \A t \in inits : t <= token
    /\ token \in inits => websocket = NoSocket

ConnInv == ConnTypes /\ TokenInv /\ NoOrphanUnlessLate

\* The first state.
LEMMA ConnInit == SocketInit => ConnInv
  BY DEF SocketInit, ConnInv, ConnTypes, TokenInv, NoOrphanUnlessLate

\* Zero is no socket.
LEMMA NoSocketIsNone == NoSocket \notin Sockets
  BY SocketAssumption DEF NoSocket

\* A step that leaves the connections alone.
LEMMA ConnUnchanged ==
  ASSUME ConnInv, UNCHANGED <<websocket, socket, token, inits, late>>
  PROVE  ConnInv'
  BY DEF ConnInv, ConnTypes, TokenInv, NoOrphanUnlessLate

\* The end of a socket takes the store's socket with it, or is late.
LEMMA ConnClose ==
  ASSUME ConnInv, NEW s \in Sockets, OnClose(s)
  PROVE  ConnInv'
  <1>1. /\ websocket' = NoSocket /\ UNCHANGED <<token, inits>>
        /\ socket' = [socket EXCEPT ![s] = "none"]
        /\ ~late' => ~late /\ websocket \in {NoSocket, s}
    BY DEF OnClose
  <1>2. ConnTypes' /\ TokenInv'
    BY <1>1 DEF ConnInv, ConnTypes, TokenInv
  <1>3. NoOrphanUnlessLate'
    BY <1>1, NoSocketIsNone DEF ConnInv, ConnTypes, NoOrphanUnlessLate
  <1> QED
    BY <1>2, <1>3 DEF ConnInv

\* Every step keeps the invariant.
LEMMA ConnStep == ConnInv /\ [SocketNext]_socketVars => ConnInv'
  <1> SUFFICES ASSUME ConnInv, [SocketNext]_socketVars PROVE ConnInv'
    OBVIOUS
  <1> USE DEF conn, requests, timers, history
  <1>1. ASSUME NEW type \in Types, Mount(type)
        PROVE  ConnInv'
    <2>1. UNCHANGED <<websocket, socket, late>> /\ InitWebSocket
      BY <1>1 DEF Mount
    <2>2. CASE UNCHANGED <<token, inits>>
      BY <2>1, <2>2, ConnUnchanged
    <2>3. CASE websocket = NoSocket /\ token' = token + 1 /\ inits' = inits \cup {token + 1}
      BY <2>1, <2>3 DEF ConnInv, ConnTypes, TokenInv, NoOrphanUnlessLate
    <2> QED
      BY <2>1, <2>2, <2>3 DEF InitWebSocket
  <1>2. CASE Unmount \/ Poll \/ TimerStep
    BY <1>2, ConnUnchanged
       DEF Unmount, Poll, TimerStep, CheckConnection, CheckExpires, SendInitial
  <1>3. CASE CloseWebSocket
    <2>1. CASE UNCHANGED <<token, socket, websocket>>
      BY <1>3, <2>1, ConnUnchanged DEF CloseWebSocket
    <2>2. CASE /\ token' = token + 1 /\ websocket' = NoSocket
               /\ socket' = [s \in Sockets |-> IF s = websocket THEN "closing" ELSE socket[s]]
      <3>1. UNCHANGED <<inits, late>>
        BY <1>3 DEF CloseWebSocket
      <3>2. ConnTypes' /\ TokenInv'
        BY <2>2, <3>1 DEF ConnInv, ConnTypes, TokenInv
      <3>3. NoOrphanUnlessLate'
        BY <2>2, <3>1 DEF ConnInv, ConnTypes, NoOrphanUnlessLate
      <3> QED
        BY <3>2, <3>3 DEF ConnInv
    <2> QED
      BY <1>3, <2>1, <2>2 DEF CloseWebSocket
  <1>4. ASSUME NEW t \in inits, AuthChecked(t)
        PROVE  ConnInv'
    <2>1. UNCHANGED <<token, late>> /\ inits' = inits \ {t}
      BY <1>4 DEF AuthChecked
    <2>2. CASE UNCHANGED <<socket, websocket>>
      BY <2>1, <2>2 DEF ConnInv, ConnTypes, TokenInv, NoOrphanUnlessLate
    <2>3. ASSUME StillWanted(t),
                 NEW s \in Sockets, websocket' = s, socket' = [socket EXCEPT ![s] = "connecting"]
          PROVE  ConnInv'
      <3>1. t = token /\ websocket = NoSocket
        BY <2>3 DEF StillWanted, ConnInv, TokenInv
      <3>2. ConnTypes' /\ TokenInv'
        BY <2>1, <2>3, <3>1 DEF ConnInv, ConnTypes, TokenInv
      <3>3. NoOrphanUnlessLate'
        BY <2>1, <2>3, <3>1, NoSocketIsNone DEF ConnInv, ConnTypes, NoOrphanUnlessLate
      <3> QED
        BY <3>2, <3>3 DEF ConnInv
    <2> QED
      BY <1>4, <2>2, <2>3 DEF AuthChecked
  <1>5. ASSUME NEW s \in Sockets, OnMessage(s)
        PROVE  ConnInv'
    BY <1>5, ConnUnchanged DEF OnMessage
  <1>6. ASSUME NEW s \in Sockets, OnOpen(s)
        PROVE  ConnInv'
    <2>1. /\ UNCHANGED <<websocket, token, inits, late>>
          /\ socket[s] = "connecting" /\ socket' = [socket EXCEPT ![s] = "open"]
      BY <1>6 DEF OnOpen
    <2> QED
      BY <2>1 DEF ConnInv, ConnTypes, TokenInv, NoOrphanUnlessLate
  <1>7. ASSUME NEW s \in Sockets, CloseEvent(s) \/ Breaks(s)
        PROVE  ConnInv'
    BY <1>7, ConnClose DEF CloseEvent, Breaks
  <1>8. CASE UNCHANGED socketVars
    BY <1>8, ConnUnchanged DEF socketVars
  <1> QED
    BY <1>1, <1>2, <1>3, <1>4, <1>5, <1>6, <1>7, <1>8 DEF SocketNext, SocketStep

\* connect, disconnect, initWebSocket and closeWebSocket, with their timers and
\* the await in between: the store loses no connection that is open or being
\* opened, unless a close event is late.
THEOREM NoOrphans == SocketSpec => []NoOrphanUnlessLate
  <1>1. ConnInv => NoOrphanUnlessLate
    BY DEF ConnInv
  <1> QED
    BY <1>1, ConnInit, ConnStep, PTL DEF SocketSpec

=============================================================================
