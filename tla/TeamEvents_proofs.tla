--------------------------- MODULE TeamEvents_proofs ---------------------------
(***************************************************************************)
(* Durability before visibility and the absence of lost wake-ups, proved   *)
(* for every number of clients, events and tasks.                          *)
(*                                                                         *)
(* NoLostWakeup is not inductive: whether a sleeping stream has unread     *)
(* events was decided when it copied the log and the channel, several      *)
(* steps earlier.  SyncInv remembers what those copies mean in between:    *)
(* the channel is still open only if the copied window is still the saved  *)
(* one.  LogInv says that the committed part of the log is what is saved,  *)
(* or nothing, after a restart that could not load it.                     *)
(*                                                                         *)
(* CompleteUnlessLagged needs to know where a connection would fall back   *)
(* to if it broke now: CompleteInv keeps, beside what the client has, that *)
(* the part received before the connection was opened covers exactly the   *)
(* events up to its Last-Event-ID, and that the copied window leaves out   *)
(* nothing the client wants.  It says nothing of a client whose numbers    *)
(* are those of a log that was lost.                                       *)
(***************************************************************************)
EXTENDS TeamEvents, TLAPS, SequenceTheorems

\* The part of the log that no failing save takes back is the saved log, or
\* nothing while the node has not saved since it started with an empty state.
LogInv ==
    /\ before # Free => before <= Len(log)
    /\ \/ Committed = 0
       \/ /\ Committed = Len(disk)
          /\ \A e \in 1..Committed : log[e] = disk[e]

Wants(L, s, e) == Topic[s] = All \/ L[e] = Topic[s]

\* What client c of stream s knows of the first n events of the log L.
Known(L, s, n, c) ==
    /\ c.last <= n
    /\ \A i \in DOMAIN c.got : c.got[i] \in 1..n /\ Wants(L, s, c.got[i])

\* What streams and clients know is committed.
SavedInv ==
    \A s \in Streams :
        /\ stream[s].phase # "closed" => stream[s].hi <= Committed
        /\ ~client[s].renumbered =>
             stream[s].cursor <= Committed /\ Known(log, s, Committed, client[s])

\* What the copies of the window and of the channel mean to a stream.
SyncInv ==
    \A s \in Streams :
        /\ stream[s].phase = "closed" => stream[s] = Closed
        /\ stream[s].phase \in {"writing", "waiting"} =>
             /\ stream[s].lo = OldestOf(stream[s].hi)
             /\ stream[s].chan <= notify
             /\ stream[s].chan = notify => stream[s].hi = Committed
        /\ stream[s].phase = "waiting" =>
             \A e \in stream[s].lo .. stream[s].hi : Wanted(s, e) => e <= stream[s].cursor

EventsInv == EventsTypeOK /\ LogInv /\ SavedInv /\ SyncInv

-----------------------------------------------------------------------------

\* The committed part of the log, by who holds the lock.
LEMMA CommittedFacts ==
    ASSUME EventsTypeOK, LogInv
    PROVE  /\ log \in Seq(Topics) /\ disk \in Seq(Topics) /\ Len(log) \in Nat /\ Len(disk) \in Nat
           /\ Committed \in Nat /\ Committed <= Len(log) /\ Committed <= Len(disk)
           /\ before = Free => Committed = Len(log)
           /\ before # Free => Committed = before
BY DEF EventsTypeOK, LogInv, Committed

\* A client knows no less of a longer log.
LEMMA KnownGrows ==
    ASSUME NEW L, NEW M, NEW s, NEW n \in Nat, NEW m \in Nat, n <= m, NEW c \in Client,
           \A e \in 1..n : M[e] = L[e],
           Known(L, s, n, c)
    PROVE  Known(M, s, m, c)
<1>1. c.last \in Nat /\ c.last <= n
  BY DEF Client, Known
<1>2. ASSUME NEW i \in DOMAIN c.got PROVE c.got[i] \in 1..m /\ Wants(M, s, c.got[i])
  <2>1. c.got[i] \in 1..n /\ Wants(L, s, c.got[i])
    BY DEF Known
  <2>2. M[c.got[i]] = L[c.got[i]]
    BY <2>1
  <2> QED
    BY <2>1, <2>2 DEF Wants
<1>3. c.last <= m
  BY <1>1
<1> QED
  BY <1>2, <1>3 DEF Known

\* The empty system satisfies the invariant.
LEMMA EventsInitInv == EventsInit => EventsInv
<1> SUFFICES ASSUME EventsInit PROVE EventsInv
  OBVIOUS
<1> USE EventsAssumption DEF EventsInit, Free, Fresh
<1>1. EventsTypeOK
  BY DEF EventsTypeOK, Stream, Client, Closed
<1>2. Committed = 0 /\ LogInv
  BY DEF LogInv, Committed
<1>3. SavedInv
  <2>1. \A s \in Streams : Known(log, s, Committed, client[s])
    BY <1>2 DEF Known
  <2> QED
    BY <1>2, <2>1 DEF SavedInv, Closed
<1>4. SyncInv
  BY DEF SyncInv, Closed
<1> QED
  BY <1>1, <1>2, <1>3, <1>4 DEF EventsInv

\* The rows of the types, for the step lemmas below.
LEMMA EventsTypes ==
    ASSUME EventsTypeOK, NEW s \in Streams
    PROVE  /\ stream[s].phase \in {"closed", "reading", "writing", "waiting"}
           /\ stream[s].cursor \in Nat
           /\ stream[s].lo \in Nat
           /\ stream[s].hi \in Nat
           /\ stream[s].chan \in Nat
           /\ stream[s].opened \in Nat
           /\ client[s] \in Client
           /\ client[s].last \in Nat
           /\ client[s].base \in Nat \cup {Fresh}
           /\ client[s].got \in Seq(Nat)
           /\ client[s].lagged \in BOOLEAN
           /\ client[s].renumbered \in BOOLEAN
BY DEF EventsTypeOK, Stream, Client

\* What is known stays known when the committed part of the log only grows.
LEMMA SavedGrows ==
    ASSUME EventsInv, EventsTypeOK', LogInv', UNCHANGED <<stream, client>>,
           Committed <= Committed',
           \A e \in 1..Committed : log'[e] = log[e]
    PROVE  SavedInv'
<1>1. EventsTypeOK /\ LogInv /\ SavedInv
  BY DEF EventsInv
<1>2. Committed \in Nat /\ Committed' \in Nat
  BY <1>1, CommittedFacts DEF Committed, EventsTypeOK
<1> SUFFICES ASSUME NEW s \in Streams
             PROVE  /\ stream[s].phase # "closed" => stream[s].hi <= Committed'
                    /\ ~client[s].renumbered =>
                         stream[s].cursor <= Committed' /\ Known(log', s, Committed', client[s])
  BY Zenon DEF SavedInv, Known, Wants
<1>3. stream[s].hi \in Nat /\ stream[s].cursor \in Nat /\ client[s] \in Client
  BY <1>1, EventsTypes
<1>4. stream[s].phase # "closed" => stream[s].hi <= Committed
  BY <1>1 DEF SavedInv
<1>5. ASSUME ~client[s].renumbered
      PROVE  stream[s].cursor <= Committed' /\ Known(log', s, Committed', client[s])
  <2>1. stream[s].cursor <= Committed /\ Known(log, s, Committed, client[s])
    BY <1>1, <1>5 DEF SavedInv
  <2>2. Known(log', s, Committed', client[s])
    BY <1>2, <1>3, <2>1, KnownGrows
  <2> QED
    BY <1>2, <1>3, <2>1, <2>2
<1> QED
  BY <1>2, <1>3, <1>4, <1>5

\* A step that leaves the streams, the clients and the committed part of the log
\* alone preserves what they know.
LEMMA SameStreamsInv ==
    ASSUME EventsInv, UNCHANGED <<stream, client>>, notify' = notify, Committed' = Committed,
           EventsTypeOK', LogInv',
           \A e \in 1..Committed : log'[e] = log[e]
    PROVE  EventsInv'
<1>0. EventsTypeOK /\ LogInv /\ SavedInv /\ SyncInv
  BY DEF EventsInv
<1>1. SavedInv'
  <2>1. Committed <= Committed'
    BY <1>0, CommittedFacts
  <2> QED
    BY <2>1, SavedGrows
<1>2. SyncInv'
  <2> SUFFICES ASSUME NEW s \in Streams
               PROVE /\ stream[s].phase = "closed" => stream[s] = Closed
                     /\ stream[s].phase \in {"writing", "waiting"} =>
                           /\ stream[s].lo = OldestOf(stream[s].hi)
                           /\ stream[s].chan <= notify
                           /\ stream[s].chan = notify => stream[s].hi = Committed
                     /\ stream[s].phase = "waiting" =>
                           \A e \in stream[s].lo .. stream[s].hi :
                              Wanted(s, e)' => e <= stream[s].cursor
    BY Zenon DEF SyncInv, OldestOf
  <2>2. ASSUME stream[s].phase = "waiting", NEW e \in stream[s].lo .. stream[s].hi, Wanted(s, e)'
        PROVE  e <= stream[s].cursor
    <3>1. stream[s].lo \in Nat /\ stream[s].hi \in Nat /\ Committed \in Nat
      BY <1>0, EventsTypes, CommittedFacts
    <3>2. stream[s].lo = OldestOf(stream[s].hi) /\ stream[s].hi <= Committed
      BY <1>0, <2>2 DEF SyncInv, SavedInv
    <3>3. e \in 1..Committed
      BY <2>2, <3>1, <3>2, EventsAssumption DEF OldestOf
    <3>4. Wanted(s, e)
      BY <2>2, <3>3 DEF Wanted
    <3> QED
      BY <1>0, <2>2, <3>4 DEF SyncInv
  <2> QED
    BY <1>0, <2>2 DEF SyncInv
<1> QED
  BY <1>1, <1>2 DEF EventsInv

\* Events appended in memory lie behind the committed ones.
LEMMA AppendInv ==
    ASSUME EventsInv, NEW new \in Seq(Topics), AppendEvents(new)
    PROVE  /\ EventsInv' /\ Committed' = Committed
           /\ \A e \in 1..Committed : log'[e] = log[e]
<1> USE DEF AppendEvents
<1>0. EventsTypeOK /\ LogInv /\ before = Free
  BY DEF EventsInv
<1>1. log \in Seq(Topics) /\ Committed \in Nat /\ Len(log) = Committed /\ Len(log) \in Nat
  BY <1>0, CommittedFacts
<1>2. log' \in Seq(Topics) /\ Len(log') = Len(log) + Len(new) /\ Len(new) \in Nat
  <2>1. log' = log \o new
    OBVIOUS
  <2>2. Len(new) \in Nat
    OBVIOUS
  <2> QED
    BY <1>1, <2>1, <2>2, ConcatProperties
<1>3. \A e \in 1..Committed : log'[e] = log[e]
  <2> SUFFICES ASSUME NEW e \in 1..Committed PROVE (log \o new)[e] = log[e]
    OBVIOUS
  <2>1. e \in 1..Len(log)
    BY <1>1
  <2> QED
    BY <1>1, <1>2, <2>1
<1>4. before' = Len(log) /\ before' # Free /\ Committed' = Committed
  BY <1>1 DEF Committed, Free
<1>5. EventsTypeOK'
  BY <1>0, <1>1, <1>2, <1>4 DEF EventsTypeOK
<1>6. LogInv'
  <2>1. before' <= Len(log')
    BY <1>1, <1>2, <1>4
  <2>2. \/ Committed' = 0
        \/ Committed' = Len(disk') /\ \A e \in 1..Committed' : log'[e] = disk'[e]
    BY <1>0, <1>3, <1>4 DEF LogInv
  <2> QED
    BY <2>1, <2>2 DEF LogInv
<1>7. UNCHANGED <<stream, client>> /\ notify' = notify
  OBVIOUS
<1> QED
  BY <1>3, <1>4, <1>5, <1>6, <1>7, SameStreamsInv

\* Restoring the snapshot gives the committed part of the log.
LEMMA SaveFailsInv ==
    ASSUME EventsInv, SaveFails
    PROVE  /\ EventsInv' /\ Committed' = Committed
           /\ \A e \in 1..Committed : log'[e] = log[e]
<1>0. EventsTypeOK /\ LogInv /\ before # Free
  BY DEF EventsInv, SaveFails
<1>1. log \in Seq(Topics) /\ Committed \in Nat /\ Committed <= Len(log) /\ Len(log) \in Nat
      /\ log' = SubSeq(log, 1, Committed) /\ before' = Free
  BY <1>0, CommittedFacts DEF SaveFails
<1>2. log' \in Seq(Topics) /\ Len(log') = Committed /\ \A e \in 1..Committed : log'[e] = log[e]
  BY <1>1, SubSeqProperties
<1>3. Committed' = Committed
  BY <1>1, <1>2 DEF Committed
<1>4. EventsTypeOK'
  BY <1>0, <1>1, <1>2 DEF EventsTypeOK, SaveFails
<1>5. LogInv'
  <2>1. \/ Committed' = 0
        \/ Committed' = Len(disk') /\ \A e \in 1..Committed' : log'[e] = disk'[e]
    BY <1>0, <1>2, <1>3 DEF LogInv, SaveFails
  <2> QED
    BY <1>1, <2>1 DEF LogInv
<1>6. UNCHANGED <<stream, client>> /\ notify' = notify
  BY DEF SaveFails
<1> QED
  BY <1>2, <1>3, <1>4, <1>5, <1>6, SameStreamsInv

\* A save closes the channel, so no copy of an older window has an open one.
LEMMA SaveInv ==
    ASSUME EventsInv, Save
    PROVE  /\ EventsInv' /\ Committed <= Committed'
           /\ \A e \in 1..Committed : log'[e] = log[e]
<1> USE DEF Save
<1>0. EventsTypeOK /\ LogInv /\ SavedInv /\ SyncInv
  BY DEF EventsInv
<1>1. /\ log \in Seq(Topics) /\ Len(log) \in Nat /\ Committed \in Nat /\ Committed <= Len(log)
      /\ notify \in Nat
  BY <1>0, CommittedFacts DEF EventsTypeOK
<1>2. EventsTypeOK'
  BY <1>0, <1>1 DEF EventsTypeOK
<1>3. Committed' = Len(log) /\ Committed <= Committed' /\ log' = log
  BY <1>1 DEF Committed
<1>4. LogInv'
  BY <1>3 DEF LogInv
<1>5. SavedInv'
  BY <1>2, <1>3, <1>4, SavedGrows
<1>6. SyncInv'
  <2> SUFFICES ASSUME NEW s \in Streams
               PROVE /\ stream[s].phase = "closed" => stream[s] = Closed
                     /\ stream[s].phase \in {"writing", "waiting"} =>
                           /\ stream[s].lo = OldestOf(stream[s].hi)
                           /\ stream[s].chan <= notify'
                           /\ stream[s].chan = notify' => stream[s].hi = Committed'
                     /\ stream[s].phase = "waiting" =>
                           \A e \in stream[s].lo .. stream[s].hi :
                              Wanted(s, e) => e <= stream[s].cursor
    BY Zenon DEF SyncInv, OldestOf, Wanted
  <2>2. stream[s].chan \in Nat
    BY <1>0, EventsTypes
  <2>3. stream[s].phase \in {"writing", "waiting"} => stream[s].chan <= notify
    BY <1>0 DEF SyncInv
  <2>4. stream[s].phase \in {"writing", "waiting"} =>
           stream[s].chan <= notify' /\ stream[s].chan # notify'
    BY <1>1, <2>2, <2>3
  <2> QED
    BY <1>0, <2>4 DEF SyncInv
<1> QED
  BY <1>2, <1>3, <1>4, <1>5, <1>6 DEF EventsInv

\* A step of one stream and its client, given what it makes of their rows.
LEMMA OneStreamInv ==
    ASSUME EventsInv, UNCHANGED <<log, disk, before, notify>>, NEW s \in Streams,
           NEW row \in Stream, NEW c \in Client,
           stream' = [stream EXCEPT ![s] = row], client' = [client EXCEPT ![s] = c],
           row.phase = "closed" => row = Closed,
           row.phase # "closed" => row.hi <= Committed,
           ~c.renumbered => row.cursor <= Committed /\ Known(log, s, Committed, c),
           row.phase \in {"writing", "waiting"} =>
               /\ row.lo = OldestOf(row.hi)
               /\ row.chan <= notify
               /\ row.chan = notify => row.hi = Committed,
           row.phase = "waiting" =>
               \A e \in row.lo .. row.hi : Wanted(s, e) => e <= row.cursor
    PROVE  EventsInv'
<1>0. Committed' = Committed
  BY DEF Committed
<1>1. EventsTypeOK /\ LogInv /\ SavedInv /\ SyncInv
  BY DEF EventsInv
<1>2. EventsTypeOK'
  BY <1>1 DEF EventsTypeOK
<1>3. LogInv'
  BY <1>0, <1>1 DEF LogInv
<1>4. \A t \in Streams : /\ stream'[t] = IF t = s THEN row ELSE stream[t]
                         /\ client'[t] = IF t = s THEN c ELSE client[t]
  BY <1>1 DEF EventsTypeOK
<1>5. SavedInv'
  <2> SUFFICES ASSUME NEW t \in Streams
               PROVE /\ stream'[t].phase # "closed" => stream'[t].hi <= Committed
                     /\ ~client'[t].renumbered =>
                          stream'[t].cursor <= Committed /\ Known(log, t, Committed, client'[t])
    BY <1>0, Zenon DEF SavedInv
  <2>1. CASE t = s
    BY <1>4, <2>1
  <2>2. CASE t # s
    <3>1. stream'[t] = stream[t] /\ client'[t] = client[t]
      BY <1>4, <2>2
    <3> QED
      BY <1>1, <3>1 DEF SavedInv
  <2> QED
    BY <2>1, <2>2
<1>6. SyncInv'
  <2> SUFFICES ASSUME NEW t \in Streams
               PROVE /\ stream'[t].phase = "closed" => stream'[t] = Closed
                     /\ stream'[t].phase \in {"writing", "waiting"} =>
                           /\ stream'[t].lo = OldestOf(stream'[t].hi)
                           /\ stream'[t].chan <= notify
                           /\ stream'[t].chan = notify => stream'[t].hi = Committed
                     /\ stream'[t].phase = "waiting" =>
                           \A e \in stream'[t].lo .. stream'[t].hi :
                              Wanted(t, e) => e <= stream'[t].cursor
    BY <1>0, Zenon DEF SyncInv, OldestOf, Wanted
  <2>1. CASE t = s
    BY <1>4, <2>1
  <2>2. CASE t # s
    <3>1. stream'[t] = stream[t]
      BY <1>4, <2>2
    <3> QED
      BY <1>1, <3>1 DEF SyncInv
  <2> QED
    BY <2>1, <2>2
<1> QED
  BY <1>2, <1>3, <1>5, <1>6 DEF EventsInv

\* A connection starts at the client's last event.
LEMMA ConnectInv == ASSUME EventsInv, NEW s \in Streams, Connect(s) PROVE EventsInv'
<1> DEFINE c == client'[s]
           row == stream'[s]
<1>1. EventsTypeOK /\ SavedInv /\ LogInv
  BY DEF EventsInv
<1>2. client[s] \in Client /\ client \in [Streams -> Client] /\ stream \in [Streams -> Stream]
      /\ Committed \in Nat
  BY <1>1, CommittedFacts DEF EventsTypeOK
<1>3. c = IF client[s].last = 0
          THEN [client[s] EXCEPT !.base = Fresh, !.got = << >>, !.lagged = FALSE,
                                 !.renumbered = FALSE]
          ELSE client[s]
  BY <1>2 DEF Connect
<1>4. /\ c \in Client /\ c.last = client[s].last
      /\ \/ client[s].last = 0 /\ c.got = << >>
         \/ c = client[s]
  <2>1. CASE client[s].last = 0
    <3>1. c = [client[s] EXCEPT !.base = Fresh, !.got = << >>, !.lagged = FALSE,
                                !.renumbered = FALSE]
      BY <1>3, <2>1
    <3>2. << >> \in Seq(Nat)
      OBVIOUS
    <3> HIDE DEF c
    <3> QED
      BY <1>2, <2>1, <3>1, <3>2 DEF Client
  <2>2. CASE client[s].last # 0
    BY <1>2, <1>3, <2>2
  <2> QED
    BY <2>1, <2>2
<1>5. row = [phase |-> "reading", cursor |-> client[s].last, lo |-> 1, hi |-> 0, chan |-> 0,
             opened |-> Len(c.got)]
  BY <1>2 DEF Connect, Closed
<1>6. Len(c.got) \in Nat /\ client[s].last \in Nat
  BY <1>2, <1>4 DEF Client
<1>7. row \in Stream /\ row.phase = "reading" /\ row.cursor = client[s].last /\ row.hi = 0
  <2> HIDE DEF row, c
  <2> QED
    BY <1>5, <1>6 DEF Stream
<1>8. /\ client' = [client EXCEPT ![s] = c]
      /\ stream' = [stream EXCEPT ![s] = row]
      /\ UNCHANGED <<log, disk, before, notify>>
  BY <1>2 DEF Connect
<1>9. ASSUME ~c.renumbered PROVE row.cursor <= Committed /\ Known(log, s, Committed, c)
  <2>1. CASE client[s].last = 0 /\ c.got = << >>
    <3>1. c.last <= Committed /\ DOMAIN c.got = {}
      BY <1>2, <1>4, <2>1
    <3> QED
      BY <1>2, <1>7, <2>1, <3>1 DEF Known
  <2>2. CASE c = client[s]
    <3>1. Known(log, s, Committed, c)
      BY <1>1, <1>9, <2>2 DEF SavedInv
    <3> QED
      BY <1>4, <1>7, <3>1 DEF Known
  <2> QED
    BY <1>4, <2>1, <2>2
<1>10. row.hi <= Committed
  BY <1>2, <1>7
<1> HIDE DEF c, row
<1> QED
  BY <1>4, <1>7, <1>8, <1>9, <1>10, OneStreamInv

\* A refused client starts again after the newest event, which is saved.
LEMMA ResynchroniseInv == ASSUME EventsInv, NEW s \in Streams, Resynchronise(s) PROVE EventsInv'
<1> DEFINE c == [last |-> Len(log), base |-> Len(log), got |-> << >>, lagged |-> FALSE,
                 renumbered |-> FALSE]
<1>1. EventsTypeOK /\ SavedInv /\ SyncInv /\ Len(log) = Committed /\ Committed \in Nat
  BY CommittedFacts DEF EventsInv, Resynchronise
<1>2. c \in Client /\ c.last = Committed /\ c.got = << >> /\ DOMAIN c.got = {}
  BY <1>1 DEF Client
<1>3. stream[s] \in Stream /\ stream' = [stream EXCEPT ![s] = stream[s]]
      /\ client[s] \in Client
  BY <1>1 DEF EventsTypeOK, Resynchronise
<1>4. stream[s].phase = "closed"
  BY DEF Resynchronise
<1>5. client' = [client EXCEPT ![s] = c] /\ UNCHANGED <<log, disk, before, notify>>
  BY DEF Resynchronise
<1>6. Known(log, s, Committed, c)
  BY <1>1, <1>2 DEF Known
<1>7. stream[s] = Closed
  BY <1>1, <1>4 DEF SyncInv
<1>8. stream[s].cursor <= Committed
  BY <1>1, <1>7 DEF Closed
<1>9. ~(stream[s].phase \in {"writing", "waiting"})
  BY <1>4
<1> HIDE DEF c
<1> QED
  BY <1>2, <1>3, <1>4, <1>5, <1>6, <1>7, <1>8, <1>9, OneStreamInv

\* The window and the channel are copied while the whole log is committed.
LEMMA ReadInv == ASSUME EventsInv, NEW s \in Streams, Read(s) PROVE EventsInv'
<1> DEFINE c == client'[s]
           row == stream'[s]
<1>1. /\ EventsTypeOK /\ SavedInv /\ Len(log) = Committed /\ Committed \in Nat /\ notify \in Nat
  BY CommittedFacts DEF EventsInv, Read, EventsTypeOK
<1>2. /\ client[s] \in Client /\ client \in [Streams -> Client]
      /\ stream[s] \in Stream /\ stream \in [Streams -> Stream]
  BY <1>1 DEF EventsTypeOK
<1>3. Oldest = OldestOf(Committed) /\ Oldest \in Nat \ {0}
  BY <1>1, EventsAssumption DEF Oldest, OldestOf
<1>4. row = [stream[s] EXCEPT !.phase = "writing", !.lo = Oldest, !.hi = Len(log), !.chan = notify]
  BY <1>2 DEF Read
<1>5. /\ row \in Stream /\ row.phase = "writing" /\ row.lo = OldestOf(Committed)
      /\ row.hi = Committed /\ row.chan = notify /\ row.cursor = stream[s].cursor
  BY <1>1, <1>2, <1>3, <1>4 DEF Stream
<1>6. \E b, l : c = [client[s] EXCEPT !.base = b, !.lagged = l]
                /\ b \in Nat \cup {Fresh} /\ l \in BOOLEAN
  <2> DEFINE b == IF client[s].base = Fresh THEN Oldest - 1 ELSE client[s].base
             l == \/ client[s].lagged
                  \/ /\ client[s].base # Fresh
                     /\ \E e \in 1..(Oldest - 1) :
                          e > client[s].base /\ e > stream[s].cursor /\ Wanted(s, e)
  <2>1. b \in Nat \cup {Fresh}
    BY <1>2, <1>3 DEF Client
  <2>2. l \in BOOLEAN
    BY <1>2 DEF Client
  <2>3. c = [client[s] EXCEPT !.base = b, !.lagged = l]
    BY <1>2 DEF Read, Client
  <2> HIDE DEF b, l, c
  <2> QED
    BY <2>1, <2>2, <2>3
<1>7. c \in Client /\ c.last = client[s].last /\ c.got = client[s].got
      /\ c.renumbered = client[s].renumbered
  BY <1>2, <1>6 DEF Client
<1>8. /\ client' = [client EXCEPT ![s] = c]
      /\ stream' = [stream EXCEPT ![s] = row]
      /\ UNCHANGED <<log, disk, before, notify>>
  BY <1>2 DEF Read
<1>9. ~c.renumbered => row.cursor <= Committed /\ Known(log, s, Committed, c)
  BY <1>1, <1>5, <1>7 DEF SavedInv, Known
<1>10. notify <= notify /\ row.hi <= Committed
  BY <1>1, <1>5
<1> HIDE DEF c, row
<1> QED
  BY <1>5, <1>7, <1>8, <1>9, <1>10, OneStreamInv

\* Only events of the copied window are written.
LEMMA WriteEventInv ==
    ASSUME EventsInv, NEW s \in Streams, NEW e \in Nat, WriteEvent(s, e) PROVE EventsInv'
<1> DEFINE c == client'[s]
           row == stream'[s]
<1>1. EventsTypeOK /\ SavedInv /\ SyncInv /\ Committed \in Nat
  BY CommittedFacts DEF EventsInv
<1>2. /\ client[s] \in Client /\ client \in [Streams -> Client]
      /\ stream[s] \in Stream /\ stream \in [Streams -> Stream]
  BY <1>1 DEF EventsTypeOK
<1>3. row = [stream[s] EXCEPT !.cursor = e] /\ c = [client[s] EXCEPT !.got = Append(@, e)]
  BY <1>2 DEF WriteEvent
<1>4. /\ row \in Stream /\ row.cursor = e /\ row.phase = "writing" /\ row.lo = stream[s].lo
      /\ row.hi = stream[s].hi /\ row.chan = stream[s].chan
  BY <1>2, <1>3 DEF Stream, WriteEvent
<1>5. e \in 1..Committed /\ Wants(log, s, e) /\ row.hi <= Committed
  <2>1. /\ e <= stream[s].hi /\ e >= stream[s].lo /\ Wanted(s, e)
        /\ stream[s].hi \in Nat /\ stream[s].hi <= Committed
        /\ stream[s].lo = OldestOf(stream[s].hi)
    <3>1. e \in Unwritten(s) /\ stream[s].phase = "writing"
      BY DEF WriteEvent
    <3>2. stream[s].hi \in Nat /\ stream[s].lo \in Nat
      BY <1>2 DEF Stream
    <3>3. stream[s].hi <= Committed
      BY <1>1, <3>1 DEF SavedInv
    <3>4. stream[s].lo = OldestOf(stream[s].hi)
      BY <1>1, <3>1 DEF SyncInv
    <3>5. e \in stream[s].lo .. stream[s].hi /\ Wanted(s, e)
      BY <3>1 DEF Unwritten
    <3> QED
      BY <3>2, <3>3, <3>4, <3>5
  <2>2. e >= 1
    BY <2>1, EventsAssumption DEF OldestOf
  <2> QED
    BY <1>1, <1>4, <2>1, <2>2 DEF Wants, Wanted
<1>6. c \in Client /\ c.last = client[s].last /\ c.got = Append(client[s].got, e)
      /\ c.renumbered = client[s].renumbered
  <2>1. client[s].got \in Seq(Nat)
    BY <1>2 DEF Client
  <2>2. Append(client[s].got, e) \in Seq(Nat)
    BY <2>1
  <2> HIDE DEF c
  <2> QED
    BY <1>2, <1>3, <2>2 DEF Client
<1>7. ASSUME ~c.renumbered PROVE row.cursor <= Committed /\ Known(log, s, Committed, c)
  <2>1. Known(log, s, Committed, client[s])
    BY <1>1, <1>6, <1>7 DEF SavedInv
  <2>2. client[s].got \in Seq(Nat)
        /\ \A i \in DOMAIN client[s].got :
              client[s].got[i] \in 1..Committed /\ Wants(log, s, client[s].got[i])
    BY <1>2, <2>1 DEF Known, Client
  <2>3. ASSUME NEW i \in DOMAIN c.got PROVE c.got[i] \in 1..Committed /\ Wants(log, s, c.got[i])
    <3>1. i = Len(client[s].got) + 1 \/ i \in DOMAIN client[s].got
      BY <1>6, <2>2, <2>3
    <3>2. CASE i = Len(client[s].got) + 1
      <4>1. c.got[i] = e
        BY <1>6, <2>2, <3>2, AppendProperties
      <4> QED
        BY <1>5, <4>1
    <3>3. CASE i \in DOMAIN client[s].got
      <4>1. c.got[i] = client[s].got[i]
        BY <1>6, <2>2, <3>3, AppendProperties
      <4> QED
        BY <2>2, <3>3, <4>1
    <3> QED
      BY <3>1, <3>2, <3>3
  <2>4. c.last <= Committed
    BY <1>6, <2>1 DEF Known
  <2>5. row.cursor <= Committed
    BY <1>1, <1>4, <1>5
  <2> QED
    BY <2>3, <2>4, <2>5 DEF Known
<1>8. /\ client' = [client EXCEPT ![s] = c]
      /\ stream' = [stream EXCEPT ![s] = row]
      /\ UNCHANGED <<log, disk, before, notify>>
  BY <1>2 DEF WriteEvent
<1>10. /\ row.lo = OldestOf(row.hi)
       /\ row.chan <= notify
       /\ row.chan = notify => row.hi = Committed
  BY <1>1, <1>4 DEF SyncInv, WriteEvent
<1> HIDE DEF c, row
<1> QED
  BY <1>4, <1>5, <1>6, <1>7, <1>8, <1>10, OneStreamInv

\* A stream goes to sleep when the copied window holds nothing more to write.
LEMMA ParkInv == ASSUME EventsInv, NEW s \in Streams, Park(s) PROVE EventsInv'
<1> DEFINE row == stream'[s]
<1>1. EventsTypeOK /\ SavedInv /\ SyncInv
  BY DEF EventsInv
<1>2. /\ client[s] \in Client /\ client \in [Streams -> Client]
      /\ stream[s] \in Stream /\ stream \in [Streams -> Stream]
  BY <1>1 DEF EventsTypeOK
<1>3. row = [stream[s] EXCEPT !.phase = "waiting"]
  BY <1>2 DEF Park
<1>4. /\ row \in Stream /\ row.cursor = stream[s].cursor /\ row.lo = stream[s].lo
      /\ row.hi = stream[s].hi /\ row.chan = stream[s].chan /\ row.phase = "waiting"
  BY <1>2, <1>3 DEF Stream
<1>5. /\ client' = [client EXCEPT ![s] = client[s]]
      /\ stream' = [stream EXCEPT ![s] = row]
      /\ UNCHANGED <<log, disk, before, notify>>
  BY <1>2 DEF Park
<1>6. /\ ~client[s].renumbered => row.cursor <= Committed /\ Known(log, s, Committed, client[s])
      /\ row.hi <= Committed
  BY <1>1, <1>4 DEF SavedInv, Park
<1>7. /\ row.lo = OldestOf(row.hi)
      /\ row.chan <= notify
      /\ row.chan = notify => row.hi = Committed
  BY <1>1, <1>4 DEF SyncInv, Park
<1>8. \A e \in row.lo .. row.hi : Wanted(s, e) => e <= row.cursor
  <2> SUFFICES ASSUME NEW e \in stream[s].lo .. stream[s].hi, Wanted(s, e)
               PROVE  e <= stream[s].cursor
    BY <1>4
  <2>1. e \notin Unwritten(s)
    BY DEF Park
  <2>2. ~(e > stream[s].cursor)
    BY <2>1 DEF Unwritten
  <2> QED
    BY <1>2, <2>2 DEF Stream
<1> HIDE DEF row
<1> QED
  BY <1>2, <1>4, <1>5, <1>6, <1>7, <1>8, OneStreamInv

\* A stream that wakes up, by the channel or by the timer, only reads again.
LEMMA WakeInv ==
    ASSUME EventsInv, NEW s \in Streams, Wake(s) \/ Timer(s) PROVE EventsInv'
<1> DEFINE row == stream'[s]
<1>1. EventsTypeOK /\ SavedInv
  BY DEF EventsInv
<1>2. /\ client[s] \in Client /\ client \in [Streams -> Client]
      /\ stream[s] \in Stream /\ stream \in [Streams -> Stream]
  BY <1>1 DEF EventsTypeOK
<1>3. row = [stream[s] EXCEPT !.phase = "reading"]
  BY <1>2 DEF Wake, Timer
<1>4. row \in Stream /\ row.phase = "reading" /\ row.cursor = stream[s].cursor /\ row.hi = stream[s].hi
  BY <1>2, <1>3 DEF Stream
<1>5. /\ client' = [client EXCEPT ![s] = client[s]]
      /\ stream' = [stream EXCEPT ![s] = row]
      /\ UNCHANGED <<log, disk, before, notify>>
  BY <1>2 DEF Wake, Timer
<1>6. /\ ~client[s].renumbered => row.cursor <= Committed /\ Known(log, s, Committed, client[s])
      /\ row.hi <= Committed
  BY <1>1, <1>4 DEF SavedInv, Wake, Timer
<1> HIDE DEF row
<1> QED
  BY <1>2, <1>4, <1>5, <1>6, OneStreamInv

\* A broken connection can only shorten what the client has received.
LEMMA DisconnectInv ==
    ASSUME EventsInv, NEW s \in Streams, NEW n \in Nat, Disconnect(s, n) PROVE EventsInv'
<1> DEFINE c == client'[s]
           last == IF n > stream[s].opened THEN client[s].got[n] ELSE client[s].last
<1>1. EventsTypeOK /\ SavedInv /\ Committed \in Nat
  BY CommittedFacts DEF EventsInv
<1>2. /\ client[s] \in Client /\ client \in [Streams -> Client]
      /\ stream[s] \in Stream /\ stream \in [Streams -> Stream]
  BY <1>1 DEF EventsTypeOK
<1>3. client[s].got \in Seq(Nat) /\ stream[s].opened \in Nat /\ client[s].last \in Nat
      /\ n <= Len(client[s].got)
  BY <1>2 DEF Client, Stream, Disconnect
<1>4. /\ SubSeq(client[s].got, 1, n) \in Seq(Nat)
      /\ \A i \in DOMAIN SubSeq(client[s].got, 1, n) :
            i \in DOMAIN client[s].got /\ SubSeq(client[s].got, 1, n)[i] = client[s].got[i]
  BY <1>3, SubSeqProperties
<1>5. last \in Nat
  <2>1. CASE n > stream[s].opened
    <3>1. n \in DOMAIN client[s].got
      BY <1>3, <2>1
    <3> QED
      BY <1>3, <2>1, <3>1
  <2>2. CASE ~(n > stream[s].opened)
    BY <1>3, <2>2
  <2> QED
    BY <2>1, <2>2
<1>6. c = [client[s] EXCEPT !.got = SubSeq(client[s].got, 1, n), !.last = last]
  BY <1>2 DEF Disconnect
<1>7. ASSUME Known(log, s, Committed, client[s]) PROVE last <= Committed
  <2>1. CASE n > stream[s].opened
    <3>1. n \in DOMAIN client[s].got
      BY <1>3, <2>1
    <3>2. client[s].got[n] \in 1..Committed
      BY <1>7, <3>1 DEF Known
    <3> QED
      BY <1>1, <2>1, <3>2
  <2>2. CASE ~(n > stream[s].opened)
    BY <1>7, <2>2 DEF Known
  <2> QED
    BY <2>1, <2>2
<1> HIDE DEF last
<1>8. c \in Client /\ c.got = SubSeq(client[s].got, 1, n) /\ c.last = last
      /\ c.renumbered = client[s].renumbered
  BY <1>2, <1>4, <1>5, <1>6 DEF Client
<1>9. /\ client' = [client EXCEPT ![s] = c]
      /\ stream' = [stream EXCEPT ![s] = Closed]
      /\ UNCHANGED <<log, disk, before, notify>>
  BY <1>2 DEF Disconnect
<1>10. Closed \in Stream /\ Closed.phase = "closed" /\ Closed.cursor <= Committed
  BY <1>1 DEF Closed, Stream
<1> HIDE DEF c
<1>11. ASSUME ~c.renumbered PROVE Known(log, s, Committed, c)
  <2>1. Known(log, s, Committed, client[s])
    BY <1>1, <1>8, <1>11 DEF SavedInv
  <2>2. \A i \in DOMAIN c.got : c.got[i] \in 1..Committed /\ Wants(log, s, c.got[i])
    BY <1>4, <1>8, <2>1 DEF Known
  <2> QED
    BY <1>7, <1>8, <2>1, <2>2 DEF Known
<1> QED
  BY <1>8, <1>9, <1>10, <1>11, OneStreamInv

\* A restart finds every stream closed and loads a log that is no shorter than
\* the committed one.
LEMMA RestartInv ==
    ASSUME EventsInv, Restart
    PROVE  /\ EventsInv' /\ Committed <= Committed'
           /\ \A e \in 1..Committed : log'[e] = log[e]
<1>1. EventsTypeOK /\ LogInv /\ SavedInv /\ SyncInv
  BY DEF EventsInv
<1>2. disk \in Seq(Topics) /\ Len(disk) \in Nat /\ Committed \in Nat /\ Committed <= Len(disk)
  BY <1>1, CommittedFacts
<1>3. log' = disk /\ disk' = disk /\ before' = Free /\ Committed' = Len(disk)
  BY DEF Restart, Committed
<1>4. EventsTypeOK'
  BY <1>1, <1>2 DEF EventsTypeOK, Restart
<1>5. LogInv'
  BY <1>3 DEF LogInv
<1>6. \A e \in 1..Committed : log'[e] = log[e]
  BY <1>1, <1>2, <1>3 DEF LogInv
<1>7. Committed <= Committed' /\ UNCHANGED <<stream, client>>
  BY <1>2, <1>3 DEF Restart
<1>8. SavedInv'
  BY <1>4, <1>5, <1>6, <1>7, SavedGrows
<1>9. \A s \in Streams : stream'[s].phase = "closed" /\ stream'[s] = Closed
  BY <1>1 DEF Restart, Live, SyncInv
<1>10. SyncInv'
  BY <1>9 DEF SyncInv
<1> QED
  BY <1>4, <1>5, <1>6, <1>7, <1>8, <1>10 DEF EventsInv

\* A restart that cannot load the log leaves every client with numbers of the
\* lost one.
LEMMA RestartEmptyInv ==
    ASSUME EventsInv, RestartEmpty
    PROVE  EventsInv' /\ \A s \in Streams : client'[s].renumbered
<1>1. EventsTypeOK /\ SyncInv
  BY DEF EventsInv
<1>2. log' = << >> /\ disk' = disk /\ before' = Free /\ stream' = stream /\ notify' = 0
      /\ client' = [s \in Streams |-> [client[s] EXCEPT !.renumbered = TRUE]]
  BY DEF RestartEmpty
<1>3. \A s \in Streams : client'[s] \in Client /\ client'[s].renumbered
  <2> SUFFICES ASSUME NEW s \in Streams PROVE client'[s] \in Client /\ client'[s].renumbered
    OBVIOUS
  <2>1. client[s] \in Client /\ client'[s] = [client[s] EXCEPT !.renumbered = TRUE]
    BY <1>1, <1>2 DEF EventsTypeOK
  <2> QED
    BY <2>1 DEF Client
<1>4. EventsTypeOK'
  BY <1>1, <1>2, <1>3 DEF EventsTypeOK
<1>5. LogInv'
  BY <1>2 DEF LogInv, Committed
<1>6. \A s \in Streams : stream'[s].phase = "closed" /\ stream'[s] = Closed
  BY <1>1 DEF RestartEmpty, Live, SyncInv
<1>7. SavedInv'
  BY <1>3, <1>6 DEF SavedInv
<1>8. SyncInv'
  BY <1>6 DEF SyncInv
<1> QED
  BY <1>3, <1>4, <1>5, <1>7, <1>8 DEF EventsInv

\* Every step of the handlers and of the streams preserves the invariant.
LEMMA EventsStepInv == EventsInv /\ [EventsNext]_eventVars => EventsInv'
<1> SUFFICES ASSUME EventsInv, [EventsNext]_eventVars PROVE EventsInv'
  OBVIOUS
<1>1. ASSUME NEW k \in 1..MaxAppend, NEW new \in [1..k -> Topics], AppendEvents(new)
      PROVE  EventsInv'
  <2>1. new \in Seq(Topics)
    BY <1>1, EventsAssumption
  <2> QED
    BY <1>1, <2>1, AppendInv
<1>2. CASE Save
  BY <1>2, SaveInv
<1>3. CASE SaveFails
  BY <1>3, SaveFailsInv
<1>4. ASSUME NEW s \in Streams, Connect(s) PROVE EventsInv'
  BY <1>4, ConnectInv
<1>5. ASSUME NEW s \in Streams, Resynchronise(s) PROVE EventsInv'
  BY <1>5, ResynchroniseInv
<1>6. ASSUME NEW s \in Streams, Read(s) PROVE EventsInv'
  BY <1>6, ReadInv
<1>7. ASSUME NEW s \in Streams, NEW e \in 1..MaxEvents, WriteEvent(s, e) PROVE EventsInv'
  BY <1>7, EventsAssumption, WriteEventInv
<1>8. ASSUME NEW s \in Streams, Park(s) PROVE EventsInv'
  BY <1>8, ParkInv
<1>9. ASSUME NEW s \in Streams, Wake(s) \/ Timer(s) PROVE EventsInv'
  BY <1>9, WakeInv
<1>10. ASSUME NEW s \in Streams, NEW n \in 0..MaxEvents, Disconnect(s, n) PROVE EventsInv'
  BY <1>10, EventsAssumption, DisconnectInv
<1>11. CASE Restart
  BY <1>11, RestartInv
<1>12. CASE RestartEmpty
  BY <1>12, RestartEmptyInv
<1>13. CASE UNCHANGED eventVars
  <2>1. Committed' = Committed /\ UNCHANGED <<stream, client>> /\ notify' = notify /\ log' = log
    BY <1>13 DEF eventVars, Committed
  <2>2. EventsTypeOK' /\ LogInv'
    BY <1>13, <2>1 DEF eventVars, EventsInv, EventsTypeOK, LogInv
  <2> QED
    BY <2>1, <2>2, SameStreamsInv
<1> QED
  BY <1>1, <1>2, <1>3, <1>4, <1>5, <1>6, <1>7, <1>8, <1>9, <1>10, <1>11, <1>12, <1>13
     DEF EventsNext, Loop, Unlocked

\* The strengthened invariant holds throughout every behaviour.
THEOREM EventsInvariance == EventsSpec => []EventsInv
<1> QED
  BY EventsInitInv, EventsStepInv, PTL DEF EventsSpec

\* Type correctness of the log, the streams and the clients.
THEOREM EventsTypeCorrect == EventsSpec => []EventsTypeOK
<1>1. EventsInv => EventsTypeOK
  BY DEF EventsInv
<1> QED
  BY <1>1, EventsInvariance, PTL

\* saveTeamStateLocked and its rollback: nothing a client has received is lost
\* by a failed save or by a restart that loads the saved state, and what a
\* restart loads is the event the client was sent.
THEOREM DurableBeforeVisible == EventsSpec => []DeliveredIsDurable
<1>1. EventsInv => DeliveredIsDurable
  <2> SUFFICES ASSUME EventsInv, NEW s \in Streams, ~client[s].renumbered,
                      NEW i \in DOMAIN client[s].got
               PROVE  /\ client[s].got[i] <= Len(disk)
                      /\ Topic[s] = All \/ disk[client[s].got[i]] = Topic[s]
    BY DEF DeliveredIsDurable
  <2>1. EventsTypeOK /\ LogInv /\ Known(log, s, Committed, client[s])
    BY DEF EventsInv, SavedInv
  <2>2. client[s].got[i] \in 1..Committed /\ Wants(log, s, client[s].got[i])
    BY <2>1 DEF Known
  <2>3. Committed \in Nat /\ Committed <= Len(disk) /\ Len(disk) \in Nat
    BY <2>1, CommittedFacts
  <2>4. disk[client[s].got[i]] = log[client[s].got[i]]
    BY <2>1, <2>2, <2>3 DEF LogInv
  <2> QED
    BY <2>2, <2>3, <2>4 DEF Wants
<1> QED
  BY <1>1, EventsInvariance, PTL

\* serveTeamSSE: no stream sleeps on an open channel over an event it has not
\* written, for any number of streams and of events per save.
THEOREM StreamsAreWoken == EventsSpec => []NoLostWakeup
<1>1. EventsInv => NoLostWakeup
  <2> SUFFICES ASSUME EventsInv, NEW s \in Streams,
                      stream[s].phase = "waiting", stream[s].chan = notify,
                      NEW e \in OldestOf(Committed) .. Committed, Wanted(s, e)
               PROVE  e <= stream[s].cursor
    BY DEF NoLostWakeup
  <2>1. stream[s].hi = Committed /\ stream[s].lo = OldestOf(Committed)
    BY DEF EventsInv, SyncInv
  <2> QED
    BY <2>1 DEF EventsInv, SyncInv
<1> QED
  BY <1>1, EventsInvariance, PTL

-----------------------------------------------------------------------------
(* Complete delivery.  The operators below take the log L and the number d *)
(* of committed events as arguments, so that a fact about them holds before    *)
(* and after a step alike.                                                 *)

\* The first k events of "got" are those after "base" up to n that s wants.
Covers(L, s, got, k, base, n) ==
    /\ \A i \in 1..k : got[i] \in 1..n /\ got[i] > base /\ Wants(L, s, got[i])
    /\ \A e \in 1..n : e > base /\ Wants(L, s, e) => \E i \in 1..k : got[i] = e

Ascending(got) == \A i, j \in 1..Len(got) : i < j => got[i] < got[j]

Reached(row, c) == IF row.phase = "closed" THEN c.last ELSE row.cursor

\* A broken connection falls back to "last", and what was received when it was
\* opened covers exactly that.
FallsBack(L, s, row, c) ==
    /\ c.last <= row.cursor
    /\ row.opened <= Len(c.got)
    /\ Covers(L, s, c.got, row.opened, c.base, c.last)

\* The copied window leaves no wanted event out.
WindowFits(L, s, row, c) ==
    /\ c.base <= row.cursor \/ c.base < row.lo
    /\ \A e \in 1 .. row.lo - 1 : e > c.base /\ e > row.cursor => ~Wants(L, s, e)

RowComplete(L, d, s, row, c) ==
    /\ Covers(L, s, c.got, Len(c.got), c.base, Reached(row, c))
    /\ Ascending(c.got)
    /\ c.base = Fresh => c.last = 0 /\ Reached(row, c) = 0 /\ row.phase # "writing"
    /\ c.base # Fresh => c.base <= c.last \/ c.base < OldestOf(d)
    /\ row.phase # "closed" => FallsBack(L, s, row, c)
    /\ row.phase = "writing" => WindowFits(L, s, row, c)

CompleteInv ==
    \A s \in Streams :
        ~client[s].lagged /\ ~client[s].renumbered =>
            RowComplete(log, Committed, s, stream[s], client[s])

\* Covering looks only at the events it is about.
LEMMA CoversPrefix ==
    ASSUME NEW L, NEW M, NEW s, NEW got, NEW k, NEW base, NEW n \in Nat, NEW d \in Nat, n <= d,
           \A e \in 1..d : M[e] = L[e],
           Covers(L, s, got, k, base, n)
    PROVE  Covers(M, s, got, k, base, n)
<1>1. \A e \in 1..n : Wants(M, s, e) <=> Wants(L, s, e)
  BY DEF Wants
<1> QED
  BY <1>1 DEF Covers

\* A row stays complete when events are saved behind it.
LEMMA RowCompletePrefix ==
    ASSUME NEW L, NEW M, NEW d \in Nat, NEW f \in Nat, d <= f, NEW s,
           NEW row \in Stream, NEW c \in Client,
           \A e \in 1..d : M[e] = L[e],
           row.cursor <= d, c.last <= d, row.phase = "writing" => row.lo <= d + 1,
           RowComplete(L, d, s, row, c)
    PROVE  RowComplete(M, f, s, row, c)
<1>1. /\ row.cursor \in Nat /\ row.lo \in Nat /\ c.last \in Nat /\ Reached(row, c) \in Nat
      /\ c.base \in Nat \cup {Fresh} /\ Reached(row, c) <= d
  BY DEF Stream, Client, Reached
<1>2. Covers(M, s, c.got, Len(c.got), c.base, Reached(row, c))
  BY <1>1, CoversPrefix DEF RowComplete
<1>3. OldestOf(d) \in Nat /\ OldestOf(f) \in Nat /\ OldestOf(d) <= OldestOf(f)
  BY EventsAssumption DEF OldestOf
<1>4. c.base # Fresh => c.base <= c.last \/ c.base < OldestOf(f)
  BY <1>1, <1>3 DEF RowComplete
<1>5. row.phase # "closed" => FallsBack(M, s, row, c)
  BY <1>1, CoversPrefix DEF RowComplete, FallsBack
<1>6. row.phase = "writing" => WindowFits(M, s, row, c)
  <2> SUFFICES ASSUME row.phase = "writing" PROVE WindowFits(M, s, row, c)
    OBVIOUS
  <2>1. \A e \in 1 .. row.lo - 1 : Wants(M, s, e) <=> Wants(L, s, e)
    BY <1>1 DEF Wants
  <2> QED
    BY <2>1 DEF RowComplete, WindowFits
<1> QED
  BY <1>2, <1>4, <1>5, <1>6 DEF RowComplete

\* The rows of the types and of what is committed, for the steps below.
LEMMA RowFacts ==
    ASSUME EventsInv, NEW s \in Streams
    PROVE  /\ stream[s] \in Stream /\ client[s] \in Client
           /\ Committed \in Nat /\ log \in Seq(Topics) /\ Len(log) \in Nat
           /\ ~client[s].renumbered => stream[s].cursor <= Committed /\ client[s].last <= Committed
           /\ stream[s].phase = "writing" => stream[s].lo <= Committed + 1
<1>1. stream[s] \in Stream /\ client[s] \in Client
  BY DEF EventsInv, EventsTypeOK
<1>2. Committed \in Nat /\ log \in Seq(Topics) /\ Len(log) \in Nat
  BY CommittedFacts DEF EventsInv
<1>3. ~client[s].renumbered => stream[s].cursor <= Committed /\ client[s].last <= Committed
  BY DEF EventsInv, SavedInv, Known
<1>4. ASSUME stream[s].phase = "writing" PROVE stream[s].lo <= Committed + 1
  <2>1. stream[s].lo = OldestOf(stream[s].hi) /\ stream[s].hi \in Nat /\ stream[s].hi <= Committed
    BY <1>1, <1>4 DEF EventsInv, SyncInv, SavedInv, Stream
  <2> QED
    BY <1>2, <2>1, EventsAssumption DEF OldestOf
<1> QED
  BY <1>1, <1>2, <1>3, <1>4

\* Steps of the handlers and the restart leave the clients where they are.
LEMMA SameStreamsComplete ==
    ASSUME EventsInv, EventsInv', CompleteInv, UNCHANGED <<stream, client>>,
           Committed <= Committed',
           \A e \in 1..Committed : log'[e] = log[e]
    PROVE  CompleteInv'
<1> SUFFICES ASSUME NEW s \in Streams, ~client[s].lagged, ~client[s].renumbered
             PROVE  RowComplete(log', Committed', s, stream[s], client[s])
  BY DEF CompleteInv
<1>1. EventsTypeOK' /\ LogInv'
  BY DEF EventsInv
<1>2. Committed' \in Nat
  BY <1>1 DEF EventsTypeOK, LogInv, Committed
<1>3. RowComplete(log, Committed, s, stream[s], client[s])
  BY DEF CompleteInv
<1>4. /\ stream[s] \in Stream /\ client[s] \in Client /\ Committed \in Nat
      /\ stream[s].cursor <= Committed /\ client[s].last <= Committed
      /\ stream[s].phase = "writing" => stream[s].lo <= Committed + 1
  BY RowFacts
<1> QED
  BY <1>2, <1>3, <1>4, RowCompletePrefix

\* A step of one stream and its client.
LEMMA OneStreamComplete ==
    ASSUME EventsInv, CompleteInv, UNCHANGED <<log, before>>, NEW s \in Streams,
           \A t \in Streams : t # s => stream'[t] = stream[t] /\ client'[t] = client[t],
           ~client'[s].lagged /\ ~client'[s].renumbered =>
               RowComplete(log, Committed, s, stream'[s], client'[s])
    PROVE  CompleteInv'
<1>1. Committed' = Committed
  BY DEF Committed
<1> QED
  BY <1>1 DEF CompleteInv

\* Nothing is to be received up to event zero.
LEMMA CoversNothing ==
    ASSUME NEW L, NEW s, NEW got, NEW k, NEW base, NEW b, Covers(L, s, got, k, base, 0)
    PROVE  Covers(L, s, got, k, b, 0)
BY DEF Covers

\* A connection goes on behind the last event, or starts afresh.
LEMMA ConnectComplete ==
    ASSUME EventsInv, CompleteInv, NEW s \in Streams, Connect(s) PROVE CompleteInv'
<1> DEFINE c == client'[s]
           row == stream'[s]
<1>1. /\ stream[s] \in Stream /\ client[s] \in Client
      /\ client \in [Streams -> Client] /\ stream \in [Streams -> Stream]
  BY DEF EventsInv, EventsTypeOK
<1>2. /\ UNCHANGED <<log, before>> /\ stream[s].phase = "closed"
      /\ \A t \in Streams : t # s => stream'[t] = stream[t] /\ client'[t] = client[t]
  BY <1>1 DEF Connect
<1>3. row = [phase |-> "reading", cursor |-> client[s].last, lo |-> 1, hi |-> 0, chan |-> 0,
             opened |-> Len(c.got)]
  BY <1>1 DEF Connect, Closed
<1>4. c = IF client[s].last = 0
          THEN [client[s] EXCEPT !.base = Fresh, !.got = << >>, !.lagged = FALSE,
                                 !.renumbered = FALSE]
          ELSE client[s]
  BY <1>1 DEF Connect
<1> HIDE DEF c, row
<1>5. row.phase = "reading" /\ row.cursor = client[s].last /\ row.opened = Len(c.got)
      /\ Reached(row, c) = client[s].last
  BY <1>3 DEF Reached
<1>6. client[s].last \in Nat
  BY <1>1 DEF Client
<1>7. CASE client[s].last = 0
  <2>1. c.got = << >> /\ c.base = Fresh /\ c.last = 0
    BY <1>1, <1>4, <1>7 DEF Client
  <2>2. \A k \in {0} : Covers(log, s, c.got, k, c.base, 0)
    BY DEF Covers
  <2>3. Len(c.got) = 0 /\ Ascending(c.got)
    BY <2>1 DEF Ascending
  <2>4. FallsBack(log, s, row, c)
    BY <1>5, <1>7, <2>1, <2>2, <2>3 DEF FallsBack
  <2>5. RowComplete(log, Committed, s, row, c)
    BY <1>5, <1>7, <2>1, <2>2, <2>3, <2>4 DEF RowComplete
  <2> QED
    BY <1>2, <2>5, OneStreamComplete DEF c, row
<1>8. CASE client[s].last # 0
  <2>1. c = client[s]
    BY <1>4, <1>8
  <2>2. ASSUME ~c.lagged, ~c.renumbered PROVE RowComplete(log, Committed, s, row, c)
    <3>1. RowComplete(log, Committed, s, stream[s], c) /\ Reached(stream[s], c) = c.last
      BY <1>2, <2>1, <2>2 DEF CompleteInv, Reached
    <3>2. Len(c.got) \in Nat
      BY <1>1, <2>1 DEF Client
    <3>3. FallsBack(log, s, row, c)
      BY <1>5, <1>6, <2>1, <3>1, <3>2 DEF FallsBack, RowComplete
    <3> QED
      BY <1>5, <1>8, <2>1, <3>1, <3>3 DEF RowComplete
  <2> QED
    BY <1>2, <2>2, OneStreamComplete DEF c, row
<1> QED
  BY <1>7, <1>8

\* A refused client wants only what comes later.
LEMMA ResynchroniseComplete ==
    ASSUME EventsInv, CompleteInv, NEW s \in Streams, Resynchronise(s) PROVE CompleteInv'
<1> DEFINE c == client'[s]
<1>1. /\ stream[s] \in Stream /\ client[s] \in Client /\ Committed \in Nat /\ Len(log) = Committed
      /\ client \in [Streams -> Client] /\ stream \in [Streams -> Stream]
  BY CommittedFacts DEF EventsInv, EventsTypeOK, Resynchronise
<1>2. /\ UNCHANGED <<log, before>> /\ stream[s].phase = "closed" /\ stream'[s] = stream[s]
      /\ \A t \in Streams : t # s => stream'[t] = stream[t] /\ client'[t] = client[t]
  BY <1>1 DEF Resynchronise
<1>3. c = [last |-> Committed, base |-> Committed, got |-> << >>, lagged |-> FALSE,
            renumbered |-> FALSE]
  BY <1>1 DEF Resynchronise
<1> HIDE DEF c
<1>4. /\ c.last = Committed /\ c.base = Committed /\ c.got = << >> /\ Len(c.got) = 0
      /\ Reached(stream[s], c) = Committed
  BY <1>2, <1>3 DEF Reached
<1>5. Covers(log, s, c.got, 0, Committed, Committed) /\ Ascending(c.got)
  BY <1>1, <1>4 DEF Covers, Ascending
<1>6. Committed <= Committed /\ Committed # Fresh
  BY <1>1 DEF Fresh
<1>7. RowComplete(log, Committed, s, stream[s], c)
  BY <1>2, <1>4, <1>5, <1>6 DEF RowComplete
<1> QED
  BY <1>2, <1>7, OneStreamComplete DEF c

\* The copied window fits what the client has, or the client lags.
LEMMA ReadComplete ==
    ASSUME EventsInv, CompleteInv, NEW s \in Streams, Read(s) PROVE CompleteInv'
<1> DEFINE c == client'[s]
           row == stream'[s]
           old == client[s]
<1>1. /\ stream[s] \in Stream /\ client[s] \in Client /\ Committed \in Nat /\ Len(log) = Committed
      /\ client \in [Streams -> Client] /\ stream \in [Streams -> Stream]
  BY CommittedFacts DEF EventsInv, EventsTypeOK, Read
<1>2. /\ UNCHANGED <<log, before>> /\ stream[s].phase = "reading"
      /\ \A t \in Streams : t # s => stream'[t] = stream[t] /\ client'[t] = client[t]
  BY <1>1 DEF Read
<1>3. row = [stream[s] EXCEPT !.phase = "writing", !.lo = Oldest, !.hi = Len(log), !.chan = notify]
  BY <1>1 DEF Read
<1>4. /\ row.phase = "writing" /\ row.lo = Oldest /\ row.cursor = stream[s].cursor
      /\ row.opened = stream[s].opened
  BY <1>1, <1>3 DEF Stream
<1>5. /\ c.base = IF old.base = Fresh THEN Oldest - 1 ELSE old.base
      /\ c.last = old.last /\ c.got = old.got
      /\ c.renumbered = old.renumbered
      /\ c.lagged = \/ old.lagged
                    \/ /\ old.base # Fresh
                       /\ \E e \in 1..(Oldest - 1) :
                            e > old.base /\ e > stream[s].cursor /\ Wanted(s, e)
  BY <1>1 DEF Read, Client
<1>6. Oldest = OldestOf(Committed) /\ Oldest \in Nat \ {0}
  BY <1>1, EventsAssumption DEF Oldest, OldestOf
<1>7. /\ stream[s].cursor \in Nat /\ old.last \in Nat /\ old.base \in Nat \cup {Fresh}
      /\ old.lagged \in BOOLEAN
  BY <1>1 DEF Stream, Client
<1>8. Reached(row, c) = stream[s].cursor /\ Reached(stream[s], old) = stream[s].cursor
  BY <1>2, <1>4 DEF Reached
<1> HIDE DEF c, row, old
<1>9. ASSUME ~c.lagged, ~c.renumbered PROVE RowComplete(log, Committed, s, row, c)
  <2>1. ~old.lagged /\ ~old.renumbered
    BY <1>5, <1>7, <1>9
  <2>2. RowComplete(log, Committed, s, stream[s], old) /\ FallsBack(log, s, stream[s], old)
    BY <1>2, <2>1 DEF CompleteInv, RowComplete, old
  <2>3. CASE old.base = Fresh
    <3>1. old.last = 0 /\ stream[s].cursor = 0 /\ c.base = Oldest - 1
      BY <1>5, <1>8, <2>2, <2>3 DEF RowComplete
    <3>2. Covers(log, s, c.got, Len(c.got), c.base, 0)
      BY <1>5, <1>8, <2>2, <3>1, CoversNothing DEF RowComplete
    <3>3. Covers(log, s, c.got, row.opened, c.base, 0)
      BY <1>4, <1>5, <2>2, <3>1, CoversNothing DEF FallsBack
    <3>4. FallsBack(log, s, row, c)
      BY <1>4, <1>5, <2>2, <3>1, <3>3 DEF FallsBack
    <3>5. WindowFits(log, s, row, c)
      BY <1>4, <1>6, <3>1 DEF WindowFits
    <3>6. c.base # Fresh /\ c.base < OldestOf(Committed)
      BY <1>6, <3>1 DEF Fresh
    <3> QED
      BY <1>4, <1>5, <1>8, <2>2, <3>1, <3>2, <3>4, <3>5, <3>6 DEF RowComplete
  <2>4. CASE old.base # Fresh
    <3>1. c.base = old.base /\ old.base \in Nat
      BY <1>5, <1>7, <2>4
    <3>2. \A e \in 1..(Oldest - 1) : e > old.base /\ e > stream[s].cursor => ~Wants(log, s, e)
      BY <1>5, <1>7, <1>9, <2>4 DEF Wanted, Wants
    <3>3. FallsBack(log, s, row, c)
      BY <1>4, <1>5, <2>2, <3>1 DEF FallsBack
    <3>4. c.base <= row.cursor \/ c.base < row.lo
      BY <1>4, <1>6, <1>7, <2>2, <2>4, <3>1 DEF RowComplete, FallsBack
    <3>5. WindowFits(log, s, row, c)
      BY <1>4, <3>1, <3>2, <3>4 DEF WindowFits
    <3> QED
      BY <1>4, <1>5, <1>8, <2>2, <2>4, <3>1, <3>3, <3>5 DEF RowComplete
  <2> QED
    BY <2>3, <2>4
<1> QED
  BY <1>2, <1>9, OneStreamComplete DEF c, row

\* The next event of the window is the next one that is wanted.
LEMMA WriteEventComplete ==
    ASSUME EventsInv, CompleteInv, NEW s \in Streams, NEW e \in Nat, WriteEvent(s, e)
    PROVE  CompleteInv'
<1> DEFINE c == client'[s]
           row == stream'[s]
           old == client[s]
           cursor == stream[s].cursor
<1>1. /\ stream[s] \in Stream /\ client[s] \in Client
      /\ client \in [Streams -> Client] /\ stream \in [Streams -> Stream]
  BY DEF EventsInv, EventsTypeOK
<1>2. /\ UNCHANGED <<log, before>> /\ stream[s].phase = "writing"
      /\ \A t \in Streams : t # s => stream'[t] = stream[t] /\ client'[t] = client[t]
  BY <1>1 DEF WriteEvent
<1>3. row = [stream[s] EXCEPT !.cursor = e] /\ c = [client[s] EXCEPT !.got = Append(@, e)]
  BY <1>1 DEF WriteEvent
<1>4. /\ row.phase = "writing" /\ row.lo = stream[s].lo /\ row.cursor = e
      /\ row.opened = stream[s].opened
      /\ c.last = old.last /\ c.base = old.base /\ c.lagged = old.lagged /\ c.renumbered = old.renumbered
      /\ c.got = Append(old.got, e)
  BY <1>1, <1>2, <1>3 DEF Stream, Client
<1>5. /\ cursor \in Nat /\ stream[s].lo \in Nat /\ stream[s].hi \in Nat
      /\ stream[s].opened \in Nat /\ old.got \in Seq(Nat) /\ Len(old.got) \in Nat
      /\ old.last \in Nat /\ old.base \in Nat \cup {Fresh}
  BY <1>1 DEF Stream, Client
<1>6. /\ e > cursor /\ Wants(log, s, e) /\ e >= stream[s].lo /\ e <= stream[s].hi
      /\ \A x \in stream[s].lo .. stream[s].hi : x > cursor /\ Wants(log, s, x) => e <= x
  BY DEF WriteEvent, Unwritten, Wanted, Wants
<1>7. Len(c.got) = Len(old.got) + 1 /\ c.got[Len(old.got) + 1] = e
      /\ \A i \in 1..Len(old.got) : c.got[i] = old.got[i]
  BY <1>4, <1>5, AppendProperties
<1>8. Reached(row, c) = e /\ Reached(stream[s], old) = cursor
  BY <1>2, <1>4 DEF Reached
<1> HIDE DEF c, row, old, cursor
<1>9. ASSUME ~c.lagged, ~c.renumbered PROVE RowComplete(log, Committed, s, row, c)
  <2>1. /\ RowComplete(log, Committed, s, stream[s], old)
        /\ FallsBack(log, s, stream[s], old) /\ WindowFits(log, s, stream[s], old)
    BY <1>2, <1>4, <1>9 DEF CompleteInv, RowComplete, old
  <2>2. old.base # Fresh /\ Covers(log, s, old.got, Len(old.got), old.base, cursor)
    BY <1>2, <1>8, <2>1 DEF RowComplete
  <2>3. old.base \in Nat /\ old.base < e
    BY <1>5, <1>6, <2>1, <2>2 DEF WindowFits, cursor
  <2>4. Covers(log, s, c.got, Len(c.got), c.base, e)
    <3>1. ASSUME NEW i \in 1..Len(c.got)
          PROVE  c.got[i] \in 1..e /\ c.got[i] > c.base /\ Wants(log, s, c.got[i])
      <4>1. CASE i = Len(old.got) + 1
        BY <1>4, <1>5, <1>6, <1>7, <2>3, <4>1
      <4>2. CASE i \in 1..Len(old.got)
        <5>1. c.got[i] = old.got[i] /\ old.got[i] \in 1..cursor /\ old.got[i] > old.base
              /\ Wants(log, s, old.got[i])
          BY <1>7, <2>2, <4>2 DEF Covers
        <5> QED
          BY <1>4, <1>5, <1>6, <5>1
      <4> QED
        BY <1>5, <1>7, <4>1, <4>2
    <3>2. ASSUME NEW x \in 1..e, x > c.base, Wants(log, s, x)
          PROVE  \E i \in 1..Len(c.got) : c.got[i] = x
      <4>1. CASE x <= cursor
        <5>1. x \in 1..cursor /\ x > old.base /\ Wants(log, s, x)
          BY <1>4, <1>5, <3>2, <4>1
        <5>2. PICK i \in 1..Len(old.got) : old.got[i] = x
          BY <2>2, <5>1 DEF Covers
        <5>3. i \in 1..Len(c.got) /\ c.got[i] = x
          BY <1>5, <1>7, <5>2
        <5> QED
          BY <5>3
      <4>2. CASE x > cursor
        <5>1. x \in Nat /\ x >= 1 /\ x <= e /\ x > old.base /\ Wants(log, s, x)
          BY <1>4, <3>2
        <5>2. \A y \in 1 .. stream[s].lo - 1 : y > old.base /\ y > cursor => ~Wants(log, s, y)
          BY <2>1 DEF WindowFits, cursor
        <5>3. x >= stream[s].lo
          BY <1>5, <4>2, <5>1, <5>2
        <5>4. x \in stream[s].lo .. stream[s].hi
          BY <1>5, <1>6, <5>1, <5>3
        <5>5. x = e
          BY <1>6, <4>2, <5>1, <5>4
        <5> QED
          BY <1>5, <1>7, <5>5
      <4> QED
        BY <1>5, <3>2, <4>1, <4>2
    <3> QED
      BY <3>1, <3>2 DEF Covers
  <2>5. Ascending(c.got)
    <3> SUFFICES ASSUME NEW i \in 1..Len(c.got), NEW j \in 1..Len(c.got), i < j
                 PROVE  c.got[i] < c.got[j]
      BY DEF Ascending
    <3>1. i \in 1..Len(old.got) /\ c.got[i] = old.got[i] /\ old.got[i] \in 1..cursor
      BY <1>5, <1>7, <2>2 DEF Covers
    <3>2. CASE j = Len(old.got) + 1
      BY <1>5, <1>6, <1>7, <3>1, <3>2
    <3>3. CASE j \in 1..Len(old.got)
      BY <1>7, <2>1, <3>1, <3>3 DEF RowComplete, Ascending
    <3> QED
      BY <1>5, <1>7, <3>2, <3>3
  <2>6. FallsBack(log, s, row, c)
    <3>1. /\ old.last <= cursor /\ stream[s].opened <= Len(old.got)
          /\ Covers(log, s, old.got, stream[s].opened, old.base, old.last)
      BY <2>1 DEF FallsBack, cursor
    <3>2. \A i \in 1..stream[s].opened : c.got[i] = old.got[i]
      BY <1>5, <1>7, <3>1
    <3>3. Covers(log, s, c.got, stream[s].opened, old.base, old.last)
      BY <3>1, <3>2 DEF Covers
    <3> QED
      BY <1>4, <1>5, <1>6, <1>7, <3>1, <3>3 DEF FallsBack
  <2>7. WindowFits(log, s, row, c)
    BY <1>4, <1>5, <1>6, <2>1, <2>3 DEF WindowFits, cursor
  <2>8. c.base <= c.last \/ c.base < OldestOf(Committed)
    BY <1>4, <2>1, <2>2 DEF RowComplete
  <2> QED
    BY <1>4, <1>8, <2>2, <2>4, <2>5, <2>6, <2>7, <2>8 DEF RowComplete
<1> QED
  BY <1>2, <1>9, OneStreamComplete DEF c, row

\* Going to sleep and waking up move no cursor.
LEMMA PhaseComplete ==
    ASSUME EventsInv, CompleteInv, NEW s \in Streams, Park(s) \/ Wake(s) \/ Timer(s)
    PROVE  CompleteInv'
<1> DEFINE row == stream'[s]
<1>1. stream[s] \in Stream /\ client[s] \in Client /\ stream \in [Streams -> Stream]
  BY DEF EventsInv, EventsTypeOK
<1>2. /\ UNCHANGED <<log, before, client>> /\ stream[s].phase # "closed"
      /\ \A t \in Streams : t # s => stream'[t] = stream[t]
  BY <1>1 DEF Park, Wake, Timer
<1>3. \E p \in {"reading", "waiting"} : row = [stream[s] EXCEPT !.phase = p]
  BY <1>1 DEF Park, Wake, Timer
<1> HIDE DEF row
<1>4. /\ row.phase \in {"reading", "waiting"} /\ row.cursor = stream[s].cursor
      /\ row.opened = stream[s].opened
  BY <1>1, <1>3 DEF Stream
<1>5. ASSUME ~client[s].lagged, ~client[s].renumbered PROVE RowComplete(log, Committed, s, row, client[s])
  <2>1. RowComplete(log, Committed, s, stream[s], client[s])
    BY <1>5 DEF CompleteInv
  <2>2. Reached(row, client[s]) = Reached(stream[s], client[s])
    BY <1>2, <1>4 DEF Reached
  <2>3. FallsBack(log, s, row, client[s])
    BY <1>2, <1>4, <2>1 DEF RowComplete, FallsBack
  <2> QED
    BY <1>4, <2>1, <2>2, <2>3 DEF RowComplete
<1> QED
  BY <1>2, <1>5, OneStreamComplete DEF row

\* What had arrived of an ascending list covers everything up to its last event.
LEMMA CoversUpTo ==
    ASSUME NEW L, NEW s, NEW got \in Seq(Nat), NEW base \in Nat \cup {Fresh}, NEW m \in Nat,
           NEW n \in 1..Len(got), Ascending(got), Covers(L, s, got, Len(got), base, m)
    PROVE  Covers(L, s, got, n, base, got[n])
<1>1. Len(got) \in Nat /\ n \in Nat /\ n >= 1 /\ n <= Len(got)
  OBVIOUS
<1>2. \A i \in 1..Len(got) : got[i] \in 1..m /\ got[i] > base /\ Wants(L, s, got[i])
  BY DEF Covers
<1>3. ASSUME NEW i \in 1..n
      PROVE  got[i] \in 1..got[n] /\ got[i] > base /\ Wants(L, s, got[i])
  <2>1. i \in 1..Len(got) /\ (i = n \/ i < n)
    BY <1>1
  <2>2. got[i] <= got[n]
    BY <1>1, <1>2, <2>1 DEF Ascending
  <2> QED
    BY <1>1, <1>2, <2>1, <2>2
<1>4. ASSUME NEW x \in 1..got[n], x > base, Wants(L, s, x)
      PROVE  \E i \in 1..n : got[i] = x
  <2>1. x \in 1..m
    BY <1>1, <1>2
  <2>2. PICK j \in 1..Len(got) : got[j] = x
    BY <1>4, <2>1 DEF Covers
  <2>3. j <= n
    <3>1. j > n => got[n] < got[j]
      BY <1>1 DEF Ascending
    <3> QED
      BY <1>1, <1>2, <2>2, <3>1
  <2> QED
    BY <1>1, <2>2, <2>3
<1> QED
  BY <1>3, <1>4 DEF Covers

\* A broken connection leaves the client with a prefix that ends at its new
\* Last-Event-ID.
LEMMA DisconnectComplete ==
    ASSUME EventsInv, CompleteInv, NEW s \in Streams, NEW n \in Nat, Disconnect(s, n)
    PROVE  CompleteInv'
<1> DEFINE c == client'[s]
           row == stream'[s]
           old == client[s]
           opened == stream[s].opened
<1>1. /\ stream[s] \in Stream /\ client[s] \in Client /\ Committed \in Nat
      /\ client \in [Streams -> Client] /\ stream \in [Streams -> Stream]
  BY CommittedFacts DEF EventsInv, EventsTypeOK
<1>2. /\ UNCHANGED <<log, before>> /\ stream[s].phase # "closed"
      /\ \A t \in Streams : t # s => stream'[t] = stream[t] /\ client'[t] = client[t]
  BY <1>1 DEF Disconnect
<1>3. row = Closed /\ row.phase = "closed"
  BY <1>1 DEF Disconnect, Closed
<1>4. /\ c.base = old.base /\ c.lagged = old.lagged /\ c.renumbered = old.renumbered
      /\ c.got = SubSeq(old.got, 1, n)
      /\ c.last = IF n > opened THEN old.got[n] ELSE old.last
  BY <1>1 DEF Disconnect, Client
<1>5. /\ opened \in Nat /\ old.got \in Seq(Nat) /\ Len(old.got) \in Nat /\ old.last \in Nat
      /\ old.base \in Nat \cup {Fresh} /\ stream[s].cursor \in Nat
      /\ opened <= n /\ n <= Len(old.got)
  BY <1>1 DEF Stream, Client, Disconnect
<1>6. Len(c.got) = n /\ \A i \in 1..n : c.got[i] = old.got[i]
  BY <1>4, <1>5, SubSeqProperties
<1>7. Reached(row, c) = c.last /\ Reached(stream[s], old) = stream[s].cursor
  BY <1>2, <1>3 DEF Reached
<1> HIDE DEF c, row, old, opened
<1>8. ASSUME ~c.lagged, ~c.renumbered PROVE RowComplete(log, Committed, s, row, c)
  <2>1. RowComplete(log, Committed, s, stream[s], old) /\ FallsBack(log, s, stream[s], old)
    BY <1>2, <1>4, <1>8 DEF CompleteInv, RowComplete, old
  <2>2. Covers(log, s, old.got, Len(old.got), old.base, stream[s].cursor) /\ Ascending(old.got)
    BY <1>7, <2>1 DEF RowComplete
  <2>3. Ascending(c.got)
    <3>1. \A i \in 1..n : i \in 1..Len(old.got) /\ c.got[i] = old.got[i]
      BY <1>5, <1>6
    <3>2. \A i, j \in 1..Len(old.got) : i < j => old.got[i] < old.got[j]
      BY <2>2 DEF Ascending
    <3> QED
      BY <1>6, <3>1, <3>2 DEF Ascending
  <2>4. CASE n > opened
    <3>1. /\ n \in 1..Len(old.got) /\ c.last = old.got[n] /\ old.got[n] \in Nat
          /\ old.got[n] \in 1..stream[s].cursor /\ old.got[n] > old.base
      BY <1>4, <1>5, <2>2, <2>4 DEF Covers
    <3>2. Covers(log, s, old.got, n, old.base, c.last)
      BY <1>5, <2>2, <3>1, CoversUpTo
    <3>3. Covers(log, s, c.got, n, c.base, c.last)
      BY <1>4, <1>6, <3>2 DEF Covers
    <3>4. old.base # Fresh
      BY <1>5, <1>7, <2>1, <3>1 DEF RowComplete
    <3>5. old.base <= c.last
      BY <1>5, <3>1, <3>4
    <3> QED
      BY <1>3, <1>4, <1>6, <1>7, <2>3, <3>3, <3>4, <3>5 DEF RowComplete
  <2>5. CASE n = opened
    <3>1. c.last = old.last
      BY <1>4, <1>5, <2>5
    <3>2. Covers(log, s, old.got, n, old.base, c.last)
      BY <2>1, <2>5, <3>1 DEF FallsBack, opened
    <3>3. Covers(log, s, c.got, n, c.base, c.last)
      BY <1>4, <1>6, <3>2 DEF Covers
    <3> QED
      BY <1>3, <1>4, <1>6, <1>7, <2>1, <2>3, <3>1, <3>3 DEF RowComplete
  <2> QED
    BY <1>5, <2>4, <2>5
<1> QED
  BY <1>2, <1>8, OneStreamComplete DEF c, row

\* Nobody has received anything.
LEMMA CompleteInitInv == EventsInit => CompleteInv
<1> SUFFICES ASSUME EventsInit, NEW s \in Streams
             PROVE  RowComplete(log, Committed, s, stream[s], client[s])
  BY DEF CompleteInv
<1>1. /\ stream[s].phase = "closed" /\ client[s].last = 0 /\ client[s].base = Fresh
      /\ client[s].got = << >>
  BY DEF EventsInit, Closed
<1>2. Reached(stream[s], client[s]) = 0 /\ Len(client[s].got) = 0
  BY <1>1 DEF Reached
<1>3. Covers(log, s, client[s].got, 0, Fresh, 0)
  BY DEF Covers
<1>4. Ascending(client[s].got)
  BY <1>2 DEF Ascending
<1> QED
  BY <1>1, <1>2, <1>3, <1>4 DEF RowComplete

\* Every step of the handlers and of the streams keeps delivery complete.
LEMMA CompleteStepInv ==
    EventsInv /\ CompleteInv /\ [EventsNext]_eventVars => CompleteInv'
<1> SUFFICES ASSUME EventsInv, CompleteInv, [EventsNext]_eventVars PROVE CompleteInv'
  OBVIOUS
<1>1. EventsInv'
  BY EventsStepInv
<1>2. ASSUME NEW k \in 1..MaxAppend, NEW new \in [1..k -> Topics], AppendEvents(new)
      PROVE  CompleteInv'
  <2>1. new \in Seq(Topics)
    BY EventsAssumption
  <2>2. Committed' = Committed /\ \A e \in 1..Committed : log'[e] = log[e]
    BY <1>2, <2>1, AppendInv
  <2>3. Committed <= Committed'
    BY <2>2, CommittedFacts DEF EventsInv
  <2> QED
    BY <1>1, <1>2, <2>2, <2>3, SameStreamsComplete DEF AppendEvents
<1>3. CASE Save \/ SaveFails \/ Restart
  <2>1. Committed <= Committed' /\ \A e \in 1..Committed : log'[e] = log[e]
    BY <1>3, SaveInv, SaveFailsInv, RestartInv, CommittedFacts DEF EventsInv
  <2> QED
    BY <1>1, <1>3, <2>1, SameStreamsComplete DEF Save, SaveFails, Restart
<1>11. CASE RestartEmpty
  BY <1>11, RestartEmptyInv DEF CompleteInv
<1>4. ASSUME NEW s \in Streams, Connect(s) PROVE CompleteInv'
  BY <1>4, ConnectComplete
<1>5. ASSUME NEW s \in Streams, Resynchronise(s) PROVE CompleteInv'
  BY <1>5, ResynchroniseComplete
<1>6. ASSUME NEW s \in Streams, Read(s) PROVE CompleteInv'
  BY <1>6, ReadComplete
<1>7. ASSUME NEW s \in Streams, NEW e \in 1..MaxEvents, WriteEvent(s, e) PROVE CompleteInv'
  BY <1>7, EventsAssumption, WriteEventComplete
<1>8. ASSUME NEW s \in Streams, Park(s) \/ Wake(s) \/ Timer(s) PROVE CompleteInv'
  BY <1>8, PhaseComplete
<1>9. ASSUME NEW s \in Streams, NEW n \in 0..MaxEvents, Disconnect(s, n) PROVE CompleteInv'
  BY <1>9, EventsAssumption, DisconnectComplete
<1>10. CASE UNCHANGED eventVars
  BY <1>10 DEF eventVars, CompleteInv, Committed
<1> QED
  BY <1>2, <1>3, <1>4, <1>5, <1>6, <1>7, <1>8, <1>9, <1>10, <1>11 DEF EventsNext, Loop, Unlocked

\* The invariant says what CompleteUnlessLagged says, row by row.
LEMMA CompleteRows == EventsInv /\ CompleteInv => CompleteUnlessLagged
<1> SUFFICES ASSUME EventsInv, CompleteInv, NEW s \in Streams, ~client[s].lagged,
                    ~client[s].renumbered
             PROVE  LET got == client[s].got IN
                      /\ {got[i] : i \in DOMAIN got} =
                           {e \in 1..Position(s) : e > client[s].base /\ Wanted(s, e)}
                      /\ \A i, j \in DOMAIN got : i < j => got[i] < got[j]
  BY DEF CompleteUnlessLagged
<1> DEFINE got == client[s].got
<1>1. RowComplete(log, Committed, s, stream[s], client[s])
  BY DEF CompleteInv
<1>2. Position(s) = Reached(stream[s], client[s])
  BY DEF Position, Reached
<1>3. got \in Seq(Nat) /\ DOMAIN got = 1..Len(got)
  BY RowFacts DEF Client
<1>4. Covers(log, s, got, Len(got), client[s].base, Position(s)) /\ Ascending(got)
  BY <1>1, <1>2 DEF RowComplete
<1>5. \A e : Wants(log, s, e) <=> Wanted(s, e)
  BY DEF Wants, Wanted
<1> HIDE DEF got
<1>6. {got[i] : i \in 1..Len(got)} =
        {e \in 1..Position(s) : e > client[s].base /\ Wanted(s, e)}
  BY <1>4, <1>5 DEF Covers
<1>7. \A i, j \in 1..Len(got) : i < j => got[i] < got[j]
  BY <1>4 DEF Ascending
<1> QED
  BY <1>3, <1>6, <1>7 DEF got

\* serveTeamSSE and its cursor checks: over any number of broken connections,
\* failed saves and restarts that load the log, a client that was never outrun by
\* the retention window has received every event it wants, once and in order.
THEOREM CompleteDelivery == EventsSpec => []CompleteUnlessLagged
<1> QED
  BY EventsInvariance, EventsInitInv, CompleteInitInv, EventsStepInv, CompleteStepInv,
     CompleteRows, PTL DEF EventsSpec

=============================================================================
