-------------------------- MODULE ContainerLog_proofs --------------------------
(***************************************************************************)
(* Proofs about ContainerLog: an aborted stream never writes into the      *)
(* window of the next search, and a view that has caught up has no gap     *)
(* unless something has happened that may cost lines.                      *)
(*                                                                         *)
(* The second one follows every line that docker prints: it is in the      *)
(* terminal, in the history, or on its way to the view.  What the replay   *)
(* selects from the history is a fact about data that is proved by         *)
(* counting and, for the largest id, by the least counterexample.          *)
(***************************************************************************)
EXTENDS ContainerLog, FiniteSetTheorems, WellFoundedInduction, TLAPS

-----------------------------------------------------------------------------
(* types and streams                                                       *)

\* Only an event of kind "line" carries a line.
LogEvent ==
    [id : Nat \ {0}, kind : {"line"}, line : Nat] \cup
    [id : Nat \ {0}, kind : {"ready", "heartbeat", "close"}, line : {NoLine}]

Handler ==
    [at : {"free", "started", "live", "returned"}, generation : Nat, resume : Nat,
     nextID : Nat, first : Nat, next : Nat, out : Seq(LogEvent), reading : BOOLEAN,
     gone : BOOLEAN]

LogView ==
    [at : {"closed", "fetch", "read", "retry", "done"}, generation : Nat,
     conn : Conns \cup {NoConn}, lastEventId : Nat, from : Nat]

ShownLine == [line : Nat, generation : Nat]

LogTypes ==
    /\ logged \in Nat
    /\ history \in Seq(LogEvent) /\ Len(history) <= MaxReplay
    /\ conn \in [Conns -> Handler] /\ view \in LogView
    /\ shown \in SUBSET ShownLine /\ printed \in SUBSET Nat
    /\ breaks \in Nat /\ lapsed \in BOOLEAN

\* The connection that the view reads is its own and still there.
Attached ==
    IF view.at # "read" THEN view.conn = NoConn
    ELSE /\ view.conn \in Conns
         /\ conn[view.conn].generation = view.generation
         /\ ~conn[view.conn].gone

\* A connection that is still read is the view's, or of an earlier generation.
Generations ==
    \A c \in Conns : conn[c].reading =>
        /\ conn[c].generation <= view.generation
        /\ conn[c].generation = view.generation => view.conn = c

StreamInv == LogTypes /\ Attached /\ Generations /\ OldStreamsStaySilent

-----------------------------------------------------------------------------
(* where the lines are                                                     *)

Active(c) == conn[c].at \in {"started", "live"}

IsLine(event) == event.kind = "line"

\* Is the view waiting for lines that it must not miss?
Watching == view.at \in {"fetch", "read", "retry"} /\ ~lapsed

\* The event brings line n.
Brings(event, n) == IsLine(event) /\ event.line = n

Remembers(n) == \E m \in DOMAIN history : Brings(history[m], n)

\* Line n is in the terminal, or among the first k events on their way there.
BroughtBy(c, k, n) ==
    n \in Lines \/ \E i \in DOMAIN conn[c].out : i <= k /\ Brings(conn[c].out[i], n)

Brought(c, n) == BroughtBy(c, Len(conn[c].out), n)

\* The remembered lines up to an id are in the terminal, or among the first k
\* events on their way there.
BroughtUpTo(c, id, k) ==
    \A m \in DOMAIN history :
        (IsLine(history[m]) /\ history[m].id <= id) => BroughtBy(c, k, history[m].line)

AllBrought(c) == \A m \in DOMAIN history : IsLine(history[m]) => Brought(c, history[m].line)

ShownUpTo(id) ==
    \A m \in DOMAIN history :
        (IsLine(history[m]) /\ history[m].id <= id) => history[m].line \in Lines

\* Ids are given out in order, the cursor is behind them, what it has passed is in
\* the terminal, and what was printed is there or remembered.
HistoryInv ==
    /\ \A m, n \in DOMAIN history : m < n => history[m].id < history[n].id
    /\ \A d \in Conns : Active(d) => conn[d].nextID <= LastID
    /\ view.lastEventId <= LastID
    /\ ShownUpTo(view.lastEventId)
    /\ \A n \in printed : n \in Lines \/ Remembers(n)

\* When the view reads an event, it has been brought the lines before it.
InOrder(c) ==
    \A j \in DOMAIN conn[c].out :
        /\ conn[c].out[j].id <= LastID
        /\ conn[c].out[j].kind # "close" => BroughtUpTo(c, conn[c].out[j].id, j)

\* Another handler has written since this one did; its next event shows that.
Behind(c) == conn[c].nextID < LastID

\* Before its replay the view's handler leaves out what is after the cursor, after
\* its replay it has brought the history, unless it is behind.
ReplayInv(c) ==
    /\ conn[c].at = "started" => (conn[c].resume <= LastID /\ ShownUpTo(conn[c].resume))
    /\ conn[c].at = "live" => (AllBrought(c) \/ Behind(c))

\* The lines from docker's first one on are brought, and those before it were
\* printed, and are brought once the history is.
TailInv(c) ==
    (Active(c) /\ conn[c].first # 0) =>
        /\ view.from > 0 /\ conn[c].first <= conn[c].next
        /\ conn[c].first > 1 => conn[c].first <= logged
        /\ \A n \in conn[c].first .. (conn[c].next - 1) : Brought(c, n)
        /\ conn[c].at = "started" =>
               \A n \in view.from .. (conn[c].first - 1) : n \in printed
        /\ conn[c].at = "live" =>
               \/ \A n \in view.from .. (conn[c].first - 1) : Brought(c, n)
               \/ Behind(c) /\ conn[c].next = conn[c].first

ConnInv(c) == InOrder(c) /\ ReplayInv(c) /\ TailInv(c)

GapInv ==
    Watching => (HistoryInv /\ (view.at = "read" => ConnInv(view.conn)))

LogInv == StreamInv /\ GapInv

-----------------------------------------------------------------------------
(* data                                                                    *)

\* The least-number principle for a set.
LEMMA LeastNatural ==
  ASSUME NEW S \in SUBSET Nat, S # {}
  PROVE  \E n \in S : \A m \in S : n <= m
  <1> DEFINE Less == OpToRel(<, Nat)
  <1>1. IsWellFoundedOn(Less, Nat)
    BY NatLessThanWellFounded
  <1>2. \A x, y \in Nat : <<x, y>> \in Less <=> x < y
    BY DEF OpToRel
  <1> HIDE DEF Less
  <1>3. PICK n \in S : \A m \in S : ~ (<<m, n>> \in Less)
    BY <1>1, WFMin, S # {}
  <1>4. \A m \in S : ~ (m < n)
    BY <1>2, <1>3
  <1>5. \A m \in S : n <= m
    BY <1>4
  <1> QED
    BY <1>5

\* Among the ids of a sequence of events and one more there is a largest one.
LEMMA LargestID ==
  ASSUME NEW k \in Nat, NEW s \in Seq(LogEvent)
  PROVE  Max({k} \cup {e.id : e \in Range(s)}) \in Nat
  <1> DEFINE Bounds(x, n) == k <= x /\ \A i \in 1..n : s[i].id <= x
             IDs(n) == {k} \cup {s[i].id : i \in 1..n}
             HasMax(n) == \E x \in IDs(n) : Bounds(x, n)
             Bad == {n \in 0..Len(s) : ~HasMax(n)}
  <1>1. \A i \in 1..Len(s) : s[i].id \in Nat
    BY DEF LogEvent
  <1>2. HasMax(0)
    <2>1. k \in IDs(0) /\ Bounds(k, 0)
      OBVIOUS
    <2> QED
      BY <2>1
  <1>3. ASSUME NEW n \in 1..Len(s), HasMax(n - 1)
        PROVE  HasMax(n)
    <2>1. PICK x \in IDs(n - 1) : Bounds(x, n - 1)
      BY <1>3
    <2>2. x \in Nat /\ x \in IDs(n) /\ s[n].id \in IDs(n) /\ s[n].id \in Nat
      BY <1>1, <2>1
    <2>3. CASE s[n].id <= x
      <3>1. Bounds(x, n)
        BY <2>1, <2>3
      <3> QED
        BY <2>2, <3>1
    <2>4. CASE ~(s[n].id <= x)
      <3>1. Bounds(s[n].id, n)
        BY <1>1, <2>1, <2>2, <2>4
      <3> QED
        BY <2>2, <3>1
    <2> QED
      BY <2>3, <2>4
  <1>4. Bad = {}
    <2>1. SUFFICES ASSUME Bad # {} PROVE FALSE
      OBVIOUS
    <2>2. Bad \in SUBSET Nat
      OBVIOUS
    <2>3. PICK n \in Bad : \A m \in Bad : n <= m
      <3> HIDE DEF Bad
      <3> QED
        BY <2>1, <2>2, LeastNatural
    <2>4. n \in 0..Len(s) /\ ~HasMax(n)
      BY <2>3
    <2>5. n # 0
      BY <1>2, <2>4
    <2>6. n - 1 \notin Bad
      <3> HIDE DEF Bad
      <3> QED
        BY <2>2, <2>3
    <2>7. HasMax(n - 1)
      <3> HIDE DEF HasMax
      <3> QED
        BY <2>4, <2>5, <2>6
    <2> QED
      <3> HIDE DEF HasMax, Bad
      <3> QED
        BY <1>3, <2>4, <2>5, <2>7
  <1>5. HasMax(Len(s))
    <2> HIDE DEF HasMax
    <2> QED
      BY <1>4
  <1>6. {k} \cup {e.id : e \in Range(s)} = IDs(Len(s))
    BY DEF Range
  <1>7. IDs(Len(s)) \subseteq Nat
    BY <1>1
  <1>8. \E x \in IDs(Len(s)) : \A y \in IDs(Len(s)) : x >= y
    BY <1>1, <1>5
  <1> HIDE DEF IDs
  <1> QED
    BY <1>6, <1>7, <1>8 DEF Max

\* The place of n among the members of A.
Rank(A, n) == Cardinality({m \in A : m <= n})

\* The places of a finite set of numbers are counted from 1, without a gap.
LEMMA RanksCount ==
  ASSUME NEW A \in SUBSET Nat, IsFiniteSet(A)
  PROVE  /\ Cardinality(A) \in Nat
         /\ \A n \in A : Rank(A, n) \in 1..Cardinality(A)
         /\ \A n, m \in A : Rank(A, n) = Rank(A, m) => n = m
         /\ \A k \in 1..Cardinality(A) : \E n \in A : Rank(A, n) = k
         /\ \A n, m \in A : n <= m => Rank(A, n) <= Rank(A, m)
  <1> DEFINE Below(n) == {m \in A : m <= n}
             f == [n \in A |-> Rank(A, n)]
  <1>1. Cardinality(A) \in Nat
    BY FS_CardinalityType
  <1>2. ASSUME NEW n \in A
        PROVE  /\ IsFiniteSet(Below(n)) /\ Cardinality(Below(n)) \in Nat
               /\ Cardinality(Below(n)) <= Cardinality(A)
    <2>1. Below(n) \in SUBSET A
      OBVIOUS
    <2> QED
      BY <2>1, FS_Subset, FS_CardinalityType
  <1>3. ASSUME NEW n \in A
        PROVE  Rank(A, n) \in 1..Cardinality(A)
    <2>1. n \in Below(n)
      OBVIOUS
    <2>2. Cardinality(Below(n)) # 0
      <3> HIDE DEF Below
      <3> QED
        BY <1>2, <2>1, FS_EmptySet
    <2>3. Rank(A, n) = Cardinality(Below(n))
      BY DEF Rank
    <2> HIDE DEF Below
    <2> QED
      BY <1>1, <1>2, <2>2, <2>3
  <1>4. ASSUME NEW n \in A, NEW m \in A, n < m
        PROVE  Rank(A, n) # Rank(A, m)
    <2>1. Below(n) \in SUBSET Below(m) /\ m \in Below(m) /\ m \notin Below(n)
      <3>1. n \in Nat /\ m \in Nat /\ \A x \in A : x \in Nat
        OBVIOUS
      <3>2. \A x \in A : x <= n => x <= m
        BY <1>4, <3>1
      <3>3. m <= m /\ ~(m <= n)
        BY <1>4, <3>1
      <3> QED
        BY <3>2, <3>3
    <2>2. Rank(A, n) = Cardinality(Below(n)) /\ Rank(A, m) = Cardinality(Below(m))
      BY DEF Rank
    <2> HIDE DEF Below
    <2>3. Cardinality(Below(m)) = Cardinality(Below(n)) => Below(m) = Below(n)
      BY <1>2, <2>1, FS_Subset
    <2> QED
      BY <2>1, <2>2, <2>3
  <1>5. ASSUME NEW n \in A, NEW m \in A, Rank(A, n) = Rank(A, m)
        PROVE  n = m
    <2>1. n < m \/ m < n \/ n = m
      OBVIOUS
    <2> QED
      BY <1>4, <1>5, <2>1
  <1>6. f \in Injection(A, 1..Cardinality(A))
    BY <1>3, <1>5 DEF Injection, IsInjective
  <1>7. f \in Surjection(A, 1..Cardinality(A))
    <2>1. IsFiniteSet(1..Cardinality(A)) /\ Cardinality(1..Cardinality(A)) = Cardinality(A)
      BY <1>1, FS_Interval
    <2> HIDE DEF f
    <2> QED
      BY <1>6, <2>1, FS_Injection
  <1>8. \A k \in 1..Cardinality(A) : \E n \in A : Rank(A, n) = k
    <2>1. \A k \in 1..Cardinality(A) : \E n \in A : f[n] = k
      <3> HIDE DEF f
      <3> QED
        BY <1>7 DEF Surjection
    <2> QED
      BY <2>1
  <1>9. ASSUME NEW n \in A, NEW m \in A, n <= m
        PROVE  Rank(A, n) <= Rank(A, m)
    <2>1. n \in Nat /\ m \in Nat /\ \A x \in A : x \in Nat
      OBVIOUS
    <2>2. Below(n) \in SUBSET Below(m)
      <3>1. \A x \in A : x <= n => x <= m
        BY <1>9, <2>1
      <3> QED
        BY <3>1
    <2>3. Rank(A, n) = Cardinality(Below(n)) /\ Rank(A, m) = Cardinality(Below(m))
      BY DEF Rank
    <2> HIDE DEF Below
    <2> QED
      BY <1>2, <2>2, <2>3, FS_Subset
  <1> QED
    BY <1>1, <1>3, <1>5, <1>8, <1>9

\* The replay brings events of the history, every one after the cursor, in the
\* order of their ids if the history is.
LEMMA ReplaySelects ==
  ASSUME NEW resume, history \in Seq(LogEvent)
  PROVE  LET s == EventsAfter(resume)
         IN  /\ s \in Seq(LogEvent)
             /\ \A k \in DOMAIN s : \E n \in DOMAIN history : s[k] = history[n]
             /\ \A n \in DOMAIN history : After(resume, history[n]) =>
                    \E k \in DOMAIN s : s[k] = history[n]
             /\ (\A m, n \in DOMAIN history : m < n => history[m].id < history[n].id) =>
                    \A k \in DOMAIN s, n \in DOMAIN history :
                        (After(resume, history[n]) /\ history[n].id <= s[k].id) =>
                            \E i \in DOMAIN s : i <= k /\ s[i] = history[n]
  <1> DEFINE A == {n \in DOMAIN history : After(resume, history[n])}
             Nth(k) == CHOOSE n \in A : Rank(A, n) = k
             s == EventsAfter(resume)
  <1>1. A \in SUBSET Nat /\ A \in SUBSET (1..Len(history)) /\ Len(history) \in Nat
    OBVIOUS
  <1>2. IsFiniteSet(A)
    <2>1. IsFiniteSet(1..Len(history))
      BY <1>1, FS_Interval
    <2> HIDE DEF A
    <2> QED
      BY <1>1, <2>1, FS_Subset
  <1>3. s = [k \in 1..Cardinality(A) |-> history[Nth(k)]]
    BY DEF EventsAfter, Rank
  <1>4. \A n \in A : n \in DOMAIN history /\ history[n] \in LogEvent
    OBVIOUS
  <1>5. \A n \in DOMAIN history : After(resume, history[n]) => n \in A
    OBVIOUS
  <1> HIDE DEF A
  <1>6. /\ Cardinality(A) \in Nat
        /\ \A n \in A : Rank(A, n) \in 1..Cardinality(A)
        /\ \A n, m \in A : Rank(A, n) = Rank(A, m) => n = m
        /\ \A k \in 1..Cardinality(A) : \E n \in A : Rank(A, n) = k
        /\ \A n, m \in A : n <= m => Rank(A, n) <= Rank(A, m)
    BY <1>1, <1>2, RanksCount
  <1>7. \A k \in 1..Cardinality(A) : Nth(k) \in A /\ Rank(A, Nth(k)) = k
    BY <1>6
  <1> HIDE DEF Nth, s
  <1>8. s \in Seq(LogEvent) /\ DOMAIN s = 1..Cardinality(A)
    BY <1>3, <1>4, <1>6, <1>7
  <1>9. \A k \in DOMAIN s : Nth(k) \in A /\ s[k] = history[Nth(k)]
    BY <1>3, <1>7, <1>8
  <1>10. ASSUME NEW n \in A
         PROVE  Rank(A, n) \in DOMAIN s /\ s[Rank(A, n)] = history[n]
    <2>1. Rank(A, n) \in 1..Cardinality(A) /\ Nth(Rank(A, n)) = n
      BY <1>6, <1>7
    <2> QED
      BY <1>8, <1>9, <2>1
  <1>11. ASSUME \A m, n \in DOMAIN history : m < n => history[m].id < history[n].id,
                NEW k \in DOMAIN s, NEW n \in A, history[n].id <= s[k].id
         PROVE  \E i \in DOMAIN s : i <= k /\ s[i] = history[n]
    <2>1. Nth(k) \in A /\ s[k] = history[Nth(k)] /\ Rank(A, Nth(k)) = k
      BY <1>7, <1>8, <1>9
    <2>2. n \in Nat /\ Nth(k) \in Nat /\ history[n].id \in Nat /\ history[Nth(k)].id \in Nat
      BY <1>1, <1>4, <2>1 DEF LogEvent
    <2>3. ~(Nth(k) < n)
      <3>1. Nth(k) < n => history[Nth(k)].id < history[n].id
        BY <1>4, <1>11, <2>1
      <3> QED
        BY <1>11, <2>1, <2>2, <3>1
    <2>4. n <= Nth(k)
      BY <2>2, <2>3
    <2>5. Rank(A, n) <= k
      BY <1>6, <2>1, <2>4
    <2> QED
      BY <1>10, <2>5
  <1>12. \A k \in DOMAIN s : \E n \in DOMAIN history : s[k] = history[n]
    BY <1>4, <1>9
  <1>13. \A n \in DOMAIN history : After(resume, history[n]) =>
             \E k \in DOMAIN s : s[k] = history[n]
    BY <1>5, <1>10
  <1>14. (\A m, n \in DOMAIN history : m < n => history[m].id < history[n].id) =>
             \A k \in DOMAIN s, n \in DOMAIN history :
                 (After(resume, history[n]) /\ history[n].id <= s[k].id) =>
                     \E i \in DOMAIN s : i <= k /\ s[i] = history[n]
    BY <1>5, <1>11
  <1> QED
    BY <1>8, <1>12, <1>13, <1>14 DEF s

-----------------------------------------------------------------------------
(* the history                                                             *)

\* The last id of a history of events, which is the largest one if they are ordered.
LEMMA LastIDBounds ==
  ASSUME history \in Seq(LogEvent)
  PROVE  /\ LastID \in Nat
         /\ (\A m, n \in DOMAIN history : m < n => history[m].id < history[n].id) =>
                \A m \in DOMAIN history : history[m].id <= LastID
  <1>1. CASE history = <<>>
    BY <1>1 DEF LastID
  <1>2. CASE history # <<>>
    <2>1. /\ Len(history) \in DOMAIN history /\ LastID = history[Len(history)].id
          /\ DOMAIN history = 1..Len(history) /\ Len(history) \in Nat
      BY <1>2 DEF LastID, Last
    <2>2. \A m \in DOMAIN history : history[m].id \in Nat
      BY DEF LogEvent
    <2>3. \A m \in DOMAIN history : m < Len(history) \/ m = Len(history)
      BY <2>1
    <2> QED
      BY <2>1, <2>2, <2>3
  <1> QED
    BY <1>1, <1>2

\* rememberLocked: the history moves by s events when the oldest ones leave it.
MovesBy(s, event) ==
    /\ history' \in Seq(LogEvent) /\ Len(history') = Len(history) + 1 - s
    /\ history'[Len(history')] = event
    /\ \A m \in 1 .. (Len(history) - s) : history'[m] = history[m + s]
    /\ s = 1 => Len(history) = MaxReplay

\* A remembered event is the last one, and at most the first one has left.
LEMMA RememberedFacts ==
  ASSUME LogTypes, NEW e \in LogEvent, history' = Remembered(e)
  PROVE  /\ history' \in Seq(LogEvent) /\ Len(history') <= MaxReplay
         /\ LastID' = e.id
         /\ \E s \in {0, 1} : MovesBy(s, e)
  <1> DEFINE all == Append(history, e)
  <1>1. history \in Seq(LogEvent) /\ Len(history) \in Nat /\ Len(history) <= MaxReplay
    BY DEF LogTypes
  <1>2. MaxReplay \in Nat /\ MaxReplay > 0
    BY LogAssumption
  <1>3. /\ all \in Seq(LogEvent) /\ Len(all) = Len(history) + 1 /\ all[Len(all)] = e
        /\ \A m \in 1..Len(history) : all[m] = history[m]
    BY <1>1
  <1>4. history' = IF Len(all) > MaxReplay THEN Tail(all) ELSE all
    BY DEF Remembered
  <1> HIDE DEF all
  <1>5. CASE ~(Len(all) > MaxReplay)
    <2>1. history' = all
      BY <1>4, <1>5
    <2>2. Len(history') <= MaxReplay
      BY <1>1, <1>2, <1>3, <1>5, <2>1
    <2>3. history' # <<>>
      BY <1>1, <1>3, <2>1
    <2>4. LastID' = e.id
      BY <1>3, <2>1, <2>3 DEF LastID, Last
    <2>5. MovesBy(0, e)
      BY <1>1, <1>3, <2>1 DEF MovesBy
    <2> QED
      BY <1>3, <2>1, <2>2, <2>4, <2>5
  <1>6. CASE Len(all) > MaxReplay
    <2>1. history' = Tail(all) /\ Len(history) = MaxReplay
      BY <1>1, <1>2, <1>3, <1>4, <1>6
    <2>2. all # <<>>
      BY <1>1, <1>3
    <2>3. /\ history' \in Seq(LogEvent) /\ Len(history') = Len(history)
          /\ \A m \in 1..Len(history) : history'[m] = all[m + 1]
      BY <1>1, <1>3, <2>1, <2>2
    <2>4. history'[Len(history')] = e
      BY <1>1, <1>2, <1>3, <2>1, <2>3
    <2>5. ASSUME NEW m \in 1 .. (Len(history) - 1)
          PROVE  history'[m] = history[m + 1]
      <3>1. m \in 1..Len(history) /\ m + 1 \in 1..Len(history)
        BY <1>1
      <3> QED
        BY <1>3, <2>3, <3>1
    <2>6. history' # <<>>
      <3>1. Len(history') > 0
        BY <1>2, <2>1, <2>3
      <3> QED
        BY <2>3, <3>1
    <2>7. LastID' = e.id
      BY <2>4, <2>6 DEF LastID, Last
    <2>8. MovesBy(1, e)
      <3>1. Len(history') = Len(history) + 1 - 1
        BY <1>1, <2>3
      <3> QED
        BY <2>1, <2>3, <2>4, <2>5, <3>1 DEF MovesBy
    <2> QED
      BY <1>1, <2>1, <2>3, <2>7, <2>8
  <1> QED
    BY <1>5, <1>6

\* What a history has after an event with the largest id.
Grows(event) ==
    /\ LastID' = event.id /\ LastID \in Nat /\ event.id \in Nat /\ LastID < event.id
    /\ \A m, n \in DOMAIN history' : m < n => history'[m].id < history'[n].id
    /\ \A m \in DOMAIN history' :
           history'[m] = event \/ \E k \in DOMAIN history : history'[m] = history[k]
    /\ \E m \in DOMAIN history' : history'[m] = event
    /\ \A k \in DOMAIN history :
           \/ IsLine(history[k]) /\ history[k].id <= view.lastEventId
           \/ ~IsLine(history[k])
           \/ \E m \in DOMAIN history' : history'[m] = history[k]

\* Remembering an event with the largest id keeps the order, and every line that
\* the cursor has not reached unless it evicts one.
LEMMA RememberingGrows ==
  ASSUME LogTypes, NEW e \in LogEvent, history' = Remembered(e), ~Evicts, ~(e.id <= LastID),
         \A m, n \in DOMAIN history : m < n => history[m].id < history[n].id
  PROVE  Grows(e)
  <1>1. history \in Seq(LogEvent) /\ Len(history) \in Nat /\ view.lastEventId \in Nat
    BY DEF LogTypes, LogView
  <1>2. LastID' = e.id /\ history' \in Seq(LogEvent)
    BY RememberedFacts
  <1>3. PICK s \in {0, 1} : MovesBy(s, e)
    BY RememberedFacts
  <1>4. /\ LastID \in Nat /\ e.id \in Nat /\ LastID < e.id
        /\ \A m \in DOMAIN history : history[m].id <= LastID /\ history[m].id \in Nat
    <2>1. LastID \in Nat /\ e.id \in Nat
      BY <1>1, LastIDBounds DEF LogEvent
    <2>2. \A m \in DOMAIN history : history[m].id <= LastID
      BY <1>1, LastIDBounds
    <2>3. \A m \in DOMAIN history : history[m].id \in Nat
      BY <1>1 DEF LogEvent
    <2>4. LastID < e.id
      BY <2>1
    <2> QED
      BY <2>1, <2>2, <2>3, <2>4
  <1> DEFINE l == Len(history)
             l2 == Len(history')
  <1>5. /\ DOMAIN history = 1..l /\ DOMAIN history' = 1..l2 /\ l2 = l + 1 - s
        /\ history'[l2] = e /\ l \in Nat /\ l2 \in Nat
        /\ \A m \in 1 .. (l - s) : history'[m] = history[m + s]
        /\ s = 1 => l = MaxReplay
    BY <1>1, <1>2, <1>3 DEF MovesBy
  <1>6. MaxReplay \in Nat /\ MaxReplay > 0
    BY LogAssumption
  <1> HIDE DEF l, l2
  <1>7. l2 \in 1..l2
    BY <1>5, <1>6
  <1>8. \A m \in 1..l2 : m = l2 \/ (m \in 1 .. (l - s) /\ m + s \in 1..l)
    BY <1>5
  <1>9. ASSUME NEW m \in DOMAIN history', NEW n \in DOMAIN history', m < n
        PROVE  history'[m].id < history'[n].id
    <2>1. m \in 1..l2 /\ n \in 1..l2
      BY <1>5
    <2>2. m # l2
      BY <1>5, <1>9, <2>1
    <2>3. m \in 1 .. (l - s) /\ m + s \in 1..l /\ history'[m] = history[m + s]
      BY <1>5, <1>8, <2>1, <2>2
    <2>4. CASE n = l2
      BY <1>4, <1>5, <2>3, <2>4
    <2>5. CASE n # l2
      <3>1. n \in 1 .. (l - s) /\ n + s \in 1..l /\ history'[n] = history[n + s]
        BY <1>5, <1>8, <2>1, <2>5
      <3>2. m + s < n + s
        BY <1>9, <2>3, <3>1
      <3> QED
        BY <1>5, <2>3, <3>1, <3>2
    <2> QED
      BY <2>4, <2>5
  <1>10. ASSUME NEW m \in DOMAIN history'
         PROVE  history'[m] = e \/ \E k \in DOMAIN history : history'[m] = history[k]
    BY <1>5, <1>8
  <1>11. \E m \in DOMAIN history' : history'[m] = e
    BY <1>5, <1>7
  <1>12. ASSUME NEW k \in DOMAIN history
         PROVE  \/ IsLine(history[k]) /\ history[k].id <= view.lastEventId
                \/ ~IsLine(history[k])
                \/ \E m \in DOMAIN history' : history'[m] = history[k]
    <2>1. k \in 1..l
      BY <1>5
    <2>2. CASE k > s
      <3>1. k - s \in 1 .. (l - s) /\ (k - s) + s = k /\ k - s \in 1..l2
        BY <1>5, <2>1, <2>2
      <3>2. history'[k - s] = history[k]
        BY <1>5, <3>1
      <3> QED
        BY <1>5, <3>1, <3>2
    <2>3. CASE ~(k > s)
      <3>1. s = 1 /\ k = 1 /\ Len(history) = MaxReplay
        BY <1>5, <2>1, <2>3 DEF l
      <3>2. Head(history) = history[k]
        BY <1>1, <1>6, <3>1
      <3>3. ~(Head(history).kind = "line" /\ Head(history).id > view.lastEventId)
        BY <3>1 DEF Evicts
      <3> QED
        BY <1>1, <1>4, <3>2, <3>3 DEF IsLine
    <2> QED
      BY <2>2, <2>3
  <1> QED
    BY <1>2, <1>4, <1>9, <1>10, <1>11, <1>12 DEF Grows

-----------------------------------------------------------------------------
(* the fields after each of the node's steps                               *)

\* What is sent to the view is a sequence of events.
LEMMA SentIsOut ==
  ASSUME LogTypes, NEW c \in Conns, NEW s \in Seq(LogEvent)
  PROVE  Sent(c, s) \in Seq(LogEvent) /\ (~conn[c].gone => Sent(c, s) = conn[c].out \o s)
  <1>1. conn[c].out \in Seq(LogEvent)
    BY DEF LogTypes, Handler
  <1> QED
    BY <1>1 DEF Sent

\* The events that the handlers write are events.
LEMMA WrittenIsEvent ==
  ASSUME NEW id \in Nat, NEW n \in Nat
  PROVE  /\ Event(id + 1, "line", n) \in LogEvent /\ Event(id + 1, "line", n).line = n
         /\ Event(id + 1, "line", n).kind = "line"
         /\ \A kind \in {"ready", "heartbeat", "close"} :
                /\ Event(id + 1, kind, NoLine) \in LogEvent
                /\ Event(id + 1, kind, NoLine).kind = kind
  <1>1. id + 1 \in Nat \ {0}
    OBVIOUS
  <1> QED
    BY <1>1 DEF Event, LogEvent, NoLine

\* Only the handler c takes a step.
OnlyAt(c) == \A d \in Conns \ {c} : conn'[d] = conn[d]

\* The request that the handler serves stays the same, and so does the view.
SameRequest(c) ==
    /\ conn'[c].generation = conn[c].generation /\ conn'[c].reading = conn[c].reading
    /\ conn'[c].gone = conn[c].gone
    /\ UNCHANGED <<view, shown, logged>>

\* The event is remembered, and the history variables tell whether that may cost lines.
Keeps(event) ==
    /\ history' = Remembered(event) /\ printed' = printed \cup ({event.line} \ {NoLine})
    /\ lapsed' \in BOOLEAN
    /\ ~lapsed' => (~lapsed /\ ~Evicts /\ ~(event.id <= LastID))

\* The handler remembers an event, the last one of a sequence that it sends.
Wrote(c, s, event) ==
    /\ LogTypes' /\ OnlyAt(c) /\ SameRequest(c) /\ conn'[c].first = conn[c].first
    /\ event \in LogEvent /\ s \in Seq(LogEvent) /\ conn'[c].out = Sent(c, s)
    /\ Keeps(event)

\* A handler that writes keeps the types.
LEMMA WritesFields ==
  ASSUME LogTypes, NEW c \in Conns, NEW h \in Handler, conn' = [conn EXCEPT ![c] = h],
         NEW e \in LogEvent, Keeps(e),
         UNCHANGED <<logged, view, shown, breaks>>
  PROVE  LogTypes' /\ OnlyAt(c) /\ conn'[c] = h
  <1>1. conn \in [Conns -> Handler] /\ printed \in SUBSET Nat
    BY DEF LogTypes
  <1>2. conn' \in [Conns -> Handler] /\ OnlyAt(c) /\ conn'[c] = h
    BY <1>1 DEF OnlyAt
  <1>3. history' = Remembered(e) /\ printed' = printed \cup ({e.line} \ {NoLine}) /\ lapsed' \in BOOLEAN
    BY DEF Keeps
  <1>4. history' \in Seq(LogEvent) /\ Len(history') <= MaxReplay
    BY <1>3, RememberedFacts
  <1>5. e.line \in Nat
    BY DEF LogEvent, NoLine
  <1>6. printed' \in SUBSET Nat
    BY <1>1, <1>3, <1>5
  <1> QED
    BY <1>2, <1>3, <1>4, <1>6 DEF LogTypes

DockerEvent(c) == Event(conn[c].nextID + 1, "line", conn[c].next)

\* What a line from docker changes.
LEMMA DockerWritesFields ==
  ASSUME LogTypes, NEW c \in Conns, DockerWrites(c)
  PROVE  /\ Wrote(c, <<DockerEvent(c)>>, DockerEvent(c))
         /\ (~lapsed' => ~Overtakes(c))
         /\ Active(c) /\ conn[c].first # 0 /\ Brings(DockerEvent(c), conn[c].next)
         /\ conn'[c].at = conn[c].at /\ conn'[c].resume = conn[c].resume
         /\ conn'[c].next = conn[c].next + 1 /\ conn'[c].nextID = DockerEvent(c).id
  <1> DEFINE e == DockerEvent(c)
             h == [conn[c] EXCEPT !.nextID = e.id, !.next = conn[c].next + 1,
                                  !.out = Sent(c, <<e>>)]
  <1>1. conn[c] \in Handler /\ conn \in [Conns -> Handler]
    BY DEF LogTypes
  <1>2. conn[c].nextID \in Nat /\ conn[c].next \in Nat
    BY <1>1 DEF Handler
  <1>3. e \in LogEvent /\ e.line = conn[c].next /\ e.kind = "line"
    BY <1>2, WrittenIsEvent DEF DockerEvent
  <1>4. /\ conn' = [conn EXCEPT ![c].nextID = e.id, ![c].next = @ + 1, ![c].out = Sent(c, <<e>>)]
        /\ Writes(e, Overtakes(c)) /\ UNCHANGED <<logged, view, shown, breaks>>
        /\ conn[c].at \in {"started", "live"} /\ conn[c].first # 0
    BY DEF DockerWrites, DockerEvent
  <1> HIDE DEF e
  <1>5. Sent(c, <<e>>) \in Seq(LogEvent) /\ <<e>> \in Seq(LogEvent) /\ e.id \in Nat
    <2>1. <<e>> \in Seq(LogEvent) /\ e.id \in Nat
      BY <1>3 DEF LogEvent
    <2>2. Sent(c, <<e>>) \in Seq(LogEvent)
      BY <2>1, SentIsOut
    <2> QED
      BY <2>1, <2>2
  <1>6. h \in Handler
    <2>1. conn[c].next + 1 \in Nat
      BY <1>2
    <2> QED
      BY <1>1, <1>5, <2>1 DEF Handler
  <1>7. conn' = [conn EXCEPT ![c] = h]
    BY <1>1, <1>4 DEF Handler
  <1>8. Keeps(e) /\ (~lapsed' => ~Overtakes(c))
    BY <1>4 DEF Writes, Keeps
  <1>9. /\ h.nextID = e.id /\ h.next = conn[c].next + 1 /\ h.out = Sent(c, <<e>>)
        /\ h.generation = conn[c].generation /\ h.first = conn[c].first /\ h.at = conn[c].at
        /\ h.reading = conn[c].reading /\ h.gone = conn[c].gone /\ h.resume = conn[c].resume
    BY <1>1 DEF Handler
  <1> HIDE DEF h
  <1>10. LogTypes' /\ OnlyAt(c) /\ conn'[c] = h
    BY <1>3, <1>4, <1>6, <1>7, <1>8, WritesFields
  <1>11. Wrote(c, <<e>>, e)
    BY <1>3, <1>4, <1>5, <1>8, <1>9, <1>10 DEF Wrote, SameRequest
  <1>12. Brings(e, conn[c].next) /\ Active(c)
    BY <1>3, <1>4 DEF Brings, IsLine, Active
  <1> QED
    BY <1>4, <1>8, <1>9, <1>10, <1>11, <1>12 DEF e

HeartbeatEvent(c) == Event(conn[c].nextID + 1, "heartbeat", NoLine)

\* What a heartbeat changes.
LEMMA HeartbeatFields ==
  ASSUME LogTypes, NEW c \in Conns, Heartbeat(c)
  PROVE  /\ Wrote(c, <<HeartbeatEvent(c)>>, HeartbeatEvent(c))
         /\ conn[c].at = "live" /\ ~IsLine(HeartbeatEvent(c))
         /\ conn'[c].at = "live" /\ conn'[c].resume = conn[c].resume
         /\ conn'[c].next = conn[c].next /\ conn'[c].nextID = HeartbeatEvent(c).id
  <1> DEFINE e == HeartbeatEvent(c)
             h == [conn[c] EXCEPT !.nextID = e.id, !.out = Sent(c, <<e>>)]
  <1>1. conn[c] \in Handler /\ conn \in [Conns -> Handler]
    BY DEF LogTypes
  <1>2. conn[c].nextID \in Nat /\ 0 \in Nat
    BY <1>1 DEF Handler
  <1>3. e \in LogEvent /\ e.kind = "heartbeat"
    BY <1>2, WrittenIsEvent DEF HeartbeatEvent
  <1>4. /\ conn' = [conn EXCEPT ![c].nextID = e.id, ![c].out = Sent(c, <<e>>)]
        /\ Writes(e, FALSE) /\ UNCHANGED <<logged, view, shown, breaks>>
        /\ conn[c].at = "live"
    BY DEF Heartbeat, HeartbeatEvent
  <1> Keeps(e)
    BY <1>4 DEF Writes, Keeps
  <1> HIDE DEF e
  <1>5. Sent(c, <<e>>) \in Seq(LogEvent) /\ <<e>> \in Seq(LogEvent) /\ e.id \in Nat
    <2>1. <<e>> \in Seq(LogEvent) /\ e.id \in Nat
      BY <1>3 DEF LogEvent
    <2>2. Sent(c, <<e>>) \in Seq(LogEvent)
      BY <2>1, SentIsOut
    <2> QED
      BY <2>1, <2>2
  <1>6. h \in Handler
    BY <1>1, <1>5 DEF Handler
  <1>7. conn' = [conn EXCEPT ![c] = h]
    BY <1>1, <1>4 DEF Handler
  <1>8. /\ h.nextID = e.id /\ h.next = conn[c].next /\ h.out = Sent(c, <<e>>)
        /\ h.generation = conn[c].generation /\ h.first = conn[c].first /\ h.at = conn[c].at
        /\ h.reading = conn[c].reading /\ h.gone = conn[c].gone /\ h.resume = conn[c].resume
    BY <1>1 DEF Handler
  <1> HIDE DEF h
  <1>9. LogTypes' /\ OnlyAt(c) /\ conn'[c] = h
    BY <1>3, <1>4, <1>6, <1>7, WritesFields
  <1>10. Wrote(c, <<e>>, e)
    BY <1>3, <1>4, <1>5, <1>8, <1>9 DEF Wrote, SameRequest
  <1>11. ~IsLine(e)
    BY <1>3 DEF IsLine
  <1> QED
    BY <1>4, <1>8, <1>9, <1>10, <1>11 DEF e

ReadyEvent(c) ==
    Event(Max({conn[c].nextID} \cup {e.id : e \in Range(EventsAfter(conn[c].resume))}) + 1,
          "ready", NoLine)

Replayed(c) == Append(EventsAfter(conn[c].resume), ReadyEvent(c))

\* What the replay of the history changes.
LEMMA ReplayFields ==
  ASSUME LogTypes, NEW c \in Conns, Replay(c)
  PROVE  /\ Wrote(c, Replayed(c), ReadyEvent(c))
         /\ ReadyEvent(c).kind = "ready"
         /\ conn[c].at = "started" /\ conn'[c].at = "live"
         /\ conn'[c].next = conn[c].next /\ conn'[c].nextID = ReadyEvent(c).id
  <1> DEFINE s == EventsAfter(conn[c].resume)
             e == ReadyEvent(c)
             all == Append(s, e)
             h == [conn[c] EXCEPT !.at = "live", !.nextID = e.id, !.resume = 0,
                                  !.out = Sent(c, all)]
             max == Max({conn[c].nextID} \cup {x.id : x \in Range(s)})
  <1>1. conn[c] \in Handler /\ conn \in [Conns -> Handler]
    BY DEF LogTypes
  <1>2. conn[c].nextID \in Nat /\ 0 \in Nat
    BY <1>1 DEF Handler
  <1>3. e = Event(max + 1, "ready", NoLine)
    BY DEF ReadyEvent
  <1>4. /\ conn' = [conn EXCEPT ![c].at = "live", ![c].nextID = e.id, ![c].resume = 0,
                                ![c].out = Sent(c, all)]
        /\ Writes(e, FALSE) /\ UNCHANGED <<logged, view, shown, breaks>>
        /\ conn[c].at = "started"
    BY DEF Replay, ReadyEvent
  <1> Keeps(e)
    BY <1>4 DEF Writes, Keeps
  <1> HIDE DEF s, e
  <1>5. s \in Seq(LogEvent)
    BY ReplaySelects DEF s, LogTypes
  <1>6. max \in Nat
    BY <1>2, <1>5, LargestID
  <1> HIDE DEF max
  <1>7. e \in LogEvent /\ e.kind = "ready"
    BY <1>2, <1>3, <1>6, WrittenIsEvent
  <1>8. Sent(c, all) \in Seq(LogEvent) /\ all \in Seq(LogEvent) /\ e.id \in Nat
    <2>1. all \in Seq(LogEvent) /\ e.id \in Nat
      BY <1>5, <1>7 DEF LogEvent
    <2> HIDE DEF all
    <2>2. Sent(c, all) \in Seq(LogEvent)
      BY <2>1, SentIsOut
    <2> QED
      BY <2>1, <2>2
  <1> HIDE DEF all
  <1>9. h \in Handler
    BY <1>1, <1>2, <1>8 DEF Handler
  <1>10. conn' = [conn EXCEPT ![c] = h]
    BY <1>1, <1>4 DEF Handler
  <1>11. /\ h.nextID = e.id /\ h.next = conn[c].next /\ h.out = Sent(c, all)
         /\ h.generation = conn[c].generation /\ h.first = conn[c].first /\ h.at = "live"
         /\ h.reading = conn[c].reading /\ h.gone = conn[c].gone
    BY <1>1 DEF Handler
  <1> HIDE DEF h
  <1>12. LogTypes' /\ OnlyAt(c) /\ conn'[c] = h
    BY <1>4, <1>7, <1>9, <1>10, WritesFields
  <1>13. Wrote(c, all, e)
    BY <1>4, <1>7, <1>8, <1>11, <1>12 DEF Wrote, SameRequest
  <1>14. all = Replayed(c)
    BY DEF all, s, e, Replayed
  <1> QED
    BY <1>4, <1>7, <1>11, <1>12, <1>13, <1>14 DEF e

CloseEvent(c) == Event(conn[c].nextID + 1, "close", NoLine)

\* What the event close changes.
LEMMA CloseFields ==
  ASSUME LogTypes, NEW c \in Conns, Close(c)
  PROVE  /\ Wrote(c, <<CloseEvent(c)>>, CloseEvent(c))
         /\ CloseEvent(c).kind = "close" /\ conn'[c].at = "returned"
  <1> DEFINE e == CloseEvent(c)
             h == [conn[c] EXCEPT !.at = "returned", !.out = Sent(c, <<e>>)]
  <1>1. conn[c] \in Handler /\ conn \in [Conns -> Handler]
    BY DEF LogTypes
  <1>2. conn[c].nextID \in Nat /\ 0 \in Nat
    BY <1>1 DEF Handler
  <1>3. e \in LogEvent /\ e.kind = "close"
    BY <1>2, WrittenIsEvent DEF CloseEvent
  <1>4. /\ conn' = [conn EXCEPT ![c].at = "returned", ![c].out = Sent(c, <<e>>)]
        /\ Writes(e, FALSE) /\ UNCHANGED <<logged, view, shown, breaks>>
    BY DEF Close, CloseEvent
  <1> Keeps(e)
    BY <1>4 DEF Writes, Keeps
  <1> HIDE DEF e
  <1>5. Sent(c, <<e>>) \in Seq(LogEvent) /\ <<e>> \in Seq(LogEvent)
    <2>1. <<e>> \in Seq(LogEvent)
      BY <1>3
    <2>2. Sent(c, <<e>>) \in Seq(LogEvent)
      BY <2>1, SentIsOut
    <2> QED
      BY <2>1, <2>2
  <1>6. h \in Handler
    BY <1>1, <1>5 DEF Handler
  <1>7. conn' = [conn EXCEPT ![c] = h]
    BY <1>1, <1>4 DEF Handler
  <1>8. /\ h.out = Sent(c, <<e>>) /\ h.at = "returned"
        /\ h.generation = conn[c].generation /\ h.first = conn[c].first
        /\ h.reading = conn[c].reading /\ h.gone = conn[c].gone
    BY <1>1 DEF Handler
  <1> HIDE DEF h
  <1>9. LogTypes' /\ OnlyAt(c) /\ conn'[c] = h
    BY <1>3, <1>4, <1>6, <1>7, WritesFields
  <1>10. Wrote(c, <<e>>, e)
    BY <1>3, <1>4, <1>5, <1>8, <1>9 DEF Wrote, SameRequest
  <1> QED
    BY <1>3, <1>8, <1>9, <1>10 DEF e

-----------------------------------------------------------------------------
(* the node's writes                                                       *)

\* A step of one handler that keeps its request keeps what is shown.
LEMMA NodeKeepsStreams ==
  ASSUME StreamInv, NEW c \in Conns, LogTypes', OnlyAt(c), SameRequest(c)
  PROVE  StreamInv'
  <1>1. LogTypes /\ Attached /\ Generations /\ OldStreamsStaySilent
    BY DEF StreamInv
  <1>2. view' = view /\ shown' = shown
    BY DEF SameRequest
  <1>3. \A d \in Conns : /\ conn'[d].generation = conn[d].generation
                         /\ conn'[d].reading = conn[d].reading /\ conn'[d].gone = conn[d].gone
    BY DEF OnlyAt, SameRequest
  <1>4. Attached' /\ Generations' /\ OldStreamsStaySilent'
    BY <1>1, <1>2, <1>3 DEF Attached, Generations, OldStreamsStaySilent
  <1> QED
    BY <1>4 DEF StreamInv

\* An event with the largest id keeps the order and every line that is due.
LEMMA WriteKeepsHistory ==
  ASSUME LogTypes, HistoryInv, NEW c \in Conns, NEW s, NEW e, Wrote(c, s, e), ~lapsed',
         Active(c)' => conn'[c].nextID = e.id
  PROVE  Grows(e) /\ HistoryInv'
  <1>1. /\ e \in LogEvent /\ OnlyAt(c) /\ view' = view /\ shown' = shown /\ Lines' = Lines
        /\ history' = Remembered(e) /\ printed' = printed \cup ({e.line} \ {NoLine})
        /\ ~Evicts /\ ~(e.id <= LastID)
    BY DEF Wrote, Keeps, SameRequest, Lines
  <1>2. \A m, n \in DOMAIN history : m < n => history[m].id < history[n].id
    BY DEF HistoryInv
  <1>3. Grows(e)
    BY <1>1, <1>2, RememberingGrows
  <1>4. /\ LastID' = e.id /\ LastID \in Nat /\ e.id \in Nat /\ LastID < e.id
        /\ view.lastEventId \in Nat /\ view.lastEventId <= LastID
    BY <1>3 DEF Grows, LogTypes, LogView, HistoryInv
  <1>5. ASSUME NEW d \in Conns, Active(d)'
        PROVE  conn'[d].nextID <= LastID'
    <2>1. CASE d = c
      BY <1>4, <1>5, <2>1
    <2>2. CASE d # c
      <3>1. conn'[d] = conn[d] /\ conn[d].nextID \in Nat
        BY <1>1, <2>2 DEF OnlyAt, LogTypes, Handler
      <3>2. conn[d].nextID <= LastID
        BY <1>5, <3>1 DEF HistoryInv, Active
      <3> QED
        BY <1>4, <3>1, <3>2
    <2> QED
      BY <2>1, <2>2
  <1>6. view'.lastEventId <= LastID'
    BY <1>1, <1>4
  <1>7. ShownUpTo(view.lastEventId)'
    <2>1. SUFFICES ASSUME NEW m \in DOMAIN history', IsLine(history'[m]),
                          history'[m].id <= view.lastEventId
                   PROVE  history'[m].line \in Lines
      BY <1>1 DEF ShownUpTo, IsLine
    <2>2. history'[m] # e
      BY <1>4, <2>1
    <2>3. PICK k \in DOMAIN history : history'[m] = history[k]
      BY <1>3, <2>2 DEF Grows
    <2> QED
      BY <2>1, <2>3 DEF HistoryInv, ShownUpTo
  <1>8. ASSUME NEW n \in printed'
        PROVE  n \in Lines' \/ Remembers(n)'
    <2>1. CASE n \notin printed
      <3>1. n = e.line /\ e.line # NoLine
        BY <1>1, <1>8, <2>1
      <3>2. Brings(e, n)
        BY <1>1, <3>1 DEF Brings, IsLine, LogEvent
      <3>3. PICK m \in DOMAIN history' : history'[m] = e
        BY <1>3 DEF Grows
      <3> QED
        BY <3>2, <3>3 DEF Remembers
    <2>2. CASE n \in printed
      <3>1. n \in Lines \/ Remembers(n)
        BY <2>2 DEF HistoryInv
      <3>2. CASE Remembers(n)
        <4>1. PICK k \in DOMAIN history : Brings(history[k], n)
          BY <3>2 DEF Remembers
        <4>2. \/ history[k].id <= view.lastEventId
              \/ \E m \in DOMAIN history' : history'[m] = history[k]
          BY <1>3, <4>1 DEF Grows, Brings
        <4>3. CASE history[k].id <= view.lastEventId
          BY <1>1, <4>1, <4>3 DEF HistoryInv, ShownUpTo, Brings
        <4> QED
          BY <4>1, <4>2, <4>3 DEF Remembers
      <3> QED
        BY <1>1, <3>1, <3>2
    <2> QED
      BY <2>1, <2>2
  <1>9. \A m, n \in DOMAIN history' : m < n => history'[m].id < history'[n].id
    BY <1>3 DEF Grows
  <1> QED
    BY <1>1, <1>3, <1>5, <1>6, <1>7, <1>8, <1>9 DEF HistoryInv

\* Only the written event is new in the history.
LEMMA OldEntries ==
  ASSUME NEW e, Grows(e), NEW m \in DOMAIN history', NEW id \in Nat, id <= LastID,
         history'[m].id <= id
  PROVE  \E k \in DOMAIN history : history'[m] = history[k]
  BY DEF Grows

\* What another handler writes does not reach the view, and leaves its own behind.
LEMMA OthersKeep ==
  ASSUME LogTypes, HistoryInv, NEW v \in Conns, ConnInv(v), conn'[v] = conn[v],
         NEW e, Grows(e), UNCHANGED <<view, shown, logged>>, printed \in SUBSET printed'
  PROVE  ConnInv(v)'
  <1>1. Lines' = Lines
    BY DEF Lines
  <1>2. \A k, n : BroughtBy(v, k, n)' <=> BroughtBy(v, k, n)
    BY <1>1 DEF BroughtBy
  <1>3. \A n : Brought(v, n)' <=> Brought(v, n)
    BY <1>1 DEF Brought, BroughtBy
  <1>4. /\ conn[v] \in Handler /\ conn[v].out \in Seq(LogEvent) /\ conn[v].resume \in Nat
        /\ conn[v].nextID \in Nat
    BY DEF LogTypes, Handler
  <1>5. LastID \in Nat /\ LastID' \in Nat /\ LastID < LastID'
    BY DEF Grows
  <1>6. ASSUME NEW j \in DOMAIN conn[v].out
        PROVE  /\ conn[v].out[j].id <= LastID'
               /\ conn[v].out[j].kind # "close" => BroughtUpTo(v, conn[v].out[j].id, j)'
    <2>1. conn[v].out[j].id \in Nat /\ conn[v].out[j].id <= LastID
      BY <1>4 DEF ConnInv, InOrder, LogEvent
    <2>2. conn[v].out[j].kind # "close" => BroughtUpTo(v, conn[v].out[j].id, j)
      BY DEF ConnInv, InOrder
    <2>3. BroughtUpTo(v, conn[v].out[j].id, j) => BroughtUpTo(v, conn[v].out[j].id, j)'
      <3>1. SUFFICES ASSUME BroughtUpTo(v, conn[v].out[j].id, j), NEW m \in DOMAIN history',
                            IsLine(history'[m]), history'[m].id <= conn[v].out[j].id,
                            NEW n, n = history'[m].line
                     PROVE  BroughtBy(v, j, n)'
        BY DEF BroughtUpTo, IsLine, BroughtBy
      <3>2. PICK k \in DOMAIN history : history'[m] = history[k]
        BY <2>1, <3>1, OldEntries
      <3>3. BroughtBy(v, j, n)
        BY <3>1, <3>2 DEF BroughtUpTo
      <3> QED
        BY <1>2, <3>3
    <2> QED
      BY <1>5, <2>1, <2>2, <2>3
  <1>7. InOrder(v)'
    BY <1>6 DEF InOrder
  <1>8. conn[v].at = "started" => (conn[v].resume <= LastID' /\ ShownUpTo(conn[v].resume)')
    <2>1. SUFFICES ASSUME conn[v].at = "started"
                   PROVE  conn[v].resume <= LastID' /\ ShownUpTo(conn[v].resume)'
      OBVIOUS
    <2>2. conn[v].resume <= LastID /\ ShownUpTo(conn[v].resume)
      BY <2>1 DEF ConnInv, ReplayInv
    <2>3. ASSUME NEW m \in DOMAIN history', IsLine(history'[m]), history'[m].id <= conn[v].resume
          PROVE  history'[m].line \in Lines
      <3>1. PICK k \in DOMAIN history : history'[m] = history[k]
        BY <1>4, <2>2, <2>3, OldEntries
      <3> QED
        BY <2>2, <2>3, <3>1 DEF ShownUpTo
    <2>4. ShownUpTo(conn[v].resume)'
      BY <1>1, <2>3 DEF ShownUpTo, IsLine
    <2> QED
      BY <1>4, <1>5, <2>2, <2>4
  <1>9. Active(v) => Behind(v)'
    <2>1. SUFFICES ASSUME Active(v) PROVE Behind(v)'
      OBVIOUS
    <2>2. conn[v].nextID <= LastID
      BY <2>1 DEF HistoryInv
    <2> QED
      BY <1>4, <1>5, <2>2 DEF Behind
  <1>10. ReplayInv(v)'
    BY <1>8, <1>9 DEF ReplayInv, Active
  <1>11. TailInv(v)'
    BY <1>3, <1>9 DEF ConnInv, TailInv, Active
  <1> QED
    BY <1>7, <1>10, <1>11 DEF ConnInv

\* What was on its way to the view still is when more is sent.
LEMMA SentBrings ==
  ASSUME LogTypes, NEW c \in Conns, NEW s, NEW e, Wrote(c, s, e), ~conn[c].gone
  PROVE  /\ conn[c].out \in Seq(LogEvent) /\ s \in Seq(LogEvent)
         /\ conn'[c].out \in Seq(LogEvent) /\ Len(conn'[c].out) = Len(conn[c].out) + Len(s)
         /\ \A j \in DOMAIN conn[c].out : conn'[c].out[j] = conn[c].out[j]
         /\ \A i \in DOMAIN s : conn'[c].out[Len(conn[c].out) + i] = s[i]
         /\ \A k, n : BroughtBy(c, k, n) => BroughtBy(c, k, n)'
         /\ \A k \in Nat : \A n : (Brought(c, n) /\ Len(conn[c].out) <= k) => BroughtBy(c, k, n)'
         /\ \A i \in DOMAIN s, k \in Nat : \A n :
                (Len(conn[c].out) + i <= k /\ Brings(s[i], n)) => BroughtBy(c, k, n)'
         /\ \A n : (Brought(c, n) \/ \E i \in DOMAIN s : Brings(s[i], n)) => Brought(c, n)'
  <1> DEFINE out == conn[c].out
             out2 == conn'[c].out
  <1>1. out \in Seq(LogEvent) /\ s \in Seq(LogEvent) /\ out2 = out \o s /\ shown' = shown
    <2>1. s \in Seq(LogEvent) /\ out2 = Sent(c, s) /\ shown' = shown
      BY DEF Wrote, SameRequest
    <2> QED
      BY <2>1, SentIsOut DEF LogTypes, Handler
  <1>2. Lines' = Lines
    BY <1>1 DEF Lines
  <1> HIDE DEF out, out2
  <1>3. /\ out2 \in Seq(LogEvent) /\ Len(out2) = Len(out) + Len(s)
        /\ Len(out) \in Nat /\ Len(s) \in Nat
        /\ DOMAIN out = 1..Len(out) /\ DOMAIN s = 1..Len(s) /\ DOMAIN out2 = 1..Len(out2)
    BY <1>1
  <1>4. \A j \in DOMAIN out : j \in DOMAIN out2 /\ out2[j] = out[j]
    BY <1>1, <1>3
  <1>5. \A i \in DOMAIN s : Len(out) + i \in DOMAIN out2 /\ out2[Len(out) + i] = s[i]
    <2>1. \A i \in 1..Len(s) : (out \o s)[Len(out) + i] = s[i]
      BY <1>1
    <2>2. \A i \in 1..Len(s) : Len(out) + i \in 1..Len(out2)
      BY <1>3
    <2> QED
      BY <1>1, <1>3, <2>1, <2>2
  <1>6. \A k, n : BroughtBy(c, k, n) <=> (n \in Lines \/ \E i \in DOMAIN out : i <= k /\ Brings(out[i], n))
    BY DEF BroughtBy, out
  <1>7. \A k, n : BroughtBy(c, k, n)' <=> (n \in Lines \/ \E i \in DOMAIN out2 : i <= k /\ Brings(out2[i], n))
    BY <1>2 DEF BroughtBy, out2, Brings, IsLine
  <1>8. \A n : Brought(c, n) <=> BroughtBy(c, Len(out), n)
    BY DEF Brought, out
  <1>9. \A n : Brought(c, n)' <=>
               (n \in Lines \/ \E i \in DOMAIN out2 : i <= Len(out2) /\ Brings(out2[i], n))
    BY <1>2 DEF Brought, BroughtBy, out2, Brings, IsLine
  <1>10. \A k, n : BroughtBy(c, k, n) => BroughtBy(c, k, n)'
    BY <1>4, <1>6, <1>7
  <1>11. ASSUME NEW n, Brought(c, n), NEW k \in Nat, Len(out) <= k
         PROVE  BroughtBy(c, k, n)'
    <2>1. CASE n \in Lines
      BY <1>7, <2>1
    <2>2. CASE n \notin Lines
      <3>1. PICK j \in DOMAIN out : j <= Len(out) /\ Brings(out[j], n)
        BY <1>6, <1>8, <1>11, <2>2
      <3>2. j \in DOMAIN out2 /\ out2[j] = out[j] /\ j <= k
        BY <1>3, <1>4, <1>11, <3>1
      <3> QED
        BY <1>7, <3>1, <3>2
    <2> QED
      BY <2>1, <2>2
  <1>12. ASSUME NEW i \in DOMAIN s, NEW k \in Nat, NEW n, Len(out) + i <= k, Brings(s[i], n)
         PROVE  BroughtBy(c, k, n)'
    <2>1. Len(out) + i \in DOMAIN out2 /\ out2[Len(out) + i] = s[i]
      BY <1>5
    <2> QED
      BY <1>7, <1>12, <2>1
  <1>13. ASSUME NEW n, Brought(c, n) \/ \E i \in DOMAIN s : Brings(s[i], n)
         PROVE  Brought(c, n)'
    <2>1. CASE Brought(c, n)
      <3>1. CASE n \in Lines
        BY <1>9, <3>1
      <3>2. CASE n \notin Lines
        <4>1. PICK j \in DOMAIN out : j <= Len(out) /\ Brings(out[j], n)
          BY <1>6, <1>8, <2>1, <3>2
        <4>2. j \in DOMAIN out2 /\ out2[j] = out[j] /\ j <= Len(out2)
          BY <1>3, <1>4, <4>1
        <4> QED
          BY <1>9, <4>1, <4>2
      <3> QED
        BY <3>1, <3>2
    <2>2. CASE \E i \in DOMAIN s : Brings(s[i], n)
      <3>1. PICK i \in DOMAIN s : Brings(s[i], n)
        BY <2>2
      <3>2. Len(out) + i \in DOMAIN out2 /\ out2[Len(out) + i] = s[i] /\ Len(out) + i <= Len(out2)
        BY <1>3, <1>5
      <3> QED
        BY <1>9, <3>1, <3>2
    <2> QED
      BY <1>13, <2>1, <2>2
  <1>14. \A k \in Nat : \A n : (Brought(c, n) /\ Len(out) <= k) => BroughtBy(c, k, n)'
    BY <1>11
  <1>15. \A i \in DOMAIN s, k \in Nat : \A n :
             (Len(out) + i <= k /\ Brings(s[i], n)) => BroughtBy(c, k, n)'
    BY <1>12
  <1>16. \A n : (Brought(c, n) \/ \E i \in DOMAIN s : Brings(s[i], n)) => Brought(c, n)'
    BY <1>13
  <1> QED
    BY <1>1, <1>3, <1>4, <1>5, <1>10, <1>14, <1>15, <1>16 DEF out, out2

-----------------------------------------------------------------------------
(* the writes of the view's own handler                                    *)

\* Every event that is sent comes after the lines up to its id.
LEMMA OwnInOrder ==
  ASSUME LogTypes, NEW c \in Conns, InOrder(c), NEW s, NEW e, Wrote(c, s, e), Grows(e),
         ~conn[c].gone,
         \A i \in DOMAIN s, k \in Nat :
             k = Len(conn[c].out) + i =>
                 /\ s[i].id <= e.id
                 /\ s[i].kind # "close" =>
                        \A m \in DOMAIN history' : \A n :
                            (IsLine(history'[m]) /\ history'[m].id <= s[i].id /\ n = history'[m].line)
                                => BroughtBy(c, k, n)'
  PROVE  InOrder(c)'
  <1> DEFINE out == conn[c].out
             out2 == conn'[c].out
  <1>1. /\ out \in Seq(LogEvent) /\ out2 \in Seq(LogEvent) /\ s \in Seq(LogEvent)
        /\ Len(out2) = Len(out) + Len(s)
        /\ \A j \in DOMAIN out : out2[j] = out[j]
        /\ \A i \in DOMAIN s : out2[Len(out) + i] = s[i]
    BY SentBrings
  <1>2. \A k, n : BroughtBy(c, k, n) => BroughtBy(c, k, n)'
    BY SentBrings
  <1>3. LastID \in Nat /\ LastID' = e.id /\ LastID < e.id /\ e.id \in Nat
    BY DEF Grows
  <1>4. SUFFICES ASSUME NEW j \in DOMAIN out2
                 PROVE  /\ out2[j].id <= LastID'
                        /\ out2[j].kind # "close" =>
                               \A m \in DOMAIN history' : \A n :
                                   (/\ IsLine(history'[m]) /\ history'[m].id <= out2[j].id
                                    /\ n = history'[m].line) => BroughtBy(c, j, n)'
    BY DEF InOrder, BroughtUpTo, BroughtBy, IsLine
  <1>5. /\ Len(out) \in Nat /\ Len(s) \in Nat /\ j \in Nat /\ j \in 1 .. (Len(out) + Len(s))
        /\ DOMAIN out = 1..Len(out) /\ DOMAIN s = 1..Len(s)
    BY <1>1
  <1>6. CASE j <= Len(out)
    <2>1. j \in DOMAIN out /\ out2[j] = out[j]
      BY <1>1, <1>5, <1>6
    <2>2. out[j].id <= LastID /\ out[j].id \in Nat
      BY <1>1, <2>1 DEF InOrder, LogEvent
    <2>3. ASSUME out[j].kind # "close", NEW m \in DOMAIN history', NEW n, IsLine(history'[m]),
                 history'[m].id <= out[j].id, n = history'[m].line
          PROVE  BroughtBy(c, j, n)'
      <3>1. PICK k \in DOMAIN history : history'[m] = history[k]
        BY <2>2, <2>3, OldEntries
      <3>2. BroughtUpTo(c, out[j].id, j)
        BY <2>1, <2>3 DEF InOrder
      <3>3. BroughtBy(c, j, n)
        BY <2>3, <3>1, <3>2 DEF BroughtUpTo
      <3> QED
        BY <1>2, <3>3
    <2> QED
      BY <1>3, <2>1, <2>2, <2>3
  <1>7. CASE ~(j <= Len(out))
    <2>1. PICK i \in DOMAIN s : j = Len(out) + i
      <3>1. j - Len(out) \in 1..Len(s) /\ j = Len(out) + (j - Len(out))
        BY <1>5, <1>7
      <3> QED
        BY <1>5, <3>1
    <2>2. out2[j] = s[i]
      BY <1>1, <2>1
    <2> QED
      BY <1>3, <1>5, <2>1, <2>2
  <1> QED
    BY <1>6, <1>7

\* An event that is appended when everything else is brought.
LEMMA AppendsInOrder ==
  ASSUME LogTypes, NEW c \in Conns, InOrder(c), NEW e, Wrote(c, <<e>>, e), Grows(e),
         ~conn[c].gone, AllBrought(c) \/ e.kind = "close"
  PROVE  /\ InOrder(c)'
         /\ e.kind # "close" => AllBrought(c)'
  <1>1. /\ \A k \in Nat : \A n : (Brought(c, n) /\ Len(conn[c].out) <= k) => BroughtBy(c, k, n)'
        /\ \A i \in DOMAIN <<e>>, k \in Nat : \A n :
               (Len(conn[c].out) + i <= k /\ Brings(<<e>>[i], n)) => BroughtBy(c, k, n)'
        /\ \A n : (Brought(c, n) \/ \E i \in DOMAIN <<e>> : Brings(<<e>>[i], n)) => Brought(c, n)'
        /\ conn[c].out \in Seq(LogEvent)
    BY SentBrings
  <1>2. 1 \in DOMAIN <<e>> /\ <<e>>[1] = e /\ \A i \in DOMAIN <<e>> : i = 1
    OBVIOUS
  <1>3. Len(conn[c].out) \in Nat
    BY <1>1
  <1>4. ASSUME e.kind # "close", NEW m \in DOMAIN history', IsLine(history'[m]),
               NEW n, n = history'[m].line
        PROVE  /\ \A k \in Nat : k = Len(conn[c].out) + 1 => BroughtBy(c, k, n)'
               /\ Brought(c, n)'
    <2>1. CASE history'[m] = e
      <3>1. Brings(<<e>>[1], n)
        BY <1>2, <1>4, <2>1 DEF Brings
      <3> QED
        BY <1>1, <1>2, <1>3, <3>1
    <2>2. CASE history'[m] # e
      <3>1. PICK k \in DOMAIN history : history'[m] = history[k]
        BY <2>2 DEF Grows
      <3>2. Brought(c, n)
        BY <1>4, <3>1 DEF AllBrought
      <3> QED
        BY <1>1, <1>3, <3>2
    <2> QED
      BY <2>1, <2>2
  <1>5. e.id <= e.id
    BY DEF Grows
  <1>6. ASSUME NEW i \in DOMAIN <<e>>, NEW k \in Nat, k = Len(conn[c].out) + i
        PROVE  /\ <<e>>[i].id <= e.id
               /\ <<e>>[i].kind # "close" =>
                      \A m \in DOMAIN history' : \A n :
                          (IsLine(history'[m]) /\ history'[m].id <= <<e>>[i].id /\ n = history'[m].line)
                              => BroughtBy(c, k, n)'
    BY <1>2, <1>4, <1>5, <1>6
  <1>7. InOrder(c)'
    <2> DEFINE s == <<e>>
    <2>1. /\ Wrote(c, s, e)
          /\ \A i \in DOMAIN s, k \in Nat :
                k = Len(conn[c].out) + i =>
                    /\ s[i].id <= e.id
                    /\ s[i].kind # "close" =>
                           \A m \in DOMAIN history' : \A n :
                               (IsLine(history'[m]) /\ history'[m].id <= s[i].id /\ n = history'[m].line)
                                   => BroughtBy(c, k, n)'
      BY <1>6
    <2> HIDE DEF s
    <2> QED
      BY <2>1, OwnInOrder
  <1>8. e.kind # "close" => AllBrought(c)'
    BY <1>4 DEF AllBrought, Brought, BroughtBy, IsLine
  <1> QED
    BY <1>7, <1>8

\* A handler whose next event has the largest id has brought the history.
LEMMA NotBehind ==
  ASSUME LogTypes, NEW c \in Conns, ReplayInv(c), conn[c].at = "live", LastID \in Nat,
         LastID < conn[c].nextID + 1
  PROVE  ~Behind(c) /\ AllBrought(c)
  <1>1. conn[c].nextID \in Nat
    BY DEF LogTypes, Handler
  <1>2. ~Behind(c)
    BY <1>1 DEF Behind
  <1> QED
    BY <1>2 DEF ReplayInv

\* A started handler that does not overtake the replay has brought the history.
LEMMA NotAhead ==
  ASSUME LogTypes, NEW c \in Conns, ReplayInv(c), TailInv(c), view.conn = c,
         conn[c].at = "started", conn[c].first # 0, ~Overtakes(c)
  PROVE  AllBrought(c)
  <1>1. SUFFICES ASSUME NEW m \in DOMAIN history, IsLine(history[m]), NEW n, n = history[m].line
                 PROVE  Brought(c, n)
    BY DEF AllBrought
  <1>2. history[m] \in LogEvent /\ history[m].id \in Nat /\ conn[c].resume \in Nat
    BY DEF LogTypes, Handler, LogEvent
  <1>3. CASE history[m].id <= conn[c].resume
    BY <1>1, <1>3 DEF ReplayInv, ShownUpTo, Brought, BroughtBy
  <1>4. CASE ~(history[m].id <= conn[c].resume)
    <2>1. history[m].id > conn[c].resume
      BY <1>2, <1>4
    <2>2. history[m] \in Range(history)
      BY DEF Range
    <2>3. n \in conn[c].first .. (conn[c].next - 1)
      BY <1>1, <2>1, <2>2 DEF Overtakes, IsLine
    <2> QED
      BY <2>3 DEF TailInv, Active
  <1> QED
    BY <1>3, <1>4

-----------------------------------------------------------------------------
(* the node's steps                                                        *)

\* What a handler that the view reads may rely on, when its write costs nothing.
Undisturbed(c, event) ==
    /\ StreamInv /\ HistoryInv /\ ConnInv(c) /\ view.at = "read" /\ view.conn = c
    /\ ~conn[c].gone /\ ~lapsed' /\ Grows(event) /\ HistoryInv'

\* A write that keeps what the view's own handler has brought keeps the invariant.
LEMMA WriteKeeps ==
  ASSUME LogInv, NEW c \in Conns, NEW s, NEW e, Wrote(c, s, e),
         Active(c)' => conn'[c].nextID = e.id,
         Undisturbed(c, e) => ConnInv(c)'
  PROVE  LogInv'
  <1>1. StreamInv /\ LogTypes /\ Attached
    BY DEF LogInv, StreamInv
  <1>2. /\ LogTypes' /\ OnlyAt(c) /\ SameRequest(c) /\ view' = view /\ shown' = shown
        /\ logged' = logged /\ printed \in SUBSET printed'
    BY DEF Wrote, SameRequest, Keeps
  <1>3. StreamInv'
    BY <1>1, <1>2, NodeKeepsStreams
  <1>4. GapInv'
    <2>1. SUFFICES ASSUME Watching'
                   PROVE  HistoryInv' /\ (view.at = "read" => ConnInv(view.conn)')
      BY <1>2 DEF GapInv
    <2>2. ~lapsed' /\ Watching
      BY <1>2, <2>1 DEF Watching, Wrote, Keeps
    <2>3. HistoryInv /\ (view.at = "read" => ConnInv(view.conn))
      BY <2>2 DEF LogInv, GapInv
    <2>4. Grows(e) /\ HistoryInv'
      BY <1>1, <2>2, <2>3, WriteKeepsHistory
    <2>5. ASSUME view.at = "read" PROVE ConnInv(view.conn)'
      <3>1. view.conn \in Conns /\ ~conn[view.conn].gone /\ ConnInv(view.conn)
        BY <1>1, <2>3, <2>5 DEF Attached
      <3>2. CASE view.conn = c
        <4>1. Undisturbed(c, e)
          BY <1>1, <2>2, <2>3, <2>4, <2>5, <3>1, <3>2 DEF Undisturbed
        <4>2. ConnInv(c)'
          BY <4>1
        <4> QED
          BY <1>2, <3>2, <4>2
      <3>3. CASE view.conn # c
        <4> DEFINE v == view.conn
        <4>1. v \in Conns /\ ConnInv(v) /\ conn'[v] = conn[v]
          BY <1>2, <3>1, <3>3 DEF OnlyAt
        <4>2. view'.conn = v
          BY <1>2
        <4> HIDE DEF v
        <4>3. \A w \in Conns : (w = v) => ConnInv(w)'
          BY <1>1, <1>2, <2>3, <2>4, <4>1, OthersKeep
        <4> QED
          BY <4>1, <4>2, <4>3 DEF v
      <3> QED
        BY <3>2, <3>3
    <2> QED
      BY <2>3, <2>4, <2>5
  <1> QED
    BY <1>3, <1>4 DEF LogInv

\* What the view's handler sends alone and remembers, it has brought.
LEMMA OwnEvent ==
  ASSUME NEW c \in Conns, NEW e, Wrote(c, <<e>>, e), Undisturbed(c, e), AllBrought(c),
         e.kind # "close", conn'[c].at = conn[c].at, conn'[c].resume = conn[c].resume,
         conn'[c].next = conn[c].next \/ (conn'[c].next = conn[c].next + 1 /\ Brings(e, conn[c].next)),
         conn[c].at = "live" => ~Behind(c)
  PROVE  ConnInv(c)'
  <1>1. /\ LogTypes /\ HistoryInv /\ InOrder(c) /\ ReplayInv(c) /\ TailInv(c) /\ view.conn = c
        /\ ~conn[c].gone /\ ~lapsed' /\ Grows(e)
    BY DEF Undisturbed, ConnInv, StreamInv
  <1>2. InOrder(c)' /\ AllBrought(c)'
    BY <1>1, AppendsInOrder
  <1>3. /\ conn[c].resume \in Nat /\ conn[c].first \in Nat /\ conn[c].next \in Nat
        /\ conn'[c].first = conn[c].first /\ Lines' = Lines /\ logged' = logged /\ view' = view
        /\ printed \in SUBSET printed' /\ conn'[c].first \in Nat /\ conn'[c].next \in Nat
    BY <1>1 DEF LogTypes, Handler, Wrote, SameRequest, Lines, Keeps
  <1>4. LastID \in Nat /\ LastID' \in Nat /\ LastID < LastID'
    BY <1>1 DEF Grows
  <1>5. \A n : (Brought(c, n) \/ \E i \in DOMAIN <<e>> : Brings(<<e>>[i], n)) => Brought(c, n)'
    BY <1>1, SentBrings
  <1>6. \A n : (Brought(c, n) \/ Brings(e, n)) => Brought(c, n)'
    <2>1. 1 \in DOMAIN <<e>> /\ <<e>>[1] = e
      OBVIOUS
    <2> QED
      BY <1>5, <2>1
  <1>7. conn[c].at = "started" => (conn[c].resume <= LastID' /\ ShownUpTo(conn[c].resume)')
    <2>1. SUFFICES ASSUME conn[c].at = "started"
                   PROVE  conn[c].resume <= LastID' /\ ShownUpTo(conn[c].resume)'
      OBVIOUS
    <2>2. conn[c].resume <= LastID /\ ShownUpTo(conn[c].resume)
      BY <1>1, <2>1 DEF ReplayInv
    <2>3. ASSUME NEW m \in DOMAIN history', IsLine(history'[m]), history'[m].id <= conn[c].resume
          PROVE  history'[m].line \in Lines
      <3>1. PICK k \in DOMAIN history : history'[m] = history[k]
        BY <1>1, <1>3, <2>2, <2>3, OldEntries
      <3> QED
        BY <2>2, <2>3, <3>1 DEF ShownUpTo
    <2>4. \A x : x = conn[c].resume => ShownUpTo(x)'
      BY <1>3, <2>3 DEF ShownUpTo, IsLine
    <2> QED
      BY <1>3, <1>4, <2>2, <2>4
  <1>8. ReplayInv(c)'
    <2>1. conn'[c].at = "started" => (conn'[c].resume <= LastID' /\ ShownUpTo(conn[c].resume)')
      BY <1>7
    <2> QED
      BY <1>2, <2>1 DEF ReplayInv
  <1>9. ASSUME Active(c)', conn'[c].first # 0
        PROVE  /\ view.from > 0 /\ conn[c].first <= conn'[c].next
               /\ conn[c].first > 1 => conn[c].first <= logged
               /\ \A n \in conn[c].first .. (conn'[c].next - 1) : Brought(c, n)'
               /\ conn[c].at = "started" =>
                      \A n \in view.from .. (conn[c].first - 1) : n \in printed
               /\ conn[c].at = "live" =>
                      \A n \in view.from .. (conn[c].first - 1) : Brought(c, n)'
    <2>1. /\ view.from > 0 /\ conn[c].first <= conn[c].next
          /\ conn[c].first > 1 => conn[c].first <= logged
          /\ \A n \in conn[c].first .. (conn[c].next - 1) : Brought(c, n)
          /\ conn[c].at = "started" =>
                 \A n \in view.from .. (conn[c].first - 1) : n \in printed
          /\ conn[c].at = "live" =>
                 \A n \in view.from .. (conn[c].first - 1) : Brought(c, n)
      BY <1>1, <1>3, <1>9 DEF TailInv, Active
    <2>2. conn[c].first <= conn'[c].next
      BY <1>3, <2>1
    <2>3. ASSUME NEW n \in conn[c].first .. (conn'[c].next - 1)
          PROVE  Brought(c, n)'
      <3>1. CASE n \in conn[c].first .. (conn[c].next - 1)
        BY <1>6, <2>1, <3>1
      <3>2. CASE n \notin conn[c].first .. (conn[c].next - 1)
        <4>1. n = conn[c].next /\ Brings(e, conn[c].next)
          BY <1>3, <2>3, <3>2
        <4> QED
          BY <1>6, <4>1
      <3> QED
        BY <3>1, <3>2
    <2> QED
      BY <1>6, <2>1, <2>2, <2>3
  <1>10. TailInv(c)'
    BY <1>3, <1>9 DEF TailInv
  <1> QED
    BY <1>2, <1>8, <1>10 DEF ConnInv

\* A line from docker is brought, and is ahead of nothing that is not.
LEMMA DockerWritesKeeps ==
  ASSUME LogInv, NEW c \in Conns, DockerWrites(c)
  PROVE  LogInv'
  <1> DEFINE e == DockerEvent(c)
  <1>1. LogTypes
    BY DEF LogInv, StreamInv
  <1>2. /\ Wrote(c, <<e>>, e)
        /\ (~lapsed' => ~Overtakes(c))
        /\ Active(c) /\ conn[c].first # 0 /\ Brings(e, conn[c].next)
        /\ conn'[c].at = conn[c].at /\ conn'[c].resume = conn[c].resume
        /\ conn'[c].next = conn[c].next + 1 /\ conn'[c].nextID = e.id
    BY <1>1, DockerWritesFields
  <1>3. e.id = conn[c].nextID + 1
    BY DEF DockerEvent, Event
  <1> HIDE DEF e
  <1>4. e.kind # "close"
    BY <1>2 DEF Brings, IsLine
  <1>5. ASSUME Undisturbed(c, e)
        PROVE  ConnInv(c)'
    <2>1. /\ LogTypes /\ ReplayInv(c) /\ TailInv(c) /\ view.conn = c /\ ~lapsed'
          /\ LastID \in Nat /\ LastID < e.id
      BY <1>5 DEF Undisturbed, ConnInv, StreamInv, Grows
    <2>2. CASE conn[c].at = "started"
      <3>1. AllBrought(c)
        BY <1>2, <2>1, <2>2, NotAhead
      <3> QED
        BY <1>2, <1>4, <1>5, <2>2, <3>1, OwnEvent
    <2>3. CASE conn[c].at = "live"
      <3>1. ~Behind(c) /\ AllBrought(c)
        BY <1>3, <2>1, <2>3, NotBehind
      <3> QED
        BY <1>2, <1>4, <1>5, <3>1, OwnEvent
    <2> QED
      BY <1>2, <2>2, <2>3 DEF Active
  <1> QED
    BY <1>2, <1>5, WriteKeeps

\* A heartbeat brings nothing, and is sent when the history is brought.
LEMMA HeartbeatKeeps ==
  ASSUME LogInv, NEW c \in Conns, Heartbeat(c)
  PROVE  LogInv'
  <1> DEFINE e == HeartbeatEvent(c)
  <1>1. LogTypes
    BY DEF LogInv, StreamInv
  <1>2. /\ Wrote(c, <<e>>, e)
        /\ conn[c].at = "live" /\ conn'[c].at = "live" /\ conn'[c].resume = conn[c].resume
        /\ conn'[c].next = conn[c].next /\ conn'[c].nextID = e.id
    BY <1>1, HeartbeatFields
  <1>3. e.id = conn[c].nextID + 1 /\ e.kind # "close"
    BY DEF HeartbeatEvent, Event
  <1> HIDE DEF e
  <1>4. ASSUME Undisturbed(c, e)
        PROVE  ConnInv(c)'
    <2>1. LogTypes /\ ReplayInv(c) /\ LastID \in Nat /\ LastID < e.id
      BY <1>4 DEF Undisturbed, ConnInv, StreamInv, Grows
    <2>2. ~Behind(c) /\ AllBrought(c)
      BY <1>2, <1>3, <2>1, NotBehind
    <2> QED
      BY <1>2, <1>3, <1>4, <2>2, OwnEvent
  <1> QED
    BY <1>2, <1>4, WriteKeeps

\* The replay brings the history, behind what docker has already printed.
LEMMA ReplayKeeps ==
  ASSUME LogInv, NEW c \in Conns, Replay(c)
  PROVE  LogInv'
  <1> DEFINE e == ReadyEvent(c)
             r == conn[c].resume
             s == EventsAfter(r)
             all == Replayed(c)
             l == Len(conn[c].out)
  <1>1. LogTypes /\ history \in Seq(LogEvent)
    BY DEF LogInv, StreamInv, LogTypes
  <1>2. /\ Wrote(c, all, e) /\ e.kind = "ready"
        /\ conn[c].at = "started" /\ conn'[c].at = "live"
        /\ conn'[c].next = conn[c].next /\ conn'[c].nextID = e.id
    BY <1>1, ReplayFields
  <1>3. /\ s \in Seq(LogEvent)
        /\ \A k \in DOMAIN s : \E n \in DOMAIN history : s[k] = history[n]
        /\ \A n \in DOMAIN history : After(r, history[n]) => \E k \in DOMAIN s : s[k] = history[n]
        /\ (\A m, n \in DOMAIN history : m < n => history[m].id < history[n].id) =>
               \A k \in DOMAIN s, n \in DOMAIN history :
                   (After(r, history[n]) /\ history[n].id <= s[k].id) =>
                       \E i \in DOMAIN s : i <= k /\ s[i] = history[n]
    BY <1>1, ReplaySelects
  <1>4. all = Append(s, e)
    BY DEF Replayed
  <1> HIDE DEF e, s, all
  <1>5. ASSUME Undisturbed(c, e)
        PROVE  ConnInv(c)'
    <2>1. /\ HistoryInv /\ InOrder(c) /\ ReplayInv(c) /\ TailInv(c) /\ ~conn[c].gone
          /\ Grows(e) /\ HistoryInv'
      BY <1>5 DEF Undisturbed, ConnInv
    <2>2. /\ \A m, n \in DOMAIN history : m < n => history[m].id < history[n].id
          /\ ShownUpTo(r)
      BY <1>2, <2>1 DEF HistoryInv, ReplayInv
    <2>3. /\ conn[c].out \in Seq(LogEvent) /\ all \in Seq(LogEvent)
          /\ \A k \in Nat : \A n : (Brought(c, n) /\ l <= k) => BroughtBy(c, k, n)'
          /\ \A i \in DOMAIN all, k \in Nat : \A n :
                 (l + i <= k /\ Brings(all[i], n)) => BroughtBy(c, k, n)'
          /\ \A n : (Brought(c, n) \/ \E i \in DOMAIN all : Brings(all[i], n)) => Brought(c, n)'
      BY <1>1, <1>2, <2>1, SentBrings
    <2>4. l \in Nat /\ conn[c].resume \in Nat
      BY <1>1, <2>3 DEF LogTypes, Handler
    <2> HIDE DEF l, r
    <2>5. /\ Len(s) \in Nat /\ DOMAIN s = 1..Len(s) /\ DOMAIN all = 1 .. (Len(s) + 1)
          /\ all[Len(s) + 1] = e /\ \A k \in DOMAIN s : k \in DOMAIN all /\ all[k] = s[k]
      BY <1>3, <1>4
    <2>6. /\ LastID \in Nat /\ e.id \in Nat /\ LastID < e.id /\ LastID' = e.id
          /\ \A m \in DOMAIN history : history[m].id \in Nat /\ history[m].id <= LastID
      <3>1. \A m \in DOMAIN history : history[m].id <= LastID
        BY <1>1, <2>2, LastIDBounds
      <3>2. \A m \in DOMAIN history : history[m].id \in Nat
        BY <1>1 DEF LogEvent
      <3> QED
        BY <2>1, <3>1, <3>2 DEF Grows
    <2>7. ASSUME NEW m \in DOMAIN history, NEW n, Brings(history[m], n)
          PROVE  \/ n \in Lines
                 \/ After(r, history[m])
      <3>1. r \in Nat /\ history[m].id \in Nat
        BY <2>4, <2>6 DEF r
      <3> QED
        BY <2>2, <2>7, <3>1 DEF ShownUpTo, Brings, After
    <2>8. ASSUME NEW m \in DOMAIN history', NEW n, IsLine(history'[m]), n = history'[m].line
          PROVE  \E k \in DOMAIN history : history'[m] = history[k] /\ Brings(history[k], n)
      <3>1. history'[m] # e
        BY <1>2, <2>8 DEF IsLine
      <3>2. PICK k \in DOMAIN history : history'[m] = history[k]
        BY <2>1, <3>1 DEF Grows
      <3> QED
        BY <2>8, <3>2 DEF Brings
    <2>9. ASSUME NEW m \in DOMAIN history, NEW n, Brings(history[m], n)
          PROVE  Brought(c, n) \/ \E i \in DOMAIN s : Brings(all[i], n)
      <3>1. CASE n \in Lines
        BY <3>1 DEF Brought, BroughtBy
      <3>2. CASE n \notin Lines
        <4>1. PICK k \in DOMAIN s : s[k] = history[m]
          BY <1>3, <2>7, <2>9, <3>2
        <4> QED
          BY <2>5, <2>9, <4>1
      <3> QED
        BY <3>1, <3>2
    <2>10. AllBrought(c)'
      <3>1. ASSUME NEW m \in DOMAIN history', NEW n, IsLine(history'[m]), n = history'[m].line
            PROVE  Brought(c, n)'
        <4>1. PICK k \in DOMAIN history : Brings(history[k], n)
          BY <2>8, <3>1
        <4> QED
          BY <2>3, <2>5, <2>9, <4>1
      <3> QED
        BY <3>1 DEF AllBrought, Brought, BroughtBy, IsLine
    <2>11. ASSUME NEW i \in DOMAIN all, NEW k \in Nat, k = l + i
           PROVE  /\ all[i].id <= e.id
                  /\ \A m \in DOMAIN history' : \A n :
                         (IsLine(history'[m]) /\ history'[m].id <= all[i].id /\ n = history'[m].line)
                             => BroughtBy(c, k, n)'
      <3>1. CASE i = Len(s) + 1
        <4>1. all[i].id <= e.id
          BY <2>5, <2>6, <3>1
        <4>2. ASSUME NEW m \in DOMAIN history', NEW n, IsLine(history'[m]), n = history'[m].line
              PROVE  BroughtBy(c, k, n)'
          <5>1. PICK x \in DOMAIN history : Brings(history[x], n)
            BY <2>8, <4>2
          <5>2. CASE Brought(c, n)
            <6>1. l <= k
              BY <2>4, <2>5, <2>11, <3>1
            <6> QED
              BY <2>3, <5>2, <6>1
          <5>3. CASE \E y \in DOMAIN s : Brings(all[y], n)
            <6>1. PICK y \in DOMAIN s : Brings(all[y], n)
              BY <5>3
            <6>2. y \in DOMAIN all /\ l + y <= k
              BY <2>4, <2>5, <2>11, <3>1
            <6> QED
              BY <2>3, <6>1, <6>2
          <5> QED
            BY <2>9, <5>1, <5>2, <5>3
        <4> QED
          BY <4>1, <4>2
      <3>2. CASE i # Len(s) + 1
        <4>1. i \in DOMAIN s /\ all[i] = s[i]
          BY <2>5, <3>2
        <4>2. PICK x \in DOMAIN history : s[i] = history[x]
          BY <1>3, <4>1
        <4>3. all[i].id <= e.id
          BY <2>6, <4>1, <4>2
        <4>4. ASSUME NEW m \in DOMAIN history', NEW n, IsLine(history'[m]),
                     history'[m].id <= all[i].id, n = history'[m].line
              PROVE  BroughtBy(c, k, n)'
          <5>1. PICK x2 \in DOMAIN history : history'[m] = history[x2] /\ Brings(history[x2], n)
            BY <2>8, <4>4
          <5>2. CASE n \in Lines
            <6>1. Brought(c, n) /\ l <= k
              BY <2>4, <2>5, <2>11, <5>2 DEF Brought, BroughtBy
            <6> QED
              BY <2>3, <6>1
          <5>3. CASE n \notin Lines
            <6>1. After(r, history[x2]) /\ history[x2].id <= s[i].id
              BY <2>7, <4>1, <4>4, <5>1, <5>3
            <6>2. PICK y \in DOMAIN s : y <= i /\ s[y] = history[x2]
              BY <1>3, <2>2, <4>1, <6>1
            <6>3. y \in DOMAIN all /\ Brings(all[y], n) /\ l + y <= k
              <7>1. y \in DOMAIN all /\ Brings(all[y], n)
                BY <2>5, <5>1, <6>2
              <7>2. l + y <= k
                BY <2>4, <2>5, <2>11, <6>2
              <7> QED
                BY <7>1, <7>2
            <6> QED
              BY <2>3, <6>3
          <5> QED
            BY <5>2, <5>3
        <4> QED
          BY <4>3, <4>4
      <3> QED
        BY <3>1, <3>2
    <2>12. InOrder(c)'
      <3>1. \A i \in DOMAIN all, k \in Nat :
               k = Len(conn[c].out) + i =>
                   /\ all[i].id <= e.id
                   /\ all[i].kind # "close" =>
                          \A m \in DOMAIN history' : \A n :
                              (/\ IsLine(history'[m]) /\ history'[m].id <= all[i].id
                               /\ n = history'[m].line) => BroughtBy(c, k, n)'
        BY <2>11 DEF l
      <3> QED
        BY <1>1, <1>2, <2>1, <3>1, OwnInOrder
    <2>13. ReplayInv(c)'
      BY <1>2, <2>10 DEF ReplayInv
    <2>14. TailInv(c)'
      <3>1. /\ conn'[c].first = conn[c].first /\ view' = view /\ logged' = logged
            /\ printed \in SUBSET printed'
        BY <1>2 DEF Wrote, SameRequest, Keeps
      <3>2. SUFFICES ASSUME conn[c].first # 0
                     PROVE  /\ view.from > 0 /\ conn[c].first <= conn[c].next
                            /\ conn[c].first > 1 => conn[c].first <= logged
                            /\ \A n \in conn[c].first .. (conn[c].next - 1) : Brought(c, n)'
                            /\ \A n \in view.from .. (conn[c].first - 1) : Brought(c, n)'
        BY <1>2, <3>1 DEF TailInv
      <3>3. /\ view.from > 0 /\ conn[c].first <= conn[c].next
            /\ conn[c].first > 1 => conn[c].first <= logged
            /\ \A n \in conn[c].first .. (conn[c].next - 1) : Brought(c, n)
            /\ \A n \in view.from .. (conn[c].first - 1) : n \in printed
        BY <1>2, <2>1, <3>2 DEF TailInv, Active
      <3>4. ASSUME NEW n, n \in printed
            PROVE  Brought(c, n)'
        <4>1. n \in Lines \/ Remembers(n)
          BY <2>1, <3>4 DEF HistoryInv
        <4>2. CASE n \in Lines
          <5>1. Brought(c, n)
            BY <4>2 DEF Brought, BroughtBy
          <5> QED
            BY <2>3, <5>1
        <4>3. CASE Remembers(n)
          <5>1. PICK m \in DOMAIN history : Brings(history[m], n)
            BY <4>3 DEF Remembers
          <5> QED
            BY <2>3, <2>5, <2>9, <5>1
        <4> QED
          BY <4>1, <4>2, <4>3
      <3> QED
        BY <2>3, <3>3, <3>4
    <2> QED
      BY <2>12, <2>13, <2>14 DEF ConnInv
  <1> QED
    BY <1>2, <1>5, WriteKeeps

\* The event close ends the handler; what it leaves out is not waited for.
LEMMA CloseKeeps ==
  ASSUME LogInv, NEW c \in Conns, Close(c)
  PROVE  LogInv'
  <1> DEFINE e == CloseEvent(c)
  <1>1. LogTypes
    BY DEF LogInv, StreamInv
  <1>2. Wrote(c, <<e>>, e) /\ e.kind = "close" /\ conn'[c].at = "returned"
    BY <1>1, CloseFields
  <1> HIDE DEF e
  <1>3. ASSUME Undisturbed(c, e)
        PROVE  ConnInv(c)'
    <2>1. InOrder(c) /\ Grows(e) /\ ~conn[c].gone
      BY <1>3 DEF Undisturbed, ConnInv
    <2>2. InOrder(c)'
      BY <1>1, <1>2, <2>1, AppendsInOrder
    <2> QED
      BY <1>2, <2>2 DEF ConnInv, ReplayInv, TailInv, Active
  <1>4. ~(Active(c)')
    BY <1>2 DEF Active
  <1> QED
    BY <1>2, <1>3, <1>4, WriteKeeps

-----------------------------------------------------------------------------
(* steps that remember nothing                                             *)

\* A step that numbers and shows nothing keeps the history.
LEMMA HistoryKept ==
  ASSUME HistoryInv, UNCHANGED <<history, printed, shown>>, view'.lastEventId = view.lastEventId,
         \A d \in Conns : Active(d)' => (Active(d) /\ conn'[d].nextID = conn[d].nextID)
  PROVE  HistoryInv'
  <1>1. Lines' = Lines /\ LastID' = LastID
    BY DEF Lines, LastID
  <1>2. \A n : Remembers(n)' <=> Remembers(n)
    BY DEF Remembers, Brings, IsLine
  <1>3. ShownUpTo(view.lastEventId)'
    BY <1>1 DEF HistoryInv, ShownUpTo, IsLine
  <1>4. \A n \in printed' : n \in Lines' \/ Remembers(n)'
    BY <1>1, <1>2 DEF HistoryInv
  <1> QED
    BY <1>1, <1>3, <1>4 DEF HistoryInv

\* What is on the way to the view stays in order as long as nothing is sent.
LEMMA InOrderKept ==
  ASSUME NEW v \in Conns, InOrder(v), UNCHANGED <<history, shown>>, conn'[v].out = conn[v].out
  PROVE  InOrder(v)'
  <1>1. Lines' = Lines /\ LastID' = LastID
    BY DEF Lines, LastID
  <1>2. \A id, k : BroughtUpTo(v, id, k)' <=> BroughtUpTo(v, id, k)
    BY <1>1 DEF BroughtUpTo, BroughtBy, IsLine
  <1>3. \A j \in DOMAIN conn[v].out :
           /\ conn[v].out[j].id <= LastID
           /\ conn[v].out[j].kind # "close" => BroughtUpTo(v, conn[v].out[j].id, j)
    BY DEF InOrder
  <1>4. \A j \in DOMAIN conn[v].out : \A id :
           (id = conn[v].out[j].id /\ conn[v].out[j].kind # "close") => BroughtUpTo(v, id, j)'
    BY <1>2, <1>3
  <1>5. \A j \in DOMAIN conn[v].out :
           conn[v].out[j].kind # "close" => BroughtUpTo(v, conn[v].out[j].id, j)'
    BY <1>1, <1>4 DEF BroughtUpTo, BroughtBy, IsLine
  <1> QED
    BY <1>1, <1>3, <1>5 DEF InOrder

\* A step of others, or the return of the handler, keeps what it has brought.
LEMMA ConnKept ==
  ASSUME NEW v \in Conns, ConnInv(v), UNCHANGED <<history, shown, printed>>, view'.from = view.from,
         logged \in Nat, logged' \in {logged, logged + 1}, conn[v].first \in Nat,
         \/ conn'[v] = conn[v]
         \/ conn'[v].at = "returned" /\ conn'[v].out = conn[v].out
  PROVE  ConnInv(v)'
  <1>1. Lines' = Lines /\ LastID' = LastID /\ conn'[v].out = conn[v].out
    BY DEF Lines, LastID
  <1>2. \A n : Brought(v, n)' <=> Brought(v, n)
    BY <1>1 DEF Brought, BroughtBy
  <1>3. AllBrought(v)' <=> AllBrought(v)
    BY <1>1 DEF AllBrought, Brought, BroughtBy, IsLine
  <1>4. InOrder(v)'
    BY <1>1, InOrderKept DEF ConnInv
  <1>5. CASE conn'[v].at = "returned"
    BY <1>4, <1>5 DEF ConnInv, ReplayInv, TailInv, Active
  <1>6. CASE conn'[v] = conn[v]
    <2>1. ReplayInv(v)'
      <3>1. ReplayInv(v)
        BY DEF ConnInv
      <3>2. conn[v].at = "started" => ShownUpTo(conn[v].resume)'
        BY <1>1, <1>6, <3>1 DEF ReplayInv, ShownUpTo, IsLine
      <3>3. Behind(v)' <=> Behind(v)
        BY <1>1, <1>6 DEF Behind
      <3> QED
        BY <1>1, <1>3, <1>6, <3>1, <3>2, <3>3 DEF ReplayInv
    <2>2. TailInv(v)'
      <3>1. TailInv(v)
        BY DEF ConnInv
      <3>2. Behind(v)' <=> Behind(v)
        BY <1>1, <1>6 DEF Behind
      <3>3. conn[v].first <= logged => conn[v].first <= logged'
        OBVIOUS
      <3> QED
        BY <1>2, <1>6, <3>1, <3>2, <3>3 DEF TailInv, Active
    <2> QED
      BY <1>4, <2>1, <2>2 DEF ConnInv
  <1> QED
    BY <1>5, <1>6

\* A write that fails ends the handler.
LEMMA WriteFailsKeeps ==
  ASSUME LogInv, NEW c \in Conns, WriteFails(c)
  PROVE  LogInv'
  <1>1. /\ StreamInv /\ LogTypes /\ Attached /\ conn \in [Conns -> Handler] /\ logged \in Nat
    BY DEF LogInv, StreamInv, LogTypes
  <1>2. /\ conn' = [conn EXCEPT ![c].at = "returned"]
        /\ breaks' \in Nat /\ UNCHANGED <<logged, history, view, shown, printed, lapsed>>
    BY <1>1 DEF WriteFails, LogTypes
  <1>3. /\ conn'[c] = [conn[c] EXCEPT !.at = "returned"]
        /\ OnlyAt(c) /\ conn' \in [Conns -> Handler]
    <2> DEFINE h == [conn[c] EXCEPT !.at = "returned"]
    <2>1. h \in Handler
      BY <1>1 DEF Handler
    <2>2. conn' = [conn EXCEPT ![c] = h]
      BY <1>1, <1>2 DEF Handler
    <2> HIDE DEF h
    <2>3. conn'[c] = h /\ OnlyAt(c) /\ conn' \in [Conns -> Handler]
      BY <1>1, <2>1, <2>2 DEF OnlyAt
    <2> QED
      BY <2>3 DEF h
  <1>4. LogTypes'
    BY <1>1, <1>2, <1>3 DEF LogTypes
  <1>5. SameRequest(c) /\ conn'[c].at = "returned" /\ conn'[c].out = conn[c].out
    BY <1>1, <1>2, <1>3 DEF Handler, SameRequest
  <1>6. StreamInv'
    BY <1>1, <1>3, <1>4, <1>5, NodeKeepsStreams
  <1>7. GapInv'
    <2>1. SUFFICES ASSUME Watching
                   PROVE  HistoryInv' /\ (view.at = "read" => ConnInv(view.conn)')
      BY <1>2 DEF GapInv, Watching
    <2>2. HistoryInv /\ (view.at = "read" => ConnInv(view.conn))
      BY <2>1 DEF LogInv, GapInv
    <2>3. \A d \in Conns : Active(d)' => (Active(d) /\ conn'[d].nextID = conn[d].nextID)
      BY <1>3, <1>5 DEF OnlyAt, Active
    <2>4. HistoryInv'
      BY <1>2, <2>2, <2>3, HistoryKept
    <2>5. ASSUME view.at = "read" PROVE ConnInv(view.conn)'
      <3> DEFINE v == view.conn
      <3>1. v \in Conns /\ ConnInv(v) /\ conn[v].first \in Nat /\ view'.conn = v
        BY <1>1, <1>2, <2>2, <2>5 DEF Attached, Handler
      <3>2. \/ conn'[v] = conn[v]
            \/ conn'[v].at = "returned" /\ conn'[v].out = conn[v].out
        BY <1>3, <1>5, <3>1 DEF OnlyAt
      <3> HIDE DEF v
      <3>3. \A w \in Conns : w = v => ConnInv(w)'
        BY <1>1, <1>2, <3>1, <3>2, ConnKept
      <3> QED
        BY <3>1, <3>3 DEF v
    <2> QED
      BY <2>4, <2>5
  <1> QED
    BY <1>6, <1>7 DEF LogInv

\* Docker opens the log; lines before its tail have been printed or cost a lapse.
LEMMA AttachKeeps ==
  ASSUME LogInv, NEW c \in Conns, Attach(c)
  PROVE  LogInv'
  <1>1. /\ StreamInv /\ LogTypes /\ Attached /\ conn \in [Conns -> Handler] /\ logged \in Nat
        /\ view \in LogView /\ view.from \in Nat
    BY DEF LogInv, StreamInv, LogTypes, LogView
  <1>2. FirstLine \in Nat /\ FirstLine > 0 /\ (FirstLine > 1 => FirstLine <= logged)
    BY <1>1, LogAssumption DEF FirstLine
  <1>3. /\ Active(c) /\ conn[c].first = 0
        /\ conn' = [conn EXCEPT ![c].first = FirstLine, ![c].next = FirstLine]
        /\ UNCHANGED <<logged, history, shown, breaks, printed>>
    BY DEF Attach, Active
  <1>4. /\ view.conn # c => UNCHANGED <<view, lapsed>>
        /\ view.conn = c =>
               /\ view' = [view EXCEPT !.from = IF view.from = 0 THEN FirstLine ELSE view.from]
               /\ lapsed' = (lapsed \/ ~(view'.from .. (FirstLine - 1) \subseteq printed))
    BY <1>1 DEF Attach, LogView
  <1> HIDE DEF FirstLine
  <1>5. /\ conn'[c] = [conn[c] EXCEPT !.first = FirstLine, !.next = FirstLine]
        /\ OnlyAt(c) /\ conn' \in [Conns -> Handler]
    <2> DEFINE h == [conn[c] EXCEPT !.first = FirstLine, !.next = FirstLine]
    <2>1. h \in Handler
      BY <1>1, <1>2 DEF Handler
    <2>2. conn' = [conn EXCEPT ![c] = h]
      BY <1>1, <1>3 DEF Handler
    <2> HIDE DEF h
    <2>3. conn'[c] = h /\ OnlyAt(c) /\ conn' \in [Conns -> Handler]
      BY <1>1, <2>1, <2>2 DEF OnlyAt
    <2> QED
      BY <2>3 DEF h
  <1>6. /\ conn'[c].first = FirstLine /\ conn'[c].next = FirstLine /\ conn'[c].at = conn[c].at
        /\ conn'[c].nextID = conn[c].nextID /\ conn'[c].resume = conn[c].resume
        /\ conn'[c].out = conn[c].out /\ conn'[c].generation = conn[c].generation
        /\ conn'[c].reading = conn[c].reading /\ conn'[c].gone = conn[c].gone
    BY <1>1, <1>5 DEF Handler
  <1>7. /\ view' \in LogView /\ view'.at = view.at /\ view'.conn = view.conn
        /\ view'.generation = view.generation /\ view'.lastEventId = view.lastEventId
        /\ view.conn = c => view'.from > 0
        /\ lapsed' \in BOOLEAN /\ (~lapsed' => ~lapsed)
    <2>1. CASE view.conn # c
      BY <1>1, <1>4, <2>1 DEF LogTypes
    <2>2. CASE view.conn = c
      <3> DEFINE from == IF view.from = 0 THEN FirstLine ELSE view.from
      <3>1. from \in Nat /\ from > 0
        BY <1>1, <1>2
      <3>2. view' = [view EXCEPT !.from = from]
        BY <1>4, <2>2
      <3> HIDE DEF from
      <3>3. /\ view' \in LogView /\ view'.at = view.at /\ view'.conn = view.conn
            /\ view'.generation = view.generation /\ view'.lastEventId = view.lastEventId
            /\ view'.from = from
        BY <1>1, <3>1, <3>2 DEF LogView
      <3>4. lapsed' \in BOOLEAN /\ (~lapsed' => ~lapsed)
        BY <1>4, <2>2
      <3> QED
        BY <3>1, <3>3, <3>4
    <2> QED
      BY <2>1, <2>2
  <1>8. LogTypes'
    BY <1>1, <1>3, <1>5, <1>7 DEF LogTypes
  <1>9. \A d \in Conns : /\ conn'[d].generation = conn[d].generation
                         /\ conn'[d].reading = conn[d].reading /\ conn'[d].gone = conn[d].gone
    BY <1>5, <1>6 DEF OnlyAt
  <1>10. StreamInv'
    BY <1>1, <1>3, <1>7, <1>8, <1>9
    DEF StreamInv, Attached, Generations, OldStreamsStaySilent
  <1>11. GapInv'
    <2>1. SUFFICES ASSUME Watching'
                   PROVE  HistoryInv' /\ (view.at = "read" => ConnInv(view.conn)')
      BY <1>7 DEF GapInv
    <2>2. HistoryInv /\ (view.at = "read" => ConnInv(view.conn)) /\ ~lapsed'
      BY <1>7, <2>1 DEF LogInv, GapInv, Watching
    <2>3. \A d \in Conns : Active(d)' => (Active(d) /\ conn'[d].nextID = conn[d].nextID)
      BY <1>5, <1>6 DEF OnlyAt, Active
    <2>4. HistoryInv'
      BY <1>3, <1>7, <2>2, <2>3, HistoryKept
    <2>5. ASSUME view.at = "read", view.conn # c PROVE ConnInv(view.conn)'
      <3> DEFINE v == view.conn
      <3>1. v \in Conns /\ ConnInv(v) /\ conn[v].first \in Nat /\ view' = view /\ conn'[v] = conn[v]
        BY <1>1, <1>4, <1>5, <2>2, <2>5 DEF Attached, Handler, OnlyAt
      <3> HIDE DEF v
      <3>2. \A w \in Conns : w = v => ConnInv(w)'
        BY <1>1, <1>3, <3>1, ConnKept
      <3> QED
        BY <3>1, <3>2 DEF v
    <2>6. ASSUME view.at = "read", view.conn = c PROVE ConnInv(c)'
      <3>1. ConnInv(c) /\ Lines' = Lines /\ LastID' = LastID
        BY <1>3, <2>2, <2>6 DEF Lines, LastID
      <3>2. \A n : Brought(c, n)' <=> Brought(c, n)
        BY <1>6, <3>1 DEF Brought, BroughtBy
      <3>3. InOrder(c)'
        BY <1>3, <1>6, <3>1, InOrderKept DEF ConnInv
      <3>4. ReplayInv(c) /\ (Behind(c)' <=> Behind(c)) /\ (AllBrought(c)' <=> AllBrought(c))
        BY <1>3, <1>6, <3>1 DEF ConnInv, Behind, AllBrought, Brought, BroughtBy, IsLine
      <3>5. ReplayInv(c)'
        <4>1. conn[c].at = "started" => ShownUpTo(conn[c].resume)'
          BY <1>3, <1>6, <3>1, <3>4 DEF ReplayInv, ShownUpTo, IsLine
        <4> QED
          BY <1>6, <3>1, <3>4, <4>1 DEF ReplayInv
      <3>6. \A n \in view'.from .. (FirstLine - 1) : n \in printed
        BY <1>4, <2>2, <2>6
      <3>7. conn[c].at = "live" =>
                \/ \A n \in view'.from .. (FirstLine - 1) : Brought(c, n)
                \/ Behind(c)
        <4>1. SUFFICES ASSUME AllBrought(c), NEW n \in printed PROVE Brought(c, n)
          BY <3>4, <3>6 DEF ReplayInv
        <4>2. n \in Lines \/ Remembers(n)
          BY <2>2 DEF HistoryInv
        <4> QED
          BY <4>1, <4>2 DEF Remembers, Brings, AllBrought, Brought, BroughtBy
      <3>8. \A n \in FirstLine .. (FirstLine - 1) : FALSE
        BY <1>2
      <3>9. TailInv(c)'
        <4> DEFINE f == FirstLine
        <4>1. /\ conn'[c].first = f /\ conn'[c].next = f /\ f <= f /\ view'.from > 0
              /\ f > 1 => f <= logged'
          BY <1>2, <1>3, <1>6, <1>7, <2>6
        <4>2. \A n \in f .. (f - 1) : Brought(c, n)'
          BY <3>8
        <4>3. \A n \in view'.from .. (f - 1) : n \in printed'
          BY <1>3, <3>6
        <4>4. conn'[c].at = "live" =>
                  \/ \A n \in view'.from .. (f - 1) : Brought(c, n)'
                  \/ Behind(c)'
          BY <1>6, <3>2, <3>4, <3>7
        <4> HIDE DEF f
        <4> QED
          BY <4>1, <4>2, <4>3, <4>4 DEF TailInv
      <3> QED
        BY <3>3, <3>5, <3>9 DEF ConnInv
    <2> QED
      BY <1>7, <2>4, <2>5, <2>6
  <1> QED
    BY <1>10, <1>11 DEF LogInv

-----------------------------------------------------------------------------
(* the view's steps                                                        *)

\* A view that waits for no line has nothing to be complete about.
LEMMA NotWatching ==
  ASSUME view'.at \in {"closed", "done"} \/ lapsed'
  PROVE  GapInv'
  BY DEF GapInv, Watching

\* Aborting the stream leaves the handlers alone.
LEMMA AbortedFields ==
  ASSUME StreamInv, conn' = Aborted
  PROVE  /\ conn' \in [Conns -> Handler]
         /\ \A c \in Conns : conn'[c].reading => conn[c].generation <= view.generation
         /\ \A c \in Conns : /\ conn'[c].generation = conn[c].generation
                             /\ conn'[c].at = conn[c].at /\ conn'[c].nextID = conn[c].nextID
  <1>1. conn \in [Conns -> Handler] /\ view \in LogView /\ Attached /\ Generations
    BY DEF StreamInv, LogTypes
  <1>2. ASSUME NEW c \in Conns
        PROVE  /\ conn'[c] \in Handler /\ conn'[c].generation = conn[c].generation
               /\ conn'[c].at = conn[c].at /\ conn'[c].nextID = conn[c].nextID
               /\ conn'[c].reading => conn[c].generation <= view.generation
    <2>1. CASE c # view.conn
      <3>1. conn'[c] = conn[c]
        BY <2>1 DEF Aborted
      <3> QED
        BY <1>1, <3>1 DEF Generations
    <2>2. CASE c = view.conn
      <3> DEFINE out == SubSeq(conn[c].out, 1, IF conn[c].out = <<>> THEN 0 ELSE 1)
      <3>1. conn'[c] = [conn[c] EXCEPT !.gone = TRUE, !.reading = conn[c].out # <<>>, !.out = out]
        BY <1>1, <2>2 DEF Aborted, Handler
      <3>2. conn[c] \in Handler /\ conn[c].out \in Seq(LogEvent)
        BY <1>1 DEF Handler
      <3>3. out \in Seq(LogEvent)
        BY <3>2
      <3> HIDE DEF out
      <3>4. /\ conn'[c] \in Handler /\ conn'[c].generation = conn[c].generation
            /\ conn'[c].at = conn[c].at /\ conn'[c].nextID = conn[c].nextID
        BY <3>1, <3>2, <3>3 DEF Handler
      <3>5. conn[c].generation = view.generation /\ view.generation \in Nat
        BY <1>1, <2>2, LogAssumption DEF Attached, NoConn, LogView
      <3> QED
        BY <3>4, <3>5
    <2> QED
      BY <2>1, <2>2
  <1>3. conn' = [c \in Conns |-> conn'[c]]
    BY DEF Aborted
  <1>4. conn' \in [Conns -> Handler]
    BY <1>2, <1>3
  <1> QED
    BY <1>2, <1>4

\* A view of the next generation reads no stream of an earlier one.
LEMMA NextGeneration ==
  ASSUME StreamInv, LogTypes', conn' = Aborted, view'.at # "read", view'.conn = NoConn,
         view'.generation = view.generation + 1, view'.at = "closed" \/ shown' = {}
  PROVE  StreamInv'
  <1>1. /\ \A c \in Conns : conn'[c].reading => conn[c].generation <= view.generation
        /\ \A c \in Conns : conn'[c].generation = conn[c].generation
    BY AbortedFields
  <1>2. view.generation \in Nat /\ \A c \in Conns : conn[c].generation \in Nat
    BY DEF StreamInv, LogTypes, LogView, Handler
  <1>3. Generations'
    BY <1>1, <1>2 DEF Generations
  <1>4. Attached' /\ OldStreamsStaySilent'
    BY DEF Attached, OldStreamsStaySilent
  <1> QED
    BY <1>3, <1>4 DEF StreamInv

\* A new search begins with an empty terminal, and waits for what is printed from
\* now on or remembered.
LEMMA SearchLogsKeeps ==
  ASSUME LogInv, SearchLogs
  PROVE  LogInv'
  <1>1. /\ conn' = Aborted /\ shown' = {} /\ UNCHANGED <<logged, history, breaks>>
        /\ view' = [at |-> "fetch", generation |-> view.generation + 1, conn |-> NoConn,
                    lastEventId |-> 0, from |-> 0]
        /\ printed' = {e.line : e \in Range(history)} \ {NoLine} /\ lapsed' = ~IdsInOrder
    BY DEF SearchLogs
  <1>2. StreamInv /\ LogTypes /\ history \in Seq(LogEvent)
    BY DEF LogInv, StreamInv, LogTypes
  <1>3. /\ conn' \in [Conns -> Handler]
        /\ \A c \in Conns : conn'[c].at = conn[c].at /\ conn'[c].nextID = conn[c].nextID
    BY <1>1, <1>2, AbortedFields
  <1>4. /\ view' \in LogView /\ view'.at = "fetch" /\ view'.conn = NoConn
        /\ view'.generation = view.generation + 1 /\ view'.lastEventId = 0
    BY <1>1, <1>2 DEF LogTypes, LogView
  <1>5. \A m \in DOMAIN history : history[m] \in LogEvent
    BY <1>2
  <1>6. \A e \in Range(history) : e.line \in Nat
    BY <1>5 DEF Range, LogEvent, NoLine
  <1>7. LogTypes'
    <2>1. printed' \in SUBSET Nat /\ lapsed' \in BOOLEAN
      BY <1>1, <1>6
    <2> QED
      BY <1>1, <1>2, <1>3, <1>4, <2>1 DEF LogTypes
  <1>8. StreamInv'
    BY <1>1, <1>2, <1>4, <1>7, NextGeneration
  <1>9. GapInv'
    <2>1. SUFFICES ASSUME IdsInOrder PROVE HistoryInv'
      BY <1>1, <1>4 DEF GapInv, Watching
    <2>2. LastID' = LastID /\ LastID \in Nat
      BY <1>1, <1>2, LastIDBounds DEF LastID
    <2>3. \A m, n \in DOMAIN history' : m < n => history'[m].id < history'[n].id
      BY <1>1, <2>1 DEF IdsInOrder
    <2>4. \A d \in Conns : Active(d)' => conn'[d].nextID <= LastID'
      BY <1>3, <2>1, <2>2 DEF IdsInOrder, Active
    <2>5. \A m \in DOMAIN history : ~(history[m].id <= 0)
      BY <1>5 DEF LogEvent
    <2>6. ShownUpTo(view.lastEventId)'
      BY <1>1, <1>4, <2>5 DEF ShownUpTo
    <2>7. ASSUME NEW n \in printed'
          PROVE  Remembers(n)'
      <3>1. PICK e \in Range(history) : n = e.line /\ n # NoLine
        BY <1>1, <2>7
      <3>2. PICK m \in DOMAIN history : history[m] = e
        BY <3>1 DEF Range
      <3>3. Brings(history[m], n)
        BY <1>5, <3>1, <3>2 DEF Brings, IsLine, LogEvent
      <3> QED
        BY <1>1, <3>3 DEF Remembers, Brings, IsLine
    <2> QED
      BY <1>4, <2>2, <2>3, <2>4, <2>6, <2>7 DEF HistoryInv
  <1> QED
    BY <1>8, <1>9 DEF LogInv

\* Closing begins a new generation as well.
LEMMA HandleCloseKeeps ==
  ASSUME LogInv, HandleClose
  PROVE  LogInv'
  <1>1. /\ conn' = Aborted /\ UNCHANGED <<logged, history, shown, breaks, printed, lapsed>>
        /\ view' = [view EXCEPT !.at = "closed", !.generation = @ + 1, !.conn = NoConn]
    BY DEF HandleClose
  <1>2. StreamInv /\ LogTypes /\ view \in LogView /\ view.generation \in Nat
    BY DEF LogInv, StreamInv, LogTypes, LogView
  <1>3. conn' \in [Conns -> Handler]
    BY <1>1, <1>2, AbortedFields
  <1>4. /\ view' \in LogView /\ view'.at = "closed" /\ view'.conn = NoConn
        /\ view'.generation = view.generation + 1
    <2>1. view.generation + 1 \in Nat
      BY <1>2
    <2> QED
      BY <1>1, <1>2, <2>1 DEF LogView
  <1>5. LogTypes'
    BY <1>1, <1>2, <1>3, <1>4 DEF LogTypes
  <1>6. StreamInv'
    BY <1>1, <1>2, <1>4, <1>5, NextGeneration
  <1> QED
    BY <1>4, <1>6, NotWatching DEF LogInv

\* A view that leaves its stream keeps what was shown.
LEMMA LeavesStream ==
  ASSUME LogInv, LogTypes', view.at # "closed", view'.at \in {"fetch", "retry", "done"},
         view'.conn = NoConn, view'.generation = view.generation, shown' = shown,
         \A c \in Conns : conn'[c].reading =>
             conn[c].reading /\ conn'[c].generation = conn[c].generation /\ c # view.conn,
         view'.at # "done" =>
             /\ view.at \in {"fetch", "read", "retry"} /\ UNCHANGED <<history, printed, lapsed>>
             /\ view'.lastEventId = view.lastEventId
             /\ \A c \in Conns : conn'[c].at = conn[c].at /\ conn'[c].nextID = conn[c].nextID
  PROVE  LogInv'
  <1>1. Generations /\ OldStreamsStaySilent
    BY DEF LogInv, StreamInv
  <1>2. Attached'
    BY DEF Attached
  <1>3. Generations'
    BY <1>1 DEF Generations
  <1>4. OldStreamsStaySilent'
    BY <1>1 DEF OldStreamsStaySilent
  <1>5. CASE view'.at = "done"
    BY <1>2, <1>3, <1>4, <1>5, NotWatching DEF LogInv, StreamInv
  <1>6. CASE view'.at # "done"
    <2>1. SUFFICES ASSUME Watching' PROVE HistoryInv'
      BY <1>2, <1>3, <1>4 DEF LogInv, StreamInv, GapInv
    <2>2. HistoryInv
      BY <1>6, <2>1 DEF LogInv, GapInv, Watching
    <2>3. \A d \in Conns : Active(d)' => (Active(d) /\ conn'[d].nextID = conn[d].nextID)
      BY <1>6 DEF Active
    <2> QED
      BY <1>6, <2>2, <2>3, HistoryKept
  <1> QED
    BY <1>5, <1>6

\* Waiting for the next attempt changes no stream.
LEMMA WaitKeeps ==
  ASSUME LogInv, Refused \/ Reconnect
  PROVE  LogInv'
  <1>1. LogTypes /\ Attached /\ view \in LogView /\ NoConn \notin Conns
    BY LogAssumption DEF LogInv, StreamInv, LogTypes, NoConn
  <1>2. /\ view.at \in {"fetch", "retry"}
        /\ UNCHANGED <<logged, history, conn, shown, breaks, printed, lapsed>>
        /\ \E at \in {"done", "fetch"} : view' = [view EXCEPT !.at = at]
    BY DEF Refused, Reconnect
  <1>3. /\ view' \in LogView /\ view'.at \in {"done", "fetch"}
        /\ view'.conn = view.conn /\ view'.generation = view.generation
        /\ view'.lastEventId = view.lastEventId
    BY <1>1, <1>2 DEF LogView
  <1>4. view.conn = NoConn
    BY <1>1, <1>2 DEF Attached
  <1>5. LogTypes'
    BY <1>1, <1>2, <1>3 DEF LogTypes
  <1> QED
    BY <1>1, <1>2, <1>3, <1>4, <1>5, LeavesStream

\* reader.cancel: the connection is no longer read.
LEMMA DetachedFields ==
  ASSUME LogTypes, NEW c \in Conns
  PROVE  /\ Detached(c) \in [Conns -> Handler]
         /\ ~Detached(c)[c].reading
         /\ Detached(c)[c].at = conn[c].at /\ Detached(c)[c].nextID = conn[c].nextID
         /\ \A d \in Conns \ {c} : Detached(c)[d] = conn[d]
  <1>1. conn \in [Conns -> Handler] /\ <<>> \in Seq(LogEvent)
    BY DEF LogTypes
  <1> QED
    <2> DEFINE h == [conn[c] EXCEPT !.reading = FALSE, !.gone = TRUE, !.out = <<>>]
    <2>1. h \in Handler /\ ~h.reading /\ h.at = conn[c].at /\ h.nextID = conn[c].nextID
      BY <1>1 DEF Handler
    <2>2. Detached(c) = [conn EXCEPT ![c] = h]
      BY <1>1 DEF Detached, Handler
    <2> HIDE DEF h
    <2> QED
      BY <1>1, <2>1, <2>2

\* A broken connection leaves what was shown.
LEMMA BreakKeeps ==
  ASSUME LogInv, Break
  PROVE  LogInv'
  <1>1. LogTypes /\ view \in LogView /\ conn \in [Conns -> Handler] /\ breaks \in Nat /\ NoConn \notin Conns
    BY LogAssumption DEF LogInv, StreamInv, LogTypes, NoConn
  <1>2. /\ view.at \in {"fetch", "read"} /\ breaks' = breaks + 1
        /\ conn' = IF view.conn = NoConn THEN conn ELSE Detached(view.conn)
        /\ view' = [view EXCEPT !.at = "retry", !.conn = NoConn]
        /\ UNCHANGED <<logged, history, shown, printed, lapsed>>
    BY DEF Break
  <1>3. /\ view' \in LogView /\ view'.at = "retry" /\ view'.conn = NoConn
        /\ view'.generation = view.generation /\ view'.lastEventId = view.lastEventId
    BY <1>1, <1>2 DEF LogView
  <1>4. /\ conn' \in [Conns -> Handler]
        /\ \A c \in Conns : /\ conn'[c].reading =>
                                   conn[c].reading /\ conn'[c].generation = conn[c].generation /\ c # view.conn
                            /\ conn'[c].at = conn[c].at /\ conn'[c].nextID = conn[c].nextID
    <2>1. CASE view.conn = NoConn
      BY <1>1, <1>2, <2>1
    <2>2. CASE view.conn # NoConn
      <3>1. view.conn \in Conns /\ conn' = Detached(view.conn)
        BY <1>1, <1>2, <2>2 DEF LogView
      <3>2. /\ conn' \in [Conns -> Handler] /\ ~conn'[view.conn].reading
            /\ conn'[view.conn].at = conn[view.conn].at
            /\ conn'[view.conn].nextID = conn[view.conn].nextID
            /\ \A d \in Conns \ {view.conn} : conn'[d] = conn[d]
        BY <1>1, <3>1, DetachedFields
      <3> QED
        BY <3>2
    <2> QED
      BY <2>1, <2>2
  <1>5. LogTypes'
    <2>1. breaks' \in Nat
      BY <1>1, <1>2
    <2> QED
      BY <1>1, <1>2, <1>3, <1>4, <2>1 DEF LogTypes
  <1> QED
    BY <1>2, <1>3, <1>4, <1>5, LeavesStream

\* The end of a stream leaves what was shown.
LEMMA EndOfStreamKeeps ==
  ASSUME LogInv, EndOfStream
  PROVE  LogInv'
  <1>1. LogTypes /\ Attached /\ view \in LogView /\ conn \in [Conns -> Handler]
    BY DEF LogInv, StreamInv, LogTypes
  <1>2. /\ view.at = "read" /\ conn' = [conn EXCEPT ![view.conn].reading = FALSE]
        /\ view' = [view EXCEPT !.at = "retry", !.conn = NoConn]
        /\ UNCHANGED <<logged, history, shown, breaks, printed, lapsed>>
    BY DEF EndOfStream
  <1>3. /\ view' \in LogView /\ view'.at = "retry" /\ view'.conn = NoConn
        /\ view'.generation = view.generation /\ view'.lastEventId = view.lastEventId
    BY <1>1, <1>2 DEF LogView
  <1>4. view.conn \in Conns
    BY <1>1, <1>2 DEF Attached
  <1>5. /\ conn' \in [Conns -> Handler] /\ ~conn'[view.conn].reading
        /\ conn'[view.conn].at = conn[view.conn].at
        /\ conn'[view.conn].nextID = conn[view.conn].nextID
        /\ \A d \in Conns \ {view.conn} : conn'[d] = conn[d]
    <2> DEFINE h == [conn[view.conn] EXCEPT !.reading = FALSE]
    <2>1. /\ h \in Handler /\ ~h.reading /\ h.at = conn[view.conn].at
          /\ h.nextID = conn[view.conn].nextID
      BY <1>1, <1>4 DEF Handler
    <2>2. conn' = [conn EXCEPT ![view.conn] = h]
      BY <1>1, <1>2, <1>4 DEF Handler
    <2> HIDE DEF h
    <2> QED
      BY <1>1, <1>4, <2>1, <2>2
  <1>6. LogTypes'
    BY <1>1, <1>2, <1>3, <1>5 DEF LogTypes
  <1>7. \A c \in Conns : /\ conn'[c].reading =>
                                conn[c].reading /\ conn'[c].generation = conn[c].generation /\ c # view.conn
                         /\ conn'[c].at = conn[c].at /\ conn'[c].nextID = conn[c].nextID
    BY <1>5
  <1> QED
    BY <1>2, <1>3, <1>6, <1>7, LeavesStream

\* A new connection starts where the view has stopped, with an id that is at
\* least the last one.
LEMMA AcceptedFields ==
  ASSUME LogTypes
  PROVE  /\ Accepted \in Handler /\ Accepted.generation = view.generation
         /\ Accepted.at = "started" /\ ~Accepted.gone /\ Accepted.out = <<>>
         /\ Accepted.first = 0 /\ Accepted.resume = view.lastEventId
         /\ (view.lastEventId <= LastID => Accepted.nextID <= LastID)
  <1>1. view.lastEventId \in Nat /\ view.generation \in Nat /\ history \in Seq(LogEvent)
    BY DEF LogTypes, LogView
  <1>2. LastID \in Nat
    BY <1>1, LastIDBounds
  <1>3. /\ FirstID(view.lastEventId) \in Nat
        /\ view.lastEventId <= LastID => FirstID(view.lastEventId) <= LastID
    BY <1>1, <1>2 DEF FirstID
  <1>4. <<>> \in Seq(LogEvent)
    OBVIOUS
  <1>5. /\ Accepted.nextID = FirstID(view.lastEventId) /\ Accepted.at = "started"
        /\ Accepted.generation = view.generation /\ ~Accepted.gone /\ Accepted.out = <<>>
        /\ Accepted.first = 0 /\ Accepted.resume = view.lastEventId
    BY DEF Accepted, Unused
  <1>6. Accepted \in Handler
    BY <1>1, <1>3, <1>4 DEF Accepted, Unused, Handler
  <1> QED
    BY <1>3, <1>5, <1>6

\* A connection starts where the view has stopped.
LEMMA ConnectKeeps ==
  ASSUME LogInv, NEW c \in Conns, Connect(c)
  PROVE  LogInv'
  <1>1. /\ view.at = "fetch" /\ conn' = [conn EXCEPT ![c] = Accepted]
        /\ view' = [view EXCEPT !.at = "read", !.conn = c]
        /\ UNCHANGED <<logged, history, shown, breaks, printed, lapsed>>
    BY DEF Connect
  <1>2. LogTypes /\ Attached /\ Generations /\ OldStreamsStaySilent /\ NoConn \notin Conns
    BY LogAssumption DEF LogInv, StreamInv, NoConn
  <1>3. /\ Accepted \in Handler /\ Accepted.generation = view.generation
        /\ Accepted.at = "started" /\ ~Accepted.gone /\ Accepted.out = <<>>
        /\ Accepted.first = 0 /\ Accepted.resume = view.lastEventId
        /\ (view.lastEventId <= LastID => Accepted.nextID <= LastID)
    BY <1>2, AcceptedFields
  <1>4. conn' \in [Conns -> Handler] /\ conn'[c] = Accepted /\ \A d \in Conns \ {c} : conn'[d] = conn[d]
    BY <1>1, <1>2, <1>3 DEF LogTypes
  <1>5. /\ view' \in LogView /\ view'.at = "read" /\ view'.conn = c
        /\ view'.generation = view.generation /\ view.generation \in Nat
        /\ view'.lastEventId = view.lastEventId
    BY <1>1, <1>2 DEF LogTypes, LogView
  <1>6. LogTypes'
    BY <1>1, <1>2, <1>4, <1>5 DEF LogTypes
  <1>7. Attached'
    BY <1>3, <1>4, <1>5 DEF Attached
  <1>8. Generations'
    BY <1>1, <1>2, <1>3, <1>4, <1>5 DEF Generations, Attached
  <1>9. OldStreamsStaySilent'
    BY <1>1, <1>2, <1>5 DEF OldStreamsStaySilent
  <1>10. GapInv'
    <2>1. SUFFICES ASSUME ~lapsed
                   PROVE  HistoryInv' /\ ConnInv(c)'
      BY <1>1, <1>5 DEF GapInv, Watching
    <2>2. HistoryInv
      BY <1>1, <2>1 DEF LogInv, GapInv, Watching
    <2>3. LastID' = LastID /\ Lines' = Lines
      BY <1>1 DEF LastID, Lines
    <2>4. \A d \in Conns : Active(d)' => conn'[d].nextID <= LastID
      BY <1>3, <1>4, <2>2 DEF HistoryInv, Active
    <2>5. ShownUpTo(view.lastEventId)'
      BY <1>1, <1>5, <2>2, <2>3 DEF HistoryInv, ShownUpTo
    <2>6. \A n \in printed' : n \in Lines' \/ Remembers(n)'
      BY <1>1, <2>2, <2>3 DEF HistoryInv, Remembers, Brings, IsLine
    <2>7. HistoryInv'
      BY <1>1, <1>5, <2>2, <2>3, <2>4, <2>5, <2>6 DEF HistoryInv
    <2>8. InOrder(c)'
      BY <1>3, <1>4 DEF InOrder
    <2>9. ReplayInv(c)'
      <3>1. conn'[c].resume = view.lastEventId /\ view.lastEventId <= LastID
        BY <1>3, <1>4, <2>2 DEF HistoryInv
      <3>2. ShownUpTo(conn[c].resume)'
        BY <1>1, <2>2, <2>3, <3>1 DEF HistoryInv, ShownUpTo, IsLine
      <3> QED
        BY <1>3, <1>4, <2>3, <3>1, <3>2 DEF ReplayInv
    <2>10. TailInv(c)'
      BY <1>3, <1>4 DEF TailInv
    <2> QED
      BY <2>7, <2>8, <2>9, <2>10 DEF ConnInv
  <1> QED
    BY <1>6, <1>7, <1>8, <1>9, <1>10 DEF LogInv, StreamInv

\* An event of an earlier generation ends the reader of its stream.
LEMMA ReadOldKeeps ==
  ASSUME LogInv, NEW c \in Conns, ~IsCurrent(c), conn' = Detached(c),
         UNCHANGED <<logged, history, view, shown, breaks, printed, lapsed>>
  PROVE  LogInv'
  <1>1. /\ StreamInv /\ LogTypes /\ Attached /\ Generations /\ OldStreamsStaySilent
        /\ conn \in [Conns -> Handler] /\ logged \in Nat
    BY DEF LogInv, StreamInv, LogTypes
  <1>2. /\ conn' \in [Conns -> Handler] /\ ~conn'[c].reading
        /\ conn'[c].at = conn[c].at /\ conn'[c].nextID = conn[c].nextID
        /\ \A d \in Conns \ {c} : conn'[d] = conn[d]
    BY <1>1, DetachedFields
  <1>3. LogTypes'
    BY <1>1, <1>2 DEF LogTypes
  <1>4. view.at = "read" => view.conn \in Conns \ {c}
    BY <1>1 DEF Attached, IsCurrent
  <1>5. Attached'
    BY <1>1, <1>2, <1>4 DEF Attached
  <1>6. Generations'
    BY <1>1, <1>2 DEF Generations
  <1>7. OldStreamsStaySilent'
    BY <1>1 DEF OldStreamsStaySilent
  <1>8. GapInv'
    <2>1. SUFFICES ASSUME Watching
                   PROVE  HistoryInv' /\ (view.at = "read" => ConnInv(view.conn)')
      BY DEF GapInv, Watching
    <2>2. HistoryInv /\ (view.at = "read" => ConnInv(view.conn))
      BY <2>1 DEF LogInv, GapInv
    <2>3. \A d \in Conns : Active(d)' => (Active(d) /\ conn'[d].nextID = conn[d].nextID)
      BY <1>2 DEF Active
    <2>4. HistoryInv'
      BY <2>2, <2>3, HistoryKept
    <2>5. ASSUME view.at = "read" PROVE ConnInv(view.conn)'
      <3> DEFINE v == view.conn
      <3>1. v \in Conns /\ ConnInv(v) /\ conn[v].first \in Nat /\ view'.conn = v /\ conn'[v] = conn[v]
        BY <1>1, <1>2, <1>4, <2>2, <2>5 DEF Handler
      <3> HIDE DEF v
      <3>2. \A w \in Conns : w = v => ConnInv(w)'
        BY <1>1, <3>1, ConnKept
      <3> QED
        BY <3>1, <3>2 DEF v
    <2> QED
      BY <2>4, <2>5
  <1> QED
    BY <1>3, <1>5, <1>6, <1>7, <1>8 DEF LogInv, StreamInv

\* The stream that is read in the view's generation is the view's.
LEMMA CurrentIsAttached ==
  ASSUME StreamInv, NEW c \in Conns, conn[c].reading, IsCurrent(c)
  PROVE  view.conn = c /\ view.at = "read" /\ ~conn[c].gone
  <1>1. Generations /\ Attached /\ NoConn \notin Conns
    BY LogAssumption DEF StreamInv, NoConn
  <1>2. view.conn = c
    BY <1>1 DEF Generations, IsCurrent
  <1> QED
    BY <1>1, <1>2 DEF Attached

\* A close event ends the view.
LEMMA ReadCloseKeeps ==
  ASSUME LogInv, NEW c \in Conns, conn[c].reading, IsCurrent(c), conn' = Detached(c),
         NEW id \in Nat,
         view' = [view EXCEPT !.at = "done", !.conn = NoConn, !.lastEventId = id],
         UNCHANGED <<logged, history, shown, breaks, printed, lapsed>>
  PROVE  LogInv'
  <1>1. StreamInv /\ LogTypes /\ view \in LogView /\ view.generation \in Nat
    BY DEF LogInv, StreamInv, LogTypes, LogView
  <1>2. /\ conn' \in [Conns -> Handler] /\ ~conn'[c].reading
        /\ \A d \in Conns \ {c} : conn'[d] = conn[d]
    BY <1>1, DetachedFields
  <1>3. /\ view' \in LogView /\ view'.at = "done" /\ view'.conn = NoConn
        /\ view'.generation = view.generation
    BY <1>1 DEF LogView
  <1>4. LogTypes'
    BY <1>1, <1>2, <1>3 DEF LogTypes
  <1>5. view.conn = c /\ view.at = "read"
    BY <1>1, CurrentIsAttached
  <1>6. \A d \in Conns : conn'[d].reading =>
            conn[d].reading /\ conn'[d].generation = conn[d].generation /\ d # view.conn
    BY <1>2, <1>5
  <1> QED
    BY <1>3, <1>4, <1>5, <1>6, LeavesStream

\* Reading an event moves it from the way to the view into the terminal.
LEMMA ReadMoves ==
  ASSUME LogTypes, NEW c \in Conns, conn[c].out # <<>>, conn'[c].out = Tail(conn[c].out),
         shown' = IF conn[c].out[1].kind = "line"
                  THEN shown \cup {[line |-> conn[c].out[1].line, generation |-> conn[c].generation]}
                  ELSE shown
  PROVE  /\ Lines \in SUBSET Lines'
         /\ \A k \in Nat, j \in Nat : \A n : (k <= j + 1 /\ BroughtBy(c, k, n)) => BroughtBy(c, j, n)'
         /\ \A n : BroughtBy(c, 1, n) => n \in Lines'
         /\ \A n : Brought(c, n) => Brought(c, n)'
         /\ \A j \in DOMAIN conn'[c].out :
                j \in Nat /\ j + 1 \in DOMAIN conn[c].out /\ conn'[c].out[j] = conn[c].out[j + 1]
  <1> DEFINE out == conn[c].out
             out2 == conn'[c].out
  <1>1. out \in Seq(LogEvent) /\ out # <<>> /\ out2 = Tail(out)
    BY DEF LogTypes, Handler
  <1> HIDE DEF out, out2
  <1>2. /\ Len(out) \in Nat /\ Len(out) > 0 /\ DOMAIN out = 1..Len(out)
        /\ out2 \in Seq(LogEvent) /\ Len(out2) = Len(out) - 1
        /\ DOMAIN out2 = 1 .. (Len(out) - 1)
        /\ \A j \in 1 .. (Len(out) - 1) : out2[j] = out[j + 1]
    BY <1>1
  <1>3. Lines \in SUBSET Lines'
    BY DEF Lines
  <1>4. ASSUME NEW n, Brings(out[1], n)
        PROVE  n \in Lines'
    <2>1. [line |-> n, generation |-> conn[c].generation] \in shown'
      BY <1>4 DEF Brings, IsLine, out
    <2> QED
      BY <2>1 DEF Lines
  <1>5. \A k, n : BroughtBy(c, k, n) <=> (n \in Lines \/ \E i \in DOMAIN out : i <= k /\ Brings(out[i], n))
    BY DEF BroughtBy, out
  <1>6. \A k, n : BroughtBy(c, k, n)' <=>
                      (n \in Lines' \/ \E i \in DOMAIN out2 : i <= k /\ Brings(out2[i], n))
    BY DEF BroughtBy, out2, Brings, IsLine
  <1>7. \A n : Brought(c, n) <=>
                   (n \in Lines \/ \E i \in DOMAIN out : i <= Len(out) /\ Brings(out[i], n))
    BY DEF Brought, BroughtBy, out
  <1>8. \A n : Brought(c, n)' <=>
                   (n \in Lines' \/ \E i \in DOMAIN out2 : i <= Len(out2) /\ Brings(out2[i], n))
    BY DEF Brought, BroughtBy, out2, Brings, IsLine
  <1>9. ASSUME NEW i \in DOMAIN out, NEW n, Brings(out[i], n)
        PROVE  n \in Lines' \/ (i - 1 \in DOMAIN out2 /\ Brings(out2[i - 1], n))
    <2>1. CASE i = 1
      BY <1>4, <1>9, <2>1
    <2>2. CASE i # 1
      <3>1. i - 1 \in 1 .. (Len(out) - 1) /\ (i - 1) + 1 = i
        BY <1>2, <2>2
      <3>2. out2[i - 1] = out[i]
        BY <1>2, <3>1
      <3> QED
        BY <1>2, <1>9, <3>1, <3>2
    <2> QED
      BY <2>1, <2>2
  <1>10. ASSUME NEW k \in Nat, NEW j \in Nat, NEW n, k <= j + 1, BroughtBy(c, k, n)
         PROVE  BroughtBy(c, j, n)'
    <2>1. CASE n \in Lines
      BY <1>3, <1>6, <2>1
    <2>2. CASE n \notin Lines
      <3>1. PICK i \in DOMAIN out : i <= k /\ Brings(out[i], n)
        BY <1>5, <1>10, <2>2
      <3>2. i - 1 <= j
        BY <1>2, <1>10, <3>1
      <3> QED
        BY <1>6, <1>9, <3>1, <3>2
    <2> QED
      BY <2>1, <2>2
  <1>11. ASSUME NEW n, BroughtBy(c, 1, n)
         PROVE  n \in Lines'
    <2>1. \A i \in DOMAIN out : i <= 1 => i = 1
      BY <1>2
    <2> QED
      BY <1>3, <1>4, <1>5, <1>11, <2>1
  <1>12. ASSUME NEW n, Brought(c, n)
         PROVE  Brought(c, n)'
    <2>1. CASE n \in Lines
      BY <1>3, <1>8, <2>1
    <2>2. CASE n \notin Lines
      <3>1. PICK i \in DOMAIN out : i <= Len(out) /\ Brings(out[i], n)
        BY <1>7, <1>12, <2>2
      <3>2. \A j \in DOMAIN out2 : j <= Len(out2)
        BY <1>2
      <3> QED
        BY <1>8, <1>9, <3>1, <3>2
    <2> QED
      BY <2>1, <2>2
  <1>13. \A j \in DOMAIN out2 : j \in Nat /\ j + 1 \in DOMAIN out /\ out2[j] = out[j + 1]
    BY <1>2
  <1> QED
    BY <1>3, <1>10, <1>11, <1>12, <1>13 DEF out, out2

\* Any other event of the view's stream is shown, if it is a line.
LEMMA ReadShowsKeeps ==
  ASSUME LogInv, NEW c \in Conns, conn[c].reading, conn[c].out # <<>>, IsCurrent(c),
         NEW event, event = Head(conn[c].out), ~Completes(event),
         conn' = [conn EXCEPT ![c].out = Tail(@)],
         view' = [view EXCEPT !.lastEventId = event.id],
         shown' = IF event.kind = "line"
                  THEN shown \cup {[line |-> event.line, generation |-> conn[c].generation]}
                  ELSE shown,
         UNCHANGED <<logged, history, breaks, printed, lapsed>>
  PROVE  LogInv'
  <1>1. StreamInv /\ LogTypes /\ Attached /\ Generations /\ OldStreamsStaySilent
    BY DEF LogInv, StreamInv
  <1>2. /\ conn \in [Conns -> Handler] /\ view \in LogView /\ conn[c].out \in Seq(LogEvent)
        /\ conn[c].generation \in Nat /\ shown \in SUBSET ShownLine
    BY <1>1 DEF LogTypes, Handler
  <1>3. /\ event \in LogEvent /\ Tail(conn[c].out) \in Seq(LogEvent) /\ event = conn[c].out[1]
        /\ 1 \in DOMAIN conn[c].out /\ event.id \in Nat
    <2>1. /\ event \in LogEvent /\ Tail(conn[c].out) \in Seq(LogEvent) /\ event = conn[c].out[1]
          /\ 1 \in DOMAIN conn[c].out
      BY <1>2
    <2> QED
      BY <2>1 DEF LogEvent
  <1>4. /\ conn' \in [Conns -> Handler] /\ \A d \in Conns \ {c} : conn'[d] = conn[d]
        /\ conn'[c] = [conn[c] EXCEPT !.out = Tail(conn[c].out)]
    <2> DEFINE h == [conn[c] EXCEPT !.out = Tail(conn[c].out)]
    <2>1. h \in Handler
      BY <1>2, <1>3 DEF Handler
    <2>2. conn' = [conn EXCEPT ![c] = h]
      BY <1>2 DEF Handler
    <2> HIDE DEF h
    <2>3. conn' \in [Conns -> Handler] /\ conn'[c] = h /\ \A d \in Conns \ {c} : conn'[d] = conn[d]
      BY <1>2, <2>1, <2>2
    <2> QED
      BY <2>3 DEF h
  <1>5. /\ conn'[c].generation = conn[c].generation /\ conn'[c].reading = conn[c].reading
        /\ conn'[c].gone = conn[c].gone /\ conn'[c].at = conn[c].at
        /\ conn'[c].next = conn[c].next /\ conn'[c].first = conn[c].first
        /\ conn'[c].resume = conn[c].resume /\ conn'[c].nextID = conn[c].nextID
        /\ conn'[c].out = Tail(conn[c].out)
    BY <1>2, <1>4 DEF Handler
  <1>6. /\ view' \in LogView /\ view'.at = view.at /\ view'.conn = view.conn
        /\ view'.generation = view.generation /\ view'.from = view.from
        /\ view'.lastEventId = event.id
    BY <1>2, <1>3 DEF LogView
  <1>7. shown' \in SUBSET ShownLine
    BY <1>2, <1>3 DEF ShownLine, LogEvent, NoLine
  <1>8. LogTypes'
    BY <1>1, <1>4, <1>6, <1>7 DEF LogTypes
  <1>9. \A d \in Conns : /\ conn'[d].generation = conn[d].generation
                         /\ conn'[d].reading = conn[d].reading /\ conn'[d].gone = conn[d].gone
                         /\ conn'[d].at = conn[d].at /\ conn'[d].nextID = conn[d].nextID
    BY <1>4, <1>5
  <1>10. Attached' /\ Generations'
    BY <1>1, <1>6, <1>9 DEF Attached, Generations
  <1>11. OldStreamsStaySilent'
    <2>1. \A e \in shown' : e \in shown \/ e.generation = view.generation
      BY DEF IsCurrent
    <2>2. view'.at # "closed" => \A e \in shown : e.generation = view.generation
      BY <1>1, <1>6 DEF OldStreamsStaySilent
    <2> QED
      BY <1>6, <2>1, <2>2 DEF OldStreamsStaySilent
  <1>12. view.conn = c /\ view.at = "read"
    BY <1>1, CurrentIsAttached
  <1>13. GapInv'
    <2>1. SUFFICES ASSUME Watching PROVE HistoryInv' /\ ConnInv(c)'
      BY <1>6, <1>12 DEF GapInv, Watching
    <2>2. HistoryInv /\ InOrder(c) /\ ReplayInv(c) /\ TailInv(c)
      BY <1>12, <2>1 DEF LogInv, GapInv, ConnInv
    <2>3. /\ Lines \in SUBSET Lines'
          /\ \A k \in Nat, j \in Nat : \A n : (k <= j + 1 /\ BroughtBy(c, k, n)) => BroughtBy(c, j, n)'
          /\ \A n : BroughtBy(c, 1, n) => n \in Lines'
          /\ \A n : Brought(c, n) => Brought(c, n)'
          /\ \A j \in DOMAIN conn'[c].out :
                 j \in Nat /\ j + 1 \in DOMAIN conn[c].out /\ conn'[c].out[j] = conn[c].out[j + 1]
      BY <1>1, <1>3, <1>5, ReadMoves
    <2>4. LastID' = LastID
      BY DEF LastID
    <2>5. event.id <= LastID /\ BroughtUpTo(c, event.id, 1)
      BY <1>3, <2>2 DEF InOrder, Completes
    <2>6. ShownUpTo(view.lastEventId)'
      BY <1>6, <2>3, <2>5 DEF ShownUpTo, BroughtUpTo, IsLine
    <2>7. \A n \in printed' : n \in Lines' \/ Remembers(n)'
      BY <2>2, <2>3 DEF HistoryInv, Remembers, Brings, IsLine
    <2>8. \A d \in Conns : Active(d)' => conn'[d].nextID <= LastID
      BY <1>9, <2>2 DEF HistoryInv, Active
    <2>9. HistoryInv'
      BY <1>6, <2>2, <2>4, <2>5, <2>6, <2>7, <2>8 DEF HistoryInv
    <2>10. ASSUME NEW j \in DOMAIN conn'[c].out
           PROVE  /\ conn'[c].out[j].id <= LastID'
                  /\ conn'[c].out[j].kind # "close" => BroughtUpTo(c, conn[c].out[j].id, j)'
      <3>1. /\ j \in Nat /\ j + 1 \in DOMAIN conn[c].out /\ conn'[c].out[j] = conn[c].out[j + 1]
            /\ j + 1 \in Nat
        BY <2>3
      <3>2. /\ conn[c].out[j + 1].id <= LastID
            /\ conn[c].out[j + 1].kind # "close" => BroughtUpTo(c, conn[c].out[j + 1].id, j + 1)
        BY <2>2, <3>1 DEF InOrder
      <3>3. ASSUME NEW id, BroughtUpTo(c, id, j + 1) PROVE BroughtUpTo(c, id, j)'
        <4>1. SUFFICES ASSUME NEW m \in DOMAIN history, IsLine(history[m]), history[m].id <= id,
                              NEW n, n = history[m].line
                       PROVE  BroughtBy(c, j, n)'
          BY DEF BroughtUpTo, BroughtBy, IsLine
        <4>2. BroughtBy(c, j + 1, n)
          BY <3>3, <4>1 DEF BroughtUpTo
        <4>3. j + 1 <= j + 1
          BY <3>1
        <4> QED
          BY <2>3, <3>1, <4>2, <4>3
      <3>4. \A id : (id = conn'[c].out[j].id /\ conn'[c].out[j].kind # "close") => BroughtUpTo(c, id, j)'
        BY <3>1, <3>2, <3>3
      <3>5. conn'[c].out[j].kind # "close" => BroughtUpTo(c, conn[c].out[j].id, j)'
        BY <3>4 DEF BroughtUpTo, BroughtBy, IsLine
      <3> QED
        BY <2>4, <3>1, <3>2, <3>5
    <2>11. InOrder(c)'
      BY <2>10 DEF InOrder
    <2>12. AllBrought(c) => AllBrought(c)'
      <3>1. ASSUME AllBrought(c), NEW m \in DOMAIN history, IsLine(history[m]), NEW n, n = history[m].line
            PROVE  Brought(c, n)'
        BY <2>3, <3>1 DEF AllBrought
      <3> QED
        BY <3>1 DEF AllBrought, Brought, BroughtBy, IsLine
    <2>13. Behind(c)' <=> Behind(c)
      BY <1>5, <2>4 DEF Behind
    <2>14. ReplayInv(c)'
      <3>1. ASSUME conn[c].at = "started" PROVE ShownUpTo(conn[c].resume)'
        <4>1. ShownUpTo(conn[c].resume)
          BY <2>2, <3>1 DEF ReplayInv
        <4> QED
          BY <1>5, <2>3, <4>1 DEF ShownUpTo, IsLine
      <3> QED
        BY <1>5, <2>2, <2>4, <2>12, <2>13, <3>1 DEF ReplayInv
    <2>15. TailInv(c)'
      BY <1>5, <1>6, <2>2, <2>3, <2>13 DEF TailInv, Active
    <2> QED
      BY <2>9, <2>11, <2>14, <2>15 DEF ConnInv
  <1> QED
    BY <1>8, <1>10, <1>11, <1>13 DEF LogInv, StreamInv

\* Only the current generation writes to the terminal.
LEMMA ReadKeeps ==
  ASSUME LogInv, NEW c \in Conns, Read(c)
  PROVE  LogInv'
  <1> DEFINE event == Head(conn[c].out)
  <1>1. /\ conn[c].reading /\ conn[c].out # <<>>
        /\ UNCHANGED <<logged, history, breaks, printed, lapsed>>
        /\ \/ ~IsCurrent(c) /\ conn' = Detached(c) /\ UNCHANGED <<view, shown>>
           \/ /\ IsCurrent(c) /\ conn' = Detached(c) /\ UNCHANGED shown
              /\ view' = [view EXCEPT !.at = "done", !.conn = NoConn, !.lastEventId = event.id]
           \/ /\ IsCurrent(c) /\ ~Completes(event) /\ conn' = [conn EXCEPT ![c].out = Tail(@)]
              /\ view' = [view EXCEPT !.lastEventId = event.id]
              /\ shown' = IF event.kind = "line"
                          THEN shown \cup {[line |-> event.line, generation |-> conn[c].generation]}
                          ELSE shown
    BY DEF Read
  <1>2. event.id \in Nat
    <2>1. conn[c].out \in Seq(LogEvent)
      BY DEF LogInv, StreamInv, LogTypes, Handler
    <2>2. event \in LogEvent
      BY <1>1, <2>1
    <2> QED
      BY <2>2 DEF LogEvent
  <1>3. CASE ~IsCurrent(c) /\ conn' = Detached(c) /\ UNCHANGED <<view, shown>>
    BY <1>1, <1>3, ReadOldKeeps
  <1>4. CASE /\ IsCurrent(c) /\ conn' = Detached(c) /\ UNCHANGED shown
             /\ view' = [view EXCEPT !.at = "done", !.conn = NoConn, !.lastEventId = event.id]
    BY <1>1, <1>2, <1>4, ReadCloseKeeps
  <1>5. CASE /\ IsCurrent(c) /\ ~Completes(event) /\ conn' = [conn EXCEPT ![c].out = Tail(@)]
             /\ view' = [view EXCEPT !.lastEventId = event.id]
             /\ shown' = IF event.kind = "line"
                         THEN shown \cup {[line |-> event.line, generation |-> conn[c].generation]}
                         ELSE shown
    BY <1>1, <1>5, ReadShowsKeeps
  <1> QED
    BY <1>1, <1>3, <1>4, <1>5

\* The container logs a line, or nothing happens.
LEMMA LogKeeps ==
  ASSUME LogInv, logged' \in {logged, logged + 1},
         UNCHANGED <<history, conn, view, shown, breaks, printed, lapsed>>
  PROVE  LogInv'
  <1>1. StreamInv /\ LogTypes /\ Attached /\ logged \in Nat /\ conn \in [Conns -> Handler]
    BY DEF LogInv, StreamInv, LogTypes
  <1>2. logged' \in Nat
    BY <1>1
  <1>3. StreamInv'
    BY <1>1, <1>2 DEF StreamInv, LogTypes, Attached, Generations, OldStreamsStaySilent
  <1>4. GapInv'
    <2>1. SUFFICES ASSUME Watching
                   PROVE  HistoryInv' /\ (view.at = "read" => ConnInv(view.conn)')
      BY DEF GapInv, Watching
    <2>2. HistoryInv /\ (view.at = "read" => ConnInv(view.conn))
      BY <2>1 DEF LogInv, GapInv
    <2>3. \A d \in Conns : Active(d)' => (Active(d) /\ conn'[d].nextID = conn[d].nextID)
      BY DEF Active
    <2>4. HistoryInv'
      BY <2>2, <2>3, HistoryKept
    <2>5. ASSUME view.at = "read" PROVE ConnInv(view.conn)'
      <3> DEFINE v == view.conn
      <3>1. v \in Conns /\ ConnInv(v) /\ conn[v].first \in Nat /\ view'.conn = v /\ conn'[v] = conn[v]
        BY <1>1, <2>2, <2>5 DEF Attached, Handler
      <3> HIDE DEF v
      <3>2. \A w \in Conns : w = v => ConnInv(w)'
        BY <1>1, <3>1, ConnKept
      <3> QED
        BY <3>1, <3>2 DEF v
    <2> QED
      BY <2>4, <2>5
  <1> QED
    BY <1>3, <1>4 DEF LogInv

-----------------------------------------------------------------------------
(* the theorems                                                            *)

\* The invariant holds at the start.
LEMMA LogInitially == LogInit => LogInv
  <1> SUFFICES ASSUME LogInit PROVE LogInv
    OBVIOUS
  <1>1. <<>> \in Seq(LogEvent) /\ Len(<<>>) <= MaxReplay
    BY LogAssumption
  <1>2. Unused \in Handler /\ ~Unused.reading
    BY <1>1 DEF Unused, Handler
  <1>3. conn \in [Conns -> Handler] /\ \A c \in Conns : ~conn[c].reading
    BY <1>2 DEF LogInit
  <1>4. view \in LogView /\ view.at = "closed" /\ view.conn = NoConn
    BY DEF LogInit, LogView
  <1>5. LogTypes
    BY <1>1, <1>3, <1>4 DEF LogInit, LogTypes
  <1>6. Attached /\ Generations /\ OldStreamsStaySilent /\ GapInv
    BY <1>3, <1>4 DEF Attached, Generations, OldStreamsStaySilent, GapInv, Watching
  <1> QED
    BY <1>5, <1>6 DEF LogInv, StreamInv

\* Every step of view, handler and docker keeps the invariant.
LEMMA LogStep == LogInv /\ [LogNext]_logVars => LogInv'
  <1> SUFFICES ASSUME LogInv, [LogNext]_logVars PROVE LogInv'
    OBVIOUS
  <1>1. CASE SearchLogs
    BY <1>1, SearchLogsKeeps
  <1>2. CASE HandleClose
    BY <1>2, HandleCloseKeeps
  <1>3. CASE Refused \/ Reconnect
    BY <1>3, WaitKeeps
  <1>4. CASE Break
    BY <1>4, BreakKeeps
  <1>5. CASE Log
    BY <1>5, LogKeeps DEF Log
  <1>6. CASE EndOfStream
    BY <1>6, EndOfStreamKeeps
  <1>7. CASE \E c \in Conns : Connect(c)
    BY <1>7, ConnectKeeps
  <1>8. CASE \E c \in Conns : Read(c)
    BY <1>8, ReadKeeps
  <1>9. CASE \E c \in Conns : Attach(c)
    BY <1>9, AttachKeeps
  <1>10. CASE \E c \in Conns : DockerWrites(c)
    BY <1>10, DockerWritesKeeps
  <1>11. CASE \E c \in Conns : Replay(c)
    BY <1>11, ReplayKeeps
  <1>12. CASE \E c \in Conns : Heartbeat(c)
    BY <1>12, HeartbeatKeeps
  <1>13. CASE \E c \in Conns : Close(c)
    BY <1>13, CloseKeeps
  <1>14. CASE \E c \in Conns : WriteFails(c)
    BY <1>14, WriteFailsKeeps
  <1>15. CASE UNCHANGED logVars
    BY <1>15, LogKeeps DEF logVars
  <1> QED
    BY <1>1, <1>2, <1>3, <1>4, <1>5, <1>6, <1>7, <1>8, <1>9, <1>10, <1>11, <1>12, <1>13, <1>14, <1>15
    DEF LogNext, ViewStep, NodeStep

\* A stream is current only as long as the view that opened it: whatever
\* searchLogs, handleClose, reconnections and late chunks do in which order, the
\* terminal holds lines of the view's generation only.
THEOREM StreamsStaySilent == LogSpec => []OldStreamsStaySilent
  <1>1. LogInv => OldStreamsStaySilent
    BY DEF LogInv, StreamInv
  <1> QED
    BY <1>1, LogInitially, LogStep, PTL DEF LogSpec

\* A caught-up handler has brought every line since the view's first: those that
\* docker printed for it, and those printed before, which the history kept.
LEMMA CaughtUpHasAll ==
  ASSUME LogInv, CaughtUp, ~lapsed, NEW n \in view.from..logged
  PROVE  Brought(view.conn, n)
  <1> DEFINE c == view.conn
  <1>1. /\ view.at = "read" /\ conn[c].at = "live" /\ conn[c].first # 0 /\ conn[c].next > logged
    BY DEF CaughtUp
  <1>2. /\ c \in Conns /\ conn[c].next \in Nat /\ conn[c].first \in Nat /\ logged \in Nat
        /\ view.from \in Nat
    BY <1>1 DEF LogInv, StreamInv, LogTypes, Attached, Handler, LogView
  <1>3. ConnInv(c)
    BY <1>1 DEF LogInv, GapInv, Watching
  <1> HIDE DEF c
  <1>4. /\ view.from > 0 /\ conn[c].first <= conn[c].next
        /\ conn[c].first > 1 => conn[c].first <= logged
        /\ \A x \in conn[c].first .. (conn[c].next - 1) : Brought(c, x)
        /\ \/ \A x \in view.from .. (conn[c].first - 1) : Brought(c, x)
           \/ Behind(c) /\ conn[c].next = conn[c].first
    BY <1>1, <1>3 DEF ConnInv, TailInv, Active
  <1>5. CASE n >= conn[c].first
    <2>1. n \in conn[c].first .. (conn[c].next - 1)
      BY <1>1, <1>2, <1>5
    <2> QED
      BY <1>4, <2>1 DEF c
  <1>6. CASE ~(n >= conn[c].first)
    <2>1. n \in view.from .. (conn[c].first - 1) /\ conn[c].first > 1
      BY <1>2, <1>4, <1>6
    <2>2. conn[c].next # conn[c].first
      BY <1>1, <1>2, <1>4, <2>1
    <2> QED
      BY <1>4, <2>1, <2>2 DEF c
  <1> QED
    BY <1>5, <1>6

\* replay, rememberLocked and docker's tail: for any size of the tail and of the
\* history and any number of connections, a view that has caught up shows every
\* line since its first, unless lines passed by unprinted while no handler ran, the
\* history dropped one too early, or handlers numbered their events out of order.
THEOREM CaughtUpIsComplete == LogSpec => []NoGapUnlessLapse
  <1>1. LogInv => NoGapUnlessLapse
    <2>1. SUFFICES ASSUME LogInv, CaughtUp, ~lapsed, NEW n \in view.from..logged PROVE n \in Lines
      BY DEF NoGapUnlessLapse
    <2>2. Brought(view.conn, n)
      BY <2>1, CaughtUpHasAll
    <2>3. DOMAIN conn[view.conn].out = {}
      BY <2>1 DEF CaughtUp
    <2> QED
      BY <2>2, <2>3 DEF Brought, BroughtBy
  <1> QED
    BY <1>1, LogInitially, LogStep, PTL DEF LogSpec

=============================================================================
