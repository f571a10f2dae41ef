---------------------------- MODULE AgentTeam_proofs ----------------------------
(***************************************************************************)
(* Proofs about AgentTeam, for any number of runtimes, tasks, attempts and *)
(* commands.                                                               *)
(*                                                                         *)
(* Every team step is a lease step or leaves the leases alone, so all that *)
(* is proved about TeamLease holds here.  The invariant of the queue says  *)
(* which commands can stand beside which task: a start only for the        *)
(* current attempt of a task nobody has ended, a cancellation of the       *)
(* current attempt only where that attempt has ended, and, in the list,    *)
(* cancellations of older attempts before the start.  The position of a    *)
(* row is what the handlers compare, so the invariant also has to say that *)
(* positions are the numbers 1 to the length of the list.                  *)
(*                                                                         *)
(* The last part is about admission and activation.  It needs that a task  *)
(* depends on earlier tasks only, and it counts resource units: the last   *)
(* task that a pass admits was admitted with all the others counted, and   *)
(* what a pass has refused stays refused because the pass only takes       *)
(* resources.                                                              *)
(***************************************************************************)
EXTENDS AgentTeam, TeamLease_proofs, FiniteSetTheorems, WellFoundedInduction

NotBegun == Waiting \cup {"accepted"}

\* What the marks of a user's decision say about the status.
TasksFit(T) ==
    \A i \in DOMAIN T :
        /\ T[i].stop => T[i].status \notin NotBegun
        /\ T[i].done = "manual" => T[i].status = "completed"

\* Positions of distinct commands differ.
Spread(C) == \A c, d \in C : c.pos = d.pos => c = d

\* The positions are those of a list.
Placed(C) ==
    /\ IsFiniteSet(C)
    /\ \A c \in C : c.pos \in 1..Cardinality(C)
    /\ Spread(C)

Known(T, C) == \A c \in C : c.task \in DOMAIN T /\ c.attempt <= T[c.task].attempt

CurrentStarts(T, C) ==
    \A c \in Active(C) : c.kind = "start" =>
        /\ c.attempt = T[c.task].attempt
        /\ T[c.task].status \notin Waiting
        /\ ~T[c.task].stop
        /\ T[c.task].done # "manual"

SingleStarts(C) ==
    \A c, d \in Active(C) : c.kind = "start" /\ d.kind = "start" /\ c.task = d.task => c = d

EndedCancels(T, C) ==
    \A c \in Active(C) :
        c.kind = "cancel" /\ c.attempt = T[c.task].attempt => T[c.task].status \notin NotBegun

CancelsFirst(C) ==
    \A c, d \in Active(C) : c.kind = "cancel" /\ d.kind = "start" /\ c.task = d.task =>
        /\ c.attempt < d.attempt
        /\ c.pos < d.pos
        /\ c.status = "queued" /\ c.runtime = d.runtime => d.status = "queued"

QueueFits(T, C) ==
    /\ Known(T, C)
    /\ CurrentStarts(T, C)
    /\ SingleStarts(C)
    /\ EndedCancels(T, C)
    /\ CancelsFirst(C)

\* Commands wait for the latest registration, or for a runtime that quit.
Addressed(C, rows, latest, gone) ==
    \A c \in Active(C) :
        /\ rows[c.runtime].status # "absent"
        /\ c.runtime \in gone \/ rows[c.runtime].token = latest

AbsentRows == \A r \in Runtimes : runtimes[r].status = "absent" => runtimes[r].lease = Lapsed

QueueInv ==
    /\ Placed(commands)
    /\ QueueFits(tasks, commands)
    /\ Addressed(commands, runtimes, fence, quit)

TeamInv == LeaseInv /\ AbsentRows /\ TeamTypeOK /\ TasksFit(tasks) /\ QueueInv

-----------------------------------------------------------------------------
(* The rows of the command list.                                           *)

\* The fields of a command and of a command moved to another position.
LEMMA CommandFields ==
    ASSUME NEW c \in Command
    PROVE  /\ c.pos \in Nat /\ c.task \in 1..MaxTasks /\ c.kind \in {"start", "cancel", "input"}
           /\ c.attempt \in 1..MaxAttempt /\ c.runtime \in Runtimes
           /\ c.status \in {"queued", "delivered", "acked", "superseded"}
           /\ c.visible \in 0..Visibility
BY DEF Command

\* A command that gets another position keeps the rest.
LEMMA CommandMoved ==
    ASSUME NEW c \in Command, NEW n \in Nat
    PROVE  LET d == [c EXCEPT !.pos = n] IN
           /\ d \in Command /\ d.pos = n /\ d.task = c.task /\ d.kind = c.kind
           /\ d.attempt = c.attempt /\ d.runtime = c.runtime /\ d.status = c.status
BY DEF Command

\* A change that leaves the rows at their positions leaves a list.
LEMMA MapPlaced ==
    ASSUME NEW C, NEW f, Placed(C), \A c \in C : f[c].pos = c.pos
    PROVE  Placed({f[c] : c \in C})
<1> DEFINE D == {f[c] : c \in C}
           g == [c \in C |-> f[c]]
<1>1. g \in Bijection(C, D)
  <2>1. g \in [C -> D]
    OBVIOUS
  <2>2. \A c, d \in C : g[c] = g[d] => c = d
    BY DEF Placed, Spread
  <2>3. \A x \in D : \E c \in C : g[c] = x
    OBVIOUS
  <2> HIDE DEF D, g
  <2> QED
    BY <2>1, <2>2, <2>3 DEF Bijection, Injection, Surjection, IsInjective
<1>2. ExistsBijection(C, D)
  BY <1>1 DEF ExistsBijection
<1>3. IsFiniteSet(D) /\ Cardinality(D) = Cardinality(C)
  BY <1>2, FS_Bijection DEF Placed
<1>4. \A x \in D : \E c \in C : x = f[c]
  OBVIOUS
<1>5. Placed(D)
  <2> HIDE DEF D
  <2>1. \A x \in D : x.pos \in 1..Cardinality(D)
    BY <1>3, <1>4 DEF Placed
  <2>2. Spread(D)
    BY <1>4 DEF Placed, Spread
  <2> QED
    BY <1>3, <2>1, <2>2 DEF Placed
<1> QED
  BY <1>5

\* Distinct positions below a bound leave room for finitely many commands.
LEMMA SpreadFinite ==
    ASSUME NEW C, Spread(C), NEW n \in Nat, \A c \in C : c.pos \in 1..n
    PROVE  IsFiniteSet(C)
<1> DEFINE f == [c \in C |-> c.pos]
<1>1. f \in Injection(C, 1..n)
  BY DEF Injection, IsInjective, Spread
<1>2. IsFiniteSet(1..n)
  BY FS_Interval
<1> HIDE DEF f
<1> QED
  BY <1>1, <1>2, FS_Injection

\* The number of rows up to a row.
Rank(C, c) == Cardinality({d \in C : d.pos <= c.pos})

\* Ranks are list positions and keep the order.
LEMMA RankFacts ==
    ASSUME NEW C, IsFiniteSet(C), Spread(C), \A c \in C : c.pos \in Nat
    PROVE  /\ \A c \in C : Rank(C, c) \in 1..Cardinality(C)
           /\ \A c, d \in C : c.pos < d.pos => Rank(C, c) < Rank(C, d)
<1> DEFINE Upto(c) == {d \in C : d.pos <= c.pos}
<1>1. Cardinality(C) \in Nat
  BY FS_CardinalityType
<1>2. ASSUME NEW c \in C PROVE IsFiniteSet(Upto(c)) /\ Cardinality(Upto(c)) \in 1..Cardinality(C)
  <2>1. Upto(c) \in SUBSET C /\ c \in Upto(c)
    OBVIOUS
  <2> HIDE DEF Upto
  <2>2. IsFiniteSet(Upto(c)) /\ Cardinality(Upto(c)) <= Cardinality(C)
    BY <2>1, FS_Subset
  <2>3. Cardinality(Upto(c)) \in Nat /\ Cardinality(Upto(c)) # 0
    BY <2>1, <2>2, FS_CardinalityType, FS_EmptySet
  <2> QED
    BY <1>1, <2>2, <2>3
<1>3. ASSUME NEW c \in C, NEW d \in C, c.pos < d.pos
      PROVE  Cardinality(Upto(c)) < Cardinality(Upto(d))
  <2>1. Upto(c) \in SUBSET Upto(d) /\ Upto(c) # Upto(d)
    BY <1>3
  <2> HIDE DEF Upto
  <2>2. IsFiniteSet(Upto(d)) /\ Cardinality(Upto(c)) \in Nat /\ Cardinality(Upto(d)) \in Nat
    BY <1>1, <1>2
  <2>3. Cardinality(Upto(c)) <= Cardinality(Upto(d)) /\ Cardinality(Upto(c)) # Cardinality(Upto(d))
    BY <2>1, <2>2, FS_Subset
  <2> QED
    BY <2>2, <2>3
<1> QED
  BY <1>2, <1>3 DEF Rank

\* D has the rows K of C, moved by f in their order, and with them all that can
\* still be delivered.
Keeps(C, D, K, f) ==
    /\ D = {f[c] : c \in K}
    /\ Active(C) \subseteq K
    /\ \A c \in K : /\ f[c].task = c.task /\ f[c].kind = c.kind
                    /\ f[c].attempt = c.attempt /\ f[c].runtime = c.runtime
                    /\ f[c].status = c.status
    /\ \A c, d \in K : c.pos < d.pos => f[c].pos < f[d].pos

\* compactTeamCommandsLocked leaves a list, keeps the order of the rows it
\* keeps, and keeps all that can still be delivered.
LEMMA CompactFacts ==
    ASSUME NEW C \in SUBSET Command, IsFiniteSet(C), Spread(C)
    PROVE  /\ Placed(Compact(C))
           /\ Compact(C) \subseteq Command
           /\ \E K \in SUBSET C : \E f : Keeps(C, Compact(C), K, f)
<1> DEFINE K == {c \in C : \/ ~Terminal(c)
                           \/ Cardinality({d \in C : Terminal(d) /\ d.pos > c.pos}) < CommandHistory}
           f == [c \in K |-> [c EXCEPT !.pos = Rank(K, c)]]
           D == {f[c] : c \in K}
<1>1. Compact(C) = D
  BY DEF Compact, Ranked, Rank
<1>2. K \in SUBSET C /\ Active(C) \subseteq K
  BY DEF Active
<1> HIDE DEF K
<1>3. IsFiniteSet(K) /\ Spread(K) /\ \A c \in K : c \in Command /\ c.pos \in Nat
  BY <1>2, FS_Subset, CommandFields DEF Spread
<1>4. /\ \A c \in K : Rank(K, c) \in 1..Cardinality(K)
      /\ \A c, d \in K : c.pos < d.pos => Rank(K, c) < Rank(K, d)
  BY <1>3, RankFacts
<1>5. Cardinality(K) \in Nat
  BY <1>3, FS_CardinalityType
<1>6. \A c \in K : /\ f[c] \in Command /\ f[c].pos = Rank(K, c)
                   /\ f[c].task = c.task /\ f[c].kind = c.kind
                   /\ f[c].attempt = c.attempt /\ f[c].runtime = c.runtime
                   /\ f[c].status = c.status
  <2> SUFFICES ASSUME NEW c \in K
               PROVE  /\ f[c] \in Command /\ f[c].pos = Rank(K, c)
                      /\ f[c].task = c.task /\ f[c].kind = c.kind
                      /\ f[c].attempt = c.attempt /\ f[c].runtime = c.runtime
                      /\ f[c].status = c.status
    OBVIOUS
  <2>1. Rank(K, c) \in Nat
    BY <1>4, <1>5
  <2> QED
    BY <1>3, <2>1, CommandMoved
<1>7. \A c, d \in K : c.pos < d.pos => f[c].pos < f[d].pos
  BY <1>4, <1>6
<1>8. \A c, d \in K : f[c].pos = f[d].pos => c = d
  <2> SUFFICES ASSUME NEW c \in K, NEW d \in K, f[c].pos = f[d].pos PROVE c = d
    OBVIOUS
  <2>1. ~(c.pos < d.pos) /\ ~(d.pos < c.pos)
    BY <1>4, <1>5, <1>6
  <2> QED
    BY <1>3, <2>1 DEF Spread
<1>9. f \in [K -> D]
  OBVIOUS
<1> HIDE DEF f
<1>10. f \in Bijection(K, D)
  BY <1>8, <1>9 DEF Bijection, Injection, Surjection, IsInjective
<1>11. IsFiniteSet(D) /\ Cardinality(D) = Cardinality(K)
  <2>1. ExistsBijection(K, D)
    BY <1>10 DEF ExistsBijection
  <2> QED
    BY <1>3, <2>1, FS_Bijection
<1>12. Placed(D) /\ D \subseteq Command
  <2>1. \A x \in D : \E c \in K : x = f[c]
    OBVIOUS
  <2> HIDE DEF D
  <2>2. \A x \in D : x \in Command /\ x.pos \in 1..Cardinality(D)
    BY <1>4, <1>6, <1>11, <2>1
  <2>3. Spread(D)
    BY <1>8, <2>1 DEF Spread
  <2> QED
    BY <1>11, <2>2, <2>3 DEF Placed
<1>13. D = {f[c] : c \in K}
  OBVIOUS
<1> HIDE DEF D
<1>14. Keeps(C, D, K, f)
  BY <1>2, <1>6, <1>7, <1>13 DEF Keeps
<1> QED
  BY <1>1, <1>2, <1>12, <1>14

-----------------------------------------------------------------------------
(* What changes of the queue preserve.                                     *)

\* D has rows of K: they may have been dropped, have ended, or have moved as
\* long as they kept their order.
Shrinks(D, K, f) ==
    /\ \A x \in D : \E c \in K : x = f[c]
    /\ \A c \in K : /\ f[c].task = c.task /\ f[c].kind = c.kind
                    /\ f[c].attempt = c.attempt /\ f[c].runtime = c.runtime
                    /\ Terminal(f[c]) \/ f[c].status = c.status
    /\ \A c, d \in K : c.pos < d.pos => f[c].pos < f[d].pos

\* Dropping commands and closing the gaps keeps the queue in order.
LEMMA ShrinkFits ==
    ASSUME NEW T, NEW C, NEW K \in SUBSET C, NEW f, NEW D, QueueFits(T, C), Shrinks(D, K, f)
    PROVE  QueueFits(T, D)
<1>1. \A x \in D : \E c \in K : x = f[c] /\ x.task = c.task /\ x.attempt = c.attempt
  BY DEF Shrinks
<1>2. \A x \in Active(D) : \E c \in Active(C) :
        /\ c \in K /\ x = f[c] /\ x.status = c.status /\ x.task = c.task
        /\ x.kind = c.kind /\ x.attempt = c.attempt /\ x.runtime = c.runtime
  BY DEF Active, Terminal, Shrinks
<1>3. Known(T, D)
  BY <1>1 DEF QueueFits, Known
<1>4. CurrentStarts(T, D)
  BY <1>2 DEF QueueFits, CurrentStarts
<1>5. SingleStarts(D)
  BY <1>2 DEF QueueFits, SingleStarts
<1>6. EndedCancels(T, D)
  BY <1>2 DEF QueueFits, EndedCancels
<1>7. CancelsFirst(D)
  <2>1. \A c, d \in K : c.pos < d.pos => f[c].pos < f[d].pos
    BY DEF Shrinks
  <2> QED
    BY <1>2, <2>1 DEF QueueFits, CancelsFirst
<1> QED
  BY <1>3, <1>4, <1>5, <1>6, <1>7 DEF QueueFits

\* It leaves the addresses of the commands alone.
LEMMA ShrinkAddressed ==
    ASSUME NEW C, NEW K \in SUBSET C, NEW f, NEW D, NEW rows, NEW latest, NEW gone,
           Addressed(C, rows, latest, gone), Shrinks(D, K, f)
    PROVE  Addressed(D, rows, latest, gone)
BY DEF Addressed, Active, Terminal, Shrinks

\* Compaction changes nothing that the queue is about.
LEMMA CompactFits ==
    ASSUME NEW T, NEW C \in SUBSET Command, IsFiniteSet(C), Spread(C), QueueFits(T, C),
           NEW rows, NEW latest, NEW gone, Addressed(C, rows, latest, gone)
    PROVE  /\ Placed(Compact(C)) /\ Compact(C) \subseteq Command
           /\ QueueFits(T, Compact(C))
           /\ Addressed(Compact(C), rows, latest, gone)
<1>1. Placed(Compact(C)) /\ Compact(C) \subseteq Command
  BY CompactFacts
<1>2. PICK K \in SUBSET C : \E f : Keeps(C, Compact(C), K, f)
  BY CompactFacts
<1>3. PICK f : Keeps(C, Compact(C), K, f)
  BY <1>2
<1>4. Shrinks(Compact(C), K, f)
  BY <1>3 DEF Keeps, Shrinks
<1>5. QueueFits(T, Compact(C))
  BY <1>4, ShrinkFits
<1>6. Addressed(Compact(C), rows, latest, gone)
  BY <1>4, ShrinkAddressed
<1> QED
  BY <1>1, <1>5, <1>6

\* Among rows with tokens there is a first one.
LEMMA FirstRowIn ==
    ASSUME NEW rows \in [Runtimes -> Row], NEW S \in SUBSET Runtimes, S # {}
    PROVE  FirstRow(rows, S) \in S
<1> DEFINE N == {rows[r].token : r \in S}
           less == {ss \in Nat \X Nat : ss[1] < ss[2]}
<1>1. \A r \in S : rows[r].token \in Nat
  BY LeaseAssumption DEF Row
<1>2. N \subseteq Nat /\ N # {} /\ \A n \in N : \E r \in S : rows[r].token = n
  BY <1>1
<1>3. \A r \in S : rows[r].token \in N
  OBVIOUS
<1>4. IsWellFoundedOn(less, Nat)
  BY NatLessThanWellFounded DEF OpToRel
<1> HIDE DEF N
<1>5. \E n \in N : \A m \in N : ~(<<m, n>> \in less)
  <2> HIDE DEF less
  <2> QED
    BY <1>2, <1>4, WFMin
<1>6. PICK n \in N : \A m \in N : ~(<<m, n>> \in less)
  BY <1>5
<1>7. \A m \in N : n <= m
  <2> SUFFICES ASSUME NEW m \in N PROVE n <= m
    OBVIOUS
  <2>1. m \in Nat /\ n \in Nat
    BY <1>2
  <2>2. m < n => <<m, n>> \in less
    BY <2>1
  <2> HIDE DEF less
  <2>3. ~(<<m, n>> \in less)
    BY <1>6
  <2> QED
    BY <2>1, <2>2, <2>3
<1>8. PICK r \in S : rows[r].token = n
  BY <1>2
<1>9. \A q \in S : rows[r].token <= rows[q].token
  BY <1>3, <1>7, <1>8
<1> QED
  BY <1>9 DEF FirstRow

\* New commands go to the latest registration, or to a runtime that quit.
TargetFits(rows, latest, gone) ==
    Targets(rows) # {} =>
        LET r == FirstRow(rows, Targets(rows)) IN
        r \in Runtimes /\ rows[r].status # "absent" /\ (r \in gone \/ rows[r].token = latest)

\* What the handlers may append to the queue C of the tasks T.
ItemsFit(T, C, items) ==
    /\ \A x \in items :
         /\ x.at \in 1..(MaxTasks + 2) /\ x.task \in 1..MaxTasks /\ x.task \in DOMAIN T
         /\ x.kind \in {"start", "cancel", "input"}
         /\ x.attempt \in 1..MaxAttempt /\ x.attempt <= T[x.task].attempt
         /\ x.kind \in {"start", "cancel"} =>
              \A c \in Active(C) : c.kind = "start" => c.task # x.task
         /\ x.kind = "start" =>
              x.attempt = T[x.task].attempt /\ T[x.task].status = "accepted"
         /\ x.kind = "cancel" /\ x.attempt = T[x.task].attempt =>
              T[x.task].status \notin NotBegun
    /\ \A x, y \in items :
         /\ x.at = y.at => x = y
         /\ x.kind = "start" /\ y.kind = "start" /\ x.task = y.task => x = y
         /\ x.kind = "cancel" /\ y.kind = "start" /\ x.task = y.task => x.at < y.at

NewCommand(n, r, x) ==
    [pos |-> n + x.at, task |-> x.task, kind |-> x.kind, attempt |-> x.attempt,
     runtime |-> r, status |-> "queued", visible |-> 0]

\* The row that enqueueTaskCommandLocked appends for an item.
LEMMA NewCommandFields ==
    ASSUME NEW n \in Nat, NEW r \in Runtimes, NEW x,
           x.at \in 1..(MaxTasks + 2), x.task \in 1..MaxTasks,
           x.kind \in {"start", "cancel", "input"}, x.attempt \in 1..MaxAttempt
    PROVE  LET d == NewCommand(n, r, x) IN
           /\ d \in Command /\ d.pos = n + x.at /\ d.pos \in Nat
           /\ d.task = x.task /\ d.kind = x.kind /\ d.attempt = x.attempt
           /\ d.runtime = r /\ d.status = "queued"
BY TeamAssumption DEF NewCommand, Command

\* Commands appended behind the list leave it in order.
LEMMA AppendedFits ==
    ASSUME NEW T, TasksFit(T), NEW C \in SUBSET Command, Placed(C), QueueFits(T, C),
           \A i \in DOMAIN T : T[i].attempt \in Nat /\ T[i].stop \in BOOLEAN,
           NEW items, ItemsFit(T, C, items), NEW r \in Runtimes,
           NEW N, \A d \in N : \E x \in items : d = NewCommand(Cardinality(C), r, x)
    PROVE  /\ C \cup N \subseteq Command /\ IsFiniteSet(C \cup N) /\ Spread(C \cup N)
           /\ QueueFits(T, C \cup N)
<1> DEFINE n == Cardinality(C)
           E == C \cup N
<1>1. n \in Nat /\ \A c \in C : c.pos \in 1..n /\ c \in Command
  BY FS_CardinalityType DEF Placed
<1>2. \A d \in N : \E x \in items : d = NewCommand(n, r, x)
  OBVIOUS
<1> HIDE DEF n
<1>3. \A d \in N : \E x \in items :
        /\ d = NewCommand(n, r, x) /\ d \in Command /\ d.pos = n + x.at
        /\ d.task = x.task /\ d.kind = x.kind /\ d.attempt = x.attempt
        /\ d.runtime = r /\ d.status = "queued"
  <2> SUFFICES ASSUME NEW d \in N
               PROVE  \E x \in items :
                        /\ d = NewCommand(n, r, x) /\ d \in Command /\ d.pos = n + x.at
                        /\ d.task = x.task /\ d.kind = x.kind /\ d.attempt = x.attempt
                        /\ d.runtime = r /\ d.status = "queued"
    OBVIOUS
  <2>1. PICK x \in items : d = NewCommand(n, r, x)
    BY <1>2
  <2>2. /\ x.at \in 1..(MaxTasks + 2) /\ x.task \in 1..MaxTasks
        /\ x.kind \in {"start", "cancel", "input"} /\ x.attempt \in 1..MaxAttempt
    BY DEF ItemsFit
  <2>3. /\ d \in Command /\ d.pos = n + x.at
        /\ d.task = x.task /\ d.kind = x.kind /\ d.attempt = x.attempt
        /\ d.runtime = r /\ d.status = "queued"
    BY <1>1, <2>1, <2>2, NewCommandFields
  <2> QED
    BY <2>1, <2>3
<1>4. E \subseteq Command
  BY <1>3
<1>5. \A x \in items : x.at \in 1..(MaxTasks + 2)
  BY DEF ItemsFit
<1>6. \A c \in C, d \in N : c.pos < d.pos
  BY <1>1, <1>3, <1>5, TeamAssumption
<1>7. \A d, e \in N : d.pos = e.pos => d = e
  <2> SUFFICES ASSUME NEW d \in N, NEW e \in N, d.pos = e.pos PROVE d = e
    OBVIOUS
  <2>1. PICK x \in items : d = NewCommand(n, r, x) /\ d.pos = n + x.at
    BY <1>3
  <2>2. PICK y \in items : e = NewCommand(n, r, y) /\ e.pos = n + y.at
    BY <1>3
  <2>3. x.at = y.at
    BY <1>1, <1>5, <2>1, <2>2, TeamAssumption
  <2> QED
    BY <2>1, <2>2, <2>3 DEF ItemsFit
<1>8. \A c \in E : c.pos \in 1..(n + MaxTasks + 2)
  BY <1>1, <1>3, <1>5, TeamAssumption
<1>9. Spread(E)
  <2> SUFFICES ASSUME NEW c \in E, NEW d \in E, c.pos = d.pos PROVE c = d
    BY DEF Spread
  <2>1. c.pos \in Nat /\ d.pos \in Nat
    BY <1>4, CommandFields
  <2> QED
    BY <1>6, <1>7, <2>1 DEF Placed, Spread
<1>10. IsFiniteSet(E)
  <2> HIDE DEF E
  <2>1. n + MaxTasks + 2 \in Nat
    BY <1>1, TeamAssumption
  <2> QED
    BY <1>8, <1>9, <2>1, SpreadFinite
<1>11. \A c \in Active(E) : c \in Active(C) \/ c \in N
  BY DEF Active
<1> HIDE DEF E
<1>12. Known(T, E)
  <2> SUFFICES ASSUME NEW c \in E PROVE c.task \in DOMAIN T /\ c.attempt <= T[c.task].attempt
    BY DEF Known
  <2>1. CASE c \in C
    BY <2>1 DEF QueueFits, Known
  <2>2. CASE c \in N
    BY <1>3, <2>2 DEF ItemsFit
  <2> QED
    BY <2>1, <2>2 DEF E
<1>13. CurrentStarts(T, E)
  <2> SUFFICES ASSUME NEW c \in Active(E), c.kind = "start"
               PROVE  /\ c.attempt = T[c.task].attempt
                      /\ T[c.task].status \notin Waiting
                      /\ ~T[c.task].stop
                      /\ T[c.task].done # "manual"
    BY DEF CurrentStarts
  <2>1. CASE c \in Active(C)
    BY <2>1 DEF QueueFits, CurrentStarts
  <2>2. CASE c \in N
    <3>1. /\ c.task \in DOMAIN T /\ c.attempt = T[c.task].attempt
          /\ T[c.task].status = "accepted"
      BY <1>3, <2>2 DEF ItemsFit
    <3> QED
      BY <3>1 DEF TasksFit, NotBegun, Waiting
  <2> QED
    BY <1>11, <2>1, <2>2
<1>14. SingleStarts(E)
  <2> SUFFICES ASSUME NEW c \in Active(E), NEW d \in Active(E), c.kind = "start",
                      d.kind = "start", c.task = d.task
               PROVE  c = d
    BY DEF SingleStarts
  <2>1. CASE c \in Active(C) /\ d \in Active(C)
    BY <2>1 DEF QueueFits, SingleStarts
  <2>2. CASE c \in N /\ d \in N
    <3>1. PICK x \in items : c = NewCommand(n, r, x) /\ c.kind = x.kind /\ c.task = x.task
      BY <1>3, <2>2
    <3>2. PICK y \in items : d = NewCommand(n, r, y) /\ d.kind = y.kind /\ d.task = y.task
      BY <1>3, <2>2
    <3>3. x = y
      BY <3>1, <3>2 DEF ItemsFit
    <3> QED
      BY <3>1, <3>2, <3>3
  <2>3. CASE c \in N /\ d \in Active(C)
    BY <1>3, <2>3 DEF ItemsFit
  <2>4. CASE c \in Active(C) /\ d \in N
    BY <1>3, <2>4 DEF ItemsFit
  <2> QED
    BY <1>11, <2>1, <2>2, <2>3, <2>4
<1>15. EndedCancels(T, E)
  <2> SUFFICES ASSUME NEW c \in Active(E), c.kind = "cancel", c.attempt = T[c.task].attempt
               PROVE  T[c.task].status \notin NotBegun
    BY DEF EndedCancels
  <2>1. CASE c \in Active(C)
    BY <2>1 DEF QueueFits, EndedCancels
  <2>2. CASE c \in N
    BY <1>3, <2>2 DEF ItemsFit
  <2> QED
    BY <1>11, <2>1, <2>2
<1>16. CancelsFirst(E)
  <2> SUFFICES ASSUME NEW c \in Active(E), NEW d \in Active(E), c.kind = "cancel",
                      d.kind = "start", c.task = d.task
               PROVE  /\ c.attempt < d.attempt
                      /\ c.pos < d.pos
                      /\ c.status = "queued" /\ c.runtime = d.runtime => d.status = "queued"
    BY DEF CancelsFirst
  <2>1. CASE d \in Active(C)
    <3>1. c \in Active(C)
      BY <1>3, <1>11, <2>1 DEF ItemsFit
    <3> QED
      BY <2>1, <3>1 DEF QueueFits, CancelsFirst
  <2>2. CASE d \in N
    <3>1. /\ d.task \in DOMAIN T /\ d.attempt = T[d.task].attempt
          /\ T[d.task].status = "accepted" /\ d.status = "queued"
      BY <1>3, <2>2 DEF ItemsFit
    <3>2. c.attempt <= T[c.task].attempt /\ c.attempt # T[c.task].attempt
      <4>1. c \in E
        BY DEF Active
      <4> QED
        BY <1>12, <1>15, <3>1, <4>1 DEF Known, EndedCancels, NotBegun
    <3>3. c.attempt \in Nat /\ T[c.task].attempt \in Nat
      <4>1. c \in Command
        BY <1>4 DEF Active
      <4> QED
        BY <3>1, <4>1, CommandFields, TeamAssumption
    <3>4. c.pos < d.pos
      <4>1. CASE c \in C
        BY <1>6, <2>2, <4>1
      <4>2. CASE c \in N
        <5>1. PICK x \in items : c.pos = n + x.at /\ c.kind = x.kind /\ c.task = x.task
          BY <1>3, <4>2
        <5>2. PICK y \in items : d.pos = n + y.at /\ d.kind = y.kind /\ d.task = y.task
          BY <1>3, <2>2
        <5>3. x.at < y.at
          BY <5>1, <5>2 DEF ItemsFit
        <5> QED
          BY <1>1, <1>5, <5>1, <5>2, <5>3, TeamAssumption
      <4> QED
        BY <1>11, <4>1, <4>2 DEF Active
    <3> QED
      BY <3>1, <3>2, <3>3, <3>4
  <2> QED
    BY <1>11, <2>1, <2>2
<1>17. QueueFits(T, E)
  BY <1>12, <1>13, <1>14, <1>15, <1>16 DEF QueueFits
<1> QED
  BY <1>4, <1>9, <1>10, <1>17 DEF E

\* A queue as the handlers leave it, for the tasks T and the lease table.
Sound(T, C, rows, latest, gone) ==
    /\ C \subseteq Command
    /\ Placed(C)
    /\ QueueFits(T, C)
    /\ Addressed(C, rows, latest, gone)

\* enqueueTaskCommandLocked, for all the commands of a handler.
LEMMA EnqueueSound ==
    ASSUME NEW T \in Seq(Task), TasksFit(T), NEW C, NEW rows, NEW latest, NEW gone, NEW items,
           Sound(T, C, rows, latest, gone), ItemsFit(T, C, items),
           TargetFits(rows, latest, gone)
    PROVE  Sound(T, Enqueue(C, rows, items), rows, latest, gone)
<1> DEFINE r == FirstRow(rows, Targets(rows))
           N == {NewCommand(Cardinality(C), r, x) : x \in items}
           E == C \cup N
<1>1. CASE items = {} \/ Targets(rows) = {}
  BY <1>1 DEF Enqueue
<1>2. CASE items # {} /\ Targets(rows) # {}
  <2>1. Enqueue(C, rows, items) = Compact(E)
    BY <1>2 DEF Enqueue, NewCommand
  <2>2. r \in Runtimes /\ rows[r].status # "absent" /\ (r \in gone \/ rows[r].token = latest)
    BY <1>2 DEF TargetFits
  <2>3. \A i \in DOMAIN T : T[i].attempt \in Nat /\ T[i].stop \in BOOLEAN
    <3>1. \A i \in DOMAIN T : T[i] \in Task
      OBVIOUS
    <3> QED
      BY <3>1, TeamAssumption DEF Task
  <2> HIDE DEF r
  <2>4. E \subseteq Command /\ IsFiniteSet(E) /\ Spread(E) /\ QueueFits(T, E)
    <3>1. r \in Runtimes
      BY <2>2
    <3>2. C \in SUBSET Command /\ Placed(C) /\ QueueFits(T, C)
      BY DEF Sound
    <3>3. \A d \in N : \E x \in items : d = NewCommand(Cardinality(C), r, x)
      OBVIOUS
    <3> HIDE DEF N
    <3> QED
      BY <2>3, <3>1, <3>2, <3>3, AppendedFits
  <2>5. \A d \in N : d.runtime = r
    BY DEF NewCommand
  <2> HIDE DEF N
  <2>6. Addressed(E, rows, latest, gone)
    BY <2>2, <2>5 DEF Addressed, Active, Sound
  <2> HIDE DEF E
  <2>7. /\ Placed(Compact(E)) /\ Compact(E) \subseteq Command
        /\ QueueFits(T, Compact(E)) /\ Addressed(Compact(E), rows, latest, gone)
    BY <2>4, <2>6, CompactFits
  <2> QED
    BY <2>1, <2>7 DEF Sound
<1> QED
  BY <1>1, <1>2

\* A change of the lease table that issues no token.
LEMMA SameTokensSound ==
    ASSUME NEW T, NEW C, NEW rows, NEW rows2, NEW latest, NEW gone, NEW gone2,
           Sound(T, C, rows, latest, gone), gone \subseteq gone2,
           \A r \in Runtimes :
              /\ rows2[r].token = rows[r].token
              /\ rows[r].status # "absent" => rows2[r].status # "absent"
    PROVE  Sound(T, C, rows2, latest, gone2)
<1>1. \A c \in C : c.runtime \in Runtimes
  BY CommandFields DEF Sound
<1> QED
  BY <1>1 DEF Sound, Addressed, Active

\* supersedeTeamCommandsLocked leaves no command of the task to be delivered.
LEMMA SupersedeSound ==
    ASSUME NEW T, NEW C, NEW rows, NEW latest, NEW gone, NEW i,
           Sound(T, C, rows, latest, gone)
    PROVE  /\ Sound(T, Supersede(C, i), rows, latest, gone)
           /\ \A c \in Active(Supersede(C, i)) : c.task # i
<1> DEFINE f == [c \in C |-> IF c.task = i /\ ~Terminal(c)
                             THEN [c EXCEPT !.status = "superseded", !.visible = 0] ELSE c]
           D == {f[c] : c \in C}
<1>1. Supersede(C, i) = D
  BY DEF Supersede
<1>2. \A c \in C : /\ f[c] \in Command /\ f[c].pos = c.pos
                   /\ f[c].task = c.task /\ f[c].kind = c.kind
                   /\ f[c].attempt = c.attempt /\ f[c].runtime = c.runtime
                   /\ Terminal(f[c]) \/ (f[c] = c /\ c.task # i)
  <2> SUFFICES ASSUME NEW c \in C
               PROVE  /\ f[c] \in Command /\ f[c].pos = c.pos
                      /\ f[c].task = c.task /\ f[c].kind = c.kind
                      /\ f[c].attempt = c.attempt /\ f[c].runtime = c.runtime
                      /\ Terminal(f[c]) \/ (f[c] = c /\ c.task # i)
    OBVIOUS
  <2>1. c \in Command /\ 0 \in 0..Visibility
    BY TeamAssumption DEF Sound
  <2>2. CASE c.task = i /\ ~Terminal(c)
    <3>1. f[c] = [c EXCEPT !.status = "superseded", !.visible = 0]
      BY <2>2
    <3> HIDE DEF f
    <3>2. /\ f[c] \in Command /\ f[c].pos = c.pos
          /\ f[c].task = c.task /\ f[c].kind = c.kind
          /\ f[c].attempt = c.attempt /\ f[c].runtime = c.runtime
          /\ f[c].status = "superseded"
      BY <2>1, <3>1 DEF Command
    <3> QED
      BY <3>2 DEF Terminal
  <2>3. CASE ~(c.task = i /\ ~Terminal(c))
    BY <2>1, <2>3
  <2> QED
    BY <2>2, <2>3
<1>3. \A x \in D : \E c \in C : x = f[c]
  OBVIOUS
<1> HIDE DEF f
<1>4. Placed(D)
  BY <1>2, MapPlaced DEF Sound
<1> HIDE DEF D
<1>5. Shrinks(D, C, f)
  BY <1>2, <1>3 DEF Shrinks
<1>6. QueueFits(T, D) /\ Addressed(D, rows, latest, gone)
  BY <1>5, ShrinkFits, ShrinkAddressed DEF Sound
<1>7. D \subseteq Command
  BY <1>2, <1>3
<1>8. \A c \in Active(D) : c.task # i
  BY <1>2, <1>3 DEF Active
<1> QED
  BY <1>1, <1>4, <1>6, <1>7, <1>8 DEF Sound

-----------------------------------------------------------------------------
(* What changes of the tasks preserve.                                     *)

\* A change of a task that its commands survive.
Moves(t, u) ==
    /\ u.attempt = t.attempt
    /\ u.stop = t.stop
    /\ u.done = "manual" => t.done = "manual"
    /\ t.status \notin Waiting => u.status \notin Waiting
    /\ t.status \notin NotBegun => u.status \notin NotBegun

\* The queue stays sound when tasks only move forward within their attempt, or
\* have no command that could disagree.
LEMMA TasksMove ==
    ASSUME NEW T, NEW U, NEW C, NEW rows, NEW latest, NEW gone, Sound(T, C, rows, latest, gone),
           DOMAIN T \subseteq DOMAIN U,
           \A j \in DOMAIN T : T[j].attempt \in Nat /\ U[j].attempt \in Nat,
           \A j \in DOMAIN T :
              \/ Moves(T[j], U[j])
              \/ T[j].attempt <= U[j].attempt /\ \A c \in Active(C) : c.task # j
    PROVE  Sound(U, C, rows, latest, gone)
<1>1. \A c \in Active(C) : c \in C
  BY DEF Active
<1>2. \A c \in C : c.task \in DOMAIN T /\ c.attempt <= T[c.task].attempt /\ c.attempt \in Nat
  BY CommandFields, TeamAssumption DEF Sound, QueueFits, Known
<1>3. \A c \in Active(C) : Moves(T[c.task], U[c.task])
  BY <1>1, <1>2
<1>4. Known(U, C)
  <2> SUFFICES ASSUME NEW c \in C
               PROVE  c.task \in DOMAIN U /\ c.attempt <= U[c.task].attempt
    BY DEF Known
  <2>1. T[c.task].attempt <= U[c.task].attempt
    BY <1>2 DEF Moves
  <2> QED
    BY <1>2, <2>1
<1>5. CurrentStarts(U, C)
  BY <1>3 DEF Sound, QueueFits, CurrentStarts, Moves
<1>6. EndedCancels(U, C)
  BY <1>3 DEF Sound, QueueFits, EndedCancels, Moves
<1> QED
  BY <1>4, <1>5, <1>6 DEF Sound, QueueFits

\* The fields of a task, and of a task with another status.
LEMMA TaskFields ==
    ASSUME NEW t \in Task
    PROVE  /\ t.status \in TaskStatus /\ t.attempt \in 1..MaxAttempt /\ t.attempt \in Nat
           /\ t.stop \in BOOLEAN /\ t.deps \in Seq(1..MaxTasks) /\ t.units \in Profiles
           /\ t.done \in {"none", "manual", "agent_report"}
BY TeamAssumption DEF Task

\* A task that gets another status keeps the rest.
LEMMA TaskStatusChanged ==
    ASSUME NEW t \in Task, NEW s \in TaskStatus
    PROVE  LET u == [t EXCEPT !.status = s] IN
           /\ u \in Task /\ u.status = s /\ u.attempt = t.attempt /\ u.stop = t.stop
           /\ u.done = t.done /\ (t.status = s => u = t)
<1> DEFINE u == [t EXCEPT !.status = s]
<1>1. u \in Task /\ u.status = s /\ u.attempt = t.attempt /\ u.stop = t.stop /\ u.done = t.done
  BY DEF Task
<1>2. t.status = s => u = t
  BY DEF Task
<1> QED
  BY <1>1, <1>2

\* Activation decides about waiting tasks only.
LEMMA OutcomeFacts ==
    ASSUME NEW T, NEW new \in Outcomes(T)
    PROVE  \A i \in DOMAIN T :
              \/ T[i].status \in Waiting /\ new[i] \in Waiting \cup {"accepted", "blocked"}
              \/ T[i].status \notin Waiting /\ new[i] = T[i].status
<1> DEFINE waiting == {i \in DOMAIN T : T[i].status \in Waiting}
<1>1. PICK f \in [waiting -> Waiting \cup {"accepted", "blocked"}] :
        new = [i \in DOMAIN T |-> IF i \in waiting THEN f[i] ELSE T[i].status]
  BY DEF Outcomes
<1> SUFFICES ASSUME NEW i \in DOMAIN T
             PROVE  \/ T[i].status \in Waiting /\ new[i] \in Waiting \cup {"accepted", "blocked"}
                    \/ T[i].status \notin Waiting /\ new[i] = T[i].status
  OBVIOUS
<1>2. CASE T[i].status \in Waiting
  <2>1. i \in waiting
    BY <1>2
  <2> HIDE DEF waiting
  <2>2. new[i] = f[i] /\ f[i] \in Waiting \cup {"accepted", "blocked"}
    BY <1>1, <2>1
  <2> QED
    BY <1>2, <2>2
<1>3. CASE T[i].status \notin Waiting
  BY <1>1, <1>3
<1> QED
  BY <1>2, <1>3

\* The cancellation that goes with the end of an attempt, if there is one.
EndingItems(T, C, items) ==
    \/ items = {}
    \/ \E i \in DOMAIN T, at \in {1, MaxTasks + 2} :
         /\ items = {Item(at, i, "cancel", T[i].attempt)}
         /\ T[i].status \notin NotBegun
         /\ \A c \in Active(C) : c.task # i

\* The fields of an item.
LEMMA ItemFields ==
    ASSUME NEW at, NEW i, NEW kind, NEW attempt
    PROVE  LET x == Item(at, i, kind, attempt) IN
           x.at = at /\ x.task = i /\ x.kind = kind /\ x.attempt = attempt
BY DEF Item

\* activateReadyTeamTasksLocked at the end of a handler: what it admits has no
\* start yet, and what has one it leaves alone.
LEMMA ActivateSound ==
    ASSUME NEW T \in Seq(Task), Len(T) <= MaxTasks, TasksFit(T), NEW C,
           Sound(T, C, runtimes, fence, quit), TargetFits(runtimes, fence, quit),
           NEW items, EndingItems(T, C, items), ActivateReady(T, C, items)
    PROVE  /\ tasks' \in Seq(Task) /\ Len(tasks') = Len(T) /\ TasksFit(tasks')
           /\ \A i \in DOMAIN T : T[i].status \notin Waiting => tasks'[i] = T[i]
           /\ Sound(tasks', commands', runtimes, fence, quit)
<1>1. PICK new \in Outcomes(T) :
        /\ tasks' = [i \in DOMAIN T |-> [T[i] EXCEPT !.status = new[i]]]
        /\ commands' = Enqueue(C, runtimes, items \cup
               Starts(T, {i \in DOMAIN T : new[i] = "accepted" /\ T[i].status # "accepted"}))
  BY DEF ActivateReady
<1> DEFINE I == {i \in DOMAIN T : new[i] = "accepted" /\ T[i].status # "accepted"}
           S == Starts(T, I)
<1>2. DOMAIN T = 1..Len(T) /\ Len(T) \in Nat /\ \A i \in DOMAIN T : T[i] \in Task
  OBVIOUS
<1>3. \A i \in DOMAIN T :
              \/ T[i].status \in Waiting /\ new[i] \in Waiting \cup {"accepted", "blocked"}
              \/ T[i].status \notin Waiting /\ new[i] = T[i].status
  BY OutcomeFacts
<1>4. \A i \in DOMAIN T : new[i] \in TaskStatus
  <2>1. \A i \in DOMAIN T : T[i].status \in TaskStatus
    BY <1>2, TaskFields
  <2>2. Waiting \cup {"accepted", "blocked"} \subseteq TaskStatus
    BY DEF TaskStatus, Occupying
  <2> QED
    BY <1>3, <2>1, <2>2
<1>5. \A i \in DOMAIN T :
         /\ tasks'[i] \in Task /\ tasks'[i].status = new[i] /\ tasks'[i].attempt = T[i].attempt
         /\ tasks'[i].stop = T[i].stop /\ tasks'[i].done = T[i].done
         /\ T[i].status = new[i] => tasks'[i] = T[i]
  <2> SUFFICES ASSUME NEW i \in DOMAIN T
               PROVE  /\ tasks'[i] \in Task /\ tasks'[i].status = new[i]
                      /\ tasks'[i].attempt = T[i].attempt
                      /\ tasks'[i].stop = T[i].stop /\ tasks'[i].done = T[i].done
                      /\ T[i].status = new[i] => tasks'[i] = T[i]
    OBVIOUS
  <2>1. tasks'[i] = [T[i] EXCEPT !.status = new[i]]
    BY <1>1
  <2>2. T[i] \in Task /\ new[i] \in TaskStatus
    BY <1>2, <1>4
  <2> QED
    BY <2>1, <2>2, TaskStatusChanged
<1>6. DOMAIN tasks' = 1..Len(T) /\ tasks' = [i \in 1..Len(T) |-> tasks'[i]]
  BY <1>1, <1>2
<1>7. tasks' \in Seq(Task) /\ Len(tasks') = Len(T)
  BY <1>2, <1>5, <1>6
<1>8. \A i \in DOMAIN T : T[i].status \notin Waiting => tasks'[i] = T[i]
  BY <1>3, <1>5
<1>9. TasksFit(tasks')
  <2> SUFFICES ASSUME NEW i \in DOMAIN T
               PROVE  /\ tasks'[i].stop => tasks'[i].status \notin NotBegun
                      /\ tasks'[i].done = "manual" => tasks'[i].status = "completed"
    BY <1>2, <1>6 DEF TasksFit
  <2>1. CASE T[i].status \notin Waiting
    BY <1>8, <2>1 DEF TasksFit
  <2>2. CASE T[i].status \in Waiting
    <3>1. ~T[i].stop /\ T[i].done # "manual"
      BY <2>2 DEF TasksFit, NotBegun, Waiting
    <3> QED
      BY <1>5, <3>1
  <2> QED
    BY <2>1, <2>2
<1>10. \A i \in DOMAIN T : Moves(T[i], tasks'[i])
  <2> SUFFICES ASSUME NEW i \in DOMAIN T PROVE Moves(T[i], tasks'[i])
    OBVIOUS
  <2>1. T[i].status \notin Waiting => tasks'[i].status = T[i].status
    BY <1>8
  <2>2. T[i].status \notin NotBegun => T[i].status \notin Waiting
    BY DEF NotBegun
  <2> QED
    BY <1>5, <2>1, <2>2 DEF Moves
<1>11. Sound(tasks', C, runtimes, fence, quit)
  <2>1. \A j \in DOMAIN T : T[j].attempt \in Nat /\ tasks'[j].attempt \in Nat
    BY <1>2, <1>5, TaskFields
  <2>2. DOMAIN T \subseteq DOMAIN tasks'
    BY <1>2, <1>6
  <2> QED
    BY <1>10, <2>1, <2>2, TasksMove
<1>12. \A x \in S : \E i \in I : x = Item(i + 1, i, "start", T[i].attempt)
  BY DEF Starts
<1>13. \A i \in I : /\ i \in DOMAIN T /\ T[i].status \in Waiting
                    /\ tasks'[i].status = "accepted"
  BY <1>3, <1>5
<1> HIDE DEF I, S
<1>14. \A x \in S : /\ x.task \in DOMAIN T /\ x.at = x.task + 1 /\ x.kind = "start"
                    /\ x.attempt = T[x.task].attempt /\ T[x.task].status \in Waiting
                    /\ tasks'[x.task].status = "accepted"
                    /\ x = Item(x.task + 1, x.task, "start", T[x.task].attempt)
  <2> SUFFICES ASSUME NEW x \in S
               PROVE  /\ x.task \in DOMAIN T /\ x.at = x.task + 1 /\ x.kind = "start"
                      /\ x.attempt = T[x.task].attempt /\ T[x.task].status \in Waiting
                      /\ tasks'[x.task].status = "accepted"
                      /\ x = Item(x.task + 1, x.task, "start", T[x.task].attempt)
    OBVIOUS
  <2>1. PICK i \in I : x = Item(i + 1, i, "start", T[i].attempt)
    BY <1>12
  <2>2. x.at = i + 1 /\ x.task = i /\ x.kind = "start" /\ x.attempt = T[i].attempt
    BY <2>1, ItemFields
  <2> QED
    BY <1>13, <2>1, <2>2
<1>15. \A x \in items : /\ x.task \in DOMAIN T /\ x.at \in {1, MaxTasks + 2} /\ x.kind = "cancel"
                        /\ x.attempt = T[x.task].attempt /\ T[x.task].status \notin NotBegun
                        /\ \A c \in Active(C) : c.task # x.task
                        /\ \A y \in items : x = y
  BY ItemFields DEF EndingItems
<1>16. ItemsFit(tasks', C, items \cup S)
  <2>1. ASSUME NEW x \in S
        PROVE  /\ x.at \in 1..(MaxTasks + 2) /\ x.task \in 1..MaxTasks
               /\ x.task \in DOMAIN tasks' /\ x.kind = "start"
               /\ x.attempt \in 1..MaxAttempt /\ x.attempt <= tasks'[x.task].attempt
               /\ x.attempt = tasks'[x.task].attempt /\ tasks'[x.task].status = "accepted"
               /\ \A c \in Active(C) : c.kind = "start" => c.task # x.task
    <3>1. x.task \in 1..MaxTasks /\ x.at \in 1..(MaxTasks + 2)
      BY <1>2, <1>14, TeamAssumption
    <3>2. x.attempt \in 1..MaxAttempt /\ x.attempt = tasks'[x.task].attempt
      BY <1>2, <1>5, <1>14, TaskFields
    <3>3. x.attempt <= x.attempt
      BY <3>2, TeamAssumption
    <3>4. \A c \in Active(C) : c.kind = "start" => c.task # x.task
      BY <1>14 DEF Sound, QueueFits, CurrentStarts
    <3> QED
      BY <1>2, <1>6, <1>14, <3>1, <3>2, <3>3, <3>4
  <2>2. ASSUME NEW x \in items
        PROVE  /\ x.at \in 1..(MaxTasks + 2) /\ x.task \in 1..MaxTasks
               /\ x.task \in DOMAIN tasks' /\ x.kind = "cancel"
               /\ x.attempt \in 1..MaxAttempt /\ x.attempt <= tasks'[x.task].attempt
               /\ tasks'[x.task].status \notin NotBegun
               /\ \A c \in Active(C) : c.kind = "start" => c.task # x.task
    <3>1. x.task \in 1..MaxTasks /\ x.at \in 1..(MaxTasks + 2)
      BY <1>2, <1>15, TeamAssumption
    <3>2. tasks'[x.task] = T[x.task]
      BY <1>8, <1>15 DEF NotBegun
    <3>3. x.attempt \in 1..MaxAttempt /\ x.attempt = tasks'[x.task].attempt
      BY <1>2, <1>15, <3>2, TaskFields
    <3>4. x.attempt <= x.attempt
      BY <3>3, TeamAssumption
    <3> QED
      BY <1>2, <1>6, <1>15, <3>1, <3>2, <3>3, <3>4
  <2>3. ASSUME NEW x \in S, NEW y \in S, x.at = y.at \/ x.task = y.task PROVE x = y
    <3>1. x.task \in Nat /\ y.task \in Nat
      BY <1>2, <1>14
    <3>2. x.task = y.task
      BY <1>14, <2>3, <3>1
    <3> QED
      BY <1>14, <3>2
  <2>4. ASSUME NEW x \in items, NEW y \in S PROVE x.at # y.at /\ x.task # y.task
    <3>1. y.task \in 1..MaxTasks /\ y.at = y.task + 1
      BY <1>14, <2>1
    <3>2. x.at # y.at
      BY <1>15, <3>1, TeamAssumption
    <3>3. x.task # y.task
      BY <1>14, <1>15 DEF NotBegun
    <3> QED
      BY <3>2, <3>3
  <2>5. \A x, y \in items : x = y
    BY <1>15
  <2> QED
    BY <2>1, <2>2, <2>3, <2>4, <2>5 DEF ItemsFit
<1>17. Sound(tasks', Enqueue(C, runtimes, items \cup S), runtimes, fence, quit)
  BY <1>7, <1>9, <1>11, <1>16, EnqueueSound
<1>18. commands' = Enqueue(C, runtimes, items \cup S)
  BY <1>1 DEF S, I
<1> QED
  BY <1>7, <1>8, <1>9, <1>17, <1>18

-----------------------------------------------------------------------------
(* The leases under the team's steps.                                      *)

\* An upload numbers its event within the bound.
LEMMA UploadIsLeaseStep ==
    ASSUME LeaseTypeOK, NEW r \in Runtimes, NEW token \in Tokens, NEW n \in 1..MaxSequence,
           Events(r, token, n, n)
    PROVE  LeaseNext
<1>1. n <= n
  BY LeaseAssumption
<1> QED
  BY <1>1 DEF LeaseNext, RuntimeStep

\* Every team step is a step of the lease table or leaves it alone.
LEMMA TeamStepIsLeaseStep == LeaseTypeOK /\ [TeamNext]_teamVars => [LeaseNext]_leaseVars
<1> SUFFICES ASSUME LeaseTypeOK, [TeamNext]_teamVars PROVE [LeaseNext]_leaseVars
  OBVIOUS
<1>1. CASE UNCHANGED teamVars
  BY <1>1 DEF teamVars, leaseVars
<1>2. ASSUME NEW r \in Runtimes, TeamRegister(r) PROVE LeaseNext
  BY <1>2 DEF TeamRegister, LeaseNext, RuntimeStep
<1>3. ASSUME NEW r \in Runtimes, NEW token \in Tokens, NEW load \in Loads,
             TeamHeartbeat(r, token, load) PROVE LeaseNext
  BY <1>3 DEF TeamHeartbeat, LeaseNext, RuntimeStep
<1>4. ASSUME NEW r \in Runtimes, NEW token \in Tokens, TeamUnregister(r, token) PROVE LeaseNext
  BY <1>4 DEF TeamUnregister, LeaseNext, RuntimeStep
<1>5. ASSUME NEW r \in Runtimes, NEW token \in Tokens, UploadReplay(r, token) PROVE LeaseNext
  <2>1. runtimes[r].last \in 0..MaxSequence /\ runtimes[r].last > 0
    BY <1>5 DEF LeaseTypeOK, Row, UploadReplay
  <2>2. runtimes[r].last \in 1..MaxSequence
    BY <2>1, LeaseAssumption
  <2> QED
    BY <1>5, <2>2, UploadIsLeaseStep DEF UploadReplay
<1>6. ASSUME NEW r \in Runtimes, NEW token \in Tokens, runtimes[r].last < MaxSequence,
             Events(r, token, runtimes[r].last + 1, runtimes[r].last + 1) PROVE LeaseNext
  <2>1. runtimes[r].last \in 0..MaxSequence
    BY DEF LeaseTypeOK, Row
  <2>2. runtimes[r].last + 1 \in 1..MaxSequence
    BY <1>6, <2>1, LeaseAssumption
  <2> QED
    BY <1>6, <2>2, UploadIsLeaseStep
<1>7. ASSUME NEW r \in Runtimes, AgentStep(r) PROVE [LeaseNext]_leaseVars
  <2>1. ASSUME NEW token \in Tokens, NEW limit, PollCommands(r, token, limit)
        PROVE  UNCHANGED leaseVars
    BY <2>1 DEF PollCommands
  <2>2. ASSUME NEW token \in Tokens, NEW ids, AckCommands(r, token, ids)
        PROVE  UNCHANGED leaseVars
    BY <2>2 DEF AckCommands
  <2>3. ASSUME NEW token \in Tokens, runtimes[r].last < MaxSequence, NEW type,
               UploadTaskless(r, token, type)
        PROVE  LeaseNext
    BY <1>6, <2>3 DEF UploadTaskless
  <2>4. ASSUME NEW token \in Tokens, runtimes[r].last < MaxSequence, NEW type, NEW i,
               NEW attempt, UploadEvent(r, token, i, type, attempt)
        PROVE  LeaseNext
    BY <1>6, <2>4 DEF UploadEvent
  <2> QED
    BY <1>2, <1>3, <1>4, <1>5, <1>7, <2>1, <2>2, <2>3, <2>4 DEF AgentStep
<1>8. CASE UserStep
  BY <1>8 DEF UserStep, CreateTask, Input, Cancel, Complete, Retry, Reject, Approve
<1>9. CASE TeamExpireLeases
  BY <1>9 DEF TeamExpireLeases, LeaseNext
<1>10. CASE TeamTick
  BY <1>10 DEF TeamTick, LeaseNext
<1> QED
  BY <1>1, <1>7, <1>8, <1>9, <1>10 DEF TeamNext

\* A runtime that never registered has no lease.
LEMMA AbsentRowsStep == LeaseInv /\ AbsentRows /\ [LeaseNext]_leaseVars => AbsentRows'
<1> SUFFICES ASSUME LeaseInv, AbsentRows, [LeaseNext]_leaseVars, NEW q \in Runtimes,
                    runtimes'[q].status = "absent"
             PROVE  runtimes'[q].lease = Lapsed
  BY DEF AbsentRows
<1>1. runtimes \in [Runtimes -> Row] /\ runtimes[q] \in Row
  BY DEF LeaseInv, LeaseTypeOK
<1>2. runtimes[q].status = "absent" => runtimes[q].lease = Lapsed
  BY DEF AbsentRows
<1>3. ASSUME NEW r \in Runtimes, Register(r) PROVE runtimes'[q].lease = Lapsed
  BY <1>1, <1>2, <1>3 DEF Register, Row
<1>4. ASSUME NEW r \in Runtimes, NEW token, NEW load, Heartbeat(r, token, load)
      PROVE  runtimes'[q].lease = Lapsed
  BY <1>1, <1>2, <1>4 DEF Heartbeat, Row
<1>5. ASSUME NEW r \in Runtimes, NEW token, Unregister(r, token)
      PROVE  runtimes'[q].lease = Lapsed
  BY <1>1, <1>2, <1>5 DEF Unregister, Row
<1>6. ASSUME NEW r \in Runtimes, NEW token, NEW lo, NEW hi, Events(r, token, lo, hi)
      PROVE  runtimes'[q].lease = Lapsed
  BY <1>1, <1>2, <1>6 DEF Events, HoldsLease, Presents, Row
<1>7. ASSUME ExpireLeases PROVE runtimes'[q].lease = Lapsed
  BY <1>1, <1>2, <1>7 DEF ExpireLeases, HasExpired, Row
<1>8. ASSUME LeaseTick PROVE runtimes'[q].lease = Lapsed
  BY <1>1, <1>2, <1>8 DEF LeaseTick, Row
<1>9. CASE UNCHANGED leaseVars
  BY <1>2, <1>9 DEF leaseVars
<1> QED
  BY <1>3, <1>4, <1>5, <1>6, <1>7, <1>8, <1>9 DEF LeaseNext, RuntimeStep

\* Commands are addressed to the latest registration unless somebody quit.
LEMMA TargetsFit == LeaseInv /\ AbsentRows => TargetFits(runtimes, fence, quit)
<1> SUFFICES ASSUME LeaseInv, AbsentRows, Targets(runtimes) # {}
             PROVE  LET r == FirstRow(runtimes, Targets(runtimes)) IN
                    /\ r \in Runtimes /\ runtimes[r].status # "absent"
                    /\ r \in quit \/ runtimes[r].token = fence
  BY DEF TargetFits
<1> DEFINE r == FirstRow(runtimes, Targets(runtimes))
<1>1. runtimes \in [Runtimes -> Row] /\ fence \in Nat
  BY LeaseAssumption DEF LeaseInv, LeaseTypeOK
<1>2. Targets(runtimes) \in SUBSET Runtimes
  BY DEF Targets
<1>3. r \in Targets(runtimes)
  BY <1>1, <1>2, FirstRowIn
<1> HIDE DEF r
<1>4. r \in Runtimes /\ runtimes[r].status # "fenced" /\ runtimes[r].lease > 0
  BY <1>3 DEF Targets
<1>5. r \in Registered
  BY <1>4 DEF AbsentRows, Registered, Lapsed
<1>6. runtimes[r].token \in 1..fence
  BY <1>5 DEF LeaseInv, TokenOrder
<1>7. runtimes[r].token < fence => r \in quit
  BY <1>4, <1>5 DEF LeaseInv, FencedUnlessQuit, Superseded
<1> QED
  BY <1>1, <1>4, <1>5, <1>6, <1>7 DEF r, Registered

-----------------------------------------------------------------------------
(* The handlers.                                                           *)

\* What a handler has to leave behind, apart from the leases.
Kept ==
    /\ tasks' \in Seq(Task) /\ Len(tasks') <= MaxTasks /\ notified' \in BOOLEAN
    /\ TasksFit(tasks')
    /\ Sound(tasks', commands', runtimes', fence', quit')

\* What the invariant says, in the form that the steps use.
LEMMA TeamParts ==
    ASSUME TeamInv
    PROVE  /\ LeaseInv /\ AbsentRows /\ TasksFit(tasks) /\ notified \in BOOLEAN
           /\ tasks \in Seq(Task) /\ Len(tasks) \in Nat /\ Len(tasks) <= MaxTasks
           /\ DOMAIN tasks = 1..Len(tasks) /\ \A i \in DOMAIN tasks : tasks[i] \in Task
           /\ commands \subseteq Command
           /\ Sound(tasks, commands, runtimes, fence, quit)
           /\ TargetFits(runtimes, fence, quit)
<1>1. LeaseInv /\ AbsentRows /\ TasksFit(tasks) /\ notified \in BOOLEAN
  BY DEF TeamInv, TeamTypeOK
<1>2. tasks \in Seq(Task) /\ Len(tasks) <= MaxTasks /\ commands \subseteq Command
  BY DEF TeamInv, TeamTypeOK
<1>3. Sound(tasks, commands, runtimes, fence, quit)
  BY <1>2 DEF TeamInv, QueueInv, Sound
<1>4. TargetFits(runtimes, fence, quit)
  BY <1>1, TargetsFit
<1>5. Len(tasks) \in Nat /\ DOMAIN tasks = 1..Len(tasks) /\ \A i \in DOMAIN tasks : tasks[i] \in Task
  BY <1>2
<1> QED
  BY <1>1, <1>2, <1>3, <1>4, <1>5

\* Only a registration issues a token.
LEMMA SameTokens ==
    ASSUME LeaseInv, [LeaseNext]_leaseVars, fence' = fence
    PROVE  /\ quit \subseteq quit'
           /\ \A r \in Runtimes :
                 /\ runtimes'[r].token = runtimes[r].token
                 /\ runtimes[r].status # "absent" => runtimes'[r].status # "absent"
<1>1. runtimes \in [Runtimes -> Row] /\ fence \in Nat /\ \A q \in Runtimes : runtimes[q] \in Row
  BY LeaseAssumption DEF LeaseInv, LeaseTypeOK
<1> DEFINE G == /\ quit \subseteq quit'
                /\ \A r \in Runtimes :
                      /\ runtimes'[r].token = runtimes[r].token
                      /\ runtimes[r].status # "absent" => runtimes'[r].status # "absent"
<1>2. ASSUME NEW r \in Runtimes, Register(r) PROVE G
  BY <1>1, <1>2 DEF Register
<1>3. ASSUME NEW r \in Runtimes, NEW token, NEW load, Heartbeat(r, token, load) PROVE G
  BY <1>1, <1>3 DEF Heartbeat, Row
<1>4. ASSUME NEW r \in Runtimes, NEW token, Unregister(r, token) PROVE G
  BY <1>1, <1>4 DEF Unregister, Row
<1>5. ASSUME NEW r \in Runtimes, NEW token, NEW lo, NEW hi, Events(r, token, lo, hi) PROVE G
  BY <1>1, <1>5 DEF Events, Row
<1>6. ASSUME ExpireLeases PROVE G
  BY <1>1, <1>6 DEF ExpireLeases, Row
<1>7. ASSUME LeaseTick PROVE G
  BY <1>1, <1>7 DEF LeaseTick, Row
<1>8. CASE UNCHANGED leaseVars
  BY <1>8 DEF leaseVars
<1> QED
  BY <1>2, <1>3, <1>4, <1>5, <1>6, <1>7, <1>8 DEF LeaseNext, RuntimeStep

\* A sound queue stays sound while the lease table takes such a step.
LEMMA LeasesMove ==
    ASSUME LeaseInv, [LeaseNext]_leaseVars, fence' = fence, NEW T, NEW C,
           Sound(T, C, runtimes, fence, quit)
    PROVE  Sound(T, C, runtimes', fence', quit')
BY SameTokens, SameTokensSound

\* Heartbeats, unregistrations, replays and sweeps.
LEMMA LeaseOnlyKept ==
    ASSUME TeamInv, [LeaseNext]_leaseVars, fence' = fence, UNCHANGED <<tasks, commands>>,
           notified' \in BOOLEAN
    PROVE  Kept
BY TeamParts, LeasesMove DEF Kept

\* Starts of tasks that are accepted and have none.
LEMMA StartsFit ==
    ASSUME NEW T \in Seq(Task), Len(T) <= MaxTasks, NEW C, NEW I \in SUBSET DOMAIN T,
           \A i \in I : T[i].status = "accepted",
           \A i \in I, c \in Active(C) : c.kind = "start" => c.task # i
    PROVE  ItemsFit(T, C, Starts(T, I))
<1> DEFINE S == Starts(T, I)
<1>1. DOMAIN T = 1..Len(T) /\ Len(T) \in Nat /\ \A i \in DOMAIN T : T[i] \in Task
  OBVIOUS
<1>2. \A x \in S : \E i \in I : x = Item(i + 1, i, "start", T[i].attempt)
  BY DEF Starts
<1> HIDE DEF S
<1>3. \A x \in S : /\ x.task \in I /\ x.at = x.task + 1 /\ x.kind = "start"
                   /\ x.attempt = T[x.task].attempt
                   /\ x = Item(x.task + 1, x.task, "start", T[x.task].attempt)
  <2> SUFFICES ASSUME NEW x \in S
               PROVE  /\ x.task \in I /\ x.at = x.task + 1 /\ x.kind = "start"
                      /\ x.attempt = T[x.task].attempt
                      /\ x = Item(x.task + 1, x.task, "start", T[x.task].attempt)
    OBVIOUS
  <2>1. PICK i \in I : x = Item(i + 1, i, "start", T[i].attempt)
    BY <1>2
  <2>2. x.at = i + 1 /\ x.task = i /\ x.kind = "start" /\ x.attempt = T[i].attempt
    BY <2>1, ItemFields
  <2> QED
    BY <2>1, <2>2
<1>4. ASSUME NEW x \in S
      PROVE  /\ x.at \in 1..(MaxTasks + 2) /\ x.task \in 1..MaxTasks
             /\ x.task \in DOMAIN T /\ x.kind = "start"
             /\ x.attempt \in 1..MaxAttempt /\ x.attempt <= T[x.task].attempt
             /\ x.attempt = T[x.task].attempt /\ T[x.task].status = "accepted"
             /\ \A c \in Active(C) : c.kind = "start" => c.task # x.task
  <2>1. x.task \in DOMAIN T /\ T[x.task] \in Task
    BY <1>1, <1>3
  <2>2. x.task \in 1..MaxTasks /\ x.at \in 1..(MaxTasks + 2)
    BY <1>1, <1>3, <2>1, TeamAssumption
  <2>3. x.attempt \in 1..MaxAttempt /\ x.attempt = T[x.task].attempt
    BY <1>3, <2>1, TaskFields
  <2>4. x.attempt <= x.attempt
    BY <2>3, TeamAssumption
  <2> QED
    BY <1>3, <2>1, <2>2, <2>3, <2>4
<1>5. ASSUME NEW x \in S, NEW y \in S, x.at = y.at \/ x.task = y.task PROVE x = y
  <2>1. x.task \in Nat /\ y.task \in Nat
    BY <1>1, <1>4
  <2>2. x.task = y.task
    BY <1>3, <1>5, <2>1
  <2> QED
    BY <1>3, <2>2
<1>6. ItemsFit(T, C, S)
  BY <1>4, <1>5 DEF ItemsFit
<1> QED
  BY <1>6 DEF S

\* A command taken over waits for the new runtime.
LEMMA TakeOverFields ==
    ASSUME NEW c \in Command, NEW r \in Runtimes
    PROVE  LET d == TakeOver(c, r) IN
           /\ d \in Command /\ d.pos = c.pos /\ d.task = c.task /\ d.kind = c.kind
           /\ d.attempt = c.attempt /\ (Terminal(d) <=> Terminal(c))
           /\ ~Terminal(d) => d.runtime = r /\ d.status = "queued"
<1> DEFINE d == TakeOver(c, r)
<1>1. CASE Terminal(c)
  BY <1>1 DEF TakeOver
<1>2. CASE ~Terminal(c)
  <2>1. d = [c EXCEPT !.runtime = r, !.status = "queued", !.visible = 0]
    BY <1>2 DEF TakeOver
  <2>2. 0 \in 0..Visibility
    BY TeamAssumption
  <2> HIDE DEF d
  <2>3. /\ d \in Command /\ d.pos = c.pos /\ d.task = c.task /\ d.kind = c.kind
        /\ d.attempt = c.attempt /\ d.runtime = r /\ d.status = "queued"
    BY <2>1, <2>2 DEF Command
  <2>4. ~Terminal(d)
    BY <2>3 DEF Terminal
  <2> QED
    BY <1>2, <2>3, <2>4 DEF d
<1> QED
  BY <1>1, <1>2

\* The queue as the registration of r finds it, and the tasks to be started.
Requeued(r) == {TakeOver(c, r) : c \in commands}

Unstarted ==
    {i \in DOMAIN tasks :
        /\ tasks[i].status = "accepted"
        /\ \A c \in Active(OfTask(commands, i)) : c.kind # "start"
        /\ DependencyStatus(Status(tasks), tasks[i].deps) = "accepted"}

\* A registration takes the queue over and starts what has no start.
LEMMA RegisterQueue ==
    ASSUME TeamInv, LeaseInv', AbsentRows', NEW r \in Runtimes, TeamRegister(r)
    PROVE  /\ commands' = Enqueue(Requeued(r), runtimes', Starts(tasks, Unstarted))
           /\ Sound(tasks, Requeued(r), runtimes', fence', quit')
           /\ ItemsFit(tasks, Requeued(r), Starts(tasks, Unstarted))
           /\ TargetFits(runtimes', fence', quit')
           /\ \A x \in Active(Requeued(r)) : x.runtime = r /\ x.status = "queued"
<1> DEFINE f == [c \in commands |-> TakeOver(c, r)]
           D == {f[c] : c \in commands}
           I == Unstarted
<1>1. /\ tasks \in Seq(Task) /\ Len(tasks) <= MaxTasks /\ commands \subseteq Command
      /\ TasksFit(tasks) /\ Placed(commands) /\ QueueFits(tasks, commands)
  BY TeamParts DEF Sound
<1>2. D = Requeued(r) /\ commands' = Enqueue(D, runtimes', Starts(tasks, I))
  BY DEF TeamRegister, Requeued, Unstarted
<1>3. \A c \in commands :
         /\ f[c] \in Command /\ f[c].pos = c.pos /\ f[c].task = c.task /\ f[c].kind = c.kind
         /\ f[c].attempt = c.attempt
         /\ ~Terminal(f[c]) => ~Terminal(c) /\ f[c].runtime = r /\ f[c].status = "queued"
  BY <1>1, TakeOverFields
<1>4. \A x \in D : \E c \in commands : x = f[c]
  OBVIOUS
<1> HIDE DEF f
<1>5. Placed(D)
  BY <1>1, <1>3, MapPlaced
<1> HIDE DEF D
<1>6. \A x \in Active(D) : \E c \in Active(commands) :
         /\ x = f[c] /\ x.pos = c.pos /\ x.task = c.task /\ x.kind = c.kind
         /\ x.attempt = c.attempt /\ x.runtime = r /\ x.status = "queued"
  BY <1>3, <1>4 DEF Active
<1>7. QueueFits(tasks, D)
  <2>1. Known(tasks, D)
    BY <1>1, <1>3, <1>4 DEF QueueFits, Known
  <2>2. CurrentStarts(tasks, D)
    BY <1>1, <1>6 DEF QueueFits, CurrentStarts
  <2>3. SingleStarts(D)
    BY <1>1, <1>6 DEF QueueFits, SingleStarts
  <2>4. EndedCancels(tasks, D)
    BY <1>1, <1>6 DEF QueueFits, EndedCancels
  <2>5. CancelsFirst(D)
    BY <1>1, <1>6 DEF QueueFits, CancelsFirst
  <2> QED
    BY <2>1, <2>2, <2>3, <2>4, <2>5 DEF QueueFits
<1>8. runtimes'[r].token = fence' /\ runtimes'[r].status # "absent"
  BY DEF TeamRegister, Register
<1>9. Addressed(D, runtimes', fence', quit')
  BY <1>6, <1>8 DEF Addressed
<1>10. Sound(tasks, D, runtimes', fence', quit')
  BY <1>3, <1>4, <1>5, <1>7, <1>9 DEF Sound
<1>11. I \in SUBSET DOMAIN tasks /\ \A i \in I : tasks[i].status = "accepted"
  BY DEF Unstarted
<1>12. \A i \in I, c \in Active(D) : c.kind = "start" => c.task # i
  BY <1>6 DEF Active, OfTask, Unstarted
<1> HIDE DEF I
<1>13. ItemsFit(tasks, D, Starts(tasks, I))
  BY <1>1, <1>11, <1>12, StartsFit
<1>14. TargetFits(runtimes', fence', quit')
  <2>1. (LeaseInv /\ AbsentRows => TargetFits(runtimes, fence, quit))'
    BY TargetsFit, PTL
  <2> QED
    BY <2>1
<1> QED
  BY <1>2, <1>6, <1>10, <1>13, <1>14 DEF I

\* A failover keeps the queue sound: it readdresses what is active and adds only
\* missing starts.
LEMMA RegisterKept ==
    ASSUME TeamInv, LeaseInv', AbsentRows', NEW r \in Runtimes, TeamRegister(r)
    PROVE  Kept
<1>1. tasks \in Seq(Task) /\ Len(tasks) <= MaxTasks /\ TasksFit(tasks)
  BY TeamParts
<1>2. tasks' = tasks /\ notified' = TRUE
  BY DEF TeamRegister
<1>3. Sound(tasks, commands', runtimes', fence', quit')
  BY <1>1, RegisterQueue, EnqueueSound
<1> QED
  BY <1>1, <1>2, <1>3 DEF Kept

\* The statuses that events ask for.
LEMMA EventStatusFits ==
    ASSUME NEW type \in EventTypes
    PROVE  EventStatus(type) \in TaskStatus /\ EventStatus(type) \notin NotBegun
<1>1. type \in AgentEvents
  BY EventAssumption
<1> QED
  BY <1>1 DEF AgentEvents, Reports, EventStatus, TaskStatus, Occupying, NotBegun, Waiting

\* An event moves its task on and never touches what the user has ended.
LEMMA EventApplied ==
    ASSUME NEW T \in Seq(Task), TasksFit(T), NEW i \in DOMAIN T, NEW type \in EventTypes,
           NEW C, NEW rows, NEW latest, NEW gone, Sound(T, C, rows, latest, gone)
    PROVE  LET U == ApplyEvent(T, i, type) IN
           /\ U \in Seq(Task) /\ Len(U) = Len(T) /\ TasksFit(U)
           /\ Sound(U, C, rows, latest, gone)
           /\ \A j \in DOMAIN T : HumanTerminal(T[j]) => U[j] = T[j]
<1> DEFINE U == ApplyEvent(T, i, type)
<1>1. CASE HumanTerminal(T[i])
  BY <1>1 DEF ApplyEvent
<1>2. CASE ~HumanTerminal(T[i])
  <2> DEFINE s == EventStatus(type)
             d == IF type = "report.completed" THEN "agent_report" ELSE T[i].done
             u == [T[i] EXCEPT !.status = s, !.done = d]
  <2>1. U = [T EXCEPT ![i] = u]
    BY <1>2 DEF ApplyEvent
  <2>2. s \in TaskStatus /\ s \notin NotBegun
    BY EventStatusFits
  <2>3. T[i] \in Task
    OBVIOUS
  <2>4. d \in {"none", "manual", "agent_report"}
    BY <2>3, TaskFields
  <2> HIDE DEF s
  <2>5. u \in Task /\ u.status = s /\ u.done = d /\ u.attempt = T[i].attempt /\ u.stop = T[i].stop
    <3> HIDE DEF d
    <3> QED
      BY <2>2, <2>3, <2>4 DEF Task
  <2>6. d = "manual" => T[i].done = "manual"
    OBVIOUS
  <2> HIDE DEF u, d, U
  <2>7. U \in Seq(Task) /\ Len(U) = Len(T) /\ DOMAIN U = DOMAIN T
    BY <2>1, <2>5
  <2>8. U[i] = u /\ \A j \in DOMAIN T : j # i => U[j] = T[j]
    BY <2>1
  <2>9. d # "manual"
    BY <1>2, <2>6 DEF TasksFit, HumanTerminal
  <2>10. TasksFit(U)
    <3> SUFFICES ASSUME NEW j \in DOMAIN T
                 PROVE  /\ U[j].stop => U[j].status \notin NotBegun
                        /\ U[j].done = "manual" => U[j].status = "completed"
      BY <2>7 DEF TasksFit
    <3>1. CASE j = i
      BY <2>2, <2>5, <2>8, <2>9, <3>1
    <3>2. CASE j # i
      BY <2>8, <3>2 DEF TasksFit
    <3> QED
      BY <3>1, <3>2
  <2>11. \A j \in DOMAIN T : Moves(T[j], U[j])
    <3> SUFFICES ASSUME NEW j \in DOMAIN T PROVE Moves(T[j], U[j])
      OBVIOUS
    <3>1. CASE j = i
      BY <2>2, <2>5, <2>6, <2>8, <3>1 DEF Moves, NotBegun
    <3>2. CASE j # i
      BY <2>8, <3>2 DEF Moves
    <3> QED
      BY <3>1, <3>2
  <2>12. \A j \in DOMAIN T : T[j].attempt \in Nat /\ U[j].attempt \in Nat
    <3>1. \A j \in DOMAIN T : T[j] \in Task
      OBVIOUS
    <3>2. \A j \in DOMAIN T : T[j].attempt \in Nat
      BY <3>1, TaskFields
    <3> QED
      BY <2>11, <3>2 DEF Moves
  <2>13. Sound(U, C, rows, latest, gone)
    <3>1. DOMAIN T \subseteq DOMAIN U
      BY <2>7
    <3> QED
      BY <2>11, <2>12, <3>1, TasksMove
  <2> QED
    BY <1>2, <2>7, <2>8, <2>10, <2>13 DEF U
<1> QED
  BY <1>1, <1>2

\* The work of an upload on tasks and commands.
LEMMA UploadKept ==
    ASSUME TeamInv, [LeaseNext]_leaseVars, fence' = fence, notified' \in BOOLEAN,
           NEW T \in Seq(Task), Len(T) <= MaxTasks, TasksFit(T),
           Sound(T, commands, runtimes, fence, quit),
           \/ ActivateReady(T, commands, {})
           \/ tasks' = T /\ UNCHANGED commands
    PROVE  Kept
<1>1. /\ tasks' \in Seq(Task) /\ Len(tasks') <= MaxTasks /\ TasksFit(tasks')
      /\ Sound(tasks', commands', runtimes, fence, quit)
  <2>1. CASE tasks' = T /\ UNCHANGED commands
    BY <2>1
  <2>2. CASE ActivateReady(T, commands, {})
    <3>1. EndingItems(T, commands, {})
      BY DEF EndingItems
    <3> QED
      BY <2>2, <3>1, TeamParts, ActivateSound
  <2> QED
    BY <2>1, <2>2
<1>2. Sound(tasks', commands', runtimes', fence', quit')
  BY <1>1, TeamParts, LeasesMove
<1> QED
  BY <1>1, <1>2 DEF Kept

\* An event about a task, late or not, keeps the queue sound.
LEMMA UploadEventKept ==
    ASSUME TeamInv, [LeaseNext]_leaseVars, NEW r \in Runtimes, NEW token \in Tokens,
           NEW type \in EventTypes, NEW i \in DOMAIN tasks, NEW attempt,
           UploadEvent(r, token, i, type, attempt)
    PROVE  Kept
<1>1. fence' = fence /\ notified' = TRUE
  BY DEF UploadEvent, Events
<1>2. /\ tasks \in Seq(Task) /\ Len(tasks) <= MaxTasks /\ TasksFit(tasks)
      /\ Sound(tasks, commands, runtimes, fence, quit)
  BY TeamParts
<1>3. CASE attempt # tasks[i].attempt
  <2>1. UNCHANGED <<tasks, commands>>
    BY <1>3 DEF UploadEvent
  <2> QED
    BY <1>1, <2>1, LeaseOnlyKept
<1>4. CASE attempt = tasks[i].attempt
  <2> DEFINE U == ApplyEvent(tasks, i, type)
  <2>1. U \in Seq(Task) /\ Len(U) = Len(tasks) /\ TasksFit(U) /\ Sound(U, commands, runtimes, fence, quit)
    BY <1>2, EventApplied
  <2>2. \/ ActivateReady(U, commands, {})
        \/ tasks' = U /\ UNCHANGED commands
    BY <1>4 DEF UploadEvent
  <2>3. Len(U) <= MaxTasks
    BY <1>2, <2>1
  <2> HIDE DEF U
  <2> QED
    BY <1>1, <2>1, <2>2, <2>3, UploadKept
<1> QED
  BY <1>3, <1>4

\* So does an event without a task.
LEMMA UploadTasklessKept ==
    ASSUME TeamInv, [LeaseNext]_leaseVars, NEW r \in Runtimes, NEW token \in Tokens, NEW type,
           UploadTaskless(r, token, type)
    PROVE  Kept
<1>1. fence' = fence /\ notified' = TRUE
  BY DEF UploadTaskless, Events
<1>2. /\ tasks \in Seq(Task) /\ Len(tasks) <= MaxTasks /\ TasksFit(tasks)
      /\ Sound(tasks, commands, runtimes, fence, quit)
  BY TeamParts
<1>3. \/ ActivateReady(tasks, commands, {})
      \/ tasks' = tasks /\ UNCHANGED commands
  BY DEF UploadTaskless
<1> QED
  BY <1>1, <1>2, <1>3, UploadKept

\* A poll takes the oldest commands of its runtime, so it takes no start before
\* the cancellation that waits for the same runtime.
LEMMA PollKept ==
    ASSUME TeamInv, NEW r \in Runtimes, NEW token, NEW limit \in 1..MaxPoll,
           PollCommands(r, token, limit)
    PROVE  Kept
<1> DEFINE Before(c) == {d \in Available(r) : d.pos < c.pos}
           chosen == {c \in Available(r) : Cardinality(Before(c)) < limit}
           f == [c \in commands |-> IF c \in chosen
                    THEN [c EXCEPT !.status = "delivered", !.visible = Visibility] ELSE c]
           D == {f[c] : c \in commands}
<1>1. /\ tasks \in Seq(Task) /\ Len(tasks) <= MaxTasks /\ commands \subseteq Command
      /\ TasksFit(tasks) /\ Placed(commands) /\ QueueFits(tasks, commands)
      /\ Addressed(commands, runtimes, fence, quit)
  BY TeamParts DEF Sound
<1>2. commands' = D /\ notified' = FALSE /\ UNCHANGED <<runtimes, fence, quit, tasks>>
  BY DEF PollCommands, leaseVars
<1>3. \A c \in chosen, b \in Available(r) : b.pos < c.pos => b \in chosen
  <2> SUFFICES ASSUME NEW c \in chosen, NEW b \in Available(r), b.pos < c.pos
               PROVE  Cardinality(Before(b)) < limit
    OBVIOUS
  <2>1. \A d \in Available(r) : d \in commands /\ d.pos \in Nat
    BY <1>1, CommandFields DEF Available
  <2>2. Before(b) \in SUBSET Before(c) /\ Before(c) \in SUBSET commands
    BY <2>1
  <2>3. Cardinality(Before(c)) < limit
    OBVIOUS
  <2> HIDE DEF Before, chosen
  <2>4. IsFiniteSet(Before(c)) /\ IsFiniteSet(Before(b))
    BY <1>1, <2>2, FS_Subset DEF Placed
  <2>5. Cardinality(Before(b)) <= Cardinality(Before(c))
    BY <2>2, <2>4, FS_Subset
  <2>6. Cardinality(Before(b)) \in Nat /\ Cardinality(Before(c)) \in Nat /\ limit \in Nat
    BY <2>4, FS_CardinalityType
  <2> QED
    BY <2>3, <2>5, <2>6
<1>4. \A c \in chosen : c \in commands /\ ~Terminal(c) /\ c.runtime = r
  BY DEF Available, Terminal
<1>5. \A c \in commands : c.status = "queued" /\ c.runtime = r => c \in Available(r)
  BY DEF Available
<1> HIDE DEF chosen
<1>6. \A c \in commands :
         /\ f[c] \in Command /\ f[c].pos = c.pos /\ f[c].task = c.task /\ f[c].kind = c.kind
         /\ f[c].attempt = c.attempt /\ f[c].runtime = c.runtime
         /\ IF c \in chosen THEN f[c].status = "delivered" ELSE f[c].status = c.status
  <2> SUFFICES ASSUME NEW c \in commands
               PROVE  /\ f[c] \in Command /\ f[c].pos = c.pos /\ f[c].task = c.task
                      /\ f[c].kind = c.kind /\ f[c].attempt = c.attempt
                      /\ f[c].runtime = c.runtime
                      /\ IF c \in chosen THEN f[c].status = "delivered"
                                         ELSE f[c].status = c.status
    OBVIOUS
  <2>1. c \in Command /\ Visibility \in 0..Visibility
    BY <1>1, TeamAssumption
  <2>2. CASE c \in chosen
    <3>1. f[c] = [c EXCEPT !.status = "delivered", !.visible = Visibility]
      BY <2>2
    <3> HIDE DEF f
    <3> QED
      BY <2>1, <2>2, <3>1 DEF Command
  <2>3. CASE c \notin chosen
    BY <2>1, <2>3
  <2> QED
    BY <2>2, <2>3
<1>7. \A x \in D : \E c \in commands : x = f[c]
  OBVIOUS
<1> HIDE DEF f
<1>8. Placed(D)
  BY <1>1, <1>6, MapPlaced
<1> HIDE DEF D
<1>9. \A x \in Active(D) : \E c \in Active(commands) :
         /\ x = f[c] /\ x.pos = c.pos /\ x.task = c.task /\ x.kind = c.kind
         /\ x.attempt = c.attempt /\ x.runtime = c.runtime
         /\ IF c \in chosen THEN x.status = "delivered" ELSE x.status = c.status
  <2> SUFFICES ASSUME NEW x \in Active(D)
               PROVE  \E c \in Active(commands) :
                         /\ x = f[c] /\ x.pos = c.pos /\ x.task = c.task /\ x.kind = c.kind
                         /\ x.attempt = c.attempt /\ x.runtime = c.runtime
                         /\ IF c \in chosen THEN x.status = "delivered"
                                            ELSE x.status = c.status
    OBVIOUS
  <2>1. x \in D /\ ~Terminal(x)
    BY DEF Active
  <2>2. PICK c \in commands : x = f[c]
    BY <1>7, <2>1
  <2>3. c \in Active(commands)
    BY <1>4, <1>6, <2>1, <2>2 DEF Active, Terminal
  <2> QED
    BY <1>6, <2>2, <2>3
<1>10. QueueFits(tasks, D)
  <2>1. Known(tasks, D)
    BY <1>1, <1>6, <1>7 DEF QueueFits, Known
  <2>2. CurrentStarts(tasks, D)
    BY <1>1, <1>9 DEF QueueFits, CurrentStarts
  <2>3. SingleStarts(D)
    BY <1>1, <1>9 DEF QueueFits, SingleStarts
  <2>4. EndedCancels(tasks, D)
    BY <1>1, <1>9 DEF QueueFits, EndedCancels
  <2>5. CancelsFirst(D)
    <3> SUFFICES ASSUME NEW x \in Active(D), NEW y \in Active(D), x.kind = "cancel",
                        y.kind = "start", x.task = y.task
                 PROVE  /\ x.attempt < y.attempt
                        /\ x.pos < y.pos
                        /\ x.status = "queued" /\ x.runtime = y.runtime => y.status = "queued"
      BY DEF CancelsFirst
    <3>1. PICK c \in Active(commands) :
             /\ x.pos = c.pos /\ x.task = c.task /\ x.kind = c.kind
             /\ x.attempt = c.attempt /\ x.runtime = c.runtime
             /\ IF c \in chosen THEN x.status = "delivered" ELSE x.status = c.status
      BY <1>9
    <3>2. PICK d \in Active(commands) :
             /\ y.pos = d.pos /\ y.task = d.task /\ y.kind = d.kind
             /\ y.attempt = d.attempt /\ y.runtime = d.runtime
             /\ IF d \in chosen THEN y.status = "delivered" ELSE y.status = d.status
      BY <1>9
    <3>3. /\ c.attempt < d.attempt /\ c.pos < d.pos
          /\ c.status = "queued" /\ c.runtime = d.runtime => d.status = "queued"
      BY <1>1, <3>1, <3>2 DEF QueueFits, CancelsFirst
    <3>4. ASSUME x.status = "queued", x.runtime = y.runtime PROVE y.status = "queued"
      <4>1. c \notin chosen /\ c.status = "queued" /\ c.runtime = d.runtime
        BY <3>1, <3>2, <3>4
      <4>2. c \in commands
        BY DEF Active
      <4>3. d \notin chosen
        BY <1>3, <1>4, <1>5, <3>3, <4>1, <4>2
      <4> QED
        BY <3>2, <3>3, <4>1, <4>3
    <3> QED
      BY <3>1, <3>2, <3>3, <3>4
  <2> QED
    BY <2>1, <2>2, <2>3, <2>4, <2>5 DEF QueueFits
<1>11. Addressed(D, runtimes, fence, quit)
  BY <1>1, <1>9 DEF Addressed
<1>12. D \subseteq Command
  BY <1>6, <1>7
<1> QED
  BY <1>1, <1>2, <1>8, <1>10, <1>11, <1>12 DEF Kept, Sound

\* A command after an acknowledgement with the given ids.
Acked(c, r, ids) ==
    IF c \in ids /\ c.runtime = r /\ c.status = "delivered"
    THEN [c EXCEPT !.status = "acked", !.visible = 0] ELSE c

\* What an acknowledgement changes in a command.
LEMMA AckedFields ==
    ASSUME NEW c \in Command, NEW r, NEW ids
    PROVE  LET d == Acked(c, r, ids) IN
           /\ d \in Command /\ d.pos = c.pos /\ d.task = c.task /\ d.kind = c.kind
           /\ d.attempt = c.attempt /\ d.runtime = c.runtime
           /\ Terminal(d) \/ d.status = c.status
<1> DEFINE d == Acked(c, r, ids)
<1>1. CASE d = c
  BY <1>1
<1>2. CASE d = [c EXCEPT !.status = "acked", !.visible = 0]
  <2>1. 0 \in 0..Visibility
    BY TeamAssumption
  <2> HIDE DEF d
  <2>2. /\ d \in Command /\ d.pos = c.pos /\ d.task = c.task /\ d.kind = c.kind
        /\ d.attempt = c.attempt /\ d.runtime = c.runtime /\ d.status = "acked"
    BY <1>2, <2>1 DEF Command
  <2> QED
    BY <2>2 DEF Terminal, d
<1> QED
  BY <1>1, <1>2 DEF Acked

\* An acknowledgement ends commands and compacts the list.
LEMMA AckKept ==
    ASSUME TeamInv, NEW r \in Runtimes, NEW token, NEW ids, AckCommands(r, token, ids)
    PROVE  Kept
<1> DEFINE f == [c \in commands |-> Acked(c, r, ids)]
           D == {f[c] : c \in commands}
<1>1. /\ tasks \in Seq(Task) /\ Len(tasks) <= MaxTasks /\ commands \subseteq Command
      /\ TasksFit(tasks) /\ Placed(commands) /\ QueueFits(tasks, commands)
      /\ Addressed(commands, runtimes, fence, quit)
  BY TeamParts DEF Sound
<1>2. commands' = Compact(D) /\ notified' = FALSE /\ UNCHANGED <<runtimes, fence, quit, tasks>>
  BY DEF AckCommands, Acked, leaseVars
<1>3. \A c \in commands :
         /\ f[c] \in Command /\ f[c].pos = c.pos /\ f[c].task = c.task /\ f[c].kind = c.kind
         /\ f[c].attempt = c.attempt /\ f[c].runtime = c.runtime
         /\ Terminal(f[c]) \/ f[c].status = c.status
  BY <1>1, AckedFields
<1>4. \A x \in D : \E c \in commands : x = f[c]
  OBVIOUS
<1> HIDE DEF f
<1>5. Placed(D)
  BY <1>1, <1>3, MapPlaced
<1> HIDE DEF D
<1>6. Shrinks(D, commands, f)
  BY <1>3, <1>4 DEF Shrinks
<1>7. QueueFits(tasks, D) /\ Addressed(D, runtimes, fence, quit)
  BY <1>1, <1>6, ShrinkFits, ShrinkAddressed
<1>8. D \in SUBSET Command /\ IsFiniteSet(D) /\ Spread(D)
  BY <1>3, <1>4, <1>5 DEF Placed
<1>9. Sound(tasks, Compact(D), runtimes, fence, quit)
  BY <1>7, <1>8, CompactFits DEF Sound
<1> QED
  BY <1>1, <1>2, <1>9 DEF Kept

\* Time only makes commands due again.
LEMMA TickKept ==
    ASSUME TeamInv, [LeaseNext]_leaseVars, TeamTick
    PROVE  Kept
<1> DEFINE f == [c \in commands |-> [c EXCEPT !.visible = IF c.visible = 0 THEN 0 ELSE c.visible - 1]]
           D == {f[c] : c \in commands}
<1>1. /\ tasks \in Seq(Task) /\ Len(tasks) <= MaxTasks /\ commands \subseteq Command
      /\ TasksFit(tasks) /\ Placed(commands) /\ QueueFits(tasks, commands)
      /\ Addressed(commands, runtimes, fence, quit)
  BY TeamParts DEF Sound
<1>2. commands' = D /\ notified' = FALSE /\ tasks' = tasks /\ fence' = fence
  BY DEF TeamTick, LeaseTick
<1>3. \A c \in commands :
         /\ f[c] \in Command /\ f[c].pos = c.pos /\ f[c].task = c.task /\ f[c].kind = c.kind
         /\ f[c].attempt = c.attempt /\ f[c].runtime = c.runtime /\ f[c].status = c.status
  <2> SUFFICES ASSUME NEW c \in commands
               PROVE  /\ f[c] \in Command /\ f[c].pos = c.pos /\ f[c].task = c.task
                      /\ f[c].kind = c.kind /\ f[c].attempt = c.attempt
                      /\ f[c].runtime = c.runtime /\ f[c].status = c.status
    OBVIOUS
  <2> DEFINE v == IF c.visible = 0 THEN 0 ELSE c.visible - 1
  <2>1. c \in Command /\ v \in 0..Visibility
    BY <1>1, CommandFields, TeamAssumption
  <2>2. f[c] = [c EXCEPT !.visible = v]
    OBVIOUS
  <2> HIDE DEF f, v
  <2> QED
    BY <2>1, <2>2 DEF Command
<1>4. \A x \in D : \E c \in commands : x = f[c]
  OBVIOUS
<1> HIDE DEF f
<1>5. Placed(D)
  BY <1>1, <1>3, MapPlaced
<1> HIDE DEF D
<1>6. Shrinks(D, commands, f)
  BY <1>3, <1>4 DEF Shrinks
<1>7. QueueFits(tasks, D) /\ Addressed(D, runtimes, fence, quit)
  BY <1>1, <1>6, ShrinkFits, ShrinkAddressed
<1>8. Sound(tasks, D, runtimes, fence, quit)
  BY <1>3, <1>4, <1>5, <1>7 DEF Sound
<1>9. Sound(tasks, D, runtimes', fence', quit')
  BY <1>2, <1>8, TeamParts, LeasesMove
<1> QED
  BY <1>1, <1>2, <1>9 DEF Kept

\* What creation and retry can find about a task.
LEMMA AdmissionFits ==
    ASSUME NEW T, NEW deps, NEW units, NEW except
    PROVE  Admission(T, deps, units, except) \in TaskStatus
BY DEF Admission, DependencyStatus, TaskStatus, Occupying, Waiting

\* One task is replaced: its commands survive the change, or it has none left.
LEMMA TaskReplaced ==
    ASSUME NEW T \in Seq(Task), TasksFit(T), NEW i \in DOMAIN T, NEW u \in Task,
           T[i].attempt <= u.attempt,
           u.stop => u.status \notin NotBegun, u.done = "manual" => u.status = "completed",
           NEW C, NEW rows, NEW latest, NEW gone, Sound(T, C, rows, latest, gone),
           Moves(T[i], u) \/ \A c \in Active(C) : c.task # i
    PROVE  LET U == [T EXCEPT ![i] = u] IN
           /\ U \in Seq(Task) /\ Len(U) = Len(T) /\ DOMAIN U = DOMAIN T
           /\ U[i] = u /\ \A j \in DOMAIN T : j # i => U[j] = T[j]
           /\ TasksFit(U)
           /\ Sound(U, C, rows, latest, gone)
<1> DEFINE U == [T EXCEPT ![i] = u]
<1>1. /\ U \in Seq(Task) /\ Len(U) = Len(T) /\ DOMAIN U = DOMAIN T
      /\ U[i] = u /\ \A j \in DOMAIN T : j # i => U[j] = T[j]
  OBVIOUS
<1> HIDE DEF U
<1>2. TasksFit(U)
  BY <1>1 DEF TasksFit
<1>3. \A j \in DOMAIN T : T[j].attempt \in Nat /\ U[j].attempt \in Nat
  <2>1. \A j \in DOMAIN T : T[j] \in Task /\ U[j] \in Task
    BY <1>1
  <2> QED
    BY <2>1, TaskFields
<1>4. \A j \in DOMAIN T :
         \/ Moves(T[j], U[j])
         \/ T[j].attempt <= U[j].attempt /\ \A c \in Active(C) : c.task # j
  <2> SUFFICES ASSUME NEW j \in DOMAIN T
               PROVE  \/ Moves(T[j], U[j])
                      \/ T[j].attempt <= U[j].attempt /\ \A c \in Active(C) : c.task # j
    OBVIOUS
  <2>1. CASE j = i
    BY <1>1, <2>1
  <2>2. CASE j # i
    BY <1>1, <2>2 DEF Moves
  <2> QED
    BY <2>1, <2>2
<1>5. Sound(U, C, rows, latest, gone)
  <2>1. DOMAIN T \subseteq DOMAIN U
    BY <1>1
  <2> QED
    BY <1>3, <1>4, <2>1, TasksMove
<1> QED
  BY <1>1, <1>2, <1>5 DEF U

\* A single start or input.
LEMMA OneItemFits ==
    ASSUME NEW T \in Seq(Task), Len(T) <= MaxTasks, NEW C, NEW i \in DOMAIN T,
           NEW kind \in {"start", "input"},
           kind = "start" => /\ T[i].status = "accepted"
                             /\ \A c \in Active(C) : c.kind = "start" => c.task # i
    PROVE  ItemsFit(T, C, {Item(1, i, kind, T[i].attempt)})
<1> DEFINE x == Item(1, i, kind, T[i].attempt)
<1>1. x.at = 1 /\ x.task = i /\ x.kind = kind /\ x.attempt = T[i].attempt
  BY ItemFields
<1> HIDE DEF x
<1>2. i \in 1..MaxTasks /\ 1 \in 1..(MaxTasks + 2)
  BY TeamAssumption
<1>3. T[i].attempt \in 1..MaxAttempt /\ T[i].attempt <= T[i].attempt
  <2>1. T[i] \in Task
    OBVIOUS
  <2> QED
    BY <2>1, TaskFields
<1>4. ItemsFit(T, C, {x})
  BY <1>1, <1>2, <1>3 DEF ItemsFit
<1> QED
  BY <1>4 DEF x

\* A new task has no commands but its own start.
LEMMA CreateKept ==
    ASSUME TeamInv, NEW deps \in DepLists, NEW units \in Profiles, NEW key \in Keys \cup {NoKey},
           CreateTask(deps, units, key)
    PROVE  Kept
<1> DEFINE status == Admission(tasks, deps, units, {})
           i == Len(tasks) + 1
           new == [status |-> status, attempt |-> 1, deps |-> deps, units |-> units,
                   key |-> key, done |-> "none", stop |-> FALSE]
           U == Append(tasks, new)
           items == IF status = "accepted" THEN {Item(1, i, "start", 1)} ELSE {}
<1>1. /\ tasks \in Seq(Task) /\ Len(tasks) \in Nat /\ Len(tasks) <= MaxTasks
      /\ DOMAIN tasks = 1..Len(tasks) /\ \A j \in DOMAIN tasks : tasks[j] \in Task
      /\ TasksFit(tasks) /\ Sound(tasks, commands, runtimes, fence, quit)
      /\ TargetFits(runtimes, fence, quit)
  BY TeamParts
<1>2. /\ tasks' = U /\ commands' = Enqueue(commands, runtimes, items) /\ notified' = TRUE
      /\ UNCHANGED <<runtimes, fence, quit>> /\ Len(tasks) < MaxTasks
  BY DEF CreateTask, leaseVars, TaskRoom
<1>3. deps \in Seq(1..MaxTasks)
  <2>1. DOMAIN tasks \subseteq 1..MaxTasks
    BY <1>1, TeamAssumption
  <2> HIDE <1>1
  <2>2. CASE deps = << >>
    BY <2>2
  <2>3. ASSUME NEW j \in DOMAIN tasks, deps = <<j>> PROVE deps \in Seq(1..MaxTasks)
    BY <2>1, <2>3
  <2>4. CASE deps \in (DOMAIN tasks) \X (DOMAIN tasks)
    <3>1. PICK a \in DOMAIN tasks, b \in DOMAIN tasks : deps = <<a, b>>
      BY <2>4
    <3> QED
      BY <2>1, <3>1
  <2> QED
    BY <2>2, <2>3, <2>4 DEF DepLists
<1>4. status \in TaskStatus
  BY AdmissionFits
<1> HIDE DEF status
<1>5. new \in Task
  BY <1>3, <1>4, TeamAssumption DEF Task
<1>6. new.status = status /\ new.attempt = 1 /\ new.done = "none" /\ new.stop = FALSE
  OBVIOUS
<1> HIDE DEF new
<1>7. /\ U \in Seq(Task) /\ Len(U) = i /\ DOMAIN U = 1..i /\ U[i] = new
      /\ \A j \in DOMAIN tasks : U[j] = tasks[j]
  BY <1>1, <1>5
<1> HIDE DEF U
<1>8. Len(U) <= MaxTasks
  BY <1>1, <1>2, <1>7, TeamAssumption
<1>9. TasksFit(U)
  <2> SUFFICES ASSUME NEW j \in DOMAIN U
               PROVE  /\ U[j].stop => U[j].status \notin NotBegun
                      /\ U[j].done = "manual" => U[j].status = "completed"
    BY DEF TasksFit
  <2>1. j = i \/ j \in DOMAIN tasks
    BY <1>1, <1>7
  <2> QED
    BY <1>1, <1>6, <1>7, <2>1 DEF TasksFit
<1>10. Sound(U, commands, runtimes, fence, quit)
  <2>1. \A j \in DOMAIN tasks : tasks[j].attempt \in Nat /\ U[j].attempt \in Nat
    BY <1>1, <1>7, TaskFields
  <2>2. \A j \in DOMAIN tasks : Moves(tasks[j], U[j])
    BY <1>7 DEF Moves
  <2>3. DOMAIN tasks \subseteq DOMAIN U
    BY <1>1, <1>7
  <2> QED
    BY <1>1, <2>1, <2>2, <2>3, TasksMove
<1>11. ItemsFit(U, commands, items)
  <2>1. CASE status = "accepted"
    <3>1. i \in DOMAIN U
      BY <1>1, <1>7
    <3>2. \A c \in Active(commands) : c.task # i
      <4>1. \A c \in Active(commands) : c.task \in 1..Len(tasks)
        BY <1>1 DEF Sound, QueueFits, Known, Active
      <4> QED
        BY <1>1, <4>1
    <3>3. U[i].status = "accepted" /\ U[i].attempt = 1
      BY <1>6, <1>7, <2>1
    <3>4. items = {Item(1, i, "start", U[i].attempt)}
      BY <2>1, <3>3
    <3> HIDE DEF i, items
    <3> QED
      BY <1>7, <1>8, <3>1, <3>2, <3>3, <3>4, OneItemFits
  <2>2. CASE status # "accepted"
    BY <2>2 DEF ItemsFit
  <2> QED
    BY <2>1, <2>2
<1> HIDE DEF items
<1>12. Sound(U, Enqueue(commands, runtimes, items), runtimes, fence, quit)
  BY <1>1, <1>7, <1>9, <1>10, <1>11, EnqueueSound
<1> QED
  BY <1>2, <1>7, <1>8, <1>9, <1>12 DEF Kept

\* An input goes to the end of the queue.
LEMMA InputKept ==
    ASSUME TeamInv, NEW i \in DOMAIN tasks, Input(i)
    PROVE  Kept
<1> DEFINE items == {Item(1, i, "input", tasks[i].attempt)}
<1>1. /\ tasks \in Seq(Task) /\ Len(tasks) <= MaxTasks /\ TasksFit(tasks)
      /\ Sound(tasks, commands, runtimes, fence, quit) /\ TargetFits(runtimes, fence, quit)
  BY TeamParts
<1>2. /\ tasks' = tasks /\ commands' = Enqueue(commands, runtimes, items) /\ notified' = TRUE
      /\ UNCHANGED <<runtimes, fence, quit>>
  BY DEF Input, leaseVars
<1>3. ItemsFit(tasks, commands, items)
  BY <1>1, OneItemFits
<1> HIDE DEF items
<1>4. Sound(tasks, Enqueue(commands, runtimes, items), runtimes, fence, quit)
  BY <1>1, <1>3, EnqueueSound
<1> QED
  BY <1>1, <1>2, <1>4 DEF Kept

\* A user ends the attempt of a task; what this frees is given out at once.
LEMMA EndingKept ==
    ASSUME TeamInv, NEW i \in DOMAIN tasks, NEW u \in Task, u.attempt = tasks[i].attempt,
           u.status \notin NotBegun, u.done = "manual" => u.status = "completed",
           NEW C, NEW items,
           \/ /\ C = Supersede(commands, i)
              /\ \E at \in {1, MaxTasks + 2} : items = {Item(at, i, "cancel", tasks[i].attempt)}
           \/ C = commands /\ items = {} /\ Moves(tasks[i], u),
           ActivateReady([tasks EXCEPT ![i] = u], C, items),
           notified' = TRUE, UNCHANGED leaseVars
    PROVE  /\ Kept
           /\ \A j \in DOMAIN tasks : j # i /\ tasks[j].status \notin Waiting => tasks'[j] = tasks[j]
<1> DEFINE U == [tasks EXCEPT ![i] = u]
<1>1. /\ tasks \in Seq(Task) /\ Len(tasks) <= MaxTasks /\ TasksFit(tasks)
      /\ Sound(tasks, commands, runtimes, fence, quit) /\ TargetFits(runtimes, fence, quit)
      /\ \A j \in DOMAIN tasks : tasks[j] \in Task
  BY TeamParts
<1>2. /\ Sound(tasks, C, runtimes, fence, quit)
      /\ Moves(tasks[i], u) \/ \A c \in Active(C) : c.task # i
  BY <1>1, SupersedeSound
<1>3. tasks[i].attempt <= u.attempt
  BY <1>1, TaskFields
<1>4. /\ U \in Seq(Task) /\ Len(U) = Len(tasks) /\ DOMAIN U = DOMAIN tasks
      /\ U[i] = u /\ \A j \in DOMAIN tasks : j # i => U[j] = tasks[j]
      /\ TasksFit(U)
      /\ Sound(U, C, runtimes, fence, quit)
  BY <1>1, <1>2, <1>3, TaskReplaced
<1>5. ActivateReady(U, C, items)
  OBVIOUS
<1> HIDE DEF U
<1>6. EndingItems(U, C, items)
  <2>1. CASE items = {}
    BY <2>1 DEF EndingItems
  <2>2. CASE items # {}
    <3>1. C = Supersede(commands, i)
      BY <2>2
    <3>2. PICK at \in {1, MaxTasks + 2} : items = {Item(at, i, "cancel", tasks[i].attempt)}
      BY <2>2
    <3>3. \A c \in Active(C) : c.task # i
      BY <1>1, <3>1, SupersedeSound
    <3> QED
      BY <1>4, <3>2, <3>3 DEF EndingItems
  <2> QED
    BY <2>1, <2>2
<1>7. /\ tasks' \in Seq(Task) /\ Len(tasks') = Len(U) /\ TasksFit(tasks')
      /\ \A j \in DOMAIN U : U[j].status \notin Waiting => tasks'[j] = U[j]
      /\ Sound(tasks', commands', runtimes, fence, quit)
  <2>1. Len(U) <= MaxTasks
    BY <1>1, <1>4
  <2> QED
    BY <1>1, <1>4, <1>5, <1>6, <2>1, ActivateSound
<1>8. Kept
  BY <1>1, <1>4, <1>7 DEF Kept, leaseVars
<1> QED
  BY <1>4, <1>7, <1>8

\* Cancelling supersedes the commands of the task and cancels its attempt.
LEMMA CancelKept ==
    ASSUME TeamInv, NEW i \in DOMAIN tasks, Cancel(i)
    PROVE  /\ Kept
           /\ \A j \in DOMAIN tasks : j # i /\ tasks[j].status \notin Waiting => tasks'[j] = tasks[j]
<1> DEFINE u == [tasks[i] EXCEPT !.status = "cancelled", !.stop = TRUE]
<1>1. tasks[i] \in Task /\ TasksFit(tasks)
  BY TeamParts
<1>2. u \in Task /\ u.status = "cancelled" /\ u.attempt = tasks[i].attempt /\ u.done = tasks[i].done
  BY <1>1 DEF Task, TaskStatus
<1>3. u.done # "manual"
  BY <1>1, <1>2 DEF Cancel, ManuallyCompleted, TasksFit
<1>4. /\ ActivateReady([tasks EXCEPT ![i] = u], Supersede(commands, i),
                       {Item(MaxTasks + 2, i, "cancel", tasks[i].attempt)})
      /\ notified' = TRUE /\ UNCHANGED leaseVars
  BY DEF Cancel
<1>5. u.status \notin NotBegun
  BY <1>2 DEF NotBegun, Waiting
<1> HIDE DEF u
<1> QED
  BY <1>2, <1>3, <1>4, <1>5, EndingKept

\* So does completing it by hand.
LEMMA CompleteKept ==
    ASSUME TeamInv, NEW i \in DOMAIN tasks, Complete(i)
    PROVE  /\ Kept
           /\ \A j \in DOMAIN tasks : j # i /\ tasks[j].status \notin Waiting => tasks'[j] = tasks[j]
<1> DEFINE u == [tasks[i] EXCEPT !.status = "completed", !.done = "manual"]
<1>1. tasks[i] \in Task
  BY TeamParts
<1>2. u \in Task /\ u.status = "completed" /\ u.attempt = tasks[i].attempt
  BY <1>1 DEF Task, TaskStatus
<1>3. /\ ActivateReady([tasks EXCEPT ![i] = u], Supersede(commands, i),
                       {Item(1, i, "cancel", tasks[i].attempt)})
      /\ notified' = TRUE /\ UNCHANGED leaseVars
  BY DEF Complete
<1>4. u.status \notin NotBegun
  BY <1>2 DEF NotBegun, Waiting
<1> HIDE DEF u
<1> QED
  BY <1>2, <1>3, <1>4, EndingKept

\* A rejected task may keep its commands.
LEMMA RejectKept ==
    ASSUME TeamInv, NEW i \in DOMAIN tasks, Reject(i)
    PROVE  /\ Kept
           /\ \A j \in DOMAIN tasks : j # i /\ tasks[j].status \notin Waiting => tasks'[j] = tasks[j]
<1> DEFINE u == [tasks[i] EXCEPT !.status = "blocked"]
<1>1. tasks[i] \in Task /\ TasksFit(tasks)
  BY TeamParts
<1>2. /\ u \in Task /\ u.status = "blocked" /\ u.attempt = tasks[i].attempt
      /\ u.done = tasks[i].done /\ u.stop = tasks[i].stop
  BY <1>1 DEF Task, TaskStatus
<1>3. u.done # "manual"
  BY <1>1, <1>2 DEF Reject, ManuallyCompleted, TasksFit
<1>4. /\ ActivateReady([tasks EXCEPT ![i] = u], commands, {})
      /\ notified' = TRUE /\ UNCHANGED leaseVars
  BY DEF Reject
<1>5. u.status \notin NotBegun /\ u.status \notin Waiting
  BY <1>2 DEF NotBegun, Waiting
<1> HIDE DEF u
<1>6. Moves(tasks[i], u)
  BY <1>2, <1>5 DEF Moves
<1> QED
  BY <1>2, <1>3, <1>4, <1>5, <1>6, EndingKept

\* The old attempt's cancellation goes into the list before the new start.
LEMMA RetryKept ==
    ASSUME TeamInv, NEW i \in DOMAIN tasks, Retry(i)
    PROVE  /\ Kept
           /\ \A j \in DOMAIN tasks : j # i => tasks'[j] = tasks[j]
<1> DEFINE t == tasks[i]
           s == Admission(tasks, t.deps, t.units, {i})
           u == [t EXCEPT !.status = s, !.attempt = t.attempt + 1, !.done = "none", !.stop = FALSE]
           U == [tasks EXCEPT ![i] = u]
           C == Supersede(commands, i)
           items == RetryItems(i, t.attempt, s)
<1>1. /\ tasks \in Seq(Task) /\ Len(tasks) <= MaxTasks /\ TasksFit(tasks)
      /\ Sound(tasks, commands, runtimes, fence, quit) /\ TargetFits(runtimes, fence, quit)
      /\ t \in Task /\ i \in 1..MaxTasks
  BY TeamParts, TeamAssumption
<1>2. /\ tasks' = U /\ commands' = Enqueue(C, runtimes, items) /\ notified' = TRUE
      /\ UNCHANGED <<runtimes, fence, quit>> /\ t.attempt < MaxAttempt
  BY DEF Retry, leaseVars
<1>3. s \in TaskStatus
  BY AdmissionFits
<1>4. t.attempt \in 1..MaxAttempt /\ t.attempt + 1 \in 1..MaxAttempt
  BY <1>1, <1>2, TaskFields, TeamAssumption
<1> HIDE DEF s, t
<1>5. u \in Task /\ u.status = s /\ u.attempt = t.attempt + 1 /\ u.done = "none" /\ u.stop = FALSE
  BY <1>1, <1>3, <1>4 DEF Task
<1> HIDE DEF u
<1>6. /\ Sound(tasks, C, runtimes, fence, quit)
      /\ \A c \in Active(C) : c.task # i
  BY <1>1, SupersedeSound
<1>7. tasks[i].attempt <= u.attempt
  BY <1>4, <1>5 DEF t
<1>8. /\ U \in Seq(Task) /\ Len(U) = Len(tasks) /\ DOMAIN U = DOMAIN tasks
      /\ U[i] = u /\ \A j \in DOMAIN tasks : j # i => U[j] = tasks[j]
      /\ TasksFit(U)
      /\ Sound(U, C, runtimes, fence, quit)
  BY <1>1, <1>5, <1>6, <1>7, TaskReplaced
<1> HIDE DEF U, C
<1>9. \A x \in items :
         \/ /\ x = Item(1, i, "cancel", t.attempt)
            /\ x.at = 1 /\ x.task = i /\ x.kind = "cancel" /\ x.attempt = t.attempt
         \/ /\ x = Item(2, i, "start", t.attempt + 1) /\ s = "accepted"
            /\ x.at = 2 /\ x.task = i /\ x.kind = "start" /\ x.attempt = t.attempt + 1
  BY ItemFields DEF RetryItems
<1> HIDE DEF items
<1>10. ItemsFit(U, C, items)
  <2>1. 1 \in 1..(MaxTasks + 2) /\ 2 \in 1..(MaxTasks + 2)
    BY TeamAssumption
  <2>2. t.attempt <= u.attempt /\ t.attempt # u.attempt /\ u.attempt <= u.attempt
    BY <1>4, <1>5
  <2> QED
    BY <1>1, <1>4, <1>5, <1>6, <1>8, <1>9, <2>1, <2>2 DEF ItemsFit
<1>11. Sound(U, Enqueue(C, runtimes, items), runtimes, fence, quit)
  BY <1>1, <1>8, <1>10, EnqueueSound
<1>12. Kept
  BY <1>1, <1>2, <1>8, <1>11 DEF Kept
<1> QED
  BY <1>2, <1>8, <1>12

-----------------------------------------------------------------------------
(* The invariant of the control plane.                                     *)

\* The invariant holds at the start.
LEMMA TeamInitInv == TeamInit => TeamInv
<1> SUFFICES ASSUME TeamInit PROVE TeamInv
  OBVIOUS
<1>1. LeaseInv
  BY LeaseInitInv DEF TeamInit
<1>2. AbsentRows
  BY DEF TeamInit, LeaseInit, Absent, AbsentRows
<1>3. TeamTypeOK /\ TasksFit(tasks)
  <2>1. tasks = << >> /\ commands = {} /\ notified = FALSE
    BY DEF TeamInit
  <2>2. tasks \in Seq(Task) /\ Len(tasks) = 0 /\ DOMAIN tasks = {}
    BY <2>1
  <2>3. Len(tasks) <= MaxTasks
    BY <2>2, TeamAssumption
  <2> QED
    BY <2>1, <2>2, <2>3 DEF TeamTypeOK, TasksFit
<1>4. Placed(commands)
  BY FS_EmptySet DEF TeamInit, Placed, Spread
<1>5. QueueFits(tasks, commands) /\ Addressed(commands, runtimes, fence, quit)
  BY DEF TeamInit, QueueFits, Known, CurrentStarts, SingleStarts, EndedCancels, CancelsFirst,
         Addressed, Active
<1> QED
  BY <1>1, <1>2, <1>3, <1>4, <1>5 DEF TeamInv, QueueInv

\* Every handler keeps the invariant.
LEMMA TeamStepInv == TeamInv /\ [TeamNext]_teamVars => TeamInv'
<1> SUFFICES ASSUME TeamInv, [TeamNext]_teamVars PROVE TeamInv'
  OBVIOUS
<1>1. LeaseInv /\ AbsentRows
  BY DEF TeamInv
<1>2. [LeaseNext]_leaseVars
  BY <1>1, TeamStepIsLeaseStep DEF LeaseInv
<1>3. LeaseInv' /\ AbsentRows'
  BY <1>1, <1>2, LeaseStepInv, AbsentRowsStep
<1>4. ASSUME NEW r \in Runtimes, AgentStep(r) PROVE Kept
  <2>1. CASE TeamRegister(r)
    BY <1>3, <2>1, RegisterKept
  <2>2. ASSUME NEW token \in Tokens, NEW load \in Loads, TeamHeartbeat(r, token, load) PROVE Kept
    BY <1>2, <2>2, LeaseOnlyKept DEF TeamHeartbeat, Heartbeat
  <2>3. ASSUME NEW token \in Tokens, TeamUnregister(r, token) PROVE Kept
    BY <1>2, <2>3, LeaseOnlyKept DEF TeamUnregister, Unregister
  <2>4. ASSUME NEW token \in Tokens, UploadReplay(r, token) PROVE Kept
    BY <1>2, <2>4, LeaseOnlyKept DEF UploadReplay, Events
  <2>5. ASSUME NEW token \in Tokens, NEW limit \in 1..MaxPoll, PollCommands(r, token, limit)
        PROVE  Kept
    BY <2>5, PollKept
  <2>6. ASSUME NEW token \in Tokens, NEW ids \in SUBSET commands, AckCommands(r, token, ids)
        PROVE  Kept
    BY <2>6, AckKept
  <2>7. ASSUME NEW token \in Tokens, NEW type \in EventTypes, UploadTaskless(r, token, type)
        PROVE  Kept
    BY <1>2, <2>7, UploadTasklessKept
  <2>8. ASSUME NEW token \in Tokens, NEW type \in EventTypes, NEW i \in DOMAIN tasks,
               NEW attempt \in 1..tasks[i].attempt, UploadEvent(r, token, i, type, attempt)
        PROVE  Kept
    BY <1>2, <2>8, UploadEventKept
  <2> QED
    BY <1>4, <2>1, <2>2, <2>3, <2>4, <2>5, <2>6, <2>7, <2>8 DEF AgentStep
<1>5. ASSUME UserStep PROVE Kept
  <2>1. ASSUME NEW deps \in DepLists, NEW units \in Profiles, NEW key \in Keys \cup {NoKey},
               CreateTask(deps, units, key)
        PROVE  Kept
    BY <2>1, CreateKept
  <2>2. ASSUME NEW i \in DOMAIN tasks, Input(i) PROVE Kept
    BY <2>2, InputKept
  <2>3. ASSUME NEW i \in DOMAIN tasks, Cancel(i) PROVE Kept
    BY <2>3, CancelKept
  <2>4. ASSUME NEW i \in DOMAIN tasks, Complete(i) PROVE Kept
    BY <2>4, CompleteKept
  <2>5. ASSUME NEW i \in DOMAIN tasks, Retry(i) PROVE Kept
    BY <2>5, RetryKept
  <2>6. ASSUME NEW i \in DOMAIN tasks, Reject(i) PROVE Kept
    BY <2>6, RejectKept
  <2>7. ASSUME NEW i \in DOMAIN tasks, Approve(i) PROVE Kept
    BY <1>2, <2>7, LeaseOnlyKept DEF Approve, leaseVars
  <2> QED
    BY <1>5, <2>1, <2>2, <2>3, <2>4, <2>5, <2>6, <2>7 DEF UserStep
<1>6. ASSUME TeamExpireLeases PROVE Kept
  BY <1>2, <1>6, LeaseOnlyKept DEF TeamExpireLeases, ExpireLeases
<1>7. ASSUME TeamTick PROVE Kept
  BY <1>2, <1>7, TickKept
<1>8. ASSUME UNCHANGED teamVars PROVE Kept
  <2>1. notified' \in BOOLEAN
    BY <1>8, TeamParts DEF teamVars
  <2> QED
    BY <1>2, <1>8, <2>1, LeaseOnlyKept DEF teamVars
<1>9. Kept
  BY <1>4, <1>5, <1>6, <1>7, <1>8 DEF TeamNext
<1> QED
  BY <1>3, <1>9 DEF TeamInv, TeamTypeOK, QueueInv, Kept, Sound

\* The invariant of the tasks and the command queue holds under all handlers of
\* agents and users in agent_team.go.
THEOREM TeamInvariance == TeamSpec => []TeamInv
BY TeamInitInv, TeamStepInv, PTL DEF TeamSpec

\* The tasks and the queue keep their types under all handlers.
THEOREM TeamTypeCorrect == TeamSpec => []TeamTypeOK
<1>1. TeamInv => TeamTypeOK
  BY DEF TeamInv
<1> QED
  BY <1>1, TeamInvariance, PTL

\* Whatever is superseded, retried, requeued by a failover or activated, a
\* task.start that can still be delivered is the only one of its task, for its
\* current attempt, and its task neither waits nor was ended by the user.
THEOREM StartsAreCurrent == TeamSpec => []StartIsCurrent
<1>1. TeamInv => StartIsCurrent
  BY DEF TeamInv, QueueInv, QueueFits, CurrentStarts, SingleStarts, HumanTerminal, StartIsCurrent
<1> QED
  BY <1>1, TeamInvariance, PTL

\* No poll limit, redelivery or failover lets the start of a new attempt overtake
\* the cancellation of an old one, except between two runtimes of which one has
\* unregistered.
THEOREM CancelsComeFirst == TeamSpec => []CancelBeforeRestart
<1>1. TeamInv => CancelBeforeRestart
  <2> SUFFICES ASSUME TeamInv, NEW c \in Active(commands), NEW d \in Active(commands),
                      c.kind = "cancel", d.kind = "start", c.task = d.task
               PROVE  /\ c.attempt < d.attempt
                      /\ c.pos < d.pos
                      /\ c.status = "queued" =>
                           \/ d.status = "queued"
                           \/ c.runtime # d.runtime /\ {c.runtime, d.runtime} \cap quit # {}
    BY DEF CancelBeforeRestart
  <2>1. /\ c.attempt < d.attempt /\ c.pos < d.pos
        /\ c.status = "queued" /\ c.runtime = d.runtime => d.status = "queued"
    BY DEF TeamInv, QueueInv, QueueFits, CancelsFirst
  <2>2. c.runtime \in Registered /\ d.runtime \in Registered
    <3>1. c \in Command /\ d \in Command
      BY DEF TeamInv, TeamTypeOK, Active
    <3> QED
      BY <3>1, CommandFields DEF TeamInv, QueueInv, Addressed, Registered
  <2>3. {c.runtime, d.runtime} \cap quit = {} => c.runtime = d.runtime
    BY <2>2 DEF TeamInv, QueueInv, Addressed, LeaseInv, TokenOrder
  <2> QED
    BY <2>1, <2>3
<1> QED
  BY <1>1, TeamInvariance, PTL

\* What the user completed never changes, and what the user cancelled is changed
\* by another user action only.
THEOREM DecisionsStand == TeamSpec => UserDecisionStands
<1> DEFINE P == \A i \in DOMAIN tasks :
                   HumanTerminal(tasks[i]) /\ tasks'[i] # tasks[i]
                      => tasks[i].status = "cancelled" /\ runtimes' = runtimes
<1>1. TeamInv /\ [TeamNext]_teamVars => P
  <2> SUFFICES ASSUME TeamInv, [TeamNext]_teamVars, NEW k \in DOMAIN tasks,
                      HumanTerminal(tasks[k]), tasks'[k] # tasks[k]
               PROVE  tasks[k].status = "cancelled" /\ runtimes' = runtimes
    OBVIOUS
  <2>1. /\ tasks \in Seq(Task) /\ Len(tasks) <= MaxTasks /\ TasksFit(tasks)
        /\ Sound(tasks, commands, runtimes, fence, quit) /\ TargetFits(runtimes, fence, quit)
        /\ \A j \in DOMAIN tasks : tasks[j] \in Task
    BY TeamParts
  <2>2. tasks[k].status \notin Waiting
    BY DEF HumanTerminal, Waiting
  <2>3. ASSUME NEW T \in Seq(Task), Len(T) <= MaxTasks, TasksFit(T),
               Sound(T, commands, runtimes, fence, quit), k \in DOMAIN T, T[k] = tasks[k],
               ActivateReady(T, commands, {})
        PROVE  FALSE
    <3>1. EndingItems(T, commands, {})
      BY DEF EndingItems
    <3>2. tasks'[k] = T[k]
      BY <2>1, <2>2, <2>3, <3>1, ActivateSound
    <3> QED
      BY <2>3, <3>2
  <2>4. ASSUME NEW r \in Runtimes, NEW token, NEW type, UploadTaskless(r, token, type)
        PROVE  FALSE
    <3>1. ActivateReady(tasks, commands, {}) \/ tasks' = tasks
      BY <2>4 DEF UploadTaskless
    <3> QED
      BY <2>1, <2>3, <3>1
  <2>5. ASSUME NEW r \in Runtimes, NEW token, NEW type \in EventTypes, NEW i \in DOMAIN tasks,
               NEW attempt, UploadEvent(r, token, i, type, attempt)
        PROVE  FALSE
    <3> DEFINE U == ApplyEvent(tasks, i, type)
    <3>1. U \in Seq(Task) /\ Len(U) = Len(tasks) /\ TasksFit(U)
          /\ Sound(U, commands, runtimes, fence, quit)
          /\ \A j \in DOMAIN tasks : HumanTerminal(tasks[j]) => U[j] = tasks[j]
      BY <2>1, EventApplied
    <3>2. ActivateReady(U, commands, {}) \/ tasks' = U \/ tasks' = tasks
      BY <2>5 DEF UploadEvent
    <3> HIDE DEF U
    <3>3. k \in DOMAIN U /\ U[k] = tasks[k] /\ Len(U) <= MaxTasks
      BY <2>1, <3>1
    <3> QED
      BY <2>3, <3>1, <3>2, <3>3
  <2>6. ASSUME NEW i \in DOMAIN tasks, Cancel(i) \/ Complete(i) \/ Reject(i)
        PROVE  tasks[k].status = "cancelled" /\ runtimes' = runtimes
    <3>1. k = i
      BY <2>2, <2>6, CancelKept, CompleteKept, RejectKept
    <3>2. ~ManuallyCompleted(tasks[i])
      BY <2>6 DEF Cancel, Complete, Reject, ManuallyCompleted
    <3> QED
      BY <2>6, <3>1, <3>2 DEF Cancel, Complete, Reject, HumanTerminal, ManuallyCompleted, leaseVars
  <2>7. ASSUME NEW i \in DOMAIN tasks, Retry(i)
        PROVE  tasks[k].status = "cancelled" /\ runtimes' = runtimes
    <3>1. k = i
      BY <2>7, RetryKept
    <3> QED
      BY <2>7, <3>1 DEF Retry, HumanTerminal, ManuallyCompleted, leaseVars
  <2>8. ASSUME NEW deps, NEW units, NEW key, CreateTask(deps, units, key) PROVE FALSE
    <3>1. PICK new : tasks' = Append(tasks, new)
      BY <2>8 DEF CreateTask
    <3>2. tasks'[k] = tasks[k]
      BY <2>1, <3>1
    <3> QED
      BY <3>2
  <2>9. CASE UserStep
    BY <2>6, <2>7, <2>8, <2>9 DEF UserStep, Input, Approve
  <2>10. ASSUME NEW r \in Runtimes, AgentStep(r) PROVE FALSE
    BY <2>4, <2>5, <2>10 DEF AgentStep, TeamRegister, TeamHeartbeat, TeamUnregister, UploadReplay,
                            PollCommands, AckCommands
  <2>11. ~TeamExpireLeases /\ ~TeamTick /\ ~UNCHANGED teamVars
    BY DEF TeamExpireLeases, TeamTick, teamVars
  <2> QED
    BY <2>9, <2>10, <2>11 DEF TeamNext
<1>2. TeamInv /\ [TeamNext]_teamVars => [P]_teamVars
  BY <1>1
<1> QED
  BY <1>2, TeamInvariance, PTL DEF TeamSpec, UserDecisionStands

\* A command list that carries what another carries carries it on.
LEMMA CarriedOn ==
    ASSUME NEW C, NEW D, NEW E, Carries(C, D), Carries(D, E)
    PROVE  Carries(C, E)
<1>1. PICK f \in [Active(C) -> Active(D)] :
         /\ \A c \in Active(C) : f[c].task = c.task /\ f[c].kind = c.kind /\ f[c].attempt = c.attempt
         /\ \A c, d \in Active(C) : c.pos < d.pos => f[c].pos < f[d].pos
  BY DEF Carries
<1>2. PICK g \in [Active(D) -> Active(E)] :
         /\ \A c \in Active(D) : g[c].task = c.task /\ g[c].kind = c.kind /\ g[c].attempt = c.attempt
         /\ \A c, d \in Active(D) : c.pos < d.pos => g[c].pos < g[d].pos
  BY DEF Carries
<1> DEFINE h == [c \in Active(C) |-> g[f[c]]]
<1>3. h \in [Active(C) -> Active(E)] /\ \A c \in Active(C) : h[c] = g[f[c]] /\ f[c] \in Active(D)
  OBVIOUS
<1> HIDE DEF h
<1>4. \A c \in Active(C) : h[c].task = c.task /\ h[c].kind = c.kind /\ h[c].attempt = c.attempt
  BY <1>1, <1>2, <1>3
<1>5. \A c, d \in Active(C) : c.pos < d.pos => h[c].pos < h[d].pos
  BY <1>1, <1>2, <1>3
<1> QED
  BY <1>3, <1>4, <1>5 DEF Carries

\* Compaction carries every command that can still be delivered.
LEMMA KeptIsCarried ==
    ASSUME NEW C, NEW D, NEW K, NEW f, Keeps(C, D, K, f)
    PROVE  Carries(C, D)
<1> DEFINE h == [c \in Active(C) |-> f[c]]
<1>1. ASSUME NEW c \in Active(C) PROVE c \in K /\ f[c] \in Active(D)
  <2>1. c \in K /\ ~Terminal(c)
    BY DEF Keeps, Active
  <2>2. f[c] \in D /\ f[c].status = c.status
    BY <2>1 DEF Keeps
  <2> QED
    BY <2>1, <2>2 DEF Active, Terminal
<1>2. h \in [Active(C) -> Active(D)] /\ \A c \in Active(C) : h[c] = f[c]
  BY <1>1
<1> HIDE DEF h
<1>3. \A c \in Active(C) : h[c].task = c.task /\ h[c].kind = c.kind /\ h[c].attempt = c.attempt
  BY <1>1, <1>2 DEF Keeps
<1>4. \A c, d \in Active(C) : c.pos < d.pos => h[c].pos < h[d].pos
  BY <1>1, <1>2 DEF Keeps
<1> QED
  BY <1>2, <1>3, <1>4 DEF Carries

\* A list that only gains commands carries what it had.
LEMMA GrownCarries ==
    ASSUME NEW C, NEW D, Active(C) \subseteq Active(D)
    PROVE  Carries(C, D)
<1> DEFINE h == [c \in Active(C) |-> c]
<1>1. h \in [Active(C) -> Active(D)] /\ \A c \in Active(C) : h[c] = c
  OBVIOUS
<1> HIDE DEF h
<1> QED
  BY <1>1 DEF Carries

\* A command taken over keeps its place.
LEMMA RequeuedCarries ==
    ASSUME commands \subseteq Command, NEW r \in Runtimes
    PROVE  Carries(commands, Requeued(r))
<1> DEFINE h == [c \in Active(commands) |-> TakeOver(c, r)]
<1>1. ASSUME NEW c \in Active(commands)
      PROVE  /\ c \in Command /\ TakeOver(c, r) \in Active(Requeued(r))
             /\ TakeOver(c, r).task = c.task /\ TakeOver(c, r).kind = c.kind
             /\ TakeOver(c, r).attempt = c.attempt /\ TakeOver(c, r).pos = c.pos
  <2>1. c \in commands /\ c \in Command /\ ~Terminal(c)
    BY DEF Active
  <2>2. TakeOver(c, r) \in Requeued(r)
    BY <2>1 DEF Requeued
  <2> QED
    BY <2>1, <2>2, TakeOverFields DEF Active
<1>2. /\ h \in [Active(commands) -> Active(Requeued(r))]
      /\ \A c \in Active(commands) : h[c] = TakeOver(c, r)
  BY <1>1
<1> HIDE DEF h
<1>3. \A c \in Active(commands) :
         /\ h[c].task = c.task /\ h[c].kind = c.kind
         /\ h[c].attempt = c.attempt /\ h[c].pos = c.pos
  BY <1>1, <1>2
<1> QED
  BY <1>2, <1>3 DEF Carries

\* What enqueueTaskCommandLocked leaves to be delivered when somebody can be
\* addressed: what was there, and the new commands.
LEMMA EnqueuedRows ==
    ASSUME NEW T \in Seq(Task), TasksFit(T), NEW C, NEW rows, NEW latest, NEW gone, NEW items,
           Sound(T, C, rows, latest, gone), ItemsFit(T, C, items),
           TargetFits(rows, latest, gone), Targets(rows) # {}
    PROVE  LET E == Enqueue(C, rows, items)
               q == FirstRow(rows, Targets(rows))
           IN  /\ \A x \in Active(E) :
                     \/ \E c \in Active(C) : x.status = c.status /\ x.runtime = c.runtime
                     \/ x.status = "queued" /\ x.runtime = q
               /\ Carries(C, E)
               /\ \A y \in items : \E x \in Active(E) :
                     x.task = y.task /\ x.kind = y.kind /\ x.attempt = y.attempt
<1> DEFINE q == FirstRow(rows, Targets(rows))
           N == {NewCommand(Cardinality(C), q, x) : x \in items}
           B == C \cup N
           E == Enqueue(C, rows, items)
<1>1. CASE items = {}
  BY <1>1, GrownCarries DEF Enqueue
<1>2. CASE items # {}
  <2>1. E = Compact(B)
    BY <1>2 DEF Enqueue, NewCommand
  <2>2. q \in Runtimes
    BY DEF TargetFits
  <2>3. \A i \in DOMAIN T : T[i].attempt \in Nat /\ T[i].stop \in BOOLEAN
    <3>1. \A i \in DOMAIN T : T[i] \in Task
      OBVIOUS
    <3> QED
      BY <3>1, TeamAssumption DEF Task
  <2>4. C \in SUBSET Command /\ Placed(C) /\ QueueFits(T, C)
    BY DEF Sound
  <2>5. \A d \in N : \E x \in items : d = NewCommand(Cardinality(C), q, x)
    OBVIOUS
  <2>6. \A d \in N : d.runtime = q /\ d.status = "queued"
    BY DEF NewCommand
  <2>7. \A y \in items : \E d \in N : d.task = y.task /\ d.kind = y.kind /\ d.attempt = y.attempt
    <3>1. \A y \in items : NewCommand(Cardinality(C), q, y) \in N
      OBVIOUS
    <3> HIDE DEF N
    <3> QED
      BY <3>1 DEF NewCommand
  <2> HIDE DEF N, q, E
  <2>8. B \subseteq Command /\ IsFiniteSet(B) /\ Spread(B) /\ QueueFits(T, B)
    BY <2>2, <2>3, <2>4, <2>5, AppendedFits
  <2>9. Active(B) = Active(C) \cup N
    BY <2>6 DEF Active, Terminal
  <2> HIDE DEF B
  <2>10. PICK K \in SUBSET B : \E f : Keeps(B, E, K, f)
    BY <2>1, <2>8, CompactFacts
  <2>11. PICK f : Keeps(B, E, K, f)
    BY <2>10
  <2>12. \A x \in Active(E) : \E c \in Active(B) : x.status = c.status /\ x.runtime = c.runtime
    BY <2>11 DEF Keeps, Active, Terminal
  <2>13. \A c \in Active(B) : \E x \in Active(E) :
            x.task = c.task /\ x.kind = c.kind /\ x.attempt = c.attempt
    <3> SUFFICES ASSUME NEW c \in Active(B)
                 PROVE  \E x \in Active(E) :
                           x.task = c.task /\ x.kind = c.kind /\ x.attempt = c.attempt
      OBVIOUS
    <3>1. c \in K /\ f[c] \in E
      BY <2>11 DEF Keeps
    <3>2. /\ f[c].task = c.task /\ f[c].kind = c.kind /\ f[c].attempt = c.attempt
          /\ f[c].status = c.status
      BY <2>11, <3>1 DEF Keeps
    <3>3. f[c] \in Active(E)
      BY <3>1, <3>2 DEF Active, Terminal
    <3> QED
      BY <3>2, <3>3
  <2>14. \A x \in Active(E) :
            \/ \E c \in Active(C) : x.status = c.status /\ x.runtime = c.runtime
            \/ x.status = "queued" /\ x.runtime = q
    BY <2>6, <2>9, <2>12
  <2>15. \A y \in items : \E x \in Active(E) :
            x.task = y.task /\ x.kind = y.kind /\ x.attempt = y.attempt
    BY <2>7, <2>9, <2>13
  <2>16. Carries(C, E)
    <3>1. Carries(C, B)
      BY <2>9, GrownCarries
    <3>2. Carries(B, E)
      BY <2>11, KeptIsCarried
    <3> QED
      BY <3>1, <3>2, CarriedOn
  <2> QED
    BY <2>14, <2>15, <2>16 DEF E, q
<1> QED
  BY <1>1, <1>2

\* After a registration nobody but the new runtime can be addressed.
LEMMA RegisteredIsTarget ==
    ASSUME LeaseInv, AbsentRows, NEW r \in Runtimes, Register(r)
    PROVE  Targets(runtimes') = {r} /\ FirstRow(runtimes', Targets(runtimes')) = r
<1>1. runtimes \in [Runtimes -> Row] /\ \A q \in Runtimes : runtimes[q] \in Row
  BY DEF LeaseInv, LeaseTypeOK
<1>2. runtimes'[r].status = "online" /\ runtimes'[r].lease > 0
  BY LeaseAssumption DEF Register
<1>3. ASSUME NEW q \in Runtimes, q # r
      PROVE  runtimes'[q].status = "fenced" \/ runtimes'[q].lease = Lapsed
  <2>1. CASE runtimes[q].status = "absent"
    BY <1>3, <2>1 DEF Register, AbsentRows
  <2>2. CASE runtimes[q].status # "absent"
    <3>1. runtimes'[q] = [runtimes[q] EXCEPT !.status = "fenced"]
      BY <1>3, <2>2 DEF Register
    <3> QED
      BY <1>1, <3>1 DEF Row
  <2> QED
    BY <2>1, <2>2
<1>4. Targets(runtimes') = {r}
  BY <1>2, <1>3 DEF Targets, Lapsed
<1> QED
  BY <1>4 DEF FirstRow

\* No failover loses an undelivered or unacknowledged command or changes their
\* order; the new runtime is to get all of them again, and a start for every
\* accepted task whose dependencies are completed.
THEOREM FailoverTakesOverQueue == TeamSpec => RegistrationTakesOverQueue
<1> DEFINE P == fence' # fence =>
                  /\ Carries(commands, commands')
                  /\ \A c \in Active(commands') :
                       c.status = "queued" /\ runtimes'[c.runtime].token = fence'
                  /\ \A i \in DOMAIN tasks :
                       /\ tasks[i].status = "accepted"
                       /\ DependencyStatus(Status(tasks), tasks[i].deps) = "accepted"
                       => \E c \in Active(commands') :
                             c.kind = "start" /\ c.task = i /\ c.attempt = tasks[i].attempt
<1>1. ASSUME TeamInv, [TeamNext]_teamVars, fence' # fence
      PROVE  \E r \in Runtimes : TeamRegister(r)
  <2>1. ~UNCHANGED teamVars /\ ~TeamExpireLeases /\ ~TeamTick
    BY <1>1 DEF teamVars, TeamExpireLeases, TeamTick, ExpireLeases, LeaseTick
  <2>2. ~UserStep
    BY <1>1 DEF UserStep, CreateTask, Input, Cancel, Complete, Retry, Reject, Approve, leaseVars
  <2>3. ASSUME NEW r \in Runtimes, AgentStep(r) PROVE TeamRegister(r)
    BY <1>1, <2>3 DEF AgentStep, TeamHeartbeat, TeamUnregister, UploadReplay, PollCommands,
                      AckCommands, UploadTaskless, UploadEvent, Heartbeat, Unregister, Events,
                      leaseVars
  <2> QED
    BY <1>1, <2>1, <2>2, <2>3 DEF TeamNext
<1>2. TeamInv /\ [TeamNext]_teamVars => P
  <2> SUFFICES ASSUME TeamInv, [TeamNext]_teamVars, fence' # fence PROVE P
    OBVIOUS
  <2>1. PICK r \in Runtimes : TeamRegister(r)
    BY <1>1
  <2> DEFINE D == Requeued(r)
             items == Starts(tasks, Unstarted)
  <2>2. tasks \in Seq(Task) /\ TasksFit(tasks) /\ commands \subseteq Command /\ LeaseInv /\ AbsentRows
    BY TeamParts
  <2>3. LeaseInv' /\ AbsentRows'
    BY <2>2, TeamStepIsLeaseStep, LeaseStepInv, AbsentRowsStep DEF LeaseInv
  <2>4. /\ commands' = Enqueue(D, runtimes', items)
        /\ Sound(tasks, D, runtimes', fence', quit') /\ ItemsFit(tasks, D, items)
        /\ TargetFits(runtimes', fence', quit')
        /\ \A x \in Active(D) : x.runtime = r /\ x.status = "queued"
    BY <2>1, <2>3, RegisterQueue
  <2>5. Targets(runtimes') # {} /\ FirstRow(runtimes', Targets(runtimes')) = r
    BY <2>1, <2>2, RegisteredIsTarget DEF TeamRegister
  <2>6. \A i \in Unstarted : Item(i + 1, i, "start", tasks[i].attempt) \in items
    BY DEF Starts
  <2>7. Carries(commands, D)
    BY <2>2, RequeuedCarries
  <2> HIDE DEF D, items
  <2>8. /\ \A x \in Active(commands') :
              \/ \E c \in Active(D) : x.status = c.status /\ x.runtime = c.runtime
              \/ x.status = "queued" /\ x.runtime = r
        /\ Carries(D, commands')
        /\ \A y \in items : \E x \in Active(commands') :
              x.task = y.task /\ x.kind = y.kind /\ x.attempt = y.attempt
    BY <2>2, <2>4, <2>5, EnqueuedRows
  <2>9. runtimes'[r].token = fence'
    BY <2>1 DEF TeamRegister, Register
  <2>10. \A c \in Active(commands') : c.status = "queued" /\ runtimes'[c.runtime].token = fence'
    BY <2>4, <2>8, <2>9
  <2>11. Carries(commands, commands')
    BY <2>7, <2>8, CarriedOn
  <2>12. ASSUME NEW i \in DOMAIN tasks, tasks[i].status = "accepted",
                DependencyStatus(Status(tasks), tasks[i].deps) = "accepted"
         PROVE  \E c \in Active(commands') :
                   c.kind = "start" /\ c.task = i /\ c.attempt = tasks[i].attempt
    <3>1. CASE i \in Unstarted
      BY <2>6, <2>8, <3>1, ItemFields
    <3>2. CASE i \notin Unstarted
      <4>1. PICK c \in Active(commands) : c.task = i /\ c.kind = "start"
        BY <2>12, <3>2 DEF Unstarted, Active, OfTask
      <4>2. c.attempt = tasks[i].attempt
        BY <4>1 DEF TeamInv, QueueInv, QueueFits, CurrentStarts
      <4>3. PICK f \in [Active(commands) -> Active(commands')] :
               f[c].task = c.task /\ f[c].kind = c.kind /\ f[c].attempt = c.attempt
        BY <2>11 DEF Carries
      <4> QED
        BY <4>1, <4>2, <4>3
    <3> QED
      BY <3>1, <3>2
  <2> QED
    BY <2>10, <2>12, <2>11
<1>3. TeamInv /\ [TeamNext]_teamVars => [P]_teamVars
  BY <1>2
<1> QED
  BY <1>3, TeamInvariance, PTL DEF TeamSpec, RegistrationTakesOverQueue

\* No handler queues a command without waking the long polls.
THEOREM PollersAreWoken == TeamSpec => QueueingWakesPollers
<1> DEFINE New(c) == /\ c.status = "queued"
                     /\ \A d \in commands :
                          <<d.task, d.kind, d.attempt>> = <<c.task, c.kind, c.attempt>>
                             => d.status # "queued"
           P == (\E c \in commands' : New(c)) => notified'
<1>1. ASSUME NEW c, NEW d \in commands, c.task = d.task, c.kind = d.kind, c.attempt = d.attempt,
             c.status = "queued" => d.status = "queued"
      PROVE  ~New(c)
  BY <1>1
<1> HIDE DEF New
<1>2. ASSUME TeamInv, NEW r \in Runtimes, NEW token, NEW limit, PollCommands(r, token, limit),
             NEW c \in commands'
      PROVE  ~New(c)
  <2>1. commands \subseteq Command
    BY <1>2, TeamParts
  <2>2. \E d \in commands :
           c = d \/ c = [d EXCEPT !.status = "delivered", !.visible = Visibility]
    BY <1>2 DEF PollCommands
  <2>3. PICK d \in commands :
           c = d \/ c = [d EXCEPT !.status = "delivered", !.visible = Visibility]
    BY <2>2
  <2>4. /\ c.task = d.task /\ c.kind = d.kind /\ c.attempt = d.attempt
        /\ c.status = "queued" => d.status = "queued"
    BY <2>1, <2>3 DEF Command
  <2> QED
    BY <1>1, <2>4
<1>3. ASSUME TeamInv, TeamTick, NEW c \in commands' PROVE ~New(c)
  <2>1. commands \subseteq Command
    BY <1>3, TeamParts
  <2>2. PICK d \in commands : \E v : c = [d EXCEPT !.visible = v]
    BY <1>3 DEF TeamTick
  <2>3. /\ c.task = d.task /\ c.kind = d.kind /\ c.attempt = d.attempt /\ c.status = d.status
    BY <2>1, <2>2 DEF Command
  <2> QED
    BY <1>1, <2>3
<1>4. ASSUME TeamInv, NEW r \in Runtimes, NEW token, NEW ids, AckCommands(r, token, ids),
             NEW c \in commands'
      PROVE  ~New(c)
  <2> DEFINE f == [d \in commands |-> Acked(d, r, ids)]
             D == {f[d] : d \in commands}
  <2>1. commands \subseteq Command /\ Placed(commands)
    BY <1>4, TeamParts DEF Sound
  <2>2. commands' = Compact(D)
    BY <1>4 DEF AckCommands, Acked
  <2>3. \A d \in commands :
           /\ f[d] \in Command /\ f[d].pos = d.pos /\ f[d].task = d.task /\ f[d].kind = d.kind
           /\ f[d].attempt = d.attempt /\ (f[d].status = "queued" => d.status = "queued")
    BY <2>1, AckedFields DEF Terminal
  <2>4. \A x \in D : \E d \in commands : x = f[d]
    OBVIOUS
  <2> HIDE DEF f
  <2>5. Placed(D)
    BY <2>1, <2>3, MapPlaced
  <2> HIDE DEF D
  <2>6. D \subseteq Command /\ IsFiniteSet(D) /\ Spread(D)
    BY <2>3, <2>4, <2>5 DEF Placed
  <2>7. PICK K \in SUBSET D : \E g : Keeps(D, Compact(D), K, g)
    BY <2>6, CompactFacts
  <2>8. PICK g : Keeps(D, Compact(D), K, g)
    BY <2>7
  <2>9. PICK x \in D : /\ c.task = x.task /\ c.kind = x.kind /\ c.attempt = x.attempt
                       /\ c.status = x.status
    BY <1>4, <2>2, <2>8 DEF Keeps
  <2>10. PICK d \in commands : x = f[d]
    BY <2>4
  <2> QED
    BY <1>1, <2>3, <2>9, <2>10
<1>5. ASSUME TeamInv, TeamNext PROVE P
  <2>1. CASE UNCHANGED commands
    BY <1>1, <2>1
  <2>2. CASE UserStep
    BY <2>2 DEF UserStep, CreateTask, Input, Cancel, Complete, Retry, Reject, Approve
  <2>3. CASE TeamExpireLeases
    BY <2>3 DEF TeamExpireLeases
  <2>4. CASE TeamTick
    BY <1>3, <1>5, <2>4
  <2>5. ASSUME NEW r \in Runtimes, AgentStep(r) PROVE P
    <3>1. ASSUME NEW token \in Tokens, NEW limit, PollCommands(r, token, limit) PROVE P
      BY <1>2, <1>5, <3>1
    <3>2. ASSUME NEW token \in Tokens, NEW ids, AckCommands(r, token, ids) PROVE P
      BY <1>4, <1>5, <3>2
    <3> QED
      BY <2>1, <2>5, <3>1, <3>2 DEF AgentStep, TeamRegister, TeamHeartbeat, TeamUnregister,
            UploadReplay, UploadTaskless, UploadEvent
  <2> QED
    BY <1>5, <2>2, <2>3, <2>4, <2>5 DEF TeamNext
<1>6. TeamInv /\ [TeamNext]_teamVars => [P]_teamVars
  BY <1>5
<1>7. TeamSpec => [][P]_teamVars
  BY <1>6, TeamInvariance, PTL DEF TeamSpec
<1> QED
  BY <1>7 DEF QueueingWakesPollers, New

-----------------------------------------------------------------------------
(* Numbers and units.                                                      *)

\* The least-number principle for a set.
LEMMA LeastNatural ==
    ASSUME NEW S \in SUBSET Nat, S # {}
    PROVE  \E n \in S : \A m \in S : n <= m
<1> DEFINE Less == OpToRel(<, Nat)
<1>1. IsWellFoundedOn(Less, Nat)
  BY NatLessThanWellFounded
<1>2. \A x, y \in Nat : <<x, y>> \in Less <=> x < y
  BY DEF OpToRel
<1> HIDE DEF Less
<1>3. PICK n \in S : \A m \in S : ~ (<<m, n>> \in Less)
  BY <1>1, WFMin, S # {}
<1>4. \A m \in S : ~ (m < n)
  BY <1>2, <1>3
<1>5. \A m \in S : n <= m
  BY <1>4
<1> QED
  BY <1>5

\* The first index that is open is one of them.
LEMMA FirstIsOpen ==
    ASSUME NEW S \in SUBSET Nat, S # {}
    PROVE  Min(S) \in S /\ \A n \in S : Min(S) <= n
<1>1. \E n \in S : \A m \in S : n <= m
  BY LeastNatural
<1> QED
  BY <1>1 DEF Min

\* Among some of the tasks there is a last one.
LEMMA LastOfSome ==
    ASSUME NEW n \in Nat, NEW S \in SUBSET (1..n), S # {}
    PROVE  \E m \in S : \A k \in S : k <= m
<1> DEFINE R == {k \in 0..n : n - k \in S}
<1>1. R \in SUBSET Nat
  OBVIOUS
<1>2. \A k \in S : k \in 1..n /\ n - k \in 0..n /\ n - (n - k) = k
  OBVIOUS
<1>3. \A k \in S : n - k \in R
  BY <1>2
<1>4. R # {}
  BY <1>3
<1>5. PICK r \in R : \A m \in R : r <= m
  <2> HIDE DEF R
  <2> QED
    BY <1>1, <1>4, LeastNatural
<1>6. n - r \in S /\ r \in 0..n
  BY <1>5
<1>7. \A k \in S : r <= n - k
  <2> HIDE DEF R
  <2> QED
    BY <1>3, <1>5
<1>8. \A k \in S : k <= n - r
  BY <1>2, <1>6, <1>7
<1> QED
  BY <1>6, <1>8

Units(T, i) == {i} \X (1..T[i].units)

\* The resource units that the tasks of S occupy.
Held(T, S) == UNION {Units(T, i) : i \in S}

Sized(T) == IsFiniteSet(DOMAIN T) /\ \A i \in DOMAIN T : T[i].units \in Nat

\* A task stands for as many units as it asks for.
LEMMA UnitsCount ==
    ASSUME NEW T, NEW i, T[i].units \in Nat
    PROVE  IsFiniteSet(Units(T, i)) /\ Cardinality(Units(T, i)) = T[i].units
<1> DEFINE n == T[i].units
<1>1. n \in Nat
  OBVIOUS
<1> HIDE DEF n
<1>2. IsFiniteSet(1..n) /\ Cardinality(1..n) = n
  BY <1>1, FS_Interval
<1>3. IsFiniteSet({i}) /\ Cardinality({i}) = 1
  BY FS_Singleton
<1>4. IsFiniteSet({i} \X (1..n)) /\ Cardinality({i} \X (1..n)) = 1 * n
  BY <1>2, <1>3, FS_Product
<1>5. 1 * n = n
  BY <1>1
<1> QED
  BY <1>4, <1>5 DEF Units, n

\* The units held are finitely many.
LEMMA HeldIsFinite ==
    ASSUME NEW T, Sized(T), NEW S \in SUBSET DOMAIN T
    PROVE  IsFiniteSet(Held(T, S)) /\ Cardinality(Held(T, S)) \in Nat
<1> DEFINE F == {Units(T, i) : i \in S}
           f == [i \in S |-> Units(T, i)]
<1>1. IsFiniteSet(S)
  BY FS_Subset DEF Sized
<1>2. f \in Surjection(S, F)
  BY DEF Surjection
<1>3. IsFiniteSet(F)
  <2> HIDE DEF f, F
  <2> QED
    BY <1>1, <1>2, FS_Surjection
<1>4. \A x \in F : IsFiniteSet(x)
  BY UnitsCount DEF Sized
<1>5. IsFiniteSet(UNION F)
  <2> HIDE DEF F
  <2> QED
    BY <1>3, <1>4, FS_UNION
<1>6. IsFiniteSet(Held(T, S))
  BY <1>5 DEF Held
<1> QED
  BY <1>6, FS_CardinalityType

\* More tasks hold at least as many units.
LEMMA HeldGrows ==
    ASSUME NEW T, NEW U, Sized(U), NEW R, NEW S \in SUBSET DOMAIN U, R \subseteq S,
           \A i \in R : T[i].units = U[i].units
    PROVE  Cardinality(Held(T, R)) <= Cardinality(Held(U, S))
<1>1. Held(T, R) \subseteq Held(U, S)
  BY DEF Held, Units
<1> QED
  BY <1>1, HeldIsFinite, FS_Subset

\* One more task holds at most its own units more.
LEMMA HeldByOneMore ==
    ASSUME NEW T, Sized(T), NEW U, NEW R \in SUBSET DOMAIN T, NEW S, NEW i,
           U[i].units \in Nat, S \subseteq R \cup {i},
           \A j \in S \ {i} : T[j].units = U[j].units
    PROVE  Cardinality(Held(U, S)) <= Cardinality(Held(T, R)) + U[i].units
<1> DEFINE A == Held(T, R)
           B == Units(U, i)
<1>1. Held(U, S) \subseteq A \cup B
  BY DEF Held, Units
<1>2. IsFiniteSet(A) /\ Cardinality(A) \in Nat /\ IsFiniteSet(B) /\ Cardinality(B) = U[i].units
  BY HeldIsFinite, UnitsCount
<1> HIDE DEF A, B
<1>3. IsFiniteSet(A \cup B) /\ Cardinality(A \cup B) = Cardinality(A) + Cardinality(B) - Cardinality(A \cap B)
  BY <1>2, FS_Union
<1>4. Cardinality(A \cap B) \in Nat
  <2>1. A \cap B \in SUBSET A
    OBVIOUS
  <2>2. IsFiniteSet(A \cap B)
    BY <1>2, <2>1, FS_Subset
  <2> QED
    BY <2>2, FS_CardinalityType
<1>5. Cardinality(Held(U, S)) <= Cardinality(A \cup B) /\ IsFiniteSet(Held(U, S))
  BY <1>1, <1>3, FS_Subset
<1>6. Cardinality(Held(U, S)) \in Nat
  BY <1>5, FS_CardinalityType
<1>7. Cardinality(A) + Cardinality(B) - Cardinality(A \cap B) <= Cardinality(A) + U[i].units
  BY <1>2, <1>4
<1>8. Cardinality(A \cup B) \in Nat
  BY <1>3, FS_CardinalityType
<1> QED
  BY <1>2, <1>3, <1>4, <1>5, <1>6, <1>7, <1>8 DEF A

Occupies(T, status, except) == {i \in DOMAIN T \ except : status[i] \in Occupying}

\* teamResourceAvailableLocked sums up the units held by the occupying tasks.
LEMMA UsedIsHeld ==
    ASSUME NEW T, NEW status, NEW except
    PROVE  Used(T, status, except) = Cardinality(Held(T, Occupies(T, status, except)))
BY DEF Used, Held, Units, Occupies

\* Every task list can be counted.
LEMMA TasksAreSized ==
    ASSUME NEW T \in Seq(Task)
    PROVE  Sized(T)
<1>1. DOMAIN T = 1..Len(T) /\ Len(T) \in Nat
  OBVIOUS
<1>2. IsFiniteSet(1..Len(T))
  BY <1>1, FS_Interval
<1>3. \A i \in DOMAIN T : T[i].units \in Profiles
  BY TaskFields
<1>4. Profiles \subseteq Nat
  BY TeamAssumption
<1> QED
  BY <1>1, <1>2, <1>3, <1>4 DEF Sized

-----------------------------------------------------------------------------
(* Dependencies.                                                           *)

Open(status, deps) == {k \in DOMAIN deps : status[deps[k]] # "completed"}

\* The three answers of teamDependencyStatusLocked.
LEMMA DependencyCases ==
    ASSUME NEW status, NEW deps
    PROVE  LET d == DependencyStatus(status, deps)
               open == Open(status, deps)
           IN  /\ d \in {"accepted", "blocked", "waiting_dependency"}
               /\ d = "accepted" <=> open = {}
               /\ d = "blocked" <=>
                     open # {} /\ status[deps[Min(open)]] \in {"failed", "cancelled", "blocked"}
BY DEF DependencyStatus, Open

\* A task is ready when all its dependencies are completed.
LEMMA ReadyWhenCompleted ==
    ASSUME NEW status, NEW deps, DependencyStatus(status, deps) = "accepted"
    PROVE  \A k \in DOMAIN deps : status[deps[k]] = "completed"
BY DependencyCases DEF Open

\* The statuses of the dependencies decide.
LEMMA SameDependencies ==
    ASSUME NEW a, NEW b, NEW deps \in Seq(1..MaxTasks), \A k \in DOMAIN deps : a[deps[k]] = b[deps[k]]
    PROVE  DependencyStatus(a, deps) = DependencyStatus(b, deps)
<1>1. Open(a, deps) = Open(b, deps) /\ Open(a, deps) \in SUBSET Nat
      /\ Open(a, deps) \subseteq DOMAIN deps
  BY DEF Open
<1>2. Open(a, deps) # {} => Min(Open(a, deps)) \in DOMAIN deps
  BY <1>1, FirstIsOpen
<1>3. Open(a, deps) # {} => a[deps[Min(Open(a, deps))]] = b[deps[Min(Open(a, deps))]]
  BY <1>2
<1>4. DependencyStatus(a, deps) \in {"accepted", "blocked", "waiting_dependency"}
      /\ DependencyStatus(b, deps) \in {"accepted", "blocked", "waiting_dependency"}
  BY DependencyCases
<1>5. DependencyStatus(a, deps) = "accepted" <=> DependencyStatus(b, deps) = "accepted"
  BY <1>1, DependencyCases
<1>6. DependencyStatus(a, deps) = "blocked" <=> DependencyStatus(b, deps) = "blocked"
  BY <1>1, <1>3, DependencyCases
<1> QED
  BY <1>4, <1>5, <1>6

\* A task that goes on, or needs input, neither releases nor blocks what depends
\* on it.
LEMMA GoingOnDelays ==
    ASSUME NEW a, NEW b, NEW deps \in Seq(1..MaxTasks), NEW i,
           b[i] \notin {"completed", "failed", "cancelled", "blocked"},
           \A k \in DOMAIN deps : deps[k] # i => a[deps[k]] = b[deps[k]],
           DependencyStatus(a, deps) # "blocked"
    PROVE  /\ DependencyStatus(b, deps) # "blocked"
           /\ DependencyStatus(b, deps) = "accepted" => DependencyStatus(a, deps) = "accepted"
<1>1. Open(a, deps) \subseteq Open(b, deps) /\ Open(b, deps) \in SUBSET Nat
      /\ Open(a, deps) \in SUBSET Nat /\ Open(b, deps) \subseteq DOMAIN deps
  BY DEF Open
<1>2. DependencyStatus(b, deps) = "accepted" => DependencyStatus(a, deps) = "accepted"
  BY <1>1, DependencyCases
<1>3. ASSUME DependencyStatus(b, deps) = "blocked" PROVE FALSE
  <2> DEFINE m == Min(Open(b, deps))
  <2>1. Open(b, deps) # {} /\ b[deps[m]] \in {"failed", "cancelled", "blocked"}
    BY <1>3, DependencyCases
  <2>2. m \in Open(b, deps) /\ \A n \in Open(b, deps) : m <= n
    BY <1>1, <2>1, FirstIsOpen
  <2> HIDE DEF m
  <2>3. deps[m] # i
    BY <2>1
  <2>4. a[deps[m]] = b[deps[m]] /\ m \in Open(a, deps)
    BY <1>1, <2>1, <2>2, <2>3 DEF Open
  <2>5. Min(Open(a, deps)) \in Open(a, deps) /\ Min(Open(a, deps)) <= m
    BY <1>1, <2>4, FirstIsOpen
  <2>6. m <= Min(Open(a, deps)) /\ m \in Nat /\ Min(Open(a, deps)) \in Nat
    BY <1>1, <2>2, <2>5
  <2>7. Min(Open(a, deps)) = m
    BY <2>5, <2>6
  <2>8. DependencyStatus(a, deps) = "blocked"
    BY <2>1, <2>4, <2>7, DependencyCases
  <2> QED
    BY <2>8
<1> QED
  BY <1>2, <1>3

-----------------------------------------------------------------------------
(* Activation.                                                             *)

\* What the activation would not move.
Stays(T, status, i) ==
    status[i] \in Waiting =>
        \/ DependencyStatus(status, T[i].deps) = "waiting_dependency"
        \/ /\ DependencyStatus(status, T[i].deps) = "accepted"
           /\ ~ResourceAvailable(T, status, T[i].units, {i})
           /\ status[i] = "waiting_resource"

\* The loop leaves a task as it is exactly when the task stays.
LEMMA DecideStays ==
    ASSUME NEW T, NEW status, NEW i
    PROVE  status[i] = Decide(T, status, i) <=> Stays(T, status, i)
<1> DEFINE d == DependencyStatus(status, T[i].deps)
<1>1. d \in {"accepted", "blocked", "waiting_dependency"}
  BY DependencyCases
<1> HIDE DEF d
<1>2. Decide(T, status, i) =
        IF status[i] \notin Waiting \/ d = "waiting_dependency" THEN status[i]
        ELSE IF d = "accepted" /\ ~ResourceAvailable(T, status, T[i].units, {i})
             THEN "waiting_resource" ELSE d
  BY DEF Decide, d
<1>3. Stays(T, status, i) <=>
        (status[i] \in Waiting =>
            \/ d = "waiting_dependency"
            \/ /\ d = "accepted" /\ ~ResourceAvailable(T, status, T[i].units, {i})
               /\ status[i] = "waiting_resource")
  BY DEF Stays, d
<1> QED
  BY <1>1, <1>2, <1>3 DEF Waiting

\* Settled tasks are those the loop leaves as they are.
LEMMA SettledStays ==
    ASSUME NEW T
    PROVE  Settled(T) <=> \A i \in DOMAIN T : Stays(T, Status(T), i)
<1>1. ASSUME NEW i
      PROVE  [j \in DOMAIN T |-> IF j < i THEN Status(T)[j] ELSE T[j].status] = Status(T)
  BY DEF Status
<1>2. Settled(T) <=> \A i \in DOMAIN T : Status(T)[i] = Decide(T, Status(T), i)
  BY <1>1 DEF Settled, Settles
<1> QED
  BY <1>2, DecideStays

\* A task depends on earlier ones only.
BackDeps(T) == \A i \in DOMAIN T : \A k \in DOMAIN T[i].deps : T[i].deps[k] \in 1..i - 1

\* The tasks with the statuses that the activation decided.
Activated(T, new) == [i \in DOMAIN T |-> [T[i] EXCEPT !.status = new[i]]]

\* The list as the loop sees it at index i.
Seen(T, new, i) == [j \in DOMAIN T |-> IF j < i THEN new[j] ELSE T[j].status]

\* The activation changes nothing but statuses.
LEMMA ActivatedFields ==
    ASSUME NEW T \in Seq(Task), NEW new \in Outcomes(T)
    PROVE  LET U == Activated(T, new) IN
           /\ U \in Seq(Task) /\ DOMAIN U = DOMAIN T /\ Len(U) = Len(T)
           /\ \A i \in DOMAIN T : /\ U[i].status = new[i] /\ U[i].deps = T[i].deps
                                  /\ U[i].units = T[i].units /\ U[i].attempt = T[i].attempt
<1> DEFINE U == Activated(T, new)
<1>1. \A i \in DOMAIN T : T[i] \in Task
  OBVIOUS
<1>2. \A i \in DOMAIN T : new[i] \in TaskStatus
  <2>1. \A i \in DOMAIN T : T[i].status \in TaskStatus
    BY <1>1, TaskFields
  <2> QED
    BY <2>1, OutcomeFacts DEF TaskStatus, Waiting, Occupying
<1>3. \A i \in DOMAIN T : U[i] = [T[i] EXCEPT !.status = new[i]]
  BY DEF Activated
<1> HIDE DEF U
<1>4. \A i \in DOMAIN T : /\ U[i] \in Task /\ U[i].status = new[i] /\ U[i].deps = T[i].deps
                          /\ U[i].units = T[i].units /\ U[i].attempt = T[i].attempt
  BY <1>1, <1>2, <1>3 DEF Task
<1>5. DOMAIN U = 1..Len(T) /\ Len(T) \in Nat /\ U = [i \in 1..Len(T) |-> U[i]]
  BY DEF U, Activated
<1>6. U \in Seq(Task) /\ Len(U) = Len(T)
  <2>1. DOMAIN T = 1..Len(T)
    OBVIOUS
  <2>2. \A i \in 1..Len(T) : U[i] \in Task
    BY <1>4, <2>1
  <2>3. U \in [1..Len(T) -> Task]
    BY <1>5, <2>2
  <2> QED
    BY <1>5, <2>3
<1> QED
  BY <1>4, <1>5, <1>6 DEF U

\* What the loop decided at index i about task i.
LEMMA LoopDecides ==
    ASSUME NEW T \in Seq(Task), BackDeps(T), NEW new \in Outcomes(T), Settles(T, new),
           NEW i \in DOMAIN T, T[i].status \in Waiting
    PROVE  LET d == DependencyStatus(new, T[i].deps)
               free == ResourceAvailable(T, Seen(T, new, i), T[i].units, {i})
           IN  /\ d = "waiting_dependency" => new[i] = T[i].status
               /\ d = "blocked" => new[i] = "blocked"
               /\ d = "accepted" => new[i] = IF free THEN "accepted" ELSE "waiting_resource"
               /\ d \in {"accepted", "blocked", "waiting_dependency"}
<1> DEFINE s == Seen(T, new, i)
           d == DependencyStatus(new, T[i].deps)
<1>1. T[i].deps \in Seq(1..MaxTasks) /\ DOMAIN T = 1..Len(T) /\ Len(T) \in Nat /\ i \in 1..Len(T)
  BY TaskFields
<1>2. \A k \in DOMAIN T[i].deps : T[i].deps[k] \in 1..i - 1
  BY DEF BackDeps
<1>3. \A j \in 1..i - 1 : s[j] = new[j]
  <2>1. \A j \in 1..i - 1 : j \in DOMAIN T /\ j < i
    BY <1>1
  <2> QED
    BY <2>1 DEF Seen
<1>4. s[i] = T[i].status
  BY <1>1 DEF Seen
<1>5. new[i] = Decide(T, s, i)
  BY DEF Settles, Seen
<1> HIDE DEF s
<1>6. DependencyStatus(s, T[i].deps) = d
  BY <1>1, <1>2, <1>3, SameDependencies
<1>7. d \in {"accepted", "blocked", "waiting_dependency"}
  BY DependencyCases
<1> HIDE DEF d
<1>8. new[i] = IF d = "waiting_dependency" THEN T[i].status
               ELSE IF d = "accepted" /\ ~ResourceAvailable(T, s, T[i].units, {i})
                    THEN "waiting_resource" ELSE d
  BY <1>4, <1>5, <1>6 DEF Decide
<1> QED
  BY <1>7, <1>8 DEF d, s

\* Once is enough: after the activation no waiting task is left that another
\* pass would move.
LEMMA ActivateSettles ==
    ASSUME NEW T \in Seq(Task), BackDeps(T), NEW new \in Outcomes(T), Settles(T, new)
    PROVE  Settled(Activated(T, new)) /\ BackDeps(Activated(T, new))
<1> DEFINE U == Activated(T, new)
<1>1. /\ U \in Seq(Task) /\ DOMAIN U = DOMAIN T
      /\ \A i \in DOMAIN T : /\ U[i].status = new[i] /\ U[i].deps = T[i].deps
                             /\ U[i].units = T[i].units
  BY ActivatedFields
<1>2. BackDeps(U)
  BY <1>1 DEF BackDeps
<1> HIDE DEF U
<1>3. DOMAIN T = 1..Len(T) /\ Len(T) \in Nat /\ \A i \in DOMAIN T : T[i] \in Task
  OBVIOUS
<1>4. \A i \in DOMAIN T : Status(U)[i] = new[i]
  BY <1>1 DEF Status
<1>5. ASSUME NEW i \in DOMAIN T, new[i] \in Waiting
      PROVE  \/ DependencyStatus(Status(U), U[i].deps) = "waiting_dependency"
             \/ /\ DependencyStatus(Status(U), U[i].deps) = "accepted"
                /\ ~ResourceAvailable(U, Status(U), U[i].units, {i})
                /\ new[i] = "waiting_resource"
  <2> DEFINE d == DependencyStatus(new, T[i].deps)
             s == Seen(T, new, i)
  <2>1. T[i].status \in Waiting
    BY <1>5, OutcomeFacts
  <2>2. /\ d = "waiting_dependency" => new[i] = T[i].status
        /\ d = "blocked" => new[i] = "blocked"
        /\ d = "accepted" => new[i] = IF ResourceAvailable(T, s, T[i].units, {i})
                                      THEN "accepted" ELSE "waiting_resource"
        /\ d \in {"accepted", "blocked", "waiting_dependency"}
    BY <2>1, LoopDecides
  <2>3. DependencyStatus(Status(U), U[i].deps) = d
    <3>1. T[i].deps \in Seq(1..MaxTasks)
      BY <1>3, TaskFields
    <3>2. \A k \in DOMAIN T[i].deps : T[i].deps[k] \in DOMAIN T
      BY <1>3 DEF BackDeps
    <3>3. \A k \in DOMAIN T[i].deps : Status(U)[T[i].deps[k]] = new[T[i].deps[k]]
      BY <1>4, <3>2
    <3> QED
      BY <1>1, <3>1, <3>3, SameDependencies
  <2> HIDE DEF d
  <2>4. CASE d = "waiting_dependency"
    BY <2>3, <2>4
  <2>5. CASE d = "blocked"
    BY <1>5, <2>2, <2>5 DEF Waiting
  <2>6. CASE d = "accepted"
    <3>1. ~ResourceAvailable(T, s, T[i].units, {i}) /\ new[i] = "waiting_resource"
      BY <1>5, <2>2, <2>6 DEF Waiting
    <3>2. Occupies(T, s, {i}) \subseteq Occupies(U, Status(U), {i})
      <4> SUFFICES ASSUME NEW j \in DOMAIN T, j # i, s[j] \in Occupying
                   PROVE  new[j] \in Occupying
        BY <1>1, <1>4 DEF Occupies
      <4>1. s[j] = new[j] \/ s[j] = T[j].status
        BY DEF Seen
      <4>2. CASE s[j] = T[j].status
        <5>1. T[j].status \notin Waiting
          BY <4>2 DEF Occupying, Waiting
        <5> QED
          BY <4>2, <5>1, OutcomeFacts
      <4> QED
        BY <4>1, <4>2
    <3>3. Sized(U) /\ Occupies(U, Status(U), {i}) \in SUBSET DOMAIN U
      BY <1>1, TasksAreSized DEF Occupies
    <3>4. \A j \in Occupies(T, s, {i}) : T[j].units = U[j].units
      BY <1>1 DEF Occupies
    <3>5. Cardinality(Held(T, Occupies(T, s, {i}))) <= Cardinality(Held(U, Occupies(U, Status(U), {i})))
      BY <3>2, <3>3, <3>4, HeldGrows
    <3>6. Used(T, s, {i}) <= Used(U, Status(U), {i})
      BY <3>5, UsedIsHeld
    <3>7. Used(T, s, {i}) \in Nat /\ Used(U, Status(U), {i}) \in Nat
      <4>1. Sized(T) /\ Occupies(T, s, {i}) \in SUBSET DOMAIN T
        BY TasksAreSized DEF Occupies
      <4> QED
        BY <3>3, <4>1, HeldIsFinite, UsedIsHeld
    <3>8. U[i].units = T[i].units /\ T[i].units \in Nat /\ Budget \in Nat
      BY <1>1, <1>3, TaskFields, TeamAssumption
    <3>9. ~ResourceAvailable(U, Status(U), U[i].units, {i})
      <4> HIDE DEF s
      <4> QED
        BY <3>1, <3>6, <3>7, <3>8 DEF ResourceAvailable
    <3> QED
      BY <2>3, <2>6, <3>1, <3>9
  <2> QED
    BY <2>2, <2>4, <2>5, <2>6
<1>6. \A i \in DOMAIN U : Stays(U, Status(U), i)
  BY <1>1, <1>4, <1>5 DEF Stays
<1>7. Settled(U)
  BY <1>6, SettledStays
<1> QED
  BY <1>2, <1>7 DEF U

\* What the activation admits is ready, and the budget holds it together with
\* everything else that it admits.
LEMMA ActivateAdmits ==
    ASSUME NEW T \in Seq(Task), BackDeps(T), NEW new \in Outcomes(T), Settles(T, new),
           NEW a \in DOMAIN T, new[a] = "accepted", T[a].status # "accepted"
    PROVE  LET U == Activated(T, new) IN
           /\ \A k \in DOMAIN U[a].deps : U[U[a].deps[k]].status = "completed"
           /\ Used(U, Status(U), {}) <= Budget
<1> DEFINE U == Activated(T, new)
           S == {i \in DOMAIN T : new[i] = "accepted" /\ T[i].status # "accepted"}
<1>1. /\ U \in Seq(Task) /\ DOMAIN U = DOMAIN T
      /\ \A i \in DOMAIN T : /\ U[i].status = new[i] /\ U[i].deps = T[i].deps
                             /\ U[i].units = T[i].units
  BY ActivatedFields
<1> HIDE DEF U
<1>2. DOMAIN T = 1..Len(T) /\ Len(T) \in Nat /\ \A i \in DOMAIN T : T[i] \in Task
  OBVIOUS
<1>3. \A i \in DOMAIN T : Status(U)[i] = new[i]
  BY <1>1 DEF Status
<1>4. ASSUME NEW i \in S
      PROVE  /\ DependencyStatus(new, T[i].deps) = "accepted"
             /\ ResourceAvailable(T, Seen(T, new, i), T[i].units, {i})
  <2>1. i \in DOMAIN T /\ T[i].status \in Waiting /\ new[i] = "accepted"
    BY OutcomeFacts
  <2> QED
    BY <2>1, LoopDecides DEF Waiting
<1>5. \A k \in DOMAIN U[a].deps : U[U[a].deps[k]].status = "completed"
  <2>1. \A k \in DOMAIN T[a].deps : new[T[a].deps[k]] = "completed"
    <3>1. DependencyStatus(new, T[a].deps) = "accepted"
      BY <1>4
    <3> QED
      BY <3>1, ReadyWhenCompleted
  <2>2. \A k \in DOMAIN T[a].deps : T[a].deps[k] \in DOMAIN T
    BY <1>2 DEF BackDeps
  <2> QED
    BY <1>1, <2>1, <2>2
<1>6. S \in SUBSET (1..Len(T)) /\ a \in S
  BY <1>2
<1>7. PICK i \in S : \A j \in S : j <= i
  <2> HIDE DEF S
  <2> QED
    BY <1>2, <1>6, LastOfSome
<1>8. i \in DOMAIN T /\ ResourceAvailable(T, Seen(T, new, i), T[i].units, {i})
  BY <1>4
<1> DEFINE s == Seen(T, new, i)
<1>9. Occupies(U, Status(U), {}) \subseteq Occupies(T, s, {i}) \cup {i}
  <2> SUFFICES ASSUME NEW j \in DOMAIN T, new[j] \in Occupying, j # i
               PROVE  s[j] \in Occupying
    BY <1>1, <1>3 DEF Occupies
  <2>1. CASE j < i
    BY <2>1 DEF Seen
  <2>2. CASE ~(j < i)
    <3>1. j \notin S
      <4>1. ~(j <= i)
        BY <1>2, <1>8, <2>2
      <4> HIDE DEF S
      <4> QED
        BY <1>7, <4>1
    <3>2. new[j] # "accepted" \/ T[j].status = "accepted"
      BY <3>1
    <3>3. new[j] = T[j].status
      BY <3>2, OutcomeFacts DEF Occupying, Waiting
    <3> QED
      BY <2>2, <3>3 DEF Seen
  <2> QED
    BY <2>1, <2>2
<1>10. Used(U, Status(U), {}) <= Used(T, s, {i}) + T[i].units
  <2>1. Sized(T) /\ Sized(U) /\ Occupies(T, s, {i}) \in SUBSET DOMAIN T
    BY <1>1, TasksAreSized DEF Occupies
  <2>2. \A j \in Occupies(U, Status(U), {}) \ {i} : T[j].units = U[j].units
    BY <1>1 DEF Occupies
  <2>3. U[i].units \in Nat /\ U[i].units = T[i].units
    BY <1>1, <1>8, <2>1 DEF Sized
  <2> HIDE DEF s
  <2>4. Cardinality(Held(U, Occupies(U, Status(U), {}))) <=
            Cardinality(Held(T, Occupies(T, s, {i}))) + U[i].units
    BY <1>9, <2>1, <2>2, <2>3, HeldByOneMore
  <2> QED
    BY <2>3, <2>4, UsedIsHeld
<1>11. Used(T, s, {i}) + T[i].units <= Budget
  BY <1>8 DEF ResourceAvailable
<1>12. /\ Used(U, Status(U), {}) \in Nat /\ Used(T, s, {i}) \in Nat /\ T[i].units \in Nat
       /\ Budget \in Nat
  <2>1. /\ Sized(T) /\ Sized(U) /\ Occupies(T, s, {i}) \in SUBSET DOMAIN T
        /\ Occupies(U, Status(U), {}) \in SUBSET DOMAIN U
    BY <1>1, TasksAreSized DEF Occupies
  <2> HIDE DEF s
  <2> QED
    BY <1>8, <2>1, HeldIsFinite, UsedIsHeld, TeamAssumption DEF Sized
<1>13. Used(U, Status(U), {}) <= Budget
  <2> HIDE DEF s
  <2> QED
    BY <1>10, <1>11, <1>12
<1> QED
  BY <1>5, <1>13 DEF U

-----------------------------------------------------------------------------
(* What a step does to the tasks.                                          *)

\* The tasks as a handler leaves them to the activation: some may have ended or
\* gone on, none was admitted or put back.
Follows(T) ==
    /\ T \in Seq(Task) /\ DOMAIN T = DOMAIN tasks
    /\ \A j \in DOMAIN tasks :
         /\ T[j].deps = tasks[j].deps /\ T[j].units = tasks[j].units
         /\ T[j].attempt = tasks[j].attempt
         /\ T[j].status = tasks[j].status \/ T[j].status \notin Waiting \cup {"accepted"}

Activates == \E T \in Seq(Task) : \E new \in Outcomes(T) :
    Follows(T) /\ Settles(T, new) /\ tasks' = Activated(T, new)

GoesOn(i) ==
    /\ Follows(tasks') /\ tasks'[i].status \in {"running", "waiting_input"}
    /\ \A j \in DOMAIN tasks \ {i} : tasks'[j] = tasks[j]

Appended(deps, units) ==
    LET n == Len(tasks) + 1 IN
    /\ tasks' \in Seq(Task) /\ DOMAIN tasks' = DOMAIN tasks \cup {n} /\ n \notin DOMAIN tasks
    /\ \A j \in DOMAIN tasks : tasks'[j] = tasks[j]
    /\ tasks'[n].status = Admission(tasks, deps, units, {})
    /\ tasks'[n].deps = deps /\ tasks'[n].units = units
    /\ \A k \in DOMAIN deps : deps[k] \in DOMAIN tasks

Retried(i) ==
    /\ tasks' \in Seq(Task) /\ DOMAIN tasks' = DOMAIN tasks
    /\ \A j \in DOMAIN tasks \ {i} : tasks'[j] = tasks[j]
    /\ tasks'[i].status = Admission(tasks, tasks[i].deps, tasks[i].units, {i})
    /\ tasks'[i].deps = tasks[i].deps /\ tasks'[i].units = tasks[i].units
    /\ tasks'[i].attempt = tasks[i].attempt + 1

TaskStep ==
    \/ tasks' = tasks
    \/ Activates
    \/ \E i \in DOMAIN tasks : GoesOn(i)
    \/ \E deps \in DepLists, units \in Profiles : Appended(deps, units)
    \/ \E i \in DOMAIN tasks : Retried(i)

\* A handler that ends in the activation.
LEMMA ActivateReadyActivates ==
    ASSUME NEW T, Follows(T), NEW C, NEW items, ActivateReady(T, C, items)
    PROVE  Activates
BY DEF ActivateReady, Activates, Activated, Follows

\* One task gets another status.
LEMMA OneFollows ==
    ASSUME tasks \in Seq(Task), NEW i \in DOMAIN tasks, NEW u \in Task, NEW T,
           T = [tasks EXCEPT ![i] = u], u.deps = tasks[i].deps, u.units = tasks[i].units,
           u.attempt = tasks[i].attempt, u.status \notin Waiting \cup {"accepted"}
    PROVE  Follows(T) /\ T[i] = u /\ \A j \in DOMAIN tasks \ {i} : T[j] = tasks[j]
<1>1. T \in Seq(Task) /\ DOMAIN T = DOMAIN tasks
  OBVIOUS
<1>2. T[i] = u /\ \A j \in DOMAIN tasks \ {i} : T[j] = tasks[j]
  OBVIOUS
<1>3. Follows(T)
  BY <1>1, <1>2 DEF Follows
<1> QED
  BY <1>2, <1>3

\* Cancel, complete and reject end in the activation.
LEMMA UserEndsTask ==
    ASSUME TeamInv, NEW i \in DOMAIN tasks, Cancel(i) \/ Complete(i) \/ Reject(i)
    PROVE  Activates
<1>1. tasks \in Seq(Task) /\ tasks[i] \in Task
  BY TeamParts
<1>2. ASSUME NEW s \in {"cancelled", "completed", "blocked"}
      PROVE  s \in TaskStatus /\ s \notin Waiting \cup {"accepted"}
  BY DEF TaskStatus, Waiting
<1>3. CASE Cancel(i)
  <2> DEFINE u == [tasks[i] EXCEPT !.status = "cancelled", !.stop = TRUE]
             T == [tasks EXCEPT ![i] = u]
  <2>1. /\ u \in Task /\ u.deps = tasks[i].deps /\ u.units = tasks[i].units
        /\ u.attempt = tasks[i].attempt /\ u.status = "cancelled"
    BY <1>1, <1>2 DEF Task
  <2>2. T = [tasks EXCEPT ![i].status = "cancelled", ![i].stop = TRUE]
    BY <1>1 DEF Task
  <2>3. \E C, items : ActivateReady(T, C, items)
    BY <1>3, <2>2 DEF Cancel
  <2> HIDE DEF u
  <2>4. Follows(T)
    BY <1>1, <1>2, <2>1, OneFollows
  <2> QED
    BY <2>3, <2>4, ActivateReadyActivates
<1>4. CASE Complete(i)
  <2> DEFINE u == [tasks[i] EXCEPT !.status = "completed", !.done = "manual"]
             T == [tasks EXCEPT ![i] = u]
  <2>1. /\ u \in Task /\ u.deps = tasks[i].deps /\ u.units = tasks[i].units
        /\ u.attempt = tasks[i].attempt /\ u.status = "completed"
    BY <1>1, <1>2 DEF Task
  <2>2. T = [tasks EXCEPT ![i].status = "completed", ![i].done = "manual"]
    BY <1>1 DEF Task
  <2>3. \E C, items : ActivateReady(T, C, items)
    BY <1>4, <2>2 DEF Complete
  <2> HIDE DEF u
  <2>4. Follows(T)
    BY <1>1, <1>2, <2>1, OneFollows
  <2> QED
    BY <2>3, <2>4, ActivateReadyActivates
<1>5. CASE Reject(i)
  <2> DEFINE u == [tasks[i] EXCEPT !.status = "blocked"]
             T == [tasks EXCEPT ![i] = u]
  <2>1. /\ u \in Task /\ u.deps = tasks[i].deps /\ u.units = tasks[i].units
        /\ u.attempt = tasks[i].attempt /\ u.status = "blocked"
    BY <1>1, <1>2 DEF Task
  <2>2. T = [tasks EXCEPT ![i].status = "blocked"]
    BY <1>1 DEF Task
  <2>3. \E C, items : ActivateReady(T, C, items)
    BY <1>5, <2>2 DEF Reject
  <2> HIDE DEF u
  <2>4. Follows(T)
    BY <1>1, <1>2, <2>1, OneFollows
  <2> QED
    BY <2>3, <2>4, ActivateReadyActivates
<1> QED
  BY <1>3, <1>4, <1>5

\* An event is dropped, ends in the activation, or lets its task go on.
LEMMA EventMovesTask ==
    ASSUME TeamInv, NEW r, NEW token, NEW i \in DOMAIN tasks, NEW type \in EventTypes, NEW attempt,
           UploadEvent(r, token, i, type, attempt)
    PROVE  tasks' = tasks \/ Activates \/ GoesOn(i)
<1> DEFINE T == ApplyEvent(tasks, i, type)
           s == EventStatus(type)
<1>1. tasks \in Seq(Task) /\ tasks[i] \in Task
  BY TeamParts
<1>2. \/ tasks' = tasks
      \/ EventActivates(tasks[i], type) /\ ActivateReady(T, commands, {})
      \/ ~EventActivates(tasks[i], type) /\ tasks' = T
  BY DEF UploadEvent
<1>3. Follows(tasks)
  BY <1>1 DEF Follows
<1>4. CASE HumanTerminal(tasks[i])
  <2>1. T = tasks
    BY <1>4 DEF ApplyEvent
  <2> QED
    BY <1>2, <1>3, <2>1, ActivateReadyActivates
<1>5. CASE ~HumanTerminal(tasks[i])
  <2>1. s \in TaskStatus
    BY EventStatusFits
  <2>2. s \in {"running", "completed", "failed", "blocked", "cancelled", "waiting_input"}
    <3>1. type \in AgentEvents
      BY EventAssumption
    <3> QED
      BY <3>1 DEF AgentEvents, Reports, EventStatus
  <2>3. ~EventActivates(tasks[i], type) => s \in {"running", "waiting_input"}
    BY <1>5, <2>2 DEF EventActivates
  <2> HIDE DEF s
  <2> DEFINE done == IF type = "report.completed" THEN "agent_report" ELSE tasks[i].done
             u == [tasks[i] EXCEPT !.status = s, !.done = done]
  <2>4. done \in {"none", "manual", "agent_report"}
    BY <1>1, TaskFields
  <2>5. T = [tasks EXCEPT ![i] = u]
    BY <1>1, <1>5 DEF ApplyEvent, Task, s
  <2> HIDE DEF done
  <2>6. /\ u \in Task /\ u.deps = tasks[i].deps /\ u.units = tasks[i].units
        /\ u.attempt = tasks[i].attempt /\ u.status = s
    BY <1>1, <2>1, <2>4 DEF Task
  <2> HIDE DEF u, T
  <2>7. u.status \notin Waiting \cup {"accepted"}
    BY <2>2, <2>6 DEF Waiting
  <2>8. Follows(T) /\ T[i] = u /\ \A j \in DOMAIN tasks \ {i} : T[j] = tasks[j]
    BY <1>1, <2>5, <2>6, <2>7, OneFollows
  <2>9. CASE ~EventActivates(tasks[i], type) /\ tasks' = T
    BY <2>3, <2>6, <2>8, <2>9 DEF GoesOn
  <2>10. CASE ActivateReady(T, commands, {})
    BY <2>8, <2>10, ActivateReadyActivates
  <2> QED
    BY <1>2, <2>9, <2>10
<1> QED
  BY <1>4, <1>5

\* Creation appends one task, with existing ones as its dependencies.
LEMMA CreateAppends ==
    ASSUME TeamInv, NEW deps \in DepLists, NEW units \in Profiles, NEW key,
           CreateTask(deps, units, key), tasks' \in Seq(Task)
    PROVE  Appended(deps, units)
<1> DEFINE n == Len(tasks) + 1
           new == [status |-> Admission(tasks, deps, units, {}), attempt |-> 1, deps |-> deps,
                   units |-> units, key |-> key, done |-> "none", stop |-> FALSE]
<1>1. tasks \in Seq(Task) /\ Len(tasks) \in Nat /\ DOMAIN tasks = 1..Len(tasks)
  BY TeamParts
<1>2. tasks' = Append(tasks, new)
  BY DEF CreateTask
<1>3. /\ new.status = Admission(tasks, deps, units, {}) /\ new.deps = deps /\ new.units = units
  OBVIOUS
<1> HIDE DEF new
<1>4. /\ DOMAIN tasks' = 1..n /\ tasks'[n] = new
      /\ \A j \in DOMAIN tasks : tasks'[j] = tasks[j]
  BY <1>1, <1>2
<1>5. DOMAIN tasks' = DOMAIN tasks \cup {n} /\ n \notin DOMAIN tasks
  BY <1>1, <1>4
<1>6. \A k \in DOMAIN deps : deps[k] \in DOMAIN tasks
  <2> HIDE <1>1
  <2>1. ASSUME NEW a \in DOMAIN tasks, NEW b \in DOMAIN tasks, deps = <<a, b>>
        PROVE  \A k \in DOMAIN deps : deps[k] \in DOMAIN tasks
    BY <2>1
  <2>2. ASSUME NEW a \in DOMAIN tasks, deps = <<a>>
        PROVE  \A k \in DOMAIN deps : deps[k] \in DOMAIN tasks
    BY <2>2
  <2>3. CASE deps = << >>
    BY <2>3
  <2>4. CASE deps \in (DOMAIN tasks) \X (DOMAIN tasks)
    <3>1. PICK a \in DOMAIN tasks, b \in DOMAIN tasks : deps = <<a, b>>
      BY <2>4
    <3> QED
      BY <2>1, <3>1
  <2> QED
    BY <2>2, <2>3, <2>4 DEF DepLists
<1> QED
  BY <1>3, <1>4, <1>5, <1>6 DEF Appended

\* A retry changes one task, without an activation.
LEMMA RetryRetries ==
    ASSUME TeamInv, NEW i \in DOMAIN tasks, Retry(i), tasks' \in Seq(Task)
    PROVE  Retried(i)
<1> DEFINE u == [tasks[i] EXCEPT !.status = Admission(tasks, tasks[i].deps, tasks[i].units, {i}),
                                 !.attempt = tasks[i].attempt + 1, !.done = "none", !.stop = FALSE]
<1>1. tasks \in Seq(Task) /\ tasks[i] \in Task
  BY TeamParts
<1>2. tasks' = [tasks EXCEPT ![i] = u]
  BY DEF Retry
<1>3. /\ u.status = Admission(tasks, tasks[i].deps, tasks[i].units, {i})
      /\ u.deps = tasks[i].deps /\ u.units = tasks[i].units /\ u.attempt = tasks[i].attempt + 1
  BY <1>1 DEF Task
<1> HIDE DEF u
<1>4. DOMAIN tasks' = DOMAIN tasks /\ tasks'[i] = u /\ \A j \in DOMAIN tasks \ {i} : tasks'[j] = tasks[j]
  BY <1>1, <1>2
<1> QED
  BY <1>3, <1>4 DEF Retried

\* Every handler does one of these to the tasks.
LEMMA StepIsTaskStep == TeamInv /\ TeamInv' /\ [TeamNext]_teamVars => TaskStep
<1> SUFFICES ASSUME TeamInv, TeamInv', [TeamNext]_teamVars PROVE TaskStep
  OBVIOUS
<1>1. tasks' \in Seq(Task) /\ tasks \in Seq(Task)
  BY DEF TeamInv, TeamTypeOK
<1>2. ASSUME NEW r \in Runtimes, AgentStep(r) PROVE TaskStep
  <2>1. ASSUME NEW token, NEW type, UploadTaskless(r, token, type) PROVE TaskStep
    <3>1. ActivateReady(tasks, commands, {}) \/ tasks' = tasks
      BY <2>1 DEF UploadTaskless
    <3>2. Follows(tasks)
      BY <1>1 DEF Follows
    <3> QED
      BY <3>1, <3>2, ActivateReadyActivates DEF TaskStep
  <2>2. ASSUME NEW token, NEW type \in EventTypes, NEW i \in DOMAIN tasks, NEW attempt,
               UploadEvent(r, token, i, type, attempt)
        PROVE  TaskStep
    BY <2>2, EventMovesTask DEF TaskStep
  <2>3. CASE tasks' = tasks
    BY <2>3 DEF TaskStep
  <2> QED
    BY <1>2, <2>1, <2>2, <2>3 DEF AgentStep, TeamRegister, TeamHeartbeat, TeamUnregister,
                                 UploadReplay, PollCommands, AckCommands
<1>3. CASE UserStep
  <2>1. ASSUME NEW i \in DOMAIN tasks, Cancel(i) \/ Complete(i) \/ Reject(i) PROVE TaskStep
    BY <2>1, UserEndsTask DEF TaskStep
  <2>2. ASSUME NEW i \in DOMAIN tasks, Retry(i) PROVE TaskStep
    BY <1>1, <2>2, RetryRetries DEF TaskStep
  <2>3. ASSUME NEW deps \in DepLists, NEW units \in Profiles, NEW key, CreateTask(deps, units, key)
        PROVE  TaskStep
    BY <1>1, <2>3, CreateAppends DEF TaskStep
  <2>4. ASSUME NEW i \in DOMAIN tasks, Input(i) \/ Approve(i) PROVE TaskStep
    BY <2>4 DEF Input, Approve, TaskStep
  <2> QED
    BY <1>3, <2>1, <2>2, <2>3, <2>4 DEF UserStep
<1>4. CASE TeamExpireLeases \/ TeamTick \/ UNCHANGED teamVars
  BY <1>4 DEF TeamExpireLeases, TeamTick, teamVars, TaskStep
<1> QED
  BY <1>2, <1>3, <1>4 DEF TeamNext

\* Dependencies point backwards for ever.
LEMMA BackDepsStep ==
    ASSUME TeamInv, BackDeps(tasks), TaskStep
    PROVE  BackDeps(tasks')
<1>1. tasks \in Seq(Task) /\ DOMAIN tasks = 1..Len(tasks) /\ Len(tasks) \in Nat
  BY TeamParts
<1>2. CASE tasks' = tasks
  BY <1>2
<1>3. CASE Activates
  <2>1. PICK T \in Seq(Task) : \E new \in Outcomes(T) :
           Follows(T) /\ Settles(T, new) /\ tasks' = Activated(T, new)
    BY <1>3 DEF Activates
  <2>2. PICK new \in Outcomes(T) : Follows(T) /\ Settles(T, new) /\ tasks' = Activated(T, new)
    BY <2>1
  <2>3. BackDeps(T)
    BY <2>2 DEF Follows, BackDeps
  <2> QED
    BY <2>2, <2>3, ActivateSettles
<1>4. ASSUME NEW i \in DOMAIN tasks, GoesOn(i) PROVE BackDeps(tasks')
  BY <1>4 DEF GoesOn, Follows, BackDeps
<1>5. ASSUME NEW deps, NEW units, Appended(deps, units) PROVE BackDeps(tasks')
  <2> DEFINE n == Len(tasks) + 1
  <2>1. /\ DOMAIN tasks' = DOMAIN tasks \cup {n} /\ tasks'[n].deps = deps
        /\ \A j \in DOMAIN tasks : tasks'[j] = tasks[j]
        /\ \A k \in DOMAIN deps : deps[k] \in DOMAIN tasks
    BY <1>5 DEF Appended
  <2>2. \A k \in DOMAIN deps : deps[k] \in 1..n - 1
    <3>1. n - 1 = Len(tasks)
      BY <1>1
    <3> QED
      BY <1>1, <2>1, <3>1
  <2> HIDE DEF n
  <2> QED
    BY <2>1, <2>2 DEF BackDeps
<1>6. ASSUME NEW i \in DOMAIN tasks, Retried(i) PROVE BackDeps(tasks')
  <2>1. DOMAIN tasks' = DOMAIN tasks /\ \A j \in DOMAIN tasks : tasks'[j].deps = tasks[j].deps
    BY <1>6 DEF Retried
  <2> QED
    BY <2>1 DEF BackDeps
<1> QED
  BY <1>2, <1>3, <1>4, <1>5, <1>6 DEF TaskStep

\* Task i gets its status from the admission in T and nothing else differs in U;
\* "except" leaves the task itself out of the count.
AdmitsInto(T, U, i, except) ==
    /\ T \in Seq(Task) /\ U \in Seq(Task)
    /\ DOMAIN U = DOMAIN T \cup {i} /\ except \subseteq {i} /\ i \notin DOMAIN T \ except
    /\ \A j \in DOMAIN T \ {i} : U[j] = T[j]
    /\ U[i].status = Admission(T, U[i].deps, U[i].units, except)
    /\ \A k \in DOMAIN U[i].deps : U[i].deps[k] \in DOMAIN T \ {i}

\* Creation admits the new task among the others.
LEMMA AppendedAdmits ==
    ASSUME TeamInv, NEW deps, NEW units, Appended(deps, units)
    PROVE  AdmitsInto(tasks, tasks', Len(tasks) + 1, {})
BY TeamParts DEF Appended, AdmitsInto

\* A retry admits the task among the others.
LEMMA RetriedAdmits ==
    ASSUME TeamInv, BackDeps(tasks), NEW i \in DOMAIN tasks, Retried(i)
    PROVE  AdmitsInto(tasks, tasks', i, {i})
<1>1. tasks \in Seq(Task) /\ DOMAIN tasks = 1..Len(tasks) /\ Len(tasks) \in Nat
  BY TeamParts
<1>2. \A k \in DOMAIN tasks[i].deps : tasks[i].deps[k] \in 1..i - 1
  BY DEF BackDeps
<1>3. \A k \in 1..i - 1 : k \in DOMAIN tasks \ {i}
  BY <1>1
<1> QED
  BY <1>1, <1>2, <1>3 DEF Retried, AdmitsInto

\* The admission looked at the tasks as they are now, and it counted everyone
\* but the task itself.
LEMMA AdmissionLooks ==
    ASSUME NEW T, NEW U, NEW i, NEW except, AdmitsInto(T, U, i, except)
    PROVE  LET d == DependencyStatus(Status(U), U[i].deps)
               used == Used(U, Status(U), {i})
           IN  /\ U[i].status = IF d = "accepted" /\ ~(used + U[i].units <= Budget)
                                THEN "waiting_resource" ELSE d
               /\ Used(U, Status(U), {}) <= used + U[i].units
               /\ used \in Nat /\ U[i].units \in Nat /\ Used(U, Status(U), {}) \in Nat
<1>1. /\ T \in Seq(Task) /\ U \in Seq(Task) /\ DOMAIN U = DOMAIN T \cup {i}
      /\ except \subseteq {i} /\ i \notin DOMAIN T \ except
      /\ \A j \in DOMAIN T \ {i} : U[j] = T[j]
      /\ U[i].status = Admission(T, U[i].deps, U[i].units, except)
      /\ \A k \in DOMAIN U[i].deps : U[i].deps[k] \in DOMAIN T \ {i}
  BY DEF AdmitsInto
<1>2. U[i] \in Task /\ U[i].deps \in Seq(1..MaxTasks)
  <2>1. i \in DOMAIN U
    BY <1>1
  <2>2. U[i] \in Task
    BY <1>1, <2>1
  <2> QED
    BY <2>2, TaskFields
<1>3. \A j \in DOMAIN T \ {i} : Status(U)[j] = Status(T)[j]
  BY <1>1 DEF Status
<1>4. DependencyStatus(Status(T), U[i].deps) = DependencyStatus(Status(U), U[i].deps)
  BY <1>1, <1>2, <1>3, SameDependencies
<1>5. Occupies(T, Status(T), except) = Occupies(U, Status(U), {i})
  <2>1. DOMAIN T \ except = DOMAIN U \ {i} /\ DOMAIN U \ {i} \subseteq DOMAIN T \ {i}
    BY <1>1
  <2> QED
    BY <1>3, <2>1 DEF Occupies
<1>6. Held(T, Occupies(T, Status(T), except)) = Held(U, Occupies(U, Status(U), {i}))
  <2>1. \A j \in Occupies(U, Status(U), {i}) : T[j].units = U[j].units
    BY <1>1 DEF Occupies
  <2> QED
    BY <1>5, <2>1 DEF Held, Units
<1>7. Used(T, Status(T), except) = Used(U, Status(U), {i})
  BY <1>6, UsedIsHeld
<1>8. Sized(U) /\ U[i].units \in Nat
  BY <1>1, TasksAreSized DEF Sized
<1>9. /\ Occupies(U, Status(U), {i}) \in SUBSET DOMAIN U
      /\ Occupies(U, Status(U), {}) \in SUBSET DOMAIN U
      /\ Occupies(U, Status(U), {}) \subseteq Occupies(U, Status(U), {i}) \cup {i}
  BY DEF Occupies
<1>10. Cardinality(Held(U, Occupies(U, Status(U), {}))) <=
          Cardinality(Held(U, Occupies(U, Status(U), {i}))) + U[i].units
  BY <1>8, <1>9, HeldByOneMore
<1>11. Used(U, Status(U), {}) <= Used(U, Status(U), {i}) + U[i].units
  BY <1>10, UsedIsHeld
<1>12. Used(U, Status(U), {}) \in Nat /\ Used(U, Status(U), {i}) \in Nat
  BY <1>8, <1>9, HeldIsFinite, UsedIsHeld
<1>13. U[i].status = IF /\ DependencyStatus(Status(U), U[i].deps) = "accepted"
                        /\ ~(Used(U, Status(U), {i}) + U[i].units <= Budget)
                     THEN "waiting_resource" ELSE DependencyStatus(Status(U), U[i].deps)
  BY <1>1, <1>4, <1>7 DEF Admission, ResourceAvailable
<1> QED
  BY <1>8, <1>11, <1>12, <1>13

\* An admission of one task is sound.
LEMMA AdmittedSoundly ==
    ASSUME NEW T, NEW U, NEW i, NEW except, AdmitsInto(T, U, i, except),
           U[i].status = "accepted"
    PROVE  /\ \A k \in DOMAIN U[i].deps : U[U[i].deps[k]].status = "completed"
           /\ Used(U, Status(U), {}) <= Budget
<1> DEFINE d == DependencyStatus(Status(U), U[i].deps)
           used == Used(U, Status(U), {i})
           all == Used(U, Status(U), {})
           units == U[i].units
<1>1. /\ U[i].status = IF d = "accepted" /\ ~(used + units <= Budget) THEN "waiting_resource" ELSE d
      /\ all <= used + units /\ used \in Nat /\ units \in Nat /\ all \in Nat
  BY AdmissionLooks
<1>2. d = "accepted" /\ used + units <= Budget
  <2> HIDE DEF d, used, all, units
  <2> QED
    BY <1>1
<1>3. all <= Budget
  <2>1. Budget \in Nat
    BY TeamAssumption
  <2> HIDE DEF d, used, all, units
  <2> QED
    BY <1>1, <1>2, <2>1
<1>4. \A k \in DOMAIN U[i].deps : Status(U)[U[i].deps[k]] = "completed"
  BY <1>2, ReadyWhenCompleted
<1>5. \A k \in DOMAIN U[i].deps : U[i].deps[k] \in DOMAIN U
  BY DEF AdmitsInto
<1>6. \A k \in DOMAIN U[i].deps : U[U[i].deps[k]].status = "completed"
  BY <1>4, <1>5 DEF Status
<1> QED
  BY <1>3, <1>6
\* Dependencies point backwards in every reachable state.
LEMMA BackDepsInvariance == TeamSpec => [](TeamInv /\ BackDeps(tasks))
<1>1. TeamInit => BackDeps(tasks)
  BY DEF TeamInit, BackDeps
<1>2. TeamInv /\ BackDeps(tasks) /\ TeamInv' /\ [TeamNext]_teamVars => BackDeps(tasks)'
  BY StepIsTaskStep, BackDepsStep
<1> QED
  BY <1>1, <1>2, TeamInvariance, PTL DEF TeamSpec

\* Creation (handleProjectTaskCreate), retry (handleDevTaskAction) and the activation
\* (activateReadyTeamTasksLocked) admit a task only when teamDependencyStatusLocked
\* finds all its dependencies completed, and they keep the project within
\* teamResourceBudget also when one pass admits several tasks.
THEOREM AdmissionsAreSound == TeamSpec => AdmissionIsSound
<1> DEFINE Fine(i) ==
              /\ \A k \in DOMAIN tasks'[i].deps : tasks'[tasks'[i].deps[k]].status = "completed"
              /\ Used(tasks', Status(tasks'), {}) <= Budget
           P == \A i \in 1..MaxTasks : Admitted(i) => Fine(i)
<1>1. TeamInv /\ BackDeps(tasks) /\ TeamInv' /\ [TeamNext]_teamVars => P
  <2> SUFFICES ASSUME TeamInv, BackDeps(tasks), TeamInv', [TeamNext]_teamVars,
                      NEW a \in 1..MaxTasks, Admitted(a)
               PROVE  Fine(a)
    OBVIOUS
  <2>1. /\ a \in DOMAIN tasks' /\ tasks'[a].status = "accepted"
        /\ a \in DOMAIN tasks => \/ tasks[a].status # "accepted"
                                 \/ tasks[a].attempt # tasks'[a].attempt
    BY DEF Admitted
  <2>2. TaskStep
    BY StepIsTaskStep
  <2>3. CASE tasks' = tasks
    BY <2>1, <2>3
  <2>4. CASE Activates
    <3>1. PICK T \in Seq(Task) : \E new \in Outcomes(T) :
             Follows(T) /\ Settles(T, new) /\ tasks' = Activated(T, new)
      BY <2>4 DEF Activates
    <3>2. PICK new \in Outcomes(T) : Follows(T) /\ Settles(T, new) /\ tasks' = Activated(T, new)
      BY <3>1
    <3>3. BackDeps(T)
      BY <3>2 DEF Follows, BackDeps
    <3>4. DOMAIN tasks' = DOMAIN T /\ DOMAIN T = DOMAIN tasks
      BY <3>2, ActivatedFields DEF Follows
    <3>5. a \in DOMAIN T /\ tasks'[a].status = new[a] /\ tasks'[a].attempt = T[a].attempt
      BY <2>1, <3>2, <3>4, ActivatedFields
    <3>6. tasks[a].status # "accepted"
      BY <2>1, <3>2, <3>4, <3>5 DEF Follows
    <3>7. T[a].status # "accepted" /\ new[a] = "accepted"
      BY <2>1, <3>2, <3>4, <3>5, <3>6 DEF Follows
    <3> QED
      BY <3>2, <3>3, <3>5, <3>7, ActivateAdmits
  <2>5. ASSUME NEW i \in DOMAIN tasks, GoesOn(i) PROVE FALSE
    BY <2>1, <2>5 DEF GoesOn, Follows
  <2>6. ASSUME NEW deps, NEW units, Appended(deps, units) PROVE Fine(a)
    <3>1. AdmitsInto(tasks, tasks', Len(tasks) + 1, {})
      BY <2>6, AppendedAdmits
    <3>2. a = Len(tasks) + 1
      BY <2>1, <2>6 DEF Appended
    <3> QED
      BY <2>1, <3>1, <3>2, AdmittedSoundly
  <2>7. ASSUME NEW i \in DOMAIN tasks, Retried(i) PROVE Fine(a)
    <3>1. AdmitsInto(tasks, tasks', i, {i})
      BY <2>7, RetriedAdmits
    <3>2. a = i
      BY <2>1, <2>7 DEF Retried
    <3> QED
      BY <2>1, <3>1, <3>2, AdmittedSoundly
  <2> QED
    BY <2>2, <2>3, <2>4, <2>5, <2>6, <2>7 DEF TaskStep
<1>2. P => \A i \in 1..MaxTasks : Admitted(i) =>
             /\ \A k \in DOMAIN tasks'[i].deps : tasks'[tasks'[i].deps[k]].status = "completed"
             /\ Used(tasks', Status(tasks'), {}) <= Budget
  OBVIOUS
<1> HIDE DEF P
<1> QED
  BY <1>1, <1>2, BackDepsInvariance, PTL DEF TeamSpec, AdmissionIsSound
\* The occupied resources did not shrink.
LEMMA UnavailableStays ==
    ASSUME NEW T \in Seq(Task), NEW U \in Seq(Task), DOMAIN T \subseteq DOMAIN U, NEW j \in DOMAIN T,
           \A k \in DOMAIN T : U[k].units = T[k].units,
           \A k \in DOMAIN T : T[k].status \in Occupying => U[k].status \in Occupying,
           ~ResourceAvailable(T, Status(T), T[j].units, {j})
    PROVE  ~ResourceAvailable(U, Status(U), U[j].units, {j})
<1> DEFINE R == Occupies(T, Status(T), {j})
           S == Occupies(U, Status(U), {j})
           a == Used(T, Status(T), {j})
           b == Used(U, Status(U), {j})
           units == T[j].units
<1>1. Sized(T) /\ Sized(U)
  BY TasksAreSized
<1>2. /\ R \in SUBSET DOMAIN T /\ S \in SUBSET DOMAIN U /\ R \subseteq S
      /\ \A k \in R : T[k].units = U[k].units
  BY DEF Occupies, Status
<1>3. a \in Nat /\ b \in Nat /\ a = Cardinality(Held(T, R)) /\ b = Cardinality(Held(U, S))
  BY <1>1, <1>2, HeldIsFinite, UsedIsHeld
<1> HIDE DEF a, b, R, S
<1>4. a <= b
  BY <1>1, <1>2, <1>3, HeldGrows
<1>5. units \in Nat /\ U[j].units = units /\ Budget \in Nat
  BY <1>1, TeamAssumption DEF Sized
<1>6. ~(a + units <= Budget)
  BY DEF ResourceAvailable, a
<1> HIDE DEF units
<1>7. ~(b + units <= Budget)
  BY <1>3, <1>4, <1>5, <1>6
<1> QED
  BY <1>5, <1>7 DEF ResourceAvailable, b

\* A task that starts or needs input lets no other one move.
LEMMA GoingOnSettles ==
    ASSUME TeamInv, BackDeps(tasks), NEW i \in DOMAIN tasks, GoesOn(i), Settled(tasks)
    PROVE  Settled(tasks')
<1>1. /\ tasks \in Seq(Task) /\ tasks' \in Seq(Task) /\ DOMAIN tasks' = DOMAIN tasks
      /\ DOMAIN tasks = 1..Len(tasks) /\ Len(tasks) \in Nat
      /\ \A j \in DOMAIN tasks : tasks'[j].deps = tasks[j].deps /\ tasks'[j].units = tasks[j].units
      /\ tasks'[i].status \in {"running", "waiting_input"}
      /\ \A j \in DOMAIN tasks \ {i} : tasks'[j] = tasks[j]
  BY TeamParts DEF GoesOn, Follows
<1> SUFFICES ASSUME NEW j \in DOMAIN tasks
             PROVE  Stays(tasks', Status(tasks'), j)
  BY <1>1, SettledStays
<1> DEFINE a == Status(tasks)
           b == Status(tasks')
           deps == tasks[j].deps
<1>2. a[j] = tasks[j].status /\ b[j] = tasks'[j].status /\ tasks'[j].deps = deps
  BY <1>1 DEF Status
<1>3. CASE b[j] \notin Waiting
  BY <1>3 DEF Stays
<1>4. CASE b[j] \in Waiting
  <2>1. j # i /\ b[j] = a[j]
    BY <1>1, <1>2, <1>4 DEF Waiting
  <2>2. Stays(tasks, a, j)
    BY SettledStays
  <2>3. \/ DependencyStatus(a, deps) = "waiting_dependency"
        \/ /\ DependencyStatus(a, deps) = "accepted"
           /\ ~ResourceAvailable(tasks, a, tasks[j].units, {j})
           /\ a[j] = "waiting_resource"
    BY <1>4, <2>1, <2>2 DEF Stays
  <2>4. deps \in Seq(1..MaxTasks) /\ \A k \in DOMAIN deps : deps[k] \in DOMAIN tasks
    <3>1. \A k \in DOMAIN deps : deps[k] \in 1..j - 1
      BY DEF BackDeps
    <3>2. \A k \in 1..j - 1 : k \in DOMAIN tasks
      BY <1>1
    <3>3. tasks[j] \in Task
      BY <1>1
    <3> QED
      BY <3>1, <3>2, <3>3, TaskFields
  <2>5. \A k \in DOMAIN deps : deps[k] # i => a[deps[k]] = b[deps[k]]
    BY <1>1, <2>4 DEF Status
  <2>6. b[i] \notin {"completed", "failed", "cancelled", "blocked"}
    BY <1>1 DEF Status
  <2>7. ~ResourceAvailable(tasks, a, tasks[j].units, {j}) =>
            ~ResourceAvailable(tasks', b, tasks'[j].units, {j})
    <3>1. \A k \in DOMAIN tasks : tasks[k].status \in Occupying => tasks'[k].status \in Occupying
      BY <1>1 DEF Occupying
    <3> QED
      BY <1>1, <3>1, UnavailableStays
  <2> HIDE DEF a, b, deps
  <2>8. DependencyStatus(a, deps) # "blocked"
    BY <2>3
  <2>9. /\ DependencyStatus(b, deps) # "blocked"
        /\ DependencyStatus(b, deps) = "accepted" => DependencyStatus(a, deps) = "accepted"
    BY <2>4, <2>5, <2>6, <2>8, GoingOnDelays
  <2>10. DependencyStatus(b, deps) \in {"accepted", "blocked", "waiting_dependency"}
    BY DependencyCases
  <2>11. \/ DependencyStatus(b, deps) = "waiting_dependency"
         \/ /\ DependencyStatus(b, deps) = "accepted"
            /\ ~ResourceAvailable(tasks', b, tasks'[j].units, {j})
            /\ b[j] = "waiting_resource"
    BY <2>1, <2>3, <2>7, <2>9, <2>10
  <2>12. Stays(tasks', b, j)
    BY <1>2, <2>11 DEF Stays
  <2> QED
    BY <2>12 DEF b
<1> QED
  BY <1>3, <1>4

\* A new task lets no other one move, and waits only for what it must wait for.
LEMMA AppendingSettles ==
    ASSUME TeamInv, BackDeps(tasks), NEW deps, NEW units, Appended(deps, units), Settled(tasks)
    PROVE  Settled(tasks')
<1> DEFINE n == Len(tasks) + 1
           a == Status(tasks)
           b == Status(tasks')
<1>1. /\ tasks \in Seq(Task) /\ tasks' \in Seq(Task) /\ DOMAIN tasks' = DOMAIN tasks \cup {n}
      /\ DOMAIN tasks = 1..Len(tasks) /\ Len(tasks) \in Nat
      /\ \A j \in DOMAIN tasks : tasks'[j] = tasks[j]
  BY TeamParts DEF Appended
<1>2. \A j \in DOMAIN tasks : a[j] = b[j] /\ a[j] = tasks[j].status
  BY <1>1 DEF Status
<1>3. ASSUME NEW j \in DOMAIN tasks PROVE Stays(tasks', b, j)
  <2> DEFINE d == tasks[j].deps
  <2>1. Stays(tasks, a, j)
    BY SettledStays
  <2>2. d \in Seq(1..MaxTasks) /\ \A k \in DOMAIN d : d[k] \in DOMAIN tasks
    <3>1. \A k \in DOMAIN d : d[k] \in 1..j - 1
      BY DEF BackDeps
    <3>2. \A k \in 1..j - 1 : k \in DOMAIN tasks
      BY <1>1
    <3>3. tasks[j] \in Task
      BY <1>1
    <3> QED
      BY <3>1, <3>2, <3>3, TaskFields
  <2>3. DependencyStatus(a, d) = DependencyStatus(b, d)
    <3>1. \A k \in DOMAIN d : a[d[k]] = b[d[k]]
      BY <1>2, <2>2
    <3> HIDE DEF a, b, d
    <3> QED
      BY <2>2, <3>1, SameDependencies
  <2>4. ~ResourceAvailable(tasks, a, tasks[j].units, {j}) =>
            ~ResourceAvailable(tasks', b, tasks'[j].units, {j})
    BY <1>1, UnavailableStays
  <2>5. tasks'[j].deps = d /\ a[j] = b[j]
    BY <1>1, <1>2
  <2> HIDE DEF a, b
  <2> QED
    BY <2>1, <2>3, <2>4, <2>5 DEF Stays
<1>4. Stays(tasks', b, n)
  <2> DEFINE d == DependencyStatus(b, tasks'[n].deps)
             free == ResourceAvailable(tasks', b, tasks'[n].units, {n})
  <2>1. AdmitsInto(tasks, tasks', n, {})
    BY AppendedAdmits
  <2>2. tasks'[n].status = IF d = "accepted" /\ ~free THEN "waiting_resource" ELSE d
    BY <2>1, AdmissionLooks DEF ResourceAvailable
  <2>3. b[n] = tasks'[n].status
    BY <1>1 DEF Status
  <2>4. d \in {"accepted", "blocked", "waiting_dependency"}
    BY DependencyCases
  <2> DEFINE s == b[n]
  <2>5. s = IF d = "accepted" /\ ~free THEN "waiting_resource" ELSE d
    BY <2>2, <2>3
  <2> HIDE DEF d, free, b, n, s
  <2>6. CASE s \notin Waiting
    BY <2>6 DEF Stays, s
  <2>7. CASE s \in Waiting
    <3>1. d = "waiting_dependency" \/ (d = "accepted" /\ ~free /\ s = "waiting_resource")
      BY <2>4, <2>5, <2>7 DEF Waiting
    <3> QED
      BY <3>1 DEF Stays, d, free, s
  <2> QED
    BY <2>6, <2>7
<1>5. \A j \in DOMAIN tasks' : Stays(tasks', b, j)
  <2> HIDE DEF b, n
  <2> QED
    BY <1>1, <1>3, <1>4
<1> QED
  BY <1>5, SettledStays

\* One pass of activateReadyTeamTasksLocked is enough: completions, failures,
\* cancellations, rejections and new tasks leave no waiting task behind that a
\* second pass would admit or block; only a retry (handleDevTaskAction), which
\* does not run it, can.
THEOREM ActivationReachesAll == TeamSpec => SettledUnlessRetried
<1> DEFINE P == Settled(tasks) =>
                  \/ Settled(tasks')
                  \/ \E i \in DOMAIN tasks : tasks'[i].attempt > tasks[i].attempt
<1>1. TeamInv /\ BackDeps(tasks) /\ TeamInv' /\ [TeamNext]_teamVars => P
  <2> SUFFICES ASSUME TeamInv, BackDeps(tasks), TeamInv', [TeamNext]_teamVars, Settled(tasks)
               PROVE  \/ Settled(tasks')
                      \/ \E i \in DOMAIN tasks : tasks'[i].attempt > tasks[i].attempt
    OBVIOUS
  <2>1. TaskStep
    BY StepIsTaskStep
  <2>2. CASE tasks' = tasks
    BY <2>2
  <2>3. CASE Activates
    <3>1. PICK T \in Seq(Task) : \E new \in Outcomes(T) :
             Follows(T) /\ Settles(T, new) /\ tasks' = Activated(T, new)
      BY <2>3 DEF Activates
    <3>2. PICK new \in Outcomes(T) : Follows(T) /\ Settles(T, new) /\ tasks' = Activated(T, new)
      BY <3>1
    <3>3. BackDeps(T)
      BY <3>2 DEF Follows, BackDeps
    <3> QED
      BY <3>2, <3>3, ActivateSettles
  <2>4. ASSUME NEW i \in DOMAIN tasks, GoesOn(i) PROVE Settled(tasks')
    BY <2>4, GoingOnSettles
  <2>5. ASSUME NEW deps, NEW units, Appended(deps, units) PROVE Settled(tasks')
    BY <2>5, AppendingSettles
  <2>6. ASSUME NEW i \in DOMAIN tasks, Retried(i) PROVE tasks'[i].attempt > tasks[i].attempt
    <3>1. tasks[i] \in Task
      BY TeamParts
    <3>2. tasks[i].attempt \in Nat
      BY <3>1, TaskFields
    <3>3. tasks'[i].attempt = tasks[i].attempt + 1
      BY <2>6 DEF Retried
    <3> QED
      BY <3>2, <3>3
  <2> QED
    BY <2>1, <2>2, <2>3, <2>4, <2>5, <2>6 DEF TaskStep
<1> HIDE DEF P
<1>2. P => (Settled(tasks) =>
              \/ Settled(tasks')
              \/ \E i \in DOMAIN tasks : tasks'[i].attempt > tasks[i].attempt)
  BY DEF P
<1> QED
  BY <1>1, <1>2, BackDepsInvariance, PTL DEF TeamSpec, SettledUnlessRetried

=============================================================================
