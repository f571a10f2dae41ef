-------------------------- MODULE ChunkUpload_proofs --------------------------
(***************************************************************************)
(* Proofs about ChunkUpload, for any number of chunks, retries and         *)
(* requests in the node.                                                   *)
(*                                                                         *)
(* FileInv holds however requests overlap: the file that somebody else     *)
(* made is never the part file, the copy or open in a handler, and stands  *)
(* at the destination of a handler that has looked only if it was made     *)
(* since.  WholeInv holds until a chunk is sent again beside a request     *)
(* that still runs: then a single handler runs, it serves the client's     *)
(* chunk, and the part file has all chunks before this one.                *)
(***************************************************************************)
EXTENDS ChunkUpload, FiniteSetTheorems, TLAPS

Places == Inodes \cup {NoInode}

Request == [at : {"free"} \cup Steps \cup Answers, chunk : Chunks, file : Places, copy : Places]

Client == [at : {"idle", "send", "wait", "backoff", "done"}, chunk : Chunks, retries : Nat,
           overwrite : BOOLEAN, awaits : Handlers \cup {NoHandler},
           result : {"none", "success", "failed", "cancelled"}]

UploadTypes ==
    /\ client \in Client
    /\ handler \in [Handlers -> Request]
    /\ contents \in [Inodes -> SUBSET (0 .. ChunkCount + 1)]
    /\ link \in [Names -> Places]
    /\ crossDevice \in BOOLEAN /\ committed \in BOOLEAN /\ overlap \in BOOLEAN
    /\ raced \in BOOLEAN
    /\ \A h \in Handlers :
         /\ handler[h].at \in {"truncate", "write", "copy"} => handler[h].file # NoInode
         /\ handler[h].at = "copy" => handler[h].copy # NoInode

\* No file, or none that somebody else made.
Unmarked(C, i) == i = NoInode \/ ChunkCount + 1 \notin C[i]

\* Only the destination can be a file of somebody else.
OthersApart ==
    /\ Unmarked(contents, link["part"]) /\ Unmarked(contents, link["tmp"])
    /\ \A h \in Handlers : /\ Unmarked(contents, handler[h].file)
                           /\ Unmarked(contents, handler[h].copy)

Late == {"move", "tmp", "copy", "rename"}

\* A handler that goes on after the check has not seen somebody else's file.
CheckHolds ==
    ~client.overwrite /\ ~raced =>
        \A h \in Handlers : handler[h].at \in Late => Unmarked(contents, link["dst"])

FileInv == UploadTypes /\ OthersApart /\ CheckHolds

\* The chunks before c.
Before(c) == 0 .. c - 1

\* One handler runs at most, for the chunk that the client is at.
OneRuns ==
    /\ \A g, h \in Handlers : Running(g) /\ Running(h) => g = h
    /\ \A h \in Handlers : Running(h) =>
         /\ handler[h].chunk = client.chunk
         /\ client.at # "idle"
         /\ client.at = "wait" => client.awaits = h
         /\ client.at = "send" => client.retries > 0

AwaitsItsChunk ==
    /\ client.at = "wait" <=> client.awaits # NoHandler
    /\ client.at = "wait" => /\ handler[client.awaits].chunk = client.chunk
                             /\ handler[client.awaits].at # "free"

LinksDiffer == \A m, n \in Names : m # n /\ link[m] = link[n] => link[m] = NoInode

\* The part file before the commit.
PartGrows ==
    ~committed =>
        /\ client.chunk > 0 => link["part"] # NoInode
        /\ link["part"] # NoInode =>
             /\ Before(client.chunk) \subseteq contents[link["part"]]
             /\ contents[link["part"]] \subseteq Before(client.chunk + 1)

\* What a running handler has done.
DoneBy(h) ==
    /\ handler[h].at \in Steps => (committed <=> handler[h].at \in {"remove", "clean"})
    /\ handler[h].at = "truncate" => handler[h].chunk = 0
    /\ handler[h].at \in {"truncate", "write", "copy"} => handler[h].file = link["part"]
    /\ handler[h].at \in {"size", "exists", "move", "tmp", "copy", "rename"} =>
         /\ client.chunk + 1 = ChunkCount
         /\ link["part"] # NoInode /\ contents[link["part"]] = Whole
    /\ handler[h].at = "copy" => handler[h].copy = link["tmp"]
    /\ handler[h].at = "rename" => link["tmp"] # NoInode /\ contents[link["tmp"]] = Whole

HandlerDone == \A h \in Handlers : DoneBy(h)

\* What the answer to the client says.
AnswerTrue ==
    client.at = "wait" /\ handler[client.awaits].at = "200" =>
        IF client.chunk + 1 = ChunkCount
        THEN committed
        ELSE /\ ~committed /\ link["part"] # NoInode
             /\ contents[link["part"]] = Before(client.chunk + 1)

\* The commit and the destination.
CommitWhole ==
    /\ committed =>
         /\ link["dst"] # NoInode /\ contents[link["dst"]] = Whole
         /\ client.chunk + 1 = ChunkCount
         /\ client.at # "idle"
         /\ client.at = "send" => client.retries > 0
    /\ link["dst"] # NoInode => contents[link["dst"]] \in {OldFile, OthersFile, Whole}
    /\ client.result = "success" => committed

InTurn ==
    /\ OneRuns
    /\ AwaitsItsChunk
    /\ LinksDiffer
    /\ PartGrows
    /\ HandlerDone
    /\ AnswerTrue
    /\ CommitWhole

WholeInv == ~overlap => InTurn

-----------------------------------------------------------------------------
(* Files                                                                   *)

\* A table has at most as many values as entries.
LEMMA ImageSize ==
    ASSUME NEW S, IsFiniteSet(S), NEW f, NEW D, \A x \in D : \E s \in S : x = f[s],
           \A s \in S : f[s] \in D
    PROVE  IsFiniteSet(D) /\ Cardinality(D) <= Cardinality(S)
<1> DEFINE g == [s \in S |-> f[s]]
<1>1. g \in Surjection(S, D)
  BY DEF Surjection
<1> HIDE DEF g
<1> QED
  BY <1>1, FS_Surjection

\* A set of numbers has a least one.
LEMMA LeastNumber ==
    ASSUME NEW S \in SUBSET Nat, S # {}
    PROVE  Min(S) \in S
<1> DEFINE less == {ss \in Nat \X Nat : ss[1] < ss[2]}
<1>1. IsWellFoundedOn(less, Nat)
  BY NatLessThanWellFounded DEF OpToRel
<1>2. \E n \in S : \A m \in S : ~(<<m, n>> \in less)
  <2> HIDE DEF less
  <2> QED
    BY <1>1, WFMin
<1>3. PICK n \in S : \A m \in S : ~(<<m, n>> \in less)
  BY <1>2
<1>4. \A m \in S : n <= m
  <2> SUFFICES ASSUME NEW m \in S PROVE n <= m
    OBVIOUS
  <2>1. m \in Nat /\ n \in Nat /\ (m < n => <<m, n>> \in less)
    OBVIOUS
  <2> HIDE DEF less
  <2> QED
    BY <1>3, <2>1
<1> QED
  BY <1>4 DEF Min

\* There is always a file number that nobody uses.
LEMMA NewInodeIsFree ==
    ASSUME UploadTypes
    PROVE  NewInode \in Inodes /\ ~InUse(NewInode)
<1> DEFINE N == {link[n] : n \in Names}
           F == {handler[h].file : h \in Handlers}
           G == {handler[h].copy : h \in Handlers}
           U == N \cup F \cup G
           f == [h \in Handlers |-> handler[h].file]
           g == [h \in Handlers |-> handler[h].copy]
           k == Cardinality(Handlers)
           A == {i \in Inodes : ~InUse(i)}
<1>1. IsFiniteSet(Handlers) /\ k \in Nat
  BY UploadAssumption, FS_CardinalityType
<1>2. IsFiniteSet(Names) /\ Cardinality(Names) <= 3
  <2>1. IsFiniteSet({"part"}) /\ Cardinality({"part"}) = 1
    BY FS_Singleton
  <2>2. IsFiniteSet({"part"} \cup {"tmp"}) /\ Cardinality({"part"} \cup {"tmp"}) = 2
    BY <2>1, FS_AddElement
  <2>3. IsFiniteSet(({"part"} \cup {"tmp"}) \cup {"dst"})
        /\ Cardinality(({"part"} \cup {"tmp"}) \cup {"dst"}) = 3
    BY <2>2, FS_AddElement
  <2>4. Names = ({"part"} \cup {"tmp"}) \cup {"dst"}
    BY DEF Names
  <2> QED
    BY <2>3, <2>4
<1>3. IsFiniteSet(N) /\ Cardinality(N) <= 3
  <2>1. (\A x \in N : \E s \in Names : x = link[s]) /\ \A s \in Names : link[s] \in N
    OBVIOUS
  <2> HIDE DEF N
  <2>2. IsFiniteSet(N) /\ Cardinality(N) <= Cardinality(Names)
    BY <1>2, <2>1, ImageSize
  <2> QED
    BY <1>2, <2>2, FS_CardinalityType
<1>4. IsFiniteSet(F) /\ Cardinality(F) <= k
  <2>1. (\A x \in F : \E h \in Handlers : x = f[h]) /\ \A h \in Handlers : f[h] \in F
    OBVIOUS
  <2> HIDE DEF F, f
  <2> QED
    BY <1>1, <2>1, ImageSize
<1>5. IsFiniteSet(G) /\ Cardinality(G) <= k
  <2>1. (\A x \in G : \E h \in Handlers : x = g[h]) /\ \A h \in Handlers : g[h] \in G
    OBVIOUS
  <2> HIDE DEF G, g
  <2> QED
    BY <1>1, <2>1, ImageSize
<1>6. IsFiniteSet(U) /\ Cardinality(U) <= 3 + k + k
  <2> HIDE DEF N, F, G
  <2>1. ASSUME NEW S, NEW T, IsFiniteSet(S), IsFiniteSet(T)
        PROVE  /\ IsFiniteSet(S \cup T) /\ Cardinality(S) \in Nat /\ Cardinality(T) \in Nat
               /\ Cardinality(S \cup T) <= Cardinality(S) + Cardinality(T)
    <3>1. S \cap T \in SUBSET S
      OBVIOUS
    <3>2. IsFiniteSet(S \cap T)
      BY <2>1, <3>1, FS_Subset
    <3>3. Cardinality(S \cap T) \in Nat /\ Cardinality(S) \in Nat /\ Cardinality(T) \in Nat
      BY <2>1, <3>2, FS_CardinalityType
    <3>4. /\ IsFiniteSet(S \cup T)
          /\ Cardinality(S \cup T) = Cardinality(S) + Cardinality(T) - Cardinality(S \cap T)
      BY <2>1, FS_Union
    <3> QED
      BY <3>3, <3>4
  <2>2. IsFiniteSet(N \cup F) /\ Cardinality(N \cup F) <= 3 + k
    BY <1>1, <1>3, <1>4, <2>1
  <2>3. IsFiniteSet(U) /\ Cardinality(U) <= Cardinality(N \cup F) + Cardinality(G)
        /\ Cardinality(N \cup F) \in Nat /\ Cardinality(G) \in Nat
    BY <1>5, <2>1, <2>2
  <2> QED
    <3>1. Cardinality(U) \in Nat
      BY <2>3, FS_CardinalityType
    <3> HIDE DEF U, k
    <3> QED
      BY <1>1, <1>5, <2>2, <2>3, <3>1
<1>7. \A i \in Inodes : InUse(i) => i \in U
  BY DEF InUse
<1> HIDE DEF U
<1>8. A # {}
  <2> SUFFICES ASSUME A = {} PROVE FALSE
    OBVIOUS
  <2>1. Inodes \in SUBSET U
    BY <1>7
  <2>2. Cardinality(Inodes) <= Cardinality(U)
    BY <1>6, <2>1, FS_Subset
  <2>3. Cardinality(Inodes) = 4 + 2 * k
    <3>1. 4 + 2 * k \in Int /\ 1 \in Int /\ ~(1 > 4 + 2 * k)
      BY <1>1
    <3>2. Cardinality(1 .. (4 + 2 * k)) = (4 + 2 * k) - 1 + 1
      BY <3>1, FS_Interval
    <3> QED
      BY <1>1, <3>2 DEF Inodes
  <2>4. Cardinality(U) \in Nat
    BY <1>6, FS_CardinalityType
  <2> QED
    BY <1>1, <1>6, <2>2, <2>3, <2>4
<1>9. A \in SUBSET Nat
  BY <1>1 DEF Inodes
<1> HIDE DEF A
<1>10. Min(A) \in A
  BY <1>8, <1>9, LeastNumber
<1> QED
  BY <1>10 DEF A, NewInode

-----------------------------------------------------------------------------
(* What the steps do to the requests and to the client.                    *)

\* A request goes on to another step.
Moved(h, at, file, copy) ==
    /\ handler' \in [Handlers -> Request]
    /\ \A g \in Handlers : g # h => handler'[g] = handler[g]
    /\ handler'[h].at = at /\ handler'[h].chunk = handler[h].chunk
    /\ handler'[h].file = file /\ handler'[h].copy = copy

\* A request is gone.
Gone(h) ==
    /\ handler' \in [Handlers -> Request]
    /\ \A g \in Handlers : g # h => handler'[g] = handler[g]
    /\ handler'[h].at = "free" /\ handler'[h].file = NoInode /\ handler'[h].copy = NoInode

\* No inode is not an inode.
LEMMA PlaceFacts ==
    /\ NoInode \notin Inodes /\ NoInode \in Places
    /\ \A i \in Inodes : i \in Places /\ i # NoInode
BY DEF Places, Inodes, NoInode

\* One request changes, the others do not.
LEMMA ReplacedRequest ==
    ASSUME handler \in [Handlers -> Request], NEW h \in Handlers, NEW r \in Request,
           handler' = [handler EXCEPT ![h] = r]
    PROVE  /\ handler' \in [Handlers -> Request]
           /\ \A g \in Handlers : g # h => handler'[g] = handler[g]
           /\ handler'[h] = r
OBVIOUS

\* A request of the same chunk that replaces the old one is a move.
LEMMA RequestMoves ==
    ASSUME handler \in [Handlers -> Request], NEW h \in Handlers, NEW r \in Request,
           r.chunk = handler[h].chunk, handler' = [handler EXCEPT ![h] = r]
    PROVE  Moved(h, r.at, r.file, r.copy)
BY ReplacedRequest DEF Moved

\* A free handler holds nothing.
LEMMA FreeFields ==
    /\ Free \in Request /\ Free.at = "free" /\ Free.chunk = 0
    /\ Free.file = NoInode /\ Free.copy = NoInode
BY UploadAssumption, PlaceFacts DEF Free, Request, Chunks

\* A request that goes on closes its files.
LEMMA GoToMoves ==
    ASSUME UploadTypes, NEW h \in Handlers, NEW at \in Steps \cup Answers, GoTo(h, at)
    PROVE  Moved(h, at, NoInode, NoInode)
<1> DEFINE r == [Free EXCEPT !.at = at, !.chunk = handler[h].chunk]
<1>1. handler \in [Handlers -> Request] /\ handler[h].chunk \in Chunks
  BY DEF UploadTypes, Request
<1>2. handler' = [handler EXCEPT ![h] = r]
  BY DEF GoTo
<1>3. r \in Request /\ r.at = at /\ r.chunk = handler[h].chunk /\ r.file = NoInode /\ r.copy = NoInode
  BY <1>1, FreeFields DEF Request
<1> HIDE DEF r
<1> QED
  BY <1>1, <1>2, <1>3, RequestMoves

\* A handler that becomes free is a request that is gone.
LEMMA FreeGone ==
    ASSUME UploadTypes, NEW h \in Handlers, handler' = [handler EXCEPT ![h] = Free]
    PROVE  Gone(h)
BY FreeFields, ReplacedRequest DEF UploadTypes, Gone

\* The steps that keep a file open.
LEMMA RequestEdited ==
    ASSUME UploadTypes, NEW h \in Handlers, NEW at \in Steps \cup Answers, NEW file \in Places,
           NEW copy \in Places
    PROVE  /\ handler' = [handler EXCEPT ![h].at = at, ![h].file = file, ![h].copy = copy]
               => Moved(h, at, file, copy)
           /\ handler' = [handler EXCEPT ![h].file = file, ![h].at = at]
               => Moved(h, at, file, handler[h].copy)
           /\ handler' = [handler EXCEPT ![h].at = at]
               => Moved(h, at, handler[h].file, handler[h].copy)
<1> DEFINE r == [handler[h] EXCEPT !.at = at, !.file = file, !.copy = copy]
           s == [handler[h] EXCEPT !.file = file, !.at = at]
<1>1. handler \in [Handlers -> Request] /\ handler[h] \in Request
  BY DEF UploadTypes
<1>2. ASSUME handler' = [handler EXCEPT ![h].at = at, ![h].file = file, ![h].copy = copy]
      PROVE  Moved(h, at, file, copy)
  <2>1. handler' = [handler EXCEPT ![h] = r]
    BY <1>1, <1>2
  <2>2. r \in Request /\ r.at = at /\ r.chunk = handler[h].chunk /\ r.file = file /\ r.copy = copy
    BY <1>1 DEF Request
  <2> HIDE DEF r
  <2> QED
    BY <1>1, <2>1, <2>2, RequestMoves
<1>3. ASSUME handler' = [handler EXCEPT ![h].file = file, ![h].at = at]
      PROVE  Moved(h, at, file, handler[h].copy)
  <2>1. handler' = [handler EXCEPT ![h] = s]
    BY <1>1, <1>3
  <2>2. /\ s \in Request /\ s.at = at /\ s.chunk = handler[h].chunk /\ s.file = file
        /\ s.copy = handler[h].copy
    BY <1>1 DEF Request
  <2> HIDE DEF s
  <2> QED
    BY <1>1, <2>1, <2>2, RequestMoves
<1>4. handler' = [handler EXCEPT ![h].at = at] => Moved(h, at, handler[h].file, handler[h].copy)
  BY <1>1 DEF Request, Moved
<1> QED
  BY <1>2, <1>3, <1>4

\* What the client makes of an answer.
Judged(status) ==
    \/ /\ status = "200" /\ client.chunk + 1 < ChunkCount
       /\ client'.at = "send" /\ client'.chunk = client.chunk + 1 /\ client'.retries = 0
       /\ client'.result = client.result
    \/ /\ status = "200" /\ client.chunk + 1 = ChunkCount
       /\ client'.at = "done" /\ client'.chunk = client.chunk /\ client'.result = "success"
    \/ /\ client'.at = "backoff" /\ client'.chunk = client.chunk
       /\ client'.result = client.result
    \/ /\ client'.at = "done" /\ client'.chunk = client.chunk /\ client'.result = "failed"

\* The types of the client.
LEMMA ClientFields ==
    ASSUME UploadTypes
    PROVE  /\ client.chunk \in Chunks /\ client.chunk \in Nat /\ client.retries \in Nat
           /\ client.overwrite \in BOOLEAN /\ client.awaits \in Handlers \cup {NoHandler}
           /\ ChunkCount \in Nat /\ client.chunk < ChunkCount
BY UploadAssumption DEF UploadTypes, Client, Chunks

\* Whatever the answer, the client waits for nobody afterwards.
LEMMA SettleJudges ==
    ASSUME UploadTypes, NEW status, Settle(status)
    PROVE  /\ client' \in Client /\ client'.overwrite = client.overwrite
           /\ client'.awaits = NoHandler /\ Judged(status)
<1>1. client \in Client
  BY DEF UploadTypes
<1>2. CASE /\ Accepted(status) /\ client.chunk + 1 < ChunkCount
           /\ client' = [client EXCEPT !.at = "send", !.awaits = NoHandler,
                                       !.chunk = @ + 1, !.retries = 0]
  <2>1. client.chunk + 1 \in Chunks
    BY <1>2, ClientFields DEF Chunks
  <2> QED
    BY <1>1, <1>2, <2>1 DEF Client, Judged, Accepted
<1>3. CASE /\ Accepted(status) /\ client.chunk + 1 = ChunkCount /\ client' = Ended("success")
  BY <1>1, <1>3 DEF Client, Judged, Accepted, Ended
<1>4. CASE client' = [client EXCEPT !.at = "backoff", !.awaits = NoHandler]
  BY <1>1, <1>4 DEF Client, Judged
<1>5. CASE client' = Ended("failed")
  BY <1>1, <1>5 DEF Client, Judged, Ended
<1> QED
  BY <1>2, <1>3, <1>4, <1>5 DEF Settle

-----------------------------------------------------------------------------
(* What the steps do to the files.                                         *)

\* The files are as they were.
SameFiles == contents' = contents /\ link' = link

\* The inode i now has the contents x.
Stored(i, x) ==
    /\ contents' \in [Inodes -> SUBSET (0 .. ChunkCount + 1)]
    /\ contents'[i] = x /\ \A j \in Inodes : j # i => contents'[j] = contents[j]

\* The name n is now the inode i.
Linked(n, i) ==
    /\ link' \in [Names -> Places]
    /\ link'[n] = i /\ \A m \in Names : m # n => link'[m] = link[m]

\* A write keeps the types of the files.
LEMMA StoreShape ==
    ASSUME UploadTypes, NEW i \in Inodes, NEW x \in SUBSET (0 .. ChunkCount + 1),
           contents' = [contents EXCEPT ![i] = x]
    PROVE  Stored(i, x)
BY DEF UploadTypes, Stored

\* A new name keeps the types of the files.
LEMMA LinkShape ==
    ASSUME UploadTypes, NEW n \in Names, NEW i \in Places, link' = [link EXCEPT ![n] = i]
    PROVE  Linked(n, i)
BY DEF UploadTypes, Linked

\* A file opened by name is the one that has the name, or one nobody uses.
LEMMA OpenedShape ==
    ASSUME UploadTypes, NEW n \in Names
    PROVE  /\ Opened(n) \in Inodes /\ Opened(n) \in Places /\ Opened(n) # NoInode
           /\ IF link[n] = NoInode THEN Opened(n) = NewInode /\ ~InUse(Opened(n))
                                   ELSE Opened(n) = link[n]
<1>1. NewInode \in Inodes /\ ~InUse(NewInode)
  BY NewInodeIsFree
<1>2. link[n] \in Places
  BY DEF UploadTypes
<1> QED
  BY <1>1, <1>2, PlaceFacts DEF Opened, Places

\* The three names of an upload.
LEMMA NameFacts ==
    "part" \in Names /\ "tmp" \in Names /\ "dst" \in Names
    /\ \A n \in Names : n = "part" \/ n = "tmp" \/ n = "dst"
BY DEF Names

\* What opening the part file changes.
LEMMA OpenShape ==
    ASSUME UploadTypes, NEW h \in Handlers, Open(h)
    PROVE  /\ Moved(h, IF handler[h].chunk = 0 THEN "truncate" ELSE "write", Opened("part"),
                    handler[h].copy)
           /\ Linked("part", Opened("part"))
           /\ IF link["part"] = NoInode THEN Stored(Opened("part"), {}) ELSE contents' = contents
           /\ handler[h].at = "open"
           /\ UNCHANGED <<client, crossDevice, stopSent, committed, overlap, raced>>
<1>1. Opened("part") \in Inodes /\ Opened("part") \in Places
  BY NameFacts, OpenedShape
<1>2. Moved(h, IF handler[h].chunk = 0 THEN "truncate" ELSE "write", Opened("part"), handler[h].copy)
  <2> DEFINE at == IF handler[h].chunk = 0 THEN "truncate" ELSE "write"
  <2>1. at \in Steps \cup Answers
    BY DEF Steps
  <2>2. handler' = [handler EXCEPT ![h].file = Opened("part"), ![h].at = at]
    BY DEF Open
  <2>3. handler[h].copy \in Places
    BY DEF UploadTypes, Request
  <2> HIDE DEF at
  <2> QED
    BY <1>1, <2>1, <2>2, <2>3, RequestEdited DEF at
<1>3. Linked("part", Opened("part"))
  BY <1>1, NameFacts, LinkShape DEF Open
<1>4. CASE link["part"] = NoInode
  <2>1. contents' = [contents EXCEPT ![Opened("part")] = {}]
    BY <1>4 DEF Open, Opened
  <2>2. Stored(Opened("part"), {})
    BY <1>1, <2>1, StoreShape
  <2> QED
    BY <1>2, <1>3, <1>4, <2>2 DEF Open, history
<1>5. CASE link["part"] # NoInode
  BY <1>2, <1>3, <1>5 DEF Open, history
<1> QED
  BY <1>4, <1>5

\* What emptying the part file for chunk 0 changes.
LEMMA TruncateShape ==
    ASSUME UploadTypes, NEW h \in Handlers, Truncate(h)
    PROVE  /\ Moved(h, "write", handler[h].file, handler[h].copy)
           /\ handler[h].file \in Inodes /\ Stored(handler[h].file, {})
           /\ handler[h].at = "truncate"
           /\ UNCHANGED <<client, link, crossDevice, stopSent, committed, overlap, raced>>
<1>1. handler[h].file \in Inodes /\ handler[h].file \in Places /\ handler[h].copy \in Places
  BY DEF Truncate, UploadTypes, Request, Places
<1>2. Moved(h, "write", handler[h].file, handler[h].copy)
  <2>1. "write" \in Steps \cup Answers
    BY DEF Steps
  <2> QED
    BY <1>1, <2>1, RequestEdited DEF Truncate
<1>3. Stored(handler[h].file, {})
  <2>1. {} \in SUBSET (0 .. ChunkCount + 1)
    OBVIOUS
  <2>2. contents' = [contents EXCEPT ![handler[h].file] = {}]
    BY DEF Truncate
  <2> QED
    BY <1>1, <2>1, <2>2, StoreShape
<1> QED
  BY <1>1, <1>2, <1>3 DEF Truncate, history

\* What writing a chunk changes.
LEMMA WriteShape ==
    ASSUME UploadTypes, NEW h \in Handlers, Write(h)
    PROVE  /\ Moved(h, IF handler[h].chunk + 1 = ChunkCount THEN "size" ELSE "200",
                    NoInode, NoInode)
           /\ handler[h].file \in Inodes /\ handler[h].chunk \in Chunks
           /\ Stored(handler[h].file, contents[handler[h].file] \cup {handler[h].chunk})
           /\ handler[h].at = "write"
           /\ UNCHANGED <<client, link, crossDevice, stopSent, committed, overlap, raced>>
<1>1. handler[h].file \in Inodes /\ handler[h].chunk \in Chunks
  BY DEF Write, UploadTypes, Request, Places
<1>2. Moved(h, IF handler[h].chunk + 1 = ChunkCount THEN "size" ELSE "200", NoInode, NoInode)
  <2>1. "size" \in Steps \cup Answers /\ "200" \in Steps \cup Answers
    BY DEF Steps, Answers
  <2>2. CASE handler[h].chunk + 1 = ChunkCount
    BY <2>1, <2>2, GoToMoves DEF Write
  <2>3. CASE handler[h].chunk + 1 # ChunkCount
    BY <2>1, <2>3, GoToMoves DEF Write, Answer
  <2> QED
    BY <2>2, <2>3
<1>3. Stored(handler[h].file, contents[handler[h].file] \cup {handler[h].chunk})
  <2>1. contents[handler[h].file] \cup {handler[h].chunk} \in SUBSET (0 .. ChunkCount + 1)
    BY <1>1, UploadAssumption DEF UploadTypes, Chunks
  <2>2. contents' = [contents EXCEPT ![handler[h].file]
                        = contents[handler[h].file] \cup {handler[h].chunk}]
    BY DEF Write, Written
  <2> QED
    BY <1>1, <2>1, <2>2, StoreShape
<1> QED
  BY <1>1, <1>2, <1>3 DEF Write, history

\* What the checks of size and destination change.
LEMMA CheckShape ==
    ASSUME UploadTypes, NEW h \in Handlers, CheckSize(h) \/ CheckExists(h)
    PROVE  /\ \E at \in {"400", "409", "exists", "move"} :
                /\ Moved(h, at, NoInode, NoInode)
                /\ at \in {"exists", "move"} => handler[h].at \in {"size", "exists"}
                /\ at = "move" => client.overwrite \/ link["dst"] = NoInode
           /\ handler[h].at \in {"size", "exists"} /\ SameFiles
           /\ UNCHANGED <<client, crossDevice, stopSent, committed, overlap, raced>>
<1>1. \A at \in {"400", "409", "exists", "move"} : at \in Steps \cup Answers
  BY DEF Steps, Answers
<1>2. \A at \in {"400", "409", "exists", "move"} : GoTo(h, at) => Moved(h, at, NoInode, NoInode)
  BY <1>1, GoToMoves
<1>3. CASE CheckSize(h)
  BY <1>2, <1>3 DEF CheckSize, Answer, SameFiles, files, history
<1>4. CASE CheckExists(h)
  BY <1>2, <1>4 DEF CheckExists, Answer, DestinationExists, SameFiles, files, history
<1> QED
  BY <1>3, <1>4

\* The destination becomes the file that had the name.
Commits(name) ==
    /\ link' \in [Names -> Places]
    /\ link'["dst"] = link[name] /\ link'[name] = NoInode
    /\ \A m \in Names : m # name /\ m # "dst" => link'[m] = link[m]
    /\ committed' = TRUE

\* A rename onto the destination.
LEMMA CommitShape ==
    ASSUME UploadTypes, NEW name \in {"part", "tmp"}, Commit(name)
    PROVE  Commits(name)
<1>1. link \in [Names -> Places] /\ name \in Names /\ name # "dst" /\ "dst" \in Names
  BY DEF UploadTypes, Names
<1>2. link[name] \in Places
  BY <1>1
<1> QED
  BY <1>1, <1>2, PlaceFacts DEF Commit, Commits

\* What the rename in moveChunkIntoPlace changes.
LEMMA MoveShape ==
    ASSUME UploadTypes, NEW h \in Handlers, Move(h)
    PROVE  /\ \/ Moved(h, "500", NoInode, NoInode) /\ UNCHANGED <<link, committed>>
              \/ Moved(h, "tmp", NoInode, NoInode) /\ UNCHANGED <<link, committed>>
              \/ /\ Moved(h, "clean", NoInode, NoInode) /\ Commits("part")
                 /\ link["part"] # NoInode
           /\ handler[h].at = "move"
           /\ UNCHANGED <<client, contents, crossDevice, stopSent, overlap, raced>>
<1>1. "500" \in Steps \cup Answers /\ "tmp" \in Steps \cup Answers /\ "clean" \in Steps \cup Answers
  BY DEF Steps, Answers
<1>2. /\ GoTo(h, "500") => Moved(h, "500", NoInode, NoInode)
      /\ GoTo(h, "tmp") => Moved(h, "tmp", NoInode, NoInode)
      /\ GoTo(h, "clean") => Moved(h, "clean", NoInode, NoInode)
  BY <1>1, GoToMoves
<1>3. Commit("part") => Commits("part")
  BY CommitShape
<1> QED
  BY <1>2, <1>3 DEF Move, Answer

\* What opening the copy of a cross-device move changes.
LEMMA OpenCopyShape ==
    ASSUME UploadTypes, NEW h \in Handlers, OpenCopy(h)
    PROVE  /\ \/ Moved(h, "500", NoInode, NoInode) /\ SameFiles
              \/ /\ Moved(h, "copy", link["part"], Opened("tmp"))
                 /\ link["part"] # NoInode
                 /\ Linked("tmp", Opened("tmp")) /\ Stored(Opened("tmp"), {})
           /\ handler[h].at = "tmp"
           /\ UNCHANGED <<client, crossDevice, stopSent, committed, overlap, raced>>
<1>1. Opened("tmp") \in Inodes /\ Opened("tmp") \in Places /\ link["part"] \in Places
  BY NameFacts, OpenedShape DEF UploadTypes
<1>2. "500" \in Steps \cup Answers /\ "copy" \in Steps \cup Answers
  BY DEF Steps, Answers
<1>3. CASE Answer(h, "500") /\ UNCHANGED files
  <2>1. Moved(h, "500", NoInode, NoInode)
    BY <1>2, <1>3, GoToMoves DEF Answer
  <2> QED
    BY <1>3, <2>1 DEF OpenCopy, SameFiles, files, history
<1>4. CASE /\ link["part"] # NoInode
           /\ link' = [link EXCEPT !["tmp"] = Opened("tmp")]
           /\ contents' = [contents EXCEPT ![Opened("tmp")] = {}]
           /\ handler' = [handler EXCEPT ![h].at = "copy", ![h].file = link["part"],
                                         ![h].copy = Opened("tmp")]
  <2>1. Moved(h, "copy", link["part"], Opened("tmp"))
    BY <1>1, <1>2, <1>4, RequestEdited
  <2>2. Linked("tmp", Opened("tmp"))
    BY <1>1, <1>4, NameFacts, LinkShape
  <2>3. Stored(Opened("tmp"), {})
    BY <1>1, <1>4, StoreShape
  <2> QED
    BY <1>4, <2>1, <2>2, <2>3 DEF OpenCopy, history
<1> QED
  BY <1>3, <1>4 DEF OpenCopy

\* What copying the part file changes.
LEMMA CopyShape ==
    ASSUME UploadTypes, NEW h \in Handlers, Copy(h)
    PROVE  /\ Moved(h, "rename", NoInode, NoInode)
           /\ handler[h].file \in Inodes /\ handler[h].copy \in Inodes
           /\ Stored(handler[h].copy, contents[handler[h].file])
           /\ handler[h].at = "copy"
           /\ UNCHANGED <<client, link, crossDevice, stopSent, committed, overlap, raced>>
<1>1. handler[h].file \in Inodes /\ handler[h].copy \in Inodes
  BY DEF Copy, UploadTypes, Request, Places
<1>2. contents[handler[h].file] \in SUBSET (0 .. ChunkCount + 1)
  BY <1>1 DEF UploadTypes
<1>3. Stored(handler[h].copy, contents[handler[h].file])
  BY <1>1, <1>2, StoreShape DEF Copy
<1>4. "rename" \in Steps \cup Answers
  BY DEF Steps
<1>5. Moved(h, "rename", NoInode, NoInode)
  BY <1>4, GoToMoves DEF Copy
<1> QED
  BY <1>1, <1>3, <1>5 DEF Copy, history

\* What renaming the copy changes.
LEMMA RenameCopyShape ==
    ASSUME UploadTypes, NEW h \in Handlers, RenameCopy(h)
    PROVE  /\ \/ Moved(h, "500", NoInode, NoInode) /\ UNCHANGED <<link, committed>>
              \/ /\ Moved(h, "remove", NoInode, NoInode) /\ Commits("tmp")
                 /\ link["tmp"] # NoInode
           /\ handler[h].at = "rename"
           /\ UNCHANGED <<client, contents, crossDevice, stopSent, overlap, raced>>
<1>1. "500" \in Steps \cup Answers /\ "remove" \in Steps \cup Answers
  BY DEF Steps, Answers
<1>2. /\ GoTo(h, "500") => Moved(h, "500", NoInode, NoInode)
      /\ GoTo(h, "remove") => Moved(h, "remove", NoInode, NoInode)
  BY <1>1, GoToMoves
<1>3. Commit("tmp") => Commits("tmp")
  BY CommitShape
<1> QED
  BY <1>2, <1>3 DEF RenameCopy, Answer

\* The steps that only unlink files.
Unlinks ==
    /\ link' \in [Names -> Places]
    /\ \A n \in Names : link'[n] = link[n] \/ link'[n] = NoInode
    /\ link'["dst"] = link["dst"]

\* What removing the part file after the commit changes.
LEMMA EndShape ==
    ASSUME UploadTypes, NEW h \in Handlers, RemoveSource(h) \/ Clean(h)
    PROVE  /\ \E at \in {"500", "clean", "200"} :
                /\ Moved(h, at, NoInode, NoInode)
                /\ at = "200" => handler[h].at = "clean"
           /\ handler[h].at \in {"remove", "clean"} /\ Unlinks
           /\ UNCHANGED <<client, contents, crossDevice, stopSent, committed, overlap, raced>>
<1>1. \A at \in {"500", "clean", "200"} : at \in Steps \cup Answers
  BY DEF Steps, Answers
<1>2. \A at \in {"500", "clean", "200"} : GoTo(h, at) => Moved(h, at, NoInode, NoInode)
  BY <1>1, GoToMoves
<1>3. link' = [link EXCEPT !["part"] = NoInode]
  BY DEF RemoveSource, Clean
<1>4. Unlinks
  <2>1. Linked("part", NoInode)
    BY <1>3, PlaceFacts, NameFacts, LinkShape
  <2> QED
    BY <2>1, NameFacts DEF Linked, Unlinks
<1>5. CASE RemoveSource(h)
  BY <1>2, <1>4, <1>5 DEF RemoveSource, Answer, history
<1>6. CASE Clean(h)
  BY <1>2, <1>4, <1>6 DEF Clean, Answer, history
<1> QED
  BY <1>5, <1>6

\* What a failing system call changes.
LEMMA FailsShape ==
    ASSUME UploadTypes, NEW h \in Handlers, Fails(h)
    PROVE  /\ Moved(h, "500", NoInode, NoInode)
           /\ Unlinks /\ link'["part"] = link["part"]
           /\ handler[h].at \in Steps
           /\ UNCHANGED <<client, contents, crossDevice, stopSent, committed, overlap, raced>>
<1>1. "500" \in Steps \cup Answers
  BY DEF Answers
<1>2. Moved(h, "500", NoInode, NoInode)
  BY <1>1, GoToMoves DEF Fails, Answer
<1>3. Unlinks /\ link'["part"] = link["part"]
  <2>1. CASE link' = link
    BY <2>1, NameFacts DEF Unlinks, UploadTypes
  <2>2. CASE link' = [link EXCEPT !["tmp"] = NoInode]
    <3>1. Linked("tmp", NoInode)
      BY <2>2, PlaceFacts, NameFacts, LinkShape
    <3> QED
      BY <3>1, NameFacts DEF Linked, Unlinks
  <2> QED
    BY <2>1, <2>2 DEF Fails
<1> QED
  BY <1>2, <1>3 DEF Fails, Steps, history

\* What a writer outside the upload changes.
LEMMA OtherShape ==
    ASSUME UploadTypes, OtherCreates
    PROVE  /\ NewInode \in Inodes /\ ~InUse(NewInode)
           /\ Linked("dst", NewInode) /\ Stored(NewInode, OthersFile)
           /\ link["dst"] = NoInode
           /\ raced' = (raced \/ \E h \in Handlers : handler[h].at \in {"move", "tmp", "copy", "rename"})
           /\ UNCHANGED <<client, handler, crossDevice, stopSent, committed, overlap>>
<1>1. NewInode \in Inodes /\ ~InUse(NewInode)
  BY NewInodeIsFree
<1>2. NewInode \in Places /\ "dst" \in Names
  BY <1>1, PlaceFacts, NameFacts
<1>3. OthersFile \in SUBSET (0 .. ChunkCount + 1)
  BY UploadAssumption DEF OthersFile
<1>4. Linked("dst", NewInode) /\ Stored(NewInode, OthersFile)
  BY <1>1, <1>2, <1>3, LinkShape, StoreShape DEF OtherCreates
<1> QED
  BY <1>1, <1>4 DEF OtherCreates
-----------------------------------------------------------------------------
(* Somebody else's file                                                    *)

\* No file of this upload becomes somebody else's.
StaysApart(i) == Unmarked(contents, i) => Unmarked(contents', i)

FilesSound ==
    /\ contents' \in [Inodes -> SUBSET (0 .. ChunkCount + 1)] /\ link' \in [Names -> Places]
    /\ \A i \in Places : StaysApart(i)
    /\ Unmarked(contents', link'["part"]) /\ Unmarked(contents', link'["tmp"])
    /\ link'["dst"] = link["dst"] \/ Unmarked(contents', link'["dst"])

Others == UNCHANGED <<client, crossDevice, stopSent, overlap, raced>> /\ committed' \in BOOLEAN

\* What a step of a handler has to be for FileInv to hold after it.
LEMMA HandlerKeepsFiles ==
    ASSUME FileInv, NEW h \in Handlers, NEW at \in Steps \cup Answers, NEW file, NEW copy,
           Moved(h, at, file, copy), FilesSound, Others,
           Unmarked(contents', file), Unmarked(contents', copy),
           at \in {"truncate", "write", "copy"} => file # NoInode,
           at = "copy" => copy # NoInode,
           at \in Late => handler[h].at \in Late \/ client.overwrite \/ link["dst"] = NoInode
    PROVE  FileInv'
<1>1. \A g \in Handlers : g # h => handler'[g] = handler[g]
  BY DEF Moved
<1>2. handler'[h].at = at /\ handler'[h].file = file /\ handler'[h].copy = copy
  BY DEF Moved
<1>3. UploadTypes'
  BY <1>1, <1>2 DEF FileInv, UploadTypes, Moved, FilesSound, Others
<1>4. OthersApart'
  <2>1. \A g \in Handlers : /\ handler[g].file \in Places /\ handler[g].copy \in Places
                            /\ Unmarked(contents, handler[g].file)
                            /\ Unmarked(contents, handler[g].copy)
    BY DEF FileInv, UploadTypes, OthersApart, Request
  <2>2. \A g \in Handlers : /\ Unmarked(contents', handler'[g].file)
                            /\ Unmarked(contents', handler'[g].copy)
    BY <1>1, <1>2, <2>1 DEF FilesSound, StaysApart
  <2> QED
    BY <2>2 DEF OthersApart, FilesSound
<1>5. CheckHolds'
  <2> SUFFICES ASSUME ~client'.overwrite, ~raced', NEW g \in Handlers, handler'[g].at \in Late
               PROVE  Unmarked(contents', link'["dst"])
    BY DEF CheckHolds
  <2>1. ~client.overwrite /\ ~raced /\ link["dst"] \in Places
    BY NameFacts DEF Others, FileInv, UploadTypes
  <2>2. Unmarked(contents, link["dst"])
    BY <1>1, <1>2, <2>1 DEF FileInv, CheckHolds, Unmarked
  <2> QED
    BY <2>1, <2>2 DEF FilesSound, StaysApart
<1> QED
  BY <1>3, <1>4, <1>5 DEF FileInv

\* A write to a file of this upload.
LEMMA StoredStaysClean ==
    ASSUME UploadTypes, NEW i \in Inodes, NEW x, Stored(i, x), ChunkCount + 1 \notin x
    PROVE  Unmarked(contents', i) /\ \A j \in Places : StaysApart(j)
BY DEF UploadTypes, Stored, StaysApart, Unmarked, Places

\* Unlinking makes no file somebody else's.
LEMMA SameFilesSound ==
    ASSUME FileInv, contents' = contents, Unlinks \/ link' = link
    PROVE  FilesSound
<1>1. /\ contents \in [Inodes -> SUBSET (0 .. ChunkCount + 1)] /\ link \in [Names -> Places]
      /\ Unmarked(contents, link["part"]) /\ Unmarked(contents, link["tmp"])
  BY DEF FileInv, UploadTypes, OthersApart
<1>2. Unmarked(contents', NoInode)
  BY DEF Unmarked
<1> QED
  BY <1>1, <1>2, NameFacts DEF FilesSound, StaysApart, Unlinks

\* The commit puts a file of this upload at the destination.
LEMMA CommitSound ==
    ASSUME FileInv, NEW name \in {"part", "tmp"}, Commits(name), contents' = contents
    PROVE  FilesSound /\ committed' \in BOOLEAN
<1>1. /\ contents \in [Inodes -> SUBSET (0 .. ChunkCount + 1)]
      /\ Unmarked(contents, link["part"]) /\ Unmarked(contents, link["tmp"])
  BY DEF FileInv, UploadTypes, OthersApart
<1>2. Unmarked(contents', NoInode)
  BY DEF Unmarked
<1>3. /\ link' \in [Names -> Places] /\ link'["dst"] = link[name] /\ link'[name] = NoInode
      /\ name # "tmp" => link'["tmp"] = link["tmp"]
      /\ name # "part" => link'["part"] = link["part"]
      /\ committed' = TRUE
  BY NameFacts DEF Commits
<1> QED
  BY <1>1, <1>2, <1>3 DEF FilesSound, StaysApart

\* Every system call of a handler keeps FileInv.
LEMMA FileStepSound ==
    ASSUME FileInv, NEW h \in Handlers, HandlerStep(h) \/ Fails(h)
    PROVE  FileInv'
<1>1. /\ UploadTypes /\ link \in [Names -> Places] /\ "part" \in Names /\ "tmp" \in Names
      /\ Unmarked(contents, link["part"]) /\ Unmarked(contents, link["tmp"])
      /\ Unmarked(contents, handler[h].file) /\ Unmarked(contents, handler[h].copy)
      /\ handler[h].file \in Places /\ handler[h].copy \in Places
      /\ link["part"] \in Places /\ link["tmp"] \in Places
      /\ committed \in BOOLEAN
  BY NameFacts DEF FileInv, UploadTypes, OthersApart, Request
<1>2. Unmarked(contents', NoInode) /\ ChunkCount + 1 \notin {}
  BY DEF Unmarked
<1>3. /\ \A at \in {"open", "truncate", "write", "size", "exists", "move", "tmp", "copy",
                    "rename", "remove", "clean", "200", "400", "409", "500"} :
            at \in Steps \cup Answers
      /\ \A at \in {"write", "size", "exists", "truncate", "200", "400", "409", "500", "clean", "remove"} :
            at \notin Late
  BY DEF Steps, Answers, Late
<1>4. ASSUME Open(h) PROVE FileInv'
  <2> DEFINE at == IF handler[h].chunk = 0 THEN "truncate" ELSE "write"
  <2>1. /\ Moved(h, at, Opened("part"), handler[h].copy)
        /\ Linked("part", Opened("part"))
        /\ IF link["part"] = NoInode THEN Stored(Opened("part"), {}) ELSE contents' = contents
        /\ UNCHANGED <<client, crossDevice, stopSent, committed, overlap, raced>>
    BY <1>1, <1>4, OpenShape
  <2>2. /\ Opened("part") \in Inodes /\ Opened("part") # NoInode
        /\ link["part"] # NoInode => Opened("part") = link["part"]
    BY <1>1, OpenedShape
  <2>3. Unmarked(contents', Opened("part")) /\ \A i \in Places : StaysApart(i)
    <3>1. CASE link["part"] = NoInode
      BY <1>1, <1>2, <2>1, <2>2, <3>1, StoredStaysClean
    <3>2. CASE link["part"] # NoInode
      BY <1>1, <2>1, <2>2, <3>2 DEF StaysApart
    <3> QED
      BY <3>1, <3>2
  <2>4. contents' \in [Inodes -> SUBSET (0 .. ChunkCount + 1)]
    BY <1>1, <2>1 DEF Stored, UploadTypes
  <2>5. FilesSound
    <3>1. link' \in [Names -> Places] /\ link'["part"] = Opened("part")
          /\ link'["tmp"] = link["tmp"] /\ link'["dst"] = link["dst"]
      BY <2>1, NameFacts DEF Linked
    <3>2. Unmarked(contents', link["tmp"])
      BY <1>1, <2>3 DEF StaysApart
    <3> QED
      BY <2>3, <2>4, <3>1, <3>2 DEF FilesSound
  <2>6. Unmarked(contents', handler[h].copy)
    BY <1>1, <2>3 DEF StaysApart
  <2>7. Others
    BY <1>1, <2>1 DEF Others
  <2>8. at \in Steps \cup Answers /\ at \notin Late /\ at # "copy"
    BY <1>3
  <2> HIDE DEF at
  <2> QED
    BY <2>1, <2>2, <2>3, <2>5, <2>6, <2>7, <2>8, HandlerKeepsFiles
<1>5. ASSUME Truncate(h) PROVE FileInv'
  <2>1. /\ Moved(h, "write", handler[h].file, handler[h].copy)
        /\ handler[h].file \in Inodes /\ Stored(handler[h].file, {})
        /\ UNCHANGED <<client, link, crossDevice, stopSent, committed, overlap, raced>>
    BY <1>1, <1>5, TruncateShape
  <2>2. Unmarked(contents', handler[h].file) /\ \A i \in Places : StaysApart(i)
    BY <1>1, <1>2, <2>1, StoredStaysClean
  <2>3. FilesSound /\ Unmarked(contents', handler[h].copy)
    BY <1>1, <2>1, <2>2 DEF FilesSound, StaysApart, Stored
  <2>4. Others /\ handler[h].file # NoInode
    BY <1>1, <2>1, PlaceFacts DEF Others
  <2> QED
    BY <1>3, <2>1, <2>2, <2>3, <2>4, HandlerKeepsFiles
<1>6. ASSUME Write(h) PROVE FileInv'
  <2> DEFINE at == IF handler[h].chunk + 1 = ChunkCount THEN "size" ELSE "200"
  <2>1. /\ Moved(h, at, NoInode, NoInode)
        /\ handler[h].file \in Inodes /\ handler[h].chunk \in Chunks
        /\ Stored(handler[h].file, contents[handler[h].file] \cup {handler[h].chunk})
        /\ UNCHANGED <<client, link, crossDevice, stopSent, committed, overlap, raced>>
    BY <1>1, <1>6, WriteShape
  <2>2. ChunkCount + 1 \notin contents[handler[h].file] \cup {handler[h].chunk}
    <3>1. handler[h].chunk # ChunkCount + 1
      BY <2>1, UploadAssumption DEF Chunks
    <3> QED
      BY <1>1, <2>1, <3>1, PlaceFacts DEF Unmarked
  <2>3. \A i \in Places : StaysApart(i)
    BY <1>1, <2>1, <2>2, StoredStaysClean
  <2>4. FilesSound
    BY <1>1, <2>1, <2>3 DEF FilesSound, StaysApart, Stored
  <2>5. Others
    BY <1>1, <2>1 DEF Others
  <2>6. at \in Steps \cup Answers /\ at \notin Late /\ at \notin {"truncate", "write", "copy"}
    BY <1>3
  <2> HIDE DEF at
  <2> QED
    BY <1>2, <2>1, <2>4, <2>5, <2>6, HandlerKeepsFiles
<1>7. ASSUME CheckSize(h) \/ CheckExists(h) PROVE FileInv'
  <2>1. PICK at \in {"400", "409", "exists", "move"} :
                /\ Moved(h, at, NoInode, NoInode)
                /\ at = "move" => client.overwrite \/ link["dst"] = NoInode
    BY <1>1, <1>7, CheckShape
  <2>2. SameFiles /\ UNCHANGED <<client, crossDevice, stopSent, committed, overlap, raced>>
    BY <1>1, <1>7, CheckShape
  <2>3. FilesSound /\ Others
    BY <1>1, <2>2, SameFilesSound DEF SameFiles, Others
  <2>4. at \in Steps \cup Answers /\ (at \in Late => at = "move")
    BY <1>3, <2>1
  <2> QED
    BY <1>2, <2>1, <2>3, <2>4, HandlerKeepsFiles
<1>8. ASSUME NEW at \in {"500", "200", "tmp", "clean", "remove", "rename"}, Moved(h, at, NoInode, NoInode), FilesSound, Others,
             at \in {"tmp", "rename"} => handler[h].at \in Late
      PROVE  FileInv'
  <2>1. at \in Steps \cup Answers
    BY <1>3
  <2>2. at \in Late => handler[h].at \in Late
    BY <1>3, <1>8
  <2> QED
    BY <1>2, <1>8, <2>1, <2>2, HandlerKeepsFiles
<1>9. ASSUME Move(h) PROVE FileInv'
  <2>1. /\ \/ Moved(h, "500", NoInode, NoInode) /\ UNCHANGED <<link, committed>>
           \/ Moved(h, "tmp", NoInode, NoInode) /\ UNCHANGED <<link, committed>>
           \/ Moved(h, "clean", NoInode, NoInode) /\ Commits("part")
        /\ handler[h].at = "move"
        /\ UNCHANGED <<client, contents, crossDevice, stopSent, overlap, raced>>
    BY <1>1, <1>9, MoveShape
  <2>2. handler[h].at \in Late
    BY <2>1 DEF Late
  <2>3. link' = link /\ UNCHANGED committed => FilesSound /\ Others
    BY <1>1, <2>1, SameFilesSound DEF Others
  <2>4. Commits("part") => FilesSound /\ Others
    BY <2>1, CommitSound DEF Others
  <2> QED
    BY <1>8, <2>1, <2>2, <2>3, <2>4
<1>10. ASSUME OpenCopy(h) PROVE FileInv'
  <2>1. /\ \/ Moved(h, "500", NoInode, NoInode) /\ SameFiles
           \/ /\ Moved(h, "copy", link["part"], Opened("tmp"))
              /\ link["part"] # NoInode
              /\ Linked("tmp", Opened("tmp")) /\ Stored(Opened("tmp"), {})
        /\ handler[h].at = "tmp"
        /\ UNCHANGED <<client, crossDevice, stopSent, committed, overlap, raced>>
    BY <1>1, <1>10, OpenCopyShape
  <2>2. Others /\ handler[h].at \in Late
    BY <1>1, <2>1 DEF Others, Late
  <2>3. CASE Moved(h, "500", NoInode, NoInode) /\ SameFiles
    BY <1>8, <2>2, <2>3, SameFilesSound DEF SameFiles
  <2>4. CASE /\ Moved(h, "copy", link["part"], Opened("tmp")) /\ link["part"] # NoInode
             /\ Linked("tmp", Opened("tmp")) /\ Stored(Opened("tmp"), {})
    <3>1. Opened("tmp") \in Inodes /\ Opened("tmp") # NoInode
      BY <1>1, OpenedShape
    <3>2. Unmarked(contents', Opened("tmp")) /\ \A i \in Places : StaysApart(i)
      BY <1>1, <1>2, <2>4, <3>1, StoredStaysClean
    <3>3. link' \in [Names -> Places] /\ link'["tmp"] = Opened("tmp")
          /\ link'["part"] = link["part"] /\ link'["dst"] = link["dst"]
      BY <2>4, NameFacts DEF Linked
    <3>4. Unmarked(contents', link["part"])
      BY <1>1, <3>2 DEF StaysApart
    <3>5. FilesSound
      BY <2>4, <3>2, <3>3, <3>4 DEF FilesSound, Stored
    <3> QED
      BY <1>3, <2>2, <2>4, <3>1, <3>2, <3>4, <3>5, HandlerKeepsFiles
  <2> QED
    BY <2>1, <2>3, <2>4
<1>11. ASSUME Copy(h) PROVE FileInv'
  <2>1. /\ Moved(h, "rename", NoInode, NoInode)
        /\ handler[h].file \in Inodes /\ handler[h].copy \in Inodes
        /\ Stored(handler[h].copy, contents[handler[h].file])
        /\ handler[h].at = "copy"
        /\ UNCHANGED <<client, link, crossDevice, stopSent, committed, overlap, raced>>
    BY <1>1, <1>11, CopyShape
  <2>2. ChunkCount + 1 \notin contents[handler[h].file]
    BY <1>1, <2>1, PlaceFacts DEF Unmarked
  <2>3. \A i \in Places : StaysApart(i)
    BY <1>1, <2>1, <2>2, StoredStaysClean
  <2>4. FilesSound
    BY <1>1, <2>1, <2>3 DEF FilesSound, StaysApart, Stored
  <2>5. Others /\ handler[h].at \in Late
    BY <1>1, <2>1 DEF Others, Late
  <2> QED
    BY <1>8, <2>1, <2>4, <2>5
<1>12. ASSUME RenameCopy(h) PROVE FileInv'
  <2>1. /\ \/ Moved(h, "500", NoInode, NoInode) /\ UNCHANGED <<link, committed>>
           \/ Moved(h, "remove", NoInode, NoInode) /\ Commits("tmp")
        /\ UNCHANGED <<client, contents, crossDevice, stopSent, overlap, raced>>
    BY <1>1, <1>12, RenameCopyShape
  <2>2. link' = link /\ UNCHANGED committed => FilesSound /\ Others
    BY <1>1, <2>1, SameFilesSound DEF Others
  <2>3. Commits("tmp") => FilesSound /\ Others
    BY <2>1, CommitSound DEF Others
  <2> QED
    BY <1>8, <2>1, <2>2, <2>3
<1>13. ASSUME RemoveSource(h) \/ Clean(h) PROVE FileInv'
  <2>1. PICK at \in {"500", "clean", "200"} : Moved(h, at, NoInode, NoInode)
    BY <1>1, <1>13, EndShape
  <2>2. Unlinks /\ UNCHANGED <<client, contents, crossDevice, stopSent, committed, overlap, raced>>
    BY <1>1, <1>13, EndShape
  <2>3. FilesSound /\ Others
    BY <1>1, <2>2, SameFilesSound DEF Others
  <2> QED
    BY <1>8, <2>1, <2>3
<1>14. ASSUME Fails(h) PROVE FileInv'
  <2>1. /\ Moved(h, "500", NoInode, NoInode) /\ Unlinks
        /\ UNCHANGED <<client, contents, crossDevice, stopSent, committed, overlap, raced>>
    BY <1>1, <1>14, FailsShape
  <2>2. FilesSound /\ Others
    BY <1>1, <2>1, SameFilesSound DEF Others
  <2> QED
    BY <1>8, <2>1, <2>2
<1> QED
  BY <1>4, <1>5, <1>6, <1>7, <1>9, <1>10, <1>11, <1>12, <1>13, <1>14 DEF HandlerStep

\* The client and the requests change and the files do not.
LEMMA ClientKeepsFiles ==
    ASSUME FileInv, UNCHANGED <<contents, link, crossDevice, committed, raced>>,
           overlap' \in BOOLEAN, client' \in Client,
           client'.overwrite = client.overwrite \/ \A g \in Handlers : handler'[g].at \notin Late,
           handler' \in [Handlers -> Request],
           \A g \in Handlers :
               \/ handler'[g] = handler[g]
               \/ /\ handler'[g].at \in {"free", "open"}
                  /\ handler'[g].file = NoInode /\ handler'[g].copy = NoInode
    PROVE  FileInv'
<1>1. UploadTypes'
  BY DEF FileInv, UploadTypes
<1>2. OthersApart'
  <2>1. Unmarked(contents, NoInode)
    BY DEF Unmarked
  <2> QED
    BY <2>1 DEF FileInv, OthersApart
<1>3. CheckHolds'
  <2>1. \A g \in Handlers : handler'[g].at \in Late => handler[g].at \in Late
    BY DEF Late
  <2> QED
    BY <2>1 DEF FileInv, CheckHolds
<1> QED
  BY <1>1, <1>2, <1>3 DEF FileInv

\* Before the upload is submitted nothing runs.
Idle == client.at = "idle" => \A h \in Handlers : handler[h].at = "free"

\* A new request for the client's chunk.
LEMMA SendShape ==
    ASSUME UploadTypes, NEW h \in Handlers, Send(h)
    PROVE  /\ handler' \in [Handlers -> Request]
           /\ \A g \in Handlers : g # h => handler'[g] = handler[g]
           /\ handler'[h].at = "open" /\ handler'[h].chunk = client.chunk
           /\ handler'[h].file = NoInode /\ handler'[h].copy = NoInode
           /\ client' \in Client
           /\ client'.at = "wait" /\ client'.awaits = h /\ client'.chunk = client.chunk
           /\ client'.retries = client.retries /\ client'.overwrite = client.overwrite
           /\ client'.result = client.result
<1> DEFINE r == [Free EXCEPT !.at = "open", !.chunk = client.chunk]
<1>1. client.chunk \in Chunks /\ client \in Client /\ handler \in [Handlers -> Request]
  BY ClientFields DEF UploadTypes
<1>2. /\ r \in Request /\ r.at = "open" /\ r.chunk = client.chunk
      /\ r.file = NoInode /\ r.copy = NoInode
  BY <1>1, FreeFields DEF Request, Steps
<1>3. handler' = [handler EXCEPT ![h] = r]
  BY DEF Send
<1>4. /\ client' \in Client
      /\ client'.at = "wait" /\ client'.awaits = h /\ client'.chunk = client.chunk
      /\ client'.retries = client.retries /\ client'.overwrite = client.overwrite
      /\ client'.result = client.result
  BY <1>1 DEF Send, Client
<1> HIDE DEF r
<1> QED
  BY <1>1, <1>2, <1>3, <1>4, ReplacedRequest

\* Nothing runs before the upload is submitted.
LEMMA IdleKept ==
    ASSUME UploadTypes, Idle, [UploadNext]_uploadVars
    PROVE  Idle'
<1>1. client \in Client
  BY DEF UploadTypes
<1>2. CASE UNCHANGED <<client, handler>>
  BY <1>2 DEF Idle
<1>3. CASE client'.at # "idle"
  BY <1>3 DEF Idle
<1>4. ASSUME NEW h \in Handlers, client' = client, handler[h].at # "free" PROVE Idle'
  BY <1>4 DEF Idle
<1>5. ASSUME NEW h \in Handlers, Receive(h) \/ LoseConnection(h) PROVE Idle'
  <2>1. client'.at # "idle"
    BY <1>1, <1>5 DEF Receive, LoseConnection, Settle, Client, Ended
  <2> QED
    BY <2>1 DEF Idle
<1>6. ASSUME NEW h \in Handlers, HandlerStep(h) \/ Fails(h) \/ Vanish(h) PROVE Idle'
  <2>1. client' = client /\ handler[h].at # "free"
    BY <1>6 DEF HandlerStep, Open, Truncate, Write, CheckSize, CheckExists, Move, OpenCopy, Copy,
                RenameCopy, RemoveSource, Clean, Fails, Vanish, Answers
  <2> QED
    BY <1>4, <2>1
<1>7. Submit \/ Retry \/ Cancel => client'.at # "idle"
  BY <1>1 DEF Submit, Retry, Cancel, Ended, Client
<1>8. \A h \in Handlers : Send(h) => client'.at # "idle"
  BY SendShape
<1>9. Stop \/ OtherCreates \/ UNCHANGED uploadVars => UNCHANGED <<client, handler>>
  BY DEF Stop, OtherCreates, uploadVars
<1> QED
  BY <1>2, <1>3, <1>5, <1>6, <1>7, <1>8, <1>9 DEF UploadNext, ClientStep

\* FileInv holds at the start.
LEMMA FileInvInit ==
    ASSUME UploadInit
    PROVE  FileInv /\ Idle
<1>1. PICK exists \in BOOLEAN :
        /\ link = [n \in Names |-> IF n = "dst" /\ exists THEN 1 ELSE NoInode]
        /\ contents = [i \in Inodes |-> IF i = 1 /\ exists THEN OldFile ELSE {}]
  BY DEF UploadInit
<1>2. 1 \in Inodes /\ OldFile \in SUBSET (0 .. ChunkCount + 1) /\ {} \in SUBSET (0 .. ChunkCount + 1)
  <2>1. Cardinality(Handlers) \in Nat
    BY UploadAssumption, FS_CardinalityType
  <2> QED
    BY <2>1, UploadAssumption DEF Inodes, OldFile
<1>3. \A h \in Handlers : handler[h] = Free
  BY DEF UploadInit
<1>4. UploadTypes
  <2>1. client \in Client
    BY UploadAssumption DEF UploadInit, Client, Chunks
  <2>2. handler \in [Handlers -> Request]
    BY FreeFields DEF UploadInit
  <2>3. contents \in [Inodes -> SUBSET (0 .. ChunkCount + 1)]
    BY <1>1, <1>2
  <2>4. link \in [Names -> Places]
    BY <1>1, <1>2, PlaceFacts
  <2>5. \A h \in Handlers : handler[h].at = "free"
    BY <1>3, FreeFields
  <2> QED
    BY <2>1, <2>2, <2>3, <2>4, <2>5 DEF UploadTypes, UploadInit
<1>5. OthersApart
  BY <1>1, <1>3, FreeFields, NameFacts DEF OthersApart, Unmarked
<1>6. \A h \in Handlers : handler[h].at = "free"
  BY <1>3, FreeFields
<1>7. CheckHolds
  BY <1>6 DEF CheckHolds, Late
<1> QED
  BY <1>4, <1>5, <1>6, <1>7 DEF FileInv, Idle

\* Every step keeps FileInv.
LEMMA FileInvKept ==
    ASSUME FileInv, Idle, [UploadNext]_uploadVars
    PROVE  FileInv'
<1>1. UploadTypes /\ client \in Client /\ handler \in [Handlers -> Request]
  BY DEF FileInv, UploadTypes
<1>2. overlap \in BOOLEAN /\ raced \in BOOLEAN
  BY DEF FileInv, UploadTypes
<1>3. ASSUME client' \in Client, client'.overwrite = client.overwrite,
             UNCHANGED <<handler, contents, link, crossDevice, history>>
      PROVE  FileInv'
  BY <1>1, <1>2, <1>3, ClientKeepsFiles DEF history
<1>4. ASSUME Submit PROVE FileInv'
  <2>1. client' \in Client
    BY <1>1, <1>4 DEF Submit, Client
  <2>2. \A g \in Handlers : handler'[g].at \notin Late
    BY <1>4 DEF Submit, Idle, Late
  <2> QED
    BY <1>1, <1>2, <1>4, <2>1, <2>2, ClientKeepsFiles DEF Submit, history, files
<1>5. ASSUME Retry \/ Cancel PROVE FileInv'
  <2>1. client' \in Client /\ client'.overwrite = client.overwrite
    <3>1. CASE Retry
      <4>1. client.retries + 1 \in Nat
        BY <1>1, ClientFields
      <4> QED
        BY <1>1, <3>1, <4>1 DEF Retry, Client
    <3>2. CASE Cancel
      BY <1>1, <3>2 DEF Cancel, Ended, Client
    <3> QED
      BY <1>5, <3>1, <3>2
  <2> QED
    BY <1>3, <1>5, <2>1 DEF Retry, Cancel, files
<1>6. ASSUME Stop PROVE FileInv'
  <2>1. link' = link
    BY <1>6 DEF Stop, StopBody
  <2> QED
    BY <1>1, <1>3, <1>6, <2>1 DEF Stop
<1>7. ASSUME NEW h \in Handlers, Send(h) PROVE FileInv'
  <2>1. /\ handler' \in [Handlers -> Request]
        /\ \A g \in Handlers : g # h => handler'[g] = handler[g]
        /\ handler'[h].at = "open" /\ handler'[h].file = NoInode /\ handler'[h].copy = NoInode
        /\ client' \in Client /\ client'.overwrite = client.overwrite
    BY <1>1, <1>7, SendShape
  <2>2. UNCHANGED <<contents, link, crossDevice, committed, raced>> /\ overlap' \in BOOLEAN
    BY <1>2, <1>7 DEF Send, files
  <2> QED
    BY <2>1, <2>2, ClientKeepsFiles
<1>8. ASSUME NEW h \in Handlers, client' \in Client, client'.overwrite = client.overwrite,
             Gone(h) \/ UNCHANGED handler, UNCHANGED <<contents, link, crossDevice, history>>
      PROVE  FileInv'
  <2>1. CASE Gone(h)
    <3>1. /\ handler' \in [Handlers -> Request]
          /\ \A g \in Handlers : g # h => handler'[g] = handler[g]
          /\ handler'[h].at = "free" /\ handler'[h].file = NoInode /\ handler'[h].copy = NoInode
      BY <2>1 DEF Gone
    <3> QED
      BY <1>2, <1>8, <3>1, ClientKeepsFiles DEF history
  <2> QED
    BY <1>3, <1>8, <2>1
<1>9. ASSUME NEW h \in Handlers, Receive(h) \/ LoseConnection(h) PROVE FileInv'
  <2>1. \E status : Settle(status)
    BY <1>9 DEF Receive, LoseConnection
  <2>2. client' \in Client /\ client'.overwrite = client.overwrite
    BY <1>1, <2>1, SettleJudges
  <2>3. Gone(h) \/ UNCHANGED handler
    BY <1>1, <1>9, FreeGone DEF Receive, LoseConnection
  <2> QED
    BY <1>8, <1>9, <2>2, <2>3 DEF Receive, LoseConnection, files
<1>10. ASSUME NEW h \in Handlers, Vanish(h) PROVE FileInv'
  <2>1. Gone(h)
    BY <1>1, <1>10, FreeGone DEF Vanish
  <2> QED
    BY <1>1, <1>8, <1>10, <2>1 DEF Vanish, files
<1>11. ASSUME OtherCreates PROVE FileInv'
  <2>1. /\ NewInode \in Inodes /\ ~InUse(NewInode)
        /\ Linked("dst", NewInode) /\ Stored(NewInode, OthersFile)
        /\ raced' = (raced \/ \E h \in Handlers : handler[h].at \in {"move", "tmp", "copy", "rename"})
        /\ UNCHANGED <<client, handler, crossDevice, stopSent, committed, overlap>>
    BY <1>1, <1>11, OtherShape
  <2>2. /\ link["part"] # NewInode /\ link["tmp"] # NewInode
        /\ \A h \in Handlers : handler[h].file # NewInode /\ handler[h].copy # NewInode
    BY <2>1, NameFacts DEF InUse
  <2>3. \A i \in Places : i # NewInode /\ Unmarked(contents, i) => Unmarked(contents', i)
    BY <2>1, PlaceFacts DEF Stored, Unmarked, Places
  <2>4. link'["part"] = link["part"] /\ link'["tmp"] = link["tmp"] /\ link' \in [Names -> Places]
    BY <2>1, NameFacts DEF Linked
  <2>5. UploadTypes'
    BY <1>1, <2>1, <2>4 DEF UploadTypes, Stored
  <2>6. OthersApart'
    <3>1. link["part"] \in Places /\ link["tmp"] \in Places
      BY <1>1, NameFacts DEF UploadTypes
    <3>2. \A h \in Handlers : handler[h].file \in Places /\ handler[h].copy \in Places
      BY <1>1 DEF Request
    <3> QED
      BY <2>1, <2>2, <2>3, <2>4, <3>1, <3>2 DEF FileInv, OthersApart
  <2>7. CheckHolds'
    BY <2>1 DEF CheckHolds, Late
  <2> QED
    BY <2>5, <2>6, <2>7 DEF FileInv
<1>12. ASSUME UNCHANGED uploadVars PROVE FileInv'
  BY <1>1, <1>3, <1>12 DEF uploadVars, files
<1> QED
  BY <1>4, <1>5, <1>6, <1>7, <1>9, <1>10, <1>11, <1>12, FileStepSound DEF UploadNext, ClientStep

\* Only a commit gives the destination another file when it has one.
LEMMA OnlyCommitsReplace ==
    ASSUME FileInv, [UploadNext]_uploadVars, link["dst"] # NoInode, link'["dst"] # link["dst"]
    PROVE  \E h \in Handlers : handler[h].at \in {"move", "rename"}
<1>1. UploadTypes
  BY DEF FileInv
<1>2. ASSUME NEW h \in Handlers, HandlerStep(h) \/ Fails(h) PROVE handler[h].at \in {"move", "rename"}
  <2>1. Open(h) => link'["dst"] = link["dst"]
    BY <1>1, OpenShape, NameFacts DEF Linked
  <2>2. OpenCopy(h) => link'["dst"] = link["dst"]
    BY <1>1, OpenCopyShape, NameFacts DEF Linked, SameFiles
  <2>3. RemoveSource(h) \/ Clean(h) => link'["dst"] = link["dst"]
    BY <1>1, EndShape DEF Unlinks
  <2>4. Fails(h) => link'["dst"] = link["dst"]
    BY <1>1, FailsShape DEF Unlinks
  <2>5. Truncate(h) \/ Write(h) \/ CheckSize(h) \/ CheckExists(h) \/ Copy(h) => link' = link
    BY DEF Truncate, Write, CheckSize, CheckExists, Copy, files
  <2>6. Move(h) \/ RenameCopy(h) => handler[h].at \in {"move", "rename"}
    BY DEF Move, RenameCopy
  <2> QED
    BY <1>2, <2>1, <2>2, <2>3, <2>4, <2>5, <2>6 DEF HandlerStep
<1>3. Submit \/ Retry \/ Cancel \/ UNCHANGED uploadVars => link' = link
  BY DEF Submit, Retry, Cancel, uploadVars, files
<1>4. Stop => link' = link
  BY DEF Stop, StopBody
<1>5. ~OtherCreates
  BY DEF OtherCreates
<1>6. \A h \in Handlers : Send(h) \/ Receive(h) \/ LoseConnection(h) \/ Vanish(h) => link' = link
  BY DEF Send, Receive, LoseConnection, Vanish, files
<1> QED
  BY <1>2, <1>3, <1>4, <1>5, <1>6 DEF UploadNext, ClientStep

\* The commit of handleChunkUpload beside a writer outside the upload: for any
\* number of chunks, retries and requests that run at the same time, a file that
\* somebody else made and the user has not agreed to overwrite is replaced only
\* when it was made after the last handler had looked.
THEOREM OthersFileStands == UploadSpec => OthersFileStandsUnlessRaced
<1>1. UploadInit => FileInv /\ Idle
  BY FileInvInit
<1>2. FileInv /\ Idle /\ [UploadNext]_uploadVars => (FileInv /\ Idle)'
  BY FileInvKept, IdleKept DEF FileInv
<1>3. FileInv /\ [UploadNext]_uploadVars =>
        [(link["dst"] # NoInode /\ contents[link["dst"]] = OthersFile /\ link'["dst"] # link["dst"])
            => client.overwrite \/ raced]_uploadVars
  <2> SUFFICES ASSUME FileInv, [UploadNext]_uploadVars, link["dst"] # NoInode,
                      contents[link["dst"]] = OthersFile, link'["dst"] # link["dst"]
               PROVE  client.overwrite \/ raced
    OBVIOUS
  <2>1. PICK h \in Handlers : handler[h].at \in {"move", "rename"}
    BY OnlyCommitsReplace
  <2>2. handler[h].at \in Late
    BY <2>1 DEF Late
  <2>3. ~Unmarked(contents, link["dst"])
    BY DEF Unmarked, OthersFile
  <2> QED
    BY <2>2, <2>3 DEF FileInv, CheckHolds
<1> QED
  BY <1>1, <1>2, <1>3, PTL DEF UploadSpec, OthersFileStandsUnlessRaced

-----------------------------------------------------------------------------
(* The upload in turn                                                      *)

\* What is known while a handler runs.
LEMMA SoleHandler ==
    ASSUME UploadTypes, InTurn, NEW h \in Handlers, handler[h].at \in Steps
    PROVE  /\ \A g \in Handlers : g # h => handler[g].at \notin Steps
           /\ handler[h].chunk = client.chunk /\ client.at # "idle"
           /\ client.at = "wait" => client.awaits = h
           /\ client.at = "send" => client.retries > 0
           /\ DoneBy(h)
BY DEF InTurn, OneRuns, HandlerDone, Running

\* What a step of the running handler has to be for InTurn to hold after it.
LEMMA HandlerInTurn ==
    ASSUME UploadTypes, InTurn, NEW h \in Handlers, handler[h].at \in Steps,
           NEW at \in Steps \cup Answers, NEW file, NEW copy, Moved(h, at, file, copy),
           client' = client, LinksDiffer', PartGrows', DoneBy(h)', CommitWhole',
           at = "200" => IF client.chunk + 1 = ChunkCount
                         THEN committed'
                         ELSE /\ ~committed' /\ link'["part"] # NoInode
                              /\ contents'[link'["part"]] = Before(client.chunk + 1)
    PROVE  InTurn'
<1>1. /\ \A g \in Handlers : g # h => handler[g].at \notin Steps
      /\ handler[h].chunk = client.chunk /\ client.at # "idle"
      /\ client.at = "wait" => client.awaits = h
      /\ client.at = "send" => client.retries > 0
  BY SoleHandler
<1>2. \A g \in Handlers : g # h => handler'[g] = handler[g]
  BY DEF Moved
<1>3. handler'[h].at = at /\ handler'[h].chunk = client.chunk
  BY <1>1 DEF Moved
<1>4. OneRuns'
  BY <1>1, <1>2, <1>3 DEF OneRuns, Running
<1>5. AwaitsItsChunk'
  <2>1. at # "free"
    BY DEF Steps, Answers
  <2> QED
    BY <1>1, <1>3, <2>1 DEF InTurn, AwaitsItsChunk
<1>6. HandlerDone'
  <2> SUFFICES ASSUME NEW g \in Handlers, g # h PROVE DoneBy(g)'
    BY DEF HandlerDone
  <2>1. handler'[g].at \notin Steps
    BY <1>1, <1>2
  <2>2. handler'[g].at \notin {"truncate", "write", "copy", "size", "exists", "move", "tmp",
                               "rename", "remove", "clean"}
    BY <2>1 DEF Steps
  <2> QED
    BY <2>1, <2>2 DEF DoneBy
<1>7. AnswerTrue'
  BY <1>1, <1>3 DEF AnswerTrue
<1> QED
  BY <1>4, <1>5, <1>6, <1>7 DEF InTurn

\* A name is an inode or nothing.
LEMMA LinkPlaces ==
    ASSUME UploadTypes
    PROVE  /\ link["part"] \in Places /\ link["tmp"] \in Places /\ link["dst"] \in Places
           /\ \A n \in Names : link[n] # NoInode => link[n] \in Inodes
BY NameFacts DEF UploadTypes, Places

\* The steps that write to a file that is not the destination.
LEMMA WriteKeepsCommit ==
    ASSUME UploadTypes, CommitWhole, NEW i \in Inodes, NEW x, Stored(i, x),
           link["dst"] # i, link'["dst"] = link["dst"], client' = client, committed' = committed
    PROVE  CommitWhole'
<1>1. link["dst"] # NoInode => link["dst"] \in Inodes
  BY NameFacts, LinkPlaces
<1>2. link["dst"] # NoInode => contents'[link["dst"]] = contents[link["dst"]]
  BY <1>1 DEF Stored
<1> QED
  BY <1>2 DEF CommitWhole

\* In turn, the part file that is opened has all chunks before this one.
LEMMA OpenInTurn ==
    ASSUME UploadTypes, InTurn, NEW h \in Handlers, Open(h)
    PROVE  InTurn'
<1> DEFINE at == IF handler[h].chunk = 0 THEN "truncate" ELSE "write"
           i == Opened("part")
<1>1. /\ Moved(h, at, i, handler[h].copy) /\ Linked("part", i)
      /\ IF link["part"] = NoInode THEN Stored(i, {}) ELSE contents' = contents
      /\ handler[h].at = "open"
      /\ UNCHANGED <<client, crossDevice, stopSent, committed, overlap, raced>>
  BY OpenShape
<1>2. /\ i \in Inodes /\ i # NoInode
      /\ IF link["part"] = NoInode THEN ~InUse(i) ELSE i = link["part"]
  BY NameFacts, OpenedShape
<1> HIDE DEF i
<1>3. handler[h].at \in Steps /\ at \in Steps \cup Answers /\ at # "200"
  BY <1>1 DEF Steps
<1>4. /\ handler[h].chunk = client.chunk /\ ~committed
  <2>1. DoneBy(h) /\ handler[h].chunk = client.chunk
    BY <1>3, SoleHandler
  <2> QED
    BY <1>1, <1>3, <2>1 DEF DoneBy
<1>5. link'["part"] = i /\ link'["tmp"] = link["tmp"] /\ link'["dst"] = link["dst"]
  BY <1>1, NameFacts DEF Linked
<1>6. i # link["tmp"] /\ i # link["dst"]
  <2>1. CASE link["part"] = NoInode
    BY <1>2, <2>1, NameFacts DEF InUse
  <2>2. CASE link["part"] # NoInode
    BY <1>2, <2>2, NameFacts DEF InTurn, LinksDiffer
  <2> QED
    BY <2>1, <2>2
<1>7. LinksDiffer'
  BY <1>2, <1>5, <1>6, NameFacts DEF InTurn, LinksDiffer
<1>8. PartGrows'
  <2>1. CASE link["part"] = NoInode
    <3>1. client.chunk = 0
      BY <1>4, <2>1, ClientFields DEF InTurn, PartGrows
    <3>2. Before(0) = {}
      BY DEF Before
    <3>3. contents'[i] = {}
      BY <1>1, <2>1 DEF Stored
    <3> QED
      BY <1>1, <1>2, <1>5, <3>1, <3>2, <3>3 DEF PartGrows
  <2>2. CASE link["part"] # NoInode
    BY <1>1, <1>2, <1>4, <1>5, <2>2 DEF InTurn, PartGrows
  <2> QED
    BY <2>1, <2>2
<1>9. CommitWhole'
  <2>1. CASE link["part"] = NoInode
    BY <1>1, <1>2, <1>5, <1>6, <2>1, WriteKeepsCommit DEF InTurn
  <2>2. CASE link["part"] # NoInode
    BY <1>1, <1>5, <2>2 DEF InTurn, CommitWhole
  <2> QED
    BY <2>1, <2>2
<1>10. DoneBy(h)'
  <2>1. /\ handler'[h].at = at /\ handler'[h].chunk = handler[h].chunk /\ handler'[h].file = i
    BY <1>1 DEF Moved
  <2> QED
    BY <1>1, <1>4, <1>5, <2>1 DEF DoneBy
<1> HIDE DEF at
<1> QED
  BY <1>1, <1>3, <1>7, <1>8, <1>9, <1>10, HandlerInTurn

\* In turn, chunk 0 empties the part file before it writes.
LEMMA TruncateInTurn ==
    ASSUME UploadTypes, InTurn, NEW h \in Handlers, Truncate(h)
    PROVE  InTurn'
<1>1. /\ Moved(h, "write", handler[h].file, handler[h].copy)
      /\ handler[h].file \in Inodes /\ Stored(handler[h].file, {})
      /\ handler[h].at = "truncate"
      /\ UNCHANGED <<client, link, crossDevice, stopSent, committed, overlap, raced>>
  BY TruncateShape
<1>2. handler[h].at \in Steps /\ "write" \in Steps \cup Answers
  BY <1>1 DEF Steps
<1>3. /\ handler[h].chunk = client.chunk /\ ~committed /\ client.chunk = 0
      /\ handler[h].file = link["part"]
  <2>1. DoneBy(h) /\ handler[h].chunk = client.chunk
    BY <1>2, SoleHandler
  <2> QED
    BY <1>1, <1>2, <2>1 DEF DoneBy
<1>4. link["part"] # NoInode /\ link["dst"] # link["part"]
  BY <1>1, <1>3, PlaceFacts, NameFacts DEF InTurn, LinksDiffer
<1>5. LinksDiffer'
  BY <1>1 DEF InTurn, LinksDiffer
<1>6. PartGrows'
  <2>1. Before(0) = {}
    BY DEF Before
  <2>2. contents'[link["part"]] = {}
    BY <1>1, <1>3 DEF Stored
  <2> QED
    BY <1>1, <1>3, <1>4, <2>1, <2>2 DEF PartGrows
<1>7. CommitWhole'
  BY <1>1, <1>3, <1>4, WriteKeepsCommit DEF InTurn
<1>8. DoneBy(h)'
  <2>1. handler'[h].at = "write" /\ handler'[h].file = handler[h].file
    BY <1>1 DEF Moved
  <2> QED
    BY <1>1, <1>3, <2>1 DEF DoneBy
<1> QED
  BY <1>1, <1>2, <1>5, <1>6, <1>7, <1>8, HandlerInTurn

\* In turn, a write completes the chunks up to this one.
LEMMA WriteInTurn ==
    ASSUME UploadTypes, InTurn, NEW h \in Handlers, Write(h)
    PROVE  InTurn'
<1> DEFINE at == IF handler[h].chunk + 1 = ChunkCount THEN "size" ELSE "200"
           c == client.chunk
           x == contents[handler[h].file] \cup {handler[h].chunk}
<1>1. /\ Moved(h, at, NoInode, NoInode)
      /\ handler[h].file \in Inodes /\ Stored(handler[h].file, x)
      /\ handler[h].at = "write"
      /\ UNCHANGED <<client, link, crossDevice, stopSent, committed, overlap, raced>>
  BY WriteShape
<1>2. handler[h].at \in Steps /\ at \in Steps \cup Answers
  BY <1>1 DEF Steps, Answers
<1>3. handler[h].chunk = c /\ ~committed /\ handler[h].file = link["part"]
  <2>1. DoneBy(h) /\ handler[h].chunk = c
    BY <1>2, SoleHandler
  <2> QED
    BY <1>1, <1>2, <2>1 DEF DoneBy
<1>4. link["part"] # NoInode /\ link["dst"] # link["part"]
  BY <1>1, <1>3, PlaceFacts, NameFacts DEF InTurn, LinksDiffer
<1>5. x = Before(c + 1)
  <2>1. Before(c) \subseteq contents[link["part"]] /\ contents[link["part"]] \subseteq Before(c + 1)
    BY <1>3, <1>4 DEF InTurn, PartGrows
  <2>2. c \in Nat /\ Before(c + 1) = Before(c) \cup {c}
    BY ClientFields DEF Before
  <2> QED
    BY <1>3, <2>1, <2>2
<1>6. contents'[link["part"]] = Before(c + 1)
  BY <1>1, <1>3, <1>5 DEF Stored
<1>7. LinksDiffer'
  BY <1>1 DEF InTurn, LinksDiffer
<1>8. PartGrows'
  <2>1. Before(c) \subseteq Before(c + 1)
    BY ClientFields DEF Before
  <2> QED
    BY <1>1, <1>3, <1>4, <1>6, <2>1 DEF PartGrows
<1>9. CommitWhole'
  <2> HIDE DEF x
  <2> QED
    BY <1>1, <1>3, <1>4, WriteKeepsCommit DEF InTurn
<1>10. DoneBy(h)'
  <2>1. handler'[h].at = at
    BY <1>1 DEF Moved
  <2>2. at = "size" => c + 1 = ChunkCount /\ Before(c + 1) = Whole
    <3>1. at = "size" => c + 1 = ChunkCount
      BY <1>3
    <3>2. c \in Nat
      BY ClientFields
    <3> QED
      BY <3>1, <3>2 DEF Before, Whole, Chunks
  <2> QED
    BY <1>1, <1>3, <1>4, <1>6, <2>1, <2>2 DEF DoneBy, Steps
<1>11. at = "200" => c + 1 # ChunkCount
  BY <1>3
<1> HIDE DEF at, x
<1> QED
  BY <1>1, <1>2, <1>3, <1>4, <1>6, <1>7, <1>8, <1>9, <1>10, <1>11, HandlerInTurn

\* In turn, the checks change no file.
LEMMA CheckInTurn ==
    ASSUME UploadTypes, InTurn, NEW h \in Handlers, CheckSize(h) \/ CheckExists(h)
    PROVE  InTurn'
<1>1. PICK at \in {"400", "409", "exists", "move"} : Moved(h, at, NoInode, NoInode)
  BY CheckShape
<1>2. /\ handler[h].at \in {"size", "exists"} /\ contents' = contents /\ link' = link
      /\ UNCHANGED <<client, crossDevice, stopSent, committed, overlap, raced>>
  BY CheckShape DEF SameFiles
<1>3. handler[h].at \in Steps /\ at \in Steps \cup Answers /\ at # "200"
  BY <1>1, <1>2 DEF Steps, Answers
<1>4. /\ ~committed /\ client.chunk + 1 = ChunkCount
      /\ link["part"] # NoInode /\ contents[link["part"]] = Whole
  <2>1. DoneBy(h)
    BY <1>3, SoleHandler
  <2> QED
    BY <1>2, <1>3, <2>1 DEF DoneBy
<1>5. LinksDiffer' /\ PartGrows' /\ CommitWhole'
  BY <1>2 DEF InTurn, LinksDiffer, PartGrows, CommitWhole
<1>6. DoneBy(h)'
  <2>1. handler'[h].at = at
    BY <1>1 DEF Moved
  <2> QED
    BY <1>1, <1>2, <1>4, <2>1 DEF DoneBy
<1> QED
  BY <1>1, <1>2, <1>3, <1>5, <1>6, HandlerInTurn

\* A handler that gives up, its files being as they were or its copy unlinked.
LEMMA GiveUpInTurn ==
    ASSUME UploadTypes, InTurn, NEW h \in Handlers, handler[h].at \in Steps,
           Moved(h, "500", NoInode, NoInode), client' = client, committed' = committed,
           contents' = contents, link' = link \/ (Unlinks /\ (committed \/ link'["part"] = link["part"]))
    PROVE  InTurn'
<1>1. /\ link'["dst"] = link["dst"]
      /\ committed \/ link'["part"] = link["part"]
      /\ \A n \in Names : link'[n] = link[n] \/ link'[n] = NoInode
  BY DEF Unlinks
<1>2. LinksDiffer'
  BY <1>1 DEF InTurn, LinksDiffer
<1>3. PartGrows' /\ CommitWhole'
  BY <1>1 DEF InTurn, PartGrows, CommitWhole
<1>4. handler'[h].at = "500" /\ "500" \in Steps \cup Answers
  BY DEF Moved, Answers
<1>5. DoneBy(h)'
  BY <1>4 DEF DoneBy, Steps
<1> QED
  BY <1>2, <1>3, <1>4, <1>5, HandlerInTurn

\* The commit of a whole file.
LEMMA CommitInTurn ==
    ASSUME UploadTypes, InTurn, NEW h \in Handlers, handler[h].at \in Steps,
           NEW name \in {"part", "tmp"}, Commits(name), link[name] # NoInode,
           contents[link[name]] = Whole, client.chunk + 1 = ChunkCount,
           NEW at \in {"clean", "remove"}, Moved(h, at, NoInode, NoInode),
           client' = client, contents' = contents
    PROVE  InTurn'
<1>1. /\ link'["dst"] = link[name] /\ link'[name] = NoInode /\ committed' = TRUE
      /\ name = "part" => link'["tmp"] = link["tmp"]
      /\ name = "tmp" => link'["part"] = link["part"]
  BY NameFacts DEF Commits
<1>2. LinksDiffer'
  <2>1. link["part"] = link["tmp"] => link["part"] = NoInode
    BY NameFacts DEF InTurn, LinksDiffer
  <2> QED
    BY <1>1, <2>1, NameFacts DEF LinksDiffer
<1>3. PartGrows'
  BY <1>1 DEF PartGrows
<1>4. CommitWhole'
  <2>1. client.at # "idle" /\ (client.at = "send" => client.retries > 0)
    BY SoleHandler
  <2> QED
    BY <1>1, <2>1 DEF CommitWhole
<1>5. handler'[h].at = at /\ at \in Steps \cup Answers /\ at # "200"
  BY DEF Moved, Steps
<1>6. DoneBy(h)'
  BY <1>1, <1>5 DEF DoneBy
<1> QED
  BY <1>2, <1>3, <1>4, <1>5, <1>6, HandlerInTurn

\* In turn, the rename commits a whole file.
LEMMA MoveInTurn ==
    ASSUME UploadTypes, InTurn, NEW h \in Handlers, Move(h)
    PROVE  InTurn'
<1>1. /\ \/ Moved(h, "500", NoInode, NoInode) /\ UNCHANGED <<link, committed>>
         \/ Moved(h, "tmp", NoInode, NoInode) /\ UNCHANGED <<link, committed>>
         \/ /\ Moved(h, "clean", NoInode, NoInode) /\ Commits("part")
            /\ link["part"] # NoInode
      /\ handler[h].at = "move"
      /\ UNCHANGED <<client, contents, crossDevice, stopSent, overlap, raced>>
  BY MoveShape
<1>2. handler[h].at \in Steps /\ "tmp" \in Steps \cup Answers
  BY <1>1 DEF Steps
<1>3. /\ ~committed /\ client.chunk + 1 = ChunkCount
      /\ link["part"] # NoInode /\ contents[link["part"]] = Whole
  <2>1. DoneBy(h)
    BY <1>2, SoleHandler
  <2> QED
    BY <1>1, <1>2, <2>1 DEF DoneBy
<1>4. CASE Moved(h, "500", NoInode, NoInode) /\ UNCHANGED <<link, committed>>
  BY <1>1, <1>2, <1>4, GiveUpInTurn
<1>5. CASE Moved(h, "tmp", NoInode, NoInode) /\ UNCHANGED <<link, committed>>
  <2>1. LinksDiffer' /\ PartGrows' /\ CommitWhole'
    BY <1>1, <1>5 DEF InTurn, LinksDiffer, PartGrows, CommitWhole
  <2>2. handler'[h].at = "tmp"
    BY <1>5 DEF Moved
  <2>3. DoneBy(h)'
    BY <1>1, <1>3, <1>5, <2>2 DEF DoneBy
  <2> QED
    BY <1>1, <1>2, <1>5, <2>1, <2>3, HandlerInTurn
<1>6. CASE Moved(h, "clean", NoInode, NoInode) /\ Commits("part")
  BY <1>1, <1>2, <1>3, <1>6, CommitInTurn
<1> QED
  BY <1>1, <1>4, <1>5, <1>6

\* In turn, the copy begins empty beside a whole part file.
LEMMA OpenCopyInTurn ==
    ASSUME UploadTypes, InTurn, NEW h \in Handlers, OpenCopy(h)
    PROVE  InTurn'
<1> DEFINE i == Opened("tmp")
<1>1. /\ \/ Moved(h, "500", NoInode, NoInode) /\ SameFiles
         \/ /\ Moved(h, "copy", link["part"], i)
            /\ link["part"] # NoInode
            /\ Linked("tmp", i) /\ Stored(i, {})
      /\ handler[h].at = "tmp"
      /\ UNCHANGED <<client, crossDevice, stopSent, committed, overlap, raced>>
  BY OpenCopyShape
<1>2. /\ i \in Inodes /\ i # NoInode
      /\ IF link["tmp"] = NoInode THEN ~InUse(i) ELSE i = link["tmp"]
  BY NameFacts, OpenedShape
<1> HIDE DEF i
<1>3. handler[h].at \in Steps /\ "copy" \in Steps \cup Answers
  BY <1>1 DEF Steps
<1>4. /\ ~committed /\ client.chunk + 1 = ChunkCount
      /\ link["part"] # NoInode /\ contents[link["part"]] = Whole
  <2>1. DoneBy(h)
    BY <1>3, SoleHandler
  <2> QED
    BY <1>1, <1>3, <2>1 DEF DoneBy
<1>5. CASE Moved(h, "500", NoInode, NoInode) /\ SameFiles
  BY <1>1, <1>3, <1>5, GiveUpInTurn DEF SameFiles
<1>6. CASE /\ Moved(h, "copy", link["part"], i) /\ Linked("tmp", i) /\ Stored(i, {})
  <2>1. link'["tmp"] = i /\ link'["part"] = link["part"] /\ link'["dst"] = link["dst"]
    BY <1>6, NameFacts DEF Linked
  <2>2. i # link["part"] /\ i # link["dst"]
    <3>1. CASE link["tmp"] = NoInode
      BY <1>2, <3>1, NameFacts DEF InUse
    <3>2. CASE link["tmp"] # NoInode
      BY <1>2, <3>2, NameFacts DEF InTurn, LinksDiffer
    <3> QED
      BY <3>1, <3>2
  <2>3. LinksDiffer'
    BY <1>2, <2>1, <2>2, NameFacts DEF InTurn, LinksDiffer
  <2>4. contents'[link["part"]] = contents[link["part"]]
    <3>1. link["part"] \in Inodes
      BY <1>4, NameFacts, LinkPlaces
    <3> QED
      BY <1>6, <2>2, <3>1 DEF Stored
  <2>5. PartGrows'
    BY <1>1, <2>1, <2>4 DEF InTurn, PartGrows
  <2>6. CommitWhole'
    BY <1>1, <1>2, <1>6, <2>1, <2>2, WriteKeepsCommit DEF InTurn
  <2>7. handler'[h].at = "copy" /\ handler'[h].file = link["part"] /\ handler'[h].copy = i
    BY <1>6 DEF Moved
  <2>8. DoneBy(h)'
    BY <1>1, <1>4, <2>1, <2>4, <2>7 DEF DoneBy
  <2> QED
    BY <1>1, <1>3, <1>6, <2>3, <2>5, <2>6, <2>8, HandlerInTurn
<1> QED
  BY <1>1, <1>5, <1>6

\* In turn, the copy becomes whole.
LEMMA CopyInTurn ==
    ASSUME UploadTypes, InTurn, NEW h \in Handlers, Copy(h)
    PROVE  InTurn'
<1>1. /\ Moved(h, "rename", NoInode, NoInode)
      /\ handler[h].file \in Inodes /\ handler[h].copy \in Inodes
      /\ Stored(handler[h].copy, contents[handler[h].file])
      /\ handler[h].at = "copy"
      /\ UNCHANGED <<client, link, crossDevice, stopSent, committed, overlap, raced>>
  BY CopyShape
<1>2. handler[h].at \in Steps /\ "rename" \in Steps \cup Answers
  BY <1>1 DEF Steps
<1>3. /\ ~committed /\ client.chunk + 1 = ChunkCount
      /\ link["part"] # NoInode /\ contents[link["part"]] = Whole
      /\ handler[h].file = link["part"] /\ handler[h].copy = link["tmp"]
  <2>1. DoneBy(h)
    BY <1>2, SoleHandler
  <2> QED
    BY <1>1, <1>2, <2>1 DEF DoneBy
<1>4. /\ link["tmp"] # NoInode /\ link["part"] # link["tmp"] /\ link["dst"] # link["tmp"]
      /\ link["part"] \in Inodes
  BY <1>1, <1>3, PlaceFacts, NameFacts, LinkPlaces DEF InTurn, LinksDiffer
<1>5. contents'[link["tmp"]] = Whole /\ contents'[link["part"]] = contents[link["part"]]
  BY <1>1, <1>3, <1>4 DEF Stored
<1>6. LinksDiffer' /\ PartGrows'
  BY <1>1, <1>5 DEF InTurn, LinksDiffer, PartGrows
<1>7. CommitWhole'
  BY <1>1, <1>3, <1>4, WriteKeepsCommit DEF InTurn
<1>8. handler'[h].at = "rename"
  BY <1>1 DEF Moved
<1>9. DoneBy(h)'
  BY <1>1, <1>3, <1>4, <1>5, <1>8 DEF DoneBy
<1> QED
  BY <1>1, <1>2, <1>6, <1>7, <1>9, HandlerInTurn

\* In turn, renaming the copy commits a whole file.
LEMMA RenameCopyInTurn ==
    ASSUME UploadTypes, InTurn, NEW h \in Handlers, RenameCopy(h)
    PROVE  InTurn'
<1>1. /\ \/ Moved(h, "500", NoInode, NoInode) /\ UNCHANGED <<link, committed>>
         \/ /\ Moved(h, "remove", NoInode, NoInode) /\ Commits("tmp")
            /\ link["tmp"] # NoInode
      /\ handler[h].at = "rename"
      /\ UNCHANGED <<client, contents, crossDevice, stopSent, overlap, raced>>
  BY RenameCopyShape
<1>2. handler[h].at \in Steps
  BY <1>1 DEF Steps
<1>3. client.chunk + 1 = ChunkCount /\ contents[link["tmp"]] = Whole
  <2>1. DoneBy(h)
    BY <1>2, SoleHandler
  <2> QED
    BY <1>1, <2>1 DEF DoneBy
<1>4. CASE Moved(h, "500", NoInode, NoInode) /\ UNCHANGED <<link, committed>>
  BY <1>1, <1>2, <1>4, GiveUpInTurn
<1>5. CASE Moved(h, "remove", NoInode, NoInode) /\ Commits("tmp") /\ link["tmp"] # NoInode
  BY <1>1, <1>2, <1>3, <1>5, CommitInTurn
<1> QED
  BY <1>1, <1>4, <1>5

\* In turn, the clean-up comes after the commit.
LEMMA EndInTurn ==
    ASSUME UploadTypes, InTurn, NEW h \in Handlers, RemoveSource(h) \/ Clean(h)
    PROVE  InTurn'
<1>1. PICK at \in {"500", "clean", "200"} : Moved(h, at, NoInode, NoInode)
  BY EndShape
<1>2. /\ handler[h].at \in {"remove", "clean"} /\ Unlinks
      /\ UNCHANGED <<client, contents, crossDevice, stopSent, committed, overlap, raced>>
  BY EndShape
<1>3. handler[h].at \in Steps /\ at \in Steps \cup Answers
  BY <1>1, <1>2 DEF Steps, Answers
<1>4. committed /\ client.chunk + 1 = ChunkCount
  <2>1. DoneBy(h)
    BY <1>3, SoleHandler
  <2> QED
    BY <1>2, <1>3, <2>1 DEF DoneBy, InTurn, CommitWhole
<1>5. LinksDiffer' /\ PartGrows' /\ CommitWhole'
  BY <1>2, <1>4 DEF InTurn, LinksDiffer, PartGrows, CommitWhole, Unlinks
<1>6. handler'[h].at = at
  BY <1>1 DEF Moved
<1>7. DoneBy(h)'
  BY <1>1, <1>2, <1>4, <1>6 DEF DoneBy, Steps
<1> QED
  BY <1>1, <1>2, <1>3, <1>4, <1>5, <1>7, HandlerInTurn

\* In turn, a failure is answered as one.
LEMMA FailsInTurn ==
    ASSUME UploadTypes, InTurn, NEW h \in Handlers, Fails(h)
    PROVE  InTurn'
<1>1. /\ Moved(h, "500", NoInode, NoInode)
      /\ Unlinks /\ link'["part"] = link["part"]
      /\ handler[h].at \in Steps
      /\ UNCHANGED <<client, contents, crossDevice, stopSent, committed, overlap, raced>>
  BY FailsShape
<1> QED
  BY <1>1, GiveUpInTurn

\* A client that waits for nobody.
LEMMA AwaitsFacts ==
    ASSUME UploadTypes, InTurn
    PROVE  /\ client.at # "wait" => client.awaits = NoHandler
           /\ client.awaits # NoHandler => client.at = "wait"
           /\ \A h \in Handlers : h # NoHandler
BY UploadAssumption DEF InTurn, AwaitsItsChunk

\* The client turns away from a request, or to the next try.
LEMMA ClientInTurn ==
    ASSUME UploadTypes, InTurn, UNCHANGED <<contents, link, committed>>,
           client'.chunk = client.chunk, client'.at \notin {"idle", "wait"},
           client'.awaits = NoHandler,
           client'.at = "send" => \/ client'.retries > 0
                                  \/ ~committed /\ \A h \in Handlers : handler[h].at \notin Steps,
           client'.result = "success" => committed,
           \A g \in Handlers : handler'[g] = handler[g] \/ handler'[g].at = "free"
    PROVE  InTurn'
<1>1. \A g \in Handlers : handler'[g].at \in Steps => handler'[g] = handler[g]
  BY DEF Steps
<1>2. OneRuns'
  BY <1>1 DEF InTurn, OneRuns, Running
<1>3. AwaitsItsChunk' /\ AnswerTrue'
  BY DEF AwaitsItsChunk, AnswerTrue
<1>4. LinksDiffer' /\ PartGrows' /\ CommitWhole'
  BY DEF InTurn, LinksDiffer, PartGrows, CommitWhole
<1>5. HandlerDone'
  <2> SUFFICES ASSUME NEW g \in Handlers PROVE DoneBy(g)'
    BY DEF HandlerDone
  <2>1. CASE handler'[g] = handler[g]
    BY <2>1 DEF InTurn, HandlerDone, DoneBy
  <2>2. CASE handler'[g].at = "free"
    BY <2>2 DEF DoneBy, Steps
  <2> QED
    BY <2>1, <2>2
<1> QED
  BY <1>2, <1>3, <1>4, <1>5 DEF InTurn

\* The upload begins in turn.
LEMMA SubmitInTurn ==
    ASSUME UploadTypes, InTurn, Idle, Submit
    PROVE  InTurn'
<1>1. client \in Client /\ client.at = "idle"
  BY DEF UploadTypes, Submit
<1>2. /\ client'.at = "send" /\ client'.chunk = client.chunk
      /\ client'.awaits = client.awaits /\ client'.result = client.result
  BY <1>1 DEF Submit, Client
<1>3. client.awaits = NoHandler
  BY <1>1, AwaitsFacts
<1>4. ~committed /\ \A h \in Handlers : handler[h].at \notin Steps
  BY <1>1 DEF InTurn, CommitWhole, Idle, Steps
<1>5. client.result = "success" => committed
  BY DEF InTurn, CommitWhole
<1> QED
  BY <1>2, <1>3, <1>4, <1>5, ClientInTurn DEF Submit, files, history

\* A chunk sent while no request runs is in turn.
LEMMA SendInTurn ==
    ASSUME UploadTypes, InTurn, NEW h \in Handlers, Send(h), ~overlap'
    PROVE  InTurn'
<1>1. /\ \A g \in Handlers : g # h => handler'[g] = handler[g]
      /\ handler'[h].at = "open" /\ handler'[h].chunk = client.chunk
      /\ client'.at = "wait" /\ client'.awaits = h /\ client'.chunk = client.chunk
      /\ client'.retries = client.retries /\ client'.result = client.result
  BY SendShape
<1>2. /\ client.at = "send" /\ UNCHANGED <<contents, link, committed>>
      /\ ~(client.retries > 0 /\ (committed \/ \E g \in Handlers : GivenUp(g)))
  BY DEF Send, files
<1>3. client.awaits = NoHandler /\ \A g \in Handlers : g # NoHandler
  BY <1>2, AwaitsFacts
<1>4. \A g \in Handlers : handler[g].at \notin Steps
  <2>1. \A g \in Handlers : handler[g].at \in Steps => client.retries > 0 /\ GivenUp(g)
    BY <1>2, <1>3 DEF InTurn, OneRuns, Running, GivenUp
  <2> QED
    BY <1>2, <2>1
<1>5. ~committed
  BY <1>2 DEF InTurn, CommitWhole
<1>6. "open" \in Steps
  BY DEF Steps
<1>7. OneRuns'
  BY <1>1, <1>4 DEF OneRuns, Running
<1>8. AwaitsItsChunk' /\ AnswerTrue'
  BY <1>1, <1>3 DEF AwaitsItsChunk, AnswerTrue
<1>9. LinksDiffer' /\ PartGrows' /\ CommitWhole'
  BY <1>1, <1>2, <1>5 DEF InTurn, LinksDiffer, PartGrows, CommitWhole
<1>10. HandlerDone'
  <2> SUFFICES ASSUME NEW g \in Handlers PROVE DoneBy(g)'
    BY DEF HandlerDone
  <2>1. CASE g = h
    BY <1>1, <1>2, <1>5, <2>1 DEF DoneBy
  <2>2. CASE g # h
    <3>1. handler'[g] = handler[g] /\ handler[g].at \notin Steps
      BY <1>1, <1>4, <2>2
    <3> QED
      BY <3>1 DEF DoneBy, Steps
  <2> QED
    BY <2>1, <2>2
<1> QED
  BY <1>7, <1>8, <1>9, <1>10 DEF InTurn

\* An answer tells the client what the handler has done.
LEMMA ReceiveInTurn ==
    ASSUME UploadTypes, InTurn, NEW h \in Handlers, Receive(h)
    PROVE  InTurn'
<1>1. /\ client.awaits = h /\ handler[h].at \in Answers
      /\ UNCHANGED <<contents, link, committed>>
  BY DEF Receive, files, history
<1>2. client.at = "wait" /\ handler[h].at \notin Steps
  BY <1>1, AwaitsFacts DEF Answers, Steps
<1>3. /\ client'.awaits = NoHandler /\ Judged(handler[h].at)
  BY SettleJudges DEF Receive
<1>4. Gone(h)
  BY FreeGone DEF Receive
<1>5. \A g \in Handlers : g # h => handler'[g] = handler[g]
  BY <1>4 DEF Gone
<1>6. handler'[h].at = "free"
  BY <1>4 DEF Gone
<1>7. client.result = "success" => committed
  BY DEF InTurn, CommitWhole
<1>8. /\ client.chunk \in Nat /\ ChunkCount \in Nat
  BY ClientFields
<1>9. CASE /\ handler[h].at = "200" /\ client.chunk + 1 < ChunkCount
           /\ client'.at = "send" /\ client'.chunk = client.chunk + 1 /\ client'.retries = 0
           /\ client'.result = client.result
  <2>1. /\ ~committed /\ link["part"] # NoInode
        /\ contents[link["part"]] = Before(client.chunk + 1)
    <3>1. client.chunk + 1 # ChunkCount
      BY <1>8, <1>9
    <3> QED
      BY <1>1, <1>2, <1>9, <3>1 DEF InTurn, AnswerTrue
  <2>2. \A g \in Handlers : handler[g].at \notin Steps
    BY <1>1, <1>2 DEF InTurn, OneRuns, Running
  <2>3. "free" \notin Steps
    BY DEF Steps
  <2>4. \A g \in Handlers : handler'[g].at \notin Steps
    BY <1>5, <1>6, <2>2, <2>3
  <2>5. OneRuns'
    BY <2>4 DEF OneRuns, Running
  <2>6. AwaitsItsChunk' /\ AnswerTrue'
    BY <1>3, <1>9 DEF AwaitsItsChunk, AnswerTrue
  <2>7. LinksDiffer' /\ CommitWhole'
    BY <1>1, <1>9, <2>1 DEF InTurn, LinksDiffer, CommitWhole
  <2>8. PartGrows'
    <3>1. Before(client.chunk + 1) \subseteq Before((client.chunk + 1) + 1)
      BY <1>8 DEF Before
    <3> QED
      BY <1>1, <1>9, <2>1, <3>1 DEF PartGrows
  <2>9. HandlerDone'
    <3> SUFFICES ASSUME NEW g \in Handlers PROVE DoneBy(g)'
      BY DEF HandlerDone
    <3>1. handler'[g].at \notin Steps
      BY <2>4
    <3> QED
      BY <3>1 DEF DoneBy, Steps
  <2> QED
    BY <2>5, <2>6, <2>7, <2>8, <2>9 DEF InTurn
<1>10. CASE /\ handler[h].at = "200" /\ client.chunk + 1 = ChunkCount
            /\ client'.at = "done" /\ client'.chunk = client.chunk /\ client'.result = "success"
  <2>1. committed
    BY <1>1, <1>2, <1>10 DEF InTurn, AnswerTrue
  <2> QED
    BY <1>1, <1>3, <1>5, <1>6, <1>10, <2>1, ClientInTurn
<1>11. CASE /\ client'.at = "backoff" /\ client'.chunk = client.chunk
            /\ client'.result = client.result
  BY <1>1, <1>3, <1>5, <1>6, <1>7, <1>11, ClientInTurn
<1>12. CASE /\ client'.at = "done" /\ client'.chunk = client.chunk /\ client'.result = "failed"
  BY <1>1, <1>3, <1>5, <1>6, <1>12, ClientInTurn
<1> QED
  BY <1>3, <1>9, <1>10, <1>11, <1>12 DEF Judged

\* A lost connection leaves the request running alone.
LEMMA LoseConnectionInTurn ==
    ASSUME UploadTypes, InTurn, NEW h \in Handlers, LoseConnection(h)
    PROVE  InTurn'
<1>1. client'.awaits = NoHandler /\ Judged("none")
  BY SettleJudges DEF LoseConnection
<1>2. \A g \in Handlers : handler'[g] = handler[g] \/ handler'[g].at = "free"
  BY FreeGone DEF LoseConnection, Gone
<1>3. client.result = "success" => committed
  BY DEF InTurn, CommitWhole
<1>4. UNCHANGED <<contents, link, committed>>
  BY DEF LoseConnection, files, history
<1>5. CASE /\ client'.at = "backoff" /\ client'.chunk = client.chunk
           /\ client'.result = client.result
  BY <1>1, <1>2, <1>3, <1>4, <1>5, ClientInTurn
<1>6. CASE /\ client'.at = "done" /\ client'.chunk = client.chunk /\ client'.result = "failed"
  BY <1>1, <1>2, <1>4, <1>6, ClientInTurn
<1> QED
  BY <1>1, <1>5, <1>6 DEF Judged

\* Waiting for a retry and cancelling touch no file.
LEMMA RetryOrCancelInTurn ==
    ASSUME UploadTypes, InTurn, Retry \/ Cancel
    PROVE  InTurn'
<1>1. client \in Client /\ client.retries \in Nat
  BY ClientFields DEF UploadTypes
<1>2. client.result = "success" => committed
  BY DEF InTurn, CommitWhole
<1>3. UNCHANGED <<contents, link, committed, handler>>
  BY DEF Retry, Cancel, files, history
<1>4. CASE Retry
  <2>1. client.awaits = NoHandler
    BY <1>4, AwaitsFacts DEF Retry
  <2>2. /\ client'.at = "send" /\ client'.chunk = client.chunk
        /\ client'.retries = client.retries + 1
        /\ client'.awaits = client.awaits /\ client'.result = client.result
    BY <1>1, <1>4 DEF Retry, Client
  <2>3. client'.retries > 0
    BY <1>1, <2>2
  <2> QED
    BY <1>2, <1>3, <2>1, <2>2, <2>3, ClientInTurn
<1>5. CASE Cancel
  <2>1. /\ client'.at = "done" /\ client'.chunk = client.chunk
        /\ client'.awaits = NoHandler /\ client'.result = "cancelled"
    BY <1>1, <1>5 DEF Cancel, Ended, Client
  <2> QED
    BY <1>3, <2>1, ClientInTurn
<1> QED
  BY <1>4, <1>5

\* A request nobody waits for ends without a trace.
LEMMA VanishInTurn ==
    ASSUME UploadTypes, InTurn, NEW h \in Handlers, Vanish(h)
    PROVE  InTurn'
<1>1. /\ client.awaits # h /\ UNCHANGED <<client, contents, link, committed>>
  BY DEF Vanish, files, history
<1>2. Gone(h)
  BY FreeGone DEF Vanish
<1>3. (\A g \in Handlers : g # h => handler'[g] = handler[g]) /\ handler'[h].at = "free"
  BY <1>2 DEF Gone
<1>4. \A g \in Handlers : handler'[g].at \in Steps => handler'[g] = handler[g]
  BY <1>3 DEF Steps
<1>5. OneRuns'
  BY <1>1, <1>4 DEF InTurn, OneRuns, Running
<1>6. client.at = "wait" => handler'[client.awaits] = handler[client.awaits]
  <2>1. client.at = "wait" => client.awaits \in Handlers
    BY ClientFields DEF InTurn, AwaitsItsChunk
  <2> QED
    BY <1>1, <1>3, <2>1
<1>7. AwaitsItsChunk' /\ AnswerTrue'
  BY <1>1, <1>6 DEF InTurn, AwaitsItsChunk, AnswerTrue
<1>8. LinksDiffer' /\ PartGrows' /\ CommitWhole'
  BY <1>1 DEF InTurn, LinksDiffer, PartGrows, CommitWhole
<1>9. HandlerDone'
  <2> SUFFICES ASSUME NEW g \in Handlers PROVE DoneBy(g)'
    BY DEF HandlerDone
  <2>1. CASE g = h
    BY <1>3, <2>1 DEF DoneBy, Steps
  <2>2. CASE g # h
    BY <1>1, <1>3, <2>2 DEF InTurn, HandlerDone, DoneBy
  <2> QED
    BY <2>1, <2>2
<1> QED
  BY <1>5, <1>7, <1>8, <1>9 DEF InTurn

\* Somebody else's file is none of the upload's.
LEMMA OtherInTurn ==
    ASSUME UploadTypes, InTurn, OtherCreates
    PROVE  InTurn'
<1> DEFINE i == NewInode
<1>1. /\ i \in Inodes /\ ~InUse(i)
      /\ Linked("dst", i) /\ Stored(i, OthersFile)
      /\ link["dst"] = NoInode
      /\ UNCHANGED <<client, handler, crossDevice, stopSent, committed, overlap>>
  BY OtherShape
<1> HIDE DEF i
<1>2. /\ link'["dst"] = i /\ link'["part"] = link["part"] /\ link'["tmp"] = link["tmp"]
      /\ i # link["part"] /\ i # link["tmp"] /\ i # NoInode
  BY <1>1, NameFacts, PlaceFacts DEF Linked, InUse
<1>3. /\ link["part"] # NoInode => contents'[link["part"]] = contents[link["part"]]
      /\ link["tmp"] # NoInode => contents'[link["tmp"]] = contents[link["tmp"]]
      /\ contents'[i] = OthersFile
  BY <1>1, <1>2, NameFacts, LinkPlaces DEF Stored
<1>4. ~committed
  BY <1>1 DEF InTurn, CommitWhole
<1>5. OneRuns' /\ AwaitsItsChunk'
  BY <1>1 DEF InTurn, OneRuns, Running, AwaitsItsChunk
<1>6. LinksDiffer'
  BY <1>2, NameFacts DEF InTurn, LinksDiffer
<1>7. PartGrows' /\ AnswerTrue'
  BY <1>1, <1>2, <1>3 DEF InTurn, PartGrows, AnswerTrue
<1>8. CommitWhole'
  BY <1>1, <1>2, <1>3, <1>4 DEF InTurn, CommitWhole
<1>9. HandlerDone'
  <2> SUFFICES ASSUME NEW g \in Handlers PROVE DoneBy(g)'
    BY DEF HandlerDone
  <2>1. DoneBy(g)
    BY DEF InTurn, HandlerDone
  <2> QED
    BY <1>1, <1>2, <1>3, <2>1 DEF DoneBy
<1> QED
  BY <1>5, <1>6, <1>7, <1>8, <1>9 DEF InTurn

\* No step but the sending of a chunk makes requests overlap.
LEMMA OverlapLasts ==
    ASSUME overlap \in BOOLEAN, [UploadNext]_uploadVars, overlap
    PROVE  overlap'
<1>1. \A h \in Handlers : HandlerStep(h) => overlap' = overlap
  BY DEF HandlerStep, Open, Truncate, Write, CheckSize, CheckExists, Move, OpenCopy, Copy,
         RenameCopy, RemoveSource, Clean, history
<1>2. \A h \in Handlers : Receive(h) \/ LoseConnection(h) \/ Fails(h) \/ Vanish(h) => overlap' = overlap
  BY DEF Receive, LoseConnection, Fails, Vanish, history
<1>3. \A h \in Handlers : Send(h) => overlap'
  BY DEF Send
<1>4. Submit \/ Retry \/ Cancel \/ Stop \/ OtherCreates \/ UNCHANGED uploadVars => overlap' = overlap
  BY DEF Submit, Retry, Cancel, Stop, OtherCreates, uploadVars, history
<1> QED
  BY <1>1, <1>2, <1>3, <1>4 DEF UploadNext, ClientStep

\* Every step without an overlap keeps the upload in turn.
LEMMA WholeInvKept ==
    ASSUME FileInv, Idle, WholeInv, [UploadNext]_uploadVars
    PROVE  WholeInv'
<1> SUFFICES ASSUME ~overlap' PROVE InTurn'
  BY DEF WholeInv
<1>1. UploadTypes /\ overlap \in BOOLEAN
  BY DEF FileInv, UploadTypes
<1>2. InTurn
  BY <1>1, OverlapLasts DEF WholeInv
<1>3. ASSUME NEW h \in Handlers, HandlerStep(h) \/ Fails(h) PROVE InTurn'
  BY <1>1, <1>2, <1>3, OpenInTurn, TruncateInTurn, WriteInTurn, CheckInTurn, MoveInTurn,
     OpenCopyInTurn, CopyInTurn, RenameCopyInTurn, EndInTurn, FailsInTurn DEF HandlerStep
<1>4. ASSUME NEW h \in Handlers, Send(h) \/ Receive(h) \/ LoseConnection(h) \/ Vanish(h)
      PROVE  InTurn'
  BY <1>1, <1>2, <1>4, SendInTurn, ReceiveInTurn, LoseConnectionInTurn, VanishInTurn
<1>5. Submit \/ Retry \/ Cancel \/ OtherCreates => InTurn'
  BY <1>1, <1>2, SubmitInTurn, RetryOrCancelInTurn, OtherInTurn
<1>6. ASSUME UNCHANGED <<client, handler, contents, link, committed>> PROVE InTurn'
  <2>1. OneRuns' /\ AwaitsItsChunk' /\ LinksDiffer' /\ PartGrows'
    BY <1>2, <1>6 DEF InTurn, OneRuns, Running, AwaitsItsChunk, LinksDiffer, PartGrows
  <2>2. AnswerTrue' /\ CommitWhole'
    BY <1>2, <1>6 DEF InTurn, AnswerTrue, CommitWhole
  <2>3. HandlerDone'
    BY <1>2, <1>6 DEF InTurn, HandlerDone, DoneBy
  <2> QED
    BY <2>1, <2>2, <2>3 DEF InTurn
<1>7. Stop \/ UNCHANGED uploadVars => UNCHANGED <<client, handler, contents, link, committed>>
  BY DEF Stop, StopBody, uploadVars, history
<1> QED
  BY <1>3, <1>4, <1>5, <1>6, <1>7 DEF UploadNext, ClientStep

\* The upload starts in turn.
LEMMA WholeInvInit ==
    ASSUME UploadInit
    PROVE  WholeInv
<1>1. PICK exists \in BOOLEAN :
        /\ link = [n \in Names |-> IF n = "dst" /\ exists THEN 1 ELSE NoInode]
        /\ contents = [i \in Inodes |-> IF i = 1 /\ exists THEN OldFile ELSE {}]
  BY DEF UploadInit
<1>2. 1 \in Inodes
  <2>1. Cardinality(Handlers) \in Nat
    BY UploadAssumption, FS_CardinalityType
  <2> QED
    BY <2>1 DEF Inodes
<1>3. \A h \in Handlers : handler[h].at = "free"
  BY FreeFields DEF UploadInit
<1>4. link["part"] = NoInode /\ link["tmp"] = NoInode
  BY <1>1, NameFacts
<1>5. link["dst"] # NoInode => contents[link["dst"]] = OldFile
  <2>1. link["dst"] = IF exists THEN 1 ELSE NoInode
    BY <1>1, NameFacts
  <2> QED
    BY <1>1, <1>2, <2>1
<1>6. /\ client.at = "idle" /\ client.chunk = 0 /\ client.awaits = NoHandler
      /\ client.result = "none" /\ ~committed
  BY DEF UploadInit
<1>7. OneRuns /\ HandlerDone
  BY <1>3 DEF OneRuns, Running, HandlerDone, DoneBy, Steps
<1>8. AwaitsItsChunk /\ AnswerTrue
  BY <1>6 DEF AwaitsItsChunk, AnswerTrue
<1>9. LinksDiffer
  BY <1>4, NameFacts DEF LinksDiffer
<1>10. PartGrows /\ CommitWhole
  BY <1>4, <1>5, <1>6 DEF PartGrows, CommitWhole
<1> QED
  BY <1>7, <1>8, <1>9, <1>10 DEF WholeInv, InTurn

\* uploadChunkedFile and handleChunkUpload: for any number of chunks, retries
\* and requests, as long as no chunk was sent again beside a request that still
\* ran or after the commit, the destination is the old file, somebody else's or
\* the whole new one, and success is reported only for the whole new one.
THEOREM UploadsAreWhole == UploadSpec => []WholeUnlessOverlap
<1>1. UploadInit => FileInv /\ Idle /\ WholeInv
  BY FileInvInit, WholeInvInit
<1>2. FileInv /\ Idle /\ WholeInv /\ [UploadNext]_uploadVars => (FileInv /\ Idle /\ WholeInv)'
  BY FileInvKept, IdleKept, WholeInvKept DEF FileInv
<1>3. WholeInv => WholeUnlessOverlap
  BY DEF WholeInv, InTurn, CommitWhole, WholeUnlessOverlap
<1> QED
  BY <1>1, <1>2, <1>3, PTL DEF UploadSpec

=============================================================================
