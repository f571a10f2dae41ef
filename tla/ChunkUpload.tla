------------------------------ MODULE ChunkUpload ------------------------------
(***************************************************************************)
(* The upload of one file in chunks: the upload drawer of the web client   *)
(* (views/host/file-management/upload) and the node's chunk handler        *)
(* (node/api/files_chunk_media.go).                                        *)
(*                                                                         *)
(* The client sends the chunks one after the other and sends a chunk again *)
(* when no answer or a server error came back.  A request that the client  *)
(* has given up may still run, so handlers of one upload run at the same   *)
(* time, each step of a handler being a system call.  Files are inodes: a  *)
(* handler that opened the part file goes on writing to it after another   *)
(* handler has renamed it.                                                 *)
(*                                                                         *)
(* The contents of a file are the set of the chunks that were written to   *)
(* it; what is missing below its size reads as zeros.                      *)
(***************************************************************************)
EXTENDS Naturals, FiniteSets, FiniteSetsExt

CONSTANTS
    Handlers,          \* requests that may run in the node at the same time
    NoHandler,         \* no request is awaited
    ChunkCount,        \* chunks of the file
    MaxChunkRetries    \* MAX_CHUNK_RETRIES

ASSUME UploadAssumption ==
    /\ IsFiniteSet(Handlers) /\ NoHandler \notin Handlers
    /\ ChunkCount \in Nat \ {0}
    /\ MaxChunkRetries \in Nat

VARIABLES
    client,       \* the upload in the drawer
    handler,      \* handler -> the request it serves
    contents,     \* inode -> what was written to it
    link,         \* the names of files -> their inodes
    crossDevice,  \* is the chunk directory on another mount?
    stopSent,     \* is a stop request under way?
    committed,    \* history: has this upload replaced the destination?
    overlap,      \* history: was a chunk sent again beside a request that was
                  \* given up, or after the commit?
    raced         \* history: was the destination created between the check and
                  \* the rename?

files == <<contents, link>>
history == <<committed, overlap, raced>>
uploadVars == <<client, handler, contents, link, crossDevice, stopSent, history>>

Chunks == 0 .. ChunkCount - 1
NoInode == 0
Inodes == 1 .. 4 + 2 * Cardinality(Handlers)
Names == {"part", "tmp", "dst"}

\* The destination as the upload found it, and a file that someone else makes
\* there: marks that are no chunks of this upload.
OldFile == {ChunkCount}
OthersFile == {ChunkCount + 1}
Whole == Chunks

Answers == {"200", "400", "409", "500"}

Steps == {"open", "truncate", "write", "size", "exists", "move", "tmp", "copy",
          "rename", "remove", "clean"}

Free == [at |-> "free", chunk |-> 0, file |-> NoInode, copy |-> NoInode]

Running(h) == handler[h].at \in Steps

GivenUp(h) == Running(h) /\ client.awaits # h

-----------------------------------------------------------------------------
(* The client                                                              *)

\* submit: a file that exists is uploaded only when the user chooses to
\* overwrite it.
Submit ==
    /\ client.at = "idle"
    /\ client' = [client EXCEPT !.at = "send", !.overwrite = link["dst"] # NoInode]
    /\ UNCHANGED <<handler, files, crossDevice, stopSent, history>>

\* chunkUploadFileData
Send(h) ==
    /\ client.at = "send"
    /\ handler[h].at = "free"
    /\ handler' = [handler EXCEPT ![h] = [Free EXCEPT !.at = "open", !.chunk = client.chunk]]
    /\ client' = [client EXCEPT !.at = "wait", !.awaits = h]
    /\ overlap' = (overlap \/ (client.retries > 0 /\ (committed \/ \E g \in Handlers : GivenUp(g))))
    /\ UNCHANGED <<files, crossDevice, stopSent, committed, raced>>

Ended(result) == [client EXCEPT !.at = "done", !.awaits = NoHandler, !.result = result]

\* shouldRetryChunkUpload and MAX_CHUNK_RETRIES; no status is a request
\* without an answer.
MayRetry(status) == status \in {"none", "500"} /\ client.retries < MaxChunkRetries

Accepted(status) == status = "200"

\* uploadChunkWithRetry and the loop of uploadChunkedFile; when an error is
\* thrown, cleanupActiveChunkUpload sends a stop request.
Settle(status) ==
    \/ /\ Accepted(status)
       /\ client.chunk + 1 < ChunkCount
       /\ client' = [client EXCEPT !.at = "send", !.awaits = NoHandler,
                                   !.chunk = @ + 1, !.retries = 0]
       /\ UNCHANGED stopSent
    \/ /\ Accepted(status)
       /\ client.chunk + 1 = ChunkCount
       /\ client' = Ended("success")
       /\ UNCHANGED stopSent
    \/ /\ MayRetry(status)
       /\ client' = [client EXCEPT !.at = "backoff", !.awaits = NoHandler]
       /\ UNCHANGED stopSent
    \/ /\ ~Accepted(status) /\ ~MayRetry(status)
       /\ client' = Ended("failed")
       /\ stopSent' = TRUE

Receive(h) ==
    /\ client.awaits = h
    /\ handler[h].at \in Answers
    /\ Settle(handler[h].at)
    /\ handler' = [handler EXCEPT ![h] = Free]
    /\ UNCHANGED <<files, crossDevice, history>>

\* The connection breaks while the client waits.  The node has the whole
\* request, or drops it.
LoseConnection(h) ==
    /\ client.awaits = h
    /\ Settle("none")
    /\ \/ UNCHANGED handler
       \/ /\ handler[h].at = "open"
          /\ handler' = [handler EXCEPT ![h] = Free]
    /\ UNCHANGED <<files, crossDevice, history>>

\* Mutant: the retries are not counted.
RetryUncounted ==
    /\ client.at = "backoff"
    /\ client' = [client EXCEPT !.at = "send"]
    /\ UNCHANGED <<handler, files, crossDevice, stopSent, history>>

\* waitForChunkRetry
Retry ==
    /\ client.at = "backoff"
    /\ client' = [client EXCEPT !.at = "send", !.retries = @ + 1]
    /\ UNCHANGED <<handler, files, crossDevice, stopSent, history>>

\* handleClose, confirmed by the user: the signal ends the request, the wait
\* or the loop, and a stop request is sent.
Cancel ==
    /\ client.at \in {"send", "wait", "backoff"}
    /\ client' = Ended("cancelled")
    /\ stopSent' = TRUE
    /\ UNCHANGED <<handler, files, crossDevice, history>>

-----------------------------------------------------------------------------
(* The file system                                                         *)

InUse(i) ==
    \/ \E n \in Names : link[n] = i
    \/ \E h \in Handlers : handler[h].file = i \/ handler[h].copy = i

NewInode == Min({i \in Inodes : ~InUse(i)})

\* os.OpenFile with O_CREATE
Opened(name) == IF link[name] = NoInode THEN NewInode ELSE link[name]

\* The size of a file, in chunks.
Size(i) == IF contents[i] = {} THEN 0 ELSE Max(contents[i]) + 1

-----------------------------------------------------------------------------
(* handleChunkUpload                                                       *)

\* A step that leaves no file open.
GoTo(h, at) ==
    handler' = [handler EXCEPT ![h] = [Free EXCEPT !.at = at, !.chunk = handler[h].chunk]]

Answer(h, status) == GoTo(h, status)

Open(h) ==
    /\ handler[h].at = "open"
    /\ handler' = [handler EXCEPT ![h].file = Opened("part"),
                                  ![h].at = IF handler[h].chunk = 0 THEN "truncate" ELSE "write"]
    /\ link' = [link EXCEPT !["part"] = Opened("part")]
    /\ contents' = IF link["part"] = NoInode
                   THEN [contents EXCEPT ![NewInode] = {}] ELSE contents
    /\ UNCHANGED <<client, crossDevice, stopSent, history>>

\* Only the first chunk truncates.
Truncate(h) ==
    /\ handler[h].at = "truncate"
    /\ contents' = [contents EXCEPT ![handler[h].file] = {}]
    /\ handler' = [handler EXCEPT ![h].at = "write"]
    /\ UNCHANGED <<client, link, crossDevice, stopSent, history>>

\* Mutant: the file is cut off before every chunk.
CutOff(h) == {handler[h].chunk}

\* Seek to the offset and copy.
Written(h) == contents[handler[h].file] \cup {handler[h].chunk}

Write(h) ==
    /\ handler[h].at = "write"
    /\ contents' = [contents EXCEPT ![handler[h].file] = Written(h)]
    /\ IF handler[h].chunk + 1 = ChunkCount THEN GoTo(h, "size") ELSE Answer(h, "200")
    /\ UNCHANGED <<client, link, crossDevice, stopSent, history>>

\* The size of the part file, by name.
CheckSize(h) ==
    /\ handler[h].at = "size"
    /\ IF link["part"] = NoInode \/ Size(link["part"]) # ChunkCount
       THEN Answer(h, "400")
       ELSE GoTo(h, IF client.overwrite THEN "move" ELSE "exists")
    /\ UNCHANGED <<client, files, crossDevice, stopSent, history>>

\* Mutant: the destination is not looked at.
NeverExists == FALSE

DestinationExists == link["dst"] # NoInode

CheckExists(h) ==
    /\ handler[h].at = "exists"
    /\ IF DestinationExists THEN Answer(h, "409") ELSE GoTo(h, "move")
    /\ UNCHANGED <<client, files, crossDevice, stopSent, history>>

Commit(name) ==
    /\ link' = [link EXCEPT !["dst"] = link[name], ![name] = NoInode]
    /\ committed' = TRUE

\* moveChunkIntoPlace: os.Rename
Move(h) ==
    /\ handler[h].at = "move"
    /\ \/ /\ link["part"] = NoInode
          /\ Answer(h, "500")
          /\ UNCHANGED <<link, committed>>
       \/ /\ link["part"] # NoInode
          /\ crossDevice
          /\ GoTo(h, "tmp")
          /\ UNCHANGED <<link, committed>>
       \/ /\ link["part"] # NoInode
          /\ ~crossDevice
          /\ Commit("part")
          /\ GoTo(h, "clean")
    /\ UNCHANGED <<client, contents, crossDevice, stopSent, overlap, raced>>

\* The copy on the file system of the destination, with O_TRUNC.
OpenCopy(h) ==
    /\ handler[h].at = "tmp"
    /\ \/ /\ link["part"] = NoInode
          /\ Answer(h, "500")
          /\ UNCHANGED files
       \/ /\ link["part"] # NoInode
          /\ link' = [link EXCEPT !["tmp"] = Opened("tmp")]
          /\ contents' = [contents EXCEPT ![Opened("tmp")] = {}]
          /\ handler' = [handler EXCEPT ![h].at = "copy", ![h].file = link["part"],
                                        ![h].copy = Opened("tmp")]
    /\ UNCHANGED <<client, crossDevice, stopSent, history>>

Copy(h) ==
    /\ handler[h].at = "copy"
    /\ contents' = [contents EXCEPT ![handler[h].copy] = contents[handler[h].file]]
    /\ GoTo(h, "rename")
    /\ UNCHANGED <<client, link, crossDevice, stopSent, history>>

RenameCopy(h) ==
    /\ handler[h].at = "rename"
    /\ IF link["tmp"] = NoInode
       THEN Answer(h, "500") /\ UNCHANGED <<link, committed>>
       ELSE Commit("tmp") /\ GoTo(h, "remove")
    /\ UNCHANGED <<client, contents, crossDevice, stopSent, overlap, raced>>

RemoveSource(h) ==
    /\ handler[h].at = "remove"
    /\ IF link["part"] = NoInode THEN Answer(h, "500") ELSE GoTo(h, "clean")
    /\ link' = [link EXCEPT !["part"] = NoInode]
    /\ UNCHANGED <<client, contents, crossDevice, stopSent, history>>

\* os.RemoveAll of the upload's directory, then the answer.
Clean(h) ==
    /\ handler[h].at = "clean"
    /\ link' = [link EXCEPT !["part"] = NoInode]
    /\ Answer(h, "200")
    /\ UNCHANGED <<client, contents, crossDevice, stopSent, history>>

\* A system call fails.  A copy that failed is removed.
Fails(h) ==
    /\ handler[h].at \in {"open", "write", "exists", "move", "tmp", "copy", "rename", "remove"}
    /\ Answer(h, "500")
    /\ link' = IF handler[h].at \in {"copy", "rename"}
               THEN [link EXCEPT !["tmp"] = NoInode] ELSE link
    /\ UNCHANGED <<client, contents, crossDevice, stopSent, history>>

\* The answer of a request that was given up goes nowhere.
Vanish(h) ==
    /\ client.awaits # h
    /\ handler[h].at \in Answers
    /\ handler' = [handler EXCEPT ![h] = Free]
    /\ UNCHANGED <<client, files, crossDevice, stopSent, history>>

\* The body that stopChunkUpload posts.
StopBody == [key |-> "upload", uploadID |-> "", id |-> ""]

\* handleFileChunkUploadStop: refused without uploadID and id.
Stop ==
    /\ stopSent
    /\ stopSent' = FALSE
    /\ link' = IF StopBody.uploadID = "" /\ StopBody.id = "" THEN link
               ELSE [link EXCEPT !["part"] = NoInode]
    /\ UNCHANGED <<client, handler, contents, crossDevice, history>>

-----------------------------------------------------------------------------

\* Someone else makes a file where the destination will be.
OtherCreates ==
    /\ link["dst"] = NoInode
    /\ link' = [link EXCEPT !["dst"] = NewInode]
    /\ contents' = [contents EXCEPT ![NewInode] = OthersFile]
    /\ raced' = (raced \/ \E h \in Handlers :
                    handler[h].at \in {"move", "tmp", "copy", "rename"})
    /\ UNCHANGED <<client, handler, crossDevice, stopSent, committed, overlap>>

-----------------------------------------------------------------------------

UploadInit ==
    /\ client = [at |-> "idle", chunk |-> 0, retries |-> 0, overwrite |-> FALSE,
                 awaits |-> NoHandler, result |-> "none"]
    /\ handler = [h \in Handlers |-> Free]
    /\ \E exists \in BOOLEAN :
        /\ link = [n \in Names |-> IF n = "dst" /\ exists THEN 1 ELSE NoInode]
        /\ contents = [i \in Inodes |-> IF i = 1 /\ exists THEN OldFile ELSE {}]
    /\ crossDevice \in BOOLEAN
    /\ stopSent = FALSE
    /\ committed = FALSE /\ overlap = FALSE /\ raced = FALSE

HandlerStep(h) ==
    \/ Open(h) \/ Truncate(h) \/ Write(h) \/ CheckSize(h) \/ CheckExists(h)
    \/ Move(h) \/ OpenCopy(h) \/ Copy(h) \/ RenameCopy(h) \/ RemoveSource(h)
    \/ Clean(h)

ClientStep ==
    \/ Retry
    \/ \E h \in Handlers : Send(h) \/ Receive(h)

UploadNext ==
    \/ Submit
    \/ ClientStep
    \/ Cancel
    \/ Stop
    \/ OtherCreates
    \/ \E h \in Handlers : HandlerStep(h) \/ LoseConnection(h) \/ Fails(h) \/ Vanish(h)

\* Handlers run, timers fire, and an answer arrives unless the connection
\* breaks.
UploadFairness ==
    /\ WF_uploadVars(ClientStep)
    /\ \A h \in Handlers : WF_uploadVars(HandlerStep(h) \/ Vanish(h))

UploadSpec == UploadInit /\ [][UploadNext]_uploadVars /\ UploadFairness

-----------------------------------------------------------------------------

\* uploadChunkedFile and handleChunkUpload under retries, lost answers, failing
\* system calls and both ways of moving the file: when no chunk was sent again
\* beside a request that still ran or after the commit, the destination is at
\* every moment the old file, somebody else's file or the whole new one, and the
\* client reports success only for the whole new one, also when someone else
\* made a file there meanwhile.
WholeUnlessOverlap ==
    ~overlap =>
        /\ link["dst"] # NoInode => contents[link["dst"]] \in {OldFile, OthersFile, Whole}
        /\ client.result = "success" => link["dst"] # NoInode /\ contents[link["dst"]] = Whole

\* The commit of the last chunk and somebody else's file: a file that the user
\* has not agreed to overwrite is replaced only when it was made between the
\* check and the rename.
OthersFileStandsUnlessRaced ==
    [][(link["dst"] # NoInode /\ contents[link["dst"]] = OthersFile /\ link'["dst"] # link["dst"])
            => client.overwrite \/ raced]_uploadVars

\* uploadChunkWithRetry: an upload ends, whatever happens to its requests,
\* because the retries are counted.
UploadSettles == (client.at # "idle") ~> (client.at = "done")

\* The comment of handleChunkUpload, that the last chunk commits the upload with
\* an atomic rename: what the client reports as uploaded is the whole file,
\* whether requests were repeated or not.
SuccessIsWhole ==
    client.result = "success" => contents[link["dst"]] = Whole

=============================================================================
