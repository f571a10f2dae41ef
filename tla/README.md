# WorkMesh Server in TLA+

WorkMesh Server is one Go process with a Vue front end. It is a control plane
(roles, node registry, gateway, sessions) and a node (Agent teams, task
sandboxes, websites, databases, containers) in one binary, with one SQLite
database. This directory models the parts of it that are protocols: where
several agents, users, nodes, goroutines, browser callbacks or system calls
meet over shared state.

## Inventory

| Part | State it keeps | Operations | Interacts with | What is hard |
|---|---|---|---|---|
| Agent runtime leases (`node/api/agent_team.go`) | rows of `AgentRuntimes`: status, fencing token, lease, last sequence | register, heartbeat, unregister, events, expiry | command queue, event log | stale tokens, repeated batches, clocks |
| Agent team tasks and commands (same file) | `TeamTasks`, `AgentCommands` | create, input, cancel, complete, retry, approve, reject, events, poll, ack | leases, event log | late reports, redelivery, failover, budget, dependency chains |
| Event log and streams (same file, `ai_execution.go`) | `TeamEvents`, `TeamSequences`, `s.notify`, one loop per connection | append, save, roll back, read, write, wake, restart | all handlers of the team state | lost wake-ups, failed saves, crash, retention window |
| Role manager (`runtime/role`) | role, epoch, saved state | switch, load, save | both front doors, task stream | racing commits, failed saves, restart |
| Role front doors (`control/api/role.go`, `runtime/link/server_fencing.go`) | one prepared transition each | check, prepare, commit, abort | role manager | handlers of several critical sections |
| Link sync (`runtime/link`) | versioned streams in memory, file or SQLite; nonces | pull, push, replay protection, client retries | role manager | check and store under different locks, retries |
| Task runtime provider (`node/service/taskruntime`) | task handles | create, start, exec, collect, destroy, restore | task routes, task CLI | backend calls between read and write of the state |
| AI task sandboxes (`node/api/ai_tasks_sandbox.go`) | task records in `ai_state`, AI job slots | create, start, cancel, collect, destroy, recover, sync, restart | provider, storage, runtime limits | failed saves after the fact, compensations, four pieces of state under four locks |
| Chunked upload (`web/.../file-management/upload`, `node/api/files_chunk_media.go`) | upload in the drawer; part files | send chunk, retry, cancel; open, write, check, move | file system | abandoned requests, repeated chunks, partial failure |
| Process socket (`web/src/store/modules/process.ts`, `node/api/process.go`) | shared socket, pending and queued request, timers | mount, unmount, poll, open, message, close | browser event loop | stale awaits, late close events |
| Container log (`web/src/components/log/container`, `node/api/container_log_stream.go`) | generation, last event id; event history | search, close, reconnect; write, replay, close | docker | aborted streams, bounded replay |
| Node registry (`control/api/role.go`) | node records | register, approve, delete, heartbeat | storage | failed saves |
| Runtime limits, operation locks (`node/api`) | counters, lock table | acquire, release | nearly all routes | leaks, limits |
| Scheduler, cron jobs | schedules, records | tick, run, stop | command execution | overlapping runs |
| Artifacts, deployment plans, node relay, gateway, security, websites, databases, certificates, web front end | files, records | see PROJECT.json | external programs | mostly input and output |

`PROJECT.json` lists all of them with their status, the hazards with their
lines, and the map from definitions to source lines.

## Modules

    TeamLease      leases and fencing of a project's runtimes
      AgentTeam    EXTENDS TeamLease: tasks, commands, users, failover
    TeamEvents     event log, persistence, SSE streams
    FencedNode     what a node's role and task stream promise, in atomic steps
      RoleFencing  role manager, both front doors, pushes: implements FencedNode
    SandboxTasks   a sandbox task: routes, provider, job slot, saved record
    ChunkUpload    a file uploaded in chunks: drawer and handlers
    ProcessSocket  the socket that the process and network pages share
    ContainerLog   a followed container log: view and event stream
    *_proofs       theorems about each of them (those about FencedNode are in
                   RoleFencing_proofs)
    MC*            instances for TLC

Operators marked "Mutant" in a comment are wrong variants of the definition
below them. No specification uses them; each shows, when put in the place of
that definition, that some property notices.

### TeamLease

`runtimes` is `s.data.AgentRuntimes` of one project. Every handler holds `s.mu`
from its first check to its save and `saveTeamStateLocked` restores what it
copied when the save fails, so a handler is one action and a failed save is a
stuttering step here (the save itself is the subject of TeamEvents). A restart
that loads the saved state changes nothing either; one that cannot load it
begins the project anew (see TeamEvents), and is not modelled here: old tokens
then match no row. Tokens are
numbered in the order they are issued; because a registration moves its row to
the end of the list, token order is list order, and "the first row such that"
is `FirstRow`. The wall clock is `LeaseTick`; a lease is kept as the time left,
so that `After`, equal and `Before` stay three cases. `applied` and `quit` are
history variables.

### AgentTeam

All handlers over `TeamTasks` and `AgentCommands`, conjoined with the lease
actions. `activateReadyTeamTasksLocked` is the relation `Settles`: the list
is visited in order and the new statuses of earlier tasks count. A handler that
enqueues several commands passes them as numbered items, in code order, to one
`Enqueue`. A poll that finds nothing changes no state and is left out; so is
the text of tasks, handoff and artifact history, and `approvalStatus`, which no
code reads. Compaction is applied after every enqueueing handler and every
acknowledgement, as in the code. Uploads carry one fresh event each: the code
applies the events of a batch one by one and activates after each, so a batch
is a sequence of such steps. The lease is read once per handler. `Used` counts
the units of the occupying tasks one by one instead of adding them up: the same
number, without a recursive sum, so that it can be reasoned about.

The retry handler enqueues the cancellation of the old attempt before the start
of the new one. `CancelBeforeRestart` says when the runtime is bound to see them
in this order: always, unless the two commands are addressed to different
runtimes, one of which has unregistered and renewed its lease. The attempt to
prove it without this exception failed on exactly that behaviour, which TLC then
found with two runtimes and two tasks; see "Seen while modelling".

### TeamEvents

`AppendEvents`, `Save` and `SaveFails` are the three moments of a handler: a
snapshot and the change in memory, the save followed by closing `s.notify`, or
the restored snapshot. A handler holds the lock for the whole time (`before` is
not `Free`), but a stream writes without the lock, so its writes fall between
them. The sweep of leases inside the stream's critical section is one more such
handler. A stream is the loop of `serveTeamSSE`: `Read` copies events and channel under the
lock, `WriteEvent`, `Park`, then `Wake` or `Timer`. The client is external:
it reconnects with the last id it has seen and starts again from a snapshot
after `EVENT_CURSOR_EXPIRED`. `Disconnect` picks how much of what was written
had arrived. `Restart` requires that no stream is open: a crash is the
disconnections, which are possible at any time and need no lock, followed by
the restart. `RestartEmpty` is the restart on which `loadJSONState` fails, on
the query or on the JSON: `getAIState` then goes on with an empty state, the
node numbers events from 1 again, and the next save writes over what was on
disk. It sets `renumbered` for every client, the one exception of the delivery
properties besides `lagged`; a new subscription clears it.

### RoleFencing

A request is a goroutine that remembers what it read in its last critical
section (`call`). `PrepareCheck`/`PrepareStore` and
`CommitRead`/`CommitSwitch`/`CommitClear` are the critical sections of the
handlers of both doors, `PushCheck`/`PushStore` those of the push handler with
the SQLite store. The doors differ in two points, which the model keeps: only the link
door validates the target and refuses to replace another operation. The version
in a push is one that the server has handed out before. Restart loads the saved
state; `RestartFallback` is `NewRoleManager` after an error. A node without
`WORKMESH_DATA_DIR` keeps no state at all and is not modelled.

`FencedNode` is the specification a client of the node would write: a role, an
epoch, a register. `ImplementsFencedNode` maps the manager's state and the
stream to it and says that nothing but its atomic steps is ever seen, although
each handler takes several critical sections under different locks. The promise
ends with a start that could not load the saved role.

### SandboxTasks

One task, described in four places: the provider's handle (`task`, under
`p.mu`), the sandbox behind the CLI (`box`, external), the AI job slot (`slot`)
and the record in `ai_state` (`rec` in memory, `disk` as saved). A request goes
from one critical section to the next; `call` holds what it has read. `Read`
and `Refused` are the first section of the provider's operations, `Backend` and
`BackendFails` the call of the CLI without a lock, `Store` the second section,
then `Release`, `Save` or `SaveFails`, and `Mark`. `create` that cannot save
goes on as `undo`, `start` that cannot save as `halt`. A CLI call may take
effect and still fail: its context ends with the HTTP request. `history`
remembers which of the few events happened after which a property need not
hold, so that the properties say exactly what breaks what. `Restart` loads the
record and inspects its sandbox; `RestartEmpty` is the failed load of
`getAIState`, after which memory has no record, the disk may have one
(`unread`), and the next save wipes it. A restart of either kind resets the
history but for `cutOff` and `stranded`, since it forgets slots and requests.
`Inspected` is what `validInspectedState` lets through: a sandbox that is gone
may be not found or found as destroyed or awaiting a human. That the CLI never
reports a live sandbox as awaiting_human is assumed, after
`docs/api/ai-tasks.md:116`. The slots of other tasks are left out; `failed`
counts as `completed`.

### ChunkUpload

The client is the loop of `uploadChunkedFile` with `uploadChunkWithRetry`; the
node's handlers are sequences of system calls (`open`, `truncate`, `write`,
`size`, ...), and a request that the client gave up still runs. Files are
inodes with names, because a handler writes to a part file that another has
renamed. The contents of a file are the set of chunks written; a hole is a
chunk that is missing. `crossDevice` chooses between the rename and the copy of
`moveChunkIntoPlace`. The stop request is modelled with the body the client
really sends.

### ProcessSocket

Actions are the tasks of the browser's event loop. `InitWebSocket` and
`AuthChecked` are the two halves of `initWebSocket` around its await. A socket
the store closes reports its close event later (`CloseEvent`) but no messages,
as the WebSocket standard has it. The two pages are tabs of one view, so that
one is mounted at a time. The node answers the requests of a connection in
order. The store's map entries name `connect`, `disconnect` and `startPolling`;
the pages call them in `onMounted` and `onUnmounted` (`views/host/process`).

### ContainerLog

One set of parameters, followed. Every connection has its own
`docker logs --follow --tail`, so that a reconnection prints the tail again
under new ids while the shared history replays the old ones. The handler only
starts docker, replays and says `ready` (`Replay`); docker opens the log and
evaluates `--tail` in a step of its own (`Attach`), before or after that, and
what is logged in between counts. `Heartbeat` takes ids and room in the history
like any event. `out` is what is
on its way to the view; an aborted connection may still deliver one chunk that
was read before. A log line is its position, and the terminal a set of lines
with the generation of the stream that wrote them: duplicates, which the code
does produce after a reconnection, are not counted. `printed` and `lapsed` are
history variables: the lines some handler remembered since the search, and
whether something happened that may cost lines, namely lines that passed while
no handler ran and that docker's new tail does not reach, an eviction of an event the
view had not seen, a line printed ahead of the replay that it moves the cursor
past, or ids out of order because two handlers ran beside each other. `close`
stands for the event `error` too, which ends the view as well. The
eviction of whole histories (`maxContainerSSEStreams`) is left out.
`EventsAfter` selects the events to replay by counting the ones before each,
because SelectSeq is recursive.

## Runs

| Run | Configuration | Shows |
|---|---|---|
| leases | MCTeamLease | exactly-once application of events, fencing, one holder |
| dispatch | MCDispatch | starts are current, single, and behind the cancellation of the old attempt; failover loses and reorders nothing; user decisions stand against late events; every queued command wakes the polls |
| chain | MCChain | admission respects dependencies and budget; every end of a task reaches the waiting ones |
| retry | MCRetry | the same for tasks of different sizes with new attempts: every handler but retry leaves no waiting task behind |
| events | MCTeamEvents | durable before visible, no lost wake-up, complete and ordered delivery, delivery under fairness without the timer |
| roles | MCRoleFencing | one role per epoch, a new epoch's push never overwritten by an old one's, refinement of FencedNode |
| upload | MCUpload | no torn destination, no false success, foreign files kept, every upload ends |
| process_socket | MCProcessSocket | answers matched, no orphaned socket, leaving disconnects, open pages get data |
| container_log | MCContainerLog | old streams silent, no gap after reconnection but for named lapses, the view catches up |
| sandbox_tasks | MCSandboxTasks | types; handle, sandbox, slot and record agree, up to named events |
| stuck_waiting | MCStuckWaiting | a retry leaves tasks that nobody starts |
| torn_upload | MCTornUpload | a repeated last chunk replaces a good file by one with a hole |

The last two runs end in a counterexample on purpose. Each checks a sentence
of the documentation or of a comment that the code does not keep; PROJECT.json
quotes it under `findings`. The properties of the passing runs say what the
code keeps instead: settled unless retried, whole unless overlapped, fenced
unless it unregistered, complete unless lagged or renumbered, kept unless
fallen back. Each exception is a history variable that only the named events
set, so that a property fails as soon as any other way leads there.

### Seen while modelling

Behaviours of the models that a maintainer may want to know. Each is reachable
in a passing run as the exception of a property, or in a note of a hazard.

* A fenced runtime that unregisters becomes offline, and its next heartbeat
  gives it a lease again (`quit`; `agent_team.go:428`, against
  `docs/api/agent-team.md:41`).
* The same return can reorder a retry: a waiting task's retry sends its `cancel`
  to the live runtime; when the fenced one has come back this way and its row is
  the first again, the `start` that follows admission goes there, and nothing
  makes the one poll before the other (`agent_team.go:852`).
* A fenced runtime whose row comes first in the list may register over the live
  one (`agent_team.go:167`).
* A start accepted while the lease has lapsed is dropped, and the heartbeat
  that renews the lease does not bring it back (`agent_team.go:858`).
* A stream slower than the retention window skips events without
  `EVENT_CURSOR_EXPIRED`, which is only sent at the start (`lagged`).
* A node that cannot load its state goes on with an empty one
  (`ai_execution.go:136`, `control_store.go:183`), and its next save overwrites
  what it could not read: tasks, runtimes and records are gone, events are
  numbered from 1 again, and a client that reconnects with its old cursor gets
  no new event until the numbers have passed it (`renumbered`, `unread`).
* A node whose saved role cannot be loaded starts again as a secondary of epoch
  1 (`fellBack`), although `runtime/role/manager.go` reports the error to avoid
  just that. A commit clears the prepared transition whoever prepared it.
* A push checked just before a role switch is stored after it: the stream then
  holds a push of the old epoch, but never again after one of the new epoch.
* Start racing with destroy leaves the provider with a running task whose
  sandbox is gone. After a restart, running tasks hold no job slot. When
  `recover`, a failed cleanup or the restoring cannot save, the record is not
  flagged, and `sync` refuses to repair it.
* `recover` takes over "destroyed" from the CLI and leaves the job slot alone
  (`taskruntime.go:364`). After a cancel and a destroy that were cut off, the
  destroyed task holds its slot until the next restart, since no operation can
  free it any more (`foundGone`).
* Nothing sweeps lapsed leases by itself: only status queries and streams do
  (`agent_team.go:575`).
* The stop request of an upload is refused, because it names the upload `key`
  and the handler reads `uploadID` or `id`; part files of failed uploads stay.
* The process store keeps `pendingRequestType` over a closed connection: if an
  answer was due, every later request is queued and none sent. A late close
  event takes the new socket from the store (`lost`, `late`).
* `Last-Event-ID` does not always fill in what was missed, as
  `container_log_stream.go:83` has it: lines logged while no handler ran and out
  of reach of docker's tail, lines evicted before the view saw them, lines
  printed ahead of the replay, and lines whose ids two handlers mixed up can
  be missing (`lapsed`).
* The container log's history replays the `close` event of an earlier
  connection, also to a new search without `Last-Event-ID`; the view then stops
  following.

### Bounds

* Leases: three runtimes, three registrations, two event numbers, a lease of two
  ticks. Three registrations let a runtime return after it was overtaken; two
  events make a gap, a repetition and an overlap.
* AgentTeam: one task with two attempts for the queue, two tasks of
  sizes 1 and 2 under a budget of 2 for retries, three tasks with every
  dependency list of at most two (32 in the code) for chains and joins. The pending limit is
  small enough to be reached. `MaxPoll = 1` lets a poll split a cancellation
  from its start. `CommandHistory` is 0 or 1, so that compaction happens.
  Tasks depend only on earlier tasks, because the code refuses unknown ids.
  With one task, MCDispatch does not reach the exception of
  `CancelBeforeRestart`, which needs a second one to keep the first waiting;
  the theorem covers it.
* TeamEvents: a window of two events and up to four events, so that the window
  moves twice past a reader. One client, reading the stream of a task: clients
  meet only in the lock, whose order is free anyway, and in the stream limit,
  which can only keep one out. The safety theorems hold for any number.
* RoleFencing: two requests, two operations, three epochs and two versions: a
  push is overtaken by a switch and by another push, and a commit by a commit.
* SandboxTasks: two requests at a time, in any number one after the other; two
  suffice for every pair of operations to overlap at every step.
* ChunkUpload: three chunks, so that there is a first, a middle and a last one;
  two handlers, so that one request may be abandoned beside the current one;
  one retry per chunk (three in the code). MCTornUpload needs only two chunks
  and one handler to find its counterexample.
* ProcessSocket: three mounts and three sockets: a page left, another entered
  and left, with the sockets of both still closing.
* ContainerLog: two connections, two lines, a tail of one line and a history
  of three events, so that both are outrun; heartbeats with ids up to two; two
  searches, closings or breaks. The theorems do not depend on them.

Symmetry is used for runtimes, requests and operation ids where only safety is
checked. The deadlock check is off where the bounds or the end of the system
stop everything: an upload that is over, a page that is not mounted again, a
log that gets no more lines.

### Fairness

* TeamLease and AgentTeam state no fairness: their properties are safety
  properties, and the code has no sweep of its own that would publish a lapse.
* TeamEvents: a handler that holds the lock finishes (weak fairness of the
  save). A stream goes on while its client reads (weak). `Read` is strongly
  fair, because it needs a lock that others take again and again and Go's
  mutex hands over to a goroutine that has waited for a millisecond. The timer
  is not fair: delivery must come from the channel.
* RoleFencing: a request in flight goes on, since no handler waits for another
  request. Its properties are safety properties.
* ChunkUpload: a handler's system calls return, the retry timer fires, and an
  answer arrives unless the connection breaks. Lost connections, failures and
  cancellation are not fair: the upload must end without them.
* ProcessSocket: the polling and disconnect timers fire, the check before a
  connection is answered or times out after five seconds, the browser reports
  what happened to a socket and the node answers. Breaks are not fair.
* ContainerLog: docker opens the log, its output is read, the handler goes on, the reconnect
  timer fires and the browser delivers what was sent; a handler whose view is
  gone returns, since the request's context ends. Close of a live stream is not
  fair.
* SandboxTasks states no fairness: a CLI call may take half an hour.

## Proofs

TLAPS proves, for all values of the constants that satisfy the named
assumptions:

* **TeamLease_proofs.** `LeaseInv` joins the type invariant, the order of
  tokens (distinct, at most `fence`), the event history and the fencing
  property. The order is needed because fencing speaks of "overtaken", and the
  next registration's token must be new. From it: `LeaseTypeOK`,
  `ExactlyOnceInOrder` (with the lemma that appending a batch extends the
  prefix), `FencedUnlessQuit`, `SingleHolderUnlessQuit`.
* **AgentTeam_proofs.** Every team step is a lease step or leaves the leases
  alone (`TeamStepIsLeaseStep`), so that what is proved about TeamLease holds here.
  `TeamInv` says which commands can stand beside which task: a start only for
  the current attempt of a task nobody has ended and nothing holds back, a
  cancellation of the current attempt only where that attempt has ended, older
  cancellations before the start, every active command addressed to the latest
  registration or to a runtime that has quit, and the positions being those of a
  list, which is what the handlers compare. `EnqueueSound`, `ActivateSound` and
  `TaskReplaced` carry it over the three ways handlers change tasks and queue.
  From it: `TeamTypeOK`, `StartIsCurrent`, `CancelBeforeRestart`,
  `UserDecisionStands`, `RegistrationTakesOverQueue`, `QueueingWakesPollers`.
  That a failover loses no command is a function from the commands before to
  those after it, composed of taking over, appending and compacting
  (`RequeuedCarries`, `GrownCarries`, `KeptIsCarried`).
  For `AdmissionIsSound` and `SettledUnlessRetried` it is joined by `BackDeps`
  (dependencies point backwards), and every handler is shown to do one of five
  things to the tasks (`TaskStep`). When a pass admits several tasks, the last
  one was admitted with all others counted, so that the budget holds for all;
  what the pass refused stays refused, because it only takes resources
  (`HeldGrows`, `HeldByOneMore`), and what it decided from dependencies stays
  decided, because they come earlier: one pass is enough.
* **TeamEvents_proofs.** `EventsInv` adds to the types that memory equals disk
  when the lock is free and that its saved prefix is the snapshot otherwise,
  that windows and cursors lie within the saved prefix, and that a stream that
  holds the current channel copied the whole saved log. From it: `EventsTypeOK`,
  `DeliveredIsDurable`, `NoLostWakeup`. `CompleteInv` adds, for a stream that
  has neither lagged nor been renumbered, that the client has received exactly the wanted events up to the
  stream's cursor, in order, that the copied window leaves none out, and that what
  it had received when the connection was opened covers the position to which a
  broken connection falls back; it gives `CompleteUnlessLagged`.
* **RoleFencing_proofs.** `RoleInv` adds that memory equals the saved state
  while the manager is durable and that every push in flight with a version
  that can still match was checked under an epoch not older than the stream's.
  From it: `RoleTypeOK`, `EpochDeterminesRole`, `EpochKeptUnlessFallback`,
  `StreamNeverFallsBehind`, and `NodeRefinement`: the initial state maps to
  FencedNode's, and under the invariant every action maps to one of its steps
  or to a stutter. The invariant is needed for a push (its epoch is not older
  than the stream's) and for a restart (memory equals the saved state).
* **SandboxTasks_proofs.** From the types (`SandboxTypeOK`) and three invariants
  of their own: `UnflaggedIsSaved` is inductive as it stands. `GhostInv`: without
  an overlap there is one request, and what it has read of the task still holds
  when the CLI answers; it gives `NoGhostUnlessOverlap`. `StrayInv`: handle and
  sandbox come into being together, a destroyed sandbox stays destroyed, and a
  sandbox without a record has a custodian, the create that will record it or
  the compensation that will destroy it; it gives `NoStrayUnlessStranded` for any
  number of racing requests. `DebtInv`: the slot of a destroyed task is owed by a
  request that is about to release it or by the start that took it, and one
  request at most makes a task; with it `SlotInv` gives `SlotFollowsTaskUnless`
  and `RecordInv`, which says what a lone request will still write into the
  record, gives `RecordAgreesUnless`. The lemmas `After...` say where a request
  is after each step, so that the invariants are proved without the record of
  the request.
* **ChunkUpload_proofs.** `FileInv` holds however requests overlap: a file that
  somebody else made is never the part file, the copy or open in a handler, and
  is at the destination of a handler that has looked only if it came later; it
  gives `OthersFileStandsUnlessRaced`. `WholeInv` holds until a chunk is sent again beside a
  running request: one handler runs, for the client's chunk, and the part file
  has all chunks before it; it gives `WholeUnlessOverlap`. That a new file gets
  an inode nobody uses is a counting argument.
* **ProcessSocket_proofs.** `AnswerInv`: at most one answer is due, and it is the
  one of the pending request; it gives `AnswerMatchesRequest`. `ConnInv`: the
  call that holds the newest token finds no socket in the store when its await
  returns; it gives `NoOrphanUnlessLate`.
* **ContainerLog_proofs.** `LogInv` joins two parts. `StreamInv`: the view's
  stream has the view's generation and no stream that is still read has a later
  one; it gives `OldStreamsStaySilent`. `GapInv`, as long as nothing has lapsed: the ids of
  the history ascend and no handler is behind them, every remembered line up
  to the view's cursor is shown, every printed one is shown or still
  remembered (`HistoryInv`), what is on its way has ascending ids and leaves
  out nothing, and of the lines docker has printed for the view's connection each is shown,
  on its way or still to be replayed (`ConnInv`); it gives `NoGapUnlessLapse`.
  That the replay contains the events it should is proved
  by counting (`RanksCount`, `ReplaySelects`) and by the least counterexample,
  which the library's `WFMin` provides without an induction rule.

Each proof has one lemma per action under the step lemma `Inv /\ [Next]_vars =>
Inv'`. Every proved property is also checked by a run, but for
`EpochKeptUnlessFallback`, which the refinement of FencedNode contains.

Checked by TLC only: the liveness properties
`EventuallyDelivered`, `UploadSettles`, `LeavingDisconnects`, `PageShowsData`
and `ViewCatchesUp`; fairness and ENABLED are out of reach of the provers. Every
other property of a passing run is a theorem.

## Not modelled

Most lines of the repository are views, forms and tables of the front end, the
texts of twelve languages, and node services that drive external programs
(websites, databases, certificates, containers). They keep no state that
several actors change, and a model of them would repeat their text. What is
modelled is the part of the front end and of the node that talks over lossy
connections or shares state: the front end's three stateful clients and the
node's team, role, link, task and upload handlers.

Left out of modelled parts: several projects at once (all state is per project
but the list of commands, which the handlers filter), authentication, artifact
uploads, deployment plans, one-shot container logs, empty files, and the parts
listed as `not_modelled` in PROJECT.json. Hazards that no property covers carry
a note there.

## Plan

1. *SyncStore*: an abstract compare-and-set register; the memory, file and
   SQLite stores as refinements, the file store's failed write, the client's
   retries.
2. *NodeRegistry* (change before save), *LinkAuth* (nonce table, clock) and the
   scheduler's overlapping runs.
3. Long polls of AgentTeam as sleeping processes.
4. For the liveness properties, the safety half of their arguments as theorems:
   what a step towards the goal can never undo.
