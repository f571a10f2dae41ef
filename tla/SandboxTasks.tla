----------------------------- MODULE SandboxTasks -----------------------------
(***************************************************************************)
(* The sandbox of one AI task: the handlers of /api/v2/workmesh/tasks,     *)
(* the task provider behind them and the saved task record.                *)
(*                                                                         *)
(* Four pieces of state describe one sandbox and are changed under four    *)
(* different locks or none: the provider's handle (p.mu), the sandbox      *)
(* itself (a CLI, external), the AI job slot (managedRuntimeSlots) and     *)
(* the record in ai_state (s.mu), in memory and on disk.  A request is a   *)
(* goroutine that goes from one critical section to the next and           *)
(* remembers in between what it has read.                                  *)
(*                                                                         *)
(* Only Create keeps p.mu over the call of the CLI.  A call that is cut    *)
(* off, by its timeout or by a client that goes away, may fail after it    *)
(* has taken effect.  The slots of other tasks are left out, and with them *)
(* the starts they turn away; exec changes nothing that is modelled.  A    *)
(* sandbox that ended badly is treated as one that ended well.             *)
(***************************************************************************)
EXTENDS Naturals, FiniteSets

CONSTANT Callers       \* requests that may be in flight

ASSUME CallersAssumption == IsFiniteSet(Callers)

VARIABLES
    task,       \* state of p.tasks[id]
    box,        \* the sandbox created last
    slot,       \* is there an entry of the task in managedRuntimeSlots.aiJobs?
    rec,        \* s.tasks[id] and its copy in s.data.Tasks
    disk,       \* the record as last saved
    call,       \* caller -> the request it is in
    history     \* what has happened so far

sandboxVars == <<task, box, slot, rec, disk, call, history>>

BoxState == {"created", "running", "cancelled", "completed"}

Gone == {"none", "destroyed"}

TaskState == BoxState \cup Gone \cup {"awaiting_human", "unknown"}

\* stateSyncRequired, and whether the record has a sandbox id.
Record == [status : TaskState, sync : BOOLEAN, handle : BOOLEAN]

NoRecord == [status |-> "none", sync |-> FALSE, handle |-> FALSE]

\* "undo" and "halt" are the compensations of create and start.
Ops == {"create", "start", "cancel", "collect", "destroy", "recover", "sync", "undo", "halt"}

\* "want" is the state to be stored or saved, "ran" tells whether collect has
\* found the task running, "mine" whether start has taken the slot and "unsaved"
\* whether collect failed to save.
Call == [op : Ops,
         at : {"idle", "read", "backend", "clean", "store", "state", "release", "save", "mark"},
         want : TaskState, ran : BOOLEAN, mine : BOOLEAN, unsaved : BOOLEAN]

Idle == [op |-> "sync", at |-> "idle", want |-> "none", ran |-> FALSE, mine |-> FALSE,
         unsaved |-> FALSE]

\* overlap: two requests were in flight at once (what they may have hidden from
\* each other counts as having happened); cutOff: a call of the CLI failed after
\* it had taken effect, or a restart forgot the slots; unsaved: a save failed and
\* nobody noted it; stranded: a new sandbox was left without a handle, or its
\* compensation did not destroy it, or a restart cut the request off; foundGone:
\* recover was told that the sandbox is destroyed; unread: there is a saved
\* record that the node could not load.
Happened == [overlap : BOOLEAN, cutOff : BOOLEAN, unsaved : BOOLEAN, stranded : BOOLEAN,
             foundGone : BOOLEAN, unread : BOOLEAN]

Nothing == [overlap |-> FALSE, cutOff |-> FALSE, unsaved |-> FALSE, stranded |-> FALSE,
            foundGone |-> FALSE, unread |-> FALSE]

Restarted == [Nothing EXCEPT !.cutOff = TRUE, !.stranded = TRUE]

Return(c) == call' = [call EXCEPT ![c] = Idle]

GoTo(c, at) == call' = [call EXCEPT ![c] = [@ EXCEPT !.at = at]]

Quiet == \A c \in Callers : call[c].at = "idle"

-----------------------------------------------------------------------------
(* arrival of a request                                                    *)

Enter(c, op, at, mine) ==
    /\ call[c].at = "idle"
    /\ call' = [call EXCEPT ![c] = [Idle EXCEPT !.op = op, !.at = at, !.mine = mine]]
    /\ history' = IF Quiet THEN history
                  ELSE [history EXCEPT !.overlap = TRUE, !.cutOff = TRUE, !.unsaved = TRUE]

\* Create checks, calls the CLI and stores the handle under one lock.
ArriveCreate(c) ==
    /\ task = "none"
    /\ Enter(c, "create", "save", FALSE)
    /\ task' = "created"
    /\ box' = "created"
    /\ UNCHANGED <<slot, rec, disk>>

\* The CLI has created a sandbox, and its answer is lost: there is no handle.
CreateCutOff ==
    /\ task = "none"
    /\ box' = "created"
    /\ history' = [history EXCEPT !.stranded = TRUE]
    /\ UNCHANGED <<task, slot, rec, disk, call>>

ArriveStart(c) ==
    /\ Enter(c, "start", "read", ~slot)
    /\ slot' = TRUE
    /\ UNCHANGED <<task, box, rec, disk>>

ArriveSync(c) ==
    /\ rec.sync
    /\ Enter(c, "sync", "state", FALSE)
    /\ UNCHANGED <<task, box, slot, rec, disk>>

Arrive(c, op) ==
    /\ Enter(c, op, "read", FALSE)
    /\ UNCHANGED <<task, box, slot, rec, disk>>

-----------------------------------------------------------------------------
(* the provider                                                            *)

Settled == {"created", "cancelled", "completed", "awaiting_human"}

\* Mutant: destroy does not look whether the task is running.
AllowedAlsoRunning(op) ==
    CASE op = "start" -> {"created"}
      [] op \in {"cancel", "halt"} -> {"running"}
      [] op \in {"destroy", "undo"} -> Settled \cup {"running"}
      [] op = "recover" -> TaskState \ Gone
      [] OTHER -> TaskState \ {"none"}

\* The states from which the provider accepts an operation.
Allowed(op) ==
    CASE op = "start" -> {"created"}
      [] op \in {"cancel", "halt"} -> {"running"}
      [] op \in {"destroy", "undo"} -> Settled
      [] op = "recover" -> TaskState \ Gone
      [] OTHER -> TaskState \ {"none"}

Destroys(c) == call[c].op \in {"destroy", "undo"}

\* Destroying again after a failed cleanup leaves the CLI alone.
Read(c) ==
    /\ call[c].at = "read"
    /\ task \in Allowed(call[c].op)
    /\ LET next == IF task = "awaiting_human" /\ Destroys(c) THEN "clean" ELSE "backend"
           ran == call[c].op = "collect" /\ task = "running"
       IN  call' = [call EXCEPT ![c] = [@ EXCEPT !.at = next, !.ran = ran]]
    /\ UNCHANGED <<task, box, slot, rec, disk, history>>

\* The operation failed: start gives back a slot it has taken, and a start
\* that could not be taken back is noted as running.
GiveUp(c) ==
    /\ slot' = (slot /\ ~(call[c].op = "start" /\ call[c].mine))
    /\ call' = [call EXCEPT ![c] =
            IF call[c].op = "halt" THEN [@ EXCEPT !.at = "mark", !.want = "running"] ELSE Idle]

Refused(c) ==
    /\ call[c].at = "read"
    /\ task \notin Allowed(call[c].op)
    /\ GiveUp(c)
    /\ history' = [history EXCEPT !.stranded = @ \/ call[c].op = "undo"]
    /\ UNCHANGED <<task, box, rec, disk>>

\* What the CLI does to the sandbox: the states it accepts and the next one.
Accepts(op) ==
    CASE op = "start" -> {"created"}
      [] op \in {"cancel", "halt"} -> {"running"}
      [] op \in {"destroy", "undo"} -> BoxState
      [] op = "collect" -> {"cancelled", "completed"}
      [] OTHER -> BoxState \cup {"destroyed"}

Next(op) ==
    CASE op = "start" -> "running"
      [] op \in {"cancel", "halt"} -> "cancelled"
      [] op \in {"destroy", "undo"} -> "destroyed"
      [] OTHER -> box

\* Mutant: what inspect says is taken over unchecked.
InspectedVerbatim(b) == IF b \in BoxState THEN {b} ELSE {"not_found", "destroyed"}

\* inspect: a sandbox that is gone is not found, or found and reported as
\* destroyed or awaiting_human.
Inspected(b) == IF b \in BoxState THEN {b} ELSE {"awaiting_human", "destroyed"}

Backend(c) ==
    /\ call[c].at = "backend"
    /\ box \in Accepts(call[c].op)
    /\ box' = Next(call[c].op)
    /\ \E want \in IF call[c].op = "recover" THEN Inspected(box) ELSE {call[c].want} :
         LET next == IF Destroys(c) THEN "clean" ELSE "store"
         IN  /\ call' = [call EXCEPT ![c] = [@ EXCEPT !.at = next, !.want = want]]
             /\ history' = [history EXCEPT !.foundGone = @ \/ want = "destroyed"]
    /\ UNCHANGED <<task, slot, rec, disk>>

\* The CLI reports an error, or its answer is lost.
BackendFails(c) ==
    /\ call[c].at = "backend"
    /\ box' \in {box} \cup {Next(op) : op \in {o \in {call[c].op} : box \in Accepts(o)}}
    /\ GiveUp(c)
    /\ history' = [history EXCEPT !.cutOff = @ \/ box' # box,
                                  !.stranded = @ \/ call[c].op = "undo"]
    /\ UNCHANGED <<task, rec, disk>>

CleanFails(c) ==
    /\ call[c].at = "clean"
    /\ task' = "awaiting_human"
    /\ call' = [call EXCEPT ![c] =
            IF call[c].op = "undo" THEN Idle
            ELSE [@ EXCEPT !.at = "save", !.want = "awaiting_human"]]
    /\ UNCHANGED <<box, slot, rec, disk, history>>

\* Only collect looks at the task again before it stores the new state.
Stored(c) ==
    CASE call[c].op = "start" -> "running"
      [] call[c].op \in {"cancel", "halt"} -> "cancelled"
      [] Destroys(c) -> "destroyed"
      [] call[c].op = "recover" -> call[c].want
      [] OTHER -> IF call[c].ran /\ task = "running" THEN "completed" ELSE task

\* Mutant: destroy leaves the slot to cancel and collect.
AfterStoreKeepsSlot(c) ==
    CASE call[c].op \in {"start", "recover", "destroy"} -> "save"
      [] call[c].op \in {"cancel", "halt"} -> "release"
      [] OTHER -> "state"

AfterStore(c) ==
    CASE call[c].op \in {"start", "recover"} -> "save"
      [] call[c].op \in {"cancel", "halt", "destroy"} -> "release"
      [] OTHER -> "state"

\* Cleaning up the work space, if any, comes before it when destroying.
Store(c) ==
    /\ call[c].at = IF Destroys(c) THEN "clean" ELSE "store"
    /\ task' = Stored(c)
    /\ call' = [call EXCEPT ![c] =
            IF call[c].op = "undo" THEN Idle
            ELSE [@ EXCEPT !.at = AfterStore(c), !.want = task', !.ran = FALSE, !.mine = FALSE]]
    /\ UNCHANGED <<box, slot, rec, disk, history>>

\* State, for collect and sync; a task without a handle ends the request.
ReadState(c) ==
    /\ call[c].at = "state"
    /\ call' = [call EXCEPT ![c] =
            IF task = "none" THEN Idle ELSE [@ EXCEPT !.at = "save", !.want = task]]
    /\ UNCHANGED <<task, box, slot, rec, disk, history>>

-----------------------------------------------------------------------------
(* slot and record                                                         *)

Release(c) ==
    /\ call[c].at = "release"
    /\ slot' = FALSE
    /\ call' = [call EXCEPT ![c] =
            IF call[c].op # "collect" THEN [@ EXCEPT !.at = "save"]
            ELSE IF call[c].unsaved THEN [@ EXCEPT !.at = "mark"] ELSE Idle]
    /\ UNCHANGED <<task, box, rec, disk, history>>

\* persistTaskHandle and updatePersistedTask; the latter makes a record
\* without a sandbox id if there is none.
Saved(c) ==
    IF call[c].op = "create" THEN [status |-> "created", sync |-> FALSE, handle |-> TRUE]
    ELSE [rec EXCEPT !.status = call[c].want, !.sync = FALSE]

Save(c) ==
    /\ call[c].at = "save"
    /\ rec' = Saved(c)
    /\ disk' = rec'
    /\ IF call[c].op = "collect" THEN GoTo(c, "release") ELSE Return(c)
    /\ history' = [history EXCEPT !.unread = FALSE]
    /\ UNCHANGED <<task, box, slot>>

\* Mutant: a sandbox that could not be recorded is forgotten.
InsteadWithoutUndo(c) ==
    CASE call[c].op = "start" -> [Idle EXCEPT !.op = "halt", !.at = "read"]
      [] call[c].op = "collect" -> [call[c] EXCEPT !.at = "release", !.unsaved = TRUE]
      [] call[c].op \in {"cancel", "halt", "destroy"} /\ call[c].want # "awaiting_human" ->
            [call[c] EXCEPT !.at = "mark"]
      [] OTHER -> Idle

\* What a request goes on with when it could not save.
Instead(c) ==
    CASE call[c].op = "create" -> [Idle EXCEPT !.op = "undo", !.at = "read"]
      [] call[c].op = "start" -> [Idle EXCEPT !.op = "halt", !.at = "read"]
      [] call[c].op = "collect" -> [call[c] EXCEPT !.at = "release", !.unsaved = TRUE]
      [] call[c].op \in {"cancel", "halt", "destroy"} /\ call[c].want # "awaiting_human" ->
            [call[c] EXCEPT !.at = "mark"]
      [] OTHER -> Idle

\* Mutant: the record in memory is not taken back.
SaveFailsWithoutRollback(c) ==
    /\ call[c].at = "save"
    /\ rec' = Saved(c)
    /\ call' = [call EXCEPT ![c] = Instead(c)]
    /\ history' = [history EXCEPT !.unsaved = @ \/ (Instead(c) = Idle /\ call[c].op # "sync")]
    /\ UNCHANGED <<task, box, slot, disk>>

\* The record is taken back.
SaveFails(c) ==
    /\ call[c].at = "save"
    /\ call' = [call EXCEPT ![c] = Instead(c)]
    /\ history' = [history EXCEPT !.unsaved = @ \/ (Instead(c) = Idle /\ call[c].op # "sync")]
    /\ UNCHANGED <<task, box, slot, rec, disk>>

\* Mutant: the record is flagged but keeps its old status.
MarkFlagOnly(c) ==
    /\ call[c].at = "mark"
    /\ rec' = [rec EXCEPT !.sync = TRUE]
    /\ Return(c)
    /\ UNCHANGED <<task, box, slot, disk, history>>

\* markTaskStateUnsynced
Mark(c) ==
    /\ call[c].at = "mark"
    /\ rec' = [rec EXCEPT !.status = call[c].want, !.sync = TRUE]
    /\ Return(c)
    /\ UNCHANGED <<task, box, slot, disk, history>>

-----------------------------------------------------------------------------
(* surroundings                                                            *)

\* The agent in the sandbox is done.
BoxEnds ==
    /\ box = "running"
    /\ box' = "completed"
    /\ UNCHANGED <<task, slot, rec, disk, call, history>>

\* Another handler saves ai_state, this record with it.
OtherSave ==
    /\ disk' = rec
    /\ history' = [history EXCEPT !.unread = FALSE]
    /\ UNCHANGED <<task, box, slot, rec, call>>

\* RestoreAndInspect: what it may make of the saved record, given its sandbox.
Restored(b) ==
    IF ~disk.handle THEN {"none"}
    ELSE IF disk.status = "destroyed" THEN {"destroyed"}
    ELSE Inspected(b) \cup {"unknown"}

\* The sandbox of the saved record.  While that was not loaded, another may have
\* been created and nothing is known of the first.
SavedBox == IF history.unread THEN BoxState \cup {"destroyed"} ELSE {box}

\* The node is started again and getTaskProvider restores the tasks, before it
\* lets the first request through; a failed save goes unnoticed.
Restart(saves) ==
    /\ box' \in SavedBox
    /\ task' \in Restored(box')
    /\ rec' = IF disk.handle /\ saves
              THEN [status |-> task', sync |-> FALSE, handle |-> TRUE] ELSE disk
    /\ disk' = rec'
    /\ slot' = FALSE
    /\ call' = [c \in Callers |-> Idle]
    /\ history' = [Restarted EXCEPT !.unsaved = ~saves]

\* The same when loadJSONState fails: getAIState goes on with an empty state, and
\* the saved one stays until the next save of ai_state writes over it.
RestartEmpty ==
    /\ task' = "none"
    /\ rec' = NoRecord
    /\ slot' = FALSE
    /\ call' = [c \in Callers |-> Idle]
    /\ history' = [Restarted EXCEPT !.unread = (disk # NoRecord)]
    /\ UNCHANGED <<box, disk>>

-----------------------------------------------------------------------------

SandboxInit ==
    /\ task = "none"
    /\ box = "none"
    /\ slot = FALSE
    /\ rec = NoRecord
    /\ disk = NoRecord
    /\ call = [c \in Callers |-> Idle]
    /\ history = Nothing

Request(c) ==
    \/ ArriveCreate(c)
    \/ ArriveStart(c)
    \/ ArriveSync(c)
    \/ \E op \in {"cancel", "collect", "destroy", "recover"} : Arrive(c, op)

GoOn(c) ==
    \/ Read(c) \/ Refused(c)
    \/ Backend(c) \/ BackendFails(c)
    \/ CleanFails(c) \/ Store(c) \/ ReadState(c)
    \/ Release(c)
    \/ Save(c) \/ SaveFails(c) \/ Mark(c)

SandboxNext ==
    \/ \E c \in Callers : Request(c) \/ GoOn(c)
    \/ CreateCutOff
    \/ BoxEnds
    \/ OtherSave
    \/ \E saves \in BOOLEAN : Restart(saves)
    \/ RestartEmpty

\* No fairness: a request may wait for the CLI for half an hour.
SandboxSpec == SandboxInit /\ [][SandboxNext]_sandboxVars

-----------------------------------------------------------------------------

\* Type invariant of the handle, the sandbox, the record and the requests.
SandboxTypeOK ==
    /\ task \in TaskState
    /\ box \in BoxState \cup Gone
    /\ slot \in BOOLEAN
    /\ rec \in Record /\ disk \in Record
    /\ call \in [Callers -> Call]
    /\ history \in Happened

\* Destroy reads the state before it calls the CLI and refuses a running task:
\* the provider never takes a destroyed sandbox for a running one, as long as
\* requests for the task come one after the other.
NoGhostUnlessOverlap ==
    task = "running" /\ box = "destroyed" => history.overlap

\* start takes the slot before it calls the CLI, cancel, collect and destroy give
\* it back: a task that the provider shows as running counts against the limit
\* of AI jobs, and however requests overlap, fail or are cut off, a destroyed
\* task keeps no slot once its requests are through, as no request could free it
\* any more.  Overlapping requests, a start that was cut off and a restart (which
\* forgets the slots) break the first; a recover that finds the sandbox destroyed
\* and leaves the slot alone breaks the second, and so does a start that meets
\* the compensation of a failed create, which leaves no recorded handle.
SlotFollowsTaskUnless ==
    /\ task = "running" /\ ~slot => history.overlap \/ history.cutOff
    /\ Quiet /\ task = "destroyed" /\ rec.handle => ~slot \/ history.foundGone

\* updatePersistedTask takes its change back when the save fails, and
\* markTaskStateUnsynced flags what is only in memory: a record without the
\* flag is the one that a restart will read, in every interleaving.  After a
\* restart that could not load the records, this holds again with the next save,
\* which writes over those that were not loaded.
UnflaggedIsSaved ==
    rec.sync \/ rec = disk \/ history.unread

\* Every handler tells the record what became of the task, or flags it: the
\* task list shows the provider's state when no request is in flight.  It does
\* not after overlapping requests or a failed save that recover, a failed
\* cleanup or the restoring ignored.
RecordAgreesUnless ==
    Quiet /\ rec.handle =>
        rec.status = task \/ history.overlap \/ history.unsaved

\* create destroys a sandbox that it could not record: until a restart, no
\* sandbox is left that the saved state does not know of, unless destroying
\* it failed or the CLI's answer with its id was lost.
NoStrayUnlessStranded ==
    Quiet /\ box \in BoxState /\ ~rec.handle => history.stranded

=============================================================================
