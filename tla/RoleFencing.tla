------------------------------ MODULE RoleFencing ------------------------------
(***************************************************************************)
(* Role switching of one node and the fencing of its task stream:          *)
(* runtime/role (Manager), runtime/link (Server) and control/api           *)
(* (RoleController).                                                       *)
(*                                                                         *)
(* Two front doors prepare, commit and abort switches of one shared        *)
(* manager: the link routes, called by other nodes, and the core routes,   *)
(* called by users.  Each keeps one prepared transition of its own.  The   *)
(* handlers lock the manager, the door and the store one after the other,  *)
(* so requests interleave between the critical sections: a request is a    *)
(* goroutine that remembers what it read.                                  *)
(*                                                                         *)
(* The stream stands for one task stream of the SQLite store: its version  *)
(* and the role epoch of the last push.  A request may leave out the node  *)
(* and source role it expects, which only narrow what is accepted.         *)
(***************************************************************************)
EXTENDS Naturals, FiniteSets

CONSTANTS
    Callers,       \* requests that may be in flight
    Operations,    \* operation ids
    NoOp,          \* the empty operation id
    InitialRole,   \* configured role of the node
    MaxEpoch,      \* bound on the role epoch
    MaxVersion     \* bound on the version of the stream

Roles == {"primary", "secondary"}

ASSUME RoleAssumption ==
    /\ InitialRole \in Roles
    /\ NoOp \notin Operations
    /\ MaxEpoch \in Nat \ {0}
    /\ MaxVersion \in Nat

VARIABLES
    state,      \* m.state
    saved,      \* the state that a restart loads
    durable,    \* does the manager have a repository or a state file?
    slot,       \* door -> the prepared transition
    call,       \* caller -> the handler it is in
    stream,     \* the task stream in the store
    fellBack    \* history: did a restart fail to load the saved state?

roleVars == <<state, saved, durable, slot, call, stream, fellBack>>

Doors == {"link", "core"}

\* Targets that are no roles are refused by one door when preparing and by the
\* manager when committing.
Target == Roles \cup {"other"}

Epoch == 1..MaxEpoch

State == [role : Roles, epoch : Epoch]

Transition == [op : Operations \cup {NoOp}, to : Target, epoch : Epoch]

Empty == [op |-> NoOp, to |-> "other", epoch |-> 1]

\* "at" is the critical section that the request enters next.
Call == [at : {"idle", "store", "switch", "clear", "push"}, door : Doors,
         req : Transition, version : 0..MaxVersion]

Request(at, door, req, version) ==
    [at |-> at, door |-> door, req |-> req, version |-> version]

Idle == Request("idle", "link", Empty, 0)

Return(c) == call' = [call EXCEPT ![c] = Idle]

-----------------------------------------------------------------------------
(* prepare                                                                 *)

\* The request is checked against a snapshot of the manager's state.
PrepareCheck(c, door, op, to) ==
    /\ call[c].at = "idle"
    /\ door = "link" => to \in Roles
    /\ call' = [call EXCEPT ![c] =
            Request("store", door, [op |-> op, to |-> to, epoch |-> state.epoch], 0)]
    /\ UNCHANGED <<state, saved, durable, slot, stream, fellBack>>

\* Only the link door refuses to replace another operation.
Occupied(door, op) == door = "link" /\ slot[door].op \notin {NoOp, op}

PrepareStore(c) ==
    /\ call[c].at = "store"
    /\ slot' = IF Occupied(call[c].door, call[c].req.op) THEN slot
               ELSE [slot EXCEPT ![call[c].door] = call[c].req]
    /\ Return(c)
    /\ UNCHANGED <<state, saved, durable, stream, fellBack>>

-----------------------------------------------------------------------------
(* commit                                                                  *)

\* The switch uses the epoch and the target of what was prepared.
CommitRead(c, door) ==
    /\ call[c].at = "idle"
    /\ slot[door].op # NoOp
    /\ call' = [call EXCEPT ![c] = Request("switch", door, [slot[door] EXCEPT !.op = NoOp], 0)]
    /\ UNCHANGED <<state, saved, durable, slot, stream, fellBack>>

\* Mutant: any target is taken.
AcceptsAnyTarget(req) == req.epoch = state.epoch

\* Manager.Switch: compare and set on the epoch.
Accepts(req) == req.to \in Roles /\ req.epoch = state.epoch

\* Mutant: the epoch stays.
SwitchedInEpoch(req) == [role |-> req.to, epoch |-> state.epoch]

Switched(req) == [role |-> req.to, epoch |-> state.epoch + 1]

CommitSwitch(c) ==
    /\ call[c].at = "switch"
    /\ Accepts(call[c].req)
    /\ call[c].req.to # state.role
    /\ state.epoch < MaxEpoch
    /\ state' = Switched(call[c].req)
    /\ saved' = IF durable THEN state' ELSE saved
    /\ call' = [call EXCEPT ![c] = Request("clear", call[c].door, Empty, 0)]
    /\ UNCHANGED <<durable, slot, stream, fellBack>>

\* A switch to the role the node already has succeeds without a new epoch.
CommitSameRole(c) ==
    /\ call[c].at = "switch"
    /\ Accepts(call[c].req)
    /\ call[c].req.to = state.role
    /\ call' = [call EXCEPT ![c] = Request("clear", call[c].door, Empty, 0)]
    /\ UNCHANGED <<state, saved, durable, slot, stream, fellBack>>

\* The epoch has moved, the target is invalid, or saving failed and the state
\* was restored: the prepared transition stays.
CommitFails(c) ==
    /\ call[c].at = "switch"
    /\ ~Accepts(call[c].req) \/ (durable /\ call[c].req.to # state.role)
    /\ Return(c)
    /\ UNCHANGED <<state, saved, durable, slot, stream, fellBack>>

CommitClear(c) ==
    /\ call[c].at = "clear"
    /\ slot' = [slot EXCEPT ![call[c].door] = Empty]
    /\ Return(c)
    /\ UNCHANGED <<state, saved, durable, stream, fellBack>>

Abort(door) ==
    /\ slot' = [slot EXCEPT ![door] = Empty]
    /\ UNCHANGED <<state, saved, durable, call, stream, fellBack>>

-----------------------------------------------------------------------------
(* push to the task stream                                                 *)

\* validateSyncRoleEpoch; the version is one the server has handed out.
PushCheck(c, version) ==
    /\ call[c].at = "idle"
    /\ version <= stream.version
    /\ call' = [call EXCEPT ![c] =
            Request("push", "link", [op |-> NoOp, to |-> "other", epoch |-> state.epoch], version)]
    /\ UNCHANGED <<state, saved, durable, slot, stream, fellBack>>

\* Mutant: any version up to the stored one is taken.
CurrentOrOlder(version) == version <= stream.version

\* SQLiteSyncStore.Push: compare and set on the version.
Current(version) == version = stream.version

PushStore(c) ==
    /\ call[c].at = "push"
    /\ Current(call[c].version) => stream.version < MaxVersion
    /\ stream' = IF Current(call[c].version)
                 THEN [version |-> stream.version + 1, epoch |-> call[c].req.epoch]
                 ELSE stream
    /\ Return(c)
    /\ UNCHANGED <<state, saved, durable, slot, fellBack>>

-----------------------------------------------------------------------------
(* restart                                                                 *)

Reset == slot' = [door \in Doors |-> Empty] /\ call' = [c \in Callers |-> Idle]

\* Mutant: the configured role is taken up again.
RestartAsConfigured ==
    /\ state' = [role |-> InitialRole, epoch |-> 1]
    /\ durable' = TRUE
    /\ Reset
    /\ UNCHANGED <<saved, stream, fellBack>>

\* NewSQLite or NewPersistent.
Restart ==
    /\ state' = saved
    /\ durable' = TRUE
    /\ Reset
    /\ UNCHANGED <<saved, stream, fellBack>>

\* NewRoleManager, when the saved state cannot be loaded.
RestartFallback ==
    /\ state' = [role |-> "secondary", epoch |-> 1]
    /\ durable' = FALSE
    /\ fellBack' = TRUE
    /\ Reset
    /\ UNCHANGED <<saved, stream>>

-----------------------------------------------------------------------------

RoleInit ==
    /\ state = [role |-> InitialRole, epoch |-> 1]
    /\ saved = state
    /\ durable = TRUE
    /\ slot = [door \in Doors |-> Empty]
    /\ call = [c \in Callers |-> Idle]
    /\ stream = [version |-> 0, epoch |-> 0]
    /\ fellBack = FALSE

Arrive(c) ==
    \/ \E door \in Doors, op \in Operations, to \in Target : PrepareCheck(c, door, op, to)
    \/ \E door \in Doors : CommitRead(c, door)
    \/ \E version \in 0..MaxVersion : PushCheck(c, version)

GoOn(c) ==
    \/ PrepareStore(c)
    \/ CommitSwitch(c)
    \/ CommitSameRole(c)
    \/ CommitFails(c)
    \/ CommitClear(c)
    \/ PushStore(c)

RoleNext ==
    \/ \E c \in Callers : Arrive(c) \/ GoOn(c)
    \/ \E door \in Doors : Abort(door)
    \/ Restart
    \/ RestartFallback

\* A request in flight goes on: no handler waits for another request.
RoleFairness == \A c \in Callers : WF_roleVars(GoOn(c))

RoleSpec == RoleInit /\ [][RoleNext]_roleVars /\ RoleFairness

-----------------------------------------------------------------------------

\* Type invariant of the manager, the doors, the requests and the stream.
RoleTypeOK ==
    /\ state \in State /\ saved \in State
    /\ durable \in BOOLEAN /\ fellBack \in BOOLEAN
    /\ slot \in [Doors -> Transition]
    /\ call \in [Callers -> Call]
    /\ stream \in [version : 0..MaxVersion, epoch : 0..MaxEpoch]

\* Manager.Switch under commits through both doors, failed saves and restarts:
\* every change of the role takes a new epoch and no epoch is used twice, so
\* the parity of the epoch tells the role.  Two nodes or clients that saw the
\* same epoch of this node saw the same role.
EpochDeterminesRole ==
    ~fellBack => (state.role = InitialRole <=> state.epoch % 2 = 1)

\* Manager.Switch saves before it answers: no epoch is taken back, not even by
\* a restart that loads the saved state.
EpochKeptUnlessFallback ==
    [][state'.epoch < state.epoch => fellBack']_roleVars

\* The epoch check of the push handler and the version check of the store, made
\* under different locks, together: once the stream holds a push of the new
\* epoch, no push that was checked under an older epoch is stored any more.
StreamNeverFallsBehind ==
    [][stream'.epoch < stream.epoch => fellBack]_roleVars

-----------------------------------------------------------------------------

Node == INSTANCE FencedNode
            WITH FirstRole <- InitialRole,
                 role <- state.role, epoch <- state.epoch,
                 writes <- stream.version, writer <- stream.epoch, lost <- fellBack

\* The handlers of both doors, the manager and the store, each with its own
\* lock, act as one atomic node: racing commits, pushes checked under an earlier
\* epoch, aborts, failed saves and restarts add nothing to what it may do.
ImplementsFencedNode == Node!NodeSpec

=============================================================================
