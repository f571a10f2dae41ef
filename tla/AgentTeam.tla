------------------------------ MODULE AgentTeam ------------------------------
(***************************************************************************)
(* The Agent control plane of one project: its tasks, the command queue    *)
(* towards its runtimes and the handlers of agents and users over them     *)
(* (node/api/agent_team.go), on top of the leases of TeamLease.            *)
(*                                                                         *)
(* Tasks are numbered in the order of s.data.TeamTasks.  A task can only   *)
(* depend on tasks that exist when it is created, hence on earlier ones,   *)
(* and tasks are never removed or moved.                                   *)
(*                                                                         *)
(* The rows of s.data.AgentCommands form a set; "pos" is the position in   *)
(* the list.  deliveryExpiresAt, which is only read for delivered ones, is *)
(* kept as the ticks left, 0 when reached and 0 for all other commands.    *)
(*                                                                         *)
(* An upload carries one event that was not seen before: what a batch of   *)
(* several does is done by as many uploads, and the acceptance of whole    *)
(* batches by their sequence numbers is checked in TeamLease.              *)
(***************************************************************************)
EXTENDS TeamLease, FiniteSetsExt

CONSTANTS
    MaxTasks,         \* teamTaskLimit
    MaxAttempt,       \* bound on a task's attempts (1000000 in the code)
    Profiles,         \* resource units a task may ask for
    Budget,           \* teamResourceBudget
    Keys,             \* idempotency keys clients may send
    Visibility,       \* teamCommandVisibility, in ticks
    PendingLimit,     \* teamPendingCommandLimit
    CommandHistory,   \* teamCommandHistoryLimit
    MaxPoll,          \* most commands one poll may ask for (50 in the code)
    EventTypes,       \* kinds of event that agents upload
    UserActions       \* actions that users call on tasks

ASSUME TeamAssumption ==
    /\ MaxTasks \in Nat \ {0}
    /\ MaxAttempt \in Nat \ {0}
    /\ Profiles \subseteq Nat \ {0}
    /\ Budget \in Nat \ {0}
    /\ Visibility \in Nat \ {0}
    /\ PendingLimit \in Nat
    /\ CommandHistory \in Nat
    /\ MaxPoll \in Nat \ {0}

VARIABLES
    tasks,      \* the project's rows of s.data.TeamTasks
    commands,   \* the project's rows of s.data.AgentCommands
    notified    \* did the last step publish an event and close s.notify?

teamVars == <<runtimes, fence, applied, quit, tasks, commands, notified>>

NoKey == "none"

Waiting == {"waiting_dependency", "waiting_resource"}

Occupying == {"accepted", "running", "waiting_input"}

TaskStatus == Waiting \cup Occupying \cup {"completed", "failed", "cancelled", "blocked"}

\* done is completionSource, stop tells whether cancellationSource is "manual".
Task == [status : TaskStatus, attempt : 1..MaxAttempt, deps : Seq(1..MaxTasks),
         units : Profiles, key : Keys \cup {NoKey},
         done : {"none", "manual", "agent_report"}, stop : BOOLEAN]

Command == [pos : Nat, task : 1..MaxTasks, kind : {"start", "cancel", "input"},
            attempt : 1..MaxAttempt, runtime : Runtimes,
            status : {"queued", "delivered", "acked", "superseded"},
            visible : 0..Visibility]

-----------------------------------------------------------------------------
(* Dependencies and the resource budget.                                   *)

Status(T) == [i \in DOMAIN T |-> T[i].status]

\* Mutant: only the last dependency is looked at.
DependencyStatusOfLast(status, deps) ==
    IF deps = << >> \/ status[deps[Len(deps)]] = "completed" THEN "accepted"
    ELSE IF status[deps[Len(deps)]] \in {"failed", "cancelled", "blocked"}
         THEN "blocked"
         ELSE "waiting_dependency"

\* The first dependency that is not completed decides.
DependencyStatus(status, deps) ==
    LET open == {k \in DOMAIN deps : status[deps[k]] # "completed"} IN
    IF open = {} THEN "accepted"
    ELSE IF status[deps[Min(open)]] \in {"failed", "cancelled", "blocked"}
         THEN "blocked"
         ELSE "waiting_dependency"

\* The sum of the units of the tasks that occupy resources, counted one by one.
Used(T, status, except) ==
    LET occupying == {i \in DOMAIN T \ except : status[i] \in Occupying}
    IN  Cardinality(UNION {{i} \X (1..T[i].units) : i \in occupying})

ResourceAvailable(T, status, units, except) ==
    Used(T, status, except) + units <= Budget

\* Admission of a new task or a new attempt.
Admission(T, deps, units, except) ==
    LET status == DependencyStatus(Status(T), deps) IN
    IF status = "accepted" /\ ~ResourceAvailable(T, Status(T), units, except)
    THEN "waiting_resource"
    ELSE status

HumanTerminal(t) ==
    \/ t.status = "completed" /\ t.done = "manual"
    \/ t.status = "cancelled" /\ t.stop

-----------------------------------------------------------------------------
(* The command queue.                                                      *)

Terminal(c) == c.status \in {"acked", "superseded"}

Active(C) == {c \in C : ~Terminal(c)}

OfTask(C, i) == {c \in C : c.task = i}

\* List positions without gaps.
Ranked(C) ==
    {[c EXCEPT !.pos = Cardinality({d \in C : d.pos <= c.pos})] : c \in C}

\* Keep the newest CommandHistory terminal commands and all active ones.
Compact(C) ==
    Ranked({c \in C : \/ ~Terminal(c)
                      \/ Cardinality({d \in C : Terminal(d) /\ d.pos > c.pos}) < CommandHistory})

\* Mutant: the active commands of the task stay.
SupersedeNothing(C, i) == C

Supersede(C, i) ==
    {IF c.task = i /\ ~Terminal(c) THEN [c EXCEPT !.status = "superseded", !.visible = 0] ELSE c
        : c \in C}

\* Runtimes that a new command may be addressed to; the first one gets it.
Targets(rows) == {r \in Runtimes : rows[r].status # "fenced" /\ rows[r].lease > 0}

\* A command to append; "at" orders the ones appended by the same handler.
Item(at, i, kind, attempt) == [at |-> at, task |-> i, kind |-> kind, attempt |-> attempt]

\* Without a target the items are dropped.
Enqueue(C, rows, items) ==
    IF items = {} \/ Targets(rows) = {} THEN C
    ELSE Compact(C \cup
           {[pos |-> Cardinality(C) + x.at, task |-> x.task, kind |-> x.kind,
             attempt |-> x.attempt, runtime |-> FirstRow(rows, Targets(rows)),
             status |-> "queued", visible |-> 0] : x \in items})

Starts(T, I) == {Item(i + 1, i, "start", T[i].attempt) : i \in I}

\* Mutant: the new start comes first.
RetryItemsStartFirst(i, attempt, status) ==
    {Item(2, i, "cancel", attempt)} \cup
    (IF status = "accepted" THEN {Item(1, i, "start", attempt + 1)} ELSE {})

\* What a retry enqueues: the cancellation of the old attempt, then the new start.
RetryItems(i, attempt, status) ==
    {Item(1, i, "cancel", attempt)} \cup
    (IF status = "accepted" THEN {Item(2, i, "start", attempt + 1)} ELSE {})

\* Mutant: what the last runtime had fetched is taken for done.
TakeOverQueued(c, r) ==
    IF Terminal(c) THEN c
    ELSE IF c.status = "delivered" THEN [c EXCEPT !.status = "acked", !.visible = 0]
    ELSE [c EXCEPT !.runtime = r]

\* An undelivered or unacknowledged command goes to the newly registered runtime.
TakeOver(c, r) ==
    IF Terminal(c) THEN c ELSE [c EXCEPT !.runtime = r, !.status = "queued", !.visible = 0]

\* Mutant: one task too many.
TaskRoomOffByOne == Len(tasks) <= MaxTasks

TaskRoom == Len(tasks) < MaxTasks

HasRoom == Cardinality(Active(commands)) < PendingLimit

-----------------------------------------------------------------------------
(* activateReadyTeamTasksLocked.  The loop visits the waiting tasks in list *)
(* order; the statuses before the index are already the new ones.  As      *)
(* dependencies point backwards and activation only takes resources, a     *)
(* second pass would change nothing.                                       *)

Decide(T, status, i) ==
    LET d == DependencyStatus(status, T[i].deps) IN
    IF status[i] \notin Waiting \/ d = "waiting_dependency" THEN status[i]
    ELSE IF d = "accepted" /\ ~ResourceAvailable(T, status, T[i].units, {i})
         THEN "waiting_resource"
         ELSE d

Settles(T, new) ==
    \A i \in DOMAIN T :
        new[i] = Decide(T, [j \in DOMAIN T |-> IF j < i THEN new[j] ELSE T[j].status], i)

Outcomes(T) ==
    LET waiting == {i \in DOMAIN T : T[i].status \in Waiting} IN
    {[i \in DOMAIN T |-> IF i \in waiting THEN f[i] ELSE T[i].status]
        : f \in [waiting -> Waiting \cup {"accepted", "blocked"}]}

\* The rest of a handler that leaves tasks T and commands C, enqueues "items"
\* and runs the activation.
ActivateReady(T, C, items) ==
    \E new \in Outcomes(T) :
        /\ Settles(T, new)
        /\ tasks' = [i \in DOMAIN T |-> [T[i] EXCEPT !.status = new[i]]]
        /\ commands' = Enqueue(C, runtimes, items \cup
               Starts(T, {i \in DOMAIN T : new[i] = "accepted" /\ T[i].status # "accepted"}))

-----------------------------------------------------------------------------
(* Handlers of the Agent runtimes.                                         *)

TeamRegister(r) ==
    /\ Register(r)
    /\ LET requeued == {TakeOver(c, r) : c \in commands}
           unstarted == {i \in DOMAIN tasks :
                 /\ tasks[i].status = "accepted"
                 /\ \A c \in Active(OfTask(commands, i)) : c.kind # "start"
                 /\ DependencyStatus(Status(tasks), tasks[i].deps) = "accepted"}
       IN commands' = Enqueue(requeued, runtimes', Starts(tasks, unstarted))
    /\ notified' = TRUE
    /\ UNCHANGED tasks

TeamHeartbeat(r, token, load) ==
    /\ Heartbeat(r, token, load)
    /\ notified' = FALSE
    /\ UNCHANGED <<tasks, commands>>

TeamUnregister(r, token) ==
    /\ Unregister(r, token)
    /\ notified' = TRUE
    /\ UNCHANGED <<tasks, commands>>

TeamExpireLeases ==
    /\ ExpireLeases
    /\ notified' = TRUE
    /\ UNCHANGED <<tasks, commands>>

\* The status an event asks for: the task.* events and, as "report.*", the
\* payloads of task.completion_report.  Handoffs and artifacts change no status.
EventStatus(type) ==
    CASE type \in {"task.started", "report.in_progress"} -> "running"
      [] type \in {"task.completed", "report.completed"} -> "completed"
      [] type \in {"task.failed", "report.failed"} -> "failed"
      [] type \in {"task.blocked", "report.blocked"} -> "blocked"
      [] type = "task.cancelled" -> "cancelled"
      [] type = "report.needs_input" -> "waiting_input"

Reports == {"report.in_progress", "report.completed", "report.failed", "report.blocked",
            "report.needs_input"}

AgentEvents == Reports \cup {"task.started", "task.completed", "task.failed", "task.blocked",
                             "task.cancelled"}

ASSUME EventAssumption == EventTypes \subseteq AgentEvents

\* Mutant: the user's decision is not looked at.
ApplyEventAlways(T, i, type) ==
    [T EXCEPT ![i].status = EventStatus(type),
              ![i].done = IF type = "report.completed" THEN "agent_report" ELSE @]

\* updateTeamTaskFromEventLocked and applyTeamCollaborationEventLocked.
ApplyEvent(T, i, type) ==
    IF HumanTerminal(T[i]) THEN T
    ELSE [T EXCEPT ![i].status = EventStatus(type),
                   ![i].done = IF type = "report.completed" THEN "agent_report" ELSE @]

\* Mutant: only completions release what waits.
EventActivatesOnCompletion(t, type) ==
    /\ EventStatus(type) = "completed"
    /\ type \in Reports => ~HumanTerminal(t)

\* A report of a task the user has ended is dropped before it can activate.
EventActivates(t, type) ==
    /\ EventStatus(type) \in {"completed", "failed", "cancelled", "blocked"}
    /\ type \in Reports => ~HumanTerminal(t)

UploadEvent(r, token, i, type, attempt) ==
    /\ Events(r, token, runtimes[r].last + 1, runtimes[r].last + 1)
    /\ \/ /\ attempt # tasks[i].attempt
          /\ UNCHANGED <<tasks, commands>>
       \/ /\ attempt = tasks[i].attempt
          /\ IF EventActivates(tasks[i], type)
             THEN ActivateReady(ApplyEvent(tasks, i, type), commands, {})
             ELSE /\ tasks' = ApplyEvent(tasks, i, type)
                  /\ UNCHANGED commands
    /\ notified' = TRUE

\* An event without taskId changes no task, but its type alone decides on the
\* activation.
UploadTaskless(r, token, type) ==
    /\ Events(r, token, runtimes[r].last + 1, runtimes[r].last + 1)
    /\ IF type \in {"task.completed", "task.failed", "task.cancelled", "task.blocked"}
       THEN ActivateReady(tasks, commands, {})
       ELSE UNCHANGED <<tasks, commands>>
    /\ notified' = TRUE

\* A batch of events that were all seen before only renews the lease.
UploadReplay(r, token) ==
    /\ runtimes[r].last > 0
    /\ Events(r, token, runtimes[r].last, runtimes[r].last)
    /\ notified' = FALSE
    /\ UNCHANGED <<tasks, commands>>

Available(r) ==
    {c \in commands : /\ c.runtime = r
                      /\ \/ c.status = "queued"
                         \/ c.status = "delivered" /\ c.visible = 0}

\* The long poll finds something to deliver: at most "limit" commands, oldest first.
PollCommands(r, token, limit) ==
    LET chosen == {c \in Available(r) :
                     Cardinality({d \in Available(r) : d.pos < c.pos}) < limit}
    IN  /\ HoldsLease(r, token)
        /\ chosen # {}
        /\ commands' = {IF c \in chosen
                        THEN [c EXCEPT !.status = "delivered", !.visible = Visibility]
                        ELSE c : c \in commands}
        /\ notified' = FALSE
        /\ UNCHANGED <<leaseVars, tasks>>

\* ids: the commands whose ids the runtime sends.
AckCommands(r, token, ids) ==
    /\ HoldsLease(r, token)
    /\ commands' = Compact({IF c \in ids /\ c.runtime = r /\ c.status = "delivered"
                            THEN [c EXCEPT !.status = "acked", !.visible = 0]
                            ELSE c : c \in commands})
    /\ notified' = FALSE
    /\ UNCHANGED <<leaseVars, tasks>>

-----------------------------------------------------------------------------
(* Handlers of the users.                                                  *)

CreateTask(deps, units, key) ==
    /\ key # NoKey => \A i \in DOMAIN tasks : tasks[i].key # key
    /\ TaskRoom
    /\ HasRoom
    /\ LET status == Admission(tasks, deps, units, {})
           i == Len(tasks) + 1
           new == [status |-> status, attempt |-> 1, deps |-> deps, units |-> units,
                   key |-> key, done |-> "none", stop |-> FALSE]
       IN /\ tasks' = Append(tasks, new)
          /\ commands' = Enqueue(commands, runtimes,
                 IF status = "accepted" THEN {Item(1, i, "start", 1)} ELSE {})
    /\ notified' = TRUE
    /\ UNCHANGED leaseVars

ManuallyCompleted(t) == t.status = "completed" /\ t.done = "manual"

\* Mutant: no event is published, so nobody is woken.
InputUnannounced(i) ==
    /\ ~ManuallyCompleted(tasks[i])
    /\ HasRoom
    /\ commands' = Enqueue(commands, runtimes, {Item(1, i, "input", tasks[i].attempt)})
    /\ notified' = FALSE
    /\ UNCHANGED <<leaseVars, tasks>>

Input(i) ==
    /\ ~ManuallyCompleted(tasks[i])
    /\ HasRoom
    /\ commands' = Enqueue(commands, runtimes, {Item(1, i, "input", tasks[i].attempt)})
    /\ notified' = TRUE
    /\ UNCHANGED <<leaseVars, tasks>>

Cancel(i) ==
    /\ ~ManuallyCompleted(tasks[i])
    /\ tasks[i].status # "cancelled"
    /\ HasRoom \/ Active(OfTask(commands, i)) # {}
    /\ ActivateReady([tasks EXCEPT ![i].status = "cancelled", ![i].stop = TRUE],
                     Supersede(commands, i),
                     {Item(MaxTasks + 2, i, "cancel", tasks[i].attempt)})
    /\ notified' = TRUE
    /\ UNCHANGED leaseVars

Complete(i) ==
    /\ tasks[i].status # "completed"
    /\ HasRoom \/ Active(OfTask(commands, i)) # {}
    /\ ActivateReady([tasks EXCEPT ![i].status = "completed", ![i].done = "manual"],
                     Supersede(commands, i),
                     {Item(1, i, "cancel", tasks[i].attempt)})
    /\ notified' = TRUE
    /\ UNCHANGED leaseVars

Retry(i) ==
    LET t == tasks[i]
        status == Admission(tasks, t.deps, t.units, {i})
        others == Cardinality(Active(commands)) - Cardinality(Active(OfTask(commands, i)))
    IN  /\ ~ManuallyCompleted(t)
        /\ t.attempt < MaxAttempt
        /\ others + 2 <= PendingLimit
        /\ tasks' = [tasks EXCEPT ![i] = [t EXCEPT !.status = status, !.attempt = @ + 1,
                                                   !.done = "none", !.stop = FALSE]]
        /\ commands' = Enqueue(Supersede(commands, i), runtimes,
                               RetryItems(i, t.attempt, status))
        /\ notified' = TRUE
        /\ UNCHANGED leaseVars

\* Mutant: the tasks that depend on the blocked one are not reached.
RejectWithoutActivation(i) ==
    /\ ~ManuallyCompleted(tasks[i])
    /\ tasks' = [tasks EXCEPT ![i].status = "blocked"]
    /\ notified' = TRUE
    /\ UNCHANGED <<leaseVars, commands>>

Reject(i) ==
    /\ ~ManuallyCompleted(tasks[i])
    /\ ActivateReady([tasks EXCEPT ![i].status = "blocked"], commands, {})
    /\ notified' = TRUE
    /\ UNCHANGED leaseVars

\* approvalStatus is never read: an approval only publishes an event.
Approve(i) ==
    /\ ~ManuallyCompleted(tasks[i])
    /\ notified' = TRUE
    /\ UNCHANGED <<leaseVars, tasks, commands>>

TeamTick ==
    /\ LeaseTick
    /\ commands' = {[c EXCEPT !.visible = IF @ = 0 THEN 0 ELSE @ - 1] : c \in commands}
    /\ notified' = FALSE
    /\ UNCHANGED tasks

-----------------------------------------------------------------------------

TeamInit ==
    /\ LeaseInit
    /\ tasks = << >>
    /\ commands = {}
    /\ notified = FALSE

AgentStep(r) ==
    \/ TeamRegister(r)
    \/ \E token \in Tokens :
         \/ \E load \in Loads : TeamHeartbeat(r, token, load)
         \/ TeamUnregister(r, token)
         \/ UploadReplay(r, token)
         \/ \E limit \in 1..MaxPoll : PollCommands(r, token, limit)
         \/ \E ids \in SUBSET commands : AckCommands(r, token, ids)
         \/ /\ runtimes[r].last < MaxSequence
            /\ \E type \in EventTypes :
                 \/ UploadTaskless(r, token, type)
                 \/ \E i \in DOMAIN tasks : \E attempt \in 1..tasks[i].attempt :
                      UploadEvent(r, token, i, type, attempt)

\* Sequences of at most two distinct existing tasks.
DepLists == {<< >>} \cup {<<i>> : i \in DOMAIN tasks}
              \cup {d \in (DOMAIN tasks) \X (DOMAIN tasks) : d[1] # d[2]}

UserStep ==
    \/ \E deps \in DepLists, units \in Profiles, key \in Keys \cup {NoKey} :
         CreateTask(deps, units, key)
    \/ \E i \in DOMAIN tasks :
         \/ "input" \in UserActions /\ Input(i)
         \/ "cancel" \in UserActions /\ Cancel(i)
         \/ "complete" \in UserActions /\ Complete(i)
         \/ "retry" \in UserActions /\ Retry(i)
         \/ "reject" \in UserActions /\ Reject(i)
         \/ "approve" \in UserActions /\ Approve(i)

TeamNext == (\E r \in Runtimes : AgentStep(r)) \/ UserStep \/ TeamExpireLeases \/ TeamTick

TeamSpec == TeamInit /\ [][TeamNext]_teamVars

-----------------------------------------------------------------------------

\* Type invariant of the tasks and the command queue.
TeamTypeOK ==
    /\ tasks \in Seq(Task) /\ Len(tasks) <= MaxTasks
    /\ commands \subseteq Command
    /\ notified \in BOOLEAN

\* supersedeTeamCommandsLocked, the retry handler and the re-enqueueing on
\* registration together: a task.start that can still be delivered belongs to
\* the task's current attempt, is the only one, and its task is neither waiting
\* for admission nor ended by the user.
StartIsCurrent ==
    \A c \in Active(commands) : c.kind = "start" =>
        /\ c.attempt = tasks[c.task].attempt
        /\ tasks[c.task].status \notin Waiting
        /\ ~HumanTerminal(tasks[c.task])
        /\ \A d \in Active(commands) : d.kind = "start" /\ d.task = c.task => d = c

\* The retry handler enqueues the cancellation of the old attempt first, and no
\* poll limit, redelivery or failover lets the new start overtake it: only when a
\* runtime has unregistered and renewed its lease since can the two commands be
\* addressed to different runtimes, which poll at their own pace.
CancelBeforeRestart ==
    \A c, d \in Active(commands) :
        /\ c.kind = "cancel" /\ d.kind = "start" /\ c.task = d.task
        => /\ c.attempt < d.attempt
           /\ c.pos < d.pos
           /\ c.status = "queued" =>
                \/ d.status = "queued"
                \/ c.runtime # d.runtime /\ {c.runtime, d.runtime} \cap quit # {}

\* teamTaskHumanTerminal and the first checks of handleDevTaskAction: what the
\* user completed never changes, and what the user cancelled is changed by
\* another user action only, never by a late event or a failover.
UserDecisionStands ==
    [][\A i \in DOMAIN tasks :
         HumanTerminal(tasks[i]) /\ tasks'[i] # tasks[i]
            => tasks[i].status = "cancelled" /\ runtimes' = runtimes]_teamVars

Admitted(i) ==
    /\ i \in DOMAIN tasks'
    /\ tasks'[i].status = "accepted"
    /\ i \in DOMAIN tasks =>
         tasks[i].status # "accepted" \/ tasks[i].attempt # tasks'[i].attempt

\* Creation, retry and activateReadyTeamTasksLocked admit a task only when all
\* its dependencies are completed and the project is within its budget with it,
\* also when one step admits several tasks.
AdmissionIsSound ==
    [][\A i \in 1..MaxTasks : Admitted(i) =>
         /\ \A k \in DOMAIN tasks'[i].deps : tasks'[tasks'[i].deps[k]].status = "completed"
         /\ Used(tasks', Status(tasks'), {}) <= Budget]_teamVars

\* D still has every command of C that can be delivered, in the same order.
Carries(C, D) ==
    \E f \in [Active(C) -> Active(D)] :
        /\ \A c \in Active(C) :
             <<f[c].task, f[c].kind, f[c].attempt>> = <<c.task, c.kind, c.attempt>>
        /\ \A c, d \in Active(C) : c.pos < d.pos => f[c].pos < f[d].pos

\* handleAgentRuntimeRegister: a failover loses no undelivered or unacknowledged
\* command and keeps their order, though the list is compacted and renumbered
\* on the way; the new runtime is to get all of them again, and a start for every
\* accepted task whose dependencies are completed.
RegistrationTakesOverQueue ==
    [][fence' # fence =>
         /\ Carries(commands, commands')
         /\ \A c \in Active(commands') :
              c.status = "queued" /\ runtimes'[c.runtime].token = fence'
         /\ \A i \in DOMAIN tasks :
              /\ tasks[i].status = "accepted"
              /\ DependencyStatus(Status(tasks), tasks[i].deps) = "accepted"
              => \E c \in Active(commands') :
                    c.kind = "start" /\ c.task = i /\ c.attempt = tasks[i].attempt]_teamVars

\* A waiting task that could be admitted, or has to be blocked, is a task the
\* activation has missed.
Settled(T) == Settles(T, Status(T))

\* Every handler but retry leaves no waiting task behind that activation would
\* move: completions, failures, cancellations and rejections all reach it.
SettledUnlessRetried ==
    [][Settled(tasks) =>
         \/ Settled(tasks')
         \/ \E i \in DOMAIN tasks : tasks'[i].attempt > tasks[i].attempt]_teamVars

\* saveTeamStateLocked wakes the long polls whenever a sequence grew: no handler
\* queues a command without publishing an event.
QueueingWakesPollers ==
    [][(\E c \in commands' :
            /\ c.status = "queued"
            /\ \A d \in commands :
                 <<d.task, d.kind, d.attempt>> = <<c.task, c.kind, c.attempt>> => d.status # "queued")
         => notified']_teamVars

-----------------------------------------------------------------------------

\* docs/api/agent-team.md on resourceProfile: a task waiting for the budget is
\* queued automatically when the budget is released, and on dependencies: a
\* blocked dependency blocks the task.
NothingWaitsInVain == Settled(tasks)

=============================================================================
