-------------------------- MODULE SandboxTasks_proofs --------------------------
(***************************************************************************)
(* Proofs about SandboxTasks: types, the saved record, the sandboxes that  *)
(* nobody knows of, the destroyed sandbox that is taken for a running one, *)
(* and the job slot and the record that follow the task.                   *)
(***************************************************************************)
EXTENDS SandboxTasks, TLAPS

-----------------------------------------------------------------------------
(* types                                                                   *)

Place == {"idle", "read", "backend", "clean", "store", "state", "release", "save", "mark"}

\* A caller without a request is in a state of its type.
LEMMA IdleIsCall == Idle \in Call
  BY DEF Idle, Call, Ops, TaskState, Gone

\* A request that goes to another place, with another state to store or save,
\* stays in its type.
LEMMA CallGoesOn ==
  ASSUME NEW x \in Call, NEW at \in Place, NEW want \in TaskState
  PROVE  /\ [x EXCEPT !.at = at] \in Call
         /\ [x EXCEPT !.at = at, !.want = want] \in Call
         /\ [x EXCEPT !.at = at, !.want = want, !.ran = FALSE, !.mine = FALSE] \in Call
         /\ \A b \in BOOLEAN : [x EXCEPT !.at = at, !.ran = b] \in Call
         /\ \A b \in BOOLEAN : [x EXCEPT !.at = at, !.unsaved = b] \in Call
  BY DEF Call, Place

\* A request that begins is in its type.
LEMMA NewIsCall ==
  ASSUME NEW op \in Ops, NEW at \in Place, NEW mine \in BOOLEAN
  PROVE  /\ [Idle EXCEPT !.op = op, !.at = at] \in Call
         /\ [Idle EXCEPT !.op = op, !.at = at, !.mine = mine] \in Call
  BY IdleIsCall DEF Call, Place

\* A record whose status is saved or flagged stays in its type.
LEMMA RecordUpdated ==
  ASSUME NEW r \in Record, NEW status \in TaskState, NEW sync \in BOOLEAN
  PROVE  [r EXCEPT !.status = status, !.sync = sync] \in Record
  BY DEF Record

\* What has happened stays in its type.
LEMMA HappenedUpdated ==
  ASSUME NEW h \in Happened, NEW a \in BOOLEAN, NEW b \in BOOLEAN
  PROVE  /\ [h EXCEPT !.stranded = TRUE] \in Happened
         /\ [h EXCEPT !.stranded = @ \/ a] \in Happened
         /\ [h EXCEPT !.unsaved = @ \/ a] \in Happened
         /\ [h EXCEPT !.cutOff = @ \/ a, !.stranded = @ \/ b] \in Happened
         /\ [h EXCEPT !.foundGone = @ \/ a] \in Happened
         /\ [h EXCEPT !.unread = FALSE] \in Happened
         /\ [Restarted EXCEPT !.unsaved = a] \in Happened
         /\ [Restarted EXCEPT !.unread = a] \in Happened
         /\ [h EXCEPT !.overlap = TRUE, !.cutOff = TRUE, !.unsaved = TRUE] \in Happened
  BY DEF Happened, Restarted, Nothing

\* The first state is well typed.
LEMMA TypeInit == SandboxInit => SandboxTypeOK
  <1> SUFFICES ASSUME SandboxInit PROVE SandboxTypeOK
    OBVIOUS
  <1>1. NoRecord \in Record
    BY DEF NoRecord, Record, TaskState, Gone
  <1>2. history \in Happened
    BY DEF SandboxInit, Happened, Nothing
  <1>3. task \in TaskState /\ box \in BoxState \cup Gone
    BY DEF SandboxInit, TaskState, Gone
  <1> QED
    BY <1>1, <1>2, <1>3, IdleIsCall DEF SandboxInit, SandboxTypeOK

\* The arrival of a request keeps the types.
LEMMA TypeRequest ==
  ASSUME SandboxTypeOK, NEW c \in Callers, Request(c)
  PROVE  SandboxTypeOK'
  <1>1. ASSUME NEW op \in Ops, NEW at \in Place, NEW mine \in BOOLEAN, Enter(c, op, at, mine)
        PROVE  call' \in [Callers -> Call] /\ history' \in Happened
    <2>1. call' \in [Callers -> Call]
      BY <1>1, NewIsCall DEF Enter, SandboxTypeOK
    <2>2. history' \in Happened
      BY <1>1, HappenedUpdated DEF Enter, SandboxTypeOK
    <2> QED
      BY <2>1, <2>2
  <1>2. CASE ArriveCreate(c)
    <2>1. "created" \in TaskState /\ "created" \in BoxState /\ "create" \in Ops /\ "save" \in Place
      BY DEF TaskState, BoxState, Ops, Place
    <2> QED
      BY <1>1, <1>2, <2>1 DEF ArriveCreate, SandboxTypeOK
  <1>3. CASE ArriveStart(c)
    <2>1. "start" \in Ops /\ "read" \in Place /\ (~slot) \in BOOLEAN
      BY DEF Ops, Place
    <2> QED
      BY <1>1, <1>3, <2>1 DEF ArriveStart, SandboxTypeOK
  <1>4. CASE ArriveSync(c)
    <2>1. "sync" \in Ops /\ "state" \in Place
      BY DEF Ops, Place
    <2> QED
      BY <1>1, <1>4, <2>1 DEF ArriveSync, SandboxTypeOK
  <1>5. ASSUME NEW op \in {"cancel", "collect", "destroy", "recover"}, Arrive(c, op)
        PROVE  SandboxTypeOK'
    <2>1. op \in Ops /\ "read" \in Place
      BY DEF Ops, Place
    <2> QED
      BY <1>1, <1>5, <2>1 DEF Arrive, SandboxTypeOK
  <1> QED
    BY <1>2, <1>3, <1>4, <1>5 DEF Request

\* What the sandbox becomes, and what is stored, is of its type.
LEMMA ProviderTypes ==
  ASSUME SandboxTypeOK, NEW c \in Callers
  PROVE  /\ call[c] \in Call
         /\ call[c].op \in Ops /\ call[c].want \in TaskState
         /\ Next(call[c].op) \in BoxState \cup Gone
         /\ \A b : Inspected(b) \subseteq TaskState
         /\ Stored(c) \in TaskState
         /\ AfterStore(c) \in Place
  <1>1. call[c] \in Call
    BY DEF SandboxTypeOK
  <1>2. call[c].op \in Ops /\ call[c].want \in TaskState
    BY <1>1 DEF Call
  <1>3. Next(call[c].op) \in BoxState \cup Gone
    BY DEF Next, SandboxTypeOK, BoxState, Gone
  <1>4. \A b : Inspected(b) \subseteq TaskState
    BY DEF Inspected, TaskState, Gone
  <1>5. {"running", "cancelled", "destroyed", "completed"} \subseteq TaskState
    BY DEF TaskState, BoxState, Gone
  <1>6. Stored(c) \in TaskState
    BY <1>2, <1>5 DEF Stored, SandboxTypeOK
  <1>7. AfterStore(c) \in Place
    BY DEF AfterStore, Place
  <1> QED
    BY <1>1, <1>2, <1>3, <1>4, <1>6, <1>7

\* Giving up keeps the types.
LEMMA TypeGiveUp ==
  ASSUME SandboxTypeOK, NEW c \in Callers, GiveUp(c)
  PROVE  slot' \in BOOLEAN /\ call' \in [Callers -> Call]
  <1>1. slot' \in BOOLEAN
    BY DEF GiveUp
  <1>2. "mark" \in Place /\ "running" \in TaskState
    BY DEF Place, TaskState, BoxState
  <1>3. call' \in [Callers -> Call]
    BY <1>2, ProviderTypes, IdleIsCall, CallGoesOn DEF GiveUp, SandboxTypeOK
  <1> QED
    BY <1>1, <1>3

\* The provider's steps keep the types.
LEMMA TypeProvider ==
  ASSUME SandboxTypeOK, NEW c \in Callers,
         Read(c) \/ Refused(c) \/ Backend(c) \/ BackendFails(c)
            \/ CleanFails(c) \/ Store(c) \/ ReadState(c)
  PROVE  SandboxTypeOK'
  <1>1. {"clean", "backend", "store", "save"} \subseteq Place /\ "awaiting_human" \in TaskState
    BY DEF Place, TaskState
  <1>2. CASE Read(c)
    <2>1. call' \in [Callers -> Call]
      BY <1>1, <1>2, ProviderTypes, CallGoesOn DEF Read, SandboxTypeOK
    <2> QED
      BY <1>2, <2>1 DEF Read, SandboxTypeOK
  <1>3. CASE Refused(c)
    <2>1. history' \in Happened
      BY <1>3, HappenedUpdated DEF Refused, SandboxTypeOK
    <2> QED
      BY <1>3, <2>1, TypeGiveUp DEF Refused, SandboxTypeOK
  <1>4. CASE Backend(c)
    <2>1. PICK want \in TaskState :
              /\ call' = [call EXCEPT ![c] = [@ EXCEPT
                      !.at = IF Destroys(c) THEN "clean" ELSE "store", !.want = want]]
              /\ history' = [history EXCEPT !.foundGone = @ \/ want = "destroyed"]
      BY <1>4, ProviderTypes DEF Backend
    <2>2. call' \in [Callers -> Call]
      BY <1>1, <2>1, ProviderTypes, CallGoesOn DEF SandboxTypeOK
    <2>3. history' \in Happened
      <3>1. (want = "destroyed") \in BOOLEAN
        OBVIOUS
      <3> QED
        BY <2>1, <3>1, HappenedUpdated DEF SandboxTypeOK
    <2> QED
      BY <1>4, <2>2, <2>3, ProviderTypes DEF Backend, SandboxTypeOK
  <1>5. CASE BackendFails(c)
    <2>1. history' \in Happened
      BY <1>5, HappenedUpdated DEF BackendFails, SandboxTypeOK
    <2>2. box' \in BoxState \cup Gone
      BY <1>5, ProviderTypes DEF BackendFails, SandboxTypeOK
    <2>3. slot' \in BOOLEAN /\ call' \in [Callers -> Call]
      BY <1>5, TypeGiveUp DEF BackendFails
    <2> QED
      BY <1>5, <2>1, <2>2, <2>3 DEF BackendFails, SandboxTypeOK
  <1>6. CASE CleanFails(c)
    <2>1. call' \in [Callers -> Call]
      BY <1>1, <1>6, ProviderTypes, IdleIsCall, CallGoesOn DEF CleanFails, SandboxTypeOK
    <2> QED
      BY <1>1, <1>6, <2>1 DEF CleanFails, SandboxTypeOK
  <1>7. CASE Store(c)
    <2>1. task' \in TaskState
      BY <1>7, ProviderTypes DEF Store
    <2>2. call' \in [Callers -> Call]
      BY <1>7, <2>1, ProviderTypes, IdleIsCall, CallGoesOn DEF Store, SandboxTypeOK
    <2> QED
      BY <1>7, <2>1, <2>2 DEF Store, SandboxTypeOK
  <1>8. CASE ReadState(c)
    <2>1. call' \in [Callers -> Call]
      BY <1>1, <1>8, ProviderTypes, IdleIsCall, CallGoesOn DEF ReadState, SandboxTypeOK
    <2> QED
      BY <1>8, <2>1 DEF ReadState, SandboxTypeOK
  <1> QED
    BY <1>2, <1>3, <1>4, <1>5, <1>6, <1>7, <1>8

\* What is saved, and how a request goes on without it, is of its type.
LEMMA RecordTypes ==
  ASSUME SandboxTypeOK, NEW c \in Callers
  PROVE  Saved(c) \in Record /\ Instead(c) \in Call
  <1>1. [status |-> "created", sync |-> FALSE, handle |-> TRUE] \in Record
    BY DEF Record, TaskState, BoxState
  <1>2. Saved(c) \in Record
    BY <1>1, ProviderTypes, RecordUpdated DEF Saved, SandboxTypeOK
  <1>3. {"undo", "halt"} \subseteq Ops /\ {"read", "release", "mark"} \subseteq Place
    BY DEF Ops, Place
  <1>4. Instead(c) \in Call
    BY <1>3, ProviderTypes, NewIsCall, CallGoesOn, IdleIsCall DEF Instead
  <1> QED
    BY <1>2, <1>4

\* The steps on slot and record keep the types.
LEMMA TypeRecord ==
  ASSUME SandboxTypeOK, NEW c \in Callers,
         Release(c) \/ Save(c) \/ SaveFails(c) \/ Mark(c)
  PROVE  SandboxTypeOK'
  <1>1. {"save", "mark", "release"} \subseteq Place
    BY DEF Place
  <1>2. CASE Release(c)
    <2>1. call' \in [Callers -> Call]
      BY <1>1, <1>2, ProviderTypes, IdleIsCall, CallGoesOn DEF Release, SandboxTypeOK
    <2> QED
      BY <1>2, <2>1 DEF Release, SandboxTypeOK
  <1>3. CASE Save(c)
    <2>1. call' \in [Callers -> Call]
      <3>1. call[c] \in Call /\ call \in [Callers -> Call]
        BY ProviderTypes DEF SandboxTypeOK
      <3>2. [call[c] EXCEPT !.at = "release"] \in Call
        BY <1>1, <3>1, ProviderTypes, CallGoesOn
      <3>3. CASE GoTo(c, "release")
        BY <3>1, <3>2, <3>3 DEF GoTo
      <3>4. CASE Return(c)
        BY <3>1, <3>4, IdleIsCall DEF Return
      <3> QED
        BY <1>3, <3>3, <3>4 DEF Save
    <2>2. history' \in Happened
      BY <1>3, HappenedUpdated DEF Save, SandboxTypeOK
    <2> QED
      BY <1>3, <2>1, <2>2, RecordTypes DEF Save, SandboxTypeOK
  <1>4. CASE SaveFails(c)
    <2>1. call' \in [Callers -> Call]
      BY <1>4, RecordTypes DEF SaveFails, SandboxTypeOK
    <2>2. history' \in Happened
      BY <1>4, HappenedUpdated DEF SaveFails, SandboxTypeOK
    <2> QED
      BY <1>4, <2>1, <2>2 DEF SaveFails, SandboxTypeOK
  <1>5. CASE Mark(c)
    <2>1. call' \in [Callers -> Call]
      BY <1>5, IdleIsCall DEF Mark, Return, SandboxTypeOK
    <2>2. rec' \in Record
      BY <1>5, ProviderTypes, RecordUpdated DEF Mark, SandboxTypeOK
    <2> QED
      BY <1>5, <2>1, <2>2 DEF Mark, SandboxTypeOK
  <1> QED
    BY <1>2, <1>3, <1>4, <1>5

\* The surroundings and the restart keep the types.
LEMMA TypeSurroundings ==
  ASSUME SandboxTypeOK,
         CreateCutOff \/ BoxEnds \/ OtherSave
            \/ (\E saves \in BOOLEAN : Restart(saves)) \/ RestartEmpty
  PROVE  SandboxTypeOK'
  <1>1. {"created", "completed"} \subseteq BoxState
    BY DEF BoxState
  <1>2. CASE CreateCutOff
    <2>1. history' \in Happened
      BY <1>2, HappenedUpdated DEF CreateCutOff, SandboxTypeOK
    <2> QED
      BY <1>1, <1>2, <2>1 DEF CreateCutOff, SandboxTypeOK
  <1>3. CASE BoxEnds
    BY <1>1, <1>3 DEF BoxEnds, SandboxTypeOK
  <1>4. CASE OtherSave
    <2>1. history' \in Happened
      BY <1>4, HappenedUpdated DEF OtherSave, SandboxTypeOK
    <2> QED
      BY <1>4, <2>1 DEF OtherSave, SandboxTypeOK
  <1>5. ASSUME NEW saves \in BOOLEAN, Restart(saves)
        PROVE  SandboxTypeOK'
    <2>1. task' \in TaskState
      <3>1. Restored(box') \subseteq TaskState
        BY DEF Restored, Inspected, TaskState, Gone
      <3> QED
        BY <1>5, <3>1 DEF Restart
    <2>2. [status |-> task', sync |-> FALSE, handle |-> TRUE] \in Record
      BY <2>1 DEF Record
    <2>3. history' \in Happened
      BY <1>5, HappenedUpdated DEF Restart, SandboxTypeOK
    <2>4. call' \in [Callers -> Call]
      BY <1>5, IdleIsCall DEF Restart
    <2>5. box' \in BoxState \cup Gone
      BY <1>5 DEF Restart, SavedBox, SandboxTypeOK, Gone
    <2> QED
      BY <1>5, <2>1, <2>2, <2>3, <2>4, <2>5 DEF Restart, SandboxTypeOK
  <1>6. CASE RestartEmpty
    <2>1. history' \in Happened
      <3>1. (disk # NoRecord) \in BOOLEAN
        OBVIOUS
      <3> QED
        BY <1>6, <3>1, HappenedUpdated DEF RestartEmpty, SandboxTypeOK
    <2>2. call' \in [Callers -> Call]
      BY <1>6, IdleIsCall DEF RestartEmpty
    <2>3. NoRecord \in Record /\ "none" \in TaskState
      BY DEF NoRecord, Record, TaskState, Gone
    <2> QED
      BY <1>6, <2>1, <2>2, <2>3 DEF RestartEmpty, SandboxTypeOK
  <1> QED
    BY <1>2, <1>3, <1>4, <1>5, <1>6

\* A step of the specification keeps the types.
LEMMA TypeStep == SandboxTypeOK /\ [SandboxNext]_sandboxVars => SandboxTypeOK'
  <1> SUFFICES ASSUME SandboxTypeOK, [SandboxNext]_sandboxVars
               PROVE  SandboxTypeOK'
    OBVIOUS
  <1>1. ASSUME NEW c \in Callers, Request(c) \/ GoOn(c)
        PROVE  SandboxTypeOK'
    BY <1>1, TypeRequest, TypeProvider, TypeRecord DEF GoOn
  <1>2. CASE CreateCutOff \/ BoxEnds \/ OtherSave
               \/ (\E saves \in BOOLEAN : Restart(saves)) \/ RestartEmpty
    BY <1>2, TypeSurroundings
  <1>3. CASE UNCHANGED sandboxVars
    BY <1>3 DEF sandboxVars, SandboxTypeOK
  <1> QED
    BY <1>1, <1>2, <1>3 DEF SandboxNext

\* createSandboxTask, operateSandboxTask, the provider and the restart: the
\* handle, the sandbox, the record and the requests stay well typed, whatever
\* the number of requests.
THEOREM SandboxTypeCorrect == SandboxSpec => []SandboxTypeOK
  BY TypeInit, TypeStep, PTL DEF SandboxSpec

-----------------------------------------------------------------------------
(* the saved record                                                        *)

\* Until a save, only a restart changes whether there are records that the node
\* could not load.
LEMMA UnreadStays ==
  ASSUME SandboxTypeOK, NEW c \in Callers, Request(c) \/ GoOn(c)
  PROVE  history'.unread = history.unread \/ disk' = rec'
  <1> USE DEF SandboxTypeOK, Happened
  <1>1. CASE Request(c)
    <2>1. history' \in {history, [history EXCEPT !.overlap = TRUE, !.cutOff = TRUE,
                                                !.unsaved = TRUE]}
      BY <1>1 DEF Request, ArriveCreate, ArriveStart, ArriveSync, Arrive, Enter
    <2> QED
      BY <2>1
  <1>2. CASE Refused(c) \/ Backend(c) \/ BackendFails(c) \/ SaveFails(c)
    BY <1>2 DEF Refused, Backend, BackendFails, SaveFails
  <1>3. CASE Read(c) \/ CleanFails(c) \/ Store(c) \/ ReadState(c) \/ Release(c) \/ Mark(c)
    BY <1>3 DEF Read, CleanFails, Store, ReadState, Release, Mark
  <1>4. CASE Save(c)
    BY <1>4 DEF Save
  <1> QED
    BY <1>1, <1>2, <1>3, <1>4 DEF GoOn

\* updatePersistedTask, persistTaskHandle and markTaskStateUnsynced: whatever
\* the requests, the failed saves and the restarts, a record without the flag
\* is the one on disk, unless there are records that the node could not load.
THEOREM UnflaggedRecordsAreSaved == SandboxSpec => []UnflaggedIsSaved
  <1>1. SandboxInit => UnflaggedIsSaved
    BY DEF SandboxInit, UnflaggedIsSaved
  <1>2. SandboxTypeOK /\ UnflaggedIsSaved /\ [SandboxNext]_sandboxVars => UnflaggedIsSaved'
    <2> SUFFICES ASSUME SandboxTypeOK, UnflaggedIsSaved, [SandboxNext]_sandboxVars
                 PROVE  UnflaggedIsSaved'
      OBVIOUS
    <2>1. ASSUME NEW c \in Callers, Mark(c)
          PROVE  UnflaggedIsSaved'
      <3>1. rec'.sync = TRUE
        BY <2>1 DEF Mark, SandboxTypeOK, Record
      <3> QED
        BY <3>1 DEF UnflaggedIsSaved
    <2>2. CASE disk' = rec'
      BY <2>2 DEF UnflaggedIsSaved
    <2>3. CASE UNCHANGED <<rec, disk>> /\ history'.unread = history.unread
      BY <2>3 DEF UnflaggedIsSaved
    <2>4. ASSUME NEW c \in Callers, Request(c)
          PROVE  UnflaggedIsSaved'
      <3>1. UNCHANGED <<rec, disk>>
        BY <2>4 DEF Request, ArriveCreate, ArriveStart, ArriveSync, Arrive
      <3> QED
        BY <2>2, <2>3, <2>4, <3>1, UnreadStays
    <2>5. ASSUME NEW c \in Callers, GoOn(c)
          PROVE  UnflaggedIsSaved'
      <3>1. Mark(c) \/ disk' = rec' \/ UNCHANGED <<rec, disk>>
        BY <2>5 DEF GoOn, Read, Refused, Backend, BackendFails, CleanFails, Store, ReadState,
                    Release, Save, SaveFails
      <3> QED
        BY <2>1, <2>2, <2>3, <2>5, <3>1, UnreadStays
    <2>6. CASE CreateCutOff
      BY <2>3, <2>6 DEF CreateCutOff, SandboxTypeOK, Happened
    <2>7. CASE BoxEnds \/ OtherSave \/ \E saves \in BOOLEAN : Restart(saves)
      BY <2>2, <2>3, <2>7 DEF BoxEnds, OtherSave, Restart
    <2>8. CASE RestartEmpty
      <3>1. history'.unread = (disk # NoRecord) /\ rec' = NoRecord /\ disk' = disk
        BY <2>8 DEF RestartEmpty, Restarted, Nothing
      <3> QED
        BY <3>1 DEF UnflaggedIsSaved
    <2>9. CASE UNCHANGED sandboxVars
      BY <2>3, <2>9 DEF sandboxVars
    <2> QED
      BY <2>4, <2>5, <2>6, <2>7, <2>8, <2>9 DEF SandboxNext
  <1> QED
    BY <1>1, <1>2, SandboxTypeCorrect, PTL DEF SandboxSpec

-----------------------------------------------------------------------------
(* steps of a request                                                      *)

\* A step of a request leaves the other requests where they are.
LEMMA OthersStay ==
  ASSUME SandboxTypeOK, NEW c \in Callers, Request(c) \/ GoOn(c),
         NEW d \in Callers, d # c
  PROVE  call'[d] = call[d]
  <1> USE DEF SandboxTypeOK
  <1>1. CASE Request(c)
    BY <1>1 DEF Request, ArriveCreate, ArriveStart, ArriveSync, Arrive, Enter
  <1>2. CASE Read(c) \/ Refused(c) \/ Backend(c) \/ BackendFails(c)
    BY <1>2 DEF Read, Refused, Backend, BackendFails, GiveUp
  <1>3. CASE CleanFails(c) \/ Store(c) \/ ReadState(c) \/ Release(c)
    BY <1>3 DEF CleanFails, Store, ReadState, Release
  <1>4. CASE Save(c) \/ SaveFails(c) \/ Mark(c)
    BY <1>4 DEF Save, SaveFails, Mark, GoTo, Return
  <1> QED
    BY <1>1, <1>2, <1>3, <1>4 DEF GoOn

\* Where a request is when it has arrived; only create does more.
LEMMA AfterRequest ==
  ASSUME SandboxTypeOK, NEW c \in Callers, Request(c)
  PROVE  /\ call[c].at = "idle" /\ call'[c].want = "none"
         /\ call'[c].at \in {"save", "read", "state"}
         /\ history'.overlap \/ Quiet
         /\ history.overlap => history'.overlap
         /\ history'.stranded = history.stranded /\ history'.foundGone = history.foundGone
         /\ \/ /\ ArriveCreate(c)
               /\ call'[c].op = "create" /\ call'[c].at = "save"
            \/ UNCHANGED <<task, box, rec>>
  <1>1. ASSUME NEW op, NEW at, NEW mine, Enter(c, op, at, mine)
        PROVE  /\ call[c].at = "idle" /\ call'[c].want = "none"
               /\ call'[c].op = op /\ call'[c].at = at
               /\ history'.overlap \/ Quiet
               /\ history.overlap => history'.overlap
               /\ history'.stranded = history.stranded /\ history'.foundGone = history.foundGone
    <2>1. call'[c] = [Idle EXCEPT !.op = op, !.at = at, !.mine = mine]
      BY <1>1 DEF Enter, SandboxTypeOK
    <2>2. /\ history'.overlap \/ Quiet
          /\ history.overlap => history'.overlap
          /\ history'.stranded = history.stranded /\ history'.foundGone = history.foundGone
      <3>1. CASE Quiet
        BY <1>1, <3>1 DEF Enter
      <3>2. CASE ~Quiet
        <4>1. history' = [history EXCEPT !.overlap = TRUE, !.cutOff = TRUE, !.unsaved = TRUE]
          BY <1>1, <3>2 DEF Enter
        <4> QED
          BY <4>1 DEF SandboxTypeOK, Happened
      <3> QED
        BY <3>1, <3>2
    <2>3. call'[c].want = "none" /\ call'[c].op = op /\ call'[c].at = at
      BY <2>1 DEF Idle
    <2>4. call[c].at = "idle"
      BY <1>1 DEF Enter
    <2> QED
      BY <2>2, <2>3, <2>4
  <1>2. CASE ArriveCreate(c)
    BY <1>1, <1>2 DEF ArriveCreate
  <1>3. CASE ArriveStart(c)
    BY <1>1, <1>3 DEF ArriveStart
  <1>4. CASE ArriveSync(c)
    BY <1>1, <1>4 DEF ArriveSync
  <1>5. ASSUME NEW op \in {"cancel", "collect", "destroy", "recover"}, Arrive(c, op)
        PROVE  /\ call[c].at = "idle" /\ call'[c].want = "none"
               /\ call'[c].at = "read"
               /\ history'.overlap \/ Quiet
               /\ history.overlap => history'.overlap
               /\ history'.stranded = history.stranded /\ history'.foundGone = history.foundGone
               /\ UNCHANGED <<task, box, rec>>
    BY <1>1, <1>5 DEF Arrive
  <1> QED
    BY <1>2, <1>3, <1>4, <1>5 DEF Request

\* Where a request is after Read.
LEMMA AfterRead ==
  ASSUME SandboxTypeOK, NEW c \in Callers, Read(c)
  PROVE  /\ call'[c].op = call[c].op /\ call'[c].want = call[c].want
         /\ call'[c].at = IF task = "awaiting_human" /\ Destroys(c) THEN "clean" ELSE "backend"
  <1>1. call[c] \in Call /\ call \in [Callers -> Call]
    BY ProviderTypes DEF SandboxTypeOK
  <1> QED
    BY <1>1 DEF Read, Call

\* Where a request is after giving up.
LEMMA AfterGiveUp ==
  ASSUME SandboxTypeOK, NEW c \in Callers, GiveUp(c)
  PROVE  \/ call'[c] = Idle
         \/ call'[c].op = "halt" /\ call'[c].at = "mark" /\ call'[c].want = "running"
  <1>1. call[c] \in Call /\ call \in [Callers -> Call]
    BY ProviderTypes DEF SandboxTypeOK
  <1> QED
    BY <1>1 DEF GiveUp, Call

\* Where a request is after the CLI has answered.
LEMMA AfterBackend ==
  ASSUME SandboxTypeOK, NEW c \in Callers, Backend(c)
  PROVE  /\ call'[c].op = call[c].op
         /\ call'[c].at = IF Destroys(c) THEN "clean" ELSE "store"
         /\ call'[c].want \in IF call[c].op = "recover" THEN Inspected(box) ELSE {call[c].want}
  <1>1. call[c] \in Call /\ call \in [Callers -> Call]
    BY ProviderTypes DEF SandboxTypeOK
  <1>2. PICK want \in IF call[c].op = "recover" THEN Inspected(box) ELSE {call[c].want} :
            call' = [call EXCEPT ![c] = [@ EXCEPT
                    !.at = IF Destroys(c) THEN "clean" ELSE "store", !.want = want]]
    BY DEF Backend
  <1> QED
    BY <1>1, <1>2 DEF Call

\* Where a request is once the provider has its new state.
LEMMA AfterProvider ==
  ASSUME SandboxTypeOK, NEW c \in Callers, CleanFails(c) \/ Store(c) \/ ReadState(c)
  PROVE  \/ call'[c] = Idle
         \/ /\ call'[c].op = call[c].op
            /\ call'[c].at \in {"save", "release", "state"}
            /\ call'[c].want = task'
  <1>1. call[c] \in Call /\ call \in [Callers -> Call]
    BY ProviderTypes DEF SandboxTypeOK
  <1>2. CASE CleanFails(c)
    BY <1>1, <1>2 DEF CleanFails, Call
  <1>3. CASE Store(c)
    <2>1. AfterStore(c) \in {"save", "release", "state"}
      BY DEF AfterStore
    <2> QED
      BY <1>1, <1>3, <2>1 DEF Store, Call
  <1>4. CASE ReadState(c)
    BY <1>1, <1>4 DEF ReadState, Call
  <1> QED
    BY <1>2, <1>3, <1>4

\* Where a request is after a step on slot or record.
LEMMA AfterRecord ==
  ASSUME SandboxTypeOK, NEW c \in Callers, Release(c) \/ Save(c) \/ SaveFails(c) \/ Mark(c)
  PROVE  \/ call'[c] = Idle
         \/ /\ call'[c].op = call[c].op /\ call'[c].want = call[c].want
            /\ call'[c].at \in {"release", "save", "mark"}
            /\ call[c].op # "create" \/ Release(c)
         \/ /\ call'[c].op \in {"undo", "halt"} /\ call'[c].want = "none"
            /\ call'[c].at = "read"
            /\ call[c].op = "create" => call'[c].op = "undo" /\ SaveFails(c)
  <1>1. call[c] \in Call /\ call \in [Callers -> Call]
    BY ProviderTypes DEF SandboxTypeOK
  <1>2. CASE Release(c)
    BY <1>1, <1>2 DEF Release, Call
  <1>3. CASE Save(c)
    BY <1>1, <1>3 DEF Save, GoTo, Return, Call
  <1>4. CASE SaveFails(c)
    <2>1. call'[c] = Instead(c)
      BY <1>1, <1>4 DEF SaveFails
    <2> QED
      BY <1>1, <1>4, <2>1 DEF Instead, Idle, Call
  <1>5. CASE Mark(c)
    BY <1>1, <1>5 DEF Mark, Return
  <1> QED
    BY <1>2, <1>3, <1>4, <1>5

-----------------------------------------------------------------------------
(* a destroyed sandbox is not taken for a running one                      *)

\* What a request relies on while it is the only one.
InTurn(x) ==
    /\ x.op \in {"destroy", "undo"} /\ x.at = "backend" => task # "running"
    /\ x.op = "start" /\ x.at = "store" => box # "destroyed"
    /\ x.op = "recover" /\ x.at = "store" /\ x.want = "running" => box # "destroyed"

\* Without an overlap there is one request, and what it has read still holds.
GhostInv ==
    \/ history.overlap
    \/ /\ task = "running" => box # "destroyed"
       /\ \A c \in Callers : InTurn(call[c])
       /\ \A c, d \in Callers : call[c].at # "idle" /\ call[d].at # "idle" => c = d

\* An arrival is alone or is an overlap.
LEMMA GhostRequest ==
  ASSUME SandboxTypeOK, GhostInv, NEW c \in Callers, Request(c), ~history'.overlap
  PROVE  GhostInv'
  <1>1. Quiet /\ ~history.overlap /\ call'[c].at \in {"save", "read", "state"}
    BY AfterRequest
  <1>2. (task' = "created" /\ box' = "created") \/ UNCHANGED <<task, box>>
    BY AfterRequest DEF ArriveCreate
  <1>3. \A d \in Callers : d # c => call'[d].at = "idle"
    BY <1>1, OthersStay DEF Quiet
  <1>4. \A d \in Callers : InTurn(call[d])'
    BY <1>1, <1>3 DEF InTurn
  <1>5. (task = "running" => box # "destroyed")'
    BY <1>1, <1>2 DEF GhostInv
  <1> QED
    BY <1>3, <1>4, <1>5 DEF GhostInv

\* A step of the only request.
LEMMA GhostGoOn ==
  ASSUME SandboxTypeOK, GhostInv, NEW c \in Callers, GoOn(c), ~history'.overlap
  PROVE  GhostInv'
  <1>1. ~history.overlap /\ call[c].at # "idle"
    <2>1. CASE Read(c) \/ Refused(c) \/ Backend(c) \/ BackendFails(c)
      BY <2>1 DEF Read, Refused, Backend, BackendFails, SandboxTypeOK, Happened
    <2>2. CASE CleanFails(c) \/ Store(c) \/ ReadState(c)
      BY <2>2 DEF CleanFails, Store, ReadState
    <2>3. CASE Release(c) \/ Save(c) \/ SaveFails(c) \/ Mark(c)
      BY <2>3 DEF Release, Save, SaveFails, Mark, SandboxTypeOK, Happened
    <2> QED
      BY <2>1, <2>2, <2>3 DEF GoOn
  <1>2. /\ task = "running" => box # "destroyed"
        /\ InTurn(call[c])
        /\ \A d \in Callers : d # c => call[d].at = "idle"
    BY <1>1 DEF GhostInv
  <1>3. \A d \in Callers : d # c => call'[d].at = "idle"
    BY <1>2, OthersStay
  <1>4. Idle.at = "idle" /\ Idle.op = "sync"
    BY DEF Idle
  <1>5. /\ InTurn(call[c])'
        /\ (task = "running" => box # "destroyed")'
    <2>1. CASE Read(c)
      <3>1. Destroys(c) => task # "running"
        BY <2>1 DEF Destroys, Read, Allowed, Settled
      <3>2. UNCHANGED <<task, box>>
        BY <2>1 DEF Read
      <3> QED
        BY <1>2, <2>1, <3>1, <3>2, AfterRead DEF InTurn, Destroys
    <2>2. CASE Refused(c)
      <3>1. UNCHANGED <<task, box>> /\ GiveUp(c)
        BY <2>2 DEF Refused
      <3> QED
        BY <1>2, <1>4, <3>1, AfterGiveUp DEF InTurn
    <2>3. CASE Backend(c)
      <3>1. /\ task' = task /\ call[c].at = "backend"
            /\ box' = Next(call[c].op)
        BY <2>3 DEF Backend
      <3>2. (task = "running" => box # "destroyed")'
        BY <1>2, <3>1 DEF InTurn, Next
      <3>3. /\ call'[c].op = call[c].op
            /\ call'[c].at = IF Destroys(c) THEN "clean" ELSE "store"
            /\ call[c].op = "recover" => call'[c].want \in Inspected(box)
        BY <2>3, AfterBackend
      <3>4. call[c].op = "recover" /\ call'[c].want = "running" => box \in BoxState /\ box' = box
        BY <3>1, <3>3 DEF Next, Inspected
      <3>5. InTurn(call[c])'
        BY <3>1, <3>3, <3>4 DEF InTurn, Next, BoxState, Destroys
      <3> QED
        BY <3>2, <3>5
    <2>4. CASE BackendFails(c)
      <3>1. /\ task' = task /\ call[c].at = "backend" /\ GiveUp(c)
            /\ box' \in {box, Next(call[c].op)}
        BY <2>4 DEF BackendFails
      <3>2. (task = "running" => box # "destroyed")'
        BY <1>2, <3>1 DEF InTurn, Next
      <3> QED
        BY <1>4, <3>1, <3>2, AfterGiveUp DEF InTurn
    <2>5. CASE CleanFails(c)
      <3>1. task' = "awaiting_human"
        BY <2>5 DEF CleanFails
      <3> QED
        BY <1>4, <2>5, <3>1, AfterProvider DEF InTurn
    <2>6. CASE Store(c)
      <3>1. /\ box' = box /\ task' = Stored(c)
            /\ call[c].at = IF Destroys(c) THEN "clean" ELSE "store"
        BY <2>6 DEF Store
      <3>2. (task = "running" => box # "destroyed")'
        BY <1>2, <3>1 DEF InTurn, Stored, Destroys
      <3> QED
        BY <1>4, <2>6, <3>2, AfterProvider DEF InTurn
    <2>7. CASE ReadState(c)
      <3>1. UNCHANGED <<task, box>>
        BY <2>7 DEF ReadState
      <3> QED
        BY <1>2, <1>4, <2>7, <3>1, AfterProvider DEF InTurn
    <2>8. CASE Release(c) \/ Save(c) \/ SaveFails(c) \/ Mark(c)
      <3>1. UNCHANGED <<task, box>>
        BY <2>8 DEF Release, Save, SaveFails, Mark
      <3> QED
        BY <1>2, <1>4, <2>8, <3>1, AfterRecord DEF InTurn
    <2> QED
      BY <2>1, <2>2, <2>3, <2>4, <2>5, <2>6, <2>7, <2>8 DEF GoOn
  <1>6. \A d \in Callers : InTurn(call[d])'
    BY <1>3, <1>5 DEF InTurn
  <1> QED
    BY <1>3, <1>5, <1>6 DEF GhostInv

\* The provider's Start, Destroy and Recover, requests that come one after the
\* other, calls that are cut off and restarts: the provider shows no destroyed
\* sandbox as running.
THEOREM NoGhosts == SandboxSpec => []NoGhostUnlessOverlap
  <1>1. SandboxInit => GhostInv
    BY DEF SandboxInit, GhostInv, InTurn, Idle
  <1>2. SandboxTypeOK /\ GhostInv /\ [SandboxNext]_sandboxVars => GhostInv'
    <2> SUFFICES ASSUME SandboxTypeOK, GhostInv, [SandboxNext]_sandboxVars, ~history'.overlap
                 PROVE  GhostInv'
      BY DEF GhostInv
    <2>1. ASSUME NEW c \in Callers, Request(c) \/ GoOn(c)
          PROVE  GhostInv'
      BY <2>1, GhostRequest, GhostGoOn
    <2>2. CASE CreateCutOff \/ BoxEnds
      <3>1. /\ ~history.overlap /\ UNCHANGED <<task, call>>
            /\ box' \in {"created", "completed"}
        BY <2>2 DEF CreateCutOff, BoxEnds, SandboxTypeOK, Happened
      <3>2. \A c \in Callers : InTurn(call[c])'
        BY <3>1 DEF GhostInv, InTurn
      <3> QED
        BY <3>1, <3>2 DEF GhostInv
    <2>3. CASE OtherSave \/ UNCHANGED sandboxVars
      <3>1. UNCHANGED <<task, box, call>> /\ ~history.overlap
        BY <2>3 DEF OtherSave, sandboxVars, SandboxTypeOK, Happened
      <3> QED
        BY <3>1 DEF GhostInv, InTurn
    <2>4. ASSUME NEW saves \in BOOLEAN, Restart(saves)
          PROVE  GhostInv'
      <3>1. \A c \in Callers : call'[c] = Idle
        BY <2>4 DEF Restart
      <3>2. task' \in Restored(box')
        BY <2>4 DEF Restart
      <3>3. (task = "running" => box # "destroyed")'
        BY <3>2 DEF Restored, Inspected, BoxState
      <3> QED
        BY <3>1, <3>3 DEF GhostInv, InTurn, Idle
    <2>5. CASE RestartEmpty
      <3>1. (\A c \in Callers : call'[c] = Idle) /\ task' = "none"
        BY <2>5 DEF RestartEmpty
      <3> QED
        BY <3>1 DEF GhostInv, InTurn, Idle
    <2> QED
      BY <2>1, <2>2, <2>3, <2>4, <2>5 DEF SandboxNext
  <1>3. GhostInv => NoGhostUnlessOverlap
    BY DEF GhostInv, NoGhostUnlessOverlap
  <1> QED
    BY <1>1, <1>2, <1>3, SandboxTypeCorrect, PTL DEF SandboxSpec

-----------------------------------------------------------------------------
(* no sandbox that nobody knows of                                         *)

\* The request that will record a new sandbox, or destroy it.
Custodian(x) ==
    \/ x.op = "create" /\ x.at = "save"
    \/ x.op = "undo" /\ x.at \in {"read", "backend"}

\* A destroyed sandbox stays destroyed, so what a request has seen of that holds.
FollowsBox(x) ==
    /\ x.want = "awaiting_human" => box = "destroyed"
    /\ x.at = "clean" => box = "destroyed"
    /\ x.at \in {"backend", "store"} => box # "none"
    /\ x.op = "recover" /\ x.at = "store" => x.want # "none"

HandleFollowsBox ==
    /\ task = "none" <=> box = "none"
    /\ task = "awaiting_human" => box = "destroyed"

InCustody ==
    box \in BoxState /\ ~rec.handle => \E c \in Callers : Custodian(call[c])

\* Every sandbox has a handle, and one without a record has a custodian.
StrayInv ==
    \/ history.stranded
    \/ /\ HandleFollowsBox
       /\ \A c \in Callers : FollowsBox(call[c])
       /\ InCustody

\* What one request does suffices for all: the others stay, and the sandbox
\* neither comes back nor goes without a trace.
LEMMA StrayByOne ==
  ASSUME SandboxTypeOK, NEW c \in Callers, Request(c) \/ GoOn(c),
         HandleFollowsBox', FollowsBox(call[c])',
         \A d \in Callers : FollowsBox(call[d]), InCustody,
         box = "destroyed" => box' = "destroyed",
         box # "none" => box' # "none",
         box' \in BoxState /\ ~rec'.handle =>
            \/ Custodian(call[c])'
            \/ box \in BoxState /\ ~rec.handle /\ ~Custodian(call[c])
  PROVE  StrayInv'
  <1>1. \A d \in Callers : FollowsBox(call[d])'
    <2> TAKE d \in Callers
    <2>1. CASE d = c
      BY <2>1
    <2>2. CASE d # c
      BY <2>2, OthersStay DEF FollowsBox
    <2> QED
      BY <2>1, <2>2
  <1>2. InCustody'
    <2> SUFFICES ASSUME box' \in BoxState, ~rec'.handle
                 PROVE  \E d \in Callers : Custodian(call'[d])
      BY DEF InCustody, Custodian
    <2>1. CASE Custodian(call[c])'
      BY <2>1 DEF Custodian
    <2>2. CASE box \in BoxState /\ ~rec.handle /\ ~Custodian(call[c])
      <3>1. PICK d \in Callers : Custodian(call[d])
        BY <2>2 DEF InCustody
      <3>2. call'[d] = call[d]
        BY <2>2, <3>1, OthersStay
      <3> QED
        BY <3>1, <3>2
    <2> QED
      BY <2>1, <2>2
  <1> QED
    BY <1>1, <1>2 DEF StrayInv

\* The arrival of a request: create becomes the custodian of its sandbox.
LEMMA StrayRequest ==
  ASSUME SandboxTypeOK, StrayInv, NEW c \in Callers, Request(c),
         ~history'.stranded
  PROVE  StrayInv'
  <1>1. HandleFollowsBox /\ InCustody /\ \A d \in Callers : FollowsBox(call[d])
    BY AfterRequest DEF StrayInv
  <1>2. FollowsBox(call[c])'
    BY AfterRequest DEF FollowsBox
  <1>3. ~Custodian(call[c])
    BY AfterRequest DEF Custodian
  <1>4. CASE ArriveCreate(c) /\ call'[c].op = "create" /\ call'[c].at = "save"
    <2>1. task' = "created" /\ box' = "created" /\ box = "none"
      BY <1>1, <1>4 DEF ArriveCreate, HandleFollowsBox
    <2>2. HandleFollowsBox'
      BY <2>1 DEF HandleFollowsBox
    <2>3. Custodian(call[c])'
      BY <1>4 DEF Custodian
    <2> QED
      BY <1>1, <1>2, <2>1, <2>2, <2>3, StrayByOne
  <1>5. CASE UNCHANGED <<task, box, rec>>
    <2>1. HandleFollowsBox'
      BY <1>1, <1>5 DEF HandleFollowsBox
    <2> QED
      BY <1>1, <1>2, <1>3, <1>5, <2>1, StrayByOne
  <1> QED
    BY <1>4, <1>5, AfterRequest

\* A step of a request does not forget a stranding.
LEMMA GoOnRemembers ==
  ASSUME SandboxTypeOK, NEW c \in Callers, GoOn(c),
         ~history'.stranded
  PROVE  ~history.stranded
  <1>1. CASE Read(c) \/ CleanFails(c) \/ Store(c) \/ ReadState(c) \/ Release(c) \/ Mark(c)
    BY <1>1 DEF Read, CleanFails, Store, ReadState, Release, Mark
  <1>2. CASE Refused(c)
    BY <1>2 DEF Refused, SandboxTypeOK, Happened
  <1>3. CASE BackendFails(c)
    BY <1>3 DEF BackendFails, SandboxTypeOK, Happened
  <1>4. CASE Backend(c) \/ Save(c) \/ SaveFails(c)
    BY <1>4 DEF Backend, Save, SaveFails, SandboxTypeOK, Happened
  <1> QED
    BY <1>1, <1>2, <1>3, <1>4 DEF GoOn

\* Only the compensation of create that fails gives its sandbox up.
LEMMA GivingUpStrands ==
  ASSUME SandboxTypeOK, NEW c \in Callers, Refused(c) \/ BackendFails(c), ~history'.stranded
  PROVE  call[c].op # "undo"
  <1>1. CASE Refused(c)
    BY <1>1 DEF Refused, SandboxTypeOK, Happened
  <1>2. CASE BackendFails(c)
    BY <1>2 DEF BackendFails, SandboxTypeOK, Happened
  <1> QED
    BY <1>1, <1>2

\* What the CLI does: a destroyed sandbox is not brought back, and none is made.
LEMMA BoxIsAbsorbing ==
  ASSUME NEW op, box \in Accepts(op)
  PROVE  /\ box = "destroyed" => Next(op) = "destroyed"
         /\ box # "none" => Next(op) # "none"
         /\ Next(op) \in BoxState => box \in BoxState
         /\ op \in {"destroy", "undo"} => Next(op) = "destroyed"
  BY DEF Accepts, Next, BoxState

\* The provider's steps: the new sandbox is handed on until it is destroyed.
LEMMA StrayProvider ==
  ASSUME SandboxTypeOK, StrayInv, NEW c \in Callers, GoOn(c),
         Read(c) \/ Refused(c) \/ Backend(c) \/ BackendFails(c)
            \/ CleanFails(c) \/ Store(c) \/ ReadState(c),
         ~history'.stranded
  PROVE  StrayInv'
  <1>1. HandleFollowsBox /\ InCustody /\ \A d \in Callers : FollowsBox(call[d])
    BY GoOnRemembers DEF StrayInv
  <1>2. FollowsBox(call[c])
    BY <1>1
  <1>3. Idle.at = "idle" /\ Idle.want = "none"
    BY DEF Idle
  <1>4. CASE Read(c)
    <2>1. UNCHANGED <<task, box, rec>> /\ task # "none" /\ call[c].at = "read"
      BY <1>4 DEF Read, Allowed, Settled, TaskState, Gone
    <2>2. HandleFollowsBox' /\ box # "none"
      BY <1>1, <2>1 DEF HandleFollowsBox
    <2>3. FollowsBox(call[c])'
      BY <1>1, <1>2, <1>4, <2>1, <2>2, AfterRead DEF FollowsBox, HandleFollowsBox
    <2>4. box' \in BoxState /\ Custodian(call[c]) => Custodian(call[c])'
      BY <1>1, <1>4, <2>1, AfterRead DEF Custodian, HandleFollowsBox, BoxState
    <2> QED
      BY <1>1, <2>1, <2>2, <2>3, <2>4, StrayByOne
  <1>5. CASE Refused(c)
    <2>1. UNCHANGED <<task, box, rec>> /\ call[c].at = "read" /\ GiveUp(c)
      BY <1>5 DEF Refused
    <2>2. HandleFollowsBox'
      BY <1>1, <2>1 DEF HandleFollowsBox
    <2>3. FollowsBox(call[c])'
      BY <1>3, <2>1, AfterGiveUp DEF FollowsBox
    <2>4. ~Custodian(call[c])
      BY <1>5, <2>1, GivingUpStrands DEF Custodian
    <2> QED
      BY <1>1, <2>1, <2>2, <2>3, <2>4, StrayByOne
  <1>6. CASE Backend(c)
    <2>1. /\ UNCHANGED <<task, rec>> /\ call[c].at = "backend"
          /\ box \in Accepts(call[c].op) /\ box' = Next(call[c].op)
      BY <1>6 DEF Backend
    <2>2. /\ box # "none" /\ box' # "none" /\ task # "none"
          /\ box = "destroyed" => box' = "destroyed"
          /\ box' \in BoxState => box \in BoxState
          /\ Destroys(c) => box' = "destroyed"
      BY <1>1, <1>2, <2>1, BoxIsAbsorbing DEF FollowsBox, HandleFollowsBox, Destroys
    <2>3. HandleFollowsBox'
      BY <1>1, <2>1, <2>2 DEF HandleFollowsBox
    <2>4. call[c].op = "recover" => box' = box
      BY <2>1 DEF Next
    <2>5. /\ "awaiting_human" \in Inspected(box) => box = "destroyed"
          /\ "none" \notin Inspected(box)
      BY <2>2 DEF Inspected, SandboxTypeOK, BoxState, Gone
    <2>6. FollowsBox(call[c])'
      <3>1. /\ call'[c].op = call[c].op
            /\ call'[c].at = IF Destroys(c) THEN "clean" ELSE "store"
            /\ call'[c].want \in IF call[c].op = "recover" THEN Inspected(box)
                                ELSE {call[c].want}
        BY <1>6, AfterBackend
      <3>2. CASE call[c].op = "recover"
        BY <2>2, <2>4, <2>5, <3>1, <3>2 DEF FollowsBox, Destroys
      <3>3. CASE call[c].op # "recover"
        BY <1>2, <2>2, <3>1, <3>3 DEF FollowsBox
      <3> QED
        BY <3>2, <3>3
    <2>7. box' \in BoxState => ~Custodian(call[c])
      BY <2>1, <2>2 DEF Custodian, Destroys, BoxState
    <2> QED
      BY <1>1, <2>1, <2>2, <2>3, <2>6, <2>7, StrayByOne
  <1>7. CASE BackendFails(c)
    <2>1. /\ UNCHANGED <<task, rec>> /\ call[c].at = "backend" /\ GiveUp(c)
          /\ box' = box \/ (box \in Accepts(call[c].op) /\ box' = Next(call[c].op))
      BY <1>7 DEF BackendFails
    <2>2. /\ box # "none" /\ box' # "none" /\ task # "none"
          /\ box = "destroyed" => box' = "destroyed"
          /\ box' \in BoxState => box \in BoxState
      BY <1>1, <1>2, <2>1, BoxIsAbsorbing DEF FollowsBox, HandleFollowsBox
    <2>3. HandleFollowsBox'
      BY <1>1, <2>1, <2>2 DEF HandleFollowsBox
    <2>4. FollowsBox(call[c])'
      BY <1>3, <2>1, AfterGiveUp DEF FollowsBox
    <2>5. ~Custodian(call[c])
      BY <1>7, <2>1, GivingUpStrands DEF Custodian
    <2> QED
      BY <1>1, <2>1, <2>2, <2>3, <2>4, <2>5, StrayByOne
  <1>8. CASE CleanFails(c) \/ Store(c) \/ ReadState(c)
    <2>1. /\ UNCHANGED <<box, rec>>
          /\ call[c].at \in {"clean", "store", "state"}
      BY <1>8 DEF CleanFails, Store, ReadState
    <2>2. HandleFollowsBox'
      <3>1. CASE CleanFails(c)
        BY <1>1, <1>2, <2>1, <3>1 DEF CleanFails, HandleFollowsBox, FollowsBox
      <3>2. CASE Store(c)
        <4>1. /\ task' = Stored(c) /\ box # "none" /\ task # "none"
              /\ call[c].at = IF Destroys(c) THEN "clean" ELSE "store"
          BY <1>1, <1>2, <3>2 DEF Store, FollowsBox, HandleFollowsBox
        <4> QED
          BY <1>1, <1>2, <2>1, <4>1 DEF Stored, Destroys, HandleFollowsBox, FollowsBox
      <3>3. CASE ReadState(c)
        BY <1>1, <2>1, <3>3 DEF ReadState, HandleFollowsBox
      <3> QED
        BY <1>8, <3>1, <3>2, <3>3
    <2>3. FollowsBox(call[c])'
      BY <1>3, <1>8, <2>2, AfterProvider DEF FollowsBox, HandleFollowsBox
    <2>4. ~Custodian(call[c])
      BY <2>1 DEF Custodian
    <2> QED
      BY <1>1, <2>1, <2>2, <2>3, <2>4, StrayByOne
  <1> QED
    BY <1>4, <1>5, <1>6, <1>7, <1>8

\* The steps on slot and record: a failed save hands the sandbox to undo.
LEMMA StrayRecord ==
  ASSUME SandboxTypeOK, StrayInv, NEW c \in Callers, GoOn(c),
         Release(c) \/ Save(c) \/ SaveFails(c) \/ Mark(c),
         ~history'.stranded
  PROVE  StrayInv'
  <1>1. HandleFollowsBox /\ InCustody /\ \A d \in Callers : FollowsBox(call[d])
    BY GoOnRemembers DEF StrayInv
  <1>2. UNCHANGED <<task, box>> /\ call[c].at \in {"release", "save", "mark"}
    BY DEF Release, Save, SaveFails, Mark
  <1>3. HandleFollowsBox'
    BY <1>1, <1>2 DEF HandleFollowsBox
  <1>4. FollowsBox(call[c])'
    <2>1. FollowsBox(call[c])
      BY <1>1
    <2>2. Idle.at = "idle" /\ Idle.want = "none"
      BY DEF Idle
    <2> QED
      BY <1>2, <2>1, <2>2, AfterRecord DEF FollowsBox
  <1>5. CASE Release(c) \/ Mark(c)
    <2>1. ~Custodian(call[c])
      BY <1>5 DEF Release, Mark, Custodian
    <2>2. rec'.handle = rec.handle
      BY <1>5 DEF Release, Mark, SandboxTypeOK, Record
    <2> QED
      BY <1>1, <1>2, <1>3, <1>4, <2>1, <2>2, StrayByOne
  <1>6. CASE Save(c)
    <2>1. /\ call[c].op = "create" => rec'.handle
          /\ call[c].op # "create" => rec'.handle = rec.handle
      BY <1>6 DEF Save, Saved, SandboxTypeOK, Record
    <2>2. call[c].op # "create" => ~Custodian(call[c])
      BY <1>6 DEF Save, Custodian
    <2> QED
      BY <1>1, <1>2, <1>3, <1>4, <2>1, <2>2, StrayByOne
  <1>7. CASE SaveFails(c)
    <2>1. rec' = rec /\ call[c].at = "save"
      BY <1>7 DEF SaveFails
    <2>2. call'[c] = Instead(c)
      BY <1>7 DEF SaveFails, SandboxTypeOK
    <2>3. call[c].op = "create" => Custodian(call[c])'
      BY <2>2 DEF Instead, Idle, Custodian
    <2>4. call[c].op # "create" => ~Custodian(call[c])
      BY <2>1 DEF Custodian
    <2> QED
      BY <1>1, <1>2, <1>3, <1>4, <2>1, <2>3, <2>4, StrayByOne
  <1> QED
    BY <1>5, <1>6, <1>7

\* createSandboxTask and its compensation, among any number of requests: until
\* the node is started again, a sandbox without a record has been given up by a
\* compensation that failed or by a CLI whose answer was lost.
THEOREM NoStrays == SandboxSpec => []NoStrayUnlessStranded
  <1>1. SandboxInit => StrayInv
    BY DEF SandboxInit, StrayInv, HandleFollowsBox, FollowsBox, InCustody, Idle, BoxState
  <1>2. SandboxTypeOK /\ StrayInv /\ [SandboxNext]_sandboxVars => StrayInv'
    <2> SUFFICES ASSUME SandboxTypeOK, StrayInv, [SandboxNext]_sandboxVars,
                        ~history'.stranded
                 PROVE  StrayInv'
      BY DEF StrayInv
    <2>1. ASSUME NEW c \in Callers, Request(c) \/ GoOn(c)
          PROVE  StrayInv'
      BY <2>1, StrayRequest, StrayProvider, StrayRecord DEF GoOn
    <2>2. CASE CreateCutOff
      BY <2>2 DEF CreateCutOff, SandboxTypeOK, Happened
    <2>3. CASE BoxEnds
      BY <2>3 DEF BoxEnds, StrayInv, HandleFollowsBox, FollowsBox, InCustody, BoxState, Custodian
    <2>4. CASE OtherSave \/ UNCHANGED sandboxVars
      <3>1. UNCHANGED <<task, box, rec, call>> /\ ~history.stranded
        BY <2>4 DEF OtherSave, sandboxVars, SandboxTypeOK, Happened
      <3> QED
        BY <3>1 DEF StrayInv, HandleFollowsBox, FollowsBox, InCustody, Custodian
    <2>5. CASE (\E saves \in BOOLEAN : Restart(saves)) \/ RestartEmpty
      BY <2>5 DEF Restart, RestartEmpty, Restarted, Nothing
    <2> QED
      BY <2>1, <2>2, <2>3, <2>4, <2>5 DEF SandboxNext
  <1>3. StrayInv => NoStrayUnlessStranded
    BY DEF StrayInv, InCustody, Custodian, NoStrayUnlessStranded, Quiet
  <1> QED
    BY <1>1, <1>2, <1>3, SandboxTypeCorrect, PTL DEF SandboxSpec

-----------------------------------------------------------------------------
(* the fields of a request after each of its steps                         *)

\* An idle caller.
LEMMA IdleFields ==
  /\ Idle.op = "sync" /\ Idle.at = "idle" /\ Idle.want = "none"
  /\ Idle.ran = FALSE /\ Idle.mine = FALSE /\ Idle.unsaved = FALSE
  BY DEF Idle

\* A request that goes on under the same name.
SameRequest(c) == call'[c].op = call[c].op /\ call'[c].unsaved = call[c].unsaved

\* The arrival of a request, which is an overlap if another one is in flight.
LEMMA EnterFields ==
  ASSUME SandboxTypeOK, NEW c \in Callers, NEW op, NEW at, NEW mine, Enter(c, op, at, mine)
  PROVE  /\ call[c].at = "idle"
         /\ call'[c].op = op /\ call'[c].at = at /\ call'[c].mine = mine
         /\ call'[c].want = "none" /\ call'[c].ran = FALSE /\ call'[c].unsaved = FALSE
         /\ IF Quiet THEN history' = history ELSE history'.overlap
  <1>1. call'[c] = [Idle EXCEPT !.op = op, !.at = at, !.mine = mine]
    BY DEF Enter, SandboxTypeOK
  <1>2. IF Quiet THEN history' = history ELSE history'.overlap
    <2>1. CASE Quiet
      BY <2>1 DEF Enter
    <2>2. CASE ~Quiet
      <3>1. history' = [history EXCEPT !.overlap = TRUE, !.cutOff = TRUE, !.unsaved = TRUE]
        BY <2>2 DEF Enter
      <3> QED
        BY <2>2, <3>1 DEF SandboxTypeOK, Happened
    <2> QED
      BY <2>1, <2>2
  <1>3. call[c].at = "idle"
    BY DEF Enter
  <1>4. /\ call'[c].op = op /\ call'[c].at = at /\ call'[c].mine = mine
        /\ call'[c].want = "none" /\ call'[c].ran = FALSE /\ call'[c].unsaved = FALSE
    BY <1>1 DEF Idle
  <1> QED
    BY <1>2, <1>3, <1>4

\* The first critical section of a provider operation.
LEMMA ReadFields ==
  ASSUME SandboxTypeOK, NEW c \in Callers, Read(c)
  PROVE  /\ SameRequest(c) /\ call'[c].want = call[c].want /\ call'[c].mine = call[c].mine
         /\ call'[c].at = IF task = "awaiting_human" /\ Destroys(c) THEN "clean" ELSE "backend"
         /\ call[c].op = "collect" /\ task = "running" => call'[c].ran
         /\ call[c].at = "read" /\ task \in Allowed(call[c].op)
         /\ UNCHANGED <<task, box, slot, rec, disk, history>>
  <1>1. call[c] \in Call /\ call \in [Callers -> Call]
    BY ProviderTypes DEF SandboxTypeOK
  <1> QED
    BY <1>1 DEF Read, Call, SameRequest

\* A request that gives up returns the slot it took.
LEMMA GiveUpFields ==
  ASSUME SandboxTypeOK, NEW c \in Callers, GiveUp(c)
  PROVE  \/ /\ call[c].op # "halt" /\ call'[c] = Idle
            /\ slot' = (slot /\ ~(call[c].op = "start" /\ call[c].mine))
         \/ /\ call[c].op = "halt" /\ SameRequest(c)
            /\ call'[c].at = "mark" /\ call'[c].want = "running" /\ slot' = slot
  <1>1. call[c] \in Call /\ call \in [Callers -> Call] /\ slot \in BOOLEAN
    BY ProviderTypes DEF SandboxTypeOK
  <1>2. CASE call[c].op = "halt"
    BY <1>1, <1>2 DEF GiveUp, Call, SameRequest
  <1>3. CASE call[c].op # "halt"
    <2>1. call' = [call EXCEPT ![c] = Idle]
      BY <1>3 DEF GiveUp
    <2> QED
      BY <1>1, <1>3, <2>1 DEF GiveUp
  <1> QED
    BY <1>2, <1>3

\* The CLI call that succeeds.
LEMMA BackendFields ==
  ASSUME SandboxTypeOK, NEW c \in Callers, Backend(c)
  PROVE  /\ SameRequest(c) /\ call'[c].ran = call[c].ran /\ call'[c].mine = call[c].mine
         /\ call'[c].at = IF Destroys(c) THEN "clean" ELSE "store"
         /\ call'[c].want \in IF call[c].op = "recover" THEN Inspected(box) ELSE {call[c].want}
         /\ call[c].at = "backend" /\ box \in Accepts(call[c].op) /\ box' = Next(call[c].op)
         /\ history' = [history EXCEPT !.foundGone = @ \/ call'[c].want = "destroyed"]
         /\ UNCHANGED <<task, slot, rec, disk>>
  <1>1. call[c] \in Call /\ call \in [Callers -> Call]
    BY ProviderTypes DEF SandboxTypeOK
  <1>2. PICK want \in IF call[c].op = "recover" THEN Inspected(box) ELSE {call[c].want} :
            /\ call' = [call EXCEPT ![c] = [@ EXCEPT
                    !.at = IF Destroys(c) THEN "clean" ELSE "store", !.want = want]]
            /\ history' = [history EXCEPT !.foundGone = @ \/ want = "destroyed"]
    BY DEF Backend
  <1> QED
    BY <1>1, <1>2 DEF Backend, Call, SameRequest

\* A failed cleanup puts the task to a human.
LEMMA CleanFailsFields ==
  ASSUME SandboxTypeOK, NEW c \in Callers, CleanFails(c)
  PROVE  /\ IF call[c].op = "undo" THEN call'[c] = Idle
            ELSE SameRequest(c) /\ call'[c].at = "save" /\ call'[c].want = task'
         /\ call[c].at = "clean" /\ task' = "awaiting_human"
         /\ UNCHANGED <<box, slot, rec, disk, history>>
  <1>1. call[c] \in Call /\ call \in [Callers -> Call]
    BY ProviderTypes DEF SandboxTypeOK
  <1> QED
    BY <1>1 DEF CleanFails, Call, SameRequest

\* The second critical section of a provider operation.
LEMMA StoreFields ==
  ASSUME SandboxTypeOK, NEW c \in Callers, Store(c)
  PROVE  /\ IF call[c].op = "undo" THEN call'[c] = Idle
            ELSE /\ SameRequest(c) /\ call'[c].at = AfterStore(c) /\ call'[c].want = task'
                 /\ call'[c].mine = FALSE
         /\ call[c].at = (IF Destroys(c) THEN "clean" ELSE "store") /\ task' = Stored(c)
         /\ UNCHANGED <<box, slot, rec, disk, history>>
  <1>1. call[c] \in Call /\ call \in [Callers -> Call]
    BY ProviderTypes DEF SandboxTypeOK
  <1>2. CASE call[c].op = "undo"
    <2>1. call' = [call EXCEPT ![c] = Idle]
      BY <1>2 DEF Store
    <2> QED
      BY <1>1, <1>2, <2>1 DEF Store
  <1>3. CASE call[c].op # "undo"
    BY <1>1, <1>3 DEF Store, Call, SameRequest
  <1> QED
    BY <1>2, <1>3

\* The state that a request reads again.
LEMMA ReadStateFields ==
  ASSUME SandboxTypeOK, NEW c \in Callers, ReadState(c)
  PROVE  /\ IF task = "none" THEN call'[c] = Idle
            ELSE SameRequest(c) /\ call'[c].at = "save" /\ call'[c].want = task
         /\ call[c].at = "state"
         /\ UNCHANGED <<task, box, slot, rec, disk, history>>
  <1>1. call[c] \in Call /\ call \in [Callers -> Call]
    BY ProviderTypes DEF SandboxTypeOK
  <1> QED
    BY <1>1 DEF ReadState, Call, SameRequest

\* The release of the job slot.
LEMMA ReleaseFields ==
  ASSUME SandboxTypeOK, NEW c \in Callers, Release(c)
  PROVE  /\ IF call[c].op = "collect" /\ ~call[c].unsaved THEN call'[c] = Idle
            ELSE /\ SameRequest(c) /\ call'[c].want = call[c].want
                 /\ call'[c].at = IF call[c].op = "collect" THEN "mark" ELSE "save"
         /\ call[c].at = "release" /\ slot' = FALSE
         /\ UNCHANGED <<task, box, rec, disk, history>>
  <1>1. call[c] \in Call /\ call \in [Callers -> Call]
    BY ProviderTypes DEF SandboxTypeOK
  <1> QED
    BY <1>1 DEF Release, Call, SameRequest

\* A save that succeeds.
LEMMA SaveFields ==
  ASSUME SandboxTypeOK, NEW c \in Callers, Save(c)
  PROVE  /\ IF call[c].op = "collect"
            THEN SameRequest(c) /\ call'[c].at = "release" /\ call'[c].want = call[c].want
            ELSE call'[c] = Idle
         /\ call[c].at = "save"
         /\ IF call[c].op = "create" THEN rec'.status = "created" /\ rec'.handle
            ELSE rec'.status = call[c].want /\ rec'.handle = rec.handle
         /\ UNCHANGED <<task, box, slot>>
  <1>1. call[c] \in Call /\ call \in [Callers -> Call] /\ rec \in Record
    BY ProviderTypes DEF SandboxTypeOK
  <1>2. IF call[c].op = "create" THEN rec'.status = "created" /\ rec'.handle
        ELSE rec'.status = call[c].want /\ rec'.handle = rec.handle
    BY <1>1 DEF Save, Saved, Record
  <1> QED
    BY <1>1, <1>2 DEF Save, GoTo, Return, Call, SameRequest

\* A save that fails, and the compensation that follows.
LEMMA SaveFailsFields ==
  ASSUME SandboxTypeOK, NEW c \in Callers, SaveFails(c)
  PROVE  /\ CASE call[c].op = "create" ->
                  /\ call'[c].op = "undo" /\ call'[c].at = "read" /\ call'[c].mine = FALSE
                  /\ call'[c].unsaved = FALSE
              [] call[c].op = "start" ->
                  /\ call'[c].op = "halt" /\ call'[c].at = "read" /\ call'[c].mine = FALSE
                  /\ call'[c].unsaved = FALSE
              [] call[c].op = "collect" ->
                  /\ call'[c].op = "collect" /\ call'[c].at = "release" /\ call'[c].unsaved
                  /\ call'[c].want = call[c].want
              [] call[c].op \in {"cancel", "halt", "destroy"} /\ call[c].want # "awaiting_human" ->
                  SameRequest(c) /\ call'[c].at = "mark" /\ call'[c].want = call[c].want
              [] OTHER -> call'[c] = Idle /\ (history'.unsaved \/ call[c].op = "sync")
         /\ call[c].at = "save"
         /\ UNCHANGED <<task, box, slot, rec, disk>>
         /\ history'.overlap = history.overlap /\ history'.cutOff = history.cutOff
         /\ history.unsaved => history'.unsaved
  <1>1. call[c] \in Call /\ call \in [Callers -> Call] /\ history \in Happened
    BY ProviderTypes DEF SandboxTypeOK
  <1>2. call'[c] = Instead(c)
    BY <1>1 DEF SaveFails
  <1>3. /\ history'.overlap = history.overlap /\ history'.cutOff = history.cutOff
        /\ history.unsaved => history'.unsaved
        /\ Instead(c) = Idle /\ call[c].op # "sync" => history'.unsaved
    BY <1>1 DEF SaveFails, Happened
  <1>4. CASE call[c].op = "create" \/ call[c].op = "start"
    <2>1. CASE call[c].op = "create"
      <3>1. Instead(c) = [Idle EXCEPT !.op = "undo", !.at = "read"]
        BY <2>1 DEF Instead
      <3>2. /\ call'[c].op = "undo" /\ call'[c].at = "read" /\ call'[c].mine = FALSE
            /\ call'[c].unsaved = FALSE
        BY <1>2, <3>1 DEF Idle
      <3> QED
        BY <1>3, <2>1, <3>2 DEF SaveFails
    <2>2. CASE call[c].op = "start"
      <3>1. Instead(c) = [Idle EXCEPT !.op = "halt", !.at = "read"]
        BY <2>2 DEF Instead
      <3>2. /\ call'[c].op = "halt" /\ call'[c].at = "read" /\ call'[c].mine = FALSE
            /\ call'[c].unsaved = FALSE
        BY <1>2, <3>1 DEF Idle
      <3> QED
        BY <1>3, <2>2, <3>2 DEF SaveFails
    <2> QED
      BY <1>4, <2>1, <2>2
  <1>5. CASE call[c].op = "collect"
    <2>1. Instead(c) = [call[c] EXCEPT !.at = "release", !.unsaved = TRUE]
      BY <1>5 DEF Instead
    <2> QED
      BY <1>1, <1>2, <1>3, <1>5, <2>1 DEF SaveFails, Call
  <1>6. CASE call[c].op \in {"cancel", "halt", "destroy"} /\ call[c].want # "awaiting_human"
    <2>1. Instead(c) = [call[c] EXCEPT !.at = "mark"]
      BY <1>6 DEF Instead
    <2> QED
      BY <1>1, <1>2, <1>3, <1>6, <2>1 DEF SaveFails, Call, SameRequest
  <1>7. CASE /\ call[c].op \notin {"create", "start", "collect"}
             /\ ~(call[c].op \in {"cancel", "halt", "destroy"} /\ call[c].want # "awaiting_human")
    <2>1. Instead(c) = Idle
      BY <1>7 DEF Instead
    <2> QED
      BY <1>2, <1>3, <1>7, <2>1 DEF SaveFails
  <1> QED
    BY <1>4, <1>5, <1>6, <1>7

\* The last change of the record.
LEMMA MarkFields ==
  ASSUME SandboxTypeOK, NEW c \in Callers, Mark(c)
  PROVE  /\ call'[c] = Idle /\ call[c].at = "mark"
         /\ rec'.status = call[c].want /\ rec'.handle = rec.handle
         /\ UNCHANGED <<task, box, slot, history>>
  <1>1. call \in [Callers -> Call] /\ rec \in Record
    BY DEF SandboxTypeOK
  <1> QED
    BY <1>1 DEF Mark, Return, Record

-----------------------------------------------------------------------------
(* a destroyed task keeps no slot                                          *)

\* The request that made the sandbox, until it is recorded or given up.
Makes(x) == x.op \in {"create", "undo"}

\* The request gives the slot back, or makes the task a running one.
Owes(x) ==
    \/ x.at = "release"
    \/ x.op = "start" /\ x.mine /\ x.at \in {"read", "backend", "store"}

\* There is one maker at most, and no record with a handle beside it.
OneMaker ==
    /\ task = "none" => ~rec.handle /\ \A c \in Callers : ~Makes(call[c])
    /\ \A c, d \in Callers : Makes(call[c]) /\ Makes(call[d]) => c = d
    /\ \A c \in Callers : Makes(call[c]) => ~rec.handle

\* recover stores what inspect has found.
Finds(x) == x.op = "recover" /\ x.at = "store" => x.want # "none"

\* The sandbox may have been found destroyed; recover leaves the slot alone then.
Buries(x) == x.op = "recover" /\ x.at = "store" /\ x.want = "destroyed"

GoneIsKnown == (\E c \in Callers : Buries(call[c])) => history.foundGone

\* Is the sandbox recorded, or may it still be?
Recordable == rec.handle \/ \E c \in Callers : call[c].op = "create"

\* A slot of a destroyed task has a request that gives it back, or recover has
\* found the sandbox destroyed.
SlotIsOwed ==
    task = "destroyed" /\ slot /\ Recordable =>
        history.foundGone \/ \E c \in Callers : Owes(call[c])

DebtInv == OneMaker /\ SlotIsOwed /\ GoneIsKnown /\ \A c \in Callers : Finds(call[c])

\* A request does not forget that a sandbox was found destroyed, and it is known
\* when recover is about to store that.
LEMMA FindingIsKept ==
  ASSUME SandboxTypeOK, NEW c \in Callers, Request(c) \/ GoOn(c)
  PROVE  /\ history.foundGone => history'.foundGone
         /\ Buries(call'[c]) => history'.foundGone
  <1> USE DEF SandboxTypeOK, Happened
  <1>1. CASE Request(c)
    <2>1. call'[c].at # "store"
      BY <1>1, AfterRequest
    <2>2. history'.foundGone = history.foundGone
      BY <1>1, AfterRequest
    <2> QED
      BY <2>1, <2>2 DEF Buries
  <1>2. CASE Read(c) \/ Refused(c) \/ BackendFails(c)
    <2>1. history'.foundGone = history.foundGone
      BY <1>2 DEF Read, Refused, BackendFails
    <2>2. call'[c].at # "store"
      <3>1. CASE Read(c)
        BY <3>1, ReadFields
      <3>2. CASE Refused(c) \/ BackendFails(c)
        <4>1. GiveUp(c)
          BY <3>2 DEF Refused, BackendFails
        <4> QED
          BY <4>1, AfterGiveUp, IdleFields
      <3> QED
        BY <1>2, <3>1, <3>2
    <2> QED
      BY <2>1, <2>2 DEF Buries
  <1>3. CASE Backend(c)
    <2>1. history' = [history EXCEPT !.foundGone = @ \/ call'[c].want = "destroyed"]
      BY <1>3, BackendFields
    <2> QED
      BY <2>1 DEF Buries
  <1>4. CASE CleanFails(c) \/ Store(c) \/ ReadState(c)
    <2>1. history' = history
      BY <1>4 DEF CleanFails, Store, ReadState
    <2>2. call'[c].at # "store"
      BY <1>4, AfterProvider, IdleFields
    <2> QED
      BY <2>1, <2>2 DEF Buries
  <1>5. CASE Release(c) \/ Save(c) \/ SaveFails(c) \/ Mark(c)
    <2>1. history'.foundGone = history.foundGone
      BY <1>5 DEF Release, Save, SaveFails, Mark
    <2>2. call'[c].at # "store"
      BY <1>5, AfterRecord, IdleFields
    <2> QED
      BY <2>1, <2>2 DEF Buries
  <1> QED
    BY <1>1, <1>2, <1>3, <1>4, <1>5 DEF GoOn

\* What one request has to do for DebtInv to hold after its step.
LEMMA DebtByOne ==
  ASSUME SandboxTypeOK, DebtInv, NEW c \in Callers, Request(c) \/ GoOn(c),
         task' = "none" => task = "none",
         Makes(call'[c]) => Makes(call[c]),
         call'[c].op = "create" => call[c].op = "create",
         rec'.handle => rec.handle \/ (call[c].op = "create" /\ ~Makes(call'[c])),
         Finds(call'[c]),
         task' = "destroyed" /\ slot' =>
            \/ Owes(call'[c])
            \/ task = "destroyed" /\ slot /\ ~Owes(call[c])
            \/ call[c].op = "undo" /\ call'[c].op # "create" /\ rec' = rec
            \/ Buries(call[c])
  PROVE  DebtInv'
  <1>1. \A d \in Callers : d # c => call'[d] = call[d]
    BY OthersStay
  <1>2. OneMaker'
    <2>1. (task = "none" => ~rec.handle /\ \A d \in Callers : ~Makes(call[d]))'
      <3> SUFFICES ASSUME task' = "none"
                   PROVE  ~rec'.handle /\ \A d \in Callers : ~Makes(call'[d])
        BY DEF Makes
      <3>1. ~rec.handle /\ \A d \in Callers : ~Makes(call[d])
        BY DEF DebtInv, OneMaker
      <3>2. call[c].op # "create"
        BY <3>1 DEF Makes
      <3> QED
        BY <1>1, <3>1, <3>2
    <2>2. \A d, e \in Callers : Makes(call'[d]) /\ Makes(call'[e]) => d = e
      BY <1>1 DEF DebtInv, OneMaker
    <2>3. \A d \in Callers : Makes(call'[d]) => ~rec'.handle
      <3> SUFFICES ASSUME NEW d \in Callers, Makes(call'[d]) PROVE ~rec'.handle
        OBVIOUS
      <3>1. Makes(call[d]) /\ ~rec.handle
        BY <1>1 DEF DebtInv, OneMaker
      <3>2. call[c].op = "create" => d = c
        BY <3>1 DEF DebtInv, OneMaker, Makes
      <3> QED
        BY <3>1, <3>2
    <2> QED
      BY <2>1, <2>2, <2>3 DEF OneMaker, Makes
  <1>3. SlotIsOwed'
    <2> SUFFICES ASSUME task' = "destroyed", slot', Recordable', ~history'.foundGone
                 PROVE  \E d \in Callers : Owes(call'[d])
      BY DEF SlotIsOwed, Owes
    <2>1. Recordable
      <3>1. CASE rec'.handle
        BY <3>1 DEF Recordable
      <3>2. ASSUME NEW d \in Callers, call'[d].op = "create" PROVE Recordable
        BY <1>1, <3>2 DEF Recordable
      <3> QED
        BY <3>1, <3>2 DEF Recordable
    <2>2. CASE Owes(call'[c])
      BY <2>2
    <2>3. ~history.foundGone /\ ~Buries(call[c])
      BY FindingIsKept DEF DebtInv, GoneIsKnown
    <2>4. CASE task = "destroyed" /\ slot /\ ~Owes(call[c])
      <3>1. PICK d \in Callers : Owes(call[d])
        BY <2>1, <2>4, <2>3 DEF DebtInv, SlotIsOwed
      <3>2. call'[d] = call[d]
        BY <1>1, <2>4, <3>1
      <3> QED
        BY <3>1, <3>2
    <2>5. CASE call[c].op = "undo" /\ call'[c].op # "create" /\ rec' = rec
      <3>1. ~rec'.handle
        BY <2>5 DEF DebtInv, OneMaker, Makes
      <3>2. \A d \in Callers : call'[d].op = "create" => call[d].op = "create" /\ d # c
        BY <1>1, <2>5
      <3>3. \A d \in Callers : call'[d].op # "create"
        BY <2>5, <3>2 DEF DebtInv, OneMaker, Makes
      <3> QED
        BY <3>1, <3>3 DEF Recordable
    <2> QED
      BY <2>2, <2>3, <2>4, <2>5
  <1>4. GoneIsKnown'
    <2> SUFFICES ASSUME NEW d \in Callers, Buries(call'[d]) PROVE history'.foundGone
      BY DEF GoneIsKnown, Buries
    <2>1. CASE d = c
      BY <2>1, FindingIsKept
    <2>2. CASE d # c
      BY <1>1, <2>2, FindingIsKept DEF DebtInv, GoneIsKnown
    <2> QED
      BY <2>1, <2>2
  <1>5. \A d \in Callers : Finds(call[d])'
    <2> TAKE d \in Callers
    <2>1. Finds(call'[d])
      BY <1>1 DEF DebtInv
    <2> QED
      BY <2>1 DEF Finds
  <1> QED
    BY <1>2, <1>3, <1>4, <1>5 DEF DebtInv

\* A new request owes nothing.
LEMMA DebtRequest ==
  ASSUME SandboxTypeOK, DebtInv, NEW c \in Callers, Request(c)
  PROVE  DebtInv'
  <1>1. CASE ArriveCreate(c)
    <2>1. /\ task = "none" /\ task' = "created" /\ rec' = rec
          /\ call'[c].op = "create" /\ call'[c].at = "save"
      BY <1>1, EnterFields DEF ArriveCreate
    <2>2. \A d \in Callers : d # c => call'[d] = call[d]
      BY OthersStay
    <2>3. ~rec.handle /\ \A d \in Callers : ~Makes(call[d])
      BY <2>1 DEF DebtInv, OneMaker
    <2>4. \A d \in Callers : d # c => ~Makes(call'[d])
      BY <2>2, <2>3
    <2>5. OneMaker'
      BY <2>1, <2>3, <2>4 DEF OneMaker, Makes
    <2>6. SlotIsOwed'
      BY <2>1 DEF SlotIsOwed
    <2>7. \A d \in Callers : Finds(call'[d])
      BY <2>1, <2>2 DEF DebtInv, Finds
    <2>8. GoneIsKnown'
      BY <2>1, <2>2, FindingIsKept DEF DebtInv, GoneIsKnown, Buries
    <2> QED
      BY <2>5, <2>6, <2>7, <2>8 DEF DebtInv, Finds
  <1>2. ASSUME NEW op \in {"start", "sync", "cancel", "collect", "destroy", "recover"},
               NEW at \in {"read", "state"}, NEW mine, Enter(c, op, at, mine),
               UNCHANGED <<task, rec>>, slot' => slot \/ (op = "start" /\ at = "read" /\ mine)
        PROVE  DebtInv'
    <2>1. /\ call[c].at = "idle" /\ call'[c].op = op /\ call'[c].at = at /\ call'[c].mine = mine
      BY <1>2, EnterFields
    <2>2. ~Makes(call'[c]) /\ call'[c].op # "create" /\ Finds(call'[c])
      BY <2>1 DEF Makes, Finds
    <2>3. ~Owes(call[c])
      BY <2>1 DEF Owes
    <2>4. slot' => slot \/ Owes(call'[c])
      BY <1>2, <2>1 DEF Owes
    <2> QED
      BY <1>2, <2>2, <2>3, <2>4, DebtByOne
  <1>3. CASE ArriveStart(c)
    <2>1. Enter(c, "start", "read", ~slot) /\ UNCHANGED <<task, rec>>
      BY <1>3 DEF ArriveStart
    <2> QED
      BY <1>2, <2>1
  <1>4. CASE ArriveSync(c)
    <2>1. Enter(c, "sync", "state", FALSE) /\ UNCHANGED <<task, rec, slot>>
      BY <1>4 DEF ArriveSync
    <2> QED
      BY <1>2, <2>1
  <1>5. ASSUME NEW op \in {"cancel", "collect", "destroy", "recover"}, Arrive(c, op)
        PROVE  DebtInv'
    <2>1. Enter(c, op, "read", FALSE) /\ UNCHANGED <<task, rec, slot>>
      BY <1>5 DEF Arrive
    <2> QED
      BY <1>2, <2>1
  <1> QED
    BY <1>1, <1>3, <1>4, <1>5 DEF Request

\* A request on its way pays or keeps what it owes.
LEMMA DebtGoOn ==
  ASSUME SandboxTypeOK, DebtInv, NEW c \in Callers, GoOn(c)
  PROVE  DebtInv'
  <1>1. Finds(call[c]) /\ task \in TaskState
    BY DEF DebtInv, SandboxTypeOK
  <1>2. /\ Idle.op # "create" /\ ~Makes(Idle) /\ Finds(Idle)
    BY IdleFields DEF Makes, Finds
  <1>3. CASE Read(c)
    <2>1. /\ SameRequest(c) /\ call'[c].mine = call[c].mine
          /\ call'[c].at \in {"clean", "backend"} /\ call[c].at = "read"
          /\ call'[c].op = "start" => call'[c].at = "backend"
          /\ UNCHANGED <<task, slot, rec>>
      BY <1>3, ReadFields DEF SameRequest, Destroys
    <2>2. /\ Makes(call'[c]) => Makes(call[c])
          /\ Finds(call'[c]) /\ (Owes(call[c]) => Owes(call'[c]))
      BY <2>1 DEF SameRequest, Makes, Finds, Owes
    <2> QED
      BY <2>1, <2>2, DebtByOne DEF SameRequest
  <1>4. CASE Refused(c) \/ BackendFails(c)
    <2>1. UNCHANGED <<task, rec>> /\ GiveUp(c) /\ call[c].at \in {"read", "backend"}
      BY <1>4 DEF Refused, BackendFails
    <2>2. CASE /\ call[c].op # "halt" /\ call'[c] = Idle
               /\ slot' = (slot /\ ~(call[c].op = "start" /\ call[c].mine))
      <3>1. slot' => slot /\ ~Owes(call[c])
        BY <2>1, <2>2 DEF Owes
      <3> QED
        BY <1>2, <2>1, <2>2, <3>1, DebtByOne
    <2>3. CASE /\ call[c].op = "halt" /\ SameRequest(c)
               /\ call'[c].at = "mark" /\ call'[c].want = "running" /\ slot' = slot
      <3>1. ~Makes(call'[c]) /\ Finds(call'[c]) /\ ~Owes(call[c]) /\ call'[c].op # "create"
        BY <2>1, <2>3 DEF SameRequest, Makes, Finds, Owes
      <3> QED
        BY <2>1, <2>3, <3>1, DebtByOne
    <2> QED
      BY <2>1, <2>2, <2>3, GiveUpFields
  <1>5. CASE Backend(c)
    <2>1. /\ SameRequest(c) /\ call'[c].mine = call[c].mine
          /\ call'[c].at = IF Destroys(c) THEN "clean" ELSE "store"
          /\ call'[c].want \in IF call[c].op = "recover" THEN Inspected(box) ELSE {call[c].want}
          /\ call[c].at = "backend" /\ UNCHANGED <<task, slot, rec>>
      BY <1>5, BackendFields
    <2>2. "none" \notin Inspected(box)
      BY DEF Inspected, BoxState
    <2>3. /\ Makes(call'[c]) => Makes(call[c])
          /\ Finds(call'[c]) /\ (Owes(call[c]) => Owes(call'[c]))
      BY <2>1, <2>2 DEF SameRequest, Makes, Finds, Owes, Destroys
    <2> QED
      BY <2>1, <2>3, DebtByOne DEF SameRequest
  <1>6. CASE CleanFails(c)
    <2>1. /\ IF call[c].op = "undo" THEN call'[c] = Idle
             ELSE SameRequest(c) /\ call'[c].at = "save"
          /\ task' = "awaiting_human" /\ UNCHANGED <<slot, rec>>
      BY <1>6, CleanFailsFields
    <2>2. /\ Makes(call'[c]) => Makes(call[c])
          /\ Finds(call'[c]) /\ (call'[c].op = "create" => call[c].op = "create")
      BY <1>2, <2>1 DEF SameRequest, Makes, Finds
    <2> QED
      BY <2>1, <2>2, DebtByOne
  <1>7. CASE Store(c)
    <2>1. /\ IF call[c].op = "undo" THEN call'[c] = Idle
             ELSE SameRequest(c) /\ call'[c].at = AfterStore(c)
          /\ call[c].at = (IF Destroys(c) THEN "clean" ELSE "store") /\ task' = Stored(c)
          /\ UNCHANGED <<slot, rec>>
      BY <1>7, StoreFields
    <2>2. /\ Makes(call'[c]) => Makes(call[c])
          /\ Finds(call'[c]) /\ (call'[c].op = "create" => call[c].op = "create")
      <3>1. AfterStore(c) # "store"
        BY DEF AfterStore
      <3> QED
        BY <1>2, <2>1, <3>1 DEF SameRequest, Makes, Finds
    <2>3. task' = "none" => task = "none"
      BY <1>1, <2>1 DEF Stored, Finds, Destroys
    <2>4. CASE call[c].op = "undo"
      BY <1>2, <2>1, <2>2, <2>3, <2>4, DebtByOne
    <2>5. CASE call[c].op = "destroy"
      <3>1. call'[c].at = "release"
        BY <2>1, <2>5 DEF AfterStore
      <3>2. Owes(call'[c])
        BY <3>1 DEF Owes
      <3> QED
        BY <2>1, <2>2, <2>3, <3>2, DebtByOne
    <2>6. CASE call[c].op \notin {"undo", "destroy"}
      <3>1. ~Destroys(c) /\ call[c].at = "store"
        BY <2>1, <2>6 DEF Destroys
      <3>2. task' = "destroyed" =>
              \/ Buries(call[c])
              \/ task = "destroyed" /\ call[c].op \notin {"start", "cancel", "halt", "recover"}
        BY <2>1, <3>1 DEF Stored, Buries
      <3>3. task' = "destroyed" => Buries(call[c]) \/ ~Owes(call[c])
        BY <3>1, <3>2 DEF Owes
      <3> QED
        BY <2>1, <2>2, <2>3, <3>2, <3>3, DebtByOne
    <2> QED
      BY <2>4, <2>5, <2>6
  <1>8. CASE ReadState(c)
    <2>1. /\ call'[c] = Idle \/ (SameRequest(c) /\ call'[c].at = "save")
          /\ call[c].at = "state" /\ UNCHANGED <<task, slot, rec>>
      BY <1>8, ReadStateFields
    <2>2. /\ Makes(call'[c]) => Makes(call[c])
          /\ Finds(call'[c]) /\ (call'[c].op = "create" => call[c].op = "create")
          /\ ~Owes(call[c])
      BY <1>2, <2>1 DEF SameRequest, Makes, Finds, Owes
    <2> QED
      BY <2>1, <2>2, DebtByOne
  <1>9. CASE Release(c)
    <2>1. /\ call'[c] = Idle \/ (SameRequest(c) /\ call'[c].at \in {"mark", "save"})
          /\ slot' = FALSE /\ UNCHANGED <<task, rec>>
      BY <1>9, ReleaseFields
    <2>2. /\ Makes(call'[c]) => Makes(call[c])
          /\ Finds(call'[c]) /\ (call'[c].op = "create" => call[c].op = "create")
      BY <1>2, <2>1 DEF SameRequest, Makes, Finds
    <2> QED
      BY <2>1, <2>2, DebtByOne
  <1>10. CASE Save(c)
    <2>1. /\ IF call[c].op = "collect" THEN SameRequest(c) /\ call'[c].at = "release"
             ELSE call'[c] = Idle
          /\ call[c].at = "save" /\ UNCHANGED <<task, slot>>
          /\ call[c].op # "create" => rec'.handle = rec.handle
      BY <1>10, SaveFields
    <2>2. /\ ~Makes(call'[c]) /\ Finds(call'[c]) /\ call'[c].op # "create" /\ ~Owes(call[c])
      BY <1>2, <2>1 DEF SameRequest, Makes, Finds, Owes
    <2> QED
      BY <2>1, <2>2, DebtByOne
  <1>11. CASE SaveFails(c)
    <2>1. /\ call[c].at = "save" /\ UNCHANGED <<task, slot, rec>>
          /\ \/ call'[c] = Idle
             \/ call'[c].op = "undo" /\ call[c].op = "create" /\ call'[c].at = "read"
             \/ call'[c].op = "halt" /\ call'[c].at = "read"
             \/ call'[c].op = "collect" /\ call'[c].at = "release"
             \/ call[c].op \in {"cancel", "halt", "destroy"} /\ SameRequest(c) /\ call'[c].at = "mark"
      BY <1>11, SaveFailsFields
    <2>2. /\ Makes(call'[c]) => Makes(call[c])
          /\ Finds(call'[c]) /\ call'[c].op # "create" /\ ~Owes(call[c])
      BY <1>2, <2>1 DEF SameRequest, Makes, Finds, Owes
    <2> QED
      BY <2>1, <2>2, DebtByOne
  <1>12. CASE Mark(c)
    <2>1. /\ call'[c] = Idle /\ call[c].at = "mark"
          /\ rec'.handle = rec.handle /\ UNCHANGED <<task, slot>>
      BY <1>12, MarkFields
    <2>2. ~Owes(call[c])
      BY <2>1 DEF Owes
    <2> QED
      BY <1>2, <2>1, <2>2, DebtByOne
  <1> QED
    BY <1>3, <1>4, <1>5, <1>6, <1>7, <1>8, <1>9, <1>10, <1>11, <1>12 DEF GoOn

\* Every step keeps DebtInv.
LEMMA DebtStep ==
  ASSUME SandboxTypeOK, DebtInv, [SandboxNext]_sandboxVars
  PROVE  DebtInv'
  <1>1. ASSUME NEW c \in Callers, Request(c) \/ GoOn(c)
        PROVE  DebtInv'
    BY <1>1, DebtRequest, DebtGoOn
  <1>2. CASE UNCHANGED <<task, slot, rec, call>> /\ history'.foundGone = history.foundGone
    <2>1. OneMaker' /\ SlotIsOwed' /\ GoneIsKnown'
      BY <1>2 DEF DebtInv, OneMaker, Makes, SlotIsOwed, Recordable, Owes, GoneIsKnown, Buries
    <2> QED
      BY <1>2, <2>1 DEF DebtInv, Finds
  <1>3. CreateCutOff \/ BoxEnds \/ OtherSave \/ UNCHANGED sandboxVars
            => UNCHANGED <<task, slot, rec, call>> /\ history'.foundGone = history.foundGone
    BY DEF CreateCutOff, BoxEnds, OtherSave, sandboxVars, SandboxTypeOK, Happened
  <1>4. ASSUME NEW saves \in BOOLEAN, Restart(saves)
        PROVE  DebtInv'
    <2>1. \A c \in Callers : call'[c] = Idle
      BY <1>4 DEF Restart
    <2>2. \A c \in Callers : ~Makes(call'[c]) /\ Finds(call'[c]) /\ ~Buries(call'[c])
      BY <2>1, IdleFields DEF Makes, Finds, Buries
    <2>3. slot' = FALSE /\ task' \in Restored(box')
      BY <1>4 DEF Restart
    <2>4. task' = "none" => ~disk.handle
      BY <2>3 DEF Restored, Inspected, BoxState
    <2>5. task' = "none" => ~rec'.handle
      BY <1>4, <2>4 DEF Restart
    <2> QED
      BY <2>2, <2>3, <2>5 DEF DebtInv, OneMaker, Makes, Finds, SlotIsOwed, GoneIsKnown, Buries
  <1>5. CASE RestartEmpty
    <2>1. \A c \in Callers : call'[c] = Idle
      BY <1>5 DEF RestartEmpty
    <2>2. \A c \in Callers : ~Makes(call'[c]) /\ Finds(call'[c]) /\ ~Buries(call'[c])
      BY <2>1, IdleFields DEF Makes, Finds, Buries
    <2>3. slot' = FALSE /\ ~rec'.handle
      BY <1>5 DEF RestartEmpty, NoRecord
    <2> QED
      BY <2>2, <2>3 DEF DebtInv, OneMaker, Makes, Finds, SlotIsOwed, GoneIsKnown, Buries
  <1> QED
    BY <1>1, <1>2, <1>3, <1>4, <1>5 DEF SandboxNext

-----------------------------------------------------------------------------
(* a running task has its slot                                             *)

\* One request is in flight at most.
Alone == \A c, d \in Callers : call[c].at # "idle" /\ call[d].at # "idle" => c = d

\* A request that arrives without an overlap is the only one.
LEMMA ArrivesAlone ==
  ASSUME SandboxTypeOK, NEW c \in Callers, Request(c), ~history'.overlap
  PROVE  /\ history' = history /\ Alone'
         /\ \A d \in Callers : d # c => call'[d].at = "idle"
         /\ \A d \in Callers : call[d].at = "idle"
  <1>1. \E op, at, mine : Enter(c, op, at, mine)
    BY DEF Request, ArriveCreate, ArriveStart, ArriveSync, Arrive
  <1>2. Quiet /\ history' = history
    BY <1>1, EnterFields
  <1>3. \A d \in Callers : d # c => call'[d].at = "idle"
    BY <1>2, OthersStay DEF Quiet
  <1> QED
    BY <1>2, <1>3 DEF Quiet, Alone

\* A step of the only request.
LEMMA GoesOnAlone ==
  ASSUME SandboxTypeOK, Alone, NEW c \in Callers, GoOn(c)
  PROVE  /\ Alone' /\ call[c].at # "idle"
         /\ \A d \in Callers : d # c => call[d].at = "idle" /\ call'[d].at = "idle"
  <1>1. call[c].at # "idle"
    BY DEF GoOn, Read, Refused, Backend, BackendFails, CleanFails, Store, ReadState, Release,
           Save, SaveFails, Mark
  <1>2. \A d \in Callers : d # c => call[d].at = "idle"
    BY <1>1 DEF Alone
  <1>3. \A d \in Callers : d # c => call'[d].at = "idle"
    BY <1>2, OthersStay
  <1> QED
    BY <1>1, <1>2, <1>3 DEF Alone

\* What a request relies on, or has brought about, while it is the only one.
SlotKept(x) ==
    /\ x.op = "start" /\ x.at \in {"read", "backend", "store", "save"} => slot
    /\ x.op = "start" /\ x.mine /\ x.at \in {"read", "backend"} =>
         task # "running" /\ box # "running"
    /\ x.op \in {"cancel", "halt"} /\ x.at = "store" => box # "running"
    /\ x.op = "collect" /\ x.at \in {"backend", "store"} => (task = "running" => x.ran)
    /\ x.op = "collect" /\ x.at \in {"store", "state", "save"} => box # "running"
    /\ x.op = "collect" /\ x.at \in {"state", "save"} => task # "running"
    /\ x.op \in {"destroy", "undo"} /\ x.at \in {"backend", "clean"} => task # "running"
    /\ x.at \in {"clean", "state", "release"} => x.op # "start"
    /\ x.at \in {"backend", "clean", "store"} => task # "none"
    /\ x.at = "clean" => box \notin BoxState
    /\ x.op = "recover" /\ x.at = "store" =>
         /\ x.want = "running" => slot
         /\ x.want = "awaiting_human" => box \notin BoxState
    /\ x.at = "release" => task # "running" /\ box # "running"

SlotHeld ==
    /\ task = "running" \/ box = "running" => slot
    /\ task = "awaiting_human" => box \notin BoxState

SlotInv ==
    \/ history.overlap \/ history.cutOff
    \/ /\ Alone /\ SlotHeld
       /\ \A c \in Callers : SlotKept(call[c])

\* A request that comes alone finds the slot as the task has it.
LEMMA SlotRequest ==
  ASSUME SandboxTypeOK, SlotInv, NEW c \in Callers, Request(c),
         ~history'.overlap, ~history'.cutOff
  PROVE  SlotInv'
  <1>1. /\ history' = history /\ Alone'
        /\ \A d \in Callers : d # c => call'[d].at = "idle"
    BY ArrivesAlone
  <1>2. SlotHeld
    BY <1>1 DEF SlotInv
  <1>3. \A d \in Callers : d # c => SlotKept(call[d])'
    BY <1>1 DEF SlotKept
  <1>4. SlotKept(call[c])' /\ SlotHeld'
    <2>1. CASE ArriveCreate(c)
      <3>1. /\ task' = "created" /\ box' = "created" /\ slot' = slot
            /\ call'[c].op = "create" /\ call'[c].at = "save"
        BY <2>1, EnterFields DEF ArriveCreate
      <3> QED
        BY <3>1 DEF SlotKept, SlotHeld
    <2>2. CASE ArriveStart(c)
      <3>1. /\ UNCHANGED <<task, box>> /\ slot' = TRUE
            /\ call'[c].op = "start" /\ call'[c].at = "read" /\ call'[c].mine = ~slot
        BY <2>2, EnterFields DEF ArriveStart
      <3> QED
        BY <1>2, <3>1 DEF SlotKept, SlotHeld
    <2>3. CASE ArriveSync(c)
      <3>1. UNCHANGED <<task, box, slot>> /\ call'[c].op = "sync" /\ call'[c].at = "state"
        BY <2>3, EnterFields DEF ArriveSync
      <3> QED
        BY <1>2, <3>1 DEF SlotKept, SlotHeld
    <2>4. ASSUME NEW op \in {"cancel", "collect", "destroy", "recover"}, Arrive(c, op)
          PROVE  SlotKept(call[c])' /\ SlotHeld'
      <3>1. UNCHANGED <<task, box, slot>> /\ call'[c].op = op /\ call'[c].at = "read"
        BY <2>4, EnterFields DEF Arrive
      <3> QED
        BY <1>2, <3>1 DEF SlotKept, SlotHeld
    <2> QED
      BY <2>1, <2>2, <2>3, <2>4 DEF Request
  <1> QED
    BY <1>1, <1>3, <1>4 DEF SlotInv

\* A step of a request forgets no overlap and no cut-off call.
LEMMA SlotRemembers ==
  ASSUME SandboxTypeOK, NEW c \in Callers, GoOn(c),
         ~history'.overlap, ~history'.cutOff
  PROVE  ~history.overlap /\ ~history.cutOff
  <1>1. CASE Read(c) \/ CleanFails(c) \/ Store(c) \/ ReadState(c) \/ Release(c) \/ Mark(c)
    BY <1>1 DEF Read, CleanFails, Store, ReadState, Release, Mark
  <1>2. CASE Refused(c)
    BY <1>2 DEF Refused, SandboxTypeOK, Happened
  <1>3. CASE BackendFails(c)
    BY <1>3 DEF BackendFails, SandboxTypeOK, Happened
  <1>4. CASE Backend(c) \/ Save(c) \/ SaveFails(c)
    BY <1>4 DEF Backend, Save, SaveFails, SandboxTypeOK, Happened
  <1> QED
    BY <1>1, <1>2, <1>3, <1>4 DEF GoOn

\* A request that runs alone leaves the slot as the task has it.
LEMMA SlotGoOn ==
  ASSUME SandboxTypeOK, SlotInv, NEW c \in Callers, GoOn(c),
         ~history'.overlap, ~history'.cutOff
  PROVE  SlotInv'
  <1>1. Alone /\ SlotHeld /\ SlotKept(call[c])
    BY SlotRemembers DEF SlotInv
  <1>2. Alone' /\ \A d \in Callers : d # c => call'[d].at = "idle"
    BY <1>1, GoesOnAlone
  <1>3. \A d \in Callers : d # c => SlotKept(call[d])'
    BY <1>2 DEF SlotKept
  <1>4. SUFFICES SlotKept(call[c])' /\ SlotHeld'
    BY <1>2, <1>3 DEF SlotInv
  <1>5. call'[c] = Idle => SlotKept(call[c])'
    BY IdleFields DEF SlotKept
  <1>6. CASE Read(c)
    <2>1. /\ SameRequest(c) /\ call'[c].mine = call[c].mine
          /\ call'[c].at = IF task = "awaiting_human" /\ Destroys(c) THEN "clean" ELSE "backend"
          /\ call[c].op = "collect" /\ task = "running" => call'[c].ran
          /\ call[c].at = "read" /\ UNCHANGED <<task, box, slot>>
      BY <1>6, ReadFields
    <2>2. (Destroys(c) => task # "running") /\ task # "none"
      BY <1>6, ReadFields DEF Destroys, Allowed, Settled, Gone
    <2> QED
      BY <1>1, <2>1, <2>2 DEF SlotKept, SlotHeld, SameRequest, Destroys
  <1>7. CASE Refused(c)
    <2>1. UNCHANGED <<task, box>> /\ GiveUp(c) /\ call[c].at = "read"
      BY <1>7 DEF Refused
    <2>2. CASE /\ call[c].op # "halt" /\ call'[c] = Idle
               /\ slot' = (slot /\ ~(call[c].op = "start" /\ call[c].mine))
      BY <1>1, <1>5, <2>1, <2>2 DEF SlotKept, SlotHeld
    <2>3. CASE /\ call[c].op = "halt" /\ SameRequest(c)
               /\ call'[c].at = "mark" /\ call'[c].want = "running" /\ slot' = slot
      BY <1>1, <2>1, <2>3 DEF SlotKept, SlotHeld, SameRequest
    <2> QED
      BY <2>1, <2>2, <2>3, GiveUpFields
  <1>8. CASE Backend(c)
    <2>1. /\ SameRequest(c) /\ call'[c].ran = call[c].ran /\ call'[c].mine = call[c].mine
          /\ call'[c].at = IF Destroys(c) THEN "clean" ELSE "store"
          /\ call'[c].want \in IF call[c].op = "recover" THEN Inspected(box) ELSE {call[c].want}
          /\ call[c].at = "backend" /\ box \in Accepts(call[c].op) /\ box' = Next(call[c].op)
          /\ UNCHANGED <<task, slot>>
      BY <1>8, BackendFields
    <2>2. /\ box' = "running" => (box = "running" \/ call[c].op = "start")
          /\ call[c].op \in {"cancel", "halt", "collect"} => box' # "running"
          /\ Destroys(c) => box' \notin BoxState
          /\ box' \in BoxState => box \in BoxState
          /\ call[c].op = "recover" => box' = box
      BY <2>1 DEF Next, Accepts, BoxState, Destroys
    <2>3. "running" \in Inspected(box) => slot
      BY <1>1 DEF Inspected, SlotHeld
    <2>4. "awaiting_human" \in Inspected(box) => box \notin BoxState
      BY DEF Inspected, BoxState
    <2>5. SlotHeld'
      BY <1>1, <2>1, <2>2 DEF SlotKept, SlotHeld
    <2>6. SlotKept(call[c])'
      <3>1. call[c].op = "recover" =>
              /\ call'[c].want = "running" => slot
              /\ call'[c].want = "awaiting_human" => box \notin BoxState
        BY <2>1, <2>3, <2>4
      <3>2. /\ call'[c].op = call[c].op
            /\ call'[c].at = IF Destroys(c) THEN "clean" ELSE "store"
        BY <2>1 DEF SameRequest
      <3> QED
        BY <1>1, <2>1, <2>2, <3>1, <3>2 DEF SlotKept, Destroys
    <2> QED
      BY <2>5, <2>6
  <1>9. CASE BackendFails(c)
    <2>1. UNCHANGED task /\ GiveUp(c) /\ call[c].at = "backend"
      BY <1>9 DEF BackendFails
    <2>2. box' = box
      BY <1>9 DEF BackendFails, SandboxTypeOK, Happened
    <2>3. CASE /\ call[c].op # "halt" /\ call'[c] = Idle
               /\ slot' = (slot /\ ~(call[c].op = "start" /\ call[c].mine))
      BY <1>1, <1>5, <2>1, <2>2, <2>3 DEF SlotKept, SlotHeld
    <2>4. CASE /\ call[c].op = "halt" /\ SameRequest(c)
               /\ call'[c].at = "mark" /\ call'[c].want = "running" /\ slot' = slot
      BY <1>1, <2>1, <2>2, <2>4 DEF SlotKept, SlotHeld, SameRequest
    <2> QED
      BY <2>1, <2>3, <2>4, GiveUpFields
  <1>10. CASE CleanFails(c)
    <2>1. /\ IF call[c].op = "undo" THEN call'[c] = Idle
             ELSE SameRequest(c) /\ call'[c].at = "save"
          /\ call[c].at = "clean" /\ task' = "awaiting_human" /\ UNCHANGED <<box, slot>>
      BY <1>10, CleanFailsFields
    <2>2. SlotHeld'
      BY <1>1, <2>1 DEF SlotKept, SlotHeld
    <2>3. CASE call[c].op = "undo"
      BY <1>5, <2>1, <2>2, <2>3
    <2>4. CASE call[c].op # "undo"
      <3>1. box' # "running" /\ task' # "running" /\ call[c].op # "start"
        BY <1>1, <2>1 DEF SlotKept, BoxState
      <3> QED
        BY <2>1, <2>2, <2>4, <3>1 DEF SlotKept, SameRequest
    <2> QED
      BY <2>3, <2>4
  <1>11. CASE Store(c)
    <2>1. /\ IF call[c].op = "undo" THEN call'[c] = Idle
             ELSE /\ SameRequest(c) /\ call'[c].at = AfterStore(c) /\ call'[c].want = task'
                  /\ call'[c].mine = FALSE
          /\ call[c].at = (IF Destroys(c) THEN "clean" ELSE "store") /\ task' = Stored(c)
          /\ UNCHANGED <<box, slot>>
      BY <1>11, StoreFields
    <2>2. CASE Destroys(c)
      <3>1. task' = "destroyed" /\ call[c].op \in {"destroy", "undo"} /\ call[c].at = "clean"
        BY <2>1, <2>2 DEF Stored, Destroys
      <3>2. box \notin BoxState /\ box # "running"
        BY <1>1, <3>1 DEF SlotKept, BoxState
      <3>3. SlotHeld'
        BY <2>1, <3>1, <3>2 DEF SlotHeld
      <3>4. AfterStore(c) \in {"release", "state"}
        BY <3>1 DEF AfterStore
      <3> QED
        BY <1>5, <2>1, <3>1, <3>2, <3>3, <3>4 DEF SlotKept, SameRequest
    <2>3. CASE call[c].op = "start" /\ ~Destroys(c)
      <3>1. task' = "running" /\ call'[c].at = "save" /\ slot /\ SameRequest(c)
        BY <1>1, <2>1, <2>3 DEF Stored, AfterStore, SlotKept
      <3> QED
        BY <2>1, <2>3, <3>1 DEF SlotKept, SlotHeld, SameRequest
    <2>4. CASE call[c].op \in {"cancel", "halt"} /\ ~Destroys(c)
      <3>1. task' = "cancelled" /\ call'[c].at = "release" /\ SameRequest(c) /\ box # "running"
        BY <1>1, <2>1, <2>4 DEF Stored, AfterStore, SlotKept
      <3> QED
        BY <2>1, <2>4, <3>1 DEF SlotKept, SlotHeld, SameRequest
    <2>5. CASE call[c].op = "recover" /\ ~Destroys(c)
      <3>1. /\ task' = call[c].want /\ call'[c].at = "save" /\ SameRequest(c)
            /\ call[c].want = "running" => slot
            /\ call[c].want = "awaiting_human" => box \notin BoxState
        BY <1>1, <2>1, <2>5 DEF Stored, AfterStore, SlotKept
      <3> QED
        BY <1>1, <2>1, <2>5, <3>1 DEF SlotKept, SlotHeld, SameRequest
    <2>6. CASE call[c].op = "collect" /\ ~Destroys(c)
      <3>1. /\ task' = IF call[c].ran /\ task = "running" THEN "completed" ELSE task
            /\ call'[c].at = "state" /\ SameRequest(c)
            /\ box # "running" /\ (task = "running" => call[c].ran)
        BY <1>1, <2>1, <2>6 DEF Stored, AfterStore, SlotKept, Destroys
      <3>2. task' # "running" /\ (task' = "awaiting_human" => task = "awaiting_human")
        BY <3>1
      <3> QED
        BY <1>1, <2>1, <2>6, <3>1, <3>2 DEF SlotKept, SlotHeld, SameRequest
    <2>7. CASE call[c].op \in {"create", "sync"} /\ ~Destroys(c)
      <3>1. /\ task' = IF call[c].ran /\ task = "running" THEN "completed" ELSE task
            /\ call'[c].at = "state" /\ SameRequest(c)
        BY <2>1, <2>7 DEF Stored, AfterStore, Destroys
      <3> QED
        BY <1>1, <2>1, <2>7, <3>1 DEF SlotKept, SlotHeld, SameRequest
    <2>8. call[c].op \in Ops
      BY ProviderTypes
    <2> QED
      BY <2>2, <2>3, <2>4, <2>5, <2>6, <2>7, <2>8 DEF Ops, Destroys
  <1>12. CASE ReadState(c)
    <2>1. /\ IF task = "none" THEN call'[c] = Idle
             ELSE SameRequest(c) /\ call'[c].at = "save"
          /\ call[c].at = "state" /\ UNCHANGED <<task, box, slot>>
      BY <1>12, ReadStateFields
    <2> QED
      BY <1>1, <1>5, <2>1 DEF SlotKept, SlotHeld, SameRequest
  <1>13. CASE Release(c)
    <2>1. /\ call'[c] = Idle \/ (SameRequest(c) /\ call'[c].at \in {"mark", "save"})
          /\ call[c].at = "release" /\ slot' = FALSE /\ UNCHANGED <<task, box>>
      BY <1>13, ReleaseFields
    <2> QED
      BY <1>1, <1>5, <2>1 DEF SlotKept, SlotHeld, SameRequest
  <1>14. CASE Save(c)
    <2>1. /\ IF call[c].op = "collect" THEN SameRequest(c) /\ call'[c].at = "release"
             ELSE call'[c] = Idle
          /\ call[c].at = "save" /\ UNCHANGED <<task, box, slot>>
      BY <1>14, SaveFields
    <2> QED
      BY <1>1, <1>5, <2>1 DEF SlotKept, SlotHeld, SameRequest
  <1>15. CASE SaveFails(c)
    <2>1. /\ call[c].at = "save" /\ UNCHANGED <<task, box, slot>>
          /\ \/ call'[c] = Idle
             \/ call'[c].op \in {"undo", "halt"} /\ call'[c].at = "read"
             \/ call[c].op = "collect" /\ call'[c].op = "collect" /\ call'[c].at = "release"
             \/ call[c].op \in {"cancel", "halt", "destroy"} /\ SameRequest(c) /\ call'[c].at = "mark"
      BY <1>15, SaveFailsFields
    <2> QED
      BY <1>1, <1>5, <2>1 DEF SlotKept, SlotHeld, SameRequest
  <1>16. CASE Mark(c)
    <2>1. call'[c] = Idle /\ UNCHANGED <<task, box, slot>>
      BY <1>16, MarkFields
    <2> QED
      BY <1>1, <1>5, <2>1 DEF SlotHeld
  <1> QED
    BY <1>6, <1>7, <1>8, <1>9, <1>10, <1>11, <1>12, <1>13, <1>14, <1>15, <1>16 DEF GoOn

\* Every step keeps SlotInv.
LEMMA SlotStep ==
  ASSUME SandboxTypeOK, SlotInv, [SandboxNext]_sandboxVars
  PROVE  SlotInv'
  <1> SUFFICES ASSUME ~history'.overlap, ~history'.cutOff
               PROVE  SlotInv'
    BY DEF SlotInv
  <1>1. ASSUME NEW c \in Callers, Request(c) \/ GoOn(c)
        PROVE  SlotInv'
    BY <1>1, SlotRequest, SlotGoOn
  <1>2. CASE CreateCutOff \/ BoxEnds
    <2>1. /\ ~history.overlap /\ ~history.cutOff
          /\ UNCHANGED <<task, slot, call>> /\ box' # "running"
          /\ box' \in BoxState => box \in BoxState \/ task = "none"
      BY <1>2 DEF CreateCutOff, BoxEnds, SandboxTypeOK, Happened, BoxState
    <2>2. /\ Alone /\ SlotHeld /\ \A c \in Callers : SlotKept(call[c])
      BY <2>1 DEF SlotInv
    <2>3. CASE BoxEnds
      <3>1. box \in BoxState /\ box' \in BoxState
        BY <2>3 DEF BoxEnds, BoxState
      <3> QED
        BY <2>1, <2>2, <3>1 DEF SlotInv, Alone, SlotHeld, SlotKept
    <2>4. CASE CreateCutOff
      <3>1. history'.stranded /\ task = "none" /\ box' = "created"
        BY <2>4 DEF CreateCutOff, SandboxTypeOK, Happened
      <3> QED
        BY <2>1, <2>2, <3>1 DEF SlotInv, Alone, SlotHeld, SlotKept
    <2> QED
      BY <1>2, <2>3, <2>4
  <1>3. CASE OtherSave \/ UNCHANGED sandboxVars
    <2>1. /\ UNCHANGED <<task, box, slot, call>>
          /\ ~history.overlap /\ ~history.cutOff
      BY <1>3 DEF OtherSave, sandboxVars, SandboxTypeOK, Happened
    <2> QED
      BY <2>1 DEF SlotInv, Alone, SlotHeld, SlotKept
  <1>4. CASE (\E saves \in BOOLEAN : Restart(saves)) \/ RestartEmpty
    BY <1>4 DEF Restart, RestartEmpty, Restarted, Nothing
  <1> QED
    BY <1>1, <1>2, <1>3, <1>4 DEF SandboxNext

\* admitAIJob, releaseAIJob and the handlers around them, for any number of
\* requests: a running task has its slot unless requests overlapped, a call was
\* cut off or the node was started again; and in every interleaving a destroyed
\* task that is recorded keeps no slot once its requests are through, unless
\* recover was told that the sandbox is destroyed.
THEOREM SlotsFollowTasks == SandboxSpec => []SlotFollowsTaskUnless
  <1>1. SandboxInit => DebtInv /\ SlotInv
    <2> SUFFICES ASSUME SandboxInit PROVE DebtInv /\ SlotInv
      OBVIOUS
    <2>1. \A c \in Callers : call[c] = Idle
      BY DEF SandboxInit
    <2>2. DebtInv
      BY <2>1, IdleFields DEF SandboxInit, DebtInv, OneMaker, Makes, Finds, Buries,
              GoneIsKnown, SlotIsOwed, NoRecord
    <2>3. Alone /\ \A c \in Callers : SlotKept(call[c])
      BY <2>1, IdleFields DEF Alone, SlotKept
    <2> QED
      BY <2>2, <2>3 DEF SandboxInit, SlotInv, SlotHeld
  <1>2. SandboxTypeOK /\ DebtInv /\ SlotInv /\ [SandboxNext]_sandboxVars => (DebtInv /\ SlotInv)'
    BY DebtStep, SlotStep
  <1>3. DebtInv /\ SlotInv => SlotFollowsTaskUnless
    BY DEF DebtInv, SlotIsOwed, Recordable, Owes, SlotInv, SlotHeld, SlotFollowsTaskUnless, Quiet
  <1> QED
    BY <1>1, <1>2, <1>3, SandboxTypeCorrect, PTL DEF SandboxSpec

-----------------------------------------------------------------------------
(* the record follows the task                                             *)

\* What a request that is the only one will tell the record.
Tells(x) ==
    /\ x.op = "create" => x.at \in {"idle", "save"}
    /\ x.op = "sync" => x.at \in {"idle", "state", "save"}
    /\ x.op = "create" /\ x.at = "save" => task = "created"
    /\ x.op = "halt" /\ x.at \in {"read", "backend"} => task = "running"
    /\ x.op = "start" /\ x.at = "save" => task = "running"
    /\ x.op # "create" /\ x.at \in {"save", "mark"} => x.want = task
    /\ x.at = "release" /\ (x.op # "collect" \/ x.unsaved) => x.want = task
    /\ x.at = "state" => x.op \in {"collect", "sync"}
    /\ x.at = "clean" => x.op \in {"destroy", "undo"}
    /\ x.at = "release" => x.op # "start"

\* A request at a point where the record has been told, or nothing has changed.
Told(x) ==
    \/ x.at = "idle"
    \/ x.at \in {"read", "backend", "clean", "store"} /\ x.op # "halt"
    \/ x.op = "sync"
    \/ x.op = "collect" /\ x.at = "release" /\ ~x.unsaved

RecordAgrees ==
    rec.handle /\ (\A c \in Callers : Told(call[c])) => rec.status = task

RecordInv ==
    \/ history.overlap \/ history.unsaved
    \/ /\ Alone /\ RecordAgrees
       /\ \A c \in Callers : Tells(call[c])

\* Only the request that goes on counts.
LEMMA RecordByOne ==
  ASSUME SandboxTypeOK, NEW c \in Callers, Alone', Tells(call[c])',
         \A d \in Callers : d # c => call'[d].at = "idle",
         rec'.handle /\ Told(call'[c]) => rec'.status = task'
  PROVE  RecordInv'
  <1>1. \A d \in Callers : d # c => Tells(call[d])'
    BY DEF Tells
  <1>2. RecordAgrees'
    BY DEF RecordAgrees, Told
  <1> QED
    BY <1>1, <1>2 DEF RecordInv

\* A request that comes alone finds the record in agreement.
LEMMA RecordRequest ==
  ASSUME SandboxTypeOK, DebtInv, RecordInv, NEW c \in Callers, Request(c),
         ~history'.overlap, ~history'.unsaved
  PROVE  RecordInv'
  <1>1. /\ history' = history /\ Alone'
        /\ \A d \in Callers : d # c => call'[d].at = "idle"
        /\ \A d \in Callers : call[d].at = "idle"
    BY ArrivesAlone
  <1>2. rec.handle => rec.status = task
    BY <1>1 DEF RecordInv, RecordAgrees, Told
  <1>3. Tells(call[c])' /\ (rec'.handle => rec'.status = task')
    <2>1. CASE ArriveCreate(c)
      <3>1. /\ task = "none" /\ task' = "created" /\ rec' = rec
            /\ call'[c].op = "create" /\ call'[c].at = "save"
        BY <2>1, EnterFields DEF ArriveCreate
      <3> QED
        BY <3>1 DEF Tells, DebtInv, OneMaker
    <2>2. CASE ArriveStart(c)
      <3>1. UNCHANGED <<task, rec>> /\ call'[c].op = "start" /\ call'[c].at = "read"
        BY <2>2, EnterFields DEF ArriveStart
      <3> QED
        BY <1>2, <3>1 DEF Tells
    <2>3. CASE ArriveSync(c)
      <3>1. UNCHANGED <<task, rec>> /\ call'[c].op = "sync" /\ call'[c].at = "state"
        BY <2>3, EnterFields DEF ArriveSync
      <3> QED
        BY <1>2, <3>1 DEF Tells
    <2>4. ASSUME NEW op \in {"cancel", "collect", "destroy", "recover"}, Arrive(c, op)
          PROVE  Tells(call[c])' /\ (rec'.handle => rec'.status = task')
      <3>1. UNCHANGED <<task, rec>> /\ call'[c].op = op /\ call'[c].at = "read"
        BY <2>4, EnterFields DEF Arrive
      <3> QED
        BY <1>2, <3>1 DEF Tells
    <2> QED
      BY <2>1, <2>2, <2>3, <2>4 DEF Request
  <1> QED
    BY <1>1, <1>3, RecordByOne

\* A step of a request forgets no overlap and no failed save.
LEMMA RecordRemembers ==
  ASSUME SandboxTypeOK, NEW c \in Callers, GoOn(c), ~history'.overlap, ~history'.unsaved
  PROVE  ~history.overlap /\ ~history.unsaved
  <1>1. CASE Read(c) \/ CleanFails(c) \/ Store(c) \/ ReadState(c) \/ Release(c) \/ Mark(c)
    BY <1>1 DEF Read, CleanFails, Store, ReadState, Release, Mark
  <1>2. CASE Refused(c)
    BY <1>2 DEF Refused, SandboxTypeOK, Happened
  <1>3. CASE BackendFails(c)
    BY <1>3 DEF BackendFails, SandboxTypeOK, Happened
  <1>4. CASE Backend(c) \/ Save(c) \/ SaveFails(c)
    BY <1>4 DEF Backend, Save, SaveFails, SandboxTypeOK, Happened
  <1> QED
    BY <1>1, <1>2, <1>3, <1>4 DEF GoOn

\* A request that runs alone brings the record in agreement.
LEMMA RecordGoOn ==
  ASSUME SandboxTypeOK, DebtInv, RecordInv, NEW c \in Callers, GoOn(c),
         ~history'.overlap, ~history'.unsaved
  PROVE  RecordInv'
  <1>1. Alone /\ RecordAgrees /\ Tells(call[c])
    BY RecordRemembers DEF RecordInv
  <1>2. /\ Alone' /\ call[c].at # "idle"
        /\ \A d \in Callers : d # c => call[d].at = "idle" /\ call'[d].at = "idle"
    BY <1>1, GoesOnAlone
  <1>3. rec.handle /\ Told(call[c]) => rec.status = task
    BY <1>1, <1>2 DEF RecordAgrees, Told
  <1>4. Makes(call[c]) => ~rec.handle
    BY DEF DebtInv, OneMaker
  <1>5. SUFFICES Tells(call[c])' /\ (rec'.handle /\ Told(call'[c]) => rec'.status = task')
    BY <1>2, RecordByOne
  <1>6. call'[c] = Idle => Tells(call[c])'
    BY IdleFields DEF Tells
  <1>7. CASE Read(c)
    <2>1. /\ SameRequest(c) /\ call'[c].want = call[c].want
          /\ call'[c].at = IF task = "awaiting_human" /\ Destroys(c) THEN "clean" ELSE "backend"
          /\ call[c].at = "read" /\ UNCHANGED <<task, rec>>
      BY <1>7, ReadFields
    <2>2. Tells(call[c])'
      BY <1>1, <2>1 DEF Tells, SameRequest, Destroys
    <2>3. Told(call'[c]) => Told(call[c])
      BY <2>1 DEF Told, SameRequest
    <2> QED
      BY <1>3, <2>1, <2>2, <2>3
  <1>8. CASE Refused(c) \/ BackendFails(c)
    <2>1. UNCHANGED <<task, rec>> /\ GiveUp(c) /\ call[c].at \in {"read", "backend"}
      BY <1>8 DEF Refused, BackendFails
    <2>2. CASE call[c].op # "halt" /\ call'[c] = Idle
      BY <1>3, <1>6, <2>1, <2>2 DEF Told
    <2>3. CASE /\ call[c].op = "halt" /\ SameRequest(c)
               /\ call'[c].at = "mark" /\ call'[c].want = "running"
      BY <1>1, <2>1, <2>3 DEF Tells, Told, SameRequest
    <2> QED
      BY <2>1, <2>2, <2>3, GiveUpFields
  <1>9. CASE Backend(c)
    <2>1. /\ SameRequest(c) /\ call'[c].at = IF Destroys(c) THEN "clean" ELSE "store"
          /\ call[c].at = "backend" /\ UNCHANGED <<task, rec>>
      BY <1>9, BackendFields
    <2>2. Tells(call[c])'
      BY <1>1, <2>1 DEF Tells, SameRequest, Destroys
    <2>3. Told(call'[c]) => Told(call[c])
      BY <2>1 DEF Told, SameRequest
    <2> QED
      BY <1>3, <2>1, <2>2, <2>3
  <1>10. CASE CleanFails(c)
    <2>1. /\ IF call[c].op = "undo" THEN call'[c] = Idle
             ELSE SameRequest(c) /\ call'[c].at = "save" /\ call'[c].want = task'
          /\ call[c].at = "clean" /\ rec' = rec
      BY <1>10, CleanFailsFields
    <2>2. CASE call[c].op = "undo"
      BY <1>4, <1>6, <2>1, <2>2 DEF Makes
    <2>3. CASE call[c].op # "undo"
      <3>1. call'[c].op = "destroy" /\ call'[c].at = "save" /\ call'[c].want = task'
        BY <1>1, <2>1, <2>3 DEF Tells, SameRequest
      <3> QED
        BY <3>1 DEF Tells, Told
    <2> QED
      BY <2>2, <2>3
  <1>11. CASE Store(c)
    <2>1. /\ IF call[c].op = "undo" THEN call'[c] = Idle
             ELSE SameRequest(c) /\ call'[c].at = AfterStore(c) /\ call'[c].want = task'
          /\ call[c].at = (IF Destroys(c) THEN "clean" ELSE "store") /\ task' = Stored(c)
          /\ rec' = rec
      BY <1>11, StoreFields
    <2>2. CASE call[c].op = "undo"
      BY <1>4, <1>6, <2>1, <2>2 DEF Makes
    <2>3. CASE call[c].op = "start"
      <3>1. Stored(c) = "running"
        BY <2>3 DEF Stored, Destroys
      <3>2. AfterStore(c) = "save"
        BY <2>3 DEF AfterStore
      <3>3. call'[c].op = "start" /\ call'[c].at = "save" /\ call'[c].want = task' /\ task' = "running"
        BY <2>1, <2>3, <3>1, <3>2 DEF SameRequest
      <3> QED
        BY <3>3 DEF Tells, Told
    <2>4. CASE call[c].op = "recover"
      <3>1. call'[c].op = "recover" /\ call'[c].at = "save" /\ call'[c].want = task'
        BY <2>1, <2>4 DEF AfterStore, SameRequest
      <3> QED
        BY <3>1 DEF Tells, Told
    <2>5. CASE call[c].op \in {"cancel", "halt", "destroy"}
      <3>1. /\ call'[c].op \in {"cancel", "halt", "destroy"}
            /\ call'[c].at = "release" /\ call'[c].want = task'
        BY <2>1, <2>5 DEF AfterStore, SameRequest
      <3> QED
        BY <3>1 DEF Tells, Told
    <2>6. CASE call[c].op = "collect"
      <3>1. call'[c].op = "collect" /\ call'[c].at = "state"
        BY <2>1, <2>6 DEF AfterStore, SameRequest
      <3> QED
        BY <3>1 DEF Tells, Told
    <2>7. call[c].op \in Ops /\ call[c].op \notin {"create", "sync"}
      BY <1>1, <2>1, ProviderTypes DEF Tells
    <2> QED
      BY <2>2, <2>3, <2>4, <2>5, <2>6, <2>7 DEF Ops
  <1>12. CASE ReadState(c)
    <2>1. /\ IF task = "none" THEN call'[c] = Idle
             ELSE SameRequest(c) /\ call'[c].at = "save" /\ call'[c].want = task
          /\ call[c].at = "state" /\ UNCHANGED <<task, rec>>
      BY <1>12, ReadStateFields
    <2>2. CASE task = "none"
      BY <1>6, <2>1, <2>2 DEF DebtInv, OneMaker
    <2>3. CASE task # "none"
      <3>1. /\ call'[c].op = call[c].op /\ call[c].op \in {"collect", "sync"}
            /\ call'[c].at = "save" /\ call'[c].want = task'
        BY <1>1, <2>1, <2>3 DEF Tells, SameRequest
      <3>2. Tells(call[c])'
        BY <3>1 DEF Tells
      <3>3. Told(call'[c]) => Told(call[c])
        BY <3>1 DEF Told
      <3> QED
        BY <1>3, <2>1, <3>2, <3>3
    <2> QED
      BY <2>2, <2>3
  <1>13. CASE Release(c)
    <2>1. /\ IF call[c].op = "collect" /\ ~call[c].unsaved THEN call'[c] = Idle
             ELSE /\ SameRequest(c) /\ call'[c].want = call[c].want
                  /\ call'[c].at = IF call[c].op = "collect" THEN "mark" ELSE "save"
          /\ call[c].at = "release" /\ UNCHANGED <<task, rec>>
      BY <1>13, ReleaseFields
    <2>2. CASE call[c].op = "collect" /\ ~call[c].unsaved
      BY <1>3, <1>6, <2>1, <2>2 DEF Told
    <2>3. CASE ~(call[c].op = "collect" /\ ~call[c].unsaved)
      <3>1. /\ call'[c].op = call[c].op /\ call[c].op \notin {"start", "create", "sync"}
            /\ call'[c].at \in {"mark", "save"} /\ call'[c].want = task'
        BY <1>1, <2>1, <2>3 DEF Tells, SameRequest
      <3> QED
        BY <3>1 DEF Tells, Told
    <2> QED
      BY <2>2, <2>3
  <1>14. CASE Save(c)
    <2>1. /\ IF call[c].op = "collect"
             THEN SameRequest(c) /\ call'[c].at = "release" /\ call'[c].want = call[c].want
             ELSE call'[c] = Idle
          /\ call[c].at = "save" /\ task' = task
          /\ IF call[c].op = "create" THEN rec'.status = "created"
             ELSE rec'.status = call[c].want
      BY <1>14, SaveFields
    <2>2. rec'.status = task'
      BY <1>1, <2>1 DEF Tells
    <2>3. Tells(call[c])'
      BY <1>1, <1>6, <2>1 DEF Tells, SameRequest
    <2> QED
      BY <2>2, <2>3
  <1>15. CASE SaveFails(c)
    <2>1. /\ call[c].at = "save" /\ UNCHANGED <<task, rec>>
          /\ \/ call'[c] = Idle /\ call[c].op = "sync"
             \/ call[c].op = "create" /\ call'[c].op = "undo" /\ call'[c].at = "read"
             \/ call[c].op = "start" /\ call'[c].op = "halt" /\ call'[c].at = "read"
             \/ /\ call[c].op = "collect" /\ call'[c].op = "collect" /\ call'[c].at = "release"
                /\ call'[c].unsaved /\ call'[c].want = call[c].want
             \/ /\ call[c].op \in {"cancel", "halt", "destroy"} /\ SameRequest(c)
                /\ call'[c].at = "mark" /\ call'[c].want = call[c].want
      BY <1>15, SaveFailsFields
    <2>2. CASE call'[c] = Idle /\ call[c].op = "sync"
      BY <1>3, <1>6, <2>1, <2>2 DEF Told
    <2>3. CASE call[c].op = "create" /\ call'[c].op = "undo" /\ call'[c].at = "read"
      BY <1>4, <2>1, <2>3 DEF Makes, Tells
    <2>4. CASE call[c].op = "start" /\ call'[c].op = "halt" /\ call'[c].at = "read"
      BY <1>1, <2>1, <2>4 DEF Tells, Told
    <2>5. CASE /\ call[c].op = "collect" /\ call'[c].op = "collect" /\ call'[c].at = "release"
               /\ call'[c].unsaved /\ call'[c].want = call[c].want
      BY <1>1, <2>1, <2>5 DEF Tells, Told
    <2>6. CASE /\ call[c].op \in {"cancel", "halt", "destroy"} /\ SameRequest(c)
               /\ call'[c].at = "mark" /\ call'[c].want = call[c].want
      BY <1>1, <2>1, <2>6 DEF Tells, Told, SameRequest
    <2> QED
      BY <2>1, <2>2, <2>3, <2>4, <2>5, <2>6
  <1>16. CASE Mark(c)
    <2>1. /\ call'[c] = Idle /\ call[c].at = "mark" /\ rec'.status = call[c].want /\ task' = task
      BY <1>16, MarkFields
    <2> QED
      BY <1>1, <1>6, <2>1 DEF Tells
  <1> QED
    BY <1>7, <1>8, <1>9, <1>10, <1>11, <1>12, <1>13, <1>14, <1>15, <1>16 DEF GoOn

\* The handlers, persistTaskHandle, updatePersistedTask, markTaskStateUnsynced
\* and the restart, for any number of requests: the task list shows the
\* provider's state when nothing is in flight, unless requests overlapped or a
\* failed save was ignored.
THEOREM RecordsAgree == SandboxSpec => []RecordAgreesUnless
  <1>1. SandboxInit => DebtInv /\ RecordInv
    <2> SUFFICES ASSUME SandboxInit PROVE DebtInv /\ RecordInv
      OBVIOUS
    <2>1. \A c \in Callers : call[c] = Idle
      BY DEF SandboxInit
    <2>2. DebtInv
      BY <2>1, IdleFields DEF SandboxInit, DebtInv, OneMaker, Makes, Finds, Buries,
              GoneIsKnown, SlotIsOwed, NoRecord
    <2>3. Alone /\ \A c \in Callers : Tells(call[c])
      BY <2>1, IdleFields DEF Alone, Tells
    <2> QED
      BY <2>2, <2>3 DEF SandboxInit, RecordInv, RecordAgrees, NoRecord
  <1>2. SandboxTypeOK /\ DebtInv /\ RecordInv /\ [SandboxNext]_sandboxVars => (DebtInv /\ RecordInv)'
    <2> SUFFICES ASSUME SandboxTypeOK, DebtInv, RecordInv, [SandboxNext]_sandboxVars
                 PROVE  DebtInv' /\ RecordInv'
      OBVIOUS
    <2>1. DebtInv'
      BY DebtStep
    <2>2. RecordInv'
      <3> SUFFICES ASSUME ~history'.overlap, ~history'.unsaved PROVE RecordInv'
        BY DEF RecordInv
      <3>1. ASSUME NEW c \in Callers, Request(c) \/ GoOn(c)
            PROVE  RecordInv'
        BY <3>1, RecordRequest, RecordGoOn
      <3>2. CASE CreateCutOff \/ BoxEnds \/ OtherSave \/ UNCHANGED sandboxVars
        <4>1. UNCHANGED <<task, rec, call>> /\ ~history.overlap /\ ~history.unsaved
          BY <3>2 DEF CreateCutOff, BoxEnds, OtherSave, sandboxVars, SandboxTypeOK, Happened
        <4> QED
          BY <4>1 DEF RecordInv, Alone, RecordAgrees, Told, Tells
      <3>3. ASSUME NEW saves \in BOOLEAN, Restart(saves)
            PROVE  RecordInv'
        <4>1. \A c \in Callers : call'[c] = Idle
          BY <3>3 DEF Restart
        <4>2. saves
          BY <3>3 DEF Restart, Restarted, Nothing
        <4>3. rec'.handle => rec'.status = task'
          BY <3>3, <4>2 DEF Restart, SandboxTypeOK, Record
        <4>4. Alone' /\ \A c \in Callers : Tells(call[c])'
          BY <4>1, IdleFields DEF Alone, Tells
        <4> QED
          BY <4>3, <4>4 DEF RecordInv, RecordAgrees
      <3>4. CASE RestartEmpty
        <4>1. (\A c \in Callers : call'[c] = Idle) /\ ~rec'.handle
          BY <3>4 DEF RestartEmpty, NoRecord
        <4> QED
          BY <4>1, IdleFields DEF RecordInv, RecordAgrees, Alone, Tells
      <3> QED
        BY <3>1, <3>2, <3>3, <3>4 DEF SandboxNext
    <2> QED
      BY <2>1, <2>2
  <1>3. RecordInv => RecordAgreesUnless
    BY DEF RecordInv, RecordAgrees, Told, RecordAgreesUnless, Quiet
  <1> QED
    BY <1>1, <1>2, <1>3, SandboxTypeCorrect, PTL DEF SandboxSpec

=============================================================================
