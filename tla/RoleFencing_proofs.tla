-------------------------- MODULE RoleFencing_proofs --------------------------
(***************************************************************************)
(* Epochs and the fenced task stream, proved for every number of requests, *)
(* operations, epochs and versions.                                        *)
(*                                                                         *)
(* StreamNeverFallsBehind is about two checks made under two locks.  What  *)
(* connects them is PushInv: a push in flight either has a version that    *)
(* the store will refuse or an epoch no older than the stream's.           *)
(***************************************************************************)
EXTENDS RoleFencing, TLAPS

\* Memory and the saved state agree, and the epoch tells the role.
ManagerInv ==
    ~fellBack =>
        /\ durable = TRUE
        /\ saved = state
        /\ state.role = InitialRole <=> state.epoch % 2 = 1

\* What a push in flight may still do to the stream.
PushInv ==
    ~fellBack =>
        /\ stream.epoch <= state.epoch
        /\ \A c \in Callers : call[c].at = "push" =>
             /\ call[c].version <= stream.version
             /\ call[c].req.epoch <= state.epoch
             /\ call[c].version = stream.version => stream.epoch <= call[c].req.epoch

RoleInv == RoleTypeOK /\ ManagerInv /\ PushInv

-----------------------------------------------------------------------------

\* The configured node satisfies the invariant.
LEMMA RoleInitInv == RoleInit => RoleInv
<1> SUFFICES ASSUME RoleInit PROVE RoleInv
  OBVIOUS
<1> USE RoleAssumption DEF RoleInit
<1>1. Empty \in Transition /\ Idle \in Call /\ Idle.at = "idle"
  BY DEF Empty, Idle, Request, Transition, Call, Target, Epoch, Doors, Roles
<1>2. RoleTypeOK
  <2>1. state \in State /\ saved \in State
    BY DEF State, Epoch
  <2>2. durable \in BOOLEAN /\ fellBack \in BOOLEAN
    OBVIOUS
  <2>3. slot \in [Doors -> Transition] /\ call \in [Callers -> Call]
    BY <1>1
  <2>4. stream \in [version : 0..MaxVersion, epoch : 0..MaxEpoch]
    OBVIOUS
  <2> QED
    BY <2>1, <2>2, <2>3, <2>4 DEF RoleTypeOK
<1>3. ManagerInv
  BY DEF ManagerInv
<1>4. PushInv
  BY <1>1 DEF PushInv
<1> QED
  BY <1>2, <1>3, <1>4 DEF RoleInv

\* The idle request and the empty slot are of their types.
LEMMA IdleType == Empty \in Transition /\ Idle \in Call /\ Idle.at = "idle"
BY RoleAssumption DEF Empty, Idle, Request, Transition, Call, Target, Epoch, Doors, Roles

\* A step of one request that leaves the manager and the stream alone and does
\* not become a push.
LEMMA OneCallInv ==
    ASSUME RoleInv, UNCHANGED <<state, saved, durable, stream, fellBack>>,
           NEW c \in Callers, NEW row \in Call, row.at # "push",
           call' = [call EXCEPT ![c] = row],
           slot' \in [Doors -> Transition]
    PROVE  RoleInv'
<1>1. RoleTypeOK /\ ManagerInv /\ PushInv
  BY DEF RoleInv
<1>2. RoleTypeOK'
  BY <1>1 DEF RoleTypeOK
<1>3. ManagerInv'
  BY <1>1 DEF ManagerInv
<1>4. \A d \in Callers : call'[d] = IF d = c THEN row ELSE call[d]
  BY <1>1 DEF RoleTypeOK
<1>5. PushInv'
  BY <1>1, <1>4 DEF PushInv
<1> QED
  BY <1>2, <1>3, <1>5 DEF RoleInv

\* A prepare request has read the manager's state.
LEMMA PrepareCheckInv ==
    ASSUME RoleInv, NEW c \in Callers, NEW door \in Doors, NEW op \in Operations,
           NEW to \in Target, PrepareCheck(c, door, op, to)
    PROVE  RoleInv'
<1> DEFINE row == [at |-> "store", door |-> door,
                   req |-> [op |-> op, to |-> to, epoch |-> state.epoch], version |-> 0]
<1>1. RoleTypeOK
  BY DEF RoleInv
<1>2. row \in Call /\ row.at # "push"
  BY <1>1, RoleAssumption DEF RoleTypeOK, Call, Transition, State
<1>3. call' = [call EXCEPT ![c] = row]
  BY DEF PrepareCheck, Request
<1>4. UNCHANGED <<state, saved, durable, stream, fellBack>> /\ slot' \in [Doors -> Transition]
  BY <1>1 DEF PrepareCheck, RoleTypeOK
<1> HIDE DEF row
<1> QED
  BY <1>2, <1>3, <1>4, OneCallInv

\* Storing, clearing and aborting only change the slots.
LEMMA SlotInv ==
    ASSUME RoleInv, NEW c \in Callers, PrepareStore(c) \/ CommitClear(c) \/ CommitFails(c)
    PROVE  RoleInv'
<1>1. RoleTypeOK
  BY DEF RoleInv
<1>2. call[c].req \in Transition /\ call[c].door \in Doors
  BY <1>1 DEF RoleTypeOK, Call
<1>3. slot' \in [Doors -> Transition]
  BY <1>1, <1>2, IdleType DEF RoleTypeOK, PrepareStore, CommitClear, CommitFails
<1>4. /\ call' = [call EXCEPT ![c] = Idle]
      /\ UNCHANGED <<state, saved, durable, stream, fellBack>>
  BY DEF PrepareStore, CommitClear, CommitFails, Return
<1> QED
  BY <1>3, <1>4, IdleType, OneCallInv

\* An abort only empties a slot.
LEMMA AbortInv == ASSUME RoleInv, NEW door \in Doors, Abort(door) PROVE RoleInv'
<1>1. RoleTypeOK /\ ManagerInv /\ PushInv
  BY DEF RoleInv
<1>2. RoleTypeOK'
  BY <1>1, IdleType DEF RoleTypeOK, Abort
<1>3. ManagerInv' /\ PushInv'
  BY <1>1 DEF ManagerInv, PushInv, Abort
<1> QED
  BY <1>2, <1>3 DEF RoleInv

\* A commit request has copied the prepared transition.
LEMMA CommitReadInv ==
    ASSUME RoleInv, NEW c \in Callers, NEW door \in Doors, CommitRead(c, door)
    PROVE  RoleInv'
<1> DEFINE row == [at |-> "switch", door |-> door, req |-> [slot[door] EXCEPT !.op = NoOp],
                   version |-> 0]
<1>1. RoleTypeOK
  BY DEF RoleInv
<1>2. row \in Call /\ row.at # "push"
  BY <1>1, RoleAssumption DEF RoleTypeOK, Call, Transition
<1>3. call' = [call EXCEPT ![c] = row]
  BY DEF CommitRead, Request
<1>4. UNCHANGED <<state, saved, durable, stream, fellBack>> /\ slot' \in [Doors -> Transition]
  BY <1>1 DEF CommitRead, RoleTypeOK
<1> HIDE DEF row
<1> QED
  BY <1>2, <1>3, <1>4, OneCallInv

\* A switch to the current role only moves the request on.
LEMMA CommitSameRoleInv == ASSUME RoleInv, NEW c \in Callers, CommitSameRole(c) PROVE RoleInv'
<1> DEFINE row == [at |-> "clear", door |-> call[c].door, req |-> Empty, version |-> 0]
<1>1. RoleTypeOK
  BY DEF RoleInv
<1>2. row \in Call /\ row.at # "push"
  BY <1>1, IdleType, RoleAssumption DEF RoleTypeOK, Call
<1>3. call' = [call EXCEPT ![c] = row]
  BY DEF CommitSameRole, Request
<1>4. UNCHANGED <<state, saved, durable, stream, fellBack>> /\ slot' \in [Doors -> Transition]
  BY <1>1 DEF CommitSameRole, RoleTypeOK
<1> HIDE DEF row
<1> QED
  BY <1>2, <1>3, <1>4, OneCallInv

\* A switch takes the next epoch and the other role, in memory and on disk.
LEMMA CommitSwitchInv == ASSUME RoleInv, NEW c \in Callers, CommitSwitch(c) PROVE RoleInv'
<1> USE RoleAssumption
<1>1. RoleTypeOK /\ ManagerInv /\ PushInv
  BY DEF RoleInv
<1> DEFINE row == [at |-> "clear", door |-> call[c].door, req |-> Empty, version |-> 0]
<1>2. row \in Call /\ row.at = "clear"
  BY <1>1, IdleType DEF RoleTypeOK, Call
<1>3. call' = [call EXCEPT ![c] = row]
  BY DEF CommitSwitch, Request
<1>4. \A d \in Callers : call'[d] = IF d = c THEN row ELSE call[d]
  BY <1>1, <1>3 DEF RoleTypeOK
<1> HIDE DEF row
<1>5. /\ state' \in State /\ state'.epoch = state.epoch + 1
      /\ state.role \in Roles /\ state'.role \in Roles /\ state'.role # state.role
      /\ state.epoch \in Nat
  BY <1>1 DEF RoleTypeOK, CommitSwitch, State, Epoch, Switched, Accepts
<1>6. saved' = IF durable THEN state' ELSE saved
  BY DEF CommitSwitch
<1>7. RoleTypeOK'
  <2>1. saved' \in State
    BY <1>1, <1>5, <1>6 DEF RoleTypeOK
  <2>2. call' \in [Callers -> Call]
    BY <1>1, <1>2, <1>3 DEF RoleTypeOK
  <2> QED
    BY <1>1, <1>5, <2>1, <2>2 DEF RoleTypeOK, CommitSwitch
<1>8. ManagerInv'
  <2> SUFFICES ASSUME ~fellBack
               PROVE  /\ durable = TRUE
                      /\ saved' = state'
                      /\ state'.role = InitialRole <=> state'.epoch % 2 = 1
    BY DEF ManagerInv, CommitSwitch
  <2>1. durable = TRUE /\ (state.role = InitialRole <=> state.epoch % 2 = 1)
    BY <1>1 DEF ManagerInv
  <2>2. saved' = state'
    BY <1>6, <2>1
  <2>3. state'.epoch % 2 = 1 <=> ~(state.epoch % 2 = 1)
    BY <1>5
  <2>4. state'.role = InitialRole <=> ~(state.role = InitialRole)
    BY <1>5 DEF Roles
  <2> QED
    BY <2>1, <2>2, <2>3, <2>4
<1>9. PushInv'
  <2> SUFFICES ASSUME ~fellBack
               PROVE  /\ stream.epoch <= state'.epoch
                      /\ \A d \in Callers : call'[d].at = "push" =>
                           /\ call'[d].version <= stream.version
                           /\ call'[d].req.epoch <= state'.epoch
                           /\ call'[d].version = stream.version =>
                                stream.epoch <= call'[d].req.epoch
    BY DEF PushInv, CommitSwitch
  <2>1. stream.epoch \in Nat /\ stream.epoch <= state.epoch
    BY <1>1 DEF PushInv, RoleTypeOK
  <2>2. ASSUME NEW d \in Callers, call'[d].at = "push"
        PROVE  /\ call'[d].version <= stream.version
               /\ call'[d].req.epoch <= state'.epoch
               /\ call'[d].version = stream.version => stream.epoch <= call'[d].req.epoch
    <3>1. call'[d] = call[d]
      BY <1>2, <1>4, <2>2
    <3>2. call[d].req.epoch \in Nat
      BY <1>1 DEF RoleTypeOK, Call, Transition, Epoch
    <3>3. /\ call[d].version <= stream.version
          /\ call[d].req.epoch <= state.epoch
          /\ call[d].version = stream.version => stream.epoch <= call[d].req.epoch
      BY <1>1, <2>2, <3>1 DEF PushInv
    <3> QED
      BY <1>5, <3>1, <3>2, <3>3
  <2> QED
    BY <1>5, <2>1, <2>2
<1> QED
  BY <1>7, <1>8, <1>9 DEF RoleInv

\* A push is checked against the current epoch, which the stream's cannot exceed.
LEMMA PushCheckInv ==
    ASSUME RoleInv, NEW c \in Callers, NEW version \in 0..MaxVersion, PushCheck(c, version)
    PROVE  RoleInv'
<1> USE RoleAssumption
<1> DEFINE row == [at |-> "push", door |-> "link",
                   req |-> [op |-> NoOp, to |-> "other", epoch |-> state.epoch],
                   version |-> version]
<1>1. RoleTypeOK /\ ManagerInv /\ PushInv
  BY DEF RoleInv
<1>2. row \in Call /\ row.req.epoch = state.epoch /\ row.version = version
  BY <1>1 DEF RoleTypeOK, Call, Transition, State, Doors, Target
<1>3. call' = [call EXCEPT ![c] = row]
  BY DEF PushCheck, Request
<1>4. \A d \in Callers : call'[d] = IF d = c THEN row ELSE call[d]
  BY <1>1, <1>3 DEF RoleTypeOK
<1> HIDE DEF row
<1>5. RoleTypeOK'
  BY <1>1, <1>2, <1>3 DEF RoleTypeOK, PushCheck
<1>6. ManagerInv'
  BY <1>1 DEF ManagerInv, PushCheck
<1>7. PushInv'
  <2> SUFFICES ASSUME ~fellBack, NEW d \in Callers, call'[d].at = "push"
               PROVE  /\ call'[d].version <= stream.version
                      /\ call'[d].req.epoch <= state.epoch
                      /\ call'[d].version = stream.version =>
                           stream.epoch <= call'[d].req.epoch
    BY <1>1 DEF PushInv, PushCheck
  <2>1. CASE d = c
    <3>1. state.epoch \in Nat /\ stream.epoch <= state.epoch
      BY <1>1 DEF RoleTypeOK, State, Epoch, PushInv
    <3> QED
      BY <1>2, <1>4, <2>1, <3>1 DEF PushCheck
  <2>2. CASE d # c
    BY <1>1, <1>4, <2>2 DEF PushInv
  <2> QED
    BY <2>1, <2>2
<1> QED
  BY <1>5, <1>6, <1>7 DEF RoleInv

\* A stored push leaves every other push in flight with a version to be refused.
LEMMA PushStoreInv ==
    ASSUME RoleInv, NEW c \in Callers, PushStore(c)
    PROVE  RoleInv' /\ (stream'.epoch < stream.epoch => fellBack)
<1> USE RoleAssumption
<1>1. RoleTypeOK /\ ManagerInv /\ PushInv
  BY DEF RoleInv
<1>2. /\ call[c].req.epoch \in Epoch /\ call[c].version \in Nat
      /\ stream.version \in Nat /\ stream.epoch \in Nat
      /\ call[c].at = "push"
  BY <1>1 DEF RoleTypeOK, Call, Transition, PushStore
<1>3. \A d \in Callers : call'[d] = IF d = c THEN Idle ELSE call[d]
  BY <1>1 DEF RoleTypeOK, PushStore, Return
<1>4. CASE ~Current(call[c].version)
  <2>1. stream' = stream /\ UNCHANGED <<state, saved, durable, slot, fellBack>>
    BY <1>4 DEF PushStore
  <2>2. call' = [call EXCEPT ![c] = Idle] /\ slot' \in [Doors -> Transition]
    BY <1>1 DEF PushStore, Return, RoleTypeOK
  <2>3. RoleInv'
    BY <2>1, <2>2, IdleType, OneCallInv
  <2>4. ~(stream'.epoch < stream.epoch)
    BY <1>2, <2>1
  <2> QED
    BY <2>3, <2>4
<1>5. CASE Current(call[c].version)
  <2>1. /\ stream' = [version |-> stream.version + 1, epoch |-> call[c].req.epoch]
        /\ stream.version < MaxVersion /\ call[c].version = stream.version
        /\ UNCHANGED <<state, saved, durable, slot, fellBack>>
    BY <1>5 DEF PushStore, Current
  <2>2. RoleTypeOK'
    <3>1. stream' \in [version : 0..MaxVersion, epoch : 0..MaxEpoch]
      BY <1>2, <2>1 DEF Epoch
    <3>2. call' \in [Callers -> Call]
      BY <1>1, IdleType DEF RoleTypeOK, PushStore, Return
    <3> QED
      BY <1>1, <2>1, <3>1, <3>2 DEF RoleTypeOK
  <2>3. ManagerInv'
    BY <1>1, <2>1 DEF ManagerInv
  <2>4. PushInv'
    <3> SUFFICES ASSUME ~fellBack
                 PROVE  /\ stream'.epoch <= state.epoch
                        /\ \A d \in Callers : call'[d].at = "push" =>
                             /\ call'[d].version <= stream'.version
                             /\ call'[d].req.epoch <= state.epoch
                             /\ call'[d].version = stream'.version =>
                                  stream'.epoch <= call'[d].req.epoch
      BY <2>1 DEF PushInv
    <3>1. stream'.epoch <= state.epoch
      BY <1>1, <1>2, <2>1 DEF PushInv
    <3>2. ASSUME NEW d \in Callers, call'[d].at = "push"
          PROVE  /\ call'[d].version <= stream'.version
                 /\ call'[d].req.epoch <= state.epoch
                 /\ call'[d].version # stream'.version
      <4>1. call'[d] = call[d]
        BY <1>3, <3>2, IdleType
      <4>2. call[d].version \in Nat
        BY <1>1 DEF RoleTypeOK, Call
      <4>3. call[d].version <= stream.version /\ call[d].req.epoch <= state.epoch
        BY <1>1, <3>2, <4>1 DEF PushInv
      <4> QED
        BY <1>2, <2>1, <4>1, <4>2, <4>3
    <3> QED
      BY <3>1, <3>2
  <2>5. stream'.epoch < stream.epoch => fellBack
    <3>1. ~fellBack => stream.epoch <= call[c].req.epoch
      BY <1>1, <1>2, <2>1 DEF PushInv
    <3>2. stream'.epoch = call[c].req.epoch /\ call[c].req.epoch \in Nat
      BY <1>2, <2>1 DEF Epoch
    <3> QED
      BY <1>2, <3>1, <3>2
  <2> QED
    BY <2>2, <2>3, <2>4, <2>5 DEF RoleInv
<1> QED
  BY <1>4, <1>5

\* A restart loads what memory held, and no request survives it.
LEMMA RestartInv == ASSUME RoleInv, Restart \/ RestartFallback PROVE RoleInv'
<1> USE RoleAssumption
<1>1. RoleTypeOK /\ ManagerInv /\ PushInv
  BY DEF RoleInv
<1>2. /\ slot' \in [Doors -> Transition] /\ call' \in [Callers -> Call]
      /\ \A c \in Callers : call'[c].at = "idle"
  BY IdleType DEF Restart, RestartFallback, Reset
<1>3. CASE Restart
  <2>1. RoleTypeOK'
    BY <1>1, <1>2, <1>3 DEF RoleTypeOK, Restart
  <2>2. ManagerInv'
    BY <1>1, <1>3 DEF ManagerInv, Restart
  <2>3. PushInv'
    BY <1>1, <1>2, <1>3 DEF PushInv, ManagerInv, Restart
  <2> QED
    BY <2>1, <2>2, <2>3 DEF RoleInv
<1>4. CASE RestartFallback
  <2>1. RoleTypeOK'
    <3>1. state' \in State
      BY <1>4 DEF RestartFallback, State, Epoch, Roles
    <3>2. durable' \in BOOLEAN /\ fellBack' \in BOOLEAN
      BY <1>4 DEF RestartFallback
    <3> QED
      BY <1>1, <1>2, <1>4, <3>1, <3>2 DEF RoleTypeOK, RestartFallback
  <2>2. ManagerInv' /\ PushInv'
    BY <1>4 DEF ManagerInv, PushInv, RestartFallback
  <2> QED
    BY <2>1, <2>2 DEF RoleInv
<1> QED
  BY <1>3, <1>4

\* Every step preserves the invariant.
LEMMA RoleStepInv == RoleInv /\ [RoleNext]_roleVars => RoleInv'
<1> SUFFICES ASSUME RoleInv, [RoleNext]_roleVars PROVE RoleInv'
  OBVIOUS
<1>1. ASSUME NEW c \in Callers, Arrive(c) PROVE RoleInv'
  BY <1>1, PrepareCheckInv, CommitReadInv, PushCheckInv DEF Arrive
<1>2. ASSUME NEW c \in Callers, GoOn(c) PROVE RoleInv'
  BY <1>2, SlotInv, CommitSwitchInv, CommitSameRoleInv, PushStoreInv DEF GoOn
<1>3. ASSUME NEW door \in Doors, Abort(door) PROVE RoleInv'
  BY <1>3, AbortInv
<1>4. CASE Restart \/ RestartFallback
  BY <1>4, RestartInv
<1>5. CASE UNCHANGED roleVars
  BY <1>5 DEF roleVars, RoleInv, RoleTypeOK, ManagerInv, PushInv
<1> QED
  BY <1>1, <1>2, <1>3, <1>4, <1>5 DEF RoleNext

\* The strengthened invariant holds throughout every behaviour.
THEOREM RoleInvariance == RoleSpec => []RoleInv
<1> QED
  BY RoleInitInv, RoleStepInv, PTL DEF RoleSpec

\* Type correctness of the manager, the doors, the requests and the stream.
THEOREM RoleTypeCorrect == RoleSpec => []RoleTypeOK
<1>1. RoleInv => RoleTypeOK
  BY DEF RoleInv
<1> QED
  BY <1>1, RoleInvariance, PTL

\* Manager.Switch: an epoch of the node stands for one role, whatever commits
\* race through the two doors and whenever the node restarts.
THEOREM OneRolePerEpoch == RoleSpec => []EpochDeterminesRole
<1>1. RoleInv => EpochDeterminesRole
  BY DEF RoleInv, ManagerInv, EpochDeterminesRole
<1> QED
  BY <1>1, RoleInvariance, PTL

\* Manager.Switch and the loading of the saved state: epochs are never taken
\* back while the saved state can be loaded.
THEOREM EpochsAreKept == RoleSpec => EpochKeptUnlessFallback
<1>1. RoleInv /\ [RoleNext]_roleVars => [state'.epoch < state.epoch => fellBack']_roleVars
  <2> SUFFICES ASSUME RoleInv, RoleNext, state'.epoch < state.epoch, ~fellBack'
               PROVE  FALSE
    BY Zenon DEF roleVars
  <2>1. state.epoch \in Nat
    BY DEF RoleInv, RoleTypeOK, State, Epoch
  <2>2. state' # state
    BY <2>1
  <2>3. CASE Restart
    <3>1. ~fellBack /\ state' = saved
      BY <2>3 DEF Restart
    <3> QED
      BY <2>2, <3>1 DEF RoleInv, ManagerInv
  <2>4. ASSUME NEW c \in Callers, CommitSwitch(c) PROVE FALSE
    BY <2>1, <2>4 DEF CommitSwitch, Switched
  <2>5. CASE RestartFallback
    BY <2>5 DEF RestartFallback
  <2> QED
    BY <2>2, <2>3, <2>4, <2>5
       DEF RoleNext, Arrive, GoOn, PrepareCheck, CommitRead, PushCheck, PrepareStore,
           CommitSameRole, CommitFails, CommitClear, PushStore, Abort
<1> QED
  BY <1>1, RoleInvariance, PTL DEF RoleSpec, EpochKeptUnlessFallback

\* The push handler and the store: no push of an older epoch replaces one of a
\* newer epoch, although the two checks are not atomic.
THEOREM StreamIsFenced == RoleSpec => StreamNeverFallsBehind
<1>1. RoleInv /\ [RoleNext]_roleVars => [stream'.epoch < stream.epoch => fellBack]_roleVars
  <2> SUFFICES ASSUME RoleInv, RoleNext, stream'.epoch < stream.epoch
               PROVE  fellBack
    BY Zenon DEF roleVars
  <2>1. stream.epoch \in Nat
    BY DEF RoleInv, RoleTypeOK
  <2>2. stream' # stream
    BY <2>1
  <2>3. ASSUME NEW c \in Callers, PushStore(c) PROVE fellBack
    BY <2>3, PushStoreInv
  <2> QED
    BY <2>2, <2>3
       DEF RoleNext, Arrive, GoOn, PrepareCheck, CommitRead, PushCheck, PrepareStore,
           CommitSameRole, CommitSwitch, CommitFails, CommitClear, Abort, Restart, RestartFallback
<1> QED
  BY <1>1, RoleInvariance, PTL DEF RoleSpec, StreamNeverFallsBehind

\* The manager, the doors and the store with their separate locks implement the
\* atomic node: a commit that switches is its only step that changes the role, a
\* push that finds its version current is its only write, and everything else
\* changes nothing the node shows.
THEOREM NodeRefinement == RoleSpec => ImplementsFencedNode
<1>1. RoleInit => Node!NodeInit
  BY DEF RoleInit, Node!NodeInit
<1>2. RoleInv /\ RoleInv' /\ [RoleNext]_roleVars => [Node!NodeNext]_Node!nodeVars
  <2> SUFFICES ASSUME RoleInv, RoleInv', [RoleNext]_roleVars
               PROVE  Node!NodeNext \/ UNCHANGED Node!nodeVars
    OBVIOUS
  <2> DEFINE still == UNCHANGED <<state, stream, fellBack>>
  <2>1. still => UNCHANGED Node!nodeVars
    BY DEF Node!nodeVars
  <2>2. ASSUME NEW c \in Callers, Arrive(c) PROVE still
    BY <2>2 DEF Arrive, PrepareCheck, CommitRead, PushCheck
  <2>3. ASSUME NEW c \in Callers,
               PrepareStore(c) \/ CommitSameRole(c) \/ CommitFails(c) \/ CommitClear(c)
        PROVE  still
    BY <2>3 DEF PrepareStore, CommitSameRole, CommitFails, CommitClear
  <2>4. ASSUME NEW door \in Doors, Abort(door) PROVE still
    BY <2>4 DEF Abort
  <2>5. ASSUME NEW c \in Callers, CommitSwitch(c) PROVE Node!NodeNext
    <3>1. /\ state' = [role |-> call[c].req.to, epoch |-> state.epoch + 1]
          /\ call[c].req.to # state.role
          /\ UNCHANGED <<stream, fellBack>>
      BY <2>5 DEF CommitSwitch, Switched
    <3>2. CASE ~fellBack
      BY <3>1, <3>2 DEF Node!NodeNext, Node!SwitchRole
    <3>3. CASE fellBack
      <4>1. stream.version \in Nat
        BY DEF RoleInv, RoleTypeOK
      <4> QED
        BY <3>1, <3>3, <4>1 DEF Node!NodeNext, Node!AfterLoss
    <3> QED
      BY <3>2, <3>3
  <2>6. ASSUME NEW c \in Callers, PushStore(c)
        PROVE  Node!NodeNext \/ still
    <3>1. /\ call[c].at = "push"
          /\ UNCHANGED <<state, fellBack>>
          /\ stream' = IF call[c].version = stream.version
                       THEN [version |-> stream.version + 1, epoch |-> call[c].req.epoch]
                       ELSE stream
      BY <2>6 DEF PushStore, Current
    <3>2. CASE call[c].version # stream.version
      BY <3>1, <3>2
    <3>3. CASE call[c].version = stream.version /\ fellBack
      <4>1. stream.version \in Nat
        BY DEF RoleInv, RoleTypeOK
      <4>2. stream'.version = stream.version + 1 /\ stream'.version # stream.version
        BY <3>1, <3>3, <4>1
      <4> QED
        BY <3>1, <3>3, <4>2 DEF Node!NodeNext, Node!AfterLoss
    <3>4. CASE call[c].version = stream.version /\ ~fellBack
      <4>1. stream.epoch <= call[c].req.epoch /\ call[c].req.epoch <= state.epoch
        BY <3>1, <3>4 DEF RoleInv, PushInv
      <4> QED
        BY <3>1, <3>4, <4>1 DEF Node!NodeNext, Node!Write
    <3> QED
      BY <3>2, <3>3, <3>4
  <2>7. CASE Restart
    <3>1. state' = saved /\ UNCHANGED <<stream, fellBack>>
      BY <2>7 DEF Restart
    <3>2. CASE ~fellBack
      BY <2>1, <3>1, <3>2 DEF RoleInv, ManagerInv
    <3>3. CASE fellBack
      <4>1. stream.version' = stream.version /\ stream.epoch' = stream.epoch /\ fellBack'
        BY <3>1, <3>3
      <4> QED
        BY <3>3, <4>1 DEF Node!NodeNext, Node!AfterLoss
    <3> QED
      BY <3>2, <3>3
  <2>8. CASE RestartFallback
    BY <2>8 DEF RestartFallback, Node!NodeNext, Node!LoseRole
  <2>9. CASE UNCHANGED roleVars
    BY <2>1, <2>9 DEF roleVars
  <2> HIDE DEF still
  <2> QED
    BY <2>1, <2>2, <2>3, <2>4, <2>5, <2>6, <2>7, <2>8, <2>9 DEF RoleNext, GoOn
<1> QED
  BY <1>1, <1>2, RoleInvariance, PTL DEF RoleSpec, ImplementsFencedNode, Node!NodeSpec

=============================================================================
