------------------------------ MODULE TeamLease ------------------------------
(***************************************************************************)
(* Leases and fencing of the Agent runtimes of one project                 *)
(* (node/api/agent_team.go, the /api/v2/agent-runtime/ handlers).          *)
(*                                                                         *)
(* Every handler runs from its first check to its save under s.mu, and a   *)
(* failed save restores the collections it copied, so each handler is one  *)
(* atomic action and a failed save is a stuttering step.  A restart loads  *)
(* what the last handler saved and is one too; when it cannot load it, the *)
(* project begins anew, with no row for any of the tokens issued before.   *)
(*                                                                         *)
(* A row of s.data.AgentRuntimes is kept per runtimeId.  Registration      *)
(* removes the caller's old row and appends the new one with a fresh       *)
(* token, so the order of the list is the order of the tokens: tokens are  *)
(* the numbers 1, 2, ... in the order they are issued.                     *)
(*                                                                         *)
(* leaseExpiresAt is kept as the time left until it, in ticks: positive is *)
(* After(now), zero is equal to now, Lapsed is Before(now).  The cleared   *)
(* lease "" parses to the Unix epoch and is Lapsed too.                    *)
(***************************************************************************)
EXTENDS Integers, Sequences, FiniteSets

CONSTANTS
    Runtimes,           \* runtimeIds that may register for the project
    LeaseDuration,      \* teamLeaseDuration, in ticks
    MaxRegistrations,   \* bound on the fencing tokens issued in a behaviour
    MaxSequence,        \* bound on a runtime's event sequence numbers
    Loads               \* whether heartbeats may report active tasks or sessions

ASSUME LeaseAssumption ==
    /\ LeaseDuration \in Nat \ {0}
    /\ MaxRegistrations \in Nat
    /\ MaxSequence \in Nat
    /\ Loads \subseteq BOOLEAN

VARIABLES
    runtimes,   \* runtimeId -> its row of s.data.AgentRuntimes
    fence,      \* number of fencing tokens issued so far
    applied,    \* history: the events applied since a runtime registered
    quit        \* history: runtimes that unregistered since they registered

leaseVars == <<runtimes, fence, applied, quit>>

Lapsed == -1

Absent == [status |-> "absent", token |-> 0, lease |-> Lapsed, last |-> 0]

RuntimeStatus == {"absent", "online", "busy", "offline", "fenced"}

Row == [status : RuntimeStatus, token : 0..MaxRegistrations,
        lease : Lapsed..LeaseDuration, last : 0..MaxSequence]

Tokens == 1..MaxRegistrations

-----------------------------------------------------------------------------

Registered == {r \in Runtimes : runtimes[r].status # "absent"}

\* The first of the rows S in the list "rows".
FirstRow(rows, S) == CHOOSE r \in S : \A q \in S : rows[r].token <= rows[q].token

\* "current" of the register handler: the first row that is not offline.
Occupants == {r \in Runtimes : runtimes[r].status \notin {"absent", "offline"}}

RegisterConflict(r) ==
    /\ Occupants # {}
    /\ FirstRow(runtimes, Occupants) # r
    /\ runtimes[FirstRow(runtimes, Occupants)].lease > 0

\* findRuntimeLocked and the token comparison of every runtime handler.
Presents(r, token) == runtimes[r].status # "absent" /\ runtimes[r].token = token

\* Mutant: the status is not looked at.
HoldsLeaseFencedToo(r, token) == Presents(r, token) /\ runtimes[r].lease >= 0

\* The check of the events, commands and ack handlers.
HoldsLease(r, token) ==
    /\ Presents(r, token)
    /\ runtimes[r].status # "fenced"
    /\ runtimes[r].lease >= 0

HasExpired(r) ==
    /\ runtimes[r].status \notin {"absent", "fenced", "offline"}
    /\ runtimes[r].lease <= 0

-----------------------------------------------------------------------------

LeaseInit ==
    /\ runtimes = [r \in Runtimes |-> Absent]
    /\ fence = 0
    /\ applied = [r \in Runtimes |-> << >>]
    /\ quit = {}

\* Mutant: the rows of the other runtimes are left alone.
RegisterWithoutFencing(r) ==
    /\ fence < MaxRegistrations
    /\ ~RegisterConflict(r)
    /\ fence' = fence + 1
    /\ runtimes' = [runtimes EXCEPT ![r] =
            [status |-> "online", token |-> fence + 1, lease |-> LeaseDuration, last |-> 0]]
    /\ applied' = [applied EXCEPT ![r] = << >>]
    /\ quit' = quit \ {r}

Register(r) ==
    /\ fence < MaxRegistrations
    /\ ~RegisterConflict(r)
    /\ fence' = fence + 1
    /\ runtimes' = [q \in Runtimes |->
            IF q = r
            THEN [status |-> "online", token |-> fence + 1,
                  lease |-> LeaseDuration, last |-> 0]
            ELSE IF runtimes[q].status = "absent"
                 THEN runtimes[q]
                 ELSE [runtimes[q] EXCEPT !.status = "fenced"]]
    /\ applied' = [applied EXCEPT ![r] = << >>]
    /\ quit' = quit \ {r}

\* Mutant: the lease is prolonged instead of renewed.
HeartbeatProlongs(r, token, load) ==
    /\ Presents(r, token)
    /\ runtimes[r].status # "fenced"
    /\ runtimes' = [runtimes EXCEPT ![r].status = IF load THEN "busy" ELSE "online",
                                    ![r].lease = @ + LeaseDuration]
    /\ UNCHANGED <<fence, applied, quit>>

\* load: does the body report active tasks or sessions?
Heartbeat(r, token, load) ==
    /\ Presents(r, token)
    /\ runtimes[r].status # "fenced"
    /\ runtimes' = [runtimes EXCEPT ![r].status = IF load THEN "busy" ELSE "online",
                                    ![r].lease = LeaseDuration]
    /\ UNCHANGED <<fence, applied, quit>>

Unregister(r, token) ==
    /\ Presents(r, token)
    /\ runtimes' = [runtimes EXCEPT ![r].status = "offline", ![r].lease = Lapsed]
    /\ quit' = quit \cup {r}
    /\ UNCHANGED <<fence, applied>>

\* The batch lo..hi of the agent's numbered events.  The events up to
\* lastSequence are skipped; the first fresh one must be lastSequence + 1.
NoGap(r, lo, hi) == hi > runtimes[r].last => lo <= runtimes[r].last + 1

\* The events from..hi uploaded under a token, in order.
Numbered(token, from, hi) == [i \in 1..(hi - from + 1) |-> <<token, from + i - 1>>]

\* Mutant: events seen before are applied again.
FreshFromFirst(r, lo) == lo

FreshFrom(r, lo) == IF lo > runtimes[r].last THEN lo ELSE runtimes[r].last + 1

Events(r, token, lo, hi) ==
    /\ HoldsLease(r, token)
    /\ NoGap(r, lo, hi)
    /\ applied' = [applied EXCEPT ![r] = @ \o Numbered(token, FreshFrom(r, lo), hi)]
    /\ runtimes' = [runtimes EXCEPT
            ![r].last = IF hi > @ THEN hi ELSE @,
            ![r].lease = LeaseDuration]
    /\ UNCHANGED <<fence, quit>>

\* expireRuntimeLeasesLocked, run by status queries and by the event streams.
ExpireLeases ==
    /\ \E r \in Runtimes : HasExpired(r)
    /\ runtimes' = [r \in Runtimes |->
            IF HasExpired(r)
            THEN [runtimes[r] EXCEPT !.status = "offline", !.lease = Lapsed]
            ELSE runtimes[r]]
    /\ UNCHANGED <<fence, applied, quit>>

\* One tick of the wall clock.
LeaseTick ==
    /\ runtimes' = [r \in Runtimes |->
            [runtimes[r] EXCEPT !.lease = IF @ = Lapsed THEN Lapsed ELSE @ - 1]]
    /\ UNCHANGED <<fence, applied, quit>>

RuntimeStep(r) ==
    \/ Register(r)
    \/ \E token \in Tokens :
         \/ \E load \in Loads : Heartbeat(r, token, load)
         \/ Unregister(r, token)
         \/ \E lo, hi \in 1..MaxSequence : lo <= hi /\ Events(r, token, lo, hi)

LeaseNext == (\E r \in Runtimes : RuntimeStep(r)) \/ ExpireLeases \/ LeaseTick

(***************************************************************************)
(* Nothing is fair here: the node sweeps the leases only when somebody     *)
(* polls the status or keeps a stream open.                                *)
(***************************************************************************)
LeaseSpec == LeaseInit /\ [][LeaseNext]_leaseVars

-----------------------------------------------------------------------------

\* Type invariant of the lease table and its history variables.
LeaseTypeOK ==
    /\ runtimes \in [Runtimes -> Row]
    /\ fence \in 0..MaxRegistrations
    /\ applied \in [Runtimes -> Seq(Tokens \X (1..MaxSequence))]
    /\ quit \subseteq Runtimes

\* handleAgentRuntimeEvents: whatever batches are lost, repeated, overlapped or
\* sent by an earlier instance of the runtime, the events applied for it since
\* it registered are 1, 2, ..., lastSequence of this registration: each one
\* once and in order.
ExactlyOnceInOrder ==
    \A r \in Runtimes :
        applied[r] = Numbered(runtimes[r].token, 1, runtimes[r].last)

Superseded(r) == r \in Registered /\ runtimes[r].token < fence

\* Fencing by handleAgentRuntimeRegister: a runtime overtaken by a later
\* registration stays fenced whatever it sends and however leases lapse, unless
\* it calls unregister; the latest registration itself is never fenced.
FencedUnlessQuit ==
    \A r \in Registered :
        IF Superseded(r) THEN runtimes[r].status = "fenced" \/ r \in quit
                         ELSE runtimes[r].status # "fenced"

\* Two runtimes can be served at the same time (events, commands, acks) only if
\* the earlier one unregistered after it had been fenced.
SingleHolderUnlessQuit ==
    \A r, q \in Registered :
        /\ r # q
        /\ HoldsLease(r, runtimes[r].token)
        /\ HoldsLease(q, runtimes[q].token)
        => {r, q} \cap quit # {}

=============================================================================
