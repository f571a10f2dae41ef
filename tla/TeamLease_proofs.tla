--------------------------- MODULE TeamLease_proofs ---------------------------
(***************************************************************************)
(* Proofs about TeamLease, for any set of runtimes, any lease duration and *)
(* any bounds.  The inductive invariant adds to the checked invariants the *)
(* order of the tokens: no registered row holds a token that was not       *)
(* issued, and no two rows hold the same one.                              *)
(***************************************************************************)
EXTENDS TeamLease, SequenceTheorems, TLAPS

TokenOrder ==
    /\ \A r \in Registered : runtimes[r].token \in 1..fence
    /\ \A r, q \in Registered : runtimes[r].token = runtimes[q].token => r = q

LeaseInv == LeaseTypeOK /\ TokenOrder /\ FencedUnlessQuit /\ ExactlyOnceInOrder

\* Appending the events after the applied prefix extends the prefix.
LEMMA BatchExtendsPrefix ==
    ASSUME NEW token, NEW last \in Nat, NEW next \in Nat, last <= next
    PROVE  Numbered(token, 1, last) \o Numbered(token, last + 1, next) = Numbered(token, 1, next)
PROOF
<1> DEFINE n == next - last
           S == Numbered(token, 1, last)
           T == Numbered(token, last + 1, next)
           U == Numbered(token, 1, next)
<1>1. /\ n \in Nat
      /\ 1..(last - 1 + 1) = 1..last
      /\ 1..(next - 1 + 1) = 1..(last + n)
      /\ 1..(next - (last + 1) + 1) = 1..n
  OBVIOUS
<1>2. /\ S \in Seq({token} \X Nat) /\ Len(S) = last
      /\ T \in Seq({token} \X Nat) /\ Len(T) = n
      /\ U \in Seq({token} \X Nat) /\ Len(U) = last + n
  BY <1>1 DEF Numbered
<1>3. \A i \in 1..(last + n) : U[i] = IF i <= last THEN S[i] ELSE T[i - last]
  BY <1>1 DEF Numbered
<1>4. S \o T = U
  <2> HIDE DEF S, T, U, n
  <2>1. /\ S \o T \in Seq({token} \X Nat)
        /\ Len(S \o T) = last + n
        /\ \A i \in 1..(last + n) : (S \o T)[i] = IF i <= last THEN S[i] ELSE T[i - last]
    BY <1>2, ConcatProperties
  <2>2. Len(S \o T) = Len(U) /\ \A i \in 1..Len(S \o T) : (S \o T)[i] = U[i]
    BY <1>2, <1>3, <2>1
  <2> QED
    BY <1>2, <2>1, <2>2, SeqEqual
<1> QED
  BY <1>4

\* The empty lease table satisfies the invariant.
LEMMA LeaseInitInv == LeaseInit => LeaseInv
PROOF
<1> SUFFICES ASSUME LeaseInit PROVE LeaseInv
  OBVIOUS
<1> USE LeaseAssumption DEF LeaseInit, Absent, Lapsed
<1>1. LeaseTypeOK
  BY DEF LeaseTypeOK, Row, RuntimeStatus
<1>2. TokenOrder /\ FencedUnlessQuit
  BY DEF TokenOrder, FencedUnlessQuit, Registered
<1>3. ExactlyOnceInOrder
  BY DEF ExactlyOnceInOrder, Numbered
<1> QED
  BY <1>1, <1>2, <1>3 DEF LeaseInv

-----------------------------------------------------------------------------
(* Updates of one row, and the steps that register nobody.                 *)

\* What may be written into the lease field of a row.
LEMMA LapsedRange ==
    /\ Lapsed \in Lapsed..LeaseDuration
    /\ LeaseDuration \in Lapsed..LeaseDuration
    /\ \A l \in Lapsed..LeaseDuration :
          (IF l = Lapsed THEN Lapsed ELSE l - 1) \in Lapsed..LeaseDuration
PROOF BY LeaseAssumption DEF Lapsed

\* What a step other than Register does to the registrations: tokens and rows
\* stay, nobody becomes fenced, and only an unregister call ends a fencing.
SameRegistrations ==
    /\ fence' = fence
    /\ quit \subseteq quit'
    /\ \A q \in Runtimes :
          /\ runtimes'[q].token = runtimes[q].token
          /\ runtimes'[q].status = "absent" <=> runtimes[q].status = "absent"
          /\ runtimes'[q].status = "fenced" => runtimes[q].status = "fenced"
          /\ runtimes[q].status = "fenced" => runtimes'[q].status = "fenced" \/ q \in quit'

\* A step that issues no token and unfences only who quits preserves the
\* fencing part of the invariant.
LEMMA SameRegistrationsInv ==
    TokenOrder /\ FencedUnlessQuit /\ SameRegistrations => TokenOrder' /\ FencedUnlessQuit'
PROOF
<1> SUFFICES ASSUME TokenOrder, FencedUnlessQuit, SameRegistrations
             PROVE  TokenOrder' /\ FencedUnlessQuit'
  OBVIOUS
<1>1. Registered' = Registered
  BY DEF SameRegistrations, Registered
<1>2. TokenOrder'
  BY <1>1 DEF SameRegistrations, TokenOrder, Registered
<1>3. FencedUnlessQuit'
  BY <1>1 DEF SameRegistrations, FencedUnlessQuit, Registered, Superseded
<1> QED
  BY <1>2, <1>3

\* A step that applies no events and keeps tokens and sequences preserves the
\* history part of the invariant.
LEMMA SameEventsInv ==
    ASSUME ExactlyOnceInOrder, applied' = applied,
           \A q \in Runtimes : runtimes'[q].token = runtimes[q].token /\ runtimes'[q].last = runtimes[q].last
    PROVE  ExactlyOnceInOrder'
PROOF BY DEF ExactlyOnceInOrder

-----------------------------------------------------------------------------
(* One lemma per action.                                                   *)

\* A registration fences every other row and starts a new history.
LEMMA RegisterInv ==
    ASSUME LeaseInv, NEW r \in Runtimes, Register(r) PROVE LeaseInv'
PROOF
<1> USE LeaseAssumption
<1> DEFINE new == [status |-> "online", token |-> fence + 1, lease |-> LeaseDuration, last |-> 0]
<1>1. /\ runtimes'[r] = new
      /\ \A q \in Runtimes \ {r} :
            runtimes'[q] = IF runtimes[q].status = "absent" THEN runtimes[q]
                           ELSE [runtimes[q] EXCEPT !.status = "fenced"]
      /\ runtimes' = [q \in Runtimes |-> runtimes'[q]]
      /\ fence' = fence + 1
      /\ applied' = [applied EXCEPT ![r] = << >>]
      /\ quit' = quit \ {r}
  BY DEF Register
<1>2. fence \in Nat /\ fence' \in 0..MaxRegistrations
  BY DEF Register, LeaseInv, LeaseTypeOK
<1>3. new \in Row /\ new.token = fence + 1 /\ new.last = 0 /\ new.status = "online"
  BY <1>1, <1>2, LapsedRange DEF Row, RuntimeStatus
<1>4. \A q \in Runtimes \ {r} :
        /\ runtimes'[q] \in Row
        /\ runtimes'[q].status = IF runtimes[q].status = "absent" THEN "absent" ELSE "fenced"
        /\ runtimes'[q].token = runtimes[q].token
        /\ runtimes'[q].last = runtimes[q].last
  <2> SUFFICES ASSUME NEW q \in Runtimes \ {r}
               PROVE  /\ runtimes'[q] \in Row
                      /\ runtimes'[q].status = IF runtimes[q].status = "absent" THEN "absent" ELSE "fenced"
                      /\ runtimes'[q].token = runtimes[q].token
                      /\ runtimes'[q].last = runtimes[q].last
    OBVIOUS
  <2>1. runtimes[q] \in Row /\ "fenced" \in RuntimeStatus
    BY DEF LeaseInv, LeaseTypeOK, RuntimeStatus
  <2> QED
    BY <1>1, <2>1 DEF Row
<1> HIDE DEF new
<1>5. LeaseTypeOK'
  <2>1. runtimes' \in [Runtimes -> Row]
    BY <1>1, <1>3, <1>4
  <2>2. applied' \in [Runtimes -> Seq(Tokens \X (1..MaxSequence))] /\ quit' \subseteq Runtimes
    BY <1>1 DEF LeaseInv, LeaseTypeOK
  <2> QED
    BY <1>2, <2>1, <2>2 DEF LeaseTypeOK
<1>6. TokenOrder' /\ FencedUnlessQuit'
  <2>1. \A q \in Runtimes \ {r} : q \in Registered' <=> q \in Registered
    BY <1>4 DEF Registered
  <2>2. \A q \in Registered : runtimes[q].token \in 1..fence
    BY DEF LeaseInv, TokenOrder
  <2>3. TokenOrder'
    BY <1>1, <1>2, <1>3, <1>4, <2>1, <2>2 DEF LeaseInv, TokenOrder, Registered
  <2>4. FencedUnlessQuit'
    BY <1>1, <1>2, <1>3, <1>4, <2>1, <2>2 DEF FencedUnlessQuit, Registered, Superseded
  <2> QED
    BY <2>3, <2>4
<1>7. ExactlyOnceInOrder'
  <2>1. applied'[r] = << >> /\ \A q \in Runtimes \ {r} : applied'[q] = applied[q]
    BY <1>1 DEF LeaseInv, LeaseTypeOK
  <2>2. applied'[r] = Numbered(runtimes'[r].token, 1, runtimes'[r].last)
    BY <1>1, <1>3, <2>1 DEF Numbered
  <2>3. \A q \in Runtimes \ {r} :
          applied'[q] = Numbered(runtimes'[q].token, 1, runtimes'[q].last)
    BY <1>4, <2>1 DEF LeaseInv, ExactlyOnceInOrder
  <2> QED
    BY <2>2, <2>3 DEF ExactlyOnceInOrder
<1> QED
  BY <1>5, <1>6, <1>7 DEF LeaseInv

\* A heartbeat renews a lease that is not fenced.
LEMMA HeartbeatInv ==
    ASSUME LeaseInv, NEW r \in Runtimes, NEW token \in Tokens, NEW load \in Loads,
           Heartbeat(r, token, load)
    PROVE  LeaseInv'
PROOF
<1>1. PICK s \in {"online", "busy"} :
        runtimes' = [runtimes EXCEPT ![r] = [@ EXCEPT !.status = s, !.lease = LeaseDuration]]
  BY DEF Heartbeat, LeaseInv, LeaseTypeOK, Row
<1>2. runtimes[r] \in Row /\ s \in RuntimeStatus /\ runtimes[r].status \notin {"absent", "fenced"}
  BY DEF Heartbeat, Presents, LeaseInv, LeaseTypeOK, RuntimeStatus
<1>3. /\ runtimes'[r] \in Row
      /\ runtimes'[r].status = s
      /\ runtimes'[r].token = runtimes[r].token
      /\ runtimes'[r].last = runtimes[r].last
  <2>1. runtimes'[r] = [runtimes[r] EXCEPT !.status = s, !.lease = LeaseDuration]
    BY <1>1 DEF LeaseInv, LeaseTypeOK
  <2> QED
    BY <1>2, <2>1, LapsedRange DEF Row
<1>4. /\ \A q \in Runtimes \ {r} : runtimes'[q] = runtimes[q]
      /\ runtimes' \in [Runtimes -> Row]
  BY <1>1, <1>3 DEF LeaseInv, LeaseTypeOK
<1>5. LeaseTypeOK'
  BY <1>4 DEF Heartbeat, LeaseInv, LeaseTypeOK
<1>6. SameRegistrations
  BY <1>2, <1>3, <1>4 DEF Heartbeat, SameRegistrations
<1>7. ExactlyOnceInOrder'
  BY <1>3, <1>4, SameEventsInv DEF Heartbeat, LeaseInv
<1> QED
  BY <1>5, <1>6, <1>7, SameRegistrationsInv DEF LeaseInv

\* An unregistration may unfence a row, and is remembered as having quit.
LEMMA UnregisterInv ==
    ASSUME LeaseInv, NEW r \in Runtimes, NEW token \in Tokens, Unregister(r, token)
    PROVE  LeaseInv'
PROOF
<1>1. runtimes' = [runtimes EXCEPT ![r] = [@ EXCEPT !.status = "offline", !.lease = Lapsed]]
  BY DEF Unregister, LeaseInv, LeaseTypeOK, Row
<1>2. runtimes[r] \in Row /\ "offline" \in RuntimeStatus /\ runtimes[r].status # "absent"
  BY DEF Unregister, Presents, LeaseInv, LeaseTypeOK, RuntimeStatus
<1>3. /\ runtimes'[r] \in Row
      /\ runtimes'[r].status = "offline"
      /\ runtimes'[r].token = runtimes[r].token
      /\ runtimes'[r].last = runtimes[r].last
  <2>1. runtimes'[r] = [runtimes[r] EXCEPT !.status = "offline", !.lease = Lapsed]
    BY <1>1 DEF LeaseInv, LeaseTypeOK
  <2> QED
    BY <1>2, <2>1, LapsedRange DEF Row
<1>4. /\ \A q \in Runtimes \ {r} : runtimes'[q] = runtimes[q]
      /\ runtimes' \in [Runtimes -> Row]
  BY <1>1, <1>3 DEF LeaseInv, LeaseTypeOK
<1>5. LeaseTypeOK'
  BY <1>4 DEF Unregister, LeaseInv, LeaseTypeOK
<1>6. SameRegistrations
  BY <1>2, <1>3, <1>4 DEF Unregister, SameRegistrations
<1>7. ExactlyOnceInOrder'
  BY <1>3, <1>4, SameEventsInv DEF Unregister, LeaseInv
<1> QED
  BY <1>5, <1>6, <1>7, SameRegistrationsInv DEF LeaseInv

\* An upload extends the history by exactly the fresh events.
LEMMA EventsInv ==
    ASSUME LeaseInv, NEW r \in Runtimes, NEW token \in Tokens,
           NEW lo \in 1..MaxSequence, NEW hi \in 1..MaxSequence, lo <= hi,
           Events(r, token, lo, hi)
    PROVE  LeaseInv'
PROOF
<1> USE LeaseAssumption
<1> DEFINE last == runtimes[r].last
           from == IF lo > last THEN lo ELSE last + 1
           next == IF hi > last THEN hi ELSE last
<1>1. /\ runtimes \in [Runtimes -> Row] /\ runtimes[r] \in Row /\ last \in 0..MaxSequence
      /\ applied \in [Runtimes -> Seq(Tokens \X (1..MaxSequence))]
  BY DEF LeaseInv, LeaseTypeOK, Row
<1>2. /\ runtimes' = [runtimes EXCEPT ![r] = [@ EXCEPT !.last = next, !.lease = LeaseDuration]]
      /\ applied' = [applied EXCEPT ![r] =
             applied[r] \o Numbered(token, from, hi)]
      /\ runtimes[r].token = token
      /\ hi > last => lo <= last + 1
      /\ fence' = fence /\ quit' = quit
  BY <1>1 DEF Events, HoldsLease, Presents, NoGap, FreshFrom, Row
<1>3. next \in 0..MaxSequence
  BY <1>1
<1>4. /\ runtimes'[r] \in Row
      /\ runtimes'[r].status = runtimes[r].status
      /\ runtimes'[r].token = runtimes[r].token
      /\ runtimes'[r].last = next
  <2> HIDE DEF next
  <2> QED
    BY <1>1, <1>2, <1>3, LapsedRange DEF Row
<1>5. /\ \A q \in Runtimes \ {r} : runtimes'[q] = runtimes[q] /\ applied'[q] = applied[q]
      /\ runtimes' \in [Runtimes -> Row]
  BY <1>1, <1>2, <1>4
<1>6. applied'[r] = Numbered(token, 1, next)
  <2>1. applied[r] = Numbered(token, 1, last)
    BY <1>2 DEF LeaseInv, ExactlyOnceInOrder
  <2>2. lo \in Nat /\ hi \in Nat /\ last \in Nat
    BY <1>1
  <2>3. applied'[r] = Numbered(token, 1, last) \o Numbered(token, from, hi)
    BY <1>1, <1>2, <2>1
  <2>4. Numbered(token, from, hi) = Numbered(token, last + 1, next)
    <3>1. from = last + 1 /\ 1..(hi - from + 1) = 1..(next - (last + 1) + 1)
      BY <1>2, <2>2, lo <= hi
    <3> QED
      BY <3>1 DEF Numbered
  <2>5. next \in Nat /\ last <= next
    BY <2>2
  <2> HIDE DEF from, next, last
  <2>6. Numbered(token, 1, last) \o Numbered(token, last + 1, next) = Numbered(token, 1, next)
    BY <2>2, <2>5, BatchExtendsPrefix
  <2> QED
    BY <2>3, <2>4, <2>6
<1>7. LeaseTypeOK'
  <2>1. applied'[r] \in Seq(Tokens \X (1..MaxSequence))
    <3> HIDE DEF next
    <3> QED
      BY <1>3, <1>6 DEF Numbered
  <2>2. applied' \in [Runtimes -> Seq(Tokens \X (1..MaxSequence))]
    BY <1>1, <1>2, <1>5, <2>1
  <2> QED
    BY <1>2, <1>5, <2>2 DEF LeaseInv, LeaseTypeOK
<1>8. SameRegistrations
  BY <1>2, <1>4, <1>5 DEF SameRegistrations
<1>9. ExactlyOnceInOrder'
  <2> HIDE DEF next
  <2>1. applied'[r] = Numbered(runtimes'[r].token, 1, runtimes'[r].last)
    BY <1>2, <1>4, <1>6
  <2>2. \A q \in Runtimes \ {r} :
          applied'[q] = Numbered(runtimes'[q].token, 1, runtimes'[q].last)
    BY <1>5 DEF LeaseInv, ExactlyOnceInOrder
  <2> QED
    BY <2>1, <2>2 DEF ExactlyOnceInOrder
<1> QED
  BY <1>7, <1>8, <1>9, SameRegistrationsInv DEF LeaseInv

\* The sweep marks active rows only, never fenced ones.
LEMMA ExpireLeasesInv == ASSUME LeaseInv, ExpireLeases PROVE LeaseInv'
PROOF
<1>1. \A q \in Runtimes :
        /\ runtimes'[q] \in Row
        /\ runtimes'[q].token = runtimes[q].token
        /\ runtimes'[q].last = runtimes[q].last
        /\ \/ runtimes'[q].status = runtimes[q].status
           \/ runtimes[q].status \notin {"fenced", "absent"} /\ runtimes'[q].status = "offline"
  <2> SUFFICES ASSUME NEW q \in Runtimes
               PROVE  /\ runtimes'[q] \in Row
                      /\ runtimes'[q].token = runtimes[q].token
                      /\ runtimes'[q].last = runtimes[q].last
                      /\ \/ runtimes'[q].status = runtimes[q].status
                         \/ runtimes[q].status \notin {"fenced", "absent"} /\ runtimes'[q].status = "offline"
    OBVIOUS
  <2>1. runtimes[q] \in Row /\ "offline" \in RuntimeStatus
    BY DEF LeaseInv, LeaseTypeOK, RuntimeStatus
  <2> QED
    BY <2>1, LapsedRange DEF ExpireLeases, HasExpired, Row
<1>2. LeaseTypeOK'
  BY <1>1 DEF ExpireLeases, LeaseInv, LeaseTypeOK
<1>3. SameRegistrations
  BY <1>1 DEF ExpireLeases, SameRegistrations
<1>4. ExactlyOnceInOrder'
  BY <1>1, SameEventsInv DEF ExpireLeases, LeaseInv
<1> QED
  BY <1>2, <1>3, <1>4, SameRegistrationsInv DEF LeaseInv

\* A tick shortens leases only.
LEMMA LeaseTickInv == ASSUME LeaseInv, LeaseTick PROVE LeaseInv'
PROOF
<1>1. \A q \in Runtimes :
        /\ runtimes'[q] \in Row
        /\ runtimes'[q].token = runtimes[q].token
        /\ runtimes'[q].last = runtimes[q].last
        /\ runtimes'[q].status = runtimes[q].status
  <2> SUFFICES ASSUME NEW q \in Runtimes
               PROVE  /\ runtimes'[q] \in Row
                      /\ runtimes'[q].token = runtimes[q].token
                      /\ runtimes'[q].last = runtimes[q].last
                      /\ runtimes'[q].status = runtimes[q].status
    OBVIOUS
  <2>1. runtimes[q] \in Row
    BY DEF LeaseInv, LeaseTypeOK
  <2>2. PICK l \in Lapsed..LeaseDuration : runtimes'[q] = [runtimes[q] EXCEPT !.lease = l]
    BY <2>1, LapsedRange DEF LeaseTick, Row
  <2> QED
    BY <2>1, <2>2 DEF Row
<1>2. LeaseTypeOK'
  BY <1>1 DEF LeaseTick, LeaseInv, LeaseTypeOK
<1>3. SameRegistrations
  BY <1>1 DEF LeaseTick, SameRegistrations
<1>4. ExactlyOnceInOrder'
  BY <1>1, SameEventsInv DEF LeaseTick, LeaseInv
<1> QED
  BY <1>2, <1>3, <1>4, SameRegistrationsInv DEF LeaseInv

-----------------------------------------------------------------------------

\* Every step of the lease table preserves the invariant.
LEMMA LeaseStepInv == LeaseInv /\ [LeaseNext]_leaseVars => LeaseInv'
PROOF
<1> SUFFICES ASSUME LeaseInv, [LeaseNext]_leaseVars PROVE LeaseInv'
  OBVIOUS
<1>1. CASE UNCHANGED leaseVars
  BY <1>1 DEF leaseVars, LeaseInv, LeaseTypeOK, TokenOrder, FencedUnlessQuit,
              ExactlyOnceInOrder, Registered, Superseded
<1>2. CASE LeaseNext
  BY <1>2, RegisterInv, HeartbeatInv, UnregisterInv, EventsInv, ExpireLeasesInv, LeaseTickInv
     DEF LeaseNext, RuntimeStep
<1> QED
  BY <1>1, <1>2

\* The inductive invariant holds in every reachable state of the lease table.
THEOREM LeaseInvariance == LeaseSpec => []LeaseInv
PROOF
<1> QED
  BY LeaseInitInv, LeaseStepInv, PTL DEF LeaseSpec

\* Type correctness of the lease table.
THEOREM LeaseTypeCorrect == LeaseSpec => []LeaseTypeOK
PROOF
<1>1. LeaseInv => LeaseTypeOK
  BY DEF LeaseInv
<1> QED
  BY <1>1, LeaseInvariance, PTL

\* handleAgentRuntimeEvents applies the events of a registration exactly once
\* and in order, for any batches and any number of registrations.
THEOREM EventsExactlyOnce == LeaseSpec => []ExactlyOnceInOrder
PROOF
<1>1. LeaseInv => ExactlyOnceInOrder
  BY DEF LeaseInv
<1> QED
  BY <1>1, LeaseInvariance, PTL

\* An overtaken runtime stays fenced unless it calls unregister.
THEOREM OvertakenStaysFenced == LeaseSpec => []FencedUnlessQuit
PROOF
<1>1. LeaseInv => FencedUnlessQuit
  BY DEF LeaseInv
<1> QED
  BY <1>1, LeaseInvariance, PTL

\* Two runtimes are served at once only after one of them unregistered while
\* fenced: the handlers' checks leave no other way.
THEOREM SingleHolder == LeaseSpec => []SingleHolderUnlessQuit
PROOF
<1>1. LeaseInv => SingleHolderUnlessQuit
  <2> SUFFICES ASSUME LeaseInv, NEW r \in Registered, NEW q \in Registered, r # q,
                      HoldsLease(r, runtimes[r].token), HoldsLease(q, runtimes[q].token)
               PROVE  {r, q} \cap quit # {}
    BY DEF SingleHolderUnlessQuit
  <2>1. runtimes[r].status # "fenced" /\ runtimes[q].status # "fenced"
    BY DEF HoldsLease
  <2>2. runtimes[r].token \in 1..fence /\ runtimes[q].token \in 1..fence
        /\ runtimes[r].token # runtimes[q].token /\ fence \in Nat
    BY LeaseAssumption DEF LeaseInv, TokenOrder, LeaseTypeOK
  <2>3. runtimes[r].token < fence \/ runtimes[q].token < fence
    BY <2>2
  <2> QED
    BY <2>1, <2>3 DEF LeaseInv, FencedUnlessQuit, Superseded
<1> QED
  BY <1>1, LeaseInvariance, PTL

=============================================================================
