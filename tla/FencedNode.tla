------------------------------ MODULE FencedNode ------------------------------
(***************************************************************************)
(* What role switching and the task stream of a node promise together, in  *)
(* atomic steps: the role alternates and every role has an epoch of its    *)
(* own, and the stream is a register that counts its writes and takes      *)
(* each under an epoch no older than the last and no newer than the        *)
(* node's.  There are no requests, prepared transitions, doors, files or   *)
(* locks here.                                                             *)
(*                                                                         *)
(* The promise ends with the first start that could not load the saved     *)
(* role ("lost"): from then on epochs may come twice.                      *)
(***************************************************************************)
EXTENDS Naturals

CONSTANT FirstRole

VARIABLES
    role,       \* the node's role
    epoch,      \* its epoch
    writes,     \* writes to the stream so far
    writer,     \* epoch under which the last one was made
    lost        \* has a start lost the saved role?

nodeVars == <<role, epoch, writes, writer, lost>>

NodeInit ==
    /\ role = FirstRole
    /\ epoch = 1
    /\ writes = 0
    /\ writer = 0
    /\ lost = FALSE

\* A new role takes the next epoch.
SwitchRole ==
    /\ ~lost
    /\ role' # role
    /\ epoch' = epoch + 1
    /\ UNCHANGED <<writes, writer, lost>>

\* One more write, under an epoch the node has or had.
Write ==
    /\ ~lost
    /\ writes' = writes + 1
    /\ writer <= writer' /\ writer' <= epoch
    /\ UNCHANGED <<role, epoch, lost>>

\* The saved role could not be loaded.
LoseRole ==
    /\ lost'
    /\ UNCHANGED <<writes, writer>>

\* Only the count of the writes is kept up after that.
AfterLoss ==
    /\ lost /\ lost'
    /\ writes' \in {writes, writes + 1}
    /\ writes' = writes => writer' = writer

NodeNext == SwitchRole \/ Write \/ LoseRole \/ AfterLoss

NodeSpec == NodeInit /\ [][NodeNext]_nodeVars

=============================================================================
