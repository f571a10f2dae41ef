----------------------------- MODULE MCTeamEvents -----------------------------
(***************************************************************************)
(* TLC instance of TeamEvents.  Every client reads the stream of one task; *)
(* the behaviours in which all events are about that task are those of a   *)
(* project's stream.                                                       *)
(***************************************************************************)
EXTENDS TeamEvents

CONSTANT Task

ClientTopic == [s \in Streams |-> Task]

=============================================================================
