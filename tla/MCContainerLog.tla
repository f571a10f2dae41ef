---------------------------- MODULE MCContainerLog -----------------------------
(***************************************************************************)
(* TLC instance of ContainerLog.                                           *)
(***************************************************************************)
EXTENDS ContainerLog, TLC

=============================================================================
