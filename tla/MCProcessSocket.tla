---------------------------- MODULE MCProcessSocket ----------------------------
(***************************************************************************)
(* TLC instance of ProcessSocket.                                          *)
(***************************************************************************)
EXTENDS ProcessSocket, TLC

=============================================================================
