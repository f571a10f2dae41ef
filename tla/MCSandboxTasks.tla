---------------------------- MODULE MCSandboxTasks ----------------------------
(***************************************************************************)
(* TLC instance of SandboxTasks: requests are interchangeable.             *)
(***************************************************************************)
EXTENDS SandboxTasks, TLC

CallerSymmetry == Permutations(Callers)

=============================================================================
