----------------------------- MODULE MCTeamLease -----------------------------
(***************************************************************************)
(* TLC instance of TeamLease: the runtimeIds are interchangeable.          *)
(***************************************************************************)
EXTENDS TeamLease, TLC

RuntimeSymmetry == Permutations(Runtimes)

=============================================================================
