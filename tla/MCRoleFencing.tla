---------------------------- MODULE MCRoleFencing ----------------------------
(***************************************************************************)
(* TLC instance of RoleFencing: requests and operation ids are             *)
(* interchangeable.                                                        *)
(***************************************************************************)
EXTENDS RoleFencing, TLC

RequestSymmetry == Permutations(Callers) \cup Permutations(Operations)

=============================================================================
