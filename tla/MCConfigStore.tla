---------------------------- MODULE MCConfigStore ---------------------------
(* Instances of ConfigStore for TLC. *)
EXTENDS ConfigStore, TLC

\* Requests are interchangeable where no liveness is checked.
Symmetry == Permutations(Admins)
=============================================================================
