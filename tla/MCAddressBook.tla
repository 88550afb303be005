--------------------------- MODULE MCAddressBook ----------------------------
(* Instances of AddressBook for TLC. *)
EXTENDS AddressBook, TLC

\* Names and handlers are interchangeable where no liveness is checked.
Symmetry == Permutations(Names) \union Permutations(Requests)
=============================================================================
