---------------------------- MODULE MCMailStore -----------------------------
(* Instances of MailStore for TLC. *)
EXTENDS MailStore, TLC

Symmetry == Permutations(Names) \union Permutations(Sessions)
=============================================================================
