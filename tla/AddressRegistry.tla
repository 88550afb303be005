-------------------------- MODULE AddressRegistry ---------------------------
(***************************************************************************)
(* What the service promises about addresses, with every request a single  *)
(* step: a name has one owner at a time, and a mailbox goes only after it   *)
(* has expired or when the administrator deletes it.                        *)
(***************************************************************************)
EXTENDS AddressTable

\* A free name is given to a new mailbox.
Claim(e, k) == InsertAddress(e, k)

\* Any of the expired mailboxes goes: the cleanup job, or a new claimant.
Release == \E D \in SUBSET {x \in addresses : IsExpired(x)} : DeleteAddresses(D)

\* The administrator deletes one mailbox, whatever its state.
Revoke == \E x \in addresses : DeleteAddresses({x})

Next ==
  \/ \E e \in Names, k \in {"temp", "permanent"} : Claim(e, k)
  \/ Release
  \/ Revoke
  \/ PassTime

Spec == TableInit /\ [][Next]_tableVars
=============================================================================
