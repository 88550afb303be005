---------------------------- MODULE AddressTable ----------------------------
(***************************************************************************)
(* The table `addresses` of db/init/schema.sql with the database clock, and *)
(* the statements the API and the mail server run on it.  One row is one    *)
(* mailbox; its id stands for the UUID and for the access token, which are  *)
(* both generated fresh with the row and never change.                      *)
(***************************************************************************)
EXTENDS Naturals

CONSTANTS
  Names,          \* full addresses somebody may ask for (user@domain)
  Lifetime,       \* tempmail.address_lifetime_hours, in clock ticks
  MaxClock,       \* bound: the clock stops here
  MaxAddresses    \* bound: rows ever inserted

ASSUME TableAssumption ==
  Lifetime \in Nat /\ MaxClock \in Nat /\ MaxAddresses \in Nat

VARIABLES
  addresses,      \* set of rows
  clock,          \* NOW() of the database, utcnow() of the API
  nextAddress     \* id of the next row

tableVars == <<addresses, clock, nextAddress>>

\* `expires_at` is NULL exactly in the rows of permanent mailboxes, which the
\* predicates below tell by their kind; their field is 0.
Row == [id : Nat, email : Names, kind : {"temp", "permanent"},
        created : Nat, expires : Nat]

TableTypeOK ==
  /\ addresses \subseteq Row
  /\ clock \in Nat
  /\ nextAddress \in Nat \ {0}

TableInit ==
  /\ addresses = {}
  /\ clock = 0
  /\ nextAddress = 1

RowsOf(e)  == {x \in addresses : x.email = e}
Permanents == {x \in addresses : x.kind = "permanent"}

\* Address.is_expired(), and the WHERE of cleanup_expired_addresses().
IsExpired(x) == x.kind = "temp" /\ clock > x.expires

\* The WHERE of AddressExists and getAddress in the mail server.  A row whose
\* expiry is this very instant is neither accepting nor expired.
Accepts(x) == x.kind = "permanent" \/ x.expires > clock

NewRow(e, k) ==
  [id |-> nextAddress, email |-> e, kind |-> k, created |-> clock,
   expires |-> IF k = "temp" THEN clock + Lifetime ELSE 0]

\* INSERT INTO addresses: UNIQUE (email) refuses a second row of a name.
InsertAddress(e, k) ==
  /\ nextAddress <= MaxAddresses
  /\ RowsOf(e) = {}
  /\ addresses' = addresses \union {NewRow(e, k)}
  /\ nextAddress' = nextAddress + 1
  /\ UNCHANGED clock

\* DELETE FROM addresses, for the rows of D.
DeleteAddresses(D) ==
  /\ addresses' = addresses \ D
  /\ UNCHANGED <<clock, nextAddress>>

PassTime ==
  /\ clock < MaxClock
  /\ clock' = clock + 1
  /\ UNCHANGED <<addresses, nextAddress>>
=============================================================================
