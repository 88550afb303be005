----------------------------- MODULE AddressBook ----------------------------
(***************************************************************************)
(* Creation of temporary addresses (api/app/routers/addresses.py) and of    *)
(* permanent mailboxes (api/app/routers/permanent.py) by concurrent request *)
(* handlers, the cleanup job and the administrator's delete.                *)
(*                                                                          *)
(* A handler is not one transaction.  It counts, looks the name up, deletes *)
(* an expired holder and commits, then inserts and commits; other handlers  *)
(* run between any two of these statements.  A request refused by its first *)
(* statement changes nothing and is not a step.                             *)
(***************************************************************************)
EXTENDS AddressTable, FiniteSets

CONSTANTS
  Requests,       \* request handlers that may be running at once
  MaxPermanent,   \* tempmail.max_permanent_addresses, 0 = no cap
  NoName          \* no name: the handler is idle

ASSUME BookAssumption ==
  /\ IsFiniteSet(Requests) /\ Requests # {}
  /\ MaxPermanent \in Nat
  /\ NoName \notin Names

VARIABLES req     \* what each handler holds between two statements

vars == <<addresses, clock, nextAddress, req>>

\* pc: idle, check (cap passed, name not looked up), reclaim (holds the id of
\* an expired holder), insert (name believed free).
Idle == [pc |-> "idle", kind |-> "temp", email |-> NoName, victim |-> 0]

Handler ==
  {Idle}
  \union [pc : {"check"}, kind : {"permanent"}, email : Names, victim : {0}]
  \union [pc : {"reclaim", "insert"}, kind : {"temp", "permanent"},
          email : Names, victim : Nat]

TypeOK ==
  /\ TableTypeOK
  /\ req \in [Requests -> Handler]

Init ==
  /\ TableInit
  /\ req = [r \in Requests |-> Idle]

-----------------------------------------------------------------------------
Become(r, h) == req' = [req EXCEPT ![r] = h]

Holding(p, k, e, i) == [pc |-> p, kind |-> k, email |-> e, victim |-> i]

\* SELECT ... WHERE email = e, and the branch taken on its result: the name is
\* free, or its holder is an expired temporary address.
LookUp(r, k, e) ==
  \/ /\ RowsOf(e) = {}
     /\ Become(r, Holding("insert", k, e, 0))
  \/ \E x \in RowsOf(e) :
       /\ IsExpired(x)
       /\ Become(r, Holding("reclaim", k, e, x.id))

\* create_address with a username.
TempRequest(r, e) ==
  /\ req[r].pc = "idle"
  /\ LookUp(r, "temp", e)
  /\ UNCHANGED tableVars

\* create_address without one: the loop ends on a random name nobody holds.
RandomRequest(r, e) ==
  /\ req[r].pc = "idle"
  /\ RowsOf(e) = {}
  /\ Become(r, Holding("insert", "temp", e, 0))
  /\ UNCHANGED tableVars

\* Mutant of CapAllows: the comparison is off by one.
CapAllowsOneMore == MaxPermanent = 0 \/ Cardinality(Permanents) <= MaxPermanent

\* _create_permanent_address: the count against the cap.
CapAllows == MaxPermanent = 0 \/ Cardinality(Permanents) < MaxPermanent

PermanentRequest(r, e) ==
  /\ req[r].pc = "idle"
  /\ CapAllows
  /\ Become(r, Holding("check", "permanent", e, 0))
  /\ UNCHANGED tableVars

\* ... then the name: taken over, found free, or refused with 409.
PermanentCheck(r) ==
  /\ req[r].pc = "check"
  /\ \/ LookUp(r, "permanent", req[r].email)
     \/ /\ \E x \in RowsOf(req[r].email) : ~IsExpired(x)
        /\ Become(r, Idle)
  /\ UNCHANGED tableVars

\* Mutants of Reclaim: the DELETE is by name; the name is lost on the way.
ReclaimByName(r) ==
  /\ req[r].pc = "reclaim"
  /\ DeleteAddresses(RowsOf(req[r].email))
  /\ Become(r, Holding("insert", req[r].kind, req[r].email, 0))

ReclaimForgetsName(r) ==
  /\ req[r].pc = "reclaim"
  /\ DeleteAddresses({x \in addresses : x.id = req[r].victim})
  /\ Become(r, Holding("insert", req[r].kind, NoName, 0))

\* db.delete(existing); db.commit().  The DELETE is by primary key, and is a
\* no-op when the row is already gone.
Reclaim(r) ==
  /\ req[r].pc = "reclaim"
  /\ DeleteAddresses({x \in addresses : x.id = req[r].victim})
  /\ Become(r, Holding("insert", req[r].kind, req[r].email, 0))

\* Mutant of Insert: a conflict hands the existing row to the new owner.
InsertOrReplace(r) ==
  /\ req[r].pc = "insert"
  /\ nextAddress <= MaxAddresses
  /\ addresses' = (addresses \ RowsOf(req[r].email))
                    \union {NewRow(req[r].email, req[r].kind)}
  /\ nextAddress' = nextAddress + 1
  /\ UNCHANGED clock
  /\ Become(r, Idle)

\* db.add(address); db.commit().  The table, not the handler, decides who won
\* the name: the loser gets an IntegrityError, which is HTTP 500.
Insert(r) ==
  /\ req[r].pc = "insert"
  /\ \/ InsertAddress(req[r].email, req[r].kind)
     \/ RowsOf(req[r].email) # {} /\ UNCHANGED tableVars
  /\ Become(r, Idle)

\* A statement fails, or the process restarts: what was committed stays.
Abort(r) ==
  /\ req[r].pc # "idle"
  /\ Become(r, Idle)
  /\ UNCHANGED tableVars

\* Mutant of CleanupExpired: the filter on is_permanent is inverted.
CleanupPermanents ==
  /\ DeleteAddresses({x \in Permanents : IsExpired(x)})
  /\ UNCHANGED req

\* cleanup_expired_addresses(), from the loop or from the admin panel.
CleanupExpired ==
  /\ \E x \in addresses : IsExpired(x)
  /\ DeleteAddresses({x \in addresses : IsExpired(x)})
  /\ UNCHANGED req

\* DELETE /admin/addresses/{id}.
AdminDelete(x) ==
  /\ DeleteAddresses({x})
  /\ UNCHANGED req

Tick == PassTime /\ UNCHANGED req

Next ==
  \/ \E r \in Requests, e \in Names :
       TempRequest(r, e) \/ RandomRequest(r, e) \/ PermanentRequest(r, e)
  \/ \E r \in Requests :
       PermanentCheck(r) \/ Reclaim(r) \/ Insert(r) \/ Abort(r)
  \/ CleanupExpired
  \/ \E x \in addresses : AdminDelete(x)
  \/ Tick

Spec == Init /\ [][Next]_vars

\* The cleanup thread runs for ever and swallows every exception; nothing says
\* that a client comes back or that the administrator acts.
FairSpec == Spec /\ WF_vars(CleanupExpired)

-----------------------------------------------------------------------------
\* A name has one mailbox at a time although each handler looks the name up
\* and inserts it in two transactions.
OneOwnerPerName == \A x, y \in addresses : x.email = y.email => x = y

\* A mailbox that has not expired goes only by the administrator's delete: a
\* claimant that looked the name up long ago never evicts a newer owner of it,
\* and no cleanup touches a permanent mailbox.
LiveNotEvicted ==
  [][\A x \in addresses \ addresses' : IsExpired(x) \/ AdminDelete(x)]_vars

\* Handlers that passed the count and have not inserted yet.
Promised == {r \in Requests : req[r].pc # "idle" /\ req[r].kind = "permanent"}

\* How far the count-then-insert of _create_permanent_address can overshoot:
\* every handler but one may have counted before the others inserted.
CapOvershoot ==
  MaxPermanent > 0 =>
    Cardinality(Permanents) + Cardinality(Promised)
      <= MaxPermanent + Cardinality(Requests) - 1

\* An expired address is eventually removed by the cleanup loop even if nobody
\* asks for its name again.
ExpiredGoes ==
  \A i \in 1..MaxAddresses :
    (\E x \in addresses : x.id = i /\ IsExpired(x))
      ~> (\A x \in addresses : x.id # i)

\* Seen from outside, the handlers behave as if each request were one step.
Registry == INSTANCE AddressRegistry WITH addresses <- addresses
RegistrySpec == Registry!Spec
=============================================================================
