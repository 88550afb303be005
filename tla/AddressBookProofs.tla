-------------------------- MODULE AddressBookProofs --------------------------
(***************************************************************************)
(* Proofs about AddressBook, for every set of names, every finite set of    *)
(* handlers and every bound.                                                *)
(***************************************************************************)
EXTENDS AddressBook, TLAPS, FiniteSetTheorems

(***************************************************************************)
(* The strengthening OneOwnerPerName and LiveNotEvicted rest on: ids are    *)
(* never reused, so the row a handler decided to reclaim is, if it is still *)
(* there, the row it saw, and an expired row stays expired.                 *)
(***************************************************************************)
IdsFresh ==
  /\ \A x \in addresses : x.id < nextAddress
  /\ \A x, y \in addresses : x.id = y.id => x = y

VictimsExpired ==
  \A r \in Requests : req[r].pc = "reclaim" =>
    /\ req[r].victim < nextAddress
    /\ \A x \in addresses : x.id = req[r].victim => IsExpired(x)

IInv == TypeOK /\ OneOwnerPerName /\ IdsFresh /\ VictimsExpired

-----------------------------------------------------------------------------
\* Typing of the three statements of AddressTable.
LEMMA TableTyping ==
  ASSUME TableTypeOK
  PROVE  /\ \A e \in Names, k \in {"temp", "permanent"} :
              InsertAddress(e, k) => TableTypeOK'
         /\ \A D : DeleteAddresses(D) => TableTypeOK'
         /\ PassTime => TableTypeOK'
  BY TableAssumption DEF TableTypeOK, InsertAddress, NewRow, Row,
     DeleteAddresses, PassTime

\* What a lookup leaves in the handler is well typed.
LEMMA LookUpTyping ==
  ASSUME TypeOK, NEW r \in Requests, NEW e \in Names,
         NEW k \in {"temp", "permanent"}, LookUp(r, k, e)
  PROVE  req' \in [Requests -> Handler]
  BY DEF TypeOK, TableTypeOK, LookUp, Become, Holding, Handler, RowsOf, Row

\* Every step keeps TypeOK.
LEMMA TypeStep == TypeOK /\ [Next]_vars => TypeOK'
<1> SUFFICES ASSUME TypeOK, [Next]_vars PROVE TypeOK'
  OBVIOUS
<1>0. Idle \in Handler
  BY DEF Idle, Handler
<1>1. ASSUME NEW r \in Requests, NEW e \in Names,
             TempRequest(r, e) \/ RandomRequest(r, e) \/ PermanentRequest(r, e)
      PROVE  TypeOK'
  <2>1. CASE TempRequest(r, e)
    BY <2>1, LookUpTyping DEF TypeOK, TempRequest, tableVars, TableTypeOK
  <2>2. CASE RandomRequest(r, e) \/ PermanentRequest(r, e)
    BY <2>2 DEF TypeOK, RandomRequest, PermanentRequest, Become, Holding,
       Handler, tableVars, TableTypeOK
  <2>3. QED  BY <1>1, <2>1, <2>2
<1>2. ASSUME NEW r \in Requests, PermanentCheck(r) PROVE TypeOK'
  <2>1. TableTypeOK'
    BY <1>2 DEF PermanentCheck, TypeOK, tableVars, TableTypeOK
  <2>2. req[r].email \in Names
    BY <1>2 DEF PermanentCheck, TypeOK, Handler, Idle
  <2>3. req' \in [Requests -> Handler]
    BY <1>2, <1>0, <2>2, LookUpTyping DEF PermanentCheck, Become, TypeOK
  <2>4. QED  BY <2>1, <2>3 DEF TypeOK
<1>3. ASSUME NEW r \in Requests, Reclaim(r) PROVE TypeOK'
  <2>1. req[r].kind \in {"temp", "permanent"} /\ req[r].email \in Names
    BY <1>3 DEF Reclaim, TypeOK, Handler, Idle
  <2>2. Holding("insert", req[r].kind, req[r].email, 0) \in Handler
    BY <2>1 DEF Holding, Handler
  <2>3. QED  BY <1>3, <2>2, TableTyping DEF Reclaim, Become, TypeOK
<1>4. ASSUME NEW r \in Requests, Insert(r) PROVE TypeOK'
  <2>1. CASE InsertAddress(req[r].email, req[r].kind)
    <3>1. req[r].kind \in {"temp", "permanent"} /\ req[r].email \in Names
      BY <1>4 DEF Insert, TypeOK, Handler, Idle
    <3>2. QED  BY <2>1, <3>1, <1>4, <1>0, TableTyping DEF Insert, Become, TypeOK
  <2>2. CASE UNCHANGED tableVars
    BY <2>2, <1>4, <1>0 DEF Insert, Become, TypeOK, tableVars, TableTypeOK
  <2>3. QED  BY <1>4, <2>1, <2>2 DEF Insert
<1>5. ASSUME NEW r \in Requests, Abort(r) PROVE TypeOK'
  BY <1>5, <1>0 DEF Abort, Become, TypeOK, tableVars, TableTypeOK
<1>6. CASE CleanupExpired \/ (\E x \in addresses : AdminDelete(x)) \/ Tick
  BY <1>6, TableTyping DEF CleanupExpired, AdminDelete, Tick, TypeOK
<1>7. CASE UNCHANGED vars
  BY <1>7 DEF vars, TypeOK, TableTypeOK
<1>8. QED
  BY <1>1, <1>2, <1>3, <1>4, <1>5, <1>6, <1>7 DEF Next

-----------------------------------------------------------------------------
\* Ids of rows stay below the counter and distinct, whatever the statement.
LEMMA IdsStep == TypeOK /\ IdsFresh /\ [Next]_vars => IdsFresh' /\ nextAddress <= nextAddress'
<1> SUFFICES ASSUME TypeOK, IdsFresh, [Next]_vars
             PROVE  IdsFresh' /\ nextAddress <= nextAddress'
  OBVIOUS
<1>1. ASSUME NEW e, NEW k, InsertAddress(e, k)
      PROVE  IdsFresh' /\ nextAddress <= nextAddress'
  BY <1>1 DEF InsertAddress, NewRow, IdsFresh, TypeOK, TableTypeOK, Row
<1>2. ASSUME NEW D, DeleteAddresses(D)
      PROVE  IdsFresh' /\ nextAddress <= nextAddress'
  BY <1>2 DEF DeleteAddresses, IdsFresh, TypeOK, TableTypeOK
<1>3. CASE UNCHANGED <<addresses, nextAddress>>
  BY <1>3 DEF IdsFresh, TypeOK, TableTypeOK
<1>4. QED
  BY <1>1, <1>2, <1>3 DEF Next, vars, tableVars, TempRequest, RandomRequest,
     PermanentRequest, PermanentCheck, Reclaim, Insert, Abort, CleanupExpired,
     AdminDelete, Tick, PassTime

\* The UNIQUE constraint keeps one row per name.
LEMMA OwnerStep == TypeOK /\ OneOwnerPerName /\ [Next]_vars => OneOwnerPerName'
<1> SUFFICES ASSUME TypeOK, OneOwnerPerName, [Next]_vars PROVE OneOwnerPerName'
  OBVIOUS
<1>1. ASSUME NEW e, NEW k, InsertAddress(e, k) PROVE OneOwnerPerName'
  BY <1>1 DEF InsertAddress, NewRow, RowsOf, OneOwnerPerName
<1>2. ASSUME NEW D, DeleteAddresses(D) PROVE OneOwnerPerName'
  BY <1>2 DEF DeleteAddresses, OneOwnerPerName
<1>3. CASE UNCHANGED addresses
  BY <1>3 DEF OneOwnerPerName
<1>4. QED
  BY <1>1, <1>2, <1>3 DEF Next, vars, tableVars, TempRequest, RandomRequest,
     PermanentRequest, PermanentCheck, Reclaim, Insert, Abort, CleanupExpired,
     AdminDelete, Tick, PassTime

\* The row a handler means to reclaim is expired as long as it exists: a lookup
\* establishes it, time only makes it more so, and an insert uses a new id.
LEMMA VictimsStep == IInv /\ [Next]_vars => VictimsExpired'
<1> SUFFICES ASSUME IInv, [Next]_vars, NEW r \in Requests, req'[r].pc = "reclaim"
             PROVE  /\ req'[r].victim < nextAddress'
                    /\ \A x \in addresses' : x.id = req'[r].victim => IsExpired(x)'
  BY DEF VictimsExpired
<1> USE DEF IInv
<1>1. nextAddress <= nextAddress'
  BY IdsStep
<1>2. clock <= clock' /\ clock' \in Nat
  BY DEF Next, vars, tableVars, TempRequest, RandomRequest, PermanentRequest,
     PermanentCheck, Reclaim, Insert, Abort, CleanupExpired, AdminDelete, Tick,
     PassTime, InsertAddress, DeleteAddresses, TypeOK, TableTypeOK
<1>3. CASE req'[r] = req[r]
  <2>1. req[r].victim < nextAddress /\ req[r].victim \in Nat
    BY <1>3 DEF VictimsExpired, TypeOK, Handler, Idle
  <2>2. \A x \in addresses' : x \in addresses \/ x.id = nextAddress
    BY DEF Next, vars, tableVars, TempRequest, RandomRequest, PermanentRequest,
       PermanentCheck, Reclaim, Insert, Abort, CleanupExpired, AdminDelete, Tick,
       PassTime, InsertAddress, DeleteAddresses, NewRow
  <2>3. ASSUME NEW x \in addresses', x.id = req'[r].victim PROVE IsExpired(x)'
    <3>1. x \in addresses /\ IsExpired(x)
      BY <1>3, <2>1, <2>2, <2>3 DEF VictimsExpired, TypeOK, TableTypeOK
    <3>2. x.expires \in Nat
      BY <3>1 DEF TypeOK, TableTypeOK, Row
    <3>3. QED  BY <1>2, <3>1, <3>2 DEF IsExpired, TypeOK, TableTypeOK
  <2>4. nextAddress \in Nat /\ nextAddress' \in Nat
    BY TypeStep DEF TypeOK, TableTypeOK
  <2>5. QED  BY <1>1, <1>3, <2>1, <2>3, <2>4
<1>4. CASE req'[r] # req[r]
  <2>1. PICK k, e : LookUp(r, k, e) /\ UNCHANGED tableVars
    <3>1. ASSUME NEW q \in Requests, q # r, NEW h, Become(q, h) PROVE FALSE
      BY <1>4, <3>1 DEF Become, TypeOK
    <3>2. ASSUME NEW q \in Requests, NEW k, NEW e, LookUp(q, k, e) PROVE q = r
      BY <3>1, <3>2 DEF LookUp
    <3>3. ASSUME NEW k, NEW e, Become(r, Holding("insert", k, e, 0)) PROVE FALSE
      BY <3>3 DEF Become, Holding, TypeOK
    <3>4. ASSUME NEW k, NEW e, Become(r, Holding("check", k, e, 0)) PROVE FALSE
      BY <3>4 DEF Become, Holding, TypeOK
    <3>5. ASSUME Become(r, Idle) PROVE FALSE
      BY <3>5 DEF Become, Idle, TypeOK
    <3>6. QED
      BY <1>4, <3>1, <3>2, <3>3, <3>4, <3>5 DEF Next, vars, TempRequest,
         RandomRequest, PermanentRequest, PermanentCheck, Reclaim, Insert, Abort,
         CleanupExpired, AdminDelete, Tick
  <2>2. PICK x \in RowsOf(e) :
          IsExpired(x) /\ Become(r, Holding("reclaim", k, e, x.id))
    BY <2>1 DEF LookUp, Become, Holding, TypeOK
  <2>3. req'[r].victim = x.id
    BY <2>2 DEF Become, Holding, TypeOK
  <2>4. QED
    BY <2>1, <2>2, <2>3 DEF RowsOf, IdsFresh, IsExpired, tableVars
<1>5. QED  BY <1>3, <1>4

-----------------------------------------------------------------------------
LEMMA IInvInit == Init => IInv
  BY DEF Init, TableInit, IInv, TypeOK, TableTypeOK, OneOwnerPerName, IdsFresh,
     VictimsExpired, Handler, Idle

LEMMA IInvStep == IInv /\ [Next]_vars => IInv'
  BY TypeStep, IdsStep, OwnerStep, VictimsStep DEF IInv

\* IInv holds in every reachable state.
THEOREM Invariance == Spec => []IInv
  BY IInvInit, IInvStep, PTL DEF Spec

\* The table and the handlers keep their types.
THEOREM TypeCorrect == Spec => []TypeOK
<1>1. IInv => TypeOK  BY DEF IInv
<1>2. QED  BY <1>1, Invariance, PTL

\* However the handlers interleave, a name has one mailbox.
THEOREM OneOwner == Spec => []OneOwnerPerName
<1>1. IInv => OneOwnerPerName  BY DEF IInv
<1>2. QED  BY <1>1, Invariance, PTL

\* Only the administrator removes a mailbox that has not expired.
THEOREM NoEviction == Spec => LiveNotEvicted
<1>1. IInv /\ [Next]_vars =>
        [\A x \in addresses \ addresses' : IsExpired(x) \/ AdminDelete(x)]_vars
  <2> SUFFICES ASSUME IInv, [Next]_vars, NEW x \in addresses \ addresses'
               PROVE  IsExpired(x) \/ AdminDelete(x)
    OBVIOUS
  <2>1. ASSUME NEW r \in Requests, Reclaim(r) PROVE IsExpired(x)
    BY <2>1 DEF Reclaim, DeleteAddresses, IInv, VictimsExpired
  <2>2. ASSUME NEW r \in Requests, Insert(r) PROVE FALSE
    BY <2>2 DEF Insert, InsertAddress, tableVars
  <2>3. CASE CleanupExpired
    BY <2>3 DEF CleanupExpired, DeleteAddresses
  <2>4. ASSUME NEW y \in addresses, AdminDelete(y) PROVE AdminDelete(x)
    <3>1. x = y  BY <2>4 DEF AdminDelete, DeleteAddresses
    <3>2. QED  BY <2>4, <3>1
  <2>5. QED
    BY <2>1, <2>2, <2>3, <2>4 DEF Next, vars, tableVars, TempRequest,
       RandomRequest, PermanentRequest, PermanentCheck, Abort, Tick, PassTime
<1>2. QED  BY <1>1, Invariance, PTL DEF Spec, LiveNotEvicted

-----------------------------------------------------------------------------
(***************************************************************************)
(* The cap.  Counting needs the table to be finite.                         *)
(***************************************************************************)
CapInv == TypeOK /\ IsFiniteSet(addresses) /\ CapOvershoot

\* Every step but a passed count and an insert only shrinks the two sets.
LEMMA OnlyCountAndInsertGrow ==
  ASSUME TypeOK, [Next]_vars,
         \A r \in Requests, e \in Names : ~PermanentRequest(r, e),
         \A r \in Requests : ~Insert(r)
  PROVE  addresses' \subseteq addresses /\ Promised' \subseteq Promised
<1>1. addresses' \subseteq addresses
  BY DEF Next, vars, tableVars, TempRequest, RandomRequest, PermanentCheck,
     Reclaim, Abort, CleanupExpired, AdminDelete, Tick, PassTime, DeleteAddresses
<1>2. SUFFICES ASSUME NEW r \in Promised' PROVE r \in Promised
  BY <1>1
<1>3. r \in Requests  BY DEF Promised
<1>4. CASE req'[r] = req[r]
  BY <1>3, <1>4 DEF Promised
<1>5. CASE req'[r] # req[r]
  <2>1. ASSUME NEW q \in Requests, NEW h, Become(q, h)
        PROVE  q = r /\ req'[r] = h
    BY <1>3, <1>5, <2>1 DEF Become, TypeOK
  <2>2. req'[r].pc # "idle" /\ req'[r].kind = "permanent"
    BY DEF Promised
  <2>3. ASSUME NEW q \in Requests, NEW e, LookUp(q, "temp", e) PROVE FALSE
    <3>1. ASSUME NEW p, NEW i, Become(q, Holding(p, "temp", e, i)) PROVE FALSE
      BY <2>1, <2>2, <3>1 DEF Holding
    <3>2. QED  BY <2>3, <3>1 DEF LookUp
  <2>4. ASSUME NEW q \in Requests, NEW e, RandomRequest(q, e) PROVE FALSE
    BY <2>1, <2>2, <2>4 DEF RandomRequest, Holding
  <2>5. ASSUME NEW q \in Requests, PermanentCheck(q) PROVE r \in Promised
    <3>1. q = r  BY <2>1, <2>5 DEF PermanentCheck, LookUp
    <3>2. req[r].pc = "check"  BY <2>5, <3>1 DEF PermanentCheck
    <3>3. req[r].kind = "permanent"
      BY <1>3, <3>2 DEF TypeOK, Handler, Idle
    <3>4. QED  BY <1>3, <3>2, <3>3 DEF Promised
  <2>6. ASSUME NEW q \in Requests, Reclaim(q) PROVE r \in Promised
    BY <1>3, <2>1, <2>2, <2>6 DEF Reclaim, Holding, Promised
  <2>7. ASSUME NEW q \in Requests, Abort(q) PROVE FALSE
    BY <2>1, <2>2, <2>7 DEF Abort, Idle
  <2>8. QED
    BY <1>5, <2>3, <2>4, <2>5, <2>6, <2>7 DEF Next, vars, TempRequest,
       CleanupExpired, AdminDelete, Tick
<1>6. QED  BY <1>4, <1>5

\* A state whose two sets are no larger than before respects the bound.
LEMMA SmallerIsFine ==
  ASSUME CapInv, IsFiniteSet(addresses'),
         Permanents' \subseteq Permanents, Promised' \subseteq Promised
  PROVE  CapOvershoot'
<1>1. IsFiniteSet(Permanents) /\ IsFiniteSet(Promised)
  BY FS_Subset, BookAssumption DEF CapInv, Permanents, Promised
<1>2. /\ Cardinality(Permanents') <= Cardinality(Permanents)
      /\ Cardinality(Promised') <= Cardinality(Promised)
      /\ IsFiniteSet(Permanents') /\ IsFiniteSet(Promised')
  BY <1>1, FS_Subset
<1>3. /\ Cardinality(Permanents) \in Nat /\ Cardinality(Promised) \in Nat
      /\ Cardinality(Permanents') \in Nat /\ Cardinality(Promised') \in Nat
      /\ Cardinality(Requests) \in Nat
  BY <1>1, <1>2, FS_CardinalityType, BookAssumption
<1>4. QED  BY <1>2, <1>3, BookAssumption DEF CapInv, CapOvershoot

\* The bound is kept by every step: a passed count adds at most the handlers
\* that exist, an insert moves one handler's promise into the table.
LEMMA CapStep == CapInv /\ [Next]_vars => CapInv'
<1> SUFFICES ASSUME CapInv, [Next]_vars PROVE CapInv'
  OBVIOUS
<1>1. TypeOK /\ TypeOK' /\ IsFiniteSet(addresses)
  BY TypeStep DEF CapInv
<1>2. IsFiniteSet(addresses')
  <2>1. ASSUME NEW e, NEW k, InsertAddress(e, k) PROVE IsFiniteSet(addresses')
    BY <1>1, <2>1, FS_AddElement DEF InsertAddress
  <2>2. ASSUME addresses' \subseteq addresses PROVE IsFiniteSet(addresses')
    BY <1>1, <2>2, FS_Subset
  <2>3. QED
    BY <2>1, <2>2 DEF Next, vars, tableVars, TempRequest, RandomRequest,
       PermanentRequest, PermanentCheck, Reclaim, Insert, Abort, CleanupExpired,
       AdminDelete, Tick, PassTime, DeleteAddresses
<1>3. IsFiniteSet(Promised) /\ IsFiniteSet(Permanents) /\ IsFiniteSet(Requests)
      /\ Cardinality(Requests) \in Nat
  BY <1>1, FS_Subset, FS_CardinalityType, BookAssumption
     DEF Promised, Permanents
<1>4. ASSUME NEW r \in Requests, NEW e \in Names, PermanentRequest(r, e)
      PROVE  CapOvershoot'
  <2>1. Permanents' = Permanents
    BY <1>4 DEF PermanentRequest, tableVars, Permanents
  <2>2. MaxPermanent > 0 => Cardinality(Permanents) < MaxPermanent
    BY <1>4, BookAssumption DEF PermanentRequest, CapAllows
  <2>3. Promised' \subseteq Requests  BY DEF Promised
  <2>4. Cardinality(Promised') <= Cardinality(Requests)
        /\ Cardinality(Promised') \in Nat
    BY <1>3, <2>3, FS_Subset, FS_CardinalityType
  <2>5. Cardinality(Permanents) \in Nat
    BY <1>3, FS_CardinalityType
  <2>6. QED
    BY <1>3, <2>1, <2>2, <2>4, <2>5, BookAssumption DEF CapOvershoot
<1>5. ASSUME NEW r \in Requests, Insert(r) PROVE CapOvershoot'
  <2>1. Promised' = Promised \ {r}
    BY <1>1, <1>5 DEF Insert, Become, Promised, Idle, TypeOK
  <2>2. CASE UNCHANGED addresses
    BY <1>2, <2>1, <2>2, SmallerIsFine DEF Permanents
  <2>3. CASE InsertAddress(req[r].email, req[r].kind) /\ req[r].kind = "permanent"
    <3>1. Permanents' = Permanents \union {NewRow(req[r].email, "permanent")}
      BY <2>3 DEF InsertAddress, NewRow, Permanents
    <3>2. Cardinality(Permanents') <= Cardinality(Permanents) + 1
          /\ Cardinality(Permanents') \in Nat /\ Cardinality(Permanents) \in Nat
      <4> DEFINE row == NewRow(req[r].email, "permanent")
      <4>1. IsFiniteSet(Permanents \union {row})
            /\ Cardinality(Permanents \union {row}) =
                 IF row \in Permanents THEN Cardinality(Permanents)
                                       ELSE Cardinality(Permanents) + 1
        BY <1>3, FS_AddElement
      <4>2. Cardinality(Permanents) \in Nat
        BY <1>3, FS_CardinalityType
      <4>3. QED  BY <3>1, <4>1, <4>2
    <3>3. r \in Promised  BY <1>5, <2>3 DEF Insert, Promised
    <3>4. Cardinality(Promised') = Cardinality(Promised) - 1
          /\ Cardinality(Promised) \in Nat /\ Cardinality(Promised') \in Nat
      BY <1>3, <2>1, <3>3, FS_RemoveElement, FS_CardinalityType
    <3>5. QED
      BY <1>3, <3>2, <3>4, BookAssumption DEF CapInv, CapOvershoot
  <2>4. CASE InsertAddress(req[r].email, req[r].kind) /\ req[r].kind # "permanent"
    <3>1. Permanents' = Permanents
      BY <2>4 DEF InsertAddress, NewRow, Permanents
    <3>2. QED  BY <1>2, <2>1, <3>1, SmallerIsFine
  <2>5. QED  BY <1>5, <2>2, <2>3, <2>4 DEF Insert, tableVars
<1>6. ASSUME \A r \in Requests, e \in Names : ~PermanentRequest(r, e),
             \A r \in Requests : ~Insert(r)
      PROVE  CapOvershoot'
  <2>1. Permanents' \subseteq Permanents /\ Promised' \subseteq Promised
    BY <1>1, <1>6, OnlyCountAndInsertGrow DEF Permanents
  <2>2. QED  BY <1>2, <2>1, SmallerIsFine
<1>7. QED  BY <1>1, <1>2, <1>4, <1>5, <1>6 DEF CapInv

\* However many mailboxes are requested at once, the table never holds more
\* permanent ones than the cap plus the concurrent handlers but one.
THEOREM BoundedOvershoot == Spec => []CapOvershoot
<1>1. Init => CapInv
  <2> SUFFICES ASSUME Init PROVE CapInv
    OBVIOUS
  <2>1. IInv  BY IInvInit
  <2>2. Permanents = {} /\ Promised = {} /\ addresses = {}
    BY DEF Init, TableInit, Permanents, Promised, Idle
  <2>3. Cardinality(Requests) \in Nat /\ Cardinality(Requests) # 0
    BY FS_CardinalityType, FS_EmptySet, BookAssumption
  <2>4. QED
    BY <2>1, <2>2, <2>3, FS_EmptySet, BookAssumption
       DEF IInv, CapInv, CapOvershoot
<1>2. CapInv => CapOvershoot  BY DEF CapInv
<1>3. QED  BY <1>1, <1>2, CapStep, PTL DEF Spec

-----------------------------------------------------------------------------
\* Every step of a handler is a step of the registry or none at all: the
\* lookups are invisible, an insert is the claim, and a reclaim releases a row
\* that has expired.
THEOREM ImplementsRegistry == Spec => RegistrySpec
<1>1. Init => Registry!TableInit
  BY DEF Init, TableInit, Registry!TableInit
<1>2. IInv /\ [Next]_vars => [Registry!Next]_(Registry!tableVars)
  <2> SUFFICES ASSUME IInv, Next
               PROVE  Registry!Next \/ UNCHANGED tableVars
    BY DEF vars, tableVars, Registry!tableVars
  <2>1. ASSUME NEW D, DeleteAddresses(D), \A x \in addresses \cap D : IsExpired(x)
        PROVE  Registry!Next
    <3>1. Registry!DeleteAddresses(addresses \cap D)
      BY <2>1 DEF DeleteAddresses, Registry!DeleteAddresses
    <3>2. addresses \cap D \in SUBSET {x \in addresses : Registry!IsExpired(x)}
      BY <2>1 DEF IsExpired, Registry!IsExpired
    <3>3. QED  BY <3>1, <3>2 DEF Registry!Next, Registry!Release
  <2>2. ASSUME NEW r \in Requests, Insert(r)
        PROVE  Registry!Next \/ UNCHANGED tableVars
    <3>1. req[r].email \in Names /\ req[r].kind \in {"temp", "permanent"}
      BY <2>2 DEF Insert, IInv, TypeOK, Handler, Idle
    <3>2. QED
      BY <2>2, <3>1 DEF Insert, InsertAddress, Registry!InsertAddress, NewRow,
         Registry!NewRow, RowsOf, Registry!RowsOf, Registry!Claim, Registry!Next
  <2>3. ASSUME NEW r \in Requests, Reclaim(r) PROVE Registry!Next
    BY <2>1, <2>3 DEF Reclaim, IInv, VictimsExpired
  <2>4. ASSUME CleanupExpired PROVE Registry!Next
    BY <2>1, <2>4 DEF CleanupExpired
  <2>5. ASSUME NEW x \in addresses, AdminDelete(x) PROVE Registry!Next
    BY <2>5 DEF AdminDelete, DeleteAddresses, Registry!DeleteAddresses,
       Registry!Revoke, Registry!Next
  <2>6. ASSUME Tick PROVE Registry!Next
    BY <2>6 DEF Tick, PassTime, Registry!PassTime, Registry!Next
  <2>7. QED
    BY <2>2, <2>3, <2>4, <2>5, <2>6 DEF Next, TempRequest, RandomRequest,
       PermanentRequest, PermanentCheck, Abort, tableVars
<1>3. QED  BY <1>1, <1>2, Invariance, PTL DEF Spec, RegistrySpec, Registry!Spec
=============================================================================
