--------------------------- MODULE MailStoreProofs --------------------------
(***************************************************************************)
(* Proofs about MailStore, for every set of names, sessions and sizes and   *)
(* every bound.                                                             *)
(***************************************************************************)
EXTENDS MailStore, TLAPS, FiniteSetTheorems

-----------------------------------------------------------------------------
(* Types.                                                                   *)

\* Typing of the statements of AddressTable.
LEMMA TableTyping ==
  ASSUME TableTypeOK
  PROVE  /\ \A e \in Names, k \in {"temp", "permanent"} :
              InsertAddress(e, k) => TableTypeOK'
         /\ \A D : DeleteAddresses(D) => TableTypeOK'
         /\ PassTime => TableTypeOK'
         /\ UNCHANGED tableVars => TableTypeOK'
  BY TableAssumption DEF TableTypeOK, InsertAddress, NewRow, Row,
     DeleteAddresses, PassTime, tableVars

\* The rows a delete leaves are rows.
MailTypeOK == emails \subseteq Email /\ links \subseteq Link /\ nextEmail \in Nat \ {0}

LEMMA DeleteTyping ==
  ASSUME MailTypeOK
  PROVE  /\ \A L : DeleteLinks(L) => MailTypeOK'
         /\ \A E : DeleteEmails(E) => MailTypeOK'
         /\ UNCHANGED mailVars => MailTypeOK'
  BY DEF MailTypeOK, DeleteLinks, DeleteEmails, mailVars

\* What the SMTP handlers make of a session is a session.
LEMMA SessionTyping ==
  /\ NoMail \in Session
  /\ [NoMail EXCEPT !.pc = "rcpt"] \in Session
  /\ \A x \in Session, e \in Names : [x EXCEPT !.to = Append(@, e)] \in Session
  /\ \A x \in Session, z \in Sizes, a \in Nat, r \in Nat :
       [x EXCEPT !.pc = "store", !.next = 1, !.size = z, !.attempt = a,
                 !.received = r] \in Session
  /\ \A x \in Session, i \in Nat :
       [x EXCEPT !.pc = "link", !.found = i] \in Session
  /\ \A x \in Session :
       [x EXCEPT !.pc = "store", !.next = @ + 1, !.found = 0] \in Session
<1>1. NoMail \in Session
  BY DEF NoMail, Session
<1>2. [NoMail EXCEPT !.pc = "rcpt"] \in Session
  <2>1. \A x \in Session : [x EXCEPT !.pc = "rcpt"] \in Session
    BY DEF Session
  <2>2. QED  BY <1>1, <2>1
<1>3. \A x \in Session, e \in Names : [x EXCEPT !.to = Append(@, e)] \in Session
  <2>1. \A x \in Session, q \in Seq(Names) : [x EXCEPT !.to = q] \in Session
    BY DEF Session
  <2>2. \A x \in Session, e \in Names : Append(x.to, e) \in Seq(Names)
    BY DEF Session
  <2>3. QED  BY <2>1, <2>2
<1>4. \A x \in Session, z \in Sizes, a \in Nat, r \in Nat :
       [x EXCEPT !.pc = "store", !.next = 1, !.size = z, !.attempt = a,
                 !.received = r] \in Session
  BY DEF Session
<1>5. \A x \in Session, i \in Nat :
       [x EXCEPT !.pc = "link", !.found = i] \in Session
  BY DEF Session
<1>6. \A x \in Session :
       [x EXCEPT !.pc = "store", !.next = @ + 1, !.found = 0] \in Session
  <2>1. \A x \in Session, n \in Nat :
          [x EXCEPT !.pc = "store", !.next = n, !.found = 0] \in Session
    BY DEF Session
  <2>2. \A x \in Session : x.next + 1 \in Nat
    BY DEF Session
  <2>3. QED  BY <2>1, <2>2
<1>7. QED  BY <1>1, <1>2, <1>3, <1>4, <1>5, <1>6

\* A session that is storing a message has a recipient to store it for.
Delivering(s) == session[s].pc \in {"store", "link"}

Ready ==
  \A s \in Sessions : Delivering(s) =>
    /\ session[s].next \in 1..Len(session[s].to)
    /\ session[s].size \in Sizes

\* Types are inductive together with Ready.
TInv == TypeOK /\ Ready

\* A session that becomes x is well typed and ready if x is.
LEMMA BecomeReady ==
  ASSUME TInv, NEW s \in Sessions, NEW x \in Session, Become(s, x),
         x.pc \in {"store", "link"} => x.next \in 1..Len(x.to) /\ x.size \in Sizes
  PROVE  session' \in [Sessions -> Session] /\ Ready'
<1>1. session' \in [Sessions -> Session]
  BY DEF TInv, TypeOK, Become
<1>2. ASSUME NEW t \in Sessions, Delivering(t)'
      PROVE  session'[t].next \in 1..Len(session'[t].to) /\ session'[t].size \in Sizes
  BY <1>2 DEF TInv, TypeOK, Become, Ready, Delivering
<1>3. QED  BY <1>1, <1>2 DEF Ready

LEMMA TypeStep == TInv /\ [Next]_vars => TInv'
<1> SUFFICES ASSUME TInv, [Next]_vars PROVE TInv'
  OBVIOUS
<1> USE DEF TInv
<1>0. /\ TableTypeOK /\ MailTypeOK /\ Ready
      /\ session \in [Sessions -> Session]
      /\ nextAttempt \in Nat \ {0} /\ enforcing \subseteq Nat /\ faults \in Nat
      /\ lost \subseteq Nat /\ stored \subseteq Nat \X Names
      /\ acked \subseteq [attempt : Nat, to : Seq(Names)]
  BY DEF TypeOK, MailTypeOK
<1>a. ASSUME TableTypeOK', MailTypeOK', UNCHANGED <<session, nextAttempt, jobVars, logVars>>
      PROVE  TInv'
  BY <1>0, <1>a DEF TypeOK, MailTypeOK, jobVars, logVars, Ready, Delivering
<1>b. ASSUME UNCHANGED <<tableVars, mailVars, nextAttempt, jobVars, logVars>>,
             session' \in [Sessions -> Session], Ready'
      PROVE  TInv'
  BY <1>0, <1>b DEF TypeOK, MailTypeOK, TableTypeOK, tableVars, mailVars, jobVars, logVars
<1>c. ASSUME NEW s \in Sessions, Become(s, NoMail)
      PROVE  session' \in [Sessions -> Session] /\ Ready'
  BY <1>c, SessionTyping, BecomeReady DEF NoMail
<1>1. ASSUME NEW s \in Sessions, Mail(s) PROVE TInv'
  <2> DEFINE x == [NoMail EXCEPT !.pc = "rcpt"]
  <2>1. x \in Session /\ x.pc = "rcpt"
    BY SessionTyping DEF NoMail
  <2>2. QED  BY <1>1, <1>b, <2>1, BecomeReady DEF Mail
<1>2. ASSUME NEW s \in Sessions, NEW e \in Names, Rcpt(s, e) PROVE TInv'
  <2> DEFINE x == [session[s] EXCEPT !.to = Append(@, e)]
  <2>1. session[s] \in Session /\ session[s].pc = "rcpt"
    BY <1>0, <1>2 DEF Rcpt
  <2>2. x \in Session
    BY <2>1, SessionTyping
  <2>3. x.pc = "rcpt"
    BY <2>1 DEF Session
  <2>4. QED  BY <1>2, <1>b, <2>2, <2>3, BecomeReady DEF Rcpt
<1>3. ASSUME NEW s \in Sessions, NEW z \in Sizes, Data(s, z) PROVE TInv'
  <2> DEFINE x == [session[s] EXCEPT !.pc = "store", !.next = 1, !.size = z,
                     !.attempt = nextAttempt, !.received = clock]
  <2>1. session[s] \in Session /\ clock \in Nat /\ nextAttempt \in Nat
    BY <1>0 DEF TableTypeOK
  <2>2. x \in Session
    BY <2>1, SessionTyping
  <2>3. x.next = 1 /\ x.to = session[s].to /\ x.size = z
    BY <2>1 DEF Session
  <2>4. x.to \in Seq(Names) /\ x.to # <<>>
    BY <1>3, <2>1, <2>3 DEF Data, Session
  <2>5. x.next \in 1..Len(x.to)
    BY <2>3, <2>4
  <2>6. session' \in [Sessions -> Session] /\ Ready'
    BY <1>3, <2>2, <2>3, <2>5, BecomeReady DEF Data
  <2>7. QED
    BY <1>0, <1>3, <2>6 DEF Data, TypeOK, MailTypeOK, TableTypeOK, tableVars, mailVars,
       jobVars, logVars
<1>4. ASSUME NEW s \in Sessions, StoreSelect(s) PROVE TInv'
  <2>1. PICK row \in RowsOf(session[s].to[session[s].next]) :
          Become(s, [session[s] EXCEPT !.pc = "link", !.found = row.id])
    BY <1>4 DEF StoreSelect
  <2> DEFINE x == [session[s] EXCEPT !.pc = "link", !.found = row.id]
  <2>2. row.id \in Nat /\ session[s] \in Session
    BY <1>0, <2>1 DEF RowsOf, TableTypeOK, Row
  <2>3. x \in Session
    BY <2>2, SessionTyping
  <2>4. x.next = session[s].next /\ x.to = session[s].to /\ x.size = session[s].size
    BY <2>2 DEF Session
  <2>5. x.next \in 1..Len(x.to) /\ x.size \in Sizes
    BY <1>0, <1>4, <2>4 DEF StoreSelect, Ready, Delivering
  <2>6. QED  BY <1>4, <1>b, <2>1, <2>3, <2>5, BecomeReady DEF StoreSelect
<1>5. ASSUME NEW s \in Sessions, StoreCommit(s) PROVE TInv'
  <2> DEFINE x == session[s]
             recipient == x.to[x.next]
             y == [x EXCEPT !.pc = "store", !.next = @ + 1, !.found = 0]
             mail == [id |-> nextEmail, to |-> recipient, attempt |-> x.attempt,
                      received |-> x.received, size |-> x.size]
  <2>1. /\ x \in Session /\ x.to \in Seq(Names) /\ x.next \in Nat
        /\ x.attempt \in Nat /\ x.received \in Nat /\ x.found \in Nat
    BY <1>0 DEF Session
  <2>2. x.next \in 1..Len(x.to) /\ x.size \in Sizes /\ recipient \in Names
    BY <1>0, <1>5, <2>1 DEF StoreCommit, CommitStarting, Ready, Delivering
  <2>3. mail \in Email
    BY <1>0, <2>1, <2>2 DEF Email, MailTypeOK
  <2>4. MailTypeOK'
    BY <1>0, <1>5, <2>1, <2>3 DEF StoreCommit, CommitStarting, MailTypeOK, Link
  <2>5. TableTypeOK'
    BY <1>0, <1>5, TableTyping DEF StoreCommit, CommitStarting
  <2>6. session' \in [Sessions -> Session] /\ Ready'
    <3>1. CASE x.next = Len(x.to)
      BY <1>5, <1>c, <3>1 DEF StoreCommit, CommitStarting
    <3>2. CASE x.next # Len(x.to)
      <4>1. y \in Session
        BY <2>1, SessionTyping
      <4>2. y.next = x.next + 1 /\ y.to = x.to /\ y.size = x.size
        BY <2>1 DEF Session
      <4>3. y.next \in 1..Len(y.to)
        BY <2>1, <2>2, <3>2, <4>2
      <4>4. QED
        BY <1>5, <2>2, <3>2, <4>1, <4>2, <4>3, BecomeReady DEF StoreCommit, CommitStarting
    <3>3. QED  BY <3>1, <3>2
  <2>7. /\ nextAttempt' \in Nat \ {0} /\ enforcing' \subseteq Nat /\ faults' \in Nat
        /\ lost' \subseteq Nat /\ stored' \subseteq Nat \X Names
    BY <1>0, <1>5, <2>1, <2>2 DEF StoreCommit, CommitStarting
  <2>8. acked' \subseteq [attempt : Nat, to : Seq(Names)]
    BY <1>0, <1>5, <2>1 DEF StoreCommit, CommitStarting
  <2>9. QED  BY <2>4, <2>5, <2>6, <2>7, <2>8 DEF TypeOK, MailTypeOK
<1>6. ASSUME NEW s \in Sessions, Reset(s) \/ StoreFails(s) PROVE TInv'
  BY <1>6, <1>b, <1>c DEF Reset, StoreFails
<1>7. ASSUME MxCrash PROVE TInv'
  <2>1. session' \in [Sessions -> Session] /\ Ready'
    BY <1>7, SessionTyping DEF MxCrash, Ready, Delivering, NoMail
  <2>2. QED
    BY <1>0, <1>7, <2>1 DEF MxCrash, TypeOK, MailTypeOK, TableTypeOK, tableVars, mailVars, logVars
<1>8. ASSUME NEW i \in enforcing, EnforceEmailLimit(i) \/ EnforceFails(i) PROVE TInv'
  <2>1. MailTypeOK'
    BY <1>0, <1>8, DeleteTyping DEF EnforceEmailLimit, EnforceFails
  <2>2. TableTypeOK'
    BY <1>0, <1>8, TableTyping DEF EnforceEmailLimit, EnforceFails
  <2>3. UNCHANGED <<session, nextAttempt, logVars>>
    BY <1>8 DEF EnforceEmailLimit, EnforceFails
  <2>4. enforcing' \subseteq Nat /\ faults' \in Nat /\ lost' \subseteq Nat
    <3>1. i \in Nat /\ faults + 1 \in Nat
      BY <1>0
    <3>2. CASE EnforceEmailLimit(i)
      BY <1>0, <3>2 DEF EnforceEmailLimit
    <3>3. CASE EnforceFails(i)
      BY <1>0, <3>1, <3>3 DEF EnforceFails
    <3>4. QED  BY <1>8, <3>2, <3>3
  <2>5. QED
    BY <1>0, <2>1, <2>2, <2>3, <2>4 DEF TypeOK, MailTypeOK, logVars, Ready, Delivering
<1>9. ASSUME Cleanup \/ Api \/ Tick PROVE TInv'
  <2>1. UNCHANGED <<session, nextAttempt, jobVars, logVars>>
    BY <1>9 DEF Cleanup, CleanupExpired, EnforceStorageLimit, CleanupRetention, Api,
       Claim, Reclaim, AdminDeleteAddress, PurgeMailbox, OwnerDelete, AdminDeleteEmail, Tick
  <2>2. TableTypeOK'
    BY <1>0, <1>9, TableTyping DEF Cleanup, CleanupExpired, EnforceStorageLimit,
       CleanupRetention, Api, Claim, Reclaim, AdminDeleteAddress, PurgeMailbox, OwnerDelete,
       AdminDeleteEmail, Tick, DropAddresses
  <2>3. MailTypeOK'
    <3>1. ASSUME NEW y, PurgeMailbox(y) PROVE MailTypeOK'
      BY <1>0, <3>1 DEF PurgeMailbox, MailTypeOK
    <3>2. QED
      BY <1>0, <1>9, <3>1, DeleteTyping DEF Cleanup, CleanupExpired, EnforceStorageLimit,
         CleanupRetention, Api, Claim, Reclaim, AdminDeleteAddress, OwnerDelete,
         AdminDeleteEmail, Tick, DropAddresses
  <2>4. QED  BY <1>a, <2>1, <2>2, <2>3
<1>10. CASE UNCHANGED vars
  BY <1>0, <1>10, <1>b DEF vars, Ready, Delivering
<1>11. QED
  BY <1>1, <1>2, <1>3, <1>4, <1>5, <1>6, <1>7, <1>8, <1>9, <1>10 DEF Next, Smtp

-----------------------------------------------------------------------------
(* Integrity.                                                               *)

\* What a step does to the tables: one of six statements, or none of them.
LEMMA Statements ==
  ASSUME [Next]_vars
  PROVE  \/ \E D : DropAddresses(D) /\ UNCHANGED <<session, nextAttempt, logVars>>
         \/ \E L : DeleteLinks(L) /\ UNCHANGED <<tableVars, session, nextAttempt, logVars>>
         \/ \E E \in SUBSET emails : DeleteEmails(E) /\ UNCHANGED <<tableVars, session, nextAttempt, logVars>>
         \/ \E y \in addresses : PurgeMailbox(y)
         \/ \E e, k : InsertAddress(e, k) /\ UNCHANGED <<mailVars, session, nextAttempt, logVars>>
         \/ \E s \in Sessions : StoreCommit(s)
         \/ UNCHANGED <<addresses, nextAddress, mailVars, logVars>>
<1>1. ASSUME NEW s \in Sessions,
             Mail(s) \/ Reset(s) \/ StoreSelect(s) \/ StoreFails(s)
               \/ (\E e \in Names : Rcpt(s, e)) \/ (\E z \in Sizes : Data(s, z))
      PROVE  UNCHANGED <<addresses, nextAddress, mailVars, logVars>>
  BY <1>1 DEF Mail, Reset, StoreSelect, StoreFails, Rcpt, Data, tableVars
<1>2. ASSUME MxCrash \/ Tick \/ UNCHANGED vars \/ (\E i \in enforcing : EnforceFails(i))
      PROVE  UNCHANGED <<addresses, nextAddress, mailVars, logVars>>
  BY <1>2 DEF MxCrash, Tick, PassTime, vars, EnforceFails, tableVars
<1>3. ASSUME NEW i \in enforcing, EnforceEmailLimit(i)
      PROVE  \E L : DeleteLinks(L) /\ UNCHANGED <<tableVars, session, nextAttempt, logVars>>
  BY <1>3 DEF EnforceEmailLimit
<1>4. ASSUME Cleanup
      PROVE  \/ \E D : DropAddresses(D) /\ UNCHANGED <<session, nextAttempt, logVars>>
             \/ \E L : DeleteLinks(L) /\ UNCHANGED <<tableVars, session, nextAttempt, logVars>>
             \/ \E E \in SUBSET emails : DeleteEmails(E) /\ UNCHANGED <<tableVars, session, nextAttempt, logVars>>
  <2>1. ASSUME EnforceStorageLimit
        PROVE  \E E \in SUBSET emails :
                 DeleteEmails(E) /\ UNCHANGED <<tableVars, session, nextAttempt, logVars>>
    <3> DEFINE E == {m \in emails :
                      Usage({n \in emails : n = m \/ Newer(n, m)}) > MaxStorage}
    <3>1. E \in SUBSET emails
      OBVIOUS
    <3>2. DeleteEmails(E) /\ UNCHANGED <<tableVars, session, nextAttempt, logVars>>
      BY <2>1 DEF EnforceStorageLimit
    <3> HIDE DEF E
    <3>3. QED  BY <3>1, <3>2
  <2>2. QED
    BY <1>4, <2>1 DEF Cleanup, CleanupExpired, CleanupRetention
<1>5. ASSUME Api
      PROVE  \/ \E D : DropAddresses(D) /\ UNCHANGED <<session, nextAttempt, logVars>>
             \/ \E L : DeleteLinks(L) /\ UNCHANGED <<tableVars, session, nextAttempt, logVars>>
             \/ \E E \in SUBSET emails : DeleteEmails(E) /\ UNCHANGED <<tableVars, session, nextAttempt, logVars>>
             \/ \E y \in addresses : PurgeMailbox(y)
             \/ \E e, k : InsertAddress(e, k) /\ UNCHANGED <<mailVars, session, nextAttempt, logVars>>
  <2>1. ASSUME NEW m \in emails, AdminDeleteEmail(m)
        PROVE  \E E \in SUBSET emails :
                 DeleteEmails(E) /\ UNCHANGED <<tableVars, session, nextAttempt, logVars>>
    BY <2>1, {m} \in SUBSET emails DEF AdminDeleteEmail
  <2>2. QED
    BY <1>5, <2>1 DEF Api, Claim, Reclaim, AdminDeleteAddress, OwnerDelete
<1>6. QED  BY <1>1, <1>2, <1>3, <1>4, <1>5 DEF Next, Smtp

\* Ids come from counters: below them, and each used once.
IdsFresh ==
  /\ \A x \in addresses : x.id < nextAddress
  /\ \A x, y \in addresses : x.id = y.id => x = y
  /\ \A m \in emails : m.id < nextEmail
  /\ \A m, n \in emails : m.id = n.id => m = n

LEMMA IdsStep == TInv /\ IdsFresh /\ [Next]_vars => IdsFresh'
<1> SUFFICES ASSUME TInv, IdsFresh, [Next]_vars PROVE IdsFresh'
  OBVIOUS
<1>0. /\ addresses \subseteq Row /\ nextAddress \in Nat
      /\ emails \subseteq Email /\ nextEmail \in Nat
  BY DEF TInv, TypeOK, TableTypeOK
<1>1. ASSUME NEW D, DropAddresses(D) PROVE IdsFresh'
  BY <1>1 DEF DropAddresses, DeleteAddresses, DeleteLinks, IdsFresh
<1>2. ASSUME NEW L, DeleteLinks(L), UNCHANGED tableVars PROVE IdsFresh'
  BY <1>2 DEF DeleteLinks, tableVars, IdsFresh
<1>3. ASSUME NEW E \in SUBSET emails, DeleteEmails(E), UNCHANGED tableVars PROVE IdsFresh'
  BY <1>3 DEF DeleteEmails, tableVars, IdsFresh
<1>4. ASSUME NEW y, PurgeMailbox(y) PROVE IdsFresh'
  BY <1>4 DEF PurgeMailbox, tableVars, IdsFresh
<1>5. ASSUME NEW e, NEW k, InsertAddress(e, k), UNCHANGED mailVars PROVE IdsFresh'
  BY <1>0, <1>5 DEF InsertAddress, NewRow, mailVars, IdsFresh, Row
<1>6. ASSUME NEW s \in Sessions, StoreCommit(s) PROVE IdsFresh'
  BY <1>0, <1>6 DEF StoreCommit, CommitStarting, tableVars, IdsFresh, Email
<1>7. CASE UNCHANGED <<addresses, nextAddress, mailVars>>
  BY <1>7 DEF mailVars, IdsFresh
<1>8. QED
  BY <1>1, <1>2, <1>3, <1>4, <1>5, <1>6, <1>7, Statements

\* Every delete takes the messages of the links it takes, and no others.
LEMMA DeleteKeepsIntegrity ==
  ASSUME Integrity, IdsFresh
  PROVE  /\ \A L : DeleteLinks(L)
                     /\ (\A l \in links \ L : \E x \in addresses' : x.id = l.address)
                   => Integrity'
         /\ \A E \in SUBSET emails : DeleteEmails(E) /\ UNCHANGED addresses => Integrity'
         /\ \A y : PurgeMailbox(y) => Integrity'
<1>1. ASSUME NEW L, DeleteLinks(L),
             \A l \in links \ L : \E x \in addresses' : x.id = l.address
      PROVE  Integrity'
  <2>1. ASSUME NEW m \in emails' PROVE \E l \in links' : l.email = m.id
    BY <1>1, <2>1 DEF DeleteLinks, IsLinked, Integrity
  <2>2. ASSUME NEW l \in links' PROVE \E m \in emails' : m.id = l.email
    BY <1>1, <2>2 DEF DeleteLinks, IsLinked, Integrity
  <2>3. QED  BY <1>1, <2>1, <2>2 DEF DeleteLinks, Integrity
<1>2. ASSUME NEW E \in SUBSET emails, DeleteEmails(E), UNCHANGED addresses PROVE Integrity'
  <2>1. ASSUME NEW m \in emails' PROVE \E l \in links' : l.email = m.id
    <3>1. PICK l \in links : l.email = m.id
      BY <1>2, <2>1 DEF DeleteEmails, Integrity
    <3>2. \A n \in E : n.id # l.email
      BY <1>2, <2>1, <3>1 DEF DeleteEmails, IdsFresh
    <3>3. QED  BY <1>2, <3>1, <3>2 DEF DeleteEmails
  <2>2. ASSUME NEW l \in links' PROVE \E m \in emails' : m.id = l.email
    BY <1>2, <2>2 DEF DeleteEmails, Integrity
  <2>3. QED  BY <1>2, <2>1, <2>2 DEF DeleteEmails, Integrity
<1>3. ASSUME NEW y, PurgeMailbox(y) PROVE Integrity'
  BY <1>3 DEF PurgeMailbox, IsLinked, tableVars, Integrity
<1>4. QED  BY <1>1, <1>2, <1>3

LEMMA IntegrityStep == TInv /\ IdsFresh /\ Integrity /\ [Next]_vars => Integrity'
<1> SUFFICES ASSUME TInv, IdsFresh, Integrity, [Next]_vars PROVE Integrity'
  OBVIOUS
<1>1. ASSUME NEW D, DropAddresses(D) PROVE Integrity'
  <2> DEFINE L == {l \in links : \E x \in D : x.id = l.address}
  <2>1. \A l \in links \ L : \E x \in addresses' : x.id = l.address
    BY <1>1 DEF DropAddresses, DeleteAddresses, Integrity
  <2>2. QED  BY <1>1, <2>1, DeleteKeepsIntegrity DEF DropAddresses
<1>2. ASSUME NEW L, DeleteLinks(L), UNCHANGED tableVars PROVE Integrity'
  BY <1>2, DeleteKeepsIntegrity DEF tableVars, Integrity
<1>3. ASSUME NEW E \in SUBSET emails, DeleteEmails(E), UNCHANGED tableVars PROVE Integrity'
  BY <1>3, DeleteKeepsIntegrity DEF tableVars
<1>4. ASSUME NEW y, PurgeMailbox(y) PROVE Integrity'
  BY <1>4, DeleteKeepsIntegrity
<1>5. ASSUME NEW e, NEW k, InsertAddress(e, k), UNCHANGED mailVars PROVE Integrity'
  BY <1>5 DEF InsertAddress, mailVars, Integrity
<1>6. ASSUME NEW s \in Sessions, StoreCommit(s) PROVE Integrity'
  <2> DEFINE x == session[s]
             new == [email |-> nextEmail, address |-> x.found]
             mail == [id |-> nextEmail, to |-> x.to[x.next], attempt |-> x.attempt,
                      received |-> x.received, size |-> x.size]
  <2>1. links' = links \union {new}
    BY <1>6 DEF StoreCommit, CommitStarting
  <2>2. emails' = emails \union {mail}
    BY <1>6 DEF StoreCommit, CommitStarting
  <2>3. addresses' = addresses /\ \E row \in addresses : row.id = x.found
    BY <1>6 DEF StoreCommit, CommitStarting, tableVars
  <2>4. mail.id = nextEmail /\ new.email = nextEmail /\ new.address = x.found
    OBVIOUS
  <2>5. \A l \in links : l.email # nextEmail
    BY DEF TInv, TypeOK, Email, Integrity, IdsFresh
  <2> HIDE DEF x, new, mail
  <2>6. QED  BY <2>1, <2>2, <2>3, <2>4, <2>5 DEF Integrity
<1>7. CASE UNCHANGED <<addresses, mailVars>>
  BY <1>7 DEF mailVars, Integrity
<1>8. QED
  BY <1>1, <1>2, <1>3, <1>4, <1>5, <1>6, <1>7, Statements

-----------------------------------------------------------------------------
(* Mailboxes hold their own mail.                                           *)

\* The row id a transaction of StoreEmail read earlier still means the mailbox of
\* its recipient, if the row is there at all: ids are never used twice.
Found ==
  \A s \in Sessions : session[s].pc = "link" =>
    /\ session[s].found < nextAddress
    /\ \A x \in addresses :
         x.id = session[s].found => x.email = session[s].to[session[s].next]

\* A session either is left alone, is no longer in a transaction, or has just
\* looked up the row of its recipient.
LEMMA SessionChange ==
  ASSUME TInv, [Next]_vars, NEW s \in Sessions, session'[s].pc = "link"
  PROVE  session'[s] = session[s] \/ StoreSelect(s)
<1>0. session \in [Sessions -> Session]
  BY DEF TInv, TypeOK
<1>1. ASSUME NEW t \in Sessions, NEW x, Become(t, x), session'[s] # session[s]
      PROVE  t = s /\ session'[s] = x
  BY <1>0, <1>1 DEF Become
<1>2. ASSUME NEW t \in Sessions, Become(t, NoMail) PROVE session'[s] = session[s]
  BY <1>1, <1>2 DEF NoMail
<1>3. ASSUME NEW t \in Sessions, Mail(t) PROVE session'[s] = session[s]
  <2>1. [NoMail EXCEPT !.pc = "rcpt"].pc = "rcpt"
    BY DEF NoMail
  <2>2. QED  BY <1>1, <1>3, <2>1 DEF Mail
<1>4. ASSUME NEW t \in Sessions, NEW e \in Names, Rcpt(t, e) PROVE session'[s] = session[s]
  <2>1. \A x \in Session : \A q : [x EXCEPT !.to = q].pc = x.pc
    BY DEF Session
  <2> DEFINE x == [session[t] EXCEPT !.to = Append(session[t].to, e)]
  <2>2. Become(t, x) /\ session[t].pc = "rcpt"
    BY <1>4 DEF Rcpt
  <2>3. x.pc = "rcpt"
    BY <1>0, <2>1, <2>2
  <2> HIDE DEF x
  <2>4. QED  BY <1>1, <2>2, <2>3
<1>5. ASSUME NEW t \in Sessions, NEW z \in Sizes, Data(t, z) PROVE session'[s] = session[s]
  <2>1. \A x \in Session : \A a, r :
          [x EXCEPT !.pc = "store", !.next = 1, !.size = z, !.attempt = a,
                    !.received = r].pc = "store"
    BY DEF Session
  <2> DEFINE x == [session[t] EXCEPT !.pc = "store", !.next = 1, !.size = z,
                     !.attempt = nextAttempt, !.received = clock]
  <2>2. Become(t, x)
    BY <1>5 DEF Data
  <2>3. x.pc = "store"
    BY <1>0, <2>1
  <2> HIDE DEF x
  <2>4. QED  BY <1>1, <2>2, <2>3
<1>6. ASSUME NEW t \in Sessions, StoreSelect(t), session'[s] # session[s] PROVE t = s
  BY <1>1, <1>6 DEF StoreSelect
<1>7. ASSUME NEW t \in Sessions, StoreCommit(t) PROVE session'[s] = session[s]
  <2>1. \A x \in Session : \A n :
          [x EXCEPT !.pc = "store", !.next = n, !.found = 0].pc = "store"
    BY DEF Session
  <2> DEFINE x == session[t]
             y == [x EXCEPT !.pc = "store", !.next = x.next + 1, !.found = 0]
  <2>2. y.pc = "store"
    BY <1>0, <2>1
  <2>3. Become(t, NoMail) \/ Become(t, y)
    BY <1>7 DEF StoreCommit, CommitStarting
  <2>4. QED  BY <1>1, <1>2, <2>2, <2>3
<1>8. CASE MxCrash
  BY <1>8 DEF MxCrash, NoMail
<1>9. ASSUME NEW t \in Sessions, Reset(t) \/ StoreFails(t) PROVE session'[s] = session[s]
  BY <1>2, <1>9 DEF Reset, StoreFails
<1>10. ASSUME \/ Tick \/ Cleanup \/ Api \/ UNCHANGED vars
              \/ \E i \in enforcing : EnforceEmailLimit(i) \/ EnforceFails(i)
       PROVE  session' = session
  BY <1>10 DEF Tick, Cleanup, CleanupExpired, EnforceStorageLimit, CleanupRetention, Api,
     Claim, Reclaim, AdminDeleteAddress, PurgeMailbox, OwnerDelete, AdminDeleteEmail, vars,
     EnforceEmailLimit, EnforceFails
<1>11. QED
  BY <1>3, <1>4, <1>5, <1>6, <1>7, <1>8, <1>9, <1>10 DEF Next, Smtp

\* Rows are only added under the id at the counter, which never goes back.
LEMMA RowsChange ==
  ASSUME TInv, [Next]_vars
  PROVE  /\ nextAddress <= nextAddress'
         /\ \A x \in addresses' : x \in addresses \/ x.id = nextAddress
<1>0. nextAddress \in Nat
  BY DEF TInv, TypeOK, TableTypeOK
<1>1. ASSUME NEW D, DropAddresses(D)
      PROVE  nextAddress' = nextAddress /\ addresses' \subseteq addresses
  BY <1>1 DEF DropAddresses, DeleteAddresses
<1>2. ASSUME NEW e, NEW k, InsertAddress(e, k)
      PROVE  /\ nextAddress' = nextAddress + 1
             /\ \A x \in addresses' : x \in addresses \/ x.id = nextAddress
  BY <1>2 DEF InsertAddress, NewRow
<1>3. ASSUME NEW s \in Sessions, StoreCommit(s) PROVE UNCHANGED tableVars
  BY <1>3 DEF StoreCommit, CommitStarting
<1>4. ASSUME NEW y, PurgeMailbox(y) PROVE UNCHANGED tableVars
  BY <1>4 DEF PurgeMailbox
<1>5. QED
  BY <1>0, <1>1, <1>2, <1>3, <1>4, Statements DEF tableVars

LEMMA FoundStep == TInv /\ IdsFresh /\ Found /\ [Next]_vars => Found'
<1> SUFFICES ASSUME TInv, IdsFresh, Found, [Next]_vars,
                    NEW s \in Sessions, session'[s].pc = "link"
             PROVE  /\ session'[s].found < nextAddress'
                    /\ \A x \in addresses' : x.id = session'[s].found =>
                         x.email = session'[s].to[session'[s].next]
  BY DEF Found
<1>0. /\ session \in [Sessions -> Session] /\ nextAddress \in Nat /\ nextAddress' \in Nat
      /\ addresses \subseteq Row
  BY TypeStep DEF TInv, TypeOK, TableTypeOK
<1>1. CASE session'[s] = session[s]
  <2>1. session[s].found \in Nat /\ session[s].found < nextAddress
    BY <1>0, <1>1 DEF Found, Session
  <2>2. session'[s].found < nextAddress'
    BY <1>0, <1>1, <2>1, RowsChange
  <2>3. ASSUME NEW x \in addresses', x.id = session[s].found PROVE x \in addresses
    BY <1>0, <2>1, <2>3, RowsChange
  <2>4. QED  BY <1>1, <2>2, <2>3 DEF Found
<1>2. CASE StoreSelect(s)
  <2>1. PICK x \in RowsOf(session[s].to[session[s].next]) :
          Become(s, [session[s] EXCEPT !.pc = "link", !.found = x.id])
    BY <1>2 DEF StoreSelect
  <2>2. \A y \in Session : \A i : /\ [y EXCEPT !.pc = "link", !.found = i].found = i
                                  /\ [y EXCEPT !.pc = "link", !.found = i].to = y.to
                                  /\ [y EXCEPT !.pc = "link", !.found = i].next = y.next
    BY DEF Session
  <2>3. session'[s] = [session[s] EXCEPT !.pc = "link", !.found = x.id]
    BY <1>0, <2>1 DEF Become
  <2>4. /\ session'[s].found = x.id /\ session'[s].to = session[s].to
        /\ session'[s].next = session[s].next
    BY <1>0, <2>2, <2>3
  <2>5. UNCHANGED <<addresses, nextAddress>>
    BY <1>2 DEF StoreSelect, tableVars
  <2>6. x \in addresses /\ x.email = session[s].to[session[s].next]
    BY <2>1 DEF RowsOf
  <2>7. QED  BY <2>4, <2>5, <2>6 DEF IdsFresh
<1>3. QED  BY <1>1, <1>2, SessionChange

LEMMA OwnStep ==
  TInv /\ IdsFresh /\ Integrity /\ Found /\ InboxIsOwn /\ [Next]_vars => InboxIsOwn'
<1> SUFFICES ASSUME TInv, IdsFresh, Integrity, Found, InboxIsOwn, [Next]_vars
             PROVE  InboxIsOwn'
  OBVIOUS
<1>0. nextAddress \in Nat /\ addresses \subseteq Row /\ nextEmail \in Nat /\ emails \subseteq Email
  BY DEF TInv, TypeOK, TableTypeOK
<1>1. ASSUME links' \subseteq links, emails' \subseteq emails, addresses' \subseteq addresses
      PROVE  InboxIsOwn'
  BY <1>1 DEF InboxIsOwn
<1>2. ASSUME NEW e, NEW k, InsertAddress(e, k), UNCHANGED mailVars PROVE InboxIsOwn'
  <2>1. ASSUME NEW l \in links, NEW x \in addresses', l.address = x.id
        PROVE  x \in addresses
    <3>1. l.address < nextAddress
      BY DEF Integrity, IdsFresh
    <3>2. x \in addresses \/ x.id = nextAddress
      BY RowsChange
    <3>3. QED  BY <1>0, <2>1, <3>1, <3>2
  <2>2. QED  BY <1>2, <2>1 DEF mailVars, InboxIsOwn
<1>3. ASSUME NEW s \in Sessions, StoreCommit(s) PROVE InboxIsOwn'
  <2> DEFINE y == session[s]
             new == [email |-> nextEmail, address |-> y.found]
             mail == [id |-> nextEmail, to |-> y.to[y.next], attempt |-> y.attempt,
                      received |-> y.received, size |-> y.size]
  <2>1. links' = links \union {new}
    BY <1>3 DEF StoreCommit, CommitStarting
  <2>2. emails' = emails \union {mail}
    BY <1>3 DEF StoreCommit, CommitStarting
  <2>3. addresses' = addresses
    BY <1>3 DEF StoreCommit, CommitStarting, tableVars
  <2>4. \A x \in addresses : x.id = y.found => x.email = y.to[y.next]
    BY <1>3 DEF StoreCommit, CommitStarting, Found
  <2>5. /\ mail.id = nextEmail /\ mail.to = y.to[y.next]
        /\ new.email = nextEmail /\ new.address = y.found
    OBVIOUS
  <2>6. \A l \in links : l.email # nextEmail
    BY <1>0 DEF Email, Integrity, IdsFresh
  <2>7. \A m \in emails : m.id # nextEmail
    BY <1>0 DEF Email, IdsFresh
  <2> HIDE DEF y, new, mail
  <2>8. QED  BY <2>1, <2>2, <2>3, <2>4, <2>5, <2>6, <2>7 DEF InboxIsOwn
<1>4. ASSUME NEW D, DropAddresses(D) PROVE InboxIsOwn'
  BY <1>1, <1>4 DEF DropAddresses, DeleteAddresses, DeleteLinks
<1>5. ASSUME NEW L, DeleteLinks(L), UNCHANGED tableVars PROVE InboxIsOwn'
  BY <1>1, <1>5 DEF DeleteLinks, tableVars
<1>6. ASSUME NEW E, DeleteEmails(E), UNCHANGED tableVars PROVE InboxIsOwn'
  BY <1>1, <1>6 DEF DeleteEmails, tableVars
<1>7. ASSUME NEW y, PurgeMailbox(y) PROVE InboxIsOwn'
  BY <1>1, <1>7 DEF PurgeMailbox, tableVars
<1>8. CASE UNCHANGED <<addresses, mailVars>>
  BY <1>1, <1>8 DEF mailVars
<1>9. QED
  BY <1>2, <1>3, <1>4, <1>5, <1>6, <1>7, <1>8, Statements

-----------------------------------------------------------------------------
(***************************************************************************)
(* The loop of Data: whom a message was stored for, and how often.          *)
(***************************************************************************)
\* The recipients before `next` have their copy.
Served ==
  \A s \in Sessions : Delivering(s) =>
    \A i \in 1..session[s].next - 1 : <<session[s].attempt, session[s].to[i]>> \in stored

\* A session queues each recipient once.
NoRepeats ==
  \A s \in Sessions : \A i, j \in 1..Len(session[s].to) :
    session[s].to[i] = session[s].to[j] => i = j

\* A DATA command has a number of its own, and the messages that carry it are
\* copies for the recipients before `next`.
OwnAttempt ==
  /\ \A m \in emails : m.attempt < nextAttempt
  /\ \A s \in Sessions : Delivering(s) =>
       /\ session[s].attempt < nextAttempt
       /\ \A t \in Sessions :
            Delivering(t) /\ session[t].attempt = session[s].attempt => t = s
       /\ \A m \in emails : m.attempt = session[s].attempt =>
            \E i \in 1..session[s].next - 1 : m.to = session[s].to[i]

\* How a session can have come to be in the loop: it was at the same recipient,
\* it has just received the message, or it has just stored one copy.
Stays(s) ==
  /\ Delivering(s)
  /\ session'[s].to = session[s].to
  /\ session'[s].attempt = session[s].attempt
  /\ session'[s].next = session[s].next

Starts(s) ==
  /\ session[s].pc = "rcpt"
  /\ session'[s].next = 1
  /\ session'[s].attempt = nextAttempt
  /\ nextAttempt' = nextAttempt + 1

Advances(s) ==
  /\ StoreCommit(s)
  /\ Delivering(s)
  /\ session'[s].to = session[s].to
  /\ session'[s].attempt = session[s].attempt
  /\ session'[s].next = session[s].next + 1

\* Only the session that makes a step changes.
LEMMA Only ==
  ASSUME session \in [Sessions -> Session], NEW s \in Sessions, NEW x, Become(s, x)
  PROVE  session'[s] = x /\ \A t \in Sessions : t # s => session'[t] = session[t]
  BY DEF Become

\* What a commit does to its session and to the history.
LEMMA CommitChange ==
  ASSUME TInv, NEW s \in Sessions, StoreCommit(s)
  PROVE  /\ Delivering(s)
         /\ \A t \in Sessions : t # s => session'[t] = session[t]
         /\ Delivering(s)' => Advances(s)
         /\ stored' = stored \union {<<session[s].attempt, session[s].to[session[s].next]>>}
         /\ nextAttempt' = nextAttempt
         /\ \A a \in acked' : \/ a \in acked
                              \/ /\ a = [attempt |-> session[s].attempt, to |-> session[s].to]
                                 /\ session[s].next = Len(session[s].to)
         /\ \A m \in emails' : \/ m \in emails
                               \/ /\ m.attempt = session[s].attempt
                                  /\ m.to = session[s].to[session[s].next]
         /\ \A m, n \in emails' : m \in emails \/ n \in emails \/ m = n
<1> DEFINE x == session[s]
           y == [x EXCEPT !.pc = "store", !.next = x.next + 1, !.found = 0]
           mail == [id |-> nextEmail, to |-> x.to[x.next], attempt |-> x.attempt,
                    received |-> x.received, size |-> x.size]
<1>0. session \in [Sessions -> Session] /\ x \in Session
  BY DEF TInv, TypeOK
<1>1. Delivering(s)
  BY DEF StoreCommit, CommitStarting, Delivering
<1>2. Become(s, NoMail) \/ Become(s, y)
  BY DEF StoreCommit, CommitStarting
<1>3. \A t \in Sessions : t # s => session'[t] = session[t]
  BY <1>0, <1>2, Only
<1>4. Delivering(s)' => Advances(s)
  <2>1. \A z \in Session : \A n : /\ [z EXCEPT !.pc = "store", !.next = n, !.found = 0].to = z.to
                                  /\ [z EXCEPT !.pc = "store", !.next = n, !.found = 0].attempt = z.attempt
                                  /\ [z EXCEPT !.pc = "store", !.next = n, !.found = 0].next = n
    BY DEF Session
  <2>2. y.to = x.to /\ y.attempt = x.attempt /\ y.next = x.next + 1
    BY <1>0, <2>1
  <2>3. session'[s] = NoMail \/ session'[s] = y
    BY <1>0, <1>2, Only
  <2>4. NoMail.pc = "idle"
    BY DEF NoMail
  <2> HIDE DEF y
  <2>5. QED  BY <1>1, <2>2, <2>3, <2>4 DEF Delivering, Advances
<1>5. stored' = stored \union {<<x.attempt, x.to[x.next]>>} /\ nextAttempt' = nextAttempt
  BY DEF StoreCommit, CommitStarting
<1>6. \A a \in acked' : \/ a \in acked
                        \/ a = [attempt |-> x.attempt, to |-> x.to] /\ x.next = Len(x.to)
  BY DEF StoreCommit, CommitStarting
<1>7. emails' = emails \union {mail}
  BY DEF StoreCommit, CommitStarting
<1>8. mail.attempt = x.attempt /\ mail.to = x.to[x.next]
  OBVIOUS
<1>9. QED
  <2> HIDE DEF mail
  <2>1. QED  BY <1>1, <1>3, <1>4, <1>5, <1>6, <1>7, <1>8

\* The number of the next DATA command, and sessions, over any step.
LEMMA DeliveryChange ==
  ASSUME TInv, [Next]_vars, NEW s \in Sessions, Delivering(s)'
  PROVE  Stays(s) \/ Starts(s) \/ Advances(s)
<1>0. session \in [Sessions -> Session] /\ NoMail.pc = "idle"
  BY DEF TInv, TypeOK, NoMail
<1>1. ASSUME NEW t \in Sessions, NEW x, Become(t, x), x.pc \notin {"store", "link"}
      PROVE  Stays(s)
  BY <1>0, <1>1, Only DEF Stays, Delivering
<1>2. ASSUME NEW t \in Sessions, Mail(t) PROVE Stays(s)
  <2>1. [NoMail EXCEPT !.pc = "rcpt"].pc = "rcpt"
    BY DEF NoMail
  <2>2. QED  BY <1>1, <1>2, <2>1 DEF Mail
<1>3. ASSUME NEW t \in Sessions, NEW e \in Names, Rcpt(t, e) PROVE Stays(s)
  <2>1. \A x \in Session : \A q : [x EXCEPT !.to = q].pc = x.pc
    BY DEF Session
  <2> DEFINE x == [session[t] EXCEPT !.to = Append(session[t].to, e)]
  <2>2. Become(t, x) /\ session[t].pc = "rcpt"
    BY <1>3 DEF Rcpt
  <2>3. x.pc = "rcpt"
    BY <1>0, <2>1, <2>2
  <2> HIDE DEF x
  <2>4. QED  BY <1>1, <2>2, <2>3
<1>4. ASSUME NEW t \in Sessions, NEW z \in Sizes, Data(t, z) PROVE Stays(s) \/ Starts(s)
  <2>1. \A x \in Session : \A a, r :
          /\ [x EXCEPT !.pc = "store", !.next = 1, !.size = z, !.attempt = a,
                       !.received = r].next = 1
          /\ [x EXCEPT !.pc = "store", !.next = 1, !.size = z, !.attempt = a,
                       !.received = r].attempt = a
    BY DEF Session
  <2> DEFINE x == [session[t] EXCEPT !.pc = "store", !.next = 1, !.size = z,
                     !.attempt = nextAttempt, !.received = clock]
  <2>2. Become(t, x) /\ session[t].pc = "rcpt" /\ nextAttempt' = nextAttempt + 1
    BY <1>4 DEF Data
  <2>3. x.next = 1 /\ x.attempt = nextAttempt
    BY <1>0, <2>1
  <2> HIDE DEF x
  <2>4. CASE t = s
    BY <1>0, <2>2, <2>3, <2>4, Only DEF Starts
  <2>5. CASE t # s
    BY <1>0, <2>2, <2>5, Only DEF Stays, Delivering
  <2>6. QED  BY <2>4, <2>5
<1>5. ASSUME NEW t \in Sessions, StoreSelect(t) PROVE Stays(s)
  <2>1. \A x \in Session : \A i : /\ [x EXCEPT !.pc = "link", !.found = i].attempt = x.attempt
                                  /\ [x EXCEPT !.pc = "link", !.found = i].to = x.to
                                  /\ [x EXCEPT !.pc = "link", !.found = i].next = x.next
    BY DEF Session
  <2>2. PICK i : Become(t, [session[t] EXCEPT !.pc = "link", !.found = i])
    BY <1>5 DEF StoreSelect
  <2> DEFINE x == [session[t] EXCEPT !.pc = "link", !.found = i]
  <2>3. x.attempt = session[t].attempt /\ x.to = session[t].to /\ x.next = session[t].next
    BY <1>0, <2>1
  <2>4. Delivering(t)
    BY <1>5 DEF StoreSelect, Delivering
  <2>5. Become(t, x)
    BY <2>2
  <2> HIDE DEF x
  <2>6. QED  BY <1>0, <2>3, <2>4, <2>5, Only DEF Stays, Delivering
<1>6. ASSUME NEW t \in Sessions, StoreCommit(t) PROVE Stays(s) \/ Advances(s)
  BY <1>6, CommitChange DEF Stays, Delivering
<1>7. ASSUME MxCrash PROVE FALSE
  BY <1>0, <1>7 DEF MxCrash, Delivering
<1>8. ASSUME NEW t \in Sessions, Reset(t) \/ StoreFails(t) PROVE Stays(s)
  BY <1>0, <1>1, <1>8 DEF Reset, StoreFails
<1>9. ASSUME session' = session PROVE Stays(s)
  BY <1>9 DEF Stays, Delivering
<1>10. ASSUME \/ Tick \/ Cleanup \/ Api \/ UNCHANGED vars
              \/ \E i \in enforcing : EnforceEmailLimit(i) \/ EnforceFails(i)
       PROVE  session' = session
  BY <1>10 DEF Tick, Cleanup, CleanupExpired, EnforceStorageLimit, CleanupRetention, Api,
     Claim, Reclaim, AdminDeleteAddress, PurgeMailbox, OwnerDelete, AdminDeleteEmail, vars,
     EnforceEmailLimit, EnforceFails
<1>11. QED
  BY <1>2, <1>3, <1>4, <1>5, <1>6, <1>7, <1>8, <1>9, <1>10 DEF Next, Smtp

\* The history changes only with a commit, and numbers only go up.
LEMMA LogChange ==
  ASSUME TInv, [Next]_vars
  PROVE  /\ \/ \E s \in Sessions : StoreCommit(s)
            \/ UNCHANGED logVars /\ emails' \subseteq emails
         /\ nextAttempt <= nextAttempt'
<1>1. \/ \E s \in Sessions : StoreCommit(s)
      \/ UNCHANGED logVars /\ emails' \subseteq emails
  <2>1. ASSUME NEW y, PurgeMailbox(y) PROVE UNCHANGED logVars /\ emails' \subseteq emails
    BY <2>1 DEF PurgeMailbox
  <2>2. ASSUME NEW L, DeleteLinks(L) PROVE emails' \subseteq emails
    BY <2>2 DEF DeleteLinks
  <2>3. ASSUME NEW E, DeleteEmails(E) PROVE emails' \subseteq emails
    BY <2>3 DEF DeleteEmails
  <2>4. QED
    BY <2>1, <2>2, <2>3, Statements DEF DropAddresses, mailVars
<1>2. nextAttempt' = nextAttempt \/ nextAttempt' = nextAttempt + 1
  <2>1. ASSUME Smtp PROVE nextAttempt' = nextAttempt \/ nextAttempt' = nextAttempt + 1
    BY <2>1 DEF Smtp, Mail, Reset, StoreSelect, StoreCommit, CommitStarting, StoreFails,
       Rcpt, Data, MxCrash, EnforceEmailLimit, EnforceFails
  <2>2. ASSUME Tick \/ Cleanup \/ Api \/ UNCHANGED vars PROVE nextAttempt' = nextAttempt
    BY <2>2 DEF Tick, Cleanup, CleanupExpired, EnforceStorageLimit, CleanupRetention, Api,
       Claim, Reclaim, AdminDeleteAddress, PurgeMailbox, OwnerDelete, AdminDeleteEmail, vars
  <2>3. QED  BY <2>1, <2>2 DEF Next
<1>3. QED  BY <1>1, <1>2 DEF TInv, TypeOK

LEMMA ServedStep ==
  TInv /\ Served /\ AckedMeansStored /\ [Next]_vars => Served' /\ AckedMeansStored'
<1> SUFFICES ASSUME TInv, Served, AckedMeansStored, [Next]_vars
             PROVE  Served' /\ AckedMeansStored'
  OBVIOUS
<1>1. stored \subseteq stored'
  BY LogChange, CommitChange DEF logVars
<1>2. ASSUME NEW s \in Sessions, Delivering(s)', NEW i \in 1..session'[s].next - 1
      PROVE  <<session'[s].attempt, session'[s].to[i]>> \in stored'
  <2>1. CASE Stays(s)
    BY <1>1, <1>2, <2>1 DEF Stays, Served
  <2>2. CASE Starts(s)
    BY <1>2, <2>2 DEF Starts
  <2>3. CASE Advances(s)
    <3>1. session[s].next \in Nat
      BY DEF TInv, TypeOK, Session
    <3>2. i \in 1..session[s].next - 1 \/ i = session[s].next
      BY <1>2, <2>3, <3>1 DEF Advances
    <3>3. <<session[s].attempt, session[s].to[session[s].next]>> \in stored'
      BY <2>3, CommitChange DEF Advances
    <3>4. QED  BY <1>1, <2>3, <3>2, <3>3 DEF Advances, Served
  <2>4. QED  BY <1>2, <2>1, <2>2, <2>3, DeliveryChange
<1>3. ASSUME NEW a \in acked', NEW i \in 1..Len(a.to)
      PROVE  <<a.attempt, a.to[i]>> \in stored'
  <2>1. CASE a \in acked
    BY <1>1, <1>3, <2>1 DEF AckedMeansStored
  <2>2. CASE a \notin acked
    <3>1. PICK s \in Sessions : StoreCommit(s)
      BY <1>3, <2>2, LogChange DEF logVars
    <3>2. /\ a = [attempt |-> session[s].attempt, to |-> session[s].to]
          /\ session[s].next = Len(session[s].to)
      BY <1>3, <2>2, <3>1, CommitChange
    <3>3. a.attempt = session[s].attempt /\ a.to = session[s].to
      BY <3>2
    <3>4. session[s].to \in Seq(Names)
      BY DEF TInv, TypeOK, Session
    <3>5. i \in 1..session[s].next - 1 \/ i = session[s].next
      BY <1>3, <3>2, <3>3, <3>4
    <3>6. Delivering(s)
      BY <3>1, CommitChange
    <3>7. <<session[s].attempt, session[s].to[session[s].next]>> \in stored'
      BY <3>1, CommitChange
    <3>8. QED  BY <1>1, <3>3, <3>5, <3>6, <3>7 DEF Served
  <2>3. QED  BY <2>1, <2>2
<1>4. QED  BY <1>2, <1>3 DEF Served, AckedMeansStored

\* The number of a DATA command is taken by the session that gives it.
LEMMA NumberTaken ==
  ASSUME TInv, [Next]_vars, nextAttempt' = nextAttempt + 1
  PROVE  \E t \in Sessions, z \in Sizes : Data(t, z)
<1>0. nextAttempt' # nextAttempt
  BY DEF TInv, TypeOK
<1>1. ASSUME Tick \/ Cleanup \/ Api \/ UNCHANGED vars PROVE nextAttempt' = nextAttempt
  BY <1>1 DEF Tick, Cleanup, CleanupExpired, EnforceStorageLimit, CleanupRetention, Api,
     Claim, Reclaim, AdminDeleteAddress, PurgeMailbox, OwnerDelete, AdminDeleteEmail, vars
<1>2. ASSUME Smtp, \A t \in Sessions, z \in Sizes : ~Data(t, z)
      PROVE  nextAttempt' = nextAttempt
  BY <1>2 DEF Smtp, Mail, Reset, StoreSelect, StoreCommit, CommitStarting, StoreFails,
     Rcpt, MxCrash, EnforceEmailLimit, EnforceFails
<1>3. QED  BY <1>0, <1>1, <1>2 DEF Next

\* Two sessions do not start in one step.
LEMMA OneStarts ==
  ASSUME TInv, [Next]_vars, NEW s \in Sessions, NEW t \in Sessions,
         Delivering(s)', Delivering(t)', Starts(s), Starts(t)
  PROVE  t = s
<1>0. session \in [Sessions -> Session]
  BY DEF TInv, TypeOK
<1>1. PICK u \in Sessions, z \in Sizes : Data(u, z)
  BY NumberTaken DEF Starts
<1>2. PICK x : Become(u, x)
  BY <1>1 DEF Data
<1>3. \A v \in Sessions : Starts(v) /\ Delivering(v)' => v = u
  BY <1>0, <1>2, Only DEF Starts, Delivering
<1>4. QED  BY <1>3

\* Only Rcpt adds to the queue of recipients, and only one that is not in it.
LEMMA QueueChange ==
  ASSUME TInv, [Next]_vars, NEW s \in Sessions
  PROVE  \/ session'[s].to = session[s].to
         \/ session'[s].to = <<>>
         \/ \E e \in Names : /\ session'[s].to = Append(session[s].to, e)
                             /\ \A i \in 1..Len(session[s].to) : session[s].to[i] # e
<1>0. session \in [Sessions -> Session] /\ NoMail.pc = "idle" /\ NoMail.to = <<>>
  BY DEF TInv, TypeOK, NoMail
<1>1. CASE Delivering(s)'
  <2>1. ASSUME Starts(s) PROVE session'[s].to = session[s].to
    <3>1. nextAttempt' = nextAttempt + 1
      BY <2>1 DEF Starts
    <3>2. PICK t \in Sessions, z \in Sizes : Data(t, z)
      BY <3>1, NumberTaken
    <3>4. \A x \in Session : \A a, r :
            [x EXCEPT !.pc = "store", !.next = 1, !.size = z, !.attempt = a,
                      !.received = r].to = x.to
      BY DEF Session
    <3> DEFINE x == [session[t] EXCEPT !.pc = "store", !.next = 1, !.size = z,
                       !.attempt = nextAttempt, !.received = clock]
    <3>5. Become(t, x)
      BY <3>2 DEF Data
    <3>6. x.to = session[t].to
      BY <1>0, <3>4
    <3> HIDE DEF x
    <3>7. QED  BY <1>0, <3>5, <3>6, Only
  <2>2. QED  BY <1>1, <2>1, DeliveryChange DEF Stays, Advances
<1>2. CASE ~Delivering(s)'
  <2>1. ASSUME NEW t \in Sessions, NEW e \in Names, Rcpt(t, e)
        PROVE  \/ session'[s].to = session[s].to
               \/ /\ session'[s].to = Append(session[s].to, e)
                  /\ \A i \in 1..Len(session[s].to) : session[s].to[i] # e
    <3>1. \A x \in Session : \A q : [x EXCEPT !.to = q].to = q
      BY DEF Session
    <3> DEFINE x == [session[t] EXCEPT !.to = Append(session[t].to, e)]
    <3>2. Become(t, x) /\ \A i \in 1..Len(session[t].to) : session[t].to[i] # e
      BY <2>1 DEF Rcpt
    <3>3. x.to = Append(session[t].to, e)
      BY <1>0, <3>1
    <3> HIDE DEF x
    <3>4. QED  BY <1>0, <3>2, <3>3, Only
  <2>2. ASSUME NEW t \in Sessions, NEW x, Become(t, x), x.to = <<>>
        PROVE  session'[s].to = session[s].to \/ session'[s].to = <<>>
    BY <1>0, <2>2, Only
  <2>3. ASSUME NEW t \in Sessions, Mail(t)
        PROVE  session'[s].to = session[s].to \/ session'[s].to = <<>>
    <3>1. [NoMail EXCEPT !.pc = "rcpt"].to = <<>>
      BY DEF NoMail
    <3>2. QED  BY <2>2, <2>3, <3>1 DEF Mail
  <2>4. ASSUME NEW t \in Sessions, NEW x, Become(t, x), x.pc \in {"store", "link"}
        PROVE  session'[s].to = session[s].to
    BY <1>0, <1>2, <2>4, Only DEF Delivering
  <2>5. ASSUME NEW t \in Sessions, NEW z \in Sizes, Data(t, z)
        PROVE  session'[s].to = session[s].to
    <3>1. \A x \in Session : \A a, r :
            [x EXCEPT !.pc = "store", !.next = 1, !.size = z, !.attempt = a,
                      !.received = r].pc = "store"
      BY DEF Session
    <3> DEFINE x == [session[t] EXCEPT !.pc = "store", !.next = 1, !.size = z,
                       !.attempt = nextAttempt, !.received = clock]
    <3>2. Become(t, x)
      BY <2>5 DEF Data
    <3>3. x.pc = "store"
      BY <1>0, <3>1
    <3> HIDE DEF x
    <3>4. QED  BY <2>4, <3>2, <3>3
  <2>6. ASSUME NEW t \in Sessions, StoreSelect(t) PROVE session'[s].to = session[s].to
    <3>1. \A x \in Session : \A i : [x EXCEPT !.pc = "link", !.found = i].pc = "link"
      BY DEF Session
    <3>2. PICK i : Become(t, [session[t] EXCEPT !.pc = "link", !.found = i])
      BY <2>6 DEF StoreSelect
    <3> DEFINE x == [session[t] EXCEPT !.pc = "link", !.found = i]
    <3>3. Become(t, x)
      BY <3>2
    <3>4. x.pc = "link"
      BY <1>0, <3>1
    <3> HIDE DEF x
    <3>5. QED  BY <2>4, <3>3, <3>4
  <2>7. ASSUME NEW t \in Sessions, Reset(t) \/ StoreFails(t)
        PROVE  session'[s].to = session[s].to \/ session'[s].to = <<>>
    BY <1>0, <2>2, <2>7 DEF Reset, StoreFails
  <2>8. ASSUME NEW t \in Sessions, StoreCommit(t)
        PROVE  session'[s].to = session[s].to \/ session'[s].to = <<>>
    <3>1. \A x \in Session : \A n :
            [x EXCEPT !.pc = "store", !.next = n, !.found = 0].pc = "store"
      BY DEF Session
    <3> DEFINE x == [session[t] EXCEPT !.pc = "store", !.next = session[t].next + 1,
                       !.found = 0]
    <3>2. Become(t, NoMail) \/ Become(t, x)
      BY <2>8 DEF StoreCommit, CommitStarting
    <3>3. x.pc = "store"
      BY <1>0, <3>1
    <3> HIDE DEF x
    <3>4. QED  BY <1>0, <2>2, <2>4, <3>2, <3>3
  <2>9. ASSUME MxCrash PROVE session'[s].to = <<>>
    BY <1>0, <2>9 DEF MxCrash
  <2>10. ASSUME \/ Tick \/ Cleanup \/ Api \/ UNCHANGED vars
                \/ \E i \in enforcing : EnforceEmailLimit(i) \/ EnforceFails(i)
         PROVE  session' = session
    BY <2>10 DEF Tick, Cleanup, CleanupExpired, EnforceStorageLimit, CleanupRetention, Api,
       Claim, Reclaim, AdminDeleteAddress, PurgeMailbox, OwnerDelete, AdminDeleteEmail, vars,
       EnforceEmailLimit, EnforceFails
  <2>11. QED
    BY <2>1, <2>3, <2>5, <2>6, <2>7, <2>8, <2>9, <2>10 DEF Next, Smtp
<1>3. QED  BY <1>1, <1>2

LEMMA NoRepeatsStep == TInv /\ NoRepeats /\ [Next]_vars => NoRepeats'
<1> SUFFICES ASSUME TInv, NoRepeats, [Next]_vars, NEW s \in Sessions,
                    NEW i \in 1..Len(session'[s].to), NEW j \in 1..Len(session'[s].to),
                    session'[s].to[i] = session'[s].to[j]
             PROVE  i = j
  BY DEF NoRepeats
<1> DEFINE q == session[s].to
<1>1. q \in Seq(Names)
  BY DEF TInv, TypeOK, Session
<1>2. \A k, l \in 1..Len(q) : q[k] = q[l] => k = l
  BY DEF NoRepeats
<1>3. CASE session'[s].to = q
  BY <1>2, <1>3
<1>4. CASE session'[s].to = <<>>
  BY <1>4
<1>5. ASSUME NEW e \in Names, session'[s].to = Append(q, e),
             \A k \in 1..Len(q) : q[k] # e
      PROVE  i = j
  BY <1>1, <1>2, <1>5
<1>6. QED  BY <1>3, <1>4, <1>5, QueueChange

\* Numbers of attempts are used once, and a queue that repeats nobody makes one
\* copy for each recipient.
LEMMA AttemptStep ==
  TInv /\ OwnAttempt /\ NoRepeats /\ OneCopyPerAttempt /\ [Next]_vars
    => OwnAttempt' /\ OneCopyPerAttempt'
<1> SUFFICES ASSUME TInv, OwnAttempt, NoRepeats, OneCopyPerAttempt, [Next]_vars
             PROVE  OwnAttempt' /\ OneCopyPerAttempt'
  OBVIOUS
<1>0. /\ nextAttempt \in Nat /\ nextAttempt' \in Nat /\ nextAttempt <= nextAttempt'
      /\ \A m \in emails : m.attempt \in Nat
      /\ \A s \in Sessions : /\ session[s].attempt \in Nat /\ session[s].next \in Nat
                             /\ session[s].to \in Seq(Names)
  BY TypeStep, LogChange DEF TInv, TypeOK, Email, Session
<1>1. ASSUME NEW m \in emails' PROVE m.attempt < nextAttempt'
  <2>1. CASE m \in emails
    BY <1>0, <2>1 DEF OwnAttempt
  <2>2. CASE m \notin emails
    <3>1. PICK s \in Sessions : StoreCommit(s)
      BY <1>1, <2>2, LogChange
    <3>2. m.attempt = session[s].attempt /\ Delivering(s)
      BY <1>1, <2>2, <3>1, CommitChange
    <3>3. QED  BY <1>0, <3>2 DEF OwnAttempt
  <2>3. QED  BY <2>1, <2>2
<1>2. ASSUME NEW s \in Sessions, Delivering(s)' PROVE session'[s].attempt < nextAttempt'
  BY <1>0, <1>2, DeliveryChange DEF Stays, Starts, Advances, OwnAttempt
<1>3. ASSUME NEW s \in Sessions, Delivering(s)', NEW t \in Sessions, Delivering(t)',
             session'[t].attempt = session'[s].attempt
      PROVE  t = s
  <2>1. ASSUME NEW u \in Sessions, Stays(u) \/ Advances(u)
        PROVE  /\ Delivering(u) /\ session'[u].attempt = session[u].attempt
               /\ session[u].attempt < nextAttempt
    BY <2>1 DEF Stays, Advances, OwnAttempt
  <2>2. CASE (Stays(s) \/ Advances(s)) /\ (Stays(t) \/ Advances(t))
    BY <1>3, <2>1, <2>2 DEF OwnAttempt
  <2>3. CASE Starts(s) /\ (Stays(t) \/ Advances(t))
    <3>1. session'[s].attempt = nextAttempt
      BY <2>3 DEF Starts
    <3>2. session'[t].attempt < nextAttempt
      BY <2>3, <2>1
    <3>3. QED  BY <1>0, <1>3, <3>1, <3>2
  <2>4. CASE Starts(t) /\ (Stays(s) \/ Advances(s))
    <3>1. session'[t].attempt = nextAttempt
      BY <2>4 DEF Starts
    <3>2. session'[s].attempt < nextAttempt
      BY <2>4, <2>1
    <3>3. QED  BY <1>0, <1>3, <3>1, <3>2
  <2>5. CASE Starts(s) /\ Starts(t)
    BY <1>3, <2>5, OneStarts
  <2>6. QED  BY <1>3, <2>2, <2>3, <2>4, <2>5, DeliveryChange
<1>4. ASSUME NEW s \in Sessions, Delivering(s)', NEW m \in emails',
             m.attempt = session'[s].attempt
      PROVE  \E i \in 1..session'[s].next - 1 : m.to = session'[s].to[i]
  <2>1. CASE m \in emails
    <3>1. ~Starts(s)
      BY <1>0, <1>4, <2>1 DEF Starts, OwnAttempt
    <3>2. CASE Stays(s)
      BY <1>4, <2>1, <3>2 DEF Stays, OwnAttempt
    <3>3. CASE Advances(s)
      <4>1. PICK i \in 1..session[s].next - 1 : m.to = session[s].to[i]
        BY <1>4, <2>1, <3>3 DEF Advances, OwnAttempt
      <4>2. i \in 1..session'[s].next - 1 /\ m.to = session'[s].to[i]
        BY <1>0, <3>3, <4>1 DEF Advances
      <4>3. QED  BY <4>2
    <3>4. QED  BY <1>4, <3>1, <3>2, <3>3, DeliveryChange
  <2>2. CASE m \notin emails
    <3>1. PICK t \in Sessions : StoreCommit(t)
      BY <1>4, <2>2, LogChange
    <3>2. /\ m.attempt = session[t].attempt /\ m.to = session[t].to[session[t].next]
          /\ Delivering(t) /\ nextAttempt' = nextAttempt
      BY <1>4, <2>2, <3>1, CommitChange
    <3>3. CASE t = s
      <4>1. Advances(s)
        BY <1>4, <3>1, <3>3, CommitChange
      <4>2. session[s].next \in 1..session'[s].next - 1
        <5>1. session[s].next >= 1
          BY <1>4, <3>2, <3>3 DEF TInv, Ready
        <5>2. QED  BY <1>0, <4>1, <5>1 DEF Advances
      <4>3. m.to = session'[s].to[session[s].next]
        BY <3>2, <3>3, <4>1 DEF Advances
      <4>4. QED  BY <4>2, <4>3
    <3>4. CASE t # s
      <4>1. session'[s] = session[s]
        BY <3>1, <3>4, CommitChange
      <4>2. Delivering(s) /\ session[s].attempt = session[t].attempt
        BY <1>4, <3>2, <4>1 DEF Delivering
      <4>3. QED  BY <3>2, <3>4, <4>2 DEF OwnAttempt
    <3>5. QED  BY <3>3, <3>4
  <2>3. QED  BY <2>1, <2>2
<1>5. ASSUME NEW m \in emails', NEW n \in emails', m.attempt = n.attempt, m.to = n.to
      PROVE  m = n
  <2>1. ASSUME NEW o \in emails, NEW p \in emails', p \notin emails,
               o.attempt = p.attempt, o.to = p.to
        PROVE  FALSE
    <3>1. PICK t \in Sessions : StoreCommit(t)
      BY <2>1, LogChange
    <3>2. /\ p.attempt = session[t].attempt /\ p.to = session[t].to[session[t].next]
          /\ Delivering(t)
      BY <2>1, <3>1, CommitChange
    <3>3. PICK i \in 1..session[t].next - 1 : o.to = session[t].to[i]
      BY <2>1, <3>2 DEF OwnAttempt
    <3>4. session[t].next \in 1..Len(session[t].to)
      BY <3>2 DEF TInv, Ready
    <3>5. i \in 1..Len(session[t].to) /\ i # session[t].next
      BY <1>0, <3>3, <3>4
    <3>6. QED  BY <2>1, <3>2, <3>3, <3>4, <3>5 DEF NoRepeats
  <2>2. CASE m \notin emails /\ n \notin emails
    BY <1>5, <2>2, LogChange, CommitChange
  <2>3. CASE m \in emails /\ n \in emails
    BY <1>5, <2>3 DEF OneCopyPerAttempt
  <2>4. QED  BY <1>5, <2>1, <2>2, <2>3
<1>6. QED  BY <1>1, <1>2, <1>3, <1>4, <1>5 DEF OwnAttempt, OneCopyPerAttempt

-----------------------------------------------------------------------------
(***************************************************************************)
(* The inductive invariant.                                                 *)
(***************************************************************************)
MailInv ==
  /\ TInv /\ IdsFresh /\ Integrity
  /\ Found /\ InboxIsOwn
  /\ Served /\ AckedMeansStored
  /\ NoRepeats /\ OwnAttempt /\ OneCopyPerAttempt

LEMMA MailInit == Init => MailInv
<1> SUFFICES ASSUME Init PROVE MailInv
  OBVIOUS
<1>1. NoMail \in Session /\ NoMail.pc = "idle" /\ NoMail.to = <<>>
  BY SessionTyping DEF NoMail
<1>2. TypeOK
  BY <1>1 DEF Init, TableInit, TypeOK, TableTypeOK
<1>3. Ready /\ Found /\ Served /\ NoRepeats
  BY <1>1 DEF Init, Ready, Delivering, Found, Served, NoRepeats
<1>4. /\ IdsFresh /\ Integrity /\ InboxIsOwn
      /\ AckedMeansStored /\ OneCopyPerAttempt
  BY DEF Init, TableInit, IdsFresh, Integrity, InboxIsOwn, AckedMeansStored,
     OneCopyPerAttempt
<1>5. OwnAttempt
  BY <1>1 DEF Init, OwnAttempt, Delivering
<1>6. QED  BY <1>2, <1>3, <1>4, <1>5 DEF MailInv, TInv

LEMMA MailStep == MailInv /\ [Next]_vars => MailInv'
  BY TypeStep, IdsStep, IntegrityStep, FoundStep, OwnStep, ServedStep, NoRepeatsStep,
     AttemptStep DEF MailInv

\* MailInv holds in every reachable state.
THEOREM MailInvariance == Spec => []MailInv
  BY MailInit, MailStep, PTL DEF Spec

\* The tables, the SMTP sessions and the jobs keep their types; in particular a
\* session that is in the loop of Data has a recipient to store for.
THEOREM MailTypes == Spec => []TypeOK
<1>1. MailInv => TypeOK  BY DEF MailInv, TInv
<1>2. QED  BY <1>1, MailInvariance, PTL

\* No link dangles and no message is without a mailbox, however deliveries, the
\* jobs of cleanup.py, and deletes of owners and administrators interleave.
THEOREM MailIntegrity == Spec => []Integrity
<1>1. MailInv => Integrity  BY DEF MailInv
<1>2. QED  BY <1>1, MailInvariance, PTL

\* A mailbox never shows mail for another name, although StoreEmail inserts the
\* link under a row id it read in an earlier statement.
THEOREM MailOwn == Spec => []InboxIsOwn
<1>1. MailInv => InboxIsOwn  BY DEF MailInv
<1>2. QED  BY <1>1, MailInvariance, PTL

\* 250 after DATA means a committed copy for every recipient that RCPT accepted.
THEOREM MailAcked == Spec => []AckedMeansStored
<1>1. MailInv => AckedMeansStored  BY DEF MailInv
<1>2. QED  BY <1>1, MailInvariance, PTL

\* However sessions interleave, crash and repeat recipients, one DATA command
\* leaves at most one copy per recipient.
THEOREM MailOneCopy == Spec => []OneCopyPerAttempt
<1>1. MailInv => OneCopyPerAttempt  BY DEF MailInv
<1>2. QED  BY <1>1, MailInvariance, PTL

-----------------------------------------------------------------------------
(* What is lost: why a message may go, and that a mailbox above its limit is *)
(* owed a run of the limit job.  Both count, so the tables have to be finite. *)

TablesFinite == IsFiniteSet(links) /\ IsFiniteSet(emails)

LEMMA FiniteStep == MailInv /\ TablesFinite /\ [Next]_vars => TablesFinite'
<1> SUFFICES ASSUME TablesFinite, [Next]_vars PROVE TablesFinite'
  OBVIOUS
<1>1. ASSUME links' \subseteq links, emails' \subseteq emails PROVE TablesFinite'
  BY <1>1, FS_Subset DEF TablesFinite
<1>2. ASSUME NEW y, PurgeMailbox(y) PROVE TablesFinite'
  BY <1>1, <1>2 DEF PurgeMailbox
<1>3. ASSUME NEW s \in Sessions, StoreCommit(s) PROVE TablesFinite'
  <2>1. (\E x : links' = links \union {x}) /\ (\E x : emails' = emails \union {x})
    BY <1>3 DEF StoreCommit, CommitStarting
  <2>2. QED  BY <2>1, FS_AddElement DEF TablesFinite
<1>4. QED
  BY <1>1, <1>2, <1>3, Statements DEF DropAddresses, DeleteLinks, DeleteEmails, mailVars

-----------------------------------------------------------------------------
(* The links of a message, and the job that enforces the limit.             *)

LEMMA SmallerOf ==
  ASSUME NEW a \in Nat, NEW b \in Nat
  PROVE  Min({a, b}) = IF a <= b THEN a ELSE b
<1> DEFINE r == IF a <= b THEN a ELSE b
           P(x) == x \in {a, b} /\ \A y \in {a, b} : x <= y
<1>1. P(r) /\ \A x : P(x) => x = r
  OBVIOUS
<1>2. Min({a, b}) = CHOOSE x : P(x)
  BY DEF Min
<1> HIDE DEF P, r
<1>3. (CHOOSE x : P(x)) = r
  BY <1>1
<1>4. QED  BY <1>2, <1>3 DEF r

\* The job leaves the limit, or all there was.
LEMMA SurplusLeaves ==
  ASSUME StoreAssumption, TablesFinite, NEW i, NEW L, Surplus(i, L)
  PROVE  /\ Cardinality(InboxLinks(i) \ L) \in Nat
         /\ Cardinality(InboxLinks(i) \ L) <= MaxEmails
         /\ L # {} => Cardinality(InboxLinks(i) \ L) = MaxEmails
<1> DEFINE A == InboxLinks(i)
<1>1. IsFiniteSet(A) /\ L \subseteq A /\ IsFiniteSet(A \ L)
  <2>1. A \in SUBSET links  BY DEF InboxLinks
  <2>2. IsFiniteSet(A)  BY <2>1, FS_Subset DEF TablesFinite
  <2>3. A \ L \in SUBSET A  OBVIOUS
  <2>4. QED  BY <2>2, <2>3, FS_Subset DEF Surplus
<1>2. Cardinality(A) \in Nat /\ Cardinality(A \ L) \in Nat
  BY <1>1, FS_CardinalityType
<1>3. Cardinality(A \ L) = IF MaxEmails <= Cardinality(A) THEN MaxEmails ELSE Cardinality(A)
  BY <1>2, SmallerOf DEF Surplus, StoreAssumption
<1>4. L # {} => Cardinality(A \ L) # Cardinality(A)
  <2>1. A \ L \in SUBSET A  OBVIOUS
  <2>2. QED  BY <1>1, <2>1, FS_Subset
<1>5. QED  BY <1>2, <1>3, <1>4 DEF StoreAssumption

\* Every message of a mailbox has one link, and it points at the mailbox.
LEMMA OnlyLink ==
  ASSUME TInv, Integrity, NEW x, NEW m \in Inbox(x.id)
  PROVE  /\ m \in emails
         /\ [email |-> m.id, address |-> x.id] \in links
         /\ \A l \in links : l.email = m.id => l = [email |-> m.id, address |-> x.id]
<1>1. PICK l \in links : l.address = x.id /\ l.email = m.id
  BY DEF Inbox
<1>2. m \in emails
  BY DEF Inbox
<1>3. l = [email |-> m.id, address |-> x.id]
  BY <1>1 DEF TInv, TypeOK, Link
<1>4. \A k \in links : k.email = m.id => k = l
  BY <1>1 DEF Integrity
<1>5. QED  BY <1>2, <1>3, <1>4

-----------------------------------------------------------------------------
(* Why a message goes.                                                      *)

\* If the job takes a message, the messages it leaves are at least as new, and
\* there are MaxEmails of them.
LEMMA SurplusIsOlder ==
  ASSUME StoreAssumption, TInv, Integrity, TablesFinite, IdsFresh, NEW x, NEW m \in Inbox(x.id),
         NEW L, Surplus(x.id, L), [email |-> m.id, address |-> x.id] \in L
  PROVE  Cardinality({n \in Inbox(x.id) \ {m} : n.received >= m.received}) >= MaxEmails
<1> DEFINE Left == InboxLinks(x.id) \ L
           Kept == {n \in Inbox(x.id) \ {m} : n.received >= m.received}
           f == [l \in Left |-> CHOOSE n \in emails : n.id = l.email]
<1>1. ASSUME NEW l \in Left
      PROVE  f[l] \in Kept /\ f[l].id = l.email
  <2>1. l \in links /\ l.address = x.id /\ l \notin L
    BY DEF InboxLinks
  <2>2. f[l] \in emails /\ f[l].id = l.email
    BY <2>1 DEF Integrity
  <2>3. f[l] \in Inbox(x.id)
    BY <2>1, <2>2 DEF Inbox
  <2>4. m \in emails /\ IsLinked(m, L)
    BY DEF IsLinked, Inbox
  <2>5. ~IsLinked(f[l], L)
    <3>1. \A k \in L : k \in links  BY DEF Surplus, InboxLinks
    <3>2. QED  BY <2>1, <2>2, <3>1 DEF IsLinked, Integrity
  <2>6. m.received <= f[l].received /\ m.received \in Nat /\ f[l].received \in Nat
    BY <2>2, <2>3, <2>4, <2>5 DEF Surplus, TInv, TypeOK, Email
  <2>7. f[l] # m
    BY <2>4, <2>5
  <2>8. QED  BY <2>2, <2>3, <2>6, <2>7
<1>2. f \in Injection(Left, Kept)
  <2>1. f \in [Left -> Kept]
    BY <1>1
  <2>2. \A l, k \in Left : f[l] = f[k] => l = k
    <3> SUFFICES ASSUME NEW l \in Left, NEW k \in Left, f[l] = f[k] PROVE l = k
      OBVIOUS
    <3>1. l.email = k.email
      BY <1>1
    <3>2. l \in links /\ k \in links
      BY DEF InboxLinks
    <3> HIDE DEF f, Left
    <3>3. QED  BY <3>1, <3>2 DEF Integrity
  <2> HIDE DEF f, Left, Kept
  <2>3. QED  BY <2>1, <2>2 DEF Injection, IsInjective
<1>3. IsFiniteSet(Kept)
  <2>1. Kept \in SUBSET emails  BY DEF Inbox
  <2>2. QED  BY <2>1, FS_Subset DEF TablesFinite
<1>4. Cardinality(Left) = MaxEmails
  BY SurplusLeaves
<1> HIDE DEF Left, Kept, f
<1>5. Cardinality(Left) <= Cardinality(Kept)
  BY <1>2, <1>3, FS_Injection
<1>6. Cardinality(Kept) \in Nat
  BY <1>3, FS_CardinalityType
<1>7. QED  BY <1>4, <1>5, <1>6 DEF Kept, StoreAssumption

LEMMA LossExplained ==
  ASSUME StoreAssumption, TInv, Integrity, IdsFresh, TablesFinite, [Next]_vars,
         NEW x \in addresses, NEW m \in Inbox(x.id), m \notin emails'
  PROVE  Explained(m, x)
<1> DEFINE own == [email |-> m.id, address |-> x.id]
<1>1. /\ m \in emails /\ own \in links
      /\ \A l \in links : l.email = m.id => l = own
  BY OnlyLink
<1>2. own.email = m.id /\ own.address = x.id
  OBVIOUS
<1> HIDE DEF own
\* A message whose link is not deleted stays.
<1>3. ASSUME NEW L, DeleteLinks(L) PROVE own \in L
  BY <1>1, <1>2, <1>3 DEF DeleteLinks, IsLinked
<1>4. ASSUME NEW D \in SUBSET addresses, DropAddresses(D) PROVE x \notin addresses'
  <2>1. PICK y \in D : y.id = own.address /\ own \in links
    BY <1>3, <1>4 DEF DropAddresses
  <2>2. QED  BY <2>1, <1>2, <1>4 DEF DropAddresses, DeleteAddresses, IdsFresh
<1>5. ASSUME Smtp PROVE Explained(m, x)
  <2>1. PICK i \in enforcing : EnforceEmailLimit(i)
    <3>1. ASSUME UNCHANGED mailVars PROVE FALSE
      BY <1>1, <3>1 DEF mailVars
    <3>2. ASSUME NEW s \in Sessions, StoreCommit(s) PROVE FALSE
      BY <1>1, <3>2 DEF StoreCommit, CommitStarting
    <3>3. QED
      BY <1>5, <3>1, <3>2 DEF Smtp, Mail, Reset, StoreSelect, StoreFails, Rcpt, Data,
         MxCrash, EnforceFails
  <2>2. PICK L \in SUBSET InboxLinks(i) : Surplus(i, L) /\ DeleteLinks(L)
    BY <2>1 DEF EnforceEmailLimit
  <2>3. own \in L /\ i = x.id
    BY <1>2, <1>3, <2>2 DEF InboxLinks
  <2>4. QED  BY <2>2, <2>3, SurplusIsOlder DEF own, Explained
<1>6. ASSUME Cleanup PROVE Explained(m, x)
  <2>1. ASSUME EnforceStorageLimit PROVE Explained(m, x)
    BY <1>1, <2>1 DEF EnforceStorageLimit, DeleteEmails, Explained
  <2>2. ASSUME CleanupRetention PROVE Explained(m, x)
    <3>1. own \in Outlived(Permanents) /\ Retention > 0
      BY <1>3, <2>2 DEF CleanupRetention
    <3>2. PICK n \in emails, y \in Permanents :
            n.id = m.id /\ PastRetention(n) /\ y.id = x.id
      BY <1>2, <3>1 DEF Outlived
    <3>3. n = m /\ y = x
      BY <1>1, <3>2 DEF IdsFresh, Permanents
    <3>4. QED  BY <3>1, <3>2, <3>3 DEF Explained, Permanents
  <2>3. ASSUME CleanupExpired PROVE Explained(m, x)
    <3> DEFINE D == {y \in addresses : IsExpired(y)}
    <3>1. D \in SUBSET addresses /\ DropAddresses(D)
      BY <2>3 DEF CleanupExpired
    <3> HIDE DEF D
    <3>2. QED  BY <1>4, <3>1 DEF Explained
  <2>4. QED  BY <1>6, <2>1, <2>2, <2>3 DEF Cleanup
<1>7. ASSUME Api PROVE Explained(m, x)
  <2>1. ASSUME NEW y \in addresses, PurgeMailbox(y) PROVE Explained(m, x)
    <3>1. own \in InboxLinks(y.id)
      BY <1>1, <1>2, <2>1 DEF PurgeMailbox, IsLinked
    <3>2. y = x
      BY <1>2, <3>1 DEF InboxLinks, IdsFresh
    <3>3. QED  BY <2>1, <3>2 DEF Explained
  <2>2. ASSUME NEW y \in addresses, NEW l \in links, OwnerDelete(y, l) PROVE Explained(m, x)
    <3>1. own = l /\ own \in InboxLinks(y.id)
      BY <1>3, <2>2 DEF OwnerDelete
    <3>2. y = x
      BY <1>2, <3>1 DEF InboxLinks, IdsFresh
    <3>3. QED  BY <2>2, <3>1, <3>2 DEF Explained, own
  <2>3. ASSUME NEW n \in emails, AdminDeleteEmail(n) PROVE Explained(m, x)
    <3>1. n = m
      BY <1>1, <2>3 DEF AdminDeleteEmail, DeleteEmails
    <3>2. QED  BY <2>3, <3>1 DEF Explained
  <2>4. ASSUME NEW e, NEW k, Claim(e, k) PROVE FALSE
    BY <1>1, <2>4 DEF Claim, mailVars
  <2>5. ASSUME NEW y \in addresses, Reclaim(y) \/ AdminDeleteAddress(y) PROVE Explained(m, x)
    <3>1. {y} \in SUBSET addresses /\ DropAddresses({y})
      BY <2>5 DEF Reclaim, AdminDeleteAddress
    <3>2. QED  BY <1>4, <3>1 DEF Explained
  <2>6. QED
    BY <1>7, <2>1, <2>2, <2>3, <2>4, <2>5 DEF Api
<1>8. ASSUME Tick \/ UNCHANGED vars PROVE FALSE
  BY <1>1, <1>8 DEF Tick, vars, mailVars
<1>9. QED  BY <1>5, <1>6, <1>7, <1>8 DEF Next

-----------------------------------------------------------------------------
(* The debt of the limit job.                                               *)

LEMMA QuotaStep ==
  ASSUME StoreAssumption, MailInv, TablesFinite, TablesFinite', QuotaOwed, [Next]_vars
  PROVE  QuotaOwed'
<1> SUFFICES ASSUME NEW i \in 1..MaxAddresses, Cardinality(InboxLinks(i)') > MaxEmails
             PROVE  i \in (enforcing \union lost)'
  BY DEF QuotaOwed
<1>1. IsFiniteSet(InboxLinks(i)) /\ IsFiniteSet(InboxLinks(i)')
  <2>1. InboxLinks(i) \in SUBSET links /\ InboxLinks(i)' \in SUBSET links'
    BY DEF InboxLinks
  <2>2. QED  BY <2>1, FS_Subset DEF TablesFinite
<1>2. ASSUME InboxLinks(i)' \subseteq InboxLinks(i) PROVE i \in enforcing \union lost
  <2>1. Cardinality(InboxLinks(i)') <= Cardinality(InboxLinks(i))
    BY <1>1, <1>2, FS_Subset
  <2>2. Cardinality(InboxLinks(i)') \in Nat /\ Cardinality(InboxLinks(i)) \in Nat
    BY <1>1, FS_CardinalityType
  <2>3. QED  BY <2>1, <2>2 DEF QuotaOwed, StoreAssumption
<1>3. ASSUME links' \subseteq links PROVE i \in enforcing \union lost
  BY <1>2, <1>3 DEF InboxLinks
<1>4. ASSUME links' \subseteq links, UNCHANGED jobVars PROVE i \in (enforcing \union lost)'
  BY <1>3, <1>4 DEF jobVars
<1>5. ASSUME NEW s \in Sessions, StoreCommit(s) PROVE i \in (enforcing \union lost)'
  <2>1. CASE i = session[s].found
    BY <1>5, <2>1 DEF StoreCommit, CommitStarting
  <2>2. CASE i # session[s].found
    <3>1. InboxLinks(i)' \subseteq InboxLinks(i)
      BY <1>5, <2>2 DEF StoreCommit, CommitStarting, InboxLinks
    <3>2. QED  BY <1>2, <1>5, <3>1 DEF StoreCommit, CommitStarting
  <2>3. QED  BY <2>1, <2>2
<1>6. ASSUME NEW j \in enforcing, EnforceEmailLimit(j) PROVE i \in (enforcing \union lost)'
  <2>1. PICK L : Surplus(j, L) /\ DeleteLinks(L)
    BY <1>6 DEF EnforceEmailLimit
  <2>2. CASE i = j
    <3>1. InboxLinks(j)' = InboxLinks(j) \ L
      BY <2>1 DEF DeleteLinks, InboxLinks
    <3>2. QED  BY <2>1, <2>2, <3>1, SurplusLeaves DEF StoreAssumption
  <2>3. CASE i # j
    BY <1>3, <1>6, <2>1, <2>3 DEF EnforceEmailLimit, DeleteLinks
  <2>4. QED  BY <2>2, <2>3
<1>7. ASSUME NEW j \in enforcing, EnforceFails(j) PROVE i \in (enforcing \union lost)'
  BY <1>3, <1>7 DEF EnforceFails, mailVars
<1>8. ASSUME MxCrash PROVE i \in (enforcing \union lost)'
  BY <1>3, <1>8 DEF MxCrash, mailVars
<1>9. ASSUME Tick \/ Cleanup \/ Api \/ UNCHANGED vars PROVE i \in (enforcing \union lost)'
  <2>1. links' \subseteq links /\ UNCHANGED jobVars
    BY <1>9 DEF Tick, Cleanup, CleanupExpired, EnforceStorageLimit, CleanupRetention, Api, Claim,
       Reclaim, AdminDeleteAddress, PurgeMailbox, OwnerDelete, AdminDeleteEmail, vars,
       DropAddresses, DeleteLinks, DeleteEmails, mailVars
  <2>2. QED  BY <1>4, <2>1
<1>10. ASSUME UNCHANGED <<mailVars, jobVars>> PROVE i \in (enforcing \union lost)'
  BY <1>4, <1>10 DEF mailVars
<1>11. QED
  BY <1>5, <1>6, <1>7, <1>8, <1>9, <1>10 DEF Next, Smtp, Mail, Reset, StoreSelect, StoreFails,
     Rcpt, Data

-----------------------------------------------------------------------------
LossInv == MailInv /\ TablesFinite /\ QuotaOwed

LEMMA LossInit == Init => LossInv
<1> SUFFICES ASSUME Init PROVE LossInv
  OBVIOUS
<1>1. MailInv
  BY MailInit
<1>2. TablesFinite
  BY FS_EmptySet DEF Init, TablesFinite
<1>3. \A i : InboxLinks(i) = {}
  BY DEF Init, InboxLinks
<1>4. QuotaOwed
  BY <1>3, FS_EmptySet, StoreAssumption DEF QuotaOwed, StoreAssumption
<1>5. QED  BY <1>1, <1>2, <1>4 DEF LossInv

LEMMA LossStep == LossInv /\ [Next]_vars => LossInv'
  BY MailStep, FiniteStep, QuotaStep, StoreAssumption DEF LossInv

\* LossInv holds in every reachable state.
THEOREM LossInvariance == Spec => []LossInv
  BY LossInit, LossStep, PTL DEF Spec

\* Whatever deliveries, jobs and deletes interleave, a message that disappears
\* from a mailbox that stays has one of the reasons its reader can be told.
THEOREM MailLosses == Spec => MailLossExplained
<1>1. LossInv /\ [Next]_vars =>
        [\A x \in addresses : \A m \in Inbox(x.id) : m \notin emails' => Explained(m, x)]_vars
  BY LossExplained, StoreAssumption DEF LossInv, MailInv
<1>2. QED  BY <1>1, LossInvariance, PTL DEF Spec, MailLossExplained

\* A mailbox above its limit is one whose limit job is still to run or was lost
\* to a failure: no interleaving of deliveries and jobs forgets it.
THEOREM QuotaDebt == Spec => []QuotaOwed
<1>1. LossInv => QuotaOwed  BY DEF LossInv
<1>2. QED  BY <1>1, LossInvariance, PTL
=============================================================================
