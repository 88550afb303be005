------------------------------ MODULE MailStore ------------------------------
(***************************************************************************)
(* Mail from the DATA command of an SMTP session (mx/session.go,            *)
(* mx/database.go) to its removal by the owner, the administrator, the      *)
(* per-mailbox limit of the mail server or a job of api/app/cleanup.py.     *)
(*                                                                          *)
(* Claims of addresses are single steps here: AddressBook shows that the    *)
(* handlers of the API implement them.  What a transaction of PostgreSQL    *)
(* commits is one step; StoreEmail is two, because the row it looks up can  *)
(* be deleted before its own insert takes the foreign key lock.             *)
(***************************************************************************)
EXTENDS AddressTable, FiniteSets, Sequences, FiniteSetsExt

CONSTANTS
  Sessions,       \* SMTP connections
  MaxRecipients,  \* RCPT commands one transaction may hold
  MaxEmails,      \* tempmail.max_emails_per_address
  MaxStorage,     \* tempmail.max_storage_mb in units of Sizes, 0 = no cap
  Retention,      \* tempmail.permanent_email_retention_days, in ticks, 0 = off
  Sizes,          \* sizes a message can have
  MaxAttempts,    \* bound: DATA commands ever accepted
  MaxFaults       \* bound: crashes of the mail server and failed limit jobs

ASSUME StoreAssumption ==
  /\ Sizes \subseteq Nat
  /\ MaxEmails \in Nat \ {0}
  /\ {MaxRecipients, MaxStorage, Retention, MaxAttempts, MaxFaults} \subseteq Nat

VARIABLES
  emails,         \* table emails
  links,          \* table email_recipients
  nextEmail,      \* id of the next email row
  session,        \* what each SMTP session holds
  nextAttempt,    \* number of the next DATA command
  enforcing,      \* mailboxes for which an EnforceEmailLimit goroutine waits
  faults,         \* failures so far
  lost,           \* history: mailboxes whose last EnforceEmailLimit was lost
  stored,         \* history: <<attempt, recipient>> pairs ever committed
  acked           \* history: DATA commands answered with 250

mailVars == <<emails, links, nextEmail>>
jobVars  == <<enforcing, faults, lost>>
logVars  == <<stored, acked>>
vars == <<tableVars, mailVars, session, nextAttempt, jobVars, logVars>>

-----------------------------------------------------------------------------
(* Rows and what the statements select.                                     *)

Email == [id : Nat, to : Names, attempt : Nat, received : Nat, size : Sizes]
Link  == [email : Nat, address : Nat]

\* pc: idle, rcpt (MAIL FROM accepted), store (about to store to[next]),
\* link (its transaction found the row `found`).
NoMail == [pc |-> "idle", to |-> <<>>, next |-> 1, attempt |-> 0,
           received |-> 0, size |-> 0, found |-> 0]

Session == [pc : {"idle", "rcpt", "store", "link"}, to : Seq(Names), next : Nat,
            attempt : Nat, received : Nat, size : Sizes \union {0}, found : Nat]

TypeOK ==
  /\ TableTypeOK
  /\ emails \subseteq Email
  /\ links \subseteq Link
  /\ nextEmail \in Nat \ {0}
  /\ session \in [Sessions -> Session]
  /\ nextAttempt \in Nat \ {0}
  /\ enforcing \subseteq Nat
  /\ faults \in Nat
  /\ lost \subseteq Nat
  /\ stored \subseteq Nat \X Names
  /\ acked \subseteq [attempt : Nat, to : Seq(Names)]

Init ==
  /\ TableInit
  /\ emails = {}
  /\ links = {}
  /\ nextEmail = 1
  /\ session = [s \in Sessions |-> NoMail]
  /\ nextAttempt = 1
  /\ enforcing = {}
  /\ faults = 0
  /\ lost = {}
  /\ stored = {}
  /\ acked = {}

InboxLinks(i) == {l \in links : l.address = i}
Inbox(i) == {m \in emails : \E l \in links : l.address = i /\ l.email = m.id}
IsLinked(m, L) == \E l \in L : l.email = m.id

\* ORDER BY received_at DESC, id DESC
Newer(m, n) == m.received > n.received \/ (m.received = n.received /\ m.id > n.id)

Usage(E) == MapThenSumSet(LAMBDA m : m.size, E)

-----------------------------------------------------------------------------
(* Deletes, with ON DELETE CASCADE and trigger_delete_orphaned_emails.      *)

\* Mutant of DeleteLinks: the trigger is missing.
DeleteLinksOnly(L) ==
  /\ links' = links \ L
  /\ UNCHANGED <<emails, nextEmail>>

\* DELETE FROM email_recipients: the trigger drops an email with its last link.
DeleteLinks(L) ==
  /\ links' = links \ L
  /\ emails' = {m \in emails : IsLinked(m, L) => IsLinked(m, links \ L)}
  /\ UNCHANGED nextEmail

\* DELETE FROM emails.
DeleteEmails(E) ==
  /\ emails' = emails \ E
  /\ links' = {l \in links : \A m \in E : m.id # l.email}
  /\ UNCHANGED nextEmail

\* DELETE FROM addresses, with everything that hangs on the rows of D.
DropAddresses(D) ==
  /\ DeleteAddresses(D)
  /\ DeleteLinks({l \in links : \E x \in D : x.id = l.address})

-----------------------------------------------------------------------------
(* The SMTP session.                                                        *)

Become(s, x) == session' = [session EXCEPT ![s] = x]

\* Session.Mail
Mail(s) ==
  /\ session[s].pc = "idle"
  /\ Become(s, [NoMail EXCEPT !.pc = "rcpt"])
  /\ UNCHANGED <<tableVars, mailVars, nextAttempt, jobVars, logVars>>

\* Mutant of Rcpt: a repeated recipient is queued again.
RcptAgain(s, e) ==
  /\ session[s].pc = "rcpt"
  /\ Len(session[s].to) < MaxRecipients
  /\ \E x \in RowsOf(e) : Accepts(x)
  /\ Become(s, [session[s] EXCEPT !.to = Append(@, e)])
  /\ UNCHANGED <<tableVars, mailVars, nextAttempt, jobVars, logVars>>

\* Session.Rcpt for an address of an accepted domain.  A recipient that does
\* not exist, or has expired, is refused and changes nothing; one that is
\* already queued is accepted and not queued twice.
Rcpt(s, e) ==
  /\ session[s].pc = "rcpt"
  /\ Len(session[s].to) < MaxRecipients
  /\ \E x \in RowsOf(e) : Accepts(x)
  /\ \A i \in 1..Len(session[s].to) : session[s].to[i] # e
  /\ Become(s, [session[s] EXCEPT !.to = Append(@, e)])
  /\ UNCHANGED <<tableVars, mailVars, nextAttempt, jobVars, logVars>>

\* RSET, QUIT, a lost connection, a new MAIL FROM, and DATA refused before
\* anything is stored (size, rate limit, MIME parts, parse error).
Reset(s) ==
  /\ session[s].pc = "rcpt"
  /\ Become(s, NoMail)
  /\ UNCHANGED <<tableVars, mailVars, nextAttempt, jobVars, logVars>>

\* Session.Data up to the loop: received_at is stamped once per message.
Data(s, z) ==
  /\ session[s].pc = "rcpt"
  /\ session[s].to # <<>>
  /\ nextAttempt <= MaxAttempts
  /\ Become(s, [session[s] EXCEPT !.pc = "store", !.next = 1, !.size = z,
                  !.attempt = nextAttempt, !.received = clock])
  /\ nextAttempt' = nextAttempt + 1
  /\ UNCHANGED <<tableVars, mailVars, jobVars, logVars>>

\* Mutant of StoreSelect: every copy is linked to the first recipient.
StoreSelectFirst(s) ==
  /\ session[s].pc = "store"
  /\ \E x \in RowsOf(Head(session[s].to)) :
       /\ Accepts(x)
       /\ Become(s, [session[s] EXCEPT !.pc = "link", !.found = x.id])
  /\ UNCHANGED <<tableVars, mailVars, nextAttempt, jobVars, logVars>>

\* StoreEmail: BEGIN, INSERT INTO emails (seen by nobody yet), getAddress.
StoreSelect(s) ==
  /\ session[s].pc = "store"
  /\ \E x \in RowsOf(session[s].to[session[s].next]) :
       /\ Accepts(x)
       /\ Become(s, [session[s] EXCEPT !.pc = "link", !.found = x.id])
  /\ UNCHANGED <<tableVars, mailVars, nextAttempt, jobVars, logVars>>

\* StoreEmail: the link, the attachments, COMMIT, and the goroutine `limit` it
\* leaves behind.  The foreign key refuses the link of a row that is gone.
CommitStarting(s, limit) ==
  LET x == session[s]
      recipient == x.to[x.next]
  IN
  /\ x.pc = "link"
  /\ \E row \in addresses : row.id = x.found
  /\ emails' = emails \union
       {[id |-> nextEmail, to |-> recipient, attempt |-> x.attempt,
         received |-> x.received, size |-> x.size]}
  /\ links' = links \union {[email |-> nextEmail, address |-> x.found]}
  /\ nextEmail' = nextEmail + 1
  /\ enforcing' = enforcing \union {limit}
  /\ stored' = stored \union {<<x.attempt, recipient>>}
  /\ IF x.next = Len(x.to)
     THEN /\ acked' = acked \union {[attempt |-> x.attempt, to |-> x.to]}
          /\ Become(s, NoMail)
     ELSE /\ Become(s, [x EXCEPT !.pc = "store", !.next = @ + 1, !.found = 0])
          /\ UNCHANGED acked
  /\ UNCHANGED <<tableVars, nextAttempt, faults, lost>>

\* Mutant of StoreCommit: the limit job is started with the name, not the id.
StoreCommitByName(s) == CommitStarting(s, session[s].to[session[s].next])

StoreCommit(s) == CommitStarting(s, session[s].found)

\* Mutant of StoreFails: the error of one recipient is logged and skipped.
StoreFailsSkips(s) ==
  LET x == session[s] IN
  /\ x.pc \in {"store", "link"}
  /\ IF x.next = Len(x.to)
     THEN /\ acked' = acked \union {[attempt |-> x.attempt, to |-> x.to]}
          /\ Become(s, NoMail)
     ELSE /\ Become(s, [x EXCEPT !.pc = "store", !.next = @ + 1, !.found = 0])
          /\ UNCHANGED acked
  /\ UNCHANGED <<tableVars, mailVars, nextAttempt, jobVars, stored>>

\* StoreEmail returns an error: the address is gone or expired, or the database
\* failed.  The answer is 451 for the whole message; what earlier recipients
\* got stays, and the sender will try all of them again.
StoreFails(s) ==
  /\ session[s].pc \in {"store", "link"}
  /\ Become(s, NoMail)
  /\ UNCHANGED <<tableVars, mailVars, nextAttempt, jobVars, logVars>>

\* The process dies: open transactions roll back, goroutines vanish.
MxCrash ==
  /\ faults < MaxFaults
  /\ faults' = faults + 1
  /\ session' = [s \in Sessions |-> NoMail]
  /\ enforcing' = {}
  /\ lost' = lost \union enforcing
  /\ UNCHANGED <<tableVars, mailVars, nextAttempt, logVars>>

-----------------------------------------------------------------------------
(* The per-mailbox limit.                                                   *)

\* Mutants of Surplus: it keeps one message too many; it keeps the oldest.
SurplusLess(i, L) ==
  /\ L \subseteq InboxLinks(i)
  /\ Cardinality(InboxLinks(i) \ L) = Min({MaxEmails + 1, Cardinality(InboxLinks(i))})

SurplusNewest(i, L) ==
  /\ L \subseteq InboxLinks(i)
  /\ Cardinality(InboxLinks(i) \ L) = Min({MaxEmails, Cardinality(InboxLinks(i))})
  /\ \A m \in Inbox(i), n \in Inbox(i) :
       IsLinked(m, L) /\ ~IsLinked(n, L) => m.received >= n.received

\* ORDER BY received_at DESC OFFSET MaxEmails: of equally old messages any may
\* be the one that stays.
Surplus(i, L) ==
  /\ L \subseteq InboxLinks(i)
  /\ Cardinality(InboxLinks(i) \ L) = Min({MaxEmails, Cardinality(InboxLinks(i))})
  /\ \A m \in Inbox(i), n \in Inbox(i) :
       IsLinked(m, L) /\ ~IsLinked(n, L) => m.received <= n.received

EnforceEmailLimit(i) ==
  /\ i \in enforcing
  /\ \E L \in SUBSET InboxLinks(i) : Surplus(i, L) /\ DeleteLinks(L)
  /\ enforcing' = enforcing \ {i}
  /\ lost' = lost \ {i}
  /\ UNCHANGED <<tableVars, session, nextAttempt, faults, logVars>>

\* It fails: a warning is logged and nobody tries again.
EnforceFails(i) ==
  /\ faults < MaxFaults
  /\ i \in enforcing
  /\ faults' = faults + 1
  /\ enforcing' = enforcing \ {i}
  /\ lost' = lost \union {i}
  /\ UNCHANGED <<tableVars, mailVars, session, nextAttempt, logVars>>

-----------------------------------------------------------------------------
(* The jobs of cleanup.py: the loop, and the buttons of the admin panel.    *)

CleanupExpired ==
  /\ \E x \in addresses : IsExpired(x)
  /\ DropAddresses({x \in addresses : IsExpired(x)})
  /\ UNCHANGED <<session, nextAttempt, jobVars, logVars>>

\* Mutant of EnforceStorageLimit: the running sum leaves out the row itself.
EnforceStorageLimitLate ==
  /\ MaxStorage > 0
  /\ Usage(emails) > MaxStorage
  /\ DeleteEmails({m \in emails : Usage({n \in emails : Newer(n, m)}) > MaxStorage})
  /\ UNCHANGED <<tableVars, session, nextAttempt, jobVars, logVars>>

\* enforce_storage_limit(): SUM(size_bytes) OVER (newest first) > limit
EnforceStorageLimit ==
  /\ MaxStorage > 0
  /\ Usage(emails) > MaxStorage
  /\ DeleteEmails({m \in emails :
       Usage({n \in emails : n = m \/ Newer(n, m)}) > MaxStorage})
  /\ UNCHANGED <<tableVars, session, nextAttempt, jobVars, logVars>>

\* cleanup_permanent_email_retention()
PastRetention(m) == m.received + Retention < clock

\* Links of messages past retention, in the mailboxes of X.
Outlived(X) ==
  {l \in links :
     /\ \E m \in emails : m.id = l.email /\ PastRetention(m)
     /\ \E x \in X : x.id = l.address}

\* Mutant of CleanupRetention: it takes the temporary mailboxes.
CleanupRetentionTemp ==
  /\ Retention > 0
  /\ DeleteLinks(Outlived(addresses \ Permanents))
  /\ UNCHANGED <<tableVars, session, nextAttempt, jobVars, logVars>>

CleanupRetention ==
  LET old == Outlived(Permanents) IN
  /\ Retention > 0
  /\ old # {}
  /\ DeleteLinks(old)
  /\ UNCHANGED <<tableVars, session, nextAttempt, jobVars, logVars>>

-----------------------------------------------------------------------------
(* The API: claims, and deletes by the owner and the administrator.         *)

Claim(e, k) ==
  /\ InsertAddress(e, k)
  /\ UNCHANGED <<mailVars, session, nextAttempt, jobVars, logVars>>

\* A claimant takes over the name of an expired address.
Reclaim(x) ==
  /\ IsExpired(x)
  /\ DropAddresses({x})
  /\ UNCHANGED <<session, nextAttempt, jobVars, logVars>>

AdminDeleteAddress(x) ==
  /\ DropAddresses({x})
  /\ UNCHANGED <<session, nextAttempt, jobVars, logVars>>

\* DELETE /{token}/emails/{id}: the link, then the message if nobody else has it.
OwnerDelete(x, l) ==
  /\ ~IsExpired(x)
  /\ l \in InboxLinks(x.id)
  /\ DeleteLinks({l})
  /\ UNCHANGED <<tableVars, session, nextAttempt, jobVars, logVars>>

AdminDeleteEmail(m) ==
  /\ DeleteEmails({m})
  /\ UNCHANGED <<tableVars, session, nextAttempt, jobVars, logVars>>

\* purge_permanent_emails: all links, then every message without a recipient.
PurgeMailbox(x) ==
  /\ x.kind = "permanent"
  /\ InboxLinks(x.id) # {}
  /\ links' = links \ InboxLinks(x.id)
  /\ emails' = {m \in emails : IsLinked(m, links')}
  /\ UNCHANGED <<tableVars, nextEmail, session, nextAttempt, jobVars, logVars>>

Tick ==
  /\ PassTime
  /\ UNCHANGED <<mailVars, session, nextAttempt, jobVars, logVars>>

-----------------------------------------------------------------------------
Smtp ==
  \/ \E s \in Sessions :
       Mail(s) \/ Reset(s) \/ StoreSelect(s) \/ StoreCommit(s) \/ StoreFails(s)
  \/ \E s \in Sessions, e \in Names : Rcpt(s, e)
  \/ \E s \in Sessions, z \in Sizes : Data(s, z)
  \/ MxCrash
  \/ \E i \in enforcing : EnforceEmailLimit(i) \/ EnforceFails(i)

Cleanup == CleanupExpired \/ EnforceStorageLimit \/ CleanupRetention

Api ==
  \/ \E e \in Names, k \in {"temp", "permanent"} : Claim(e, k)
  \/ \E x \in addresses : Reclaim(x) \/ AdminDeleteAddress(x) \/ PurgeMailbox(x)
  \/ \E x \in addresses, l \in links : OwnerDelete(x, l)
  \/ \E m \in emails : AdminDeleteEmail(m)

Next == Tick \/ Smtp \/ Cleanup \/ Api

Spec == Init /\ [][Next]_vars

\* Goroutines are scheduled and the cleanup thread loops for ever; clients,
\* owners and the administrator promise nothing.
FairSpec ==
  /\ Spec
  /\ \A i \in 1..MaxAddresses : WF_vars(EnforceEmailLimit(i))
  /\ WF_vars(CleanupExpired)
  /\ WF_vars(EnforceStorageLimit)
  /\ WF_vars(CleanupRetention)

-----------------------------------------------------------------------------
(* Properties.                                                              *)

\* No link dangles, and every email is in exactly one mailbox: StoreEmail makes
\* a row per recipient, and whichever way a link goes the trigger or a cascade
\* takes the message with it, so no unreadable mail fills the disk.
Integrity ==
  /\ \A l \in links : \E x \in addresses : x.id = l.address
  /\ \A l \in links : \E m \in emails : m.id = l.email
  /\ \A m \in emails : \E l \in links : l.email = m.id
  /\ \A l, k \in links : l.email = k.email => l = k

\* A mailbox holds only mail sent to its own name, although the row id used by
\* the insert was read earlier and rows come and go in between.
InboxIsOwn ==
  \A l \in links, m \in emails, x \in addresses :
    l.email = m.id /\ l.address = x.id => m.to = x.email

\* 250 is answered only when every accepted recipient was committed.
AckedMeansStored ==
  \A a \in acked : \A i \in 1..Len(a.to) : <<a.attempt, a.to[i]>> \in stored

\* One DATA command stores one copy per recipient, however often the client
\* repeated the RCPT command.  (A retry after 451 is a new DATA command, and may
\* store a second copy for the recipients served before the failure.)
OneCopyPerAttempt ==
  \A m, n \in emails : m.attempt = n.attempt /\ m.to = n.to => m = n

\* A mailbox above its limit is one for which the limit job is still to run, or
\* whose job was lost to a failure and has not run since.
QuotaOwed ==
  \A i \in 1..MaxAddresses :
    Cardinality(InboxLinks(i)) > MaxEmails => i \in enforcing \union lost

\* Mail disappears only for a reason its reader can be told: the mailbox went,
\* somebody deleted the message, MaxEmails messages at least as new are in the
\* mailbox, newer mail fills the storage cap, or it outlived the retention of a
\* permanent mailbox.  In particular no job touches live mail of another kind.
Explained(m, x) ==
  \/ x \notin addresses'
  \/ OwnerDelete(x, [email |-> m.id, address |-> x.id])
  \/ AdminDeleteEmail(m)
  \/ PurgeMailbox(x)
  \/ Cardinality({n \in Inbox(x.id) \ {m} : n.received >= m.received}) >= MaxEmails
  \/ MaxStorage > 0 /\ Usage({n \in emails : n = m \/ Newer(n, m)}) > MaxStorage
  \/ x.kind = "permanent" /\ Retention > 0 /\ PastRetention(m)

MailLossExplained ==
  [][\A x \in addresses : \A m \in Inbox(x.id) : m \notin emails' => Explained(m, x)]_vars

\* A mailbox above its limit is brought back to it unless the job is lost.
QuotaRestored ==
  \A i \in 1..MaxAddresses :
    Cardinality(InboxLinks(i)) > MaxEmails
      ~> Cardinality(InboxLinks(i)) <= MaxEmails \/ i \in lost

\* Storage above the cap is brought back under it by the cleanup loop.
StorageRestored ==
  MaxStorage > 0 => (Usage(emails) > MaxStorage ~> Usage(emails) <= MaxStorage)

\* No message of a permanent mailbox outlives the retention period for ever.
RetentionHonoured ==
  Retention > 0 =>
    \A i \in 1..MaxAttempts * MaxRecipients :
      (\E x \in Permanents : \E m \in Inbox(x.id) : m.id = i /\ PastRetention(m))
        ~> (\A m \in emails : m.id # i)
=============================================================================
