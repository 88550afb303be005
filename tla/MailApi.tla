------------------------------- MODULE MailApi ------------------------------
(***************************************************************************)
(* The requests of the two inbox pages (web/lib/api.ts) and the server as   *)
(* they see it.  A page awaits each answer in the handler that asked, with  *)
(* the values its closure captured; several handlers may be waiting at once *)
(* and nothing orders or cancels their answers.  So a call is sent, served  *)
(* by the server at one moment and answered to the page at a later one.     *)
(*                                                                          *)
(* The server is external here: AddressBook and MailStore are its models.   *)
(***************************************************************************)
EXTENDS Naturals, FiniteSets

CONSTANTS
  MaxCalls,       \* bound: calls in flight at once
  Boxes,          \* bound: addresses ever created; a box stands for its token too
  Mails,          \* messages
  Hits,           \* those the search string finds
  NoBox, NoMail,
  MaxChanges,     \* bound: removals and expiries no page asked for
  MaxFaults       \* bound: calls refused, failed or lost

ASSUME ApiAssumption ==
  /\ NoBox \notin Boxes /\ NoMail \notin Mails
  /\ Hits \subseteq Mails
  /\ {MaxCalls, MaxChanges, MaxFaults} \subseteq Nat

VARIABLES
  server,         \* what the server keeps
  calls,          \* the calls in flight
  changes, faults

Slots == 1..MaxCalls

apiVars == <<server, calls, changes, faults>>

\* used: every box there has been; perm: the permanent ones; due: temporary ones
\* past expires_at; removed: those an administrator deleted.
Server == [used : SUBSET Boxes, perm : SUBSET Boxes, due : SUBSET Boxes,
           removed : SUBSET Boxes, inbox : [Boxes -> SUBSET Mails],
           arrived : SUBSET Mails]

\* `next` is the handler waiting for the answer, and `by` the page whose it is;
\* `live` is lost when that page is left.  `box`, `mail`, `search` are what is
\* asked for; `list` is the answer to that, or before it the emails of the render
\* the handler belongs to; `quiet` marks a call without spinner, and `held` says
\* that this render had an address.
NoCall == [next |-> "none", by |-> "home", live |-> FALSE, code |-> 0, box |-> NoBox,
           mail |-> NoMail, search |-> FALSE, list |-> {},
           quiet |-> FALSE, held |-> FALSE]

Call == [next : {"none", "mount", "list", "open", "delete", "create", "login", "confirm"},
         by : {"home", "mailbox"}, live : BOOLEAN, code : {0, 200, 404, 500},
         box : Boxes \union {NoBox}, mail : Mails \union {NoMail}, search : BOOLEAN,
         list : SUBSET Mails, quiet : BOOLEAN,
         held : BOOLEAN]

ApiTypeOK ==
  /\ server \in Server
  /\ calls \in [Slots -> Call]
  /\ changes \in 0..MaxChanges /\ faults \in 0..MaxFaults

\* `perms`: the permanent mailboxes there are already.
ApiInit(perms) ==
  /\ server = [used |-> perms, perm |-> perms, due |-> {}, removed |-> {},
               inbox |-> [b \in Boxes |-> {}], arrived |-> {}]
  /\ calls = [c \in Slots |-> NoCall]
  /\ changes = 0
  /\ faults = 0

\* A new call takes the first slot not in use.
FreeOf(cs, c) == cs[c].next = "none" /\ \A d \in 1..(c - 1) : cs[d].next # "none"
Free(c) == FreeOf(calls, c)
Answered(c, page, handler) ==
  calls[c].by = page /\ calls[c].next = handler /\ calls[c].code # 0

\* The token is of an address that exists and has not expired.
Open == server.used \ (server.due \union server.removed)

Matches(S, search) == IF search THEN S \intersect Hits ELSE S

-----------------------------------------------------------------------------
(* What each function of the client resolves to, or the status of the error  *)
(* it throws: 500 stands for every status no page tells apart, and for none. *)

Answer(c, code) == calls' = [calls EXCEPT ![c].code = code]

listEmails(c) ==
  /\ calls[c].next = "list"
  /\ calls' = [calls EXCEPT ![c].code = IF calls[c].box \in Open THEN 200 ELSE 404,
                            ![c].list = IF calls[c].box \in Open
                                        THEN Matches(server.inbox[calls[c].box],
                                                     calls[c].search)
                                        ELSE {}]
  /\ UNCHANGED server

Has(c) == calls[c].box \in Open /\ calls[c].mail \in server.inbox[calls[c].box]

getEmail(c) ==
  /\ calls[c].next = "open"
  /\ Answer(c, IF Has(c) THEN 200 ELSE 404)
  /\ UNCHANGED server

deleteEmail(c) ==
  /\ calls[c].next = "delete"
  /\ Answer(c, IF Has(c) THEN 200 ELSE 404)
  /\ server' = IF Has(c)
               THEN [server EXCEPT !.inbox[calls[c].box] = @ \ {calls[c].mail}]
               ELSE server

\* The error of getAddressInfo carries no status: `error.status` is undefined.
getAddressInfo(c) ==
  /\ calls[c].next \in {"login", "confirm"}
  /\ Answer(c, IF calls[c].box \in Open THEN 200 ELSE 500)
  /\ UNCHANGED server

NewBox(c, b, permanent) ==
  /\ calls[c].next = "create"
  /\ b \in Boxes \ server.used
  /\ calls' = [calls EXCEPT ![c].code = 200, ![c].box = b]
  /\ server' = [server EXCEPT !.used = @ \union {b},
                              !.perm = IF permanent THEN @ \union {b} ELSE @]

createAddress(c) ==
  calls[c].by = "home" /\ \E b \in Boxes : NewBox(c, b, FALSE)

createPermanentAddress(c) ==
  calls[c].by = "mailbox" /\ \E b \in Boxes : NewBox(c, b, TRUE)

\* Where the bound on addresses ends: the rate limit refuses.
NoneLeft(c) ==
  /\ calls[c].next = "create"
  /\ server.used = Boxes
  /\ Answer(c, 500)
  /\ UNCHANGED server

\* The server handles a call ...
Serve(c) ==
  /\ calls[c].code = 0
  /\ \/ listEmails(c) \/ getEmail(c) \/ deleteEmail(c) \/ getAddressInfo(c)
     \/ createAddress(c) \/ createPermanentAddress(c) \/ NoneLeft(c)
  /\ UNCHANGED <<changes, faults>>

\* ... or refuses it (409, 429, 5xx), or the answer is lost after it was handled.
Fail(c) ==
  /\ calls[c].next \notin {"none", "mount"} /\ calls[c].code # 500
  /\ faults < MaxFaults
  /\ Answer(c, 500)
  /\ faults' = faults + 1
  /\ UNCHANGED <<server, changes>>

-----------------------------------------------------------------------------
(* What happens to the mailboxes meanwhile.                                  *)

Change(s) ==
  /\ changes < MaxChanges
  /\ changes' = changes + 1
  /\ server' = s
  /\ UNCHANGED <<calls, faults>>

Arrive(m, b) ==
  /\ m \notin server.arrived /\ b \in Open
  /\ server' = [server EXCEPT !.inbox[b] = @ \union {m}, !.arrived = @ \union {m}]
  /\ UNCHANGED <<calls, changes, faults>>

\* Storage cap, retention, the limit per mailbox, or the administrator.
Vanish(m, b) ==
  /\ m \in server.inbox[b]
  /\ Change([server EXCEPT !.inbox[b] = @ \ {m}])

Expire(b) ==
  /\ b \in server.used \ (server.perm \union server.due)
  /\ Change([server EXCEPT !.due = @ \union {b}])

Remove(b) ==
  /\ b \in Open
  /\ Change([server EXCEPT !.removed = @ \union {b}])

World ==
  \/ \E b \in Boxes : Expire(b) \/ Remove(b)
  \/ \E m \in Mails, b \in Boxes : Arrive(m, b) \/ Vanish(m, b)
=============================================================================
