----------------------------- MODULE PublicPages ----------------------------
(***************************************************************************)
(* One browser on the two inbox pages.  Following a link unmounts the page   *)
(* that is left: its hooks and its interval are gone, but its handlers still *)
(* run to their end and write to localStorage.  A reload drops them.         *)
(***************************************************************************)
EXTENDS HomePage, MailboxPage

CONSTANTS
  MaxActs,        \* bound: what the user does
  Sessions        \* what an earlier visit may have left in localStorage

ASSUME PagesAssumption ==
  MaxActs \in Nat /\ Sessions \subseteq Boxes \union {NoBox}

VARIABLES
  page,           \* the page shown; "other" is one without an inbox
  acts

vars == <<apiVars, homeVars, boxVars, page, acts>>

TypeOK ==
  /\ ApiTypeOK /\ HomeTypeOK /\ BoxTypeOK
  /\ page \in {"home", "mailbox", "other"}
  /\ acts \in 0..MaxActs

Init ==
  /\ \E b \in Sessions : ApiInit({b} \ {NoBox}) /\ BoxInit(b)
  /\ HomeInit
  /\ page = "other"
  /\ acts = 0

Act == acts < MaxActs /\ acts' = acts + 1

-----------------------------------------------------------------------------
Orphaned == [c \in Slots |-> [calls[c] EXCEPT !.live = FALSE]]
NoneWaits == [c \in Slots |-> NoCall]

\* A page is mounted: its first effect asks for the setup status.
Visit(kept, p) ==
  /\ page' = p
  /\ home' = HomeBlank
  /\ box' = BoxBlank
  /\ IF p = "other" THEN calls' = kept
     ELSE \E c \in Slots :
            /\ FreeOf(kept, c)
            /\ calls' = [kept EXCEPT ![c] =
                 [NoCall EXCEPT !.next = "mount", !.by = p, !.live = TRUE]]

Link(p) == p # page /\ Visit(Orphaned, p)
Reload == page # "other" /\ Visit(NoneWaits, page)

Browse ==
  /\ Act
  /\ Reload \/ \E p \in {"home", "mailbox", "other"} : Link(p)
  /\ UNCHANGED <<homeStored, homeStray, boxStored, boxStray, server, changes, faults>>

Ours == UNCHANGED <<server, changes, faults, page>>

HomeActs ==
  /\ page = "home" /\ Act
  /\ HomeSetting \/ \E c \in Slots : HomeUser(c)
  /\ Ours /\ UNCHANGED boxVars

BoxActs ==
  /\ page = "mailbox" /\ Act
  /\ logout \/ BoxSetting \/ \E c \in Slots : BoxUser(c)
  /\ Ours /\ UNCHANGED homeVars

HomeTicks ==
  /\ page = "home"
  /\ \E c \in Slots : HomeTick(c)
  /\ Ours /\ UNCHANGED <<boxVars, acts>>

BoxTicks ==
  /\ page = "mailbox"
  /\ \E c \in Slots : BoxTick(c)
  /\ Ours /\ UNCHANGED <<homeVars, acts>>

HomeHears(c) ==
  /\ initInbox(c) \/ HomeAnswer(c)
  /\ UNCHANGED <<boxVars, page, acts>>

BoxHears(c) ==
  /\ BoxRestore(c) \/ BoxAnswer(c)
  /\ UNCHANGED <<homeVars, page, acts>>

Outside ==
  /\ World \/ \E c \in Slots : Fail(c)
  /\ UNCHANGED <<homeVars, boxVars, page, acts>>

Served(c) == Serve(c) /\ UNCHANGED <<homeVars, boxVars, page, acts>>

Next ==
  \/ Browse \/ HomeActs \/ BoxActs \/ HomeTicks \/ BoxTicks \/ Outside
  \/ \E c \in Slots : HomeHears(c) \/ BoxHears(c) \/ Served(c)

Spec == Init /\ [][Next]_vars

\* The event loop runs what is due and every request is answered or fails; the
\* interval keeps firing.  Nobody has to do anything.
Fairness ==
  /\ WF_vars(HomeTicks) /\ WF_vars(BoxTicks)
  /\ \A c \in Slots : WF_vars(HomeHears(c)) /\ WF_vars(BoxHears(c)) /\ WF_vars(Served(c))

FairSpec == Spec /\ Fairness

-----------------------------------------------------------------------------
\* On either page what is shown is what a reload would restore, and a spinner that is
\* lit has a handler that will put it out.
StoredIsShown == HomeStoredIsShown /\ BoxSessionIsStored
SpinnersEnd == HomeSpinnerEnds /\ BoxSpinnersEnd

\* In the end the list is the inbox of the address shown, searched for what is in the
\* field, whatever was answered late, refused, or stored for another address; as long
\* as the interval was started with that search.  The effect (page.tsx:94-107) leaves the
\* search out of its dependencies, so a search typed since is undone by the next tick.
HomeListSettles ==
  <>[](page = "home" /\ home.timer.box \in Open /\ home.timer.search = home.search
         => home.emails = Matches(server.inbox[home.address], home.search))

\* The same for the permanent mailbox, searched for what is in the field.
BoxListSettles ==
  <>[](page = "mailbox" /\ box.auto /\ box.token \in Open
         => box.emails = Matches(server.inbox[box.token], box.search))

ListsSettle == HomeListSettles /\ BoxListSettles

Watching(S) == page = "home" /\ home.timer.box # NoBox /\ home.address \in S

\* An address that expires while the page refreshes itself is replaced, even when
\* an attempt to create one fails.
ExpiredIsReplaced ==
  Watching(server.due) ~> (~Watching(server.due) \/ server.used = Boxes)

\* The comments at page.tsx:164 and page.tsx:196: an address whose token /info does
\* not know either is rotated.
GoneIsReplaced ==
  Watching(server.removed) ~> (~Watching(server.removed) \/ server.used = Boxes)
=============================================================================
