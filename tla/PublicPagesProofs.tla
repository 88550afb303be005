-------------------------- MODULE PublicPagesProofs -------------------------
(***************************************************************************)
(* Proofs about PublicPages, for every set of addresses and of messages,    *)
(* any number of calls in flight and any bound on what users and server do. *)
(* The hooks of a page change by single fields, so what is kept of types is *)
(* which fields there are.                                                  *)
(***************************************************************************)
EXTENDS PublicPages, TLAPS

Fields == {"next", "by", "live", "code", "box", "mail", "search", "list", "quiet", "held"}
HomeHooks == {"ready", "address", "emails", "selected", "loading", "search", "auto",
              "dialog", "timer"}
BoxHooks == {"ready", "token", "created", "emails", "detail", "loadingEmails", "busy",
             "search", "auto", "failedLogin"}

IsCall(x) == DOMAIN x = Fields /\ x.live \in BOOLEAN /\ x.quiet \in BOOLEAN

Shaped ==
  /\ DOMAIN calls = Slots
  /\ \A c \in Slots : IsCall(calls[c])
  /\ DOMAIN home = HomeHooks
  /\ DOMAIN box = BoxHooks

\* A slot changes alone.
Slot(c, x) ==
  /\ DOMAIN calls' = Slots /\ calls'[c] = x /\ IsCall(x)
  /\ \A d \in Slots \ {c} : calls'[d] = calls[d]

LEMMA SlotSet ==
  ASSUME Shaped, NEW c \in Slots, NEW x, IsCall(x), calls' = [calls EXCEPT ![c] = x]
  PROVE  Slot(c, x)
  BY DEF Shaped, Slot

LEMMA NoCallShape == IsCall(NoCall) /\ NoCall.next = "none" /\ NoCall.live = FALSE
  BY DEF NoCall, IsCall, Fields

-----------------------------------------------------------------------------
(* What the handlers of the temporary inbox do.                             *)

\* A user or the interval starts one.
HomeOpens(c) ==
  /\ calls[c].next = "none"
  /\ \E x :
       /\ Slot(c, x)
       /\ x.by = "home" /\ x.live = TRUE /\ x.next \notin {"none", "mount"}
       /\ home' = home \/ (home' = [home EXCEPT !.loading = TRUE] /\ x.quiet = FALSE)
  /\ home.address # NoBox \/ home.dialog = TRUE \/ home.timer.box # NoBox
  /\ UNCHANGED <<homeStored, homeStray>>

\* What the temporary inbox asks for.
HomeListing(x, quiet) ==
  IsCall(x) /\ x.by = "home" /\ x.live = TRUE /\ x.next = "list" /\ x.quiet = quiet
HomeCreating(x) ==
  IsCall(x) /\ x.by = "home" /\ x.live = TRUE /\ x.next = "create" /\ x.quiet = FALSE

LEMMA HomeCallIs ==
  ASSUME NEW b, NEW s, NEW quiet \in BOOLEAN, NEW held
  PROVE  HomeListing(HomeFetch(b, s, quiet), quiet) /\ HomeCreating(CreateCall(s, held))
<1>1. \A k, bx : DOMAIN HomeCall(k, bx) = Fields /\ HomeCall(k, bx).next = k
        /\ HomeCall(k, bx).by = "home" /\ HomeCall(k, bx).live = TRUE
        /\ HomeCall(k, bx).quiet = FALSE
  BY NoCallShape DEF HomeCall, IsCall, Fields, NoCall
<1> DEFINE f == HomeCall("list", b)
           g == HomeCall("create", NoBox)
<1>2. /\ DOMAIN f = Fields /\ f.next = "list" /\ f.by = "home" /\ f.live = TRUE
      /\ DOMAIN g = Fields /\ g.next = "create" /\ g.by = "home" /\ g.live = TRUE
      /\ g.quiet = FALSE
  BY <1>1
<1>3. /\ HomeFetch(b, s, quiet) = [[f EXCEPT !.search = s] EXCEPT !.quiet = quiet]
      /\ CreateCall(s, held) = [[g EXCEPT !.search = s] EXCEPT !.held = held]
  BY DEF HomeFetch, CreateCall
<1> DEFINE m == [f EXCEPT !.search = s]
           n == [g EXCEPT !.search = s]
<1> HIDE DEF f, g
<1>4. /\ DOMAIN m = Fields /\ m.next = "list" /\ m.by = "home" /\ m.live = TRUE
      /\ DOMAIN n = Fields /\ n.next = "create" /\ n.by = "home" /\ n.live = TRUE
      /\ n.quiet = FALSE
  BY <1>2 DEF Fields
<1> HIDE DEF m, n
<1>5. LET z == [m EXCEPT !.quiet = quiet]
      IN  IsCall(z) /\ z.next = "list" /\ z.by = "home" /\ z.live = TRUE /\ z.quiet = quiet
  BY <1>4 DEF IsCall, Fields
<1>6. LET z == [n EXCEPT !.held = held]
      IN  IsCall(z) /\ z.next = "create" /\ z.by = "home" /\ z.live = TRUE /\ z.quiet = FALSE
  BY <1>4 DEF IsCall, Fields
<1>7. QED  BY <1>3, <1>5, <1>6 DEF m, n, HomeListing, HomeCreating

LEMMA HomeOpening ==
  ASSUME Shaped, NEW c \in Slots, HomeUser(c) \/ HomeTick(c)
  PROVE  HomeOpens(c)
<1>1. ASSUME NEW x, Free(c), calls' = [calls EXCEPT ![c] = x], IsCall(x), x.by = "home",
             x.live = TRUE, x.next \notin {"none", "mount"},
             UNCHANGED <<homeStored, homeStray>>,
             home' = home \/ (home' = [home EXCEPT !.loading = TRUE] /\ x.quiet = FALSE),
             home.address # NoBox \/ home.dialog = TRUE \/ home.timer.box # NoBox
      PROVE  HomeOpens(c)
  BY <1>1, SlotSet DEF Free, FreeOf, HomeOpens
<1>2. CASE HomeTick(c)
  <2>0. \/ /\ Send(c, CreateCall(home.timer.search, TRUE))
           /\ home' = [home EXCEPT !.loading = TRUE]
        \/ /\ Send(c, HomeFetch(home.timer.box, home.timer.search, TRUE))
           /\ home' = home
    BY <1>2 DEF HomeTick
  <2>1. PICK x :
          /\ Send(c, x)
          /\ IsCall(x) /\ x.by = "home" /\ x.live = TRUE /\ x.next \in {"list", "create"}
          /\ home' = home \/ (home' = [home EXCEPT !.loading = TRUE] /\ x.quiet = FALSE)
    <3>1. CASE Send(c, CreateCall(home.timer.search, TRUE))
               /\ home' = [home EXCEPT !.loading = TRUE]
      <4>1. HomeCreating(CreateCall(home.timer.search, TRUE))
        BY HomeCallIs
      <4>2. QED  BY <3>1, <4>1 DEF HomeCreating
    <3>2. CASE Send(c, HomeFetch(home.timer.box, home.timer.search, TRUE)) /\ home' = home
      <4>1. HomeListing(HomeFetch(home.timer.box, home.timer.search, TRUE), TRUE)
        BY HomeCallIs
      <4>2. QED  BY <3>2, <4>1 DEF HomeListing
    <3>3. QED  BY <2>0, <3>1, <3>2
  <2>2. Free(c) /\ calls' = [calls EXCEPT ![c] = x] /\ home.timer.box # NoBox
        /\ UNCHANGED <<homeStored, homeStray>>
    BY <1>2, <2>1 DEF HomeTick, Send
  <2>3. QED  BY <1>1, <2>1, <2>2
<1>3. CASE HomeRefresh(c) \/ HomeEnter(c)
  <2> PICK x : Send(c, x) /\ x = HomeFetch(home.address, home.search, FALSE)
    BY <1>3 DEF HomeRefresh, HomeEnter
  <2>1. IsCall(x) /\ x.by = "home" /\ x.live = TRUE /\ x.next = "list" /\ x.quiet = FALSE
    BY HomeCallIs DEF HomeListing
  <2>2. home' = [home EXCEPT !.loading = TRUE] /\ home.address # NoBox
        /\ UNCHANGED <<homeStored, homeStray>>
    BY <1>3 DEF HomeRefresh, HomeEnter, HomeListControls
  <2>3. QED  BY <1>1, <2>1, <2>2 DEF Send
<1>4. CASE HomeGenerate(c)
  <2> PICK x : Send(c, x) /\ x = CreateCall(home.search, FALSE)
    BY <1>4 DEF HomeGenerate
  <2>1. IsCall(x) /\ x.by = "home" /\ x.live = TRUE /\ x.next = "create" /\ x.quiet = FALSE
    BY DEF CreateCall, HomeCall, NoCall, IsCall, Fields
  <2>2. home' = [home EXCEPT !.loading = TRUE] /\ UNCHANGED <<homeStored, homeStray>>
    BY <1>4 DEF HomeGenerate
  <2>3. home.dialog
    BY <1>4 DEF HomeGenerate, HomeDialogControls
  <2>4. QED  BY <1>1, <2>1, <2>2, <2>3 DEF Send
<1>5. CASE HomeDelete(c)
  <2> PICK x : Send(c, x) /\ x = [HomeCall("delete", home.address) EXCEPT
                !.mail = home.selected, !.list = home.emails, !.quiet = TRUE]
    BY <1>5 DEF HomeDelete
  <2>1. IsCall(x) /\ x.by = "home" /\ x.live = TRUE /\ x.next = "delete"
    BY DEF HomeCall, NoCall, IsCall, Fields
  <2>2. home' = home /\ home.address # NoBox /\ UNCHANGED <<homeStored, homeStray>>
    BY <1>5 DEF HomeDelete, HomeDetailControls
  <2>3. QED  BY <1>1, <2>1, <2>2 DEF Send
<1>6. ASSUME NEW m \in Mails, HomeClick(c, m) PROVE HomeOpens(c)
  <2> PICK x : Send(c, x) /\ x = [HomeCall("open", home.address) EXCEPT
                                    !.mail = m, !.list = home.emails]
    BY <1>6 DEF HomeClick
  <2>1. IsCall(x) /\ x.by = "home" /\ x.live = TRUE /\ x.next = "open" /\ x.quiet = FALSE
    BY DEF HomeCall, NoCall, IsCall, Fields
  <2>2. home' = [home EXCEPT !.loading = TRUE] /\ home.address # NoBox
        /\ UNCHANGED <<homeStored, homeStray>>
    BY <1>6 DEF HomeClick, HomeRows
  <2>3. QED  BY <1>1, <2>1, <2>2 DEF Send
<1>7. QED  BY <1>2, <1>3, <1>4, <1>5, <1>6 DEF HomeUser

\* An answer comes: the handler ends or goes on, and a page that was left is not
\* touched.  What the page shows as its address is what is stored, or neither
\* changes; a spinner goes out, or the handler is one that goes on with it.
HomeShows(c) ==
  \/ home'.address = homeStored'
  \/ home'.ready = home.ready /\ home'.address = home.address /\ homeStored' = homeStored
  \/ calls[c].next = "mount" /\ home'.address = home.address /\ homeStored' = NoBox

HomeSpins(c, x) ==
  \/ home'.loading = FALSE
  \/ home'.loading = home.loading /\ (calls[c].quiet \/ (x.next # "none" /\ x.quiet = FALSE))
  \/ x.next # "none" /\ x.quiet = FALSE

HomeMoves(c) ==
  /\ calls[c].by = "home" /\ calls[c].next # "none"
  /\ homeStray => homeStray'
  /\ \E x :
       /\ Slot(c, x) /\ x.next # "mount"
       /\ IF x.next = "none" THEN x.live = FALSE ELSE x.by = "home" /\ x.live = calls[c].live
       /\ \/ ~calls[c].live /\ home' = home /\ (homeStored' = homeStored \/ homeStray')
          \/ calls[c].live /\ DOMAIN home' = HomeHooks /\ HomeShows(c) /\ HomeSpins(c, x)

LEMMA HomeMoving ==
  ASSUME Shaped, NEW c \in Slots, initInbox(c) \/ HomeAnswer(c)
  PROVE  HomeMoves(c)
<1>0. /\ DOMAIN home = HomeHooks /\ IsCall(calls[c]) /\ DOMAIN calls = Slots
      /\ calls[c].live \in BOOLEAN /\ calls[c].quiet \in BOOLEAN
  BY DEF Shaped, IsCall
<1>1. CASE initInbox(c)
  <2>1. ASSUME homeStored \in server.used \ server.due,
               Seen(c, [home EXCEPT !.ready = TRUE, !.address = homeStored, !.loading = TRUE]),
               GoOn(c, [HomeFetch(homeStored, FALSE, FALSE) EXCEPT !.held = FALSE]),
               UNCHANGED <<homeStored, homeStray>>
        PROVE  HomeMoves(c)
    <3> DEFINE x == [[HomeFetch(homeStored, FALSE, FALSE) EXCEPT !.held = FALSE]
                       EXCEPT !.live = calls[c].live]
    <3>1. /\ IsCall(x) /\ x.next = "list" /\ x.by = "home" /\ x.quiet = FALSE
          /\ x.live = calls[c].live
      BY <1>0 DEF HomeFetch, HomeCall, NoCall, IsCall, Fields
    <3>2. calls' = [calls EXCEPT ![c] = x]
      BY <2>1 DEF GoOn
    <3> HIDE DEF x
    <3>3. Slot(c, x)
      BY <3>1, <3>2, SlotSet
    <3>4. ~calls[c].live => home' = home
      BY <2>1 DEF Seen
    <3>5. calls[c].live => DOMAIN home' = HomeHooks /\ home'.address = homeStored
      BY <1>0, <2>1 DEF Seen, Armed, HomeHooks
    <3>6. QED  BY <1>1, <2>1, <3>1, <3>3, <3>4, <3>5 DEF HomeMoves, HomeShows, HomeSpins, initInbox
  <2>2. ASSUME Seen(c, [home EXCEPT !.ready = TRUE, !.loading = TRUE]),
               GoOn(c, CreateCall(FALSE, FALSE)),
               homeStored' = NoBox,
               homeStray' = (homeStray \/ (~calls[c].live /\ homeStored # NoBox))
        PROVE  HomeMoves(c)
    <3> DEFINE x == [CreateCall(FALSE, FALSE) EXCEPT !.live = calls[c].live]
    <3>1. /\ IsCall(x) /\ x.next = "create" /\ x.by = "home" /\ x.quiet = FALSE
          /\ x.live = calls[c].live
      BY <1>0 DEF CreateCall, HomeCall, NoCall, IsCall, Fields
    <3>2. calls' = [calls EXCEPT ![c] = x]
      BY <2>2 DEF GoOn
    <3> HIDE DEF x
    <3>3. Slot(c, x)
      BY <3>1, <3>2, SlotSet
    <3>4. ~calls[c].live => home' = home /\ (homeStored' = homeStored \/ homeStray')
      BY <2>2 DEF Seen
    <3>5. calls[c].live => DOMAIN home' = HomeHooks /\ home'.address = home.address
      BY <1>0, <2>2 DEF Seen, Armed, HomeHooks
    <3>6. QED  BY <1>1, <2>2, <3>1, <3>3, <3>4, <3>5 DEF HomeMoves, HomeShows, HomeSpins, initInbox
  <2>3. QED  BY <1>1, <2>1, <2>2 DEF initInbox
<1>2. ASSUME Answered(c, "home", "list") \/ Answered(c, "home", "open")
               \/ Answered(c, "home", "delete") \/ Answered(c, "home", "confirm")
               \/ Answered(c, "home", "create")
      PROVE  calls[c].by = "home" /\ calls[c].next \notin {"none", "mount"}
  BY <1>2 DEF Answered
\* The handler ends.
<1>3. ASSUME NEW h, Finish(c, h), DOMAIN h = HomeHooks, h.ready = home.ready,
             h.address = home.address, h.loading = home.loading,
             UNCHANGED <<homeStored, homeStray>>, calls[c].by = "home",
             calls[c].next \notin {"none", "mount"}
      PROVE  HomeMoves(c)
  <2>1. Slot(c, NoCall)
    BY <1>3, NoCallShape, SlotSet DEF Finish, Done
  <2>2. ~calls[c].live => home' = home
    BY <1>3 DEF Finish, Seen
  <2>3. calls[c].live => /\ DOMAIN home' = HomeHooks /\ home'.ready = home.ready
                         /\ home'.address = home.address
                         /\ home'.loading = IF calls[c].quiet THEN home.loading ELSE FALSE
    BY <1>3 DEF Finish, Seen, Armed, HomeHooks
  <2>4. calls[c].live => HomeShows(c) /\ HomeSpins(c, NoCall)
    BY <1>3, <2>3 DEF HomeShows, HomeSpins
  <2>5. QED  BY <1>3, <2>1, <2>2, <2>3, <2>4, NoCallShape DEF HomeMoves
\* It asks whether the address is gone.
<1>4. ASSUME Confirm(c), UNCHANGED <<homeStored, homeStray>>, calls[c].by = "home",
             calls[c].next \notin {"none", "mount"}
      PROVE  HomeMoves(c)
  <2> DEFINE x == [calls[c] EXCEPT !.next = "confirm", !.code = 0]
  <2>1. IsCall(x) /\ x.next = "confirm" /\ x.by = "home" /\ x.live = calls[c].live
        /\ x.quiet = calls[c].quiet
    BY <1>0, <1>4 DEF IsCall, Fields
  <2>2. Slot(c, x)
    BY <1>0, <1>4, <2>1 DEF Confirm, Slot, Shaped
  <2>3. home' = home
    BY <1>4 DEF Confirm
  <2> HIDE DEF x
  <2>4. HomeShows(c) /\ HomeSpins(c, x)
    BY <1>0, <1>4, <2>1, <2>3 DEF HomeShows, HomeSpins
  <2>5. QED  BY <1>0, <1>4, <2>1, <2>2, <2>3, <2>4 DEF HomeMoves
\* The views it may leave.
<1>5. ASSUME NEW h, \/ h = home
                   \/ h = [home EXCEPT !.emails = calls[c].list]
                   \/ h = [home EXCEPT !.selected = calls[c].mail, !.emails = calls[c].list]
                   \/ h = [home EXCEPT !.emails = calls[c].list \ {calls[c].mail},
                                       !.selected = NoMail]
      PROVE  /\ DOMAIN h = HomeHooks /\ h.ready = home.ready /\ h.address = home.address
             /\ h.loading = home.loading
  BY <1>0, <1>5 DEF HomeHooks
<1>6. CASE HomeListAnswer(c)
  <2>1. (\E h : h = [home EXCEPT !.emails = calls[c].list] /\ Finish(c, h))
          \/ Confirm(c) \/ Finish(c, home)
    BY <1>6 DEF HomeListAnswer
  <2>2. QED  BY <1>2, <1>3, <1>4, <1>5, <1>6, <2>1 DEF HomeListAnswer
<1>7. CASE HomeOpenAnswer(c)
  <2>1. (\E h : h = [home EXCEPT !.selected = calls[c].mail, !.emails = calls[c].list]
                 /\ Finish(c, h))
          \/ Confirm(c) \/ Finish(c, home)
    BY <1>7 DEF HomeOpenAnswer
  <2>2. QED  BY <1>2, <1>3, <1>4, <1>5, <1>7, <2>1 DEF HomeOpenAnswer
<1>8. CASE HomeDeleteAnswer(c)
  <2>1. (\E h : h = [home EXCEPT !.emails = calls[c].list \ {calls[c].mail},
                                 !.selected = NoMail]
                 /\ Finish(c, h))
          \/ Confirm(c) \/ Finish(c, home)
    BY <1>8 DEF HomeDeleteAnswer
  <2>2. QED  BY <1>2, <1>3, <1>4, <1>5, <1>8, <2>1 DEF HomeDeleteAnswer
<1>9. CASE HomeConfirmAnswer(c)
  <2>1. CASE calls[c].code = 404 /\ calls[c].held
    <3> DEFINE x == [CreateCall(calls[c].search, TRUE) EXCEPT !.live = calls[c].live]
    <3>1. /\ IsCall(x) /\ x.next = "create" /\ x.by = "home" /\ x.quiet = FALSE
          /\ x.live = calls[c].live
      BY <1>0 DEF CreateCall, HomeCall, NoCall, IsCall, Fields
    <3>2. calls' = [calls EXCEPT ![c] = x]
      BY <1>9, <2>1 DEF HomeConfirmAnswer, HomeGone, GoOn
    <3> HIDE DEF x
    <3>3. Slot(c, x)
      BY <3>1, <3>2, SlotSet
    <3>4. Seen(c, [home EXCEPT !.loading = TRUE]) /\ UNCHANGED <<homeStored, homeStray>>
      BY <1>9, <2>1 DEF HomeConfirmAnswer, HomeGone
    <3>5. ~calls[c].live => home' = home
      BY <3>4 DEF Seen
    <3>6. calls[c].live => DOMAIN home' = HomeHooks /\ home'.ready = home.ready
                             /\ home'.address = home.address
      BY <1>0, <3>4 DEF Seen, Armed, HomeHooks
    <3>7. calls[c].live => HomeShows(c) /\ HomeSpins(c, x)
      BY <3>1, <3>4, <3>6 DEF HomeShows, HomeSpins
    <3>8. QED  BY <1>2, <1>9, <3>1, <3>3, <3>4, <3>5, <3>6, <3>7 DEF HomeMoves, HomeConfirmAnswer
  <2>2. CASE ~(calls[c].code = 404 /\ calls[c].held)
    BY <1>0, <1>2, <1>3, <1>5, <1>9, <2>2 DEF HomeConfirmAnswer, HomeGone
  <2>3. QED  BY <2>1, <2>2
<1>10. CASE HomeCreateAnswer(c)
  <2>1. ASSUME Keep(c),
               Seen(c, [home EXCEPT !.address = calls[c].box, !.emails = {},
                          !.selected = NoMail, !.dialog = FALSE, !.loading = FALSE]),
               GoOn(c, [HomeFetch(calls[c].box, calls[c].search, FALSE)
                          EXCEPT !.held = calls[c].held])
        PROVE  HomeMoves(c)
    <3> DEFINE x == [[HomeFetch(calls[c].box, calls[c].search, FALSE)
                       EXCEPT !.held = calls[c].held] EXCEPT !.live = calls[c].live]
    <3>1. /\ IsCall(x) /\ x.next = "list" /\ x.by = "home" /\ x.quiet = FALSE
          /\ x.live = calls[c].live
      BY <1>0 DEF HomeFetch, HomeCall, NoCall, IsCall, Fields
    <3>2. calls' = [calls EXCEPT ![c] = x]
      BY <2>1 DEF GoOn
    <3> HIDE DEF x
    <3>3. Slot(c, x)
      BY <3>1, <3>2, SlotSet
    <3>4. ~calls[c].live => home' = home
      BY <2>1 DEF Seen
    <3>5. calls[c].live => DOMAIN home' = HomeHooks /\ home'.address = calls[c].box
      BY <1>0, <2>1 DEF Seen, Armed, HomeHooks
    <3>6. homeStored' = calls[c].box /\ (homeStray => homeStray')
          /\ (~calls[c].live => homeStray')
      BY <2>1 DEF Keep
    <3>7. calls[c].live => HomeShows(c) /\ HomeSpins(c, x)
      BY <3>1, <3>5, <3>6 DEF HomeShows, HomeSpins
    <3>8. QED  BY <1>2, <1>10, <3>1, <3>3, <3>4, <3>5, <3>6, <3>7 DEF HomeMoves, HomeCreateAnswer
  <2>2. QED  BY <1>0, <1>2, <1>3, <1>5, <1>10, <2>1 DEF HomeCreateAnswer
<1>11. QED  BY <1>1, <1>6, <1>7, <1>8, <1>9, <1>10 DEF HomeAnswer

-----------------------------------------------------------------------------
(* The same for the permanent mailbox.                                      *)

BoxLoads(x) == x.next = "list" /\ x.quiet = FALSE
BoxEnters(x) == x.next \in {"create", "login"}

BoxOpens(c) ==
  /\ calls[c].next = "none"
  /\ \E x :
       /\ Slot(c, x)
       /\ x.by = "mailbox" /\ x.live = TRUE /\ x.next \notin {"none", "mount"}
       /\ DOMAIN box' = BoxHooks /\ box'.ready = box.ready /\ box'.token = box.token
       /\ box'.loadingEmails = box.loadingEmails \/ BoxLoads(x)
       /\ box'.busy = box.busy \/ BoxEnters(x)
  /\ UNCHANGED <<boxStored, boxStray>>

LEMMA BoxOpening ==
  ASSUME Shaped, NEW c \in Slots, BoxUser(c) \/ BoxTick(c)
  PROVE  BoxOpens(c)
<1>0. DOMAIN box = BoxHooks
  BY DEF Shaped
<1>1. ASSUME NEW x, Free(c), calls' = [calls EXCEPT ![c] = x], IsCall(x), x.by = "mailbox",
             x.live = TRUE, x.next \notin {"none", "mount"},
             UNCHANGED <<boxStored, boxStray>>,
             DOMAIN box' = BoxHooks, box'.ready = box.ready, box'.token = box.token,
             box'.loadingEmails = box.loadingEmails \/ BoxLoads(x),
             box'.busy = box.busy \/ BoxEnters(x)
      PROVE  BoxOpens(c)
  BY <1>1, SlotSet DEF Free, FreeOf, BoxOpens
<1>2. CASE BoxTick(c)
  <2> PICK x : /\ Free(c) /\ calls' = [calls EXCEPT ![c] = x]
               /\ x = [[NoCall EXCEPT !.search = box.search, !.quiet = TRUE]
                         EXCEPT !.next = "list", !.by = "mailbox", !.live = TRUE,
                                !.box = box.token]
    BY <1>2 DEF BoxTick, BoxFetch, BoxSend
  <2>1. IsCall(x) /\ x.by = "mailbox" /\ x.live = TRUE /\ x.next = "list"
    BY DEF NoCall, IsCall, Fields
  <2>2. QED  BY <1>0, <1>1, <1>2, <2>1 DEF BoxTick
<1>3. CASE BoxRefresh(c)
  <2> PICK x : /\ Free(c) /\ calls' = [calls EXCEPT ![c] = x]
               /\ x = [[NoCall EXCEPT !.search = box.search, !.quiet = FALSE]
                         EXCEPT !.next = "list", !.by = "mailbox", !.live = TRUE,
                                !.box = box.token]
    BY <1>3 DEF BoxRefresh, BoxFetch, BoxSend
  <2>1. IsCall(x) /\ x.by = "mailbox" /\ x.live = TRUE /\ BoxLoads(x)
    BY DEF NoCall, IsCall, Fields, BoxLoads
  <2>2. DOMAIN box' = BoxHooks /\ box'.ready = box.ready /\ box'.token = box.token
        /\ box'.busy = box.busy
    BY <1>0, <1>3 DEF BoxRefresh, BoxHooks
  <2>3. QED  BY <1>1, <1>3, <2>1, <2>2 DEF BoxRefresh, BoxLoads
<1>4. CASE BoxClear(c)
  <2> PICK x : /\ Free(c) /\ calls' = [calls EXCEPT ![c] = x]
               /\ x = [[NoCall EXCEPT !.search = FALSE, !.quiet = FALSE]
                         EXCEPT !.next = "list", !.by = "mailbox", !.live = TRUE,
                                !.box = box.token]
    BY <1>4 DEF BoxClear, BoxFetch, BoxSend
  <2>1. IsCall(x) /\ x.by = "mailbox" /\ x.live = TRUE /\ BoxLoads(x)
    BY DEF NoCall, IsCall, Fields, BoxLoads
  <2>2. DOMAIN box' = BoxHooks /\ box'.ready = box.ready /\ box'.token = box.token
        /\ box'.busy = box.busy
    BY <1>0, <1>4 DEF BoxClear, BoxHooks
  <2>3. QED  BY <1>1, <1>4, <2>1, <2>2 DEF BoxClear, BoxLoads
<1>5. ASSUME NEW b, NEW k \in {"create", "login"}, BoxSend(c, k, b, NoCall),
             box' = [box EXCEPT !.busy = TRUE, !.failedLogin = FALSE],
             UNCHANGED <<boxStored, boxStray>>
      PROVE  BoxOpens(c)
  <2> PICK x : /\ Free(c) /\ calls' = [calls EXCEPT ![c] = x]
               /\ x = [NoCall EXCEPT !.next = k, !.by = "mailbox", !.live = TRUE, !.box = b]
    BY <1>5 DEF BoxSend
  <2>1. IsCall(x) /\ x.by = "mailbox" /\ x.live = TRUE /\ BoxEnters(x)
    BY DEF NoCall, IsCall, Fields, BoxEnters
  <2>2. DOMAIN box' = BoxHooks /\ box'.ready = box.ready /\ box'.token = box.token
        /\ box'.loadingEmails = box.loadingEmails
    BY <1>0, <1>5 DEF BoxHooks
  <2>3. x.next \notin {"none", "mount"}
    BY <2>1 DEF BoxEnters
  <2>4. QED  BY <1>1, <1>5, <2>1, <2>2, <2>3
<1>6. ASSUME NEW m, NEW k \in {"open", "delete"},
             BoxSend(c, k, box.token, [NoCall EXCEPT !.mail = m, !.list = box.emails,
                                                     !.quiet = TRUE]),
             box' = box, UNCHANGED <<boxStored, boxStray>>
      PROVE  BoxOpens(c)
  <2> PICK x : /\ Free(c) /\ calls' = [calls EXCEPT ![c] = x]
               /\ x = [[NoCall EXCEPT !.mail = m, !.list = box.emails, !.quiet = TRUE]
                         EXCEPT !.next = k, !.by = "mailbox", !.live = TRUE,
                                !.box = box.token]
    BY <1>6 DEF BoxSend
  <2>1. IsCall(x) /\ x.by = "mailbox" /\ x.live = TRUE /\ x.next = k
    BY DEF NoCall, IsCall, Fields
  <2>2. QED  BY <1>0, <1>1, <1>6, <2>1
<1>7. handleCreate(c) => BoxOpens(c)
  BY <1>5 DEF handleCreate
<1>8. ASSUME NEW b \in Boxes, handleLogin(c, b) PROVE BoxOpens(c)
  BY <1>5, <1>8 DEF handleLogin
<1>9. BoxDelete(c) => BoxOpens(c)
  BY <1>6 DEF BoxDelete
<1>10. ASSUME NEW m \in Mails, BoxClick(c, m) PROVE BoxOpens(c)
  BY <1>6, <1>10 DEF BoxClick
<1>11. QED  BY <1>2, <1>3, <1>4, <1>7, <1>8, <1>9, <1>10 DEF BoxUser

BoxShows(c) ==
  \/ box'.token = boxStored'
  \/ box'.ready = box.ready /\ box'.token = box.token /\ boxStored' = boxStored
  \/ box'.token = box.token /\ boxStored = NoBox /\ boxStored' = NoBox

BoxSpins(c, x) ==
  /\ \/ box'.loadingEmails = FALSE
     \/ BoxLoads(x)
     \/ box'.loadingEmails = box.loadingEmails /\ ~BoxLoads(calls[c])
  /\ \/ box'.busy = FALSE
     \/ box'.busy = box.busy /\ ~BoxEnters(calls[c])

BoxMoves(c) ==
  /\ calls[c].by = "mailbox" /\ calls[c].next # "none"
  /\ boxStray => boxStray'
  /\ \E x :
       /\ Slot(c, x) /\ x.next # "mount"
       /\ IF x.next = "none" THEN x.live = FALSE ELSE x.by = "mailbox" /\ x.live = calls[c].live
       /\ \/ ~calls[c].live /\ box' = box /\ (boxStored' = boxStored \/ boxStray')
          \/ calls[c].live /\ DOMAIN box' = BoxHooks /\ BoxShows(c) /\ BoxSpins(c, x)

LEMMA BoxMoving ==
  ASSUME Shaped, NEW c \in Slots, BoxRestore(c) \/ BoxAnswer(c)
  PROVE  BoxMoves(c)
<1>0. /\ DOMAIN box = BoxHooks /\ IsCall(calls[c]) /\ DOMAIN calls = Slots
      /\ calls[c].live \in BOOLEAN /\ calls[c].quiet \in BOOLEAN
  BY DEF Shaped, IsCall
<1>1. calls[c].by = "mailbox" /\ calls[c].next # "none"
  BY DEF BoxRestore, BoxAnswer, BoxListAnswer, BoxOpenAnswer, BoxDeleteAnswer,
     BoxCreateAnswer, BoxLoginAnswer, Answered
\* The handler ends, or goes on with the list.
<1>2. ASSUME BoxDone(c) PROVE Slot(c, NoCall)
  BY <1>2, NoCallShape, SlotSet DEF BoxDone
<1>3. ASSUME NEW b, BoxList(c, b)
      PROVE  \E x : Slot(c, x) /\ BoxLoads(x) /\ x.by = "mailbox" /\ x.live = calls[c].live
  <2> PICK x : calls' = [calls EXCEPT ![c] = x] /\ x = [NoCall EXCEPT !.next = "list",
                 !.by = "mailbox", !.live = calls[c].live, !.box = b]
    BY <1>3 DEF BoxList
  <2>1. IsCall(x) /\ BoxLoads(x) /\ x.by = "mailbox" /\ x.live = calls[c].live
    BY <1>0 DEF NoCall, IsCall, Fields, BoxLoads
  <2>2. QED  BY <2>1, SlotSet
<1>4. ASSUME NEW b, BoxStore(c, b)
      PROVE  boxStored' = b /\ (boxStray => boxStray')
               /\ (~calls[c].live => boxStored' = boxStored \/ boxStray')
  BY <1>4 DEF BoxStore
\* It ends with the view v.
<1>5. ASSUME NEW v, BoxSeen(c, v), BoxDone(c), DOMAIN v = BoxHooks,
             v.loadingEmails = FALSE
               \/ (v.loadingEmails = box.loadingEmails /\ ~BoxLoads(calls[c])),
             v.busy = FALSE \/ (v.busy = box.busy /\ ~BoxEnters(calls[c])),
             \/ UNCHANGED <<boxStored, boxStray>> /\ v.ready = box.ready /\ v.token = box.token
             \/ BoxStore(c, NoBox) /\ v.token = NoBox
             \/ UNCHANGED <<boxStored, boxStray>> /\ v.token = box.token /\ boxStored = NoBox
      PROVE  BoxMoves(c)
  <2>1. Slot(c, NoCall)
    BY <1>2, <1>5
  <2>2. CASE ~calls[c].live
    BY <1>1, <1>4, <1>5, <2>1, <2>2, NoCallShape DEF BoxSeen, BoxMoves
  <2>3. CASE calls[c].live
    <3>1. box' = v
      BY <1>5, <2>3 DEF BoxSeen
    <3>2. BoxShows(c) /\ BoxSpins(c, NoCall) /\ (boxStray => boxStray')
      BY <1>4, <1>5, <3>1 DEF BoxShows, BoxSpins
    <3>3. QED  BY <1>1, <1>5, <2>1, <2>3, <3>1, <3>2, NoCallShape DEF BoxMoves
  <2>4. QED  BY <2>2, <2>3
\* It was answered 404.
<1>6. ASSUME NEW v, BoxNotFound(c, v), DOMAIN v = BoxHooks,
             v.loadingEmails = FALSE
               \/ (v.loadingEmails = box.loadingEmails /\ ~BoxLoads(calls[c])),
             v.busy = box.busy, ~BoxEnters(calls[c])
      PROVE  BoxMoves(c)
  <2> PICK w : w = LoggedOut([v EXCEPT !.failedLogin = TRUE])
    OBVIOUS
  <2>1. DOMAIN w = BoxHooks /\ w.loadingEmails = v.loadingEmails /\ w.busy = v.busy
        /\ w.token = NoBox
    BY <1>6 DEF LoggedOut, BoxHooks
  <2>2. BoxSeen(c, w) /\ BoxStore(c, NoBox) /\ BoxDone(c)
    BY <1>6 DEF BoxNotFound
  <2>3. QED  BY <1>5, <1>6, <2>1, <2>2
\* The session is in use, and its list is asked for.
<1>7. ASSUME NEW v, BoxEnter(c, v), DOMAIN v = BoxHooks PROVE BoxMoves(c)
  <2> PICK w : w = [v EXCEPT !.token = calls[c].box, !.busy = FALSE, !.loadingEmails = TRUE]
    OBVIOUS
  <2>1. DOMAIN w = BoxHooks /\ w.token = calls[c].box /\ w.busy = FALSE
    BY <1>7 DEF BoxHooks
  <2>2. BoxSeen(c, w) /\ BoxStore(c, calls[c].box) /\ BoxList(c, calls[c].box)
    BY <1>7 DEF BoxEnter
  <2>3. PICK x : Slot(c, x) /\ BoxLoads(x) /\ x.by = "mailbox" /\ x.live = calls[c].live
    BY <1>3, <2>2
  <2>4. boxStored' = calls[c].box /\ (boxStray => boxStray')
        /\ (~calls[c].live => boxStored' = boxStored \/ boxStray')
    BY <1>4, <2>2
  <2>5. x.next \notin {"none", "mount"}
    BY <2>3 DEF BoxLoads
  <2>6. CASE ~calls[c].live
    BY <1>1, <2>2, <2>3, <2>4, <2>5, <2>6 DEF BoxSeen, BoxMoves
  <2>7. CASE calls[c].live
    <3>1. box' = w
      BY <2>2, <2>7 DEF BoxSeen
    <3>2. BoxShows(c) /\ BoxSpins(c, x)
      BY <2>1, <2>3, <2>4, <3>1 DEF BoxShows, BoxSpins
    <3>3. QED  BY <1>1, <2>1, <2>3, <2>4, <2>5, <2>7, <3>1, <3>2 DEF BoxMoves
  <2>8. QED  BY <2>6, <2>7
<1>8. CASE BoxRestore(c)
  <2>1. calls[c].next = "mount" /\ UNCHANGED <<boxStored, boxStray>>
    BY <1>8 DEF BoxRestore
  <2>2. CASE boxStored # NoBox
    <3> PICK w : w = [box EXCEPT !.ready = TRUE, !.token = boxStored,
                                 !.loadingEmails = TRUE]
      OBVIOUS
    <3>1. DOMAIN w = BoxHooks /\ w.token = boxStored /\ w.busy = box.busy
      BY <1>0 DEF BoxHooks
    <3>2. BoxSeen(c, w) /\ BoxList(c, boxStored)
      BY <1>8, <2>2 DEF BoxRestore
    <3>3. PICK x : Slot(c, x) /\ BoxLoads(x) /\ x.by = "mailbox" /\ x.live = calls[c].live
      BY <1>3, <3>2
    <3>4. x.next \notin {"none", "mount"} /\ ~BoxEnters(calls[c])
      BY <2>1, <3>3 DEF BoxLoads, BoxEnters
    <3>5. CASE ~calls[c].live
      BY <1>1, <2>1, <3>2, <3>3, <3>4, <3>5 DEF BoxSeen, BoxMoves
    <3>6. CASE calls[c].live
      <4>1. box' = w
        BY <3>2, <3>6 DEF BoxSeen
      <4>2. BoxShows(c) /\ BoxSpins(c, x)
        BY <2>1, <3>1, <3>3, <3>4, <4>1 DEF BoxShows, BoxSpins
      <4>3. QED  BY <1>1, <2>1, <3>1, <3>3, <3>4, <3>6, <4>1, <4>2 DEF BoxMoves
    <3>7. QED  BY <3>5, <3>6
  <2>3. CASE boxStored = NoBox
    <3> PICK w : w = [box EXCEPT !.ready = TRUE]
      OBVIOUS
    <3>1. DOMAIN w = BoxHooks /\ w.token = box.token /\ w.busy = box.busy
          /\ w.loadingEmails = box.loadingEmails
      BY <1>0 DEF BoxHooks
    <3>2. BoxSeen(c, w) /\ BoxDone(c)
      BY <1>8, <2>3 DEF BoxRestore
    <3>3. ~BoxLoads(calls[c]) /\ ~BoxEnters(calls[c])
      BY <2>1 DEF BoxLoads, BoxEnters
    <3>4. QED  BY <1>5, <2>1, <2>3, <3>1, <3>2, <3>3
  <2>4. QED  BY <2>2, <2>3
\* The views an answer may leave.
<1>9. ASSUME NEW v, \/ v = box
                   \/ v = [box EXCEPT !.emails = calls[c].list]
                   \/ v = [box EXCEPT !.detail = calls[c].mail, !.emails = calls[c].list]
                   \/ v = [box EXCEPT !.emails = calls[c].list \ {calls[c].mail},
                                      !.detail = NoMail]
                   \/ v = [box EXCEPT !.created = calls[c].box]
                   \/ v = [box EXCEPT !.failedLogin = TRUE]
      PROVE  /\ DOMAIN v = BoxHooks /\ v.ready = box.ready /\ v.token = box.token
             /\ v.loadingEmails = box.loadingEmails /\ v.busy = box.busy
  BY <1>0, <1>9 DEF BoxHooks
<1>10. CASE BoxListAnswer(c)
  <2>1. calls[c].next = "list" /\ ~BoxEnters(calls[c])
    BY <1>10 DEF BoxListAnswer, Answered, BoxEnters
  <2>2. PICK v : /\ v = box \/ v = [box EXCEPT !.emails = calls[c].list]
                 /\ \/ /\ BoxSeen(c, BoxLoaded(c, v)) /\ BoxDone(c)
                       /\ UNCHANGED <<boxStored, boxStray>>
                    \/ BoxNotFound(c, BoxLoaded(c, v))
    BY <1>10 DEF BoxListAnswer
  <2>3. /\ DOMAIN v = BoxHooks /\ v.ready = box.ready /\ v.token = box.token
        /\ v.loadingEmails = box.loadingEmails /\ v.busy = box.busy
    BY <1>9, <2>2
  <2> PICK w : w = BoxLoaded(c, v)
    OBVIOUS
  <2>4. /\ DOMAIN w = BoxHooks /\ w.ready = box.ready /\ w.token = box.token
        /\ w.busy = box.busy
        /\ w.loadingEmails = IF calls[c].quiet THEN box.loadingEmails ELSE FALSE
    BY <2>3 DEF BoxLoaded, BoxHooks
  <2>5. calls[c].quiet => ~BoxLoads(calls[c])
    BY DEF BoxLoads
  <2>6. QED  BY <1>5, <1>6, <2>1, <2>2, <2>4, <2>5
<1>11. CASE BoxOpenAnswer(c) \/ BoxDeleteAnswer(c)
  <2>1. ~BoxEnters(calls[c]) /\ ~BoxLoads(calls[c])
    BY <1>11 DEF BoxOpenAnswer, BoxDeleteAnswer, Answered, BoxEnters, BoxLoads
  <2>2. PICK v : /\ \/ v = box
                    \/ v = [box EXCEPT !.detail = calls[c].mail, !.emails = calls[c].list]
                    \/ v = [box EXCEPT !.emails = calls[c].list \ {calls[c].mail},
                                       !.detail = NoMail]
                 /\ \/ BoxSeen(c, v) /\ BoxDone(c) /\ UNCHANGED <<boxStored, boxStray>>
                    \/ BoxNotFound(c, v)
    BY <1>11 DEF BoxOpenAnswer, BoxDeleteAnswer
  <2>3. /\ DOMAIN v = BoxHooks /\ v.ready = box.ready /\ v.token = box.token
        /\ v.loadingEmails = box.loadingEmails /\ v.busy = box.busy
    BY <1>9, <2>2
  <2>4. QED  BY <1>5, <1>6, <2>1, <2>2, <2>3
<1>12. CASE BoxCreateAnswer(c) \/ BoxLoginAnswer(c)
  <2>1. ~BoxLoads(calls[c])
    BY <1>12 DEF BoxCreateAnswer, BoxLoginAnswer, Answered, BoxLoads
  <2>2. PICK v : /\ \/ v = box
                    \/ v = [box EXCEPT !.created = calls[c].box]
                    \/ v = [box EXCEPT !.failedLogin = TRUE]
                 /\ BoxEnter(c, v) \/ BoxRefused(c, v)
    BY <1>12 DEF BoxCreateAnswer, BoxLoginAnswer
  <2>3. /\ DOMAIN v = BoxHooks /\ v.ready = box.ready /\ v.token = box.token
        /\ v.loadingEmails = box.loadingEmails /\ v.busy = box.busy
    BY <1>9, <2>2
  <2>4. CASE BoxRefused(c, v)
    <3> PICK w : w = [v EXCEPT !.busy = FALSE]
      OBVIOUS
    <3>1. /\ DOMAIN w = BoxHooks /\ w.ready = box.ready /\ w.token = box.token
          /\ w.loadingEmails = box.loadingEmails /\ w.busy = FALSE
      BY <2>3 DEF BoxHooks
    <3>2. BoxSeen(c, w) /\ BoxDone(c) /\ UNCHANGED <<boxStored, boxStray>>
      BY <2>4 DEF BoxRefused
    <3>3. QED  BY <1>5, <2>1, <3>1, <3>2
  <2>5. QED  BY <1>7, <2>2, <2>3, <2>4
<1>13. QED  BY <1>8, <1>10, <1>11, <1>12 DEF BoxAnswer

-----------------------------------------------------------------------------
(* The steps of the two pages, by what they may do.                         *)

\* A page is mounted: what still waits belongs to a page that was left.
Mounts ==
  /\ DOMAIN calls' = Slots /\ \A c \in Slots : IsCall(calls'[c])
  /\ \E c : \A d \in Slots \ {c} : calls'[d].live = FALSE
  /\ home' = HomeBlank /\ box' = BoxBlank
  /\ UNCHANGED <<homeStored, boxStored, boxStray>>

\* A control that needs no server.
HomeTurns ==
  /\ home.address # NoBox \/ home.dialog = TRUE
  /\ DOMAIN home' = HomeHooks /\ home'.ready = home.ready /\ home'.address = home.address
  /\ home'.loading = home.loading
  /\ UNCHANGED <<calls, homeStored, homeStray>>

BoxTurns ==
  /\ DOMAIN box' = BoxHooks /\ box'.ready = box.ready
  /\ box'.loadingEmails = box.loadingEmails /\ box'.busy = box.busy
  /\ \/ box'.token = box.token /\ boxStored' = boxStored
     \/ box'.token = NoBox /\ boxStored' = NoBox
  /\ UNCHANGED <<calls, boxStray>>

\* The server's part of a call.
Replies(c) ==
  \E x : /\ Slot(c, x)
         /\ x.next = calls[c].next /\ x.by = calls[c].by
         /\ x.live = calls[c].live /\ x.quiet = calls[c].quiet

Kinds ==
  \/ Mounts /\ UNCHANGED homeStray
  \/ \E c \in Slots : \/ (HomeOpens(c) \/ HomeMoves(c)) /\ UNCHANGED boxVars
                      \/ (BoxOpens(c) \/ BoxMoves(c)) /\ UNCHANGED homeVars
                      \/ Replies(c) /\ UNCHANGED <<homeVars, boxVars>>
  \/ HomeTurns /\ UNCHANGED boxVars
  \/ BoxTurns /\ UNCHANGED homeVars
  \/ UNCHANGED <<calls, homeVars, boxVars>>

LEMMA Mounting ==
  ASSUME Shaped, Browse
  PROVE  Mounts /\ UNCHANGED homeStray
<1> PICK kept, p : Visit(kept, p) /\ (kept = Orphaned \/ kept = NoneWaits)
  BY DEF Browse, Link, Reload
<1>1. DOMAIN kept = Slots /\ \A c \in Slots : IsCall(kept[c]) /\ kept[c].live = FALSE
  <2>1. CASE kept = Orphaned
    <3>1. DOMAIN kept = Slots
      BY <2>1 DEF Orphaned
    <3>2. ASSUME NEW c \in Slots PROVE IsCall(kept[c]) /\ kept[c].live = FALSE
      <4>1. kept[c] = [calls[c] EXCEPT !.live = FALSE] /\ IsCall(calls[c])
        BY <2>1 DEF Orphaned, Shaped
      <4>2. QED  BY <4>1 DEF IsCall, Fields
    <3>3. QED  BY <3>1, <3>2
  <2>2. CASE kept = NoneWaits
    BY <2>2, NoCallShape DEF NoneWaits
  <2>3. QED  BY <2>1, <2>2
<1>2. CASE calls' = kept
  BY <1>1, <1>2 DEF Visit, Browse, Mounts
<1>3. ASSUME NEW c \in Slots,
             calls' = [kept EXCEPT ![c] = [NoCall EXCEPT !.next = "mount", !.by = p,
                                                         !.live = TRUE]]
      PROVE  /\ DOMAIN calls' = Slots /\ \A d \in Slots : IsCall(calls'[d])
             /\ \A d \in Slots \ {c} : calls'[d].live = FALSE
  <2> PICK x : x = [NoCall EXCEPT !.next = "mount", !.by = p, !.live = TRUE]
    OBVIOUS
  <2>1. IsCall(x)
    BY DEF NoCall, IsCall, Fields
  <2>2. QED  BY <1>1, <1>3, <2>1
<1>4. QED  BY <1>2, <1>3 DEF Visit, Browse, Mounts

LEMMA Turning ==
  ASSUME Shaped
  PROVE  (HomeSetting => HomeTurns) /\ (logout \/ BoxSetting => BoxTurns)
<1>0. DOMAIN home = HomeHooks /\ DOMAIN box = BoxHooks
  BY DEF Shaped
<1>1. ASSUME HomeSetting PROVE HomeTurns
  <2>1. home.address # NoBox \/ home.dialog = TRUE
    BY <1>1 DEF HomeSetting, HomeType, HomeAuto, HomeNew, HomeClose, HomeListControls,
       HomeAddressCard, HomeDialogControls
  <2>2. DOMAIN home' = HomeHooks /\ home'.ready = home.ready /\ home'.address = home.address
        /\ home'.loading = home.loading
    BY <1>0, <1>1 DEF HomeSetting, HomeType, HomeAuto, HomeNew, HomeClose, Armed, HomeHooks
  <2>3. QED  BY <1>1, <2>1, <2>2 DEF HomeSetting, HomeTurns
<1>2. ASSUME logout PROVE BoxTurns
  <2>1. /\ DOMAIN box' = BoxHooks /\ box'.ready = box.ready /\ box'.token = NoBox
        /\ box'.loadingEmails = box.loadingEmails /\ box'.busy = box.busy
    BY <1>0, <1>2 DEF logout, LoggedOut, BoxHooks
  <2>2. QED  BY <1>2, <2>1 DEF logout, BoxTurns
<1>3. ASSUME BoxSetting PROVE BoxTurns
  <2>1. /\ DOMAIN box' = BoxHooks /\ box'.ready = box.ready /\ box'.token = box.token
        /\ box'.loadingEmails = box.loadingEmails /\ box'.busy = box.busy
    BY <1>0, <1>3 DEF BoxSetting, BoxHooks
  <2>2. QED  BY <1>3, <2>1 DEF BoxSetting, BoxTurns
<1>4. QED  BY <1>1, <1>2, <1>3

LEMMA Replying ==
  ASSUME Shaped, NEW c \in Slots, Serve(c) \/ Fail(c)
  PROVE  Replies(c)
<1>0. IsCall(calls[c]) /\ DOMAIN calls = Slots
  BY DEF Shaped
<1>1. ASSUME NEW code, Answer(c, code) PROVE Replies(c)
  <2> PICK x : x = [calls[c] EXCEPT !.code = code]
    OBVIOUS
  <2>1. /\ IsCall(x) /\ x.next = calls[c].next /\ x.by = calls[c].by
        /\ x.live = calls[c].live /\ x.quiet = calls[c].quiet
    BY <1>0 DEF IsCall, Fields
  <2>2. calls' = [calls EXCEPT ![c] = x]
    BY <1>0, <1>1 DEF Answer
  <2>3. QED  BY <2>1, <2>2, SlotSet DEF Replies
<1>2. ASSUME NEW code, NEW b, calls' = [calls EXCEPT ![c].code = code, ![c].box = b]
      PROVE  Replies(c)
  <2>1. DOMAIN calls' = Slots /\ \A d \in Slots \ {c} : calls'[d] = calls[d]
    BY <1>0, <1>2
  <2>2. calls'[c] = [[calls[c] EXCEPT !.code = code] EXCEPT !.box = b]
    BY <1>0, <1>2
  <2>3. /\ IsCall(calls'[c]) /\ calls'[c].next = calls[c].next /\ calls'[c].by = calls[c].by
        /\ calls'[c].live = calls[c].live /\ calls'[c].quiet = calls[c].quiet
    BY <1>0, <2>2 DEF IsCall, Fields
  <2>4. Slot(c, calls'[c])
    BY <2>1, <2>3 DEF Slot
  <2>5. QED  BY <2>3, <2>4 DEF Replies
<1>3. ASSUME NEW code, NEW l, calls' = [calls EXCEPT ![c].code = code, ![c].list = l]
      PROVE  Replies(c)
  <2>1. DOMAIN calls' = Slots /\ \A d \in Slots \ {c} : calls'[d] = calls[d]
    BY <1>0, <1>3
  <2>2. calls'[c] = [[calls[c] EXCEPT !.code = code] EXCEPT !.list = l]
    BY <1>0, <1>3
  <2>3. /\ IsCall(calls'[c]) /\ calls'[c].next = calls[c].next /\ calls'[c].by = calls[c].by
        /\ calls'[c].live = calls[c].live /\ calls'[c].quiet = calls[c].quiet
    BY <1>0, <2>2 DEF IsCall, Fields
  <2>4. Slot(c, calls'[c])
    BY <2>1, <2>3 DEF Slot
  <2>5. QED  BY <2>3, <2>4 DEF Replies
<1>4. CASE listEmails(c)
  <2> DEFINE code == IF calls[c].box \in Open THEN 200 ELSE 404
             l == IF calls[c].box \in Open
                  THEN Matches(server.inbox[calls[c].box], calls[c].search) ELSE {}
  <2>1. calls' = [calls EXCEPT ![c].code = code, ![c].list = l]
    BY <1>4 DEF listEmails
  <2> HIDE DEF code, l
  <2>2. QED  BY <1>3, <2>1
<1>5. CASE createAddress(c) \/ createPermanentAddress(c)
  <2>1. PICK d, permanent : NewBox(c, d, permanent)
    BY <1>5 DEF createAddress, createPermanentAddress
  <2>2. calls' = [calls EXCEPT ![c].code = 200, ![c].box = d]
    BY <2>1 DEF NewBox
  <2>3. QED  BY <1>2, <2>2
<1>6. getEmail(c) \/ deleteEmail(c) \/ getAddressInfo(c) \/ NoneLeft(c) \/ Fail(c)
        => \E code : Answer(c, code)
  BY DEF getEmail, deleteEmail, getAddressInfo, NoneLeft, Fail
<1>7. QED  BY <1>1, <1>4, <1>5, <1>6 DEF Serve

LEMMA EveryStep == Shaped /\ [Next]_vars => Kinds
<1> SUFFICES ASSUME Shaped, [Next]_vars PROVE Kinds
  OBVIOUS
<1>1. CASE Browse
  BY <1>1, Mounting DEF Kinds
<1>2. CASE HomeActs
  BY <1>2, HomeOpening, Turning DEF HomeActs, Kinds
<1>3. CASE BoxActs
  BY <1>3, BoxOpening, Turning DEF BoxActs, Kinds
<1>4. CASE HomeTicks
  BY <1>4, HomeOpening DEF HomeTicks, Kinds
<1>5. CASE BoxTicks
  BY <1>5, BoxOpening DEF BoxTicks, Kinds
<1>6. CASE Outside
  <2>1. CASE World
    BY <1>6, <2>1 DEF Outside, World, Expire, Remove, Arrive, Vanish, Change, Kinds
  <2>2. ASSUME NEW c \in Slots, Fail(c) PROVE Kinds
    BY <1>6, <2>2, Replying DEF Outside, Kinds
  <2>3. QED  BY <1>6, <2>1, <2>2 DEF Outside
<1>7. ASSUME NEW c \in Slots, HomeHears(c) PROVE Kinds
  BY <1>7, HomeMoving DEF HomeHears, Kinds
<1>8. ASSUME NEW c \in Slots, BoxHears(c) PROVE Kinds
  BY <1>8, BoxMoving DEF BoxHears, Kinds
<1>9. ASSUME NEW c \in Slots, Served(c) PROVE Kinds
  BY <1>9, Replying DEF Served, Kinds
<1>10. CASE UNCHANGED vars
  BY <1>10 DEF vars, apiVars, Kinds, homeVars, boxVars
<1>11. QED  BY <1>1, <1>2, <1>3, <1>4, <1>5, <1>6, <1>7, <1>8, <1>9, <1>10 DEF Next

-----------------------------------------------------------------------------
(* The inductive invariant.                                                  *)

\* Until the first effect is answered the page has no address, so nothing on it
\* can be used and no other handler of it waits.
HomeWaits ==
  \A c \in Slots :
    calls[c].next = "mount" /\ calls[c].by = "home" /\ calls[c].live = TRUE =>
      /\ home.ready = FALSE /\ home.address = NoBox /\ home.dialog = FALSE
      /\ home.timer.box = NoBox
      /\ \A d \in Slots \ {c} : ~(calls[d].by = "home" /\ calls[d].live = TRUE)

\* The forms can be used before that on the other page: a session may be stored
\* that is shown although the page is not ready.
BoxWaits ==
  boxStray \/ boxStored = box.token \/ (box.ready = FALSE /\ box.token = NoBox)

Spinning == HomeSpinnerEnds /\ BoxSpinnersEnd

IInv == Shaped /\ HomeWaits /\ HomeStoredIsShown /\ BoxWaits /\ Spinning

LEMMA InitHolds == Init => IInv
<1> SUFFICES ASSUME Init PROVE IInv
  OBVIOUS
<1>1. DOMAIN calls = Slots /\ \A c \in Slots : calls[c] = NoCall
  BY DEF Init, ApiInit
<1>2. home = HomeBlank /\ box = BoxBlank
  BY DEF Init, HomeInit, BoxInit
<1>3. Shaped
  BY <1>1, <1>2, NoCallShape DEF Shaped, HomeBlank, BoxBlank, HomeHooks, BoxHooks
<1>4. HomeWaits
  BY <1>1, NoCallShape DEF HomeWaits
<1>5. HomeStoredIsShown /\ BoxWaits /\ Spinning
  BY <1>2 DEF HomeBlank, BoxBlank, HomeStoredIsShown, BoxWaits, Spinning,
     HomeSpinnerEnds, BoxSpinnersEnd
<1>6. QED  BY <1>3, <1>4, <1>5 DEF IInv

LEMMA BlankShapes ==
  /\ DOMAIN HomeBlank = HomeHooks /\ HomeBlank.ready = FALSE /\ HomeBlank.address = NoBox
  /\ HomeBlank.loading = FALSE /\ HomeBlank.dialog = FALSE /\ HomeBlank.timer.box = NoBox
  /\ DOMAIN BoxBlank = BoxHooks /\ BoxBlank.ready = FALSE /\ BoxBlank.token = NoBox
  /\ BoxBlank.loadingEmails = FALSE /\ BoxBlank.busy = FALSE
  BY DEF HomeBlank, BoxBlank, NoTimer, HomeHooks, BoxHooks

LEMMA ShapedKept == Shaped /\ Kinds => Shaped'
<1> SUFFICES ASSUME Shaped, Kinds PROVE Shaped'
  OBVIOUS
<1>1. CASE Mounts
  BY <1>1, BlankShapes DEF Mounts, Shaped
<1>2. ASSUME NEW c \in Slots, NEW x, Slot(c, x)
      PROVE  DOMAIN calls' = Slots /\ \A d \in Slots : IsCall(calls'[d])
  BY <1>2 DEF Slot, Shaped
<1>3. ASSUME NEW c \in Slots, HomeOpens(c) \/ HomeMoves(c), UNCHANGED boxVars
      PROVE  Shaped'
  <2>1. DOMAIN home' = HomeHooks
    BY <1>3 DEF HomeOpens, HomeMoves, Shaped
  <2>2. \E x : Slot(c, x)
    BY <1>3 DEF HomeOpens, HomeMoves
  <2>3. QED  BY <1>2, <1>3, <2>1, <2>2 DEF Shaped, boxVars
<1>4. ASSUME NEW c \in Slots, BoxOpens(c) \/ BoxMoves(c), UNCHANGED homeVars
      PROVE  Shaped'
  <2>1. DOMAIN box' = BoxHooks
    BY <1>4 DEF BoxOpens, BoxMoves, Shaped
  <2>2. \E x : Slot(c, x)
    BY <1>4 DEF BoxOpens, BoxMoves
  <2>3. QED  BY <1>2, <1>4, <2>1, <2>2 DEF Shaped, homeVars
<1>5. ASSUME NEW c \in Slots, Replies(c), UNCHANGED <<homeVars, boxVars>>
      PROVE  Shaped'
  BY <1>2, <1>5 DEF Replies, Shaped, homeVars, boxVars
<1>6. CASE HomeTurns /\ UNCHANGED boxVars
  BY <1>6 DEF HomeTurns, Shaped, boxVars
<1>7. CASE BoxTurns /\ UNCHANGED homeVars
  BY <1>7 DEF BoxTurns, Shaped, homeVars
<1>8. CASE UNCHANGED <<calls, homeVars, boxVars>>
  BY <1>8 DEF Shaped, homeVars, boxVars
<1>9. QED  BY <1>1, <1>3, <1>4, <1>5, <1>6, <1>7, <1>8 DEF Kinds

LEMMA HomeWaitsKept == Shaped /\ HomeWaits /\ Kinds => HomeWaits'
<1> SUFFICES ASSUME Shaped, HomeWaits, Kinds PROVE HomeWaits'
  OBVIOUS
<1> DEFINE Waiting(c) ==
      calls[c].next = "mount" /\ calls[c].by = "home" /\ calls[c].live = TRUE
<1>1. CASE Mounts
  <2>1. PICK c : \A d \in Slots \ {c} : calls'[d].live = FALSE
    BY <1>1 DEF Mounts
  <2>2. home' = HomeBlank
    BY <1>1 DEF Mounts
  <2>3. QED  BY <2>1, <2>2, BlankShapes DEF HomeWaits
\* A handler of this page starts: its first effect has been answered.
<1>2. ASSUME NEW c \in Slots, HomeOpens(c) PROVE HomeWaits'
  <2>1. \A d \in Slots : ~Waiting(d)
    BY <1>2 DEF HomeOpens, HomeWaits
  <2>2. PICK x : Slot(c, x) /\ x.next # "mount"
    BY <1>2 DEF HomeOpens
  <2>3. \A d \in Slots : calls'[d].next = "mount" => calls'[d] = calls[d]
    BY <2>2 DEF Slot
  <2>4. QED  BY <2>1, <2>3 DEF HomeWaits
<1>3. ASSUME NEW c \in Slots, HomeMoves(c) PROVE HomeWaits'
  <2>1. PICK x : /\ Slot(c, x) /\ x.next # "mount"
                 /\ x.next = "none" \/ x.live = calls[c].live
                 /\ x.next = "none" => x.live = FALSE
                 /\ calls[c].live \/ home' = home
    BY <1>3 DEF HomeMoves
  <2>2. \A d \in Slots : calls'[d].next = "mount" => d # c /\ calls'[d] = calls[d]
    BY <2>1 DEF Slot
  <2>3. CASE calls[c].live = TRUE
    <3>1. \A d \in Slots : ~(Waiting(d) /\ d # c)
      BY <1>3, <2>3 DEF HomeMoves, HomeWaits
    <3>2. QED  BY <2>2, <3>1 DEF HomeWaits
  <2>4. CASE calls[c].live = FALSE
    <3>1. home' = home /\ x.live = FALSE
      BY <2>1, <2>4
    <3>2. \A d \in Slots : calls'[d].live = TRUE => calls'[d] = calls[d]
      BY <2>1, <3>1 DEF Slot
    <3>3. QED  BY <2>2, <3>1, <3>2 DEF HomeWaits
  <2>5. QED  BY <2>3, <2>4 DEF Shaped, IsCall
<1>4. ASSUME NEW c \in Slots, BoxOpens(c) \/ BoxMoves(c), UNCHANGED homeVars
      PROVE  HomeWaits'
  <2>1. PICK x : Slot(c, x) /\ (x.by = "mailbox" \/ x.live = FALSE)
    BY <1>4 DEF BoxOpens, BoxMoves
  <2>2. \A d \in Slots : calls'[d].by = "home" /\ calls'[d].live = TRUE
                           => calls'[d] = calls[d]
    BY <2>1 DEF Slot
  <2>3. QED  BY <1>4, <2>2 DEF HomeWaits, homeVars
<1>5. ASSUME NEW c \in Slots, Replies(c), UNCHANGED homeVars PROVE HomeWaits'
  <2>1. \A d \in Slots : /\ calls'[d].next = calls[d].next /\ calls'[d].by = calls[d].by
                         /\ calls'[d].live = calls[d].live
    BY <1>5 DEF Replies, Slot
  <2>2. QED  BY <1>5, <2>1 DEF HomeWaits, homeVars
<1>6. CASE HomeTurns
  <2>1. \A d \in Slots : ~Waiting(d)
    BY <1>6 DEF HomeTurns, HomeWaits
  <2>2. QED  BY <1>6, <2>1 DEF HomeTurns, HomeWaits
<1>7. CASE UNCHANGED calls /\ UNCHANGED homeVars
  BY <1>7 DEF HomeWaits, homeVars
<1>8. QED  BY <1>1, <1>2, <1>3, <1>4, <1>5, <1>6, <1>7 DEF Kinds, BoxTurns

LEMMA HomeShownKept == Shaped /\ HomeWaits /\ HomeStoredIsShown /\ Kinds => HomeStoredIsShown'
<1> SUFFICES ASSUME Shaped, HomeWaits, HomeStoredIsShown, Kinds PROVE HomeStoredIsShown'
  OBVIOUS
<1>1. CASE Mounts
  BY <1>1, BlankShapes DEF Mounts, HomeStoredIsShown
<1>2. ASSUME NEW c \in Slots, HomeOpens(c) PROVE HomeStoredIsShown'
  <2>1. home'.ready = home.ready /\ home'.address = home.address
        /\ UNCHANGED <<homeStored, homeStray>>
    BY <1>2 DEF HomeOpens, Shaped, HomeHooks
  <2>2. QED  BY <2>1 DEF HomeStoredIsShown
<1>3. ASSUME NEW c \in Slots, HomeMoves(c) PROVE HomeStoredIsShown'
  <2>1. CASE calls[c].live = FALSE
    BY <1>3, <2>1 DEF HomeMoves, HomeStoredIsShown
  <2>2. CASE calls[c].live = TRUE
    <3>1. HomeShows(c) /\ (homeStray => homeStray') /\ calls[c].by = "home"
      BY <1>3, <2>2 DEF HomeMoves
    <3>2. calls[c].next = "mount" => home.address = NoBox
      BY <2>2, <3>1 DEF HomeWaits
    <3>3. QED  BY <3>1, <3>2 DEF HomeShows, HomeStoredIsShown
  <2>3. QED  BY <2>1, <2>2 DEF Shaped, IsCall
<1>4. CASE HomeTurns
  BY <1>4 DEF HomeTurns, HomeStoredIsShown
<1>5. CASE UNCHANGED homeVars
  BY <1>5 DEF homeVars, HomeStoredIsShown
<1>6. QED  BY <1>1, <1>2, <1>3, <1>4, <1>5 DEF Kinds

LEMMA BoxWaitsKept == Shaped /\ BoxWaits /\ Kinds => BoxWaits'
<1> SUFFICES ASSUME Shaped, BoxWaits, Kinds PROVE BoxWaits'
  OBVIOUS
<1>1. CASE Mounts
  BY <1>1, BlankShapes DEF Mounts, BoxWaits
<1>2. ASSUME NEW c \in Slots, BoxOpens(c) PROVE BoxWaits'
  BY <1>2 DEF BoxOpens, BoxWaits
<1>3. ASSUME NEW c \in Slots, BoxMoves(c) PROVE BoxWaits'
  <2>1. CASE calls[c].live = FALSE
    BY <1>3, <2>1 DEF BoxMoves, BoxWaits
  <2>2. CASE calls[c].live = TRUE
    <3>1. BoxShows(c) /\ (boxStray => boxStray')
      BY <1>3, <2>2 DEF BoxMoves
    <3>2. QED  BY <3>1 DEF BoxShows, BoxWaits
  <2>3. QED  BY <2>1, <2>2 DEF Shaped, IsCall
<1>4. CASE BoxTurns
  BY <1>4 DEF BoxTurns, BoxWaits
<1>5. CASE UNCHANGED boxVars
  BY <1>5 DEF boxVars, BoxWaits
<1>6. QED  BY <1>1, <1>2, <1>3, <1>4, <1>5 DEF Kinds

\* The calls that put a spinner out.
HomeStops(x) == x.next # "none" /\ x.by = "home" /\ x.live /\ ~x.quiet
BoxListStops(x) == x.next = "list" /\ x.by = "mailbox" /\ x.live /\ ~x.quiet
BoxFormStops(x) == x.next \in {"create", "login"} /\ x.by = "mailbox" /\ x.live

HomeStopped == home.loading => \E c \in Slots : HomeStops(calls[c])
BoxListStopped == box.loadingEmails => \E c \in Slots : BoxListStops(calls[c])
BoxFormStopped == box.busy => \E c \in Slots : BoxFormStops(calls[c])

LEMMA SpinningMeans ==
  /\ Spinning <=> HomeStopped /\ BoxListStopped /\ BoxFormStopped
  /\ Spinning' <=> HomeStopped' /\ BoxListStopped' /\ BoxFormStopped'
<1>1. /\ HomeSpinnerEnds <=> HomeStopped
      /\ HomeSpinnerEnds' <=> HomeStopped'
  BY Zenon DEF HomeSpinnerEnds, HomeStopped, HomeStops
<1>2. /\ BoxSpinnersEnd <=> BoxListStopped /\ BoxFormStopped
      /\ BoxSpinnersEnd' <=> BoxListStopped' /\ BoxFormStopped'
  BY Zenon DEF BoxSpinnersEnd, BoxListStopped, BoxFormStopped, BoxListStops, BoxFormStops
<1>3. QED  BY <1>1, <1>2, Zenon DEF Spinning

LEMMA SpinningKept == Shaped /\ Spinning /\ Kinds => Spinning'
<1> SUFFICES ASSUME Shaped, Spinning, Kinds PROVE Spinning'
  OBVIOUS
<1>0. \A c \in Slots : calls[c].live \in BOOLEAN /\ calls[c].quiet \in BOOLEAN
  BY DEF Shaped, IsCall
<1>1. CASE Mounts
  <2>1. HomeStopped' /\ BoxListStopped' /\ BoxFormStopped'
    BY <1>1, BlankShapes DEF Mounts, HomeStopped, BoxListStopped, BoxFormStopped
  <2>2. QED  BY <2>1, SpinningMeans
\* Where one slot changes, the others still stop what they stopped.
<1>2. ASSUME NEW c \in Slots, NEW x, Slot(c, x)
      PROVE  /\ \A d \in Slots \ {c} : calls'[d] = calls[d]
             /\ calls'[c] = x
  BY <1>2 DEF Slot
<1>3. ASSUME NEW c \in Slots, NEW x, Slot(c, x),
             HomeStops(calls[c]) => HomeStops(x), home' = home
      PROVE  HomeStopped'
  <2>1. HomeStopped
    BY SpinningMeans
  <2>2. QED  BY <1>2, <1>3, <2>1 DEF HomeStopped
<1>4. ASSUME NEW c \in Slots, NEW x, Slot(c, x),
             BoxListStops(calls[c]) => BoxListStops(x),
             BoxFormStops(calls[c]) => BoxFormStops(x), box' = box
      PROVE  BoxListStopped' /\ BoxFormStopped'
  <2>1. BoxListStopped /\ BoxFormStopped
    BY SpinningMeans
  <2>2. QED  BY <1>2, <1>4, <2>1 DEF BoxListStopped, BoxFormStopped
<1>5. ASSUME NEW c \in Slots, HomeOpens(c), UNCHANGED boxVars PROVE Spinning'
  <2>1. PICK x : /\ Slot(c, x) /\ calls[c].next = "none"
                 /\ x.by = "home" /\ x.live = TRUE /\ x.next # "none"
                 /\ home' = home \/ (home' = [home EXCEPT !.loading = TRUE] /\ x.quiet = FALSE)
    BY <1>5 DEF HomeOpens
  <2>2. ~HomeStops(calls[c]) /\ ~BoxListStops(calls[c]) /\ ~BoxFormStops(calls[c])
    BY <2>1 DEF HomeStops, BoxListStops, BoxFormStops
  <2>3. BoxListStopped' /\ BoxFormStopped'
    BY <1>4, <1>5, <2>1, <2>2 DEF boxVars
  <2>4. CASE home' = home
    BY <1>3, <2>1, <2>2, <2>3, <2>4, SpinningMeans
  <2>5. CASE x.quiet = FALSE
    <3>1. HomeStops(calls'[c])
      BY <1>2, <2>1, <2>5 DEF HomeStops
    <3>2. QED  BY <2>3, <3>1, SpinningMeans DEF HomeStopped
  <2>6. QED  BY <2>1, <2>4, <2>5
<1>6. ASSUME NEW c \in Slots, HomeMoves(c), UNCHANGED boxVars PROVE Spinning'
  <2>1. PICK x : /\ Slot(c, x) /\ calls[c].by = "home"
                 /\ \/ x.next = "none" /\ x.live = FALSE
                    \/ x.by = "home" /\ x.live = calls[c].live
                 /\ \/ ~calls[c].live /\ home' = home
                    \/ calls[c].live /\ HomeSpins(c, x)
    BY <1>6 DEF HomeMoves
  <2>2. ~BoxListStops(calls[c]) /\ ~BoxFormStops(calls[c])
    BY <2>1 DEF BoxListStops, BoxFormStops
  <2>3. BoxListStopped' /\ BoxFormStopped'
    BY <1>4, <1>6, <2>1, <2>2 DEF boxVars
  <2>4. CASE calls[c].live = FALSE
    <3>1. ~HomeStops(calls[c]) /\ home' = home
      BY <2>1, <2>4 DEF HomeStops
    <3>2. QED  BY <1>3, <2>1, <2>3, <3>1, SpinningMeans
  <2>5. CASE calls[c].live = TRUE /\ home'.loading = FALSE
    BY <2>3, <2>5, SpinningMeans DEF HomeStopped
  <2>6. CASE calls[c].live = TRUE /\ x.next # "none" /\ x.quiet = FALSE
    <3>1. HomeStops(calls'[c])
      BY <1>2, <2>1, <2>6 DEF HomeStops
    <3>2. QED  BY <2>3, <3>1, SpinningMeans DEF HomeStopped
  <2>7. CASE home'.loading = home.loading /\ calls[c].quiet = TRUE
    <3>1. HomeStopped /\ ~HomeStops(calls[c])
      BY <2>7, SpinningMeans DEF HomeStops
    <3>2. HomeStopped'
      BY <1>2, <2>1, <2>7, <3>1 DEF HomeStopped
    <3>3. QED  BY <2>3, <3>2, SpinningMeans
  <2>8. QED  BY <1>0, <2>1, <2>4, <2>5, <2>6, <2>7 DEF HomeSpins
<1>7. ASSUME NEW c \in Slots, BoxOpens(c), UNCHANGED homeVars PROVE Spinning'
  <2>1. PICK x : /\ Slot(c, x) /\ calls[c].next = "none"
                 /\ x.by = "mailbox" /\ x.live = TRUE
                 /\ box'.loadingEmails = box.loadingEmails \/ BoxLoads(x)
                 /\ box'.busy = box.busy \/ BoxEnters(x)
    BY <1>7 DEF BoxOpens
  <2>2. ~HomeStops(calls[c]) /\ ~BoxListStops(calls[c]) /\ ~BoxFormStops(calls[c])
    BY <2>1 DEF HomeStops, BoxListStops, BoxFormStops
  <2>3. HomeStopped'
    BY <1>3, <1>7, <2>1, <2>2 DEF homeVars
  <2>4. BoxListStopped'
    <3>1. CASE box'.loadingEmails = box.loadingEmails
      BY <1>2, <2>1, <2>2, <3>1, SpinningMeans DEF BoxListStopped
    <3>2. CASE BoxLoads(x)
      BY <1>2, <2>1, <3>2 DEF BoxListStopped, BoxListStops, BoxLoads
    <3>3. QED  BY <2>1, <3>1, <3>2
  <2>5. BoxFormStopped'
    <3>1. CASE box'.busy = box.busy
      BY <1>2, <2>1, <2>2, <3>1, SpinningMeans DEF BoxFormStopped
    <3>2. CASE BoxEnters(x)
      BY <1>2, <2>1, <3>2 DEF BoxFormStopped, BoxFormStops, BoxEnters
    <3>3. QED  BY <2>1, <3>1, <3>2
  <2>6. QED  BY <2>3, <2>4, <2>5, SpinningMeans
<1>8. ASSUME NEW c \in Slots, BoxMoves(c), UNCHANGED homeVars PROVE Spinning'
  <2>1. PICK x : /\ Slot(c, x) /\ calls[c].by = "mailbox"
                 /\ x.next = "none" \/ (x.by = "mailbox" /\ x.live = calls[c].live)
                 /\ \/ ~calls[c].live /\ box' = box
                    \/ calls[c].live /\ BoxSpins(c, x)
    BY <1>8 DEF BoxMoves
  <2>2. ~HomeStops(calls[c])
    BY <2>1 DEF HomeStops
  <2>3. HomeStopped'
    BY <1>3, <1>8, <2>1, <2>2 DEF homeVars
  <2>4. CASE calls[c].live = FALSE
    <3>1. ~BoxListStops(calls[c]) /\ ~BoxFormStops(calls[c]) /\ box' = box
      BY <2>1, <2>4 DEF BoxListStops, BoxFormStops
    <3>2. QED  BY <1>4, <2>1, <2>3, <3>1, SpinningMeans
  <2>5. CASE calls[c].live = TRUE
    <3>1. BoxSpins(c, x)
      BY <2>1, <2>5
    <3>2. BoxListStopped'
      <4>1. CASE box'.loadingEmails = FALSE
        BY <4>1 DEF BoxListStopped
      <4>2. CASE BoxLoads(x)
        BY <1>2, <2>1, <2>5, <4>2 DEF BoxListStopped, BoxListStops, BoxLoads
      <4>3. CASE box'.loadingEmails = box.loadingEmails /\ ~BoxLoads(calls[c])
        <5>1. ~BoxListStops(calls[c])
          BY <1>0, <4>3 DEF BoxListStops, BoxLoads
        <5>2. QED  BY <1>2, <2>1, <4>3, <5>1, SpinningMeans DEF BoxListStopped
      <4>4. QED  BY <3>1, <4>1, <4>2, <4>3 DEF BoxSpins
    <3>3. BoxFormStopped'
      <4>1. CASE box'.busy = FALSE
        BY <4>1 DEF BoxFormStopped
      <4>2. CASE box'.busy = box.busy /\ ~BoxEnters(calls[c])
        <5>1. ~BoxFormStops(calls[c])
          BY <4>2 DEF BoxFormStops, BoxEnters
        <5>2. QED  BY <1>2, <2>1, <4>2, <5>1, SpinningMeans DEF BoxFormStopped
      <4>3. QED  BY <3>1, <4>1, <4>2 DEF BoxSpins
    <3>4. QED  BY <2>3, <3>2, <3>3, SpinningMeans
  <2>6. QED  BY <1>0, <2>4, <2>5
<1>9. ASSUME NEW c \in Slots, Replies(c), UNCHANGED <<homeVars, boxVars>> PROVE Spinning'
  <2>1. PICK x : /\ Slot(c, x) /\ x.next = calls[c].next /\ x.by = calls[c].by
                 /\ x.live = calls[c].live /\ x.quiet = calls[c].quiet
    BY <1>9 DEF Replies
  <2>2. /\ HomeStops(calls[c]) => HomeStops(x)
        /\ BoxListStops(calls[c]) => BoxListStops(x)
        /\ BoxFormStops(calls[c]) => BoxFormStops(x)
    BY <2>1 DEF HomeStops, BoxListStops, BoxFormStops
  <2>3. QED  BY <1>3, <1>4, <1>9, <2>1, <2>2, SpinningMeans DEF homeVars, boxVars
\* Where no call changes.
<1>10. ASSUME UNCHANGED calls, home'.loading = home.loading,
              box'.loadingEmails = box.loadingEmails, box'.busy = box.busy
       PROVE  Spinning'
  <2>1. HomeStopped' /\ BoxListStopped' /\ BoxFormStopped'
    BY <1>10, SpinningMeans DEF HomeStopped, BoxListStopped, BoxFormStopped
  <2>2. QED  BY <2>1, SpinningMeans
<1>11. CASE HomeTurns /\ UNCHANGED boxVars
  BY <1>10, <1>11 DEF HomeTurns, boxVars
<1>12. CASE BoxTurns /\ UNCHANGED homeVars
  BY <1>10, <1>12 DEF BoxTurns, homeVars
<1>13. CASE UNCHANGED <<calls, homeVars, boxVars>>
  BY <1>10, <1>13 DEF homeVars, boxVars
<1>14. QED  BY <1>1, <1>5, <1>6, <1>7, <1>8, <1>9, <1>11, <1>12, <1>13 DEF Kinds

LEMMA StepKeeps == IInv /\ [Next]_vars => IInv'
<1> SUFFICES ASSUME IInv, [Next]_vars PROVE IInv'
  OBVIOUS
<1>1. Kinds
  BY EveryStep DEF IInv
<1>2. QED
  BY <1>1, ShapedKept, HomeWaitsKept, HomeShownKept, BoxWaitsKept, SpinningKept DEF IInv

LEMMA Invariance == Spec => []IInv
  BY InitHolds, StepKeeps, PTL DEF Spec

-----------------------------------------------------------------------------
(* The theorems.                                                             *)

\* page.tsx and mailbox/page.tsx: however many handlers wait and in whatever order
\* they are answered, what a page shows as its address or session is what a reload
\* restores, unless a handler of a page that was left has written since.
THEOREM ShownIsStored == Spec => []StoredIsShown
<1>1. IInv => StoredIsShown
  BY DEF IInv, StoredIsShown, BoxWaits, BoxSessionIsStored
<1>2. QED  BY <1>1, Invariance, PTL

\* The `finally` of every handler: a spinner that is lit, and with it a disabled
\* button, has a call of its page in flight that puts it out whatever it is answered.
THEOREM SpinnersAreWaited == Spec => []SpinnersEnd
<1>1. IInv => SpinnersEnd
  BY DEF IInv, Spinning, SpinnersEnd
<1>2. QED  BY <1>1, Invariance, PTL

-----------------------------------------------------------------------------
(* The types.                                                                *)

CallsOK == calls \in [Slots -> Call]

Codes == {0, 200, 404, 500}
Handlers == {"none", "mount", "list", "open", "delete", "create", "login", "confirm"}
Somewhere == Boxes \union {NoBox}

LEMMA NoCallTyped == NoCall \in Call
BY DEF NoCall, Call

\* A call in which one field is set to what a page or the server has.
LEMMA CallSet ==
  ASSUME NEW x \in Call
  PROVE  /\ \A v \in Codes : [x EXCEPT !.code = v] \in Call
         /\ \A v \in Handlers : [x EXCEPT !.next = v] \in Call
         /\ \A v \in {"home", "mailbox"} : [x EXCEPT !.by = v] \in Call
         /\ \A v \in BOOLEAN : [x EXCEPT !.live = v] \in Call
         /\ \A v \in BOOLEAN : [x EXCEPT !.search = v] \in Call
         /\ \A v \in BOOLEAN : [x EXCEPT !.quiet = v] \in Call
         /\ \A v \in BOOLEAN : [x EXCEPT !.held = v] \in Call
         /\ \A v \in Somewhere : [x EXCEPT !.box = v] \in Call
         /\ \A v \in Mails \union {NoMail} : [x EXCEPT !.mail = v] \in Call
         /\ \A v \in SUBSET Mails : [x EXCEPT !.list = v] \in Call
<1>1. ASSUME NEW v \in Codes PROVE [x EXCEPT !.code = v] \in Call
  BY DEF Call, Codes
<1>2. ASSUME NEW v \in Handlers PROVE [x EXCEPT !.next = v] \in Call
  BY DEF Call, Handlers
<1>3. ASSUME NEW v \in {"home", "mailbox"} PROVE [x EXCEPT !.by = v] \in Call
  BY DEF Call
<1>4. ASSUME NEW v \in BOOLEAN PROVE [x EXCEPT !.live = v] \in Call
  BY DEF Call
<1>5. ASSUME NEW v \in BOOLEAN PROVE [x EXCEPT !.search = v] \in Call
  BY DEF Call
<1>6. ASSUME NEW v \in BOOLEAN PROVE [x EXCEPT !.quiet = v] \in Call
  BY DEF Call
<1>7. ASSUME NEW v \in BOOLEAN PROVE [x EXCEPT !.held = v] \in Call
  BY DEF Call
<1>8. ASSUME NEW v \in Somewhere PROVE [x EXCEPT !.box = v] \in Call
  BY DEF Call, Somewhere
<1>9. ASSUME NEW v \in Mails \union {NoMail} PROVE [x EXCEPT !.mail = v] \in Call
  BY DEF Call
<1>10. ASSUME NEW v \in SUBSET Mails PROVE [x EXCEPT !.list = v] \in Call
  BY DEF Call
<1>11. QED  BY <1>1, <1>2, <1>3, <1>4, <1>5, <1>6, <1>7, <1>8, <1>9, <1>10

LEMMA SlotTyped ==
  ASSUME CallsOK, NEW c \in Slots, NEW x \in Call, calls' = [calls EXCEPT ![c] = x]
  PROVE  CallsOK'
BY DEF CallsOK

LEMMA HomeCallTyped ==
  ASSUME NEW b \in Somewhere, NEW s \in BOOLEAN, NEW q \in BOOLEAN
  PROVE  /\ \A k \in {"list", "open", "delete", "create"} : HomeCall(k, b) \in Call
         /\ HomeFetch(b, s, q) \in Call /\ CreateCall(s, q) \in Call
<1>1. ASSUME NEW k \in {"list", "open", "delete", "create"}, NEW d \in Somewhere
      PROVE  HomeCall(k, d) \in Call
  <2> DEFINE x1 == [NoCall EXCEPT !.next = k]
             x2 == [x1 EXCEPT !.by = "home"]
             x3 == [x2 EXCEPT !.live = TRUE]
             x4 == [x3 EXCEPT !.box = d]
  <2>1. x1 \in Call
    BY NoCallTyped, CallSet DEF Handlers
  <2>2. HomeCall(k, d) = [x4 EXCEPT !.held = TRUE]
    BY DEF HomeCall
  <2> HIDE DEF x1
  <2>3. x2 \in Call
    BY <2>1, CallSet
  <2> HIDE DEF x2
  <2>4. x3 \in Call
    BY <2>3, CallSet
  <2> HIDE DEF x3
  <2>5. x4 \in Call
    BY <2>4, CallSet
  <2> HIDE DEF x4
  <2>6. QED  BY <2>2, <2>5, CallSet
<1>2. ASSUME NEW x \in Call
      PROVE  /\ [x EXCEPT !.search = s, !.quiet = q] \in Call
             /\ [x EXCEPT !.search = s, !.held = q] \in Call
  <2> DEFINE y == [x EXCEPT !.search = s]
  <2>1. y \in Call
    BY CallSet
  <2>2. /\ [x EXCEPT !.search = s, !.quiet = q] = [y EXCEPT !.quiet = q]
        /\ [x EXCEPT !.search = s, !.held = q] = [y EXCEPT !.held = q]
    OBVIOUS
  <2> HIDE DEF y
  <2>3. QED  BY <2>1, <2>2, CallSet
<1>3. NoBox \in Somewhere
  BY DEF Somewhere
<1>4. QED  BY <1>1, <1>2, <1>3 DEF HomeFetch, CreateCall

LEMMA ArmedTyped == ASSUME HomeTypeOK, NEW h \in HomeView PROVE Armed(h) \in HomeView
<1> DEFINE t == IF h.auto /\ h.address # NoBox THEN [box |-> h.address, search |-> h.search]
                                               ELSE NoTimer
<1>1. t \in [box : Boxes \union {NoBox}, search : BOOLEAN]
  BY DEF HomeView, NoTimer
<1>2. Armed(h) = [h EXCEPT !.timer = t] \/ Armed(h) = h
  BY DEF Armed
<1> HIDE DEF t
<1>3. [h EXCEPT !.timer = t] \in HomeView
  BY <1>1 DEF HomeView
<1>4. QED  BY <1>2, <1>3

LEMMA HomeSet ==
  ASSUME NEW h \in HomeView
  PROVE  /\ \A v \in BOOLEAN : [h EXCEPT !.ready = v] \in HomeView
         /\ \A v \in BOOLEAN : [h EXCEPT !.loading = v] \in HomeView
         /\ \A v \in BOOLEAN : [h EXCEPT !.search = v] \in HomeView
         /\ \A v \in BOOLEAN : [h EXCEPT !.auto = v] \in HomeView
         /\ \A v \in BOOLEAN : [h EXCEPT !.dialog = v] \in HomeView
         /\ \A v \in Somewhere : [h EXCEPT !.address = v] \in HomeView
         /\ \A v \in SUBSET Mails : [h EXCEPT !.emails = v] \in HomeView
         /\ \A v \in Mails \union {NoMail} : [h EXCEPT !.selected = v] \in HomeView
<1>1. ASSUME NEW v \in BOOLEAN
      PROVE  /\ [h EXCEPT !.ready = v] \in HomeView /\ [h EXCEPT !.loading = v] \in HomeView
             /\ [h EXCEPT !.search = v] \in HomeView
  BY DEF HomeView
<1>2. ASSUME NEW v \in BOOLEAN
      PROVE  [h EXCEPT !.auto = v] \in HomeView /\ [h EXCEPT !.dialog = v] \in HomeView
  BY DEF HomeView
<1>3. ASSUME NEW v \in Somewhere PROVE [h EXCEPT !.address = v] \in HomeView
  BY DEF HomeView, Somewhere
<1>4. ASSUME NEW v \in SUBSET Mails PROVE [h EXCEPT !.emails = v] \in HomeView
  BY DEF HomeView
<1>5. ASSUME NEW v \in Mails \union {NoMail} PROVE [h EXCEPT !.selected = v] \in HomeView
  BY DEF HomeView
<1>6. QED  BY <1>1, <1>2, <1>3, <1>4, <1>5

LEMMA HomeIs ==
  ASSUME HomeTypeOK
  PROVE  /\ home \in HomeView /\ home.address \in Somewhere /\ home.emails \in SUBSET Mails
         /\ home.selected \in Mails \union {NoMail} /\ home.search \in BOOLEAN
         /\ home.auto \in BOOLEAN /\ home.loading \in BOOLEAN
         /\ home.timer.box \in Somewhere /\ home.timer.search \in BOOLEAN
         /\ homeStored \in Somewhere /\ homeStray \in BOOLEAN
BY DEF HomeTypeOK, HomeView, Somewhere

LEMMA CallIs ==
  ASSUME CallsOK, NEW c \in Slots
  PROVE  /\ calls[c] \in Call /\ calls[c].box \in Somewhere
         /\ calls[c].mail \in Mails \union {NoMail} /\ calls[c].list \in SUBSET Mails
         /\ calls[c].live \in BOOLEAN /\ calls[c].search \in BOOLEAN
         /\ calls[c].quiet \in BOOLEAN /\ calls[c].held \in BOOLEAN
<1>1. calls[c] \in Call
  BY DEF CallsOK
<1>2. QED  BY <1>1 DEF Call, Somewhere

LEMMA SeenTyped ==
  ASSUME HomeTypeOK, NEW c, NEW h \in HomeView, Seen(c, h)
  PROVE  home' \in HomeView
BY HomeIs, ArmedTyped DEF Seen

LEMMA GoOnTyped ==
  ASSUME CallsOK, NEW c \in Slots, NEW x \in Call, GoOn(c, x)
  PROVE  CallsOK'
<1> DEFINE y == [x EXCEPT !.live = calls[c].live]
<1>1. y \in Call
  BY CallIs, CallSet
<1>2. calls' = [calls EXCEPT ![c] = y]
  BY DEF GoOn
<1> HIDE DEF y
<1>3. QED  BY <1>1, <1>2, SlotTyped

LEMMA SendTyped ==
  ASSUME CallsOK, NEW c \in Slots, NEW x \in Call, Send(c, x)
  PROVE  CallsOK'
BY SlotTyped DEF Send

LEMMA FinishTyped ==
  ASSUME CallsOK, HomeTypeOK, NEW c \in Slots, NEW h \in HomeView, Finish(c, h)
  PROVE  CallsOK' /\ home' \in HomeView
<1> DEFINE v == IF calls[c].quiet THEN h.loading ELSE FALSE
           g == [h EXCEPT !.loading = v]
<1>1. v \in BOOLEAN
  BY DEF HomeView
<1>2. Seen(c, g) /\ Done(c)
  BY DEF Finish
<1> HIDE DEF v
<1>3. g \in HomeView
  BY <1>1, HomeSet
<1> HIDE DEF g
<1>4. home' \in HomeView
  BY <1>2, <1>3, SeenTyped
<1>5. CallsOK'
  BY <1>2, NoCallTyped, SlotTyped DEF Done
<1>6. QED  BY <1>4, <1>5

LEMMA ConfirmTyped ==
  ASSUME CallsOK, HomeTypeOK, NEW c \in Slots, Confirm(c)
  PROVE  CallsOK' /\ home' \in HomeView
<1> DEFINE x == [calls[c] EXCEPT !.next = "confirm"]
           y == [x EXCEPT !.code = 0]
<1>1. x \in Call
  BY CallIs, CallSet DEF Handlers
<1>2. calls' = [calls EXCEPT ![c] = y]
  BY DEF Confirm, CallsOK
<1> HIDE DEF x
<1>3. 0 \in Codes
  BY DEF Codes
<1>4. y \in Call
  BY <1>1, <1>3, CallSet
<1> HIDE DEF y
<1>5. QED  BY <1>2, <1>4, SlotTyped, HomeIs DEF Confirm

\* The handlers of the temporary inbox, to their first await.
LEMMA HomeOpensTyped ==
  ASSUME CallsOK, HomeTypeOK, NEW c \in Slots, HomeTick(c) \/ HomeUser(c)
  PROVE  CallsOK' /\ HomeTypeOK'
<1>1. [home EXCEPT !.loading = TRUE] \in HomeView
  BY HomeIs, HomeSet
<1>2. ASSUME home' \in {home, [home EXCEPT !.loading = TRUE]}, UNCHANGED <<homeStored, homeStray>>
      PROVE  HomeTypeOK'
  BY <1>1, <1>2 DEF HomeTypeOK
<1>3. CASE HomeTick(c)
  <2>1. CreateCall(home.timer.search, TRUE) \in Call
        /\ HomeFetch(home.timer.box, home.timer.search, TRUE) \in Call
    BY HomeIs, HomeCallTyped
  <2>2. CallsOK'
    BY <1>3, <2>1, SendTyped DEF HomeTick
  <2>3. QED  BY <1>2, <1>3, <2>2 DEF HomeTick
<1>4. CASE HomeRefresh(c) \/ HomeEnter(c)
  <2>1. HomeFetch(home.address, home.search, FALSE) \in Call
    BY HomeIs, HomeCallTyped
  <2>2. CallsOK'
    BY <1>4, <2>1, SendTyped DEF HomeRefresh, HomeEnter
  <2>3. QED  BY <1>2, <1>4, <2>2 DEF HomeRefresh, HomeEnter
<1>5. ASSUME NEW m \in Mails, HomeClick(c, m) PROVE CallsOK' /\ HomeTypeOK'
  <2> DEFINE k == HomeCall("open", home.address)
             x == [k EXCEPT !.mail = m]
             y == [x EXCEPT !.list = home.emails]
  <2>1. k \in Call
    BY HomeIs, HomeCallTyped
  <2>2. Send(c, y)
    BY <1>5 DEF HomeClick
  <2> HIDE DEF k
  <2>3. x \in Call
    BY <2>1, CallSet
  <2> HIDE DEF x
  <2>4. y \in Call
    BY <2>3, HomeIs, CallSet
  <2> HIDE DEF y
  <2>5. QED  BY <1>2, <1>5, <2>2, <2>4, SendTyped DEF HomeClick
<1>6. CASE HomeDelete(c)
  <2> DEFINE k == HomeCall("delete", home.address)
             x == [k EXCEPT !.mail = home.selected]
             y == [x EXCEPT !.list = home.emails]
             z == [y EXCEPT !.quiet = TRUE]
  <2>1. k \in Call
    BY HomeIs, HomeCallTyped
  <2>2. Send(c, z)
    BY <1>6 DEF HomeDelete
  <2> HIDE DEF k
  <2>3. x \in Call
    BY <2>1, HomeIs, CallSet
  <2> HIDE DEF x
  <2>4. y \in Call
    BY <2>3, HomeIs, CallSet
  <2> HIDE DEF y
  <2>5. z \in Call
    BY <2>4, CallSet
  <2> HIDE DEF z
  <2>6. QED  BY <1>2, <1>6, <2>2, <2>5, SendTyped DEF HomeDelete
<1>7. CASE HomeGenerate(c)
  <2>1. CreateCall(home.search, FALSE) \in Call
    BY HomeIs, HomeCallTyped DEF Somewhere
  <2>2. QED  BY <1>2, <1>7, <2>1, SendTyped DEF HomeGenerate
<1>8. QED  BY <1>3, <1>4, <1>5, <1>6, <1>7 DEF HomeUser

LEMMA HomeSettingTyped ==
  ASSUME CallsOK, HomeTypeOK, HomeSetting
  PROVE  CallsOK' /\ HomeTypeOK'
<1>1. /\ [home EXCEPT !.search = ~home.search] \in HomeView
      /\ [home EXCEPT !.auto = ~home.auto] \in HomeView
      /\ [home EXCEPT !.dialog = TRUE] \in HomeView /\ [home EXCEPT !.dialog = FALSE] \in HomeView
  BY HomeIs, HomeSet
<1>2. Armed([home EXCEPT !.auto = ~home.auto]) \in HomeView
  BY <1>1, ArmedTyped
<1>3. \/ home' = [home EXCEPT !.search = ~home.search]
      \/ home' = Armed([home EXCEPT !.auto = ~home.auto])
      \/ home' = [home EXCEPT !.dialog = TRUE] \/ home' = [home EXCEPT !.dialog = FALSE]
  BY DEF HomeSetting, HomeType, HomeAuto, HomeNew, HomeClose
<1>4. home' \in HomeView
  BY <1>1, <1>2, <1>3
<1>5. QED  BY <1>4 DEF HomeSetting, HomeTypeOK, CallsOK

\* What follows their awaits.
LEMMA HomeHearsTyped ==
  ASSUME CallsOK, HomeTypeOK, server \in Server, NEW c \in Slots, initInbox(c) \/ HomeAnswer(c)
  PROVE  CallsOK' /\ HomeTypeOK'
<1>1. ASSUME home' \in HomeView, homeStored' \in Somewhere, homeStray' \in BOOLEAN
      PROVE  HomeTypeOK'
  BY <1>1 DEF HomeTypeOK, Somewhere
<1>2. ASSUME home' \in HomeView, UNCHANGED <<homeStored, homeStray>> PROVE HomeTypeOK'
  BY <1>1, <1>2, HomeIs
<1>3. home \in HomeView
  BY HomeIs
<1>4. CASE initInbox(c)
  <2> DEFINE g == [home EXCEPT !.ready = TRUE]
             h == [g EXCEPT !.loading = TRUE]
             k == [g EXCEPT !.address = homeStored]
             n == [k EXCEPT !.loading = TRUE]
  <2>1. g \in HomeView
    BY HomeIs, HomeSet
  <2>2. /\ [home EXCEPT !.ready = TRUE, !.loading = TRUE] = h
        /\ [home EXCEPT !.ready = TRUE, !.address = homeStored, !.loading = TRUE] = n
    OBVIOUS
  <2> HIDE DEF g
  <2>3. h \in HomeView /\ k \in HomeView
    BY <2>1, HomeIs, HomeSet
  <2> HIDE DEF h, k
  <2>4. n \in HomeView
    BY <2>3, HomeSet
  <2> HIDE DEF n
  <2>5. CASE /\ Seen(c, n)
             /\ GoOn(c, [HomeFetch(homeStored, FALSE, FALSE) EXCEPT !.held = FALSE])
             /\ UNCHANGED <<homeStored, homeStray>>
    <3>1. HomeFetch(homeStored, FALSE, FALSE) \in Call
      BY HomeIs, HomeCallTyped
    <3>2. [HomeFetch(homeStored, FALSE, FALSE) EXCEPT !.held = FALSE] \in Call
      BY <3>1, CallSet
    <3>3. CallsOK'
      BY <2>5, <3>2, GoOnTyped
    <3>4. home' \in HomeView
      BY <2>4, <2>5, SeenTyped
    <3>5. QED  BY <1>2, <2>5, <3>3, <3>4
  <2>6. CASE /\ Seen(c, h) /\ GoOn(c, CreateCall(FALSE, FALSE)) /\ homeStored' = NoBox
             /\ homeStray' = (homeStray \/ (~calls[c].live /\ homeStored # NoBox))
    <3>1. CreateCall(FALSE, FALSE) \in Call
      BY HomeIs, HomeCallTyped
    <3>2. CallsOK'
      BY <2>6, <3>1, GoOnTyped
    <3>3. home' \in HomeView
      BY <2>3, <2>6, SeenTyped
    <3>4. QED  BY <1>1, <2>6, <3>2, <3>3 DEF Somewhere
  <2>7. QED  BY <1>4, <2>2, <2>5, <2>6 DEF initInbox
<1>5. ASSUME Confirm(c) \/ Finish(c, home), UNCHANGED <<homeStored, homeStray>>
      PROVE  CallsOK' /\ HomeTypeOK'
  BY <1>2, <1>3, <1>5, ConfirmTyped, FinishTyped
<1>6. ASSUME NEW h \in HomeView, Finish(c, h), UNCHANGED <<homeStored, homeStray>>
      PROVE  CallsOK' /\ HomeTypeOK'
  BY <1>2, <1>6, FinishTyped
<1>7. CASE HomeListAnswer(c)
  <2>1. [home EXCEPT !.emails = calls[c].list] \in HomeView
    BY <1>3, CallIs, HomeSet
  <2>2. QED  BY <1>5, <1>6, <1>7, <2>1 DEF HomeListAnswer
<1>8. CASE HomeOpenAnswer(c)
  <2> DEFINE g == [home EXCEPT !.selected = calls[c].mail]
             h == [g EXCEPT !.emails = calls[c].list]
  <2>1. g \in HomeView
    BY <1>3, CallIs, HomeSet
  <2>2. [home EXCEPT !.selected = calls[c].mail, !.emails = calls[c].list] = h
    OBVIOUS
  <2> HIDE DEF g
  <2>3. h \in HomeView
    BY <2>1, CallIs, HomeSet
  <2> HIDE DEF h
  <2>4. QED  BY <1>5, <1>6, <1>8, <2>2, <2>3 DEF HomeOpenAnswer
<1>9. CASE HomeDeleteAnswer(c)
  <2> DEFINE g == [home EXCEPT !.emails = calls[c].list \ {calls[c].mail}]
             h == [g EXCEPT !.selected = NoMail]
  <2>1. calls[c].list \ {calls[c].mail} \in SUBSET Mails
    BY CallIs
  <2>2. g \in HomeView
    BY <1>3, <2>1, HomeSet
  <2>3. [home EXCEPT !.emails = calls[c].list \ {calls[c].mail}, !.selected = NoMail] = h
    OBVIOUS
  <2> HIDE DEF g
  <2>4. h \in HomeView
    BY <2>2, HomeSet
  <2> HIDE DEF h
  <2>5. QED  BY <1>5, <1>6, <1>9, <2>3, <2>4 DEF HomeDeleteAnswer
<1>10. CASE HomeConfirmAnswer(c)
  <2>1. [home EXCEPT !.loading = TRUE] \in HomeView
    BY <1>3, HomeSet
  <2>2. CreateCall(calls[c].search, TRUE) \in Call
    BY CallIs, HomeIs, HomeCallTyped
  <2>3. CASE Seen(c, [home EXCEPT !.loading = TRUE]) /\ GoOn(c, CreateCall(calls[c].search, TRUE))
    BY <1>2, <1>10, <2>1, <2>2, <2>3, SeenTyped, GoOnTyped DEF HomeConfirmAnswer
  <2>4. QED  BY <1>5, <1>10, <2>3 DEF HomeConfirmAnswer, HomeGone
<1>11. CASE HomeCreateAnswer(c)
  <2> DEFINE g == [home EXCEPT !.address = calls[c].box]
             h == [g EXCEPT !.emails = {}]
             k == [h EXCEPT !.selected = NoMail]
             l == [k EXCEPT !.dialog = FALSE]
             n == [l EXCEPT !.loading = FALSE]
             f == HomeFetch(calls[c].box, calls[c].search, FALSE)
             x == [f EXCEPT !.held = calls[c].held]
  <2>1. g \in HomeView
    BY <1>3, CallIs, HomeSet
  <2>2. \/ Keep(c) /\ Seen(c, n) /\ GoOn(c, x)
        \/ Finish(c, home) /\ UNCHANGED <<homeStored, homeStray>>
    BY <1>11 DEF HomeCreateAnswer
  <2> HIDE DEF g
  <2>3. h \in HomeView
    BY <2>1, HomeSet
  <2> HIDE DEF h
  <2>4. k \in HomeView
    BY <2>3, HomeSet
  <2> HIDE DEF k
  <2>5. l \in HomeView
    BY <2>4, HomeSet
  <2> HIDE DEF l
  <2>6. n \in HomeView
    BY <2>5, HomeSet
  <2>7. f \in Call
    BY CallIs, HomeCallTyped
  <2> HIDE DEF n, f
  <2>8. x \in Call
    BY <2>7, CallIs, CallSet
  <2> HIDE DEF x
  <2>9. CASE Keep(c) /\ Seen(c, n) /\ GoOn(c, x)
    <3>1. homeStored' \in Somewhere /\ homeStray' \in BOOLEAN
      BY <2>9, CallIs, HomeIs DEF Keep
    <3>2. home' \in HomeView
      BY <2>6, <2>9, SeenTyped
    <3>3. CallsOK'
      BY <2>8, <2>9, GoOnTyped
    <3>4. QED  BY <1>1, <3>1, <3>2, <3>3
  <2>10. QED  BY <1>5, <2>2, <2>9
<1>12. QED  BY <1>4, <1>7, <1>8, <1>9, <1>10, <1>11 DEF HomeAnswer

LEMMA BoxSet ==
  ASSUME NEW h \in BoxView
  PROVE  /\ \A v \in BOOLEAN : [h EXCEPT !.ready = v] \in BoxView
         /\ \A v \in BOOLEAN : [h EXCEPT !.loadingEmails = v] \in BoxView
         /\ \A v \in BOOLEAN : [h EXCEPT !.busy = v] \in BoxView
         /\ \A v \in BOOLEAN : [h EXCEPT !.search = v] \in BoxView
         /\ \A v \in BOOLEAN : [h EXCEPT !.auto = v] \in BoxView
         /\ \A v \in BOOLEAN : [h EXCEPT !.failedLogin = v] \in BoxView
         /\ \A v \in Somewhere : [h EXCEPT !.token = v] \in BoxView
         /\ \A v \in Somewhere : [h EXCEPT !.created = v] \in BoxView
         /\ \A v \in SUBSET Mails : [h EXCEPT !.emails = v] \in BoxView
         /\ \A v \in Mails \union {NoMail} : [h EXCEPT !.detail = v] \in BoxView
<1>1. ASSUME NEW v \in BOOLEAN
      PROVE  /\ [h EXCEPT !.ready = v] \in BoxView /\ [h EXCEPT !.loadingEmails = v] \in BoxView
             /\ [h EXCEPT !.busy = v] \in BoxView
  BY DEF BoxView
<1>2. ASSUME NEW v \in BOOLEAN
      PROVE  /\ [h EXCEPT !.search = v] \in BoxView /\ [h EXCEPT !.auto = v] \in BoxView
             /\ [h EXCEPT !.failedLogin = v] \in BoxView
  BY DEF BoxView
<1>3. ASSUME NEW v \in Somewhere PROVE [h EXCEPT !.token = v] \in BoxView
  BY DEF BoxView, Somewhere
<1>4. ASSUME NEW v \in Somewhere PROVE [h EXCEPT !.created = v] \in BoxView
  BY DEF BoxView, Somewhere
<1>5. ASSUME NEW v \in SUBSET Mails PROVE [h EXCEPT !.emails = v] \in BoxView
  BY DEF BoxView
<1>6. ASSUME NEW v \in Mails \union {NoMail} PROVE [h EXCEPT !.detail = v] \in BoxView
  BY DEF BoxView
<1>7. QED  BY <1>1, <1>2, <1>3, <1>4, <1>5, <1>6

LEMMA BoxIs ==
  ASSUME BoxTypeOK
  PROVE  /\ box \in BoxView /\ box.token \in Somewhere /\ box.emails \in SUBSET Mails
         /\ box.detail \in Mails \union {NoMail} /\ box.search \in BOOLEAN
         /\ box.auto \in BOOLEAN /\ box.loadingEmails \in BOOLEAN
         /\ boxStored \in Somewhere /\ boxStray \in BOOLEAN
BY DEF BoxTypeOK, BoxView, Somewhere

LEMMA BoxSendTyped ==
  ASSUME CallsOK, NEW c \in Slots, NEW k \in Handlers, NEW b \in Somewhere, NEW x \in Call,
         BoxSend(c, k, b, x)
  PROVE  CallsOK'
<1> DEFINE x1 == [x EXCEPT !.next = k]
           x2 == [x1 EXCEPT !.by = "mailbox"]
           x3 == [x2 EXCEPT !.live = TRUE]
           x4 == [x3 EXCEPT !.box = b]
<1>1. x1 \in Call
  BY CallSet
<1>2. calls' = [calls EXCEPT ![c] = x4]
  BY DEF BoxSend
<1> HIDE DEF x1
<1>3. x2 \in Call
  BY <1>1, CallSet
<1> HIDE DEF x2
<1>4. x3 \in Call
  BY <1>3, CallSet
<1> HIDE DEF x3
<1>5. x4 \in Call
  BY <1>4, CallSet
<1> HIDE DEF x4
<1>6. QED  BY <1>2, <1>5, SlotTyped

LEMMA BoxFetchTyped ==
  ASSUME CallsOK, NEW c \in Slots, NEW b \in Somewhere, NEW s \in BOOLEAN, NEW q \in BOOLEAN,
         BoxFetch(c, b, s, q)
  PROVE  CallsOK'
<1> DEFINE x == [NoCall EXCEPT !.search = s]
           y == [x EXCEPT !.quiet = q]
<1>1. x \in Call
  BY NoCallTyped, CallSet
<1>2. BoxSend(c, "list", b, y) /\ "list" \in Handlers
  BY DEF BoxFetch, Handlers
<1> HIDE DEF x
<1>3. y \in Call
  BY <1>1, CallSet
<1> HIDE DEF y
<1>4. QED  BY <1>2, <1>3, BoxSendTyped

\* The handlers of the permanent mailbox, to their first await.
LEMMA BoxOpensTyped ==
  ASSUME CallsOK, BoxTypeOK, NEW c \in Slots, BoxTick(c) \/ BoxUser(c)
  PROVE  CallsOK' /\ BoxTypeOK'
<1>1. ASSUME box' \in BoxView, UNCHANGED <<boxStored, boxStray>> PROVE BoxTypeOK'
  BY <1>1 DEF BoxTypeOK
<1>2. box \in BoxView /\ NoBox \in Somewhere
  BY BoxIs DEF Somewhere
<1>3. CASE BoxTick(c)
  <2>1. CallsOK'
    BY <1>3, BoxIs, BoxFetchTyped DEF BoxTick
  <2>2. QED  BY <1>1, <1>2, <1>3, <2>1 DEF BoxTick
<1>4. CASE BoxRefresh(c)
  <2>1. CallsOK'
    BY <1>4, BoxIs, BoxFetchTyped DEF BoxRefresh
  <2>2. [box EXCEPT !.loadingEmails = TRUE] \in BoxView
    BY <1>2, BoxSet
  <2>3. QED  BY <1>1, <1>4, <2>1, <2>2 DEF BoxRefresh
<1>5. CASE BoxClear(c)
  <2> DEFINE g == [box EXCEPT !.search = FALSE]
             h == [g EXCEPT !.loadingEmails = TRUE]
  <2>1. CallsOK'
    BY <1>5, BoxIs, BoxFetchTyped DEF BoxClear
  <2>2. g \in BoxView
    BY <1>2, BoxSet
  <2>3. box' = h
    BY <1>5 DEF BoxClear
  <2> HIDE DEF g
  <2>4. h \in BoxView
    BY <2>2, BoxSet
  <2> HIDE DEF h
  <2>5. QED  BY <1>1, <1>5, <2>1, <2>3, <2>4 DEF BoxClear
<1>6. ASSUME NEW b \in Somewhere, NEW k \in Handlers, BoxSend(c, k, b, NoCall),
             box' = [box EXCEPT !.busy = TRUE, !.failedLogin = FALSE],
             UNCHANGED <<boxStored, boxStray>>
      PROVE  CallsOK' /\ BoxTypeOK'
  <2> DEFINE g == [box EXCEPT !.busy = TRUE]
             h == [g EXCEPT !.failedLogin = FALSE]
  <2>1. CallsOK'
    BY <1>6, NoCallTyped, BoxSendTyped
  <2>2. g \in BoxView
    BY <1>2, BoxSet
  <2>3. box' = h
    BY <1>6
  <2> HIDE DEF g
  <2>4. h \in BoxView
    BY <2>2, BoxSet
  <2> HIDE DEF h
  <2>5. QED  BY <1>1, <1>6, <2>1, <2>3, <2>4
<1>7. CASE handleCreate(c)
  <2>1. "create" \in Handlers
    BY DEF Handlers
  <2>2. QED  BY <1>2, <1>6, <1>7, <2>1 DEF handleCreate
<1>8. ASSUME NEW b \in Boxes, handleLogin(c, b) PROVE CallsOK' /\ BoxTypeOK'
  <2>1. "login" \in Handlers /\ b \in Somewhere
    BY DEF Handlers, Somewhere
  <2>2. QED  BY <1>6, <1>8, <2>1 DEF handleLogin
<1>9. ASSUME NEW k \in Handlers, NEW m \in Mails \union {NoMail},
             BoxSend(c, k, box.token, [NoCall EXCEPT !.mail = m, !.list = box.emails,
                                                     !.quiet = TRUE]),
             box' = box, UNCHANGED <<boxStored, boxStray>>
      PROVE  CallsOK' /\ BoxTypeOK'
  <2> DEFINE x == [NoCall EXCEPT !.mail = m]
             y == [x EXCEPT !.list = box.emails]
             z == [y EXCEPT !.quiet = TRUE]
  <2>1. x \in Call
    BY NoCallTyped, CallSet
  <2>2. BoxSend(c, k, box.token, z)
    BY <1>9
  <2> HIDE DEF x
  <2>3. y \in Call
    BY <2>1, BoxIs, CallSet
  <2> HIDE DEF y
  <2>4. z \in Call
    BY <2>3, CallSet
  <2> HIDE DEF z
  <2>5. CallsOK'
    BY <2>2, <2>4, BoxIs, BoxSendTyped
  <2>6. QED  BY <1>1, <1>2, <1>9, <2>5
<1>10. ASSUME NEW m \in Mails, BoxClick(c, m) PROVE CallsOK' /\ BoxTypeOK'
  <2>1. "open" \in Handlers
    BY DEF Handlers
  <2>2. QED  BY <1>9, <1>10, <2>1 DEF BoxClick
<1>11. CASE BoxDelete(c)
  <2>1. "delete" \in Handlers
    BY DEF Handlers
  <2>2. QED  BY <1>9, <1>11, <2>1, BoxIs DEF BoxDelete
<1>12. QED  BY <1>3, <1>4, <1>5, <1>7, <1>8, <1>10, <1>11 DEF BoxUser

LEMMA LoggedOutTyped == ASSUME NEW v \in BoxView PROVE LoggedOut(v) \in BoxView
<1> DEFINE g == [v EXCEPT !.token = NoBox]
           h == [g EXCEPT !.emails = {}]
           k == [h EXCEPT !.detail = NoMail]
           l == [k EXCEPT !.created = NoBox]
<1>1. NoBox \in Somewhere
  BY DEF Somewhere
<1>2. g \in BoxView
  BY <1>1, BoxSet
<1>3. LoggedOut(v) = l
  BY DEF LoggedOut
<1> HIDE DEF g
<1>4. h \in BoxView
  BY <1>2, BoxSet
<1> HIDE DEF h
<1>5. k \in BoxView
  BY <1>4, BoxSet
<1> HIDE DEF k
<1>6. l \in BoxView
  BY <1>1, <1>5, BoxSet
<1> HIDE DEF l
<1>7. QED  BY <1>3, <1>6

LEMMA BoxSettingTyped ==
  ASSUME CallsOK, BoxTypeOK, logout \/ BoxSetting
  PROVE  CallsOK' /\ BoxTypeOK'
<1>1. /\ LoggedOut(box) \in BoxView /\ [box EXCEPT !.search = ~box.search] \in BoxView
      /\ [box EXCEPT !.auto = ~box.auto] \in BoxView
  BY BoxIs, BoxSet, LoggedOutTyped
<1>2. CallsOK'
  BY DEF logout, BoxSetting, CallsOK
<1>3. box' \in BoxView
  BY <1>1 DEF logout, BoxSetting
<1>4. boxStored' \in Boxes \union {NoBox} /\ boxStray' \in BOOLEAN
  BY BoxIs DEF logout, BoxSetting, Somewhere
<1>5. QED  BY <1>2, <1>3, <1>4 DEF BoxTypeOK

LEMMA BoxListTyped ==
  ASSUME CallsOK, NEW c \in Slots, NEW b \in Somewhere, BoxList(c, b)
  PROVE  CallsOK'
<1> DEFINE x1 == [NoCall EXCEPT !.next = "list"]
           x2 == [x1 EXCEPT !.by = "mailbox"]
           x3 == [x2 EXCEPT !.live = calls[c].live]
           x4 == [x3 EXCEPT !.box = b]
<1>1. x1 \in Call
  BY NoCallTyped, CallSet DEF Handlers
<1>2. calls' = [calls EXCEPT ![c] = x4]
  BY DEF BoxList
<1> HIDE DEF x1
<1>3. x2 \in Call
  BY <1>1, CallSet
<1> HIDE DEF x2
<1>4. x3 \in Call
  BY <1>3, CallIs, CallSet
<1> HIDE DEF x3
<1>5. x4 \in Call
  BY <1>4, CallSet
<1> HIDE DEF x4
<1>6. QED  BY <1>2, <1>5, SlotTyped

\* What follows their awaits.
LEMMA BoxHearsTyped ==
  ASSUME CallsOK, BoxTypeOK, NEW c \in Slots, BoxRestore(c) \/ BoxAnswer(c)
  PROVE  CallsOK' /\ BoxTypeOK'
<1>1. box \in BoxView /\ boxStored \in Somewhere /\ NoBox \in Somewhere
  BY BoxIs DEF Somewhere
<1>2. ASSUME NEW v \in BoxView, BoxSeen(c, v) PROVE box' \in BoxView
  BY <1>1, <1>2 DEF BoxSeen
<1>3. ASSUME BoxDone(c) PROVE CallsOK'
  BY <1>3, NoCallTyped, SlotTyped DEF BoxDone
<1>4. ASSUME NEW b \in Somewhere, BoxStore(c, b)
      PROVE  boxStored' \in Somewhere /\ boxStray' \in BOOLEAN
  BY <1>4, BoxIs, CallIs DEF BoxStore
<1>5. ASSUME box' \in BoxView, boxStored' \in Somewhere, boxStray' \in BOOLEAN
      PROVE  BoxTypeOK'
  BY <1>5 DEF BoxTypeOK, Somewhere
<1>6. ASSUME NEW v \in BoxView, BoxSeen(c, v), BoxDone(c), UNCHANGED <<boxStored, boxStray>>
      PROVE  CallsOK' /\ BoxTypeOK'
  <2>1. boxStored' \in Somewhere /\ boxStray' \in BOOLEAN
    BY <1>6, BoxIs
  <2>2. QED  BY <1>2, <1>3, <1>5, <1>6, <2>1
<1>7. ASSUME NEW v \in BoxView, BoxNotFound(c, v) PROVE CallsOK' /\ BoxTypeOK'
  <2>1. [v EXCEPT !.failedLogin = TRUE] \in BoxView
    BY BoxSet
  <2>2. LoggedOut([v EXCEPT !.failedLogin = TRUE]) \in BoxView
    BY <2>1, LoggedOutTyped
  <2>3. QED  BY <1>1, <1>2, <1>3, <1>4, <1>5, <1>7, <2>2 DEF BoxNotFound
<1>8. ASSUME NEW v \in BoxView PROVE BoxLoaded(c, v) \in BoxView
  <2> DEFINE q == IF calls[c].quiet THEN v.loadingEmails ELSE FALSE
  <2>1. q \in BOOLEAN
    BY DEF BoxView
  <2>2. BoxLoaded(c, v) = [v EXCEPT !.loadingEmails = q]
    BY DEF BoxLoaded
  <2> HIDE DEF q
  <2>3. QED  BY <2>1, <2>2, BoxSet
<1>9. ASSUME NEW v \in BoxView, BoxEnter(c, v) PROVE CallsOK' /\ BoxTypeOK'
  <2> DEFINE g == [v EXCEPT !.token = calls[c].box]
             h == [g EXCEPT !.busy = FALSE]
             k == [h EXCEPT !.loadingEmails = TRUE]
  <2>1. g \in BoxView
    BY CallIs, BoxSet
  <2>2. BoxSeen(c, k) /\ BoxStore(c, calls[c].box) /\ BoxList(c, calls[c].box)
    BY <1>9 DEF BoxEnter
  <2> HIDE DEF g
  <2>3. h \in BoxView
    BY <2>1, BoxSet
  <2> HIDE DEF h
  <2>4. k \in BoxView
    BY <2>3, BoxSet
  <2> HIDE DEF k
  <2>5. CallsOK'
    BY <2>2, CallIs, BoxListTyped
  <2>6. QED  BY <1>2, <1>4, <1>5, <2>2, <2>4, <2>5, CallIs
<1>10. ASSUME NEW v \in BoxView, BoxRefused(c, v) PROVE CallsOK' /\ BoxTypeOK'
  <2>1. [v EXCEPT !.busy = FALSE] \in BoxView
    BY BoxSet
  <2>2. QED  BY <1>6, <1>10, <2>1 DEF BoxRefused
<1>11. CASE BoxRestore(c)
  <2> DEFINE g == [box EXCEPT !.ready = TRUE]
             h == [g EXCEPT !.token = boxStored]
             k == [h EXCEPT !.loadingEmails = TRUE]
  <2>1. g \in BoxView
    BY <1>1, BoxSet
  <2>2. /\ UNCHANGED <<boxStored, boxStray>>
        /\ \/ BoxSeen(c, k) /\ BoxList(c, boxStored)
           \/ BoxSeen(c, g) /\ BoxDone(c)
    BY <1>11 DEF BoxRestore
  <2> HIDE DEF g
  <2>3. h \in BoxView
    BY <1>1, <2>1, BoxSet
  <2> HIDE DEF h
  <2>4. k \in BoxView
    BY <2>3, BoxSet
  <2> HIDE DEF k
  <2>5. CASE BoxSeen(c, k) /\ BoxList(c, boxStored)
    <3>1. CallsOK'
      BY <1>1, <2>5, BoxListTyped
    <3>2. box' \in BoxView
      BY <1>2, <2>4, <2>5
    <3>3. QED  BY <1>5, <2>2, <3>1, <3>2, BoxIs
  <2>6. QED  BY <1>6, <2>1, <2>2, <2>5
<1>12. CASE BoxListAnswer(c)
  <2>1. [box EXCEPT !.emails = calls[c].list] \in BoxView
    BY <1>1, CallIs, BoxSet
  <2>2. /\ BoxLoaded(c, [box EXCEPT !.emails = calls[c].list]) \in BoxView
        /\ BoxLoaded(c, box) \in BoxView
    BY <1>1, <1>8, <2>1
  <2>3. QED  BY <1>6, <1>7, <1>12, <2>2 DEF BoxListAnswer
<1>13. CASE BoxOpenAnswer(c)
  <2> DEFINE g == [box EXCEPT !.detail = calls[c].mail]
             h == [g EXCEPT !.emails = calls[c].list]
  <2>1. g \in BoxView
    BY <1>1, CallIs, BoxSet
  <2>2. [box EXCEPT !.detail = calls[c].mail, !.emails = calls[c].list] = h
    OBVIOUS
  <2> HIDE DEF g
  <2>3. h \in BoxView
    BY <2>1, CallIs, BoxSet
  <2> HIDE DEF h
  <2>4. QED  BY <1>1, <1>6, <1>7, <1>13, <2>2, <2>3 DEF BoxOpenAnswer
<1>14. CASE BoxDeleteAnswer(c)
  <2> DEFINE g == [box EXCEPT !.emails = calls[c].list \ {calls[c].mail}]
             h == [g EXCEPT !.detail = NoMail]
  <2>1. calls[c].list \ {calls[c].mail} \in SUBSET Mails
    BY CallIs
  <2>2. g \in BoxView
    BY <1>1, <2>1, BoxSet
  <2>3. [box EXCEPT !.emails = calls[c].list \ {calls[c].mail}, !.detail = NoMail] = h
    OBVIOUS
  <2> HIDE DEF g
  <2>4. h \in BoxView
    BY <2>2, BoxSet
  <2> HIDE DEF h
  <2>5. QED  BY <1>1, <1>6, <1>7, <1>14, <2>3, <2>4 DEF BoxDeleteAnswer
<1>15. CASE BoxCreateAnswer(c)
  <2>1. [box EXCEPT !.created = calls[c].box] \in BoxView
    BY <1>1, CallIs, BoxSet
  <2>2. QED  BY <1>1, <1>9, <1>10, <1>15, <2>1 DEF BoxCreateAnswer
<1>16. CASE BoxLoginAnswer(c)
  <2>1. [box EXCEPT !.failedLogin = TRUE] \in BoxView
    BY <1>1, BoxSet
  <2>2. QED  BY <1>1, <1>9, <1>10, <1>16, <2>1 DEF BoxLoginAnswer
<1>17. QED  BY <1>11, <1>12, <1>13, <1>14, <1>15, <1>16 DEF BoxAnswer

LEMMA ServerSet ==
  ASSUME NEW s \in Server
  PROVE  /\ s.used \in SUBSET Boxes /\ s.perm \in SUBSET Boxes /\ s.due \in SUBSET Boxes
         /\ s.removed \in SUBSET Boxes /\ s.arrived \in SUBSET Mails
         /\ s.inbox \in [Boxes -> SUBSET Mails]
         /\ \A v \in SUBSET Boxes : [s EXCEPT !.used = v] \in Server
         /\ \A v \in SUBSET Boxes : [s EXCEPT !.perm = v] \in Server
         /\ \A v \in SUBSET Boxes : [s EXCEPT !.due = v] \in Server
         /\ \A v \in SUBSET Boxes : [s EXCEPT !.removed = v] \in Server
         /\ \A v \in SUBSET Mails : [s EXCEPT !.arrived = v] \in Server
         /\ \A v \in [Boxes -> SUBSET Mails] : [s EXCEPT !.inbox = v] \in Server
<1>1. /\ s.used \in SUBSET Boxes /\ s.perm \in SUBSET Boxes /\ s.due \in SUBSET Boxes
      /\ s.removed \in SUBSET Boxes /\ s.arrived \in SUBSET Mails
      /\ s.inbox \in [Boxes -> SUBSET Mails]
  BY DEF Server
<1>2. ASSUME NEW v \in SUBSET Boxes
      PROVE  [s EXCEPT !.used = v] \in Server /\ [s EXCEPT !.perm = v] \in Server
  BY DEF Server
<1>3. ASSUME NEW v \in SUBSET Boxes
      PROVE  [s EXCEPT !.due = v] \in Server /\ [s EXCEPT !.removed = v] \in Server
  BY DEF Server
<1>4. ASSUME NEW v \in SUBSET Mails PROVE [s EXCEPT !.arrived = v] \in Server
  BY DEF Server
<1>5. ASSUME NEW v \in [Boxes -> SUBSET Mails] PROVE [s EXCEPT !.inbox = v] \in Server
  BY DEF Server
<1>6. QED  BY <1>1, <1>2, <1>3, <1>4, <1>5

LEMMA InboxSet ==
  ASSUME NEW s \in Server, NEW b \in Boxes, NEW S \in SUBSET Mails
  PROVE  [s EXCEPT !.inbox[b] = S] \in Server
<1> DEFINE f == [s.inbox EXCEPT ![b] = S]
<1>1. f \in [Boxes -> SUBSET Mails]
  BY ServerSet
<1>2. [s EXCEPT !.inbox[b] = S] = [s EXCEPT !.inbox = f]
  OBVIOUS
<1> HIDE DEF f
<1>3. QED  BY <1>1, <1>2, ServerSet

LEMMA AnswerTyped ==
  ASSUME CallsOK, NEW c \in Slots, NEW code \in Codes, Answer(c, code)
  PROVE  CallsOK'
<1> DEFINE x == [calls[c] EXCEPT !.code = code]
<1>1. x \in Call
  BY CallIs, CallSet
<1>2. calls' = [calls EXCEPT ![c] = x]
  BY DEF Answer
<1> HIDE DEF x
<1>3. QED  BY <1>1, <1>2, SlotTyped

\* The server answers.
LEMMA ServeTyped ==
  ASSUME CallsOK, server \in Server, NEW c \in Slots, Serve(c)
  PROVE  CallsOK' /\ server' \in Server
<1>1. {0, 200, 404, 500} = Codes
  BY DEF Codes
<1>2. CASE listEmails(c)
  <2> DEFINE v == IF calls[c].box \in Open THEN 200 ELSE 404
             l == IF calls[c].box \in Open
                  THEN Matches(server.inbox[calls[c].box], calls[c].search) ELSE {}
             x == [calls[c] EXCEPT !.code = v]
             y == [x EXCEPT !.list = l]
  <2>1. v \in Codes
    BY <1>1
  <2>2. l \in SUBSET Mails
    <3>1. CASE calls[c].box \in Open
      <4>1. calls[c].box \in Boxes
        BY <3>1, ServerSet DEF Open
      <4>2. server.inbox[calls[c].box] \in SUBSET Mails
        BY <4>1, ServerSet
      <4>3. QED  BY <4>2 DEF Matches
    <3>2. QED  BY <3>1
  <2>3. calls' = [calls EXCEPT ![c].code = v, ![c].list = l]
    BY <1>2 DEF listEmails
  <2> HIDE DEF v, l
  <2>4. calls' = [calls EXCEPT ![c] = y]
    BY <2>3 DEF CallsOK
  <2>5. x \in Call
    BY <2>1, CallIs, CallSet
  <2> HIDE DEF x
  <2>6. y \in Call
    BY <2>2, <2>5, CallSet
  <2> HIDE DEF y
  <2>7. QED  BY <1>2, <2>4, <2>6, SlotTyped DEF listEmails
<1>3. CASE getEmail(c) \/ getAddressInfo(c) \/ NoneLeft(c)
  <2>1. \E code \in Codes : Answer(c, code)
    BY <1>1, <1>3 DEF getEmail, getAddressInfo, NoneLeft
  <2>2. QED  BY <1>3, <2>1, AnswerTyped DEF getEmail, getAddressInfo, NoneLeft
<1>4. CASE deleteEmail(c)
  <2>1. \E code \in Codes : Answer(c, code)
    BY <1>1, <1>4 DEF deleteEmail
  <2>2. CASE Has(c) /\ server' = [server EXCEPT !.inbox[calls[c].box] = @ \ {calls[c].mail}]
    <3>1. calls[c].box \in Boxes
      BY <2>2, ServerSet DEF Has, Open
    <3>2. server.inbox[calls[c].box] \ {calls[c].mail} \in SUBSET Mails
      BY <3>1, ServerSet
    <3>3. QED  BY <2>1, <2>2, <3>1, <3>2, AnswerTyped, InboxSet
  <2>3. QED  BY <1>4, <2>1, <2>2, AnswerTyped DEF deleteEmail
<1>5. ASSUME NEW b \in Boxes, NEW p \in BOOLEAN, NewBox(c, b, p)
      PROVE  CallsOK' /\ server' \in Server
  <2> DEFINE x == [calls[c] EXCEPT !.code = 200]
             y == [x EXCEPT !.box = b]
             u == server.used \union {b}
             q == IF p THEN server.perm \union {b} ELSE server.perm
             s == [server EXCEPT !.used = u]
  <2>1. x \in Call
    <3>1. 200 \in Codes
      BY DEF Codes
    <3>2. calls[c] \in Call
      BY CallIs
    <3>3. QED  BY <3>1, <3>2, CallSet, Zenon
  <2>2. calls' = [calls EXCEPT ![c] = y]
    BY <1>5 DEF NewBox, CallsOK
  <2> HIDE DEF x
  <2>3. y \in Call
    BY <2>1, CallSet DEF Somewhere
  <2> HIDE DEF y
  <2>4. u \in SUBSET Boxes /\ q \in SUBSET Boxes
    BY ServerSet
  <2>5. server' = [s EXCEPT !.perm = q]
    BY <1>5 DEF NewBox
  <2> HIDE DEF u, q
  <2>6. s \in Server
    BY <2>4, ServerSet
  <2> HIDE DEF s
  <2>7. QED  BY <2>2, <2>3, <2>4, <2>5, <2>6, SlotTyped, ServerSet
<1>6. QED  BY <1>2, <1>3, <1>4, <1>5 DEF Serve, createAddress, createPermanentAddress

LEMMA OutsideTyped ==
  ASSUME ApiTypeOK, Outside
  PROVE  ApiTypeOK'
<1>1. /\ CallsOK /\ server \in Server /\ changes \in 0..MaxChanges /\ faults \in 0..MaxFaults
      /\ MaxChanges \in Nat /\ MaxFaults \in Nat
  BY ApiAssumption DEF ApiTypeOK, CallsOK
<1>2. ASSUME NEW c \in Slots, Fail(c) PROVE ApiTypeOK'
  <2>1. 500 \in Codes
    BY DEF Codes
  <2>2. CallsOK'
    BY <1>1, <1>2, <2>1, AnswerTyped DEF Fail
  <2>3. server' \in Server /\ changes' \in 0..MaxChanges /\ faults' \in 0..MaxFaults
    BY <1>1, <1>2 DEF Fail
  <2>4. QED  BY <2>2, <2>3 DEF ApiTypeOK, CallsOK
<1>3. ASSUME NEW s \in Server, Change(s) PROVE ApiTypeOK'
  <2>1. /\ calls' = calls /\ faults' = faults /\ server' = s
        /\ changes < MaxChanges /\ changes' = changes + 1
    BY <1>3 DEF Change
  <2>2. changes' \in 0..MaxChanges
    BY <1>1, <2>1
  <2>3. QED  BY <1>1, <2>1, <2>2 DEF ApiTypeOK, CallsOK
<1>4. ASSUME NEW b \in Boxes, Expire(b) \/ Remove(b) PROVE ApiTypeOK'
  <2>1. [server EXCEPT !.due = server.due \union {b}] \in Server
        /\ [server EXCEPT !.removed = server.removed \union {b}] \in Server
    <3>1. server.due \union {b} \in SUBSET Boxes /\ server.removed \union {b} \in SUBSET Boxes
      BY <1>1, ServerSet
    <3>2. QED  BY <1>1, <3>1, ServerSet
  <2>2. \/ Change([server EXCEPT !.due = server.due \union {b}])
        \/ Change([server EXCEPT !.removed = server.removed \union {b}])
    BY <1>4 DEF Expire, Remove
  <2>3. QED  BY <1>3, <2>1, <2>2
<1>5. ASSUME NEW m \in Mails, NEW b \in Boxes, Vanish(m, b) PROVE ApiTypeOK'
  <2>1. server.inbox[b] \ {m} \in SUBSET Mails
    BY <1>1, ServerSet
  <2>2. [server EXCEPT !.inbox[b] = server.inbox[b] \ {m}] \in Server
    BY <1>1, <2>1, InboxSet
  <2>3. Change([server EXCEPT !.inbox[b] = server.inbox[b] \ {m}])
    BY <1>5 DEF Vanish
  <2>4. QED  BY <1>3, <2>2, <2>3
<1>6. ASSUME NEW m \in Mails, NEW b \in Boxes, Arrive(m, b) PROVE ApiTypeOK'
  <2> DEFINE i == server.inbox[b] \union {m}
             a == server.arrived \union {m}
             s == [server EXCEPT !.inbox[b] = i]
  <2>1. i \in SUBSET Mails /\ a \in SUBSET Mails
    BY <1>1, ServerSet
  <2>2. server' = [s EXCEPT !.arrived = a]
    BY <1>6 DEF Arrive
  <2> HIDE DEF i, a
  <2>3. s \in Server
    BY <1>1, <2>1, InboxSet
  <2> HIDE DEF s
  <2>4. server' \in Server
    BY <2>1, <2>2, <2>3, ServerSet
  <2>5. QED  BY <1>1, <1>6, <2>4 DEF Arrive, ApiTypeOK, CallsOK
<1>7. QED  BY <1>2, <1>4, <1>5, <1>6 DEF Outside, World

LEMMA BrowseTyped ==
  ASSUME TypeOK, Browse
  PROVE  CallsOK' /\ home' \in HomeView /\ box' \in BoxView /\ page' \in {"home", "mailbox", "other"}
<1>1. CallsOK /\ page \in {"home", "mailbox", "other"}
  BY DEF TypeOK, ApiTypeOK, CallsOK
<1>2. HomeBlank \in HomeView
  BY DEF HomeBlank, HomeView, NoTimer
<1>3. BoxBlank \in BoxView
  BY DEF BoxBlank, BoxView
<1>4. ASSUME NEW kept \in [Slots -> Call], NEW p \in {"home", "mailbox", "other"}, Visit(kept, p)
      PROVE  /\ CallsOK' /\ home' \in HomeView /\ box' \in BoxView
             /\ page' \in {"home", "mailbox", "other"}
  <2>1. CASE p = "other"
    BY <1>2, <1>3, <1>4, <2>1 DEF Visit, CallsOK
  <2>2. CASE p # "other"
    <3> DEFINE x == [NoCall EXCEPT !.next = "mount"]
               y == [x EXCEPT !.by = p]
               z == [y EXCEPT !.live = TRUE]
    <3>1. x \in Call
      BY NoCallTyped, CallSet DEF Handlers
    <3>2. PICK c \in Slots : calls' = [kept EXCEPT ![c] = z]
      BY <1>4, <2>2 DEF Visit
    <3> HIDE DEF x
    <3>3. y \in Call
      BY <2>2, <3>1, CallSet
    <3> HIDE DEF y
    <3>4. z \in Call
      BY <3>3, CallSet
    <3> HIDE DEF z
    <3>5. CallsOK'
      BY <3>2, <3>4 DEF CallsOK
    <3>6. QED  BY <1>2, <1>3, <1>4, <3>5 DEF Visit
  <2>3. QED  BY <2>1, <2>2
<1>5. Orphaned \in [Slots -> Call]
  <2>1. \A c \in Slots : [calls[c] EXCEPT !.live = FALSE] \in Call
    BY <1>1, CallIs, CallSet
  <2>2. QED  BY <2>1 DEF Orphaned
<1>6. NoneWaits \in [Slots -> Call]
  BY NoCallTyped DEF NoneWaits
<1>7. QED  BY <1>1, <1>4, <1>5, <1>6 DEF Browse, Reload, Link

LEMMA TypesInit == Init => TypeOK
<1> SUFFICES ASSUME Init PROVE TypeOK
  OBVIOUS
<1>1. PICK b \in Sessions : ApiInit({b} \ {NoBox}) /\ BoxInit(b)
  BY DEF Init
<1>2. b \in Boxes \union {NoBox} /\ {b} \ {NoBox} \in SUBSET Boxes /\ MaxActs \in Nat
  BY PagesAssumption
<1>3. server \in Server
  BY <1>1, <1>2 DEF ApiInit, Server
<1>4. calls \in [Slots -> Call]
  BY <1>1, NoCallTyped DEF ApiInit
<1>5. changes \in 0..MaxChanges /\ faults \in 0..MaxFaults
  BY <1>1, ApiAssumption DEF ApiInit
<1>6. BoxTypeOK
  BY <1>1, <1>2 DEF BoxInit, BoxTypeOK, BoxBlank, BoxView
<1>7. HomeTypeOK
  BY DEF Init, HomeInit, HomeTypeOK, HomeBlank, HomeView, NoTimer
<1>8. QED  BY <1>2, <1>3, <1>4, <1>5, <1>6, <1>7 DEF Init, TypeOK, ApiTypeOK

LEMMA TypesStep == TypeOK /\ [Next]_vars => TypeOK'
<1> SUFFICES ASSUME TypeOK, [Next]_vars PROVE TypeOK'
  OBVIOUS
<1>1. /\ ApiTypeOK /\ HomeTypeOK /\ BoxTypeOK /\ CallsOK /\ server \in Server
      /\ page \in {"home", "mailbox", "other"} /\ acts \in 0..MaxActs /\ MaxActs \in Nat
  BY PagesAssumption DEF TypeOK, ApiTypeOK, CallsOK
<1>2. ASSUME CallsOK', UNCHANGED <<server, changes, faults>> PROVE ApiTypeOK'
  BY <1>1, <1>2 DEF ApiTypeOK, CallsOK
<1>3. ASSUME UNCHANGED homeVars PROVE HomeTypeOK'
  BY <1>1, <1>3 DEF homeVars, HomeTypeOK
<1>4. ASSUME UNCHANGED boxVars PROVE BoxTypeOK'
  BY <1>1, <1>4 DEF boxVars, BoxTypeOK
<1>5. ASSUME Act PROVE acts' \in 0..MaxActs
  BY <1>1, <1>5 DEF Act
<1>6. ASSUME ApiTypeOK', HomeTypeOK', BoxTypeOK', page' \in {"home", "mailbox", "other"},
             acts' \in 0..MaxActs
      PROVE  TypeOK'
  BY <1>6 DEF TypeOK
<1>7. CASE Browse
  <2>1. /\ CallsOK' /\ home' \in HomeView /\ box' \in BoxView
        /\ page' \in {"home", "mailbox", "other"}
    BY <1>7, BrowseTyped
  <2>2. HomeTypeOK' /\ BoxTypeOK'
    BY <1>1, <1>7, <2>1 DEF Browse, HomeTypeOK, BoxTypeOK
  <2>3. QED  BY <1>2, <1>5, <1>6, <1>7, <2>1, <2>2 DEF Browse
<1>8. CASE HomeActs
  <2>1. CallsOK' /\ HomeTypeOK'
    BY <1>1, <1>8, HomeSettingTyped, HomeOpensTyped DEF HomeActs
  <2>2. QED  BY <1>1, <1>2, <1>4, <1>5, <1>6, <1>8, <2>1 DEF HomeActs, Ours
<1>9. CASE BoxActs
  <2>1. CallsOK' /\ BoxTypeOK'
    BY <1>1, <1>9, BoxSettingTyped, BoxOpensTyped DEF BoxActs
  <2>2. QED  BY <1>1, <1>2, <1>3, <1>5, <1>6, <1>9, <2>1 DEF BoxActs, Ours
<1>10. CASE HomeTicks
  <2>1. CallsOK' /\ HomeTypeOK'
    BY <1>1, <1>10, HomeOpensTyped DEF HomeTicks
  <2>2. QED  BY <1>1, <1>2, <1>4, <1>6, <1>10, <2>1 DEF HomeTicks, Ours
<1>11. CASE BoxTicks
  <2>1. CallsOK' /\ BoxTypeOK'
    BY <1>1, <1>11, BoxOpensTyped DEF BoxTicks
  <2>2. QED  BY <1>1, <1>2, <1>3, <1>6, <1>11, <2>1 DEF BoxTicks, Ours
<1>12. CASE Outside
  <2>1. ApiTypeOK'
    BY <1>1, <1>12, OutsideTyped
  <2>2. QED  BY <1>1, <1>3, <1>4, <1>6, <1>12, <2>1 DEF Outside
<1>13. ASSUME NEW c \in Slots, HomeHears(c) PROVE TypeOK'
  <2>1. CallsOK' /\ HomeTypeOK'
    BY <1>1, <1>13, HomeHearsTyped DEF HomeHears
  <2>2. UNCHANGED <<server, changes, faults, boxVars, page, acts>>
    BY <1>13 DEF HomeHears, initInbox, HomeAnswer
  <2>3. QED  BY <1>1, <1>2, <1>4, <1>6, <2>1, <2>2
<1>14. ASSUME NEW c \in Slots, BoxHears(c) PROVE TypeOK'
  <2>1. CallsOK' /\ BoxTypeOK'
    BY <1>1, <1>14, BoxHearsTyped DEF BoxHears
  <2>2. UNCHANGED <<server, changes, faults, homeVars, page, acts>>
    BY <1>14 DEF BoxHears, BoxRestore, BoxAnswer
  <2>3. QED  BY <1>1, <1>2, <1>3, <1>6, <2>1, <2>2
<1>15. ASSUME NEW c \in Slots, Served(c) PROVE TypeOK'
  <2>1. CallsOK' /\ server' \in Server
    BY <1>1, <1>15, ServeTyped DEF Served
  <2>2. UNCHANGED <<changes, faults, homeVars, boxVars, page, acts>>
    BY <1>15 DEF Served, Serve
  <2>3. ApiTypeOK'
    BY <1>1, <2>1, <2>2 DEF ApiTypeOK, CallsOK
  <2>4. QED  BY <1>1, <1>3, <1>4, <1>6, <2>2, <2>3
<1>16. CASE UNCHANGED vars
  BY <1>1, <1>2, <1>3, <1>4, <1>6, <1>16 DEF vars, apiVars, CallsOK
<1>17. QED
  BY <1>7, <1>8, <1>9, <1>10, <1>11, <1>12, <1>13, <1>14, <1>15, <1>16 DEF Next

\* Whatever handlers wait, are answered late or outlive their page, hooks, timers, calls,
\* localStorage and server keep their types: an answer never brings a page something that
\* is not an address, a message or a list of messages.
THEOREM PagesTypes == Spec => []TypeOK
BY TypesInit, TypesStep, PTL DEF Spec
=============================================================================
