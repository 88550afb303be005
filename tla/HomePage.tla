------------------------------- MODULE HomePage -----------------------------
(***************************************************************************)
(* The page of the temporary inbox (web/app/page.tsx).  A handler runs to    *)
(* its first await in one step, with the state of the render it was created  *)
(* in; what follows an await runs with those old values when the answer      *)
(* comes, and does nothing to the view of a page that has been left.         *)
(***************************************************************************)
EXTENDS MailApi

VARIABLES
  home,           \* the state hooks of the page
  homeStored,     \* localStorage "mailbucket_address"
  homeStray       \* history: a call that outlived its page has written there

homeVars == <<home, homeStored, homeStray>>

\* The interval of the auto-refresh effect, with what its closure captured.
NoTimer == [box |-> NoBox, search |-> FALSE]

HomeBlank == [ready |-> FALSE, address |-> NoBox, emails |-> {}, selected |-> NoMail,
              loading |-> FALSE, search |-> FALSE, auto |-> TRUE, dialog |-> FALSE,
              timer |-> NoTimer]

HomeView == [ready : BOOLEAN, address : Boxes \union {NoBox}, emails : SUBSET Mails,
             selected : Mails \union {NoMail}, loading : BOOLEAN, search : BOOLEAN,
             auto : BOOLEAN, dialog : BOOLEAN,
             timer : [box : Boxes \union {NoBox}, search : BOOLEAN]]

HomeTypeOK ==
  /\ home \in HomeView
  /\ homeStored \in Boxes \union {NoBox}
  /\ homeStray \in BOOLEAN

HomeInit ==
  /\ home = HomeBlank
  /\ homeStored = NoBox
  /\ homeStray = FALSE

\* Mutant of Armed: the address is not among the dependencies of the effect once
\* the interval runs.
ArmedOnce(h) ==
  IF h.auto # home.auto \/ home.address = NoBox
  THEN [h EXCEPT !.timer = IF h.auto /\ h.address # NoBox
                           THEN [box |-> h.address, search |-> h.search] ELSE NoTimer]
  ELSE h

\* The effect with dependencies [address, autoRefresh] starts a new interval; the
\* search string it captures is the one of this moment.
Armed(h) ==
  IF h.address # home.address \/ h.auto # home.auto
  THEN [h EXCEPT !.timer = IF h.auto /\ h.address # NoBox
                           THEN [box |-> h.address, search |-> h.search] ELSE NoTimer]
  ELSE h

-----------------------------------------------------------------------------
(* What the page shows: the controls a user can work.                       *)

HomeAddressCard == IF home.address = NoBox THEN {} ELSE {"copy", "new"}

HomeListControls ==
  IF home.address = NoBox THEN {}
  ELSE {"auto", "search"} \union (IF home.loading THEN {} ELSE {"refresh"})
                          \union (IF home.search THEN {"clear"} ELSE {})

HomeRows == IF home.address = NoBox THEN {} ELSE home.emails

HomeDetailControls ==
  IF home.address = NoBox \/ home.selected = NoMail THEN {} ELSE {"raw", "delete"}

HomeDialogControls ==
  IF ~home.dialog THEN {}
  ELSE {"close"} \union (IF home.loading THEN {} ELSE {"generate"})

-----------------------------------------------------------------------------
HomeCall(kind, b) ==
  [NoCall EXCEPT !.next = kind, !.by = "home", !.live = TRUE, !.box = b,
                 !.held = TRUE]

Send(c, call) == Free(c) /\ calls' = [calls EXCEPT ![c] = call]

\* fetchEmails(token, silent), with the search string of the closure.
HomeFetch(b, s, silent) == [HomeCall("list", b) EXCEPT !.search = s, !.quiet = silent]

\* createNewAddress(oldEmail), to its await.
CreateCall(s, held) ==
  [HomeCall("create", NoBox) EXCEPT !.search = s, !.held = held]

\* setState on a page that has been left has no effect.
Seen(c, h) == home' = IF calls[c].live THEN Armed(h) ELSE home

\* The handler goes on to ask for something else.
GoOn(c, call) == calls' = [calls EXCEPT ![c] = [call EXCEPT !.live = calls[c].live]]

\* initInbox(), when getSetupStatus has answered or failed, even if the page has
\* been left meanwhile: the saved address, or a new one.
initInbox(c) ==
  /\ calls[c].by = "home" /\ calls[c].next = "mount"
  /\ \/ /\ homeStored \in server.used \ server.due
        /\ Seen(c, [home EXCEPT !.ready = TRUE, !.address = homeStored, !.loading = TRUE])
        /\ GoOn(c, [HomeFetch(homeStored, FALSE, FALSE) EXCEPT !.held = FALSE])
        /\ UNCHANGED <<homeStored, homeStray>>
     \/ /\ homeStored \in server.due \union {NoBox}
        /\ Seen(c, [home EXCEPT !.ready = TRUE, !.loading = TRUE])
        /\ GoOn(c, CreateCall(FALSE, FALSE))
        /\ homeStored' = NoBox
        /\ homeStray' = (homeStray \/ (~calls[c].live /\ homeStored # NoBox))
  /\ UNCHANGED <<server, changes, faults>>

\* Mutant of HomeTick: the interval only refreshes and leaves it to the 404.
HomeTickOnly(c) ==
  /\ home.timer.box # NoBox
  /\ home' = home
  /\ Send(c, HomeFetch(home.timer.box, home.timer.search, TRUE))
  /\ UNCHANGED <<homeStored, homeStray>>

\* The interval: a new address when this one has expired, else a silent refresh.
HomeTick(c) ==
  /\ home.timer.box # NoBox
  /\ IF home.timer.box \in server.due
     THEN home' = [home EXCEPT !.loading = TRUE] /\ Send(c, CreateCall(home.timer.search, TRUE))
     ELSE home' = home /\ Send(c, HomeFetch(home.timer.box, home.timer.search, TRUE))
  /\ UNCHANGED <<homeStored, homeStray>>

HomeRefresh(c) ==
  /\ "refresh" \in HomeListControls
  /\ home' = [home EXCEPT !.loading = TRUE]
  /\ Send(c, HomeFetch(home.address, home.search, FALSE))
  /\ UNCHANGED <<homeStored, homeStray>>

\* Enter in the search field, which `loading` does not disable.
HomeEnter(c) ==
  /\ "search" \in HomeListControls
  /\ home' = [home EXCEPT !.loading = TRUE]
  /\ Send(c, HomeFetch(home.address, home.search, FALSE))
  /\ UNCHANGED <<homeStored, homeStray>>

\* handleEmailClick, handleDeleteEmail: to their await.
HomeClick(c, m) ==
  /\ m \in HomeRows
  /\ home' = [home EXCEPT !.loading = TRUE]
  /\ Send(c, [HomeCall("open", home.address) EXCEPT !.mail = m, !.list = home.emails])
  /\ UNCHANGED <<homeStored, homeStray>>

HomeDelete(c) ==
  /\ "delete" \in HomeDetailControls
  /\ home' = home
  /\ Send(c, [HomeCall("delete", home.address) EXCEPT
                !.mail = home.selected, !.list = home.emails, !.quiet = TRUE])
  /\ UNCHANGED <<homeStored, homeStray>>

HomeGenerate(c) ==
  /\ "generate" \in HomeDialogControls
  /\ home' = [home EXCEPT !.loading = TRUE]
  /\ Send(c, CreateCall(home.search, FALSE))
  /\ UNCHANGED <<homeStored, homeStray>>

\* Controls that only change the view.
HomeType ==
  /\ "search" \in HomeListControls
  /\ home' = [home EXCEPT !.search = ~@]
HomeAuto ==
  /\ "auto" \in HomeListControls
  /\ home' = Armed([home EXCEPT !.auto = ~@])
HomeNew ==
  /\ "new" \in HomeAddressCard
  /\ home' = [home EXCEPT !.dialog = TRUE]
HomeClose ==
  /\ "close" \in HomeDialogControls
  /\ home' = [home EXCEPT !.dialog = FALSE]
HomeSetting ==
  /\ HomeType \/ HomeAuto \/ HomeNew \/ HomeClose
  /\ UNCHANGED <<homeStored, homeStray, calls>>

-----------------------------------------------------------------------------
(* What follows the awaits.                                                  *)

Done(c) == calls' = [calls EXCEPT ![c] = NoCall]

\* Mutant of Finish: the spinner is stopped in the `try`, after the answer.
FinishOk(c, h) ==
  Seen(c, [h EXCEPT !.loading = IF calls[c].quiet \/ calls[c].code # 200 THEN @ ELSE FALSE])
    /\ Done(c)

\* `finally`: the spinner of a call that started one.
Finish(c, h) == Seen(c, [h EXCEPT !.loading = IF calls[c].quiet THEN @ ELSE FALSE]) /\ Done(c)

\* error.status === 404: confirmAddressGone asks for /info with the same token.
Confirm(c) ==
  /\ home' = home
  /\ calls' = [calls EXCEPT ![c].next = "confirm", ![c].code = 0]

HomeListAnswer(c) ==
  /\ Answered(c, "home", "list")
  /\ \/ calls[c].code = 200 /\ Finish(c, [home EXCEPT !.emails = calls[c].list])
     \/ calls[c].code = 404 /\ Confirm(c)
     \/ calls[c].code = 500 /\ Finish(c, home)
  /\ UNCHANGED <<homeStored, homeStray>>

\* setEmails(emails.map(...)): the list of the render the click belongs to.
HomeOpenAnswer(c) ==
  /\ Answered(c, "home", "open")
  /\ \/ calls[c].code = 200 /\ Finish(c, [home EXCEPT !.selected = calls[c].mail,
                                                      !.emails = calls[c].list])
     \/ calls[c].code = 404 /\ Confirm(c)
     \/ calls[c].code = 500 /\ Finish(c, home)
  /\ UNCHANGED <<homeStored, homeStray>>

\* handleDeleteEmail starts no spinner and ends none.
HomeDeleteAnswer(c) ==
  /\ Answered(c, "home", "delete")
  /\ \/ /\ calls[c].code = 200
        /\ Finish(c, [home EXCEPT !.emails = calls[c].list \ {calls[c].mail},
                                  !.selected = NoMail])
     \/ calls[c].code = 404 /\ Confirm(c)
     \/ calls[c].code = 500 /\ Finish(c, home)
  /\ UNCHANGED <<homeStored, homeStray>>

\* The answer of /info: e.status === 404 decides, and handleExpiredAddress does
\* nothing in a render without an address.
HomeGone(c) ==
  IF calls[c].code = 404 /\ calls[c].held
  THEN /\ Seen(c, [home EXCEPT !.loading = TRUE])
       /\ GoOn(c, CreateCall(calls[c].search, TRUE))
  ELSE Finish(c, home)

HomeConfirmAnswer(c) ==
  /\ Answered(c, "home", "confirm")
  /\ HomeGone(c)
  /\ UNCHANGED <<homeStored, homeStray>>

\* Mutant of Keep: what is saved is not an address.
KeepWrong(c) ==
  /\ homeStored' = calls[c].mail
  /\ homeStray' = (homeStray \/ ~calls[c].live)

\* localStorage.setItem, also when the page has been left.
Keep(c) ==
  /\ homeStored' = calls[c].box
  /\ homeStray' = (homeStray \/ ~calls[c].live)

\* createNewAddress: the new address takes the place of the one shown, its list
\* is asked for, and `finally` stops the spinner that has just been started.
HomeCreateAnswer(c) ==
  /\ Answered(c, "home", "create")
  /\ \/ /\ calls[c].code = 200
        /\ Keep(c)
        /\ Seen(c, [home EXCEPT !.address = calls[c].box, !.emails = {},
                                !.selected = NoMail, !.dialog = FALSE, !.loading = FALSE])
        /\ GoOn(c, [HomeFetch(calls[c].box, calls[c].search, FALSE)
                    EXCEPT !.held = calls[c].held])
     \/ /\ calls[c].code = 500
        /\ Finish(c, home)
        /\ UNCHANGED <<homeStored, homeStray>>

HomeAnswer(c) ==
  /\ \/ HomeListAnswer(c) \/ HomeOpenAnswer(c) \/ HomeDeleteAnswer(c)
     \/ HomeConfirmAnswer(c) \/ HomeCreateAnswer(c)
  /\ UNCHANGED <<server, changes, faults>>

HomeUser(c) ==
  \/ HomeRefresh(c) \/ HomeEnter(c) \/ HomeDelete(c) \/ HomeGenerate(c)
  \/ \E m \in Mails : HomeClick(c, m)

-----------------------------------------------------------------------------
\* What the page shows as its address is what a reload would show, unless a call
\* that outlived the page wrote behind its back: createNewAddress sets the hook
\* and localStorage in one go, initInbox reads them in one go.
HomeStoredIsShown == home.ready /\ ~homeStray => homeStored = home.address

\* `loading` disables refresh and generate: whenever it is set, some handler of
\* this page is still waiting and will reset it, whatever it is answered.
HomeSpinnerEnds ==
  home.loading => \E c \in Slots :
    calls[c].next # "none" /\ calls[c].by = "home" /\ calls[c].live /\ ~calls[c].quiet
=============================================================================
