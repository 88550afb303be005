----------------------------- MODULE MailboxPage ----------------------------
(***************************************************************************)
(* The page of the permanent mailboxes (web/app/mailbox/page.tsx): create    *)
(* one or log in with its token, read and delete mail, log out.  Its         *)
(* handlers follow the pattern of HomePage.                                   *)
(***************************************************************************)
EXTENDS MailApi

VARIABLES
  box,            \* the state hooks of the page
  boxStored,      \* localStorage "wgtempemail_permanent"
  boxStray        \* history: a call that outlived its page has written there

boxVars == <<box, boxStored, boxStray>>

BoxBlank == [ready |-> FALSE, token |-> NoBox, created |-> NoBox, emails |-> {},
             detail |-> NoMail, loadingEmails |-> FALSE, busy |-> FALSE,
             search |-> FALSE, auto |-> TRUE, failedLogin |-> FALSE]

BoxView == [ready : BOOLEAN, token : Boxes \union {NoBox}, created : Boxes \union {NoBox},
            emails : SUBSET Mails, detail : Mails \union {NoMail}, loadingEmails : BOOLEAN,
            busy : BOOLEAN, search : BOOLEAN, auto : BOOLEAN, failedLogin : BOOLEAN]

BoxTypeOK ==
  /\ box \in BoxView
  /\ boxStored \in Boxes \union {NoBox}
  /\ boxStray \in BOOLEAN

BoxInit(session) ==
  /\ box = BoxBlank
  /\ boxStored = session
  /\ boxStray = FALSE

-----------------------------------------------------------------------------
(* The controls the page shows: the inbox with a token, else the two forms.  *)

BoxCard == IF box.token = NoBox THEN {} ELSE {"copy", "token", "logout"}

BoxListControls ==
  IF box.token = NoBox THEN {}
  ELSE {"auto", "search"} \union (IF box.loadingEmails THEN {} ELSE {"refresh"})
                          \union (IF box.search THEN {"clear"} ELSE {})

BoxRows == IF box.token = NoBox THEN {} ELSE box.emails

BoxDetailControls ==
  IF box.token = NoBox \/ box.detail = NoMail THEN {} ELSE {"raw", "delete"}

\* Enter in either field works while `busy` disables the buttons.
BoxForms == IF box.token = NoBox THEN {"create", "login"} ELSE {}

-----------------------------------------------------------------------------
BoxSend(c, kind, b, call) ==
  /\ Free(c)
  /\ calls' = [calls EXCEPT ![c] =
       [call EXCEPT !.next = kind, !.by = "mailbox", !.live = TRUE, !.box = b]]

\* fetchEmails(tok, search, silent)
BoxFetch(c, b, s, silent) ==
  BoxSend(c, "list", b, [NoCall EXCEPT !.search = s, !.quiet = silent])

\* The interval; [token, autoRefresh, searchQuery] are the dependencies.
BoxTick(c) ==
  /\ box.token # NoBox /\ box.auto
  /\ box' = box
  /\ BoxFetch(c, box.token, box.search, TRUE)
  /\ UNCHANGED <<boxStored, boxStray>>

BoxRefresh(c) ==
  /\ {"refresh", "search"} \intersect BoxListControls # {}
  /\ box' = [box EXCEPT !.loadingEmails = TRUE]
  /\ BoxFetch(c, box.token, box.search, FALSE)
  /\ UNCHANGED <<boxStored, boxStray>>

BoxClear(c) ==
  /\ "clear" \in BoxListControls
  /\ box' = [box EXCEPT !.search = FALSE, !.loadingEmails = TRUE]
  /\ BoxFetch(c, box.token, FALSE, FALSE)
  /\ UNCHANGED <<boxStored, boxStray>>

handleCreate(c) ==
  /\ "create" \in BoxForms
  /\ box' = [box EXCEPT !.busy = TRUE, !.failedLogin = FALSE]
  /\ BoxSend(c, "create", NoBox, NoCall)
  /\ UNCHANGED <<boxStored, boxStray>>

\* Any token may be typed, that of a temporary address included.
handleLogin(c, b) ==
  /\ "login" \in BoxForms
  /\ box' = [box EXCEPT !.busy = TRUE, !.failedLogin = FALSE]
  /\ BoxSend(c, "login", b, NoCall)
  /\ UNCHANGED <<boxStored, boxStray>>

BoxClick(c, m) ==
  /\ m \in BoxRows
  /\ box' = box
  /\ BoxSend(c, "open", box.token, [NoCall EXCEPT !.mail = m, !.list = box.emails,
                                                  !.quiet = TRUE])
  /\ UNCHANGED <<boxStored, boxStray>>

BoxDelete(c) ==
  /\ "delete" \in BoxDetailControls
  /\ box' = box
  /\ BoxSend(c, "delete", box.token,
             [NoCall EXCEPT !.mail = box.detail, !.list = box.emails, !.quiet = TRUE])
  /\ UNCHANGED <<boxStored, boxStray>>

LoggedOut(v) ==
  [v EXCEPT !.token = NoBox, !.emails = {}, !.detail = NoMail, !.created = NoBox]

\* Mutant of logout: the stored session stays.
logoutHalf ==
  /\ "logout" \in BoxCard
  /\ box' = LoggedOut(box)
  /\ UNCHANGED <<boxStored, boxStray, calls>>

logout ==
  /\ "logout" \in BoxCard
  /\ box' = LoggedOut(box)
  /\ boxStored' = NoBox
  /\ UNCHANGED <<boxStray, calls>>

BoxSetting ==
  /\ \/ "search" \in BoxListControls /\ box' = [box EXCEPT !.search = ~@]
     \/ "auto" \in BoxListControls /\ box' = [box EXCEPT !.auto = ~@]
  /\ UNCHANGED <<boxStored, boxStray, calls>>

-----------------------------------------------------------------------------
(* What follows the awaits; only localStorage changes when the page was left. *)

BoxSeen(c, v) == box' = IF calls[c].live THEN v ELSE box

BoxStore(c, b) ==
  /\ boxStored' = b
  /\ boxStray' = (boxStray \/ (~calls[c].live /\ b # boxStored))

BoxDone(c) == calls' = [calls EXCEPT ![c] = NoCall]

\* The catch of fetchEmails, handleEmailClick and handleDelete: a 404 ends the
\* session, whosever token it was for and whatever was not found.
BoxNotFound(c, v) ==
  /\ BoxSeen(c, LoggedOut([v EXCEPT !.failedLogin = TRUE]))
  /\ BoxStore(c, NoBox)
  /\ BoxDone(c)

BoxLoaded(c, v) == [v EXCEPT !.loadingEmails = IF calls[c].quiet THEN @ ELSE FALSE]

BoxListAnswer(c) ==
  /\ Answered(c, "mailbox", "list")
  /\ \/ /\ calls[c].code = 200
        /\ BoxSeen(c, BoxLoaded(c, [box EXCEPT !.emails = calls[c].list]))
        /\ BoxDone(c)
        /\ UNCHANGED <<boxStored, boxStray>>
     \/ calls[c].code = 404 /\ BoxNotFound(c, BoxLoaded(c, box))
     \/ /\ calls[c].code = 500
        /\ BoxSeen(c, BoxLoaded(c, box))
        /\ BoxDone(c)
        /\ UNCHANGED <<boxStored, boxStray>>

BoxOpenAnswer(c) ==
  /\ Answered(c, "mailbox", "open")
  /\ \/ /\ calls[c].code = 200
        /\ BoxSeen(c, [box EXCEPT !.detail = calls[c].mail, !.emails = calls[c].list])
        /\ BoxDone(c)
        /\ UNCHANGED <<boxStored, boxStray>>
     \/ calls[c].code = 404 /\ BoxNotFound(c, box)
     \/ calls[c].code = 500 /\ BoxSeen(c, box) /\ BoxDone(c)
        /\ UNCHANGED <<boxStored, boxStray>>

BoxDeleteAnswer(c) ==
  /\ Answered(c, "mailbox", "delete")
  /\ \/ /\ calls[c].code = 200
        /\ BoxSeen(c, [box EXCEPT !.emails = calls[c].list \ {calls[c].mail},
                                  !.detail = NoMail])
        /\ BoxDone(c)
        /\ UNCHANGED <<boxStored, boxStray>>
     \/ calls[c].code = 404 /\ BoxNotFound(c, box)
     \/ calls[c].code = 500 /\ BoxSeen(c, box) /\ BoxDone(c)
        /\ UNCHANGED <<boxStored, boxStray>>

\* The handler goes on with fetchEmails(token, "").
BoxList(c, b) ==
  calls' = [calls EXCEPT ![c] = [NoCall EXCEPT !.next = "list", !.by = "mailbox",
                                               !.live = calls[c].live, !.box = b]]

\* The first effect, when getSetupStatus has answered or failed: it is only now
\* that the session is read; the forms have been there since the page opened.
BoxRestore(c) ==
  /\ calls[c].by = "mailbox" /\ calls[c].next = "mount"
  /\ IF boxStored # NoBox
     THEN /\ BoxSeen(c, [box EXCEPT !.ready = TRUE, !.token = boxStored,
                                    !.loadingEmails = TRUE])
          /\ BoxList(c, boxStored)
     ELSE /\ BoxSeen(c, [box EXCEPT !.ready = TRUE])
          /\ BoxDone(c)
  /\ UNCHANGED <<boxStored, boxStray, server, changes, faults>>

\* saveSession, fetchEmails(token, ""), `finally` setBusy(false).
BoxEnter(c, v) ==
  /\ BoxSeen(c, [v EXCEPT !.token = calls[c].box, !.busy = FALSE,
                          !.loadingEmails = TRUE])
  /\ BoxStore(c, calls[c].box)
  /\ BoxList(c, calls[c].box)

BoxRefused(c, v) ==
  /\ BoxSeen(c, [v EXCEPT !.busy = FALSE])
  /\ BoxDone(c)
  /\ UNCHANGED <<boxStored, boxStray>>

BoxCreateAnswer(c) ==
  /\ Answered(c, "mailbox", "create")
  /\ \/ calls[c].code = 200 /\ BoxEnter(c, [box EXCEPT !.created = calls[c].box])
     \/ calls[c].code = 500 /\ BoxRefused(c, box)

BoxLoginAnswer(c) ==
  /\ Answered(c, "mailbox", "login")
  /\ \/ calls[c].code = 200 /\ BoxEnter(c, box)
     \/ calls[c].code # 200 /\ BoxRefused(c, [box EXCEPT !.failedLogin = TRUE])

BoxAnswer(c) ==
  /\ \/ BoxListAnswer(c) \/ BoxOpenAnswer(c) \/ BoxDeleteAnswer(c)
     \/ BoxCreateAnswer(c) \/ BoxLoginAnswer(c)
  /\ UNCHANGED <<server, changes, faults>>

BoxUser(c) ==
  \/ BoxRefresh(c) \/ BoxClear(c) \/ handleCreate(c) \/ BoxDelete(c)
  \/ \E b \in Boxes : handleLogin(c, b)
  \/ \E m \in Mails : BoxClick(c, m)

-----------------------------------------------------------------------------
\* The session in use is the one a reload would restore, whichever of several
\* creations, logins, refused calls and logouts ended last, unless a call that
\* outlived the page wrote behind its back.
BoxSessionIsStored == box.ready /\ ~boxStray => boxStored = box.token

\* `loadingEmails` and `busy` disable buttons: while one is set, a handler of this
\* page that resets it is still waiting.
BoxSpinnersEnd ==
  /\ box.loadingEmails => \E c \in Slots :
       calls[c].next = "list" /\ calls[c].by = "mailbox" /\ calls[c].live /\ ~calls[c].quiet
  /\ box.busy => \E c \in Slots :
       calls[c].next \in {"create", "login"} /\ calls[c].by = "mailbox" /\ calls[c].live
=============================================================================
