------------------------------ MODULE AdminPanel -----------------------------
(***************************************************************************)
(* One browser on the admin panel: the layout with its gate, the login, the   *)
(* domains, cleanup and dashboard pages, and the pages of AdminLists and       *)
(* AdminConfig.  The layout stays mounted from page to page, and so does the   *)
(* permission to show them: a page is shown, and asks, before its gate answers. *)
(***************************************************************************)
EXTENDS AdminLists, AdminConfig

CONSTANTS
  MaxActs,        \* bound: what the user does
  Configs         \* the configurations the panel may find

ASSUME PanelAssumption == MaxActs \in Nat /\ Configs \subseteq Config

VARIABLES
  page,           \* the page shown; "out" is outside the panel
  ready,          \* the layout shows its pages
  doms,           \* the state hooks of the domains page
  vouched,        \* history: tokens that no login has to answer for any more
  acts

navVars == <<page, ready, vouched>>
vars == <<apiVars, listVars, conf, page, ready, doms, vouched, acts>>

DomsBlank == [names |-> {}, checks |-> {}]

TypeOK ==
  /\ AdminApiTypeOK /\ ListTypeOK /\ ConfTypeOK
  /\ page \in Pages \union {"out"} /\ ready \in BOOLEAN
  /\ doms \in [names : SUBSET Domains, checks : SUBSET Domains]
  /\ vouched \subseteq Tokens \union {NoToken}
  /\ acts \in 0..MaxActs

Views == <<list, aligned, conf, doms>>
Blank ==
  list' = ListBlank /\ aligned' = FALSE /\ conf' = ConfBlank /\ doms' = DomsBlank

Init ==
  /\ page \in Pages /\ ready = FALSE
  /\ token \in Tokens \union {NoToken} /\ vouched = {token}
  /\ \E c \in Configs, done \in BOOLEAN :
       /\ page # "config" => c = CHOOSE d \in Configs : TRUE
       /\ server = [initialized |-> done, token |-> CHOOSE w \in Tokens : TRUE,
                    domains |-> {CHOOSE d \in Domains : TRUE}, config |-> c,
                    job |-> FALSE, key |-> 0, mine |-> FALSE]
  /\ calls = <<setup_status(page)>>
  /\ busy = {} /\ faults = 0 /\ edits = 0 /\ acts = 0
  /\ list = ListBlank /\ aligned = FALSE /\ conf = ConfBlank /\ doms = DomsBlank

-----------------------------------------------------------------------------
(* Pages come and go.                                                        *)

\* What a page asks for when it is mounted, and the spinner it shows meanwhile.  The
\* three requests of the dashboard are awaited together.
First(p) ==
  CASE p \in {"emails", "addresses"} -> FirstList(p)
    [] p = "mailboxes" -> FirstMailboxes
    [] p = "config" -> FirstConfig
    [] p = "domains" -> <<[request(p, "domains", {}) EXCEPT !.flag = TRUE]>>
    [] p \in {"dashboard", "cleanup"} -> <<request(p, "stats", {})>>
    [] OTHER -> <<>>

FirstLit(p) == IF p \in {"emails", "addresses", "mailboxes"} THEN {"list"} ELSE {}

\* The handlers of a page that is left run on; the layout's do not end with it.
Orphans(cs, p) ==
  [i \in DOMAIN cs |-> IF cs[i].do = "gate" /\ p # "out" THEN cs[i]
                       ELSE [cs[i] EXCEPT !.live = FALSE]]

Mount(p, kept, asked) ==
  IF ready /\ p # "out"
  THEN calls' = kept \o First(p) \o asked /\ busy' = FirstLit(p)
  ELSE calls' = kept \o asked /\ busy' = {}

\* router.replace(), or a link; `kept` are the other calls in flight.
Go(p, kept) ==
  IF p = page THEN calls' = kept /\ UNCHANGED <<Views, busy, page, ready>>
  ELSE /\ page' = p
       /\ ready' = (ready /\ p # "out")
       /\ Mount(p, Orphans(kept, p), IF p = "out" THEN <<>> ELSE <<setup_status(p)>>)
       /\ Blank

\* setReady(true): the page is shown, if it was not.
Opened(i, kept) ==
  /\ ready' = (ready \/ calls[i].live)
  /\ IF ready' /\ ~ready THEN calls' = kept \o First(page) /\ busy' = FirstLit(page)
     ELSE calls' = kept /\ UNCHANGED busy
  /\ UNCHANGED <<Views, page>>

\* The answer to the layout's effect; when it fails the panel counts as set up.
AdminLayout(i) ==
  LET kept == RemoveAt(calls, i) IN
  /\ Heard(i, "gate")
  /\ IF Ok(i) /\ ~calls[i].flag THEN Go("out", kept)
     ELSE IF calls[i].at # "login" /\ token = NoToken THEN Go("login", kept)
     ELSE Opened(i, kept)
  /\ UNCHANGED <<token, vouched>>

-----------------------------------------------------------------------------
(* The login.                                                                *)

\* The token is stored first, and the request tells whether it is right.  Enter works
\* while the button is disabled, and in an empty field.
handleLogin(new) ==
  /\ page = "login" /\ ready
  /\ token' = new
  /\ Send(<<[request("login", "login", {"login"}) EXCEPT !.token = new]>>, {"login"})
  /\ UNCHANGED <<Views, navVars>>

\* Mutant of LoginFailed: only a refused token is removed.
LoginFailedKeeps(i) ==
  /\ token' = IF calls[i].code = 401 THEN NoToken ELSE token
  /\ UNCHANGED vouched

LoginFailed(i) == token' = NoToken /\ UNCHANGED vouched

LoggedIn(i) ==
  /\ Heard(i, "login")
  /\ IF Ok(i)
     THEN /\ vouched' = vouched \union {calls[i].token}
          /\ UNCHANGED token
          /\ Go("dashboard", RemoveAt(calls, i))
     ELSE LoginFailed(i) /\ GoesOn(i, <<>>) /\ Off(i, {}) /\ UNCHANGED <<Views, page, ready>>

logout ==
  /\ ready /\ page \notin {"login", "out"}
  /\ token' = NoToken
  /\ Go("login", calls)
  /\ UNCHANGED vouched

\* handleSave() with a new token: the session ends.
TokenSaved(i) ==
  /\ Heard(i, "save") /\ Ok(i) /\ calls[i].patch.token # NoToken
  /\ token' = NoToken
  /\ Go("login", RemoveAt(calls, i))
  /\ UNCHANGED vouched

\* The links of the panel, those that leave it, and the way back into it.
Link ==
  /\ ready \/ page = "out"
  /\ \E p \in (Pages \union {"out"}) \ {page} : Go(p, calls)
  /\ UNCHANGED <<token, vouched>>

\* The browser loads the page again: nothing is left but what is stored.
Reload ==
  /\ page # "out"
  /\ calls' = <<setup_status(page)>> /\ ready' = FALSE /\ busy' = {}
  /\ Blank
  /\ vouched' = vouched \union {token}
  /\ UNCHANGED <<token, page>>

-----------------------------------------------------------------------------
(* The domains page.                                                         *)

DomainChecks(D) ==
  LET ds == SetToSeq(D)
  IN  [n \in DOMAIN ds |-> [request("domains", "check", {"check"}) EXCEPT !.names = {ds[n]}]]

DomainUser ==
  /\ \/ \E d \in Domains, do \in {"add", "check", "remove"} :
          /\ do # "add" => d \in doms.names
          /\ do = "remove" => Cardinality(doms.names) > 1
          /\ LET on == IF do = "remove" THEN {} ELSE {do} IN
             Send(<<[request("domains", do, on) EXCEPT !.names = {d}]>>, on)
     \/ Send(<<request("domains", "domains", {})>>, {})
  /\ UNCHANGED doms

DomsSeen(i, v) == doms' = IF calls[i].live THEN v ELSE doms

\* fetchDomains(); the first of a page goes on to check them all, whatever it answers.
DomainsShown(i) ==
  /\ Heard(i, "domains")
  /\ GoesOn(i, IF calls[i].flag THEN <<request("domains", "first", {})>> ELSE <<>>)
  /\ Off(i, {})
  /\ DomsSeen(i, IF Ok(i) THEN [doms EXCEPT !.names = calls[i].names] ELSE doms)

FirstChecks(i) ==
  /\ Heard(i, "first")
  /\ GoesOn(i, IF Ok(i) THEN DomainChecks(calls[i].names) ELSE <<>>)
  /\ busy' = IF calls[i].live /\ Ok(i) /\ calls[i].names # {}
             THEN busy \union {"check"} ELSE busy
  /\ UNCHANGED doms

\* Without a check in the answer the domain is checked; its spinner does not wait.
Added(i) ==
  LET again == [request("domains", "domains", {"add"}) EXCEPT !.flag = FALSE] IN
  /\ Heard(i, "add")
  /\ IF ~Ok(i) THEN GoesOn(i, <<>>) /\ Off(i, {})
     ELSE IF calls[i].flag THEN GoesOn(i, <<again>>) /\ Off(i, {"add"})
     ELSE /\ GoesOn(i, DomainChecks(calls[i].names) \o <<again>>)
          /\ busy' = IF calls[i].live THEN busy \union {"check"} ELSE busy
  /\ DomsSeen(i, IF Ok(i) /\ calls[i].flag
                 THEN [doms EXCEPT !.checks = @ \union calls[i].names] ELSE doms)

Removed(i) ==
  /\ Heard(i, "remove")
  /\ GoesOn(i, IF Ok(i) THEN <<request("domains", "domains", {})>> ELSE <<>>)
  /\ Off(i, {})
  /\ UNCHANGED doms

\* One name says which domain is being checked: the first answer puts it out for all.
Checked(i) ==
  /\ Heard(i, "check")
  /\ GoesOn(i, <<>>) /\ Off(i, {})
  /\ DomsSeen(i, IF Ok(i) THEN [doms EXCEPT !.checks = @ \union calls[i].names] ELSE doms)

DomainHears(i) ==
  DomainsShown(i) \/ FirstChecks(i) \/ Added(i) \/ Removed(i) \/ Checked(i)

-----------------------------------------------------------------------------
(* The cleanup page; the dashboard and the page of the mailboxes only show    *)
(* the statistics, and the last of them the domains it offers.               *)

handleRun ==
  "run" \notin busy /\ Send(<<request("cleanup", "run", {"run"})>>, {"run"})

CleanupRan(i) ==
  /\ Heard(i, "run")
  /\ IF Ok(i) THEN GoesOn(i, <<request("cleanup", "stats", {"run"})>>) /\ Off(i, {"run"})
     ELSE GoesOn(i, <<>>) /\ Off(i, {})

StatsShown(i) ==
  /\ Heard(i, "stats") \/ Heard(i, "names")
  /\ GoesOn(i, <<>>) /\ Off(i, {})

\* The effect of the dashboard depends on `t`: another language, another fetch.
LanguageChosen == Send(<<request("dashboard", "stats", {})>>, {})

-----------------------------------------------------------------------------
Ours == UNCHANGED <<server, faults, edits>>
Act == acts < MaxActs /\ acts' = acts + 1 /\ Len(calls) < MaxCalls
Here(p) == page = p /\ ready /\ UNCHANGED <<token, navVars>>

Navigate == Act /\ Ours /\ (Link \/ logout \/ Reload)
Login == Act /\ Ours /\ \E new \in Tokens \union {NoToken} : handleLogin(new)

UsesList ==
  /\ Act /\ Ours
  /\ \E p \in {"emails", "addresses", "mailboxes"} : Here(p) /\ ListUser(p)
  /\ UNCHANGED <<conf, doms>>

UsesConfig == Act /\ Ours /\ Here("config") /\ ConfUser /\ UNCHANGED <<listVars, doms>>

UsesOther ==
  /\ Act /\ Ours
  /\ \/ Here("domains") /\ DomainUser
     \/ Here("cleanup") /\ handleRun /\ UNCHANGED doms
     \/ Here("dashboard") /\ LanguageChosen /\ UNCHANGED doms
  /\ UNCHANGED <<listVars, conf>>

Stays(i) == Unauthorized(i) /\ UNCHANGED navVars

Hear(i) ==
  /\ \/ AdminLayout(i) \/ LoggedIn(i) \/ TokenSaved(i)
     \/ Stays(i) /\ \/ ListHears(i) /\ UNCHANGED <<conf, doms>>
                    \/ ConfHears(i) /\ UNCHANGED <<listVars, doms>>
                    \/ DomainHears(i) /\ UNCHANGED <<listVars, conf>>
                    \/ (CleanupRan(i) \/ StatsShown(i)) /\ UNCHANGED Views
  /\ UNCHANGED acts /\ Ours

Unseen == UNCHANGED <<Views, navVars, acts>>

Served == (\E i \in DOMAIN calls : Serve(i)) /\ Unseen
Hears == \E i \in DOMAIN calls : Hear(i)
\* What other administrators do is seen on the configuration page only; what they do
\* before it has loaded is one more configuration it may find.
Outside ==
  /\ \/ Certified
     \/ conf.loaded /\ Elsewhere
     \/ \E i \in DOMAIN calls : Fail(i)
  /\ Unseen

Next ==
  Navigate \/ Login \/ UsesList \/ UsesConfig \/ UsesOther \/ Hears \/ Served \/ Outside

Spec == Init /\ [][Next]_vars

\* Every request is answered or fails, and the event loop hands the answer over.
FairSpec == Spec /\ WF_vars(Served) /\ WF_vars(Hears)

-----------------------------------------------------------------------------
\* The panel keeps a token it has verified, or none: a login that was refused, failed
\* or overlapped by another leaves nothing behind that it stored before it knew.
OnlyVerifiedKept ==
  (\A i \in DOMAIN calls : calls[i].do # "login") => token \in vouched \union {NoToken}

\* What a save writes of a field that the form was not used to change, however long the
\* request is under way and whatever others have saved since the form was loaded: of the
\* hostname and of a flag that was there, nothing; a flag that was absent is written
\* as off, and the number is written as it was loaded, over what somebody else has set.
SavedIn(i, f) ==
  /\ calls[i].do = "save" /\ calls[i].code = 0 /\ calls'[i].code = 200
  /\ server.config # server'.config /\ f \notin calls[i].touched

UntouchedFields ==
  [][\A i \in DOMAIN calls \intersect DOMAIN calls' :
       LET seen == calls[i].seen
           old == server.config
           new == server'.config
       IN  /\ SavedIn(i, "toggle") =>
                new.toggle = IF seen.toggle = "absent" THEN "off" ELSE old.toggle
           /\ SavedIn(i, "host") => new.host = old.host
           /\ SavedIn(i, "number") => new.number = seen.number]_vars

\* In the end every spinner is out and the button it disables is back, whatever
\* overlaps, fails, or goes on with another call: a certificate job that never ends is
\* given up, and no chain of requests goes on for ever.
Settles == <>[](busy = {})
=============================================================================
