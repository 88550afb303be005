------------------------------ MODULE AdminLists -----------------------------
(***************************************************************************)
(* The pages that list addresses, emails and permanent mailboxes             *)
(* (web/app/admin/{addresses,emails,mailboxes}/page.tsx): a page of results,  *)
(* a search, and actions on a row after which the list is fetched again with  *)
(* the page and the search of the render the handler belongs to.              *)
(***************************************************************************)
EXTENDS AdminApi

VARIABLES
  list,           \* the state hooks of the list shown
  aligned         \* history: the last list shown was asked for when nothing else was

listVars == <<list, aligned>>

NoData == [page |-> 0, search |-> FALSE, more |-> FALSE]

\* searchInput is `typed`; `detail` and `created` only tell whether one is shown.
ListBlank == [page |-> 1, search |-> FALSE, typed |-> FALSE, data |-> NoData,
              detail |-> FALSE, created |-> FALSE]

ListTypeOK ==
  /\ list \in [page : 1..MaxPages, search : BOOLEAN, typed : BOOLEAN,
               data : [page : 0..MaxPages, search : BOOLEAN, more : BOOLEAN],
               detail : BOOLEAN, created : BOOLEAN]
  /\ aligned \in BOOLEAN

\* What every list page fetches when it is mounted, and the mailboxes besides.
FirstList(p) == <<[request(p, "list", {"list"}) EXCEPT !.page = 1]>>
FirstMailboxes == <<request("mailboxes", "stats", {})>> \o FirstList("mailboxes")
                  \o <<request("mailboxes", "names", {})>>

-----------------------------------------------------------------------------
(* Which requests end in a list, and which list was asked for alone.         *)

Lists(cs) == {i \in DOMAIN cs : cs[i].live /\ cs[i].do \in
                {"list", "delete", "purge", "retention", "create"}}

ListCall(p, do, ends, page, search) ==
  [request(p, do, ends) EXCEPT !.page = page, !.search = search,
                               !.alone = Lists(calls) = {}]

\* None of those that overlap is alone.
Crowd == [i \in DOMAIN calls |-> IF i \in Lists(calls)
                                 THEN [calls[i] EXCEPT !.alone = FALSE] ELSE calls[i]]

SendList(cs, on) == calls' = Crowd \o cs /\ busy' = busy \union on

Fetch(p, page, search) == SendList(<<ListCall(p, "list", {"list"}, page, search)>>, {"list"})

-----------------------------------------------------------------------------
(* The controls: the toolbar, the rows, the pagination and the dialog.       *)

Toolbar == {"type", "search"} \union (IF "list" \in busy THEN {} ELSE {"refresh"})

Rows(p) ==
  IF list.data = NoData THEN {}
  ELSE IF p = "mailboxes" THEN {"purge", "delete"} ELSE {"view", "delete"}

\* Mutant of Pagination: the first page has a page before it.
PaginationAlways ==
  IF list.data = NoData THEN {}
  ELSE {"prev"} \union (IF list.data.more /\ list.page < MaxPages THEN {"next"} ELSE {})

Pagination ==
  IF list.data = NoData THEN {}
  ELSE (IF list.page <= 1 THEN {} ELSE {"prev"})
       \union (IF list.data.more /\ list.page < MaxPages THEN {"next"} ELSE {})

Dialog == IF list.detail THEN {"close", "delete"} ELSE {}

\* Of the mailboxes only; Enter in the field works while the button is disabled.
MailboxForm == {"create", "retention"}

-----------------------------------------------------------------------------
ListType ==
  /\ "type" \in Toolbar
  /\ list' = [list EXCEPT !.typed = ~@]
  /\ UNCHANGED <<aligned, calls, busy>>

\* Mutant of handleSearch: the page stays.
handleSearchHere(p) ==
  /\ "search" \in Toolbar
  /\ list' = [list EXCEPT !.search = list.typed]
  /\ Fetch(p, 1, list.typed)
  /\ UNCHANGED aligned

handleSearch(p) ==
  /\ "search" \in Toolbar
  /\ list' = [list EXCEPT !.page = 1, !.search = list.typed]
  /\ Fetch(p, 1, list.typed)
  /\ UNCHANGED aligned

\* fetchStats() too on the mailboxes.
ListRefresh(p) ==
  /\ "refresh" \in Toolbar
  /\ SendList((IF p = "mailboxes" THEN <<request(p, "stats", {})>> ELSE <<>>)
                 \o <<ListCall(p, "list", {"list"}, list.page, list.search)>>, {"list"})
  /\ UNCHANGED listVars

Turn(p) ==
  /\ \E n \in 0..MaxPages :
       /\ \/ "prev" \in Pagination /\ n = list.page - 1
          \/ "next" \in Pagination /\ n = list.page + 1
       /\ list' = [list EXCEPT !.page = n]
       /\ Fetch(p, n, list.search)
  /\ UNCHANGED aligned

handleView(p) ==
  LET on == IF p = "emails" THEN {"detail"} ELSE {} IN
  /\ "view" \in Rows(p)
  /\ Send(<<request(p, "view", on)>>, on)
  /\ UNCHANGED listVars

DialogClose ==
  /\ "close" \in Dialog
  /\ list' = [list EXCEPT !.detail = FALSE]
  /\ UNCHANGED <<aligned, calls, busy>>

\* The handler keeps page and search of this render for its fetch.
Change(p, do, on) ==
  /\ SendList(<<ListCall(p, do, on, list.page, list.search)>>, on)
  /\ UNCHANGED listVars

handleDelete(p) == "delete" \in Rows(p) \union Dialog /\ Change(p, "delete", {})
handlePurge(p) == "purge" \in Rows(p) /\ Change(p, "purge", {})
handleRunRetention(p) ==
  p = "mailboxes" /\ "retention" \in MailboxForm /\ Change(p, "retention", {})
CreateMailbox(p) ==
  p = "mailboxes" /\ "create" \in MailboxForm /\ Change(p, "create", {"create"})

ListUser(p) ==
  \/ ListType \/ handleSearch(p) \/ ListRefresh(p) \/ Turn(p) \/ handleView(p)
  \/ DialogClose \/ handleDelete(p) \/ handlePurge(p) \/ handleRunRetention(p)
  \/ CreateMailbox(p)

-----------------------------------------------------------------------------
(* What follows the awaits.                                                  *)

Seen(i, v) == list' = IF calls[i].live THEN v ELSE list

ListShown(i) ==
  /\ Heard(i, "list")
  /\ GoesOn(i, <<>>) /\ Off(i, {})
  /\ Seen(i, IF Ok(i) THEN [list EXCEPT !.data = [page |-> calls[i].page,
                               search |-> calls[i].search, more |-> calls[i].more]]
             ELSE list)
  /\ aligned' = IF calls[i].live THEN Ok(i) /\ calls[i].alone ELSE aligned

DetailShown(i) ==
  /\ Heard(i, "view")
  /\ GoesOn(i, <<>>) /\ Off(i, {})
  /\ Seen(i, IF Ok(i) THEN [list EXCEPT !.detail = TRUE] ELSE list)
  /\ UNCHANGED aligned

\* The fetches that follow a change; `setLoading(true)` comes with them.
Refetch(i, page) ==
  LET p == calls[i].at
      again == [request(p, "list", {"list"}) EXCEPT !.page = page,
                  !.search = calls[i].search,
                  !.alone = calls[i].alone /\ page = calls[i].page]
      stats == IF p = "mailboxes" THEN <<request(p, "stats", {})>> ELSE <<>>
  IN  /\ GoesOn(i, stats \o <<again>>)
      /\ busy' = IF calls[i].live THEN (busy \ calls[i].ends) \union {"list"} ELSE busy

Changed(i) ==
  /\ \E do \in {"delete", "purge", "retention"} : Heard(i, do)
  /\ IF Ok(i) THEN Refetch(i, calls[i].page) ELSE GoesOn(i, <<>>) /\ Off(i, {})
  /\ Seen(i, IF Ok(i) /\ calls[i].do = "delete" THEN [list EXCEPT !.detail = FALSE] ELSE list)
  /\ UNCHANGED aligned

\* fetchList(1, search): the page shown is the first, the page state is left alone.
Created(i) ==
  /\ Heard(i, "create")
  /\ IF Ok(i) THEN Refetch(i, 1) ELSE GoesOn(i, <<>>) /\ Off(i, {})
  /\ Seen(i, IF Ok(i) THEN [list EXCEPT !.created = TRUE] ELSE list)
  /\ UNCHANGED aligned

ListHears(i) == ListShown(i) \/ DetailShown(i) \/ Changed(i) \/ Created(i)

-----------------------------------------------------------------------------
\* Once nothing is outstanding and the last list was asked for alone and came, the
\* list shown is the page and the search that the controls go on from: a search from
\* a later page, a refresh and a deletion all keep the two together.
ListMatchesQuery ==
  Lists(calls) = {} /\ aligned
    => list.data.page = list.page /\ list.data.search = list.search
=============================================================================
