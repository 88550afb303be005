# A TLA+ model of WGTemporaryEmail

This directory models the parts of the disposable mail service whose
correctness depends on the order in which things happen: who owns an address,
what becomes of a message between the SMTP client and its removal, how a change
of `config.yaml` reaches the processes that read it, and what the pages of the
web interface show while several of their requests are under way. TLC checks
the models on small instances; for eight of them TLAPS proves the main safety
properties for every value of the constants.

## 1. The system

Containers: `postgres`, `api` (FastAPI, a pool of worker threads and one
cleanup thread), `mx` (Go, one goroutine per SMTP connection, one watcher, one
goroutine per stored message for the mailbox limit), `web` (nginx and a Next.js
build), `certbot`. They share the database, the file `config.yaml` (bind-mounted
as a single file, so it can only be rewritten in place), `web-config.env`, the
certificate directory and the certbot job directory. The pages run in browsers,
each with its own `localStorage`.

| Component | State | Operations | What is hard | What makes it correct |
|---|---|---|---|---|
| Address creation (`routers/addresses.py`, `routers/permanent.py`) | table `addresses` | create temporary (custom, random), create permanent, reclaim an expired name, expiry, administrator's delete | look-up, reclaim and insert are separate transactions of concurrent threads; the permanent cap is counted before the insert | one owner per name, nobody living is evicted, the cap |
| SMTP session and storage (`mx/session.go`, `mx/database.go`) | per-connection sender and recipients; tables `emails`, `email_recipients` | MAIL, RCPT, DATA, RSET, disconnect; one transaction per recipient | an address checked at RCPT is looked up again at storage; one of several recipients fails | the right mailbox, 250 means stored, one copy per attempt |
| Mail lifetime (`cleanup.py`, `database.go`, `schema.sql`) | the same tables | expiry, storage cap, retention, per-mailbox limit, each at any time; cascades and the orphan trigger | four jobs and two kinds of manual delete on shared rows; the limit job dies with the process | no dangling row, every loss has a reason, every limit is restored |
| Mail operations of owner and administrator (`emails.py`, `admin.py`) | the same tables, `is_read` | list, read, download, delete, purge | interleave with the above | the same |
| Config in the api (`runtime_config.py`, `config.py`, `admin.py`) | `config.yaml`, `config.yaml.bak`, the `settings` object, `web-config.env` | add/remove domain, `PUT /config`, regenerate key, start | a lock around each file access but not around a request; truncate and rewrite; crash and refused writes | a whole config survives, no update lost, process and nginx follow the file |
| Config in the mail server (`reload.go`, `main.go`, `session.go`) | current config, its hash, a snapshot per session | start, watch, reload on an unknown recipient domain | the file is hashed and loaded by two reads; sessions outlive configs | only saved configs are used, changes arrive, live domains are not bounced |
| Setup wizard (`setup/page.tsx`, `routers/setup.py`) | form and result of each browser; `setup` section of the config | status, check, write, reload | two submissions past one check; an answer lost after the write | the token shown is the administrator's, no page hangs |
| Temporary inbox (`web/app/page.tsx`) | address, list, spinner, dialog, interval, `localStorage` | start, refresh, search, open, delete, rotate, expire | overlapping handlers with the values of old renders; an answer for a page that was left | what is shown is what is stored, the list settles, an address that ends is replaced |
| Permanent mailbox (`web/app/mailbox/page.tsx`) | session, list, two spinners, interval, `localStorage` | create, log in, log out, refresh, search, open, delete | logins, refused calls and logouts that overlap | the same |
| Admin panel (`web/app/admin/*`, `lib/admin-api.ts`) | stored token; page, search and rows; form; domains with their checks; keys; certificate job | gate, login, logout, and every button of seven pages | a 401 removes whatever token is there; handlers use the page and search of their render; a form is saved long after it was loaded | only verified tokens stay, the rows are of the query shown, a save changes what was changed |
| Translations (`lib/i18n`) | language, its copies in the module, the document and `localStorage` | detect, look up, switch | two effects set the language, in an order React decides | one language, no text missing |
| Abuse limits (`rate_limit.py`, `allowMessageFrom`, `countMIMEParts`) | a window per key: sliding in the api, fixed in the mail server | admit | clock and limit read before the lock, eviction of windows, retries that count | never more than the limit in a window, no refusal without cause |
| Certificates (`certbot/*.sh`, `mx/tlsloader.go`, `tls_issue`) | job file, result file, certificate and key | submit, issue, renew, reload at handshake | two files copied and read one after the other | a matching pair is served |
| nginx (`web/entrypoint.sh`) | rendered configuration | poll `web-config.env` | stale input | follows the file |
| Validation (`mx/validation.go`) | none | SPF, DKIM, DMARC | pure | agrees with its definition |

`PROJECT.json` lists every component with its status, and every hazard with its
line and the properties that cover it.

Interactions: the api and the mail server meet only in the database and in
`config.yaml`; nothing notifies anybody. The mail server polls the file and
looks addresses up for every RCPT and again for every store. nginx polls
`web-config.env`; the certbot container polls the job directory. A page calls
the api and awaits the answer in the handler that asked; nothing orders or
cancels answers.

## 2. Modules

| Module | Models | Built on |
|---|---|---|
| `AddressTable` | the table `addresses`, the database clock, the predicates of SQL and Python about expiry | - |
| `AddressRegistry` | abstract: a claim of a name is one step | `AddressTable` |
| `AddressBook` | the creation handlers, cleanup and administrator, statement by statement | `AddressTable`; implements `AddressRegistry` |
| `MailStore` | sessions, storage, and everything that deletes mail | `AddressTable`; takes a claim as one step, as `AddressRegistry` allows |
| `ConfigStore` | the life of `config.yaml` in the api | - |
| `MxReload` | the life of `config.yaml` in the mail server | takes a rewrite as truncation and fill, as in `ConfigStore` |
| `Translations` | the tables of the interface, their merge, look-up, detection and switch of the language | - |
| `SetupWizard` | the wizard's page in several browsers, and its endpoints | `Translations` |
| `MailApi` | the requests of the two inbox pages, and the server as they see it | - |
| `HomePage`, `MailboxPage` | the two pages: every handler to each of its awaits | `MailApi` |
| `PublicPages` | one browser that moves between them, reloads and leaves | `HomePage`, `MailboxPage` |
| `AdminApi` | the requests of the panel, and the server as it sees it | - |
| `AdminLists`, `AdminConfig` | the three list pages; the configuration page | `AdminApi` |
| `AdminPanel` | the gate, login, the other pages, navigation | `AdminLists`, `AdminConfig` |
| `RateLimit` | the sliding windows of the api | - |
| `*Proofs` | theorems | the module of the same name |
| `MC*` | symmetry sets and structured constants for TLC | the module of the same name |

### AddressBook

`req[r]` is what a handler has between two statements: `reclaim` (it read an
expired row and is about to delete it by id), `check` (a permanent request that
passed the count), `insert`. `TempRequest`, `RandomRequest`, `PermanentRequest`
and `PermanentCheck` are the look-ups, `Reclaim` and `Insert` the two
transactions, `Abort` any exception (the session of `get_db` is closed, nothing
is kept). A row is `[id, email, kind, created, expires]`; its id also stands
for the token, since both are fresh with the row. An expired row
(`clock > expires`) and an accepting row (`expires > clock`) are not
complements: at the instant of expiry a row is neither, as in the code.

### MailStore

A session is `idle`, `rcpt`, `store` (about to store recipient `next`) or
`link` (its transaction has found the row `found`). `StoreEmail` is two steps
because the row can go between `getAddress` and the insert of the link, where
the foreign key refuses it. An email row is inserted per recipient and becomes
visible with its link at commit. `DeleteLinks` is a delete on
`email_recipients` with the trigger that drops an email with its last link,
`DeleteEmails` and `DropAddresses` the cascades. `enforcing` is the set of
mailboxes whose limit goroutine waits; `MxCrash` empties it. `OFFSET` on equal
timestamps leaves PostgreSQL a choice, and so does `Surplus`. `stored`, `acked`
and `lost` are history.

Abstracted: contents, attachments (they go with their email), `is_read`, the
checks of DATA that answer before anything is stored (`Reset` covers them), and
the two-query form of the deletes (a snapshot in PostgreSQL, one step here).

### ConfigStore

Each handler is at one of the steps `commit` (config read and edited), `backup`,
`copy`, `truncate`, `fill`, `reload`, `apply`, `publish`, `replace`. A config is
a set of domains, one value standing for every other key, and a `form`: `whole` with
the keys of the installation (`database.url`, `admin.token`), which the edits modelled
here keep and never add, `bare` without them; `NoFile` and `Blank` (a file
without a byte) complete it. The YAML dump is smaller than the stream's buffer, so
a write is one truncation and one fill.

`writable` says whether the directory of `config.yaml` can be written. In
`docker-compose.yml` it cannot: the root of the api container is read-only (line 76)
and only the file is mounted (line 56), so `copyfile` to `config.yaml.bak` fails
before every write and `OSError` is swallowed. Both deployments are initial states.
`Backup` and `Copy` may also be refused by a full disk; `FillFails` ends the
request outside the `try` of `_commit_config`; the rollback branch is the flag
`undo`. `Crash` stops the process anywhere; `Boot` reads the file alone, never the
backup, and without `database.url` cannot come up.

What `read_config` makes of a bad file is taken from its code: the backup if that
parses, `{}` (`Nothing`) if there is none, and `None` (`Blank`) if the backup exists
and holds no mapping, because the function then ends without a `return`. `{}` can be
edited and written, `None` is an error 500 in every handler but the rollback, which
dumps it as `null` (`Dumped`). Settings without a token answer 503 to everything
(`HasToken`); that happens after a loss, when a domain is added to `{}`. Such
settings also count as not set up, so the wizard opens again; its writes are not
part of this module, nor is the setup key that `ensure_setup_key` saves at the start.

`POST /apikey/regenerate` is a `put` without its last two steps and is not a
separate action. History: `acked` (edits confirmed), `asked` (domains somebody
removed), `overlap` (two requests were ever handled at once), `uncopied` (the
write under way goes ahead without its backup), `lost` (such a write was cut short
between truncation and fill). Not modelled: failure of the write of
`web-config.env`, and two requests sharing its temporary file.

### MxReload

`phase` is how far `main` has come: `load` (nothing loaded), `hash` (config
loaded, database connected, SMTP server accepting), `serve` (argument of
`watchConfig` computed), `path`, `watch`. `HashNew` and `Load` are the two
halves of `reloadIfChanged`, used by the watcher and by a session inside RCPT;
`mutex` keeps the second caller out but not the panel (`Truncate`, `Fill`).
`answer` is the reply to RCPT given by the last step. A hash is the singleton of
the content, so that equal hashes mean equal contents and no hash is a content.
`disturbed` is history: a domain was removed, or one edited during the start.

### SetupWizard and Translations

Per browser: `ui` (the language and its copies), `form`, `page`, `checks` (the
requests for the status, asked, answered fresh and answered done) and `request`
(the submission: `sent`, `checked`, `written`, `answered`). `CheckSetup`,
`WriteSetup` and `ApplySetup` are the three parts of `complete_setup` that
another thread can come between; everything it refuses, it refuses before the
write, so one refusal stands for all. `ApplyFails` is a failed reload after the
write, `AnswerLost` a connection that breaks, `Restart` the api starting again
from the file. The first effect of the page depends on `t` and runs twice where
a language other than the default is detected, so two answers can come, and a
"done" among them takes the page away. The optional fields of the form go with
the config and are not told apart.

A translation table is the set of its sections. What is checked of the tables
is that the merge of the two of each language has every section; that the
tables with a section have the same keys in it was read off the files and is
assumed.

### MailApi, HomePage, MailboxPage, PublicPages

A call is a record in a slot: `next` is the handler that waits for the answer,
`by` the page whose it is, `live` is lost when that page is left, and the rest
is what the handler's closure captured (box, message, search, list) or the
answer (`code`, `list`). A call is sent in one step, handled by the server in
another (`Serve`), and heard by the page in a third; `Fail` is a refusal or a
lost answer, before or after the server has handled it. `World` is what happens
to mailboxes without the page: mail arrives and vanishes, addresses expire and
are removed.

Every handler of `page.tsx` and `mailbox/page.tsx` is an action to its first
await and one per await after it. `setState` on a page that was left has no
effect (`Seen`, `BoxSeen`), but `localStorage` is written all the same. `Armed`
is the effect that starts the interval: the search string it uses is the one of
that moment. `homeStray` and `boxStray` are history: a call that outlived its
page has written to `localStorage`. `Browse` follows a link (calls go on,
orphaned) or reloads (they are dropped). Permanent mailboxes are created by one
browser only. The system is initialized; a page of a system that is not is sent
to the wizard at once. Left out: copying, notices, text or HTML view, the raw
source, the countdown.

### AdminApi, AdminLists, AdminConfig, AdminPanel

`calls` is a sequence of records like the above; `ends` are the spinners that
the handler's `finally` puts out, `live` as before. Every request carries the
token that is in `localStorage` when it is sent, and an answer 401 removes the
one that is there when it comes. `AdminLayout` is the gate. The three list
pages share the handlers of `AdminLists`, which differ by page where the code
does. The form of `AdminConfig` keeps one flag (absent, on, off), one number
and whether there is a hostname: one field of each kind the code treats
differently; `buildPatch` compares the first and the last with what was loaded
and always sends the number. The certificate job is polled `MaxPolls` times.
Other administrators are `Elsewhere`; before the form is loaded their edits are
one more configuration it may find. History: `vouched` (tokens no login has
to answer for any more: accepted ones, and the one a visit or reload finds), `seen`
and `touched` of a save, `alone` of a list request and `aligned`: the last of them
was asked for alone and came.

Decisions: the setup status of the gate is answered when it is asked, since it
does not change while the panel is used; a lost answer is told from a refusal
only for requests that write; `Init` is on any page with no, a valid or a stale
token, initialized or not. The case of an emptied number field, which the patch
skips (`config/page.tsx:220`), is not modelled.

### RateLimit

`thread[t]` is what a thread of the pool has read (`limit`, clock) when it waits
for the lock: `Ask` is the dependency up to there, `Decide` is `_is_allowed` with
its sweep. A key absent from `_WINDOWS` has the empty window; under the lock no
other window is empty, since a refusal leaves at least one time and an admission
adds one. `Outdated` and `Pruned` pop from the head only, so older times appended
after a newer one stay in the queue until it goes. `MaxStall`, the longest wait
between clock and lock, is an assumption about the scheduler; the properties name
it. `log` is history: when a request was admitted, what it had read, by which
limit. One scope is modelled, with one limit that an administrator may change at
any time; scopes share the table, but no key. Not modelled: the client address
taken from the header.

## 3. What the runs check

Passing runs:

- `AddressBook` - two handlers, two names, one tick of lifetime, four ticks,
  three rows, a cap of one. Enough for: both handlers between look-up and
  insert of one name; an address that expires, is reclaimed, and whose
  successor expires while the first handler still holds the old id; both
  handlers past the count. `LiveNotEvicted`: no step but the administrator's
  removes a living address. `CapOvershoot`: the cap is exceeded by no more than
  the handlers past the count. `RegistrySpec`: the handlers implement the
  abstract registry. `ExpiredGoes`: an expired address leaves the table.
- `MailStore` - two sessions, one name in two lives, two messages of sizes 1
  and 3 under a storage cap of 2 (so one message alone exceeds it), a mailbox
  limit of one, retention shorter than a lifetime, one failure (crash or failed
  limit job). `Integrity`: no dangling link, no message without a mailbox.
  `MailLossExplained`: a message disappears only for one of seven reasons.
  Under fairness every limit is restored: `QuotaRestored`, `StorageRestored`,
  `RetentionHonoured`.
- `MailStoreRecipients` - one session, two names, two recipients per message,
  three rows and three ticks, so that each recipient can expire, be reclaimed
  and be replaced at each step. `InboxIsOwn`, `AckedMeansStored`,
  `OneCopyPerAttempt`.
- `ConfigStore` - two handlers, two requests of every kind, a directory that can be
  written and one that cannot, two writes refused by a full disk (copies or the
  file), one crash at any statement; so every backup of a behaviour can be refused
  and writes still fail. `Recoverable`: the file or its backup is whole at every
  instant, but during a write without a backup and once that is cut short
  (`lost`). `DomainsNeverEmpty`: neither the process nor a whole config is ever
  without a domain. `NoHalfRead`: before a loss nothing is edited or rolled back to
  that was read from a file being written. `NoLostUpdate` and `SavedInForce` hold
  until two requests overlap or a write without a backup is cut short, and the run
  contains those behaviours where neither happens, with refused writes in them.
  Under fairness `RequestsEnd`. (With three requests the safety properties hold as
  well, over 1.5 million states; the liveness check is what takes long.)
- `MxReload` - two sessions and the watcher, three edits of either kind at any
  time, one restart. `OnlySaved`: a file half written is never taken for a
  config. `NewDomainHonoured` and, under fairness, `ChangesReachMx`, both as
  long as domains are only added and none during the start.
- `PublicPages` - two addresses, one message, two calls in flight, three user
  actions, one change by the world and one failure; every earlier session.
  `StoredIsShown`: the address or session in use is the one a reload restores.
  `SpinnersEnd`: a lit spinner has a handler that will put it out. Under
  fairness `ListsSettle`: the list is in the end that of the inbox shown, searched
  for what is in the field; on the temporary inbox while the interval was started
  with that search (see the disagreements below). `ExpiredIsReplaced`.
- `SetupWizard` - two browsers, three languages (one that is a table, one whose
  table is not its base, one without a table), two submissions each, three
  other acts, one fault. `ShownTokenWorks`: the token a page shows is the
  administrator's, unless two submissions overlapped. `TextsFound`: one language
  everywhere and every text found. Under fairness `NothingPending`.
- `AdminPanel` - two tokens, two domains, two pages of rows, two calls in
  flight when the user acts, two acts, one failure, one edit from elsewhere;
  initially any page, configuration and stored token. `OnlyVerifiedKept`,
  `ListMatchesQuery` (the rows shown are those of the page and search shown, when
  no two list requests overlapped), `ShownKeyWorks` (a new API key that is shown
  is the valid one), `UntouchedFields` (what a save writes of the fields the form was
  not used to change: nothing of the hostname and of a flag that was there, an
  absent flag as off, the number as it was loaded). Under fairness `Settles`: every spinner goes out.
- `RateLimit` - two threads, two keys, limits 0 to 2 changed at any time, four
  requests admitted, a window of two ticks, a stall of one, a sweep that can come
  after every admission. `WindowHonoured`: of limit + 1 admissions in a row, the
  last judged by that limit, the first and the last are a window apart, less a
  stall (without that allowance TLC finds two threads that read the clock in one
  order and count in the other). `RefusedWhenFull`: a 429 only for a key that had
  its limit of admissions within a window and a stall.

Runs that end in a counterexample, each a disagreement between the code and what
its comments or documents say (quoted in `PROJECT.json`):

- `ConfigStoreLost`: two concurrent additions of a domain, one of them lost,
  although the lock is said to serialize read-modify-write cycles.
- `MxReloadBounce`: the watcher was faster; an open session answers 550 for a
  domain the server accepts.
- `HomeGone`: an address the administrator removed stays on the page, because
  the error of `getAddressInfo` has no status and "really gone" is never found.

Further disagreements follow from the same models and are not runs of their own:

- Two concurrent creations exceed `max_permanent_addresses` (`permanent.py:49`;
  `config.py:92` calls it a cap). `CapOvershoot` says by how much.
- A message accepted at RCPT for an expired owner lands in the mailbox of the
  next owner of the name (`database.go:184`; `docs/api-server.md:103` promises a
  clean inbox).
- The backup that is said to leave "something to recover from"
  (`runtime_config.py:174-175`) is refused on every write where
  `docker-compose.yml` is used as it is (lines 50, 56, 76), and ignored when it is
  refused anywhere else (`runtime_config.py:182`). One refused write or a crash
  between truncation and fill then loses the configuration and with it every
  confirmed edit: `lost` in `Recoverable`, `NoLostUpdate` and `SavedInForce`.
  A `PUT /config` after it writes a file without domains, and a domain added
  after it a file without database and token.
- `reload_settings` reads and applies without the lock, so with two handlers the
  running process can be left with the older config (`config.py:159`; "takes
  effect for the API immediately", `admin.py:466`).
- A crash between truncation and fill leaves an empty file, and the start does
  not use the backup (`config.py:13`; `runtime_config.py:146-148`: "so a crash in the
  middle of a write cannot leave the service unable to start"). Where the backup exists but is cut short as
  well, `read_config` returns `None`, not the `dict` it declares
  (`runtime_config.py:159-166`), and every edit is answered with 500.
- An edit between `LoadConfig` and `hashFile` of the start of the mail server is
  hashed as loaded and not served until the next edit (`main.go:71`).
- An edit made between the two reads of a reload and then taken back leaves the
  withdrawn config loaded (`reload.go:45-51`).
- A session opened before a domain was removed goes on accepting mail for it
  (`session.go:114`; `admin.py:487-488`).
- An answer of the setup status that comes late, after the wizard has shown its
  token "only this once", takes the page with the token away
  (`setup/page.tsx`); the hostname proposed from the first row stays when that
  row is removed.
- On the temporary inbox the interval searches for what was in the field when it
  was started: its effect depends on `[address, autoRefresh]` (`page.tsx:107`). So a
  search confirmed with Enter is answered and then undone by the next tick, at most
  15 seconds later, although `page.tsx:395-397` says "Same behaviour as the permanent
  mailbox page: Enter searches immediately instead of waiting for the next
  auto-refresh tick"; the effect of that page does depend on `searchQuery`
  (`mailbox/page.tsx:113`). `ListsSettle` promises the list of the temporary inbox
  only while the two searches are the same.
- When the first creation of a temporary address fails there is no interval yet
  and nothing tries again (`page.tsx`).
- After a creation the page of the mailboxes fetches page 1 without setting the
  page (`mailboxes/page.tsx`).
- Every save of the configuration page sends a flag that is absent from the file
  as off, although its default is on and nobody touched it: the form shows it
  unchecked, and `FlagPatch` finds it changed (`config/page.tsx:234`;
  `docs/deployment.md:78`: "`web.allow_ip_access` (default true)"). So such a save
  is refused while there is no hostname (`runtime_config.py:278`) and switches
  access by IP off when there is one. `UntouchedFields` names this case.
- Number fields go into every patch, so a save sets back a number that another
  administrator has changed since (`config/page.tsx:218`); `UntouchedFields`
  says so: the number written is the one loaded.

The type invariants of `ConfigStore`, `MxReload` and `RateLimit` are not repeated in
their runs: they are proved (section 4).

Each property of a passing run has a mutant in `PROJECT.json`: a plausible bug
in one mapped definition under which the same run fails. The mutated forms stand
in the modules just before the definitions they mutate.

### Bounds

`MaxClock`, `MaxAddresses`, `MaxAttempts`, `MaxFaults`, `MaxRequests`,
`MaxCrashes`, `MaxEdits`, `MaxRestarts`, `MaxChanges`, `MaxCalls`, `MaxTries`,
`MaxRows`, `MaxActs`, `MaxNow`, `MaxAdmitted` and, for the pages, `Boxes` only limit how often something
happens or how much there is at once. `Window`, `Idle`, `SweepMin`,
`SweepEvery`, `MaxEmails`, `MaxStorage`, `Retention`,
`Lifetime`, `MaxPermanent`, `MaxDomains`, `MaxRecipients`, `MaxPolls` and
`MaxPages` are parameters of the program or of its data with small values
(`MaxRecipients` is 50 in `mx/server.go:88` and one or two here: two recipients
already let the second one fail after the first was stored; `MaxPolls` is 36 in
the code and one here: a job that ends at the poll, and one that does not).

Why they are enough: the properties are about pairs. Two handlers, sessions,
browsers or calls in flight give every order of two steps that read and write
one thing; a third actor repeats one of them. Three acts of the user and one
change by the world let an address be replaced, its page be left and come back
to, or a list be asked for twice, with the address expiring or the call failing
at any of the steps in between. Two acts in the panel give two overlapping
logins, a save after another page's load, a deletion after a page was turned.
When the clock stops, time-dependent actions stay enabled as they are, so the
liveness checks do not profit from it: an expired row is still expired.

Deadlock is checked for the back-end modules; in `ConfigStore` the step `Spent`
marks the end of a behaviour where all requests allowed by the bound are
answered. It is not checked for the pages, which rest when the bounds on the
user are used up and nothing is pending; `SpinnersEnd`, `NothingPending` and
`Settles` say what must be true then.

### Fairness

- `AddressBook`: weak fairness of `CleanupExpired` alone. The cleanup thread
  loops for ever and catches every exception. Clients promise nothing.
- `MailStore`: weak fairness of the three jobs of the same loop, and of a
  started limit goroutine. Its failure is a separate action, and
  `QuotaRestored` excuses exactly the mailboxes it left behind.
- `ConfigStore`: weak fairness of a handler that has begun; no request is
  obliged to arrive, no crash to happen, no restart to succeed. Weak fairness is
  enough for the lock because a handler waiting for it stays enabled whenever
  the other one is out, and requests are finite.
- `MxReload`: weak fairness of the steps of the start, of a session inside
  `reloadIfChanged` and of the panel finishing a write. `WatcherHash` is
  strongly fair: the ticker fires for ever, and each tick blocks on the mutex
  until it gets it.
- `SetupWizard`, `PublicPages`, `AdminPanel`: a request that was sent is served
  or fails, an answer is handed to its handler by the event loop, the interval
  of a page that is shown keeps firing. Users, the world and faults promise
  nothing.

## 4. What is proved

Assumptions: those named `...Assumption` in the modules (numbers are naturals,
the values standing for "none" are not among the values, `MaxEmails` is
positive, the wizard's form has room for the row it starts with, first domains
exist, sets that are counted are finite; of the panel: there is a token and a
domain, the server having one of each, lists have a page, and there are finitely
many domains, because `admin.py:125` refuses a name longer than 253 characters).
Names, sessions, sizes, domains and handlers are otherwise arbitrary sets and the
bounds arbitrary numbers, so nothing below depends on the instances of section 3.

`AddressBookProofs`, about `AddressBook`:

| Theorem | Says |
|---|---|
| `TypeCorrect` | `Spec => []TypeOK` |
| `OneOwner` | `Spec => []OneOwnerPerName` |
| `NoEviction` | `Spec => LiveNotEvicted` (an action property) |
| `BoundedOvershoot` | `Spec => []CapOvershoot` |
| `ImplementsRegistry` | `Spec => RegistrySpec`: initial states map to initial states, every step to a step of `AddressRegistry` or a stutter |

The inductive invariant is `IInv`: types, one owner, `IdsFresh` (row ids are
below the counter and distinct) and `VictimsExpired` (the row a handler is about
to reclaim, if it still exists, is expired). The last part carries the argument:
a handler remembers an id only, ids are never used again, and expiry is never
undone, so a delete by a stale id hits the row that was seen or nothing.
`LiveNotEvicted` alone says nothing about what handlers hold and is not
inductive. `CapInv` adds that the table is finite and compares its permanent
rows with the handlers past the count, which needs the cardinality facts of
`FiniteSetTheorems`: an insert moves one unit from the one to the other, and a
count passes only below the cap.

`MailStoreProofs`, about `MailStore`:

| Theorem | Says |
|---|---|
| `MailTypes` | `Spec => []TypeOK` |
| `MailIntegrity` | `Spec => []Integrity` |
| `MailOwn` | `Spec => []InboxIsOwn` |
| `MailAcked` | `Spec => []AckedMeansStored` |
| `MailOneCopy` | `Spec => []OneCopyPerAttempt` |
| `MailLosses` | `Spec => MailLossExplained` (an action property) |
| `QuotaDebt` | `Spec => []QuotaOwed` |

The inductive invariant `MailInv` has one strengthening for each of the first
five:

- `Ready` for types: a session in the loop of `Data` has a current recipient and
  a size. Without it the message it stores could be to nobody.
- `IdsFresh` for `Integrity`: a new message is not already linked. The lemma
  `Statements` reduces every step to one of six statements on the tables, so
  that the argument about cascades and trigger is made once
  (`DeleteKeepsIntegrity`).
- `Found` for `InboxIsOwn`: the id a transaction read is below the counter, and
  the row with that id, if there is one, is its recipient's. Again because ids
  are not reused: names are, and a link by name would be wrong.
- `Served` for `AckedMeansStored`: the recipients before `next` have a copy.
- `NoRepeats` and `OwnAttempt` for `OneCopyPerAttempt`: a queue holds nobody
  twice, no two sessions share the number of a `DATA` command, and messages with
  that number are for recipients before `next`. The lemma `DeliveryChange` says
  how a session comes to be in the loop: it stays, starts or advances.

`MailLosses` rests on `Integrity`: a message has one link (`OnlyLink`), so the
delete that takes it took that link, and the link names the mailbox. For the
limit job it remains to count: the links it leaves are `MaxEmails` if it took
any (`SurplusLeaves`), and they map one to one to messages at least as new
(`SurplusIsOlder`). `QuotaOwed`, a mailbox above its limit is owed a run of the
job or has lost it, is inductive with these facts; it is what `QuotaRestored`
turns into progress.

`ConfigStoreProofs`, about `ConfigStore`:

| Theorem | Says |
|---|---|
| `StoreTypes` | `Spec => []TypeOK` |
| `BackupsSuffice` | `Spec => []Spared`: where the directory can be written and no full disk refuses a copy, `uncopied` and `lost` stay false |
| `FilesRecoverable` | `Spec => []Recoverable` |
| `DomainsStay` | `Spec => []DomainsNeverEmpty` |
| `WholeReads` | `Spec => []NoHalfRead` |
| `InForceAtRest` | `Spec => []SavedInForce` |
| `ConfirmedEditsKept` | `Spec => []NoLostUpdate` |

None of them assumes anything about the deployment or the number of faults: the
exception, a write whose backup was refused, is part of each property, and
`BackupsSuffice` says when it is void. `StoreInv` is the argument for the first ones:
a handler is between `copy` and `fill` exactly when it holds the lock (`LockHeld`);
while the file is truncated its content is in the backup, unless the write is
`uncopied` (`Kept`); until a loss, what handlers will write or apply and what the
files hold is whole and has a domain (`WholeOps`, `WholeFiles`), and `read_config`
finds a whole config whenever the lock is free, because a file is emptied only after
its content went to the backup (`Readable`). `ForceInv`
follows a single request: as long as requests have not overlapped at most one
handler is at work (`Alone`), and at each of its steps the file, the settings
and nginx differ by just what it still has to do (`InForce`).

`MxReloadProofs`, about `MxReload`: `ReloadTypes` (`[]TypeOK`), `SavedOnly`
(`[]OnlySaved`) and `Honoured` (`[]NewDomainHonoured`). `OnlySaved` needs that a
file that is not empty is among the contents saved, and that a load refuses the
empty one. `Honoured` needs, as long as domains are only added: the start leaves
the hash of what it loaded (`Starting`), a content that was hashed is contained in
the file or in what is about to be written (`SeenKept`), and one whose hash is kept
is contained in what is loaded (`HashedIsLoaded`). So a session that finds the hash
of the file unchanged answers for a process that has the domain.

`SetupWizardProofs`, about `SetupWizard` and `Translations`:

| Theorem | Says |
|---|---|
| `WizardTypes` | `Spec => []TypeOK` |
| `TokenWorks` | `Spec => []ShownTokenWorks` |
| `TextsWhole` | `Spec => []TextsFound` |

`WizardTypes` needs, besides what each submission carries (`SubmitTypes`), that the
requests for the setup status, the answers on their way included, number at most
`2 + acts` (`Checked`): one is asked for when the page loads, another if the
language detected is not the default, and one more by each switch of the language.
`TextsWhole` needs `OneLanguage`: after the effects of the provider have run,
texts, the mirror of the module, the document and the saved choice are one
language, a fact about `I18nProvider` (`Provided`) and `setLang` (`Chosen`); that
every table merged with its extension has every section is `TablesWhole`.
For `TokenWorks`, `TokenInv` says that without an overlap at most one submission
is past the check, that the file is fresh until it writes, and that an answer
200 or a result shown fixes file and settings for good, because the check then
refuses everybody.

`PublicPagesProofs`, about `PublicPages`:

| Theorem | Says |
|---|---|
| `PagesTypes` | `Spec => []TypeOK` |
| `ShownIsStored` | `Spec => []StoredIsShown` |
| `SpinnersAreWaited` | `Spec => []SpinnersEnd` |

`EveryStep` sorts the steps of the two pages into kinds by what they do to
the calls in flight, to what a page shows and to what is stored: a handler starts
(`HomeOpening`, `BoxOpening`), is answered (`HomeMoving`, `BoxMoving`), the server
replies, a page is mounted, a control turns. The invariant `IInv` adds to the two
properties that the first effect of the temporary inbox has the page to itself
(`HomeWaits`: without an address nothing on it can be used, so no other handler
can set one while `initInbox` waits), and that the page of the permanent mailbox,
whose forms can be used before that, stores a session only with the token it
shows (`BoxWaits`).

`AdminPanelProofs`, about `AdminPanel`:

| Theorem | Says |
|---|---|
| `PanelTypes` | `Spec => []TypeOK` |
| `PanelTokens` | `Spec => []OnlyVerifiedKept` |
| `PanelLists` | `Spec => []ListMatchesQuery` |
| `PanelKeys` | `Spec => []ShownKeyWorks` |
| `PanelSaves` | `Spec => UntouchedFields` (an action property) |

`calls` is a sequence from which handlers remove and to which they add, so the
argument has two layers. `Flow(o, gone, z)` says what any step makes of the calls:
`o` tells where each came from, those of `gone` are done with, the others are
carried on (answered, overlapped or left behind, and nothing else), and of the new
ones all but `z` are requests no property is about. Each part of the invariant is
shown once to survive a flow (`VouchFlows`, `AloneFlows`, ...); each action is
shown once to be one (`Sent`, `GoingOn`, `Orphaned`, `Answered`, ...). `IInv`
adds to types and properties:

- `Vouch` for `OnlyVerifiedKept`: a token not verified is that of a login still
  in flight, so the last answer to come decides about it. The property alone
  says nothing while a login is under way.
- `Alone` and `Matched` for `ListMatchesQuery`: a request marked alone is the only
  one that ends in a list and asks for the page and search of the controls, until
  it is overlapped or its page is left. `Waits` is needed for them: before the
  layout shows its pages none has asked, so the first list of a page is alone.
- `OneKey` and `KeyMade` for `ShownKeyWorks`: the spinner `key` is lit as long as
  a handler that puts it out runs on a page shown, so a second one cannot start,
  and while it runs no key is shown.
- `Kind` and `FormKept` for `UntouchedFields`: a field not in `touched` is that of
  the configuration loaded, so the patch made from the two leaves it out, repeats it
  (the number), or says off (a flag that was absent). That needs no more about the time between
  `handleSave()` and the answer, because a call carries its patch along
  (`Carried`); `SaveWrites` says that a step in which a save is answered and the
  configuration changes wrote just that patch.

`RateLimitProofs`, about `RateLimit`: `TypeCorrect` (`[]TypeOK`), `BudgetHolds`
(`[]WindowHonoured`) and `RefusalIsDeserved` (`RefusedWhenFull`). The inductive
invariant relates each queue to the log of its key: the queue is what the log ends
with, and what has left it was admitted a window ago, less a stall (`Follows`); the
log is in the order of counting, and each entry was counted within a stall of its
reading (`Ordered`). `WindowHonoured` alone says nothing of the queue an admission
is decided by and is not inductive. Admission: the queue is shorter than the limit,
so the entry so many places back has left it (`AppendHonoured`). Refusal: the head
of a pruned queue is inside the window, and what was logged after the head was
counted after it, whatever its own reading says (`FullRecent`). A sweep drops a
queue whose last time is out of every window, and with it all earlier ones, because
`Idle` is at least `Window` (`SweptFollows`). `MaxIs`, that a bounded set of numbers
has a largest member, is derived from the well-foundedness of strict inclusion.

So every invariant and every action property that a passing run checks is also a
theorem.
Model-checked only, because out of reach of the prover: liveness under fairness
(`ExpiredGoes`, `QuotaRestored`, `StorageRestored`, `RetentionHonoured`,
`RequestsEnd`, `ChangesReachMx`, `ListsSettle`, `ExpiredIsReplaced`,
`NothingPending`, `Settles`), and what would need the value of a sum over a set (`Usage` in
`StorageRestored`; `MailLosses` uses it only as a name).

## 5. Not modelled

- STARTTLS and the certificate sidecar: certificate and key are copied and read
  one after the other, and what a client sees of a mixed pair is decided by
  `crypto/tls`. The panel's side, a job that is pending and later is not, is in
  `AdminApi`.
- The limits of DATA (size, messages per source and hour, MIME parts) answer
  before anything is stored; in `MailStore` they are a `Reset`. `max_mime_parts: 0`
  is documented as unlimited (`config.yaml.example:62-69`, `config.go:184`) and
  compared as a limit (`session.go:183`), so that with it every message that has a
  boundary line is refused for good.
- SPF, DKIM and DMARC: functions of the message and of DNS answers, computed by
  libraries; the verdicts never change what is accepted.
- Parsing of messages, attachments and client addresses; reading, searching and downloading mail,
  which change only `is_read`.
- The connection pool, health endpoints, statistics: no state that interleaves
  with anything here.
- Migrations and `setup.sh`: run once by the operator, before or beside the
  running system. The configs `setup.sh` leaves are initial states of
  `AdminPanel`.
- nginx: renders `web-config.env`, whose content `SavedInForce` is about.
- The information pages and the presentation components: no state of their own.
