----------------------------- MODULE SetupWizard ----------------------------
(***************************************************************************)
(* The first-run wizard: its page (web/app/setup/page.tsx) in several        *)
(* browsers at once, and the endpoints behind it (api/app/routers/setup.py). *)
(* FastAPI runs the endpoints in a thread pool, so two submissions interleave *)
(* between the check, the write of config.yaml and its reload.               *)
(***************************************************************************)
EXTENDS Translations, Naturals, Sequences, SequencesExt

CONSTANTS
  Wizards,        \* browsers with the page open
  Domains,
  Locales,        \* languages the browsers prefer, and offered by the switcher
  MaxRows,        \* bound: rows of the list of domains
  MaxTries,       \* bound: submissions of one page
  MaxActs,        \* bound: what the users do besides submitting
  MaxFaults       \* bound: answers lost, reloads that fail, restarts of the api

ASSUME WizardAssumption ==
  /\ {MaxRows, MaxTries, MaxActs, MaxFaults} \subseteq Nat
  /\ MaxRows > 0                     \* the form starts with a row

VARIABLES
  ui,             \* per page: the language provider
  form,           \* per page: the hooks that make up the form
  page,           \* per page: what is shown
  checks,         \* per page: requests for the setup status
  request,        \* per page: the submission
  file,           \* config.yaml
  settings,       \* what the api has loaded from it
  overlap,        \* history: two submissions were past the check at once
  acts, faults

clientVars == <<ui, form, page>>
serverVars == <<file, settings, overlap>>
vars == <<ui, form, page, checks, request, file, settings, overlap, acts, faults>>

\* No token.
None == << >>
\* A row of the form, and what follows "mail." in the hostname; "" is empty.
Rows == Domains \union {""}
Typed == "typed"
\* The administrator's token of the n-th submission of a page, typed or generated.
Tokens == {<<w, n>> : w \in Wizards, n \in 1..MaxTries}

Fresh == [initialized |-> FALSE, token |-> None, domains |-> {}, hostname |-> ""]
Config == [initialized : BOOLEAN, token : Tokens \union {None},
           domains : SUBSET Domains, hostname : Rows \union {Typed}]

Idle == [at |-> "none", code |-> 0, key |-> FALSE, config |-> Fresh]

TypeOK ==
  /\ \A w \in Wizards :
       /\ {ui[w].lang, ui[w].module, ui[w].document} \subseteq Codes
       /\ ToSet(form[w].domains) \subseteq Rows /\ Len(form[w].domains) \in 1..MaxRows
       /\ form[w].hostname \in Rows \union {Typed}
       /\ form[w].touched \in BOOLEAN
       /\ page[w].at \in {"loading", "form", "left"}
       /\ page[w].saving \in BOOLEAN /\ page[w].result \in Tokens \union {None}
       /\ page[w].tries \in 0..MaxTries
       /\ checks[w] \in [asked : 0..(2 + MaxActs), fresh : 0..(2 + MaxActs),
                         done : 0..(2 + MaxActs)]
       /\ request[w].at \in {"none", "sent", "checked", "written", "answered"}
       /\ request[w].code \in {0, 200, 403, 500} /\ request[w].key \in BOOLEAN
       /\ request[w].config \in Config
  /\ {file, settings} \subseteq Config
  /\ overlap \in BOOLEAN /\ acts \in 0..MaxActs /\ faults \in 0..MaxFaults

Init ==
  /\ \E preferred \in [Wizards -> Locales] :
       /\ ui = [w \in Wizards |-> I18nProvider("", preferred[w])]
       \* The first effect of the page runs again when `t` changes: twice at once
       \* where another language than the default is detected.
       /\ checks = [w \in Wizards |->
            [asked |-> IF resolveLang(preferred[w]) = DEFAULT_LANG THEN 1 ELSE 2,
             fresh |-> 0, done |-> 0]]
  /\ form = [w \in Wizards |-> [domains |-> <<"">>, hostname |-> "", touched |-> FALSE]]
  /\ page = [w \in Wizards |-> [at |-> "loading", saving |-> FALSE, result |-> None,
                                tries |-> 0]]
  /\ request = [w \in Wizards |-> Idle]
  /\ file = Fresh /\ settings = Fresh
  /\ overlap = FALSE /\ acts = 0 /\ faults = 0

-----------------------------------------------------------------------------
(* The request for the status, and its answer.                               *)

setup_status(w) ==
  /\ checks[w].asked > 0
  /\ checks' = [checks EXCEPT ![w].asked = @ - 1,
                              ![w].fresh = IF settings.initialized THEN @ ELSE @ + 1,
                              ![w].done = IF settings.initialized THEN @ + 1 ELSE @]
  /\ UNCHANGED <<clientVars, request, serverVars, acts, faults>>

\* setLoading(false)
Shown(p) == [p EXCEPT !.at = IF @ = "loading" THEN "form" ELSE @]

StatusFails(w) ==
  /\ checks[w].asked > 0 /\ faults < MaxFaults
  /\ checks' = [checks EXCEPT ![w].asked = @ - 1]
  /\ page' = [page EXCEPT ![w] = Shown(@)]
  /\ faults' = faults + 1
  /\ UNCHANGED <<ui, form, request, serverVars, acts>>

\* router.replace("/") whatever the page shows by now; else the form.
StatusAnswered(w) ==
  /\ \/ /\ checks[w].fresh > 0
        /\ checks' = [checks EXCEPT ![w].fresh = @ - 1]
        /\ page' = [page EXCEPT ![w] = Shown(@)]
     \/ /\ checks[w].done > 0
        /\ checks' = [checks EXCEPT ![w].done = @ - 1]
        /\ page' = [page EXCEPT ![w].at = "left"]
  /\ UNCHANGED <<ui, form, request, serverVars, acts, faults>>

-----------------------------------------------------------------------------
(* The form.                                                                 *)

Act == acts < MaxActs /\ acts' = acts + 1

LoadingView(w) == page[w].at = "loading"
ResultView(w) == page[w].at = "form" /\ page[w].result # None

FormView(w) == page[w].at = "form" /\ page[w].result = None

Edit(w, f) ==
  /\ FormView(w) /\ Act
  /\ form' = [form EXCEPT ![w] = f]
  /\ UNCHANGED <<ui, page, checks, request, serverVars, faults>>

updateDomain(w, i, d) ==
  Edit(w, [form[w] EXCEPT !.domains[i] = d,
                          !.hostname = IF i = 1 /\ ~form[w].touched THEN d ELSE @])

AddDomain(w) ==
  /\ Len(form[w].domains) < MaxRows
  /\ Edit(w, [form[w] EXCEPT !.domains = Append(@, "")])

\* Mutant of RemoveDomain: the last row can be removed as well.
RemoveDomainLast(w, i) ==
  Edit(w, [form[w] EXCEPT !.domains = RemoveAt(@, i)])

\* The hostname stays, also when the first row goes.
RemoveDomain(w, i) ==
  /\ Len(form[w].domains) > 1
  /\ Edit(w, [form[w] EXCEPT !.domains = RemoveAt(@, i)])

EditHostname(w, h) == Edit(w, [form[w] EXCEPT !.hostname = h, !.touched = TRUE])

LanguageSwitcher(w, raw) ==
  /\ FormView(w) /\ Act
  /\ ui' = [ui EXCEPT ![w] = setLang(@, resolveLang(raw))]
  /\ checks' = [checks EXCEPT ![w].asked = IF ui'[w].lang = ui[w].lang THEN @ ELSE @ + 1]
  /\ UNCHANGED <<form, page, request, serverVars, faults>>

Cleaned(w) == ToSet(form[w].domains) \ {""}

\* `key`: the setup key in the form is the server's.  The answer to an earlier
\* submission that the page still waits for is all that disables the button.
handleSave(w, key) ==
  /\ FormView(w) /\ ~page[w].saving
  /\ Cleaned(w) # {} /\ form[w].hostname # ""
  /\ page[w].tries < MaxTries
  /\ page' = [page EXCEPT ![w].saving = TRUE, ![w].tries = @ + 1]
  /\ request' = [request EXCEPT ![w] =
       [at |-> "sent", code |-> 0, key |-> key,
        config |-> [initialized |-> TRUE, token |-> <<w, page'[w].tries>>,
                    domains |-> Cleaned(w), hostname |-> form[w].hostname]]]
  /\ UNCHANGED <<ui, form, checks, serverVars, acts, faults>>

\* Mutant of Saved: the button is released with the result only.
SavedOk(w, result) ==
  [page[w] EXCEPT !.saving = @ /\ result = None, !.result = IF result = None THEN @ ELSE result]

Saved(w, result) ==
  [page[w] EXCEPT !.saving = FALSE, !.result = IF result = None THEN @ ELSE result]

SaveAnswered(w) ==
  /\ request[w].at = "answered"
  /\ page' = [page EXCEPT ![w] =
       Saved(w, IF request[w].code = 200 THEN request[w].config.token ELSE None)]
  /\ request' = [request EXCEPT ![w] = Idle]
  /\ UNCHANGED <<ui, form, checks, serverVars, acts, faults>>

-----------------------------------------------------------------------------
(* complete_setup, in a thread of the pool.                                  *)

Within(w) == request[w].at \in {"checked", "written"}

Reply(w, code) == [request[w] EXCEPT !.at = "answered", !.code = code]

\* Mutant of Uninitialized: the file is trusted to be fresh.
UninitializedAlways == TRUE

\* settings.SETUP_INITIALIZED, read once
Uninitialized == ~settings.initialized

\* The rest of what may be refused is refused before anything is written, too.
CheckSetup(w) ==
  /\ request[w].at = "sent"
  /\ IF Uninitialized /\ request[w].key
     THEN /\ request' = [request EXCEPT ![w].at = "checked"]
          /\ overlap' = (overlap \/ \E v \in Wizards : Within(v))
     ELSE /\ request' = [request EXCEPT ![w] = Reply(w, 403)]
          /\ overlap' = overlap
  /\ UNCHANGED <<clientVars, checks, file, settings, acts, faults>>

\* write_config
WriteSetup(w) ==
  /\ request[w].at = "checked"
  /\ file' = request[w].config
  /\ request' = [request EXCEPT ![w].at = "written"]
  /\ UNCHANGED <<clientVars, checks, settings, overlap, acts, faults>>

\* reload_settings, write_web_config
ApplySetup(w) ==
  /\ request[w].at = "written"
  /\ settings' = file
  /\ request' = [request EXCEPT ![w] = Reply(w, 200)]
  /\ UNCHANGED <<clientVars, checks, file, overlap, acts, faults>>

Fault == faults < MaxFaults /\ faults' = faults + 1

\* One of them fails: 500, with the settings loaded or not.
ApplyFails(w) ==
  /\ Fault
  /\ request[w].at = "written"
  /\ settings' \in {settings, file}
  /\ request' = [request EXCEPT ![w] = Reply(w, 500)]
  /\ UNCHANGED <<clientVars, checks, file, overlap, acts>>

AnswerLost(w) ==
  /\ Fault
  /\ request[w].at = "answered" /\ request[w].code # 0
  /\ request' = [request EXCEPT ![w].code = 0]
  /\ UNCHANGED <<clientVars, checks, serverVars, acts>>

\* The api starts again from the file; the submissions under way are cut off.
Restart ==
  /\ Fault
  /\ settings' = file
  /\ request' = [w \in Wizards |->
       IF request[w].at \in {"none", "answered"} THEN request[w] ELSE Reply(w, 0)]
  /\ UNCHANGED <<clientVars, checks, file, overlap, acts>>

-----------------------------------------------------------------------------
Server(w) == CheckSetup(w) \/ WriteSetup(w) \/ ApplySetup(w)

Form(w) ==
  \/ \E d \in Domains, i \in DOMAIN form[w].domains : updateDomain(w, i, d)
  \/ \E i \in DOMAIN form[w].domains : RemoveDomain(w, i)
  \/ AddDomain(w) \/ EditHostname(w, Typed)
  \/ \E raw \in Locales : LanguageSwitcher(w, raw)
  \/ \E key \in BOOLEAN : handleSave(w, key)

Next ==
  \/ \E w \in Wizards :
       \/ setup_status(w) \/ StatusFails(w) \/ StatusAnswered(w)
       \/ Form(w) \/ SaveAnswered(w)
       \/ Server(w) \/ ApplyFails(w) \/ AnswerLost(w)
  \/ Restart

Spec == Init /\ [][Next]_vars

\* Requests are served and answered; nobody has to fill in the form.
FairSpec ==
  Spec /\ \A w \in Wizards :
    /\ WF_vars(setup_status(w)) /\ WF_vars(StatusAnswered(w))
    /\ WF_vars(SaveAnswered(w)) /\ WF_vars(Server(w))

-----------------------------------------------------------------------------
\* The token a page shows, "only this once", is the administrator's token, on disk
\* and in use, and stays it.  Two submissions that overlap both pass the check of
\* setup.py:67, and the page answered first may show a token already replaced.
ShownTokenWorks ==
  \A w \in Wizards :
    ResultView(w) /\ ~overlap => file.token = page[w].result /\ settings = file

\* The texts of the page, those of the helpers outside React, the attributes of the
\* document and the choice kept for the next visit are all in one language, whatever
\* effects and switches ran, and none falls back to English.
TextsFound ==
  \A w \in Wizards, section \in en :
    \A code \in {ui[w].lang, ui[w].module, ui[w].document, ui[w].saved} \ {""} :
      lookup(code, section) = ui[w].lang

\* When the users pause, every page is past its spinner and its button is released,
\* whatever was refused, cut off or lost on the way.
NothingPending == <>[](\A w \in Wizards : ~LoadingView(w) /\ ~page[w].saving)
=============================================================================
