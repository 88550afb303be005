-------------------------- MODULE SetupWizardProofs -------------------------
(***************************************************************************)
(* Proofs about SetupWizard, for every set of browsers, of domains and of   *)
(* languages and every bound.                                               *)
(***************************************************************************)
EXTENDS SetupWizard, SequenceTheorems, TLAPS

-----------------------------------------------------------------------------
(* What a page submits, the api answers and the page shows.                 *)

Pages == [at : {"loading", "form", "left"}, saving : BOOLEAN,
          result : Tokens \union {None}, tries : 0..MaxTries]
Requests == [at : {"none", "sent", "checked", "written", "answered"},
             code : {0, 200, 403, 500}, key : BOOLEAN, config : Config]
Forms == [domains : Seq(Rows), hostname : Rows \union {Typed}, touched : BOOLEAN]

SubmitTypes ==
  /\ form \in [Wizards -> Forms]
  /\ page \in [Wizards -> Pages]
  /\ request \in [Wizards -> Requests]
  /\ file \in Config /\ settings \in Config

LEMMA FreshTyping == Fresh \in Config /\ Idle \in Requests
<1>1. Fresh \in Config
  BY DEF Fresh, Config, Rows
<1>2. QED  BY <1>1 DEF Idle, Requests

\* A submission has its four fields, and a step changes the one it names.
LEMMA AtStep ==
  ASSUME NEW r \in Requests, NEW a \in {"checked", "written", "answered"}
  PROVE  /\ [r EXCEPT !.at = a] \in Requests
         /\ [r EXCEPT !.at = a].at = a /\ [r EXCEPT !.at = a].code = r.code
         /\ [r EXCEPT !.at = a].config = r.config
BY DEF Requests

LEMMA CodeStep ==
  ASSUME NEW r \in Requests, NEW c \in {0, 200, 403, 500}
  PROVE  /\ [r EXCEPT !.code = c] \in Requests
         /\ [r EXCEPT !.code = c].at = r.at /\ [r EXCEPT !.code = c].code = c
         /\ [r EXCEPT !.code = c].config = r.config
BY DEF Requests

LEMMA ReplyTyping ==
  ASSUME NEW w \in Wizards, request[w] \in Requests, NEW c \in {0, 200, 403, 500}
  PROVE  /\ Reply(w, c) \in Requests
         /\ Reply(w, c).at = "answered" /\ Reply(w, c).code = c
         /\ Reply(w, c).config = request[w].config
<1> DEFINE m == [request[w] EXCEPT !.at = "answered"]
<1>1. Reply(w, c) = [m EXCEPT !.code = c]
  BY DEF Reply
<1>2. m \in Requests /\ m.at = "answered" /\ m.config = request[w].config
  BY AtStep
<1> HIDE DEF m
<1>3. /\ [m EXCEPT !.code = c] \in Requests /\ [m EXCEPT !.code = c].at = m.at
      /\ [m EXCEPT !.code = c].code = c /\ [m EXCEPT !.code = c].config = m.config
  BY <1>2 DEF Requests
<1>4. QED  BY <1>1, <1>2, <1>3

LEMMA PageFields ==
  ASSUME NEW A, NEW B, NEW C, NEW D, NEW p \in [at : A, saving : B, result : C, tries : D],
         NEW b \in B, NEW d \in D
  PROVE  /\ [p EXCEPT !.saving = b, !.tries = d] \in [at : A, saving : B, result : C, tries : D]
         /\ [p EXCEPT !.saving = b, !.tries = d].tries = d
         /\ [p EXCEPT !.saving = b, !.tries = d].result = p.result
<1> DEFINE P == [at : A, saving : B, result : C, tries : D]
           m == [p EXCEPT !.saving = b]
<1>1. [p EXCEPT !.saving = b, !.tries = d] = [m EXCEPT !.tries = d]
  OBVIOUS
<1>2. m \in P /\ m.result = p.result
  OBVIOUS
<1> HIDE DEF m
<1>3. /\ [m EXCEPT !.tries = d] \in P
      /\ [m EXCEPT !.tries = d].tries = d /\ [m EXCEPT !.tries = d].result = m.result
  BY <1>2
<1>4. QED  BY <1>1, <1>2, <1>3

\* A page that submits waits for the answer, with one submission more.
LEMMA TriedFields ==
  ASSUME NEW p \in Pages, p.tries < MaxTries
  PROVE  /\ [p EXCEPT !.saving = TRUE, !.tries = @ + 1] \in Pages
         /\ [p EXCEPT !.saving = TRUE, !.tries = @ + 1].tries \in 1..MaxTries
         /\ [p EXCEPT !.saving = TRUE, !.tries = @ + 1].result = p.result
<1>1. p.tries \in 0..MaxTries
  BY DEF Pages
<1>2. p.tries + 1 \in 1..MaxTries /\ p.tries + 1 \in 0..MaxTries
  BY <1>1, WizardAssumption
<1> DEFINE n == p.tries + 1
           m == [p EXCEPT !.saving = TRUE, !.tries = n]
<1> HIDE DEF n
<1>3. m \in Pages /\ m.tries = n /\ m.result = p.result
  <2>1. n \in 0..MaxTries
    BY <1>2 DEF n
  <2>2. QED  BY <2>1, PageFields DEF Pages
<1>4. QED  BY <1>2, <1>3 DEF n

\* The rows of the form that are not empty are domains.
LEMMA CleanedTyping ==
  ASSUME SubmitTypes, NEW w \in Wizards
  PROVE  Cleaned(w) \subseteq Domains
<1>1. form[w].domains \in Seq(Rows)
  BY DEF SubmitTypes, Forms
<1>2. ToSet(form[w].domains) \subseteq Rows
  BY <1>1 DEF ToSet
<1>3. QED  BY <1>2 DEF Cleaned, Rows

\* What the user does to the rows keeps them rows.
LEMMA RowsTyping ==
  ASSUME NEW S, NEW q \in Seq(S), NEW x \in S
  PROVE  /\ Append(q, x) \in Seq(S)
         /\ \A i \in DOMAIN q : [q EXCEPT ![i] = x] \in Seq(S)
  OBVIOUS

\* What the user does to the form keeps it a form.
LEMMA EditTyping ==
  ASSUME SubmitTypes, NEW w \in Wizards, NEW f \in Forms, Edit(w, f)
  PROVE  SubmitTypes'
  BY DEF SubmitTypes, Edit, serverVars

LEMMA SubmitTypesInit == Init => SubmitTypes
<1> SUFFICES ASSUME Init PROVE SubmitTypes
  OBVIOUS
<1>1. [domains |-> <<"">>, hostname |-> "", touched |-> FALSE] \in Forms
  <2>1. <<"">> \in Seq(Rows)
    BY DEF Rows
  <2>2. QED  BY <2>1 DEF Forms, Rows
<1>2. [at |-> "loading", saving |-> FALSE, result |-> None, tries |-> 0] \in Pages
  BY WizardAssumption DEF Pages
<1>3. QED  BY <1>1, <1>2, FreshTyping DEF Init, SubmitTypes

\* What the api does to a submission.
LEMMA ServerTyping ==
  ASSUME SubmitTypes, NEW w \in Wizards, Server(w) \/ ApplyFails(w) \/ AnswerLost(w)
  PROVE  SubmitTypes'
<1>t. /\ request \in [Wizards -> Requests] /\ request[w] \in Requests
      /\ file \in Config /\ settings \in Config /\ request[w].config \in Config
  BY DEF SubmitTypes, Requests
<1>1. /\ \A c \in {0, 200, 403, 500} : Reply(w, c) \in Requests
      /\ [request[w] EXCEPT !.at = "checked"] \in Requests
      /\ [request[w] EXCEPT !.at = "written"] \in Requests
      /\ [request[w] EXCEPT !.code = 0] \in Requests
  <2>1. \A c \in {0, 200, 403, 500} : Reply(w, c) \in Requests
    BY <1>t, ReplyTyping
  <2>2. [request[w] EXCEPT !.at = "checked"] \in Requests
    BY <1>t, AtStep
  <2>3. [request[w] EXCEPT !.at = "written"] \in Requests
    BY <1>t, AtStep
  <2>4. [request[w] EXCEPT !.code = 0] \in Requests
    BY <1>t DEF Requests
  <2>5. QED  BY <2>1, <2>2, <2>3, <2>4
<1>2. /\ request' \in [Wizards -> Requests]
      /\ file' \in Config /\ settings' \in Config
      /\ UNCHANGED <<form, page>>
  <2>1. CASE CheckSetup(w)
    BY <1>t, <1>1, <2>1 DEF CheckSetup, clientVars
  <2>2. CASE WriteSetup(w)
    BY <1>t, <1>1, <2>2 DEF WriteSetup, clientVars
  <2>3. CASE ApplySetup(w)
    BY <1>t, <1>1, <2>3 DEF ApplySetup, clientVars
  <2>4. CASE ApplyFails(w)
    BY <1>t, <1>1, <2>4 DEF ApplyFails, clientVars
  <2>5. CASE AnswerLost(w)
    BY <1>t, <1>1, <2>5 DEF AnswerLost, clientVars, serverVars
  <2>6. QED  BY <2>1, <2>2, <2>3, <2>4, <2>5 DEF Server
<1>3. QED  BY <1>2 DEF SubmitTypes

LEMMA SubmitTypesStep == SubmitTypes /\ [Next]_vars => SubmitTypes'
<1> SUFFICES ASSUME SubmitTypes, [Next]_vars PROVE SubmitTypes'
  OBVIOUS
<1>t. /\ form \in [Wizards -> Forms] /\ page \in [Wizards -> Pages]
      /\ request \in [Wizards -> Requests] /\ file \in Config /\ settings \in Config
  BY DEF SubmitTypes
<1>n. MaxTries \in Nat
  BY WizardAssumption
<1>1. ASSUME NEW w \in Wizards, Form(w) PROVE SubmitTypes'
  <2>0. form[w].domains \in Seq(Rows) /\ "" \in Rows /\ Domains \subseteq Rows
    BY <1>t DEF Forms, Rows
  <2>1. ASSUME NEW d \in Domains, NEW i \in DOMAIN form[w].domains, updateDomain(w, i, d)
        PROVE  SubmitTypes'
    <3>1. [form[w].domains EXCEPT ![i] = d] \in Seq(Rows) /\ d \in Rows
      BY <2>0, RowsTyping
    <3>2. [form[w] EXCEPT !.domains[i] = d,
                          !.hostname = IF i = 1 /\ ~form[w].touched THEN d ELSE @] \in Forms
      BY <1>t, <3>1 DEF Forms
    <3>3. QED  BY <2>1, <3>2, EditTyping DEF updateDomain
  <2>2. ASSUME NEW i \in DOMAIN form[w].domains, RemoveDomain(w, i) PROVE SubmitTypes'
    <3>1. RemoveAt(form[w].domains, i) \in Seq(Rows)
      BY <1>t DEF Forms, RemoveAt
    <3>2. [form[w] EXCEPT !.domains = RemoveAt(@, i)] \in Forms
      BY <1>t, <3>1 DEF Forms
    <3>3. QED  BY <2>2, <3>2, EditTyping DEF RemoveDomain
  <2>3. CASE AddDomain(w)
    <3>1. Append(form[w].domains, "") \in Seq(Rows)
      BY <2>0, RowsTyping
    <3>2. [form[w] EXCEPT !.domains = Append(@, "")] \in Forms
      BY <1>t, <3>1 DEF Forms
    <3>3. QED  BY <2>3, <3>2, EditTyping DEF AddDomain
  <2>4. CASE EditHostname(w, Typed)
    <3>1. [form[w] EXCEPT !.hostname = Typed, !.touched = TRUE] \in Forms
      BY <1>t DEF Forms
    <3>2. QED  BY <2>4, <3>1, EditTyping DEF EditHostname
  <2>5. ASSUME NEW raw \in Locales, LanguageSwitcher(w, raw) PROVE SubmitTypes'
    BY <2>5 DEF LanguageSwitcher, SubmitTypes, serverVars
  <2>6. ASSUME NEW key \in BOOLEAN, handleSave(w, key) PROVE SubmitTypes'
    <3>1. page' = [page EXCEPT ![w] = [page[w] EXCEPT !.saving = TRUE, !.tries = @ + 1]]
          /\ page[w].tries < MaxTries
      BY <2>6 DEF handleSave
    <3>2. [page[w] EXCEPT !.saving = TRUE, !.tries = @ + 1] \in Pages
          /\ [page[w] EXCEPT !.saving = TRUE, !.tries = @ + 1].tries \in 1..MaxTries
      BY <1>t, <3>1, TriedFields
    <3>3. page' \in [Wizards -> Pages] /\ page'[w].tries \in 1..MaxTries
      BY <1>t, <3>1, <3>2
    <3>4. <<w, page'[w].tries>> \in Tokens /\ form[w].hostname \in Rows \union {Typed}
      BY <1>t, <3>3 DEF Tokens, Forms
    <3>5. [initialized |-> TRUE, token |-> <<w, page'[w].tries>>,
           domains |-> Cleaned(w), hostname |-> form[w].hostname] \in Config
      BY <3>4, CleanedTyping DEF Config
    <3>6. [at |-> "sent", code |-> 0, key |-> key,
           config |-> [initialized |-> TRUE, token |-> <<w, page'[w].tries>>,
                       domains |-> Cleaned(w), hostname |-> form[w].hostname]] \in Requests
      BY <3>5 DEF Requests
    <3>7. request' \in [Wizards -> Requests]
      BY <1>t, <2>6, <3>6 DEF handleSave
    <3>8. QED  BY <1>t, <2>6, <3>3, <3>7 DEF handleSave, SubmitTypes, serverVars
  <2>7. QED  BY <1>1, <2>1, <2>2, <2>3, <2>4, <2>5, <2>6 DEF Form
<1>2. ASSUME NEW w \in Wizards, setup_status(w) \/ StatusFails(w) \/ StatusAnswered(w)
      PROVE  SubmitTypes'
  <2>1. Shown(page[w]) \in Pages /\ [page[w] EXCEPT !.at = "left"] \in Pages
    BY <1>t DEF Shown, Pages
  <2>2. page' \in [Wizards -> Pages]
    BY <1>t, <1>2, <2>1 DEF setup_status, StatusFails, StatusAnswered, clientVars
  <2>3. UNCHANGED <<form, request, file, settings>>
    BY <1>2 DEF setup_status, StatusFails, StatusAnswered, clientVars, serverVars
  <2>4. QED  BY <1>t, <2>2, <2>3 DEF SubmitTypes
<1>3. ASSUME NEW w \in Wizards, SaveAnswered(w) PROVE SubmitTypes'
  <2>1. request[w].config.token \in Tokens \union {None}
    BY <1>t DEF Requests, Config
  <2>2. \A r \in Tokens \union {None} : Saved(w, r) \in Pages
    BY <1>t DEF Saved, Pages
  <2>3. page' \in [Wizards -> Pages]
    BY <1>t, <1>3, <2>1, <2>2 DEF SaveAnswered
  <2>4. QED  BY <1>t, <1>3, <2>3, FreshTyping DEF SaveAnswered, SubmitTypes, serverVars
<1>4. ASSUME NEW w \in Wizards, Server(w) \/ ApplyFails(w) \/ AnswerLost(w)
      PROVE  SubmitTypes'
  BY <1>4, ServerTyping
<1>5. CASE Restart
  <2>1. ASSUME NEW w \in Wizards PROVE request'[w] \in Requests
    <3>1. request[w] \in Requests /\ Reply(w, 0) \in Requests
      BY <1>t, ReplyTyping
    <3>2. request'[w] \in {request[w], Reply(w, 0)}
      BY <1>5 DEF Restart
    <3>3. QED  BY <3>1, <3>2
  <2>2. DOMAIN request' = Wizards /\ request' = [w \in Wizards |-> request'[w]]
    BY <1>5 DEF Restart
  <2>3. request' \in [Wizards -> Requests]
    BY <2>1, <2>2
  <2>4. settings' = file /\ UNCHANGED <<form, page, file>>
    BY <1>5 DEF Restart, clientVars
  <2>5. QED  BY <1>t, <2>3, <2>4 DEF SubmitTypes
<1>6. CASE UNCHANGED vars
  BY <1>t, <1>6 DEF vars, SubmitTypes
<1>7. QED  BY <1>1, <1>2, <1>3, <1>4, <1>5, <1>6 DEF Next

-----------------------------------------------------------------------------
(* One submission at a time is past the check, and the first is the last.    *)

Accepted(w) == request[w].at = "answered" /\ request[w].code = 200

\* Set up for good, with this token.
Settled(t) ==
  /\ file.token = t /\ settings = file /\ settings.initialized = TRUE
  /\ \A v \in Wizards : ~Within(v)

Submitting ==
  \A w \in Wizards :
    request[w].at # "none" => request[w].config.initialized = TRUE

Once ==
  ~overlap =>
    /\ \A v, w \in Wizards : Within(v) /\ Within(w) => v = w
    /\ \A w \in Wizards :
         /\ request[w].at = "written" => file = request[w].config
         /\ Accepted(w) => Settled(request[w].config.token)
         /\ page[w].result # None => Settled(page[w].result)

TokenInv == SubmitTypes /\ Submitting /\ Once

\* Editing the form leaves the api and the page alone.
LEMMA FormKinds ==
  ASSUME NEW w \in Wizards, Form(w)
  PROVE  \/ \E key \in BOOLEAN : handleSave(w, key)
         \/ UNCHANGED <<page, request, serverVars>>
<1>1. ASSUME NEW d \in Domains, NEW i \in DOMAIN form[w].domains, updateDomain(w, i, d)
      PROVE  UNCHANGED <<page, request, serverVars>>
  BY <1>1 DEF updateDomain, Edit
<1>2. ASSUME NEW i \in DOMAIN form[w].domains, RemoveDomain(w, i)
      PROVE  UNCHANGED <<page, request, serverVars>>
  BY <1>2 DEF RemoveDomain, Edit
<1>3. CASE AddDomain(w) \/ EditHostname(w, Typed)
  BY <1>3 DEF AddDomain, EditHostname, Edit
<1>4. ASSUME NEW raw \in Locales, LanguageSwitcher(w, raw)
      PROVE  UNCHANGED <<page, request, serverVars>>
  BY <1>4 DEF LanguageSwitcher
<1>5. QED  BY <1>1, <1>2, <1>3, <1>4 DEF Form

\* Once two submissions were past the check together, they were.
LEMMA OverlapStays == ASSUME [Next]_vars, overlap PROVE overlap'
<1>1. ASSUME NEW w \in Wizards, setup_status(w) \/ StatusFails(w) \/ StatusAnswered(w)
      PROVE  overlap'
  BY <1>1 DEF setup_status, StatusFails, StatusAnswered, serverVars
<1>2. ASSUME NEW w \in Wizards, Form(w) PROVE overlap'
  BY <1>2, FormKinds DEF handleSave, serverVars
<1>3. ASSUME NEW w \in Wizards, SaveAnswered(w) \/ AnswerLost(w) PROVE overlap'
  BY <1>3 DEF SaveAnswered, AnswerLost, serverVars
<1>4. ASSUME NEW w \in Wizards, Server(w) \/ ApplyFails(w) PROVE overlap'
  BY <1>4 DEF Server, CheckSetup, WriteSetup, ApplySetup, ApplyFails
<1>5. CASE Restart \/ UNCHANGED vars
  BY <1>5 DEF Restart, vars
<1>6. QED  BY <1>1, <1>2, <1>3, <1>4, <1>5 DEF Next

LEMMA SubmittingStep == SubmitTypes /\ Submitting /\ [Next]_vars => Submitting'
<1> SUFFICES ASSUME SubmitTypes, Submitting, [Next]_vars, NEW w \in Wizards,
                    request'[w].at # "none"
             PROVE  request'[w].config.initialized = TRUE
  BY DEF Submitting
<1>t. request \in [Wizards -> Requests] /\ request[w] \in Requests
  BY DEF SubmitTypes
<1>1. ASSUME NEW v \in Wizards, NEW key \in BOOLEAN, handleSave(v, key)
      PROVE  request'[w].config.initialized = TRUE
  BY <1>t, <1>1 DEF handleSave, Submitting
<1>2. CASE request'[w] = request[w]
  BY <1>2 DEF Submitting
<1>3. CASE request'[w] = Idle
  BY <1>3 DEF Idle
<1>4. CASE request'[w].config = request[w].config /\ request[w].at # "none"
  BY <1>4 DEF Submitting
<1>5. ASSUME NEW v \in Wizards, Server(v) \/ ApplyFails(v) \/ AnswerLost(v)
      PROVE  request'[w].config.initialized = TRUE
  <2>1. CASE v # w
    BY <1>t, <1>2, <1>5, <2>1 DEF Server, CheckSetup, WriteSetup, ApplySetup, ApplyFails,
                            AnswerLost
  <2>2. CASE v = w
    <3>1. request[w].at # "none"
      BY <1>5, <2>2 DEF Server, CheckSetup, WriteSetup, ApplySetup, ApplyFails, AnswerLost
    <3>2. request'[w].config = request[w].config
      <4>1. /\ Reply(w, 200).config = request[w].config
            /\ Reply(w, 403).config = request[w].config
            /\ Reply(w, 500).config = request[w].config
        BY <1>t, ReplyTyping
      <4>2. /\ [request[w] EXCEPT !.at = "checked"].config = request[w].config
            /\ [request[w] EXCEPT !.at = "written"].config = request[w].config
            /\ [request[w] EXCEPT !.code = 0].config = request[w].config
        BY <1>t, AtStep, CodeStep
      <4>3. CASE CheckSetup(w)
        <5>1. request'[w] \in {[request[w] EXCEPT !.at = "checked"], Reply(w, 403)}
          BY <1>t, <4>3 DEF CheckSetup
        <5>2. QED  BY <4>1, <4>2, <5>1
      <4>4. CASE WriteSetup(w)
        BY <1>t, <4>2, <4>4 DEF WriteSetup
      <4>5. CASE AnswerLost(w)
        BY <1>t, <4>2, <4>5 DEF AnswerLost
      <4>6. CASE ApplySetup(w) \/ ApplyFails(w)
        BY <1>t, <4>1, <4>6 DEF ApplySetup, ApplyFails
      <4>7. QED  BY <1>5, <2>2, <4>3, <4>4, <4>5, <4>6 DEF Server
    <3>3. QED  BY <1>4, <3>1, <3>2
  <2>3. QED  BY <2>1, <2>2
<1>6. CASE Restart
  <2>1. Reply(w, 0).config = request[w].config
    BY <1>t, ReplyTyping
  <2>2. CASE request[w].at \in {"none", "answered"}
    BY <1>2, <1>6, <2>2 DEF Restart
  <2>3. CASE request[w].at \notin {"none", "answered"}
    BY <1>4, <1>6, <2>1, <2>3 DEF Restart
  <2>4. QED  BY <2>2, <2>3
<1>7. ASSUME NEW v \in Wizards, SaveAnswered(v)
      PROVE  request'[w].config.initialized = TRUE
  BY <1>t, <1>2, <1>3, <1>7 DEF SaveAnswered
<1>8. CASE UNCHANGED request
  BY <1>2, <1>8
<1>9. ASSUME NEW v \in Wizards, Form(v) PROVE request'[w].config.initialized = TRUE
  BY <1>1, <1>8, <1>9, FormKinds
<1>10. ASSUME NEW v \in Wizards, setup_status(v) \/ StatusFails(v) \/ StatusAnswered(v)
       PROVE  UNCHANGED request
  BY <1>10 DEF setup_status, StatusFails, StatusAnswered
<1>11. UNCHANGED vars => UNCHANGED request
  BY DEF vars
<1>12. QED  BY <1>5, <1>6, <1>7, <1>8, <1>9, <1>10, <1>11 DEF Next

\* One submission alone past the check: what the steps of the api and of the page make
\* of it.
LEMMA OnceStep == TokenInv /\ [Next]_vars => Once'
<1> SUFFICES ASSUME TokenInv, [Next]_vars, ~overlap'
             PROVE  /\ \A v, w \in Wizards : Within(v)' /\ Within(w)' => v = w
                    /\ \A w \in Wizards :
                         /\ request'[w].at = "written" => file' = request'[w].config
                         /\ Accepted(w)' => Settled(request[w].config.token)'
                         /\ page'[w].result # None => Settled(page[w].result)'
  BY DEF Once
<1> DEFINE Good ==
      /\ \A v, w \in Wizards : Within(v) /\ Within(w) => v = w
      /\ \A w \in Wizards :
           /\ request[w].at = "written" => file = request[w].config
           /\ Accepted(w) => Settled(request[w].config.token)
           /\ page[w].result # None => Settled(page[w].result)
<1>t. /\ page \in [Wizards -> Pages] /\ request \in [Wizards -> Requests]
      /\ \A w \in Wizards : page[w] \in Pages /\ request[w] \in Requests
  BY DEF TokenInv, SubmitTypes
<1>o. ~overlap
  BY OverlapStays
<1>g. Good
  BY <1>o DEF TokenInv, Once
<1>1. CASE UNCHANGED <<request, file, settings>>
           /\ \A w \in Wizards : page'[w].result = page[w].result
  BY <1>g, <1>1 DEF Within, Accepted, Settled
<1>2. ASSUME NEW w \in Wizards, NEW key \in BOOLEAN, handleSave(w, key) PROVE Good'
  <2>1. /\ request'[w].at = "sent" /\ UNCHANGED <<file, settings>>
        /\ \A v \in Wizards \ {w} : request'[v] = request[v]
    BY <1>t, <1>2 DEF handleSave, serverVars
  <2>2. \A v \in Wizards : page'[v].result = page[v].result
    BY <1>t, <1>2 DEF handleSave, Pages
  <2>3. QED  BY <1>g, <2>1, <2>2 DEF Within, Accepted, Settled
<1>3. ASSUME NEW w \in Wizards, SaveAnswered(w) PROVE Good'
  <2>1. /\ request'[w].at = "none" /\ UNCHANGED <<file, settings>>
        /\ \A v \in Wizards \ {w} : request'[v] = request[v] /\ page'[v] = page[v]
    BY <1>t, <1>3 DEF SaveAnswered, Idle, serverVars
  <2>2. page'[w].result \in {page[w].result,
                             IF Accepted(w) THEN request[w].config.token ELSE None}
    BY <1>t, <1>3 DEF SaveAnswered, Saved, Accepted, Pages
  <2>3. QED  BY <1>g, <2>1, <2>2 DEF Within, Accepted, Settled
<1>4. ASSUME NEW w \in Wizards, Server(w) \/ ApplyFails(w) \/ AnswerLost(w) PROVE Good'
  <2>1. /\ \A v \in Wizards \ {w} : request'[v] = request[v]
        /\ page' = page
    BY <1>t, <1>4 DEF Server, CheckSetup, WriteSetup, ApplySetup, ApplyFails, AnswerLost,
                      clientVars
  <2>2. ASSUME Within(w)
        PROVE  \A v \in Wizards : ~Accepted(v) /\ page[v].result = None
                                  /\ (v # w => ~Within(v))
    BY <1>g, <2>2 DEF Settled
  <2>3. CASE CheckSetup(w) /\ Uninitialized /\ request[w].key
    <3>1. request'[w].at = "checked" /\ UNCHANGED <<file, settings>>
      <4>1. request'[w] = [request[w] EXCEPT !.at = "checked"]
        BY <1>t, <2>3 DEF CheckSetup
      <4>2. [request[w] EXCEPT !.at = "checked"].at = "checked"
        BY <1>t DEF Requests
      <4>3. QED  BY <2>3, <4>1, <4>2 DEF CheckSetup
    <3>2. \A v \in Wizards : ~Within(v)
      BY <1>o, <2>3 DEF CheckSetup
    <3>3. \A v \in Wizards : ~Accepted(v) /\ page[v].result = None
      BY <1>g, <2>3 DEF Uninitialized, Settled
    <3>4. QED  BY <2>1, <3>1, <3>2, <3>3 DEF Within, Accepted
  <2>4. CASE CheckSetup(w) /\ ~(Uninitialized /\ request[w].key)
    <3>1. request'[w].at = "answered" /\ request'[w].code = 403
          /\ UNCHANGED <<file, settings>>
      <4>1. request'[w] = [request[w] EXCEPT !.at = "answered", !.code = 403]
        BY <1>t, <2>4 DEF CheckSetup, Reply
      <4>2. [request[w] EXCEPT !.at = "answered", !.code = 403].at = "answered"
            /\ [request[w] EXCEPT !.at = "answered", !.code = 403].code = 403
        BY <1>t DEF Requests
      <4>3. QED  BY <2>4, <4>1, <4>2 DEF CheckSetup
    <3>2. QED  BY <1>g, <2>1, <3>1 DEF Within, Accepted, Settled
  <2>5. CASE WriteSetup(w)
    <3>1. request'[w].at = "written" /\ request'[w].config = request[w].config
          /\ file' = request[w].config
      <4>1. request'[w] = [request[w] EXCEPT !.at = "written"]
        BY <1>t, <2>5 DEF WriteSetup
      <4>2. [request[w] EXCEPT !.at = "written"].at = "written"
            /\ [request[w] EXCEPT !.at = "written"].config = request[w].config
        BY <1>t DEF Requests
      <4>3. QED  BY <2>5, <4>1, <4>2 DEF WriteSetup
    <3>2. Within(w)
      BY <2>5 DEF WriteSetup, Within
    <3>3. QED  BY <2>1, <2>2, <3>1, <3>2 DEF Within, Accepted
  <2>6. CASE ApplySetup(w)
    <3>1. request'[w].at = "answered" /\ request'[w].config = request[w].config
      <4>1. request'[w] = [request[w] EXCEPT !.at = "answered", !.code = 200]
        BY <1>t, <2>6 DEF ApplySetup, Reply
      <4>2. [request[w] EXCEPT !.at = "answered", !.code = 200].at = "answered"
            /\ [request[w] EXCEPT !.at = "answered", !.code = 200].config
               = request[w].config
        BY <1>t DEF Requests
      <4>3. QED  BY <4>1, <4>2
    <3>2. settings' = file /\ file' = file /\ file = request[w].config
      BY <1>g, <2>6 DEF ApplySetup
    <3>3. request[w].config.initialized = TRUE
      BY <2>6 DEF TokenInv, Submitting, ApplySetup
    <3>4. \A v \in Wizards : ~Within(v)'
      BY <2>1, <2>2, <2>6, <3>1 DEF Within, ApplySetup
    <3>5. Settled(request[w].config.token)'
      BY <3>1, <3>2, <3>3, <3>4 DEF Settled
    <3>6. QED  BY <2>1, <2>2, <2>6, <3>1, <3>4, <3>5 DEF Within, Accepted, ApplySetup
  <2>7. CASE ApplyFails(w)
    <3>1. request'[w].at = "answered" /\ request'[w].code = 500
      <4>1. request'[w] = [request[w] EXCEPT !.at = "answered", !.code = 500]
        BY <1>t, <2>7 DEF ApplyFails, Reply
      <4>2. [request[w] EXCEPT !.at = "answered", !.code = 500].at = "answered"
            /\ [request[w] EXCEPT !.at = "answered", !.code = 500].code = 500
        BY <1>t DEF Requests
      <4>3. QED  BY <4>1, <4>2
    <3>2. Within(w)
      BY <2>7 DEF ApplyFails, Within
    <3>3. QED  BY <2>1, <2>2, <3>1, <3>2 DEF Within, Accepted
  <2>8. CASE AnswerLost(w)
    <3>1. request'[w].at = "answered" /\ request'[w].code = 0
          /\ UNCHANGED <<file, settings>>
      <4>1. request'[w] = [request[w] EXCEPT !.code = 0] /\ request[w].at = "answered"
        BY <1>t, <2>8 DEF AnswerLost
      <4>2. [request[w] EXCEPT !.code = 0].at = request[w].at
            /\ [request[w] EXCEPT !.code = 0].code = 0
        BY <1>t DEF Requests
      <4>3. QED  BY <2>8, <4>1, <4>2 DEF AnswerLost, serverVars
    <3>2. QED  BY <1>g, <2>1, <3>1 DEF Within, Accepted, Settled
  <2>9. QED  BY <1>4, <2>3, <2>4, <2>5, <2>6, <2>7, <2>8 DEF Server
<1>5. CASE Restart
  <2>1. /\ \A v \in Wizards : \/ request'[v] = request[v] /\ ~Within(v)
                              \/ request'[v].at = "answered" /\ request'[v].code = 0
        /\ page' = page /\ file' = file /\ settings' = file
    <3>1. \A v \in Wizards : [request[v] EXCEPT !.at = "answered", !.code = 0].at = "answered"
            /\ [request[v] EXCEPT !.at = "answered", !.code = 0].code = 0
      BY <1>t DEF Requests
    <3>2. QED  BY <1>5, <3>1 DEF Restart, Reply, Within, clientVars
  <2>2. QED  BY <1>g, <2>1 DEF Within, Accepted, Settled
<1>6. ASSUME NEW w \in Wizards, setup_status(w) \/ StatusFails(w) \/ StatusAnswered(w)
      PROVE  Good'
  <2>1. UNCHANGED <<request, file, settings>>
    BY <1>6 DEF setup_status, StatusFails, StatusAnswered, serverVars
  <2>2. page' = page \/ page' = [page EXCEPT ![w] = Shown(@)]
        \/ page' = [page EXCEPT ![w].at = "left"]
    BY <1>6 DEF setup_status, StatusFails, StatusAnswered, clientVars
  <2>3. Shown(page[w]).result = page[w].result
        /\ [page[w] EXCEPT !.at = "left"].result = page[w].result
    BY <1>t DEF Shown, Pages
  <2>4. \A v \in Wizards : page'[v].result = page[v].result
    BY <1>t, <2>2, <2>3
  <2>5. QED  BY <1>1, <2>1, <2>4
<1>7. CASE UNCHANGED <<page, request, file, settings>>
  BY <1>1, <1>7
<1>8. ASSUME NEW w \in Wizards, Form(w) PROVE Good'
  BY <1>2, <1>7, <1>8, FormKinds DEF serverVars
<1>9. UNCHANGED vars => UNCHANGED <<page, request, file, settings>>
  BY DEF vars
<1>10. QED  BY <1>3, <1>4, <1>5, <1>6, <1>7, <1>8, <1>9 DEF Next

\* Whatever is submitted again, refused, cut off or lost on the way: as long as no two
\* submissions are past the check at once, a token that a page shows as the
\* administrator's is on disk and in use, and stays it.
THEOREM TokenWorks == Spec => []ShownTokenWorks
<1>1. Init => TokenInv
  <2> SUFFICES ASSUME Init PROVE TokenInv
    OBVIOUS
  <2>1. Submitting /\ Once
    BY DEF Init, Submitting, Once, Within, Accepted, Idle
  <2>2. QED  BY <2>1, SubmitTypesInit DEF TokenInv
<1>2. TokenInv /\ [Next]_vars => TokenInv'
  BY SubmitTypesStep, SubmittingStep, OnceStep DEF TokenInv
<1>3. TokenInv => ShownTokenWorks
  BY DEF TokenInv, Once, Settled, ShownTokenWorks, ResultView
<1>4. QED  BY <1>1, <1>2, <1>3, PTL DEF Spec

-----------------------------------------------------------------------------
(* The languages.                                                            *)

\* Every table, merged with its extension, has every section.
LEMMA TablesWhole ==
  Codes = Languages /\ \A c \in Codes : en \subseteq DICTS[c]
<1>1. Codes = Languages
  BY DEF Codes, DICTS, BASE_DICTS
<1>2. ASSUME NEW c \in Languages PROVE en \subseteq DICTS[c]
  <2>1. en = {"nav", "home", "about", "privacy", "mailbox"}
             \union {"banner", "admin", "setup", "api"}
    BY DEF en
  <2>2. CASE c = "en"
    BY <2>2 DEF DICTS, BASE_DICTS, deepMerge
  <2>3. CASE c # "en"
    <3>1. BASE_DICTS[c] = {"nav", "home", "about", "privacy", "mailbox"}
      BY <1>2, <2>3 DEF BASE_DICTS, Languages, zhCN, zhTW, ja, ko, es, fr, de, pt, ru, ar,
         hi, it, tr, id, vi
    <3>2. EXTRA_DICTS[c] = {"banner", "admin", "setup", "api"}
      BY <1>2, <2>3 DEF EXTRA_DICTS, Languages, extraZhCN, extraZhTW, extraJa, extraKo,
         extraEs, extraFr, extraDe, extraPt, extraRu, extraAr, extraHi, extraIt, extraTr,
         extraId, extraVi
    <3>3. DICTS[c] = BASE_DICTS[c] \union EXTRA_DICTS[c]
      BY <2>3 DEF DICTS, BASE_DICTS, deepMerge
    <3>4. QED  BY <2>1, <3>1, <3>2, <3>3
  <2>4. QED  BY <2>2, <2>3
<1>3. QED  BY <1>1, <1>2

\* Any preference resolves to a language with a table.
LEMMA Resolved ==
  /\ \A raw : resolveLang(raw) \in Codes
  /\ DEFAULT_LANG \in Codes /\ "" \notin Codes
<1>1. {"zh-TW", "zh-CN", "en"} \subseteq Codes /\ "" \notin Codes
  BY TablesWhole DEF Languages
<1>2. QED  BY <1>1 DEF resolveLang, DEFAULT_LANG

Uis == [lang : Codes, module : Codes, document : Codes, saved : Codes \union {""}]

\* The language of the texts is that of the copies, and the one that is saved, if any.
OneLanguage(u) ==
  u \in Uis /\ u.module = u.lang /\ u.document = u.lang /\ u.saved \in {"", u.lang}

LEMMA UiFields ==
  ASSUME NEW u \in Uis, NEW c \in Codes
  PROVE  /\ [u EXCEPT !.lang = c] \in Uis /\ [u EXCEPT !.lang = c].lang = c
         /\ [u EXCEPT !.lang = c].saved = u.saved
         /\ [u EXCEPT !.module = c, !.document = c] \in Uis
         /\ [u EXCEPT !.module = c, !.document = c].lang = u.lang
         /\ [u EXCEPT !.module = c, !.document = c].module = c
         /\ [u EXCEPT !.module = c, !.document = c].document = c
         /\ [u EXCEPT !.module = c, !.document = c].saved = u.saved
<1>1. /\ [u EXCEPT !.lang = c] \in Uis /\ [u EXCEPT !.lang = c].lang = c
      /\ [u EXCEPT !.lang = c].saved = u.saved
  BY DEF Uis
<1>2. /\ [u EXCEPT !.module = c, !.document = c] \in Uis
      /\ [u EXCEPT !.module = c, !.document = c].lang = u.lang
      /\ [u EXCEPT !.module = c, !.document = c].module = c
      /\ [u EXCEPT !.module = c, !.document = c].document = c
      /\ [u EXCEPT !.module = c, !.document = c].saved = u.saved
  BY DEF Uis
<1>3. QED  BY <1>1, <1>2

\* The effect after a render brings the copies to the language rendered.
LEMMA Rendered ==
  ASSUME NEW u \in Uis, NEW c \in Codes
  PROVE  /\ MirrorEffect(u) \in Uis
         /\ MirrorEffect(u).lang = u.lang /\ MirrorEffect(u).saved = u.saved
         /\ MirrorEffect(u).module = u.lang /\ MirrorEffect(u).document = u.lang
         /\ Render(u, c) \in Uis
         /\ Render(u, c).lang = c /\ Render(u, c).saved = u.saved
         /\ Render(u, c).module = c /\ Render(u, c).document = c
<1>1. ASSUME NEW v \in Uis
      PROVE  /\ MirrorEffect(v) \in Uis
             /\ MirrorEffect(v).lang = v.lang /\ MirrorEffect(v).saved = v.saved
             /\ MirrorEffect(v).module = v.lang /\ MirrorEffect(v).document = v.lang
  <2>1. v.lang \in Codes
    BY DEF Uis
  <2>2. QED  BY <2>1, UiFields DEF MirrorEffect
<1> DEFINE m == [u EXCEPT !.lang = c]
<1>2. m \in Uis /\ m.lang = c /\ m.saved = u.saved
  BY UiFields
<1>3. Render(u, c) = MirrorEffect(m)
  BY DEF Render
<1> HIDE DEF m
<1>4. QED  BY <1>1, <1>2, <1>3

LEMMA Provided == ASSUME NEW raw PROVE OneLanguage(I18nProvider("", raw))
<1> DEFINE d == resolveLang(raw)
           p == Prerendered("")
           q == LayoutEffect(p, d)
           f == MirrorEffect(q)
<1>1. d \in Codes /\ DEFAULT_LANG \in Codes /\ "" \notin Codes
  BY Resolved
<1>2. I18nProvider("", raw) = IF d = DEFAULT_LANG THEN f ELSE Render(f, d)
  BY <1>1 DEF I18nProvider
<1> HIDE DEF d
<1>3. p \in Uis /\ p.lang = DEFAULT_LANG /\ p.saved = ""
  BY <1>1 DEF Prerendered, Uis
<1> HIDE DEF p
<1>4. q \in Uis /\ q.lang = DEFAULT_LANG /\ q.saved = ""
  BY <1>1, <1>3, UiFields DEF LayoutEffect
<1> HIDE DEF q
<1>5. /\ f \in Uis /\ f.lang = DEFAULT_LANG /\ f.saved = ""
      /\ f.module = DEFAULT_LANG /\ f.document = DEFAULT_LANG
  BY <1>1, <1>4, Rendered
<1> HIDE DEF f
<1>6. /\ Render(f, d) \in Uis /\ Render(f, d).lang = d /\ Render(f, d).saved = ""
      /\ Render(f, d).module = d /\ Render(f, d).document = d
  BY <1>1, <1>5, Rendered
<1>7. QED  BY <1>2, <1>5, <1>6 DEF OneLanguage

LEMMA Chosen ==
  ASSUME NEW u \in Uis, NEW c \in Codes
  PROVE  OneLanguage(setLang(u, c))
<1> DEFINE m == [u EXCEPT !.module = c, !.document = c, !.saved = c]
<1>1. m \in Uis /\ m.saved = c
  BY DEF Uis
<1>2. setLang(u, c) = Render(m, c)
  BY DEF setLang
<1> HIDE DEF m
<1>3. /\ Render(m, c) \in Uis /\ Render(m, c).lang = c /\ Render(m, c).saved = m.saved
      /\ Render(m, c).module = c /\ Render(m, c).document = c
  BY <1>1, Rendered
<1>4. OneLanguage(Render(m, c))
  BY <1>1, <1>3 DEF OneLanguage
<1>5. QED  BY <1>2, <1>4

UiInv == ui \in [Wizards -> Uis] /\ \A w \in Wizards : OneLanguage(ui[w])

\* Only the switcher changes the language.
LEMMA UiKinds ==
  ASSUME [Next]_vars
  PROVE  \/ ui' = ui
         \/ \E w \in Wizards, raw \in Locales : LanguageSwitcher(w, raw)
<1>1. ASSUME NEW w \in Wizards, setup_status(w) \/ StatusFails(w) \/ StatusAnswered(w)
      PROVE  ui' = ui
  BY <1>1 DEF setup_status, StatusFails, StatusAnswered, clientVars
<1>2. ASSUME NEW w \in Wizards, Form(w)
      PROVE  ui' = ui \/ \E raw \in Locales : LanguageSwitcher(w, raw)
  <2>1. ASSUME NEW d \in Domains, NEW i \in DOMAIN form[w].domains, updateDomain(w, i, d)
        PROVE  ui' = ui
    BY <2>1 DEF updateDomain, Edit
  <2>2. ASSUME NEW i \in DOMAIN form[w].domains, RemoveDomain(w, i) PROVE ui' = ui
    BY <2>2 DEF RemoveDomain, Edit
  <2>3. CASE AddDomain(w) \/ EditHostname(w, Typed)
    BY <2>3 DEF AddDomain, EditHostname, Edit
  <2>4. ASSUME NEW key \in BOOLEAN, handleSave(w, key) PROVE ui' = ui
    BY <2>4 DEF handleSave
  <2>5. QED  BY <1>2, <2>1, <2>2, <2>3, <2>4 DEF Form
<1>3. ASSUME NEW w \in Wizards, SaveAnswered(w) \/ Server(w) \/ ApplyFails(w) \/ AnswerLost(w)
      PROVE  ui' = ui
  BY <1>3 DEF SaveAnswered, Server, CheckSetup, WriteSetup, ApplySetup, ApplyFails,
     AnswerLost, clientVars
<1>4. CASE Restart \/ UNCHANGED vars
  BY <1>4 DEF Restart, vars, clientVars
<1>5. QED  BY <1>1, <1>2, <1>3, <1>4 DEF Next

LEMMA UiInvInit == Init => UiInv
<1> SUFFICES ASSUME Init PROVE UiInv
  OBVIOUS
<1>1. PICK preferred \in [Wizards -> Locales] :
        ui = [w \in Wizards |-> I18nProvider("", preferred[w])]
  BY DEF Init
<1>2. \A raw : OneLanguage(I18nProvider("", raw))
  BY Provided
<1>3. \A w \in Wizards : OneLanguage(ui[w])
  BY <1>1, <1>2
<1>4. QED  BY <1>1, <1>3 DEF UiInv, OneLanguage

LEMMA UiInvStep == UiInv /\ [Next]_vars => UiInv'
<1> SUFFICES ASSUME UiInv, [Next]_vars PROVE UiInv'
  OBVIOUS
<1>1. CASE ui' = ui
  BY <1>1 DEF UiInv
<1>2. ASSUME NEW w \in Wizards, NEW raw \in Locales, LanguageSwitcher(w, raw) PROVE UiInv'
  <2>1. resolveLang(raw) \in Codes /\ ui[w] \in Uis
    BY Resolved DEF UiInv
  <2>2. OneLanguage(setLang(ui[w], resolveLang(raw)))
    BY <2>1, Chosen
  <2>3. ui' = [ui EXCEPT ![w] = setLang(ui[w], resolveLang(raw))]
    BY <1>2 DEF LanguageSwitcher
  <2> DEFINE n == setLang(ui[w], resolveLang(raw))
  <2> HIDE DEF n
  <2>4. OneLanguage(n) /\ n \in Uis /\ ui' = [ui EXCEPT ![w] = n]
    BY <2>2, <2>3 DEF n, OneLanguage
  <2>5. QED  BY <2>4 DEF UiInv
<1>3. QED  BY <1>1, <1>2, UiKinds

\* Whatever the visitor prefers and switches to, texts, the helpers outside React, the
\* attributes of the document and the saved choice agree on one language, and the table
\* of that language has every section.
THEOREM TextsWhole == Spec => []TextsFound
<1>1. UiInv => TextsFound
  <2> SUFFICES ASSUME UiInv, NEW w \in Wizards, NEW section \in en,
                      NEW code \in {ui[w].lang, ui[w].module, ui[w].document, ui[w].saved} \ {""}
               PROVE  lookup(code, section) = ui[w].lang
    BY DEF TextsFound
  <2>1. OneLanguage(ui[w])
    BY DEF UiInv
  <2>2. code = ui[w].lang /\ code \in Codes
    BY <2>1 DEF OneLanguage, Uis
  <2>3. section \in DICTS[code]
    BY <2>2, TablesWhole
  <2>4. QED  BY <2>2, <2>3 DEF lookup
<1>2. QED  BY <1>1, UiInvInit, UiInvStep, PTL DEF Spec

-----------------------------------------------------------------------------
(* The types.                                                                *)

\* The form keeps a row; every request for the status was asked for at the start, twice
\* at most, or by a switch of the language, and is in one place.
Rowed == \A w \in Wizards : Len(form[w].domains) \in 1..MaxRows

Counts == [asked : Nat, fresh : Nat, done : Nat]
Checked ==
  /\ checks \in [Wizards -> Counts]
  /\ \A w \in Wizards : checks[w].asked + checks[w].fresh + checks[w].done <= 2 + acts

Bounded == overlap \in BOOLEAN /\ acts \in 0..MaxActs /\ faults \in 0..MaxFaults

Counted == Rowed /\ Checked /\ Bounded

LEMMA CountedInit == Init => Counted
<1> SUFFICES ASSUME Init PROVE Counted
  OBVIOUS
<1>1. Rowed
  <2>1. Len(<<"">>) = 1 /\ 1 \in 1..MaxRows
    BY WizardAssumption
  <2>2. QED  BY <2>1 DEF Init, Rowed
<1>2. PICK preferred \in [Wizards -> Locales] :
        checks = [w \in Wizards |->
          [asked |-> IF resolveLang(preferred[w]) = DEFAULT_LANG THEN 1 ELSE 2,
           fresh |-> 0, done |-> 0]]
  BY DEF Init
<1>3. checks \in [Wizards -> Counts]
  BY <1>2 DEF Counts
<1>4. acts = 0 /\ faults = 0 /\ overlap = FALSE
  BY DEF Init
<1>5. \A w \in Wizards : checks[w].asked + checks[w].fresh + checks[w].done <= 2 + acts
  <2>1. ASSUME NEW w \in Wizards
        PROVE  checks[w].asked \in {1, 2} /\ checks[w].fresh = 0 /\ checks[w].done = 0
    BY <1>2
  <2>2. QED  BY <1>4, <2>1
<1>6. Bounded
  <2>1. 0 \in 0..MaxActs /\ 0 \in 0..MaxFaults
    BY WizardAssumption
  <2>2. QED  BY <1>4, <2>1 DEF Bounded
<1>7. QED  BY <1>1, <1>3, <1>5, <1>6 DEF Counted, Checked

LEMMA RemovedLength ==
  ASSUME NEW S, NEW q \in Seq(S), NEW i \in DOMAIN q
  PROVE  Len(RemoveAt(q, i)) = Len(q) - 1
<1>1. i \in 1..Len(q) /\ Len(q) \in Nat
  OBVIOUS
<1> DEFINE s == SubSeq(q, 1, i - 1)
           t == SubSeq(q, i + 1, Len(q))
<1>2. s \in Seq(S) /\ Len(s) = i - 1
  BY <1>1
<1>3. t \in Seq(S) /\ Len(t) = Len(q) - i
  BY <1>1
<1>4. RemoveAt(q, i) = s \o t
  BY DEF RemoveAt
<1> HIDE DEF s, t
<1>5. Len(s \o t) = Len(s) + Len(t)
  BY <1>2, <1>3, ConcatProperties, Zenon
<1>6. QED  BY <1>1, <1>2, <1>3, <1>4, <1>5

LEMMA AppendedLength ==
  ASSUME NEW S, NEW q \in Seq(S), NEW e \in S
  PROVE  Len(Append(q, e)) = Len(q) + 1
OBVIOUS

LEMMA RowsStay ==
  ASSUME SubmitTypes, Counted, NEW w \in Wizards, Form(w)
  PROVE  Rowed'
<1>1. /\ form \in [Wizards -> Forms] /\ form[w].domains \in Seq(Rows)
      /\ Len(form[w].domains) \in 1..MaxRows /\ MaxRows \in Nat
  BY WizardAssumption DEF SubmitTypes, Forms, Counted, Rowed
<1>2. CASE form' = form
  BY <1>2 DEF Counted, Rowed
<1>3. ASSUME NEW f, form' = [form EXCEPT ![w] = f], Len(f.domains) \in 1..MaxRows
      PROVE  Rowed'
  BY <1>1, <1>3 DEF Counted, Rowed
<1>4. ASSUME NEW d \in Domains, NEW i \in DOMAIN form[w].domains, updateDomain(w, i, d)
      PROVE  Rowed'
  <2> DEFINE f == [form[w] EXCEPT !.domains[i] = d,
                                  !.hostname = IF i = 1 /\ ~form[w].touched THEN d ELSE @]
  <2>1. f.domains = [form[w].domains EXCEPT ![i] = d]
    BY <1>1 DEF Forms
  <2>2. Len([form[w].domains EXCEPT ![i] = d]) = Len(form[w].domains)
    BY <1>1
  <2>3. form' = [form EXCEPT ![w] = f]
    BY <1>4 DEF updateDomain, Edit
  <2> HIDE DEF f
  <2>4. QED  BY <1>1, <1>3, <2>1, <2>2, <2>3
<1>5. ASSUME NEW i \in DOMAIN form[w].domains, RemoveDomain(w, i)
      PROVE  Rowed'
  <2> DEFINE f == [form[w] EXCEPT !.domains = RemoveAt(form[w].domains, i)]
  <2>1. f.domains = RemoveAt(form[w].domains, i)
    BY <1>1 DEF Forms
  <2>2. Len(RemoveAt(form[w].domains, i)) = Len(form[w].domains) - 1
    BY <1>1, RemovedLength
  <2>3. form' = [form EXCEPT ![w] = f] /\ Len(form[w].domains) > 1
    BY <1>5 DEF RemoveDomain, Edit
  <2> HIDE DEF f
  <2>4. Len(f.domains) \in 1..MaxRows
    BY <1>1, <2>1, <2>2, <2>3
  <2>5. QED  BY <1>3, <2>3, <2>4
<1>6. CASE AddDomain(w)
  <2> DEFINE f == [form[w] EXCEPT !.domains = Append(form[w].domains, "")]
  <2>1. f.domains = Append(form[w].domains, "")
    BY <1>1 DEF Forms
  <2>2. "" \in Rows
    BY DEF Rows
  <2>3. form' = [form EXCEPT ![w] = f] /\ Len(form[w].domains) < MaxRows
    BY <1>6 DEF AddDomain, Edit
  <2> HIDE DEF f
  <2>4. Len(f.domains) = Len(form[w].domains) + 1
    <3>1. form[w].domains \in Seq(Rows)
      BY <1>1
    <3>2. Len(Append(form[w].domains, "")) = Len(form[w].domains) + 1
      BY <2>2, <3>1, AppendedLength, Zenon
    <3>3. QED  BY <2>1, <3>2, Zenon
  <2>5. Len(f.domains) \in 1..MaxRows
    BY <1>1, <2>3, <2>4
  <2>6. QED  BY <1>3, <2>3, <2>5
<1>7. CASE EditHostname(w, Typed)
  <2> DEFINE f == [form[w] EXCEPT !.hostname = Typed, !.touched = TRUE]
  <2>1. f.domains = form[w].domains
    BY <1>1 DEF Forms
  <2>2. form' = [form EXCEPT ![w] = f]
    BY <1>7 DEF EditHostname, Edit
  <2> HIDE DEF f
  <2>3. QED  BY <1>1, <1>3, <2>1, <2>2
<1>8. ASSUME NEW raw \in Locales, LanguageSwitcher(w, raw) PROVE form' = form
  BY <1>8 DEF LanguageSwitcher
<1>9. ASSUME NEW key \in BOOLEAN, handleSave(w, key) PROVE form' = form
  BY <1>9 DEF handleSave
<1>10. QED  BY <1>2, <1>4, <1>5, <1>6, <1>7, <1>8, <1>9 DEF Form

\* The requests of one page move, those of the others stay.
LEMMA ChecksMove ==
  ASSUME Checked, acts \in Nat, acts' \in Nat, acts <= acts', NEW w \in Wizards, NEW c \in Counts,
         checks' = [checks EXCEPT ![w] = c], c.asked + c.fresh + c.done <= 2 + acts'
  PROVE  Checked'
<1>1. checks \in [Wizards -> Counts]
      /\ \A v \in Wizards : checks[v].asked + checks[v].fresh + checks[v].done <= 2 + acts
  BY DEF Checked
<1>2. checks' \in [Wizards -> Counts]
  BY <1>1
<1>3. ASSUME NEW v \in Wizards
      PROVE  checks'[v].asked + checks'[v].fresh + checks'[v].done <= 2 + acts'
  <2>1. CASE v = w
    BY <1>1, <2>1
  <2>2. CASE v # w
    <3>1. checks'[v] = checks[v] /\ checks[v] \in Counts
      BY <1>1, <2>2
    <3>2. checks[v].asked \in Nat /\ checks[v].fresh \in Nat /\ checks[v].done \in Nat
      BY <3>1 DEF Counts
    <3>3. checks[v].asked + checks[v].fresh + checks[v].done <= 2 + acts
      BY <1>1
    <3>4. QED  BY <3>1, <3>2, <3>3
  <2>3. QED  BY <2>1, <2>2
<1>4. QED  BY <1>2, <1>3 DEF Checked

LEMMA CountedStep == SubmitTypes /\ Counted /\ [Next]_vars => Counted'
<1> SUFFICES ASSUME SubmitTypes, Counted, [Next]_vars PROVE Counted'
  OBVIOUS
<1>1. /\ Rowed /\ Checked /\ Bounded
      /\ MaxActs \in Nat /\ MaxFaults \in Nat /\ acts \in 0..MaxActs /\ acts \in Nat
  BY WizardAssumption DEF Counted, Bounded
<1>2. ASSUME NEW w \in Wizards
      PROVE  /\ checks[w] \in Counts
             /\ checks[w].asked \in Nat /\ checks[w].fresh \in Nat /\ checks[w].done \in Nat
             /\ checks[w].asked + checks[w].fresh + checks[w].done <= 2 + acts
  BY <1>1 DEF Checked, Counts
<1>3. ASSUME UNCHANGED <<checks, acts>> PROVE Checked'
  BY <1>1, <1>3 DEF Checked
<1>4. ASSUME UNCHANGED form PROVE Rowed'
  BY <1>1, <1>4 DEF Rowed
<1>5. ASSUME Rowed', Checked', Bounded' PROVE Counted'
  BY <1>5 DEF Counted
<1>6. ASSUME NEW w \in Wizards, NEW c \in Counts, checks' = [checks EXCEPT ![w] = c],
             c.asked + c.fresh + c.done <= 2 + acts, acts' = acts
      PROVE  Checked'
  <2>1. acts' \in Nat /\ acts <= acts' /\ c.asked + c.fresh + c.done <= 2 + acts'
    BY <1>1, <1>6
  <2>2. QED  BY <1>1, <1>6, <2>1, ChecksMove
<1>7. ASSUME NEW w \in Wizards, setup_status(w) PROVE Counted'
  <2>1. PICK r \in Counts : r = checks[w]
    BY <1>2
  <2> DEFINE f == IF settings.initialized THEN r.fresh ELSE r.fresh + 1
             d == IF settings.initialized THEN r.done + 1 ELSE r.done
             c1 == [r EXCEPT !.asked = r.asked - 1]
             c2 == [c1 EXCEPT !.fresh = f]
             c == [c2 EXCEPT !.done = d]
  <2>2. checks' = [checks EXCEPT ![w] = c] /\ acts' = acts
    BY <1>1, <1>7, <2>1 DEF setup_status, Checked
  <2>3. f \in Nat /\ d \in Nat /\ f + d <= r.fresh + r.done + 1
    BY <2>1 DEF Counts
  <2> HIDE DEF f, d
  <2>4. /\ c1 \in Counts /\ c1.asked = r.asked - 1
    BY <1>7, <2>1 DEF setup_status, Counts
  <2> HIDE DEF c1
  <2>5. c2 \in Counts /\ c2.asked = r.asked - 1 /\ c2.fresh = f
    BY <2>3, <2>4 DEF Counts
  <2> HIDE DEF c2
  <2>6. c \in Counts /\ c.asked = r.asked - 1 /\ c.fresh = f /\ c.done = d
    BY <2>3, <2>5 DEF Counts
  <2> HIDE DEF c
  <2>7. c.asked + c.fresh + c.done <= 2 + acts
    BY <1>1, <1>2, <2>1, <2>3, <2>6
  <2>8. Checked'
    BY <1>6, <2>2, <2>6, <2>7
  <2>9. Rowed'
    BY <1>4, <1>7 DEF setup_status, clientVars
  <2>10. Bounded'
    BY <1>1, <1>7 DEF setup_status, serverVars, Bounded
  <2>11. QED  BY <1>5, <2>8, <2>9, <2>10
<1>8. ASSUME NEW w \in Wizards, StatusFails(w) PROVE Counted'
  <2>1. PICK r \in Counts : r = checks[w]
    BY <1>2
  <2> DEFINE c == [r EXCEPT !.asked = r.asked - 1]
  <2>2. c \in Counts /\ c.asked + c.fresh + c.done <= 2 + acts
    BY <1>1, <1>2, <1>8, <2>1 DEF StatusFails, Counts
  <2>3. checks' = [checks EXCEPT ![w] = c] /\ acts' = acts
    BY <1>8, <2>1 DEF StatusFails
  <2> HIDE DEF c
  <2>4. Checked'
    BY <1>6, <2>2, <2>3
  <2>5. Rowed'
    BY <1>4, <1>8 DEF StatusFails
  <2>6. Bounded'
    BY <1>1, <1>8 DEF StatusFails, serverVars, Bounded
  <2>7. QED  BY <1>5, <2>4, <2>5, <2>6
<1>9. ASSUME NEW w \in Wizards, StatusAnswered(w) PROVE Counted'
  <2>1. Rowed' /\ Bounded' /\ acts' = acts
    BY <1>1, <1>4, <1>9 DEF StatusAnswered, serverVars, Bounded
  <2>2. PICK r \in Counts : r = checks[w]
    BY <1>2
  <2>3. CASE checks[w].fresh > 0 /\ checks' = [checks EXCEPT ![w].fresh = @ - 1]
    <3> DEFINE c == [r EXCEPT !.fresh = r.fresh - 1]
    <3>1. c \in Counts /\ c.asked + c.fresh + c.done <= 2 + acts
      BY <1>1, <1>2, <2>2, <2>3 DEF Counts
    <3>2. checks' = [checks EXCEPT ![w] = c]
      BY <2>2, <2>3
    <3> HIDE DEF c
    <3>3. Checked'
      BY <1>6, <2>1, <3>1, <3>2
    <3>4. QED  BY <1>5, <2>1, <3>3
  <2>4. CASE checks[w].done > 0 /\ checks' = [checks EXCEPT ![w].done = @ - 1]
    <3> DEFINE c == [r EXCEPT !.done = r.done - 1]
    <3>1. c \in Counts /\ c.asked + c.fresh + c.done <= 2 + acts
      BY <1>1, <1>2, <2>2, <2>4 DEF Counts
    <3>2. checks' = [checks EXCEPT ![w] = c]
      BY <2>2, <2>4
    <3> HIDE DEF c
    <3>3. Checked'
      BY <1>6, <2>1, <3>1, <3>2
    <3>4. QED  BY <1>5, <2>1, <3>3
  <2>5. QED  BY <1>9, <2>3, <2>4 DEF StatusAnswered
<1>10. ASSUME NEW w \in Wizards, NEW raw \in Locales, LanguageSwitcher(w, raw) PROVE Counted'
  <2>1. PICK r \in Counts : r = checks[w]
    BY <1>2
  <2> DEFINE a == IF ui'[w].lang = ui[w].lang THEN r.asked ELSE r.asked + 1
             c == [r EXCEPT !.asked = a]
  <2>2. acts' = acts + 1 /\ acts < MaxActs
    BY <1>10 DEF LanguageSwitcher, Act
  <2>3. checks' = [checks EXCEPT ![w] = c]
    BY <1>10, <2>1 DEF LanguageSwitcher
  <2>4. a \in Nat /\ a <= r.asked + 1
    BY <2>1 DEF Counts
  <2> HIDE DEF a
  <2>5. c \in Counts /\ c.asked + c.fresh + c.done <= 2 + acts'
    BY <1>1, <1>2, <2>1, <2>2, <2>4 DEF Counts
  <2>6. acts' \in Nat /\ acts <= acts'
    BY <1>1, <2>2
  <2> HIDE DEF c
  <2>7. Checked'
    BY <1>1, <2>3, <2>5, <2>6, ChecksMove
  <2>8. Rowed' /\ Bounded'
    BY <1>1, <1>4, <1>10, <2>2 DEF LanguageSwitcher, serverVars, Bounded
  <2>9. QED  BY <1>5, <2>7, <2>8
<1>11. ASSUME NEW w \in Wizards, Form(w) PROVE Counted'
  <2>1. Rowed'
    BY <1>11, RowsStay
  <2>2. ASSUME NEW g, Edit(w, g) PROVE Counted'
    <3>1. acts' = acts + 1 /\ acts < MaxActs /\ UNCHANGED <<checks, overlap, faults>>
      BY <2>2 DEF Edit, Act, serverVars
    <3>2. ASSUME NEW v \in Wizards
          PROVE  checks[v].asked + checks[v].fresh + checks[v].done <= 2 + acts'
      BY <1>1, <1>2, <3>1
    <3>3. Checked'
      BY <1>1, <3>1, <3>2 DEF Checked
    <3>4. Bounded'
      BY <1>1, <3>1 DEF Bounded
    <3>5. QED  BY <1>5, <2>1, <3>3, <3>4
  <2>3. ASSUME NEW key \in BOOLEAN, handleSave(w, key) PROVE Counted'
    BY <1>1, <1>3, <1>5, <2>1, <2>3 DEF handleSave, serverVars, Bounded
  <2>4. \/ \E g : Edit(w, g)
        \/ \E raw \in Locales : LanguageSwitcher(w, raw)
        \/ \E key \in BOOLEAN : handleSave(w, key)
    BY <1>11 DEF Form, updateDomain, RemoveDomain, AddDomain, EditHostname
  <2>5. QED  BY <1>10, <2>2, <2>3, <2>4
<1>12. ASSUME NEW w \in Wizards, SaveAnswered(w) \/ Server(w) PROVE Counted'
  <2>1. UNCHANGED <<form, checks, acts, faults>>
    BY <1>12 DEF SaveAnswered, Server, CheckSetup, WriteSetup, ApplySetup, clientVars
  <2>2. overlap' \in BOOLEAN
    BY <1>1, <1>12
    DEF SaveAnswered, Server, CheckSetup, WriteSetup, ApplySetup, serverVars, Bounded
  <2>3. QED  BY <1>1, <1>3, <1>4, <1>5, <2>1, <2>2 DEF Bounded
<1>13. ASSUME \/ Restart \/ \E w \in Wizards : ApplyFails(w) \/ AnswerLost(w) PROVE Counted'
  <2>1. UNCHANGED <<form, checks, acts, overlap>> /\ faults < MaxFaults /\ faults' = faults + 1
    BY <1>13 DEF Restart, ApplyFails, AnswerLost, Fault, clientVars, serverVars
  <2>2. QED  BY <1>1, <1>3, <1>4, <1>5, <2>1 DEF Bounded
<1>14. CASE UNCHANGED vars
  BY <1>1, <1>3, <1>4, <1>5, <1>14 DEF vars, Bounded
<1>15. QED  BY <1>7, <1>8, <1>9, <1>11, <1>12, <1>13, <1>14 DEF Next

\* Pages, requests and files of the wizard stay within their types: the form always keeps
\* a row, and no switch of the language or answer that comes late leaves more requests
\* for the status under way than were asked for.
THEOREM WizardTypes == Spec => []TypeOK
<1>1. SubmitTypes /\ UiInv /\ Counted => TypeOK
  <2> SUFFICES ASSUME SubmitTypes, UiInv, Counted PROVE TypeOK
    OBVIOUS
  <2>1. ASSUME NEW w \in Wizards
        PROVE  /\ {ui[w].lang, ui[w].module, ui[w].document} \subseteq Codes
               /\ ToSet(form[w].domains) \subseteq Rows
               /\ Len(form[w].domains) \in 1..MaxRows
               /\ form[w].hostname \in Rows \union {Typed} /\ form[w].touched \in BOOLEAN
               /\ page[w].at \in {"loading", "form", "left"}
               /\ page[w].saving \in BOOLEAN /\ page[w].result \in Tokens \union {None}
               /\ page[w].tries \in 0..MaxTries
               /\ checks[w] \in [asked : 0..(2 + MaxActs), fresh : 0..(2 + MaxActs),
                                 done : 0..(2 + MaxActs)]
               /\ request[w].at \in {"none", "sent", "checked", "written", "answered"}
               /\ request[w].code \in {0, 200, 403, 500} /\ request[w].key \in BOOLEAN
               /\ request[w].config \in Config
    <3>1. {ui[w].lang, ui[w].module, ui[w].document} \subseteq Codes
      BY DEF UiInv, Uis
    <3>2. form[w] \in Forms /\ page[w] \in Pages /\ request[w] \in Requests
      BY DEF SubmitTypes
    <3>3. form[w].domains \in Seq(Rows) /\ form[w].hostname \in Rows \union {Typed}
          /\ form[w].touched \in BOOLEAN
      BY <3>2 DEF Forms
    <3>4. ToSet(form[w].domains) \subseteq Rows
      BY <3>3 DEF ToSet
    <3>5. checks[w] \in [asked : 0..(2 + MaxActs), fresh : 0..(2 + MaxActs),
                         done : 0..(2 + MaxActs)]
      <4>1. /\ checks[w] \in [asked : Nat, fresh : Nat, done : Nat]
            /\ checks[w].asked + checks[w].fresh + checks[w].done <= 2 + acts
            /\ acts \in 0..MaxActs /\ MaxActs \in Nat
        BY WizardAssumption DEF Counted, Checked, Counts, Bounded
      <4>2. /\ checks[w].asked \in 0..(2 + MaxActs) /\ checks[w].fresh \in 0..(2 + MaxActs)
            /\ checks[w].done \in 0..(2 + MaxActs)
        <5>1. checks[w].asked \in Nat /\ checks[w].fresh \in Nat /\ checks[w].done \in Nat
          BY <4>1
        <5>2. QED  BY <4>1, <5>1
      <4>3. QED  BY <4>1, <4>2
    <3>6. Len(form[w].domains) \in 1..MaxRows
      BY DEF Counted, Rowed
    <3>7. /\ page[w].at \in {"loading", "form", "left"}
          /\ page[w].saving \in BOOLEAN /\ page[w].result \in Tokens \union {None}
          /\ page[w].tries \in 0..MaxTries
      BY <3>2 DEF Pages
    <3>8. /\ request[w].at \in {"none", "sent", "checked", "written", "answered"}
          /\ request[w].code \in {0, 200, 403, 500} /\ request[w].key \in BOOLEAN
          /\ request[w].config \in Config
      BY <3>2 DEF Requests
    <3>9. QED  BY <3>1, <3>3, <3>4, <3>5, <3>6, <3>7, <3>8
  <2>2. /\ {file, settings} \subseteq Config /\ overlap \in BOOLEAN
        /\ acts \in 0..MaxActs /\ faults \in 0..MaxFaults
    BY DEF SubmitTypes, Counted, Bounded
  <2>3. QED  BY <2>1, <2>2 DEF TypeOK
<1>2. QED
  BY <1>1, SubmitTypesInit, SubmitTypesStep, UiInvInit, UiInvStep, CountedInit, CountedStep,
     PTL DEF Spec
=============================================================================
