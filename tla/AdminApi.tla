------------------------------- MODULE AdminApi ------------------------------
(***************************************************************************)
(* The requests of the admin panel (web/lib/admin-api.ts) and the server as  *)
(* the panel sees it.  Every request carries the token stored when it is     *)
(* sent; an answer 401 removes whatever token is stored when it comes.  The   *)
(* handlers await, overlap and outlive the page that started them.           *)
(*                                                                           *)
(* The server is external here but for what is asked and answered.            *)
(***************************************************************************)
EXTENDS Naturals, Sequences, SequencesExt

CONSTANTS
  Tokens,         \* what may be typed as token
  NoToken,        \* none stored, none typed: the empty string counts as none
  Domains,
  MaxPages,       \* bound: pages of a list
  MaxPolls,       \* looks at a certificate job (36 in the code)
  MaxCalls,       \* bound: calls in flight when the user acts
  MaxFaults,      \* bound: calls refused, failed or lost
  MaxEdits        \* bound: what other administrators do

ASSUME AdminApiAssumption ==
  /\ NoToken \notin Tokens
  /\ Tokens # {} /\ Domains # {}     \* those of the server are among them
  /\ IsFiniteSet(Domains)            \* no name is longer than 253 characters
  /\ {MaxPages, MaxPolls, MaxCalls, MaxFaults, MaxEdits} \subseteq Nat
  /\ MaxPages > 0

VARIABLES
  token,          \* localStorage "tempmail_admin_token"
  calls,          \* the calls in flight
  server,         \* what the server keeps
  busy,           \* the spinners of the page shown
  faults, edits

apiVars == <<token, calls, server, busy, faults, edits>>

Spinners == {"login", "list", "detail", "create", "add", "check", "run", "key", "tls",
             "save"}

\* config.yaml as far as the form tells it apart: a flag that is on when it is
\* absent (allow_ip_access), a number, and whether the panel has a hostname.
Config == [toggle : {"absent", "on", "off"}, number : 1..2, host : BOOLEAN]

Patch == [toggle : {"none", "on", "off"}, number : 1..2, host : {"none", "set", "clear"},
          token : Tokens \union {NoToken}]

\* job: the certificate job; key: how many API keys there have been, mine: the last
\* one was made for a page that still waited for it.
Server == [initialized : BOOLEAN, token : Tokens, domains : SUBSET Domains,
           config : Config, job : BOOLEAN, key : Nat, mine : BOOLEAN]

AnyConfig == [toggle |-> "absent", number |-> 1, host |-> FALSE]
AnyPatch == [toggle |-> "none", number |-> 1, host |-> "none", token |-> NoToken]

\* `do` is the request, `at` the page that sent it; `live` is lost when that page is
\* left.  `ends` are the spinners its `finally` puts out.  The rest is what is asked
\* or answered; `seen` and `touched` are history: the form a save was made from.
NoCall == [do |-> "stats", at |-> "login", live |-> TRUE, token |-> NoToken, code |-> 0,
           ends |-> {}, page |-> 1, search |-> FALSE, more |-> FALSE, alone |-> TRUE,
           names |-> {}, flag |-> FALSE, count |-> 0, config |-> AnyConfig,
           patch |-> AnyPatch, seen |-> AnyConfig, touched |-> {}]

Pages == {"login", "dashboard", "emails", "addresses", "mailboxes", "domains", "config",
          "cleanup"}

Requests == {"gate", "login", "stats", "list", "view", "delete", "purge", "retention",
             "create", "names", "domains", "first", "add", "remove", "check", "run",
             "config", "tls", "key", "regenerate", "issue", "poll", "save"}

Call == [do : Requests, at : Pages, live : BOOLEAN, token : Tokens \union {NoToken},
         code : {0, 200, 400, 401, 500}, ends : SUBSET Spinners, page : 1..MaxPages,
         search : BOOLEAN, more : BOOLEAN, alone : BOOLEAN, names : SUBSET Domains,
         flag : BOOLEAN, count : Nat, config : Config, patch : Patch, seen : Config,
         touched : SUBSET {"toggle", "number", "host"}]

AdminApiTypeOK ==
  /\ token \in Tokens \union {NoToken}
  /\ \A i \in DOMAIN calls : calls[i] \in Call
  /\ server \in Server
  /\ busy \subseteq Spinners
  /\ faults \in 0..MaxFaults /\ edits \in 0..MaxEdits

-----------------------------------------------------------------------------
(* The client.                                                               *)

\* request(): the token is read when the call is sent.
request(p, do, ends) == [NoCall EXCEPT !.do = do, !.at = p, !.token = token, !.ends = ends]

\* The calls `cs` are sent and the spinners `on` lit.
Send(cs, on) == calls' = calls \o cs /\ busy' = busy \union on

\* The setup status is answered to anybody, and does not change while the panel is used.
setup_status(p) ==
  [NoCall EXCEPT !.do = "gate", !.at = p, !.code = 200, !.flag = server.initialized]

Heard(i, do) == calls[i].do = do /\ calls[i].code # 0
Ok(i) == calls[i].code = 200

\* The handler goes on with the calls `cs`, which put out what it did not yet.
GoesOn(i, cs) ==
  calls' = RemoveAt(calls, i)
           \o [n \in DOMAIN cs |-> [cs[n] EXCEPT !.at = calls[i].at, !.live = calls[i].live]]

\* The spinners of this call go out, but those that wait for another.
Off(i, kept) == busy' = IF calls[i].live THEN busy \ (calls[i].ends \ kept) ELSE busy

\* 401: the token is removed from the storage, whichever it is by now.
Unauthorized(i) == token' = IF calls[i].code = 401 THEN NoToken ELSE token

-----------------------------------------------------------------------------
(* The server.                                                               *)

Answer(i, r) == calls' = [calls EXCEPT ![i] = r] /\ UNCHANGED <<token, busy>>
Code(i, code) == [calls[i] EXCEPT !.code = code]

require_admin(i) ==
  /\ calls[i].token # server.token
  /\ Answer(i, Code(i, 401))
  /\ UNCHANGED server

Admitted(i, do) == calls[i].do = do /\ calls[i].token = server.token

\* Nothing the panel's state depends on.
Plain(i) ==
  /\ calls[i].do \in {"login", "stats", "view", "delete", "purge", "retention", "create",
                      "check", "run", "key"}
  /\ Admitted(i, calls[i].do)
  /\ Answer(i, Code(i, 200))
  /\ UNCHANGED server

List(i) ==
  /\ Admitted(i, "list")
  /\ \E more \in BOOLEAN :
       /\ more => calls[i].page < MaxPages
       /\ Answer(i, [Code(i, 200) EXCEPT !.more = more])
  /\ UNCHANGED server

list_domains(i) ==
  /\ \E do \in {"names", "domains", "first"} : Admitted(i, do)
  /\ Answer(i, [Code(i, 200) EXCEPT !.names = server.domains])
  /\ UNCHANGED server

\* The answer has the check of the new domain, unless that failed.
add_domain(i) ==
  /\ Admitted(i, "add")
  /\ IF calls[i].names \subseteq server.domains
     THEN Answer(i, Code(i, 400)) /\ UNCHANGED server
     ELSE /\ \E check \in BOOLEAN : Answer(i, [Code(i, 200) EXCEPT !.flag = check])
          /\ server' = [server EXCEPT !.domains = @ \union calls[i].names]

remove_domain(i) ==
  /\ Admitted(i, "remove")
  /\ IF server.domains \subseteq calls[i].names \/ ~(calls[i].names \subseteq server.domains)
     THEN Answer(i, Code(i, 400)) /\ UNCHANGED server
     ELSE /\ Answer(i, Code(i, 200))
          /\ server' = [server EXCEPT !.domains = @ \ calls[i].names]

get_config(i) ==
  /\ Admitted(i, "config")
  /\ Answer(i, [Code(i, 200) EXCEPT !.config = server.config])
  /\ UNCHANGED server

Patched(c, p) ==
  [toggle |-> IF p.toggle = "none" THEN c.toggle ELSE p.toggle,
   number |-> p.number,
   host |-> IF p.host = "none" THEN c.host ELSE p.host = "set"]

\* "web.allow_ip_access cannot be off without web.hostname"
Refused(c) == c.toggle = "off" /\ ~c.host

update_config(i) ==
  LET new == Patched(server.config, calls[i].patch) IN
  /\ Admitted(i, "save")
  /\ IF Refused(new) THEN Answer(i, Code(i, 400)) /\ UNCHANGED server
     ELSE /\ Answer(i, Code(i, 200))
          /\ server' = [server EXCEPT !.config = new,
                          !.token = IF calls[i].patch.token = NoToken THEN @
                                    ELSE calls[i].patch.token]

\* `key` of the answer is the key itself.
regenerate_api_key(i) ==
  /\ Admitted(i, "regenerate")
  /\ server' = [server EXCEPT !.key = @ + 1, !.mine = calls[i].live]
  /\ Answer(i, [Code(i, 200) EXCEPT !.count = server.key + 1])

tls_status(i) ==
  /\ Admitted(i, "tls") \/ Admitted(i, "poll")
  /\ Answer(i, [Code(i, 200) EXCEPT !.flag = server.job])
  /\ UNCHANGED server

tls_issue(i) ==
  /\ Admitted(i, "issue")
  /\ Answer(i, Code(i, IF server.job THEN 400 ELSE 200))
  /\ server' = [server EXCEPT !.job = TRUE]

Serve(i) ==
  /\ calls[i].code = 0
  /\ \/ require_admin(i) \/ Plain(i) \/ List(i) \/ list_domains(i)
     \/ add_domain(i) \/ remove_domain(i) \/ get_config(i) \/ update_config(i)
     \/ regenerate_api_key(i) \/ tls_status(i) \/ tls_issue(i)
  /\ UNCHANGED <<faults, edits>>

Writes == {"gate", "add", "remove", "save", "regenerate", "issue"}

\* The call is refused (404, 409, 429, 5xx), or its answer is lost, which differs where
\* the server has done something by then: 500 stands for every status no handler tells
\* apart, and for none.
Fail(i) ==
  /\ faults < MaxFaults
  /\ \/ calls[i].code = 0
     \/ calls[i].code = 200 /\ calls[i].do \in Writes
  /\ Answer(i, Code(i, 500))
  /\ faults' = faults + 1
  /\ UNCHANGED <<server, edits>>

\* The sidecar has done the certificate job.
Certified ==
  /\ server.job
  /\ server' = [server EXCEPT !.job = FALSE]
  /\ UNCHANGED <<token, calls, busy, faults, edits>>

\* Another administrator saves a configuration, or makes a new key.
Elsewhere ==
  /\ edits < MaxEdits
  /\ edits' = edits + 1
  /\ \/ server' = [server EXCEPT !.config.number = 3 - @]
     \/ \E to \in {"on", "off"} :
          LET c == [server.config EXCEPT !.toggle = to] IN
          c # server.config /\ ~Refused(c) /\ server' = [server EXCEPT !.config = c]
     \/ server' = [server EXCEPT !.key = @ + 1, !.mine = FALSE]
  /\ UNCHANGED <<token, calls, busy, faults>>
=============================================================================
