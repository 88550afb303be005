----------------------------- MODULE AdminConfig -----------------------------
(***************************************************************************)
(* The configuration page (web/app/admin/config/page.tsx): the form made from *)
(* the configuration loaded, the patch made from the two, the key of the      *)
(* integration API and the certificate job.                                   *)
(***************************************************************************)
EXTENDS AdminApi

VARIABLE conf     \* the state hooks of the page

\* The configuration loaded, if any; what is in the form, 0 being no valid number;
\* the key and the state of the certificate job shown.  `touched` is history.
ConfBlank == [loaded |-> FALSE, config |-> AnyConfig, toggle |-> FALSE, number |-> 1,
              host |-> FALSE, touched |-> {}, key |-> 0, pending |-> FALSE]

ConfTypeOK ==
  conf \in [loaded : BOOLEAN, config : Config, toggle : BOOLEAN, number : 0..2,
            host : BOOLEAN, touched : SUBSET {"toggle", "number", "host"}, key : Nat,
            pending : BOOLEAN]

FirstConfig == <<request("config", "config", {}), request("config", "tls", {}),
                 request("config", "key", {})>>

\* fetchConfig(): a flag is checked when it is there and true.
Loaded(v, c) ==
  [v EXCEPT !.loaded = TRUE, !.config = c, !.toggle = c.toggle = "on",
            !.number = c.number, !.host = c.host, !.touched = {}]

-----------------------------------------------------------------------------
(* The form.                                                                 *)

setField ==
  /\ \/ conf' = [conf EXCEPT !.toggle = ~@, !.touched = @ \union {"toggle"}]
     \/ conf' = [conf EXCEPT !.host = ~@, !.touched = @ \union {"host"}]
     \/ \E n \in (0..2) \ {conf.number} : conf' = [conf EXCEPT !.number = n, !.touched = @ \union {"number"}]
  /\ UNCHANGED <<calls, busy>>

\* Mutant of FlagPatch: the flags go with every patch, like the numbers.
FlagPatchAll == IF conf.toggle THEN "on" ELSE "off"

\* A flag goes into the patch when the form has another value than the configuration;
\* getValue() is "" where the key is absent, which is neither true nor false.
FlagPatch ==
  IF conf.config.toggle = (IF conf.toggle THEN "on" ELSE "off") THEN "none"
  ELSE IF conf.toggle THEN "on" ELSE "off"

HostPatch ==
  IF conf.config.host = conf.host THEN "none" ELSE IF conf.host THEN "set" ELSE "clear"

\* Every number that is filled in goes into the patch.
Patchof(new) == [toggle |-> FlagPatch, number |-> conf.number, host |-> HostPatch,
                 token |-> new]

\* handleSave(): a number that is none ends it before anything is sent.
handleSave(new) ==
  /\ conf.loaded /\ "save" \notin busy
  /\ conf.number >= 1
  /\ Send(<<[request("config", "save", {"save"}) EXCEPT !.patch = Patchof(new),
               !.seen = conf.config, !.touched = conf.touched]>>, {"save"})
  /\ UNCHANGED conf

ConfRefresh ==
  /\ conf.loaded
  /\ Send(<<request("config", "config", {})>>, {})
  /\ UNCHANGED conf

\* Mutant of handleRegenerateApiKey: the key shown stays until there is a new one.
RegenerateOver ==
  /\ "key" \notin busy
  /\ Send(<<request("config", "regenerate", {"key"})>>, {"key"})
  /\ UNCHANGED conf

handleRegenerateApiKey ==
  /\ "key" \notin busy
  /\ Send(<<request("config", "regenerate", {"key"})>>, {"key"})
  /\ conf' = [conf EXCEPT !.key = 0]

\* `count` is how often the job may be looked at.
handleIssueCert ==
  /\ "tls" \notin busy /\ ~conf.pending
  /\ Send(<<[request("config", "issue", {"tls"}) EXCEPT !.count = MaxPolls]>>, {"tls"})
  /\ UNCHANGED conf

ConfUser ==
  \/ setField \/ ConfRefresh \/ handleRegenerateApiKey \/ handleIssueCert
  \/ \E new \in Tokens \union {NoToken} : handleSave(new)

-----------------------------------------------------------------------------
(* What follows the awaits.                                                  *)

ConfSeen(i, v) == conf' = IF calls[i].live THEN v ELSE conf

ConfigShown(i) ==
  /\ Heard(i, "config")
  /\ GoesOn(i, <<>>) /\ Off(i, {})
  /\ ConfSeen(i, IF Ok(i) THEN Loaded(conf, calls[i].config) ELSE conf)

\* fetchApiKeyStatus(), fetchTlsStatus()
StatusShown(i) ==
  /\ Heard(i, "key") \/ Heard(i, "tls")
  /\ GoesOn(i, <<>>) /\ Off(i, {})
  /\ ConfSeen(i, IF Ok(i) /\ calls[i].do = "tls"
                 THEN [conf EXCEPT !.pending = calls[i].flag] ELSE conf)

\* await fetchConfig(), before the spinner goes out.  Where the token was changed,
\* the panel is left instead.
Saved(i) ==
  /\ Heard(i, "save") /\ ~(Ok(i) /\ calls[i].patch.token # NoToken)
  /\ IF Ok(i) THEN GoesOn(i, <<request("config", "config", {"save"})>>) /\ Off(i, {"save"})
     ELSE GoesOn(i, <<>>) /\ Off(i, {})
  /\ UNCHANGED conf

Regenerated(i) ==
  /\ Heard(i, "regenerate")
  /\ IF Ok(i) THEN GoesOn(i, <<request("config", "key", {"key"})>>) /\ Off(i, {"key"})
     ELSE GoesOn(i, <<>>) /\ Off(i, {})
  /\ ConfSeen(i, IF Ok(i) THEN [conf EXCEPT !.key = calls[i].count] ELSE conf)

PollAgain(i, n) ==
  GoesOn(i, <<[request("config", "poll", {"tls"}) EXCEPT !.count = n]>>) /\ Off(i, {"tls"})

Issued(i) ==
  /\ Heard(i, "issue")
  /\ IF Ok(i) /\ calls[i].count > 0 THEN PollAgain(i, calls[i].count - 1)
     ELSE GoesOn(i, <<>>) /\ Off(i, {})
  /\ UNCHANGED conf

\* Mutant of Polled: as long as the job is pending it is looked at again.
PolledOn(i) ==
  /\ Heard(i, "poll")
  /\ IF Ok(i) /\ calls[i].flag THEN PollAgain(i, calls[i].count)
     ELSE GoesOn(i, <<>>) /\ Off(i, {})
  /\ ConfSeen(i, IF Ok(i) THEN [conf EXCEPT !.pending = calls[i].flag] ELSE conf)

\* The loop of handleIssueCert(): until the job is done, or was looked at often enough.
Polled(i) ==
  /\ Heard(i, "poll")
  /\ IF Ok(i) /\ calls[i].flag /\ calls[i].count > 0 THEN PollAgain(i, calls[i].count - 1)
     ELSE GoesOn(i, <<>>) /\ Off(i, {})
  /\ ConfSeen(i, IF Ok(i) THEN [conf EXCEPT !.pending = calls[i].flag] ELSE conf)

ConfHears(i) ==
  ConfigShown(i) \/ StatusShown(i) \/ Saved(i) \/ Regenerated(i) \/ Issued(i) \/ Polled(i)

-----------------------------------------------------------------------------
\* The key shown, which is shown once only, is the key that works, unless somebody
\* else has made another meanwhile: a second one, even when its answer is lost, does
\* not leave the first on the page.
ShownKeyWorks == conf.key # 0 /\ server.mine => conf.key = server.key
=============================================================================
