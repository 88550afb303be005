----------------------------- MODULE ConfigStore ----------------------------
(***************************************************************************)
(* config.yaml as the admin panel edits it: the request handlers of         *)
(* api/app/routers/admin.py on the helpers of api/app/runtime_config.py,    *)
(* the settings object of api/app/config.py, and the file nginx reads.      *)
(*                                                                          *)
(* Handlers run in a thread pool.  Each call of read_config and write_config *)
(* holds _CONFIG_LOCK, but a request makes several of them, and             *)
(* reload_settings takes no lock.  The file cannot be replaced by rename, so *)
(* a write is a truncation followed by one write(2) (the dump is smaller     *)
(* than the 8 KB buffer of the stream).                                     *)
(***************************************************************************)
EXTENDS Naturals, FiniteSets

CONSTANTS
  Admins,         \* requests of the admin panel that may be running at once
  NoOne,          \* the lock is free
  Domains,        \* mail domains
  FirstDomains,   \* domains of the initial file
  Operations,     \* subset of {"add", "remove", "put"} the panel is used for
  MaxDomains,     \* 100 in add_domain
  MaxRequests,    \* bound: requests ever accepted
  Faults,         \* subset of {"copy", "fill"}: writes a full disk may refuse
  MaxFaults,      \* bound: writes a full disk refuses
  MaxCrashes      \* bound: restarts of the api container

ASSUME ConfigAssumption ==
  /\ NoOne \notin Admins
  /\ FirstDomains \subseteq Domains /\ FirstDomains # {}
  /\ IsFiniteSet(Domains)
  /\ Operations \subseteq {"add", "remove", "put"}
  /\ {MaxDomains, MaxRequests, MaxFaults, MaxCrashes} \subseteq Nat

VARIABLES
  writable,       \* the directory of config.yaml can be written
  file,           \* config.yaml
  bak,            \* config.yaml.bak
  lock,           \* who holds _CONFIG_LOCK
  settings,       \* the settings object of the running process
  web,            \* web-config.env
  up,             \* the api process is running
  op,             \* what each handler holds
  requests,       \* requests accepted so far
  faults,         \* writes a full disk has refused so far
  crashes,        \* restarts so far
  acked,          \* history: edits answered with 200
  asked,          \* history: domains whose removal was ever accepted
  overlap,        \* history: two requests have been handled at once
  uncopied,       \* history: the write under way goes ahead without its backup
  lost            \* history: such a write was cut short, and nothing is left

files == <<file, bak>>
hist  == <<acked, asked, overlap>>
log   == <<hist, uncopied, lost>>
vars  == <<writable, files, lock, settings, web, up, op, requests, faults, crashes, log>>

\* What a file holds, and what read_config() makes of it.  `setting` stands for
\* the keys of PUT /config and /apikey/regenerate; each request writes a new value.
\* "whole" is a config with the keys of the installation, which the edits modelled here
\* keep and never add (database.url, admin.token); "bare" has none of them.
Config == [form : {"none", "blank", "bare", "whole"}, domains : SUBSET Domains, setting : Nat]
First  == [form |-> "whole", domains |-> FirstDomains, setting |-> 1]

\* No file; a file without a byte, and the None of read_config(); an empty mapping.
NoFile  == [form |-> "none", domains |-> {}, setting |-> 0]
Blank   == [form |-> "blank", domains |-> {}, setting |-> 0]
Nothing == [form |-> "bare", domains |-> {}, setting |-> 0]

Edit == [kind : {"add", "remove"}, domain : Domains] \union [kind : {"put"}, value : Nat]

\* pc: commit (config read and edited), backup, copy, truncate, fill (the steps
\* of write_config), reload, apply, publish, replace; `undo` tells the write of
\* the rollback; `next` is written, `prev` is what _commit_config read, `seen`
\* what the last unlocked or published read returned.
NoEdit == [kind |-> "put", value |-> 0]
Idle == [pc |-> "idle", edit |-> NoEdit, next |-> Blank, prev |-> Blank,
         seen |-> Blank, undo |-> FALSE]

Op == [pc : {"idle", "commit", "backup", "copy", "truncate", "fill", "reload",
             "apply", "publish", "replace"},
       edit : Edit, next : Config, prev : Config, seen : Config, undo : BOOLEAN]

TypeOK ==
  /\ writable \in BOOLEAN
  /\ {file, bak, settings} \subseteq Config
  /\ lock \in Admins \union {NoOne}
  /\ web \in Nat
  /\ up \in BOOLEAN
  /\ op \in [Admins -> Op]
  /\ {requests, faults, crashes} \subseteq Nat
  /\ acked \subseteq Edit
  /\ asked \subseteq Domains
  /\ overlap \in BOOLEAN /\ uncopied \in BOOLEAN /\ lost \in BOOLEAN

\* docker-compose.yml mounts config.yaml alone on a read-only root, so there the
\* directory cannot be written; another deployment may allow it.
Init ==
  /\ writable \in BOOLEAN
  /\ file = First
  /\ bak = NoFile
  /\ lock = NoOne
  /\ settings = First
  /\ web = 1
  /\ up = TRUE
  /\ op = [a \in Admins |-> Idle]
  /\ requests = 0
  /\ faults = 0
  /\ crashes = 0
  /\ acked = {}
  /\ asked = {}
  /\ overlap = FALSE
  /\ uncopied = FALSE
  /\ lost = FALSE

-----------------------------------------------------------------------------
Goto(a, p) == op' = [op EXCEPT ![a].pc = p]

\* Mutant of ReadConfig: no fallback.
ReadConfigOnly == file

\* isinstance(parsed, dict) and parsed
Parses(c) == c.form = "whole" \/ c.domains # {} \/ c.setting # 0

\* read_config(): the file, or the previous good copy when it does not parse; {} when
\* there is no such copy, and None, for want of a return, when that does not parse either.
ReadConfig ==
  IF Parses(file) THEN file
  ELSE IF Parses(bak) THEN bak
  ELSE IF bak = NoFile THEN Nothing ELSE Blank

\* Mutant of Allowed: the last domain may go.
AllowedLast(c, e) ==
  CASE e.kind = "add"    -> e.domain \notin c.domains /\ Cardinality(c.domains) < MaxDomains
    [] e.kind = "remove" -> e.domain \in c.domains
    [] e.kind = "put"    -> TRUE

\* The validated edit of a config that was read.
Allowed(c, e) ==
  CASE e.kind = "add"    -> e.domain \notin c.domains /\ Cardinality(c.domains) < MaxDomains
    [] e.kind = "remove" -> e.domain \in c.domains /\ Cardinality(c.domains) > 1
    [] e.kind = "put"    -> TRUE

Applied(c, e) ==
  CASE e.kind = "add"    -> [c EXCEPT !.domains = @ \union {e.domain}]
    [] e.kind = "remove" -> [c EXCEPT !.domains = @ \ {e.domain}]
    [] e.kind = "put"    -> [c EXCEPT !.setting = e.value]

\* require_admin: 503 once the settings in force have no admin token.
HasToken == settings.form = "whole"

\* add_domain, remove_domain, update_config, apikey_regenerate: the read; on None it
\* is an AttributeError and a 500.
Request(a, e) ==
  /\ up /\ HasToken
  /\ op[a].pc = "idle"
  /\ lock = NoOne
  /\ requests < MaxRequests
  /\ ReadConfig # Blank
  /\ Allowed(ReadConfig, e)
  /\ requests' = requests + 1
  /\ op' = [op EXCEPT ![a] = [Idle EXCEPT !.pc = "commit", !.edit = e,
                                !.next = Applied(ReadConfig, e)]]
  /\ asked' = IF e.kind = "remove" THEN asked \union {e.domain} ELSE asked
  /\ overlap' = (overlap \/ \E b \in Admins \ {a} : op[b].pc # "idle")
  /\ UNCHANGED <<writable, files, lock, settings, web, up, faults, crashes, acked,
                 uncopied, lost>>

\* _commit_config: previous = read_config()
ReadPrevious(a) ==
  /\ op[a].pc = "commit"
  /\ lock = NoOne
  /\ op' = [op EXCEPT ![a].pc = "backup", ![a].prev = ReadConfig]
  /\ UNCHANGED <<writable, files, lock, settings, web, up, requests, faults, crashes, log>>

\* Mutant of Backup: no backup is made.
BackupNever(a) ==
  /\ op[a].pc = "backup"
  /\ lock = NoOne
  /\ lock' = a
  /\ Goto(a, "truncate")
  /\ UNCHANGED <<writable, files, settings, web, up, requests, faults, crashes, log>>

\* write_config: takes the lock, opens the backup; a file without a byte is not
\* copied, and an OSError (a read-only directory, a full disk) is ignored.
Backup(a) ==
  /\ op[a].pc = "backup"
  /\ lock = NoOne
  /\ lock' = a
  /\ \/ /\ file # Blank /\ writable
        /\ bak' = Blank
        /\ Goto(a, "copy")
        /\ UNCHANGED <<faults, uncopied>>
     \/ /\ file = Blank
        /\ Goto(a, "truncate")
        /\ UNCHANGED <<bak, faults, uncopied>>
     \/ /\ file # Blank
        /\ \/ ~writable /\ UNCHANGED faults
           \/ writable /\ "copy" \in Faults /\ faults < MaxFaults /\ faults' = faults + 1
        /\ Goto(a, "truncate")
        /\ uncopied' = TRUE
        /\ UNCHANGED bak
  /\ UNCHANGED <<writable, file, settings, web, up, requests, crashes, hist, lost>>

\* shutil.copyfile; a write that fails (a full disk) is ignored as well and
\* leaves the backup empty.
Copy(a) ==
  /\ op[a].pc = "copy"
  /\ \/ bak' = file /\ UNCHANGED <<faults, uncopied>>
     \/ /\ "copy" \in Faults /\ faults < MaxFaults
        /\ faults' = faults + 1
        /\ uncopied' = TRUE
        /\ UNCHANGED bak
  /\ Goto(a, "truncate")
  /\ UNCHANGED <<writable, file, lock, settings, web, up, requests, crashes, hist, lost>>

\* open(path, 'w')
Truncate(a) ==
  /\ op[a].pc = "truncate"
  /\ file' = Blank
  /\ Goto(a, "fill")
  /\ UNCHANGED <<writable, bak, lock, settings, web, up, requests, faults, crashes, log>>

\* yaml.safe_dump(None) writes a null.
Dumped(c) == IF c = Blank THEN Nothing ELSE c

\* Mutant of Fill: the config read first is written, not the edited one.
FillPrevious(a) ==
  /\ op[a].pc = "fill"
  /\ file' = Dumped(op[a].prev)
  /\ lock' = NoOne
  /\ uncopied' = FALSE
  /\ Goto(a, "reload")
  /\ UNCHANGED <<writable, bak, settings, web, up, requests, faults, crashes, hist, lost>>

\* yaml.safe_dump, flush, fsync; the lock is released.
Fill(a) ==
  /\ op[a].pc = "fill"
  /\ file' = Dumped(IF op[a].undo THEN op[a].prev ELSE op[a].next)
  /\ lock' = NoOne
  /\ uncopied' = FALSE
  /\ Goto(a, "reload")
  /\ UNCHANGED <<writable, bak, settings, web, up, requests, faults, crashes, hist, lost>>

\* Mutant of FillFails: the lock is not released on the way out.
FillFailsLocked(a) ==
  /\ op[a].pc = "fill"
  /\ "fill" \in Faults /\ faults < MaxFaults
  /\ faults' = faults + 1
  /\ op' = [op EXCEPT ![a] = Idle]
  /\ lost' = (lost \/ uncopied) /\ uncopied' = FALSE
  /\ UNCHANGED <<writable, files, lock, settings, web, up, requests, crashes, hist>>

\* The write fails.  _commit_config calls write_config outside its try: the
\* answer is 500 and nothing is rolled back; within the rollback the error is
\* swallowed, with the same effect.
FillFails(a) ==
  /\ op[a].pc = "fill"
  /\ "fill" \in Faults /\ faults < MaxFaults
  /\ faults' = faults + 1
  /\ lock' = NoOne
  /\ op' = [op EXCEPT ![a] = Idle]
  /\ lost' = (lost \/ uncopied) /\ uncopied' = FALSE
  /\ UNCHANGED <<writable, files, settings, web, up, requests, crashes, hist>>

\* reload_settings() reads the file without the lock.  A file another handler
\* has just truncated has no domain: ValueError, and the previous config is
\* written back; when that happens to the rollback, the error is swallowed.
ReloadRead(a) ==
  /\ op[a].pc = "reload"
  /\ \/ /\ file.domains # {}
        /\ op' = [op EXCEPT ![a].pc = "apply", ![a].seen = file]
     \/ /\ file.domains = {} /\ ~op[a].undo
        /\ op' = [op EXCEPT ![a].pc = "backup", ![a].undo = TRUE]
     \/ /\ file.domains = {} /\ op[a].undo
        /\ op' = [op EXCEPT ![a] = Idle]
  /\ UNCHANGED <<writable, files, lock, settings, web, up, requests, faults, crashes, log>>

\* settings._apply(config); then 500 after a rollback, the new nginx settings
\* after PUT /config, or 200.
Apply(a) ==
  /\ op[a].pc = "apply"
  /\ settings' = op[a].seen
  /\ \/ /\ op[a].undo
        /\ op' = [op EXCEPT ![a] = Idle]
        /\ UNCHANGED acked
     \/ /\ ~op[a].undo /\ op[a].edit.kind = "put"
        /\ Goto(a, "publish")
        /\ UNCHANGED acked
     \/ /\ ~op[a].undo /\ op[a].edit.kind # "put"
        /\ op' = [op EXCEPT ![a] = Idle]
        /\ acked' = acked \union {op[a].edit}
  /\ UNCHANGED <<writable, files, lock, web, up, requests, faults, crashes, asked, overlap,
                 uncopied, lost>>

\* write_web_config(): read_config() ...; on None its AttributeError is swallowed and
\* that of the answer is not.
Publish(a) ==
  /\ op[a].pc = "publish"
  /\ lock = NoOne
  /\ \/ /\ ReadConfig # Blank
        /\ op' = [op EXCEPT ![a].pc = "replace", ![a].seen = ReadConfig]
     \/ /\ ReadConfig = Blank
        /\ op' = [op EXCEPT ![a] = Idle]
  /\ UNCHANGED <<writable, files, lock, settings, web, up, requests, faults, crashes, log>>

\* ... and os.replace.
Replace(a) ==
  /\ op[a].pc = "replace"
  /\ web' = op[a].seen.setting
  /\ op' = [op EXCEPT ![a] = Idle]
  /\ acked' = acked \union {op[a].edit}
  /\ UNCHANGED <<writable, files, lock, settings, up, requests, faults, crashes, asked,
                 overlap, uncopied, lost>>

\* The process dies wherever its threads are; the files stay as they are.
Crash ==
  /\ up
  /\ crashes < MaxCrashes
  /\ up' = FALSE
  /\ crashes' = crashes + 1
  /\ op' = [a \in Admins |-> Idle]
  /\ lock' = NoOne
  /\ lost' = (lost \/ (uncopied /\ \E a \in Admins : op[a].pc = "fill"))
  /\ uncopied' = FALSE
  /\ UNCHANGED <<writable, files, settings, web, requests, faults, hist>>

\* Mutant of Boot: the nginx settings are not published again.
BootSilent ==
  /\ ~up
  /\ IF file.form = "whole"
     THEN up' = TRUE /\ settings' = file
     ELSE UNCHANGED <<up, settings>>
  /\ UNCHANGED <<writable, files, lock, web, op, requests, faults, crashes, log>>

\* Config.__init__ reads config.yaml alone; without database.url create_engine
\* raises, the process exits, and Docker starts it again.  startup_event then
\* publishes the nginx settings.
Boot ==
  /\ ~up
  /\ IF file.form = "whole"
     THEN /\ up' = TRUE
          /\ settings' = file
          /\ web' = file.setting
     ELSE UNCHANGED <<up, settings, web>>
  /\ UNCHANGED <<writable, files, lock, op, requests, faults, crashes, log>>

Edits ==
  {e \in [kind : {"add", "remove"}, domain : Domains]
         \union {[kind |-> "put", value |-> requests + 2]} : e.kind \in Operations}

Handler(a) ==
  \/ \E e \in Edits : Request(a, e)
  \/ ReadPrevious(a) \/ Backup(a) \/ Copy(a) \/ Truncate(a) \/ Fill(a)
  \/ FillFails(a)
  \/ ReloadRead(a) \/ Apply(a) \/ Publish(a) \/ Replace(a)

AtRest == up /\ \A a \in Admins : op[a].pc = "idle"

\* Where the bound on requests ends a behaviour, and where every request is answered
\* with 500 or 503: not a deadlock of the code.
Spent ==
  /\ AtRest
  /\ requests = MaxRequests \/ ReadConfig = Blank \/ ~HasToken
  /\ UNCHANGED vars

Next == (\E a \in Admins : Handler(a)) \/ Crash \/ Boot \/ Spent

Spec == Init /\ [][Next]_vars

\* A request that was accepted is run to its end by its thread.
Working(a) == op[a].pc # "idle" /\ Handler(a)
FairSpec == Spec /\ \A a \in Admins : WF_vars(Working(a))

-----------------------------------------------------------------------------
\* config.yaml or its backup is a whole config at every instant, so wherever a
\* crash or a refused write strikes there is something to recover from.  The one gap
\* is a write whose backup was refused, which goes ahead all the same: while it is
\* under way, and for good once it is cut short between truncation and fill.
Recoverable == Parses(file) \/ Parses(bak) \/ uncopied \/ lost

\* remove_domain checks for the last domain long before it writes; still no
\* sequence of edits, failures and restarts takes the last domain of a whole config,
\* or of the running process.  Only on top of the loss above is a file without
\* domains written (a PUT /config on {}), and rolled back; it is never applied.
DomainsNeverEmpty ==
  /\ up => settings.domains # {}
  /\ Parses(file) /\ (lost => file.form = "whole") => file.domains # {}

\* Nothing is ever edited, or kept for a rollback, that was read from a file another
\* handler was writing: until a write without a backup is cut short, it is a whole
\* config with a domain.
NoHalfRead ==
  ~lost => \A a \in Admins :
    /\ op[a].pc # "idle" => op[a].next.form = "whole" /\ op[a].next.domains # {}
    /\ op[a].pc \notin {"idle", "commit"} =>
         op[a].prev.form = "whole" /\ op[a].prev.domains # {}

\* _CONFIG_LOCK: "Serializes read-modify-write cycles for config.yaml. Two
\* concurrent PUTs would otherwise lose one of the updates".  A domain whose
\* addition was confirmed is there until somebody removes it, and a confirmed
\* setting is not the initial one.  The lock does not cover the cycle, so this
\* fails when two requests overlap.
ConfirmedEditsStay ==
  AtRest => \A e \in acked :
    /\ e.kind = "add" /\ e.domain \notin asked => e.domain \in ReadConfig.domains
    /\ e.kind = "put" => ReadConfig.setting # First.setting

\* ... it holds as long as requests come one after the other and no write without a
\* backup is cut short, through restarts, refused writes and the recovery from the
\* backup.  Where the directory cannot be written no write has a backup, and one
\* refused write loses every confirmed edit.
NoLostUpdate == overlap \/ lost \/ ConfirmedEditsStay

\* add_domain: "Takes effect for the API immediately".  When no request is being
\* handled the running process and nginx have what read_config() returns, across
\* refused writes, the recovery from the backup and restarts.  reload_settings and
\* write_web_config read the file on their own, so this too needs requests that do
\* not overlap; and it is lost with the file when a write without a backup is cut
\* short.
SavedInForce ==
  AtRest /\ ~overlap /\ ~lost => settings = ReadConfig /\ web = ReadConfig.setting

\* No request waits for ever on _CONFIG_LOCK, whatever fails under it.
RequestsEnd == \A a \in Admins : op[a].pc # "idle" ~> op[a].pc = "idle"
=============================================================================
