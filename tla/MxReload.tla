------------------------------- MODULE MxReload ------------------------------
(***************************************************************************)
(* How the mail server follows config.yaml while the admin panel edits it:  *)
(* the start of mx/main.go, the watcher and reloadIfChanged of mx/reload.go *)
(* and the snapshot of the domains each SMTP session keeps (mx/session.go). *)
(*                                                                          *)
(* Of a config only its domains matter here, so a content of the file is    *)
(* a set of domains, its own hash; {} is a file that was truncated and not  *)
(* yet filled (ConfigStore), which LoadConfig refuses.  reloadIfChanged     *)
(* reads the file twice, to hash it and to load it, and the panel may write *)
(* in between; the mutex keeps other readers out, not the writer.           *)
(***************************************************************************)
EXTENDS Naturals, FiniteSets

CONSTANTS
  Sessions,       \* SMTP connections
  Domains,        \* mail domains
  FirstDomains,   \* domains of the initial file
  Operations,     \* subset of {"add", "remove"} the panel is used for
  Nobody,         \* the mutex is free
  Watcher,        \* the watcher goroutine
  MaxEdits,       \* bound: edits of the file
  MaxRestarts     \* bound: restarts of the mail server

ASSUME ReloadAssumption ==
  /\ FirstDomains \subseteq Domains /\ FirstDomains # {}
  /\ IsFiniteSet(Domains)
  /\ Operations \subseteq {"add", "remove"}
  /\ {Watcher, Nobody} \intersect Sessions = {} /\ Watcher # Nobody
  /\ {MaxEdits, MaxRestarts} \subseteq Nat

VARIABLES
  file,           \* content of config.yaml
  pending,        \* content the panel is about to write, {} when it is not
  phase,          \* load, hash, serve, path, watch: how far main has come
  startHash,      \* the argument of watchConfig
  hasPath,        \* configFilePath is set
  loaded,         \* currentConfig
  configHash,
  mutex,          \* configHashMu: who is in reloadIfChanged
  seen,           \* the hash that call has computed
  domains,        \* snapshot of each session, {} when it is not connected
  rcpt,           \* domain a session is reloading for, {} or a singleton
  answer,         \* reply to a RCPT command given by the last step
  edits, restarts,
  saved,          \* history: every whole content the file has had
  disturbed       \* history: a domain was removed, or one edited during the start

panel == <<file, pending, edits, saved, disturbed>>
boot  == <<phase, startHash, hasPath, restarts>>
store == <<loaded, configHash, mutex, seen>>
vars  == <<panel, boot, store, domains, rcpt, answer>>

Content == SUBSET Domains

\* The hash of a content, and configHash before it is set.
HashOf(c) == {c}
NoHash == {}
Hash == {HashOf(c) : c \in Content} \union {NoHash}

NoAnswer == [code |-> 0, domain |-> {}]

TypeOK ==
  /\ file \in Content /\ pending \in Content
  /\ phase \in {"load", "hash", "serve", "path", "watch"}
  /\ startHash \in Hash
  /\ hasPath \in BOOLEAN
  /\ loaded \in Content
  /\ configHash \in Hash
  /\ mutex \in Sessions \union {Watcher, Nobody}
  /\ seen \in Hash
  /\ domains \in [Sessions -> Content]
  /\ rcpt \in [Sessions -> Content]
  /\ answer \in [code : {0, 250, 550}, domain : Content]
  /\ {edits, restarts} \subseteq Nat
  /\ saved \subseteq Content
  /\ disturbed \in BOOLEAN

Init ==
  /\ file = FirstDomains
  /\ pending = {}
  /\ phase = "load"
  /\ startHash = NoHash
  /\ hasPath = FALSE
  /\ loaded = {}
  /\ configHash = NoHash
  /\ mutex = Nobody
  /\ seen = NoHash
  /\ domains = [s \in Sessions |-> {}]
  /\ rcpt = [s \in Sessions |-> {}]
  /\ answer = NoAnswer
  /\ edits = 0
  /\ restarts = 0
  /\ saved = {FirstDomains}
  /\ disturbed = FALSE

-----------------------------------------------------------------------------
(* The panel: ConfigStore's Truncate and Fill.                              *)

Edited ==
  UNION {IF o = "add" THEN {file \union {d} : d \in Domains \ file}
         ELSE {file \ {d} : d \in {x \in file : file # {x}}} : o \in Operations}

Truncate ==
  /\ pending = {}
  /\ edits < MaxEdits
  /\ \E c \in Edited :
       /\ pending' = c
       /\ disturbed' = (disturbed \/ ~(file \subseteq c) \/ phase # "watch")
  /\ file' = {}
  /\ edits' = edits + 1
  /\ UNCHANGED <<boot, store, domains, rcpt, saved>>
  /\ answer' = NoAnswer

Fill ==
  /\ pending # {}
  /\ file' = pending
  /\ saved' = saved \union {pending}
  /\ pending' = {}
  /\ UNCHANGED <<boot, store, domains, rcpt, edits, disturbed>>
  /\ answer' = NoAnswer

-----------------------------------------------------------------------------
(* Starting: main() and the first statements of watchConfig.                *)

\* LoadConfig(configPath): a config without domains is fatal, and Docker starts
\* the process again.
StartLoad ==
  /\ phase = "load"
  /\ file # {}
  /\ loaded' = file
  /\ phase' = "hash"
  /\ UNCHANGED <<panel, startHash, hasPath, restarts, configHash, mutex, seen,
                 domains, rcpt>>
  /\ answer' = NoAnswer

\* Later, with the SMTP server already accepting: the argument hashFile(configPath)
\* reads the file again.
StartHash ==
  /\ phase = "hash"
  /\ startHash' = HashOf(file)
  /\ phase' = "serve"
  /\ UNCHANGED <<panel, hasPath, restarts, store, domains, rcpt>>
  /\ answer' = NoAnswer

\* SetConfigPath(path), in the goroutine, without the mutex.
StartPath ==
  /\ phase = "serve"
  /\ hasPath' = TRUE
  /\ phase' = "path"
  /\ UNCHANGED <<panel, startHash, restarts, store, domains, rcpt>>
  /\ answer' = NoAnswer

\* configHash = initiallyLoadedHash, without the mutex.
StartWatch ==
  /\ phase = "path"
  /\ configHash' = startHash
  /\ phase' = "watch"
  /\ UNCHANGED <<panel, startHash, hasPath, restarts, loaded, mutex, seen,
                 domains, rcpt>>
  /\ answer' = NoAnswer

Restart ==
  /\ restarts < MaxRestarts
  /\ restarts' = restarts + 1
  /\ phase' = "load"
  /\ startHash' = NoHash
  /\ hasPath' = FALSE
  /\ loaded' = {}
  /\ configHash' = NoHash
  /\ mutex' = Nobody
  /\ seen' = NoHash
  /\ domains' = [s \in Sessions |-> {}]
  /\ rcpt' = [s \in Sessions |-> {}]
  /\ UNCHANGED panel
  /\ answer' = NoAnswer

-----------------------------------------------------------------------------
(* reloadIfChanged, for the watcher or for a session.                       *)

\* Lock, hash, and go on only if the hash is new.
HashNew(p) ==
  /\ mutex = Nobody
  /\ hasPath
  /\ HashOf(file) # configHash
  /\ mutex' = p
  /\ seen' = HashOf(file)
  /\ UNCHANGED <<loaded, configHash>>

\* Mutants of Load: a config without domains is accepted; it is not stored.
LoadAnything(p) ==
  /\ mutex = p
  /\ mutex' = Nobody
  /\ seen' = NoHash
  /\ configHash' = seen
  /\ loaded' = file

LoadForgets(p) ==
  /\ mutex = p
  /\ mutex' = Nobody
  /\ seen' = NoHash
  /\ configHash' = IF file # {} THEN seen ELSE configHash
  /\ UNCHANGED loaded

\* LoadConfig, store, unlock; a config without domains is refused and both the
\* old one and its hash are kept.
Load(p) ==
  /\ mutex = p
  /\ mutex' = Nobody
  /\ seen' = NoHash
  /\ IF file # {}
     THEN configHash' = seen /\ loaded' = file
     ELSE UNCHANGED <<configHash, loaded>>

WatcherHash ==
  /\ phase = "watch"
  /\ HashNew(Watcher)
  /\ UNCHANGED <<panel, boot, domains, rcpt>>
  /\ answer' = NoAnswer

WatcherLoad ==
  /\ Load(Watcher)
  /\ UNCHANGED <<panel, boot, domains, rcpt>>
  /\ answer' = NoAnswer

-----------------------------------------------------------------------------
(* The SMTP sessions.                                                       *)

Serving == phase \notin {"load"}

\* NewSession: the domains of the config current at that moment.
Connect(s) ==
  /\ Serving
  /\ domains[s] = {}
  /\ domains' = [domains EXCEPT ![s] = loaded]
  /\ UNCHANGED <<panel, boot, store, rcpt>>
  /\ answer' = NoAnswer

Disconnect(s) ==
  /\ domains[s] # {} /\ rcpt[s] = {}
  /\ domains' = [domains EXCEPT ![s] = {}]
  /\ UNCHANGED <<panel, boot, store, rcpt>>
  /\ answer' = NoAnswer

Answer(c, d) == answer' = [code |-> c, domain |-> {d}]

\* RCPT for a domain of the snapshot: accepted, with no look at the file.
Accept(s, d) ==
  /\ rcpt[s] = {}
  /\ d \in domains[s]
  /\ Answer(250, d)
  /\ UNCHANGED <<panel, boot, store, domains, rcpt>>

\* Mutant of Refuse: the file is not looked at.
RefuseAtOnce(s, d) ==
  /\ domains[s] # {} /\ rcpt[s] = {} /\ d \notin domains[s]
  /\ Answer(550, d)
  /\ UNCHANGED <<panel, boot, store, domains, rcpt>>

\* RCPT for another one, and reloadIfChanged returns nil: there is nothing new
\* for the process, whatever this session has.  550 5.7.1.
Refuse(s, d) ==
  /\ domains[s] # {} /\ rcpt[s] = {} /\ d \notin domains[s]
  /\ mutex = Nobody
  /\ ~hasPath \/ HashOf(file) = configHash
  /\ Answer(550, d)
  /\ UNCHANGED <<panel, boot, store, domains, rcpt>>

RcptHash(s, d) ==
  /\ domains[s] # {} /\ rcpt[s] = {} /\ d \notin domains[s]
  /\ HashNew(s)
  /\ rcpt' = [rcpt EXCEPT ![s] = {d}]
  /\ UNCHANGED <<panel, boot, domains>>
  /\ answer' = NoAnswer

\* ... the session takes over what it loaded, then accepts or refuses.
RcptLoad(s) ==
  /\ Load(s)
  /\ domains' = [domains EXCEPT ![s] = IF file # {} THEN file ELSE @]
  /\ \E d \in rcpt[s] : Answer(IF d \in domains'[s] THEN 250 ELSE 550, d)
  /\ rcpt' = [rcpt EXCEPT ![s] = {}]
  /\ UNCHANGED <<panel, boot>>

-----------------------------------------------------------------------------
Next ==
  \/ Truncate \/ Fill
  \/ StartLoad \/ StartHash \/ StartPath \/ StartWatch \/ Restart
  \/ WatcherHash \/ WatcherLoad
  \/ \E s \in Sessions : Connect(s) \/ Disconnect(s) \/ RcptLoad(s)
  \/ \E s \in Sessions, d \in Domains : Accept(s, d) \/ Refuse(s, d) \/ RcptHash(s, d)

Spec == Init /\ [][Next]_vars

\* The panel finishes what it writes, main and the watcher's ticker go on, and a
\* session inside reloadIfChanged returns; nothing says that clients do anything.
FairSpec ==
  /\ Spec
  /\ WF_vars(Fill)
  /\ WF_vars(StartLoad) /\ WF_vars(StartHash)
  /\ WF_vars(StartPath) /\ WF_vars(StartWatch)
  /\ SF_vars(WatcherHash) /\ WF_vars(WatcherLoad)
  /\ \A s \in Sessions : WF_vars(RcptLoad(s))

-----------------------------------------------------------------------------
\* What the server or a session works with was the whole file at some time: a
\* file the panel is writing is never taken for a config, although it is read
\* twice and without any lock the panel knows of.
OnlySaved ==
  /\ phase # "load" => loaded \in saved
  /\ \A s \in Sessions : domains[s] # {} => domains[s] \in saved

\* The promise of reloadIfChanged to the SMTP path, as far as it holds: once the
\* server has started, a domain that is in the file is refused only when the
\* process has loaded it already.  A removal that is taken back, or an edit while
\* the server starts, can leave the hash of a content that is not the loaded one.
NewDomainHonoured ==
  answer.code = 550 /\ phase = "watch" /\ ~disturbed =>
    answer.domain \intersect file \subseteq loaded

\* session.go: "re-read config.yaml before answering, because a permanent 550
\* here bounces the sender's mail for good" - a domain the process accepts is
\* not refused by one of its sessions.
LiveDomainNotBounced ==
  answer.code = 550 => answer.domain \intersect loaded = {}

\* reloadIfChanged "re-reads config.yaml when its content differs from the last
\* loaded version": when the edits are over the server has what the file says.
ChangesReachMx == <>[](loaded = file \/ disturbed)
=============================================================================
