--------------------------- MODULE MxReloadProofs --------------------------
(***************************************************************************)
(* Proofs about MxReload, for every set of sessions and of domains and any  *)
(* number of edits and restarts.                                            *)
(***************************************************************************)
EXTENDS MxReload, TLAPS

-----------------------------------------------------------------------------
(* Type correctness.                                                        *)

\* What the panel writes is a content.
LEMMA EditedTyping == file \in Content => Edited \subseteq Content
  BY DEF Edited, Content

\* The hash of a content is a hash, and tells contents apart.
LEMMA HashTyping ==
  /\ NoHash \in Hash
  /\ \A c \in Content : HashOf(c) \in Hash /\ HashOf(c) # NoHash
  /\ \A c, d \in Content : HashOf(c) = HashOf(d) => c = d
  BY DEF Hash, HashOf, NoHash

\* The two halves of reloadIfChanged keep the types of what the process keeps.
LEMMA ReloadTyping ==
  ASSUME TypeOK, NEW p \in Sessions \union {Watcher}, HashNew(p) \/ Load(p)
  PROVE  /\ loaded' \in Content /\ configHash' \in Hash /\ seen' \in Hash
         /\ mutex' \in Sessions \union {Watcher, Nobody}
  BY HashTyping DEF TypeOK, HashNew, Load

\* Every step keeps TypeOK.
LEMMA TypeStep == TypeOK /\ [Next]_vars => TypeOK'
<1> SUFFICES ASSUME TypeOK, [Next]_vars PROVE TypeOK'
  OBVIOUS
<1>0. NoAnswer \in [code : {0, 250, 550}, domain : Content] /\ {} \in Content
  BY DEF NoAnswer, Content
<1>h. NoHash \in Hash /\ HashOf(file) \in Hash
  BY HashTyping DEF TypeOK
<1>1. CASE Truncate
  BY <1>0, <1>1, EditedTyping
     DEF TypeOK, Truncate, boot, store
<1>2. CASE Fill
  BY <1>0, <1>2 DEF TypeOK, Fill, boot, store
<1>3. CASE StartLoad \/ StartHash \/ StartPath \/ StartWatch
  <2>1. CASE StartLoad
    BY <1>0, <2>1 DEF TypeOK, StartLoad, panel
  <2>2. CASE StartHash
    BY <1>0, <1>h, <2>2 DEF TypeOK, StartHash, panel, store
  <2>3. CASE StartPath
    <3>1. hasPath' \in BOOLEAN
      BY <2>3 DEF StartPath
    <3>2. QED  BY <1>0, <2>3, <3>1 DEF TypeOK, StartPath, panel, store
  <2>4. CASE StartWatch
    BY <1>0, <2>4 DEF TypeOK, StartWatch, panel
  <2>5. QED  BY <1>3, <2>1, <2>2, <2>3, <2>4
<1>4. CASE Restart
  <2>1. hasPath' \in BOOLEAN
    BY <1>4 DEF Restart
  <2>2. QED  BY <1>0, <1>h, <1>4, <2>1 DEF TypeOK, Restart, panel
<1>5. CASE WatcherHash \/ WatcherLoad
  BY <1>0, <1>5, ReloadTyping DEF TypeOK, WatcherHash, WatcherLoad, panel, boot
<1>6. ASSUME NEW s \in Sessions, Connect(s) \/ Disconnect(s) PROVE TypeOK'
  BY <1>0, <1>6 DEF TypeOK, Connect, Disconnect, panel, boot, store
<1>7. ASSUME NEW s \in Sessions, RcptLoad(s) PROVE TypeOK'
  <2>1. domains' \in [Sessions -> Content] /\ rcpt' \in [Sessions -> Content]
    BY <1>0, <1>7 DEF TypeOK, RcptLoad
  <2>2. answer' \in [code : {0, 250, 550}, domain : Content]
    BY <1>7 DEF TypeOK, RcptLoad, Answer, Content
  <2>3. QED  BY <1>7, <2>1, <2>2, ReloadTyping DEF TypeOK, RcptLoad, panel, boot
<1>8. ASSUME NEW s \in Sessions, NEW d \in Domains,
             Accept(s, d) \/ Refuse(s, d) \/ RcptHash(s, d)
      PROVE  TypeOK'
  <2>1. {d} \in Content
    BY DEF Content
  <2>2. CASE Accept(s, d) \/ Refuse(s, d)
    BY <2>1, <2>2 DEF TypeOK, Accept, Refuse, Answer, panel, boot, store
  <2>3. CASE RcptHash(s, d)
    BY <1>0, <2>1, <2>3, ReloadTyping DEF TypeOK, RcptHash, panel, boot
  <2>4. QED  BY <1>8, <2>2, <2>3
<1>9. CASE UNCHANGED vars
  BY <1>9 DEF TypeOK, vars, panel, boot, store
<1>10. QED
  BY <1>1, <1>2, <1>3, <1>4, <1>5, <1>6, <1>7, <1>8, <1>9 DEF Next

LEMMA TypeInit == Init => TypeOK
<1>1. NoHash \in Hash /\ {} \in Content /\ FirstDomains \in Content
  BY HashTyping, ReloadAssumption DEF Content
<1>2. NoAnswer \in [code : {0, 250, 550}, domain : Content]
  BY <1>1 DEF NoAnswer
<1> SUFFICES ASSUME Init PROVE TypeOK
  OBVIOUS
<1>4. hasPath \in BOOLEAN /\ disturbed \in BOOLEAN
  BY DEF Init
<1>5. domains \in [Sessions -> Content] /\ rcpt \in [Sessions -> Content]
  BY <1>1 DEF Init
<1>6. saved \subseteq Content /\ {edits, restarts} \subseteq Nat
  BY <1>1 DEF Init
<1>7. QED  BY <1>1, <1>2, <1>4, <1>5, <1>6 DEF Init, TypeOK

\* Every value the process, its sessions and the panel hold is of the kind the code
\* gives it, at any point of a reload, a restart or an edit.
THEOREM ReloadTypes == Spec => []TypeOK
<1>1. QED  BY TypeInit, TypeStep, PTL DEF Spec

-----------------------------------------------------------------------------
(* Only whole files are taken for a config.                                 *)

\* The strengthening: what is in the file, unless it is being written, is saved.
SavedInv == TypeOK /\ OnlySaved /\ (file # {} => file \in saved)

LEMMA SavedStep == SavedInv /\ [Next]_vars => SavedInv'
<1> SUFFICES ASSUME SavedInv, [Next]_vars PROVE OnlySaved' /\ (file' # {} => file' \in saved')
  BY TypeStep DEF SavedInv
<1> USE DEF SavedInv, OnlySaved
<1>1. CASE Truncate
  BY <1>1 DEF Truncate, boot, store
<1>2. CASE Fill
  BY <1>2 DEF Fill, boot, store
<1>3. CASE StartLoad \/ StartHash \/ StartPath \/ StartWatch
  BY <1>3 DEF StartLoad, StartHash, StartPath, StartWatch, panel, store
<1>4. CASE Restart
  BY <1>4 DEF Restart, panel
<1>5. CASE WatcherHash \/ WatcherLoad
  BY <1>5 DEF WatcherHash, WatcherLoad, HashNew, Load, panel, boot
<1>6. ASSUME NEW s \in Sessions, Connect(s) \/ Disconnect(s)
      PROVE  OnlySaved' /\ (file' # {} => file' \in saved')
  BY <1>6 DEF Connect, Disconnect, Serving, TypeOK, panel, boot, store
<1>7. ASSUME NEW s \in Sessions, RcptLoad(s)
      PROVE  OnlySaved' /\ (file' # {} => file' \in saved')
  BY <1>7 DEF RcptLoad, Load, TypeOK, panel, boot
<1>8. ASSUME NEW s \in Sessions, NEW d \in Domains,
             Accept(s, d) \/ Refuse(s, d) \/ RcptHash(s, d)
      PROVE  OnlySaved' /\ (file' # {} => file' \in saved')
  BY <1>8 DEF Accept, Refuse, RcptHash, HashNew, panel, boot, store
<1>9. CASE UNCHANGED vars
  BY <1>9 DEF vars, panel, boot, store
<1>10. QED
  BY <1>1, <1>2, <1>3, <1>4, <1>5, <1>6, <1>7, <1>8, <1>9 DEF Next

\* Neither the process nor a session ever works with a file the panel is writing,
\* although reloadIfChanged reads it twice and shares no lock with the panel.
THEOREM SavedOnly == Spec => []OnlySaved
<1>1. Init => SavedInv
  BY TypeInit, ReloadAssumption DEF Init, SavedInv, OnlySaved
<1>2. SavedInv => OnlySaved
  BY DEF SavedInv
<1>3. QED  BY <1>1, <1>2, SavedStep, PTL DEF Spec

-----------------------------------------------------------------------------
(* A domain is refused only when the process has loaded it.                 *)

\* The file is being written exactly when the panel still has something to write.
Writing == file = {} <=> pending # {}

\* Until the path is set nobody reloads.
Quiet ==
  /\ phase \in {"load", "hash", "serve"} =>
       ~hasPath /\ mutex = Nobody /\ configHash = NoHash
  /\ phase \in {"path", "watch"} => hasPath

\* As long as domains have only been added, and not while the server starts: the
\* start leaves the hash of what it loaded; what was hashed is contained in what is
\* in the file or about to be; and what configHash is the hash of has been loaded.
Starting ==
  /\ phase \in {"hash", "serve", "path"} => pending = {} /\ file = loaded
  /\ phase \in {"serve", "path"} => startHash = HashOf(loaded)
SeenKept ==
  mutex # Nobody => \A c \in Content : seen = HashOf(c) =>
    (file # {} => c \subseteq file) /\ (pending # {} => c \subseteq pending)
HashedIsLoaded ==
  \A c \in Content : configHash = HashOf(c) => c \subseteq loaded

Grown == ~disturbed => Starting /\ SeenKept /\ HashedIsLoaded

DomainInv == TypeOK /\ Writing /\ Quiet /\ Grown /\ NewDomainHonoured

\* A file that is written is never empty.
LEMMA WritingStep == TypeOK /\ Writing /\ [Next]_vars => Writing'
<1> SUFFICES ASSUME TypeOK, Writing, [Next]_vars PROVE Writing'
  OBVIOUS
<1>1. CASE Truncate
  <2>1. {} \notin Edited \/ file = {}
    BY DEF Edited
  <2>2. file # {}
    BY <1>1 DEF Truncate, Writing
  <2>3. QED  BY <1>1, <2>1, <2>2 DEF Truncate, Writing
<1>2. CASE Fill
  BY <1>2 DEF Fill, Writing
<1>3. CASE UNCHANGED <<file, pending>>
  BY <1>3 DEF Writing
<1>4. QED
  BY <1>1, <1>2, <1>3
     DEF Next, vars, panel, StartLoad, StartHash, StartPath, StartWatch, Restart,
         WatcherHash, WatcherLoad, Connect, Disconnect, RcptLoad, Accept, Refuse,
         RcptHash

LEMMA QuietStep == TypeOK /\ Quiet /\ [Next]_vars => Quiet'
<1> SUFFICES ASSUME TypeOK, Quiet, [Next]_vars PROVE Quiet'
  OBVIOUS
<1>1. CASE StartLoad \/ StartHash \/ StartPath \/ StartWatch \/ Restart
  <2>1. CASE StartLoad \/ StartHash
    BY <2>1 DEF Quiet, StartLoad, StartHash, store
  <2>2. CASE StartPath \/ Restart
    BY <2>2 DEF Quiet, StartPath, Restart
  <2>3. CASE StartWatch
    BY <2>3 DEF Quiet, StartWatch
  <2>4. QED  BY <1>1, <2>1, <2>2, <2>3
<1>2. ASSUME NEW p \in Sessions \union {Watcher}, HashNew(p) \/ Load(p),
             UNCHANGED boot
      PROVE  Quiet'
  BY <1>2, ReloadAssumption DEF Quiet, HashNew, Load, boot
<1>3. CASE UNCHANGED <<boot, store>>
  BY <1>3 DEF Quiet, boot, store
<1>4. QED
  BY <1>1, <1>2, <1>3
     DEF Next, vars, Truncate, Fill, WatcherHash, WatcherLoad, Connect, Disconnect,
         RcptLoad, Accept, Refuse, RcptHash

LEMMA GrownStep ==
  TypeOK /\ Writing /\ Quiet /\ Grown /\ [Next]_vars => Grown'
<1> SUFFICES ASSUME TypeOK, Writing, Quiet, Grown, [Next]_vars, ~disturbed'
             PROVE  (Starting /\ SeenKept /\ HashedIsLoaded)'
  BY DEF Grown
<1>0. ~disturbed
  BY DEF Next, vars, panel, Truncate, Fill, StartLoad, StartHash, StartPath,
         StartWatch, Restart, WatcherHash, WatcherLoad, Connect, Disconnect, RcptLoad,
         Accept, Refuse, RcptHash
<1>a. Starting /\ SeenKept /\ HashedIsLoaded
  BY <1>0 DEF Grown
<1>b. file \in Content /\ loaded \in Content
  BY DEF TypeOK
<1>1. CASE Truncate
  <2>1. file \subseteq pending' /\ phase = "watch" /\ file # {} /\ file' = {}
    BY <1>1 DEF Truncate, Writing
  <2>2. UNCHANGED <<phase, startHash, loaded, configHash, mutex, seen>>
    BY <1>1 DEF Truncate, boot, store
  <2>3. Starting' /\ HashedIsLoaded'
    BY <1>a, <2>1, <2>2 DEF Starting, HashedIsLoaded
  <2>4. SeenKept'
    BY <1>a, <2>1, <2>2 DEF SeenKept
  <2>5. QED  BY <2>3, <2>4
<1>2. CASE Fill
  <2>1. file' = pending /\ pending' = {} /\ pending # {}
    BY <1>2 DEF Fill
  <2>2. UNCHANGED <<phase, startHash, loaded, configHash, mutex, seen>>
    BY <1>2 DEF Fill, boot, store
  <2>3. QED
    BY <1>a, <2>1, <2>2 DEF Starting, SeenKept, HashedIsLoaded
<1>3. CASE StartLoad
  <2>1. mutex' = Nobody /\ configHash' = NoHash /\ phase' = "hash" /\ loaded' = file
        /\ UNCHANGED <<file, pending>> /\ pending = {}
    BY <1>3 DEF StartLoad, Quiet, Writing, panel
  <2>2. QED
    BY <2>1, HashTyping DEF Starting, SeenKept, HashedIsLoaded
<1>4. CASE StartHash
  BY <1>a, <1>4 DEF StartHash, Starting, SeenKept, HashedIsLoaded, panel, store
<1>5. CASE StartPath
  BY <1>a, <1>5 DEF StartPath, Starting, SeenKept, HashedIsLoaded, panel, store
<1>6. CASE StartWatch
  <2>1. configHash' = HashOf(loaded) /\ phase' = "watch"
    BY <1>a, <1>6 DEF StartWatch, Starting
  <2>2. UNCHANGED <<file, pending, loaded, mutex, seen>>
    BY <1>6 DEF StartWatch, panel
  <2>3. HashedIsLoaded'
    BY <1>b, <2>1, <2>2, HashTyping DEF HashedIsLoaded
  <2>4. QED  BY <1>a, <2>1, <2>2, <2>3 DEF Starting, SeenKept
<1>7. CASE Restart
  <2>1. mutex' = Nobody /\ configHash' = NoHash /\ phase' = "load"
    BY <1>7 DEF Restart
  <2>2. QED  BY <2>1, HashTyping DEF Starting, SeenKept, HashedIsLoaded
<1>8. ASSUME NEW p \in Sessions \union {Watcher}, HashNew(p),
             UNCHANGED <<panel, boot>>
      PROVE  (Starting /\ SeenKept /\ HashedIsLoaded)'
  <2>1. seen' = HashOf(file) /\ UNCHANGED <<file, pending, loaded, configHash>>
        /\ UNCHANGED <<phase, startHash>>
    BY <1>8 DEF HashNew, panel, boot
  <2>2. SeenKept'
    BY <1>b, <2>1, HashTyping DEF SeenKept, Writing
  <2>3. QED  BY <1>a, <2>1, <2>2 DEF Starting, HashedIsLoaded
<1>9. ASSUME NEW p \in Sessions \union {Watcher}, Load(p), UNCHANGED <<panel, boot>>
      PROVE  (Starting /\ SeenKept /\ HashedIsLoaded)'
  <2>1. mutex = p /\ p # Nobody /\ mutex' = Nobody
    BY <1>9, ReloadAssumption DEF Load
  <2>2. UNCHANGED <<file, pending, phase, startHash>>
    BY <1>9 DEF panel, boot
  <2>3. CASE file # {}
    <3>1. configHash' = seen /\ loaded' = file
      BY <1>9, <2>3 DEF Load
    <3>2. HashedIsLoaded'
      BY <1>a, <2>1, <2>2, <2>3, <3>1 DEF HashedIsLoaded, SeenKept
    <3>3. Starting'
      BY <1>a, <2>2, <3>1 DEF Starting
    <3>4. QED  BY <2>1, <3>2, <3>3 DEF SeenKept
  <2>4. CASE file = {}
    <3>1. UNCHANGED <<configHash, loaded>>
      BY <1>9, <2>4 DEF Load
    <3>2. QED
      BY <1>a, <2>1, <2>2, <3>1 DEF Starting, SeenKept, HashedIsLoaded
  <2>5. QED  BY <2>3, <2>4
<1>10. CASE UNCHANGED <<panel, boot, store>>
  BY <1>a, <1>10 DEF Starting, SeenKept, HashedIsLoaded, panel, boot, store
<1>11. QED
  BY <1>1, <1>2, <1>3, <1>4, <1>5, <1>6, <1>7, <1>8, <1>9, <1>10
     DEF Next, vars, WatcherHash, WatcherLoad, Connect, Disconnect, RcptLoad, Accept,
         Refuse, RcptHash

LEMMA HonouredStep ==
  TypeOK /\ Quiet /\ Grown /\ NewDomainHonoured /\ [Next]_vars => NewDomainHonoured'
<1> SUFFICES ASSUME TypeOK, Quiet, Grown, NewDomainHonoured, [Next]_vars
             PROVE  NewDomainHonoured'
  OBVIOUS
<1>1. CASE answer' = NoAnswer
  BY <1>1 DEF NewDomainHonoured, NoAnswer
<1>2. ASSUME NEW s \in Sessions, NEW d \in Domains, Accept(s, d)
      PROVE  NewDomainHonoured'
  BY <1>2 DEF Accept, Answer, NewDomainHonoured
<1>3. ASSUME NEW s \in Sessions, NEW d \in Domains, Refuse(s, d),
             phase' = "watch", ~disturbed'
      PROVE  file' \subseteq loaded'
  <2>1. phase = "watch" /\ ~disturbed /\ UNCHANGED <<file, loaded>>
    BY <1>3 DEF Refuse, panel, boot, store
  <2>2. HashOf(file) = configHash
    BY <1>3, <2>1 DEF Refuse, Quiet
  <2>3. QED  BY <2>1, <2>2 DEF Grown, HashedIsLoaded, TypeOK
<1>4. ASSUME NEW s \in Sessions, RcptLoad(s) PROVE NewDomainHonoured'
  <2>1. file' = file /\ domains'[s] = IF file # {} THEN file ELSE domains[s]
    BY <1>4 DEF RcptLoad, panel, TypeOK
  <2>2. PICK d \in rcpt[s] : Answer(IF d \in domains'[s] THEN 250 ELSE 550, d)
    BY <1>4 DEF RcptLoad
  <2>3. answer'.code = 550 => answer'.domain \intersect file' = {}
    BY <2>1, <2>2 DEF Answer
  <2>4. QED  BY <2>3 DEF NewDomainHonoured
<1>5. CASE UNCHANGED vars
  BY <1>5 DEF NewDomainHonoured, vars, panel, boot, store
<1>6. ASSUME NEW s \in Sessions, NEW d \in Domains, Refuse(s, d)
      PROVE  NewDomainHonoured'
  BY <1>3, <1>6 DEF NewDomainHonoured
<1>7. QED
  BY <1>1, <1>2, <1>4, <1>5, <1>6
     DEF Next, Truncate, Fill, StartLoad, StartHash, StartPath, StartWatch, Restart,
         WatcherHash, WatcherLoad, Connect, Disconnect, RcptHash

\* However reloads, sessions and edits interleave, and whatever the number of restarts:
\* as long as domains are only added, and none while the server starts, a 550 never
\* names a domain of the file that the process has not loaded.
THEOREM Honoured == Spec => []NewDomainHonoured
<1>1. Init => DomainInv
  <2> SUFFICES ASSUME Init PROVE DomainInv
    OBVIOUS
  <2>1. Writing /\ NewDomainHonoured /\ Quiet
    BY ReloadAssumption DEF Init, Writing, NewDomainHonoured, NoAnswer, Quiet
  <2>2. Starting /\ SeenKept
    BY DEF Init, Starting, SeenKept
  <2>3. HashedIsLoaded
    BY HashTyping DEF Init, HashedIsLoaded
  <2>4. QED  BY <2>1, <2>2, <2>3, TypeInit DEF DomainInv, Grown
<1>2. DomainInv /\ [Next]_vars => DomainInv'
  BY TypeStep, WritingStep, QuietStep, GrownStep, HonouredStep DEF DomainInv
<1>3. DomainInv => NewDomainHonoured
  BY DEF DomainInv
<1>4. QED  BY <1>1, <1>2, <1>3, PTL DEF Spec
=============================================================================
