-------------------------- MODULE ConfigStoreProofs -------------------------
(***************************************************************************)
(* Proofs about ConfigStore, for every set of requests and of domains, in a  *)
(* directory that can be written and in one that cannot, with any number of  *)
(* refused writes and of restarts.                                           *)
(***************************************************************************)
EXTENDS ConfigStore, TLAPS, FiniteSetTheorems

-----------------------------------------------------------------------------
(* Type correctness.                                                        *)

LEMMA ConfigTyping ==
  /\ {NoFile, Blank, Nothing, First} \subseteq Config
  /\ NoEdit \in Edit /\ Idle \in Op
<1>1. {NoFile, Blank, Nothing, First} \subseteq Config
  BY ConfigAssumption DEF NoFile, Blank, Nothing, First, Config
<1>2. NoEdit \in Edit
  BY DEF NoEdit, Edit
<1>3. Idle \in Op
  BY <1>1, <1>2 DEF Idle, Op
<1>4. QED  BY <1>1, <1>2, <1>3

\* A validated edit of a config is a config.
LEMMA AppliedTyping ==
  ASSUME NEW c \in Config, NEW e \in Edit
  PROVE  Applied(c, e) \in Config
<1>1. e.kind \in {"add", "remove", "put"}
  BY DEF Edit
<1>2. CASE e.kind \in {"add", "remove"}
  <2>1. e.domain \in Domains
    BY <1>2 DEF Edit
  <2>2. QED  BY <1>2, <2>1 DEF Applied, Config
<1>3. CASE e.kind = "put"
  <2>1. e.value \in Nat
    BY <1>3 DEF Edit
  <2>2. QED  BY <1>3, <2>1 DEF Applied, Config
<1>4. QED  BY <1>1, <1>2, <1>3

\* What the panel asks for is an edit.
LEMMA EditsTyping == requests \in Nat => Edits \subseteq Edit
<1> SUFFICES ASSUME requests \in Nat, NEW e \in Edits PROVE e \in Edit
  OBVIOUS
<1>1. requests + 2 \in Nat
  OBVIOUS
<1>2. QED  BY <1>1 DEF Edits, Edit

\* The values a handler stores in its record keep it a handler's record.
LEMMA OpTyping ==
  ASSUME NEW x \in Op, NEW c \in Config
  PROVE  /\ \A p \in {"idle", "commit", "backup", "copy", "truncate", "fill",
                      "reload", "apply", "publish", "replace"} :
              /\ [x EXCEPT !.pc = p] \in Op
              /\ [x EXCEPT !.pc = p, !.prev = c] \in Op
              /\ [x EXCEPT !.pc = p, !.seen = c] \in Op
              /\ [x EXCEPT !.pc = p, !.undo = TRUE] \in Op
         /\ \A e \in Edit :
              [x EXCEPT !.pc = "commit", !.edit = e, !.next = c] \in Op
  BY DEF Op

\* A handler that only goes on to its next step.
LEMMA GotoTyping ==
  ASSUME op \in [Admins -> Op], NEW a \in Admins,
         NEW p \in {"idle", "commit", "backup", "copy", "truncate", "fill", "reload",
                    "apply", "publish", "replace"}, Goto(a, p)
  PROVE  op' \in [Admins -> Op]
<1>1. [op[a] EXCEPT !.pc = p] \in Op
  BY OpTyping, ConfigTyping
<1>2. QED  BY <1>1 DEF Goto

LEMMA TypeInit == Init => TypeOK
<1> SUFFICES ASSUME Init PROVE TypeOK
  OBVIOUS
<1>1. up \in BOOLEAN
  BY DEF Init
<1>2. overlap \in BOOLEAN /\ uncopied \in BOOLEAN /\ lost \in BOOLEAN
  BY DEF Init
<1>6. writable \in BOOLEAN
  BY DEF Init
<1>3. op \in [Admins -> Op] /\ {file, bak, settings} \subseteq Config
  BY ConfigTyping DEF Init
<1>4. {requests, faults, crashes} \subseteq Nat /\ web \in Nat
  BY DEF Init
<1>5. QED  BY <1>1, <1>2, <1>3, <1>4, <1>6 DEF Init, TypeOK

LEMMA ReadTyping == TypeOK => ReadConfig \in Config
  BY ConfigTyping DEF TypeOK, ReadConfig

\* Every step keeps TypeOK.
LEMMA TypeStep == TypeOK /\ [Next]_vars => TypeOK'
<1> SUFFICES ASSUME TypeOK, [Next]_vars PROVE TypeOK'
  OBVIOUS
<1>t. file \in Config /\ bak \in Config /\ op \in [Admins -> Op]
  BY DEF TypeOK
<1>r. ReadConfig \in Config
  BY ReadTyping
<1>1. ASSUME NEW a \in Admins, NEW e \in Edits, Request(a, e) PROVE TypeOK'
  <2>1. e \in Edit /\ (e.kind = "remove" => e.domain \in Domains)
    BY EditsTyping DEF TypeOK, Edit
  <2>2. Applied(ReadConfig, e) \in Config
    BY <1>r, <2>1, AppliedTyping
  <2>3. [Idle EXCEPT !.pc = "commit", !.edit = e, !.next = Applied(ReadConfig, e)] \in Op
    BY <2>1, <2>2, ConfigTyping, OpTyping
  <2>4. op' \in [Admins -> Op]
    BY <1>1, <2>3 DEF TypeOK, Request
  <2>5. asked' \subseteq Domains /\ requests' \in Nat
    BY <1>1, <2>1 DEF TypeOK, Request
  <2>6. overlap' \in BOOLEAN
    BY <1>1 DEF Request
  <2>7. UNCHANGED <<writable, file, bak, lock, settings, web, up, faults, crashes, acked,
                    uncopied, lost>>
    BY <1>1 DEF Request, files
  <2>8. QED  BY <2>4, <2>5, <2>6, <2>7 DEF TypeOK
<1>2. ASSUME NEW a \in Admins,
             ReadPrevious(a) \/ ReloadRead(a) \/ Publish(a)
      PROVE  TypeOK'
  <2>1. op' \in [Admins -> Op]
    <3>1. CASE ReadPrevious(a)
      BY <1>r, <1>t, <3>1, OpTyping DEF ReadPrevious
    <3>2. CASE ReloadRead(a)
      <4>1. /\ [op[a] EXCEPT !.pc = "apply", !.seen = file] \in Op
            /\ [op[a] EXCEPT !.pc = "backup", !.undo = TRUE] \in Op
        BY <1>t, OpTyping
      <4>2. QED  BY <1>t, <3>2, <4>1, ConfigTyping DEF ReloadRead
    <3>3. CASE Publish(a)
      <4>1. [op[a] EXCEPT !.pc = "replace", !.seen = ReadConfig] \in Op
        BY <1>r, <1>t, OpTyping
      <4>2. QED  BY <1>t, <3>3, <4>1, ConfigTyping DEF Publish
    <3>4. QED  BY <1>2, <3>1, <3>2, <3>3
  <2>2. UNCHANGED <<writable, files, lock, settings, web, up, requests, faults, crashes, log>>
    BY <1>2 DEF ReadPrevious, ReloadRead, Publish
  <2>3. QED  BY <2>1, <2>2 DEF TypeOK, files, log, hist
<1>3. ASSUME NEW a \in Admins, Backup(a) \/ Copy(a) \/ Truncate(a) PROVE TypeOK'
  <2>1. op' \in [Admins -> Op]
    BY <1>3, <1>t, GotoTyping DEF Backup, Copy, Truncate
  <2>2. uncopied' \in BOOLEAN
    <3>1. uncopied' = TRUE \/ UNCHANGED uncopied
      BY <1>3 DEF Backup, Copy, Truncate, log
    <3>2. QED  BY <3>1 DEF TypeOK
  <2>6. faults' \in Nat
    BY <1>3 DEF TypeOK, Backup, Copy, Truncate
  <2>3. file' \in Config /\ bak' \in Config /\ lock' \in Admins \union {NoOne}
    BY <1>3, <1>t, ConfigTyping DEF TypeOK, Backup, Copy, Truncate
  <2>4. UNCHANGED <<writable, settings, web, up, requests, crashes, hist, lost>>
    BY <1>3 DEF Backup, Copy, Truncate, log
  <2>5. QED  BY <2>1, <2>2, <2>3, <2>4, <2>6 DEF TypeOK, hist
<1>4. ASSUME NEW a \in Admins, Fill(a) \/ FillFails(a) PROVE TypeOK'
  <2>1. op' \in [Admins -> Op]
    <3>1. CASE Fill(a)
      BY <1>t, <3>1, GotoTyping DEF Fill
    <3>2. CASE FillFails(a)
      BY <1>t, <3>2, ConfigTyping DEF FillFails
    <3>3. QED  BY <1>4, <3>1, <3>2
  <2>2. file' \in Config /\ bak' \in Config
    BY <1>4, <1>t, ConfigTyping DEF Fill, FillFails, files, Op, Dumped
  <2>3. uncopied' \in BOOLEAN /\ lost' \in BOOLEAN
    <3>1. uncopied' = FALSE /\ (UNCHANGED lost \/ lost' = (lost \/ uncopied))
      BY <1>4 DEF Fill, FillFails
    <3>2. QED  BY <3>1 DEF TypeOK
  <2>6. faults' \in Nat
    BY <1>4 DEF TypeOK, Fill, FillFails
  <2>4. UNCHANGED <<writable, settings, web, up, requests, crashes, hist>> /\ lock' = NoOne
    BY <1>4 DEF Fill, FillFails
  <2>5. QED  BY <2>1, <2>2, <2>3, <2>4, <2>6 DEF TypeOK, hist
<1>5. ASSUME NEW a \in Admins, Apply(a) \/ Replace(a) PROVE TypeOK'
  <2>1. op' \in [Admins -> Op]
    <3>1. [op EXCEPT ![a] = Idle] \in [Admins -> Op]
      BY <1>t, ConfigTyping
    <3>2. CASE op' = [op EXCEPT ![a] = Idle]
      BY <3>1, <3>2
    <3>3. CASE Goto(a, "publish")
      BY <1>t, <3>3, GotoTyping
    <3>4. QED  BY <1>5, <3>2, <3>3 DEF Apply, Replace
  <2>2. settings' \in Config /\ web' \in Nat /\ acked' \subseteq Edit
    BY <1>5 DEF TypeOK, Apply, Replace, Op, Config
  <2>3. UNCHANGED <<writable, files, lock, up, requests, faults, crashes, asked, overlap,
                    uncopied, lost>>
    BY <1>5 DEF Apply, Replace
  <2>4. QED  BY <2>1, <2>2, <2>3 DEF TypeOK, files
<1>6. CASE Crash
  <2>1. op' \in [Admins -> Op] /\ crashes' \in Nat
    BY <1>6, ConfigTyping DEF TypeOK, Crash
  <2>2. up' \in BOOLEAN /\ uncopied' \in BOOLEAN /\ lost' \in BOOLEAN
    BY <1>6 DEF Crash
  <2>3. UNCHANGED <<writable, file, bak, settings, web, requests, faults, hist>>
        /\ lock' = NoOne
    BY <1>6 DEF Crash, files
  <2>4. QED  BY <2>1, <2>2, <2>3 DEF TypeOK, hist
<1>7. CASE Boot
  <2>1. settings' \in Config /\ web' \in Nat
    BY <1>7 DEF TypeOK, Boot, Config
  <2>2. up' \in BOOLEAN
    BY <1>7 DEF TypeOK, Boot
  <2>3. QED  BY <1>7, <2>1, <2>2 DEF TypeOK, Boot, files, log, hist
<1>8. CASE UNCHANGED vars
  BY <1>8 DEF TypeOK, vars, files, log, hist
<1>9. QED
  BY <1>1, <1>2, <1>3, <1>4, <1>5, <1>6, <1>7, <1>8 DEF Next, Handler, Spent

\* The files, the running process and every handler hold configs and edits of the
\* kind the code gives them, whatever fails and wherever the process is killed.
THEOREM StoreTypes == Spec => []TypeOK
<1>1. QED  BY TypeInit, TypeStep, PTL DEF Spec

-----------------------------------------------------------------------------
(* The files can be recovered from.                                         *)

\* A config of the installation that has a domain.
Whole(c) == c.form = "whole" /\ c.domains # {}

\* No config of the installation that has none.
Safe(c) == c.form = "whole" => c.domains # {}

\* The lock is held exactly by the handler inside write_config.
LockHeld == \A a \in Admins : op[a].pc \in {"copy", "truncate", "fill"} <=> lock = a

\* Whatever is lost: the running process has a domain, and so has every whole config.
Kept ==
  /\ up => settings.domains # {}
  /\ Safe(file) /\ Safe(bak)
  /\ \A a \in Admins :
       /\ op[a].pc # "idle" => up /\ Safe(op[a].next)
       /\ op[a].pc \notin {"idle", "commit"} => Safe(op[a].prev)
       /\ op[a].pc = "apply" => op[a].seen.domains # {}

\* Until something is lost, everything a handler will write or write back is whole ...
WholeOps ==
  \A a \in Admins :
    /\ op[a].pc # "idle" => Whole(op[a].next)
    /\ op[a].pc \notin {"idle", "commit"} => Whole(op[a].prev)

\* ... and so is what the files hold ...
WholeFiles ==
  /\ file # Blank => Whole(file)
  /\ bak \notin {NoFile, Blank} => Whole(bak)

\* ... which is enough for read_config(), and on every way through write_config.
Readable ==
  /\ lock = NoOne => Parses(file) \/ Parses(bak)
  /\ \A a \in Admins :
       /\ op[a].pc \in {"copy", "truncate"} => Parses(file) \/ Parses(bak)
       /\ op[a].pc = "copy" => file # Blank
       /\ op[a].pc \in {"truncate", "fill"} => Parses(bak) \/ uncopied

StoreInv == TypeOK /\ LockHeld /\ Kept /\ (lost \/ (WholeOps /\ WholeFiles /\ Readable))

\* An edit that passes its validation leaves a domain.
LEMMA AppliedKeepsDomain ==
  ASSUME NEW c \in Config, NEW e \in Edit, Allowed(c, e)
  PROVE  /\ Whole(c) => Whole(Applied(c, e))
         /\ Safe(c) => Safe(Applied(c, e))
<1>1. e.kind \in {"add", "remove", "put"}
  BY DEF Edit
<1>2. CASE e.kind = "remove"
  <2>1. e.domain \in c.domains /\ Cardinality(c.domains) > 1
    BY <1>2 DEF Allowed
  <2>2. Cardinality({e.domain}) = 1
    BY FS_Singleton
  <2>3. c.domains # {e.domain}
    BY <2>1, <2>2
  <2>4. c.domains \ {e.domain} # {}
    BY <2>1, <2>3
  <2>5. QED  BY <1>2, <2>4 DEF Applied, Whole, Safe, Config
<1>3. CASE e.kind = "add"
  BY <1>3 DEF Applied, Whole, Safe, Config
<1>4. CASE e.kind = "put"
  BY <1>4 DEF Applied, Whole, Safe, Config
<1>5. QED  BY <1>1, <1>2, <1>3, <1>4

\* What parses, and what does not.
LEMMA ParsesWhole ==
  /\ \A c \in Config : Whole(c) => Parses(c)
  /\ ~Parses(Blank) /\ ~Parses(NoFile) /\ ~Parses(Nothing)
  /\ \A c \in Config : Whole(c) => c # Blank /\ Dumped(c) = c
  /\ Safe(Blank) /\ Safe(Nothing)
  BY DEF Whole, Safe, Parses, Blank, NoFile, Nothing, Dumped

\* What read_config() returns, whatever is lost and before anything is.
LEMMA ReadSafe == Kept => Safe(ReadConfig)
  BY ParsesWhole DEF Kept, ReadConfig

LEMMA ReadWhole ==
  ASSUME StoreInv, ~lost, lock = NoOne
  PROVE  /\ ReadConfig \in Config /\ Whole(ReadConfig)
         /\ file # Blank => ReadConfig = file
         /\ file = Blank => ReadConfig = bak
<1>1. TypeOK /\ WholeFiles /\ Readable
  BY DEF StoreInv
<1>2. file \in Config /\ ReadConfig \in Config
  BY <1>1, ReadTyping DEF TypeOK
<1>3. file # Blank => ReadConfig = file
  BY <1>1, <1>2, ParsesWhole DEF WholeFiles, ReadConfig
<1>4. file = Blank => ReadConfig = bak /\ bak \notin {NoFile, Blank}
  BY <1>1, ParsesWhole DEF Readable, ReadConfig
<1>5. QED  BY <1>1, <1>2, <1>3, <1>4 DEF WholeFiles

\* Nothing is found again by itself.
LEMMA LostStays == ASSUME [Next]_vars, lost PROVE lost'
  BY DEF Next, Handler, Request, ReadPrevious, Backup, Copy, Truncate, Fill, FillFails,
         ReloadRead, Apply, Publish, Replace, Crash, Boot, Spent, vars, log

\* What a step of one handler does to the records of the others.
LEMMA HandlerAlone ==
  ASSUME TypeOK, NEW a \in Admins, Handler(a)
  PROVE  \A b \in Admins \ {a} : op'[b] = op[b]
  BY DEF TypeOK, Handler, Request, ReadPrevious, Backup, Copy, Truncate, Fill,
         FillFails, ReloadRead, Apply, Publish, Replace, Goto

\* Every step but a crash and a start leaves the process as it is.
LEMMA HandlerUp == ASSUME NEW a \in Admins, Handler(a) PROVE up' = up
  BY DEF Handler, Request, ReadPrevious, Backup, Copy, Truncate, Fill,
         FillFails, ReloadRead, Apply, Publish, Replace

LEMMA LockStep == StoreInv /\ [Next]_vars => LockHeld'
<1> DEFINE Inside(x) == x.pc \in {"copy", "truncate", "fill"}
<1> SUFFICES ASSUME StoreInv, [Next]_vars PROVE LockHeld'
  OBVIOUS
<1>t. op \in [Admins -> Op] /\ LockHeld /\ TypeOK /\ NoOne \notin Admins
  BY ConfigAssumption DEF StoreInv, TypeOK
<1>1. ASSUME NEW a \in Admins, Handler(a) PROVE LockHeld'
  <2>1. \A b \in Admins \ {a} : op'[b] = op[b]
    BY <1>1, <1>t, HandlerAlone
  <2>2. \A b \in Admins : Inside(op[b]) <=> lock = b
    BY <1>t DEF LockHeld
  <2>3. CASE ~Inside(op[a]) /\ ~Inside(op'[a]) /\ lock' = lock
    BY <1>t, <2>1, <2>2, <2>3 DEF LockHeld
  <2>4. CASE Inside(op[a]) /\ Inside(op'[a]) /\ lock' = lock
    BY <1>t, <2>1, <2>2, <2>4 DEF LockHeld
  <2>5. CASE Inside(op'[a]) /\ lock = NoOne /\ lock' = a
    BY <1>t, <2>1, <2>2, <2>5 DEF LockHeld
  <2>6. CASE Inside(op[a]) /\ ~Inside(op'[a]) /\ lock' = NoOne
    BY <1>t, <2>1, <2>2, <2>6 DEF LockHeld
  <2>7. CASE \E e \in Edits : Request(a, e)
    BY <1>t, <2>3, <2>7 DEF Request, Idle
  <2>8. CASE ReadPrevious(a) \/ ReloadRead(a) \/ Publish(a) \/ Apply(a) \/ Replace(a)
    BY <1>t, <2>3, <2>8 DEF Op, ReadPrevious, ReloadRead, Publish, Apply, Replace, Goto,
         Idle
  <2>9. CASE Backup(a)
    BY <1>t, <2>5, <2>9 DEF Op, Backup, Goto
  <2>10. CASE Copy(a) \/ Truncate(a)
    BY <1>t, <2>4, <2>10 DEF Op, Copy, Truncate, Goto
  <2>11. CASE Fill(a) \/ FillFails(a)
    BY <1>t, <2>6, <2>11 DEF Op, Fill, FillFails, Goto, Idle
  <2>12. QED  BY <1>1, <2>7, <2>8, <2>9, <2>10, <2>11 DEF Handler
<1>2. CASE Crash
  BY <1>t, <1>2 DEF Crash, LockHeld, Idle
<1>3. CASE Boot \/ UNCHANGED vars
  BY <1>t, <1>3 DEF Boot, vars, LockHeld
<1>4. QED  BY <1>1, <1>2, <1>3 DEF Next, Spent

LEMMA KeptStep == StoreInv /\ [Next]_vars => Kept'
<1> SUFFICES ASSUME StoreInv, [Next]_vars PROVE Kept'
  OBVIOUS
<1>t. Kept /\ TypeOK /\ op \in [Admins -> Op] /\ ReadConfig \in Config
  BY ReadTyping DEF StoreInv, TypeOK
<1> DEFINE Good(x) ==
      /\ x.pc # "idle" => up /\ Safe(x.next)
      /\ x.pc \notin {"idle", "commit"} => Safe(x.prev)
      /\ x.pc = "apply" => x.seen.domains # {}
<1>1. ASSUME NEW a \in Admins, Handler(a) PROVE Kept'
  <2>1. (\A b \in Admins \ {a} : op'[b] = op[b]) /\ up' = up
    BY <1>1, <1>t, HandlerAlone, HandlerUp
  <2>2. Good(op[a]) /\ op[a] \in Op
    BY <1>t DEF Kept
  <2>3. Good(op'[a])
    <3>1. ASSUME NEW e \in Edits, Request(a, e) PROVE Good(op'[a])
      <4>1. e \in Edit /\ Safe(ReadConfig)
        BY <1>t, EditsTyping, ReadSafe DEF TypeOK
      <4>2. Safe(Applied(ReadConfig, e))
        BY <1>t, <3>1, <4>1, AppliedKeepsDomain DEF Request
      <4>3. up /\ op'[a] = [Idle EXCEPT !.pc = "commit", !.edit = e,
                               !.next = Applied(ReadConfig, e)]
        BY <1>t, <3>1 DEF Request
      <4>4. QED  BY <4>2, <4>3 DEF Idle
    <3>2. CASE ReadPrevious(a)
      BY <1>t, <2>2, <3>2, ReadSafe DEF ReadPrevious, Op
    <3>3. CASE Backup(a) \/ Copy(a) \/ Truncate(a) \/ Fill(a)
      BY <1>t, <2>2, <3>3 DEF Backup, Copy, Truncate, Fill, Goto, Op
    <3>4. CASE ReloadRead(a)
      BY <1>t, <2>2, <3>4 DEF ReloadRead, Idle, Op
    <3>5. CASE FillFails(a) \/ Replace(a) \/ Apply(a) \/ Publish(a)
      BY <1>t, <2>2, <3>5 DEF FillFails, Replace, Apply, Publish, Goto, Idle, Op
    <3>6. QED  BY <1>1, <3>1, <3>2, <3>3, <3>4, <3>5 DEF Handler
  <2>4. Safe(file)' /\ Safe(bak)'
    <3>1. CASE UNCHANGED <<file, bak>>
      BY <1>t, <3>1 DEF Kept, Safe
    <3>2. CASE Backup(a) \/ Copy(a) \/ Truncate(a)
      BY <1>t, <3>2, ParsesWhole DEF Backup, Copy, Truncate, Kept, Safe
    <3>3. CASE Fill(a)
      <4>1. Safe(op[a].next) /\ Safe(op[a].prev)
        BY <2>2, <3>3 DEF Fill
      <4>2. bak' = bak /\ Safe(file')
        BY <3>3, <4>1, ParsesWhole DEF Fill, Dumped
      <4>3. QED  BY <1>t, <4>2 DEF Kept, Safe
    <3>4. QED
      BY <1>1, <3>1, <3>2, <3>3 DEF Handler, Request, ReadPrevious, FillFails, ReloadRead,
                                   Apply, Publish, Replace, files
  <2>5. (up => settings.domains # {})'
    <3>1. CASE Apply(a)
      BY <2>2, <3>1 DEF Apply
    <3>2. CASE settings' = settings
      BY <1>t, <2>1, <3>2 DEF Kept
    <3>3. QED
      BY <1>1, <3>1, <3>2 DEF Handler, Request, ReadPrevious, Backup, Copy, Truncate, Fill,
                              FillFails, ReloadRead, Publish, Replace
  <2>6. QED  BY <1>t, <2>1, <2>3, <2>4, <2>5 DEF Kept
<1>2. CASE Crash
  BY <1>t, <1>2 DEF Crash, Kept, Safe, Idle, files
<1>3. CASE Boot
  BY <1>t, <1>3 DEF Boot, Kept, Safe, files
<1>4. CASE UNCHANGED vars
  BY <1>t, <1>4 DEF vars, Kept, Safe, files
<1>5. QED  BY <1>1, <1>2, <1>3, <1>4 DEF Next, Spent

LEMMA WholeFilesStep ==
  ASSUME StoreInv, ~lost, [Next]_vars
  PROVE  WholeFiles'
<1>t. WholeFiles /\ WholeOps /\ TypeOK /\ op \in [Admins -> Op]
  BY DEF StoreInv, TypeOK
<1>1. CASE UNCHANGED <<file, bak>>
  BY <1>t, <1>1 DEF WholeFiles, Whole
<1>2. ASSUME NEW a \in Admins, Backup(a) \/ Copy(a) \/ Truncate(a) PROVE WholeFiles'
  BY <1>t, <1>2 DEF WholeFiles, Backup, Copy, Truncate, Whole
<1>3. ASSUME NEW a \in Admins, Fill(a) PROVE WholeFiles'
  <2>1. op[a] \in Op /\ Whole(op[a].next) /\ Whole(op[a].prev)
    BY <1>t, <1>3 DEF Fill, WholeOps
  <2>2. bak' = bak /\ Whole(file')
    BY <1>3, <2>1, ParsesWhole DEF Fill, Op
  <2>3. QED  BY <1>t, <2>2 DEF WholeFiles, Whole
<1>4. QED
  BY <1>1, <1>2, <1>3
     DEF Next, Handler, Request, ReadPrevious, FillFails, ReloadRead, Apply, Publish,
         Replace, Crash, Boot, Spent, vars, files

LEMMA WholeOpsStep ==
  ASSUME StoreInv, ~lost, [Next]_vars
  PROVE  WholeOps'
<1>t. WholeOps /\ TypeOK /\ op \in [Admins -> Op]
  BY DEF StoreInv, TypeOK
<1> DEFINE Good(x) ==
      /\ x.pc # "idle" => Whole(x.next)
      /\ x.pc \notin {"idle", "commit"} => Whole(x.prev)
<1>1. ASSUME NEW a \in Admins, Handler(a) PROVE WholeOps'
  <2>1. \A b \in Admins \ {a} : op'[b] = op[b]
    BY <1>1, <1>t, HandlerAlone
  <2>3. Good(op[a]) /\ op[a] \in Op
    BY <1>t DEF WholeOps
  <2>4. Good(op'[a])
    <3>1. ASSUME NEW e \in Edits, Request(a, e) PROVE Good(op'[a])
      <4>1. Whole(Applied(ReadConfig, e))
        BY <3>1, <1>t, ReadWhole, AppliedKeepsDomain, EditsTyping DEF Request, TypeOK
      <4>2. QED  BY <1>t, <3>1, <4>1 DEF Request, Idle
    <3>2. CASE ReadPrevious(a)
      <4>1. Whole(ReadConfig)
        BY <3>2, ReadWhole DEF ReadPrevious
      <4>2. QED  BY <1>t, <2>3, <3>2, <4>1 DEF ReadPrevious, Op
    <3>3. CASE Backup(a) \/ Copy(a) \/ Truncate(a) \/ Fill(a)
      BY <1>t, <2>3, <3>3 DEF Backup, Copy, Truncate, Fill, Goto, Op
    <3>4. CASE ReloadRead(a)
      BY <1>t, <2>3, <3>4 DEF ReloadRead, Idle, Op
    <3>5. CASE FillFails(a) \/ Replace(a) \/ Apply(a) \/ Publish(a)
      BY <1>t, <2>3, <3>5 DEF FillFails, Replace, Apply, Publish, Goto, Idle, Op
    <3>6. QED  BY <1>1, <3>1, <3>2, <3>3, <3>4, <3>5 DEF Handler
  <2>5. QED  BY <1>t, <2>1, <2>4 DEF WholeOps
<1>2. CASE Crash
  BY <1>t, <1>2 DEF Crash, WholeOps, Idle
<1>3. CASE Boot \/ UNCHANGED vars
  BY <1>t, <1>3 DEF Boot, vars, WholeOps
<1>4. QED  BY <1>1, <1>2, <1>3 DEF Next, Spent

\* A write that is cut short while its backup was refused is lost: when nothing is lost,
\* the backup is there whenever the file is truncated.
LEMMA ReadableStep ==
  ASSUME StoreInv, ~lost, [Next]_vars, ~lost'
  PROVE  Readable'
<1>t. /\ Readable /\ LockHeld /\ WholeOps /\ WholeFiles /\ TypeOK /\ op \in [Admins -> Op]
      /\ lock \in Admins \union {NoOne} /\ file \in Config /\ bak \in Config
  BY DEF StoreInv, TypeOK
<1>p. file # Blank => Parses(file)
  BY <1>t, ParsesWhole DEF WholeFiles
<1>1. ASSUME NEW a \in Admins, Handler(a) PROVE Readable'
  <2>1. \A b \in Admins \ {a} : op'[b] = op[b]
    BY <1>1, <1>t, HandlerAlone
  <2>2. CASE \E e \in Edits : Request(a, e)
    BY <1>t, <2>1, <2>2 DEF Readable, Parses, Request, Idle, files
  <2>3. CASE ReadPrevious(a) \/ ReloadRead(a) \/ Publish(a) \/ Apply(a) \/ Replace(a)
    <3>1. op'[a].pc \notin {"copy", "truncate", "fill"} /\ UNCHANGED <<file, bak, lock, uncopied>>
      BY <1>t, <2>3 DEF Op, ReadPrevious, ReloadRead, Publish, Apply, Replace, Goto, Idle,
                        files, log
    <3>2. QED  BY <1>t, <2>1, <3>1 DEF Readable, Parses
  <2>4. \A b \in Admins \ {a} : lock \in {a, NoOne} => op[b].pc \notin {"copy", "truncate", "fill"}
    BY <1>t, ConfigAssumption DEF LockHeld
  <2>5. CASE Backup(a)
    <3>1. Parses(file) \/ Parses(bak)
      BY <1>t, <2>5 DEF Backup, Readable
    <3>2. op[a] \in Op /\ file' = file
      BY <1>t, <2>5 DEF Backup
    <3>3. \/ op'[a].pc = "copy" /\ file # Blank
          \/ op'[a].pc = "truncate" /\ file = Blank /\ bak' = bak
          \/ op'[a].pc = "truncate" /\ file # Blank /\ uncopied'
      BY <1>t, <2>5, <3>2 DEF Op, Backup, Goto
    <3>4. /\ op'[a].pc \in {"copy", "truncate"} => Parses(file)' \/ Parses(bak)'
          /\ op'[a].pc = "copy" => file' # Blank
          /\ op'[a].pc \in {"truncate", "fill"} => Parses(bak)' \/ uncopied'
      BY <1>p, <3>1, <3>2, <3>3, ParsesWhole DEF Parses
    <3>5. lock = NoOne /\ lock' # NoOne
      BY <2>5, ConfigAssumption DEF Backup
    <3>6. QED  BY <2>1, <2>4, <3>4, <3>5 DEF Readable
  <2>6. CASE Copy(a)
    <3>1. lock = a /\ lock' = lock /\ a # NoOne
      BY <1>t, <2>6, ConfigAssumption DEF Copy, LockHeld
    <3>2. op'[a].pc = "truncate" /\ file' = file /\ Parses(file)
      BY <1>t, <1>p, <2>6 DEF Op, Copy, Goto, Readable
    <3>3. Parses(file)' /\ (Parses(bak)' \/ uncopied')
      BY <2>6, <3>2 DEF Copy, Parses
    <3>4. QED  BY <2>1, <2>4, <3>1, <3>2, <3>3, ParsesWhole DEF Readable, Parses
  <2>7. CASE Truncate(a)
    <3>1. lock = a /\ lock' = lock /\ a # NoOne
      BY <1>t, <2>7, ConfigAssumption DEF Truncate, LockHeld
    <3>2. op'[a].pc = "fill" /\ UNCHANGED <<bak, uncopied>>
      BY <1>t, <2>7 DEF Op, Truncate, Goto, log
    <3>3. Parses(bak)' \/ uncopied'
      BY <1>t, <2>7, <3>2 DEF Truncate, Readable, Parses
    <3>4. QED  BY <2>1, <2>4, <3>1, <3>2, <3>3 DEF Readable
  <2>8. CASE Fill(a)
    <3>1. op[a] \in Op /\ Whole(op[a].next) /\ Whole(op[a].prev)
      BY <1>t, <2>8 DEF Fill, WholeOps
    <3>2. \E c \in Config : file' = c /\ Parses(c)
      BY <2>8, <3>1, ParsesWhole DEF Fill, Op
    <3>3. Parses(file)'
      BY <3>2 DEF Parses
    <3>4. lock = a /\ op'[a].pc = "reload"
      BY <1>t, <2>8 DEF Fill, Goto, LockHeld, Op
    <3>5. QED  BY <2>1, <2>4, <3>3, <3>4 DEF Readable
  <2>9. CASE FillFails(a)
    <3>1. ~uncopied /\ UNCHANGED <<file, bak>>
      BY <2>9 DEF FillFails, files
    <3>2. Parses(bak)'
      BY <1>t, <2>9, <3>1 DEF FillFails, Readable, Parses
    <3>3. lock = a /\ op'[a].pc = "idle"
      BY <1>t, <2>9 DEF FillFails, LockHeld, Idle
    <3>4. QED  BY <2>1, <2>4, <3>2, <3>3 DEF Readable
  <2>10. QED  BY <1>1, <2>2, <2>3, <2>5, <2>6, <2>7, <2>8, <2>9 DEF Handler
<1>2. CASE Crash
  <2>1. UNCHANGED <<file, bak>> /\ \A a \in Admins : op'[a].pc = "idle"
    BY <1>2 DEF Crash, Idle, files
  <2>2. Parses(file) \/ Parses(bak)
    <3>1. CASE lock = NoOne
      BY <1>t, <3>1 DEF Readable
    <3>2. ASSUME NEW a \in Admins, lock = a PROVE Parses(file) \/ Parses(bak)
      <4>1. op[a].pc \in {"copy", "truncate", "fill"}
        BY <1>t, <3>2 DEF LockHeld
      <4>2. op[a].pc = "fill" => ~uncopied
        BY <1>2 DEF Crash
      <4>3. QED  BY <1>t, <4>1, <4>2 DEF Readable
    <3>3. QED  BY <1>t, <3>1, <3>2
  <2>3. QED  BY <2>1, <2>2 DEF Readable, Parses
<1>3. CASE Boot \/ UNCHANGED vars
  <2>1. UNCHANGED <<file, bak, lock, op, uncopied>>
    BY <1>3 DEF Boot, vars, files, log
  <2>2. QED  BY <1>t, <2>1 DEF Readable, Parses
<1>4. QED  BY <1>1, <1>2, <1>3 DEF Next, Spent

LEMMA StoreInit == Init => StoreInv
<1> SUFFICES ASSUME Init PROVE StoreInv
  OBVIOUS
<1>1. Whole(First) /\ First \in Config
  BY ConfigAssumption, ConfigTyping DEF First, Whole
<1>2. LockHeld /\ WholeOps
  BY ConfigAssumption DEF Init, LockHeld, WholeOps, Idle
<1>3. WholeFiles /\ Readable
  BY <1>1, ParsesWhole DEF Init, WholeFiles, Readable, Idle
<1>4. Kept
  BY <1>1 DEF Init, Kept, Whole, Safe, Idle, NoFile
<1>5. QED  BY <1>2, <1>3, <1>4, TypeInit DEF StoreInv

LEMMA StoreStep == StoreInv /\ [Next]_vars => StoreInv'
<1> SUFFICES ASSUME StoreInv, [Next]_vars PROVE StoreInv'
  OBVIOUS
<1>1. TypeOK' /\ LockHeld' /\ Kept'
  BY TypeStep, LockStep, KeptStep DEF StoreInv
<1>2. ASSUME ~lost' PROVE WholeOps' /\ WholeFiles' /\ Readable'
  <2>1. ~lost
    BY <1>2, LostStays
  <2>2. QED  BY <1>2, <2>1, WholeOpsStep, WholeFilesStep, ReadableStep
<1>3. QED  BY <1>1, <1>2 DEF StoreInv

LEMMA StoreAlways == Spec => []StoreInv
<1>1. QED  BY StoreInit, StoreStep, PTL DEF Spec

\* Where the directory can be written and no full disk refuses a copy, nothing is
\* lost, whatever writes fail and wherever the process is killed: the exception of the
\* theorems below is the refused backup, and nothing else.
Spared == writable /\ "copy" \notin Faults => uncopied = FALSE /\ lost = FALSE

THEOREM BackupsSuffice == Spec => []Spared
<1>1. Init => Spared
  BY DEF Init, Spared
<1>2. Spared /\ [Next]_vars => Spared'
  <2> SUFFICES ASSUME Spared, [Next]_vars, writable', "copy" \notin Faults
               PROVE  uncopied' = FALSE /\ lost' = FALSE
    BY DEF Spared
  <2>1. writable
    <3>1. ASSUME NEW a \in Admins, Handler(a) PROVE writable' = writable
      BY <3>1 DEF Handler, Request, ReadPrevious, Backup, Copy, Truncate, Fill, FillFails,
                  ReloadRead, Apply, Publish, Replace
    <3>2. CASE Crash \/ Boot \/ UNCHANGED vars
      BY <3>2 DEF Crash, Boot, vars
    <3>3. QED  BY <3>1, <3>2 DEF Next, Spent
  <2>2. uncopied = FALSE /\ lost = FALSE
    BY <2>1 DEF Spared
  <2>3. ASSUME NEW a \in Admins, Handler(a) PROVE uncopied' = FALSE /\ lost' = FALSE
    <3>1. CASE Backup(a) \/ Copy(a)
      BY <2>1, <2>2, <3>1 DEF Backup, Copy
    <3>2. CASE Fill(a) \/ FillFails(a)
      BY <2>2, <3>2 DEF Fill, FillFails
    <3>3. CASE UNCHANGED <<uncopied, lost>>
      BY <2>2, <3>3
    <3>4. QED
      BY <2>3, <3>1, <3>2, <3>3
         DEF Handler, Request, ReadPrevious, Truncate, ReloadRead, Apply, Publish, Replace,
             log
  <2>4. CASE Crash \/ Boot \/ UNCHANGED vars
    BY <2>2, <2>4 DEF Crash, Boot, vars, log
  <2>5. QED  BY <2>3, <2>4 DEF Next, Spent
<1>3. QED  BY <1>1, <1>2, PTL DEF Spec

\* At every instant config.yaml or its backup is a whole config, although neither is
\* replaced atomically and handlers and crashes interleave; the exception is a write
\* whose backup was refused, while it is under way and once it was cut short.
THEOREM FilesRecoverable == Spec => []Recoverable
<1>1. StoreInv => Recoverable
  BY DEF StoreInv, TypeOK, Readable, Recoverable, LockHeld
<1>2. QED  BY <1>1, StoreAlways, PTL

\* No sequence of edits, refused writes and restarts leaves a config of the installation
\* or the running process without a mail domain; nor the file, unless a write without a
\* backup was cut short.
THEOREM DomainsStay == Spec => []DomainsNeverEmpty
<1>1. StoreInv => DomainsNeverEmpty
  <2> SUFFICES ASSUME StoreInv PROVE DomainsNeverEmpty
    OBVIOUS
  <2>1. (up => settings.domains # {}) /\ (file.form = "whole" => file.domains # {})
    BY DEF StoreInv, Kept, Safe
  <2>2. ~lost /\ Parses(file) => file.domains # {}
    BY ParsesWhole DEF StoreInv, WholeFiles, Whole
  <2>3. QED  BY <2>1, <2>2 DEF DomainsNeverEmpty
<1>2. QED  BY <1>1, StoreAlways, PTL

\* Until a write without a backup is cut short, what a handler edits, writes or keeps
\* for its rollback was never read from a file another handler was in the middle of
\* writing: it is a whole config.
THEOREM WholeReads == Spec => []NoHalfRead
<1>1. StoreInv => NoHalfRead
  BY DEF StoreInv, WholeOps, Whole, NoHalfRead
<1>2. QED  BY <1>1, StoreAlways, PTL

-----------------------------------------------------------------------------
(* Without overlapping requests, what was saved is in force and stays, until *)
(* a write without a backup is cut short.                                    *)

Handling == {a \in Admins : op[a].pc # "idle"}

Alone == ~overlap => \A a, b \in Handling : a = b

\* What an edit does to a config it has been applied to, and a config in which every
\* confirmed edit is.
Took(c, e) ==
  /\ e.kind = "add" => e.domain \in c.domains
  /\ e.kind = "put" => c.setting # First.setting
Held(c) ==
  \A e \in acked :
    /\ e.kind = "add" /\ e.domain \notin asked => e.domain \in c.domains
    /\ e.kind = "put" => c.setting # First.setting
Sound(c) == Held(c) /\ web = c.setting

\* What is in force while a request is handled, from its read to its answer.
Stage(x) ==
  /\ x.undo = FALSE
  /\ x.pc # "idle" =>
       Held(x.next) /\ Took(x.next, x.edit) /\ (x.edit.kind # "put" => web = x.next.setting)
  /\ x.pc = "commit" => Sound(ReadConfig)
  /\ x.pc \in {"backup", "copy", "truncate", "fill"} => Sound(x.prev)
  /\ x.pc = "backup" => x.prev = ReadConfig
  /\ x.pc = "copy" => x.prev = file
  /\ x.pc = "truncate" => file \in {Blank, x.prev}
  /\ x.pc = "fill" => file = Blank
  /\ x.pc \in {"truncate", "fill"} => bak = x.prev \/ uncopied
  /\ x.pc = "commit" => settings = ReadConfig
  /\ x.pc \in {"backup", "copy", "truncate", "fill"} => settings = x.prev
  /\ x.pc \in {"reload", "apply", "publish", "replace"} => file = x.next
  /\ x.pc \in {"apply", "replace"} => x.seen = file
  /\ x.pc \in {"publish", "replace"} => settings = file /\ x.edit.kind = "put"

\* ... and between requests, or after a crash.
AtEase == up /\ Handling = {} => Sound(ReadConfig) /\ settings = ReadConfig
Fallen == ~up /\ file # Blank => Held(file)

InForce == ~overlap /\ ~lost => AtEase /\ Fallen /\ \A a \in Admins : Stage(op[a])

ForceInv == StoreInv /\ Alone /\ InForce

\* What a step is: the start of a request, a step of one that is under way, or a step
\* of the container.
LEMMA StepKinds ==
  ASSUME [Next]_vars
  PROVE  \/ \E a \in Admins : \E e \in Edits : Request(a, e)
         \/ \E a \in Admins : op[a].pc # "idle" /\ Handler(a)
         \/ Crash \/ Boot \/ UNCHANGED vars
<1>1. ASSUME NEW a \in Admins, Handler(a), ~\E e \in Edits : Request(a, e)
      PROVE  op[a].pc # "idle"
  <2>1. CASE ReadPrevious(a) \/ Backup(a) \/ Copy(a) \/ Truncate(a)
    BY <2>1 DEF ReadPrevious, Backup, Copy, Truncate
  <2>2. CASE Fill(a) \/ FillFails(a) \/ ReloadRead(a)
    BY <2>2 DEF Fill, FillFails, ReloadRead
  <2>3. CASE Apply(a) \/ Publish(a) \/ Replace(a)
    BY <2>3 DEF Apply, Publish, Replace
  <2>4. QED  BY <1>1, <2>1, <2>2, <2>3 DEF Handler
<1>2. Next => (\E a \in Admins : Handler(a)) \/ Crash \/ Boot \/ UNCHANGED vars
  BY DEF Next, Spent
<1>3. QED  BY <1>1, <1>2

\* A request that is under way leaves the process up, asks nothing more away and meets
\* no other one.
LEMMA HandlerKeeps ==
  ASSUME NEW a \in Admins, op[a].pc # "idle", Handler(a)
  PROVE  UNCHANGED <<overlap, asked, up>>
<1>1. CASE ReadPrevious(a) \/ Backup(a) \/ Copy(a) \/ Truncate(a)
  BY <1>1 DEF ReadPrevious, Backup, Copy, Truncate, log, hist
<1>2. CASE Fill(a) \/ FillFails(a) \/ ReloadRead(a)
  BY <1>2 DEF Fill, FillFails, ReloadRead, log, hist
<1>3. CASE Apply(a) \/ Publish(a) \/ Replace(a)
  BY <1>3 DEF Apply, Publish, Replace, log, hist
<1>4. QED  BY <1>1, <1>2, <1>3 DEF Handler, Request

\* Once two requests have been handled at once, they have.
LEMMA OverlapStays == ASSUME [Next]_vars, overlap PROVE overlap'
<1>1. ASSUME NEW a \in Admins, NEW e \in Edits, Request(a, e) PROVE overlap'
  BY <1>1 DEF Request
<1>2. ASSUME NEW a \in Admins, op[a].pc # "idle", Handler(a) PROVE overlap'
  BY <1>2, HandlerKeeps
<1>3. CASE Crash \/ Boot \/ UNCHANGED vars
  BY <1>3 DEF Crash, Boot, vars, log, hist
<1>4. QED  BY <1>1, <1>2, <1>3, StepKinds

LEMMA AloneStep == StoreInv /\ Alone /\ [Next]_vars => Alone'
<1> SUFFICES ASSUME StoreInv, Alone, [Next]_vars, ~overlap'
             PROVE  \A a, b \in Handling' : a = b
  BY DEF Alone
<1>t. op \in [Admins -> Op] /\ TypeOK
  BY DEF StoreInv, TypeOK
<1>1. ASSUME NEW a \in Admins, NEW e \in Edits, Request(a, e)
      PROVE  \A b, c \in Handling' : b = c
  <2>1. \A b \in Admins \ {a} : op[b].pc = "idle" /\ op'[b] = op[b]
    BY <1>1, <1>t DEF Request
  <2>2. QED  BY <2>1 DEF Handling
<1>2. ASSUME NEW a \in Admins, op[a].pc # "idle", Handler(a)
      PROVE  \A b, c \in Handling' : b = c
  <2>1. overlap' = overlap
    BY <1>2, HandlerKeeps
  <2>2. \A b \in Admins \ {a} : op'[b] = op[b]
    BY <1>2, <1>t, HandlerAlone
  <2>3. QED  BY <1>2, <2>1, <2>2 DEF Alone, Handling
<1>3. CASE Crash
  BY <1>3 DEF Crash, Handling, Idle
<1>4. CASE Boot \/ UNCHANGED vars
  <2>1. UNCHANGED <<op, overlap>>
    BY <1>4 DEF Boot, vars, log, hist
  <2>2. QED  BY <2>1 DEF Alone, Handling
<1>5. QED  BY <1>1, <1>2, <1>3, <1>4, StepKinds

\* An edit that is applied is taken, and undoes no confirmed one but those whose
\* domain was asked away.
LEMMA AppliedHolds ==
  ASSUME TypeOK, ReadConfig \in Config, NEW a \in Admins, NEW e \in Edits, Request(a, e),
         Held(ReadConfig)
  PROVE  /\ Held(ReadConfig)' /\ Held(Applied(ReadConfig, e))'
         /\ Took(Applied(ReadConfig, e), e)
         /\ e.kind # "put" => Applied(ReadConfig, e).setting = ReadConfig.setting
<1> DEFINE c == ReadConfig
           n == Applied(c, e)
<1>1. UNCHANGED <<file, bak, acked>>
  BY DEF Request, files
<1>2. asked' = IF e.kind = "remove" THEN asked \union {e.domain} ELSE asked
  BY DEF Request
<1>3. Held(c)'
  BY <1>1, <1>2 DEF Held, ReadConfig
<1>4. e.kind \in {"add", "remove", "put"} /\ requests \in Nat
  BY DEF Edits, TypeOK
<1>5. CASE e.kind = "add"
  <2>1. n = [c EXCEPT !.domains = @ \union {e.domain}]
    BY <1>5 DEF Applied
  <2>2. n.domains = c.domains \union {e.domain} /\ n.setting = c.setting
    BY <2>1 DEF Config
  <2>3. QED  BY <1>1, <1>2, <1>3, <1>5, <2>2 DEF Held, Took, ReadConfig
<1>6. CASE e.kind = "remove"
  <2>1. n = [c EXCEPT !.domains = @ \ {e.domain}]
    BY <1>6 DEF Applied
  <2>2. n.domains = c.domains \ {e.domain} /\ n.setting = c.setting
    BY <2>1 DEF Config
  <2>3. QED  BY <1>1, <1>2, <1>3, <1>6, <2>2 DEF Held, Took, ReadConfig
<1>7. CASE e.kind = "put"
  <2>1. n = [c EXCEPT !.setting = e.value] /\ e.value = requests + 2
    BY <1>7 DEF Applied, Edits
  <2>2. n.domains = c.domains /\ n.setting = requests + 2
    BY <2>1 DEF Config
  <2>3. n.setting # First.setting
    BY <1>4, <2>2 DEF First
  <2>4. QED  BY <1>1, <1>2, <1>3, <1>7, <2>2, <2>3 DEF Held, Took, ReadConfig
<1>8. QED  BY <1>3, <1>4, <1>5, <1>6, <1>7

\* A step of the one handler there is: it keeps its own stage, and the others rest.
LEMMA StageSuffices ==
  ASSUME TypeOK, NEW a \in Admins, ~overlap, up, up' = up,
         \A b \in Admins \ {a} : op[b].pc = "idle" /\ op'[b] = op[b],
         \A b \in Admins : Stage(op[b]),
         Stage(op[a])',
         op'[a].pc = "idle" => Sound(ReadConfig)' /\ settings' = ReadConfig'
  PROVE  (AtEase /\ Fallen /\ \A b \in Admins : Stage(op[b]))'
<1>1. ASSUME NEW b \in Admins \ {a} PROVE Stage(op[b])'
  <2>1. op'[b] = op[b] /\ op[b].pc = "idle" /\ op[b].undo = FALSE
    BY DEF Stage
  <2>2. QED  BY <2>1 DEF Stage
<1>2. AtEase' /\ Fallen'
  BY DEF AtEase, Fallen, Handling
<1>3. QED  BY <1>1, <1>2

LEMMA InForceStep == ForceInv /\ [Next]_vars => InForce'
<1> SUFFICES ASSUME ForceInv, [Next]_vars, ~overlap', ~lost'
             PROVE  (AtEase /\ Fallen /\ \A a \in Admins : Stage(op[a]))'
  BY DEF InForce
<1>t. op \in [Admins -> Op] /\ TypeOK /\ StoreInv
  BY DEF ForceInv, StoreInv, TypeOK
<1>r. ReadConfig \in Config
  BY <1>t, ReadTyping
<1>o. ~overlap /\ ~lost
  BY OverlapStays, LostStays
<1>w. WholeOps /\ WholeFiles /\ Readable /\ file \in Config
  BY <1>o, <1>t DEF StoreInv, TypeOK
<1>q. lock = NoOne => /\ file # Blank => ReadConfig = file
                      /\ file = Blank => ReadConfig = bak
  BY <1>o, <1>t, ReadWhole
<1>i. AtEase /\ Fallen /\ \A a \in Admins : Stage(op[a])
  BY <1>o DEF ForceInv, InForce
<1>1. ASSUME NEW a \in Admins, NEW e \in Edits, Request(a, e)
      PROVE  (AtEase /\ Fallen /\ \A b \in Admins : Stage(op[b]))'
  <2>1. /\ \A b \in Admins \ {a} : op[b].pc = "idle" /\ op'[b] = op[b]
        /\ up /\ up' = up /\ op[a].pc = "idle"
    BY <1>1, <1>t DEF Request
  <2>2. Sound(ReadConfig) /\ settings = ReadConfig
    BY <1>i, <2>1 DEF AtEase, Handling
  <2>3. /\ Held(ReadConfig)' /\ Held(Applied(ReadConfig, e))'
        /\ Took(Applied(ReadConfig, e), e)
        /\ e.kind # "put" => Applied(ReadConfig, e).setting = ReadConfig.setting
    BY <1>1, <1>t, <1>r, <2>2, AppliedHolds DEF Sound
  <2>4. UNCHANGED <<file, bak, settings, web, acked>>
    BY <1>1 DEF Request, files
  <2>5. op'[a] = [Idle EXCEPT !.pc = "commit", !.edit = e, !.next = Applied(ReadConfig, e)]
    BY <1>1, <1>t DEF Request
  <2>6. /\ op'[a].pc = "commit" /\ op'[a].edit = e /\ op'[a].next = Applied(ReadConfig, e)
        /\ op'[a].undo = FALSE
    BY <2>5 DEF Idle
  <2>7. Sound(ReadConfig)' /\ ReadConfig' = ReadConfig
    <3>1. ReadConfig' = ReadConfig
      BY <2>4 DEF ReadConfig, Parses
    <3>2. QED  BY <2>2, <2>3, <2>4, <3>1 DEF Sound
  <2>8. Held(op[a].next)'
    <3>1. Applied(ReadConfig, e)' = Applied(ReadConfig, e)
      BY <2>7 DEF Applied
    <3>2. QED  BY <2>3, <2>6, <3>1 DEF Held
  <2>9. Stage(op[a])'
    BY <2>2, <2>3, <2>4, <2>6, <2>7, <2>8 DEF Stage, Sound
  <2>10. QED  BY <1>o, <1>t, <1>i, <2>1, <2>6, <2>9, StageSuffices
<1>2. ASSUME NEW a \in Admins, op[a].pc # "idle", Handler(a)
      PROVE  (AtEase /\ Fallen /\ \A b \in Admins : Stage(op[b]))'
  <2>1. \A b \in Admins \ {a} : op[b].pc = "idle" /\ op'[b] = op[b]
    BY <1>2, <1>o, <1>t, HandlerAlone DEF ForceInv, Alone, Handling
  <2>2. /\ up /\ Whole(op[a].next) /\ (op[a].pc # "commit" => Whole(op[a].prev))
        /\ op[a] \in Op /\ Stage(op[a])
    BY <1>2, <1>t, <1>i, <1>w DEF StoreInv, WholeOps, Kept
  <2>3. up' = up
    BY <1>2, HandlerKeeps
  <2>u. asked' = asked
    BY <1>2, HandlerKeeps
  <2>4. /\ Stage(op[a])'
        /\ op'[a].pc = "idle" => Sound(ReadConfig)' /\ settings' = ReadConfig'
    <3>1. CASE ReadPrevious(a)
      <4>1. /\ op'[a] = [op[a] EXCEPT !.pc = "backup", !.prev = ReadConfig]
            /\ UNCHANGED <<file, bak, settings, web, acked, asked, uncopied>>
        BY <1>t, <3>1 DEF ReadPrevious, files, log, hist
      <4>2. /\ op'[a].pc = "backup" /\ op'[a].prev = ReadConfig /\ op'[a].next = op[a].next
            /\ op'[a].edit = op[a].edit /\ op'[a].undo = op[a].undo
        BY <2>2, <4>1 DEF Op
      <4>3. op[a].pc = "commit"
        BY <3>1 DEF ReadPrevious
      <4>4. Sound(ReadConfig) /\ settings = ReadConfig
        BY <2>2, <4>3 DEF Stage
      <4>5. Held(op[a].next) /\ Took(op[a].next, op[a].edit) /\ op[a].undo = FALSE
            /\ (op[a].edit.kind # "put" => web = op[a].next.setting)
        BY <2>2, <4>3 DEF Stage
      <4>6. ReadConfig' = ReadConfig
        BY <4>1 DEF ReadConfig, Parses
      <4>7. Sound(ReadConfig)'
        BY <4>1, <4>4, <4>6 DEF Sound, Held
      <4>8. Held(op[a].next)'
        BY <4>1, <4>2, <4>5 DEF Held
      <4>9. op'[a].prev = ReadConfig' /\ Sound(op[a].prev)'
        BY <4>2, <4>6, <4>7
      <4>10. Took(op'[a].next, op'[a].edit)
             /\ (op'[a].edit.kind # "put" => web' = op'[a].next.setting)
             /\ op'[a].undo = FALSE /\ settings' = op'[a].prev
        BY <4>1, <4>2, <4>4, <4>5
      <4>11. Stage(op[a])'
        BY <4>2, <4>7, <4>8, <4>9, <4>10 DEF Stage
      <4>12. QED  BY <4>2, <4>11
    <3>2. CASE Backup(a) \/ Copy(a) \/ Truncate(a)
      <4>0. PICK p \in {"copy", "truncate", "fill"} : Goto(a, p)
        BY <3>2 DEF Backup, Copy, Truncate
      <4>1. /\ UNCHANGED <<settings, web, acked, asked>>
            /\ op'[a] = [op[a] EXCEPT !.pc = op'[a].pc]
            /\ op'[a].pc \in {"copy", "truncate", "fill"}
        <5>1. op'[a] = [op[a] EXCEPT !.pc = p]
          BY <1>t, <4>0 DEF Goto
        <5>2. op'[a].pc = p
          BY <2>2, <5>1 DEF Op
        <5>3. UNCHANGED <<settings, web, acked, asked>>
          BY <3>2 DEF Backup, Copy, Truncate, log, hist
        <5>4. QED  BY <5>1, <5>2, <5>3
      <4>2. /\ op'[a].prev = op[a].prev /\ op'[a].next = op[a].next
            /\ op'[a].edit = op[a].edit /\ op'[a].undo = op[a].undo
        BY <2>2, <4>1 DEF Op
      <4>3. Sound(op[a].prev)' /\ Held(op[a].next)' /\ Took(op'[a].next, op'[a].edit)
            /\ op'[a].undo = FALSE
            /\ (op'[a].edit.kind # "put" => web' = op'[a].next.setting)
            /\ settings' = op'[a].prev
        BY <2>2, <3>2, <4>1, <4>2 DEF Backup, Copy, Truncate, Stage, Sound, Held
      <4>4. CASE Backup(a)
        <5>0. op[a].prev = ReadConfig /\ lock = NoOne
          BY <2>2, <4>4 DEF Backup, Stage
        <5>1. /\ op'[a].pc = "copy" => op[a].prev = file
              /\ op'[a].pc = "truncate" => file \in {Blank, op[a].prev}
              /\ op'[a].pc = "truncate" => bak' = op[a].prev \/ uncopied'
              /\ op'[a].pc # "fill" /\ file' = file
          BY <1>t, <1>q, <2>2, <4>4, <5>0 DEF Backup, Goto, Op
        <5>2. QED  BY <4>1, <4>2, <4>3, <5>1 DEF Stage
      <4>5. CASE Copy(a)
        <5>1. op'[a].pc = "truncate" /\ file' = file /\ op[a].prev = file
              /\ (bak' = op[a].prev \/ uncopied')
          BY <1>t, <2>2, <4>5 DEF Copy, Stage, Goto, Op
        <5>2. QED  BY <4>1, <4>2, <4>3, <5>1 DEF Stage
      <4>6. CASE Truncate(a)
        <5>1. op'[a].pc = "fill" /\ file' = Blank /\ (bak' = op[a].prev \/ uncopied')
          BY <1>t, <2>2, <4>6 DEF Truncate, Stage, Goto, Op, log
        <5>2. QED  BY <4>1, <4>2, <4>3, <5>1 DEF Stage
      <4>7. QED  BY <3>2, <4>4, <4>5, <4>6
    <3>3. CASE Fill(a)
      <4>0. op[a].undo = FALSE /\ Dumped(op[a].next) = op[a].next
        BY <2>2, ParsesWhole DEF Stage, Op
      <4>1. op'[a] = [op[a] EXCEPT !.pc = "reload"] /\ file' = op[a].next
            /\ UNCHANGED <<settings, web, acked, asked>>
        BY <1>t, <3>3, <4>0 DEF Fill, Goto, hist
      <4>2. /\ op'[a].pc = "reload" /\ op'[a].next = op[a].next
            /\ op'[a].edit = op[a].edit /\ op'[a].undo = op[a].undo
        BY <2>2, <4>1 DEF Op
      <4>3. QED  BY <1>2, <2>2, <4>1, <4>2 DEF Stage, Held
    <3>4. CASE FillFails(a)
      <4>1. ~uncopied
        BY <3>4 DEF FillFails
      <4>2. file = Blank /\ bak = op[a].prev /\ Sound(op[a].prev) /\ settings = op[a].prev
        BY <2>2, <3>4, <4>1 DEF FillFails, Stage
      <4>3. op'[a] = Idle /\ UNCHANGED <<file, bak, settings, web, acked, asked>>
        BY <1>t, <3>4 DEF FillFails, files, hist
      <4>4. ReadConfig' = op[a].prev
        <5>1. Parses(bak) /\ ~Parses(file)
          BY <2>2, <3>4, <4>2, ParsesWhole DEF FillFails, Op
        <5>2. QED  BY <4>2, <4>3, <5>1 DEF ReadConfig, Parses
      <4>5. Sound(ReadConfig)'
        BY <4>2, <4>3, <4>4 DEF Sound, Held
      <4>6. QED  BY <4>2, <4>3, <4>4, <4>5 DEF Stage, Idle
    <3>5. CASE ReloadRead(a)
      <4>0. file = op[a].next /\ op[a].next.domains # {}
        BY <2>2, <3>5 DEF ReloadRead, Stage, Whole
      <4>1. op'[a] = [op[a] EXCEPT !.pc = "apply", !.seen = file]
            /\ UNCHANGED <<file, bak, settings, web, acked, asked>>
        BY <1>t, <2>2, <3>5, <4>0 DEF ReloadRead, files, log, hist
      <4>2. /\ op'[a].pc = "apply" /\ op'[a].next = op[a].next /\ op'[a].seen = file
            /\ op'[a].edit = op[a].edit /\ op'[a].undo = op[a].undo
        BY <2>2, <4>1 DEF Op
      <4>3. QED  BY <1>2, <2>2, <3>5, <4>1, <4>2 DEF ReloadRead, Stage, Held
    <3>6. CASE Apply(a)
      <4>1. settings' = file /\ UNCHANGED <<file, bak, web>> /\ file = op[a].next
            /\ ReadConfig' = file
        <5>1. settings' = file /\ UNCHANGED <<file, bak, web>> /\ file = op[a].next
          BY <2>2, <3>6 DEF Apply, Stage, files
        <5>2. Parses(file)
          BY <2>2, <5>1, ParsesWhole DEF Op
        <5>3. QED  BY <5>1, <5>2 DEF ReadConfig, Parses
      <4>2. CASE op[a].edit.kind = "put"
        <5>1. op'[a] = [op[a] EXCEPT !.pc = "publish"] /\ acked' = acked
          BY <1>t, <2>2, <3>6, <4>2 DEF Apply, Goto, Stage
        <5>2. /\ op'[a].pc = "publish" /\ op'[a].next = op[a].next
              /\ op'[a].edit = op[a].edit /\ op'[a].undo = op[a].undo
          BY <2>2, <5>1 DEF Op
        <5>3. QED  BY <1>2, <2>2, <2>u, <4>1, <4>2, <5>1, <5>2 DEF Stage, Held
      <4>3. CASE op[a].edit.kind # "put"
        <5>1. op'[a] = Idle /\ acked' = acked \union {op[a].edit}
          BY <1>t, <2>2, <3>6, <4>3 DEF Apply, Goto, Stage
        <5>2. Held(file)'
          BY <1>2, <2>2, <2>u, <4>1, <5>1 DEF Stage, Held, Took
        <5>3. web' = file'.setting
          BY <1>2, <2>2, <4>1, <4>3 DEF Stage
        <5>4. Sound(ReadConfig)'
          BY <4>1, <5>2, <5>3 DEF Sound, Held
        <5>5. QED  BY <4>1, <5>1, <5>4 DEF Stage, Idle
      <4>4. QED  BY <4>2, <4>3
    <3>7. CASE Publish(a)
      <4>1. file = op[a].next /\ settings = file
        BY <2>2, <3>7 DEF Publish, Stage
      <4>2. op'[a] = [op[a] EXCEPT !.pc = "replace", !.seen = file]
            /\ UNCHANGED <<file, bak, settings, web, acked, asked>>
        <5>1. Parses(file) /\ file # Blank
          BY <2>2, <4>1, ParsesWhole DEF Op
        <5>2. ReadConfig = file
          BY <5>1 DEF ReadConfig
        <5>3. QED  BY <1>t, <3>7, <5>1, <5>2 DEF Publish, files, log, hist
      <4>3. /\ op'[a].pc = "replace" /\ op'[a].next = op[a].next /\ op'[a].seen = file
            /\ op'[a].edit = op[a].edit /\ op'[a].undo = op[a].undo
        BY <2>2, <4>2 DEF Op
      <4>4. QED  BY <1>2, <2>2, <3>7, <4>1, <4>2, <4>3 DEF Publish, Stage, Held
    <3>8. CASE Replace(a)
      <4>1. /\ web' = file.setting /\ UNCHANGED <<file, bak, settings>> /\ file = op[a].next
            /\ settings = file
            /\ op'[a] = Idle /\ acked' = acked \union {op[a].edit}
        BY <1>t, <2>2, <3>8 DEF Replace, Stage, files
      <4>2. Held(file)'
        BY <1>2, <2>2, <2>u, <4>1 DEF Stage, Held, Took
      <4>3. ReadConfig' = file
        <5>1. Parses(file)
          BY <2>2, <4>1, ParsesWhole DEF Op
        <5>2. QED  BY <4>1, <5>1 DEF ReadConfig, Parses
      <4>4. Sound(ReadConfig)'
        BY <4>1, <4>2, <4>3 DEF Sound, Held
      <4>5. QED  BY <4>1, <4>3, <4>4 DEF Stage, Idle
    <3>9. QED
      BY <1>2, <3>1, <3>2, <3>3, <3>4, <3>5, <3>6, <3>7, <3>8 DEF Handler, Request
  <2>5. QED  BY <1>o, <1>t, <1>i, <2>1, <2>2, <2>3, <2>4, StageSuffices
<1>3. CASE Crash
  <2>1. up /\ ~up' /\ UNCHANGED <<file, bak, acked, asked>> /\ \A a \in Admins : op'[a] = Idle
    BY <1>3 DEF Crash, files, hist
  <2>2. ASSUME file # Blank PROVE Held(file)
    <3>0. ReadConfig = file
      BY <1>w, <2>2, ParsesWhole DEF WholeFiles, ReadConfig
    <3>1. CASE Handling = {}
      BY <1>i, <2>1, <3>0, <3>1 DEF AtEase, Sound
    <3>2. ASSUME NEW a \in Handling PROVE Held(file)
      <4>1. op[a] \in Op /\ op[a].pc # "idle" /\ Stage(op[a])
        BY <1>t, <1>i DEF Handling
      <4>2. CASE op[a].pc \in {"commit", "backup"}
        BY <3>0, <4>1, <4>2 DEF Stage, Sound
      <4>3. CASE op[a].pc \in {"copy", "truncate", "fill"}
        BY <2>2, <4>1, <4>3 DEF Stage, Sound
      <4>4. CASE op[a].pc \in {"reload", "apply", "publish", "replace"}
        BY <4>1, <4>4 DEF Stage
      <4>5. QED  BY <4>1, <4>2, <4>3, <4>4 DEF Op
    <3>3. QED  BY <3>1, <3>2
  <2>3. Fallen'
    BY <2>1, <2>2 DEF Fallen, Held
  <2>4. AtEase'
    BY <2>1 DEF AtEase
  <2>5. \A a \in Admins : Stage(op[a])'
    BY <2>1 DEF Stage, Idle
  <2>6. QED  BY <2>3, <2>4, <2>5
<1>4. CASE Boot
  <2>1. /\ ~up /\ UNCHANGED <<file, bak, op, acked, asked>>
        /\ IF file.form = "whole" THEN settings' = file /\ web' = file.setting ELSE ~up'
    BY <1>4 DEF Boot, files, log, hist
  <2>2. AtEase' /\ Fallen'
    <3>1. CASE file.form = "whole"
      <4>1. Parses(file) /\ file # Blank
        BY <3>1 DEF Parses, Blank
      <4>2. ReadConfig' = file
        BY <2>1, <4>1 DEF ReadConfig, Parses
      <4>3. Held(file)'
        BY <1>i, <2>1, <4>1 DEF Fallen, Held
      <4>4. Sound(ReadConfig)' /\ settings' = ReadConfig'
        BY <2>1, <3>1, <4>2, <4>3 DEF Sound, Held
      <4>5. Fallen'
        BY <2>1, <4>3 DEF Fallen, Held
      <4>6. QED  BY <4>4, <4>5 DEF AtEase
    <3>2. CASE file.form # "whole"
      BY <1>i, <2>1, <3>2 DEF AtEase, Fallen, Held
    <3>3. QED  BY <3>1, <3>2
  <2>3. \A a \in Admins : op[a].pc = "idle"
    BY <1>t, <2>1 DEF StoreInv, Kept
  <2>4. \A a \in Admins : Stage(op[a])'
    BY <1>i, <2>1, <2>3 DEF Stage
  <2>5. QED  BY <2>2, <2>4
<1>5. CASE UNCHANGED vars
  <2>1. UNCHANGED <<file, bak, op, acked, asked, settings, web, up, uncopied>>
    BY <1>5 DEF vars, files, log, hist
  <2>0. ReadConfig' = ReadConfig
    BY <2>1 DEF ReadConfig, Parses
  <2>2. AtEase' /\ Fallen'
    BY <1>i, <2>0, <2>1 DEF AtEase, Fallen, Sound, Held, Handling
  <2>3. \A a \in Admins : Stage(op[a])'
    BY <1>i, <2>0, <2>1 DEF Stage, Sound, Held, Took
  <2>4. QED  BY <2>2, <2>3
<1>6. QED  BY <1>1, <1>2, <1>3, <1>4, <1>5, StepKinds

LEMMA ForceAlways == Spec => []ForceInv
<1>1. Init => ForceInv
  <2> SUFFICES ASSUME Init PROVE Alone /\ InForce
    BY StoreInit DEF ForceInv
  <2>1. /\ \A a \in Admins : op[a].pc = "idle" /\ op[a].undo = FALSE
        /\ up /\ file = First /\ settings = First /\ web = 1 /\ acked = {}
    BY DEF Init, Idle
  <2>2. First.setting = 1 /\ ReadConfig = First
    BY <2>1 DEF First, Parses, ReadConfig
  <2>3. Handling = {}
    BY <2>1 DEF Handling
  <2>4. AtEase /\ Fallen
    BY <2>1, <2>2 DEF AtEase, Fallen, Sound, Held
  <2>5. \A a \in Admins : Stage(op[a])
    BY <2>1 DEF Stage
  <2>6. QED  BY <2>3, <2>4, <2>5 DEF Alone, InForce
<1>2. ForceInv /\ [Next]_vars => ForceInv'
  BY StoreStep, AloneStep, InForceStep DEF ForceInv
<1>3. QED  BY <1>1, <1>2, PTL DEF Spec

\* When requests come one after the other and none is being handled, the running
\* process and nginx have what read_config() returns, through refused writes, the
\* recovery from the backup and restarts, until a write without a backup is cut short.
THEOREM InForceAtRest == Spec => []SavedInForce
<1>1. ForceInv => SavedInForce
  <2> SUFFICES ASSUME ForceInv, AtRest, ~overlap, ~lost
               PROVE  settings = ReadConfig /\ web = ReadConfig.setting
    BY DEF SavedInForce
  <2>1. Handling = {} /\ up
    BY DEF AtRest, Handling
  <2>2. QED  BY <2>1 DEF ForceInv, InForce, AtEase, Sound
<1>2. QED  BY <1>1, ForceAlways, PTL

\* ... and every confirmed edit is still in it, unless its domain was removed since.
THEOREM ConfirmedEditsKept == Spec => []NoLostUpdate
<1>1. ForceInv => NoLostUpdate
  <2> SUFFICES ASSUME ForceInv, ~overlap, ~lost, AtRest, NEW e \in acked
               PROVE  /\ e.kind = "add" /\ e.domain \notin asked =>
                           e.domain \in ReadConfig.domains
                      /\ e.kind = "put" => ReadConfig.setting # First.setting
    BY DEF NoLostUpdate, ConfirmedEditsStay
  <2>1. Handling = {} /\ up
    BY DEF AtRest, Handling
  <2>2. Held(ReadConfig)
    BY <2>1 DEF ForceInv, InForce, AtEase, Sound
  <2>3. QED  BY <2>2 DEF Held
<1>2. QED  BY <1>1, ForceAlways, PTL
=============================================================================
