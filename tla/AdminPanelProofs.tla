--------------------------- MODULE AdminPanelProofs --------------------------
(***************************************************************************)
(* Proofs about AdminPanel, for every set of tokens, of domains and of      *)
(* configurations and every bound.                                          *)
(***************************************************************************)
EXTENDS AdminPanel, FiniteSetTheorems, SequenceTheorems, TLAPS

-----------------------------------------------------------------------------
(* One call.                                                                *)

\* A call that ends in a list, and one that puts out the spinner of the API key.
Listing(x) == x.live /\ x.do \in {"list", "delete", "purge", "retention", "create"}
Keyed(x) == x.live /\ "key" \in x.ends

\* A call that no property is about.
Aside(x) ==
  /\ x.do \notin {"list", "delete", "purge", "retention", "create", "save", "login",
                  "regenerate"}
  /\ "key" \notin x.ends

\* The same call later: left behind, overlapped or answered.
Carried(x, y) ==
  /\ y.do = x.do /\ y.token = x.token /\ y.ends = x.ends
  /\ y.page = x.page /\ y.search = x.search
  /\ y.patch = x.patch /\ y.seen = x.seen /\ y.touched = x.touched
  /\ (y.live => x.live) /\ (y.alone => x.alone)

\* ... not answered.
Waiting(x, y) == Carried(x, y) /\ y.code = x.code /\ y.count = x.count

LEMMA NoCallTyping == NoCall \in Call
<1>1. AnyConfig \in Config
  BY DEF AnyConfig, Config
<1>2. AnyPatch \in Patch
  BY DEF AnyPatch, Patch
<1>3. 1 \in 1..MaxPages
  BY AdminApiAssumption
<1>4. "stats" \in Requests /\ "login" \in Pages
  BY DEF Requests, Pages
<1>5. QED  BY <1>1, <1>2, <1>3, <1>4 DEF NoCall, Call

\* The call of a page that is left.
LEMMA LeftBehind ==
  ASSUME NEW x \in Call, NEW b \in BOOLEAN, b => x.live
  PROVE  /\ [x EXCEPT !.live = b] \in Call
         /\ Waiting(x, [x EXCEPT !.live = b]) /\ [x EXCEPT !.live = b].live = b
<1> DEFINE y == [x EXCEPT !.live = b]
<1>1. y \in Call /\ y.live = b
  BY DEF Call
<1>2. y.do = x.do /\ y.token = x.token /\ y.ends = x.ends /\ y.page = x.page
  BY DEF Call
<1>3. y.search = x.search /\ y.patch = x.patch /\ y.seen = x.seen
  BY DEF Call
<1>4. y.touched = x.touched /\ y.alone = x.alone /\ y.code = x.code /\ y.count = x.count
  BY DEF Call
<1>5. y.live => x.live
  BY <1>1 DEF Call
<1>6. QED  BY <1>1, <1>2, <1>3, <1>4, <1>5 DEF Waiting, Carried

\* The call that another one overlaps.
LEMMA Overlapped ==
  ASSUME NEW x \in Call, NEW b \in BOOLEAN, b => x.alone
  PROVE  /\ [x EXCEPT !.alone = b] \in Call
         /\ Waiting(x, [x EXCEPT !.alone = b]) /\ [x EXCEPT !.alone = b].alone = b
         /\ [x EXCEPT !.alone = b].live = x.live
<1> DEFINE y == [x EXCEPT !.alone = b]
<1>1. y \in Call /\ y.alone = b
  BY DEF Call
<1>2. y.do = x.do /\ y.token = x.token /\ y.ends = x.ends /\ y.page = x.page
  BY DEF Call
<1>3. y.search = x.search /\ y.patch = x.patch /\ y.seen = x.seen
  BY DEF Call
<1>4. y.touched = x.touched /\ y.live = x.live /\ y.code = x.code /\ y.count = x.count
  BY DEF Call
<1>5. y.alone => x.alone
  BY <1>1 DEF Call
<1>6. QED  BY <1>1, <1>2, <1>3, <1>4, <1>5 DEF Waiting, Carried

LEMMA Unchanged == ASSUME NEW x \in Call PROVE Waiting(x, x)
BY DEF Call, Waiting, Carried

\* A call another one goes on with: it belongs to the same page.
Inherits(x, y) ==
  /\ y.do = x.do /\ y.token = x.token /\ y.ends = x.ends /\ y.code = x.code
  /\ y.count = x.count /\ y.page = x.page /\ y.search = x.search /\ y.alone = x.alone
  /\ y.patch = x.patch /\ y.seen = x.seen /\ y.touched = x.touched

LEMMA HandedOn ==
  ASSUME NEW x \in Call, NEW p \in Pages, NEW b \in BOOLEAN
  PROVE  /\ [x EXCEPT !.at = p, !.live = b] \in Call
         /\ Inherits(x, [x EXCEPT !.at = p, !.live = b])
         /\ [x EXCEPT !.at = p, !.live = b].live = b
<1> DEFINE m == [x EXCEPT !.at = p]
<1>1. [x EXCEPT !.at = p, !.live = b] = [m EXCEPT !.live = b]
  OBVIOUS
<1>2. m \in Call /\ Inherits(x, m)
  BY DEF Call, Inherits
<1> HIDE DEF m
<1>3. [m EXCEPT !.live = b] \in Call /\ [m EXCEPT !.live = b].live = b
  BY <1>2 DEF Call
<1>4. Inherits(m, [m EXCEPT !.live = b])
  BY <1>2 DEF Call, Inherits
<1>5. QED  BY <1>1, <1>2, <1>3, <1>4 DEF Inherits

TokenOK == token \in Tokens \union {NoToken}

\* What request() makes of what is asked.
Request(x, do, ends) ==
  /\ x \in Call /\ x.do = do /\ x.ends = ends /\ x.token = token
  /\ x.live = TRUE /\ x.alone = TRUE /\ x.code = 0 /\ x.page = 1
  /\ x.search = FALSE /\ x.names = {}

LEMMA Asked ==
  ASSUME TokenOK, NEW p \in Pages, NEW do \in Requests, NEW ends \in SUBSET Spinners
  PROVE  Request(request(p, do, ends), do, ends)
<1> DEFINE a == [NoCall EXCEPT !.do = do]
           b == [a EXCEPT !.at = p]
           c == [b EXCEPT !.token = token]
           d == [c EXCEPT !.ends = ends]
<1>1. request(p, do, ends) = d
  BY DEF request
<1>2. a \in Call /\ a.do = do /\ a.live = TRUE /\ a.alone = TRUE /\ a.code = 0 /\ a.page = 1
      /\ a.search = FALSE /\ a.names = {}
  <2>1. NoCall.live = TRUE /\ NoCall.alone = TRUE /\ NoCall.code = 0 /\ NoCall.page = 1
        /\ NoCall.search = FALSE /\ NoCall.names = {}
    BY DEF NoCall
  <2>2. QED  BY <2>1, NoCallTyping DEF Call
<1> HIDE DEF a
<1>3. b \in Call /\ b.do = do /\ b.live = TRUE /\ b.alone = TRUE /\ b.code = 0 /\ b.page = 1
      /\ b.search = FALSE /\ b.names = {}
  BY <1>2 DEF Call
<1> HIDE DEF b
<1>4. c \in Call /\ c.do = do /\ c.live = TRUE /\ c.alone = TRUE /\ c.code = 0 /\ c.page = 1
      /\ c.search = FALSE /\ c.names = {} /\ c.token = token
  BY <1>3 DEF Call, TokenOK
<1> HIDE DEF c
<1>5. d \in Call /\ d.do = do /\ d.live = TRUE /\ d.alone = TRUE /\ d.code = 0 /\ d.page = 1
      /\ d.search = FALSE /\ d.names = {} /\ d.token = token /\ d.ends = ends
  BY <1>4 DEF Call
<1>6. QED  BY <1>1, <1>5 DEF Request

-----------------------------------------------------------------------------
(* The calls in flight from one step to the next.                           *)

\* `k` are the calls but those of `gone`; `o` says which is which.
Kept(k, gone, o) ==
  /\ k \in Seq(Call)
  /\ \A j \in 1..Len(k) : o[j] \in DOMAIN calls \ gone /\ k[j] = calls[o[j]]
  /\ \A j, l \in 1..Len(k) : o[j] = o[l] => j = l
  /\ \A i \in DOMAIN calls \ gone : \E j \in 1..Len(k) : o[j] = i

\* At most one of the calls `n` is more than an aside, and that is `z`.
Single(n, z) ==
  /\ n \in Seq(Call)
  /\ \A a \in 1..Len(n) : Aside(n[a]) \/ n[a] = z
  /\ \A a, b \in 1..Len(n) : a = b \/ Aside(n[a]) \/ Aside(n[b])

\* What becomes of the calls: each but those of `gone` is carried on, and what is new,
\* where `o` is 0, is aside or `z`.
Flow(o, gone, z) ==
  /\ calls' \in Seq(Call)
  /\ \A j \in DOMAIN calls' :
       \/ o[j] \in DOMAIN calls \ gone /\ Carried(calls[o[j]], calls'[j])
       \/ o[j] = 0 /\ (Aside(calls'[j]) \/ calls'[j] = z)
  /\ \A j, l \in DOMAIN calls' :
       o[j] = o[l] => j = l \/ (o[j] = 0 /\ (Aside(calls'[j]) \/ Aside(calls'[l])))
  /\ \A i \in DOMAIN calls \ gone : \E j \in DOMAIN calls' : o[j] = i

LEMMA Joined ==
  ASSUME NEW s \in Seq(Call), NEW t \in Seq(Call)
  PROVE  /\ s \o t \in Seq(Call) /\ Len(s \o t) = Len(s) + Len(t)
         /\ Len(s) \in Nat /\ Len(t) \in Nat
         /\ \A j \in 1..Len(s) : (s \o t)[j] = s[j]
         /\ \A j \in 1..Len(t) : (s \o t)[Len(s) + j] = t[j]
  OBVIOUS

LEMMA Without ==
  ASSUME NEW s \in Seq(Call), NEW i \in DOMAIN s
  PROVE  /\ RemoveAt(s, i) \in Seq(Call) /\ Len(RemoveAt(s, i)) = Len(s) - 1
         /\ \A j \in 1..(Len(s) - 1) :
              RemoveAt(s, i)[j] = IF j < i THEN s[j] ELSE s[j + 1]
<1> DEFINE a == SubSeq(s, 1, i - 1)
           b == SubSeq(s, i + 1, Len(s))
<1>1. Len(s) \in Nat /\ i \in 1..Len(s)
  OBVIOUS
<1>2. a \in Seq(Call) /\ Len(a) = i - 1 /\ \A j \in 1..(i - 1) : a[j] = s[j]
  BY <1>1
<1>3. b \in Seq(Call) /\ Len(b) = Len(s) - i /\ \A j \in 1..(Len(s) - i) : b[j] = s[i + j]
  BY <1>1
<1>4. RemoveAt(s, i) = a \o b
  BY DEF RemoveAt
<1> HIDE DEF a, b
<1>5. a \o b \in Seq(Call) /\ Len(a \o b) = Len(s) - 1
  <2>1. a \in Seq(Call) /\ b \in Seq(Call)
    BY <1>2, <1>3
  <2>2. a \o b \in Seq(Call) /\ Len(a \o b) = Len(a) + Len(b)
    BY <2>1
  <2>3. Len(a) = i - 1 /\ Len(b) = Len(s) - i
    BY <1>2, <1>3
  <2>4. QED  BY <1>1, <2>2, <2>3
<1>6. ASSUME NEW j \in 1..(Len(s) - 1) PROVE (a \o b)[j] = IF j < i THEN s[j] ELSE s[j + 1]
  <2>1. a \in Seq(Call) /\ b \in Seq(Call) /\ Len(a) = i - 1
    BY <1>2, <1>3
  <2>2. CASE j < i
    <3>1. j \in 1..Len(a) /\ j \in 1..(i - 1)
      BY <1>1, <2>1, <2>2
    <3>2. (a \o b)[j] = a[j]
      BY <2>1, <3>1
    <3>3. a[j] = s[j]
      BY <1>2, <3>1
    <3>4. QED  BY <2>2, <3>2, <3>3
  <2>3. CASE ~(j < i)
    <3>1. Len(b) = Len(s) - i
      BY <1>3
    <3>2. j \in Nat /\ i \in Nat /\ i <= j /\ j <= Len(s) - 1 /\ Len(s) \in Nat /\ 1 <= i
      BY <1>1, <2>3
    <3>3. j \in 1..(Len(a) + Len(b)) /\ ~(j <= Len(a))
      BY <2>1, <3>1, <3>2
    <3>4. (a \o b)[j] = b[j - Len(a)]
      BY <2>1, <3>3
    <3>5. j - Len(a) \in 1..(Len(s) - i) /\ i + (j - Len(a)) = j + 1
      BY <2>1, <3>2
    <3>6. b[j - Len(a)] = s[i + (j - Len(a))]
      BY <1>3, <3>5
    <3>7. QED  BY <2>3, <3>4, <3>5, <3>6
  <2>4. QED  BY <2>2, <2>3
<1>7. QED  BY <1>4, <1>5, <1>6

LEMMA KeptAll ==
  ASSUME calls \in Seq(Call) PROVE \E o : Kept(calls, {}, o)
<1>1. Kept(calls, {}, [j \in DOMAIN calls |-> j])
  BY DEF Kept
<1>2. QED  BY <1>1

LEMMA KeptBut ==
  ASSUME calls \in Seq(Call), NEW i \in DOMAIN calls
  PROVE  \E o : Kept(RemoveAt(calls, i), {i}, o)
<1> DEFINE k == RemoveAt(calls, i)
           o == [j \in 1..Len(k) |-> IF j < i THEN j ELSE j + 1]
<1>1. k \in Seq(Call) /\ Len(k) = Len(calls) - 1 /\ Len(calls) \in Nat /\ i \in 1..Len(calls)
  BY Without
<1>2. ASSUME NEW j \in 1..Len(k) PROVE k[j] = calls[o[j]]
  BY <1>1, Without
<1> HIDE DEF k
<1>3. \A j \in 1..Len(k) : o[j] \in DOMAIN calls \ {i}
  BY <1>1
<1>4. \A j, l \in 1..Len(k) : o[j] = o[l] => j = l
  BY <1>1
<1>5. ASSUME NEW h \in DOMAIN calls \ {i} PROVE \E j \in 1..Len(k) : o[j] = h
  <2>1. CASE h < i
    BY <1>1, <2>1
  <2>2. CASE h > i
    <3>1. h - 1 \in 1..Len(k) /\ o[h - 1] = h
      BY <1>1, <2>2
    <3>2. QED  BY <3>1
  <2>3. QED  BY <1>1, <2>1, <2>2
<1> HIDE DEF o
<1>6. Kept(k, {i}, o)
  BY <1>1, <1>2, <1>3, <1>4, <1>5 DEF Kept
<1>7. QED  BY <1>6 DEF k

\* `o` tells the ones from the others where `k`, as `m`, come before `n`.
Laid(o, k, m, n) ==
  \A j \in DOMAIN calls' :
    \/ j \in 1..Len(k) /\ calls'[j] = m[j] /\ o[j] # 0 /\ k[j] = calls[o[j]]
    \/ o[j] = 0 /\ j - Len(k) \in 1..Len(n) /\ calls'[j] = n[j - Len(k)]

\* The calls that are kept, as `m`, and then the new ones.
LEMMA Flowing ==
  ASSUME calls \in Seq(Call), NEW k, NEW gone, NEW o, Kept(k, gone, o),
         NEW m \in Seq(Call), Len(m) = Len(k), \A j \in 1..Len(k) : Carried(k[j], m[j]),
         NEW n, NEW z, Single(n, z), calls' = m \o n
  PROVE  \E q : Flow(q, gone, z) /\ Laid(q, k, m, n)
<1> DEFINE q == [j \in DOMAIN calls' |-> IF j \in 1..Len(k) THEN o[j] ELSE 0]
<1>1. /\ n \in Seq(Call) /\ calls' \in Seq(Call) /\ Len(k) \in Nat /\ Len(n) \in Nat
      /\ DOMAIN calls' = 1..(Len(k) + Len(n))
      /\ 0 \notin DOMAIN calls
  <2>1. k \in Seq(Call) /\ n \in Seq(Call)
    BY DEF Kept, Single
  <2>0. \A u, v \in Seq(Call) : Len(u \o v) = Len(u) + Len(v) /\ u \o v \in Seq(Call)
    BY Joined
  <2>2. Len(m \o n) = Len(m) + Len(n) /\ m \o n \in Seq(Call)
    BY <2>0, <2>1, Zenon
  <2>3. Len(k) \in Nat /\ Len(n) \in Nat /\ 0 \notin DOMAIN calls
    BY <2>1
  <2>4. DOMAIN calls' = 1..Len(calls')
    BY <2>2
  <2>5. QED  BY <2>1, <2>2, <2>3, <2>4
<1>2. ASSUME NEW j \in 1..Len(k)
      PROVE  j \in DOMAIN calls' /\ calls'[j] = m[j] /\ q[j] = o[j]
  BY <1>1, Joined
<1>3. ASSUME NEW j \in DOMAIN calls', j \notin 1..Len(k)
      PROVE  q[j] = 0 /\ j - Len(k) \in 1..Len(n) /\ calls'[j] = n[j - Len(k)]
  <2> DEFINE h == j - Len(k)
  <2>1. h \in 1..Len(n) /\ j = Len(m) + h /\ q[j] = 0
    BY <1>1, <1>3
  <2> HIDE DEF h
  <2>2. (m \o n)[Len(m) + h] = n[h]
    BY <1>1, <2>1, Joined
  <2>3. QED  BY <2>1, <2>2 DEF h
<1> HIDE DEF q
<1>4. \A j \in 1..Len(k) : o[j] \in DOMAIN calls \ gone /\ k[j] = calls[o[j]] /\ o[j] # 0
  BY <1>1 DEF Kept
<1>5. \A j \in DOMAIN calls' :
        \/ q[j] \in DOMAIN calls \ gone /\ Carried(calls[q[j]], calls'[j])
        \/ q[j] = 0 /\ (Aside(calls'[j]) \/ calls'[j] = z)
  BY <1>2, <1>3, <1>4 DEF Single
<1>6. ASSUME NEW j \in DOMAIN calls', NEW l \in DOMAIN calls', q[j] = q[l], j # l
      PROVE  q[j] = 0 /\ (Aside(calls'[j]) \/ Aside(calls'[l]))
  <2>1. CASE j \in 1..Len(k) \/ l \in 1..Len(k)
    <3>1. ASSUME j \in 1..Len(k) PROVE FALSE
      <4>1. q[j] = o[j] /\ o[j] # 0
        BY <1>2, <1>4, <3>1
      <4>2. l \in 1..Len(k)
        BY <1>3, <1>6, <4>1
      <4>3. o[j] = o[l]
        BY <1>2, <1>6, <3>1, <4>2
      <4>4. \A g, h \in 1..Len(k) : o[g] = o[h] => g = h
        BY DEF Kept
      <4>5. QED  BY <1>6, <3>1, <4>2, <4>3, <4>4
    <3>2. ASSUME l \in 1..Len(k) PROVE FALSE
      <4>1. q[l] = o[l] /\ o[l] # 0
        BY <1>2, <1>4, <3>2
      <4>2. j \in 1..Len(k)
        BY <1>3, <1>6, <4>1
      <4>3. QED  BY <3>1, <4>2
    <3>3. QED  BY <2>1, <3>1, <3>2
  <2>2. CASE j \notin 1..Len(k) /\ l \notin 1..Len(k)
    <3>1. j - Len(k) # l - Len(k)
      BY <1>1, <1>6
    <3>2. QED  BY <1>3, <2>2, <3>1 DEF Single
  <2>3. QED  BY <2>1, <2>2
<1>7. \A i \in DOMAIN calls \ gone : \E j \in DOMAIN calls' : q[j] = i
  BY <1>2 DEF Kept
<1>8. Flow(q, gone, z)
  BY <1>1, <1>5, <1>6, <1>7 DEF Flow
<1>9. Laid(q, k, m, n)
  BY <1>2, <1>3, <1>4 DEF Laid
<1>10. QED  BY <1>8, <1>9

-----------------------------------------------------------------------------
(* The invariant.                                                           *)

\* The token stored is verified, or a login that has it is still to answer for it.
Vouch ==
  \/ token \in vouched \union {NoToken}
  \/ \E i \in DOMAIN calls : calls[i].do = "login" /\ calls[i].token = token

\* Before the layout shows its pages no page has asked for anything.
Waits ==
  ~ready => /\ \A i \in DOMAIN calls : calls[i].live => calls[i].do = "gate"
            /\ list = ListBlank /\ aligned = FALSE

\* A list asked for when nothing else was is the one the controls show.
Alone ==
  \A i \in DOMAIN calls : Listing(calls[i]) /\ calls[i].alone =>
    /\ \A j \in DOMAIN calls : Listing(calls[j]) => j = i
    /\ calls[i].page = list.page /\ calls[i].search = list.search

Matched ==
  aligned => \/ \E i \in DOMAIN calls : Listing(calls[i]) /\ calls[i].do = "list"
             \/ list.data.page = list.page /\ list.data.search = list.search

\* One call at a time is about the API key.
OneKey ==
  \A i \in DOMAIN calls : Keyed(calls[i]) =>
    "key" \in busy /\ \A j \in DOMAIN calls : Keyed(calls[j]) => j = i

\* While a new key is made none is shown; the one that was made is the last.
KeyMade ==
  \A i \in DOMAIN calls : calls[i].do = "regenerate" /\ calls[i].live =>
    conf.key = 0 /\ (calls[i].code = 200 /\ server.mine => calls[i].count = server.key)

\* A field that was not touched is that of the configuration loaded.
FormKept ==
  /\ "toggle" \notin conf.touched => conf.toggle = (conf.config.toggle = "on")
  /\ "host" \notin conf.touched => conf.host = conf.config.host
  /\ "number" \notin conf.touched => conf.number = conf.config.number

\* What a save says of a field that was not touched, and which calls are about the key.
Kind(x) ==
  /\ x.do = "save" =>
       /\ "toggle" \notin x.touched =>
            x.patch.toggle = IF x.seen.toggle = "absent" THEN "off" ELSE "none"
       /\ "host" \notin x.touched => x.patch.host = "none"
       /\ "number" \notin x.touched => x.patch.number = x.seen.number
  /\ x.do = "regenerate" => "key" \in x.ends
  /\ x.do = "gate" => "key" \notin x.ends

Kinds == calls \in Seq(Call) /\ \A i \in DOMAIN calls : Kind(calls[i])

CallsInv ==
  Vouch /\ Waits /\ Alone /\ Matched /\ OneKey /\ KeyMade /\ Kinds /\ ShownKeyWorks

IInv == TypeOK /\ CallsInv /\ FormKept

-----------------------------------------------------------------------------
(* Each part of it from one step to the next, as the calls go on.           *)

LEMMA KindsFlow ==
  ASSUME Kinds, NEW o, NEW gone, NEW z, Flow(o, gone, z), Kind(z)
  PROVE  Kinds'
<1>1. ASSUME NEW x, NEW y, Kind(x), Carried(x, y) PROVE Kind(y)
  BY <1>1 DEF Kind, Carried
<1>2. ASSUME NEW x, Aside(x) PROVE Kind(x)
  BY <1>2 DEF Kind, Aside
<1>3. ASSUME NEW j \in DOMAIN calls' PROVE Kind(calls'[j])
  BY <1>1, <1>2 DEF Flow, Kinds
<1>4. QED  BY <1>3 DEF Kinds, Flow

\* The token stays, or is removed; so do the logins, but those that are answered.
TokenKept(gone) ==
  /\ vouched \subseteq vouched'
  /\ \/ token' = NoToken
     \/ token' = token /\ \A i \in gone : calls[i].do = "login" =>
                                calls[i].token \in vouched' \union {NoToken}

LEMMA VouchFlows ==
  ASSUME Vouch, NEW o, NEW gone, NEW z, Flow(o, gone, z), 0 \notin DOMAIN calls,
         TokenKept(gone)
  PROVE  Vouch'
<1> SUFFICES ASSUME token' # NoToken PROVE Vouch'
  BY DEF Vouch
<1> USE DEF TokenKept
<1>1. CASE token \in vouched \union {NoToken}
  BY <1>1 DEF Vouch
<1>2. ASSUME NEW i \in DOMAIN calls, calls[i].do = "login" /\ calls[i].token = token
      PROVE  Vouch'
  <2>1. CASE i \in gone
    BY <1>2, <2>1 DEF Vouch
  <2>2. CASE i \notin gone
    <3>1. PICK j \in DOMAIN calls' : o[j] = i
      BY <2>2 DEF Flow
    <3>2. Carried(calls[i], calls'[j])
      BY <3>1 DEF Flow
    <3>3. QED  BY <1>2, <3>2 DEF Vouch, Carried
  <2>3. QED  BY <2>1, <2>2
<1>3. QED  BY <1>1, <1>2 DEF Vouch

LEMMA WaitsFlow ==
  ASSUME Waits, NEW o, NEW gone, NEW z, Flow(o, gone, z), ready' = ready,
         ~ready => list' = list /\ aligned' = aligned,
         ~ready => \A j \in DOMAIN calls' :
                     o[j] = 0 /\ calls'[j].live => calls'[j].do = "gate"
  PROVE  Waits'
<1>1. ASSUME ~ready, NEW j \in DOMAIN calls', calls'[j].live PROVE calls'[j].do = "gate"
  <2>1. CASE o[j] = 0
    BY <1>1, <2>1
  <2>2. CASE o[j] \in DOMAIN calls /\ Carried(calls[o[j]], calls'[j])
    BY <1>1, <2>2 DEF Waits, Carried
  <2>3. QED  BY <2>1, <2>2 DEF Flow
<1>2. QED  BY <1>1 DEF Waits

LEMMA AloneFlows ==
  ASSUME Alone, NEW o, NEW gone, NEW z, Flow(o, gone, z), 0 \notin DOMAIN calls,
         \A j \in DOMAIN calls' : o[j] # 0 /\ Listing(calls'[j]) /\ calls'[j].alone =>
             list'.page = list.page /\ list'.search = list.search /\ ~Listing(z),
         Listing(z) /\ z.alone =>
             /\ z.page = list'.page /\ z.search = list'.search
             /\ \A j \in DOMAIN calls' : o[j] # 0 => ~Listing(calls'[j])
  PROVE  Alone'
<1>1. ASSUME NEW x, NEW y, Carried(x, y), Listing(y)
      PROVE  Listing(x) /\ (y.alone => x.alone) /\ y.page = x.page /\ y.search = x.search
  BY <1>1 DEF Carried, Listing
<1>2. ASSUME NEW x, Aside(x) PROVE ~Listing(x)
  BY <1>2 DEF Aside, Listing
<1>3. ASSUME NEW j \in DOMAIN calls', Listing(calls'[j]), calls'[j].alone,
             NEW l \in DOMAIN calls', Listing(calls'[l])
      PROVE  l = j
  <2>1. CASE o[j] # 0
    <3>1. o[j] \in DOMAIN calls /\ Carried(calls[o[j]], calls'[j])
      BY <2>1 DEF Flow
    <3>2. ~Listing(z)
      BY <1>3, <2>1
    <3>3. o[l] \in DOMAIN calls /\ Carried(calls[o[l]], calls'[l])
      BY <1>2, <1>3, <3>2 DEF Flow
    <3>4. o[l] = o[j]
      BY <1>1, <1>3, <3>1, <3>3 DEF Alone
    <3>5. QED  BY <2>1, <3>4 DEF Flow
  <2>2. CASE o[j] = 0
    <3>1. calls'[j] = z
      BY <1>2, <1>3, <2>2, Zenon DEF Flow
    <3>2. o[l] = 0
      BY <1>3, <3>1
    <3>3. QED  BY <1>2, <1>3, <2>2, <3>2, Zenon DEF Flow
  <2>3. QED  BY <2>1, <2>2
<1>4. ASSUME NEW j \in DOMAIN calls', Listing(calls'[j]), calls'[j].alone
      PROVE  calls'[j].page = list'.page /\ calls'[j].search = list'.search
  <2>1. CASE o[j] # 0
    <3>1. o[j] \in DOMAIN calls /\ Carried(calls[o[j]], calls'[j])
      BY <2>1 DEF Flow
    <3>2. QED  BY <1>1, <1>4, <2>1, <3>1 DEF Alone
  <2>2. CASE o[j] = 0
    <3>1. calls'[j] = z
      BY <1>2, <1>4, <2>2, Zenon DEF Flow
    <3>2. QED  BY <1>4, <3>1
  <2>3. QED  BY <2>1, <2>2
<1>5. QED  BY <1>3, <1>4 DEF Alone

LEMMA MatchedFlows ==
  ASSUME Matched, NEW o, NEW gone, NEW z, Flow(o, gone, z), 0 \notin DOMAIN calls,
         aligned' = aligned, list'.data = list.data, list'.page = list.page,
         list'.search = list.search,
         \A j \in DOMAIN calls' : o[j] # 0 => calls'[j].live = calls[o[j]].live,
         \A i \in gone : ~(calls[i].live /\ calls[i].do = "list")
  PROVE  Matched'
<1>1. ASSUME NEW i \in DOMAIN calls, Listing(calls[i]), calls[i].do = "list"
      PROVE  \E j \in DOMAIN calls' : Listing(calls'[j]) /\ calls'[j].do = "list"
  <2>1. i \notin gone
    BY <1>1 DEF Listing
  <2>2. PICK j \in DOMAIN calls' : o[j] = i
    BY <2>1 DEF Flow
  <2>3. i # 0
    OBVIOUS
  <2>4. Carried(calls[i], calls'[j]) /\ calls'[j].live = calls[i].live
    BY <2>2, <2>3 DEF Flow
  <2>5. Listing(calls'[j]) /\ calls'[j].do = "list"
    BY <1>1, <2>4 DEF Carried, Listing
  <2>6. QED  BY <2>5
<1>2. QED  BY <1>1 DEF Matched

LEMMA OneKeyFlows ==
  ASSUME OneKey, NEW o, NEW gone, NEW z, Flow(o, gone, z), 0 \notin DOMAIN calls,
         "key" \in busy /\ "key" \notin busy' => \E i \in gone \intersect DOMAIN calls : Keyed(calls[i]),
         Keyed(z) => /\ "key" \in busy'
                     /\ \A i \in DOMAIN calls \ gone : ~Keyed(calls[i])
  PROVE  OneKey'
<1>1. ASSUME NEW x, NEW y, Carried(x, y), Keyed(y) PROVE Keyed(x)
  BY <1>1 DEF Carried, Keyed
<1>2. ASSUME NEW x, Aside(x) PROVE ~Keyed(x)
  BY <1>2 DEF Aside, Keyed
<1>3. ASSUME NEW j \in DOMAIN calls', Keyed(calls'[j])
      PROVE  \/ /\ o[j] \in DOMAIN calls \ gone /\ Keyed(calls[o[j]]) /\ ~Keyed(z)
                /\ "key" \in busy'
             \/ /\ o[j] = 0 /\ Keyed(z) /\ "key" \in busy'
                /\ \A i \in DOMAIN calls \ gone : ~Keyed(calls[i])
  <2>1. CASE o[j] \in DOMAIN calls \ gone /\ Carried(calls[o[j]], calls'[j])
    <3>1. Keyed(calls[o[j]])
      BY <1>1, <1>3, <2>1
    <3>2. "key" \in busy /\ \A i \in DOMAIN calls : Keyed(calls[i]) => i = o[j]
      BY <2>1, <3>1 DEF OneKey
    <3>3. QED  BY <2>1, <3>1, <3>2
  <2>2. CASE o[j] = 0 /\ (Aside(calls'[j]) \/ calls'[j] = z)
    BY <1>2, <1>3, <2>2
  <2>3. QED  BY <2>1, <2>2 DEF Flow
<1>4. ASSUME NEW j \in DOMAIN calls', Keyed(calls'[j]), NEW l \in DOMAIN calls', Keyed(calls'[l])
      PROVE  l = j
  <2>1. o[l] = o[j]
    <3>1. CASE Keyed(z)
      BY <1>3, <1>4, <3>1
    <3>2. CASE ~Keyed(z)
      BY <1>3, <1>4, <3>2 DEF OneKey
    <3>3. QED  BY <3>1, <3>2
  <2>2. ~Aside(calls'[j]) /\ ~Aside(calls'[l])
    BY <1>2, <1>4
  <2>3. QED  BY <2>1, <2>2, Zenon DEF Flow
<1>5. QED  BY <1>3, <1>4 DEF OneKey

LEMMA KeyMadeFlows ==
  ASSUME KeyMade, NEW o, NEW gone, NEW z, Flow(o, gone, z), 0 \notin DOMAIN calls,
         conf'.key = conf.key \/ conf'.key = 0,
         server'.key = server.key /\ server'.mine = server.mine,
         \A j \in DOMAIN calls' : o[j] # 0 =>
             \/ calls'[j].code = calls[o[j]].code /\ calls'[j].count = calls[o[j]].count
             \/ calls'[j].code # 200
             \/ calls'[j].do # "regenerate",
         z.do = "regenerate" => conf'.key = 0 /\ z.code # 200
  PROVE  KeyMade'
<1>1. ASSUME NEW j \in DOMAIN calls', calls'[j].do = "regenerate", calls'[j].live
      PROVE  /\ conf'.key = 0
             /\ calls'[j].code = 200 /\ server'.mine => calls'[j].count = server'.key
  <2>1. CASE o[j] = 0
    <3>1. calls'[j] = z
      BY <1>1, <2>1 DEF Flow, Aside
    <3>2. QED  BY <1>1, <3>1
  <2>2. CASE o[j] # 0
    <3>1. o[j] \in DOMAIN calls /\ Carried(calls[o[j]], calls'[j])
      BY <2>2 DEF Flow
    <3>2. calls[o[j]].do = "regenerate" /\ calls[o[j]].live
      BY <1>1, <3>1 DEF Carried
    <3>3. /\ conf.key = 0
          /\ calls[o[j]].code = 200 /\ server.mine => calls[o[j]].count = server.key
      BY <3>1, <3>2 DEF KeyMade
    <3>4. QED  BY <1>1, <2>2, <3>3
  <2>3. QED  BY <2>1, <2>2
<1>2. QED  BY <1>1 DEF KeyMade

-----------------------------------------------------------------------------
(* The sequences that are sent.                                             *)

Asides(n) == n \in Seq(Call) /\ \A a \in 1..Len(n) : Aside(n[a])

LEMMA AsidesSingle ==
  ASSUME NEW n, Asides(n), NEW z PROVE Single(n, z)
BY DEF Asides, Single

LEMMA NoneAside == Asides(<<>>)
BY DEF Asides

LEMMA OneAside ==
  ASSUME NEW x \in Call, Aside(x) PROVE Asides(<<x>>)
BY DEF Asides

LEMMA OneSingle ==
  ASSUME NEW x \in Call PROVE Single(<<x>>, x)
BY DEF Single

LEMMA AsidesJoined ==
  ASSUME NEW n, Asides(n), NEW m, Asides(m) PROVE Asides(n \o m)
<1>1. n \in Seq(Call) /\ m \in Seq(Call)
  BY DEF Asides
<1>2. /\ n \o m \in Seq(Call) /\ Len(n \o m) = Len(n) + Len(m) /\ Len(n) \in Nat
      /\ Len(m) \in Nat /\ \A j \in 1..Len(n) : (n \o m)[j] = n[j]
      /\ \A j \in 1..Len(m) : (n \o m)[Len(n) + j] = m[j]
  BY <1>1, Joined, Zenon
<1>3. ASSUME NEW a \in 1..Len(n \o m) PROVE Aside((n \o m)[a])
  <2>1. CASE a \in 1..Len(n)
    BY <1>2, <2>1 DEF Asides
  <2>2. CASE a \notin 1..Len(n)
    <3> DEFINE h == a - Len(n)
    <3>1. h \in 1..Len(m) /\ Len(n) + h = a
      BY <1>2, <2>2
    <3> HIDE DEF h
    <3>2. (n \o m)[Len(n) + h] = m[h]
      BY <1>2, <3>1
    <3>3. QED  BY <3>1, <3>2 DEF Asides
  <2>3. QED  BY <2>1, <2>2
<1>4. QED  BY <1>2, <1>3 DEF Asides

LEMMA SingleJoined ==
  ASSUME NEW n, NEW z, Single(n, z), NEW m, Asides(m)
  PROVE  Single(n \o m, z) /\ Single(m \o n, z)
<1>1. n \in Seq(Call) /\ m \in Seq(Call)
  BY DEF Asides, Single
<1>2. ASSUME NEW u \in Seq(Call), NEW v \in Seq(Call), NEW a \in 1..Len(u \o v)
      PROVE  \/ a \in 1..Len(u) /\ (u \o v)[a] = u[a]
             \/ /\ a \notin 1..Len(u) /\ a - Len(u) \in 1..Len(v)
                /\ (u \o v)[a] = v[a - Len(u)]
  <2>1. /\ Len(u \o v) = Len(u) + Len(v) /\ Len(u) \in Nat /\ Len(v) \in Nat
        /\ \A j \in 1..Len(u) : (u \o v)[j] = u[j]
        /\ \A j \in 1..Len(v) : (u \o v)[Len(u) + j] = v[j]
    BY Joined, Zenon
  <2>2. CASE a \in 1..Len(u)
    BY <2>1, <2>2
  <2>3. CASE a \notin 1..Len(u)
    <3> DEFINE h == a - Len(u)
    <3>1. h \in 1..Len(v) /\ Len(u) + h = a
      BY <2>1, <2>3
    <3> HIDE DEF h
    <3>2. (u \o v)[Len(u) + h] = v[h]
      BY <2>1, <3>1
    <3>3. QED  BY <2>3, <3>1, <3>2 DEF h
  <2>4. QED  BY <2>2, <2>3
<1>3. n \o m \in Seq(Call) /\ m \o n \in Seq(Call)
  BY <1>1
<1>4. Len(n) \in Nat /\ Len(m) \in Nat
  BY <1>1
<1>5. Single(n \o m, z)
  <2>1. ASSUME NEW a \in 1..Len(n \o m)
        PROVE  \/ a \in 1..Len(n) /\ (n \o m)[a] = n[a]
               \/ a \notin 1..Len(n) /\ Aside((n \o m)[a])
    <3>1. \/ a \in 1..Len(n) /\ (n \o m)[a] = n[a]
          \/ /\ a \notin 1..Len(n) /\ a - Len(n) \in 1..Len(m)
             /\ (n \o m)[a] = m[a - Len(n)]
      BY <1>1, <1>2, Zenon
    <3>2. QED  BY <3>1 DEF Asides
  <2>2. \A a \in 1..Len(n \o m) : Aside((n \o m)[a]) \/ (n \o m)[a] = z
    BY <2>1 DEF Single
  <2>3. \A a, b \in 1..Len(n \o m) : a = b \/ Aside((n \o m)[a]) \/ Aside((n \o m)[b])
    BY <2>1 DEF Single
  <2>4. QED  BY <1>3, <2>2, <2>3 DEF Single
<1>6. Single(m \o n, z)
  <2>1. ASSUME NEW a \in 1..Len(m \o n)
        PROVE  \/ /\ a \notin 1..Len(m) /\ a - Len(m) \in 1..Len(n)
                  /\ (m \o n)[a] = n[a - Len(m)]
               \/ Aside((m \o n)[a])
    <3>1. \/ a \in 1..Len(m) /\ (m \o n)[a] = m[a]
          \/ /\ a \notin 1..Len(m) /\ a - Len(m) \in 1..Len(n)
             /\ (m \o n)[a] = n[a - Len(m)]
      BY <1>1, <1>2, Zenon
    <3>2. QED  BY <3>1 DEF Asides
  <2>2. \A a \in 1..Len(m \o n) : Aside((m \o n)[a]) \/ (m \o n)[a] = z
    BY <2>1, Zenon DEF Single
  <2>3. ASSUME NEW a \in 1..Len(m \o n), NEW b \in 1..Len(m \o n), a # b
        PROVE  Aside((m \o n)[a]) \/ Aside((m \o n)[b])
    <3>1. a - Len(m) # b - Len(m)
      BY <1>4, <2>3
    <3>2. QED  BY <2>1, <3>1 DEF Single
  <2>4. QED  BY <1>3, <2>2, <2>3 DEF Single
<1>7. QED  BY <1>5, <1>6

-----------------------------------------------------------------------------
(* What the operators of the model make of the calls.                       *)

LEMMA Listed ==
  ASSUME NEW l \in Nat, NEW f \in [1..l -> Call] PROVE f \in Seq(Call) /\ Len(f) = l
<1>1. f \in Seq(Call)
  OBVIOUS
<1>2. Len(f) \in Nat /\ DOMAIN f = 1..Len(f) /\ DOMAIN f = 1..l
  BY <1>1
<1>3. Len(f) = l
  BY <1>2
<1>4. QED  BY <1>1, <1>3

\* What is carried on is as it was.
Still(o) == \A j \in DOMAIN calls' : o[j] # 0 => calls'[j] = calls[o[j]]

LEMMA SameCalls ==
  ASSUME calls \in Seq(Call), calls' = calls
  PROVE  \E o : /\ Flow(o, {}, NoCall) /\ Still(o)
                /\ \A j \in DOMAIN calls' : o[j] # 0
<1> DEFINE o == [j \in DOMAIN calls |-> j]
<1>1. \A j \in DOMAIN calls : calls[j] \in Call /\ j # 0
  OBVIOUS
<1>2. \A j \in DOMAIN calls : Carried(calls[j], calls'[j])
  BY <1>1, Unchanged DEF Waiting
<1>3. Flow(o, {}, NoCall)
  BY <1>2 DEF Flow
<1>4. Still(o) /\ \A j \in DOMAIN calls' : o[j] # 0
  BY <1>1 DEF Still
<1>5. QED  BY <1>3, <1>4

LEMMA Sent ==
  ASSUME calls \in Seq(Call), NEW n, NEW z, Single(n, z), calls' = calls \o n
  PROVE  \E o : /\ Flow(o, {}, z) /\ Still(o)
                /\ \A j \in DOMAIN calls' :
                     o[j] = 0 => \E a \in 1..Len(n) : calls'[j] = n[a]
<1>1. PICK o : Kept(calls, {}, o)
  BY KeptAll
<1>2. \A j \in 1..Len(calls) : Carried(calls[j], calls[j])
  BY Unchanged DEF Waiting
<1>3. PICK q : Flow(q, {}, z) /\ Laid(q, calls, calls, n)
  BY <1>1, <1>2, Flowing, Zenon
<1>4. Still(q)
  BY <1>3 DEF Still, Laid
<1>5. \A j \in DOMAIN calls' : q[j] = 0 => \E a \in 1..Len(n) : calls'[j] = n[a]
  BY <1>3 DEF Laid
<1>6. QED  BY <1>3, <1>4, <1>5

\* The handler of call `i` goes on with `c`, for the page it belongs to, shown or left.
Onward(o, z, i, c) ==
  /\ Flow(o, {i}, z) /\ Still(o)
  /\ Inherits(c, z) /\ z.live = calls[i].live
  /\ \A j \in DOMAIN calls' : o[j] = 0 => calls'[j].live = calls[i].live

LEMMA GoingOn ==
  ASSUME calls \in Seq(Call), NEW i \in DOMAIN calls, NEW n, NEW c \in Call,
         Single(n, c), GoesOn(i, n)
  PROVE  \E o, z : Onward(o, z, i, c)
<1> DEFINE k == RemoveAt(calls, i)
           h(x) == [x EXCEPT !.at = calls[i].at, !.live = calls[i].live]
           m == [a \in DOMAIN n |-> [n[a] EXCEPT !.at = calls[i].at, !.live = calls[i].live]]
<1>1. PICK o : Kept(k, {i}, o)
  BY KeptBut
<1>2. calls' = k \o m
  BY DEF GoesOn
<1>3. calls[i].at \in Pages /\ calls[i].live \in BOOLEAN
  <2>1. calls[i] \in Call
    OBVIOUS
  <2>2. QED  BY <2>1 DEF Call
<1>4. ASSUME NEW x \in Call
      PROVE  h(x) \in Call /\ Inherits(x, h(x)) /\ h(x).live = calls[i].live
  <2>1. \A p \in Pages, b \in BOOLEAN :
          /\ [x EXCEPT !.at = p, !.live = b] \in Call
          /\ Inherits(x, [x EXCEPT !.at = p, !.live = b])
          /\ [x EXCEPT !.at = p, !.live = b].live = b
    BY HandedOn, Zenon
  <2>2. QED  BY <1>3, <2>1, Zenon
<1>5. \A x, y : Aside(x) /\ Inherits(x, y) => Aside(y)
  BY DEF Aside, Inherits
<1>6. n \in Seq(Call) /\ DOMAIN n = 1..Len(n) /\ Len(n) \in Nat
  BY DEF Single
<1>7. \A a \in 1..Len(n) : n[a] \in Call /\ m[a] = h(n[a])
  BY <1>6
<1>8. m \in Seq(Call) /\ Len(m) = Len(n)
  <2>1. \A a \in 1..Len(n) : m[a] \in Call
    BY <1>4, <1>7
  <2>2. m \in [1..Len(n) -> Call]
    BY <1>6, <2>1
  <2> HIDE DEF m
  <2>3. QED  BY <1>6, <2>2, Listed, Zenon
<1> HIDE DEF m, h, k
<1>9. \A a \in 1..Len(m) : n[a] \in Call /\ m[a] = h(n[a]) /\ Inherits(n[a], m[a])
                           /\ m[a].live = calls[i].live
  BY <1>4, <1>7, <1>8
<1>10. Single(m, h(c))
  <2>1. \A a \in 1..Len(m) : Aside(m[a]) \/ m[a] = h(c)
    BY <1>5, <1>8, <1>9 DEF Single
  <2>2. \A a, b \in 1..Len(m) : a = b \/ Aside(m[a]) \/ Aside(m[b])
    BY <1>5, <1>8, <1>9 DEF Single
  <2>3. QED  BY <1>8, <2>1, <2>2 DEF Single
<1>11. k \in Seq(Call) /\ \A j \in 1..Len(k) : Carried(k[j], k[j])
  <2>1. k \in Seq(Call)
    BY <1>1 DEF Kept
  <2>2. ASSUME NEW j \in 1..Len(k) PROVE Carried(k[j], k[j])
    <3>1. k[j] \in Call
      BY <2>1
    <3>2. QED  BY <3>1, Unchanged DEF Waiting
  <2>3. QED  BY <2>1, <2>2
<1>12. PICK q : Flow(q, {i}, h(c)) /\ Laid(q, k, k, m)
  BY <1>1, <1>2, <1>10, <1>11, Flowing, Zenon
<1>13. Still(q)
  BY <1>12 DEF Still, Laid
<1>14. ASSUME NEW j \in DOMAIN calls', q[j] = 0 PROVE calls'[j].live = calls[i].live
  <2>1. PICK a \in 1..Len(m) : calls'[j] = m[a]
    BY <1>12, <1>14 DEF Laid
  <2>2. QED  BY <1>9, <2>1
<1>15. Inherits(c, h(c)) /\ h(c).live = calls[i].live
  BY <1>4
<1>16. Onward(q, h(c), i, c)
  BY <1>12, <1>13, <1>14, <1>15 DEF Onward
<1>17. QED  BY <1>16

\* The calls `k` that are kept, and the new ones.
LEMMA KeptOn ==
  ASSUME calls \in Seq(Call), NEW k, NEW gone, NEW o, Kept(k, gone, o), NEW n, NEW z,
         Single(n, z), calls' = k \o n
  PROVE  \E q : Flow(q, gone, z) /\ Still(q) /\ Laid(q, k, k, n)
<1>1. k \in Seq(Call) /\ \A j \in 1..Len(k) : Carried(k[j], k[j])
  <2>1. k \in Seq(Call)
    BY DEF Kept
  <2>2. ASSUME NEW j \in 1..Len(k) PROVE Carried(k[j], k[j])
    <3>1. k[j] \in Call
      BY <2>1
    <3>2. QED  BY <3>1, Unchanged DEF Waiting
  <2>3. QED  BY <2>1, <2>2
<1>2. PICK q : Flow(q, gone, z) /\ Laid(q, k, k, n)
  BY <1>1, Flowing, Zenon
<1>3. Still(q)
  BY <1>2 DEF Still, Laid
<1>4. QED  BY <1>2, <1>3

\* The calls that a request for a list overlaps.
LEMMA Crowded ==
  ASSUME calls \in Seq(Call), NEW n, NEW z, Single(n, z), calls' = Crowd \o n
  PROVE  \E o : /\ Flow(o, {}, z)
                /\ \A j \in DOMAIN calls' : o[j] # 0 =>
                     /\ Waiting(calls[o[j]], calls'[j])
                     /\ calls'[j].live = calls[o[j]].live
                     /\ ~(Listing(calls'[j]) /\ calls'[j].alone)
<1> DEFINE m == Crowd
<1>1. PICK o : Kept(calls, {}, o)
  BY KeptAll
<1>2. \A j \in 1..Len(calls) : calls[j] \in Call
  OBVIOUS
<1>3. Len(calls) \in Nat /\ DOMAIN calls = 1..Len(calls)
  OBVIOUS
<1>4. ASSUME NEW j \in 1..Len(calls)
      PROVE  /\ m[j] \in Call /\ Waiting(calls[j], m[j]) /\ m[j].live = calls[j].live
             /\ ~(Listing(m[j]) /\ m[j].alone)
  <2>1. CASE j \in Lists(calls)
    <3>1. m[j] = [calls[j] EXCEPT !.alone = FALSE]
      BY <1>3, <2>1 DEF Crowd
    <3>2. QED  BY <1>2, <3>1, Overlapped
  <2>2. CASE j \notin Lists(calls)
    <3>1. m[j] = calls[j]
      BY <1>3, <2>2 DEF Crowd
    <3>2. ~Listing(calls[j])
      BY <1>3, <2>2 DEF Lists, Listing
    <3>3. QED  BY <1>2, <3>1, <3>2, Unchanged
  <2>3. QED  BY <2>1, <2>2
<1>5. m \in [1..Len(calls) -> Call]
  BY <1>3, <1>4 DEF Crowd
<1> HIDE DEF m
<1>6. m \in Seq(Call) /\ Len(m) = Len(calls)
  BY <1>3, <1>5, Listed, Zenon
<1>7. calls' = m \o n
  BY DEF m
<1>8. \A j \in 1..Len(calls) : Carried(calls[j], m[j])
  BY <1>4 DEF Waiting
<1>9. PICK q : Flow(q, {}, z) /\ Laid(q, calls, m, n)
  BY <1>1, <1>6, <1>7, <1>8, Flowing, Zenon
<1>10. ASSUME NEW j \in DOMAIN calls', q[j] # 0
       PROVE  /\ Waiting(calls[q[j]], calls'[j]) /\ calls'[j].live = calls[q[j]].live
              /\ ~(Listing(calls'[j]) /\ calls'[j].alone)
  <2>1. j \in 1..Len(calls) /\ calls'[j] = m[j] /\ calls[j] = calls[q[j]]
    BY <1>9, <1>10 DEF Laid
  <2>2. QED  BY <1>4, <2>1
<1>11. QED  BY <1>9, <1>10

\* The calls of a page that is left for `p`, and the new ones.
Orphan(o, p, n) ==
  /\ \A j \in DOMAIN calls' : o[j] # 0 =>
       /\ Waiting(calls[o[j]], calls'[j])
       /\ calls'[j].live => calls'[j].do = "gate" /\ p # "out"
  /\ \A j \in DOMAIN calls' : o[j] = 0 => \E a \in 1..Len(n) : calls'[j] = n[a]

LEMMA Orphaned ==
  ASSUME calls \in Seq(Call), NEW k, NEW gone, NEW o, Kept(k, gone, o), NEW n, NEW z,
         Single(n, z), NEW p, calls' = Orphans(k, p) \o n
  PROVE  \E q : Flow(q, gone, z) /\ Orphan(q, p, n)
<1> DEFINE m == Orphans(k, p)
<1>1. k \in Seq(Call) /\ Len(k) \in Nat /\ DOMAIN k = 1..Len(k)
  <2>1. k \in Seq(Call)
    BY DEF Kept
  <2>2. QED  BY <2>1
<1>2. \A j \in 1..Len(k) : k[j] \in Call
  BY <1>1
<1>3. ASSUME NEW j \in 1..Len(k)
      PROVE  /\ m[j] \in Call /\ Waiting(k[j], m[j])
             /\ m[j].live => m[j].do = "gate" /\ p # "out"
  <2>1. CASE k[j].do = "gate" /\ p # "out"
    <3>1. m[j] = k[j]
      BY <1>1, <2>1 DEF Orphans
    <3>2. QED  BY <1>2, <2>1, <3>1, Unchanged
  <2>2. CASE ~(k[j].do = "gate" /\ p # "out")
    <3>1. m[j] = [k[j] EXCEPT !.live = FALSE]
      BY <1>1, <2>2 DEF Orphans
    <3>2. QED  BY <1>2, <3>1, LeftBehind
  <2>3. QED  BY <2>1, <2>2
<1>4. m \in [1..Len(k) -> Call]
  BY <1>1, <1>3 DEF Orphans
<1> HIDE DEF m
<1>5. m \in Seq(Call) /\ Len(m) = Len(k)
  BY <1>1, <1>4, Listed, Zenon
<1>6. calls' = m \o n
  BY DEF m
<1>7. \A j \in 1..Len(k) : Carried(k[j], m[j])
  BY <1>3 DEF Waiting
<1>8. PICK q : Flow(q, gone, z) /\ Laid(q, k, m, n)
  BY <1>5, <1>6, <1>7, Flowing, Zenon
<1>9. ASSUME NEW j \in DOMAIN calls', q[j] # 0
      PROVE  /\ Waiting(calls[q[j]], calls'[j])
             /\ calls'[j].live => calls'[j].do = "gate" /\ p # "out"
  <2>1. j \in 1..Len(k) /\ calls'[j] = m[j] /\ k[j] = calls[q[j]]
    BY <1>8, <1>9 DEF Laid
  <2>2. QED  BY <1>3, <2>1
<1>10. \A j \in DOMAIN calls' : q[j] = 0 => \E a \in 1..Len(n) : calls'[j] = n[a]
  BY <1>8 DEF Laid
<1>11. QED  BY <1>8, <1>9, <1>10 DEF Orphan

\* A call that is answered.
LEMMA Answered ==
  ASSUME calls \in Seq(Call), NEW i \in DOMAIN calls, NEW x \in Call,
         Carried(calls[i], x), calls' = [calls EXCEPT ![i] = x]
  PROVE  /\ DOMAIN calls' = DOMAIN calls /\ calls'[i] = x
         /\ \A j \in DOMAIN calls : j # i => calls'[j] = calls[j]
         /\ Flow([j \in DOMAIN calls |-> j], {}, NoCall)
<1> DEFINE o == [j \in DOMAIN calls |-> j]
<1>1. /\ DOMAIN calls' = DOMAIN calls /\ calls'[i] = x
      /\ \A j \in DOMAIN calls : j # i => calls'[j] = calls[j]
  OBVIOUS
<1>2. calls' \in Seq(Call)
  OBVIOUS
<1>3. \A j \in DOMAIN calls : calls[j] \in Call
  OBVIOUS
<1>4. \A j \in DOMAIN calls : Carried(calls[j], calls'[j])
  BY <1>1, <1>3, Unchanged DEF Waiting
<1>5. Flow(o, {}, NoCall)
  BY <1>1, <1>2, <1>4 DEF Flow
<1>6. QED  BY <1>1, <1>5

-----------------------------------------------------------------------------
(* What is asked.                                                           *)

LEMMA AskedAside ==
  ASSUME TokenOK, NEW p \in Pages, NEW do \in Requests, NEW ends \in SUBSET Spinners,
         do \notin {"list", "delete", "purge", "retention", "create", "save", "login",
                    "regenerate"},
         "key" \notin ends
  PROVE  request(p, do, ends) \in Call /\ Aside(request(p, do, ends))
<1>1. Request(request(p, do, ends), do, ends)
  BY Asked
<1>2. QED  BY <1>1 DEF Request, Aside

LEMMA AsideWith ==
  ASSUME NEW x \in Call, Aside(x), NEW D \in SUBSET Domains, NEW b \in BOOLEAN, NEW n \in Nat
  PROVE  /\ [x EXCEPT !.names = D] \in Call /\ Aside([x EXCEPT !.names = D])
         /\ [x EXCEPT !.flag = b] \in Call /\ Aside([x EXCEPT !.flag = b])
         /\ [x EXCEPT !.count = n] \in Call /\ Aside([x EXCEPT !.count = n])
<1>1. [x EXCEPT !.names = D] \in Call /\ Aside([x EXCEPT !.names = D])
  BY DEF Call, Aside
<1>2. [x EXCEPT !.flag = b] \in Call /\ Aside([x EXCEPT !.flag = b])
  BY DEF Call, Aside
<1>3. [x EXCEPT !.count = n] \in Call /\ Aside([x EXCEPT !.count = n])
  BY DEF Call, Aside
<1>4. QED  BY <1>1, <1>2, <1>3

LEMMA StatusAside ==
  ASSUME NEW p \in Pages, server \in Server
  PROVE  setup_status(p) \in Call /\ Aside(setup_status(p))
<1> DEFINE a == [NoCall EXCEPT !.do = "gate"]
           b == [a EXCEPT !.at = p]
           c == [b EXCEPT !.code = 200]
           d == [c EXCEPT !.flag = server.initialized]
<1>1. setup_status(p) = d
  BY DEF setup_status
<1>2. a \in Call /\ a.do = "gate" /\ a.ends = {}
  <2>1. NoCall.ends = {}
    BY DEF NoCall
  <2>2. "gate" \in Requests
    BY DEF Requests
  <2>3. QED  BY <2>1, <2>2, NoCallTyping DEF Call
<1> HIDE DEF a
<1>3. b \in Call /\ b.do = "gate" /\ b.ends = {}
  BY <1>2 DEF Call
<1> HIDE DEF b
<1>4. c \in Call /\ c.do = "gate" /\ c.ends = {}
  BY <1>3 DEF Call
<1> HIDE DEF c
<1>5. d \in Call /\ d.do = "gate" /\ d.ends = {}
  <2>1. server.initialized \in BOOLEAN
    BY DEF Server
  <2>2. QED  BY <1>4, <2>1 DEF Call
<1> HIDE DEF d
<1>6. QED  BY <1>1, <1>5 DEF Aside

\* A request that ends in a list, asked when nothing else was if `b`.
Lister(z, do, ends, n, s, b) ==
  /\ z \in Call /\ z.do = do /\ z.ends = ends /\ z.live = TRUE /\ z.code = 0
  /\ z.page = n /\ z.search = s /\ z.alone = b /\ z.token = token

LEMMA ListAsked ==
  ASSUME TokenOK, NEW p \in Pages, NEW do \in Requests, NEW ends \in SUBSET Spinners,
         NEW n \in 1..MaxPages, NEW s \in BOOLEAN, NEW b \in BOOLEAN
  PROVE  Lister([request(p, do, ends) EXCEPT !.page = n, !.search = s, !.alone = b],
                do, ends, n, s, b)
<1> DEFINE x == request(p, do, ends)
           y == [x EXCEPT !.page = n]
           z == [y EXCEPT !.search = s]
<1>1. x \in Call /\ x.do = do /\ x.ends = ends /\ x.live = TRUE /\ x.code = 0 /\ x.token = token
  <2>1. Request(x, do, ends)
    BY Asked
  <2>2. QED  BY <2>1 DEF Request
<1> HIDE DEF x
<1>2. /\ y \in Call /\ y.do = do /\ y.ends = ends /\ y.live = TRUE /\ y.code = 0
      /\ y.token = token /\ y.page = n
  BY <1>1 DEF Call
<1> HIDE DEF y
<1>3. /\ z \in Call /\ z.do = do /\ z.ends = ends /\ z.live = TRUE /\ z.code = 0
      /\ z.token = token /\ z.page = n /\ z.search = s
  BY <1>2 DEF Call
<1> HIDE DEF z
<1>4. Lister([z EXCEPT !.alone = b], do, ends, n, s, b)
  BY <1>3 DEF Call, Lister
<1>5. [x EXCEPT !.page = n, !.search = s, !.alone = b] = [z EXCEPT !.alone = b]
  BY DEF y, z
<1>6. QED  BY <1>4, <1>5 DEF x

LEMMA FirstListAsked ==
  ASSUME TokenOK, NEW p \in Pages
  PROVE  \E z : /\ Lister(z, "list", {"list"}, 1, FALSE, TRUE)
                /\ FirstList(p) = <<z>>
<1> DEFINE x == request(p, "list", {"list"})
           z == [x EXCEPT !.page = 1]
<1>1. /\ x \in Call /\ x.do = "list" /\ x.ends = {"list"} /\ x.live = TRUE /\ x.code = 0
      /\ x.token = token /\ x.search = FALSE /\ x.alone = TRUE
  <2>1. "list" \in Requests /\ {"list"} \in SUBSET Spinners
    BY DEF Requests, Spinners
  <2>2. Request(x, "list", {"list"})
    BY <2>1, Asked
  <2>3. QED  BY <2>2 DEF Request
<1>2. 1 \in 1..MaxPages
  BY AdminApiAssumption
<1> HIDE DEF x
<1>3. Lister(z, "list", {"list"}, 1, FALSE, TRUE)
  BY <1>1, <1>2 DEF Call, Lister
<1>4. FirstList(p) = <<z>>
  BY DEF FirstList, x
<1>5. QED  BY <1>3, <1>4

LEMMA ListerKind ==
  ASSUME NEW z, NEW do, NEW ends, NEW n, NEW s, NEW b, Lister(z, do, ends, n, s, b),
         do \in {"list", "delete", "purge", "retention", "create"}, "key" \notin ends
  PROVE  z \in Call /\ Kind(z) /\ Listing(z) /\ ~Keyed(z) /\ z.do = do
BY DEF Lister, Kind, Listing, Keyed

\* What a page asks for when it is mounted.
LEMMA FirstAsked ==
  ASSUME TokenOK, NEW p \in Pages
  PROVE  \E z : /\ Single(First(p), z)
                /\ Aside(z) \/ Lister(z, "list", {"list"}, 1, FALSE, TRUE)
<1>1. \A do \in {"stats", "names", "domains", "config", "tls"} :
        request(p, do, {}) \in Call /\ Aside(request(p, do, {}))
  BY AskedAside DEF Requests, Spinners
<1>2. /\ request(p, "key", {}) \in Call /\ Aside(request(p, "key", {}))
  BY AskedAside DEF Requests, Spinners
<1>3. Aside(NoCall)
  BY DEF Aside, NoCall
<1>4. PICK z : Lister(z, "list", {"list"}, 1, FALSE, TRUE) /\ FirstList(p) = <<z>>
  BY FirstListAsked
<1>5. Single(FirstList(p), z)
  BY <1>4, OneSingle DEF Lister
<1>6. CASE p \in {"emails", "addresses"}
  BY <1>4, <1>5, <1>6 DEF First
<1>7. CASE p = "mailboxes"
  <2>1. Asides(<<request(p, "stats", {})>>) /\ Asides(<<request(p, "names", {})>>)
    BY <1>1, OneAside
  <2>2. Single(<<request(p, "stats", {})>> \o FirstList(p), z)
    BY <1>5, <2>1, SingleJoined
  <2>3. Single((<<request(p, "stats", {})>> \o FirstList(p)) \o <<request(p, "names", {})>>, z)
    BY <2>1, <2>2, SingleJoined
  <2>4. First(p) = (<<request(p, "stats", {})>> \o FirstList(p)) \o <<request(p, "names", {})>>
    BY <1>7 DEF First, FirstMailboxes
  <2>5. QED  BY <1>4, <2>3, <2>4
<1>8. CASE p = "config"
  <2>1. Asides(<<request(p, "config", {}), request(p, "tls", {}), request(p, "key", {})>>)
    BY <1>1, <1>2 DEF Asides
  <2>2. First(p) = <<request(p, "config", {}), request(p, "tls", {}), request(p, "key", {})>>
    BY <1>8 DEF First, FirstConfig
  <2>3. Single(First(p), NoCall)
    BY <2>1, <2>2, AsidesSingle
  <2>4. QED  BY <1>3, <2>3
<1>9. CASE p = "domains"
  <2>1. Asides(<<[request(p, "domains", {}) EXCEPT !.flag = TRUE]>>)
    BY <1>1, AsideWith, OneAside
  <2>2. First(p) = <<[request(p, "domains", {}) EXCEPT !.flag = TRUE]>>
    BY <1>9 DEF First
  <2>3. Single(First(p), NoCall)
    BY <2>1, <2>2, AsidesSingle
  <2>4. QED  BY <1>3, <2>3
<1>10. CASE p \in {"dashboard", "cleanup"}
  <2>1. Asides(<<request(p, "stats", {})>>)
    BY <1>1, OneAside
  <2>2. First(p) = <<request(p, "stats", {})>>
    BY <1>10 DEF First
  <2>3. Single(First(p), NoCall)
    BY <2>1, <2>2, AsidesSingle
  <2>4. QED  BY <1>3, <2>3
<1>11. CASE p = "login"
  <2>1. First(p) = <<>>
    BY <1>11 DEF First
  <2>2. Single(First(p), NoCall)
    BY <2>1, NoneAside, AsidesSingle
  <2>3. QED  BY <1>3, <2>2
<1>12. QED  BY <1>6, <1>7, <1>8, <1>9, <1>10, <1>11 DEF Pages

-----------------------------------------------------------------------------
(* Steps that ask for no list and for nothing about the key.                *)

SameList == list'.page = list.page /\ list'.search = list.search /\ list'.data = list.data

\* What no aside changes.
QuietState ==
  /\ ready' = ready /\ SameList /\ aligned' = aligned /\ (~ready => list' = list)
  /\ conf'.key = conf.key /\ server' = server

Calm(z) == Kind(z) /\ ~Listing(z) /\ ~Keyed(z) /\ z.do # "regenerate"

LEMMA AsideCalm == ASSUME NEW z, Aside(z) PROVE Calm(z)
BY DEF Calm, Aside, Listing, Keyed, Kind

LEMMA Quiet ==
  ASSUME CallsInv, QuietState, NEW o, NEW gone, NEW z,
         Flow(o, gone, z), Still(o), Calm(z), TokenKept(gone) \/ Vouch',
         ready \/ \A j \in DOMAIN calls' : o[j] = 0 => ~calls'[j].live,
         "key" \in busy /\ "key" \notin busy' =>
           \E i \in gone \intersect DOMAIN calls : Keyed(calls[i]),
         \A i \in gone : ~(calls[i].live /\ calls[i].do = "list")
  PROVE  CallsInv'
<1>1. 0 \notin DOMAIN calls
  BY DEF CallsInv, Kinds
<1>2. ~Listing(z) /\ ~Keyed(z) /\ Kind(z) /\ z.do # "regenerate"
  BY DEF Calm
<1>3. Waits'
  BY WaitsFlow DEF CallsInv, QuietState
<1>4. Alone'
  BY <1>1, <1>2, AloneFlows DEF CallsInv, QuietState, SameList
<1>5. Matched'
  BY <1>1, MatchedFlows DEF CallsInv, QuietState, SameList, Still
<1>6. OneKey'
  BY <1>1, <1>2, OneKeyFlows DEF CallsInv
<1>7. KeyMade'
  BY <1>1, <1>2, KeyMadeFlows DEF CallsInv, QuietState, Still
<1>8. Kinds'
  BY <1>2, KindsFlow DEF CallsInv
<1>9. ShownKeyWorks'
  BY DEF CallsInv, QuietState, ShownKeyWorks
<1>10. Vouch'
  BY <1>1, VouchFlows DEF CallsInv
<1>11. QED  BY <1>3, <1>4, <1>5, <1>6, <1>7, <1>8, <1>9, <1>10 DEF CallsInv

\* The user asks.
LEMMA CalmSend ==
  ASSUME CallsInv, QuietState, ready, TokenKept({}) \/ Vouch', NEW n, NEW z, Single(n, z),
         Calm(z), calls' = calls \o n, busy \subseteq busy'
  PROVE  CallsInv'
<1>1. PICK o : Flow(o, {}, z) /\ Still(o)
  BY Sent DEF CallsInv, Kinds
<1>2. QED  BY <1>1, Quiet

LEMMA QuietSend ==
  ASSUME CallsInv, QuietState, ready, TokenKept({}), NEW n, Asides(n),
         calls' = calls \o n, busy \subseteq busy'
  PROVE  CallsInv'
<1>1. Single(n, NoCall) /\ Calm(NoCall)
  BY AsidesSingle, AsideCalm DEF NoCall, Aside
<1>2. QED  BY <1>1, CalmSend

\* The user asks for nothing.
LEMMA QuietStay ==
  ASSUME CallsInv, QuietState, TokenKept({}), calls' = calls, busy \subseteq busy'
  PROVE  CallsInv'
<1>1. PICK o : Flow(o, {}, NoCall) /\ Still(o) /\ \A j \in DOMAIN calls' : o[j] # 0
  BY SameCalls DEF CallsInv, Kinds
<1>2. Calm(NoCall)
  BY AsideCalm DEF NoCall, Aside
<1>3. QED  BY <1>1, <1>2, Quiet

\* A handler goes on.
LEMMA QuietGoesOn ==
  ASSUME CallsInv, QuietState, NEW i \in DOMAIN calls, TokenKept({i}), NEW n, Asides(n),
         GoesOn(i, n), calls[i].do \notin {"list", "gate"},
         "key" \in busy /\ "key" \notin busy' => Keyed(calls[i])
  PROVE  CallsInv'
<1>1. Single(n, NoCall) /\ Aside(NoCall)
  BY AsidesSingle DEF NoCall, Aside
<1>2. PICK o, z : Onward(o, z, i, NoCall)
  BY <1>1, NoCallTyping, GoingOn, Zenon DEF CallsInv, Kinds
<1>3. Calm(z)
  BY <1>1, <1>2, AsideCalm DEF Aside, Inherits, Onward
<1>4. ready \/ \A j \in DOMAIN calls' : o[j] = 0 => ~calls'[j].live
  BY <1>2 DEF CallsInv, Waits, Onward
<1>5. Flow(o, {i}, z) /\ Still(o)
  BY <1>2 DEF Onward
<1>6. QED  BY <1>3, <1>4, <1>5, Quiet

-----------------------------------------------------------------------------
(* What the user does.                                                      *)

LEMMA Typing ==
  ASSUME IInv
  PROVE  /\ TokenOK /\ server \in Server /\ page \in Pages \union {"out"}
         /\ calls \in Seq(Call) /\ CallsInv
BY DEF IInv, TypeOK, AdminApiTypeOK, TokenOK, CallsInv, Kinds

\* What a page sees that leaves the list and the key alone.
LEMMA Quietly ==
  ASSUME UNCHANGED <<list, aligned, conf, ready, server>> PROVE QuietState
BY DEF QuietState, SameList

LEMMA HereKept ==
  ASSUME NEW p \in Pages, Here(p)
  PROVE  ready /\ ready' = ready /\ page = p /\ page' = page /\ TokenKept({}) /\ token' = token
         /\ vouched' = vouched
BY DEF Here, navVars, TokenKept

LEMMA UsesOtherKeeps == ASSUME IInv, UsesOther PROVE CallsInv'
<1>1. TokenOK /\ CallsInv
  BY Typing
<1>2. UNCHANGED <<list, aligned, conf, server>>
  BY DEF UsesOther, Ours, listVars
<1>3. ASSUME NEW p \in Pages, NEW do \in {"add", "check", "remove", "domains", "stats", "run"},
             NEW ends \in SUBSET {"add", "check", "run"}
      PROVE  request(p, do, ends) \in Call /\ Aside(request(p, do, ends))
  BY <1>1, AskedAside DEF Requests, Spinners
<1>4. ASSUME NEW p \in Pages, Here(p), NEW n, Asides(n), NEW on, Send(n, on) PROVE CallsInv'
  <2>1. QuietState /\ ready /\ TokenKept({})
    BY <1>2, <1>4, HereKept, Quietly
  <2>2. calls' = calls \o n /\ busy \subseteq busy'
    BY <1>4 DEF Send
  <2>3. QED  BY <1>1, <1>4, <2>1, <2>2, QuietSend
<1>5. CASE Here("domains") /\ DomainUser
  <2>1. ASSUME NEW d \in Domains, NEW do \in {"add", "check", "remove"},
               NEW on \in SUBSET {"add", "check", "run"},
               Send(<<[request("domains", do, on) EXCEPT !.names = {d}]>>, on)
        PROVE  CallsInv'
    <3>1. "domains" \in Pages /\ {d} \in SUBSET Domains
      BY DEF Pages
    <3>2. Asides(<<[request("domains", do, on) EXCEPT !.names = {d}]>>)
      BY <1>3, <3>1, AsideWith, OneAside
    <3>3. QED  BY <1>4, <1>5, <2>1, <3>1, <3>2
  <2>2. CASE Send(<<request("domains", "domains", {})>>, {})
    <3>1. "domains" \in Pages
      BY DEF Pages
    <3>2. Asides(<<request("domains", "domains", {})>>)
      BY <1>3, <3>1, OneAside
    <3>3. QED  BY <1>4, <1>5, <2>2, <3>1, <3>2
  <2>3. ASSUME NEW d \in Domains, NEW do \in {"add", "check", "remove"}
        PROVE  (IF do = "remove" THEN {} ELSE {do}) \in SUBSET {"add", "check", "run"}
    OBVIOUS
  <2>4. QED  BY <1>5, <2>1, <2>2, <2>3, Zenon DEF DomainUser
<1>6. CASE Here("cleanup") /\ handleRun
  <2>1. "cleanup" \in Pages
    BY DEF Pages
  <2>2. Asides(<<request("cleanup", "run", {"run"})>>)
    BY <1>3, <2>1, OneAside
  <2>3. QED  BY <1>4, <1>6, <2>1, <2>2 DEF handleRun
<1>7. CASE Here("dashboard") /\ LanguageChosen
  <2>1. "dashboard" \in Pages
    BY DEF Pages
  <2>2. Asides(<<request("dashboard", "stats", {})>>)
    BY <1>3, <2>1, OneAside
  <2>3. QED  BY <1>4, <1>7, <2>1, <2>2 DEF LanguageChosen
<1>8. QED  BY <1>5, <1>6, <1>7 DEF UsesOther

\* A save says of a field what FormKept allows it to.
LEMMA SaveAsked ==
  ASSUME IInv, conf.number >= 1, NEW new \in Tokens \union {NoToken}
  PROVE  LET z == [request("config", "save", {"save"}) EXCEPT !.patch = Patchof(new),
                     !.seen = conf.config, !.touched = conf.touched]
         IN  z \in Call /\ z.do = "save" /\ z.ends = {"save"} /\ Kind(z)
<1> DEFINE x == request("config", "save", {"save"})
           y == [x EXCEPT !.patch = Patchof(new)]
           v == [y EXCEPT !.seen = conf.config]
           z == [v EXCEPT !.touched = conf.touched]
<1>1. x \in Call /\ x.do = "save" /\ x.ends = {"save"}
  <2>1. "config" \in Pages /\ "save" \in Requests /\ {"save"} \in SUBSET Spinners
    BY DEF Pages, Requests, Spinners
  <2>2. Request(x, "save", {"save"})
    BY <2>1, Typing, Asked
  <2>3. QED  BY <2>2 DEF Request
<1>2. /\ conf.config \in Config /\ conf.touched \in SUBSET {"toggle", "number", "host"}
      /\ conf.number \in 1..2 /\ conf.toggle \in BOOLEAN /\ conf.host \in BOOLEAN
  BY DEF IInv, TypeOK, ConfTypeOK
<1>3. Patchof(new) \in Patch
  <2>1. FlagPatch \in {"none", "on", "off"}
    BY DEF FlagPatch
  <2>2. HostPatch \in {"none", "set", "clear"}
    BY DEF HostPatch
  <2>3. QED  BY <1>2, <2>1, <2>2 DEF Patchof, Patch
<1>4. /\ "toggle" \notin conf.touched =>
           Patchof(new).toggle = IF conf.config.toggle = "absent" THEN "off" ELSE "none"
      /\ "host" \notin conf.touched => Patchof(new).host = "none"
      /\ "number" \notin conf.touched => Patchof(new).number = conf.config.number
  <2>1. ASSUME "toggle" \notin conf.touched
        PROVE  FlagPatch = IF conf.config.toggle = "absent" THEN "off" ELSE "none"
    <3>1. conf.toggle = (conf.config.toggle = "on")
      BY <2>1 DEF IInv, FormKept
    <3>2. conf.config.toggle \in {"absent", "on", "off"}
      BY <1>2 DEF Config
    <3>3. QED  BY <3>1, <3>2 DEF FlagPatch
  <2>2. ASSUME "host" \notin conf.touched PROVE HostPatch = "none"
    BY <2>2 DEF IInv, FormKept, HostPatch
  <2>3. QED  BY <2>1, <2>2 DEF Patchof, IInv, FormKept
<1> HIDE DEF x
<1>5. y \in Call /\ y.do = "save" /\ y.ends = {"save"} /\ y.patch = Patchof(new)
  <2>1. \A p \in Patch : LET w == [x EXCEPT !.patch = p]
                         IN  w \in Call /\ w.do = "save" /\ w.ends = {"save"} /\ w.patch = p
    BY <1>1 DEF Call
  <2>2. QED  BY <1>3, <2>1
<1> HIDE DEF y
<1>6. /\ v \in Call /\ v.do = "save" /\ v.ends = {"save"} /\ v.patch = Patchof(new)
      /\ v.seen = conf.config
  BY <1>2, <1>5 DEF Call
<1> HIDE DEF v
<1>7. /\ z \in Call /\ z.do = "save" /\ z.ends = {"save"} /\ z.patch = Patchof(new)
      /\ z.seen = conf.config /\ z.touched = conf.touched
  BY <1>2, <1>6 DEF Call
<1> HIDE DEF z
<1>8. Kind(z)
  BY <1>4, <1>7 DEF Kind
<1>9. z = [x EXCEPT !.patch = Patchof(new), !.seen = conf.config, !.touched = conf.touched]
  BY DEF z, v, y
<1>10. QED  BY <1>7, <1>8, <1>9 DEF x

LEMMA ConfigTyping ==
  ASSUME IInv
  PROVE  /\ conf \in [loaded : BOOLEAN, config : Config, toggle : BOOLEAN, number : 0..2,
                      host : BOOLEAN, touched : SUBSET {"toggle", "number", "host"},
                      key : Nat, pending : BOOLEAN]
         /\ FormKept
BY DEF IInv, TypeOK, ConfTypeOK

\* What is done to one field of the form shows in the form and in `touched`.
LEMMA FieldSet ==
  ASSUME IInv, setField
  PROVE  conf'.key = conf.key /\ FormKept'
<1>1. CASE conf' = [conf EXCEPT !.toggle = ~@, !.touched = @ \union {"toggle"}]
  BY <1>1, ConfigTyping DEF FormKept
<1>2. CASE conf' = [conf EXCEPT !.host = ~@, !.touched = @ \union {"host"}]
  BY <1>2, ConfigTyping DEF FormKept
<1>3. ASSUME NEW n \in 0..2,
             conf' = [conf EXCEPT !.number = n, !.touched = @ \union {"number"}]
      PROVE  conf'.key = conf.key /\ FormKept'
  BY <1>3, ConfigTyping DEF FormKept
<1>4. QED  BY <1>1, <1>2, <1>3 DEF setField

LEMMA RegenerateKeeps ==
  ASSUME IInv, ready, TokenKept({}), UNCHANGED <<list, aligned, ready, server>>,
         handleRegenerateApiKey
  PROVE  CallsInv'
<1> DEFINE z == request("config", "regenerate", {"key"})
<1>1. TokenOK /\ calls \in Seq(Call) /\ CallsInv
  BY Typing
<1>2. Request(z, "regenerate", {"key"})
  <2>1. "config" \in Pages /\ "regenerate" \in Requests /\ {"key"} \in SUBSET Spinners
    BY DEF Pages, Requests, Spinners
  <2>2. QED  BY <1>1, <2>1, Asked
<1>3. /\ "key" \notin busy /\ calls' = calls \o <<z>> /\ busy' = busy \union {"key"}
      /\ conf' = [conf EXCEPT !.key = 0]
  BY DEF handleRegenerateApiKey, Send
<1> HIDE DEF z
<1>4. /\ z \in Call /\ z.do = "regenerate" /\ z.ends = {"key"} /\ z.code = 0
      /\ ~Listing(z) /\ Kind(z)
  BY <1>2 DEF Request, Listing, Kind
<1>5. PICK o : Flow(o, {}, z) /\ Still(o)
  BY <1>1, <1>3, <1>4, OneSingle, Sent
<1>6. 0 \notin DOMAIN calls
  BY <1>1
<1>7. conf'.key = 0
  BY <1>3, ConfigTyping
<1>8. Waits'
  BY <1>1, <1>5, WaitsFlow DEF CallsInv
<1>9. Alone'
  BY <1>1, <1>4, <1>5, <1>6, AloneFlows DEF CallsInv
<1>10. Matched'
  BY <1>1, <1>5, <1>6, MatchedFlows DEF CallsInv, Still
<1>11. OneKey'
  <2>1. \A i \in DOMAIN calls : ~Keyed(calls[i])
    BY <1>1, <1>3 DEF CallsInv, OneKey
  <2>2. "key" \in busy'
    BY <1>3
  <2>3. QED  BY <1>1, <1>5, <1>6, <2>1, <2>2, OneKeyFlows DEF CallsInv
<1>12. KeyMade'
  BY <1>1, <1>4, <1>5, <1>6, <1>7, KeyMadeFlows DEF CallsInv, Still
<1>13. Kinds'
  BY <1>1, <1>4, <1>5, KindsFlow DEF CallsInv
<1>14. ShownKeyWorks'
  BY <1>7 DEF ShownKeyWorks
<1>15. Vouch'
  BY <1>1, <1>5, <1>6, VouchFlows DEF CallsInv
<1>16. QED  BY <1>8, <1>9, <1>10, <1>11, <1>12, <1>13, <1>14, <1>15 DEF CallsInv

LEMMA UsesConfigKeeps == ASSUME IInv, UsesConfig PROVE CallsInv' /\ FormKept'
<1>1. /\ TokenOK /\ CallsInv /\ FormKept /\ ready /\ TokenKept({})
      /\ "config" \in Pages /\ UNCHANGED <<list, aligned, ready, server>>
  BY Typing, ConfigTyping, HereKept DEF UsesConfig, Ours, listVars, Pages
<1>2. ASSUME conf'.key = conf.key PROVE QuietState
  BY <1>1, <1>2 DEF QuietState, SameList
<1>3. ASSUME UNCHANGED conf PROVE FormKept' /\ QuietState
  BY <1>1, <1>2, <1>3 DEF FormKept
<1>4. ASSUME NEW n, Asides(n), NEW on, Send(n, on), UNCHANGED conf PROVE CallsInv' /\ FormKept'
  <2>1. calls' = calls \o n /\ busy \subseteq busy'
    BY <1>4 DEF Send
  <2>2. QED  BY <1>1, <1>3, <1>4, <2>1, QuietSend
<1>5. CASE setField
  <2>1. conf'.key = conf.key /\ FormKept' /\ UNCHANGED <<calls, busy>>
    BY <1>5, FieldSet DEF setField
  <2>2. CallsInv'
    BY <1>1, <1>2, <2>1, QuietStay
  <2>3. QED  BY <2>1, <2>2
<1>6. CASE ConfRefresh
  <2>1. Asides(<<request("config", "config", {})>>)
    BY <1>1, AskedAside, OneAside DEF Requests, Spinners
  <2>2. QED  BY <1>4, <1>6, <2>1 DEF ConfRefresh
<1>7. CASE handleIssueCert
  <2>1. /\ request("config", "issue", {"tls"}) \in Call
        /\ Aside(request("config", "issue", {"tls"}))
    BY <1>1, AskedAside DEF Requests, Spinners
  <2>2. Asides(<<[request("config", "issue", {"tls"}) EXCEPT !.count = MaxPolls]>>)
    BY <2>1, AsideWith, OneAside, AdminApiAssumption
  <2>3. QED  BY <1>4, <1>7, <2>2 DEF handleIssueCert
<1>8. CASE handleRegenerateApiKey
  <2>1. CallsInv'
    BY <1>1, <1>8, RegenerateKeeps
  <2>2. conf' = [conf EXCEPT !.key = 0]
    BY <1>8 DEF handleRegenerateApiKey
  <2>3. FormKept'
    BY <2>2, ConfigTyping DEF FormKept
  <2>4. QED  BY <2>1, <2>3
<1>9. ASSUME NEW new \in Tokens \union {NoToken}, handleSave(new) PROVE CallsInv' /\ FormKept'
  <2> DEFINE z == [request("config", "save", {"save"}) EXCEPT !.patch = Patchof(new),
                     !.seen = conf.config, !.touched = conf.touched]
  <2>1. /\ conf.number >= 1 /\ calls' = calls \o <<z>> /\ busy \subseteq busy'
        /\ UNCHANGED conf
    BY <1>9 DEF handleSave, Send
  <2>2. z \in Call /\ z.do = "save" /\ z.ends = {"save"} /\ Kind(z)
    BY <2>1, SaveAsked
  <2> HIDE DEF z
  <2>3. Calm(z)
    BY <2>2 DEF Calm, Listing, Keyed
  <2>4. Single(<<z>>, z)
    BY <2>2, OneSingle
  <2>5. QED  BY <1>1, <1>3, <2>1, <2>3, <2>4, CalmSend
<1>10. QED  BY <1>5, <1>6, <1>7, <1>8, <1>9 DEF UsesConfig, ConfUser

LEMMA Arrived ==
  ASSUME NEW m \in Seq(Call), NEW n \in Seq(Call), calls' = m \o n, NEW a \in 1..Len(n)
  PROVE  \E j \in DOMAIN calls' : calls'[j] = n[a]
<1>1. /\ m \o n \in Seq(Call) /\ Len(m \o n) = Len(m) + Len(n)
      /\ Len(m) \in Nat /\ Len(n) \in Nat /\ (m \o n)[Len(m) + a] = n[a]
  BY Joined, Zenon
<1>2. Len(m) + a \in DOMAIN calls'
  BY <1>1
<1>3. QED  BY <1>1, <1>2

LEMMA LoginKeeps == ASSUME IInv, Login PROVE CallsInv' /\ FormKept'
<1>1. PICK new \in Tokens \union {NoToken} : handleLogin(new)
  BY DEF Login
<1> DEFINE x == request("login", "login", {"login"})
           z == [x EXCEPT !.token = new]
<1>2. TokenOK /\ calls \in Seq(Call) /\ CallsInv /\ FormKept
  BY Typing, ConfigTyping
<1>3. Request(x, "login", {"login"})
  <2>1. "login" \in Pages /\ "login" \in Requests /\ {"login"} \in SUBSET Spinners
    BY DEF Pages, Requests, Spinners
  <2>2. QED  BY <1>2, <2>1, Asked
<1>4. /\ ready /\ token' = new /\ calls' = calls \o <<z>> /\ busy \subseteq busy'
      /\ UNCHANGED <<list, aligned, conf, ready, server>>
  BY <1>1 DEF handleLogin, Send, Views, navVars, Login, Ours
<1> HIDE DEF x
<1>5. z \in Call /\ z.do = "login" /\ z.token = new /\ z.ends = {"login"}
  BY <1>3 DEF Request, Call
<1> HIDE DEF z
<1>6. Calm(z) /\ Single(<<z>>, z)
  BY <1>5, OneSingle DEF Calm, Kind, Listing, Keyed
<1>7. Vouch'
  <2>1. <<z>> \in Seq(Call) /\ 1 \in 1..Len(<<z>>) /\ <<z>>[1] = z
    BY <1>5
  <2>2. \E j \in DOMAIN calls' : calls'[j] = z
    BY <1>2, <1>4, <2>1, Arrived
  <2>3. QED  BY <1>4, <1>5, <2>2 DEF Vouch
<1>8. QuietState
  BY <1>4, Quietly
<1>9. CallsInv'
  BY <1>2, <1>4, <1>6, <1>7, <1>8, CalmSend
<1>10. FormKept'
  BY <1>2, <1>4 DEF FormKept
<1>11. QED  BY <1>9, <1>10

\* A request that ends in the list the controls will show, alone or overlapping others.
LEMMA ListSent ==
  ASSUME IInv, ready, UNCHANGED <<ready, server, conf, aligned>>, TokenKept({}),
         NEW n, NEW z, Single(n, z), calls' = Crowd \o n, busy \subseteq busy',
         NEW do \in {"list", "delete", "purge", "retention", "create"}, NEW ends,
         "key" \notin ends,
         Lister(z, do, ends, list'.page, list'.search, Lists(calls) = {}),
         SameList \/ (do = "list" /\ \E j \in DOMAIN calls' : calls'[j] = z)
  PROVE  CallsInv'
<1>1. TokenOK /\ calls \in Seq(Call) /\ CallsInv
  BY Typing
<1>2. z \in Call /\ Kind(z) /\ Listing(z) /\ ~Keyed(z) /\ z.do = do
  BY ListerKind
<1>3. z.page = list'.page /\ z.search = list'.search /\ z.alone = (Lists(calls) = {})
  BY DEF Lister
<1>4. PICK o : /\ Flow(o, {}, z)
               /\ \A j \in DOMAIN calls' : o[j] # 0 =>
                    /\ Waiting(calls[o[j]], calls'[j])
                    /\ calls'[j].live = calls[o[j]].live
                    /\ ~(Listing(calls'[j]) /\ calls'[j].alone)
  BY <1>1, Crowded
<1>5. 0 \notin DOMAIN calls
  BY <1>1
<1>6. \A j \in DOMAIN calls' : o[j] # 0 =>
        o[j] \in DOMAIN calls /\ Carried(calls[o[j]], calls'[j])
  BY <1>4 DEF Flow
<1>7. Waits'
  BY <1>1, <1>4, WaitsFlow DEF CallsInv
<1>8. Alone'
  <2>1. ASSUME z.alone, NEW j \in DOMAIN calls', o[j] # 0 PROVE ~Listing(calls'[j])
    <3>1. Lists(calls) = {}
      BY <1>3, <2>1
    <3>2. ~Listing(calls[o[j]])
      BY <1>6, <2>1, <3>1 DEF Lists, Listing
    <3>3. QED  BY <1>6, <2>1, <3>2 DEF Carried, Listing
  <2>2. Listing(z) /\ z.alone =>
          /\ z.page = list'.page /\ z.search = list'.search
          /\ \A j \in DOMAIN calls' : o[j] # 0 => ~Listing(calls'[j])
    BY <1>3, <2>1
  <2>3. \A j \in DOMAIN calls' : o[j] # 0 /\ Listing(calls'[j]) /\ calls'[j].alone =>
          list'.page = list.page /\ list'.search = list.search /\ ~Listing(z)
    BY <1>4
  <2>4. Alone /\ Flow(o, {}, z)
    BY <1>1, <1>4 DEF CallsInv
  <2>5. QED  BY <1>5, <2>2, <2>3, <2>4, AloneFlows, Zenon
<1>9. Matched'
  <2>1. CASE SameList
    BY <1>1, <1>4, <1>5, <2>1, MatchedFlows DEF CallsInv, SameList
  <2>2. CASE do = "list" /\ \E j \in DOMAIN calls' : calls'[j] = z
    BY <1>2, <2>2 DEF Matched
  <2>3. QED  BY <2>1, <2>2
<1>10. OneKey'
  BY <1>1, <1>2, <1>4, <1>5, OneKeyFlows DEF CallsInv
<1>11. KeyMade'
  BY <1>1, <1>2, <1>4, <1>5, KeyMadeFlows DEF CallsInv, Waiting
<1>12. Kinds'
  BY <1>1, <1>2, <1>4, KindsFlow DEF CallsInv
<1>13. ShownKeyWorks'
  BY <1>1 DEF CallsInv, ShownKeyWorks
<1>14. Vouch'
  BY <1>1, <1>4, <1>5, VouchFlows DEF CallsInv
<1>15. QED  BY <1>7, <1>8, <1>9, <1>10, <1>11, <1>12, <1>13, <1>14 DEF CallsInv

LEMMA ListTyping ==
  ASSUME IInv
  PROVE  /\ list \in [page : 1..MaxPages, search : BOOLEAN, typed : BOOLEAN,
                      data : [page : 0..MaxPages, search : BOOLEAN, more : BOOLEAN],
                      detail : BOOLEAN, created : BOOLEAN]
         /\ MaxPages \in Nat /\ MaxPages > 0
BY AdminApiAssumption DEF IInv, TypeOK, ListTypeOK

\* The pagination leads to a page there is.
LEMMA TurnTyping ==
  ASSUME IInv, NEW n,
         \/ "prev" \in Pagination /\ n = list.page - 1
         \/ "next" \in Pagination /\ n = list.page + 1
  PROVE  n \in 1..MaxPages
<1>1. list.page \in 1..MaxPages /\ MaxPages \in Nat
  BY ListTyping
<1>2. ASSUME "prev" \in Pagination PROVE list.page > 1
  BY <1>1, <1>2 DEF Pagination
<1>3. ASSUME "next" \in Pagination PROVE list.page < MaxPages
  BY <1>1, <1>3 DEF Pagination
<1>4. QED  BY <1>1, <1>2, <1>3

LEMMA UsesListKeeps == ASSUME IInv, UsesList PROVE CallsInv'
<1>1. TokenOK /\ calls \in Seq(Call) /\ CallsInv
  BY Typing
<1>2. PICK p \in {"emails", "addresses", "mailboxes"} : Here(p) /\ ListUser(p)
  BY DEF UsesList
<1>3. p \in Pages /\ ready /\ TokenKept({}) /\ UNCHANGED <<ready, server, conf>>
  BY <1>2, HereKept DEF UsesList, Ours, Pages
<1>4. ASSUME SameList, aligned' = aligned PROVE QuietState
  BY <1>3, <1>4 DEF QuietState
<1>5. ASSUME UNCHANGED <<calls, busy, aligned>>, SameList PROVE CallsInv'
  BY <1>1, <1>3, <1>4, <1>5, QuietStay
<1>6. ASSUME NEW do \in {"list", "delete", "purge", "retention", "create"},
             NEW ends \in SUBSET {"list", "create"}, NEW n \in 1..MaxPages, NEW s \in BOOLEAN
      PROVE  Lister(ListCall(p, do, ends, n, s), do, ends, n, s, Lists(calls) = {})
  <2>1. do \in Requests /\ ends \in SUBSET Spinners
    BY DEF Requests, Spinners
  <2> DEFINE b == Lists(calls) = {}
  <2>2. b \in BOOLEAN
    OBVIOUS
  <2> HIDE DEF b
  <2>3. Lister([request(p, do, ends) EXCEPT !.page = n, !.search = s, !.alone = b],
               do, ends, n, s, b)
    <3>1. TokenOK /\ p \in Pages
      BY <1>1, <1>3
    <3>2. \A c \in BOOLEAN :
            Lister([request(p, do, ends) EXCEPT !.page = n, !.search = s, !.alone = c],
                   do, ends, n, s, c)
      BY <2>1, <3>1, ListAsked, Zenon
    <3>3. QED  BY <2>2, <3>2, Zenon
  <2>4. QED  BY <2>3 DEF ListCall, b
<1>7. ASSUME NEW n \in 1..MaxPages, NEW s \in BOOLEAN, list'.page = n, list'.search = s,
             aligned' = aligned, Fetch(p, n, s)
      PROVE  CallsInv'
  <2> DEFINE z == ListCall(p, "list", {"list"}, n, s)
  <2>1. calls' = Crowd \o <<z>> /\ busy \subseteq busy'
    BY <1>7 DEF Fetch, SendList
  <2>2. Lister(z, "list", {"list"}, list'.page, list'.search, Lists(calls) = {})
    BY <1>6, <1>7
  <2> HIDE DEF z
  <2>3. z \in Call /\ Single(<<z>>, z)
    BY <2>2, OneSingle DEF Lister
  <2>4. Crowd \in Seq(Call)
    <3>1. \A j \in DOMAIN calls : Crowd[j] \in Call
      <4>1. \A j \in DOMAIN calls : calls[j] \in Call
        BY <1>1
      <4>2. QED  BY <4>1, Overlapped DEF Crowd
    <3>2. Crowd \in [1..Len(calls) -> Call] /\ Len(calls) \in Nat
      BY <1>1, <3>1 DEF Crowd
    <3>3. QED  BY <3>2, Listed, Zenon
  <2>5. \E j \in DOMAIN calls' : calls'[j] = z
    <3>1. <<z>> \in Seq(Call) /\ 1 \in 1..Len(<<z>>) /\ <<z>>[1] = z
      BY <2>3
    <3>2. QED  BY <2>1, <2>4, <3>1, Arrived
  <2>6. UNCHANGED <<ready, server, conf, aligned>>
    BY <1>3, <1>7
  <2>7. "list" \in {"list", "delete", "purge", "retention", "create"} /\ "key" \notin {"list"}
    OBVIOUS
  <2>8. QED  BY <1>3, <2>1, <2>2, <2>3, <2>5, <2>6, <2>7, ListSent, Zenon
<1>8. CASE ListType
  BY <1>5, <1>8, ListTyping DEF ListType, SameList
<1>9. CASE DialogClose
  BY <1>5, <1>9, ListTyping DEF DialogClose, SameList
<1>10. CASE handleSearch(p)
  <2>1. list' = [list EXCEPT !.page = 1, !.search = list.typed] /\ Fetch(p, 1, list.typed)
        /\ aligned' = aligned
    BY <1>10 DEF handleSearch
  <2>2. list'.page = 1 /\ list'.search = list.typed /\ list.typed \in BOOLEAN
        /\ 1 \in 1..MaxPages
    BY <2>1, ListTyping
  <2>3. QED  BY <1>7, <2>1, <2>2
<1>11. CASE Turn(p)
  <2>1. PICK n \in 0..MaxPages :
          /\ \/ "prev" \in Pagination /\ n = list.page - 1
             \/ "next" \in Pagination /\ n = list.page + 1
          /\ list' = [list EXCEPT !.page = n] /\ Fetch(p, n, list.search)
    BY <1>11 DEF Turn
  <2>2. n \in 1..MaxPages
    BY <2>1, TurnTyping
  <2>3. list'.page = n /\ list'.search = list.search /\ list.search \in BOOLEAN
    BY <2>1, ListTyping
  <2>4. aligned' = aligned
    BY <1>11 DEF Turn
  <2>5. QED  BY <1>7, <2>1, <2>2, <2>3, <2>4
<1>12. ASSUME UNCHANGED listVars PROVE SameList /\ aligned' = aligned /\ QuietState
  BY <1>4, <1>12 DEF listVars, SameList
<1>13. ASSUME UNCHANGED listVars, NEW do \in {"list", "delete", "purge", "retention", "create"},
              NEW ends \in SUBSET {"list", "create"}, NEW n, busy \subseteq busy',
              Asides(n),
              calls' = Crowd \o (n \o <<ListCall(p, do, ends, list.page, list.search)>>)
       PROVE  CallsInv'
  <2> DEFINE z == ListCall(p, do, ends, list.page, list.search)
  <2>1. list.page \in 1..MaxPages /\ list.search \in BOOLEAN /\ list' = list
    BY <1>13, ListTyping DEF listVars
  <2>2. Lister(z, do, ends, list'.page, list'.search, Lists(calls) = {})
    BY <1>6, <2>1
  <2> HIDE DEF z
  <2>3. Single(n \o <<z>>, z)
    BY <1>13, <2>2, OneSingle, SingleJoined DEF Lister
  <2>4. calls' = Crowd \o (n \o <<z>>)
    BY <1>13 DEF z
  <2>5. "key" \notin ends
    OBVIOUS
  <2>6. QED  BY <1>3, <1>12, <1>13, <2>2, <2>3, <2>4, <2>5, ListSent
<1>14. CASE ListRefresh(p)
  <2> DEFINE n == IF p = "mailboxes" THEN <<request(p, "stats", {})>> ELSE <<>>
  <2>1. Asides(n)
    <3>1. request(p, "stats", {}) \in Call /\ Aside(request(p, "stats", {}))
      BY <1>1, <1>3, AskedAside DEF Requests, Spinners
    <3>2. QED  BY <3>1, OneAside, NoneAside
  <2>2. /\ calls' = Crowd \o (n \o <<ListCall(p, "list", {"list"}, list.page, list.search)>>)
        /\ busy \subseteq busy' /\ UNCHANGED listVars
    BY <1>14 DEF ListRefresh, SendList
  <2> HIDE DEF n
  <2>3. QED  BY <1>13, <2>1, <2>2
<1>15. CASE handleView(p)
  <2> DEFINE on == IF p = "emails" THEN {"detail"} ELSE {}
  <2>1. Asides(<<request(p, "view", on)>>)
    <3>1. on \in SUBSET Spinners /\ "key" \notin on
      BY DEF Spinners
    <3> HIDE DEF on
    <3>2. request(p, "view", on) \in Call /\ Aside(request(p, "view", on))
      BY <1>1, <1>3, <3>1, AskedAside DEF Requests
    <3>3. QED  BY <3>2, OneAside
  <2>2. UNCHANGED listVars /\ calls' = calls \o <<request(p, "view", on)>>
        /\ busy \subseteq busy'
    BY <1>15 DEF handleView, Send
  <2> HIDE DEF on
  <2>3. QED  BY <1>1, <1>3, <1>12, <2>1, <2>2, QuietSend
<1>16. ASSUME NEW do \in {"delete", "purge", "retention", "create"},
              NEW on \in SUBSET {"list", "create"}, Change(p, do, on)
       PROVE  CallsInv'
  <2> DEFINE z == ListCall(p, do, on, list.page, list.search)
  <2>1. calls' = Crowd \o <<z>> /\ busy \subseteq busy' /\ UNCHANGED listVars
    BY <1>16 DEF Change, SendList
  <2>2. list.page \in 1..MaxPages /\ list.search \in BOOLEAN /\ list' = list
    BY <2>1, ListTyping DEF listVars
  <2>3. Lister(z, do, on, list'.page, list'.search, Lists(calls) = {})
    BY <1>6, <2>2
  <2> HIDE DEF z
  <2>4. Single(<<z>>, z)
    BY <2>3, OneSingle DEF Lister
  <2>5. "key" \notin on
    OBVIOUS
  <2>6. QED  BY <1>3, <1>12, <2>1, <2>3, <2>4, <2>5, ListSent
<1>17. QED
  BY <1>2, <1>8, <1>9, <1>10, <1>11, <1>14, <1>15, <1>16
  DEF ListUser, handleDelete, handlePurge, handleRunRetention, CreateMailbox

-----------------------------------------------------------------------------
(* What follows the awaits, where it is about neither a list nor the key.   *)

LEMMA ChecksAside ==
  ASSUME TokenOK, NEW D \in SUBSET Domains PROVE Asides(DomainChecks(D))
<1> DEFINE ds == SetToSeq(D)
           x == request("domains", "check", {"check"})
<1>1. x \in Call /\ Aside(x)
  BY AskedAside DEF Pages, Requests, Spinners
<1>2. Cardinality(D) \in Nat /\ ds \in [1..Cardinality(D) -> D]
  <2>1. IsFiniteSet(D)
    BY FS_Subset, AdminApiAssumption
  <2>2. Cardinality(D) \in Nat /\ ExistsBijection(1..Cardinality(D), D)
    BY <2>1, FS_CardinalityType
  <2>3. \E f \in [1..Cardinality(D) -> D] : IsInjective(f)
    BY <2>2 DEF ExistsBijection, Bijection, Injection
  <2>4. QED  BY <2>2, <2>3 DEF SetToSeq
<1> HIDE DEF ds, x
<1> DEFINE n == [a \in DOMAIN ds |-> [x EXCEPT !.names = {ds[a]}]]
<1>3. ASSUME NEW a \in 1..Cardinality(D) PROVE n[a] \in Call /\ Aside(n[a])
  <2>1. a \in DOMAIN ds /\ {ds[a]} \in SUBSET Domains
    BY <1>2
  <2>2. [x EXCEPT !.names = {ds[a]}] \in Call /\ Aside([x EXCEPT !.names = {ds[a]}])
    BY <1>1, <2>1, AsideWith
  <2>3. QED  BY <2>1, <2>2
<1>4. n \in [1..Cardinality(D) -> Call]
  BY <1>2, <1>3
<1>5. n = DomainChecks(D)
  BY DEF DomainChecks, ds, x
<1> HIDE DEF n
<1>6. n \in Seq(Call) /\ Len(n) = Cardinality(D)
  BY <1>2, <1>4, Listed, Zenon
<1>7. QED  BY <1>3, <1>5, <1>6 DEF Asides

\* The handler of a call that leaves the token as request() does.
Hearing(i) ==
  /\ IInv /\ i \in DOMAIN calls /\ Stays(i) /\ server' = server
  /\ calls[i].do \notin {"gate", "login"}

LEMMA HearingKept ==
  ASSUME NEW i, Hearing(i)
  PROVE  /\ TokenOK /\ CallsInv /\ i \in DOMAIN calls /\ calls[i] \in Call
         /\ TokenKept({i}) /\ ready' = ready /\ server' = server
         /\ ~ready => ~calls[i].live
<1>1. TokenOK /\ CallsInv /\ calls \in Seq(Call) /\ i \in DOMAIN calls /\ Stays(i)
      /\ server' = server
  BY Typing DEF Hearing
<1>2. calls[i] \in Call
  BY <1>1
<1>3. TokenKept({i}) /\ ready' = ready
  BY <1>1 DEF TokenKept, Stays, Unauthorized, navVars, Hearing
<1>4. ~ready => ~calls[i].live
  BY <1>1 DEF CallsInv, Waits, Hearing
<1>5. QED  BY <1>1, <1>2, <1>3, <1>4

LEMMA HearsQuietly ==
  ASSUME NEW i, Hearing(i), calls[i].do # "list", NEW n, Asides(n), GoesOn(i, n),
         SameList, aligned' = aligned, ~calls[i].live => list' = list,
         conf'.key = conf.key,
         "key" \in busy /\ "key" \notin busy' => calls[i].live /\ "key" \in calls[i].ends
  PROVE  CallsInv'
<1>1. /\ CallsInv /\ i \in DOMAIN calls /\ TokenKept({i}) /\ ready' = ready
      /\ server' = server /\ (~ready => ~calls[i].live)
  BY HearingKept
<1>2. QuietState
  BY <1>1 DEF QuietState
<1>3. calls[i].do \notin {"list", "gate"}
  BY DEF Hearing
<1>4. "key" \in busy /\ "key" \notin busy' => Keyed(calls[i])
  BY DEF Keyed
<1>5. QED  BY <1>1, <1>2, <1>3, <1>4, QuietGoesOn

LEMMA OffKey ==
  ASSUME NEW i, NEW kept, Off(i, kept)
  PROVE  "key" \in busy /\ "key" \notin busy' => calls[i].live /\ "key" \in calls[i].ends
BY DEF Off

LEMMA DomainKeeps ==
  ASSUME NEW i, Hearing(i), DomainHears(i), UNCHANGED <<listVars, conf>> PROVE CallsInv'
<1>1. TokenOK /\ calls[i] \in Call
  BY HearingKept
<1>2. calls[i].names \in SUBSET Domains /\ calls[i].flag \in BOOLEAN
  BY <1>1 DEF Call
<1>3. ASSUME NEW n, Asides(n), GoesOn(i, n), calls[i].do # "list",
             "key" \in busy /\ "key" \notin busy' => calls[i].live /\ "key" \in calls[i].ends
      PROVE  CallsInv'
  <2>1. SameList /\ aligned' = aligned /\ list' = list /\ conf'.key = conf.key
    BY DEF listVars, SameList
  <2>2. QED  BY <1>3, <2>1, HearsQuietly
<1>4. ASSUME NEW do \in {"first", "domains"}, NEW ends \in SUBSET {"add"}
      PROVE  /\ request("domains", do, ends) \in Call /\ Aside(request("domains", do, ends))
             /\ Asides(<<request("domains", do, ends)>>)
  <2>1. request("domains", do, ends) \in Call /\ Aside(request("domains", do, ends))
    BY <1>1, AskedAside DEF Pages, Requests, Spinners
  <2>2. QED  BY <2>1, OneAside
<1>5. CASE DomainsShown(i)
  <2> DEFINE n == IF calls[i].flag THEN <<request("domains", "first", {})>> ELSE <<>>
  <2>1. Asides(n)
    BY <1>4, NoneAside
  <2>2. GoesOn(i, n) /\ Off(i, {}) /\ calls[i].do = "domains"
    BY <1>5 DEF DomainsShown, Heard
  <2> HIDE DEF n
  <2>3. QED  BY <1>3, <2>1, <2>2, OffKey
<1>6. CASE FirstChecks(i)
  <2> DEFINE n == IF Ok(i) THEN DomainChecks(calls[i].names) ELSE <<>>
  <2>1. Asides(n)
    BY <1>1, <1>2, ChecksAside, NoneAside
  <2>2. GoesOn(i, n) /\ busy \subseteq busy' /\ calls[i].do = "first"
    BY <1>6 DEF FirstChecks, Heard
  <2> HIDE DEF n
  <2>3. QED  BY <1>3, <2>1, <2>2
<1>7. CASE Added(i)
  <2> DEFINE again == [request("domains", "domains", {"add"}) EXCEPT !.flag = FALSE]
  <2>1. Asides(<<again>>)
    BY <1>4, AsideWith, OneAside
  <2>2. Asides(DomainChecks(calls[i].names) \o <<again>>)
    BY <1>1, <1>2, <2>1, ChecksAside, AsidesJoined
  <2>3. /\ calls[i].do = "add"
        /\ \/ GoesOn(i, <<>>) /\ Off(i, {})
           \/ GoesOn(i, <<again>>) /\ Off(i, {"add"})
           \/ GoesOn(i, DomainChecks(calls[i].names) \o <<again>>) /\ busy \subseteq busy'
    BY <1>7 DEF Added, Heard
  <2> HIDE DEF again
  <2>4. QED  BY <1>3, <2>1, <2>2, <2>3, OffKey, NoneAside
<1>8. CASE Removed(i)
  <2> DEFINE n == IF Ok(i) THEN <<request("domains", "domains", {})>> ELSE <<>>
  <2>1. Asides(n)
    BY <1>4, NoneAside
  <2>2. GoesOn(i, n) /\ Off(i, {}) /\ calls[i].do = "remove"
    BY <1>8 DEF Removed, Heard
  <2> HIDE DEF n
  <2>3. QED  BY <1>3, <2>1, <2>2, OffKey
<1>9. CASE Checked(i)
  <2>1. GoesOn(i, <<>>) /\ Off(i, {}) /\ calls[i].do = "check"
    BY <1>9 DEF Checked, Heard
  <2>2. QED  BY <1>3, <2>1, OffKey, NoneAside
<1>10. QED  BY <1>5, <1>6, <1>7, <1>8, <1>9 DEF DomainHears

LEMMA OtherKeeps ==
  ASSUME NEW i, Hearing(i), CleanupRan(i) \/ StatsShown(i), UNCHANGED Views PROVE CallsInv'
<1>1. TokenOK
  BY HearingKept
<1>2. ASSUME NEW n, Asides(n), GoesOn(i, n), calls[i].do # "list", NEW kept, Off(i, kept)
      PROVE  CallsInv'
  <2>1. SameList /\ aligned' = aligned /\ list' = list /\ conf'.key = conf.key
    BY DEF Views, SameList
  <2>2. QED  BY <1>2, <2>1, HearsQuietly, OffKey
<1>3. CASE CleanupRan(i)
  <2>1. Asides(<<request("cleanup", "stats", {"run"})>>)
    BY <1>1, AskedAside, OneAside DEF Pages, Requests, Spinners
  <2>2. /\ calls[i].do = "run"
        /\ \/ GoesOn(i, <<request("cleanup", "stats", {"run"})>>) /\ Off(i, {"run"})
           \/ GoesOn(i, <<>>) /\ Off(i, {})
    BY <1>3 DEF CleanupRan, Heard
  <2>3. QED  BY <1>2, <2>1, <2>2, NoneAside
<1>4. CASE StatsShown(i)
  <2>1. GoesOn(i, <<>>) /\ Off(i, {}) /\ calls[i].do \in {"stats", "names"}
    BY <1>4 DEF StatsShown, Heard
  <2>2. QED  BY <1>2, <2>1, NoneAside
<1>5. QED  BY <1>3, <1>4

-----------------------------------------------------------------------------
(* What follows the awaits on the list pages.                               *)

\* The list that comes when nothing else was asked for is the one the controls show.
LEMMA ListShownKeeps ==
  ASSUME NEW i, Hearing(i), ListShown(i), UNCHANGED conf PROVE CallsInv'
<1>1. /\ CallsInv /\ i \in DOMAIN calls /\ TokenKept({i}) /\ ready' = ready
      /\ server' = server /\ (~ready => ~calls[i].live)
  BY HearingKept
<1>2. calls \in Seq(Call) /\ 0 \notin DOMAIN calls
  BY <1>1 DEF CallsInv, Kinds
<1>3. Single(<<>>, NoCall) /\ Aside(NoCall)
  BY NoneAside, AsidesSingle DEF NoCall, Aside
<1>4. GoesOn(i, <<>>) /\ Off(i, {})
  BY DEF ListShown
<1>5. PICK o, z : Onward(o, z, i, NoCall)
  BY <1>1, <1>2, <1>3, <1>4, NoCallTyping, GoingOn, Zenon
<1>6. Flow(o, {i}, z) /\ Still(o)
  BY <1>5 DEF Onward
<1>7. Calm(z)
  BY <1>3, <1>5, AsideCalm DEF Aside, Inherits, Onward
<1>8. list'.page = list.page /\ list'.search = list.search
  BY ListTyping DEF Hearing, ListShown, Seen
<1>9. ~calls[i].live => list' = list /\ aligned' = aligned
  BY DEF ListShown, Seen
<1>10. "key" \in busy /\ "key" \notin busy' => Keyed(calls[i])
  BY <1>4, OffKey DEF Keyed
<1>11. Waits'
  <2>1. ready \/ \A j \in DOMAIN calls' : o[j] = 0 => ~calls'[j].live
    BY <1>1, <1>5 DEF Onward
  <2>2. QED  BY <1>1, <1>6, <1>9, <2>1, WaitsFlow DEF CallsInv
<1>12. Alone'
  BY <1>1, <1>2, <1>6, <1>7, <1>8, AloneFlows DEF CallsInv, Calm
<1>13. Matched'
  <2>1. CASE ~calls[i].live
    BY <1>1, <1>2, <1>6, <1>9, <2>1, MatchedFlows DEF CallsInv, Still
  <2>2. CASE calls[i].live
    <3>1. aligned' = (Ok(i) /\ calls[i].alone) /\ Listing(calls[i])
      BY <2>2 DEF ListShown, Heard, Listing
    <3>2. ASSUME aligned' PROVE list'.data.page = list'.page /\ list'.data.search = list'.search
      <4>1. calls[i].page = list.page /\ calls[i].search = list.search
        BY <1>1, <3>1, <3>2 DEF CallsInv, Alone
      <4>2. list' = [list EXCEPT !.data = [page |-> calls[i].page,
                       search |-> calls[i].search, more |-> calls[i].more]]
        BY <2>2, <3>1, <3>2 DEF ListShown, Seen
      <4>3. list'.data = [page |-> calls[i].page, search |-> calls[i].search,
                          more |-> calls[i].more]
        BY <4>2, ListTyping DEF Hearing
      <4>4. QED  BY <1>8, <4>1, <4>3
    <3>3. QED  BY <3>2 DEF Matched
  <2>3. QED  BY <2>1, <2>2
<1>14. OneKey'
  BY <1>1, <1>2, <1>6, <1>7, <1>10, OneKeyFlows DEF CallsInv, Calm
<1>15. KeyMade'
  BY <1>1, <1>2, <1>6, <1>7, KeyMadeFlows DEF CallsInv, Calm, Still
<1>16. Kinds'
  BY <1>1, <1>6, <1>7, KindsFlow DEF CallsInv, Calm
<1>17. Vouch' /\ ShownKeyWorks'
  BY <1>1, <1>2, <1>6, VouchFlows DEF CallsInv, ShownKeyWorks
<1>18. QED
  BY <1>11, <1>12, <1>13, <1>14, <1>15, <1>16, <1>17 DEF CallsInv

\* The list is fetched again with the page and the search of the call that was made.
LEMMA RefetchKeeps ==
  ASSUME NEW i, Hearing(i), calls[i].do \in {"delete", "purge", "retention", "create"},
         NEW n \in 1..MaxPages, Refetch(i, n), UNCHANGED <<conf, aligned>>,
         SameList, ~calls[i].live => list' = list
  PROVE  CallsInv'
<1> DEFINE p == calls[i].at
           b == calls[i].alone /\ n = calls[i].page
           again == [request(p, "list", {"list"}) EXCEPT !.page = n,
                       !.search = calls[i].search, !.alone = b]
           stats == IF p = "mailboxes" THEN <<request(p, "stats", {})>> ELSE <<>>
<1>1. /\ TokenOK /\ CallsInv /\ i \in DOMAIN calls /\ calls[i] \in Call
      /\ TokenKept({i}) /\ ready' = ready
      /\ server' = server /\ (~ready => ~calls[i].live)
  BY HearingKept
<1>2. calls \in Seq(Call) /\ 0 \notin DOMAIN calls
  BY <1>1 DEF CallsInv, Kinds
<1>3. p \in Pages /\ calls[i].search \in BOOLEAN /\ b \in BOOLEAN
  BY <1>1 DEF Call
<1>4. GoesOn(i, stats \o <<again>>)
  BY DEF Refetch
<1>5. busy' = IF calls[i].live THEN (busy \ calls[i].ends) \union {"list"} ELSE busy
  BY DEF Refetch
<1>6. Asides(stats)
  <2>1. request(p, "stats", {}) \in Call /\ Aside(request(p, "stats", {}))
    BY <1>1, <1>3, AskedAside DEF Requests, Spinners
  <2>2. QED  BY <2>1, OneAside, NoneAside
<1>7. Lister(again, "list", {"list"}, n, calls[i].search, b)
  <2>1. "list" \in Requests /\ {"list"} \in SUBSET Spinners
    BY DEF Requests, Spinners
  <2> HIDE DEF p, b
  <2>2. \A s, c \in BOOLEAN :
          Lister([request(p, "list", {"list"}) EXCEPT !.page = n, !.search = s, !.alone = c],
                 "list", {"list"}, n, s, c)
    BY <1>1, <1>3, <2>1, ListAsked, Zenon
  <2>3. QED  BY <1>3, <2>2, Zenon
<1> HIDE DEF p, b, again, stats
<1>8. again \in Call /\ Single(stats \o <<again>>, again)
  BY <1>6, <1>7, OneSingle, SingleJoined DEF Lister
<1>9. PICK o, z : Onward(o, z, i, again)
  BY <1>1, <1>2, <1>4, <1>8, GoingOn, Zenon
<1>10. Flow(o, {i}, z) /\ Still(o)
  BY <1>9 DEF Onward
<1>11. /\ z.do = "list" /\ z.ends = {"list"} /\ z.page = n /\ z.search = calls[i].search
       /\ z.alone = b /\ z.live = calls[i].live
  BY <1>7, <1>9 DEF Onward, Inherits, Lister
<1>12. Kind(z) /\ ~Keyed(z)
  BY <1>11 DEF Kind, Keyed
<1>13. Waits'
  <2>1. ready \/ \A j \in DOMAIN calls' : o[j] = 0 => ~calls'[j].live
    BY <1>1, <1>9 DEF Onward
  <2>2. QED  BY <1>1, <1>10, <2>1, WaitsFlow DEF CallsInv
<1>14. Alone'
  <2>1. Listing(z) => Listing(calls[i])
    BY <1>11 DEF Listing
  <2>2. \A j \in DOMAIN calls' : o[j] # 0 =>
          o[j] \in DOMAIN calls /\ o[j] # i /\ calls'[j] = calls[o[j]]
    BY <1>10 DEF Flow, Still
  <2>3. \A j \in DOMAIN calls' : o[j] # 0 /\ Listing(calls'[j]) /\ calls'[j].alone =>
          list'.page = list.page /\ list'.search = list.search /\ ~Listing(z)
    BY <1>1, <2>1, <2>2 DEF CallsInv, Alone, SameList
  <2>4. ASSUME Listing(z), z.alone
        PROVE  /\ z.page = list'.page /\ z.search = list'.search
               /\ \A j \in DOMAIN calls' : o[j] # 0 => ~Listing(calls'[j])
    <3>1. Listing(calls[i]) /\ calls[i].alone /\ n = calls[i].page
      BY <1>11, <2>1, <2>4 DEF b
    <3>2. /\ calls[i].page = list.page /\ calls[i].search = list.search
          /\ \A j \in DOMAIN calls : Listing(calls[j]) => j = i
      BY <1>1, <3>1 DEF CallsInv, Alone
    <3>3. QED  BY <1>11, <2>2, <3>1, <3>2 DEF SameList
  <2>5. Alone
    BY <1>1 DEF CallsInv
  <2>6. QED  BY <1>2, <1>10, <2>3, <2>4, <2>5, AloneFlows
<1>15. Matched'
  BY <1>1, <1>2, <1>10, MatchedFlows DEF CallsInv, Still, SameList
<1>16. OneKey'
  <2>1. "key" \in busy /\ "key" \notin busy' => Keyed(calls[i])
    BY <1>5 DEF Keyed
  <2>2. QED  BY <1>1, <1>2, <1>10, <1>12, <2>1, OneKeyFlows DEF CallsInv
<1>17. KeyMade'
  BY <1>1, <1>2, <1>10, <1>11, KeyMadeFlows DEF CallsInv, Still
<1>18. Kinds'
  BY <1>1, <1>10, <1>12, KindsFlow DEF CallsInv
<1>19. Vouch' /\ ShownKeyWorks'
  BY <1>1, <1>2, <1>10, VouchFlows DEF CallsInv, ShownKeyWorks
<1>20. QED
  BY <1>13, <1>14, <1>15, <1>16, <1>17, <1>18, <1>19 DEF CallsInv

LEMMA ListHearsKeeps ==
  ASSUME NEW i, Hearing(i), ListHears(i), UNCHANGED <<conf, doms>> PROVE CallsInv'
<1>1. calls[i] \in Call
  BY HearingKept
<1>2. ASSUME GoesOn(i, <<>>), Off(i, {}), calls[i].do # "list", SameList,
             aligned' = aligned, ~calls[i].live => list' = list
      PROVE  CallsInv'
  BY <1>2, HearsQuietly, NoneAside, OffKey
<1>3. CASE ListShown(i)
  BY <1>3, ListShownKeeps
<1>4. CASE DetailShown(i)
  <2>1. GoesOn(i, <<>>) /\ Off(i, {}) /\ calls[i].do # "list" /\ aligned' = aligned
    BY <1>4 DEF DetailShown, Heard
  <2>2. SameList /\ (~calls[i].live => list' = list)
    BY <1>4, ListTyping DEF DetailShown, Seen, SameList, Hearing
  <2>3. QED  BY <1>2, <2>1, <2>2
<1>5. CASE Changed(i)
  <2>1. calls[i].do \in {"delete", "purge", "retention"} /\ aligned' = aligned
    BY <1>5 DEF Changed, Heard
  <2>2. SameList /\ (~calls[i].live => list' = list)
    BY <1>5, ListTyping DEF Changed, Seen, SameList, Hearing
  <2>3. Refetch(i, calls[i].page) \/ (GoesOn(i, <<>>) /\ Off(i, {}))
    BY <1>5 DEF Changed
  <2>4. calls[i].page \in 1..MaxPages
    BY <1>1 DEF Call
  <2>5. QED  BY <1>2, <2>1, <2>2, <2>3, <2>4, RefetchKeeps
<1>6. CASE Created(i)
  <2>1. calls[i].do = "create" /\ aligned' = aligned
    BY <1>6 DEF Created, Heard
  <2>2. SameList /\ (~calls[i].live => list' = list)
    BY <1>6, ListTyping DEF Created, Seen, SameList, Hearing
  <2>3. Refetch(i, 1) \/ (GoesOn(i, <<>>) /\ Off(i, {}))
    BY <1>6 DEF Created
  <2>4. 1 \in 1..MaxPages
    BY AdminApiAssumption
  <2>5. QED  BY <1>2, <2>1, <2>2, <2>3, <2>4, RefetchKeeps
<1>7. QED  BY <1>3, <1>4, <1>5, <1>6 DEF ListHears

-----------------------------------------------------------------------------
(* What follows the awaits on the configuration page.                       *)

\* The new key comes to the page that asked for it, which shows no other.
LEMMA RegeneratedKeeps ==
  ASSUME NEW i, Hearing(i), Heard(i, "regenerate"), Ok(i), UNCHANGED listVars,
         GoesOn(i, <<request("config", "key", {"key"})>>), Off(i, {"key"}),
         ConfSeen(i, [conf EXCEPT !.key = calls[i].count])
  PROVE  CallsInv'
<1> DEFINE c == request("config", "key", {"key"})
<1>1. /\ TokenOK /\ CallsInv /\ i \in DOMAIN calls /\ TokenKept({i}) /\ ready' = ready
      /\ server' = server /\ (~ready => ~calls[i].live)
  BY HearingKept
<1>2. calls \in Seq(Call) /\ 0 \notin DOMAIN calls
  BY <1>1 DEF CallsInv, Kinds
<1>3. Request(c, "key", {"key"})
  BY <1>1, Asked DEF Pages, Requests, Spinners
<1> HIDE DEF c
<1>4. c \in Call /\ Single(<<c>>, c)
  BY <1>3, OneSingle DEF Request
<1>5. GoesOn(i, <<c>>)
  BY DEF c
<1>6. PICK o, z : Onward(o, z, i, c)
  BY <1>1, <1>2, <1>4, <1>5, GoingOn, Zenon
<1>7. Flow(o, {i}, z) /\ Still(o)
  BY <1>6 DEF Onward
<1>8. z.do = "key" /\ z.ends = {"key"} /\ z.live = calls[i].live
  BY <1>3, <1>6 DEF Onward, Inherits, Request
<1>9. Kind(z) /\ ~Listing(z) /\ (Keyed(z) => calls[i].live)
  BY <1>8 DEF Kind, Listing, Keyed
<1>10. calls[i].live => Keyed(calls[i])
  BY <1>1 DEF Heard, CallsInv, Kinds, Kind, Keyed
<1>11. calls[i].live =>
         "key" \in busy /\ \A j \in DOMAIN calls : Keyed(calls[j]) => j = i
  BY <1>1, <1>10 DEF CallsInv, OneKey
<1>12. list' = list /\ aligned' = aligned
  BY DEF listVars
<1>13. "key" \in busy => "key" \in busy'
  BY DEF Off
<1>14. Waits'
  <2>1. ready \/ \A j \in DOMAIN calls' : o[j] = 0 => ~calls'[j].live
    BY <1>1, <1>6 DEF Onward
  <2>2. QED  BY <1>1, <1>7, <1>12, <2>1, WaitsFlow DEF CallsInv
<1>15. Alone'
  BY <1>1, <1>2, <1>7, <1>9, <1>12, AloneFlows DEF CallsInv
<1>16. Matched'
  BY <1>1, <1>2, <1>7, <1>12, MatchedFlows DEF CallsInv, Still, Heard
<1>17. OneKey'
  <2>1. Keyed(z) => "key" \in busy' /\ \A j \in DOMAIN calls \ {i} : ~Keyed(calls[j])
    BY <1>9, <1>11, <1>13
  <2>2. QED  BY <1>1, <1>2, <1>7, <1>13, <2>1, OneKeyFlows DEF CallsInv
<1>18. KeyMade'
  <2>1. CASE calls[i].live
    <3>1. ASSUME NEW j \in DOMAIN calls', calls'[j].do = "regenerate", calls'[j].live
          PROVE  FALSE
      <4>1. o[j] # 0
        BY <1>2, <1>7, <1>8, <3>1 DEF Flow, Aside
      <4>2. o[j] \in DOMAIN calls /\ o[j] # i /\ calls'[j] = calls[o[j]]
        BY <1>7, <4>1 DEF Flow, Still
      <4>3. Keyed(calls[o[j]])
        BY <1>1, <3>1, <4>2 DEF CallsInv, Kinds, Kind, Keyed
      <4>4. QED  BY <1>11, <2>1, <4>2, <4>3
    <3>2. QED  BY <3>1 DEF KeyMade
  <2>2. CASE ~calls[i].live
    <3>1. conf' = conf
      BY <2>2 DEF ConfSeen
    <3>2. z.do # "regenerate"
      BY <1>8
    <3>3. QED  BY <1>1, <1>2, <1>7, <3>1, <3>2, KeyMadeFlows DEF CallsInv, Still
  <2>3. QED  BY <2>1, <2>2
<1>19. ShownKeyWorks'
  <2>1. CASE calls[i].live
    <3>1. server.mine => calls[i].count = server.key
      BY <1>1, <2>1 DEF CallsInv, KeyMade, Heard, Ok
    <3>2. conf'.key = calls[i].count
      BY <2>1, ConfigTyping DEF ConfSeen, Hearing
    <3>3. QED  BY <1>1, <3>1, <3>2 DEF ShownKeyWorks
  <2>2. CASE ~calls[i].live
    BY <1>1, <2>2 DEF ConfSeen, CallsInv, ShownKeyWorks
  <2>3. QED  BY <2>1, <2>2
<1>20. Kinds'
  BY <1>1, <1>7, <1>9, KindsFlow DEF CallsInv
<1>21. Vouch'
  BY <1>1, <1>2, <1>7, VouchFlows DEF CallsInv
<1>22. QED
  BY <1>14, <1>15, <1>16, <1>17, <1>18, <1>19, <1>20, <1>21 DEF CallsInv

LEMMA ConfHearsKeeps ==
  ASSUME NEW i, Hearing(i), ConfHears(i), UNCHANGED <<listVars, doms>>
  PROVE  CallsInv' /\ FormKept'
<1>1. TokenOK /\ calls[i] \in Call
  BY HearingKept
<1>2. /\ FormKept
      /\ conf \in [loaded : BOOLEAN, config : Config, toggle : BOOLEAN, number : 0..2,
                   host : BOOLEAN, touched : SUBSET {"toggle", "number", "host"},
                   key : Nat, pending : BOOLEAN]
  BY ConfigTyping DEF Hearing
<1>3. ASSUME NEW n, Asides(n), GoesOn(i, n), NEW kept, Off(i, kept), calls[i].do # "list",
             conf'.key = conf.key
      PROVE  CallsInv'
  <2>1. SameList /\ aligned' = aligned /\ list' = list
    BY DEF listVars, SameList
  <2>2. QED  BY <1>3, <2>1, HearsQuietly, OffKey
<1>4. ASSUME conf' = conf PROVE conf'.key = conf.key /\ FormKept'
  BY <1>2, <1>4 DEF FormKept
<1>5. ASSUME NEW do \in {"config", "poll"}, NEW ends \in SUBSET {"save", "tls"}
      PROVE  request("config", do, ends) \in Call /\ Aside(request("config", do, ends))
  BY <1>1, AskedAside DEF Pages, Requests, Spinners
<1>6. ASSUME NEW b \in BOOLEAN, conf' = [conf EXCEPT !.pending = b]
      PROVE  conf'.key = conf.key /\ FormKept'
  BY <1>2, <1>6 DEF FormKept
<1>7. CASE ConfigShown(i)
  <2>1. GoesOn(i, <<>>) /\ Off(i, {}) /\ calls[i].do # "list"
    BY <1>7 DEF ConfigShown, Heard
  <2>2. conf' = conf \/ conf' = Loaded(conf, calls[i].config)
    BY <1>7 DEF ConfigShown, ConfSeen
  <2>3. ASSUME conf' = Loaded(conf, calls[i].config) PROVE conf'.key = conf.key /\ FormKept'
    <3> DEFINE v == calls[i].config
    <3>1. v \in Config
      BY <1>1 DEF Call
    <3>2. conf' = [conf EXCEPT !.loaded = TRUE, !.config = v, !.toggle = v.toggle = "on",
                     !.number = v.number, !.host = v.host, !.touched = {}]
      BY <2>3 DEF Loaded
    <3> HIDE DEF v
    <3>3. conf'.key = conf.key /\ conf'.touched = {} /\ conf'.config = v
      BY <1>2, <3>2
    <3>4. conf'.toggle = (v.toggle = "on")
      BY <1>2, <3>2
    <3>5. conf'.number = v.number
      BY <1>2, <3>2
    <3>6. conf'.host = v.host
      BY <1>2, <3>2
    <3>7. QED  BY <3>3, <3>4, <3>5, <3>6 DEF FormKept
  <2>4. QED  BY <1>3, <1>4, <2>1, <2>2, <2>3, NoneAside
<1>8. CASE StatusShown(i)
  <2>1. GoesOn(i, <<>>) /\ Off(i, {}) /\ calls[i].do # "list"
    BY <1>8 DEF StatusShown, Heard
  <2>2. calls[i].flag \in BOOLEAN
    BY <1>1 DEF Call
  <2>3. conf' = conf \/ conf' = [conf EXCEPT !.pending = calls[i].flag]
    BY <1>8 DEF StatusShown, ConfSeen
  <2>4. QED  BY <1>3, <1>4, <1>6, <2>1, <2>2, <2>3, NoneAside
<1>9. CASE Saved(i)
  <2>1. Asides(<<request("config", "config", {"save"})>>)
    BY <1>5, OneAside
  <2>2. /\ calls[i].do # "list" /\ conf' = conf
        /\ \/ GoesOn(i, <<request("config", "config", {"save"})>>) /\ Off(i, {"save"})
           \/ GoesOn(i, <<>>) /\ Off(i, {})
    BY <1>9 DEF Saved, Heard
  <2>3. QED  BY <1>3, <1>4, <2>1, <2>2, NoneAside
<1>10. CASE Regenerated(i)
  <2>1. CASE Ok(i)
    <3>1. /\ Heard(i, "regenerate") /\ ConfSeen(i, [conf EXCEPT !.key = calls[i].count])
          /\ GoesOn(i, <<request("config", "key", {"key"})>>) /\ Off(i, {"key"})
      BY <1>10, <2>1 DEF Regenerated
    <3>2. CallsInv'
      BY <2>1, <3>1, RegeneratedKeeps
    <3>3. FormKept'
      BY <1>2, <3>1 DEF ConfSeen, FormKept
    <3>4. QED  BY <3>2, <3>3
  <2>2. CASE ~Ok(i)
    <3>1. GoesOn(i, <<>>) /\ Off(i, {}) /\ calls[i].do # "list" /\ conf' = conf
      BY <1>10, <2>2 DEF Regenerated, Heard, ConfSeen
    <3>2. QED  BY <1>3, <1>4, <3>1, NoneAside
  <2>3. QED  BY <2>1, <2>2
<1>11. ASSUME calls[i].count > 0, PollAgain(i, calls[i].count - 1), calls[i].do # "list",
              conf'.key = conf.key
       PROVE  CallsInv'
  <2> DEFINE n == calls[i].count - 1
             z == [request("config", "poll", {"tls"}) EXCEPT !.count = n]
  <2>1. n \in Nat
    <3>1. calls[i].count \in Nat
      BY <1>1 DEF Call
    <3>2. QED  BY <1>11, <3>1
  <2>2. Asides(<<z>>)
    BY <1>5, <2>1, AsideWith, OneAside
  <2>3. GoesOn(i, <<z>>) /\ Off(i, {"tls"})
    BY <1>11 DEF PollAgain
  <2> HIDE DEF z
  <2>4. QED  BY <1>3, <1>11, <2>2, <2>3
<1>12. CASE Issued(i)
  <2>1. /\ calls[i].do # "list" /\ conf' = conf
        /\ \/ calls[i].count > 0 /\ PollAgain(i, calls[i].count - 1)
           \/ GoesOn(i, <<>>) /\ Off(i, {})
    BY <1>12 DEF Issued, Heard
  <2>2. QED  BY <1>3, <1>4, <1>11, <2>1, NoneAside
<1>13. CASE Polled(i)
  <2>1. /\ calls[i].do # "list"
        /\ conf' = conf \/ conf' = [conf EXCEPT !.pending = calls[i].flag]
        /\ \/ calls[i].count > 0 /\ PollAgain(i, calls[i].count - 1)
           \/ GoesOn(i, <<>>) /\ Off(i, {})
    BY <1>13 DEF Polled, Heard, ConfSeen
  <2>2. calls[i].flag \in BOOLEAN
    BY <1>1 DEF Call
  <2>3. conf'.key = conf.key /\ FormKept'
    BY <1>4, <1>6, <2>1, <2>2
  <2>4. QED  BY <1>3, <1>11, <2>1, <2>3, NoneAside
<1>14. QED  BY <1>7, <1>8, <1>9, <1>10, <1>12, <1>13 DEF ConfHears

-----------------------------------------------------------------------------
(* Pages come and go.                                                       *)

\* What goes on belongs to the layout; a page starts with one list, or none.
LEMMA PageComes ==
  ASSUME IInv, server' = server, list' = ListBlank, aligned' = FALSE,
         conf' = ConfBlank \/ conf' = conf, Waits',
         NEW o, NEW gone, NEW z, Flow(o, gone, z),
         \A j \in DOMAIN calls' : o[j] # 0 =>
           Waiting(calls[o[j]], calls'[j]) /\ (calls'[j].live => calls'[j].do = "gate"),
         Aside(z) \/ Lister(z, "list", {"list"}, 1, FALSE, TRUE),
         TokenKept(gone) \/ Vouch'
  PROVE  CallsInv' /\ FormKept'
<1>1. calls \in Seq(Call) /\ CallsInv /\ FormKept /\ 0 \notin DOMAIN calls
  BY Typing, ConfigTyping
<1>2. /\ Kind(z) /\ ~Keyed(z) /\ z.do # "regenerate"
      /\ Listing(z) => z.page = 1 /\ z.search = FALSE
  <2>1. CASE Aside(z)
    BY <2>1, AsideCalm DEF Calm
  <2>2. CASE Lister(z, "list", {"list"}, 1, FALSE, TRUE)
    BY <2>2 DEF Lister, Kind, Keyed
  <2>3. QED  BY <2>1, <2>2
<1>3. Kinds'
  BY <1>1, <1>2, KindsFlow DEF CallsInv
<1>4. list'.page = 1 /\ list'.search = FALSE
  BY DEF ListBlank
<1>5. ASSUME NEW j \in DOMAIN calls', o[j] # 0
      PROVE  /\ ~Listing(calls'[j]) /\ ~Keyed(calls'[j])
             /\ ~(calls'[j].do = "regenerate" /\ calls'[j].live)
  <2>1. calls'[j].do = "gate" => "key" \notin calls'[j].ends
    BY <1>3 DEF Kinds, Kind
  <2>2. calls'[j].live => calls'[j].do = "gate"
    BY <1>5
  <2>3. QED  BY <2>1, <2>2 DEF Listing, Keyed
<1>6. ASSUME NEW j \in DOMAIN calls', o[j] = 0
      PROVE  ~Keyed(calls'[j]) /\ calls'[j].do # "regenerate"
  <2>1. Aside(calls'[j]) \/ calls'[j] = z
    BY <1>1, <1>6 DEF Flow
  <2>2. QED  BY <1>2, <2>1 DEF Aside, Keyed
<1>7. Alone'
  BY <1>1, <1>2, <1>4, <1>5, AloneFlows DEF CallsInv
<1>8. Matched'
  BY DEF Matched
<1>9. OneKey'
  BY <1>5, <1>6 DEF OneKey
<1>10. KeyMade'
  BY <1>5, <1>6 DEF KeyMade
<1>11. ShownKeyWorks' /\ FormKept'
  <2>1. CASE conf' = conf
    BY <1>1, <2>1 DEF CallsInv, ShownKeyWorks, FormKept
  <2>2. CASE conf' = ConfBlank
    BY <2>2 DEF ConfBlank, AnyConfig, ShownKeyWorks, FormKept
  <2>3. QED  BY <2>1, <2>2
<1>12. Vouch'
  BY <1>1, VouchFlows DEF CallsInv
<1>13. QED
  BY <1>3, <1>7, <1>8, <1>9, <1>10, <1>11, <1>12 DEF CallsInv

\* A page is left for another one, or the panel is.
LEMMA PageLeft ==
  ASSUME IInv, server' = server, NEW k, NEW gone, NEW h, Kept(k, gone, h), TokenKept(gone),
         NEW p \in Pages \union {"out"}, p # page, Go(p, k)
  PROVE  CallsInv' /\ FormKept'
<1> DEFINE asked == IF p = "out" THEN <<>> ELSE <<setup_status(p)>>
           n == IF ready /\ p # "out" THEN First(p) \o asked ELSE asked
<1>1. TokenOK /\ calls \in Seq(Call) /\ CallsInv /\ 0 \notin DOMAIN calls /\ server \in Server
  BY Typing
<1>2. /\ ready' = (ready /\ p # "out") /\ Blank
      /\ Mount(p, Orphans(k, p), asked)
  BY DEF Go
<1>3. Asides(asked)
  BY <1>1, StatusAside, OneAside, NoneAside
<1>4. \E z : /\ Single(n, z)
             /\ Aside(z) \/ Lister(z, "list", {"list"}, 1, FALSE, TRUE)
  <2>1. CASE ready /\ p # "out"
    <3>1. PICK z : /\ Single(First(p), z)
                   /\ Aside(z) \/ Lister(z, "list", {"list"}, 1, FALSE, TRUE)
      BY <1>1, <2>1, FirstAsked
    <3> HIDE DEF asked
    <3>2. Single(First(p) \o asked, z)
      BY <1>3, <3>1, SingleJoined
    <3>3. n = First(p) \o asked
      BY <2>1
    <3>4. QED  BY <3>1, <3>2, <3>3
  <2>2. CASE ~(ready /\ p # "out")
    <3>1. n = asked
      BY <2>2
    <3>2. Single(n, NoCall) /\ Aside(NoCall)
      BY <1>3, <3>1, AsidesSingle DEF NoCall, Aside
    <3>3. QED  BY <3>2
  <2>3. QED  BY <2>1, <2>2
<1>5. calls' = Orphans(k, p) \o n
  <2>1. CASE ready /\ p # "out"
    <3>1. PICK z : Single(First(p), z)
      BY <1>1, <2>1, FirstAsked
    <3>2. First(p) \in Seq(Call) /\ asked \in Seq(Call)
      BY <1>3, <3>1 DEF Single, Asides
    <3>3. Orphans(k, p) \in Seq(Call)
      <4>1. k \in Seq(Call)
        BY DEF Kept
      <4>2. DOMAIN k = 1..Len(k) /\ Len(k) \in Nat /\ \A j \in DOMAIN k : k[j] \in Call
        BY <4>1
      <4>3. \A j \in DOMAIN k : [k[j] EXCEPT !.live = FALSE] \in Call
        BY <4>2, LeftBehind
      <4>4. Orphans(k, p) \in [1..Len(k) -> Call]
        BY <4>2, <4>3 DEF Orphans
      <4>5. QED  BY <4>2, <4>4, Listed, Zenon
    <3>4. calls' = (Orphans(k, p) \o First(p)) \o asked
      BY <1>2, <2>1 DEF Mount
    <3> HIDE DEF asked
    <3>5. n = First(p) \o asked
      BY <2>1
    <3> HIDE DEF n
    <3>6. (Orphans(k, p) \o First(p)) \o asked = Orphans(k, p) \o (First(p) \o asked)
      <4>1. \A a, b, c \in Seq(Call) : (a \o b) \o c = a \o (b \o c)
        BY ConcatAssociative
      <4>2. QED  BY <3>2, <3>3, <4>1, Zenon
    <3>7. QED  BY <3>4, <3>5, <3>6
  <2>2. CASE ~(ready /\ p # "out")
    BY <1>2, <2>2 DEF Mount
  <2>3. QED  BY <2>1, <2>2
<1> HIDE DEF n
<1>6. PICK z : /\ Single(n, z)
               /\ Aside(z) \/ Lister(z, "list", {"list"}, 1, FALSE, TRUE)
  BY <1>4
<1>7. PICK o : Flow(o, gone, z) /\ Orphan(o, p, n)
  BY <1>1, <1>5, <1>6, Orphaned, Zenon
<1>8. list' = ListBlank /\ aligned' = FALSE /\ conf' = ConfBlank
  BY <1>2 DEF Blank
<1>9. Waits'
  <2>1. ASSUME ~ready', NEW j \in DOMAIN calls', calls'[j].live
        PROVE  calls'[j].do = "gate"
    <3>1. n = asked
      BY <1>2, <2>1 DEF n
    <3>2. CASE o[j] # 0
      BY <1>7, <2>1, <3>2 DEF Orphan
    <3>3. CASE o[j] = 0
      <4>1. PICK a \in 1..Len(asked) : calls'[j] = asked[a]
        BY <1>7, <3>1, <3>3 DEF Orphan
      <4>2. asked = <<setup_status(p)>> /\ a = 1
        BY <4>1
      <4>3. calls'[j] = setup_status(p)
        BY <4>1, <4>2
      <4>4. QED  BY <4>3 DEF setup_status, NoCall
    <3>4. QED  BY <3>2, <3>3
  <2>2. QED  BY <1>8, <2>1 DEF Waits
<1>10. \A j \in DOMAIN calls' : o[j] # 0 =>
         Waiting(calls[o[j]], calls'[j]) /\ (calls'[j].live => calls'[j].do = "gate")
  BY <1>7 DEF Orphan
<1>11. QED  BY <1>6, <1>7, <1>8, <1>9, <1>10, PageComes

\* A handler ends, or is the gate's that lets a page be shown.
LEMMA PageStays ==
  ASSUME IInv, server' = server, NEW i \in DOMAIN calls, TokenKept({i}),
         calls' = RemoveAt(calls, i), UNCHANGED <<Views, busy, ready>>,
         calls[i].do # "list"
  PROVE  CallsInv' /\ FormKept'
<1>1. calls \in Seq(Call) /\ CallsInv /\ FormKept
  BY Typing, ConfigTyping
<1>2. PICK h : Kept(RemoveAt(calls, i), {i}, h)
  BY <1>1, KeptBut
<1>3. Single(<<>>, NoCall) /\ Calm(NoCall)
  BY NoneAside, AsidesSingle, AsideCalm DEF NoCall, Aside
<1>4. RemoveAt(calls, i) = RemoveAt(calls, i) \o <<>>
  <2>1. RemoveAt(calls, i) \in Seq(Call)
    BY <1>2 DEF Kept
  <2>2. QED  BY <2>1, ConcatEmptySeq, Zenon
<1>5. PICK o : /\ Flow(o, {i}, NoCall) /\ Still(o)
               /\ Laid(o, RemoveAt(calls, i), RemoveAt(calls, i), <<>>)
  BY <1>1, <1>2, <1>3, <1>4, KeptOn, Zenon
<1>6. \A j \in DOMAIN calls' : o[j] # 0
  BY <1>5 DEF Laid
<1>7. QuietState
  BY DEF QuietState, SameList, Views
<1>8. CallsInv'
  BY <1>1, <1>3, <1>5, <1>6, <1>7, Quiet
<1>9. FormKept'
  BY <1>1 DEF FormKept, Views
<1>10. QED  BY <1>8, <1>9

LEMMA PageGoes ==
  ASSUME IInv, server' = server, NEW i \in DOMAIN calls, TokenKept({i}),
         NEW p \in Pages, Go(p, RemoveAt(calls, i)) \/ Go("out", RemoveAt(calls, i)),
         calls[i].do # "list"
  PROVE  CallsInv' /\ FormKept'
<1>1. PICK q \in Pages \union {"out"} : Go(q, RemoveAt(calls, i))
  OBVIOUS
<1>2. CASE q = page
  <2>1. calls' = RemoveAt(calls, i) /\ UNCHANGED <<Views, busy, ready>>
    BY <1>1, <1>2 DEF Go
  <2>2. QED  BY <2>1, PageStays
<1>3. CASE q # page
  <2>1. calls \in Seq(Call)
    BY Typing
  <2>2. PICK h : Kept(RemoveAt(calls, i), {i}, h)
    BY <2>1, KeptBut
  <2>3. QED  BY <1>1, <1>3, <2>2, PageLeft
<1>4. QED  BY <1>2, <1>3

\* The gate lets the page be shown that is there by now, for the first time or not.
LEMMA OpenedKeeps ==
  ASSUME IInv, server' = server, NEW i \in DOMAIN calls, TokenKept({i}),
         Opened(i, RemoveAt(calls, i)), calls[i].do = "gate"
  PROVE  CallsInv' /\ FormKept'
<1>1. /\ TokenOK /\ calls \in Seq(Call) /\ CallsInv /\ page \in Pages \union {"out"}
  BY Typing
<1>2. CASE ready' /\ ~ready
  <2>1. /\ calls' = RemoveAt(calls, i) \o First(page) /\ UNCHANGED Views
    BY <1>2 DEF Opened
  <2>2. PICK z : /\ Single(First(page), z)
                 /\ Aside(z) \/ Lister(z, "list", {"list"}, 1, FALSE, TRUE)
    <3>1. CASE page \in Pages
      BY <1>1, <3>1, FirstAsked
    <3>2. CASE page = "out"
      <4>1. First(page) = <<>>
        BY <3>2 DEF First
      <4>2. Single(First(page), NoCall) /\ Aside(NoCall)
        BY <4>1, NoneAside, AsidesSingle DEF NoCall, Aside
      <4>3. QED  BY <4>2
    <3>3. QED  BY <1>1, <3>1, <3>2
  <2>3. PICK h : Kept(RemoveAt(calls, i), {i}, h)
    BY <1>1, KeptBut
  <2>4. PICK o : /\ Flow(o, {i}, z) /\ Still(o)
                 /\ Laid(o, RemoveAt(calls, i), RemoveAt(calls, i), First(page))
    BY <1>1, <2>1, <2>2, <2>3, KeptOn, Zenon
  <2>5. list' = ListBlank /\ aligned' = FALSE /\ conf' = conf
    BY <1>1, <1>2, <2>1 DEF Views, CallsInv, Waits
  <2>6. Waits'
    BY <1>2 DEF Waits
  <2>7. \A j \in DOMAIN calls' : o[j] # 0 =>
          Waiting(calls[o[j]], calls'[j]) /\ (calls'[j].live => calls'[j].do = "gate")
    <3>1. ASSUME NEW j \in DOMAIN calls', o[j] # 0
          PROVE  o[j] \in DOMAIN calls /\ calls'[j] = calls[o[j]]
      BY <2>4, <3>1 DEF Flow, Still
    <3>2. \A g \in DOMAIN calls : calls[g] \in Call
      BY <1>1
    <3>3. \A g \in DOMAIN calls : Waiting(calls[g], calls[g])
      BY <3>2, Unchanged
    <3>4. QED  BY <1>1, <1>2, <3>1, <3>3 DEF CallsInv, Waits
  <2>8. QED  BY <2>2, <2>4, <2>5, <2>6, <2>7, PageComes
<1>3. CASE ~(ready' /\ ~ready)
  <2>1. calls' = RemoveAt(calls, i) /\ UNCHANGED <<Views, busy>>
    BY <1>3 DEF Opened
  <2>2. ready' = ready
    <3>1. ready \in BOOLEAN /\ ready' = (ready \/ calls[i].live)
      BY DEF Opened, IInv, TypeOK
    <3>2. QED  BY <1>3, <3>1
  <2>3. QED  BY <2>1, <2>2, PageStays
<1>4. QED  BY <1>2, <1>3

LEMMA NavigateKeeps == ASSUME IInv, Navigate PROVE CallsInv' /\ FormKept'
<1>1. /\ TokenOK /\ calls \in Seq(Call) /\ CallsInv /\ server \in Server
      /\ page \in Pages \union {"out"} /\ 0 \notin DOMAIN calls
  BY Typing
<1>2. server' = server
  BY DEF Navigate, Ours
<1>3. PICK h : Kept(calls, {}, h)
  BY <1>1, KeptAll
<1>4. CASE Link
  <2>1. PICK p \in (Pages \union {"out"}) \ {page} : Go(p, calls)
    BY <1>4 DEF Link
  <2>2. TokenKept({})
    BY <1>4 DEF Link, TokenKept
  <2>3. QED  BY <1>2, <1>3, <2>1, <2>2, PageLeft
<1>5. CASE logout
  <2>1. Go("login", calls) /\ page # "login" /\ TokenKept({}) /\ "login" \in Pages
    BY <1>5 DEF logout, TokenKept, Pages
  <2>2. QED  BY <1>2, <1>3, <2>1, PageLeft
<1>6. CASE Reload
  <2> DEFINE z == setup_status(page)
             o == [j \in DOMAIN calls' |-> 0]
  <2>1. /\ page \in Pages /\ calls' = <<z>> /\ ready' = FALSE /\ list' = ListBlank
        /\ aligned' = FALSE /\ conf' = ConfBlank /\ token' \in vouched'
    BY <1>1, <1>6 DEF Reload, Blank
  <2>2. z \in Call /\ Aside(z) /\ z.do = "gate"
    <3>1. z \in Call /\ Aside(z)
      BY <1>1, <2>1, StatusAside
    <3>2. z.do = "gate"
      BY DEF setup_status, NoCall
    <3>3. QED  BY <3>1, <3>2
  <2> HIDE DEF z
  <2>3. calls' \in Seq(Call) /\ \A j \in DOMAIN calls' : calls'[j] = z
    BY <2>1, <2>2
  <2>4. Flow(o, DOMAIN calls, z)
    BY <2>2, <2>3 DEF Flow
  <2>5. Waits'
    BY <2>1, <2>2, <2>3 DEF Waits
  <2>6. Vouch'
    BY <2>1 DEF Vouch
  <2>7. \A j \in DOMAIN calls' : o[j] # 0 =>
          Waiting(calls[o[j]], calls'[j]) /\ (calls'[j].live => calls'[j].do = "gate")
    OBVIOUS
  <2> HIDE DEF o
  <2>8. QED  BY <1>2, <2>1, <2>2, <2>4, <2>5, <2>6, <2>7, PageComes
<1>7. QED  BY <1>4, <1>5, <1>6 DEF Navigate

LEMMA LoggedInKeeps ==
  ASSUME IInv, NEW i \in DOMAIN calls, LoggedIn(i), server' = server
  PROVE  CallsInv' /\ FormKept'
<1>1. CallsInv /\ FormKept /\ calls[i].do = "login"
  BY Typing, ConfigTyping DEF LoggedIn, Heard
<1>2. CASE Ok(i)
  <2>1. /\ Go("dashboard", RemoveAt(calls, i)) /\ token' = token
        /\ vouched' = vouched \union {calls[i].token}
    BY <1>2 DEF LoggedIn
  <2>2. TokenKept({i}) /\ "dashboard" \in Pages /\ calls[i].do # "list"
    BY <1>1, <2>1 DEF TokenKept, Pages
  <2>3. QED  BY <2>1, <2>2, PageGoes
<1>3. CASE ~Ok(i)
  <2>1. /\ token' = NoToken /\ vouched' = vouched /\ GoesOn(i, <<>>) /\ Off(i, {})
        /\ UNCHANGED <<Views, ready>>
    BY <1>3 DEF LoggedIn, LoginFailed
  <2>2. TokenKept({i}) /\ QuietState
    BY <2>1 DEF TokenKept, QuietState, SameList, Views
  <2>3. "key" \in busy /\ "key" \notin busy' => Keyed(calls[i])
    BY <2>1, OffKey DEF Keyed
  <2>4. CallsInv'
    BY <1>1, <2>1, <2>2, <2>3, NoneAside, QuietGoesOn
  <2>5. FormKept'
    BY <1>1, <2>1 DEF FormKept, Views
  <2>6. QED  BY <2>4, <2>5
<1>4. QED  BY <1>2, <1>3

LEMMA HearsKeeps == ASSUME IInv, Hears PROVE CallsInv' /\ FormKept'
<1>1. PICK i \in DOMAIN calls : Hear(i)
  BY DEF Hears
<1>2. server' = server /\ FormKept
  BY <1>1, ConfigTyping DEF Hear, Ours
<1>3. CASE AdminLayout(i)
  <2>1. calls[i].do = "gate" /\ token' = token /\ vouched' = vouched
    BY <1>3 DEF AdminLayout, Heard
  <2>2. TokenKept({i}) /\ "login" \in Pages /\ calls[i].do # "list"
    BY <2>1 DEF TokenKept, Pages
  <2>3. \/ Go("out", RemoveAt(calls, i)) \/ Go("login", RemoveAt(calls, i))
        \/ Opened(i, RemoveAt(calls, i))
    BY <1>3 DEF AdminLayout
  <2>4. QED  BY <1>2, <2>1, <2>2, <2>3, PageGoes, OpenedKeeps
<1>4. CASE LoggedIn(i)
  BY <1>2, <1>4, LoggedInKeeps
<1>5. CASE TokenSaved(i)
  <2>1. Go("login", RemoveAt(calls, i)) /\ TokenKept({i}) /\ "login" \in Pages
        /\ calls[i].do # "list"
    BY <1>5 DEF TokenSaved, Heard, TokenKept, Pages
  <2>2. QED  BY <1>2, <2>1, PageGoes
<1>6. CASE Stays(i) /\ ListHears(i) /\ UNCHANGED <<conf, doms>>
  <2>1. Hearing(i)
    BY <1>2, <1>6
    DEF Hearing, ListHears, ListShown, DetailShown, Changed, Created, Heard
  <2>2. FormKept'
    BY <1>2, <1>6 DEF FormKept
  <2>3. QED  BY <1>6, <2>1, <2>2, ListHearsKeeps
<1>7. CASE Stays(i) /\ ConfHears(i) /\ UNCHANGED <<listVars, doms>>
  <2>1. Hearing(i)
    BY <1>2, <1>7
    DEF Hearing, ConfHears, ConfigShown, StatusShown, Saved, Regenerated, Issued, Polled, Heard
  <2>2. QED  BY <1>7, <2>1, ConfHearsKeeps
<1>8. CASE Stays(i) /\ DomainHears(i) /\ UNCHANGED <<listVars, conf>>
  <2>1. Hearing(i)
    BY <1>2, <1>8
    DEF Hearing, DomainHears, DomainsShown, FirstChecks, Added, Removed, Checked, Heard
  <2>2. FormKept'
    BY <1>2, <1>8 DEF FormKept
  <2>3. QED  BY <1>8, <2>1, <2>2, DomainKeeps
<1>9. CASE Stays(i) /\ (CleanupRan(i) \/ StatsShown(i)) /\ UNCHANGED Views
  <2>1. Hearing(i)
    BY <1>2, <1>9 DEF Hearing, CleanupRan, StatsShown, Heard
  <2>2. FormKept'
    BY <1>2, <1>9 DEF FormKept, Views
  <2>3. QED  BY <1>9, <2>1, <2>2, OtherKeeps
<1>10. QED  BY <1>1, <1>3, <1>4, <1>5, <1>6, <1>7, <1>8, <1>9 DEF Hear

-----------------------------------------------------------------------------
(* The server answers.                                                      *)

\* A call answered: nothing but what is answered is new.
Reply(x, y) == y \in Call /\ Carried(x, y) /\ y.live = x.live

\* The codes no two of which any handler confuses, and that of a call under way.
Codes == {0, 200, 400, 401, 500}

LEMMA Coded ==
  ASSUME NEW x \in Call, NEW c \in Codes
  PROVE  Reply(x, [x EXCEPT !.code = c]) /\ [x EXCEPT !.code = c].code = c
<1> DEFINE y == [x EXCEPT !.code = c]
<1>1. y \in Call /\ y.code = c
  BY DEF Call, Codes
<1>2. y.do = x.do /\ y.token = x.token /\ y.ends = x.ends /\ y.page = x.page
  BY DEF Call
<1>3. y.search = x.search /\ y.patch = x.patch /\ y.seen = x.seen
  BY DEF Call
<1>4. y.touched = x.touched /\ y.alone = x.alone /\ y.live = x.live
  BY DEF Call
<1>5. QED  BY <1>1, <1>2, <1>3, <1>4 DEF Reply, Carried

LEMMA ReplyMore ==
  ASSUME NEW x, NEW y, Reply(x, y), NEW v \in BOOLEAN
  PROVE  Reply(x, [y EXCEPT !.more = v])
BY DEF Reply, Carried, Call

LEMMA ReplyFlag ==
  ASSUME NEW x, NEW y, Reply(x, y), NEW v \in BOOLEAN
  PROVE  Reply(x, [y EXCEPT !.flag = v])
BY DEF Reply, Carried, Call

LEMMA ReplyNames ==
  ASSUME NEW x, NEW y, Reply(x, y), NEW v \in SUBSET Domains
  PROVE  Reply(x, [y EXCEPT !.names = v])
BY DEF Reply, Carried, Call

LEMMA ReplyConfig ==
  ASSUME NEW x, NEW y, Reply(x, y), NEW v \in Config
  PROVE  Reply(x, [y EXCEPT !.config = v])
BY DEF Reply, Carried, Call

LEMMA ReplyCount ==
  ASSUME NEW x, NEW y, Reply(x, y), NEW v \in Nat
  PROVE  Reply(x, [y EXCEPT !.count = v]) /\ [y EXCEPT !.count = v].count = v
BY DEF Reply, Carried, Call

\* What an answer does to the key, and what it does to the configuration.
KeyLeft(i, x) ==
  /\ server'.key = server.key /\ server'.mine = server.mine
  /\ calls[i].do # "regenerate" \/ x.code # 200
KeyRemade(i, x) ==
  calls[i].do = "regenerate" /\ server'.mine = calls[i].live /\ x.count = server'.key
ConfigWritten(i) ==
  server'.config # server.config =>
    calls[i].do = "save" /\ server'.config = Patched(server.config, calls[i].patch)

Answering(i, x) ==
  /\ Reply(calls[i], x) /\ Answer(i, x) /\ server' \in Server
  /\ KeyLeft(i, x) \/ KeyRemade(i, x)
  /\ ConfigWritten(i)

LEMMA ReplyKeeps ==
  ASSUME IInv, NEW i \in DOMAIN calls, NEW x, Reply(calls[i], x), Answer(i, x), Unseen,
         KeyLeft(i, x) \/ KeyRemade(i, x)
  PROVE  CallsInv' /\ FormKept'
<1> DEFINE o == [j \in DOMAIN calls |-> j]
<1>1. calls \in Seq(Call) /\ CallsInv /\ FormKept /\ 0 \notin DOMAIN calls
  BY Typing, ConfigTyping
<1>2. /\ calls' = [calls EXCEPT ![i] = x]
      /\ UNCHANGED <<token, busy, list, aligned, conf, ready, vouched>>
  BY DEF Answer, Unseen, Views, navVars
<1>3. /\ DOMAIN calls' = DOMAIN calls /\ calls'[i] = x
      /\ \A j \in DOMAIN calls : j # i => calls'[j] = calls[j]
      /\ Flow(o, {}, NoCall)
  BY <1>1, <1>2, Answered DEF Reply
<1>4. \A j \in DOMAIN calls' : o[j] = j /\ calls'[j].live = calls[j].live
  BY <1>3 DEF Reply
<1> HIDE DEF o
<1>5. Calm(NoCall) /\ TokenKept({})
  BY <1>2, AsideCalm DEF NoCall, Aside, TokenKept
<1>6. Waits'
  BY <1>1, <1>2, <1>3, <1>4, WaitsFlow DEF CallsInv
<1>7. Alone'
  BY <1>1, <1>2, <1>3, <1>5, AloneFlows DEF CallsInv, Calm
<1>8. Matched'
  BY <1>1, <1>2, <1>3, <1>4, MatchedFlows DEF CallsInv
<1>9. OneKey'
  BY <1>1, <1>2, <1>3, <1>5, OneKeyFlows DEF CallsInv, Calm
<1>10. Kinds'
  BY <1>1, <1>3, <1>5, KindsFlow DEF CallsInv, Calm
<1>11. Vouch'
  BY <1>1, <1>3, <1>5, VouchFlows DEF CallsInv
<1>12. FormKept'
  BY <1>1, <1>2 DEF FormKept
<1>13. CASE KeyLeft(i, x)
  <2> USE DEF KeyLeft
  <2>1. ASSUME NEW j \in DOMAIN calls', o[j] # 0
        PROVE  \/ calls'[j].code = calls[o[j]].code /\ calls'[j].count = calls[o[j]].count
               \/ calls'[j].code # 200
               \/ calls'[j].do # "regenerate"
    BY <1>3, <1>4, <1>13 DEF Reply, Carried
  <2>2. KeyMade'
    BY <1>1, <1>2, <1>3, <1>5, <1>13, <2>1, KeyMadeFlows DEF CallsInv, Calm
  <2>3. ShownKeyWorks'
    BY <1>1, <1>2, <1>13 DEF CallsInv, ShownKeyWorks
  <2>4. QED
    BY <1>6, <1>7, <1>8, <1>9, <1>10, <1>11, <1>12, <2>2, <2>3 DEF CallsInv
<1>14. CASE KeyRemade(i, x)
  <2> USE DEF KeyRemade
  <2>1. calls[i].live => conf.key = 0
    BY <1>1, <1>14 DEF CallsInv, KeyMade
  <2>2. ASSUME NEW j \in DOMAIN calls', calls'[j].do = "regenerate", calls'[j].live
        PROVE  /\ conf'.key = 0
               /\ calls'[j].code = 200 /\ server'.mine => calls'[j].count = server'.key
    <3>1. calls[j].do = "regenerate" /\ calls[j].live
      BY <1>3, <1>4, <2>2 DEF Reply, Carried
    <3>2. conf.key = 0
      BY <1>1, <1>3, <3>1 DEF CallsInv, KeyMade
    <3>3. CASE j = i
      BY <1>2, <1>3, <1>14, <3>2, <3>3
    <3>4. CASE j # i
      <4>1. Keyed(calls[j]) /\ (calls[i].live => Keyed(calls[i]))
        BY <1>1, <1>3, <1>14, <3>1 DEF CallsInv, Kinds, Kind, Keyed
      <4>2. ~calls[i].live
        BY <1>1, <1>3, <3>4, <4>1 DEF CallsInv, OneKey
      <4>3. QED  BY <1>2, <1>14, <3>2, <4>2
    <3>5. QED  BY <3>3, <3>4
  <2>3. KeyMade'
    BY <2>2 DEF KeyMade
  <2>4. ShownKeyWorks'
    BY <1>2, <1>14, <2>1 DEF ShownKeyWorks
  <2>5. QED
    BY <1>6, <1>7, <1>8, <1>9, <1>10, <1>11, <1>12, <2>3, <2>4 DEF CallsInv
<1>15. QED  BY <1>13, <1>14

\* Every answer there is, and what it does to the server.
LEMMA Admission ==
  ASSUME IInv, NEW i \in DOMAIN calls
  PROVE  /\ calls[i] \in Call /\ server \in Server
         /\ server.domains \in SUBSET Domains /\ server.config \in Config /\ server.key \in Nat
         /\ server.job \in BOOLEAN /\ server.mine \in BOOLEAN /\ server.token \in Tokens
         /\ server.initialized \in BOOLEAN
         /\ calls[i].names \in SUBSET Domains /\ calls[i].live \in BOOLEAN
         /\ calls[i].patch \in Patch /\ MaxPages \in Nat
<1>1. calls \in Seq(Call) /\ server \in Server
  BY Typing
<1>2. calls[i] \in Call
  BY <1>1
<1>3. calls[i].names \in SUBSET Domains /\ calls[i].live \in BOOLEAN /\ calls[i].patch \in Patch
  BY <1>2 DEF Call
<1>4. QED  BY <1>1, <1>2, <1>3, AdminApiAssumption DEF Server

LEMMA CodeReply ==
  ASSUME IInv, NEW i \in DOMAIN calls, NEW c \in Codes
  PROVE  Reply(calls[i], Code(i, c)) /\ Code(i, c).code = c
<1>1. calls[i] \in Call
  BY Admission
<1>2. \A x \in Call : Reply(x, [x EXCEPT !.code = c]) /\ [x EXCEPT !.code = c].code = c
  BY Coded, Zenon
<1>3. QED  BY <1>1, <1>2, Zenon DEF Code

\* The server stays as it is.
LEMMA AnswerOnly ==
  ASSUME IInv, NEW i \in DOMAIN calls, NEW x, Reply(calls[i], x), Answer(i, x),
         UNCHANGED server, calls[i].do # "regenerate" \/ x.code # 200
  PROVE  Answering(i, x)
BY Admission DEF Answering, KeyLeft, ConfigWritten

\* Its domains, its certificate job or its configuration change.
LEMMA AnswerWith ==
  ASSUME IInv, NEW i \in DOMAIN calls, NEW x, Reply(calls[i], x), Answer(i, x),
         calls[i].do # "regenerate" \/ x.code # 200,
         server' \in Server, server'.key = server.key, server'.mine = server.mine,
         server'.config = server.config
  PROVE  Answering(i, x)
BY DEF Answering, KeyLeft, ConfigWritten

LEMMA PatchedTyping ==
  ASSUME NEW c \in Config, NEW p \in Patch PROVE Patched(c, p) \in Config
BY DEF Patched, Config, Patch

\* What the handlers write.
LEMMA DomainsWritten ==
  ASSUME NEW s \in Server, NEW D \in SUBSET Domains, NEW t, t = [s EXCEPT !.domains = D]
  PROVE  t \in Server /\ t.key = s.key /\ t.mine = s.mine /\ t.config = s.config
BY DEF Server

LEMMA JobWritten ==
  ASSUME NEW s \in Server, NEW b \in BOOLEAN, NEW t, t = [s EXCEPT !.job = b]
  PROVE  t \in Server /\ t.key = s.key /\ t.mine = s.mine /\ t.config = s.config
BY DEF Server

LEMMA KeyWritten ==
  ASSUME NEW s \in Server, NEW m \in BOOLEAN, NEW t,
         t = [s EXCEPT !.key = s.key + 1, !.mine = m]
  PROVE  t \in Server /\ t.key = s.key + 1 /\ t.mine = m /\ t.config = s.config
<1>1. s.key \in Nat
  BY DEF Server
<1>2. s.key + 1 \in Nat
  BY <1>1
<1> DEFINE k == s.key + 1
<1> HIDE DEF k
<1>3. t = [s EXCEPT !.key = k, !.mine = m] /\ k \in Nat
  BY <1>2 DEF k
<1>4. t \in Server /\ t.key = k /\ t.mine = m /\ t.config = s.config
  BY <1>3 DEF Server
<1>5. QED  BY <1>4 DEF k

LEMMA ConfigEdited ==
  ASSUME NEW s \in Server, NEW c \in Config, NEW t, t = [s EXCEPT !.config = c]
  PROVE  t \in Server /\ t.key = s.key /\ t.mine = s.mine /\ t.config = c
BY DEF Server

LEMMA Serving ==
  ASSUME IInv, NEW i \in DOMAIN calls, Serve(i)
  PROVE  \E x : Answering(i, x)
<1>1. /\ server \in Server /\ server.domains \in SUBSET Domains /\ server.config \in Config
      /\ server.key \in Nat /\ server.token \in Tokens /\ server.job \in BOOLEAN
      /\ calls[i].names \in SUBSET Domains /\ calls[i].live \in BOOLEAN
      /\ calls[i].patch \in Patch /\ MaxPages \in Nat
  BY Admission
<1>2. \A c \in Codes : Reply(calls[i], Code(i, c)) /\ Code(i, c).code = c
  BY CodeReply, Zenon
<1>3. /\ Reply(calls[i], Code(i, 200)) /\ Reply(calls[i], Code(i, 400))
      /\ Reply(calls[i], Code(i, 401)) /\ Code(i, 401).code = 401
      /\ Code(i, 400).code = 400
  BY <1>2 DEF Codes
<1>4. ASSUME NEW x, Reply(calls[i], x), Answer(i, x), UNCHANGED server,
             calls[i].do # "regenerate" \/ x.code # 200
      PROVE  \E y : Answering(i, y)
  BY <1>4, AnswerOnly, Zenon
<1>5. ASSUME NEW x, Reply(calls[i], x), Answer(i, x), calls[i].do # "regenerate",
             server' \in Server, server'.key = server.key, server'.mine = server.mine,
             server'.config = server.config
      PROVE  \E y : Answering(i, y)
  BY <1>5, AnswerWith, Zenon
<1>6. CASE require_admin(i)
  BY <1>3, <1>4, <1>6 DEF require_admin
<1>7. CASE Plain(i)
  BY <1>3, <1>4, <1>7 DEF Plain
<1>8. CASE List(i)
  <2>1. PICK more \in BOOLEAN : Answer(i, [Code(i, 200) EXCEPT !.more = more])
    BY <1>8 DEF List
  <2>2. Reply(calls[i], [Code(i, 200) EXCEPT !.more = more])
    BY <1>1, <1>3, <2>1, ReplyMore
  <2>3. calls[i].do # "regenerate" /\ UNCHANGED server
    BY <1>8 DEF List, Admitted
  <2>4. QED  BY <1>4, <2>1, <2>2, <2>3
<1>9. CASE list_domains(i)
  <2>1. Reply(calls[i], [Code(i, 200) EXCEPT !.names = server.domains])
    BY <1>1, <1>3, ReplyNames
  <2>2. calls[i].do # "regenerate" /\ UNCHANGED server
    BY <1>9 DEF list_domains, Admitted
  <2>3. QED  BY <1>4, <1>9, <2>1, <2>2 DEF list_domains
<1>10. CASE add_domain(i)
  <2>1. calls[i].do # "regenerate"
    BY <1>10 DEF add_domain, Admitted
  <2>2. CASE calls[i].names \subseteq server.domains
    BY <1>3, <1>4, <1>10, <2>1, <2>2 DEF add_domain
  <2>3. CASE ~(calls[i].names \subseteq server.domains)
    <3>1. PICK check \in BOOLEAN : Answer(i, [Code(i, 200) EXCEPT !.flag = check])
      BY <1>10, <2>3 DEF add_domain
    <3>2. Reply(calls[i], [Code(i, 200) EXCEPT !.flag = check])
      BY <1>1, <1>3, <3>1, ReplyFlag
    <3>3. server' = [server EXCEPT !.domains = server.domains \union calls[i].names]
      BY <1>10, <2>3 DEF add_domain
    <3>4. server.domains \union calls[i].names \in SUBSET Domains
      BY <1>1
    <3>5. /\ server' \in Server /\ server'.key = server.key /\ server'.mine = server.mine
          /\ server'.config = server.config
      BY <1>1, <3>3, <3>4, DomainsWritten
    <3>6. QED  BY <1>5, <2>1, <3>1, <3>2, <3>5
  <2>4. QED  BY <2>2, <2>3
<1>11. CASE remove_domain(i)
  <2>1. calls[i].do # "regenerate"
    BY <1>11 DEF remove_domain, Admitted
  <2>2. CASE server.domains \subseteq calls[i].names \/ ~(calls[i].names \subseteq server.domains)
    BY <1>3, <1>4, <1>11, <2>1, <2>2 DEF remove_domain
  <2>3. CASE ~(server.domains \subseteq calls[i].names
                  \/ ~(calls[i].names \subseteq server.domains))
    <3>1. Answer(i, Code(i, 200))
          /\ server' = [server EXCEPT !.domains = server.domains \ calls[i].names]
      BY <1>11, <2>3 DEF remove_domain
    <3>2. server.domains \ calls[i].names \in SUBSET Domains
      BY <1>1
    <3>3. /\ server' \in Server /\ server'.key = server.key /\ server'.mine = server.mine
          /\ server'.config = server.config
      BY <1>1, <3>1, <3>2, DomainsWritten
    <3>4. QED  BY <1>3, <1>5, <2>1, <3>1, <3>3
  <2>4. QED  BY <2>2, <2>3
<1>12. CASE get_config(i)
  <2>1. Reply(calls[i], [Code(i, 200) EXCEPT !.config = server.config])
    BY <1>1, <1>3, ReplyConfig
  <2>2. calls[i].do # "regenerate" /\ UNCHANGED server
    BY <1>12 DEF get_config, Admitted
  <2>3. QED  BY <1>4, <1>12, <2>1, <2>2 DEF get_config
<1>13. CASE update_config(i)
  <2> DEFINE new == Patched(server.config, calls[i].patch)
  <2>1. calls[i].do = "save" /\ new \in Config
    BY <1>1, <1>13, PatchedTyping DEF update_config, Admitted
  <2>2. CASE Refused(new)
    BY <1>3, <1>4, <1>13, <2>1, <2>2 DEF update_config
  <2>3. CASE ~Refused(new)
    <3> DEFINE w == IF calls[i].patch.token = NoToken THEN server.token
                    ELSE calls[i].patch.token
    <3>1. Answer(i, Code(i, 200)) /\ server' = [server EXCEPT !.config = new, !.token = w]
      BY <1>13, <2>3 DEF update_config
    <3>2. w \in Tokens
      BY <1>1 DEF Patch
    <3> HIDE DEF w, new
    <3>3. /\ server' \in Server /\ server'.key = server.key /\ server'.mine = server.mine
          /\ server'.config = new
      <4>1. new \in Config /\ server \in Server
        BY <1>1, <2>1
      <4> DEFINE c == new
                 s == server
                 t == server'
      <4>2. s \in Server /\ c \in Config /\ w \in Tokens /\ t = [s EXCEPT !.config = c, !.token = w]
        BY <3>1, <3>2, <4>1
      <4> HIDE DEF s, c, t
      <4>3. t \in Server /\ t.key = s.key /\ t.mine = s.mine /\ t.config = c
        BY <4>2 DEF Server
      <4>4. QED  BY <4>3 DEF s, c, t
    <3>4. Answering(i, Code(i, 200))
      BY <1>3, <2>1, <3>1, <3>3 DEF Answering, KeyLeft, ConfigWritten, new
    <3>5. QED  BY <3>4
  <2>4. QED  BY <2>2, <2>3
<1>14. CASE regenerate_api_key(i)
  <2> DEFINE x == [Code(i, 200) EXCEPT !.count = server.key + 1]
  <2>1. Reply(calls[i], x) /\ x.count = server.key + 1
    BY <1>1, <1>3, ReplyCount
  <2>2. /\ server' = [server EXCEPT !.key = server.key + 1, !.mine = calls[i].live]
        /\ calls[i].do = "regenerate" /\ Answer(i, x)
    BY <1>14 DEF regenerate_api_key, Admitted
  <2> HIDE DEF x
  <2>3. /\ server' \in Server /\ server'.key = server.key + 1
        /\ server'.mine = calls[i].live /\ server'.config = server.config
    <3> DEFINE m == calls[i].live
    <3>1. m \in BOOLEAN /\ server \in Server
      BY <1>1
    <3>2. server' = [server EXCEPT !.key = server.key + 1, !.mine = m]
      BY <2>2
    <3> HIDE DEF m
    <3>3. \A t : t = [server EXCEPT !.key = server.key + 1, !.mine = m] =>
                  t \in Server /\ t.key = server.key + 1 /\ t.mine = m /\ t.config = server.config
      BY <3>1, KeyWritten, Zenon
    <3>4. /\ server' \in Server /\ server'.key = server.key + 1
          /\ server'.mine = m /\ server'.config = server.config
      BY <3>2, <3>3, Zenon
    <3>5. QED  BY <3>4 DEF m
  <2>4. QED  BY <2>1, <2>2, <2>3 DEF Answering, KeyRemade, ConfigWritten
<1>15. CASE tls_status(i)
  <2>1. Reply(calls[i], [Code(i, 200) EXCEPT !.flag = server.job])
    BY <1>1, <1>3, ReplyFlag
  <2>2. calls[i].do # "regenerate" /\ UNCHANGED server
    BY <1>15 DEF tls_status, Admitted
  <2>3. QED  BY <1>4, <1>15, <2>1, <2>2 DEF tls_status
<1>16. CASE tls_issue(i)
  <2> DEFINE c == IF server.job THEN 400 ELSE 200
  <2>1. Reply(calls[i], Code(i, c))
    BY <1>3
  <2>2. Answer(i, Code(i, c)) /\ calls[i].do # "regenerate"
        /\ server' = [server EXCEPT !.job = TRUE]
    BY <1>16 DEF tls_issue, Admitted
  <2> HIDE DEF c
  <2>3. /\ server' \in Server /\ server'.key = server.key /\ server'.mine = server.mine
        /\ server'.config = server.config
    BY <1>1, <2>2, JobWritten
  <2>4. QED  BY <1>5, <2>1, <2>2, <2>3
<1>17. QED
  BY <1>6, <1>7, <1>8, <1>9, <1>10, <1>11, <1>12, <1>13, <1>14, <1>15, <1>16 DEF Serve

LEMMA ServedKeeps ==
  ASSUME IInv, Served
  PROVE  CallsInv' /\ FormKept' /\ server' \in Server
<1>1. PICK i \in DOMAIN calls : Serve(i) /\ Unseen
  BY DEF Served
<1>2. PICK x : Answering(i, x)
  BY <1>1, Serving, Zenon
<1>3. /\ Reply(calls[i], x) /\ Answer(i, x) /\ server' \in Server
      /\ KeyLeft(i, x) \/ KeyRemade(i, x)
  BY <1>2 DEF Answering
<1>4. CallsInv' /\ FormKept'
  BY <1>1, <1>3, ReplyKeeps, Zenon
<1>5. QED  BY <1>3, <1>4

\* The server, when somebody else writes to it.
LEMMA EditedServer ==
  ASSUME IInv, Elsewhere
  PROVE  /\ server' \in Server
         /\ \/ server'.key = server.key /\ server'.mine = server.mine
            \/ server'.key = server.key + 1 /\ server'.mine = FALSE
<1>1. server \in Server /\ server.config \in Config /\ server.token \in Tokens
  BY Typing DEF Server
<1>2. CASE server' = [server EXCEPT !.config.number = 3 - @]
  <2> DEFINE c == [server.config EXCEPT !.number = 3 - @]
  <2>1. c \in Config
    BY <1>1 DEF Config
  <2>2. server' = [server EXCEPT !.config = c]
    BY <1>1, <1>2 DEF Server, Config
  <2> HIDE DEF c
  <2>3. QED  BY <1>1, <2>1, <2>2, ConfigEdited
<1>3. ASSUME NEW to \in {"on", "off"},
             server' = [server EXCEPT !.config = [server.config EXCEPT !.toggle = to]]
      PROVE  server' \in Server /\ server'.key = server.key /\ server'.mine = server.mine
  <2> DEFINE c == [server.config EXCEPT !.toggle = to]
  <2>1. c \in Config
    BY <1>1 DEF Config
  <2>2. server' = [server EXCEPT !.config = c]
    BY <1>3
  <2> HIDE DEF c
  <2>3. QED  BY <1>1, <2>1, <2>2, ConfigEdited
<1>4. CASE server' = [server EXCEPT !.key = @ + 1, !.mine = FALSE]
  <2>1. server' = [server EXCEPT !.key = server.key + 1, !.mine = FALSE]
    BY <1>4
  <2>2. QED  BY <1>1, <2>1, KeyWritten
<1>5. QED  BY <1>2, <1>3, <1>4 DEF Elsewhere

\* A key that somebody else makes is not the page's any more.
LEMMA ElsewhereKeeps ==
  ASSUME IInv, UNCHANGED <<token, calls, busy>>, Unseen, server' \in Server,
         \/ server'.key = server.key /\ server'.mine = server.mine
         \/ server'.key = server.key + 1 /\ server'.mine = FALSE
  PROVE  CallsInv' /\ FormKept'
<1>1. CallsInv /\ FormKept
  BY Typing, ConfigTyping
<1>2. UNCHANGED <<token, calls, busy, list, aligned, conf, doms, page, ready, vouched>>
  BY DEF Unseen, Views, navVars
<1>3. Vouch' /\ Waits' /\ Alone' /\ Matched' /\ OneKey'
  BY <1>1, <1>2 DEF CallsInv, Vouch, Waits, Alone, Matched, OneKey
<1>4. Kinds' /\ FormKept'
  BY <1>1, <1>2 DEF CallsInv, Kinds, FormKept
<1>5. KeyMade' /\ ShownKeyWorks'
  BY <1>1, <1>2 DEF CallsInv, KeyMade, ShownKeyWorks
<1>6. QED  BY <1>3, <1>4, <1>5 DEF CallsInv

LEMMA FailKeeps ==
  ASSUME IInv, NEW i \in DOMAIN calls, Fail(i), Unseen
  PROVE  CallsInv' /\ FormKept'
<1>1. Answer(i, Code(i, 500)) /\ UNCHANGED server
  BY DEF Fail
<1>2. Reply(calls[i], Code(i, 500)) /\ Code(i, 500).code = 500
  BY CodeReply DEF Codes
<1>3. KeyLeft(i, Code(i, 500))
  BY <1>1, <1>2 DEF KeyLeft
<1>4. QED  BY <1>1, <1>2, <1>3, ReplyKeeps

LEMMA OutsideKeeps ==
  ASSUME IInv, Outside
  PROVE  CallsInv' /\ FormKept' /\ server' \in Server
<1>1. CASE Certified
  <2>1. server \in Server /\ server' = [server EXCEPT !.job = FALSE]
    BY <1>1, Typing DEF Certified
  <2>2. server' \in Server /\ server'.key = server.key /\ server'.mine = server.mine
    BY <2>1 DEF Server
  <2>3. QED  BY <1>1, <2>2, ElsewhereKeeps DEF Certified, Outside
<1>2. CASE Elsewhere
  <2>1. server' \in Server
        /\ \/ server'.key = server.key /\ server'.mine = server.mine
           \/ server'.key = server.key + 1 /\ server'.mine = FALSE
    BY <1>2, EditedServer
  <2>2. QED  BY <1>2, <2>1, ElsewhereKeeps DEF Elsewhere, Outside
<1>3. ASSUME NEW i \in DOMAIN calls, Fail(i)
      PROVE  CallsInv' /\ FormKept' /\ server' \in Server
  BY <1>3, FailKeeps, Typing DEF Outside, Fail
<1>4. QED  BY <1>1, <1>2, <1>3 DEF Outside

LEMMA StutterKeeps == ASSUME IInv, UNCHANGED vars PROVE CallsInv' /\ FormKept'
<1>1. /\ UNCHANGED <<token, calls, busy>> /\ Unseen /\ server' \in Server
      /\ server'.key = server.key /\ server'.mine = server.mine
  BY Typing DEF vars, apiVars, listVars, Unseen, Views, navVars
<1>2. QED  BY <1>1, ElsewhereKeeps

-----------------------------------------------------------------------------
(* The types.                                                               *)

TokensOK == TokenOK /\ vouched \subseteq Tokens \union {NoToken}
DomsOK == doms \in [names : SUBSET Domains, checks : SUBSET Domains]
ViewsOK == ListTypeOK /\ ConfTypeOK /\ DomsOK
ShellOK == page \in Pages \union {"out"} /\ ready \in BOOLEAN /\ busy \subseteq Spinners
BoundsOK == acts \in 0..MaxActs /\ faults \in 0..MaxFaults /\ edits \in 0..MaxEdits

LEMMA TypeParts ==
  ASSUME TypeOK PROVE TokensOK /\ ViewsOK /\ ShellOK /\ BoundsOK /\ server \in Server
BY DEF TypeOK, AdminApiTypeOK, TokensOK, TokenOK, DomsOK, ViewsOK, ShellOK, BoundsOK

LEMMA Typed ==
  ASSUME Kinds', TokensOK', ViewsOK', ShellOK', BoundsOK', server' \in Server
  PROVE  TypeOK'
<1>1. \A i \in DOMAIN calls' : calls'[i] \in Call
  BY DEF Kinds
<1>2. AdminApiTypeOK'
  BY <1>1 DEF AdminApiTypeOK, TokensOK, TokenOK, ShellOK, BoundsOK
<1>3. QED
  BY <1>2 DEF TypeOK, ViewsOK, DomsOK, ShellOK, TokensOK, BoundsOK

LEMMA BlankTypes == ASSUME Blank PROVE ViewsOK'
<1>1. 1 \in 1..MaxPages /\ 0 \in 0..MaxPages
  BY AdminApiAssumption
<1>2. NoData \in [page : 0..MaxPages, search : BOOLEAN, more : BOOLEAN]
  BY <1>1 DEF NoData
<1>3. ListTypeOK'
  BY <1>1, <1>2 DEF Blank, ListBlank, ListTypeOK
<1>4. AnyConfig \in Config
  BY DEF AnyConfig, Config
<1>5. ConfTypeOK'
  BY <1>4 DEF Blank, ConfBlank, ConfTypeOK
<1>6. DomsOK'
  BY DEF Blank, DomsBlank, DomsOK
<1>7. QED  BY <1>3, <1>5, <1>6 DEF ViewsOK

LEMMA SameViews == ASSUME ViewsOK, UNCHANGED Views PROVE ViewsOK'
BY DEF ViewsOK, Views, ListTypeOK, ConfTypeOK, DomsOK

LEMMA LitSpinners == ASSUME NEW p PROVE FirstLit(p) \subseteq Spinners
BY DEF FirstLit, Spinners

LEMMA GoTypes ==
  ASSUME ViewsOK, ShellOK, NEW p \in Pages \union {"out"}, NEW kept, Go(p, kept)
  PROVE  ViewsOK' /\ ShellOK'
<1>1. CASE p = page
  <2>1. UNCHANGED <<Views, busy, page, ready>>
    BY <1>1 DEF Go
  <2>2. QED  BY <2>1, SameViews DEF ShellOK
<1>2. CASE p # page
  <2>1. page' = p /\ ready' = (ready /\ p # "out") /\ Blank
    BY <1>2 DEF Go
  <2>2. PICK asked : Mount(p, Orphans(kept, p), asked)
    BY <1>2 DEF Go
  <2>3. busy' = FirstLit(p) \/ busy' = {}
    BY <2>2 DEF Mount
  <2>4. QED  BY <2>1, <2>3, BlankTypes, LitSpinners DEF ShellOK
<1>3. QED  BY <1>1, <1>2

LEMMA NavigateTypes ==
  ASSUME IInv, Navigate
  PROVE  TokensOK' /\ ViewsOK' /\ ShellOK'
<1>1. TokensOK /\ ViewsOK /\ ShellOK
  BY TypeParts DEF IInv
<1>2. CASE Link
  <2>1. PICK p \in Pages \union {"out"} : Go(p, calls)
    BY <1>2 DEF Link
  <2>2. TokensOK'
    BY <1>1, <1>2 DEF Link, TokensOK, TokenOK
  <2>3. QED  BY <1>1, <2>1, <2>2, GoTypes
<1>3. CASE logout
  <2>1. Go("login", calls) /\ "login" \in Pages
    BY <1>3 DEF logout, Pages
  <2>2. TokensOK'
    BY <1>1, <1>3 DEF logout, TokensOK, TokenOK
  <2>3. QED  BY <1>1, <2>1, <2>2, GoTypes
<1>4. CASE Reload
  <2>1. TokensOK'
    BY <1>1, <1>4 DEF Reload, TokensOK, TokenOK
  <2>2. ShellOK' /\ ViewsOK'
    BY <1>1, <1>4, BlankTypes DEF Reload, ShellOK
  <2>3. QED  BY <2>1, <2>2
<1>5. QED  BY <1>2, <1>3, <1>4 DEF Navigate

LEMMA LoginTypes ==
  ASSUME IInv, Login
  PROVE  TokensOK' /\ ViewsOK' /\ ShellOK'
<1>1. TokensOK /\ ViewsOK /\ ShellOK
  BY TypeParts DEF IInv
<1>2. PICK new \in Tokens \union {NoToken} : handleLogin(new)
  BY DEF Login
<1>3. /\ token' = new /\ UNCHANGED <<Views, navVars>>
      /\ busy' = busy \union {"login"}
  BY <1>2 DEF handleLogin, Send
<1>4. TokensOK' /\ ShellOK'
  BY <1>1, <1>3 DEF TokensOK, TokenOK, ShellOK, navVars, Spinners
<1>5. QED  BY <1>1, <1>3, <1>4, SameViews

LEMMA HereTypes ==
  ASSUME TokensOK, ShellOK, NEW p, Here(p), busy' \subseteq Spinners
  PROVE  TokensOK' /\ ShellOK'
BY DEF Here, TokensOK, TokenOK, ShellOK, navVars

LEMMA UsesListTypes ==
  ASSUME IInv, UsesList
  PROVE  TokensOK' /\ ViewsOK' /\ ShellOK'
<1>1. TokensOK /\ ViewsOK /\ ShellOK
  BY TypeParts DEF IInv
<1>2. PICK p \in {"emails", "addresses", "mailboxes"} : Here(p) /\ ListUser(p)
  BY DEF UsesList
<1>3. ConfTypeOK' /\ DomsOK'
  BY <1>1 DEF UsesList, ViewsOK, ConfTypeOK, DomsOK
<1>4. /\ list \in [page : 1..MaxPages, search : BOOLEAN, typed : BOOLEAN,
                   data : [page : 0..MaxPages, search : BOOLEAN, more : BOOLEAN],
                   detail : BOOLEAN, created : BOOLEAN]
      /\ aligned \in BOOLEAN /\ 1 \in 1..MaxPages
  BY <1>1, ListTyping DEF ViewsOK, ListTypeOK
<1>5. ASSUME ListTypeOK', busy' \subseteq Spinners
      PROVE  TokensOK' /\ ViewsOK' /\ ShellOK'
  BY <1>1, <1>2, <1>3, <1>5, HereTypes DEF ViewsOK
<1>6. busy \subseteq Spinners /\ {"list", "create", "detail"} \subseteq Spinners
  BY <1>1 DEF ShellOK, Spinners
<1>7. ASSUME UNCHANGED listVars PROVE ListTypeOK'
  BY <1>4, <1>7 DEF listVars, ListTypeOK
<1>8. CASE ListType
  BY <1>4, <1>5, <1>6, <1>8 DEF ListType, ListTypeOK
<1>9. CASE handleSearch(p)
  BY <1>4, <1>5, <1>6, <1>9 DEF handleSearch, Fetch, SendList, ListTypeOK
<1>10. CASE ListRefresh(p)
  BY <1>5, <1>6, <1>7, <1>10 DEF ListRefresh, SendList
<1>11. CASE Turn(p)
  <2>1. PICK n \in 0..MaxPages :
          /\ \/ "prev" \in Pagination /\ n = list.page - 1
             \/ "next" \in Pagination /\ n = list.page + 1
          /\ list' = [list EXCEPT !.page = n] /\ Fetch(p, n, list.search)
    BY <1>11 DEF Turn
  <2>2. n \in 1..MaxPages
    BY <2>1, TurnTyping
  <2>3. ListTypeOK'
    BY <1>4, <1>11, <2>1, <2>2 DEF Turn, ListTypeOK
  <2>4. QED  BY <1>5, <1>6, <2>1, <2>3 DEF Fetch, SendList
<1>12. CASE handleView(p)
  BY <1>5, <1>6, <1>7, <1>12 DEF handleView, Send
<1>13. CASE DialogClose
  BY <1>4, <1>5, <1>6, <1>13 DEF DialogClose, ListTypeOK
<1>14. CASE \/ handleDelete(p) \/ handlePurge(p) \/ handleRunRetention(p)
            \/ CreateMailbox(p)
  <2>1. \/ Change(p, "delete", {}) \/ Change(p, "purge", {}) \/ Change(p, "retention", {})
        \/ Change(p, "create", {"create"})
    BY <1>14 DEF handleDelete, handlePurge, handleRunRetention, CreateMailbox
  <2>2. /\ UNCHANGED listVars
        /\ busy' = busy \union {} \/ busy' = busy \union {"create"}
    BY <2>1 DEF Change, SendList
  <2>3. QED  BY <1>5, <1>6, <1>7, <2>2
<1>15. QED
  BY <1>2, <1>8, <1>9, <1>10, <1>11, <1>12, <1>13, <1>14 DEF ListUser

LEMMA UsesConfigTypes ==
  ASSUME IInv, UsesConfig
  PROVE  TokensOK' /\ ViewsOK' /\ ShellOK'
<1>1. TokensOK /\ ViewsOK /\ ShellOK
  BY TypeParts DEF IInv
<1>2. Here("config") /\ ConfUser
  BY DEF UsesConfig
<1>3. ListTypeOK' /\ DomsOK'
  BY <1>1 DEF UsesConfig, ViewsOK, ListTypeOK, listVars, DomsOK
<1>4. conf \in [loaded : BOOLEAN, config : Config, toggle : BOOLEAN, number : 0..2,
                host : BOOLEAN, touched : SUBSET {"toggle", "number", "host"},
                key : Nat, pending : BOOLEAN]
  BY ConfigTyping
<1>5. ASSUME ConfTypeOK', busy' \subseteq Spinners
      PROVE  TokensOK' /\ ViewsOK' /\ ShellOK'
  BY <1>1, <1>2, <1>3, <1>5, HereTypes DEF ViewsOK
<1>6. busy \subseteq Spinners /\ {"key", "tls", "save"} \subseteq Spinners
  BY <1>1 DEF ShellOK, Spinners
<1>7. ASSUME UNCHANGED conf PROVE ConfTypeOK'
  BY <1>4, <1>7 DEF ConfTypeOK
<1>8. CASE setField
  <2>1. busy' \subseteq Spinners
    BY <1>6, <1>8 DEF setField
  <2>2. CASE conf' = [conf EXCEPT !.toggle = ~@, !.touched = @ \union {"toggle"}]
    BY <1>4, <1>5, <2>1, <2>2 DEF ConfTypeOK
  <2>3. CASE conf' = [conf EXCEPT !.host = ~@, !.touched = @ \union {"host"}]
    BY <1>4, <1>5, <2>1, <2>3 DEF ConfTypeOK
  <2>4. ASSUME NEW n \in 0..2,
               conf' = [conf EXCEPT !.number = n, !.touched = @ \union {"number"}]
        PROVE  ConfTypeOK'
    BY <1>4, <2>4 DEF ConfTypeOK
  <2>5. QED  BY <1>5, <1>8, <2>1, <2>2, <2>3, <2>4 DEF setField
<1>9. CASE ConfRefresh
  BY <1>5, <1>6, <1>7, <1>9 DEF ConfRefresh, Send
<1>10. CASE handleRegenerateApiKey
  BY <1>4, <1>5, <1>6, <1>10 DEF handleRegenerateApiKey, Send, ConfTypeOK
<1>11. CASE handleIssueCert
  BY <1>5, <1>6, <1>7, <1>11 DEF handleIssueCert, Send
<1>12. ASSUME NEW new, handleSave(new)
       PROVE  TokensOK' /\ ViewsOK' /\ ShellOK'
  BY <1>5, <1>6, <1>7, <1>12 DEF handleSave, Send
<1>13. QED  BY <1>2, <1>8, <1>9, <1>10, <1>11, <1>12 DEF ConfUser

LEMMA UsesOtherTypes ==
  ASSUME IInv, UsesOther
  PROVE  TokensOK' /\ ViewsOK' /\ ShellOK'
<1>1. TokensOK /\ ViewsOK /\ ShellOK
  BY TypeParts DEF IInv
<1>2. PICK p : Here(p)
  BY DEF UsesOther
<1>3. UNCHANGED Views
  BY DEF UsesOther, DomainUser, listVars, Views
<1>4. ASSUME NEW n, NEW on \in SUBSET {"add", "check", "run"}, Send(n, on)
      PROVE  busy' \subseteq Spinners
  BY <1>1, <1>4 DEF Send, ShellOK, Spinners
<1>5. busy' \subseteq Spinners
  <2>1. ASSUME NEW d \in Domains, NEW do \in {"add", "check", "remove"}, NEW on,
               on = IF do = "remove" THEN {} ELSE {do},
               Send(<<[request("domains", do, on) EXCEPT !.names = {d}]>>, on)
        PROVE  busy' \subseteq Spinners
    <3>1. on \in SUBSET {"add", "check", "run"}
      BY <2>1
    <3>2. QED  BY <1>4, <2>1, <3>1, Zenon
  <2>2. CASE DomainUser
    <3>1. {} \in SUBSET {"add", "check", "run"}
      OBVIOUS
    <3>2. CASE Send(<<request("domains", "domains", {})>>, {})
      BY <1>4, <3>1, <3>2, Zenon
    <3>3. QED  BY <2>1, <2>2, <3>2, Zenon DEF DomainUser
  <2>3. CASE handleRun
    <3>1. {"run"} \in SUBSET {"add", "check", "run"}
      OBVIOUS
    <3>2. QED  BY <1>4, <2>3, <3>1, Zenon DEF handleRun
  <2>4. CASE LanguageChosen
    <3>1. {} \in SUBSET {"add", "check", "run"}
      OBVIOUS
    <3>2. QED  BY <1>4, <2>4, <3>1, Zenon DEF LanguageChosen
  <2>5. QED  BY <2>2, <2>3, <2>4 DEF UsesOther
<1>6. QED  BY <1>1, <1>2, <1>3, <1>5, HereTypes, SameViews

LEMMA OffTypes ==
  ASSUME busy \subseteq Spinners, NEW i, NEW kept, Off(i, kept)
  PROVE  busy' \subseteq Spinners
BY DEF Off

LEMMA OpenedTypes ==
  ASSUME ViewsOK, ShellOK, NEW i \in DOMAIN calls, calls[i].live \in BOOLEAN, NEW kept,
         Opened(i, kept)
  PROVE  ViewsOK' /\ ShellOK'
<1>1. /\ ready' = (ready \/ calls[i].live) /\ UNCHANGED <<Views, page>>
      /\ busy' = FirstLit(page) \/ busy' = busy
  BY DEF Opened
<1>2. ready' \in BOOLEAN
  BY <1>1 DEF ShellOK
<1>3. QED  BY <1>1, <1>2, SameViews, LitSpinners DEF ShellOK

\* What a call in flight carries.
LEMMA Contents ==
  ASSUME IInv, NEW i \in DOMAIN calls
  PROVE  /\ calls[i].page \in 1..MaxPages /\ calls[i].search \in BOOLEAN
         /\ calls[i].more \in BOOLEAN /\ calls[i].alone \in BOOLEAN
         /\ calls[i].names \in SUBSET Domains /\ calls[i].config \in Config
         /\ calls[i].flag \in BOOLEAN /\ calls[i].count \in Nat /\ calls[i].live \in BOOLEAN
         /\ calls[i].token \in Tokens \union {NoToken} /\ calls[i].code \in Nat
         /\ calls[i].ends \in SUBSET Spinners
<1>1. calls \in Seq(Call)
  BY Typing
<1>2. calls[i] \in Call
  BY <1>1
<1>3. QED  BY <1>2 DEF Call

LEMMA ListHearsTypes ==
  ASSUME IInv, NEW i \in DOMAIN calls, ListHears(i)
  PROVE  ListTypeOK' /\ busy' \subseteq Spinners
<1>1. /\ list \in [page : 1..MaxPages, search : BOOLEAN, typed : BOOLEAN,
                   data : [page : 0..MaxPages, search : BOOLEAN, more : BOOLEAN],
                   detail : BOOLEAN, created : BOOLEAN]
      /\ aligned \in BOOLEAN
  BY TypeParts DEF IInv, ViewsOK, ListTypeOK
<1>2. busy \subseteq Spinners /\ {"list"} \subseteq Spinners
  BY TypeParts DEF IInv, ShellOK, Spinners
<1>3. /\ calls[i].page \in 0..MaxPages /\ calls[i].search \in BOOLEAN
      /\ calls[i].more \in BOOLEAN /\ calls[i].alone \in BOOLEAN
  BY Contents
<1>4. CASE ListShown(i)
  <2> DEFINE d == [page |-> calls[i].page, search |-> calls[i].search, more |-> calls[i].more]
  <2>1. d \in [page : 0..MaxPages, search : BOOLEAN, more : BOOLEAN]
    BY <1>3
  <2>2. list' = list \/ list' = [list EXCEPT !.data = d]
    BY <1>4 DEF ListShown, Seen
  <2> HIDE DEF d
  <2>3. aligned' \in BOOLEAN
    BY <1>1, <1>3, <1>4 DEF ListShown, Ok
  <2>4. ListTypeOK'
    BY <1>1, <2>1, <2>2, <2>3 DEF ListTypeOK
  <2>5. QED  BY <1>2, <1>4, <2>4, OffTypes DEF ListShown
<1>5. CASE DetailShown(i)
  <2>1. list' = list \/ list' = [list EXCEPT !.detail = TRUE]
    BY <1>5 DEF DetailShown, Seen
  <2>2. ListTypeOK'
    BY <1>1, <1>5, <2>1 DEF DetailShown, ListTypeOK
  <2>3. QED  BY <1>2, <1>5, <2>2, OffTypes DEF DetailShown
<1>6. CASE Changed(i)
  <2>1. list' = list \/ list' = [list EXCEPT !.detail = FALSE]
    BY <1>6 DEF Changed, Seen
  <2>2. ListTypeOK'
    BY <1>1, <1>6, <2>1 DEF Changed, ListTypeOK
  <2>3. busy' \subseteq Spinners
    BY <1>2, <1>6, OffTypes DEF Changed, Refetch
  <2>4. QED  BY <2>2, <2>3
<1>7. CASE Created(i)
  <2>1. list' = list \/ list' = [list EXCEPT !.created = TRUE]
    BY <1>7 DEF Created, Seen
  <2>2. ListTypeOK'
    BY <1>1, <1>7, <2>1 DEF Created, ListTypeOK
  <2>3. busy' \subseteq Spinners
    BY <1>2, <1>7, OffTypes DEF Created, Refetch
  <2>4. QED  BY <2>2, <2>3
<1>8. QED  BY <1>4, <1>5, <1>6, <1>7 DEF ListHears

LEMMA ConfHearsTypes ==
  ASSUME IInv, NEW i \in DOMAIN calls, ConfHears(i)
  PROVE  ConfTypeOK' /\ busy' \subseteq Spinners
<1>1. conf \in [loaded : BOOLEAN, config : Config, toggle : BOOLEAN, number : 0..2,
                host : BOOLEAN, touched : SUBSET {"toggle", "number", "host"},
                key : Nat, pending : BOOLEAN]
  BY ConfigTyping
<1>2. busy \subseteq Spinners
  BY TypeParts DEF IInv, ShellOK
<1>3. /\ calls[i].config \in Config /\ calls[i].flag \in BOOLEAN /\ calls[i].count \in Nat
  BY Contents
<1>4. ASSUME UNCHANGED conf PROVE ConfTypeOK'
  BY <1>1, <1>4 DEF ConfTypeOK
<1>5. CASE ConfigShown(i)
  <2> DEFINE c == calls[i].config
  <2>1. conf' = conf \/ conf' = Loaded(conf, c)
    BY <1>5 DEF ConfigShown, ConfSeen
  <2>2. c \in Config /\ c.number \in 0..2 /\ c.host \in BOOLEAN
    BY <1>3 DEF Config
  <2> HIDE DEF c
  <2>3. Loaded(conf, c) \in [loaded : BOOLEAN, config : Config, toggle : BOOLEAN,
                             number : 0..2, host : BOOLEAN,
                             touched : SUBSET {"toggle", "number", "host"},
                             key : Nat, pending : BOOLEAN]
    BY <1>1, <2>2 DEF Loaded
  <2>4. ConfTypeOK'
    BY <1>1, <2>1, <2>3 DEF ConfTypeOK
  <2>5. QED  BY <1>2, <1>5, <2>4, OffTypes DEF ConfigShown
<1>6. CASE StatusShown(i)
  <2>1. conf' = conf \/ conf' = [conf EXCEPT !.pending = calls[i].flag]
    BY <1>6 DEF StatusShown, ConfSeen
  <2>2. ConfTypeOK'
    BY <1>1, <1>3, <2>1 DEF ConfTypeOK
  <2>3. QED  BY <1>2, <1>6, <2>2, OffTypes DEF StatusShown
<1>7. CASE Saved(i)
  BY <1>2, <1>4, <1>7, OffTypes DEF Saved
<1>8. CASE Regenerated(i)
  <2>1. conf' = conf \/ conf' = [conf EXCEPT !.key = calls[i].count]
    BY <1>8 DEF Regenerated, ConfSeen
  <2>2. ConfTypeOK'
    BY <1>1, <1>3, <2>1 DEF ConfTypeOK
  <2>3. QED  BY <1>2, <1>8, <2>2, OffTypes DEF Regenerated
<1>9. CASE Issued(i)
  BY <1>2, <1>4, <1>9, OffTypes DEF Issued, PollAgain
<1>10. CASE Polled(i)
  <2>1. conf' = conf \/ conf' = [conf EXCEPT !.pending = calls[i].flag]
    BY <1>10 DEF Polled, ConfSeen
  <2>2. ConfTypeOK'
    BY <1>1, <1>3, <2>1 DEF ConfTypeOK
  <2>3. QED  BY <1>2, <1>10, <2>2, OffTypes DEF Polled, PollAgain
<1>11. QED  BY <1>5, <1>6, <1>7, <1>8, <1>9, <1>10 DEF ConfHears

LEMMA DomainHearsTypes ==
  ASSUME IInv, NEW i \in DOMAIN calls, DomainHears(i)
  PROVE  DomsOK' /\ busy' \subseteq Spinners
<1>1. doms \in [names : SUBSET Domains, checks : SUBSET Domains]
  BY TypeParts DEF IInv, ViewsOK, DomsOK
<1>2. busy \subseteq Spinners /\ {"check"} \subseteq Spinners
  BY TypeParts DEF IInv, ShellOK, Spinners
<1>3. calls[i].names \in SUBSET Domains
  BY Contents
<1>4. ASSUME \/ doms' = doms \/ doms' = [doms EXCEPT !.names = calls[i].names]
             \/ doms' = [doms EXCEPT !.checks = @ \union calls[i].names]
      PROVE  DomsOK'
  BY <1>1, <1>3, <1>4 DEF DomsOK
<1>5. CASE DomainsShown(i)
  <2>1. doms' = doms \/ doms' = [doms EXCEPT !.names = calls[i].names]
    BY <1>5 DEF DomainsShown, DomsSeen
  <2>2. QED  BY <1>2, <1>4, <1>5, <2>1, OffTypes DEF DomainsShown
<1>6. CASE FirstChecks(i)
  BY <1>2, <1>4, <1>6 DEF FirstChecks
<1>7. CASE Added(i)
  <2>1. doms' = doms \/ doms' = [doms EXCEPT !.checks = @ \union calls[i].names]
    BY <1>7 DEF Added, DomsSeen
  <2>2. busy' \subseteq Spinners
    BY <1>2, <1>7, OffTypes DEF Added
  <2>3. QED  BY <1>4, <2>1, <2>2
<1>8. CASE Removed(i)
  BY <1>2, <1>4, <1>8, OffTypes DEF Removed
<1>9. CASE Checked(i)
  <2>1. doms' = doms \/ doms' = [doms EXCEPT !.checks = @ \union calls[i].names]
    BY <1>9 DEF Checked, DomsSeen
  <2>2. QED  BY <1>2, <1>4, <1>9, <2>1, OffTypes DEF Checked
<1>10. QED  BY <1>5, <1>6, <1>7, <1>8, <1>9 DEF DomainHears

\* A handler leaves the token as it is or removes it, and stays on its page.
LEMMA StaysTypes ==
  ASSUME TokensOK, ShellOK, NEW i, Stays(i), busy' \subseteq Spinners
  PROVE  TokensOK' /\ ShellOK'
<1>1. token' \in {token, NoToken} /\ UNCHANGED navVars
  BY DEF Stays, Unauthorized
<1>2. QED  BY <1>1 DEF TokensOK, TokenOK, ShellOK, navVars

LEMMA LoggedInTypes ==
  ASSUME IInv, NEW i \in DOMAIN calls, LoggedIn(i)
  PROVE  TokensOK' /\ ViewsOK' /\ ShellOK'
<1>1. TokensOK /\ ViewsOK /\ ShellOK /\ calls[i].token \in Tokens \union {NoToken}
  BY TypeParts, Contents DEF IInv
<1>2. CASE Ok(i)
  <2>1. /\ vouched' = vouched \union {calls[i].token} /\ UNCHANGED token
        /\ Go("dashboard", RemoveAt(calls, i)) /\ "dashboard" \in Pages
    BY <1>2 DEF LoggedIn, Pages
  <2>2. TokensOK'
    BY <1>1, <2>1 DEF TokensOK, TokenOK
  <2>3. QED  BY <1>1, <2>1, <2>2, GoTypes
<1>3. CASE ~Ok(i)
  <2>1. /\ token' = NoToken /\ UNCHANGED vouched /\ Off(i, {})
        /\ UNCHANGED <<Views, page, ready>>
    BY <1>3 DEF LoggedIn, LoginFailed
  <2>2. busy' \subseteq Spinners
    BY <1>1, <2>1, OffTypes DEF ShellOK
  <2>3. TokensOK' /\ ShellOK'
    BY <1>1, <2>1, <2>2 DEF TokensOK, TokenOK, ShellOK
  <2>4. QED  BY <1>1, <2>1, <2>3, SameViews
<1>4. QED  BY <1>2, <1>3

LEMMA HearsTypes ==
  ASSUME IInv, Hears
  PROVE  TokensOK' /\ ViewsOK' /\ ShellOK'
<1>1. TokensOK /\ ViewsOK /\ ShellOK /\ busy \subseteq Spinners
  BY TypeParts DEF IInv, ShellOK
<1>2. PICK i \in DOMAIN calls : Hear(i)
  BY DEF Hears
<1>3. CASE AdminLayout(i)
  <2>1. TokensOK'
    BY <1>1, <1>3 DEF AdminLayout, TokensOK, TokenOK
  <2>2. \/ \E p \in Pages \union {"out"} : \E kept : Go(p, kept)
        \/ \E kept : Opened(i, kept)
    <3>1. "login" \in Pages
      BY DEF Pages
    <3>2. QED  BY <1>3, <3>1 DEF AdminLayout
  <2>3. calls[i].live \in BOOLEAN
    BY Contents
  <2>4. QED  BY <1>1, <2>1, <2>2, <2>3, GoTypes, OpenedTypes
<1>4. CASE LoggedIn(i)
  BY <1>4, LoggedInTypes
<1>5. CASE TokenSaved(i)
  <2>1. /\ token' = NoToken /\ UNCHANGED vouched
        /\ Go("login", RemoveAt(calls, i)) /\ "login" \in Pages
    BY <1>5 DEF TokenSaved, Pages
  <2>2. TokensOK'
    BY <1>1, <2>1 DEF TokensOK, TokenOK
  <2>3. QED  BY <1>1, <2>1, <2>2, GoTypes
<1>6. CASE Stays(i) /\ ListHears(i) /\ UNCHANGED <<conf, doms>>
  <2>1. ConfTypeOK' /\ DomsOK'
    BY <1>1, <1>6 DEF ViewsOK, ConfTypeOK, DomsOK
  <2>2. QED  BY <1>1, <1>6, <2>1, ListHearsTypes, StaysTypes DEF ViewsOK
<1>7. CASE Stays(i) /\ ConfHears(i) /\ UNCHANGED <<listVars, doms>>
  <2>1. ListTypeOK' /\ DomsOK'
    BY <1>1, <1>7 DEF ViewsOK, ListTypeOK, DomsOK, listVars
  <2>2. QED  BY <1>1, <1>7, <2>1, ConfHearsTypes, StaysTypes DEF ViewsOK
<1>8. CASE Stays(i) /\ DomainHears(i) /\ UNCHANGED <<listVars, conf>>
  <2>1. ListTypeOK' /\ ConfTypeOK'
    BY <1>1, <1>8 DEF ViewsOK, ListTypeOK, ConfTypeOK, listVars
  <2>2. QED  BY <1>1, <1>8, <2>1, DomainHearsTypes, StaysTypes DEF ViewsOK
<1>9. CASE Stays(i) /\ (CleanupRan(i) \/ StatsShown(i)) /\ UNCHANGED Views
  <2>1. busy' \subseteq Spinners
    BY <1>1, <1>9, OffTypes DEF CleanupRan, StatsShown
  <2>2. QED  BY <1>1, <1>9, <2>1, SameViews, StaysTypes
<1>10. QED
  BY <1>2, <1>3, <1>4, <1>5, <1>6, <1>7, <1>8, <1>9 DEF Hear

\* The server answers, or something happens to it: the panel sees none of it yet.
LEMMA UnseenTypes ==
  ASSUME TokensOK, ViewsOK, ShellOK, Unseen, UNCHANGED <<token, busy>>
  PROVE  TokensOK' /\ ViewsOK' /\ ShellOK'
BY SameViews DEF Unseen, navVars, TokensOK, TokenOK, ShellOK

LEMMA OutsideUnseen ==
  ASSUME IInv, Served \/ Outside
  PROVE  Unseen /\ UNCHANGED <<token, busy>>
<1>1. ASSUME NEW i, NEW x, Answer(i, x) PROVE UNCHANGED <<token, busy>>
  BY <1>1 DEF Answer
<1>2. ASSUME NEW i, Fail(i) PROVE UNCHANGED <<token, busy>>
  BY <1>1, <1>2 DEF Fail
<1>3. ASSUME IInv, NEW i \in DOMAIN calls, Serve(i) PROVE UNCHANGED <<token, busy>>
  <2>1. PICK x : Answering(i, x)
    BY <1>3, Serving, Zenon
  <2>2. QED  BY <1>1, <2>1, Zenon DEF Answering
<1>4. QED  BY <1>2, <1>3 DEF Served, Outside, Certified, Elsewhere

LEMMA BoundsKeep == ASSUME IInv, [Next]_vars PROVE BoundsOK'
<1>1. BoundsOK /\ MaxActs \in Nat /\ MaxFaults \in Nat /\ MaxEdits \in Nat
  BY TypeParts, PanelAssumption, AdminApiAssumption DEF IInv
<1>2. ASSUME Act, Ours PROVE BoundsOK'
  BY <1>1, <1>2 DEF Act, Ours, BoundsOK
<1>3. ASSUME UNCHANGED acts, Ours PROVE BoundsOK'
  BY <1>1, <1>3 DEF Ours, BoundsOK
<1>4. CASE Navigate \/ Login \/ UsesList \/ UsesConfig \/ UsesOther
  BY <1>2, <1>4 DEF Navigate, Login, UsesList, UsesConfig, UsesOther
<1>5. CASE Hears
  BY <1>3, <1>5 DEF Hears, Hear
<1>6. CASE Served
  BY <1>1, <1>6 DEF Served, Serve, Unseen, BoundsOK
<1>7. CASE Outside
  BY <1>1, <1>7 DEF Outside, Unseen, Certified, Elsewhere, Fail, BoundsOK
<1>8. CASE UNCHANGED vars
  BY <1>1, <1>8 DEF vars, apiVars, BoundsOK
<1>9. QED  BY <1>4, <1>5, <1>6, <1>7, <1>8 DEF Next

-----------------------------------------------------------------------------
(* The theorems.                                                            *)

LEMMA InitInv == ASSUME Init PROVE IInv
<1>1. PICK c \in Configs, done \in BOOLEAN :
        server = [initialized |-> done, token |-> CHOOSE w \in Tokens : TRUE,
                  domains |-> {CHOOSE d \in Domains : TRUE}, config |-> c,
                  job |-> FALSE, key |-> 0, mine |-> FALSE]
  BY DEF Init
<1>2. (CHOOSE w \in Tokens : TRUE) \in Tokens /\ (CHOOSE d \in Domains : TRUE) \in Domains
  BY AdminApiAssumption
<1>3. server \in Server
  BY <1>1, <1>2, PanelAssumption DEF Server
<1>4. page \in Pages /\ calls = <<setup_status(page)>>
  BY DEF Init
<1> DEFINE z == setup_status(page)
<1>5. z \in Call /\ Aside(z)
  BY <1>3, <1>4, StatusAside
<1>6. z.do = "gate"
  BY DEF setup_status, NoCall
<1> HIDE DEF z
<1>7. calls \in Seq(Call) /\ DOMAIN calls = {1} /\ calls[1] = z
  BY <1>4, <1>5 DEF z
<1>9. list = ListBlank /\ aligned = FALSE /\ conf = ConfBlank /\ doms = DomsBlank
  BY DEF Init
<1>10. ViewsOK
  <2>1. 1 \in 1..MaxPages /\ 0 \in 0..MaxPages
    BY AdminApiAssumption
  <2>2. NoData \in [page : 0..MaxPages, search : BOOLEAN, more : BOOLEAN]
    BY <2>1 DEF NoData
  <2>3. ListTypeOK
    BY <1>9, <2>1, <2>2 DEF ListBlank, ListTypeOK
  <2>4. AnyConfig \in Config
    BY DEF AnyConfig, Config
  <2>5. ConfTypeOK
    BY <1>9, <2>4 DEF ConfBlank, ConfTypeOK
  <2>6. DomsOK
    BY <1>9 DEF DomsBlank, DomsOK
  <2>7. QED  BY <2>3, <2>5, <2>6 DEF ViewsOK
<1>11. TypeOK
  <2>1. TokensOK /\ ShellOK
    BY DEF Init, TokensOK, TokenOK, ShellOK
  <2>2. BoundsOK
    BY PanelAssumption, AdminApiAssumption DEF Init, BoundsOK
  <2>3. \A i \in DOMAIN calls : calls[i] \in Call
    BY <1>5, <1>7
  <2>4. QED
    BY <1>3, <1>10, <2>1, <2>2, <2>3 DEF TypeOK, AdminApiTypeOK, TokensOK, TokenOK, ShellOK,
       BoundsOK, ViewsOK, DomsOK
<1>12. Kinds /\ OneKey /\ KeyMade /\ Alone
  BY <1>5, <1>6, <1>7 DEF Kinds, Kind, OneKey, Keyed, KeyMade, Alone, Listing, Aside
<1>13. Vouch /\ Waits /\ Matched
  BY <1>6, <1>7, <1>9 DEF Init, Vouch, Waits, Matched
<1>14. ShownKeyWorks /\ FormKept
  BY <1>9 DEF ConfBlank, AnyConfig, ShownKeyWorks, FormKept
<1>15. QED  BY <1>11, <1>12, <1>13, <1>14 DEF IInv, CallsInv

LEMMA NextInv == ASSUME IInv, [Next]_vars PROVE IInv'
<1>1. TokensOK /\ ViewsOK /\ ShellOK /\ server \in Server
  BY TypeParts DEF IInv
<1>2. BoundsOK'
  BY BoundsKeep
<1>3. ASSUME CallsInv', FormKept', TokensOK', ViewsOK', ShellOK', server' \in Server
      PROVE  IInv'
  BY <1>2, <1>3, Typed DEF IInv, CallsInv
<1>4. ASSUME Ours PROVE server' \in Server
  BY <1>1, <1>4 DEF Ours
<1>5. ASSUME UNCHANGED conf PROVE FormKept'
  BY <1>5, ConfigTyping DEF FormKept
<1>6. CASE Navigate
  BY <1>3, <1>4, <1>6, NavigateKeeps, NavigateTypes DEF Navigate
<1>7. CASE Login
  BY <1>3, <1>4, <1>7, LoginKeeps, LoginTypes DEF Login
<1>8. CASE UsesList
  BY <1>3, <1>4, <1>5, <1>8, UsesListKeeps, UsesListTypes DEF UsesList
<1>9. CASE UsesConfig
  BY <1>3, <1>4, <1>9, UsesConfigKeeps, UsesConfigTypes DEF UsesConfig
<1>10. CASE UsesOther
  BY <1>3, <1>4, <1>5, <1>10, UsesOtherKeeps, UsesOtherTypes DEF UsesOther
<1>11. CASE Hears
  <2>1. Ours
    BY <1>11 DEF Hears, Hear
  <2>2. QED  BY <1>3, <1>4, <1>11, <2>1, HearsKeeps, HearsTypes
<1>12. CASE Served
  BY <1>1, <1>3, <1>12, ServedKeeps, OutsideUnseen, UnseenTypes
<1>13. CASE Outside
  BY <1>1, <1>3, <1>13, OutsideKeeps, OutsideUnseen, UnseenTypes
<1>14. CASE UNCHANGED vars
  <2>1. Unseen /\ UNCHANGED <<token, busy>> /\ server' \in Server
    BY <1>1, <1>14 DEF vars, apiVars, listVars, Unseen, Views, navVars
  <2>2. QED  BY <1>1, <1>3, <1>14, <2>1, StutterKeeps, UnseenTypes
<1>15. QED
  BY <1>6, <1>7, <1>8, <1>9, <1>10, <1>11, <1>12, <1>13, <1>14 DEF Next

LEMMA PanelInv == Spec => []IInv
<1>1. Init => IInv
  BY InitInv
<1>2. IInv /\ [Next]_vars => IInv'
  BY NextInv
<1>3. QED  BY <1>1, <1>2, PTL DEF Spec

\* Every state the panel, its pages, the calls in flight and the server are in is one of
\* those their types name: no handler, first request or patch leads outside of them.
THEOREM PanelTypes == Spec => []TypeOK
<1>1. IInv => TypeOK
  BY DEF IInv
<1>2. QED  BY <1>1, PanelInv, PTL

\* The login stores a token before it knows it to be right; whatever fails, overlaps or is
\* left meanwhile, once no login is in flight the token stored was verified or is none.
THEOREM PanelTokens == Spec => []OnlyVerifiedKept
<1>1. IInv => OnlyVerifiedKept
  BY DEF IInv, CallsInv, Vouch, OnlyVerifiedKept
<1>2. QED  BY <1>1, PanelInv, PTL

\* A list that was asked for when nothing else was is the page and the search that the
\* pagination, the refresh and the handlers of its rows go on from.
THEOREM PanelLists == Spec => []ListMatchesQuery
<1>1. ASSUME IInv, Lists(calls) = {}, aligned
      PROVE  list.data.page = list.page /\ list.data.search = list.search
  <2>1. \A i \in DOMAIN calls : ~Listing(calls[i])
    BY <1>1 DEF Lists, Listing
  <2>2. Matched
    BY <1>1 DEF IInv, CallsInv
  <2>3. QED  BY <1>1, <2>1, <2>2 DEF Matched
<1>2. IInv => ListMatchesQuery
  BY <1>1 DEF ListMatchesQuery
<1>3. QED  BY <1>2, PanelInv, PTL

\* The key of the integration API that the page shows, once, is the one that works, as
\* long as nobody else has made another: handleRegenerateApiKey() takes the old one away
\* and disables its button before the first await.
THEOREM PanelKeys == Spec => []ShownKeyWorks
<1>1. IInv => ShownKeyWorks
  BY DEF IInv, CallsInv
<1>2. QED  BY <1>1, PanelInv, PTL

\* The configuration is written in a step that answers a save by that save.
LEMMA SaveWrites ==
  ASSUME IInv, [Next]_vars, NEW i \in DOMAIN calls, calls[i].do = "save", calls[i].code = 0,
         calls'[i].code = 200, server.config # server'.config
  PROVE  server'.config = Patched(server.config, calls[i].patch)
<1>1. ~UNCHANGED server /\ ~UNCHANGED calls
  OBVIOUS
<1>2. CASE Served
  <2>1. PICK j \in DOMAIN calls : Serve(j)
    BY <1>2 DEF Served
  <2>2. PICK x : Answering(j, x)
    BY <2>1, Serving, Zenon
  <2>3. /\ calls' = [calls EXCEPT ![j] = x]
        /\ server'.config = Patched(server.config, calls[j].patch)
    BY <2>2 DEF Answering, Answer, ConfigWritten
  <2>4. j = i
    BY <2>3
  <2>5. QED  BY <2>3, <2>4
<1>3. CASE Outside
  BY <1>1, <1>3 DEF Outside, Certified, Elsewhere, Fail
<1>4. CASE Navigate \/ Login \/ UsesList \/ UsesConfig \/ UsesOther \/ Hears
  BY <1>1, <1>4 DEF Navigate, Login, UsesList, UsesConfig, UsesOther, Hears, Hear, Ours
<1>5. CASE UNCHANGED vars
  BY <1>1, <1>5 DEF vars, apiVars
<1>6. QED  BY <1>2, <1>3, <1>4, <1>5 DEF Next

\* What a patch that says nothing of a flag or of the hostname leaves, and what it writes.
LEMMA PatchLeaves ==
  ASSUME NEW c \in Config, NEW p \in Patch
  PROVE  /\ p.toggle = "none" => Patched(c, p).toggle = c.toggle
         /\ p.toggle = "off" => Patched(c, p).toggle = "off"
         /\ p.host = "none" => Patched(c, p).host = c.host
         /\ Patched(c, p).number = p.number
BY DEF Patched, Config, Patch

\* handleSave() sends what the form says against the configuration that was loaded: the
\* hostname and a flag that was there are not written unless they were edited, a flag
\* that was absent is written as off, and every number is written as it was loaded,
\* whatever others have saved since and however long the request was under way.
THEOREM PanelSaves == Spec => UntouchedFields
<1> DEFINE old == server.config
           new == server'.config
           Left(i) ==
             /\ SavedIn(i, "toggle") =>
                  new.toggle = IF calls[i].seen.toggle = "absent" THEN "off" ELSE old.toggle
             /\ SavedIn(i, "host") => new.host = old.host
             /\ SavedIn(i, "number") => new.number = calls[i].seen.number
<1>1. ASSUME IInv, [Next]_vars, NEW i \in DOMAIN calls PROVE Left(i)
  <2>1. /\ calls \in Seq(Call) /\ Kind(calls[i]) /\ server.config \in Config
        /\ calls[i].patch \in Patch
    BY <1>1, Typing, Admission DEF CallsInv, Kinds
  <2>2. ASSUME NEW f, SavedIn(i, f)
        PROVE  /\ new = Patched(old, calls[i].patch) /\ calls[i].do = "save"
               /\ f \notin calls[i].touched
    BY <1>1, <2>2, SaveWrites DEF SavedIn
  <2>3. /\ calls[i].patch.toggle = "none" => Patched(old, calls[i].patch).toggle = old.toggle
        /\ calls[i].patch.toggle = "off" => Patched(old, calls[i].patch).toggle = "off"
        /\ calls[i].patch.host = "none" => Patched(old, calls[i].patch).host = old.host
        /\ Patched(old, calls[i].patch).number = calls[i].patch.number
    BY <2>1, PatchLeaves
  <2>4. ASSUME SavedIn(i, "toggle")
        PROVE  new.toggle = IF calls[i].seen.toggle = "absent" THEN "off" ELSE old.toggle
    <3>1. calls[i].patch.toggle = IF calls[i].seen.toggle = "absent" THEN "off" ELSE "none"
      BY <2>1, <2>2, <2>4 DEF Kind
    <3>2. QED  BY <2>2, <2>3, <2>4, <3>1
  <2>5. ASSUME SavedIn(i, "host") PROVE new.host = old.host
    BY <2>1, <2>2, <2>3, <2>5 DEF Kind
  <2>6. ASSUME SavedIn(i, "number") PROVE new.number = calls[i].seen.number
    BY <2>1, <2>2, <2>3, <2>6 DEF Kind
  <2>7. QED  BY <2>4, <2>5, <2>6
<1> DEFINE Stay == \A i \in DOMAIN calls \intersect DOMAIN calls' : Left(i)
<1>2. IInv /\ [Next]_vars => [Stay]_vars
  BY <1>1
<1>3. UntouchedFields <=> [][Stay]_vars
  BY DEF UntouchedFields
<1> HIDE DEF Stay
<1>4. QED  BY <1>2, <1>3, PanelInv, PTL DEF Spec
=============================================================================
