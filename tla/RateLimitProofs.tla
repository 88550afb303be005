--------------------------- MODULE RateLimitProofs --------------------------
(***************************************************************************)
(* Proofs about RateLimit, for any number of keys and threads, any window,   *)
(* sweep and stall, and any limits.                                         *)
(***************************************************************************)
EXTENDS RateLimit, FiniteSetTheorems, SequenceTheorems, TLAPS

\* A set of numbers with a bound has a largest one: of the sets of what lies above a
\* member, none is strictly contained in the least.
LEMMA MaxIs ==
  ASSUME NEW n \in Nat, NEW S, S \subseteq 0..n, S # {}
  PROVE  Max(S) \in S /\ \A y \in S : Max(S) >= y
<1> DEFINE Above(x) == (x + 1)..n
           T == {Above(x) : x \in S}
<1>1. IsWellFoundedOn(StrictSubsetOrdering(0..n), FiniteSubsetsOf(0..n))
  BY FS_StrictSubsetOrderingWellFounded
<1>2. IsFiniteSet(0..n)
  BY FS_Interval
<1>3. FiniteSubsetsOf(0..n) = SUBSET (0..n)
  BY <1>2, FS_FiniteSubsetsOfFinite
<1>4. T \subseteq SUBSET (0..n) /\ T # {}
  <2>1. \A x \in S : Above(x) \in SUBSET (0..n)
    OBVIOUS
  <2> HIDE DEF Above
  <2>2. QED  BY <2>1
<1>5. PICK z \in T : \A y \in T : ~ (<<y, z>> \in StrictSubsetOrdering(0..n))
  <2> HIDE DEF T
  <2>1. T \subseteq FiniteSubsetsOf(0..n) /\ T # {}
    BY <1>3, <1>4
  <2>2. QED  BY <1>1, <2>1, WFMin
<1>6. PICK x \in S : z = Above(x)
  OBVIOUS
<1>7. \A y \in S : x >= y
  <2> SUFFICES ASSUME NEW y \in S, y > x PROVE FALSE
    OBVIOUS
  <2>1. Above(y) \in T /\ Above(y) \subseteq Above(x) /\ y \in Above(x) /\ y \notin Above(y)
    OBVIOUS
  <2>2. Above(y) \in SUBSET (0..n) /\ Above(x) \in SUBSET (0..n)
    OBVIOUS
  <2> HIDE DEF T, Above
  <2>3. <<Above(y), Above(x)>> \in StrictSubsetOrdering(0..n)
    BY <2>1, <2>2 DEF StrictSubsetOrdering
  <2>4. QED  BY <1>5, <1>6, <2>1, <2>3
<1>8. QED  BY <1>7 DEF Max

-----------------------------------------------------------------------------
(* The queue of a key and the requests admitted for it.                     *)

Entries == [at : Nat, read : Nat, limit : Limits \ {0}]

\* What pruning leaves starts at the first time inside the window.
LEMMA PrunedIs ==
  ASSUME NEW q \in Seq(Nat), NEW now \in Nat
  PROVE  \E n \in 0..Len(q) :
           /\ Pruned(q, now) \in Seq(Nat)
           /\ Len(Pruned(q, now)) = Len(q) - n
           /\ \A i \in 1..(Len(q) - n) : Pruned(q, now)[i] = q[n + i]
           /\ \A i \in 1..n : q[i] + Window <= now
           /\ n < Len(q) => q[n + 1] + Window > now
<1> DEFINE S == Outdated(q, now)
           n == Max(S)
<1>0. Len(q) \in Nat /\ (\A i \in 1..Len(q) : q[i] \in Nat) /\ Window \in Nat
  BY RateAssumption
<1>1. S \subseteq 0..Len(q) /\ 0 \in S
  BY DEF Outdated
<1>2. n \in S /\ \A y \in S : n >= y
  BY <1>0, <1>1, MaxIs
<1>3. n \in 0..Len(q) /\ \A i \in 1..n : q[i] + Window <= now
  BY <1>2 DEF Outdated
<1>4. Pruned(q, now) = SubSeq(q, n + 1, Len(q))
  BY DEF Pruned
<1> HIDE DEF n
<1>5. n < Len(q) => q[n + 1] + Window > now
  <2> SUFFICES ASSUME n < Len(q), q[n + 1] + Window <= now PROVE FALSE
    BY <1>0, <1>3
  <2>1. n + 1 \in S
    BY <1>0, <1>3 DEF Outdated
  <2>2. QED  BY <1>2, <1>3, <2>1
<1>6. \A i \in (n + 1)..Len(q) : q[i] \in Nat
  BY <1>0, <1>3
<1>7. /\ Pruned(q, now) \in Seq(Nat)
      /\ Len(Pruned(q, now)) = IF n + 1 <= Len(q) THEN Len(q) - (n + 1) + 1 ELSE 0
      /\ \A i \in 1..(Len(q) - (n + 1) + 1) : Pruned(q, now)[i] = q[n + 1 + i - 1]
  BY <1>0, <1>3, <1>4, <1>6, SubSeqProperties
<1>8. Len(Pruned(q, now)) = Len(q) - n
      /\ \A i \in 1..(Len(q) - n) : Pruned(q, now)[i] = q[n + i]
  BY <1>0, <1>3, <1>7
<1>9. QED  BY <1>3, <1>5, <1>7, <1>8

\* The queue is what the log ends with; what has left it is a window old.
Follows(q, l, c) ==
  /\ Len(q) <= Len(l)
  /\ \A i \in 1..Len(q) : q[i] = l[Len(l) - Len(q) + i].read
  /\ \A i \in 1..(Len(l) - Len(q)) : l[i].at + Window <= c + MaxStall

\* A request is counted after it has read the c, by at most a stall, and in
\* the order of the log.
Ordered(l, c) ==
  /\ \A i \in 1..Len(l) : /\ l[i].read <= l[i].at /\ l[i].at <= l[i].read + MaxStall
                          /\ l[i].at <= c
  /\ \A i, j \in 1..Len(l) : i <= j => l[i].at <= l[j].at

LEMMA PrunedFollows ==
  ASSUME NEW q \in Seq(Nat), NEW l \in Seq(Entries), NEW now \in Nat, NEW c \in Nat,
         now <= c, Follows(q, l, c), Ordered(l, c)
  PROVE  Pruned(q, now) \in Seq(Nat) /\ Follows(Pruned(q, now), l, c)
<1>0. Len(q) \in Nat /\ Len(l) \in Nat /\ (\A i \in 1..Len(l) : l[i] \in Entries)
  OBVIOUS
<1>n. Window \in Nat /\ MaxStall \in Nat /\ now \in Nat /\ c \in Nat /\ now <= c
  BY RateAssumption
<1>1. PICK n \in 0..Len(q) :
           /\ Pruned(q, now) \in Seq(Nat)
           /\ Len(Pruned(q, now)) = Len(q) - n
           /\ \A i \in 1..(Len(q) - n) : Pruned(q, now)[i] = q[n + i]
           /\ \A i \in 1..n : q[i] + Window <= now
  BY PrunedIs
<1> DEFINE p == Pruned(q, now)
<1> HIDE DEF p
<1>2. p \in Seq(Nat) /\ Len(p) = Len(q) - n /\ Len(p) <= Len(l)
  BY <1>0, <1>1 DEF p, Follows
<1>3. \A i \in 1..Len(p) : p[i] = l[Len(l) - Len(p) + i].read
  <2> TAKE i \in 1..Len(p)
  <2>1. p[i] = q[n + i] /\ n + i \in 1..Len(q)
    BY <1>0, <1>1, <1>2 DEF p
  <2>2. q[n + i] = l[Len(l) - Len(q) + (n + i)].read
    BY <2>1 DEF Follows
  <2>3. Len(l) - Len(q) + (n + i) = Len(l) - Len(p) + i
    BY <1>0, <1>2
  <2>4. QED  BY <2>1, <2>2, <2>3
<1>4. \A i \in 1..(Len(l) - Len(p)) : l[i].at + Window <= c + MaxStall
  <2> TAKE i \in 1..(Len(l) - Len(p))
  <2>1. CASE i <= Len(l) - Len(q)
    <3>1. i \in 1..(Len(l) - Len(q))
      BY <1>0, <1>2, <2>1
    <3>2. QED  BY <3>1 DEF Follows
  <2>2. CASE i > Len(l) - Len(q)
    <3> DEFINE j == i - (Len(l) - Len(q))
    <3>1. j \in 1..n /\ j \in 1..Len(q) /\ i = Len(l) - Len(q) + j /\ i \in 1..Len(l)
      BY <1>0, <1>2, <2>2
    <3> HIDE DEF j
    <3>2. q[j] = l[i].read /\ q[j] + Window <= now
      BY <1>1, <3>1 DEF Follows
    <3>3. l[i].at <= l[i].read + MaxStall /\ l[i].at \in Nat /\ l[i].read \in Nat
      BY <1>0, <3>1 DEF Ordered, Entries
    <3>4. l[i].read + Window <= now
      BY <3>2
    <3> DEFINE a == l[i].at
               r == l[i].read
    <3>5. a \in Nat /\ r \in Nat /\ a <= r + MaxStall /\ r + Window <= now
      BY <3>3, <3>4
    <3> HIDE DEF a, r
    <3>6. a + Window <= c + MaxStall
      BY <1>n, <3>5
    <3>7. QED  BY <3>6 DEF a
  <2>3. i \in Nat
    OBVIOUS
  <2>4. QED  BY <1>0, <2>1, <2>2, <2>3
<1>5. QED  BY <1>2, <1>3, <1>4 DEF p, Follows

LEMMA AppendFollows ==
  ASSUME NEW q \in Seq(Nat), NEW l \in Seq(Entries), NEW e \in Entries, NEW c \in Nat,
         Follows(q, l, c)
  PROVE  Append(q, e.read) \in Seq(Nat) /\ Follows(Append(q, e.read), Append(l, e), c)
<1>0. Len(q) \in Nat /\ Len(l) \in Nat /\ e.read \in Nat /\ Len(q) <= Len(l)
  BY DEF Entries, Follows
<1> DEFINE p == Append(q, e.read)
           m == Append(l, e)
<1>1. /\ p \in Seq(Nat) /\ Len(p) = Len(q) + 1 /\ p[Len(q) + 1] = e.read
      /\ \A i \in 1..Len(q) : p[i] = q[i]
  BY <1>0, AppendProperties
<1>2. /\ Len(m) = Len(l) + 1 /\ m[Len(l) + 1] = e
      /\ \A i \in 1..Len(l) : m[i] = l[i]
  BY AppendProperties
<1> HIDE DEF p, m
<1>3. \A i \in 1..Len(p) : p[i] = m[Len(m) - Len(p) + i].read
  <2> TAKE i \in 1..Len(p)
  <2>1. CASE i = Len(q) + 1
    <3>1. Len(m) - Len(p) + i = Len(l) + 1
      BY <1>0, <1>1, <1>2, <2>1
    <3>2. QED  BY <1>1, <1>2, <2>1, <3>1
  <2>2. CASE i \in 1..Len(q)
    <3>1. Len(m) - Len(p) + i = Len(l) - Len(q) + i /\ Len(l) - Len(q) + i \in 1..Len(l)
      BY <1>0, <1>1, <1>2, <2>2
    <3>2. QED  BY <1>1, <1>2, <2>2, <3>1 DEF Follows
  <2>3. QED  BY <1>0, <1>1, <2>1, <2>2
<1>4. \A i \in 1..(Len(m) - Len(p)) : m[i].at + Window <= c + MaxStall
  <2> TAKE i \in 1..(Len(m) - Len(p))
  <2>1. i \in 1..(Len(l) - Len(q)) /\ i \in 1..Len(l)
    BY <1>0, <1>1, <1>2
  <2>2. QED  BY <1>2, <2>1 DEF Follows
<1>5. Len(p) <= Len(m)
  BY <1>0, <1>1, <1>2
<1>6. p \in Seq(Nat) /\ Follows(p, m, c)
  BY <1>1, <1>3, <1>4, <1>5 DEF Follows
<1>7. QED  BY <1>6 DEF p, m

\* A sweep drops a queue whose last time is out of every window.
LEMMA SweptFollows ==
  ASSUME NEW q \in Seq(Nat), NEW l \in Seq(Entries), NEW now \in Nat, NEW c \in Nat,
         now <= c, Follows(q, l, c), Ordered(l, c), q # <<>>, q[Len(q)] + Idle <= now
  PROVE  Follows(<<>>, l, c)
<1>0. /\ Len(q) \in Nat /\ Len(l) \in Nat /\ Len(q) # 0
      /\ \A i \in 1..Len(l) : l[i] \in Entries
  OBVIOUS
<1>n. /\ Window \in Nat /\ MaxStall \in Nat /\ Idle \in Nat /\ Window <= Idle
      /\ now \in Nat /\ c \in Nat /\ now <= c
  BY RateAssumption
<1>1. q[Len(q)] = l[Len(l)].read /\ Len(l) \in 1..Len(l)
  BY <1>0 DEF Follows
<1>2. /\ l[Len(l)].at \in Nat /\ l[Len(l)].read \in Nat
      /\ l[Len(l)].at <= l[Len(l)].read + MaxStall
  BY <1>0, <1>1 DEF Ordered, Entries
<1>3. \A i \in 1..Len(l) : l[i].at + Window <= c + MaxStall
  <2> TAKE i \in 1..Len(l)
  <2>1. l[i].at <= l[Len(l)].at /\ l[i].at \in Nat
    BY <1>0, <1>1 DEF Ordered, Entries
  <2>2. l[Len(l)].read + Idle <= now
    BY <1>1
  <2> DEFINE a == l[i].at
             b == l[Len(l)].at
             r == l[Len(l)].read
  <2>3. a \in Nat /\ b \in Nat /\ r \in Nat /\ a <= b /\ b <= r + MaxStall /\ r + Idle <= now
    BY <1>2, <2>1, <2>2
  <2> HIDE DEF a, b, r
  <2>4. a + Window <= c + MaxStall
    BY <1>n, <2>3
  <2>5. QED  BY <2>4 DEF a
<1>4. QED  BY <1>0, <1>3 DEF Follows

LEMMA AppendOrdered ==
  ASSUME NEW l \in Seq(Entries), NEW e \in Entries, NEW c \in Nat, Ordered(l, c),
         e.at = c, e.read <= c, c <= e.read + MaxStall
  PROVE  Append(l, e) \in Seq(Entries) /\ Ordered(Append(l, e), c)
<1> DEFINE m == Append(l, e)
<1>1. /\ m \in Seq(Entries) /\ Len(m) = Len(l) + 1 /\ m[Len(l) + 1] = e
      /\ \A i \in 1..Len(l) : m[i] = l[i]
  BY AppendProperties
<1>2. Len(l) \in Nat
  OBVIOUS
<1> HIDE DEF m
<1>3. \A i \in 1..Len(m) : i \in 1..Len(l) \/ i = Len(l) + 1
  BY <1>1, <1>2
<1>4. \A i \in 1..Len(m) : /\ m[i].read <= m[i].at /\ m[i].at <= m[i].read + MaxStall
                          /\ m[i].at <= c
  BY <1>1, <1>3 DEF Ordered
<1>5. \A i, j \in 1..Len(m) : i <= j => m[i].at <= m[j].at
  <2> TAKE i, j \in 1..Len(m)
  <2>1. CASE j = Len(l) + 1
    BY <1>1, <1>4, <2>1
  <2>2. CASE j \in 1..Len(l)
    <3>1. i <= j => i \in 1..Len(l)
      BY <1>2, <2>2
    <3>2. QED  BY <1>1, <2>2, <3>1 DEF Ordered
  <2>3. QED  BY <1>3, <2>1, <2>2
<1>6. QED  BY <1>1, <1>4, <1>5 DEF m, Ordered
\* Time only makes both easier.
LEMMA LaterKept ==
  ASSUME NEW q \in Seq(Nat), NEW l \in Seq(Entries), NEW c \in Nat, NEW d \in Nat, c <= d,
         Follows(q, l, c), Ordered(l, c)
  PROVE  Follows(q, l, d) /\ Ordered(l, d)
<1>0. MaxStall \in Nat /\ Window \in Nat
  BY RateAssumption
<1>1. Len(q) \in Nat /\ Len(l) \in Nat /\ Len(q) <= Len(l)
      /\ \A i \in 1..Len(l) : l[i] \in Entries
  BY DEF Follows
<1>2. \A i \in 1..Len(l) : l[i].at \in Nat
  BY <1>1 DEF Entries
<1>3. \A i \in 1..(Len(l) - Len(q)) : l[i].at + Window <= d + MaxStall
  <2> TAKE i \in 1..(Len(l) - Len(q))
  <2> DEFINE a == l[i].at
  <2>1. i \in 1..Len(l)
    BY <1>1
  <2>2. a \in Nat /\ a + Window <= c + MaxStall
    BY <1>2, <2>1 DEF Follows
  <2> HIDE DEF a
  <2>3. a + Window <= d + MaxStall
    BY <1>0, <2>2
  <2>4. QED  BY <2>3 DEF a
<1>4. \A i \in 1..Len(l) : l[i].at <= d
  BY <1>2 DEF Ordered
<1>5. QED  BY <1>1, <1>3, <1>4 DEF Follows, Ordered

\* What WindowHonoured says of one key.
Honoured(l) ==
  \A j \in 1..Len(l) :
    LET n == l[j].limit
    IN  j > n => l[j].at + MaxStall >= l[j - n].at + Window

\* A request admitted because its queue is short of its limit comes a window after
\* the one so many places earlier: that one has left the queue.
LEMMA AppendHonoured ==
  ASSUME NEW q \in Seq(Nat), NEW l \in Seq(Entries), NEW e \in Entries, NEW c \in Nat,
         Follows(q, l, c), Honoured(l), e.at = c, Len(q) < e.limit
  PROVE  Honoured(Append(l, e))
<1>0. /\ Len(q) \in Nat /\ Len(l) \in Nat /\ Len(q) <= Len(l)
      /\ \A i \in 1..Len(l) : l[i] \in Entries
  BY DEF Follows
<1>n. /\ e.limit \in Nat /\ e.limit # 0 /\ Window \in Nat /\ MaxStall \in Nat
      /\ \A i \in 1..Len(l) : l[i].limit \in Nat /\ l[i].limit # 0 /\ l[i].at \in Nat
  BY <1>0, RateAssumption DEF Entries
<1> DEFINE m == Append(l, e)
<1>1. Len(m) = Len(l) + 1 /\ m[Len(l) + 1] = e /\ \A i \in 1..Len(l) : m[i] = l[i]
  BY AppendProperties
<1> HIDE DEF m
<1> SUFFICES ASSUME NEW j \in 1..Len(m), j > m[j].limit
             PROVE  m[j].at + MaxStall >= m[j - m[j].limit].at + Window
  BY DEF Honoured, m
<1>2. CASE j = Len(l) + 1
  <2> DEFINE i == j - e.limit
  <2>1. m[j] = e /\ i \in 1..(Len(l) - Len(q)) /\ i \in 1..Len(l)
    BY <1>0, <1>n, <1>1, <1>2
  <2> HIDE DEF i
  <2>2. l[i].at + Window <= c + MaxStall /\ m[i] = l[i]
    BY <1>1, <2>1 DEF Follows
  <2>3. m[j - m[j].limit] = l[i] /\ l[i].at \in Nat
    BY <1>n, <2>1, <2>2 DEF i
  <2> DEFINE a == l[i].at
  <2>4. a \in Nat /\ a + Window <= c + MaxStall
    BY <2>2, <2>3
  <2> HIDE DEF a
  <2>5. c + MaxStall >= a + Window
    BY <1>n, <2>4
  <2>6. QED  BY <2>1, <2>3, <2>5 DEF a
<1>3. CASE j \in 1..Len(l)
  <2>1. m[j] = l[j] /\ j - l[j].limit \in 1..Len(l)
    BY <1>0, <1>n, <1>1, <1>3
  <2>2. m[j - l[j].limit] = l[j - l[j].limit]
    BY <1>1, <2>1
  <2>3. QED  BY <1>3, <2>1, <2>2 DEF Honoured
<1>4. QED  BY <1>0, <1>1, <1>2, <1>3

\* A queue that is full has its first time inside the window, and the request so many
\* places from the end of the log was counted no earlier than that.
LEMMA FullRecent ==
  ASSUME NEW q \in Seq(Nat), NEW l \in Seq(Entries), NEW now \in Nat, NEW c \in Nat,
         NEW n \in Nat, n # 0, now <= c, c <= now + MaxStall,
         Follows(q, l, c), Ordered(l, c), Len(Pruned(q, now)) >= n
  PROVE  Len(l) >= n /\ l[Len(l) + 1 - n].at + Window + MaxStall > c
<1>0. Len(q) \in Nat /\ Len(l) \in Nat /\ Window \in Nat /\ MaxStall \in Nat
      /\ Len(q) <= Len(l)
  BY RateAssumption DEF Follows
<1>1. PICK k \in 0..Len(q) : /\ Len(Pruned(q, now)) = Len(q) - k
                             /\ k < Len(q) => q[k + 1] + Window > now
  BY PrunedIs
<1> DEFINE f == Len(l) - Len(q) + (k + 1)
           g == Len(l) + 1 - n
<1>2. k + 1 \in 1..Len(q) /\ q[k + 1] + Window > now /\ Len(l) >= n
  BY <1>0, <1>1
<1>3. f \in 1..Len(l) /\ g \in 1..Len(l) /\ f <= g
  <2>1. k \in Nat /\ k + 1 <= Len(q) /\ Len(q) - k >= n
    BY <1>0, <1>1, <1>2
  <2>2. f >= 1 /\ f <= Len(l) /\ f \in Int
    BY <1>0, <2>1
  <2>3. g >= 1 /\ g <= Len(l) /\ g \in Int
    BY <1>0, <1>2
  <2>4. f <= g
    BY <1>0, <2>1
  <2>5. QED  BY <1>0, <2>2, <2>3, <2>4
<1>4. q[k + 1] = l[f].read
  BY <1>2 DEF Follows
<1> HIDE DEF f, g
<1>e. l[f] \in Entries /\ l[g] \in Entries
  BY <1>3
<1>5. l[f].read <= l[f].at /\ l[f].at <= l[g].at
      /\ l[f].read \in Nat /\ l[f].at \in Nat /\ l[g].at \in Nat
  BY <1>3, <1>e DEF Ordered, Entries
<1> DEFINE a == l[g].at
           r == l[f].read
<1>6. r \in Nat /\ a \in Nat /\ r <= a /\ r + Window > now
  <2>1. r <= l[f].at /\ l[f].at <= a /\ r \in Nat /\ a \in Nat /\ l[f].at \in Nat
    BY <1>5
  <2>2. q[k + 1] = r
    BY <1>4
  <2>3. r + Window > now
    BY <1>2, <2>2
  <2> HIDE DEF a, r
  <2>4. r <= a
    BY <2>1
  <2>5. QED  BY <2>1, <2>3, <2>4
<1> HIDE DEF a, r
<1>7. a + Window + MaxStall > c
  BY <1>0, <1>6
<1>8. QED  BY <1>2, <1>7 DEF a, g

-----------------------------------------------------------------------------
(* The invariant.                                                           *)

\* A thread waits for the lock at most a stall.
Ages ==
  \A t \in Threads : thread[t].pc = "ask" =>
    thread[t].read <= clock /\ clock <= thread[t].read + MaxStall

Kept == \A k \in Keys : Ordered(log[k], clock) /\ Follows(windows[k], log[k], clock)

Inv == TypeOK /\ Ages /\ Kept /\ WindowHonoured

LEMMA HonouredIs == WindowHonoured <=> \A k \in Keys : Honoured(log[k])
BY DEF WindowHonoured, Honoured

LEMMA LogIs == ASSUME TypeOK PROVE log \in [Keys -> Seq(Entries)]
BY DEF TypeOK, Entries

LEMMA InitInv == Init => Inv
<1> SUFFICES ASSUME Init PROVE Inv
  OBVIOUS
<1>1. TypeOK
  <2>1. windows \in [Keys -> Seq(Nat)]
    BY DEF Init
  <2>2. log \in [Keys -> Seq([at : Nat, read : Nat, limit : Limits \ {0}])]
    BY DEF Init
  <2>3. thread \in [Threads -> Asking \union {Idling}]
    BY DEF Init
  <2>4. clock \in Nat
    BY RateAssumption DEF Init
  <2>5. QED  BY <2>1, <2>2, <2>3, <2>4 DEF TypeOK, Init
<1>2. Ages
  BY DEF Ages, Init, Idling
<1>3. Kept
  BY DEF Kept, Init, Ordered, Follows
<1>4. WindowHonoured
  BY DEF WindowHonoured, Init
<1>5. QED  BY <1>1, <1>2, <1>3, <1>4 DEF Inv

\* What a thread knows when it decides.
LEMMA AskingIs ==
  ASSUME Inv, NEW t \in Threads, thread[t].pc = "ask"
  PROVE  /\ thread[t] \in Asking /\ thread[t].key \in Keys
         /\ thread[t].read \in Nat /\ thread[t].limit \in Limits \ {0}
         /\ thread[t].limit \in Nat /\ thread[t].limit # 0
         /\ thread[t].read <= clock /\ clock <= thread[t].read + MaxStall
<1>1. thread[t] \in Asking
  BY DEF Inv, TypeOK, Idling
<1>2. thread[t].read <= clock /\ clock <= thread[t].read + MaxStall
  BY DEF Inv, Ages
<1>3. QED  BY <1>1, <1>2, RateAssumption DEF Asking

\* Pruning the queue of one key, as every decision does, loses nothing.
LEMMA PrunedKept ==
  ASSUME Inv, NEW t \in Threads, thread[t].pc = "ask"
  PROVE  LET r == thread[t]
             q == Pruned(windows[r.key], r.read)
         IN  q \in Seq(Nat) /\ Follows(q, log[r.key], clock)
<1> DEFINE r == thread[t]
<1>1. r.key \in Keys /\ r.read \in Nat /\ r.read <= clock
  BY AskingIs
<1>2. windows[r.key] \in Seq(Nat) /\ log[r.key] \in Seq(Entries) /\ clock \in Nat
  BY <1>1, LogIs DEF Inv, TypeOK
<1>3. Ordered(log[r.key], clock) /\ Follows(windows[r.key], log[r.key], clock)
  BY <1>1 DEF Inv, Kept
<1> HIDE DEF r
<1>4. Pruned(windows[r.key], r.read) \in Seq(Nat)
      /\ Follows(Pruned(windows[r.key], r.read), log[r.key], clock)
  BY <1>1, <1>2, <1>3, PrunedFollows
<1>5. QED  BY <1>4 DEF r
\* A sweep leaves every queue alone or drops one that nobody would count any more.
LEMMA SweepKept ==
  ASSUME NEW ws \in [Keys -> Seq(Nat)], NEW ml \in [Keys -> Seq(Entries)], NEW now \in Nat,
         clock \in Nat, lastSweep \in Nat, now <= clock, Sweep(ws, now),
         \A k \in Keys : Ordered(ml[k], clock) /\ Follows(ws[k], ml[k], clock)
  PROVE  /\ windows' \in [Keys -> Seq(Nat)] /\ lastSweep' \in Nat
         /\ \A k \in Keys : Follows(windows'[k], ml[k], clock)
<1>1. CASE now < lastSweep + SweepEvery
  BY <1>1 DEF Sweep
<1>2. CASE ~(now < lastSweep + SweepEvery)
  <2> DEFINE Drop(k) == /\ Cardinality(Tracked(ws)) >= SweepMin
                        /\ ws[k] # <<>> /\ ws[k][Len(ws[k])] + Idle <= now
  <2>1. lastSweep' = now /\ windows' = [k \in Keys |-> IF Drop(k) THEN <<>> ELSE ws[k]]
    BY <1>2 DEF Sweep
  <2>2. \A k \in Keys : Drop(k) => Follows(<<>>, ml[k], clock)
    <3> TAKE k \in Keys
    <3> HAVE Drop(k)
    <3>1. ws[k] \in Seq(Nat) /\ ml[k] \in Seq(Entries)
      OBVIOUS
    <3>2. QED  BY <3>1, SweptFollows
  <2>3. \A k \in Keys : (IF Drop(k) THEN <<>> ELSE ws[k]) \in Seq(Nat)
    OBVIOUS
  <2> HIDE DEF Drop
  <2>4. QED  BY <2>1, <2>2, <2>3
<1>3. QED  BY <1>1, <1>2

LEMMA AskInv ==
  ASSUME Inv, NEW t \in Threads, NEW k \in Keys, Ask(t, k)
  PROVE  Inv'
<1>1. /\ limit \in Limits /\ limit # 0 /\ clock \in Nat
      /\ thread' = [thread EXCEPT ![t] =
           [pc |-> "ask", key |-> k, limit |-> limit, read |-> clock]]
  BY RateAssumption DEF Ask, Inv, TypeOK
<1>2. [pc |-> "ask", key |-> k, limit |-> limit, read |-> clock] \in Asking
  BY <1>1 DEF Asking
<1>3. TypeOK'
  BY <1>1, <1>2 DEF Ask, Inv, TypeOK
<1>4. Ages'
  <2> SUFFICES ASSUME NEW u \in Threads, thread'[u].pc = "ask"
               PROVE  thread'[u].read <= clock' /\ clock' <= thread'[u].read + MaxStall
    BY DEF Ages
  <2>1. clock' = clock
    BY DEF Ask
  <2>2. CASE u = t
    BY <1>1, <2>1, <2>2, RateAssumption DEF Inv, TypeOK
  <2>3. CASE u # t
    BY <1>1, <2>1, <2>3 DEF Inv, TypeOK, Ages
  <2>4. QED  BY <2>2, <2>3
<1>5. Kept'
  BY DEF Ask, Inv, Kept
<1>6. WindowHonoured'
  BY DEF Ask, Inv, WindowHonoured
<1>7. QED  BY <1>3, <1>4, <1>5, <1>6 DEF Inv

LEMMA ConfigureInv == Inv /\ Configure => Inv'
<1> SUFFICES ASSUME Inv, Configure PROVE Inv'
  OBVIOUS
<1>1. TypeOK'
  BY DEF Configure, Inv, TypeOK
<1>2. Ages' /\ Kept' /\ WindowHonoured'
  BY DEF Configure, Inv, Ages, Kept, WindowHonoured
<1>3. QED  BY <1>1, <1>2 DEF Inv

LEMMA TickInv == Inv /\ Tick => Inv'
<1> SUFFICES ASSUME Inv, Tick PROVE Inv'
  OBVIOUS
<1>0. clock \in Nat /\ clock' = clock + 1 /\ clock' \in Nat /\ UNCHANGED <<windows, log, thread>>
  BY DEF Tick, Inv, TypeOK
<1>1. TypeOK'
  BY <1>0 DEF Tick, Inv, TypeOK
<1>2. Ages'
  <2> SUFFICES ASSUME NEW u \in Threads, thread[u].pc = "ask"
               PROVE  thread[u].read <= clock' /\ clock' <= thread[u].read + MaxStall
    BY <1>0 DEF Ages
  <2>1. clock < thread[u].read + MaxStall
    BY DEF Tick
  <2>2. thread[u].read \in Nat /\ thread[u].read <= clock
    BY AskingIs
  <2>3. QED  BY <1>0, <2>1, <2>2, RateAssumption
<1>3. Kept'
  <2> SUFFICES ASSUME NEW k \in Keys
               PROVE  Ordered(log[k], clock + 1) /\ Follows(windows[k], log[k], clock + 1)
    BY <1>0 DEF Kept
  <2>1. windows[k] \in Seq(Nat) /\ log[k] \in Seq(Entries)
    BY LogIs DEF Inv, TypeOK
  <2>2. Ordered(log[k], clock) /\ Follows(windows[k], log[k], clock)
    BY DEF Inv, Kept
  <2>3. clock + 1 \in Nat /\ clock <= clock + 1
    BY <1>0
  <2>4. QED  BY <1>0, <2>1, <2>2, <2>3, LaterKept
<1>4. WindowHonoured'
  BY <1>0 DEF Inv, WindowHonoured
<1>5. QED  BY <1>1, <1>2, <1>3, <1>4 DEF Inv

\* The two answers change the queues and the log; the thread is idle again.
LEMMA DecideInv ==
  ASSUME Inv, NEW t \in Threads, Decide(t)
  PROVE  Inv'
<1> DEFINE r == thread[t]
           q == Pruned(windows[r.key], r.read)
           e == Entry(r)
<1>0. thread[t].pc = "ask"
  BY DEF Decide
<1>1. /\ r \in Asking /\ r.key \in Keys /\ r.read \in Nat /\ r.limit \in Limits \ {0}
      /\ r.limit \in Nat /\ r.read <= clock /\ clock <= r.read + MaxStall
  BY <1>0, AskingIs
<1>2. q \in Seq(Nat) /\ Follows(q, log[r.key], clock)
  BY <1>0, PrunedKept
<1>3. /\ clock \in Nat /\ lastSweep \in Nat /\ limit \in Limits
      /\ windows \in [Keys -> Seq(Nat)] /\ log \in [Keys -> Seq(Entries)]
      /\ thread \in [Threads -> Asking \union {Idling}]
      /\ \A k \in Keys : Ordered(log[k], clock) /\ Follows(windows[k], log[k], clock)
      /\ \A k \in Keys : Honoured(log[k])
  BY LogIs, HonouredIs DEF Inv, TypeOK, Kept
<1>4. /\ Admit(r, q) \/ Refuse(r, q)
      /\ thread' = [thread EXCEPT ![t] = Idling] /\ clock' = clock /\ limit' = limit
  BY DEF Decide
<1>5. e \in Entries /\ e.at = clock /\ e.read = r.read /\ e.limit = r.limit
  BY <1>1, <1>3 DEF Entry, Entries
<1> HIDE DEF r, q, e
<1>6. /\ windows' \in [Keys -> Seq(Nat)] /\ log' \in [Keys -> Seq(Entries)] /\ lastSweep' \in Nat
      /\ \A k \in Keys : Ordered(log'[k], clock) /\ Follows(windows'[k], log'[k], clock)
      /\ \A k \in Keys : Honoured(log'[k])
  <2>1. CASE Refuse(r, q)
    BY <1>1, <1>2, <1>3, <2>1 DEF Refuse
  <2>2. CASE Admit(r, q)
    <3> DEFINE ws == [windows EXCEPT ![r.key] = Append(q, r.read)]
               ml == [log EXCEPT ![r.key] = Append(@, e)]
    <3>1. Len(q) < r.limit /\ Sweep(ws, r.read) /\ log' = ml
      BY <2>2 DEF Admit, e
    <3>2. Append(q, r.read) \in Seq(Nat)
          /\ Follows(Append(q, r.read), Append(log[r.key], e), clock)
      BY <1>1, <1>2, <1>3, <1>5, AppendFollows
    <3>3. Append(log[r.key], e) \in Seq(Entries) /\ Ordered(Append(log[r.key], e), clock)
      BY <1>1, <1>3, <1>5, AppendOrdered
    <3>4. Honoured(Append(log[r.key], e))
      BY <1>1, <1>2, <1>3, <1>5, <3>1, AppendHonoured
    <3>5. ws \in [Keys -> Seq(Nat)] /\ ml \in [Keys -> Seq(Entries)]
      BY <1>1, <1>3, <3>2, <3>3
    <3>6. \A k \in Keys : /\ Ordered(ml[k], clock) /\ Follows(ws[k], ml[k], clock)
                          /\ Honoured(ml[k])
      BY <1>1, <1>3, <3>2, <3>3, <3>4
    <3> HIDE DEF ws, ml
    <3>7. /\ windows' \in [Keys -> Seq(Nat)] /\ lastSweep' \in Nat
          /\ \A k \in Keys : Follows(windows'[k], ml[k], clock)
      BY <1>1, <1>3, <3>1, <3>5, <3>6, SweepKept
    <3>8. QED  BY <3>1, <3>5, <3>6, <3>7
  <2>3. QED  BY <1>4, <2>1, <2>2
<1>7. TypeOK'
  BY <1>3, <1>4, <1>6 DEF TypeOK, Entries
<1>8. Ages'
  BY <1>3, <1>4 DEF Ages, Idling, Inv
<1>9. Kept'
  BY <1>4, <1>6 DEF Kept
<1>10. WindowHonoured'
  BY <1>6 DEF WindowHonoured, Honoured
<1>11. QED  BY <1>7, <1>8, <1>9, <1>10 DEF Inv

LEMMA StepInv == Inv /\ [Next]_vars => Inv'
<1> SUFFICES ASSUME Inv, [Next]_vars PROVE Inv'
  OBVIOUS
<1>1. ASSUME NEW t \in Threads, NEW k \in Keys, Ask(t, k) PROVE Inv'
  BY <1>1, AskInv
<1>2. ASSUME NEW t \in Threads, Decide(t) PROVE Inv'
  BY <1>2, DecideInv
<1>3. CASE Configure
  BY <1>3, ConfigureInv
<1>4. CASE Tick
  BY <1>4, TickInv
<1>5. CASE UNCHANGED vars
  BY <1>5 DEF vars, Inv, TypeOK, Ages, Kept, WindowHonoured
<1>6. QED  BY <1>1, <1>2, <1>3, <1>4, <1>5 DEF Next

\* The windows, the log and what the threads have read keep their types.
THEOREM TypeCorrect == Spec => []TypeOK
<1>1. Inv => TypeOK
  BY DEF Inv
<1>2. QED  BY <1>1, InitInv, StepInv, PTL DEF Spec

\* However many threads count in whatever order, limit + 1 admitted requests span a
\* window less a stall: the budget of _is_allowed holds although the time is read
\* before the lock.
THEOREM BudgetHolds == Spec => []WindowHonoured
<1>1. Inv => WindowHonoured
  BY DEF Inv
<1>2. QED  BY <1>1, InitInv, StepInv, PTL DEF Spec

\* A 429 is given only if the budget of the key was used up within the window before
\* it, give or take a stall: no queue keeps requests it should have forgotten.
THEOREM RefusalIsDeserved == Spec => RefusedWhenFull
<1> DEFINE Deserved(t) ==
      LET r == thread[t]
          n == Len(log[r.key])
      IN  n >= r.limit /\ log[r.key][n + 1 - r.limit].at + Window + MaxStall > clock
<1>1. ASSUME Inv, NEW t \in Threads, thread[t].pc = "ask", Decide(t), log' = log
      PROVE  Deserved(t)
  <2> DEFINE r == thread[t]
             q == windows[r.key]
             l == log[r.key]
  <2>1. /\ r.key \in Keys /\ r.read \in Nat /\ r.limit \in Nat /\ r.limit # 0
        /\ r.read <= clock /\ clock <= r.read + MaxStall
    BY <1>1, AskingIs
  <2>2. q \in Seq(Nat) /\ l \in Seq(Entries) /\ clock \in Nat
        /\ log \in [Keys -> Seq(Entries)]
        /\ Ordered(l, clock) /\ Follows(q, l, clock)
    BY <1>1, <2>1, LogIs DEF Inv, TypeOK, Kept
  <2>3. Admit(r, Pruned(q, r.read)) \/ Refuse(r, Pruned(q, r.read))
    BY <1>1 DEF Decide
  <2>4. ~ Admit(r, Pruned(q, r.read))
    <3> SUFFICES ASSUME Admit(r, Pruned(q, r.read)) PROVE FALSE
      OBVIOUS
    <3>1. log[r.key] = Append(l, Entry(r))
      BY <1>1, <2>1, <2>2 DEF Admit
    <3>2. Len(Append(l, Entry(r))) = Len(l) + 1
      BY <2>2, AppendProperties
    <3>3. Len(l) \in Nat
      BY <2>2
    <3>4. QED  BY <3>1, <3>2, <3>3
  <2>5. Len(Pruned(q, r.read)) >= r.limit
    BY <2>3, <2>4 DEF Refuse
  <2> HIDE DEF q
  <2>6. Len(l) >= r.limit /\ l[Len(l) + 1 - r.limit].at + Window + MaxStall > clock
    BY <2>1, <2>2, <2>5, FullRecent
  <2>7. QED  BY <2>6
<1>2. ASSUME Inv, [Next]_vars, NEW t \in Threads, thread[t].pc = "ask", thread'[t].pc = "idle"
      PROVE  Decide(t)
  <2>0. thread \in [Threads -> Asking \union {Idling}]
    BY <1>2 DEF Inv, TypeOK
  <2>1. ASSUME NEW u \in Threads, NEW k \in Keys, Ask(u, k) PROVE FALSE
    BY <1>2, <2>0, <2>1 DEF Ask
  <2>2. ASSUME NEW u \in Threads, Decide(u), u # t PROVE FALSE
    BY <1>2, <2>0, <2>2 DEF Decide
  <2>3. ASSUME UNCHANGED thread PROVE FALSE
    BY <1>2, <2>3
  <2>4. QED  BY <1>2, <2>1, <2>2, <2>3 DEF Next, Configure, Tick, vars
<1>3. Inv /\ [Next]_vars =>
        [\A t \in Threads :
           thread[t].pc = "ask" /\ thread'[t].pc = "idle" /\ log' = log => Deserved(t)]_vars
  BY <1>1, <1>2
<1>4. QED  BY <1>3, InitInv, StepInv, PTL DEF Spec, RefusedWhenFull
=============================================================================
