------------------------------ MODULE RateLimit -----------------------------
(***************************************************************************)
(* The sliding windows of the api (api/app/rate_limit.py).  The dependency  *)
(* runs in the threads of a pool: it reads the limit in force and the clock, *)
(* and only then waits for the lock under which it counts.  So requests are  *)
(* counted in another order than their times say.                           *)
(***************************************************************************)
EXTENDS Naturals, Sequences, FiniteSets, FiniteSetsExt

CONSTANTS
  Keys,           \* "<scope>:<ip>" of one scope
  Threads,        \* threads a request may run in
  Limits,         \* values the setting of the scope takes; 0 switches it off
  Window,         \* window_seconds, in ticks
  Idle,           \* the age after which a sweep drops a key: 3600 seconds
  SweepMin,       \* _SWEEP_MIN_KEYS
  SweepEvery,     \* _SWEEP_INTERVAL_SECONDS
  MaxStall,       \* how long a thread may wait between the clock and the lock
  MaxNow,         \* bound: ticks
  MaxAdmitted     \* bound: no request is made once so many were admitted

ASSUME RateAssumption ==
  /\ Limits \subseteq Nat
  /\ {Window, Idle, SweepMin, SweepEvery, MaxStall, MaxNow, MaxAdmitted}
       \subseteq Nat
  /\ Window <= Idle

VARIABLES
  clock,
  limit,          \* settings.RL_*, changed from the admin panel
  windows,        \* _WINDOWS; a key that is absent has the empty one
  lastSweep,      \* _LAST_SWEEP
  thread,         \* what each thread has read before it takes the lock
  log             \* history: the requests admitted, by key, in that order

vars == <<clock, limit, windows, lastSweep, thread, log>>

Idling == [pc |-> "idle"]
Asking == [pc : {"ask"}, key : Keys, limit : Limits \ {0}, read : Nat]

\* A thread waits for the lock with a limit that is in force, never with 0.
TypeOK ==
  /\ clock \in Nat
  /\ limit \in Limits
  /\ windows \in [Keys -> Seq(Nat)]
  /\ lastSweep \in Nat
  /\ thread \in [Threads -> Asking \union {Idling}]
  /\ log \in [Keys -> Seq([at : Nat, read : Nat, limit : Limits \ {0}])]

Init ==
  /\ clock \in 0..SweepEvery
  /\ limit \in Limits
  /\ windows = [k \in Keys |-> <<>>]
  /\ lastSweep = 0
  /\ thread = [t \in Threads |-> Idling]
  /\ log = [k \in Keys |-> <<>>]

-----------------------------------------------------------------------------
\* Mutant of Pruned: `if` for `while`.
PrunedOnce(q, now) ==
  IF q # <<>> /\ Head(q) + Window <= now THEN Tail(q) ELSE q

\* The leading times that are out of the window at `now`.
Outdated(q, now) == {n \in 0..Len(q) : \A i \in 1..n : q[i] + Window <= now}

\* `while q and now - q[0] >= window_seconds`: it stops at the first one inside,
\* although older ones may have been appended after it.
Pruned(q, now) == SubSeq(q, Max(Outdated(q, now)) + 1, Len(q))

Tracked(ws) == {k \in Keys : ws[k] # <<>>}

\* _sweep_locked: the newest time of a key is the last one appended.
Sweep(ws, now) ==
  IF now < lastSweep + SweepEvery
  THEN windows' = ws /\ UNCHANGED lastSweep
  ELSE /\ lastSweep' = now
       /\ windows' = [k \in Keys |->
            IF /\ Cardinality(Tracked(ws)) >= SweepMin
               /\ ws[k] # <<>> /\ ws[k][Len(ws[k])] + Idle <= now
            THEN <<>> ELSE ws[k]]

-----------------------------------------------------------------------------
Admitted == MapThenSumSet(LAMBDA k : Len(log[k]), Keys)

\* The dependency up to the lock.  With a limit of 0 the request passes and
\* leaves no trace.
Ask(t, k) ==
  /\ thread[t] = Idling
  /\ limit > 0
  /\ Admitted < MaxAdmitted
  /\ thread' = [thread EXCEPT ![t] =
       [pc |-> "ask", key |-> k, limit |-> limit, read |-> clock]]
  /\ UNCHANGED <<clock, limit, windows, lastSweep, log>>

Entry(r) == [at |-> clock, read |-> r.read, limit |-> r.limit]

\* Mutant of Admit: one more than the limit.
AdmitMore(r, q) ==
  /\ Len(q) <= r.limit
  /\ Sweep([windows EXCEPT ![r.key] = Append(q, r.read)], r.read)
  /\ log' = [log EXCEPT ![r.key] = Append(@, Entry(r))]

Admit(r, q) ==
  /\ Len(q) < r.limit
  /\ Sweep([windows EXCEPT ![r.key] = Append(q, r.read)], r.read)
  /\ log' = [log EXCEPT ![r.key] = Append(@, Entry(r))]

\* 429
Refuse(r, q) ==
  /\ Len(q) >= r.limit
  /\ windows' = [windows EXCEPT ![r.key] = q]
  /\ UNCHANGED <<lastSweep, log>>

\* _is_allowed under the lock.
Decide(t) ==
  /\ thread[t].pc = "ask"
  /\ LET r == thread[t]
         q == Pruned(windows[r.key], r.read)
     IN  Admit(r, q) \/ Refuse(r, q)
  /\ thread' = [thread EXCEPT ![t] = Idling]
  /\ UNCHANGED <<clock, limit>>

\* The administrator saves another limit; the next request reads it.
Configure ==
  /\ limit' \in Limits \ {limit}
  /\ UNCHANGED <<clock, windows, lastSweep, thread, log>>

Tick ==
  /\ clock < MaxNow
  /\ \A t \in Threads : thread[t].pc = "ask" => clock < thread[t].read + MaxStall
  /\ clock' = clock + 1
  /\ UNCHANGED <<limit, windows, lastSweep, thread, log>>

Next ==
  \/ \E t \in Threads, k \in Keys : Ask(t, k)
  \/ \E t \in Threads : Decide(t)
  \/ Configure
  \/ Tick

Spec == Init /\ [][Next]_vars

-----------------------------------------------------------------------------
\* Of limit + 1 requests that are admitted in a row, with the limit the last of
\* them was judged by, the first and the last are a window apart, less what a thread
\* may stall: whatever order the times are appended and popped in, whatever a
\* sweep drops, and however the setting changes meanwhile.
WindowHonoured ==
  \A k \in Keys : \A j \in 1..Len(log[k]) :
    LET n == log[k][j].limit
    IN  j > n => log[k][j].at + MaxStall >= log[k][j - n].at + Window

\* Nobody waits longer than that for nothing: a request is refused only if as many
\* as its limit have been admitted since a window ago, give or take a stall.
RefusedWhenFull ==
  [][\A t \in Threads :
       thread[t].pc = "ask" /\ thread'[t].pc = "idle" /\ log' = log =>
         LET r == thread[t]
             n == Len(log[r.key])
         IN  n >= r.limit /\ log[r.key][n + 1 - r.limit].at + Window + MaxStall > clock]_vars
=============================================================================
