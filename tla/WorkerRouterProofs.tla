-------------------------- MODULE WorkerRouterProofs --------------------------
(***************************************************************************)
(* Theorems about the worker router, for any repositories and bounds.      *)
(***************************************************************************)
EXTENDS WorkerRouter, SequenceTheorems, TLAPS

-----------------------------------------------------------------------------
(* A message asks for a refresh of r; a queue holds such a message.        *)
Asks(m, r) == m.op \in Refreshing /\ m.repo = r

Holds(q, r) == \E i \in DOMAIN q : Asks(q[i], r)

(* It holds at most one, which is what refresh f of r asked for; none if f *)
(* is not being asked for.                                                 *)
Fits(q, r, f) ==
  /\ \A i, j \in DOMAIN q : Asks(q[i], r) /\ Asks(q[j], r) => i = j
  /\ \A i \in DOMAIN q : Asks(q[i], r) => q[i].op = f.at /\ q[i].paths = f.paths

Asking(f) == f.at \in Refreshing

(* A refresh that is not being asked for has no message out. *)
LEMMA NotAsking ==
  ASSUME NEW q, NEW r, NEW f, ~Asking(f)
  PROVE  Fits(q, r, f) <=> ~Holds(q, r)
BY DEF Fits, Holds, Asks, Asking

(* Appending a message adds it and nothing else. *)
LEMMA QueueAppend ==
  ASSUME NEW S, NEW q \in Seq(S), NEW m \in S, NEW r, NEW f, Fits(q, r, f),
         Asks(m, r) => ~Holds(q, r) /\ m.op = f.at /\ m.paths = f.paths
  PROVE  /\ Fits(Append(q, m), r, f)
         /\ Holds(Append(q, m), r) <=> (Holds(q, r) \/ Asks(m, r))
<1> DEFINE a == Append(q, m)
<1>1. /\ DOMAIN a = 1..(Len(q) + 1) /\ DOMAIN q = 1..Len(q) /\ Len(q) \in Nat
      /\ a[Len(q) + 1] = m
      /\ \A i \in 1..Len(q) : a[i] = q[i]
  OBVIOUS
<1> HIDE DEF a
<1>2. \A i \in DOMAIN a : (i \in DOMAIN q /\ a[i] = q[i]) \/ (i = Len(q) + 1 /\ a[i] = m)
  BY <1>1
<1>3. \A i \in DOMAIN q : i \in DOMAIN a /\ a[i] = q[i]
  BY <1>1
<1>4. Len(q) + 1 \in DOMAIN a /\ a[Len(q) + 1] = m
  BY <1>1
<1>5. Holds(a, r) <=> (Holds(q, r) \/ Asks(m, r))
  BY <1>2, <1>3, <1>4 DEF Holds
<1>6. Fits(a, r, f)
  BY <1>2 DEF Fits, Holds
<1> QED BY <1>5, <1>6 DEF a

(* Taking the first message leaves the others. *)
LEMMA QueueTail ==
  ASSUME NEW S, NEW q \in Seq(S), q # <<>>, NEW r, NEW f, Fits(q, r, f)
  PROVE  /\ Tail(q) \in Seq(S) /\ q[1] \in S
         /\ Fits(Tail(q), r, f)
         /\ Asks(q[1], r) => Holds(q, r) /\ ~Holds(Tail(q), r) /\ q[1].op = f.at /\ q[1].paths = f.paths
         /\ ~Asks(q[1], r) => (Holds(Tail(q), r) <=> Holds(q, r))
<1> DEFINE t == Tail(q)
<1>1. /\ t \in Seq(S) /\ Len(q) \in Nat /\ Len(q) > 0 /\ DOMAIN q = 1..Len(q)
      /\ DOMAIN t = 1..(Len(q) - 1)
      /\ \A i \in 1..(Len(q) - 1) : t[i] = q[i + 1]
      /\ q[1] \in S
  OBVIOUS
<1> HIDE DEF t
<1>2. \A i \in DOMAIN t : i \in Int /\ i + 1 \in DOMAIN q /\ i + 1 # 1 /\ t[i] = q[i + 1]
  BY <1>1
<1>3. \A i \in DOMAIN q : i \in Int /\ (i = 1 \/ (i - 1 \in DOMAIN t /\ t[i - 1] = q[i]))
  BY <1>1, <1>2
<1>4. 1 \in DOMAIN q
  BY <1>1
<1>5. \A i, j \in DOMAIN t : i + 1 = j + 1 => i = j
  BY <1>2
<1>6. Fits(t, r, f)
  BY <1>2, <1>5 DEF Fits
<1>7. Asks(q[1], r) => Holds(q, r) /\ ~Holds(t, r) /\ q[1].op = f.at /\ q[1].paths = f.paths
  BY <1>2, <1>4 DEF Fits, Holds
<1>8. ~Asks(q[1], r) => (Holds(t, r) <=> Holds(q, r))
  BY <1>2, <1>3 DEF Holds
<1> QED BY <1>1, <1>6, <1>7, <1>8 DEF t

-----------------------------------------------------------------------------
(* Types *)
RefreshRequest == [op : Refreshing, repo : Repos, paths : SUBSET Nat]
Inbound == RefreshRequest \cup [op : {"forget"}, repo : Repos, paths : SUBSET Nat] \cup [op : {"stats"}]
Queued  == RefreshRequest \cup [op : {"stats"}, gather : Nat]
Thread  == [repo : Repos, alive : BOOLEAN, queue : Seq(Queued), state : SUBSET (SUBSET Nat)]
Refresh == [at : {"idle", "refused", "answered", "lost"} \cup Refreshing, paths : SUBSET Nat]
Gatherer == [toAsk : SUBSET Nat, asked : SUBSET Nat]

Typed ==
  /\ disk \in [Repos -> Nat]
  /\ pending \in [Repos -> SUBSET Nat] /\ due \in [Repos -> SUBSET Nat]
  /\ refresh \in [Repos -> Refresh]
  /\ inbox \in Seq(Inbound)
  /\ worker \in [Repos -> Nat]
  /\ pool \in Seq(Thread)
  /\ gather \in Seq(Gatherer)

(* One thread changes: its queue, its state, whether it lives.             *)
With(w, a, q, s) == [repo |-> pool[w].repo, alive |-> a, queue |-> q, state |-> s]

Becomes(w, t) ==
  /\ pool' \in Seq(Thread) /\ DOMAIN pool' = DOMAIN pool
  /\ pool'[w] = t /\ \A v \in DOMAIN pool \ {w} : pool'[v] = pool[v]

(* A sequence with one thread replaced by another.                         *)
LEMMA Replaced ==
  ASSUME pool \in Seq(Thread), NEW w \in DOMAIN pool, NEW t \in Thread,
         pool' = [pool EXCEPT ![w] = t]
  PROVE  Becomes(w, t)
<1>1. Len(pool) \in Nat /\ w \in 1..Len(pool)
  OBVIOUS
<1>2. /\ pool' \in Seq(Thread) /\ Len(pool') = Len(pool)
      /\ \A i \in 1..Len(pool) : pool'[i] = IF i = w THEN t ELSE pool[i]
  BY <1>1, ExceptSeq
<1>3. DOMAIN pool' = DOMAIN pool /\ DOMAIN pool = 1..Len(pool)
  BY <1>2
<1> QED BY <1>1, <1>2, <1>3 DEF Becomes

(* What a thread is, and can become. *)
LEMMA ThreadType ==
  ASSUME pool \in Seq(Thread), NEW w \in DOMAIN pool
  PROVE  /\ pool[w] \in Thread
         /\ pool[w] = With(w, pool[w].alive, pool[w].queue, pool[w].state)
         /\ pool[w].repo \in Repos /\ pool[w].queue \in Seq(Queued)
         /\ pool[w].state \in SUBSET (SUBSET Nat) /\ pool[w].alive \in BOOLEAN
         /\ \A a \in BOOLEAN, q \in Seq(Queued), s \in SUBSET (SUBSET Nat) : With(w, a, q, s) \in Thread
<1>1. pool[w] \in Thread
  OBVIOUS
<1> QED BY <1>1 DEF Thread, With

(* Of a thread, two fields change; of another sequence, the queue.         *)
LEMMA QueueOf ==
  ASSUME NEW t \in Thread, NEW q \in Seq(Queued)
  PROVE  [t EXCEPT !.queue = q] = [repo |-> t.repo, alive |-> t.alive, queue |-> q, state |-> t.state]
BY DEF Thread

(* ... its queue and its state, as when it has answered. *)
LEMMA QueueAndState ==
  ASSUME NEW t \in Thread, NEW q \in Seq(Queued), NEW s \in SUBSET (SUBSET Nat)
  PROVE  [t EXCEPT !.queue = q, !.state = s] = [repo |-> t.repo, alive |-> t.alive, queue |-> q, state |-> s]
<1> DEFINE y == [t EXCEPT !.queue = q]
<1>1. y = [repo |-> t.repo, alive |-> t.alive, queue |-> q, state |-> t.state]
  BY QueueOf
<1>2. y \in Thread /\ y.repo = t.repo /\ y.alive = t.alive /\ y.queue = q
  BY <1>1 DEF Thread
<1>3. [t EXCEPT !.queue = q, !.state = s] = [y EXCEPT !.state = s]
  BY DEF Thread
<1> HIDE DEF y
<1>4. [y EXCEPT !.state = s] = [repo |-> y.repo, alive |-> y.alive, queue |-> y.queue, state |-> s]
  BY <1>2 DEF Thread
<1> QED BY <1>2, <1>3, <1>4

(* ... and its life with its queue, as when it panics. *)
LEMMA LifeAndQueue ==
  ASSUME NEW t \in Thread, NEW a \in BOOLEAN, NEW q \in Seq(Queued)
  PROVE  [t EXCEPT !.alive = a, !.queue = q] = [repo |-> t.repo, alive |-> a, queue |-> q, state |-> t.state]
<1> DEFINE y == [t EXCEPT !.alive = a]
<1>1. y = [repo |-> t.repo, alive |-> a, queue |-> t.queue, state |-> t.state]
  BY DEF Thread
<1>2. y \in Thread /\ y.repo = t.repo /\ y.alive = a /\ y.state = t.state
  BY <1>1 DEF Thread
<1>3. [t EXCEPT !.alive = a, !.queue = q] = [y EXCEPT !.queue = q]
  BY DEF Thread
<1> HIDE DEF y
<1>4. [y EXCEPT !.queue = q] = [repo |-> y.repo, alive |-> y.alive, queue |-> q, state |-> y.state]
  BY <1>2, QueueOf
<1> QED BY <1>2, <1>3, <1>4

(* A message is put in a thread's queue. *)
LEMMA PutIs ==
  ASSUME pool \in Seq(Thread), NEW w \in DOMAIN pool, NEW m \in Queued,
         pool' = [pool EXCEPT ![w].queue = Append(@, m)]
  PROVE  Becomes(w, With(w, pool[w].alive, Append(pool[w].queue, m), pool[w].state))
<1> DEFINE q == Append(pool[w].queue, m)
           t == With(w, pool[w].alive, q, pool[w].state)
<1>1. q \in Seq(Queued)
  BY ThreadType
<1>2. pool' = [pool EXCEPT ![w] = [pool[w] EXCEPT !.queue = q]]
  OBVIOUS
<1> HIDE DEF q
<1>3. t \in Thread
  BY <1>1, ThreadType
<1>4. [pool[w] EXCEPT !.queue = q] = t
  BY <1>1, ThreadType, QueueOf DEF With
<1>5. pool' = [pool EXCEPT ![w] = t]
  BY <1>2, <1>4
<1> HIDE DEF t
<1>6. Becomes(w, t)
  BY <1>3, <1>5, Replaced
<1> QED BY <1>6 DEF t, q

(* A thread has dealt with the first message. *)
LEMMA StepIs ==
  ASSUME pool \in Seq(Thread), NEW w \in DOMAIN pool, NEW s \in SUBSET (SUBSET Nat),
         pool[w].queue # <<>>, Step(w, s)
  PROVE  Becomes(w, With(w, pool[w].alive, Tail(pool[w].queue), s))
<1> DEFINE q == Tail(pool[w].queue)
           t == With(w, pool[w].alive, q, s)
<1>1. q \in Seq(Queued)
  BY ThreadType
<1>2. pool' = [pool EXCEPT ![w] = [pool[w] EXCEPT !.queue = q, !.state = s]]
  BY DEF Step
<1> HIDE DEF q
<1>3. t \in Thread
  BY <1>1, ThreadType
<1>4. [pool[w] EXCEPT !.queue = q, !.state = s] = t
  <2>1. pool[w] \in Thread
    BY ThreadType
  <2>2. [pool[w] EXCEPT !.queue = q, !.state = s] =
          [repo |-> pool[w].repo, alive |-> pool[w].alive, queue |-> q, state |-> s]
    BY <1>1, <2>1, QueueAndState
  <2> QED BY <2>2 DEF With
<1>5. pool' = [pool EXCEPT ![w] = t]
  BY <1>2, <1>4
<1> HIDE DEF t
<1>6. Becomes(w, t)
  BY <1>3, <1>5, Replaced
<1> QED BY <1>6 DEF t, q

(* A thread dies with its queue. *)
LEMMA PanicIs ==
  ASSUME pool \in Seq(Thread), NEW w \in DOMAIN pool,
         pool' = [pool EXCEPT ![w].alive = FALSE, ![w].queue = <<>>]
  PROVE  Becomes(w, With(w, FALSE, <<>>, pool[w].state))
<1> DEFINE t == With(w, FALSE, <<>>, pool[w].state)
<1>1. <<>> \in Seq(Queued) /\ FALSE \in BOOLEAN
  OBVIOUS
<1>2. pool' = [pool EXCEPT ![w] = [pool[w] EXCEPT !.alive = FALSE, !.queue = <<>>]]
  OBVIOUS
<1>3. t \in Thread
  BY <1>1, ThreadType
<1>4. [pool[w] EXCEPT !.alive = FALSE, !.queue = <<>>] = t
  BY <1>1, ThreadType, LifeAndQueue DEF With
<1>5. pool' = [pool EXCEPT ![w] = t]
  BY <1>2, <1>4
<1> HIDE DEF t
<1>6. Becomes(w, t)
  BY <1>3, <1>5, Replaced
<1> QED BY <1>6 DEF t

-----------------------------------------------------------------------------
(* The inductive invariant.  At most one message of a refresh of r is out, *)
(* at the router or at the worker it has gone to, which is alive and the   *)
(* one the router would send the next to, unless it was forgotten.         *)
OneFlight(r) ==
  /\ Fits(inbox, r, refresh[r])
  /\ \A w \in DOMAIN pool :
       /\ Fits(pool[w].queue, r, refresh[r])
       /\ Holds(pool[w].queue, r) =>
            /\ pool[w].repo = r /\ pool[w].alive = TRUE
            /\ ~Holds(inbox, r)
            /\ worker[r] \in {0, w}
            /\ \A v \in DOMAIN pool : Holds(pool[v].queue, r) => v = w

Mapped(r) == worker[r] # 0 => worker[r] \in DOMAIN pool /\ pool[worker[r]].repo = r

(* What a refresh under way will tell the worker, and the workers that may *)
(* answer it or a later one.                                               *)
Telling == {"incremental", "validate"}

Asked(r) == IF refresh[r].at \in Telling THEN refresh[r].paths ELSE {}

Relevant(w, r) == pool[w].repo = r /\ pool[w].alive = TRUE /\ (worker[r] = w \/ Holds(pool[w].queue, r))

(* A state, if there is one, is of changes there are (up to n), and        *)
(* accounts for those that are due but for what it will be told.           *)
Keeps(state, d, asked, n) ==
  \A S \in state : S = UNION state /\ S \subseteq 1..n /\ d \subseteq S \cup asked

Accounts(r) ==
  /\ due[r] \subseteq 1..disk[r] /\ pending[r] \subseteq 1..disk[r]
  /\ refresh[r].paths \subseteq 1..disk[r]
  /\ \A w \in DOMAIN pool : Relevant(w, r) => Keeps(pool[w].state, due[r], Asked(r), disk[r])
  /\ refresh[r].at = "answered" => due[r] \subseteq refresh[r].paths

Good(r) == OneFlight(r) /\ Mapped(r) /\ Accounts(r)

Gatherers == \A g \in DOMAIN gather : gather[g].toAsk \subseteq DOMAIN pool

IInv == Typed /\ Gatherers /\ \A r \in Repos : Good(r)

(* It holds at the start. *)
LEMMA InitIInv == Init => IInv
<1> SUFFICES ASSUME Init PROVE IInv
  OBVIOUS
<1>1. Typed /\ Gatherers
  BY DEF Init, Typed, Gatherers, Idle, Refresh
<1>2. ASSUME NEW r \in Repos PROVE Good(r)
  BY <1>2 DEF Init, Good, OneFlight, Mapped, Accounts, Fits, Holds, Idle
<1> QED BY <1>1, <1>2 DEF IInv

-----------------------------------------------------------------------------
(* Steps that do not concern the refresh of r *)
InboxAside(r) ==
  /\ Holds(inbox', r) => Holds(inbox, r)
  /\ Fits(inbox', r, refresh[r])

PoolAside(r) ==
  /\ DOMAIN pool \subseteq DOMAIN pool'
  /\ \A v \in DOMAIN pool :
       /\ pool'[v].repo = pool[v].repo
       /\ pool[v].repo = r => pool'[v].state = pool[v].state
       /\ pool'[v].alive = TRUE => pool[v].alive = TRUE
       /\ Fits(pool'[v].queue, r, refresh[r])
       /\ Holds(pool'[v].queue, r) => Holds(pool[v].queue, r) /\ pool'[v].alive = TRUE
  /\ \A v \in DOMAIN pool' \ DOMAIN pool :
       pool'[v].repo # r /\ ~Holds(pool'[v].queue, r) /\ Fits(pool'[v].queue, r, refresh[r])

DaemonAside(r) ==
  /\ refresh'[r] = refresh[r] /\ due'[r] = due[r]
  /\ 1..disk[r] \subseteq 1..disk'[r] /\ pending'[r] \subseteq 1..disk'[r]

Aside(r) ==
  /\ DaemonAside(r) /\ InboxAside(r) /\ PoolAside(r)
  /\ worker'[r] \in {worker[r], 0}

(* They keep what holds of it. *)
LEMMA AsideIsGood ==
  ASSUME Typed, NEW r \in Repos, Good(r), Aside(r)
  PROVE  Good(r)'
<1>1. Mapped(r)'
  BY DEF Good, Mapped, Aside, PoolAside
<1>2. OneFlight(r)'
  <2>1. Fits(inbox', r, refresh'[r])
    BY DEF Aside, DaemonAside, InboxAside
  <2>2. ASSUME NEW w \in DOMAIN pool'
        PROVE  Fits(pool'[w].queue, r, refresh'[r])
    BY DEF Aside, DaemonAside, PoolAside
  <2>3. ASSUME NEW w \in DOMAIN pool', Holds(pool'[w].queue, r)
        PROVE  /\ pool'[w].repo = r /\ pool'[w].alive = TRUE
               /\ ~Holds(inbox', r)
               /\ worker'[r] \in {0, w}
               /\ \A v \in DOMAIN pool' : Holds(pool'[v].queue, r) => v = w
    <3>1. w \in DOMAIN pool /\ Holds(pool[w].queue, r) /\ pool'[w].alive = TRUE /\ pool'[w].repo = pool[w].repo
      BY <2>3 DEF Aside, PoolAside
    <3>2. /\ pool[w].repo = r /\ ~Holds(inbox, r) /\ worker[r] \in {0, w}
          /\ \A v \in DOMAIN pool : Holds(pool[v].queue, r) => v = w
      BY <3>1 DEF Good, OneFlight
    <3>3. ASSUME NEW v \in DOMAIN pool', Holds(pool'[v].queue, r) PROVE v = w
      <4>1. v \in DOMAIN pool /\ Holds(pool[v].queue, r)
        BY <3>3 DEF Aside, PoolAside
      <4> QED BY <3>2, <4>1
    <3>4. ~Holds(inbox', r) /\ worker'[r] \in {0, w}
      BY <3>2 DEF Aside, InboxAside
    <3> QED BY <3>1, <3>2, <3>3, <3>4
  <2> QED BY <2>1, <2>2, <2>3 DEF OneFlight
<1>3. Accounts(r)'
  <2>1. /\ due'[r] \subseteq 1..disk'[r] /\ pending'[r] \subseteq 1..disk'[r]
        /\ refresh'[r].paths \subseteq 1..disk'[r]
    BY DEF Aside, DaemonAside, Good, Accounts
  <2>2. refresh'[r].at = "answered" => due'[r] \subseteq refresh'[r].paths
    BY DEF Aside, DaemonAside, Good, Accounts
  <2>3. Asked(r)' = Asked(r)
    BY DEF Aside, DaemonAside, Asked
  <2>4. ASSUME NEW w \in DOMAIN pool', Relevant(w, r)'
        PROVE  Keeps(pool'[w].state, due'[r], Asked(r)', disk'[r])
    <3>1. /\ pool'[w].repo = r /\ pool'[w].alive = TRUE
          /\ worker'[r] = w \/ Holds(pool'[w].queue, r)
      BY <2>4 DEF Relevant
    <3>2. w \in DOMAIN pool
      BY <3>1 DEF Aside, PoolAside
    <3>3. pool[w].repo = r /\ pool[w].alive = TRUE /\ pool'[w].state = pool[w].state
      BY <3>1, <3>2 DEF Aside, PoolAside
    <3>4. worker[r] = w \/ Holds(pool[w].queue, r)
      <4>1. CASE Holds(pool'[w].queue, r)
        BY <3>2, <4>1 DEF Aside, PoolAside
      <4>2. CASE worker'[r] = w /\ worker'[r] = worker[r]
        BY <4>2
      <4>3. CASE worker'[r] = w /\ worker'[r] = 0
        <5>1. 0 \notin DOMAIN pool
          BY DEF Typed
        <5> QED BY <3>2, <4>3, <5>1
      <4> QED BY <3>1, <4>1, <4>2, <4>3 DEF Aside
    <3>5. Keeps(pool[w].state, due[r], Asked(r), disk[r])
      BY <3>2, <3>3, <3>4 DEF Good, Accounts, Relevant
    <3>6. due'[r] = due[r] /\ 1..disk[r] \subseteq 1..disk'[r]
      BY DEF Aside, DaemonAside
    <3> QED BY <2>3, <3>3, <3>5, <3>6 DEF Keeps
  <2> QED BY <2>1, <2>2, <2>4 DEF Accounts
<1> QED BY <1>1, <1>2, <1>3 DEF Good

-----------------------------------------------------------------------------
(* What a step does to the other repositories *)
LEMMA SameInbox ==
  ASSUME NEW r \in Repos, Good(r), inbox' = inbox
  PROVE  InboxAside(r)
BY DEF Good, OneFlight, InboxAside

(* A message of the daemon that asks for no refresh of r *)
LEMMA InboxGrows ==
  ASSUME Typed, NEW r \in Repos, Good(r), NEW m \in Inbound, ~Asks(m, r), inbox' = Append(inbox, m)
  PROVE  InboxAside(r)
<1>1. inbox \in Seq(Inbound) /\ Fits(inbox, r, refresh[r])
  BY DEF Typed, Good, OneFlight
<1>2. /\ Fits(Append(inbox, m), r, refresh[r])
      /\ Holds(Append(inbox, m), r) <=> (Holds(inbox, r) \/ Asks(m, r))
  BY <1>1, QueueAppend
<1> QED BY <1>2 DEF InboxAside

(* The router takes a message, whosever. *)
LEMMA InboxShrinks ==
  ASSUME Typed, NEW r \in Repos, Good(r), inbox # <<>>, inbox' = Tail(inbox)
  PROVE  InboxAside(r)
<1>1. inbox \in Seq(Inbound) /\ Fits(inbox, r, refresh[r])
  BY DEF Typed, Good, OneFlight
<1>2. /\ Fits(Tail(inbox), r, refresh[r])
      /\ Holds(Tail(inbox), r) => Holds(inbox, r)
  BY <1>1, QueueTail
<1> QED BY <1>2 DEF InboxAside

(* No worker thread changes. *)
LEMMA SamePool ==
  ASSUME NEW r \in Repos, Good(r), pool' = pool
  PROVE  PoolAside(r)
<1>1. \A v \in DOMAIN pool : Fits(pool[v].queue, r, refresh[r])
        /\ (Holds(pool[v].queue, r) => pool[v].alive = TRUE)
  BY DEF Good, OneFlight
<1> QED BY <1>1 DEF PoolAside

(* One worker thread changes, and keeps its state if it is of r. *)
LEMMA OneThread ==
  ASSUME NEW r \in Repos, Good(r), NEW w \in DOMAIN pool, NEW t, Becomes(w, t),
         t.repo = pool[w].repo, pool[w].repo = r => t.state = pool[w].state,
         t.alive = TRUE => pool[w].alive = TRUE,
         Fits(t.queue, r, refresh[r]),
         Holds(t.queue, r) => Holds(pool[w].queue, r) /\ t.alive = TRUE
  PROVE  PoolAside(r)
<1>1. \A v \in DOMAIN pool : Fits(pool[v].queue, r, refresh[r])
        /\ (Holds(pool[v].queue, r) => pool[v].alive = TRUE)
  BY DEF Good, OneFlight
<1> QED BY <1>1 DEF PoolAside, Becomes

(* A thread that puts a message that is not of r in its queue, or takes    *)
(* one that is not of r                                                    *)
LEMMA PutAside ==
  ASSUME Typed, NEW r \in Repos, Good(r), NEW w \in DOMAIN pool, NEW m \in Queued, ~Asks(m, r),
         pool' = [pool EXCEPT ![w].queue = Append(@, m)]
  PROVE  PoolAside(r)
<1> DEFINE q == Append(pool[w].queue, m)
           t == With(w, pool[w].alive, q, pool[w].state)
<1>1. Becomes(w, t)
  BY PutIs DEF Typed
<1>2. pool[w].queue \in Seq(Queued) /\ Fits(pool[w].queue, r, refresh[r])
  BY ThreadType DEF Typed, Good, OneFlight
<1>3. Fits(q, r, refresh[r]) /\ (Holds(q, r) => Holds(pool[w].queue, r))
  BY <1>2, QueueAppend
<1>4. Holds(pool[w].queue, r) => pool[w].alive = TRUE
  BY DEF Good, OneFlight
<1>5. t.repo = pool[w].repo /\ t.state = pool[w].state /\ t.alive = pool[w].alive /\ t.queue = q
  BY DEF With
<1> HIDE DEF q, t
<1> QED BY <1>1, <1>3, <1>4, <1>5, OneThread

(* A worker deals with a message; one of r keeps its state. *)
LEMMA StepAside ==
  ASSUME Typed, NEW r \in Repos, Good(r), NEW w \in DOMAIN pool, NEW s \in SUBSET (SUBSET Nat),
         pool[w].queue # <<>>, Step(w, s),
         pool[w].repo = r => s = pool[w].state
  PROVE  PoolAside(r)
<1> DEFINE q == Tail(pool[w].queue)
           t == With(w, pool[w].alive, q, s)
<1>1. Becomes(w, t)
  BY StepIs DEF Typed
<1>2. pool[w].queue \in Seq(Queued) /\ Fits(pool[w].queue, r, refresh[r])
  BY ThreadType DEF Typed, Good, OneFlight
<1>3. Fits(q, r, refresh[r]) /\ (Holds(q, r) => Holds(pool[w].queue, r))
  BY <1>2, QueueTail
<1>4. Holds(pool[w].queue, r) => pool[w].alive = TRUE
  BY DEF Good, OneFlight
<1>5. t.repo = pool[w].repo /\ t.state = s /\ t.alive = pool[w].alive /\ t.queue = q
  BY DEF With
<1> HIDE DEF q, t
<1> QED BY <1>1, <1>3, <1>4, <1>5, OneThread

(* A worker panics. *)
LEMMA PanicAside ==
  ASSUME Typed, NEW r \in Repos, Good(r), NEW w \in DOMAIN pool,
         pool' = [pool EXCEPT ![w].alive = FALSE, ![w].queue = <<>>]
  PROVE  PoolAside(r)
<1> DEFINE t == With(w, FALSE, <<>>, pool[w].state)
<1>1. Becomes(w, t)
  BY PanicIs DEF Typed
<1>2. DOMAIN <<>> = {}
  OBVIOUS
<1>3. Fits(<<>>, r, refresh[r]) /\ ~Holds(<<>>, r)
  BY <1>2 DEF Fits, Holds
<1>4. t.repo = pool[w].repo /\ t.state = pool[w].state /\ t.alive = FALSE /\ t.queue = <<>>
  BY DEF With
<1> HIDE DEF t
<1> QED BY <1>1, <1>3, <1>4, OneThread

(* The daemon's part, when it does nothing for r, or makes a change        *)
LEMMA SameDaemon ==
  ASSUME NEW r \in Repos, Good(r), disk'[r] = disk[r], pending'[r] = pending[r],
         refresh'[r] = refresh[r], due'[r] = due[r]
  PROVE  DaemonAside(r)
BY DEF DaemonAside, Good, Accounts

-----------------------------------------------------------------------------
(* Steps of the refresh of r *)
(* No message of a refresh that is not being asked for is out. *)
LEMMA NoneOut ==
  ASSUME NEW r \in Repos, Good(r), ~Asking(refresh[r])
  PROVE  ~Holds(inbox, r) /\ \A v \in DOMAIN pool : ~Holds(pool[v].queue, r)
BY NotAsking DEF Good, OneFlight

(* With none out, the worker of r, if it has one, accounts for all that is *)
(* due.                                                                    *)
LEMMA NoneOutIsGood ==
  ASSUME NEW r \in Repos, ~Asking(refresh'[r]),
         ~Holds(inbox', r), \A v \in DOMAIN pool' : ~Holds(pool'[v].queue, r),
         Mapped(r)', due'[r] \subseteq 1..disk'[r], pending'[r] \subseteq 1..disk'[r],
         refresh'[r].paths \subseteq 1..disk'[r],
         \A v \in DOMAIN pool' : Relevant(v, r)' => Keeps(pool'[v].state, due'[r], {}, disk'[r]),
         refresh'[r].at = "answered" => due'[r] \subseteq refresh'[r].paths
  PROVE  Good(r)'
<1>1. Fits(inbox', r, refresh'[r]) /\ \A v \in DOMAIN pool' : Fits(pool'[v].queue, r, refresh'[r])
  BY NotAsking
<1>2. OneFlight(r)'
  BY <1>1 DEF OneFlight
<1>3. Asked(r)' = {}
  BY DEF Asked, Asking, Telling, Refreshing
<1>4. Accounts(r)'
  BY <1>3 DEF Accounts
<1> QED BY <1>2, <1>4 DEF Good

(* refresh_repo sends a request, and what was reported goes with it. *)
LEMMA AskIsGood ==
  ASSUME Typed, NEW r \in Repos, Good(r), ~Asking(refresh[r]),
         NEW o \in Refreshing, NEW ps \in SUBSET Nat, Ask(r, o, ps),
         UNCHANGED <<disk, worker, pool>>,
         due'[r] \subseteq due[r] \cup (IF o \in Telling THEN ps ELSE {}),
         due'[r] \subseteq 1..disk[r], pending'[r] \subseteq 1..disk[r], ps \subseteq 1..disk[r]
  PROVE  Good(r)'
<1> DEFINE m == Request(r, o, ps)
<1>1. refresh'[r] = [at |-> o, paths |-> ps]
  BY DEF Typed, Ask
<1>2. m \in Inbound /\ Asks(m, r) /\ m.op = o /\ m.paths = ps
  BY DEF Request, Inbound, RefreshRequest, Asks
<1>3. ~Holds(inbox, r) /\ \A v \in DOMAIN pool : ~Holds(pool[v].queue, r)
  BY NoneOut
<1>4. Fits(inbox, r, refresh'[r]) /\ \A v \in DOMAIN pool : Fits(pool[v].queue, r, refresh'[r])
  BY <1>3 DEF Fits, Holds
<1>5. inbox' = Append(inbox, m) /\ inbox \in Seq(Inbound)
  BY DEF Ask, Typed
<1> HIDE DEF m
<1>6. m.op = refresh'[r].at /\ m.paths = refresh'[r].paths
  BY <1>1, <1>2
<1>7. Fits(inbox', r, refresh'[r])
  BY <1>2, <1>3, <1>4, <1>5, <1>6, QueueAppend
<1>8. OneFlight(r)'
  BY <1>3, <1>4, <1>7 DEF OneFlight
<1>9. Mapped(r)'
  BY DEF Good, Mapped
<1>10. Asked(r)' = IF o \in Telling THEN ps ELSE {}
  BY <1>1 DEF Asked
<1>11. Asked(r) = {}
  BY DEF Asked, Asking, Telling, Refreshing
<1>12. ASSUME NEW v \in DOMAIN pool', Relevant(v, r)'
       PROVE  Keeps(pool'[v].state, due'[r], Asked(r)', disk'[r])
  <2>1. v \in DOMAIN pool /\ Relevant(v, r)
    BY <1>12, <1>3 DEF Relevant
  <2>2. Keeps(pool[v].state, due[r], {}, disk[r])
    BY <1>11, <2>1 DEF Good, Accounts
  <2> QED BY <2>2, <1>10 DEF Keeps
<1>13. Accounts(r)'
  <2>1. refresh'[r].paths \subseteq 1..disk'[r] /\ refresh'[r].at # "answered"
    BY <1>1 DEF Refreshing
  <2> QED BY <1>12, <2>1 DEF Accounts
<1> QED BY <1>8, <1>9, <1>13 DEF Good

(* The answer, or the failure, is taken. *)
LEMMA DoneIsGood ==
  ASSUME Typed, NEW r \in Repos, Good(r), Done(r)
  PROVE  Good(r)'
<1>1. ~Asking(refresh[r]) /\ Asked(r) = {}
  BY DEF Done, Asking, Asked, Telling, Refreshing
<1>2. refresh'[r] = Idle
  BY DEF Done, Typed
<1>3. ~Asking(refresh'[r]) /\ refresh'[r].at # "answered"
  BY <1>2 DEF Idle, Asking, Refreshing
<1>4. ~Holds(inbox, r) /\ \A v \in DOMAIN pool : ~Holds(pool[v].queue, r)
  BY <1>1, NoneOut
<1>5. Mapped(r)'
  BY DEF Done, Good, Mapped
<1>6. ASSUME NEW v \in DOMAIN pool', Relevant(v, r)'
      PROVE  Keeps(pool'[v].state, due'[r], {}, disk'[r])
  <2>1. v \in DOMAIN pool /\ Relevant(v, r)
    BY <1>6 DEF Done, Relevant
  <2>2. Keeps(pool[v].state, due[r], Asked(r), disk[r])
    BY <2>1 DEF Good, Accounts
  <2> QED BY <2>2, <1>1 DEF Done
<1>7. /\ due'[r] \subseteq 1..disk'[r] /\ pending'[r] \subseteq 1..disk'[r]
      /\ refresh'[r].paths \subseteq 1..disk'[r]
  BY <1>2 DEF Done, Good, Accounts, Idle
<1>8. ~Holds(inbox', r) /\ \A v \in DOMAIN pool' : ~Holds(pool'[v].queue, r)
  BY <1>4 DEF Done
<1> QED BY <1>3, <1>5, <1>6, <1>7, <1>8, NoneOutIsGood

(* The router takes a refresh of r. *)
LEMMA TakenIs ==
  ASSUME Typed, Taking(Refreshing)
  PROVE  /\ inbox # <<>> /\ inbox' = Tail(inbox)
         /\ inbox[1] \in RefreshRequest /\ inbox[1] \in Queued
         /\ inbox[1].repo \in Repos /\ \A r \in Repos : Asks(inbox[1], r) <=> r = inbox[1].repo
<1>1. inbox # <<>> /\ inbox[1].op \in Refreshing /\ inbox' = Tail(inbox)
  BY DEF Taking
<1>2. inbox[1] \in Inbound
  BY <1>1 DEF Typed
<1>3. inbox[1] \in RefreshRequest
  BY <1>1, <1>2 DEF Inbound, Refreshing
<1> QED BY <1>1, <1>3 DEF Queued, RefreshRequest, Asks

(* To the worker in the map, which is alive *)
LEMMA ForwardIsGood ==
  ASSUME Typed, NEW r \in Repos, Good(r), Taking(Refreshing), inbox[1].repo = r,
         worker[r] # 0, pool[worker[r]].alive = TRUE,
         pool' = [pool EXCEPT ![worker[r]].queue = Append(@, inbox[1])],
         UNCHANGED <<daemon, worker>>
  PROVE  Good(r)'
<1> DEFINE m == inbox[1]
           w == worker[r]
           q == Append(pool[w].queue, m)
           t == With(w, pool[w].alive, q, pool[w].state)
<1>1. /\ inbox # <<>> /\ inbox' = Tail(inbox) /\ inbox \in Seq(Inbound)
      /\ m \in Queued /\ Asks(m, r)
  BY TakenIs DEF Typed
<1>2. w \in DOMAIN pool /\ pool[w].repo = r
  BY DEF Good, Mapped
<1>3. Fits(inbox, r, refresh[r]) /\ \A v \in DOMAIN pool : Fits(pool[v].queue, r, refresh[r])
  BY DEF Good, OneFlight
<1>4. /\ Holds(inbox, r) /\ ~Holds(inbox', r) /\ Fits(inbox', r, refresh[r])
      /\ m.op = refresh[r].at /\ m.paths = refresh[r].paths
  BY <1>1, <1>3, QueueTail
<1>5. \A v \in DOMAIN pool : ~Holds(pool[v].queue, r)
  BY <1>4 DEF Good, OneFlight
<1>6. Becomes(w, t)
  BY <1>1, <1>2, PutIs DEF Typed
<1>7. pool[w].queue \in Seq(Queued)
  BY <1>2, ThreadType DEF Typed
<1>8. Fits(q, r, refresh[r]) /\ Holds(q, r)
  BY <1>1, <1>2, <1>3, <1>4, <1>5, <1>7, QueueAppend
<1>9. t.repo = r /\ t.alive = TRUE /\ t.queue = q /\ t.state = pool[w].state
  BY <1>2 DEF With
<1> HIDE DEF q, t, m
<1>10. /\ DOMAIN pool' = DOMAIN pool /\ w \in DOMAIN pool
       /\ pool'[w] = t /\ \A v \in DOMAIN pool \ {w} : pool'[v] = pool[v]
  BY <1>2, <1>6 DEF Becomes
<1>11. refresh' = refresh /\ due' = due /\ disk' = disk /\ pending' = pending /\ worker' = worker
  BY DEF daemon
<1>12. \A v \in DOMAIN pool' : Fits(pool'[v].queue, r, refresh[r]) /\ (Holds(pool'[v].queue, r) <=> v = w)
  <2> SUFFICES ASSUME NEW v \in DOMAIN pool'
               PROVE  Fits(pool'[v].queue, r, refresh[r]) /\ (Holds(pool'[v].queue, r) <=> v = w)
    OBVIOUS
  <2>1. CASE v = w
    <3>1. pool'[v].queue = q
      BY <1>9, <1>10, <2>1
    <3> QED BY <1>8, <2>1, <3>1
  <2>2. CASE v # w
    <3>1. v \in DOMAIN pool /\ pool'[v] = pool[v]
      BY <1>10, <2>2
    <3> QED BY <1>3, <1>5, <2>2, <3>1
  <2> QED BY <2>1, <2>2
<1>13. OneFlight(r)'
  <2>1. Fits(inbox', r, refresh'[r]) /\ ~Holds(inbox', r) /\ worker'[r] = w
    BY <1>4, <1>11
  <2>2. pool'[w].repo = r /\ pool'[w].alive = TRUE
    BY <1>9, <1>10
  <2>3. \A v \in DOMAIN pool' :
          Fits(pool'[v].queue, r, refresh'[r]) /\ (Holds(pool'[v].queue, r) <=> v = w)
    BY <1>11, <1>12
  <2> QED BY <2>1, <2>2, <2>3 DEF OneFlight
<1>14. Mapped(r)'
  BY <1>9, <1>10, <1>11 DEF Mapped
<1>15. ASSUME NEW v \in DOMAIN pool', Relevant(v, r)'
       PROVE  Keeps(pool'[v].state, due[r], Asked(r), disk[r])
  <2>1. v = w
    BY <1>11, <1>12, <1>15 DEF Relevant
  <2>2. Relevant(w, r)
    BY <1>2 DEF Relevant
  <2>3. pool'[v].state = pool[w].state
    BY <1>9, <1>10, <2>1
  <2> QED BY <1>2, <2>2, <2>3 DEF Good, Accounts
<1>16. Accounts(r)'
  <2>1. Asked(r)' = Asked(r)
    BY <1>11 DEF Asked
  <2> QED BY <2>1, <1>11, <1>15 DEF Good, Accounts
<1> QED BY <1>13, <1>14, <1>16 DEF Good

(* To a new one, which has no state *)
LEMMA SpawnIsGood ==
  ASSUME Typed, NEW r \in Repos, Good(r), Taking(Refreshing), inbox[1].repo = r,
         pool' = Append(pool, Spawned(r, inbox[1])), worker'[r] = Len(pool'),
         UNCHANGED daemon
  PROVE  Good(r)'
<1> DEFINE m == inbox[1]
           w == Len(pool) + 1
           t == Spawned(r, m)
<1>1. /\ inbox # <<>> /\ inbox' = Tail(inbox) /\ inbox \in Seq(Inbound)
      /\ Asks(m, r)
  BY TakenIs DEF Typed
<1>2. Fits(inbox, r, refresh[r]) /\ \A v \in DOMAIN pool : Fits(pool[v].queue, r, refresh[r])
  BY DEF Good, OneFlight
<1>3. /\ Holds(inbox, r) /\ ~Holds(inbox', r) /\ Fits(inbox', r, refresh[r])
      /\ m.op = refresh[r].at /\ m.paths = refresh[r].paths
  BY <1>1, <1>2, QueueTail
<1>4. \A v \in DOMAIN pool : ~Holds(pool[v].queue, r)
  BY <1>3 DEF Good, OneFlight
<1>5. t.repo = r /\ t.alive = TRUE /\ t.queue = <<m>> /\ t.state = {}
  BY DEF Spawned, NewWorker, NoState
<1>6. DOMAIN <<m>> = {1} /\ <<m>>[1] = m
  OBVIOUS
<1>7. Fits(<<m>>, r, refresh[r]) /\ Holds(<<m>>, r)
  BY <1>1, <1>3, <1>6 DEF Fits, Holds
<1> HIDE DEF t, m
<1>8. /\ DOMAIN pool' = DOMAIN pool \cup {w} /\ w \notin DOMAIN pool /\ w # 0
      /\ pool'[w] = t /\ \A v \in DOMAIN pool : pool'[v] = pool[v]
      /\ worker'[r] = w
  <2>1. pool \in Seq(Thread) /\ Len(pool) \in Nat
    BY DEF Typed
  <2>2. pool' = Append(pool, t)
    BY DEF t, m
  <2> QED BY <2>1, <2>2
<1> HIDE DEF w
<1>9. refresh' = refresh /\ due' = due /\ disk' = disk /\ pending' = pending
  BY DEF daemon
<1>10. \A v \in DOMAIN pool' : Fits(pool'[v].queue, r, refresh[r]) /\ (Holds(pool'[v].queue, r) <=> v = w)
  BY <1>2, <1>4, <1>5, <1>7, <1>8
<1>11. OneFlight(r)'
  BY <1>3, <1>5, <1>8, <1>9, <1>10 DEF OneFlight
<1>12. Mapped(r)'
  BY <1>5, <1>8 DEF Mapped
<1>13. ASSUME NEW v \in DOMAIN pool', Relevant(v, r)' PROVE pool'[v].state = {}
  BY <1>5, <1>8, <1>10, <1>13 DEF Relevant
<1>14. Accounts(r)'
  BY <1>9, <1>13 DEF Good, Accounts, Keeps
<1> QED BY <1>11, <1>12, <1>14 DEF Good

(* A worker that has work is of the repository it works for, and if that   *)
(* is a refresh, no other message of it is out, and no other worker is     *)
(* relevant to it.                                                         *)
LEMMA WorkingIs ==
  ASSUME Typed, NEW w \in DOMAIN pool, \A r \in Repos : Good(r), HasWork(w),
         Next1(w).op \in Refreshing
  PROVE  LET r == pool[w].repo
         IN  /\ r \in Repos
             /\ Next1(w).op = refresh[r].at /\ Next1(w).paths = refresh[r].paths
             /\ Next1(w).paths \in SUBSET Nat
             /\ ~Holds(inbox, r) /\ ~Holds(Tail(pool[w].queue), r)
             /\ worker[r] \in {0, w}
             /\ \A v \in DOMAIN pool : Holds(pool[v].queue, r) => v = w
             /\ Relevant(w, r)
<1> DEFINE r == pool[w].repo
           q == pool[w].queue
<1>1. q \in Seq(Queued) /\ q # <<>> /\ pool[w].alive \in BOOLEAN /\ r \in Repos
  BY ThreadType DEF Typed, HasWork
<1>2. pool[w].alive = TRUE
  BY <1>1 DEF HasWork
<1>3. Next1(w) = q[1]
  BY DEF Next1
<1> HIDE DEF q
<1>4. q[1] \in Queued
  BY <1>1
<1>5. q[1] \in RefreshRequest
  BY <1>3, <1>4 DEF Queued, Refreshing
<1>6. q[1].repo \in Repos /\ q[1].paths \in SUBSET Nat /\ Asks(q[1], q[1].repo)
  BY <1>5 DEF RefreshRequest, Asks
<1>7. Fits(q, q[1].repo, refresh[q[1].repo])
  BY <1>6 DEF q, Good, OneFlight
<1>8. /\ Holds(q, q[1].repo) /\ ~Holds(Tail(q), q[1].repo)
      /\ q[1].op = refresh[q[1].repo].at /\ q[1].paths = refresh[q[1].repo].paths
  BY <1>1, <1>6, <1>7, QueueTail
<1>9. q[1].repo = r
  BY <1>6, <1>8 DEF q, Good, OneFlight
<1>10. /\ ~Holds(inbox, r) /\ worker[r] \in {0, w}
       /\ \A v \in DOMAIN pool : Holds(pool[v].queue, r) => v = w
  BY <1>1, <1>8, <1>9 DEF q, Good, OneFlight
<1>11. Relevant(w, r)
  BY <1>2, <1>8, <1>9 DEF q, Relevant
<1> QED BY <1>1, <1>3, <1>6, <1>8, <1>9, <1>10, <1>11 DEF q

(* The worker w deals with the refresh of its repository r: with a state,  *)
(* an answer or an error, and what is due of r.                            *)
Answered(w, r) ==
  /\ HasWork(w) /\ UNCHANGED <<disk, pending, inbox, worker, gather>>
  /\ \E s \in SUBSET (SUBSET Nat) : Step(w, s)
  /\ \E at \in {"answered", "lost", "refused"}, ps \in SUBSET Nat : Answer(r, at, ps)
  /\ \E d \in SUBSET Nat : due' = [due EXCEPT ![r] = d]

(* Its answer ends the refresh, and leaves a state that accounts for what  *)
(* is due.                                                                 *)
LEMMA AnswerIsGood ==
  ASSUME Typed, NEW w \in DOMAIN pool, NEW r \in Repos, r = pool[w].repo,
         \A x \in Repos : Good(x), HasWork(w),
         Next1(w).op \in Refreshing,
         NEW s \in SUBSET (SUBSET Nat), Step(w, s),
         NEW at \in {"answered", "lost", "refused"}, NEW ps \in SUBSET (1..disk[r]),
         Answer(r, at, ps),
         NEW d \in SUBSET (1..disk[r]), due' = [due EXCEPT ![r] = d],
         Keeps(s, d, {}, disk[r]),
         at = "answered" => d \subseteq ps,
         UNCHANGED <<disk, pending, inbox, worker, gather>>
  PROVE  Good(r)' /\ Answered(w, r)
<1> DEFINE q == Tail(pool[w].queue)
           t == With(w, pool[w].alive, q, s)
<1>1. /\ ~Holds(inbox, r) /\ ~Holds(q, r)
      /\ worker[r] \in {0, w}
      /\ \A v \in DOMAIN pool : Holds(pool[v].queue, r) => v = w
  BY WorkingIs
<1>2. Becomes(w, t)
  BY StepIs DEF Typed, HasWork
<1>3. t.repo = r /\ t.queue = q /\ t.state = s
  BY DEF With
<1>4. refresh'[r] = [at |-> at, paths |-> ps]
  BY DEF Answer, Typed
<1>5. Mapped(r) /\ pending[r] \subseteq 1..disk[r]
  BY DEF Good, Accounts
<1>6. due'[r] = d
  BY DEF Typed
<1>7. 1..disk[r] \in SUBSET Nat
  OBVIOUS
<1>8. Answered(w, r)
  BY <1>7 DEF Answered
<1>9. at = "answered" => d \subseteq ps
  OBVIOUS
<1> HIDE DEF q, t
<1>10. /\ DOMAIN pool' = DOMAIN pool
       /\ pool'[w] = t /\ \A v \in DOMAIN pool \ {w} : pool'[v] = pool[v]
  BY <1>2 DEF Becomes
<1>11. ~Asking(refresh'[r])
  BY <1>4 DEF Asking, Refreshing
<1>12. ~Holds(inbox', r) /\ \A v \in DOMAIN pool' : ~Holds(pool'[v].queue, r)
  BY <1>1, <1>3, <1>10
<1>13. Mapped(r)'
  BY <1>3, <1>5, <1>10 DEF Mapped
<1>14. ASSUME NEW v \in DOMAIN pool', Relevant(v, r)' PROVE v = w
  <2>1. 0 \notin DOMAIN pool
    BY DEF Typed
  <2> QED BY <1>1, <1>10, <1>12, <1>14, <2>1 DEF Relevant
<1>15. \A v \in DOMAIN pool' : Relevant(v, r)' => Keeps(pool'[v].state, due'[r], {}, disk'[r])
  BY <1>3, <1>6, <1>10, <1>14
<1>16. refresh'[r].at = "answered" => due'[r] \subseteq refresh'[r].paths
  BY <1>4, <1>6, <1>9
<1>17. /\ due'[r] \subseteq 1..disk'[r] /\ pending'[r] \subseteq 1..disk'[r]
       /\ refresh'[r].paths \subseteq 1..disk'[r]
  <2>1. disk' = disk /\ pending' = pending
    OBVIOUS
  <2>2. due'[r] \subseteq 1..disk[r]
    BY <1>6
  <2>3. refresh'[r].paths \subseteq 1..disk[r]
    <3>1. refresh'[r].paths = ps
      BY <1>4
    <3> QED BY <3>1
  <2> QED BY <1>5, <2>1, <2>2, <2>3
<1>18. Good(r)'
  BY <1>11, <1>12, <1>13, <1>15, <1>16, <1>17, NoneOutIsGood
<1> QED BY <1>8, <1>18

(* What the worker has and is told, which is of changes there are          *)
LEMMA WorkerHas ==
  ASSUME Typed, NEW w \in DOMAIN pool, NEW r \in Repos, r = pool[w].repo,
         \A x \in Repos : Good(x), HasWork(w), Next1(w).op \in Refreshing
  PROVE  /\ pool[w].state \in SUBSET (SUBSET Nat)
         /\ Next1(w).op = refresh[r].at /\ Next1(w).paths = refresh[r].paths
         /\ Next1(w).paths \subseteq 1..disk[r] /\ Known(w) \subseteq 1..disk[r]
         /\ Asked(r) = IF Next1(w).op \in Telling THEN Next1(w).paths ELSE {}
         /\ Keeps(pool[w].state, due[r], Asked(r), disk[r])
         /\ due[r] \subseteq 1..disk[r]
<1>1. Next1(w).op = refresh[r].at /\ Next1(w).paths = refresh[r].paths /\ Relevant(w, r)
  BY WorkingIs
<1>2. /\ Keeps(pool[w].state, due[r], Asked(r), disk[r])
      /\ refresh[r].paths \subseteq 1..disk[r] /\ due[r] \subseteq 1..disk[r]
  BY <1>1 DEF Good, Accounts
<1>3. \A S \in pool[w].state : S \subseteq 1..disk[r]
  BY <1>2 DEF Keeps
<1>4. Known(w) \subseteq 1..disk[r]
  BY <1>3 DEF Known
<1>5. pool[w].state \in SUBSET (SUBSET Nat)
  BY ThreadType DEF Typed
<1> QED BY <1>1, <1>2, <1>4, <1>5 DEF Asked

(* An answer is good if what is due is among what it accounts for.         *)
LEMMA ReadsIsGood ==
  ASSUME Typed, NEW w \in DOMAIN pool, NEW r \in Repos, r = pool[w].repo,
         \A x \in Repos : Good(x), HasWork(w), Next1(w).op \in Refreshing,
         NEW has \in SUBSET (1..disk[r]), NEW later \in SUBSET has, Reads(w, has, later)
  PROVE  Good(r)' /\ Answered(w, r)
<1>1. /\ Step(w, {has}) /\ Answer(r, "answered", has)
      /\ due' = [due EXCEPT ![r] = later]
      /\ UNCHANGED <<disk, pending, inbox, worker, gather>>
  BY DEF Reads
<1>2. Keeps({has}, later, {}, disk[r])
  BY DEF Keeps
<1>3. has \in SUBSET Nat
  OBVIOUS
<1>4. {has} \in SUBSET (SUBSET Nat) /\ later \in SUBSET (1..disk[r])
  BY <1>3
<1>5. "answered" \in {"answered", "lost", "refused"}
  OBVIOUS
<1> QED BY <1>1, <1>2, <1>4, <1>5, AnswerIsGood

(* A full refresh of git reads every change there is. *)
LEMMA WorkFullIsGood ==
  ASSUME Typed, NEW w \in DOMAIN pool, NEW r \in Repos, r = pool[w].repo,
         \A x \in Repos : Good(x), WorkFull(w)
  PROVE  Good(r)' /\ Answered(w, r)
<1> DEFINE has == 1..disk[r]
           later == due[r] \cup 1..disk[r]
<1>1. HasWork(w) /\ Next1(w).op \in Refreshing /\ Reads(w, has, later)
  BY DEF WorkFull, Refreshing
<1>2. due[r] \subseteq 1..disk[r]
  BY <1>1, WorkerHas
<1>3. has \in SUBSET (1..disk[r]) /\ later \in SUBSET has
  BY <1>2
<1> HIDE DEF has, later
<1> QED BY <1>1, <1>3, ReadsIsGood

(* What is rebuilt from a store of jj, and from files the worker knows of, *)
(* is all that is due then.                                                *)
LEMMA RebuildIsGood ==
  ASSUME Typed, NEW w \in DOMAIN pool, NEW r \in Repos, r = pool[w].repo,
         \A x \in Repos : Good(x), Rebuild(w)
  PROVE  Good(r)' /\ Answered(w, r)
<1>1. HasWork(w) /\ Next1(w).op \in Refreshing
  BY DEF Rebuild, Refreshing
<1>2. Known(w) \subseteq 1..disk[r] /\ Next1(w).paths \subseteq 1..disk[r]
  BY <1>1, WorkerHas
<1> DEFINE again == CASE pool[w].state = NoState \/ Next1(w).op = "full" -> {}
                      [] OTHER -> IF Next1(w).op = "resync" THEN Known(w) ELSE Next1(w).paths
<1>3. PICK k \in 0..disk[r], ids \in SUBSET again : Reads(w, 1..k \cup ids, 1..k \cup ids)
  BY DEF Rebuild
<1>4. again \subseteq 1..disk[r]
  BY <1>2
<1> HIDE DEF again
<1>5. disk[r] \in Nat
  BY DEF Typed
<1>6. 1..k \subseteq 1..disk[r]
  BY <1>5
<1> DEFINE has == 1..k \cup ids
<1>7. has \in SUBSET (1..disk[r]) /\ has \in SUBSET has /\ Reads(w, has, has)
  BY <1>3, <1>4, <1>6
<1> HIDE DEF has
<1> QED BY <1>1, <1>7, ReadsIsGood

(* So is what git diffs again. *)
LEMMA DiffAgainIsGood ==
  ASSUME Typed, NEW w \in DOMAIN pool, NEW r \in Repos, r = pool[w].repo,
         \A x \in Repos : Good(x), DiffAgain(w)
  PROVE  Good(r)' /\ Answered(w, r)
<1>1. HasWork(w) /\ Next1(w).op \in Refreshing
  BY DEF DiffAgain, Refreshing
<1>2. Known(w) \subseteq 1..disk[r] /\ Next1(w).paths \subseteq 1..disk[r]
  BY <1>1, WorkerHas
<1>3. PICK has \in SUBSET (Known(w) \cup Next1(w).paths) : Reads(w, has, has)
  BY DEF DiffAgain
<1>4. has \in SUBSET (1..disk[r]) /\ has \in SUBSET has
  BY <1>2
<1> QED BY <1>1, <1>3, <1>4, ReadsIsGood

(* One that goes on from a state adds what it was told of, and the state   *)
(* has the rest of what is due, but for what it fails to diff.             *)
LEMMA WorkOnIsGood ==
  ASSUME Typed, NEW w \in DOMAIN pool, NEW r \in Repos, r = pool[w].repo,
         \A x \in Repos : Good(x), WorkOn(w)
  PROVE  Good(r)' /\ Answered(w, r)
<1>1. /\ HasWork(w) /\ Next1(w).op \in Refreshing /\ Next1(w).op \in Telling
      /\ pool[w].state # NoState
  BY DEF WorkOn, Refreshing, Telling
<1>2. /\ Known(w) \subseteq 1..disk[r] /\ Next1(w).paths \subseteq 1..disk[r]
      /\ Keeps(pool[w].state, due[r], Asked(r), disk[r]) /\ Asked(r) = Next1(w).paths
  BY <1>1, WorkerHas
<1>3. PICK S \in pool[w].state : TRUE
  BY <1>1 DEF NoState
<1>4. due[r] \subseteq Known(w) \cup Next1(w).paths
  BY <1>2, <1>3 DEF Keeps, Known
<1>5. PICK ids \in SUBSET Next1(w).paths :
        Reads(w, Known(w) \cup ids,
              (due[r] \ (Next1(w).paths \ (Known(w) \cup ids))) \cup (Known(w) \cup ids))
  BY DEF WorkOn
<1> DEFINE has == Known(w) \cup ids
           later == (due[r] \ (Next1(w).paths \ has)) \cup has
<1>6. has \in SUBSET (1..disk[r]) /\ later \in SUBSET has
  BY <1>2, <1>4
<1>7. Reads(w, has, later)
  BY <1>5
<1> HIDE DEF has, later
<1> QED BY <1>1, <1>6, <1>7, ReadsIsGood

(* A worker that refuses has no state. *)
LEMMA RefuseIsGood ==
  ASSUME Typed, NEW w \in DOMAIN pool, NEW r \in Repos, r = pool[w].repo,
         \A x \in Repos : Good(x), Refuse(w)
  PROVE  Good(r)' /\ Answered(w, r)
<1> DEFINE ps == Next1(w).paths
           d == due[r]
<1>1. /\ HasWork(w) /\ Next1(w).op \in Refreshing
      /\ Step(w, {}) /\ Answer(r, "refused", ps)
      /\ UNCHANGED <<disk, pending, due, inbox, worker, gather>>
  BY DEF Refuse, Refreshing, NoState
<1>2. ps \in SUBSET (1..disk[r]) /\ d \in SUBSET (1..disk[r])
  BY <1>1, WorkerHas
<1>3. due' = [due EXCEPT ![r] = d]
  BY <1>1 DEF Typed
<1>4. {} \in SUBSET (SUBSET Nat) /\ Keeps({}, d, {}, disk[r])
  BY DEF Keeps
<1>5. "refused" \in {"answered", "lost", "refused"} /\ "refused" # "answered"
  OBVIOUS
<1> HIDE DEF ps, d
<1> QED BY <1>1, <1>2, <1>3, <1>4, <1>5, AnswerIsGood

(* One that fails has its state, and nothing is due that this lacks.       *)
LEMMA WorkFailsIsGood ==
  ASSUME Typed, NEW w \in DOMAIN pool, NEW r \in Repos, r = pool[w].repo,
         \A x \in Repos : Good(x), WorkFails(w)
  PROVE  Good(r)' /\ Answered(w, r)
<1> DEFINE s == pool[w].state
           d == IF s = NoState THEN due[r] ELSE due[r] \ (Next1(w).paths \ Known(w))
<1>1. /\ HasWork(w) /\ Next1(w).op \in Refreshing
      /\ Step(w, s) /\ Answer(r, "lost", {})
      /\ UNCHANGED <<disk, pending, inbox, worker, gather>>
  BY DEF WorkFails, Refreshing
<1>2. /\ s \in SUBSET (SUBSET Nat) /\ due[r] \subseteq 1..disk[r]
      /\ Keeps(s, due[r], Asked(r), disk[r]) /\ Asked(r) \subseteq Next1(w).paths
  BY <1>1, WorkerHas
<1>3. due' = [due EXCEPT ![r] = d]
  <2>1. CASE s = NoState
    BY <2>1 DEF WorkFails, Typed
  <2>2. CASE s # NoState
    BY <2>2 DEF WorkFails
  <2> QED BY <2>1, <2>2
<1>4. Keeps(s, d, {}, disk[r])
  <2>1. ASSUME NEW S \in s PROVE S = UNION s /\ S \subseteq 1..disk[r] /\ d \subseteq S
    <3>1. S = Known(w) /\ S \subseteq 1..disk[r] /\ due[r] \subseteq S \cup Asked(r)
      BY <1>2 DEF Keeps, Known
    <3>2. s # NoState
      BY DEF NoState
    <3> QED BY <1>2, <3>1, <3>2 DEF Known
  <2> HIDE DEF d, s
  <2> QED BY <2>1 DEF Keeps
<1>5. d \in SUBSET (1..disk[r]) /\ {} \in SUBSET (1..disk[r])
  BY <1>2
<1>6. "lost" \in {"answered", "lost", "refused"} /\ "lost" # "answered"
  OBVIOUS
<1> HIDE DEF s, d
<1> QED BY <1>1, <1>2, <1>3, <1>4, <1>5, <1>6, AnswerIsGood

(* So is every answer to a refresh. *)
LEMMA WorkIsGood ==
  ASSUME Typed, NEW w \in DOMAIN pool, NEW r \in Repos, r = pool[w].repo,
         \A x \in Repos : Good(x), Work(w), ~WorkStats(w)
  PROVE  Good(r)' /\ Answered(w, r)
BY WorkFullIsGood, RebuildIsGood, DiffAgainIsGood, WorkOnIsGood, RefuseIsGood, WorkFailsIsGood DEF Work

(* A panic with a refresh in the queue loses it, and the state.            *)
LEMMA PanicIsGood ==
  ASSUME Typed, NEW w \in DOMAIN pool, NEW r \in Repos, r = pool[w].repo,
         \A x \in Repos : Good(x), Panic(w)
  PROVE  /\ Good(r)'
         /\ \A x \in Repos \ {r} : refresh'[x] = refresh[x]
         /\ refresh' \in [Repos -> Refresh]
<1> DEFINE q == pool[w].queue
           lost == \E i \in DOMAIN q : q[i].op # "stats"
           t == With(w, FALSE, <<>>, pool[w].state)
<1>1. r \in Repos /\ q \in Seq(Queued)
  BY ThreadType DEF Typed
<1>2. /\ pool' = [pool EXCEPT ![w].alive = FALSE, ![w].queue = <<>>]
      /\ UNCHANGED <<disk, pending, due, inbox, worker>>
      /\ refresh' = [refresh EXCEPT ![r] = IF lost THEN [@ EXCEPT !.at = "lost"] ELSE @]
  BY DEF Panic
<1>3. refresh[r] \in Refresh /\ refresh \in [Repos -> Refresh]
  BY <1>1 DEF Typed
<1>4. [refresh[r] EXCEPT !.at = "lost"] = [at |-> "lost", paths |-> refresh[r].paths]
  BY <1>3 DEF Refresh
<1>5. refresh'[r] = IF lost THEN [at |-> "lost", paths |-> refresh[r].paths] ELSE refresh[r]
  BY <1>1, <1>2, <1>3, <1>4
<1>6. refresh'[r] \in Refresh
  BY <1>3, <1>5 DEF Refresh
<1>7. refresh' \in [Repos -> Refresh] /\ \A x \in Repos \ {r} : refresh'[x] = refresh[x]
  BY <1>2, <1>3, <1>5, <1>6
<1>8. Good(r)
  BY <1>1
<1>9. CASE ~lost
  <2>1. DaemonAside(r)
    BY <1>1, <1>2, <1>5, <1>8, <1>9, SameDaemon
  <2>2. InboxAside(r)
    BY <1>1, <1>2, <1>8, SameInbox
  <2>3. PoolAside(r)
    BY <1>1, <1>2, <1>8, PanicAside
  <2>4. Aside(r)
    BY <1>2, <2>1, <2>2, <2>3 DEF Aside
  <2>5. Good(r)'
    BY <1>1, <1>8, <2>4, AsideIsGood
  <2> QED BY <1>7, <2>5
<1>10. CASE lost
  <2>1. PICK i \in DOMAIN q : q[i].op # "stats"
    BY <1>10
  <2>2. q[i] \in RefreshRequest
    BY <1>1, <2>1 DEF Queued
  <2>3. q[i].repo \in Repos /\ Holds(q, q[i].repo)
    BY <2>1, <2>2 DEF RefreshRequest, Holds, Asks
  <2>4. q[i].repo = r
    BY <2>3 DEF Good, OneFlight
  <2>5. /\ ~Holds(inbox, r) /\ worker[r] \in {0, w}
        /\ \A v \in DOMAIN pool : Holds(pool[v].queue, r) => v = w
    BY <1>1, <2>3, <2>4 DEF Good, OneFlight
  <2>6. Becomes(w, t)
    BY <1>2, PanicIs DEF Typed
  <2>7. t.repo = r /\ t.queue = <<>> /\ t.alive = FALSE
    BY DEF With
  <2>8. DOMAIN <<>> = {}
    OBVIOUS
  <2>9. ~Holds(<<>>, r)
    BY <2>8 DEF Holds
  <2> HIDE DEF t
  <2>10. /\ DOMAIN pool' = DOMAIN pool
         /\ pool'[w] = t /\ \A v \in DOMAIN pool \ {w} : pool'[v] = pool[v]
    BY <2>6 DEF Becomes
  <2>11. \A v \in DOMAIN pool' : ~Holds(pool'[v].queue, r)
    BY <2>5, <2>7, <2>9, <2>10
  <2>12. \A v \in DOMAIN pool' : ~Relevant(v, r)'
    <3>1. 0 \notin DOMAIN pool
      BY DEF Typed
    <3> QED BY <1>2, <2>5, <2>7, <2>10, <2>11, <3>1 DEF Relevant
  <2>13. Mapped(r)'
    BY <1>2, <1>8, <2>7, <2>10 DEF Good, Mapped
  <2>14. ~Asking(refresh'[r]) /\ refresh'[r].at # "answered"
    BY <1>5, <1>10 DEF Asking, Refreshing
  <2>15. /\ due'[r] \subseteq 1..disk'[r] /\ pending'[r] \subseteq 1..disk'[r]
         /\ refresh'[r].paths \subseteq 1..disk'[r] /\ ~Holds(inbox', r)
    BY <1>2, <1>5, <1>8, <1>10, <2>5 DEF Good, Accounts
  <2>16. Good(r)'
    BY <1>1, <2>11, <2>12, <2>13, <2>14, <2>15, NoneOutIsGood
  <2> QED BY <1>7, <2>16
<1> QED BY <1>9, <1>10

-----------------------------------------------------------------------------
(* Gathering statistics *)
(* What a gathering thread becomes                                         *)
LEMMA GathererIs ==
  ASSUME NEW x \in Gatherer, NEW a \in SUBSET Nat, NEW b \in SUBSET Nat
  PROVE  /\ [x EXCEPT !.asked = b] = [toAsk |-> x.toAsk, asked |-> b]
         /\ [x EXCEPT !.toAsk = a, !.asked = b] = [toAsk |-> a, asked |-> b]
<1>1. [x EXCEPT !.asked = b] = [toAsk |-> x.toAsk, asked |-> b]
  BY DEF Gatherer
<1> DEFINE y == [x EXCEPT !.toAsk = a]
<1>2. y = [toAsk |-> a, asked |-> x.asked]
  BY DEF Gatherer
<1>3. y \in Gatherer /\ y.toAsk = a
  BY <1>2 DEF Gatherer
<1>4. [x EXCEPT !.toAsk = a, !.asked = b] = [y EXCEPT !.asked = b]
  BY DEF Gatherer
<1> HIDE DEF y
<1>5. [y EXCEPT !.asked = b] = [toAsk |-> y.toAsk, asked |-> b]
  BY <1>3 DEF Gatherer
<1> QED BY <1>1, <1>3, <1>4, <1>5

(* The threads that gather ask only workers there are.                     *)
Gathered(gs, d) == gs \in Seq(Gatherer) /\ \A g \in DOMAIN gs : gs[g].toAsk \subseteq d

(* One gathering thread changes. *)
LEMMA GatherStep ==
  ASSUME NEW d, Gathered(gather, d), NEW g \in DOMAIN gather, NEW x \in Gatherer, x.toAsk \subseteq d,
         gather' = [gather EXCEPT ![g] = x]
  PROVE  Gathered(gather', d)
<1>1. Len(gather) \in Nat /\ g \in 1..Len(gather) /\ DOMAIN gather = 1..Len(gather) /\ gather \in Seq(Gatherer)
  BY DEF Gathered
<1>2. /\ gather' \in Seq(Gatherer) /\ Len(gather') = Len(gather)
      /\ \A i \in 1..Len(gather) : gather'[i] = IF i = g THEN x ELSE gather[i]
  BY <1>1, ExceptSeq
<1>3. DOMAIN gather' = 1..Len(gather)
  BY <1>2
<1> QED BY <1>1, <1>2, <1>3 DEF Gathered

(* The router starts another. *)
LEMMA GatherMore ==
  ASSUME NEW d, Gathered(gather, d), NEW x \in Gatherer, x.toAsk \subseteq d,
         gather' = Append(gather, x)
  PROVE  Gathered(gather', d)
<1>1. /\ gather \in Seq(Gatherer) /\ gather' \in Seq(Gatherer)
      /\ Len(gather) \in Nat /\ DOMAIN gather = 1..Len(gather)
      /\ DOMAIN gather' = 1..(Len(gather) + 1)
      /\ gather'[Len(gather) + 1] = x
      /\ \A i \in 1..Len(gather) : gather'[i] = gather[i]
  BY DEF Gathered
<1>2. \A i \in DOMAIN gather' : i = Len(gather) + 1 \/ i \in DOMAIN gather
  BY <1>1
<1> QED BY <1>1, <1>2 DEF Gathered

(* A panic answers for its worker to all of them. *)
LEMMA GatherAll ==
  ASSUME NEW d, Gathered(gather, d), NEW w,
         gather' = [g \in DOMAIN gather |-> [gather[g] EXCEPT !.asked = @ \ {w}]]
  PROVE  Gathered(gather', d)
<1>1. Len(gather) \in Nat /\ DOMAIN gather = 1..Len(gather) /\ gather \in Seq(Gatherer)
  BY DEF Gathered
<1>2. ASSUME NEW g \in DOMAIN gather
      PROVE  gather'[g] \in Gatherer /\ gather'[g].toAsk = gather[g].toAsk
  <2>1. gather[g] \in Gatherer
    BY <1>1
  <2>2. gather[g].asked \ {w} \in SUBSET Nat
    BY <2>1 DEF Gatherer
  <2>3. gather'[g] = [gather[g] EXCEPT !.asked = gather[g].asked \ {w}]
    OBVIOUS
  <2>4. gather'[g] = [toAsk |-> gather[g].toAsk, asked |-> gather[g].asked \ {w}]
    BY <2>1, <2>2, <2>3, GathererIs
  <2> QED BY <2>1, <2>2, <2>4 DEF Gatherer
<1>3. gather' \in [1..Len(gather) -> Gatherer]
  BY <1>1, <1>2
<1>4. gather' \in Seq(Gatherer)
  BY <1>1, <1>3, SeqDef
<1> QED BY <1>2, <1>4 DEF Gathered

-----------------------------------------------------------------------------
(* A refresh that starts, or goes on, asks a worker for something.         *)
LEMMA StartsAsk ==
  ASSUME Typed, NEW r \in Repos, RefreshChanged(r) \/ FallBack(r) \/ RefreshMissed(r)
  PROVE  \E op \in Refreshing, ps \in SUBSET Nat : Ask(r, op, ps)
<1>1. /\ Rescan(r) \in Refreshing
      /\ \A op \in {"incremental", "validate", "full"} : op \in Refreshing
  BY DEF Rescan, Refreshing
<1>2. pending[r] \in SUBSET Nat /\ {} \in SUBSET Nat
  BY DEF Typed
<1> QED BY <1>1, <1>2 DEF RefreshChanged, FallBack, RefreshMissed

(* Types are kept by the daemon, *)
LEMMA TypedDaemon ==
  ASSUME IInv, NEW r \in Repos,
         Change(r) \/ Daemon(r) \/ RefreshMissed(r) \/ Forget(r) \/ AskStats
  PROVE  Typed' /\ Gatherers'
<1>1. Typed /\ Gatherers
  BY DEF IInv
<1>2. UNCHANGED <<worker, pool, gather>>
  BY DEF Change, Daemon, RefreshChanged, FallBack, Done, RefreshMissed, Forget, AskStats
<1>3. Gatherers'
  BY <1>1, <1>2 DEF Gatherers
<1>4. disk' \in [Repos -> Nat] /\ pending' \in [Repos -> SUBSET Nat] /\ due' \in [Repos -> SUBSET Nat]
  <2>1. CASE Change(r)
    BY <1>1, <2>1 DEF Typed, Change
  <2>2. CASE RefreshChanged(r)
    BY <1>1, <2>2 DEF Typed, RefreshChanged
  <2>3. CASE FallBack(r) \/ Done(r) \/ RefreshMissed(r) \/ Forget(r) \/ AskStats
    BY <1>1, <2>3 DEF Typed, FallBack, Done, RefreshMissed, Forget, AskStats, daemon
  <2> QED BY <2>1, <2>2, <2>3 DEF Daemon
<1>5. refresh' \in [Repos -> Refresh]
  <2>1. CASE Change(r) \/ Forget(r) \/ AskStats
    BY <1>1, <2>1 DEF Typed, Change, Forget, AskStats, daemon
  <2>2. CASE RefreshChanged(r) \/ FallBack(r) \/ RefreshMissed(r)
    <3>1. PICK op \in Refreshing, ps \in SUBSET Nat : Ask(r, op, ps)
      BY <1>1, <2>2, StartsAsk
    <3>2. [at |-> op, paths |-> ps] \in Refresh
      BY DEF Refresh
    <3> QED BY <1>1, <3>1, <3>2 DEF Typed, Ask
  <2>3. CASE Done(r)
    BY <1>1, <2>3 DEF Typed, Done, Refresh, Idle
  <2> QED BY <2>1, <2>2, <2>3 DEF Daemon
<1>6. inbox' \in Seq(Inbound)
  <2>1. CASE inbox' = inbox
    BY <1>1, <2>1 DEF Typed
  <2>2. CASE \E m \in Inbound : inbox' = Append(inbox, m)
    BY <1>1, <2>2 DEF Typed
  <2>3. \A o \in Refreshing \cup {"forget"}, ps \in SUBSET Nat : Request(r, o, ps) \in Inbound
    BY DEF Request, Inbound, RefreshRequest
  <2>4. [op |-> "stats"] \in Inbound
    BY DEF Inbound
  <2>5. CASE Change(r) \/ Done(r)
    BY <2>1, <2>5 DEF Change, Done
  <2>6. CASE RefreshChanged(r) \/ FallBack(r) \/ RefreshMissed(r)
    <3>1. PICK op \in Refreshing, ps \in SUBSET Nat : Ask(r, op, ps)
      BY <1>1, <2>6, StartsAsk
    <3> QED BY <2>2, <2>3, <3>1 DEF Ask
  <2>7. CASE Forget(r)
    <3>1. inbox' = Append(inbox, Request(r, "forget", {}))
      BY <2>7 DEF Forget
    <3> QED BY <2>2, <2>3, <3>1
  <2>8. CASE AskStats
    <3>1. inbox' = Append(inbox, [op |-> "stats"])
      BY <2>8 DEF AskStats
    <3> QED BY <2>2, <2>4, <3>1
  <2> QED BY <2>5, <2>6, <2>7, <2>8 DEF Daemon
<1>7. Typed'
  BY <1>1, <1>2, <1>4, <1>5, <1>6 DEF Typed
<1> QED BY <1>3, <1>7

(* ... by the router, *)
LEMMA TypedRouter ==
  ASSUME IInv, Router
  PROVE  Typed' /\ Gatherers'
<1>1. Typed /\ Gatherers
  BY DEF IInv
<1>2. UNCHANGED daemon /\ inbox # <<>> /\ inbox' = Tail(inbox)
  BY DEF Router, Forward, Drop, Gather, Taking
<1>3. inbox' \in Seq(Inbound)
  BY <1>1, <1>2 DEF Typed
<1>4. Gathered(gather, DOMAIN pool)
  BY <1>1 DEF Typed, Gatherers, Gathered
<1>5. /\ worker' \in [Repos -> Nat] /\ pool' \in Seq(Thread)
      /\ Gathered(gather', DOMAIN pool')
  <2>1. CASE Forward
    <3> DEFINE req == inbox[1]
               r == req.repo
               w == worker[r]
    <3>1. Taking(Refreshing) /\ gather' = gather
      BY <2>1 DEF Forward
    <3>2. req \in Queued /\ r \in Repos
      BY <1>1, <3>1, TakenIs
    <3>3. CASE w # 0 /\ pool[w].alive
      <4>1. pool' = [pool EXCEPT ![w].queue = Append(@, req)] /\ worker' = worker
        BY <2>1, <3>3 DEF Forward
      <4>2. w \in DOMAIN pool
        BY <3>2, <3>3 DEF IInv, Good, Mapped
      <4> HIDE DEF req, w
      <4>3. pool' \in Seq(Thread) /\ DOMAIN pool' = DOMAIN pool
        BY <1>1, <3>2, <4>1, <4>2, PutIs DEF Typed, Becomes
      <4> QED BY <1>1, <1>4, <3>1, <4>1, <4>3 DEF Typed
    <3>4. CASE ~(w # 0 /\ pool[w].alive)
      <4>1. pool' = Append(pool, Spawned(r, req)) /\ worker' = [worker EXCEPT ![r] = Len(pool')]
        BY <2>1, <3>4 DEF Forward
      <4>2. Spawned(r, req) \in Thread
        <5>1. <<req>> \in Seq(Queued)
          BY <3>2
        <5> HIDE DEF req
        <5> QED BY <3>2, <5>1 DEF Spawned, NewWorker, NoState, Thread
      <4> HIDE DEF req, r, w
      <4>3. pool' \in Seq(Thread) /\ DOMAIN pool \subseteq DOMAIN pool' /\ Len(pool') \in Nat
        BY <1>1, <4>1, <4>2 DEF Typed
      <4>4. worker' \in [Repos -> Nat]
        BY <1>1, <4>1, <4>3 DEF Typed
      <4>5. Gathered(gather', DOMAIN pool')
        BY <1>4, <3>1, <4>3 DEF Gathered
      <4> QED BY <4>3, <4>4, <4>5
    <3> QED BY <3>3, <3>4
  <2>2. CASE Drop
    BY <1>1, <1>4, <2>2 DEF Drop, Typed
  <2>3. CASE Gather
    <3> DEFINE x == [toAsk |-> {worker[r] : r \in Repos} \ {0}, asked |-> {}]
    <3>1. gather' = Append(gather, x) /\ pool' = pool /\ worker' = worker
      BY <2>3 DEF Gather
    <3>2. {worker[r] : r \in Repos} \ {0} \subseteq DOMAIN pool
      BY DEF IInv, Good, Mapped
    <3>3. x \in Gatherer /\ x.toAsk \subseteq DOMAIN pool
      BY <1>1, <3>2 DEF Gatherer, Typed
    <3> HIDE DEF x
    <3>4. Gathered(gather', DOMAIN pool)
      BY <1>4, <3>1, <3>3, GatherMore
    <3> QED BY <1>1, <3>1, <3>4 DEF Typed
  <2> QED BY <2>1, <2>2, <2>3 DEF Router
<1> QED BY <1>1, <1>2, <1>3, <1>5 DEF Typed, Gatherers, Gathered, daemon

(* ... and by the workers and the threads that ask them. *)
LEMMA TypedWorker ==
  ASSUME IInv, NEW w \in DOMAIN pool, Work(w) \/ Panic(w) \/ \E g \in DOMAIN gather : AskWorker(g, w)
  PROVE  Typed' /\ Gatherers'
<1>1. Typed /\ Gatherers /\ \A r \in Repos : Good(r)
  BY DEF IInv
<1>2. Gathered(gather, DOMAIN pool)
  BY <1>1 DEF Typed, Gatherers, Gathered
<1>3. pool[w].repo \in Repos /\ pool[w].state \in SUBSET (SUBSET Nat)
  BY <1>1, ThreadType DEF Typed
<1> PICK r \in Repos : r = pool[w].repo
  BY <1>3
<1>4. /\ UNCHANGED <<disk, pending, inbox, worker>>
      /\ Answered(w, r) \/ (due' = due /\ (WorkStats(w) \/ Panic(w) \/ \E g \in DOMAIN gather : AskWorker(g, w)))
  <2>1. CASE Work(w) /\ ~WorkStats(w)
    BY <1>1, <2>1, WorkIsGood DEF Answered
  <2>2. CASE WorkStats(w)
    BY <2>2 DEF WorkStats, daemon
  <2>3. CASE Panic(w)
    BY <2>3 DEF Panic
  <2>4. CASE \E g \in DOMAIN gather : AskWorker(g, w)
    BY <2>4 DEF AskWorker, daemon
  <2> QED BY <2>1, <2>2, <2>3, <2>4
<1>5. due' \in [Repos -> SUBSET Nat]
  BY <1>1, <1>4 DEF Typed, Answered
<1>6. /\ refresh' \in [Repos -> Refresh]
      /\ pool' \in Seq(Thread) /\ DOMAIN pool' = DOMAIN pool
      /\ Gathered(gather', DOMAIN pool)
  <2>1. ASSUME Answered(w, r)
        PROVE  /\ refresh' \in [Repos -> Refresh]
               /\ pool' \in Seq(Thread) /\ DOMAIN pool' = DOMAIN pool
               /\ Gathered(gather', DOMAIN pool)
    <3>1. PICK s \in SUBSET (SUBSET Nat) : Step(w, s)
      BY <2>1 DEF Answered
    <3>2. pool' \in Seq(Thread) /\ DOMAIN pool' = DOMAIN pool
      BY <1>1, <2>1, <3>1, StepIs DEF Typed, Becomes, HasWork, Answered
    <3>3. PICK at \in {"answered", "lost", "refused"}, ps \in SUBSET Nat : Answer(r, at, ps)
      BY <2>1 DEF Answered
    <3>4. [at |-> at, paths |-> ps] \in Refresh
      BY DEF Refresh
    <3>5. refresh' \in [Repos -> Refresh]
      BY <1>1, <3>3, <3>4 DEF Typed, Answer
    <3>6. gather' = gather
      BY <2>1 DEF Answered
    <3> QED BY <1>2, <3>2, <3>5, <3>6
  <2>5. CASE WorkStats(w)
    <3>1. pool' \in Seq(Thread) /\ DOMAIN pool' = DOMAIN pool
      BY <1>1, <1>3, <2>5, StepIs DEF Typed, Becomes, HasWork, WorkStats
    <3>2. refresh' = refresh
      BY <2>5 DEF WorkStats, daemon
    <3> DEFINE g == Next1(w).gather
    <3>3. gather' = [gather EXCEPT ![g].asked = @ \ {w}]
      BY <2>5 DEF WorkStats
    <3> HIDE DEF g
    <3>4. CASE g \notin DOMAIN gather
      <4>1. gather' = gather
        BY <1>2, <3>3, <3>4 DEF Gathered
      <4> QED BY <1>1, <1>2, <3>1, <3>2, <4>1 DEF Typed
    <3>5. CASE g \in DOMAIN gather
      <4> DEFINE x == [gather[g] EXCEPT !.asked = gather[g].asked \ {w}]
      <4>1. gather' = [gather EXCEPT ![g] = x]
        BY <3>3
      <4>2. gather[g] \in Gatherer /\ gather[g].toAsk \subseteq DOMAIN pool
        BY <1>2, <3>5 DEF Gathered
      <4>3. gather[g].asked \ {w} \in SUBSET Nat /\ gather[g].toAsk \in SUBSET Nat
        BY <4>2 DEF Gatherer
      <4>4. x = [toAsk |-> gather[g].toAsk, asked |-> gather[g].asked \ {w}]
        BY <4>2, <4>3, GathererIs
      <4>5. x \in Gatherer /\ x.toAsk \subseteq DOMAIN pool
        BY <4>2, <4>3, <4>4 DEF Gatherer
      <4> HIDE DEF x
      <4>6. Gathered(gather', DOMAIN pool)
        BY <1>2, <3>5, <4>1, <4>5, GatherStep
      <4> QED BY <1>1, <3>1, <3>2, <4>6 DEF Typed
    <3> QED BY <3>4, <3>5
  <2>6. CASE Panic(w)
    <3>1. refresh' \in [Repos -> Refresh]
      BY <1>1, <2>6, PanicIsGood
    <3>2. pool' \in Seq(Thread) /\ DOMAIN pool' = DOMAIN pool
      BY <1>1, <2>6, PanicIs DEF Typed, Becomes, Panic
    <3>3. Gathered(gather', DOMAIN pool)
      BY <1>2, <2>6, GatherAll DEF Panic
    <3> QED BY <3>1, <3>2, <3>3
  <2>7. CASE \E g \in DOMAIN gather : AskWorker(g, w)
    <3>1. PICK g \in DOMAIN gather : AskWorker(g, w)
      BY <2>7
    <3>2. refresh' = refresh
      BY <3>1 DEF AskWorker, daemon
    <3>3. Stats(g) \in Queued
      <4>1. g \in Nat
        BY <1>1 DEF Typed
      <4> QED BY <4>1 DEF Stats, Queued
    <3>4. pool' \in Seq(Thread) /\ DOMAIN pool' = DOMAIN pool
      <4>1. CASE pool[w].alive
        <5>1. pool' = [pool EXCEPT ![w].queue = Append(@, Stats(g))]
          BY <3>1, <4>1 DEF AskWorker
        <5> QED BY <1>1, <3>3, <5>1, PutIs DEF Typed, Becomes
      <4>2. CASE ~pool[w].alive
        BY <1>1, <3>1, <4>2 DEF AskWorker, Typed
      <4> QED BY <4>1, <4>2
    <3> DEFINE a == gather[g].toAsk \ {w}
               b == IF pool[w].alive THEN gather[g].asked \cup {w} ELSE gather[g].asked
               x == [gather[g] EXCEPT !.toAsk = a, !.asked = b]
    <3>5. gather' = [gather EXCEPT ![g] = x]
      BY <3>1 DEF AskWorker
    <3>6. gather[g] \in Gatherer /\ gather[g].toAsk \subseteq DOMAIN pool
      BY <1>2 DEF Gathered
    <3>7. w \in Nat
      BY <1>1 DEF Typed
    <3>8. a \in SUBSET Nat /\ b \in SUBSET Nat /\ a \subseteq DOMAIN pool
      BY <3>6, <3>7 DEF Gatherer
    <3> HIDE DEF a, b
    <3>9. x = [toAsk |-> a, asked |-> b]
      BY <3>6, <3>8, GathererIs
    <3>10. x \in Gatherer /\ x.toAsk \subseteq DOMAIN pool
      BY <3>8, <3>9 DEF Gatherer
    <3> HIDE DEF x
    <3>11. Gathered(gather', DOMAIN pool)
      BY <1>2, <3>5, <3>10, GatherStep
    <3> QED BY <1>1, <3>2, <3>4, <3>11 DEF Typed
  <2> QED BY <1>4, <2>1, <2>5, <2>6, <2>7
<1> QED BY <1>1, <1>4, <1>5, <1>6 DEF Typed, Gatherers, Gathered

-----------------------------------------------------------------------------
(* What holds of a repository is kept by the daemon, *)
LEMMA GoodDaemon ==
  ASSUME IInv, NEW s \in Repos, Change(s) \/ Daemon(s) \/ RefreshMissed(s) \/ Forget(s) \/ AskStats,
         NEW r \in Repos
  PROVE  Good(r)'
<1>1. Typed /\ Good(r) /\ Good(s)
  BY DEF IInv
<1>2. pool' = pool /\ worker' = worker
  BY DEF Change, Daemon, RefreshChanged, FallBack, Done, RefreshMissed, Forget, AskStats
<1>3. PoolAside(r)
  BY <1>1, <1>2, SamePool
<1>4. \A o \in Refreshing \cup {"forget"}, ps \in SUBSET Nat : Request(s, o, ps) \in Inbound
  BY DEF Request, Inbound, RefreshRequest
<1>5. pending[s] \in SUBSET Nat /\ refresh \in [Repos -> Refresh]
  BY <1>1 DEF Typed
<1>6. ASSUME NEW o \in Refreshing, NEW ps \in SUBSET Nat, Ask(s, o, ps),
             ~Asking(refresh[s]), disk' = disk,
             due'[s] \subseteq due[s] \cup (IF o \in Telling THEN ps ELSE {}),
             due'[s] \subseteq 1..disk[s], pending'[s] \subseteq 1..disk[s], ps \subseteq 1..disk[s],
             \A x \in Repos \ {s} : due'[x] = due[x] /\ pending'[x] = pending[x]
      PROVE  Good(r)'
  <2>1. CASE r = s
    BY <1>1, <1>2, <1>6, <2>1, AskIsGood
  <2>2. CASE r # s
    <3>1. ~Asks(Request(s, o, ps), r)
      BY <2>2 DEF Asks, Request
    <3>2. InboxAside(r)
      BY <1>1, <1>4, <1>6, <3>1, InboxGrows DEF Ask
    <3>3. refresh'[r] = refresh[r]
      BY <1>5, <1>6, <2>2 DEF Ask
    <3>4. DaemonAside(r)
      BY <1>1, <1>6, <2>2, <3>3, SameDaemon
    <3> QED BY <1>1, <1>2, <1>3, <3>2, <3>4, AsideIsGood DEF Aside
  <2> QED BY <2>1, <2>2
<1>7. CASE Change(s)
  <2>1. inbox' = inbox /\ refresh' = refresh /\ due' = due
    BY <1>7 DEF Change
  <2>2. /\ disk'[s] = disk[s] + 1 /\ pending'[s] = pending[s] \cup {disk'[s]}
        /\ \A x \in Repos \ {s} : disk'[x] = disk[x] /\ pending'[x] = pending[x]
    BY <1>1, <1>7 DEF Change, Typed
  <2>3. disk[r] \in Nat /\ disk[s] \in Nat /\ pending[r] \subseteq 1..disk[r]
    BY <1>1 DEF Typed, Good, Accounts
  <2>4. DaemonAside(r)
    BY <2>1, <2>2, <2>3 DEF DaemonAside
  <2>5. InboxAside(r)
    BY <1>1, <2>1, SameInbox
  <2> QED BY <1>1, <1>2, <1>3, <2>4, <2>5, AsideIsGood DEF Aside
<1>8. CASE RefreshChanged(s)
  <2>1. refresh[s] = Idle /\ disk' = disk
    BY <1>8 DEF RefreshChanged
  <2>2. ~Asking(refresh[s])
    BY <2>1 DEF Asking, Idle, Refreshing
  <2>3. /\ pending'[s] = {} /\ \A x \in Repos \ {s} : pending'[x] = pending[x]
        /\ due[s] \subseteq 1..disk[s] /\ pending[s] \subseteq 1..disk[s]
    BY <1>1, <1>8 DEF RefreshChanged, Typed, Good, Accounts
  <2>4. CASE due' = [due EXCEPT ![s] = @ \cup pending[s]]
             /\ \E op \in {"incremental", "validate"} : Ask(s, op, pending[s])
    <3>1. PICK op \in {"incremental", "validate"} : Ask(s, op, pending[s])
      BY <2>4
    <3>2. op \in Refreshing /\ op \in Telling
      BY DEF Refreshing, Telling
    <3>3. due'[s] = due[s] \cup pending[s] /\ \A x \in Repos \ {s} : due'[x] = due[x]
      BY <1>1, <2>4 DEF Typed
    <3> DEFINE ps == pending[s]
    <3>4. /\ due'[s] \subseteq due[s] \cup ps /\ ps \in SUBSET Nat /\ ps \subseteq 1..disk[s]
          /\ due'[s] \subseteq 1..disk[s] /\ pending'[s] \subseteq 1..disk[s] /\ Ask(s, op, ps)
      BY <1>5, <2>3, <3>1, <3>3
    <3> HIDE DEF ps
    <3> QED BY <1>6, <2>1, <2>2, <2>3, <3>2, <3>3, <3>4
  <2>5. CASE Ask(s, Rescan(s), {}) /\ due' = due
    <3>1. Rescan(s) \in Refreshing
      BY DEF Rescan, Refreshing
    <3>2. /\ due'[s] \subseteq due[s] \cup {} /\ {} \in SUBSET Nat /\ {} \subseteq 1..disk[s]
          /\ pending'[s] \subseteq 1..disk[s] /\ due'[s] \subseteq 1..disk[s]
      BY <2>3, <2>5
    <3> QED BY <1>6, <2>1, <2>2, <2>3, <2>5, <3>1, <3>2
  <2> QED BY <1>8, <2>4, <2>5 DEF RefreshChanged
<1>9. CASE RefreshMissed(s) \/ FallBack(s)
  <2>1. PICK op \in Refreshing : Ask(s, op, {})
    <3>1. Rescan(s) \in Refreshing /\ "full" \in Refreshing /\ "validate" \in Refreshing
      BY DEF Rescan, Refreshing
    <3> QED BY <1>9, <3>1 DEF RefreshMissed, FallBack
  <2>2. disk' = disk /\ due' = due /\ pending' = pending
    BY <1>9 DEF RefreshMissed, FallBack
  <2>3. ~Asking(refresh[s])
    BY <1>9 DEF RefreshMissed, FallBack, Asking, Idle, Refreshing
  <2>4. due[s] \subseteq 1..disk[s] /\ pending[s] \subseteq 1..disk[s] /\ {} \subseteq 1..disk[s]
    BY <1>1 DEF Good, Accounts
  <2> QED BY <1>6, <2>1, <2>2, <2>3, <2>4
<1>10. CASE Done(s)
  <2>1. CASE r = s
    BY <1>1, <1>10, <2>1, DoneIsGood
  <2>2. CASE r # s
    <3>1. inbox' = inbox /\ refresh'[r] = refresh[r] /\ disk' = disk /\ due' = due /\ pending' = pending
      BY <1>5, <1>10, <2>2 DEF Done
    <3>2. InboxAside(r) /\ DaemonAside(r)
      BY <1>1, <3>1, SameInbox, SameDaemon
    <3> QED BY <1>1, <1>2, <1>3, <3>2, AsideIsGood DEF Aside
  <2> QED BY <2>1, <2>2
<1>11. CASE Forget(s) \/ AskStats
  <2>1. UNCHANGED daemon
    BY <1>11 DEF Forget, AskStats
  <2>2. DaemonAside(r)
    BY <1>1, <2>1, SameDaemon DEF daemon
  <2>3. ~Asks(Request(s, "forget", {}), r) /\ ~Asks([op |-> "stats"], r)
    BY DEF Asks, Request, Refreshing
  <2>4. [op |-> "stats"] \in Inbound
    BY DEF Inbound
  <2>5. InboxAside(r)
    <3>1. CASE Forget(s)
      <4>1. inbox' = Append(inbox, Request(s, "forget", {})) /\ Request(s, "forget", {}) \in Inbound
        BY <1>4, <3>1 DEF Forget
      <4> QED BY <1>1, <2>3, <4>1, InboxGrows
    <3>2. CASE AskStats
      BY <1>1, <2>3, <2>4, <3>2, InboxGrows DEF AskStats
    <3> QED BY <1>11, <3>1, <3>2
  <2> QED BY <1>1, <1>2, <1>3, <2>2, <2>5, AsideIsGood DEF Aside
<1> QED BY <1>7, <1>8, <1>9, <1>10, <1>11 DEF Daemon

(* ... by the router, *)
LEMMA GoodRouter ==
  ASSUME IInv, Router, NEW r \in Repos
  PROVE  Good(r)'
<1>1. Typed /\ Good(r) /\ worker \in [Repos -> Nat]
  BY DEF IInv, Typed
<1>2. UNCHANGED daemon /\ inbox # <<>> /\ inbox' = Tail(inbox)
  BY DEF Router, Forward, Drop, Gather, Taking
<1>3. DaemonAside(r) /\ InboxAside(r)
  BY <1>1, <1>2, SameDaemon, InboxShrinks DEF daemon
<1>4. CASE Forward
  <2> DEFINE req == inbox[1]
             s == req.repo
             w == worker[s]
  <2>1. Taking(Refreshing)
    BY <1>4 DEF Forward
  <2>2. req \in Queued /\ s \in Repos /\ (r # s => ~Asks(req, r))
    BY <1>1, <2>1, TakenIs
  <2>3. Good(s)
    BY <2>2 DEF IInv
  <2>4. CASE w # 0 /\ pool[w].alive
    <3>1. pool' = [pool EXCEPT ![w].queue = Append(@, req)] /\ worker' = worker
      BY <1>4, <2>4 DEF Forward
    <3>2. w \in DOMAIN pool
      BY <2>3, <2>4 DEF Good, Mapped
    <3>3. pool[w].alive = TRUE
      <4>1. pool[w].alive \in BOOLEAN
        BY <1>1, <3>2, ThreadType DEF Typed
      <4> QED BY <2>4, <4>1
    <3>4. CASE r = s
      BY <1>1, <1>2, <2>1, <2>4, <3>1, <3>3, <3>4, ForwardIsGood
    <3>5. CASE r # s
      <4> HIDE DEF req, w
      <4>1. PoolAside(r)
        BY <1>1, <2>2, <3>1, <3>2, <3>5, PutAside
      <4> QED BY <1>1, <1>3, <3>1, <4>1, AsideIsGood DEF Aside
    <3> QED BY <3>4, <3>5
  <2>5. CASE ~(w # 0 /\ pool[w].alive)
    <3>1. pool' = Append(pool, Spawned(s, req)) /\ worker' = [worker EXCEPT ![s] = Len(pool')]
      BY <1>4, <2>5 DEF Forward
    <3>2. CASE r = s
      <4>1. worker'[r] = Len(pool')
        BY <1>1, <3>1, <3>2
      <4> QED BY <1>1, <1>2, <2>1, <3>1, <3>2, <4>1, SpawnIsGood
    <3>3. CASE r # s
      <4> DEFINE t == Spawned(s, req)
      <4>1. t.repo = s /\ t.queue = <<req>>
        BY DEF Spawned, NewWorker
      <4>2. DOMAIN <<req>> = {1} /\ <<req>>[1] = req
        OBVIOUS
      <4>3. ~Holds(<<req>>, r)
        BY <2>2, <3>3, <4>2 DEF Holds
      <4>4. Fits(<<req>>, r, refresh[r])
        BY <2>2, <3>3, <4>2 DEF Fits
      <4>5. worker'[r] = worker[r]
        BY <1>1, <3>1, <3>3
      <4> HIDE DEF t, req, s, w
      <4>6. /\ DOMAIN pool' = DOMAIN pool \cup {Len(pool) + 1} /\ Len(pool) + 1 \notin DOMAIN pool
            /\ pool'[Len(pool) + 1] = t /\ \A v \in DOMAIN pool : pool'[v] = pool[v]
        <5>1. pool \in Seq(Thread) /\ Len(pool) \in Nat
          BY <1>1 DEF Typed
        <5>2. pool' = Append(pool, t)
          BY <3>1 DEF t
        <5> QED BY <5>1, <5>2
      <4>7. \A v \in DOMAIN pool : Fits(pool[v].queue, r, refresh[r])
              /\ (Holds(pool[v].queue, r) => pool[v].alive = TRUE)
        BY <1>1 DEF Good, OneFlight
      <4>8. PoolAside(r)
        BY <3>3, <4>1, <4>3, <4>4, <4>6, <4>7 DEF PoolAside
      <4> QED BY <1>1, <1>3, <4>5, <4>8, AsideIsGood DEF Aside
    <3> QED BY <3>2, <3>3
  <2> QED BY <2>4, <2>5
<1>5. CASE Drop
  <2>1. pool' = pool /\ worker'[r] \in {worker[r], 0}
    BY <1>1, <1>5 DEF Drop
  <2>2. PoolAside(r)
    BY <1>1, <2>1, SamePool
  <2> QED BY <1>1, <1>3, <2>1, <2>2, AsideIsGood DEF Aside
<1>6. CASE Gather
  <2>1. pool' = pool /\ worker' = worker
    BY <1>6 DEF Gather
  <2>2. PoolAside(r)
    BY <1>1, <2>1, SamePool
  <2> QED BY <1>1, <1>3, <2>1, <2>2, AsideIsGood DEF Aside
<1> QED BY <1>4, <1>5, <1>6 DEF Router

(* ... and by the workers and the threads that ask them. *)
LEMMA GoodWorker ==
  ASSUME IInv, NEW w \in DOMAIN pool, Work(w) \/ Panic(w) \/ \E g \in DOMAIN gather : AskWorker(g, w),
         NEW r \in Repos
  PROVE  Good(r)'
<1>1. Typed /\ Good(r) /\ \A x \in Repos : Good(x)
  BY DEF IInv
<1>2. pool[w].repo \in Repos /\ pool[w].state \in SUBSET (SUBSET Nat) /\ refresh \in [Repos -> Refresh]
  BY <1>1, ThreadType DEF Typed
<1>3. ASSUME UNCHANGED <<disk, pending, inbox, worker>>, refresh'[r] = refresh[r], due'[r] = due[r],
             PoolAside(r)
      PROVE  Good(r)'
  <2>1. DaemonAside(r) /\ InboxAside(r)
    BY <1>1, <1>3, SameDaemon, SameInbox
  <2> QED BY <1>1, <1>3, <2>1, AsideIsGood DEF Aside
<1>4. CASE Work(w) /\ ~WorkStats(w)
  <2>1. PICK x \in Repos : x = pool[w].repo
    BY <1>2
  <2>2. Good(x)' /\ Answered(w, x)
    BY <1>1, <1>4, <2>1, WorkIsGood
  <2>3. CASE r # x
    <3>1. PICK s \in SUBSET (SUBSET Nat) : Step(w, s)
      BY <2>2 DEF Answered
    <3>2. PoolAside(r)
      BY <1>1, <2>1, <2>2, <2>3, <3>1, StepAside DEF HasWork, Answered
    <3>3. refresh'[r] = refresh[r]
      BY <1>2, <2>2, <2>3 DEF Answer, Answered
    <3>4. due'[r] = due[r]
      BY <1>1, <2>2, <2>3 DEF Typed, Answered
    <3> QED BY <1>3, <2>2, <3>2, <3>3, <3>4 DEF Answered
  <2> QED BY <2>2, <2>3
<1>5. CASE WorkStats(w)
  <2>1. HasWork(w) /\ Step(w, pool[w].state) /\ UNCHANGED <<daemon, inbox, worker>>
    BY <1>5 DEF WorkStats
  <2> DEFINE s == pool[w].state
  <2>2. PoolAside(r)
    BY <1>1, <1>2, <2>1, StepAside DEF HasWork
  <2> QED BY <1>3, <2>1, <2>2 DEF daemon
<1>6. CASE Panic(w)
  <2>1. PoolAside(r)
    BY <1>1, <1>6, PanicAside DEF Panic
  <2>2. CASE r = pool[w].repo
    BY <1>1, <1>6, <2>2, PanicIsGood
  <2>3. CASE r # pool[w].repo
    <3>1. refresh'[r] = refresh[r] /\ UNCHANGED <<disk, pending, due, inbox, worker>>
      BY <1>2, <1>6, <2>3 DEF Panic
    <3> QED BY <1>3, <2>1, <3>1
  <2> QED BY <2>2, <2>3
<1>7. CASE \E g \in DOMAIN gather : AskWorker(g, w)
  <2>1. PICK g \in DOMAIN gather : AskWorker(g, w)
    BY <1>7
  <2>2. UNCHANGED <<disk, pending, refresh, due, inbox, worker>>
    BY <2>1 DEF AskWorker, daemon
  <2>3. Stats(g) \in Queued /\ ~Asks(Stats(g), r)
    <3>1. g \in Nat
      BY <1>1 DEF Typed
    <3> QED BY <3>1 DEF Stats, Queued, Asks, Refreshing
  <2>4. PoolAside(r)
    <3>1. CASE pool[w].alive
      <4>1. pool' = [pool EXCEPT ![w].queue = Append(@, Stats(g))]
        BY <2>1, <3>1 DEF AskWorker
      <4> QED BY <1>1, <2>3, <4>1, PutAside
    <3>2. CASE ~pool[w].alive
      <4>1. pool' = pool
        BY <2>1, <3>2 DEF AskWorker
      <4> QED BY <1>1, <4>1, SamePool
    <3> QED BY <3>1, <3>2
  <2> QED BY <1>3, <2>2, <2>4
<1> QED BY <1>4, <1>5, <1>6, <1>7 DEF Work

(* The invariant is one. *)
LEMMA StepIInv == IInv /\ [Next]_vars => IInv'
<1> SUFFICES ASSUME IInv, [Next]_vars PROVE IInv'
  OBVIOUS
<1>1. ASSUME NEW s \in Repos, Change(s) \/ Daemon(s) \/ RefreshMissed(s) \/ Forget(s) \/ AskStats
      PROVE  IInv'
  BY <1>1, TypedDaemon, GoodDaemon DEF IInv
<1>2. CASE Router
  BY <1>2, TypedRouter, GoodRouter DEF IInv
<1>3. ASSUME NEW w \in DOMAIN pool, Work(w) \/ Panic(w) \/ \E g \in DOMAIN gather : AskWorker(g, w)
      PROVE  IInv'
  BY <1>3, TypedWorker, GoodWorker DEF IInv
<1>4. CASE AskStats
  <2>1. Typed' /\ Gatherers'
    <3>1. UNCHANGED <<daemon, worker, pool, gather>> /\ inbox' = Append(inbox, [op |-> "stats"])
      BY <1>4 DEF AskStats
    <3>2. [op |-> "stats"] \in Inbound
      BY DEF Inbound
    <3>3. inbox' \in Seq(Inbound)
      BY <3>1, <3>2 DEF IInv, Typed
    <3> QED BY <3>1, <3>3 DEF IInv, Typed, Gatherers, daemon
  <2>2. \A r \in Repos : Good(r)'
    BY <1>4, GoodDaemon
  <2> QED BY <2>1, <2>2 DEF IInv
<1>5. CASE Gathering
  <2>1. PICK g \in DOMAIN gather : \E w \in gather[g].toAsk : AskWorker(g, w)
    BY <1>5 DEF Gathering
  <2>2. PICK w \in gather[g].toAsk : AskWorker(g, w)
    BY <2>1
  <2>3. w \in DOMAIN pool
    BY DEF IInv, Gatherers
  <2> QED BY <1>3, <2>2, <2>3
<1>6. CASE UNCHANGED vars
  BY <1>6 DEF vars, daemon, IInv, Typed, Gatherers, Good, OneFlight, Mapped, Accounts, Asked, Relevant
<1> QED BY <1>1, <1>2, <1>3, <1>4, <1>5, <1>6 DEF Next

(* Every reachable state satisfies it. *)
LEMMA SpecIInv == Spec => []IInv
BY InitIInv, StepIInv, PTL DEF Spec

(* Whatever workers die or are dropped, and however requests, statistics   *)
(* and answers interleave, spawn_git_worker hands no worker a state that   *)
(* misses a change reported to, or answered for by, a worker of the        *)
(* repository before (jj_router_loop is the same): an answer accounts for  *)
(* them all, but for those a request lost by itself, as it failed with the *)
(* state kept, failed to diff a file, or rebuilt a state of jj from the    *)
(* store.                                                                  *)
THEOREM AnswersAccount == Spec => []AnswersCoverReports
<1>1. IInv => AnswersCoverReports
  BY DEF IInv, Good, Accounts, AnswersCoverReports
<1> QED BY <1>1, SpecIInv, PTL

=============================================================================
