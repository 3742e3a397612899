----------------------- MODULE RefreshSchedulerProofs -----------------------
(***************************************************************************)
(* Theorems about the refresh loop, for any repositories, changes, event   *)
(* shapes and bounds.                                                      *)
(***************************************************************************)
EXTENDS RefreshScheduler, FiniteSetTheorems, TLAPS

(* A value is in a queue; it is there at most once. *)
In(q, x)   == Places(q, x) # {}
Once(q, x) == \A i, j \in Places(q, x) : i = j

-----------------------------------------------------------------------------
(* Queues *)

(* Appending a value puts it in the queue and nothing else. *)
LEMMA InAppend ==
  ASSUME NEW S, NEW q \in Seq(S), NEW m \in S, NEW x
  PROVE  In(Append(q, m), x) <=> (m = x \/ In(q, x))
<1> DEFINE a == Append(q, m)
<1>1. /\ DOMAIN a = 1..(Len(q) + 1) /\ DOMAIN q = 1..Len(q) /\ Len(q) \in Nat
      /\ a[Len(q) + 1] = m
      /\ \A i \in 1..Len(q) : a[i] = q[i]
  OBVIOUS
<1> QED BY <1>1 DEF In, Places

(* A value that is not there yet, or is not the one appended, stays single. *)
LEMMA OnceAppend ==
  ASSUME NEW S, NEW q \in Seq(S), NEW m \in S, NEW x,
         Once(q, x), m # x \/ ~In(q, x)
  PROVE  Once(Append(q, m), x)
<1> DEFINE a == Append(q, m)
<1>1. /\ DOMAIN a = 1..(Len(q) + 1) /\ DOMAIN q = 1..Len(q) /\ Len(q) \in Nat
      /\ a[Len(q) + 1] = m
      /\ \A i \in 1..Len(q) : a[i] = q[i]
  OBVIOUS
<1> QED BY <1>1 DEF In, Once, Places

(* Tail shifts a queue by one place. *)
LEMMA TailShifts ==
  ASSUME NEW S, NEW q \in Seq(S), q # <<>>
  PROVE  /\ Len(q) \in Nat \ {0}
         /\ DOMAIN q = 1..Len(q) /\ DOMAIN Tail(q) = 1..(Len(q) - 1)
         /\ \A i \in 1..(Len(q) - 1) : Tail(q)[i] = q[i + 1]
         /\ Head(q) = q[1]
  OBVIOUS

(* Taking the head removes it, and leaves every other value where it was. *)
LEMMA InTail ==
  ASSUME NEW S, NEW q \in Seq(S), q # <<>>, NEW x
  PROVE  /\ Head(q) # x => (In(Tail(q), x) <=> In(q, x))
         /\ Head(q) = x => In(q, x)
         /\ Head(q) = x /\ Once(q, x) => ~In(Tail(q), x)
         /\ Once(q, x) => Once(Tail(q), x)
<1>1. \A i \in Places(Tail(q), x) : i \in Int /\ i + 1 \in Places(q, x) /\ i # 0
  BY TailShifts DEF Places
<1>2. \A i \in Places(q, x) : i \in Int /\ (i = 1 \/ i - 1 \in Places(Tail(q), x))
  BY TailShifts DEF Places
<1>3. 1 \in Places(q, x) <=> Head(q) = x
  BY TailShifts DEF Places
<1> QED BY <1>1, <1>2, <1>3 DEF In, Once

-----------------------------------------------------------------------------
(* Types *)

(* Merging keeps PendingRefresh records what they are. *)
LEMMA MergeType ==
  ASSUME NEW p \in PendingRefresh, NEW q \in PendingRefresh
  PROVE  Merge(p, q) \in PendingRefresh
BY DEF PendingRefresh, Merge, MaxHint, Hint

(* The record of one event is a PendingRefresh. *)
LEMMA IncomingType ==
  ASSUME NEW e \in ChangeEvents
  PROVE  Incoming(e) \in PendingRefresh
BY DEF PendingRefresh, Incoming, ChangeEvents, Shape, Hint

(* Every map entry has a record; the empty one is a record too. *)
LEMMA EntryType ==
  /\ NoWork \in PendingRefresh
  /\ \A s \in RepoRefreshState : s.pending \in PendingRefresh
  /\ \A s \in RepoRefreshState : s.phase \in {"absent", "inflight", "debouncing", "pending"}
  /\ Absent \in RepoRefreshState /\ InFlight \in RepoRefreshState
  /\ \A p \in PendingRefresh : Debouncing(p) \in RepoRefreshState /\ Pending(p) \in RepoRefreshState
<1>1. NoWork \in PendingRefresh
  BY DEF NoWork, PendingRefresh, Hint
<1> QED BY <1>1 DEF RepoRefreshState, Absent, InFlight, Debouncing, Pending

(* A refresh that ends leaves a shorter sequence of records behind. *)
LEMMA RemoveAtType ==
  ASSUME NEW S, NEW q \in Seq(S), NEW i \in DOMAIN q
  PROVE  /\ RemoveAt(q, i) \in Seq(S)
         /\ Len(q) <= 1 => RemoveAt(q, i) = <<>>
<1>1. Len(q) \in Nat /\ DOMAIN q = 1..Len(q)
  OBVIOUS
<1>2. SubSeq(q, 1, i - 1) \in Seq(S) /\ Len(SubSeq(q, 1, i - 1)) = i - 1
  BY <1>1
<1>3. SubSeq(q, i + 1, Len(q)) \in Seq(S) /\ Len(SubSeq(q, i + 1, Len(q))) = Len(q) - i
  BY <1>1
<1>4. RemoveAt(q, i) \in Seq(S) /\ Len(RemoveAt(q, i)) = (i - 1) + (Len(q) - i)
  BY <1>2, <1>3 DEF RemoveAt
<1> QED BY <1>1, <1>4

(* A Change leaves a map entry behind. *)
LEMMA AfterChangeType ==
  ASSUME NEW s \in RepoRefreshState, NEW p \in PendingRefresh
  PROVE  AfterChange(s, p) \in RepoRefreshState
<1>1. CASE s.phase = "absent" \/ s.phase = "inflight"
  BY <1>1, EntryType DEF AfterChange
<1>2. CASE s.phase \notin {"absent", "inflight"}
  <2>1. s.phase \in {"debouncing", "pending"}
    BY <1>2, EntryType
  <2>2. Merge(s.pending, p) \in PendingRefresh
    BY EntryType, MergeType
  <2>3. [phase |-> s.phase, pending |-> Merge(s.pending, p)]
          \in [phase : {"debouncing", "pending"}, pending : PendingRefresh]
    BY <2>1, <2>2
  <2> QED BY <1>2, <2>3 DEF AfterChange, RepoRefreshState
<1> QED BY <1>1, <1>2

(* Starting a refresh adds its record to the repository's sequence only. *)
LEMMA StartedType ==
  ASSUME NEW f \in [Repos -> Seq(PendingRefresh)], NEW r \in Repos, NEW p \in PendingRefresh
  PROVE  /\ Started(f, r, p) \in [Repos -> Seq(PendingRefresh)]
         /\ Started(f, r, p)[r] = Append(f[r], p)
         /\ \A q \in Repos \ {r} : Started(f, r, p)[q] = f[q]
<1>1. Append(f[r], p) \in Seq(PendingRefresh)
  OBVIOUS
<1> QED BY <1>1 DEF Started

(* A place of a sequence holds an element of its set. *)
LEMMA ElementType ==
  ASSUME NEW S, NEW q \in Seq(S), NEW i \in DOMAIN q
  PROVE  q[i] \in S
OBVIOUS

(* A sequence of at most one element is empty or has length one. *)
LEMMA ShortSequence ==
  ASSUME NEW S, NEW q \in Seq(S), Len(q) <= 1
  PROVE  (q = <<>> => Len(q) = 0) /\ (q # <<>> => Len(q) = 1)
<1>1. ASSUME q # <<>> PROVE Len(q) = 1
  <2>1. PICK n \in Nat \ {0} : n = Len(q)
    BY <1>1, TailShifts
  <2>2. n <= 1
    BY <2>1
  <2> QED BY <2>1, <2>2
<1>2. ASSUME q = <<>> PROVE Len(q) = 0
  BY <1>2
<1> QED BY <1>1, <1>2

(* The event at the head of a non-empty channel, and the rest of it. *)
LEMMA HeadTailType ==
  ASSUME NEW S, NEW q \in Seq(S), q # <<>>
  PROVE  Head(q) \in S /\ Tail(q) \in Seq(S)
OBVIOUS

(* The events of each type carry what their handlers read. *)
LEMMA EventType ==
  ASSUME NEW e \in WatchEvent
  PROVE  /\ e.type = "Change" => e \in ChangeEvents /\ e.repo \in Repos
         /\ e.type = "QueryMiss" => e.repo \in Repos
         /\ e.type = "Flush" => e.before \in SUBSET Changes
BY DEF WatchEvent, ChangeEvents

(* Every step keeps every variable in its type. *)
LEMMA TypeStep == TypeOK /\ [Next]_vars => TypeOK'
<1> SUFFICES ASSUME TypeOK, [Next]_vars PROVE TypeOK'
  OBVIOUS
<1> USE ShapesAssumption, EntryType
<1> USE DEF vars, channels, repos, flush, clients, history
<1>0. \A e \in reported : e.id \in Changes
  BY DEF TypeOK, ChangeEvents
<1>1. ASSUME NEW r \in Repos, NEW c \in Changes, NEW s \in Shapes, ReportChange(r, c, s)
      PROVE  TypeOK'
  <2>1. ChangeEvent(r, c, s) \in ChangeEvents /\ ChangeEvent(r, c, s) \in WatchEvent
    BY DEF ChangeEvent, ChangeEvents, WatchEvent
  <2> QED BY <1>1, <2>1 DEF ReportChange, TypeOK
<1>2. ASSUME NEW r \in Repos, Query(r) PROVE TypeOK'
  BY <1>2 DEF Query, TypeOK
<1>3. ASSUME NEW r \in Repos, SendQueryMiss(r) PROVE TypeOK'
  <2>1. QueryMissEvent(r) \in WatchEvent
    BY DEF QueryMissEvent, WatchEvent
  <2>2. Append(watch_rx, QueryMissEvent(r)) \in Seq(WatchEvent)
    BY <2>1 DEF TypeOK
  <2>3. watch_rx' \in Seq(WatchEvent)
    BY <1>3, <2>2 DEF SendQueryMiss, TypeOK
  <2>4. asking' \in [Repos -> Nat]
    BY <1>3 DEF SendQueryMiss, TypeOK
  <2> QED BY <1>3, <2>3, <2>4 DEF SendQueryMiss, TypeOK
<1>4. ASSUME NEW r \in Repos, HealthCheck(r) PROVE TypeOK'
  BY <1>4 DEF HealthCheck, TypeOK
<1>5. CASE SendFlush
  <2>1. FlushEvent(Reported) \in WatchEvent
    BY <1>0 DEF FlushEvent, WatchEvent, Reported
  <2> QED BY <1>5, <2>1 DEF SendFlush, TypeOK
<1>6. ASSUME NEW r \in Repos, TimerFires(r) PROVE TypeOK'
  <2>1. DebounceElapsed(r) \in RefreshMsg
    BY DEF DebounceElapsed, RefreshMsg
  <2> QED BY <1>6, <2>1 DEF TimerFires, TypeOK
<1>7. ASSUME NEW r \in Repos, RefreshEnds(r) PROVE TypeOK'
  <2>1. PICK i \in DOMAIN refreshes[r] :
          /\ served' = served \cup refreshes[r][i].why
          /\ refreshes' = [refreshes EXCEPT ![r] = RemoveAt(@, i)]
          /\ msg_rx' = Append(msg_rx, Done(r))
          /\ UNCHANGED <<dir_to_repo, watch_rx, repo_state, timers, flush, clients, reported>>
    BY <1>7 DEF RefreshEnds
  <2>2. refreshes[r] \in Seq(PendingRefresh)
    BY DEF TypeOK
  <2>3. RemoveAt(refreshes[r], i) \in Seq(PendingRefresh)
    BY <2>2, RemoveAtType
  <2>4. refreshes[r][i].why \in SUBSET Changes
    <3>1. refreshes[r][i] \in PendingRefresh
      BY <2>2, ElementType
    <3> QED BY <3>1 DEF PendingRefresh
  <2>5. Done(r) \in RefreshMsg
    BY DEF Done, RefreshMsg
  <2> QED BY <2>1, <2>3, <2>4, <2>5 DEF TypeOK
<1>8. CASE HandleQueryMiss
  <2> DEFINE e == Head(watch_rx)
  <2>1. e \in WatchEvent /\ Tail(watch_rx) \in Seq(WatchEvent)
    BY <1>8, HeadTailType DEF HandleQueryMiss, TypeOK
  <2>2. e.repo \in Repos
    BY <1>8, <2>1, EventType DEF HandleQueryMiss
  <2>3. repo_state[e.repo].pending \in PendingRefresh
    BY <2>2 DEF TypeOK
  <2>4. refreshes' \in [Repos -> Seq(PendingRefresh)]
    <3>1. \/ refreshes' = refreshes
          \/ refreshes' = Started(refreshes, e.repo, repo_state[e.repo].pending)
      BY <1>8 DEF HandleQueryMiss
    <3>2. refreshes \in [Repos -> Seq(PendingRefresh)]
      BY DEF TypeOK
    <3> QED BY <2>2, <2>3, <3>1, <3>2, StartedType
  <2>5. repo_state' \in [Repos -> RepoRefreshState]
    BY <1>8, <2>2 DEF HandleQueryMiss, TypeOK
  <2> QED BY <1>8, <2>1, <2>4, <2>5 DEF HandleQueryMiss, TypeOK
<1>9. CASE HandleChange
  <2> DEFINE e == Head(watch_rx)
  <2>1. e \in WatchEvent /\ Tail(watch_rx) \in Seq(WatchEvent)
    BY <1>9, HeadTailType DEF HandleChange, TypeOK
  <2>2. e \in ChangeEvents /\ e.repo \in Repos
    BY <1>9, <2>1, EventType DEF HandleChange
  <2>3. Incoming(e) \in PendingRefresh
    BY <2>2, IncomingType
  <2>4. repo_state[e.repo] \in RepoRefreshState
    BY <2>2 DEF TypeOK
  <2>5. AfterChange(repo_state[e.repo], Incoming(e)) \in RepoRefreshState
    BY <2>3, <2>4, AfterChangeType
  <2> QED BY <1>9, <2>1, <2>2, <2>5 DEF HandleChange, TypeOK
<1>10. CASE TakeFlush
  <2> DEFINE e == Head(watch_rx)
  <2>1. e \in WatchEvent /\ Tail(watch_rx) \in Seq(WatchEvent)
    BY <1>10, HeadTailType DEF TakeFlush, TypeOK
  <2>2. e.before \in SUBSET Changes
    BY <1>10, <2>1, EventType DEF TakeFlush
  <2>4. \A r \in Repos : Append(refreshes[r], repo_state[r].pending) \in Seq(PendingRefresh)
    BY DEF TypeOK
  <2>5. refreshes' \in [Repos -> Seq(PendingRefresh)]
    BY <1>10, <2>4 DEF TakeFlush, TypeOK
  <2>6. repo_state' \in [Repos -> RepoRefreshState]
    BY <1>10 DEF TakeFlush, TypeOK
  <2> QED BY <1>10, <2>1, <2>2, <2>5, <2>6 DEF TakeFlush, TypeOK
<1>11. CASE HandleElapsed
  <2> DEFINE m == Head(msg_rx)
  <2>1. m \in RefreshMsg /\ Tail(msg_rx) \in Seq(RefreshMsg)
    BY <1>11, HeadTailType DEF HandleElapsed, TypeOK
  <2>2. m.repo \in Repos
    BY <2>1 DEF RefreshMsg
  <2>3. repo_state[m.repo].pending \in PendingRefresh
    BY <2>2 DEF TypeOK
  <2>4. refreshes' \in [Repos -> Seq(PendingRefresh)]
    <3>1. \/ refreshes' = refreshes
          \/ refreshes' = Started(refreshes, m.repo, repo_state[m.repo].pending)
      BY <1>11 DEF HandleElapsed
    <3>2. refreshes \in [Repos -> Seq(PendingRefresh)]
      BY DEF TypeOK
    <3> QED BY <2>2, <2>3, <3>1, <3>2, StartedType
  <2>5. repo_state' \in [Repos -> RepoRefreshState]
    BY <1>11, <2>2 DEF HandleElapsed, TypeOK
  <2>6. stale' \in SUBSET Repos
    BY <1>11 DEF HandleElapsed, TypeOK
  <2> QED BY <1>11, <2>1, <2>4, <2>5, <2>6 DEF HandleElapsed, TypeOK
<1>12. CASE HandleDone
  <2> DEFINE m == Head(msg_rx)
  <2>1. m \in RefreshMsg /\ Tail(msg_rx) \in Seq(RefreshMsg)
    BY <1>12, HeadTailType DEF HandleDone, TypeOK
  <2>2. m.repo \in Repos
    BY <2>1 DEF RefreshMsg
  <2>3. repo_state[m.repo].pending \in PendingRefresh
    BY <2>2 DEF TypeOK
  <2>4. stale' \in SUBSET Repos
    BY <1>12 DEF HandleDone, TypeOK
  <2>5. repo_state' \in [Repos -> RepoRefreshState]
    BY <1>12, <2>2, <2>3 DEF HandleDone, TypeOK
  <2>6. refreshes' \in [Repos -> Seq(PendingRefresh)]
    <3>1. \/ refreshes' = refreshes
          \/ refreshes' = Started(refreshes, m.repo, repo_state[m.repo].pending)
      BY <1>12 DEF HandleDone
    <3>2. refreshes \in [Repos -> Seq(PendingRefresh)]
      BY DEF TypeOK
    <3> QED BY <2>2, <2>3, <3>1, <3>2, StartedType
  <2>7. timers' \in [Repos -> Nat]
    <3>1. timers' = timers \/ timers' = [timers EXCEPT ![m.repo] = @ + 1]
      BY <1>12 DEF HandleDone
    <3>2. timers \in [Repos -> Nat]
      BY DEF TypeOK
    <3> QED BY <2>2, <3>1, <3>2
  <2> QED BY <1>12, <2>1, <2>4, <2>5, <2>6, <2>7 DEF HandleDone, TypeOK
<1>13. CASE ForceRefreshes
  <2>1. stale' \in SUBSET Repos
    BY <1>13 DEF ForceRefreshes, TypeOK
  <2>2. \A r \in Repos : Append(refreshes[r], NoWork) \in Seq(PendingRefresh)
    BY DEF TypeOK
  <2>3. refreshes' \in [Repos -> Seq(PendingRefresh)]
    BY <1>13, <2>2 DEF ForceRefreshes, TypeOK
  <2>4. repo_state' \in [Repos -> RepoRefreshState]
    BY <1>13 DEF ForceRefreshes, TypeOK
  <2> QED BY <1>13, <2>1, <2>3, <2>4 DEF ForceRefreshes, TypeOK
<1>14. CASE ReplyToFlush
  BY <1>14 DEF ReplyToFlush, TypeOK
<1>15. CASE UNCHANGED vars
  BY <1>15 DEF TypeOK
<1> QED
  BY <1>1, <1>2, <1>3, <1>4, <1>5, <1>6, <1>7, <1>8, <1>9, <1>10, <1>11, <1>12, <1>13,
     <1>14, <1>15 DEF Next, Environment, Loop, HandleMsg, Quiet

(* The initial state has the types. *)
LEMMA TypeInit == Init => TypeOK
BY BoundsAssumption, EntryType DEF Init, TypeOK

-----------------------------------------------------------------------------
(* The inductive invariant: what the map says of a repository, together    *)
(* with the tasks and Done messages that are out for it.                   *)
Busy(r) == repo_state[r].phase \in {"inflight", "pending"}

Slot(r) ==
  /\ Len(refreshes[r]) <= 1
  /\ Once(msg_rx, Done(r))
  /\ refreshes[r] # <<>> => ~In(msg_rx, Done(r))
  /\ Busy(r) <=> (refreshes[r] # <<>> \/ In(msg_rx, Done(r)))

IInv == TypeOK /\ (\A r \in Repos : Slot(r)) /\ FlushOpensNoWindow

(* The invariant holds at the start. *)
LEMMA SlotInit == Init => IInv
<1> SUFFICES ASSUME Init PROVE IInv
  OBVIOUS
<1>1. TypeOK
  BY TypeInit
<1>2. ASSUME NEW r \in Repos PROVE Slot(r)
  <2>1. refreshes[r] = <<>> /\ msg_rx = <<>> /\ ~Busy(r)
    BY DEF Init, Busy, Absent
  <2>2. Places(msg_rx, Done(r)) = {}
    BY <2>1 DEF Places
  <2> QED BY <2>1, <2>2 DEF Slot, In, Once
<1>3. FlushOpensNoWindow
  BY DEF Init, FlushOpensNoWindow
<1> QED BY <1>1, <1>2, <1>3 DEF IInv

(* A repository that is not busy has nothing running and no Done due, so a *)
(* refresh started for it is the only one.                                 *)
LEMMA StartKeepsSlot ==
  ASSUME TypeOK, NEW r \in Repos, Slot(r), ~Busy(r), NEW p \in PendingRefresh,
         refreshes'[r] = Append(refreshes[r], p), repo_state'[r] = InFlight,
         Once(msg_rx', Done(r)), In(msg_rx', Done(r)) <=> In(msg_rx, Done(r))
  PROVE  Slot(r)'
<1>1. refreshes[r] = <<>> /\ ~In(msg_rx, Done(r))
  BY DEF Slot
<1>2. refreshes'[r] = <<p>>
  BY <1>1
<1>3. Len(refreshes'[r]) = 1 /\ refreshes'[r] # <<>>
  BY <1>2
<1>4. Busy(r)'
  BY DEF Busy, InFlight
<1> QED BY <1>1, <1>3, <1>4 DEF Slot, Once, In, Places

(* A repository whose tasks, Dones and business stay the same stays sound. *)
LEMMA KeepsSlot ==
  ASSUME NEW r \in Repos, Slot(r), refreshes'[r] = refreshes[r], Busy(r)' <=> Busy(r),
         Once(msg_rx', Done(r)), In(msg_rx', Done(r)) <=> In(msg_rx, Done(r))
  PROVE  Slot(r)'
<1>1. Len(refreshes'[r]) <= 1
  BY DEF Slot
<1> QED BY <1>1 DEF Slot, Once, In, Places

(* Starting one refresh for a repository that is not busy keeps all sound. *)
LEMMA StartOneKeepsSlots ==
  ASSUME TypeOK, \A q \in Repos : Slot(q),
         NEW r \in Repos, ~Busy(r), NEW p \in PendingRefresh,
         repo_state' = [repo_state EXCEPT ![r] = InFlight],
         refreshes' = Started(refreshes, r, p),
         \A q \in Repos : /\ Once(msg_rx', Done(q))
                          /\ In(msg_rx', Done(q)) <=> In(msg_rx, Done(q))
  PROVE  \A q \in Repos : Slot(q)'
<1>1. refreshes \in [Repos -> Seq(PendingRefresh)] /\ repo_state \in [Repos -> RepoRefreshState]
  BY DEF TypeOK
<1>2. /\ refreshes'[r] = Append(refreshes[r], p)
      /\ \A q \in Repos \ {r} : refreshes'[q] = refreshes[q]
  BY <1>1 DEF Started
<1>3. repo_state'[r] = InFlight /\ \A q \in Repos \ {r} : repo_state'[q] = repo_state[q]
  BY <1>1
<1>4. Slot(r)'
  BY <1>2, <1>3, StartKeepsSlot
<1>5. ASSUME NEW q \in Repos \ {r} PROVE Slot(q)'
  <2>1. Busy(q)' <=> Busy(q)
    BY <1>3, <1>5 DEF Busy
  <2> QED BY <1>2, <1>5, <2>1, KeepsSlot
<1> QED BY <1>4, <1>5

(* Dones of different repositories differ, and differ from timer messages. *)
LEMMA DoneDiffers ==
  /\ \A q, r : Done(q) = Done(r) <=> q = r
  /\ \A q, r : DebounceElapsed(r) # Done(q)
  /\ \A m \in RefreshMsg : m.type = "Done" => m = Done(m.repo) /\ m.repo \in Repos
  /\ \A m \in RefreshMsg : m.type = "DebounceElapsed" => \A q : m # Done(q)
<1>1. \A q, r : Done(q).repo = q /\ Done(q).type = "Done" /\ DebounceElapsed(r).type = "DebounceElapsed"
  BY DEF Done, DebounceElapsed
<1>2. \A m \in RefreshMsg : m.type = "Done" => m = Done(m.repo) /\ m.repo \in Repos
  BY DEF RefreshMsg, Done
<1> QED BY <1>1, <1>2

(* Every step keeps the invariant. *)
LEMMA IInvStep == IInv /\ [Next]_vars => IInv'
<1> SUFFICES ASSUME IInv, [Next]_vars PROVE IInv'
  OBVIOUS
<1> USE DEF vars, channels, repos, flush, clients, history
<1>t. TypeOK /\ TypeOK' /\ msg_rx \in Seq(RefreshMsg) /\ FlushOpensNoWindow
  BY TypeStep DEF IInv, TypeOK
<1>s. \A q \in Repos : Slot(q) /\ Once(msg_rx, Done(q))
  BY DEF IInv, Slot
<1>1. ASSUME UNCHANGED <<msg_rx, repos, loop>> PROVE IInv'
  <2>1. \A q \in Repos : Slot(q)'
    BY <1>1, <1>s DEF Slot, Busy, In, Once, Places
  <2>2. FlushOpensNoWindow'
    BY <1>1, <1>t DEF FlushOpensNoWindow
  <2> QED BY <1>t, <2>1, <2>2 DEF IInv
<1>2. ASSUME NEW r \in Repos, TimerFires(r) PROVE IInv'
  <2>1. DebounceElapsed(r) \in RefreshMsg /\ \A q \in Repos : DebounceElapsed(r) # Done(q)
    BY DoneDiffers DEF DebounceElapsed, RefreshMsg
  <2>2. ASSUME NEW q \in Repos PROVE Slot(q)'
    <3>1. msg_rx' = Append(msg_rx, DebounceElapsed(r))
      BY <1>2 DEF TimerFires
    <3>2. In(msg_rx', Done(q)) <=> In(msg_rx, Done(q))
      BY <1>t, <2>1, <3>1, InAppend
    <3>3. Once(msg_rx', Done(q))
      BY <1>t, <1>s, <2>1, <3>1, OnceAppend
    <3> QED BY <1>2, <1>s, <3>2, <3>3, KeepsSlot DEF TimerFires, Busy
  <2>3. FlushOpensNoWindow'
    BY <1>2, <1>t DEF TimerFires, FlushOpensNoWindow
  <2> QED BY <1>t, <2>2, <2>3 DEF IInv
<1>3. ASSUME NEW r \in Repos, RefreshEnds(r) PROVE IInv'
  <2>1. PICK i \in DOMAIN refreshes[r] :
          /\ refreshes' = [refreshes EXCEPT ![r] = RemoveAt(@, i)]
          /\ msg_rx' = Append(msg_rx, Done(r))
          /\ repo_state' = repo_state /\ loop' = loop
    BY <1>3 DEF RefreshEnds
  <2>2. Done(r) \in RefreshMsg
    BY DEF Done, RefreshMsg
  <2>3. refreshes[r] \in Seq(PendingRefresh) /\ refreshes[r] # <<>> /\ Len(refreshes[r]) <= 1
    BY <1>t, <1>s, <2>1 DEF TypeOK, Slot
  <2>4. refreshes'[r] = <<>>
    <3>1. RemoveAt(refreshes[r], i) = <<>>
      BY <2>1, <2>3, RemoveAtType
    <3> QED BY <1>t, <2>1, <3>1 DEF TypeOK
  <2>5. ~In(msg_rx, Done(r)) /\ Busy(r)
    BY <1>s, <2>3 DEF Slot
  <2>6. ASSUME NEW q \in Repos PROVE Slot(q)'
    <3>1. CASE q = r
      <4>1. In(msg_rx', Done(r)) /\ Once(msg_rx', Done(r))
        BY <1>t, <1>s, <2>1, <2>2, <2>5, InAppend, OnceAppend
      <4>2. Busy(r)' /\ Len(refreshes'[r]) <= 1
        BY <2>1, <2>4, <2>5 DEF Busy
      <4> QED BY <3>1, <2>4, <4>1, <4>2 DEF Slot, In, Once, Places
    <3>2. CASE q # r
      <4>1. Done(r) # Done(q)
        BY <3>2, DoneDiffers
      <4>2. In(msg_rx', Done(q)) <=> In(msg_rx, Done(q))
        BY <1>t, <2>1, <2>2, <4>1, InAppend
      <4>3. Once(msg_rx', Done(q))
        BY <1>t, <1>s, <2>1, <2>2, <4>1, OnceAppend
      <4>4. refreshes'[q] = refreshes[q]
        BY <1>t, <2>1, <3>2 DEF TypeOK
      <4> QED BY <1>s, <2>1, <4>2, <4>3, <4>4, KeepsSlot DEF Busy
    <3> QED BY <3>1, <3>2
  <2>7. FlushOpensNoWindow'
    BY <1>t, <2>1 DEF FlushOpensNoWindow
  <2> QED BY <1>t, <2>6, <2>7 DEF IInv
<1>4. CASE HandleQueryMiss
  <2> DEFINE e == Head(watch_rx)
  <2>1. e.repo \in Repos /\ repo_state[e.repo].pending \in PendingRefresh
    <3>1. e \in WatchEvent
      BY <1>t, <1>4, HeadTailType DEF HandleQueryMiss, TypeOK
    <3>2. e.repo \in Repos
      BY <1>4, <3>1, EventType DEF HandleQueryMiss
    <3> QED BY <1>t, <3>2, EntryType DEF TypeOK
  <2>2. msg_rx' = msg_rx /\ loop' = loop
    BY <1>4 DEF HandleQueryMiss
  <2>3. CASE QueryMissStarts(e.repo)
    <3>1. /\ repo_state' = [repo_state EXCEPT ![e.repo] = InFlight]
          /\ refreshes' = Started(refreshes, e.repo, repo_state[e.repo].pending)
      BY <1>4, <2>3 DEF HandleQueryMiss
    <3>2. ~Busy(e.repo)
      BY <2>3 DEF QueryMissStarts, Busy
    <3>3. \A q \in Repos : Slot(q)'
      <4>1. PICK r \in Repos : r = e.repo
        BY <2>1
      <4> QED BY <1>t, <1>s, <2>1, <2>2, <3>1, <3>2, <4>1, StartOneKeepsSlots
    <3>4. FlushOpensNoWindow'
      BY <1>4, <2>2 DEF HandleQueryMiss, FlushOpensNoWindow
    <3> QED BY <1>t, <3>3, <3>4 DEF IInv
  <2>4. CASE ~QueryMissStarts(e.repo)
    BY <1>1, <1>4, <2>2, <2>4 DEF HandleQueryMiss
  <2> QED BY <2>3, <2>4
<1>5. CASE HandleChange
  <2> DEFINE e == Head(watch_rx)
  <2>1. e \in WatchEvent /\ e.repo \in Repos
    <3>1. e \in WatchEvent
      BY <1>t, <1>5, HeadTailType DEF HandleChange, TypeOK
    <3> QED BY <1>5, <3>1, EventType DEF HandleChange
  <2>2. /\ msg_rx' = msg_rx /\ loop' = loop /\ refreshes' = refreshes /\ loop = "select"
        /\ repo_state' = [repo_state EXCEPT
                            ![e.repo] = AfterChange(repo_state[e.repo], Incoming(e))]
    BY <1>5 DEF HandleChange
  <2>3. \A s, p : AfterChange(s, p).phase \in {"inflight", "pending"}
                    <=> s.phase \in {"inflight", "pending"}
    BY DEF AfterChange, Debouncing, Pending
  <2>4. ASSUME NEW q \in Repos PROVE Busy(q)' <=> Busy(q)
    <3>1. repo_state \in [Repos -> RepoRefreshState]
      BY <1>t DEF TypeOK
    <3>2. CASE q = e.repo
      BY <2>2, <2>3, <3>1, <3>2 DEF Busy
    <3>3. CASE q # e.repo
      BY <2>2, <3>1, <3>3 DEF Busy
    <3> QED BY <3>2, <3>3
  <2>5. \A q \in Repos : Slot(q)'
    BY <1>s, <2>2, <2>4, KeepsSlot
  <2>6. FlushOpensNoWindow'
    BY <2>2 DEF FlushOpensNoWindow
  <2> QED BY <1>t, <2>5, <2>6 DEF IInv
<1>6. CASE TakeFlush
  <2>1. /\ msg_rx' = msg_rx
        /\ repo_state' = [r \in Repos |-> IF Promoted(r) THEN InFlight ELSE repo_state[r]]
        /\ refreshes' = [r \in Repos |-> IF Promoted(r)
                                     THEN Append(refreshes[r], repo_state[r].pending)
                                     ELSE refreshes[r]]
    BY <1>6 DEF TakeFlush
  <2>2. ASSUME NEW q \in Repos PROVE Slot(q)'
    <3>1. CASE Promoted(q)
      <4>1. ~Busy(q)
        BY <3>1 DEF Promoted, Busy
      <4>2. repo_state[q].pending \in PendingRefresh
        BY <1>t, EntryType DEF TypeOK
      <4> QED BY <1>t, <1>s, <2>1, <3>1, <4>1, <4>2, StartKeepsSlot
    <3>2. CASE ~Promoted(q)
      BY <1>s, <2>1, <3>2, KeepsSlot DEF Busy
    <3> QED BY <3>1, <3>2
  <2>3. FlushOpensNoWindow'
    BY <2>1 DEF FlushOpensNoWindow, Promoted, InFlight
  <2> QED BY <1>t, <2>2, <2>3 DEF IInv
<1>7. CASE HandleElapsed
  <2> DEFINE m == Head(msg_rx)
  <2>1. /\ m \in RefreshMsg /\ m.repo \in Repos /\ repo_state[m.repo].pending \in PendingRefresh
        /\ msg_rx # <<>> /\ msg_rx' = Tail(msg_rx) /\ loop' = loop
    <3>1. m \in RefreshMsg /\ msg_rx # <<>> /\ msg_rx' = Tail(msg_rx) /\ loop' = loop
      BY <1>t, <1>7, HeadTailType DEF HandleElapsed
    <3>2. m.repo \in Repos
      BY <3>1 DEF RefreshMsg
    <3> QED BY <1>t, <3>1, <3>2, EntryType DEF TypeOK
  <2>2. ASSUME NEW q \in Repos
        PROVE  (In(msg_rx', Done(q)) <=> In(msg_rx, Done(q))) /\ Once(msg_rx', Done(q))
    <3>1. m # Done(q)
      BY <1>7, <2>1, DoneDiffers DEF HandleElapsed
    <3> QED BY <1>t, <1>s, <2>1, <3>1, InTail
  <2>3. CASE repo_state[m.repo].phase = "debouncing"
    <3>1. /\ repo_state' = [repo_state EXCEPT ![m.repo] = InFlight]
          /\ refreshes' = Started(refreshes, m.repo, repo_state[m.repo].pending)
      BY <1>7, <2>3 DEF HandleElapsed
    <3>2. ~Busy(m.repo)
      BY <2>3 DEF Busy
    <3>3. \A q \in Repos : Slot(q)'
      <4>1. PICK r \in Repos : r = m.repo
        BY <2>1
      <4> QED BY <1>t, <1>s, <2>1, <2>2, <3>1, <3>2, <4>1, StartOneKeepsSlots
    <3>4. FlushOpensNoWindow'
      BY <1>t, <2>1, <3>1 DEF FlushOpensNoWindow, TypeOK, InFlight
    <3> QED BY <1>t, <3>3, <3>4 DEF IInv
  <2>4. CASE repo_state[m.repo].phase # "debouncing"
    <3>1. refreshes' = refreshes /\ repo_state' = repo_state
      BY <1>7, <2>4 DEF HandleElapsed
    <3>2. \A q \in Repos : Slot(q)'
      BY <1>s, <2>2, <3>1, KeepsSlot DEF Busy
    <3>3. FlushOpensNoWindow'
      BY <1>t, <2>1, <3>1 DEF FlushOpensNoWindow
    <3> QED BY <1>t, <3>2, <3>3 DEF IInv
  <2> QED BY <2>3, <2>4
<1>8. CASE HandleDone
  <2>1. msg_rx # <<>> /\ msg_rx' = Tail(msg_rx) /\ loop' = loop
    BY <1>8 DEF HandleDone
  <2>2. Head(msg_rx) \in RefreshMsg /\ Head(msg_rx).type = "Done"
    BY <1>t, <1>8, <2>1, HeadTailType DEF HandleDone
  <2>3. PICK r \in Repos : r = Head(msg_rx).repo /\ Head(msg_rx) = Done(r)
    BY <2>2, DoneDiffers
  <2>4. PICK p \in PendingRefresh : p = repo_state[r].pending
    BY <1>t, <2>3, EntryType DEF TypeOK
  <2>5. refreshes \in [Repos -> Seq(PendingRefresh)] /\ repo_state \in [Repos -> RepoRefreshState]
    BY <1>t DEF TypeOK
  <2>6. refreshes[r] = <<>> /\ ~In(msg_rx', Done(r)) /\ Once(msg_rx', Done(r))
    <3>1. In(msg_rx, Done(r)) /\ ~In(Tail(msg_rx), Done(r)) /\ Once(Tail(msg_rx), Done(r))
      BY <1>t, <1>s, <2>1, <2>3, InTail
    <3> QED BY <1>s, <2>1, <3>1 DEF Slot
  <2>7. ASSUME NEW q \in Repos \ {r}
        PROVE  (In(msg_rx', Done(q)) <=> In(msg_rx, Done(q))) /\ Once(msg_rx', Done(q))
    <3>1. Head(msg_rx) # Done(q)
      BY <2>3, <2>7, DoneDiffers
    <3> QED BY <1>t, <1>s, <2>1, <3>1, InTail
  <2>8. ASSUME NEW q \in Repos \ {r}, refreshes'[q] = refreshes[q], repo_state'[q] = repo_state[q]
        PROVE  Slot(q)'
    BY <1>s, <2>7, <2>8, KeepsSlot DEF Busy
  <2>9. CASE repo_state' = [repo_state EXCEPT ![r] = Absent] /\ refreshes' = refreshes
    <3>1. \A q \in Repos \ {r} : Slot(q)'
      BY <2>5, <2>8, <2>9
    <3>2. refreshes'[r] = <<>> /\ Len(refreshes'[r]) <= 1 /\ ~Busy(r)'
      BY <2>5, <2>6, <2>9 DEF Busy, Absent
    <3>3. Slot(r)'
      BY <2>6, <3>2 DEF Slot, In, Once, Places
    <3>4. FlushOpensNoWindow'
      BY <1>t, <2>1, <2>5, <2>9 DEF FlushOpensNoWindow, Absent
    <3> QED BY <1>t, <3>1, <3>3, <3>4 DEF IInv
  <2>10. CASE /\ repo_state' = [repo_state EXCEPT ![r] = InFlight]
              /\ refreshes' = Started(refreshes, r, p)
    <3>1. /\ refreshes'[r] = Append(refreshes[r], p)
          /\ \A q \in Repos \ {r} : refreshes'[q] = refreshes[q]
      BY <2>5, <2>10 DEF Started
    <3>2. \A q \in Repos \ {r} : Slot(q)'
      BY <2>5, <2>8, <2>10, <3>1
    <3>3. Slot(r)'
      <4>1. refreshes'[r] = <<p>>
        BY <2>6, <3>1
      <4>2. Len(refreshes'[r]) = 1 /\ refreshes'[r] # <<>>
        BY <4>1
      <4>3. Busy(r)'
        BY <2>5, <2>10 DEF Busy, InFlight
      <4> QED BY <2>6, <4>2, <4>3 DEF Slot, In, Once, Places
    <3>4. FlushOpensNoWindow'
      BY <1>t, <2>1, <2>5, <2>10 DEF FlushOpensNoWindow, InFlight
    <3> QED BY <1>t, <3>2, <3>3, <3>4 DEF IInv
  <2>11. CASE /\ repo_state' = [repo_state EXCEPT ![r] = Debouncing(p)]
              /\ refreshes' = refreshes /\ loop = "select"
    <3>1. \A q \in Repos \ {r} : Slot(q)'
      BY <2>5, <2>8, <2>11
    <3>2. refreshes'[r] = <<>> /\ Len(refreshes'[r]) <= 1 /\ ~Busy(r)'
      BY <2>5, <2>6, <2>11 DEF Busy, Debouncing
    <3>3. Slot(r)'
      BY <2>6, <3>2 DEF Slot, In, Once, Places
    <3>4. FlushOpensNoWindow'
      BY <2>1, <2>11 DEF FlushOpensNoWindow
    <3> QED BY <1>t, <3>1, <3>3, <3>4 DEF IInv
  <2> QED BY <1>8, <2>3, <2>4, <2>9, <2>10, <2>11 DEF HandleDone, SkipDebounce
<1>9. CASE ForceRefreshes
  <2>1. /\ msg_rx' = msg_rx
        /\ repo_state' = [r \in Repos |-> IF r \in dir_to_repo THEN InFlight ELSE repo_state[r]]
        /\ refreshes' = [r \in Repos |-> IF r \in dir_to_repo THEN Append(refreshes[r], NoWork)
                                         ELSE refreshes[r]]
        /\ \A r \in Repos : repo_state[r] = Absent
    BY <1>9 DEF ForceRefreshes, Drained
  <2>2. ASSUME NEW q \in Repos PROVE Slot(q)'
    <3>1. CASE q \in dir_to_repo
      <4>1. ~Busy(q)
        BY <2>1 DEF Busy, Absent
      <4> QED BY <1>t, <1>s, <2>1, <3>1, <4>1, EntryType, StartKeepsSlot
    <3>2. CASE q \notin dir_to_repo
      BY <1>s, <2>1, <3>2, KeepsSlot DEF Busy
    <3> QED BY <3>1, <3>2
  <2>3. FlushOpensNoWindow'
    BY <2>1 DEF FlushOpensNoWindow, InFlight, Absent
  <2> QED BY <1>t, <2>2, <2>3 DEF IInv
<1>10. CASE ReplyToFlush
  <2>1. \A q \in Repos : Slot(q)'
    BY <1>10, <1>s DEF ReplyToFlush, Slot, Busy, In, Once, Places
  <2>2. FlushOpensNoWindow'
    BY <1>10 DEF ReplyToFlush, FlushOpensNoWindow
  <2> QED BY <1>t, <2>1, <2>2 DEF IInv
<1>11. CASE Environment
  BY <1>1, <1>11 DEF Environment, ReportChange, Query, SendQueryMiss, HealthCheck, SendFlush
<1>12. CASE UNCHANGED vars
  BY <1>1, <1>12
<1> QED
  BY <1>2, <1>3, <1>4, <1>5, <1>6, <1>7, <1>8, <1>9, <1>10, <1>11, <1>12
     DEF Next, Loop, HandleMsg, Quiet

-----------------------------------------------------------------------------
(* Theorems *)

(* The inductive invariant holds in every reachable state. *)
THEOREM Invariance == Spec => []IInv
<1>1. Init => IInv
  BY SlotInit
<1>2. IInv /\ [Next]_vars => IInv'
  BY IInvStep
<1> QED BY <1>1, <1>2, PTL DEF Spec

(* Type correctness. *)
THEOREM TypeCorrect == Spec => []TypeOK
<1>1. IInv => TypeOK
  BY DEF IInv
<1> QED BY <1>1, Invariance, PTL

(* At most one refresh of a repository runs at a time. *)
THEOREM RefreshesExclude == Spec => []AtMostOneRefresh
<1>1. IInv => AtMostOneRefresh
  BY DEF IInv, Slot, AtMostOneRefresh
<1> QED BY <1>1, Invariance, PTL

(* The loop waits for a Done exactly when one is due, exactly once. *)
THEOREM DoneIsDue == Spec => []InFlightMeansDoneIsDue
<1>1. IInv => InFlightMeansDoneIsDue
  <2> SUFFICES ASSUME IInv, NEW r \in Repos
               PROVE  Len(refreshes[r]) + Cardinality(Places(msg_rx, Done(r)))
                        = IF Busy(r) THEN 1 ELSE 0
    BY DEF InFlightMeansDoneIsDue, Busy
  <2>1. Slot(r) /\ refreshes[r] \in Seq(PendingRefresh)
    BY DEF IInv, TypeOK
  <2>2. CASE In(msg_rx, Done(r))
    <3>1. PICK i : Places(msg_rx, Done(r)) = {i}
      BY <2>1, <2>2 DEF Slot, Once, In
    <3>2. Cardinality(Places(msg_rx, Done(r))) = 1
      BY <3>1, FS_Singleton
    <3>3. refreshes[r] = <<>> /\ Busy(r)
      BY <2>1, <2>2 DEF Slot
    <3> QED BY <3>2, <3>3
  <2>3. CASE ~In(msg_rx, Done(r))
    <3>1. Cardinality(Places(msg_rx, Done(r))) = 0
      BY <2>3, FS_EmptySet DEF In
    <3>2. Len(refreshes[r]) <= 1 /\ (Busy(r) <=> refreshes[r] # <<>>)
      BY <2>1, <2>3 DEF Slot
    <3>3. /\ refreshes[r] = <<>> => Len(refreshes[r]) = 0
          /\ refreshes[r] # <<>> => Len(refreshes[r]) = 1
      BY <2>1, <3>2, ShortSequence
    <3>4. CASE Busy(r)
      <4>1. Len(refreshes[r]) = 1
        BY <3>2, <3>3, <3>4, Zenon
      <4>2. Len(refreshes[r]) + Cardinality(Places(msg_rx, Done(r))) = 1
        BY <3>1, <4>1
      <4> QED BY <3>4, <4>2, Zenon
    <3>5. CASE ~Busy(r)
      <4>1. Len(refreshes[r]) = 0
        BY <3>2, <3>3, <3>5, Zenon
      <4>2. Len(refreshes[r]) + Cardinality(Places(msg_rx, Done(r))) = 0
        BY <3>1, <4>1
      <4> QED BY <3>5, <4>2, Zenon
    <3> QED BY <3>4, <3>5
  <2> QED BY <2>2, <2>3
<1> QED BY <1>1, Invariance, PTL

(* No debounce window is open while a Flush waits. *)
THEOREM FlushNeedsNoTimer == Spec => []FlushOpensNoWindow
<1>1. IInv => FlushOpensNoWindow
  BY DEF IInv
<1> QED BY <1>1, Invariance, PTL

-----------------------------------------------------------------------------
(* Where a change is on its way.  Four kinds of steps move one: a report,  *)
(* the loop's taking it from the channel, the end of a refresh, and the    *)
(* start of refreshes, each with what its repository has pending.          *)

(* The records being refreshed *)
Work(r) == {refreshes[r][i] : i \in DOMAIN refreshes[r]}

StartsIn(R) ==
  /\ \A r \in R : /\ refreshes[r] = <<>>
                  /\ refreshes'[r] = <<repo_state[r].pending>>
                  /\ repo_state'[r].pending = NoWork
  /\ \A r \in Repos \ R : /\ refreshes'[r] = refreshes[r]
                          /\ repo_state'[r].pending = repo_state[r].pending

SameChanges == \A e \in ChangeEvents : In(watch_rx', e) <=> In(watch_rx, e)

OnlyStarts ==
  /\ UNCHANGED <<reported, served>>
  /\ SameChanges
  /\ \E R \in SUBSET Repos : StartsIn(R)

(* Nothing is running where nothing is, and one record where there is one. *)
LEMMA WorkIs ==
  ASSUME NEW r
  PROVE  /\ refreshes[r] = <<>> => Work(r) = {}
         /\ \A p : refreshes[r] = <<p>> => Work(r) = {p}
<1>1. ASSUME NEW p, refreshes[r] = <<p>> PROVE Work(r) = {p}
  <2>1. DOMAIN refreshes[r] = {1} /\ refreshes[r][1] = p
    BY <1>1
  <2> QED BY <2>1 DEF Work
<1> QED BY <1>1 DEF Work

(* Entries without changes have the empty record. *)
LEMMA NothingPending ==
  ASSUME NEW s \in RepoRefreshState, s.phase \in {"absent", "inflight"}
  PROVE  s.pending = NoWork
BY DEF RepoRefreshState, Absent, InFlight

(* A step that starts the refresh of one idle repository. *)
LEMMA StartsOne ==
  ASSUME TypeOK, NEW r \in Repos, Slot(r), ~Busy(r),
         repo_state' = [repo_state EXCEPT ![r] = InFlight],
         refreshes' = Started(refreshes, r, repo_state[r].pending)
  PROVE  StartsIn({r})
<1>1. refreshes \in [Repos -> Seq(PendingRefresh)] /\ repo_state \in [Repos -> RepoRefreshState]
  BY DEF TypeOK
<1>2. refreshes[r] = <<>>
  BY DEF Slot
<1>3. repo_state[r].pending \in PendingRefresh
  BY <1>1, EntryType
<1>4. refreshes'[r] = Append(refreshes[r], repo_state[r].pending)
      /\ \A q \in Repos \ {r} : refreshes'[q] = refreshes[q]
  BY <1>1, <1>3, StartedType
<1>5. refreshes'[r] = <<repo_state[r].pending>>
  BY <1>2, <1>4
<1>6. repo_state'[r].pending = NoWork
      /\ \A q \in Repos \ {r} : repo_state'[q] = repo_state[q]
  BY <1>1 DEF InFlight
<1> QED BY <1>2, <1>4, <1>5, <1>6 DEF StartsIn

(* A step that starts none. *)
LEMMA StartsNone ==
  ASSUME refreshes' = refreshes, \A r \in Repos : repo_state'[r].pending = repo_state[r].pending
  PROVE  StartsIn({})
BY DEF StartsIn

(* Steps of the channel that move no change. *)
LEMMA ChannelKeeps ==
  ASSUME TypeOK,
         \/ watch_rx' = watch_rx
         \/ \E m \in WatchEvent : m.type # "Change" /\ watch_rx' = Append(watch_rx, m)
         \/ watch_rx # <<>> /\ Head(watch_rx).type # "Change" /\ watch_rx' = Tail(watch_rx)
  PROVE  SameChanges
<1>1. watch_rx \in Seq(WatchEvent)
  BY DEF TypeOK
<1>2. \A e \in ChangeEvents : e.type = "Change"
  BY DEF ChangeEvents
<1>3. CASE watch_rx' = watch_rx
  BY <1>3 DEF SameChanges, In, Places
<1>4. ASSUME NEW m \in WatchEvent, m.type # "Change", watch_rx' = Append(watch_rx, m)
      PROVE  SameChanges
  BY <1>1, <1>2, <1>4, InAppend DEF SameChanges
<1>5. CASE watch_rx # <<>> /\ Head(watch_rx).type # "Change" /\ watch_rx' = Tail(watch_rx)
  BY <1>1, <1>2, <1>5, InTail DEF SameChanges
<1> QED BY <1>3, <1>4, <1>5

(* Every step is of one of the four kinds. *)
LEMMA FourKinds ==
  ASSUME IInv, [Next]_vars
  PROVE  \/ \E r \in Repos, c \in Changes, s \in Shapes : ReportChange(r, c, s)
         \/ HandleChange
         \/ \E r \in Repos : RefreshEnds(r)
         \/ OnlyStarts
<1> USE DEF vars, channels, repos, flush, clients, history
<1>t. /\ TypeOK /\ \A r \in Repos : Slot(r)
      /\ refreshes \in [Repos -> Seq(PendingRefresh)] /\ repo_state \in [Repos -> RepoRefreshState]
      /\ watch_rx \in Seq(WatchEvent) /\ msg_rx \in Seq(RefreshMsg)
      /\ reported \in SUBSET ChangeEvents
  BY DEF IInv, TypeOK
<1>1. ASSUME UNCHANGED <<watch_rx, repo_state, refreshes, reported, served>> PROVE OnlyStarts
  BY <1>1, <1>t, StartsNone, ChannelKeeps DEF OnlyStarts
<1>2. CASE SendFlush
  <2>1. Reported \in SUBSET Changes
    BY <1>t DEF Reported, ChangeEvents
  <2>2. FlushEvent(Reported) \in WatchEvent /\ FlushEvent(Reported).type = "Flush"
    BY <2>1 DEF FlushEvent, WatchEvent
  <2>3. SameChanges
    BY <1>2, <1>t, <2>2, ChannelKeeps DEF SendFlush
  <2> QED BY <1>2, <2>3, StartsNone DEF SendFlush, OnlyStarts
<1>3. ASSUME NEW r \in Repos, SendQueryMiss(r) PROVE OnlyStarts
  <2>1. QueryMissEvent(r) \in WatchEvent /\ QueryMissEvent(r).type = "QueryMiss"
    BY DEF QueryMissEvent, WatchEvent
  <2>2. SameChanges
    BY <1>3, <1>t, <2>1, ChannelKeeps DEF SendQueryMiss
  <2> QED BY <1>3, <2>2, StartsNone DEF SendQueryMiss, OnlyStarts
<1>4. ASSUME NEW r \in Repos, Query(r) \/ HealthCheck(r) \/ TimerFires(r) PROVE OnlyStarts
  BY <1>1, <1>4 DEF Query, HealthCheck, TimerFires
<1>5. CASE HandleQueryMiss
  <2> DEFINE e == Head(watch_rx)
  <2>1. SameChanges
    BY <1>5, <1>t, ChannelKeeps DEF HandleQueryMiss
  <2>2. e \in WatchEvent /\ e.type = "QueryMiss"
    BY <1>5, <1>t, HeadTailType DEF HandleQueryMiss
  <2>3. PICK r \in Repos : r = e.repo
    BY <2>2, EventType
  <2>4. CASE QueryMissStarts(e.repo)
    <3>1. repo_state' = [repo_state EXCEPT ![r] = InFlight]
          /\ refreshes' = Started(refreshes, r, repo_state[r].pending) /\ ~Busy(r)
      BY <1>5, <2>3, <2>4 DEF HandleQueryMiss, QueryMissStarts, Busy
    <3>2. StartsIn({r})
      BY <1>t, <3>1, StartsOne
    <3> QED BY <1>5, <2>1, <3>2 DEF HandleQueryMiss, OnlyStarts
  <2>5. CASE ~QueryMissStarts(e.repo)
    BY <1>5, <2>1, <2>5, StartsNone DEF HandleQueryMiss, OnlyStarts
  <2> QED BY <2>4, <2>5
<1>6. CASE TakeFlush
  <2>1. SameChanges
    BY <1>6, <1>t, ChannelKeeps DEF TakeFlush
  <2> DEFINE R == {r \in Repos : Promoted(r)}
  <2>2. ASSUME NEW r \in R
        PROVE  refreshes[r] = <<>> /\ refreshes'[r] = <<repo_state[r].pending>>
               /\ repo_state'[r].pending = NoWork
    <3>1. refreshes[r] = <<>>
      BY <1>t DEF Slot, Busy, Promoted
    <3>2. refreshes'[r] = Append(refreshes[r], repo_state[r].pending) /\ repo_state'[r] = InFlight
      BY <1>6 DEF TakeFlush
    <3> QED BY <3>1, <3>2 DEF InFlight
  <2>3. \A r \in Repos \ R : refreshes'[r] = refreshes[r] /\ repo_state'[r] = repo_state[r]
    BY <1>6 DEF TakeFlush
  <2>4. StartsIn(R)
    BY <2>2, <2>3 DEF StartsIn
  <2> QED BY <1>6, <2>1, <2>4 DEF TakeFlush, OnlyStarts
<1>7. CASE HandleElapsed
  <2>1. SameChanges
    BY <1>7, <1>t, ChannelKeeps DEF HandleElapsed
  <2>2. Head(msg_rx) \in RefreshMsg
    BY <1>7, <1>t, HeadTailType DEF HandleElapsed
  <2>3. PICK r \in Repos : r = Head(msg_rx).repo
    BY <2>2 DEF RefreshMsg
  <2>4. CASE repo_state[r].phase = "debouncing"
    <3>1. repo_state' = [repo_state EXCEPT ![r] = InFlight]
          /\ refreshes' = Started(refreshes, r, repo_state[r].pending) /\ ~Busy(r)
      BY <1>7, <2>3, <2>4 DEF HandleElapsed, Busy
    <3>2. StartsIn({r})
      BY <1>t, <3>1, StartsOne
    <3> QED BY <1>7, <2>1, <3>2 DEF HandleElapsed, OnlyStarts
  <2>5. CASE repo_state[r].phase # "debouncing"
    BY <1>7, <2>1, <2>3, <2>5, StartsNone DEF HandleElapsed, OnlyStarts
  <2> QED BY <2>4, <2>5
<1>8. CASE HandleDone
  <2>1. SameChanges
    BY <1>8, <1>t, ChannelKeeps DEF HandleDone
  <2>2. Head(msg_rx) \in RefreshMsg /\ Head(msg_rx).type = "Done"
    BY <1>8, <1>t, HeadTailType DEF HandleDone
  <2>3. PICK r \in Repos : r = Head(msg_rx).repo /\ Head(msg_rx) = Done(r)
    BY <2>2, DoneDiffers
  <2>4. In(msg_rx, Done(r))
    BY <1>8, <1>t, <2>3, InTail DEF HandleDone
  <2>5. Busy(r) /\ refreshes[r] = <<>>
    BY <1>t, <2>4 DEF Slot
  <2>6. CASE repo_state[r].phase # "pending"
    <3>1. repo_state' = [repo_state EXCEPT ![r] = Absent] /\ refreshes' = refreshes
      BY <1>8, <2>3, <2>6 DEF HandleDone
    <3>2. repo_state[r].pending = NoWork
      BY <1>t, <2>5, <2>6, NothingPending DEF Busy
    <3>3. \A q \in Repos : repo_state'[q].pending = repo_state[q].pending
      BY <1>t, <3>1, <3>2 DEF Absent
    <3> QED BY <1>8, <2>1, <3>1, <3>3, StartsNone DEF HandleDone, OnlyStarts
  <2>7. CASE /\ repo_state' = [repo_state EXCEPT ![r] = InFlight]
             /\ refreshes' = Started(refreshes, r, repo_state[r].pending)
    <3>1. refreshes'[r] = Append(refreshes[r], repo_state[r].pending)
          /\ \A q \in Repos \ {r} : refreshes'[q] = refreshes[q]
      BY <1>t, <2>7, EntryType, StartedType
    <3>2. refreshes'[r] = <<repo_state[r].pending>>
      BY <2>5, <3>1
    <3>3. repo_state'[r].pending = NoWork
          /\ \A q \in Repos \ {r} : repo_state'[q] = repo_state[q]
      BY <1>t, <2>7 DEF InFlight
    <3>4. StartsIn({r})
      BY <2>5, <3>1, <3>2, <3>3 DEF StartsIn
    <3> QED BY <1>8, <2>1, <3>4 DEF HandleDone, OnlyStarts
  <2>8. CASE /\ repo_state' = [repo_state EXCEPT ![r] = Debouncing(repo_state[r].pending)]
             /\ refreshes' = refreshes
    <3>1. \A q \in Repos : repo_state'[q].pending = repo_state[q].pending
      BY <1>t, <2>8 DEF Debouncing
    <3> QED BY <1>8, <2>1, <2>8, <3>1, StartsNone DEF HandleDone, OnlyStarts
  <2> QED BY <1>8, <2>3, <2>6, <2>7, <2>8 DEF HandleDone
<1>9. CASE ForceRefreshes
  <2>1. SameChanges
    BY <1>9, <1>t, ChannelKeeps DEF ForceRefreshes
  <2> DEFINE R == {r \in Repos : r \in dir_to_repo}
  <2>2. ASSUME NEW r \in R
        PROVE  refreshes[r] = <<>> /\ refreshes'[r] = <<repo_state[r].pending>>
               /\ repo_state'[r].pending = NoWork
    <3>1. repo_state[r] = Absent
      BY <1>9 DEF ForceRefreshes, Drained
    <3>2. refreshes[r] = <<>> /\ repo_state[r].pending = NoWork
      BY <1>t, <3>1 DEF Slot, Busy, Absent
    <3>3. refreshes'[r] = Append(refreshes[r], NoWork) /\ repo_state'[r] = InFlight
      BY <1>9 DEF ForceRefreshes
    <3> QED BY <3>2, <3>3 DEF InFlight
  <2>3. \A r \in Repos \ R : refreshes'[r] = refreshes[r] /\ repo_state'[r] = repo_state[r]
    BY <1>9 DEF ForceRefreshes
  <2>4. StartsIn(R)
    BY <2>2, <2>3 DEF StartsIn
  <2> QED BY <1>9, <2>1, <2>4 DEF ForceRefreshes, OnlyStarts
<1>10. CASE ReplyToFlush \/ UNCHANGED vars
  BY <1>1, <1>10 DEF ReplyToFlush
<1> QED
  BY <1>2, <1>3, <1>4, <1>5, <1>6, <1>7, <1>8, <1>9, <1>10
     DEF Next, Environment, Loop, HandleMsg, Quiet

-----------------------------------------------------------------------------
(* Nothing is lost: the invariant *)

(* Whatever a record stands for was reported of its repository, and the    *)
(* record covers it.                                                       *)
Good(r, p) == \A c \in p.why : \E e \in reported : e.id = c /\ e.repo = r /\ Covers(p, e)

Unique == \A d, e \in reported : d.id = e.id => d = e

Records ==
  \A r \in Repos : Good(r, repo_state[r].pending) /\ \A p \in Work(r) : Good(r, p)

Found(e) ==
  \/ e.id \in served
  \/ In(watch_rx, e)
  \/ e.id \in repo_state[e.repo].pending.why
  \/ \E p \in Work(e.repo) : e.id \in p.why

Kept ==
  /\ Unique
  /\ Records
  /\ served \subseteq Reported
  /\ \A e \in reported : Found(e)

(* Changes in the channel have been reported, and a Flush is ahead of the  *)
(* changes that its client did not know of.                                *)
Channel ==
  /\ \A i \in DOMAIN watch_rx : watch_rx[i].type = "Change" => watch_rx[i] \in reported
  /\ \A i \in DOMAIN watch_rx :
       watch_rx[i].type = "Flush" =>
         /\ watch_rx[i].before \subseteq Reported
         /\ \A j \in DOMAIN watch_rx :
              i < j /\ watch_rx[j].type = "Change" => watch_rx[j].id \notin watch_rx[i].before

(* A record covers what it covered when more is merged into it. *)
LEMMA MergeCovers ==
  ASSUME NEW p \in PendingRefresh, NEW q \in PendingRefresh, NEW e \in ChangeEvents
  PROVE  /\ Covers(p, e) => Covers(Merge(p, q), e)
         /\ Covers(q, e) => Covers(Merge(p, q), e)
<1>1. p.hint \in Nat /\ q.hint \in Nat /\ e.shape.hint \in Nat
  BY DEF PendingRefresh, ChangeEvents, Shape, Hint
<1>2. e.shape.hint <= p.hint \/ e.shape.hint <= q.hint => e.shape.hint <= MaxHint(p.hint, q.hint)
  BY <1>1 DEF MaxHint
<1>3. /\ Merge(p, q).hint = MaxHint(p.hint, q.hint)
      /\ Merge(p, q).paths = p.paths \cup q.paths
      /\ Merge(p, q).rescan = (p.rescan \/ q.rescan)
  BY DEF Merge
<1> QED BY <1>2, <1>3 DEF Covers

(* The record of one event covers it. *)
LEMMA IncomingCovers ==
  ASSUME NEW e \in ChangeEvents
  PROVE  Covers(Incoming(e), e) /\ Incoming(e).why = {e.id}
<1>1. e.shape.hint \in Nat
  BY DEF ChangeEvents, Shape, Hint
<1>2. /\ Incoming(e).hint = e.shape.hint
      /\ Incoming(e).paths = IF e.shape.wc THEN {e.id} ELSE {}
      /\ Incoming(e).rescan = e.shape.rescan /\ Incoming(e).why = {e.id}
  BY DEF Incoming
<1> QED BY <1>1, <1>2 DEF Covers

(* The loop takes a change into what is pending for its repository.        *)
LEMMA TakesIn ==
  ASSUME NEW s \in RepoRefreshState, NEW r, Good(r, s.pending), reported \subseteq ChangeEvents,
         NEW e \in reported, e.repo = r
  PROVE  /\ Good(r, AfterChange(s, Incoming(e)).pending)
         /\ e.id \in AfterChange(s, Incoming(e)).pending.why
         /\ s.pending.why \subseteq AfterChange(s, Incoming(e)).pending.why
<1> DEFINE q == Incoming(e)
<1>1. e \in ChangeEvents /\ q \in PendingRefresh /\ Covers(q, e) /\ q.why = {e.id}
  BY IncomingType, IncomingCovers
<1> HIDE DEF q
<1>2. CASE s.phase \in {"absent", "inflight"}
  <2>1. s.pending = NoWork
    BY <1>2, NothingPending
  <2>2. AfterChange(s, q).pending = q
    BY <1>2 DEF AfterChange, Debouncing, Pending
  <2> QED BY <1>1, <2>1, <2>2 DEF Good, NoWork, q
<1>3. CASE s.phase \notin {"absent", "inflight"}
  <2> DEFINE p == s.pending
             m == Merge(p, q)
  <2>1. AfterChange(s, q).pending = m /\ p \in PendingRefresh
    BY <1>3, EntryType DEF AfterChange
  <2>2. m.why = p.why \cup {e.id}
    BY <1>1 DEF Merge
  <2>3. Covers(m, e) /\ \A d \in reported : Covers(p, d) => Covers(m, d)
    BY <1>1, <2>1, MergeCovers
  <2> HIDE DEF m
  <2>4. Good(r, m)
    BY <2>2, <2>3 DEF Good
  <2> QED BY <2>1, <2>2, <2>4 DEF q
<1> QED BY <1>2, <1>3

(* More reports make no record worse. *)
LEMMA StillGood ==
  ASSUME NEW r, NEW p, Good(r, p), reported \subseteq reported'
  PROVE  Good(r, p)'
BY DEF Good

(* A report is new, and is found in the channel. *)
LEMMA KeptByReport ==
  ASSUME IInv, Kept, NEW r \in Repos, NEW c \in Changes, NEW s \in Shapes, ReportChange(r, c, s)
  PROVE  Kept'
<1> USE DEF repos
<1> DEFINE e0 == ChangeEvent(r, c, s)
<1>1. /\ reported' = reported \cup {e0} /\ watch_rx' = Append(watch_rx, e0)
      /\ c \notin Reported /\ e0.id = c /\ e0.repo = r
      /\ UNCHANGED <<repo_state, refreshes, served>>
  BY DEF ReportChange, ChangeEvent
<1>2. watch_rx \in Seq(WatchEvent) /\ e0 \in WatchEvent /\ e0 \in ChangeEvents
  BY ShapesAssumption DEF IInv, TypeOK, ChangeEvent, ChangeEvents, WatchEvent
<1> HIDE DEF e0
<1>3. Unique'
  BY <1>1 DEF Kept, Unique, Reported
<1>4. Records'
  BY <1>1, StillGood DEF Kept, Records, Work
<1>5. (served \subseteq Reported)'
  BY <1>1 DEF Kept, Reported
<1>6. \A e \in reported' : Found(e)'
  <2>1. \A e : In(watch_rx', e) <=> e = e0 \/ In(watch_rx, e)
    BY <1>1, <1>2, InAppend
  <2> QED BY <1>1, <2>1 DEF Kept, Found, Work
<1> QED BY <1>3, <1>4, <1>5, <1>6 DEF Kept

(* What leaves the channel is in what its repository has pending. *)
LEMMA KeptByChange ==
  ASSUME IInv, Kept, Channel, HandleChange
  PROVE  Kept'
<1> USE DEF history
<1> DEFINE e == Head(watch_rx)
<1>1. /\ watch_rx # <<>> /\ watch_rx' = Tail(watch_rx) /\ e.type = "Change"
      /\ repo_state' = [repo_state EXCEPT ![e.repo] = AfterChange(@, Incoming(e))]
      /\ UNCHANGED <<refreshes, reported, served>>
  BY DEF HandleChange
<1>2. /\ watch_rx \in Seq(WatchEvent) /\ repo_state \in [Repos -> RepoRefreshState]
      /\ reported \subseteq ChangeEvents
  BY DEF IInv, TypeOK
<1>3. e \in reported /\ e.repo \in Repos
  <2>1. 1 \in DOMAIN watch_rx /\ e = watch_rx[1]
    BY <1>1, <1>2, TailShifts
  <2> QED BY <1>1, <1>2, <2>1 DEF Channel, ChangeEvents
<1> DEFINE r == e.repo
           t == AfterChange(repo_state[r], Incoming(e))
<1>4. Good(r, t.pending) /\ e.id \in t.pending.why /\ repo_state[r].pending.why \subseteq t.pending.why
  <2>1. repo_state[r] \in RepoRefreshState /\ Good(r, repo_state[r].pending)
    BY <1>2, <1>3 DEF Kept, Records
  <2> QED BY <1>2, <1>3, <2>1, TakesIn
<1>5. repo_state'[r] = t /\ \A q \in Repos \ {r} : repo_state'[q] = repo_state[q]
  BY <1>1, <1>2, <1>3
<1>6. \A d : In(watch_rx, d) => d = e \/ In(watch_rx', d)
  BY <1>1, <1>2, InTail
<1> HIDE DEF e, t
<1>7. Records'
  BY <1>1, <1>4, <1>5 DEF Kept, Records, Good, Work
<1>8. \A d \in reported' : Found(d)'
  <2> SUFFICES ASSUME NEW d \in reported PROVE Found(d)'
    BY <1>1
  <2>1. d.repo \in Repos /\ Found(d)
    BY <1>2 DEF Kept, ChangeEvents
  <2>2. d.id \in repo_state[d.repo].pending.why => d.id \in repo_state'[d.repo].pending.why
    BY <1>4, <1>5, <2>1
  <2>3. d = e => d.id \in repo_state'[d.repo].pending.why
    BY <1>4, <1>5
  <2> QED BY <1>1, <1>6, <2>1, <2>2, <2>3 DEF Found, Work
<1> QED BY <1>1, <1>7, <1>8 DEF Kept, Unique, Reported

(* What a refresh that ends leaves behind *)
Ends(r) ==
  \E p \in Work(r) :
    /\ Work(r) = {p} /\ Work(r)' = {} /\ refreshes[r] = <<p>> /\ refreshes' = [refreshes EXCEPT ![r] = <<>>]
    /\ \A q \in Repos \ {r} : refreshes'[q] = refreshes[q]
    /\ served' = served \cup p.why
    /\ UNCHANGED <<reported, repo_state, watch_rx>>

(* A refresh that ends is the only one of its repository. *)
LEMMA RefreshEndsIs ==
  ASSUME IInv, NEW r \in Repos, RefreshEnds(r)
  PROVE  Ends(r)
<1>1. PICK i \in DOMAIN refreshes[r] :
        /\ served' = served \cup refreshes[r][i].why
        /\ refreshes' = [refreshes EXCEPT ![r] = RemoveAt(@, i)]
        /\ UNCHANGED <<watch_rx, repo_state, reported>>
  BY DEF RefreshEnds
<1>2. refreshes \in [Repos -> Seq(PendingRefresh)] /\ refreshes[r] \in Seq(PendingRefresh)
      /\ Len(refreshes[r]) <= 1
  BY DEF IInv, TypeOK, Slot
<1>3. refreshes[r] # <<>>
  BY <1>1
<1>4. Len(refreshes[r]) = 1
  BY <1>2, <1>3, ShortSequence
<1>5. i = 1
  BY <1>1, <1>2, <1>4
<1>6. refreshes[r] = <<refreshes[r][1]>>
  BY <1>2, <1>4
<1>7. RemoveAt(refreshes[r], i) = <<>>
  BY <1>1, <1>2, RemoveAtType
<1>8. refreshes' = [refreshes EXCEPT ![r] = <<>>]
  BY <1>1, <1>7
<1>9. refreshes'[r] = <<>> /\ \A q \in Repos \ {r} : refreshes'[q] = refreshes[q]
  BY <1>2, <1>8
<1>10. Work(r) = {refreshes[r][1]} /\ Work(r)' = {}
  BY <1>6, <1>9, WorkIs DEF Work
<1> QED BY <1>1, <1>5, <1>6, <1>8, <1>9, <1>10 DEF Ends

(* What a refresh took along is served when it ends. *)
LEMMA KeptByEnd ==
  ASSUME Kept, reported \subseteq ChangeEvents, NEW r \in Repos, Ends(r)
  PROVE  Kept'
<1>1. PICK p \in Work(r) :
        /\ Work(r) = {p} /\ Work(r)' = {}
        /\ \A q \in Repos \ {r} : refreshes'[q] = refreshes[q]
        /\ served' = served \cup p.why
        /\ UNCHANGED <<reported, repo_state, watch_rx>>
  BY DEF Ends
<1>2. \A q \in Repos \ {r} : Work(q)' = Work(q)
  BY <1>1 DEF Work
<1>3. Records'
  BY <1>1, <1>2 DEF Kept, Records, Good
<1>4. served' \subseteq Reported'
  BY <1>1 DEF Kept, Records, Good, Reported
<1>5. \A e \in reported' : Found(e)'
  <2> SUFFICES ASSUME NEW e \in reported PROVE Found(e)'
    BY <1>1
  <2>1. Found(e) /\ e.repo \in Repos
    BY DEF Kept, ChangeEvents
  <2>2. ASSUME NEW q \in Work(e.repo), e.id \in q.why
        PROVE  e.id \in served' \/ \E w \in Work(e.repo)' : e.id \in w.why
    BY <1>1, <1>2, <2>1, <2>2
  <2> QED BY <1>1, <2>1, <2>2 DEF Found
<1> QED BY <1>1, <1>3, <1>4, <1>5 DEF Kept, Unique

(* What was pending goes with the refresh that starts. *)
LEMMA KeptByStart ==
  ASSUME Kept, reported \subseteq ChangeEvents, OnlyStarts
  PROVE  Kept'
<1>1. PICK R \in SUBSET Repos : StartsIn(R)
  BY DEF OnlyStarts
<1>2. UNCHANGED <<reported, served>> /\ SameChanges
  BY DEF OnlyStarts
<1>3. \A r \in R : Work(r)' = {repo_state[r].pending} /\ repo_state'[r].pending = NoWork
  BY <1>1, WorkIs DEF StartsIn, Work
<1>4. \A r \in Repos \ R : Work(r)' = Work(r) /\ repo_state'[r].pending = repo_state[r].pending
  BY <1>1 DEF StartsIn, Work
<1>5. NoWork.why = {} /\ \A r \in R : Work(r) = {}
  BY <1>1, WorkIs DEF NoWork, StartsIn
<1>6. Records'
  <2> SUFFICES ASSUME NEW r \in Repos
               PROVE  Good(r, repo_state[r].pending)' /\ \A p \in Work(r)' : Good(r, p)'
    BY DEF Records
  <2>1. Good(r, repo_state[r].pending) /\ \A p \in Work(r) : Good(r, p)
    BY DEF Kept, Records
  <2>2. CASE r \in R
    BY <1>2, <1>3, <1>5, <2>1, <2>2 DEF Good
  <2>3. CASE r \notin R
    BY <1>2, <1>4, <2>1, <2>3 DEF Good
  <2> QED BY <2>2, <2>3
<1>7. \A e \in reported' : Found(e)'
  <2> SUFFICES ASSUME NEW e \in reported PROVE Found(e)'
    BY <1>2
  <2>1. Found(e) /\ e.repo \in Repos
    BY DEF Kept, ChangeEvents
  <2>2. In(watch_rx', e) <=> In(watch_rx, e)
    BY <1>2 DEF SameChanges
  <2>3. CASE e.repo \in R
    BY <1>2, <1>3, <1>5, <2>1, <2>2, <2>3 DEF Found
  <2>4. CASE e.repo \notin R
    BY <1>2, <1>4, <2>1, <2>2, <2>4 DEF Found
  <2> QED BY <2>3, <2>4
<1> QED BY <1>2, <1>6, <1>7 DEF Kept, Unique, Reported

(* Every step keeps every change. *)
LEMMA KeptStep ==
  ASSUME IInv, Kept, Channel, [Next]_vars
  PROVE  Kept'
<1>1. reported \subseteq ChangeEvents
  BY DEF IInv, TypeOK
<1> QED BY <1>1, FourKinds, KeptByReport, KeptByChange, RefreshEndsIs, KeptByEnd, KeptByStart

-----------------------------------------------------------------------------
(* The channel is first in, first out: a Flush overtakes nothing. *)

(* The changes in the channel are not of those. *)
Spares(q, ids) == \A i \in DOMAIN q : q[i].type = "Change" => q[i].id \notin ids

(* While a Flush is served, what it owes has left the channel; once every  *)
(* repository is being refreshed, none is stale.                           *)
Serving ==
  /\ owes \subseteq Reported
  /\ loop # "select" => Spares(watch_rx, owes)
  /\ loop = "forced" => stale = {}
  /\ stale \subseteq dir_to_repo

(* Appending keeps the earlier events where they are. *)
LEMMA AppendPlaces ==
  ASSUME NEW S, NEW q \in Seq(S), NEW m \in S
  PROVE  /\ Len(q) \in Nat /\ DOMAIN q = 1..Len(q)
         /\ DOMAIN Append(q, m) = 1..(Len(q) + 1)
         /\ Append(q, m)[Len(q) + 1] = m
         /\ \A i \in 1..Len(q) : Append(q, m)[i] = q[i]
OBVIOUS

(* Sparing ids is not disturbed by appending another event. *)
LEMMA SparesAppend ==
  ASSUME NEW S, NEW q \in Seq(S), NEW m \in S, NEW ids, Spares(q, ids),
         m.type = "Change" => m.id \notin ids
  PROVE  Spares(Append(q, m), ids)
<1> DEFINE a == Append(q, m)
<1>1. /\ Len(q) \in Nat /\ DOMAIN q = 1..Len(q)
      /\ DOMAIN a = 1..(Len(q) + 1) /\ a[Len(q) + 1] = m
      /\ \A i \in 1..Len(q) : a[i] = q[i]
  BY AppendPlaces
<1> HIDE DEF a
<1>2. \A i \in DOMAIN a : i \in DOMAIN q \/ i = Len(q) + 1
  BY <1>1
<1>3. Spares(a, ids)
  BY <1>1, <1>2 DEF Spares
<1> QED BY <1>3 DEF a

(* Nor by taking the head. *)
LEMMA SparesTail ==
  ASSUME NEW S, NEW q \in Seq(S), q # <<>>, NEW ids, Spares(q, ids)
  PROVE  Spares(Tail(q), ids)
<1>1. \A i \in DOMAIN Tail(q) : i + 1 \in DOMAIN q /\ Tail(q)[i] = q[i + 1]
  BY TailShifts
<1> QED BY <1>1 DEF Spares

(* What is appended is a change reported just now, or a Flush that knows   *)
(* only what has been reported.                                            *)
LEMMA ChannelAppend ==
  ASSUME Channel, watch_rx \in Seq(WatchEvent), NEW m \in WatchEvent,
         watch_rx' = Append(watch_rx, m), reported \subseteq reported',
         m.type = "Change" => m \in reported' /\ m.id \notin Reported,
         m.type = "Flush" => m.before \subseteq Reported
  PROVE  Channel'
<1> DEFINE n == Len(watch_rx) + 1
<1>1. /\ Len(watch_rx) \in Nat /\ DOMAIN watch_rx = 1..Len(watch_rx)
      /\ DOMAIN watch_rx' = 1..n /\ watch_rx'[n] = m
      /\ \A i \in 1..Len(watch_rx) : watch_rx'[i] = watch_rx[i]
  BY AppendPlaces
<1>2. Reported \subseteq Reported'
  BY DEF Reported
<1>3. \A i \in DOMAIN watch_rx' : (i \in DOMAIN watch_rx /\ watch_rx'[i] = watch_rx[i] /\ i < n)
                                  \/ (i = n /\ watch_rx'[i] = m)
  BY <1>1
<1>4. n \in Nat
  BY <1>1
<1> HIDE DEF n
<1>5. \A i \in DOMAIN watch_rx' : watch_rx'[i].type = "Change" => watch_rx'[i] \in reported'
  BY <1>3 DEF Channel
<1>6. ASSUME NEW i \in DOMAIN watch_rx', watch_rx'[i].type = "Flush"
      PROVE  watch_rx'[i].before \subseteq Reported /\ watch_rx'[i].before \subseteq Reported'
  BY <1>2, <1>3, <1>6 DEF Channel
<1>7. ASSUME NEW i \in DOMAIN watch_rx', watch_rx'[i].type = "Flush",
             NEW j \in DOMAIN watch_rx', i < j, watch_rx'[j].type = "Change"
      PROVE  watch_rx'[j].id \notin watch_rx'[i].before
  <2>1. CASE j = n
    BY <1>3, <1>4, <1>6, <1>7, <2>1
  <2>2. CASE j # n
    <3>1. j \in DOMAIN watch_rx /\ j < n /\ watch_rx'[j] = watch_rx[j]
      BY <1>3, <2>2
    <3>2. i # n
      BY <1>1, <1>4, <1>7, <3>1
    <3>3. i \in DOMAIN watch_rx /\ watch_rx'[i] = watch_rx[i]
      BY <1>3, <3>2
    <3> QED BY <1>7, <3>1, <3>3 DEF Channel
  <2> QED BY <2>1, <2>2
<1> QED BY <1>5, <1>6, <1>7 DEF Channel

(* Taking the head keeps the order; after a Flush come only changes that   *)
(* its client did not know of.                                             *)
LEMMA ChannelTail ==
  ASSUME Channel, watch_rx \in Seq(WatchEvent), watch_rx # <<>>,
         watch_rx' = Tail(watch_rx), reported' = reported
  PROVE  /\ Channel'
         /\ Head(watch_rx).type = "Flush" =>
              Head(watch_rx).before \subseteq Reported
              /\ Spares(watch_rx', Head(watch_rx).before)
<1>1. \A i \in DOMAIN watch_rx' :
        i \in Nat /\ 0 < i /\ i + 1 \in DOMAIN watch_rx /\ watch_rx'[i] = watch_rx[i + 1]
  BY TailShifts
<1>2. 1 \in DOMAIN watch_rx /\ Head(watch_rx) = watch_rx[1]
  BY TailShifts
<1>3. \A i, j \in DOMAIN watch_rx' : i < j => i + 1 < j + 1
  BY <1>1
<1>4. \A i \in DOMAIN watch_rx' : 1 < i + 1
  BY <1>1
<1>5. Reported' = Reported
  BY DEF Reported
<1>6. Channel'
  BY <1>1, <1>3, <1>5 DEF Channel
<1>7. Head(watch_rx).type = "Flush" =>
              Head(watch_rx).before \subseteq Reported
              /\ Spares(watch_rx', Head(watch_rx).before)
  BY <1>1, <1>2, <1>4 DEF Channel, Spares
<1> QED BY <1>6, <1>7

(* Every step keeps the channel in order. *)
LEMMA ChannelStep ==
  ASSUME TypeOK, Channel, [Next]_vars
  PROVE  Channel'
<1> USE DEF vars, channels, repos, flush, clients, history
<1>t. watch_rx \in Seq(WatchEvent) /\ reported \in SUBSET ChangeEvents
  BY DEF TypeOK
<1>0. ASSUME UNCHANGED <<watch_rx, reported>> PROVE Channel'
  BY <1>0 DEF Channel, Reported
<1>1. ASSUME NEW r \in Repos, NEW c \in Changes, NEW s \in Shapes, ReportChange(r, c, s)
      PROVE  Channel'
  <2> DEFINE m == ChangeEvent(r, c, s)
  <2>1. m \in WatchEvent /\ m.type = "Change" /\ m.id = c
    BY ShapesAssumption DEF ChangeEvent, ChangeEvents, WatchEvent
  <2>2. watch_rx' = Append(watch_rx, m) /\ reported' = reported \cup {m} /\ c \notin Reported
    BY <1>1 DEF ReportChange
  <2> HIDE DEF m
  <2> QED BY <1>t, <2>1, <2>2, ChannelAppend
<1>2. ASSUME NEW r \in Repos, SendQueryMiss(r) PROVE Channel'
  <2>1. QueryMissEvent(r) \in WatchEvent /\ QueryMissEvent(r).type = "QueryMiss"
    BY DEF QueryMissEvent, WatchEvent
  <2>2. reported' = reported /\ (watch_rx' = watch_rx \/ watch_rx' = Append(watch_rx, QueryMissEvent(r)))
    BY <1>2 DEF SendQueryMiss
  <2> QED BY <1>t, <1>0, <2>1, <2>2, ChannelAppend
<1>3. CASE SendFlush
  <2>1. Reported \in SUBSET Changes
    BY <1>t DEF Reported, ChangeEvents
  <2>2. /\ FlushEvent(Reported) \in WatchEvent /\ FlushEvent(Reported).type = "Flush"
        /\ FlushEvent(Reported).before = Reported
    BY <2>1 DEF FlushEvent, WatchEvent
  <2>3. reported' = reported /\ watch_rx' = Append(watch_rx, FlushEvent(Reported))
    BY <1>3 DEF SendFlush
  <2> QED BY <1>t, <2>2, <2>3, ChannelAppend
<1>4. CASE HandleQueryMiss \/ HandleChange \/ TakeFlush
  BY <1>4, <1>t, ChannelTail DEF HandleQueryMiss, HandleChange, TakeFlush
<1>5. CASE HandleMsg \/ ForceRefreshes \/ ReplyToFlush
  BY <1>0, <1>5 DEF HandleMsg, HandleElapsed, HandleDone, ForceRefreshes, ReplyToFlush
<1>6. ASSUME NEW r \in Repos, Query(r) \/ HealthCheck(r) \/ TimerFires(r) \/ RefreshEnds(r)
      PROVE  Channel'
  BY <1>0, <1>6 DEF Query, HealthCheck, TimerFires, RefreshEnds
<1>7. CASE UNCHANGED vars
  BY <1>0, <1>7
<1> QED BY <1>1, <1>2, <1>3, <1>4, <1>5, <1>6, <1>7 DEF Next, Environment, Loop, Quiet

(* Every step keeps what a Flush waits for. *)
LEMMA ServingStep ==
  ASSUME TypeOK, Channel, Serving, [Next]_vars
  PROVE  Serving'
<1> USE DEF vars, channels, repos, flush, clients, history
<1>t. watch_rx \in Seq(WatchEvent) /\ reported \in SUBSET ChangeEvents
  BY DEF TypeOK
<1>0. ASSUME UNCHANGED <<watch_rx, reported, loop, owes>>, stale' \subseteq stale,
             stale' \subseteq dir_to_repo'
      PROVE  Serving'
  BY <1>0 DEF Serving, Reported
<1>1. ASSUME NEW r \in Repos, NEW c \in Changes, NEW s \in Shapes, ReportChange(r, c, s)
      PROVE  Serving'
  <2> DEFINE m == ChangeEvent(r, c, s)
  <2>1. m \in WatchEvent /\ m.id = c
    BY ShapesAssumption DEF ChangeEvent, ChangeEvents, WatchEvent
  <2>2. /\ watch_rx' = Append(watch_rx, m) /\ reported' = reported \cup {m} /\ c \notin Reported
        /\ UNCHANGED <<loop, owes, stale, dir_to_repo>>
    BY <1>1 DEF ReportChange
  <2> HIDE DEF m
  <2>3. owes \subseteq Reported' /\ c \notin owes
    BY <2>2 DEF Serving, Reported
  <2> QED BY <1>t, <2>1, <2>2, <2>3, SparesAppend DEF Serving
<1>2. ASSUME NEW r \in Repos, SendQueryMiss(r) PROVE Serving'
  <2>1. QueryMissEvent(r) \in WatchEvent /\ QueryMissEvent(r).type = "QueryMiss"
    BY DEF QueryMissEvent, WatchEvent
  <2>2. UNCHANGED <<reported, loop, owes, stale, dir_to_repo>>
        /\ (watch_rx' = watch_rx \/ watch_rx' = Append(watch_rx, QueryMissEvent(r)))
    BY <1>2 DEF SendQueryMiss
  <2> QED BY <1>t, <2>1, <2>2, SparesAppend DEF Serving, Reported
<1>3. CASE SendFlush
  <2>1. Reported \in SUBSET Changes
    BY <1>t DEF Reported, ChangeEvents
  <2>2. FlushEvent(Reported) \in WatchEvent /\ FlushEvent(Reported).type = "Flush"
    BY <2>1 DEF FlushEvent, WatchEvent
  <2>3. UNCHANGED <<reported, loop, owes, stale, dir_to_repo>>
        /\ watch_rx' = Append(watch_rx, FlushEvent(Reported))
    BY <1>3 DEF SendFlush
  <2>4. Reported' = Reported
    BY <2>3 DEF Reported
  <2>5. loop # "select" => Spares(watch_rx', owes)
    BY <1>t, <2>2, <2>3, SparesAppend DEF Serving
  <2> QED BY <2>3, <2>4, <2>5 DEF Serving
<1>4. CASE HandleQueryMiss \/ HandleChange
  <2>1. UNCHANGED <<reported, loop, owes, stale, dir_to_repo>> /\ loop = "select"
    BY <1>4 DEF HandleQueryMiss, HandleChange
  <2> QED BY <2>1 DEF Serving, Reported
<1>5. CASE TakeFlush
  <2>1. /\ watch_rx # <<>> /\ watch_rx' = Tail(watch_rx) /\ Head(watch_rx).type = "Flush"
        /\ owes' = Head(watch_rx).before /\ loop' = "drain" /\ stale' \subseteq dir_to_repo
        /\ UNCHANGED <<reported, dir_to_repo>>
    BY <1>5 DEF TakeFlush
  <2>2. owes' \subseteq Reported /\ Spares(watch_rx', owes')
    BY <1>t, <2>1, ChannelTail
  <2> QED BY <2>1, <2>2 DEF Serving, Reported
<1>6. CASE HandleMsg
  BY <1>0, <1>6 DEF HandleMsg, HandleElapsed, HandleDone, Serving
<1>7. CASE ForceRefreshes
  <2>1. /\ UNCHANGED <<watch_rx, reported, owes, dir_to_repo>>
        /\ loop = "drain" /\ loop' = "forced" /\ stale' = stale \ dir_to_repo
    BY <1>7 DEF ForceRefreshes
  <2> QED BY <2>1 DEF Serving, Reported
<1>8. CASE ReplyToFlush
  BY <1>8 DEF ReplyToFlush, Serving
<1>9. ASSUME NEW r \in Repos, Query(r) \/ HealthCheck(r) \/ TimerFires(r) \/ RefreshEnds(r)
      PROVE  Serving'
  BY <1>0, <1>9 DEF Query, HealthCheck, TimerFires, RefreshEnds, Serving
<1>10. CASE UNCHANGED vars
  BY <1>0, <1>10 DEF Serving
<1> QED BY <1>1, <1>2, <1>3, <1>4, <1>5, <1>6, <1>7, <1>8, <1>9, <1>10
        DEF Next, Environment, Loop, Quiet

-----------------------------------------------------------------------------
(* All invariants together, and what follows for changes and Flushes *)

KInv == IInv /\ Kept /\ Channel /\ Serving

(* They start true, and every step keeps them. *)
LEMMA KInvInit == Init => KInv
<1> SUFFICES ASSUME Init PROVE KInv
  OBVIOUS
<1>1. IInv
  BY SlotInit
<1>2. /\ watch_rx = <<>> /\ reported = {} /\ served = {} /\ owes = {} /\ stale = {} /\ loop = "select"
      /\ \A r \in Repos : refreshes[r] = <<>> /\ repo_state[r] = Absent
  BY DEF Init
<1>3. \A r \in Repos : Work(r) = {} /\ Good(r, repo_state[r].pending)
  <2>1. NoWork.why = {}
    BY DEF NoWork
  <2>2. \A r \in Repos : repo_state[r].pending = NoWork
    <3>1. Absent.pending = NoWork
      BY DEF Absent
    <3> QED BY <1>2, <3>1
  <2>3. \A r \in Repos : Good(r, repo_state[r].pending)
    BY <2>1, <2>2 DEF Good
  <2> QED BY <1>2, <2>3, WorkIs
<1>4. Kept
  BY <1>2, <1>3 DEF Kept, Unique, Records
<1>5. Channel /\ Serving
  BY <1>2 DEF Channel, Serving
<1> QED BY <1>1, <1>4, <1>5 DEF KInv

(* So they hold in every reachable state. *)
LEMMA KInvariance == Spec => []KInv
<1>1. KInv /\ [Next]_vars => KInv'
  <2> SUFFICES ASSUME KInv, [Next]_vars PROVE KInv'
    OBVIOUS
  <2>1. IInv'
    BY IInvStep DEF KInv
  <2>2. Kept'
    BY KeptStep DEF KInv
  <2>3. Channel' /\ Serving'
    BY ChannelStep, ServingStep DEF KInv, IInv
  <2> QED BY <2>1, <2>2, <2>3 DEF KInv
<1> QED BY <1>1, KInvInit, PTL DEF Spec

(* Every reported change is in the channel, in a pending or running record *)
(* that covers it, or served.                                              *)
THEOREM ChangesAreKept == Spec => []NothingLost
<1>1. KInv => NothingLost
  <2> SUFFICES ASSUME KInv, NEW e \in reported
               PROVE  \/ e.id \in served
                      \/ \E i \in DOMAIN watch_rx : watch_rx[i] = e
                      \/ repo_state[e.repo].phase \in {"debouncing", "pending"}
                         /\ Covers(repo_state[e.repo].pending, e)
                      \/ \E i \in DOMAIN refreshes[e.repo] : Covers(refreshes[e.repo][i], e)
    BY DEF NothingLost
  <2>1. e.repo \in Repos /\ repo_state[e.repo] \in RepoRefreshState
    BY DEF KInv, IInv, TypeOK, ChangeEvents
  <2>2. \A p : Good(e.repo, p) /\ e.id \in p.why => Covers(p, e)
    BY DEF KInv, Kept, Unique, Good
  <2>3. Good(e.repo, repo_state[e.repo].pending) /\ \A p \in Work(e.repo) : Good(e.repo, p)
    BY <2>1 DEF KInv, Kept, Records
  <2>4. CASE e.id \in served
    BY <2>4
  <2>5. CASE In(watch_rx, e)
    BY <2>5 DEF In, Places
  <2>6. CASE e.id \in repo_state[e.repo].pending.why
    <3>1. repo_state[e.repo].phase \notin {"absent", "inflight"}
      BY <2>1, <2>6, NothingPending DEF NoWork
    <3>2. repo_state[e.repo].phase \in {"debouncing", "pending"}
      BY <2>1, <3>1, EntryType
    <3> QED BY <2>2, <2>3, <2>6, <3>2
  <2>7. ASSUME NEW p \in Work(e.repo), e.id \in p.why
        PROVE  \E i \in DOMAIN refreshes[e.repo] : Covers(refreshes[e.repo][i], e)
    BY <2>2, <2>3, <2>7 DEF Work
  <2> QED BY <2>4, <2>5, <2>6, <2>7 DEF KInv, Kept, Found
<1> QED BY <1>1, KInvariance, PTL

(* The loop answers a Flush only in its second wait, with the map empty.   *)
LEMMA OnlyReplyAnswers ==
  ASSUME [Next]_vars, loop # "select", loop' = "select"
  PROVE  loop = "forced" /\ Drained
<1> USE DEF vars, channels, repos, flush, clients, history
<1>1. CASE Environment \/ HandleMsg \/ (\E r \in Repos : TimerFires(r) \/ RefreshEnds(r)) \/ Quiet
  BY <1>1 DEF Environment, ReportChange, Query, SendQueryMiss, HealthCheck, SendFlush,
     HandleMsg, HandleElapsed, HandleDone, TimerFires, RefreshEnds, Quiet
<1>2. CASE HandleQueryMiss \/ HandleChange \/ TakeFlush \/ ForceRefreshes
  BY <1>2 DEF HandleQueryMiss, HandleChange, TakeFlush, ForceRefreshes
<1>3. CASE ReplyToFlush
  BY <1>3 DEF ReplyToFlush
<1> QED BY <1>1, <1>2, <1>3 DEF Next, Loop

(* When a Flush is answered, all that was reported before the client asked *)
(* is refreshed, and every known repository has been since.                *)
THEOREM FlushIsComplete == Spec => FlushAnswersForEverything
<1>1. KInv /\ [Next]_vars
        => [loop # "select" /\ loop' = "select" => owes \subseteq served /\ stale = {}]_vars
  <2> SUFFICES ASSUME KInv, [Next]_vars, loop # "select", loop' = "select"
               PROVE  owes \subseteq served /\ stale = {}
    OBVIOUS
  <2>1. loop = "forced" /\ Drained
    BY OnlyReplyAnswers
  <2>2. stale = {}
    BY <2>1 DEF KInv, Serving
  <2>3. \A r \in Repos : Work(r) = {} /\ repo_state[r].pending.why = {}
    <3> SUFFICES ASSUME NEW r \in Repos PROVE Work(r) = {} /\ repo_state[r].pending.why = {}
      OBVIOUS
    <3>1. repo_state[r] = Absent
      BY <2>1 DEF Drained
    <3>2. refreshes[r] = <<>>
      BY <3>1 DEF KInv, IInv, Slot, Busy, Absent
    <3> QED BY <3>1, <3>2, WorkIs DEF Absent, NoWork
  <2>4. ASSUME NEW c \in owes PROVE c \in served
    <3>1. PICK e \in reported : e.id = c
      BY DEF KInv, Serving, Reported
    <3>2. e.repo \in Repos /\ e.type = "Change"
      BY DEF KInv, IInv, TypeOK, ChangeEvents
    <3>3. ~In(watch_rx, e)
      BY <2>1, <3>1, <3>2 DEF KInv, Serving, Spares, In, Places
    <3>4. Found(e)
      BY DEF KInv, Kept
    <3> QED BY <2>3, <3>1, <3>2, <3>3, <3>4 DEF Found
  <2> QED BY <2>2, <2>4
<1>2. []KInv /\ [][Next]_vars => FlushAnswersForEverything
  BY <1>1, PTL DEF FlushAnswersForEverything
<1> QED BY <1>2, KInvariance, PTL DEF Spec

-----------------------------------------------------------------------------
(* The refinement: the four kinds of steps are the steps of the promise *)

(* A change is owed until a running record stands for it, or it is served. *)
LEMMA OwedIs ==
  Owed = {e \in reported : e.id \notin served /\ \A p \in Work(e.repo) : e.id \notin p.why}
BY DEF Owed, Work

(* A report is a report. *)
LEMMA ReportsReport ==
  ASSUME KInv, NEW r \in Repos, NEW c \in Changes, NEW s \in Shapes, ReportChange(r, c, s)
  PROVE  Promise!Report
<1> USE DEF repos
<1> DEFINE e0 == ChangeEvent(r, c, s)
<1>1. reported' = reported \cup {e0} /\ c \notin Reported /\ UNCHANGED <<refreshes, served>>
      /\ e0.id = c /\ e0.repo = r
  BY DEF ReportChange, ChangeEvent
<1>2. c \notin served /\ \A p \in Work(r) : c \notin p.why
  BY <1>1 DEF KInv, Kept, Records, Good, Reported
<1>3. \A q \in Repos : Work(q)' = Work(q)
  BY <1>1 DEF Work
<1>4. \A e \in reported : e.repo \in Repos
  BY DEF KInv, IInv, TypeOK, ChangeEvents
<1> HIDE DEF e0
<1>5. Owed' = Owed \cup {e0}
  <2>1. Owed' = {e \in reported' : e.id \notin served' /\ \A p \in Work(e.repo)' : e.id \notin p.why}
    BY DEF Owed, Work
  <2> QED BY <1>1, <1>2, <1>3, <1>4, <2>1, OwedIs
<1>6. s \in Shape
  BY ShapesAssumption
<1> QED BY <1>1, <1>2, <1>5, <1>6 DEF Promise!Report, Promise!ChangeEvent, ChangeEvent, e0,
           Promise!Shape, Promise!Hint, Shape, Hint

(* Refreshes that start, if any do, take along what they cover.            *)
LEMMA StartsStart ==
  ASSUME KInv, TypeOK', OnlyStarts
  PROVE  Promise!Start \/ UNCHANGED <<Owed, refreshes, served>>
<1>1. PICK R \in SUBSET Repos : StartsIn(R)
  BY DEF OnlyStarts
<1>2. UNCHANGED <<reported, served>>
  BY DEF OnlyStarts
<1>3. \A r \in R : Work(r)' = {repo_state[r].pending} /\ Work(r) = {}
                   /\ refreshes[r] = <<>> /\ refreshes'[r] = <<repo_state[r].pending>>
  BY <1>1, WorkIs DEF StartsIn, Work
<1>4. \A r \in Repos \ R : Work(r)' = Work(r) /\ refreshes'[r] = refreshes[r]
  BY <1>1 DEF StartsIn, Work
<1>5. \A e \in reported : e.repo \in Repos
  BY DEF KInv, IInv, TypeOK, ChangeEvents
<1>6. Owed = {e \in reported : e.id \notin served /\ \A p \in Work(e.repo) : e.id \notin p.why}
  BY OwedIs
<1>7. Owed' = {e \in reported : e.id \notin served /\ \A p \in Work(e.repo)' : e.id \notin p.why}
  BY <1>2 DEF Owed, Work
<1>8. CASE R = {}
  <2>1. refreshes' = refreshes
    BY <1>4, <1>8 DEF KInv, IInv, TypeOK
  <2>2. Owed' = Owed
    BY <1>4, <1>5, <1>6, <1>7, <1>8
  <2> QED BY <1>2, <2>1, <2>2
<1>9. CASE R # {}
  <2> DEFINE T(p) == {e \in Owed : e.id \in p.why}
  <2>1. R = {r \in Repos : refreshes'[r] # refreshes[r]}
    <3>1. ASSUME NEW r \in R PROVE refreshes'[r] # refreshes[r]
      <4>1. PICK p : p = repo_state[r].pending
        OBVIOUS
      <4>2. <<p>> # <<>>
        OBVIOUS
      <4> QED BY <1>3, <4>1, <4>2
    <3> QED BY <1>4, <3>1
  <2>2. \A r \in R : refreshes'[r][1] = repo_state[r].pending /\ Len(refreshes'[r]) = 1
    <3>1. ASSUME NEW r \in R PROVE refreshes'[r][1] = repo_state[r].pending /\ Len(refreshes'[r]) = 1
      <4>1. PICK p : p = repo_state[r].pending
        OBVIOUS
      <4>2. <<p>>[1] = p /\ Len(<<p>>) = 1
        OBVIOUS
      <4> QED BY <1>3, <4>1, <4>2
    <3> QED BY <3>1
  <2>3. \A r \in R : \A e \in T(repo_state[r].pending) : e.repo = r /\ Covers(repo_state[r].pending, e)
    BY <1>6 DEF KInv, Kept, Records, Unique, Good
  <2>4. Owed' = Owed \ UNION {T(repo_state[r].pending) : r \in R}
    <3>1. ASSUME NEW e \in Owed, NEW r \in R, e \in T(repo_state[r].pending) PROVE e \notin Owed'
      BY <1>3, <1>7, <2>3, <3>1
    <3>2. ASSUME NEW e \in Owed, e \notin Owed' PROVE \E r \in R : e \in T(repo_state[r].pending)
      <4>1. e \in reported /\ e.repo \in Repos /\ e.id \notin served
            /\ \A p \in Work(e.repo) : e.id \notin p.why
        BY <1>5, <1>6
      <4>2. PICK p \in Work(e.repo)' : e.id \in p.why
        BY <1>7, <3>2, <4>1
      <4>3. e.repo \in R
        BY <1>4, <4>1, <4>2
      <4> QED BY <1>3, <4>2, <4>3
    <3>3. ASSUME NEW e \in Owed' PROVE e \in Owed
      BY <1>3, <1>4, <1>5, <1>6, <1>7
    <3> QED BY <3>1, <3>2, <3>3
  <2>5. \A p : Promise!TakenBy(p) = T(p)
    BY DEF Promise!TakenBy
  <2>6. \A p, e : Promise!Covers(p, e) <=> Covers(p, e)
    BY DEF Promise!Covers, Covers
  <2>7. \A r \in R : Promise!Begins(r)
    BY <1>3, <2>2, <2>3, <2>5, <2>6 DEF Promise!Begins
  <2>8. {Promise!TakenBy(refreshes'[r][1]) : r \in R} = {T(repo_state[r].pending) : r \in R}
    BY <2>2, <2>5
  <2> HIDE DEF T
  <2> QED BY <1>2, <1>9, <2>1, <2>4, <2>7, <2>8 DEF Promise!Start
<1> QED BY <1>8, <1>9

(* A refresh that ends finishes. *)
LEMMA EndsFinish ==
  ASSUME KInv, NEW r \in Repos, Ends(r)
  PROVE  Promise!Finish(r)
<1>1. PICK p \in Work(r) :
        /\ Work(r) = {p} /\ Work(r)' = {} /\ refreshes[r] = <<p>>
        /\ refreshes' = [refreshes EXCEPT ![r] = <<>>]
        /\ \A q \in Repos \ {r} : refreshes'[q] = refreshes[q]
        /\ served' = served \cup p.why
        /\ UNCHANGED reported
  BY DEF Ends
<1>2. \A q \in Repos \ {r} : Work(q)' = Work(q)
  BY <1>1 DEF Work
<1>3. \A e \in reported : e.repo \in Repos /\ (e.id \in p.why => e.repo = r)
  <2>1. Good(r, p) /\ Unique
    BY <1>1 DEF KInv, Kept, Records
  <2>2. \A e \in reported : e.repo \in Repos
    BY DEF KInv, IInv, TypeOK, ChangeEvents
  <2> QED BY <2>1, <2>2 DEF Good, Unique
<1>4. Owed = {e \in reported : e.id \notin served /\ \A q \in Work(e.repo) : e.id \notin q.why}
  BY OwedIs
<1>5. Owed' = {e \in reported : e.id \notin served' /\ \A q \in Work(e.repo)' : e.id \notin q.why}
  BY <1>1 DEF Owed, Work
<1>6. Owed' = Owed
  BY <1>1, <1>2, <1>3, <1>4, <1>5
<1>7. refreshes[r] # <<>> /\ refreshes[r][1] = p
  BY <1>1
<1> QED BY <1>1, <1>6, <1>7 DEF Promise!Finish

(* A change on its way from the channel to its repository stays owed. *)
LEMMA ChangeStutters ==
  ASSUME HandleChange
  PROVE  UNCHANGED <<Owed, refreshes, served>>
BY DEF HandleChange, history, Owed

(* The loop implements the promise: changes are owed until a refresh that  *)
(* starts takes them with a record that covers them, one at a time for a   *)
(* repository.                                                             *)
THEOREM LoopKeepsPromise == Spec => ImplementsPromise
<1>1. Init => Promise!Init
  <2> SUFFICES ASSUME Init PROVE Promise!Init
    OBVIOUS
  <2>1. reported = {} /\ served = {} /\ refreshes = [r \in Repos |-> <<>>]
    BY DEF Init
  <2> QED BY <2>1 DEF Promise!Init, Owed
<1>2. KInv /\ KInv' /\ [Next]_vars => [Promise!Next]_(Promise!pvars)
  <2> SUFFICES ASSUME KInv, KInv', [Next]_vars
               PROVE  Promise!Next \/ UNCHANGED <<Owed, refreshes, served>>
    BY DEF Promise!pvars
  <2>1. IInv /\ TypeOK'
    BY DEF KInv, IInv
  <2>2. ASSUME NEW r \in Repos, NEW c \in Changes, NEW s \in Shapes, ReportChange(r, c, s)
        PROVE  Promise!Next
    BY <2>2, ReportsReport DEF Promise!Next
  <2>3. ASSUME NEW r \in Repos, RefreshEnds(r) PROVE Promise!Next
    BY <2>1, <2>3, RefreshEndsIs, EndsFinish DEF Promise!Next
  <2>4. CASE OnlyStarts
    BY <2>1, <2>4, StartsStart DEF Promise!Next
  <2> QED BY <2>1, <2>2, <2>3, <2>4, ChangeStutters, FourKinds
<1> QED BY <1>1, <1>2, KInvariance, PTL DEF Spec, ImplementsPromise, Promise!Safe

=============================================================================
