-------------------------- MODULE RefreshScheduler --------------------------
(***************************************************************************)
(* The control loop of the daemon that decides when a repository is        *)
(* refreshed: refresh_task and handle_refresh_msg of src/daemon.rs, with   *)
(* the PendingRefresh records it merges, the debounce timers and refresh   *)
(* tasks it spawns, and the two channels it selects on.                    *)
(*                                                                         *)
(* The loop is one tokio task.  Around it run, concurrently: the file      *)
(* watchers (Change), the client connections (QueryMiss, Flush), the       *)
(* 50 ms timers and one task per started refresh.  Both channels are       *)
(* unbounded and FIFO.  What a refresh does is in StatusCache; here it is  *)
(* a task that ends and then reports Done.                                 *)
(***************************************************************************)
EXTENDS RefreshWork, Sequences, FiniteSets, SequencesExt

CONSTANTS
  Shapes,       \* what a Change event may carry, a subset of Shape
  MaxMisses,    \* bound: queries clients make
  MaxFlushes    \* bound: Flush requests clients send

ASSUME ShapesAssumption == Shapes \subseteq Shape
ASSUME BoundsAssumption == MaxMisses \in Nat /\ MaxFlushes \in Nat

VARIABLES
  dir_to_repo,  \* repositories the daemon knows (range of DaemonState.dir_to_repo)
  watch_rx,     \* WatchEvent channel into the loop
  msg_rx,       \* RefreshMsg channel into the loop
  repo_state,   \* per repository: RepoRefreshState, or "absent" from the map
  timers,       \* per repository: debounce timers still sleeping
  refreshes,    \* per repository: the records of the refresh tasks running
  loop,         \* "select", or the wait of a Flush: "drain", then "forced"
  asking,       \* per repository: connections between their two lock sections
  misses,       \* queries the bound still allows
  flushes,      \* Flush requests the bound still allows
  owes,         \* history: changes reported before the Flush now served
  stale,        \* history: known repositories not refreshed since it was taken up
  reported,     \* history: every Change event reported
  served        \* history: changes whose refresh has ended

channels == <<watch_rx, msg_rx>>
repos    == <<repo_state, timers, refreshes>>   \* what the loop has spawned
flush    == <<loop, owes, stale>>
clients  == <<asking, misses, flushes>>
history  == <<reported, served>>

vars == <<dir_to_repo, channels, repos, flush, clients, history>>

-----------------------------------------------------------------------------
(* Entries of the repo_state map, and the messages of the two channels *)
Absent        == [phase |-> "absent",  pending |-> NoWork]
InFlight      == [phase |-> "inflight", pending |-> NoWork]
Debouncing(p) == [phase |-> "debouncing", pending |-> p]
Pending(p)    == [phase |-> "pending", pending |-> p]

RepoRefreshState ==
  {Absent, InFlight} \cup [phase : {"debouncing", "pending"}, pending : PendingRefresh]

QueryMissEvent(r)    == [type |-> "QueryMiss", repo |-> r]
(* before: history, the changes reported when the client asked *)
FlushEvent(before)   == [type |-> "Flush", before |-> before]

WatchEvent == ChangeEvents
              \cup [type : {"QueryMiss"}, repo : Repos]
              \cup [type : {"Flush"}, before : SUBSET Changes]

Done(r)            == [type |-> "Done", repo |-> r]
DebounceElapsed(r) == [type |-> "DebounceElapsed", repo |-> r]

RefreshMsg == [type : {"Done", "DebounceElapsed"}, repo : Repos]

Init ==
  /\ dir_to_repo \in SUBSET Repos          \* recover_watchers
  /\ watch_rx = <<>>
  /\ msg_rx = <<>>
  /\ repo_state = [r \in Repos |-> Absent]
  /\ timers = [r \in Repos |-> 0]
  /\ refreshes = [r \in Repos |-> <<>>]
  /\ loop = "select" /\ owes = {} /\ stale = {}
  /\ asking = [r \in Repos |-> 0]
  /\ misses = MaxMisses /\ flushes = MaxFlushes
  /\ reported = {}
  /\ served = {}

Reported == {e.id : e \in reported}

-----------------------------------------------------------------------------
(* Senders *)

(* A watcher callback reports a change of a repository it watches. *)
ReportChange(r, c, s) ==
  /\ r \in dir_to_repo
  /\ c \notin Reported
  /\ reported' = reported \cup {ChangeEvent(r, c, s)}
  /\ watch_rx' = Append(watch_rx, ChangeEvent(r, c, s))
  /\ UNCHANGED <<dir_to_repo, msg_rx, repos, flush, clients, served>>

(* A connection resolves the repository of a query under the state lock,   *)
(* and registers it if it is new.                                          *)
Query(r) ==
  /\ misses > 0
  /\ misses' = misses - 1
  /\ dir_to_repo' = dir_to_repo \cup {r}
  /\ asking' = [asking EXCEPT ![r] = @ + 1]
  /\ UNCHANGED <<channels, repos, flush, flushes, history>>

(* Under the lock again it finds nothing cached and asks for a refresh; or *)
(* it answers from the cache.  Other tasks ran in between.                 *)
SendQueryMiss(r) ==
  /\ asking[r] > 0
  /\ asking' = [asking EXCEPT ![r] = @ - 1]
  /\ \/ watch_rx' = Append(watch_rx, QueryMissEvent(r))
     \/ UNCHANGED watch_rx
  /\ UNCHANGED <<dir_to_repo, msg_rx, repos, flush, misses, flushes, history>>

SendFlush ==
  /\ flushes > 0
  /\ flushes' = flushes - 1
  /\ watch_rx' = Append(watch_rx, FlushEvent(Reported))
  /\ UNCHANGED <<dir_to_repo, msg_rx, repos, flush, asking, misses, history>>

(* The health check drops a repository whose directory has vanished; the   *)
(* loop's own map, its queue and a running refresh keep it.                *)
HealthCheck(r) ==
  /\ r \in dir_to_repo
  /\ dir_to_repo' = dir_to_repo \ {r}
  /\ stale' = stale \ {r}
  /\ UNCHANGED <<channels, repos, loop, owes, clients, history>>

(* spawn_debounce_timer: one sleep, then a message *)
TimerFires(r) ==
  /\ timers[r] > 0
  /\ timers' = [timers EXCEPT ![r] = @ - 1]
  /\ msg_rx' = Append(msg_rx, DebounceElapsed(r))
  /\ UNCHANGED <<dir_to_repo, watch_rx, repo_state, refreshes, flush, clients, history>>

(* Mutant: a path out of refresh_repo returns before it sends Done. *)
RefreshEndsSilently(r) ==
  \E i \in DOMAIN refreshes[r] :
    /\ served' = served \cup refreshes[r][i].why
    /\ refreshes' = [refreshes EXCEPT ![r] = RemoveAt(@, i)]
    /\ UNCHANGED <<dir_to_repo, channels, repo_state, timers, flush, clients, reported>>

(* refresh_repo returns, well or badly: its last act is to send Done *)
RefreshEnds(r) ==
  \E i \in DOMAIN refreshes[r] :
    /\ served' = served \cup refreshes[r][i].why
    /\ refreshes' = [refreshes EXCEPT ![r] = RemoveAt(@, i)]
    /\ msg_rx' = Append(msg_rx, Done(r))
    /\ UNCHANGED <<dir_to_repo, watch_rx, repo_state, timers, flush, clients, reported>>

-----------------------------------------------------------------------------
(* The loop.  Start(r, ..) is the body shared by all its spawn sites: the  *)
(* map entry becomes InFlight and a refresh task runs with the record.     *)
Started(f, r, p) == [f EXCEPT ![r] = Append(@, p)]

(* Mutant: a miss also starts a refresh while one is in flight. *)
QueryMissStartsAgain(r) == repo_state[r].phase # "pending"

QueryMissStarts(r) == repo_state[r].phase \in {"absent", "debouncing"}

(* QueryMiss skips the debounce; a refresh that is running serves it.      *)
HandleQueryMiss ==
  /\ loop = "select"
  /\ watch_rx # <<>>
  /\ LET e == Head(watch_rx) IN
       /\ e.type = "QueryMiss"
       /\ IF QueryMissStarts(e.repo)
            THEN /\ repo_state' = [repo_state EXCEPT ![e.repo] = InFlight]
                 /\ refreshes' = Started(refreshes, e.repo, repo_state[e.repo].pending)
            ELSE UNCHANGED <<repo_state, refreshes>>
  /\ watch_rx' = Tail(watch_rx)
  /\ UNCHANGED <<dir_to_repo, msg_rx, timers, flush, clients, history>>

(* Mutants: a Change that finds a refresh in flight opens a window; one    *)
(* that finds changes pending behind a refresh is dropped.                 *)
AfterChangeOpensWindow(s, p) ==
  IF s.phase \in {"absent", "inflight"} THEN Debouncing(p)
  ELSE [phase |-> s.phase, pending |-> Merge(s.pending, p)]

AfterChangeDrops(s, p) ==
  IF s.phase = "absent" THEN Debouncing(p)
  ELSE IF s.phase = "inflight" THEN Pending(p)
  ELSE s

(* Where a Change leaves the map entry of its repository *)
AfterChange(s, p) ==
  IF s.phase = "absent" THEN Debouncing(p)
  ELSE IF s.phase = "inflight" THEN Pending(p)
  ELSE [phase |-> s.phase, pending |-> Merge(s.pending, p)]

HandleChange ==
  /\ loop = "select"
  /\ watch_rx # <<>>
  /\ LET e == Head(watch_rx) IN
       /\ e.type = "Change"
       /\ repo_state' = [repo_state EXCEPT ![e.repo] = AfterChange(@, Incoming(e))]
       /\ timers' = IF repo_state[e.repo].phase = "absent"
                      THEN [timers EXCEPT ![e.repo] = @ + 1] ELSE timers
  /\ watch_rx' = Tail(watch_rx)
  /\ UNCHANGED <<dir_to_repo, msg_rx, refreshes, flush, clients, history>>

(* A Flush promotes every debouncing repository, then waits in "drain".    *)
Promoted(r) == repo_state[r].phase = "debouncing"

TakeFlush ==
  /\ loop = "select"
  /\ watch_rx # <<>>
  /\ LET e == Head(watch_rx) IN
       /\ e.type = "Flush"
       /\ owes' = e.before
  /\ loop' = "drain"
  /\ stale' = {r \in dir_to_repo : ~Promoted(r)}
  /\ repo_state' = [r \in Repos |-> IF Promoted(r) THEN InFlight ELSE repo_state[r]]
  /\ refreshes' = [r \in Repos |-> IF Promoted(r)
                                     THEN Append(refreshes[r], repo_state[r].pending)
                                     ELSE refreshes[r]]
  /\ watch_rx' = Tail(watch_rx)
  /\ UNCHANGED <<dir_to_repo, msg_rx, timers, clients, history>>

(* handle_refresh_msg, DebounceElapsed: acts only on an open window *)
HandleElapsed ==
  /\ msg_rx # <<>>
  /\ LET m == Head(msg_rx) IN
       /\ m.type = "DebounceElapsed"
       /\ IF repo_state[m.repo].phase = "debouncing"
            THEN /\ repo_state' = [repo_state EXCEPT ![m.repo] = InFlight]
                 /\ refreshes' = Started(refreshes, m.repo, repo_state[m.repo].pending)
                 /\ stale' = stale \ {m.repo}
            ELSE UNCHANGED <<repo_state, refreshes, stale>>
  /\ msg_rx' = Tail(msg_rx)
  /\ UNCHANGED <<dir_to_repo, watch_rx, timers, loop, owes, clients, history>>

(* Mutant: the waits of a Flush handle messages as the select! does. *)
NeverSkipDebounce == FALSE

(* handle_refresh_msg's last argument: TRUE from the waits of a Flush *)
SkipDebounce == loop # "select"

(* handle_refresh_msg, Done: what queued up meanwhile is refreshed again,  *)
(* at once during a Flush (skip_debounce), else after a fresh window.      *)
HandleDone ==
  /\ msg_rx # <<>>
  /\ LET m == Head(msg_rx)
         s == repo_state[m.repo]
     IN
       /\ m.type = "Done"
       /\ IF s.phase # "pending"
            THEN /\ repo_state' = [repo_state EXCEPT ![m.repo] = Absent]
                 /\ UNCHANGED <<timers, refreshes, stale>>
            ELSE IF SkipDebounce
            THEN /\ repo_state' = [repo_state EXCEPT ![m.repo] = InFlight]
                 /\ refreshes' = Started(refreshes, m.repo, s.pending)
                 /\ stale' = stale \ {m.repo}
                 /\ UNCHANGED timers
            ELSE /\ repo_state' = [repo_state EXCEPT ![m.repo] = Debouncing(s.pending)]
                 /\ timers' = [timers EXCEPT ![m.repo] = @ + 1]
                 /\ UNCHANGED <<refreshes, stale>>
  /\ msg_rx' = Tail(msg_rx)
  /\ UNCHANGED <<dir_to_repo, watch_rx, loop, owes, clients, history>>

(* In the Flush waits the loop receives only from msg_rx, until the map is *)
(* empty.  After the first wait it refreshes every known repository.       *)
(* Mutant: a wait that only looks for changes still pending. *)
DrainedOfPending == \A r \in Repos : repo_state[r].phase # "pending"

Drained == \A r \in Repos : repo_state[r] = Absent

ForceRefreshes ==
  /\ loop = "drain" /\ Drained
  /\ repo_state' = [r \in Repos |-> IF r \in dir_to_repo THEN InFlight ELSE repo_state[r]]
  /\ refreshes' = [r \in Repos |-> IF r \in dir_to_repo THEN Append(refreshes[r], NoWork)
                                    ELSE refreshes[r]]
  /\ loop' = "forced"
  /\ stale' = stale \ dir_to_repo
  /\ UNCHANGED <<dir_to_repo, channels, timers, owes, clients, history>>

ReplyToFlush ==
  /\ loop = "forced" /\ Drained
  /\ loop' = "select" /\ owes' = {} /\ stale' = {}
  /\ UNCHANGED <<dir_to_repo, channels, repos, clients, history>>

(* select! with both channels empty, no timer and no refresh outstanding   *)
Quiet ==
  /\ loop = "select" /\ watch_rx = <<>> /\ msg_rx = <<>>
  /\ \A r \in Repos : timers[r] = 0 /\ refreshes[r] = <<>>
  /\ UNCHANGED vars

Environment ==
  \/ \E r \in Repos, c \in Changes, s \in Shapes : ReportChange(r, c, s)
  \/ \E r \in Repos : Query(r) \/ SendQueryMiss(r) \/ HealthCheck(r)
  \/ SendFlush

HandleMsg == HandleElapsed \/ HandleDone

Loop == HandleQueryMiss \/ HandleChange \/ TakeFlush \/ HandleMsg
        \/ ForceRefreshes \/ ReplyToFlush

Next ==
  \/ Environment
  \/ Loop
  \/ \E r \in Repos : TimerFires(r) \/ RefreshEnds(r)
  \/ Quiet

(* select! picks fairly among its ready branches, sleeps end, and every    *)
(* refresh ends: each await in refresh_repo is a lock or the reply of a    *)
(* worker, which is an error when the worker is gone.                      *)
Fairness ==
  /\ WF_vars(HandleQueryMiss \/ HandleChange \/ TakeFlush)
  /\ WF_vars(HandleMsg)
  /\ WF_vars(ForceRefreshes) /\ WF_vars(ReplyToFlush)
  /\ \A r \in Repos : WF_vars(TimerFires(r)) /\ WF_vars(RefreshEnds(r))

Spec == Init /\ [][Next]_vars /\ Fairness

-----------------------------------------------------------------------------
(* Every variable has its type. *)
TypeOK ==
  /\ dir_to_repo \in SUBSET Repos
  /\ watch_rx \in Seq(WatchEvent)
  /\ msg_rx \in Seq(RefreshMsg)
  /\ repo_state \in [Repos -> RepoRefreshState]
  /\ timers \in [Repos -> Nat]
  /\ refreshes \in [Repos -> Seq(PendingRefresh)]
  /\ loop \in {"select", "drain", "forced"}
  /\ owes \in SUBSET Changes /\ stale \in SUBSET Repos
  /\ asking \in [Repos -> Nat]
  /\ misses \in Nat /\ flushes \in Nat
  /\ reported \in SUBSET ChangeEvents
  /\ served \in SUBSET Changes

(* At most one refresh of a repository runs at a time (daemon.rs:1562),    *)
(* whatever mix of misses, timers, Flushes and Dones started them.         *)
AtMostOneRefresh == \A r \in Repos : Len(refreshes[r]) <= 1

(* The loop waits for a Done exactly when one will come: a repository is   *)
(* in flight iff its refresh runs or its Done is queued, once.  Otherwise  *)
(* its changes queue up forever behind a refresh that has ended.           *)
Places(q, x) == {i \in DOMAIN q : q[i] = x}

InFlightMeansDoneIsDue ==
  \A r \in Repos :
    Len(refreshes[r]) + Cardinality(Places(msg_rx, Done(r)))
      = IF repo_state[r].phase \in {"inflight", "pending"} THEN 1 ELSE 0

(* A Flush must not wait out debounce windows (daemon.rs:1602): none is    *)
(* open while it waits, so it needs no timer to finish.                    *)
FlushOpensNoWindow ==
  loop # "select" => \A r \in Repos : repo_state[r].phase # "debouncing"

(* No change is lost or weakened on its way into a refresh: it is in the   *)
(* channel, or in a queued or running record that covers it, or served.    *)
NothingLost ==
  \A e \in reported :
    \/ e.id \in served
    \/ \E i \in DOMAIN watch_rx : watch_rx[i] = e
    \/ repo_state[e.repo].phase \in {"debouncing", "pending"} /\ Covers(repo_state[e.repo].pending, e)
    \/ \E i \in DOMAIN refreshes[e.repo] : Covers(refreshes[e.repo][i], e)

(* When a Flush is answered, every change reported before the client asked *)
(* has been refreshed, and every repository known when the loop took the   *)
(* Flush up (and still watched) has been refreshed from after that moment. *)
FlushAnswersForEverything ==
  [][loop # "select" /\ loop' = "select" => owes \subseteq served /\ stale = {}]_vars

(* Every reported change is eventually taken into a refresh that ends.     *)
EveryChangeServed ==
  \A c \in Changes : c \in Reported ~> c \in served

(* Every Flush is eventually answered: it cannot wait for itself.          *)
FlushPending == loop # "select" \/ \E i \in DOMAIN watch_rx : watch_rx[i].type = "Flush"

FlushCompletes == FlushPending ~> ~FlushPending

-----------------------------------------------------------------------------
(* The abstract promise: a change is owed until a refresh that starts      *)
(* takes it along.                                                         *)
Owed == {e \in reported :
           /\ e.id \notin served
           /\ \A i \in DOMAIN refreshes[e.repo] : e.id \notin refreshes[e.repo][i].why}

Promise == INSTANCE RefreshPromise WITH owed <- Owed, work <- refreshes

(* The loop implements the promise: refreshes of a repository exclude each *)
(* other, and each starts with a record that covers the changes it takes.  *)
ImplementsPromise == Promise!Safe

=============================================================================
