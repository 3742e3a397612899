---------------------------- MODULE StatusCache ----------------------------
(***************************************************************************)
(* What clients and shell hooks see of one repository: the status cache of *)
(* the daemon, the cache file the hook reads without asking, the refresh   *)
(* that replaces both, and the connections that wait for it                *)
(* (handle_connection, refresh_repo, reload_config and the signal and      *)
(* health-check tasks of run_daemon in src/daemon.rs).                     *)
(*                                                                         *)
(* The changes of a repository are numbered, each a change of other files  *)
(* than the others, and a status is abstracted to the changes it accounts  *)
(* for.  Which it does is up to the worker, whose answers are those of     *)
(* GitWorker and JjWorker: a refresh reads again only what its request     *)
(* names and what the worker retains, and a full one of a jj repository    *)
(* sees what is in the store, not the files.  When a refresh starts is     *)
(* RefreshScheduler's subject; here a change is owed until some refresh    *)
(* takes it, and a repository is refreshed by one task at a time until the *)
(* loop has seen its Done.                                                 *)
(*                                                                         *)
(* The lock sections of daemon tasks are atomic.  With Threads = 1 (the    *)
(* default build, new_current_thread) a task that goes from one section to *)
(* the next without another await is not interrupted by other daemon       *)
(* tasks; with Threads = 2 (feature tokio-console) it may be.  File        *)
(* watchers and the repository itself run on threads of their own.         *)
(***************************************************************************)
EXTENDS Naturals, Sequences, FiniteSets, SequencesExt

CONSTANTS
  Clients,     \* connections, each of which asks once
  Threads,     \* threads of the tokio runtime: 1 or 2
  Kinds,       \* kinds of repository: "git", "jj"
  MaxChanges,  \* bound: changes of the repository
  MaxReloads,  \* bound: configuration reloads
  Mishaps,     \* what may befall: "deletion", "overflow", "ctrl-c", "exec"
  MaxMishaps   \* bound: how many of these

ASSUME ThreadsAssumption == Threads \in 1..2
ASSUME KindsAssumption == Kinds \subseteq {"git", "jj"}
ASSUME BoundsAssumption ==
  {MaxChanges, MaxReloads, MaxMishaps} \subseteq Nat

VARIABLES
  vcs,         \* the kind of the repository
  exists,      \* the repository's directory is there
  version,     \* the number of its last change
  saved,       \* jj: the changes that are in the store
  watcher,     \* "none", "live", or "dead": on a directory since deleted
  owed,        \* what was reported and no refresh has taken yet
  known,       \* the changes the worker's state accounts for, if it has any
  forgotten,   \* Forget came while a request was with the worker
  cfg,         \* version of the configuration and compiled template
  cache,       \* DaemonState.cache: at most one entry
  file,        \* the cache file: at most one entry
  refreshing,  \* the repository is in DaemonState.refreshing
  tasks,       \* refresh tasks whose Done the loop has not handled
  misses,      \* QueryMiss events in the channel
  clearing,    \* ctrl-c is between remove_dir_all and cache.clear
  left,        \* what the bounds still allow
  pc,          \* per client: the place its connection handler is at
  snap,        \* per client: the cached status of its first lock section
  woken,       \* per client: its watch channel has changed since it subscribed
  said,        \* per client: the status it was answered with, if any
  reads,       \* history: how often the repository was read
  lost,        \* history: changes that nobody knows of (Lose, Learn)
  failed,      \* history: the last refresh failed with nothing cached
  floor        \* history: per client, the reads answered before it asked

repo     == <<vcs, exists, version, saved>>
worker   == <<known, forgotten, reads, lost>>
shown    == <<cache, file>>
handlers == <<pc, snap, said, floor>>
clients  == <<handlers, woken>>
refresh  == <<refreshing, tasks, failed>>

vars == <<repo, watcher, owed, worker, cfg, shown, refresh, misses, clearing,
          left, clients>>

-----------------------------------------------------------------------------
Changes == 1..MaxChanges

(* What the events of a window amount to: the files they name, whether one *)
(* was of the repository's own files, whether events were lost             *)
Report  == [paths : SUBSET Changes, hint : BOOLEAN, rescan : BOOLEAN]
Nothing == [paths |-> {}, hint |-> FALSE, rescan |-> FALSE]

(* A cached status: the changes it accounts for, the read it is from,      *)
(* is_stale, whether refresh_error is set, and the configuration it was    *)
(* rendered with                                                           *)
Entry == [has : SUBSET Changes, read : Nat, stale : BOOLEAN, error : BOOLEAN,
          cfg : 0..MaxReloads]

Fresh(t)     == [has |-> t.has, read |-> t.read, stale |-> FALSE, error |-> FALSE, cfg |-> cfg]
Stale(e, er) == [e EXCEPT !.stale = TRUE, !.error = er, !.cfg = cfg]

(* Stages of refresh_repo, what it asks the worker, and what it was told *)
Task == [at : {"spawned", "reading", "read", "failed", "ended"},
         ask : {"full", "incremental", "validate", "resync"},
         paths : SUBSET Changes, has : SUBSET Changes, read : Nat]

Waiting(c) == pc[c] \in {"waitHit", "waitMiss"}

(* A task between two lock sections with no other await in between *)
Midway == {c \in Clients : pc[c] \in {"hit", "miss"}}

(* Client c's handler, or any other task, gets to run *)
ClientRuns(c) == Threads = 1 => Midway \subseteq {c} /\ ~clearing
OtherRuns     == Threads = 1 => Midway = {} /\ ~clearing

Init ==
  /\ vcs \in Kinds /\ exists = TRUE /\ version = 0 /\ saved = {}
  /\ watcher = "none" /\ owed = Nothing
  /\ known = {} /\ forgotten = FALSE /\ reads = 0 /\ lost = {}
  /\ cfg = 0
  /\ cache = {} /\ file = {}
  /\ refreshing = FALSE /\ tasks = <<>> /\ failed = FALSE
  /\ misses = 0
  /\ clearing = FALSE
  /\ left = MaxMishaps
  /\ pc = [c \in Clients |-> "idle"]
  /\ snap = [c \in Clients |-> {}]
  /\ woken = [c \in Clients |-> FALSE]
  /\ said = [c \in Clients |-> {}]
  /\ floor = [c \in Clients |-> {}]

-----------------------------------------------------------------------------
(* Mutants: an entry is added beside the old one; waiters are not told. *)
PublishBeside(es) ==
  /\ cache' = cache \cup es
  /\ file' = IF es = {} THEN file ELSE es
  /\ woken' = [c \in Clients |-> woken[c] \/ (es # {} /\ Waiting(c))]

PublishSilently(es) ==
  /\ cache' = es
  /\ file' = IF es = {} THEN file ELSE es
  /\ woken' = woken

(* write_cache_file and update_cache, in one lock section.  Every writer   *)
(* but a successful refresh only replaces an entry that is there: with     *)
(* nothing cached nothing is written and nobody is notified.               *)
Publish(es) ==
  /\ cache' = es
  /\ file' = IF es = {} THEN file ELSE es
  /\ woken' = [c \in Clients |-> woken[c] \/ (es # {} /\ Waiting(c))]

-----------------------------------------------------------------------------
(* What is known of changes *)

Known == UNION known

(* The worker's state goes, and with it what only it accounted for. *)
StateGoes == known' = {} /\ forgotten' = FALSE

(* Changes that come to be known to nobody: not the watcher, not the loop, *)
(* not the worker.                                                         *)
Lose(ids) == lost' = lost \cup ids

(* A read accounts for some changes, and leaves out others it might have   *)
(* known of.                                                               *)
Learn(has, heard) == lost' = (lost \cup heard) \ has

-----------------------------------------------------------------------------
(* The repository and its watcher *)

(* Change number version + 1: a file is written, or a command of the       *)
(* version control system run, which in jj saves the working copy first.   *)
Changed(ids, byCommand) ==
  IF watcher = "live"
    THEN /\ owed' = [owed EXCEPT !.paths = @ \cup ids, !.hint = @ \/ byCommand]
         /\ UNCHANGED lost
    ELSE Lose(ids) /\ UNCHANGED owed

Edit ==
  /\ exists /\ version < MaxChanges
  /\ version' = version + 1
  /\ \E byCommand \in BOOLEAN :
       /\ saved' = IF byCommand /\ vcs = "jj" THEN 1..version' ELSE saved
       /\ Changed({version'}, byCommand)
  /\ UNCHANGED <<vcs, exists, watcher, known, forgotten, reads, cfg, shown, refresh,
                 misses, clearing, left, clients>>

Mishap(kind) == kind \in Mishaps /\ left > 0 /\ left' = left - 1

(* The queue of the operating system overflows: some of the reports on     *)
(* their way are lost, and a rescan is asked for.                          *)
Overflow ==
  /\ Mishap("overflow")
  /\ watcher = "live"
  /\ \E ids \in SUBSET owed.paths, hint \in {FALSE, owed.hint} :
       /\ owed' = [paths |-> owed.paths \ ids, hint |-> hint, rescan |-> TRUE]
       /\ Lose(ids)
  /\ UNCHANGED <<repo, watcher, known, forgotten, reads, cfg, shown, refresh, misses,
                 clearing, clients>>

(* The events of the deletion are the last the watcher reports. *)
DeleteRepo ==
  /\ Mishap("deletion")
  /\ exists
  /\ exists' = FALSE
  /\ owed' = IF watcher = "live"
               THEN [owed EXCEPT !.paths = @ \cup 1..version, !.hint = TRUE] ELSE owed
  /\ watcher' = IF watcher = "live" THEN "dead" ELSE watcher
  /\ UNCHANGED <<vcs, version, saved, worker, cfg, shown, refresh, misses, clearing, clients>>

(* What is made at the same path is another repository. *)
RecreateRepo ==
  /\ ~exists /\ version < MaxChanges
  /\ exists' = TRUE
  /\ version' = version + 1
  /\ saved' = IF vcs = "jj" THEN 1..version' ELSE saved
  /\ Lose({version'})
  /\ UNCHANGED <<vcs, watcher, owed, known, forgotten, reads, cfg, shown, refresh, misses,
                 clearing, left, clients>>

(* Every five minutes: a watched directory that is gone is forgotten, and  *)
(* the worker's state with it, after the request it may be at.  The cache  *)
(* file stays.                                                             *)
HealthCheck ==
  /\ OtherRuns
  /\ watcher # "none" /\ ~exists
  /\ watcher' = "none"
  /\ cache' = {}
  /\ \/ StateGoes /\ Lose(Known)
     \/ /\ \E i \in DOMAIN tasks : tasks[i].at = "reading"
        /\ forgotten' = TRUE
        /\ UNCHANGED <<known, lost>>
  /\ UNCHANGED <<repo, owed, reads, cfg, file, refresh, misses, clearing, left, clients>>

-----------------------------------------------------------------------------
(* Refreshes *)

(* Mutant: the loop forgets a refresh that runs when it starts another. *)
MayStartSecond == Len(tasks) < 2

MayStart == tasks = <<>>

(* The request refresh_repo makes of a report *)
Request(r) ==
  CASE r.rescan     -> "resync"
    [] ~r.rescan /\ r.hint -> "validate"
    [] ~r.rescan /\ ~r.hint /\ r.paths # {} -> "incremental"
    [] OTHER        -> "full"

(* Mutant: the files that events named are left behind. *)
SpawnedBare(r) ==
  [at |-> "spawned", ask |-> Request(Nothing), paths |-> {}, has |-> {}, read |-> 0]

Spawned(r) ==
  [at |-> "spawned", ask |-> Request(r), paths |-> r.paths, has |-> {}, read |-> 0]

(* The loop starts a refresh for a change, its window over, or for a miss, *)
(* which takes along what is pending, if that has reached the loop.        *)
StartRefresh ==
  /\ OtherRuns
  /\ MayStart
  /\ \/ /\ owed # Nothing
        /\ tasks' = Append(tasks, Spawned(owed)) /\ owed' = Nothing
        /\ UNCHANGED misses
     \/ /\ misses > 0 /\ misses' = misses - 1
        /\ \/ tasks' = Append(tasks, Spawned(owed)) /\ owed' = Nothing
           \/ tasks' = Append(tasks, Spawned(Nothing)) /\ UNCHANGED owed
  /\ UNCHANGED <<repo, watcher, worker, cfg, shown, refreshing, failed, clearing, left, clients>>

(* QueryMiss of a repository in flight: the running refresh will serve it. *)
DropMiss ==
  /\ OtherRuns
  /\ misses > 0 /\ tasks # <<>>
  /\ misses' = misses - 1
  /\ UNCHANGED <<repo, watcher, owed, worker, cfg, shown, refresh, clearing, left, clients>>

ProcessDone ==
  /\ OtherRuns
  /\ \E i \in DOMAIN tasks :
       tasks[i].at = "ended" /\ tasks' = RemoveAt(tasks, i)
  /\ UNCHANGED <<repo, watcher, owed, worker, cfg, shown, refreshing, failed, misses, clearing, left, clients>>

Moves(i, stage) == tasks' = [tasks EXCEPT ![i].at = stage]

(* Its last message is Done. *)
Ends(i) == tasks' = [tasks EXCEPT ![i] = [Spawned(Nothing) EXCEPT !.at = "ended"]]

(* First lock section of refresh_repo: what is cached is shown as stale. *)
BeginRefresh(i) ==
  /\ OtherRuns
  /\ tasks[i].at = "spawned"
  /\ refreshing' = TRUE
  /\ Publish({Stale(e, FALSE) : e \in cache})
  /\ Moves(i, "reading")
  /\ UNCHANGED <<repo, watcher, owed, worker, cfg, failed, misses, clearing, left, handlers>>

(* What a read of everything sees: a git repository as it is, of a jj      *)
(* repository the store.                                                   *)
Whole == IF vcs = "jj" THEN saved ELSE 1..version

(* What the worker's answer may account for.  Without a state it reads     *)
(* everything (an incremental request is refused, and a full one follows). *)
(* With one it reads what the request names again, and a file it fails to  *)
(* diff is left out of a status that is no error.                          *)
Answers(t) ==
  LET reread == {Known \cup ids : ids \in SUBSET t.paths}
      rebuilt(paths) == {Whole \cup ids : ids \in SUBSET paths}
  IN
  CASE t.ask = "full" -> {Whole}
    [] t.ask = "resync" -> IF vcs = "jj" THEN rebuilt(Known) ELSE {Whole}
    [] t.ask = "incremental" -> IF known = {} THEN {Whole} ELSE reread
    [] t.ask = "validate" /\ known = {} -> {Whole}
    [] t.ask = "validate" /\ known # {} /\ vcs = "jj" ->
         rebuilt(t.paths) \cup {Whole \cup ids : ids \in reread}
    [] t.ask = "validate" /\ known # {} /\ vcs = "git" ->
         {Whole} \cup SUBSET (Known \cup t.paths)

(* The worker answers.  It needs no repository to go on from its state.    *)
ReadRepo(i) ==
  /\ tasks[i].at = "reading"
  /\ exists \/ (tasks[i].ask = "incremental" /\ known # {})
  /\ \E has \in Answers(tasks[i]) :
       /\ tasks' = [tasks EXCEPT ![i] =
                       [@ EXCEPT !.at = "read", !.paths = {}, !.has = has, !.read = reads + 1]]
       /\ \/ /\ known' = {has}
             /\ Learn(has, Known \cup tasks[i].paths)
          \/ /\ forgotten /\ known' = {}
             /\ Lose(Known \cup tasks[i].paths \cup has)
  /\ reads' = reads + 1
  /\ forgotten' = FALSE
  /\ UNCHANGED <<repo, watcher, owed, cfg, shown, refreshing, failed, misses, clearing,
                 left, clients>>

(* It fails, its state as it was, or dies and has none.  With a state, an  *)
(* incremental request only fails if the worker dies.                      *)
FailToRead(i) ==
  /\ tasks[i].at = "reading"
  /\ \/ /\ ~forgotten /\ ~(tasks[i].ask = "incremental" /\ known # {})
        /\ Lose(tasks[i].paths)
        /\ UNCHANGED <<known, forgotten>>
     \/ StateGoes /\ Lose(Known \cup tasks[i].paths)
  /\ tasks' = [tasks EXCEPT ![i] = [@ EXCEPT !.at = "failed", !.paths = {}]]
  /\ UNCHANGED <<repo, watcher, owed, reads, cfg, shown, refreshing, failed, misses,
                 clearing, left, clients>>

(* Mutants: a finished refresh settles every change reported while it ran; *)
(* a failed one stays registered.                                          *)
FinishOkSettles(i) ==
  /\ OtherRuns
  /\ tasks[i].at = "read"
  /\ Publish({Fresh(tasks[i])})
  /\ refreshing' = FALSE
  /\ failed' = FALSE
  /\ owed' = Nothing
  /\ Ends(i)
  /\ UNCHANGED <<repo, watcher, worker, cfg, misses, clearing, left, handlers>>

FinishErrStaysIn(i) ==
  /\ OtherRuns
  /\ tasks[i].at = "failed"
  /\ Publish({Stale(e, TRUE) : e \in cache})
  /\ failed' = (cache = {})
  /\ Ends(i)
  /\ UNCHANGED <<repo, watcher, owed, worker, cfg, refreshing, misses, clearing, left, handlers>>

FinishOk(i) ==
  /\ OtherRuns
  /\ tasks[i].at = "read"
  /\ Publish({Fresh(tasks[i])})
  /\ refreshing' = FALSE
  /\ failed' = FALSE
  /\ Ends(i)
  /\ UNCHANGED <<repo, watcher, owed, worker, cfg, misses, clearing, left, handlers>>

FinishErr(i) ==
  /\ OtherRuns
  /\ tasks[i].at = "failed"
  /\ Publish({Stale(e, TRUE) : e \in cache})
  /\ refreshing' = FALSE
  /\ failed' = (cache = {})
  /\ Ends(i)
  /\ UNCHANGED <<repo, watcher, owed, worker, cfg, misses, clearing, left, handlers>>

-----------------------------------------------------------------------------
(* Configuration, ctrl-c, restart *)

(* Mutant: a reload takes effect from the next refresh on. *)
RerenderNothing(e) == e

Rerender(e) == [e EXCEPT !.cfg = cfg + 1]

(* reload_config renders what is cached again, and so notifies waiters. *)
ReloadConfig ==
  /\ OtherRuns
  /\ cfg < MaxReloads
  /\ cfg' = cfg + 1
  /\ Publish({Rerender(e) : e \in cache})
  /\ UNCHANGED <<repo, watcher, owed, worker, refresh, misses, clearing, left, handlers>>

ClearFiles ==
  /\ OtherRuns
  /\ Mishap("ctrl-c")
  /\ ~clearing
  /\ clearing' = TRUE
  /\ file' = {}
  /\ UNCHANGED <<repo, watcher, owed, worker, cfg, cache, refresh, misses, clients>>

ClearMemory ==
  /\ clearing
  /\ clearing' = FALSE
  /\ cache' = {}
  /\ UNCHANGED <<repo, watcher, owed, worker, cfg, file, refresh, misses, left, clients>>

(* The daemon execs a new binary: everything in memory, reports on their   *)
(* way and open connections are gone; recover_watchers watches again what  *)
(* the repos file names; cache files stay.                                 *)
ExecRestart ==
  /\ OtherRuns
  /\ Mishap("exec")
  /\ watcher' = IF watcher # "none" /\ exists THEN "live" ELSE "none"
  /\ owed' = Nothing /\ cache' = {} /\ misses' = 0 /\ clearing' = FALSE
  /\ refreshing' = FALSE /\ tasks' = <<>> /\ failed' = FALSE
  /\ StateGoes
  /\ Lose(Known \cup owed.paths \cup UNION {tasks[i].paths : i \in DOMAIN tasks})
  /\ pc' = [c \in Clients |-> IF pc[c] = "idle" THEN "idle" ELSE "done"]
  /\ snap' = [c \in Clients |-> {}] /\ woken' = [c \in Clients |-> FALSE]
  /\ UNCHANGED <<repo, reads, cfg, file, said, floor>>

-----------------------------------------------------------------------------
(* Connections *)

Answered == {e.read : e \in UNION {said[c] : c \in Clients}}

Answer(c, es) ==
  /\ pc' = [pc EXCEPT ![c] = "done"]
  /\ said' = [said EXCEPT ![c] = es]
  /\ snap' = [snap EXCEPT ![c] = {}]
  /\ woken' = [woken EXCEPT ![c] = FALSE]

(* First lock section of a Query: resolve, watch, look the status up.  A   *)
(* directory that is no repository, and not known as one, has no status.   *)
Ask(c) ==
  /\ OtherRuns
  /\ pc[c] = "idle"
  /\ floor' = [floor EXCEPT ![c] = Answered]
  /\ IF ~exists /\ watcher = "none"
       THEN Answer(c, {}) /\ UNCHANGED watcher
       ELSE /\ watcher' = IF watcher = "none" THEN "live" ELSE watcher
            /\ snap' = [snap EXCEPT ![c] = cache]
            /\ pc' = [pc EXCEPT ![c] = IF cache # {} THEN "hit" ELSE "miss"]
            /\ UNCHANGED <<said, woken>>
  /\ UNCHANGED <<repo, owed, worker, cfg, shown, refresh, misses, clearing, left>>

(* A hit waits for the refresh that runs, if one does, or is answered. *)
CheckRefreshing(c) ==
  /\ ClientRuns(c)
  /\ pc[c] = "hit"
  /\ IF refreshing THEN pc' = [pc EXCEPT ![c] = "waitHit"] /\ UNCHANGED <<snap, woken, said>>
                   ELSE Answer(c, snap[c])
  /\ UNCHANGED <<repo, watcher, owed, worker, cfg, shown, refresh, misses, clearing, left, floor>>

(* A miss subscribes and asks the loop for a refresh. *)
SubscribeToMiss(c) ==
  /\ ClientRuns(c)
  /\ pc[c] = "miss"
  /\ pc' = [pc EXCEPT ![c] = "waitMiss"]
  /\ misses' = misses + 1
  /\ UNCHANGED <<repo, watcher, owed, worker, cfg, shown, refresh, clearing, left, snap, woken, said, floor>>

(* What a waiting client falls back on: the status it first saw; a miss    *)
(* saw none, and is told "not ready".                                      *)
WakeUp(c) ==
  /\ OtherRuns
  /\ Waiting(c) /\ woken[c]
  /\ Answer(c, IF cache # {} THEN cache ELSE snap[c])
  /\ UNCHANGED <<repo, watcher, owed, worker, cfg, shown, refresh, misses, clearing, left, floor>>

TimesOut(c) ==
  /\ OtherRuns
  /\ Waiting(c) /\ ~woken[c]
  /\ Answer(c, snap[c])
  /\ UNCHANGED <<repo, watcher, owed, worker, cfg, shown, refresh, misses, clearing, left, floor>>

-----------------------------------------------------------------------------
Repository == Edit \/ Overflow \/ DeleteRepo \/ RecreateRepo

RefreshStep(i) ==
  BeginRefresh(i) \/ ReadRepo(i) \/ FailToRead(i) \/ FinishOk(i) \/ FinishErr(i)

Signals == HealthCheck \/ ReloadConfig \/ ClearFiles \/ ClearMemory \/ ExecRestart

Connection(c) == CheckRefreshing(c) \/ SubscribeToMiss(c) \/ WakeUp(c) \/ TimesOut(c)

Next ==
  \/ Repository
  \/ StartRefresh \/ DropMiss \/ ProcessDone
  \/ \E i \in DOMAIN tasks : RefreshStep(i)
  \/ Signals
  \/ \E c \in Clients : Ask(c) \/ Connection(c)

(* The loop and every task that can go on does; a refresh always ends      *)
(* (RefreshScheduler, EveryChangeServed); changes and clients need not     *)
(* come, nor signals, but the second half of a ctrl-c follows the first.   *)
Fairness ==
  /\ WF_vars(StartRefresh \/ DropMiss) /\ WF_vars(ProcessDone)
  /\ WF_vars(\E i \in DOMAIN tasks : RefreshStep(i))
  /\ WF_vars(ClearMemory)
  /\ \A c \in Clients : WF_vars(Connection(c))

Spec == Init /\ [][Next]_vars /\ Fairness

-----------------------------------------------------------------------------
(* Every variable has its type; at most one status is cached, and shown. *)
TypeOK ==
  /\ vcs \in Kinds /\ exists \in BOOLEAN
  /\ version \in 0..MaxChanges /\ saved \in SUBSET Changes
  /\ watcher \in {"none", "live", "dead"} /\ owed \in Report
  /\ known \in SUBSET SUBSET Changes /\ \A k, l \in known : k = l
  /\ forgotten \in BOOLEAN /\ reads \in Nat /\ lost \in SUBSET Changes
  /\ cfg \in 0..MaxReloads
  /\ cache \in SUBSET Entry /\ \A d, e \in cache : d = e
  /\ file \in SUBSET Entry /\ \A d, e \in file : d = e
  /\ refreshing \in BOOLEAN /\ tasks \in Seq(Task) /\ failed \in BOOLEAN
  /\ misses \in Nat /\ clearing \in BOOLEAN
  /\ left \in Nat
  /\ pc \in [Clients -> {"idle", "hit", "miss", "waitHit", "waitMiss", "done"}]
  /\ snap \in [Clients -> SUBSET Entry] /\ said \in [Clients -> SUBSET Entry]
  /\ woken \in [Clients -> BOOLEAN]
  /\ floor \in [Clients -> SUBSET Nat]

(* The hook and the daemon never tell different stories: while a status is *)
(* cached the file shows it, rendered with the current configuration,      *)
(* whichever of the refresh, the error path or a reload wrote last.        *)
FileShowsCache ==
  cache # {} /\ ~clearing => file = cache /\ \A e \in cache : e.cfg = cfg

(* Queries wait only for a refresh that runs: the repository is in         *)
(* `refreshing` exactly between a refresh's first and last lock sections.  *)
RefreshingMeansRunning ==
  refreshing <=> \E i \in DOMAIN tasks : tasks[i].at \in {"reading", "read", "failed"}

(* Time does not run backwards for clients: once some client was answered  *)
(* from one read of the repository, nobody who asks later is answered from *)
(* an earlier read, be it by a snapshot after a timeout, by a late refresh *)
(* or after a restart.  (A later read may account for less: Learn.)        *)
AnswersNeverGoBack ==
  \A c \in Clients : \A e \in said[c], r \in floor[c] : e.read >= r

(* When nothing is owed and no refresh runs, the cached status accounts    *)
(* for every change, or is marked stale: no interleaving of changes with a *)
(* refresh leaves an old status looking current.  But for changes that     *)
(* came unwatched or in an overflow, were taken by a refresh that failed,  *)
(* or left out by a read, and that no read has seen since.                 *)
QuietMeansCurrent ==
  owed = Nothing /\ tasks = <<>>
    => \A e \in cache : e.stale \/ 1..version \ lost \subseteq e.has

(* A connection that waits will be woken: its QueryMiss is queued or a     *)
(* refresh that will publish still runs; unless the refresh failed with    *)
(* nothing to show, when only the timeout answers (staleness.md, step 6).  *)
(* Holds with one thread; with two, a refresh can finish between the two   *)
(* lock sections of a miss, and its QueryMiss then be dropped because the  *)
(* loop has not seen the Done.                                             *)
NoLostWakeup ==
  \A c \in Clients :
    Waiting(c) /\ ~woken[c] =>
      misses > 0 \/ failed \/ \E i \in DOMAIN tasks : tasks[i].at # "ended"

(* Every change is eventually in what the hook shows: or the hook shows an *)
(* error, or finds no file and asks the daemon, or the change is one of    *)
(* those that got lost on the way to the worker or in it.                  *)
HookCatchesUp ==
  \A id \in Changes :
    (exists /\ version >= id)
      ~> (~exists \/ file = {} \/ id \in lost \/ \E e \in file : e.error \/ id \in e.has)

=============================================================================
