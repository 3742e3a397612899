# A specification of vcs-status-daemon

`vcs-status-daemon` watches jj and git repositories and keeps, for each, one
rendered status line that shell prompts show. These modules specify how it
decides when to read a repository, what it may show meanwhile, how the workers
keep partial results valid and count what `jj` would count, how the watcher
filters events, how a configuration reaches the prompt, and how daemon processes
replace each other. TLC checks them on small instances; TLAPS proves for all
instances what is safety of the refresh loop, the cache, both workers, their
routers, the ignore filter, the configuration, the lifecycle, the search for
bookmarks and what the template shows of them, and that the loop implements its
abstract specification.

Sources are named by their path in the repository (`src/daemon.rs`, and so on).

## 1. The system

| Component | State it keeps | Operations | What makes it correct |
|---|---|---|---|
| refresh loop (`daemon.rs`: `refresh_task`, `handle_refresh_msg`, `spawn_debounce_timer`) | map of repository to Debouncing / InFlight / Pending, two channels | `Change`, `QueryMiss`, `Flush`, `Done`, `DebounceElapsed` | no change lost or weakened; one refresh per repository; a Flush answers for all before it and ends |
| cache and connections (`daemon.rs`: `handle_connection`, `refresh_repo`, `reload_config`) | `DaemonState`: cache, watchers, `refreshing`, watch channels; cache files | query (hit, miss, wait), refresh, publish, fail, reload, ctrl-c, health check | file and memory agree; nothing old looks current; waiters are woken |
| git worker (`git.rs`) | per repository a thread and `GitRepoState`: baseline, per-file diffs, metadata | full, validate (by hint), incremental, forget | retained parts are used only while valid |
| jj worker (`jj.rs`: `repo_worker_loop`) | per repository a thread and `JjRepoState`: operation, trees, base diff, overlay | full, validate, incremental, resync, forget | a file is shown as on disk or as last snapshotted |
| worker routers (`git.rs:spawn_git_worker`, `jj.rs:jj_router_loop`) | map of repository to worker thread | forward, spawn, forget, respawn, gather statistics | no repository waits for another; no state survives that misses a report |
| jj diff engine (`jj.rs:apply_incremental_paths`) | part of `JjRepoState`: base diff, dropped sources, overlay | diff one file, pair renames and copies, aggregate | equals `jj diff --stat` |
| jj metadata (`jj.rs:find_ancestor_bookmarks`, `compute_tracking_statuses`) | none | search bookmarks, classify tracking | what the revset means; the worst remote |
| ignore filter (`watcher.rs`: `IgnoreFilter`) | matcher, loaded files, probed directories | discover, filter, reset | matcher agrees with the disk where it was told |
| watcher (`watcher.rs`: `watch_repo`, `classify_*`) | the OS watch | classify paths into hints, report, rescan | the hint is not weaker than the change |
| lifecycle (`daemon.rs`: `run_daemon`, `watch_binary`, `maybe_clean_runtime_dir`) | socket, pid, version and cache files of one runtime directory | probe, bind, serve, exec, shut down | somebody serves every hook in the end |
| client (`client.rs`) and shell hooks (`init.rs`) | none | ask, start a daemon, check its version, restart | an old or dead daemon is replaced |
| configuration (`config.rs`, `main.rs:run_config`, `daemon.rs:reload_config`, `watch_config_file`) | the file; the daemon's copy, its error, the published timeout | load, `config set`, watch, reload | the prompt follows the file |
| templates (`template.rs`) | none | render, limit bookmarks | the least wanted is cut |
| protocol, rest of the command line | none of their own | parse, print | sequential |

How they interact. The OS queues events per watch; the watcher's callback (a
thread of its own) filters and classifies them and sends `Change` into the
loop's channel. Connections lock `DaemonState`, and on a miss send `QueryMiss`
and wait on a watch channel. The loop spawns one task per refresh; the task
locks the state, asks a worker thread, locks again to publish, and sends
`Done`. Shell hooks read the cache *file* and run a client only when there is
none. Processes share the runtime directory and nothing else.

The daemon runs on tokio's current-thread runtime (`main.rs:build_runtime`), or
on two threads when built with feature `tokio-console`. No lock guard is held
across an await. Repositories, watchers and workers run beside it in any case.

The hard behaviours, each a hazard in `PROJECT.json` at its line: changes that
arrive in every phase of a refresh; a Flush that waits inside the loop; the two
copies of a status and their five writers; waiters and the state they copied
before they waited; merged hints whose maximum does less than a part; retained
diffs whose baseline moves; lost OS events; files of one process removed by
another; an exec that forgets what was queued; renames that an overlay pairs
batch by batch and jj pairs anew each time; workers that die with reports in
hand; a configuration file that is read while it is written.

## 2. Modules and how they correspond to the code

| Module | Models | State ↔ code |
|---|---|---|
| `RefreshWork` | `WatchEvent::Change`, `PendingRefresh`, `merge` | a path is the identity of the event that named it |
| `RefreshScheduler` | the refresh loop | `repo_state` is the map, `watch_rx` and `msg_rx` the channels, `loop` the wait a Flush is in, `timers` and `refreshes` the spawned tasks |
| `RefreshPromise` | *abstract*: changes are owed; a refresh takes owed changes of one repository with a record that covers them; when it ends they are served | refined by `RefreshScheduler` (`ImplementsPromise`) |
| `RefreshSchedulerProofs` | theorems, section 5 | |
| `StatusCache` | one repository as clients and hooks see it | one lock section is one step; `pc` is the place a connection is at; `tasks` the refreshes and what each asks for; changes are numbered, a status is the set of changes it accounts for, and `known` that of the worker's state |
| `StatusCacheProofs` | theorems, section 5 | |
| `GitWorker` | one git repository, its writers and its worker | `retained` is `GitRepoState`, `todo` the reads a request still makes, `draft` the state it builds; a diff gives each file its pair of contents |
| `GitWorkerProofs` | theorems, section 5 | |
| `JjWorker` | one jj repository, its writers and its worker | `parent`, `wc`, `op` are the store, `retained` is `JjRepoState` |
| `WorkerRouter` | a router, its workers, refreshes and statistics that use it | `worker` is the map, `pool` every thread there has been, `gather` the threads that collect statistics; a worker's state is the set of changes it accounts for; `due` is what an answer must account for |
| `WorkerRouterProofs` | theorems, section 5 | |
| `JjDiffStat` | what `jj diff --stat` counts, with the copy records gix may give (external, as `jj.rs` relies on it) | operators: trees, values with conflicts, records, entries, sums |
| `JjDiffEngine` | `JjRepoState` and `apply_incremental_paths`, its rename and copy passes | operators on a record of the retained state |
| `DiffParity` | the harness of `diff_props.rs`: edits, jj commands, a second workspace, lost events | `store`, `wc`, `disk` are the repository, `worker` the engine's state |
| `JjBookmarks` | both bookmark searches and tracking statuses | `queue`, `visited`, `bookmarks` as in `collect_bookmarks_bfs`; `FindInit` takes every commit graph |
| `BookmarkLimit` | `limit_bookmarks`, `glob_match` | operators on words of letters: `Split` and `MatchPart` are the two loops of `glob_match`, `Partition` that of the filter; `Describes` is the reference definition of a pattern |
| `JjProofs` | theorems on `JjWorker`, `JjBookmarks` and `BookmarkLimit`, section 5 | |
| `ConfigReload` | the configuration file, its writers, and a daemon that loads, watches and reloads it | `disk` and `dirs` are the file system, `cf`, `config`, `error` and `cached` the `DaemonState` |
| `ConfigReloadProofs` | theorems, section 5 | |
| `IgnoreFilter` | the callback of a watch and its filter | `matcher`, `checked_dirs`, `loaded_files` as in the struct; `verdict` is what the one matcher says; an ignore file is its opinion on one kind of file |
| `IgnoreFilterProofs` | theorems, section 5 | |
| `DaemonLifecycle` | processes over one runtime directory | `proc` is where `run_daemon` of a process is, `told` the permit in its `Notify`, `restart` its `restart_requested`, `client` where a client process is |
| `DaemonLifecycleProofs` | theorems, section 5 | |

`MC*` modules only give constants values. Definitions marked *Mutant* belong to
no behaviour: each is a plausible mistake, used in place of the definition it
precedes to see that a property can fail. Variables marked *history* record
what happened and guard nothing.

What is abstracted throughout: names, texts and formatting. In particular

- `RefreshScheduler`: two lock sections of a query are two steps (`asking`);
  what a refresh does is left to the other modules.
- `StatusCache`: subscribing and sending a `QueryMiss` are one step (no await
  between them); a reload is one step; when a refresh may start is the other
  module's subject, here it may while a change is owed or a miss is queued. What
  the worker answers is any set of changes that `GitWorker` or `JjWorker` may answer
  for (`Answers`): with a state, an incremental request adds what it names; a
  validation may be all, or of git what was known and named; a full request or a
  resync of jj sees the store, and of the rest what the overlay had; any file named
  may be left out, as when its diff fails. A failed request keeps the state and loses
  what it had taken.
  `query_timeout_ms` is positive. Statistics and subdirectory symlinks are left
  out.
- `GitWorker`: any git command is a sequence of single writes, each of which may
  fall between two reads of the worker. libgit2's diff of two trees is `Delta`.
- `JjWorker`: how one file is diffed is its pair of contents (`JjDiffEngine` has
  the rest). The retained workspace loader is left out.
- `WorkerRouter`: an incremental request needs a state and adds what it is told, or
  leaves some of it out; a full one of git reads all, of jj what is in the store; a
  validation or a resync reads again, or rebuilds. Each but an incremental one may
  fail and keep the state. Changes are those of one file each. One refresh of a repository runs at a time, as
  `refresh_loop` shows. A panic loses the request, the queue and the state in
  one step.
- `JjDiffStat`: a file's value is a resolved one or a conflict; of its text only
  the identity and a similarity to other texts are kept. gix pairs renames, then
  copies, each target once; where its order is not fixed, any order.
- `DiffParity`: a jj command snapshots, changes trees and checks out in one step,
  and its operation is delivered at once, as in the harness.
- `JjBookmarks`: a commit has up to two parents, in any order. Revset and index
  are the graph's. A conflicted local bookmark has no target.
- `ConfigReload`: the default build, where `reload_config` meets no other task. The
  file `query-timeout-ms` is left out, and nothing is claimed of the timeout clients
  read from it (section 6). There is one status cached, and no more than the values that differ in effect.
- `IgnoreFilter`: an ignore file says "ignore" (`*.log`), "keep" (`!*.log`) or nothing
  of one kind of file. `build_matcher` adds every loaded file to one builder of the
  root, so each speaks about the whole repository, and of the deepest that speak the
  one added last decides; files of one depth are added in the iteration order of a
  `HashSet`, which any rebuild may change. What git and jj make of the same
  files, by directory, is a definition of its own (`DecidingOnDisk`), for the
  properties.
- `DaemonLifecycle`: pid and version file are written in one step. A client's
  waits, of 2 and 5 seconds, are longer than a daemon takes from bind to its
  watchers (`Waited`). Without a free slot a process starts only to find a
  daemon there. A user deletes the socket of a daemon that is up, not of one
  that is starting. No task of a daemon runs while it removes its files: the
  shutdown has no await (default build).

## 3. Runs

Passing runs.

| Run | Shows | Bounds, and why they are enough |
|---|---|---|
| `refresh_loop` | types; `AtMostOneRefresh`, `InFlightMeansDoneIsDue`, `FlushOpensNoWindow`, `NothingLost`, `FlushAnswersForEverything`, `EveryChangeServed`, `FlushCompletes`; the loop implements `RefreshPromise` | two repositories, two changes of three kinds (edit, index, overflow), one query, one Flush. A second change meets the first in every phase; the second repository is the one a Flush must not forget; leftover timers arise from the query |
| `status_cache` | `FileShowsCache`, `RefreshingMeansRunning`, `AnswersNeverGoBack`, `QuietMeansCurrent` | both kinds of repository, two clients, two threads, two changes, a reload and one mishap (ctrl-c, deletion or exec): a client in every place meets each of them; one change is lost by a refresh, and another read by the next |
| `status_cache_live` | `NoLostWakeup`, `HookCatchesUp`; `QuietMeansCurrent` again, with an overflow | the default build, both kinds, two clients, two changes, an overflow; no ctrl-c, deletion or exec, for reasons in section 6 |
| `git_worker` | `TotalCurrent`, `IndexCurrent`, `MetadataCurrent` | two files of two contents, three writes at any moment: one before, one during and one after a read |
| `jj_worker` | `DiffIsDiskOrSnapshot`, `OpIsCurrent`, `KnownStaysKnown` | two files, two edits, two operations (there and back), one overflow |
| `ignore_filter` | `CheckedUpToRoot`, `MatcherKnowsDisk`, `NothingHidden`, `NothingLeaks` | a root, a directory in it, one in that, and one beside it; an ignore file in each of three of them, two at one depth; four changes: probe, create, lose, edit |
| `daemon_lifecycle` | `HooksAreNotAbandoned`, `ServedAgain` | three processes (one that stops, one that starts, one that was started meanwhile), two versions, one client, one disturbance of any kind |
| `worker_router` | `AnswersCoverReports`, `OthersAreServed` | a jj repository and a git one whose requests may never end; two changes, a query, a failure or panic, a Forget, a request for statistics: a report is lost before, and another taken after, a request fails or a worker is replaced |
| `diff_parity` | `MatchesJjDiff` | three paths, one of them ignored; values of two similar texts, an unlike one, an executable twin and a conflict; two batches of edits and two operations in any order, each of which may be lost. Two sources may compete for a target and two targets for a source |
| `jj_bookmarks` | `FoundAreTheLine`, `TrackingIsWorst`, `ShownAreMostWanted` | every graph of five commits with merges, with @, trunk and two bookmarks anywhere, depths below and beyond the graph's; any three remotes; names of three letters, patterns of four, lists of two |
| `config_reload` | types; `ShownFollowsFile` | both paths of macOS (on Linux there is one), two `config set` of five arguments, one change by an editor or `config init`, one stop of the daemon: two writers and a reader meet in every order |

Deadlock is checked but in the runs of `StatusCache`, `IgnoreFilter`,
`WorkerRouter`, `DiffParity`, `JjBookmarks` and `ConfigReload`, where the bounds end
the behaviour and nothing need happen afterwards. Symmetry is used in safety
runs only.

One run shows a disagreement of code and documentation, a finding in
`PROJECT.json` with the quoted lines; section 6 lists the others.

| Run | Shows |
|---|---|
| `rename_then_edit` | a file renamed and then edited before jj's next snapshot is counted as added, and the delete of its old name not at all (`EditedRenameMatches`): the overlay asks the base alone for the source of a target |

## 4. Fairness

- `RefreshScheduler`: the loop's handlers (tokio's `select!` picks a ready
  branch at random, and both branches are reached), sleeping timers, and the
  end of each refresh: every await in `refresh_repo` is a lock, or the reply of
  a worker thread, which is an error if the worker is gone. A panic inside a
  refresh task would break this (a hazard with a note).
- `StatusCache`: the loop, refreshes, connections, and the second half of a
  ctrl-c. Changes, clients and signals need not come.
- `WorkerRouter`: the router takes its next request, refreshes go on, and workers
  of a repository that is not `Stuck` finish their requests. Threads that gather
  statistics get no fairness, and no repository's progress needs it.
- `DaemonLifecycle`: processes run, prompts come, waits of a client end.
  `ServedAgain` also assumes `<>[]~Overlap`. TLC finds a real cycle without it:
  a daemon about to stop removes the socket of its successor, whose watcher
  tells it to stop, when a client has started a third. Each turn needs a client
  to start a daemon within the moment between two removals, for ever.
- `GitWorker`, `JjWorker`, `IgnoreFilter`, `DiffParity`, `JjBookmarks` and
  `ConfigReload` have safety properties only.

## 5. Proofs

Each theorem holds for every value of the constants that satisfies the named
assumptions of the module, and for behaviours of any length. Almost no property
is inductive as it stands; what follows says what had to be added, and why.

### The refresh loop

`RefreshSchedulerProofs`, for any sets of repositories and changes, any event
shapes and any bounds (`ShapesAssumption`, `BoundsAssumption`):

- `Invariance`: `Spec => []IInv`, and from it
- `TypeCorrect`: every variable has its type;
- `RefreshesExclude`: at most one refresh of a repository runs at a time;
- `DoneIsDue`: a repository is in flight or pending exactly while its refresh
  runs or its one `Done` is queued;
- `FlushNeedsNoTimer`: no debounce window is open while a Flush waits;
- `ChangesAreKept`: a reported change is in the channel, in a record that covers
  it, or served (`NothingLost`);
- `FlushIsComplete`: what is owed to a Flush is served when it is answered
  (`FlushAnswersForEverything`);
- `LoopKeepsPromise`: the loop implements `RefreshPromise`.

That a `Done` finds its repository in flight needs to know it is the only one,
and that no refresh runs beside it; that a refresh may start needs to know that
no `Done` is queued. `IInv` says per repository, as a *slot*: in flight or
pending, and either one refresh and no `Done`, or no refresh and one `Done`; or
neither and both empty. Counting queue places is avoided: `In` and `Once` say
that a value is in a queue, and only once, and the lemmas `InAppend`,
`OnceAppend`, `InTail` say what appending and taking do to them; only `DoneIsDue`
turns the slot into the cardinality the property speaks of. Each case of the step
lemma `IInvStep` shows that only one repository's slot is disturbed
(`StartKeepsSlot`, `KeepsSlot`, `StartOneKeepsSlots`). A timer that fires late is
harmless because its window is gone; that a Flush opens no window follows from
`loop`.

For changes and Flushes, `KInv` adds three things. `Kept`: each record covers
every change it stands for (`Records`; `MergeCovers` is why merging keeps that),
an id names one change, and each change is to be found. `Channel`: a Flush in the
channel is ahead of the changes its client did not know of. `Serving`: once a
Flush is taken up, no change owed to it is in the channel, as the channel is
first in, first out (`Spares`); and none is pending when it replies, because it
replies only when every slot is free. The lemma `FourKinds` sorts the steps of
the loop into reports, starts, ends and quiet steps; invariant and refinement
are then proved for these four, which are the actions of the promise.

### The cache

`StatusCacheProofs`, for any number of clients, one thread or two
(`ThreadsAssumption`), both kinds of repository (`KindsAssumption`), and any number
of changes, reloads, ctrl-cs, deletions, overflows and execs (`BoundsAssumption`):

- `TypeCorrect`: types; at most one refresh;
- `FileIsCache`: the file shows what is cached (`FileShowsCache`);
- `WaitsOnlyForARefresh`: `refreshing` is set while a refresh is between its first
  and last lock sections, and only then (`RefreshingMeansRunning`);
- `QuietIsCurrent`: with nothing owed and no refresh running, what is cached as
  fresh accounts for every change but those nobody knows of (`QuietMeansCurrent`);
- `AnswersGoForward`: no client is answered from an earlier read than one that was
  answered from before it asked (`AnswersNeverGoBack`);
- `WaitersAreWoken`: `NoLostWakeup`, if `OneThreadUndisturbed`.

`Stages` ties the stage of the one refresh to `refreshing`, and says that all that
is cached is stale meanwhile. `Current` extends `QuietMeansCurrent` to every state:
each change is *due* (owed, named by the request under way, or `lost`), or is
accounted for by the worker's state, by what a refresh has read, and by what is
cached as fresh. So a later read may account for less than an earlier one only by
what then is due: `CoversStep` shows of every step that nothing leaves `Due`
without being accounted for (`DueGrows`, `DueStep`), and of the worker's answer that
what it leaves out becomes `lost` (`Learn`). For `AnswersNeverGoBack` reads are
numbered, and an order on them is needed: what was answered, then what is cached,
then what the refresh has read, then the last read (`Order`). `floor` holds, for a
client that has asked, the reads answered by then; each is below all that may yet
be shown (`Below`), and below the text that client copied.

`OneThreadUndisturbed` asks for one thread, no ctrl-c and no deletion: the
conditions of the run `status_cache_live`, but for its lack of an exec, which the
theorem allows. They are those under which the property is true, not those under
which it is provable: a deletion or a ctrl-c empties the cache while the `Done` of
a refresh that has ended is on its way, and two threads let a refresh end between
the two lock sections of a miss; the `QueryMiss` sent then is dropped, and its
client is answered at its timeout (section 6). `Owing` says what the reason is
otherwise: a refresh that has ended left something cached or has failed, and who
waits unwoken has a live refresh, or a `QueryMiss` queued while nothing is cached,
which no refresh that is over can have been for.

### The workers and their routers

`GitWorkerProofs`, for any files, contents and number of writes
(`ContentsAssumption`, `MaxWritesAssumption`): `TotalIsCurrent`, `IndexIsCurrent`
and `MetadataIsCurrent`, the three properties of the run.

The properties speak of a settled worker. `IInv` speaks of every state: each part
of a status that has been read is *right of the repository as it is now, or the
reports that are out say that it may not be* (`RightHead`, `RightMeta`,
`RightStaged`, `RightUnstaged`, `RightTotal`). A write of the repository makes
parts wrong and reports them in one step (`Told`), so rightness stays
(`StaysRight`, the lemma for all writers), and a read makes its part right. What
remains is the control: `todo` is a plan, a suffix of one order of steps
(`Follows`), and `DraftRight` says for each place in it which parts have been
read, so that at the reply all are; `Kept` says the same of the retained state,
less the request that is being answered. `NothingStaged` justifies the
shortcut of `refresh_git_diffs` that takes the unstaged diff for the total one: with
nothing staged they are the same diff, and what was read too early of either is
still among the reports.

`JjProofs`, for any files, contents and bounds (`ContentsAssumption`,
`BoundsAssumption`): `TypeCorrect`, `MetadataIsCurrent` (`OpIsCurrent`),
`DiffIsOfNow` (`DiffIsDiskOrSnapshot`) and `DirtyIsRemembered` (`KnownStaysKnown`,
an action property). `IInv` has the same shape: a state belongs to the trees of
its operation (`States`); unless a report of an operation is out, what is kept is
of the head (`OpKept`); each file that no report names is as on disk or as in the
snapshot (`DiskKept`); and what was in the overlay is there or still to be diffed
(`KnownKept`).

`WorkerRouterProofs`, for any repositories of both kinds and any bounds
(`ReposAssumption`, `BoundsAssumption`): `AnswersAccount` (`AnswersCoverReports`). An
answer accounts for what its repository was told, because each report reaches
exactly one worker. `OneFlight`: of a refresh at most one message is out, at the
router or at one worker, which is alive and the mapped one or forgotten.
`Accounts`: the state of every worker that can still answer covers what is `due`, but
for what the message that is out will tell it (`Keeps`). A request that drops
changes by itself takes them out of `due`, and only those: it failed and the state was
kept, a diff in it failed, or it rebuilt jj's state from a store without them
(section 6). What the theorem says is that the router, panics, Forget and respawning
drop nothing besides. A worker whose map entry has gone can answer only the
message it already holds. `Aside` is the argument for all steps that concern another
repository.

### The bookmarks, and what the template keeps of them

`JjProofs`, for any commit graph, bookmarks and depths (`InstanceAssumption`: a
graph of N + 1 commits, depths that are numbers; `NamesAssumption`: finitely many
names), and for words over any letters (`LettersAssumption`: the star is not a
letter of a name; `LengthsAssumption`):

- `BookmarksAreTheLine`: a search that is over has found what it should
  (`FoundAreTheLine`);
- `TrackingShowsWorst`: of three remotes the worst (`TrackingIsWorst`), and
  `TrackingOfAny`: of any list of remotes;
- `GlobMatchesWhatIsMeant`: `glob_match(p, n) <=> Describes(p, n)`, for any
  pattern and any name;
- `LimitKeepsMostWanted`: of any list without duplicates, with any pattern and
  count, what is cut away is counted and is never preferred to what is shown;
- `MostWantedAreShown`: the run's `ShownAreMostWanted`, from it.

Other proofs here are about control; these are about what recursive functions and
folds compute, and need induction over data. The library's induction theorems take
an operator, which the provers cannot instantiate, but `WFMin`, that a set with an
element has a minimal one, takes only sets. `Below` is < as a set of pairs, well
founded on Nat, so that a set of naturals has a least element (`Least`), and a
set that holds 0 and is closed under successor is Nat (`NatSet`). Each induction
below names the *set* of lengths, or of steps, for which a claim holds. A fold,
too, is a function chosen to satisfy an equation; an operator states that equation
(`IterIs`, `TwoIs`, ...), and one lemma shows that some function satisfies it and
another what any such function is at each argument.

The search. `SearchInv` says in every state what `FoundAreTheLine` says only at
the end. What is found so far is exactly the bookmarks of the visited commits at
their shortest distance (`Marks`). The queue holds commits with the length of a
real way to them, nearest first, all within one level of each other (`QueueOk`):
hence the first visit of a commit is by a shortest way. What is still missing is
behind something in the queue (`Remaining`): a commit of the branch within the
depth was visited, is queued at its distance, or comes after a commit that is not
visited. When the queue is empty the last of these cannot go on for ever,
so nothing is missing (`SearchIsComplete`); when the second search stops at a level
below its first bookmark, what is missing is farther (`NearestIsComplete`).
`Remaining` is about shortest ways, and is true only because the search may skip
what is outside its branch without losing a way back in (`Pruned`): trunk's
history is closed under parents, so whatever is below a commit outside the line
is outside, too.

The pattern. `Describes` says what a pattern means without any search: how many
letters of the name each initial part of it stands for. `PartsCut` shows that the
parts are the pattern cut at its stars, each at its place. `Greedy` is the claim
that carries from part to part: after some parts either there is no position, and
no description of the name exists, or there is one, it can be described up to there,
and *no description gets the same letters over earlier* (`Earliest`). It holds for
an inner part because the first place of it at or after an earliest position is an
earliest position; for the last because `ends_with` looks only behind that
position, which is the check that the mutant `MatchLastAnywhere` drops.

The filter. `Arranged` says of the two lists after k names where each name is, that
nothing else is in them, and that both keep the order. In the concatenation each
name then has one place (`Rank`, `Ranked`): first what matches, each in its old
order. A cut at any place keeps the lower ranks, and that is what
`LimitKeepsMostWanted` asks.

### The ignore filter

`IgnoreFilterProofs`, for any tree of directories (`TreeAssumption`: the
directories above one are a chain that ends at the root), any ignore files of two
names (`NamesAssumption`: `.gitignore` and `.jjignore`), any edits and any number of
changes:

- `TypeCorrect`: every variable has its type;
- `CheckedToTheRoot`: a checked directory has only checked directories above it;
- `MatcherAgrees`: the matcher has of every ignore file it should know what is
  on disk, unless the file's event is queued or never came;
- `NoEditHidden`: an edit that no ignore file on disk has spoken against since is
  reported or about to be (`NothingHidden`);
- `NoIgnoredPathLeaks`: a path that is reported is not ignored by rules the daemon
  could know, unless a file of another part of the tree keeps it (`NothingLeaks`, an
  action property).

`CheckedUpToRoot` is kept because a walk from a path stops at the first checked
directory, above which all is checked already (`WalkLeavesNoGap`); it needs the
root to be checked always (`RootChecked`). `MatcherKnowsDisk` is proved file by
file (`Knows`), and needs two more facts. The matcher has no opinion from a file
that is not loaded (`NoOpinionUnloaded`): an absent file that is probed and not
found is then right without a rebuild, and a rescan may drop loaded files. A
rescan event names no path (`Bare`): taking it takes no file's event away.
Changes of files are one argument (`ChangeKnows`): the filter does not move, and
a file that moved has an event, is known to have none, or is not looked at yet.

For `NothingHidden` an owed edit is also one that is still due on disk (`OwedKept`).
When the event that names it is handled, every ignore file above it has been looked
at (`HandledIsKnown`), so the matcher is `Faithful`: above the edit it is as the disk,
and elsewhere it has what is on disk or nothing. A file that decides in the matcher
is then one that decides on disk, or one of another part of the tree (`DecidesOnDisk`,
`DueIsNotIgnored`): a path was dropped because of a rule that is there
(`DroppedIsIgnored`), and the edit was not owed. `NothingLeaks` is the same fact from
the other side (`IgnoredIsIgnored`), whatever the order files of one depth were
added in.

### The lifecycle

`DaemonLifecycleProofs`, for any number of processes, clients, versions and
disturbances:

- `TypeCorrect`: every variable has its type;
- `NoHookAbandoned`: a cache file with no process to keep it, and no client
  about to start one, exists only after a process was killed.

`HooksAreNotAbandoned` counts any process as a keeper, which is not inductive: a
process at "unlink" or "rm files" goes without touching the cache files. `IInv`
asks for one that `Keeps`, or for a socket (`Kept`), and says that the owner of
the socket is a live process that has not begun to remove its files
(`OwnerLives`), so that a socket, too, stands for somebody who will remove the
cache or hand it on. The steps that could break it are those where a process
gives way to another, and there the other is the socket's owner.

### The configuration

`ConfigReloadProofs`, for any number of `config set` processes, any arguments,
configurations, changes and restarts, on both platforms (`PathsAssumption`;
`ValuesAssumption`: an argument sets a key to one of the key's values, the
malformed one among them):

- `TypeCorrect`: every variable has its type;
- `FileIsShown`: a daemon with nothing left to do shows what its file says
  (`ShownFollowsFile`).

`ShownFollowsFile` speaks only of quiet states. `IInv` extends it to every state
in which no event is queued and the watching task is not asleep (`InSync`):
whoever changes the file leaves an event or is missed (`ChangeTold`), whoever
takes an event is asleep until it reloads, and a reload agrees with the file,
whether it loads or not (`ReloadAgrees`). That a refresh meanwhile renders with
what is held (`CachedIsRendered`) carries it to the prompt. It does not need the
types of configurations.

### What is only model-checked

- `FlushCompletes`, `EveryChangeServed`, `HookCatchesUp`, `ServedAgain` and
  `OthersAreServed`: liveness. TLAPS has no support for fairness and ENABLED.
- `MatchesJjDiff` (`DiffParity`): the parity of the overlay's counts with jj's. Its
  four exceptions (`over`, `PairingFaded`, `PairedAcrossMerge`, `BackButIgnored`,
  section 6) name the disagreements that exist among three paths; with more, rename
  and copy records chain further, and there is no reason to expect that these four
  are all. It is a statement of the small instance, as the property test it models
  is one of its random histories.
- `EditedRenameMatches`, which the run `rename_then_edit` refutes.

## 6. What the properties exclude, and why

Each exclusion is a name in a property, so that it can be seen:

- `masked` (`GitWorker`): an index write reported under a stronger hint. The maximum
  of `IndexChanged` and `HeadMayHaveChanged`, merged in one event
  (`watcher.rs:83`) or one window (`daemon.rs:1003`), is the latter, and with HEAD's
  tree unchanged only metadata is read then (`git.rs:797`): the staged counts
  stay wrong until the next index event. design/INCREMENTAL.md:82-84 has an index
  refresh "triggered when `.git/index` changes".
- `s.head = head` in `MetadataCurrent`: HEAD moved to a commit with the same tree (an
  amended message). The metadata refresh reads neither commit id nor
  description, though design/INCREMENTAL.md:66 lists the description.
- `lost` (`GitWorker`, `JjWorker`): a report taken by a refresh that failed: its paths
  go with it. `git.rs` also answers Ok when a single diff fails
  (`GitRepoState::update_files`), which `lost` covers.
- The same as clients see it is `lost` of `StatusCache`, and what is not in `due` of
  `WorkerRouter`: changes no watcher saw or an overflow lost; those a refresh took that
  failed and whose worker keeps its state (`git.rs:754-762`, `jj.rs:2900-2908`): the
  next success is cached as fresh without them; those whose diff failed inside a
  request that succeeds; and edits of a jj repository that are not in its store, when
  a full request, a validation or a resync rebuilds the state from it
  (`jj.rs:2861-2898`, `3004-3033`): a `QueryMiss` after a ctrl-c does so. A change leaves
  `lost` when a read sees it. `AnswersNeverGoBack` therefore compares reads, not
  contents: a later read may account for less.
- `HookCatchesUp` is checked without an exec. An exec forgets changes not yet
  refreshed; `recover_watchers` (`daemon.rs:853`) watches again and refreshes
  nothing, and hooks read the old file until the next event, though
  `daemon.rs:266-269` re-watches so that changes do not "go undetected".
- Nothing is claimed of versions: a daemon of an old version that answers is never
  checked (`check_version_file` is reached only after a failed request or from
  `restart`), against design/update-behavior.md:60.
- `over`, `PairingFaded`, `PairedAcrossMerge`, `BackButIgnored` (`DiffParity`):
  histories in which the engine's counts differ from jj's until the next operation rebuilds
  its state. `over`: a batch over a file that the overlay had paired itself (the
  run `rename_then_edit`), or, under a merge, over any pairing or dropped source.
  `PairingFaded`: the source of a copy was deleted, or a better target came, and
  the first target had no event. `PairedAcrossMerge`: gix pairs by the diff from
  one parent what the diff from the merged parents does not have, or pairs a
  file differently by each. `BackButIgnored`: the source of a rename is back on
  disk, but ignored and untracked.
- `missed` (`ConfigReload`): a file that changed between load and watch, or was
  removed, an event `watch_config_file` passes over; without a parent directory at
  start there is no watch at all.
- `ShownFollowsFile` speaks of the daemon's own path, resolved once at its start
  (`main.rs:744`). The command line resolves it anew, so `config init` on macOS, or
  a changed XDG_CONFIG_HOME, acts on a file that the daemon does not read, though
  `main.rs:403` reloads "so the next prompt picks up the change immediately". A
  changed `bookmark_search_depth` also waits for the next refresh.
- `config set template.vars.max_bookmarks 3`, the example of CHANGELOG.md:288, is
  always refused: the value is written as an integer (`main.rs:356`), and the
  variables are strings (`config.rs:41`). `Typed` has it so.
- An unborn HEAD (`Idle`): a full refresh shows no changes, an incremental one
  does; no document says which is meant.
- A dead watcher (`StatusCache`): a repository deleted and made again at its path within
  one health check is watched by nobody, and its changes are `lost`.
- `failed`: a refresh that fails with nothing cached wakes nobody
  (design/staleness.md, step 6).
- `NoLostWakeup` is checked for one thread and without ctrl-c. With two threads,
  or after a ctrl-c that empties the cache, the `QueryMiss` of a waiting client
  may be dropped because the loop has not yet seen the `Done` of a refresh that
  has already published; the client is then answered after its timeout.
- `SaidElsewhere` (`IgnoreFilter`): all ignore files are added to one matcher whose
  root is the repository's (`watcher.rs:254-275`), so a nested `*` hides edits
  everywhere, a nested `!*.log` reports them everywhere, and an anchored pattern is
  read from the root. The properties allow for both, where such a file is on
  disk outside the directories above the path. The comments at `watcher.rs:231-238`
  have nested files speak about their directory, and the test
  `test_nested_gitignore_no_sibling_effect` (`watcher.rs:841-878`) says "sub_a/.gitignore
  should not affect files in sub_b/"; it passes because sub_a/.gitignore has not
  been discovered when it asks.
- `unseen` (`IgnoreFilter`): an ignore file that changed without an event: in a
  directory that was replaced by a rename, or in the root, which stays checked
  after an overflow.
- The timeout file (`ConfigReload`): nothing is claimed of how long a client waits
  against how long a daemon holds its query. `query-timeout-ms` is empty while it is
  written, the socket is bound before it is (`daemon.rs:223-239`), a shutdown removes it
  (`daemon.rs:479`), which may be a successor's, and a reload may come between a
  client's read of it (`client.rs:166`) and its answer.
- `owed` of `IgnoreFilter` drops an edit once a rule on disk ignores it: when the rule goes,
  nothing reports the edit again.
- `crashed` (`DaemonLifecycle`): a process that was killed leaves its cache
  files, and hooks that find one ask nobody.
- A full refresh of a jj repository starts from the store and
  drops the overlay; `DiffIsDiskOrSnapshot` allows for it, `KnownStaysKnown`
  excludes it.
- Nothing is claimed of pid and version files while two daemons overlap: a
  shutdown removes them after the socket, when they may be its successor's.
- A daemon that loses its socket before it watches the directory never learns of
  it and stays up unreachable; the properties speak of the files and the hooks.

## 7. Not modelled

- How lines are counted and how similar two texts are (gix, the `similar` crate),
  conflict-marker styles, the cancelling of conflict terms when a snapshot
  simplifies a merge (`jj.rs:1576-1634`): external algorithms, or states that need
  conflicts of more than two sides.
- `is_commit_immutable` and the loading of revset aliases: one question to jj-lib.
- Rendering by tera, the variables of a template, the wire format, argument
  parsing, the published timeout file, log rotation and counters: pure functions or output.
- `dir_to_repo` and the links of subdirectories: `StatusCache` has one repository and
  asks for its root (a hazard with a note).
- `test_util.rs`: it makes repositories.

## 8. Plan

Order of work, most important first. Done: 1 to 9.

1. `RefreshScheduler`, `RefreshPromise`: when a repository is refreshed.
2. `RefreshSchedulerProofs`: exclusion, what is kept, the refinement.
3. `StatusCache`: what is shown meanwhile.
4. `GitWorker`, `JjWorker`: what a refresh reads, and what it may keep.
5. `IgnoreFilter`: which events there are.
6. `DaemonLifecycle`: who serves.
7. `WorkerRouter`: the maps of threads.
8. `JjDiffEngine`, `DiffParity`, `JjBookmarks`, `BookmarkLimit`: the algorithms of
   `jj.rs` and `template.rs` against reference definitions.
9. `ConfigReload`: how a configuration reaches the prompt.
10. A composition of loop and cache, in which "owed" of `StatusCache` is
    `RefreshPromise`'s.

Proved: every safety property that a run checks except `MatchesJjDiff`;
`NoLostWakeup` where it holds; that the loop implements `RefreshPromise`; and what
the algorithms of `JjBookmarks` and `BookmarkLimit` compute, for every input
(section 5).

Open: with module 10, that what `StatusCache` counts as owed is what the promise
owes, so that `ChangesAreKept` and `QuietIsCurrent` join; and for `MatchesJjDiff` the
fragment without renames and copies, where no exception should be needed.
