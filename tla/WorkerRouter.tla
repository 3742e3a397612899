---------------------------- MODULE WorkerRouter ----------------------------
(***************************************************************************)
(* The router in front of the per-repository worker threads                *)
(* (spawn_git_worker of src/git.rs; jj_router_loop of src/jj.rs is the     *)
(* same), the refreshes of the daemon that call it (refresh_repo of        *)
(* src/daemon.rs), its health check and its statistics.                    *)
(*                                                                         *)
(* A worker's retained state is abstracted to the changes of the worktree  *)
(* it accounts for.  What an answer adds to it depends on the request and  *)
(* on the kind of repository: a full read of a git repository sees every   *)
(* change, one of a jj repository only what is in its store, and a request *)
(* that goes on from the state only the changes it names.  A request that  *)
(* fails keeps the state.  GitWorker and JjWorker have the details.        *)
(*                                                                         *)
(* One refresh of a repository is under way at a time, as RefreshScheduler *)
(* shows.  A worker dies when a request panics, with its state and its     *)
(* queue; the thread of a forgotten repository lives on until its queue is *)
(* empty.                                                                  *)
(***************************************************************************)
EXTENDS Naturals, Sequences, FiniteSets, SequencesExt

CONSTANTS
  Repos,
  Jj,          \* those of them that are jj repositories; the others are git's
  Stuck,       \* repositories a request of which may never end
  MaxChanges,  \* bound: changes, of all repositories together
  MaxMisses,   \* bound: refreshes for no change of the worktree
  MaxFailures, \* bound: requests that fail, and panics of workers
  MaxForgets,  \* bound: times a repository is found to be gone
  MaxStats     \* bound: requests for statistics

ASSUME ReposAssumption == Jj \subseteq Repos /\ Stuck \subseteq Repos
ASSUME BoundsAssumption ==
  {MaxChanges, MaxMisses, MaxFailures, MaxForgets, MaxStats} \subseteq Nat

VARIABLES
  disk,      \* per repository: changes made so far
  pending,   \* per repository: changes reported, which no refresh has taken
  refresh,   \* per repository: the refresh under way
  due,       \* history: per repository, what its answers must account for:
             \* changes a worker was told of, or has answered for, and that
             \* no request of that worker's own has dropped since
  inbox,     \* of the router
  worker,    \* the router's map: repository to worker, 0 for none
  pool,      \* every worker thread there has been
  gather,    \* the threads that gather statistics
  left       \* what the bounds still allow

daemon == <<disk, pending, refresh, due>>
vars   == <<daemon, inbox, worker, pool, gather, left>>

-----------------------------------------------------------------------------
Idle == [at |-> "idle", paths |-> {}]
NoState == {}
NewWorker(r, req) == [repo |-> r, alive |-> TRUE, queue |-> <<req>>, state |-> NoState]

Request(r, op, paths) == [op |-> op, repo |-> r, paths |-> paths]
Stats(g) == [op |-> "stats", gather |-> g]

Init ==
  /\ disk = [r \in Repos |-> 0] /\ pending = [r \in Repos |-> {}]
  /\ refresh = [r \in Repos |-> Idle]
  /\ due = [r \in Repos |-> {}]
  /\ inbox = <<>> /\ worker = [r \in Repos |-> 0] /\ pool = <<>> /\ gather = <<>>
  /\ left = [changes |-> MaxChanges, misses |-> MaxMisses, failures |-> MaxFailures,
             forgets |-> MaxForgets, stats |-> MaxStats]

-----------------------------------------------------------------------------
(* The daemon *)
Change(r) ==
  /\ left.changes > 0
  /\ left' = [left EXCEPT !.changes = @ - 1]
  /\ disk' = [disk EXCEPT ![r] = @ + 1]
  /\ pending' = [pending EXCEPT ![r] = @ \cup {disk'[r]}]
  /\ UNCHANGED <<refresh, due, inbox, worker, pool, gather>>

Ask(r, op, paths) ==
  /\ refresh' = [refresh EXCEPT ![r] = [at |-> op, paths |-> paths]]
  /\ inbox' = Append(inbox, Request(r, op, paths))

(* Events were lost.  Which changes were reported is not said. *)
Rescan(r) == IF r \in Jj THEN "resync" ELSE "full"

(* refresh_repo: changed paths go with the request to update the state by  *)
(* them, or to validate it first if the repository's own files changed.    *)
RefreshChanged(r) ==
  /\ refresh[r] = Idle /\ pending[r] # {}
  /\ \/ /\ \E op \in {"incremental", "validate"} : Ask(r, op, pending[r])
        /\ due' = [due EXCEPT ![r] = @ \cup pending[r]]
     \/ /\ Ask(r, Rescan(r), {})
        /\ UNCHANGED due
  /\ pending' = [pending EXCEPT ![r] = {}]
  /\ UNCHANGED <<disk, worker, pool, gather, left>>

(* For a query or a Flush, or an event that names no file of the worktree. *)
RefreshMissed(r) ==
  /\ refresh[r] = Idle /\ pending[r] = {} /\ left.misses > 0
  /\ left' = [left EXCEPT !.misses = @ - 1]
  /\ \E op \in {"full", "validate", Rescan(r)} : Ask(r, op, {})
  /\ UNCHANGED <<disk, pending, due, worker, pool, gather>>

(* A worker without a state refuses to update it: a full refresh follows. *)
FallBack(r) ==
  /\ refresh[r].at = "refused"
  /\ Ask(r, "full", {})
  /\ UNCHANGED <<disk, pending, due, worker, pool, gather, left>>

(* An answer is published.  An error, or a reply that was dropped, is a    *)
(* failure: what was reported is forgotten, the status shown as stale.     *)
Done(r) ==
  /\ refresh[r].at \in {"answered", "lost"}
  /\ refresh' = [refresh EXCEPT ![r] = Idle]
  /\ UNCHANGED <<disk, pending, due, inbox, worker, pool, gather, left>>

(* The health check does not find the repository (it may be made again). *)
Forget(r) ==
  /\ left.forgets > 0
  /\ left' = [left EXCEPT !.forgets = @ - 1]
  /\ inbox' = Append(inbox, Request(r, "forget", {}))
  /\ UNCHANGED <<daemon, worker, pool, gather>>

AskStats ==
  /\ left.stats > 0
  /\ left' = [left EXCEPT !.stats = @ - 1]
  /\ inbox' = Append(inbox, [op |-> "stats"])
  /\ UNCHANGED <<daemon, worker, pool, gather>>

-----------------------------------------------------------------------------
(* The router: it never waits for a worker. *)
(* Mutant: the router gathers statistics itself. *)
WaitsForStats == \A g \in DOMAIN gather : gather[g].asked = {}

NeverWaits == TRUE

Taking(op) == inbox # <<>> /\ inbox[1].op \in op /\ NeverWaits /\ inbox' = Tail(inbox)

(* Mutant: the state of a worker that died is handed to its successor. *)
Inherited(r, req) ==
  [NewWorker(r, req) EXCEPT !.state =
     IF worker[r] = 0 THEN NoState ELSE pool[worker[r]].state]

Spawned(r, req) == NewWorker(r, req)

Refreshing == {"incremental", "validate", "resync", "full"}

(* A repository's requests go to its worker, spawned if there is none or   *)
(* if sending shows that it died.                                          *)
Forward ==
  /\ Taking(Refreshing)
  /\ LET req == inbox[1]
         r == req.repo
         w == worker[r]
     IN  IF w # 0 /\ pool[w].alive
         THEN pool' = [pool EXCEPT ![w].queue = Append(@, req)] /\ UNCHANGED worker
         ELSE pool' = Append(pool, Spawned(r, req)) /\ worker' = [worker EXCEPT ![r] = Len(pool')]
  /\ UNCHANGED <<daemon, gather, left>>

Drop ==
  /\ Taking({"forget"})
  /\ worker' = [worker EXCEPT ![inbox[1].repo] = 0]
  /\ UNCHANGED <<daemon, pool, gather, left>>

(* A thread of its own gathers, from the workers in the map now. *)
Gather ==
  /\ Taking({"stats"})
  /\ gather' = Append(gather, [toAsk |-> {worker[r] : r \in Repos} \ {0}, asked |-> {}])
  /\ UNCHANGED <<daemon, worker, pool, left>>

-----------------------------------------------------------------------------
(* Threads that gather: ask every worker that is alive, then await them.   *)
AskWorker(g, w) ==
  /\ w \in gather[g].toAsk
  /\ gather' = [gather EXCEPT ![g].toAsk = @ \ {w},
                              ![g].asked = IF pool[w].alive THEN @ \cup {w} ELSE @]
  /\ pool' = IF pool[w].alive THEN [pool EXCEPT ![w].queue = Append(@, Stats(g))] ELSE pool
  /\ UNCHANGED <<daemon, inbox, worker, left>>

-----------------------------------------------------------------------------
(* Worker threads                                                          *)
HasWork(w) == pool[w].alive /\ pool[w].queue # <<>>

Next1(w) == pool[w].queue[1]

Step(w, state) == pool' = [pool EXCEPT ![w].queue = Tail(@), ![w].state = state]

Answer(r, at, paths) == refresh' = [refresh EXCEPT ![r] = [at |-> at, paths |-> paths]]

Known(w) == UNION pool[w].state

(* An answer that accounts for the changes has, which are retained, and    *)
(* the changes that later answers have to account for as well.             *)
Reads(w, has, later) ==
  /\ Step(w, {has}) /\ Answer(pool[w].repo, "answered", has)
  /\ due' = [due EXCEPT ![pool[w].repo] = later]
  /\ UNCHANGED <<disk, pending, inbox, worker, gather, left>>

(* git: the whole worktree, if the state cannot be gone on from. *)
WorkFull(w) ==
  /\ HasWork(w) /\ Next1(w).op \in {"full", "validate"}
  /\ LET r == pool[w].repo
     IN  r \notin Jj /\ Reads(w, 1..disk[r], due[r] \cup 1..disk[r])

(* jj: what is in the store, which is up to a change of some time ago, and *)
(* then again the files the request names, or for a resync those known to  *)
(* have changed.  Any other change is dropped.                             *)
Rebuild(w) ==
  /\ HasWork(w) /\ Next1(w).op \in {"full", "validate", "resync"}
  /\ LET r == pool[w].repo
         again == CASE pool[w].state = NoState \/ Next1(w).op = "full" -> {}
                    [] OTHER -> IF Next1(w).op = "resync" THEN Known(w) ELSE Next1(w).paths
     IN  /\ r \in Jj
         /\ \E k \in 0..disk[r], ids \in SUBSET again :
              LET has == 1..k \cup ids IN Reads(w, has, has)

(* git: when the index changed all is diffed again, and a diff that fails  *)
(* is left out of an answer which is no error.                             *)
DiffAgain(w) ==
  /\ HasWork(w) /\ Next1(w).op = "validate" /\ pool[w].state # NoState
  /\ pool[w].repo \notin Jj
  /\ \E has \in SUBSET (Known(w) \cup Next1(w).paths) : Reads(w, has, has)

(* Both go on from the state, and from files the request names; a file     *)
(* whose diff fails is left out.                                           *)
WorkOn(w) ==
  /\ HasWork(w) /\ Next1(w).op \in {"incremental", "validate"} /\ pool[w].state # NoState
  /\ \E ids \in SUBSET Next1(w).paths :
       LET has == Known(w) \cup ids
           failed == Next1(w).paths \ has
       IN  Reads(w, has, (due[pool[w].repo] \ failed) \cup has)

Refuse(w) ==
  /\ HasWork(w) /\ Next1(w).op = "incremental" /\ pool[w].state = NoState
  /\ Step(w, NoState) /\ Answer(pool[w].repo, "refused", Next1(w).paths)
  /\ UNCHANGED <<disk, pending, due, inbox, worker, gather, left>>

(* A request that fails keeps the state there is, which has not been told  *)
(* of what the request names, and will not be.                             *)
WorkFails(w) ==
  /\ HasWork(w) /\ Next1(w).op \in {"full", "validate", "resync"} /\ left.failures > 0
  /\ left' = [left EXCEPT !.failures = @ - 1]
  /\ Step(w, pool[w].state) /\ Answer(pool[w].repo, "lost", {})
  /\ due' = IF pool[w].state = NoState THEN due
            ELSE [due EXCEPT ![pool[w].repo] = @ \ (Next1(w).paths \ Known(w))]
  /\ UNCHANGED <<disk, pending, inbox, worker, gather>>

WorkStats(w) ==
  /\ HasWork(w) /\ Next1(w).op = "stats"
  /\ Step(w, pool[w].state)
  /\ gather' = [gather EXCEPT ![Next1(w).gather].asked = @ \ {w}]
  /\ UNCHANGED <<daemon, inbox, worker, left>>

(* The replies of all that was queued are dropped. *)
Panic(w) ==
  /\ HasWork(w) /\ left.failures > 0
  /\ left' = [left EXCEPT !.failures = @ - 1]
  /\ LET r == pool[w].repo
         lost == \E i \in DOMAIN pool[w].queue : pool[w].queue[i].op # "stats"
     IN  refresh' = [refresh EXCEPT ![r] = IF lost THEN [@ EXCEPT !.at = "lost"] ELSE @]
  /\ pool' = [pool EXCEPT ![w].alive = FALSE, ![w].queue = <<>>]
  /\ gather' = [g \in DOMAIN gather |-> [gather[g] EXCEPT !.asked = @ \ {w}]]
  /\ UNCHANGED <<disk, pending, due, inbox, worker>>

Work(w) ==
  \/ WorkFull(w) \/ Rebuild(w) \/ DiffAgain(w) \/ WorkOn(w)
  \/ Refuse(w) \/ WorkFails(w) \/ WorkStats(w)

Router == Forward \/ Drop \/ Gather

Daemon(r) == RefreshChanged(r) \/ FallBack(r) \/ Done(r)

Gathering == \E g \in DOMAIN gather : \E w \in gather[g].toAsk : AskWorker(g, w)

Next ==
  \/ \E r \in Repos : Change(r) \/ Daemon(r) \/ RefreshMissed(r) \/ Forget(r)
  \/ AskStats \/ Router \/ Gathering
  \/ \E w \in DOMAIN pool : Work(w) \/ Panic(w)

(* Threads run; a request of a repository that is not stuck ends. *)
WorkFor(r) == \E w \in DOMAIN pool : pool[w].repo = r /\ Work(w)

Fairness ==
  /\ WF_vars(Router)
  /\ \A r \in Repos : WF_vars(Daemon(r))
  /\ \A r \in Repos \ Stuck : WF_vars(WorkFor(r))

Spec == Init /\ [][Next]_vars /\ Fairness

-----------------------------------------------------------------------------
(* Whatever workers die or are dropped, with reports in hand or in their   *)
(* queues, no state survives that misses one: an answer of a worker, old   *)
(* or new, accounts for every change the daemon reported or was answered   *)
(* for before, but for those a request was answered without by itself: it  *)
(* failed with a state kept, a diff in it failed, or it rebuilt the state  *)
(* of a jj repository from a store they were not in.                       *)
AnswersCoverReports ==
  \A r \in Repos : refresh[r].at = "answered" => due[r] \subseteq refresh[r].paths

(* A repository whose requests end gets its refreshes done, by an answer   *)
(* or an error, however long those of another repository take, also while  *)
(* statistics wait for that other one.                                     *)
OthersAreServed ==
  \A r \in Repos \ Stuck : refresh[r] # Idle ~> refresh[r] = Idle

=============================================================================
