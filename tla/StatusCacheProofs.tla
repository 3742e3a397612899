-------------------------- MODULE StatusCacheProofs --------------------------
(***************************************************************************)
(* Theorems about what clients and hooks see of a repository, for any      *)
(* number of clients, one or two runtime threads, and any bounds.          *)
(***************************************************************************)
EXTENDS StatusCache, SequenceTheorems, TLAPS

(* A refresh task is at a stage.  OneTask, below, says there is only one.  *)
Running(a) == Len(tasks) = 1 /\ tasks[1].at = a

OneTask == Len(tasks) <= 1

-----------------------------------------------------------------------------
(* The sequence of tasks *)

(* Of at most one task there is only the first. *)
LEMMA TheTask ==
  ASSUME tasks \in Seq(Task), OneTask, NEW i \in DOMAIN tasks
  PROVE  i = 1 /\ Len(tasks) = 1 /\ tasks[1] \in Task
<1>1. Len(tasks) \in Nat /\ DOMAIN tasks = 1..Len(tasks) /\ i \in 1..Len(tasks)
  OBVIOUS
<1>2. Len(tasks) = 1 /\ i = 1
  BY <1>1 DEF OneTask
<1>3. tasks[1] \in Task
  BY <1>2
<1> QED BY <1>2, <1>3

(* A task that changes is the only task still. *)
LEMMA TaskMoves ==
  ASSUME tasks \in Seq(Task), OneTask, NEW i \in DOMAIN tasks,
         NEW t \in Task, tasks' = [tasks EXCEPT ![i] = t]
  PROVE  /\ tasks' \in Seq(Task) /\ OneTask'
         /\ Running(t.at)' /\ tasks'[1] = t
         /\ Running(tasks[i].at) /\ i = 1 /\ tasks[1] \in Task
<1>1. Len(tasks) = 1 /\ i = 1 /\ tasks[1] \in Task
  BY TheTask
<1>2. tasks' = [tasks EXCEPT ![1] = t] /\ 1 \in 1..Len(tasks)
  BY <1>1
<1>3. /\ [tasks EXCEPT ![1] = t] \in Seq(Task) /\ Len([tasks EXCEPT ![1] = t]) = 1
      /\ [tasks EXCEPT ![1] = t][1] = t
  BY <1>1, <1>2, ExceptSeq
<1> QED BY <1>1, <1>2, <1>3 DEF OneTask, Running

(* A task that moves on to a stage keeps what it asks and what it has. *)
LEMMA StageMoves ==
  ASSUME tasks \in Seq(Task), OneTask, NEW i \in DOMAIN tasks,
         NEW a \in {"spawned", "reading", "read", "failed", "ended"}, Moves(i, a)
  PROVE  /\ tasks' \in Seq(Task) /\ OneTask'
         /\ Running(a)' /\ tasks'[1].paths = tasks[1].paths
         /\ Running(tasks[i].at)
<1> DEFINE t == [tasks[i] EXCEPT !.at = a]
<1>1. i = 1 /\ tasks[1] \in Task
  BY TheTask
<1>2. t \in Task /\ t.at = a /\ t.paths = tasks[1].paths
  BY <1>1 DEF Task
<1>3. tasks' = [tasks EXCEPT ![i] = t]
  BY DEF Moves
<1> HIDE DEF t
<1> QED BY <1>2, <1>3, TaskMoves

(* What a refresh takes with it is of its kinds. *)
LEMMA SpawnedTypes ==
  ASSUME NEW r \in Report
  PROVE  Spawned(r) \in Task /\ Spawned(r).at = "spawned" /\ Spawned(r).paths = r.paths
<1>1. Request(r) \in {"full", "incremental", "validate", "resync"}
  BY DEF Request, Report
<1>2. r.paths \in SUBSET Changes
  BY DEF Report
<1> QED BY <1>1, <1>2 DEF Spawned, Task

(* Nothing is a report. *)
LEMMA NothingIsReport == Nothing \in Report /\ Nothing.paths = {}
BY DEF Nothing, Report

(* A refresh that begins asks what it was spawned with. *)
LEMMA BeginMoves ==
  ASSUME tasks \in Seq(Task), OneTask, NEW i \in DOMAIN tasks, BeginRefresh(i)
  PROVE  /\ tasks' \in Seq(Task) /\ OneTask'
         /\ Running("spawned") /\ Running("reading")' /\ tasks'[1].paths = tasks[1].paths
BY StageMoves DEF BeginRefresh

(* An answer is one of the changes there are. *)
LEMMA AnswersTypes ==
  ASSUME version \in 0..MaxChanges, saved \in SUBSET Changes, Known \in SUBSET Changes,
         vcs \in Kinds, NEW t \in Task, NEW has \in Answers(t)
  PROVE  has \in SUBSET Changes
<1>1. MaxChanges \in Nat
  BY BoundsAssumption
<1>2. Whole \in SUBSET Changes
  BY <1>1 DEF Whole, Changes
<1>3. t.paths \in SUBSET Changes /\ t.ask \in {"full", "incremental", "validate", "resync"}
  BY DEF Task
<1> DEFINE W == Whole  K == Known  P == t.paths
<1>4. W \in SUBSET Changes /\ K \in SUBSET Changes /\ P \in SUBSET Changes
  BY <1>2, <1>3
<1>5. vcs \in {"git", "jj"}
  BY KindsAssumption
<1>6. \/ has = W
      \/ \E ids \in SUBSET K : has = W \cup ids
      \/ \E ids \in SUBSET P : has = K \cup ids
      \/ \E ids \in SUBSET P : has = W \cup ids
      \/ \E ids \in SUBSET P : has = W \cup (K \cup ids)
      \/ has \in SUBSET (K \cup P)
  <2>1. CASE t.ask = "full"
    BY <2>1 DEF Answers
  <2>2. CASE t.ask = "resync"
    BY <2>2 DEF Answers
  <2>3. CASE t.ask = "incremental"
    BY <2>3 DEF Answers
  <2>4. CASE t.ask = "validate" /\ known = {}
    BY <2>4 DEF Answers
  <2>5. CASE t.ask = "validate" /\ known # {} /\ vcs = "jj"
    BY <2>5 DEF Answers
  <2>6. CASE t.ask = "validate" /\ known # {} /\ vcs = "git"
    BY <2>6 DEF Answers
  <2> QED BY <1>3, <1>5, <2>1, <2>2, <2>3, <2>4, <2>5, <2>6
<1> HIDE DEF W, K, P
<1> QED BY <1>4, <1>6

(* The worker's answer, and when it was given, are noted. *)
LEMMA ReadMoves ==
  ASSUME tasks \in Seq(Task), OneTask, NEW i \in DOMAIN tasks, NEW has \in SUBSET Changes,
         reads \in Nat, tasks[i].at = "reading",
         tasks' = [tasks EXCEPT ![i] =
                     [@ EXCEPT !.at = "read", !.paths = {}, !.has = has, !.read = reads + 1]]
  PROVE  /\ tasks' \in Seq(Task) /\ OneTask'
         /\ Running("reading") /\ Running("read")' /\ i = 1 /\ tasks[1] \in Task
         /\ tasks'[1].has = has /\ tasks'[1].read = reads + 1 /\ tasks'[1].paths = {}
<1>1. i = 1 /\ Len(tasks) = 1 /\ tasks[1] \in Task
  BY TheTask
<1>2. PICK t : t = [tasks[i] EXCEPT !.at = "read", !.paths = {}, !.has = has, !.read = reads + 1]
  OBVIOUS
<1>3. t \in Task
  <2>1. reads + 1 \in Nat
    OBVIOUS
  <2> QED BY <1>1, <1>2, <2>1 DEF Task
<1>4. t.at = "read" /\ t.has = has /\ t.read = reads + 1 /\ t.paths = {}
  BY <1>1, <1>2 DEF Task
<1>5. tasks' = [tasks EXCEPT ![i] = t]
  BY <1>2
<1>6. /\ tasks' \in Seq(Task) /\ OneTask' /\ Running(t.at)' /\ tasks'[1] = t
      /\ Running(tasks[i].at)
  BY <1>3, <1>5, TaskMoves, Zenon
<1> QED BY <1>1, <1>4, <1>6

(* The worker fails, and what was asked is asked no more. *)
LEMMA FailMoves ==
  ASSUME tasks \in Seq(Task), OneTask, NEW i \in DOMAIN tasks, FailToRead(i)
  PROVE  /\ tasks' \in Seq(Task) /\ OneTask'
         /\ Running("reading") /\ Running("failed")' /\ i = 1 /\ tasks[1] \in Task
         /\ tasks'[1].paths = {}
<1> DEFINE t == [tasks[i] EXCEPT !.at = "failed", !.paths = {}]
<1>1. i = 1 /\ tasks[1] \in Task
  BY TheTask
<1>2. t \in Task /\ t.at = "failed" /\ t.paths = {}
  BY <1>1 DEF Task
<1>3. tasks' = [tasks EXCEPT ![i] = t] /\ tasks[i].at = "reading"
  BY DEF FailToRead
<1> HIDE DEF t
<1> QED BY <1>1, <1>2, <1>3, TaskMoves

(* Either way a refresh ends. *)
LEMMA EndMoves ==
  ASSUME tasks \in Seq(Task), OneTask, NEW i \in DOMAIN tasks, Ends(i)
  PROVE  /\ tasks' \in Seq(Task) /\ OneTask'
         /\ Running("ended")' /\ Running(tasks[i].at) /\ i = 1 /\ tasks[1] \in Task
         /\ tasks'[1].paths = {}
<1> DEFINE t == [Spawned(Nothing) EXCEPT !.at = "ended"]
<1>1. Spawned(Nothing) \in Task /\ Spawned(Nothing).paths = {}
  BY NothingIsReport, SpawnedTypes
<1>2. t \in Task /\ t.at = "ended" /\ t.paths = {}
  BY <1>1 DEF Task
<1>3. tasks' = [tasks EXCEPT ![i] = t]
  BY DEF Ends
<1> HIDE DEF t
<1> QED BY <1>2, <1>3, TaskMoves

(* A started task is the only one, and takes along what was owed, or       *)
(* leaves it.                                                              *)
LEMMA StartMoves ==
  ASSUME StartRefresh, owed \in Report
  PROVE  /\ tasks' \in Seq(Task) /\ OneTask' /\ tasks = <<>> /\ Running("spawned")'
         /\ \/ tasks'[1].paths = owed.paths /\ owed' = Nothing
            \/ tasks'[1].paths = {} /\ owed' = owed
<1>1. PICK r \in {owed, Nothing} :
        /\ tasks' = Append(tasks, Spawned(r))
        /\ (r = owed /\ owed' = Nothing) \/ (r = Nothing /\ owed' = owed)
  BY DEF StartRefresh
<1> DEFINE t == Spawned(r)
<1>2. tasks = <<>> /\ tasks' = Append(<<>>, t)
  BY <1>1 DEF StartRefresh, MayStart
<1>3. t \in Task /\ t.at = "spawned" /\ t.paths = r.paths
  BY <1>1, NothingIsReport, SpawnedTypes
<1> HIDE DEF t
<1>4. Append(<<>>, t) \in Seq(Task) /\ Len(Append(<<>>, t)) = 1 /\ Append(<<>>, t)[1] = t
  BY <1>3
<1> QED BY <1>1, <1>2, <1>3, <1>4, NothingIsReport DEF OneTask, Running

(* The task whose Done is handled was the only one. *)
LEMMA DoneMoves ==
  ASSUME tasks \in Seq(Task), OneTask, ProcessDone
  PROVE  tasks' = <<>> /\ Running("ended")
<1>1. PICK i \in DOMAIN tasks : tasks[i].at = "ended" /\ tasks' = RemoveAt(tasks, i)
  BY DEF ProcessDone
<1>2. i = 1 /\ Len(tasks) = 1
  BY TheTask
<1>3. SubSeq(tasks, 1, 0) = <<>> /\ SubSeq(tasks, 2, 1) = <<>>
  BY <1>2
<1>4. RemoveAt(tasks, 1) = <<>> \o <<>>
  BY <1>2, <1>3 DEF RemoveAt
<1> QED BY <1>1, <1>2, <1>4 DEF Running

-----------------------------------------------------------------------------
(* Types *)

Single(es) == es \in SUBSET Entry /\ \A d, e \in es : d = e

(* What is published was cached before, marked or rendered anew, or is one *)
(* new status.                                                             *)
LEMMA EntryTypes ==
  ASSUME TypeOK
  PROVE  /\ \A er \in BOOLEAN : Single({Stale(e, er) : e \in cache})
         /\ cfg < MaxReloads => Single({Rerender(e) : e \in cache})
         /\ \A t \in Task : Single({Fresh(t)})
<1>1. cfg \in 0..MaxReloads /\ cache \in SUBSET Entry /\ \A d, e \in cache : d = e
  BY DEF TypeOK
<1>2. MaxReloads \in Nat
  BY BoundsAssumption
<1>3. \A er \in BOOLEAN : Single({Stale(e, er) : e \in cache})
  <2>1. \A er \in BOOLEAN, e \in cache : Stale(e, er) \in Entry
    BY <1>1, <1>2 DEF Stale, Entry
  <2> QED BY <1>1, <2>1 DEF Single
<1>4. cfg < MaxReloads => Single({Rerender(e) : e \in cache})
  <2> SUFFICES ASSUME cfg < MaxReloads PROVE Single({Rerender(e) : e \in cache})
    OBVIOUS
  <2>1. cfg + 1 \in 0..MaxReloads
    BY <1>1, <1>2
  <2>2. \A e \in cache : Rerender(e) \in Entry
    BY <1>1, <2>1 DEF Rerender, Entry
  <2> QED BY <1>1, <2>2 DEF Single
<1>5. \A t \in Task : Single({Fresh(t)})
  <2>1. \A t \in Task : Fresh(t) \in Entry
    BY <1>1 DEF Fresh, Entry, Task
  <2> QED BY <2>1 DEF Single
<1> QED BY <1>3, <1>4, <1>5

(* What is published has its type in both places. *)
LEMMA PublishTypes ==
  ASSUME TypeOK, NEW es, Single(es), Publish(es)
  PROVE  Single(cache') /\ Single(file') /\ woken' \in [Clients -> BOOLEAN]
<1>1. Single(file)
  BY DEF TypeOK, Single
<1>2. \A c \in Clients : woken[c] \in BOOLEAN
  BY DEF TypeOK
<1>3. woken' \in [Clients -> BOOLEAN]
  BY <1>2 DEF Publish
<1> QED BY <1>1, <1>3 DEF Publish

(* An answer leaves the connection done, with a status or none. *)
LEMMA AnswerTypes ==
  ASSUME TypeOK, NEW c \in Clients, NEW es \in SUBSET Entry, Answer(c, es)
  PROVE  /\ pc' \in [Clients -> {"idle", "hit", "miss", "waitHit", "waitMiss", "done"}]
         /\ snap' \in [Clients -> SUBSET Entry] /\ said' \in [Clients -> SUBSET Entry]
         /\ woken' \in [Clients -> BOOLEAN]
BY DEF TypeOK, Answer

(* What comes to be known to nobody are changes. *)
LEMMA LostTypes ==
  ASSUME TypeOK, NEW ids \in SUBSET Changes
  PROVE  /\ Lose(ids) => lost' \in SUBSET Changes
         /\ \A has \in SUBSET Changes : Learn(has, ids) => lost' \in SUBSET Changes
BY DEF TypeOK, Lose, Learn

(* Changes the worker knows of, or a refresh asks about, are changes. *)
LEMMA KnownTypes ==
  ASSUME TypeOK, OneTask
  PROVE  /\ Known \in SUBSET Changes
         /\ \A i \in DOMAIN tasks : tasks[i].paths \in SUBSET Changes
         /\ UNION {tasks[i].paths : i \in DOMAIN tasks} \in SUBSET Changes
<1>1. known \in SUBSET SUBSET Changes /\ tasks \in Seq(Task)
  BY DEF TypeOK
<1>2. ASSUME NEW i \in DOMAIN tasks PROVE tasks[i].paths \in SUBSET Changes
  <2>1. tasks[i] \in Task
    BY <1>1
  <2> QED BY <2>1 DEF Task
<1> QED BY <1>1, <1>2 DEF Known

(* A change is reported, or lost. *)
LEMMA ChangedTypes ==
  ASSUME TypeOK, NEW ids \in SUBSET Changes, NEW byCommand \in BOOLEAN, Changed(ids, byCommand)
  PROVE  owed' \in Report /\ lost' \in SUBSET Changes
<1>1. owed \in Report /\ lost \in SUBSET Changes
  BY DEF TypeOK
<1>2. CASE watcher = "live"
  <2>1. owed' = [owed EXCEPT !.paths = @ \cup ids, !.hint = @ \/ byCommand] /\ lost' = lost
    BY <1>2 DEF Changed
  <2>2. owed.paths \cup ids \in SUBSET Changes /\ (owed.hint \/ byCommand) \in BOOLEAN
    BY <1>1 DEF Report
  <2> QED BY <1>1, <2>1, <2>2 DEF Report
<1>3. CASE watcher # "live"
  BY <1>1, <1>3 DEF Changed, Lose
<1> QED BY <1>2, <1>3

(* The initial state has the types. *)
LEMMA TypeInit == Init => TypeOK /\ OneTask
<1> SUFFICES ASSUME Init PROVE TypeOK /\ OneTask
  OBVIOUS
<1>1. 0 \in 0..MaxChanges /\ 0 \in 0..MaxReloads /\ MaxMishaps \in Nat
  BY BoundsAssumption
<1>2. tasks \in Seq(Task) /\ OneTask
  BY DEF Init, OneTask
<1>3. owed \in Report
  BY NothingIsReport DEF Init
<1>4. known \in SUBSET SUBSET Changes /\ \A k, l \in known : k = l
  BY DEF Init
<1>5. cache \in SUBSET Entry /\ file \in SUBSET Entry /\ lost \in SUBSET Changes /\ saved \in SUBSET Changes
  BY DEF Init
<1> QED BY <1>1, <1>2, <1>3, <1>4, <1>5 DEF Init, TypeOK

(* Every step keeps the types, and there is at most one task. *)
LEMMA TypeStep == TypeOK /\ OneTask /\ [Next]_vars => TypeOK' /\ OneTask'
<1> SUFFICES ASSUME TypeOK, OneTask, [Next]_vars PROVE TypeOK' /\ OneTask'
  OBVIOUS
<1> USE DEF repo, worker, shown, handlers, clients, refresh
<1>t. /\ tasks \in Seq(Task) /\ version \in 0..MaxChanges /\ MaxChanges \in Nat /\ reads \in Nat
      /\ owed \in Report /\ left \in Nat /\ saved \in SUBSET Changes /\ lost \in SUBSET Changes
      /\ exists \in BOOLEAN /\ watcher \in {"none", "live", "dead"}
  BY BoundsAssumption DEF TypeOK
<1>k. /\ Known \in SUBSET Changes
      /\ \A i \in DOMAIN tasks : tasks[i].paths \in SUBSET Changes
      /\ UNION {tasks[i].paths : i \in DOMAIN tasks} \in SUBSET Changes
  BY KnownTypes
<1>v. version < MaxChanges /\ version' = version + 1 =>
        version' \in 0..MaxChanges /\ {version'} \in SUBSET Changes /\ 1..version' \in SUBSET Changes
  BY <1>t DEF Changes
<1>m. ASSUME NEW kind, Mishap(kind) PROVE left' \in Nat
  BY <1>t, <1>m DEF Mishap
<1>1. CASE Edit
  <2>1. PICK byCommand \in BOOLEAN :
          /\ saved' = IF byCommand /\ vcs = "jj" THEN 1..version' ELSE saved
          /\ Changed({version'}, byCommand)
    BY <1>1 DEF Edit
  <2>2. version' \in 0..MaxChanges /\ {version'} \in SUBSET Changes /\ 1..version' \in SUBSET Changes
    BY <1>1, <1>v DEF Edit
  <2>3. owed' \in Report /\ lost' \in SUBSET Changes
    BY <2>1, <2>2, ChangedTypes
  <2>4. saved' \in SUBSET Changes
    BY <2>1, <2>2, <1>t
  <2> QED BY <1>1, <2>2, <2>3, <2>4 DEF Edit, TypeOK, OneTask
<1>0. CASE Overflow
  <2>1. left' \in Nat
    BY <1>0, <1>m DEF Overflow
  <2>2. PICK ids \in SUBSET owed.paths, hint \in {FALSE, owed.hint} :
          /\ owed' = [paths |-> owed.paths \ ids, hint |-> hint, rescan |-> TRUE]
          /\ Lose(ids)
    BY <1>0 DEF Overflow
  <2>3. owed.paths \in SUBSET Changes /\ owed.hint \in BOOLEAN
    BY <1>t DEF Report
  <2>4. owed' \in Report
    BY <2>2, <2>3 DEF Report
  <2>5. lost' \in SUBSET Changes
    BY <2>2, <2>3, <1>t DEF Lose
  <2> QED BY <1>0, <2>1, <2>4, <2>5 DEF Overflow, TypeOK, OneTask
<1>2. CASE DeleteRepo
  <2>1. left' \in Nat
    BY <1>2, <1>m DEF DeleteRepo
  <2>2. watcher' \in {"none", "live", "dead"}
    BY <1>2 DEF DeleteRepo, TypeOK
  <2>3. 1..version \in SUBSET Changes
    BY <1>t DEF Changes
  <2>4. owed' \in Report
    BY <1>2, <1>t, <2>3 DEF DeleteRepo, Report
  <2> QED BY <1>2, <2>1, <2>2, <2>4 DEF DeleteRepo, TypeOK, OneTask
<1>3. CASE RecreateRepo
  <2>1. version' \in 0..MaxChanges /\ {version'} \in SUBSET Changes /\ 1..version' \in SUBSET Changes
    BY <1>3, <1>v DEF RecreateRepo
  <2>2. lost' \in SUBSET Changes
    BY <1>3, <2>1, LostTypes DEF RecreateRepo
  <2>3. saved' \in SUBSET Changes
    BY <1>3, <1>t, <2>1 DEF RecreateRepo
  <2> QED BY <1>3, <2>1, <2>2, <2>3 DEF RecreateRepo, TypeOK, OneTask
<1>4. CASE HealthCheck
  <2>1. (StateGoes /\ Lose(Known)) \/ (forgotten' = TRUE /\ UNCHANGED <<known, lost>>)
    BY <1>4 DEF HealthCheck
  <2>2. /\ known' \in SUBSET SUBSET Changes /\ \A k, l \in known' : k = l
        /\ forgotten' \in BOOLEAN /\ lost' \in SUBSET Changes
    <3>1. CASE StateGoes /\ Lose(Known)
      BY <1>k, <3>1, LostTypes DEF StateGoes
    <3>2. CASE forgotten' = TRUE /\ UNCHANGED <<known, lost>>
      BY <3>2 DEF TypeOK
    <3> QED BY <2>1, <3>1, <3>2
  <2>3. /\ watcher' = "none" /\ cache' = {}
        /\ UNCHANGED <<repo, owed, reads, cfg, file, refresh, misses, clearing, left, clients>>
    BY <1>4 DEF HealthCheck
  <2> QED BY <2>2, <2>3 DEF TypeOK, OneTask
<1>5. CASE StartRefresh
  <2>1. tasks' \in Seq(Task) /\ OneTask' /\ owed' \in {owed, Nothing}
    BY <1>5, <1>t, StartMoves
  <2>2. misses' \in Nat
    <3>1. misses \in Nat
      BY DEF TypeOK
    <3>2. misses' = misses \/ (misses > 0 /\ misses' = misses - 1)
      BY <1>5, Zenon DEF StartRefresh
    <3> QED BY <3>1, <3>2
  <2>3. owed' \in Report
    BY <1>t, <2>1, NothingIsReport
  <2> QED BY <1>5, <2>1, <2>2, <2>3 DEF StartRefresh, TypeOK
<1>6. CASE DropMiss
  <2>1. misses' \in Nat
    BY <1>6 DEF DropMiss, TypeOK
  <2> QED BY <1>6, <2>1 DEF DropMiss, TypeOK, OneTask
<1>7. CASE ProcessDone
  <2>1. tasks' = <<>>
    BY <1>7, <1>t, DoneMoves
  <2>2. tasks' \in Seq(Task) /\ OneTask'
    BY <2>1 DEF OneTask
  <2> QED BY <1>7, <2>2 DEF ProcessDone, TypeOK
<1>8. ASSUME NEW i \in DOMAIN tasks, BeginRefresh(i) PROVE TypeOK' /\ OneTask'
  <2>1. tasks' \in Seq(Task) /\ OneTask'
    BY <1>8, <1>t, BeginMoves
  <2>2. Single(cache') /\ Single(file') /\ woken' \in [Clients -> BOOLEAN]
    BY <1>8, EntryTypes, PublishTypes DEF BeginRefresh
  <2> QED BY <1>8, <2>1, <2>2 DEF BeginRefresh, TypeOK, Single
<1>9. ASSUME NEW i \in DOMAIN tasks, ReadRepo(i) PROVE TypeOK' /\ OneTask'
  <2>1. PICK has \in Answers(tasks[i]) :
          /\ tasks' = [tasks EXCEPT ![i] =
                         [@ EXCEPT !.at = "read", !.paths = {}, !.has = has, !.read = reads + 1]]
          /\ \/ known' = {has} /\ Learn(has, Known \cup tasks[i].paths)
             \/ known' = {} /\ Lose(Known \cup tasks[i].paths \cup has)
    BY <1>9 DEF ReadRepo
  <2>2. tasks[i] \in Task
    BY <1>t
  <2>3. has \in SUBSET Changes
    BY <1>t, <1>k, <2>2, AnswersTypes DEF TypeOK
  <2>4. tasks[i].at = "reading" /\ forgotten' = FALSE /\ reads' = reads + 1
    BY <1>9 DEF ReadRepo
  <2>5. tasks' \in Seq(Task) /\ OneTask'
    BY <1>t, <2>1, <2>3, <2>4, ReadMoves
  <2>6. /\ known' \in SUBSET SUBSET Changes /\ \A k, l \in known' : k = l
        /\ lost' \in SUBSET Changes
    <3>1. Known \cup tasks[i].paths \in SUBSET Changes
      BY <1>k
    <3> QED BY <2>1, <2>3, <3>1, LostTypes
  <2>7. reads' \in Nat
    BY <1>t, <2>4
  <2>8. UNCHANGED <<repo, watcher, owed, cfg, shown, refreshing, failed, misses, clearing, left, clients>>
    BY <1>9 DEF ReadRepo
  <2> QED BY <2>4, <2>5, <2>6, <2>7, <2>8 DEF TypeOK
<1>f. ASSUME NEW i \in DOMAIN tasks, FailToRead(i) PROVE TypeOK' /\ OneTask'
  <2>1. tasks' \in Seq(Task) /\ OneTask'
    BY <1>f, <1>t, FailMoves
  <2>2. \/ Lose(tasks[i].paths) /\ UNCHANGED <<known, forgotten>>
        \/ StateGoes /\ Lose(Known \cup tasks[i].paths)
    BY <1>f DEF FailToRead
  <2>3. tasks[i].paths \in SUBSET Changes /\ Known \cup tasks[i].paths \in SUBSET Changes
    BY <1>k
  <2>4. /\ known' \in SUBSET SUBSET Changes /\ \A k, l \in known' : k = l
        /\ forgotten' \in BOOLEAN /\ lost' \in SUBSET Changes
    <3>1. CASE Lose(tasks[i].paths) /\ UNCHANGED <<known, forgotten>>
      BY <2>3, <3>1, LostTypes DEF TypeOK
    <3>2. CASE StateGoes /\ Lose(Known \cup tasks[i].paths)
      BY <2>3, <3>2, LostTypes DEF StateGoes
    <3> QED BY <2>2, <3>1, <3>2
  <2>5. UNCHANGED <<repo, watcher, owed, reads, cfg, shown, refreshing, failed, misses, clearing, left, clients>>
    BY <1>f DEF FailToRead
  <2> QED BY <2>1, <2>4, <2>5 DEF TypeOK
<1>10. ASSUME NEW i \in DOMAIN tasks, FinishOk(i) PROVE TypeOK' /\ OneTask'
  <2>1. tasks' \in Seq(Task) /\ OneTask' /\ tasks[i] \in Task
    BY <1>10, <1>t, EndMoves DEF FinishOk
  <2>2. Single({Fresh(tasks[i])})
    BY <2>1, EntryTypes
  <2>3. Single(cache') /\ Single(file') /\ woken' \in [Clients -> BOOLEAN]
    BY <1>10, <2>2, PublishTypes DEF FinishOk
  <2> QED BY <1>10, <2>1, <2>3 DEF FinishOk, TypeOK, Single
<1>11. ASSUME NEW i \in DOMAIN tasks, FinishErr(i) PROVE TypeOK' /\ OneTask'
  <2>1. tasks' \in Seq(Task) /\ OneTask'
    BY <1>11, <1>t, EndMoves DEF FinishErr
  <2>2. Single(cache') /\ Single(file') /\ woken' \in [Clients -> BOOLEAN]
    BY <1>11, EntryTypes, PublishTypes DEF FinishErr
  <2> QED BY <1>11, <2>1, <2>2 DEF FinishErr, TypeOK, Single
<1>12. CASE ReloadConfig
  <2>1. Single(cache') /\ Single(file') /\ woken' \in [Clients -> BOOLEAN]
    BY <1>12, EntryTypes, PublishTypes DEF ReloadConfig
  <2>2. cfg' \in 0..MaxReloads
    BY <1>12, BoundsAssumption DEF ReloadConfig, TypeOK
  <2> QED BY <1>12, <2>1, <2>2 DEF ReloadConfig, TypeOK, OneTask, Single
<1>13. CASE ClearFiles
  <2>1. left' \in Nat
    BY <1>13, <1>m DEF ClearFiles
  <2> QED BY <1>13, <2>1 DEF ClearFiles, TypeOK, OneTask
<1>14. CASE ClearMemory
  BY <1>14 DEF ClearMemory, TypeOK, OneTask
<1>15. CASE ExecRestart
  <2>1. left' \in Nat
    BY <1>15, <1>m DEF ExecRestart
  <2>2. pc' \in [Clients -> {"idle", "hit", "miss", "waitHit", "waitMiss", "done"}]
    BY <1>15 DEF ExecRestart
  <2>3. snap' \in [Clients -> SUBSET Entry] /\ woken' \in [Clients -> BOOLEAN]
    BY <1>15 DEF ExecRestart
  <2>4. tasks' \in Seq(Task) /\ OneTask'
    BY <1>15 DEF ExecRestart, OneTask
  <2>5. watcher' \in {"none", "live", "dead"} /\ owed' \in Report
    BY <1>15, <1>t, NothingIsReport DEF ExecRestart
  <2>6. UNCHANGED <<repo, reads, cfg, file, said, floor>> /\ misses' = 0
        /\ cache' = {} /\ clearing' = FALSE /\ refreshing' = FALSE /\ failed' = FALSE
        /\ known' = {} /\ forgotten' = FALSE
    BY <1>15 DEF ExecRestart, StateGoes
  <2>7. lost' \in SUBSET Changes
    <3>1. owed.paths \in SUBSET Changes
      BY <1>t DEF Report
    <3>2. Known \cup owed.paths \cup UNION {tasks[j].paths : j \in DOMAIN tasks} \in SUBSET Changes
      BY <1>k, <3>1
    <3> QED BY <1>15, <3>2, LostTypes DEF ExecRestart
  <2> QED BY <2>1, <2>2, <2>3, <2>4, <2>5, <2>6, <2>7 DEF TypeOK
<1>16. ASSUME NEW c \in Clients, Ask(c) PROVE TypeOK' /\ OneTask'
  <2>1. floor' \in [Clients -> SUBSET Nat]
    <3>1. Answered \in SUBSET Nat
      BY DEF Answered, TypeOK, Entry
    <3> QED BY <1>16, <3>1 DEF Ask, TypeOK
  <2>2. CASE ~exists /\ watcher = "none"
    <3>1. Answer(c, {}) /\ watcher' = watcher
      BY <1>16, <2>2 DEF Ask
    <3>2. /\ pc' \in [Clients -> {"idle", "hit", "miss", "waitHit", "waitMiss", "done"}]
          /\ snap' \in [Clients -> SUBSET Entry] /\ said' \in [Clients -> SUBSET Entry]
          /\ woken' \in [Clients -> BOOLEAN]
      BY <3>1, AnswerTypes
    <3> QED BY <1>16, <2>1, <3>1, <3>2 DEF Ask, TypeOK, OneTask
  <2>3. CASE ~(~exists /\ watcher = "none")
    <3>1. /\ watcher' = IF watcher = "none" THEN "live" ELSE watcher
          /\ snap' = [snap EXCEPT ![c] = cache]
          /\ pc' = [pc EXCEPT ![c] = IF cache # {} THEN "hit" ELSE "miss"]
          /\ UNCHANGED <<said, woken>>
      BY <1>16, <2>3 DEF Ask
    <3>2. watcher' \in {"none", "live", "dead"} /\ snap' \in [Clients -> SUBSET Entry]
      BY <3>1 DEF TypeOK
    <3>3. pc' \in [Clients -> {"idle", "hit", "miss", "waitHit", "waitMiss", "done"}]
      BY <3>1 DEF TypeOK
    <3> QED BY <1>16, <2>1, <3>1, <3>2, <3>3 DEF Ask, TypeOK, OneTask
  <2> QED BY <2>2, <2>3
<1>17. ASSUME NEW c \in Clients, NEW es \in SUBSET Entry, Answer(c, es),
              UNCHANGED <<repo, watcher, owed, worker, cfg, shown, refresh, misses, clearing, left, floor>>
       PROVE  TypeOK' /\ OneTask'
  <2>1. /\ pc' \in [Clients -> {"idle", "hit", "miss", "waitHit", "waitMiss", "done"}]
        /\ snap' \in [Clients -> SUBSET Entry] /\ said' \in [Clients -> SUBSET Entry]
        /\ woken' \in [Clients -> BOOLEAN]
    BY <1>17, AnswerTypes
  <2> QED BY <1>17, <2>1 DEF TypeOK, OneTask
<1>18. ASSUME NEW c \in Clients PROVE snap[c] \in SUBSET Entry /\ cache \in SUBSET Entry
  BY DEF TypeOK
<1>19. ASSUME NEW c \in Clients, CheckRefreshing(c) PROVE TypeOK' /\ OneTask'
  <2>1. CASE refreshing
    <3>1. pc' \in [Clients -> {"idle", "hit", "miss", "waitHit", "waitMiss", "done"}]
      BY <1>19, <2>1 DEF CheckRefreshing, TypeOK
    <3> QED BY <1>19, <2>1, <3>1 DEF CheckRefreshing, TypeOK, OneTask
  <2>2. CASE ~refreshing
    BY <1>17, <1>18, <1>19, <2>2 DEF CheckRefreshing
  <2> QED BY <2>1, <2>2
<1>20. ASSUME NEW c \in Clients, SubscribeToMiss(c) PROVE TypeOK' /\ OneTask'
  <2>1. pc' \in [Clients -> {"idle", "hit", "miss", "waitHit", "waitMiss", "done"}]
    BY <1>20 DEF SubscribeToMiss, TypeOK
  <2>2. misses' \in Nat
    BY <1>20 DEF SubscribeToMiss, TypeOK
  <2> QED BY <1>20, <2>1, <2>2 DEF SubscribeToMiss, TypeOK, OneTask
<1>21. ASSUME NEW c \in Clients, WakeUp(c) \/ TimesOut(c) PROVE TypeOK' /\ OneTask'
  BY <1>17, <1>18, <1>21 DEF WakeUp, TimesOut
<1>22. CASE UNCHANGED vars
  BY <1>22 DEF vars, TypeOK, OneTask
<1> QED
  BY <1>1, <1>0, <1>2, <1>3, <1>4, <1>5, <1>6, <1>7, <1>8, <1>9, <1>f, <1>10, <1>11, <1>12, <1>13,
     <1>14, <1>15, <1>16, <1>19, <1>20, <1>21, <1>22
     DEF Next, Repository, RefreshStep, Signals, Connection


-----------------------------------------------------------------------------
(* The invariants *)

(* Between its first and last lock sections a refresh is registered, and   *)
(* everything cached is marked stale.                                      *)
Stages ==
  /\ refreshing <=> (Running("reading") \/ Running("read") \/ Running("failed"))
  /\ refreshing => \A e \in cache : e.stale

(* Changes the running refresh asks about, and all that are due: owed, in  *)
(* such a request, or lost.                                                *)
Asked == IF Len(tasks) = 1 THEN tasks[1].paths ELSE {}

Due == owed.paths \cup Asked \cup lost

(* A refresh asks the worker once. *)
Settled == Running("read") \/ Running("failed") \/ Running("ended") => tasks[1].paths = {}

(* Unless due, every change is among these. *)
Covers(ids) == 1..version \subseteq Due \cup ids

(* Unless due, every change is known to the worker, in what a refresh has  *)
(* read, and in what is cached as fresh.                                   *)
Current ==
  /\ Covers(Known)
  /\ Running("read") => Covers(tasks[1].has)
  /\ \A e \in cache : e.stale \/ Covers(e.has)

(* Read number n was before all that is still to be shown. *)
Below(n) ==
  /\ n <= reads
  /\ \A e \in cache : n <= e.read
  /\ Running("read") => n <= tasks[1].read

(* What was cached, what a refresh brings and the last read follow each    *)
(* other in that order, and what any client saw or must not see again is   *)
(* below them all.                                                         *)
Order ==
  /\ Running("read") => tasks[1].read <= reads
  /\ \A e \in cache : e.read <= reads /\ (Running("read") => e.read <= tasks[1].read)
  /\ \A c \in Clients : \A r \in floor[c] : Below(r)
  /\ \A c \in Clients : \A e \in snap[c] \cup said[c] :
       Below(e.read) /\ \A r \in floor[c] : r <= e.read
  /\ \A c \in Clients : pc[c] = "idle" => said[c] = {}

IInv == TypeOK /\ OneTask /\ FileShowsCache /\ Stages /\ Settled /\ Current /\ Order

-----------------------------------------------------------------------------
(* What becomes of what is cached *)

(* Everything a mark is put on is stale. *)
LEMMA StaleEntries ==
  ASSUME TypeOK, NEW er, cache' = {Stale(e, er) : e \in cache}
  PROVE  /\ \A e \in cache' : e.stale /\ e.cfg = cfg
         /\ \A e \in cache' : \E d \in cache : d.read = e.read
<1>1. \A e \in cache : e \in Entry
  BY DEF TypeOK
<1>2. \A e \in cache : Stale(e, er).stale /\ Stale(e, er).read = e.read /\ Stale(e, er).cfg = cfg
  BY <1>1 DEF Stale, Entry
<1> QED BY <1>2

(* What is rendered again keeps its contents and its mark. *)
LEMMA RerenderedEntries ==
  ASSUME TypeOK, cache' = {Rerender(e) : e \in cache}
  PROVE  /\ \A e \in cache' : \E d \in cache : d.has = e.has /\ d.read = e.read /\ d.stale = e.stale
         /\ \A e \in cache' : e.cfg = cfg + 1
<1>1. \A e \in cache : e \in Entry
  BY DEF TypeOK
<1>2. \A e \in cache : /\ Rerender(e).has = e.has /\ Rerender(e).read = e.read
                       /\ Rerender(e).stale = e.stale /\ Rerender(e).cfg = cfg + 1
  BY <1>1 DEF Rerender, Entry
<1> QED BY <1>2

-----------------------------------------------------------------------------
(* FileShowsCache: whatever is published goes to both places, rendered     *)
(* with the configuration of the moment.                                   *)

(* What is published is in both places. *)
LEMMA PublishShows ==
  ASSUME NEW es, Publish(es), \A e \in es : e.cfg = cfg'
  PROVE  FileShowsCache'
BY DEF Publish, FileShowsCache

(* Every step keeps the file in step with the cache. *)
LEMMA FileStep == TypeOK /\ FileShowsCache /\ [Next]_vars => FileShowsCache'
<1> SUFFICES ASSUME TypeOK, FileShowsCache, [Next]_vars PROVE FileShowsCache'
  OBVIOUS
<1> USE DEF repo, shown, handlers, clients, refresh
<1>1. CASE UNCHANGED <<cache, file, cfg, clearing>>
  BY <1>1 DEF FileShowsCache
<1>2. CASE cache' = {} \/ clearing'
  BY <1>2 DEF FileShowsCache
<1>3. CASE Repository \/ StartRefresh \/ DropMiss \/ ProcessDone
  BY <1>1, <1>3 DEF Repository, Edit, Overflow, DeleteRepo, RecreateRepo, StartRefresh, DropMiss, ProcessDone
<1>4. ASSUME NEW i \in DOMAIN tasks, RefreshStep(i) PROVE FileShowsCache'
  <2>1. CASE BeginRefresh(i)
    BY <2>1, PublishShows, StaleEntries DEF BeginRefresh, Publish
  <2>2. CASE ReadRepo(i) \/ FailToRead(i)
    BY <1>1, <2>2 DEF ReadRepo, FailToRead
  <2>3. CASE FinishOk(i)
    BY <2>3, PublishShows DEF FinishOk, Fresh
  <2>4. CASE FinishErr(i)
    BY <2>4, PublishShows, StaleEntries DEF FinishErr, Publish
  <2> QED BY <1>4, <2>1, <2>2, <2>3, <2>4 DEF RefreshStep
<1>5. CASE ReloadConfig
  BY <1>5, PublishShows, RerenderedEntries DEF ReloadConfig, Publish
<1>6. CASE HealthCheck \/ ClearFiles \/ ClearMemory \/ ExecRestart
  BY <1>2, <1>6 DEF HealthCheck, ClearFiles, ClearMemory, ExecRestart
<1>7. ASSUME NEW c \in Clients, Ask(c) \/ Connection(c) PROVE FileShowsCache'
  BY <1>1, <1>7 DEF Ask, Connection, CheckRefreshing, SubscribeToMiss, WakeUp, TimesOut
<1>8. CASE UNCHANGED vars
  BY <1>1, <1>8 DEF vars
<1> QED BY <1>3, <1>4, <1>5, <1>6, <1>7, <1>8 DEF Next, Signals

-----------------------------------------------------------------------------
(* Stages and Current: the steps of a refresh *)

(* What an answer brings is noted. *)
LEMMA AnswerComes ==
  ASSUME TypeOK, OneTask, NEW i \in DOMAIN tasks, ReadRepo(i)
  PROVE  /\ Running("reading") /\ Running("read")' /\ i = 1
         /\ tasks'[1].read = reads' /\ reads' = reads + 1 /\ tasks'[1].paths = {}
         /\ 1 \in DOMAIN tasks /\ Asked = tasks[1].paths
         /\ \/ known' = {tasks'[1].has} /\ Learn(tasks'[1].has, Known \cup tasks[1].paths)
            \/ known' = {} /\ Lose(Known \cup tasks[1].paths \cup tasks'[1].has)
<1>1. tasks \in Seq(Task) /\ version \in 0..MaxChanges /\ saved \in SUBSET Changes
      /\ vcs \in Kinds /\ reads \in Nat
  BY DEF TypeOK
<1>2. i = 1 /\ Len(tasks) = 1 /\ tasks[1] \in Task
  BY <1>1, TheTask
<1>3. PICK has \in Answers(tasks[i]) :
        /\ tasks' = [tasks EXCEPT ![i] =
                       [@ EXCEPT !.at = "read", !.paths = {}, !.has = has, !.read = reads + 1]]
        /\ \/ known' = {has} /\ Learn(has, Known \cup tasks[i].paths)
           \/ known' = {} /\ Lose(Known \cup tasks[i].paths \cup has)
  BY DEF ReadRepo
<1>4. has \in SUBSET Changes
  BY <1>1, <1>2, <1>3, KnownTypes, AnswersTypes
<1>5. tasks[i].at = "reading" /\ reads' = reads + 1
  BY DEF ReadRepo
<1>6. /\ Running("reading") /\ Running("read")'
      /\ tasks'[1].has = has /\ tasks'[1].read = reads + 1 /\ tasks'[1].paths = {}
  BY <1>1, <1>3, <1>4, <1>5, ReadMoves
<1>7. 1 \in DOMAIN tasks /\ Asked = tasks[1].paths
  BY <1>2 DEF Asked
<1> QED BY <1>2, <1>3, <1>5, <1>6, <1>7

(* Every step keeps the stages. *)
LEMMA StagesStep == TypeOK /\ OneTask /\ Stages /\ [Next]_vars => Stages'
<1> SUFFICES ASSUME TypeOK, OneTask, Stages, [Next]_vars PROVE Stages'
  OBVIOUS
<1> USE DEF repo, worker, shown, handlers, clients, refresh
<1>t. tasks \in Seq(Task) /\ owed \in Report /\ reads \in Nat
  BY DEF TypeOK
<1>e. ASSUME tasks' = <<>> PROVE \A a : ~Running(a)'
  BY <1>e DEF Running
<1>1. CASE UNCHANGED <<cache, tasks, refreshing>>
  BY <1>1 DEF Stages, Running
<1>2. CASE cache' = {} /\ UNCHANGED <<tasks, refreshing>>
  BY <1>2 DEF Stages, Running
<1>3. CASE Repository \/ DropMiss \/ HealthCheck \/ ClearFiles \/ ClearMemory
  BY <1>1, <1>2, <1>3 DEF Repository, Edit, Overflow, DeleteRepo, RecreateRepo, DropMiss, HealthCheck,
     ClearFiles, ClearMemory
<1>4. CASE StartRefresh
  <2>1. tasks = <<>> /\ Running("spawned")' /\ UNCHANGED <<cache, refreshing>>
    BY <1>4, <1>t, StartMoves DEF StartRefresh
  <2> QED BY <2>1 DEF Stages, Running
<1>5. CASE ProcessDone
  <2>1. tasks' = <<>> /\ Running("ended") /\ UNCHANGED <<cache, refreshing>>
    BY <1>5, <1>t, DoneMoves DEF ProcessDone
  <2> QED BY <2>1 DEF Stages, Running
<1>6. ASSUME NEW i \in DOMAIN tasks, BeginRefresh(i) PROVE Stages'
  <2>1. Running("reading")' /\ refreshing' /\ cache' = {Stale(e, FALSE) : e \in cache}
    BY <1>6, <1>t, BeginMoves DEF BeginRefresh, Publish
  <2>2. \A e \in cache' : e.stale
    BY <2>1, StaleEntries
  <2> QED BY <2>1, <2>2 DEF Stages
<1>7. ASSUME NEW i \in DOMAIN tasks, ReadRepo(i) \/ FailToRead(i) PROVE Stages'
  <2>1. Running("reading") /\ (Running("read")' \/ Running("failed")')
    BY <1>7, <1>t, AnswerComes, FailMoves
  <2> QED BY <1>7, <2>1 DEF ReadRepo, FailToRead, Stages
<1>8. ASSUME NEW i \in DOMAIN tasks, FinishOk(i) \/ FinishErr(i) PROVE Stages'
  <2>1. Running("ended")' /\ refreshing' = FALSE
    BY <1>8, <1>t, EndMoves DEF FinishOk, FinishErr
  <2> QED BY <2>1 DEF Stages, Running
<1>9. CASE ReloadConfig
  <2>1. cache' = {Rerender(e) : e \in cache} /\ UNCHANGED <<tasks, refreshing>>
    BY <1>9 DEF ReloadConfig, Publish
  <2>2. \A e \in cache' : \E d \in cache : d.stale = e.stale
    BY <2>1, RerenderedEntries
  <2> QED BY <2>1, <2>2 DEF Stages, Running
<1>10. CASE ExecRestart
  <2>1. tasks' = <<>> /\ refreshing' = FALSE
    BY <1>10 DEF ExecRestart
  <2> QED BY <2>1, <1>e DEF Stages
<1>11. ASSUME NEW c \in Clients, Ask(c) \/ Connection(c) PROVE Stages'
  BY <1>1, <1>11 DEF Ask, Connection, CheckRefreshing, SubscribeToMiss, WakeUp, TimesOut
<1>12. CASE UNCHANGED vars
  BY <1>1, <1>12 DEF vars
<1> QED BY <1>3, <1>4, <1>5, <1>6, <1>7, <1>8, <1>9, <1>10, <1>11, <1>12
        DEF Next, RefreshStep, Signals, Repository

(* What is asked is what the only task asks. *)
LEMMA AskedIs ==
  ASSUME TypeOK, OneTask
  PROVE  /\ Asked = UNION {tasks[i].paths : i \in DOMAIN tasks}
         /\ \A i \in DOMAIN tasks : Asked = tasks[i].paths
<1>1. tasks \in Seq(Task)
  BY DEF TypeOK
<1>2. CASE Len(tasks) = 1
  <2>1. DOMAIN tasks = {1}
    BY <1>1, <1>2
  <2>2. Asked = tasks[1].paths
    BY <1>2 DEF Asked
  <2>3. {tasks[i].paths : i \in DOMAIN tasks} = {tasks[1].paths}
    BY <2>1
  <2>4. UNION {tasks[1].paths} = tasks[1].paths
    OBVIOUS
  <2>5. Asked = UNION {tasks[i].paths : i \in DOMAIN tasks}
    BY <2>2, <2>3, <2>4, Zenon
  <2>6. \A i \in DOMAIN tasks : Asked = tasks[i].paths
    BY <2>1, <2>2
  <2> QED BY <2>5, <2>6, Zenon
<1>3. CASE Len(tasks) # 1
  <2>1. Len(tasks) \in Nat /\ DOMAIN tasks = 1..Len(tasks)
    BY <1>1
  <2>2. DOMAIN tasks = {}
    BY <1>3, <2>1 DEF OneTask
  <2>3. UNION {tasks[i].paths : i \in DOMAIN tasks} = {}
    BY <2>2
  <2> QED BY <1>3, <2>2, <2>3 DEF Asked
<1> QED BY <1>2, <1>3

(* Every step keeps it that a refresh asks once. *)
LEMMA SettledStep == TypeOK /\ OneTask /\ Settled /\ [Next]_vars => Settled'
<1> SUFFICES ASSUME TypeOK, OneTask, Settled, [Next]_vars PROVE Settled'
  OBVIOUS
<1> USE DEF repo, worker, shown, handlers, clients, refresh
<1>t. tasks \in Seq(Task) /\ owed \in Report
  BY DEF TypeOK
<1>0. CASE UNCHANGED tasks
  BY <1>0 DEF Settled, Running
<1>1. CASE Repository \/ DropMiss \/ HealthCheck \/ ReloadConfig \/ ClearFiles \/ ClearMemory
  BY <1>0, <1>1 DEF Repository, Edit, Overflow, DeleteRepo, RecreateRepo, DropMiss, HealthCheck,
     ReloadConfig, ClearFiles, ClearMemory
<1>2. CASE StartRefresh
  BY <1>2, <1>t, StartMoves DEF Settled, Running
<1>3. CASE ProcessDone \/ ExecRestart
  <2>1. tasks' = <<>>
    BY <1>3, <1>t, DoneMoves DEF ExecRestart
  <2> QED BY <2>1 DEF Settled, Running
<1>4. ASSUME NEW i \in DOMAIN tasks, RefreshStep(i) PROVE Settled'
  <2>1. CASE BeginRefresh(i)
    BY <1>t, <2>1, BeginMoves DEF Settled, Running
  <2>2. CASE ReadRepo(i)
    BY <2>2, AnswerComes DEF Settled
  <2>3. CASE FailToRead(i)
    BY <1>t, <2>3, FailMoves DEF Settled
  <2>4. CASE FinishOk(i) \/ FinishErr(i)
    BY <1>t, <2>4, EndMoves DEF Settled, FinishOk, FinishErr
  <2> QED BY <1>4, <2>1, <2>2, <2>3, <2>4 DEF RefreshStep
<1>5. ASSUME NEW c \in Clients, Ask(c) \/ Connection(c) PROVE Settled'
  BY <1>0, <1>5 DEF Ask, Connection, CheckRefreshing, SubscribeToMiss, WakeUp, TimesOut
<1>6. CASE UNCHANGED vars
  BY <1>0, <1>6 DEF vars
<1> QED BY <1>1, <1>2, <1>3, <1>4, <1>5, <1>6 DEF Next, Signals

(* What was due stays due, and new changes and what the worker forgets     *)
(* become so.                                                              *)
DueGrows ==
  /\ Due \subseteq Due'
  /\ 1..version' \subseteq 1..version \cup Due'
  /\ Known \subseteq Known' \cup Due'

(* Every step but an answer of the worker is like that. *)
LEMMA DueStep ==
  ASSUME TypeOK, OneTask, Settled, [Next]_vars, \A i \in DOMAIN tasks : ~ReadRepo(i)
  PROVE  DueGrows
<1> USE DEF repo, worker, shown, handlers, clients, refresh
<1>t. tasks \in Seq(Task) /\ version \in 0..MaxChanges /\ MaxChanges \in Nat /\ owed \in Report
  BY BoundsAssumption DEF TypeOK
<1>0. CASE UNCHANGED <<version, owed, known, lost, tasks>>
  BY <1>0 DEF DueGrows, Due, Asked, Known
<1>1. CASE Edit
  <2>1. PICK byCommand \in BOOLEAN : Changed({version'}, byCommand)
    BY <1>1 DEF Edit
  <2>2. version' = version + 1 /\ UNCHANGED <<tasks, known>>
    BY <1>1 DEF Edit
  <2>3. 1..version' = 1..version \cup {version'}
    BY <1>t, <2>2
  <2>4. owed'.paths \cup lost' = owed.paths \cup lost \cup {version'}
    BY <1>t, <2>1 DEF Changed, Lose, Report
  <2> QED BY <2>2, <2>3, <2>4 DEF DueGrows, Due, Asked, Known
<1>2. CASE Overflow
  <2>1. PICK ids \in SUBSET owed.paths : owed'.paths = owed.paths \ ids /\ Lose(ids)
    BY <1>2 DEF Overflow
  <2>2. UNCHANGED <<tasks, known, version>>
    BY <1>2 DEF Overflow
  <2> QED BY <2>1, <2>2 DEF DueGrows, Due, Asked, Known, Lose
<1>3. CASE DeleteRepo
  <2>1. owed'.paths = owed.paths \cup 1..version \/ owed' = owed
    BY <1>3, <1>t DEF DeleteRepo, Report
  <2>2. UNCHANGED <<tasks, known, version, lost>>
    BY <1>3 DEF DeleteRepo
  <2> QED BY <2>1, <2>2 DEF DueGrows, Due, Asked, Known
<1>4. CASE RecreateRepo
  <2>1. version' = version + 1 /\ UNCHANGED <<tasks, known, owed>> /\ Lose({version'})
    BY <1>4 DEF RecreateRepo
  <2>2. 1..version' = 1..version \cup {version'}
    BY <1>t, <2>1
  <2> QED BY <2>1, <2>2 DEF DueGrows, Due, Asked, Known, Lose
<1>5. CASE HealthCheck
  <2>1. UNCHANGED <<tasks, owed, version>>
    BY <1>5 DEF HealthCheck
  <2>2. (StateGoes /\ Lose(Known)) \/ UNCHANGED <<known, lost>>
    BY <1>5 DEF HealthCheck
  <2> QED BY <2>1, <2>2 DEF DueGrows, Due, Asked, Known, Lose
<1>6. CASE StartRefresh
  <2>1. Asked = {} /\ Asked' = tasks'[1].paths
    BY <1>6, <1>t, StartMoves DEF Asked, Running
  <2>2. \/ tasks'[1].paths = owed.paths /\ owed' = Nothing
        \/ tasks'[1].paths = {} /\ owed' = owed
    BY <1>6, <1>t, StartMoves
  <2>3. UNCHANGED <<version, known, lost>>
    BY <1>6 DEF StartRefresh
  <2> QED BY <2>1, <2>2, <2>3, NothingIsReport DEF DueGrows, Due, Known
<1>7. CASE ProcessDone
  <2>1. tasks' = <<>> /\ Running("ended") /\ UNCHANGED <<version, known, lost, owed>>
    BY <1>7, <1>t, DoneMoves DEF ProcessDone
  <2>2. Asked = {}
    BY <2>1 DEF Asked, Settled, Running
  <2> QED BY <2>1, <2>2 DEF DueGrows, Due, Known
<1>8. ASSUME NEW i \in DOMAIN tasks, BeginRefresh(i) PROVE DueGrows
  <2>1. UNCHANGED <<version, known, lost, owed>>
    BY <1>8 DEF BeginRefresh
  <2>2. Asked' = Asked
    BY <1>8, <1>t, BeginMoves DEF Asked, Running
  <2> QED BY <2>1, <2>2 DEF DueGrows, Due, Known
<1>9. ASSUME NEW i \in DOMAIN tasks, FailToRead(i) PROVE DueGrows
  <2>1. UNCHANGED <<version, owed>> /\ Asked = tasks[i].paths
    BY <1>9, AskedIs DEF FailToRead
  <2>2. (Lose(Asked) /\ UNCHANGED known) \/ (StateGoes /\ Lose(Known \cup Asked))
    BY <1>9, <2>1 DEF FailToRead
  <2> QED BY <2>1, <2>2 DEF DueGrows, Due, Known, Lose
<1>10. ASSUME NEW i \in DOMAIN tasks, FinishOk(i) \/ FinishErr(i) PROVE DueGrows
  <2>1. UNCHANGED <<version, known, lost, owed>> /\ tasks[i].at \in {"read", "failed"}
    BY <1>10 DEF FinishOk, FinishErr
  <2>2. Running("read") \/ Running("failed")
    BY <1>10, <1>t, <2>1, EndMoves DEF FinishOk, FinishErr
  <2>3. Asked = {}
    BY <2>2 DEF Settled, Asked, Running
  <2> QED BY <2>1, <2>3 DEF DueGrows, Due, Known
<1>11. CASE ExecRestart
  <2>1. version' = version /\ Lose(Known \cup owed.paths \cup Asked)
    BY <1>11, AskedIs DEF ExecRestart
  <2> QED BY <2>1 DEF DueGrows, Due, Lose
<1>12. CASE DropMiss \/ ReloadConfig \/ ClearFiles \/ ClearMemory
  BY <1>0, <1>12 DEF DropMiss, ReloadConfig, ClearFiles, ClearMemory
<1>13. ASSUME NEW c \in Clients, Ask(c) \/ Connection(c) PROVE DueGrows
  BY <1>0, <1>13 DEF Ask, Connection, CheckRefreshing, SubscribeToMiss, WakeUp, TimesOut
<1>14. CASE UNCHANGED vars
  BY <1>0, <1>14 DEF vars
<1> QED BY <1>1, <1>2, <1>3, <1>4, <1>5, <1>6, <1>7, <1>8, <1>9, <1>10, <1>11, <1>12, <1>13, <1>14
        DEF Next, RefreshStep, Signals, Repository

(* What is covered stays covered. *)
LEMMA CoversStep ==
  ASSUME DueGrows, NEW ids, Covers(ids)
  PROVE  Covers(ids)'
BY DEF DueGrows, Covers

(* A status that was cached before the step, and is what it was or marked; *)
(* and one that is what the refresh that ends has read.                    *)
WasCached(e) ==
  \E d \in cache : d.read = e.read /\ (e.stale \/ (d.has = e.has /\ d.stale = e.stale))

WasRead(e) ==
  Running("read") /\ ~Running("read")' /\ e.has = tasks[1].has /\ e.read = tasks[1].read

(* Every status in the cache after a step is one or the other. *)
LEMMA CachedStep ==
  ASSUME TypeOK, OneTask, [Next]_vars, NEW e \in cache'
  PROVE  WasCached(e) \/ WasRead(e)
<1> USE DEF repo, worker, shown, handlers, clients, refresh
<1>t. tasks \in Seq(Task)
  BY DEF TypeOK
<1>0. ASSUME cache' \in {cache, {}} PROVE WasCached(e)
  BY <1>0 DEF WasCached
<1>1. CASE Repository \/ StartRefresh \/ DropMiss \/ ProcessDone
  BY <1>0, <1>1 DEF Repository, Edit, Overflow, DeleteRepo, RecreateRepo, StartRefresh, DropMiss,
     ProcessDone
<1>2. ASSUME NEW i \in DOMAIN tasks, RefreshStep(i) PROVE WasCached(e) \/ WasRead(e)
  <2>1. CASE BeginRefresh(i) \/ FinishErr(i)
    BY <2>1, StaleEntries DEF BeginRefresh, FinishErr, Publish, WasCached
  <2>2. CASE ReadRepo(i) \/ FailToRead(i)
    BY <1>0, <2>2 DEF ReadRepo, FailToRead
  <2>3. CASE FinishOk(i)
    <3>1. i = 1 /\ Running("read") /\ Running("ended")'
      BY <1>t, <2>3, EndMoves DEF FinishOk
    <3>2. cache' = {Fresh(tasks[1])}
      BY <2>3, <3>1 DEF FinishOk, Publish
    <3> QED BY <3>1, <3>2 DEF Fresh, WasRead, Running
  <2> QED BY <1>2, <2>1, <2>2, <2>3 DEF RefreshStep
<1>3. CASE ReloadConfig
  BY <1>3, RerenderedEntries DEF ReloadConfig, Publish, WasCached
<1>4. CASE HealthCheck \/ ClearFiles \/ ClearMemory \/ ExecRestart
  BY <1>0, <1>4 DEF HealthCheck, ClearFiles, ClearMemory, ExecRestart
<1>5. ASSUME NEW c \in Clients, Ask(c) \/ Connection(c) PROVE WasCached(e)
  BY <1>0, <1>5 DEF Ask, Connection, CheckRefreshing, SubscribeToMiss, WakeUp, TimesOut
<1>6. CASE UNCHANGED vars
  BY <1>0, <1>6 DEF vars
<1> QED BY <1>1, <1>2, <1>3, <1>4, <1>5, <1>6 DEF Next, Signals

(* A refresh that has read was at it before the step, or reads now. *)
LEMMA ReadStep ==
  ASSUME TypeOK, OneTask, [Next]_vars, \A i \in DOMAIN tasks : ~ReadRepo(i), Running("read")'
  PROVE  Running("read") /\ tasks'[1].has = tasks[1].has /\ tasks'[1].read = tasks[1].read
<1> USE DEF repo, worker, shown, handlers, clients, refresh
<1>t. tasks \in Seq(Task) /\ owed \in Report
  BY DEF TypeOK
<1>0. CASE UNCHANGED tasks
  BY <1>0 DEF Running
<1>1. CASE Repository \/ DropMiss \/ HealthCheck \/ ReloadConfig \/ ClearFiles \/ ClearMemory
  BY <1>0, <1>1 DEF Repository, Edit, Overflow, DeleteRepo, RecreateRepo, DropMiss, HealthCheck,
     ReloadConfig, ClearFiles, ClearMemory
<1>2. CASE StartRefresh
  BY <1>2, <1>t, StartMoves DEF Running
<1>3. CASE ProcessDone \/ ExecRestart
  <2>1. tasks' = <<>>
    BY <1>3, <1>t, DoneMoves DEF ExecRestart
  <2> QED BY <2>1 DEF Running
<1>4. ASSUME NEW i \in DOMAIN tasks, RefreshStep(i) PROVE FALSE
  <2>1. ~BeginRefresh(i)
    BY <1>t, BeginMoves DEF Running
  <2>2. ~FailToRead(i)
    BY <1>t, FailMoves DEF Running
  <2>3. ~FinishOk(i) /\ ~FinishErr(i)
    BY <1>t, EndMoves DEF Running, FinishOk, FinishErr
  <2> QED BY <1>4, <2>1, <2>2, <2>3 DEF RefreshStep
<1>5. ASSUME NEW c \in Clients, Ask(c) \/ Connection(c) PROVE UNCHANGED tasks
  BY <1>5 DEF Ask, Connection, CheckRefreshing, SubscribeToMiss, WakeUp, TimesOut
<1>6. CASE UNCHANGED vars
  BY <1>0, <1>6 DEF vars
<1> QED BY <1>0, <1>1, <1>2, <1>3, <1>4, <1>5, <1>6 DEF Next, Signals

(* Every step keeps every change known, shown, or due. *)
LEMMA CurrentStep ==
  TypeOK /\ OneTask /\ Stages /\ Settled /\ Current /\ Stages' /\ [Next]_vars => Current'
<1> SUFFICES ASSUME TypeOK, OneTask, Stages, Settled, Current, Stages', [Next]_vars PROVE Current'
  OBVIOUS
<1>1. ASSUME NEW i \in DOMAIN tasks, ReadRepo(i) PROVE Current'
  <2>1. /\ Running("reading") /\ Running("read")' /\ Asked = tasks[1].paths
        /\ tasks'[1].paths = {}
        /\ \/ known' = {tasks'[1].has} /\ Learn(tasks'[1].has, Known \cup tasks[1].paths)
           \/ known' = {} /\ Lose(Known \cup tasks[1].paths \cup tasks'[1].has)
    BY <1>1, AnswerComes
  <2>2. UNCHANGED <<version, owed>>
    BY <1>1 DEF ReadRepo, repo
  <2>3. Covers(Known)
    BY DEF Current
  <2>4. lost \cup Known \cup Asked \subseteq lost' \cup Known'
    BY <2>1 DEF Known, Learn, Lose
  <2>5. lost \cup Known \cup Asked \subseteq lost' \cup tasks'[1].has
    BY <2>1 DEF Learn, Lose
  <2>6. Covers(Known)' /\ Covers(tasks[1].has)'
    BY <2>2, <2>3, <2>4, <2>5 DEF Covers, Due
  <2>7. \A e \in cache' : e.stale
    BY <2>1 DEF Stages
  <2> QED BY <2>6, <2>7 DEF Current
<1>2. ASSUME \A i \in DOMAIN tasks : ~ReadRepo(i) PROVE Current'
  <2>1. DueGrows
    BY <1>2, DueStep
  <2>2. Covers(Known)'
    BY <2>1 DEF Current, DueGrows, Covers
  <2>3. Running("read")' => Covers(tasks[1].has)'
    <3>1. ASSUME Running("read")' PROVE Running("read") /\ tasks'[1].has = tasks[1].has
      BY <1>2, <3>1, ReadStep
    <3> QED BY <2>1, <3>1 DEF Current, DueGrows, Covers
  <2>4. ASSUME NEW e \in cache', ~e.stale PROVE Covers(e.has)'
    <3>1. WasCached(e) \/ WasRead(e)
      BY <2>4, CachedStep
    <3>2. Covers(e.has)
      BY <2>4, <3>1 DEF Current, WasCached, WasRead
    <3> QED BY <2>1, <3>2 DEF DueGrows, Covers
  <2> QED BY <2>2, <2>3, <2>4 DEF Current
<1> QED BY <1>1, <1>2

-----------------------------------------------------------------------------
(* Order: how one step moves the numbers of the reads along.  They only    *)
(* grow; what is cached was cached before or is what the refresh read; and *)
(* what a refresh has read is what it read before or the last.             *)
NewerOnly == reads' \in Nat /\ reads <= reads'

CachedOrRead ==
  \A e \in cache' :
    \/ \E d \in cache : d.read = e.read
    \/ Running("read") /\ e.read = tasks[1].read /\ ~Running("read")'

ReadOrLast ==
  Running("read")' =>
    \/ Running("read") /\ tasks'[1].read = tasks[1].read
    \/ tasks'[1].read = reads'

(* Only the worker's answers are counted. *)
LEMMA ReadsStep ==
  ASSUME TypeOK, [Next]_vars
  PROVE  reads' = reads \/ \E i \in DOMAIN tasks : ReadRepo(i)
<1> USE DEF repo, worker, shown, handlers, clients, refresh
<1>1. CASE Repository \/ StartRefresh \/ DropMiss \/ ProcessDone \/ Signals
  BY <1>1 DEF Repository, Edit, Overflow, DeleteRepo, RecreateRepo, StartRefresh, DropMiss,
     ProcessDone, Signals, HealthCheck, ReloadConfig, ClearFiles, ClearMemory, ExecRestart
<1>2. ASSUME NEW i \in DOMAIN tasks, RefreshStep(i) PROVE ReadRepo(i) \/ reads' = reads
  BY <1>2 DEF RefreshStep, BeginRefresh, FailToRead, FinishOk, FinishErr
<1>3. ASSUME NEW c \in Clients, Ask(c) \/ Connection(c) PROVE reads' = reads
  BY <1>3 DEF Ask, Connection, CheckRefreshing, SubscribeToMiss, WakeUp, TimesOut
<1>4. CASE UNCHANGED vars
  BY <1>4 DEF vars
<1> QED BY <1>1, <1>2, <1>3, <1>4 DEF Next

(* Every step moves the reads along in that way. *)
LEMMA NumbersStep ==
  ASSUME TypeOK, OneTask, [Next]_vars
  PROVE  NewerOnly /\ CachedOrRead /\ ReadOrLast
<1>t. reads \in Nat
  BY DEF TypeOK
<1>1. CachedOrRead
  BY CachedStep DEF CachedOrRead, WasCached, WasRead
<1>2. ASSUME NEW i \in DOMAIN tasks, ReadRepo(i) PROVE NewerOnly /\ ReadOrLast
  <2>1. reads' = reads + 1 /\ tasks'[1].read = reads'
    BY <1>2, AnswerComes
  <2>2. NewerOnly
    BY <1>t, <2>1 DEF NewerOnly
  <2> QED BY <2>1, <2>2 DEF ReadOrLast
<1>3. ASSUME \A i \in DOMAIN tasks : ~ReadRepo(i) PROVE NewerOnly /\ ReadOrLast
  <2>1. reads' = reads
    BY <1>3, ReadsStep
  <2>2. ReadOrLast
    BY <1>3, ReadStep DEF ReadOrLast
  <2> QED BY <1>t, <2>1, <2>2 DEF NewerOnly
<1> QED BY <1>1, <1>2, <1>3

(* The first two parts of Order: the last read, the running refresh and    *)
(* the cache follow each other.                                            *)
Chain ==
  /\ Running("read") => tasks[1].read <= reads
  /\ \A e \in cache : e.read <= reads /\ (Running("read") => e.read <= tasks[1].read)

(* The numbers compared are numbers. *)
LEMMA NumberTypes ==
  ASSUME TypeOK, OneTask
  PROVE  /\ reads \in Nat /\ \A e \in cache : e.read \in Nat
         /\ Running("read") => tasks[1].read \in Nat
<1>1. reads \in Nat /\ \A e \in cache : e.read \in Nat
  BY DEF TypeOK, Entry
<1>2. ASSUME Running("read") PROVE tasks[1].read \in Nat
  <2>1. tasks \in Seq(Task) /\ 1 \in DOMAIN tasks
    BY <1>2 DEF Running, TypeOK
  <2>2. tasks[1] \in Task
    BY <2>1
  <2> QED BY <2>2 DEF Task
<1> QED BY <1>1, <1>2

(* Such a step keeps the chain. *)
LEMMA ChainStep ==
  ASSUME TypeOK, OneTask, TypeOK', OneTask', Chain, NewerOnly, CachedOrRead, ReadOrLast
  PROVE  Chain'
<1>1. reads \in Nat /\ \A e \in cache : e.read \in Nat
  BY NumberTypes
<1>2. Running("read") => tasks[1].read \in Nat
  BY NumberTypes
<1>3. (Running("read") => tasks[1].read <= reads)'
  BY <1>1, <1>2 DEF Chain, NewerOnly, ReadOrLast
<1>4. ASSUME NEW e \in cache'
      PROVE  e.read <= reads' /\ (Running("read")' => e.read <= tasks'[1].read)
  <2>1. CASE \E d \in cache : d.read = e.read
    BY <1>1, <1>2, <2>1 DEF Chain, NewerOnly, ReadOrLast
  <2>2. CASE Running("read") /\ e.read = tasks[1].read /\ ~Running("read")'
    BY <1>1, <1>2, <2>2 DEF Chain, NewerOnly
  <2> QED BY <1>4, <2>1, <2>2 DEF CachedOrRead
<1> QED BY <1>3, <1>4 DEF Chain

(* What was below everything stays below everything. *)
LEMMA BelowStep ==
  ASSUME TypeOK, OneTask, NewerOnly, CachedOrRead, ReadOrLast, NEW n \in Nat, Below(n)
  PROVE  Below(n)'
<1>1. reads \in Nat /\ \A e \in cache : e.read \in Nat
  BY NumberTypes
<1>2. Running("read") => tasks[1].read \in Nat
  BY NumberTypes
<1>3. n <= reads'
  BY <1>1 DEF NewerOnly, Below
<1>4. \A e \in cache' : n <= e.read
  BY DEF Below, CachedOrRead
<1>5. Running("read")' => n <= tasks'[1].read
  BY <1>3 DEF Below, ReadOrLast
<1> QED BY <1>3, <1>4, <1>5 DEF Below

(* What is cached is below everything, for there is only one entry. *)
LEMMA CachedBelow ==
  ASSUME TypeOK, OneTask, Chain, NEW e \in cache
  PROVE  Below(e.read) /\ e.read \in Nat
<1>1. \A d \in cache : d = e /\ d.read \in Nat
  BY NumberTypes DEF TypeOK
<1> QED BY <1>1 DEF Chain, Below

(* What a client saw or heard, and what it must not see again. *)
Seen(c) ==
  /\ \A r \in floor[c] : Below(r)
  /\ \A e \in snap[c] \cup said[c] : Below(e.read) /\ \A r \in floor[c] : r <= e.read
  /\ pc[c] = "idle" => said[c] = {}

(* Reads seen are numbers. *)
LEMMA SeenTypes ==
  ASSUME TypeOK, NEW c \in Clients
  PROVE  /\ floor[c] \in SUBSET Nat
         /\ snap[c] \in SUBSET Entry /\ said[c] \in SUBSET Entry
         /\ \A e \in Entry : e.read \in Nat
BY DEF TypeOK, Entry

(* A client that is left alone saw and heard what it did. *)
LEMMA SeenAlone ==
  ASSUME TypeOK, OneTask, NewerOnly, CachedOrRead, ReadOrLast, NEW c \in Clients, Seen(c),
         floor'[c] = floor[c], snap'[c] \in {snap[c], {}}, said'[c] = said[c],
         pc'[c] = "idle" => pc[c] = "idle"
  PROVE  Seen(c)'
<1>1. \A r \in floor'[c] : Below(r)'
  BY BelowStep, SeenTypes DEF Seen
<1>2. \A e \in snap'[c] \cup said'[c] : Below(e.read)' /\ \A r \in floor'[c] : r <= e.read
  <2> SUFFICES ASSUME NEW e \in snap'[c] \cup said'[c]
               PROVE  Below(e.read)' /\ \A r \in floor'[c] : r <= e.read
    OBVIOUS
  <2>1. e \in snap[c] \cup said[c]
    OBVIOUS
  <2>2. e.read \in Nat /\ Below(e.read) /\ \A r \in floor[c] : r <= e.read
    BY <2>1, SeenTypes DEF Seen
  <2> QED BY <2>2, BelowStep
<1> QED BY <1>1, <1>2 DEF Seen

(* A client that is answered hears what it saw, or what is cached. *)
LEMMA SeenAnswered ==
  ASSUME TypeOK, OneTask, Chain, NewerOnly, CachedOrRead, ReadOrLast,
         NEW c \in Clients, Seen(c), floor' = floor,
         NEW es \in {cache, snap[c]}, Answer(c, es)
  PROVE  Seen(c)'
<1>1. snap'[c] = {} /\ said'[c] = es /\ pc'[c] = "done"
  BY DEF Answer, TypeOK
<1>2. \A r \in floor'[c] : Below(r)'
  BY BelowStep, SeenTypes DEF Seen
<1>3. ASSUME NEW e \in es PROVE Below(e.read)' /\ \A r \in floor[c] : r <= e.read
  <2>1. CASE e \in snap[c]
    <3>1. e.read \in Nat /\ Below(e.read) /\ \A r \in floor[c] : r <= e.read
      BY <2>1, SeenTypes DEF Seen
    <3> QED BY <3>1, BelowStep
  <2>2. CASE e \in cache
    <3>1. e.read \in Nat /\ Below(e.read)
      BY <2>2, CachedBelow
    <3>2. \A r \in floor[c] : r <= e.read
      BY <2>2 DEF Seen, Below
    <3> QED BY <3>1, <3>2, BelowStep
  <2> QED BY <1>3, <2>1, <2>2
<1> QED BY <1>1, <1>2, <1>3 DEF Seen

(* A client that asks sees what is cached; all that anybody has heard is   *)
(* below that.                                                             *)
LEMMA SeenAsking ==
  ASSUME TypeOK, OneTask, Chain, NewerOnly, CachedOrRead, ReadOrLast,
         \A d \in Clients : Seen(d), NEW c \in Clients, Ask(c)
  PROVE  Seen(c)'
<1> USE DEF repo, worker, shown, handlers, clients, refresh
<1>1. floor'[c] = Answered /\ pc[c] = "idle"
  BY DEF Ask, TypeOK
<1>2. \A r \in Answered : r \in Nat /\ Below(r)
  BY SeenTypes DEF Answered, Seen
<1>3. \A r \in floor'[c] : Below(r)'
  BY <1>1, <1>2, BelowStep
<1>4. said'[c] = {} /\ snap'[c] \in {cache, {}}
  <2>1. CASE ~exists /\ watcher = "none"
    BY <2>1 DEF Ask, Answer, TypeOK
  <2>2. CASE ~(~exists /\ watcher = "none")
    <3>1. said'[c] = said[c] /\ snap'[c] = cache
      BY <2>2 DEF Ask, TypeOK
    <3> QED BY <1>1, <3>1 DEF Seen
  <2> QED BY <2>1, <2>2
<1>5. ASSUME NEW e \in cache PROVE Below(e.read)' /\ \A r \in floor'[c] : r <= e.read
  <2>1. Below(e.read)'
    BY CachedBelow, BelowStep
  <2>2. \A r \in floor'[c] : r <= e.read
    BY <1>1, <1>2 DEF Below
  <2> QED BY <2>1, <2>2
<1> QED BY <1>3, <1>4, <1>5 DEF Seen

(* Every step leaves every client with what it may have seen. *)
LEMMA SeenStep ==
  ASSUME TypeOK, OneTask, Chain, NewerOnly, CachedOrRead, ReadOrLast, [Next]_vars,
         \A c \in Clients : Seen(c)
  PROVE  \A c \in Clients : Seen(c)'
<1> SUFFICES ASSUME NEW c \in Clients PROVE Seen(c)'
  OBVIOUS
<1> USE DEF repo, worker, shown, handlers, clients, refresh
<1>t. pc \in [Clients -> {"idle", "hit", "miss", "waitHit", "waitMiss", "done"}]
      /\ snap \in [Clients -> SUBSET Entry] /\ said \in [Clients -> SUBSET Entry]
      /\ floor \in [Clients -> SUBSET Nat]
  BY DEF TypeOK
<1>0. CASE UNCHANGED handlers
  BY <1>0, SeenAlone
<1>1. CASE Repository \/ StartRefresh \/ DropMiss \/ ProcessDone
  BY <1>0, <1>1 DEF Repository, Edit, Overflow, DeleteRepo, RecreateRepo, StartRefresh, DropMiss, ProcessDone
<1>2. ASSUME NEW i \in DOMAIN tasks, RefreshStep(i) PROVE Seen(c)'
  BY <1>0, <1>2 DEF RefreshStep, BeginRefresh, ReadRepo, FailToRead, FinishOk, FinishErr
<1>3. CASE HealthCheck \/ ReloadConfig \/ ClearFiles \/ ClearMemory
  BY <1>0, <1>3 DEF HealthCheck, ReloadConfig, ClearFiles, ClearMemory
<1>4. CASE ExecRestart
  <2>1. snap'[c] = {} /\ UNCHANGED <<said, floor>> /\ (pc'[c] = "idle" => pc[c] = "idle")
    BY <1>4 DEF ExecRestart
  <2> QED BY <2>1, SeenAlone
<1>5. ASSUME NEW d \in Clients, NEW es \in {cache, snap[d]}, Answer(d, es), floor' = floor
      PROVE  Seen(c)'
  <2>1. CASE d = c
    BY <1>5, <2>1, SeenAnswered
  <2>2. CASE d # c
    <3>1. snap'[c] = snap[c] /\ said'[c] = said[c] /\ pc'[c] = pc[c]
      BY <1>5, <2>2, <1>t DEF Answer
    <3> QED BY <1>5, <3>1, SeenAlone
  <2> QED BY <2>1, <2>2
<1>6. ASSUME NEW d \in Clients, Ask(d) PROVE Seen(c)'
  <2>1. CASE d = c
    BY <1>6, <2>1, SeenAsking
  <2>2. CASE d # c
    <3>1. snap'[c] = snap[c] /\ said'[c] = said[c] /\ pc'[c] = pc[c] /\ floor'[c] = floor[c]
      BY <1>6, <2>2, <1>t DEF Ask, Answer
    <3> QED BY <3>1, SeenAlone
  <2> QED BY <2>1, <2>2
<1>7. ASSUME NEW d \in Clients, CheckRefreshing(d) PROVE Seen(c)'
  <2>1. CASE refreshing
    <3>1. UNCHANGED <<snap, said, floor>> /\ (pc'[c] = "idle" => pc[c] = "idle")
      BY <1>7, <2>1, <1>t DEF CheckRefreshing
    <3> QED BY <3>1, SeenAlone
  <2>2. CASE ~refreshing
    BY <1>5, <1>7, <2>2 DEF CheckRefreshing
  <2> QED BY <2>1, <2>2
<1>8. ASSUME NEW d \in Clients, SubscribeToMiss(d) PROVE Seen(c)'
  <2>1. UNCHANGED <<snap, said, floor>> /\ (pc'[c] = "idle" => pc[c] = "idle")
    BY <1>8, <1>t DEF SubscribeToMiss
  <2> QED BY <2>1, SeenAlone
<1>9. ASSUME NEW d \in Clients, WakeUp(d) \/ TimesOut(d) PROVE Seen(c)'
  BY <1>5, <1>9 DEF WakeUp, TimesOut
<1>10. CASE UNCHANGED vars
  BY <1>0, <1>10 DEF vars
<1> QED BY <1>1, <1>2, <1>3, <1>4, <1>6, <1>7, <1>8, <1>9, <1>10
        DEF Next, Signals, Connection

(* Every step keeps the order. *)
LEMMA OrderStep == TypeOK /\ OneTask /\ Order /\ TypeOK' /\ OneTask' /\ [Next]_vars => Order'
<1> SUFFICES ASSUME TypeOK, OneTask, Order, TypeOK', OneTask', [Next]_vars PROVE Order'
  OBVIOUS
<1>1. Chain /\ \A c \in Clients : Seen(c)
  BY DEF Order, Chain, Seen
<1>2. Chain' /\ \A c \in Clients : Seen(c)'
  BY <1>1, NumbersStep, ChainStep, SeenStep
<1> QED BY <1>2 DEF Order, Chain, Seen

-----------------------------------------------------------------------------
(* The invariants hold together: they start true, and every step keeps them. *)
LEMMA Inductive == Spec => []IInv
<1>1. Init => IInv
  <2> SUFFICES ASSUME Init PROVE IInv
    OBVIOUS
  <2>1. TypeOK /\ OneTask
    BY TypeInit
  <2>2. tasks = <<>> /\ cache = {} /\ refreshing = FALSE
        /\ \A c \in Clients : snap[c] = {} /\ said[c] = {} /\ floor[c] = {}
    BY DEF Init
  <2>3. FileShowsCache
    BY <2>2 DEF FileShowsCache
  <2>4. \A a : ~Running(a)
    BY <2>2 DEF Running
  <2>5. Stages /\ Settled /\ Order
    BY <2>2, <2>4 DEF Stages, Settled, Order
  <2>6. Current
    <3>1. version = 0 /\ 1..0 = {}
      BY DEF Init
    <3> QED BY <2>2, <2>4, <3>1 DEF Current, Covers
  <2> QED BY <2>1, <2>3, <2>5, <2>6 DEF IInv
<1>2. IInv /\ [Next]_vars => IInv'
  BY TypeStep, FileStep, StagesStep, SettledStep, CurrentStep, OrderStep DEF IInv
<1> QED BY <1>1, <1>2, PTL DEF Spec

(* Every variable has its type, and at most one status is cached and shown. *)
THEOREM TypeCorrect == Spec => []TypeOK
<1>1. IInv => TypeOK
  BY DEF IInv
<1> QED BY <1>1, Inductive, PTL

(* The file the hook reads shows what the daemon has cached, whichever of a *)
(* refresh, its error path, a reload, ctrl-c, the health check and a        *)
(* restart wrote last.                                                      *)
THEOREM FileIsCache == Spec => []FileShowsCache
<1>1. IInv => FileShowsCache
  BY DEF IInv
<1> QED BY <1>1, Inductive, PTL

(* A repository is in `refreshing`, and queries wait for it, exactly while *)
(* a refresh is between its first and last lock sections.                  *)
THEOREM WaitsOnlyForARefresh == Spec => []RefreshingMeansRunning
<1>1. IInv => RefreshingMeansRunning
  <2> SUFFICES ASSUME IInv PROVE RefreshingMeansRunning
    OBVIOUS
  <2>1. tasks \in Seq(Task) /\ OneTask
    BY DEF IInv, TypeOK
  <2>2. \A i \in DOMAIN tasks : i = 1 /\ Len(tasks) = 1
    BY <2>1, TheTask
  <2>3. \A a : Running(a) <=> \E i \in DOMAIN tasks : tasks[i].at = a
    <3>1. \A a : Running(a) => 1 \in DOMAIN tasks /\ tasks[1].at = a
      BY <2>1 DEF Running
    <3> QED BY <2>2, <3>1 DEF Running
  <2>4. refreshing <=> (Running("reading") \/ Running("read") \/ Running("failed"))
    BY DEF IInv, Stages
  <2> QED BY <2>3, <2>4 DEF RefreshingMeansRunning
<1> QED BY <1>1, Inductive, PTL

(* When nothing is owed and nothing runs, what is cached as fresh accounts *)
(* for every change but those that nobody knows of (lost): by Current,     *)
(* every other change is then among what the cached status accounts for.   *)
THEOREM QuietIsCurrent == Spec => []QuietMeansCurrent
<1>1. IInv => QuietMeansCurrent
  <2> SUFFICES ASSUME IInv, owed = Nothing, tasks = <<>>, NEW e \in cache, ~e.stale
               PROVE  1..version \ lost \subseteq e.has
    BY DEF QuietMeansCurrent
  <2>1. Covers(e.has)
    BY DEF IInv, Current
  <2>2. Due = lost
    BY NothingIsReport DEF Due, Asked
  <2> QED BY <2>1, <2>2 DEF Covers
<1> QED BY <1>1, Inductive, PTL

(* No client is answered from an earlier read of the repository than one   *)
(* that anybody was answered from before it asked.                         *)
THEOREM AnswersGoForward == Spec => []AnswersNeverGoBack
<1>1. IInv => AnswersNeverGoBack
  <2> SUFFICES ASSUME IInv, NEW c \in Clients, NEW e \in said[c], NEW r \in floor[c] PROVE e.read >= r
    BY DEF AnswersNeverGoBack
  <2>1. r <= e.read
    BY DEF IInv, Order
  <2>2. r \in Nat /\ e.read \in Nat
    BY SeenTypes DEF IInv
  <2> QED BY <2>1, <2>2
<1> QED BY <1>1, Inductive, PTL

-----------------------------------------------------------------------------
(* Wake-ups, in the default build and without a deletion or a ctrl-c       *)
(* (either may empty the cache while the Done of a refresh is on its way,  *)
(* and the QueryMiss of who asks then is dropped).                         *)

OneThreadUndisturbed == Threads = 1 /\ Mishaps \cap {"deletion", "ctrl-c"} = {}

Undisturbed == exists = TRUE /\ clearing = FALSE

Live == Running("spawned") \/ Running("reading") \/ Running("read") \/ Running("failed")

Woken(c) == Waiting(c) /\ ~woken[c] => failed \/ Live \/ (misses > 0 /\ cache = {})

(* A refresh that has ended left something to show or is known to have     *)
(* failed; between its sections a miss finds the cache as it was; and who  *)
(* waits unwoken has a refresh to wait for, or a QueryMiss in the channel  *)
(* of a repository with nothing cached, which no refresh can have served.  *)
Owing ==
  /\ Undisturbed
  /\ Running("ended") => failed \/ cache # {}
  /\ \A c \in Clients : pc[c] = "miss" => cache = {}
  /\ \A c \in Clients : Woken(c)

(* A task lives until it has ended. *)
LEMMA LiveOrEnded ==
  ASSUME tasks \in Seq(Task), OneTask, tasks # <<>>
  PROVE  Live \/ Running("ended")
<1>1. 1 \in DOMAIN tasks
  OBVIOUS
<1>2. tasks[1] \in Task /\ Len(tasks) = 1
  BY <1>1, TheTask
<1> QED BY <1>2 DEF Live, Running, Task

(* Nothing empties the cache but an exec. *)
LEMMA UndisturbedStep ==
  ASSUME OneThreadUndisturbed, TypeOK, Undisturbed, [Next]_vars
  PROVE  /\ Undisturbed'
         /\ ~DeleteRepo /\ ~HealthCheck /\ ~ClearFiles /\ ~ClearMemory
         /\ OtherRuns => \A c \in Clients : pc[c] # "miss"
<1> USE DEF repo, worker, shown, handlers, clients, refresh
<1>1. ~DeleteRepo /\ ~HealthCheck /\ ~ClearFiles /\ ~ClearMemory
  <2>1. ~DeleteRepo /\ ~ClearFiles
    BY DEF OneThreadUndisturbed, Mishap, DeleteRepo, ClearFiles
  <2>2. ~HealthCheck /\ ~ClearMemory
    BY DEF Undisturbed, HealthCheck, ClearMemory
  <2> QED BY <2>1, <2>2
<1>2. OtherRuns => \A c \in Clients : pc[c] # "miss"
  BY DEF OneThreadUndisturbed, OtherRuns, Midway
<1>3. UNCHANGED <<exists, clearing>> => Undisturbed'
  BY DEF Undisturbed
<1>4. ASSUME Edit \/ Overflow \/ RecreateRepo \/ StartRefresh \/ DropMiss \/ ProcessDone PROVE Undisturbed'
  BY <1>3, <1>4 DEF Edit, Overflow, RecreateRepo, StartRefresh, DropMiss, ProcessDone, Undisturbed
<1>5. ASSUME NEW i \in DOMAIN tasks, RefreshStep(i) PROVE Undisturbed'
  BY <1>3, <1>5 DEF RefreshStep, BeginRefresh, ReadRepo, FailToRead, FinishOk, FinishErr
<1>6. ASSUME ReloadConfig PROVE Undisturbed'
  BY <1>3, <1>6 DEF ReloadConfig
<1>7. ASSUME ExecRestart PROVE Undisturbed'
  BY <1>7 DEF ExecRestart, Undisturbed
<1>8. ASSUME NEW c \in Clients, Ask(c) \/ Connection(c) PROVE Undisturbed'
  BY <1>3, <1>8 DEF Ask, Connection, CheckRefreshing, SubscribeToMiss, WakeUp, TimesOut
<1>9. ASSUME UNCHANGED vars PROVE Undisturbed'
  BY <1>3, <1>9 DEF vars
<1> QED BY <1>1, <1>2, <1>4, <1>5, <1>6, <1>7, <1>8, <1>9 DEF Next, Signals, Repository

(* Publishing something wakes everyone; publishing nothing wakes no one.   *)
LEMMA PublishWakes ==
  ASSUME TypeOK, NEW es, Publish(es)
  PROVE  /\ es # {} => \A c \in Clients : Waiting(c) => woken'[c]
         /\ es = {} => \A c \in Clients : woken'[c] = woken[c]
BY DEF Publish, TypeOK

(* Every step leaves whoever waits with something to wake it. *)
LEMMA OwingStep ==
  ASSUME OneThreadUndisturbed, TypeOK, OneTask, Stages, Owing, [Next]_vars
  PROVE  Owing'
<1> USE DEF repo, worker, shown, handlers, clients, refresh
<1>t. tasks \in Seq(Task) /\ owed \in Report /\ misses \in Nat
      /\ pc \in [Clients -> {"idle", "hit", "miss", "waitHit", "waitMiss", "done"}]
      /\ woken \in [Clients -> BOOLEAN]
  BY DEF TypeOK
<1>u. /\ Undisturbed'
      /\ ~DeleteRepo /\ ~HealthCheck /\ ~ClearFiles /\ ~ClearMemory
      /\ OtherRuns => \A c \in Clients : pc[c] # "miss"
  BY UndisturbedStep DEF Owing
<1>0. CASE UNCHANGED <<tasks, cache, failed, misses, pc, woken>>
  BY <1>0, <1>u DEF Owing, Woken, Waiting, Live, Running
<1>1. CASE Edit \/ Overflow \/ RecreateRepo
  BY <1>0, <1>1 DEF Edit, Overflow, RecreateRepo
<1>2. CASE StartRefresh
  <2>1. Running("spawned")' /\ UNCHANGED <<cache, pc>>
    BY <1>2, <1>t, StartMoves DEF StartRefresh
  <2> QED BY <2>1, <1>u DEF Owing, Woken, Live, Running
<1>3. CASE DropMiss
  <2>1. UNCHANGED <<tasks, cache, failed, pc, woken>> /\ tasks # <<>>
    BY <1>3 DEF DropMiss
  <2>2. Live \/ Running("ended")
    BY <2>1, <1>t, LiveOrEnded
  <2>3. \A c \in Clients : Waiting(c) /\ ~woken[c] => failed \/ Live
    BY <2>2 DEF Owing, Woken
  <2> QED BY <2>1, <2>3, <1>u DEF Owing, Woken, Waiting, Live, Running
<1>4. CASE ProcessDone
  <2>1. tasks' = <<>> /\ Running("ended") /\ UNCHANGED <<cache, failed, pc, woken, misses>>
    BY <1>4, <1>t, DoneMoves DEF ProcessDone
  <2>2. ~Live
    BY <2>1 DEF Live, Running
  <2>3. ~Running("ended")'
    BY <2>1 DEF Running
  <2> QED BY <2>1, <2>2, <2>3, <1>u DEF Owing, Woken, Waiting
<1>5. ASSUME NEW i \in DOMAIN tasks, BeginRefresh(i) PROVE Owing'
  <2>1. Running("reading")' /\ UNCHANGED pc /\ OtherRuns
    BY <1>5, <1>t, BeginMoves DEF BeginRefresh
  <2> QED BY <2>1, <1>u DEF Owing, Woken, Live, Running
<1>6. ASSUME NEW i \in DOMAIN tasks, ReadRepo(i) \/ FailToRead(i) PROVE Owing'
  <2>1. UNCHANGED <<pc, cache>> /\ (Running("read")' \/ Running("failed")')
    BY <1>6, <1>t, AnswerComes, FailMoves DEF ReadRepo, FailToRead
  <2> QED BY <2>1, <1>u DEF Owing, Woken, Live, Running
<1>7. ASSUME NEW i \in DOMAIN tasks, FinishOk(i) PROVE Owing'
  <2>1. Publish({Fresh(tasks[i])}) /\ UNCHANGED pc /\ OtherRuns
    BY <1>7 DEF FinishOk
  <2>2. cache' # {} /\ \A c \in Clients : Waiting(c) => woken'[c]
    BY <2>1, PublishWakes DEF Publish
  <2> QED BY <2>1, <2>2, <1>u DEF Owing, Woken, Waiting
<1>8. ASSUME NEW i \in DOMAIN tasks, FinishErr(i) PROVE Owing'
  <2>1. UNCHANGED pc /\ OtherRuns /\ failed' = (cache = {})
    BY <1>8 DEF FinishErr
  <2>2. CASE cache = {}
    BY <2>1, <2>2, <1>u DEF Owing, Woken, Waiting
  <2>3. CASE cache # {}
    <3>1. cache' # {} /\ \A c \in Clients : Waiting(c) => woken'[c]
      BY <1>8, <2>3, PublishWakes DEF FinishErr, Publish
    <3> QED BY <2>1, <3>1, <1>u DEF Owing, Woken, Waiting
  <2> QED BY <2>2, <2>3
<1>9. CASE ReloadConfig
  <2>1. UNCHANGED <<pc, tasks, failed, misses>> /\ OtherRuns /\ cache' = {Rerender(e) : e \in cache}
        /\ Publish({Rerender(e) : e \in cache})
    BY <1>9 DEF ReloadConfig, Publish
  <2>2. CASE cache = {}
    <3>1. cache' = {} /\ \A c \in Clients : woken'[c] = woken[c]
      BY <2>1, <2>2, PublishWakes
    <3> QED BY <2>1, <2>2, <3>1, <1>u DEF Owing, Woken, Waiting, Live, Running
  <2>3. CASE cache # {}
    <3>1. cache' # {} /\ \A c \in Clients : Waiting(c) => woken'[c]
      BY <2>1, <2>3, PublishWakes
    <3> QED BY <2>1, <3>1, <1>u DEF Owing, Woken, Waiting
  <2> QED BY <2>2, <2>3
<1>10. CASE ExecRestart
  <2>1. tasks' = <<>> /\ \A c \in Clients : pc'[c] \in {"idle", "done"}
    BY <1>10 DEF ExecRestart
  <2> QED BY <2>1, <1>u DEF Owing, Woken, Waiting, Running
<1>11. ASSUME NEW c \in Clients, Ask(c) PROVE Owing'
  <2>1. UNCHANGED <<tasks, cache, failed, misses>> /\ OtherRuns
    BY <1>11 DEF Ask
  <2>2. \A d \in Clients \ {c} : pc'[d] = pc[d] /\ woken'[d] = woken[d]
    BY <1>11, <1>t DEF Ask, Answer
  <2>3. pc'[c] \in {"hit", "done"} \/ (pc'[c] = "miss" /\ cache = {})
    BY <1>11, <1>t DEF Ask, Answer
  <2> QED BY <2>1, <2>2, <2>3, <1>u DEF Owing, Woken, Waiting, Live, Running
<1>12. ASSUME NEW c \in Clients, NEW es, Answer(c, es), UNCHANGED <<tasks, cache, failed, misses>>
       PROVE  Owing'
  <2>1. \A d \in Clients \ {c} : pc'[d] = pc[d] /\ woken'[d] = woken[d]
    BY <1>12, <1>t DEF Answer
  <2>2. pc'[c] = "done"
    BY <1>12, <1>t DEF Answer
  <2> QED BY <1>12, <2>1, <2>2, <1>u DEF Owing, Woken, Waiting, Live, Running
<1>13. ASSUME NEW c \in Clients, CheckRefreshing(c) PROVE Owing'
  <2>1. UNCHANGED <<tasks, cache, failed, misses>>
    BY <1>13 DEF CheckRefreshing
  <2>2. CASE refreshing
    <3>1. Live
      BY <2>2 DEF Stages, Live
    <3>2. Live'
      BY <2>1, <3>1 DEF Live, Running
    <3>3. \A d \in Clients : pc'[d] = pc[d] \/ pc'[d] = "waitHit"
      BY <1>13, <2>2, <1>t DEF CheckRefreshing
    <3> QED BY <2>1, <3>2, <3>3, <1>u DEF Owing, Woken, Running
  <2>3. CASE ~refreshing
    BY <1>12, <1>13, <2>1, <2>3 DEF CheckRefreshing
  <2> QED BY <2>2, <2>3
<1>14. ASSUME NEW c \in Clients, SubscribeToMiss(c) PROVE Owing'
  <2>1. UNCHANGED <<tasks, cache, failed, woken>> /\ misses' > 0
    BY <1>14, <1>t DEF SubscribeToMiss
  <2>2. cache = {}
    BY <1>14 DEF SubscribeToMiss, Owing
  <2>3. \A d \in Clients : pc'[d] = pc[d] \/ pc'[d] = "waitMiss"
    BY <1>14, <1>t DEF SubscribeToMiss
  <2> QED BY <2>1, <2>2, <2>3, <1>u DEF Owing, Woken, Running
<1>15. ASSUME NEW c \in Clients, WakeUp(c) \/ TimesOut(c) PROVE Owing'
  BY <1>12, <1>15 DEF WakeUp, TimesOut
<1>16. CASE UNCHANGED vars
  BY <1>0, <1>16 DEF vars
<1> QED BY <1>u, <1>1, <1>2, <1>3, <1>4, <1>5, <1>6, <1>7, <1>8, <1>9, <1>10, <1>11, <1>13,
           <1>14, <1>15, <1>16 DEF Next, RefreshStep, Signals, Connection, Repository

(* With one runtime thread, and no ctrl-c or deletion, nobody waits for a  *)
(* refresh that will not come: a QueryMiss dropped because a refresh is in *)
(* flight is dropped only when that refresh will wake the client.          *)
THEOREM WaitersAreWoken ==
  ASSUME OneThreadUndisturbed
  PROVE  Spec => []NoLostWakeup
<1>1. Init => Owing
  <2> SUFFICES ASSUME Init PROVE Owing
    OBVIOUS
  <2>1. tasks = <<>> /\ cache = {} /\ pc = [c \in Clients |-> "idle"] /\ exists = TRUE
        /\ clearing = FALSE
    BY DEF Init
  <2> QED BY <2>1 DEF Owing, Undisturbed, Woken, Waiting, Running
<1>2. IInv /\ Owing /\ [Next]_vars => Owing'
  BY OwingStep DEF IInv
<1>3. IInv /\ Owing => NoLostWakeup
  <2> SUFFICES ASSUME IInv, Owing, NEW c \in Clients, Waiting(c), ~woken[c]
               PROVE  misses > 0 \/ failed \/ \E i \in DOMAIN tasks : tasks[i].at # "ended"
    BY DEF NoLostWakeup
  <2>1. CASE Live
    <3>1. tasks \in Seq(Task) /\ Len(tasks) = 1 /\ tasks[1].at # "ended"
      BY <2>1 DEF Live, Running, IInv, TypeOK
    <3>2. 1 \in DOMAIN tasks
      BY <3>1
    <3> QED BY <3>1, <3>2
  <2> QED BY <2>1 DEF Owing, Woken
<1> QED BY <1>1, <1>2, <1>3, Inductive, PTL DEF Spec

=============================================================================
