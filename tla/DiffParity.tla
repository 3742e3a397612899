------------------------------ MODULE DiffParity ------------------------------
(***************************************************************************)
(* The worker's diff engine against `jj diff --stat`, over histories of    *)
(* edits, jj commands and lost events: the question src/diff_props.rs asks *)
(* of random sequences against a real jj, asked here of every sequence.    *)
(*                                                                         *)
(* As in that harness an action is a change of the repository, followed by *)
(* the delivery of its events: changed files as an IncrementalUpdate, an   *)
(* operation as a ValidateAndRefresh with the files it rewrote.  Unlike it *)
(* nothing snapshots the working copy in between unless a command does, so *)
(* that several batches of edits meet one base.                            *)
(***************************************************************************)
EXTENDS JjDiffEngine

CONSTANTS
  InitTrees,     \* trees a history starts from
  RemoteTrees,   \* trees a fetch may bring
  MaxEdits,      \* bound: batches of edits
  MaxOps         \* bound: operations

ASSUME ParityAssumption ==
  /\ InitTrees \subseteq Tree /\ RemoteTrees \subseteq Tree
  /\ MaxEdits \in Nat /\ MaxOps \in Nat

VARIABLES
  store,     \* what the current operation has of @: its parents and its tree
  prior,     \* what the operation before it had
  wc,        \* the tree that was last checked out or snapshotted
  disk,      \* the files
  worker,    \* the worker's JjRepoState
  dropNext,  \* the next batch of events will be lost
  lost,      \* events were lost since the last operation
  edits, ops

vars == <<store, prior, wc, disk, worker, dropNext, lost, edits, ops>>

(* "at" stands for the identity of the parent commits. *)
Store == [parents : UNION {[1..n -> Tree] : n \in 1..2}, merged : Tree, commit : Tree, at : Nat]

(* jj refuses to work while its tree was rewritten from another workspace. *)
Stale == wc # store.commit

-----------------------------------------------------------------------------
(* Commands of jj *)
Snapshotted == SnapshotTree(store.commit, disk)

(* Files that differ between the trees are written; one that is in the way *)
(* of a new file is left alone.                                            *)
CheckedOut(from, to) ==
  [p \in Paths |->
     IF from[p] = to[p] \/ (from[p] = Absent /\ disk[p] # Absent) THEN disk[p]
     ELSE IF to[p] = Absent THEN Absent ELSE Checkout[to[p]]]

InTheWay(from, to) ==
  \E p \in Paths : from[p] = Absent /\ to[p] # Absent /\ disk[p] # Absent

(* Sides that both differ from their base conflict; gix sees the first.    *)
Clean(base, x, y) == x = y \/ x = base \/ y = base

Mergeable(base, x, y) ==
  \A p \in Paths : Clean(base[p], x[p], y[p]) \/ \E c \in Conflict : GixView[c] = x[p]

Merge3(base, x, y) ==
  [p \in Paths |->
     IF x[p] = y[p] \/ y[p] = base[p] THEN x[p]
     ELSE IF x[p] = base[p] THEN y[p]
     ELSE CHOOSE c \in Conflict : GixView[c] = x[p]]

Child(parents, merged, commit) ==
  [parents |-> parents, merged |-> merged, commit |-> commit, at |-> ops + 1]

SameParents(commit) == [store EXCEPT !.commit = commit]

JjDescribe == SameParents(Snapshotted)
JjNew      == Child(<<Snapshotted>>, Snapshotted, Snapshotted)
JjAbandon  == SameParents(store.merged)
JjRestoreFile(p) == SameParents([Snapshotted EXCEPT ![p] = store.merged[p]])

JjSplit(p) ==
  LET carved == [store.merged EXCEPT ![p] = Snapshotted[p]]
  IN  Child(<<carved>>, carved, Snapshotted)

JjRebase(onto) == Child(<<onto>>, onto, Merge3(store.merged, Snapshotted, onto))

JjNewMerge(other) ==
  LET merged == Merge3(prior.merged, Snapshotted, other)
  IN  Child(<<Snapshotted, other>>, merged, merged)

JjNewOn(remote) == Child(<<remote>>, remote, remote)

Commands ==
  {JjDescribe, JjNew, JjAbandon, prior}
    \cup {JjRestoreFile(p) : p \in Paths} \cup {JjSplit(p) : p \in Paths}
    \cup {JjRebase(t) : t \in {u \in {prior.commit} : Mergeable(store.merged, Snapshotted, u)}}
    \cup {JjNewMerge(t) : t \in {u \in {prior.commit} : Mergeable(prior.merged, Snapshotted, u)}}
    \cup {JjNewOn(t) : t \in RemoteTrees}

-----------------------------------------------------------------------------
(* What the worker makes of what it is told *)
ChangedPaths(before, after) == SelectSeq(PathOrder, LAMBDA p : before[p] # after[p])

(* A batch, and whether it came over a pairing: one the overlay made or    *)
(* changed, or, under a merge, any of the last full refresh.               *)
Paired(st, p) ==
  \/ From(st.base[p]) # Absent \/ From(st.overlay[p]) # Absent
  \/ RenameTargets(st, p) # {}
  \/ st.overlay[p] = Same /\ disk[p] = Absent /\ st.merged[p] # Absent

OverPaired(st) ==
  \/ \E p \in Paths : st.overlay[p] # Unset /\ Paired(st, p)
  \/ Len(st.parents) > 1 /\ (st.dropped # {} \/ \E p \in Paths : From(st.base[p]) # Absent)

Batch(w, files, changed) ==
  [w EXCEPT !.st = apply_incremental_paths(@, files, changed),
            !.over = @ \/ (changed # <<>> /\ OverPaired(w.st))]

(* ValidateAndRefresh: entries thought dirty are read again if the trees   *)
(* are as they were, else all is rebuilt from the store.                   *)
Validate(new, files, changed) ==
  LET dirty == {p \in Paths : worker.st.overlay[p] # Unset}
      kept  == {Batch(worker, files, q) : q \in SetToSeqs(dirty)}
      fresh == {[st |-> s, at |-> new.at, over |-> FALSE] :
                  s \in FullStatus(new.parents, new.merged, new.commit)}
  IN  {Batch(w, files, changed) :
         w \in IF new.at = worker.at /\ new.commit = worker.st.commit THEN kept ELSE fresh}

Init ==
  /\ \E t \in InitTrees :
       /\ store = [parents |-> <<t>>, merged |-> t, commit |-> t, at |-> 0]
       /\ wc = t
       /\ disk = OnDisk(t)
       /\ \E s \in FullStatus(<<t>>, t, t) : worker = [st |-> s, at |-> 0, over |-> FALSE]
  /\ prior = store
  /\ dropNext = FALSE /\ lost = FALSE /\ edits = 0 /\ ops = 0

(* deliver_file_events, unless the batch is lost *)
Edit(files) ==
  /\ edits < MaxEdits /\ files # disk
  /\ edits' = edits + 1
  /\ disk' = files
  /\ dropNext' = FALSE
  /\ lost' = (lost \/ dropNext)
  /\ worker' = IF dropNext THEN worker ELSE Batch(worker, files, ChangedPaths(disk, files))
  /\ UNCHANGED <<store, prior, wc, ops>>

Write      == \E p \in Paths : \E v \in Resolved : Edit([disk EXCEPT ![p] = v])
Delete     == \E p \in Paths : disk[p] # Absent /\ Edit([disk EXCEPT ![p] = Absent])
RenameFile == \E p, q \in Paths : disk[p] # Absent /\ p # q
                                  /\ Edit([disk EXCEPT ![p] = Absent, ![q] = disk[p]])

DropPendingEvents ==
  /\ ~dropNext
  /\ dropNext' = TRUE
  /\ UNCHANGED <<store, prior, wc, disk, worker, lost, edits, ops>>

(* run_jj_op: the command, and the delivery of its operation.  What is on   *)
(* disk in the way of a checkout is an edit nobody has reported.           *)
Operation(new, from) ==
  LET files == CheckedOut(from, new.commit) IN
  /\ ops < MaxOps
  /\ ops' = ops + 1
  /\ store' = new
  /\ prior' = [store EXCEPT !.commit = IF Stale THEN @ ELSE Snapshotted]
  /\ disk' = files
  /\ dropNext' = (dropNext /\ files = disk)
  /\ lost' = ((dropNext /\ files # disk) \/ InTheWay(from, new.commit))
  /\ worker' \in Validate(new, files, IF dropNext THEN <<>> ELSE ChangedPaths(disk, files))
  /\ UNCHANGED edits

JjCommand ==
  /\ ~Stale
  /\ \E new \in Commands :
       /\ Operation(new, Snapshotted)
       /\ wc' = new.commit

(* The other workspace rewrites @, and jj recovers from it. *)
RewriteWatchedWsAncestor ==
  /\ ~Stale
  /\ \E p \in Paths, v \in Resolved \cup {Absent} :
       /\ v # store.commit[p]
       /\ LET new == SameParents([store.commit EXCEPT ![p] = v])
          IN  Operation(new, new.commit)
  /\ UNCHANGED wc

WorkspaceUpdateStale ==
  /\ Stale
  /\ Operation(store, SnapshotTree(wc, disk))
  /\ wc' = store.commit

Next ==
  \/ Write \/ Delete \/ RenameFile
  \/ DropPendingEvents
  \/ JjCommand
  \/ RewriteWatchedWsAncestor \/ WorkspaceUpdateStale

Spec == Init /\ [][Next]_vars

-----------------------------------------------------------------------------
(* The worker's numbers are among those jj may print of the repository as  *)
(* it is, unless jj would refuse to or events have been lost.              *)
Parity ==
  ~Stale /\ ~lost =>
    current_status(worker.st) \in DiffStats(store.parents, store.merged, Snapshotted)

(* Under a merge gix may find a copy by the diff from one parent, pair     *)
(* files that are unchanged in the diff from the merged parents, or pair a *)
(* file with one by one parent and with another by the other.              *)
PairedAcrossMerge ==
  /\ Len(store.parents) > 1
  /\ \E r \in GixRecords(store.parents, Snapshotted) :
       LET pairs == UNION Range(r) IN
       \E x \in pairs :
         \/ Snapshotted[x[1]] # Absent
         \/ store.merged[x[1]] = Absent
         \/ store.merged[x[2]] = Snapshotted[x[2]]
         \/ \E y \in pairs \ {x} : x[1] = y[1] \/ x[2] = y[2]

(* An ignored file that jj has stopped tracking is back on disk. *)
BackButIgnored ==
  \E p \in Ignored : store.merged[p] # Absent /\ disk[p] # Absent /\ Snapshotted[p] = Absent

(* A pairing that gix would not make any more, though its target had no    *)
(* event since, or because it now has a better one for either file.        *)
PairsNow == UNION {UNION Range(r) : r \in GixRecords(store.parents, Snapshotted)}

PairingFaded ==
  \E t \in Paths : LET s == From(Effective(worker.st, NothingStaged, t)) IN
    /\ s # Absent /\ <<s, t>> \notin PairsNow
    /\ worker.st.overlay[t] = Unset \/ \E x \in PairsNow : x[1] = s \/ x[2] = t

(* The worker's counts are those of `jj diff --stat` after every batch of  *)
(* edits and every operation, and after the first operation that follows   *)
(* lost events: run_sequence's claim, without a snapshot after each        *)
(* action.  Not once a batch came over files the worker had paired itself  *)
(* (`over'), nor while a file is paired across both sides of a merge, an   *)
(* ignored file that a merge brought back is gone again, or gix would      *)
(* pair anew what the overlay holds.                                       *)
MatchesJjDiff == ~worker.over /\ ~PairedAcrossMerge /\ ~BackButIgnored /\ ~PairingFaded => Parity

(* The same with no exception while nothing but edits has happened: a file *)
(* that was renamed and is then edited is still shown as renamed.          *)
EditedRenameMatches == ops = 0 => Parity
=============================================================================
