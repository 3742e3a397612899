------------------------------ MODULE JjWorker ------------------------------
(***************************************************************************)
(* The worker of one jj repository (repo_worker_loop of src/jj.rs).  It    *)
(* never snapshots the working copy: a status is the diff of two trees of  *)
(* the store, the working-copy commit against its parents, overlaid with   *)
(* diffs of the files the watcher named, read from disk.  The store        *)
(* changes by operations (a jj command, here or in another workspace); the *)
(* disk by editors, and by the commands that update the working copy.      *)
(*                                                                         *)
(* How one file is diffed (conflicts, renames, ignore rules, executable    *)
(* bits) is abstracted to the pair of its contents; parent commit ids,     *)
(* which matter to renames only, and the retained workspace loader, which  *)
(* is dropped and retried without a trace, are left out.                   *)
(***************************************************************************)
EXTENDS Naturals, FiniteSets

CONSTANTS
  Files,
  Contents,      \* of a file; 0 when it does not exist
  MaxEdits,      \* bound: edits
  MaxOps,        \* bound: operations
  MaxOverflows   \* bound: overflows of the watcher's event queue

ASSUME ContentsAssumption == Contents \subseteq Nat /\ 0 \in Contents
ASSUME BoundsAssumption == {MaxEdits, MaxOps, MaxOverflows} \subseteq Nat

VARIABLES
  parent,     \* tree of @'s parents
  wc,         \* tree of @: the last snapshot
  disk,       \* the working copy
  op,         \* the operation at the head of the log (change, bookmarks, ...)
  edits,      \* edits made
  overflows,  \* overflows that happened
  pending,    \* PendingRefresh of the repository: what was reported, not taken
  retained,   \* the worker's JjRepoState, if it has one
  kind,       \* request being answered, or "none"
  stage,      \* of the request: "load", "apply" (and reply)
  paths,      \* changed_paths of the request
  left,       \* files the request has yet to diff
  draft,      \* the state as the request leaves it
  status,     \* RepoStatus of the last reply; none before the first
  stale,      \* the last refresh failed: the daemon shows its status as stale
  lost        \* history: a failed refresh had taken a report, not made up for

store == <<parent, wc, op>>
repo  == <<store, disk, edits, overflows>>
job   == <<kind, stage, paths, left, draft>>
shown == <<status, stale>>

vars == <<repo, pending, retained, job, shown, lost>>

-----------------------------------------------------------------------------
Tree  == [Files -> Contents]
Empty == [f \in Files |-> 0]

None == <<>>
FileDiff == {None} \cup Contents \X Contents
Delta(a, b) == [f \in Files |-> IF a[f] = b[f] THEN None ELSE <<a[f], b[f]>>]

NoOverlay == [f \in {} |-> None]
Overlays  == UNION {[S -> FileDiff] : S \in SUBSET Files}

JjRepoState == [parent : Tree, wc : Tree, op : 0..MaxOps,
                base : [Files -> FileDiff], overlay : Overlays]

RepoStatus == [op : 0..MaxOps, diff : [Files -> FileDiff]]

current_status(s) ==
  [op |-> s.op,
   diff |-> [f \in Files |-> IF f \in DOMAIN s.overlay THEN s.overlay[f] ELSE s.base[f]]]

(* Mutant: metadata is read of one operation, trees of the one before. *)
BuiltAhead == [parent |-> parent, wc |-> wc, op |-> op + 1,
               base |-> Delta(parent, wc), overlay |-> NoOverlay]

(* compute_jj_full_status: operations are immutable, so one load reads all *)
Built == [parent |-> parent, wc |-> wc, op |-> op,
          base |-> Delta(parent, wc), overlay |-> NoOverlay]

Blank == [parent |-> Empty, wc |-> Empty, op |-> 0,
          base |-> Delta(Empty, Empty), overlay |-> NoOverlay]

Nothing == [paths |-> {}, hint |-> FALSE, rescan |-> FALSE]

Init ==
  /\ parent = Empty /\ wc \in Tree /\ disk = wc
  /\ op = 0 /\ edits = 0 /\ overflows = 0
  /\ pending = Nothing
  /\ retained = {}
  /\ kind = "none" /\ stage = "load" /\ paths = {} /\ left = {} /\ draft = Blank
  /\ status = {} /\ stale = FALSE
  /\ lost = FALSE

-----------------------------------------------------------------------------
(* Events: named files, a change of op_heads (always HeadMayHaveChanged),  *)
(* or both; an overflow loses them and asks for a rescan.                  *)
Merged(S, h) == [paths |-> pending.paths \cup S, hint |-> pending.hint \/ h, rescan |-> pending.rescan]

Report(S, h) ==
  \/ pending' = Merged(S, h) /\ UNCHANGED overflows
  \/ /\ overflows < MaxOverflows
     /\ overflows' = overflows + 1
     /\ pending' = [pending EXCEPT !.rescan = TRUE]

Outside == UNCHANGED <<retained, job, shown, lost>>

Edit(f) ==
  /\ edits < MaxEdits
  /\ edits' = edits + 1
  /\ \E c \in Contents \ {disk[f]} : disk' = [disk EXCEPT ![f] = c]
  /\ Report({f}, FALSE)
  /\ UNCHANGED store /\ Outside

(* A jj command snapshots the disk into @, then may commit it (a new       *)
(* parent), or put another tree in its place, on disk too.  Of the files   *)
(* it writes, some events may be lost.                                     *)
JjCommand ==
  /\ op < MaxOps
  /\ op' = op + 1
  /\ parent' \in {parent, disk}
  /\ wc' \in {disk, wc, parent}
  /\ disk' = wc'
  /\ \E S \in SUBSET {f \in Files : disk'[f] # disk[f]} : Report(S, TRUE)
  /\ UNCHANGED edits /\ Outside

(* A command elsewhere, or one with --ignore-working-copy, that moves the  *)
(* parent and leaves the disk unread                                       *)
OtherCommand ==
  /\ op < MaxOps
  /\ op' = op + 1
  /\ parent' \in {Empty, wc}
  /\ Report({}, TRUE)
  /\ UNCHANGED <<wc, disk, edits>> /\ Outside

-----------------------------------------------------------------------------
(* Requests, as refresh_repo chooses them.  An incremental request without *)
(* retained state is an error, on which the daemon asks for a full one.    *)
KindOf(p) ==
  IF p.rescan THEN "resync"
  ELSE IF p.hint THEN "validate"
  ELSE IF p.paths # {} /\ retained # {} THEN "incremental"
  ELSE "full"

Take(p) ==
  /\ kind = "none"
  /\ kind' = KindOf(p)
  /\ paths' = p.paths
  /\ stage' = IF kind' = "incremental" THEN "apply" ELSE "load"
  /\ left' = IF kind' = "incremental" THEN p.paths ELSE {}
  /\ draft' = IF retained = {} THEN Blank ELSE CHOOSE s \in retained : TRUE
  /\ UNCHANGED <<repo, retained, shown, lost>>

StartRefresh == pending # Nothing /\ Take(pending) /\ pending' = Nothing

(* A query miss or a Flush, of a repository with nothing debouncing *)
ForceRefresh == Take(Nothing) /\ UNCHANGED pending

JobEnds ==
  /\ kind' = "none" /\ stage' = "load"
  /\ paths' = {} /\ left' = {} /\ draft' = Blank

(* The repository cannot be loaded, or the worker dies with its state. *)
Fail ==
  /\ kind # "none"
  /\ \/ stage = "load" /\ UNCHANGED retained
     \/ retained' = {}
  /\ JobEnds
  /\ stale' = TRUE
  /\ lost' = (lost \/ paths # {} \/ kind # "full")
  /\ UNCHANGED <<repo, pending, status>>

(* Forget: the router drops the worker of a repository that is gone. *)
Forget ==
  /\ kind = "none" /\ retained # {}
  /\ retained' = {}
  /\ UNCHANGED <<repo, pending, job, shown, lost>>

Known(S) == UNION {DOMAIN s.overlay : s \in S}

Load(next, files) ==
  /\ stage = "load"
  /\ draft' = next
  /\ left' = files
  /\ stage' = "apply"
  /\ UNCHANGED <<repo, pending, retained, kind, paths, shown>>

(* A full refresh starts from the store alone, and so does a validation    *)
(* without retained state, whatever paths came with it.                    *)
LoadFull ==
  /\ kind = "full" \/ (kind = "validate" /\ retained = {})
  /\ Load(Built, {})
  /\ lost' = FALSE

(* Mutant: the files known to be dirty are not looked at again. *)
ResyncedNone == {}

Resynced == Known(retained)

LoadResync ==
  /\ kind = "resync"
  /\ Load(Built, Resynced)
  /\ lost' = FALSE

(* Mutant: only the parent is compared. *)
ParentUnchanged(s) == s.parent = parent

TreesUnchanged(s) == s.parent = parent /\ s.wc = wc

(* Mutant: the metadata of the new operation is not copied. *)
KeepStatus(s) == s

UpdateMetadata(s) == [s EXCEPT !.op = op]

(* The op log advanced but the trees are what they were: the operation may *)
(* have rewritten files on disk, so those known to be dirty are read again.*)
ValidateUnchanged ==
  /\ kind = "validate" /\ retained # {} /\ TreesUnchanged(draft)
  /\ Load(UpdateMetadata(draft), paths \cup IF draft.op # op THEN DOMAIN draft.overlay ELSE {})
  /\ UNCHANGED lost

ValidateChanged ==
  /\ kind = "validate" /\ retained # {} /\ ~TreesUnchanged(draft)
  /\ Load(Built, paths)
  /\ lost' = FALSE

(* apply_incremental_paths, one file at a time *)
ApplyPath(f) ==
  /\ kind # "none" /\ stage = "apply" /\ f \in left
  /\ draft' = [draft EXCEPT !.overlay =
       [g \in DOMAIN @ \cup {f} |-> IF g = f THEN Delta(draft.parent, disk)[f] ELSE @[g]]]
  /\ left' = left \ {f}
  /\ UNCHANGED <<repo, pending, retained, kind, stage, paths, shown, lost>>

Reply ==
  /\ kind # "none" /\ stage = "apply" /\ left = {}
  /\ retained' = {draft}
  /\ status' = {current_status(draft)}
  /\ stale' = FALSE
  /\ JobEnds
  /\ UNCHANGED <<repo, pending, lost>>

Environment == JjCommand \/ OtherCommand \/ \E f \in Files : Edit(f)

Worker == LoadFull \/ LoadResync \/ ValidateUnchanged \/ ValidateChanged
          \/ (\E f \in Files : ApplyPath(f)) \/ Reply

Next == Environment \/ StartRefresh \/ ForceRefresh \/ Fail \/ Forget \/ Worker

Spec == Init /\ [][Next]_vars

-----------------------------------------------------------------------------
(* Every variable has its type. *)
TypeOK ==
  /\ {parent, wc, disk} \subseteq Tree
  /\ op \in 0..MaxOps /\ edits \in 0..MaxEdits /\ overflows \in 0..MaxOverflows
  /\ pending \in [paths : SUBSET Files, hint : BOOLEAN, rescan : BOOLEAN]
  /\ retained \in SUBSET JjRepoState /\ Cardinality(retained) <= 1
  /\ kind \in {"none", "full", "validate", "incremental", "resync"}
  /\ stage \in {"load", "apply"}
  /\ paths \in SUBSET Files /\ left \in SUBSET Files
  /\ draft \in JjRepoState
  /\ status \in SUBSET RepoStatus /\ Cardinality(status) <= 1
  /\ {stale, lost} \subseteq BOOLEAN

Settled == pending = Nothing /\ kind = "none" /\ ~stale

(* Once settled a file is shown as it is on disk, or as of the last        *)
(* snapshot: never at some third state, be it an edit that an operation    *)
(* undid (also when both trees are what they were), one against an earlier *)
(* parent, or one that a snapshot has overtaken.                           *)
DiffIsDiskOrSnapshot ==
  Settled /\ ~lost =>
    \A s \in status, f \in Files :
      s.diff[f] \in {Delta(parent, disk)[f], Delta(parent, wc)[f]}

(* Description, bookmarks and the other metadata are those of the latest   *)
(* operation, also when it changed no tree.                                *)
OpIsCurrent == Settled /\ ~lost => \A s \in status : s.op = op

(* While the trees stay, no refresh but a full one loses track of a file   *)
(* known to be dirty: not even after events were lost.                     *)
KnownStaysKnown ==
  [][\A r \in retained, s \in retained' :
       kind # "full" /\ r.parent = s.parent /\ r.wc = s.wc => Known({r}) \subseteq Known({s})]_vars

=============================================================================
