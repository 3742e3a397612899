----------------------------- MODULE GitWorker -----------------------------
(***************************************************************************)
(* The worker thread of one git repository (src/git.rs): it answers each   *)
(* refresh with a status, computed from scratch or from the state it kept  *)
(* of earlier answers (GitRepoState: diffs at some baseline, overlaid with *)
(* the diffs of single files), and must not be fooled about what is still  *)
(* valid.  The repository changes under it while it reads, one write of a  *)
(* file, the index or a ref at a time: any git command is a sequence of    *)
(* such writes.  Each is reported by the watcher with the hint that        *)
(* classify_git_internal_path gives; reports merge until a refresh takes   *)
(* them (RefreshScheduler).                                                *)
(*                                                                         *)
(* A tree gives each file a content, 0 for absent.  A diff gives each file *)
(* its pair of contents, or None; counts of files and lines are sums over  *)
(* such a diff.                                                            *)
(***************************************************************************)
EXTENDS Naturals, Sequences, FiniteSets

CONSTANTS
  Files,
  Contents,    \* of a file; 0 when it does not exist
  MaxWrites    \* bound: writes to the repository

ASSUME ContentsAssumption == Contents \subseteq Nat /\ 0 \in Contents
ASSUME MaxWritesAssumption == MaxWrites \in Nat

VARIABLES
  head,      \* tree of the HEAD commit; none while HEAD is unborn
  index,     \* tree in .git/index
  workdir,   \* tree in the working directory
  commit,    \* identity of the HEAD commit (commit_id, description)
  meta,      \* branch, stashes, conflict and rebase state
  writes,    \* writes made so far
  pending,   \* PendingRefresh of the repository: what was reported, not taken
  retained,  \* the worker's GitRepoState, if it has one
  todo,      \* steps left of the request being answered
  request,   \* the request: its paths and hint
  draft,     \* the state as the request leaves it
  status,    \* RepoStatus of the last reply; none before the first
  stale,     \* the last refresh failed: the daemon shows its status as stale
  lost,      \* history: a report that a failed read had to answer, not made up for
  masked     \* history: an index write was refreshed under a stronger hint

repo    == <<head, index, workdir, commit, meta, writes>>
job     == <<todo, request, draft>>
shown   == <<status, stale>>
history == <<lost, masked>>

vars == <<repo, pending, retained, job, shown, history>>

-----------------------------------------------------------------------------
Empty == [f \in Files |-> 0]

(* The tree diffed against: an unborn HEAD has an empty one *)
TreeOf(h) == IF h = {} THEN Empty ELSE CHOOSE t \in h : TRUE

None == <<>>

Delta(a, b) == [f \in Files |-> IF a[f] = b[f] THEN None ELSE <<a[f], b[f]>>]

(* An overlay has diffs of some files, and wins over the base. *)
NoOverlay      == [f \in {} |-> None]
Overlaid(b, o) == [f \in Files |-> IF f \in DOMAIN o THEN o[f] ELSE b[f]]

Updated(o, d, S) ==
  [f \in DOMAIN o \cup S |-> IF f \in S THEN d[f] ELSE o[f]]

(* VcsChangeHint, 0 for none *)
MetadataOnly       == 1
IndexChanged       == 2
HeadMayHaveChanged == 3

(* What reports merge into.  index is history: an index write is among them. *)
Report(S, h) == [paths |-> S, hint |-> h, rescan |-> FALSE, index |-> h = IndexChanged]
Overflow(i)  == [paths |-> {}, hint |-> 0, rescan |-> TRUE, index |-> i]
Nothing      == Report({}, 0)

Merge(p, q) == [paths  |-> p.paths \cup q.paths,
                hint   |-> IF p.hint < q.hint THEN q.hint ELSE p.hint,
                rescan |-> p.rescan \/ q.rescan,
                index  |-> p.index \/ q.index]

(* GitRepoState; of base_status, the fields that are not in a diff *)
Blank == [head |-> {}, commit |-> 0, meta |-> 0, staged |-> Delta(Empty, Empty),
          base_unstaged |-> Delta(Empty, Empty), base_total |-> Delta(Empty, Empty),
          unstaged_overlay |-> NoOverlay, total_overlay |-> NoOverlay]

(* The RepoStatus; head is history: the tree of the commit it was made from *)
current_status(s) ==
  [head |-> s.head, commit |-> s.commit, meta |-> s.meta, staged |-> s.staged,
   unstaged |-> Overlaid(s.base_unstaged, s.unstaged_overlay),
   total |-> Overlaid(s.base_total, s.total_overlay)]

Init ==
  /\ head \in {{}, {Empty}} /\ index = Empty /\ workdir = Empty
  /\ commit = 0 /\ meta = 0 /\ writes = 0
  /\ pending = Nothing
  /\ retained = {}
  /\ todo = <<>> /\ request = Nothing /\ draft = Blank
  /\ status = {} /\ stale = FALSE
  /\ lost = FALSE /\ masked = FALSE

-----------------------------------------------------------------------------
(* Writes to the repository, with the event each raises; or the event      *)
(* queue overflows, and the watcher asks for a rescan instead.             *)
Write(report) ==
  /\ writes < MaxWrites
  /\ writes' = writes + 1
  /\ pending' \in {Merge(pending, report), Merge(pending, Overflow(report.index))}
  /\ UNCHANGED <<retained, job, shown, history>>

WriteFile(f) ==
  /\ \E c \in Contents \ {workdir[f]} : workdir' = [workdir EXCEPT ![f] = c]
  /\ Write(Report({f}, 0))
  /\ UNCHANGED <<head, index, commit, meta>>

(* add, or reset of a path *)
WriteIndex(f) ==
  /\ \E c \in {workdir[f], TreeOf(head)[f]} \ {index[f]} : index' = [index EXCEPT ![f] = c]
  /\ Write(Report({}, IndexChanged))
  /\ UNCHANGED <<head, workdir, commit, meta>>

(* A commit of the index, another commit of the same tree (amend), or a    *)
(* commit made before (here, an empty one)                                 *)
MoveHead ==
  /\ \E t \in {index, TreeOf(head), Empty} : head' = {t}
  /\ commit' = commit + 1
  /\ Write(Report({}, HeadMayHaveChanged))
  /\ UNCHANGED <<index, workdir, meta>>

(* Another branch at the same commit, a rebase begun, a stash dropped *)
WriteRef ==
  /\ meta' = meta + 1
  /\ \E h \in {MetadataOnly, HeadMayHaveChanged} : Write(Report({}, h))
  /\ UNCHANGED <<head, index, workdir, commit>>

-----------------------------------------------------------------------------
(* Requests.  refresh_repo chooses one by what it takes from pending.      *)
FullRefresh  == <<"head", "unstaged", "staged", "meta", "reply">>
FilesRefresh == <<"files unstaged", "files total", "reply">>

(* An incremental request without retained state is an error, on which the *)
(* daemon asks for a full refresh.                                         *)
RequestFor(p) ==
  IF p.rescan \/ (p.hint = 0 /\ p.paths = {}) THEN FullRefresh
  ELSE IF retained = {} THEN FullRefresh
  ELSE IF p.hint # 0 THEN <<"validate">>
  ELSE FilesRefresh

Take(p) ==
  /\ todo = <<>>
  /\ request' = p
  /\ todo' = RequestFor(p)
  /\ draft' = IF retained = {} THEN Blank ELSE CHOOSE s \in retained : TRUE
  /\ UNCHANGED <<repo, retained, shown, history>>

StartRefresh ==
  /\ pending # Nothing
  /\ Take(pending)
  /\ pending' = Nothing

(* A query miss or a Flush, of a repository with nothing debouncing *)
ForceRefresh == Take(Nothing) /\ UNCHANGED pending

(* The first step opens the repository, which can fail; or the worker's    *)
(* thread dies, with its state.  What the request took is lost.            *)
Fail ==
  /\ todo # <<>>
  /\ \/ Head(todo) \in {"head", "validate"} /\ UNCHANGED retained
     \/ retained' = {}
  /\ todo' = <<>> /\ request' = Nothing /\ draft' = Blank
  /\ stale' = TRUE
  /\ lost' = (lost \/ request # Nothing)
  /\ UNCHANGED <<repo, pending, status, masked>>

(* Forget: the router drops the worker of a repository that is gone. *)
Forget ==
  /\ todo = <<>> /\ retained # {}
  /\ retained' = {}
  /\ UNCHANGED <<repo, pending, job, shown, history>>

-----------------------------------------------------------------------------
(* One read of the repository *)
Step(name) ==
  /\ todo # <<>> /\ Head(todo) = name
  /\ UNCHANGED <<repo, pending, retained, request, shown>>

(* A full refresh starts a new state; with an unborn HEAD it stays blank. *)
ReadHead ==
  /\ Step("head")
  /\ draft' = [Blank EXCEPT !.head = head, !.commit = IF head = {} THEN 0 ELSE commit]
  /\ todo' = IF head = {} THEN <<"reply">> ELSE Tail(todo)
  /\ lost' = FALSE /\ masked' = FALSE

DiffUnstaged ==
  /\ Step("unstaged")
  /\ draft' = [draft EXCEPT !.base_unstaged = Delta(index, workdir)]
  /\ todo' = Tail(todo)
  /\ masked' = FALSE
  /\ UNCHANGED lost

WithTotal(s, d) ==
  [s EXCEPT !.base_total = d, !.unstaged_overlay = NoOverlay, !.total_overlay = NoOverlay]

(* Mutant: the unstaged diff always serves as the total one. *)
AlwaysReused(staged) == TRUE

(* With nothing staged the unstaged diff is reused for the total... *)
Reused(staged) == staged = Delta(Empty, Empty)

DiffStaged ==
  /\ Step("staged")
  /\ LET staged == Delta(TreeOf(draft.head), index)
         s == [draft EXCEPT !.staged = staged]
     IN IF Reused(staged)
          THEN draft' = WithTotal(s, s.base_unstaged) /\ todo' = Tail(todo)
          ELSE draft' = s /\ todo' = <<"total">> \o Tail(todo)
  /\ UNCHANGED history

(* ... and the worktree is scanned a second time otherwise.  Either way    *)
(* the overlays are cleared.                                               *)
DiffTotal ==
  /\ Step("total")
  /\ draft' = WithTotal(draft, Delta(TreeOf(draft.head), workdir))
  /\ todo' = Tail(todo)
  /\ UNCHANGED history

(* refresh_git_metadata; also the end of a full refresh *)
ReadMeta ==
  /\ Step("meta")
  /\ draft' = [draft EXCEPT !.meta = meta]
  /\ todo' = Tail(todo)
  /\ UNCHANGED history

(* Mutants: the index refresh forgets the staged diff; only MetadataOnly   *)
(* refreshes the metadata.                                                 *)
StepsWithoutStaged(hint) ==
  IF hint = IndexChanged THEN <<"unstaged", "meta">> ELSE <<"meta">>

StepsWithoutMeta(hint) ==
  IF hint = IndexChanged THEN <<"unstaged", "staged">>
  ELSE IF hint = MetadataOnly THEN <<"meta">> ELSE <<>>

StepsFor(hint) ==
  IF hint = IndexChanged THEN <<"unstaged", "staged", "meta">> ELSE <<"meta">>

SameHead(s) == s.head = head

(* ValidateAndRefresh: the kept diffs stand while HEAD has the same tree. *)
Validate ==
  /\ Step("validate")
  /\ todo' = IF ~SameHead(draft) THEN FullRefresh
             ELSE StepsFor(request.hint)
                  \o (IF request.paths = {} THEN <<"reply">> ELSE FilesRefresh)
  /\ masked' = (masked \/ (SameHead(draft) /\ request.index /\ request.hint # IndexChanged))
  /\ UNCHANGED <<draft, lost>>

(* update_files: diffs of the named files alone *)
DiffFilesUnstaged ==
  /\ Step("files unstaged")
  /\ draft' = [draft EXCEPT !.unstaged_overlay =
                 Updated(@, Delta(index, workdir), request.paths)]
  /\ todo' = Tail(todo)
  /\ UNCHANGED history

DiffFilesTotal ==
  /\ Step("files total")
  /\ draft' = [draft EXCEPT !.total_overlay =
                 Updated(@, Delta(TreeOf(draft.head), workdir), request.paths)]
  /\ todo' = Tail(todo)
  /\ UNCHANGED history

(* A diff that fails is logged, and the answer made from what is there:    *)
(* the diff kept so far, or none when its files could not be read.         *)
(* update_files does without any diff when it cannot open the repository.  *)
NoDiff == Delta(Empty, Empty)

Without(o) == Updated(o, NoDiff, request.paths)

DiffFails ==
  /\ todo # <<>>
  /\ \/ /\ Head(todo) = "unstaged"
        /\ draft' \in {draft, [draft EXCEPT !.base_unstaged = NoDiff]}
        /\ todo' = Tail(todo)
     \/ /\ Head(todo) = "staged"
        /\ UNCHANGED draft /\ todo' = <<"total">> \o Tail(todo)
     \/ /\ Head(todo) = "total"
        /\ \E d \in {draft.base_total, NoDiff} : draft' = WithTotal(draft, d)
        /\ todo' = Tail(todo)
     \/ /\ Head(todo) = "files unstaged"
        /\ draft' \in {draft, [draft EXCEPT !.unstaged_overlay = Without(@)]}
        /\ todo' = Tail(todo)
     \/ /\ Head(todo) = "files total"
        /\ draft' \in {draft, [draft EXCEPT !.total_overlay = Without(@)]}
        /\ todo' = Tail(todo)
     \/ /\ Head(todo) = "files unstaged"
        /\ UNCHANGED draft /\ todo' = <<"reply">>
  /\ lost' = TRUE
  /\ UNCHANGED <<repo, pending, retained, request, shown, masked>>

Reply ==
  /\ todo # <<>> /\ Head(todo) = "reply"
  /\ retained' = {draft}
  /\ status' = {current_status(draft)}
  /\ stale' = FALSE
  /\ todo' = <<>> /\ request' = Nothing /\ draft' = Blank
  /\ UNCHANGED <<repo, pending, history>>

Environment == MoveHead \/ WriteRef \/ \E f \in Files : WriteFile(f) \/ WriteIndex(f)

Worker ==
  \/ ReadHead \/ DiffUnstaged \/ DiffStaged \/ DiffTotal \/ ReadMeta
  \/ Validate \/ DiffFilesUnstaged \/ DiffFilesTotal \/ DiffFails \/ Reply

Next == Environment \/ StartRefresh \/ ForceRefresh \/ Fail \/ Forget \/ Worker

Spec == Init /\ [][Next]_vars

-----------------------------------------------------------------------------
(* Nothing is reported, running or marked stale. *)
Idle == pending = Nothing /\ todo = <<>> /\ ~stale /\ head # {}

(* ... and no failure swallowed a report. *)
Settled == Idle /\ ~lost

(* Whatever mix of full, validated and incremental refreshes produced the  *)
(* status, and whatever was written while they read: once settled, its     *)
(* counts are those of HEAD against the working directory...               *)
TotalCurrent ==
  Settled /\ ~masked => \A s \in status : s.total = Delta(TreeOf(head), workdir)

(* ... its staged and unstaged counts are those of the index ...           *)
IndexCurrent ==
  Settled /\ ~masked =>
    \A s \in status : s.staged = Delta(TreeOf(head), index) /\ s.unstaged = Delta(index, workdir)

(* ... and so are branch, stashes and the rest, whatever the hint was; and *)
(* the commit, unless HEAD moved to one with the same tree.                *)
MetadataCurrent ==
  Settled => \A s \in status : s.meta = meta /\ (s.commit = commit \/ s.head = head)

=============================================================================
