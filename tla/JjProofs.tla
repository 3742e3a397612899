------------------------------ MODULE JjProofs ------------------------------
(***************************************************************************)
(* Theorems about the status of a jj repository, for any files, contents,  *)
(* commit graphs and bounds: the worker that keeps it, and the bookmarks   *)
(* it shows.                                                               *)
(***************************************************************************)
EXTENDS JjWorker, MCJjBookmarks, FiniteSetTheorems, SequenceTheorems,
        WellFoundedInduction, TLAPS

-----------------------------------------------------------------------------
(* The inductive invariant *)
NoNews      == ~pending.hint /\ ~pending.rescan
Reported(f) == f \in pending.paths \/ pending.rescan
Loading     == stage = "load"

(* There is at most one state, and one status; a request that loads starts *)
(* from that state.                                                        *)
Job ==
  /\ \A r, s \in retained : r = s
  /\ \A r, s \in status : r = s
  /\ kind = "none" => Loading /\ paths = {}
  /\ kind = "incremental" => ~Loading
  /\ (Loading /\ kind # "none" /\ retained # {}) => draft \in retained
  /\ (Loading /\ kind = "full" /\ paths # {}) => retained = {}

(* A state was made of the trees of its operation. *)
Trees(s) ==
  /\ s.op <= op /\ s.base = Delta(s.parent, s.wc)
  /\ s.op = op => s.parent = parent /\ s.wc = wc

States ==
  /\ \A s \in retained : Trees(s)
  /\ \A s \in status : s.op <= op
  /\ ~Loading => Trees(draft)

(* Unless a report of a new operation waits, or was lost, what is kept is  *)
(* of the operation at the head.                                           *)
OpKept ==
  (~lost /\ NoNews) =>
    /\ (Loading /\ kind \in {"none", "full"}) => \A s \in retained : s.op = op
    /\ (kind = "none" /\ ~stale) => \A s \in status : s.op = op
    /\ ~Loading => draft.op = op

(* Its overlay is what the disk has, but for files in T or in reports.     *)
Accurate(s, T) ==
  \A f \in DOMAIN s.overlay :
    s.overlay[f] = Delta(parent, disk)[f] \/ f \in T \/ Reported(f)

Shows(s) ==
  \A f \in Files : s.diff[f] \in {Delta(parent, disk)[f], Delta(parent, wc)[f]} \/ Reported(f)

(* What is kept of the operation at the head accounts for the disk, but    *)
(* for files that are reported or about to be diffed.                      *)
DiskKept ==
  ~lost =>
    /\ (Loading /\ kind # "resync") => \A s \in retained : s.op = op => Accurate(s, paths)
    /\ (~Loading /\ draft.op = op) => Accurate(draft, left)
    /\ (kind = "none" /\ ~stale) => \A s \in status : s.op = op => Shows(s)

(* What was known to be dirty is known still, or about to be diffed.       *)
KnownKept ==
  (~Loading /\ kind # "full") =>
    \A r \in retained : (r.parent = draft.parent /\ r.wc = draft.wc)
      => DOMAIN r.overlay \subseteq DOMAIN draft.overlay \cup left

IInv == TypeOK /\ Job /\ States /\ OpKept /\ DiskKept /\ KnownKept

-----------------------------------------------------------------------------
(* Types *)
Pending == [paths : SUBSET Files, hint : BOOLEAN, rescan : BOOLEAN]

(* A diff of two trees has a file diff of every file. *)
LEMMA DeltaType ==
  ASSUME NEW a \in Tree, NEW b \in Tree
  PROVE  Delta(a, b) \in [Files -> FileDiff]
BY DEF Delta, Tree, FileDiff

(* The first tree, and no report *)
LEMMA EmptyType == Empty \in Tree /\ Nothing \in Pending
BY ContentsAssumption DEF Empty, Tree, Nothing, Pending

(* The empty overlay has diffs of no file. *)
LEMMA NoOverlayType == NoOverlay \in Overlays /\ DOMAIN NoOverlay = {}
<1>1. NoOverlay \in [{} -> FileDiff] /\ {} \in SUBSET Files
  BY DEF NoOverlay
<1>2. DOMAIN NoOverlay = {}
  BY DEF NoOverlay
<1> QED BY <1>1, <1>2 DEF Overlays

(* A state built of two trees has its type. *)
LEMMA StateType ==
  ASSUME NEW p \in Tree, NEW w \in Tree, NEW n \in 0..MaxOps
  PROVE  [parent |-> p, wc |-> w, op |-> n, base |-> Delta(p, w), overlay |-> NoOverlay] \in JjRepoState
BY DeltaType, NoOverlayType DEF JjRepoState

(* The state of a worker that has none yet *)
LEMMA BlankType == Blank \in JjRepoState
<1>1. 0 \in 0..MaxOps
  BY BoundsAssumption
<1> QED BY <1>1, EmptyType, StateType DEF Blank

(* Of a state, the overlay or the operation changes. *)
LEMMA OverlayOf ==
  ASSUME NEW s \in JjRepoState, NEW o \in Overlays
  PROVE  [s EXCEPT !.overlay = o] = [parent |-> s.parent, wc |-> s.wc, op |-> s.op, base |-> s.base, overlay |-> o]
BY DEF JjRepoState

(* ... the operation *)
LEMMA OpOf ==
  ASSUME NEW s \in JjRepoState, NEW n \in 0..MaxOps
  PROVE  [s EXCEPT !.op = n] = [parent |-> s.parent, wc |-> s.wc, op |-> n, base |-> s.base, overlay |-> s.overlay]
BY DEF JjRepoState

(* An overlay is a function on a set of files. *)
LEMMA OverlayType ==
  ASSUME NEW o
  PROVE  o \in Overlays <=> \E S \in SUBSET Files : o \in [S -> FileDiff]
BY DEF Overlays

(* An overlay has diffs of some files. *)
LEMMA OverlayIs ==
  ASSUME NEW o \in Overlays
  PROVE  DOMAIN o \subseteq Files /\ o \in [DOMAIN o -> FileDiff]
<1>1. PICK S \in SUBSET Files : o \in [S -> FileDiff]
  BY OverlayType
<1> QED BY <1>1

(* The fields of a state *)
LEMMA StateFields ==
  ASSUME NEW s \in JjRepoState
  PROVE  /\ s.parent \in Tree /\ s.wc \in Tree /\ s.op \in 0..MaxOps
         /\ s.base \in [Files -> FileDiff] /\ s.overlay \in Overlays
BY DEF JjRepoState

(* What a status shows of a file *)
LEMMA StatusIs ==
  ASSUME NEW s \in JjRepoState
  PROVE  /\ current_status(s) \in RepoStatus /\ current_status(s).op = s.op
         /\ \A f \in Files : current_status(s).diff[f] = IF f \in DOMAIN s.overlay THEN s.overlay[f] ELSE s.base[f]
<1> DEFINE d == [f \in Files |-> IF f \in DOMAIN s.overlay THEN s.overlay[f] ELSE s.base[f]]
<1>1. current_status(s) = [op |-> s.op, diff |-> d]
  BY DEF current_status
<1>2. ASSUME NEW f \in Files PROVE d[f] \in FileDiff
  <2>1. s.overlay \in [DOMAIN s.overlay -> FileDiff] /\ s.base \in [Files -> FileDiff]
    BY StateFields, OverlayIs
  <2> QED BY <2>1
<1>3. d \in [Files -> FileDiff] /\ \A f \in Files : d[f] = IF f \in DOMAIN s.overlay THEN s.overlay[f] ELSE s.base[f]
  BY <1>2
<1> HIDE DEF d
<1> QED BY <1>1, <1>3, StateFields DEF RepoStatus

(* A set without two members has at most one. *)
LEMMA AtMostOne ==
  ASSUME NEW S, \A x, y \in S : x = y
  PROVE  Cardinality(S) <= 1
<1>1. CASE S = {}
  BY <1>1, FS_EmptySet
<1>2. ASSUME NEW x \in S PROVE Cardinality(S) <= 1
  <2>1. S = {x}
    OBVIOUS
  <2> QED BY <2>1, FS_Singleton
<1> QED BY <1>1, <1>2

(* Reports add up: none is taken back, and what is reported is.            *)
LEMMA ReportIs ==
  ASSUME pending \in Pending, overflows \in 0..MaxOverflows, NEW S \in SUBSET Files, NEW h \in BOOLEAN, Report(S, h)
  PROVE  /\ pending' \in Pending /\ overflows' \in 0..MaxOverflows
         /\ \A f \in Files : Reported(f) \/ f \in S => Reported(f)'
         /\ NoNews' => NoNews /\ ~h
<1>1. CASE pending' = Merged(S, h) /\ UNCHANGED overflows
  BY <1>1 DEF Pending, Merged, Reported, NoNews
<1>2. CASE overflows < MaxOverflows /\ overflows' = overflows + 1 /\ pending' = [pending EXCEPT !.rescan = TRUE]
  <2>1. pending' = [paths |-> pending.paths, hint |-> pending.hint, rescan |-> TRUE]
    BY <1>2 DEF Pending
  <2>2. overflows' \in 0..MaxOverflows
    BY <1>2, BoundsAssumption
  <2> QED BY <2>1, <2>2 DEF Pending, Reported, NoNews
<1> QED BY <1>1, <1>2 DEF Report

-----------------------------------------------------------------------------
(* The invariant holds at the start. *)
LEMMA InitIInv == Init => IInv
<1> SUFFICES ASSUME Init PROVE IInv
  OBVIOUS
<1>1. 0 \in 0..MaxOps /\ 0 \in 0..MaxEdits /\ 0 \in 0..MaxOverflows
  BY BoundsAssumption
<1>2. Cardinality({}) = 0
  BY FS_EmptySet
<1>3. retained = {} /\ status = {} /\ kind = "none" /\ stage = "load" /\ paths = {} /\ op = 0
  BY DEF Init
<1>4. TypeOK
  <2>1. {parent, wc, disk} \subseteq Tree
    BY EmptyType DEF Init
  <2>2. pending \in Pending
    BY EmptyType DEF Init
  <2>3. stale = FALSE /\ lost = FALSE /\ left = {} /\ edits = 0 /\ overflows = 0 /\ draft \in JjRepoState
    BY BlankType DEF Init
  <2>4. Cardinality(retained) <= 1 /\ Cardinality(status) <= 1
    BY <1>2, <1>3
  <2>5. {stale, lost} \subseteq BOOLEAN
    BY <2>3
  <2> QED BY <1>1, <1>3, <2>1, <2>2, <2>3, <2>4, <2>5 DEF TypeOK, Pending
<1>5. Job /\ States /\ OpKept /\ DiskKept /\ KnownKept
  BY <1>3 DEF Job, States, OpKept, DiskKept, KnownKept, Loading
<1> QED BY <1>4, <1>5 DEF IInv

-----------------------------------------------------------------------------
(* Outside *)
(* An edit is of one file, and reports it. *)
LEMMA EditStep ==
  ASSUME IInv, NEW f \in Files, Edit(f)
  PROVE  IInv'
<1>1. TypeOK /\ pending \in Pending /\ disk \in Tree
  BY DEF IInv, TypeOK, Pending
<1>2. /\ Report({f}, FALSE) /\ edits < MaxEdits /\ edits' = edits + 1
      /\ UNCHANGED <<parent, wc, op, retained, kind, stage, paths, left, draft, status, stale, lost>>
  BY DEF Edit, store, Outside, job, shown
<1>3. PICK c \in Contents \ {disk[f]} : disk' = [disk EXCEPT ![f] = c]
  BY DEF Edit
<1>4. disk' \in Tree /\ \A g \in Files \ {f} : disk'[g] = disk[g]
  BY <1>1, <1>3 DEF Tree
<1>5. /\ pending' \in Pending /\ overflows' \in 0..MaxOverflows
      /\ \A g \in Files : Reported(g) \/ g \in {f} => Reported(g)'
      /\ NoNews' => NoNews
  <2>1. overflows \in 0..MaxOverflows /\ {f} \in SUBSET Files
    BY <1>1 DEF TypeOK
  <2> QED BY <1>1, <1>2, <2>1, ReportIs
<1>6. TypeOK'
  <2>1. edits' \in 0..MaxEdits
    BY <1>1, <1>2, BoundsAssumption DEF TypeOK
  <2> QED BY <1>1, <1>2, <1>4, <1>5, <2>1 DEF TypeOK, Pending
<1>7. Job' /\ States' /\ KnownKept'
  BY <1>2 DEF IInv, Job, States, Trees, KnownKept, Loading
<1>8. OpKept'
  BY <1>2, <1>5 DEF IInv, OpKept, Loading
<1>9. \A g \in Files : Delta(parent, disk')[g] = Delta(parent, disk)[g] \/ Reported(g)'
  BY <1>4, <1>5 DEF Delta
<1>10. ASSUME NEW s \in JjRepoState, NEW T, Accurate(s, T) PROVE Accurate(s, T)'
  <2>1. DOMAIN s.overlay \subseteq Files
    BY StateFields, OverlayIs
  <2> QED BY <1>2, <1>5, <1>9, <1>10, <2>1 DEF Accurate
<1>11. ASSUME NEW s, Shows(s) PROVE Shows(s)'
  BY <1>2, <1>5, <1>9, <1>11 DEF Shows
<1>12. DiskKept'
  <2>1. \A s \in retained : s \in JjRepoState
    BY <1>1 DEF TypeOK
  <2>2. (Accurate(draft, left) => Accurate(draft, left)') /\ \A s \in retained : Accurate(s, paths) => Accurate(s, paths)'
    <3>1. draft \in JjRepoState
      BY <1>1 DEF TypeOK
    <3>2. ASSUME Accurate(draft, left) PROVE Accurate(draft, left)'
      <4>1. DOMAIN draft.overlay \subseteq Files
        BY <3>1, StateFields, OverlayIs
      <4> QED BY <1>2, <1>5, <1>9, <3>2, <4>1 DEF Accurate
    <3>3. ASSUME NEW s \in retained, Accurate(s, paths) PROVE Accurate(s, paths)'
      <4>1. DOMAIN s.overlay \subseteq Files
        BY <2>1, StateFields, OverlayIs
      <4> QED BY <1>2, <1>5, <1>9, <3>3, <4>1 DEF Accurate
    <3> QED BY <3>2, <3>3
  <2> QED BY <1>2, <1>11, <2>2 DEF IInv, DiskKept, Loading
<1> QED BY <1>6, <1>7, <1>8, <1>12 DEF IInv

(* A command makes an operation of which nothing is kept yet. *)
LEMMA CommandStep ==
  ASSUME IInv, JjCommand \/ OtherCommand
  PROVE  IInv'
<1>1. /\ pending \in Pending /\ overflows \in 0..MaxOverflows /\ {parent, wc, disk} \subseteq Tree
      /\ edits \in 0..MaxEdits /\ op \in Nat
  BY BoundsAssumption DEF IInv, TypeOK, Pending
<1>2. /\ op < MaxOps /\ op' = op + 1
      /\ UNCHANGED <<edits, retained, kind, stage, paths, left, draft, status, stale, lost>>
  BY DEF JjCommand, OtherCommand, Outside, job, shown
<1>3. \E S \in SUBSET Files : Report(S, TRUE)
  <2>1. CASE JjCommand
    BY <2>1 DEF JjCommand
  <2>2. CASE OtherCommand
    BY <2>2 DEF OtherCommand
  <2> QED BY <2>1, <2>2
<1>4. pending' \in Pending /\ overflows' \in 0..MaxOverflows /\ ~NoNews'
  BY <1>1, <1>3, ReportIs
<1>5. {parent', wc', disk'} \subseteq Tree
  BY <1>1, EmptyType DEF JjCommand, OtherCommand
<1>6. op' \in 0..MaxOps
  BY <1>1, <1>2, BoundsAssumption
<1>7. TypeOK'
  BY <1>1, <1>2, <1>4, <1>5, <1>6 DEF IInv, TypeOK, Pending
<1>8. \A n : (n <= op /\ n \in Nat) => (n <= op' /\ n # op')
  BY <1>1, <1>2
<1>9. \A s \in retained \cup status : s.op \in Nat /\ s.op <= op
  BY DEF IInv, TypeOK, JjRepoState, RepoStatus, States, Trees
<1>10. draft.op \in Nat /\ (~Loading => draft.op <= op)
  BY DEF IInv, TypeOK, JjRepoState, States, Trees
<1>11. Job' /\ KnownKept'
  BY <1>2 DEF IInv, Job, KnownKept, Loading
<1>12. States'
  <2>1. ASSUME NEW s, Trees(s), s.op \in Nat PROVE s.op <= op' /\ s.base = Delta(s.parent, s.wc) /\ s.op # op'
    BY <1>8, <2>1 DEF Trees
  <2>2. \A s \in retained : Trees(s)'
    BY <1>9, <2>1 DEF IInv, States, Trees
  <2>3. \A s \in status : s.op <= op'
    BY <1>8, <1>9
  <2>4. ~Loading => Trees(draft)'
    <3>1. ~Loading => draft.op <= op' /\ draft.base = Delta(draft.parent, draft.wc) /\ draft.op # op'
      BY <1>8, <1>10 DEF IInv, States, Trees
    <3> QED BY <1>2, <3>1 DEF Trees
  <2> QED BY <1>2, <2>2, <2>3, <2>4 DEF States, Loading
<1>13. OpKept'
  BY <1>4 DEF OpKept
<1>14. DiskKept'
  <2>1. \A s \in retained \cup status : s.op # op'
    BY <1>8, <1>9
  <2>2. ~Loading => draft.op # op'
    BY <1>8, <1>10
  <2> QED BY <1>2, <2>1, <2>2 DEF DiskKept, Loading
<1> QED BY <1>7, <1>11, <1>12, <1>13, <1>14 DEF IInv

-----------------------------------------------------------------------------
(* Requests *)
LEMMA ChosenIs ==
  ASSUME NEW S, S # {}
  PROVE  (CHOOSE s \in S : TRUE) \in S
OBVIOUS

(* The daemon takes p of what is reported and leaves q. *)
LEMMA TakeStep ==
  ASSUME IInv, StartRefresh \/ ForceRefresh
  PROVE  IInv'
<1>1. PICK p \in Pending :
        Take(p) /\ ((p = Nothing /\ pending' = pending) \/ (p = pending /\ pending' = Nothing))
  <2>1. pending \in Pending /\ Nothing \in Pending
    BY EmptyType DEF IInv, TypeOK, Pending
  <2>2. CASE StartRefresh
    BY <2>1, <2>2 DEF StartRefresh
  <2>3. CASE ForceRefresh
    BY <2>1, <2>3 DEF ForceRefresh
  <2> QED BY <2>2, <2>3
<1>2. /\ kind = "none" /\ kind' = KindOf(p) /\ paths' = p.paths
      /\ stage' = (IF kind' = "incremental" THEN "apply" ELSE "load")
      /\ left' = (IF kind' = "incremental" THEN p.paths ELSE {})
      /\ UNCHANGED <<parent, wc, op, disk, edits, overflows, retained, status, stale, lost>>
  BY <1>1 DEF Take, repo, store, shown
<1>3. /\ retained = {} => draft' = Blank
      /\ retained # {} => draft' \in retained
  BY <1>1, ChosenIs DEF Take
<1>4. Loading /\ paths = {}
  BY <1>2 DEF IInv, Job
<1>5. /\ kind' \in {"full", "validate", "incremental", "resync"}
      /\ kind' = "incremental" => ~p.hint /\ ~p.rescan /\ retained # {}
      /\ kind' = "full" => ~p.hint /\ ~p.rescan /\ (p.paths = {} \/ retained = {})
      /\ kind' = "validate" => ~p.rescan
  BY <1>2 DEF KindOf
<1>6. pending \in Pending /\ pending' \in Pending /\ retained \in SUBSET JjRepoState
  BY <1>1, EmptyType DEF IInv, TypeOK, Pending
<1>7. TypeOK'
  <2>1. draft' \in JjRepoState
    BY <1>3, <1>6, BlankType
  <2>2. p.paths \in SUBSET Files
    BY DEF Pending
  <2> QED BY <1>2, <1>5, <1>6, <2>1, <2>2 DEF IInv, TypeOK, Pending
<1>8. Loading' <=> kind' # "incremental"
  BY <1>2 DEF Loading
<1>9. Job'
  BY <1>2, <1>3, <1>5, <1>8 DEF IInv, Job
<1>10. States'
  BY <1>2, <1>3, <1>5, <1>8 DEF IInv, States, Trees
<1>11. OpKept'
  <2>1. ASSUME ~lost, NoNews', kind' \in {"full", "incremental"} PROVE \A s \in retained : s.op = op
    <3>1. NoNews
      BY <1>1, <1>5, <2>1 DEF NoNews, Nothing
    <3> QED BY <1>2, <1>4, <2>1, <3>1 DEF IInv, OpKept
  <2>2. kind' = "none" => FALSE
    BY <1>5
  <2> QED BY <1>2, <1>3, <1>5, <1>8, <2>1, <2>2 DEF OpKept
<1>12. DiskKept'
  <2>1. ASSUME ~lost, kind' # "resync", NEW s \in retained, s.op = op PROVE Accurate(s, p.paths)'
    <3>1. Accurate(s, {})
      BY <1>2, <1>4, <2>1 DEF IInv, DiskKept
    <3>2. ~p.rescan
      BY <1>5, <2>1
    <3>3. ASSUME NEW f, Reported(f) PROVE f \in p.paths \/ Reported(f)'
      BY <1>1, <3>2, <3>3 DEF Reported, Nothing
    <3> QED BY <1>2, <3>1, <3>3 DEF Accurate
  <2>2. kind' # "none"
    BY <1>5
  <2>3. (~lost /\ Loading' /\ kind' # "resync") => \A s \in retained' : s.op = op' => Accurate(s, paths)'
    BY <1>2, <2>1 DEF Accurate
  <2>4. (~lost /\ ~Loading' /\ draft'.op = op) => Accurate(draft, left)'
    <3> SUFFICES ASSUME ~lost, ~Loading', draft'.op = op PROVE Accurate(draft, left)'
      OBVIOUS
    <3>1. kind' = "incremental" /\ left' = p.paths /\ draft' \in retained
      BY <1>2, <1>3, <1>5, <1>8
    <3>2. PICK s \in retained : s = draft'
      BY <3>1
    <3>3. Accurate(s, p.paths)' /\ p.paths = left'
      BY <2>1, <3>1, <3>2
    <3> QED BY <3>2, <3>3 DEF Accurate
  <2> QED BY <1>2, <2>2, <2>3, <2>4 DEF DiskKept
<1>13. KnownKept'
  BY <1>2, <1>3, <1>5, <1>8 DEF IInv, Job, KnownKept
<1> QED BY <1>7, <1>9, <1>10, <1>11, <1>12, <1>13 DEF IInv

(* A request fails, and takes what it was to account for with it.          *)
LEMMA FailStep ==
  ASSUME IInv, Fail
  PROVE  IInv'
<1>1. /\ kind # "none" /\ kind' = "none" /\ stage' = "load" /\ paths' = {} /\ left' = {} /\ draft' = Blank
      /\ stale' = TRUE
      /\ UNCHANGED <<parent, wc, op, disk, edits, overflows, pending, status>>
  BY DEF Fail, JobEnds, repo, store
<1>2. (Loading /\ retained' = retained) \/ retained' = {}
  BY DEF Fail, Loading
<1>3. lost \in BOOLEAN /\ lost' \in BOOLEAN
  BY DEF IInv, TypeOK, Fail
<1>4. ~lost' => ~lost /\ paths = {} /\ kind = "full"
  BY <1>3 DEF Fail
<1>5. TypeOK'
  <2>1. Cardinality({}) = 0
    BY FS_EmptySet
  <2> QED BY <1>1, <1>2, <1>3, <2>1, BlankType DEF IInv, TypeOK
<1>6. Loading' /\ \A s \in retained' : Loading /\ s \in retained
  BY <1>1, <1>2 DEF Loading
<1>7. Job' /\ States' /\ KnownKept'
  BY <1>1, <1>6 DEF IInv, Job, States, Trees, KnownKept
<1>8. OpKept'
  BY <1>1, <1>4, <1>6 DEF IInv, OpKept, NoNews
<1>9. DiskKept'
  <2>1. ASSUME ~lost', NEW s \in retained', s.op = op PROVE Accurate(s, {})'
    <3>1. Accurate(s, {})
      BY <1>4, <1>6, <2>1 DEF IInv, DiskKept
    <3> QED BY <1>1, <3>1 DEF Accurate, Reported
  <2> QED BY <1>1, <1>6, <2>1 DEF DiskKept, Accurate
<1> QED BY <1>5, <1>7, <1>8, <1>9 DEF IInv

(* The router forgets the worker. *)
LEMMA ForgetStep ==
  ASSUME IInv, Forget
  PROVE  IInv'
<1>1. /\ kind = "none" /\ retained' = {}
      /\ UNCHANGED <<parent, wc, op, disk, edits, overflows, pending, kind, stage, paths, left, draft, status, stale, lost>>
  BY DEF Forget, repo, store, job, shown
<1>2. Cardinality({}) = 0
  BY FS_EmptySet
<1>3. TypeOK'
  BY <1>1, <1>2 DEF IInv, TypeOK
<1>4. Job' /\ States' /\ KnownKept' /\ OpKept'
  BY <1>1 DEF IInv, Job, States, Trees, KnownKept, OpKept, NoNews, Loading
<1>5. DiskKept'
  BY <1>1 DEF IInv, DiskKept, Job, Loading, Shows, Reported
<1> QED BY <1>3, <1>4, <1>5 DEF IInv

-----------------------------------------------------------------------------
(* The worker *)
(* A load leaves a draft of the operation at the head, which accounts for  *)
(* the disk once its files are diffed, unless a report of them was lost.   *)
LEMMA LoadStep ==
  ASSUME IInv, kind # "none", Loading, stage' = "apply", lost' \in BOOLEAN,
         UNCHANGED <<repo, pending, retained, kind, paths, shown>>,
         NEW d \in JjRepoState, draft' = d, NEW fs \in SUBSET Files, left' = fs,
         d.op = op, d.base = Delta(d.parent, d.wc), d.parent = parent, d.wc = wc,
         ~lost' => Accurate(d, fs),
         kind # "full" => \A r \in retained : (r.parent = d.parent /\ r.wc = d.wc)
                                                => DOMAIN r.overlay \subseteq DOMAIN d.overlay \cup fs
  PROVE  IInv'
<1>1. UNCHANGED <<parent, wc, op, disk, edits, overflows, status, stale>> /\ ~Loading'
  BY DEF repo, store, shown, Loading
<1>2. TypeOK'
  BY <1>1 DEF IInv, TypeOK
<1>3. Job'
  BY <1>1 DEF IInv, Job
<1>4. States'
  <2>1. op \in Nat
    BY BoundsAssumption DEF IInv, TypeOK
  <2> QED BY <1>1, <2>1 DEF IInv, States, Trees
<1>5. OpKept'
  BY <1>1 DEF OpKept
<1>6. DiskKept'
  BY <1>1 DEF DiskKept, Accurate, Reported
<1>7. KnownKept'
  BY <1>1 DEF KnownKept
<1> QED BY <1>2, <1>3, <1>4, <1>5, <1>6, <1>7 DEF IInv

(* From the store alone, a draft has no overlay. *)
LEMMA BuiltIs ==
  ASSUME TypeOK, NEW T
  PROVE  /\ Built \in JjRepoState /\ Accurate(Built, T)
         /\ Built.op = op /\ Built.base = Delta(Built.parent, Built.wc)
         /\ Built.parent = parent /\ Built.wc = wc /\ DOMAIN Built.overlay = {}
<1>1. Built \in JjRepoState
  BY StateType DEF TypeOK, Built
<1>2. Built.overlay = NoOverlay /\ Built.op = op /\ Built.parent = parent /\ Built.wc = wc
      /\ Built.base = Delta(Built.parent, Built.wc)
  BY DEF Built
<1> QED BY <1>1, <1>2, NoOverlayType DEF Accurate

(* The files known to be dirty are files. *)
LEMMA KnownType ==
  ASSUME NEW S \in SUBSET JjRepoState
  PROVE  Known(S) \in SUBSET Files
<1>1. \A s \in S : DOMAIN s.overlay \subseteq Files
  BY StateFields, OverlayIs
<1> QED BY <1>1 DEF Known

(* A load at an operation that is there: from scratch, resynced or validated. *)
LEMMA LoadFromStore ==
  ASSUME IInv, LoadFull \/ LoadResync \/ ValidateChanged
  PROVE  IInv'
<1>1. TypeOK /\ retained \in SUBSET JjRepoState /\ paths \in SUBSET Files
  BY DEF IInv, TypeOK
<1>2. kind # "none" /\ lost' = FALSE
  BY DEF LoadFull, LoadResync, ValidateChanged
<1>3. ASSUME NEW fs \in SUBSET Files, Load(Built, fs),
             kind # "full" => \A r \in retained : (r.parent = parent /\ r.wc = wc) => DOMAIN r.overlay \subseteq fs
      PROVE  IInv'
  <2>1. /\ stage = "load" /\ stage' = "apply" /\ draft' = Built /\ left' = fs
        /\ UNCHANGED <<repo, pending, retained, kind, paths, shown>>
    BY <1>3 DEF Load
  <2> DEFINE d == Built
  <2>2. /\ d \in JjRepoState /\ Accurate(d, fs)
        /\ d.op = op /\ d.base = Delta(d.parent, d.wc)
        /\ d.parent = parent /\ d.wc = wc /\ DOMAIN d.overlay = {}
    BY <1>1, BuiltIs
  <2>3. draft' = d /\ Loading
    BY <2>1 DEF Loading
  <2> HIDE DEF d
  <2>4. kind # "full" => \A r \in retained : (r.parent = d.parent /\ r.wc = d.wc)
                                              => DOMAIN r.overlay \subseteq DOMAIN d.overlay \cup fs
    BY <1>3, <2>2
  <2> QED BY <1>2, <2>1, <2>2, <2>3, <2>4, LoadStep
<1>4. CASE LoadFull
  <2>1. Load(Built, {}) /\ (kind # "full" => retained = {})
    BY <1>4 DEF LoadFull
  <2> QED BY <1>3, <2>1
<1>5. CASE LoadResync
  <2>1. Load(Built, Known(retained)) /\ Known(retained) \in SUBSET Files
    BY <1>1, <1>5, KnownType DEF LoadResync, Resynced
  <2>2. \A r \in retained : DOMAIN r.overlay \subseteq Known(retained)
    BY DEF Known
  <2> QED BY <1>3, <2>1, <2>2
<1>6. CASE ValidateChanged
  <2>1. Load(Built, paths) /\ retained # {} /\ ~TreesUnchanged(draft) /\ kind = "validate" /\ Loading
    BY <1>6 DEF ValidateChanged, Load, Loading
  <2>2. \A r \in retained : r = draft
    BY <2>1 DEF IInv, Job
  <2>3. \A r \in retained : ~(r.parent = parent /\ r.wc = wc)
    BY <2>1, <2>2 DEF TreesUnchanged
  <2> QED BY <1>1, <1>3, <2>1, <2>3
<1> QED BY <1>4, <1>5, <1>6

(* A state that is still valid, with what is new of the operation *)
LEMMA LoadKept ==
  ASSUME IInv, ValidateUnchanged
  PROVE  IInv'
<1>1. /\ kind = "validate" /\ retained # {} /\ TreesUnchanged(draft) /\ stage = "load" /\ stage' = "apply"
      /\ draft' = UpdateMetadata(draft)
      /\ left' = paths \cup (IF draft.op # op THEN DOMAIN draft.overlay ELSE {})
      /\ UNCHANGED <<repo, pending, retained, kind, paths, shown>> /\ lost' = lost
  BY DEF ValidateUnchanged, Load
<1>2. draft \in JjRepoState /\ op \in 0..MaxOps /\ paths \in SUBSET Files /\ lost \in BOOLEAN
  BY DEF IInv, TypeOK
<1>3. Loading /\ draft \in retained /\ Trees(draft) /\ \A r \in retained : r = draft
  BY <1>1 DEF IInv, Job, States, Loading
<1> DEFINE d == [parent |-> draft.parent, wc |-> draft.wc, op |-> op, base |-> draft.base, overlay |-> draft.overlay]
           fs == paths \cup (IF draft.op # op THEN DOMAIN draft.overlay ELSE {})
<1>4. UpdateMetadata(draft) = d
  BY <1>2, OpOf DEF UpdateMetadata
<1>5. d \in JjRepoState /\ DOMAIN draft.overlay \subseteq Files
  BY <1>2, StateFields, OverlayIs DEF JjRepoState
<1>6. d.op = op /\ d.base = Delta(d.parent, d.wc) /\ d.parent = parent /\ d.wc = wc
  BY <1>1, <1>3 DEF TreesUnchanged, Trees
<1>7. d.overlay = draft.overlay
  OBVIOUS
<1>8. fs \in SUBSET Files /\ (draft.op # op => DOMAIN draft.overlay \subseteq fs) /\ paths \subseteq fs
  BY <1>2, <1>5
<1> HIDE DEF d, fs
<1>9. ~lost => Accurate(d, fs)
  <2>1. CASE draft.op # op
    BY <1>7, <1>8, <2>1 DEF Accurate
  <2>2. CASE draft.op = op
    <3>1. ~lost => Accurate(draft, paths)
      BY <1>1, <1>3, <2>2 DEF IInv, DiskKept
    <3> QED BY <1>7, <1>8, <3>1 DEF Accurate
  <2> QED BY <2>1, <2>2
<1>10. \A r \in retained : DOMAIN r.overlay \subseteq DOMAIN d.overlay \cup fs
  BY <1>3, <1>7
<1>11. kind # "none" /\ lost' \in BOOLEAN /\ draft' = d /\ left' = fs
  BY <1>1, <1>2, <1>4 DEF fs
<1>12. ~lost' => Accurate(d, fs)
  BY <1>1, <1>9
<1> QED BY <1>1, <1>3, <1>5, <1>6, <1>8, <1>10, <1>11, <1>12, LoadStep

(* A file is diffed on the disk. *)
LEMMA ApplyStep ==
  ASSUME IInv, NEW f \in Files, ApplyPath(f)
  PROVE  IInv'
<1> DEFINE o == [g \in DOMAIN draft.overlay \cup {f} |->
                   IF g = f THEN Delta(draft.parent, disk)[f] ELSE draft.overlay[g]]
           d == [parent |-> draft.parent, wc |-> draft.wc, op |-> draft.op, base |-> draft.base, overlay |-> o]
<1>1. /\ kind # "none" /\ stage = "apply" /\ f \in left
      /\ draft' = [draft EXCEPT !.overlay = o] /\ left' = left \ {f}
      /\ UNCHANGED <<parent, wc, op, disk, edits, overflows, pending, retained, kind, stage, paths, status, stale, lost>>
  BY DEF ApplyPath, repo, store, shown
<1>2. draft \in JjRepoState /\ disk \in Tree /\ left \in SUBSET Files
  BY DEF IInv, TypeOK
<1>3. /\ draft.overlay \in [DOMAIN draft.overlay -> FileDiff] /\ DOMAIN draft.overlay \subseteq Files
      /\ draft.parent \in Tree
  BY <1>2, StateFields, OverlayIs
<1>4. Delta(draft.parent, disk)[f] \in FileDiff
  BY <1>2, <1>3, DeltaType
<1>5. /\ DOMAIN o = DOMAIN draft.overlay \cup {f} /\ o \in [DOMAIN draft.overlay \cup {f} -> FileDiff]
      /\ o[f] = Delta(draft.parent, disk)[f]
      /\ \A g \in DOMAIN draft.overlay \ {f} : o[g] = draft.overlay[g]
  BY <1>3, <1>4
<1> HIDE DEF o
<1>6. o \in Overlays
  <2>1. DOMAIN draft.overlay \cup {f} \in SUBSET Files
    BY <1>3
  <2> QED BY <1>5, <2>1, OverlayType
<1>7. draft' = d
  BY <1>1, <1>2, <1>6, OverlayOf
<1>8. d \in JjRepoState
  BY <1>2, <1>6 DEF JjRepoState
<1>9. d.parent = draft.parent /\ d.wc = draft.wc /\ d.op = draft.op /\ d.base = draft.base /\ d.overlay = o
  OBVIOUS
<1> HIDE DEF d
<1>10. TypeOK'
  BY <1>1, <1>2, <1>7, <1>8 DEF IInv, TypeOK
<1>11. ~Loading /\ ~Loading'
  BY <1>1 DEF Loading
<1>12. Job'
  BY <1>1, <1>11 DEF IInv, Job
<1>13. Trees(draft)
  BY <1>11 DEF IInv, States
<1>14. States'
  BY <1>1, <1>7, <1>9, <1>13 DEF IInv, States, Trees
<1>15. OpKept'
  BY <1>1, <1>7, <1>9, <1>11 DEF IInv, OpKept, NoNews
<1>16. DiskKept'
  <2>1. ASSUME ~lost, d.op = op, NEW g \in DOMAIN o
        PROVE  o[g] = Delta(parent, disk)[g] \/ g \in left' \/ Reported(g)
    <3>1. draft.parent = parent /\ Accurate(draft, left)
      BY <1>9, <1>11, <1>13, <2>1 DEF IInv, DiskKept, Trees
    <3>2. CASE g = f
      BY <1>5, <3>1, <3>2
    <3>3. CASE g # f
      <4>1. g \in DOMAIN draft.overlay /\ o[g] = draft.overlay[g]
        BY <1>5, <2>1, <3>3
      <4> QED BY <1>1, <3>1, <3>3, <4>1 DEF Accurate
    <3> QED BY <3>2, <3>3
  <2> QED BY <1>1, <1>7, <1>9, <1>11, <2>1 DEF DiskKept, Accurate, Reported
<1>17. KnownKept'
  BY <1>1, <1>5, <1>7, <1>9, <1>11 DEF IInv, KnownKept
<1> QED BY <1>10, <1>12, <1>14, <1>15, <1>16, <1>17 DEF IInv

(* The draft is kept, and its status shown. *)
LEMMA ReplyStep ==
  ASSUME IInv, Reply
  PROVE  IInv'
<1>1. /\ kind # "none" /\ stage = "apply" /\ left = {}
      /\ kind' = "none" /\ stage' = "load" /\ paths' = {} /\ left' = {} /\ draft' = Blank
      /\ retained' = {draft} /\ status' = {current_status(draft)} /\ stale' = FALSE
      /\ UNCHANGED <<parent, wc, op, disk, edits, overflows, pending, lost>>
  BY DEF Reply, JobEnds, repo, store
<1>2. draft \in JjRepoState
  BY DEF IInv, TypeOK
<1>3. /\ current_status(draft) \in RepoStatus /\ current_status(draft).op = draft.op
      /\ \A f \in Files : current_status(draft).diff[f] = IF f \in DOMAIN draft.overlay THEN draft.overlay[f] ELSE draft.base[f]
  BY <1>2, StatusIs
<1>4. ~Loading /\ Loading' /\ Trees(draft)
  BY <1>1 DEF IInv, States, Loading
<1>5. TypeOK'
  <2>1. Cardinality({draft}) = 1 /\ Cardinality({current_status(draft)}) = 1
    BY FS_Singleton
  <2>2. Cardinality(retained') <= 1 /\ Cardinality(status') <= 1
    BY <1>1, <2>1
  <2>3. retained' \in SUBSET JjRepoState /\ status' \in SUBSET RepoStatus
    BY <1>1, <1>2, <1>3
  <2>4. {stale', lost'} \subseteq BOOLEAN
    BY <1>1 DEF IInv, TypeOK
  <2> QED BY <1>1, <2>2, <2>3, <2>4, BlankType DEF IInv, TypeOK
<1>6. Job' /\ KnownKept'
  BY <1>1, <1>4 DEF Job, KnownKept
<1>7. States'
  BY <1>1, <1>3, <1>4 DEF States, Trees
<1>8. OpKept'
  BY <1>1, <1>3, <1>4 DEF IInv, OpKept, NoNews
<1>9. DiskKept'
  <2>1. ASSUME ~lost, draft.op = op PROVE Accurate(draft, {}) /\ Shows(current_status(draft))
    <3>1. Accurate(draft, {})
      BY <1>1, <1>4, <2>1 DEF IInv, DiskKept
    <3>2. draft.base = Delta(parent, wc)
      BY <1>4, <2>1 DEF Trees
    <3>3. Shows(current_status(draft))
      BY <1>3, <3>1, <3>2 DEF Shows, Accurate
    <3> QED BY <3>1, <3>3
  <2> DEFINE st == current_status(draft)
  <2>2. st.op = draft.op /\ status' = {st}
    BY <1>1, <1>3
  <2> HIDE DEF st
  <2>3. ~lost => \A s \in status' : s.op = op => Shows(s)'
    BY <1>1, <2>1, <2>2 DEF Shows, Reported, st
  <2>4. ~lost => \A s \in retained' : s.op = op => Accurate(s, {})'
    BY <1>1, <2>1 DEF Accurate, Reported
  <2> QED BY <1>1, <1>4, <2>3, <2>4 DEF DiskKept, Accurate
<1> QED BY <1>5, <1>6, <1>7, <1>8, <1>9 DEF IInv

-----------------------------------------------------------------------------
(* The invariant is one. *)
LEMMA StepIInv == IInv /\ [Next]_vars => IInv'
<1> SUFFICES ASSUME IInv, [Next]_vars PROVE IInv'
  OBVIOUS
<1>1. CASE Environment
  BY <1>1, EditStep, CommandStep DEF Environment
<1>2. CASE StartRefresh \/ ForceRefresh
  BY <1>2, TakeStep
<1>3. CASE Fail \/ Forget
  BY <1>3, FailStep, ForgetStep
<1>4. CASE Worker
  BY <1>4, LoadFromStore, LoadKept, ApplyStep, ReplyStep DEF Worker
<1>5. CASE UNCHANGED vars
  BY <1>5 DEF vars, repo, store, job, shown, IInv, TypeOK, Job, States, Trees, OpKept, DiskKept, KnownKept,
     NoNews, Loading, Accurate, Shows, Reported
<1> QED BY <1>1, <1>2, <1>3, <1>4, <1>5 DEF Next

(* Every reachable state satisfies it. *)
LEMMA SpecIInv == Spec => []IInv
BY InitIInv, StepIInv, PTL DEF Spec

(* Every variable has its type: JjRepoState, RepoStatus and requests are   *)
(* what repo_worker_loop says they are.                                    *)
THEOREM TypeCorrect == Spec => []TypeOK
<1>1. IInv => TypeOK
  BY DEF IInv
<1> QED BY <1>1, SpecIInv, PTL

(* Once a repository is settled its metadata is that of the operation at   *)
(* the head, whatever refreshes failed, were forced, or overlapped with    *)
(* operations, unless a report was lost with one and is not made up for.   *)
THEOREM MetadataIsCurrent == Spec => []OpIsCurrent
<1>1. ASSUME IInv PROVE OpIsCurrent
  <2> SUFFICES ASSUME Settled, ~lost PROVE \A s \in status : s.op = op
    BY DEF OpIsCurrent
  <2>1. NoNews /\ kind = "none" /\ ~stale
    BY DEF Settled, NoNews, Nothing
  <2> QED BY <1>1, <2>1 DEF IInv, OpKept
<1> QED BY <1>1, SpecIInv, PTL

(* Once settled, what is shown of a file is the disk's content or that of  *)
(* the last snapshot, against the parent there is now.                     *)
THEOREM DiffIsOfNow == Spec => []DiffIsDiskOrSnapshot
<1>1. ASSUME IInv PROVE DiffIsDiskOrSnapshot
  <2> SUFFICES ASSUME Settled, ~lost, NEW s \in status, NEW f \in Files
               PROVE  s.diff[f] \in {Delta(parent, disk)[f], Delta(parent, wc)[f]}
    BY DEF DiffIsDiskOrSnapshot
  <2>1. NoNews /\ kind = "none" /\ ~stale /\ ~Reported(f)
    BY DEF Settled, NoNews, Nothing, Reported
  <2>2. s.op = op
    BY <1>1, <2>1 DEF IInv, OpKept
  <2>3. Shows(s)
    BY <1>1, <2>1, <2>2 DEF IInv, DiskKept
  <2> QED BY <2>1, <2>3 DEF Shows
<1> QED BY <1>1, SpecIInv, PTL

(* While the trees stay, no refresh but a full one loses track of a file   *)
(* known to be dirty.                                                      *)
THEOREM DirtyIsRemembered == Spec => KnownStaysKnown
<1> DEFINE Keeps == \A r \in retained, s \in retained' :
                      (kind # "full" /\ r.parent = s.parent /\ r.wc = s.wc) => Known({r}) \subseteq Known({s})
<1>1. \A s : Known({s}) = DOMAIN s.overlay
  BY DEF Known
<1>2. ASSUME IInv, [Next]_vars PROVE [Keeps]_vars
  <2> SUFFICES ASSUME NEW r \in retained, NEW s \in retained', kind # "full", r.parent = s.parent, r.wc = s.wc
               PROVE  DOMAIN r.overlay \subseteq DOMAIN s.overlay
    BY <1>1
  <2>1. CASE retained' \subseteq retained
    <3>1. r = s
      BY <1>2, <2>1 DEF IInv, Job
    <3> QED BY <3>1
  <2>2. CASE Reply
    <3>1. s = draft /\ left = {} /\ ~Loading
      BY <2>2 DEF Reply, Loading
    <3>2. DOMAIN r.overlay \subseteq DOMAIN draft.overlay \cup left
      BY <1>2, <3>1 DEF IInv, KnownKept
    <3> QED BY <3>1, <3>2
  <2>3. retained' \subseteq retained \/ Reply
    <3>1. CASE Environment
      BY <3>1 DEF Environment, JjCommand, OtherCommand, Edit, Outside
    <3>2. CASE StartRefresh \/ ForceRefresh \/ Fail \/ Forget
      BY <3>2 DEF StartRefresh, ForceRefresh, Take, Fail, Forget
    <3>3. CASE Worker
      BY <3>3 DEF Worker, LoadFull, LoadResync, ValidateUnchanged, ValidateChanged, Load, ApplyPath
    <3>4. CASE UNCHANGED vars
      BY <3>4 DEF vars
    <3> QED BY <1>2, <3>1, <3>2, <3>3, <3>4 DEF Next
  <2> QED BY <2>1, <2>2, <2>3
<1>3. Spec => [][Keeps]_vars
  BY <1>2, SpecIInv, PTL DEF Spec
<1> QED BY <1>3 DEF KnownStaysKnown

-----------------------------------------------------------------------------
(* The status over several remotes *)

(* Less than, as a set of pairs *)
Below == {ss \in Nat \X Nat : ss[1] < ss[2]}

(* The order of the naturals is well founded as a set of pairs: induction *)
(* without an operator for the hypothesis                                 *)
LEMMA BelowIsWellFounded == IsWellFoundedOn(Below, Nat)
BY NatLessThanWellFounded DEF OpToRel, Below

(* A set of naturals that has an element has a least one *)
LEMMA Least ==
  ASSUME NEW T, T \subseteq Nat, T # {}
  PROVE  \E x \in T : \A y \in T : x <= y
<1>1. PICK x \in T : \A y \in T : ~ (<<y, x>> \in Below)
  BY BelowIsWellFounded, WFMin
<1>2. ASSUME NEW y \in T PROVE x <= y
  <2>1. x \in Nat /\ y \in Nat
    OBVIOUS
  <2>2. ~(y < x)
    <3>1. <<y, x>> \notin Below
      BY <1>1
    <3> QED BY <3>1, <2>1 DEF Below
  <2> QED BY <2>1, <2>2
<1> QED BY <1>2

(* Induction, for a set: one that holds 0 and the successor of what it *)
(* holds, holds every natural                                          *)
LEMMA NatSet ==
  ASSUME NEW S, 0 \in S, \A n \in Nat : n \in S => n + 1 \in S
  PROVE  Nat \subseteq S
<1> DEFINE T == Nat \ S
<1> SUFFICES ASSUME T # {} PROVE FALSE
  OBVIOUS
<1>3. PICK x \in T : \A y \in T : x <= y
  BY Least
<1>4. x # 0 /\ x - 1 \in Nat /\ x - 1 < x /\ (x - 1) + 1 = x
  BY <1>3
<1>5. x - 1 \in T
  BY <1>4, <1>3
<1> QED BY <1>3, <1>5, <1>4

(* What a fold takes next of an interval is the greatest of what is left *)
LEMMA Greatest ==
  ASSUME NEW n \in Nat, NEW S, S \subseteq 1..n, S # {}
  PROVE  Max(S) \in S /\ \A y \in S : y <= Max(S)
<1> DEFINE T == {n - i : i \in S}
<1>1. \A i \in S : i \in Nat /\ i <= n /\ n - i \in Nat
  OBVIOUS
<1>5. T \subseteq Nat /\ T # {}
  BY <1>1
<1>2. PICK t \in T : \A y \in T : t <= y
  BY <1>5, Least
<1>3. PICK x \in S : t = n - x
  BY <1>2
<1>4. \A y \in S : x >= y
  <2> TAKE y \in S
  <2>1. n - y \in T
    OBVIOUS
  <2>2. n - x <= n - y
    BY <2>1, <1>2, <1>3
  <2> QED BY <2>2, <1>1
<1> QED BY <1>4, <1>3 DEF Max

(* What classify_tracking answers *)
Tracked == {"tracked", "ahead", "behind", "sideways"}

(* One more status: compute_tracking_statuses's match takes the worst so *)
(* far to the worst with it                                              *)
LEMMA OneWorse ==
  ASSUME NEW s \in SUBSET Tracked, NEW t \in Tracked
  PROVE  Escalate(Worst(s), t) = Worst(s \cup {t})
BY DEF Escalate, Worst, Tracked

(* What the fold's function satisfies *)
IterIs(f, st) ==
  f = [s \in SUBSET DOMAIN st |->
        IF s = {} THEN "untracked" ELSE Escalate(f[s \ {Max(s)}], st[Max(s)])]

(* The fold is a function over the sets of places that satisfies its own *)
(* equation                                                              *)
LEMMA TrackingIterates ==
  ASSUME NEW st
  PROVE  compute_tracking_statuses(st) = (CHOOSE f : IterIs(f, st))[DOMAIN st]
BY DEF compute_tracking_statuses, FoldLeft, MapThenFoldSet, IterIs
(* Such a function exists: the worst of the statuses at those places *)
LEMMA IterationExists ==
  ASSUME NEW st \in Seq(Tracked)
  PROVE  IterIs([s \in SUBSET DOMAIN st |-> Worst({st[i] : i \in s})], st)
<1> DEFINE D == DOMAIN st
           V == [s \in SUBSET D |-> Worst({st[i] : i \in s})]
<1>1. D = 1..Len(st) /\ Len(st) \in Nat /\ \A i \in D : st[i] \in Tracked
  OBVIOUS
<1>2. ASSUME NEW s \in SUBSET D, s # {}
      PROVE  V[s] = Escalate(V[s \ {Max(s)}], st[Max(s)])
  <2>1. Max(s) \in s
    BY <1>1, <1>2, Greatest
  <2> DEFINE x == Max(s)
             T == {st[i] : i \in s \ {x}}
  <2>2. {st[i] : i \in s} = T \cup {st[x]} /\ T \in SUBSET Tracked /\ st[x] \in Tracked
    BY <2>1, <1>1
  <2>3. V[s] = Worst(T \cup {st[x]}) /\ V[s \ {x}] = Worst(T)
    BY <2>2
  <2> QED BY <2>2, <2>3, OneWorse
<1>3. V[{}] = "untracked"
  BY DEF Worst
<1>4. V = [s \in SUBSET D |-> IF s = {} THEN "untracked" ELSE Escalate(V[s \ {Max(s)}], st[Max(s)])]
  BY <1>2, <1>3
<1> QED BY <1>4 DEF IterIs

(* Any such function is that one, for the first places *)
LEMMA IterationReaches ==
  ASSUME NEW st \in Seq(Tracked), NEW f, IterIs(f, st), NEW k \in 0..Len(st)
  PROVE  f[1..k] = Worst({st[i] : i \in 1..k})
<1> DEFINE S == {n \in Nat : n <= Len(st) => f[1..n] = Worst({st[i] : i \in 1..n})}
           V == [s \in SUBSET DOMAIN st |-> Worst({st[i] : i \in s})]
<1>0. DOMAIN st = 1..Len(st) /\ Len(st) \in Nat /\ \A i \in DOMAIN st : st[i] \in Tracked
  OBVIOUS
<1>6. \A s \in SUBSET DOMAIN st :
        f[s] = IF s = {} THEN "untracked" ELSE Escalate(f[s \ {Max(s)}], st[Max(s)])
  BY IterIs(f, st) DEF IterIs
<1>1. 0 \in S
  <2>1. 1..0 = {}
    OBVIOUS
  <2>2. f[{}] = "untracked"
    BY <1>6
  <2>3. {st[i] : i \in 1..0} = {}
    BY <2>1
  <2>4. Worst({}) = "untracked"
    BY DEF Worst
  <2> QED BY <2>1, <2>2, <2>3, <2>4
<1>2. ASSUME NEW n \in Nat, n \in S PROVE n + 1 \in S
  <2>1. SUFFICES ASSUME n + 1 <= Len(st)
                 PROVE  f[1..(n + 1)] = Worst({st[i] : i \in 1..(n + 1)})
    OBVIOUS
  <2> DEFINE s == 1..(n + 1)
  <2>2. s \in SUBSET DOMAIN st /\ s # {} /\ n + 1 \in s /\ \A y \in s : y <= n + 1
    <3>1. n + 1 \in 1..Len(st)
      BY <2>1, <1>0
    <3>2. s \subseteq 1..Len(st)
      BY <2>1, <1>0
    <3> QED BY <3>1, <3>2, <1>0
  <2>3. Max(s) \in s /\ \A y \in s : y <= Max(s)
    BY <2>2, Greatest, n + 1 \in Nat
  <2>4. Max(s) = n + 1
    BY <2>2, <2>3
  <2>5. s \ {Max(s)} = 1..n
    BY <2>4
  <2> HIDE DEF s
  <2>6. f[s] = Escalate(f[1..n], st[n + 1])
    BY <2>2, <2>4, <2>5, <1>6
  <2>7. f[1..n] = Worst({st[i] : i \in 1..n})
    BY <1>2, <2>1
  <2> DEFINE T == {st[i] : i \in 1..n}
  <2>8. {st[i] : i \in s} = T \cup {st[n + 1]} /\ T \in SUBSET Tracked /\ st[n + 1] \in Tracked
    BY <1>0, <2>1 DEF s
  <2> HIDE DEF T
  <2>9. f[s] = Worst(T \cup {st[n + 1]})
    BY <2>6, <2>7, <2>8, OneWorse DEF T
  <2> QED BY <2>8, <2>9 DEF s
<1>3. Nat \subseteq S
  <2> HIDE DEF S
  <2> QED BY <1>1, <1>2, NatSet
<1> QED BY <1>3, <1>0

(* A bookmark on any number of remotes shows the worst of their statuses, *)
(* whatever their order (compute_tracking_statuses, jj.rs): a run looks   *)
(* at three.                                                              *)
THEOREM TrackingOfAny ==
  ASSUME NEW st \in Seq(Tracked)
  PROVE  compute_tracking_statuses(st) = Worst(ToSet(st))
<1>1. IterIs(CHOOSE f : IterIs(f, st), st)
  BY IterationExists
<1> DEFINE f == CHOOSE g : IterIs(g, st)
<1>2. IterIs(f, st)
  BY <1>1
<1>3. compute_tracking_statuses(st) = f[DOMAIN st]
  BY TrackingIterates
<1> HIDE DEF f
<1>4. DOMAIN st = 1..Len(st) /\ Len(st) \in 0..Len(st)
  OBVIOUS
<1>5. f[1..Len(st)] = Worst({st[i] : i \in 1..Len(st)})
  BY <1>2, <1>4, IterationReaches
<1>6. ToSet(st) = {st[i] : i \in 1..Len(st)}
  BY <1>4 DEF ToSet
<1> QED BY <1>3, <1>4, <1>5, <1>6

(* A remote's status is one of four *)
LEMMA Classified ==
  \A l, r : classify_tracking(l, r) \in Tracked
BY DEF classify_tracking, Tracked

(* So what the run checks of one, two and three remotes holds for every *)
(* graph and any number of commits.                                     *)
THEOREM TrackingShowsWorst == FindSpec => []TrackingIsWorst
<1>1. ASSUME NEW s1 \in Tracked, NEW s2 \in Tracked, NEW s3 \in Tracked
      PROVE  compute_tracking_statuses(<<s1, s2, s3>>) = Worst({s1, s2, s3})
  <2>1. <<s1, s2, s3>> \in Seq(Tracked)
    OBVIOUS
  <2>2. ToSet(<<s1, s2, s3>>) = {s1, s2, s3}
    BY DEF ToSet
  <2> QED BY <2>1, <2>2, TrackingOfAny
<1>2. ASSUME NEW b, NEW l, NEW s1 \in {classify_tracking(l, r) : r \in Commits},
             NEW s2 \in {classify_tracking(l, r) : r \in Commits},
             NEW s3 \in {classify_tracking(l, r) : r \in Commits}
      PROVE  compute_tracking_statuses(<<s1, s2, s3>>) = Worst({s1, s2, s3})
  <2>1. {classify_tracking(l, r) : r \in Commits} \subseteq Tracked
    BY Classified
  <2> QED BY <2>1, <1>1
<1>3. TrackingIsWorst
  BY <1>2 DEF TrackingIsWorst
<1> QED BY <1>3, PTL

-----------------------------------------------------------------------------
(* Histories and distances *)

(* The parents of a set of commits *)
Parents(g, S) == UNION {g[c] : c \in S}

(* A start and its first n steps *)
Iterates(f, D, a, s, n) ==
  f \in [0..n -> D] /\ f[0] = a /\ \A k \in 1..n : f[k] = s[f[k - 1]]

(* A function of the naturals up to n given by its start and a step *)
(* exists                                                           *)
LEMMA Iterated ==
  ASSUME NEW D, NEW a \in D, NEW s \in [D -> D], NEW n \in Nat
  PROVE  \E f : Iterates(f, D, a, s, n)
<1> DEFINE Is(f, m) == f \in [0..m -> D] /\ f[0] = a /\ \A k \in 1..m : f[k] = s[f[k - 1]]
           M == {m \in Nat : \E f : Is(f, m)}
<1>1. 0 \in M
  <2>1. Is([k \in 0..0 |-> a], 0)
    OBVIOUS
  <2> QED BY <2>1
<1>2. ASSUME NEW m \in Nat, m \in M PROVE m + 1 \in M
  <2>1. PICK f : Is(f, m)
    BY <1>2
  <2> DEFINE h == [k \in 0..(m + 1) |-> IF k = m + 1 THEN s[f[m]] ELSE f[k]]
  <2>2. f[m] \in D /\ m \in 0..m /\ s[f[m]] \in D
    BY <2>1
  <2>3. h \in [0..(m + 1) -> D]
    BY <2>1, <2>2
  <2>4. h[0] = a
    BY <2>1
  <2>5. ASSUME NEW k \in 1..(m + 1) PROVE h[k] = s[h[k - 1]]
    <3>1. h[k - 1] = f[k - 1]
      OBVIOUS
    <3>2. CASE k = m + 1
      BY <3>1, <3>2
    <3>3. CASE k # m + 1
      <4>1. k \in 1..m /\ h[k] = f[k]
        BY <3>3
      <4> QED BY <4>1, <3>1, <2>1
    <3> QED BY <3>2, <3>3
  <2> QED BY <2>3, <2>4, <2>5
<1>3. Nat \subseteq M
  <2> HIDE DEF M
  <2> QED BY <1>1, <1>2, NatSet
<1> QED BY <1>3 DEF Iterates

(* Parents come before their children *)
LEMMA GraphFacts ==
  ASSUME NEW g \in Graphs, NEW c \in Commits
  PROVE  /\ g \in [Commits -> SUBSET Commits]
         /\ g[c] \in SUBSET Commits
         /\ \A p \in g[c] : p < c /\ p \in Commits
BY DEF Graphs

(* The parents of commits are commits *)
LEMMA ParentsFacts ==
  ASSUME NEW g \in Graphs, NEW S \in SUBSET Commits
  PROVE  Parents(g, S) \in SUBSET Commits
BY GraphFacts DEF Parents

(* What History's function satisfies *)
UpIs(f, g, S) ==
  f = [k \in 0..N |-> IF k = 0 THEN S ELSE f[k - 1] \cup UNION {g[c] : c \in f[k - 1]}]

(* The history is what is reached in N steps *)
LEMMA HistorySteps ==
  ASSUME NEW g \in Graphs, NEW S \in SUBSET Commits
  PROVE  \E u \in [0..N -> SUBSET Commits] :
           /\ u[0] = S
           /\ \A k \in 1..N : u[k] = u[k - 1] \cup Parents(g, u[k - 1])
           /\ History(g, S) = u[N]
<1> DEFINE D == SUBSET Commits
           s == [X \in D |-> X \cup Parents(g, X)]
<1>1. s \in [D -> D] /\ N \in Nat /\ S \in D
  BY ParentsFacts, InstanceAssumption
<1>2. PICK f \in [0..N -> D] : f[0] = S /\ \A k \in 1..N : f[k] = s[f[k - 1]]
  <2> HIDE DEF s, D
  <2>1. \E f : Iterates(f, D, S, s, N)
    BY <1>1, Iterated
  <2> QED BY <2>1 DEF Iterates
<1>3. \A k \in 1..N : f[k] = f[k - 1] \cup Parents(g, f[k - 1])
  <2> TAKE k \in 1..N
  <2>1. k - 1 \in 0..N
    BY <1>1
  <2>2. f[k - 1] \in D
    BY <2>1, <1>2
  <2> QED BY <2>2, <1>2
<1>4. f = [k \in 0..N |-> IF k = 0 THEN S ELSE f[k - 1] \cup Parents(g, f[k - 1])]
  <2>1. \A k \in 0..N : k # 0 => k \in 1..N
    BY <1>1
  <2> QED BY <1>2, <1>3, <2>1
<1>5. UpIs(f, g, S)
  BY <1>4 DEF UpIs, Parents
<1> DEFINE u == CHOOSE h : UpIs(h, g, S)
<1>6. UpIs(u, g, S)
  BY <1>5
<1>7. History(g, S) = u[N]
  BY DEF History, UpIs
<1> HIDE DEF u, s
<1>8. u = [k \in 0..N |-> IF k = 0 THEN S ELSE u[k - 1] \cup Parents(g, u[k - 1])]
  BY <1>6 DEF UpIs, Parents
<1>9. u[0] = S /\ \A k \in 1..N : u[k] = u[k - 1] \cup Parents(g, u[k - 1])
  <2>1. 0 \in 0..N /\ \A k \in 1..N : k \in 0..N /\ k # 0
    BY <1>1
  <2> QED BY <1>8, <2>1
<1> DEFINE M == {k \in Nat : k <= N => u[k] \in D}
<1>10. Nat \subseteq M
  <2>1. 0 \in M
    BY <1>9
  <2>2. ASSUME NEW k \in Nat, k \in M PROVE k + 1 \in M
    <3> SUFFICES ASSUME k + 1 <= N PROVE u[k + 1] \in D
      OBVIOUS
    <3>1. u[k] \in D /\ k + 1 \in 1..N /\ (k + 1) - 1 = k
      BY <2>2, <1>1
    <3>2. u[k + 1] = u[k] \cup Parents(g, u[k])
      BY <3>1, <1>9
    <3> QED BY <3>1, <3>2, ParentsFacts
  <2> HIDE DEF M
  <2> QED BY <2>1, <2>2, NatSet
<1>11. u \in [0..N -> D]
  <2>1. \A k \in 0..N : u[k] \in D
    BY <1>10, <1>1
  <2>2. DOMAIN u = 0..N /\ u = [k \in 0..N |-> u[k]]
    BY <1>8
  <2> QED BY <2>1, <2>2
<1> QED BY <1>7, <1>9, <1>11

(* A history is closed under parents: what is no ancestor in N steps is *)
(* none at all                                                          *)
LEMMA HistoryIsClosed ==
  ASSUME NEW g \in Graphs, NEW S \in SUBSET Commits
  PROVE  /\ S \subseteq History(g, S)
         /\ History(g, S) \subseteq Commits
         /\ \A c \in History(g, S) : g[c] \subseteq History(g, S)
<1>0. N \in Nat
  BY InstanceAssumption
<1>1. PICK u \in [0..N -> SUBSET Commits] :
           /\ u[0] = S
           /\ \A k \in 1..N : u[k] = u[k - 1] \cup Parents(g, u[k - 1])
           /\ History(g, S) = u[N]
  BY HistorySteps
<1> DEFINE M == {k \in Nat : k <= N => S \subseteq u[k]}
<1>2. Nat \subseteq M
  <2>1. 0 \in M
    BY <1>1
  <2>2. ASSUME NEW k \in Nat, k \in M PROVE k + 1 \in M
    <3> SUFFICES ASSUME k + 1 <= N PROVE S \subseteq u[k + 1]
      OBVIOUS
    <3>1. S \subseteq u[k] /\ k + 1 \in 1..N /\ (k + 1) - 1 = k
      BY <2>2, <1>0
    <3> QED BY <3>1, <1>1
  <2> HIDE DEF M
  <2> QED BY <2>1, <2>2, NatSet
<1> DEFINE L == {k \in Nat : k + 1 <= N => \A c \in u[k + 1] \ u[k] : c <= N - (k + 1)}
<1>3. Nat \subseteq L
  <2>1. 0 \in L
    <3> SUFFICES ASSUME 1 <= N, NEW c \in u[1] \ u[0] PROVE c <= N - 1
      OBVIOUS
    <3>1. u[1] = u[0] \cup Parents(g, u[0]) /\ u[0] \in SUBSET Commits
      BY <1>1, <1>0, 1 \in 1..N, 1 - 1 = 0, 0 \in 0..N
    <3>2. PICK b \in Commits : c \in g[b]
      BY <3>1 DEF Parents
    <3>3. c < b /\ c \in 0..N /\ b \in 0..N
      BY <3>2, GraphFacts DEF Commits
    <3> QED BY <3>3, <1>0
  <2>2. ASSUME NEW k \in Nat, k \in L PROVE k + 1 \in L
    <3> SUFFICES ASSUME (k + 1) + 1 <= N, NEW c \in u[(k + 1) + 1] \ u[k + 1]
                 PROVE  c <= N - ((k + 1) + 1)
      OBVIOUS
    <3>1. /\ k \in 0..N /\ k + 1 \in 1..N /\ k + 1 \in 0..N /\ (k + 1) + 1 \in 1..N
          /\ (k + 1) - 1 = k /\ ((k + 1) + 1) - 1 = k + 1
      BY <1>0
    <3>2. /\ u[(k + 1) + 1] = u[k + 1] \cup Parents(g, u[k + 1])
          /\ u[k + 1] = u[k] \cup Parents(g, u[k])
          /\ u[k + 1] \in SUBSET Commits
      BY <3>1, <1>1
    <3>3. PICK b \in u[k + 1] : c \in g[b]
      BY <3>2 DEF Parents
    <3>4. b \notin u[k]
      BY <3>2, <3>3 DEF Parents
    <3>5. b <= N - (k + 1)
      BY <3>3, <3>4, <2>2, <3>1
    <3>6. c < b /\ c \in 0..N /\ b \in 0..N
      BY <3>2, <3>3, GraphFacts DEF Commits
    <3> QED BY <3>5, <3>6, <1>0
  <2> HIDE DEF L
  <2> QED BY <2>1, <2>2, NatSet
<1>4. ASSUME NEW c \in u[N] PROVE g[c] \subseteq u[N]
  <2>1. u[N] \in SUBSET Commits
    BY <1>1, <1>0
  <2>2. CASE c = 0
    BY <2>1, <2>2 DEF Graphs
  <2>3. CASE c # 0
    <3>1. N # 0
      BY <2>1, <2>3, <1>0 DEF Commits
    <3>2. N - 1 \in Nat /\ (N - 1) + 1 = N /\ N \in 1..N
      BY <3>1, <1>0
    <3>3. u[N] = u[N - 1] \cup Parents(g, u[N - 1])
      BY <3>2, <1>1
    <3>4. c \in u[N - 1]
      <4> SUFFICES ASSUME c \notin u[N - 1] PROVE FALSE
        OBVIOUS
      <4>1. c <= N - N
        BY <3>2, <1>3
      <4>2. c \in 0..N
        BY <2>1 DEF Commits
      <4> QED BY <4>1, <4>2, <2>3, <1>0
    <3> QED BY <3>3, <3>4 DEF Parents
  <2> QED BY <2>2, <2>3
<1> QED BY <1>0, <1>1, <1>2, <1>4

-----------------------------------------------------------------------------
(* The commits k steps above the working copy *)
Steps(g, w, k) ==
  LET Up[i \in 0..N] == IF i = 0 THEN {w} ELSE UNION {g[c] : c \in Up[i - 1]}
  IN  Up[k]

(* What its function satisfies *)
StepsIs(f, g, w) ==
  f = [i \in 0..N |-> IF i = 0 THEN {w} ELSE UNION {g[c] : c \in f[i - 1]}]

(* The ancestors k steps up are the parents of those k - 1 steps up *)
LEMMA StepsFacts ==
  ASSUME NEW g \in Graphs, NEW w \in Commits
  PROVE  /\ Steps(g, w, 0) = {w}
         /\ \A k \in 1..N : Steps(g, w, k) = Parents(g, Steps(g, w, k - 1))
         /\ \A k \in 0..N : Steps(g, w, k) \in SUBSET Commits
<1> DEFINE D == SUBSET Commits
           s == [X \in D |-> Parents(g, X)]
<1>1. s \in [D -> D] /\ N \in Nat /\ {w} \in D
  BY ParentsFacts, InstanceAssumption
<1>2. PICK f \in [0..N -> D] : f[0] = {w} /\ \A k \in 1..N : f[k] = s[f[k - 1]]
  <2> HIDE DEF s, D
  <2>1. \E f : Iterates(f, D, {w}, s, N)
    BY <1>1, Iterated
  <2> QED BY <2>1 DEF Iterates
<1>3. \A k \in 1..N : f[k] = Parents(g, f[k - 1])
  <2> TAKE k \in 1..N
  <2>1. k - 1 \in 0..N
    BY <1>1
  <2>2. f[k - 1] \in D
    BY <2>1, <1>2
  <2> QED BY <2>2, <1>2
<1>4. f = [k \in 0..N |-> IF k = 0 THEN {w} ELSE Parents(g, f[k - 1])]
  <2>1. \A k \in 0..N : k # 0 => k \in 1..N
    BY <1>1
  <2> QED BY <1>2, <1>3, <2>1
<1>5. StepsIs(f, g, w)
  BY <1>4 DEF StepsIs, Parents
<1> DEFINE u == CHOOSE h : StepsIs(h, g, w)
<1>6. StepsIs(u, g, w)
  BY <1>5
<1>7. \A k : Steps(g, w, k) = u[k]
  BY DEF Steps, StepsIs
<1> HIDE DEF u, s
<1>8. u = [k \in 0..N |-> IF k = 0 THEN {w} ELSE Parents(g, u[k - 1])]
  BY <1>6 DEF StepsIs, Parents
<1>9. u[0] = {w} /\ \A k \in 1..N : u[k] = Parents(g, u[k - 1])
  <2>1. 0 \in 0..N /\ \A k \in 1..N : k \in 0..N /\ k # 0
    BY <1>1
  <2> QED BY <1>8, <2>1
<1> DEFINE M == {k \in Nat : k <= N => u[k] \in D}
<1>10. Nat \subseteq M
  <2>1. 0 \in M
    BY <1>9, <1>1
  <2>2. ASSUME NEW k \in Nat, k \in M PROVE k + 1 \in M
    <3> SUFFICES ASSUME k + 1 <= N PROVE u[k + 1] \in D
      OBVIOUS
    <3>1. u[k] \in D /\ k + 1 \in 1..N /\ (k + 1) - 1 = k
      BY <2>2, <1>1
    <3>2. u[k + 1] = Parents(g, u[k])
      BY <3>1, <1>9
    <3> QED BY <3>1, <3>2, ParentsFacts
  <2> HIDE DEF M
  <2> QED BY <2>1, <2>2, NatSet
<1> QED BY <1>7, <1>9, <1>10, <1>1

(* Every step up leads to a lower commit, so no commit is more than N *)
(* steps away, and it is in the history                               *)
LEMMA StepsBelow ==
  ASSUME NEW g \in Graphs, NEW w \in Commits, NEW k \in 0..N, NEW c \in Steps(g, w, k)
  PROVE  c \in Nat /\ c + k <= w /\ c \in History(g, {w})
<1>0. N \in Nat /\ w \in Nat
  BY InstanceAssumption DEF Commits
<1> DEFINE M == {i \in Nat : i <= N => \A b \in Steps(g, w, i) :
                   b \in Nat /\ b + i <= w /\ b \in History(g, {w})}
<1>1. 0 \in M
  BY StepsFacts, HistoryIsClosed, <1>0
<1>2. ASSUME NEW i \in Nat, i \in M PROVE i + 1 \in M
  <2> SUFFICES ASSUME i + 1 <= N, NEW b \in Steps(g, w, i + 1)
               PROVE  b \in Nat /\ b + (i + 1) <= w /\ b \in History(g, {w})
    OBVIOUS
  <2>1. i \in 0..N /\ i + 1 \in 1..N /\ (i + 1) - 1 = i
    BY <1>0
  <2>2. Steps(g, w, i + 1) = Parents(g, Steps(g, w, i)) /\ Steps(g, w, i) \in SUBSET Commits
    BY <2>1, StepsFacts
  <2>3. PICK a \in Steps(g, w, i) : b \in g[a]
    BY <2>2 DEF Parents
  <2>4. a \in Nat /\ a + i <= w /\ a \in History(g, {w})
    BY <2>3, <1>2, <2>1
  <2>5. b < a /\ b \in 0..N
    BY <2>2, <2>3, GraphFacts DEF Commits
  <2>6. b \in History(g, {w})
    BY <2>3, <2>4, HistoryIsClosed
  <2> QED BY <2>4, <2>5, <2>6, <1>0
<1>3. Nat \subseteq M
  <2> HIDE DEF M
  <2> QED BY <1>1, <1>2, NatSet
<1> QED BY <1>3, <1>0

-----------------------------------------------------------------------------
(* The search: breadth first, from the working copy *)

(* c is k steps above w and no fewer *)
Shortest(g, w, c, k) ==
  k \in 0..N /\ c \in Steps(g, w, k) /\ \A j \in 0..(k - 1) : c \notin Steps(g, w, j)

(* A bookmark and its distance *)
Entries == [name : Names, distance : 0..N]

(* The bookmarks at the commits of A, at their shortest distance, within *)
(* m                                                                     *)
Marks(g, w, l, m, A) ==
  {b \in Entries : b.distance <= m /\ \E c \in A : l[b.name] = {c} /\ Shortest(g, w, c, b.distance)}

(* Outside E there is no way back into E *)
Pruned(g, w, E) ==
  E \subseteq Commits /\ \A k \in 0..N : \A c \in Steps(g, w, k) : c \notin E => g[c] \cap E = {}

(* The commits of the line above trunk *)
Line(g, w, t) == History(g, {w}) \ History(g, t)

(* A bookmark or trunk names one commit or none *)
Targets == {{}} \cup {{c} : c \in Commits}

(* What a search works on *)
Inputs(g, w, l, m) == g \in Graphs /\ w \in Commits /\ l \in [Names -> Targets] /\ m \in Nat

(* The queue: commits with the length of a way to them, nearest first, *)
(* all within one level                                                *)
QueueOk(g, w, q) ==
  /\ q \in Seq(Commits \X (1..N))
  /\ \A i \in DOMAIN q : q[i][1] \in Steps(g, w, q[i][2])
  /\ \A i, j \in DOMAIN q : (i < j => q[i][2] <= q[j][2]) /\ q[j][2] <= q[i][2] + 1

(* A commit of E within the depth was visited, or is in the queue, or *)
(* comes behind a commit not yet visited                              *)
Remaining(g, w, m, E, q, v) ==
  \A c \in E : \A k \in 1..N : Shortest(g, w, c, k) /\ k <= m =>
    \/ c \in v
    \/ \E i \in DOMAIN q : q[i] = <<c, k>>
    \/ \E b \in E : Shortest(g, w, b, k - 1) /\ k - 1 # 0 /\ c \in g[b] /\ b \notin v

(* The list found names nothing twice, nearest first *)
InOrder(B) ==
  /\ B \in Seq(Entries)
  /\ \A i, j \in DOMAIN B : i # j => B[i].name # B[j].name
  /\ \A i, j \in DOMAIN B : i < j => B[i].distance <= B[j].distance

(* and nothing in the queue is nearer *)
Nearer(B, q) == \A i \in DOMAIN B : \A j \in DOMAIN q : B[i].distance <= q[j][2]

(* All that is true of a search *)
SearchOk(g, w, l, m, E, q, v, B) ==
  /\ Pruned(g, w, E)
  /\ QueueOk(g, w, q)
  /\ v \in SUBSET Commits /\ w \notin v
  /\ Remaining(g, w, m, E, q, v)
  /\ InOrder(B) /\ Nearer(B, q)
  /\ ToSet(B) = Marks(g, w, l, m, E \cap (v \cup {w}))

(* The search for the nearest has found one level *)
OneLevel(B) == \A i, j \in DOMAIN B : B[i].distance = B[j].distance

(* The inductive invariant *)
SearchInv ==
  /\ Inputs(parents, wc_id, local, max_depth)
  /\ trunk \in Targets
  /\ phase \in {"start", "line", "nearest", "done"}
  /\ Searching => SearchOk(parents, wc_id, local, max_depth, in_branch, queue, visited, bookmarks)
  /\ phase = "line" => trunk # {} /\ in_branch = Line(parents, wc_id, trunk)
  /\ phase = "nearest" =>
       /\ in_branch = Commits
       /\ trunk = {} \/ Marks(parents, wc_id, local, max_depth, Line(parents, wc_id, trunk)) = {}
       /\ OneLevel(bookmarks)
  /\ FoundAreTheLine

(* An order of a finite set lists each element once *)
LEMMA Ordered ==
  ASSUME NEW S, IsFiniteSet(S), NEW f \in SetToSeqs(S)
  PROVE  /\ f \in Seq(S)
         /\ \A x \in S : \E i \in DOMAIN f : f[i] = x
         /\ \A i, j \in DOMAIN f : i # j => f[i] # f[j]
<1> DEFINE n == Cardinality(S)
<1>1. n \in Nat
  BY FS_CardinalityType
<1>2. f \in [1..n -> S] /\ \A i, j \in 1..n : i # j => f[i] # f[j]
  BY DEF SetToSeqs
<1> HIDE DEF n
<1>3. f \in Injection(1..n, S)
  BY <1>2 DEF Injection, IsInjective
<1>4. IsFiniteSet(1..n) /\ Cardinality(1..n) = n
  BY <1>1, FS_Interval
<1>5. f \in Surjection(1..n, S)
  BY <1>3, <1>4, FS_Injection DEF n
<1>6. \A x \in S : \E i \in 1..n : f[i] = x
  BY <1>5 DEF Surjection
<1>7. f \in Seq(S) /\ DOMAIN f = 1..n
  BY <1>1, <1>2
<1> QED BY <1>2, <1>6, <1>7

(* What a set of parents adds to the queue, in whatever order *)
LEMMA QueuedFacts ==
  ASSUME NEW S \in SUBSET Commits, NEW f \in SetToSeqs(S), NEW d, S # {} => d \in 1..N
  PROVE  /\ Queued(f, d) \in Seq(Commits \X (1..N))
         /\ \A i \in DOMAIN Queued(f, d) : Queued(f, d)[i][1] \in S /\ Queued(f, d)[i][2] = d
         /\ \A x \in S : \E i \in DOMAIN Queued(f, d) : Queued(f, d)[i] = <<x, d>>
<1>1. IsFiniteSet(S)
  <2>1. 0 \in Int /\ N \in Int
    BY InstanceAssumption
  <2>2. IsFiniteSet(Commits)
    BY <2>1, FS_Interval DEF Commits
  <2> QED BY <2>2, FS_Subset
<1>2. /\ f \in Seq(S)
      /\ \A x \in S : \E i \in DOMAIN f : f[i] = x
  BY <1>1, Ordered
<1> DEFINE q == Queued(f, d)
<1>3. DOMAIN f = 1..Len(f) /\ Len(f) \in Nat /\ \A i \in DOMAIN f : f[i] \in S
  BY <1>2
<1>4. q = [i \in 1..Len(f) |-> <<f[i], d>>]
  BY <1>3 DEF Queued
<1>5. \A i \in 1..Len(f) : q[i] = <<f[i], d>> /\ <<f[i], d>> \in Commits \X (1..N)
  BY <1>3, <1>4
<1>6. q \in Seq(Commits \X (1..N))
  BY <1>3, <1>4, <1>5
<1>7. DOMAIN q = 1..Len(f)
  BY <1>4
<1> HIDE DEF q
<1>8. \A i \in DOMAIN q : q[i][1] \in S /\ q[i][2] = d
  <2> TAKE i \in DOMAIN q
  <2>1. q[i] = <<f[i], d>> /\ f[i] \in S
    BY <1>3, <1>5, <1>7
  <2> QED BY <2>1
<1>9. \A x \in S : \E i \in DOMAIN q : q[i] = <<x, d>>
  BY <1>2, <1>3, <1>5, <1>7
<1> QED BY <1>6, <1>8, <1>9 DEF q

(* What the names at one commit add to the bookmarks found, in whatever *)
(* order                                                                *)
LEMMA AtFacts ==
  ASSUME NEW S \in SUBSET Names, NEW f \in SetToSeqs(S), NEW d \in 0..N
  PROVE  /\ At(f, d) \in Seq(Entries)
         /\ \A i \in DOMAIN At(f, d) : At(f, d)[i].name \in S /\ At(f, d)[i].distance = d
         /\ \A i, j \in DOMAIN At(f, d) : i # j => At(f, d)[i].name # At(f, d)[j].name
         /\ ToSet(At(f, d)) = {b \in Entries : b.name \in S /\ b.distance = d}
<1>1. IsFiniteSet(S)
  BY NamesAssumption, FS_Subset
<1>2. /\ f \in Seq(S)
      /\ \A x \in S : \E i \in DOMAIN f : f[i] = x
      /\ \A i, j \in DOMAIN f : i # j => f[i] # f[j]
  BY <1>1, Ordered
<1> DEFINE q == At(f, d)
<1>3. DOMAIN f = 1..Len(f) /\ Len(f) \in Nat /\ \A i \in DOMAIN f : f[i] \in S
  BY <1>2
<1>4. q = [i \in 1..Len(f) |-> [name |-> f[i], distance |-> d]]
  BY <1>3 DEF At
<1>5. \A i \in 1..Len(f) : q[i] = [name |-> f[i], distance |-> d] /\ q[i] \in Entries
  BY <1>3, <1>4 DEF Entries
<1>6. q \in Seq(Entries)
  BY <1>3, <1>4, <1>5
<1>7. DOMAIN q = 1..Len(f)
  BY <1>4
<1> HIDE DEF q
<1>8. \A i \in DOMAIN q : q[i].name = f[i] /\ q[i].name \in S /\ q[i].distance = d
  BY <1>3, <1>5, <1>7
<1>9. \A i, j \in DOMAIN q : i # j => q[i].name # q[j].name
  BY <1>2, <1>3, <1>7, <1>8
<1>10. ASSUME NEW b \in Entries, b.name \in S, b.distance = d
       PROVE  \E i \in DOMAIN q : q[i] = b
  <2>1. PICK i \in 1..Len(f) : f[i] = b.name
    BY <1>2, <1>3, <1>10
  <2>2. b = [name |-> b.name, distance |-> b.distance]
    BY DEF Entries
  <2> QED BY <2>1, <2>2, <1>5, <1>7, <1>10
<1>11. ToSet(q) = {b \in Entries : b.name \in S /\ b.distance = d}
  BY <1>5, <1>7, <1>8, <1>10 DEF ToSet
<1> QED BY <1>6, <1>8, <1>9, <1>11 DEF q

-----------------------------------------------------------------------------
(* A parent of a commit k steps up is k + 1 steps up *)
LEMMA StepUp ==
  ASSUME NEW g \in Graphs, NEW w \in Commits, NEW k \in 0..N, NEW c \in Steps(g, w, k),
         NEW p \in g[c]
  PROVE  k + 1 \in 1..N /\ p \in Steps(g, w, k + 1)
<1>0. N \in Nat /\ w \in 0..N
  BY InstanceAssumption DEF Commits
<1>1. c \in Commits /\ c + k <= w
  BY StepsFacts, StepsBelow
<1>2. p < c /\ p \in Nat /\ c \in Nat
  BY <1>1, GraphFacts DEF Commits
<1>3. k + 1 \in 1..N /\ (k + 1) - 1 = k
  BY <1>0, <1>1, <1>2
<1> QED BY <1>3, StepsFacts DEF Parents

(* A commit has one shortest way *)
LEMMA OnlyOne ==
  ASSUME NEW g, NEW w, NEW c, NEW j, NEW k, Shortest(g, w, c, j), Shortest(g, w, c, k)
  PROVE  j = k
BY InstanceAssumption DEF Shortest

(* and a way of k steps is no shorter than it *)
LEMMA HasShortest ==
  ASSUME NEW g, NEW w, NEW k \in 0..N, NEW c \in Steps(g, w, k)
  PROVE  \E j \in 0..k : Shortest(g, w, c, j)
<1> DEFINE T == {j \in 0..k : c \in Steps(g, w, j)}
<1>0. N \in Nat /\ k \in Nat
  BY InstanceAssumption
<1>1. T \subseteq Nat /\ k \in T
  BY <1>0
<1>2. PICK j \in T : \A i \in T : j <= i
  BY <1>1, Least
<1>3. \A i \in 0..(j - 1) : c \notin Steps(g, w, i)
  <2> SUFFICES ASSUME NEW i \in 0..(j - 1), c \in Steps(g, w, i) PROVE FALSE
    OBVIOUS
  <2>1. i \in T
    BY <1>0
  <2> QED BY <2>1, <1>2
<1> QED BY <1>2, <1>3, <1>0 DEF Shortest

(* The working copy is at distance 0, and nothing else is *)
LEMMA ShortestRoot ==
  ASSUME NEW g \in Graphs, NEW w \in Commits
  PROVE  /\ Shortest(g, w, w, 0)
         /\ \A k \in 1..N : w \notin Steps(g, w, k)
         /\ \A k : Shortest(g, w, w, k) => k = 0
         /\ \A c : Shortest(g, w, c, 0) => c = w
<1>0. N \in Nat /\ w \in Nat
  BY InstanceAssumption DEF Commits
<1>1. Shortest(g, w, w, 0)
  BY StepsFacts, <1>0 DEF Shortest
<1>2. \A k \in 1..N : w \notin Steps(g, w, k)
  <2> SUFFICES ASSUME NEW k \in 1..N, w \in Steps(g, w, k) PROVE FALSE
    OBVIOUS
  <2>1. k \in 0..N
    BY <1>0
  <2>2. w + k <= w
    BY <2>1, StepsBelow
  <2> QED BY <2>2, <1>0
<1>3. \A k : Shortest(g, w, w, k) => k = 0
  BY <1>1, OnlyOne
<1>4. \A c : Shortest(g, w, c, 0) => c = w
  BY StepsFacts DEF Shortest
<1> QED BY <1>1, <1>2, <1>3, <1>4

(* On a shortest way, the commit before it is at its own shortest *)
(* distance                                                       *)
LEMMA Before ==
  ASSUME NEW g \in Graphs, NEW w \in Commits, NEW k \in 1..N, NEW c, Shortest(g, w, c, k)
  PROVE  \E b \in Commits : c \in g[b] /\ Shortest(g, w, b, k - 1)
<1>0. N \in Nat /\ k \in Nat /\ k - 1 \in 0..N /\ (k - 1) + 1 = k /\ k \in 0..N
  BY InstanceAssumption
<1>1. c \in Steps(g, w, k) /\ \A i \in 0..(k - 1) : c \notin Steps(g, w, i)
  BY Shortest(g, w, c, k) DEF Shortest
<1>2. PICK b \in Steps(g, w, k - 1) : c \in g[b]
  BY <1>1, StepsFacts DEF Parents
<1>3. b \in Commits
  BY <1>0, StepsFacts
<1>4. \A i \in 0..((k - 1) - 1) : b \notin Steps(g, w, i)
  <2> SUFFICES ASSUME NEW i \in 0..((k - 1) - 1), b \in Steps(g, w, i) PROVE FALSE
    OBVIOUS
  <2>1. i \in 0..N /\ i + 1 \in 0..(k - 1)
    BY <1>0
  <2>2. c \in Steps(g, w, i + 1)
    BY <2>1, <1>2, StepUp
  <2> QED BY <2>1, <2>2, <1>1
<1> QED BY <1>0, <1>2, <1>3, <1>4 DEF Shortest

(* Every commit nearer than the front of the queue was visited: the heart *)
(* of breadth-first search                                                *)
LEMMA VisitedBelow ==
  ASSUME NEW g, NEW w, NEW m \in Nat, NEW E, NEW q, NEW v,
         QueueOk(g, w, q), Remaining(g, w, m, E, q, v),
         NEW k \in 1..N, NEW c \in E, Shortest(g, w, c, k), k <= m,
         q # <<>> => k < q[1][2]
  PROVE  c \in v
<1>0. N \in Nat
  BY InstanceAssumption
<1>1. \A i \in DOMAIN q : 1 \in DOMAIN q /\ q # <<>> /\ q[1][2] \in Nat /\ q[i][2] \in Nat /\ q[1][2] <= q[i][2]
  <2>1. q \in Seq(Commits \X (1..N)) /\ \A i, j \in DOMAIN q : i < j => q[i][2] <= q[j][2]
    BY QueueOk(g, w, q) DEF QueueOk
  <2>2. DOMAIN q = 1..Len(q) /\ Len(q) \in Nat
    BY <2>1
  <2> TAKE i \in DOMAIN q
  <2>3. i \in Nat /\ 1 <= i /\ 1 \in DOMAIN q /\ q # <<>>
    BY <2>2
  <2>4. q[1] \in Commits \X (1..N) /\ q[i] \in Commits \X (1..N)
    BY <2>1, <2>3
  <2>5. q[1][2] \in Nat /\ q[i][2] \in Nat
    BY <2>4
  <2>6. q[1][2] <= q[i][2]
    BY <2>1, <2>3, <2>5
  <2> QED BY <2>3, <2>5, <2>6
<1> DEFINE Far(n) == n <= N /\ n <= m /\ (q # <<>> => n < q[1][2])
           M == {n \in Nat : n >= 1 /\ Far(n) => \A b \in E : Shortest(g, w, b, n) => b \in v}
<1>2. 0 \in M
  OBVIOUS
<1>3. ASSUME NEW n \in Nat, n \in M PROVE n + 1 \in M
  <2> SUFFICES ASSUME Far(n + 1), NEW b \in E, Shortest(g, w, b, n + 1), b \notin v PROVE FALSE
    OBVIOUS
  <2>1. n + 1 \in 1..N /\ n + 1 <= m /\ (n + 1) - 1 = n
    BY <1>0
  <2>2. \/ \E i \in DOMAIN q : q[i] = <<b, n + 1>>
        \/ \E a \in E : Shortest(g, w, a, n) /\ n # 0 /\ b \in g[a] /\ a \notin v
    BY <2>1, Remaining(g, w, m, E, q, v) DEF Remaining
  <2>3. CASE \E i \in DOMAIN q : q[i] = <<b, n + 1>>
    <3>1. PICK i \in DOMAIN q : q[i] = <<b, n + 1>>
      BY <2>3
    <3>2. q[i][2] = n + 1
      BY <3>1
    <3> QED BY <3>2, <1>1
  <2>4. CASE \E a \in E : Shortest(g, w, a, n) /\ n # 0 /\ b \in g[a] /\ a \notin v
    <3>1. n >= 1 /\ n <= N /\ n <= m
      BY <2>4, <2>1, <1>0
    <3>2. q # <<>> => n < q[1][2]
      <4> SUFFICES ASSUME q # <<>> PROVE n < q[1][2]
        OBVIOUS
      <4>1. 1 \in DOMAIN q
        BY QueueOk(g, w, q) DEF QueueOk
      <4>2. q[1][2] \in Nat /\ n + 1 < q[1][2]
        BY <1>1, <4>1
      <4> QED BY <4>2
    <3> QED BY <3>1, <3>2, <2>4, <1>3
  <2> QED BY <2>2, <2>3, <2>4
<1>4. Nat \subseteq M
  <2> HIDE DEF M
  <2> QED BY <1>2, <1>3, NatSet
<1>5. k \in M
  BY <1>4, <1>0
<1>6. k >= 1 /\ Far(k)
  BY <1>0
<1> QED BY <1>5, <1>6

-----------------------------------------------------------------------------
(* The queue *)

(* The places of two lists joined *)
LEMMA Joined ==
  ASSUME NEW D, NEW s \in Seq(D), NEW t \in Seq(D)
  PROVE  /\ s \o t \in Seq(D)
         /\ \A i \in DOMAIN (s \o t) :
              \/ i \in DOMAIN s /\ (s \o t)[i] = s[i]
              \/ i \notin DOMAIN s /\ i - Len(s) \in DOMAIN t /\ (s \o t)[i] = t[i - Len(s)]
         /\ \A i \in DOMAIN s : i \in DOMAIN (s \o t) /\ (s \o t)[i] = s[i]
         /\ \A i \in DOMAIN t : Len(s) + i \in DOMAIN (s \o t) /\ (s \o t)[Len(s) + i] = t[i]
         /\ \A i \in DOMAIN (s \o t), j \in DOMAIN s : i < j => i \in DOMAIN s
<1>1. /\ Len(s) \in Nat /\ Len(t) \in Nat /\ DOMAIN s = 1..Len(s) /\ DOMAIN t = 1..Len(t)
      /\ s \o t \in Seq(D) /\ Len(s \o t) = Len(s) + Len(t)
      /\ \A i \in 1..(Len(s) + Len(t)) : (s \o t)[i] = IF i <= Len(s) THEN s[i] ELSE t[i - Len(s)]
  OBVIOUS
<1>2. DOMAIN (s \o t) = 1..(Len(s) + Len(t))
  BY <1>1
<1>3. \A i \in DOMAIN s : i \in DOMAIN (s \o t) /\ (s \o t)[i] = s[i]
  BY <1>1, <1>2
<1>4. \A i \in DOMAIN t : Len(s) + i \in DOMAIN (s \o t) /\ (s \o t)[Len(s) + i] = t[i]
  <2> TAKE i \in DOMAIN t
  <2>1. i \in Nat /\ 1 <= i /\ i <= Len(t)
    BY <1>1
  <2>2. Len(s) + i \in 1..(Len(s) + Len(t)) /\ ~(Len(s) + i <= Len(s)) /\ (Len(s) + i) - Len(s) = i
    BY <1>1, <2>1
  <2> QED BY <1>1, <1>2, <2>2
<1>5. \A i \in DOMAIN (s \o t) :
              \/ i \in DOMAIN s /\ (s \o t)[i] = s[i]
              \/ i \notin DOMAIN s /\ i - Len(s) \in DOMAIN t /\ (s \o t)[i] = t[i - Len(s)]
  <2> TAKE i \in DOMAIN (s \o t)
  <2>1. i \in Nat /\ 1 <= i /\ i <= Len(s) + Len(t)
    BY <1>1, <1>2
  <2> QED BY <1>1, <1>2, <2>1
<1>6. \A i \in DOMAIN (s \o t), j \in DOMAIN s : i < j => i \in DOMAIN s
  BY <1>1, <1>2
<1> QED BY <1>1, <1>3, <1>4, <1>5, <1>6

(* and their elements *)
LEMMA JoinedSet ==
  ASSUME NEW D, NEW s \in Seq(D), NEW t \in Seq(D)
  PROVE  ToSet(s \o t) = ToSet(s) \cup ToSet(t)
<1>1. \A x \in ToSet(s \o t) : x \in ToSet(s) \cup ToSet(t)
  BY Joined DEF ToSet
<1>2. \A x \in ToSet(s) : x \in ToSet(s \o t)
  BY Joined DEF ToSet
<1>3. ASSUME NEW x \in ToSet(t) PROVE x \in ToSet(s \o t)
  <2>1. PICK i \in DOMAIN t : x = t[i]
    BY DEF ToSet
  <2>2. Len(s) + i \in DOMAIN (s \o t) /\ (s \o t)[Len(s) + i] = t[i]
    BY Joined
  <2> QED BY <2>1, <2>2 DEF ToSet
<1> QED BY <1>1, <1>2, <1>3

(* The places of a list without its first *)
LEMMA TailFacts ==
  ASSUME NEW D, NEW q \in Seq(D), q # <<>>
  PROVE  /\ Tail(q) \in Seq(D) /\ 1 \in DOMAIN q
         /\ \A i \in DOMAIN Tail(q) : i \in Nat /\ i + 1 \in DOMAIN q /\ Tail(q)[i] = q[i + 1]
         /\ \A i \in DOMAIN q : i # 1 => i - 1 \in DOMAIN Tail(q) /\ Tail(q)[i - 1] = q[i]
<1>1. /\ Len(q) \in Nat /\ Len(q) # 0 /\ DOMAIN q = 1..Len(q) /\ Tail(q) \in Seq(D)
      /\ Len(Tail(q)) = Len(q) - 1 /\ \A i \in 1..(Len(q) - 1) : Tail(q)[i] = q[i + 1]
  OBVIOUS
<1>2. DOMAIN Tail(q) = 1..(Len(q) - 1)
  BY <1>1
<1>3. \A i \in DOMAIN q : i # 1 => i - 1 \in DOMAIN Tail(q) /\ Tail(q)[i - 1] = q[i]
  <2> SUFFICES ASSUME NEW i \in DOMAIN q, i # 1 PROVE i - 1 \in DOMAIN Tail(q) /\ Tail(q)[i - 1] = q[i]
    OBVIOUS
  <2>1. i - 1 \in 1..(Len(q) - 1) /\ (i - 1) + 1 = i
    BY <1>1
  <2> QED BY <2>1, <1>1, <1>2
<1> QED BY <1>1, <1>2, <1>3

(* What is known of a place of the queue *)
Within(q, i) ==
  q[i][2] \in Nat /\ q[i][1] \in Commits /\ q[1][2] <= q[i][2] /\ q[i][2] <= q[1][2] + 1

(* and of its front *)
FrontOk(g, w, c, d) == c \in Commits /\ d \in 1..N /\ d \in Nat /\ c \in Steps(g, w, d)

(* The front of the queue, and how far the rest can be from it *)
LEMMA FrontIs ==
  ASSUME NEW g, NEW w, NEW q, QueueOk(g, w, q), q # <<>>
  PROVE  /\ q \in Seq(Commits \X (1..N)) /\ 1 \in DOMAIN q
         /\ FrontOk(g, w, q[1][1], q[1][2])
         /\ \A i \in DOMAIN q : Within(q, i)
<1>0. N \in Nat
  BY InstanceAssumption
<1>1. /\ q \in Seq(Commits \X (1..N))
      /\ \A i \in DOMAIN q : q[i][1] \in Steps(g, w, q[i][2])
      /\ \A i, j \in DOMAIN q : (i < j => q[i][2] <= q[j][2]) /\ q[j][2] <= q[i][2] + 1
  BY QueueOk(g, w, q) DEF QueueOk
<1>2. DOMAIN q = 1..Len(q) /\ Len(q) \in Nat /\ 1 \in DOMAIN q
  BY <1>1
<1>3. \A i \in DOMAIN q : q[i] \in Commits \X (1..N)
  BY <1>1
<1>4. \A i \in DOMAIN q : q[i][2] \in 1..N /\ q[i][2] \in Nat /\ q[i][1] \in Commits /\ q[i] = <<q[i][1], q[i][2]>>
  <2> TAKE i \in DOMAIN q
  <2>1. q[i] \in Commits \X (1..N)
    BY <1>3
  <2> QED BY <2>1, <1>0
<1>5. \A i \in DOMAIN q : q[1][2] <= q[i][2] /\ q[i][2] <= q[1][2] + 1
  <2> TAKE i \in DOMAIN q
  <2>1. i \in Nat /\ (i = 1 \/ 1 < i)
    BY <1>2
  <2>2. q[1][2] \in Nat /\ q[i][2] \in Nat
    BY <1>2, <1>4
  <2>3. q[i][2] <= q[1][2] + 1 /\ (1 < i => q[1][2] <= q[i][2])
    BY <1>1, <1>2
  <2> QED BY <2>1, <2>2, <2>3
<1>6. /\ q[1][1] \in Commits /\ q[1][2] \in 1..N /\ q[1][2] \in Nat
      /\ q[1][1] \in Steps(g, w, q[1][2])
  BY <1>1, <1>2, <1>4
<1>7. \A i \in DOMAIN q : Within(q, i)
  BY <1>4, <1>5 DEF Within
<1>8. FrontOk(g, w, q[1][1], q[1][2])
  BY <1>6 DEF FrontOk
<1> QED BY <1>1, <1>2, <1>8, <1>7

(* Taking the front and adding its parents one level on keeps the queue *)
(* in order, within one level, and loses only the front                 *)
LEMMA QueueGrows ==
  ASSUME NEW g \in Graphs, NEW w \in Commits, NEW q, QueueOk(g, w, q), q # <<>>,
         NEW S, S = {} \/ S = g[q[1][1]],
         NEW ps \in SetToSeqs(S)
  PROVE  /\ QueueOk(g, w, Tail(q) \o Queued(ps, q[1][2] + 1))
         /\ \A i \in DOMAIN q : i # 1 =>
              \E j \in DOMAIN (Tail(q) \o Queued(ps, q[1][2] + 1)) : (Tail(q) \o Queued(ps, q[1][2] + 1))[j] = q[i]
         /\ \A x \in S : \E j \in DOMAIN (Tail(q) \o Queued(ps, q[1][2] + 1)) :
              (Tail(q) \o Queued(ps, q[1][2] + 1))[j] = <<x, q[1][2] + 1>>
         /\ \A j \in DOMAIN (Tail(q) \o Queued(ps, q[1][2] + 1)) :
              /\ (Tail(q) \o Queued(ps, q[1][2] + 1))[j][2] \in Nat
              /\ (Tail(q) \o Queued(ps, q[1][2] + 1))[j][2] >= q[1][2]
<1> DEFINE c == q[1][1]
           d == q[1][2]
           new == Queued(ps, d + 1)
           all == Tail(q) \o new
           Q == Commits \X (1..N)
<1>0. N \in Nat /\ \A k \in 1..N : k \in 0..N
  BY InstanceAssumption
<1>1. /\ q \in Seq(Q) /\ 1 \in DOMAIN q /\ c \in Commits /\ d \in 1..N /\ d \in Nat /\ c \in Steps(g, w, d)
      /\ \A i \in DOMAIN q : q[i][2] \in Nat /\ d <= q[i][2] /\ q[i][2] <= d + 1
  <2> HIDE DEF Q
  <2>1. /\ 1 \in DOMAIN q /\ c \in Commits /\ d \in 1..N /\ d \in Nat /\ c \in Steps(g, w, d)
        /\ q \in Seq(Q)
    BY FrontIs DEF Q, FrontOk
  <2>2. ASSUME NEW i \in DOMAIN q
        PROVE  q[i][2] \in Nat /\ d <= q[i][2] /\ q[i][2] <= d + 1
    BY FrontIs DEF Within
  <2> QED BY <2>1, <2>2
<1>2. ASSUME NEW p \in S PROVE d + 1 \in 1..N /\ p \in Steps(g, w, d + 1)
  <2>1. p \in g[c] /\ d \in 0..N
    BY <1>0, <1>1
  <2> QED BY <2>1, <1>1, StepUp
<1>3. S \in SUBSET Commits /\ (S # {} => d + 1 \in 1..N)
  BY <1>1, <1>2, GraphFacts
<1> HIDE DEF c, d
<1>4. /\ new \in Seq(Q)
      /\ \A i \in DOMAIN new : new[i][1] \in S /\ new[i][2] = d + 1
      /\ \A x \in S : \E i \in DOMAIN new : new[i] = <<x, d + 1>>
  BY <1>3, QueuedFacts
<1>5. /\ Tail(q) \in Seq(Q)
      /\ \A i \in DOMAIN Tail(q) : i \in Nat /\ i + 1 \in DOMAIN q /\ Tail(q)[i] = q[i + 1]
      /\ \A i \in DOMAIN q : i # 1 => i - 1 \in DOMAIN Tail(q) /\ Tail(q)[i - 1] = q[i]
  BY <1>1, TailFacts
<1> HIDE DEF new, Q
<1>6. /\ all \in Seq(Q)
      /\ \A i \in DOMAIN all :
              \/ i \in DOMAIN Tail(q) /\ all[i] = Tail(q)[i]
              \/ i \notin DOMAIN Tail(q) /\ i - Len(Tail(q)) \in DOMAIN new /\ all[i] = new[i - Len(Tail(q))]
      /\ \A i \in DOMAIN Tail(q) : i \in DOMAIN all /\ all[i] = Tail(q)[i]
      /\ \A i \in DOMAIN new : Len(Tail(q)) + i \in DOMAIN all /\ all[Len(Tail(q)) + i] = new[i]
      /\ \A i \in DOMAIN all, j \in DOMAIN Tail(q) : i < j => i \in DOMAIN Tail(q)
  BY <1>4, <1>5, Joined
<1> HIDE DEF all
<1>7. \A i \in DOMAIN all :
        \/ i \in Nat /\ i + 1 \in DOMAIN q /\ all[i] = q[i + 1] /\ i \in DOMAIN Tail(q)
        \/ all[i][1] \in S /\ all[i][2] = d + 1 /\ i \notin DOMAIN Tail(q)
  BY <1>4, <1>5, <1>6
<1>8. \A i \in DOMAIN all : all[i][2] \in Nat /\ d <= all[i][2] /\ all[i][2] <= d + 1
  BY <1>7, <1>1
<1>9. \A i \in DOMAIN all : all[i][1] \in Steps(g, w, all[i][2])
  BY <1>7, <1>2, QueueOk(g, w, q) DEF QueueOk
<1>10. ASSUME NEW i \in DOMAIN all, NEW j \in DOMAIN all, i < j
       PROVE  all[i][2] <= all[j][2]
  <2>1. CASE j \in DOMAIN Tail(q)
    <3>1. i \in DOMAIN Tail(q)
      BY <2>1, <1>6, <1>10
    <3>2. /\ i \in Nat /\ i + 1 \in DOMAIN q /\ all[i] = q[i + 1]
          /\ j \in Nat /\ j + 1 \in DOMAIN q /\ all[j] = q[j + 1]
      BY <2>1, <3>1, <1>7
    <3>3. i + 1 < j + 1
      BY <3>2, <1>10
    <3> QED BY <3>2, <3>3, QueueOk(g, w, q) DEF QueueOk
  <2>2. CASE j \notin DOMAIN Tail(q)
    <3>1. all[j][2] = d + 1
      BY <2>2, <1>7
    <3> QED BY <3>1, <1>8
  <2> QED BY <2>1, <2>2
<1>11. \A i, j \in DOMAIN all : all[j][2] <= all[i][2] + 1
  BY <1>8, <1>1 DEF d
<1>12. QueueOk(g, w, all)
  BY <1>6, <1>9, <1>10, <1>11 DEF QueueOk, Q
<1>13. \A i \in DOMAIN q : i # 1 => \E j \in DOMAIN all : all[j] = q[i]
  <2> SUFFICES ASSUME NEW i \in DOMAIN q, i # 1 PROVE \E j \in DOMAIN all : all[j] = q[i]
    OBVIOUS
  <2>1. i - 1 \in DOMAIN Tail(q) /\ Tail(q)[i - 1] = q[i]
    BY <1>5
  <2>2. i - 1 \in DOMAIN all /\ all[i - 1] = Tail(q)[i - 1]
    BY <2>1, <1>6
  <2> QED BY <2>1, <2>2
<1>14. \A x \in S : \E j \in DOMAIN all : all[j] = <<x, d + 1>>
  BY <1>4, <1>6
<1>15. \A j \in DOMAIN all : all[j][2] \in Nat /\ all[j][2] >= d
  BY <1>8, <1>1
<1> QED BY <1>12, <1>13, <1>14, <1>15 DEF all, new, d

-----------------------------------------------------------------------------
(* A visit *)

(* A commit first seen at the front of the queue is there by a shortest *)
(* way                                                                  *)
LEMMA ShortestAtFront ==
  ASSUME NEW g \in Graphs, NEW w \in Commits, NEW m \in Nat, NEW E, NEW q, NEW v,
         QueueOk(g, w, q), Remaining(g, w, m, E, q, v), q # <<>>,
         q[1][1] \in E, q[1][1] \notin v, q[1][2] <= m
  PROVE  Shortest(g, w, q[1][1], q[1][2]) /\ q[1][1] # w
<1> DEFINE c == q[1][1]
           d == q[1][2]
<1>0. N \in Nat
  BY InstanceAssumption
<1>1. c \in Commits /\ d \in 1..N /\ d \in Nat /\ c \in Steps(g, w, d)
  BY FrontIs DEF FrontOk
<1>2. c \in E /\ c \notin v /\ d <= m
  OBVIOUS
<1> HIDE DEF c, d
<1>3. c # w
  BY <1>1, ShortestRoot
<1>4. PICK j \in 0..d : Shortest(g, w, c, j)
  <2>1. d \in 0..N
    BY <1>1, <1>0
  <2> QED BY <2>1, <1>1, HasShortest
<1>5. j # 0
  BY <1>3, <1>4, ShortestRoot
<1>6. ~(j < d)
  <2> SUFFICES ASSUME j < d PROVE FALSE
    OBVIOUS
  <2>1. j \in 1..N /\ j <= m
    BY <1>0, <1>1, <1>2, <1>4, <1>5
  <2>2. q # <<>> => j < q[1][2]
    BY DEF d
  <2>3. c \in v
    BY <2>1, <2>2, <1>2, <1>4, VisitedBelow
  <2> QED BY <2>3, <1>2
<1>7. j = d
  BY <1>1, <1>4, <1>6
<1> QED BY <1>3, <1>4, <1>7 DEF c, d

(* The bookmarks at one commit *)
MarksOf(l, c, d) == {b \in Entries : l[b.name] = {c} /\ b.distance = d}

(* One more visited commit adds the bookmarks at it *)
LEMMA MarksGrow ==
  ASSUME NEW g \in Graphs, NEW w \in Commits, NEW l, NEW m \in Nat, NEW A,
         NEW c, NEW d \in 0..N, d <= m, Shortest(g, w, c, d)
  PROVE  Marks(g, w, l, m, A \cup {c}) =
           Marks(g, w, l, m, A) \cup MarksOf(l, c, d)
<1> DEFINE new == MarksOf(l, c, d)
<1>1. ASSUME NEW b \in Entries, b.distance <= m, NEW a \in A \cup {c}, l[b.name] = {a},
             Shortest(g, w, a, b.distance)
      PROVE  b \in Marks(g, w, l, m, A) \cup new
  <2>1. CASE a \in A
    BY <2>1, <1>1 DEF Marks
  <2>2. CASE a = c
    <3>1. b.distance = d
      BY <2>2, <1>1, OnlyOne
    <3>2. b.name \in Names
      BY DEF Entries
    <3> QED BY <3>1, <3>2, <2>2, <1>1 DEF MarksOf
  <2> QED BY <2>1, <2>2
<1>2. new \subseteq Marks(g, w, l, m, A \cup {c})
  BY DEF Marks, MarksOf
<1>3. Marks(g, w, l, m, A) \subseteq Marks(g, w, l, m, A \cup {c})
  BY DEF Marks
<1>4. Marks(g, w, l, m, A \cup {c}) \subseteq Marks(g, w, l, m, A) \cup new
  BY <1>1 DEF Marks
<1> QED BY <1>2, <1>3, <1>4

(* The names a visit adds *)
NewFor(l, B, c) == {n \in Names \ {b.name : b \in ToSet(B)} : l[n] = {c}}

(* The parents a visit queues *)
Onward(g, m, c, d) == IF d < m THEN g[c] ELSE {}

(* A visit keeps what is true of the search *)
LEMMA VisitKeeps ==
  ASSUME NEW g, NEW w, NEW l, NEW m, Inputs(g, w, l, m), NEW E, NEW q, NEW v, NEW B,
         SearchOk(g, w, l, m, E, q, v, B), q # <<>>,
         q[1][2] <= m, q[1][1] \notin v, q[1][1] \in E,
         NEW ns \in SetToSeqs(NewFor(l, B, q[1][1])),
         NEW ps \in SetToSeqs(Onward(g, m, q[1][1], q[1][2]))
  PROVE  /\ SearchOk(g, w, l, m, E, Tail(q) \o Queued(ps, q[1][2] + 1), v \cup {q[1][1]},
                     B \o At(ns, q[1][2]))
         /\ (B # <<>> => B[1].distance >= q[1][2]) /\ OneLevel(B) => OneLevel(B \o At(ns, q[1][2]))
<1> DEFINE c == q[1][1]
           d == q[1][2]
           S == IF d < m THEN g[c] ELSE {}
           q2 == Tail(q) \o Queued(ps, d + 1)
           v2 == v \cup {c}
           T == {n \in Names : l[n] = {c}}
           new == At(ns, d)
           B2 == B \o new
<1>0. N \in Nat /\ (\A k \in 1..N : k \in 0..N /\ k \in Nat)
  BY InstanceAssumption
<1>1. g \in Graphs /\ w \in Commits /\ l \in [Names -> Targets] /\ m \in Nat
  BY Inputs(g, w, l, m) DEF Inputs
<1>2. /\ Pruned(g, w, E) /\ QueueOk(g, w, q)
      /\ v \in SUBSET Commits /\ w \notin v
      /\ Remaining(g, w, m, E, q, v) /\ InOrder(B) /\ Nearer(B, q)
      /\ ToSet(B) = Marks(g, w, l, m, E \cap (v \cup {w}))
  BY SearchOk(g, w, l, m, E, q, v, B) DEF SearchOk
<1>3. c \in Commits /\ d \in 1..N /\ d \in 0..N /\ d \in Nat /\ c \in Steps(g, w, d) /\ 1 \in DOMAIN q
  BY <1>0, <1>2, FrontIs DEF FrontOk
<1>4. Shortest(g, w, c, d) /\ c # w
  BY <1>1, <1>2, ShortestAtFront
<1>5. /\ QueueOk(g, w, q2)
      /\ \A i \in DOMAIN q : i # 1 => \E j \in DOMAIN q2 : q2[j] = q[i]
      /\ \A x \in S : \E j \in DOMAIN q2 : q2[j] = <<x, d + 1>>
      /\ \A j \in DOMAIN q2 : q2[j][2] \in Nat /\ q2[j][2] >= d
  <2>1. S = {} \/ S = g[c]
    OBVIOUS
  <2>2. ps \in SetToSeqs(S)
    BY DEF Onward
  <2> HIDE DEF S
  <2> QED BY <1>1, <1>2, <2>1, <2>2, QueueGrows
<1>6. T = {n \in Names \ {b.name : b \in ToSet(B)} : l[n] = {c}}
  <2> SUFFICES ASSUME NEW b \in ToSet(B), l[b.name] = {c} PROVE FALSE
    OBVIOUS
  <2>1. PICK a \in E \cap (v \cup {w}) : l[b.name] = {a}
    BY <1>2 DEF Marks
  <2>2. a = c
    BY <2>1
  <2> QED BY <2>1, <2>2, <1>4
<1>7. ns \in SetToSeqs(T) /\ T \in SUBSET Names
  BY <1>6 DEF NewFor
<1> HIDE DEF T
<1>8. /\ new \in Seq(Entries)
      /\ \A i \in DOMAIN new : new[i].name \in T /\ new[i].distance = d
      /\ \A i, j \in DOMAIN new : i # j => new[i].name # new[j].name
      /\ ToSet(new) = {b \in Entries : b.name \in T /\ b.distance = d}
  BY <1>3, <1>7, AtFacts
<1>9. /\ B \in Seq(Entries)
      /\ \A i, j \in DOMAIN B : i # j => B[i].name # B[j].name
      /\ \A i, j \in DOMAIN B : i < j => B[i].distance <= B[j].distance
  BY <1>2 DEF InOrder
<1> HIDE DEF new, q2, v2, c, d, S
<1>10. ToSet(B2) = ToSet(B) \cup ToSet(new)
  BY <1>8, <1>9, JoinedSet
<1>11. ToSet(B2) = Marks(g, w, l, m, E \cap (v2 \cup {w}))
  <2>1. E \cap (v2 \cup {w}) = (E \cap (v \cup {w})) \cup {c}
    BY DEF v2, c
  <2>2. d <= m
    BY DEF d
  <2>3. Marks(g, w, l, m, (E \cap (v \cup {w})) \cup {c}) = ToSet(B) \cup ToSet(new)
    <3> DEFINE A == E \cap (v \cup {w})
    <3>1. ToSet(B) = Marks(g, w, l, m, A)
      BY <1>2
    <3>2. ToSet(new) = MarksOf(l, c, d)
      <4>1. \A b \in Entries : b.name \in Names
        BY DEF Entries
      <4> QED BY <4>1, <1>8 DEF T, MarksOf
    <3> HIDE DEF A
    <3>3. Marks(g, w, l, m, A \cup {c}) = Marks(g, w, l, m, A) \cup MarksOf(l, c, d)
      BY <1>1, <1>3, <1>4, <2>2, MarksGrow
    <3> QED BY <3>1, <3>2, <3>3 DEF A
  <2> QED BY <2>1, <2>3, <1>10
<1>12. \A i \in DOMAIN B : B[i].name \notin T /\ B[i].distance \in Nat /\ B[i].distance <= d
  <2> TAKE i \in DOMAIN B
  <2>1. B[i] \in ToSet(B) /\ B[i] \in Entries
    BY <1>9 DEF ToSet
  <2>2. B[i].name \notin T
    BY <2>1, <1>6
  <2>3. B[i].distance \in Nat
    BY <2>1, <1>0 DEF Entries
  <2>4. B[i].distance <= d
    BY <1>2, <1>3 DEF Nearer, d
  <2> QED BY <2>2, <2>3, <2>4
<1>13. /\ B2 \in Seq(Entries)
       /\ \A i \in DOMAIN B2 :
            \/ i \in DOMAIN B /\ B2[i] = B[i]
            \/ i \notin DOMAIN B /\ i - Len(B) \in DOMAIN new /\ B2[i] = new[i - Len(B)]
       /\ \A i \in DOMAIN B2, j \in DOMAIN B : i < j => i \in DOMAIN B
  BY <1>8, <1>9, Joined
<1>14. \A i, j \in DOMAIN B2 : i # j => B2[i].name # B2[j].name
  <2> SUFFICES ASSUME NEW i \in DOMAIN B2, NEW j \in DOMAIN B2, i # j
               PROVE  B2[i].name # B2[j].name
    OBVIOUS
  <2>0. i \in Nat /\ j \in Nat /\ Len(B) \in Nat
    BY <1>13, <1>9
  <2>1. CASE i \in DOMAIN B /\ j \in DOMAIN B
    BY <2>1, <1>9, <1>13
  <2>2. CASE i \in DOMAIN B /\ j \notin DOMAIN B
    BY <2>2, <1>8, <1>12, <1>13
  <2>3. CASE i \notin DOMAIN B /\ j \in DOMAIN B
    BY <2>3, <1>8, <1>12, <1>13
  <2>4. CASE i \notin DOMAIN B /\ j \notin DOMAIN B
    <3>1. i - Len(B) # j - Len(B)
      BY <2>0
    <3>2. /\ i - Len(B) \in DOMAIN new /\ B2[i] = new[i - Len(B)]
          /\ j - Len(B) \in DOMAIN new /\ B2[j] = new[j - Len(B)]
      BY <2>4, <1>13
    <3> QED BY <3>1, <3>2, <1>8
  <2> QED BY <2>1, <2>2, <2>3, <2>4
<1>15. \A i \in DOMAIN B2 : /\ B2[i].distance \in Nat /\ B2[i].distance <= d
                            /\ i \notin DOMAIN B => B2[i].distance = d
  BY <1>3, <1>8, <1>12, <1>13
<1>16. \A i, j \in DOMAIN B2 : i < j => B2[i].distance <= B2[j].distance
  <2> SUFFICES ASSUME NEW i \in DOMAIN B2, NEW j \in DOMAIN B2, i < j
               PROVE  B2[i].distance <= B2[j].distance
    OBVIOUS
  <2>1. CASE j \in DOMAIN B
    <3>1. i \in DOMAIN B
      BY <2>1, <1>13
    <3> QED BY <3>1, <2>1, <1>9, <1>13
  <2>2. CASE j \notin DOMAIN B
    BY <2>2, <1>15
  <2> QED BY <2>1, <2>2
<1>17. InOrder(B2)
  BY <1>13, <1>14, <1>16 DEF InOrder
<1>18. Nearer(B2, q2)
  <2> SUFFICES ASSUME NEW i \in DOMAIN B2, NEW j \in DOMAIN q2
               PROVE  B2[i].distance <= q2[j][2]
    BY DEF Nearer
  <2>1. q2[j][2] \in Nat /\ q2[j][2] >= d
    BY <1>5
  <2> QED BY <2>1, <1>15, <1>3
<1>19. Remaining(g, w, m, E, q2, v2)
  <2> SUFFICES ASSUME NEW x \in E, NEW k \in 1..N, Shortest(g, w, x, k), k <= m, x \notin v2
               PROVE  \/ \E i \in DOMAIN q2 : q2[i] = <<x, k>>
                      \/ \E b \in E : Shortest(g, w, b, k - 1) /\ k - 1 # 0 /\ x \in g[b] /\ b \notin v2
    BY DEF Remaining
  <2>1. x \notin v /\ x # c
    BY DEF v2
  <2>2. \/ \E i \in DOMAIN q : q[i] = <<x, k>>
        \/ \E b \in E : Shortest(g, w, b, k - 1) /\ k - 1 # 0 /\ x \in g[b] /\ b \notin v
    BY <1>2, <2>1 DEF Remaining
  <2>3. CASE \E i \in DOMAIN q : q[i] = <<x, k>>
    <3>1. PICK i \in DOMAIN q : q[i] = <<x, k>>
      BY <2>3
    <3>2. i # 1
      <4> SUFFICES ASSUME i = 1 PROVE FALSE
        OBVIOUS
      <4>1. c = x
        BY <3>1 DEF c
      <4> QED BY <4>1, <2>1
    <3>3. \E j \in DOMAIN q2 : q2[j] = q[i]
      BY <3>2, <1>5
    <3> QED BY <3>1, <3>3
  <2>4. CASE \E b \in E : Shortest(g, w, b, k - 1) /\ k - 1 # 0 /\ x \in g[b] /\ b \notin v
    <3>1. PICK b \in E : Shortest(g, w, b, k - 1) /\ k - 1 # 0 /\ x \in g[b] /\ b \notin v
      BY <2>4
    <3>2. CASE b # c
      BY <3>1, <3>2 DEF v2
    <3>3. CASE b = c
      <4>1. k - 1 = d
        BY <3>1, <3>3, <1>4, OnlyOne
      <4>2. k = d + 1 /\ d < m
        BY <4>1, <1>1, <1>3, <1>0
      <4>3. x \in S
        BY <4>2, <3>1, <3>3 DEF S
      <4> QED BY <4>2, <4>3, <1>5
    <3> QED BY <3>2, <3>3
  <2> QED BY <2>2, <2>3, <2>4
<1>20. v2 \in SUBSET Commits /\ w \notin v2
  BY <1>2, <1>3, <1>4 DEF v2
<1> HIDE DEF B2
<1>21. SearchOk(g, w, l, m, E, q2, v2, B2)
  BY <1>2, <1>5, <1>11, <1>17, <1>18, <1>19, <1>20 DEF SearchOk
<1>22. ASSUME B # <<>> => B[1].distance >= d, OneLevel(B) PROVE OneLevel(B2)
  <2> SUFFICES ASSUME NEW i \in DOMAIN B2 PROVE B2[i].distance = d
    BY DEF OneLevel
  <2>1. CASE i \notin DOMAIN B
    BY <2>1, <1>15
  <2>2. CASE i \in DOMAIN B
    <3>1. B # <<>> /\ 1 \in DOMAIN B
      BY <2>2, <1>9
    <3>2. B[i].distance = B[1].distance /\ B2[i] = B[i]
      BY <3>1, <2>2, <1>22, <1>13 DEF OneLevel
    <3> QED BY <3>1, <3>2, <1>22, <1>12, <1>3
  <2> QED BY <2>1, <2>2
<1> QED BY <1>21, <1>22 DEF B2, new, q2, v2, c, d

-----------------------------------------------------------------------------
(* The other steps of a search *)

(* So does passing over the front: too far, seen before, or not of the *)
(* branch                                                              *)
LEMMA SkipKeeps ==
  ASSUME NEW g, NEW w, NEW l, NEW m, Inputs(g, w, l, m), NEW E, NEW q, NEW v, NEW B,
         SearchOk(g, w, l, m, E, q, v, B), q # <<>>,
         ~(q[1][2] <= m /\ q[1][1] \notin v /\ q[1][1] \in E),
         NEW v2, v2 = IF q[1][2] <= m THEN v \cup {q[1][1]} ELSE v
  PROVE  SearchOk(g, w, l, m, E, Tail(q), v2, B)
<1> DEFINE c == q[1][1]
           d == q[1][2]
           q2 == Tail(q)
<1>0. N \in Nat /\ (\A k \in 1..N : k \in 0..N /\ k \in Nat)
  BY InstanceAssumption
<1>1. g \in Graphs /\ w \in Commits /\ l \in [Names -> Targets] /\ m \in Nat
  BY Inputs(g, w, l, m) DEF Inputs
<1>2. /\ Pruned(g, w, E) /\ QueueOk(g, w, q)
      /\ v \in SUBSET Commits /\ w \notin v
      /\ Remaining(g, w, m, E, q, v) /\ InOrder(B) /\ Nearer(B, q)
      /\ ToSet(B) = Marks(g, w, l, m, E \cap (v \cup {w}))
  BY SearchOk(g, w, l, m, E, q, v, B) DEF SearchOk
<1>3. c \in Commits /\ d \in 1..N /\ d \in 0..N /\ d \in Nat /\ c \in Steps(g, w, d) /\ 1 \in DOMAIN q
      /\ q \in Seq(Commits \X (1..N))
  BY <1>0, <1>2, FrontIs DEF FrontOk
<1>4. c # w
  BY <1>1, <1>3, ShortestRoot
<1>5. /\ q2 \in Seq(Commits \X (1..N))
      /\ \A i \in DOMAIN q2 : i \in Nat /\ i + 1 \in DOMAIN q /\ q2[i] = q[i + 1]
      /\ \A i \in DOMAIN q : i # 1 => i - 1 \in DOMAIN q2 /\ q2[i - 1] = q[i]
  BY <1>2, <1>3, TailFacts
<1>6. /\ \A i \in DOMAIN q : q[i][1] \in Steps(g, w, q[i][2])
      /\ \A i, j \in DOMAIN q : (i < j => q[i][2] <= q[j][2]) /\ q[j][2] <= q[i][2] + 1
  BY <1>2 DEF QueueOk
<1>7. v2 \in SUBSET Commits /\ w \notin v2 /\ v \subseteq v2 /\ v2 \subseteq v \cup {c}
      /\ (d <= m => c \in v2) /\ E \cap v2 = E \cap v
  BY <1>2, <1>3, <1>4
<1> HIDE DEF c, d, q2
<1>8. QueueOk(g, w, q2)
  <2>1. \A i \in DOMAIN q2 : q2[i][1] \in Steps(g, w, q2[i][2])
    BY <1>5, <1>6
  <2>2. ASSUME NEW i \in DOMAIN q2, NEW j \in DOMAIN q2
        PROVE  (i < j => q2[i][2] <= q2[j][2]) /\ q2[j][2] <= q2[i][2] + 1
    <3>1. i < j => i + 1 < j + 1
      BY <1>5
    <3> QED BY <3>1, <1>5, <1>6
  <2> QED BY <1>5, <2>1, <2>2 DEF QueueOk
<1>9. Nearer(B, q2)
  BY <1>2, <1>5 DEF Nearer
<1>10. ToSet(B) = Marks(g, w, l, m, E \cap (v2 \cup {w}))
  <2>1. E \cap (v2 \cup {w}) = E \cap (v \cup {w})
    BY <1>7
  <2> QED BY <2>1, <1>2
<1>11. Remaining(g, w, m, E, q2, v2)
  <2> SUFFICES ASSUME NEW x \in E, NEW k \in 1..N, Shortest(g, w, x, k), k <= m, x \notin v2
               PROVE  \/ \E i \in DOMAIN q2 : q2[i] = <<x, k>>
                      \/ \E b \in E : Shortest(g, w, b, k - 1) /\ k - 1 # 0 /\ x \in g[b] /\ b \notin v2
    BY DEF Remaining
  <2>1. x \notin v
    BY <1>7
  <2>2. \/ \E i \in DOMAIN q : q[i] = <<x, k>>
        \/ \E b \in E : Shortest(g, w, b, k - 1) /\ k - 1 # 0 /\ x \in g[b] /\ b \notin v
    BY <1>2, <2>1 DEF Remaining
  <2>3. CASE \E i \in DOMAIN q : q[i] = <<x, k>>
    <3>1. PICK i \in DOMAIN q : q[i] = <<x, k>>
      BY <2>3
    <3>2. i # 1
      <4> SUFFICES ASSUME i = 1 PROVE FALSE
        OBVIOUS
      <4>1. c = x /\ d = k
        BY <3>1 DEF c, d
      <4> QED BY <4>1, <1>7
    <3>3. i - 1 \in DOMAIN q2 /\ q2[i - 1] = q[i]
      BY <3>2, <1>5
    <3> QED BY <3>1, <3>3
  <2>4. CASE \E b \in E : Shortest(g, w, b, k - 1) /\ k - 1 # 0 /\ x \in g[b] /\ b \notin v
    <3>1. PICK b \in E : Shortest(g, w, b, k - 1) /\ k - 1 # 0 /\ x \in g[b] /\ b \notin v
      BY <2>4
    <3>2. b \notin v2
      BY <3>1, <1>7
    <3> QED BY <3>1, <3>2
  <2> QED BY <2>2, <2>3, <2>4
<1> QED BY <1>2, <1>7, <1>8, <1>9, <1>10, <1>11 DEF SearchOk, q2

(* It is true of a search that begins at the working copy *)
LEMMA SearchBegins ==
  ASSUME NEW g, NEW w, NEW l, NEW m, Inputs(g, w, l, m), NEW E, Pruned(g, w, E),
         NEW ps \in SetToSeqs(g[w]),
         NEW ns \in SetToSeqs({n \in Names : l[n] = {w} /\ w \in E})
  PROVE  SearchOk(g, w, l, m, E, Queued(ps, 1), {}, At(ns, 0)) /\ OneLevel(At(ns, 0))
<1> DEFINE q == Queued(ps, 1)
           T == {n \in Names : l[n] = {w} /\ w \in E}
           B == At(ns, 0)
<1>0. N \in Nat /\ 0 \in 0..N /\ (\A k \in 1..N : k \in 0..N /\ k \in Nat)
  BY InstanceAssumption
<1>1. g \in Graphs /\ w \in Commits /\ l \in [Names -> Targets] /\ m \in Nat
  BY Inputs(g, w, l, m) DEF Inputs
<1>2. g[w] \in SUBSET Commits /\ w \in Steps(g, w, 0) /\ Steps(g, w, 0) = {w}
  BY <1>1, GraphFacts, StepsFacts
<1>3. \A p \in g[w] : 1 \in 1..N /\ p \in Steps(g, w, 1)
  <2> TAKE p \in g[w]
  <2>1. 0 + 1 \in 1..N /\ p \in Steps(g, w, 0 + 1)
    BY <1>0, <1>1, <1>2, StepUp
  <2> QED BY <2>1
<1>4. /\ q \in Seq(Commits \X (1..N))
      /\ \A i \in DOMAIN q : q[i][1] \in g[w] /\ q[i][2] = 1
      /\ \A x \in g[w] : \E i \in DOMAIN q : q[i] = <<x, 1>>
  <2>1. g[w] # {} => 1 \in 1..N
    BY <1>3
  <2> QED BY <1>2, <2>1, QueuedFacts
<1>5. T \in SUBSET Names
  OBVIOUS
<1>6. /\ B \in Seq(Entries)
      /\ \A i \in DOMAIN B : B[i].name \in T /\ B[i].distance = 0
      /\ \A i, j \in DOMAIN B : i # j => B[i].name # B[j].name
      /\ ToSet(B) = {b \in Entries : b.name \in T /\ b.distance = 0}
  BY <1>0, <1>5, AtFacts
<1> HIDE DEF q, B
<1>7. QueueOk(g, w, q)
  BY <1>3, <1>4 DEF QueueOk
<1>8. Remaining(g, w, m, E, q, {})
  <2> SUFFICES ASSUME NEW x \in E, NEW k \in 1..N, Shortest(g, w, x, k)
               PROVE  \/ \E i \in DOMAIN q : q[i] = <<x, k>>
                      \/ \E b \in E : Shortest(g, w, b, k - 1) /\ k - 1 # 0 /\ x \in g[b] /\ b \notin {}
    BY DEF Remaining
  <2>1. PICK b \in Commits : x \in g[b] /\ Shortest(g, w, b, k - 1)
    BY <1>1, Before
  <2>2. CASE k = 1
    <3>1. b = w
      BY <2>1, <2>2, <1>1, ShortestRoot
    <3> QED BY <3>1, <2>1, <2>2, <1>4
  <2>3. CASE k # 1
    <3>1. k - 1 \in 0..N /\ k - 1 # 0
      BY <2>3, <1>0
    <3>2. b \in Steps(g, w, k - 1)
      BY <2>1 DEF Shortest
    <3>3. b \in E
      BY <3>1, <3>2, <2>1, Pruned(g, w, E) DEF Pruned
    <3> QED BY <3>1, <3>3, <2>1
  <2> QED BY <2>2, <2>3
<1>9. InOrder(B) /\ OneLevel(B)
  BY <1>6 DEF InOrder, OneLevel
<1>10. Nearer(B, q)
  BY <1>4, <1>6 DEF Nearer
<1>11. ToSet(B) = Marks(g, w, l, m, E \cap ({} \cup {w}))
  <2>1. \A b \in Entries : b \in ToSet(B) <=> l[b.name] = {w} /\ w \in E /\ b.distance = 0
    <3>1. \A b \in Entries : b.name \in Names
      BY DEF Entries
    <3> QED BY <3>1, <1>6
  <2>2. \A b \in Entries : b \in Marks(g, w, l, m, E \cap ({} \cup {w}))
                             <=> l[b.name] = {w} /\ w \in E /\ b.distance = 0
    <3> TAKE b \in Entries
    <3>1. Shortest(g, w, w, b.distance) <=> b.distance = 0
      BY <1>1, ShortestRoot
    <3>2. b.distance = 0 => b.distance <= m
      BY <1>1
    <3> QED BY <3>1, <3>2 DEF Marks
  <2>3. ToSet(B) \subseteq Entries /\ Marks(g, w, l, m, E \cap ({} \cup {w})) \subseteq Entries
    BY <1>6 DEF Marks
  <2> QED BY <2>1, <2>2, <2>3
<1> QED BY <1>1, <1>7, <1>8, <1>9, <1>10, <1>11 DEF SearchOk, q, B

(* The searches may turn back at a commit outside the branch: none of its *)
(* parents is of the branch, trunk's history being closed                 *)
LEMMA BranchesArePruned ==
  ASSUME NEW g \in Graphs, NEW w \in Commits, NEW t \in Targets
  PROVE  Pruned(g, w, Commits) /\ Pruned(g, w, Line(g, w, t))
<1>1. \A k \in 0..N : Steps(g, w, k) \in SUBSET Commits
  BY StepsFacts
<1>2. Pruned(g, w, Commits)
  BY <1>1 DEF Pruned
<1>3. t \in SUBSET Commits /\ {w} \in SUBSET Commits
  BY DEF Targets
<1>4. Line(g, w, t) \subseteq Commits
  BY <1>3, HistoryIsClosed DEF Line
<1>5. ASSUME NEW k \in 0..N, NEW c \in Steps(g, w, k), c \notin Line(g, w, t)
      PROVE  g[c] \cap Line(g, w, t) = {}
  <2>1. c \in History(g, {w})
    BY StepsBelow
  <2>2. c \in History(g, t)
    BY <2>1, <1>5 DEF Line
  <2>3. g[c] \subseteq History(g, t)
    BY <2>2, <1>3, HistoryIsClosed
  <2> QED BY <2>3 DEF Line
<1> QED BY <1>2, <1>4, <1>5 DEF Pruned

-----------------------------------------------------------------------------
(* What a search has found *)

(* Of a search that has come past a distance, every bookmark within that *)
(* distance is found                                                     *)
LEMMA AllVisited ==
  ASSUME NEW g, NEW w, NEW l, NEW m, Inputs(g, w, l, m), NEW E, NEW q, NEW v, NEW B,
         SearchOk(g, w, l, m, E, q, v, B),
         NEW b \in Marks(g, w, l, m, E), q # <<>> => b.distance < q[1][2]
  PROVE  b \in ToSet(B)
<1>0. g \in Graphs /\ w \in Commits /\ m \in Nat /\ N \in Nat
  BY InstanceAssumption, Inputs(g, w, l, m) DEF Inputs
<1>1. /\ QueueOk(g, w, q) /\ Remaining(g, w, m, E, q, v)
      /\ ToSet(B) = Marks(g, w, l, m, E \cap (v \cup {w}))
  BY SearchOk(g, w, l, m, E, q, v, B) DEF SearchOk
<1>2. PICK c \in E : l[b.name] = {c} /\ Shortest(g, w, c, b.distance)
  BY DEF Marks
<1>3. b \in Entries /\ b.distance <= m /\ b.distance \in 0..N
  BY DEF Marks, Entries
<1>4. c \in v \cup {w}
  <2>1. CASE b.distance = 0
    BY <2>1, <1>0, <1>2, ShortestRoot
  <2>2. CASE b.distance # 0
    <3>1. b.distance \in 1..N
      BY <2>2, <1>0, <1>3
    <3> QED BY <3>1, <1>0, <1>1, <1>2, <1>3, VisitedBelow
  <2> QED BY <2>1, <2>2
<1> QED BY <1>1, <1>2, <1>3, <1>4 DEF Marks

(* The bookmarks of a part are among those of the whole *)
LEMMA MarksInclude ==
  ASSUME NEW g, NEW w, NEW l, NEW m, NEW A, NEW E
  PROVE  Marks(g, w, l, m, E \cap A) \subseteq Marks(g, w, l, m, E)
BY DEF Marks

(* A search that has emptied its queue has found exactly the bookmarks of *)
(* the branch within the depth                                            *)
LEMMA SearchIsComplete ==
  ASSUME NEW g, NEW w, NEW l, NEW m, Inputs(g, w, l, m), NEW E, NEW v, NEW B,
         SearchOk(g, w, l, m, E, <<>>, v, B)
  PROVE  ToSet(B) = Marks(g, w, l, m, E)
<1>1. Marks(g, w, l, m, E) \subseteq ToSet(B)
  BY AllVisited
<1>2. ToSet(B) = Marks(g, w, l, m, E \cap (v \cup {w}))
  BY DEF SearchOk
<1>3. Marks(g, w, l, m, E \cap (v \cup {w})) \subseteq Marks(g, w, l, m, E)
  BY MarksInclude
<1> QED BY <1>1, <1>2, <1>3


(* The nearest of some bookmarks *)
NearestOf(S) == {b \in S : \A o \in S : b.distance <= o.distance}

(* A search that stops behind the first level that has any has found *)
(* exactly the nearest                                               *)
LEMMA NearestIsComplete ==
  ASSUME NEW g, NEW w, NEW l, NEW m, Inputs(g, w, l, m), NEW E, NEW q, NEW v, NEW B,
         SearchOk(g, w, l, m, E, q, v, B), OneLevel(B),
         q # <<>> => B # <<>> /\ q[1][2] > B[1].distance
  PROVE  ToSet(B) = NearestOf(Marks(g, w, l, m, E))
<1> DEFINE M == Marks(g, w, l, m, E)
<1>1. ToSet(B) \subseteq M
  <2>1. ToSet(B) = Marks(g, w, l, m, E \cap (v \cup {w}))
    BY SearchOk(g, w, l, m, E, q, v, B) DEF SearchOk
  <2> QED BY <2>1, MarksInclude
<1>2. \A b \in M : b.distance \in Nat
  BY InstanceAssumption DEF Marks, Entries
<1>3. \A b \in M : (q # <<>> => b.distance < q[1][2]) => b \in ToSet(B)
  BY AllVisited
<1>4. B \in Seq(Entries) /\ DOMAIN B = 1..Len(B) /\ (B # <<>> => 1 \in DOMAIN B)
  <2>1. B \in Seq(Entries)
    BY SearchOk(g, w, l, m, E, q, v, B) DEF SearchOk, InOrder
  <2> QED BY <2>1
<1>5. \A a, b \in ToSet(B) : a.distance = b.distance
  BY OneLevel(B) DEF OneLevel, ToSet
<1>6. QueueOk(g, w, q)
  BY SearchOk(g, w, l, m, E, q, v, B) DEF SearchOk
<1> HIDE DEF M
<1>7. CASE q = <<>>
  <2>1. ToSet(B) = M
    BY <1>1, <1>3, <1>7
  <2> QED BY <2>1, <1>2, <1>5 DEF NearestOf, M
<1>8. CASE q # <<>>
  <2>1. B[1] \in ToSet(B) /\ B[1].distance < q[1][2] /\ q[1][2] \in Nat /\ B[1].distance \in Nat
    <3>1. B[1] \in ToSet(B)
      BY <1>4, <1>8 DEF ToSet
    <3>2. q[1][2] \in Nat
      BY <1>6, <1>8, FrontIs DEF FrontOk
    <3>3. B[1].distance \in Nat
      BY <3>1, <1>1, <1>2
    <3>4. q[1][2] > B[1].distance
      BY <1>8
    <3> QED BY <3>1, <3>2, <3>3, <3>4
  <2>2. ASSUME NEW b \in M PROVE B[1].distance <= b.distance
    <3> SUFFICES ASSUME b.distance < B[1].distance PROVE FALSE
      BY <2>1, <1>2
    <3>1. b.distance < q[1][2]
      BY <2>1, <1>2
    <3>2. b \in ToSet(B)
      BY <3>1, <1>3
    <3> QED BY <3>2, <2>1, <1>5
  <2>3. ToSet(B) \subseteq NearestOf(M)
    BY <2>1, <2>2, <1>1, <1>5 DEF NearestOf
  <2>4. ASSUME NEW b \in NearestOf(M) PROVE b \in ToSet(B)
    <3>1. b \in M /\ b.distance <= B[1].distance
      BY <2>1, <1>1 DEF NearestOf
    <3>2. b.distance < q[1][2]
      BY <3>1, <2>1, <1>2
    <3> QED BY <3>1, <3>2, <1>3
  <2> QED BY <2>3, <2>4 DEF M
<1> QED BY <1>7, <1>8

(* A list that names no bookmark twice is as long as its set *)
LEMMA Counted ==
  ASSUME NEW B, InOrder(B)
  PROVE  Len(B) = Cardinality(ToSet(B))
<1>1. B \in Seq(Entries) /\ \A i, j \in DOMAIN B : i # j => B[i].name # B[j].name
  BY DEF InOrder
<1>2. Len(B) \in Nat /\ DOMAIN B = 1..Len(B)
  BY <1>1
<1> DEFINE D == 1..Len(B)
           T == ToSet(B)
<1>3. IsFiniteSet(D) /\ Cardinality(D) = Len(B)
  <2>1. 1 \in Int /\ Len(B) \in Int /\ (1 > Len(B) => Len(B) = 0) /\ Len(B) - 1 + 1 = Len(B)
    BY <1>2
  <2> QED BY <2>1, FS_Interval
<1>4. B \in [D -> T]
  BY <1>1, <1>2 DEF ToSet
<1>5. B \in Surjection(D, T)
  BY <1>2, <1>4 DEF Surjection, ToSet
<1>6. B \in Injection(D, T)
  BY <1>1, <1>2, <1>4 DEF Injection, IsInjective
<1>7. Cardinality(T) = Cardinality(D)
  <2> HIDE DEF D, T
  <2> QED BY <1>3, <1>5, <1>6, FS_Surjection
<1> QED BY <1>3, <1>7

-----------------------------------------------------------------------------
(* The property's reachable bookmarks, for any state *)
ReachOf(g, w, l, m) ==
  {b \in {[name |-> n, distance |-> k] : n \in Names, k \in {k \in 0..N : k <= m}} :
     /\ l[b.name] # {} /\ l[b.name] \subseteq Steps(g, w, b.distance)
     /\ \A k \in {k \in 0..N : k <= m} : k < b.distance => ~(l[b.name] \subseteq Steps(g, w, k))}

(* The property, for any state *)
FoundIs(g, w, t, l, m, B) ==
  LET line == {b \in ReachOf(g, w, l, m) : l[b.name] \subseteq Line(g, w, t)}
      want == IF t # {} /\ line # {} THEN line ELSE NearestOf(ReachOf(g, w, l, m))
  IN  /\ ToSet(B) = want
      /\ Len(B) = Cardinality(want)
      /\ \A i, j \in DOMAIN B : i < j => B[i].distance <= B[j].distance

(* The property, for the variables as they are *)
LEMMA FoundAs ==
  FoundAreTheLine <=> (phase = "done" => FoundIs(parents, wc_id, trunk, local, max_depth, bookmarks))
BY DEF FoundAreTheLine, FoundIs, InReach, Nearest, NearestOf, ReachOf, Distances, Reach, AtSteps, Steps,
       CurrentLine, Line

(* and as they will be *)
LEMMA FoundAsThen ==
  FoundAreTheLine' <=>
    (phase' = "done" => FoundIs(parents', wc_id', trunk', local', max_depth', bookmarks'))
BY DEF FoundAreTheLine, FoundIs, InReach, Nearest, NearestOf, ReachOf, Distances, Reach, AtSteps, Steps,
       CurrentLine, Line

(* The property's distances are the shortest ways *)
LEMMA ReachIs ==
  ASSUME NEW g, NEW w, NEW l, NEW m, Inputs(g, w, l, m)
  PROVE  /\ ReachOf(g, w, l, m) = Marks(g, w, l, m, Commits)
         /\ \A A : A \subseteq Commits =>
              {b \in ReachOf(g, w, l, m) : l[b.name] \subseteq A} = Marks(g, w, l, m, A)
<1>0. g \in Graphs /\ w \in Commits /\ l \in [Names -> Targets] /\ m \in Nat /\ N \in Nat
  BY InstanceAssumption, Inputs(g, w, l, m) DEF Inputs
<1> DEFINE K == {k \in 0..N : k <= m}
<1>1. ASSUME NEW b \in Entries
      PROVE  b \in ReachOf(g, w, l, m) <=>
               b.distance <= m /\ \E c \in Commits : l[b.name] = {c} /\ Shortest(g, w, c, b.distance)
  <2>1. b.name \in Names /\ b.distance \in 0..N /\ b = [name |-> b.name, distance |-> b.distance]
    BY DEF Entries
  <2>2. b \in {[name |-> n, distance |-> k] : n \in Names, k \in K} <=> b.distance <= m
    BY <2>1
  <2>3. l[b.name] \in Targets
    BY <2>1, <1>0
  <2>4. CASE l[b.name] = {}
    BY <2>4 DEF ReachOf
  <2>5. CASE \E c \in Commits : l[b.name] = {c}
    <3>1. PICK c \in Commits : l[b.name] = {c}
      BY <2>5
    <3>2. b.distance <= m => (Shortest(g, w, c, b.distance) <=>
            c \in Steps(g, w, b.distance) /\ \A k \in K : k < b.distance => c \notin Steps(g, w, k))
      BY <2>1, <1>0 DEF Shortest
    <3>3. \A k : l[b.name] \subseteq Steps(g, w, k) <=> c \in Steps(g, w, k)
      BY <3>1
    <3>4. b \in ReachOf(g, w, l, m) <=>
            b.distance <= m /\ c \in Steps(g, w, b.distance) /\ \A k \in K : k < b.distance => c \notin Steps(g, w, k)
      BY <3>1, <3>3, <2>2 DEF ReachOf
    <3> QED BY <3>1, <3>2, <3>4
  <2> QED BY <2>3, <2>4, <2>5 DEF Targets
<1>2. ReachOf(g, w, l, m) \subseteq Entries
  BY DEF ReachOf, Entries
<1>3. ReachOf(g, w, l, m) = Marks(g, w, l, m, Commits)
  BY <1>1, <1>2 DEF Marks
<1>4. ASSUME NEW A, A \subseteq Commits
      PROVE  {b \in ReachOf(g, w, l, m) : l[b.name] \subseteq A} = Marks(g, w, l, m, A)
  BY <1>3, <1>4 DEF Marks
<1> QED BY <1>3, <1>4

-----------------------------------------------------------------------------
(* The steps, and the theorem *)

(* Nothing is searched in the first state *)
LEMMA SearchInvInit == FindInit => SearchInv
<1> SUFFICES ASSUME FindInit PROVE SearchInv
  OBVIOUS
<1>1. Inputs(parents, wc_id, local, max_depth) /\ trunk \in Targets
  BY InstanceAssumption DEF FindInit, Inputs, Targets
<1>2. phase = "start"
  BY DEF FindInit
<1> QED BY <1>1, <1>2 DEF SearchInv, Searching, FoundAreTheLine

(* A search begins as the lemma above says *)
LEMMA BeginKeeps ==
  ASSUME SearchInv, NEW goal, NEW entered, Search(goal, entered),
         \/ goal = "line" /\ trunk # {} /\ entered = CurrentLine
         \/ /\ goal = "nearest" /\ entered = Commits
            /\ \/ trunk = {}
               \/ Marks(parents, wc_id, local, max_depth, Line(parents, wc_id, trunk)) = {}
  PROVE  SearchInv'
<1>1. Inputs(parents, wc_id, local, max_depth) /\ trunk \in Targets
  BY DEF SearchInv
<1>2. UNCHANGED <<parents, wc_id, trunk, local, max_depth>>
  BY DEF Search, graph
<1>3. phase' = goal /\ in_branch' = entered /\ visited' = {}
  BY DEF Search
<1>4. PICK ps \in SetToSeqs(parents[wc_id]) : queue' = Queued(ps, 1)
  BY DEF Search
<1>5. PICK ns \in SetToSeqs({n \in Names : local[n] = {wc_id} /\ wc_id \in entered}) : bookmarks' = At(ns, 0)
  BY DEF Search
<1>6. parents \in Graphs /\ wc_id \in Commits
  BY <1>1 DEF Inputs
<1>7. CurrentLine = Line(parents, wc_id, trunk)
  BY DEF CurrentLine, Line
<1>8. Pruned(parents, wc_id, entered)
  BY <1>1, <1>6, <1>7, BranchesArePruned
<1>9. /\ SearchOk(parents, wc_id, local, max_depth, entered, Queued(ps, 1), {}, At(ns, 0))
      /\ OneLevel(At(ns, 0))
  BY <1>1, <1>8, SearchBegins
<1>10. SearchOk(parents', wc_id', local', max_depth', in_branch', queue', visited', bookmarks')
       /\ OneLevel(bookmarks')
  BY <1>2, <1>3, <1>4, <1>5, <1>9
<1>11. FoundAreTheLine'
  BY <1>3 DEF FoundAreTheLine
<1>12. Inputs(parents', wc_id', local', max_depth') /\ trunk' \in Targets
  BY <1>1, <1>2
<1>13. /\ goal = "line" => trunk' # {} /\ in_branch' = Line(parents', wc_id', trunk')
       /\ goal = "nearest" =>
            /\ in_branch' = Commits
            /\ \/ trunk' = {}
               \/ Marks(parents', wc_id', local', max_depth', Line(parents', wc_id', trunk')) = {}
  BY <1>2, <1>3, <1>7
<1> QED BY <1>3, <1>10, <1>11, <1>12, <1>13 DEF SearchInv

(* the one of the current line *)
LEMMA SearchLineKeeps ==
  ASSUME SearchInv, SearchLine PROVE SearchInv'
BY BeginKeeps DEF SearchLine

(* and the one for the nearest, where there is no trunk or nothing on the *)
(* line                                                                   *)
LEMMA SearchNearestKeeps ==
  ASSUME SearchInv, SearchNearest PROVE SearchInv'
<1>1. CASE trunk = {}
  BY <1>1, BeginKeeps DEF SearchNearest
<1>2. CASE phase = "line" /\ Over /\ bookmarks = <<>>
  <2>1. queue = <<>>
    BY <1>2 DEF Over, LevelDone
  <2>2. /\ Inputs(parents, wc_id, local, max_depth)
        /\ SearchOk(parents, wc_id, local, max_depth, in_branch, <<>>, visited, bookmarks)
        /\ in_branch = Line(parents, wc_id, trunk)
    BY <1>2, <2>1 DEF SearchInv, Searching
  <2>3. ToSet(bookmarks) = Marks(parents, wc_id, local, max_depth, Line(parents, wc_id, trunk))
    BY <2>2, SearchIsComplete
  <2>4. ToSet(bookmarks) = {}
    BY <1>2 DEF ToSet
  <2> QED BY <2>3, <2>4, BeginKeeps DEF SearchNearest
<1> QED BY <1>1, <1>2 DEF SearchNearest

(* A step inside a search *)
LEMMA StepKeeps ==
  ASSUME SearchInv, Searching,
         UNCHANGED <<graph, phase, in_branch>>,
         SearchOk(parents, wc_id, local, max_depth, in_branch, queue', visited', bookmarks'),
         phase = "nearest" => OneLevel(bookmarks')
  PROVE  SearchInv'
<1>1. UNCHANGED <<parents, wc_id, trunk, local, max_depth, phase, in_branch>>
  BY DEF graph
<1>2. SearchOk(parents', wc_id', local', max_depth', in_branch', queue', visited', bookmarks')
  BY <1>1
<1>3. FoundAreTheLine'
  BY <1>1 DEF FoundAreTheLine, Searching
<1>4. /\ Inputs(parents', wc_id', local', max_depth')
      /\ trunk' \in Targets
      /\ phase' \in {"start", "line", "nearest", "done"}
      /\ phase' = "line" => trunk' # {} /\ in_branch' = Line(parents', wc_id', trunk')
      /\ phase' = "nearest" =>
           /\ in_branch' = Commits
           /\ trunk' = {} \/ Marks(parents', wc_id', local', max_depth', Line(parents', wc_id', trunk')) = {}
           /\ OneLevel(bookmarks')
  BY <1>1 DEF SearchInv
<1> QED BY <1>2, <1>3, <1>4 DEF SearchInv

(* passing over the front *)
LEMMA SkipKeepsInv ==
  ASSUME SearchInv, Skip PROVE SearchInv'
<1>1. /\ Searching /\ queue # <<>> /\ ~Enter(queue[1][1], queue[1][2])
      /\ queue' = Tail(queue) /\ UNCHANGED <<graph, phase, in_branch>> /\ bookmarks' = bookmarks
  BY DEF Skip
<1>4. visited' = IF queue[1][2] <= max_depth THEN visited \cup {queue[1][1]} ELSE visited
  BY DEF Skip
<1>2. /\ Inputs(parents, wc_id, local, max_depth)
      /\ SearchOk(parents, wc_id, local, max_depth, in_branch, queue, visited, bookmarks)
      /\ phase = "nearest" => OneLevel(bookmarks)
  BY <1>1 DEF SearchInv
<1>3. SearchOk(parents, wc_id, local, max_depth, in_branch, Tail(queue), visited', bookmarks)
  <2>1. ~(queue[1][2] <= max_depth /\ queue[1][1] \notin visited /\ queue[1][1] \in in_branch)
    BY <1>1 DEF Enter
  <2> QED BY <1>1, <1>2, <1>4, <2>1, SkipKeeps
<1>5. SearchOk(parents, wc_id, local, max_depth, in_branch, queue', visited', bookmarks')
  BY <1>1, <1>3
<1> QED BY <1>1, <1>2, <1>5, StepKeeps

(* visiting it *)
LEMMA VisitKeepsInv ==
  ASSUME SearchInv, Visit PROVE SearchInv'
<1>1. Searching /\ queue # <<>> /\ Enter(queue[1][1], queue[1][2]) /\ ~LevelDone(queue[1][2])
      /\ visited' = visited \cup {queue[1][1]} /\ UNCHANGED <<graph, phase, in_branch>>
  BY DEF Visit
<1>2. PICK ns \in SetToSeqs(NewOn(queue[1][1])) : bookmarks' = bookmarks \o At(ns, queue[1][2])
  BY DEF Visit
<1>3. PICK ps \in SetToSeqs(IF queue[1][2] < max_depth THEN parents[queue[1][1]] ELSE {}) :
        queue' = Tail(queue) \o Queued(ps, queue[1][2] + 1)
  BY DEF Visit
<1>4. /\ Inputs(parents, wc_id, local, max_depth)
      /\ SearchOk(parents, wc_id, local, max_depth, in_branch, queue, visited, bookmarks)
      /\ phase = "nearest" => OneLevel(bookmarks)
  BY <1>1 DEF SearchInv
<1>5. queue[1][2] <= max_depth /\ queue[1][1] \notin visited /\ queue[1][1] \in in_branch
  BY <1>1 DEF Enter
<1>6. /\ ns \in SetToSeqs(NewFor(local, bookmarks, queue[1][1]))
      /\ ps \in SetToSeqs(Onward(parents, max_depth, queue[1][1], queue[1][2]))
  BY DEF NewOn, Seen, NewFor, Onward
<1>7. /\ SearchOk(parents, wc_id, local, max_depth, in_branch,
                  Tail(queue) \o Queued(ps, queue[1][2] + 1), visited \cup {queue[1][1]},
                  bookmarks \o At(ns, queue[1][2]))
      /\ (bookmarks # <<>> => bookmarks[1].distance >= queue[1][2]) /\ OneLevel(bookmarks)
           => OneLevel(bookmarks \o At(ns, queue[1][2]))
  BY <1>1, <1>4, <1>5, <1>6, VisitKeeps
<1>8. ASSUME phase = "nearest", bookmarks # <<>> PROVE bookmarks[1].distance >= queue[1][2]
  <2>1. ~(queue[1][2] > bookmarks[1].distance)
    BY <1>1, <1>8 DEF LevelDone
  <2>2. InOrder(bookmarks) /\ QueueOk(parents, wc_id, queue)
    BY <1>4 DEF SearchOk
  <2>3. queue[1][2] \in Nat
    BY <1>1, <2>2, FrontIs DEF FrontOk
  <2>4. bookmarks[1] \in Entries
    BY <1>8, <2>2 DEF InOrder
  <2>5. bookmarks[1].distance \in Nat
    BY <2>4, InstanceAssumption DEF Entries
  <2> QED BY <2>1, <2>3, <2>5
<1>9. phase = "nearest" => OneLevel(bookmarks')
  BY <1>2, <1>4, <1>7, <1>8
<1>10. SearchOk(parents, wc_id, local, max_depth, in_branch, queue', visited', bookmarks')
  BY <1>1, <1>2, <1>3, <1>7
<1> QED BY <1>1, <1>9, <1>10, StepKeeps

(* The search ends: what it found is what the property asks for *)
LEMMA FinishKeeps ==
  ASSUME SearchInv, Finish PROVE SearchInv'
<1>1. Over /\ (phase = "nearest" \/ bookmarks # <<>>) /\ phase' = "done"
      /\ UNCHANGED <<parents, wc_id, trunk, local, max_depth, bookmarks>>
  BY DEF Finish, graph
<1>2. /\ Inputs(parents, wc_id, local, max_depth) /\ trunk \in Targets
      /\ Searching
      /\ SearchOk(parents, wc_id, local, max_depth, in_branch, queue, visited, bookmarks)
  BY <1>1 DEF SearchInv, Over
<1> DEFINE l == local
           reach == ReachOf(parents, wc_id, local, max_depth)
           A == Line(parents, wc_id, trunk)
           line == {b \in reach : local[b.name] \subseteq A}
<1>3. /\ reach = Marks(parents, wc_id, local, max_depth, Commits)
      /\ line = Marks(parents, wc_id, local, max_depth, A)
  <2>1. A \subseteq Commits
    BY <1>2, BranchesArePruned DEF Inputs, Pruned
  <2> QED BY <1>2, <2>1, ReachIs
<1>4. InOrder(bookmarks) /\ Len(bookmarks) = Cardinality(ToSet(bookmarks))
  BY <1>2, Counted DEF SearchOk
<1>5. ToSet(bookmarks) = IF trunk # {} /\ line # {} THEN line ELSE NearestOf(reach)
  <2>1. CASE phase = "line"
    <3>1. queue = <<>> /\ bookmarks # <<>> /\ trunk # {} /\ in_branch = A
      BY <2>1, <1>1 DEF Over, LevelDone, SearchInv
    <3>2. ToSet(bookmarks) = line
      BY <1>2, <1>3, <3>1, SearchIsComplete
    <3>3. bookmarks[1] \in ToSet(bookmarks)
      <4>1. bookmarks \in Seq(Entries)
        BY <1>4 DEF InOrder
      <4> QED BY <4>1, <3>1 DEF ToSet
    <3> QED BY <3>1, <3>2, <3>3
  <2>2. CASE phase = "nearest"
    <3>1. /\ in_branch = Commits /\ OneLevel(bookmarks)
          /\ trunk = {} \/ line = {}
      BY <2>2, <1>3 DEF SearchInv
    <3>2. queue # <<>> => bookmarks # <<>> /\ queue[1][2] > bookmarks[1].distance
      BY <1>1 DEF Over, LevelDone
    <3>3. ToSet(bookmarks) = NearestOf(reach)
      BY <1>2, <1>3, <3>1, <3>2, NearestIsComplete
    <3> QED BY <3>1, <3>3
  <2> QED BY <2>1, <2>2, <1>2 DEF Searching
<1>6. FoundIs(parents, wc_id, trunk, local, max_depth, bookmarks)
  BY <1>4, <1>5 DEF FoundIs, InOrder
<1>7. FoundAreTheLine'
  <2>1. FoundIs(parents', wc_id', trunk', local', max_depth', bookmarks')
    BY <1>1, <1>6
  <2> QED BY <2>1, FoundAsThen
<1>8. Inputs(parents', wc_id', local', max_depth') /\ trunk' \in Targets
  BY <1>1, <1>2
<1> QED BY <1>1, <1>7, <1>8 DEF SearchInv, Searching

(* A stuttering step *)
LEMMA StutterKeeps ==
  ASSUME SearchInv, UNCHANGED find_vars PROVE SearchInv'
<1>1. UNCHANGED <<parents, wc_id, trunk, local, max_depth, phase, in_branch, queue, visited, bookmarks>>
  BY DEF find_vars, graph, search
<1>2. phase = "done" => FoundIs(parents, wc_id, trunk, local, max_depth, bookmarks)
  BY FoundAs DEF SearchInv
<1>3. FoundAreTheLine'
  <2>1. phase' = "done" => FoundIs(parents', wc_id', trunk', local', max_depth', bookmarks')
    BY <1>1, <1>2
  <2> QED BY <2>1, FoundAsThen
<1> QED BY <1>1, <1>3 DEF SearchInv, Searching

(* The search's invariant holds in every state. *)
THEOREM BookmarksInv == FindSpec => []SearchInv
<1>1. ASSUME SearchInv, [FindNext]_find_vars PROVE SearchInv'
  BY <1>1, SearchLineKeeps, SearchNearestKeeps, SkipKeepsInv, VisitKeepsInv, FinishKeeps, StutterKeeps
     DEF FindNext
<1> QED BY <1>1, SearchInvInit, PTL DEF FindSpec

(* find_ancestor_bookmarks (jj.rs) answers, in whatever order it takes    *)
(* parents and names, with every bookmark of the line between trunk and   *)
(* the working copy within the depth, or else with the nearest ones, each *)
(* once, at its shortest distance, nearest first: for any commit graph,   *)
(* any names and any depth.                                               *)
THEOREM BookmarksAreTheLine == FindSpec => []FoundAreTheLine
<1>1. SearchInv => FoundAreTheLine
  BY DEF SearchInv
<1> QED BY <1>1, BookmarksInv, PTL

-----------------------------------------------------------------------------
(* What the template keeps: folds *)

(* The greatest of an interval is its end *)
LEMMA GreatestOfInterval ==
  ASSUME NEW n \in Nat
  PROVE  /\ 1..(n + 1) # {} /\ Max(1..(n + 1)) = n + 1
         /\ (1..(n + 1)) \ {n + 1} = 1..n
<1> DEFINE s == 1..(n + 1)
<1>1. s # {} /\ n + 1 \in s /\ s \subseteq 1..(n + 1) /\ \A y \in s : y \in Nat /\ y <= n + 1
  OBVIOUS
<1>2. Max(s) \in s /\ \A y \in s : y <= Max(s)
  BY <1>1, Greatest, n + 1 \in Nat
<1>3. Max(s) = n + 1
  BY <1>1, <1>2
<1> QED BY <1>1, <1>3

(* A fold is a function of the places it has gone through *)
FoldIs(f, base, seq, step) ==
  f = [S \in SUBSET DOMAIN seq |->
        IF S = {} THEN base ELSE step[<<f[S \ {Max(S)}], seq[Max(S)]>>]]

(* Its first m places *)
FoldTo(f, D, base, seq, step, m) ==
  /\ f \in [SUBSET (1..m) -> D] /\ f[{}] = base
  /\ \A S \in SUBSET (1..m) : S # {} => f[S] = step[<<f[S \ {Max(S)}], seq[Max(S)]>>]

(* One more place *)
LEMMA FoldGoesOn ==
  ASSUME NEW D, NEW base \in D, NEW X, NEW seq, NEW step \in [D \X X -> D], NEW m \in Nat,
         seq[m + 1] \in X, NEW f, FoldTo(f, D, base, seq, step, m)
  PROVE  \E h : FoldTo(h, D, base, seq, step, m + 1)
<1> DEFINE h == [S \in SUBSET (1..(m + 1)) |->
                  IF m + 1 \in S THEN step[<<f[S \ {m + 1}], seq[m + 1]>>] ELSE f[S]]
<1>1. /\ f \in [SUBSET (1..m) -> D] /\ f[{}] = base
      /\ \A S \in SUBSET (1..m) : S # {} => f[S] = step[<<f[S \ {Max(S)}], seq[Max(S)]>>]
  BY DEF FoldTo
<1>3. \A S \in SUBSET (1..(m + 1)) : /\ S \ {m + 1} \in SUBSET (1..m)
                                     /\ m + 1 \notin S => S \in SUBSET (1..m)
  <2> HIDE DEF h
  <2>1. \A x \in 1..(m + 1) : x # m + 1 => x \in 1..m
    OBVIOUS
  <2> QED BY <2>1
<1>4. h \in [SUBSET (1..(m + 1)) -> D]
  <2>1. ASSUME NEW S \in SUBSET (1..(m + 1)) PROVE h[S] \in D
    <3>1. CASE m + 1 \in S
      <4>1. f[S \ {m + 1}] \in D
        BY <1>1, <1>3
      <4>2. h[S] = step[<<f[S \ {m + 1}], seq[m + 1]>>]
        BY <3>1
      <4> HIDE DEF h
      <4> QED BY <4>1, <4>2
    <3>2. CASE m + 1 \notin S
      <4>1. h[S] = f[S]
        BY <3>2
      <4> HIDE DEF h
      <4> QED BY <4>1, <3>2, <1>1, <1>3
    <3> QED BY <3>1, <3>2
  <2>2. h = [S \in SUBSET (1..(m + 1)) |-> h[S]]
    OBVIOUS
  <2> HIDE DEF h
  <2> QED BY <2>1, <2>2
<1>5. h[{}] = base
  BY <1>1
<1>6. ASSUME NEW S \in SUBSET (1..(m + 1)), S # {}
      PROVE  h[S] = step[<<h[S \ {Max(S)}], seq[Max(S)]>>]
  <2>1. Max(S) \in S /\ \A y \in S : y <= Max(S)
    BY <1>6, Greatest, m + 1 \in Nat
  <2>2. CASE m + 1 \in S
    <3>0. \A x \in S : x \in Nat /\ x <= m + 1
      OBVIOUS
    <3>1. Max(S) = m + 1
      <4>1. Max(S) \in Nat /\ Max(S) <= m + 1
        BY <2>1, <3>0
      <4>2. m + 1 <= Max(S)
        BY <2>1, <2>2
      <4> QED BY <4>1, <4>2
    <3>2. h[S \ {m + 1}] = f[S \ {m + 1}]
      BY <1>3
    <3>3. h[S] = step[<<f[S \ {m + 1}], seq[m + 1]>>]
      BY <2>2
    <3> QED BY <3>1, <3>2, <3>3
  <2>3. CASE m + 1 \notin S
    <3>0. S \ {Max(S)} \in SUBSET (1..(m + 1)) /\ m + 1 \notin S \ {Max(S)}
      BY <2>3
    <3>1. h[S] = f[S] /\ h[S \ {Max(S)}] = f[S \ {Max(S)}]
      BY <2>3, <3>0
    <3>2. f[S] = step[<<f[S \ {Max(S)}], seq[Max(S)]>>]
      BY <1>1, <1>3, <1>6, <2>3
    <3> QED BY <3>1, <3>2
  <2> QED BY <2>2, <2>3
<1> HIDE DEF h
<1> QED BY <1>4, <1>5, <1>6 DEF FoldTo

(* Any fold with a total step exists *)
LEMMA FoldExists ==
  ASSUME NEW D, NEW base \in D, NEW X, NEW seq \in Seq(X), NEW step \in [D \X X -> D]
  PROVE  \E f \in [SUBSET DOMAIN seq -> D] : FoldIs(f, base, seq, step)
<1> DEFINE M == {m \in Nat : m <= Len(seq) => \E f : FoldTo(f, D, base, seq, step, m)}
<1>0. DOMAIN seq = 1..Len(seq) /\ Len(seq) \in Nat /\ \A i \in 1..Len(seq) : seq[i] \in X
  OBVIOUS
<1>1. 0 \in M
  <2> DEFINE f == [S \in SUBSET (1..0) |-> base]
  <2>1. 1..0 = {}
    OBVIOUS
  <2>2. \A S \in SUBSET (1..0) : S = {}
    BY <2>1
  <2>3. {} \in SUBSET (1..0)
    OBVIOUS
  <2>4. f \in [SUBSET (1..0) -> D] /\ f[{}] = base
    BY <2>3
  <2>5. FoldTo(f, D, base, seq, step, 0)
    <3> HIDE DEF f
    <3> QED BY <2>2, <2>4 DEF FoldTo
  <2> QED BY <2>5
<1>2. ASSUME NEW m \in Nat, m \in M PROVE m + 1 \in M
  <2> SUFFICES ASSUME m + 1 <= Len(seq) PROVE \E f : FoldTo(f, D, base, seq, step, m + 1)
    OBVIOUS
  <2>1. PICK f : FoldTo(f, D, base, seq, step, m)
    BY <1>2, <1>0
  <2>2. seq[m + 1] \in X
    BY <1>0
  <2> QED BY <2>1, <2>2, FoldGoesOn
<1>3. Nat \subseteq M
  <2> HIDE DEF M
  <2> QED BY <1>1, <1>2, NatSet
<1>4. PICK f : FoldTo(f, D, base, seq, step, Len(seq))
  BY <1>3, <1>0
<1>5. f = [S \in SUBSET DOMAIN seq |-> f[S]] /\ f \in [SUBSET DOMAIN seq -> D]
  BY <1>4, <1>0 DEF FoldTo
<1>6. \A S \in SUBSET DOMAIN seq :
        f[S] = IF S = {} THEN base ELSE step[<<f[S \ {Max(S)}], seq[Max(S)]>>]
  BY <1>4, <1>0 DEF FoldTo
<1>7. f = [S \in SUBSET DOMAIN seq |->
            IF S = {} THEN base ELSE step[<<f[S \ {Max(S)}], seq[Max(S)]>>]]
  BY <1>5, <1>6
<1> QED BY <1>5, <1>7 DEF FoldIs

(* A start, and steps that depend on the place *)
StepsTo(f, D, base, s, n) ==
  f \in [0..n -> D] /\ f[0] = base /\ \A k \in 1..n : f[k] = s[<<k, f[k - 1]>>]

(* and exists, whatever the step does with the place *)
LEMMA StepsExist ==
  ASSUME NEW D, NEW base \in D, NEW n \in Nat, NEW s \in [(1..n) \X D -> D]
  PROVE  \E f : StepsTo(f, D, base, s, n)
<1> DEFINE M == {m \in Nat : m <= n => \E f : StepsTo(f, D, base, s, m)}
<1>1. 0 \in M
  <2> DEFINE f == [k \in 0..0 |-> base]
  <2>1. f \in [0..0 -> D] /\ f[0] = base
    OBVIOUS
  <2>2. \A k \in 1..0 : FALSE
    OBVIOUS
  <2>3. StepsTo(f, D, base, s, 0)
    <3> HIDE DEF f
    <3> QED BY <2>1, <2>2 DEF StepsTo
  <2> QED BY <2>3
<1>2. ASSUME NEW m \in Nat, m \in M PROVE m + 1 \in M
  <2> SUFFICES ASSUME m + 1 <= n PROVE \E f : StepsTo(f, D, base, s, m + 1)
    OBVIOUS
  <2>1. PICK f : StepsTo(f, D, base, s, m)
    BY <1>2
  <2>2. f \in [0..m -> D] /\ f[0] = base /\ \A k \in 1..m : f[k] = s[<<k, f[k - 1]>>]
    BY <2>1 DEF StepsTo
  <2> DEFINE h == [k \in 0..(m + 1) |-> IF k = m + 1 THEN s[<<m + 1, f[m]>>] ELSE f[k]]
  <2>3. f[m] \in D /\ m + 1 \in 1..n
    BY <2>2
  <2>4. s[<<m + 1, f[m]>>] \in D
    BY <2>3
  <2>5. \A k \in 0..(m + 1) : k # m + 1 => k \in 0..m
    OBVIOUS
  <2>6. h \in [0..(m + 1) -> D] /\ h[0] = base
    BY <2>2, <2>4, <2>5
  <2>7. ASSUME NEW k \in 1..(m + 1) PROVE h[k] = s[<<k, h[k - 1]>>]
    <3>1. k - 1 \in 0..m /\ k - 1 # m + 1 /\ k \in 0..(m + 1) /\ k - 1 \in 0..(m + 1)
      OBVIOUS
    <3>2. h[k - 1] = f[k - 1]
      BY <3>1
    <3>3. CASE k = m + 1
      <4>1. k - 1 = m /\ h[k] = s[<<m + 1, f[m]>>]
        BY <3>3, <3>1
      <4> QED BY <4>1, <3>2, <3>3
    <3>4. CASE k # m + 1
      <4>1. k \in 1..m
        BY <3>4
      <4>2. h[k] = f[k]
        BY <3>1, <3>4
      <4> QED BY <4>1, <4>2, <3>2, <2>2
    <3> QED BY <3>3, <3>4
  <2>8. StepsTo(h, D, base, s, m + 1)
    <3> HIDE DEF h
    <3> QED BY <2>6, <2>7 DEF StepsTo
  <2> QED BY <2>8
<1>3. Nat \subseteq M
  <2> HIDE DEF M
  <2> QED BY <1>1, <1>2, NatSet
<1> QED BY <1>3

-----------------------------------------------------------------------------
(* A pattern cut at its stars *)

(* What a pattern is made of *)
Letter == Letters \cup {"*"}

(* What the fold's function satisfies *)
PartsIs(f, p) ==
  f = [S \in SUBSET DOMAIN p |-> IF S = {} THEN << <<>> >> ELSE Split(f[S \ {Max(S)}], p[Max(S)])]

(* The parts of a pattern are a fold over its letters *)
LEMMA PartsFold ==
  ASSUME NEW p
  PROVE  Parts(p) = (CHOOSE f : PartsIs(f, p))[DOMAIN p]
BY DEF Parts, PartsIs, FoldLeft, MapThenFoldSet

(* At least one part *)
SomeParts(X) == {s \in Seq(Seq(X)) : s # <<>>}

(* Splitting keeps at least one part *)
LEMMA SplitType ==
  ASSUME NEW X, NEW ps \in SomeParts(X), NEW c \in X
  PROVE  /\ Split(ps, c) \in SomeParts(X)
         /\ Len(ps) \in Nat /\ Len(ps) # 0
         /\ c = "*" => /\ Len(Split(ps, c)) = Len(ps) + 1
                       /\ Split(ps, c)[Len(ps) + 1] = <<>>
                       /\ \A k \in 1..Len(ps) : Split(ps, c)[k] = ps[k]
         /\ c # "*" => /\ Len(Split(ps, c)) = Len(ps)
                       /\ Split(ps, c)[Len(ps)] = Append(ps[Len(ps)], c)
                       /\ \A k \in 1..(Len(ps) - 1) : Split(ps, c)[k] = ps[k]
<1>1. /\ ps \in Seq(Seq(X)) /\ ps # <<>>
      /\ Len(ps) \in Nat /\ Len(ps) # 0 /\ DOMAIN ps = 1..Len(ps) /\ Len(ps) \in 1..Len(ps)
      /\ ps[Len(ps)] \in Seq(X)
  BY DEF SomeParts
<1>2. <<>> \in Seq(X)
  OBVIOUS
<1>3. CASE c = "*"
  <2>1. Split(ps, c) = Append(ps, <<>>)
    BY <1>3 DEF Split
  <2> QED BY <2>1, <1>1, <1>2, <1>3 DEF SomeParts
<1>4. CASE c # "*"
  <2> DEFINE x == Append(ps[Len(ps)], c)
  <2>1. Split(ps, c) = [ps EXCEPT ![Len(ps)] = x]
    BY <1>4 DEF Split
  <2>2. x \in Seq(X)
    BY <1>1
  <2> HIDE DEF x
  <2>3. /\ Split(ps, c) \in Seq(Seq(X)) /\ Len(Split(ps, c)) = Len(ps)
        /\ \A k \in 1..Len(ps) : Split(ps, c)[k] = IF k = Len(ps) THEN x ELSE ps[k]
    BY <2>1, <2>2, <1>1
  <2>4. Split(ps, c) # <<>>
    BY <2>3, <1>1
  <2>5. Split(ps, c)[Len(ps)] = x /\ \A k \in 1..(Len(ps) - 1) : Split(ps, c)[k] = ps[k]
    <3>1. \A k \in 1..(Len(ps) - 1) : k \in 1..Len(ps) /\ k # Len(ps)
      <4>1. Len(ps) \in Nat
        BY <1>1
      <4> QED BY <4>1, SMT
    <3> QED BY <3>1, <2>3, <1>1
  <2>6. Split(ps, c) \in SomeParts(X)
    BY <2>3, <2>4 DEF SomeParts
  <2> QED BY <2>3, <2>5, <2>6, <1>1, <1>4 DEF x
<1> QED BY <1>3, <1>4

(* The parts of the first m letters of p, and where each begins: a part    *)
(* holds no star, and there is one between a part and the next             *)
Cut(ps, b, p, m) ==
  /\ ps \in SomeParts(Letter) /\ b \in [1..Len(ps) -> 0..m]
  /\ b[1] = 0 /\ b[Len(ps)] + Len(ps[Len(ps)]) = m
  /\ \A k \in 1..Len(ps) : \A j \in 1..Len(ps[k]) :
       b[k] + j \in 1..m /\ ps[k][j] = p[b[k] + j] /\ ps[k][j] # "*"
  /\ \A k \in 1..(Len(ps) - 1) :
       b[k + 1] = b[k] + Len(ps[k]) + 1 /\ p[b[k + 1]] = "*" /\ b[k + 1] \in 1..m

(* One more letter *)
LEMMA CutGoesOn ==
  ASSUME NEW p, NEW m \in Nat, p[m + 1] \in Letter, NEW ps, NEW b, Cut(ps, b, p, m)
  PROVE  \E d : Cut(Split(ps, p[m + 1]), d, p, m + 1)
<1> DEFINE c == p[m + 1]
           L == Len(ps)
           qs == Split(ps, c)
<1>0. /\ ps \in SomeParts(Letter) /\ b \in [1..L -> 0..m]
      /\ b[1] = 0 /\ b[L] + Len(ps[L]) = m
      /\ \A k \in 1..L : \A j \in 1..Len(ps[k]) :
           b[k] + j \in 1..m /\ ps[k][j] = p[b[k] + j] /\ ps[k][j] # "*"
      /\ \A k \in 1..(L - 1) :
           b[k + 1] = b[k] + Len(ps[k]) + 1 /\ p[b[k + 1]] = "*" /\ b[k + 1] \in 1..m
  BY DEF Cut
<1>1. /\ L \in Nat /\ L # 0 /\ qs \in SomeParts(Letter)
      /\ c = "*" => /\ Len(qs) = L + 1 /\ qs[L + 1] = <<>>
                    /\ \A k \in 1..L : qs[k] = ps[k]
      /\ c # "*" => /\ Len(qs) = L /\ qs[L] = Append(ps[L], c)
                    /\ \A k \in 1..(L - 1) : qs[k] = ps[k]
  <2>1. c \in Letter
    OBVIOUS
  <2> HIDE DEF c
  <2>2. ps \in SomeParts(Letter)
    BY <1>0
  <2>3. /\ Split(ps, c) \in SomeParts(Letter) /\ Len(ps) \in Nat /\ Len(ps) # 0
        /\ c = "*" => /\ Len(Split(ps, c)) = Len(ps) + 1
                      /\ Split(ps, c)[Len(ps) + 1] = <<>>
                      /\ \A k \in 1..Len(ps) : Split(ps, c)[k] = ps[k]
        /\ c # "*" => /\ Len(Split(ps, c)) = Len(ps)
                      /\ Split(ps, c)[Len(ps)] = Append(ps[Len(ps)], c)
                      /\ \A k \in 1..(Len(ps) - 1) : Split(ps, c)[k] = ps[k]
    BY <2>1, <2>2, SplitType
  <2> QED BY <2>3
<1>2. \A k \in 1..L : ps[k] \in Seq(Letter) /\ Len(ps[k]) \in Nat
  BY <1>0, <1>1 DEF SomeParts
<1> HIDE DEF c, L, qs
<1>3. CASE c = "*"
  <2> DEFINE d == [k \in 1..(L + 1) |-> IF k = L + 1 THEN m + 1 ELSE b[k]]
  <2>1. /\ d \in [1..Len(qs) -> 0..(m + 1)] /\ d[L + 1] = m + 1 /\ Len(qs) = L + 1
        /\ \A k \in 1..L : d[k] = b[k] /\ d[k] \in 0..m
    BY <1>0, <1>1, <1>3
  <2> HIDE DEF d
  <2>2. d[1] = 0 /\ d[Len(qs)] + Len(qs[Len(qs)]) = m + 1
    BY <2>1, <1>0, <1>1, <1>3
  <2>3. ASSUME NEW k \in 1..Len(qs), NEW j \in 1..Len(qs[k])
        PROVE  d[k] + j \in 1..(m + 1) /\ qs[k][j] = p[d[k] + j] /\ qs[k][j] # "*"
    <3>1. k # L + 1
      BY <1>1, <1>3
    <3>2. k \in 1..L /\ qs[k] = ps[k] /\ d[k] = b[k]
      BY <3>1, <2>1, <1>1, <1>3
    <3> QED BY <3>2, <1>0
  <2>4. ASSUME NEW k \in 1..(Len(qs) - 1)
        PROVE  d[k + 1] = d[k] + Len(qs[k]) + 1 /\ p[d[k + 1]] = "*" /\ d[k + 1] \in 1..(m + 1)
    <3>1. k \in 1..L /\ qs[k] = ps[k] /\ d[k] = b[k]
      BY <2>1, <1>1, <1>3
    <3>2. CASE k = L
      BY <3>1, <3>2, <2>1, <1>0, <1>3 DEF c
    <3>3. CASE k # L
      <4>1. k \in 1..(L - 1) /\ k + 1 \in 1..L
        BY <3>1, <3>3, <1>1
      <4> QED BY <4>1, <3>1, <2>1, <1>0
    <3> QED BY <3>2, <3>3
  <2>5. Cut(qs, d, p, m + 1)
    BY <1>1, <2>1, <2>2, <2>3, <2>4 DEF Cut
  <2> QED BY <2>5 DEF qs, c
<1>4. CASE c # "*"
  <2>1. b \in [1..Len(qs) -> 0..(m + 1)] /\ Len(qs) = L
    BY <1>0, <1>1, <1>4
  <2>0. /\ L \in 1..L /\ ps[L] \in Seq(Letter) /\ c \in Letter /\ Len(qs[L]) = Len(ps[L]) + 1
        /\ qs[L][Len(ps[L]) + 1] = c /\ \A j \in 1..Len(ps[L]) : qs[L][j] = ps[L][j]
    <3>1. L \in 1..L /\ ps[L] \in Seq(Letter) /\ c \in Letter
      BY <1>1, <1>2 DEF c
    <3> QED BY <3>1, <1>1, <1>4
  <2>2. b[1] = 0 /\ b[Len(qs)] + Len(qs[Len(qs)]) = m + 1
    <3>1. b[L] \in Nat /\ Len(ps[L]) \in Nat /\ qs[Len(qs)] = qs[L] /\ b[Len(qs)] = b[L]
      BY <2>0, <2>1, <1>0, <1>2
    <3>2. b[L] + Len(qs[L]) = m + 1
      <4>1. PICK u \in Nat, v \in Nat : u = b[L] /\ v = Len(ps[L])
        BY <3>1
      <4>2. u + v = m
        BY <4>1, <1>0
      <4>3. u + (v + 1) = m + 1
        BY <4>2
      <4>4. Len(qs[L]) = v + 1
        BY <4>1, <2>0
      <4> QED BY <4>1, <4>3, <4>4
    <3> QED BY <3>1, <3>2, <1>0
  <2>3. ASSUME NEW k \in 1..Len(qs), NEW j \in 1..Len(qs[k])
        PROVE  b[k] + j \in 1..(m + 1) /\ qs[k][j] = p[b[k] + j] /\ qs[k][j] # "*"
    <3>1. CASE k = L /\ j = Len(ps[L]) + 1
      <4>1. b[k] + j = m + 1
        BY <3>1, <1>0, <1>2, <2>0
      <4> QED BY <4>1, <3>1, <2>0, <1>4 DEF c
    <3>2. CASE ~(k = L /\ j = Len(ps[L]) + 1)
      <4>1. k \in 1..L /\ j \in 1..Len(ps[k]) /\ qs[k][j] = ps[k][j]
        <5>1. CASE k = L
          <6>1. j \in 1..(Len(ps[L]) + 1) /\ j # Len(ps[L]) + 1 /\ Len(ps[L]) \in Nat
            BY <5>1, <3>2, <2>0, <1>2
          <6>2. j \in 1..Len(ps[L])
            BY <6>1
          <6> QED BY <6>2, <5>1, <2>0
        <5>2. CASE k # L
          <6>1. k \in 1..(L - 1) /\ k \in 1..L
            BY <5>2, <2>1, <1>1
          <6>2. qs[k] = ps[k]
            BY <6>1, <1>1, <1>4
          <6> QED BY <6>1, <6>2
        <5> QED BY <5>1, <5>2
      <4> QED BY <4>1, <1>0
    <3> QED BY <3>1, <3>2
  <2>4. ASSUME NEW k \in 1..(Len(qs) - 1)
        PROVE  b[k + 1] = b[k] + Len(qs[k]) + 1 /\ p[b[k + 1]] = "*" /\ b[k + 1] \in 1..(m + 1)
    <3>1. k \in 1..(L - 1) /\ qs[k] = ps[k]
      BY <2>1, <1>1, <1>4
    <3> QED BY <3>1, <1>0
  <2>5. Cut(qs, b, p, m + 1)
    BY <1>1, <2>1, <2>2, <2>3, <2>4 DEF Cut
  <2> QED BY <2>5 DEF qs, c
<1> QED BY <1>3, <1>4

(* split('*') cuts a pattern at its stars *)
LEMMA PartsCut ==
  ASSUME NEW p \in Seq(Letter)
  PROVE  \E b : Cut(Parts(p), b, p, Len(p))
<1> DEFINE X == Letter
           step == [a \in SomeParts(X) \X X |-> Split(a[1], a[2])]
<1>0. Len(p) \in Nat /\ DOMAIN p = 1..Len(p) /\ \A i \in 1..Len(p) : p[i] \in Letter
  OBVIOUS
<1>1. step \in [SomeParts(X) \X X -> SomeParts(X)]
  BY SplitType
<1>2. << <<>> >> \in SomeParts(X)
  BY DEF SomeParts
<1>3. PICK g \in [SUBSET DOMAIN p -> SomeParts(X)] : FoldIs(g, << <<>> >>, p, step)
  <2> HIDE DEF step
  <2> QED BY <1>1, <1>2, FoldExists
<1>4. PartsIs(g, p)
  <2>1. \A S \in SUBSET DOMAIN p :
          g[S] = IF S = {} THEN << <<>> >> ELSE Split(g[S \ {Max(S)}], p[Max(S)])
    <3> SUFFICES ASSUME NEW S \in SUBSET DOMAIN p, S # {}
                 PROVE  g[S] = Split(g[S \ {Max(S)}], p[Max(S)])
      BY <1>3 DEF FoldIs
    <3>1. Max(S) \in S
      BY <1>0, Greatest
    <3>2. g[S \ {Max(S)}] \in SomeParts(X) /\ p[Max(S)] \in X
      BY <3>1, <1>0
    <3>3. g[S] = step[<<g[S \ {Max(S)}], p[Max(S)]>>]
      <4> HIDE DEF step
      <4> QED BY <1>3 DEF FoldIs
    <3> QED BY <3>2, <3>3
  <2>2. g = [S \in SUBSET DOMAIN p |-> g[S]]
    OBVIOUS
  <2> QED BY <2>1, <2>2 DEF PartsIs
<1> DEFINE f == CHOOSE h : PartsIs(h, p)
<1>5. PartsIs(f, p) /\ Parts(p) = f[DOMAIN p]
  BY <1>4, PartsFold
<1> HIDE DEF f
<1>6. \A S \in SUBSET DOMAIN p :
        f[S] = IF S = {} THEN << <<>> >> ELSE Split(f[S \ {Max(S)}], p[Max(S)])
  BY <1>5 DEF PartsIs
<1> DEFINE M == {m \in Nat : m <= Len(p) => \E b : Cut(f[1..m], b, p, m)}
<1>7. 0 \in M
  <2> DEFINE b == [k \in 1..1 |-> 0]
             e == << <<>> >>
  <2>0. 1..0 = {} /\ {} \in SUBSET DOMAIN p
    OBVIOUS
  <2>1. f[{}] = e
    BY <2>0, <1>6
  <2>2. e \in SomeParts(Letter) /\ Len(e) = 1 /\ e[1] = <<>> /\ Len(e[1]) = 0
    BY DEF SomeParts
  <2>3. b \in [1..1 -> 0..0] /\ b[1] = 0
    OBVIOUS
  <2> HIDE DEF e, b
  <2>4. Cut(e, b, p, 0)
    BY <2>2, <2>3 DEF Cut
  <2> QED BY <2>0, <2>1, <2>4
<1>8. ASSUME NEW m \in Nat, m \in M PROVE m + 1 \in M
  <2> SUFFICES ASSUME m + 1 <= Len(p) PROVE \E b : Cut(f[1..(m + 1)], b, p, m + 1)
    OBVIOUS
  <2>1. PICK b : Cut(f[1..m], b, p, m)
    BY <1>8, <1>0
  <2>2. /\ 1..(m + 1) # {} /\ Max(1..(m + 1)) = m + 1
        /\ (1..(m + 1)) \ {m + 1} = 1..m
    BY GreatestOfInterval
  <2>3. 1..(m + 1) \in SUBSET DOMAIN p /\ p[m + 1] \in Letter
    BY <1>0
  <2> DEFINE S == 1..(m + 1)
  <2> HIDE DEF S
  <2>4. f[S] = Split(f[S \ {Max(S)}], p[Max(S)])
    BY <2>2, <2>3, <1>6 DEF S
  <2>5. f[1..(m + 1)] = Split(f[1..m], p[m + 1])
    BY <2>2, <2>4 DEF S
  <2> QED BY <2>1, <2>3, <2>5, CutGoesOn
<1>9. Nat \subseteq M
  <2> HIDE DEF M
  <2> QED BY <1>7, <1>8, NatSet
<1> QED BY <1>9, <1>5, <1>0

-----------------------------------------------------------------------------
(* Where a part of a pattern occurs *)

(* x occurs in n behind the first q letters *)
Occurs(x, n, q) == q \in Nat /\ q + Len(x) <= Len(n) /\ \A j \in 1..Len(x) : n[q + j] = x[j]

(* What is left of a name *)
LEMMA FromFacts ==
  ASSUME NEW n \in Seq(Letters), NEW q \in 0..Len(n)
  PROVE  /\ From(n, q) \in Seq(Letters) /\ Len(From(n, q)) = Len(n) - q
         /\ \A j \in 1..(Len(n) - q) : From(n, q)[j] = n[q + j]
<1>1. Len(n) \in Nat /\ q \in Nat /\ q <= Len(n) /\ \A i \in (q + 1)..Len(n) : n[i] \in Letters
  OBVIOUS
<1>2. /\ SubSeq(n, q + 1, Len(n)) \in Seq(Letters)
      /\ Len(SubSeq(n, q + 1, Len(n))) = IF q + 1 <= Len(n) THEN Len(n) - (q + 1) + 1 ELSE 0
      /\ \A j \in 1..(Len(n) - (q + 1) + 1) : SubSeq(n, q + 1, Len(n))[j] = n[q + 1 + j - 1]
  <2>1. q + 1 \in Int /\ Len(n) \in Int
    BY <1>1
  <2> QED BY <2>1, <1>1, SubSeqProperties
<1>3. Len(SubSeq(n, q + 1, Len(n))) = Len(n) - q
  BY <1>1, <1>2
<1>4. \A j \in 1..(Len(n) - q) : SubSeq(n, q + 1, Len(n))[j] = n[q + j]
  <2> TAKE j \in 1..(Len(n) - q)
  <2>1. j \in 1..(Len(n) - (q + 1) + 1) /\ q + 1 + j - 1 = q + j
    BY <1>1
  <2> QED BY <2>1, <1>2
<1> QED BY <1>2, <1>3, <1>4 DEF From

(* A prefix, letter by letter *)
LEMMA PrefixLetters ==
  ASSUME NEW A, NEW x \in Seq(A), NEW B, NEW y \in Seq(B)
  PROVE  IsPrefix(x, y) <=> Len(x) <= Len(y) /\ \A j \in 1..Len(x) : x[j] = y[j]
<1>0. Len(x) \in Nat /\ Len(y) \in Nat
  OBVIOUS
<1>1. CASE ~(Len(x) <= Len(y))
  BY <1>1 DEF IsPrefix
<1>2. CASE Len(x) <= Len(y)
  <2>1. /\ SubSeq(x, 1, Len(x)) \in Seq(A) /\ Len(SubSeq(x, 1, Len(x))) = Len(x)
        /\ \A j \in 1..Len(x) : SubSeq(x, 1, Len(x))[j] = x[j]
    BY <1>0
  <2>2. /\ SubSeq(y, 1, Len(x)) \in Seq(B) /\ Len(SubSeq(y, 1, Len(x))) = Len(x)
        /\ \A j \in 1..Len(x) : SubSeq(y, 1, Len(x))[j] = y[j]
    BY <1>0, <1>2
  <2> DEFINE u == SubSeq(x, 1, Len(x))
             v == SubSeq(y, 1, Len(x))
  <2> HIDE DEF u, v
  <2>3. u = v <=> \A j \in 1..Len(x) : u[j] = v[j]
    <3>1. u \in Seq(A) /\ v \in Seq(B) /\ Len(u) = Len(x) /\ Len(v) = Len(x)
      BY <2>1, <2>2 DEF u, v
    <3>2. u = [j \in 1..Len(x) |-> u[j]] /\ v = [j \in 1..Len(x) |-> v[j]]
      BY <3>1
    <3> QED BY <3>2
  <2> QED BY <2>1, <2>2, <2>3, <1>2 DEF IsPrefix, u, v
<1> QED BY <1>1, <1>2

(* The search for a part asks where it occurs *)
LEMMA PrefixOccurs ==
  ASSUME NEW x \in Seq(Letter), NEW n \in Seq(Letters), NEW q \in 0..Len(n)
  PROVE  IsPrefix(x, From(n, q)) <=> Occurs(x, n, q)
<1>1. /\ From(n, q) \in Seq(Letters) /\ Len(From(n, q)) = Len(n) - q
      /\ \A j \in 1..(Len(n) - q) : From(n, q)[j] = n[q + j]
  BY FromFacts
<1>0. Len(x) \in Nat /\ Len(n) \in Nat /\ q \in Nat /\ q <= Len(n)
  OBVIOUS
<1>2. IsPrefix(x, From(n, q)) <=>
        Len(x) <= Len(n) - q /\ \A j \in 1..Len(x) : x[j] = From(n, q)[j]
  BY <1>1, PrefixLetters
<1>3. CASE Len(x) <= Len(n) - q
  <2>1. \A j \in 1..Len(x) : From(n, q)[j] = n[q + j]
    BY <1>1, <1>3, <1>0
  <2> QED BY <2>1, <1>2, <1>0, <1>3 DEF Occurs
<1>4. CASE ~(Len(x) <= Len(n) - q)
  BY <1>2, <1>0, <1>4 DEF Occurs
<1> QED BY <1>3, <1>4

(* A list read backwards *)
LEMMA Reversed ==
  ASSUME NEW A, NEW s \in Seq(A)
  PROVE  /\ Reverse(s) \in Seq(A) /\ Len(Reverse(s)) = Len(s)
         /\ \A j \in 1..Len(s) : Reverse(s)[j] = s[Len(s) - j + 1]
<1>1. Len(s) \in Nat
  OBVIOUS
<1>2. \A j \in 1..Len(s) : Len(s) - j + 1 \in 1..Len(s) /\ s[Len(s) - j + 1] \in A
  BY <1>1
<1> QED BY <1>1, <1>2 DEF Reverse

(* The end of a name, letter by letter *)
LEMMA SuffixOccurs ==
  ASSUME NEW x \in Seq(Letter), NEW n \in Seq(Letters), NEW q \in 0..Len(n)
  PROVE  IsSuffix(x, From(n, q)) <=> Len(x) + q <= Len(n) /\ Occurs(x, n, Len(n) - Len(x))
<1> DEFINE y == From(n, q)
<1>1. /\ y \in Seq(Letters) /\ Len(y) = Len(n) - q
      /\ \A j \in 1..(Len(n) - q) : y[j] = n[q + j]
  BY FromFacts
<1> HIDE DEF y
<1>0. Len(x) \in Nat /\ Len(n) \in Nat /\ q \in Nat /\ q <= Len(n)
  OBVIOUS
<1>2. /\ Reverse(x) \in Seq(Letter) /\ Len(Reverse(x)) = Len(x)
      /\ \A j \in 1..Len(x) : Reverse(x)[j] = x[Len(x) - j + 1]
      /\ Reverse(y) \in Seq(Letters) /\ Len(Reverse(y)) = Len(y)
      /\ \A j \in 1..Len(y) : Reverse(y)[j] = y[Len(y) - j + 1]
  BY <1>1, Reversed
<1>3. IsSuffix(x, y) <=> Len(x) <= Len(y) /\ \A j \in 1..Len(x) : Reverse(x)[j] = Reverse(y)[j]
  BY <1>2, PrefixLetters DEF IsSuffix
<1>4. CASE ~(Len(x) <= Len(n) - q)
  BY <1>0, <1>1, <1>3, <1>4 DEF y
<1>5. CASE Len(x) <= Len(n) - q
  <2>0. Len(n) - Len(x) \in Nat /\ Len(x) <= Len(y) /\ Len(x) + q <= Len(n)
    BY <1>0, <1>1, <1>5
  <2>1. \A j \in 1..Len(x) : Reverse(y)[j] = n[Len(n) - j + 1]
    <3> TAKE j \in 1..Len(x)
    <3>1. j \in 1..Len(y) /\ Len(y) - j + 1 \in 1..(Len(n) - q)
          /\ q + (Len(y) - j + 1) = Len(n) - j + 1
      BY <1>0, <1>1, <1>5
    <3> QED BY <3>1, <1>1, <1>2
  <2>2. IsSuffix(x, y) <=> \A j \in 1..Len(x) : x[Len(x) - j + 1] = n[Len(n) - j + 1]
    BY <2>0, <2>1, <1>2, <1>3
  <2>3. (\A j \in 1..Len(x) : x[Len(x) - j + 1] = n[Len(n) - j + 1])
        <=> \A j \in 1..Len(x) : n[Len(n) - Len(x) + j] = x[j]
    <3>1. ASSUME \A j \in 1..Len(x) : x[Len(x) - j + 1] = n[Len(n) - j + 1], NEW j \in 1..Len(x)
          PROVE  n[Len(n) - Len(x) + j] = x[j]
      <4> DEFINE k == Len(x) - j + 1
      <4>1. k \in 1..Len(x) /\ Len(x) - k + 1 = j /\ Len(n) - k + 1 = Len(n) - Len(x) + j
        BY <1>0
      <4> QED BY <4>1, <3>1
    <3>2. ASSUME \A j \in 1..Len(x) : n[Len(n) - Len(x) + j] = x[j], NEW j \in 1..Len(x)
          PROVE  x[Len(x) - j + 1] = n[Len(n) - j + 1]
      <4> DEFINE k == Len(x) - j + 1
      <4>1. k \in 1..Len(x) /\ Len(n) - Len(x) + k = Len(n) - j + 1
        BY <1>0
      <4> QED BY <4>1, <3>2
    <3> QED BY <3>1, <3>2
  <2>4. Len(n) - Len(x) + Len(x) <= Len(n)
    BY <1>0
  <2> QED BY <2>0, <2>2, <2>3, <2>4 DEF Occurs, y
<1> QED BY <1>4, <1>5

-----------------------------------------------------------------------------
(* How one letter of a pattern may be placed behind the one before *)
Stands(f, p, n, i) ==
  IF p[i] = "*" THEN f[i - 1] <= f[i] ELSE f[i] = f[i - 1] + 1 /\ n[f[i]] = p[i]

(* The first m letters of a pattern placed one by one on the start of a *)
(* name                                                                 *)
Placed(f, p, n, m) ==
  f \in [0..m -> 0..Len(n)] /\ f[0] = 0 /\ \A i \in 1..m : Stands(f, p, n, i)

(* What a pattern means, as a placement of all its letters *)
LEMMA DescribesIs ==
  ASSUME NEW p, NEW n
  PROVE  Describes(p, n) <=> \E f : Placed(f, p, n, Len(p)) /\ f[Len(p)] = Len(n)
BY DEF Describes, Placed, Stands

(* One more letter of the pattern *)
LEMMA Extended ==
  ASSUME NEW p, NEW n \in Seq(Letters), NEW m \in Nat, NEW f, Placed(f, p, n, m),
         NEW q \in 0..Len(n),
         \/ p[m + 1] = "*" /\ f[m] <= q
         \/ p[m + 1] # "*" /\ q = f[m] + 1 /\ n[q] = p[m + 1]
  PROVE  \E h : Placed(h, p, n, m + 1) /\ h[m + 1] = q
<1> DEFINE h == [i \in 0..(m + 1) |-> IF i = m + 1 THEN q ELSE f[i]]
<1>0. f \in [0..m -> 0..Len(n)] /\ f[0] = 0 /\ \A i \in 1..m : Stands(f, p, n, i)
  BY DEF Placed
<1>1. \A i \in 0..(m + 1) : i # m + 1 => i \in 0..m
  OBVIOUS
<1>2. h \in [0..(m + 1) -> 0..Len(n)] /\ h[m + 1] = q /\ \A i \in 0..m : h[i] = f[i]
  BY <1>0, <1>1
<1> HIDE DEF h
<1>3. h[0] = 0
  BY <1>0, <1>2
<1>4. ASSUME NEW i \in 1..(m + 1) PROVE Stands(h, p, n, i)
  <2>1. CASE i = m + 1
    <3>1. h[i] = q /\ h[i - 1] = f[m] /\ p[i] = p[m + 1]
      BY <2>1, <1>2
    <3> QED BY <3>1 DEF Stands
  <2>2. CASE i # m + 1
    <3>1. i \in 1..m /\ i \in 0..m /\ i - 1 \in 0..m
      BY <2>2
    <3>2. h[i] = f[i] /\ h[i - 1] = f[i - 1]
      BY <3>1, <1>2
    <3>3. Stands(f, p, n, i)
      BY <3>1, <1>0
    <3> QED BY <3>2, <3>3 DEF Stands
  <2> QED BY <2>1, <2>2
<1> QED BY <1>2, <1>3, <1>4 DEF Placed

(* Letters of a pattern from m on, with no star *)
Run(x, p, m) == x \in Seq(Letter) /\ \A j \in 1..Len(x) : x[j] = p[m + j] /\ x[j] # "*"

(* A part that occurs in the name *)
LEMMA ExtendedRun ==
  ASSUME NEW p, NEW n \in Seq(Letters), NEW m \in Nat, NEW f, Placed(f, p, n, m),
         NEW x, Run(x, p, m), Occurs(x, n, f[m])
  PROVE  \E h : Placed(h, p, n, m + Len(x)) /\ h[m + Len(x)] = f[m] + Len(x)
<1> DEFINE M == {j \in Nat : j <= Len(x) => \E h : Placed(h, p, n, m + j) /\ h[m + j] = f[m] + j}
<1>0. /\ Len(x) \in Nat /\ Len(n) \in Nat /\ f[m] \in Nat
      /\ \A j \in 1..Len(x) : x[j] = p[m + j] /\ x[j] # "*" /\ n[f[m] + j] = x[j]
      /\ f[m] + Len(x) <= Len(n)
  BY DEF Run, Occurs
<1>1. 0 \in M
  <2>1. m + 0 = m /\ f[m] + 0 = f[m]
    BY <1>0
  <2> QED BY <2>1
<1>2. ASSUME NEW j \in Nat, j \in M PROVE j + 1 \in M
  <2> SUFFICES ASSUME j + 1 <= Len(x)
               PROVE  \E h : Placed(h, p, n, m + (j + 1)) /\ h[m + (j + 1)] = f[m] + (j + 1)
    OBVIOUS
  <2>1. PICK g : Placed(g, p, n, m + j) /\ g[m + j] = f[m] + j
    BY <1>2, <1>0
  <2> DEFINE q == f[m] + (j + 1)
             k == m + j
  <2>2. q \in 0..Len(n) /\ q = g[k] + 1 /\ k \in Nat /\ m + (j + 1) = k + 1
    <3>1. f[m] \in Nat /\ j + 1 <= Len(x) /\ f[m] + Len(x) <= Len(n) /\ Len(x) \in Nat /\ Len(n) \in Nat
      BY <1>0
    <3>2. f[m] + (j + 1) \in 0..Len(n)
      BY <3>1
    <3>3. f[m] + (j + 1) = (f[m] + j) + 1
      BY <3>1
    <3> QED BY <3>2, <3>3, <2>1
  <2>3. j + 1 \in 1..Len(x)
    BY <1>0
  <2>4. p[k + 1] # "*" /\ n[q] = p[k + 1]
    BY <1>0, <2>2, <2>3
  <2>5. Placed(g, p, n, k)
    BY <2>1
  <2> HIDE DEF q, k
  <2>6. \E h : Placed(h, p, n, k + 1) /\ h[k + 1] = q
    BY <2>2, <2>4, <2>5, Extended
  <2> QED BY <2>6, <2>2 DEF q
<1>3. Nat \subseteq M
  <2> HIDE DEF M
  <2> QED BY <1>1, <1>2, NatSet
<1> QED BY <1>3, <1>0

(* and the other way: where a placement puts a part, it occurs *)
LEMMA RunOccurs ==
  ASSUME NEW p, NEW n \in Seq(Letters), NEW m \in Nat, NEW l \in Nat, NEW f, Placed(f, p, n, l),
         NEW x, Run(x, p, m), m + Len(x) <= l
  PROVE  f[m + Len(x)] = f[m] + Len(x) /\ Occurs(x, n, f[m])
<1> DEFINE M == {j \in Nat : j <= Len(x) => f[m + j] = f[m] + j}
<1>0. /\ Len(x) \in Nat /\ Len(n) \in Nat
      /\ f \in [0..l -> 0..Len(n)] /\ \A i \in 1..l : Stands(f, p, n, i)
      /\ \A j \in 1..Len(x) : x[j] = p[m + j] /\ x[j] # "*"
  BY DEF Run, Placed
<1>6. f[m] \in Nat
  BY <1>0
<1>5. ASSUME NEW j \in Nat, j + 1 <= Len(x)
      PROVE  f[m + (j + 1)] = f[m + j] + 1 /\ n[f[m + (j + 1)]] = x[j + 1]
  <2>1. j + 1 \in 1..Len(x) /\ m + (j + 1) \in 1..l /\ m + (j + 1) - 1 = m + j
    BY <1>0, <1>5
  <2>2. Stands(f, p, n, m + (j + 1)) /\ p[m + (j + 1)] # "*" /\ p[m + (j + 1)] = x[j + 1]
    BY <2>1, <1>0
  <2> QED BY <2>1, <2>2 DEF Stands
<1>1. 0 \in M
  <2>1. m + 0 = m /\ f[m] + 0 = f[m]
    BY <1>6
  <2> QED BY <2>1
<1>2. ASSUME NEW j \in Nat, j \in M PROVE j + 1 \in M
  <2> SUFFICES ASSUME j + 1 <= Len(x) PROVE f[m + (j + 1)] = f[m] + (j + 1)
    OBVIOUS
  <2>1. f[m + j] = f[m] + j
    BY <1>2, <1>0
  <2>2. f[m + (j + 1)] = f[m + j] + 1
    BY <1>5
  <2>3. PICK u \in Nat : u = f[m]
    BY <1>6
  <2>4. (u + j) + 1 = u + (j + 1)
    OBVIOUS
  <2> QED BY <2>1, <2>2, <2>3, <2>4
<1>3. Nat \subseteq M
  <2> HIDE DEF M
  <2> QED BY <1>1, <1>2, NatSet
<1>7. f[m + Len(x)] = f[m] + Len(x)
  <2>1. Len(x) \in M /\ Len(x) <= Len(x)
    <3> HIDE DEF M
    <3> QED BY <1>3, <1>0
  <2> QED BY <2>1
<1>8. f[m] + Len(x) <= Len(n)
  <2>1. m + Len(x) \in 0..l
    BY <1>0
  <2> QED BY <2>1, <1>0, <1>7
<1>9. ASSUME NEW j \in 1..Len(x) PROVE n[f[m] + j] = x[j]
  <2>1. j - 1 \in Nat /\ (j - 1) + 1 = j /\ (j - 1) + 1 <= Len(x) /\ j \in M
    BY <1>0, <1>3
  <2>2. n[f[m + ((j - 1) + 1)]] = x[(j - 1) + 1]
    BY <2>1, <1>5
  <2> QED BY <2>1, <2>2
<1> QED BY <1>6, <1>7, <1>8, <1>9 DEF Occurs

-----------------------------------------------------------------------------
(* One part *)

(* The places of a part *)
LEMMA PlacesAre ==
  ASSUME NEW x \in Seq(Letter), NEW n \in Seq(Letters), NEW pos \in 0..Len(n), NEW q
  PROVE  q \in Places(x, n, pos) <=> q \in pos..Len(n) /\ Occurs(x, n, q)
<1>1. \A r \in pos..Len(n) : r \in 0..Len(n)
  OBVIOUS
<1> QED BY <1>1, PrefixOccurs DEF Places

(* A part that occurs has a first place *)
LEMMA FirstPlace ==
  ASSUME NEW x \in Seq(Letter), NEW n \in Seq(Letters), NEW pos \in 0..Len(n),
         NEW q, q \in Nat, pos <= q, Occurs(x, n, q)
  PROVE  \E r \in Places(x, n, pos) : \A s \in Places(x, n, pos) : r <= s
<1>1. Len(x) \in Nat /\ Len(n) \in Nat /\ pos \in Nat
  OBVIOUS
<1>2. q \in pos..Len(n)
  BY <1>1 DEF Occurs
<1>3. Places(x, n, pos) # {} /\ Places(x, n, pos) \subseteq Nat
  BY <1>1, <1>2, PlacesAre
<1> QED BY <1>3, Least

(* The first part is at the start *)
LEMMA MatchFirst ==
  ASSUME NEW P \in SomeParts(Letter), NEW n \in Seq(Letters)
  PROVE  /\ Occurs(P[1], n, 0) => MatchPart(P, 1, n, 0) = {Len(P[1])}
         /\ ~Occurs(P[1], n, 0) => MatchPart(P, 1, n, 0) = {}
<1>1. P[1] \in Seq(Letter) /\ Len(P[1]) \in Nat /\ Len(n) \in Nat
  BY DEF SomeParts
<1>2. CASE P[1] = <<>>
  <2>1. Len(P[1]) = 0 /\ MatchPart(P, 1, n, 0) = {0}
    BY <1>2 DEF MatchPart
  <2> QED BY <2>1, <1>1 DEF Occurs
<1>3. CASE P[1] # <<>>
  <2>1. MatchPart(P, 1, n, 0) = IF IsPrefix(P[1], n) THEN {Len(P[1])} ELSE {}
    BY <1>3 DEF MatchPart
  <2>2. IsPrefix(P[1], n) <=> Len(P[1]) <= Len(n) /\ \A j \in 1..Len(P[1]) : P[1][j] = n[j]
    BY <1>1, PrefixLetters
  <2>3. IsPrefix(P[1], n) <=> Occurs(P[1], n, 0)
    <3>1. \A j \in 1..Len(P[1]) : 0 + j = j
      BY <1>1
    <3>2. 0 + Len(P[1]) = Len(P[1]) /\ 0 \in Nat
      BY <1>1
    <3> QED BY <2>2, <3>1, <3>2 DEF Occurs
  <2> QED BY <2>1, <2>3
<1> QED BY <1>2, <1>3

(* The first place of a part *)
FirstAt(x, n, pos, q) ==
  /\ q \in Nat /\ pos <= q /\ Occurs(x, n, q)
  /\ \A r \in Nat : pos <= r /\ Occurs(x, n, r) => q <= r

(* A part between two stars is matched at its first place, and not at all *)
(* if it has none                                                         *)
LEMMA MatchMiddle ==
  ASSUME NEW P \in SomeParts(Letter), NEW n \in Seq(Letters), NEW pos \in 0..Len(n),
         NEW i \in 2..(Len(P) - 1)
  PROVE  \/ MatchPart(P, i, n, pos) = {} /\ \A q \in Nat : pos <= q => ~Occurs(P[i], n, q)
         \/ \E q : FirstAt(P[i], n, pos, q) /\ MatchPart(P, i, n, pos) = {q + Len(P[i])}
<1> DEFINE x == P[i]
<1>1. x \in Seq(Letter) /\ Len(x) \in Nat /\ Len(n) \in Nat /\ i # 1 /\ i # Len(P) /\ pos \in Nat /\ pos <= Len(n)
  BY DEF SomeParts
<1>2. CASE x = <<>>
  <2>1. Len(x) = 0 /\ MatchPart(P, i, n, pos) = {pos}
    BY <1>2 DEF MatchPart
  <2>2. FirstAt(x, n, pos, pos) /\ pos + Len(x) = pos
    BY <2>1, <1>1 DEF FirstAt, Occurs
  <2> QED BY <2>1, <2>2
<1>3. CASE x # <<>>
  <2> DEFINE Q == Places(x, n, pos)
             F == {q \in Q : \A r \in Q : q <= r}
  <2>1. MatchPart(P, i, n, pos) = {q + Len(x) : q \in F}
    BY <1>1, <1>3 DEF MatchPart
  <2>2. \A q : q \in Q <=> q \in Nat /\ pos <= q /\ Occurs(x, n, q)
    <3>1. \A q : q \in Q <=> q \in pos..Len(n) /\ Occurs(x, n, q)
      BY <1>1, PlacesAre
    <3>2. \A q \in Nat : Occurs(x, n, q) => q <= Len(n)
      BY <1>1 DEF Occurs
    <3> QED BY <3>1, <3>2, <1>1
  <2> HIDE DEF Q
  <2>3. CASE Q = {}
    <3>1. MatchPart(P, i, n, pos) = {}
      BY <2>1, <2>3
    <3> QED BY <3>1, <2>2, <2>3
  <2>4. CASE Q # {}
    <3>1. PICK q \in Q : \A s \in Q : q <= s
      <4>1. Q \subseteq Nat
        BY <2>2
      <4> QED BY <4>1, <2>4, Least
    <3>2. F = {q}
      <4>1. \A r \in F : r = q
        <5> TAKE r \in F
        <5>1. r \in Q /\ r <= q /\ q <= r /\ r \in Nat /\ q \in Nat
          BY <3>1, <2>2
        <5> QED BY <5>1
      <4> QED BY <4>1, <3>1
    <3>3. FirstAt(x, n, pos, q)
      BY <3>1, <2>2 DEF FirstAt
    <3> HIDE DEF F
    <3>4. MatchPart(P, i, n, pos) = {q + Len(x)}
      BY <2>1, <3>2
    <3> QED BY <3>3, <3>4
  <2> QED BY <2>3, <2>4
<1> QED BY <1>2, <1>3

(* The last part is at the end *)
LEMMA MatchLast ==
  ASSUME NEW P \in SomeParts(Letter), NEW n \in Seq(Letters), NEW pos \in 0..Len(n), Len(P) # 1
  PROVE  /\ MatchPart(P, Len(P), n, pos) # {} <=>
              Len(P[Len(P)]) + pos <= Len(n) /\ Occurs(P[Len(P)], n, Len(n) - Len(P[Len(P)]))
         /\ MatchPart(P, Len(P), n, pos) \subseteq 0..Len(n)
<1> DEFINE x == P[Len(P)]
<1>1. x \in Seq(Letter) /\ Len(x) \in Nat /\ Len(n) \in Nat /\ pos \in Nat /\ pos <= Len(n)
  <2>1. Len(P) \in Nat /\ Len(P) # 0 /\ P \in Seq(Seq(Letter))
    BY DEF SomeParts
  <2>2. Len(P) \in 1..Len(P)
    BY <2>1
  <2> QED BY <2>1, <2>2
<1>2. CASE x = <<>>
  <2>1. Len(x) = 0 /\ MatchPart(P, Len(P), n, pos) = {pos}
    BY <1>2 DEF MatchPart
  <2>2. Len(x) + pos <= Len(n) /\ Occurs(x, n, Len(n) - Len(x))
    BY <2>1, <1>1 DEF Occurs
  <2> QED BY <2>1, <2>2
<1>3. CASE x # <<>>
  <2>1. MatchPart(P, Len(P), n, pos) = IF IsSuffix(x, From(n, pos)) THEN {Len(n)} ELSE {}
    BY <1>3 DEF MatchPart
  <2>2. IsSuffix(x, From(n, pos)) <=> Len(x) + pos <= Len(n) /\ Occurs(x, n, Len(n) - Len(x))
    BY <1>1, SuffixOccurs
  <2> QED BY <2>1, <2>2, <1>1
<1> QED BY <1>2, <1>3

-----------------------------------------------------------------------------
(* What glob_match's positions satisfy *)
AtIs(f, P, n) ==
  f = [i \in 0..Len(P) |-> IF i = 0 THEN {0} ELSE UNION {MatchPart(P, i, n, pos) : pos \in f[i - 1]}]

(* What glob_match asks of the positions it goes through *)
LEMMA GlobIs ==
  ASSUME NEW p, NEW n
  PROVE  glob_match(p, n) <=>
           IF Len(Parts(p)) = 1 THEN p = n
           ELSE (CHOOSE f : AtIs(f, Parts(p), n))[Len(Parts(p))] # {}
BY DEF glob_match, AtIs

(* No part is matched beyond the name *)
LEMMA MatchType ==
  ASSUME NEW P \in SomeParts(Letter), NEW n \in Seq(Letters), NEW i \in 1..Len(P),
         NEW pos \in 0..Len(n), i = 1 => pos = 0, Len(P) # 1
  PROVE  MatchPart(P, i, n, pos) \subseteq 0..Len(n)
<1>0. Len(P) \in Nat /\ Len(n) \in Nat /\ P[1] \in Seq(Letter) /\ P[i] \in Seq(Letter)
  BY DEF SomeParts
<1>1. CASE i = 1
  <2>1. Len(P[1]) \in Nat /\ (Occurs(P[1], n, 0) => Len(P[1]) \in 0..Len(n))
    BY <1>0 DEF Occurs
  <2> QED BY <2>1, <1>1, MatchFirst
<1>2. CASE i = Len(P)
  BY <1>2, MatchLast
<1>3. CASE i # 1 /\ i # Len(P)
  <2>1. i \in 2..(Len(P) - 1)
    BY <1>3, <1>0
  <2>2. CASE MatchPart(P, i, n, pos) = {}
    BY <2>2
  <2>3. ASSUME NEW q, FirstAt(P[i], n, pos, q), MatchPart(P, i, n, pos) = {q + Len(P[i])}
        PROVE  MatchPart(P, i, n, pos) \subseteq 0..Len(n)
    <3>1. q + Len(P[i]) \in 0..Len(n)
      BY <2>3, <1>0 DEF FirstAt, Occurs
    <3> QED BY <2>3, <3>1
  <2> QED BY <2>1, <2>2, <2>3, MatchMiddle
<1> QED BY <1>1, <1>2, <1>3

(* The positions glob_match goes through exist *)
LEMMA AtExists ==
  ASSUME NEW P \in SomeParts(Letter), NEW n \in Seq(Letters), Len(P) # 1
  PROVE  \E f : AtIs(f, P, n)
<1> DEFINE Step(i, S) == IF i = 1 THEN MatchPart(P, 1, n, 0) ELSE UNION {MatchPart(P, i, n, pos) : pos \in S}
           D == SUBSET (0..Len(n))
           s == [a \in (1..Len(P)) \X D |-> Step(a[1], a[2])]
<1>0. Len(P) \in Nat /\ Len(n) \in Nat /\ Len(P) # 0
  BY DEF SomeParts
<1>1. ASSUME NEW i \in 1..Len(P), NEW S \in D PROVE Step(i, S) \in D
  <2>1. CASE i = 1
    <3>1. 0 \in 0..Len(n)
      BY <1>0
    <3>2. MatchPart(P, 1, n, 0) \subseteq 0..Len(n)
      BY <2>1, <3>1, MatchType
    <3> QED BY <3>2, <2>1
  <2>2. CASE i # 1
    <3>1. \A pos \in S : MatchPart(P, i, n, pos) \subseteq 0..Len(n)
      BY <2>2, MatchType
    <3> QED BY <3>1, <2>2
  <2> QED BY <2>1, <2>2
<1>2. s \in [(1..Len(P)) \X D -> D]
  <2> HIDE DEF Step, D
  <2> QED BY <1>1
<1>3. {0} \in D
  BY <1>0
<1>4. PICK f : StepsTo(f, D, {0}, s, Len(P))
  <2> HIDE DEF s, D
  <2> QED BY <1>0, <1>2, <1>3, StepsExist
<1>5. f \in [0..Len(P) -> D] /\ f[0] = {0} /\ \A k \in 1..Len(P) : f[k] = s[<<k, f[k - 1]>>]
  BY <1>4 DEF StepsTo
<1>6. ASSUME NEW k \in 1..Len(P) PROVE f[k] = UNION {MatchPart(P, k, n, pos) : pos \in f[k - 1]}
  <2>1. k - 1 \in 0..Len(P) /\ f[k - 1] \in D
    BY <1>5, <1>0
  <2>2. f[k] = Step(k, f[k - 1])
    <3> HIDE DEF Step, D
    <3> QED BY <1>5, <2>1
  <2>3. CASE k = 1
    <3>1. f[k - 1] = {0}
      BY <1>5, <2>3
    <3>2. UNION {MatchPart(P, k, n, pos) : pos \in {0}} = MatchPart(P, 1, n, 0)
      BY <2>3
    <3> QED BY <3>1, <3>2, <2>2, <2>3
  <2>4. CASE k # 1
    BY <2>2, <2>4
  <2> QED BY <2>3, <2>4
<1>7. f = [i \in 0..Len(P) |-> f[i]]
  BY <1>5
<1>8. \A i \in 0..Len(P) : f[i] = IF i = 0 THEN {0} ELSE UNION {MatchPart(P, i, n, pos) : pos \in f[i - 1]}
  <2> TAKE i \in 0..Len(P)
  <2>1. CASE i = 0
    BY <2>1, <1>5
  <2>2. CASE i # 0
    <3>1. i \in 1..Len(P)
      BY <2>2, <1>0
    <3> QED BY <3>1, <2>2, <1>6
  <2> QED BY <2>1, <2>2
<1>9. f = [i \in 0..Len(P) |-> IF i = 0 THEN {0} ELSE UNION {MatchPart(P, i, n, pos) : pos \in f[i - 1]}]
  BY <1>7, <1>8
<1> QED BY <1>9 DEF AtIs

-----------------------------------------------------------------------------
(* The greedy search, part by part *)

(* A placement of all of it *)
Describing(g, p, n) == Placed(g, p, n, Len(p)) /\ g[Len(p)] = Len(n)

(* e is the earliest that the first m letters can end, and no description *)
(* of the name has them end before it                                     *)
Earliest(p, n, m, e) ==
  /\ e \in 0..Len(n)
  /\ \E g : Placed(g, p, n, m) /\ g[m] = e
  /\ \A g : Describing(g, p, n) => e <= g[m]

(* What the positions say behind the first m letters: none, and the *)
(* pattern cannot describe the name; or the earliest                *)
Greedy(S, p, n, m) ==
  \/ S = {} /\ ~Describes(p, n)
  \/ \E e : S = {e} /\ Earliest(p, n, m, e)

(* From the positions of one part to those of the next *)
Onto(P, i, n, S) == UNION {MatchPart(P, i, n, pos) : pos \in S}

(* One letter stands for nothing before the first *)
LEMMA PlacedNone ==
  ASSUME NEW p, NEW n \in Seq(Letters)
  PROVE  \E g : Placed(g, p, n, 0) /\ g[0] = 0
<1> DEFINE g == [i \in 0..0 |-> 0]
<1>1. g \in [0..0 -> 0..Len(n)] /\ g[0] = 0 /\ \A i \in 1..0 : FALSE
  OBVIOUS
<1>2. Placed(g, p, n, 0)
  <2> HIDE DEF g
  <2> QED BY <1>1 DEF Placed
<1> QED BY <1>1, <1>2

(* Where parts end: the end of part k, and the letters up to it *)
CutFacts(P, b, p, k) ==
  /\ P[k] \in Seq(Letter) /\ Len(P[k]) \in Nat /\ b[k] \in Nat
  /\ b[k] + Len(P[k]) \in Nat /\ b[k] + Len(P[k]) <= Len(p)
  /\ Run(P[k], p, b[k])

(* What a cut of all of a pattern says of each part *)
LEMMA CutIs ==
  ASSUME NEW p \in Seq(Letter), NEW P, NEW b, Cut(P, b, p, Len(p))
  PROVE  /\ P \in SomeParts(Letter) /\ Len(P) \in Nat /\ Len(P) # 0
         /\ \A k \in 1..Len(P) : CutFacts(P, b, p, k)
         /\ b[1] = 0 /\ b[Len(P)] + Len(P[Len(P)]) = Len(p)
         /\ \A k \in 1..(Len(P) - 1) : b[k + 1] = b[k] + Len(P[k]) + 1 /\ p[b[k + 1]] = "*"
<1>1. /\ P \in SomeParts(Letter) /\ b \in [1..Len(P) -> 0..Len(p)]
      /\ b[1] = 0 /\ b[Len(P)] + Len(P[Len(P)]) = Len(p)
      /\ \A k \in 1..Len(P) : \A j \in 1..Len(P[k]) :
           b[k] + j \in 1..Len(p) /\ P[k][j] = p[b[k] + j] /\ P[k][j] # "*"
      /\ \A k \in 1..(Len(P) - 1) :
           b[k + 1] = b[k] + Len(P[k]) + 1 /\ p[b[k + 1]] = "*" /\ b[k + 1] \in 1..Len(p)
  BY DEF Cut
<1>2. Len(P) \in Nat /\ Len(P) # 0 /\ P \in Seq(Seq(Letter)) /\ Len(p) \in Nat
  BY <1>1 DEF SomeParts
<1>3. ASSUME NEW k \in 1..Len(P) PROVE CutFacts(P, b, p, k)
  <2>1. P[k] \in Seq(Letter) /\ Len(P[k]) \in Nat /\ b[k] \in Nat /\ b[k] <= Len(p)
    BY <1>1, <1>2
  <2>2. Run(P[k], p, b[k])
    BY <1>1, <2>1 DEF Run
  <2>3. b[k] + Len(P[k]) <= Len(p)
    <3>1. CASE Len(P[k]) = 0
      BY <3>1, <2>1, <1>2
    <3>2. CASE Len(P[k]) # 0
      <4>1. Len(P[k]) \in 1..Len(P[k])
        BY <3>2, <2>1
      <4>2. b[k] + Len(P[k]) \in 1..Len(p)
        BY <4>1, <1>1
      <4> QED BY <4>2
    <3> QED BY <3>1, <3>2
  <2> QED BY <2>1, <2>2, <2>3 DEF CutFacts
<1> QED BY <1>1, <1>2, <1>3

(* After the first part *)
LEMMA GreedyFirst ==
  ASSUME NEW p \in Seq(Letter), NEW n \in Seq(Letters), NEW P, NEW b, Cut(P, b, p, Len(p))
  PROVE  Greedy(MatchPart(P, 1, n, 0), p, n, b[1] + Len(P[1]))
<1> DEFINE x == P[1]
           m == b[1] + Len(x)
<1>1. /\ P \in SomeParts(Letter) /\ x \in Seq(Letter) /\ Len(x) \in Nat /\ b[1] = 0 /\ m = Len(x)
      /\ Run(x, p, 0) /\ Len(x) <= Len(p) /\ Len(n) \in Nat /\ Len(p) \in Nat
  <2>1. P \in SomeParts(Letter) /\ b[1] = 0 /\ CutFacts(P, b, p, 1)
    BY CutIs
  <2> QED BY <2>1 DEF CutFacts
<1> HIDE DEF m, x
<1>2. \A g : Describing(g, p, n) => g[Len(x)] = Len(x) /\ Occurs(x, n, 0)
  <2> SUFFICES ASSUME NEW g, Describing(g, p, n) PROVE g[Len(x)] = Len(x) /\ Occurs(x, n, 0)
    OBVIOUS
  <2>1. Placed(g, p, n, Len(p)) /\ g[0] = 0 /\ 0 + Len(x) <= Len(p) /\ 0 + Len(x) = Len(x)
    BY <1>1 DEF Describing, Placed
  <2>2. g[0 + Len(x)] = g[0] + Len(x) /\ Occurs(x, n, g[0])
    BY <1>1, <2>1, RunOccurs, 0 \in Nat
  <2> QED BY <2>1, <2>2
<1>3. CASE Occurs(x, n, 0)
  <2>1. MatchPart(P, 1, n, 0) = {Len(x)}
    BY <1>1, <1>3, MatchFirst DEF x
  <2>2. Len(x) \in 0..Len(n)
    BY <1>1, <1>3 DEF Occurs
  <2>3. \E g : Placed(g, p, n, Len(x)) /\ g[Len(x)] = Len(x)
    <3>1. PICK f : Placed(f, p, n, 0) /\ f[0] = 0
      BY PlacedNone
    <3>2. \E h : Placed(h, p, n, 0 + Len(x)) /\ h[0 + Len(x)] = f[0] + Len(x)
      BY <3>1, <1>1, <1>3, ExtendedRun, 0 \in Nat
    <3> QED BY <3>1, <3>2, <1>1
  <2>4. \A g : Describing(g, p, n) => Len(x) <= g[Len(x)]
    BY <1>1, <1>2
  <2> QED BY <2>1, <2>2, <2>3, <2>4, <1>1 DEF Greedy, Earliest, x
<1>4. CASE ~Occurs(x, n, 0)
  <2>1. MatchPart(P, 1, n, 0) = {}
    BY <1>1, <1>4, MatchFirst DEF x
  <2>2. ~Describes(p, n)
    BY <1>2, <1>4, DescribesIs DEF Describing
  <2> QED BY <2>1, <2>2 DEF Greedy
<1> QED BY <1>3, <1>4

(* What a description of the name says of the part behind a star *)
LEMMA BehindStar ==
  ASSUME NEW p \in Seq(Letter), NEW n \in Seq(Letters), NEW m \in Nat, NEW e, Earliest(p, n, m, e),
         p[m + 1] = "*", NEW x, Run(x, p, m + 1), m + 1 + Len(x) <= Len(p),
         NEW g, Describing(g, p, n)
  PROVE  /\ g[m + 1] \in Nat /\ e <= g[m + 1] /\ Occurs(x, n, g[m + 1])
         /\ g[m + 1 + Len(x)] = g[m + 1] + Len(x)
<1>0. Len(x) \in Nat /\ Len(p) \in Nat /\ Len(n) \in Nat /\ e \in Nat
  BY DEF Run, Earliest
<1>1. Placed(g, p, n, Len(p)) /\ e <= g[m]
  BY DEF Describing, Earliest
<1>2. m + 1 \in 1..Len(p) /\ m \in 0..Len(p) /\ m + 1 \in 0..Len(p) /\ m + 1 - 1 = m /\ m + 1 \in Nat
  BY <1>0
<1>3. Stands(g, p, n, m + 1) /\ g \in [0..Len(p) -> 0..Len(n)]
  BY <1>1, <1>2 DEF Placed
<1>4. g[m] \in Nat /\ g[m + 1] \in Nat
  BY <1>2, <1>3, <1>0
<1>5. g[m] <= g[m + 1]
  BY <1>2, <1>3 DEF Stands
<1>6. e <= g[m + 1]
  BY <1>0, <1>1, <1>4, <1>5
<1>7. g[m + 1 + Len(x)] = g[m + 1] + Len(x) /\ Occurs(x, n, g[m + 1])
  BY <1>0, <1>1, <1>2, RunOccurs
<1> QED BY <1>4, <1>6, <1>7

(* The first l letters of p can be placed so that they end at h *)
PlacedUpTo(p, n, l, h) == \E g : Placed(g, p, n, l) /\ g[l] = h

(* and how the start of one goes on *)
LEMMA OverStar ==
  ASSUME NEW p \in Seq(Letter), NEW n \in Seq(Letters), NEW m \in Nat, NEW e, Earliest(p, n, m, e),
         p[m + 1] = "*", NEW x, Run(x, p, m + 1), NEW q \in Nat, e <= q, Occurs(x, n, q),
         NEW l, l = m + 1 + Len(x), NEW h, h = q + Len(x)
  PROVE  PlacedUpTo(p, n, l, h)
<1>0. Len(x) \in Nat /\ Len(n) \in Nat /\ m + 1 \in Nat
  BY DEF Run
<1>1. q \in 0..Len(n)
  BY <1>0 DEF Occurs
<1>2. PICK f : Placed(f, p, n, m) /\ f[m] = e
  BY DEF Earliest
<1>3. PICK o : Placed(o, p, n, m + 1) /\ o[m + 1] = q
  BY <1>1, <1>2, Extended
<1> QED BY <1>0, <1>3, ExtendedRun DEF PlacedUpTo

(* After a part between two stars *)
LEMMA GreedyMiddle ==
  ASSUME NEW p \in Seq(Letter), NEW n \in Seq(Letters), NEW P, NEW b, Cut(P, b, p, Len(p)),
         NEW k \in 1..(Len(P) - 2), NEW S, Greedy(S, p, n, b[k] + Len(P[k]))
  PROVE  Greedy(Onto(P, k + 1, n, S), p, n, b[k + 1] + Len(P[k + 1]))
<1> DEFINE m == b[k] + Len(P[k])
           x == P[k + 1]
           l == b[k + 1] + Len(x)
           T == Onto(P, k + 1, n, S)
<1>0. /\ P \in SomeParts(Letter) /\ Len(P) \in Nat
      /\ k \in 1..Len(P) /\ k + 1 \in 1..Len(P) /\ k \in 1..(Len(P) - 1) /\ k + 1 \in 2..(Len(P) - 1)
  BY CutIs
<1>1. /\ m \in Nat /\ b[k + 1] = m + 1 /\ p[m + 1] = "*"
      /\ x \in Seq(Letter) /\ Len(x) \in Nat /\ Run(x, p, m + 1) /\ m + 1 + Len(x) <= Len(p)
      /\ l = m + 1 + Len(x)
  <2>1. CutFacts(P, b, p, k) /\ CutFacts(P, b, p, k + 1)
        /\ b[k + 1] = b[k] + Len(P[k]) + 1 /\ p[b[k + 1]] = "*"
    BY <1>0, CutIs
  <2> QED BY <2>1 DEF CutFacts
<1>2. CASE S = {} /\ ~Describes(p, n)
  <2>1. T = {}
    BY <1>2 DEF Onto
  <2> QED BY <2>1, <1>2 DEF Greedy
<1>3. ASSUME NEW e, S = {e}, Earliest(p, n, m, e) PROVE Greedy(T, p, n, l)
  <2>1. T = MatchPart(P, k + 1, n, e) /\ e \in 0..Len(n) /\ e \in Nat /\ Len(n) \in Nat
    BY <1>3 DEF Earliest, Onto
  <2> HIDE DEF T, m, x, l
  <2>2. CASE MatchPart(P, k + 1, n, e) = {} /\ \A q \in Nat : e <= q => ~Occurs(x, n, q)
    <3>1. ASSUME NEW g, Describing(g, p, n) PROVE FALSE
      <4>1. g[m + 1] \in Nat /\ e <= g[m + 1] /\ Occurs(x, n, g[m + 1])
        BY <1>1, <1>3, <3>1, BehindStar
      <4> QED BY <4>1, <2>2
    <3>2. ~Describes(p, n)
      BY <3>1, DescribesIs DEF Describing
    <3> QED BY <3>2, <2>1, <2>2 DEF Greedy
  <2>3. ASSUME NEW q, FirstAt(x, n, e, q), MatchPart(P, k + 1, n, e) = {q + Len(x)}
        PROVE  Greedy(T, p, n, l)
    <3>1. q \in Nat /\ e <= q /\ Occurs(x, n, q) /\ \A r \in Nat : e <= r /\ Occurs(x, n, r) => q <= r
      BY <2>3 DEF FirstAt
    <3>2. q + Len(x) \in 0..Len(n)
      BY <3>1, <1>1, <2>1 DEF Occurs
    <3>3. PlacedUpTo(p, n, l, q + Len(x))
      BY <1>1, <1>3, <3>1, OverStar
    <3>4. ASSUME NEW g, Describing(g, p, n) PROVE q + Len(x) <= g[l]
      <4>1. /\ g[m + 1] \in Nat /\ e <= g[m + 1] /\ Occurs(x, n, g[m + 1])
            /\ g[m + 1 + Len(x)] = g[m + 1] + Len(x)
        BY <1>1, <1>3, <3>4, BehindStar
      <4>2. q <= g[m + 1]
        BY <4>1, <3>1
      <4>3. g[l] = g[m + 1] + Len(x)
        BY <4>1, <1>1
      <4> QED BY <4>1, <4>2, <4>3, <3>1, <1>1
    <3>5. Earliest(p, n, l, q + Len(x))
      BY <3>2, <3>3, <3>4 DEF Earliest, PlacedUpTo
    <3> QED BY <2>1, <2>3, <3>5 DEF Greedy
  <2>4. \/ MatchPart(P, k + 1, n, e) = {} /\ \A q \in Nat : e <= q => ~Occurs(P[k + 1], n, q)
        \/ \E q : FirstAt(P[k + 1], n, e, q) /\ MatchPart(P, k + 1, n, e) = {q + Len(P[k + 1])}
    <3>1. PICK i \in 2..(Len(P) - 1) : i = k + 1
      BY <1>0
    <3>2. \/ MatchPart(P, i, n, e) = {} /\ \A q \in Nat : e <= q => ~Occurs(P[i], n, q)
          \/ \E q : FirstAt(P[i], n, e, q) /\ MatchPart(P, i, n, e) = {q + Len(P[i])}
      BY <1>0, <2>1, MatchMiddle
    <3> QED BY <3>1, <3>2
  <2> QED BY <2>2, <2>3, <2>4 DEF x
<1> QED BY <1>2, <1>3 DEF Greedy

(* After the last part *)
LEMMA GreedyLast ==
  ASSUME NEW p \in Seq(Letter), NEW n \in Seq(Letters), NEW P, NEW b, Cut(P, b, p, Len(p)),
         NEW k, k = Len(P) - 1, k # 0, NEW S, Greedy(S, p, n, b[k] + Len(P[k]))
  PROVE  Onto(P, Len(P), n, S) # {} <=> Describes(p, n)
<1> DEFINE L == Len(P)
           m == b[k] + Len(P[k])
           x == P[L]
           T == Onto(P, L, n, S)
<1>0. /\ P \in SomeParts(Letter) /\ L \in Nat /\ L # 1 /\ k + 1 = L
      /\ k \in 1..L /\ L \in 1..L /\ k \in 1..(L - 1) /\ Len(p) \in Nat
  <2>1. P \in SomeParts(Letter) /\ Len(P) \in Nat /\ Len(P) # 0
    BY CutIs
  <2>2. k + 1 = Len(P) /\ k \in Nat
    BY <2>1
  <2> QED BY <2>1, <2>2
<1>1. /\ m \in Nat /\ b[L] = m + 1 /\ p[m + 1] = "*"
      /\ x \in Seq(Letter) /\ Len(x) \in Nat /\ Run(x, p, m + 1) /\ m + 1 + Len(x) = Len(p)
  <2> HIDE DEF m, x, L, T
  <2>1. CutFacts(P, b, p, k) /\ CutFacts(P, b, p, Len(P))
        /\ b[k + 1] = b[k] + Len(P[k]) + 1 /\ p[b[k + 1]] = "*" /\ b[Len(P)] + Len(P[Len(P)]) = Len(p)
    <3>1. \A i \in 1..Len(P) : CutFacts(P, b, p, i)
      BY CutIs
    <3>2. b[k + 1] = b[k] + Len(P[k]) + 1 /\ p[b[k + 1]] = "*"
      <4>1. k \in 1..(Len(P) - 1)
        BY <1>0 DEF L
      <4> QED BY <4>1, CutIs
    <3>3. b[Len(P)] + Len(P[Len(P)]) = Len(p)
      BY CutIs
    <3> QED BY <3>1, <3>2, <3>3, <1>0 DEF L
  <2> QED BY <2>1, <1>0 DEF CutFacts, m, x, L
<1>2. CASE S = {} /\ ~Describes(p, n)
  BY <1>2 DEF Onto
<1>3. ASSUME NEW e, S = {e}, Earliest(p, n, m, e) PROVE T # {} <=> Describes(p, n)
  <2>1. T = MatchPart(P, L, n, e) /\ e \in 0..Len(n) /\ e \in Nat /\ Len(n) \in Nat
    BY <1>3 DEF Earliest, Onto
  <2>2. MatchPart(P, L, n, e) # {} <=> Len(x) + e <= Len(n) /\ Occurs(x, n, Len(n) - Len(x))
    BY <1>0, <2>1, MatchLast
  <2> HIDE DEF T, m, x, L
  <2>3. ASSUME Len(x) + e <= Len(n), Occurs(x, n, Len(n) - Len(x)) PROVE Describes(p, n)
    <3>1. PICK q \in Nat : e <= q /\ q = Len(n) - Len(x) /\ q + Len(x) = Len(n)
      <4>1. Len(n) - Len(x) \in Nat /\ e <= Len(n) - Len(x) /\ (Len(n) - Len(x)) + Len(x) = Len(n)
        BY <2>1, <1>1, <2>3
      <4> QED BY <4>1
    <3>3. Occurs(x, n, q) /\ e <= q
      BY <2>3, <3>1
    <3>4. m \in Nat /\ p[m + 1] = "*" /\ Run(x, p, m + 1) /\ Earliest(p, n, m, e)
      BY <1>1, <1>3
    <3>5. Len(p) = m + 1 + Len(x) /\ Len(n) = q + Len(x)
      BY <1>1, <3>1
    <3>2. PlacedUpTo(p, n, Len(p), Len(n))
      BY <3>3, <3>4, <3>5, OverStar
    <3> QED BY <3>2, DescribesIs DEF PlacedUpTo
  <2>4. ASSUME Describes(p, n) PROVE Len(x) + e <= Len(n) /\ Occurs(x, n, Len(n) - Len(x))
    <3>1. PICK g : Describing(g, p, n)
      BY <2>4, DescribesIs DEF Describing
    <3>2. m + 1 + Len(x) <= Len(p)
      BY <1>0, <1>1
    <3>3. /\ g[m + 1] \in Nat /\ e <= g[m + 1] /\ Occurs(x, n, g[m + 1])
          /\ g[m + 1 + Len(x)] = g[m + 1] + Len(x)
      BY <1>1, <1>3, <3>1, <3>2, BehindStar
    <3>4. g[m + 1 + Len(x)] = Len(n)
      BY <3>1, <1>1 DEF Describing
    <3>5. g[m + 1] = Len(n) - Len(x)
      <4> DEFINE y == g[m + 1]
      <4>1. y \in Nat /\ Len(n) = y + Len(x)
        BY <3>3, <3>4
      <4> HIDE DEF y
      <4>2. y = Len(n) - Len(x)
        BY <4>1, <1>1, <2>1
      <4> QED BY <4>2 DEF y
    <3> QED BY <3>3, <3>5, <1>1, <2>1
  <2> QED BY <2>1, <2>2, <2>3, <2>4
<1> QED BY <1>2, <1>3 DEF Greedy

(* A pattern without a star *)
LEMMA NoStar ==
  ASSUME NEW p \in Seq(Letter), NEW n \in Seq(Letters), NEW P, NEW b, Cut(P, b, p, Len(p)), Len(P) = 1
  PROVE  p = n <=> Describes(p, n)
<1> DEFINE x == P[1]
<1>1. /\ x \in Seq(Letter) /\ Len(x) = Len(p) /\ Run(x, p, 0) /\ Len(p) \in Nat /\ Len(n) \in Nat
  <2>1. CutFacts(P, b, p, 1) /\ b[1] = 0 /\ b[1] + Len(P[1]) = Len(p)
    BY CutIs
  <2> QED BY <2>1 DEF CutFacts
<1> HIDE DEF x
<1>2. \A j \in 1..Len(p) : x[j] = p[j]
  <2>1. \A j \in 1..Len(p) : x[j] = p[0 + j] /\ 0 + j = j
    BY <1>1 DEF Run
  <2> QED BY <2>1
<1>3. ASSUME p = n PROVE Describes(p, n)
  <2>1. Occurs(x, n, 0)
    BY <1>1, <1>2, <1>3 DEF Occurs
  <2>2. PICK f : Placed(f, p, n, 0) /\ f[0] = 0
    BY PlacedNone
  <2>3. \E h : Placed(h, p, n, 0 + Len(x)) /\ h[0 + Len(x)] = f[0] + Len(x)
    BY <2>1, <2>2, <1>1, ExtendedRun, 0 \in Nat
  <2>4. 0 + Len(x) = Len(p) /\ Len(p) = Len(n)
    BY <1>1, <1>3
  <2> QED BY <2>2, <2>3, <2>4, DescribesIs
<1>4. ASSUME Describes(p, n) PROVE p = n
  <2>1. PICK g : Placed(g, p, n, Len(p)) /\ g[Len(p)] = Len(n)
    BY <1>4, DescribesIs
  <2>2. 0 + Len(x) = Len(p) /\ 0 + Len(x) <= Len(p) /\ g[0] = 0
    BY <1>1, <2>1 DEF Placed
  <2>3. g[0 + Len(x)] = g[0] + Len(x) /\ Occurs(x, n, g[0])
    BY <1>1, <2>1, <2>2, RunOccurs, 0 \in Nat
  <2>4. Len(n) = Len(p) /\ \A j \in 1..Len(p) : n[j] = p[j]
    <3>1. Len(n) = Len(p)
      BY <2>1, <2>2, <2>3, <1>1
    <3>2. \A j \in 1..Len(p) : n[0 + j] = x[j] /\ 0 + j = j
      BY <2>2, <2>3, <1>1 DEF Occurs
    <3> QED BY <3>1, <3>2, <1>2
  <2>5. p = [j \in 1..Len(p) |-> p[j]] /\ n = [j \in 1..Len(n) |-> n[j]]
    OBVIOUS
  <2> QED BY <2>4, <2>5
<1> QED BY <1>3, <1>4

(* The positions of glob_match, part by part *)
LEMMA GreedyDescribes ==
  ASSUME NEW p \in Seq(Letter), NEW n \in Seq(Letters), NEW P, NEW b, Cut(P, b, p, Len(p)),
         Len(P) # 1, NEW f, AtIs(f, P, n)
  PROVE  f[Len(P)] # {} <=> Describes(p, n)
<1>1. P \in SomeParts(Letter) /\ Len(P) \in Nat /\ Len(P) # 0
  BY CutIs
<1>2. \A i \in 0..Len(P) : f[i] = IF i = 0 THEN {0} ELSE Onto(P, i, n, f[i - 1])
  BY DEF AtIs, Onto
<1> DEFINE M == {k \in Nat : k + 1 \in 1..(Len(P) - 1) =>
                               Greedy(f[k + 1], p, n, b[k + 1] + Len(P[k + 1]))}
<1>3. 0 \in M
  <2>1. f[0] = {0} /\ f[1] = Onto(P, 1, n, f[0])
    <3>1. 0 \in 0..Len(P) /\ 1 \in 0..Len(P) /\ 1 # 0 /\ 1 - 1 = 0
      BY <1>1
    <3> QED BY <3>1, <1>2
  <2>2. f[1] = MatchPart(P, 1, n, 0)
    BY <2>1 DEF Onto
  <2>3. Greedy(f[1], p, n, b[1] + Len(P[1]))
    BY <2>2, GreedyFirst
  <2> QED BY <2>3
<1>4. ASSUME NEW k \in Nat, k \in M PROVE k + 1 \in M
  <2> SUFFICES ASSUME (k + 1) + 1 \in 1..(Len(P) - 1)
               PROVE  Greedy(f[(k + 1) + 1], p, n, b[(k + 1) + 1] + Len(P[(k + 1) + 1]))
    OBVIOUS
  <2> DEFINE j == k + 1
  <2>1. j \in 1..(Len(P) - 1) /\ j \in 1..(Len(P) - 2) /\ j + 1 \in 0..Len(P) /\ j + 1 # 0 /\ (j + 1) - 1 = j
    BY <1>1
  <2>2. Greedy(f[j], p, n, b[j] + Len(P[j]))
    BY <1>4, <2>1
  <2>3. f[j + 1] = Onto(P, j + 1, n, f[j])
    BY <2>1, <1>2
  <2> HIDE DEF j, M
  <2>4. Greedy(f[j + 1], p, n, b[j + 1] + Len(P[j + 1]))
    BY <2>1, <2>2, <2>3, GreedyMiddle
  <2> QED BY <2>4 DEF j
<1>5. Nat \subseteq M
  <2> HIDE DEF M
  <2> QED BY <1>3, <1>4, NatSet
<1>6. PICK k : k = Len(P) - 1
  OBVIOUS
<1>7. k - 1 \in Nat /\ (k - 1) + 1 = k /\ k \in 1..(Len(P) - 1) /\ k # 0
      /\ Len(P) \in 0..Len(P) /\ Len(P) # 0 /\ Len(P) - 1 = k
  <2> HIDE DEF M
  <2> QED BY <1>1, <1>6
<1>8. Greedy(f[k], p, n, b[k] + Len(P[k]))
  <2>1. k - 1 \in M
    BY <1>5, <1>7
  <2> QED BY <2>1, <1>7
<1>9. f[Len(P)] = Onto(P, Len(P), n, f[k])
  BY <1>7, <1>2
<1> HIDE DEF M
<1>10. Onto(P, Len(P), n, f[k]) # {} <=> Describes(p, n)
  BY <1>6, <1>7, <1>8, GreedyLast
<1> QED BY <1>9, <1>10

(* The greedy search of glob_match (template.rs), which never goes back, *)
(* answers as the pattern is meant, whatever the pattern and the name:   *)
(* the run looks at patterns of four letters.                            *)
THEOREM GlobMatchesWhatIsMeant ==
  ASSUME NEW p \in Seq(Letter), NEW n \in Seq(Letters)
  PROVE  glob_match(p, n) <=> Describes(p, n)
<1>1. PICK b : Cut(Parts(p), b, p, Len(p))
  BY PartsCut
<1>2. Parts(p) \in SomeParts(Letter)
  BY <1>1, CutIs
<1>3. CASE Len(Parts(p)) = 1
  <2>1. glob_match(p, n) <=> p = n
    BY <1>3, GlobIs
  <2> QED BY <2>1, <1>1, <1>3, NoStar
<1>4. CASE Len(Parts(p)) # 1
  <2> DEFINE f == CHOOSE h : AtIs(h, Parts(p), n)
  <2>1. \E h : AtIs(h, Parts(p), n)
    BY <1>2, <1>4, AtExists
  <2>2. AtIs(f, Parts(p), n)
    BY <2>1
  <2>3. glob_match(p, n) <=> f[Len(Parts(p))] # {}
    BY <1>4, GlobIs
  <2> HIDE DEF f
  <2>4. f[Len(Parts(p))] # {} <=> Describes(p, n)
    BY <2>2, <1>1, <1>4, GreedyDescribes
  <2> QED BY <2>3, <2>4
<1> QED BY <1>3, <1>4

-----------------------------------------------------------------------------
(* The two lists of the filter *)

(* The filter's test of a name *)
Prefers(p, n) == p # <<>> /\ glob_match(p, n)

(* What lies in the two lists after k bookmarks, and where: each in the    *)
(* list its name puts it in, in the order it had                           *)
Arranged(A, B, a, l, p, k) ==
  /\ A \in Seq(Words) /\ B \in Seq(Words) /\ Len(A) + Len(B) = k
  /\ a \in [1..k -> Nat]
  /\ \A i \in 1..k : IF Prefers(p, l[i]) THEN a[i] \in 1..Len(A) /\ A[a[i]] = l[i]
                     ELSE a[i] \in 1..Len(B) /\ B[a[i]] = l[i]
  /\ \A t \in 1..Len(A) : \E i \in 1..k : Prefers(p, l[i]) /\ a[i] = t
  /\ \A t \in 1..Len(B) : \E i \in 1..k : ~Prefers(p, l[i]) /\ a[i] = t
  /\ \A i, j \in 1..k : i < j /\ (Prefers(p, l[i]) <=> Prefers(p, l[j])) => a[i] < a[j]

(* One more bookmark, in either list *)
LEMMA ArrangedFirst ==
  ASSUME NEW A, NEW B, NEW a, NEW l, NEW p, NEW k \in Nat, Arranged(A, B, a, l, p, k),
         l[k + 1] \in Words, Prefers(p, l[k + 1])
  PROVE  \E c : Arranged(Append(A, l[k + 1]), B, c, l, p, k + 1)
<1> DEFINE m == Len(A) + 1
           c == [i \in 1..(k + 1) |-> IF i = k + 1 THEN m ELSE a[i]]
           C == Append(A, l[k + 1])
<1>0. /\ A \in Seq(Words) /\ B \in Seq(Words) /\ Len(A) + Len(B) = k /\ Len(A) \in Nat /\ Len(B) \in Nat
      /\ a \in [1..k -> Nat]
      /\ \A i \in 1..k : IF Prefers(p, l[i]) THEN a[i] \in 1..Len(A) /\ A[a[i]] = l[i]
                         ELSE a[i] \in 1..Len(B) /\ B[a[i]] = l[i]
      /\ \A t \in 1..Len(A) : \E i \in 1..k : Prefers(p, l[i]) /\ a[i] = t
      /\ \A t \in 1..Len(B) : \E i \in 1..k : ~Prefers(p, l[i]) /\ a[i] = t
      /\ \A i, j \in 1..k : i < j /\ (Prefers(p, l[i]) <=> Prefers(p, l[j])) => a[i] < a[j]
  BY DEF Arranged
<1>1. C \in Seq(Words) /\ Len(C) = m /\ m \in Nat /\ C[m] = l[k + 1] /\ \A t \in 1..Len(A) : C[t] = A[t] /\ t \in 1..m
  BY <1>0
<1>2. \A i \in 1..(k + 1) : i # k + 1 => i \in 1..k
  OBVIOUS
<1>3. c \in [1..(k + 1) -> Nat] /\ c[k + 1] = m /\ \A i \in 1..k : c[i] = a[i] /\ i \in 1..(k + 1)
  BY <1>0, <1>1, <1>2
<1>7. m \in 1..m /\ \A t \in 1..m : t # m => t \in 1..Len(A)
  BY <1>0
<1>8. m + Len(B) = k + 1
  BY <1>0
<1>9. \A t \in 1..Len(A) : t < m
  BY <1>0
<1> HIDE DEF c, C, m
<1>4. ASSUME NEW i \in 1..(k + 1)
      PROVE  IF Prefers(p, l[i]) THEN c[i] \in 1..Len(C) /\ C[c[i]] = l[i]
             ELSE c[i] \in 1..Len(B) /\ B[c[i]] = l[i]
  <2>1. CASE i = k + 1
    BY <2>1, <1>1, <1>3, <1>7
  <2>2. CASE i # k + 1
    <3>1. i \in 1..k /\ c[i] = a[i]
      BY <2>2, <1>2, <1>3
    <3>2. CASE Prefers(p, l[i])
      <4>1. a[i] \in 1..Len(A) /\ A[a[i]] = l[i]
        BY <3>1, <3>2, <1>0
      <4> QED BY <4>1, <3>1, <3>2, <1>1
    <3>3. CASE ~Prefers(p, l[i])
      <4>1. a[i] \in 1..Len(B) /\ B[a[i]] = l[i]
        BY <3>1, <3>3, <1>0
      <4> QED BY <4>1, <3>1, <3>3
    <3> QED BY <3>2, <3>3
  <2> QED BY <2>1, <2>2
<1>5. /\ \A t \in 1..Len(C) : \E i \in 1..(k + 1) : Prefers(p, l[i]) /\ c[i] = t
      /\ \A t \in 1..Len(B) : \E i \in 1..(k + 1) : ~Prefers(p, l[i]) /\ c[i] = t
  <2>1. k + 1 \in 1..(k + 1)
    OBVIOUS
  <2>2. ASSUME NEW t \in 1..Len(C) PROVE \E i \in 1..(k + 1) : Prefers(p, l[i]) /\ c[i] = t
    <3>1. CASE t = m
      BY <3>1, <2>1, <1>3
    <3>2. CASE t # m
      <4>1. PICK i \in 1..k : Prefers(p, l[i]) /\ a[i] = t
        BY <3>2, <1>0, <1>1, <1>7
      <4> QED BY <4>1, <1>3
    <3> QED BY <3>1, <3>2
  <2>3. ASSUME NEW t \in 1..Len(B) PROVE \E i \in 1..(k + 1) : ~Prefers(p, l[i]) /\ c[i] = t
    <3>1. PICK i \in 1..k : ~Prefers(p, l[i]) /\ a[i] = t
      BY <1>0
    <3> QED BY <3>1, <1>3
  <2> QED BY <2>2, <2>3
<1>6. ASSUME NEW i \in 1..(k + 1), NEW j \in 1..(k + 1), i < j, Prefers(p, l[i]) <=> Prefers(p, l[j])
      PROVE  c[i] < c[j]
  <2>0. i # k + 1
    BY <1>6
  <2>1. i \in 1..k /\ c[i] = a[i]
    BY <2>0, <1>2, <1>3
  <2>2. CASE j = k + 1
    <3>1. Prefers(p, l[i])
      BY <1>6, <2>2
    <3>2. a[i] \in 1..Len(A) /\ c[j] = m
      BY <3>1, <2>1, <2>2, <1>0, <1>3
    <3> QED BY <3>2, <2>1, <1>9
  <2>3. CASE j # k + 1
    <3>1. j \in 1..k /\ c[j] = a[j]
      BY <2>3, <1>2, <1>3
    <3> QED BY <3>1, <2>1, <1>6, <1>0
  <2> QED BY <2>2, <2>3
<1>10. C \in Seq(Words) /\ B \in Seq(Words) /\ Len(C) + Len(B) = k + 1 /\ c \in [1..(k + 1) -> Nat]
  BY <1>0, <1>1, <1>3, <1>8
<1>11. Arranged(C, B, c, l, p, k + 1)
  BY <1>4, <1>5, <1>6, <1>10 DEF Arranged
<1> QED BY <1>11 DEF C

(* the same for the rest *)
LEMMA ArrangedRest ==
  ASSUME NEW A, NEW B, NEW a, NEW l, NEW p, NEW k \in Nat, Arranged(A, B, a, l, p, k),
         l[k + 1] \in Words, ~Prefers(p, l[k + 1])
  PROVE  \E c : Arranged(A, Append(B, l[k + 1]), c, l, p, k + 1)
<1> DEFINE m == Len(B) + 1
           c == [i \in 1..(k + 1) |-> IF i = k + 1 THEN m ELSE a[i]]
           C == Append(B, l[k + 1])
<1>0. /\ A \in Seq(Words) /\ B \in Seq(Words) /\ Len(A) + Len(B) = k /\ Len(A) \in Nat /\ Len(B) \in Nat
      /\ a \in [1..k -> Nat]
      /\ \A i \in 1..k : IF Prefers(p, l[i]) THEN a[i] \in 1..Len(A) /\ A[a[i]] = l[i]
                         ELSE a[i] \in 1..Len(B) /\ B[a[i]] = l[i]
      /\ \A t \in 1..Len(A) : \E i \in 1..k : Prefers(p, l[i]) /\ a[i] = t
      /\ \A t \in 1..Len(B) : \E i \in 1..k : ~Prefers(p, l[i]) /\ a[i] = t
      /\ \A i, j \in 1..k : i < j /\ (Prefers(p, l[i]) <=> Prefers(p, l[j])) => a[i] < a[j]
  BY DEF Arranged
<1>1. C \in Seq(Words) /\ Len(C) = m /\ m \in Nat /\ C[m] = l[k + 1] /\ \A t \in 1..Len(B) : C[t] = B[t] /\ t \in 1..m
  BY <1>0
<1>2. \A i \in 1..(k + 1) : i # k + 1 => i \in 1..k
  OBVIOUS
<1>3. c \in [1..(k + 1) -> Nat] /\ c[k + 1] = m /\ \A i \in 1..k : c[i] = a[i] /\ i \in 1..(k + 1)
  BY <1>0, <1>1, <1>2
<1>7. m \in 1..m /\ \A t \in 1..m : t # m => t \in 1..Len(B)
  BY <1>0
<1>8. Len(A) + m = k + 1
  BY <1>0
<1>9. \A t \in 1..Len(B) : t < m
  BY <1>0
<1> HIDE DEF c, C, m
<1>4. ASSUME NEW i \in 1..(k + 1)
      PROVE  IF Prefers(p, l[i]) THEN c[i] \in 1..Len(A) /\ A[c[i]] = l[i]
             ELSE c[i] \in 1..Len(C) /\ C[c[i]] = l[i]
  <2>1. CASE i = k + 1
    BY <2>1, <1>1, <1>3, <1>7
  <2>2. CASE i # k + 1
    <3>1. i \in 1..k /\ c[i] = a[i]
      BY <2>2, <1>2, <1>3
    <3>2. CASE Prefers(p, l[i])
      <4>1. a[i] \in 1..Len(A) /\ A[a[i]] = l[i]
        BY <3>1, <3>2, <1>0
      <4> QED BY <4>1, <3>1, <3>2
    <3>3. CASE ~Prefers(p, l[i])
      <4>1. a[i] \in 1..Len(B) /\ B[a[i]] = l[i]
        BY <3>1, <3>3, <1>0
      <4> QED BY <4>1, <3>1, <3>3, <1>1
    <3> QED BY <3>2, <3>3
  <2> QED BY <2>1, <2>2
<1>5. /\ \A t \in 1..Len(A) : \E i \in 1..(k + 1) : Prefers(p, l[i]) /\ c[i] = t
      /\ \A t \in 1..Len(C) : \E i \in 1..(k + 1) : ~Prefers(p, l[i]) /\ c[i] = t
  <2>1. k + 1 \in 1..(k + 1)
    OBVIOUS
  <2>2. ASSUME NEW t \in 1..Len(C) PROVE \E i \in 1..(k + 1) : ~Prefers(p, l[i]) /\ c[i] = t
    <3>1. CASE t = m
      BY <3>1, <2>1, <1>3
    <3>2. CASE t # m
      <4>1. PICK i \in 1..k : ~Prefers(p, l[i]) /\ a[i] = t
        BY <3>2, <1>0, <1>1, <1>7
      <4> QED BY <4>1, <1>3
    <3> QED BY <3>1, <3>2
  <2>3. ASSUME NEW t \in 1..Len(A) PROVE \E i \in 1..(k + 1) : Prefers(p, l[i]) /\ c[i] = t
    <3>1. PICK i \in 1..k : Prefers(p, l[i]) /\ a[i] = t
      BY <1>0
    <3> QED BY <3>1, <1>3
  <2> QED BY <2>2, <2>3
<1>6. ASSUME NEW i \in 1..(k + 1), NEW j \in 1..(k + 1), i < j, Prefers(p, l[i]) <=> Prefers(p, l[j])
      PROVE  c[i] < c[j]
  <2>0. i # k + 1
    BY <1>6
  <2>1. i \in 1..k /\ c[i] = a[i]
    BY <2>0, <1>2, <1>3
  <2>2. CASE j = k + 1
    <3>1. ~Prefers(p, l[i])
      BY <1>6, <2>2
    <3>2. a[i] \in 1..Len(B) /\ c[j] = m
      BY <3>1, <2>1, <2>2, <1>0, <1>3
    <3> QED BY <3>2, <2>1, <1>9
  <2>3. CASE j # k + 1
    <3>1. j \in 1..k /\ c[j] = a[j]
      BY <2>3, <1>2, <1>3
    <3> QED BY <3>1, <2>1, <1>6, <1>0
  <2> QED BY <2>2, <2>3
<1>10. A \in Seq(Words) /\ C \in Seq(Words) /\ Len(A) + Len(C) = k + 1 /\ c \in [1..(k + 1) -> Nat]
  BY <1>0, <1>1, <1>3, <1>8
<1>11. Arranged(A, C, c, l, p, k + 1)
  BY <1>4, <1>5, <1>6, <1>10 DEF Arranged
<1> QED BY <1>11 DEF C

-----------------------------------------------------------------------------
(* The filter's two lists *)
Two == Seq(Words) \X Seq(Words)

(* What their fold satisfies *)
TwoIs(f, p, l) ==
  f = [S \in SUBSET DOMAIN l |->
        IF S = {} THEN << <<>>, <<>> >> ELSE Partition(p, f[S \ {Max(S)}], l[Max(S)])]

(* The filter's two lists are a fold too *)
LEMMA LimitIs ==
  ASSUME NEW l, NEW count, NEW p
  PROVE  LET two    == (CHOOSE f : TwoIs(f, p, l))[DOMAIN l]
             sorted == two[1] \o two[2]
             kept   == IF Len(sorted) <= count THEN Len(sorted) ELSE count
         IN  limit_bookmarks(l, count, p) = [shown |-> SubSeq(sorted, 1, kept), more |-> Len(sorted) - kept]
BY DEF limit_bookmarks, TwoIs, FoldLeft, MapThenFoldSet

(* What the filter does with one bookmark *)
LEMMA PartitionIs ==
  ASSUME NEW p, NEW two \in Two, NEW n \in Words
  PROVE  /\ Partition(p, two, n) \in Two
         /\ Prefers(p, n) => Partition(p, two, n) = <<Append(two[1], n), two[2]>>
         /\ ~Prefers(p, n) => Partition(p, two, n) = <<two[1], Append(two[2], n)>>
<1>0. two[1] \in Seq(Words) /\ two[2] \in Seq(Words)
  BY DEF Two
<1>3. Append(two[1], n) \in Seq(Words) /\ Append(two[2], n) \in Seq(Words)
  BY <1>0
<1>4. \A x \in Seq(Words), y \in Seq(Words) : <<x, y>> \in Two
  BY DEF Two
<1>1. CASE Prefers(p, n)
  <2>1. Partition(p, two, n) = <<Append(two[1], n), two[2]>>
    BY <1>1 DEF Partition, Prefers
  <2> QED BY <2>1, <1>0, <1>1, <1>3, <1>4
<1>2. CASE ~Prefers(p, n)
  <2>1. Partition(p, two, n) = <<two[1], Append(two[2], n)>>
    BY <1>2 DEF Partition, Prefers
  <2> QED BY <2>1, <1>0, <1>2, <1>3, <1>4
<1> QED BY <1>1, <1>2

(* The filter's fold exists *)
LEMMA TwoExists ==
  ASSUME NEW p, NEW l \in Seq(Words)
  PROVE  \E f : TwoIs(f, p, l)
<1> DEFINE step == [x \in Two \X Words |-> Partition(p, x[1], x[2])]
           e == << <<>>, <<>> >>
<1>0. Len(l) \in Nat /\ DOMAIN l = 1..Len(l) /\ \A i \in 1..Len(l) : l[i] \in Words
  OBVIOUS
<1>1. step \in [Two \X Words -> Two]
  BY PartitionIs
<1>2. e \in Two
  <2>1. <<>> \in Seq(Words)
    OBVIOUS
  <2> QED BY <2>1 DEF Two
<1>3. PICK g \in [SUBSET DOMAIN l -> Two] : FoldIs(g, e, l, step)
  <2> HIDE DEF step, e
  <2> QED BY <1>1, <1>2, FoldExists
<1>4. \A S \in SUBSET DOMAIN l :
        g[S] = IF S = {} THEN e ELSE Partition(p, g[S \ {Max(S)}], l[Max(S)])
  <2> HIDE DEF e
  <2> SUFFICES ASSUME NEW S \in SUBSET DOMAIN l, S # {}
               PROVE  g[S] = Partition(p, g[S \ {Max(S)}], l[Max(S)])
    BY <1>3 DEF FoldIs
  <2>1. Max(S) \in S
    BY <1>0, Greatest
  <2>2. g[S \ {Max(S)}] \in Two /\ l[Max(S)] \in Words
    BY <2>1, <1>0
  <2>3. g[S] = step[<<g[S \ {Max(S)}], l[Max(S)]>>]
    <3> HIDE DEF step
    <3> QED BY <1>3 DEF FoldIs
  <2> QED BY <2>2, <2>3
<1>5. g = [S \in SUBSET DOMAIN l |-> g[S]]
  OBVIOUS
<1>6. TwoIs(g, p, l)
  BY <1>4, <1>5 DEF TwoIs
<1> QED BY <1>6

(* All of the list is arranged *)
LEMMA AllArranged ==
  ASSUME NEW p, NEW l \in Seq(Words), NEW f, TwoIs(f, p, l)
  PROVE  \E a : Arranged(f[DOMAIN l][1], f[DOMAIN l][2], a, l, p, Len(l))
<1>0. Len(l) \in Nat /\ DOMAIN l = 1..Len(l) /\ \A i \in 1..Len(l) : l[i] \in Words
  OBVIOUS
<1>1. \A S \in SUBSET DOMAIN l :
        f[S] = IF S = {} THEN << <<>>, <<>> >> ELSE Partition(p, f[S \ {Max(S)}], l[Max(S)])
  BY DEF TwoIs
<1> DEFINE M == {k \in Nat : k <= Len(l) => /\ f[1..k] \in Two
                                            /\ \E a : Arranged(f[1..k][1], f[1..k][2], a, l, p, k)}
<1>2. 0 \in M
  <2> DEFINE a == [i \in 1..0 |-> 0]
             e == << <<>>, <<>> >>
  <2>1. 1..0 = {} /\ {} \in SUBSET DOMAIN l
    OBVIOUS
  <2>2. f[{}] = e
    BY <2>1, <1>1
  <2>3. e \in Two /\ e[1] = <<>> /\ e[2] = <<>>
    <3>1. <<>> \in Seq(Words)
      OBVIOUS
    <3> QED BY <3>1 DEF Two
  <2>4. a \in [1..0 -> Nat]
    OBVIOUS
  <2>5. Arranged(<<>>, <<>>, a, l, p, 0)
    <3>1. <<>> \in Seq(Words) /\ Len(<<>>) = 0 /\ \A i \in 1..0 : FALSE
      OBVIOUS
    <3> HIDE DEF a
    <3> QED BY <3>1, <2>4 DEF Arranged
  <2> HIDE DEF e
  <2> QED BY <2>1, <2>2, <2>3, <2>5
<1>3. ASSUME NEW k \in Nat, k \in M PROVE k + 1 \in M
  <2> SUFFICES ASSUME k + 1 <= Len(l)
               PROVE  /\ f[1..(k + 1)] \in Two
                      /\ \E a : Arranged(f[1..(k + 1)][1], f[1..(k + 1)][2], a, l, p, k + 1)
    OBVIOUS
  <2>1. f[1..k] \in Two /\ \E a : Arranged(f[1..k][1], f[1..k][2], a, l, p, k)
    BY <1>3, <1>0
  <2> HIDE DEF M
  <2>2. PICK a : Arranged(f[1..k][1], f[1..k][2], a, l, p, k)
    BY <2>1
  <2>3. /\ 1..(k + 1) # {} /\ Max(1..(k + 1)) = k + 1
        /\ (1..(k + 1)) \ {k + 1} = 1..k
    BY GreatestOfInterval
  <2>4. 1..(k + 1) \in SUBSET DOMAIN l /\ l[k + 1] \in Words
    BY <1>0
  <2> DEFINE S == 1..(k + 1)
  <2> HIDE DEF S
  <2>5. f[S] = Partition(p, f[S \ {Max(S)}], l[Max(S)])
    BY <2>3, <2>4, <1>1 DEF S
  <2>6. f[S] = Partition(p, f[1..k], l[k + 1])
    BY <2>3, <2>5 DEF S
  <2>7. f[S] \in Two
    BY <2>1, <2>4, <2>6, PartitionIs
  <2>8. \E c : Arranged(f[S][1], f[S][2], c, l, p, k + 1)
    <3>1. CASE Prefers(p, l[k + 1])
      <4>1. f[S] = <<Append(f[1..k][1], l[k + 1]), f[1..k][2]>>
        BY <3>1, <2>1, <2>4, <2>6, PartitionIs
      <4>2. f[S][1] = Append(f[1..k][1], l[k + 1]) /\ f[S][2] = f[1..k][2]
        BY <4>1
      <4> QED BY <4>2, <3>1, <2>2, <2>4, ArrangedFirst
    <3>2. CASE ~Prefers(p, l[k + 1])
      <4>1. f[S] = <<f[1..k][1], Append(f[1..k][2], l[k + 1])>>
        BY <3>2, <2>1, <2>4, <2>6, PartitionIs
      <4>2. f[S][1] = f[1..k][1] /\ f[S][2] = Append(f[1..k][2], l[k + 1])
        BY <4>1
      <4> QED BY <4>2, <3>2, <2>2, <2>4, ArrangedRest
    <3> QED BY <3>1, <3>2
  <2> QED BY <2>7, <2>8 DEF S
<1>4. Nat \subseteq M
  <2> HIDE DEF M
  <2> QED BY <1>2, <1>3, NatSet
<1> QED BY <1>4, <1>0

-----------------------------------------------------------------------------
(* The cut *)

(* Where a bookmark comes in the list that is cut *)
Rank(A, a, l, p, i) == IF Prefers(p, l[i]) THEN a[i] ELSE Len(A) + a[i]

(* Every bookmark has one rank, those that match before the rest, each in *)
(* the order it had                                                       *)
LEMMA Ranked ==
  ASSUME NEW A, NEW B, NEW a, NEW l, NEW p, NEW k \in Nat, Arranged(A, B, a, l, p, k)
  PROVE  /\ A \o B \in Seq(Words) /\ Len(A \o B) = k
         /\ \A i \in 1..k : Rank(A, a, l, p, i) \in 1..k /\ (A \o B)[Rank(A, a, l, p, i)] = l[i]
         /\ \A t \in 1..k : \E i \in 1..k : Rank(A, a, l, p, i) = t
         /\ \A i, j \in 1..k :
              /\ Prefers(p, l[i]) /\ ~Prefers(p, l[j]) => Rank(A, a, l, p, i) < Rank(A, a, l, p, j)
              /\ i < j /\ (Prefers(p, l[i]) <=> Prefers(p, l[j])) =>
                   Rank(A, a, l, p, i) < Rank(A, a, l, p, j)
<1>0. /\ A \in Seq(Words) /\ B \in Seq(Words) /\ Len(A) + Len(B) = k /\ Len(A) \in Nat /\ Len(B) \in Nat
      /\ a \in [1..k -> Nat]
      /\ \A i \in 1..k : IF Prefers(p, l[i]) THEN a[i] \in 1..Len(A) /\ A[a[i]] = l[i]
                         ELSE a[i] \in 1..Len(B) /\ B[a[i]] = l[i]
      /\ \A t \in 1..Len(A) : \E i \in 1..k : Prefers(p, l[i]) /\ a[i] = t
      /\ \A t \in 1..Len(B) : \E i \in 1..k : ~Prefers(p, l[i]) /\ a[i] = t
      /\ \A i, j \in 1..k : i < j /\ (Prefers(p, l[i]) <=> Prefers(p, l[j])) => a[i] < a[j]
  BY DEF Arranged
<1> DEFINE s == A \o B
           R(i) == Rank(A, a, l, p, i)
<1>1. s \in Seq(Words) /\ Len(s) = k /\ \A t \in 1..k : s[t] = IF t <= Len(A) THEN A[t] ELSE B[t - Len(A)]
  BY <1>0
<1> HIDE DEF s
<1>2. \A i \in 1..k : Prefers(p, l[i]) => R(i) = a[i] /\ a[i] \in 1..Len(A) /\ A[a[i]] = l[i]
  BY <1>0 DEF Rank
<1>3. \A i \in 1..k : ~Prefers(p, l[i]) => R(i) = Len(A) + a[i] /\ a[i] \in 1..Len(B) /\ B[a[i]] = l[i]
  BY <1>0 DEF Rank
<1> HIDE DEF R
<1>4. ASSUME NEW i \in 1..k PROVE R(i) \in 1..k /\ s[R(i)] = l[i]
  <2>1. CASE Prefers(p, l[i])
    <3>1. R(i) = a[i] /\ a[i] \in 1..Len(A) /\ A[a[i]] = l[i]
      BY <1>2, <2>1
    <3>2. a[i] \in 1..k /\ a[i] <= Len(A)
      BY <3>1, <1>0
    <3> QED BY <3>1, <3>2, <1>1
  <2>2. CASE ~Prefers(p, l[i])
    <3>1. R(i) = Len(A) + a[i] /\ a[i] \in 1..Len(B) /\ B[a[i]] = l[i]
      BY <1>3, <2>2
    <3>2. Len(A) + a[i] \in 1..k /\ ~(Len(A) + a[i] <= Len(A)) /\ Len(A) + a[i] - Len(A) = a[i]
      BY <3>1, <1>0
    <3> QED BY <3>1, <3>2, <1>1
  <2> QED BY <2>1, <2>2
<1>5. ASSUME NEW t \in 1..k PROVE \E i \in 1..k : R(i) = t
  <2>1. CASE t <= Len(A)
    <3>1. t \in 1..Len(A)
      BY <2>1, <1>0
    <3>2. PICK i \in 1..k : Prefers(p, l[i]) /\ a[i] = t
      BY <3>1, <1>0
    <3> QED BY <3>2, <1>2
  <2>2. CASE ~(t <= Len(A))
    <3>1. t - Len(A) \in 1..Len(B)
      BY <2>2, <1>0
    <3>2. PICK i \in 1..k : ~Prefers(p, l[i]) /\ a[i] = t - Len(A)
      BY <3>1, <1>0
    <3>3. R(i) = Len(A) + (t - Len(A))
      BY <3>2, <1>3
    <3>4. Len(A) + (t - Len(A)) = t
      BY <1>0
    <3> QED BY <3>2, <3>3, <3>4
  <2> QED BY <2>1, <2>2
<1>6. ASSUME NEW i \in 1..k, NEW j \in 1..k, Prefers(p, l[i]), ~Prefers(p, l[j]) PROVE R(i) < R(j)
  <2>1. R(i) \in 1..Len(A) /\ R(j) = Len(A) + a[j] /\ a[j] \in 1..Len(B)
    BY <1>2, <1>3, <1>6
  <2> QED BY <2>1, <1>0
<1>7. ASSUME NEW i \in 1..k, NEW j \in 1..k, i < j, Prefers(p, l[i]) <=> Prefers(p, l[j])
      PROVE  R(i) < R(j)
  <2>1. a[i] < a[j] /\ a[i] \in Nat /\ a[j] \in Nat
    BY <1>7, <1>0
  <2>2. CASE Prefers(p, l[i])
    BY <2>1, <2>2, <1>2, <1>7
  <2>3. CASE ~Prefers(p, l[i])
    <3>1. R(i) = Len(A) + a[i] /\ R(j) = Len(A) + a[j]
      BY <2>3, <1>3, <1>7
    <3> QED BY <3>1, <2>1, <1>0
  <2> QED BY <2>2, <2>3
<1> QED BY <1>1, <1>4, <1>5, <1>6, <1>7 DEF s, R

(* What a cut of a list keeps *)
KeepsMostWanted(l, p, count, r) ==
  /\ Len(r.shown) + r.more = Len(l)
  /\ r.more > 0 => Len(r.shown) = count
  /\ \A i, j \in DOMAIN l : l[j] \in ToSet(r.shown) /\ ~(l[i] \in ToSet(r.shown)) =>
       /\ Prefers(p, l[i]) => Prefers(p, l[j])
       /\ (Prefers(p, l[i]) <=> Prefers(p, l[j])) => j < i

(* The filter, as a cut of the two lists joined *)
CutAt(s, count) ==
  LET kept == IF Len(s) <= count THEN Len(s) ELSE count
  IN  [shown |-> SubSeq(s, 1, kept), more |-> Len(s) - kept]

(* What is cut off such a list is what is least wanted *)
LEMMA CutKeeps ==
  ASSUME NEW A, NEW B, NEW a, NEW l \in Seq(Words), NEW p, NEW count \in Nat,
         Arranged(A, B, a, l, p, Len(l)),
         \A i, j \in DOMAIN l : i # j => l[i] # l[j]
  PROVE  KeepsMostWanted(l, p, count, CutAt(A \o B, count))
<1> DEFINE s == A \o B
           R(i) == Rank(A, a, l, p, i)
           L == Len(l)
           kept == IF Len(s) <= count THEN Len(s) ELSE count
           cut == SubSeq(s, 1, kept)
<1>0. L \in Nat /\ DOMAIN l = 1..L
  OBVIOUS
<1>1. /\ s \in Seq(Words) /\ Len(s) = L
      /\ \A i \in 1..L : R(i) \in 1..L /\ s[R(i)] = l[i]
      /\ \A t \in 1..L : \E i \in 1..L : R(i) = t
      /\ \A i, j \in 1..L :
           /\ Prefers(p, l[i]) /\ ~Prefers(p, l[j]) => R(i) < R(j)
           /\ i < j /\ (Prefers(p, l[i]) <=> Prefers(p, l[j])) => R(i) < R(j)
  BY <1>0, Ranked
<1> HIDE DEF s, R
<1>2. kept \in 0..L /\ (L - kept > 0 => kept = count) /\ L - kept >= 0
  BY <1>0, <1>1
<1>3. CutAt(s, count).shown = cut /\ CutAt(s, count).more = L - kept
  BY <1>1 DEF CutAt
<1> HIDE DEF kept
<1>4. Len(cut) = kept /\ DOMAIN cut = 1..kept /\ \A t \in 1..kept : cut[t] = s[t]
  <2>1. kept \in Nat /\ kept <= Len(s)
    BY <1>0, <1>1, <1>2
  <2> QED BY <2>1, <1>1
<1>9. kept \in Nat /\ kept <= L /\ L \in Nat
  BY <1>0, <1>2
<1> HIDE DEF cut, L
<1>5. ASSUME NEW i \in 1..L PROVE l[i] \in ToSet(cut) <=> R(i) <= kept
  <2>1. ASSUME R(i) <= kept PROVE l[i] \in ToSet(cut)
    <3>1. R(i) \in 1..kept
      BY <2>1, <1>0, <1>1, <1>2
    <3>2. cut[R(i)] = l[i] /\ R(i) \in DOMAIN cut
      BY <3>1, <1>1, <1>4
    <3> QED BY <3>2 DEF ToSet
  <2>2. ASSUME l[i] \in ToSet(cut) PROVE R(i) <= kept
    <3>1. PICK t \in 1..kept : s[t] = l[i]
      BY <2>2, <1>4 DEF ToSet
    <3>2. t \in 1..L
      <4>1. t \in Nat /\ 1 <= t /\ t <= kept
        BY <1>9
      <4> QED BY <4>1, <1>9
    <3>3. PICK j \in 1..L : R(j) = t
      BY <3>2, <1>1
    <3>4. l[j] = l[i]
      BY <3>1, <3>3, <1>1
    <3>5. j = i
      BY <3>4, <1>0
    <3> QED BY <3>3, <3>5
  <2> QED BY <2>1, <2>2
<1>6. ASSUME NEW i \in 1..L, NEW j \in 1..L, l[j] \in ToSet(cut), l[i] \notin ToSet(cut)
      PROVE  /\ Prefers(p, l[i]) => Prefers(p, l[j])
             /\ (Prefers(p, l[i]) <=> Prefers(p, l[j])) => j < i
  <2>1. ~(R(i) < R(j)) /\ i # j
    <3>1. R(j) <= kept /\ ~(R(i) <= kept)
      BY <1>5, <1>6
    <3>2. R(i) \in 1..L /\ R(j) \in 1..L
      BY <1>1
    <3>3. R(i) \in Nat /\ R(j) \in Nat /\ kept \in Nat
      BY <3>2, <1>9
    <3> QED BY <3>1, <3>3
  <2>2. Prefers(p, l[i]) => Prefers(p, l[j])
    BY <2>1, <1>1
  <2>3. ASSUME Prefers(p, l[i]) <=> Prefers(p, l[j]) PROVE j < i
    <3>1. ~(i < j)
      BY <2>1, <2>3, <1>1
    <3> QED BY <3>1, <2>1, <1>0
  <2> QED BY <2>2, <2>3
<1>7. kept + (L - kept) = L
  BY <1>0, <1>2
<1>8. KeepsMostWanted(l, p, count, CutAt(s, count))
  <2>1. Len(CutAt(s, count).shown) + CutAt(s, count).more = Len(l)
    BY <1>3, <1>4, <1>7 DEF L
  <2>2. CutAt(s, count).more > 0 => Len(CutAt(s, count).shown) = count
    BY <1>2, <1>3, <1>4
  <2>3. \A i, j \in DOMAIN l : l[j] \in ToSet(cut) /\ ~(l[i] \in ToSet(cut)) =>
          /\ Prefers(p, l[i]) => Prefers(p, l[j])
          /\ (Prefers(p, l[i]) <=> Prefers(p, l[j])) => j < i
    BY <1>0, <1>6
  <2> QED BY <2>1, <2>2, <2>3, <1>3 DEF KeepsMostWanted
<1> QED BY <1>8 DEF s

(* limit_bookmarks (template.rs) counts what it cuts off, and never cuts *)
(* off a bookmark that matches, or came earlier among its likes, to show *)
(* one that does not: for any list, pattern and count.                   *)
THEOREM LimitKeepsMostWanted ==
  ASSUME NEW l \in Seq(Words), NEW p, NEW count \in Nat,
         \A i, j \in DOMAIN l : i # j => l[i] # l[j]
  PROVE  KeepsMostWanted(l, p, count, limit_bookmarks(l, count, p))
<1> DEFINE f == CHOOSE g : TwoIs(g, p, l)
<1>1. TwoIs(f, p, l)
  BY TwoExists
<1>2. limit_bookmarks(l, count, p) = CutAt(f[DOMAIN l][1] \o f[DOMAIN l][2], count)
  BY LimitIs DEF CutAt
<1> HIDE DEF f
<1>3. PICK a : Arranged(f[DOMAIN l][1], f[DOMAIN l][2], a, l, p, Len(l))
  BY <1>1, AllArranged
<1> QED BY <1>2, <1>3, CutKeeps

(* Bounded words and lists are words and lists *)
LEMMA BoundedIsSeq ==
  ASSUME NEW S, NEW n \in Nat, NEW s \in BoundedSeq(S, n)
  PROVE  s \in Seq(S)
BY DEF BoundedSeq, SeqOf

(* The property, for every list, pattern and count *)
LEMMA MostWantedAreKept == CutsTheLeastWanted
<1>0. ListLength \in Nat /\ NameLength \in Nat /\ PatternLength \in Nat
  BY LengthsAssumption
<1> SUFFICES ASSUME NEW p \in Patterns, NEW l \in Lists, NEW count \in 0..ListLength
             PROVE  LET Wanted == {n \in Words : p # <<>> /\ Describes(p, n)}
                        r == limit_bookmarks(l, count, p)
                        Shown(i) == l[i] \in ToSet(r.shown)
                    IN  /\ Len(r.shown) + r.more = Len(l)
                        /\ r.more > 0 => Len(r.shown) = count
                        /\ \A i, j \in DOMAIN l : Shown(j) /\ ~Shown(i) =>
                             /\ l[i] \in Wanted => l[j] \in Wanted
                             /\ (l[i] \in Wanted <=> l[j] \in Wanted) => j < i
  BY DEF CutsTheLeastWanted
<1>1. p \in Seq(Letter) /\ l \in Seq(Words) /\ count \in Nat
  BY <1>0, BoundedIsSeq DEF Patterns, Lists, Letter
<1>2. \A i, j \in DOMAIN l : i # j => l[i] # l[j]
  BY DEF Lists
<1>3. ASSUME NEW n \in Words
      PROVE  n \in {m \in Words : p # <<>> /\ Describes(p, m)} <=> Prefers(p, n)
  <2>1. n \in Seq(Letters)
    BY <1>0, BoundedIsSeq DEF Words
  <2>2. glob_match(p, n) <=> Describes(p, n)
    BY <2>1, <1>1, GlobMatchesWhatIsMeant
  <2> QED BY <2>2 DEF Prefers
<1>4. KeepsMostWanted(l, p, count, limit_bookmarks(l, count, p))
  BY <1>1, <1>2, LimitKeepsMostWanted
<1>5. \A i \in DOMAIN l : l[i] \in Words
  BY <1>1
<1> DEFINE W == {n \in Words : p # <<>> /\ Describes(p, n)}
           r == limit_bookmarks(l, count, p)
<1>6. \A i \in DOMAIN l : l[i] \in W <=> Prefers(p, l[i])
  BY <1>3, <1>5
<1> HIDE DEF W, r
<1>7. /\ Len(r.shown) + r.more = Len(l)
      /\ r.more > 0 => Len(r.shown) = count
      /\ \A i, j \in DOMAIN l : l[j] \in ToSet(r.shown) /\ ~(l[i] \in ToSet(r.shown)) =>
           /\ l[i] \in W => l[j] \in W
           /\ (l[i] \in W <=> l[j] \in W) => j < i
  BY <1>4, <1>6 DEF KeepsMostWanted, r
<1> QED BY <1>7 DEF W, r

(* So the property the run checks on short words holds for words, *)
(* patterns and lists of any length.                              *)
THEOREM MostWantedAreShown == FindSpec => []ShownAreMostWanted
<1>1. ShownAreMostWanted
  BY MostWantedAreKept DEF ShownAreMostWanted
<1>2. ShownAreMostWanted'
  <2>1. CutsTheLeastWanted'
    BY MostWantedAreKept
  <2> QED BY <2>1 DEF ShownAreMostWanted
<1> QED BY <1>1, <1>2, PTL DEF FindSpec

=============================================================================
