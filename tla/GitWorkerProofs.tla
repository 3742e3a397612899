-------------------------- MODULE GitWorkerProofs --------------------------
(***************************************************************************)
(* Theorems about the git worker, for any files, contents and bound.       *)
(***************************************************************************)
EXTENDS GitWorker, SequenceTheorems, TLAPS

-----------------------------------------------------------------------------
(* What is left to do of a request follows one order, up to the reply.     *)
Steps == {"head", "unstaged", "staged", "total", "meta", "files unstaged", "files total", "reply"}

Follows(a, b) ==
  \/ a = "head" /\ b = "unstaged"
  \/ a = "unstaged" /\ b = "staged"
  \/ a \in {"staged", "total"} /\ b = "meta"
  \/ a = "meta" /\ b \in {"reply", "files unstaged"}
  \/ a = "files unstaged" /\ b = "files total"
  \/ a = "files total" /\ b = "reply"

Plan(t) ==
  /\ t \in Seq(Steps) /\ Len(t) > 0 /\ t[Len(t)] = "reply"
  /\ \A i \in 1 .. Len(t) - 1 : Follows(t[i], t[i + 1])

(* Of a plan, something is left after any step but the reply.              *)
LEMMA PlanTail ==
  ASSUME NEW t, Plan(t), t[1] # "reply"
  PROVE  Plan(Tail(t)) /\ Tail(t) # <<>> /\ Follows(t[1], Tail(t)[1]) /\ Tail(t)[1] = t[2]
<1> DEFINE u == Tail(t)
<1>1. t \in Seq(Steps) /\ Len(t) \in Nat /\ Len(t) > 1
  BY DEF Plan
<1>2. /\ u \in Seq(Steps) /\ Len(u) = Len(t) - 1
      /\ \A i \in 1 .. Len(t) - 1 : u[i] = t[i + 1]
      /\ u # <<>>
  <2>1. /\ u \in Seq(Steps) /\ Len(u) = Len(t) - 1
        /\ \A i \in 1 .. Len(t) - 1 : u[i] = t[i + 1]
    BY <1>1
  <2> HIDE DEF u
  <2>2. u # <<>>
    BY <1>1, <2>1
  <2> QED BY <2>1, <2>2
<1> HIDE DEF u
<1>3. u[Len(u)] = "reply" /\ u[1] = t[2]
  BY <1>1, <1>2 DEF Plan
<1>4. ASSUME NEW i \in 1 .. Len(u) - 1 PROVE Follows(u[i], u[i + 1])
  <2>1. i + 1 \in 1 .. Len(t) - 1 /\ i \in 1 .. Len(t) - 1 /\ i + 1 + 1 = (i + 1) + 1
    BY <1>1, <1>2
  <2>2. Follows(t[i + 1], t[(i + 1) + 1])
    BY <2>1 DEF Plan
  <2>3. u[i] = t[i + 1] /\ u[i + 1] = t[(i + 1) + 1]
    BY <1>2, <2>1
  <2> QED BY <2>2, <2>3
<1>5. Follows(t[1], u[1])
  BY <1>1, <1>3 DEF Plan
<1>6. Plan(u)
  BY <1>1, <1>2, <1>3, <1>4 DEF Plan
<1> QED BY <1>2, <1>3, <1>5, <1>6 DEF u

(* A step before a plan makes a plan. *)
LEMMA PlanBefore ==
  ASSUME NEW t, Plan(t), NEW a \in Steps, Follows(a, t[1])
  PROVE  Plan(<<a>> \o t) /\ (<<a>> \o t)[1] = a /\ (<<a>> \o t)[2] = t[1] /\ <<a>> \o t # <<>>
<1> DEFINE u == <<a>> \o t
<1>1. t \in Seq(Steps) /\ Len(t) \in Nat /\ Len(t) > 0 /\ <<a>> \in Seq(Steps) /\ Len(<<a>>) = 1
  BY DEF Plan
<1>2. /\ u \in Seq(Steps) /\ Len(u) = Len(t) + 1
      /\ u[1] = a /\ \A i \in 1 .. Len(t) : u[i + 1] = t[i]
  BY <1>1
<1> HIDE DEF u
<1>3. u[Len(u)] = "reply" /\ u[2] = t[1] /\ u # <<>>
  BY <1>1, <1>2 DEF Plan
<1>4. ASSUME NEW i \in 1 .. Len(u) - 1 PROVE Follows(u[i], u[i + 1])
  <2>1. CASE i = 1
    BY <1>2, <1>3, <2>1
  <2>2. CASE i # 1
    <3>1. i - 1 \in 1 .. Len(t) - 1 /\ i - 1 \in 1 .. Len(t) /\ (i - 1) + 1 \in 1 .. Len(t)
      BY <1>1, <1>2, <2>2
    <3>2. Follows(t[i - 1], t[(i - 1) + 1])
      BY <3>1 DEF Plan
    <3>3. u[(i - 1) + 1] = t[i - 1] /\ u[((i - 1) + 1) + 1] = t[(i - 1) + 1]
      BY <1>2, <3>1
    <3>4. (i - 1) + 1 = i
      OBVIOUS
    <3> QED BY <3>2, <3>3, <3>4
  <2> QED BY <2>1, <2>2
<1>5. Plan(u)
  BY <1>1, <1>2, <1>3, <1>4 DEF Plan
<1> QED BY <1>2, <1>3, <1>5 DEF u

(* The plans there are *)
LEMMA ReplyPlan == Plan(<<"reply">>) /\ <<"reply">>[1] = "reply"
<1>1. <<"reply">> \in Seq(Steps) /\ Len(<<"reply">>) = 1 /\ <<"reply">>[1] = "reply"
  BY DEF Steps
<1> QED BY <1>1 DEF Plan

(* An incremental refresh follows the order. *)
LEMMA FilesPlan == Plan(FilesRefresh) /\ FilesRefresh[1] = "files unstaged"
<1> DEFINE t == FilesRefresh
<1>1. t \in Seq(Steps) /\ t[1] = "files unstaged" /\ t[2] = "files total" /\ t[3] = "reply"
  BY DEF FilesRefresh, Steps
<1>2. Len(t) = 3
  BY DEF FilesRefresh
<1> HIDE DEF t
<1>3. Follows(t[1], t[2]) /\ Follows(t[2], t[3])
  BY <1>1 DEF Follows
<1>4. ASSUME NEW i \in 1 .. Len(t) - 1 PROVE Follows(t[i], t[i + 1])
  <2>1. \/ i = 1 /\ i + 1 = 2
        \/ i = 2 /\ i + 1 = 3
    BY <1>2
  <2> QED BY <1>3, <2>1
<1>5. Len(t) > 0
  BY <1>2
<1>6. Plan(t)
  BY <1>1, <1>2, <1>4, <1>5 DEF Plan
<1> QED BY <1>1, <1>6 DEF t

(* So does a full refresh. *)
LEMMA FullPlan == Plan(FullRefresh) /\ FullRefresh[1] = "head"
<1> DEFINE t == FullRefresh
<1>1. t \in Seq(Steps) /\ Len(t) = 5 /\ t[1] = "head" /\ t[2] = "unstaged" /\ t[3] = "staged" /\ t[4] = "meta" /\ t[5] = "reply"
  BY DEF FullRefresh, Steps
<1> HIDE DEF t
<1>2. Follows(t[1], t[2]) /\ Follows(t[2], t[3]) /\ Follows(t[3], t[4]) /\ Follows(t[4], t[5])
  BY <1>1 DEF Follows
<1>3. ASSUME NEW i \in 1 .. Len(t) - 1 PROVE Follows(t[i], t[i + 1])
  <2>1. \/ i = 1 /\ i + 1 = 2
        \/ i = 2 /\ i + 1 = 3
        \/ i = 3 /\ i + 1 = 4
        \/ i = 4 /\ i + 1 = 5
    BY <1>1
  <2> QED BY <1>2, <2>1
<1>4. Plan(t)
  BY <1>1, <1>3 DEF Plan
<1> QED BY <1>1, <1>4 DEF t

(* A validated request refreshes what its hint is about, then its files.   *)
LEMMA ValidatedPlan ==
  ASSUME NEW h, NEW t, Plan(t), Follows("meta", t[1])
  PROVE  LET u == StepsFor(h) \o t
         IN  /\ Plan(u) /\ u # <<>>
             /\ h = IndexChanged => u[1] = "unstaged"
             /\ h # IndexChanged => u[1] = "meta" /\ u[2] = t[1]
<1>1. Plan(<<"meta">> \o t) /\ (<<"meta">> \o t)[1] = "meta" /\ (<<"meta">> \o t)[2] = t[1] /\ <<"meta">> \o t # <<>>
  BY PlanBefore DEF Steps
<1> DEFINE p == <<"unstaged", "staged", "meta">>
           u == p \o t
<1>2. t \in Seq(Steps) /\ Len(t) \in Nat /\ Len(t) > 0 /\ t[Len(t)] = "reply"
  BY DEF Plan
<1>3. p \in Seq(Steps)
  BY DEF Steps
<1>4. Len(p) = 3
  OBVIOUS
<1>5. p[1] = "unstaged" /\ p[2] = "staged" /\ p[3] = "meta"
  OBVIOUS
<1> HIDE DEF p
<1>6. /\ u \in Seq(Steps) /\ Len(u) = 3 + Len(t)
      /\ \A i \in 1 .. 3 : u[i] = p[i]
  <2>1. /\ p \o t \in Seq(Steps) /\ Len(p \o t) = Len(p) + Len(t)
        /\ \A i \in 1 .. Len(p) + Len(t) : (p \o t)[i] = IF i <= Len(p) THEN p[i] ELSE t[i - Len(p)]
    BY <1>2, <1>3, ConcatProperties
  <2>2. \A i \in 1 .. 3 : i \in 1 .. Len(p) + Len(t) /\ i <= Len(p)
    BY <1>2, <1>4
  <2> QED BY <1>4, <2>1, <2>2
<1>7. u[1] = p[1] /\ u[2] = p[2] /\ u[3] = p[3]
  BY <1>6
<1>8. ASSUME NEW j \in 1 .. Len(t) PROVE u[3 + j] = t[j]
  <2>1. 3 + j \in 1 .. Len(p) + Len(t) /\ ~(3 + j <= Len(p)) /\ (3 + j) - Len(p) = j
    BY <1>2, <1>4
  <2> QED BY <1>2, <1>3, <2>1, ConcatProperties
<1> HIDE DEF u
<1>9. u[4] = t[1] /\ u[Len(u)] = "reply" /\ u # <<>>
  BY <1>2, <1>6, <1>8
<1>10. ASSUME NEW i \in 1 .. Len(u) - 1 PROVE Follows(u[i], u[i + 1])
  <2>1. CASE i <= 3
    <3>1. Follows(u[1], u[2]) /\ Follows(u[2], u[3]) /\ Follows(u[3], u[4])
      BY <1>5, <1>7, <1>9 DEF Follows
    <3>2. \/ i = 1 /\ i + 1 = 2
          \/ i = 2 /\ i + 1 = 3
          \/ i = 3 /\ i + 1 = 4
      BY <1>6, <2>1
    <3> QED BY <3>1, <3>2
  <2>2. CASE ~(i <= 3)
    <3> DEFINE j == i - 3
    <3>1. j \in 1 .. Len(t) - 1 /\ j \in 1 .. Len(t) /\ j + 1 \in 1 .. Len(t) /\ i = 3 + j /\ i + 1 = 3 + (j + 1)
      BY <1>2, <1>6, <2>2
    <3> HIDE DEF j
    <3>2. Follows(t[j], t[j + 1])
      BY <3>1 DEF Plan
    <3> QED BY <1>8, <3>1, <3>2
  <2> QED BY <2>1, <2>2
<1>11. Plan(u)
  BY <1>2, <1>6, <1>9, <1>10 DEF Plan
<1>12. CASE h = IndexChanged
  BY <1>5, <1>7, <1>9, <1>11, <1>12 DEF StepsFor, u, p
<1>13. CASE h # IndexChanged
  BY <1>1, <1>13 DEF StepsFor
<1> QED BY <1>12, <1>13

-----------------------------------------------------------------------------
(* The invariant.  What is so in the repository, and may be refreshed: *)
Now == [head |-> head, index |-> index, workdir |-> workdir, meta |-> meta, masked |-> masked]

(* A part of a status is right of the repository n, or the reports o say   *)
(* that it may not be.  The diffs may also be off for files about to be    *)
(* diffed (S); index writes that a stronger hint hid spoil them.           *)
RightHead(n, v, o) == v.head = n.head \/ o.hint = HeadMayHaveChanged \/ o.rescan = TRUE

RightMeta(n, v, o) == v.head # {} => v.meta = n.meta \/ o.hint # 0 \/ o.rescan = TRUE

RightStaged(n, v, o) ==
  n.masked = FALSE /\ v.head # {} => v.staged = Delta(TreeOf(v.head), n.index) \/ o.index = TRUE

Doubted(o, f) == f \in o.paths \/ o.index = TRUE \/ o.rescan = TRUE

RightUnstaged(n, d, h, o, S) ==
  n.masked = FALSE /\ h # {} =>
    \A f \in Files \ S : d[f] = Delta(n.index, n.workdir)[f] \/ Doubted(o, f)

RightTotal(n, d, h, o, S) ==
  n.masked = FALSE /\ h # {} =>
    \A f \in Files \ S : d[f] = Delta(TreeOf(h), n.workdir)[f] \/ Doubted(o, f)

RightDiffs(n, v, o, U, T) ==
  /\ RightStaged(n, v, o)
  /\ RightUnstaged(n, v.unstaged, v.head, o, U)
  /\ RightTotal(n, v.total, v.head, o, T)

Right(n, v, o) == RightHead(n, v, o) /\ RightMeta(n, v, o) /\ RightDiffs(n, v, o, {}, {})

Tree    == [Files -> Contents]
Pending == [paths : SUBSET Files, hint : 0 .. 3, rescan : BOOLEAN, index : BOOLEAN]

IsState(s) ==
  s = [head |-> s.head, commit |-> s.commit, meta |-> s.meta, staged |-> s.staged,
       base_unstaged |-> s.base_unstaged, base_total |-> s.base_total,
       unstaged_overlay |-> s.unstaged_overlay, total_overlay |-> s.total_overlay]

OnFiles(d) == d = [f \in Files |-> d[f]]

Typed ==
  /\ workdir \in Tree /\ pending \in Pending /\ request \in Pending
  /\ lost \in BOOLEAN /\ masked \in BOOLEAN
  /\ IsState(draft) /\ \A s \in retained : IsState(s)
  /\ \A s \in status : OnFiles(s.unstaged) /\ OnFiles(s.total)

(* An index write is never reported under a weaker hint. *)
IndexHinted(p) == p.index = TRUE => p.hint \in {IndexChanged, HeadMayHaveChanged} \/ p.rescan = TRUE

At(name) == todo # <<>> /\ todo[1] = name

(* A request that has not been begun: what is kept answers for it. *)
Whole == todo = <<>> \/ At("validate") \/ At("head")

Requests ==
  /\ todo = <<>> \/ todo = <<"validate">> \/ Plan(todo)
  /\ todo = <<>> => request = Nothing
  /\ At("validate") => request.rescan = FALSE /\ request.hint # 0 /\ draft \in retained
  /\ IndexHinted(pending) /\ IndexHinted(request)

(* What is kept is right but for what is reported or being answered... *)
Kept ==
  lost = FALSE /\ Whole =>
    \A s \in retained : Right(Now, current_status(s), Merge(pending, request))

(* ... what is shown is right but for what is reported ... *)
ShownRight ==
  lost = FALSE /\ todo = <<>> /\ stale = FALSE => \A s \in status : Right(Now, s, pending)

(* ... and so is what has been read of the state in the making. *)
FilesLeft == IF todo[2] = "files unstaged" THEN request.paths ELSE {}

DraftRight ==
  lost = FALSE =>
    /\ ~Whole => RightHead(Now, draft, pending)
    /\ At("staged") \/ At("total") =>
         RightUnstaged(Now, draft.base_unstaged, draft.head, pending, {})
    /\ At("total") => RightStaged(Now, draft, pending)
    /\ At("meta") => RightDiffs(Now, current_status(draft), pending, FilesLeft, FilesLeft)
    /\ At("files unstaged") =>
         /\ RightMeta(Now, draft, pending)
         /\ RightDiffs(Now, current_status(draft), pending, request.paths, request.paths)
    /\ At("files total") =>
         /\ RightMeta(Now, draft, pending)
         /\ RightDiffs(Now, current_status(draft), pending, {}, request.paths)
    /\ At("reply") =>
         /\ RightMeta(Now, draft, pending)
         /\ RightDiffs(Now, current_status(draft), pending, {}, {})

IInv == Typed /\ Requests /\ Kept /\ ShownRight /\ DraftRight

-----------------------------------------------------------------------------
(* Whatever changed from n to n2 is among the reports, and nothing that    *)
(* was reported is forgotten.                                              *)
Told(n, o, n2, o2) ==
  /\ n2.masked = FALSE => n.masked = FALSE
  /\ o.rescan = TRUE => o2.rescan = TRUE
  /\ o.index = TRUE => o2.index = TRUE
  /\ o.hint = HeadMayHaveChanged => o2.hint = HeadMayHaveChanged
  /\ o.hint # 0 => o2.hint # 0
  /\ o.paths \subseteq o2.paths
  /\ n2.head = n.head \/ o2.hint = HeadMayHaveChanged \/ o2.rescan = TRUE
  /\ n2.meta = n.meta \/ o2.hint # 0 \/ o2.rescan = TRUE
  /\ n2.index = n.index \/ o2.index = TRUE
  /\ \A f \in Files : n2.workdir[f] = n.workdir[f] \/ f \in o2.paths \/ o2.rescan = TRUE

(* What was right stays right but for what was told. *)
LEMMA StaysRight ==
  ASSUME NEW n, NEW o, NEW n2, NEW o2, Told(n, o, n2, o2), NEW v, NEW d, NEW h, NEW S, NEW U, NEW T
  PROVE  /\ RightHead(n, v, o) => RightHead(n2, v, o2)
         /\ RightMeta(n, v, o) => RightMeta(n2, v, o2)
         /\ RightStaged(n, v, o) => RightStaged(n2, v, o2)
         /\ RightUnstaged(n, d, h, o, S) => RightUnstaged(n2, d, h, o2, S)
         /\ RightDiffs(n, v, o, U, T) => RightDiffs(n2, v, o2, U, T)
         /\ Right(n, v, o) => Right(n2, v, o2)
<1>1. RightHead(n, v, o) => RightHead(n2, v, o2)
  BY DEF Told, RightHead
<1>2. RightMeta(n, v, o) => RightMeta(n2, v, o2)
  BY DEF Told, RightMeta
<1>3. RightStaged(n, v, o) => RightStaged(n2, v, o2)
  BY DEF Told, RightStaged
<1>4. ASSUME NEW e, NEW g, NEW V, RightUnstaged(n, e, g, o, V)
      PROVE  RightUnstaged(n2, e, g, o2, V)
  <2>1. SUFFICES ASSUME n2.masked = FALSE, g # {}, NEW f \in Files \ V
                 PROVE  e[f] = Delta(n2.index, n2.workdir)[f] \/ Doubted(o2, f)
    BY DEF RightUnstaged
  <2>2. e[f] = Delta(n.index, n.workdir)[f] \/ Doubted(o, f)
    BY <1>4, <2>1 DEF RightUnstaged, Told
  <2>3. CASE Doubted(o, f)
    BY <2>3 DEF Doubted, Told
  <2>4. CASE e[f] = Delta(n.index, n.workdir)[f] /\ ~Doubted(o2, f)
    <3>1. n2.index = n.index /\ n2.workdir[f] = n.workdir[f]
      BY <2>4 DEF Doubted, Told
    <3> QED BY <2>4, <3>1 DEF Delta
  <2> QED BY <2>2, <2>3, <2>4
<1>5. ASSUME NEW e, NEW g, NEW V, RightTotal(n, e, g, o, V)
      PROVE  RightTotal(n2, e, g, o2, V)
  <2>1. SUFFICES ASSUME n2.masked = FALSE, g # {}, NEW f \in Files \ V
                 PROVE  e[f] = Delta(TreeOf(g), n2.workdir)[f] \/ Doubted(o2, f)
    BY DEF RightTotal
  <2>2. e[f] = Delta(TreeOf(g), n.workdir)[f] \/ Doubted(o, f)
    BY <1>5, <2>1 DEF RightTotal, Told
  <2>3. CASE Doubted(o, f)
    BY <2>3 DEF Doubted, Told
  <2>4. CASE e[f] = Delta(TreeOf(g), n.workdir)[f] /\ ~Doubted(o2, f)
    <3>1. n2.workdir[f] = n.workdir[f]
      BY <2>4 DEF Doubted, Told
    <3> QED BY <2>4, <3>1 DEF Delta
  <2> QED BY <2>2, <2>3, <2>4
<1>6. \A W, X : RightDiffs(n, v, o, W, X) => RightDiffs(n2, v, o2, W, X)
  BY <1>3, <1>4, <1>5 DEF RightDiffs
<1> QED BY <1>1, <1>2, <1>3, <1>4, <1>6 DEF Right

(* Reports merge: nothing of either is forgotten. *)
LEMMA MergeIs ==
  ASSUME NEW p \in Pending, NEW q \in Pending
  PROVE  LET m == Merge(p, q)
         IN  /\ m \in Pending
             /\ m.paths = p.paths \cup q.paths
             /\ m.rescan = TRUE <=> p.rescan = TRUE \/ q.rescan = TRUE
             /\ m.index = TRUE <=> p.index = TRUE \/ q.index = TRUE
             /\ m.hint = HeadMayHaveChanged <=> p.hint = HeadMayHaveChanged \/ q.hint = HeadMayHaveChanged
             /\ m.hint = 0 <=> p.hint = 0 /\ q.hint = 0
             /\ IndexHinted(p) /\ IndexHinted(q) => IndexHinted(m)
<1> DEFINE m == Merge(p, q)
<1>1. /\ p.paths \in SUBSET Files /\ q.paths \in SUBSET Files
      /\ p.hint \in 0 .. 3 /\ q.hint \in 0 .. 3
      /\ p.rescan \in BOOLEAN /\ q.rescan \in BOOLEAN
      /\ p.index \in BOOLEAN /\ q.index \in BOOLEAN
  BY DEF Pending
<1>2. /\ m.paths = p.paths \cup q.paths
      /\ m.hint = IF p.hint < q.hint THEN q.hint ELSE p.hint
      /\ m.rescan = (p.rescan \/ q.rescan)
      /\ m.index = (p.index \/ q.index)
      /\ m = [paths |-> m.paths, hint |-> m.hint, rescan |-> m.rescan, index |-> m.index]
  BY DEF Merge
<1> HIDE DEF m
<1>3. /\ m.hint \in {p.hint, q.hint} /\ m.hint \in 0 .. 3
      /\ m.hint = HeadMayHaveChanged <=> p.hint = HeadMayHaveChanged \/ q.hint = HeadMayHaveChanged
      /\ m.hint = 0 <=> p.hint = 0 /\ q.hint = 0
      /\ p.hint \in {IndexChanged, HeadMayHaveChanged} => m.hint \in {IndexChanged, HeadMayHaveChanged}
      /\ q.hint \in {IndexChanged, HeadMayHaveChanged} => m.hint \in {IndexChanged, HeadMayHaveChanged}
  BY <1>1, <1>2 DEF HeadMayHaveChanged, IndexChanged
<1>4. /\ m.rescan \in BOOLEAN /\ m.index \in BOOLEAN
      /\ m.rescan = TRUE <=> p.rescan = TRUE \/ q.rescan = TRUE
      /\ m.index = TRUE <=> p.index = TRUE \/ q.index = TRUE
  BY <1>1, <1>2, Zenon
<1>5. m.paths \in SUBSET Files
  BY <1>1, <1>2
<1>6. m \in Pending
  BY <1>2, <1>3, <1>4, <1>5 DEF Pending
<1>7. IndexHinted(p) /\ IndexHinted(q) => IndexHinted(m)
  BY <1>3, <1>4 DEF IndexHinted
<1> QED BY <1>2, <1>3, <1>4, <1>6, <1>7 DEF m

(* What is told of one part of the reports is told of the whole. *)
LEMMA MergeTold ==
  ASSUME NEW n, NEW n2, NEW o \in Pending, NEW o2 \in Pending, Told(n, o, n2, o2),
         NEW q \in Pending
  PROVE  Told(n, Merge(o, q), n2, Merge(o2, q))
<1> DEFINE m == Merge(o, q)
           m2 == Merge(o2, q)
<1>1. /\ m.paths = o.paths \cup q.paths
      /\ m.rescan = TRUE <=> o.rescan = TRUE \/ q.rescan = TRUE
      /\ m.index = TRUE <=> o.index = TRUE \/ q.index = TRUE
      /\ m.hint = HeadMayHaveChanged <=> o.hint = HeadMayHaveChanged \/ q.hint = HeadMayHaveChanged
      /\ m.hint = 0 <=> o.hint = 0 /\ q.hint = 0
  BY MergeIs
<1>2. /\ m2.paths = o2.paths \cup q.paths
      /\ m2.rescan = TRUE <=> o2.rescan = TRUE \/ q.rescan = TRUE
      /\ m2.index = TRUE <=> o2.index = TRUE \/ q.index = TRUE
      /\ m2.hint = HeadMayHaveChanged <=> o2.hint = HeadMayHaveChanged \/ q.hint = HeadMayHaveChanged
      /\ m2.hint = 0 <=> o2.hint = 0 /\ q.hint = 0
  BY MergeIs
<1> HIDE DEF m, m2
<1>3. Told(n, m, n2, m2)
  BY <1>1, <1>2 DEF Told
<1> QED BY <1>3 DEF m, m2

(* Without a hint or a rescan, no index write is among the reports. *)
LEMMA NoIndexWrite ==
  ASSUME NEW p, IndexHinted(p), p.hint = 0, p.rescan # TRUE
  PROVE  p.index # TRUE
<1>1. p.hint \notin {IndexChanged, HeadMayHaveChanged}
  BY DEF IndexChanged, HeadMayHaveChanged
<1> QED BY <1>1 DEF IndexHinted

(* No report at all *)
LEMMA NothingType ==
  /\ Nothing \in Pending /\ IndexHinted(Nothing)
  /\ Nothing.paths = {} /\ Nothing.hint = 0 /\ Nothing.rescan = FALSE /\ Nothing.index = FALSE
<1>1. Nothing = [paths |-> {}, hint |-> 0, rescan |-> FALSE, index |-> FALSE]
  <2>1. (0 = IndexChanged) = FALSE
    BY DEF IndexChanged
  <2>2. Nothing = [paths |-> {}, hint |-> 0, rescan |-> FALSE, index |-> (0 = IndexChanged)]
    BY DEF Nothing, Report
  <2> QED BY <2>1, <2>2, Zenon
<1>2. Nothing.paths = {} /\ Nothing.hint = 0 /\ Nothing.rescan = FALSE /\ Nothing.index = FALSE
  BY <1>1
<1>3. Nothing \in Pending
  BY <1>1 DEF Pending
<1> QED BY <1>2, <1>3 DEF IndexHinted

(* Merging with nothing changes no report. *)
LEMMA NothingMerged ==
  ASSUME NEW p \in Pending
  PROVE  LET m == Merge(Nothing, p)
         IN  /\ m.paths = p.paths
             /\ m.rescan = TRUE <=> p.rescan = TRUE
             /\ m.index = TRUE <=> p.index = TRUE
             /\ m.hint = 0 <=> p.hint = 0
<1> DEFINE m == Merge(Nothing, p)
<1>1. /\ m.paths = Nothing.paths \cup p.paths
      /\ m.rescan = TRUE <=> Nothing.rescan = TRUE \/ p.rescan = TRUE
      /\ m.index = TRUE <=> Nothing.index = TRUE \/ p.index = TRUE
      /\ m.hint = 0 <=> Nothing.hint = 0 /\ p.hint = 0
  BY MergeIs, NothingType
<1> HIDE DEF m
<1>2. /\ m.paths = p.paths
      /\ m.rescan = TRUE <=> p.rescan = TRUE
      /\ m.index = TRUE <=> p.index = TRUE
      /\ m.hint = 0 <=> p.hint = 0
  BY <1>1, NothingType
<1> QED BY <1>2 DEF m

(* The two ways to hold a report: taken, or still pending. *)
LEMMA TakenTold ==
  ASSUME NEW n, NEW p \in Pending
  PROVE  /\ Told(n, p, n, p)
         /\ Told(n, Merge(p, Nothing), n, Merge(Nothing, p))
         /\ Told(n, Merge(p, Nothing), n, p)
         /\ Told(n, p, n, Merge(p, Nothing))
<1>1. Told(n, p, n, p)
  BY DEF Told
<1> DEFINE m == Merge(p, Nothing)
           m2 == Merge(Nothing, p)
<1>2. /\ m.paths = p.paths
      /\ m.rescan = TRUE <=> p.rescan = TRUE
      /\ m.index = TRUE <=> p.index = TRUE
      /\ m.hint = HeadMayHaveChanged <=> p.hint = HeadMayHaveChanged
      /\ m.hint = 0 <=> p.hint = 0
  <2>1. /\ m.paths = p.paths \cup Nothing.paths
        /\ m.rescan = TRUE <=> p.rescan = TRUE \/ Nothing.rescan = TRUE
        /\ m.index = TRUE <=> p.index = TRUE \/ Nothing.index = TRUE
        /\ m.hint = HeadMayHaveChanged <=> p.hint = HeadMayHaveChanged \/ Nothing.hint = HeadMayHaveChanged
        /\ m.hint = 0 <=> p.hint = 0 /\ Nothing.hint = 0
    BY MergeIs, NothingType
  <2> HIDE DEF m, m2
  <2> QED BY <2>1, NothingType DEF HeadMayHaveChanged
<1>3. /\ m2.paths = p.paths
      /\ m2.rescan = TRUE <=> p.rescan = TRUE
      /\ m2.index = TRUE <=> p.index = TRUE
      /\ m2.hint = HeadMayHaveChanged <=> p.hint = HeadMayHaveChanged
      /\ m2.hint = 0 <=> p.hint = 0
  <2>1. /\ m2.paths = Nothing.paths \cup p.paths
        /\ m2.rescan = TRUE <=> Nothing.rescan = TRUE \/ p.rescan = TRUE
        /\ m2.index = TRUE <=> Nothing.index = TRUE \/ p.index = TRUE
        /\ m2.hint = HeadMayHaveChanged <=> Nothing.hint = HeadMayHaveChanged \/ p.hint = HeadMayHaveChanged
        /\ m2.hint = 0 <=> Nothing.hint = 0 /\ p.hint = 0
    BY MergeIs, NothingType
  <2> HIDE DEF m, m2
  <2> QED BY <2>1, NothingType DEF HeadMayHaveChanged
<1> HIDE DEF m, m2
<1>4. Told(n, m, n, m2) /\ Told(n, m, n, p) /\ Told(n, p, n, m)
  BY <1>2, <1>3 DEF Told
<1> QED BY <1>1, <1>4 DEF m, m2

-----------------------------------------------------------------------------
(* Records: a step changes one field of the state in the making. *)
LEMMA StateFields ==
  ASSUME NEW s, IsState(s), NEW d
  PROVE  /\ [s EXCEPT !.meta = d] =
              [head |-> s.head, commit |-> s.commit, meta |-> d, staged |-> s.staged,
               base_unstaged |-> s.base_unstaged, base_total |-> s.base_total,
               unstaged_overlay |-> s.unstaged_overlay, total_overlay |-> s.total_overlay]
         /\ [s EXCEPT !.staged = d] =
              [head |-> s.head, commit |-> s.commit, meta |-> s.meta, staged |-> d,
               base_unstaged |-> s.base_unstaged, base_total |-> s.base_total,
               unstaged_overlay |-> s.unstaged_overlay, total_overlay |-> s.total_overlay]
         /\ [s EXCEPT !.base_unstaged = d] =
              [head |-> s.head, commit |-> s.commit, meta |-> s.meta, staged |-> s.staged,
               base_unstaged |-> d, base_total |-> s.base_total,
               unstaged_overlay |-> s.unstaged_overlay, total_overlay |-> s.total_overlay]
         /\ [s EXCEPT !.unstaged_overlay = d] =
              [head |-> s.head, commit |-> s.commit, meta |-> s.meta, staged |-> s.staged,
               base_unstaged |-> s.base_unstaged, base_total |-> s.base_total,
               unstaged_overlay |-> d, total_overlay |-> s.total_overlay]
         /\ [s EXCEPT !.total_overlay = d] =
              [head |-> s.head, commit |-> s.commit, meta |-> s.meta, staged |-> s.staged,
               base_unstaged |-> s.base_unstaged, base_total |-> s.base_total,
               unstaged_overlay |-> s.unstaged_overlay, total_overlay |-> d]
         /\ [s EXCEPT !.base_total = d] =
              [head |-> s.head, commit |-> s.commit, meta |-> s.meta, staged |-> s.staged,
               base_unstaged |-> s.base_unstaged, base_total |-> d,
               unstaged_overlay |-> s.unstaged_overlay, total_overlay |-> s.total_overlay]
<1>1. s = [head |-> s.head, commit |-> s.commit, meta |-> s.meta, staged |-> s.staged,
           base_unstaged |-> s.base_unstaged, base_total |-> s.base_total,
           unstaged_overlay |-> s.unstaged_overlay, total_overlay |-> s.total_overlay]
  BY DEF IsState
<1> QED BY <1>1

(* With a total diff, the overlays are gone. *)
LEMMA WithTotalIs ==
  ASSUME NEW s, IsState(s), NEW d
  PROVE  WithTotal(s, d) =
           [head |-> s.head, commit |-> s.commit, meta |-> s.meta, staged |-> s.staged,
            base_unstaged |-> s.base_unstaged, base_total |-> d,
            unstaged_overlay |-> NoOverlay, total_overlay |-> NoOverlay]
<1> DEFINE a == [s EXCEPT !.base_total = d]
           b == [a EXCEPT !.unstaged_overlay = NoOverlay]
           c == [b EXCEPT !.total_overlay = NoOverlay]
<1>1. WithTotal(s, d) = c
  BY DEF WithTotal
<1>2. a = [head |-> s.head, commit |-> s.commit, meta |-> s.meta, staged |-> s.staged,
           base_unstaged |-> s.base_unstaged, base_total |-> d,
           unstaged_overlay |-> s.unstaged_overlay, total_overlay |-> s.total_overlay]
  BY StateFields
<1> HIDE DEF a
<1>3. IsState(a) /\ a.head = s.head /\ a.commit = s.commit /\ a.meta = s.meta /\ a.staged = s.staged
      /\ a.base_unstaged = s.base_unstaged /\ a.base_total = d /\ a.total_overlay = s.total_overlay
  BY <1>2 DEF IsState
<1>4. b = [head |-> s.head, commit |-> s.commit, meta |-> s.meta, staged |-> s.staged,
           base_unstaged |-> s.base_unstaged, base_total |-> d,
           unstaged_overlay |-> NoOverlay, total_overlay |-> s.total_overlay]
  <2>1. b = [head |-> a.head, commit |-> a.commit, meta |-> a.meta, staged |-> a.staged,
             base_unstaged |-> a.base_unstaged, base_total |-> a.base_total,
             unstaged_overlay |-> NoOverlay, total_overlay |-> a.total_overlay]
    BY <1>3, StateFields
  <2> HIDE DEF b
  <2> QED BY <1>3, <2>1
<1> HIDE DEF b
<1>5. IsState(b) /\ b.head = s.head /\ b.commit = s.commit /\ b.meta = s.meta /\ b.staged = s.staged
      /\ b.base_unstaged = s.base_unstaged /\ b.base_total = d /\ b.unstaged_overlay = NoOverlay
  BY <1>4 DEF IsState
<1>6. c = [head |-> s.head, commit |-> s.commit, meta |-> s.meta, staged |-> s.staged,
           base_unstaged |-> s.base_unstaged, base_total |-> d,
           unstaged_overlay |-> NoOverlay, total_overlay |-> NoOverlay]
  <2>1. c = [head |-> b.head, commit |-> b.commit, meta |-> b.meta, staged |-> b.staged,
             base_unstaged |-> b.base_unstaged, base_total |-> b.base_total,
             unstaged_overlay |-> b.unstaged_overlay, total_overlay |-> NoOverlay]
    BY <1>5, StateFields
  <2> HIDE DEF c
  <2> QED BY <1>5, <2>1
<1> QED BY <1>1, <1>6

(* What a state answers *)
LEMMA StatusIs ==
  ASSUME NEW s
  PROVE  LET v == current_status(s)
         IN  /\ v.head = s.head /\ v.meta = s.meta /\ v.staged = s.staged
             /\ OnFiles(v.unstaged) /\ OnFiles(v.total)
             /\ \A f \in Files :
                  /\ v.unstaged[f] = IF f \in DOMAIN s.unstaged_overlay
                                       THEN s.unstaged_overlay[f] ELSE s.base_unstaged[f]
                  /\ v.total[f] = IF f \in DOMAIN s.total_overlay
                                    THEN s.total_overlay[f] ELSE s.base_total[f]
BY DEF current_status, Overlaid, OnFiles

(* What is so now, part by part *)
LEMMA NowIs ==
  /\ Now.head = head /\ Now.index = index /\ Now.workdir = workdir
  /\ Now.meta = meta /\ Now.masked = masked
BY DEF Now

-----------------------------------------------------------------------------
(* At first nothing is kept, and no report has been made. *)
LEMMA InitOk == Init => IInv
<1> SUFFICES ASSUME Init PROVE IInv
  OBVIOUS
<1>1. lost = FALSE /\ masked = FALSE /\ todo = <<>> /\ retained = {} /\ status = {} /\ pending = Nothing /\ request = Nothing /\ workdir = Empty /\ draft = Blank
  BY DEF Init
<1>2. Typed
  <2>1. Empty \in Tree
    BY ContentsAssumption DEF Empty, Tree
  <2>2. IsState(Blank)
    BY DEF Blank, IsState
  <2> QED BY <1>1, <2>1, <2>2, NothingType DEF Typed
<1>3. Requests /\ Kept /\ ShownRight /\ DraftRight
  BY <1>1, NothingType DEF Requests, Kept, ShownRight, DraftRight, At, Whole
<1> QED BY <1>2, <1>3 DEF IInv

(* A change that is told leaves all right. *)
LEMMA ToldStep ==
  ASSUME IInv, workdir' \in Tree, pending' \in Pending, IndexHinted(pending'),
         Told(Now, pending, Now', pending'), UNCHANGED <<retained, job, shown, history>>
  PROVE  IInv'
<1>1. /\ retained' = retained /\ todo' = todo /\ request' = request /\ draft' = draft
      /\ status' = status /\ stale' = stale /\ lost' = lost /\ masked' = masked
  BY DEF job, shown, history
<1>2. pending \in Pending /\ request \in Pending
  BY DEF IInv, Typed
<1>3. Typed'
  BY <1>1 DEF IInv, Typed
<1>4. Requests'
  BY <1>1 DEF IInv, Requests, At
<1>5. Kept'
  <2>1. Told(Now, Merge(pending, request), Now', Merge(pending', request'))
    BY <1>1, <1>2, MergeTold
  <2>2. SUFFICES ASSUME lost = FALSE, Whole, NEW s \in retained
                 PROVE  Right(Now', current_status(s), Merge(pending', request'))
    BY <1>1 DEF Kept, Whole, At
  <2>3. Right(Now, current_status(s), Merge(pending, request))
    BY <2>2 DEF IInv, Kept
  <2> QED BY <2>1, <2>3, StaysRight
<1>6. ShownRight'
  <2>1. SUFFICES ASSUME lost = FALSE, todo = <<>>, stale = FALSE, NEW s \in status
                 PROVE  Right(Now', s, pending')
    BY <1>1 DEF ShownRight
  <2>2. Right(Now, s, pending)
    BY <2>1 DEF IInv, ShownRight
  <2> QED BY <2>2, StaysRight
<1>7. DraftRight'
  <2> DEFINE n == Now
             n2 == Now'
             o == pending
             o2 == pending'
  <2>1. \A v, d, h, S, U, T :
          /\ RightHead(n, v, o) => RightHead(n2, v, o2)
          /\ RightMeta(n, v, o) => RightMeta(n2, v, o2)
          /\ RightStaged(n, v, o) => RightStaged(n2, v, o2)
          /\ RightUnstaged(n, d, h, o, S) => RightUnstaged(n2, d, h, o2, S)
          /\ RightDiffs(n, v, o, U, T) => RightDiffs(n2, v, o2, U, T)
    BY StaysRight
  <2>2. FilesLeft' = FilesLeft
    BY <1>1 DEF FilesLeft
  <2>3. DraftRight
    BY DEF IInv
  <2> QED BY <1>1, <2>1, <2>2, <2>3 DEF DraftRight, At, Whole
<1> QED BY <1>3, <1>4, <1>5, <1>6, <1>7 DEF IInv

-----------------------------------------------------------------------------
(* What a write adds to the reports: its own, or a rescan. *)
LEMMA ReportType ==
  ASSUME NEW S \in SUBSET Files, NEW h \in 0 .. 3
  PROVE  LET r == Report(S, h)
         IN  /\ r \in Pending /\ IndexHinted(r)
             /\ r.paths = S /\ r.hint = h /\ r.rescan = FALSE
             /\ r.index = TRUE <=> h = IndexChanged
<1> DEFINE i == (h = IndexChanged)
           r == Report(S, h)
<1>1. r = [paths |-> S, hint |-> h, rescan |-> FALSE, index |-> i]
  BY DEF Report
<1>2. i \in BOOLEAN /\ (i = TRUE <=> h = IndexChanged)
  OBVIOUS
<1> HIDE DEF i, r
<1>3. r.paths = S /\ r.hint = h /\ r.rescan = FALSE /\ r.index = i
  BY <1>1
<1>4. r \in Pending
  BY <1>1, <1>2 DEF Pending
<1>5. r.index = TRUE <=> h = IndexChanged
  BY <1>2, <1>3, Zenon
<1>6. IndexHinted(r)
  BY <1>3, <1>5 DEF IndexHinted
<1> QED BY <1>3, <1>4, <1>5, <1>6 DEF r

(* An overflow of the event queue is a rescan. *)
LEMMA OverflowType ==
  ASSUME NEW i \in BOOLEAN
  PROVE  LET r == Overflow(i)
         IN  r \in Pending /\ IndexHinted(r) /\ r.rescan = TRUE /\ r.index = i
BY DEF Overflow, Pending, IndexHinted

(* Reports o2 hold all of o, and the report r, if only as a rescan. *)
Adds(o, r, o2) ==
  /\ o2 \in Pending /\ IndexHinted(o2)
  /\ o.rescan = TRUE => o2.rescan = TRUE
  /\ o.index = TRUE => o2.index = TRUE
  /\ o.hint = HeadMayHaveChanged => o2.hint = HeadMayHaveChanged
  /\ o.hint # 0 => o2.hint # 0
  /\ o.paths \subseteq o2.paths
  /\ r.index = TRUE => o2.index = TRUE
  /\ \/ o2.rescan = TRUE
     \/ /\ r.paths \subseteq o2.paths
        /\ r.hint = HeadMayHaveChanged => o2.hint = HeadMayHaveChanged
        /\ r.hint # 0 => o2.hint # 0

(* A write adds its report, and leaves the worker alone. *)
LEMMA WriteReports ==
  ASSUME IInv, NEW r \in Pending, IndexHinted(r), Write(r)
  PROVE  Adds(pending, r, pending') /\ UNCHANGED <<retained, job, shown, history>>
<1>1. pending \in Pending /\ IndexHinted(pending)
  BY DEF IInv, Typed, Requests
<1>2. r.index \in BOOLEAN
  BY DEF Pending
<1>3. \A q \in Pending : IndexHinted(q) =>
        LET m == Merge(pending, q)
        IN  /\ m \in Pending /\ IndexHinted(m)
            /\ m.paths = pending.paths \cup q.paths
            /\ m.rescan = TRUE <=> pending.rescan = TRUE \/ q.rescan = TRUE
            /\ m.index = TRUE <=> pending.index = TRUE \/ q.index = TRUE
            /\ m.hint = HeadMayHaveChanged <=> pending.hint = HeadMayHaveChanged \/ q.hint = HeadMayHaveChanged
            /\ m.hint = 0 <=> pending.hint = 0 /\ q.hint = 0
  BY <1>1, MergeIs
<1>4. Adds(pending, r, Merge(pending, r))
  BY <1>1, <1>3 DEF Adds
<1>5. Adds(pending, r, Merge(pending, Overflow(r.index)))
  <2> DEFINE q == Overflow(r.index)
  <2>1. q \in Pending /\ IndexHinted(q) /\ q.rescan = TRUE /\ q.index = r.index
    BY <1>2, OverflowType
  <2> HIDE DEF q
  <2>2. Adds(pending, r, Merge(pending, q))
    BY <1>1, <1>3, <2>1 DEF Adds
  <2> QED BY <2>2 DEF q
<1> QED BY <1>4, <1>5 DEF Write

(* Each write is told by its report. *)
LEMMA WriteFileOk == ASSUME IInv, NEW f \in Files, WriteFile(f) PROVE IInv'
<1>1. PICK c \in Contents \ {workdir[f]} : workdir' = [workdir EXCEPT ![f] = c]
  BY DEF WriteFile
<1>2. workdir \in Tree
  BY DEF IInv, Typed
<1>3. workdir' \in Tree /\ \A g \in Files \ {f} : workdir'[g] = workdir[g]
  BY <1>1, <1>2 DEF Tree
<1>4. UNCHANGED <<head, index, commit, meta>> /\ Write(Report({f}, 0))
  BY DEF WriteFile
<1> DEFINE r == Report({f}, 0)
<1>5. r \in Pending /\ IndexHinted(r) /\ r.paths = {f}
  <2>1. {f} \in SUBSET Files /\ 0 \in 0 .. 3
    OBVIOUS
  <2> QED BY <2>1, ReportType
<1>6. Adds(pending, r, pending') /\ UNCHANGED <<retained, job, shown, history>>
  BY <1>4, <1>5, WriteReports
<1> HIDE DEF r
<1>7. f \in pending'.paths \/ pending'.rescan = TRUE
  BY <1>5, <1>6 DEF Adds
<1>8. Told(Now, pending, Now', pending')
  BY <1>3, <1>4, <1>6, <1>7, NowIs DEF Now, Told, Adds, history
<1> QED BY <1>3, <1>6, <1>8, ToldStep DEF Adds, history

(* A write of the index is told as IndexChanged. *)
LEMMA WriteIndexOk == ASSUME IInv, NEW f \in Files, WriteIndex(f) PROVE IInv'
<1>1. UNCHANGED <<head, workdir, commit, meta>> /\ Write(Report({}, IndexChanged))
  BY DEF WriteIndex
<1> DEFINE r == Report({}, IndexChanged)
<1>2. r \in Pending /\ IndexHinted(r) /\ r.index = TRUE
  <2>1. {} \in SUBSET Files /\ IndexChanged \in 0 .. 3
    BY DEF IndexChanged
  <2> QED BY <2>1, ReportType
<1>3. Adds(pending, r, pending') /\ UNCHANGED <<retained, job, shown, history>>
  BY <1>1, <1>2, WriteReports
<1> HIDE DEF r
<1>4. Told(Now, pending, Now', pending')
  BY <1>1, <1>2, <1>3 DEF Now, Told, Adds, history
<1>5. workdir' \in Tree
  BY <1>1 DEF IInv, Typed
<1> QED BY <1>3, <1>4, <1>5, ToldStep DEF Adds, history

(* A move of HEAD is told as HeadMayHaveChanged. *)
LEMMA MoveHeadOk == ASSUME IInv, MoveHead PROVE IInv'
<1>1. UNCHANGED <<index, workdir, meta>> /\ Write(Report({}, HeadMayHaveChanged))
  BY DEF MoveHead
<1> DEFINE r == Report({}, HeadMayHaveChanged)
<1>2. r \in Pending /\ IndexHinted(r) /\ r.hint = HeadMayHaveChanged
  <2>1. {} \in SUBSET Files /\ HeadMayHaveChanged \in 0 .. 3
    BY DEF HeadMayHaveChanged
  <2> QED BY <2>1, ReportType
<1>3. Adds(pending, r, pending') /\ UNCHANGED <<retained, job, shown, history>>
  BY <1>1, <1>2, WriteReports
<1> HIDE DEF r
<1>4. Told(Now, pending, Now', pending')
  BY <1>1, <1>2, <1>3 DEF Now, Told, Adds, history
<1>5. workdir' \in Tree
  BY <1>1 DEF IInv, Typed
<1> QED BY <1>3, <1>4, <1>5, ToldStep DEF Adds, history

(* A write of another ref is told by a hint. *)
LEMMA WriteRefOk == ASSUME IInv, WriteRef PROVE IInv'
<1>1. UNCHANGED <<head, index, workdir, commit>>
  BY DEF WriteRef
<1>2. PICK h \in {MetadataOnly, HeadMayHaveChanged} : Write(Report({}, h))
  BY DEF WriteRef
<1> DEFINE r == Report({}, h)
<1>3. h \in 0 .. 3 /\ h # 0
  BY DEF MetadataOnly, HeadMayHaveChanged
<1>4. r \in Pending /\ IndexHinted(r) /\ r.hint # 0
  BY <1>3, ReportType
<1>5. Adds(pending, r, pending') /\ UNCHANGED <<retained, job, shown, history>>
  BY <1>2, <1>4, WriteReports
<1> HIDE DEF r
<1>6. Told(Now, pending, Now', pending')
  BY <1>1, <1>4, <1>5 DEF Now, Told, Adds, history
<1>7. workdir' \in Tree
  BY <1>1 DEF IInv, Typed
<1> QED BY <1>5, <1>6, <1>7, ToldStep DEF Adds, history

-----------------------------------------------------------------------------
(* Requests.  RightHead and RightMeta do not tell a state from its answer. *)
LEMMA OfStatus ==
  ASSUME NEW n, NEW s, NEW o
  PROVE  /\ RightHead(n, current_status(s), o) <=> RightHead(n, s, o)
         /\ RightMeta(n, current_status(s), o) <=> RightMeta(n, s, o)
BY StatusIs DEF RightHead, RightMeta

(* Incremental requests start from what is kept. *)
LEMMA RequestIs ==
  ASSUME NEW p
  PROVE  \/ RequestFor(p) = FullRefresh
         \/ /\ RequestFor(p) = <<"validate">>
            /\ p.rescan # TRUE /\ p.hint # 0 /\ retained # {}
         \/ /\ RequestFor(p) = FilesRefresh
            /\ p.rescan # TRUE /\ p.hint = 0 /\ p.paths # {} /\ retained # {}
BY DEF RequestFor

(* What a request takes is either answered from scratch or still excused. *)
LEMMA TakeOk ==
  ASSUME IInv, NEW p, Take(p),
         \/ p = Nothing /\ pending' = pending
         \/ p = pending /\ pending' = Nothing
  PROVE  IInv'
<1>1. /\ todo = <<>> /\ request' = p /\ todo' = RequestFor(p)
      /\ draft' = IF retained = {} THEN Blank ELSE CHOOSE s \in retained : TRUE
      /\ retained' = retained /\ status' = status /\ stale' = stale
      /\ Now' = Now /\ lost' = lost /\ masked' = masked /\ workdir' = workdir
  BY DEF Take, repo, shown, history, Now
<1>2. /\ pending \in Pending /\ request = Nothing /\ p \in Pending
      /\ IndexHinted(pending) /\ IndexHinted(p) /\ pending' \in Pending /\ IndexHinted(pending')
  BY <1>1, NothingType DEF IInv, Typed, Requests
<1>3. retained # {} => draft' \in retained
  BY <1>1
<1>4. Typed'
  <2>1. IsState(draft')
    <3>1. IsState(Blank)
      BY DEF Blank, IsState
    <3> QED BY <1>1, <1>3, <3>1 DEF IInv, Typed
  <2> QED BY <1>1, <1>2, <2>1 DEF IInv, Typed
<1>5. \/ todo' = FullRefresh
      \/ todo' = <<"validate">> /\ p.rescan # TRUE /\ p.hint # 0 /\ retained # {}
      \/ todo' = FilesRefresh /\ p.rescan # TRUE /\ p.hint = 0 /\ p.paths # {} /\ retained # {}
  BY <1>1, RequestIs
<1>6. /\ Plan(FullRefresh) /\ FullRefresh[1] = "head" /\ FullRefresh # <<>>
      /\ Plan(FilesRefresh) /\ FilesRefresh[1] = "files unstaged" /\ FilesRefresh # <<>>
  <2>1. \A t : Plan(t) => t # <<>>
    BY DEF Plan
  <2> QED BY <2>1, FullPlan, FilesPlan
<1>7. <<"validate">> # <<>> /\ <<"validate">>[1] = "validate"
  OBVIOUS
<1>8. p.rescan # TRUE => p.rescan = FALSE
  BY <1>2 DEF Pending
<1>9. Requests'
  BY <1>1, <1>2, <1>3, <1>5, <1>6, <1>7, <1>8 DEF Requests, At
<1>10. Told(Now, Merge(pending, request), Now, Merge(pending', request'))
  <2>1. CASE p = Nothing /\ pending' = pending
    <3>1. Merge(pending, request) \in Pending
      BY <1>2, NothingType, MergeIs
    <3>2. Merge(pending', request') = Merge(pending, request)
      BY <1>1, <1>2, <2>1
    <3> QED BY <3>1, <3>2, TakenTold
  <2>2. CASE p = pending /\ pending' = Nothing
    <3>1. Merge(pending', request') = Merge(Nothing, pending) /\ Merge(pending, request) = Merge(pending, Nothing)
      BY <1>1, <1>2, <2>2
    <3> QED BY <1>2, <3>1, TakenTold
  <2> QED BY <2>1, <2>2
<1>11. \A s \in retained : lost = FALSE => Right(Now, current_status(s), Merge(pending', request'))
  <2>1. \A s \in retained : lost = FALSE => Right(Now, current_status(s), Merge(pending, request))
    BY <1>1 DEF IInv, Kept, Whole
  <2> QED BY <1>10, <2>1, StaysRight
<1>12. Kept'
  BY <1>1, <1>11 DEF Kept
<1>13. ShownRight'
  BY <1>1, <1>5, <1>6, <1>7 DEF ShownRight
<1>14. DraftRight'
  <2>1. CASE todo' = FullRefresh \/ todo' = <<"validate">>
    BY <1>6, <1>7, <2>1 DEF DraftRight, At, Whole
  <2>2. CASE todo' = FilesRefresh /\ p.rescan # TRUE /\ p.hint = 0 /\ p.paths # {} /\ retained # {}
    <3> DEFINE v == current_status(draft')
               m == Merge(pending', request')
    <3>1. At("files unstaged")' /\ ~Whole'
      BY <1>6, <2>2 DEF At, Whole
    <3>2. lost = FALSE => Right(Now, v, m)
      BY <1>3, <1>11, <2>2
    <3>0. p.rescan # TRUE /\ p.hint = 0 /\ p.paths # {} /\ retained # {}
      BY <2>2
    <3>3. p = pending /\ pending' = Nothing
      BY <2>2, NothingType
    <3>4. p.index # TRUE
      BY <1>2, <3>0, NoIndexWrite
    <3>5. /\ m.paths = p.paths /\ m.rescan # TRUE /\ m.index # TRUE /\ m.hint = 0
      <4>1. m = Merge(Nothing, p)
        BY <1>1, <3>3
      <4>2. /\ m.paths = p.paths
            /\ m.rescan = TRUE <=> p.rescan = TRUE
            /\ m.index = TRUE <=> p.index = TRUE
            /\ m.hint = 0 <=> p.hint = 0
        BY <1>2, <4>1, NothingMerged
      <4> HIDE DEF m
      <4> QED BY <3>0, <3>4, <4>2
    <3> HIDE DEF m
    <3>6. SUFFICES ASSUME lost = FALSE
                   PROVE  /\ RightHead(Now, draft', pending')
                          /\ RightMeta(Now, draft', pending')
                          /\ RightDiffs(Now, v, pending', request'.paths, request'.paths)
      BY <1>1, <3>1 DEF DraftRight, At
    <3>7. Right(Now, v, m)
      BY <3>2, <3>6
    <3>8. RightHead(Now, draft', m) /\ RightMeta(Now, draft', m)
      BY <3>7, OfStatus DEF Right
    <3> HIDE DEF v
    <3>9. RightHead(Now, draft', pending') /\ RightMeta(Now, draft', pending')
      <4>1. m.hint # HeadMayHaveChanged
        BY <3>5 DEF HeadMayHaveChanged
      <4> QED BY <3>5, <3>8, <4>1 DEF RightHead, RightMeta
    <3>10. RightDiffs(Now, v, pending', request'.paths, request'.paths)
      BY <1>1, <3>5, <3>7 DEF Right, RightDiffs, RightStaged, RightUnstaged, RightTotal, Doubted
    <3> QED BY <3>9, <3>10
  <2> QED BY <1>5, <2>1, <2>2
<1> QED BY <1>4, <1>9, <1>12, <1>13, <1>14 DEF IInv

(* A refresh takes the reports. *)
LEMMA StartRefreshOk == ASSUME IInv, StartRefresh PROVE IInv'
BY TakeOk DEF StartRefresh

(* A forced refresh leaves them pending. *)
LEMMA ForceRefreshOk == ASSUME IInv, ForceRefresh PROVE IInv'
BY TakeOk DEF ForceRefresh

(* A request that fails before it has read a thing leaves what is kept as  *)
(* it was, unless it was to answer reports; or nothing is kept.            *)
LEMMA FailOk == ASSUME IInv, Fail PROVE IInv'
<1>1. /\ todo # <<>> /\ todo' = <<>> /\ request' = Nothing /\ draft' = Blank /\ stale' = TRUE
      /\ lost' = (lost \/ request # Nothing)
      /\ Now' = Now /\ pending' = pending /\ status' = status /\ workdir' = workdir /\ masked' = masked
  BY DEF Fail, repo, Now
<1>2. retained' = {} \/ (retained' = retained /\ Whole)
  BY <1>1 DEF Fail, Whole, At
<1>3. Typed'
  <2>1. IsState(Blank)
    BY DEF Blank, IsState
  <2>2. lost' \in BOOLEAN
    BY <1>1
  <2> QED BY <1>1, <1>2, <2>1, <2>2, NothingType DEF IInv, Typed
<1>4. Requests'
  BY <1>1, NothingType DEF IInv, Requests, At
<1>5. Kept'
  <2>1. SUFFICES ASSUME lost' = FALSE, NEW s \in retained'
                 PROVE  Right(Now', current_status(s), Merge(pending', request'))
    BY DEF Kept
  <2>2. lost = FALSE /\ request = Nothing
    <3>1. lost \in BOOLEAN
      BY DEF IInv, Typed
    <3> QED BY <1>1, <2>1, <3>1
  <2>3. s \in retained /\ Whole
    BY <1>2, <2>1
  <2> QED BY <1>1, <2>2, <2>3 DEF IInv, Kept
<1>6. ShownRight' /\ DraftRight'
  BY <1>1 DEF ShownRight, DraftRight, At, Whole
<1> QED BY <1>3, <1>4, <1>5, <1>6 DEF IInv

(* With no worker nothing is kept, and what is shown stays as right as it was. *)
LEMMA ForgetOk == ASSUME IInv, Forget PROVE IInv'
<1>1. /\ todo = <<>> /\ todo' = todo /\ request' = request /\ draft' = draft /\ retained' = {}
      /\ Now' = Now /\ pending' = pending /\ status' = status /\ stale' = stale
      /\ lost' = lost /\ masked' = masked /\ workdir' = workdir
  BY DEF Forget, repo, job, shown, history, Now
<1>2. Typed' /\ Requests'
  BY <1>1 DEF IInv, Typed, Requests, At
<1>3. Kept' /\ ShownRight' /\ DraftRight'
  BY <1>1 DEF IInv, Kept, ShownRight, DraftRight, At, Whole
<1> QED BY <1>2, <1>3 DEF IInv

-----------------------------------------------------------------------------
(* The steps of a request *)
LEMMA PlanFirst ==
  ASSUME NEW t, Plan(t)
  PROVE  t # <<>> /\ t[1] # "validate"
<1>1. t \in Seq(Steps) /\ Len(t) > 0
  BY DEF Plan
<1>2. t # <<>> /\ t[1] \in Steps
  BY <1>1
<1> QED BY <1>2 DEF Steps

(* The step under way, and those after it *)
LEMMA InPlan ==
  ASSUME IInv, NEW name, name # "validate", todo # <<>>, Head(todo) = name
  PROVE  /\ Plan(todo) /\ At(name) /\ todo[1] = name
         /\ name # "reply" =>
              /\ Plan(Tail(todo)) /\ Tail(todo) # <<>>
              /\ Follows(name, Tail(todo)[1]) /\ Tail(todo)[1] = todo[2]
<1>1. todo[1] = name
  OBVIOUS
<1>2. Plan(todo)
  <2>1. todo # <<"validate">>
    BY <1>1
  <2> QED BY <2>1 DEF IInv, Requests
<1>3. At(name)
  BY <1>1 DEF At
<1> QED BY <1>1, <1>2, <1>3, PlanTail

(* While the state is in the making, it alone must be right. *)
LEMMA StepOk ==
  ASSUME IInv, UNCHANGED <<repo, pending, retained, request, shown>>,
         lost' \in BOOLEAN, masked' \in BOOLEAN,
         Plan(todo'), IsState(draft'), lost' = FALSE => todo'[1] # "head", DraftRight'
  PROVE  IInv'
<1>1. /\ workdir' = workdir /\ pending' = pending /\ retained' = retained
      /\ request' = request /\ status' = status /\ stale' = stale
  BY DEF repo, shown
<1>2. todo' # <<>> /\ todo'[1] # "validate"
  BY PlanFirst
<1>3. Typed'
  BY <1>1 DEF IInv, Typed
<1>4. Requests'
  BY <1>1, <1>2 DEF IInv, Requests, At
<1>5. Kept' /\ ShownRight'
  BY <1>2 DEF Kept, ShownRight, Whole, At
<1> QED BY <1>3, <1>4, <1>5 DEF IInv

(* A full refresh begins with the tree of HEAD, and answers at once without one. *)
LEMMA ReadHeadOk == ASSUME IInv, ReadHead PROVE IInv'
<1>1. /\ todo # <<>> /\ Head(todo) = "head" /\ UNCHANGED <<repo, pending, retained, request, shown>>
      /\ lost' = FALSE /\ masked' = FALSE
      /\ todo' = IF head = {} THEN <<"reply">> ELSE Tail(todo)
  BY DEF ReadHead, Step
<1>2. IsState(draft') /\ draft'.head = head
  <2> DEFINE c == IF head = {} THEN 0 ELSE commit
             b == [Blank EXCEPT !.head = head]
  <2>1. draft' = [b EXCEPT !.commit = c]
    BY DEF ReadHead
  <2>2. b = [head |-> head, commit |-> Blank.commit, meta |-> Blank.meta, staged |-> Blank.staged,
             base_unstaged |-> Blank.base_unstaged, base_total |-> Blank.base_total,
             unstaged_overlay |-> Blank.unstaged_overlay, total_overlay |-> Blank.total_overlay]
    BY DEF Blank
  <2> HIDE DEF b, c
  <2>3. draft' = [head |-> head, commit |-> c, meta |-> Blank.meta, staged |-> Blank.staged,
                  base_unstaged |-> Blank.base_unstaged, base_total |-> Blank.base_total,
                  unstaged_overlay |-> Blank.unstaged_overlay, total_overlay |-> Blank.total_overlay]
    BY <2>1, <2>2
  <2> QED BY <2>3 DEF IsState
<1>3. Now'.head = head
  BY <1>1 DEF Now, repo
<1>4. RightHead(Now', draft', pending')
  BY <1>2, <1>3 DEF RightHead
<1>5. CASE head # {}
  <2>1. Plan(todo') /\ todo'[1] = "unstaged"
    BY <1>1, <1>5, InPlan DEF Follows
  <2>2. DraftRight'
    BY <1>4, <2>1 DEF DraftRight, At
  <2> QED BY <1>1, <1>2, <2>1, <2>2, StepOk
<1>6. CASE head = {}
  <2>1. Plan(todo') /\ todo'[1] = "reply"
    BY <1>1, <1>6, ReplyPlan
  <2>2. current_status(draft').head = {} /\ draft'.head = {}
    BY <1>2, <1>6, StatusIs
  <2>3. RightMeta(Now', draft', pending')
    BY <2>2 DEF RightMeta
  <2>4. RightDiffs(Now', current_status(draft'), pending', {}, {})
    BY <2>2 DEF RightDiffs, RightStaged, RightUnstaged, RightTotal
  <2>5. DraftRight'
    BY <1>4, <2>1, <2>3, <2>4 DEF DraftRight, At
  <2> QED BY <1>1, <1>2, <2>1, <2>5, StepOk
<1> QED BY <1>5, <1>6

(* The unstaged diff is that of now. *)
LEMMA DiffUnstagedOk == ASSUME IInv, DiffUnstaged PROVE IInv'
<1>1. /\ todo # <<>> /\ Head(todo) = "unstaged" /\ UNCHANGED <<repo, pending, retained, request, shown>>
      /\ lost' = lost /\ masked' = FALSE /\ todo' = Tail(todo)
      /\ draft' = [draft EXCEPT !.base_unstaged = Delta(index, workdir)]
  BY DEF DiffUnstaged, Step
<1>2. At("unstaged") /\ todo[1] = "unstaged" /\ Plan(todo') /\ todo'[1] = "staged"
  BY <1>1, InPlan DEF Follows
<1>3. IsState(draft') /\ draft'.head = draft.head /\ draft'.base_unstaged = Delta(index, workdir)
  <2>1. IsState(draft)
    BY DEF IInv, Typed
  <2>2. draft' = [head |-> draft.head, commit |-> draft.commit, meta |-> draft.meta, staged |-> draft.staged,
                  base_unstaged |-> Delta(index, workdir), base_total |-> draft.base_total,
                  unstaged_overlay |-> draft.unstaged_overlay, total_overlay |-> draft.total_overlay]
    BY <1>1, <2>1, StateFields
  <2> QED BY <2>2 DEF IsState
<1>4. Now'.head = Now.head /\ Now'.index = index /\ Now'.workdir = workdir /\ pending' = pending
  BY <1>1 DEF Now, repo
<1>5. lost = FALSE => RightHead(Now', draft', pending')
  <2>1. lost = FALSE => RightHead(Now, draft, pending)
    BY <1>2 DEF IInv, DraftRight, Whole, At
  <2> QED BY <1>3, <1>4, <2>1 DEF RightHead
<1>6. RightUnstaged(Now', draft'.base_unstaged, draft'.head, pending', {})
  BY <1>3, <1>4 DEF RightUnstaged
<1>7. DraftRight'
  BY <1>1, <1>2, <1>5, <1>6 DEF DraftRight, At
<1>8. lost \in BOOLEAN
  BY DEF IInv, Typed
<1> QED BY <1>1, <1>2, <1>3, <1>7, <1>8, StepOk

(* With nothing staged, unstaged changes are all the changes. *)
LEMMA NothingStaged ==
  ASSUME NEW a, NEW b, NEW c, Delta(a, b) = Delta(Empty, Empty)
  PROVE  \A f \in Files : Delta(b, c)[f] = Delta(a, c)[f]
<1> SUFFICES ASSUME NEW f \in Files PROVE Delta(b, c)[f] = Delta(a, c)[f]
  OBVIOUS
<1>1. Delta(a, b)[f] = IF a[f] = b[f] THEN None ELSE <<a[f], b[f]>>
  BY DEF Delta
<1>2. Delta(Empty, Empty)[f] = None
  BY DEF Delta
<1>3. a[f] = b[f]
  <2>1. <<a[f], b[f]>> # None
    BY DEF None
  <2> QED BY <1>1, <1>2, <2>1
<1> QED BY <1>3 DEF Delta

(* Once the total diff is in, all diffs are. *)
LEMMA TotalOk ==
  ASSUME IInv, UNCHANGED <<repo, pending, retained, request, shown, history>>,
         NEW s, IsState(s), NEW d, draft' = WithTotal(s, d),
         Plan(todo'), todo'[1] = "meta",
         lost = FALSE => /\ RightHead(Now, s, pending) /\ RightStaged(Now, s, pending)
                         /\ RightUnstaged(Now, s.base_unstaged, s.head, pending, {})
                         /\ RightTotal(Now, d, s.head, pending, {})
  PROVE  IInv'
<1>1. Now' = Now /\ pending' = pending /\ lost' = lost /\ masked' = masked
  BY DEF repo, history, Now
<1>2. IsState(draft') /\ draft'.head = s.head /\ draft'.staged = s.staged /\ draft'.base_unstaged = s.base_unstaged
      /\ draft'.base_total = d /\ draft'.unstaged_overlay = NoOverlay /\ draft'.total_overlay = NoOverlay
  <2>1. draft' = [head |-> s.head, commit |-> s.commit, meta |-> s.meta, staged |-> s.staged,
                  base_unstaged |-> s.base_unstaged, base_total |-> d,
                  unstaged_overlay |-> NoOverlay, total_overlay |-> NoOverlay]
    BY WithTotalIs
  <2> QED BY <2>1 DEF IsState
<1> DEFINE v == current_status(draft')
<1>3. /\ v.head = s.head /\ v.staged = s.staged
      /\ \A f \in Files : v.unstaged[f] = s.base_unstaged[f] /\ v.total[f] = d[f]
  <2>1. DOMAIN NoOverlay = {}
    BY DEF NoOverlay
  <2> QED BY <1>2, <2>1, StatusIs
<1> HIDE DEF v
<1>4. ASSUME lost = FALSE, NEW S
      PROVE  RightHead(Now, draft', pending) /\ RightDiffs(Now, v, pending, S, S)
  <2>1. RightHead(Now, draft', pending)
    BY <1>2, <1>4 DEF RightHead
  <2>2. RightStaged(Now, v, pending)
    BY <1>3, <1>4 DEF RightStaged
  <2>3. RightUnstaged(Now, v.unstaged, v.head, pending, S)
    BY <1>3, <1>4 DEF RightUnstaged
  <2>4. RightTotal(Now, v.total, v.head, pending, S)
    BY <1>3, <1>4 DEF RightTotal
  <2> QED BY <2>1, <2>2, <2>3, <2>4 DEF RightDiffs
<1>5. DraftRight'
  BY <1>1, <1>4 DEF DraftRight, At, v
<1>6. lost \in BOOLEAN /\ masked \in BOOLEAN
  BY DEF IInv, Typed
<1> QED BY <1>1, <1>2, <1>5, <1>6, StepOk

(* The staged diff is, and lets the unstaged one serve only when it is empty. *)
LEMMA DiffStagedOk == ASSUME IInv, DiffStaged PROVE IInv'
<1> DEFINE staged == Delta(TreeOf(draft.head), index)
           s == [draft EXCEPT !.staged = staged]
<1>1. /\ todo # <<>> /\ Head(todo) = "staged"
      /\ UNCHANGED <<repo, pending, retained, request, shown, history>>
      /\ \/ Reused(staged) /\ draft' = WithTotal(s, s.base_unstaged) /\ todo' = Tail(todo)
         \/ draft' = s /\ todo' = <<"total">> \o Tail(todo)
  BY DEF DiffStaged, Step
<1>2. At("staged") /\ todo[1] = "staged" /\ Plan(Tail(todo)) /\ Tail(todo)[1] = "meta"
  BY <1>1, InPlan DEF Follows
<1>3. IsState(s) /\ s.head = draft.head /\ s.staged = staged /\ s.base_unstaged = draft.base_unstaged
  <2>1. IsState(draft)
    BY DEF IInv, Typed
  <2>2. s = [head |-> draft.head, commit |-> draft.commit, meta |-> draft.meta, staged |-> staged,
             base_unstaged |-> draft.base_unstaged, base_total |-> draft.base_total,
             unstaged_overlay |-> draft.unstaged_overlay, total_overlay |-> draft.total_overlay]
    BY <2>1, StateFields
  <2> HIDE DEF s, staged
  <2> QED BY <2>2 DEF IsState
<1> HIDE DEF s
<1>4. ASSUME lost = FALSE
      PROVE  /\ RightHead(Now, s, pending) /\ RightStaged(Now, s, pending)
             /\ RightUnstaged(Now, s.base_unstaged, s.head, pending, {})
  <2>1. RightHead(Now, draft, pending) /\ RightUnstaged(Now, draft.base_unstaged, draft.head, pending, {})
    BY <1>2, <1>4 DEF IInv, DraftRight, Whole, At
  <2>2. RightHead(Now, s, pending) /\ RightUnstaged(Now, s.base_unstaged, s.head, pending, {})
    BY <1>3, <2>1 DEF RightHead
  <2>3. RightStaged(Now, s, pending)
    BY <1>3, NowIs DEF RightStaged
  <2> QED BY <2>2, <2>3
<1>5. CASE Reused(staged) /\ draft' = WithTotal(s, s.base_unstaged) /\ todo' = Tail(todo)
  <2>1. \A f \in Files : Delta(index, workdir)[f] = Delta(TreeOf(draft.head), workdir)[f]
    BY <1>5, NothingStaged DEF Reused
  <2>2. lost = FALSE => RightTotal(Now, s.base_unstaged, s.head, pending, {})
    BY <1>3, <1>4, <2>1, NowIs DEF RightTotal, RightUnstaged
  <2> QED BY <1>1, <1>2, <1>3, <1>4, <1>5, <2>2, TotalOk
<1>6. CASE draft' = s /\ todo' = <<"total">> \o Tail(todo)
  <2>1. Plan(todo') /\ todo'[1] = "total"
    BY <1>2, <1>6, PlanBefore DEF Follows, Steps
  <2>2. Now' = Now /\ pending' = pending /\ lost' = lost /\ masked' = masked
    BY <1>1 DEF repo, history, Now
  <2>3. DraftRight'
    BY <1>4, <1>6, <2>1, <2>2 DEF DraftRight, At
  <2>4. lost \in BOOLEAN /\ masked \in BOOLEAN
    BY DEF IInv, Typed
  <2> QED BY <1>1, <1>3, <1>6, <2>1, <2>2, <2>3, <2>4, StepOk
<1> QED BY <1>1, <1>5, <1>6

(* The total diff against the tree that was read *)
LEMMA DiffTotalOk == ASSUME IInv, DiffTotal PROVE IInv'
<1> DEFINE d == Delta(TreeOf(draft.head), workdir)
<1>1. /\ todo # <<>> /\ Head(todo) = "total"
      /\ UNCHANGED <<repo, pending, retained, request, shown, history>>
      /\ draft' = WithTotal(draft, d) /\ todo' = Tail(todo)
  BY DEF DiffTotal, Step
<1>2. At("total") /\ todo[1] = "total" /\ Plan(todo') /\ todo'[1] = "meta"
  BY <1>1, InPlan DEF Follows
<1>3. IsState(draft)
  BY DEF IInv, Typed
<1>4. ASSUME lost = FALSE
      PROVE  /\ RightHead(Now, draft, pending) /\ RightStaged(Now, draft, pending)
             /\ RightUnstaged(Now, draft.base_unstaged, draft.head, pending, {})
  BY <1>2, <1>4 DEF IInv, DraftRight, Whole, At
<1>5. RightTotal(Now, d, draft.head, pending, {})
  BY NowIs DEF RightTotal
<1> HIDE DEF d
<1> QED BY <1>1, <1>2, <1>3, <1>4, <1>5, TotalOk

(* The metadata, and on to the files of the request *)
LEMMA ReadMetaOk == ASSUME IInv, ReadMeta PROVE IInv'
<1>1. /\ todo # <<>> /\ Head(todo) = "meta"
      /\ UNCHANGED <<repo, pending, retained, request, shown, history>>
      /\ draft' = [draft EXCEPT !.meta = meta] /\ todo' = Tail(todo)
  BY DEF ReadMeta, Step
<1>2. /\ At("meta") /\ todo[1] = "meta" /\ Plan(todo') /\ todo'[1] = todo[2]
      /\ todo'[1] \in {"reply", "files unstaged"}
  BY <1>1, InPlan DEF Follows
<1>3. IsState(draft') /\ draft'.head = draft.head /\ draft'.meta = meta
      /\ current_status(draft').head = current_status(draft).head
      /\ current_status(draft').staged = current_status(draft).staged
      /\ current_status(draft').unstaged = current_status(draft).unstaged
      /\ current_status(draft').total = current_status(draft).total
  <2>1. IsState(draft)
    BY DEF IInv, Typed
  <2>2. draft' = [head |-> draft.head, commit |-> draft.commit, meta |-> meta, staged |-> draft.staged,
                  base_unstaged |-> draft.base_unstaged, base_total |-> draft.base_total,
                  unstaged_overlay |-> draft.unstaged_overlay, total_overlay |-> draft.total_overlay]
    BY <1>1, <2>1, StateFields
  <2>3. /\ draft'.head = draft.head /\ draft'.meta = meta /\ draft'.staged = draft.staged
        /\ draft'.base_unstaged = draft.base_unstaged /\ draft'.base_total = draft.base_total
        /\ draft'.unstaged_overlay = draft.unstaged_overlay /\ draft'.total_overlay = draft.total_overlay
    BY <2>2
  <2>4. IsState(draft')
    BY <2>2 DEF IsState
  <2> QED BY <2>3, <2>4 DEF current_status
<1>4. Now' = Now /\ pending' = pending /\ request' = request /\ lost' = lost /\ masked' = masked
  BY <1>1 DEF repo, history, Now
<1>5. ASSUME lost = FALSE
      PROVE  /\ RightHead(Now, draft', pending) /\ RightMeta(Now, draft', pending)
             /\ RightDiffs(Now, current_status(draft'), pending, FilesLeft, FilesLeft)
  <2>1. RightHead(Now, draft, pending) /\ RightDiffs(Now, current_status(draft), pending, FilesLeft, FilesLeft)
    BY <1>2, <1>5 DEF IInv, DraftRight, Whole, At
  <2>2. RightHead(Now, draft', pending)
    BY <1>3, <2>1 DEF RightHead
  <2>3. RightMeta(Now, draft', pending)
    BY <1>3, NowIs DEF RightMeta
  <2>4. RightDiffs(Now, current_status(draft'), pending, FilesLeft, FilesLeft)
    BY <1>3, <2>1 DEF RightDiffs, RightStaged
  <2> QED BY <2>2, <2>3, <2>4
<1>6. todo'[1] = "reply" => FilesLeft = {}
  BY <1>2 DEF FilesLeft
<1>7. todo'[1] = "files unstaged" => FilesLeft = request.paths
  BY <1>2 DEF FilesLeft
<1>8. DraftRight'
  BY <1>2, <1>4, <1>5, <1>6, <1>7 DEF DraftRight, At
<1>9. lost \in BOOLEAN /\ masked \in BOOLEAN
  BY DEF IInv, Typed
<1> QED BY <1>1, <1>2, <1>3, <1>4, <1>8, <1>9, StepOk

(* Where HEAD still has the tree it had, what was kept of it stands but    *)
(* for the files of the request; where it has not, all is read anew.       *)
LEMMA ValidateOk == ASSUME IInv, Validate PROVE IInv'
<1> DEFINE t == IF request.paths = {} THEN <<"reply">> ELSE FilesRefresh
           v == current_status(draft)
           m == Merge(pending, request)
<1>1. /\ todo # <<>> /\ Head(todo) = "validate"
      /\ UNCHANGED <<repo, pending, retained, request, shown>>
      /\ todo' = IF ~SameHead(draft) THEN FullRefresh ELSE StepsFor(request.hint) \o t
      /\ masked' = (masked \/ (SameHead(draft) /\ request.index /\ request.hint # IndexChanged))
      /\ draft' = draft /\ lost' = lost
  BY DEF Validate, Step
<1>2. At("validate") /\ Whole
  BY <1>1 DEF At, Whole
<1>3. /\ request.rescan = FALSE /\ request.hint # 0 /\ draft \in retained /\ IsState(draft)
      /\ pending \in Pending /\ request \in Pending /\ lost \in BOOLEAN /\ masked \in BOOLEAN
  BY <1>2 DEF IInv, Requests, Typed
<1>4. /\ Now'.head = Now.head /\ Now'.index = Now.index /\ Now'.workdir = Now.workdir /\ Now'.meta = Now.meta
      /\ pending' = pending /\ request' = request /\ retained' = retained
      /\ status' = status /\ stale' = stale /\ workdir' = workdir
  BY <1>1 DEF repo, shown, Now
<1>5. masked' \in BOOLEAN /\ (masked' = FALSE => masked = FALSE)
  BY <1>1, <1>3
<1>6. Now'.masked = FALSE => Now.masked = FALSE
  BY <1>5 DEF Now
<1>7. m \in Pending /\ \A o : Told(Now, o, Now', o)
  <2>1. m \in Pending
    BY <1>3, MergeIs
  <2> HIDE DEF m
  <2>2. \A o : Told(Now, o, Now', o)
    BY <1>4, <1>6 DEF Told
  <2> QED BY <2>1, <2>2
<1>8. CASE ~SameHead(draft)
  <2>1. Plan(todo') /\ todo'[1] = "head" /\ todo' # <<>>
    BY <1>1, <1>8, FullPlan, PlanFirst
  <2>2. Typed'
    BY <1>1, <1>3, <1>4, <1>5 DEF IInv, Typed
  <2>3. Requests'
    BY <1>4, <2>1 DEF IInv, Requests, At
  <2>4. Kept'
    <3>1. SUFFICES ASSUME lost = FALSE, NEW s \in retained PROVE Right(Now', current_status(s), m)
      BY <1>1, <1>4 DEF Kept
    <3>2. Right(Now, current_status(s), m)
      BY <1>2, <3>1 DEF IInv, Kept
    <3> HIDE DEF m
    <3> QED BY <1>7, <3>2, StaysRight
  <2>5. ShownRight' /\ DraftRight'
    BY <2>1 DEF ShownRight, DraftRight, Whole, At
  <2> QED BY <2>2, <2>3, <2>4, <2>5 DEF IInv
<1>9. CASE SameHead(draft)
  <2>1. /\ Plan(t) /\ Follows("meta", t[1])
        /\ t[1] = IF request.paths = {} THEN "reply" ELSE "files unstaged"
    BY ReplyPlan, FilesPlan DEF Follows
  <2> HIDE DEF t
  <2>2. /\ Plan(todo') /\ todo' # <<>>
        /\ request.hint = IndexChanged => todo'[1] = "unstaged"
        /\ request.hint # IndexChanged => todo'[1] = "meta" /\ todo'[2] = t[1]
    BY <1>1, <1>9, <2>1, ValidatedPlan
  <2>3. RightHead(Now', draft', pending')
    BY <1>1, <1>4, <1>9, NowIs DEF SameHead, RightHead
  <2>4. CASE request.hint = IndexChanged
    <3>1. DraftRight'
      BY <2>2, <2>3, <2>4 DEF DraftRight, At
    <3> QED BY <1>1, <1>3, <1>5, <2>2, <2>4, <3>1, StepOk
  <2>5. CASE request.hint # IndexChanged
    <3>1. FilesLeft' = request.paths
      BY <1>4, <2>1, <2>2, <2>5 DEF FilesLeft
    <3>2. ASSUME lost = FALSE
          PROVE  RightDiffs(Now', v, pending, request.paths, request.paths)
      <4>1. Right(Now, v, m)
        BY <1>2, <1>3, <3>2 DEF IInv, Kept
      <4>2. /\ m.paths = pending.paths \cup request.paths
            /\ m.rescan = TRUE => pending.rescan = TRUE
            /\ m.index = TRUE => pending.index = TRUE \/ request.index = TRUE
        <5>1. /\ m.paths = pending.paths \cup request.paths
              /\ m.rescan = TRUE <=> pending.rescan = TRUE \/ request.rescan = TRUE
              /\ m.index = TRUE <=> pending.index = TRUE \/ request.index = TRUE
          BY <1>3, MergeIs
        <5> HIDE DEF m
        <5> QED BY <1>3, <5>1
      <4>3. Now'.masked = FALSE => Now.masked = FALSE /\ request.index # TRUE
        <5>1. masked' = FALSE => request.index # TRUE
          BY <1>1, <1>9, <2>5
        <5> QED BY <1>6, <5>1 DEF Now
      <4> HIDE DEF m, v
      <4>4. RightDiffs(Now, v, m, {}, {})
        BY <4>1 DEF Right
      <4>5. RightStaged(Now', v, pending)
        BY <1>4, <4>2, <4>3, <4>4 DEF RightDiffs, RightStaged
      <4>6. RightUnstaged(Now', v.unstaged, v.head, pending, request.paths)
        BY <1>4, <4>2, <4>3, <4>4 DEF RightDiffs, RightUnstaged, Doubted
      <4>7. RightTotal(Now', v.total, v.head, pending, request.paths)
        BY <1>4, <4>2, <4>3, <4>4 DEF RightDiffs, RightTotal, Doubted
      <4> QED BY <4>5, <4>6, <4>7 DEF RightDiffs
    <3>3. DraftRight'
      BY <1>1, <1>4, <2>2, <2>3, <2>5, <3>1, <3>2 DEF DraftRight, At
    <3> QED BY <1>1, <1>3, <1>5, <2>2, <2>5, <3>3, StepOk
  <2> QED BY <2>4, <2>5
<1> QED BY <1>8, <1>9

(* The unstaged diffs of the files of the request are those of now. *)
LEMMA DiffFilesUnstagedOk == ASSUME IInv, DiffFilesUnstaged PROVE IInv'
<1> DEFINE o == Updated(draft.unstaged_overlay, Delta(index, workdir), request.paths)
           v == current_status(draft)
           w == current_status(draft')
<1>1. /\ todo # <<>> /\ Head(todo) = "files unstaged"
      /\ UNCHANGED <<repo, pending, retained, request, shown, history>>
      /\ draft' = [draft EXCEPT !.unstaged_overlay = o] /\ todo' = Tail(todo)
  BY DEF DiffFilesUnstaged, Step
<1>2. /\ At("files unstaged") /\ todo[1] = "files unstaged" /\ Plan(todo') /\ todo'[1] = "files total"
  BY <1>1, InPlan DEF Follows
<1>3. /\ IsState(draft') /\ draft'.head = draft.head /\ draft'.meta = draft.meta /\ draft'.staged = draft.staged
      /\ draft'.base_unstaged = draft.base_unstaged /\ draft'.base_total = draft.base_total
      /\ draft'.unstaged_overlay = o /\ draft'.total_overlay = draft.total_overlay
  <2>1. IsState(draft)
    BY DEF IInv, Typed
  <2> HIDE DEF o
  <2>2. draft' = [head |-> draft.head, commit |-> draft.commit, meta |-> draft.meta, staged |-> draft.staged,
                  base_unstaged |-> draft.base_unstaged, base_total |-> draft.base_total,
                  unstaged_overlay |-> o, total_overlay |-> draft.total_overlay]
    BY <1>1, <2>1, StateFields
  <2> QED BY <2>2 DEF IsState
<1>4. /\ w.head = v.head /\ w.staged = v.staged /\ v.head = draft.head
      /\ \A f \in Files : w.total[f] = v.total[f]
  <2>1. /\ v.head = draft.head /\ v.staged = draft.staged
        /\ \A f \in Files : v.total[f] = IF f \in DOMAIN draft.total_overlay
                                         THEN draft.total_overlay[f] ELSE draft.base_total[f]
    BY StatusIs
  <2>2. /\ w.head = draft'.head /\ w.staged = draft'.staged
        /\ \A f \in Files : w.total[f] = IF f \in DOMAIN draft'.total_overlay
                                         THEN draft'.total_overlay[f] ELSE draft'.base_total[f]
    BY StatusIs
  <2> HIDE DEF o, v, w
  <2> QED BY <1>3, <2>1, <2>2
<1>5. \A f \in Files : w.unstaged[f] = IF f \in request.paths THEN Delta(index, workdir)[f] ELSE v.unstaged[f]
  <2>1. \A f \in Files :
          /\ v.unstaged[f] = IF f \in DOMAIN draft.unstaged_overlay
                               THEN draft.unstaged_overlay[f] ELSE draft.base_unstaged[f]
          /\ w.unstaged[f] = IF f \in DOMAIN draft'.unstaged_overlay
                               THEN draft'.unstaged_overlay[f] ELSE draft'.base_unstaged[f]
    BY StatusIs
  <2>2. DOMAIN o = DOMAIN draft.unstaged_overlay \cup request.paths
    BY DEF Updated
  <2>3. \A f \in DOMAIN o : o[f] = IF f \in request.paths THEN Delta(index, workdir)[f] ELSE draft.unstaged_overlay[f]
    BY DEF Updated
  <2> HIDE DEF o, v, w
  <2> QED BY <1>3, <2>1, <2>2, <2>3
<1>6. Now' = Now /\ pending' = pending /\ request' = request /\ lost' = lost /\ masked' = masked
  BY <1>1 DEF repo, history, Now
<1> HIDE DEF o, v, w
<1>7. ASSUME lost = FALSE
      PROVE  /\ RightHead(Now, draft', pending) /\ RightMeta(Now, draft', pending)
             /\ RightDiffs(Now, w, pending, {}, request.paths)
  <2>1. /\ RightHead(Now, draft, pending) /\ RightMeta(Now, draft, pending)
        /\ RightDiffs(Now, v, pending, request.paths, request.paths)
    BY <1>2, <1>7 DEF IInv, DraftRight, Whole, At, v
  <2>2. RightHead(Now, draft', pending) /\ RightMeta(Now, draft', pending)
    BY <1>3, <2>1 DEF RightHead, RightMeta
  <2>3. RightStaged(Now, w, pending)
    BY <1>4, <2>1 DEF RightDiffs, RightStaged
  <2>4. RightUnstaged(Now, w.unstaged, w.head, pending, {})
    BY <1>4, <1>5, <2>1, NowIs DEF RightDiffs, RightUnstaged
  <2>5. RightTotal(Now, w.total, w.head, pending, request.paths)
    BY <1>4, <2>1 DEF RightDiffs, RightTotal
  <2> QED BY <2>2, <2>3, <2>4, <2>5 DEF RightDiffs
<1>8. DraftRight'
  BY <1>2, <1>6, <1>7 DEF DraftRight, At, w
<1>9. lost \in BOOLEAN /\ masked \in BOOLEAN
  BY DEF IInv, Typed
<1> QED BY <1>1, <1>2, <1>3, <1>6, <1>8, <1>9, StepOk

(* So are their total diffs. *)
LEMMA DiffFilesTotalOk == ASSUME IInv, DiffFilesTotal PROVE IInv'
<1> DEFINE d == Delta(TreeOf(draft.head), workdir)
           o == Updated(draft.total_overlay, d, request.paths)
           v == current_status(draft)
           w == current_status(draft')
<1>1. /\ todo # <<>> /\ Head(todo) = "files total"
      /\ UNCHANGED <<repo, pending, retained, request, shown, history>>
      /\ draft' = [draft EXCEPT !.total_overlay = o] /\ todo' = Tail(todo)
  BY DEF DiffFilesTotal, Step
<1>2. /\ At("files total") /\ todo[1] = "files total" /\ Plan(todo') /\ todo'[1] = "reply"
  BY <1>1, InPlan DEF Follows
<1>3. /\ IsState(draft') /\ draft'.head = draft.head /\ draft'.meta = draft.meta /\ draft'.staged = draft.staged
      /\ draft'.base_unstaged = draft.base_unstaged /\ draft'.base_total = draft.base_total
      /\ draft'.unstaged_overlay = draft.unstaged_overlay /\ draft'.total_overlay = o
  <2>1. IsState(draft)
    BY DEF IInv, Typed
  <2> HIDE DEF o
  <2>2. draft' = [head |-> draft.head, commit |-> draft.commit, meta |-> draft.meta, staged |-> draft.staged,
                  base_unstaged |-> draft.base_unstaged, base_total |-> draft.base_total,
                  unstaged_overlay |-> draft.unstaged_overlay, total_overlay |-> o]
    BY <1>1, <2>1, StateFields
  <2> QED BY <2>2 DEF IsState
<1>4. /\ w.head = v.head /\ w.staged = v.staged /\ v.head = draft.head
      /\ \A f \in Files : w.unstaged[f] = v.unstaged[f]
  <2>1. /\ v.head = draft.head /\ v.staged = draft.staged
        /\ \A f \in Files : v.unstaged[f] = IF f \in DOMAIN draft.unstaged_overlay
                                         THEN draft.unstaged_overlay[f] ELSE draft.base_unstaged[f]
    BY StatusIs
  <2>2. /\ w.head = draft'.head /\ w.staged = draft'.staged
        /\ \A f \in Files : w.unstaged[f] = IF f \in DOMAIN draft'.unstaged_overlay
                                         THEN draft'.unstaged_overlay[f] ELSE draft'.base_unstaged[f]
    BY StatusIs
  <2> HIDE DEF o, v, w
  <2> QED BY <1>3, <2>1, <2>2
<1>5. \A f \in Files : w.total[f] = IF f \in request.paths THEN d[f] ELSE v.total[f]
  <2>1. \A f \in Files :
          /\ v.total[f] = IF f \in DOMAIN draft.total_overlay
                            THEN draft.total_overlay[f] ELSE draft.base_total[f]
          /\ w.total[f] = IF f \in DOMAIN draft'.total_overlay
                            THEN draft'.total_overlay[f] ELSE draft'.base_total[f]
    BY StatusIs
  <2>2. DOMAIN o = DOMAIN draft.total_overlay \cup request.paths
    BY DEF Updated
  <2>3. \A f \in DOMAIN o : o[f] = IF f \in request.paths THEN d[f] ELSE draft.total_overlay[f]
    BY DEF Updated
  <2> HIDE DEF o, v, w, d
  <2> QED BY <1>3, <2>1, <2>2, <2>3
<1>6. Now' = Now /\ pending' = pending /\ request' = request /\ lost' = lost /\ masked' = masked
  BY <1>1 DEF repo, history, Now
<1> HIDE DEF o, v, w
<1>7. ASSUME lost = FALSE
      PROVE  /\ RightHead(Now, draft', pending) /\ RightMeta(Now, draft', pending)
             /\ RightDiffs(Now, w, pending, {}, {})
  <2>1. /\ RightHead(Now, draft, pending) /\ RightMeta(Now, draft, pending)
        /\ RightDiffs(Now, v, pending, {}, request.paths)
    BY <1>2, <1>7 DEF IInv, DraftRight, Whole, At, v
  <2>2. RightHead(Now, draft', pending) /\ RightMeta(Now, draft', pending)
    BY <1>3, <2>1 DEF RightHead, RightMeta
  <2>3. RightStaged(Now, w, pending)
    BY <1>4, <2>1 DEF RightDiffs, RightStaged
  <2>4. RightUnstaged(Now, w.unstaged, w.head, pending, {})
    BY <1>4, <2>1 DEF RightDiffs, RightUnstaged
  <2>5. RightTotal(Now, w.total, w.head, pending, {})
    BY <1>4, <1>5, <2>1, NowIs DEF RightDiffs, RightTotal
  <2> QED BY <2>2, <2>3, <2>4, <2>5 DEF RightDiffs
<1>8. DraftRight'
  BY <1>2, <1>6, <1>7 DEF DraftRight, At, w
<1>9. lost \in BOOLEAN /\ masked \in BOOLEAN
  BY DEF IInv, Typed
<1> QED BY <1>1, <1>2, <1>3, <1>6, <1>8, <1>9, StepOk

(* After a failed diff nothing is claimed, until a full refresh has read   *)
(* the repository anew; the request goes on to its reply.                  *)
LEMMA DiffFailsOk == ASSUME IInv, DiffFails PROVE IInv'
<1>1. /\ todo # <<>> /\ lost' = TRUE /\ masked' = masked
      /\ UNCHANGED <<repo, pending, retained, request, shown>>
  BY DEF DiffFails
<1>2. IsState(draft) /\ masked \in BOOLEAN
  BY DEF IInv, Typed
<1>3. \A d : /\ IsState([draft EXCEPT !.base_unstaged = d])
             /\ IsState([draft EXCEPT !.unstaged_overlay = d])
             /\ IsState([draft EXCEPT !.total_overlay = d])
             /\ IsState(WithTotal(draft, d))
  <2> TAKE d
  <2>1. IsState([draft EXCEPT !.base_unstaged = d])
    BY <1>2, StateFields DEF IsState
  <2>2. IsState([draft EXCEPT !.unstaged_overlay = d])
    BY <1>2, StateFields DEF IsState
  <2>3. IsState([draft EXCEPT !.total_overlay = d])
    BY <1>2, StateFields DEF IsState
  <2>4. IsState(WithTotal(draft, d))
    BY <1>2, WithTotalIs DEF IsState
  <2> QED BY <2>1, <2>2, <2>3, <2>4
<1>4. IsState(draft')
  BY <1>2, <1>3 DEF DiffFails
<1>5. Plan(todo')
  <2>1. \A name : name # "validate" /\ name # "reply" /\ Head(todo) = name =>
          Plan(Tail(todo)) /\ Follows(name, Tail(todo)[1])
    BY <1>1, InPlan
  <2>2. CASE todo' = Tail(todo) /\ Head(todo) \in {"unstaged", "total", "files unstaged", "files total"}
    BY <2>1, <2>2
  <2>3. CASE todo' = <<"total">> \o Tail(todo) /\ Head(todo) = "staged"
    <3>1. Plan(Tail(todo)) /\ Tail(todo)[1] = "meta"
      BY <2>1, <2>3 DEF Follows
    <3> QED BY <2>3, <3>1, PlanBefore DEF Follows, Steps
  <2>4. CASE todo' = <<"reply">>
    BY <2>4, ReplyPlan
  <2> QED BY <2>2, <2>3, <2>4 DEF DiffFails
<1>6. DraftRight'
  BY <1>1 DEF DraftRight
<1> QED BY <1>1, <1>2, <1>4, <1>5, <1>6, StepOk

(* The state becomes what is kept, and its status what is shown. *)
LEMMA ReplyOk == ASSUME IInv, Reply PROVE IInv'
<1> DEFINE v == current_status(draft)
<1>1. /\ todo # <<>> /\ Head(todo) = "reply" /\ retained' = {draft} /\ status' = {v}
      /\ todo' = <<>> /\ request' = Nothing /\ draft' = Blank
      /\ Now' = Now /\ pending' = pending /\ lost' = lost /\ masked' = masked /\ workdir' = workdir
  BY DEF Reply, repo, history, Now
<1>2. At("reply") /\ todo[1] = "reply"
  BY <1>1, InPlan
<1>3. Typed'
  <2>1. IsState(Blank)
    BY DEF Blank, IsState
  <2>2. OnFiles(v.unstaged) /\ OnFiles(v.total)
    BY StatusIs
  <2> HIDE DEF v
  <2> QED BY <1>1, <2>1, <2>2, NothingType DEF IInv, Typed
<1>4. Requests'
  BY <1>1, NothingType DEF IInv, Requests, At
<1>5. lost = FALSE => Right(Now, v, pending)
  <2>1. lost = FALSE => /\ RightHead(Now, draft, pending) /\ RightMeta(Now, draft, pending)
                        /\ RightDiffs(Now, v, pending, {}, {})
    BY <1>2 DEF IInv, DraftRight, Whole, At
  <2> QED BY <2>1, OfStatus DEF Right
<1>6. Kept'
  <2>1. pending \in Pending
    BY DEF IInv, Typed
  <2>2. lost = FALSE => Right(Now, v, Merge(pending, Nothing))
    BY <1>5, <2>1, TakenTold, StaysRight
  <2> QED BY <1>1, <2>2 DEF Kept
<1>7. ShownRight'
  BY <1>1, <1>5 DEF ShownRight
<1>8. DraftRight'
  BY <1>1 DEF DraftRight, At, Whole
<1> QED BY <1>3, <1>4, <1>6, <1>7, <1>8 DEF IInv

(* Nothing happens *)
LEMMA StutterOk == ASSUME IInv, UNCHANGED vars PROVE IInv'
<1>1. /\ workdir' = workdir /\ pending' = pending /\ Now' = Now
      /\ UNCHANGED <<retained, job, shown, history>>
  BY DEF vars, repo, job, shown, history, Now
<1>2. pending \in Pending /\ IndexHinted(pending) /\ workdir \in Tree
  BY DEF IInv, Typed, Requests
<1>3. Told(Now, pending, Now', pending')
  BY <1>1, <1>2, TakenTold
<1> QED BY <1>1, <1>2, <1>3, ToldStep

(* The invariant is inductive ... *)
LEMMA NextOk == IInv /\ [Next]_vars => IInv'
<1> SUFFICES ASSUME IInv, [Next]_vars PROVE IInv'
  OBVIOUS
<1>1. CASE Environment
  BY <1>1, MoveHeadOk, WriteRefOk, WriteFileOk, WriteIndexOk DEF Environment
<1>2. CASE StartRefresh \/ ForceRefresh \/ Fail \/ Forget
  BY <1>2, StartRefreshOk, ForceRefreshOk, FailOk, ForgetOk
<1>3. CASE Worker
  BY <1>3, ReadHeadOk, DiffUnstagedOk, DiffStagedOk, DiffTotalOk, ReadMetaOk, ValidateOk,
     DiffFilesUnstagedOk, DiffFilesTotalOk, DiffFailsOk, ReplyOk DEF Worker
<1>4. CASE UNCHANGED vars
  BY <1>4, StutterOk
<1> QED BY <1>1, <1>2, <1>3, <1>4 DEF Next

(* ... and so always holds. *)
LEMMA Invariant == Spec => []IInv
<1>1. Init => IInv
  BY InitOk
<1>2. IInv /\ [Next]_vars => IInv'
  BY NextOk
<1> QED BY <1>1, <1>2, PTL DEF Spec

-----------------------------------------------------------------------------
(* Once settled, what is shown is right and no report is left to excuse it. *)
LEMMA ShownIsCurrent ==
  ASSUME IInv, Settled, NEW s \in status
  PROVE  /\ s.head = head /\ s.meta = meta
         /\ ~masked => /\ s.total = Delta(TreeOf(head), workdir)
                       /\ s.staged = Delta(TreeOf(head), index)
                       /\ s.unstaged = Delta(index, workdir)
<1>1. /\ pending = Nothing /\ todo = <<>> /\ stale # TRUE /\ head # {} /\ lost = FALSE
  <2>1. lost \in BOOLEAN
    BY DEF IInv, Typed
  <2> QED BY <2>1 DEF Settled, Idle
<1>2. Right(Now, s, Nothing)
  BY <1>1 DEF IInv, ShownRight, Settled, Idle
<1>3. s.head = head /\ s.meta = meta
  <2>1. s.head = head
    BY <1>2, NothingType, NowIs DEF Right, RightHead, HeadMayHaveChanged
  <2> QED BY <1>1, <1>2, <2>1, NothingType, NowIs DEF Right, RightMeta
<1>4. ASSUME ~masked
      PROVE  /\ s.total = Delta(TreeOf(head), workdir)
             /\ s.staged = Delta(TreeOf(head), index)
             /\ s.unstaged = Delta(index, workdir)
  <2>1. Now.masked = FALSE
    BY <1>4, NowIs DEF IInv, Typed
  <2>2. \A f \in Files : ~Doubted(Nothing, f)
    BY NothingType DEF Doubted
  <2>3. RightDiffs(Now, s, Nothing, {}, {})
    BY <1>2 DEF Right
  <2>4. s.staged = Delta(TreeOf(head), index)
    BY <1>1, <1>3, <2>1, <2>3, NothingType, NowIs DEF RightDiffs, RightStaged
  <2>5. \A f \in Files : s.unstaged[f] = Delta(index, workdir)[f]
    BY <1>1, <1>3, <2>1, <2>2, <2>3, NowIs DEF RightDiffs, RightUnstaged
  <2>6. \A f \in Files : s.total[f] = Delta(TreeOf(head), workdir)[f]
    BY <1>1, <1>3, <2>1, <2>2, <2>3, NowIs DEF RightDiffs, RightTotal
  <2>7. OnFiles(s.unstaged) /\ OnFiles(s.total)
    BY DEF IInv, Typed
  <2>8. s.unstaged = Delta(index, workdir)
    BY <2>5, <2>7 DEF OnFiles, Delta
  <2>9. s.total = Delta(TreeOf(head), workdir)
    BY <2>6, <2>7 DEF OnFiles, Delta
  <2> QED BY <2>4, <2>8, <2>9
<1> QED BY <1>3, <1>4

(* Whatever mix of full, validated and incremental refreshes made the      *)
(* status, and whatever was written while they read: once no report is     *)
(* left, its counts are those of HEAD against the working directory.       *)
THEOREM TotalIsCurrent == Spec => []TotalCurrent
<1>1. IInv => TotalCurrent
  BY ShownIsCurrent DEF TotalCurrent
<1> QED BY <1>1, Invariant, PTL

(* ... its staged and unstaged counts are those of the index ...           *)
THEOREM IndexIsCurrent == Spec => []IndexCurrent
<1>1. IInv => IndexCurrent
  BY ShownIsCurrent DEF IndexCurrent
<1> QED BY <1>1, Invariant, PTL

(* ... and its branch, stashes and conflict state are those of now, after  *)
(* a hint of any kind.                                                     *)
THEOREM MetadataIsCurrent == Spec => []MetadataCurrent
<1>1. IInv => MetadataCurrent
  BY ShownIsCurrent DEF MetadataCurrent
<1> QED BY <1>1, Invariant, PTL

=============================================================================
