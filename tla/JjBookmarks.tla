----------------------------- MODULE JjBookmarks -----------------------------
(***************************************************************************)
(* The bookmarks a jj status shows (find_ancestor_bookmarks and            *)
(* collect_bookmarks_bfs of src/jj.rs): those on the current line of work, *)
(* the ancestors of @ that are not in trunk's history, within max_depth    *)
(* commits; without any, the nearest ones; each with its tracking status.  *)
(*                                                                         *)
(* Commits are numbered so that parents come first, the root is 0.  The    *)
(* order of a commit's parents and of its bookmarks is any order.          *)
(***************************************************************************)
EXTENDS Naturals, Sequences, FiniteSets, SequencesExt

CONSTANTS
  N,       \* bound: commits besides the root
  Names,   \* of bookmarks
  Depths   \* values of bookmark_search_depth

ASSUME InstanceAssumption == N \in Nat /\ Depths \subseteq Nat

ASSUME NamesAssumption == IsFiniteSet(Names)

VARIABLES
  parents,    \* of each commit
  wc_id,      \* @
  trunk,      \* heads of trunk(): {} when the revset fails to evaluate
  local,      \* targets of the local bookmarks: {} for a conflicted one
  max_depth,
  phase,      \* "start", "line" and "nearest" while searching, "done"
  in_branch,  \* the commits the search may enter
  queue, visited,
  bookmarks   \* found, with their distance

graph  == <<parents, wc_id, trunk, local, max_depth>>
search == <<phase, in_branch, queue, visited, bookmarks>>
find_vars == <<graph, search>>

-----------------------------------------------------------------------------
Commits == 0..N

Graphs == {g \in [Commits -> SUBSET Commits] :
             \A c \in Commits : /\ \A p \in g[c] : p < c
                                /\ Cardinality(g[c]) <= 2
                                /\ g[c] = {} <=> c = 0}

(* The revset ::S *)
History(g, S) ==
  LET Up[k \in 0..N] == IF k = 0 THEN S ELSE Up[k - 1] \cup UNION {g[c] : c \in Up[k - 1]}
  IN  Up[N]

(* `::@ ~ ::trunk()` *)
CurrentLine == History(parents, {wc_id}) \ History(parents, trunk)

FindInit ==
  /\ parents \in Graphs /\ wc_id \in Commits
  /\ trunk \in {{}} \cup {{c} : c \in Commits}
  /\ local \in [Names -> {{}} \cup {{c} : c \in Commits}]
  /\ max_depth \in Depths
  /\ phase = "start" /\ in_branch = {}
  /\ queue = <<>> /\ visited = {} /\ bookmarks = <<>>

-----------------------------------------------------------------------------
(* collect_bookmarks_bfs, one commit of the queue at a time                *)
Seen == {b.name : b \in ToSet(bookmarks)}

NewOn(c) == {n \in Names \ Seen : local[n] = {c}}

At(names, d) == [i \in DOMAIN names |-> [name |-> names[i], distance |-> d]]

Queued(commits, d) == [i \in DOMAIN commits |-> <<commits[i], d>>]

(* @ is looked at apart: where it may not go on, its parents still queue. *)
Search(kind, entered) ==
  /\ phase' = kind /\ in_branch' = entered /\ visited' = {}
  /\ \E ps \in SetToSeqs(parents[wc_id]) : queue' = Queued(ps, 1)
  /\ \E ns \in SetToSeqs({n \in Names : local[n] = {wc_id} /\ wc_id \in entered}) :
       bookmarks' = At(ns, 0)
  /\ UNCHANGED graph

SearchLine == phase = "start" /\ trunk # {} /\ Search("line", CurrentLine)

Searching == phase \in {"line", "nearest"}

(* The nearest search is over at the first level below one with a match. *)
LevelDone(d) == phase = "nearest" /\ bookmarks # <<>> /\ d > bookmarks[1].distance

(* Mutant: a commit outside the branch is passed through. *)
EnterAll(c, d) == d <= max_depth /\ c \notin visited

Enter(c, d) == d <= max_depth /\ c \notin visited /\ c \in in_branch

Skip ==
  /\ Searching /\ queue # <<>>
  /\ LET c == queue[1][1]
         d == queue[1][2]
     IN  /\ ~LevelDone(d) /\ ~Enter(c, d)
         /\ visited' = IF d <= max_depth THEN visited \cup {c} ELSE visited
  /\ queue' = Tail(queue)
  /\ UNCHANGED <<graph, phase, in_branch, bookmarks>>

Visit ==
  /\ Searching /\ queue # <<>>
  /\ LET c == queue[1][1]
         d == queue[1][2]
     IN  /\ ~LevelDone(d) /\ Enter(c, d)
         /\ visited' = visited \cup {c}
         /\ \E ns \in SetToSeqs(NewOn(c)) : bookmarks' = bookmarks \o At(ns, d)
         /\ \E ps \in SetToSeqs(IF d < max_depth THEN parents[c] ELSE {}) :
              queue' = Tail(queue) \o Queued(ps, d + 1)
  /\ UNCHANGED <<graph, phase, in_branch>>

Over == Searching /\ (queue # <<>> => LevelDone(queue[1][2]))

(* The fallback: nothing on the current line, or no telling what it is *)
SearchNearest ==
  /\ \/ phase = "start" /\ trunk = {}
     \/ phase = "line" /\ Over /\ bookmarks = <<>>
  /\ Search("nearest", Commits)

Finish ==
  /\ Over /\ (phase = "nearest" \/ bookmarks # <<>>)
  /\ phase' = "done" /\ queue' = <<>> /\ visited' = {} /\ in_branch' = {}
  /\ UNCHANGED <<graph, bookmarks>>

FindNext == SearchLine \/ SearchNearest \/ Skip \/ Visit \/ Finish

FindSpec == FindInit /\ [][FindNext]_find_vars

-----------------------------------------------------------------------------
(* Tracking: a bookmark against each of its tracked remotes, in any order  *)
classify_tracking(l, r) ==
  LET behind == l \in History(parents, {r})
      ahead  == r \in History(parents, {l})
  IN  CASE l = r -> "tracked"
        [] l # r /\ behind /\ ~ahead -> "behind"
        [] l # r /\ ahead /\ ~behind -> "ahead"
        [] OTHER -> "sideways"

(* Mutant: a second remote is only heeded after a tracked one. *)
FirstStands(old, new) ==
  IF new = "sideways" \/ old \in {"untracked", "tracked"} THEN new ELSE old

Escalate(old, new) ==
  IF "sideways" \in {old, new} \/ {old, new} = {"ahead", "behind"} THEN "sideways"
  ELSE IF old \in {"untracked", "tracked"} THEN new
  ELSE old

compute_tracking_statuses(statuses) == FoldLeft(Escalate, "untracked", statuses)

-----------------------------------------------------------------------------
(* Commits at k steps from @; the distance of an ancestor *)
AtSteps(k) ==
  LET Up[i \in 0..N] == IF i = 0 THEN {wc_id} ELSE UNION {parents[c] : c \in Up[i - 1]}
  IN  Up[k]

Reach == {k \in 0..N : k <= max_depth}

Distances == {[name |-> n, distance |-> k] : n \in Names, k \in Reach}

(* Every bookmark in reach, at its shortest distance *)
InReach ==
  {b \in Distances : local[b.name] # {} /\ local[b.name] \subseteq AtSteps(b.distance)
                     /\ \A k \in Reach : k < b.distance => ~(local[b.name] \subseteq AtSteps(k))}

Nearest == {b \in InReach : \A o \in InReach : b.distance <= o.distance}

(* The search that prunes at trunk's history, whatever the merges between  *)
(* @ and it, finds exactly the bookmarks of `::@ ~ ::trunk()` in reach, by *)
(* their shortest distance, nearest first; if there is none, or no telling *)
(* the line, exactly those at the least distance.                          *)
FoundAreTheLine ==
  phase = "done" =>
    LET line == {b \in InReach : local[b.name] \subseteq CurrentLine}
        want == IF trunk # {} /\ line # {} THEN line ELSE Nearest
    IN  /\ ToSet(bookmarks) = want
        /\ Len(bookmarks) = Cardinality(want)
        /\ \A i, j \in DOMAIN bookmarks : i < j => bookmarks[i].distance <= bookmarks[j].distance

(* The worst of what is true of a bookmark *)
Worst(s) ==
  IF "sideways" \in s \/ {"ahead", "behind"} \subseteq s THEN "sideways"
  ELSE IF "ahead" \in s THEN "ahead"
  ELSE IF "behind" \in s THEN "behind"
  ELSE IF s = {} THEN "untracked" ELSE "tracked"

(* With several remotes a bookmark shows the worst that is true of it, in  *)
(* whatever order they are scanned: sideways also if it is ahead of one    *)
(* and behind another.                                                     *)
TrackingIsWorst ==
  phase = "done" =>
    \A b \in ToSet(bookmarks) : \A l \in local[b.name] :
      LET possible == {classify_tracking(l, r) : r \in Commits} IN
      \A s1, s2, s3 \in possible :
        compute_tracking_statuses(<<s1, s2, s3>>) = Worst({s1, s2, s3})

=============================================================================
