------------------------------ MODULE JjDiffStat ------------------------------
(***************************************************************************)
(* What `jj diff --stat` prints for a working copy: the reference that the *)
(* incremental diff engine of src/jj.rs is measured against.  jj, jj-lib   *)
(* and gix are not in this repository; they are modelled as src/jj.rs and  *)
(* its tests rely on them.                                                 *)
(*                                                                         *)
(* A file's value is resolved, or a conflict.  What a value looks like is  *)
(* abstracted to the text a stat counts lines of, and to the value gix     *)
(* sees of it when it looks for renames: of a conflict, the first side.    *)
(* Two values may have one text (an executable bit, a solved conflict).    *)
(***************************************************************************)
EXTENDS Naturals, Sequences, FiniteSets, SequencesExt

CONSTANTS
  PathOrder,     \* the paths of the repository, in their order
  Ignored,       \* paths an ignore file covers
  Values,        \* values a file may have
  Absent,        \* there is no file
  Text,          \* per value: the text `diff --stat` compares
  GixView,       \* per value: the resolved value gix sees
  Checkout,      \* per value: the resolved value that checking it out writes
  Empty,         \* the text of an empty file
  Similarity     \* of two texts, in thousandths: 500 and more pairs them

Paths == ToSet(PathOrder)
Texts == {Text[v] : v \in Values}

ASSUME ValuesAssumption ==
  /\ Absent \notin Values /\ Absent \notin Texts
  /\ Ignored \subseteq Paths
  /\ DOMAIN Text = Values
  /\ Checkout \in [Values -> Values] /\ GixView \in [Values -> Values]
  /\ \A v \in Values : Checkout[Checkout[v]] = Checkout[v] /\ Text[Checkout[v]] = Text[v]
  /\ \A v \in Values : Checkout[v] = v => GixView[v] = v
  /\ \A s, t \in Texts : Similarity[s, t] \in 0..1000

(* A conflict is what checking out turns into marker text. *)
Conflict == {v \in Values : Checkout[v] # v}
Resolved == Values \ Conflict

Tree     == [Paths -> Values \cup {Absent}]
DiskTree == [Paths -> Resolved \cup {Absent}]

TextOf(v) == IF v = Absent THEN Absent ELSE Text[v]
View(v)   == IF v = Absent THEN Absent ELSE GixView[v]
GixOf(v)  == TextOf(View(v))
OnDisk(t) == [p \in Paths |-> IF t[p] = Absent THEN Absent ELSE Checkout[t[p]]]

(* content_similarity: empty files never pair. *)
Similar(s, t) == Empty \notin {s, t} /\ Similarity[s, t] >= 500

-----------------------------------------------------------------------------
(* An entry of a diff: one changed file.  "from" is the path it was renamed *)
(* or copied from, or Absent.                                               *)
Entry == [kind   : {"Modified", "Added", "Deleted"},
          before : Texts \cup {Absent},
          after  : Texts \cup {Absent},
          from   : Paths \cup {Absent}]

Same == [kind |-> "Same"]   \* no entry

Kind(b, a) == IF b = Absent THEN "Added" ELSE IF a = Absent THEN "Deleted" ELSE "Modified"

Stats(b, a) == [kind |-> Kind(b, a), before |-> b, after |-> a, from |-> Absent]

Renamed(b, a, s) == [kind |-> "Modified", before |-> b, after |-> a, from |-> s]

(* An entry exists iff the values differ, even if their texts do not. *)
diff_wc_values(b, a) == IF b = a THEN Same ELSE Stats(TextOf(b), TextOf(a))

-----------------------------------------------------------------------------
(* The value the next snapshot of a path records, given the one it has and *)
(* what is on disk: an ignored file that is not tracked is not seen, and   *)
(* markers are read back as the conflict they came from.                   *)
Snapshot(old, onDisk, visible) ==
  IF onDisk = Absent THEN Absent
  ELSE IF old = Absent THEN IF visible THEN onDisk ELSE Absent
  ELSE IF old \in Conflict
    THEN LET parsed == {c \in Conflict : Checkout[c] = onDisk}
         IN  IF parsed = {} THEN onDisk
             ELSE IF old \in parsed THEN old ELSE CHOOSE c \in parsed : TRUE
  ELSE onDisk

SnapshotTree(commit, disk) ==
  [p \in Paths |-> Snapshot(commit[p], disk[p], p \notin Ignored)]

-----------------------------------------------------------------------------
(* Copy records of gix, between one parent and the working copy.  Each     *)
(* deleted file is renamed to at most one added file that is similar, equal *)
(* ones first; an added file that is left is a copy of a modified file it  *)
(* resembles, if there is one.  Which of several sources is taken is not   *)
(* known, nor is it said whether a new mode alone makes a file modified.   *)
Matchings(pairs) ==
  {m \in SUBSET pairs :
     /\ \A x, y \in m : (x[1] = y[1] \/ x[2] = y[2]) => x = y
     /\ \A x \in pairs : \E y \in m : x[1] = y[1] \/ x[2] = y[2]}

Renames(parent, wc) ==
  LET pairs == {x \in Paths \X Paths :
                  /\ parent[x[1]] # Absent /\ wc[x[1]] = Absent
                  /\ parent[x[2]] = Absent /\ wc[x[2]] # Absent
                  /\ Similar(GixOf(parent[x[1]]), GixOf(wc[x[2]]))}
      equal == {x \in pairs : GixOf(parent[x[1]]) = GixOf(wc[x[2]])}
  IN  {m \in Matchings(pairs) : m \cap equal \in Matchings(equal)}

Copies(parent, wc, renamed) ==
  LET pairs == {x \in Paths \X Paths :
                  /\ parent[x[1]] # Absent /\ wc[x[1]] # Absent
                  /\ View(parent[x[1]]) # View(wc[x[1]])
                  /\ parent[x[2]] = Absent /\ wc[x[2]] # Absent
                  /\ x[2] \notin {y[2] : y \in renamed}
                  /\ Similar(GixOf(wc[x[1]]), GixOf(wc[x[2]]))}
      sure  == {x \in pairs : GixOf(parent[x[1]]) # GixOf(wc[x[1]])}
  IN  {m \in SUBSET pairs :
         /\ \A x, y \in m : x[2] = y[2] => x = y
         /\ {x[2] : x \in sure} \subseteq {x[2] : x \in m}}

(* What gix may say of one parent, and of each of them *)
RecordsOf(parent, wc) ==
  UNION {{m \cup c : c \in Copies(parent, wc, m)} : m \in Renames(parent, wc)}

GixRecords(parents, wc) ==
  LET of == [i \in DOMAIN parents |-> RecordsOf(parents[i], wc)] IN
  {r \in [DOMAIN parents -> UNION Range(of)] : \A i \in DOMAIN parents : r[i] \in of[i]}

-----------------------------------------------------------------------------
(* CopyRecords: a target with a record of two parents loses its origin; a  *)
(* source stays a source.                                                  *)
Origins(recs, t) == {<<i, x>> \in (DOMAIN recs) \X (Paths \X Paths) : x \in recs[i] /\ x[2] = t}
HasSource(recs, s) == \E i \in DOMAIN recs : \E x \in recs[i] : x[1] = s

(* The diff between the merged parent tree and the working copy *)
DiffWithCopies(merged, wc, recs) ==
  [p \in Paths |->
     IF merged[p] = wc[p] THEN Same
     ELSE IF Cardinality(Origins(recs, p)) = 1
       THEN LET s == (CHOOSE o \in Origins(recs, p) : TRUE)[2][1]
            IN  Renamed(TextOf(merged[s]), TextOf(wc[p]), s)
     ELSE IF wc[p] = Absent /\ HasSource(recs, p) THEN Same
     ELSE diff_wc_values(merged[p], wc[p])]

(* What the summary counts of an entry: that it is there, and its lines if *)
(* its texts differ.                                                       *)
Lines(e) ==
  IF e = Same THEN <<>>
  ELSE IF e.before = e.after THEN <<"0">> ELSE <<e.before, e.after>>

Summary(diff) == [p \in Paths |-> Lines(diff[p])]

(* All that jj may print *)
DiffStats(parents, merged, wc) ==
  {Summary(DiffWithCopies(merged, wc, r)) : r \in GixRecords(parents, wc)}
=============================================================================
