----------------------------- MODULE JjDiffEngine -----------------------------
(***************************************************************************)
(* The incremental diff engine of src/jj.rs: apply_incremental_paths and   *)
(* the full refresh that builds the state it works on.                     *)
(*                                                                         *)
(* The state of a repository (JjRepoState) is a record: the parents' trees *)
(* and their merge, the working-copy commit's tree, the diff of the last   *)
(* full refresh ("base"), the sources whose delete that diff dropped, and  *)
(* the overlay of entries derived from disk since.                         *)
(***************************************************************************)
EXTENDS JjDiffStat

Unset == [kind |-> "Unset"]   \* the overlay does not speak of the path

JjRepoState == [parents : UNION {[1..n -> Tree] : n \in 1..2},
                merged  : Tree,
                commit  : Tree,
                base    : [Paths -> Entry \cup {Same}],
                dropped : SUBSET Paths,
                overlay : [Paths -> Entry \cup {Same, Unset}]]

(* compute_jj_full_status, with the copy records gix happens to give *)
Rebuilt(parents, merged, commit, recs) ==
  LET base == DiffWithCopies(merged, commit, recs) IN
  [parents |-> parents, merged |-> merged, commit |-> commit, base |-> base,
   dropped |-> {s \in Paths :
                  /\ HasSource(recs, s)
                  /\ base[s] = Same
                  /\ \A t \in Paths : base[t] # Same => base[t].from # s},
   overlay |-> [p \in Paths |-> Unset]]

FullStatus(parents, merged, commit) ==
  {Rebuilt(parents, merged, commit, r) : r \in GixRecords(parents, commit)}

(* aggregate_overlay_stats: the overlay hides the base. *)
Effective(st, staged, p) ==
  IF staged[p] # Unset THEN staged[p]
  ELSE IF st.overlay[p] # Unset THEN st.overlay[p] ELSE st.base[p]

NothingStaged == [p \in Paths |-> Unset]

current_status(st) == Summary([p \in Paths |-> Effective(st, NothingStaged, p)])

From(e) == IF e \in {Same, Unset} THEN Absent ELSE e.from

-----------------------------------------------------------------------------
(* diff_single_file: what is on disk against a value of the parent.  Only  *)
(* texts are compared.                                                     *)
diff_single_file(v, onDisk) ==
  IF TextOf(v) = TextOf(onDisk) THEN Same ELSE Stats(TextOf(v), TextOf(onDisk))

(* the entry of one path by the snapshot that is to come *)
PlainEntry(st, p, onDisk, visible) ==
  diff_wc_values(st.merged[p], Snapshot(st.commit[p], onDisk, visible))

source_visible_on_disk(st, disk, s) ==
  disk[s] # Absent /\ (st.commit[s] # Absent \/ s \notin Ignored)

(* gix_visible_content *)
gix_visible_content(st, disk, p) == GixOf(Snapshot(st.commit[p], disk[p], TRUE))

(* pairing_record_parents: the parents whose diff pairs source and target, *)
(* as a copy if the source is to be seen, else as a rename                 *)
pairing_record_parents(st, disk, s, t) ==
  LET target == gix_visible_content(st, disk, t)
      head   == gix_visible_content(st, disk, s)
      seen   == source_visible_on_disk(st, disk, s)
  IN  IF disk[t] = Absent \/ TextOf(disk[t]) = Empty \/ (seen /\ head = Empty) THEN {}
      ELSE {i \in DOMAIN st.parents :
              LET content == GixOf(st.parents[i][s]) IN
              /\ content # Absent /\ st.parents[i][t] = Absent
              /\ IF seen THEN content # head /\ Similar(head, target)
                 ELSE Similar(content, target)}

(* Mutant: a recorded pairing is trusted without looking again. *)
RecordedPairingHolds(st, disk, s, t) == TRUE

PairingHolds(st, disk, s, t) == Cardinality(pairing_record_parents(st, disk, s, t)) = 1

(* Targets that the base or the overlay says came from a path *)
RenameTargets(st, s) == {t \in Paths : From(st.base[t]) = s \/ From(st.overlay[t]) = s}

-----------------------------------------------------------------------------
(* One changed path, staged after those before it.                         *)
(* A target whose pairing broke gives its source its delete back.          *)
Resurrected(st, disk, staged, p) ==
  LET s == From(st.base[p]) IN
  IF /\ s # Absent
     /\ pairing_record_parents(st, disk, s, p) = {}
     /\ ~source_visible_on_disk(st, disk, s)
    THEN [staged EXCEPT ![s] = PlainEntry(st, s, Absent, FALSE)]
    ELSE staged

(* its entry as a target whose pairing holds, or as a plain file *)
TargetEntry(st, disk, p) ==
  LET s == From(st.base[p]) IN
  IF s # Absent /\ PairingHolds(st, disk, s, p)
    THEN LET e == diff_single_file(st.merged[s], disk[p]) IN
         IF e = Same THEN Renamed(TextOf(disk[p]), TextOf(disk[p]), s)
         ELSE IF e.kind = "Modified" THEN [e EXCEPT !.from = s] ELSE e
    ELSE PlainEntry(st, p, disk[p], p \notin Ignored)

(* The path may be a source: while it is not to be seen, it has no entry;   *)
(* when it is again, targets that no longer pair become plain.             *)
StagePath(st, disk, staged, p) ==
  LET before  == Resurrected(st, disk, staged, p)
      targets == RenameTargets(st, p)
      seen    == source_visible_on_disk(st, disk, p)
  IN  IF targets # {} /\ ~seen THEN [before EXCEPT ![p] = Same]
      ELSE [t \in Paths |->
              IF t = p THEN TargetEntry(st, disk, p)
              ELSE IF t \in targets /\ ~PairingHolds(st, disk, p, t)
                THEN diff_single_file(st.merged[t], disk[t])
              ELSE before[t]]

-----------------------------------------------------------------------------
(* Pairing over the whole diff.  Targets are effective adds, and under a   *)
(* merge effective modifies; sources are effective deletes, and the ones   *)
(* the last full refresh dropped.                                          *)
Unpaired(st, staged, p, kinds) ==
  From(Effective(st, staged, p)) = Absent /\ Effective(st, staged, p).kind \in kinds

Candidates(st, disk, staged) ==
  SelectSeq(PathOrder, LAMBDA p :
    /\ Unpaired(st, staged, p, IF Len(st.parents) > 1 THEN {"Added", "Modified"} ELSE {"Added"})
    /\ disk[p] # Absent /\ TextOf(disk[p]) # Empty
    /\ gix_visible_content(st, disk, p) # Empty)

Sources(st, staged) ==
  SelectSeq(PathOrder, LAMBDA p : p \in st.dropped \/ Unpaired(st, staged, p, {"Deleted"}))

(* the parents in which a target is new and a source pairs with it *)
Pairing(st, disk, s, t) ==
  {i \in DOMAIN st.parents :
     /\ st.parents[i][s] # Absent /\ st.parents[i][t] = Absent
     /\ Similar(GixOf(st.parents[i][s]), gix_visible_content(st, disk, t))}

Score(st, disk, s, t) ==
  LET scores == {Similarity[GixOf(st.parents[i][s]), gix_visible_content(st, disk, t)] :
                   i \in Pairing(st, disk, s, t)}
  IN  CHOOSE x \in scores : \A y \in scores : y <= x

(* the first of the best candidates for a source, by its place; 0 if none *)
Best(st, disk, cands, s) ==
  LET fit == {i \in DOMAIN cands : Pairing(st, disk, s, cands[i]) # {}}
      top == {i \in fit : \A j \in fit :
                Score(st, disk, s, cands[j]) <= Score(st, disk, s, cands[i])}
  IN  IF fit = {} THEN 0 ELSE CHOOSE i \in top : \A j \in top : i <= j

SwapRemove(q, i) == [j \in 1..Len(q) - 1 |-> IF j = i THEN q[Len(q)] ELSE q[j]]

(* A source takes its best candidate: a rename if one parent pairs them, a *)
(* vanished delete if two do.  A dropped delete that finds none is back.   *)
PairWith(st, disk, acc, s, i) ==
  LET t == acc.cands[i]
  IN  IF \A j \in DOMAIN st.parents : GixOf(st.parents[j][s]) \in {Absent, Empty} THEN acc
      ELSE IF i = 0
        THEN IF s \notin st.dropped THEN acc
             ELSE [acc EXCEPT !.staged[s] =
                     PlainEntry(st, s, IF source_visible_on_disk(st, disk, s) THEN disk[s] ELSE Absent, TRUE)]
      ELSE IF Cardinality(Pairing(st, disk, s, t)) > 1
        THEN [cands |-> SwapRemove(acc.cands, i), staged |-> [acc.staged EXCEPT ![s] = Same]]
      ELSE [cands  |-> SwapRemove(acc.cands, i),
            staged |-> [acc.staged EXCEPT ![t] = Renamed(TextOf(st.merged[s]), TextOf(disk[t]), s),
                                          ![s] = Same]]

PairSource(st, disk, acc, s) == PairWith(st, disk, acc, s, Best(st, disk, acc.cands, s))

RenamesPaired(st, disk, staged) ==
  FoldLeft(LAMBDA acc, s : PairSource(st, disk, acc, s),
           [cands |-> Candidates(st, disk, staged), staged |-> staged],
           Sources(st, staged)).staged

-----------------------------------------------------------------------------
(* An add that is left may be a copy of a modified file it resembles now.  *)
CopyParents(st, s, t) ==
  {i \in DOMAIN st.parents : st.parents[i][s] # Absent /\ st.parents[i][t] = Absent}

(* the sources among which a target finds the most similar one *)
CopySources(st, disk, staged, t) ==
  {s \in Paths :
     /\ Unpaired(st, staged, s, {"Modified"}) /\ disk[s] # Absent
     /\ Similar(gix_visible_content(st, disk, s), gix_visible_content(st, disk, t))
     /\ CopyParents(st, s, t) # {}}

(* The first of those that resemble a text most, Absent if there is none *)
MostAlike(sources, Sim(_)) ==
  LET top == {i \in DOMAIN sources : \A s \in ToSet(sources) : Sim(s) <= Sim(sources[i])}
  IN  IF top = {} THEN Absent ELSE sources[CHOOSE i \in top : \A j \in top : i <= j]

BestSource(st, disk, staged, t) ==
  MostAlike(SelectSeq(PathOrder, LAMBDA s : s \in CopySources(st, disk, staged, t)),
            LAMBDA s : Similarity[gix_visible_content(st, disk, s), gix_visible_content(st, disk, t)])

(* A copy if one parent has it; not if two do. *)
CopyEntry(st, disk, plain, s, t) ==
  IF s # Absent /\ Cardinality(CopyParents(st, s, t)) = 1
  THEN Renamed(TextOf(st.merged[s]), TextOf(disk[t]), s) ELSE plain

CopiesPaired(st, disk, staged) ==
  [t \in Paths |->
     IF Unpaired(st, staged, t, {"Added"}) /\ disk[t] # Absent /\ TextOf(disk[t]) # Empty
     THEN CopyEntry(st, disk, staged[t], BestSource(st, disk, staged, t), t)
     ELSE staged[t]]

-----------------------------------------------------------------------------
(* A batch of changed paths, in the order they were reported in *)
Staged(st, disk, changed) ==
  FoldLeft(LAMBDA acc, p : StagePath(st, disk, acc, p), NothingStaged, changed)

Overlaid(overlay, staged) == [p \in Paths |-> IF staged[p] # Unset THEN staged[p] ELSE overlay[p]]

apply_incremental_paths(st, disk, changed) ==
  [st EXCEPT !.overlay =
     Overlaid(@, CopiesPaired(st, disk, RenamesPaired(st, disk, Staged(st, disk, changed))))]
=============================================================================
