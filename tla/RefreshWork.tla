---------------------------- MODULE RefreshWork ----------------------------
(***************************************************************************)
(* The data of the refresh loop of src/daemon.rs: Change events, and the   *)
(* PendingRefresh record they are merged into until a refresh starts.      *)
(***************************************************************************)
EXTENDS Integers

CONSTANTS
  Repos,        \* repository roots
  Changes       \* identities of watcher events: each is reported at most once

(* A hint is None (0) or a VcsChangeHint in its declared order:            *)
(* MetadataOnly (1) < IndexChanged (2) < HeadMayHaveChanged (3).           *)
Hint == 0..3

(* wc: the event names a working-copy path; rescan: the OS queue overflowed, *)
(* which watch_repo reports without paths or hint.                        *)
Shape == [wc : BOOLEAN, hint : Hint, rescan : BOOLEAN]

ChangeEvent(r, c, s) == [type |-> "Change", repo |-> r, id |-> c, shape |-> s]

ChangeEvents == [type : {"Change"}, repo : Repos, id : Changes, shape : Shape]

(* PendingRefresh.  `why' is history: the changes the record stands for.   *)
(* working_copy_changed and vcs_kind decide nothing in this loop.          *)
PendingRefresh == [paths : SUBSET Changes, hint : Hint, rescan : BOOLEAN,
                   why : SUBSET Changes]

NoWork == [paths |-> {}, hint |-> 0, rescan |-> FALSE, why |-> {}]

(* Mutant: severities add up instead of taking the maximum. *)
MaxHintSum(a, b) == a + b

MaxHint(a, b) == IF a < b THEN b ELSE a

(* Mutants: the later hint replaces the earlier one; only the later paths  *)
(* are kept.                                                               *)
MergeLastHint(p, q) == [paths  |-> p.paths \cup q.paths,
                        hint   |-> q.hint,
                        rescan |-> p.rescan \/ q.rescan,
                        why    |-> p.why \cup q.why]

MergeLastPaths(p, q) == [paths  |-> q.paths,
                         hint   |-> MaxHint(p.hint, q.hint),
                         rescan |-> p.rescan \/ q.rescan,
                         why    |-> p.why \cup q.why]

Merge(p, q) == [paths  |-> p.paths \cup q.paths,
                hint   |-> MaxHint(p.hint, q.hint),
                rescan |-> p.rescan \/ q.rescan,
                why    |-> p.why \cup q.why]

Incoming(e) == [paths  |-> IF e.shape.wc THEN {e.id} ELSE {},
                hint   |-> e.shape.hint,
                rescan |-> e.shape.rescan,
                why    |-> {e.id}]

(* A record stands for a change when it names its path, asks for at least  *)
(* its hint and keeps its rescan: a weaker one would refresh too little.   *)
Covers(p, e) ==
  /\ e.shape.wc => e.id \in p.paths
  /\ e.shape.hint <= p.hint
  /\ e.shape.rescan => p.rescan

=============================================================================
