---------------------------- MODULE BookmarkLimit ----------------------------
(***************************************************************************)
(* What the template keeps of a list of bookmarks (the limit_bookmarks     *)
(* filter and glob_match of src/template.rs).  Names and patterns are      *)
(* sequences of letters; in a pattern "*" stands for any run of them.      *)
(***************************************************************************)
EXTENDS Naturals, Sequences, FiniteSets, SequencesExt

CONSTANTS
  Letters,
  NameLength,    \* bound: of names
  PatternLength, \* bound: of patterns
  ListLength     \* bound: of lists

ASSUME LettersAssumption == "*" \notin Letters
ASSUME LengthsAssumption == {NameLength, PatternLength, ListLength} \subseteq Nat

-----------------------------------------------------------------------------
Words    == BoundedSeq(Letters, NameLength)
Patterns == BoundedSeq(Letters \cup {"*"}, PatternLength)

(* pattern.split('*'), letter by letter *)
Split(parts, c) ==
  IF c = "*" THEN Append(parts, <<>>) ELSE [parts EXCEPT ![Len(parts)] = Append(@, c)]

Parts(p) == FoldLeft(Split, << <<>> >>, p)

From(n, pos) == SubSeq(n, pos + 1, Len(n))

(* Places, at or after pos, at which part occurs in n *)
Places(part, n, pos) == {q \in pos..Len(n) : IsPrefix(part, From(n, q))}

(* Mutant: the last part is looked for in the whole name. *)
MatchLastAnywhere(parts, i, n, pos) ==
  IF parts[i] = <<>> THEN {pos}
  ELSE IF i = 1 THEN IF IsPrefix(parts[i], n) THEN {Len(parts[i])} ELSE {}
  ELSE IF i = Len(parts) THEN IF IsSuffix(parts[i], n) THEN {Len(n)} ELSE {}
  ELSE {q + Len(parts[i]) : q \in {q \in Places(parts[i], n, pos) :
                                    \A r \in Places(parts[i], n, pos) : q <= r}}

(* Where the next part is looked for once part i is matched at or after    *)
(* pos: the first part at the start, the last at the end, one between at   *)
(* its first place; no such position if it does not match.                 *)
MatchPart(parts, i, n, pos) ==
  IF parts[i] = <<>> THEN {pos}
  ELSE IF i = 1 THEN IF IsPrefix(parts[i], n) THEN {Len(parts[i])} ELSE {}
  ELSE IF i = Len(parts) THEN IF IsSuffix(parts[i], From(n, pos)) THEN {Len(n)} ELSE {}
  ELSE {q + Len(parts[i]) : q \in {q \in Places(parts[i], n, pos) :
                                    \A r \in Places(parts[i], n, pos) : q <= r}}

glob_match(p, n) ==
  LET parts == Parts(p)
      at[i \in 0..Len(parts)] ==
        IF i = 0 THEN {0} ELSE UNION {MatchPart(parts, i, n, pos) : pos \in at[i - 1]}
  IN  IF Len(parts) = 1 THEN p = n ELSE at[Len(parts)] # {}

(* Where the filter puts one bookmark: with those whose name matches, or   *)
(* with the rest                                                           *)
Partition(prioritize, two, n) ==
  IF prioritize # <<>> /\ glob_match(prioritize, n)
  THEN <<Append(two[1], n), two[2]>> ELSE <<two[1], Append(two[2], n)>>

(* The filter: bookmarks whose name matches come first, each part in the   *)
(* order it had; beyond `count`, one entry says how many more there are.   *)
limit_bookmarks(list, count, prioritize) ==
  LET two    == FoldLeft(LAMBDA s, n : Partition(prioritize, s, n), << <<>>, <<>> >>, list)
      sorted == two[1] \o two[2]
      kept   == IF Len(sorted) <= count THEN Len(sorted) ELSE count
  IN  [shown |-> SubSeq(sorted, 1, kept), more |-> Len(sorted) - kept]

-----------------------------------------------------------------------------
(* What a pattern means: its letters stand for the name, one after the     *)
(* other, f[i] letters of it for the first i; "*" stands for any number.   *)
Describes(p, n) ==
  \E f \in [0..Len(p) -> 0..Len(n)] :
    /\ f[0] = 0 /\ f[Len(p)] = Len(n)
    /\ \A i \in 1..Len(p) : IF p[i] = "*" THEN f[i - 1] <= f[i]
                            ELSE f[i] = f[i - 1] + 1 /\ n[f[i]] = p[i]

Lists == {l \in BoundedSeq(Words, ListLength) : \A i, j \in DOMAIN l : i # j => l[i] # l[j]}

(* What is cut away is counted, and is never something that the pattern    *)
(* (read as a pattern, not as the greedy search reads it) puts before, or  *)
(* the search puts before, something that is shown.                        *)
CutsTheLeastWanted ==
  \A p \in Patterns :
    LET Wanted == {n \in Words : p # <<>> /\ Describes(p, n)} IN
    \A l \in Lists, count \in 0..ListLength :
      LET r == limit_bookmarks(l, count, p)
          Shown(i) == l[i] \in ToSet(r.shown)
      IN  /\ Len(r.shown) + r.more = Len(l)
          /\ r.more > 0 => Len(r.shown) = count
          /\ \A i, j \in DOMAIN l : Shown(j) /\ ~Shown(i) =>
               /\ l[i] \in Wanted => l[j] \in Wanted
               /\ (l[i] \in Wanted <=> l[j] \in Wanted) => j < i

=============================================================================
