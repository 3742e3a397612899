-------------------------- MODULE IgnoreFilterProofs --------------------------
(***************************************************************************)
(* Theorems about the ignore filter, for any tree of directories, any      *)
(* ignore files and any number of changes.                                 *)
(***************************************************************************)
EXTENDS IgnoreFilter, FiniteSetTheorems, TLAPS

(* A queued event names an ignore file; a rescan event names nothing. *)
NamedIn(q, f) == \E i \in DOMAIN q : f \in q[i].paths
Bare(q)      == \A i \in DOMAIN q : q[i].rescan => q[i].paths = {}

-----------------------------------------------------------------------------
(* Queues *)

(* What an appended event adds *)
LEMMA Appended ==
  ASSUME NEW q \in Seq(Event), NEW e \in Event
  PROVE  /\ Append(q, e) \in Seq(Event)
         /\ \A f : NamedIn(q, f) => NamedIn(Append(q, e), f)
         /\ \A f \in e.paths : NamedIn(Append(q, e), f)
         /\ Bare(q) /\ (e.rescan => e.paths = {}) => Bare(Append(q, e))
<1> DEFINE a == Append(q, e)
<1>1. /\ a \in Seq(Event)
      /\ DOMAIN a = 1..(Len(q) + 1) /\ DOMAIN q = 1..Len(q) /\ Len(q) \in Nat
      /\ a[Len(q) + 1] = e
      /\ \A i \in 1..Len(q) : a[i] = q[i]
  OBVIOUS
<1>2. \A f : NamedIn(q, f) => NamedIn(a, f)
  BY <1>1 DEF NamedIn
<1>3. \A f \in e.paths : NamedIn(a, f)
  BY <1>1 DEF NamedIn
<1>4. Bare(q) /\ (e.rescan => e.paths = {}) => Bare(a)
  BY <1>1 DEF Bare
<1> QED BY <1>1, <1>2, <1>3, <1>4

(* What is left when the first event is taken *)
LEMMA Taken ==
  ASSUME NEW q \in Seq(Event), q # <<>>
  PROVE  /\ Head(q) \in Event /\ Tail(q) \in Seq(Event)
         /\ \A f : NamedIn(q, f) => f \in Head(q).paths \/ NamedIn(Tail(q), f)
         /\ Bare(q) => Bare(Tail(q)) /\ (Head(q).rescan => Head(q).paths = {})
<1>1. /\ Len(q) \in Nat \ {0}
      /\ DOMAIN q = 1..Len(q) /\ DOMAIN Tail(q) = 1..(Len(q) - 1)
      /\ \A i \in 1..(Len(q) - 1) : Tail(q)[i] = q[i + 1]
      /\ Head(q) = q[1]
      /\ Head(q) \in Event /\ Tail(q) \in Seq(Event)
  OBVIOUS
<1>2. ASSUME NEW f, NamedIn(q, f) PROVE f \in Head(q).paths \/ NamedIn(Tail(q), f)
  <2>1. PICK i \in 1..Len(q) : f \in q[i].paths
    BY <1>1, <1>2 DEF NamedIn
  <2>2. CASE i = 1
    BY <1>1, <2>1, <2>2
  <2>3. CASE i # 1
    <3>1. i - 1 \in 1..(Len(q) - 1) /\ Tail(q)[i - 1] = q[i]
      BY <1>1, <2>3
    <3> QED BY <1>1, <2>1, <3>1 DEF NamedIn
  <2> QED BY <2>2, <2>3
<1>3. ASSUME Bare(q) PROVE Bare(Tail(q)) /\ (Head(q).rescan => Head(q).paths = {})
  <2>1. \A i \in 1..(Len(q) - 1) : i + 1 \in 1..Len(q)
    BY <1>1
  <2>2. 1 \in 1..Len(q)
    BY <1>1
  <2> QED BY <1>1, <1>3, <2>1, <2>2 DEF Bare
<1> QED BY <1>1, <1>2, <1>3

(* What an overflow leaves: a prefix, and a rescan *)
LEMMA Cut ==
  ASSUME NEW q \in Seq(Event), NEW n \in 0 .. Len(q) - 1
  PROVE  LET a == Append(SubSeq(q, 1, n), Rescan) IN
         /\ a \in Seq(Event)
         /\ \A f : NamedIn(q, f) => \/ NamedIn(a, f)
                                  \/ \E i \in n + 1 .. Len(q) : f \in q[i].paths
         /\ Bare(q) => Bare(a)
<1> DEFINE p == SubSeq(q, 1, n)
           a == Append(p, Rescan)
<1>1. /\ Len(q) \in Nat /\ n \in Nat /\ n <= Len(q)
      /\ DOMAIN q = 1..Len(q)
  OBVIOUS
<1>2. /\ p \in Seq(Event) /\ DOMAIN p = 1..n
      /\ \A i \in 1..n : p[i] = q[i]
  BY <1>1
<1>3. Rescan \in Event /\ Rescan.paths = {}
  BY DEF Rescan, Event
<1>4. \A f : NamedIn(p, f) => NamedIn(a, f)
  BY <1>2, <1>3, Appended
<1>5. ASSUME NEW f, NamedIn(q, f)
      PROVE  NamedIn(a, f) \/ \E i \in n + 1 .. Len(q) : f \in q[i].paths
  <2>1. PICK i \in 1..Len(q) : f \in q[i].paths
    BY <1>1, <1>5 DEF NamedIn
  <2>2. CASE i <= n
    <3>1. i \in 1..n
      BY <1>1, <2>1, <2>2
    <3>2. f \in p[i].paths /\ i \in DOMAIN p
      BY <1>2, <2>1, <3>1
    <3>3. NamedIn(p, f)
      BY <3>2 DEF NamedIn
    <3> QED BY <1>4, <3>3
  <2>3. CASE ~(i <= n)
    BY <1>1, <2>1, <2>3
  <2> QED BY <2>2, <2>3
<1>6. Bare(q) => Bare(a)
  <2>1. Bare(q) => Bare(p)
    BY <1>1, <1>2 DEF Bare
  <2> QED BY <2>1, <1>2, <1>3, Appended
<1>7. a \in Seq(Event)
  BY <1>2, <1>3, Appended
<1> QED BY <1>5, <1>6, <1>7

-----------------------------------------------------------------------------
(* Types *)

(* What the filter computes stays within the files and directories there are. *)
LEMMA FilterTypes ==
  ASSUME TypeOK, NEW ps \in SUBSET Paths
  PROVE  /\ Present \in SUBSET IgnoreFiles
         /\ Probed(ps) \in SUBSET (Dirs \ {Root})
         /\ LoadedAfter(ps) \in SUBSET IgnoreFiles
         /\ \A l : Built(disk, l) \in [IgnoreFiles -> Opinion]
<1>1. Present \in SUBSET IgnoreFiles
  BY DEF Present
<1>2. Probed(ps) \in SUBSET (Dirs \ {Root})
  BY DEF Probed
<1>3. LoadedAfter(ps) \in SUBSET IgnoreFiles
  BY <1>1 DEF LoadedAfter, Named, Found, TypeOK
<1>4. \A l : Built(disk, l) \in [IgnoreFiles -> Opinion]
  BY DEF Built, TypeOK, Opinion
<1> QED BY <1>1, <1>2, <1>3, <1>4

(* The verdict of a matcher is an opinion. *)
LEMMA VerdictTypes ==
  ASSUME NEW o \in [IgnoreFiles -> Opinion]
  PROVE  Verdicts(o) \subseteq Opinion
<1>1. \A f \in Deciding(o) : o[f] \in Opinion
  BY DEF Deciding, Speaking
<1> QED BY <1>1 DEF Verdicts, Opinion

(* Paths, and the events that name them *)
LEMMA EventTypes ==
  /\ \A d \in Dirs : Path(d, "file") \in Paths /\ Path(d, "dir") \in Paths
  /\ IgnoreFiles \subseteq Paths
  /\ \A ps \in SUBSET Paths : Changed(ps) \in Event /\ Changed(ps).paths = ps /\ ~Changed(ps).rescan
  /\ Rescan \in Event /\ Rescan.paths = {} /\ Nothing \in Event
<1>1. \A d \in Dirs : Path(d, "file") \in Paths /\ Path(d, "dir") \in Paths
  BY DEF Path, Paths
<1>2. IgnoreFiles \subseteq Paths
  BY FilesAssumption DEF Paths
<1>3. \A ps \in SUBSET Paths : Changed(ps) \in Event /\ Changed(ps).paths = ps /\ ~Changed(ps).rescan
  BY DEF Changed, Event
<1> QED BY <1>1, <1>2, <1>3 DEF Rescan, Nothing, Event

(* The first event of the queue, and the rest *)
LEMMA FirstEvent ==
  ASSUME TypeOK, events # <<>>
  PROVE  /\ Head(events) \in Event /\ Head(events).paths \in SUBSET Paths
         /\ Tail(events) \in Seq(Event)
<1>1. Head(events) \in Event /\ Tail(events) \in Seq(Event)
  BY Taken DEF TypeOK
<1> QED BY <1>1 DEF Event

(* The filter starts well typed, whatever is on disk. *)
LEMMA TypeInit == Init => TypeOK
<1> SUFFICES ASSUME Init PROVE TypeOK
  OBVIOUS
<1>1. matcher \in [IgnoreFiles -> Opinion] /\ disk \in [IgnoreFiles -> Opinion]
  BY DEF Init, Built, Opinion
<1>2. events \in Seq(Event)
  BY DEF Init
<1>3. sent \in Event
  BY EventTypes DEF Init
<1>4. loaded_files \in SUBSET IgnoreFiles /\ checked_dirs \in SUBSET Dirs
  BY TreeAssumption DEF Init, Present
<1>5. verdict \in Opinion
  BY <1>1, VerdictTypes DEF Init
<1> QED BY <1>1, <1>2, <1>3, <1>4, <1>5, BoundsAssumption DEF Init, TypeOK

(* Every step keeps every variable in its type. *)
LEMMA TypeStep == TypeOK /\ [Next]_vars => TypeOK'
<1> SUFFICES ASSUME TypeOK, [Next]_vars PROVE TypeOK'
  OBVIOUS
<1> USE DEF vars, filter, history
<1>0. Spend => left' \in Nat
  BY DEF Spend, TypeOK
<1>1. ASSUME NEW ds \in Edits, Edit(ds) PROVE TypeOK'
  <2>1. ds \subseteq Dirs
    BY BoundsAssumption
  <2>2. {Path(d, "file") : d \in ds} \in SUBSET Paths
    BY <2>1, EventTypes
  <2>3. Changed({Path(d, "file") : d \in ds}) \in Event
    BY <2>2, EventTypes
  <2>4. events' \in Seq(Event)
    BY <1>1, <2>3, Appended DEF Edit, TypeOK
  <2>5. owed' \in SUBSET Dirs
    BY <1>1, <2>1 DEF Edit, TypeOK
  <2> QED BY <1>1, <1>0, <2>4, <2>5 DEF Edit, TypeOK
<1>2. ASSUME NEW f \in IgnoreFiles, NEW o \in Opinion, WriteIgnore(f, o) PROVE TypeOK'
  <2>1. {f} \in SUBSET Paths
    BY EventTypes
  <2>2. events' \in Seq(Event)
    BY <1>2, <2>1, EventTypes, Appended DEF WriteIgnore, TypeOK
  <2>3. disk' \in [IgnoreFiles -> Opinion]
    BY <1>2 DEF WriteIgnore, TypeOK
  <2>4. owed' \in SUBSET Dirs
    BY <1>2 DEF WriteIgnore, StillOwed, TypeOK
  <2> QED BY <1>2, <1>0, <2>2, <2>3, <2>4 DEF WriteIgnore, TypeOK
<1>3. ASSUME NEW d \in Dirs, ReplaceDir(d) PROVE TypeOK'
  <2>1. disk' \in [IgnoreFiles -> Opinion] /\ unseen' \in SUBSET IgnoreFiles
    BY <1>3 DEF ReplaceDir, TypeOK
  <2>2. PICK p \in Up[d] \ {d} : events' = Append(events, Changed({Path(p, "dir")}))
    BY <1>3 DEF ReplaceDir
  <2>3. p \in Dirs
    BY TreeAssumption
  <2>4. {Path(p, "dir")} \in SUBSET Paths
    BY <2>3, EventTypes
  <2>5. events' \in Seq(Event)
    BY <2>2, <2>4, EventTypes, Appended DEF TypeOK
  <2>6. owed' \in SUBSET Dirs
    BY <1>3 DEF ReplaceDir, StillOwed, TypeOK
  <2> QED BY <1>3, <1>0, <2>1, <2>5, <2>6 DEF ReplaceDir, TypeOK
<1>4. CASE LoseEvents
  <2>1. events' \in Seq(Event)
    BY <1>4, Cut DEF LoseEvents, TypeOK
  <2>2. unseen' \in SUBSET IgnoreFiles
    BY <1>4 DEF LoseEvents, TypeOK
  <2> QED BY <1>4, <1>0, <2>1, <2>2 DEF LoseEvents, TypeOK
<1>5. CASE HandleEvent
  <2> DEFINE ps == Head(events).paths
             kept == {p \in ps : ~Ignored(p, verdict')}
  <2>1. ps \in SUBSET Paths /\ Tail(events) \in Seq(Event)
    BY <1>5, FirstEvent DEF HandleEvent
  <2>2. Discover(ps) /\ sent' = Changed(kept) /\ unseen' = unseen \ ps
    BY <1>5 DEF HandleEvent
  <2>3. checked_dirs' \in SUBSET Dirs /\ loaded_files' \in SUBSET IgnoreFiles
    BY <2>1, <2>2, FilterTypes DEF Discover, TypeOK
  <2>4. matcher' \in [IgnoreFiles -> Opinion] /\ verdict' \in Opinion
    <3>1. matcher' \in [IgnoreFiles -> Opinion]
      BY <2>1, <2>2, FilterTypes DEF Discover, TypeOK
    <3>2. verdict' \in Verdicts(matcher') \/ verdict' = verdict
      BY <2>2 DEF Discover
    <3> QED BY <3>1, <3>2, VerdictTypes DEF TypeOK
  <2>5. sent' \in Event
    <3>1. kept \in SUBSET Paths
      BY <2>1
    <3> QED BY <2>2, <3>1, EventTypes
  <2>6. owed' \in SUBSET Dirs /\ unseen' \in SUBSET IgnoreFiles
    BY <1>5, <2>2 DEF HandleEvent, TypeOK
  <2>7. events' \in Seq(Event) /\ UNCHANGED <<disk, left>>
    BY <1>5, <2>1 DEF HandleEvent
  <2> QED BY <2>3, <2>4, <2>5, <2>6, <2>7 DEF TypeOK
<1>6. CASE HandleRescan
  <2>1. events' \in Seq(Event)
    BY <1>6, FirstEvent DEF HandleRescan
  <2>2. checked_dirs' \in SUBSET Dirs
    BY <1>6, TreeAssumption DEF HandleRescan, ProbedAfterReset
  <2>3. matcher' \in [IgnoreFiles -> Opinion] /\ loaded_files' \in SUBSET IgnoreFiles
    BY <1>6 DEF HandleRescan, Built, TypeOK, Opinion
  <2>4. sent' \in Event
    BY <1>6, EventTypes DEF HandleRescan
  <2>5. verdict' \in Opinion
    BY <1>6, <2>3, VerdictTypes DEF HandleRescan
  <2> QED BY <1>6, <2>1, <2>2, <2>3, <2>4, <2>5 DEF HandleRescan, TypeOK
<1>7. CASE UNCHANGED vars
  BY <1>7 DEF TypeOK
<1> QED BY <1>1, <1>2, <1>3, <1>4, <1>5, <1>6, <1>7 DEF Next

(* Every variable of the filter has its type. *)
THEOREM TypeCorrect == Spec => []TypeOK
BY TypeInit, TypeStep, PTL DEF Spec

-----------------------------------------------------------------------------
(* Probed directories *)

(* The root is always checked. *)
RootChecked == Root \in checked_dirs

(* A walk from each path up to the first checked directory leaves no gap. *)
LEMMA WalkLeavesNoGap ==
  ASSUME CheckedUpToRoot, RootChecked, checked_dirs \in SUBSET Dirs,
         NEW ps \in SUBSET Paths,
         NEW d \in checked_dirs \cup Probed(ps), NEW e \in Up[d]
  PROVE  e \in checked_dirs \cup Probed(ps)
<1>1. CASE d \in checked_dirs
  BY <1>1 DEF CheckedUpToRoot
<1>2. CASE d \in Probed(ps)
  <2>1. PICK p \in ps : d \in Up[p.in] /\ \A g \in Up[p.in] : d \in Up[g] => g \notin checked_dirs
    BY <1>2 DEF Probed
  <2>2. d \in Dirs /\ p.in \in Dirs
    BY <1>2 DEF Probed, Paths
  <2>3. e \in Up[p.in] /\ e \in Dirs
    BY <2>1, <2>2, TreeAssumption
  <2>4. CASE e = Root
    BY <2>4 DEF RootChecked
  <2>5. CASE e # Root /\ \A g \in Up[p.in] : e \in Up[g] => g \notin checked_dirs
    BY <2>1, <2>3, <2>5 DEF Probed
  <2>6. CASE \E g \in Up[p.in] : e \in Up[g] /\ g \in checked_dirs
    BY <2>6 DEF CheckedUpToRoot
  <2> QED BY <2>4, <2>5, <2>6
<1> QED BY <1>1, <1>2

(* Every step keeps the checked directories closed upwards. *)
LEMMA CheckedStep ==
  ASSUME TypeOK, CheckedUpToRoot, RootChecked, [Next]_vars
  PROVE  CheckedUpToRoot' /\ RootChecked'
<1> USE DEF vars, filter, history
<1>1. CASE UNCHANGED checked_dirs
  BY <1>1 DEF CheckedUpToRoot, RootChecked
<1>2. CASE HandleEvent
  <2> DEFINE ps == Head(events).paths
  <2>1. ps \in SUBSET Paths
    BY <1>2, FirstEvent DEF HandleEvent
  <2>2. checked_dirs' = checked_dirs \cup Probed(ps)
    BY <1>2 DEF HandleEvent, Discover
  <2>3. checked_dirs \in SUBSET Dirs
    BY DEF TypeOK
  <2>4. \A d \in checked_dirs' : \A e \in Up[d] : e \in checked_dirs'
    BY <2>1, <2>2, <2>3, WalkLeavesNoGap
  <2> QED BY <2>2, <2>4 DEF CheckedUpToRoot, RootChecked
<1>3. CASE HandleRescan
  BY <1>3, TreeAssumption DEF HandleRescan, ProbedAfterReset, CheckedUpToRoot, RootChecked
<1>4. \/ UNCHANGED checked_dirs
      \/ HandleEvent \/ HandleRescan
  BY DEF Next, Edit, WriteIgnore, ReplaceDir, LoseEvents
<1> QED BY <1>1, <1>2, <1>3, <1>4

(* Only the root is checked at the start. *)
LEMMA CheckedInit == Init => CheckedUpToRoot /\ RootChecked
BY TreeAssumption DEF Init, CheckedUpToRoot, RootChecked

(* No directory between a checked one and the root is left unchecked. *)
THEOREM CheckedToTheRoot == Spec => []CheckedUpToRoot
<1>1. Init => TypeOK /\ CheckedUpToRoot /\ RootChecked
  BY TypeInit, CheckedInit
<1>2. TypeOK /\ CheckedUpToRoot /\ RootChecked /\ [Next]_vars
        => (TypeOK /\ CheckedUpToRoot /\ RootChecked)'
  BY TypeStep, CheckedStep
<1> QED BY <1>1, <1>2, PTL DEF Spec

-----------------------------------------------------------------------------
(* The matcher *)

(* The matcher has no opinion from a file that is not loaded. *)
NoOpinionUnloaded == \A f \in IgnoreFiles \ loaded_files : matcher[f] = "none"

(* What the matcher knows of one file: MatcherKnowsDisk, file by file *)
Knows(f) ==
  \/ f.in \notin checked_dirs /\ f \notin loaded_files
  \/ f \in unseen
  \/ NamedIn(events, f)
  \/ matcher[f] = disk[f]

IInv ==
  /\ TypeOK /\ CheckedUpToRoot /\ RootChecked
  /\ Bare(events)
  /\ NoOpinionUnloaded
  /\ verdict \in Verdicts(matcher)
  /\ \A f \in IgnoreFiles : Knows(f)

(* The invariant says what the property says. *)
LEMMA KnowsIsProperty == IInv => MatcherKnowsDisk
BY DEF IInv, Knows, NamedIn, MatcherKnowsDisk

(* Built gives loaded files their opinion, and others none. *)
LEMMA BuiltOpinions ==
  ASSUME NEW l, NEW f \in IgnoreFiles
  PROVE  /\ f \in l => Built(disk, l)[f] = disk[f]
         /\ f \notin l => Built(disk, l)[f] = "none"
BY DEF Built

(* The filter starts with what is in the root. *)
LEMMA IInvInit == Init => IInv
<1> SUFFICES ASSUME Init PROVE IInv
  OBVIOUS
<1>1. TypeOK /\ CheckedUpToRoot /\ RootChecked
  BY TypeInit, CheckedInit
<1>2. Bare(events)
  BY DEF Init, Bare
<1>3. NoOpinionUnloaded
  BY BuiltOpinions DEF Init, NoOpinionUnloaded
<1>4. ASSUME NEW f \in IgnoreFiles PROVE Knows(f)
  <2>1. CASE f \in loaded_files
    BY <2>1, BuiltOpinions DEF Init, Knows
  <2>2. CASE f \notin loaded_files /\ f.in = Root
    <3>1. matcher[f] = "none" /\ disk[f] = "none"
      BY <2>2, BuiltOpinions DEF Init, Present
    <3> QED BY <3>1 DEF Knows
  <2>3. CASE f \notin loaded_files /\ f.in # Root
    BY <2>3 DEF Init, Knows
  <2> QED BY <2>1, <2>2, <2>3
<1>5. verdict \in Verdicts(matcher)
  BY DEF Init
<1> QED BY <1>1, <1>2, <1>3, <1>4, <1>5 DEF IInv

(* An event: what it names and what the walks find is read from disk. *)
LEMMA EventKnows ==
  ASSUME IInv, HandleEvent
  PROVE  NoOpinionUnloaded' /\ \A f \in IgnoreFiles : Knows(f)'
<1> DEFINE ps == Head(events).paths
<1>1. TypeOK /\ NoOpinionUnloaded /\ \A f \in IgnoreFiles : Knows(f)
  BY DEF IInv
<1>2. /\ checked_dirs' = checked_dirs \cup Probed(ps)
      /\ loaded_files' = LoadedAfter(ps)
      /\ unseen' = unseen \ ps /\ events' = Tail(events) /\ disk' = disk
      /\ IF NeedsRebuild(ps) THEN matcher' = Built(disk, loaded_files') ELSE matcher' = matcher
  BY DEF HandleEvent, Discover
<1>3. ASSUME NEW f, NamedIn(events, f) PROVE f \in ps \/ NamedIn(events', f)
  BY <1>1, <1>2, <1>3, Taken DEF HandleEvent, TypeOK
<1>4. ASSUME NEW f \in IgnoreFiles
      PROVE  /\ f \notin loaded_files' => matcher'[f] = "none"
             /\ Knows(f)'
  <2>1. f \in Present <=> disk[f] # "none"
    BY DEF Present
  <2>2. ASSUME f \notin loaded_files' PROVE matcher'[f] = "none"
    <3>1. CASE NeedsRebuild(ps)
      BY <1>2, <2>2, <3>1, BuiltOpinions
    <3>2. CASE ~NeedsRebuild(ps)
      <4>1. f \notin loaded_files
        BY <1>2, <2>2, <3>2 DEF LoadedAfter, NeedsRebuild, Named
      <4> QED BY <1>1, <1>2, <3>2, <4>1 DEF NoOpinionUnloaded
    <3> QED BY <3>1, <3>2
  <2>3. CASE f \in ps \/ f \in Found(ps) \ loaded_files
    <3>1. CASE f \in loaded_files'
      <4>1. NeedsRebuild(ps)
        BY <1>2, <2>3, <3>1 DEF LoadedAfter, NeedsRebuild, Named
      <4>2. matcher'[f] = disk[f]
        BY <1>2, <3>1, <4>1, BuiltOpinions
      <4> QED BY <1>2, <2>2, <4>2 DEF Knows
    <3>2. CASE f \notin loaded_files'
      <4>1. disk[f] = "none"
        BY <1>2, <2>1, <2>3, <3>2 DEF LoadedAfter, Named
      <4> QED BY <1>2, <2>2, <3>2, <4>1 DEF Knows
    <3> QED BY <3>1, <3>2
  <2>4. CASE f \notin ps /\ f \notin Found(ps) \ loaded_files
    <3>1. f \in loaded_files' <=> f \in loaded_files
      BY <1>2, <2>4 DEF LoadedAfter, Named
    <3>2. CASE f \in unseen \/ NamedIn(events, f)
      BY <1>2, <1>3, <2>2, <2>4, <3>2 DEF Knows
    <3>3. CASE f.in \notin checked_dirs' /\ f \notin loaded_files'
      BY <2>2, <3>3 DEF Knows
    <3>4. CASE f.in \in Probed(ps) /\ f \notin loaded_files
      <4>1. disk[f] = "none"
        BY <2>1, <2>4, <3>4 DEF Found
      <4> QED BY <1>2, <2>2, <3>1, <3>4, <4>1 DEF Knows
    <3>5. CASE matcher[f] = disk[f]
      <4>1. CASE f \in loaded_files'
        <5>1. matcher'[f] = disk[f]
          BY <1>2, <3>5, <4>1, BuiltOpinions
        <5> QED BY <1>2, <2>2, <5>1 DEF Knows
      <4>2. CASE f \notin loaded_files'
        <5>1. matcher[f] = "none"
          BY <1>1, <3>1, <4>2 DEF NoOpinionUnloaded
        <5> QED BY <1>2, <2>2, <3>5, <4>2, <5>1 DEF Knows
      <4> QED BY <4>1, <4>2
    <3> QED BY <1>1, <1>2, <3>1, <3>2, <3>3, <3>4, <3>5 DEF Knows
  <2> QED BY <2>2, <2>3, <2>4
<1> QED BY <1>4 DEF NoOpinionUnloaded

(* A rescan: what is loaded is read again, what was probed is forgotten. *)
LEMMA RescanKnows ==
  ASSUME IInv, HandleRescan
  PROVE  NoOpinionUnloaded' /\ \A f \in IgnoreFiles : Knows(f)'
<1>1. TypeOK /\ NoOpinionUnloaded /\ Bare(events) /\ \A f \in IgnoreFiles : Knows(f)
  BY DEF IInv
<1>2. /\ checked_dirs' = {Root}
      /\ loaded_files' = loaded_files \cap Present
      /\ matcher' = Built(disk, loaded_files')
      /\ unseen' = {f \in unseen : f.in = Root /\ f \notin loaded_files}
      /\ events' = Tail(events) /\ disk' = disk
  BY DEF HandleRescan, ProbedAfterReset
<1>3. ASSUME NEW f, NamedIn(events, f) PROVE NamedIn(events', f)
  BY <1>1, <1>2, <1>3, Taken DEF HandleRescan, TypeOK
<1>4. ASSUME NEW f \in IgnoreFiles
      PROVE  /\ f \notin loaded_files' => matcher'[f] = "none"
             /\ Knows(f)'
  <2>1. f \notin loaded_files' => matcher'[f] = "none"
    BY <1>2, BuiltOpinions
  <2>2. CASE f \in loaded_files'
    <3>1. matcher'[f] = disk'[f]
      BY <1>2, <2>2, BuiltOpinions
    <3> QED BY <2>1, <3>1 DEF Knows
  <2>3. CASE f \notin loaded_files' /\ f.in # Root
    BY <1>2, <2>1, <2>3 DEF Knows
  <2>4. CASE f \notin loaded_files' /\ disk[f] = "none"
    BY <1>2, <2>1, <2>4 DEF Knows
  <2>5. CASE f \notin loaded_files' /\ f.in = Root /\ disk[f] # "none"
    <3>1. f \in Present /\ f \notin loaded_files
      BY <1>2, <2>5 DEF Present
    <3>2. matcher[f] = "none" /\ f.in \in checked_dirs
      BY <1>1, <2>5, <3>1 DEF NoOpinionUnloaded, IInv, RootChecked
    <3>3. f \in unseen \/ NamedIn(events, f)
      BY <1>1, <2>5, <3>2 DEF Knows
    <3>4. f \in unseen' \/ NamedIn(events', f)
      BY <1>2, <1>3, <2>5, <3>1, <3>3
    <3> QED BY <2>1, <3>4 DEF Knows
  <2> QED BY <2>2, <2>3, <2>4, <2>5
<1> QED BY <1>4 DEF NoOpinionUnloaded

(* A change of files does not reach the filter; its event will, or is known *)
(* to be missing.                                                           *)
ChangeIsTold(f) ==
  /\ f \in unseen => f \in unseen'
  /\ NamedIn(events, f) => NamedIn(events', f) \/ f \in unseen'
  /\ \/ disk'[f] = disk[f]
     \/ NamedIn(events', f) \/ f \in unseen'
     \/ f.in \notin checked_dirs /\ f \notin loaded_files

(* So the filter still knows, or will be told of, every ignore file. *)
LEMMA ChangeKnows ==
  ASSUME IInv, UNCHANGED filter, \A f \in IgnoreFiles : ChangeIsTold(f)
  PROVE  NoOpinionUnloaded' /\ \A f \in IgnoreFiles : Knows(f)'
<1>1. UNCHANGED <<matcher, checked_dirs, loaded_files>>
  BY DEF filter
<1>2. NoOpinionUnloaded'
  BY <1>1 DEF IInv, NoOpinionUnloaded
<1>3. ASSUME NEW f \in IgnoreFiles PROVE Knows(f)'
  <2>1. Knows(f)
    BY DEF IInv
  <2> QED BY <1>1, <2>1 DEF Knows, ChangeIsTold
<1> QED BY <1>2, <1>3

(* The verdict is chosen anew with every matcher, and only then. *)
LEMMA VerdictIsOne ==
  ASSUME IInv, [Next]_vars
  PROVE  verdict' \in Verdicts(matcher')
<1>1. verdict \in Verdicts(matcher)
  BY DEF IInv
<1>2. CASE UNCHANGED <<matcher, verdict>>
  BY <1>1, <1>2 DEF Verdicts, Deciding, Speaking
<1>3. CASE verdict' \in Verdicts(matcher')
  BY <1>3
<1>4. UNCHANGED <<matcher, verdict>> \/ verdict' \in Verdicts(matcher')
  BY DEF Next, vars, filter, Edit, WriteIgnore, ReplaceDir, LoseEvents,
         HandleEvent, HandleRescan, Discover
<1> QED BY <1>2, <1>3, <1>4

(* Every step keeps the invariant. *)
LEMMA IInvStep == IInv /\ [Next]_vars => IInv'
<1> SUFFICES ASSUME IInv, [Next]_vars PROVE IInv'
  OBVIOUS
<1>0. TypeOK /\ TypeOK' /\ CheckedUpToRoot' /\ RootChecked' /\ Bare(events)
  BY TypeStep, CheckedStep DEF IInv
<1>00. verdict' \in Verdicts(matcher')
  BY VerdictIsOne
<1> SUFFICES Bare(events') /\ NoOpinionUnloaded' /\ \A f \in IgnoreFiles : Knows(f)'
  BY <1>0, <1>00 DEF IInv, Bare
<1>1. ASSUME NEW ds \in Edits, Edit(ds)
      PROVE  Bare(events') /\ NoOpinionUnloaded' /\ \A f \in IgnoreFiles : Knows(f)'
  <2> DEFINE e == Changed({Path(d, "file") : d \in ds})
  <2>1. {Path(d, "file") : d \in ds} \in SUBSET Paths
    BY BoundsAssumption, EventTypes
  <2>2. e \in Event /\ ~e.rescan /\ events' = Append(events, e)
    BY <1>1, <2>1, EventTypes DEF Edit
  <2>3. Bare(events') /\ \A f : NamedIn(events, f) => NamedIn(events', f)
    BY <1>0, <2>2, Appended DEF TypeOK
  <2>4. UNCHANGED <<disk, filter, unseen>>
    BY <1>1 DEF Edit
  <2>5. \A f \in IgnoreFiles : ChangeIsTold(f)
    BY <2>3, <2>4 DEF ChangeIsTold
  <2> QED BY <2>3, <2>4, <2>5, ChangeKnows
<1>2. ASSUME NEW g \in IgnoreFiles, NEW o \in Opinion, WriteIgnore(g, o)
      PROVE  Bare(events') /\ NoOpinionUnloaded' /\ \A f \in IgnoreFiles : Knows(f)'
  <2>1. {g} \in SUBSET Paths
    BY EventTypes
  <2>2. /\ Changed({g}) \in Event /\ ~Changed({g}).rescan /\ g \in Changed({g}).paths
        /\ events' = Append(events, Changed({g}))
    BY <1>2, <2>1, EventTypes DEF WriteIgnore
  <2>3. Bare(events') /\ NamedIn(events', g) /\ \A f : NamedIn(events, f) => NamedIn(events', f)
    BY <1>0, <2>2, Appended DEF TypeOK
  <2>4. UNCHANGED <<filter, unseen>> /\ \A f \in IgnoreFiles \ {g} : disk'[f] = disk[f]
    BY <1>0, <1>2 DEF WriteIgnore, TypeOK
  <2>5. \A f \in IgnoreFiles : ChangeIsTold(f)
    BY <2>3, <2>4 DEF ChangeIsTold
  <2> QED BY <2>3, <2>4, <2>5, ChangeKnows
<1>3. ASSUME NEW d \in Dirs, ReplaceDir(d)
      PROVE  Bare(events') /\ NoOpinionUnloaded' /\ \A f \in IgnoreFiles : Knows(f)'
  <2>1. PICK g \in IgnoreFiles, o \in Opinion :
          /\ disk' = [disk EXCEPT ![g] = o]
          /\ unseen' = IF g.in \in checked_dirs \/ g \in loaded_files
                         THEN unseen \cup {g} ELSE unseen
    BY <1>3 DEF ReplaceDir
  <2>2. PICK p \in Up[d] : events' = Append(events, Changed({Path(p, "dir")}))
    BY <1>3 DEF ReplaceDir
  <2>3. {Path(p, "dir")} \in SUBSET Paths
    BY TreeAssumption, EventTypes
  <2>4. Changed({Path(p, "dir")}) \in Event /\ ~Changed({Path(p, "dir")}).rescan
    BY <2>3, EventTypes
  <2>5. Bare(events') /\ \A f : NamedIn(events, f) => NamedIn(events', f)
    BY <1>0, <2>2, <2>4, Appended DEF TypeOK
  <2>6. UNCHANGED filter
    BY <1>3 DEF ReplaceDir
  <2>7. unseen \subseteq unseen' /\ \A f \in IgnoreFiles \ {g} : disk'[f] = disk[f]
    BY <1>0, <2>1 DEF TypeOK
  <2>8. g \in unseen' \/ (g.in \notin checked_dirs /\ g \notin loaded_files)
    BY <2>1
  <2>9. \A f \in IgnoreFiles : ChangeIsTold(f)
    BY <2>5, <2>7, <2>8 DEF ChangeIsTold
  <2> QED BY <2>5, <2>6, <2>9, ChangeKnows
<1>4. CASE LoseEvents
  <2>1. PICK n \in 0 .. Len(events) - 1 :
          /\ events' = Append(SubSeq(events, 1, n), Rescan)
          /\ unseen' = unseen \cup
               {f \in IgnoreFiles : \E i \in n + 1 .. Len(events) : f \in events[i].paths}
    BY <1>4 DEF LoseEvents
  <2>2. Bare(events') /\ \A f \in IgnoreFiles : NamedIn(events, f) => NamedIn(events', f) \/ f \in unseen'
    BY <1>0, <2>1, Cut DEF TypeOK
  <2>3. UNCHANGED <<disk, filter>> /\ unseen \subseteq unseen'
    BY <1>4, <2>1 DEF LoseEvents
  <2>4. \A f \in IgnoreFiles : ChangeIsTold(f)
    BY <2>2, <2>3 DEF ChangeIsTold
  <2> QED BY <2>2, <2>3, <2>4, ChangeKnows
<1>5. CASE HandleEvent
  <2>1. Bare(events')
    BY <1>0, <1>5, Taken DEF HandleEvent, TypeOK
  <2> QED BY <1>5, <2>1, EventKnows
<1>6. CASE HandleRescan
  <2>1. Bare(events')
    BY <1>0, <1>6, Taken DEF HandleRescan, TypeOK
  <2> QED BY <1>6, <2>1, RescanKnows
<1>7. CASE UNCHANGED vars
  <2>1. UNCHANGED <<disk, events, filter, unseen>>
    BY <1>7 DEF vars, history
  <2>2. \A f \in IgnoreFiles : ChangeIsTold(f)
    BY <2>1 DEF ChangeIsTold
  <2> QED BY <1>0, <2>1, <2>2, ChangeKnows
<1> QED BY <1>1, <1>2, <1>3, <1>4, <1>5, <1>6, <1>7 DEF Next

(* The invariant, for any tree, any ignore files and any changes. *)
THEOREM Invariance == Spec => []IInv
BY IInvInit, IInvStep, PTL DEF Spec

(* The matcher agrees with the disk on every ignore file it was told of. *)
THEOREM MatcherAgrees == Spec => []MatcherKnowsDisk
BY Invariance, KnowsIsProperty, PTL

-----------------------------------------------------------------------------
(* What the matcher says of a path that an event named *)

(* What a matcher may hold against the disk, for paths of one directory: the *)
(* rules above it as they are, others as they are or not at all.             *)
Faithful(o, d) ==
  /\ \A f \in Above(d) : o[f] = disk[f]
  /\ \A f \in IgnoreFiles : o[f] = disk[f] \/ o[f] = "none"

(* A file that decides in the matcher is one that decides on disk, or one of *)
(* another part of the tree.                                                 *)
LEMMA DecidesOnDisk ==
  ASSUME NEW o, NEW d, Faithful(o, d), NEW f \in Deciding(o)
  PROVE  /\ f \in IgnoreFiles /\ o[f] = disk[f] /\ o[f] # "none"
         /\ f \in Above(d) => f \in DecidingOnDisk(d)
<1>1. f \in IgnoreFiles /\ o[f] # "none" /\ \A g \in Speaking(o) : Depth(g) <= Depth(f)
  BY DEF Deciding, Speaking
<1>2. o[f] = disk[f]
  BY <1>1 DEF Faithful
<1>3. Above(d) \cap Speaking(disk) \subseteq Speaking(o)
  BY DEF Faithful, Speaking
<1>4. f \in Speaking(disk)
  BY <1>1, <1>2 DEF Speaking
<1> QED BY <1>1, <1>2, <1>3, <1>4 DEF DecidingOnDisk

(* Where an edit is due, a faithful matcher does not say to ignore it. *)
LEMMA DueIsNotIgnored ==
  ASSUME NEW o, NEW d, Faithful(o, d), DueOnDisk(d), NEW v \in Verdicts(o)
  PROVE  v # "ignore"
<1>1. CASE Speaking(o) = {}
  BY <1>1 DEF Verdicts
<1>2. CASE Speaking(o) # {}
  <2>1. PICK f \in Deciding(o) : v = o[f]
    BY <1>2 DEF Verdicts
  <2>2. f \in IgnoreFiles /\ v = disk[f] /\ (f \in Above(d) => f \in DecidingOnDisk(d))
    BY <2>1, DecidesOnDisk
  <2>3. CASE f \in Above(d)
    BY <2>2, <2>3 DEF DueOnDisk, KeptOnDisk
  <2>4. CASE f \notin Above(d)
    BY <2>2, <2>4 DEF DueOnDisk, SaidElsewhere
  <2> QED BY <2>3, <2>4
<1> QED BY <1>1, <1>2

(* What the disk ignores a faithful matcher ignores, whatever the order its  *)
(* files were added in, unless a file elsewhere keeps it.                    *)
LEMMA IgnoredIsIgnored ==
  ASSUME NEW o, NEW d, Faithful(o, d), disk \in [IgnoreFiles -> Opinion],
         IgnoredOnDisk(d), ~SaidElsewhere(d, "keep"), NEW v \in Verdicts(o)
  PROVE  v = "ignore"
<1>1. PICK h : h \in DecidingOnDisk(d)
  BY DEF IgnoredOnDisk
<1>2. h \in Speaking(o)
  BY <1>1 DEF DecidingOnDisk, Speaking, Faithful
<1>3. PICK f \in Deciding(o) : v = o[f]
  BY <1>2 DEF Verdicts
<1>4. f \in IgnoreFiles /\ v = disk[f] /\ v # "none" /\ (f \in Above(d) => f \in DecidingOnDisk(d))
  BY <1>3, DecidesOnDisk
<1>5. CASE f \in Above(d)
  BY <1>4, <1>5 DEF IgnoredOnDisk
<1>6. CASE f \notin Above(d)
  BY <1>4, <1>6 DEF SaidElsewhere, Opinion
<1> QED BY <1>5, <1>6

(* Once an event that named a path is handled, and no rule is unsettled, the *)
(* matcher is faithful to the disk where the path is.                        *)
LEMMA HandledIsKnown ==
  ASSUME IInv, IInv', HandleEvent, NEW p \in Head(events).paths,
         ~Unsettled(events', unseen')
  PROVE  Faithful(matcher', p.in)
<1> DEFINE ps == Head(events).paths
           d == p.in
<1>1. /\ checked_dirs' = checked_dirs \cup Probed(ps) /\ disk' = disk
      /\ events # <<>>
  BY DEF HandleEvent, Discover
<1>2. /\ TypeOK /\ RootChecked /\ CheckedUpToRoot'
      /\ NoOpinionUnloaded' /\ \A f \in IgnoreFiles : Knows(f)'
  BY DEF IInv
<1>3. ps \in SUBSET Paths /\ d \in Dirs
  BY <1>1, <1>2, FirstEvent DEF Paths
<1>4. d \in checked_dirs'
  <2>1. CASE d \in checked_dirs
    BY <1>1, <2>1
  <2>2. CASE d \notin checked_dirs
    <3>1. d # Root
      BY <1>2, <2>2 DEF RootChecked
    <3>2. d \in Up[d] /\ \A e \in Up[d] : d \in Up[e] => e = d
      BY <1>3, TreeAssumption
    <3>3. d \in Probed(ps)
      BY <1>3, <2>2, <3>1, <3>2 DEF Probed
    <3> QED BY <1>1, <3>3
  <2> QED BY <2>1, <2>2
<1>5. \A f \in Above(d) : f.in \in checked_dirs'
  BY <1>2, <1>4 DEF CheckedUpToRoot, Above
<1>6. \A f \in IgnoreFiles : f \notin unseen' /\ ~NamedIn(events', f)
  BY DEF Unsettled, RulePending, NamedIn
<1> HIDE DEF d, ps
<1>7. ASSUME NEW f \in IgnoreFiles
      PROVE  \/ matcher'[f] = disk[f]
             \/ f.in \notin checked_dirs' /\ matcher'[f] = "none"
  BY <1>1, <1>2, <1>6 DEF Knows, NoOpinionUnloaded
<1>8. Faithful(matcher', d)
  BY <1>5, <1>7 DEF Faithful, Above
<1> QED BY <1>8 DEF d

-----------------------------------------------------------------------------
(* Edits that are owed *)

(* An edit that is owed is still due. *)
OwedKept == \A d \in owed : DueOnDisk(d)

OInv == IInv /\ OwedKept /\ NothingHidden

(* At first nothing is owed. *)
LEMMA OwedInit == Init => OwedKept /\ NothingHidden
BY DEF Init, OwedKept, NothingHidden

(* An event more takes nothing away. *)
LEMMA MoreEvents ==
  ASSUME TypeOK, NEW e \in Event, events' = Append(events, e)
  PROVE  /\ \A d : EditPending(events, d) => EditPending(events', d)
         /\ \A d : Path(d, "file") \in e.paths => EditPending(events', d)
         /\ (\E i \in DOMAIN events : events[i].rescan) => \E i \in DOMAIN events' : events'[i].rescan
<1>1. /\ DOMAIN events' = 1 .. Len(events) + 1 /\ DOMAIN events = 1 .. Len(events) /\ Len(events) \in Nat
      /\ events'[Len(events) + 1] = e
      /\ \A i \in 1 .. Len(events) : events'[i] = events[i]
  BY DEF TypeOK
<1>2. Len(events) + 1 \in DOMAIN events' /\ \A i \in DOMAIN events : i \in DOMAIN events' /\ events'[i] = events[i]
  BY <1>1
<1> QED BY <1>1, <1>2 DEF EditPending

(* Of the events, the first is handled; the others are left. *)
LEMMA FewerEvents ==
  ASSUME TypeOK, events # <<>>
  PROVE  /\ \A d : EditPending(events, d) => Path(d, "file") \in Head(events).paths \/ EditPending(Tail(events), d)
         /\ (\E i \in DOMAIN events : events[i].rescan) =>
              Head(events).rescan \/ \E i \in DOMAIN Tail(events) : Tail(events)[i].rescan
<1>1. /\ Len(events) \in Nat \ {0}
      /\ DOMAIN events = 1..Len(events) /\ DOMAIN Tail(events) = 1..(Len(events) - 1)
      /\ \A i \in 1..(Len(events) - 1) : Tail(events)[i] = events[i + 1]
      /\ Head(events) = events[1]
  BY DEF TypeOK
<1>2. ASSUME NEW i \in DOMAIN events
      PROVE  events[i] = Head(events) \/ \E j \in DOMAIN Tail(events) : Tail(events)[j] = events[i]
  <2>1. CASE i = 1
    BY <1>1, <2>1
  <2>2. CASE i # 1
    <3>1. i - 1 \in DOMAIN Tail(events) /\ (i - 1) + 1 = i
      BY <1>1, <2>2
    <3>2. Tail(events)[i - 1] = events[(i - 1) + 1]
      BY <1>1, <3>1
    <3> QED BY <3>1, <3>2
  <2> QED BY <2>1, <2>2
<1> QED BY <1>2 DEF EditPending

(* An edit that is due is not dropped once the rules are settled. *)
LEMMA DroppedIsIgnored ==
  ASSUME IInv, IInv', OwedKept, HandleEvent, NEW d \in owed,
         Path(d, "file") \in Head(events).paths, ~Unsettled(events', unseen')
  PROVE  ~Ignored(Path(d, "file"), verdict')
<1>1. Path(d, "file").in = d
  BY DEF Path
<1>2. Faithful(matcher', d)
  BY <1>1, HandledIsKnown
<1>3. DueOnDisk(d) /\ verdict' \in Verdicts(matcher')
  BY DEF OwedKept, IInv
<1> QED BY <1>2, <1>3, DueIsNotIgnored DEF Ignored

(* Every step keeps what is owed on its way. *)
LEMMA OwedStep ==
  ASSUME OInv, IInv', [Next]_vars
  PROVE  OwedKept' /\ NothingHidden'
<1>1. TypeOK /\ OwedKept /\ NothingHidden /\ IInv
  BY DEF OInv, IInv
<1>2. ASSUME NEW ds \in Edits, Edit(ds) PROVE OwedKept' /\ NothingHidden'
  <2> DEFINE e == Changed({Path(d, "file") : d \in ds})
  <2>1. {Path(d, "file") : d \in ds} \in SUBSET Paths
    BY BoundsAssumption, EventTypes
  <2>2. e \in Event /\ e.paths = {Path(d, "file") : d \in ds} /\ events' = Append(events, e)
    BY <1>2, <2>1, EventTypes DEF Edit
  <2> HIDE DEF e
  <2>3. disk' = disk /\ owed' = owed \cup {d \in ds : DueOnDisk(d)}
    BY <1>2 DEF Edit
  <2>4. OwedKept'
    BY <1>1, <2>3 DEF OwedKept, DueOnDisk, KeptOnDisk, SaidElsewhere, DecidingOnDisk, Speaking, Above
  <2>5. NothingHidden'
    BY <1>1, <2>2, <2>3, MoreEvents DEF NothingHidden
  <2> QED BY <2>4, <2>5
<1>3. ASSUME NEW e \in Event, events' = Append(events, e), StillOwed PROVE OwedKept' /\ NothingHidden'
  <2>1. OwedKept'
    BY <1>3 DEF OwedKept, StillOwed
  <2>2. NothingHidden'
    BY <1>1, <1>3, MoreEvents DEF NothingHidden, StillOwed
  <2> QED BY <2>1, <2>2
<1>4. ASSUME NEW f \in IgnoreFiles, NEW o \in Opinion, WriteIgnore(f, o) PROVE OwedKept' /\ NothingHidden'
  <2>1. Changed({f}) \in Event
    BY EventTypes
  <2> QED BY <1>3, <1>4, <2>1 DEF WriteIgnore
<1>5. ASSUME NEW d \in Dirs, ReplaceDir(d) PROVE OwedKept' /\ NothingHidden'
  <2>1. PICK p \in Up[d] : events' = Append(events, Changed({Path(p, "dir")}))
    BY <1>5 DEF ReplaceDir
  <2>2. Changed({Path(p, "dir")}) \in Event
    BY TreeAssumption, EventTypes
  <2> QED BY <1>3, <1>5, <2>1, <2>2 DEF ReplaceDir
<1>6. CASE LoseEvents
  <2>1. PICK n \in 0 .. Len(events) - 1 : events' = Append(SubSeq(events, 1, n), Rescan)
    BY <1>6 DEF LoseEvents
  <2>2. SubSeq(events, 1, n) \in Seq(Event)
    BY <1>1 DEF TypeOK
  <2>3. events'[Len(SubSeq(events, 1, n)) + 1] = Rescan
        /\ Len(SubSeq(events, 1, n)) + 1 \in DOMAIN events'
    BY <2>1, <2>2
  <2>4. NothingHidden'
    BY <2>3 DEF NothingHidden, Rescan
  <2>5. OwedKept'
    BY <1>1, <1>6 DEF LoseEvents, OwedKept, DueOnDisk, KeptOnDisk, SaidElsewhere, DecidingOnDisk, Speaking, Above
  <2> QED BY <2>4, <2>5
<1>7. CASE HandleRescan
  <2>1. owed' = {d \in owed : EditPending(events', d)} /\ disk' = disk
    BY <1>7 DEF HandleRescan
  <2> QED BY <1>1, <2>1 DEF OwedKept, DueOnDisk, KeptOnDisk, SaidElsewhere, DecidingOnDisk, Speaking, Above, NothingHidden
<1>8. CASE HandleEvent
  <2> DEFINE ps == Head(events).paths
  <2>1. /\ events # <<>> /\ ~Head(events).rescan /\ events' = Tail(events) /\ disk' = disk
        /\ owed' = {d \in owed :
             \/ EditPending(Tail(events), d)
             \/ /\ Path(d, "file") \notin {p \in ps : ~Ignored(p, verdict')}
                /\ ~Unsettled(Tail(events), unseen')}
    BY <1>8 DEF HandleEvent
  <2>2. OwedKept'
    BY <1>1, <2>1 DEF OwedKept, DueOnDisk, KeptOnDisk, SaidElsewhere, DecidingOnDisk, Speaking, Above
  <2>3. ASSUME NEW d \in owed' PROVE EditPending(events', d) \/ \E i \in DOMAIN events' : events'[i].rescan
    <3>1. d \in owed
      BY <2>1
    <3>2. CASE EditPending(Tail(events), d)
      BY <2>1, <3>2
    <3>3. CASE /\ Path(d, "file") \notin {p \in ps : ~Ignored(p, verdict')}
               /\ ~Unsettled(Tail(events), unseen')
      <4>1. ~Unsettled(events', unseen')
        BY <2>1, <3>3
      <4>2. Path(d, "file") \notin ps
        BY <1>1, <1>8, <3>1, <3>3, <4>1, DroppedIsIgnored
      <4> QED BY <1>1, <2>1, <3>1, <4>2, FewerEvents DEF NothingHidden
    <3> QED BY <2>1, <3>2, <3>3
  <2> QED BY <2>2, <2>3 DEF NothingHidden
<1>9. CASE UNCHANGED vars
  BY <1>1, <1>9 DEF vars, history, OwedKept, DueOnDisk, KeptOnDisk, SaidElsewhere, DecidingOnDisk, Speaking, Above, NothingHidden
<1> QED BY <1>2, <1>4, <1>5, <1>6, <1>7, <1>8, <1>9 DEF Next

(* An edit that no rule on disk has ignored since is reported: it is never *)
(* dropped for a rule that is gone, whatever events were lost.             *)
THEOREM NoEditHidden == Spec => []NothingHidden
<1>1. Init => OInv
  BY IInvInit, OwedInit DEF OInv
<1>2. OInv /\ [Next]_vars => OInv'
  BY IInvStep, OwedStep DEF OInv
<1>3. OInv => NothingHidden
  BY DEF OInv
<1> QED BY <1>1, <1>2, <1>3, PTL DEF Spec

-----------------------------------------------------------------------------
(* Paths that are ignored *)

(* What the disk ignores is not reported, unless an ignore file has an     *)
(* event to come or had none, or one of another part of the tree keeps it. *)
THEOREM NoIgnoredPathLeaks == Spec => NothingLeaks
<1>1. ASSUME IInv, IInv', HandleEvent, NEW p \in sent'.paths, p.name = "file",
             IgnoredOnDisk(p.in)'
      PROVE  (Unsettled(events, unseen) \/ SaidElsewhere(p.in, "keep"))'
  <2> DEFINE d == p.in
  <2>1. p \in Head(events).paths /\ ~Ignored(p, verdict') /\ disk' = disk
    BY <1>1 DEF HandleEvent, Changed
  <2>2. disk \in [IgnoreFiles -> Opinion] /\ verdict' \in Verdicts(matcher')
    BY <1>1 DEF IInv, TypeOK
  <2>3. verdict' # "ignore"
    BY <1>1, <2>1 DEF Ignored
  <2>4. IgnoredOnDisk(d) /\ (SaidElsewhere(d, "keep")' <=> SaidElsewhere(d, "keep"))
    BY <1>1, <2>1 DEF IgnoredOnDisk, SaidElsewhere, DecidingOnDisk, Speaking, Above
  <2>5. SUFFICES ASSUME ~Unsettled(events', unseen'), ~SaidElsewhere(d, "keep") PROVE FALSE
    BY <2>4 DEF Unsettled, RulePending
  <2>6. Faithful(matcher', d)
    BY <1>1, <2>1, <2>5, HandledIsKnown
  <2> HIDE DEF d
  <2> QED BY <2>2, <2>3, <2>4, <2>5, <2>6, IgnoredIsIgnored
<1>2. IInv /\ IInv' /\ [Next]_vars =>
        [HandleEvent =>
           (\A p \in sent.paths : p.name = "file" /\ IgnoredOnDisk(p.in) =>
              Unsettled(events, unseen) \/ SaidElsewhere(p.in, "keep"))']_vars
  BY <1>1
<1> QED BY <1>2, Invariance, PTL DEF Spec, NothingLeaks
=============================================================================
