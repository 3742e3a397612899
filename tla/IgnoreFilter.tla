----------------------------- MODULE IgnoreFilter -----------------------------
(***************************************************************************)
(* The watcher callback of one repository and the ignore filter it keeps:  *)
(* watch_repo and IgnoreFilter of src/watcher.rs.                          *)
(*                                                                         *)
(* The operating system queues an event for every change.  The callback    *)
(* takes them one at a time, under the filter's lock: it learns of ignore  *)
(* files from the paths, rebuilds the matcher when it learned something,   *)
(* and only then decides which paths to report.  When the queue overflows  *)
(* events are lost and one rescan event says so.                           *)
(*                                                                         *)
(* An ignore file is abstracted to its opinion on one kind of file, given  *)
(* by a pattern of the name: "ignore" (a "*.log"), "keep" (a "!*.log"), or *)
(* "none" when it has no such line or is not there.  The matcher is built  *)
(* for the root of the repository, whatever directory its patterns come    *)
(* from, so every opinion in it is about the whole repository.  Git and jj *)
(* read an opinion as one about its directory and below: the definitions   *)
(* that say "OnDisk" are theirs.                                           *)
(***************************************************************************)
EXTENDS Naturals, Sequences, FiniteSets

CONSTANTS
  Dirs,          \* directories of the working copy
  Root,          \* its root
  Up,            \* of a directory: itself and the directories above it
  Names,         \* names of ignore files
  IgnoreFiles,   \* the ignore files that may come to exist
  Edits,         \* sets of directories with files that one event may name
  MaxChanges     \* bound: edits, writes, moves and overflows

ASSUME TreeAssumption ==
  /\ Root \in Dirs
  /\ Up \in [Dirs -> SUBSET Dirs]
  /\ \A d \in Dirs : d \in Up[d] /\ Root \in Up[d]
  /\ \A d, e \in Dirs : e \in Up[d] => Up[e] \subseteq Up[d]
  /\ \A d, e \in Dirs : e \in Up[d] /\ d \in Up[e] => d = e
  /\ \A d \in Dirs : \A e, f \in Up[d] : e \in Up[f] \/ f \in Up[e]
  /\ Up[Root] = {Root}

(* A path is known by the directory it is in and its name. *)
Path(d, n) == [in |-> d, name |-> n]
Paths == [in : Dirs, name : Names \cup {"file", "dir"}]

ASSUME FilesAssumption ==
  /\ "file" \notin Names /\ "dir" \notin Names
  /\ IsFiniteSet(Dirs)
  /\ IgnoreFiles \subseteq [in : Dirs, name : Names]

ASSUME BoundsAssumption == MaxChanges \in Nat /\ Edits \subseteq SUBSET Dirs

VARIABLES
  disk,          \* per ignore file: its opinion on disk, "none" if absent
  events,        \* the operating system's queue for this watch
  matcher,       \* per ignore file: the opinion the matcher was built with
  verdict,       \* what that matcher says of the kind of file
  checked_dirs,  \* directories probed for ignore files
  loaded_files,  \* ignore files the filter knows of
  sent,          \* what the callback reported of the last event
  left,          \* changes the bound still allows
  unseen,        \* history: ignore files that changed without an event
  owed           \* history: directories with an edit not ignored, not reported

filter  == <<matcher, verdict, checked_dirs, loaded_files>>
history == <<unseen, owed>>
vars    == <<disk, events, filter, sent, left, history>>

Opinion == {"ignore", "keep", "none"}

Changed(ps) == [rescan |-> FALSE, paths |-> ps]   \* an event naming paths
Rescan      == [rescan |-> TRUE, paths |-> {}]    \* the queue overflowed
Nothing     == Changed({})                        \* nothing was sent
Event       == [rescan : BOOLEAN, paths : SUBSET Paths]

-----------------------------------------------------------------------------
(* The ignore files that say something of the kind of file, wherever they are *)
Speaking(opinion) == {f \in IgnoreFiles : opinion[f] # "none"}

Depth(f) == Cardinality(Up[f.in])

(* Mutant: the first glob that matches decides. *)
DecidingFirst(opinion) ==
  {f \in Speaking(opinion) : \A g \in Speaking(opinion) : Depth(f) <= Depth(g)}

(* build_matcher adds files by depth, and of the globs that match the one    *)
(* added last decides: one of the deepest.                                   *)
Deciding(opinion) ==
  {f \in Speaking(opinion) : \A g \in Speaking(opinion) : Depth(g) <= Depth(f)}

(* Files of one depth are added in the order a HashSet gives them, which may *)
(* be another with every rebuild.                                            *)
Verdicts(opinion) ==
  IF Speaking(opinion) = {} THEN {"none"} ELSE {opinion[f] : f \in Deciding(opinion)}

(* process_event asks the one matcher of every path. *)
Ignored(p, v) == p.name = "file" /\ v = "ignore"

(* What git and jj make of the ignore files for a directory: those above it  *)
(* speak, and the deepest of them decide.                                    *)
Above(d) == {f \in IgnoreFiles : f.in \in Up[d]}

DecidingOnDisk(d) ==
  {f \in Above(d) \cap Speaking(disk) :
     \A g \in Above(d) \cap Speaking(disk) : Depth(g) <= Depth(f)}

KeptOnDisk(d)    == \A f \in DecidingOnDisk(d) : disk[f] = "keep"
IgnoredOnDisk(d) == DecidingOnDisk(d) # {} /\ \A f \in DecidingOnDisk(d) : disk[f] = "ignore"

(* An ignore file of another part of the tree says so.  To git and jj that   *)
(* is nothing to d; the matcher may follow it in d too.                      *)
SaidElsewhere(d, o) == \E f \in IgnoreFiles \ Above(d) : disk[f] = o

(* An edit in d is due to be reported: nothing on disk says to ignore it. *)
DueOnDisk(d) == KeptOnDisk(d) /\ ~SaidElsewhere(d, "ignore")

(* build_matcher reads every loaded file again. *)
Built(opinion, loaded) ==
  [f \in IgnoreFiles |-> IF f \in loaded THEN opinion[f] ELSE "none"]

-----------------------------------------------------------------------------
Present == {f \in IgnoreFiles : disk[f] # "none"}

(* IgnoreFilter::new, when the repository is first watched: only the ignore *)
(* files of the root are looked for.                                        *)
Init ==
  /\ disk \in [IgnoreFiles -> Opinion]
  /\ events = <<>>
  /\ checked_dirs = {Root}
  /\ loaded_files = {f \in Present : f.in = Root}
  /\ matcher = Built(disk, loaded_files)
  /\ verdict \in Verdicts(matcher)
  /\ sent = Nothing
  /\ left = MaxChanges
  /\ unseen = {} /\ owed = {}

Spend == left > 0 /\ left' = left - 1

(* Files are edited; one event may name several (a rename names two). *)
Edit(ds) ==
  /\ Spend
  /\ events' = Append(events, Changed({Path(d, "file") : d \in ds}))
  /\ owed' = owed \cup {d \in ds : DueOnDisk(d)}
  /\ UNCHANGED <<disk, filter, sent, unseen>>

(* An edit is owed only while no rule on disk says to ignore it. *)
StillOwed == owed' = {d \in owed : DueOnDisk(d)'}

(* An ignore file is created, changed or deleted. *)
WriteIgnore(f, o) ==
  /\ Spend
  /\ disk[f] # o
  /\ disk' = [disk EXCEPT ![f] = o]
  /\ events' = Append(events, Changed({f}))
  /\ StillOwed
  /\ UNCHANGED <<filter, sent, unseen>>

(* A directory is replaced by a rename, and with it an ignore file below:  *)
(* the event names the directory, and nothing in it.  The file is unseen   *)
(* if the filter thinks it knows what is there.                            *)
ReplaceDir(d) ==
  /\ Spend
  /\ d # Root
  /\ \E f \in IgnoreFiles, o \in Opinion :
       /\ d \in Up[f.in] /\ disk[f] # o
       /\ disk' = [disk EXCEPT ![f] = o]
       /\ unseen' = IF f.in \in checked_dirs \/ f \in loaded_files
                      THEN unseen \cup {f} ELSE unseen
  /\ \E p \in Up[d] \ {d} :
       /\ Up[p] = Up[d] \ {d}
       /\ events' = Append(events, Changed({Path(p, "dir")}))
  /\ StillOwed
  /\ UNCHANGED <<filter, sent>>

(* The queue overflows: its newest events are lost, a rescan follows. *)
LoseEvents ==
  /\ Spend
  /\ \E n \in 0 .. Len(events) - 1 :
       /\ events' = Append(SubSeq(events, 1, n), Rescan)
       /\ unseen' = unseen \cup
            {f \in IgnoreFiles : \E i \in n + 1 .. Len(events) : f \in events[i].paths}
  /\ UNCHANGED <<disk, filter, sent, owed>>

-----------------------------------------------------------------------------
(* discover_ignore_files walks up from each path until it meets a directory *)
(* it has checked, or the root.                                             *)
(* Mutant: it looks at the nearest directory only. *)
ProbedNearest(ps) == {p.in : p \in ps} \ (checked_dirs \cup {Root})

(* Mutant: the walk begins with the path itself. *)
ProbedFromPath(ps) == ps \cup ProbedNearest(ps)

Probed(ps) ==
  {d \in Dirs \ {Root} :
     \E p \in ps : d \in Up[p.in] /\ \A e \in Up[p.in] : d \in Up[e] => e \notin checked_dirs}

(* Ignore files an event names, and those found by probing *)
Named(ps) == ps \cap IgnoreFiles
Found(ps) == {f \in Present : f.in \in Probed(ps)}

LoadedAfter(ps) ==
  (loaded_files \ (Named(ps) \ Present)) \cup (Named(ps) \cap Present) \cup Found(ps)

(* Mutant: only a new ignore file is a reason to rebuild, not a changed one. *)
RebuildsIfNew(ps) == LoadedAfter(ps) # loaded_files

NeedsRebuild(ps) ==
  \/ Named(ps) \cap (Present \cup loaded_files) # {}
  \/ Found(ps) \ loaded_files # {}

Discover(ps) ==
  /\ checked_dirs' = checked_dirs \cup Probed(ps)
  /\ loaded_files' = LoadedAfter(ps)
  /\ IF NeedsRebuild(ps)
       THEN /\ matcher' = Built(disk, loaded_files')
            /\ verdict' \in Verdicts(matcher')
       ELSE UNCHANGED <<matcher, verdict>>

(* Is an event in a queue that names an ignore file, or d's file? *)
RulePending(q) == \E i \in DOMAIN q : q[i].paths \cap IgnoreFiles # {}
EditPending(q, d) == \E i \in DOMAIN q : Path(d, "file") \in q[i].paths

(* Rules moved without the filter being told yet, or at all. *)
Unsettled(q, missed) == RulePending(q) \/ missed # {}

(* process_event, after discovery: what is not ignored is reported, and an *)
(* event whose paths are all ignored is dropped.                           *)
HandleEvent ==
  /\ events # <<>>
  /\ ~Head(events).rescan
  /\ LET ps == Head(events).paths
         kept == {p \in ps : ~Ignored(p, verdict')}
     IN
       /\ Discover(ps)
       /\ sent' = Changed(kept)
       /\ unseen' = unseen \ ps
       /\ owed' = {d \in owed : \/ EditPending(Tail(events), d)
                                \/ /\ Path(d, "file") \notin kept
                                   /\ ~Unsettled(Tail(events), unseen')}
  /\ events' = Tail(events)
  /\ UNCHANGED <<disk, left>>

(* Mutant: reset_discovery keeps the directories already probed. *)
ProbedStay == checked_dirs

ProbedAfterReset == {Root}

(* reset_discovery forgets what it probed and which loaded files are gone, *)
(* and rebuilds; it does not look for ignore files in the root.            *)
HandleRescan ==
  /\ events # <<>>
  /\ Head(events).rescan
  /\ checked_dirs' = ProbedAfterReset
  /\ loaded_files' = loaded_files \cap Present
  /\ matcher' = Built(disk, loaded_files')
  /\ verdict' \in Verdicts(matcher')
  /\ sent' = Rescan
  /\ unseen' = {f \in unseen : f.in = Root /\ f \notin loaded_files}
  /\ owed' = {d \in owed : EditPending(Tail(events), d)}
  /\ events' = Tail(events)
  /\ UNCHANGED <<disk, left>>

Next ==
  \/ \E ds \in Edits : Edit(ds)
  \/ \E f \in IgnoreFiles, o \in Opinion : WriteIgnore(f, o)
  \/ \E d \in Dirs : ReplaceDir(d)
  \/ LoseEvents
  \/ HandleEvent
  \/ HandleRescan

Spec == Init /\ [][Next]_vars

-----------------------------------------------------------------------------
(* Every variable has its type. *)
TypeOK ==
  /\ disk \in [IgnoreFiles -> Opinion]
  /\ events \in Seq(Event)
  /\ matcher \in [IgnoreFiles -> Opinion]
  /\ verdict \in Opinion
  /\ checked_dirs \in SUBSET Dirs
  /\ loaded_files \in SUBSET IgnoreFiles
  /\ sent \in Event
  /\ left \in Nat
  /\ unseen \in SUBSET IgnoreFiles /\ owed \in SUBSET Dirs

(* discover_ignore_files stops at the first checked directory because "all *)
(* its ancestors" are checked too: no ignore file between a checked        *)
(* directory and the root is skipped, whatever the order of events.        *)
CheckedUpToRoot == \A d \in checked_dirs : Up[d] \subseteq checked_dirs

(* An ignore file of a directory the filter has checked, or one it has     *)
(* loaded, is in the matcher as it is on disk, unless its last change is   *)
(* still queued or came without an event.                                  *)
MatcherKnowsDisk ==
  \A f \in IgnoreFiles :
    \/ f.in \notin checked_dirs /\ f \notin loaded_files
    \/ f \in unseen
    \/ \E i \in DOMAIN events : f \in events[i].paths
    \/ matcher[f] = disk[f]

(* An edit that no ignore file on disk has spoken against since is         *)
(* reported, by its path or by a rescan: it is never dropped because of a  *)
(* rule that is gone, or one that a deeper file takes back.                *)
NothingHidden ==
  \A d \in owed :
    EditPending(events, d) \/ \E i \in DOMAIN events : events[i].rescan

(* A path is not reported against the rules on disk: what an ignore file   *)
(* ignores does not leak into the incremental diff, even after the event   *)
(* of that file was lost in an overflow.  It may if another part of the    *)
(* tree keeps such files, which is one rule for the whole repository.      *)
NothingLeaks ==
  [][HandleEvent =>
       (\A p \in sent.paths : p.name = "file" /\ IgnoredOnDisk(p.in) =>
          Unsettled(events, unseen) \/ SaidElsewhere(p.in, "keep"))']_vars
=============================================================================
