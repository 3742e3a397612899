--------------------------- MODULE RefreshPromise ---------------------------
(***************************************************************************)
(* What the refresh loop promises, without channels, timers or phases:     *)
(* changes are owed a refresh; a repository has at most one refresh at a   *)
(* time; a refresh takes some of the owed changes of its repository with a *)
(* record that covers every one of them; when it ends they are served.     *)
(***************************************************************************)
EXTENDS RefreshWork, Sequences

VARIABLES
  owed,     \* reported changes no refresh has taken
  work,     \* per repository: <<>> or <<the record being refreshed>>
  served    \* changes whose refresh has ended

pvars == <<owed, work, served>>

Init ==
  /\ owed = {}
  /\ work = [r \in Repos |-> <<>>]
  /\ served = {}

Report ==
  /\ \E r \in Repos, c \in Changes, s \in Shape :
       /\ c \notin served
       /\ owed' = owed \cup {ChangeEvent(r, c, s)}
  /\ UNCHANGED <<work, served>>

(* The owed changes a record takes along *)
TakenBy(p) == {e \in owed : e.id \in p.why}

(* Any number of idle repositories start at once, as they do for a Flush. *)
Begins(r) ==
  /\ work[r] = <<>>
  /\ Len(work'[r]) = 1
  /\ \A e \in TakenBy(work'[r][1]) : e.repo = r /\ Covers(work'[r][1], e)

Start ==
  LET new == {r \in Repos : work'[r] # work[r]} IN
    /\ new # {}
    /\ \A r \in new : Begins(r)
    /\ owed' = owed \ UNION {TakenBy(work'[r][1]) : r \in new}
    /\ UNCHANGED served

Finish(r) ==
  /\ work[r] # <<>>
  /\ work' = [work EXCEPT ![r] = <<>>]
  /\ served' = served \cup work[r][1].why
  /\ UNCHANGED owed

Next == Report \/ Start \/ \E r \in Repos : Finish(r)

Safe == Init /\ [][Next]_pvars

=============================================================================
