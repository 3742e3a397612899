--------------------------- MODULE DaemonLifecycle ---------------------------
(***************************************************************************)
(* Daemon processes that come and go over one runtime directory:           *)
(* run_daemon and watch_binary of src/daemon.rs, query, start_daemon,      *)
(* check_version_file and restart of src/client.rs, and the shell hooks of *)
(* src/init.rs, which ask a client only while they find no cache file.     *)
(*                                                                         *)
(* Processes share files and nothing else.  A daemon that starts probes    *)
(* the socket, removes it if nobody answers, binds it, writes its pid and  *)
(* version files and serves.  One that is told to stop either replaces     *)
(* itself by the installed binary or removes the files, one after another. *)
(* Every daemon that serves watches the socket's path, whosever it is.     *)
(***************************************************************************)
EXTENDS Naturals

CONSTANTS
  Daemons,    \* slots of daemon processes
  Clients,    \* client processes, started by shell prompts
  None,       \* no process, no file
  LastVersion,   \* bound: versions of the binary, from 1
  MaxFaults   \* bound: signals, crashes, installations, commands

Versions == 1..LastVersion

ASSUME BoundAssumption == LastVersion \in Nat \ {0} /\ MaxFaults \in Nat
ASSUME NoneAssumption == None \notin Daemons \cup Versions

VARIABLES
  sock,      \* the process that bound the socket file, None if it is absent
  pid,       \* the pid file
  version,   \* the version file
  cached,    \* does the hook find a cache file?
  proc,      \* per daemon: where run_daemon is, and the version it runs
  told,      \* daemons with a permit in `shutdown'
  restart,   \* daemons with restart_requested
  replaced,  \* daemons whose binary was replaced while they watched it
  asked,     \* daemons with a query to serve
  client,    \* per client: where it is
  bin,       \* the installed binary
  faults,    \* disturbances the bound still allows
  crashed    \* history: a process was killed, or failed, without cleaning up

files   == <<sock, pid, version, cached>>
signals == <<told, restart, replaced, asked>>
world   == <<bin, faults, crashed>>
vars    == <<files, proc, signals, client, world>>

Starting == {"probe", "unlink", "bind", "files", "watch"}
Stopping == {"rm sock", "rm cache", "rm files"}
Phase    == {"free", "up"} \cup Starting \cup Stopping

Free  == [at |-> "free", ver |-> 1]
Runs(v) == [at |-> "probe", ver |-> v]   \* a process of version v begins

(* Its listener exists from bind to the end of the process, or to exec. *)
Listens(d) == proc[d].at \in {"files", "watch", "up"} \cup Stopping

Answers == sock # None /\ Listens(sock)   \* UnixStream::connect succeeds

Init ==
  /\ sock = None /\ pid = None /\ version = None /\ cached = FALSE
  /\ proc = [d \in Daemons |-> Free]
  /\ bin = 1
  /\ told = {} /\ restart = {} /\ replaced = {} /\ asked = {}
  /\ client = [c \in Clients |-> "idle"]
  /\ faults = MaxFaults /\ crashed = FALSE

Goto(d, p) == proc' = [proc EXCEPT ![d] = [at |-> p, ver |-> proc[d].ver]]
At(d, p)   == proc[d].at = p

(* What a process still had to do goes with it. *)
Forget(d) ==
  /\ told' = told \ {d} /\ restart' = restart \ {d}
  /\ replaced' = replaced \ {d} /\ asked' = asked \ {d}

(* The process ends and its listener is closed; files stay as they are. *)
Ends(d) == proc' = [proc EXCEPT ![d] = Free] /\ Forget(d)

(* Removing the file at the socket's path tells every daemon that watches. *)
Watching == {d \in Daemons : proc[d].at = "up"}

(* Mutant: the process that bound the socket is told, if it was bound. *)
OwnerTold == {sock}

Removed  == IF sock = None THEN {} ELSE Watching

-----------------------------------------------------------------------------
(* run_daemon, up to its accept loop *)

(* Mutant: the daemon takes a socket file for a daemon without connecting. *)
TakenOnSight(d) ==
  /\ At(d, "probe")
  /\ IF sock = None THEN Goto(d, "bind") /\ UNCHANGED signals ELSE Ends(d)
  /\ UNCHANGED <<files, client, world>>

(* "Clean up stale socket": connect, and leave if a daemon answers *)
Probe(d) ==
  /\ At(d, "probe")
  /\ IF Answers THEN Ends(d)
     ELSE /\ Goto(d, IF sock = None THEN "bind" ELSE "unlink")
          /\ UNCHANGED signals
  /\ UNCHANGED <<files, client, world>>

(* The file is removed whosever it is by now; if it is gone the start fails. *)
Unlink(d) ==
  /\ At(d, "unlink")
  /\ IF sock = None THEN Ends(d)
     ELSE Goto(d, "bind") /\ told' = told \cup Removed /\ UNCHANGED <<restart, replaced, asked>>
  /\ sock' = None
  /\ UNCHANGED <<pid, version, cached, client, world>>

Bind(d) ==
  /\ At(d, "bind")
  /\ IF sock # None THEN Ends(d) /\ UNCHANGED sock
     ELSE Goto(d, "files") /\ sock' = d /\ UNCHANGED signals
  /\ UNCHANGED <<pid, version, cached, client, world>>

(* The pid file, the version file and the query timeout *)
WriteFiles(d) ==
  /\ At(d, "files") /\ Goto(d, "watch")
  /\ pid' = d /\ version' = proc[d].ver
  /\ UNCHANGED <<sock, cached, signals, client, world>>

(* The tasks that watch the socket, the signals and the binary are spawned. *)
StartWatching(d) ==
  /\ At(d, "watch") /\ Goto(d, "up")
  /\ UNCHANGED <<files, signals, client, world>>

-----------------------------------------------------------------------------
(* A daemon that is up.  Refreshes, and so cache files, follow a query. *)
Serve(d) ==
  /\ At(d, "up") /\ d \in asked
  /\ asked' = asked \ {d}
  /\ cached' = TRUE
  /\ UNCHANGED <<sock, pid, version, proc, told, restart, replaced, client, world>>

(* watch_binary: replaced, or deleted and installed elsewhere *)
BinaryReplaced(d) ==
  /\ d \in replaced /\ replaced' = replaced \ {d}
  /\ told' = told \cup {d}
  /\ restart' \in {restart, restart \cup {d}}
  /\ UNCHANGED <<files, proc, asked, client, world>>

(* maybe_clean_runtime_dir: everything goes if the directory version grew. *)
CleanDir(d) ==
  /\ bin # proc[d].ver
  /\ sock' = None /\ pid' = None /\ version' = None /\ cached' = FALSE
  /\ told' = (told \cup Removed) \ {d}

(* With restart_requested the process becomes the installed binary.        *)
Exec(d) ==
  /\ At(d, "up") /\ d \in told /\ d \in restart
  /\ proc' = [proc EXCEPT ![d] = Runs(bin)]
  /\ restart' = restart \ {d} /\ replaced' = replaced \ {d} /\ asked' = asked \ {d}
  /\ \/ told' = told \ {d} /\ UNCHANGED files
     \/ CleanDir(d)
  /\ UNCHANGED <<client, world>>

(* Otherwise, or if the exec fails, it stops; no task of it runs any more. *)
Stop(d) ==
  /\ At(d, "up") /\ d \in told
  /\ Goto(d, "rm sock") /\ Forget(d)
  /\ UNCHANGED <<files, client, world>>

(* Mutant: a socket that cannot be removed ends the shutdown there. *)
RemoveSockOrEnd(d) ==
  /\ At(d, "rm sock")
  /\ IF sock = None THEN Ends(d)
     ELSE Goto(d, "rm cache") /\ told' = told \cup Removed /\ UNCHANGED <<restart, replaced, asked>>
  /\ sock' = None
  /\ UNCHANGED <<pid, version, cached, client, world>>

(* The shutdown removes whatever is at its paths. *)
RemoveSock(d) ==
  /\ At(d, "rm sock") /\ Goto(d, "rm cache")
  /\ sock' = None
  /\ told' = told \cup Removed
  /\ UNCHANGED <<pid, version, cached, restart, replaced, asked, client, world>>

RemoveCache(d) ==
  /\ At(d, "rm cache") /\ Goto(d, "rm files")
  /\ cached' = FALSE
  /\ UNCHANGED <<sock, pid, version, signals, client, world>>

RemoveFiles(d) ==
  /\ At(d, "rm files") /\ Ends(d)
  /\ pid' = None /\ version' = None
  /\ UNCHANGED <<sock, cached, client, world>>

Run(d) ==
  \/ Probe(d) \/ Unlink(d) \/ Bind(d) \/ WriteFiles(d)
  \/ StartWatching(d) \/ Exec(d) \/ Stop(d)
  \/ RemoveSock(d) \/ RemoveCache(d) \/ RemoveFiles(d)

-----------------------------------------------------------------------------
(* Clients *)
Move(c, p) == client' = [client EXCEPT ![c] = p]
In(c, p)   == client[c] = p

(* A hook that finds no cache file runs a client, which asks the daemon.   *)
(* It may have an answer or time out; the daemon gets the query in any     *)
(* case.  Without an answer the client starts a daemon.                    *)
Ask(c) ==
  /\ In(c, "idle") /\ ~cached
  /\ IF Answers
       THEN asked' = asked \cup {sock} /\ (UNCHANGED client \/ Move(c, "start"))
       ELSE UNCHANGED asked /\ Move(c, "start")
  /\ UNCHANGED <<files, proc, told, restart, replaced, world>>

(* start_daemon: one that answers stays, unless its version file, if any,  *)
(* names another version; then it is sent a Shutdown, which may get lost.  *)
StartDaemon(c) ==
  /\ In(c, "start")
  /\ IF ~Answers THEN Move(c, "spawn") /\ UNCHANGED told
     ELSE IF version \in {None, bin} THEN Move(c, "idle") /\ UNCHANGED told
     ELSE Move(c, "upgrade") /\ told' \in {told, told \cup {sock}}
  /\ UNCHANGED <<files, proc, restart, replaced, asked, world>>

(* It waits for the socket to go, and removes it when that takes too long. *)
(* The waits, of 2 and 5 seconds, are longer than a daemon takes to start. *)
Waited == \A d \in Daemons : sock = d => proc[d].at \notin {"files", "watch"}

AwaitGone(c) ==
  /\ In(c, "upgrade") /\ Move(c, "spawn")
  /\ Waited
  /\ sock' = None
  /\ told' = told \cup Removed
  /\ UNCHANGED <<pid, version, cached, proc, restart, replaced, asked, world>>

(* Bound: with no slot free a process starts only to find a daemon there. *)
Spawn(c) ==
  /\ In(c, "spawn") /\ Move(c, "idle")
  /\ \/ \E d \in Daemons :
          /\ At(d, "free")
          /\ proc' = [proc EXCEPT ![d] = Runs(bin)]
          /\ pid' = IF pid = d THEN None ELSE pid   \* it names a process that is gone
     \/ /\ Answers /\ \A d \in Daemons : ~At(d, "free")
        /\ UNCHANGED <<proc, pid>>
  /\ UNCHANGED <<sock, version, cached, signals, world>>

(* The restart command, after its Shutdown: the same wait, and a kill of   *)
(* the process in the pid file if the socket stays.                        *)
AwaitRestart(c) ==
  /\ In(c, "restart") /\ Move(c, "start")
  /\ Waited
  /\ LET killed == {d \in Daemons : sock # None /\ pid = d} IN
       /\ proc' = [d \in Daemons |-> IF d \in killed THEN Free ELSE proc[d]]
       /\ told' = (told \cup Removed) \ killed
       /\ restart' = restart \ killed /\ replaced' = replaced \ killed
       /\ asked' = asked \ killed
  /\ sock' = None /\ pid' = None
  /\ UNCHANGED <<version, cached, world>>

Client(c) == Ask(c) \/ StartDaemon(c) \/ AwaitGone(c) \/ Spawn(c) \/ AwaitRestart(c)

-----------------------------------------------------------------------------
(* Disturbances *)
Fault == faults > 0 /\ faults' = faults - 1

(* SIGTERM, a Shutdown request, or SIGHUP *)
Signal(d) ==
  /\ Fault
  /\ At(d, "up")
  /\ told' = told \cup {d}
  /\ restart' \in {restart, restart \cup {d}}
  /\ UNCHANGED <<files, proc, replaced, asked, client, bin, crashed>>

RestartCommand(c) ==
  /\ Fault
  /\ In(c, "idle") /\ Move(c, "restart")
  /\ told' \in {told, IF Answers THEN told \cup {sock} ELSE told}
  /\ UNCHANGED <<files, proc, restart, replaced, asked, bin, crashed>>

(* At the path of the running daemons, or at another one *)
Install(v) ==
  /\ Fault
  /\ v > bin /\ bin' = v
  /\ replaced' \in {replaced, Watching}
  /\ UNCHANGED <<files, proc, told, restart, asked, client, crashed>>

(* SIGKILL, a panic, or an error of accept *)
Crash(d) ==
  /\ Fault
  /\ ~At(d, "free") /\ Ends(d)
  /\ crashed' = TRUE
  /\ UNCHANGED <<files, client, bin>>

CtrlC ==
  /\ Fault
  /\ Watching # {}
  /\ cached' = FALSE
  /\ UNCHANGED <<sock, pid, version, proc, signals, client, bin, crashed>>

(* The socket of a daemon that is up is deleted, which stops it. *)
DeleteSocket ==
  /\ Fault
  /\ sock \in Watching /\ sock' = None
  /\ told' = told \cup Removed
  /\ UNCHANGED <<pid, version, cached, proc, restart, replaced, asked, client, bin, crashed>>

Disturbance ==
  \/ \E d \in Daemons : Signal(d) \/ Crash(d)
  \/ \E c \in Clients : RestartCommand(c)
  \/ \E v \in Versions : Install(v)
  \/ CtrlC \/ DeleteSocket

(* Every hook finds a cache file and nothing is under way. *)
Quiet ==
  /\ cached
  /\ \A c \in Clients : In(c, "idle")
  /\ \A d \in Daemons : At(d, "free") \/ (At(d, "up") /\ d \notin told)
  /\ UNCHANGED vars

Next ==
  \/ \E d \in Daemons : Run(d) \/ Serve(d) \/ BinaryReplaced(d)
  \/ \E c \in Clients : Client(c)
  \/ Disturbance
  \/ Quiet

(* Processes run; prompts come, and waits of a client end. *)
Fairness ==
  /\ \A d \in Daemons : WF_vars(Run(d)) /\ WF_vars(Serve(d)) /\ WF_vars(BinaryReplaced(d))
  /\ \A c \in Clients : WF_vars(Client(c))

Spec == Init /\ [][Next]_vars /\ Fairness

-----------------------------------------------------------------------------
(* Every variable has its type. *)
TypeOK ==
  /\ {sock, pid} \subseteq Daemons \cup {None}
  /\ version \in Versions \cup {None}
  /\ {cached, crashed} \subseteq BOOLEAN
  /\ proc \in [Daemons -> [at : Phase, ver : Versions]]
  /\ told \subseteq Daemons /\ restart \subseteq Daemons
  /\ replaced \subseteq Daemons /\ asked \subseteq Daemons
  /\ client \in [Clients -> {"idle", "start", "upgrade", "spawn", "restart"}]
  /\ bin \in Versions
  /\ faults \in 0..MaxFaults

(* A hook that finds a cache file never asks.  So while there is one there *)
(* is a process that serves or will clean it up, or a client about to      *)
(* start one: only a process that was killed abandons its hooks.           *)
HooksAreNotAbandoned ==
  cached =>
    \/ \E d \in Daemons : ~At(d, "free")
    \/ \E c \in Clients : client[c] \in {"start", "spawn"}
    \/ crashed

(* A daemon about to stop will remove the socket of another. *)
Overlap ==
  \E d, e \in Daemons :
    /\ d # e /\ sock = e
    /\ At(d, "rm sock") \/ (At(d, "up") /\ d \in told)

(* Whatever is signalled, installed, deleted or restarted, and however     *)
(* daemons race to start and to stop: in the end there is a cache file     *)
(* again, and it stays.  For this, daemons must not go on for ever         *)
(* starting before the last one has stopped.                               *)
ServedAgain == <>[]~Overlap => <>[](cached \/ crashed)

=============================================================================
