------------------------ MODULE DaemonLifecycleProofs ------------------------
(***************************************************************************)
(* Theorems about daemon processes over one runtime directory, for any     *)
(* number of processes, clients, versions and disturbances.                *)
(***************************************************************************)
EXTENDS DaemonLifecycle, TLAPS

(* A process can only be where run_daemon is. *)
LEMMA PhasesDiffer ==
  /\ {"probe", "unlink", "bind", "files", "watch", "up", "free"} \subseteq Phase
  /\ {"rm sock", "rm cache", "rm files"} \subseteq Phase
BY DEF Phase, Starting, Stopping

(* Moving a process, or ending it, keeps the type of `proc'. *)
LEMMA ProcType ==
  ASSUME TypeOK, NEW d \in Daemons
  PROVE  /\ Free \in [at : Phase, ver : Versions]
         /\ \A v \in Versions : Runs(v) \in [at : Phase, ver : Versions]
         /\ \A p \in Phase : Goto(d, p) => proc' \in [Daemons -> [at : Phase, ver : Versions]]
         /\ Ends(d) => proc' \in [Daemons -> [at : Phase, ver : Versions]]
<1>1. 1 \in Versions
  BY BoundAssumption DEF Versions
<1>2. Free \in [at : Phase, ver : Versions]
  BY <1>1, PhasesDiffer DEF Free
<1>3. \A v \in Versions : Runs(v) \in [at : Phase, ver : Versions]
  BY PhasesDiffer DEF Runs
<1>4. ASSUME NEW p \in Phase, Goto(d, p)
      PROVE  proc' \in [Daemons -> [at : Phase, ver : Versions]]
  BY <1>4 DEF Goto, TypeOK
<1>5. Ends(d) => proc' \in [Daemons -> [at : Phase, ver : Versions]]
  BY <1>2 DEF Ends, TypeOK
<1> QED BY <1>2, <1>3, <1>4, <1>5

(* What a step does to the places of processes *)
LEMMA Placed ==
  ASSUME TypeOK, NEW d \in Daemons
  PROVE  /\ \A p \in Phase : Goto(d, p) =>
              /\ At(d, p)'
              /\ \A e \in Daemons \ {d} : proc'[e] = proc[e]
         /\ Ends(d) =>
              /\ At(d, "free")'
              /\ \A e \in Daemons \ {d} : proc'[e] = proc[e]
BY DEF Goto, At, Ends, Free, TypeOK

(* A client that moves leaves the others where they are. *)
LEMMA Moved ==
  ASSUME TypeOK, NEW c \in Clients, NEW p, Move(c, p)
  PROVE  client'[c] = p /\ \A b \in Clients \ {c} : client'[b] = client[b]
BY DEF Move, TypeOK

-----------------------------------------------------------------------------
(* Types *)

(* Nobody is there and nothing is done at the start. *)
LEMMA TypeInit == Init => TypeOK
<1>1. 1 \in Versions
  BY BoundAssumption DEF Versions
<1> SUFFICES ASSUME Init PROVE TypeOK
  OBVIOUS
<1>2. Free \in [at : Phase, ver : Versions]
  BY <1>1, PhasesDiffer DEF Free
<1>3. proc \in [Daemons -> [at : Phase, ver : Versions]]
  BY <1>2 DEF Init
<1>4. cached \in BOOLEAN /\ crashed \in BOOLEAN
  BY DEF Init
<1> QED BY <1>1, <1>3, <1>4, BoundAssumption DEF Init, TypeOK

(* Every step keeps every variable in its type. *)
LEMMA TypeStep == TypeOK /\ [Next]_vars => TypeOK'
<1> SUFFICES ASSUME TypeOK, [Next]_vars PROVE TypeOK'
  OBVIOUS
<1> USE BoundAssumption, NoneAssumption
<1> USE DEF vars, files, signals, world
<1>0. Removed \subseteq Daemons
  BY DEF Removed, Watching
<1>1. ASSUME NEW d \in Daemons, Run(d) \/ Serve(d) \/ BinaryReplaced(d)
      PROVE  TypeOK'
  <2>1. CASE Probe(d)
    <3>1. proc' \in [Daemons -> [at : Phase, ver : Versions]]
      BY <2>1, ProcType, PhasesDiffer DEF Probe
    <3> QED BY <2>1, <3>1, <1>0 DEF Probe, Ends, Forget, Goto, TypeOK
  <2>2. CASE Unlink(d)
    <3>1. proc' \in [Daemons -> [at : Phase, ver : Versions]]
      BY <2>2, ProcType, PhasesDiffer DEF Unlink
    <3> QED BY <2>2, <3>1, <1>0 DEF Unlink, Ends, Forget, Goto, TypeOK
  <2>3. CASE Bind(d)
    <3>1. proc' \in [Daemons -> [at : Phase, ver : Versions]]
      BY <2>3, ProcType, PhasesDiffer DEF Bind
    <3> QED BY <2>3, <3>1, <1>0 DEF Bind, Ends, Forget, Goto, TypeOK
  <2>4. CASE WriteFiles(d)
    <3>1. proc' \in [Daemons -> [at : Phase, ver : Versions]]
      BY <2>4, ProcType, PhasesDiffer DEF WriteFiles
    <3> QED BY <2>4, <3>1, <1>0 DEF WriteFiles, Ends, Forget, Goto, TypeOK
  <2>5. CASE StartWatching(d)
    <3>1. proc' \in [Daemons -> [at : Phase, ver : Versions]]
      BY <2>5, ProcType, PhasesDiffer DEF StartWatching
    <3> QED BY <2>5, <3>1, <1>0 DEF StartWatching, Ends, Forget, Goto, TypeOK
  <2>6. CASE Serve(d)
    <3>1. proc' \in [Daemons -> [at : Phase, ver : Versions]]
      BY <2>6, ProcType, PhasesDiffer DEF Serve, TypeOK
    <3> QED BY <2>6, <3>1, <1>0 DEF Serve, Ends, Forget, Goto, TypeOK
  <2>7. CASE BinaryReplaced(d)
    <3>1. proc' \in [Daemons -> [at : Phase, ver : Versions]]
      BY <2>7, ProcType, PhasesDiffer DEF BinaryReplaced, TypeOK
    <3> QED BY <2>7, <3>1, <1>0 DEF BinaryReplaced, Ends, Forget, Goto, TypeOK
  <2>8. CASE Exec(d)
    <3>1. proc' \in [Daemons -> [at : Phase, ver : Versions]]
      BY <2>8, ProcType, PhasesDiffer DEF Exec, TypeOK
    <3> QED BY <2>8, <3>1, <1>0 DEF Exec, CleanDir, Ends, Forget, Goto, TypeOK
  <2>9. CASE Stop(d)
    <3>1. proc' \in [Daemons -> [at : Phase, ver : Versions]]
      BY <2>9, ProcType, PhasesDiffer DEF Stop
    <3> QED BY <2>9, <3>1, <1>0 DEF Stop, Ends, Forget, Goto, TypeOK
  <2>10. CASE RemoveSock(d)
    <3>1. proc' \in [Daemons -> [at : Phase, ver : Versions]]
      BY <2>10, ProcType, PhasesDiffer DEF RemoveSock
    <3> QED BY <2>10, <3>1, <1>0 DEF RemoveSock, Ends, Forget, Goto, TypeOK
  <2>11. CASE RemoveCache(d)
    <3>1. proc' \in [Daemons -> [at : Phase, ver : Versions]]
      BY <2>11, ProcType, PhasesDiffer DEF RemoveCache
    <3> QED BY <2>11, <3>1, <1>0 DEF RemoveCache, Ends, Forget, Goto, TypeOK
  <2>12. CASE RemoveFiles(d)
    <3>1. proc' \in [Daemons -> [at : Phase, ver : Versions]]
      BY <2>12, ProcType, PhasesDiffer DEF RemoveFiles
    <3> QED BY <2>12, <3>1, <1>0 DEF RemoveFiles, Ends, Forget, Goto, TypeOK
  <2> QED BY <1>1, <2>1, <2>2, <2>3, <2>4, <2>5, <2>6, <2>7, <2>8, <2>9, <2>10, <2>11, <2>12 DEF Run
<1>2. ASSUME NEW c \in Clients, Client(c)
      PROVE  TypeOK'
  <2>1. CASE Ask(c)
    BY <2>1, <1>0, ProcType DEF Ask, Move, Answers, TypeOK
  <2>2. CASE StartDaemon(c)
    BY <2>2, <1>0, ProcType DEF StartDaemon, Move, Answers, TypeOK
  <2>3. CASE AwaitGone(c)
    BY <2>3, <1>0, ProcType DEF AwaitGone, Move, Answers, TypeOK
  <2>4. CASE Spawn(c)
    BY <2>4, <1>0, ProcType DEF Spawn, Move, Answers, TypeOK
  <2>5. CASE AwaitRestart(c)
    BY <2>5, <1>0, ProcType DEF AwaitRestart, Move, Answers, TypeOK
  <2> QED BY <1>2, <2>1, <2>2, <2>3, <2>4, <2>5 DEF Client
<1>3. CASE Disturbance
  <2>0. Fault => faults' \in 0..MaxFaults
    BY DEF Fault, TypeOK
  <2>1. ASSUME NEW d \in Daemons, Signal(d) PROVE TypeOK'
    BY <2>1, <2>0, <1>0, ProcType DEF Signal, Ends, Forget, Move, Answers, Watching, TypeOK, Fault
  <2>2. ASSUME NEW d \in Daemons, Crash(d) PROVE TypeOK'
    BY <2>2, <2>0, <1>0, ProcType DEF Crash, Ends, Forget, Move, Answers, Watching, TypeOK, Fault
  <2>3. ASSUME NEW c \in Clients, RestartCommand(c) PROVE TypeOK'
    BY <2>3, <2>0, <1>0, ProcType DEF RestartCommand, Ends, Forget, Move, Answers, Watching, TypeOK, Fault
  <2>4. ASSUME NEW v \in Versions, Install(v) PROVE TypeOK'
    BY <2>4, <2>0, <1>0, ProcType DEF Install, Ends, Forget, Move, Answers, Watching, TypeOK, Fault
  <2>5. ASSUME CtrlC PROVE TypeOK'
    BY <2>5, <2>0, <1>0, ProcType DEF CtrlC, Ends, Forget, Move, Answers, Watching, TypeOK, Fault
  <2>6. ASSUME DeleteSocket PROVE TypeOK'
    BY <2>6, <2>0, <1>0, ProcType DEF DeleteSocket, Ends, Forget, Move, Answers, Watching, TypeOK, Fault
  <2> QED BY <1>3, <2>1, <2>2, <2>3, <2>4, <2>5, <2>6 DEF Disturbance
<1>4. CASE Quiet \/ UNCHANGED vars
  BY <1>4 DEF Quiet, TypeOK
<1> QED BY <1>1, <1>2, <1>3, <1>4 DEF Next

(* Every variable of the runtime directory and its processes has its type. *)
THEOREM TypeCorrect == Spec => []TypeOK
BY TypeInit, TypeStep, PTL DEF Spec

-----------------------------------------------------------------------------
(* The inductive invariant *)

(* The socket is that of a process that has bound it and not removed it.   *)
OwnerLives ==
  /\ \A d \in Daemons : At(d, "bind") \/ At(d, "rm cache") \/ At(d, "rm files") => sock # d
  /\ ~crashed => \A d \in Daemons : At(d, "free") => sock # d

(* A process that will serve, remove the cache files, or start another that *)
(* does: not one that may find its work done by somebody else and leave.    *)
Keeps(d) == ~At(d, "free") /\ ~At(d, "unlink") /\ ~At(d, "rm files")

Kept ==
  cached /\ ~crashed =>
    \/ sock # None
    \/ \E d \in Daemons : Keeps(d)
    \/ \E c \in Clients : client[c] \in {"start", "spawn"}

IInv == TypeOK /\ OwnerLives /\ Kept

(* What is kept is not abandoned. *)
LEMMA KeptMeansNotAbandoned == IInv => HooksAreNotAbandoned
<1> SUFFICES ASSUME IInv, cached, ~crashed
             PROVE  \/ \E d \in Daemons : ~At(d, "free")
                    \/ \E c \in Clients : client[c] \in {"start", "spawn"}
  BY DEF HooksAreNotAbandoned
<1>1. CASE sock # None
  BY <1>1 DEF IInv, TypeOK, OwnerLives
<1>2. CASE sock = None
  BY <1>2 DEF IInv, Kept, Keeps
<1> QED BY <1>1, <1>2

(* A process that keeps, or is where it was, keeps still. *)
LEMMA KeepsOn ==
  ASSUME TypeOK, NEW d \in Daemons, NEW p \in Phase, Goto(d, p),
         p \notin {"free", "unlink", "rm files"}
  PROVE  Keeps(d)'
BY Placed DEF Keeps, At

(* The socket's owner answers only while it keeps. *)
LEMMA AnswersKeeps ==
  ASSUME IInv, Answers
  PROVE  /\ sock \in Daemons /\ Keeps(sock)
         /\ \A d \in Daemons : At(d, "probe") => sock # d
BY DEF IInv, TypeOK, Answers, Listens, Stopping, Keeps, OwnerLives, At

(* The invariant holds at the start. *)
LEMMA IInvInit == Init => IInv
BY TypeInit, NoneAssumption DEF Init, IInv, OwnerLives, Kept

(* Every step keeps the invariant. *)
LEMMA IInvStep == IInv /\ [Next]_vars => IInv'
<1> SUFFICES ASSUME IInv, [Next]_vars PROVE IInv'
  OBVIOUS
<1> USE NoneAssumption
<1> USE DEF vars, files, signals, world
<1>0. TypeOK /\ OwnerLives /\ Kept /\ TypeOK'
  BY TypeStep DEF IInv
<1> SUFFICES OwnerLives' /\ Kept'
  BY <1>0 DEF IInv
<1>1. ASSUME NEW d \in Daemons, Run(d) \/ Serve(d) \/ BinaryReplaced(d)
      PROVE  OwnerLives' /\ Kept'
  <2>1. CASE Probe(d)
    <3>1. OwnerLives'
      BY <2>1, <1>0, Placed, AnswersKeeps, PhasesDiffer DEF Probe, OwnerLives, At
    <3>2. Kept'
      BY <2>1, <1>0, Placed, AnswersKeeps, KeepsOn, PhasesDiffer DEF Probe, OwnerLives, Kept, Keeps, At
    <3> QED BY <3>1, <3>2
  <2>2. CASE Unlink(d)
    <3>1. OwnerLives'
      BY <2>2, <1>0, Placed, AnswersKeeps, PhasesDiffer DEF Unlink, OwnerLives, At
    <3>2. Kept'
      BY <2>2, <1>0, Placed, AnswersKeeps, KeepsOn, PhasesDiffer DEF Unlink, OwnerLives, Kept, Keeps, At
    <3> QED BY <3>1, <3>2
  <2>3. CASE Bind(d)
    <3>1. OwnerLives'
      BY <2>3, <1>0, Placed, AnswersKeeps, PhasesDiffer DEF Bind, OwnerLives, At
    <3>2. Kept'
      BY <2>3, <1>0, Placed, AnswersKeeps, KeepsOn, PhasesDiffer DEF Bind, OwnerLives, Kept, Keeps, At
    <3> QED BY <3>1, <3>2
  <2>4. CASE WriteFiles(d)
    <3>1. OwnerLives'
      BY <2>4, <1>0, Placed, AnswersKeeps, PhasesDiffer DEF WriteFiles, OwnerLives, At
    <3>2. Kept'
      BY <2>4, <1>0, Placed, AnswersKeeps, KeepsOn, PhasesDiffer DEF WriteFiles, OwnerLives, Kept, Keeps, At
    <3> QED BY <3>1, <3>2
  <2>5. CASE StartWatching(d)
    <3>1. OwnerLives'
      BY <2>5, <1>0, Placed, AnswersKeeps, PhasesDiffer DEF StartWatching, OwnerLives, At
    <3>2. Kept'
      BY <2>5, <1>0, Placed, AnswersKeeps, KeepsOn, PhasesDiffer DEF StartWatching, OwnerLives, Kept, Keeps, At
    <3> QED BY <3>1, <3>2
  <2>6. CASE Serve(d)
    <3>1. OwnerLives'
      BY <2>6, <1>0, Placed, AnswersKeeps, PhasesDiffer DEF Serve, OwnerLives, At
    <3>2. Kept'
      BY <2>6, <1>0, Placed, AnswersKeeps, KeepsOn, PhasesDiffer DEF Serve, OwnerLives, Kept, Keeps, At
    <3> QED BY <3>1, <3>2
  <2>7. CASE BinaryReplaced(d)
    <3>1. OwnerLives'
      BY <2>7, <1>0, Placed, AnswersKeeps, PhasesDiffer DEF BinaryReplaced, OwnerLives, At
    <3>2. Kept'
      BY <2>7, <1>0, Placed, AnswersKeeps, KeepsOn, PhasesDiffer DEF BinaryReplaced, OwnerLives, Kept, Keeps, At
    <3> QED BY <3>1, <3>2
  <2>8. CASE Exec(d)
    <3>1. At(d, "probe")' /\ \A e \in Daemons \ {d} : proc'[e] = proc[e]
      BY <2>8, <1>0 DEF Exec, Runs, At, TypeOK
    <3>2. sock' \in {sock, None} /\ crashed' = crashed
      BY <2>8 DEF Exec, CleanDir
    <3>3. OwnerLives'
      BY <3>1, <3>2, <1>0 DEF OwnerLives, At
    <3>4. Keeps(d)'
      BY <3>1 DEF Keeps, At
    <3> QED BY <3>3, <3>4 DEF Kept
  <2>9. CASE Stop(d)
    <3>1. OwnerLives'
      BY <2>9, <1>0, Placed, AnswersKeeps, PhasesDiffer DEF Stop, OwnerLives, At
    <3>2. Kept'
      BY <2>9, <1>0, Placed, AnswersKeeps, KeepsOn, PhasesDiffer DEF Stop, OwnerLives, Kept, Keeps, At
    <3> QED BY <3>1, <3>2
  <2>10. CASE RemoveSock(d)
    <3>1. OwnerLives'
      BY <2>10, <1>0, Placed, AnswersKeeps, PhasesDiffer DEF RemoveSock, OwnerLives, At
    <3>2. Kept'
      BY <2>10, <1>0, Placed, AnswersKeeps, KeepsOn, PhasesDiffer DEF RemoveSock, OwnerLives, Kept, Keeps, At
    <3> QED BY <3>1, <3>2
  <2>11. CASE RemoveCache(d)
    <3>1. OwnerLives'
      BY <2>11, <1>0, Placed, AnswersKeeps, PhasesDiffer DEF RemoveCache, OwnerLives, At
    <3>2. Kept'
      BY <2>11, <1>0, Placed, AnswersKeeps, KeepsOn, PhasesDiffer DEF RemoveCache, OwnerLives, Kept, Keeps, At
    <3> QED BY <3>1, <3>2
  <2>12. CASE RemoveFiles(d)
    <3>1. OwnerLives'
      BY <2>12, <1>0, Placed, AnswersKeeps, PhasesDiffer DEF RemoveFiles, OwnerLives, At
    <3>2. Kept'
      BY <2>12, <1>0, Placed, AnswersKeeps, KeepsOn, PhasesDiffer DEF RemoveFiles, OwnerLives, Kept, Keeps, At
    <3> QED BY <3>1, <3>2
  <2> QED BY <1>1, <2>1, <2>2, <2>3, <2>4, <2>5, <2>6, <2>7, <2>8, <2>9, <2>10, <2>11, <2>12 DEF Run
<1>2. ASSUME NEW c \in Clients, Client(c)
      PROVE  OwnerLives' /\ Kept'
  <2>1. CASE Ask(c)
    BY <2>1, <1>0 DEF Ask, OwnerLives, Kept, At
  <2>2. CASE StartDaemon(c)
    <3>1. OwnerLives'
      BY <2>2, <1>0 DEF StartDaemon, OwnerLives, At
    <3>2. CASE Answers
      <4>1. sock # None /\ sock' = sock
        BY <2>2, <3>2 DEF StartDaemon, Answers
      <4> QED BY <3>1, <4>1 DEF Kept
    <3>3. CASE ~Answers
      <4>1. client'[c] = "spawn"
        BY <2>2, <3>3, <1>0, Moved DEF StartDaemon
      <4> QED BY <3>1, <4>1 DEF Kept
    <3> QED BY <3>2, <3>3
  <2>3. CASE AwaitGone(c)
    <3>1. OwnerLives'
      BY <2>3, <1>0 DEF AwaitGone, OwnerLives, At, TypeOK
    <3>2. client'[c] = "spawn"
      BY <2>3, <1>0, Moved DEF AwaitGone
    <3> QED BY <3>1, <3>2 DEF Kept
  <2>4. CASE Spawn(c)
    <3>1. sock' = sock /\ crashed' = crashed
      BY <2>4 DEF Spawn
    <3>2. ASSUME NEW d \in Daemons, proc' = [proc EXCEPT ![d] = Runs(bin)]
          PROVE  OwnerLives' /\ Kept'
      <4>1. At(d, "probe")' /\ \A e \in Daemons \ {d} : proc'[e] = proc[e]
        BY <3>2, <1>0 DEF Runs, At, TypeOK
      <4>2. OwnerLives'
        BY <3>1, <4>1, <1>0 DEF OwnerLives, At
      <4>3. Keeps(d)'
        BY <4>1 DEF Keeps, At
      <4> QED BY <4>2, <4>3 DEF Kept
    <3>3. CASE Answers /\ UNCHANGED proc
      <4>1. sock # None
        BY <3>3 DEF Answers
      <4> QED BY <3>1, <3>3, <4>1, <1>0 DEF OwnerLives, Kept, At
    <3> QED BY <2>4, <3>2, <3>3 DEF Spawn
  <2>5. CASE AwaitRestart(c)
    <3>1. OwnerLives'
      BY <2>5, <1>0 DEF AwaitRestart, OwnerLives, At, TypeOK
    <3>2. client'[c] = "start"
      BY <2>5, <1>0, Moved DEF AwaitRestart
    <3> QED BY <3>1, <3>2 DEF Kept
  <2> QED BY <1>2, <2>1, <2>2, <2>3, <2>4, <2>5 DEF Client
<1>3. CASE Disturbance
  <2>1. ASSUME NEW d \in Daemons, Signal(d) PROVE OwnerLives' /\ Kept'
    BY <2>1, <1>0 DEF Signal, OwnerLives, Kept, Keeps, At
  <2>2. ASSUME NEW d \in Daemons, Crash(d) PROVE OwnerLives' /\ Kept'
    <3>1. crashed' /\ sock' = sock /\ Ends(d)
      BY <2>2 DEF Crash
    <3>2. At(d, "free")' /\ \A e \in Daemons \ {d} : proc'[e] = proc[e]
      BY <3>1, <1>0, Placed
    <3> QED BY <3>1, <3>2, <1>0 DEF OwnerLives, Kept, At
  <2>3. ASSUME NEW c \in Clients, RestartCommand(c) PROVE OwnerLives' /\ Kept'
    <3>1. \A b \in Clients : client[b] \in {"start", "spawn"} => client'[b] = client[b]
      BY <2>3, <1>0, Moved DEF RestartCommand, In
    <3> QED BY <2>3, <3>1, <1>0 DEF RestartCommand, OwnerLives, Kept, Keeps, At
  <2>4. ASSUME NEW v \in Versions, Install(v) PROVE OwnerLives' /\ Kept'
    BY <2>4, <1>0 DEF Install, OwnerLives, Kept, Keeps, At
  <2>5. ASSUME CtrlC PROVE OwnerLives' /\ Kept'
    BY <2>5, <1>0 DEF CtrlC, OwnerLives, Kept, Keeps, At
  <2>6. ASSUME DeleteSocket PROVE OwnerLives' /\ Kept'
    <3>1. sock \in Daemons /\ Keeps(sock) /\ proc' = proc /\ sock' = None
      BY <2>6 DEF DeleteSocket, Watching, Keeps, At
    <3>2. \E d \in Daemons : Keeps(d)'
      BY <3>1 DEF Keeps, At
    <3> QED BY <2>6, <3>1, <3>2, <1>0 DEF OwnerLives, Kept, Keeps, At
  <2> QED BY <1>3, <2>1, <2>2, <2>3, <2>4, <2>5, <2>6 DEF Disturbance
<1>4. CASE Quiet \/ UNCHANGED vars
  <2>1. UNCHANGED <<sock, cached, proc, client, crashed>>
    BY <1>4 DEF Quiet
  <2> QED BY <2>1, <1>0 DEF OwnerLives, Kept, Keeps, At
<1> QED BY <1>1, <1>2, <1>3, <1>4 DEF Next

(* The invariant, for any number of processes and disturbances. *)
THEOREM Invariance == Spec => []IInv
BY IInvInit, IInvStep, PTL DEF Spec

(* No hook is left with a cache file that nobody will refresh or remove,   *)
(* unless a process was killed.                                            *)
THEOREM NoHookAbandoned == Spec => []HooksAreNotAbandoned
BY Invariance, KeptMeansNotAbandoned, PTL
=============================================================================
