-------------------------- MODULE ConfigReloadProofs --------------------------
(***************************************************************************)
(* Theorems about the configuration's way to the prompt, for any number of *)
(* `config set`, any arguments, any configurations, changes and restarts.  *)
(***************************************************************************)
EXTENDS ConfigReload, TLAPS

(* What the daemon holds agrees with a file: all of it if the file loads,  *)
(* the error alone if it does not.                                         *)
Agrees(c, e, f) ==
  /\ Loads(f) => c = f.config /\ e = CompileError(c)
  /\ ~Loads(f) => e = "config error"

(* The typing the steps rely on *)
DataTyped == events \in Nat /\ cf \in Paths /\ disk = [p \in Paths |-> disk[p]]

(* A daemon that is down holds nothing. *)
DownHoldsNothing == phase = "down" => cached = {} /\ watch = "unarmed"

(* What is cached was rendered by what the daemon holds. *)
CachedIsRendered == \A t \in cached : t = Format(config, error)

(* What the daemon holds agrees with its file, if it saw every change and  *)
(* has none left to look at.                                               *)
InSync == phase # "down" /\ ~missed /\ events = 0 /\ watch # "asleep"
            => Agrees(config, error, disk[cf])

IInv == DataTyped /\ DownHoldsNothing /\ CachedIsRendered /\ InSync

-----------------------------------------------------------------------------
(* A reload makes the daemon agree with its file. *)
LEMMA ReloadAgrees ==
  ASSUME Reload
  PROVE  /\ Agrees(config', error', disk[cf])
         /\ \A t \in cached' : t = Format(config', error')
         /\ cf' = cf
<1>1. CASE Loads(disk[cf])
  <2>1. config' = disk[cf].config /\ error' = CompileError(config')
    BY <1>1 DEF Reload, ErrorOf
  <2> QED BY <1>1, <2>1 DEF Reload, Agrees
<1>2. CASE ~Loads(disk[cf])
  <2>1. error' = "config error"
    BY <1>2 DEF Reload, ErrorOf
  <2> QED BY <1>2, <2>1 DEF Reload, Agrees
<1> QED BY <1>1, <1>2

(* A change of a file that the daemon is not told of is missed. *)
LEMMA ChangeTold ==
  ASSUME IInv, NEW p, NEW f, NEW kind, Change(p, f, kind),
         UNCHANGED <<phase, cf, config, error, cached, watch>>
  PROVE  IInv'
<1>1. DataTyped'
  <2>1. events' \in Nat
    BY DEF IInv, DataTyped, Change
  <2>2. disk' = [q \in Paths |-> disk'[q]]
    BY DEF IInv, DataTyped, Change
  <2> QED BY <2>1, <2>2 DEF IInv, DataTyped
<1>2. DownHoldsNothing' /\ CachedIsRendered'
  BY DEF IInv, DownHoldsNothing, CachedIsRendered
<1>3. ASSUME phase # "down", ~missed', events' = 0, watch # "asleep"
      PROVE  Agrees(config, error, disk'[cf])
  <2>1. p # cf
    <3> SUFFICES ASSUME p = cf PROVE FALSE
      OBVIOUS
    <3> DEFINE seen == p = cf /\ watch \in {"armed", "asleep"} /\ Told(kind)
    <3>1. events' = (IF seen THEN events + 1 ELSE events) /\ events \in Nat
      BY DEF Change, IInv, DataTyped
    <3>2. missed' = (missed \/ (p = cf /\ phase # "down" /\ ~seen))
      BY DEF Change
    <3>3. ~seen
      BY <1>3, <3>1
    <3> HIDE DEF seen
    <3> QED BY <1>3, <3>2, <3>3
  <2>2. disk'[cf] = disk[cf] /\ events = 0 /\ ~missed
    BY <1>3, <2>1 DEF Change, IInv, DataTyped
  <2> QED BY <1>3, <2>2 DEF IInv, InSync
<1>4. InSync'
  BY <1>3 DEF InSync
<1> QED BY <1>1, <1>2, <1>4 DEF IInv

-----------------------------------------------------------------------------
(* The invariant holds at the start. *)
LEMMA InitIInv == Init => IInv
<1> SUFFICES ASSUME Init PROVE IInv
  OBVIOUS
<1>1. DataTyped
  BY DEF Init, DataTyped, Paths
<1>2. DownHoldsNothing /\ CachedIsRendered /\ InSync
  BY DEF Init, DownHoldsNothing, CachedIsRendered, InSync
<1> QED BY <1>1, <1>2 DEF IInv

(* Every step of the daemon keeps it. *)
LEMMA DaemonKeepsIInv == IInv /\ (Daemon \/ RefreshDone \/ Stop) => IInv'
<1> SUFFICES ASSUME IInv, Daemon \/ RefreshDone \/ Stop PROVE IInv'
  OBVIOUS
<1> USE DEF IInv
<1>1. CASE Load
  <2>1. cf' \in Paths /\ cached' = {} /\ watch' = "unarmed" /\ phase' = "loaded"
    BY <1>1, PathsAssumption DEF Load, config_path, Paths, DownHoldsNothing
  <2>2. events' = events /\ disk' = disk
    BY <1>1 DEF Load, files
  <2>3. Agrees(config', error', disk[cf'])
    <3>1. CASE Loads(disk[cf'])
      <4>1. config' = disk[cf'].config /\ error' = CompileError(config')
        BY <1>1, <3>1 DEF Load
      <4> QED BY <3>1, <4>1 DEF Agrees
    <3>2. CASE ~Loads(disk[cf'])
      <4>1. error' = "config error"
        BY <1>1, <3>2 DEF Load
      <4> QED BY <3>2, <4>1 DEF Agrees
    <3> QED BY <3>1, <3>2
  <2> QED BY <2>1, <2>2, <2>3 DEF DataTyped, DownHoldsNothing, CachedIsRendered, InSync
<1>2. CASE Bind
  BY <1>2 DEF Bind, files, memory, news, DataTyped, DownHoldsNothing, CachedIsRendered, InSync
<1>3. CASE Serve
  BY <1>3 DEF Serve, files, memory, news, DataTyped, DownHoldsNothing, CachedIsRendered, InSync
<1>4. CASE Arm
  <2>1. phase = "serving" /\ watch = "unarmed" /\ watch' # "asleep"
        /\ UNCHANGED <<phase, disk, cf, config, error, cached, events, missed>>
    BY <1>4 DEF Arm, files, memory, news
  <2> QED BY <2>1 DEF DataTyped, DownHoldsNothing, CachedIsRendered, InSync
<1>5. CASE ConfigEvent
  <2>1. events' \in Nat /\ watch' = "asleep" /\ watch = "armed"
        /\ UNCHANGED <<phase, disk, cf, config, error, cached, missed>>
    BY <1>5 DEF ConfigEvent, files, memory, DataTyped
  <2> QED BY <2>1 DEF DataTyped, DownHoldsNothing, CachedIsRendered, InSync
<1>6. CASE ReloadOnEvent
  <2>1. Reload /\ watch = "asleep" /\ UNCHANGED <<disk, phase, events>>
    BY <1>6 DEF ReloadOnEvent, files
  <2>2. phase # "down"
    BY <2>1 DEF DownHoldsNothing
  <2>3. Agrees(config', error', disk[cf]) /\ cf' = cf /\ \A t \in cached' : t = Format(config', error')
    BY <2>1, ReloadAgrees
  <2> QED BY <2>1, <2>2, <2>3 DEF DataTyped, DownHoldsNothing, CachedIsRendered, InSync
<1>7. ASSUME NEW s \in Setters, ReloadOnRequest(s) PROVE IInv'
  <2>1. Reload /\ phase = "serving" /\ UNCHANGED <<disk, phase, watch, events>>
    BY <1>7 DEF ReloadOnRequest, files
  <2>2. Agrees(config', error', disk[cf]) /\ cf' = cf /\ \A t \in cached' : t = Format(config', error')
    BY <2>1, ReloadAgrees
  <2> QED BY <2>1, <2>2 DEF DataTyped, DownHoldsNothing, CachedIsRendered, InSync
<1>8. CASE RefreshDone
  <2>1. /\ phase = "serving" /\ cached' = {Format(config, error)}
        /\ UNCHANGED <<disk, phase, cf, config, error, watch, events, missed>>
    BY <1>8 DEF RefreshDone, files, news
  <2> QED BY <2>1 DEF DataTyped, DownHoldsNothing, CachedIsRendered, InSync
<1>9. CASE Stop
  <2>1. phase' = "down" /\ cached' = {} /\ watch' = "unarmed" /\ events' = 0 /\ cf' = "xdg" /\ disk' = disk
    BY <1>9 DEF Stop, files
  <2> QED BY <2>1 DEF DataTyped, DownHoldsNothing, CachedIsRendered, InSync, Paths
<1> QED BY <1>1, <1>2, <1>3, <1>4, <1>5, <1>6, <1>7, <1>8, <1>9 DEF Daemon

(* Editors and `config set` only change files. *)
LEMMA WritersKeepIInv == IInv /\ (Editor \/ \E s \in Setters : ConfigSet(s)) => IInv'
<1> SUFFICES ASSUME IInv, Editor \/ \E s \in Setters : ConfigSet(s) PROVE IInv'
  OBVIOUS
<1>1. ASSUME NEW p \in Paths, Remove(p) PROVE IInv'
  <2>1. Change(p, Absent, "remove") /\ UNCHANGED <<phase, cf, config, error, cached, watch>>
    BY <1>1 DEF Remove, daemon, memory
  <2> QED BY <2>1, ChangeTold
<1>2. ASSUME NEW p \in Paths, NEW f, Save(p, f) PROVE IInv'
  <2>1. Change(p, f, "rename") /\ UNCHANGED <<phase, cf, config, error, cached, watch>>
    BY <1>2 DEF Save, daemon, memory
  <2> QED BY <2>1, ChangeTold
<1>3. CASE ConfigInit
  <2>1. Change(config_init_path, Toml(Default), "write")
        /\ UNCHANGED <<phase, cf, config, error, cached, watch>>
    BY <1>3 DEF ConfigInit, daemon, memory
  <2> QED BY <2>1, ChangeTold
<1>4. ASSUME NEW s \in Setters, SetTruncate(s) PROVE IInv'
  <2>1. Change(path[s], Truncated, "write") /\ UNCHANGED <<phase, cf, config, error, cached, watch>>
    BY <1>4 DEF SetTruncate, daemon, memory
  <2> QED BY <2>1, ChangeTold
<1>5. ASSUME NEW s \in Setters, SetWrite(s) PROVE IInv'
  <2>1. Change(path[s], Toml(doc[s]), "write") /\ UNCHANGED <<phase, cf, config, error, cached, watch>>
    BY <1>5 DEF SetWrite, daemon, memory
  <2> QED BY <2>1, ChangeTold
<1>6. ASSUME NEW s \in Setters, (\E a \in Edits : SetRead(s, a)) \/ SetAsk(s) PROVE IInv'
  <2>1. UNCHANGED <<files, daemon, news>>
    BY <1>6 DEF SetRead, SetAsk
  <2> QED BY <2>1 DEF IInv, DataTyped, DownHoldsNothing, CachedIsRendered, InSync,
                      files, daemon, memory, news
<1> QED BY <1>1, <1>2, <1>3, <1>4, <1>5, <1>6 DEF Editor, ConfigSet

(* The invariant holds in every reachable state: what the daemon holds and *)
(* shows is what it has loaded, rendered.                                  *)
THEOREM SpecIInv == Spec => []IInv
<1>1. IInv /\ UNCHANGED vars => IInv'
  BY DEF IInv, DataTyped, DownHoldsNothing, CachedIsRendered, InSync,
         vars, files, daemon, memory, news
<1>2. IInv /\ [Next]_vars => IInv'
  BY <1>1, DaemonKeepsIInv, WritersKeepIInv DEF Next
<1> QED BY InitIInv, <1>2, PTL DEF Spec

-----------------------------------------------------------------------------
(* The sticky error is the last part of what is rendered. *)
LEMMA ErrorComesLast ==
  ASSUME NEW c PROVE LET t == Format(c, "config error") IN t[Len(t)] = "config error"
<1> DEFINE x == IF CompileError(c) = "" THEN resolved_format(c) ELSE CompileError(c)
           y == "config error"
<1>1. Format(c, y) = <<x>> \o <<y>>
  BY DEF Format
<1> HIDE DEF x, y
<1>2. <<x>> \in Seq({x, y}) /\ <<y>> \in Seq({x, y}) /\ Len(<<x>>) = 1 /\ Len(<<y>>) = 1
  OBVIOUS
<1>3. Len(<<x>> \o <<y>>) = 2 /\ (<<x>> \o <<y>>)[2] = y
  BY <1>2
<1> QED BY <1>1, <1>3 DEF y

(* Whatever the daemon's loads, events and requests interleave with, once  *)
(* it has nothing left to do it shows what its file says: see              *)
(* reload_config and watch_config_file.                                    *)
THEOREM FileIsShown == Spec => []ShownFollowsFile
<1>1. IInv => ShownFollowsFile
  <2> SUFFICES ASSUME IInv, Quiet, ~missed
               PROVE  LET f == disk[cf] IN
                      /\ Loads(f) => /\ config = f.config
                                     /\ \A t \in cached : t = Format(f.config, CompileError(f.config))
                      /\ ~Loads(f) => \A t \in cached : t[Len(t)] = "config error"
    BY DEF ShownFollowsFile
  <2>1. Agrees(config, error, disk[cf])
    BY DEF IInv, InSync, Quiet
  <2>2. \A t \in cached : t = Format(config, error)
    BY DEF IInv, CachedIsRendered
  <2>3. CASE Loads(disk[cf])
    BY <2>1, <2>2, <2>3 DEF Agrees
  <2>4. CASE ~Loads(disk[cf])
    <3>1. error = "config error"
      BY <2>1, <2>4 DEF Agrees
    <3> QED BY <2>2, <2>4, <3>1, ErrorComesLast
  <2> QED BY <2>3, <2>4
<1> QED BY SpecIInv, <1>1, PTL

-----------------------------------------------------------------------------
(* Types *)
Errors == {"", "config error", "template error"}

(* The files there are *)
LEMMA FileTypes ==
  /\ Default \in Config
  /\ Absent \in File /\ Truncated \in File /\ Garbage \in File
  /\ \A c \in Config : Toml(c) \in File
<1>1. Default \in Config
  BY DEF Default, Config
<1> QED BY <1>1 DEF Absent, Truncated, Garbage, Toml, File

(* The file that is used is at one of the two paths. *)
LEMMA PathTypes == config_path \in Paths /\ config_init_path \in Paths
BY PathsAssumption DEF config_path, config_init_path, Paths

(* What renders is a text, and the error is one of three. *)
LEMMA ErrorTypes ==
  /\ \A c : CompileError(c) \in Errors
  /\ \A c, f : ErrorOf(c, f) \in Errors
  /\ \A c \in Config, e \in Errors : Format(c, e) \in Texts
<1>1. \A c : CompileError(c) \in Errors
  BY DEF CompileError, Errors
<1>2. \A c, f : ErrorOf(c, f) \in Errors
  BY <1>1 DEF ErrorOf, Errors
<1>3. \A c \in Config, e \in Errors : Format(c, e) \in Texts
  <2>1. \A S, T : \A c \in S, e \in T : Format(c, e) \in {Format(x, y) : x \in S, y \in T}
    OBVIOUS
  <2>2. Texts = {Format(x, y) : x \in Config, y \in Errors}
    BY DEF Texts, Errors
  <2> QED BY <2>1, <2>2
<1> QED BY <1>1, <1>2, <1>3

(* `config set` refuses a value that is no value of its key. *)
LEMMA EditTypes ==
  ASSUME NEW c \in Config, NEW a \in Edits, Valid(c, a)
  PROVE  WithKey(c, a) \in Config
<1> DEFINE k == a.key
           v == a.value
<1>1. CASE k = "query_timeout_ms"
  <2>1. v \in {"0", "150"}
    <3>1. v \in {"0", "150", "soon"}
      BY <1>1, ValuesAssumption
    <3>2. IsNumber(v)
      BY <1>1 DEF Valid, Typed
    <3> QED BY <3>1, <3>2 DEF IsNumber
  <2>2. WithKey(c, a) = [c EXCEPT !.query_timeout_ms = v]
    BY <1>1 DEF WithKey
  <2> HIDE DEF v, k
  <2>3. [c EXCEPT !.query_timeout_ms = v] \in Config
    BY <2>1 DEF Config
  <2> QED BY <2>2, <2>3
<1>2. CASE k = "template.name"
  <2>1. v \in {"ascii", "nerdfont", "mine", "bogus"}
    BY <1>2, ValuesAssumption
  <2>2. WithKey(c, a) = [c EXCEPT !.name = v]
    BY <1>2 DEF WithKey
  <2> HIDE DEF v, k
  <2>3. [c EXCEPT !.name = v] \in Config
    BY <2>1 DEF Config
  <2> QED BY <2>2, <2>3
<1>3. CASE k = "template.format"
  <2>1. v \in {"", "good", "broken"}
    BY <1>3, ValuesAssumption
  <2>2. WithKey(c, a) = [c EXCEPT !.format = v]
    BY <1>3 DEF WithKey
  <2> HIDE DEF v, k
  <2>3. [c EXCEPT !.format = v] \in Config
    BY <2>1 DEF Config
  <2> QED BY <2>2, <2>3
<1>4. CASE k \notin {"query_timeout_ms", "template.name", "template.format"}
  <2>1. WithKey(c, a) = c
    BY <1>4 DEF WithKey
  <2> QED BY <2>1
<1> QED BY <1>1, <1>2, <1>3, <1>4

(* A change of a file keeps the types of files and events. *)
LEMMA ChangeTypes ==
  ASSUME TypeOK, NEW p \in Paths, NEW f \in File, NEW kind, Change(p, f, kind)
  PROVE  /\ disk' \in [Paths -> File] /\ dirs' \in SUBSET Paths
         /\ events' \in Nat /\ missed' \in BOOLEAN
<1>1. disk \in [Paths -> File] /\ dirs \in SUBSET Paths /\ events \in Nat /\ missed \in BOOLEAN
  BY DEF TypeOK
<1>2. disk' \in [Paths -> File]
  BY <1>1 DEF Change
<1>3. dirs' \in SUBSET Paths
  BY <1>1 DEF Change
<1>4. events' \in Nat
  BY <1>1 DEF Change
<1>5. missed' \in BOOLEAN
  BY <1>1 DEF Change
<1> QED BY <1>2, <1>3, <1>4, <1>5

(* A reload keeps the types of what the daemon holds. *)
LEMMA ReloadTypes ==
  ASSUME TypeOK, Reload
  PROVE  /\ cf' \in Paths /\ config' \in Config /\ error' \in Errors
         /\ cached' \in SUBSET Texts /\ missed' \in BOOLEAN
<1> DEFINE f == disk[cf]
<1>1. f \in File /\ f.config \in Config
  BY DEF TypeOK, File
<1>2. config' \in Config
  BY <1>1 DEF Reload, TypeOK
<1>3. error' \in Errors
  BY ErrorTypes DEF Reload
<1>4. cached' \in SUBSET Texts
  <2>1. \A t \in cached' : t = Format(config', error')
    BY DEF Reload
  <2> QED BY <1>2, <1>3, <2>1, ErrorTypes
<1>5. cf' \in Paths /\ missed' \in BOOLEAN
  BY DEF Reload, TypeOK
<1> QED BY <1>2, <1>3, <1>4, <1>5

(* At first *)
LEMMA TypeInit == Init => TypeOK
<1> SUFFICES ASSUME Init PROVE TypeOK
  OBVIOUS
<1>1. disk \in [Paths -> File]
  <2>1. \A c \in Saves : Toml(c) \in File
    BY ValuesAssumption, FileTypes
  <2>2. {Absent, Garbage} \cup {Toml(c) : c \in Saves} \subseteq File
    BY <2>1, FileTypes
  <2> QED BY <2>2 DEF Init
<1>2. dirs \in SUBSET Paths
  BY DEF Init
<1>3. config \in Config /\ doc \in [Setters -> Config]
  BY FileTypes DEF Init
<1>4. /\ cf \in Paths /\ path \in [Setters -> Paths]
      /\ changes \in 0..MaxChanges /\ stops \in 0..MaxStops
  <2>1. cf \in Paths /\ path \in [Setters -> Paths]
    BY DEF Init, Paths
  <2>2. changes = 0 /\ stops = 0
    BY DEF Init
  <2> QED BY <2>1, <2>2, BoundsAssumption
<1> QED BY <1>1, <1>2, <1>3, <1>4 DEF Init, TypeOK

(* Each step keeps the types: of the daemon ... *)
LEMMA DaemonTypes == TypeOK /\ (Daemon \/ RefreshDone \/ Stop) => TypeOK'
<1> SUFFICES ASSUME TypeOK, Daemon \/ RefreshDone \/ Stop PROVE TypeOK'
  OBVIOUS
<1>1. CASE Load
  <2>1. cf' \in Paths
    BY <1>1, PathTypes DEF Load
  <2>2. disk[cf'] \in File /\ disk[cf'].config \in Config
    BY <2>1 DEF TypeOK, File
  <2>3. config' \in Config
    BY <1>1, <2>2, FileTypes DEF Load
  <2>4. error' \in Errors
    BY <1>1, ErrorTypes DEF Load, Errors
  <2> QED BY <1>1, <2>1, <2>3, <2>4 DEF Load, TypeOK, Errors, files, setter
<1>2. CASE Bind
  BY <1>2 DEF Bind, TypeOK, files, memory, news, setter
<1>3. CASE Serve
  BY <1>3 DEF Serve, TypeOK, files, memory, news, setter
<1>4. CASE Arm
  BY <1>4 DEF Arm, TypeOK, files, memory, news, setter
<1>5. CASE ConfigEvent
  <2>1. events' \in Nat
    <3>1. events \in Nat /\ events > 0 /\ events' = events - 1
      BY <1>5 DEF ConfigEvent, TypeOK
    <3> QED BY <3>1
  <2> QED BY <1>5, <2>1 DEF ConfigEvent, TypeOK, files, memory, setter
<1>6. CASE ReloadOnEvent
  <2>1. Reload
    BY <1>6 DEF ReloadOnEvent
  <2> QED BY <1>6, <2>1, ReloadTypes DEF ReloadOnEvent, TypeOK, Errors, files, setter
<1>7. ASSUME NEW s \in Setters, ReloadOnRequest(s) PROVE TypeOK'
  <2>1. Reload
    BY <1>7 DEF ReloadOnRequest
  <2> QED BY <1>7, <2>1, ReloadTypes DEF ReloadOnRequest, TypeOK, Errors, files
<1>8. CASE RefreshDone
  <2>1. cached' \in SUBSET Texts
    BY <1>8, ErrorTypes DEF RefreshDone, TypeOK, Errors
  <2> QED BY <1>8, <2>1 DEF RefreshDone, TypeOK, files, news, setter
<1>9. CASE Stop
  <2>1. stops' \in 0..MaxStops
    <3>1. stops \in 0..MaxStops /\ stops < MaxStops /\ stops' = stops + 1
      BY <1>9 DEF Stop, TypeOK
    <3> QED BY <3>1, BoundsAssumption
  <2>2. pc' \in [Setters -> {"idle", "read", "refused", "truncated", "written", "asking", "done"}]
    BY <1>9 DEF Stop, TypeOK
  <2>3. config' \in Config /\ cf' \in Paths
    BY <1>9, FileTypes DEF Stop, Paths
  <2> QED BY <1>9, <2>1, <2>2, <2>3 DEF Stop, TypeOK, files
<1> QED BY <1>1, <1>2, <1>3, <1>4, <1>5, <1>6, <1>7, <1>8, <1>9 DEF Daemon

(* ... and of those who write the file. *)
LEMMA WriterTypes == TypeOK /\ (Editor \/ \E s \in Setters : ConfigSet(s)) => TypeOK'
<1> SUFFICES ASSUME TypeOK, Editor \/ \E s \in Setters : ConfigSet(s) PROVE TypeOK'
  OBVIOUS
<1>1. ASSUME changes < MaxChanges, changes' = changes + 1 PROVE changes' \in 0..MaxChanges
  <2>1. changes \in 0..MaxChanges
    BY DEF TypeOK
  <2> QED BY <1>1, <2>1, BoundsAssumption
<1>2. ASSUME NEW p \in Paths, Remove(p) PROVE TypeOK'
  <2>1. Change(p, Absent, "remove") /\ changes' \in 0..MaxChanges
    BY <1>1, <1>2 DEF Remove
  <2> QED BY <1>2, <2>1, ChangeTypes, FileTypes DEF Remove, TypeOK, daemon, memory, setter
<1>3. ASSUME NEW p \in Paths, NEW f \in {Absent, Garbage} \cup {Toml(c) : c \in Saves}, Save(p, f)
      PROVE  TypeOK'
  <2>1. f \in File
    BY ValuesAssumption, FileTypes
  <2>2. Change(p, f, "rename") /\ changes' \in 0..MaxChanges
    BY <1>1, <1>3 DEF Save
  <2> QED BY <1>3, <2>1, <2>2, ChangeTypes DEF Save, TypeOK, daemon, memory, setter
<1>4. CASE ConfigInit
  <2>1. Toml(Default) \in File /\ config_init_path \in Paths
    BY FileTypes, PathTypes
  <2>2. Change(config_init_path, Toml(Default), "write") /\ changes' \in 0..MaxChanges
    BY <1>1, <1>4 DEF ConfigInit
  <2> QED BY <1>4, <2>1, <2>2, ChangeTypes DEF ConfigInit, TypeOK, daemon, memory, setter
<1>5. ASSUME NEW s \in Setters, NEW a \in Edits, SetRead(s, a) PROVE TypeOK'
  <2> DEFINE f == disk[config_path]
  <2>1. f \in File /\ f.config \in Config
    BY PathTypes DEF TypeOK, File
  <2> HIDE DEF f
  <2>2. doc' \in [Setters -> Config] /\ path' \in [Setters -> Paths]
    <3>1. CASE Loads(f) /\ Valid(f.config, a)
      <4>1. WithKey(f.config, a) \in Config
        BY <2>1, <3>1, EditTypes
      <4>2. path' = [path EXCEPT ![s] = config_path] /\ doc' = [doc EXCEPT ![s] = WithKey(f.config, a)]
        BY <1>5, <3>1 DEF SetRead, f
      <4> QED BY <4>1, <4>2, PathTypes DEF TypeOK
    <3>2. CASE ~(Loads(f) /\ Valid(f.config, a))
      <4>1. UNCHANGED <<path, doc>>
        BY <1>5, <3>2 DEF SetRead, f
      <4> QED BY <4>1 DEF TypeOK
    <3> QED BY <3>1, <3>2
  <2>3. pc' \in [Setters -> {"idle", "read", "refused", "truncated", "written", "asking", "done"}]
    BY <1>5 DEF SetRead, TypeOK
  <2> QED BY <1>5, <2>2, <2>3 DEF SetRead, TypeOK, files, daemon, memory, news
<1>6. ASSUME NEW s \in Setters, SetTruncate(s) PROVE TypeOK'
  <2>1. path[s] \in Paths /\ Change(path[s], Truncated, "write")
    BY <1>6 DEF SetTruncate, TypeOK
  <2>2. pc' \in [Setters -> {"idle", "read", "refused", "truncated", "written", "asking", "done"}]
    BY <1>6 DEF SetTruncate, TypeOK
  <2> QED BY <1>6, <2>1, <2>2, ChangeTypes, FileTypes DEF SetTruncate, TypeOK, daemon, memory
<1>7. ASSUME NEW s \in Setters, SetWrite(s) PROVE TypeOK'
  <2>1. path[s] \in Paths /\ Toml(doc[s]) \in File /\ Change(path[s], Toml(doc[s]), "write")
    BY <1>7, FileTypes DEF SetWrite, TypeOK
  <2>2. pc' \in [Setters -> {"idle", "read", "refused", "truncated", "written", "asking", "done"}]
    BY <1>7 DEF SetWrite, TypeOK
  <2>3. path' \in [Setters -> Paths] /\ doc' \in [Setters -> Config]
    BY <1>7, FileTypes DEF SetWrite, TypeOK, Paths
  <2> QED BY <1>7, <2>1, <2>2, <2>3, ChangeTypes DEF SetWrite, TypeOK, daemon, memory
<1>8. ASSUME NEW s \in Setters, SetAsk(s) PROVE TypeOK'
  <2>1. pc' \in [Setters -> {"idle", "read", "refused", "truncated", "written", "asking", "done"}]
    BY <1>8 DEF SetAsk, TypeOK
  <2> QED BY <1>8, <2>1 DEF SetAsk, TypeOK, files, daemon, memory, news
<1> QED BY <1>2, <1>3, <1>4, <1>5, <1>6, <1>7, <1>8 DEF Editor, ConfigSet

(* Every variable has its type: above all, `config set` writes only what   *)
(* is a configuration (see run_config).                                    *)
THEOREM TypeCorrect == Spec => []TypeOK
<1>1. TypeOK /\ UNCHANGED vars => TypeOK'
  BY DEF TypeOK, vars, files, daemon, memory, news, setter
<1>2. TypeOK /\ [Next]_vars => TypeOK'
  BY <1>1, DaemonTypes, WriterTypes DEF Next
<1> QED BY <1>2, TypeInit, PTL DEF Spec

=============================================================================
