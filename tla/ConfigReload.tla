---------------------------- MODULE ConfigReload ----------------------------
(***************************************************************************)
(* How a change of the configuration file reaches the prompt: the command  *)
(* line that writes the file (run_config of src/main.rs), editors, the     *)
(* daemon that loads it when it starts (run_clap, run_daemon), watches it  *)
(* (watch_config_file) and is asked to reload it (Request::ReloadConfig).  *)
(*                                                                         *)
(* The daemon's runtime has one thread: reload_config awaits nothing but   *)
(* the state lock, which no task holds across an await, so it is one step. *)
(* The file query-timeout-ms, by which a daemon tells clients how long to  *)
(* wait, is left out: a successor overwrites it and a predecessor removes  *)
(* it as they please, and nothing here reads it.                           *)
(* Two paths matter: the one under ~/.config, used if it exists, and the   *)
(* platform's own, which is the same on Linux.  Symbolic links, an         *)
(* explicit --config-file (one path for all, as when Native is the first)  *)
(* and the values of colours and depths are left out.                      *)
(***************************************************************************)
EXTENDS Naturals, FiniteSets, Sequences

CONSTANTS
  Native,      \* the platform's path: "xdg" on Linux, "native" on macOS
  Setters,     \* `config set` processes
  Edits,       \* their arguments: key and value
  Saves,       \* configurations an editor may save
  MaxChanges,  \* bound: files saved, removed and made by editors and `init`
  MaxStops     \* bound: times the daemon stops

ASSUME PathsAssumption  == Native \in {"xdg", "native"}
ASSUME BoundsAssumption == MaxChanges \in Nat /\ MaxStops \in Nat

VARIABLES
  disk,       \* per path: the file
  dirs,       \* paths whose directory exists
  phase,      \* of the daemon: "down", "loaded", "bound" or "serving"
  cf,         \* its config_file
  config,     \* DaemonState.config
  error,      \* DaemonState.config_error; "" for none
  cached,     \* text of the cached status, if there is one
  watch,      \* watch_config_file: "unarmed", "off", "armed" or "asleep"
  events,     \* events of the file in its channel
  missed,     \* history: the file changed unseen since it was last read
  pc,         \* per `config set`: where it is
  path,       \* the file it edits
  doc,        \* what it will write
  changes, stops

files  == <<disk, dirs, changes>>
memory == <<cf, config, error, cached>>
daemon == <<phase, memory, watch, stops>>
news   == <<events, missed>>
setter == <<pc, path, doc>>
vars   == <<files, daemon, news, setter>>

-----------------------------------------------------------------------------
(* Configurations, and the files that hold them                            *)
Paths    == {"xdg", "native"}
Builtins == {"ascii", "nerdfont"}

Config == [name : {"ascii", "nerdfont", "mine", "bogus"}, format : {"", "good", "broken"},
           templates : SUBSET {"mine"}, query_timeout_ms : {"0", "150"}]

(* The arguments and configurations are of the modelled values. *)
ASSUME ValuesAssumption ==
  /\ Saves \subseteq Config
  /\ \A a \in Edits :
       /\ a.key = "query_timeout_ms" => a.value \in {"0", "150", "soon"}
       /\ a.key = "template.name" => a.value \in {"ascii", "nerdfont", "mine", "bogus"}
       /\ a.key = "template.format" => a.value \in {"", "good", "broken"}

Default == [name |-> "ascii", format |-> "", templates |-> {}, query_timeout_ms |-> "150"]

Absent    == [holds |-> "nothing", config |-> Default]
Truncated == [holds |-> "no text", config |-> Default]
Garbage   == [holds |-> "garbage", config |-> Default]
Toml(c)   == [holds |-> "toml", config |-> c]

(* load_config_from: no file and an empty file are the defaults *)
Loads(f) == f.holds # "garbage"

resolved_format(c) ==
  IF c.format # "" THEN c.format
  ELSE IF c.name \in c.templates \cup Builtins THEN c.name
  ELSE "ascii"

(* CompiledTemplate::new *)
CompileError(c) == IF resolved_format(c) = "broken" THEN "template error" ELSE ""

(* DaemonState::format: a template that does not compile renders as its    *)
(* error, to which the sticky one is appended.                             *)
Format(c, e) ==
  <<IF CompileError(c) = "" THEN resolved_format(c) ELSE CompileError(c)>>
    \o (IF e = "" THEN <<>> ELSE <<e>>)

config_path == IF disk["xdg"] # Absent THEN "xdg" ELSE Native
config_init_path == "xdg"

Init ==
  /\ disk \in [Paths -> {Absent, Garbage} \cup {Toml(c) : c \in Saves}]
  /\ Native = "xdg" => disk["native"] = Absent
  /\ dirs \in {D \in SUBSET Paths : \A p \in Paths : disk[p] # Absent => p \in D}
  /\ phase = "down" /\ cf = "xdg" /\ config = Default /\ error = "" /\ cached = {}
  /\ watch = "unarmed" /\ events = 0 /\ missed = FALSE
  /\ pc = [s \in Setters |-> "idle"] /\ path = [s \in Setters |-> "xdg"]
  /\ doc = [s \in Setters |-> Default]
  /\ changes = 0 /\ stops = 0

-----------------------------------------------------------------------------
(* The daemon *)
(* An unreadable file at startup: the defaults, and the error sticks. *)
Load ==
  /\ phase = "down"
  /\ cf' = config_path
  /\ config' = IF Loads(disk[cf']) THEN disk[cf'].config ELSE Default
  /\ error' = IF Loads(disk[cf']) THEN CompileError(config') ELSE "config error"
  /\ phase' = "loaded" /\ missed' = FALSE
  /\ UNCHANGED <<files, cached, watch, events, stops, setter>>

(* The socket takes connections before requests are served. *)
Bind ==
  /\ phase = "loaded"
  /\ phase' = "bound"
  /\ UNCHANGED <<files, memory, watch, stops, news, setter>>

Serve ==
  /\ phase = "bound"
  /\ phase' = "serving"
  /\ UNCHANGED <<files, memory, watch, stops, news, setter>>

Arm ==
  /\ phase = "serving" /\ watch = "unarmed"
  /\ watch' = IF cf \in dirs THEN "armed" ELSE "off"
  /\ UNCHANGED <<files, phase, memory, stops, news, setter>>

(* Mutant: a file that does not load leaves the last error standing. *)
KeepError(c, f) == IF Loads(f) THEN CompileError(c) ELSE error

ErrorOf(c, f) == IF Loads(f) THEN CompileError(c) ELSE "config error"

(* reload_config: a file that does not parse changes the error alone; one  *)
(* whose template does not compile is taken all the same.                  *)
Reload ==
  LET f == disk[cf] IN
  /\ config' = IF Loads(f) THEN f.config ELSE config
  /\ error' = ErrorOf(config', f)
  /\ cached' = {Format(config', error') : t \in cached}
  /\ missed' = FALSE
  /\ UNCHANGED cf

(* The task sleeps 50 ms after an event, then reloads. *)
ConfigEvent ==
  /\ watch = "armed" /\ events > 0
  /\ events' = events - 1 /\ watch' = "asleep"
  /\ UNCHANGED <<files, phase, memory, stops, missed, setter>>

ReloadOnEvent ==
  /\ watch = "asleep"
  /\ Reload
  /\ watch' = "armed"
  /\ UNCHANGED <<files, phase, stops, events, setter>>

ReloadOnRequest(s) ==
  /\ phase = "serving" /\ pc[s] = "asking"
  /\ Reload
  /\ pc' = [pc EXCEPT ![s] = "done"]
  /\ UNCHANGED <<files, phase, watch, stops, events, path, doc>>

(* A refresh publishes a status. *)
RefreshDone ==
  /\ phase = "serving"
  /\ cached' = {Format(config, error)}
  /\ UNCHANGED <<files, phase, cf, config, error, watch, stops, news, setter>>

(* Requests it has not answered fail, which `config set` only logs. *)
Stop ==
  /\ phase # "down" /\ stops < MaxStops
  /\ stops' = stops + 1
  /\ phase' = "down" /\ watch' = "unarmed" /\ events' = 0
  /\ cf' = "xdg" /\ config' = Default /\ error' = "" /\ cached' = {} /\ missed' = FALSE
  /\ pc' = [s \in Setters |-> IF pc[s] = "asking" THEN "done" ELSE pc[s]]
  /\ UNCHANGED <<files, path, doc>>

-----------------------------------------------------------------------------
(* The file changes, and the watcher's thread tells the daemon.  Removing  *)
(* it is the one kind of event that watch_config_file passes over.         *)
Told(kind) == kind \in {"write", "rename"}

Change(p, f, kind) ==
  /\ disk' = [disk EXCEPT ![p] = f]
  /\ dirs' = dirs \cup {p}
  /\ LET seen == p = cf /\ watch \in {"armed", "asleep"} /\ Told(kind)
     IN  /\ events' = IF seen THEN events + 1 ELSE events
         /\ missed' = (missed \/ (p = cf /\ phase # "down" /\ ~seen))

(* Editors put a new file in the place of the old one, or move it away. *)
Save(p, f) ==
  /\ changes < MaxChanges /\ changes' = changes + 1
  /\ p \in {"xdg", Native} /\ f # disk[p]
  /\ Change(p, f, "rename")
  /\ UNCHANGED <<daemon, setter>>

Remove(p) ==
  /\ changes < MaxChanges /\ changes' = changes + 1
  /\ disk[p] # Absent
  /\ Change(p, Absent, "remove")
  /\ UNCHANGED <<daemon, setter>>

(* `config init`, and `config edit` without a file: no reload is asked for *)
ConfigInit ==
  /\ changes < MaxChanges /\ changes' = changes + 1
  /\ disk[config_init_path] = Absent
  /\ Change(config_init_path, Toml(Default), "write")
  /\ UNCHANGED <<daemon, setter>>

-----------------------------------------------------------------------------
(* `config set key value`.  The value's type is guessed from its text, so  *)
(* that of a variable, always a string, may be refused.                    *)
IsNumber(v) == v \in {"0", "3", "150"}

Typed(a) == IsNumber(a.value) <=> a.key = "query_timeout_ms"

WithKey(c, a) ==
  CASE a.key = "query_timeout_ms" -> [c EXCEPT !.query_timeout_ms = a.value]
    [] a.key = "template.name"    -> [c EXCEPT !.name = a.value]
    [] a.key = "template.format"  -> [c EXCEPT !.format = a.value]
    [] OTHER                      -> c

(* Mutant: the edited document is not parsed as a configuration. *)
Untyped(c, a) == a.key = "template.name" => a.value \in c.templates \cup Builtins

Valid(c, a) ==
  /\ Typed(a)
  /\ a.key = "template.name" => a.value \in c.templates \cup Builtins

SetRead(s, a) ==
  /\ pc[s] = "idle"
  /\ LET f == disk[config_path] IN
     IF Loads(f) /\ Valid(f.config, a)
     THEN /\ path' = [path EXCEPT ![s] = config_path]
          /\ doc' = [doc EXCEPT ![s] = WithKey(f.config, a)]
          /\ pc' = [pc EXCEPT ![s] = "read"]
     ELSE pc' = [pc EXCEPT ![s] = "refused"] /\ UNCHANGED <<path, doc>>
  /\ UNCHANGED <<files, daemon, news>>

(* std::fs::write: the file is empty for a while. *)
SetTruncate(s) ==
  /\ pc[s] = "read"
  /\ Change(path[s], Truncated, "write")
  /\ pc' = [pc EXCEPT ![s] = "truncated"]
  /\ UNCHANGED <<changes, daemon, path, doc>>

SetWrite(s) ==
  /\ pc[s] = "truncated"
  /\ Change(path[s], Toml(doc[s]), "write")
  /\ pc' = [pc EXCEPT ![s] = "written"]
  /\ path' = [path EXCEPT ![s] = "xdg"] /\ doc' = [doc EXCEPT ![s] = Default]
  /\ UNCHANGED <<changes, daemon>>

(* reload_config of the client: only if there is a socket *)
SetAsk(s) ==
  /\ pc[s] = "written"
  /\ pc' = [pc EXCEPT ![s] = IF phase \in {"bound", "serving"} THEN "asking" ELSE "done"]
  /\ UNCHANGED <<files, daemon, news, path, doc>>

Daemon == Load \/ Bind \/ Serve \/ Arm \/ ConfigEvent \/ ReloadOnEvent
          \/ (\E s \in Setters : ReloadOnRequest(s))

ConfigSet(s) == (\E a \in Edits : SetRead(s, a)) \/ SetTruncate(s) \/ SetWrite(s) \/ SetAsk(s)

Editor == \/ \E p \in Paths : Remove(p)
          \/ \E p \in Paths, f \in {Absent, Garbage} \cup {Toml(c) : c \in Saves} : Save(p, f)
          \/ ConfigInit

Next == Daemon \/ RefreshDone \/ Stop \/ Editor \/ \E s \in Setters : ConfigSet(s)

Spec == Init /\ [][Next]_vars

-----------------------------------------------------------------------------
Texts == {Format(c, e) : c \in Config, e \in {"", "config error", "template error"}}

File == [holds : {"nothing", "no text", "garbage", "toml"}, config : Config]

(* Every variable has its type. *)
TypeOK ==
  /\ disk \in [Paths -> File] /\ dirs \in SUBSET Paths
  /\ phase \in {"down", "loaded", "bound", "serving"}
  /\ cf \in Paths /\ config \in Config
  /\ error \in {"", "config error", "template error"}
  /\ cached \in SUBSET Texts
  /\ watch \in {"unarmed", "off", "armed", "asleep"} /\ events \in Nat /\ missed \in BOOLEAN
  /\ pc \in [Setters -> {"idle", "read", "refused", "truncated", "written", "asking", "done"}]
  /\ path \in [Setters -> Paths] /\ doc \in [Setters -> Config]
  /\ changes \in 0..MaxChanges /\ stops \in 0..MaxStops

Quiet == /\ phase = "serving" /\ events = 0 /\ watch \in {"armed", "off"}
         /\ \A s \in Setters : pc[s] # "asking"

(* However loads, events and requests to reload interleave with the        *)
(* writers, once the daemon has nothing left to do it shows what its file  *)
(* says now: its template, or with a file that does not parse, the error.  *)
(* Not if the file changed before it was watched, or was removed.          *)
ShownFollowsFile ==
  Quiet /\ ~missed =>
    LET f == disk[cf] IN
    /\ Loads(f) => config = f.config /\ \A t \in cached : t = Format(f.config, CompileError(f.config))
    /\ ~Loads(f) => \A t \in cached : t[Len(t)] = "config error"

=============================================================================
