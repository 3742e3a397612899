--------------------------- MODULE MCConfigReload ---------------------------
(* ConfigReload on small instances: configurations that differ in what     *)
(* renders, in whether it compiles and in the timeout.                     *)
EXTENDS ConfigReload, TLC

Sym == Permutations(Setters)

MCEdits == {[key |-> "query_timeout_ms", value |-> "soon"],
            [key |-> "query_timeout_ms", value |-> "0"],
            [key |-> "template.name", value |-> "nerdfont"],
            [key |-> "template.format", value |-> "broken"],
            [key |-> "template.vars.max_bookmarks", value |-> "3"]}

MCSaves ==
  {[name |-> "mine", format |-> "", templates |-> {"mine"}, query_timeout_ms |-> "0"],
   [name |-> "bogus", format |-> "broken", templates |-> {}, query_timeout_ms |-> "150"]}

=============================================================================
