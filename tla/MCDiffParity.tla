----------------------------- MODULE MCDiffParity -----------------------------
(* Three files, two similar texts, and an executable twin. *)
EXTENDS DiffParity

MCPathOrder == <<"a", "b", "c">>
MCIgnored   == {"c"}
MCValues    == {"v", "w", "x", "k", "m"}
MCText      == [v \in MCValues |-> CASE v = "x" -> "tv" [] v = "k" -> "tm" [] OTHER -> "t" \o v]
MCCheckout  == [v \in MCValues |-> IF v = "k" THEN "m" ELSE v]
MCGixView   == [v \in MCValues |-> IF v = "k" THEN "v" ELSE v]
MCTexts     == {"tv", "tw", "tm"}
MCSimilarity == [p \in MCTexts \X MCTexts |->
                   IF p[1] = p[2] THEN 1000 ELSE IF "tm" \in {p[1], p[2]} THEN 300 ELSE 600]
MCInitTrees == {[p \in ToSet(MCPathOrder) |-> IF p \in s THEN "v" ELSE "absent"] : s \in {{"a"}, {"a", "b"}}}
MCRemoteTrees == {[p \in ToSet(MCPathOrder) |-> IF p = "c" THEN "w" ELSE "absent"]}
=============================================================================
