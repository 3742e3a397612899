---------------------------- MODULE MCJjBookmarks ----------------------------
(* JjBookmarks on small instances, with interchangeable bookmarks, and     *)
(* BookmarkLimit on short words.                                           *)
EXTENDS JjBookmarks, BookmarkLimit, TLC

Sym == Permutations(Names)

(* The template's cut, of any short list of names: it depends on none of   *)
(* the variables, so it is looked at where a run starts.                   *)
ShownAreMostWanted == phase = "start" => CutsTheLeastWanted

=============================================================================
