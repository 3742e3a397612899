---------------------------- MODULE MCIgnoreFilter ----------------------------
(* A root, a directory in it, one in that without any ignore file, and a    *)
(* second directory of the root, as deep as the first.                      *)
EXTENDS IgnoreFilter, TLC

CONSTANTS root, mid, leaf, side, gitignore, jjignore

MCUp == (root :> {root}) @@ (mid :> {root, mid}) @@ (leaf :> {root, mid, leaf})
          @@ (side :> {root, side})
MCIgnoreFiles == {Path(root, gitignore), Path(mid, gitignore), Path(side, jjignore)}
=============================================================================
