--------------------------- MODULE MCSemanticDag ---------------------------
(***************************************************************************)
(* A tree for TLC: the root holds a file and the directories a and b, and  *)
(* each of these a file.                                                   *)
(***************************************************************************)
EXTENDS SemanticDag

MCParent == [e \in {"a", "b", "f", "g", "h"} |->
               CASE e = "g" -> "a" [] e = "h" -> "b" [] OTHER -> "root"]
MCAnc    == [e \in {"root", "a", "b", "f", "g", "h"} |->
               IF e = "root" THEN {} ELSE {"root", MCParent[e]}]
=============================================================================
