----------------------------- MODULE MCTaskWork -----------------------------
(* Instances of TaskWork for TLC: a root message r and its descendants. *)
EXTENDS TaskWork, TLC

CONSTANTS r, c, d

\* The descendants are interchangeable.
Descendants == Permutations({c, d})
=============================================================================
