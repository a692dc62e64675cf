------------------------- MODULE MCSemanticRefresh -------------------------
(***************************************************************************)
(* Instances of SemanticRefresh for TLC.                                   *)
(***************************************************************************)
EXTENDS SemanticRefresh, TLC

CONSTANTS w1, w2, w3, f1, f2

\* Each writer has a file of its own, or the first two write the same one.
MCFileOf  == [w \in Writers |-> IF w = w1 THEN f1 ELSE f2]
MCShared  == [w \in Writers |-> IF w = w3 THEN f2 ELSE f1]

\* One user, or two whose messages do not coalesce.
MCOneKey  == [w \in Writers |-> "k"]
MCTwoKeys == [w \in Writers |-> IF w = w2 THEN "l" ELSE "k"]

\* Writers may be exchanged together with their files.
MCSymmetry == {p \in Permutations(Writers \cup Files) :
                 \A w \in Writers : p[w] \in Writers /\ p[FileOf[w]] = FileOf[p[w]]}
=============================================================================
