----------------------------- MODULE MCPathLock -----------------------------
(***************************************************************************)
(* Instances of PathLock for TLC: a directory /a with a child /a/b.        *)
(***************************************************************************)
EXTENDS PathLock, TLC

CONSTANTS o1, o2, o3

MCPaths2 == {"/a", "/a/b"}
MCAnc2   == [p \in MCPaths2 |-> IF p = "/a/b" THEN {"/a"} ELSE {}]
MCRank2  == [p \in MCPaths2 |-> IF p = "/a/b" THEN 2 ELSE 1]

Exact(p) == [path |-> p, kind |-> "exact"]
Tree(p)  == [path |-> p, kind |-> "tree"]

\* TREE and EXACT on the parent and the child; one batch names /a twice.
MCMixed  == {{Exact("/a/b")}, {Tree("/a")}, {Exact("/a"), Tree("/a"), Exact("/a/b")}}
MCNested == {{Exact("/a")}, {Tree("/a")}, {Exact("/a/b")}}
MCOne    == {{Exact("/a/b")}}

Tree2(a, b) == [p \in MCPaths2 |-> IF p = "/a" THEN a ELSE b]
MCNodes2 == {Tree2("missing", "missing"), Tree2("dir", "missing"),
             Tree2("dir", "file"), Tree2("dir", "dir")}
MCDirs   == {Tree2("dir", "dir")}

Peers == Permutations({o2, o3})
=============================================================================
