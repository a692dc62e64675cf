------------------------------ MODULE BottomUp ------------------------------
(***************************************************************************)
(* What SemanticDagExecutor.run promises its caller: the entries of a tree *)
(* are finished bottom-up and once each, a directory that cannot be listed *)
(* is given up with everything below it, and once the call has ended       *)
(* nothing is finished any more.                                           *)
(***************************************************************************)
CONSTANTS Entries,      \* files and directories to be summarised
          Root,         \* the directory the call was made for
          Below          \* Below[e] is the set of entries directly below e

VARIABLES finished,     \* entries whose parent may count on them
          outcome       \* "running", then "ok", "failed" or "cancelled"

vars == <<finished, outcome>>

Init == finished = {} /\ outcome = "running"

\* An entry that has been neither finished nor given up with its directory.
Open(e) ==
    /\ e \notin finished
    /\ \A p \in Entries : e \in Below[p] => p \notin finished

\* An entry is finished when everything below it is.
Finish(e) ==
    /\ outcome = "running"
    /\ Open(e)
    /\ Below[e] \subseteq finished
    /\ finished' = finished \cup {e}
    /\ UNCHANGED outcome

\* A directory that cannot be listed counts as finished; nothing below it has
\* been touched.
GiveUp(e) ==
    /\ outcome = "running"
    /\ Open(e)
    /\ Below[e] \cap finished = {}
    /\ finished' = finished \cup {e}
    /\ UNCHANGED outcome

\* The call ends: well only when the root is finished, with an error at any time.
End ==
    /\ outcome = "running"
    /\ outcome' \in {"ok", "failed", "cancelled"}
    /\ outcome' = "ok" => Root \in finished
    /\ UNCHANGED finished

Next == End \/ \E e \in Entries : Finish(e) \/ GiveUp(e)

Spec == Init /\ [][Next]_vars
=============================================================================
