---------------------------- MODULE SemanticDag ----------------------------
(***************************************************************************)
(* SemanticDagExecutor and the node scheduler it shares with the other     *)
(* executors of its event loop (semantic_dag.py).  run() schedules the     *)
(* root directory; workers list directories, summarise files and, when the *)
(* pending counter of a directory reaches zero, write its overview and     *)
(* report to the parent.  Everything between two awaits is one step.       *)
(*                                                                         *)
(* Summaries, overviews and vectors are model calls: only whether they     *)
(* succeed matters.  The scheduler's queue is first-in first-out; here any *)
(* queued work may be taken.  node.lock is held across an await only by    *)
(* the overview task, when no report to the node can come any more         *)
(* (CountsExact), so it is not modelled.                                   *)
(***************************************************************************)
EXTENDS Integers, FiniteSets

CONSTANTS Dirs, Files,
          Root,
          Parent,        \* the directory of every entry but Root
          Anc,           \* all directories above each entry
          Required,      \* files _dispatch_dir schedules
          Recursive,     \* whether it schedules directories too
          Aggregate,     \* aggregate_directory
          MaxWorkers,    \* max_concurrent_llm
          MaxCancels     \* how often the caller's task may be cancelled

Entries == Dirs \cup Files

ASSUME TreeAssumption ==
    /\ IsFiniteSet(Dirs) /\ IsFiniteSet(Files) /\ Dirs \cap Files = {}
    /\ Root \in Dirs
    /\ Parent \in [Entries \ {Root} -> Dirs]
    /\ Anc \in [Entries -> SUBSET Dirs] /\ Anc[Root] = {}
    /\ \A e \in Entries \ {Root} :
         /\ Anc[e] = Anc[Parent[e]] \cup {Parent[e]}
         /\ Root \in Anc[e] /\ e \notin Anc[e]
         /\ \A a \in Anc[e] : \E c \in (Anc[e] \cup {e}) \ {Root} : Parent[c] = a
    /\ Required \subseteq Files

ASSUME ConfigAssumption ==
    /\ Recursive \in BOOLEAN /\ Aggregate \in BOOLEAN
    /\ MaxWorkers \in Nat \ {0} /\ MaxCancels \in Nat
    /\ ~Aggregate => ~Recursive

Works == [kind : {"dir", "overview"}, node : Dirs] \cup [kind : {"file"}, node : Files]

DirWork(d)  == [kind |-> "dir", node |-> d]
FileWork(f) == [kind |-> "file", node |-> f]
Overview(d) == [kind |-> "overview", node |-> d]

\* The entries whose reports directory d waits for.
Kids(d) == {e \in Required \cup (IF Recursive THEN Dirs \ {Root} ELSE {}) : Parent[e] = d}

VARIABLES
    stage,        \* where each work is: "none", "queued", a step of its task, "over"
    workers,      \* number of live worker tasks of the scheduler
    nodes,        \* _nodes: the directories with a DirNode
    parents,      \* _parent: the directories whose parent is recorded
    pending,      \* DirNode.pending
    scheduled,    \* directories with overview_scheduled
    closed, failure, rootDone,
    run,          \* "waiting", "except", "finally", "over"
    result,       \* what run is about to end with: "ok", "failed" or "cancelled"
    cancels,
    stats,        \* DagStats without total_nodes
    finished      \* history: entries that reported to their directory

dag  == <<nodes, parents, pending, scheduled, finished>>
call == <<run, result, cancels>>
vars == <<stage, workers, dag, closed, failure, rootDone, call, stats>>

Running == {w \in Works : stage[w] \notin {"none", "queued", "over"}}
Queued  == {w \in Works : stage[w] = "queued"}

\* _active_work_idle: _start_ and _finish_scheduled_work count the works that
\* workers are busy with.
Idle == Running = {}

-----------------------------------------------------------------------------
(* SemanticNodeScheduler *)

\* Wrong variant: one new worker for every work.
EnsuredEach(n, q) == n + q

\* _ensure_workers, after the submission of works: counts idle and busy workers
\* alike.
Ensured(n, q) == IF n < q /\ n < MaxWorkers THEN IF q < MaxWorkers THEN q ELSE MaxWorkers ELSE n

\* A worker goes from work w to step s, and submits the works in new, in one
\* step; nothing is submitted once the executor is closed.
Submit(w, s, new) ==
    LET q == IF closed THEN {} ELSE new
    IN  /\ stage' = [x \in Works |-> IF x = w THEN s ELSE IF x \in q THEN "queued" ELSE stage[x]]
        /\ workers' = IF q = {} THEN workers
                      ELSE Ensured(workers, Cardinality((Queued \ {w}) \cup q))

\* The DagStats after a node starts, waits for its children, or is done.
Scheduled(st, n) == [st EXCEPT !.pending = @ + n]
Down(n)          == IF n > 0 THEN n - 1 ELSE 0
Started(st)      == [st EXCEPT !.pending = Down(@), !.in_progress = @ + 1]
\* Wrong variant: a waiting directory stays in progress.
WaitingBusy(st)  == [st EXCEPT !.pending = @ + 1]
Waiting(st)      == [st EXCEPT !.pending = @ + 1, !.in_progress = Down(@)]
Done(st)         == [st EXCEPT !.done = @ + 1, !.in_progress = Down(@)]

\* A worker whose wait for work timed out with an empty queue ends.
WorkerExits ==
    /\ Queued = {} /\ workers > Cardinality(Running)
    /\ workers' = workers - 1
    /\ UNCHANGED <<stage, dag, closed, failure, rootDone, call, stats>>

\* executor.fail: the first exception is kept, the executor closes.
fail == closed' = TRUE /\ failure' = TRUE /\ rootDone' = TRUE

-----------------------------------------------------------------------------
(* Reports: _on_file_done, _on_child_done, the end of the root *)

\* Wrong variant: the overview is due when one child is still missing.
ReportEarly(w, e, st, gone) ==
    LET p == Parent[e]
    IN  /\ finished' = finished \cup {e}
        /\ nodes' = nodes \ gone /\ parents' = parents \ gone
        /\ stats' = st
        /\ UNCHANGED <<closed, failure, rootDone>>
        /\ pending' = [pending EXCEPT ![p] = @ - 1]
        /\ IF pending[p] \in {1, 2} /\ p \notin scheduled
             THEN scheduled' = scheduled \cup {p} /\ Submit(w, "over", {Overview(p)})
             ELSE UNCHANGED scheduled /\ Submit(w, "over", {})

\* Entry e, worked on as w, reports to its directory and w is over; gone are
\* the directories _release_dir_node forgets.
Report(w, e, st, gone) ==
    LET p == Parent[e]
    IN  /\ finished' = finished \cup {e}
        /\ nodes' = nodes \ gone /\ parents' = parents \ gone
        /\ stats' = st
        /\ UNCHANGED <<closed, failure, rootDone>>
        /\ IF p \in nodes
             THEN /\ pending' = [pending EXCEPT ![p] = @ - 1]
                  /\ IF pending[p] = 1 /\ p \notin scheduled
                       THEN scheduled' = scheduled \cup {p} /\ Submit(w, "over", {Overview(p)})
                       ELSE UNCHANGED scheduled /\ Submit(w, "over", {})
             ELSE UNCHANGED <<pending, scheduled>> /\ Submit(w, "over", {})

\* The root's part of a report: there is no parent to tell but the caller.
RootReport(w, d, st, gone) ==
    /\ finished' = finished \cup {d}
    /\ nodes' = nodes \ gone /\ parents' = parents \ gone
    /\ rootDone' = TRUE /\ stats' = st
    /\ Submit(w, "over", {})
    /\ UNCHANGED <<pending, scheduled, closed, failure>>

\* A work that ends without a report, or with an exception for the worker.
Drop(w, st)  == Submit(w, "over", {}) /\ stats' = st /\ UNCHANGED <<dag, closed, failure, rootDone>>
Raise(w, st) == Submit(w, "over", {}) /\ stats' = st /\ fail /\ UNCHANGED dag

\* A work goes on to its next await.
Step(w, s) == stage' = [stage EXCEPT ![w] = s] /\ UNCHANGED <<workers, dag, closed, failure, rootDone>>

-----------------------------------------------------------------------------
(* The works *)

\* A worker takes w; a closed executor's work is thrown away.
Take(w) ==
    /\ stage[w] = "queued" /\ workers > Cardinality(Running)
    /\ UNCHANGED call
    /\ \/ closed /\ Drop(w, stats)
       \/ ~closed /\ w.kind = "dir" /\ w.node \in nodes /\ Drop(w, Done(Started(stats)))
       \/ /\ ~closed /\ w.kind = "dir" /\ w.node \notin nodes
          /\ parents' = parents \cup {w.node}
          /\ stage' = [stage EXCEPT ![w] = "list"] /\ stats' = Started(stats)
          /\ UNCHANGED <<workers, nodes, pending, scheduled, finished, closed, failure, rootDone>>
       \/ ~closed /\ w.kind = "file" /\ Step(w, "summary") /\ stats' = Started(stats)
       \/ ~closed /\ w.kind = "overview" /\ w.node \notin nodes /\ Drop(w, Started(stats))
       \/ /\ ~closed /\ w.kind = "overview" /\ w.node \in nodes /\ Aggregate
          /\ Step(w, "generate") /\ stats' = Started(stats)
       \/ /\ ~closed /\ w.kind = "overview" /\ w.node \in nodes /\ ~Aggregate
          /\ IF w.node = Root THEN RootReport(w, Root, Done(Started(stats)), {Root})
             ELSE /\ nodes' = nodes \ {w.node} /\ parents' = parents \ {w.node}
                  /\ Submit(w, "over", {}) /\ stats' = Done(Started(stats))
                  /\ UNCHANGED <<pending, scheduled, finished, closed, failure, rootDone>>

\* _dispatch_dir after the listing: the node is built and its entries are
\* scheduled, or its overview when there are none.
Listed(w) ==
    LET d == w.node
        new == IF Kids(d) = {} THEN {Overview(d)}
               ELSE {IF e \in Files THEN FileWork(e) ELSE DirWork(e) : e \in Kids(d)}
    IN  /\ stage[w] = "list"
        /\ nodes' = nodes \cup {d}
        /\ pending' = [pending EXCEPT ![d] = Cardinality(Kids(d))]
        /\ scheduled' = IF Kids(d) = {} THEN scheduled \cup {d} ELSE scheduled \ {d}
        /\ Submit(w, "over", new)
        /\ stats' = Scheduled(Waiting(stats), IF closed THEN 0 ELSE Cardinality(Kids(d)))
        /\ UNCHANGED <<parents, finished, closed, failure, rootDone, call>>

\* Wrong variant: the parent is not told.
ListFailsSilently(w) ==
    /\ stage[w] = "list"
    /\ UNCHANGED call
    /\ IF w.node = Root THEN RootReport(w, Root, Done(stats), {}) ELSE Drop(w, Done(stats))

\* _dispatch_dir when the listing or the pending snapshot raises: the directory
\* counts as done, and the parent goes on without it.
ListFails(w) ==
    /\ stage[w] = "list"
    /\ UNCHANGED call
    /\ IF w.node = Root THEN RootReport(w, Root, Done(stats), {})
                        ELSE Report(w, w.node, Done(stats), {})

\* _file_summary_task after the summary; any error but a corrupt sidecar makes
\* the summary empty.
Summarised(w) ==
    /\ stage[w] = "summary"
    /\ UNCHANGED call
    /\ \/ Raise(w, Done(stats))
       \/ closed /\ Drop(w, Done(stats))
       \/ ~closed /\ Step(w, "vector") /\ stats' = Done(stats)
       \/ ~closed /\ Report(w, w.node, Done(stats), {})

\* The file's vectors are scheduled, or that raises.
Vectorised(w) ==
    /\ stage[w] = "vector"
    /\ UNCHANGED call
    /\ Raise(w, stats) \/ Report(w, w.node, stats, {})

\* The end of _overview_task: the parent is told, then the node is forgotten.
OverviewDone(w) ==
    LET d == w.node
    IN  IF d = Root \/ d \notin parents
        THEN RootReport(w, d, Done(stats), {d})
        ELSE Report(w, d, Done(stats), {d})

\* _overview_task after the generation, or after it found nothing changed.
Generated(w) ==
    /\ stage[w] = "generate"
    /\ UNCHANGED call
    /\ \/ Raise(w, Done(stats))                   \* a corrupt sidecar
       \/ closed /\ Drop(w, Done(stats))
       \/ OverviewDone(w)                         \* an error: logged; or nothing to write
       \/ ~closed /\ Step(w, "write") /\ UNCHANGED stats

\* After the write: done, stale and failed writes all go on.
Written(w) ==
    /\ stage[w] = "write"
    /\ UNCHANGED call
    /\ \/ Raise(w, Done(stats))
       \/ OverviewDone(w)
       \/ Step(w, "dirvector") /\ UNCHANGED stats

DirVectorised(w) ==
    /\ stage[w] = "dirvector"
    /\ UNCHANGED call
    /\ Raise(w, Done(stats)) \/ OverviewDone(w)

Work(w) == \/ Take(w) \/ Listed(w) \/ ListFails(w) \/ Summarised(w) \/ Vectorised(w)
           \/ Generated(w) \/ Written(w) \/ DirVectorised(w)

-----------------------------------------------------------------------------
(* run() *)

\* _root_done.wait() returns.
RootWakes ==
    /\ run = "waiting" /\ rootDone
    /\ closed' = TRUE
    /\ IF failure THEN run' = "except" /\ result' = "failed"
                  ELSE run' = "finally" /\ UNCHANGED result
    /\ UNCHANGED <<stage, workers, dag, failure, rootDone, cancels, stats>>

\* Wrong variant: run returns while work is under way.
DrainedEarly ==
    /\ run \in {"except", "finally"}
    /\ run' = IF run = "except" THEN "finally" ELSE "over"
    /\ UNCHANGED <<stage, workers, dag, closed, failure, rootDone, result, cancels, stats>>

\* _active_work_idle.wait() returns, in the except or in the finally clause.
Drained ==
    /\ run \in {"except", "finally"} /\ Idle
    /\ run' = IF run = "except" THEN "finally" ELSE "over"
    /\ UNCHANGED <<stage, workers, dag, closed, failure, rootDone, result, cancels, stats>>

\* The caller's task is cancelled: each of the three awaits can be left that way.
Cancel ==
    /\ run # "over" /\ cancels < MaxCancels
    /\ cancels' = cancels + 1
    /\ result' = "cancelled"
    /\ closed' = TRUE
    /\ run' = CASE run = "waiting" -> "except" [] run = "except" -> "finally" [] OTHER -> "over"
    /\ UNCHANGED <<stage, workers, dag, failure, rootDone, stats>>

\* run() up to its first await; workers may be left from earlier executors.
Init ==
    /\ stage = [w \in Works |-> IF w = DirWork(Root) THEN "queued" ELSE "none"]
    /\ workers \in 1 .. MaxWorkers
    /\ nodes = {} /\ parents = {} /\ scheduled = {} /\ finished = {}
    /\ pending = [d \in Dirs |-> 0]
    /\ closed = FALSE /\ failure = FALSE /\ rootDone = FALSE
    /\ run = "waiting" /\ result = "ok" /\ cancels = 0
    /\ stats = [pending |-> 1, in_progress |-> 0, done |-> 0]

Next == WorkerExits \/ RootWakes \/ Drained \/ Cancel \/ \E w \in Works : Work(w)

Spec == Init /\ [][Next]_vars

\* Workers keep taking and finishing work (model calls end), and the caller's
\* coroutine goes on when it can.
FairSpec == Spec /\ WF_vars(\E w \in Works : Work(w)) /\ WF_vars(RootWakes) /\ WF_vars(Drained)

-----------------------------------------------------------------------------
(* Properties *)

Stages == {"none", "queued", "list", "summary", "vector", "generate", "write", "dirvector", "over"}

\* Every variable has its type.
TypeOK ==
    /\ stage \in [Works -> Stages]
    /\ workers \in 0 .. MaxWorkers
    /\ nodes \subseteq Dirs /\ parents \subseteq Dirs /\ scheduled \subseteq Dirs
    /\ pending \in [Dirs -> Int]
    /\ finished \subseteq Entries
    /\ closed \in BOOLEAN /\ failure \in BOOLEAN /\ rootDone \in BOOLEAN
    /\ run \in {"waiting", "except", "finally", "over"}
    /\ result \in {"ok", "failed", "cancelled"}
    /\ cancels \in 0 .. MaxCancels
    /\ stats \in [pending : Nat, in_progress : Nat, done : Nat]

\* DirNode.pending is the number of entries that have yet to report, whatever the
\* order of listings, failures and reports; and while an overview is being made no
\* report to its directory is missing, so node.lock is never contended.
CountsExact ==
    /\ \A d \in nodes : pending[d] = Cardinality(Kids(d) \ finished)
    /\ \A w \in Running : w.kind = "overview" => Kids(w.node) \subseteq finished

\* The counters of get_active_stats describe the work: in_progress_nodes the tasks
\* of workers, pending_nodes what is queued and the directories that wait for their
\* entries.
StatsExact ==
    ~closed =>
      /\ stats.in_progress = Cardinality({w \in Running : stage[w] # "vector"})
      /\ stats.pending = Cardinality(Queued)
                          + Cardinality({d \in nodes : stage[Overview(d)] = "none"})

\* What run() promises: summaries bottom-up and once each, no result of the
\* executor after run has returned, and success only with the root finished.
Bottom == INSTANCE BottomUp
    WITH Below <- [e \in Entries |-> IF e \in Dirs THEN Kids(e) ELSE {}],
         outcome <- IF run = "over" THEN result ELSE "running"

Implements == Bottom!Spec

\* run() returns: no report is lost, no queued work is left without a worker, and
\* the drain ends.
RunReturns == <>(run = "over")
=============================================================================
