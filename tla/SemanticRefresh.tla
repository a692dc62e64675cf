-------------------------- MODULE SemanticRefresh --------------------------
(***************************************************************************)
(* The freshness of one directory's generated sidecars, .overview.md and   *)
(* .abstract.md, while files of the directory are written.                 *)
(*                                                                         *)
(* A content write stores the file, counts the change in both sidecars     *)
(* under an exact lease and, when the count is due, queues a semantic      *)
(* message whose coalesce version outdates earlier ones.  The handler of a *)
(* message lists the directory, takes the count it will consume, reads the *)
(* files, generates and writes the sidecars back.  Leases are asked for    *)
(* with a timeout of 0: who finds the sidecars leased fails at once.       *)
(*                                                                         *)
(* A file's content is the writer that wrote it, a sidecar's body what its *)
(* generation read.  Summaries of files and vectors, which a message that  *)
(* does not aggregate is about, are left out.                              *)
(***************************************************************************)
EXTENDS Integers, FiniteSets

CONSTANTS Files,        \* entries of the directory
          Writers,      \* content writes, one each
          FileOf,       \* the file each writes
          KeyOf,        \* the coalesce key of its message
          Created,      \* files that do not exist before they are written
          Threshold,    \* pending changes at which a refresh is due: 1 in a
                        \* directory no wider than overview_sample_limit
          MaxFaults,    \* failing enqueues and failing handlers
          Absent, Old, None

ASSUME InstanceAssumption ==
    /\ FileOf \in [Writers -> Files] /\ Created \subseteq Files /\ Absent # Old
    /\ Threshold \in Nat \ {0} /\ MaxFaults \in Nat
    /\ {Absent, Old, None} \cap Writers = {}

Keys == {KeyOf[w] : w \in Writers}
Sidecars == {"overview", "abstract"}

VARIABLES
    disk,       \* content of each file
    sidecar,    \* body and pending_child_changes of each sidecar
    lease,      \* who holds the exact lease on the two sidecars, or None
    latest,     \* _SEMANTIC_COALESCE_VERSION
    writer,     \* per writer: step, content to restore, count
    message,    \* per writer, its message: "none", "pending", "processing", "gone"
    version,    \* coalesce_version of the message
    handler,    \* per message, its handler: step, listing, snapshot, body
    faults

vars == <<disk, sidecar, lease, latest, writer, message, version, handler, faults>>
queue == <<latest, message, version>>

Pending == IF sidecar["overview"].pending > sidecar["abstract"].pending
           THEN sidecar["overview"].pending ELSE sidecar["abstract"].pending

\* is_semantic_coalesce_stale
is_stale(m) == version[m] < latest[KeyOf[m]]

-----------------------------------------------------------------------------
(* The writer: _write_direct_with_refresh, plan_abstract_overview_refresh *)

AtW(w, p)  == writer[w].pc = p
ToW(w, p)  == writer' = [writer EXCEPT ![w].pc = p]

\* The exact lease on the file is held from here to the end of the writer.
Write(w) ==
    /\ AtW(w, "idle")
    /\ \A v \in Writers : FileOf[v] = FileOf[w] => writer[v].pc \in {"idle", "done", "failed"}
    /\ disk' = [disk EXCEPT ![FileOf[w]] = w]
    /\ writer' = [writer EXCEPT ![w] = [pc |-> "plan", prev |-> disk[FileOf[w]], after |-> 0]]
    /\ UNCHANGED <<sidecar, lease, queue, handler, faults>>

\* Wrong variant: the count goes ahead without the lease.
PlanAcquireAny(w) ==
    /\ AtW(w, "plan")
    /\ lease' = w /\ ToW(w, "count")
    /\ UNCHANGED <<disk, sidecar, queue, handler, faults>>

\* The exact batch lease on both sidecars.
PlanAcquire(w) ==
    /\ AtW(w, "plan")
    /\ IF lease = None THEN lease' = w /\ ToW(w, "count")
                       ELSE UNCHANGED lease /\ ToW(w, "rollback")
    /\ UNCHANGED <<disk, sidecar, queue, handler, faults>>

\* The new count is decided and written to the overview, then to the abstract.
Count(w) ==
    /\ AtW(w, "count")
    /\ writer' = [writer EXCEPT ![w].pc = "count2", ![w].after = Pending + 1]
    /\ sidecar' = [sidecar EXCEPT !["overview"].pending = Pending + 1]
    /\ UNCHANGED <<disk, lease, queue, handler, faults>>

\* decide_parent_refresh: below the threshold the change stays pending, and the
\* message that is queued for the file alone is left out.
CountBoth(w) ==
    /\ AtW(w, "count2")
    /\ sidecar' = [sidecar EXCEPT !["abstract"].pending = writer[w].after]
    /\ lease' = None
    /\ ToW(w, IF writer[w].after >= Threshold THEN "enqueue" ELSE "done")
    /\ UNCHANGED <<disk, queue, handler, faults>>

\* SemanticQueue.enqueue: the version is taken before the message is stored.
NewVersion(m) ==
    /\ latest' = [latest EXCEPT ![KeyOf[m]] = @ + 1]
    /\ version' = [version EXCEPT ![m] = latest[KeyOf[m]] + 1]

Coalesce(w) ==
    /\ AtW(w, "enqueue")
    /\ NewVersion(w)
    /\ ToW(w, "store")
    /\ UNCHANGED <<disk, sidecar, lease, message, handler, faults>>

Store(w) ==
    /\ AtW(w, "store")
    /\ message' = [message EXCEPT ![w] = "pending"]
    /\ ToW(w, "done")
    /\ UNCHANGED <<disk, sidecar, lease, latest, version, handler, faults>>

StoreFails(w) ==
    /\ AtW(w, "store") /\ faults < MaxFaults
    /\ faults' = faults + 1
    /\ ToW(w, "rollback")
    /\ UNCHANGED <<disk, sidecar, lease, queue, handler>>

\* _rollback_direct_write; the caller is told that the write failed.
Rollback(w) ==
    /\ AtW(w, "rollback")
    /\ disk' = [disk EXCEPT ![FileOf[w]] = writer[w].prev]
    /\ ToW(w, "failed")
    /\ UNCHANGED <<sidecar, lease, queue, handler, faults>>

Writing(w) == \/ Write(w) \/ PlanAcquire(w) \/ Count(w) \/ CountBoth(w) \/ Coalesce(w)
              \/ Store(w) \/ StoreFails(w) \/ Rollback(w)

-----------------------------------------------------------------------------
(* The handler: SemanticProcessor.on_dequeue and the directory's DAG node *)

AtH(m, p) == handler[m].pc = p
ToH(m, p) == handler' = [handler EXCEPT ![m].pc = p]

\* A stale message is skipped, or kept for its files alone.
Dequeue(m) ==
    /\ message[m] = "pending"
    /\ IF is_stale(m)
         THEN message' = [message EXCEPT ![m] = "gone"] /\ UNCHANGED handler
         ELSE /\ message' = [message EXCEPT ![m] = "processing"]
              /\ handler' = [handler EXCEPT ![m] = [pc |-> "list", todo |-> {}, snap |-> 0,
                                                    body |-> [f \in Files |-> Absent]]]
    /\ UNCHANGED <<disk, sidecar, lease, latest, version, writer, faults>>

List(m) ==
    /\ AtH(m, "list")
    /\ handler' = [handler EXCEPT ![m].pc = "snapshot", ![m].todo = {f \in Files : disk[f] # Absent}]
    /\ UNCHANGED <<disk, sidecar, lease, queue, writer, faults>>

\* read_abstract_overview_pending_snapshot; without the lease the directory
\* cannot be dispatched, and the run ends as if there were nothing to do.
SnapshotAcquire(m) ==
    /\ AtH(m, "snapshot")
    /\ IF lease = None THEN lease' = m /\ ToH(m, "snapshot2")
                       ELSE UNCHANGED lease /\ ToH(m, "end")
    /\ UNCHANGED <<disk, sidecar, queue, writer, faults>>

Snapshot(m) ==
    /\ AtH(m, "snapshot2")
    /\ handler' = [handler EXCEPT ![m].pc = "read", ![m].snap = Pending]
    /\ lease' = None
    /\ UNCHANGED <<disk, sidecar, queue, writer, faults>>

\* _file_summary_task: the changed file, and all sampled files when changes are
\* pending, are read; the others keep the summary that the overview has.
ReadFile(m, f) ==
    LET reuse == f # FileOf[m] /\ handler[m].snap = 0 /\ sidecar["overview"].body[f] # Absent
    IN  /\ AtH(m, "read") /\ f \in handler[m].todo
        /\ handler' = [handler EXCEPT ![m].todo = @ \ {f},
                         ![m].body[f] = IF reuse THEN sidecar["overview"].body[f] ELSE disk[f]]
        /\ UNCHANGED <<disk, sidecar, lease, queue, writer, faults>>

\* write_abstract_overview up to its lease.  Nothing is written when the message
\* is stale by now, somebody has the lease (LockAcquisitionError is logged) or the
\* generation failed; the message counts as done all the same.
WriteAcquire(m) ==
    /\ AtH(m, "read") /\ handler[m].todo = {}
    /\ \/ ~is_stale(m) /\ lease = None /\ lease' = m /\ ToH(m, "write")
       \/ UNCHANGED lease /\ ToH(m, "end")
    /\ UNCHANGED <<disk, sidecar, queue, writer, faults>>

\* Wrong variant: the whole counter is consumed.
WriteOverviewAll(m) ==
    /\ AtH(m, "write") /\ ~is_stale(m)
    /\ sidecar' = [sidecar EXCEPT !["overview"] = [body |-> handler[m].body, pending |-> 0]]
    /\ handler' = [handler EXCEPT ![m].pc = "write2", ![m].snap = 0]
    /\ UNCHANGED <<disk, queue, writer, lease, faults>>

\* Under the lease, the count of the snapshot is consumed.
WriteOverview(m) ==
    LET left == IF Pending > handler[m].snap THEN Pending - handler[m].snap ELSE 0
    IN  /\ AtH(m, "write")
        /\ IF is_stale(m)
             THEN lease' = None /\ ToH(m, "end") /\ UNCHANGED sidecar
             ELSE /\ sidecar' = [sidecar EXCEPT !["overview"] = [body |-> handler[m].body, pending |-> left]]
                  /\ handler' = [handler EXCEPT ![m].pc = "write2", ![m].snap = left]
                  /\ UNCHANGED lease
        /\ UNCHANGED <<disk, queue, writer, faults>>

WriteAbstract(m) ==
    /\ AtH(m, "write2")
    /\ sidecar' = [sidecar EXCEPT !["abstract"] = [body |-> handler[m].body, pending |-> handler[m].snap]]
    /\ lease' = None
    /\ ToH(m, "end")
    /\ UNCHANGED <<disk, queue, writer, faults>>

Ack(m) ==
    /\ AtH(m, "end")
    /\ ToH(m, "none")
    /\ message' = [message EXCEPT ![m] = "gone"]
    /\ UNCHANGED <<disk, sidecar, lease, latest, version, writer, faults>>

\* The circuit breaker is open, or vectorisation raised: the message is queued
\* again, with a new version, and the old one acknowledged.
Requeue(m) ==
    /\ handler[m].pc \in {"list", "end"} /\ faults < MaxFaults
    /\ faults' = faults + 1
    /\ ToH(m, "none")
    /\ NewVersion(m)
    /\ message' = [message EXCEPT ![m] = "pending"]
    /\ UNCHANGED <<disk, sidecar, lease, writer>>

Handling(m) == \/ Dequeue(m) \/ List(m) \/ SnapshotAcquire(m) \/ Snapshot(m)
               \/ (\E f \in Files : ReadFile(m, f))
               \/ WriteAcquire(m) \/ WriteOverview(m) \/ WriteAbstract(m) \/ Ack(m) \/ Requeue(m)

-----------------------------------------------------------------------------
\* The sidecars describe the files as they are.
Init ==
    /\ disk = [f \in Files |-> IF f \in Created THEN Absent ELSE Old]
    /\ sidecar = [s \in Sidecars |-> [body |-> disk, pending |-> 0]]
    /\ lease = None
    /\ latest = [k \in Keys |-> 0]
    /\ writer = [w \in Writers |-> [pc |-> "idle", prev |-> Absent, after |-> 0]]
    /\ message = [w \in Writers |-> "none"]
    /\ version = [w \in Writers |-> 0]
    /\ handler = [w \in Writers |-> [pc |-> "none", todo |-> {}, snap |-> 0,
                                     body |-> [f \in Files |-> Absent]]]
    /\ faults = 0

Next == \E w \in Writers : Writing(w) \/ Handling(w)

Spec == Init /\ [][Next]_vars

-----------------------------------------------------------------------------
(* Properties *)

Contents == Writers \cup {Absent, Old}
Bodies   == [Files -> Contents]

\* Every variable has its type; at most one sidecar lease exists and its holder is
\* at a step that needs it.
TypeOK ==
    /\ disk \in Bodies
    /\ sidecar \in [Sidecars -> [body : Bodies, pending : Nat]]
    /\ lease \in Writers \cup {None}
    /\ latest \in [Keys -> Nat] /\ version \in [Writers -> Nat]
    /\ writer \in [Writers -> [pc : {"idle", "plan", "count", "count2", "enqueue", "store",
                                     "rollback", "done", "failed"},
                               prev : Contents, after : Nat]]
    /\ message \in [Writers -> {"none", "pending", "processing", "gone"}]
    /\ handler \in [Writers -> [pc : {"none", "list", "snapshot", "snapshot2", "read", "write",
                                      "write2", "end"},
                                todo : SUBSET Files, snap : Nat, body : Bodies]]
    /\ faults \in 0 .. MaxFaults
    /\ \A w \in Writers : AtW(w, "count") \/ AtW(w, "count2") \/ AtH(w, "snapshot2")
                            \/ AtH(w, "write") \/ AtH(w, "write2") => lease = w

\* No write and no message is under way.
Quiet == \A w \in Writers :
    /\ writer[w].pc \in {"idle", "done", "failed"}
    /\ message[w] \in {"none", "gone"}

\* An accepted write that the overview does not show is still counted in the
\* sidecars once all work has ended, so that a later change brings it in: no
\* interleaving of counts, snapshots, generations, stale skips, lease failures and
\* requeues of one user's messages loses it.  The file was there before (a handler
\* lists the directory before it takes its snapshot, and consumes the count of a
\* file that was created in between unread), and none of its writes was rolled
\* back after a generation had read it.
AcceptedCounted ==
    Quiet => \A f \in Files \ Created :
      /\ \A w \in Writers : FileOf[w] = f => writer[w].pc # "failed"
      /\ disk[f] \in Writers /\ sidecar["overview"].body[f] # disk[f]
      => Pending > 0
=============================================================================
