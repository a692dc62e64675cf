--------------------------- MODULE ResourceWatch ---------------------------
(***************************************************************************)
(* Resource watches: the table of watch tasks and its file (WatchManager),  *)
(* the runs that refresh a watched resource (WatchScheduler), the move and *)
(* removal of resources (FSService) and the coordinator that keeps a URI   *)
(* stable while somebody depends on it (UriMutationCoordinator).           *)
(*                                                                         *)
(* Everything runs on one event loop; every await lets the others step.    *)
(* The manager's lock is held from a change of the table to the end of the *)
(* save that follows it.  A URI is the sequence of its path's names.  Of    *)
(* the tree of resources only the place of the watched ones is kept: a call *)
(* that looks for a resource may find it or not.                           *)
(***************************************************************************)
EXTENDS Naturals, Sequences, FiniteSets, SequencesExt

CONSTANTS
  Tasks,     \* ids of watch tasks
  Uris,      \* resource URIs
  Requests,  \* what clients ask for
  Starts,    \* the stored tables the process may find when it starts
  Concurrency, \* how many tasks may run at once
  MaxRequests, MaxTroubles, \* bounds: requests, restarts and failing store calls
  None

ASSUME WatchAssumption ==
  /\ \A u \in Uris : u \in Seq(STRING) /\ u # <<>>
  /\ \A q \in Requests :
       \/ q.op \in {"watch", "unwatch", "remove", "export"} /\ q.uri \in Uris
       \/ q.op = "delete" /\ q.task \in Tasks
       \/ q.op = "move" /\ q.from \in Uris /\ q.to \in Uris
  /\ Concurrency \in Nat \ {0} /\ MaxRequests \in Nat /\ MaxTroubles \in Nat
  /\ None \notin Tasks /\ None \notin Uris
  /\ Tasks \cap {"client", "mover", "remover", "loader"} = {}

VARIABLES
  table,   \* WatchManager._tasks: the target and is_active of each task
  index,   \* WatchManager._uri_to_task
  main, bak, \* .watch_tasks.json and its backup: a table, or None
  lock,    \* the save in progress under WatchManager._lock, or None
  held,    \* the coordinator's active leases, by their holder
  run,     \* the execution of each task
  client,  \* the request in progress: watch, unwatch or delete
  mover,   \* the move in progress
  remover, \* the removal in progress
  home,    \* history: where the resource a task was created for is, or was when it was
           \* removed; None: it left the resource scope
  requests, crashes, faults,
  halves   \* history: moves that ended half way

vars == <<table, index, main, bak, lock, held, run, client, mover, remover,
          home, requests, crashes, faults, halves>>

Entries == [uri : Uris, active : BOOLEAN]
Tables  == [Tasks -> Entries \cup {None}]
Empty   == [t \in Tasks |-> None]

Actors == Tasks \cup {"client", "mover", "remover", "loader"}
Leases == [mutation : BOOLEAN, uris : SUBSET Uris]

\* A save: who waits for it, its next store call, what a rewrite that fails goes
\* back to, and what the file held when the save began (None: there was no file,
\* or the save has nothing to fall back on).
Saves  == [by : Actors, step : {"tmp", "rotate", "drop", "publish", "finish"}, old : Tables,
           oldIndex : [Uris -> Tasks \cup {None}], stored : Tables \cup {None}]

\* The stored table is one the manager wrote: no URI is watched twice.
ASSUME StartAssumption ==
  \A s \in Starts :
    /\ s \in Tables
    /\ \A t, r \in Tasks : s[t] # None /\ s[r] # None /\ s[t].uri = s[r].uri => t = r

ASSUME NoneAssumption ==
  None \notin Entries /\ None \notin Tables /\ None \notin Leases /\ None \notin Saves

Idle     == [pc |-> "off", uri |-> None]
NoClient == [pc |-> "off", op |-> "watch", task |-> None, uri |-> None, at |-> None]
NoMove   == [pc |-> "off", from |-> None, to |-> None, plan |-> {}]

IndexOf(tab) ==
  [u \in Uris |-> IF \E t \in Tasks : tab[t] # None /\ tab[t].uri = u
                  THEN CHOOSE t \in Tasks : tab[t] # None /\ tab[t].uri = u
                  ELSE None]

Init ==
  /\ \E s \in Starts :
       /\ table = s /\ index = IndexOf(s) /\ main = s
       /\ home = [t \in Tasks |-> IF s[t] = None THEN None ELSE s[t].uri]
  /\ bak = None /\ lock = None
  /\ held = [a \in Actors |-> None]
  /\ run = [t \in Tasks |-> Idle]
  /\ client = NoClient /\ mover = NoMove /\ remover = Idle
  /\ requests = 0 /\ crashes = 0 /\ faults = 0 /\ halves = 0

\* Something may still go wrong.
Trouble == crashes + faults + halves < MaxTroubles

-----------------------------------------------------------------------------
(* UriMutationCoordinator: shared accesses, exclusive mutations.           *)

Overlap(us, vs) == \E u \in us, v \in vs : IsPrefix(u, v) \/ IsPrefix(v, u)

\* Wrong variant: a mutation does not wait for accesses.
HasBlockerShared(us, mutation) ==
  \E a \in Actors :
    held[a] # None /\ Overlap(us, held[a].uris) /\ held[a].mutation

HasBlocker(us, mutation) ==
  \E a \in Actors :
    /\ held[a] # None /\ Overlap(us, held[a].uris)
    /\ mutation \/ held[a].mutation

Acquire(a, us, mutation) ==
  /\ ~HasBlocker(us, mutation)
  /\ held' = [held EXCEPT ![a] = [mutation |-> mutation, uris |-> us]]

Release(a) == held' = [held EXCEPT ![a] = None]

-----------------------------------------------------------------------------
(* WatchManager: the table, its index and its file.                        *)

\* The manager's lock is free: nobody is between a change and its save.
Unlocked == lock = None

\* A change of the table and the index starts a save by actor a.
Change(a, tasks, uris) ==
  /\ table' = tasks /\ index' = uris
  /\ lock' = [by |-> a, step |-> "tmp", old |-> table, oldIndex |-> index, stored |-> main]

Retargeted(t, u) ==
  [v \in Uris |-> IF v = u THEN t ELSE IF index[v] = t THEN None ELSE index[v]]

\* What the next start of the process loads from the file or its backup.
Load(file, backup) == IF file # None THEN file ELSE IF backup # None THEN backup ELSE Empty

Loadable == Load(main, bak)

SaveEnv == <<table, index, held, home, requests, crashes, halves>>
SaveRest == <<SaveEnv, run, client, mover, remover>>

SaveGoto(step) == lock' = [lock EXCEPT !.step = step]

\* The new content is written to a temporary file; the old backup goes.
SaveTmp ==
  /\ lock # None /\ lock.step = "tmp"
  /\ bak' = None /\ SaveGoto("rotate")
  /\ UNCHANGED <<main, faults>> /\ UNCHANGED SaveRest

\* Wrong variant: the file is not copied before it is removed.
SaveBackupSkipped ==
  /\ lock # None /\ lock.step = "rotate"
  /\ SaveGoto("drop") /\ UNCHANGED bak
  /\ UNCHANGED <<main, faults>> /\ UNCHANGED SaveRest

\* mv of the file to the backup: a copy, an update of the vector store ...
SaveBackup ==
  /\ lock # None /\ lock.step = "rotate"
  /\ IF main # None THEN bak' = main /\ SaveGoto("drop") ELSE SaveGoto("publish") /\ UNCHANGED bak
  /\ UNCHANGED <<main, faults>> /\ UNCHANGED SaveRest

\* ... and the removal of the source.
SaveDrop ==
  /\ lock # None /\ lock.step = "drop"
  /\ main' = None /\ SaveGoto("publish")
  /\ UNCHANGED <<bak, faults>> /\ UNCHANGED SaveRest

\* mv of the temporary file, whose copy overwrites a file that is still there.
SavePublish ==
  /\ lock # None /\ lock.step = "publish"
  /\ main' = table /\ SaveGoto("finish")
  /\ UNCHANGED <<bak, faults>> /\ UNCHANGED SaveRest

\* Errors that are swallowed: the old backup or the file stays.  A failing update
\* of the vector store removes the copy again, if that does not fail as well.
SaveSlips ==
  /\ lock # None /\ Trouble /\ faults' = faults + 1
  /\ \/ lock.step = "tmp" /\ SaveGoto("rotate") /\ UNCHANGED bak
     \/ /\ lock.step = "rotate" /\ UNCHANGED bak
        /\ lock' = [lock EXCEPT !.step = "publish", !.stored = None]
     \/ /\ lock.step = "drop" /\ bak' = None
        /\ lock' = [lock EXCEPT !.step = "publish", !.stored = None]
     \/ lock.step = "drop" /\ SaveGoto("publish") /\ UNCHANGED bak
  /\ UNCHANGED main /\ UNCHANGED SaveRest

\* Wrong variant: the move does not put the files back.
ResumeNoUndo(a, ok) ==
  /\ run'     = IF a \in Tasks THEN [run EXCEPT ![a].pc = "release"] ELSE run
  /\ client'  = IF a = "client" THEN [client EXCEPT !.pc = "release"] ELSE client
  /\ mover'   = IF a = "mover" THEN [mover EXCEPT !.pc = "release"] ELSE mover
  /\ remover' = IF a = "remover" THEN [remover EXCEPT !.pc = "release"] ELSE remover

\* The actor that saved goes on, with or without an error.
Resume(a, ok) ==
  /\ run'     = IF a \in Tasks THEN [run EXCEPT ![a].pc = "release"] ELSE run
  /\ client'  = IF a = "client" THEN [client EXCEPT !.pc = "release"] ELSE client
  /\ mover'   = IF a = "mover" THEN [mover EXCEPT !.pc = IF ok THEN "release" ELSE "undo"]
                ELSE mover
  /\ remover' = IF a = "remover" THEN [remover EXCEPT !.pc = "release"] ELSE remover

SaveEnds ==
  /\ lock # None /\ lock.step = "finish"
  /\ lock' = None /\ Resume(lock.by, TRUE)
  /\ UNCHANGED <<main, bak, faults>> /\ UNCHANGED SaveEnv

\* Wrong variant: the rewrite's rollback forgets the index.
SaveFailsKeepsIndex ==
  /\ lock # None /\ lock.step = "tmp" /\ Trouble /\ faults' = faults + 1
  /\ lock' = None /\ Resume(lock.by, FALSE)
  /\ table' = IF lock.by = "mover" THEN lock.old ELSE table
  /\ UNCHANGED <<index, main, bak, held, home, requests, crashes, halves>>

\* The save raises: at the write of the temporary file or in its mv, whose failing
\* update of the vector store removes the copy, the new file.  Only a prefix rewrite
\* takes its change of the table back.
SaveFails ==
  /\ lock # None /\ Trouble /\ faults' = faults + 1
  /\ \/ lock.step \in {"tmp", "publish", "finish"} /\ UNCHANGED main
     \/ lock.step = "finish" /\ main' = None
  /\ lock' = None /\ Resume(lock.by, FALSE)
  /\ IF lock.by = "mover" THEN table' = lock.old /\ index' = lock.oldIndex
     ELSE UNCHANGED <<table, index>>
  /\ UNCHANGED <<bak, held, home, requests, crashes, halves>>

-----------------------------------------------------------------------------
(* WatchScheduler: one execution of a task at a time.                      *)

RunGoto(t, pc) == run' = [run EXCEPT ![t].pc = pc]

RunEnv == <<main, bak, client, mover, remover, home, requests, crashes, faults, halves>>

\* The task is due, or somebody triggers it.
StartRun(t) ==
  /\ run[t].pc = "off" /\ table[t] # None /\ Unlocked
  /\ run' = [run EXCEPT ![t] = [pc |-> "due", uri |-> table[t].uri]]
  /\ UNCHANGED <<table, index, lock, held>> /\ UNCHANGED RunEnv

\* The scheduler's semaphore.
EnterRun(t) ==
  /\ run[t].pc = "due"
  /\ Cardinality({s \in Tasks : run[s].pc \notin {"off", "due"}}) < Concurrency
  /\ RunGoto(t, "wait")
  /\ UNCHANGED <<table, index, lock, held>> /\ UNCHANGED RunEnv

AccessRun(t) ==
  /\ run[t].pc = "wait"
  /\ Acquire(t, {run[t].uri}, FALSE)
  /\ RunGoto(t, "confirm")
  /\ UNCHANGED <<table, index, lock>> /\ UNCHANGED RunEnv

\* get_task, which takes an access of its own on the task's current target.
ConfirmRun(t) ==
  /\ run[t].pc = "confirm" /\ Unlocked
  /\ \/ /\ table[t] = None
        /\ run' = [run EXCEPT ![t] = Idle] /\ Release(t)
     \/ /\ table[t] # None /\ ~HasBlocker({table[t].uri}, FALSE)
        /\ table[t].uri # run[t].uri
        /\ run' = [run EXCEPT ![t] = [pc |-> "wait", uri |-> table[t].uri]] /\ Release(t)
     \/ /\ table[t] # None /\ table[t].uri = run[t].uri
        /\ RunGoto(t, "look") /\ UNCHANGED held
  /\ UNCHANGED <<table, index, lock>> /\ UNCHANGED RunEnv

\* A missing target, or a missing source, deactivates the task; a target that
\* could not be looked at is refreshed all the same.
LookRun(t) ==
  /\ run[t].pc = "look"
  /\ \E pc \in {"refresh", "disable"} : RunGoto(t, pc)
  /\ UNCHANGED <<table, index, lock, held>> /\ UNCHANGED RunEnv

\* refresh_resource submits a job for the target, or fails; the job works later,
\* without the run's access.
RefreshRun(t) ==
  /\ run[t].pc = "refresh"
  /\ \E pc \in {"touch", "disable"} : RunGoto(t, pc)
  /\ UNCHANGED <<table, index, lock, held>> /\ UNCHANGED RunEnv

\* update_execution_time: an inactive task stays inactive.
TouchRun(t) ==
  /\ run[t].pc = "touch" /\ Unlocked
  /\ \/ /\ table[t] = None
        /\ RunGoto(t, "release") /\ UNCHANGED <<table, index, lock>>
     \/ /\ table[t] # None
        /\ RunGoto(t, "save") /\ Change(t, table, index)
  /\ UNCHANGED held /\ UNCHANGED RunEnv

\* update_task(is_active=False), with an access of its own.
DisableRun(t) ==
  /\ run[t].pc = "disable" /\ Unlocked
  /\ \/ /\ table[t] = None
        /\ RunGoto(t, "release") /\ UNCHANGED <<table, index, lock>>
     \/ /\ table[t] # None /\ ~HasBlocker({table[t].uri}, FALSE)
        /\ RunGoto(t, "save") /\ Change(t, [table EXCEPT ![t].active = FALSE], index)
  /\ UNCHANGED held /\ UNCHANGED RunEnv

EndRun(t) ==
  /\ run[t].pc = "release"
  /\ Release(t) /\ run' = [run EXCEPT ![t] = Idle]
  /\ UNCHANGED <<table, index, lock>> /\ UNCHANGED RunEnv

RunStep(t) ==
  \/ EnterRun(t) \/ AccessRun(t) \/ ConfirmRun(t) \/ LookRun(t) \/ RefreshRun(t)
  \/ TouchRun(t) \/ DisableRun(t) \/ EndRun(t)

-----------------------------------------------------------------------------
(* Requests: watch a URI (create or update), unwatch it, delete a task.    *)

ClientEnv == <<main, bak, run, mover, remover, crashes, faults, halves>>

ClientGoto(pc) == client' = [client EXCEPT !.pc = pc]

Asked == requests < MaxRequests /\ requests' = requests + 1

BeginWatch(q) ==
  /\ q.op \in {"watch", "unwatch"} /\ client.pc = "off" /\ Asked
  /\ client' = [NoClient EXCEPT !.pc = "lookup", !.op = q.op, !.uri = q.uri]
  /\ UNCHANGED <<table, index, lock, held, home>> /\ UNCHANGED ClientEnv

BeginDelete(q) ==
  /\ q.op = "delete" /\ client.pc = "off" /\ Asked
  /\ client' = [NoClient EXCEPT !.pc = "snapshot", !.op = "delete", !.task = q.task]
  /\ UNCHANGED <<table, index, lock, held, home>> /\ UNCHANGED ClientEnv

\* get_upsertable_task_by_uri, get_task_by_uri: the lease ends with the lookup.
Lookup ==
  LET t == index[client.uri] IN
  /\ client.pc = "lookup" /\ Unlocked /\ ~HasBlocker({client.uri}, FALSE)
  /\ client' = IF t # None THEN [client EXCEPT !.pc = "snapshot", !.task = t]
               ELSE IF client.op = "watch" THEN [client EXCEPT !.pc = "create"]
               ELSE NoClient
  /\ UNCHANGED <<table, index, lock, held, home>> /\ UNCHANGED <<ClientEnv, requests>>

\* create_task's lease; a new task gets an id nobody uses.
AccessCreate ==
  /\ client.pc = "create"
  /\ Acquire("client", {client.uri}, FALSE)
  /\ \E t \in Tasks : /\ table[t] = None /\ run[t].pc = "off"
                      /\ client' = [client EXCEPT !.pc = "insert", !.task = t]
  /\ UNCHANGED <<table, index, lock, home>> /\ UNCHANGED <<ClientEnv, requests>>

Insert ==
  LET t == client.task IN
  /\ client.pc = "insert" /\ Unlocked
  /\ \/ /\ index[client.uri] # None
        /\ ClientGoto("release") /\ UNCHANGED <<table, index, lock, home>>
     \/ /\ index[client.uri] = None
        /\ Change("client", [table EXCEPT ![t] = [uri |-> client.uri, active |-> TRUE]],
                  Retargeted(t, client.uri))
        /\ home' = [home EXCEPT ![t] = client.uri]
        /\ ClientGoto("save")
  /\ UNCHANGED held /\ UNCHANGED <<ClientEnv, requests>>

\* update_task, delete_task: the target is read, then made stable ...
Snapshot ==
  /\ client.pc = "snapshot" /\ Unlocked
  /\ client' = IF table[client.task] = None THEN NoClient
               ELSE [client EXCEPT !.pc = "access", !.at = table[client.task].uri]
  /\ UNCHANGED <<table, index, lock, held, home>> /\ UNCHANGED <<ClientEnv, requests>>

\* Wrong variant: a request without a target of its own locks the missing URI too.
AccessEditMissing ==
  /\ client.pc = "access"
  /\ Acquire("client", {client.at, client.uri}, FALSE)
  /\ ClientGoto("apply")
  /\ UNCHANGED <<table, index, lock, home>> /\ UNCHANGED <<ClientEnv, requests>>

AccessEdit ==
  /\ client.pc = "access"
  /\ Acquire("client", {client.at} \cup (IF client.op = "watch" THEN {client.uri} ELSE {}), FALSE)
  /\ ClientGoto("apply")
  /\ UNCHANGED <<table, index, lock, home>> /\ UNCHANGED <<ClientEnv, requests>>

Edited(t) ==
  CASE client.op = "watch"   -> [table EXCEPT ![t] = [uri |-> client.uri, active |-> TRUE]]
    [] client.op = "unwatch" -> [table EXCEPT ![t].active = FALSE]
    [] client.op = "delete"  -> [table EXCEPT ![t] = None]

EditedIndex(t) ==
  CASE client.op = "watch"   -> Retargeted(t, client.uri)
    [] client.op = "unwatch" -> index
    [] client.op = "delete"  -> [u \in Uris |-> IF index[u] = t THEN None ELSE index[u]]

\* ... and read again: a target that moved meanwhile starts the edit over.
Apply ==
  LET t == client.task IN
  /\ client.pc = "apply" /\ Unlocked
  /\ \/ /\ table[t] = None \/ (client.op = "watch" /\ index[client.uri] \notin {None, t})
        /\ table[t] = None \/ table[t].uri = client.at
        /\ ClientGoto("release") /\ UNCHANGED <<table, index, lock, held, home>>
     \/ /\ table[t] # None /\ table[t].uri # client.at
        /\ ClientGoto("snapshot") /\ Release("client") /\ UNCHANGED <<table, index, lock, home>>
     \/ /\ table[t] # None /\ table[t].uri = client.at
        /\ client.op = "watch" => index[client.uri] \in {None, t}
        /\ Change("client", Edited(t), EditedIndex(t))
        /\ home' = IF client.op = "watch" THEN [home EXCEPT ![t] = client.uri] ELSE home
        /\ ClientGoto("save") /\ UNCHANGED held
  /\ UNCHANGED <<ClientEnv, requests>>

EndRequest ==
  /\ client.pc = "release"
  /\ Release("client") /\ client' = NoClient
  /\ UNCHANGED <<table, index, lock, home>> /\ UNCHANGED <<ClientEnv, requests>>

ClientStep ==
  \/ Lookup \/ AccessCreate \/ Insert \/ Snapshot \/ AccessEdit \/ Apply \/ EndRequest

-----------------------------------------------------------------------------
(* FSService.mv: the resource and the watches under it move together.      *)

Under(u, from) == IsPrefix(from, u)

Rewrite(u, from, to) == to \o SubSeq(u, Len(from) + 1, Len(u))

\* A place below the source or the target of a move has its counterpart, and
\* neither of the two contains the other.
ASSUME MoveAssumption ==
  \A q \in Requests : q.op = "move" =>
    /\ ~Overlap({q.from}, {q.to})
    /\ \A u \in Uris : /\ Under(u, q.from) => Rewrite(u, q.from, q.to) \in Uris
                       /\ Under(u, q.to) => Rewrite(u, q.to, q.from) \in Uris

\* _plan_target_prefix_rewrite_unlocked
Planned(from) == {t \in Tasks : table[t] # None /\ Under(table[t].uri, from)}

Conflict(from, to) ==
  \E t \in Planned(from) :
    LET u == Rewrite(table[t].uri, from, to) IN index[u] \notin {None, t}

MoveEnv == <<main, bak, run, client, remover, crashes>>

MoveGoto(pc) == mover' = [mover EXCEPT !.pc = pc]

\* A move out of the resource scope takes no lease and rewrites no watch.
MoveOut(q) ==
  /\ q.op = "export" /\ Asked
  /\ home' = [t \in Tasks |-> IF home[t] # None /\ Under(home[t], q.uri) THEN None ELSE home[t]]
  /\ UNCHANGED <<table, index, lock, held, mover, faults, halves>> /\ UNCHANGED MoveEnv

BeginMove(q) ==
  /\ q.op = "move" /\ mover.pc = "off" /\ Asked
  /\ mover' = [NoMove EXCEPT !.pc = "wait", !.from = q.from, !.to = q.to]
  /\ UNCHANGED <<table, index, lock, held, home, faults, halves>> /\ UNCHANGED MoveEnv

\* The mutation lease.
LeaseMove ==
  /\ mover.pc = "wait"
  /\ Acquire("mover", {mover.from, mover.to}, TRUE)
  /\ MoveGoto("validate")
  /\ UNCHANGED <<table, index, lock, home, requests, faults, halves>> /\ UNCHANGED MoveEnv

ValidateMove ==
  /\ mover.pc = "validate" /\ Unlocked
  /\ MoveGoto(IF Conflict(mover.from, mover.to) THEN "release" ELSE "move")
  /\ UNCHANGED <<table, index, lock, held, home, requests, faults, halves>> /\ UNCHANGED MoveEnv

\* Where the resources are when those of the given tasks have moved.
Carried(tasks, from, to) ==
  [t \in Tasks |-> IF t \in tasks THEN Rewrite(home[t], from, to) ELSE home[t]]

\* The tasks whose resource is at u or below it.
Residents(u) == {t \in Tasks : home[t] # None /\ Under(home[t], u)}

\* VikingFS.mv is a copy into what is at the target, an update of the vector store
\* and a removal.  It may raise with the source in place: there is none, a file
\* would replace a directory, a call fails.  When the removal raises, part of the
\* source is gone already.
MoveFiles ==
  LET from == mover.from  to == mover.to  plan == Residents(mover.from) IN
  /\ mover.pc = "move"
  /\ \/ /\ home' = Carried(plan, from, to)
        /\ mover' = [mover EXCEPT !.pc = "rewrite", !.plan = plan]
        /\ UNCHANGED halves
     \/ /\ MoveGoto("release") /\ UNCHANGED <<home, halves>>
     \/ /\ Trouble /\ halves' = halves + 1
        /\ \E gone \in SUBSET plan : home' = Carried(gone, from, to)
        /\ MoveGoto("release")
  /\ UNCHANGED <<table, index, lock, held, requests, faults>> /\ UNCHANGED MoveEnv

\* rewrite_target_prefix_internal
RewriteTargets ==
  LET from == mover.from  to == mover.to  plan == Planned(mover.from)
      at(t) == Rewrite(table[t].uri, from, to) IN
  /\ mover.pc = "rewrite" /\ Unlocked
  /\ \/ /\ plan = {}
        /\ MoveGoto("release") /\ UNCHANGED <<table, index, lock>>
     \/ /\ Conflict(from, to)
        /\ MoveGoto("undo") /\ UNCHANGED <<table, index, lock>>
     \/ /\ plan # {} /\ ~Conflict(from, to)
        /\ Change("mover",
             [t \in Tasks |-> IF t \in plan THEN [table[t] EXCEPT !.uri = at(t)] ELSE table[t]],
             [u \in Uris |-> IF \E t \in plan : u = at(t) THEN CHOOSE t \in plan : u = at(t)
                             ELSE IF index[u] \in plan THEN None ELSE index[u]])
        /\ MoveGoto("save")
  /\ UNCHANGED <<held, home, requests, faults, halves>> /\ UNCHANGED MoveEnv

\* The files go back, and with them what was at the target before; or the rollback
\* raises, with some of them still at the target.
UndoMove ==
  LET from == mover.from  to == mover.to  back == Residents(mover.to) IN
  /\ mover.pc = "undo"
  /\ \/ /\ home' = Carried(back, to, from)
        /\ halves' = IF back \subseteq mover.plan THEN halves ELSE halves + 1
     \/ /\ halves' = halves + 1
        /\ \E gone \in SUBSET back : home' = Carried(gone, to, from)
  /\ MoveGoto("release")
  /\ UNCHANGED <<table, index, lock, held, requests, faults>> /\ UNCHANGED MoveEnv

\* Wrong variant: a move that was refused keeps its lease.
EndMoveLeaks ==
  /\ mover.pc = "release"
  /\ mover' = NoMove
  /\ UNCHANGED <<table, index, lock, held, home, requests, faults, halves>> /\ UNCHANGED MoveEnv

EndMove ==
  /\ mover.pc = "release"
  /\ Release("mover") /\ mover' = NoMove
  /\ UNCHANGED <<table, index, lock, home, requests, faults, halves>> /\ UNCHANGED MoveEnv

\* The steps of a move that has its lease.
MoveStep ==
  \/ ValidateMove \/ MoveFiles \/ RewriteTargets \/ UndoMove \/ EndMove

-----------------------------------------------------------------------------
(* FSService.rm: the files go first, then the watches are deactivated.     *)

RemoveEnv == <<index, main, bak, run, client, mover, home, crashes, faults, halves>>

\* viking_fs.rm, which does not mind a missing resource.
RemoveFiles(q) ==
  /\ q.op = "remove" /\ remover.pc = "off" /\ Asked
  /\ remover' = [pc |-> "wait", uri |-> q.uri]
  /\ UNCHANGED <<table, lock, held>> /\ UNCHANGED RemoveEnv

AccessRemoved ==
  /\ remover.pc = "wait"
  /\ Acquire("remover", {remover.uri}, FALSE)
  /\ remover' = [remover EXCEPT !.pc = "sync"]
  /\ UNCHANGED <<table, lock>> /\ UNCHANGED <<RemoveEnv, requests>>

Deactivate ==
  LET hit == Planned(remover.uri) IN
  /\ remover.pc = "sync" /\ Unlocked
  /\ IF hit = {}
     THEN remover' = [remover EXCEPT !.pc = "release"] /\ UNCHANGED <<table, lock>>
     ELSE /\ Change("remover",
               [t \in Tasks |-> IF t \in hit THEN [table[t] EXCEPT !.active = FALSE] ELSE table[t]],
               index)
          /\ remover' = [remover EXCEPT !.pc = "save"]
  /\ UNCHANGED <<held, main, bak, run, client, mover, home, requests, crashes, faults, halves>>
  /\ index' = index

EndRemove ==
  /\ remover.pc = "release"
  /\ Release("remover") /\ remover' = Idle
  /\ UNCHANGED <<table, lock>> /\ UNCHANGED <<RemoveEnv, requests>>

RemoveStep == AccessRemoved \/ Deactivate \/ EndRemove

-----------------------------------------------------------------------------

\* The process restarts and loads the table from its file or its backup, or, when
\* they cannot be read, from the backup or from nothing.  A write that was cut off
\* leaves a file that is not JSON, as good as none.  A table found in the backup is
\* saved before anything else happens.
Crash ==
  /\ Trouble /\ crashes' = crashes + 1
  /\ main' = main \/ (lock # None /\ lock.step = "publish" /\ main' = None)
  /\ bak' = bak \/ (lock # None /\ lock.step = "rotate" /\ bak' = None)
  /\ \E file \in {main', None}, backup \in {bak', None} :
       LET found == Load(file, backup) IN
       /\ table' = found /\ index' = IndexOf(found)
       /\ lock' = IF file # None \/ backup = None THEN None
                  ELSE [by |-> "loader", step |-> "tmp", old |-> found, oldIndex |-> IndexOf(found),
                        stored |-> main']
  /\ held' = [a \in Actors |-> None]
  /\ run' = [t \in Tasks |-> Idle] /\ client' = NoClient /\ mover' = NoMove /\ remover' = Idle
  /\ UNCHANGED <<home, requests, faults, halves>>

SaveStep == SaveTmp \/ SaveBackup \/ SaveDrop \/ SavePublish \/ SaveEnds

Next ==
  \/ SaveStep \/ SaveSlips \/ SaveFails
  \/ \E t \in Tasks : StartRun(t) \/ RunStep(t)
  \/ \E q \in Requests : BeginWatch(q) \/ BeginDelete(q) \/ BeginMove(q) \/ MoveOut(q)
                         \/ RemoveFiles(q)
  \/ ClientStep \/ LeaseMove \/ MoveStep \/ RemoveStep \/ Crash

Spec == Init /\ [][Next]_vars

\* A save goes on, and so do runs and moves that have their lease.  The
\* manager's lock is handed on in the order of arrival, so a step that waits
\* for it needs only to be possible again and again.  A run waits for a lease
\* only while a mutation has one, and there are finitely many.  Nothing is
\* assumed of the wait for a mutation lease, which runs may keep away for
\* ever, nor of requests.
FairSpec ==
  /\ Spec
  /\ WF_vars(SaveStep) /\ SF_vars(MoveStep)
  /\ \A t \in Tasks : SF_vars(RunStep(t))

-----------------------------------------------------------------------------
(* Properties.                                                             *)

\* Every variable has its type; leases and the table name only URIs.
TypeOK ==
  /\ table \in Tables /\ index \in [Uris -> Tasks \cup {None}]
  /\ main \in Tables \cup {None} /\ bak \in Tables \cup {None}
  /\ lock \in Saves \cup {None}
  /\ held \in [Actors -> Leases \cup {None}]
  /\ run \in [Tasks -> [pc : {"off", "due", "wait", "confirm", "look", "refresh", "touch",
                             "disable", "save", "release"}, uri : Uris \cup {None}]]
  /\ client \in [pc : {"off", "lookup", "create", "insert", "snapshot", "access", "apply",
                       "save", "release"},
                 op : {"watch", "unwatch", "delete"}, task : Tasks \cup {None},
                 uri : Uris \cup {None}, at : Uris \cup {None}]
  /\ mover \in [pc : {"off", "wait", "validate", "move", "rewrite", "save", "undo", "release"},
                from : Uris \cup {None}, to : Uris \cup {None}, plan : SUBSET Tasks]
  /\ remover \in [pc : {"off", "wait", "sync", "save", "release"}, uri : Uris \cup {None}]
  /\ home \in [Tasks -> Uris \cup {None}]
  /\ requests \in 0..MaxRequests /\ crashes \in 0..MaxTroubles /\ faults \in 0..MaxTroubles
  /\ halves \in Nat

\* The index finds exactly the tasks of the table, each under its target,
\* through every interleaving of edits, moves, failed saves and restarts: no
\* URI is watched twice and none is taken by a task that is not there.
IndexExact ==
  \A t \in Tasks, u \in Uris : index[u] = t <=> (table[t] # None /\ table[t].uri = u)

\* A watch names the place its resource is at, unless that resource is being
\* moved at this moment: the move, its rollback after a failed save and the edits
\* that wait for it leave no watch behind.  Three things do: a restart in the middle
\* of a move, a move that ends half way (the removal of the source or the rollback
\* raises, or the rollback of a merge carries away what was at the target before),
\* and a move out of the resource scope, after which there is nothing to follow.
WatchFollows ==
  crashes = 0 /\ halves = 0 /\ mover.pc \notin {"rewrite", "save", "undo"}
    => \A t \in Tasks : table[t] # None /\ home[t] # None => table[t].uri = home[t]

\* A run that has confirmed its target works at the place where the resource is,
\* even while a move of it is under way: unless an edit of the watch has changed the
\* target since, it never submits a refresh for the place a resource has just left.
\* (The job it submits has no such protection once the run has ended, and a
\* move out of the resource scope waits for nobody.)
RunUndisturbed ==
  crashes = 0 /\ halves = 0 =>
    \A t \in Tasks :
      /\ run[t].pc \in {"look", "refresh"}
      /\ table[t] # None /\ table[t].uri = run[t].uri /\ home[t] # None
      => home[t] = run[t].uri

\* A save that began with the file in place and did not fail to copy it to the
\* backup never leaves anything but the table that was stored or the new one to
\* a restart: between any two of its store calls, within a write, after
\* an error and after the cleanup that follows a failing update of the vector store.
\* A save without that file has no such guarantee: the backup was removed first, and
\* after a swallowed rotation error the only copy is overwritten in place.
SaveAtomic ==
  [][lock # None /\ lock.stored # None => Loadable' \in {lock.stored, table}]_vars

\* A run that started ends: the leases of runs, requests and moves and the
\* manager's lock never wait for one another in a circle.
RunEnds == \A t \in Tasks : (run[t].pc # "off") ~> (run[t].pc = "off")
=============================================================================
