------------------------------ MODULE TaskWork ------------------------------
(***************************************************************************)
(* The life of one background task: its persisted record (TaskTracker), the*)
(* durable queue messages it owns (NamedQueue over QueueFS), the in-memory  *)
(* index of that work (TaskWorkIndex) and the coroutines that process the  *)
(* messages (QueueManager's workers, AddResourceProcessor._process).       *)
(*                                                                         *)
(* The root message carries the job; its handler may enqueue descendants.  *)
(* A task becomes terminal when the last of its messages is about to be    *)
(* acknowledged; cancellation stops new work and interrupts what is        *)
(* running.  Tasks share no state of these components, so one is modelled. *)
(*                                                                         *)
(* The workers run on threads of their own, the root handler's body on the *)
(* service loop: every await is a point where the others may step.         *)
(***************************************************************************)
EXTENDS Naturals, FiniteSets

CONSTANTS
  Works,          \* the task's queue messages
  Root,           \* the message the task starts with
  Cancellable,    \* whether somebody may cancel the task
  CacheOverflows, \* whether the tracker holds more than MAX_TASKS tasks
  MaxCrashes,     \* bound on restarts of the process
  MaxFaults,      \* bound on store errors and handlers that raise
  None

ASSUME WorkAssumption ==
  /\ Root \in Works
  /\ Cancellable \in BOOLEAN /\ CacheOverflows \in BOOLEAN
  /\ MaxCrashes \in Nat /\ MaxFaults \in Nat

\* "body" is the root handler's coroutine on the service loop.
Actors == Works \cup {"producer", "canceller", "body"}

ASSUME ActorAssumption ==
  /\ {"producer", "canceller", "body"} \cap Works = {}
  /\ None \notin Works

Terminal == {"completed", "failed", "cancelled"}
Statuses == {"pending", "running", "cancelling"} \cup Terminal
Records  == [status : Statuses, result : BOOLEAN, error : BOOLEAN]

\* "new": never written; "sending": in the index, its write not done;
\* "gone": acknowledged, or its write given up.
MsgStates == {"new", "sending", "pending", "processing", "gone"}

PCs == {"off", "create", "register", "send", "fail", "done",
        "idle", "interrupt",
        "check", "start", "work", "failing", "wait", "return", "returnerr", "raise",
        "unwind",
        "got", "enter", "run", "late", "oncancelled", "ack", "write", "writeonly",
        "rollback", "dead",
        "finalize", "store"}

Updates == [by : Actors, rec : Records, then : PCs, stored : BOOLEAN]

ASSUME RecordAssumption == None \notin Records /\ None \notin Updates /\ None \notin Statuses

VARIABLES
  store,      \* the persisted task record, or None
  cache,      \* the tracker's cached copy, or None
  upd,        \* the update being stored under the task's lock, or None
  queue,      \* queue[w]: state of message w in QueueFS
  work,       \* TaskWorkIndex._work: messages not yet (provisionally) acked
  active,     \* TaskWorkIndex._active: handlers that cancellation interrupts
  failure,    \* TaskWorkIndex._failures holds an error of this task
  pc,         \* pc[a]: where actor a stands
  ret,        \* ret[a]: where a goes on after a finalize
  send,       \* send[w]: the message the handler of w is enqueueing, or None
  interrupts, \* workers with a Task.cancel() on its way
  bodyCancel, \* the root handler's body has been cancelled
  crashes, faults,
  bad         \* history: messages whose latest handler run reported an error

vars == <<store, cache, upd, queue, work, active, failure, pc, ret, send,
          interrupts, bodyCancel, crashes, faults, bad>>
record == <<store, cache, upd>>
index  == <<work, active, failure>>
bounds == <<crashes, faults>>

Goto(a, l) == pc' = [pc EXCEPT ![a] = l]

-----------------------------------------------------------------------------
(* The record: updates run one at a time, under the task's lock *)

\* _load_for_update
Rec == IF cache # None THEN cache ELSE store

\* The record exists and has one of the statuses S.
In(S) == Rec # None /\ Rec.status \in S

Open == {"pending", "running"}

\* is_cancellation_requested reads only the cache.
is_cancellation_requested ==
  cache # None /\ cache.status \in {"cancelling", "cancelled"}

HasWork == work \cup active # {}

\* Take the lock and start to store r; l is where actor a goes on.
Update(a, r, l) ==
  /\ upd = None
  /\ upd' = [by |-> a, rec |-> r, then |-> l, stored |-> FALSE]
  /\ Goto(a, "store")

\* Wrong variant: a late outcome is recorded whatever the status.
_record_outcome_any(a, res, err, l) ==
  /\ ret' = [ret EXCEPT ![a] = l]
  /\ Update(a, [status |-> Rec.status, result |-> Rec.result \/ res,
                error |-> Rec.error \/ err \/ failure], "finalize")

\* complete and fail: only a pending or running task takes an outcome; a
\* finalize attempt follows.
_record_outcome(a, res, err, l) ==
  /\ ret' = [ret EXCEPT ![a] = l]
  /\ \/ /\ In(Open)
        /\ Update(a, [status |-> Rec.status, result |-> Rec.result \/ res,
                      error |-> Rec.error \/ err \/ failure], "finalize")
     \/ /\ upd = None /\ ~In(Open)
        /\ Goto(a, "finalize")
        /\ UNCHANGED upd

\* The status a finalize would give the task, or None.
Outcome ==
  CASE In({"cancelling"})                                    -> "cancelled"
    [] In(Open) /\ (Rec.error \/ failure)                    -> "failed"
    [] In(Open) /\ ~(Rec.error \/ failure) /\ Rec.result     -> "completed"
    [] OTHER                                                 -> None

Finalized ==
  [status |-> Outcome, result |-> Rec.result, error |-> Rec.error \/ Outcome = "failed"]

\* Wrong variant: the index is not consulted.
_finalize_task_unchecked(a) ==
  /\ pc[a] = "finalize"
  /\ upd = None
  /\ IF Outcome # None THEN Update(a, Finalized, ret[a])
                       ELSE Goto(a, ret[a]) /\ UNCHANGED upd
  /\ UNCHANGED <<store, cache, queue, index, ret, send, interrupts, bodyCancel,
                 bounds, bad>>

\* Wrong variant: a task with no outcome yet is stored all the same.
_finalize_task_always(a) ==
  /\ pc[a] = "finalize"
  /\ \/ HasWork /\ Goto(a, ret[a]) /\ UNCHANGED upd
     \/ ~HasWork /\ Update(a, Finalized, ret[a])
  /\ UNCHANGED <<store, cache, queue, index, ret, send, interrupts, bodyCancel,
                 bounds, bad>>

\* _finalize_task_on_owner: nothing happens while work is left (checked before
\* and after the lock is taken) or while the task has no outcome.
_finalize_task(a) ==
  /\ pc[a] = "finalize"
  /\ \/ /\ HasWork \/ (upd = None /\ Outcome = None)
        /\ Goto(a, ret[a])
        /\ UNCHANGED upd
     \/ /\ ~HasWork /\ Outcome # None
        /\ Update(a, Finalized, ret[a])
  /\ UNCHANGED <<store, cache, queue, index, ret, send, interrupts, bodyCancel,
                 bounds, bad>>

\* _persist_and_publish, first half: the record is written.
Persist ==
  /\ upd # None /\ ~upd.stored
  /\ store' = upd.rec
  /\ upd' = [upd EXCEPT !.stored = TRUE]
  /\ UNCHANGED <<cache, queue, index, pc, ret, send, interrupts, bodyCancel, bounds, bad>>

\* Wrong variant: every update clears the noted failure.
PublishClears ==
  /\ upd # None /\ upd.stored
  /\ cache' = upd.rec /\ upd' = None
  /\ Goto(upd.by, upd.then)
  /\ failure' = FALSE
  /\ UNCHANGED <<store, queue, work, active, ret, send, interrupts, bodyCancel, bounds, bad>>

\* Second half: it is published in the cache and the lock is given back; a
\* terminal record clears the noted failure.
Publish ==
  /\ upd # None /\ upd.stored
  /\ cache' = upd.rec /\ upd' = None
  /\ Goto(upd.by, upd.then)
  /\ failure' = (failure /\ upd.rec.status \notin Terminal)
  /\ UNCHANGED <<store, queue, work, active, ret, send, interrupts, bodyCancel, bounds, bad>>

\* The write fails instead: a worker rolls its ack back, the body reports the
\* error or, if it already was, raises; the callers of create, fail and cancel
\* get the exception.
StoreFails ==
  /\ upd # None /\ ~upd.stored
  /\ faults < MaxFaults
  /\ faults' = faults + 1
  /\ upd' = None
  /\ Goto(upd.by, CASE upd.by = "producer"  -> "done"
                    [] upd.by = "canceller" -> "idle"
                    [] upd.by = "body"      ->
                         IF ret["body"] = "returnerr" THEN "raise" ELSE "failing"
                    [] OTHER                -> "rollback")
  /\ UNCHANGED <<store, cache, queue, index, ret, send, interrupts, bodyCancel,
                 crashes, bad>>

\* A full cache drops its oldest tasks, finished or not.
_evict_expired ==
  /\ CacheOverflows /\ cache # None
  /\ cache' = None
  /\ UNCHANGED <<store, upd, queue, index, pc, ret, send, interrupts, bodyCancel,
                 bounds, bad>>

-----------------------------------------------------------------------------
(* ResourceService._enqueue_add_resource_job: create the task, enqueue the root *)

CreateTask ==
  /\ pc["producer"] = "create"
  /\ Rec = None
  /\ Update("producer", [status |-> "pending", result |-> FALSE, error |-> FALSE],
            "register")
  /\ UNCHANGED <<store, cache, queue, index, ret, send, interrupts, bodyCancel,
                 bounds, bad>>

\* Wrong variant: cancellation is not looked at.
register_always(w) ==
  /\ work' = work \cup {w}
  /\ queue' = [queue EXCEPT ![w] = "sending"]

\* TaskWorkIndex.register: refused once cancellation is requested.
register(w) ==
  /\ ~is_cancellation_requested
  /\ work' = work \cup {w}
  /\ queue' = [queue EXCEPT ![w] = "sending"]

RegisterRoot ==
  /\ pc["producer"] = "register"
  /\ \/ register(Root) /\ Goto("producer", "send")
     \/ /\ is_cancellation_requested
        /\ Goto("producer", "fail")
        /\ UNCHANGED <<work, queue>>
  /\ UNCHANGED <<record, active, failure, ret, send, interrupts, bodyCancel, bounds, bad>>

\* Forget a message that was not written; whoever leaves the task idle finalizes it.
discard(a, w, l) ==
  /\ work' = work \ {w}
  /\ IF w \in work /\ work = {w} /\ active = {}
       THEN Goto(a, "finalize") /\ ret' = [ret EXCEPT ![a] = l]
       ELSE Goto(a, l) /\ UNCHANGED ret

SendRoot ==
  /\ pc["producer"] = "send"
  /\ \/ /\ queue' = [queue EXCEPT ![Root] = "pending"]
        /\ Goto("producer", "done")
        /\ UNCHANGED <<work, ret, faults>>
     \/ /\ faults < MaxFaults
        /\ faults' = faults + 1
        /\ queue' = [queue EXCEPT ![Root] = "new"]
        /\ discard("producer", Root, "fail")
  /\ UNCHANGED <<record, active, failure, send, interrupts, bodyCancel, crashes, bad>>

\* The enqueue failed: the task is told so.
FailTask ==
  /\ pc["producer"] = "fail"
  /\ _record_outcome("producer", FALSE, TRUE, "done")
  /\ UNCHANGED <<store, cache, queue, index, send, interrupts, bodyCancel, bounds, bad>>

-----------------------------------------------------------------------------
(* TaskTracker.cancel *)

\* A finished task is left alone, a task already cancelling is interrupted again.
cancel ==
  /\ Cancellable
  /\ pc["canceller"] = "idle"
  /\ \/ In(Open) /\ Update("canceller", [Rec EXCEPT !.status = "cancelling"], "interrupt")
     \/ /\ upd = None /\ In({"cancelling"})
        /\ Goto("canceller", "interrupt")
        /\ UNCHANGED upd
  /\ UNCHANGED <<store, cache, queue, index, ret, send, interrupts, bodyCancel,
                 bounds, bad>>

\* The handlers that are active now will get a Task.cancel() each.
cancel_active ==
  /\ pc["canceller"] = "interrupt"
  /\ interrupts' = interrupts \cup active
  /\ Goto("canceller", "finalize")
  /\ ret' = [ret EXCEPT !["canceller"] = "idle"]
  /\ UNCHANGED <<record, queue, index, send, bodyCancel, bounds, bad>>

-----------------------------------------------------------------------------
(* Workers: one coroutine per message taken from the queue *)

dequeue_raw(w) ==
  /\ pc[w] = "off" /\ queue[w] = "pending"
  /\ queue' = [queue EXCEPT ![w] = "processing"]
  /\ Goto(w, "got")
  /\ bad' = bad \ {w}
  /\ UNCHANGED <<record, index, ret, send, interrupts, bodyCancel, bounds>>

process_dequeued(w) ==
  /\ pc[w] = "got"
  /\ Goto(w, IF is_cancellation_requested THEN "oncancelled" ELSE "enter")
  /\ UNCHANGED <<record, queue, index, ret, send, interrupts, bodyCancel, bounds, bad>>

\* register_active looks again; a handler that starts too late interrupts itself
\* at its first await.  The root's handler hands over to its body.
register_active(w) ==
  /\ pc[w] = "enter"
  /\ IF is_cancellation_requested
       THEN interrupts' = interrupts \cup {w} /\ UNCHANGED active
       ELSE active' = active \cup {w} /\ UNCHANGED interrupts
  /\ pc' = [a \in Actors |-> IF a = w THEN
                               IF is_cancellation_requested THEN "late" ELSE "run"
                             ELSE IF a = "body" /\ w = Root THEN "check" ELSE pc[a]]
  /\ UNCHANGED <<record, queue, work, failure, ret, send, bodyCancel, bounds, bad>>

on_cancelled(w) ==
  /\ pc[w] = "oncancelled"
  /\ Goto(w, "ack")
  /\ UNCHANGED <<record, queue, index, ret, send, interrupts, bodyCancel, bounds, bad>>

\* A descendant's handler ends, and leaves the active set.
HandlerReturns(w) ==
  /\ w # Root /\ pc[w] \in {"run", "late"} /\ send[w] = None
  /\ \/ UNCHANGED <<failure, bad>>
     \/ failure' = TRUE /\ bad' = bad \cup {w}
  /\ active' = active \ {w}
  /\ Goto(w, "ack")
  /\ UNCHANGED <<record, queue, work, ret, send, interrupts, bodyCancel, bounds>>

\* It raises instead: noted as a failure and not acknowledged.
HandlerRaises(w) ==
  /\ w # Root /\ pc[w] = "run" /\ send[w] = None
  /\ faults < MaxFaults
  /\ faults' = faults + 1
  /\ failure' = TRUE
  /\ active' = active \ {w}
  /\ Goto(w, "dead")
  /\ UNCHANGED <<record, queue, work, ret, send, interrupts, bodyCancel, crashes, bad>>

\* Wrong variant: the last message is acknowledged without a finalize.
prepare_ack_late(w) ==
  /\ pc[w] = "ack"
  /\ Goto(w, "write")
  /\ work' = work \ {w}
  /\ UNCHANGED <<record, queue, active, failure, ret, send, interrupts, bodyCancel,
                 bounds, bad>>

\* Leave the index provisionally; whoever leaves the task idle finalizes it
\* before its message is deleted.
prepare_ack(w) ==
  /\ pc[w] = "ack"
  /\ \/ w \in work /\ discard(w, w, "write")
     \/ w \notin work /\ Goto(w, "writeonly") /\ UNCHANGED <<work, ret>>
  /\ UNCHANGED <<record, queue, active, failure, send, interrupts, bodyCancel, bounds, bad>>

ack(w) ==
  /\ pc[w] \in {"write", "writeonly"}
  /\ queue' = [queue EXCEPT ![w] = "gone"]
  /\ Goto(w, "off")
  /\ interrupts' = interrupts \ {w}
  /\ UNCHANGED <<record, index, ret, send, bodyCancel, bounds, bad>>

\* The durable ack fails.
AckFails(w) ==
  /\ faults < MaxFaults
  /\ \/ pc[w] = "write" /\ Goto(w, "rollback")
     \/ pc[w] = "writeonly" /\ Goto(w, "dead")
  /\ faults' = faults + 1
  /\ UNCHANGED <<record, queue, index, ret, send, interrupts, bodyCancel, crashes, bad>>

\* The message is not acknowledged: it stays "processing" until a restart.
rollback_ack(w) ==
  /\ pc[w] = "rollback"
  /\ work' = work \cup {w}
  /\ Goto(w, "dead")
  /\ UNCHANGED <<record, queue, active, failure, ret, send, interrupts, bodyCancel,
                 bounds, bad>>

-----------------------------------------------------------------------------
(* Handlers enqueue descendants: NamedQueue.enqueue *)

Running(h) == IF h = Root THEN pc["body"] = "work" ELSE pc[h] = "run"

\* A refused registration ends the handler with an error, as HandlerReturns and
\* BodyEnds allow at any time.
Enqueue(h, w) ==
  /\ Running(h) /\ send[h] = None
  /\ w # Root /\ queue[w] = "new"
  /\ register(w)
  /\ send' = [send EXCEPT ![h] = w]
  /\ UNCHANGED <<record, active, failure, pc, ret, interrupts, bodyCancel, bounds, bad>>

Sent(h) ==
  /\ send[h] # None
  /\ queue' = [queue EXCEPT ![send[h]] = "pending"]
  /\ send' = [send EXCEPT ![h] = None]
  /\ UNCHANGED <<record, index, pc, ret, interrupts, bodyCancel, bounds, bad>>

\* A write runs on a thread that cancellation cannot stop: the message of a
\* cancelled enqueue may be written all the same.
GiveUpSend(h) ==
  /\ send' = [send EXCEPT ![h] = None]
  /\ IF send[h] = None THEN UNCHANGED queue
       ELSE \E q \in {"pending", "gone"} : queue' = [queue EXCEPT ![send[h]] = q]

-----------------------------------------------------------------------------
(* AddResourceProcessor._process, the root handler's body *)

\* The existing task is loaded; a finished or cancelled one is left alone, one
\* with a result is only waited for.
BodyCheck ==
  /\ pc["body"] = "check" /\ upd = None
  /\ cache' = Rec
  /\ Goto("body", CASE ~In(Open)              -> "return"
                    [] In(Open) /\ Rec.result -> "wait"
                    [] OTHER                  -> "start")
  /\ UNCHANGED <<store, upd, queue, index, ret, send, interrupts, bodyCancel, bounds, bad>>

\* tracker.start
BodyStart ==
  /\ pc["body"] = "start"
  /\ \/ /\ In(Open)
        /\ Update("body", [Rec EXCEPT !.status = "running"], "work")
     \/ /\ upd = None /\ ~In(Open)
        /\ Goto("body", "work")
        /\ UNCHANGED upd
  /\ UNCHANGED <<store, cache, queue, index, ret, send, interrupts, bodyCancel,
                 bounds, bad>>

\* execute_add_resource_job returns a result.
BodyEnds ==
  /\ pc["body"] = "work" /\ send[Root] = None
  /\ _record_outcome("body", TRUE, FALSE, "wait")
  /\ UNCHANGED <<store, cache, queue, index, send, interrupts, bodyCancel, bounds, bad>>

\* The lock cannot be loaded, the job fails or a later step raises.
BodyRaises ==
  /\ pc["body"] \in {"start", "work", "wait"} /\ send[Root] = None
  /\ Goto("body", "failing")
  /\ UNCHANGED <<record, queue, index, ret, send, interrupts, bodyCancel, bounds, bad>>

BodyFails ==
  /\ pc["body"] = "failing"
  /\ _record_outcome("body", FALSE, TRUE, "returnerr")
  /\ UNCHANGED <<store, cache, queue, index, send, interrupts, bodyCancel, bounds, bad>>

\* The result is recorded again once no other work of the task is left.
wait_for_descendants ==
  /\ pc["body"] = "wait"
  /\ work \ {Root} = {}
  /\ _record_outcome("body", TRUE, FALSE, "return")
  /\ UNCHANGED <<store, cache, queue, index, send, interrupts, bodyCancel, bounds, bad>>

\* The body returns to the worker that waits for it, if it still does; raised
\* errors are noted and the message is not acknowledged.
BodyReturns ==
  /\ pc["body"] \in {"return", "returnerr", "raise"}
  /\ failure' = (failure \/ pc["body"] # "return")
  /\ IF pc[Root] = "run"
       THEN /\ active' = active \ {Root}
            /\ pc' = [pc EXCEPT !["body"] = "off",
                                ![Root] = IF pc["body"] = "raise" THEN "dead" ELSE "ack"]
       ELSE /\ Goto("body", "off")
            /\ UNCHANGED active
  /\ UNCHANGED <<record, queue, work, ret, send, interrupts, bodyCancel, bounds, bad>>

\* The cancelled body stops at an await outside a store write, drops what it was
\* enqueueing and runs its finally block.
BodyUnwinds ==
  /\ bodyCancel
  /\ pc["body"] \in {"check", "start", "work", "failing", "wait", "return", "returnerr"}
  /\ GiveUpSend(Root)
  /\ IF send[Root] # None
       THEN discard("body", send[Root], "unwind")
       ELSE Goto("body", "unwind") /\ UNCHANGED <<work, ret>>
  /\ UNCHANGED <<record, active, failure, interrupts, bodyCancel, bounds, bad>>

\* The locks are released, the staged source is removed.
BodyUnwound ==
  /\ pc["body"] = "unwind"
  /\ Goto("body", "off")
  /\ UNCHANGED <<record, queue, index, ret, send, interrupts, bodyCancel, bounds, bad>>

-----------------------------------------------------------------------------
(* A Task.cancel() reaches a worker *)

\* In the handler: process_dequeued swallows it and goes on to the ack, unless it
\* cannot see the cancellation.  The root's body is cancelled too, and not waited
\* for.
InterruptHandler(w) ==
  /\ w \in interrupts /\ pc[w] \in {"run", "late"}
  /\ interrupts' = interrupts \ {w}
  /\ active' = active \ {w}
  /\ Goto(w, IF is_cancellation_requested THEN "ack" ELSE "dead")
  /\ IF w = Root
       THEN /\ bodyCancel' = (pc["body"] # "off")
            /\ UNCHANGED <<queue, send, work>>
       ELSE /\ GiveUpSend(w)
            /\ work' = work \ {send[w]}
            /\ UNCHANGED bodyCancel
  /\ UNCHANGED <<record, failure, ret, bounds, bad>>

\* In the ack, past the handler: it ends the worker.  A record update already
\* begun is finished first; a durable ack already begun may or may not happen.
InterruptAck(w) ==
  /\ w \in interrupts
  /\ interrupts' = interrupts \ {w}
  /\ \/ /\ pc[w] = "finalize"
        /\ Goto(w, "rollback") /\ UNCHANGED <<upd, queue>>
     \/ /\ upd # None /\ upd.by = w
        /\ upd' = [upd EXCEPT !.then = "rollback"] /\ UNCHANGED <<pc, queue>>
     \/ /\ pc[w] = "write"
        /\ Goto(w, "rollback") /\ UNCHANGED upd
        /\ queue' \in {queue, [queue EXCEPT ![w] = "gone"]}
     \/ /\ pc[w] = "writeonly"
        /\ Goto(w, "dead") /\ UNCHANGED upd
        /\ queue' \in {queue, [queue EXCEPT ![w] = "gone"]}
  /\ UNCHANGED <<store, cache, index, ret, send, bodyCancel, bounds, bad>>

-----------------------------------------------------------------------------
(* A crash and the start that follows it: RecoverStale, TaskWorkIndex.rebuild *)

\* Wrong variant: what was being processed stays so.
RecoveredPendingOnly ==
  [w \in Works |-> IF queue[w] = "sending" THEN "new" ELSE queue[w]]

Recovered == [w \in Works |-> CASE queue[w] = "processing" -> "pending"
                                [] queue[w] = "sending"    -> "new"
                                [] OTHER                   -> queue[w]]

\* restore_work_tasks caches the record of a task that still has messages.
Restart ==
  /\ crashes < MaxCrashes
  /\ crashes' = crashes + 1
  /\ queue' = Recovered
  /\ work' = {w \in Works : Recovered[w] = "pending"}
  /\ active' = {} /\ failure' = FALSE /\ interrupts' = {} /\ bodyCancel' = FALSE
  /\ cache' = (IF work' # {} THEN store ELSE None) /\ upd' = None
  /\ pc' = [a \in Actors |-> CASE a = "producer"  -> "done"
                               [] a = "canceller" -> "idle"
                               [] OTHER           -> "off"]
  /\ ret' = [a \in Actors |-> "off"]
  /\ send' = [w \in Works |-> None]
  /\ UNCHANGED <<store, faults, bad>>

-----------------------------------------------------------------------------
Init ==
  /\ store = None /\ cache = None /\ upd = None
  /\ queue = [w \in Works |-> "new"]
  /\ work = {} /\ active = {} /\ failure = FALSE
  /\ pc = [a \in Actors |-> CASE a = "producer" -> "create"
                              [] a = "canceller" -> "idle"
                              [] OTHER -> "off"]
  /\ ret = [a \in Actors |-> "off"]
  /\ send = [w \in Works |-> None]
  /\ interrupts = {} /\ bodyCancel = FALSE
  /\ crashes = 0 /\ faults = 0 /\ bad = {}

Producer == CreateTask \/ RegisterRoot \/ SendRoot \/ FailTask

Worker(w) ==
  \/ dequeue_raw(w) \/ process_dequeued(w) \/ register_active(w) \/ on_cancelled(w)
  \/ HandlerReturns(w) \/ prepare_ack(w) \/ ack(w) \/ rollback_ack(w)
  \/ InterruptHandler(w) \/ InterruptAck(w) \/ Sent(w)

Body ==
  \/ BodyCheck \/ BodyStart \/ BodyEnds \/ BodyFails \/ wait_for_descendants \/ BodyReturns
  \/ BodyUnwinds \/ BodyUnwound

\* Steps the program takes by itself, sooner or later.
Progress ==
  \/ Producer \/ cancel_active \/ Body \/ Persist \/ Publish
  \/ \E a \in Actors : _finalize_task(a)
  \/ \E w \in Works : Worker(w)

Environment ==
  \/ cancel \/ _evict_expired \/ BodyRaises \/ StoreFails \/ Restart
  \/ \E w \in Works : HandlerRaises(w) \/ AckFails(w)
  \/ \E h, w \in Works : Enqueue(h, w)

Next == Progress \/ Environment
Spec == Init /\ [][Next]_vars

\* Every coroutine that can go on does, handlers end, the queue is polled.
Fairness ==
  /\ WF_vars(Producer) /\ WF_vars(cancel_active) /\ WF_vars(Body)
  /\ WF_vars(Persist) /\ WF_vars(Publish)
  /\ \A a \in Actors : WF_vars(_finalize_task(a))
  /\ \A w \in Works : WF_vars(Worker(w))
FairSpec == Spec /\ Fairness

-----------------------------------------------------------------------------
(* Properties *)

\* Types of all variables.
TypeOK ==
  /\ store \in Records \cup {None} /\ cache \in Records \cup {None}
  /\ upd \in Updates \cup {None}
  /\ queue \in [Works -> MsgStates]
  /\ work \subseteq Works /\ active \subseteq Works /\ failure \in BOOLEAN
  /\ pc \in [Actors -> PCs] /\ ret \in [Actors -> PCs]
  /\ send \in [Works -> Works \cup {None}]
  /\ interrupts \subseteq Works /\ bodyCancel \in BOOLEAN
  /\ crashes \in 0 .. MaxCrashes /\ faults \in 0 .. MaxFaults
  /\ bad \subseteq Works

Status(S) == store # None /\ store.status \in S

Durable(w) == queue[w] \in {"pending", "processing"}

\* _finalize_before_ack: "Persist the terminal state before QueueFS removes the
\* last recovery message": once the root has been enqueued and no message of the
\* task is left in the store, its stored record is terminal.
TerminalBeforeLastAck ==
  queue[Root] = "gone" /\ (\A w \in Works : ~Durable(w)) => Status(Terminal)

\* No handler of the task is running or has yet to run, its job included.
Settled ==
  /\ pc["body"] \in {"off", "check", "finalize"}
  /\ \A w \in Works : /\ queue[w] \notin {"sending", "pending"}
                      /\ pc[w] \notin {"got", "enter", "run", "late", "oncancelled"}

DoneIsSettled == Status({"completed", "failed"}) => Settled

\* complete and fail "finalize after owned work settles": a task becomes completed
\* or failed when none of its messages has a handler that has yet to run or is
\* running, and stays so; only a restart delivers a message of it again.
OutcomeIsSettled ==
  [][DoneIsSettled /\ crashes' = crashes => DoneIsSettled']_vars

\* A task is completed only if none of its acknowledged descendants reported an
\* error in its last run: _failures must reach the record before it is terminal.
\* A restart forgets _failures (rebuild empties it), hence the first conjunct.
FailureKept ==
  crashes = 0 /\ Status({"completed"}) => ~\E w \in bad : queue[w] = "gone"

\* Once a task is cancelled no handler of its messages is admitted, not even for
\* one delivered again after a restart.  (A handler that was admitted may still be
\* past its last check, or in its own clean-up: cancelled is weaker than Settled.)
CancelledRunsNothing ==
  Status({"cancelled"}) => \A w \in Works : pc[w] # "run"

\* A stored terminal record never changes, whoever comes late: an outcome, a
\* cancellation, a finalize or a message delivered again.
TerminalIsFinal ==
  [][Status(Terminal) => store' = store]_vars

\* cancel "immediately prevents the task from creating new QueueFS work", from
\* the moment its record is published, across restarts.
NoNewWork ==
  [][upd = None /\ Status({"cancelling", "cancelled"}) =>
       \A w \in Works : queue[w] = "new" => queue'[w] = "new"]_vars

\* An enqueued job ends, across restarts, unless a write failed or a handler raised:
\* such a message stays unacknowledged until the next restart.
TaskEnds == queue[Root] = "pending" ~> Status(Terminal) \/ faults > 0
=============================================================================
