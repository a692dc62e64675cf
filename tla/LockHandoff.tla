---------------------------- MODULE LockHandoff ----------------------------
(***************************************************************************)
(* One lease on a resource's tree, handed from the request that imports    *)
(* the resource to the add-resource job (hop 1) and from there to the      *)
(* semantic job (hop 2), through queue messages that carry a handoff       *)
(* reference.  The registry of leases lives in the process and refreshes   *)
(* their tokens; tokens and messages outlive it.                           *)
(*                                                                         *)
(* How a token is acquired is the subject of PathLock: here it is one step *)
(* of a new owner, with a timeout of 0.  Lease references and owner ids    *)
(* are unique in the code; here they are reused when nothing names them.   *)
(* Each slot is a queue message with the coroutine that handles it.        *)
(***************************************************************************)
EXTENDS Integers, FiniteSets

CONSTANTS SlotCount,     \* places for queue messages
          IdCount,       \* how many references and owner ids exist at a time
          RetryLimit,    \* lock_handoff_retry: 2 in the code
          MaxRestarts,
          None

ASSUME HandoffAssumption ==
    /\ IdCount \in Nat /\ RetryLimit \in Nat /\ MaxRestarts \in Nat
    /\ None \notin 1 .. IdCount /\ SlotCount \in Nat

Ids    == 1 .. IdCount
Slots  == 1 .. SlotCount

\* The request that imports the resource, another request for the same path, and
\* the handlers.
Requester == 0
Other     == -1
Actors    == Slots \cup {Requester, Other}

VARIABLES
    token, stale,  \* owner id in the lock file, and whether it has expired
    leases,        \* the registry: lease_ref, owner_id, pending_handoff
    cap,           \* the owned lease each actor believes it has
    consumed,      \* consumed_handoff_refs
    msg,           \* per slot: state of the message, hop, lock_handoff_retry, handoff
    pc,
    task, result,  \* status of the task, and whether its result is stored
    restarts

vars  == <<token, stale, leases, cap, consumed, msg, pc, task, result, restarts>>
store == <<token, stale>>
registry == <<leases, consumed>>
record   == <<task, result, restarts>>

Free == [st |-> "free", hop |-> 1, retry |-> 0, ref |-> None, owner |-> None]

Go(a, p) == pc' = [pc EXCEPT ![a] = p]

Used == {token} \cup consumed \cup {e.ref : e \in leases} \cup {e.owner : e \in leases}
          \cup {msg[s].ref : s \in Slots} \cup {msg[s].owner : s \in Slots}
Pairs  == {p \in (Ids \ Used) \X (Ids \ Used) : p[1] < p[2]}
Unused == CHOOSE p \in Pairs : TRUE

\* The bound on the ids leaves some to draw from.
Fresh == Pairs # {}

-----------------------------------------------------------------------------
(* PathLockManager *)

\* The owner mutex: another actor is in the middle of an adoption.
Locked(o) == \E s \in Slots : pc[s] \in {"refresh", "crefresh"} /\ msg[s].owner = o

Lease(r)    == {e \in leases : e.ref = r}
OwnerOf(r)  == (CHOOSE e \in leases : e.ref = r).owner

\* Wrong variant: the token goes with any lease of its owner.
ReleaseToken(a) ==
    /\ leases' = leases \ Lease(cap[a]) /\ cap' = [cap EXCEPT ![a] = None]
    /\ token' = IF \E e \in Lease(cap[a]) : e.owner = token THEN None ELSE token
    /\ UNCHANGED <<stale, consumed>>

\* release: an owned lease goes, with its token unless another lease of the owner
\* needs it; the state of an owner without leases is dropped, with what it knows
\* of consumed references.  A parked or adopted lease is not the caller's any more.
Release(a) ==
    LET mine == {e \in Lease(cap[a]) : ~e.parked}
        rest == leases \ mine
        last == \E e \in mine : \A f \in rest : f.owner # e.owner
    IN  /\ \A e \in mine : ~Locked(e.owner)
        /\ leases' = rest /\ cap' = [cap EXCEPT ![a] = None]
        /\ token' = IF last /\ token = OwnerOf(cap[a]) THEN None ELSE token
        /\ consumed' = IF last THEN {} ELSE consumed
        /\ UNCHANGED stale

\* acquire_tree with timeout 0: a free path, or a stale token that is taken over.
CanAcquire == token = None \/ stale
Grant ==
    /\ CanAcquire /\ Fresh
    /\ token' = Unused[2] /\ stale' = FALSE
    /\ leases' = leases \cup {[ref |-> Unused[1], owner |-> Unused[2], parked |-> FALSE]}
Acquire(a) == Grant /\ cap' = [cap EXCEPT ![a] = Unused[1]] /\ UNCHANGED consumed

\* take_pending_handoff: lease e gets a new reference, the old one is consumed.
Rotate(e) ==
    /\ Fresh
    /\ leases' = (leases \ {e}) \cup {[e EXCEPT !.ref = Unused[1], !.parked = FALSE]}
    /\ consumed' = consumed \cup {e.ref}

\* handoff: the lease is parked, if it is still the caller's.
Park(a) ==
    /\ \A e \in Lease(cap[a]) : ~Locked(e.owner)
    /\ leases' = {IF e.ref = cap[a] THEN [e EXCEPT !.parked = TRUE] ELSE e : e \in leases}
    /\ cap' = [cap EXCEPT ![a] = None]
    /\ UNCHANGED <<store, consumed>>

\* Time passes; the refresh loop keeps the tokens of registered leases alive.
Expire ==
    /\ token # None /\ ~stale /\ \A e \in leases : e.owner # token
    /\ stale' = TRUE
    /\ UNCHANGED <<token, registry, cap, msg, pc, record>>

-----------------------------------------------------------------------------
(* The request: _enqueue_add_resource_job *)

Put(h, r, ref, owner) ==
    \E t \in Slots :
      /\ msg[t].st = "free" /\ \A u \in Slots : u < t => msg[u].st # "free"
      /\ msg' = [msg EXCEPT ![t] = [st |-> "pending", hop |-> h, retry |-> r, ref |-> ref, owner |-> owner]]

RequestAcquires ==
    /\ pc[Requester] = "start" /\ Acquire(Requester) /\ Go(Requester, "enqueue")
    /\ UNCHANGED <<msg, record>>

RequestEnqueues ==
    /\ pc[Requester] = "enqueue"
    /\ Put(1, 0, cap[Requester], OwnerOf(cap[Requester]))
    /\ task' = "open" /\ Go(Requester, "handoff")
    /\ UNCHANGED <<store, registry, cap, result, restarts>>

RequestParks ==
    /\ pc[Requester] = "handoff" /\ Park(Requester) /\ Go(Requester, "off")
    /\ UNCHANGED <<msg, record>>

\* An exception or a cancelled request, before or after the enqueue.
RequestFails ==
    /\ pc[Requester] \in {"enqueue", "handoff"}
    /\ Release(Requester) /\ Go(Requester, "off")
    /\ task' = IF task = "none" THEN "failed" ELSE task
    /\ UNCHANGED <<msg, result, restarts>>

Request == RequestAcquires \/ RequestEnqueues \/ RequestParks \/ RequestFails

-----------------------------------------------------------------------------
(* The handler of a message: AddResourceProcessor (hop 1), SemanticProcessor *)

Hop(s, h) == msg[s].hop = h

\* process_dequeued and the checks of _process.
Dequeue(s) ==
    /\ msg[s].st = "pending" /\ pc[s] = "idle"
    /\ msg' = [msg EXCEPT ![s].st = "processing"]
    /\ Go(s, CASE task = "cancelling" -> "cadopt"
               [] task # "cancelling" /\ Hop(s, 1) /\ task # "open" -> "ack"
               [] task = "open" /\ Hop(s, 1) /\ result -> "wait"
               [] OTHER -> "adopt")
    /\ UNCHANGED <<store, registry, cap, record>>

\* The circuit breaker is open: a semantic message is queued again as it is.
BreakerOpen(s) ==
    /\ pc[s] = "adopt" /\ Hop(s, 2) /\ Go(s, "requeue")
    /\ UNCHANGED <<store, registry, cap, msg, record>>

\* The coroutine after an adoption, to work or only to release.
Adopted(s) == Go(s, IF pc[s] \in {"adopt", "refresh"} THEN "work" ELSE "release")
AdoptFails(s) ==
    /\ Go(s, IF pc[s] \in {"adopt", "refresh"} THEN "reacquire" ELSE "ack")
    /\ UNCHANGED <<store, registry, cap>>

\* Wrong variant: an owned lease is adopted as well.
AdoptAny(s) ==
    /\ pc[s] \in {"adopt", "cadopt"} /\ UNCHANGED <<msg, record>>
    /\ \E e \in Lease(msg[s].ref) :
         /\ leases' = leases \cup {[e EXCEPT !.ref = Unused[1], !.parked = FALSE]}
         /\ cap' = [cap EXCEPT ![s] = Unused[1]] /\ consumed' = consumed \cup {e.ref}
         /\ Adopted(s) /\ UNCHANGED store

\* Wrong variant: only the token is asked, never the registry.
AdoptByToken(s) ==
    /\ pc[s] \in {"adopt", "cadopt"} /\ UNCHANGED <<msg, record>>
    /\ IF token = msg[s].owner /\ msg[s].ref \notin consumed
         THEN Go(s, IF pc[s] = "adopt" THEN "refresh" ELSE "crefresh") /\ UNCHANGED <<store, registry, cap>>
         ELSE AdoptFails(s)

\* adopt: a lease in the registry is taken over when it is parked, under a new
\* reference; one that is not registered is adopted by its token.
Adopt(s) ==
    LET h == msg[s]
    IN  /\ pc[s] \in {"adopt", "cadopt"} /\ ~Locked(h.owner)
        /\ UNCHANGED <<msg, record>>
        /\ \/ \E e \in Lease(h.ref) :
                /\ e.parked /\ Rotate(e) /\ cap' = [cap EXCEPT ![s] = Unused[1]]
                /\ Adopted(s) /\ UNCHANGED store
           \/ \E e \in Lease(h.ref) : ~e.parked /\ AdoptFails(s)
           \/ /\ Lease(h.ref) = {} /\ (h.ref \in consumed \/ token # h.owner)
              /\ AdoptFails(s)
           \/ /\ Lease(h.ref) = {} /\ h.ref \notin consumed /\ token = h.owner
              /\ Go(s, IF pc[s] = "adopt" THEN "refresh" ELSE "crefresh")
              /\ UNCHANGED <<store, registry, cap>>

\* The second half of an adoption by token, under the owner mutex.
AdoptRefresh(s) ==
    LET h == msg[s]
    IN  /\ pc[s] \in {"refresh", "crefresh"}
        /\ UNCHANGED <<msg, record>>
        /\ IF token = h.owner
             THEN /\ Fresh /\ stale' = FALSE
                  /\ leases' = leases \cup {[ref |-> Unused[1], owner |-> h.owner, parked |-> FALSE]}
                  /\ cap' = [cap EXCEPT ![s] = Unused[1]] /\ consumed' = consumed \cup {h.ref}
                  /\ Adopted(s) /\ UNCHANGED token
             ELSE AdoptFails(s)

\* reacquire_add_resource_job_lock, or the fallback of SemanticLockScope.resolve.
Reacquire(s) ==
    /\ pc[s] = "reacquire"
    /\ \/ Acquire(s) /\ Go(s, "work")
       \/ ~CanAcquire /\ Go(s, "requeue") /\ UNCHANGED <<store, registry, cap>>
    /\ UNCHANGED <<msg, record>>

\* Wrong variant: no limit.
RequeueAlways(s) ==
    /\ pc[s] = "requeue" /\ task # "cancelling"
    /\ Put(msg[s].hop, msg[s].retry + 1, msg[s].ref, msg[s].owner) /\ Go(s, "ack")
    /\ UNCHANGED <<store, registry, cap, record>>

\* A copy of message s is queued; its handler goes on to acknowledge s.  When all
\* places are taken, nothing comes between the two.
PutCopy(s, r) ==
    \/ Put(msg[s].hop, r, msg[s].ref, msg[s].owner) /\ Go(s, "ack")
    \/ /\ \A t \in Slots : msg[t].st # "free"
       /\ msg' = [msg EXCEPT ![s].st = "pending", ![s].retry = r] /\ Go(s, "idle")

\* _requeue_lock_handoff and _requeue_semantic_msg_after_error: a copy is queued,
\* then the message is acknowledged.  Of a task in cancellation nothing can be
\* queued: a job's message then stays unacknowledged, a semantic one is dropped.
Requeue(s) ==
    LET h == msg[s]
    IN  /\ pc[s] = "requeue"
        /\ UNCHANGED <<store, registry, cap, result, restarts>>
        /\ \/ /\ Hop(s, 1) /\ h.retry >= RetryLimit
              /\ task' = (IF task = "open" THEN "failed" ELSE task) /\ Go(s, "ack") /\ UNCHANGED msg
           \/ /\ Hop(s, 2) \/ h.retry < RetryLimit
              /\ UNCHANGED task
              /\ IF task = "cancelling"
                   THEN Go(s, IF Hop(s, 1) THEN "stuck" ELSE "ack") /\ UNCHANGED msg
                   ELSE PutCopy(s, IF Hop(s, 1) THEN h.retry + 1 ELSE 0)

\* The job's work: it queues the semantic message and then parks its lease
\* (finish_prepared_resource), or has nothing to queue and keeps it, or fails.
JobWork(s) ==
    /\ pc[s] = "work" /\ Hop(s, 1)
    /\ UNCHANGED <<store, registry, cap, result, restarts>>
    /\ \/ /\ task # "cancelling" /\ Put(2, 0, cap[s], OwnerOf(cap[s]))
          /\ Go(s, "handoff") /\ UNCHANGED task
       \/ Go(s, "keep") /\ UNCHANGED <<msg, task>>
       \/ task' = (IF task = "open" THEN "failed" ELSE task) /\ Go(s, "release") /\ UNCHANGED msg

\* An error of the call is logged, and the lease kept although a message names it.
JobParks(s) ==
    /\ pc[s] = "handoff"
    /\ \/ Park(s) /\ Go(s, "result")
       \/ Go(s, "keep") /\ UNCHANGED <<store, registry, cap>>
    /\ UNCHANGED <<msg, record>>

\* tracker.complete stores the result; a redelivered message then only waits.
JobResult(s) ==
    /\ pc[s] = "result"
    /\ result' = TRUE /\ Go(s, "wait")
    /\ UNCHANGED <<store, registry, cap, msg, task, restarts>>

\* wait_for_descendants, the final outcome, and the finally clause.
JobEnds(s) ==
    /\ pc[s] = "wait" /\ \A t \in Slots : msg[t].st # "free" => Hop(t, 1)
    /\ task' = (IF task = "open" THEN "done" ELSE task) /\ Go(s, "release")
    /\ UNCHANGED <<store, registry, cap, msg, result, restarts>>

\* The semantic job ends, or fails with an error that is retried.
SemanticWork(s) ==
    /\ pc[s] = "work" /\ Hop(s, 2)
    /\ Go(s, "release") \/ Go(s, "retry")
    /\ UNCHANGED <<store, registry, cap, msg, record>>

\* A kept lease is released before the result is stored.
ReleaseAfter(s) ==
    /\ pc[s] \in {"keep", "release", "retry"}
    /\ Release(s)
    /\ Go(s, CASE pc[s] = "keep" -> "result" [] pc[s] = "release" -> "ack" [] OTHER -> "requeue")
    /\ UNCHANGED <<msg, record>>

Ack(s) ==
    /\ pc[s] = "ack"
    /\ msg' = [msg EXCEPT ![s] = Free] /\ Go(s, "idle")
    /\ UNCHANGED <<store, registry, cap, record>>

\* cancel_active: the handler unwinds through its finally clauses and its message
\* is acknowledged.  A call of adopt or acquire goes on in its thread; what it
\* gets, nobody releases.
Interrupt(s) ==
    /\ task = "cancelling"
    /\ UNCHANGED <<msg, record>>
    /\ \/ /\ pc[s] \in {"work", "handoff", "keep", "result", "wait"}
          /\ Go(s, "release") /\ UNCHANGED <<store, registry, cap>>
       \/ /\ pc[s] \in {"adopt", "refresh", "reacquire", "requeue"}
          /\ Go(s, "ack") /\ UNCHANGED <<store, registry, cap>>
       \/ /\ pc[s] = "adopt" /\ Go(s, "ack") /\ UNCHANGED <<store, cap>>
          /\ \E e \in Lease(msg[s].ref) : e.parked /\ Rotate(e)
       \/ /\ pc[s] = "reacquire" /\ Go(s, "ack")
          /\ Grant /\ UNCHANGED <<cap, consumed>>

Handler(s) == \/ Dequeue(s) \/ Adopt(s) \/ AdoptRefresh(s) \/ Reacquire(s) \/ Requeue(s)
              \/ JobWork(s) \/ JobParks(s) \/ JobResult(s) \/ JobEnds(s) \/ SemanticWork(s)
              \/ ReleaseAfter(s) \/ Ack(s)

-----------------------------------------------------------------------------
(* Everything else *)

\* Another request for the path.
OtherAcquires ==
    /\ pc[Other] = "idle" /\ Acquire(Other) /\ Go(Other, "work")
    /\ UNCHANGED <<msg, record>>
OtherReleases ==
    /\ pc[Other] = "work" /\ Release(Other) /\ Go(Other, "idle")
    /\ UNCHANGED <<msg, record>>

Cancel ==
    /\ task = "open" /\ task' = "cancelling"
    /\ UNCHANGED <<store, registry, cap, msg, pc, result, restarts>>

\* The process stops and a new one recovers the queue.
Restart ==
    /\ restarts < MaxRestarts /\ restarts' = restarts + 1
    /\ leases' = {} /\ consumed' = {} /\ cap' = [a \in Actors |-> None]
    /\ pc' = [a \in Actors |-> IF a = Requester THEN "off" ELSE "idle"]
    /\ msg' = [s \in Slots |-> IF msg[s].st = "free" THEN Free ELSE [msg[s] EXCEPT !.st = "pending"]]
    /\ UNCHANGED <<store, task, result>>

Init ==
    /\ token = None /\ stale = FALSE /\ leases = {} /\ consumed = {}
    /\ cap = [a \in Actors |-> None]
    /\ msg = [s \in Slots |-> Free]
    /\ pc = [a \in Actors |-> IF a = Requester THEN "start" ELSE "idle"]
    /\ task = "none" /\ result = FALSE /\ restarts = 0

Next == \/ Request \/ Expire \/ OtherAcquires \/ OtherReleases \/ Cancel \/ Restart
        \/ \E s \in Slots : Handler(s) \/ BreakerOpen(s) \/ Interrupt(s)

Spec == Init /\ [][Next]_vars

\* Coroutines that can go on do, the queue is polled, and another holder of the
\* path releases it.  An open circuit breaker lets calls through again after its
\* reset timeout, so a message that keeps coming back gets to its adoption.
FairSpec == /\ Spec /\ WF_vars(Request) /\ WF_vars(OtherReleases)
            /\ \A s \in Slots : WF_vars(Handler(s)) /\ SF_vars(Adopt(s))

-----------------------------------------------------------------------------
(* Properties *)

Steps == {"off", "start", "idle", "enqueue", "handoff", "adopt", "refresh", "cadopt", "crefresh",
          "reacquire", "requeue", "stuck", "work", "keep", "result", "wait", "release", "retry", "ack"}

\* Every variable has its type, and a job is requeued at most RetryLimit times.
TypeOK ==
    /\ token \in Ids \cup {None} /\ stale \in BOOLEAN
    /\ leases \subseteq [ref : Ids, owner : Ids, parked : BOOLEAN]
    /\ cap \in [Actors -> Ids \cup {None}] /\ consumed \subseteq Ids
    /\ msg \in [Slots -> [st : {"free", "pending", "processing"}, hop : 1 .. 2,
                          retry : 0 .. RetryLimit, ref : Ids \cup {None}, owner : Ids \cup {None}]]
    /\ pc \in [Actors -> Steps]
    /\ task \in {"none", "open", "cancelling", "failed", "done"} /\ result \in BOOLEAN
    /\ restarts \in 0 .. MaxRestarts

\* Every lease of the registry is backed by the token in the store, whatever was
\* handed off, adopted, released, interrupted or recovered: two leases never belong
\* to different owners.
LeaseBacked == \A e \in leases : token = e.owner

Working == {a \in Actors : \E e \in leases : e.ref = cap[a] /\ ~e.parked}

\* Until the process restarts, the lease that travels from the request through the
\* queues has one holder at a time.  After a restart the jobs of two messages that
\* carry the same owner id may both adopt the token they find.
OneHolderUntilRestart == restarts = 0 => Cardinality(Working) <= 1

Carried(e) == {s \in Slots : msg[s].st # "free" /\ msg[s].ref = e.ref}

\* A parked lease whose message waits in the queue is adopted.
ParkedAdopted ==
    (\E e \in leases : e.parked /\ \E s \in Carried(e) : msg[s].st = "pending")
      ~> (\A e \in leases : ~e.parked) \/ task = "cancelling"
=============================================================================
