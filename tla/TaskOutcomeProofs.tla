------------------------- MODULE TaskOutcomeProofs -------------------------
(***************************************************************************)
(* What the end of a task means, for any number of messages, restarts and  *)
(* faults: that a cancelled task admits no handler and, when nobody asks   *)
(* for cancellation, that the outcome comes after all work, before the     *)
(* last acknowledgement, and with the errors of the descendants.           *)
(***************************************************************************)
EXTENDS TaskWorkProofs

-----------------------------------------------------------------------------
(* The two ways in which an update of the record is prepared.              *)

\* Actor a has taken the lock and goes on at l when the record is published.
Prepared(a, l) ==
  /\ upd = None /\ upd' # None /\ upd' \in Updates
  /\ upd'.by = a /\ upd'.then = l /\ upd'.stored = FALSE
  /\ pc' = [pc EXCEPT ![a] = "store"]

LEMMA UpdateFacts ==
  ASSUME TypeOK, NEW a \in Actors, NEW rec \in Records, NEW l \in PCs, Update(a, rec, l)
  PROVE  Prepared(a, l) /\ upd'.rec = rec
  <1>1. upd' = [by |-> a, rec |-> rec, then |-> l, stored |-> FALSE] /\ upd = None
        /\ pc' = [pc EXCEPT ![a] = "store"]
    BY DEF Update, Goto
  <1>2. upd' \in Updates
    BY <1>1 DEF Updates
  <1> QED BY <1>1, <1>2, RecordAssumption DEF Prepared

\* A record with a result, an error or a terminal status.
HasOutcome(rec) == rec # None /\ (rec.status \in Terminal \/ rec.result \/ rec.error)

LEMMA RecordOutcomeFacts ==
  ASSUME TypeOK, RecordInv, NEW a \in Actors, NEW res \in BOOLEAN, NEW err \in BOOLEAN,
         NEW l \in PCs, _record_outcome(a, res, err, l)
  PROVE  /\ upd = None /\ ret' = [ret EXCEPT ![a] = l]
         /\ \/ /\ Prepared(a, "finalize") /\ store # None /\ store.status \in Open
               /\ upd'.rec.status = store.status
               /\ HasOutcome(store) \/ res \/ err => HasOutcome(upd'.rec)
            \/ /\ upd' = None /\ pc' = [pc EXCEPT ![a] = "finalize"]
               /\ store = None \/ store.status \notin Open
  <1>1. upd = None /\ ret' = [ret EXCEPT ![a] = l]
    BY DEF _record_outcome, Update
  <1>2. Rec = store
    BY <1>1, RecFacts
  <1>3. CASE In(Open)
    <2> DEFINE rec == [status |-> Rec.status, result |-> Rec.result \/ res,
                       error |-> Rec.error \/ err \/ failure]
    <2>1. Rec # None /\ Rec.status \in Open
      BY <1>3 DEF In
    <2>2. Rec.status \in Statuses /\ Rec.result \in BOOLEAN /\ Rec.error \in BOOLEAN
      BY <2>1, RecType
    <2>3. (Rec.result \/ res) \in BOOLEAN /\ (Rec.error \/ err \/ failure) \in BOOLEAN
      OBVIOUS
    <2>4. rec \in Records
      BY <2>2, <2>3 DEF Records
    <2>5. Update(a, rec, "finalize") /\ "finalize" \in PCs
      BY <1>3 DEF _record_outcome, PCs
    <2>6. Prepared(a, "finalize") /\ upd'.rec = rec
      BY <2>4, <2>5, UpdateFacts
    <2>7. rec.status = Rec.status /\ rec.result = (Rec.result \/ res) /\ rec.error = (Rec.error \/ err \/ failure)
      OBVIOUS
    <2>8. rec # None
      BY <2>4, RecordAssumption
    <2> HIDE DEF rec
    <2>9. HasOutcome(Rec) \/ res \/ err => HasOutcome(rec)
      BY <2>7, <2>8, Zenon DEF HasOutcome
    <2> QED BY <1>1, <1>2, <2>1, <2>6, <2>7, <2>9
  <1>4. CASE ~In(Open)
    BY <1>1, <1>2, <1>4 DEF _record_outcome, In, Goto
  <1> QED BY <1>3, <1>4

\* A finalize goes on, or prepares a terminal record once no work is left.
LEMMA FinalizeFacts ==
  ASSUME TypeOK, RecordInv, NEW a \in Actors, _finalize_task(a)
  PROVE  /\ pc[a] = "finalize"
         /\ UNCHANGED <<store, cache, queue, work, active, failure, ret, send, interrupts, bodyCancel,
                        crashes, faults, bad>>
         /\ \/ /\ upd' = upd /\ pc' = [pc EXCEPT ![a] = ret[a]]
               /\ HasWork \/ (upd = None /\ ~(HasOutcome(store) /\ store.status \in Open))
            \/ /\ Prepared(a, ret[a]) /\ work = {} /\ active = {}
               /\ store # None /\ store.status \in Open \cup {"cancelling"}
               /\ upd'.rec.status \in Terminal
               /\ upd'.rec.status = "cancelled" => store.status = "cancelling"
               /\ upd'.rec.status = "completed" => ~failure
  <1>1. /\ pc[a] = "finalize"
        /\ UNCHANGED <<store, cache, queue, work, active, failure, ret, send, interrupts, bodyCancel,
                       crashes, faults, bad>>
    BY DEF _finalize_task, index, bounds
  <1>2. ret[a] \in PCs
    BY DEF TypeOK
  <1>3. CASE (HasWork \/ (upd = None /\ Outcome = None)) /\ Goto(a, ret[a]) /\ UNCHANGED upd
    <2>1. CASE HasWork
      BY <1>1, <1>3, <2>1 DEF Goto
    <2>2. CASE upd = None /\ Outcome = None
      <3>1. Rec = store
        BY <2>2, RecFacts
      <3>2. ~(HasOutcome(store) /\ store.status \in Open)
        <4> SUFFICES ASSUME HasOutcome(store), store.status \in Open PROVE FALSE
          OBVIOUS
        <4>1. In(Open) /\ ~In({"cancelling"}) /\ Rec.status \notin Terminal
          BY <3>1 DEF In, HasOutcome, Open, Terminal
        <4>2. Rec.result \/ Rec.error
          BY <3>1, <4>1 DEF HasOutcome
        <4>3. Outcome \in {"failed", "completed"}
          BY <4>1, <4>2 DEF Outcome
        <4>4. Outcome # None
          BY <4>3, RecordAssumption DEF Statuses, Terminal
        <4> QED BY <2>2, <4>4
      <3> QED BY <1>1, <1>3, <2>2, <3>2 DEF Goto
    <2> QED BY <1>3, <2>1, <2>2
  <1>4. CASE ~HasWork /\ Outcome # None /\ Update(a, Finalized, ret[a])
    <2>1. upd = None /\ Rec = store
      BY <1>4, RecFacts DEF Update
    <2>2. Rec # None /\ Finalized \in Records
      BY <1>4, FinalizedType
    <2>3. Prepared(a, ret[a]) /\ upd'.rec = Finalized
      BY <1>2, <1>4, <2>2, UpdateFacts
    <2>4. work = {} /\ active = {}
      BY <1>4 DEF HasWork
    <2>5. Finalized.status = Outcome
      BY DEF Finalized
    <2>6. /\ Rec.status \in Open \cup {"cancelling"} /\ Outcome \in Terminal
          /\ Outcome = "cancelled" => Rec.status = "cancelling"
          /\ Outcome = "completed" => ~failure
      BY <1>4 DEF Outcome, In, Terminal
    <2> QED BY <1>1, <2>1, <2>2, <2>3, <2>4, <2>5, <2>6
  <1> QED BY <1>3, <1>4 DEF _finalize_task

-----------------------------------------------------------------------------
(* Without cancellation: where the actors are.                             *)

\* Nobody asks for cancellation.
Uncancelled ==
  /\ pc["canceller"] = "idle" /\ interrupts = {} /\ bodyCancel = FALSE
  /\ store # None => store.status \notin {"cancelling", "cancelled"}
  /\ cache # None => cache.status \notin {"cancelling", "cancelled"}
  /\ upd # None => upd.rec.status \notin {"cancelling", "cancelled"}

WorkerPlaces   == {"off", "got", "enter", "run", "ack", "finalize", "store", "write", "rollback", "dead"}
BodyPlaces     == {"off", "check", "start", "work", "failing", "wait", "return", "returnerr", "raise",
                   "finalize", "store"}
ProducerPlaces == {"create", "register", "send", "fail", "done", "finalize", "store"}

\* Where each actor may be, and where it goes on after a finalize.
PlaceInv ==
  /\ \A w \in Works : pc[w] \in WorkerPlaces /\ (pc[w] = "finalize" => ret[w] = "write")
  /\ pc["body"] \in BodyPlaces
  /\ pc["body"] = "finalize" => ret["body"] \in {"wait", "return", "returnerr"}
  /\ pc["producer"] \in ProducerPlaces
  /\ pc["producer"] = "finalize" => ret["producer"] \in {"done", "fail"}
  /\ \A a \in Actors : pc[a] = "store" => upd # None /\ upd.by = a

\* Who may be updating the record, with what, and where it goes on.
UpdateInv ==
  upd # None =>
    /\ upd.by # "canceller"
    /\ upd.by \in Works => upd.then = "write" /\ upd.rec.status \in Terminal
    /\ upd.by = "body" => \/ upd.then = "work"
                          \/ upd.then = "finalize" /\ ret["body"] \in {"wait", "return", "returnerr"}
                          \/ upd.then \in {"wait", "return", "returnerr"}
    /\ upd.by = "producer" => \/ upd.then = "register" /\ upd.rec.status = "pending"
                              \/ upd.then = "finalize" /\ ret["producer"] = "done"
                              \/ upd.then \in {"done", "fail"}

Plain == Uncancelled /\ PlaceInv /\ UpdateInv

\* What Persist leaves in the update.
LEMMA PersistFacts ==
  ASSUME TypeOK, Persist
  PROVE  /\ upd # None /\ upd.stored = FALSE /\ upd' # None /\ upd' \in Updates /\ store' = upd.rec
         /\ upd'.by = upd.by /\ upd'.rec = upd.rec /\ upd'.then = upd.then /\ upd'.stored = TRUE
         /\ UNCHANGED <<cache, queue, work, active, failure, pc, ret, send, interrupts, bodyCancel,
                        crashes, faults, bad>>
  BY RecordAssumption DEF Persist, TypeOK, Updates, index, bounds

LEMMA PlainProducer ==
  ASSUME TypeOK, RecordInv, ControlInv, Plain, Producer
  PROVE  Plain'
  <1> USE DistinctActors
  <1>1. CASE CreateTask
    <2>1. [status |-> "pending", result |-> FALSE, error |-> FALSE] \in Records /\ "register" \in PCs
      BY DEF Records, Statuses, PCs
    <2>2. Prepared("producer", "register")
          /\ upd'.rec = [status |-> "pending", result |-> FALSE, error |-> FALSE]
      BY <1>1, <2>1, UpdateFacts DEF CreateTask
    <2>3. UNCHANGED <<store, cache, ret, interrupts, bodyCancel>>
      BY <1>1 DEF CreateTask
    <2> QED BY <2>2, <2>3 DEF Plain, Uncancelled, PlaceInv, UpdateInv, Prepared, TypeOK,
              WorkerPlaces, BodyPlaces, ProducerPlaces
  <1>2. CASE RegisterRoot
    <2>1. UNCHANGED <<store, cache, upd, ret, interrupts, bodyCancel>> /\ pc["producer"] = "register"
          /\ \/ pc' = [pc EXCEPT !["producer"] = "send"] \/ pc' = [pc EXCEPT !["producer"] = "fail"]
      BY <1>2 DEF RegisterRoot, record, Goto
    <2> QED BY <2>1 DEF Plain, Uncancelled, PlaceInv, UpdateInv, ControlInv, LabelInv, TypeOK,
              WorkerPlaces, BodyPlaces, ProducerPlaces
  <1>3. CASE SendRoot
    <2>1. UNCHANGED <<store, cache, upd, interrupts, bodyCancel>> /\ pc["producer"] = "send"
          /\ \/ ret' = ret /\ pc' = [pc EXCEPT !["producer"] = "done"]
             \/ ret' = ret /\ pc' = [pc EXCEPT !["producer"] = "fail"]
             \/ ret' = [ret EXCEPT !["producer"] = "fail"] /\ pc' = [pc EXCEPT !["producer"] = "finalize"]
      BY <1>3 DEF SendRoot, record, discard, Goto
    <2>2. upd # None => upd.by # "producer"
      BY <2>1 DEF ControlInv, LabelInv
    <2> QED BY <2>1, <2>2 DEF Plain, Uncancelled, PlaceInv, UpdateInv, TypeOK,
              WorkerPlaces, BodyPlaces, ProducerPlaces
  <1>4. CASE FailTask
    <2>1. UNCHANGED <<store, cache, interrupts, bodyCancel>>
          /\ _record_outcome("producer", FALSE, TRUE, "done") /\ "done" \in PCs
      BY <1>4 DEF FailTask, PCs
    <2>2. /\ upd = None /\ ret' = [ret EXCEPT !["producer"] = "done"]
          /\ \/ Prepared("producer", "finalize") /\ upd'.rec.status = store.status /\ store # None
             \/ upd' = None /\ pc' = [pc EXCEPT !["producer"] = "finalize"]
      BY <2>1, RecordOutcomeFacts
    <2> QED BY <2>1, <2>2 DEF Plain, Uncancelled, PlaceInv, UpdateInv, Prepared, TypeOK,
              WorkerPlaces, BodyPlaces, ProducerPlaces
  <1> QED BY <1>1, <1>2, <1>3, <1>4 DEF Producer

LEMMA PlainRecord ==
  ASSUME TypeOK, RecordInv, ControlInv, Plain,
         Persist \/ Publish \/ StoreFails \/ _evict_expired \/ \E a \in Actors : _finalize_task(a)
  PROVE  Plain'
  <1> USE DistinctActors
  <1>1. CASE Persist
    BY <1>1, PersistFacts DEF Plain, Uncancelled, PlaceInv, UpdateInv
  <1>2. CASE Publish
    <2>1. /\ UNCHANGED <<store, ret, interrupts, bodyCancel>> /\ upd # None /\ upd' = None /\ cache' = upd.rec
          /\ pc' = [pc EXCEPT ![upd.by] = upd.then]
      BY <1>2 DEF Publish, Goto
    <2>2. upd.by \in Actors /\ pc[upd.by] = "store"
      BY <2>1 DEF TypeOK, Updates, ControlInv, LabelInv
    <2>3. \A a \in Actors : pc'[a] = IF a = upd.by THEN upd.then ELSE pc[a]
      BY <2>1, <2>2 DEF TypeOK
    <2>4. upd.then # "store" /\ (upd.by \in Works => upd.then = "write") /\ upd.by # "canceller"
      BY <2>1, <2>2 DEF Plain, UpdateInv, Actors
    <2>5. PlaceInv'
      BY <2>1, <2>2, <2>3, <2>4 DEF Plain, PlaceInv, UpdateInv, WorkerPlaces, BodyPlaces, ProducerPlaces
    <2> QED BY <2>1, <2>3, <2>4, <2>5 DEF Plain, Uncancelled, UpdateInv
  <1>3. CASE StoreFails
    <2>1. UNCHANGED <<store, cache, ret, interrupts, bodyCancel>> /\ upd # None /\ upd' = None
      BY <1>3 DEF StoreFails
    <2>2. upd.by \in Actors /\ upd.by # "canceller" /\ pc[upd.by] = "store"
      BY <2>1 DEF TypeOK, Updates, Plain, UpdateInv, ControlInv, LabelInv
    <2>3. PICK q \in {"done", "raise", "failing", "rollback"} :
            /\ pc' = [pc EXCEPT ![upd.by] = q]
            /\ upd.by = "producer" => q = "done"
            /\ upd.by = "body" => q \in {"raise", "failing"}
            /\ upd.by \in Works => q = "rollback"
      BY <1>3, <2>2 DEF StoreFails, Goto
    <2>4. \A a \in Actors : pc'[a] = IF a = upd.by THEN q ELSE pc[a]
      BY <2>2, <2>3 DEF TypeOK
    <2>5. PlaceInv'
      BY <2>1, <2>2, <2>3, <2>4 DEF Plain, PlaceInv, WorkerPlaces, BodyPlaces, ProducerPlaces
    <2> QED BY <2>1, <2>2, <2>4, <2>5 DEF Plain, Uncancelled, UpdateInv
  <1>4. CASE _evict_expired
    BY <1>4 DEF _evict_expired, Plain, Uncancelled, PlaceInv, UpdateInv
  <1>5. CASE \E a \in Actors : _finalize_task(a)
    <2>1. PICK a \in Actors : _finalize_task(a)
      BY <1>5
    <2>2. UNCHANGED <<store, cache, ret, interrupts, bodyCancel>> /\ pc[a] = "finalize"
      BY <2>1, FinalizeFacts
    <2>3. a # "canceller" /\ (a \in Works => ret[a] = "write")
          /\ (a = "body" => ret[a] \in {"wait", "return", "returnerr"})
          /\ (a = "producer" => ret[a] \in {"done", "fail"})
      BY <2>2 DEF Plain, PlaceInv, Uncancelled
    <2>4. CASE upd' = upd /\ pc' = [pc EXCEPT ![a] = ret[a]]
      <3>1. \A b \in Actors : pc'[b] = IF b = a THEN ret[a] ELSE pc[b]
        BY <2>4 DEF TypeOK
      <3>2. ret[a] # "store" /\ ret[a] # "finalize"
        BY <2>3 DEF Actors
      <3>3. PlaceInv'
        BY <2>2, <2>3, <2>4, <3>1, <3>2 DEF Plain, PlaceInv, WorkerPlaces, BodyPlaces, ProducerPlaces
      <3>4. Uncancelled' /\ UpdateInv'
        BY <2>2, <2>3, <2>4, <3>1 DEF Plain, Uncancelled, UpdateInv
      <3> QED BY <3>3, <3>4 DEF Plain
    <2>5. CASE /\ Prepared(a, ret[a]) /\ upd'.rec.status \in Terminal /\ store # None
               /\ upd'.rec.status = "cancelled" => store.status = "cancelling"
      <3>1. \A b \in Actors : pc'[b] = IF b = a THEN "store" ELSE pc[b]
        BY <2>5 DEF Prepared, TypeOK
      <3>2. PlaceInv'
        BY <2>2, <2>3, <2>5, <3>1 DEF Plain, PlaceInv, Prepared, WorkerPlaces, BodyPlaces, ProducerPlaces
      <3>3. UpdateInv'
        BY <2>2, <2>3, <2>5 DEF UpdateInv, Prepared
      <3> QED BY <2>2, <2>3, <2>5, <3>1, <3>2, <3>3 DEF Plain, Uncancelled, Terminal
    <2> QED BY <2>1, <2>4, <2>5, FinalizeFacts
  <1> QED BY <1>1, <1>2, <1>3, <1>4, <1>5

\* Without cancellation these are the steps of a worker and of the body.
WorkerPlain(w) ==
  \/ dequeue_raw(w) \/ process_dequeued(w) \/ register_active(w) \/ HandlerReturns(w) \/ prepare_ack(w)
  \/ ack(w) \/ rollback_ack(w) \/ Sent(w) \/ HandlerRaises(w) \/ AckFails(w)

BodyPlain ==
  \/ BodyCheck \/ BodyStart \/ BodyEnds \/ BodyFails \/ wait_for_descendants \/ BodyReturns \/ BodyRaises

LEMMA PlainSteps ==
  ASSUME ~Cancellable, TypeOK, Plain, Next
  PROVE  \/ Producer \/ Persist \/ Publish \/ StoreFails \/ _evict_expired
         \/ (\E a \in Actors : _finalize_task(a))
         \/ (\E w \in Works : WorkerPlain(w)) \/ (\E h, w \in Works : Enqueue(h, w))
         \/ BodyPlain \/ Restart
  <1>1. ~cancel /\ ~cancel_active
    BY DEF cancel, cancel_active, Plain, Uncancelled
  <1>2. \A w \in Works : Worker(w) => WorkerPlain(w)
    BY DEF Worker, WorkerPlain, on_cancelled, InterruptHandler, InterruptAck, Plain, Uncancelled, PlaceInv,
       WorkerPlaces
  <1>3. Body => BodyPlain
    BY DEF Body, BodyPlain, BodyUnwinds, BodyUnwound, Plain, Uncancelled, PlaceInv, BodyPlaces
  <1> QED BY <1>1, <1>2, <1>3 DEF Next, Progress, Environment, WorkerPlain, BodyPlain

\* Where a step of a worker leads.
Step(a, p, q) == pc[a] = p /\ pc' = [pc EXCEPT ![a] = q]

LEMMA WorkerFacts ==
  ASSUME TypeOK, Plain, NEW w \in Works, WorkerPlain(w), ~register_active(w)
  PROVE  /\ UNCHANGED <<store, cache, upd, interrupts, bodyCancel, crashes>>
         /\ \A a \in Actors : a # w => ret'[a] = ret[a]
         /\ \/ dequeue_raw(w) /\ Step(w, "off", "got") /\ ret' = ret
            \/ process_dequeued(w) /\ Step(w, "got", "enter") /\ ret' = ret
            \/ HandlerReturns(w) /\ Step(w, "run", "ack") /\ ret' = ret
            \/ HandlerRaises(w) /\ Step(w, "run", "dead") /\ ret' = ret
            \/ prepare_ack(w) /\ Step(w, "ack", "finalize") /\ ret'[w] = "write"
            \/ prepare_ack(w) /\ Step(w, "ack", "write") /\ ret' = ret
            \/ prepare_ack(w) /\ Step(w, "ack", "writeonly") /\ w \notin work /\ ret' = ret
            \/ ack(w) /\ Step(w, "write", "off") /\ ret' = ret
            \/ AckFails(w) /\ Step(w, "write", "rollback") /\ ret' = ret
            \/ rollback_ack(w) /\ Step(w, "rollback", "dead") /\ ret' = ret
            \/ Sent(w) /\ pc' = pc /\ ret' = ret
  <1> USE DistinctActors
  <1>1. ~is_cancellation_requested
    BY DEF Plain, Uncancelled, is_cancellation_requested
  <1>2. pc[w] \notin {"late", "writeonly"} /\ w \in Actors
    BY DEF Plain, PlaceInv, WorkerPlaces
  <1>3. CASE dequeue_raw(w)
    BY <1>3 DEF dequeue_raw, Step, Goto, record, bounds
  <1>4. CASE process_dequeued(w)
    BY <1>1, <1>4 DEF process_dequeued, Step, Goto, record, bounds
  <1>5. CASE HandlerReturns(w)
    BY <1>2, <1>5 DEF HandlerReturns, Step, Goto, record, bounds
  <1>6. CASE HandlerRaises(w)
    BY <1>6 DEF HandlerRaises, Step, Goto, record, bounds
  <1>7. CASE prepare_ack(w)
    BY <1>2, <1>7 DEF prepare_ack, discard, Step, Goto, record, bounds, TypeOK
  <1>8. CASE ack(w)
    <2>1. pc[w] = "write" /\ UNCHANGED <<store, cache, upd, bodyCancel, crashes, ret>> /\ Step(w, "write", "off")
      BY <1>2, <1>8 DEF ack, Step, Goto, record, bounds
    <2>2. interrupts' = {} /\ interrupts = {}
      BY <1>8 DEF ack, Plain, Uncancelled
    <2> QED BY <1>8, <2>1, <2>2
  <1>9. CASE AckFails(w)
    BY <1>2, <1>9 DEF AckFails, Step, Goto, record, bounds
  <1>10. CASE rollback_ack(w)
    BY <1>10 DEF rollback_ack, Step, Goto, record, bounds
  <1>11. CASE Sent(w)
    BY <1>11 DEF Sent, record, bounds
  <1> QED BY <1>3, <1>4, <1>5, <1>6, <1>7, <1>8, <1>9, <1>10, <1>11 DEF WorkerPlain

LEMMA EntersFacts ==
  ASSUME TypeOK, Plain, NEW w \in Works, register_active(w)
  PROVE  /\ UNCHANGED <<store, cache, upd, queue, work, failure, ret, send, interrupts, bodyCancel,
                        crashes, faults, bad>>
         /\ pc[w] = "enter" /\ active' = active \cup {w}
         /\ \A a \in Actors : pc'[a] = IF a = w THEN "run" ELSE IF a = "body" /\ w = Root THEN "check" ELSE pc[a]
  <1>1. ~is_cancellation_requested
    BY DEF Plain, Uncancelled, is_cancellation_requested
  <1> QED BY <1>1, DistinctActors DEF register_active, record, bounds

LEMMA PlainWorker ==
  ASSUME TypeOK, RecordInv, ControlInv, Plain, NEW w \in Works, WorkerPlain(w),
         pc[w] = "ack" => w \in work
  PROVE  Plain'
  <1> USE DistinctActors
  <1>1. CASE register_active(w)
    <2>1. /\ UNCHANGED <<store, cache, upd, ret, interrupts, bodyCancel>>
          /\ \A a \in Actors : pc'[a] = IF a = w THEN "run" ELSE IF a = "body" /\ w = Root THEN "check" ELSE pc[a]
      BY <1>1, EntersFacts
    <2>2. PlaceInv'
      BY <2>1 DEF Plain, PlaceInv, WorkerPlaces, BodyPlaces
    <2> QED BY <2>1, <2>2 DEF Plain, Uncancelled, UpdateInv
  <1>2. CASE ~register_active(w)
    <2>1. /\ UNCHANGED <<store, cache, upd, interrupts, bodyCancel>>
          /\ \A a \in Actors : a # w => ret'[a] = ret[a]
      BY <1>2, WorkerFacts
    <2>2. /\ \A a \in Actors : a # w => pc'[a] = pc[a]
          /\ pc'[w] \in WorkerPlaces /\ (pc'[w] = "finalize" => ret'[w] = "write")
          /\ pc'[w] # "store" \/ pc'[w] = pc[w]
      BY <1>2, WorkerFacts DEF Step, TypeOK, WorkerPlaces, Plain, PlaceInv
    <2>3. PlaceInv'
      BY <2>1, <2>2 DEF Plain, PlaceInv
    <2> QED BY <2>1, <2>2, <2>3 DEF Plain, Uncancelled, UpdateInv
  <1> QED BY <1>1, <1>2

\* What the steps of the body do, for a task that has a record.
LEMMA BodyFacts ==
  ASSUME TypeOK, RecordInv, Plain, BodyPlain, store # None, pc["body"] # "off" => pc[Root] = "run"
  PROVE  /\ UNCHANGED <<store, queue, work, send, interrupts, bodyCancel, crashes, faults, bad>>
         /\ cache' \in {cache, store} /\ \A a \in Actors : a # "body" => ret'[a] = ret[a]
         /\ pc["body"] = "work" => send[Root] = None
         /\ \/ /\ UNCHANGED <<upd, ret, active, failure>> /\ HasOutcome(store)
               /\ Step("body", "check", "return") \/ Step("body", "check", "wait")
            \/ /\ UNCHANGED <<upd, ret, active, failure>>
               /\ \/ Step("body", "check", "start") \/ Step("body", "start", "work")
                  \/ \E p \in {"start", "work", "wait"} : Step("body", p, "failing")
            \/ /\ UNCHANGED <<ret, active, failure>> /\ pc["body"] = "start" /\ Prepared("body", "work")
               /\ upd'.rec.status = "running" /\ (HasOutcome(store) => HasOutcome(upd'.rec))
            \/ /\ UNCHANGED <<active, failure>> /\ pc["body"] \in {"work", "failing", "wait"}
               /\ ret'["body"] \in {"wait", "return", "returnerr"} /\ upd = None
               /\ \/ Prepared("body", "finalize") /\ upd'.rec.status = store.status /\ HasOutcome(upd'.rec)
                     /\ store.status \in Open
                  \/ upd' = None /\ Step("body", pc["body"], "finalize") /\ HasOutcome(store)
            \/ /\ UNCHANGED <<upd, ret>> /\ pc["body"] \in {"return", "returnerr", "raise"}
               /\ active' = active \ {Root} /\ (failure => failure') /\ pc[Root] = "run"
               /\ \A a \in Actors : pc'[a] = IF a = "body" THEN "off"
                                             ELSE IF a = Root THEN IF pc["body"] = "raise" THEN "dead" ELSE "ack"
                                             ELSE pc[a]
  <1> USE DistinctActors
  <1>o. store.status \in Terminal \/ store.status \in Open
    BY DEF TypeOK, Records, Statuses, Plain, Uncancelled, Open
  <1>1. CASE BodyCheck
    <2>1. /\ upd = None /\ cache' = Rec /\ pc["body"] = "check"
          /\ UNCHANGED <<store, upd, queue, work, active, failure, ret, send, interrupts, bodyCancel,
                         crashes, faults, bad>>
      BY <1>1 DEF BodyCheck, index, bounds
    <2>2. Rec = store
      BY <2>1, RecFacts
    <2>3. \/ store.status \in Terminal /\ Step("body", "check", "return")
          \/ store.result /\ Step("body", "check", "wait")
          \/ Step("body", "check", "start")
      BY <1>1, <1>o, <2>1, <2>2 DEF BodyCheck, Goto, Step, In
    <2> QED BY <2>1, <2>2, <2>3 DEF HasOutcome
  <1>2. CASE BodyStart
    <2>1. /\ upd = None /\ pc["body"] = "start"
          /\ UNCHANGED <<store, cache, queue, work, active, failure, ret, send, interrupts, bodyCancel,
                         crashes, faults, bad>>
      BY <1>2 DEF BodyStart, Update, index, bounds
    <2>2. CASE In(Open) /\ Update("body", [Rec EXCEPT !.status = "running"], "work")
      <3> DEFINE rec == [Rec EXCEPT !.status = "running"]
      <3>1. Rec = store /\ Rec \in Records /\ "work" \in PCs /\ Rec.status \notin Terminal
        BY <2>1, <2>2, RecFacts, RecType DEF In, PCs, Open, Terminal
      <3>2. /\ rec \in Records /\ rec.status = "running" /\ rec.result = Rec.result /\ rec.error = Rec.error
        BY <3>1 DEF Records, Statuses
      <3>3. rec # None
        BY <3>2, RecordAssumption
      <3>4. Prepared("body", "work") /\ upd'.rec = rec
        BY <2>2, <3>1, <3>2, UpdateFacts
      <3> HIDE DEF rec
      <3>5. HasOutcome(Rec) => HasOutcome(rec)
        BY <3>1, <3>2, <3>3 DEF HasOutcome
      <3> QED BY <2>1, <3>1, <3>2, <3>4, <3>5
    <2>3. CASE upd = None /\ ~In(Open) /\ Goto("body", "work") /\ UNCHANGED upd
      BY <2>1, <2>3 DEF Goto, Step
    <2> QED BY <1>2, <2>2, <2>3 DEF BodyStart
  <1>3. CASE BodyEnds \/ BodyFails \/ wait_for_descendants
    <2>1. /\ UNCHANGED <<store, cache, queue, work, active, failure, send, interrupts, bodyCancel,
                         crashes, faults, bad>>
          /\ pc["body"] \in {"work", "failing", "wait"} /\ (pc["body"] = "work" => send[Root] = None)
      BY <1>3 DEF BodyEnds, BodyFails, wait_for_descendants, index, bounds
    <2>2. PICK l \in {"wait", "return", "returnerr"} :
            _record_outcome("body", TRUE, FALSE, l) \/ _record_outcome("body", FALSE, TRUE, l)
      BY <1>3 DEF BodyEnds, BodyFails, wait_for_descendants
    <2>3. l \in PCs
      BY DEF PCs
    <2>4. /\ upd = None /\ ret' = [ret EXCEPT !["body"] = l]
          /\ \/ /\ Prepared("body", "finalize") /\ store.status \in Open
                /\ upd'.rec.status = store.status /\ HasOutcome(upd'.rec)
             \/ /\ upd' = None /\ pc' = [pc EXCEPT !["body"] = "finalize"]
                /\ store.status \notin Open
      BY <2>2, <2>3, RecordOutcomeFacts
    <2>5. store.status \notin Open => HasOutcome(store)
      BY <1>o DEF HasOutcome
    <2>6. ret'["body"] = l /\ \A a \in Actors : a # "body" => ret'[a] = ret[a]
      BY <2>4 DEF TypeOK
    <2> QED BY <2>1, <2>4, <2>5, <2>6 DEF Step
  <1>4. CASE BodyRaises
    <2>1. /\ UNCHANGED <<store, cache, upd, queue, work, active, failure, ret, send, interrupts, bodyCancel,
                         crashes, faults, bad>>
          /\ pc["body"] \in {"start", "work", "wait"} /\ send[Root] = None
          /\ Step("body", pc["body"], "failing")
      BY <1>4 DEF BodyRaises, record, index, bounds, Goto, Step
    <2> QED BY <2>1
  <1>5. CASE BodyReturns
    BY <1>5 DEF BodyReturns, record, bounds, TypeOK
  <1> QED BY <1>1, <1>2, <1>3, <1>4, <1>5 DEF BodyPlain

LEMMA PlainBody ==
  ASSUME TypeOK, RecordInv, ControlInv, Plain, BodyPlain, store # None, pc["body"] # "off" => pc[Root] = "run"
  PROVE  Plain'
  <1> USE DistinctActors
  <1>1. /\ UNCHANGED <<store, interrupts, bodyCancel>>
        /\ cache' \in {cache, store} /\ \A a \in Actors : a # "body" => ret'[a] = ret[a]
    BY BodyFacts
  <1>2. CASE /\ UNCHANGED <<upd, ret>>
             /\ \E p \in {"check", "start", "work", "wait"}, q \in {"return", "wait", "start", "work", "failing"} :
                  Step("body", p, q)
    <2>1. PICK p \in {"check", "start", "work", "wait"}, q \in {"return", "wait", "start", "work", "failing"} :
            Step("body", p, q)
      BY <1>2
    <2>2. \A a \in Actors : pc'[a] = IF a = "body" THEN q ELSE pc[a]
      BY <2>1 DEF Step, TypeOK
    <2>3. PlaceInv'
      BY <1>2, <2>1, <2>2 DEF Plain, PlaceInv, BodyPlaces
    <2> QED BY <1>1, <1>2, <2>2, <2>3 DEF Plain, Uncancelled, UpdateInv
  <1>3. CASE /\ ret' = ret /\ Prepared("body", "work") /\ upd'.rec.status = "running"
    <2>1. \A a \in Actors : pc'[a] = IF a = "body" THEN "store" ELSE pc[a]
      BY <1>3 DEF Prepared, TypeOK
    <2>2. PlaceInv' /\ UpdateInv'
      BY <1>3, <2>1 DEF Plain, PlaceInv, UpdateInv, BodyPlaces, Prepared
    <2> QED BY <1>1, <1>3, <2>1, <2>2 DEF Plain, Uncancelled
  <1>4. CASE /\ ret'["body"] \in {"wait", "return", "returnerr"}
             /\ Prepared("body", "finalize") /\ upd'.rec.status = store.status
    <2>1. \A a \in Actors : pc'[a] = IF a = "body" THEN "store" ELSE pc[a]
      BY <1>4 DEF Prepared, TypeOK
    <2>2. PlaceInv' /\ UpdateInv'
      BY <1>1, <1>4, <2>1 DEF Plain, PlaceInv, UpdateInv, BodyPlaces, Prepared
    <2> QED BY <1>1, <1>4, <2>1, <2>2 DEF Plain, Uncancelled
  <1>5. CASE /\ ret'["body"] \in {"wait", "return", "returnerr"} /\ upd = None
             /\ upd' = None /\ Step("body", pc["body"], "finalize")
    <2>1. \A a \in Actors : pc'[a] = IF a = "body" THEN "finalize" ELSE pc[a]
      BY <1>5 DEF Step, TypeOK
    <2>2. PlaceInv' /\ UpdateInv'
      BY <1>1, <1>5, <2>1 DEF Plain, PlaceInv, UpdateInv, BodyPlaces
    <2> QED BY <1>1, <1>5, <2>1, <2>2 DEF Plain, Uncancelled
  <1>6. CASE /\ UNCHANGED <<upd, ret>>
             /\ \A a \in Actors : pc'[a] = IF a = "body" THEN "off"
                                           ELSE IF a = Root THEN IF pc["body"] = "raise" THEN "dead" ELSE "ack"
                                           ELSE pc[a]
    <2>1. PlaceInv'
      BY <1>6 DEF Plain, PlaceInv, BodyPlaces, WorkerPlaces
    <2> QED BY <1>1, <1>6, <2>1 DEF Plain, Uncancelled, UpdateInv
  <1>7. \/ /\ UNCHANGED <<upd, ret>>
           /\ \E p \in {"check", "start", "work", "wait"}, q \in {"return", "wait", "start", "work", "failing"} :
                Step("body", p, q)
        \/ /\ ret' = ret /\ Prepared("body", "work") /\ upd'.rec.status = "running"
        \/ /\ ret'["body"] \in {"wait", "return", "returnerr"}
           /\ Prepared("body", "finalize") /\ upd'.rec.status = store.status
        \/ /\ ret'["body"] \in {"wait", "return", "returnerr"} /\ upd = None
           /\ upd' = None /\ Step("body", pc["body"], "finalize")
        \/ /\ UNCHANGED <<upd, ret>>
           /\ \A a \in Actors : pc'[a] = IF a = "body" THEN "off"
                                         ELSE IF a = Root THEN IF pc["body"] = "raise" THEN "dead" ELSE "ack"
                                         ELSE pc[a]
    BY BodyFacts
  <1> QED BY <1>2, <1>3, <1>4, <1>5, <1>6, <1>7

LEMMA PlainRest ==
  ASSUME TypeOK, Plain, Restart \/ UNCHANGED vars \/ \E h, w \in Works : Enqueue(h, w)
  PROVE  Plain'
  <1> USE DistinctActors
  <1>1. CASE Restart
    <2>1. /\ upd' = None /\ interrupts' = {} /\ bodyCancel' = FALSE /\ store' = store /\ cache' \in {store, None}
          /\ \A a \in Actors : pc'[a] = IF a = "producer" THEN "done" ELSE IF a = "canceller" THEN "idle" ELSE "off"
      BY <1>1 DEF Restart
    <2> QED BY <2>1 DEF Plain, Uncancelled, PlaceInv, UpdateInv, WorkerPlaces, BodyPlaces, ProducerPlaces
  <1>2. CASE UNCHANGED vars
    BY <1>2 DEF vars, Plain, Uncancelled, PlaceInv, UpdateInv
  <1>3. CASE \E h, w \in Works : Enqueue(h, w)
    BY <1>3 DEF Enqueue, record, Plain, Uncancelled, PlaceInv, UpdateInv
  <1> QED BY <1>1, <1>2, <1>3

-----------------------------------------------------------------------------
(* Without cancellation: the index and the queue.                          *)

\* The index holds exactly the messages that wait to be taken or whose handler
\* has not left them for acknowledgement; the active ones are those that run.
IndexInv ==
  /\ \A w \in Works :
       /\ w \in work <=> \/ queue[w] \in {"sending", "pending"}
                         \/ pc[w] \in {"got", "enter", "run", "ack", "dead"}
       /\ queue[w] = "processing" <=> pc[w] # "off"
       /\ w \in active <=> pc[w] = "run"
       /\ send[w] # None => Running(w)
       /\ queue[w] = "sending" => (w = Root /\ pc["producer"] = "send") \/ \E h \in Works : send[h] = w
  /\ pc["body"] # "off" <=> pc[Root] = "run"

\* A step that leaves the index alone and the workers where they are.
LEMMA IndexFrame ==
  ASSUME TypeOK, IndexInv, UNCHANGED <<queue, work, active, send>>,
         \A w \in Works : pc'[w] = pc[w] \/ {pc[w], pc'[w]} \subseteq {"finalize", "store", "write", "rollback"},
         pc'["body"] # "off" <=> pc["body"] # "off", pc["body"] = "work" => pc'["body"] = "work" \/ send[Root] = None,
         pc["producer"] # "send"
  PROVE  IndexInv'
  BY DistinctActors DEF IndexInv, Running, TypeOK

LEMMA IndexProducer ==
  ASSUME TypeOK, RecordInv, ControlInv, Plain, IndexInv, Producer
  PROVE  IndexInv'
  <1> USE DistinctActors
  <1>1. CASE CreateTask \/ FailTask
    <2>1. UNCHANGED <<queue, work, active, send>> /\ pc["producer"] # "send"
          /\ \A a \in Actors : a # "producer" => pc'[a] = pc[a]
      BY <1>1 DEF CreateTask, FailTask, Update, _record_outcome, Goto, index, TypeOK
    <2> QED BY <2>1, IndexFrame
  <1>2. CASE RegisterRoot
    <2>1. ~is_cancellation_requested /\ queue[Root] = "new"
      BY <1>2 DEF Plain, Uncancelled, is_cancellation_requested, RegisterRoot, ControlInv, RootInv
    <2>2. /\ queue' = [queue EXCEPT ![Root] = "sending"] /\ work' = work \cup {Root}
          /\ pc' = [pc EXCEPT !["producer"] = "send"] /\ UNCHANGED <<active, send>>
      BY <1>2, <2>1 DEF RegisterRoot, register, Goto
    <2> QED BY <2>1, <2>2 DEF IndexInv, Running, TypeOK
  <1>3. CASE SendRoot
    <2>1. queue[Root] = "sending" /\ pc["producer"] = "send" /\ \A h \in Works : send[h] # Root
      BY <1>3, ActorAssumption DEF SendRoot, ControlInv, RootInv, QueueInv
    <2>2. UNCHANGED <<active, send>> /\ \A a \in Actors : a # "producer" => pc'[a] = pc[a]
      BY <1>3 DEF SendRoot, discard, Goto, TypeOK
    <2>3. \/ queue' = [queue EXCEPT ![Root] = "pending"] /\ work' = work
          \/ queue' = [queue EXCEPT ![Root] = "new"] /\ work' = work \ {Root}
      BY <1>3 DEF SendRoot, discard
    <2> QED BY <2>1, <2>2, <2>3 DEF IndexInv, Running, TypeOK
  <1> QED BY <1>1, <1>2, <1>3 DEF Producer

LEMMA IndexRecord ==
  ASSUME TypeOK, RecordInv, ControlInv, Plain, IndexInv,
         Persist \/ Publish \/ StoreFails \/ _evict_expired \/ \E a \in Actors : _finalize_task(a)
  PROVE  IndexInv'
  <1> USE DistinctActors
  <1>1. UNCHANGED <<queue, work, active, send>>
    BY DEF Persist, Publish, StoreFails, _evict_expired, _finalize_task, index
  <1>2. CASE Persist \/ _evict_expired
    BY <1>1, <1>2 DEF Persist, _evict_expired, IndexInv, Running
  <1>3. CASE Publish \/ StoreFails
    <2>1. upd # None /\ upd.by \in Actors /\ upd.by # "canceller" /\ pc[upd.by] = "store"
      BY <1>3 DEF Publish, StoreFails, TypeOK, Updates, Plain, UpdateInv, ControlInv, LabelInv
    <2>2. PICK q \in PCs : /\ pc' = [pc EXCEPT ![upd.by] = q]
                           /\ upd.by \in Works => q \in {"write", "rollback"}
                           /\ q # "off" /\ q # "send"
      <3>1. CASE Publish
        BY <2>1, <3>1 DEF Publish, Goto, TypeOK, Updates, Plain, UpdateInv, Actors
      <3>2. CASE StoreFails
        BY <2>1, <3>2 DEF StoreFails, Goto, PCs
      <3> QED BY <1>3, <3>1, <3>2
    <2>3. \A a \in Actors : pc'[a] = IF a = upd.by THEN q ELSE pc[a]
      BY <2>1, <2>2 DEF TypeOK
    <2>4. \A w \in Works : pc'[w] = pc[w] \/ {pc[w], pc'[w]} \subseteq {"finalize", "store", "write", "rollback"}
      BY <2>1, <2>2, <2>3
    <2>5. /\ pc'["body"] # "off" <=> pc["body"] # "off"
          /\ pc["body"] = "work" => pc'["body"] = "work"
          /\ pc["producer"] = "send" => pc'["producer"] = "send"
      BY <2>1, <2>2, <2>3
    <2> QED BY <1>1, <2>4, <2>5 DEF IndexInv, Running
  <1>4. CASE \E a \in Actors : _finalize_task(a)
    <2>1. PICK a \in Actors : _finalize_task(a)
      BY <1>4
    <2>2. pc[a] = "finalize" /\ \E q \in {"store", ret[a]} : pc' = [pc EXCEPT ![a] = q]
      BY <2>1, FinalizeFacts DEF Prepared
    <2>3. a # "canceller" /\ (a \in Works => ret[a] = "write") /\ ret[a] # "off" /\ ret[a] # "send"
      BY <2>2 DEF Plain, PlaceInv, Uncancelled, Actors
    <2>4. \A b \in Actors : b # a => pc'[b] = pc[b]
      BY <2>2 DEF TypeOK
    <2>5. pc'[a] \in {"store", ret[a]}
      BY <2>2 DEF TypeOK
    <2>6. \A w \in Works : pc'[w] = pc[w] \/ {pc[w], pc'[w]} \subseteq {"finalize", "store", "write", "rollback"}
      BY <2>2, <2>3, <2>4, <2>5
    <2>7. /\ pc'["body"] # "off" <=> pc["body"] # "off"
          /\ pc["body"] = "work" => pc'["body"] = "work"
          /\ pc["producer"] = "send" => pc'["producer"] = "send"
      BY <2>2, <2>3, <2>4, <2>5
    <2> QED BY <1>1, <2>6, <2>7 DEF IndexInv, Running
  <1> QED BY <1>2, <1>3, <1>4

LEMMA IndexBody ==
  ASSUME TypeOK, RecordInv, ControlInv, Plain, IndexInv, BodyPlain, store # None
  PROVE  IndexInv'
  <1> USE DistinctActors
  <1>1. UNCHANGED <<queue, work, send>> /\ (pc["body"] = "work" => send[Root] = None)
    BY BodyFacts DEF IndexInv
  <1>2. CASE active' = active /\ \E p \in BodyPlaces \ {"off"}, q \in BodyPlaces \ {"off"} : Step("body", p, q)
    <2>1. PICK p \in BodyPlaces \ {"off"}, q \in BodyPlaces \ {"off"} : Step("body", p, q)
      BY <1>2
    <2>2. \A a \in Actors : pc'[a] = IF a = "body" THEN q ELSE pc[a]
      BY <2>1 DEF Step, TypeOK
    <2>3. pc["body"] # "off" /\ pc'["body"] # "off"
      BY <2>1, <2>2 DEF Step
    <2>4. \A w \in Works : pc'[w] = pc[w]
      BY <2>2
    <2>5. pc'["producer"] = pc["producer"]
      BY <2>2
    <2> QED BY <1>1, <1>2, <2>3, <2>4, <2>5 DEF IndexInv, Running
  <1>3. CASE /\ active' = active \ {Root} /\ pc["body"] \in {"return", "returnerr", "raise"}
             /\ \A a \in Actors : pc'[a] = IF a = "body" THEN "off"
                                           ELSE IF a = Root THEN IF pc["body"] = "raise" THEN "dead" ELSE "ack"
                                           ELSE pc[a]
    BY <1>1, <1>3 DEF IndexInv, Running
  <1>4. \/ active' = active /\ \E p \in BodyPlaces \ {"off"}, q \in BodyPlaces \ {"off"} : Step("body", p, q)
        \/ /\ active' = active \ {Root} /\ pc["body"] \in {"return", "returnerr", "raise"}
           /\ \A a \in Actors : pc'[a] = IF a = "body" THEN "off"
                                         ELSE IF a = Root THEN IF pc["body"] = "raise" THEN "dead" ELSE "ack"
                                         ELSE pc[a]
    <2>1. \A l : Prepared("body", l) => Step("body", pc["body"], "store")
      BY DEF Prepared, Step
    <2>2. \A p, q : Step("body", p, q) => pc["body"] = p
      BY DEF Step
    <2>3. pc["body"] # "off" => pc[Root] = "run"
      BY DEF IndexInv
    <2> QED BY <2>1, <2>2, <2>3, BodyFacts DEF BodyPlaces
  <1> QED BY <1>2, <1>3, <1>4

LEMMA IndexWorker ==
  ASSUME TypeOK, RecordInv, ControlInv, Plain, IndexInv, NEW w \in Works, WorkerPlain(w)
  PROVE  IndexInv'
  <1> USE DistinctActors
  <1>1. CASE register_active(w)
    <2>1. /\ UNCHANGED <<queue, work, send>> /\ pc[w] = "enter" /\ active' = active \cup {w}
          /\ \A a \in Actors : pc'[a] = IF a = w THEN "run" ELSE IF a = "body" /\ w = Root THEN "check" ELSE pc[a]
      BY <1>1, EntersFacts
    <2> QED BY <2>1 DEF IndexInv, Running
  <1>2. CASE dequeue_raw(w)
    <2>1. /\ pc[w] = "off" /\ queue[w] = "pending" /\ queue' = [queue EXCEPT ![w] = "processing"]
          /\ pc' = [pc EXCEPT ![w] = "got"] /\ UNCHANGED <<work, active, send>>
      BY <1>2 DEF dequeue_raw, Goto, index
    <2> QED BY <2>1 DEF IndexInv, Running, TypeOK
  <1>3. CASE process_dequeued(w)
    <2>1. UNCHANGED <<queue, work, active, send>> /\ pc[w] = "got" /\ pc' = [pc EXCEPT ![w] = "enter"]
      BY <1>3 DEF process_dequeued, Goto, index, Plain, Uncancelled, is_cancellation_requested
    <2> QED BY <2>1 DEF IndexInv, Running, TypeOK
  <1>4. CASE HandlerReturns(w) \/ HandlerRaises(w)
    <2>1. /\ w # Root /\ send[w] = None /\ pc[w] = "run" /\ active' = active \ {w} /\ UNCHANGED <<queue, work, send>>
          /\ \E q \in {"ack", "dead"} : pc' = [pc EXCEPT ![w] = q]
      BY <1>4 DEF HandlerReturns, HandlerRaises, Goto, Plain, PlaceInv, WorkerPlaces
    <2> QED BY <2>1 DEF IndexInv, Running, TypeOK
  <1>5. CASE prepare_ack(w)
    <2>1. w \in work /\ pc[w] = "ack"
      BY <1>5 DEF prepare_ack, IndexInv
    <2>2. /\ work' = work \ {w} /\ UNCHANGED <<queue, active, send>>
          /\ \E q \in {"write", "finalize"} : pc' = [pc EXCEPT ![w] = q]
      BY <1>5, <2>1 DEF prepare_ack, discard, Goto
    <2> QED BY <2>1, <2>2 DEF IndexInv, Running, TypeOK
  <1>6. CASE ack(w)
    <2>1. /\ pc[w] = "write" /\ queue' = [queue EXCEPT ![w] = "gone"]
          /\ pc' = [pc EXCEPT ![w] = "off"] /\ UNCHANGED <<work, active, send>>
      BY <1>6 DEF ack, Goto, index, Plain, PlaceInv, WorkerPlaces
    <2> QED BY <2>1 DEF IndexInv, Running, TypeOK
  <1>7. CASE AckFails(w)
    <2>1. UNCHANGED <<queue, work, active, send>> /\ pc[w] = "write" /\ pc' = [pc EXCEPT ![w] = "rollback"]
      BY <1>7 DEF AckFails, Goto, index, Plain, PlaceInv, WorkerPlaces
    <2> QED BY <2>1 DEF IndexInv, Running, TypeOK
  <1>8. CASE rollback_ack(w)
    <2>1. /\ UNCHANGED <<queue, active, send>> /\ pc[w] = "rollback" /\ pc' = [pc EXCEPT ![w] = "dead"]
          /\ work' = work \cup {w}
      BY <1>8 DEF rollback_ack, Goto
    <2> QED BY <2>1 DEF IndexInv, Running, TypeOK
  <1>9. CASE Sent(w)
    <2>1. /\ UNCHANGED <<work, active, pc>> /\ send[w] # None
          /\ queue' = [queue EXCEPT ![send[w]] = "pending"] /\ send' = [send EXCEPT ![w] = None]
      BY <1>9 DEF Sent, index
    <2>2. send[w] \in Works /\ queue[send[w]] = "sending"
      BY <2>1 DEF TypeOK, ControlInv, QueueInv
    <2> QED BY <2>1, <2>2 DEF IndexInv, Running, TypeOK
  <1> QED BY <1>1, <1>2, <1>3, <1>4, <1>5, <1>6, <1>7, <1>8, <1>9 DEF WorkerPlain

LEMMA IndexRest ==
  ASSUME TypeOK, ControlInv, IndexInv, Restart \/ UNCHANGED vars \/ \E h, w \in Works : Enqueue(h, w)
  PROVE  IndexInv'
  <1> USE DistinctActors
  <1>1. CASE Restart
    <2>1. /\ queue' = Recovered /\ work' = {w \in Works : Recovered[w] = "pending"} /\ active' = {}
          /\ \A w \in Works : send'[w] = None /\ pc'[w] = "off"
          /\ pc'["body"] = "off"
      BY <1>1 DEF Restart
    <2>2. \A w \in Works : Recovered[w] \notin {"processing", "sending"}
      BY DEF Recovered
    <2> QED BY <2>1, <2>2 DEF IndexInv
  <1>2. CASE UNCHANGED vars
    BY <1>2 DEF vars, IndexInv, Running
  <1>3. CASE \E h, w \in Works : Enqueue(h, w)
    <2>1. PICK h \in Works, w \in Works : Enqueue(h, w)
      BY <1>3
    <2>2. /\ Running(h) /\ send[h] = None /\ queue[w] = "new" /\ work' = work \cup {w}
          /\ queue' = [queue EXCEPT ![w] = "sending"] /\ send' = [send EXCEPT ![h] = w]
          /\ UNCHANGED <<active, pc>>
      BY <2>1 DEF Enqueue, register
    <2> QED BY <2>2 DEF IndexInv, Running, TypeOK
  <1> QED BY <1>1, <1>2, <1>3

-----------------------------------------------------------------------------
(* Without cancellation: the record before the first message and after the *)
(* job.                                                                    *)

\* The task is being created.
Early ==
  \/ pc["producer"] \in {"create", "register"}
  \/ upd # None /\ upd.by = "producer" /\ upd.then = "register"

\* Nothing is queued before the task has been created.
EarlyInv ==
  /\ Early => (\A w \in Works : queue[w] = "new") /\ ~Status(Terminal)
  /\ pc["producer"] = "create" => store = None
  /\ pc["producer"] = "register" \/ queue[Root] # "new" => store # None

\* The job leaves an outcome in the record before its message is acknowledged,
\* and no update takes it away.
OutcomeInv ==
  /\ queue[Root] = "gone" \/ pc[Root] \in {"ack", "finalize", "store", "write", "rollback"} => HasOutcome(store)
  /\ pc["body"] \in {"finalize", "wait", "return", "returnerr"} => HasOutcome(store)
  /\ upd # None /\ upd.by = "body" /\ upd.then # "work" => HasOutcome(upd.rec)
  /\ upd # None /\ HasOutcome(store) => HasOutcome(upd.rec)

Story == EarlyInv /\ OutcomeInv

LEMMA StoryProducer ==
  ASSUME TypeOK, RecordInv, ControlInv, Plain, IndexInv, Story, Producer
  PROVE  Story'
  <1> USE DistinctActors
  <1>1. CASE CreateTask
    <2>1. [status |-> "pending", result |-> FALSE, error |-> FALSE] \in Records /\ "register" \in PCs
      BY DEF Records, Statuses, PCs
    <2>2. Prepared("producer", "register")
      BY <1>1, <2>1, UpdateFacts DEF CreateTask
    <2>3. UNCHANGED <<store, queue>> /\ pc["producer"] = "create" /\ store = None
      BY <1>1 DEF CreateTask, Story, EarlyInv
    <2>4. \A a \in Actors : pc'[a] = IF a = "producer" THEN "store" ELSE pc[a]
      BY <2>2 DEF Prepared, TypeOK
    <2>5. upd' # None /\ upd'.by = "producer" /\ upd = None
      BY <2>2 DEF Prepared
    <2>6. EarlyInv'
      BY <2>3, <2>4 DEF Story, EarlyInv, Early, Status
    <2>7. OutcomeInv'
      BY <2>3, <2>4, <2>5 DEF Story, OutcomeInv, HasOutcome
    <2> QED BY <2>6, <2>7 DEF Story
  <1>2. CASE RegisterRoot
    <2>1. ~is_cancellation_requested /\ upd' = upd /\ store' = store /\ pc["producer"] = "register"
      BY <1>2 DEF Plain, Uncancelled, is_cancellation_requested, RegisterRoot, record
    <2>2. queue' = [queue EXCEPT ![Root] = "sending"] /\ pc' = [pc EXCEPT !["producer"] = "send"]
      BY <1>2, <2>1 DEF RegisterRoot, register, Goto
    <2>3. upd # None => upd.by # "producer"
      BY <2>1 DEF ControlInv, LabelInv
    <2> QED BY <2>1, <2>2, <2>3 DEF Story, EarlyInv, Early, Status, OutcomeInv, TypeOK
  <1>3. CASE SendRoot
    <2>1. /\ UNCHANGED <<store, upd>> /\ pc["producer"] = "send" /\ queue'[Root] \in {"pending", "new"}
          /\ queue[Root] = "sending"
      BY <1>3 DEF SendRoot, record, ControlInv, RootInv, TypeOK
    <2>2. \A a \in Actors : a # "producer" => pc'[a] = pc[a]
      BY <1>3 DEF SendRoot, discard, Goto, TypeOK
    <2>3. pc'["producer"] \in {"done", "fail", "finalize"}
      BY <1>3 DEF SendRoot, discard, Goto, TypeOK
    <2>4. upd # None => upd.by # "producer"
      BY <2>1 DEF ControlInv, LabelInv
    <2> QED BY <2>1, <2>2, <2>3, <2>4 DEF Story, EarlyInv, Early, OutcomeInv
  <1>4. CASE FailTask
    <2>1. UNCHANGED <<store, queue>> /\ pc["producer"] = "fail"
          /\ _record_outcome("producer", FALSE, TRUE, "done") /\ "done" \in PCs
      BY <1>4 DEF FailTask, PCs
    <2>2. /\ upd = None
          /\ \/ Prepared("producer", "finalize") /\ HasOutcome(upd'.rec)
             \/ upd' = None /\ pc' = [pc EXCEPT !["producer"] = "finalize"]
      BY <2>1, RecordOutcomeFacts
    <2>3. /\ \A a \in Actors : a # "producer" => pc'[a] = pc[a]
          /\ pc'["producer"] \in {"finalize", "store"}
          /\ upd' # None => upd'.by = "producer" /\ upd'.then = "finalize" /\ HasOutcome(upd'.rec)
      BY <2>2 DEF Prepared, TypeOK
    <2> QED BY <2>1, <2>3 DEF Story, EarlyInv, Early, OutcomeInv
  <1> QED BY <1>1, <1>2, <1>3, <1>4 DEF Producer

LEMMA StoryRecord ==
  ASSUME TypeOK, RecordInv, ControlInv, Plain, IndexInv, Story,
         Persist \/ Publish \/ StoreFails \/ _evict_expired \/ \E a \in Actors : _finalize_task(a)
  PROVE  Story'
  <1> USE DistinctActors
  <1>1. CASE Persist
    <2>1. /\ upd # None /\ upd' # None /\ store' = upd.rec /\ UNCHANGED <<queue, pc>>
          /\ upd'.by = upd.by /\ upd'.rec = upd.rec /\ upd'.then = upd.then
      BY <1>1, PersistFacts
    <2>2. upd.rec # None /\ pc[upd.by] = "store" /\ upd.by \in Actors
      BY <2>1, RecordAssumption DEF TypeOK, Updates, ControlInv, LabelInv
    <2>3. Early => upd.by = "producer"
      <3>1. SUFFICES ASSUME Early, upd.by # "producer" PROVE FALSE
        OBVIOUS
      <3>2. \A w \in Works : queue[w] = "new" /\ pc[w] = "off"
        BY <3>1 DEF Story, EarlyInv, IndexInv
      <3>3. pc["body"] = "off"
        BY <3>2 DEF IndexInv
      <3> QED BY <2>1, <2>2, <3>1, <3>2, <3>3 DEF Actors, Plain, Uncancelled
    <2>4. Early => upd.rec.status = "pending" /\ pc["producer"] \notin {"create", "register"}
      BY <2>1, <2>2, <2>3 DEF Early, Plain, UpdateInv
    <2>5. EarlyInv'
      BY <2>1, <2>2, <2>4 DEF Story, EarlyInv, Early, Status, Terminal
    <2>6. OutcomeInv'
      BY <2>1, <2>2 DEF Story, OutcomeInv
    <2> QED BY <2>5, <2>6 DEF Story
  <1>2. CASE Publish
    <2>1. /\ upd # None /\ upd' = None /\ UNCHANGED <<store, queue>> /\ store = upd.rec
          /\ pc' = [pc EXCEPT ![upd.by] = upd.then]
      BY <1>2 DEF Publish, Goto, RecordInv
    <2>2. upd.rec # None /\ pc[upd.by] = "store" /\ upd.by \in Actors /\ upd.then # "create"
      BY <2>1, RecordAssumption DEF TypeOK, Updates, ControlInv, LabelInv, Entry
    <2>3. \A a \in Actors : pc'[a] = IF a = upd.by THEN upd.then ELSE pc[a]
      BY <2>1, <2>2 DEF TypeOK
    <2>4. upd.by \in Works => upd.then = "write"
      BY <2>1 DEF Plain, UpdateInv
    <2>5. Early' => Early
      BY <2>1, <2>2, <2>3 DEF Early
    <2>6. EarlyInv'
      BY <2>1, <2>2, <2>3, <2>5 DEF Story, EarlyInv, Status
    <2>7. pc'[Root] \in {"ack", "finalize", "store", "write", "rollback"} =>
             pc[Root] \in {"ack", "finalize", "store", "write", "rollback"}
      BY <2>2, <2>3
    <2>8. pc'["body"] \in {"finalize", "wait", "return", "returnerr"} => HasOutcome(store)
      BY <2>1, <2>3 DEF Story, OutcomeInv
    <2>9. OutcomeInv'
      BY <2>1, <2>7, <2>8 DEF Story, OutcomeInv
    <2> QED BY <2>6, <2>9 DEF Story
  <1>3. CASE StoreFails
    <2>1. upd # None /\ upd' = None /\ UNCHANGED <<store, queue>>
      BY <1>3 DEF StoreFails
    <2>2. upd.by \in Actors /\ upd.by # "canceller" /\ pc[upd.by] = "store"
      BY <2>1 DEF TypeOK, Updates, Plain, UpdateInv, ControlInv, LabelInv
    <2>3. PICK q \in {"done", "raise", "failing", "rollback"} :
            /\ pc' = [pc EXCEPT ![upd.by] = q]
            /\ upd.by = "producer" => q = "done"
            /\ upd.by = "body" => q \in {"raise", "failing"}
      BY <1>3, <2>2 DEF StoreFails, Goto
    <2>4. \A a \in Actors : pc'[a] = IF a = upd.by THEN q ELSE pc[a]
      BY <2>2, <2>3 DEF TypeOK
    <2> QED BY <2>1, <2>2, <2>3, <2>4 DEF Story, EarlyInv, Early, Status, OutcomeInv
  <1>4. CASE _evict_expired
    BY <1>4 DEF _evict_expired, Story, EarlyInv, Early, Status, OutcomeInv
  <1>5. CASE \E a \in Actors : _finalize_task(a)
    <2>1. PICK a \in Actors : _finalize_task(a)
      BY <1>5
    <2>2. UNCHANGED <<store, queue>> /\ pc[a] = "finalize"
      BY <2>1, FinalizeFacts
    <2>3. \/ upd' = upd /\ pc' = [pc EXCEPT ![a] = ret[a]]
          \/ Prepared(a, ret[a]) /\ upd'.rec.status \in Terminal
      BY <2>1, FinalizeFacts
    <2>4. a # "canceller" /\ (a \in Works => ret[a] = "write")
          /\ (a = "body" => ret[a] \in {"wait", "return", "returnerr"})
          /\ (a = "producer" => ret[a] \in {"done", "fail"})
      BY <2>2 DEF Plain, PlaceInv, Uncancelled
    <2>5. (\A b \in Actors : b # a => pc'[b] = pc[b]) /\ pc'[a] \in {"store", ret[a]}
      BY <2>3 DEF Prepared, TypeOK
    <2>6. upd' = upd \/ (upd' # None /\ upd'.by = a /\ upd'.then = ret[a] /\ HasOutcome(upd'.rec))
      <3>1. CASE Prepared(a, ret[a]) /\ upd'.rec.status \in Terminal
        <4>1. upd' # None /\ upd'.by = a /\ upd'.then = ret[a] /\ upd'.rec \in Records
          BY <3>1 DEF Prepared, Updates
        <4> QED BY <3>1, <4>1, RecordAssumption DEF HasOutcome
      <3> QED BY <2>3, <3>1
    <2>7. EarlyInv'
      BY <2>2, <2>4, <2>5, <2>6 DEF Story, EarlyInv, Early, Status
    <2>8. OutcomeInv'
      BY <2>2, <2>4, <2>5, <2>6 DEF Story, OutcomeInv
    <2> QED BY <2>7, <2>8 DEF Story
  <1> QED BY <1>1, <1>2, <1>3, <1>4, <1>5

\* A worker or a handler moves only when the task has been created.
LEMMA NotEarly ==
  ASSUME IndexInv, Story, NEW w \in Works, queue[w] # "new" \/ pc[w] # "off"
  PROVE  ~Early
  BY DEF IndexInv, Story, EarlyInv

LEMMA StoryWorker ==
  ASSUME TypeOK, RecordInv, ControlInv, Plain, IndexInv, Story, NEW w \in Works, WorkerPlain(w)
  PROVE  Story'
  <1> USE DistinctActors
  <1>1. UNCHANGED <<store, upd>>
    BY EntersFacts, WorkerFacts
  <1>2. pc'["producer"] = pc["producer"]
    <2>1. CASE register_active(w)
      BY <2>1, EntersFacts
    <2>2. CASE ~register_active(w)
      BY <2>2, WorkerFacts DEF Step, TypeOK
    <2> QED BY <2>1, <2>2
  <1>3. ~Early
    <2>1. CASE Sent(w)
      BY <2>1, NotEarly DEF Sent, ControlInv, QueueInv, TypeOK
    <2>2. CASE ~Sent(w)
      BY <2>2, NotEarly DEF WorkerPlain, dequeue_raw, process_dequeued, register_active, HandlerReturns,
         prepare_ack, ack, rollback_ack, HandlerRaises, AckFails
    <2> QED BY <2>1, <2>2
  <1>4. queue'[Root] # "new" => queue[Root] # "new"
    BY NotEarly, ActorAssumption DEF WorkerPlain, dequeue_raw, process_dequeued, register_active, HandlerReturns,
       prepare_ack, ack, rollback_ack, HandlerRaises, AckFails, Sent, TypeOK, IndexInv, ControlInv, QueueInv
  <1>5. EarlyInv'
    BY <1>1, <1>2, <1>3, <1>4 DEF Story, EarlyInv, Early, Status
  <1>6. /\ pc'["body"] \in {"finalize", "wait", "return", "returnerr"} =>
             pc["body"] \in {"finalize", "wait", "return", "returnerr"}
        /\ pc'[Root] \in {"ack", "finalize", "store", "write", "rollback"} =>
             pc[Root] \in {"ack", "finalize", "store", "write", "rollback"}
    <2>1. CASE register_active(w)
      BY <2>1, EntersFacts
    <2>2. CASE ~register_active(w) /\ w # Root
      BY <2>2, WorkerFacts DEF Step, TypeOK
    <2>3. CASE ~register_active(w) /\ w = Root
      <3>1. ~HandlerReturns(w)
        BY <2>3 DEF HandlerReturns
      <3> QED BY <2>3, <3>1, WorkerFacts DEF Step, TypeOK
    <2> QED BY <2>1, <2>2, <2>3
  <1>7. queue'[Root] = "gone" => queue[Root] = "gone" \/ pc[Root] = "write"
    BY DEF WorkerPlain, dequeue_raw, process_dequeued, register_active, HandlerReturns,
       prepare_ack, ack, rollback_ack, HandlerRaises, AckFails, Sent, TypeOK, Plain, PlaceInv, WorkerPlaces
  <1>8. OutcomeInv'
    BY <1>1, <1>6, <1>7 DEF Story, OutcomeInv
  <1> QED BY <1>5, <1>8 DEF Story

LEMMA BodyHasRecord ==
  ASSUME IndexInv, Story, BodyPlain
  PROVE  store # None /\ pc[Root] = "run"
  <1>1. pc["body"] # "off"
    BY DEF BodyPlain, BodyCheck, BodyStart, BodyEnds, BodyFails, wait_for_descendants, BodyReturns, BodyRaises
  <1> QED BY <1>1, DistinctActors DEF IndexInv, Story, EarlyInv

LEMMA StoryBody ==
  ASSUME TypeOK, RecordInv, ControlInv, Plain, IndexInv, Story, BodyPlain
  PROVE  Story'
  <1> USE DistinctActors
  <1>1. store # None /\ pc[Root] = "run" /\ UNCHANGED <<store, queue>>
    BY BodyHasRecord, BodyFacts
  <1>2. /\ pc'["producer"] = pc["producer"]
        /\ upd' # None => upd' = upd \/ (upd = None /\ upd'.by = "body")
    BY <1>1, BodyFacts DEF Step, Prepared, TypeOK
  <1>3. EarlyInv'
    BY <1>1, <1>2 DEF Story, EarlyInv, Early, Status
  <1>4. pc'[Root] \in {"ack", "finalize", "store", "write", "rollback"} => HasOutcome(store)
    <2>1. CASE pc'[Root] = pc[Root]
      BY <1>1, <2>1
    <2>2. CASE /\ pc["body"] \in {"return", "returnerr", "raise"}
               /\ pc'[Root] = IF pc["body"] = "raise" THEN "dead" ELSE "ack"
      BY <2>2 DEF Story, OutcomeInv
    <2>3. \A p, q : Step("body", p, q) => pc'[Root] = pc[Root]
      BY DEF Step, TypeOK
    <2>4. \A l : Prepared("body", l) => pc'[Root] = pc[Root]
      BY DEF Prepared, TypeOK
    <2> QED BY <1>1, <2>1, <2>2, <2>3, <2>4, BodyFacts
  <1>5. pc'["body"] \in {"finalize", "wait", "return", "returnerr"} => HasOutcome(store)
    <2>1. \A p, q : Step("body", p, q) => pc'["body"] = q
      BY DEF Step, TypeOK
    <2>2. \A l : Prepared("body", l) => pc'["body"] = "store"
      BY DEF Prepared, TypeOK
    <2> QED BY <1>1, <2>1, <2>2, BodyFacts
  <1>6. upd' # None => \/ upd' = upd
                       \/ upd'.by = "body" /\ upd'.then = "work" /\ (HasOutcome(store) => HasOutcome(upd'.rec))
                       \/ HasOutcome(upd'.rec)
    <2>1. \A l : Prepared("body", l) => upd'.by = "body" /\ upd'.then = l
      BY DEF Prepared
    <2> QED BY <1>1, <2>1, BodyFacts
  <1>7. OutcomeInv'
    BY <1>1, <1>4, <1>5, <1>6 DEF Story, OutcomeInv
  <1> QED BY <1>3, <1>7 DEF Story

LEMMA StoryRest ==
  ASSUME TypeOK, ControlInv, Plain, IndexInv, Story,
         Restart \/ UNCHANGED vars \/ \E h, w \in Works : Enqueue(h, w)
  PROVE  Story'
  <1> USE DistinctActors
  <1>1. CASE Restart
    <2>1. /\ queue' = Recovered /\ upd' = None /\ store' = store
          /\ \A w \in Works : pc'[w] = "off"
          /\ pc'["body"] = "off" /\ pc'["producer"] = "done"
      BY <1>1 DEF Restart
    <2>2. /\ Recovered[Root] = "gone" => queue[Root] = "gone"
          /\ Recovered[Root] # "new" => queue[Root] # "new"
      BY DEF Recovered
    <2> QED BY <2>1, <2>2 DEF Story, EarlyInv, Early, OutcomeInv
  <1>2. CASE UNCHANGED vars
    BY <1>2 DEF vars, Story, EarlyInv, Early, Status, OutcomeInv
  <1>3. CASE \E h, w \in Works : Enqueue(h, w)
    <2>1. PICK h \in Works, w \in Works : Enqueue(h, w)
      BY <1>3
    <2>2. /\ w # Root /\ queue[w] = "new" /\ Running(h)
          /\ queue' = [queue EXCEPT ![w] = "sending"] /\ UNCHANGED <<store, upd, pc>>
      BY <2>1 DEF Enqueue, register, record
    <2>3. \E v \in Works : pc[v] = "run"
      BY <2>2 DEF Running, IndexInv
    <2>4. ~Early
      BY <2>3, NotEarly
    <2> QED BY <2>2, <2>4 DEF Story, EarlyInv, Early, Status, OutcomeInv, TypeOK
  <1> QED BY <1>1, <1>2, <1>3

-----------------------------------------------------------------------------
(* Without cancellation: what stands in the record when the work is done.  *)

Base == TypeOK /\ RecordInv /\ ControlInv /\ Plain /\ IndexInv /\ Story

LEMMA BaseStep ==
  ASSUME ~Cancellable, Base, [Next]_vars
  PROVE  Base'
  <1> USE DEF Base
  <1>1. TypeOK' /\ RecordInv' /\ ControlInv'
    BY TypeStep, RecordStep, ControlStep
  <1>2. CASE Producer
    BY <1>1, <1>2, PlainProducer, IndexProducer, StoryProducer
  <1>3. CASE Persist \/ Publish \/ StoreFails \/ _evict_expired \/ \E a \in Actors : _finalize_task(a)
    BY <1>1, <1>3, PlainRecord, IndexRecord, StoryRecord
  <1>4. CASE \E w \in Works : WorkerPlain(w)
    <2>1. PICK w \in Works : WorkerPlain(w)
      BY <1>4
    <2>2. pc[w] = "ack" => w \in work
      BY DEF IndexInv
    <2> QED BY <1>1, <2>1, <2>2, PlainWorker, IndexWorker, StoryWorker
  <1>5. CASE BodyPlain
    BY <1>1, <1>5, BodyHasRecord, PlainBody, IndexBody, StoryBody
  <1>6. CASE Restart \/ UNCHANGED vars \/ \E h, w \in Works : Enqueue(h, w)
    BY <1>1, <1>6, PlainRest, IndexRest, StoryRest
  <1> QED BY <1>2, <1>3, <1>4, <1>5, <1>6, PlainSteps

LEMMA InitBase == Init => Base
  <1> SUFFICES ASSUME Init PROVE Base
    OBVIOUS
  <1> USE DistinctActors
  <1>1. TypeOK /\ RecordInv /\ ControlInv
    BY InitType DEF Init, RecordInv, ControlInv, LabelInv, RootInv, BodyInv, QueueInv, Entry
  <1>2. Plain
    BY DEF Init, Plain, Uncancelled, PlaceInv, UpdateInv, WorkerPlaces, BodyPlaces, ProducerPlaces
  <1>3. IndexInv
    BY DEF Init, IndexInv
  <1>4. Story
    BY DEF Init, Story, EarlyInv, Early, OutcomeInv, Status
  <1> QED BY <1>1, <1>2, <1>3, <1>4 DEF Base

\* An empty index: every message that was taken is past its handler, nothing is
\* on its way, and the job has left its outcome.
LEMMA NoWorkFacts ==
  ASSUME Base, work = {}
  PROVE  /\ Settled /\ pc["body"] = "off" /\ active = {}
         /\ queue[Root] # "new" => HasOutcome(store)
  <1> USE DistinctActors DEF Base
  <1>1. \A w \in Works : /\ queue[w] \notin {"sending", "pending"}
                         /\ pc[w] \notin {"got", "enter", "run", "ack", "dead", "late", "oncancelled"}
    BY DEF IndexInv, Plain, PlaceInv, WorkerPlaces
  <1>2. pc["body"] = "off" /\ active = {}
    BY <1>1 DEF IndexInv, TypeOK
  <1>3. queue[Root] # "new" => HasOutcome(store)
    <2>1. queue[Root] # "new" => queue[Root] \in {"gone", "processing"}
      BY <1>1 DEF TypeOK, MsgStates
    <2>2. queue[Root] = "processing" => pc[Root] \in {"finalize", "store", "write", "rollback"}
      BY <1>1 DEF IndexInv, Plain, PlaceInv, WorkerPlaces
    <2> QED BY <2>1, <2>2 DEF Story, OutcomeInv
  <1> QED BY <1>1, <1>2, <1>3 DEF Settled

\* When no work is left the task is terminal, or a worker is still making it so.
LastInv ==
  work = {} /\ queue[Root] # "new" =>
    Status(Terminal) \/ \E w \in Works : pc[w] \in {"finalize", "store", "rollback"}

\* A step that neither empties the index nor moves a worker that is finishing.
LEMMA LastFrame ==
  ASSUME LastInv, work' # {} \/ work = {}, queue'[Root] # "new" => queue[Root] # "new",
         UNCHANGED store,
         \A w \in Works : pc[w] \in {"finalize", "store", "rollback"} =>
                            pc'[w] \in {"finalize", "store", "rollback"}
  PROVE  LastInv'
  BY DEF LastInv, Status

LEMMA LastRecord ==
  ASSUME Base, LastInv, Persist \/ Publish \/ StoreFails \/ \E a \in Actors : _finalize_task(a)
  PROVE  LastInv'
  <1> USE DistinctActors DEF Base
  <1>1. CASE Persist
    <2>1. UNCHANGED <<work, queue, pc>> /\ upd # None /\ upd.stored = FALSE
      BY <1>1, PersistFacts
    <2>2. ~Status(Terminal)
      BY <2>1 DEF RecordInv
    <2> QED BY <2>1, <2>2 DEF LastInv
  <1>2. CASE Publish
    <2>1. UNCHANGED <<work, queue, store>> /\ upd # None /\ store = upd.rec /\ pc' = [pc EXCEPT ![upd.by] = upd.then]
      BY <1>2 DEF Publish, Goto, RecordInv
    <2>2. CASE upd.by \in Works
      <3>1. upd.rec.status \in Terminal /\ upd.rec # None
        BY <2>1, <2>2, RecordAssumption DEF Plain, UpdateInv, TypeOK, Updates
      <3> QED BY <2>1, <3>1 DEF LastInv, Status
    <2>3. CASE upd.by \notin Works
      <3>1. \A w \in Works : pc'[w] = pc[w]
        BY <2>1, <2>3 DEF TypeOK
      <3> QED BY <2>1, <3>1, LastFrame
    <2> QED BY <2>2, <2>3
  <1>3. CASE StoreFails
    <2>1. UNCHANGED <<work, queue, store>> /\ upd # None
      BY <1>3 DEF StoreFails, index
    <2>2. upd.by \in Actors /\ pc[upd.by] = "store"
      BY <2>1 DEF TypeOK, Updates, ControlInv, LabelInv
    <2>3. PICK q : pc' = [pc EXCEPT ![upd.by] = q] /\ (upd.by \in Works => q = "rollback")
      BY <1>3, <2>2 DEF StoreFails, Goto
    <2>4. \A w \in Works : pc'[w] = IF w = upd.by THEN "rollback" ELSE pc[w]
      BY <2>2, <2>3 DEF TypeOK
    <2> QED BY <2>1, <2>4, LastFrame
  <1>4. CASE \E a \in Actors : _finalize_task(a)
    <2>1. PICK a \in Actors : _finalize_task(a)
      BY <1>4
    <2>2. UNCHANGED <<store, queue, work>> /\ pc[a] = "finalize"
      BY <2>1, FinalizeFacts
    <2>3. CASE pc' = [pc EXCEPT ![a] = "store"]
      <3>1. \A w \in Works : pc'[w] = pc[w] \/ pc'[w] = "store"
        BY <2>3 DEF TypeOK
      <3> QED BY <2>2, <3>1, LastFrame
    <2>4. CASE HasWork \/ ~(HasOutcome(store) /\ store.status \in Open)
      <3>1. SUFFICES ASSUME work = {}, queue[Root] # "new" PROVE Status(Terminal)
        BY <2>2 DEF LastInv, Status
      <3>2. active = {} /\ HasOutcome(store)
        BY <3>1, NoWorkFacts
      <3>3. ~HasWork /\ store # None
        BY <3>1, <3>2 DEF HasWork, HasOutcome
      <3>4. store.status \in Terminal \/ store.status \in Open
        BY <3>3 DEF TypeOK, Records, Statuses, Plain, Uncancelled, Open
      <3> QED BY <2>4, <3>2, <3>3, <3>4 DEF Status
    <2> QED BY <2>1, <2>3, <2>4, FinalizeFacts DEF Prepared
  <1> QED BY <1>1, <1>2, <1>3, <1>4

LEMMA LastWorker ==
  ASSUME Base, LastInv, NEW w \in Works, WorkerPlain(w)
  PROVE  LastInv'
  <1> USE DistinctActors DEF Base
  <1>1. CASE register_active(w)
    <2>1. work' = work /\ pc[w] = "enter"
      BY <1>1, EntersFacts
    <2>2. w \in work
      BY <2>1 DEF IndexInv
    <2> QED BY <2>1, <2>2 DEF LastInv
  <1>2. CASE dequeue_raw(w) \/ process_dequeued(w) \/ HandlerReturns(w) \/ HandlerRaises(w)
    <2>1. work' = work /\ (pc[w] \in {"got", "run"} \/ queue[w] = "pending")
      BY <1>2 DEF dequeue_raw, process_dequeued, HandlerReturns, HandlerRaises, index, Plain, PlaceInv,
         WorkerPlaces
    <2>2. w \in work
      BY <2>1 DEF IndexInv
    <2> QED BY <2>1, <2>2 DEF LastInv
  <1>3. CASE prepare_ack(w)
    <2>1. pc[w] = "ack" /\ w \in work
      BY <1>3 DEF prepare_ack, IndexInv
    <2>2. SUFFICES ASSUME work' = {} PROVE pc'[w] = "finalize"
      BY DEF LastInv
    <2>3. work = {w}
      BY <1>3, <2>1, <2>2 DEF prepare_ack, discard
    <2>4. active = {}
      BY <2>1, <2>3 DEF IndexInv, TypeOK
    <2> QED BY <1>3, <2>1, <2>3, <2>4 DEF prepare_ack, discard, Goto, TypeOK
  <1>4. CASE ack(w)
    <2>1. UNCHANGED <<store, work>> /\ pc[w] = "write" /\ pc' = [pc EXCEPT ![w] = "off"]
      BY <1>4 DEF ack, record, index, Goto, Plain, PlaceInv, WorkerPlaces
    <2>2. queue'[Root] # "new" => queue[Root] # "new"
      BY <1>4, <2>1 DEF ack, IndexInv, TypeOK
    <2>3. \A v \in Works : pc[v] \in {"finalize", "store", "rollback"} => pc'[v] = pc[v]
      BY <2>1 DEF TypeOK
    <2> QED BY <2>1, <2>2, <2>3, LastFrame
  <1>5. CASE AckFails(w)
    <2>1. UNCHANGED <<store, work, queue>> /\ pc' = [pc EXCEPT ![w] = "rollback"]
      BY <1>5 DEF AckFails, record, index, Goto, Plain, PlaceInv, WorkerPlaces
    <2>2. \A v \in Works : pc'[v] = pc[v] \/ pc'[v] = "rollback"
      BY <2>1 DEF TypeOK
    <2> QED BY <2>1, <2>2, LastFrame
  <1>6. CASE rollback_ack(w)
    BY <1>6 DEF rollback_ack, LastInv
  <1>7. CASE Sent(w)
    <2>1. UNCHANGED work /\ send[w] \in Works /\ queue[send[w]] = "sending"
      BY <1>7 DEF Sent, index, TypeOK, ControlInv, QueueInv
    <2>2. send[w] \in work
      BY <2>1 DEF IndexInv
    <2> QED BY <2>1, <2>2 DEF LastInv
  <1> QED BY <1>1, <1>2, <1>3, <1>4, <1>5, <1>6, <1>7 DEF WorkerPlain

LEMMA LastRest ==
  ASSUME Base, LastInv,
         \/ Producer \/ BodyPlain \/ _evict_expired \/ Restart \/ UNCHANGED vars
         \/ \E h, w \in Works : Enqueue(h, w)
  PROVE  LastInv'
  <1> USE DistinctActors DEF Base
  <1>1. CASE CreateTask \/ FailTask \/ _evict_expired
    <2>1. UNCHANGED <<store, work, queue>> /\ \A w \in Works : pc'[w] = pc[w]
      BY <1>1 DEF CreateTask, FailTask, _evict_expired, Update, _record_outcome, Goto, index, TypeOK
    <2> QED BY <2>1, LastFrame
  <1>2. CASE RegisterRoot
    <2>1. ~is_cancellation_requested
      BY DEF Plain, Uncancelled, is_cancellation_requested
    <2> QED BY <1>2, <2>1 DEF RegisterRoot, register, LastInv
  <1>3. CASE SendRoot
    <2>1. queue[Root] = "sending"
      BY <1>3 DEF SendRoot, ControlInv, RootInv
    <2>2. Root \in work
      BY <2>1 DEF IndexInv
    <2> QED BY <1>3, <2>2 DEF SendRoot, LastInv, TypeOK
  <1>4. CASE BodyPlain
    <2>1. pc[Root] = "run" /\ work' = work
      BY <1>4, BodyHasRecord, BodyFacts
    <2>2. Root \in work
      BY <2>1 DEF IndexInv
    <2> QED BY <2>1, <2>2 DEF LastInv
  <1>5. CASE \E h, w \in Works : Enqueue(h, w)
    BY <1>5 DEF Enqueue, register, LastInv
  <1>6. CASE UNCHANGED vars
    BY <1>6 DEF vars, LastInv, Status
  <1>7. CASE Restart
    <2>1. queue' = Recovered /\ work' = {w \in Works : Recovered[w] = "pending"} /\ store' = store
      BY <1>7 DEF Restart
    <2>2. SUFFICES ASSUME work' = {}, queue'[Root] # "new" PROVE Status(Terminal)
      BY <2>1 DEF LastInv, Status
    <2>3. \A w \in Works : queue[w] \notin {"pending", "processing"}
      BY <2>1, <2>2 DEF Recovered
    <2>4. queue[Root] = "gone"
      BY <2>1, <2>2, <2>3 DEF Recovered, TypeOK, MsgStates
    <2>5. \A w \in Works : pc[w] = "off"
      BY <2>3 DEF IndexInv
    <2>6. \A w \in Works : send[w] = None
      BY <2>5 DEF IndexInv, Running
    <2>7. \A w \in Works : queue[w] # "sending"
      BY <2>4, <2>6, ActorAssumption DEF IndexInv, ControlInv, RootInv
    <2>8. work = {}
      BY <2>3, <2>5, <2>7 DEF IndexInv, TypeOK
    <2> QED BY <2>4, <2>5, <2>8 DEF LastInv
  <1> QED BY <1>1, <1>2, <1>3, <1>4, <1>5, <1>6, <1>7 DEF Producer

LEMMA LastStep ==
  ASSUME ~Cancellable, Base, LastInv, [Next]_vars
  PROVE  LastInv'
  BY PlainSteps, LastRecord, LastWorker, LastRest DEF Base

\* TaskTracker._finalize_before_ack: in a task that nobody cancels, when the root
\* message is gone and no message of the task is left in QueueFS, its stored
\* record is terminal, whatever crashed or failed on the way.
THEOREM TerminalBeforeAck ==
  ASSUME ~Cancellable
  PROVE  Spec => []TerminalBeforeLastAck
  <1>1. Init => Base /\ LastInv
    BY InitBase, DistinctActors DEF Init, LastInv
  <1>2. Base /\ LastInv /\ [Next]_vars => (Base /\ LastInv)'
    BY BaseStep, LastStep
  <1>3. Base /\ LastInv => TerminalBeforeLastAck
    <2> SUFFICES ASSUME Base, LastInv, queue[Root] = "gone", \A w \in Works : ~Durable(w)
                 PROVE  Status(Terminal)
      BY DEF TerminalBeforeLastAck
    <2> USE DistinctActors DEF Base
    <2>1. \A w \in Works : pc[w] = "off" /\ queue[w] # "pending"
      BY DEF Durable, IndexInv
    <2>2. \A w \in Works : send[w] = None
      BY <2>1 DEF IndexInv, Running
    <2>3. \A w \in Works : queue[w] # "sending"
      BY <2>2, ActorAssumption DEF IndexInv, ControlInv, RootInv
    <2>4. work = {}
      BY <2>1, <2>3 DEF IndexInv, TypeOK
    <2> QED BY <2>1, <2>4 DEF LastInv
  <1> QED BY <1>1, <1>2, <1>3, PTL DEF Spec

-----------------------------------------------------------------------------
(* Without cancellation: the outcome comes after the work.                 *)

\* Once everything has settled only a restart unsettles it.
LEMMA SettledStays ==
  ASSUME ~Cancellable, Base, Settled, ~Early, Next, ~Restart
  PROVE  Settled'
  <1> USE DistinctActors DEF Base
  <1>1. pc["body"] = "off" /\ \A w \in Works : ~Running(w) /\ send[w] = None
    BY DEF Settled, IndexInv, Running
  <1>2. CASE Producer
    <2>1. FailTask
      BY <1>2 DEF Producer, CreateTask, RegisterRoot, SendRoot, Early, Settled, ControlInv, RootInv
    <2>2. queue' = queue /\ \A a \in Actors : a # "producer" => pc'[a] = pc[a]
      BY <2>1 DEF FailTask, Update, _record_outcome, Goto, TypeOK
    <2> QED BY <2>2 DEF Settled
  <1>3. CASE Persist \/ _evict_expired
    BY <1>3 DEF Persist, _evict_expired, Settled
  <1>4. CASE Publish \/ StoreFails
    <2>1. /\ upd # None /\ queue' = queue /\ upd.by \in Actors /\ upd.by # "canceller" /\ pc[upd.by] = "store"
      BY <1>4 DEF Publish, StoreFails, TypeOK, Updates, Plain, UpdateInv, ControlInv, LabelInv
    <2>2. PICK q : /\ pc' = [pc EXCEPT ![upd.by] = q]
                   /\ upd.by \in Works => q \in {"write", "rollback"}
      <3>1. CASE Publish
        BY <2>1, <3>1 DEF Publish, Goto, Plain, UpdateInv
      <3>2. CASE StoreFails
        BY <2>1, <3>2 DEF StoreFails, Goto
      <3> QED BY <1>4, <3>1, <3>2
    <2>3. \A a \in Actors : pc'[a] = IF a = upd.by THEN q ELSE pc[a]
      BY <2>1, <2>2 DEF TypeOK
    <2>4. pc'["body"] = "off"
      BY <1>1, <2>1, <2>3
    <2> QED BY <2>1, <2>2, <2>3, <2>4 DEF Settled
  <1>5. CASE \E a \in Actors : _finalize_task(a)
    <2>1. PICK a \in Actors : _finalize_task(a)
      BY <1>5
    <2>2. queue' = queue /\ pc[a] = "finalize" /\ \E q \in {"store", ret[a]} : pc' = [pc EXCEPT ![a] = q]
      BY <2>1, FinalizeFacts DEF Prepared
    <2>3. a \in Works => ret[a] = "write"
      BY <2>2 DEF Plain, PlaceInv
    <2>4. (\A b \in Actors : b # a => pc'[b] = pc[b]) /\ pc'[a] \in {"store", ret[a]}
      BY <2>2 DEF TypeOK
    <2> QED BY <1>1, <2>2, <2>3, <2>4 DEF Settled
  <1>6. CASE \E w \in Works : WorkerPlain(w)
    <2>1. PICK w \in Works : WorkerPlain(w)
      BY <1>6
    <2>2. ~dequeue_raw(w) /\ ~process_dequeued(w) /\ ~register_active(w) /\ ~HandlerReturns(w)
          /\ ~HandlerRaises(w) /\ ~Sent(w)
      BY <1>1 DEF dequeue_raw, process_dequeued, register_active, HandlerReturns, HandlerRaises, Sent, Settled
    <2>3. \E q \in {"finalize", "write", "writeonly", "off", "rollback", "dead"} : pc' = [pc EXCEPT ![w] = q]
      BY <2>1, <2>2, WorkerFacts DEF Step
    <2>4. queue' = queue \/ queue' = [queue EXCEPT ![w] = "gone"]
      BY <2>1, <2>2 DEF WorkerPlain, prepare_ack, ack, rollback_ack, AckFails
    <2> QED BY <1>1, <2>3, <2>4 DEF Settled, TypeOK
  <1>7. CASE BodyPlain \/ \E h, w \in Works : Enqueue(h, w)
    <2>1. \A h, w \in Works : ~Enqueue(h, w)
      BY <1>1 DEF Enqueue
    <2>2. ~BodyPlain
      BY <1>1, BodyHasRecord DEF IndexInv
    <2> QED BY <1>7, <2>1, <2>2
  <1> QED BY <1>2, <1>3, <1>4, <1>5, <1>6, <1>7, PlainSteps

\* A terminal record is prepared when everything has settled.
DoneInv == upd # None /\ upd.rec.status \in Terminal => Settled

\* Nothing is terminal, or about to be, while the task is being created.
LEMMA DoneNotEarly ==
  ASSUME Base, Status(Terminal) \/ (upd # None /\ upd.rec.status \in Terminal)
  PROVE  ~Early
  <1> USE DistinctActors DEF Base
  <1>1. SUFFICES ASSUME Early PROVE FALSE
    OBVIOUS
  <1>2. ~Status(Terminal) /\ \A w \in Works : queue[w] = "new" /\ pc[w] = "off"
    BY <1>1 DEF Story, EarlyInv, IndexInv
  <1>3. pc["body"] = "off" /\ upd # None
    BY <1>2 DEF IndexInv
  <1>4. upd.by = "producer" /\ pc["producer"] = "store"
    BY <1>2, <1>3 DEF TypeOK, Updates, Actors, ControlInv, LabelInv, Plain, Uncancelled
  <1> QED BY <1>1, <1>2, <1>3, <1>4 DEF Early, Plain, UpdateInv, Terminal

\* Who prepares an update, and with which status.
LEMMA NewUpdate ==
  ASSUME ~Cancellable, Base, Next, upd' # None, upd'.rec.status \in Terminal
  PROVE  \/ upd # None /\ upd'.rec = upd.rec
         \/ work = {} /\ (upd'.rec.status = "completed" => ~failure) /\ ~Status(Terminal)
            /\ \E a \in Actors : _finalize_task(a)
  <1> USE DistinctActors DEF Base
  <1>1. CASE upd' = upd
    BY <1>1
  <1>2. CASE Producer
    <2>1. CASE CreateTask
      <3>1. [status |-> "pending", result |-> FALSE, error |-> FALSE] \in Records /\ "register" \in PCs
        BY DEF Records, Statuses, PCs
      <3>2. upd'.rec = [status |-> "pending", result |-> FALSE, error |-> FALSE]
        BY <2>1, <3>1, UpdateFacts DEF CreateTask
      <3> QED BY <3>2 DEF Terminal
    <2>2. CASE FailTask
      <3>1. _record_outcome("producer", FALSE, TRUE, "done") /\ "done" \in PCs
        BY <2>2 DEF FailTask, PCs
      <3>2. upd'.rec.status \in Open
        BY <3>1, RecordOutcomeFacts
      <3> QED BY <3>2 DEF Terminal, Open
    <2>3. CASE RegisterRoot \/ SendRoot
      BY <1>1, <2>3 DEF RegisterRoot, SendRoot, record
    <2> QED BY <1>2, <2>1, <2>2, <2>3 DEF Producer
  <1>3. CASE Persist
    BY <1>3, PersistFacts
  <1>4. CASE Publish \/ StoreFails \/ Restart
    BY <1>4 DEF Publish, StoreFails, Restart
  <1>5. CASE _evict_expired \/ \E h, w \in Works : Enqueue(h, w)
    BY <1>1, <1>5 DEF _evict_expired, Enqueue, record
  <1>6. CASE \E a \in Actors : _finalize_task(a)
    <2>1. PICK a \in Actors : _finalize_task(a)
      BY <1>6
    <2>2. CASE /\ work = {} /\ store # None /\ store.status \in Open \cup {"cancelling"}
               /\ upd'.rec.status = "completed" => ~failure
      BY <1>6, <2>2 DEF Status, Open, Terminal
    <2> QED BY <1>1, <2>1, <2>2, FinalizeFacts
  <1>7. CASE \E w \in Works : WorkerPlain(w)
    BY <1>1, <1>7, EntersFacts, WorkerFacts
  <1>8. CASE BodyPlain
    <2>1. upd' = upd \/ upd'.rec.status = "running" \/ upd'.rec.status \in Open
      BY <1>8, BodyHasRecord, BodyFacts
    <2> QED BY <1>1, <2>1 DEF Terminal, Open
  <1> QED BY <1>2, <1>3, <1>4, <1>5, <1>6, <1>7, <1>8, PlainSteps

LEMMA DoneStep ==
  ASSUME ~Cancellable, Base, DoneInv, [Next]_vars
  PROVE  DoneInv'
  <1>1. CASE UNCHANGED vars
    BY <1>1 DEF vars, DoneInv, Settled
  <1>2. CASE Next
    <2> SUFFICES ASSUME upd' # None, upd'.rec.status \in Terminal PROVE Settled'
      BY DEF DoneInv
    <2>1. ~Restart
      BY DEF Restart
    <2>2. CASE upd # None /\ upd'.rec = upd.rec
      <3>1. Settled /\ ~Early
        BY <2>2, DoneNotEarly DEF DoneInv
      <3> QED BY <1>2, <2>1, <3>1, SettledStays
    <2>3. CASE work = {} /\ \E a \in Actors : _finalize_task(a)
      <3>1. work' = {}
        BY <2>3 DEF _finalize_task, index
      <3>2. Base'
        BY <1>2, BaseStep
      <3>3. \A w \in Works : /\ queue'[w] \notin {"sending", "pending"}
                             /\ pc'[w] \notin {"got", "enter", "run", "late", "oncancelled"}
        BY <3>1, <3>2 DEF Base, IndexInv, Plain, PlaceInv, WorkerPlaces
      <3>4. pc'["body"] = "off"
        BY <3>2, <3>3, DistinctActors DEF Base, IndexInv
      <3> QED BY <3>3, <3>4 DEF Settled
    <2> QED BY <1>2, <2>2, <2>3, NewUpdate
  <1> QED BY <1>1, <1>2

LEMMA StoreChange ==
  ASSUME ~Cancellable, Base, Next, store' # store
  PROVE  Persist
  <1> USE DEF Base
  <1>1. CASE Producer \/ Publish \/ StoreFails \/ _evict_expired \/ Restart
    BY <1>1 DEF Producer, CreateTask, RegisterRoot, SendRoot, FailTask, Publish, StoreFails, _evict_expired,
       Restart, record
  <1>2. CASE (\E a \in Actors : _finalize_task(a)) \/ \E h, w \in Works : Enqueue(h, w)
    BY <1>2 DEF _finalize_task, Enqueue, record
  <1>3. CASE \E w \in Works : WorkerPlain(w)
    BY <1>3, EntersFacts, WorkerFacts
  <1>4. CASE BodyPlain
    BY <1>4, BodyHasRecord, BodyFacts
  <1> QED BY <1>1, <1>2, <1>3, <1>4, PlainSteps

LEMMA SettledStep ==
  ASSUME ~Cancellable, Base, DoneInv, DoneIsSettled, Next, ~Restart
  PROVE  DoneIsSettled'
  <1> SUFFICES ASSUME Status({"completed", "failed"})' PROVE Settled'
    BY DEF DoneIsSettled
  <1>1. CASE store' = store
    <2>1. Status({"completed", "failed"}) /\ Status(Terminal)
      BY <1>1 DEF Status, Terminal
    <2>2. Settled /\ ~Early
      BY <2>1, DoneNotEarly DEF DoneIsSettled
    <2> QED BY <2>2, SettledStays
  <1>2. CASE Persist
    <2>1. upd # None /\ store' = upd.rec
      BY <1>2 DEF Persist
    <2>2. upd.rec.status \in Terminal
      BY <2>1 DEF Status, Terminal
    <2>3. Settled /\ ~Early
      BY <2>1, <2>2, DoneNotEarly DEF DoneInv
    <2> QED BY <2>3, SettledStays
  <1> QED BY <1>1, <1>2, StoreChange

\* complete and fail "finalize after owned work settles": a task that nobody
\* cancels becomes completed or failed only when no handler of its messages runs
\* or has yet to run, its job included, and stays so until the process restarts.
THEOREM OutcomeAfterWork ==
  ASSUME ~Cancellable
  PROVE  Spec => OutcomeIsSettled
  <1>1. Init => Base /\ DoneInv
    BY InitBase DEF Init, DoneInv
  <1>2. Base /\ DoneInv /\ [Next]_vars => (Base /\ DoneInv)'
    BY BaseStep, DoneStep
  <1>3. Base /\ DoneInv /\ [Next]_vars => [DoneIsSettled /\ crashes' = crashes => DoneIsSettled']_vars
    <2> SUFFICES ASSUME Base, DoneInv, Next, DoneIsSettled, crashes' = crashes PROVE DoneIsSettled'
      OBVIOUS
    <2>1. ~Restart
      BY DEF Restart, Base, TypeOK
    <2> QED BY <2>1, SettledStep
  <1> QED BY <1>1, <1>2, <1>3, PTL DEF Spec, OutcomeIsSettled

-----------------------------------------------------------------------------
(* Without cancellation: the errors of descendants reach the record.       *)

\* Until the process restarts, a reported error is noted in the index or has
\* reached the record, and no record that is completed forgets one.
FailInv ==
  crashes = 0 =>
    /\ DoneIsSettled
    /\ bad # {} => failure \/ Status({"failed"})
    /\ Status({"completed"}) \/ (upd # None /\ upd.rec.status = "completed") => bad = {}

LEMMA NoCrash ==
  ASSUME Next, ~Restart
  PROVE  crashes' = crashes
  BY DEF Next, Progress, Environment, Producer, CreateTask, RegisterRoot, SendRoot, FailTask, cancel_active,
     Body, BodyCheck, BodyStart, BodyEnds, BodyFails, wait_for_descendants, BodyReturns, BodyUnwinds, BodyUnwound,
     Persist, Publish, _finalize_task, Worker, dequeue_raw, process_dequeued, register_active, on_cancelled,
     HandlerReturns, prepare_ack, ack, rollback_ack, InterruptHandler, InterruptAck, Sent, cancel,
     _evict_expired, BodyRaises, StoreFails, HandlerRaises, AckFails, Enqueue, bounds

\* How a step changes the noted failure and the reported errors.
LEMMA FailureFrame ==
  ASSUME ~Cancellable, Base, Next, ~Restart
  PROVE  \/ bad' \subseteq bad /\ (failure => failure')
         \/ bad' = bad /\ upd # None /\ upd.stored /\ upd.rec.status \in Terminal /\ store' = store
         \/ failure' /\ \E w \in Works : pc[w] = "run"
  <1> USE DEF Base
  <1>1. CASE Producer \/ Persist \/ StoreFails \/ _evict_expired
    BY <1>1 DEF Producer, CreateTask, RegisterRoot, SendRoot, FailTask, Persist, StoreFails, _evict_expired, index
  <1>2. CASE Publish
    BY <1>2 DEF Publish
  <1>3. CASE (\E a \in Actors : _finalize_task(a)) \/ \E h, w \in Works : Enqueue(h, w)
    BY <1>3 DEF _finalize_task, Enqueue, index
  <1>4. CASE \E w \in Works : WorkerPlain(w)
    <2>1. PICK w \in Works : WorkerPlain(w)
      BY <1>4
    <2>2. CASE HandlerReturns(w)
      BY <2>2 DEF HandlerReturns, Plain, PlaceInv, WorkerPlaces
    <2>3. CASE ~HandlerReturns(w)
      BY <2>1, <2>3 DEF WorkerPlain, dequeue_raw, process_dequeued, register_active, prepare_ack, ack,
         rollback_ack, HandlerRaises, AckFails, Sent, index
    <2> QED BY <2>2, <2>3
  <1>5. CASE BodyPlain
    BY <1>5, BodyHasRecord, BodyFacts
  <1> QED BY <1>1, <1>2, <1>3, <1>4, <1>5, PlainSteps

LEMMA FailStep ==
  ASSUME ~Cancellable, Base, DoneInv, FailInv, [Next]_vars
  PROVE  FailInv'
  <1>1. CASE UNCHANGED vars
    BY <1>1 DEF vars, FailInv, DoneIsSettled, Settled, Status
  <1>2. CASE Restart
    BY <1>2 DEF Restart, FailInv, Base, TypeOK
  <1>3. CASE Next /\ ~Restart
    <2>1. SUFFICES ASSUME crashes = 0 PROVE (/\ DoneIsSettled
                                             /\ bad # {} => failure \/ Status({"failed"})
                                             /\ Status({"completed"}) \/ (upd # None /\ upd.rec.status = "completed")
                                                  => bad = {})'
      BY <1>3, NoCrash DEF FailInv
    <2>2. /\ DoneIsSettled
          /\ bad # {} => failure \/ Status({"failed"})
          /\ Status({"completed"}) \/ (upd # None /\ upd.rec.status = "completed") => bad = {}
      BY <2>1 DEF FailInv
    <2>3. DoneIsSettled'
      BY <1>3, <2>2, SettledStep
    <2>4. Status({"failed"}) => Status({"failed"})'
      BY <1>3, StoreStep DEF Base, Status, Terminal
    <2>5. (bad # {} => failure \/ Status({"failed"}))'
      <3>1. CASE bad' \subseteq bad /\ (failure => failure')
        BY <2>2, <2>4, <3>1
      <3>2. CASE bad' = bad /\ upd # None /\ upd.stored /\ upd.rec.status \in Terminal /\ store' = store
        <4>1. store = upd.rec /\ upd.rec # None
          BY <3>2, RecordAssumption DEF Base, RecordInv, TypeOK, Updates
        <4>2. upd.rec.status # "cancelled"
          BY <3>2 DEF Base, Plain, Uncancelled
        <4> QED BY <2>2, <3>2, <4>1, <4>2 DEF Status, Terminal
      <3> QED BY <1>3, <3>1, <3>2, FailureFrame
    <2>6. ASSUME Status({"completed"})' \/ (upd' # None /\ upd'.rec.status = "completed")
          PROVE  bad' = {}
      <3>1. CASE Status({"completed"})' \/ (upd # None /\ upd.rec.status = "completed")
        <4>1. bad = {} /\ Settled
          <5>1. CASE upd # None /\ upd.rec.status = "completed"
            BY <2>2, <5>1 DEF DoneInv, Terminal
          <5>2. CASE store' = store /\ Status({"completed"})'
            BY <2>2, <5>2 DEF Status, DoneIsSettled
          <5>3. CASE Persist /\ Status({"completed"})'
            BY <5>1, <5>3 DEF Persist, Status
          <5> QED BY <1>3, <3>1, <5>1, <5>2, <5>3, StoreChange
        <4>2. \A w \in Works : pc[w] # "run"
          BY <4>1 DEF Settled
        <4> QED BY <1>3, <4>1, <4>2, FailureFrame
      <3>2. CASE upd' # None /\ upd'.rec.status = "completed" /\ ~(upd # None /\ upd.rec.status = "completed")
        <4>1. ~failure /\ ~Status(Terminal) /\ \E a \in Actors : _finalize_task(a)
          BY <1>3, <3>2, NewUpdate DEF Terminal
        <4>2. bad = {} /\ bad' = bad
          BY <2>2, <4>1 DEF Status, Terminal, _finalize_task
        <4> QED BY <4>2
      <3> QED BY <2>6, <3>1, <3>2
    <2> QED BY <2>3, <2>5, <2>6
  <1> QED BY <1>1, <1>2, <1>3

\* Without a restart, a task that nobody cancels is completed only if no
\* acknowledged descendant reported an error: _failures reaches the record.
THEOREM FailuresReachRecord ==
  ASSUME ~Cancellable
  PROVE  Spec => []FailureKept
  <1>1. Init => Base /\ DoneInv /\ FailInv
    BY InitBase DEF Init, DoneInv, FailInv, DoneIsSettled, Status
  <1>2. Base /\ DoneInv /\ FailInv /\ [Next]_vars => (Base /\ DoneInv /\ FailInv)'
    BY BaseStep, DoneStep, FailStep
  <1>3. FailInv => FailureKept
    BY DEF FailInv, FailureKept
  <1> QED BY <1>1, <1>2, <1>3, PTL DEF Spec

-----------------------------------------------------------------------------
(* Cancellation: a cancelled task admits no handler.                       *)

\* Handlers that run can be interrupted, and nobody resumes in one.
RunInv ==
  /\ \A w \in Works : pc[w] = "run" => w \in active
  /\ upd # None => upd.then # "run"
  /\ \A a \in Actors : ret[a] # "run"

\* A handler runs because it ran already, or because register_active let it in.
LEMMA Admitted ==
  ASSUME TypeOK, RunInv, Next, NEW w \in Works, pc'[w] = "run"
  PROVE  \/ pc[w] = "run" /\ (w \in active => w \in active')
         \/ pc[w] = "enter" /\ ~is_cancellation_requested /\ w \in active'
  <1> USE DistinctActors
  <1>1. CASE Producer
    BY <1>1 DEF Producer, CreateTask, RegisterRoot, SendRoot, FailTask, Update, _record_outcome, discard, Goto,
       index, TypeOK
  <1>2. CASE cancel \/ cancel_active \/ Persist \/ _evict_expired
    BY <1>2 DEF cancel, cancel_active, Persist, _evict_expired, Update, Goto, index, TypeOK
  <1>3. CASE Publish
    <2>1. active' = active /\ pc' = [pc EXCEPT ![upd.by] = upd.then] /\ upd # None /\ upd.then # "run"
      BY <1>3 DEF Publish, Goto, RunInv
    <2> QED BY <2>1 DEF TypeOK
  <1>4. CASE StoreFails
    <2>1. PICK q \in {"done", "idle", "raise", "failing", "rollback"} : pc' = [pc EXCEPT ![upd.by] = q]
      BY <1>4 DEF StoreFails, Goto
    <2>2. active' = active
      BY <1>4 DEF StoreFails, index
    <2> QED BY <2>1, <2>2 DEF TypeOK
  <1>5. CASE \E a \in Actors : _finalize_task(a)
    <2>1. PICK a \in Actors : _finalize_task(a)
      BY <1>5
    <2>2. active' = active /\ \E q \in {"store", ret[a]} : pc' = [pc EXCEPT ![a] = q]
      BY <2>1 DEF _finalize_task, Update, Goto, index
    <2>3. ret[a] # "run"
      BY DEF RunInv
    <2> QED BY <2>2, <2>3 DEF TypeOK
  <1>6. CASE Body \/ BodyRaises
    <2>1. CASE BodyReturns
      BY <2>1 DEF BodyReturns, Goto, TypeOK
    <2>2. CASE ~BodyReturns
      <3>1. active' = active /\ \E q : pc' = [pc EXCEPT !["body"] = q]
        BY <1>6, <2>2 DEF Body, BodyCheck, BodyStart, BodyEnds, BodyFails, wait_for_descendants, BodyUnwinds,
           BodyUnwound, BodyRaises, Update, _record_outcome, discard, Goto, index
      <3> QED BY <3>1 DEF TypeOK
    <2> QED BY <2>1, <2>2
  <1>7. CASE Restart
    BY <1>7 DEF Restart
  <1>8. CASE \E h, v \in Works : Enqueue(h, v)
    BY <1>8 DEF Enqueue
  <1>9. CASE \E v \in Works : Worker(v) \/ HandlerRaises(v) \/ AckFails(v)
    <2>1. PICK v \in Works : Worker(v) \/ HandlerRaises(v) \/ AckFails(v)
      BY <1>9
    <2>2. CASE register_active(v)
      BY <2>2 DEF register_active
    <2>3. CASE HandlerReturns(v) \/ HandlerRaises(v) \/ InterruptHandler(v)
      <3>1. active' = active \ {v} /\ \E q \in {"ack", "dead"} : pc' = [pc EXCEPT ![v] = q]
        BY <2>3 DEF HandlerReturns, HandlerRaises, InterruptHandler, Goto
      <3> QED BY <3>1 DEF TypeOK
    <2>4. CASE dequeue_raw(v) \/ process_dequeued(v) \/ on_cancelled(v) \/ prepare_ack(v) \/ ack(v)
               \/ rollback_ack(v) \/ AckFails(v)
      <3>1. /\ active' = active
            /\ \E q \in {"got", "oncancelled", "enter", "ack", "finalize", "write", "writeonly", "off", "rollback",
                         "dead"} : pc' = [pc EXCEPT ![v] = q]
        BY <2>4 DEF dequeue_raw, process_dequeued, on_cancelled, prepare_ack, ack, rollback_ack, AckFails,
           discard, Goto, index
      <3> QED BY <3>1 DEF TypeOK
    <2>5. CASE InterruptAck(v)
      <3>1. active' = active /\ (pc' = pc \/ \E q \in {"rollback", "dead"} : pc' = [pc EXCEPT ![v] = q])
        BY <2>5 DEF InterruptAck, Goto, index
      <3> QED BY <3>1 DEF TypeOK
    <2>6. CASE Sent(v)
      BY <2>6 DEF Sent, index
    <2> QED BY <2>1, <2>2, <2>3, <2>4, <2>5, <2>6 DEF Worker
  <1> QED BY <1>1, <1>2, <1>3, <1>4, <1>5, <1>6, <1>7, <1>8, <1>9 DEF Next, Progress, Environment

\* Where actors resume after a finalize.
LEMMA ResumeStep ==
  ASSUME TypeOK, RunInv, Next, NEW a \in Actors
  PROVE  ret'[a] # "run"
  <1> USE DistinctActors
  <1>1. ret[a] # "run"
    BY DEF RunInv
  <1>2. \/ ret' = ret
        \/ ret' = [b \in Actors |-> "off"]
        \/ \E b \in Actors, q \in {"done", "fail", "idle", "write", "wait", "return", "returnerr", "unwind"} :
             ret' = [ret EXCEPT ![b] = q]
    <2>1. CASE Producer \/ cancel \/ cancel_active \/ Persist \/ Publish \/ StoreFails \/ _evict_expired \/ Restart
      BY <2>1 DEF Producer, CreateTask, RegisterRoot, SendRoot, FailTask, cancel, cancel_active, Persist, Publish,
         StoreFails, _evict_expired, Restart, _record_outcome, discard
    <2>2. CASE Body \/ BodyRaises
      BY <2>2 DEF Body, BodyCheck, BodyStart, BodyEnds, BodyFails, wait_for_descendants, BodyReturns, BodyUnwinds,
         BodyUnwound, BodyRaises, _record_outcome, discard
    <2>3. CASE \E b \in Actors : _finalize_task(b)
      BY <2>3 DEF _finalize_task
    <2>4. CASE \E v \in Works : Worker(v) \/ HandlerRaises(v) \/ AckFails(v)
      BY <2>4 DEF Worker, dequeue_raw, process_dequeued, register_active, on_cancelled, HandlerReturns, prepare_ack,
         ack, rollback_ack, InterruptHandler, InterruptAck, Sent, HandlerRaises, AckFails, discard
    <2>5. CASE \E h, v \in Works : Enqueue(h, v)
      BY <2>5 DEF Enqueue
    <2> QED BY <2>1, <2>2, <2>3, <2>4, <2>5 DEF Next, Progress, Environment
  <1> QED BY <1>1, <1>2 DEF TypeOK

\* An update goes on, or is prepared; only a finalize that finds a cancelling
\* task without work prepares a cancelled record.
LEMMA UpdateChange ==
  ASSUME TypeOK, RecordInv, RunInv, Next, upd' # None
  PROVE  \/ upd # None /\ upd'.rec = upd.rec /\ upd'.then # "run"
         \/ /\ upd = None /\ upd'.then # "run"
            /\ upd'.rec.status = "cancelled" =>
                 work = {} /\ active = {} /\ Status({"cancelling"}) /\ \E a \in Actors : _finalize_task(a)
  <1> USE DistinctActors
  <1>1. CASE upd' = upd
    BY <1>1 DEF RunInv
  <1>2. ASSUME NEW a \in Actors, NEW res \in BOOLEAN, NEW err \in BOOLEAN,
               NEW l \in {"done", "wait", "return", "returnerr"}, _record_outcome(a, res, err, l)
        PROVE  upd = None /\ upd'.then = "finalize" /\ upd'.rec.status # "cancelled"
    <2>1. l \in PCs
      BY DEF PCs
    <2>2. upd = None /\ Prepared(a, "finalize") /\ upd'.rec.status \in Open
      BY <1>2, <2>1, RecordOutcomeFacts
    <2> QED BY <2>2 DEF Prepared, Open
  <1>3. CASE Producer
    <2>1. CASE CreateTask
      BY <2>1 DEF CreateTask, Update
    <2>2. CASE FailTask
      BY <1>2, <2>2 DEF FailTask
    <2>3. CASE RegisterRoot \/ SendRoot
      BY <1>1, <2>3 DEF RegisterRoot, SendRoot, record
    <2> QED BY <1>3, <2>1, <2>2, <2>3 DEF Producer
  <1>4. CASE cancel
    <2>1. CASE In(Open) /\ Update("canceller", [Rec EXCEPT !.status = "cancelling"], "interrupt")
      <3>1. Rec \in Records
        BY <2>1, RecType DEF In
      <3>2. upd = None /\ upd'.then = "interrupt" /\ upd'.rec = [Rec EXCEPT !.status = "cancelling"]
        BY <2>1 DEF Update
      <3> QED BY <3>1, <3>2 DEF Records
    <2> QED BY <1>1, <1>4, <2>1 DEF cancel
  <1>5. CASE Persist
    BY <1>5, PersistFacts DEF RunInv
  <1>6. CASE Publish \/ StoreFails \/ Restart
    BY <1>6 DEF Publish, StoreFails, Restart
  <1>7. CASE cancel_active \/ _evict_expired \/ \E h, v \in Works : Enqueue(h, v)
    BY <1>1, <1>7 DEF cancel_active, _evict_expired, Enqueue, record
  <1>8. CASE \E a \in Actors : _finalize_task(a)
    <2>1. PICK a \in Actors : _finalize_task(a)
      BY <1>8
    <2>2. CASE /\ Prepared(a, ret[a]) /\ work = {} /\ active = {} /\ store # None
               /\ upd'.rec.status = "cancelled" => store.status = "cancelling"
      BY <1>8, <2>2 DEF Prepared, Status, RunInv
    <2> QED BY <1>1, <2>1, <2>2, FinalizeFacts
  <1>9. CASE Body \/ BodyRaises
    <2>1. CASE BodyStart
      <3>1. CASE In(Open) /\ Update("body", [Rec EXCEPT !.status = "running"], "work")
        <4>1. Rec \in Records
          BY <3>1, RecType DEF In
        <4>2. upd = None /\ upd'.then = "work" /\ upd'.rec = [Rec EXCEPT !.status = "running"]
          BY <3>1 DEF Update
        <4> QED BY <4>1, <4>2 DEF Records
      <3> QED BY <1>1, <2>1, <3>1 DEF BodyStart
    <2>2. CASE BodyEnds \/ BodyFails \/ wait_for_descendants
      BY <1>2, <2>2 DEF BodyEnds, BodyFails, wait_for_descendants
    <2>3. CASE BodyCheck \/ BodyReturns \/ BodyUnwinds \/ BodyUnwound \/ BodyRaises
      BY <1>1, <2>3 DEF BodyCheck, BodyReturns, BodyUnwinds, BodyUnwound, BodyRaises, record
    <2> QED BY <1>9, <2>1, <2>2, <2>3 DEF Body
  <1>10. CASE \E v \in Works : Worker(v) \/ HandlerRaises(v) \/ AckFails(v)
    <2>1. PICK v \in Works : Worker(v) \/ HandlerRaises(v) \/ AckFails(v)
      BY <1>10
    <2>2. CASE InterruptAck(v)
      <3>1. CASE upd # None /\ upd' = [upd EXCEPT !.then = "rollback"]
        BY <3>1 DEF TypeOK, Updates
      <3> QED BY <1>1, <2>2, <3>1 DEF InterruptAck
    <2>3. CASE ~InterruptAck(v)
      BY <1>1, <2>1, <2>3 DEF Worker, dequeue_raw, process_dequeued, register_active, on_cancelled, HandlerReturns,
         prepare_ack, ack, rollback_ack, InterruptHandler, Sent, HandlerRaises, AckFails, record
    <2> QED BY <2>2, <2>3
  <1> QED BY <1>3, <1>4, <1>5, <1>6, <1>7, <1>8, <1>9, <1>10 DEF Next, Progress, Environment

LEMMA RunStep == TypeOK /\ RecordInv /\ RunInv /\ [Next]_vars => RunInv'
  <1> SUFFICES ASSUME TypeOK, RecordInv, RunInv, [Next]_vars PROVE RunInv'
    OBVIOUS
  <1>1. CASE UNCHANGED vars
    BY <1>1 DEF vars, RunInv
  <1>2. CASE Next
    <2>1. \A w \in Works : pc'[w] = "run" => w \in active'
      BY <1>2, Admitted DEF RunInv
    <2> QED BY <1>2, <2>1, UpdateChange, ResumeStep DEF RunInv
  <1> QED BY <1>1, <1>2

\* Only Persist, Publish, BodyCheck and a restart touch the two copies of the record.
LEMMA CopyFrame ==
  ASSUME ~CacheOverflows, RecordInv, Next
  PROVE  /\ store' = store \/ Persist
         /\ cache' = cache \/ Publish \/ Restart \/ (upd = None /\ cache' = store)
  <1>1. CASE Producer \/ cancel \/ cancel_active \/ Persist \/ Publish \/ StoreFails \/ _evict_expired \/ Restart
    BY <1>1 DEF Producer, CreateTask, RegisterRoot, SendRoot, FailTask, cancel, cancel_active, Persist, Publish,
       StoreFails, _evict_expired, Restart, record
  <1>2. CASE BodyCheck
    BY <1>2, RecFacts DEF BodyCheck
  <1>3. CASE (Body \/ BodyRaises) /\ ~BodyCheck
    BY <1>3 DEF Body, BodyStart, BodyEnds, BodyFails, wait_for_descendants, BodyReturns, BodyUnwinds,
       BodyUnwound, BodyRaises, record
  <1>4. CASE \E b \in Actors : _finalize_task(b)
    BY <1>4 DEF _finalize_task
  <1>5. CASE \E v \in Works : Worker(v) \/ HandlerRaises(v) \/ AckFails(v)
    BY <1>5 DEF Worker, dequeue_raw, process_dequeued, register_active, on_cancelled, HandlerReturns, prepare_ack,
       ack, rollback_ack, InterruptHandler, InterruptAck, Sent, HandlerRaises, AckFails, record
  <1>6. CASE \E h, v \in Works : Enqueue(h, v)
    BY <1>6 DEF Enqueue, record
  <1> QED BY <1>1, <1>2, <1>3, <1>4, <1>5, <1>6 DEF Next, Progress, Environment

\* The record is cancelled, or about to be.
Cancelled == Status({"cancelled"}) \/ (upd # None /\ upd.rec.status = "cancelled")

\* A cancelled task has no handler that runs; the next one sees the cancellation,
\* or there is nothing left to deliver.
CancelInv ==
  Cancelled => /\ \A w \in Works : pc[w] # "run"
               /\ is_cancellation_requested \/ (cache = None /\ Quiet)
               /\ Status({"cancelling", "cancelled"})

Guards == TypeOK /\ RecordInv /\ ControlInv /\ CacheInv /\ RunInv /\ CancelInv

LEMMA CancelStep ==
  ASSUME ~CacheOverflows, Guards, Next
  PROVE  CancelInv'
  <1> USE DEF Guards
  <1> SUFFICES ASSUME Cancelled' PROVE (/\ \A w \in Works : pc[w] # "run"
                                        /\ is_cancellation_requested \/ (cache = None /\ Quiet)
                                        /\ Status({"cancelling", "cancelled"}))'
    BY DEF CancelInv
  <1>1. CASE Restart
    <2>1. store' = store /\ upd' = None /\ cache' = (IF work' # {} THEN store ELSE None)
          /\ queue' = Recovered /\ work' = {w \in Works : Recovered[w] = "pending"}
          /\ pc'["producer"] = "done" /\ pc'["body"] = "off" /\ \A w \in Works : pc'[w] = "off" /\ send'[w] = None
      BY <1>1, DistinctActors DEF Restart
    <2>2. Status({"cancelled"}) /\ Status({"cancelled"})'
      BY <2>1 DEF Cancelled, Status
    <2>3. is_cancellation_requested' \/ (cache' = None /\ Quiet')
      BY <2>1, <2>2 DEF is_cancellation_requested, Status, Quiet
    <2> QED BY <2>1, <2>2, <2>3 DEF Status
  <1>2. CASE Cancelled /\ ~Restart
    <2>1. /\ \A w \in Works : pc[w] # "run"
          /\ is_cancellation_requested \/ (cache = None /\ Quiet)
          /\ Status({"cancelling", "cancelled"})
      BY <1>2 DEF CancelInv
    <2>2. \A w \in Works : pc'[w] # "run"
      BY <2>1, Admitted DEF Quiet
    <2>3. upd # None => upd.rec.status = "cancelled" /\ upd.rec # None
      <3>1. upd # None /\ Status({"cancelled"}) => upd.stored = TRUE
        BY DEF RecordInv, Status, Terminal, TypeOK, Updates
      <3> QED BY <1>2, <3>1, RecordAssumption DEF Cancelled, RecordInv, Status, TypeOK, Updates
    <2>4. Status({"cancelling", "cancelled"})'
      <3>1. CASE store' = store
        BY <2>1, <3>1 DEF Status
      <3>2. CASE Persist
        BY <2>3, <3>2 DEF Persist, Status
      <3> QED BY <3>1, <3>2, CopyFrame
    <2>5. CASE Publish
      BY <2>2, <2>3, <2>4, <2>5 DEF Publish, is_cancellation_requested
    <2>6. CASE ~Publish
      <3>1. cache' = cache \/ (upd = None /\ cache' = store)
        BY <1>2, <2>6, CopyFrame
      <3>2. CASE upd = None /\ cache' = store
        <4>1. Status({"cancelled"})
          BY <1>2, <3>2 DEF Cancelled
        <4> QED BY <2>2, <2>4, <3>2, <4>1 DEF Status, is_cancellation_requested
      <3>3. CASE cache' = cache
        <4>1. CASE is_cancellation_requested
          BY <2>2, <2>4, <3>3, <4>1 DEF is_cancellation_requested
        <4>2. CASE cache = None /\ Quiet
          <5>1. store # None
            BY <2>1 DEF Status
          <5>2. Quiet'
            BY <1>2, <2>6, <4>2, <5>1, QuietStep
          <5> QED BY <2>2, <2>4, <3>3, <4>2, <5>2
        <4> QED BY <2>1, <4>1, <4>2
      <3> QED BY <3>1, <3>2, <3>3
    <2> QED BY <2>5, <2>6
  <1>3. CASE ~Cancelled /\ ~Restart
    <2>1. ~Status({"cancelled"})'
      <3>1. CASE store' = store
        BY <1>3, <3>1 DEF Cancelled, Status
      <3>2. CASE Persist
        BY <1>3, <3>2 DEF Cancelled, Persist, Status
      <3> QED BY <3>1, <3>2, CopyFrame
    <2>2. upd' # None /\ upd'.rec.status = "cancelled"
      BY <2>1 DEF Cancelled
    <2>3. /\ upd = None /\ work = {} /\ active = {} /\ Status({"cancelling"})
          /\ \E a \in Actors : _finalize_task(a)
      BY <1>3, <2>2, UpdateChange DEF Cancelled
    <2>4. UNCHANGED <<store, cache>>
      BY <2>3 DEF _finalize_task
    <2>5. \A w \in Works : pc'[w] # "run"
      <3>1. active' = {}
        BY <2>3 DEF _finalize_task, index
      <3> QED BY <3>1, RunStep DEF RunInv
    <2>6. cache = store \/ cache = None
      BY <2>3 DEF RecordInv
    <2>7. CASE cache = store
      BY <2>3, <2>4, <2>5, <2>7 DEF Status, is_cancellation_requested
    <2>8. CASE cache = None
      <3>1. Quiet /\ store # None
        BY <2>3, <2>8 DEF CacheInv, Status
      <3>2. ~Publish
        BY <2>3 DEF Publish
      <3>3. Quiet'
        BY <1>3, <2>8, <3>1, <3>2, QuietStep
      <3> QED BY <2>3, <2>4, <2>5, <2>8, <3>3 DEF Status
    <2> QED BY <2>6, <2>7, <2>8
  <1> QED BY <1>1, <1>2, <1>3

\* TaskWorkIndex.register_active and process_dequeued ask for cancellation: with a
\* tracker that does not overflow, once the stored record says cancelled no handler
\* of the task runs or is admitted, messages delivered again after a restart included.
THEOREM CancelledIsQuiet ==
  ASSUME ~CacheOverflows
  PROVE  Spec => []CancelledRunsNothing
  <1>1. Init => Guards
    <2> SUFFICES ASSUME Init PROVE Guards
      OBVIOUS
    <2>1. TypeOK /\ RecordInv /\ ControlInv /\ CacheInv
      BY InitType, DistinctActors DEF Init, RecordInv, ControlInv, LabelInv, RootInv, BodyInv, QueueInv, CacheInv,
         Entry
    <2>2. RunInv /\ CancelInv
      BY DistinctActors DEF Init, RunInv, CancelInv, Cancelled, Status
    <2> QED BY <2>1, <2>2 DEF Guards
  <1>2. Guards /\ [Next]_vars => Guards'
    <2> SUFFICES ASSUME Guards, [Next]_vars PROVE Guards'
      OBVIOUS
    <2>1. TypeOK' /\ RecordInv' /\ ControlInv' /\ CacheInv' /\ RunInv'
      BY TypeStep, RecordStep, ControlStep, CacheStep, RunStep DEF Guards
    <2>2. CASE UNCHANGED vars
      BY <2>1, <2>2 DEF vars, Guards, CancelInv, Cancelled, Status, is_cancellation_requested, Quiet
    <2>3. CASE Next
      BY <2>1, <2>3, CancelStep DEF Guards
    <2> QED BY <2>2, <2>3
  <1>3. Guards => CancelledRunsNothing
    BY DEF Guards, CancelInv, Cancelled, CancelledRunsNothing
  <1> QED BY <1>1, <1>2, <1>3, PTL DEF Spec

=============================================================================
