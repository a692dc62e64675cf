--------------------------- MODULE TaskWorkProofs ---------------------------
(***************************************************************************)
(* What holds of a task for any number of messages, restarts and faults.   *)
(***************************************************************************)
EXTENDS TaskWork, TLAPS

-----------------------------------------------------------------------------
(* Type correctness *)

LEMMA GotoType ==
  ASSUME TypeOK, NEW a \in Actors, NEW l \in PCs, Goto(a, l)
  PROVE  pc' \in [Actors -> PCs]
  BY DEF TypeOK, Goto

LEMMA UpdateType ==
  ASSUME TypeOK, NEW a \in Actors, NEW rec \in Records, NEW l \in PCs, Update(a, rec, l)
  PROVE  upd' \in Updates \cup {None} /\ pc' \in [Actors -> PCs]
  <1>1. pc' \in [Actors -> PCs]
    BY GotoType DEF Update, PCs
  <1>2. upd' \in Updates
    BY DEF Update, Updates
  <1> QED BY <1>1, <1>2

LEMMA RecType ==
  ASSUME TypeOK, Rec # None
  PROVE  /\ Rec \in Records
         /\ Rec.status \in Statuses /\ Rec.result \in BOOLEAN /\ Rec.error \in BOOLEAN
  <1>1. Rec \in Records
    BY DEF TypeOK, Rec
  <1> QED BY <1>1 DEF Records

LEMMA OutcomeType ==
  ASSUME TypeOK, NEW a \in Actors, NEW res \in BOOLEAN, NEW err \in BOOLEAN,
         NEW l \in PCs, _record_outcome(a, res, err, l)
  PROVE  /\ upd' \in Updates \cup {None} /\ pc' \in [Actors -> PCs]
         /\ ret' \in [Actors -> PCs]
  <1>1. ret' \in [Actors -> PCs]
    BY DEF TypeOK, _record_outcome
  <1>2. "finalize" \in PCs
    BY DEF PCs
  <1>3. CASE In(Open)
    <2> DEFINE rec == [status |-> Rec.status, result |-> Rec.result \/ res,
                       error |-> Rec.error \/ err \/ failure]
    <2>1. rec \in Records
      <3>1. Rec.status \in Statuses
        BY <1>3, RecType DEF In
      <3>2. (Rec.result \/ res) \in BOOLEAN /\ (Rec.error \/ err \/ failure) \in BOOLEAN
        OBVIOUS
      <3> QED BY <3>1, <3>2 DEF Records
    <2>2. Update(a, rec, "finalize")
      BY <1>3 DEF _record_outcome
    <2> QED BY <1>1, <1>2, <2>1, <2>2, UpdateType
  <1>4. CASE ~In(Open)
    BY <1>1, <1>2, <1>4, GotoType DEF _record_outcome, TypeOK, Updates
  <1> QED BY <1>3, <1>4

LEMMA FinalizedType ==
  ASSUME TypeOK, Outcome # None
  PROVE  Rec # None /\ Finalized \in Records
  <1>1. Rec # None /\ Outcome \in Statuses
    BY DEF Outcome, In, Statuses, Terminal
  <1>2. Rec.result \in BOOLEAN
    BY <1>1, RecType
  <1>3. (Rec.error \/ Outcome = "failed") \in BOOLEAN
    OBVIOUS
  <1> QED BY <1>1, <1>2, <1>3 DEF Finalized, Records

LEMMA DiscardType ==
  ASSUME TypeOK, NEW a \in Actors, NEW w, NEW l \in PCs, discard(a, w, l)
  PROVE  /\ work' \subseteq Works /\ pc' \in [Actors -> PCs] /\ ret' \in [Actors -> PCs]
  BY DEF TypeOK, discard, Goto, PCs

LEMMA SendType ==
  ASSUME TypeOK, NEW h \in Works, GiveUpSend(h)
  PROVE  send' \in [Works -> Works \cup {None}] /\ queue' \in [Works -> MsgStates]
  <1>1. send' \in [Works -> Works \cup {None}]
    BY DEF TypeOK, GiveUpSend
  <1>2. CASE send[h] = None
    BY <1>1, <1>2 DEF TypeOK, GiveUpSend
  <1>3. CASE send[h] # None
    BY <1>1, <1>3 DEF TypeOK, GiveUpSend, MsgStates
  <1> QED BY <1>2, <1>3

LEMMA RecordTypes ==
  ASSUME TypeOK, Producer \/ cancel \/ cancel_active \/ Persist \/ Publish \/ StoreFails
                   \/ _evict_expired
  PROVE  TypeOK'
  <1> USE WorkAssumption
  <1>1. CASE CreateTask
    <2>1. [status |-> "pending", result |-> FALSE, error |-> FALSE] \in Records
      BY DEF Records, Statuses
    <2>2. upd' \in Updates \cup {None} /\ pc' \in [Actors -> PCs]
      BY <1>1, <2>1, UpdateType DEF CreateTask, PCs, Actors
    <2> QED BY <1>1, <2>2 DEF CreateTask, TypeOK, index, bounds, Updates
  <1>2. CASE RegisterRoot
    <2>1. pc' \in [Actors -> PCs]
      BY <1>2, GotoType DEF RegisterRoot, PCs, Actors
    <2>2. work' \subseteq Works /\ queue' \in [Works -> MsgStates]
      BY <1>2 DEF RegisterRoot, register, TypeOK, MsgStates
    <2> QED BY <1>2, <2>1, <2>2 DEF RegisterRoot, TypeOK, record, bounds
  <1>3. CASE SendRoot
    <2>1. /\ work' \subseteq Works /\ pc' \in [Actors -> PCs] /\ ret' \in [Actors -> PCs]
      BY <1>3, GotoType, DiscardType DEF SendRoot, PCs, Actors, TypeOK
    <2>2. queue' \in [Works -> MsgStates] /\ faults' \in 0 .. MaxFaults
      BY <1>3 DEF SendRoot, TypeOK, MsgStates
    <2> QED BY <1>3, <2>1, <2>2 DEF SendRoot, TypeOK, record
  <1>4. CASE FailTask
    <2>1. /\ upd' \in Updates \cup {None} /\ pc' \in [Actors -> PCs]
          /\ ret' \in [Actors -> PCs]
      BY <1>4, OutcomeType DEF FailTask, PCs, Actors
    <2> QED BY <1>4, <2>1 DEF FailTask, TypeOK, index, bounds, Updates
  <1>5. CASE cancel
    <2>1. CASE In(Open) /\ Update("canceller", [Rec EXCEPT !.status = "cancelling"], "interrupt")
      <3>1. [Rec EXCEPT !.status = "cancelling"] \in Records
        BY <2>1, RecType DEF In, Records, Statuses
      <3>2. upd' \in Updates \cup {None} /\ pc' \in [Actors -> PCs]
        BY <2>1, <3>1, UpdateType DEF PCs, Actors
      <3> QED BY <1>5, <3>2 DEF cancel, TypeOK, index, bounds, Updates
    <2>2. CASE Goto("canceller", "interrupt") /\ UNCHANGED upd
      <3>1. pc' \in [Actors -> PCs]
        BY <2>2, GotoType DEF PCs, Actors
      <3> QED BY <1>5, <2>2, <3>1 DEF cancel, TypeOK, index, bounds
    <2> QED BY <1>5, <2>1, <2>2 DEF cancel
  <1>6. CASE cancel_active
    <2>1. pc' \in [Actors -> PCs] /\ ret' \in [Actors -> PCs]
      BY <1>6, GotoType DEF cancel_active, TypeOK, PCs, Actors
    <2> QED BY <1>6, <2>1 DEF cancel_active, TypeOK, record, index, bounds
  <1>7. CASE Persist
    BY <1>7 DEF Persist, TypeOK, Updates, index, bounds
  <1>8. CASE Publish
    <2>1. upd.by \in Actors /\ upd.then \in PCs /\ upd.rec \in Records
      BY <1>8 DEF Publish, TypeOK, Updates
    <2>2. pc' \in [Actors -> PCs]
      BY <1>8, <2>1, GotoType DEF Publish
    <2>3. failure' \in BOOLEAN
      BY <1>8 DEF Publish
    <2> QED BY <1>8, <2>1, <2>2, <2>3 DEF Publish, TypeOK, bounds
  <1>9. CASE StoreFails
    <2>1. upd.by \in Actors
      BY <1>9 DEF StoreFails, TypeOK, Updates
    <2>2. pc' \in [Actors -> PCs]
      BY <1>9, <2>1, GotoType DEF StoreFails, PCs
    <2> QED BY <1>9, <2>2 DEF StoreFails, TypeOK, index
  <1>10. CASE _evict_expired
    BY <1>10 DEF _evict_expired, TypeOK, index, bounds
  <1> QED BY <1>1, <1>2, <1>3, <1>4, <1>5, <1>6, <1>7, <1>8, <1>9, <1>10 DEF Producer

LEMMA FinalizeType ==
  ASSUME TypeOK, NEW a \in Actors, _finalize_task(a)
  PROVE  TypeOK'
  <1>1. ret[a] \in PCs
    BY DEF TypeOK
  <1>2. CASE Goto(a, ret[a]) /\ UNCHANGED upd
    <2>1. pc' \in [Actors -> PCs]
      BY <1>1, <1>2, GotoType
    <2> QED BY <1>2, <2>1 DEF _finalize_task, TypeOK, index, bounds
  <1>3. CASE Outcome # None /\ Update(a, Finalized, ret[a])
    <2>1. upd' \in Updates \cup {None} /\ pc' \in [Actors -> PCs]
      BY <1>1, <1>3, FinalizedType, UpdateType
    <2> QED BY <2>1 DEF _finalize_task, TypeOK, index, bounds, Updates
  <1> QED BY <1>2, <1>3 DEF _finalize_task

LEMMA WorkerTypes ==
  ASSUME TypeOK, NEW w \in Works,
         Worker(w) \/ HandlerRaises(w) \/ AckFails(w) \/ (\E v \in Works : Enqueue(w, v))
  PROVE  TypeOK'
  <1> USE WorkAssumption
  <1>a. w \in Actors
    BY DEF Actors
  <1>1. CASE dequeue_raw(w) \/ process_dequeued(w) \/ on_cancelled(w) \/ ack(w)
          \/ rollback_ack(w) \/ AckFails(w) \/ HandlerReturns(w) \/ HandlerRaises(w)
    <2>1. pc' \in [Actors -> PCs]
      BY <1>1, <1>a, GotoType DEF dequeue_raw, process_dequeued, on_cancelled, ack,
           rollback_ack, AckFails, HandlerReturns, HandlerRaises, PCs
    <2>2. CASE dequeue_raw(w) \/ process_dequeued(w) \/ on_cancelled(w)
      BY <2>1, <2>2 DEF dequeue_raw, process_dequeued, on_cancelled, TypeOK, MsgStates,
           record, index, bounds
    <2>3. CASE ack(w) \/ rollback_ack(w) \/ AckFails(w)
      BY <2>1, <2>3 DEF ack, rollback_ack, AckFails, TypeOK, MsgStates, record, index, bounds
    <2>4. CASE HandlerReturns(w) \/ HandlerRaises(w)
      <3>1. failure' \in BOOLEAN /\ bad' \subseteq Works /\ active' \subseteq Works
        BY <2>4 DEF HandlerReturns, HandlerRaises, TypeOK
      <3>2. faults' \in 0 .. MaxFaults
        BY <2>4 DEF HandlerReturns, HandlerRaises, TypeOK, bounds
      <3> QED BY <2>1, <2>4, <3>1, <3>2 DEF HandlerReturns, HandlerRaises, TypeOK, record, bounds
    <2> QED BY <1>1, <2>2, <2>3, <2>4
  <1>2. CASE register_active(w)
    <2>1. pc' \in [Actors -> PCs]
      BY <1>2 DEF register_active, TypeOK, PCs
    <2> QED BY <1>2, <2>1 DEF register_active, TypeOK, record, bounds
  <1>3. CASE prepare_ack(w)
    <2>1. /\ work' \subseteq Works /\ pc' \in [Actors -> PCs] /\ ret' \in [Actors -> PCs]
      BY <1>3, <1>a, GotoType, DiscardType DEF prepare_ack, PCs, TypeOK
    <2> QED BY <1>3, <2>1 DEF prepare_ack, TypeOK, record, bounds
  <1>4. CASE InterruptHandler(w)
    <2>1. pc' \in [Actors -> PCs]
      BY <1>4, <1>a, GotoType DEF InterruptHandler, PCs
    <2>2. send' \in [Works -> Works \cup {None}] /\ queue' \in [Works -> MsgStates]
      BY <1>4, SendType DEF InterruptHandler, TypeOK
    <2>3. work' \subseteq Works /\ bodyCancel' \in BOOLEAN
      BY <1>4 DEF InterruptHandler, TypeOK
    <2> QED BY <1>4, <2>1, <2>2, <2>3 DEF InterruptHandler, TypeOK, record, bounds
  <1>5. CASE InterruptAck(w)
    <2>1. pc' \in [Actors -> PCs] /\ queue' \in [Works -> MsgStates]
      BY <1>5, <1>a, GotoType DEF InterruptAck, TypeOK, PCs, MsgStates
    <2>2. upd' \in Updates \cup {None}
      <3>1. CASE UNCHANGED upd
        BY <3>1 DEF TypeOK, Updates
      <3>2. CASE upd # None /\ upd' = [upd EXCEPT !.then = "rollback"]
        BY <3>2 DEF TypeOK, Updates, PCs
      <3> QED BY <1>5, <3>1, <3>2 DEF InterruptAck
    <2> QED BY <1>5, <2>1, <2>2 DEF InterruptAck, TypeOK, index, bounds, Updates
  <1>6. CASE Sent(w)
    BY <1>6 DEF Sent, TypeOK, MsgStates, record, index, bounds
  <1>7. CASE \E v \in Works : Enqueue(w, v)
    BY <1>7 DEF Enqueue, register, TypeOK, MsgStates, record, bounds
  <1> QED BY <1>1, <1>2, <1>3, <1>4, <1>5, <1>6, <1>7 DEF Worker

LEMMA BodyTypes ==
  ASSUME TypeOK, Body \/ BodyRaises
  PROVE  TypeOK'
  <1> USE WorkAssumption
  <1>a. "body" \in Actors /\ Root \in Actors
    BY DEF Actors
  <1>1. CASE BodyCheck
    <2>1. pc' \in [Actors -> PCs]
      BY <1>1, <1>a, GotoType DEF BodyCheck, PCs
    <2> QED BY <1>1, <2>1 DEF BodyCheck, Rec, TypeOK, index, bounds
  <1>2. CASE BodyStart
    <2>1. CASE In(Open) /\ Update("body", [Rec EXCEPT !.status = "running"], "work")
      <3>1. [Rec EXCEPT !.status = "running"] \in Records
        BY <2>1, RecType DEF In, Records, Statuses
      <3>2. upd' \in Updates \cup {None} /\ pc' \in [Actors -> PCs]
        BY <1>a, <2>1, <3>1, UpdateType DEF PCs
      <3> QED BY <1>2, <3>2 DEF BodyStart, TypeOK, index, bounds, Updates
    <2>2. CASE Goto("body", "work") /\ UNCHANGED upd
      <3>1. pc' \in [Actors -> PCs]
        BY <1>a, <2>2, GotoType DEF PCs
      <3> QED BY <1>2, <2>2, <3>1 DEF BodyStart, TypeOK, index, bounds
    <2> QED BY <1>2, <2>1, <2>2 DEF BodyStart
  <1>3. CASE BodyEnds \/ BodyFails \/ wait_for_descendants
    <2>1. /\ upd' \in Updates \cup {None} /\ pc' \in [Actors -> PCs]
          /\ ret' \in [Actors -> PCs]
      BY <1>3, <1>a, OutcomeType DEF BodyEnds, BodyFails, wait_for_descendants, PCs
    <2> QED BY <1>3, <2>1 DEF BodyEnds, BodyFails, wait_for_descendants, TypeOK, index,
              bounds, Updates
  <1>4. CASE BodyReturns
    <2>1. pc' \in [Actors -> PCs]
      BY <1>4, <1>a DEF BodyReturns, Goto, TypeOK, PCs
    <2>2. failure' \in BOOLEAN
      BY <1>4 DEF BodyReturns
    <2> QED BY <1>4, <2>1, <2>2 DEF BodyReturns, TypeOK, record, bounds
  <1>5. CASE BodyUnwinds
    <2>1. send' \in [Works -> Works \cup {None}] /\ queue' \in [Works -> MsgStates]
      BY <1>5, SendType DEF BodyUnwinds
    <2>2. /\ work' \subseteq Works /\ pc' \in [Actors -> PCs] /\ ret' \in [Actors -> PCs]
      BY <1>5, <1>a, GotoType, DiscardType DEF BodyUnwinds, TypeOK, PCs
    <2> QED BY <1>5, <2>1, <2>2 DEF BodyUnwinds, TypeOK, record, bounds
  <1>6. CASE BodyUnwound \/ BodyRaises
    <2>1. pc' \in [Actors -> PCs]
      BY <1>6, <1>a, GotoType DEF BodyUnwound, BodyRaises, PCs
    <2> QED BY <1>6, <2>1 DEF BodyUnwound, BodyRaises, TypeOK, record, index, bounds
  <1> QED BY <1>1, <1>2, <1>3, <1>4, <1>5, <1>6 DEF Body

LEMMA RestartType ==
  ASSUME TypeOK, Restart
  PROVE  TypeOK'
  <1>1. Recovered \in [Works -> MsgStates]
    BY DEF Recovered, TypeOK, MsgStates
  <1>2. cache' \in Records \cup {None}
    BY DEF Restart, TypeOK
  <1>3. pc' \in [Actors -> PCs] /\ ret' \in [Actors -> PCs]
    BY DEF Restart, PCs
  <1>4. queue' \in [Works -> MsgStates] /\ work' \subseteq Works
    BY <1>1 DEF Restart
  <1>5. crashes' \in 0 .. MaxCrashes
    BY WorkAssumption DEF Restart, TypeOK
  <1>6. /\ send' \in [Works -> Works \cup {None}] /\ active' \subseteq Works
        /\ interrupts' \subseteq Works /\ upd' = None
        /\ failure' \in BOOLEAN /\ bodyCancel' \in BOOLEAN
    BY DEF Restart
  <1> QED BY <1>2, <1>3, <1>4, <1>5, <1>6 DEF Restart, TypeOK

LEMMA TypeStep == TypeOK /\ [Next]_vars => TypeOK'
  <1> SUFFICES ASSUME TypeOK, [Next]_vars PROVE TypeOK'
    OBVIOUS
  <1>1. CASE UNCHANGED vars
    BY <1>1 DEF TypeOK, vars
  <1>2. CASE \E a \in Actors : _finalize_task(a)
    BY <1>2, FinalizeType
  <1>3. CASE \E w \in Works : Worker(w) \/ HandlerRaises(w) \/ AckFails(w)
    BY <1>3, WorkerTypes
  <1>4. CASE \E h, w \in Works : Enqueue(h, w)
    BY <1>4, WorkerTypes
  <1> QED BY <1>1, <1>2, <1>3, <1>4, RecordTypes, BodyTypes, RestartType
        DEF Next, Progress, Environment

LEMMA InitType == Init => TypeOK
  <1> SUFFICES ASSUME Init PROVE TypeOK
    OBVIOUS
  <1>1. queue \in [Works -> MsgStates] /\ send \in [Works -> Works \cup {None}]
    BY DEF Init, MsgStates
  <1>2. pc \in [Actors -> PCs] /\ ret \in [Actors -> PCs]
    BY DEF Init, PCs
  <1>3. crashes \in 0 .. MaxCrashes /\ faults \in 0 .. MaxFaults
    BY WorkAssumption DEF Init
  <1>4. failure \in BOOLEAN /\ bodyCancel \in BOOLEAN
    BY DEF Init
  <1> QED BY <1>1, <1>2, <1>3, <1>4 DEF Init, TypeOK

\* Every variable keeps its type, whatever the number of messages, restarts and
\* faults.
THEOREM TypeCorrect == Spec => []TypeOK
  BY InitType, TypeStep, PTL DEF Spec

-----------------------------------------------------------------------------
(* Terminal records *)

\* Between updates the cache has no record or the stored one; an update that is
\* not stored yet was prepared from a record that was not terminal.
RecordInv ==
  /\ upd = None \/ ~upd.stored => cache = None \/ cache = store
  /\ upd # None /\ ~upd.stored => ~Status(Terminal)
  /\ upd # None /\ upd.stored => store = upd.rec

LEMMA RecFacts ==
  ASSUME RecordInv, upd = None
  PROVE  Rec = store
  BY DEF RecordInv, Rec

\* An update prepared from a record that is not terminal.
LEMMA UpdateRecord ==
  ASSUME RecordInv, NEW a, NEW r, NEW l, Update(a, r, l), UNCHANGED <<store, cache>>,
         Rec = None \/ In(Open \cup {"cancelling"})
  PROVE  RecordInv'
  <1>1. upd = None /\ Rec = store
    BY RecFacts DEF Update
  <1>2. ~Status(Terminal)
    BY <1>1 DEF In, Open, Terminal, Status
  <1>3. upd'.stored = FALSE
    BY DEF Update
  <1> QED BY <1>1, <1>2, <1>3 DEF RecordInv, Status

LEMMA OutcomeRecord ==
  ASSUME RecordInv, NEW a, NEW res, NEW err, NEW l, _record_outcome(a, res, err, l),
         UNCHANGED <<store, cache>>
  PROVE  RecordInv'
  <1>1. CASE UNCHANGED upd
    BY <1>1 DEF RecordInv, Status
  <1>2. CASE In(Open)
    <2>1. Update(a, [status |-> Rec.status, result |-> Rec.result \/ res,
                     error |-> Rec.error \/ err \/ failure], "finalize")
      BY <1>2 DEF _record_outcome
    <2>2. In(Open \cup {"cancelling"})
      BY <1>2 DEF In
    <2> QED BY <2>1, <2>2, UpdateRecord
  <1> QED BY <1>1, <1>2 DEF _record_outcome

LEMMA RecordStep == TypeOK /\ RecordInv /\ [Next]_vars => RecordInv'
  <1> SUFFICES ASSUME TypeOK, RecordInv, [Next]_vars PROVE RecordInv'
    OBVIOUS
  <1>1. CASE UNCHANGED record
    BY <1>1 DEF record, RecordInv, Status
  <1>2. CASE CreateTask
    <2>1. Update("producer", [status |-> "pending", result |-> FALSE, error |-> FALSE],
                 "register")
      BY <1>2 DEF CreateTask
    <2> QED BY <1>2, <2>1, UpdateRecord DEF CreateTask
  <1>3. CASE FailTask
    BY <1>3, OutcomeRecord DEF FailTask
  <1>4. CASE cancel
    <2>1. CASE In(Open) /\ Update("canceller", [Rec EXCEPT !.status = "cancelling"], "interrupt")
      <3>1. In(Open \cup {"cancelling"})
        BY <2>1 DEF In
      <3> QED BY <1>4, <2>1, <3>1, UpdateRecord DEF cancel
    <2>2. CASE UNCHANGED upd
      BY <1>1, <1>4, <2>2 DEF cancel, record
    <2> QED BY <1>4, <2>1, <2>2 DEF cancel
  <1>5. CASE Persist
    <2>1. upd' \in Updates /\ upd'.stored = TRUE /\ upd'.rec = upd.rec /\ store' = upd.rec
      BY <1>5 DEF Persist, TypeOK, Updates
    <2> QED BY <2>1, RecordAssumption DEF RecordInv
  <1>6. CASE Publish
    BY <1>6 DEF Publish, RecordInv
  <1>7. CASE StoreFails
    BY <1>7 DEF StoreFails, RecordInv
  <1>8. CASE _evict_expired
    BY <1>8 DEF _evict_expired, RecordInv, Status
  <1>9. ASSUME NEW a \in Actors, _finalize_task(a) PROVE RecordInv'
    <2>1. CASE UNCHANGED upd
      BY <1>1, <1>9, <2>1 DEF _finalize_task, record
    <2>2. CASE Outcome # None /\ Update(a, Finalized, ret[a])
      <3>1. In(Open \cup {"cancelling"})
        BY <2>2 DEF Outcome, In
      <3> QED BY <1>9, <2>2, <3>1, UpdateRecord DEF _finalize_task
    <2> QED BY <1>9, <2>1, <2>2 DEF _finalize_task
  <1>10. ASSUME NEW w \in Works, InterruptAck(w) PROVE RecordInv'
    <2>1. CASE UNCHANGED upd
      BY <1>1, <1>10, <2>1 DEF InterruptAck, record
    <2>2. CASE upd # None /\ upd' = [upd EXCEPT !.then = "rollback"]
      <3>1. /\ upd' \in Updates /\ upd' # None
            /\ upd'.stored = upd.stored /\ upd'.rec = upd.rec
        BY <2>2, RecordAssumption DEF TypeOK, Updates, PCs
      <3>2. store' = store /\ cache' = cache
        BY <1>10 DEF InterruptAck
      <3> QED BY <2>2, <3>1, <3>2 DEF RecordInv, Status
    <2> QED BY <1>10, <2>1, <2>2 DEF InterruptAck
  <1>11. CASE BodyCheck
    BY <1>11, RecFacts DEF BodyCheck, RecordInv
  <1>12. CASE BodyStart
    <2>1. CASE In(Open) /\ Update("body", [Rec EXCEPT !.status = "running"], "work")
      <3>1. In(Open \cup {"cancelling"})
        BY <2>1 DEF In
      <3> QED BY <1>12, <2>1, <3>1, UpdateRecord DEF BodyStart
    <2>2. CASE UNCHANGED upd
      BY <1>1, <1>12, <2>2 DEF BodyStart, record
    <2> QED BY <1>12, <2>1, <2>2 DEF BodyStart
  <1>13. CASE BodyEnds \/ BodyFails \/ wait_for_descendants
    BY <1>13, OutcomeRecord DEF BodyEnds, BodyFails, wait_for_descendants
  <1>14. CASE Restart
    BY <1>14 DEF Restart, RecordInv
  <1>15. CASE \E w \in Works : Worker(w) /\ ~InterruptAck(w)
    BY <1>1, <1>15 DEF Worker, dequeue_raw, process_dequeued, register_active, on_cancelled,
         HandlerReturns, prepare_ack, ack, rollback_ack, InterruptHandler, Sent
  <1>16. CASE \E w \in Works : HandlerRaises(w) \/ AckFails(w)
    BY <1>1, <1>16 DEF HandlerRaises, AckFails
  <1>17. CASE \E h, w \in Works : Enqueue(h, w)
    BY <1>1, <1>17 DEF Enqueue
  <1>18. CASE RegisterRoot \/ SendRoot \/ cancel_active
    BY <1>1, <1>18 DEF RegisterRoot, SendRoot, cancel_active
  <1>19. CASE BodyReturns \/ BodyUnwinds \/ BodyUnwound \/ BodyRaises
    BY <1>1, <1>19 DEF BodyReturns, BodyUnwinds, BodyUnwound, BodyRaises
  <1>20. CASE UNCHANGED vars
    BY <1>1, <1>20 DEF vars, record
  <1> QED BY <1>2, <1>3, <1>4, <1>5, <1>6, <1>7, <1>8, <1>9, <1>10, <1>11, <1>12, <1>13,
            <1>14, <1>15, <1>16, <1>17, <1>18, <1>19, <1>20
        DEF Next, Progress, Environment, Producer, Body

\* Only a record that is not terminal is overwritten.
LEMMA StoreStep ==
  ASSUME RecordInv, [Next]_vars, Status(Terminal)
  PROVE  store' = store
  <1>1. CASE Persist
    BY <1>1 DEF Persist, RecordInv
  <1>2. CASE UNCHANGED store
    BY <1>2
  <1>3. CASE UNCHANGED vars
    BY <1>3 DEF vars
  <1>4. CASE Producer \/ cancel \/ cancel_active \/ Publish \/ StoreFails \/ _evict_expired
    BY <1>2, <1>4 DEF Producer, CreateTask, RegisterRoot, SendRoot, FailTask, cancel,
         cancel_active, Publish, StoreFails, _evict_expired, record
  <1>5. CASE Body \/ BodyRaises \/ Restart \/ \E a \in Actors : _finalize_task(a)
    BY <1>2, <1>5 DEF Body, BodyCheck, BodyStart, BodyEnds, BodyFails, wait_for_descendants,
         BodyReturns, BodyUnwinds, BodyUnwound, BodyRaises, Restart, _finalize_task, record
  <1>6. CASE \E w \in Works : Worker(w)
    BY <1>2, <1>6 DEF Worker, dequeue_raw, process_dequeued, register_active, on_cancelled,
         HandlerReturns, prepare_ack, ack, rollback_ack, InterruptHandler, InterruptAck,
         Sent, record
  <1>7. CASE \/ \E w \in Works : HandlerRaises(w) \/ AckFails(w)
             \/ \E h, w \in Works : Enqueue(h, w)
    BY <1>2, <1>7 DEF HandlerRaises, AckFails, Enqueue, record
  <1> QED BY <1>1, <1>3, <1>4, <1>5, <1>6, <1>7 DEF Next, Progress, Environment

\* A stored terminal record never changes: neither a late outcome of a cancelled
\* job, nor a cancellation, nor a message delivered again after a restart, nor the
\* loss of the cached copy touches it.
THEOREM TerminalStays == Spec => TerminalIsFinal
  <1>1. Init => TypeOK /\ RecordInv
    BY InitType DEF Init, RecordInv
  <1>2. RecordInv /\ [Next]_vars => [Status(Terminal) => store' = store]_vars
    BY StoreStep
  <1> QED BY <1>1, <1>2, TypeStep, RecordStep, PTL DEF Spec, TerminalIsFinal

-----------------------------------------------------------------------------
(* Cancellation stops new work *)

Entry == {"create", "send", "got", "enter"}

\* Whoever updates the record waits for it; nobody resumes at the start of a
\* handler or of a send.
LabelInv ==
  /\ upd # None => pc[upd.by] = "store" /\ upd.then \notin Entry
  /\ \A a \in Actors : ret[a] \notin Entry \cup {"register"}

\* The producer has the root message to itself until it is written.
RootInv ==
  /\ queue[Root] # "new" => /\ pc["producer"] \notin {"create", "register"}
                            /\ upd # None /\ upd.by = "producer" => upd.then # "register"
  /\ pc["producer"] = "send" => queue[Root] = "sending"

\* The job runs only for a root message that has been taken from the queue.
BodyInv ==
  queue[Root] \in {"new", "sending", "pending"} \/ pc[Root] \in {"got", "enter"}
    => pc["body"] = "off"

\* Where the write of each message stands.
QueueInv ==
  /\ \A h \in Works : send[h] # None => queue[send[h]] = "sending" /\ send[h] # Root
  /\ \A h, g \in Works : send[h] # None /\ send[h] = send[g] => h = g
  /\ \A w \in Works : pc[w] # "off" => queue[w] \in {"processing", "gone"}

ControlInv == LabelInv /\ RootInv /\ BodyInv /\ QueueInv

LEMMA DistinctActors ==
  /\ Works \subseteq Actors /\ Root \in Works
  /\ "producer" \in Actors \ Works /\ "canceller" \in Actors \ Works
  /\ "body" \in Actors \ Works
  BY WorkAssumption, ActorAssumption DEF Actors

LEMMA ProducerControl ==
  ASSUME TypeOK, ControlInv, Producer
  PROVE  ControlInv'
  <1> USE DistinctActors, RecordAssumption, ActorAssumption DEF ControlInv
  <1>1. CASE CreateTask
    BY <1>1 DEF CreateTask, Update, Goto, LabelInv, RootInv, BodyInv, QueueInv, Entry, TypeOK, index, bounds, Updates
  <1>2. CASE RegisterRoot
    BY <1>2 DEF RegisterRoot, register, Goto, LabelInv, RootInv, BodyInv, QueueInv, Entry, TypeOK, record, bounds, Updates
  <1>3. CASE SendRoot
    BY <1>3 DEF SendRoot, discard, Goto, LabelInv, RootInv, BodyInv, QueueInv, Entry, TypeOK, record, Updates
  <1>4. CASE FailTask
    BY <1>4 DEF FailTask, _record_outcome, Update, Goto, LabelInv, RootInv, BodyInv, QueueInv, Entry, TypeOK, index, bounds, Updates
  <1> QED BY <1>1, <1>2, <1>3, <1>4 DEF Producer

LEMMA RecordControl ==
  ASSUME TypeOK, ControlInv,
         cancel \/ cancel_active \/ Persist \/ Publish \/ StoreFails \/ _evict_expired
  PROVE  ControlInv'
  <1> USE DistinctActors, RecordAssumption, ActorAssumption DEF ControlInv
  <1>1. CASE cancel
    BY <1>1 DEF cancel, Update, Goto, LabelInv, RootInv, BodyInv, QueueInv, Entry, TypeOK,
         index, bounds, Updates
  <1>2. CASE cancel_active
    BY <1>2 DEF cancel_active, Goto, LabelInv, RootInv, BodyInv, QueueInv, Entry, TypeOK,
         record, index, bounds, Updates
  <1>3. CASE Persist
    BY <1>3 DEF Persist, LabelInv, RootInv, BodyInv, QueueInv, Entry, TypeOK, index, bounds,
         Updates
  <1>4. CASE Publish
    BY <1>4 DEF Publish, Goto, LabelInv, RootInv, BodyInv, QueueInv, Entry, TypeOK, bounds,
         Updates
  <1>5. CASE StoreFails
    BY <1>5 DEF StoreFails, Goto, LabelInv, RootInv, BodyInv, QueueInv, Entry, TypeOK, index,
         Updates
  <1>6. CASE _evict_expired
    BY <1>6 DEF _evict_expired, LabelInv, RootInv, BodyInv, QueueInv, index, bounds
  <1> QED BY <1>1, <1>2, <1>3, <1>4, <1>5, <1>6

LEMMA FinalizeControl ==
  ASSUME TypeOK, ControlInv, NEW a \in Actors, _finalize_task(a)
  PROVE  ControlInv'
  BY DistinctActors, RecordAssumption, ActorAssumption
     DEF ControlInv, _finalize_task, Update, Goto, LabelInv, RootInv, BodyInv, QueueInv,
         Entry, TypeOK, index, bounds, Updates

LEMMA WorkerControl ==
  ASSUME TypeOK, ControlInv, NEW w \in Works,
         Worker(w) \/ HandlerRaises(w) \/ AckFails(w) \/ (\E v \in Works : Enqueue(w, v))
  PROVE  ControlInv'
  <1> USE DistinctActors, RecordAssumption, ActorAssumption
      DEF ControlInv, LabelInv, RootInv, BodyInv, QueueInv, Entry, TypeOK, Updates
  <1>1. CASE dequeue_raw(w)
    BY <1>1 DEF dequeue_raw, Goto, record, index, bounds
  <1>2. CASE process_dequeued(w) \/ on_cancelled(w)
    BY <1>2 DEF process_dequeued, on_cancelled, Goto, record, index, bounds
  <1>3. CASE register_active(w)
    BY <1>3 DEF register_active, record, bounds
  <1>4. CASE HandlerReturns(w) \/ HandlerRaises(w)
    BY <1>4 DEF HandlerReturns, HandlerRaises, Goto, record, bounds
  <1>5. CASE prepare_ack(w)
    BY <1>5 DEF prepare_ack, discard, Goto, record, bounds
  <1>6. CASE ack(w)
    BY <1>6 DEF ack, Goto, record, index, bounds
  <1>7. CASE rollback_ack(w) \/ AckFails(w)
    BY <1>7 DEF rollback_ack, AckFails, Goto, record, index, bounds
  <1>8. CASE InterruptHandler(w)
    BY <1>8 DEF InterruptHandler, GiveUpSend, Goto, record, bounds
  <1>9. CASE InterruptAck(w)
    BY <1>9 DEF InterruptAck, Goto, index, bounds
  <1>10. CASE Sent(w)
    BY <1>10 DEF Sent, record, index, bounds
  <1>11. CASE \E v \in Works : Enqueue(w, v)
    BY <1>11 DEF Enqueue, register, record, bounds
  <1> QED BY <1>1, <1>2, <1>3, <1>4, <1>5, <1>6, <1>7, <1>8, <1>9, <1>10, <1>11 DEF Worker

LEMMA BodyControl ==
  ASSUME TypeOK, ControlInv, Body \/ BodyRaises
  PROVE  ControlInv'
  <1> USE DistinctActors, RecordAssumption, ActorAssumption
      DEF ControlInv, LabelInv, RootInv, BodyInv, QueueInv, Entry, TypeOK, Updates
  <1>1. CASE BodyCheck
    BY <1>1 DEF BodyCheck, Goto, index, bounds
  <1>2. CASE BodyStart
    BY <1>2 DEF BodyStart, Update, Goto, index, bounds
  <1>3. CASE BodyEnds \/ BodyFails \/ wait_for_descendants
    BY <1>3 DEF BodyEnds, BodyFails, wait_for_descendants, _record_outcome, Update, Goto,
         index, bounds
  <1>4. CASE BodyReturns
    BY <1>4 DEF BodyReturns, Goto, record, bounds
  <1>5. CASE BodyUnwinds
    BY <1>5 DEF BodyUnwinds, GiveUpSend, discard, Goto, record, bounds
  <1>6. CASE BodyUnwound \/ BodyRaises
    BY <1>6 DEF BodyUnwound, BodyRaises, Goto, record, index, bounds
  <1> QED BY <1>1, <1>2, <1>3, <1>4, <1>5, <1>6 DEF Body

LEMMA RestartControl ==
  ASSUME TypeOK, ControlInv, Restart
  PROVE  ControlInv'
  BY DistinctActors, ActorAssumption
     DEF ControlInv, LabelInv, RootInv, BodyInv, QueueInv, Entry, TypeOK, Restart

LEMMA ControlStep == TypeOK /\ ControlInv /\ [Next]_vars => ControlInv'
  <1> SUFFICES ASSUME TypeOK, ControlInv, [Next]_vars PROVE ControlInv'
    OBVIOUS
  <1>1. CASE UNCHANGED vars
    BY <1>1 DEF vars, ControlInv, LabelInv, RootInv, BodyInv, QueueInv
  <1>2. CASE \E a \in Actors : _finalize_task(a)
    BY <1>2, FinalizeControl
  <1>3. CASE \E w \in Works : Worker(w) \/ HandlerRaises(w) \/ AckFails(w)
    BY <1>3, WorkerControl
  <1>4. CASE \E h, w \in Works : Enqueue(h, w)
    BY <1>4, WorkerControl
  <1> QED BY <1>1, <1>2, <1>3, <1>4, ProducerControl, RecordControl, BodyControl,
            RestartControl
        DEF Next, Progress, Environment

\* No coroutine of the task can enqueue anything any more.
Quiet ==
  /\ pc["producer"] \notin {"register", "send"}
  /\ pc["body"] = "off"
  /\ \A w \in Works : pc[w] = "off" /\ send[w] = None /\ queue[w] # "pending"

\* A cache that does not overflow misses a stored record only after a restart that
\* found no message of the task.
CacheInv ==
  cache = None /\ store # None /\ (upd = None \/ ~upd.stored) => Quiet

LEMMA QuietStep ==
  ASSUME TypeOK, ControlInv, Quiet, cache = None, store # None, Next, ~Publish, ~Restart
  PROVE  Quiet'
  <1> USE DistinctActors, RecordAssumption, ActorAssumption
      DEF ControlInv, LabelInv, RootInv, Entry, TypeOK, Updates, Quiet
  <1>1. CASE Producer
    BY <1>1 DEF Producer, CreateTask, RegisterRoot, SendRoot, FailTask, Rec, _record_outcome,
         Update, Goto, index, bounds
  <1>2. CASE cancel \/ cancel_active
    BY <1>2 DEF cancel, cancel_active, Update, Goto, record, index, bounds
  <1>3. CASE Persist \/ StoreFails \/ _evict_expired
    BY <1>3 DEF Persist, StoreFails, _evict_expired, Goto, index, bounds
  <1>4. CASE \E a \in Actors : _finalize_task(a)
    BY <1>4 DEF _finalize_task, Update, Goto, index, bounds
  <1>5. CASE \E w \in Works : Worker(w) \/ HandlerRaises(w) \/ AckFails(w)
    BY <1>5 DEF Worker, dequeue_raw, process_dequeued, register_active, on_cancelled,
         HandlerReturns, HandlerRaises, prepare_ack, ack, AckFails, rollback_ack,
         InterruptHandler, InterruptAck, Sent, Goto, record, index, bounds
  <1>6. CASE Body \/ BodyRaises \/ \E h, w \in Works : Enqueue(h, w)
    BY <1>6 DEF Body, BodyCheck, BodyStart, BodyEnds, BodyFails, wait_for_descendants,
         BodyReturns, BodyUnwinds, BodyUnwound, BodyRaises, Enqueue, Running
  <1> QED BY <1>1, <1>2, <1>3, <1>4, <1>5, <1>6 DEF Next, Progress, Environment

\* No other step hides a stored record.
LEMMA CacheFrame ==
  ASSUME TypeOK, ~CacheOverflows, Next, ~Publish, ~Restart,
         cache' = None, store' # None, upd' = None \/ ~upd'.stored
  PROVE  cache = None /\ store # None /\ (upd = None \/ ~upd.stored)
  <1>1. CASE UNCHANGED record
    BY <1>1 DEF record
  <1>2. CASE UNCHANGED <<store, cache>> /\ upd = None
    BY <1>2
  <1>3. CASE CreateTask \/ FailTask \/ cancel
    BY <1>1, <1>2, <1>3 DEF CreateTask, FailTask, cancel, _record_outcome, Update, record
  <1>4. CASE RegisterRoot \/ SendRoot \/ cancel_active
    BY <1>1, <1>4 DEF RegisterRoot, SendRoot, cancel_active
  <1>5. CASE Persist
    <2>1. upd' \in Updates /\ upd'.stored = TRUE
      BY <1>5 DEF Persist, TypeOK, Updates
    <2> QED BY <2>1, RecordAssumption
  <1>6. CASE StoreFails
    BY <1>6 DEF StoreFails
  <1>7. CASE _evict_expired
    BY <1>7 DEF _evict_expired
  <1>8. CASE \E a \in Actors : _finalize_task(a)
    BY <1>1, <1>2, <1>8 DEF _finalize_task, Update, record
  <1>9. CASE \E w \in Works : InterruptAck(w)
    <2>1. PICK w \in Works : InterruptAck(w)
      BY <1>9
    <2>2. store' = store /\ cache' = cache
      BY <2>1 DEF InterruptAck
    <2>3. CASE upd # None /\ upd' = [upd EXCEPT !.then = "rollback"]
      BY <2>2, <2>3, RecordAssumption DEF TypeOK, Updates, PCs
    <2>4. CASE UNCHANGED upd
      BY <2>2, <2>4
    <2> QED BY <2>1, <2>3, <2>4 DEF InterruptAck
  <1>10. CASE BodyCheck
    BY <1>10 DEF BodyCheck, Rec
  <1>11. CASE BodyStart \/ BodyEnds \/ BodyFails \/ wait_for_descendants
    BY <1>1, <1>2, <1>11 DEF BodyStart, BodyEnds, BodyFails, wait_for_descendants,
         _record_outcome, Update, record
  <1>12. CASE BodyReturns \/ BodyUnwinds \/ BodyUnwound \/ BodyRaises
    BY <1>1, <1>12 DEF BodyReturns, BodyUnwinds, BodyUnwound, BodyRaises
  <1>13. CASE \E w \in Works : Worker(w) /\ ~InterruptAck(w)
    BY <1>1, <1>13 DEF Worker, dequeue_raw, process_dequeued, register_active, on_cancelled,
         HandlerReturns, prepare_ack, ack, rollback_ack, InterruptHandler, Sent
  <1>14. CASE \/ \E w \in Works : HandlerRaises(w) \/ AckFails(w)
              \/ \E h, w \in Works : Enqueue(h, w)
    BY <1>1, <1>14 DEF HandlerRaises, AckFails, Enqueue
  <1> QED BY <1>3, <1>4, <1>5, <1>6, <1>7, <1>8, <1>9, <1>10, <1>11, <1>12, <1>13, <1>14
        DEF Next, Progress, Environment, Producer, Body

LEMMA CacheStep ==
  ASSUME ~CacheOverflows
  PROVE  TypeOK /\ ControlInv /\ CacheInv /\ [Next]_vars => CacheInv'
  <1> SUFFICES ASSUME TypeOK, ControlInv, CacheInv, [Next]_vars PROVE CacheInv'
    OBVIOUS
  <1>1. CASE UNCHANGED vars
    BY <1>1 DEF vars, CacheInv, Quiet
  <1>2. CASE Publish
    BY <1>2, RecordAssumption DEF Publish, CacheInv, TypeOK, Updates
  <1>3. CASE Restart
    BY <1>3, DistinctActors DEF Restart, CacheInv, Quiet
  <1>4. CASE Next /\ ~Publish /\ ~Restart
    BY <1>4, CacheFrame, QuietStep DEF CacheInv
  <1> QED BY <1>1, <1>2, <1>3, <1>4

\* Once cancellation is requested, visibly or in a quiet task, no message appears.
LEMMA NoNewStep ==
  ASSUME TypeOK, RecordInv, ControlInv, CacheInv, Next,
         upd = None, Status({"cancelling", "cancelled"}),
         NEW v \in Works, queue[v] = "new"
  PROVE  queue'[v] = "new"
  <1> USE DistinctActors, RecordAssumption, ActorAssumption
      DEF ControlInv, LabelInv, RootInv, QueueInv, Entry, TypeOK, Updates
  <1>1. is_cancellation_requested \/ Quiet
    BY DEF RecordInv, CacheInv, Status, is_cancellation_requested
  <1>2. CASE RegisterRoot
    BY <1>1, <1>2 DEF RegisterRoot, register, Quiet
  <1>3. CASE \E h, w \in Works : Enqueue(h, w)
    BY <1>1, <1>3 DEF Enqueue, register, Quiet, Running
  <1>4. CASE SendRoot
    BY <1>4 DEF SendRoot
  <1>5. CASE \E w \in Works : Worker(w)
    BY <1>5 DEF Worker, dequeue_raw, process_dequeued, register_active, on_cancelled,
         HandlerReturns, prepare_ack, ack, rollback_ack, InterruptHandler, InterruptAck,
         Sent, GiveUpSend
  <1>6. CASE BodyUnwinds
    BY <1>6 DEF BodyUnwinds, GiveUpSend
  <1>7. CASE Restart
    BY <1>7 DEF Restart, Recovered
  <1>8. CASE \/ CreateTask \/ FailTask \/ cancel \/ cancel_active \/ Persist \/ Publish
             \/ StoreFails \/ _evict_expired \/ \E a \in Actors : _finalize_task(a)
    BY <1>8 DEF CreateTask, FailTask, cancel, cancel_active, Persist, Publish, StoreFails,
         _evict_expired, _finalize_task
  <1>9. CASE \/ BodyCheck \/ BodyStart \/ BodyEnds \/ BodyFails \/ wait_for_descendants
             \/ BodyReturns \/ BodyUnwound \/ BodyRaises
             \/ \E w \in Works : HandlerRaises(w) \/ AckFails(w)
    BY <1>9 DEF BodyCheck, BodyStart, BodyEnds, BodyFails, wait_for_descendants,
         BodyReturns, BodyUnwound, BodyRaises, HandlerRaises, AckFails
  <1> QED BY <1>2, <1>3, <1>4, <1>5, <1>6, <1>7, <1>8, <1>9
        DEF Next, Progress, Environment, Producer, Body

\* If the tracker's cache does not overflow, a task whose cancellation has been
\* published never gets another queue message: every enqueue is refused, by its
\* producer, by its handlers and by the handlers that run again after a restart.
THEOREM CancelStopsWork ==
  ASSUME ~CacheOverflows
  PROVE  Spec => NoNewWork
  <1> DEFINE IInv == TypeOK /\ RecordInv /\ ControlInv /\ CacheInv
  <1>1. Init => IInv
    BY InitType, DistinctActors
       DEF Init, RecordInv, ControlInv, LabelInv, RootInv, BodyInv, QueueInv, CacheInv, Entry
  <1>2. IInv /\ [Next]_vars => IInv'
    BY TypeStep, RecordStep, ControlStep, CacheStep
  <1>3. IInv /\ [Next]_vars =>
          [upd = None /\ Status({"cancelling", "cancelled"}) =>
             \A w \in Works : queue[w] = "new" => queue'[w] = "new"]_vars
    BY NoNewStep
  <1> QED BY <1>1, <1>2, <1>3, PTL DEF Spec, NoNewWork
=============================================================================
