----------------------- MODULE SemanticRefreshProofs -----------------------
(***************************************************************************)
(* Proofs about SemanticRefresh: types and the lease on the sidecars, and, *)
(* for the messages of one user, that no accepted change is forgotten.     *)
(*                                                                         *)
(* The argument: only the handler of the newest message may write, so only *)
(* one snapshot is ever consumed at a time; whatever was counted when that *)
(* snapshot was taken was on disk already and is read after it, and what   *)
(* is counted later is not consumed.                                       *)
(***************************************************************************)
EXTENDS SemanticRefresh, TLAPS

\* A message is stored by a writer that is done, and handled while it is processed.
Order ==
    \A w \in Writers :
      /\ message[w] # "none" => writer[w].pc = "done"
      /\ handler[w].pc # "none" => message[w] = "processing"

Typed == TypeOK /\ Order

\* A version belongs to one message.
Versions ==
    /\ \A w \in Writers :
         /\ version[w] <= latest[KeyOf[w]]
         /\ writer[w].pc = "store" \/ message[w] # "none" => version[w] > 0
    /\ \A v, w \in Writers : v # w /\ KeyOf[v] = KeyOf[w] /\ version[v] = version[w] => version[v] = 0

\* What is on disk was written by a writer of that file that has started.
Known(c, f) == c \in Writers => FileOf[c] = f /\ writer[c].pc # "idle"

DiskInv ==
    /\ \A f \in Files : Known(disk[f], f) /\ (f \notin Created => disk[f] # Absent)
    /\ \A w \in Writers : writer[w].pc # "idle" =>
         /\ Known(writer[w].prev, FileOf[w])
         /\ FileOf[w] \notin Created => writer[w].prev # Absent

\* The content of f has been counted.
Clean(f) == \A w \in Writers : FileOf[w] = f => writer[w].pc # "failed"

Counted(f) ==
    /\ f \in Files \ Created /\ Clean(f)
    /\ disk[f] \in Writers /\ writer[disk[f]].pc \in {"count2", "enqueue", "store", "done"}

\* Between its two writes a count is what the overview says.
CountInv ==
    \A w \in Writers : AtW(w, "count2") =>
      sidecar["overview"].pending = writer[w].after /\ writer[w].after >= sidecar["abstract"].pending

Shown == \A f \in Files : Counted(f) => sidecar["overview"].body[f] = disk[f] \/ Pending > 0

\* A generation that may be written consumes nothing it has not read.
ReadInv ==
    \A m \in Writers :
      /\ handler[m].pc \in {"snapshot", "snapshot2"} => Files \ Created \subseteq handler[m].todo
      /\ handler[m].pc = "write" => handler[m].todo = {}
      /\ handler[m].pc \in {"read", "write"} /\ ~is_stale(m) =>
           /\ Pending >= handler[m].snap
           /\ \A f \in Files : Counted(f) =>
                \/ handler[m].body[f] = disk[f] \/ f \in handler[m].todo
                \/ Pending > handler[m].snap

\* Between the overview and the abstract.
HalfInv ==
    \A n \in Writers : AtH(n, "write2") =>
      /\ sidecar["overview"].pending = handler[n].snap
      /\ \A f \in Files : Counted(f) => sidecar["overview"].body[f] = disk[f] \/ handler[n].snap > 0
      /\ \A m \in Writers : m # n /\ ~is_stale(m) => handler[m].pc \notin {"read", "write"}

Inv == Typed /\ Versions /\ DiskInv /\ CountInv /\ Shown /\ ReadInv /\ HalfInv

\* All messages coalesce with one another: one user.
OneKey == \A v, w \in Writers : KeyOf[v] = KeyOf[w]

-----------------------------------------------------------------------------
(* Types.                                                                  *)

WriterPcs  == {"idle", "plan", "count", "count2", "enqueue", "store", "rollback", "done", "failed"}
HandlerPcs == {"none", "list", "snapshot", "snapshot2", "read", "write", "write2", "end"}

DiskType    == disk \in Bodies
SideType    == sidecar \in [Sidecars -> [body : Bodies, pending : Nat]]
QueueType   ==
    /\ latest \in [Keys -> Nat] /\ version \in [Writers -> Nat]
    /\ message \in [Writers -> {"none", "pending", "processing", "gone"}]
WriterType  == writer \in [Writers -> [pc : WriterPcs, prev : Contents, after : Nat]]
HandlerType == handler \in [Writers -> [pc : HandlerPcs, todo : SUBSET Files, snap : Nat, body : Bodies]]
CountType   == faults \in 0 .. MaxFaults

\* Who is at a step that needs the lease on the sidecars has it.
Leased ==
    /\ lease \in Writers \cup {None}
    /\ \A w \in Writers :
         /\ writer[w].pc \in {"count", "count2"} => lease = w
         /\ handler[w].pc \in {"snapshot2", "write", "write2"} => lease = w

LEMMA TypedGroups ==
  Typed <=> /\ DiskType /\ SideType /\ QueueType /\ WriterType /\ HandlerType /\ CountType
            /\ Leased /\ Order
BY DEF Typed, TypeOK, DiskType, SideType, QueueType, WriterType, HandlerType, CountType, Leased,
   WriterPcs, HandlerPcs, AtW, AtH

LEMMA TypedJoin ==
  (/\ DiskType' /\ SideType' /\ QueueType' /\ WriterType' /\ HandlerType' /\ CountType'
   /\ Leased' /\ Order') => Typed'
BY DEF Typed, TypeOK, DiskType, SideType, QueueType, WriterType, HandlerType, CountType, Leased,
   WriterPcs, HandlerPcs, AtW, AtH

LEMMA Unmoved ==
  /\ DiskType /\ UNCHANGED disk => DiskType'
  /\ SideType /\ UNCHANGED sidecar => SideType'
  /\ QueueType /\ UNCHANGED <<latest, message, version>> => QueueType'
  /\ WriterType /\ UNCHANGED writer => WriterType'
  /\ HandlerType /\ UNCHANGED handler => HandlerType'
  /\ CountType /\ UNCHANGED faults => CountType'
BY DEF DiskType, SideType, QueueType, WriterType, HandlerType, CountType

LEMMA ToWFacts ==
  ASSUME WriterType, NEW w \in Writers, NEW p \in WriterPcs, ToW(w, p)
  PROVE  /\ WriterType'
         /\ \A v \in Writers : /\ writer'[v].pc = IF v = w THEN p ELSE writer[v].pc
                               /\ writer'[v].prev = writer[v].prev /\ writer'[v].after = writer[v].after
BY DEF WriterType, ToW

LEMMA ToHFacts ==
  ASSUME HandlerType, NEW m \in Writers, NEW p \in HandlerPcs, ToH(m, p)
  PROVE  /\ HandlerType'
         /\ \A n \in Writers : /\ handler'[n].pc = IF n = m THEN p ELSE handler[n].pc
                               /\ handler'[n].todo = handler[n].todo /\ handler'[n].snap = handler[n].snap
                               /\ handler'[n].body = handler[n].body
BY DEF HandlerType, ToH

LEMMA PendingFacts ==
  ASSUME SideType
  PROVE  /\ sidecar["overview"].pending \in Nat /\ sidecar["abstract"].pending \in Nat
         /\ sidecar["overview"].body \in Bodies
         /\ Pending \in Nat /\ Pending >= sidecar["overview"].pending /\ Pending >= sidecar["abstract"].pending
         /\ Pending = sidecar["overview"].pending \/ Pending = sidecar["abstract"].pending
<1>1. sidecar["overview"].pending \in Nat /\ sidecar["abstract"].pending \in Nat
      /\ sidecar["overview"].body \in Bodies
  BY DEF SideType, Sidecars
<1> QED BY <1>1 DEF Pending

LEMMA WriteFacts ==
  ASSUME DiskType, WriterType, NEW w \in Writers, Write(w)
  PROVE  /\ DiskType' /\ WriterType'
         /\ \A f \in Files : disk'[f] = IF f = FileOf[w] THEN w ELSE disk[f]
         /\ writer'[w].pc = "plan" /\ writer'[w].prev = disk[FileOf[w]]
         /\ \A v \in Writers : v # w => writer'[v] = writer[v]
<1>1. FileOf[w] \in Files
  BY InstanceAssumption
<1>2. disk[FileOf[w]] \in Contents
  BY <1>1 DEF DiskType, Bodies
<1>3. [pc |-> "plan", prev |-> disk[FileOf[w]], after |-> 0] \in [pc : WriterPcs, prev : Contents, after : Nat]
  BY <1>2 DEF WriterPcs
<1>4. WriterType' /\ writer'[w].pc = "plan" /\ writer'[w].prev = disk[FileOf[w]]
      /\ \A v \in Writers : v # w => writer'[v] = writer[v]
  BY <1>3 DEF Write, WriterType
<1>5. DiskType' /\ \A f \in Files : disk'[f] = IF f = FileOf[w] THEN w ELSE disk[f]
  BY <1>1 DEF Write, DiskType, Bodies, Contents
<1> QED BY <1>4, <1>5

LEMMA CountFacts ==
  ASSUME SideType, WriterType, NEW w \in Writers, Count(w)
  PROVE  /\ SideType' /\ WriterType'
         /\ sidecar'["overview"].pending = Pending + 1
         /\ sidecar'["overview"].body = sidecar["overview"].body
         /\ sidecar'["abstract"] = sidecar["abstract"]
         /\ writer'[w].pc = "count2" /\ writer'[w].after = Pending + 1 /\ writer'[w].prev = writer[w].prev
         /\ \A v \in Writers : v # w => writer'[v] = writer[v]
<1> DEFINE p == Pending + 1
<1>1. p \in Nat
  BY PendingFacts
<1>2. writer' = [writer EXCEPT ![w].pc = "count2", ![w].after = p]
      /\ sidecar' = [sidecar EXCEPT !["overview"].pending = p]
  BY DEF Count
<1> HIDE DEF p
<1>3. WriterType' /\ writer'[w].pc = "count2" /\ writer'[w].after = p /\ writer'[w].prev = writer[w].prev
      /\ \A v \in Writers : v # w => writer'[v] = writer[v]
  BY <1>1, <1>2 DEF WriterType, WriterPcs
<1>4. SideType' /\ sidecar'["overview"].pending = p /\ sidecar'["overview"].body = sidecar["overview"].body
      /\ sidecar'["abstract"] = sidecar["abstract"]
  BY <1>1, <1>2 DEF SideType, Sidecars
<1> QED BY <1>3, <1>4 DEF p

LEMMA CountBothFacts ==
  ASSUME SideType, WriterType, NEW w \in Writers, CountBoth(w)
  PROVE  /\ SideType' /\ WriterType'
         /\ sidecar'["abstract"].pending = writer[w].after
         /\ sidecar'["overview"] = sidecar["overview"]
         /\ \A v \in Writers : /\ IF v = w THEN writer'[v].pc \in {"enqueue", "done"}
                                  ELSE writer'[v].pc = writer[v].pc
                               /\ writer'[v].prev = writer[v].prev /\ writer'[v].after = writer[v].after
<1>1. writer[w].after \in Nat
  BY DEF WriterType
<1>2. SideType' /\ sidecar'["abstract"].pending = writer[w].after /\ sidecar'["overview"] = sidecar["overview"]
  BY <1>1 DEF CountBoth, SideType, Sidecars
<1>3. PICK p \in {"enqueue", "done"} : ToW(w, p)
  BY DEF CountBoth
<1>4. p \in WriterPcs
  BY DEF WriterPcs
<1> QED BY <1>2, <1>3, <1>4, ToWFacts

LEMMA VersionFacts ==
  ASSUME QueueType, NEW m \in Writers, NewVersion(m)
  PROVE  /\ latest' \in [Keys -> Nat] /\ version' \in [Writers -> Nat]
         /\ version'[m] = latest[KeyOf[m]] + 1 /\ latest'[KeyOf[m]] = latest[KeyOf[m]] + 1
         /\ \A v \in Writers : v # m => version'[v] = version[v]
         /\ \A v \in Writers : KeyOf[v] # KeyOf[m] => latest'[KeyOf[v]] = latest[KeyOf[v]]
         /\ \A v \in Writers : latest[KeyOf[v]] \in Nat
<1>1. \A v \in Writers : KeyOf[v] \in Keys
  BY DEF Keys
<1>2. \A v \in Writers : latest[KeyOf[v]] \in Nat
  BY <1>1 DEF QueueType
<1>3. latest' \in [Keys -> Nat] /\ latest'[KeyOf[m]] = latest[KeyOf[m]] + 1
      /\ \A v \in Writers : KeyOf[v] # KeyOf[m] => latest'[KeyOf[v]] = latest[KeyOf[v]]
  BY <1>1, <1>2 DEF NewVersion, QueueType
<1>4. version' \in [Writers -> Nat] /\ version'[m] = latest[KeyOf[m]] + 1
      /\ \A v \in Writers : v # m => version'[v] = version[v]
  BY <1>2 DEF NewVersion, QueueType
<1> QED BY <1>2, <1>3, <1>4

LEMMA DequeueFacts ==
  ASSUME HandlerType, QueueType, NEW m \in Writers, Dequeue(m)
  PROVE  /\ HandlerType' /\ QueueType'
         /\ \A n \in Writers : n # m => handler'[n] = handler[n] /\ message'[n] = message[n]
         /\ \/ message'[m] = "gone" /\ handler' = handler
            \/ message'[m] = "processing" /\ handler'[m].pc = "list"
<1>1. QueueType' /\ \A n \in Writers : n # m => message'[n] = message[n]
  BY DEF Dequeue, QueueType
<1>2. CASE is_stale(m)
  BY <1>1, <1>2 DEF Dequeue, HandlerType, QueueType
<1>3. CASE ~is_stale(m)
  <2>1. [f \in Files |-> Absent] \in Bodies
    BY DEF Bodies, Contents
  <2>2. [pc |-> "list", todo |-> {}, snap |-> 0, body |-> [f \in Files |-> Absent]]
          \in [pc : HandlerPcs, todo : SUBSET Files, snap : Nat, body : Bodies]
    BY <2>1 DEF HandlerPcs
  <2>3. HandlerType' /\ handler'[m].pc = "list" /\ \A n \in Writers : n # m => handler'[n] = handler[n]
    BY <1>3, <2>2 DEF Dequeue, HandlerType
  <2>4. message'[m] = "processing"
    BY <1>3 DEF Dequeue, QueueType
  <2> QED BY <1>1, <2>3, <2>4
<1> QED BY <1>2, <1>3

LEMMA ListFacts ==
  ASSUME HandlerType, NEW m \in Writers, List(m)
  PROVE  /\ HandlerType'
         /\ \A n \in Writers : n # m => handler'[n] = handler[n]
         /\ handler'[m].pc = "snapshot" /\ handler'[m].todo = {f \in Files : disk[f] # Absent}
BY DEF HandlerType, List, HandlerPcs

LEMMA SnapshotFacts ==
  ASSUME HandlerType, SideType, NEW m \in Writers, Snapshot(m)
  PROVE  /\ HandlerType'
         /\ \A n \in Writers : n # m => handler'[n] = handler[n]
         /\ handler'[m].pc = "read" /\ handler'[m].todo = handler[m].todo
         /\ handler'[m].snap = Pending /\ handler'[m].body = handler[m].body
<1> DEFINE p == Pending
<1>1. p \in Nat /\ handler' = [handler EXCEPT ![m].pc = "read", ![m].snap = p]
  BY PendingFacts DEF Snapshot
<1> HIDE DEF p
<1>2. /\ HandlerType'
      /\ \A n \in Writers : n # m => handler'[n] = handler[n]
      /\ handler'[m].pc = "read" /\ handler'[m].todo = handler[m].todo
      /\ handler'[m].snap = p /\ handler'[m].body = handler[m].body
  BY <1>1 DEF HandlerType, HandlerPcs
<1> QED BY <1>2 DEF p

LEMMA ReadFacts ==
  ASSUME HandlerType, DiskType, SideType, NEW m \in Writers, NEW f \in Files, ReadFile(m, f)
  PROVE  /\ HandlerType'
         /\ \A n \in Writers : n # m => handler'[n] = handler[n]
         /\ handler'[m].pc = "read" /\ handler'[m].todo = handler[m].todo \ {f}
         /\ handler'[m].snap = handler[m].snap
         /\ \A g \in Files : g # f => handler'[m].body[g] = handler[m].body[g]
         /\ \/ handler'[m].body[f] = disk[f]
            \/ handler'[m].body[f] = sidecar["overview"].body[f] /\ handler[m].snap = 0
<1> DEFINE b == IF f # FileOf[m] /\ handler[m].snap = 0 /\ sidecar["overview"].body[f] # Absent
                THEN sidecar["overview"].body[f] ELSE disk[f]
<1>1. b \in Contents
  BY PendingFacts DEF DiskType, Bodies
<1>2. handler' = [handler EXCEPT ![m].todo = @ \ {f}, ![m].body[f] = b] /\ handler[m].pc = "read"
  BY DEF ReadFile, AtH
<1>3. b = disk[f] \/ (b = sidecar["overview"].body[f] /\ handler[m].snap = 0)
  OBVIOUS
<1> HIDE DEF b
<1>4. handler[m].body \in [Files -> Contents]
  BY DEF HandlerType, Bodies
<1> DEFINE r == [handler[m] EXCEPT !.todo = @ \ {f}, !.body[f] = b]
<1>5. /\ r \in [pc : HandlerPcs, todo : SUBSET Files, snap : Nat, body : Bodies]
      /\ r.pc = handler[m].pc /\ r.todo = handler[m].todo \ {f} /\ r.snap = handler[m].snap
      /\ r.body = [handler[m].body EXCEPT ![f] = b]
  BY <1>1, <1>4 DEF HandlerType, Bodies
<1>6. handler' = [handler EXCEPT ![m] = r]
  BY <1>2 DEF HandlerType
<1> HIDE DEF r
<1>7. HandlerType' /\ handler'[m] = r /\ \A n \in Writers : n # m => handler'[n] = handler[n]
  BY <1>5, <1>6 DEF HandlerType
<1>8. r.body[f] = b /\ \A g \in Files : g # f => r.body[g] = handler[m].body[g]
  BY <1>4, <1>5
<1> QED BY <1>2, <1>3, <1>5, <1>7, <1>8

\* The count that is left once the generation's snapshot is consumed.
LEMMA OverviewFacts ==
  ASSUME HandlerType, SideType, NEW m \in Writers, WriteOverview(m), ~is_stale(m)
  PROVE  /\ HandlerType' /\ SideType' /\ UNCHANGED lease
         /\ \A n \in Writers : n # m => handler'[n] = handler[n]
         /\ handler'[m].pc = "write2"
         /\ handler'[m].snap = IF Pending > handler[m].snap THEN Pending - handler[m].snap ELSE 0
         /\ sidecar'["overview"].pending = handler'[m].snap
         /\ sidecar'["overview"].body = handler[m].body
<1> DEFINE left == IF Pending > handler[m].snap THEN Pending - handler[m].snap ELSE 0
<1>1. left \in Nat
  BY PendingFacts DEF HandlerType
<1>2. /\ sidecar' = [sidecar EXCEPT !["overview"] = [body |-> handler[m].body, pending |-> left]]
      /\ handler' = [handler EXCEPT ![m].pc = "write2", ![m].snap = left] /\ UNCHANGED lease
  BY DEF WriteOverview
<1> HIDE DEF left
<1>3. /\ HandlerType' /\ handler'[m].pc = "write2" /\ handler'[m].snap = left
      /\ \A n \in Writers : n # m => handler'[n] = handler[n]
  BY <1>1, <1>2 DEF HandlerType, HandlerPcs
<1>4. handler[m].body \in Bodies
  BY DEF HandlerType
<1>5. SideType' /\ sidecar'["overview"].pending = left /\ sidecar'["overview"].body = handler[m].body
  BY <1>1, <1>2, <1>4 DEF SideType, Sidecars
<1> QED BY <1>2, <1>3, <1>5 DEF left

LEMMA AbstractFacts ==
  ASSUME HandlerType, SideType, NEW m \in Writers, WriteAbstract(m)
  PROVE  /\ SideType' /\ sidecar'["abstract"].pending = handler[m].snap
         /\ sidecar'["overview"] = sidecar["overview"]
<1>1. handler[m].body \in Bodies /\ handler[m].snap \in Nat
  BY DEF HandlerType
<1> QED BY <1>1 DEF WriteAbstract, SideType, Sidecars

-----------------------------------------------------------------------------
(* Every step keeps the types, the lease and the order.                    *)

\* One that is at a leased step is the only one, and the lease is not free.
LEMMA LeaseUnique ==
  ASSUME Leased
  PROVE  /\ lease = None => \A w \in Writers : /\ writer[w].pc \notin {"count", "count2"}
                                               /\ handler[w].pc \notin {"snapshot2", "write", "write2"}
         /\ \A v, w \in Writers :
              /\ \/ writer[v].pc \in {"count", "count2"} \/ handler[v].pc \in {"snapshot2", "write", "write2"}
              /\ \/ writer[w].pc \in {"count", "count2"} \/ handler[w].pc \in {"snapshot2", "write", "write2"}
              => v = w
<1>1. None \notin Writers
  BY InstanceAssumption
<1> QED BY <1>1 DEF Leased

LEMMA TypedWriting ==
  ASSUME Typed, NEW w \in Writers, Writing(w)
  PROVE  Typed'
<1> USE TypedGroups
<1>1. None \notin Writers
  BY InstanceAssumption
<1>2. writer[w].pc # "done" => message[w] = "none" /\ handler[w].pc = "none"
  BY DEF Order
<1>3. CASE Write(w)
  <2>1. UNCHANGED <<sidecar, lease, latest, message, version, handler, faults>> /\ writer[w].pc = "idle"
    BY <1>3 DEF Write, AtW, queue
  <2>2. DiskType' /\ WriterType' /\ writer'[w].pc = "plan" /\ \A v \in Writers : v # w => writer'[v] = writer[v]
    BY <1>3, WriteFacts
  <2>3. Leased' /\ Order'
    BY <1>2, <2>1, <2>2 DEF Leased, Order
  <2> QED BY <2>1, <2>2, <2>3, Unmoved, TypedJoin
<1>4. CASE PlanAcquire(w)
  <2>1. UNCHANGED <<disk, sidecar, latest, message, version, handler, faults>> /\ writer[w].pc = "plan"
    BY <1>4 DEF PlanAcquire, AtW, queue
  <2>2. CASE lease = None
    <3>1. lease' = w /\ ToW(w, "count") /\ "count" \in WriterPcs
      BY <1>4, <2>2 DEF PlanAcquire, WriterPcs
    <3>2. WriterType' /\ \A v \in Writers : writer'[v].pc = IF v = w THEN "count" ELSE writer[v].pc
      BY <3>1, ToWFacts
    <3>3. Leased' /\ Order'
      BY <1>2, <2>1, <2>2, <3>1, <3>2, LeaseUnique DEF Leased, Order
    <3> QED BY <2>1, <3>2, <3>3, Unmoved, TypedJoin
  <2>3. CASE lease # None
    <3>1. lease' = lease /\ ToW(w, "rollback") /\ "rollback" \in WriterPcs
      BY <1>4, <2>3 DEF PlanAcquire, WriterPcs
    <3>2. WriterType' /\ \A v \in Writers : writer'[v].pc = IF v = w THEN "rollback" ELSE writer[v].pc
      BY <3>1, ToWFacts
    <3>3. Leased' /\ Order'
      BY <1>2, <2>1, <3>1, <3>2 DEF Leased, Order
    <3> QED BY <2>1, <3>2, <3>3, Unmoved, TypedJoin
  <2> QED BY <2>2, <2>3
<1>5. CASE Count(w)
  <2>1. UNCHANGED <<disk, lease, latest, message, version, handler, faults>> /\ writer[w].pc = "count"
    BY <1>5 DEF Count, AtW, queue
  <2>2. SideType' /\ WriterType' /\ writer'[w].pc = "count2" /\ \A v \in Writers : v # w => writer'[v] = writer[v]
    BY <1>5, CountFacts
  <2>3. Leased' /\ Order'
    BY <1>2, <2>1, <2>2 DEF Leased, Order
  <2> QED BY <2>1, <2>2, <2>3, Unmoved, TypedJoin
<1>6. CASE CountBoth(w)
  <2>1. UNCHANGED <<disk, latest, message, version, handler, faults>> /\ writer[w].pc = "count2" /\ lease' = None
    BY <1>6 DEF CountBoth, AtW, queue
  <2>2. SideType' /\ WriterType' /\ writer'[w].pc \in {"enqueue", "done"}
        /\ \A v \in Writers : v # w => writer'[v].pc = writer[v].pc
    BY <1>6, CountBothFacts
  <2>3. Leased' /\ Order'
    BY <1>2, <2>1, <2>2, LeaseUnique DEF Leased, Order
  <2> QED BY <2>1, <2>2, <2>3, Unmoved, TypedJoin
<1>7. CASE Coalesce(w)
  <2>1. UNCHANGED <<disk, sidecar, lease, message, handler, faults>> /\ writer[w].pc = "enqueue"
        /\ ToW(w, "store") /\ NewVersion(w) /\ "store" \in WriterPcs
    BY <1>7 DEF Coalesce, AtW, WriterPcs
  <2>2. WriterType' /\ \A v \in Writers : writer'[v].pc = IF v = w THEN "store" ELSE writer[v].pc
    BY <2>1, ToWFacts
  <2>3. QueueType'
    BY <2>1, VersionFacts DEF QueueType
  <2>4. Leased' /\ Order'
    BY <1>2, <2>1, <2>2 DEF Leased, Order
  <2> QED BY <2>1, <2>2, <2>3, <2>4, Unmoved, TypedJoin
<1>8. CASE Store(w)
  <2>1. UNCHANGED <<disk, sidecar, lease, latest, version, handler, faults>> /\ writer[w].pc = "store"
        /\ ToW(w, "done") /\ "done" \in WriterPcs
    BY <1>8 DEF Store, AtW, WriterPcs
  <2>2. WriterType' /\ \A v \in Writers : writer'[v].pc = IF v = w THEN "done" ELSE writer[v].pc
    BY <2>1, ToWFacts
  <2>3. QueueType' /\ message'[w] = "pending" /\ \A v \in Writers : v # w => message'[v] = message[v]
    BY <1>8, <2>1 DEF Store, QueueType
  <2>4. Leased' /\ Order'
    BY <1>2, <2>1, <2>2, <2>3 DEF Leased, Order
  <2> QED BY <2>1, <2>2, <2>3, <2>4, Unmoved, TypedJoin
<1>9. CASE StoreFails(w)
  <2>1. UNCHANGED <<disk, sidecar, lease, latest, message, version, handler>> /\ writer[w].pc = "store"
        /\ ToW(w, "rollback") /\ "rollback" \in WriterPcs /\ faults' = faults + 1 /\ faults < MaxFaults
    BY <1>9 DEF StoreFails, AtW, WriterPcs, queue
  <2>2. WriterType' /\ \A v \in Writers : writer'[v].pc = IF v = w THEN "rollback" ELSE writer[v].pc
    BY <2>1, ToWFacts
  <2>3. CountType'
    BY <2>1, InstanceAssumption DEF CountType
  <2>4. Leased' /\ Order'
    BY <1>2, <2>1, <2>2 DEF Leased, Order
  <2> QED BY <2>1, <2>2, <2>3, <2>4, Unmoved, TypedJoin
<1>10. CASE Rollback(w)
  <2>1. UNCHANGED <<sidecar, lease, latest, message, version, handler, faults>> /\ writer[w].pc = "rollback"
        /\ ToW(w, "failed") /\ "failed" \in WriterPcs
    BY <1>10 DEF Rollback, AtW, WriterPcs, queue
  <2>2. WriterType' /\ \A v \in Writers : writer'[v].pc = IF v = w THEN "failed" ELSE writer[v].pc
    BY <2>1, ToWFacts
  <2>3. DiskType'
    <3>1. writer[w].prev \in Contents
      BY DEF WriterType
    <3> QED BY <1>10, <3>1 DEF Rollback, DiskType, Bodies
  <2>4. Leased' /\ Order'
    BY <1>2, <2>1, <2>2 DEF Leased, Order
  <2> QED BY <2>1, <2>2, <2>3, <2>4, Unmoved, TypedJoin
<1> QED BY <1>3, <1>4, <1>5, <1>6, <1>7, <1>8, <1>9, <1>10 DEF Writing

LEMMA TypedHandling ==
  ASSUME Typed, NEW m \in Writers, Handling(m)
  PROVE  Typed'
<1> USE TypedGroups
<1>1. None \notin Writers
  BY InstanceAssumption
<1>2. handler[m].pc # "none" => message[m] = "processing" /\ writer[m].pc = "done"
  BY DEF Order
<1>3. CASE Dequeue(m)
  <2>1. UNCHANGED <<disk, sidecar, lease, writer, faults>> /\ message[m] = "pending"
    BY <1>3 DEF Dequeue
  <2>2. /\ HandlerType' /\ QueueType'
        /\ \A n \in Writers : n # m => handler'[n] = handler[n] /\ message'[n] = message[n]
        /\ \/ message'[m] = "gone" /\ handler' = handler
           \/ message'[m] = "processing" /\ handler'[m].pc = "list"
    BY <1>3, DequeueFacts
  <2>3. writer[m].pc = "done" /\ handler[m].pc = "none"
    BY <2>1 DEF Order
  <2>4. Leased' /\ Order'
    <3>1. CASE message'[m] = "gone" /\ handler' = handler
      BY <2>1, <2>2, <2>3, <3>1 DEF Leased, Order
    <3>2. CASE message'[m] = "processing" /\ handler'[m].pc = "list"
      BY <2>1, <2>2, <2>3, <3>2 DEF Leased, Order
    <3> QED BY <2>2, <3>1, <3>2
  <2> QED BY <2>1, <2>2, <2>4, Unmoved, TypedJoin
<1>4. CASE List(m)
  <2>1. UNCHANGED <<disk, sidecar, lease, latest, message, version, writer, faults>> /\ handler[m].pc = "list"
    BY <1>4 DEF List, AtH, queue
  <2>2. HandlerType' /\ handler'[m].pc = "snapshot" /\ \A n \in Writers : n # m => handler'[n] = handler[n]
    BY <1>4, ListFacts
  <2>3. Leased' /\ Order'
    BY <1>2, <2>1, <2>2 DEF Leased, Order
  <2> QED BY <2>1, <2>2, <2>3, Unmoved, TypedJoin
<1>5. CASE SnapshotAcquire(m)
  <2>1. UNCHANGED <<disk, sidecar, latest, message, version, writer, faults>> /\ handler[m].pc = "snapshot"
    BY <1>5 DEF SnapshotAcquire, AtH, queue
  <2>2. CASE lease = None
    <3>1. lease' = m /\ ToH(m, "snapshot2") /\ "snapshot2" \in HandlerPcs
      BY <1>5, <2>2 DEF SnapshotAcquire, HandlerPcs
    <3>2. HandlerType' /\ \A n \in Writers : handler'[n].pc = IF n = m THEN "snapshot2" ELSE handler[n].pc
      BY <3>1, ToHFacts
    <3>3. Leased' /\ Order'
      BY <1>2, <2>1, <2>2, <3>1, <3>2, LeaseUnique DEF Leased, Order
    <3> QED BY <2>1, <3>2, <3>3, Unmoved, TypedJoin
  <2>3. CASE lease # None
    <3>1. lease' = lease /\ ToH(m, "end") /\ "end" \in HandlerPcs
      BY <1>5, <2>3 DEF SnapshotAcquire, HandlerPcs
    <3>2. HandlerType' /\ \A n \in Writers : handler'[n].pc = IF n = m THEN "end" ELSE handler[n].pc
      BY <3>1, ToHFacts
    <3>3. Leased' /\ Order'
      BY <1>2, <2>1, <3>1, <3>2 DEF Leased, Order
    <3> QED BY <2>1, <3>2, <3>3, Unmoved, TypedJoin
  <2> QED BY <2>2, <2>3
<1>6. CASE Snapshot(m)
  <2>1. UNCHANGED <<disk, sidecar, latest, message, version, writer, faults>> /\ handler[m].pc = "snapshot2"
        /\ lease' = None
    BY <1>6 DEF Snapshot, AtH, queue
  <2>2. HandlerType' /\ handler'[m].pc = "read" /\ \A n \in Writers : n # m => handler'[n] = handler[n]
    BY <1>6, SnapshotFacts
  <2>3. Leased' /\ Order'
    BY <1>2, <2>1, <2>2, LeaseUnique DEF Leased, Order
  <2> QED BY <2>1, <2>2, <2>3, Unmoved, TypedJoin
<1>7. CASE \E f \in Files : ReadFile(m, f)
  <2>1. PICK f \in Files : ReadFile(m, f)
    BY <1>7
  <2>2. UNCHANGED <<disk, sidecar, lease, latest, message, version, writer, faults>> /\ handler[m].pc = "read"
    BY <2>1 DEF ReadFile, AtH, queue
  <2>3. HandlerType' /\ handler'[m].pc = "read" /\ \A n \in Writers : n # m => handler'[n] = handler[n]
    BY <2>1, ReadFacts
  <2>4. Leased' /\ Order'
    BY <1>2, <2>2, <2>3 DEF Leased, Order
  <2> QED BY <2>2, <2>3, <2>4, Unmoved, TypedJoin
<1>8. CASE WriteAcquire(m)
  <2>1. UNCHANGED <<disk, sidecar, latest, message, version, writer, faults>> /\ handler[m].pc = "read"
    BY <1>8 DEF WriteAcquire, AtH, queue
  <2>2. CASE lease = None /\ lease' = m /\ ToH(m, "write")
    <3>1. "write" \in HandlerPcs
      BY DEF HandlerPcs
    <3>2. HandlerType' /\ \A n \in Writers : handler'[n].pc = IF n = m THEN "write" ELSE handler[n].pc
      BY <2>2, <3>1, ToHFacts
    <3>3. Leased' /\ Order'
      BY <1>2, <2>1, <2>2, <3>2, LeaseUnique DEF Leased, Order
    <3> QED BY <2>1, <3>2, <3>3, Unmoved, TypedJoin
  <2>3. CASE lease' = lease /\ ToH(m, "end")
    <3>1. "end" \in HandlerPcs
      BY DEF HandlerPcs
    <3>2. HandlerType' /\ \A n \in Writers : handler'[n].pc = IF n = m THEN "end" ELSE handler[n].pc
      BY <2>3, <3>1, ToHFacts
    <3>3. Leased' /\ Order'
      BY <1>2, <2>1, <2>3, <3>2 DEF Leased, Order
    <3> QED BY <2>1, <3>2, <3>3, Unmoved, TypedJoin
  <2> QED BY <1>8, <2>2, <2>3 DEF WriteAcquire
<1>9. CASE WriteOverview(m)
  <2>1. UNCHANGED <<disk, latest, message, version, writer, faults>> /\ handler[m].pc = "write"
    BY <1>9 DEF WriteOverview, AtH, queue
  <2>2. CASE is_stale(m)
    <3>1. lease' = None /\ ToH(m, "end") /\ UNCHANGED sidecar /\ "end" \in HandlerPcs
      BY <1>9, <2>2 DEF WriteOverview, HandlerPcs
    <3>2. HandlerType' /\ \A n \in Writers : handler'[n].pc = IF n = m THEN "end" ELSE handler[n].pc
      BY <3>1, ToHFacts
    <3>3. Leased' /\ Order'
      BY <1>2, <2>1, <3>1, <3>2, LeaseUnique DEF Leased, Order
    <3> QED BY <2>1, <3>1, <3>2, <3>3, Unmoved, TypedJoin
  <2>3. CASE ~is_stale(m)
    <3>1. HandlerType' /\ SideType' /\ UNCHANGED lease /\ handler'[m].pc = "write2"
          /\ \A n \in Writers : n # m => handler'[n] = handler[n]
      BY <1>9, <2>3, OverviewFacts
    <3>2. Leased' /\ Order'
      BY <1>2, <2>1, <3>1 DEF Leased, Order
    <3> QED BY <2>1, <3>1, <3>2, Unmoved, TypedJoin
  <2> QED BY <2>2, <2>3
<1>10. CASE WriteAbstract(m)
  <2>1. UNCHANGED <<disk, latest, message, version, writer, faults>> /\ handler[m].pc = "write2"
        /\ lease' = None /\ ToH(m, "end") /\ "end" \in HandlerPcs
    BY <1>10 DEF WriteAbstract, AtH, queue, HandlerPcs
  <2>2. HandlerType' /\ \A n \in Writers : handler'[n].pc = IF n = m THEN "end" ELSE handler[n].pc
    BY <2>1, ToHFacts
  <2>3. SideType'
    BY <1>10, AbstractFacts
  <2>4. Leased' /\ Order'
    BY <1>2, <2>1, <2>2, LeaseUnique DEF Leased, Order
  <2> QED BY <2>1, <2>2, <2>3, <2>4, Unmoved, TypedJoin
<1>11. CASE Ack(m)
  <2>1. UNCHANGED <<disk, sidecar, lease, latest, version, writer, faults>> /\ handler[m].pc = "end"
        /\ ToH(m, "none") /\ "none" \in HandlerPcs
    BY <1>11 DEF Ack, AtH, HandlerPcs
  <2>2. HandlerType' /\ \A n \in Writers : handler'[n].pc = IF n = m THEN "none" ELSE handler[n].pc
    BY <2>1, ToHFacts
  <2>3. QueueType' /\ message'[m] = "gone" /\ \A v \in Writers : v # m => message'[v] = message[v]
    BY <1>11, <2>1 DEF Ack, QueueType
  <2>4. Leased' /\ Order'
    BY <1>2, <2>1, <2>2, <2>3 DEF Leased, Order
  <2> QED BY <2>1, <2>2, <2>3, <2>4, Unmoved, TypedJoin
<1>12. CASE Requeue(m)
  <2>1. UNCHANGED <<disk, sidecar, lease, writer>> /\ handler[m].pc \in {"list", "end"} /\ NewVersion(m)
        /\ ToH(m, "none") /\ "none" \in HandlerPcs /\ faults' = faults + 1 /\ faults < MaxFaults
    BY <1>12 DEF Requeue, HandlerPcs
  <2>2. HandlerType' /\ \A n \in Writers : handler'[n].pc = IF n = m THEN "none" ELSE handler[n].pc
    BY <2>1, ToHFacts
  <2>3. message' \in [Writers -> {"none", "pending", "processing", "gone"}] /\ message'[m] = "pending"
        /\ \A v \in Writers : v # m => message'[v] = message[v]
    BY <1>12 DEF Requeue, QueueType
  <2>4. QueueType'
    BY <2>1, <2>3, VersionFacts DEF QueueType
  <2>5. CountType'
    BY <2>1, InstanceAssumption DEF CountType
  <2>6. Leased' /\ Order'
    BY <1>2, <2>1, <2>2, <2>3 DEF Leased, Order
  <2> QED BY <2>1, <2>2, <2>4, <2>5, <2>6, Unmoved, TypedJoin
<1> QED BY <1>3, <1>4, <1>5, <1>6, <1>7, <1>8, <1>9, <1>10, <1>11, <1>12 DEF Handling

LEMMA TypedInit == Init => Typed
<1> SUFFICES ASSUME Init PROVE Typed
  OBVIOUS
<1>1. disk \in Bodies
  BY DEF Init, Bodies, Contents
<1>2. [f \in Files |-> Absent] \in Bodies
  BY DEF Bodies, Contents
<1>3. SideType
  BY <1>1 DEF Init, SideType, Sidecars
<1>4. WriterType /\ QueueType /\ CountType
  BY InstanceAssumption DEF Init, WriterType, WriterPcs, QueueType, CountType, Contents
<1>5. HandlerType
  BY <1>2 DEF Init, HandlerType, HandlerPcs
<1>6. Leased /\ Order
  BY DEF Init, Leased, Order
<1> QED BY <1>1, <1>3, <1>4, <1>5, <1>6, TypedGroups DEF DiskType

LEMMA TypedStep == Typed /\ [Next]_vars => Typed'
<1> SUFFICES ASSUME Typed, [Next]_vars PROVE Typed'
  OBVIOUS
<1>1. CASE Next
  BY <1>1, TypedWriting, TypedHandling DEF Next
<1>2. CASE UNCHANGED vars
  <2>1. Leased' /\ Order'
    BY <1>2, TypedGroups DEF vars, Leased, Order
  <2> QED BY <1>2, <2>1, TypedGroups, Unmoved, TypedJoin DEF vars
<1> QED BY <1>1, <1>2

\* Every variable has its type in every reachable state, and whoever counts changes,
\* takes a snapshot or writes the sidecars holds the one lease on them, however the
\* writers, the handlers and the requeues interleave and whoever the users are.
THEOREM TypeCorrect == Spec => []TypeOK
<1>1. Typed => TypeOK
  BY DEF Typed
<1> QED BY <1>1, TypedInit, TypedStep, PTL DEF Spec

-----------------------------------------------------------------------------
(* Versions, contents and counts.                                          *)

LEMMA PendingPrimed ==
  ASSUME SideType'
  PROVE  /\ sidecar'["overview"].pending \in Nat /\ sidecar'["abstract"].pending \in Nat
         /\ Pending' \in Nat /\ Pending' >= sidecar'["overview"].pending
         /\ Pending' >= sidecar'["abstract"].pending
         /\ Pending' = sidecar'["overview"].pending \/ Pending' = sidecar'["abstract"].pending
<1>1. sidecar'["overview"].pending \in Nat /\ sidecar'["abstract"].pending \in Nat
  BY DEF SideType, Sidecars
<1> QED BY <1>1 DEF Pending

\* A record that ToW or ToH does not name stays.
LEMMA OthersStay ==
  /\ \A w \in Writers, p \in WriterPcs : WriterType /\ ToW(w, p) =>
       \A v \in Writers : v # w => writer'[v] = writer[v]
  /\ \A m \in Writers, p \in HandlerPcs : HandlerType /\ ToH(m, p) =>
       \A n \in Writers : n # m => handler'[n] = handler[n]
BY DEF WriterType, HandlerType, ToW, ToH

\* What a step of a writer does to the step counters of the writers.
Moves(w, p, q) ==
    /\ writer[w].pc = p /\ writer'[w].pc = q
    /\ \A v \in Writers : v # w => writer'[v] = writer[v]

LEMMA WritingMoves ==
  ASSUME Typed, NEW w \in Writers, Writing(w)
  PROVE  \/ Write(w) /\ Moves(w, "idle", "plan")
         \/ PlanAcquire(w) /\ (Moves(w, "plan", "count") \/ Moves(w, "plan", "rollback"))
         \/ Count(w) /\ Moves(w, "count", "count2")
         \/ CountBoth(w) /\ (Moves(w, "count2", "enqueue") \/ Moves(w, "count2", "done"))
         \/ Coalesce(w) /\ Moves(w, "enqueue", "store")
         \/ Store(w) /\ Moves(w, "store", "done")
         \/ StoreFails(w) /\ Moves(w, "store", "rollback")
         \/ Rollback(w) /\ Moves(w, "rollback", "failed")
<1> USE TypedGroups
<1>1. ASSUME NEW p \in WriterPcs, NEW q \in WriterPcs, writer[w].pc = p, ToW(w, q)
      PROVE  Moves(w, p, q)
  BY <1>1, ToWFacts, OthersStay DEF Moves
<1>2. Write(w) => Moves(w, "idle", "plan")
  BY WriteFacts DEF Write, AtW, Moves
<1>3. Count(w) => Moves(w, "count", "count2")
  BY CountFacts DEF Count, AtW, Moves
<1> HIDE TypedGroups
<1>4. PlanAcquire(w) => Moves(w, "plan", "count") \/ Moves(w, "plan", "rollback")
  BY <1>1 DEF PlanAcquire, AtW, WriterPcs
<1>5. CountBoth(w) => Moves(w, "count2", "enqueue") \/ Moves(w, "count2", "done")
  BY <1>1 DEF CountBoth, AtW, WriterPcs
<1>6. /\ Coalesce(w) => Moves(w, "enqueue", "store")
      /\ Store(w) => Moves(w, "store", "done")
      /\ StoreFails(w) => Moves(w, "store", "rollback")
      /\ Rollback(w) => Moves(w, "rollback", "failed")
  BY <1>1 DEF Coalesce, Store, StoreFails, Rollback, AtW, WriterPcs
<1> QED BY <1>2, <1>3, <1>4, <1>5, <1>6 DEF Writing

\* Versions stay, or one message takes a newer one.
LEMMA VersionsKept ==
  ASSUME Typed, Versions, UNCHANGED <<latest, version>>,
         \A v \in Writers : writer'[v].pc = "store" \/ message'[v] # "none" =>
                              writer[v].pc = "store" \/ message[v] # "none"
  PROVE  Versions'
BY DEF Versions

LEMMA VersionsTaken ==
  ASSUME Typed, Versions, NEW m \in Writers, NewVersion(m),
         \A v \in Writers : v # m /\ (writer'[v].pc = "store" \/ message'[v] # "none") =>
                              writer[v].pc = "store" \/ message[v] # "none"
  PROVE  Versions'
<1>1. QueueType
  BY TypedGroups
<1>2. version \in [Writers -> Nat]
  BY <1>1 DEF QueueType
<1>3. /\ version'[m] = latest[KeyOf[m]] + 1 /\ latest'[KeyOf[m]] = latest[KeyOf[m]] + 1
      /\ \A v \in Writers : v # m => version'[v] = version[v]
      /\ \A v \in Writers : KeyOf[v] # KeyOf[m] => latest'[KeyOf[v]] = latest[KeyOf[v]]
      /\ \A v \in Writers : latest[KeyOf[v]] \in Nat
  BY <1>1, VersionFacts
<1>4. ASSUME NEW v \in Writers
      PROVE  /\ version'[v] <= latest'[KeyOf[v]]
             /\ writer'[v].pc = "store" \/ message'[v] # "none" => version'[v] > 0
  <2>1. CASE v = m
    BY <1>2, <1>3, <2>1
  <2>2. CASE v # m
    <3>1. version[v] <= latest[KeyOf[v]] /\ latest'[KeyOf[v]] >= latest[KeyOf[v]]
      <4>1. CASE KeyOf[v] = KeyOf[m]
        BY <1>2, <1>3, <4>1 DEF Versions
      <4>2. CASE KeyOf[v] # KeyOf[m]
        BY <1>2, <1>3, <4>2 DEF Versions
      <4> QED BY <4>1, <4>2
    <3>2. version[v] \in Nat /\ latest[KeyOf[v]] \in Nat /\ latest'[KeyOf[v]] \in Nat
      <4>1. CASE KeyOf[v] = KeyOf[m]
        BY <1>2, <1>3, <4>1
      <4>2. CASE KeyOf[v] # KeyOf[m]
        BY <1>2, <1>3, <4>2
      <4> QED BY <4>1, <4>2
    <3>3. writer'[v].pc = "store" \/ message'[v] # "none" => version[v] > 0
      BY <2>2 DEF Versions
    <3> QED BY <1>3, <2>2, <3>1, <3>2, <3>3
  <2> QED BY <2>1, <2>2
<1>5. ASSUME NEW u \in Writers, NEW v \in Writers, u # v, KeyOf[u] = KeyOf[v], version'[u] = version'[v]
      PROVE  version'[u] = 0
  <2>1. \A x \in Writers : x # m /\ KeyOf[x] = KeyOf[m] => version'[x] # version'[m]
    <3> SUFFICES ASSUME NEW x \in Writers, x # m, KeyOf[x] = KeyOf[m] PROVE version'[x] # version'[m]
      OBVIOUS
    <3>1. version[x] <= latest[KeyOf[m]]
      BY DEF Versions
    <3> QED BY <1>2, <1>3, <3>1
  <2>2. u # m /\ v # m
    BY <1>5, <2>1
  <2> QED BY <1>3, <1>5, <2>2 DEF Versions
<1> QED BY <1>4, <1>5 DEF Versions

\* With one user, whoever takes a version outdates all other messages.
LEMMA OthersStale ==
  ASSUME Typed, Versions, OneKey, NEW m \in Writers, NewVersion(m)
  PROVE  \A n \in Writers : n # m => is_stale(n)'
<1> SUFFICES ASSUME NEW n \in Writers, n # m PROVE is_stale(n)'
  OBVIOUS
<1>1. QueueType
  BY TypedGroups
<1>2. latest[KeyOf[m]] \in Nat /\ version[n] \in Nat /\ version[n] <= latest[KeyOf[m]]
      /\ version'[n] = version[n] /\ latest'[KeyOf[m]] = latest[KeyOf[m]] + 1
  BY <1>1, VersionFacts DEF QueueType, Versions, OneKey
<1>3. KeyOf[n] = KeyOf[m]
  BY DEF OneKey
<1> QED BY <1>2, <1>3 DEF is_stale

\* The handler that may write is one.
LEMMA FreshUnique ==
  ASSUME Typed, Versions, OneKey, NEW m \in Writers, NEW n \in Writers,
         ~is_stale(m), ~is_stale(n), handler[m].pc # "none", handler[n].pc # "none"
  PROVE  m = n
<1>1. QueueType /\ Order
  BY TypedGroups
<1>2. version[m] \in Nat /\ version[n] \in Nat /\ KeyOf[m] = KeyOf[n] /\ KeyOf[m] \in Keys
  BY <1>1 DEF QueueType, OneKey, Keys
<1>3. latest[KeyOf[m]] \in Nat
  BY <1>1, <1>2 DEF QueueType
<1>4. version[m] = latest[KeyOf[m]] /\ version[n] = latest[KeyOf[m]]
  BY <1>2, <1>3 DEF is_stale, Versions
<1>5. version[m] > 0
  BY <1>1 DEF Order, Versions
<1> QED BY <1>2, <1>4, <1>5 DEF Versions

LEMMA VersionsStep ==
  ASSUME Typed, Versions, NEW w \in Writers, Writing(w) \/ Handling(w)
  PROVE  Versions'
<1>1. Order /\ QueueType
  BY TypedGroups
<1>2. CASE Writing(w)
  <2>1. CASE Coalesce(w)
    <3>1. NewVersion(w) /\ UNCHANGED message /\ Moves(w, "enqueue", "store")
      BY <2>1, WritingMoves DEF Coalesce, Write, PlanAcquire, Count, CountBoth, Store, StoreFails, Rollback, Moves, AtW, Writing
    <3> QED BY <3>1, VersionsTaken DEF Moves
  <2>2. CASE Store(w)
    <3>1. UNCHANGED <<latest, version>> /\ writer[w].pc = "store"
          /\ \A v \in Writers : v # w => message'[v] = message[v]
      BY <1>1, <2>2 DEF Store, AtW, QueueType
    <3>2. \A v \in Writers : v # w => writer'[v] = writer[v]
      BY <1>2, WritingMoves DEF Moves
    <3> QED BY <3>1, <3>2, VersionsKept
  <2>3. CASE ~Coalesce(w) /\ ~Store(w)
    <3>1. UNCHANGED <<latest, version, message>>
      BY <1>2, <2>3 DEF Writing, Write, PlanAcquire, Count, CountBoth, StoreFails, Rollback, queue
    <3>2. writer'[w].pc # "store" /\ \A v \in Writers : v # w => writer'[v] = writer[v]
      BY <1>2, <2>3, WritingMoves DEF Moves
    <3> QED BY <3>1, <3>2, VersionsKept
  <2> QED BY <2>1, <2>2, <2>3
<1>3. CASE Handling(w)
  <2>1. UNCHANGED writer /\ \A v \in Writers : v # w => message'[v] = message[v]
    BY <1>1, <1>3 DEF Handling, Dequeue, List, SnapshotAcquire, Snapshot, ReadFile, WriteAcquire, WriteOverview,
       WriteAbstract, Ack, Requeue, queue, QueueType
  <2>2. CASE Requeue(w)
    <3>1. NewVersion(w)
      BY <2>2 DEF Requeue
    <3> QED BY <2>1, <3>1, VersionsTaken
  <2>3. CASE ~Requeue(w)
    <3>1. UNCHANGED <<latest, version>> /\ (message[w] = "none" => message'[w] = "none")
      BY <1>1, <1>3, <2>3 DEF Handling, Dequeue, List, SnapshotAcquire, Snapshot, ReadFile, WriteAcquire, WriteOverview,
         WriteAbstract, Ack, queue, Order, AtH
    <3> QED BY <2>1, <3>1, VersionsKept
  <2> QED BY <2>2, <2>3
<1> QED BY <1>2, <1>3

\* What is on disk, and what a rollback would put back, was written to that file.
LEMMA DiskStep ==
  ASSUME Typed, DiskInv, NEW w \in Writers, Writing(w) \/ Handling(w)
  PROVE  DiskInv'
<1>1. DiskType /\ SideType /\ WriterType
  BY TypedGroups
<1>2. FileOf[w] \in Files /\ Absent \notin Writers
  BY InstanceAssumption
<1>3. ASSUME UNCHANGED disk, \A v \in Writers : /\ writer[v].pc # "idle" <=> writer'[v].pc # "idle"
                                                /\ writer'[v].prev = writer[v].prev
      PROVE  DiskInv'
  BY <1>3 DEF DiskInv, Known
<1>4. CASE Write(w)
  <2>1. /\ \A f \in Files : disk'[f] = IF f = FileOf[w] THEN w ELSE disk[f]
        /\ writer'[w].pc = "plan" /\ writer'[w].prev = disk[FileOf[w]]
        /\ \A v \in Writers : v # w => writer'[v] = writer[v]
    BY <1>1, <1>4, WriteFacts
  <2>2. \A c, f : Known(c, f) => Known(c, f)'
    BY <2>1 DEF Known
  <2>3. ASSUME NEW f \in Files
        PROVE  Known(disk[f], f)' /\ (f \notin Created => disk'[f] # Absent)
    <3>1. CASE f = FileOf[w]
      BY <1>2, <2>1, <3>1 DEF Known
    <3>2. CASE f # FileOf[w]
      <4>1. disk'[f] = disk[f] /\ Known(disk[f], f)
        BY <2>1, <3>2 DEF DiskInv
      <4> QED BY <2>1, <4>1 DEF DiskInv, Known
    <3> QED BY <3>1, <3>2
  <2>4. ASSUME NEW v \in Writers, writer'[v].pc # "idle"
        PROVE  /\ Known(writer[v].prev, FileOf[v])'
               /\ FileOf[v] \notin Created => writer'[v].prev # Absent
    <3>1. CASE v = w
      <4>1. writer'[v].prev = disk[FileOf[w]] /\ Known(disk[FileOf[w]], FileOf[w])
            /\ (FileOf[w] \notin Created => disk[FileOf[w]] # Absent)
        BY <1>2, <2>1, <3>1 DEF DiskInv
      <4> QED BY <2>1, <3>1, <4>1 DEF Known
    <3>2. CASE v # w
      <4>1. writer'[v] = writer[v] /\ Known(writer[v].prev, FileOf[v])
            /\ (FileOf[v] \notin Created => writer[v].prev # Absent)
        BY <2>1, <2>4, <3>2 DEF DiskInv
      <4> QED BY <2>1, <4>1 DEF Known
    <3> QED BY <3>1, <3>2
  <2> QED BY <2>3, <2>4 DEF DiskInv
<1>5. CASE Rollback(w)
  <2>1. ToW(w, "failed") /\ "failed" \in WriterPcs /\ writer[w].pc = "rollback"
        /\ disk' = [disk EXCEPT ![FileOf[w]] = writer[w].prev]
    BY <1>5 DEF Rollback, WriterPcs, AtW
  <2>2. \A v \in Writers : /\ writer[v].pc # "idle" <=> writer'[v].pc # "idle"
                           /\ writer'[v].prev = writer[v].prev
    BY <1>1, <2>1, ToWFacts
  <2>3. \A f \in Files : disk'[f] = IF f = FileOf[w] THEN writer[w].prev ELSE disk[f]
    BY <1>1, <2>1 DEF DiskType, Bodies
  <2>4. Known(writer[w].prev, FileOf[w]) /\ (FileOf[w] \notin Created => writer[w].prev # Absent)
    BY <2>1 DEF DiskInv
  <2>5. ASSUME NEW f \in Files
        PROVE  Known(disk[f], f)' /\ (f \notin Created => disk'[f] # Absent)
    <3>1. CASE f = FileOf[w]
      <4>1. disk'[f] = writer[w].prev
        BY <2>3, <3>1
      <4> QED BY <2>2, <2>4, <3>1, <4>1 DEF Known
    <3>2. CASE f # FileOf[w]
      <4>1. disk'[f] = disk[f]
        BY <2>3, <3>2
      <4> QED BY <2>2, <4>1 DEF Known, DiskInv
    <3> QED BY <3>1, <3>2
  <2>6. \A v \in Writers : writer'[v].pc # "idle" =>
          Known(writer[v].prev, FileOf[v])' /\ (FileOf[v] \notin Created => writer'[v].prev # Absent)
    BY <2>2 DEF Known, DiskInv
  <2> QED BY <2>5, <2>6 DEF DiskInv
<1>6. CASE Writing(w) /\ ~Write(w) /\ ~Rollback(w)
  <2>1. UNCHANGED disk
    BY <1>6 DEF Writing, PlanAcquire, Count, CountBoth, Coalesce, Store, StoreFails
  <2>2. writer[w].pc # "idle" /\ writer'[w].pc # "idle" /\ \A v \in Writers : v # w => writer'[v] = writer[v]
    BY <1>6, WritingMoves DEF Moves
  <2>3. writer'[w].prev = writer[w].prev
    <3>1. CASE Count(w)
      BY <1>1, <3>1, CountFacts
    <3>2. CASE ~Count(w)
      <4>1. PICK p \in WriterPcs : ToW(w, p)
        BY <1>6, <3>2 DEF Writing, PlanAcquire, CountBoth, Coalesce, Store, StoreFails, WriterPcs
      <4> QED BY <1>1, <4>1, ToWFacts
    <3> QED BY <3>1, <3>2
  <2> QED BY <1>3, <2>1, <2>2, <2>3
<1>7. CASE Handling(w)
  <2>1. UNCHANGED <<disk, writer>>
    BY <1>7 DEF Handling, Dequeue, List, SnapshotAcquire, Snapshot, ReadFile, WriteAcquire, WriteOverview,
       WriteAbstract, Ack, Requeue
  <2> QED BY <1>3, <2>1
<1> QED BY <1>4, <1>5, <1>6, <1>7

\* Nobody else touches the sidecars while a count is half written.
LEMMA CountStep ==
  ASSUME Typed, CountInv, NEW w \in Writers, Writing(w) \/ Handling(w)
  PROVE  CountInv'
<1>1. SideType /\ WriterType /\ HandlerType /\ Leased /\ Order
  BY TypedGroups
<1>2. CASE Count(w)
  <2>1. /\ sidecar'["overview"].pending = Pending + 1 /\ sidecar'["abstract"] = sidecar["abstract"]
        /\ writer'[w].after = Pending + 1
        /\ \A v \in Writers : v # w => writer'[v] = writer[v]
    BY <1>1, <1>2, CountFacts
  <2>2. \A v \in Writers : v # w => writer[v].pc # "count2"
    BY <1>1, <1>2, LeaseUnique DEF Count, AtW
  <2>3. Pending \in Nat /\ sidecar["abstract"].pending \in Nat /\ Pending >= sidecar["abstract"].pending
    BY <1>1, PendingFacts
  <2>4. Pending + 1 >= sidecar'["abstract"].pending
    BY <2>1, <2>3
  <2> QED BY <2>1, <2>2, <2>4 DEF CountInv, AtW
<1>3. CASE CountBoth(w)
  <2>1. writer[w].pc = "count2" /\ writer'[w].pc # "count2" /\ \A v \in Writers : v # w => writer'[v] = writer[v]
    BY <1>3, WritingMoves DEF CountBoth, Coalesce, Write, PlanAcquire, Count, Store, StoreFails, Rollback, AtW, Writing, Moves
  <2>2. \A v \in Writers : v # w => writer[v].pc # "count2"
    BY <1>1, <2>1, LeaseUnique
  <2> QED BY <2>1, <2>2 DEF CountInv, AtW
<1>4. CASE Writing(w) /\ ~Count(w) /\ ~CountBoth(w)
  <2>1. writer'[w].pc # "count2" /\ \A v \in Writers : v # w => writer'[v] = writer[v]
    BY <1>4, WritingMoves DEF Moves
  <2>2. UNCHANGED sidecar
    BY <1>4 DEF Writing, Write, PlanAcquire, Coalesce, Store, StoreFails, Rollback
  <2> QED BY <2>1, <2>2 DEF CountInv, AtW
<1>5. CASE Handling(w)
  <2>1. UNCHANGED writer
    BY <1>5 DEF Handling, Dequeue, List, SnapshotAcquire, Snapshot, ReadFile, WriteAcquire, WriteOverview,
       WriteAbstract, Ack, Requeue
  <2>2. CASE WriteOverview(w) \/ WriteAbstract(w)
    <3>1. handler[w].pc \in {"write", "write2"}
      BY <2>2 DEF WriteOverview, WriteAbstract, AtH
    <3>2. \A v \in Writers : writer[v].pc # "count2"
      BY <1>1, <3>1, LeaseUnique DEF Order
    <3> QED BY <2>1, <3>2 DEF CountInv, AtW
  <2>3. CASE ~WriteOverview(w) /\ ~WriteAbstract(w)
    <3>1. UNCHANGED sidecar
      BY <1>5, <2>3 DEF Handling, Dequeue, List, SnapshotAcquire, Snapshot, ReadFile, WriteAcquire, Ack, Requeue
    <3> QED BY <2>1, <3>1 DEF CountInv, AtW
  <2> QED BY <2>2, <2>3
<1> QED BY <1>2, <1>3, <1>4, <1>5

-----------------------------------------------------------------------------
(* No change is forgotten, for the messages of one user.                   *)

\* What is counted after a step that counts nothing was counted before, and stays.
LEMMA CountedKept ==
  ASSUME Typed, DiskInv, NEW w \in Writers, (Writing(w) /\ ~Count(w)) \/ Handling(w)
  PROVE  \A f \in Files : Counted(f)' => Counted(f) /\ disk'[f] = disk[f]
<1>1. DiskType /\ WriterType
  BY TypedGroups
<1> DEFINE Past == {"count2", "enqueue", "store", "done"}
<1>2. ASSUME UNCHANGED disk,
             \A v \in Writers : /\ writer'[v].pc \in Past => writer[v].pc \in Past
                                /\ writer[v].pc = "failed" => writer'[v].pc = "failed"
      PROVE  \A f \in Files : Counted(f)' => Counted(f) /\ disk'[f] = disk[f]
  BY <1>2 DEF Counted, Clean
<1>3. ASSUME NEW g \in Files, g # FileOf[w], disk'[g] = disk[g], writer[w].pc # "failed",
             \A v \in Writers : v # w => writer'[v] = writer[v]
      PROVE  Counted(g)' => Counted(g)
  <2>1. disk[g] \in Writers => disk[g] # w
    BY <1>3 DEF DiskInv, Known
  <2> QED BY <1>3, <2>1 DEF Counted, Clean
<1>4. CASE Write(w)
  <2>1. /\ \A f \in Files : disk'[f] = IF f = FileOf[w] THEN w ELSE disk[f]
        /\ writer'[w].pc = "plan" /\ \A v \in Writers : v # w => writer'[v] = writer[v]
    BY <1>1, <1>4, WriteFacts
  <2>2. writer[w].pc = "idle"
    BY <1>4 DEF Write, AtW
  <2> SUFFICES ASSUME NEW f \in Files, Counted(f)' PROVE Counted(f) /\ disk'[f] = disk[f]
    OBVIOUS
  <2>3. f # FileOf[w]
    BY <2>1 DEF Counted
  <2> QED BY <1>3, <2>1, <2>2, <2>3
<1>5. CASE Rollback(w)
  <2>1. writer[w].pc = "rollback" /\ ToW(w, "failed") /\ "failed" \in WriterPcs
        /\ disk' = [disk EXCEPT ![FileOf[w]] = writer[w].prev]
    BY <1>5 DEF Rollback, AtW, WriterPcs
  <2>2. writer'[w].pc = "failed" /\ \A v \in Writers : v # w => writer'[v] = writer[v]
    BY <1>1, <2>1, ToWFacts, OthersStay
  <2> SUFFICES ASSUME NEW f \in Files, Counted(f)' PROVE Counted(f) /\ disk'[f] = disk[f]
    OBVIOUS
  <2>3. f # FileOf[w]
    BY <2>2 DEF Counted, Clean
  <2>4. disk'[f] = disk[f]
    BY <1>1, <2>1, <2>3 DEF DiskType, Bodies
  <2> QED BY <1>3, <2>1, <2>2, <2>3, <2>4
<1>6. CASE Writing(w) /\ ~Count(w) /\ ~Write(w) /\ ~Rollback(w)
  <2>1. UNCHANGED disk
    BY <1>6 DEF Writing, PlanAcquire, CountBoth, Coalesce, Store, StoreFails
  <2>2. /\ writer'[w].pc \in Past => writer[w].pc \in Past
        /\ writer[w].pc # "failed" /\ \A v \in Writers : v # w => writer'[v] = writer[v]
    BY <1>6, WritingMoves DEF Moves
  <2> QED BY <1>2, <2>1, <2>2
<1>7. CASE Handling(w)
  <2>1. UNCHANGED <<disk, writer>>
    BY <1>7 DEF Handling, Dequeue, List, SnapshotAcquire, Snapshot, ReadFile, WriteAcquire, WriteOverview,
       WriteAbstract, Ack, Requeue
  <2> QED BY <1>2, <2>1
<1> QED BY <1>4, <1>5, <1>6, <1>7

\* The handlers after a step that neither takes a snapshot nor reads nor writes.
Same(n, p, q) ==
    /\ handler[n].pc = p /\ handler'[n].pc = q /\ handler'[n].todo = handler[n].todo
    /\ handler'[n].snap = handler[n].snap /\ handler'[n].body = handler[n].body

Still(n) ==
    \/ handler'[n] = handler[n]
    \/ handler'[n].pc \in {"none", "list", "end"}
    \/ handler'[n].pc = "snapshot" /\ Files \ Created \subseteq handler'[n].todo
    \/ Same(n, "snapshot", "snapshot2")
    \/ Same(n, "read", "write") /\ handler[n].todo = {}

LEMMA Frame ==
  ASSUME Shown, ReadInv, HalfInv,
         sidecar'["overview"] = sidecar["overview"], Pending' = Pending,
         \A f \in Files : Counted(f)' => Counted(f) /\ disk'[f] = disk[f],
         \A n \in Writers : Still(n),
         \A n \in Writers : ~is_stale(n)' => ~is_stale(n) \/ handler'[n].pc = "none"
  PROVE  Shown' /\ ReadInv' /\ HalfInv'
<1>1. Shown'
  BY DEF Shown
<1>2. \A n \in Writers : handler'[n].pc \in {"read", "write"} =>
        /\ handler[n].pc \in {"read", "write"}
        /\ handler'[n].todo = handler[n].todo /\ handler'[n].snap = handler[n].snap
        /\ handler'[n].body = handler[n].body
        /\ handler'[n].pc = "write" /\ handler[n].pc = "read" => handler[n].todo = {}
  BY DEF Still, Same
<1>3. ASSUME NEW m \in Writers
      PROVE  /\ handler'[m].pc \in {"snapshot", "snapshot2"} => Files \ Created \subseteq handler'[m].todo
             /\ handler'[m].pc = "write" => handler'[m].todo = {}
  <2>1. handler'[m].pc \in {"snapshot", "snapshot2"} => Files \ Created \subseteq handler'[m].todo
    BY DEF Still, Same, ReadInv
  <2>2. handler'[m].pc = "write" => handler'[m].todo = {}
    BY <1>2 DEF ReadInv
  <2> QED BY <2>1, <2>2
<1>4. ASSUME NEW m \in Writers, handler'[m].pc \in {"read", "write"}, ~is_stale(m)'
      PROVE  /\ Pending' >= handler'[m].snap
             /\ \A f \in Files : Counted(f)' =>
                  \/ handler'[m].body[f] = disk'[f] \/ f \in handler'[m].todo
                  \/ Pending' > handler'[m].snap
  <2>1. ~is_stale(m) /\ handler[m].pc \in {"read", "write"}
    BY <1>2, <1>4
  <2>2. /\ Pending >= handler[m].snap
        /\ \A f \in Files : Counted(f) =>
             \/ handler[m].body[f] = disk[f] \/ f \in handler[m].todo
             \/ Pending > handler[m].snap
    BY <2>1 DEF ReadInv
  <2> QED BY <1>2, <1>4, <2>2
<1>5. ReadInv'
  BY <1>3, <1>4 DEF ReadInv
<1>6. ASSUME NEW n \in Writers, handler'[n].pc = "write2"
      PROVE  /\ sidecar'["overview"].pending = handler'[n].snap
             /\ \A f \in Files : Counted(f)' => sidecar'["overview"].body[f] = disk'[f] \/ handler'[n].snap > 0
             /\ \A m \in Writers : m # n /\ ~is_stale(m)' => handler'[m].pc \notin {"read", "write"}
  <2>1. handler'[n] = handler[n] /\ AtH(n, "write2")
    BY <1>6 DEF Still, Same, AtH
  <2>2. /\ sidecar["overview"].pending = handler[n].snap
        /\ \A f \in Files : Counted(f) => sidecar["overview"].body[f] = disk[f] \/ handler[n].snap > 0
        /\ \A m \in Writers : m # n /\ ~is_stale(m) => handler[m].pc \notin {"read", "write"}
    BY <2>1 DEF HalfInv
  <2>3. \A m \in Writers : m # n /\ ~is_stale(m)' => handler'[m].pc \notin {"read", "write"}
    BY <1>2, <2>2
  <2> QED BY <2>1, <2>2, <2>3
<1>7. HalfInv'
  BY <1>6 DEF HalfInv, AtH
<1> QED BY <1>1, <1>5, <1>7

LEMMA ShownWriting ==
  ASSUME Inv, OneKey, NEW w \in Writers, Writing(w)
  PROVE  Shown' /\ ReadInv' /\ HalfInv'
<1>1. SideType /\ WriterType /\ HandlerType /\ Leased /\ Order /\ SideType'
  BY TypedGroups, TypedWriting DEF Inv, Typed, TypeOK, SideType
<1>2. UNCHANGED handler
  BY DEF Writing, Write, PlanAcquire, Count, CountBoth, Coalesce, Store, StoreFails, Rollback
<1>3. Pending \in Nat
  BY <1>1, PendingFacts
<1>4. CASE Count(w)
  <2>0. sidecar'["overview"].pending = Pending + 1 /\ sidecar'["abstract"] = sidecar["abstract"]
    BY <1>1, <1>4, CountFacts
  <2>1. /\ sidecar'["overview"].pending = Pending + 1 /\ sidecar'["abstract"] = sidecar["abstract"]
        /\ UNCHANGED <<disk, latest, version>>
    BY <1>4, <2>0 DEF Count, queue
  <2>2. Pending' = Pending + 1
    BY <1>1, <2>1, PendingFacts, PendingPrimed
  <2>3. \A n \in Writers : handler[n].pc # "write2"
    BY <1>1, <1>4, LeaseUnique DEF Order, Count, AtW
  <2>4. Shown'
    BY <1>3, <2>2 DEF Shown
  <2>5. \A n \in Writers : is_stale(n)' <=> is_stale(n)
    BY <2>1 DEF is_stale
  <2>6. \A n \in Writers : handler[n].snap \in Nat
    BY <1>1 DEF HandlerType
  <2>7. ReadInv'
    BY <1>2, <1>3, <2>2, <2>5, <2>6 DEF Inv, ReadInv
  <2> QED BY <1>2, <2>3, <2>4, <2>7 DEF HalfInv, AtH
<1>5. CASE ~Count(w)
  <2>1. \A f \in Files : Counted(f)' => Counted(f) /\ disk'[f] = disk[f]
    BY <1>5, CountedKept DEF Inv
  <2>2. sidecar'["overview"] = sidecar["overview"] /\ Pending' = Pending
    <3>1. CASE CountBoth(w)
      <4>1. sidecar'["abstract"].pending = writer[w].after /\ sidecar'["overview"] = sidecar["overview"]
        BY <1>1, <3>1, CountBothFacts
      <4>2. sidecar["overview"].pending = writer[w].after /\ writer[w].after >= sidecar["abstract"].pending
        BY <3>1 DEF CountBoth, Inv, CountInv
      <4> QED BY <1>1, <4>1, <4>2, PendingFacts, PendingPrimed
    <3>2. CASE ~CountBoth(w)
      <4>1. UNCHANGED sidecar
        BY <1>5, <3>2 DEF Writing, Write, PlanAcquire, Coalesce, Store, StoreFails, Rollback
      <4> QED BY <4>1 DEF Pending
    <3> QED BY <3>1, <3>2
  <2>3. \A n \in Writers : Still(n)
    BY <1>2 DEF Still
  <2>4. \A n \in Writers : ~is_stale(n)' => ~is_stale(n) \/ handler'[n].pc = "none"
    <3>1. CASE Coalesce(w)
      <4>1. \A n \in Writers : n # w => is_stale(n)'
        BY <3>1, OthersStale DEF Coalesce, Inv
      <4>2. handler[w].pc = "none"
        BY <1>1, <3>1 DEF Coalesce, AtW, Order
      <4> QED BY <1>2, <4>1, <4>2
    <3>2. CASE ~Coalesce(w)
      <4>1. UNCHANGED <<latest, version>>
        BY <1>5, <3>2 DEF Writing, Write, PlanAcquire, CountBoth, Store, StoreFails, Rollback, queue
      <4> QED BY <4>1 DEF is_stale
    <3> QED BY <3>1, <3>2
  <2> QED BY <2>1, <2>2, <2>3, <2>4, Frame DEF Inv
<1> QED BY <1>4, <1>5

LEMMA ShownHandling ==
  ASSUME Inv, OneKey, NEW m \in Writers, Handling(m)
  PROVE  Shown' /\ ReadInv' /\ HalfInv'
<1>1. Typed /\ DiskType /\ SideType /\ WriterType /\ HandlerType /\ QueueType /\ Leased /\ Order /\ SideType'
  BY TypedGroups, TypedHandling DEF Inv, Typed, TypeOK, SideType
<1>2. UNCHANGED <<disk, writer>>
  BY DEF Handling, Dequeue, List, SnapshotAcquire, Snapshot, ReadFile, WriteAcquire, WriteOverview,
     WriteAbstract, Ack, Requeue
<1>3. \A f \in Files : Counted(f)' <=> Counted(f)
  BY <1>2 DEF Counted, Clean
<1>4. Pending \in Nat /\ \A n \in Writers : handler[n].snap \in Nat
  BY <1>1, PendingFacts DEF HandlerType
<1>5. UNCHANGED <<latest, version>> => \A n \in Writers : is_stale(n)' <=> is_stale(n)
  BY DEF is_stale
<1>6. CASE Snapshot(m)
  <2>1. /\ UNCHANGED <<sidecar, latest, version>> /\ handler[m].pc = "snapshot2"
    BY <1>6 DEF Snapshot, AtH, queue
  <2>2. /\ \A n \in Writers : n # m => handler'[n] = handler[n]
        /\ handler'[m].pc = "read" /\ handler'[m].todo = handler[m].todo /\ handler'[m].snap = Pending
    BY <1>1, <1>6, SnapshotFacts
  <2>3. Pending' = Pending
    BY <2>1 DEF Pending
  <2>4. Files \ Created \subseteq handler[m].todo
    BY <2>1 DEF Inv, ReadInv
  <2>5. \A n \in Writers : n # m => handler[n].pc # "write2"
    BY <1>1, <2>1, LeaseUnique
  <2>6. ASSUME NEW n \in Writers
        PROVE  /\ handler'[n].pc \in {"snapshot", "snapshot2"} => Files \ Created \subseteq handler'[n].todo
               /\ handler'[n].pc = "write" => handler'[n].todo = {}
               /\ handler'[n].pc \in {"read", "write"} /\ ~is_stale(n)' =>
                    /\ Pending' >= handler'[n].snap
                    /\ \A f \in Files : Counted(f)' =>
                         \/ handler'[n].body[f] = disk'[f] \/ f \in handler'[n].todo
                         \/ Pending' > handler'[n].snap
    <3>1. CASE n = m
      <4>1. \A f \in Files : Counted(f)' => f \in handler'[m].todo
        BY <1>3, <2>2, <2>4 DEF Counted
      <4> QED BY <1>4, <2>2, <2>3, <3>1, <4>1
    <3>2. CASE n # m
      BY <1>2, <1>3, <1>5, <2>1, <2>2, <2>3, <3>2 DEF Inv, ReadInv
    <3> QED BY <3>1, <3>2
  <2>7. ReadInv'
    BY <2>6 DEF ReadInv
  <2>8. HalfInv'
    BY <2>2, <2>5 DEF HalfInv, AtH
  <2> QED BY <1>2, <1>3, <2>1, <2>3, <2>7, <2>8 DEF Inv, Shown
<1>7. CASE \E f \in Files : ReadFile(m, f)
  <2>1. PICK g \in Files : ReadFile(m, g)
    BY <1>7
  <2>2. UNCHANGED <<sidecar, latest, version>> /\ handler[m].pc = "read"
    BY <2>1 DEF ReadFile, AtH, queue
  <2>3. /\ \A n \in Writers : n # m => handler'[n] = handler[n]
        /\ handler'[m].pc = "read" /\ handler'[m].todo = handler[m].todo \ {g}
        /\ handler'[m].snap = handler[m].snap
        /\ \A f \in Files : f # g => handler'[m].body[f] = handler[m].body[f]
        /\ \/ handler'[m].body[g] = disk[g]
           \/ handler'[m].body[g] = sidecar["overview"].body[g] /\ handler[m].snap = 0
    BY <1>1, <2>1, ReadFacts
  <2>4. Pending' = Pending
    BY <2>2 DEF Pending
  <2>5. ASSUME NEW n \in Writers
        PROVE  /\ handler'[n].pc \in {"snapshot", "snapshot2"} => Files \ Created \subseteq handler'[n].todo
               /\ handler'[n].pc = "write" => handler'[n].todo = {}
               /\ handler'[n].pc \in {"read", "write"} /\ ~is_stale(n)' =>
                    /\ Pending' >= handler'[n].snap
                    /\ \A f \in Files : Counted(f)' =>
                         \/ handler'[n].body[f] = disk'[f] \/ f \in handler'[n].todo
                         \/ Pending' > handler'[n].snap
    <3>1. CASE n = m
      <4> SUFFICES ASSUME ~is_stale(m)'
                   PROVE  /\ Pending' >= handler'[m].snap
                          /\ \A f \in Files : Counted(f)' =>
                               \/ handler'[m].body[f] = disk'[f] \/ f \in handler'[m].todo
                               \/ Pending' > handler'[m].snap
        BY <2>3, <3>1
      <4>1. /\ Pending >= handler[m].snap
            /\ \A f \in Files : Counted(f) =>
                 \/ handler[m].body[f] = disk[f] \/ f \in handler[m].todo
                 \/ Pending > handler[m].snap
        BY <1>5, <2>2 DEF Inv, ReadInv
      <4>2. ASSUME NEW f \in Files, Counted(f)'
            PROVE  \/ handler'[m].body[f] = disk'[f] \/ f \in handler'[m].todo
                   \/ Pending' > handler'[m].snap
        <5>1. CASE f # g
          BY <1>2, <1>3, <2>3, <2>4, <4>1, <4>2, <5>1
        <5>2. CASE f = g
          <6>1. sidecar["overview"].body[g] = disk[g] \/ Pending > 0
            BY <1>3, <4>2, <5>2 DEF Inv, Shown
          <6> QED BY <1>2, <2>3, <2>4, <5>2, <6>1
        <5> QED BY <5>1, <5>2
      <4> QED BY <2>3, <2>4, <4>1, <4>2
    <3>2. CASE n # m
      BY <1>2, <1>3, <1>5, <2>2, <2>3, <2>4, <3>2 DEF Inv, ReadInv
    <3> QED BY <3>1, <3>2
  <2>6. ReadInv'
    BY <2>5 DEF ReadInv
  <2>7. ASSUME NEW n \in Writers, handler'[n].pc = "write2"
        PROVE  /\ sidecar'["overview"].pending = handler'[n].snap
               /\ \A f \in Files : Counted(f)' => sidecar'["overview"].body[f] = disk'[f] \/ handler'[n].snap > 0
               /\ \A k \in Writers : k # n /\ ~is_stale(k)' => handler'[k].pc \notin {"read", "write"}
    <3>1. n # m /\ handler'[n] = handler[n] /\ handler[n].pc = "write2"
      BY <2>3, <2>7
    <3>2. \A k \in Writers : handler'[k].pc = handler[k].pc
      BY <2>2, <2>3
    <3> QED BY <1>2, <1>3, <1>5, <2>2, <3>1, <3>2 DEF Inv, HalfInv, AtH
  <2>8. HalfInv'
    BY <2>7 DEF HalfInv, AtH
  <2> QED BY <1>2, <1>3, <2>2, <2>4, <2>6, <2>8 DEF Inv, Shown
<1>8. CASE WriteOverview(m) /\ ~is_stale(m)
  <2>1. UNCHANGED <<latest, version>> /\ handler[m].pc = "write"
    BY <1>8 DEF WriteOverview, AtH, queue
  <2>2. /\ \A n \in Writers : n # m => handler'[n] = handler[n]
        /\ handler'[m].pc = "write2"
        /\ handler'[m].snap = IF Pending > handler[m].snap THEN Pending - handler[m].snap ELSE 0
        /\ sidecar'["overview"].pending = handler'[m].snap
        /\ sidecar'["overview"].body = handler[m].body
    BY <1>1, <1>8, OverviewFacts
  <2>3. /\ handler[m].todo = {}
        /\ \A f \in Files : Counted(f) => handler[m].body[f] = disk[f] \/ Pending > handler[m].snap
    BY <1>8, <2>1 DEF Inv, ReadInv
  <2>4. Pending > handler[m].snap => handler'[m].snap > 0
    BY <1>4, <2>2
  <2>5. \A f \in Files : Counted(f)' => sidecar'["overview"].body[f] = disk'[f] \/ handler'[m].snap > 0
    BY <1>2, <1>3, <2>2, <2>3, <2>4
  <2>6. Pending' \in Nat /\ Pending' >= handler'[m].snap /\ handler'[m].snap \in Nat
    BY <1>1, <2>2, PendingPrimed
  <2>7. Shown'
    BY <2>5, <2>6 DEF Shown
  <2>8. \A k \in Writers : k # m /\ ~is_stale(k)' => handler'[k].pc \notin {"read", "write"}
    <3> SUFFICES ASSUME NEW k \in Writers, k # m, ~is_stale(k)', handler'[k].pc \in {"read", "write"}
                 PROVE  FALSE
      OBVIOUS
    <3>1. ~is_stale(k) /\ handler[k].pc # "none" /\ handler[m].pc # "none"
      BY <1>5, <2>1, <2>2
    <3> QED BY <1>8, <3>1, FreshUnique DEF Inv
  <2>9. \A n \in Writers : n # m => handler[n].pc # "write2"
    BY <1>1, <2>1, LeaseUnique
  <2>10. HalfInv'
    BY <2>2, <2>5, <2>8, <2>9 DEF HalfInv, AtH
  <2>11. ReadInv'
    <3>1. ASSUME NEW n \in Writers
          PROVE  /\ handler'[n].pc \in {"snapshot", "snapshot2"} => Files \ Created \subseteq handler'[n].todo
                 /\ handler'[n].pc = "write" => handler'[n].todo = {}
                 /\ ~(handler'[n].pc \in {"read", "write"} /\ ~is_stale(n)')
      <4>1. CASE n = m
        BY <2>2, <4>1
      <4>2. CASE n # m
        BY <2>2, <2>8, <4>2 DEF Inv, ReadInv
      <4> QED BY <4>1, <4>2
    <3> QED BY <3>1 DEF ReadInv
  <2> QED BY <2>7, <2>10, <2>11
<1>9. CASE WriteAbstract(m)
  <2>1. UNCHANGED <<latest, version>> /\ handler[m].pc = "write2" /\ ToH(m, "end") /\ "end" \in HandlerPcs
    BY <1>9 DEF WriteAbstract, AtH, queue, HandlerPcs
  <2>2. handler'[m].pc = "end" /\ \A n \in Writers : n # m => handler'[n] = handler[n]
    BY <1>1, <2>1, ToHFacts, OthersStay
  <2>3. sidecar'["abstract"].pending = handler[m].snap /\ sidecar'["overview"] = sidecar["overview"]
    BY <1>1, <1>9, AbstractFacts
  <2>4. /\ sidecar["overview"].pending = handler[m].snap
        /\ \A f \in Files : Counted(f) => sidecar["overview"].body[f] = disk[f] \/ handler[m].snap > 0
        /\ \A k \in Writers : k # m /\ ~is_stale(k) => handler[k].pc \notin {"read", "write"}
    BY <2>1 DEF Inv, HalfInv, AtH
  <2>5. Pending' = handler[m].snap
    BY <1>1, <2>3, <2>4, PendingPrimed
  <2>6. Shown'
    BY <1>2, <1>3, <2>3, <2>4, <2>5 DEF Shown
  <2>7. \A n \in Writers : n # m => handler[n].pc # "write2"
    BY <1>1, <2>1, LeaseUnique
  <2>8. HalfInv'
    BY <2>2, <2>7 DEF HalfInv, AtH
  <2>9. ReadInv'
    <3>1. ASSUME NEW n \in Writers
          PROVE  /\ handler'[n].pc \in {"snapshot", "snapshot2"} => Files \ Created \subseteq handler'[n].todo
                 /\ handler'[n].pc = "write" => handler'[n].todo = {}
                 /\ ~(handler'[n].pc \in {"read", "write"} /\ ~is_stale(n)')
      <4>1. CASE n = m
        BY <2>2, <4>1
      <4>2. CASE n # m
        BY <1>5, <2>1, <2>2, <2>4, <4>2 DEF Inv, ReadInv
      <4> QED BY <4>1, <4>2
    <3> QED BY <3>1 DEF ReadInv
  <2> QED BY <2>6, <2>8, <2>9
<1>10. CASE /\ ~Snapshot(m) /\ ~(\E f \in Files : ReadFile(m, f))
            /\ ~(WriteOverview(m) /\ ~is_stale(m)) /\ ~WriteAbstract(m)
  <2>1. \/ Dequeue(m) \/ List(m) \/ SnapshotAcquire(m) \/ WriteAcquire(m)
        \/ (WriteOverview(m) /\ is_stale(m)) \/ Ack(m) \/ Requeue(m)
    BY <1>10 DEF Handling
  <2>2. UNCHANGED sidecar
    BY <2>1 DEF Dequeue, List, SnapshotAcquire, WriteAcquire, WriteOverview, Ack, Requeue
  <2>3. Pending' = Pending
    BY <2>2 DEF Pending
  <2>4. ASSUME NEW p \in HandlerPcs, ToH(m, p)
        PROVE  /\ Same(m, handler[m].pc, p) /\ handler'[m].pc = p
               /\ \A n \in Writers : n # m => handler'[n] = handler[n]
    BY <1>1, <2>4, ToHFacts, OthersStay DEF Same
  <2>5. (\A n \in Writers : n # m => handler'[n] = handler[n]) /\ Still(m)
    <3>1. CASE Dequeue(m)
      BY <1>1, <3>1, DequeueFacts DEF Still
    <3>2. CASE List(m)
      <4>1. \A f \in Files \ Created : disk[f] # Absent
        BY DEF Inv, DiskInv
      <4> QED BY <1>1, <3>2, <4>1, ListFacts DEF Still
    <3>3. CASE SnapshotAcquire(m)
      BY <2>4, <3>3 DEF SnapshotAcquire, AtH, Still, HandlerPcs
    <3>4. CASE WriteAcquire(m)
      BY <2>4, <3>4 DEF WriteAcquire, AtH, Still, HandlerPcs
    <3>5. CASE WriteOverview(m) /\ is_stale(m)
      <4>1. ToH(m, "end")
        BY <3>5 DEF WriteOverview
      <4> QED BY <2>4, <4>1 DEF Still, HandlerPcs
    <3>6. CASE Ack(m) \/ Requeue(m)
      <4>1. ToH(m, "none")
        BY <3>6 DEF Ack, Requeue
      <4> QED BY <2>4, <4>1 DEF Still, HandlerPcs
    <3> QED BY <2>1, <3>1, <3>2, <3>3, <3>4, <3>5, <3>6
  <2>6. \A n \in Writers : ~is_stale(n)' => ~is_stale(n) \/ handler'[n].pc = "none"
    <3>1. CASE Requeue(m)
      <4>1. NewVersion(m) /\ ToH(m, "none") /\ "none" \in HandlerPcs
        BY <3>1 DEF Requeue, HandlerPcs
      <4>2. \A n \in Writers : n # m => is_stale(n)'
        BY <4>1, OthersStale DEF Inv
      <4> QED BY <2>4, <4>1, <4>2
    <3>2. CASE ~Requeue(m)
      <4>1. UNCHANGED <<latest, version>>
        BY <2>1, <3>2 DEF Dequeue, List, SnapshotAcquire, WriteAcquire, WriteOverview, Ack, queue
      <4> QED BY <1>5, <4>1
    <3> QED BY <3>1, <3>2
  <2>7. \A n \in Writers : Still(n)
    BY <2>5 DEF Still
  <2> QED BY <1>2, <1>3, <2>2, <2>3, <2>6, <2>7, Frame DEF Inv
<1> QED BY <1>6, <1>7, <1>8, <1>9, <1>10

LEMMA InvInit == Init => Inv
<1> SUFFICES ASSUME Init PROVE Inv
  OBVIOUS
<1>1. Typed
  BY TypedInit
<1>2. Versions /\ CountInv
  BY DEF Init, Versions, CountInv, AtW, Keys
<1>3. {Absent, Old} \cap Writers = {} /\ Absent # Old
  BY InstanceAssumption
<1>4. DiskInv
  BY <1>3 DEF Init, DiskInv, Known
<1>5. \A f \in Files : ~Counted(f)
  BY <1>3 DEF Init, Counted
<1>6. Shown /\ ReadInv /\ HalfInv
  BY <1>5 DEF Init, Shown, ReadInv, HalfInv, AtH
<1> QED BY <1>1, <1>2, <1>4, <1>6 DEF Inv

LEMMA InvStep == OneKey /\ Inv /\ [Next]_vars => Inv'
<1> SUFFICES ASSUME OneKey, Inv, [Next]_vars PROVE Inv'
  OBVIOUS
<1>1. CASE Next
  <2>1. PICK w \in Writers : Writing(w) \/ Handling(w)
    BY <1>1 DEF Next
  <2>2. Typed'
    BY TypedStep DEF Inv
  <2>3. Versions' /\ DiskInv' /\ CountInv'
    BY <2>1, VersionsStep, DiskStep, CountStep DEF Inv
  <2>4. Shown' /\ ReadInv' /\ HalfInv'
    BY <2>1, ShownWriting, ShownHandling
  <2> QED BY <2>2, <2>3, <2>4 DEF Inv
<1>2. CASE UNCHANGED vars
  <2>1. Typed'
    BY TypedStep DEF Inv
  <2>2. Versions' /\ DiskInv' /\ CountInv'
    BY <1>2 DEF vars, Inv, Versions, DiskInv, Known, CountInv, AtW
  <2>3. (\A f \in Files : Counted(f)' => Counted(f)) /\ Pending' = Pending
        /\ \A n \in Writers : is_stale(n)' <=> is_stale(n)
    BY <1>2 DEF vars, Counted, Clean, Pending, is_stale
  <2>4. Shown' /\ ReadInv' /\ HalfInv'
    BY <1>2, <2>3, Frame DEF vars, Inv, Still
  <2> QED BY <2>1, <2>2, <2>4 DEF Inv
<1> QED BY <1>1, <1>2

\* The messages of one user coalesce: once no write and no message is under way, an
\* accepted write of a file that existed before, none of whose writes was rolled
\* back, is shown by the overview or still counted as pending.  No interleaving of
\* counts, snapshots, reads, stale skips, failed leases, failed enqueues and
\* requeues forgets it, for any number of files, writers and faults.
THEOREM NoChangeForgotten ==
  ASSUME OneKey
  PROVE  Spec => []AcceptedCounted
<1>1. Inv => AcceptedCounted
  <2> SUFFICES ASSUME Inv, Quiet, NEW f \in Files \ Created,
                      \A w \in Writers : FileOf[w] = f => writer[w].pc # "failed",
                      disk[f] \in Writers, sidecar["overview"].body[f] # disk[f]
               PROVE  Pending > 0
    BY DEF AcceptedCounted
  <2>1. FileOf[disk[f]] = f /\ writer[disk[f]].pc # "idle"
    BY DEF Inv, DiskInv, Known
  <2>2. writer[disk[f]].pc = "done"
    BY <2>1 DEF Quiet
  <2>3. Counted(f)
    BY <2>2 DEF Counted, Clean
  <2> QED BY <2>3 DEF Inv, Shown
<1>2. Inv /\ [Next]_vars => Inv'
  BY InvStep
<1> QED BY <1>1, <1>2, InvInit, PTL DEF Spec

=============================================================================
