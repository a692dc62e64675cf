------------------------- MODULE LockHandoffProofs -------------------------
(***************************************************************************)
(* The safety properties of LockHandoff, for any number of queue messages, *)
(* ids, retries and restarts.                                              *)
(***************************************************************************)
EXTENDS LockHandoff, FiniteSetTheorems, TLAPS

LeaseType == [ref : Ids, owner : Ids, parked : BOOLEAN]
MsgType   == [st : {"free", "pending", "processing"}, hop : 1 .. 2, retry : 0 .. RetryLimit,
              ref : Ids \cup {None}, owner : Ids \cup {None}]

\* The two halves of TypeOK: the locks, and the messages with their handlers.
LockType ==
  /\ token \in Ids \cup {None} /\ stale \in BOOLEAN
  /\ leases \subseteq LeaseType
  /\ cap \in [Actors -> Ids \cup {None}] /\ consumed \subseteq Ids
WorkType ==
  /\ msg \in [Slots -> MsgType] /\ pc \in [Actors -> Steps]
  /\ task \in {"none", "open", "cancelling", "failed", "done"} /\ result \in BOOLEAN
  /\ restarts \in 0 .. MaxRestarts

\* An expired token has no lease: the refresh loop keeps the others alive.
StaleInv == stale => leases = {}

RefsUnique == \A e, f \in leases : e.ref = f.ref => e = f

\* What an actor believes to own is registered, not parked, and its alone.
CapInv ==
  /\ \A a \in Actors : cap[a] # None => \E e \in leases : e.ref = cap[a] /\ ~e.parked
  /\ \A a, b \in Actors : cap[a] # None /\ cap[a] = cap[b] => a = b

Registered == LockType /\ LeaseBacked /\ StaleInv /\ RefsUnique /\ CapInv

\* Message s of the token's owner names a lease or a consumed reference.
Named(s) ==
  msg[s].st # "free" /\ msg[s].owner = token =>
    msg[s].ref \in consumed \/ \E e \in leases : e.ref = msg[s].ref

\* Before the first restart no token is without its lease and there is one lease.
Single ==
  restarts = 0 =>
    /\ token # None => leases # {}
    /\ \A e, f \in leases : e = f
    /\ \A s \in Slots : Named(s)

\* A queued message names a lease and its owner; a handler runs on a message;
\* whoever is about to name its lease in a message has one; before the first
\* restart no adoption goes by the token alone.
MsgInv ==
  \A s \in Slots :
    /\ msg[s].st # "free" => msg[s].ref \in Ids /\ msg[s].owner \in Ids
    /\ pc[s] # "idle" => msg[s].st = "processing"
HoldInv ==
  /\ pc[Requester] \in {"enqueue", "handoff"} => cap[Requester] # None
  /\ \A s \in Slots : pc[s] = "work" => cap[s] # None
NoRefresh == restarts = 0 => \A s \in Slots : pc[s] \notin {"refresh", "crefresh"}

Handled == WorkType /\ MsgInv /\ HoldInv /\ NoRefresh

Inv == Registered /\ Single /\ Handled

LEMMA TypeParts == TypeOK <=> LockType /\ WorkType
  BY DEF TypeOK, LockType, WorkType, LeaseType, MsgType

LEMMA Constants ==
  /\ None \notin Ids /\ Slots \subseteq Actors /\ Requester \in Actors /\ Other \in Actors
  /\ Requester \notin Slots /\ Other \notin Slots /\ Requester # Other
  BY HandoffAssumption DEF Ids, Slots, Actors, Requester, Other

LEMMA FreshFacts ==
  ASSUME Fresh
  PROVE  /\ Unused[1] \in Ids /\ Unused[2] \in Ids
         /\ token \notin {Unused[1], Unused[2]}
         /\ \A e \in leases : e.ref \notin {Unused[1], Unused[2]} /\ e.owner \notin {Unused[1], Unused[2]}
         /\ \A s \in Slots : msg[s].owner # Unused[2]
  <1>1. Unused \in Pairs
    BY DEF Fresh, Unused
  <1>2. Unused[1] \in Ids \ Used /\ Unused[2] \in Ids \ Used
    BY <1>1 DEF Pairs
  <1> QED BY <1>2 DEF Used

LEMMA LeaseFacts ==
  ASSUME LockType
  PROVE  \A e \in leases : /\ e.ref \in Ids /\ e.owner \in Ids /\ e.parked \in BOOLEAN
                           /\ e.ref # None /\ e.owner # None
  BY Constants DEF LockType, LeaseType

LEMMA OwnerFacts ==
  ASSUME Registered, NEW r, NEW e \in leases, e.ref = r
  PROVE  OwnerOf(r) = token /\ OwnerOf(r) \in Ids
  <1>1. (CHOOSE f \in leases : f.ref = r) \in leases
    OBVIOUS
  <1> QED BY <1>1, LeaseFacts DEF OwnerOf, Registered, LeaseBacked

-----------------------------------------------------------------------------
(* The calls of PathLockManager *)

LEMMA ReleaseLock ==
  ASSUME Registered, Single, MsgInv, NEW a \in Actors, Release(a), UNCHANGED <<msg, restarts>>
  PROVE  Registered' /\ Single' /\ \A b \in Actors : b # a => cap'[b] = cap[b]
  <1> DEFINE mine == {e \in Lease(cap[a]) : ~e.parked}
             rest == leases \ mine
             last == \E e \in mine : \A f \in rest : f.owner # e.owner
  <1>0. LockType /\ LeaseBacked /\ StaleInv /\ RefsUnique /\ CapInv
    BY DEF Registered
  <1>1. /\ leases' = rest /\ cap' = [cap EXCEPT ![a] = None]
        /\ token' = (IF last /\ token = OwnerOf(cap[a]) THEN None ELSE token)
        /\ consumed' = (IF last THEN {} ELSE consumed) /\ UNCHANGED stale
    BY DEF Release
  <1>2. mine \subseteq leases /\ rest \subseteq leases /\ \A e \in mine : e.ref = cap[a]
    BY DEF Lease
  <1>3. last => rest = {} /\ token = OwnerOf(cap[a])
    <2> SUFFICES ASSUME last PROVE rest = {} /\ token = OwnerOf(cap[a])
      OBVIOUS
    <2>1. PICK e \in mine : \A f \in rest : f.owner # e.owner
      OBVIOUS
    <2> QED BY <1>0, <1>2, <2>1, OwnerFacts DEF LeaseBacked
  <1>4. \A e \in leases : e \in rest \/ e.ref = cap[a]
    BY <1>2
  <1>c. cap'[a] = None /\ \A b \in Actors : b # a => cap'[b] = cap[b]
    BY <1>0, <1>1 DEF LockType
  <1> HIDE DEF mine, rest, last
  <1>5. LockType'
    BY <1>0, <1>1, <1>2 DEF LockType
  <1>6. LeaseBacked' /\ StaleInv' /\ RefsUnique'
    BY <1>0, <1>1, <1>2, <1>3 DEF LeaseBacked, StaleInv, RefsUnique
  <1>7. CapInv'
    <2>1. ASSUME NEW b \in Actors, cap'[b] # None PROVE \E e \in leases' : e.ref = cap'[b] /\ ~e.parked
      <3>1. b # a /\ cap'[b] = cap[b] /\ cap[b] # cap[a]
        BY <1>0, <1>c, <2>1 DEF CapInv
      <3>2. PICK e \in leases : e.ref = cap[b] /\ ~e.parked
        BY <1>0, <2>1, <3>1 DEF CapInv
      <3> QED BY <1>1, <1>4, <3>1, <3>2
    <2> QED BY <1>0, <1>c, <2>1 DEF CapInv
  <1>8. Single'
    <2> SUFFICES ASSUME restarts = 0
                 PROVE  /\ token' # None => leases' # {}
                        /\ \A e, f \in leases' : e = f
                        /\ \A s \in Slots : Named(s)'
      BY DEF Single
    <2>0. /\ token # None => leases # {}
          /\ \A e, f \in leases : e = f
          /\ \A s \in Slots : Named(s)
      BY DEF Single
    <2>1. CASE last
      BY <1>1, <1>3, <2>1, Constants DEF Named, MsgInv
    <2>2. CASE ~last
      <3>1. mine = {}
        BY <1>2, <2>0, <2>2 DEF rest, last
      <3>2. leases' = leases /\ token' = token /\ consumed' = consumed
        BY <1>1, <2>2, <3>1 DEF rest
      <3> QED BY <2>0, <3>2 DEF Named
    <2> QED BY <2>1, <2>2
  <1> QED BY <1>5, <1>6, <1>7, <1>8, <1>c DEF Registered

LEMMA GrantLock ==
  ASSUME Registered, Single, Grant, UNCHANGED <<msg, restarts, consumed>>,
         \/ UNCHANGED cap
         \/ \E a \in Actors : cap' = [cap EXCEPT ![a] = Unused[1]]
  PROVE  Registered' /\ Single'
  <1> DEFINE n == [ref |-> Unused[1], owner |-> Unused[2], parked |-> FALSE]
  <1>0. LockType /\ LeaseBacked /\ StaleInv /\ RefsUnique /\ CapInv
    BY DEF Registered
  <1>1. Fresh /\ CanAcquire /\ token' = Unused[2] /\ stale' = FALSE /\ leases' = leases \cup {n}
    BY DEF Grant
  <1>2. leases = {}
    BY <1>0, <1>1, LeaseFacts DEF CanAcquire, LeaseBacked, StaleInv
  <1>3. /\ Unused[1] \in Ids /\ Unused[2] \in Ids /\ token # Unused[2]
        /\ \A s \in Slots : msg[s].owner # Unused[2]
    BY <1>1, FreshFacts
  <1>4. n \in LeaseType /\ n.ref = Unused[1] /\ n.owner = Unused[2] /\ ~n.parked
    BY <1>3 DEF LeaseType
  <1> HIDE DEF n
  <1>5. leases' = {n}
    BY <1>1, <1>2
  <1>6. \A a \in Actors : cap[a] = None
    BY <1>0, <1>2 DEF CapInv
  <1>7. cap' \in [Actors -> Ids \cup {None}]
    BY <1>0, <1>3 DEF LockType
  <1>8. /\ \A a \in Actors : cap'[a] \in {None, Unused[1]}
        /\ \A a, b \in Actors : cap'[a] # None /\ cap'[a] = cap'[b] => a = b
    <2>1. CASE UNCHANGED cap
      BY <1>6, <2>1
    <2>2. ASSUME NEW a \in Actors, cap' = [cap EXCEPT ![a] = Unused[1]]
          PROVE  /\ \A b \in Actors : cap'[b] \in {None, Unused[1]}
                 /\ \A b, c \in Actors : cap'[b] # None /\ cap'[b] = cap'[c] => b = c
      BY <1>0, <1>6, <2>2 DEF LockType
    <2> QED BY <2>1, <2>2
  <1>9. LockType'
    BY <1>0, <1>1, <1>3, <1>4, <1>5, <1>7 DEF LockType
  <1>10. LeaseBacked' /\ StaleInv' /\ RefsUnique'
    BY <1>1, <1>4, <1>5 DEF LeaseBacked, StaleInv, RefsUnique
  <1>11. CapInv'
    BY <1>4, <1>5, <1>8 DEF CapInv
  <1>12. Single'
    BY <1>1, <1>3, <1>5 DEF Single, Named
  <1> QED BY <1>9, <1>10, <1>11, <1>12 DEF Registered

\* The lease of a message is taken over under a new reference, for slot a or, when
\* the caller is gone, for nobody.
LEMMA RotateLock ==
  ASSUME Registered, Single, NEW e \in leases, e.parked, Rotate(e),
         UNCHANGED <<store, msg, restarts>>,
         \/ UNCHANGED cap
         \/ \E a \in Actors : cap' = [cap EXCEPT ![a] = Unused[1]]
  PROVE  Registered' /\ Single'
  <1> DEFINE n == [e EXCEPT !.ref = Unused[1], !.parked = FALSE]
  <1>0. LockType /\ LeaseBacked /\ StaleInv /\ RefsUnique /\ CapInv
    BY DEF Registered
  <1>1. Fresh /\ leases' = (leases \ {e}) \cup {n} /\ consumed' = consumed \cup {e.ref}
        /\ UNCHANGED <<token, stale>>
    BY DEF Rotate, store
  <1>2. /\ Unused[1] \in Ids /\ \A f \in leases : f.ref # Unused[1]
    BY <1>1, FreshFacts
  <1>3. /\ n \in LeaseType /\ n.ref = Unused[1] /\ n.owner = e.owner /\ ~n.parked
        /\ e.ref \in Ids /\ Unused[1] # None
    BY <1>0, <1>2, Constants DEF LockType, LeaseType
  <1> HIDE DEF n
  <1>4. \A a \in Actors : cap[a] # e.ref /\ cap[a] # Unused[1]
    <2> SUFFICES ASSUME NEW a \in Actors, cap[a] # None PROVE cap[a] # e.ref /\ cap[a] # Unused[1]
      BY <1>3, Constants
    <2>1. PICK f \in leases : f.ref = cap[a] /\ ~f.parked
      BY <1>0 DEF CapInv
    <2> QED BY <1>0, <1>2, <2>1 DEF RefsUnique
  <1>5. LockType'
    BY <1>0, <1>1, <1>2, <1>3 DEF LockType
  <1>6. LeaseBacked' /\ StaleInv' /\ RefsUnique'
    BY <1>0, <1>1, <1>2, <1>3 DEF LeaseBacked, StaleInv, RefsUnique
  <1>7. CapInv'
    <2>1. ASSUME NEW b \in Actors, cap'[b] # None, cap'[b] = cap[b]
          PROVE  \E f \in leases' : f.ref = cap'[b] /\ ~f.parked
      BY <1>0, <1>1, <1>4, <2>1 DEF CapInv
    <2>2. CASE UNCHANGED cap
      BY <1>0, <2>1, <2>2 DEF CapInv
    <2>3. ASSUME NEW a \in Actors, cap' = [cap EXCEPT ![a] = Unused[1]] PROVE CapInv'
      <3>1. cap'[a] = Unused[1] /\ \A b \in Actors : b # a => cap'[b] = cap[b]
        BY <1>0, <2>3 DEF LockType
      <3>2. \E f \in leases' : f.ref = cap'[a] /\ ~f.parked
        BY <1>1, <1>3, <3>1
      <3> QED BY <1>0, <1>4, <2>1, <3>1, <3>2 DEF CapInv
    <2> QED BY <2>2, <2>3
  <1>8. Single'
    BY <1>1, <1>3 DEF Single, Named
  <1> QED BY <1>5, <1>6, <1>7, <1>8 DEF Registered

\* After a restart a lease is registered again from its token, for slot a.
LEMMA TokenLock ==
  ASSUME Registered, Single, restarts # 0, NEW a \in Actors, NEW r \in Ids, Fresh, token \in Ids,
         stale' = FALSE, UNCHANGED <<token, msg, restarts>>,
         leases' = leases \cup {[ref |-> Unused[1], owner |-> token, parked |-> FALSE]},
         cap' = [cap EXCEPT ![a] = Unused[1]], consumed' = consumed \cup {r}
  PROVE  Registered' /\ Single'
  <1> DEFINE n == [ref |-> Unused[1], owner |-> token, parked |-> FALSE]
  <1>0. LockType /\ LeaseBacked /\ StaleInv /\ RefsUnique /\ CapInv
    BY DEF Registered
  <1>1. leases' = leases \cup {n}
    OBVIOUS
  <1>2. Unused[1] \in Ids /\ \A f \in leases : f.ref # Unused[1]
    BY FreshFacts
  <1>3. n \in LeaseType /\ n.ref = Unused[1] /\ n.owner = token /\ ~n.parked
    BY <1>2 DEF LeaseType
  <1> HIDE DEF n
  <1>4. \A b \in Actors : cap[b] # Unused[1]
    BY <1>0, <1>2, Constants DEF CapInv
  <1>5. cap'[a] = Unused[1] /\ \A b \in Actors : b # a => cap'[b] = cap[b]
    BY <1>0 DEF LockType
  <1>6. LockType'
    BY <1>0, <1>1, <1>2, <1>3 DEF LockType
  <1>7. LeaseBacked' /\ StaleInv' /\ RefsUnique'
    BY <1>0, <1>1, <1>2, <1>3 DEF LeaseBacked, StaleInv, RefsUnique
  <1>8. CapInv'
    BY <1>0, <1>1, <1>3, <1>4, <1>5 DEF CapInv
  <1> QED BY <1>6, <1>7, <1>8 DEF Registered, Single

LEMMA ParkLock ==
  ASSUME Registered, Single, NEW a \in Actors, Park(a), UNCHANGED <<msg, restarts>>
  PROVE  Registered' /\ Single' /\ \A b \in Actors : b # a => cap'[b] = cap[b]
  <1>0. LockType /\ LeaseBacked /\ StaleInv /\ RefsUnique /\ CapInv
    BY DEF Registered
  <1> DEFINE P(e) == IF e.ref = cap[a] THEN [e EXCEPT !.parked = TRUE] ELSE e
  <1>1. leases' = {P(e) : e \in leases} /\ cap' = [cap EXCEPT ![a] = None]
        /\ UNCHANGED <<token, stale, consumed>>
    BY DEF Park, store
  <1>2. ASSUME NEW e \in leases
        PROVE  /\ P(e) \in LeaseType /\ P(e).ref = e.ref /\ P(e).owner = e.owner
               /\ e.ref # cap[a] => P(e) = e
    <2>1. e \in LeaseType
      BY <1>0 DEF LockType
    <2> QED BY <2>1 DEF LeaseType
  <1>c. cap'[a] = None /\ \A b \in Actors : b # a => cap'[b] = cap[b]
    BY <1>0, <1>1 DEF LockType
  <1> HIDE DEF P
  <1>3. LockType'
    BY <1>0, <1>1, <1>2 DEF LockType
  <1>4. LeaseBacked' /\ StaleInv' /\ RefsUnique'
    BY <1>0, <1>1, <1>2 DEF LeaseBacked, StaleInv, RefsUnique
  <1>5. CapInv'
    <2>1. ASSUME NEW b \in Actors, cap'[b] # None PROVE \E e \in leases' : e.ref = cap'[b] /\ ~e.parked
      <3>1. b # a /\ cap'[b] = cap[b] /\ cap[b] # cap[a]
        BY <1>0, <1>c, <2>1 DEF CapInv
      <3>2. PICK e \in leases : e.ref = cap[b] /\ ~e.parked
        BY <1>0, <2>1, <3>1 DEF CapInv
      <3> QED BY <1>1, <1>2, <3>1, <3>2
    <2> QED BY <1>0, <1>c, <2>1 DEF CapInv
  <1>6. Single'
    <2> SUFFICES ASSUME restarts = 0
                 PROVE  /\ token' # None => leases' # {}
                        /\ \A e, f \in leases' : e = f
                        /\ \A s \in Slots : Named(s)'
      BY DEF Single
    <2>1. \A s \in Slots : Named(s)'
      BY <1>1, <1>2 DEF Single, Named
    <2> QED BY <1>1, <2>1 DEF Single
  <1> QED BY <1>3, <1>4, <1>5, <1>6, <1>c DEF Registered

-----------------------------------------------------------------------------
(* The messages and their handlers *)

\* Actor a goes on with its message.
LEMMA GoOn ==
  ASSUME Registered, Handled, NEW a \in Actors, NEW p \in Steps, Go(a, p), UNCHANGED <<msg, restarts>>,
         task' \in {"none", "open", "cancelling", "failed", "done"}, result' \in BOOLEAN,
         a \in Slots => pc[a] # "idle" \/ p = "idle",
         a = Requester /\ p \in {"enqueue", "handoff"} => cap'[a] # None,
         a \in Slots /\ p = "work" => cap'[a] # None,
         \A b \in Actors : b # a => cap'[b] = cap[b],
         p \in {"refresh", "crefresh"} /\ a \in Slots => restarts # 0
  PROVE  Handled'
  <1>0. WorkType /\ MsgInv /\ HoldInv /\ NoRefresh
    BY DEF Handled
  <1>1. /\ pc' \in [Actors -> Steps] /\ pc'[a] = p /\ \A b \in Actors : b # a => pc'[b] = pc[b]
    BY <1>0 DEF Go, WorkType
  <1>2. WorkType'
    BY <1>0, <1>1 DEF WorkType
  <1>3. MsgInv'
    BY <1>0, <1>1, Constants DEF MsgInv
  <1>4. HoldInv'
    BY <1>0, <1>1, Constants DEF HoldInv
  <1>5. NoRefresh'
    BY <1>0, <1>1, Constants DEF NoRefresh
  <1> QED BY <1>2, <1>3, <1>4, <1>5 DEF Handled

\* Nothing about the locks changes.
LocksStay == UNCHANGED <<token, stale, leases, cap, consumed>>

LEMMA StayLock ==
  ASSUME Registered, Single, LocksStay, UNCHANGED <<msg, restarts>>
  PROVE  Registered' /\ Single'
  BY DEF LocksStay, Registered, Single, LockType, LeaseBacked, StaleInv, RefsUnique, CapInv, Named

\* A message that names a lease, or a copy of a queued one, takes the place of t.
LEMMA PutOne ==
  ASSUME Inv, LocksStay, UNCHANGED restarts, NEW t \in Slots, NEW m \in MsgType,
         msg' = [msg EXCEPT ![t] = m],
         task' \in {"none", "open", "cancelling", "failed", "done"}, result' \in BOOLEAN,
         NEW a \in Actors, NEW p \in Steps, Go(a, p),
         m.st # "free" =>
           /\ m.ref \in Ids /\ m.owner \in Ids
           /\ restarts = 0 /\ m.owner = token => m.ref \in consumed \/ \E e \in leases : e.ref = m.ref,
         pc'[t] # "idle" => m.st = "processing",
         a \in Slots /\ a # t => pc[a] # "idle" \/ p = "idle",
         p \notin {"work", "enqueue", "refresh", "crefresh"},
         a = Requester /\ p = "handoff" => cap[a] # None
  PROVE  Inv'
  <1>0. /\ WorkType /\ MsgInv /\ HoldInv /\ NoRefresh /\ Registered /\ Single
        /\ LockType /\ LeaseBacked /\ StaleInv /\ RefsUnique /\ CapInv
    BY DEF Inv, Handled, Registered
  <1>1. /\ pc' \in [Actors -> Steps] /\ pc'[a] = p /\ \A b \in Actors : b # a => pc'[b] = pc[b]
    BY <1>0 DEF Go, WorkType
  <1>2. /\ msg' \in [Slots -> MsgType] /\ msg'[t] = m /\ \A s \in Slots : s # t => msg'[s] = msg[s]
    BY <1>0 DEF WorkType
  <1>3. WorkType'
    BY <1>0, <1>1, <1>2 DEF WorkType
  <1>4. MsgInv'
    BY <1>0, <1>1, <1>2, Constants DEF MsgInv
  <1>5. HoldInv'
    BY <1>0, <1>1, Constants DEF HoldInv, LocksStay
  <1>6. NoRefresh'
    BY <1>0, <1>1, Constants DEF NoRefresh
  <1>7. Registered'
    BY <1>0 DEF LocksStay, Registered, LockType, LeaseBacked, StaleInv, RefsUnique, CapInv
  <1>8. Single'
    <2> SUFFICES ASSUME restarts = 0 PROVE \A s \in Slots : Named(s)'
      BY <1>0 DEF Single, LocksStay
    <2> QED BY <1>0, <1>2 DEF Single, Named, LocksStay
  <1> QED BY <1>3, <1>4, <1>5, <1>6, <1>7, <1>8 DEF Inv, Handled

\* Put, by an actor that is at work on another message or on none.
LEMMA PutStep ==
  ASSUME Inv, LocksStay, UNCHANGED restarts, NEW h \in 1 .. 2, NEW r \in 0 .. RetryLimit,
         NEW ref \in Ids, NEW owner \in Ids, Put(h, r, ref, owner),
         task' \in {"none", "open", "cancelling", "failed", "done"}, result' \in BOOLEAN,
         NEW a \in Actors, a \in Slots => pc[a] # "idle", NEW p \in Steps, Go(a, p),
         restarts = 0 /\ owner = token => ref \in consumed \/ \E e \in leases : e.ref = ref,
         p \notin {"work", "enqueue", "refresh", "crefresh"},
         a = Requester /\ p = "handoff" => cap[a] # None
  PROVE  Inv'
  <1>0. WorkType /\ MsgInv
    BY DEF Inv, Handled
  <1> DEFINE m == [st |-> "pending", hop |-> h, retry |-> r, ref |-> ref, owner |-> owner]
  <1>1. PICK t \in Slots : msg[t].st = "free" /\ msg' = [msg EXCEPT ![t] = m]
    BY DEF Put
  <1>2. m \in MsgType /\ m.st = "pending" /\ m.ref = ref /\ m.owner = owner
    BY DEF MsgType
  <1> HIDE DEF m
  <1>3. pc[t] = "idle" /\ t # a
    BY <1>0, <1>1 DEF MsgInv
  <1>4. pc'[t] = "idle"
    BY <1>0, <1>3, Constants DEF Go, WorkType
  <1> QED BY <1>1, <1>2, <1>3, <1>4, PutOne

-----------------------------------------------------------------------------
(* The steps *)

LEMMA RequestStep ==
  ASSUME Inv, Request
  PROVE  Inv'
  <1>0. /\ Registered /\ Single /\ Handled /\ WorkType /\ MsgInv /\ HoldInv
        /\ CapInv /\ LockType
    BY DEF Inv, Handled, Registered
  <1>t. task \in {"none", "open", "cancelling", "failed", "done"} /\ result \in BOOLEAN
    BY <1>0 DEF WorkType
  <1>s. {"enqueue", "handoff", "off"} \subseteq Steps
    BY DEF Steps
  <1>1. CASE RequestAcquires
    <2>1. /\ Grant /\ cap' = [cap EXCEPT ![Requester] = Unused[1]] /\ Go(Requester, "enqueue")
          /\ UNCHANGED <<msg, consumed, task, result, restarts>>
      BY <1>1 DEF RequestAcquires, Acquire, record
    <2>2. Registered' /\ Single'
      BY <1>0, <2>1, GrantLock, Constants
    <2>3. cap'[Requester] # None /\ \A b \in Actors : b # Requester => cap'[b] = cap[b]
      BY <1>0, <2>1, FreshFacts, Constants DEF LockType, Grant
    <2>4. Handled'
      BY <1>0, <1>t, <1>s, <2>1, <2>3, GoOn, Constants
    <2> QED BY <2>2, <2>4 DEF Inv
  <1>2. CASE RequestEnqueues
    <2>1. /\ pc[Requester] = "enqueue" /\ Put(1, 0, cap[Requester], OwnerOf(cap[Requester]))
          /\ task' = "open" /\ Go(Requester, "handoff") /\ LocksStay /\ UNCHANGED <<result, restarts>>
      BY <1>2 DEF RequestEnqueues, LocksStay, store, registry
    <2>2. PICK e \in leases : e.ref = cap[Requester]
      BY <1>0, <2>1, Constants DEF HoldInv, CapInv
    <2>3. cap[Requester] \in Ids /\ OwnerOf(cap[Requester]) \in Ids /\ cap[Requester] # None
      BY <1>0, <2>2, LeaseFacts, OwnerFacts
    <2>4. 0 \in 0 .. RetryLimit
      BY HandoffAssumption
    <2> QED BY <1>t, <1>s, <2>1, <2>2, <2>3, <2>4, PutStep, Constants
  <1>3. CASE RequestParks
    <2>1. Park(Requester) /\ Go(Requester, "off") /\ UNCHANGED <<msg, task, result, restarts>>
      BY <1>3 DEF RequestParks, record
    <2>2. Registered' /\ Single' /\ \A b \in Actors : b # Requester => cap'[b] = cap[b]
      BY <1>0, <2>1, ParkLock, Constants
    <2>3. Handled'
      BY <1>0, <1>t, <1>s, <2>1, <2>2, GoOn, Constants
    <2> QED BY <2>2, <2>3 DEF Inv
  <1>4. CASE RequestFails
    <2>1. /\ Release(Requester) /\ Go(Requester, "off") /\ UNCHANGED <<msg, result, restarts>>
          /\ task' \in {task, "failed"}
      BY <1>4 DEF RequestFails
    <2>2. Registered' /\ Single' /\ \A b \in Actors : b # Requester => cap'[b] = cap[b]
      BY <1>0, <2>1, ReleaseLock, Constants
    <2>3. Handled'
      BY <1>0, <1>t, <1>s, <2>1, <2>2, GoOn, Constants
    <2> QED BY <2>2, <2>3 DEF Inv
  <1> QED BY <1>1, <1>2, <1>3, <1>4 DEF Request

LEMMA OtherStep ==
  ASSUME Inv, OtherAcquires \/ OtherReleases
  PROVE  Inv'
  <1>0. Registered /\ Single /\ Handled /\ WorkType /\ MsgInv /\ LockType
    BY DEF Inv, Handled, Registered
  <1>t. task \in {"none", "open", "cancelling", "failed", "done"} /\ result \in BOOLEAN
    BY <1>0 DEF WorkType
  <1>s. {"work", "idle"} \subseteq Steps
    BY DEF Steps
  <1>1. CASE OtherAcquires
    <2>1. /\ Grant /\ cap' = [cap EXCEPT ![Other] = Unused[1]] /\ Go(Other, "work")
          /\ UNCHANGED <<msg, consumed, task, result, restarts>>
      BY <1>1 DEF OtherAcquires, Acquire, record
    <2>2. Registered' /\ Single'
      BY <1>0, <2>1, GrantLock, Constants
    <2>3. \A b \in Actors : b # Other => cap'[b] = cap[b]
      BY <1>0, <2>1, Constants DEF LockType
    <2>4. Handled'
      BY <1>0, <1>t, <1>s, <2>1, <2>3, GoOn, Constants
    <2> QED BY <2>2, <2>4 DEF Inv
  <1>2. CASE OtherReleases
    <2>1. Release(Other) /\ Go(Other, "idle") /\ UNCHANGED <<msg, task, result, restarts>>
      BY <1>2 DEF OtherReleases, record
    <2>2. Registered' /\ Single' /\ \A b \in Actors : b # Other => cap'[b] = cap[b]
      BY <1>0, <2>1, ReleaseLock, Constants
    <2>3. Handled'
      BY <1>0, <1>t, <1>s, <2>1, <2>2, GoOn, Constants
    <2> QED BY <2>2, <2>3 DEF Inv
  <1> QED BY <1>1, <1>2

\* The steps of a handler that only move it on.
LEMMA PlainStep ==
  ASSUME Inv, NEW s \in Slots,
         BreakerOpen(s) \/ JobResult(s) \/ JobEnds(s) \/ SemanticWork(s)
  PROVE  Inv'
  <1>0. Registered /\ Single /\ Handled /\ WorkType
    BY DEF Inv, Handled
  <1>1. /\ LocksStay /\ UNCHANGED <<msg, restarts>> /\ pc[s] # "idle"
        /\ \E p \in {"requeue", "wait", "release", "retry"} : Go(s, p)
        /\ task' \in {task, "done"} /\ result' \in {result, TRUE}
    BY DEF BreakerOpen, JobResult, JobEnds, SemanticWork, LocksStay, store, registry, record
  <1>2. Registered' /\ Single'
    BY <1>0, <1>1, StayLock
  <1>3. {"requeue", "wait", "release", "retry"} \subseteq Steps
    BY DEF Steps
  <1>4. /\ task' \in {"none", "open", "cancelling", "failed", "done"} /\ result' \in BOOLEAN
        /\ UNCHANGED cap /\ s \in Actors /\ s # Requester
    BY <1>0, <1>1, Constants DEF WorkType, LocksStay
  <1>5. Handled'
    BY <1>0, <1>1, <1>3, <1>4, GoOn
  <1> QED BY <1>2, <1>5 DEF Inv

LEMMA DequeueStep ==
  ASSUME Inv, NEW s \in Slots, Dequeue(s) \/ Ack(s)
  PROVE  Inv'
  <1>0. Registered /\ Single /\ Handled /\ WorkType /\ MsgInv
    BY DEF Inv, Handled
  <1>t. /\ task \in {"none", "open", "cancelling", "failed", "done"} /\ result \in BOOLEAN
        /\ s \in Actors /\ s # Requester /\ msg[s] \in MsgType
    BY <1>0, Constants DEF WorkType
  <1>s. {"cadopt", "ack", "wait", "adopt", "idle"} \subseteq Steps
    BY DEF Steps
  <1>1. CASE Dequeue(s)
    <2> DEFINE m == [msg[s] EXCEPT !.st = "processing"]
    <2>1. /\ msg[s].st = "pending" /\ msg' = [msg EXCEPT ![s] = m] /\ LocksStay
          /\ UNCHANGED <<task, result, restarts>>
      BY <1>1 DEF Dequeue, LocksStay, store, registry, record
    <2>2. PICK p \in {"cadopt", "ack", "wait", "adopt"} : Go(s, p)
      BY <1>1 DEF Dequeue
    <2>3. m \in MsgType /\ m.st = "processing" /\ m.ref = msg[s].ref /\ m.owner = msg[s].owner
      BY <1>t DEF MsgType
    <2> HIDE DEF m
    <2>4. m.ref \in Ids /\ m.owner \in Ids
      BY <1>0, <2>1, <2>3 DEF MsgInv
    <2>5. restarts = 0 /\ m.owner = token => m.ref \in consumed \/ \E e \in leases : e.ref = m.ref
      BY <1>0, <2>1, <2>3 DEF Single, Named
    <2> QED BY <1>t, <1>s, <2>1, <2>2, <2>3, <2>4, <2>5, PutOne
  <1>2. CASE Ack(s)
    <2>1. msg' = [msg EXCEPT ![s] = Free] /\ LocksStay /\ UNCHANGED <<task, result, restarts>> /\ Go(s, "idle")
      BY <1>2 DEF Ack, LocksStay, store, registry, record
    <2>2. Free \in MsgType /\ Free.st = "free"
      BY HandoffAssumption DEF Free, MsgType
    <2>3. pc'[s] = "idle"
      BY <1>0, <1>t, <2>1 DEF Go, WorkType
    <2> QED BY <1>t, <1>s, <2>1, <2>2, <2>3, PutOne
  <1> QED BY <1>1, <1>2

LEMMA RequeueStep ==
  ASSUME Inv, NEW s \in Slots, Requeue(s)
  PROVE  Inv'
  <1>0. Registered /\ Single /\ Handled /\ WorkType /\ MsgInv
    BY DEF Inv, Handled
  <1>t. /\ task \in {"none", "open", "cancelling", "failed", "done"} /\ result \in BOOLEAN
        /\ s \in Actors /\ s # Requester /\ msg[s] \in MsgType
    BY <1>0, Constants DEF WorkType
  <1>s. {"ack", "stuck", "idle"} \subseteq Steps
    BY DEF Steps
  <1>1. pc[s] = "requeue" /\ LocksStay /\ UNCHANGED <<result, restarts>> /\ task' \in {task, "failed"}
    BY DEF Requeue, LocksStay, store, registry
  <1>2. /\ msg[s].st = "processing" /\ msg[s].ref \in Ids /\ msg[s].owner \in Ids
        /\ msg[s].hop \in 1 .. 2 /\ msg[s].retry \in 0 .. RetryLimit
    BY <1>0, <1>1, <1>t DEF MsgInv, MsgType
  <1>3. restarts = 0 /\ msg[s].owner = token => msg[s].ref \in consumed \/ \E e \in leases : e.ref = msg[s].ref
    BY <1>0, <1>2 DEF Single, Named
  <1>4. CASE UNCHANGED msg /\ \E p \in {"ack", "stuck"} : Go(s, p)
    <2>1. Registered' /\ Single'
      BY <1>0, <1>1, <1>4, StayLock
    <2>2. UNCHANGED cap
      BY <1>1 DEF LocksStay
    <2>3. Handled'
      BY <1>0, <1>1, <1>4, <1>t, <1>s, <2>2, GoOn
    <2> QED BY <2>1, <2>3 DEF Inv
  <1>5. ASSUME NEW r \in 0 .. RetryLimit, PutCopy(s, r) PROVE Inv'
    <2>1. CASE Put(msg[s].hop, r, msg[s].ref, msg[s].owner) /\ Go(s, "ack")
      BY <1>1, <1>2, <1>3, <1>t, <1>s, <2>1, PutStep
    <2>2. CASE msg' = [msg EXCEPT ![s].st = "pending", ![s].retry = r] /\ Go(s, "idle")
      <3> DEFINE m == [msg[s] EXCEPT !.st = "pending", !.retry = r]
      <3>1. msg' = [msg EXCEPT ![s] = m]
        BY <1>0, <2>2 DEF WorkType
      <3>2. m \in MsgType /\ m.st = "pending" /\ m.ref = msg[s].ref /\ m.owner = msg[s].owner
        BY <1>t DEF MsgType
      <3> HIDE DEF m
      <3>3. pc'[s] = "idle"
        BY <1>0, <1>t, <2>2 DEF Go, WorkType
      <3>4. m.ref \in Ids /\ m.owner \in Ids
        BY <1>2, <3>2
      <3>5. restarts = 0 /\ m.owner = token => m.ref \in consumed \/ \E e \in leases : e.ref = m.ref
        BY <1>3, <3>2
      <3>6. task' \in {"none", "open", "cancelling", "failed", "done"} /\ result' \in BOOLEAN /\ UNCHANGED restarts
        BY <1>1, <1>t
      <3>7. "idle" \in Steps
        BY <1>s
      <3> QED BY <1>1, <1>t, <2>2, <3>1, <3>2, <3>3, <3>4, <3>5, <3>6, <3>7, PutOne
    <2> QED BY <1>5, <2>1, <2>2 DEF PutCopy
  <1>6. CASE Hop(s, 1) /\ msg[s].retry < RetryLimit /\ PutCopy(s, msg[s].retry + 1)
    <2>1. msg[s].retry + 1 \in 0 .. RetryLimit
      BY <1>2, <1>6, HandoffAssumption
    <2> QED BY <1>5, <1>6, <2>1
  <1>7. CASE PutCopy(s, 0)
    <2>1. 0 \in 0 .. RetryLimit
      BY HandoffAssumption
    <2> QED BY <1>5, <1>7, <2>1
  <1>8. Hop(s, 1) /\ Hop(s, 2) => FALSE
    BY DEF Hop
  <1>9. Hop(s, 1) \/ Hop(s, 2)
    BY <1>2 DEF Hop
  <1> QED BY <1>4, <1>6, <1>7, <1>8, <1>9 DEF Requeue

LEMMA WorkStep ==
  ASSUME Inv, NEW s \in Slots, JobWork(s)
  PROVE  Inv'
  <1>0. Registered /\ Single /\ Handled /\ WorkType /\ MsgInv /\ HoldInv /\ CapInv /\ LockType
    BY DEF Inv, Handled, Registered
  <1>t. /\ task \in {"none", "open", "cancelling", "failed", "done"} /\ result \in BOOLEAN
        /\ s \in Actors /\ s # Requester
    BY <1>0, Constants DEF WorkType
  <1>s. {"handoff", "keep", "release"} \subseteq Steps
    BY DEF Steps
  <1>1. pc[s] = "work" /\ LocksStay /\ UNCHANGED <<result, restarts>> /\ task' \in {task, "failed"}
    BY DEF JobWork, LocksStay, store, registry
  <1>2. CASE UNCHANGED msg /\ \E p \in {"keep", "release"} : Go(s, p)
    <2>1. Registered' /\ Single'
      BY <1>0, <1>1, <1>2, StayLock
    <2>2. UNCHANGED cap
      BY <1>1 DEF LocksStay
    <2>3. Handled'
      BY <1>0, <1>1, <1>2, <1>t, <1>s, <2>2, GoOn
    <2> QED BY <2>1, <2>3 DEF Inv
  <1>3. CASE Put(2, 0, cap[s], OwnerOf(cap[s])) /\ Go(s, "handoff")
    <2>2. PICK e \in leases : e.ref = cap[s]
      BY <1>0, <1>1, Constants DEF HoldInv, CapInv
    <2>3. cap[s] \in Ids /\ OwnerOf(cap[s]) \in Ids
      BY <1>0, <2>2, LeaseFacts, OwnerFacts
    <2>4. 0 \in 0 .. RetryLimit /\ 2 \in 1 .. 2
      BY HandoffAssumption
    <2> QED BY <1>1, <1>3, <1>t, <1>s, <2>2, <2>3, <2>4, PutStep
  <1> QED BY <1>2, <1>3 DEF JobWork

LEMMA ReleaseStep ==
  ASSUME Inv, NEW s \in Slots, JobParks(s) \/ ReleaseAfter(s)
  PROVE  Inv'
  <1>0. Registered /\ Single /\ Handled /\ WorkType /\ MsgInv
    BY DEF Inv, Handled
  <1>t. /\ task \in {"none", "open", "cancelling", "failed", "done"} /\ result \in BOOLEAN
        /\ s \in Actors /\ s # Requester
    BY <1>0, Constants DEF WorkType
  <1>s. {"result", "keep", "ack", "requeue"} \subseteq Steps
    BY DEF Steps
  <1>1. pc[s] # "idle" /\ UNCHANGED <<msg, task, result, restarts>>
        /\ \E p \in {"result", "keep", "ack", "requeue"} : Go(s, p)
    BY DEF JobParks, ReleaseAfter, record
  <1>2. Registered' /\ Single' /\ \A b \in Actors : b # s => cap'[b] = cap[b]
    <2>1. CASE Park(s)
      BY <1>0, <1>1, <1>t, <2>1, ParkLock
    <2>2. CASE Release(s)
      BY <1>0, <1>1, <1>t, <2>2, ReleaseLock
    <2>3. CASE LocksStay
      <3>1. UNCHANGED cap
        BY <2>3 DEF LocksStay
      <3> QED BY <1>0, <1>1, <2>3, <3>1, StayLock
    <2> QED BY <2>1, <2>2, <2>3 DEF JobParks, ReleaseAfter, LocksStay, store, registry
  <1>3. Handled'
    BY <1>0, <1>1, <1>2, <1>t, <1>s, GoOn
  <1> QED BY <1>2, <1>3 DEF Inv

LEMMA AdoptStep ==
  ASSUME Inv, NEW s \in Slots, Adopt(s)
  PROVE  Inv'
  <1>0. Registered /\ Single /\ Handled /\ WorkType /\ MsgInv /\ LockType
    BY DEF Inv, Handled, Registered
  <1>t. /\ task \in {"none", "open", "cancelling", "failed", "done"} /\ result \in BOOLEAN
        /\ s \in Actors /\ s # Requester
    BY <1>0, Constants DEF WorkType
  <1>s. {"work", "release", "reacquire", "ack", "refresh", "crefresh"} \subseteq Steps
    BY DEF Steps
  <1>1. pc[s] # "idle" /\ UNCHANGED <<msg, task, result, restarts>>
    BY DEF Adopt, record
  <1>2. ASSUME NEW e \in leases, e.parked, Rotate(e), cap' = [cap EXCEPT ![s] = Unused[1]],
               Adopted(s), UNCHANGED store
        PROVE  Inv'
    <2>1. Registered' /\ Single'
      BY <1>0, <1>1, <1>2, <1>t, RotateLock
    <2>2. cap'[s] # None /\ \A b \in Actors : b # s => cap'[b] = cap[b]
      BY <1>0, <1>2, <1>t, FreshFacts, Constants DEF LockType, Rotate
    <2>3. \E p \in {"work", "release"} : Go(s, p)
      BY <1>2 DEF Adopted
    <2>4. Handled'
      BY <1>0, <1>1, <1>t, <1>s, <2>2, <2>3, GoOn
    <2> QED BY <2>1, <2>4 DEF Inv
  <1>3. ASSUME LocksStay, NEW p \in {"reacquire", "ack", "refresh", "crefresh"}, Go(s, p),
               p \in {"refresh", "crefresh"} => restarts # 0
        PROVE  Inv'
    <2>1. Registered' /\ Single'
      BY <1>0, <1>1, <1>3, StayLock
    <2>2. UNCHANGED cap
      BY <1>3 DEF LocksStay
    <2>3. Handled'
      BY <1>0, <1>1, <1>3, <1>t, <1>s, <2>2, GoOn
    <2> QED BY <2>1, <2>3 DEF Inv
  <1>4. CASE AdoptFails(s)
    <2>1. LocksStay /\ \E p \in {"reacquire", "ack"} : Go(s, p)
      BY <1>4 DEF AdoptFails, LocksStay, store, registry
    <2> QED BY <1>3, <2>1
  <1>5. CASE /\ Lease(msg[s].ref) = {} /\ msg[s].ref \notin consumed /\ token = msg[s].owner
             /\ Go(s, IF pc[s] = "adopt" THEN "refresh" ELSE "crefresh")
             /\ UNCHANGED <<store, registry, cap>>
    <2>1. LocksStay /\ \E p \in {"refresh", "crefresh"} : Go(s, p)
      BY <1>5 DEF LocksStay, store, registry
    <2>2. msg[s].st # "free"
      BY <1>0, <1>1 DEF MsgInv
    <2>3. restarts # 0
      BY <1>0, <1>5, <2>2 DEF Single, Named, Lease
    <2> QED BY <1>3, <2>1, <2>3
  <1> QED BY <1>2, <1>4, <1>5 DEF Adopt, Lease

LEMMA RefreshStep ==
  ASSUME Inv, NEW s \in Slots, AdoptRefresh(s)
  PROVE  Inv'
  <1>0. Registered /\ Single /\ Handled /\ WorkType /\ MsgInv /\ LockType /\ NoRefresh
    BY DEF Inv, Handled, Registered
  <1>t. /\ task \in {"none", "open", "cancelling", "failed", "done"} /\ result \in BOOLEAN
        /\ s \in Actors /\ s # Requester
    BY <1>0, Constants DEF WorkType
  <1>s. {"work", "release", "reacquire", "ack"} \subseteq Steps
    BY DEF Steps
  <1>1. pc[s] \in {"refresh", "crefresh"} /\ UNCHANGED <<msg, task, result, restarts>>
    BY DEF AdoptRefresh, record
  <1>2. restarts # 0 /\ msg[s].ref \in Ids /\ msg[s].owner \in Ids
    BY <1>0, <1>1 DEF NoRefresh, MsgInv
  <1>3. CASE token = msg[s].owner
    <2>1. /\ Fresh /\ stale' = FALSE /\ UNCHANGED token /\ Adopted(s)
          /\ leases' = leases \cup {[ref |-> Unused[1], owner |-> token, parked |-> FALSE]}
          /\ cap' = [cap EXCEPT ![s] = Unused[1]] /\ consumed' = consumed \cup {msg[s].ref}
      BY <1>3 DEF AdoptRefresh
    <2>2. Registered' /\ Single'
      BY <1>0, <1>1, <1>2, <1>3, <1>t, <2>1, TokenLock
    <2>3. cap'[s] # None /\ \A b \in Actors : b # s => cap'[b] = cap[b]
      BY <1>0, <1>t, <2>1, FreshFacts, Constants DEF LockType
    <2>4. \E p \in {"work", "release"} : Go(s, p)
      BY <2>1 DEF Adopted
    <2>5. Handled'
      BY <1>0, <1>1, <1>t, <1>s, <2>3, <2>4, GoOn
    <2> QED BY <2>2, <2>5 DEF Inv
  <1>4. CASE token # msg[s].owner
    <2>1. LocksStay /\ (\E p \in {"reacquire", "ack"} : Go(s, p)) /\ UNCHANGED cap
      BY <1>4 DEF AdoptRefresh, AdoptFails, LocksStay, store, registry
    <2>2. Registered' /\ Single'
      BY <1>0, <1>1, <2>1, StayLock
    <2>3. Handled'
      BY <1>0, <1>1, <1>t, <1>s, <2>1, GoOn
    <2> QED BY <2>2, <2>3 DEF Inv
  <1> QED BY <1>3, <1>4

LEMMA ReacquireStep ==
  ASSUME Inv, NEW s \in Slots, Reacquire(s)
  PROVE  Inv'
  <1>0. Registered /\ Single /\ Handled /\ WorkType /\ MsgInv /\ LockType
    BY DEF Inv, Handled, Registered
  <1>t. /\ task \in {"none", "open", "cancelling", "failed", "done"} /\ result \in BOOLEAN
        /\ s \in Actors /\ s # Requester
    BY <1>0, Constants DEF WorkType
  <1>s. {"work", "requeue"} \subseteq Steps
    BY DEF Steps
  <1>1. pc[s] # "idle" /\ UNCHANGED <<msg, task, result, restarts>>
    BY DEF Reacquire, record
  <1>2. CASE Acquire(s) /\ Go(s, "work")
    <2>1. Registered' /\ Single'
      BY <1>0, <1>1, <1>2, <1>t, GrantLock DEF Acquire
    <2>2. cap'[s] # None /\ \A b \in Actors : b # s => cap'[b] = cap[b]
      BY <1>0, <1>2, <1>t, FreshFacts, Constants DEF LockType, Acquire, Grant
    <2>3. Handled'
      BY <1>0, <1>1, <1>2, <1>t, <1>s, <2>2, GoOn
    <2> QED BY <2>1, <2>3 DEF Inv
  <1>3. CASE Go(s, "requeue") /\ LocksStay
    <2>1. Registered' /\ Single' /\ UNCHANGED cap
      BY <1>0, <1>1, <1>3, StayLock DEF LocksStay
    <2>2. Handled'
      BY <1>0, <1>1, <1>3, <1>t, <1>s, <2>1, GoOn
    <2> QED BY <2>1, <2>2 DEF Inv
  <1> QED BY <1>2, <1>3 DEF Reacquire, LocksStay, store, registry

LEMMA InterruptStep ==
  ASSUME Inv, NEW s \in Slots, Interrupt(s)
  PROVE  Inv'
  <1>0. Registered /\ Single /\ Handled /\ WorkType
    BY DEF Inv, Handled
  <1>t. /\ task \in {"none", "open", "cancelling", "failed", "done"} /\ result \in BOOLEAN
        /\ s \in Actors /\ s # Requester
    BY <1>0, Constants DEF WorkType
  <1>1. /\ pc[s] # "idle" /\ UNCHANGED <<cap, msg, task, result, restarts>>
        /\ \E p \in {"release", "ack"} : Go(s, p)
    BY DEF Interrupt, record
  <1>2. Registered' /\ Single'
    <2>1. CASE LocksStay
      BY <1>0, <1>1, <2>1, StayLock
    <2>2. ASSUME NEW e \in leases, e.parked, Rotate(e), UNCHANGED store PROVE Registered' /\ Single'
      BY <1>0, <1>1, <2>2, RotateLock
    <2>3. CASE Grant /\ UNCHANGED consumed
      BY <1>0, <1>1, <2>3, GrantLock
    <2> QED BY <2>1, <2>2, <2>3 DEF Interrupt, LocksStay, store, registry, Lease
  <1>3. {"release", "ack"} \subseteq Steps
    BY DEF Steps
  <1>4. Handled'
    BY <1>0, <1>1, <1>t, <1>3, GoOn
  <1> QED BY <1>2, <1>4 DEF Inv

LEMMA RestStep ==
  ASSUME Inv, Expire \/ Cancel \/ Restart \/ UNCHANGED vars
  PROVE  Inv'
  <1>0. /\ Registered /\ Single /\ Handled /\ WorkType /\ MsgInv /\ LockType /\ LeaseBacked
        /\ HoldInv /\ NoRefresh /\ StaleInv /\ RefsUnique /\ CapInv
    BY DEF Inv, Handled, Registered
  <1>1. CASE Cancel \/ UNCHANGED vars
    <2>1. LocksStay /\ UNCHANGED <<msg, pc, result, restarts>> /\ task' \in {task, "cancelling"}
      BY <1>1 DEF Cancel, vars, LocksStay, store, registry
    <2>2. Registered' /\ Single'
      BY <1>0, <2>1, StayLock
    <2>3. Handled'
      BY <1>0, <2>1 DEF Handled, WorkType, MsgInv, HoldInv, NoRefresh, LocksStay
    <2> QED BY <2>2, <2>3 DEF Inv
  <1>2. CASE Expire
    <2>1. /\ stale' = TRUE /\ token # None /\ (\A e \in leases : e.owner # token)
          /\ UNCHANGED <<token, leases, consumed, cap, msg, pc, task, result, restarts>>
      BY <1>2 DEF Expire, registry, record
    <2>2. leases = {}
      BY <1>0, <2>1 DEF LeaseBacked
    <2>3. Registered'
      BY <1>0, <2>1, <2>2 DEF Registered, LockType, LeaseBacked, StaleInv, RefsUnique, CapInv
    <2>4. Single'
      BY <1>0, <2>1 DEF Single, Named
    <2>5. Handled'
      BY <1>0, <2>1 DEF Handled, WorkType, MsgInv, HoldInv, NoRefresh
    <2> QED BY <2>3, <2>4, <2>5 DEF Inv
  <1>3. CASE Restart
    <2>1. /\ restarts < MaxRestarts /\ restarts' = restarts + 1
          /\ leases' = {} /\ consumed' = {} /\ cap' = [a \in Actors |-> None]
          /\ pc' = [a \in Actors |-> IF a = Requester THEN "off" ELSE "idle"]
          /\ UNCHANGED <<token, stale, task, result>>
      BY <1>3 DEF Restart, store
    <2>2. restarts' \in 0 .. MaxRestarts /\ restarts' # 0
      BY <1>0, <2>1, HandoffAssumption DEF WorkType
    <2>3. ASSUME NEW s \in Slots
          PROVE  msg'[s] \in MsgType /\ (msg'[s].st # "free" => msg'[s].ref \in Ids /\ msg'[s].owner \in Ids)
      <3>1. msg[s] \in MsgType
        BY <1>0 DEF WorkType
      <3>2. CASE msg[s].st = "free"
        <4>1. msg'[s] = Free
          BY <1>3, <3>2 DEF Restart
        <4> QED BY <4>1, HandoffAssumption DEF Free, MsgType
      <3>3. CASE msg[s].st # "free"
        <4>1. msg'[s] = [msg[s] EXCEPT !.st = "pending"]
          BY <1>3, <3>3 DEF Restart
        <4> QED BY <1>0, <3>1, <3>3, <4>1 DEF MsgType, MsgInv
      <3> QED BY <3>2, <3>3
    <2>4. msg' \in [Slots -> MsgType]
      <3>1. msg' = [s \in Slots |-> IF msg[s].st = "free" THEN Free ELSE [msg[s] EXCEPT !.st = "pending"]]
        BY <1>3 DEF Restart
      <3>2. msg' = [s \in Slots |-> msg'[s]]
        BY <3>1
      <3> QED BY <2>3, <3>2
    <2>5. WorkType'
      BY <1>0, <2>1, <2>2, <2>4 DEF WorkType, Steps
    <2>6. MsgInv' /\ HoldInv' /\ NoRefresh'
      BY <2>1, <2>2, <2>3, Constants DEF MsgInv, HoldInv, NoRefresh
    <2>7. Registered' /\ Single'
      BY <1>0, <2>1, <2>2 DEF Registered, Single, LockType, LeaseBacked, StaleInv, RefsUnique, CapInv
    <2> QED BY <2>5, <2>6, <2>7 DEF Inv, Handled
  <1> QED BY <1>1, <1>2, <1>3

LEMMA Initial ==
  ASSUME Init
  PROVE  Inv
  <1>1. Registered /\ Single
    BY HandoffAssumption, Constants
       DEF Init, Registered, Single, LockType, LeaseBacked, StaleInv, RefsUnique, CapInv, Named, Free
  <1>2. Free \in MsgType
    BY HandoffAssumption DEF Free, MsgType
  <1>3. WorkType
    <2>1. "start" \in Steps /\ "idle" \in Steps
      BY DEF Steps
    <2>2. pc \in [Actors -> Steps] /\ msg \in [Slots -> MsgType]
      BY <1>2, <2>1 DEF Init
    <2>3. task = "none" /\ result = FALSE /\ restarts \in 0 .. MaxRestarts
      BY HandoffAssumption DEF Init
    <2> QED BY <2>2, <2>3 DEF WorkType
  <1>4. MsgInv /\ HoldInv /\ NoRefresh
    BY Constants DEF Init, MsgInv, HoldInv, NoRefresh, Free
  <1> QED BY <1>1, <1>3, <1>4 DEF Inv, Handled

LEMMA Invariance == Spec => []Inv
  <1>1. Inv /\ [Next]_vars => Inv'
    BY RequestStep, OtherStep, PlainStep, DequeueStep, RequeueStep, WorkStep, ReleaseStep, AdoptStep,
       RefreshStep, ReacquireStep, InterruptStep, RestStep
       DEF Next, Handler
  <1> QED BY <1>1, Initial, PTL DEF Spec

\* Every variable keeps its type; a job's message is requeued at most RetryLimit times.
THEOREM TypeCorrect == Spec => []TypeOK
  <1>1. Inv => TypeOK
    BY TypeParts DEF Inv, Registered, Handled
  <1> QED BY <1>1, Invariance, PTL

\* Every lease of the registry is backed by the token in the store: leases of two
\* owners never exist side by side, before or after a restart.
THEOREM LeasesAreBacked == Spec => []LeaseBacked
  BY Invariance, PTL DEF Inv, Registered

\* Until the first restart at most one actor holds the travelling lease, whatever was
\* handed off, retried, cancelled or interrupted.
THEOREM OneHolder == Spec => []OneHolderUntilRestart
  <1>1. ASSUME Inv PROVE OneHolderUntilRestart
    <2> SUFFICES ASSUME restarts = 0 PROVE Cardinality(Working) <= 1
      BY DEF OneHolderUntilRestart
    <2>1. \A a, b \in Working : a = b
      <3> SUFFICES ASSUME NEW a \in Working, NEW b \in Working PROVE a = b
        OBVIOUS
      <3>1. PICK e \in leases : e.ref = cap[a]
        BY DEF Working
      <3>2. PICK f \in leases : f.ref = cap[b]
        BY DEF Working
      <3>3. e = f /\ e.ref # None
        BY <1>1, <3>1, <3>2, LeaseFacts DEF Inv, Single, Registered
      <3> QED BY <1>1, <3>1, <3>2, <3>3 DEF Inv, Registered, CapInv, Working
    <2>2. CASE Working = {}
      BY <2>2, FS_EmptySet
    <2>3. CASE Working # {}
      <3>1. PICK a \in Working : TRUE
        BY <2>3
      <3>2. Working = {a}
        BY <2>1, <3>1
      <3> QED BY <3>2, FS_Singleton
    <2> QED BY <2>2, <2>3
  <1> QED BY <1>1, Invariance, PTL
=============================================================================
