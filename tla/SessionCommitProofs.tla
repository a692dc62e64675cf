------------------------ MODULE SessionCommitProofs ------------------------
(***************************************************************************)
(* The safety properties of SessionCommit, for any number of messages,     *)
(* commits, queue messages, errors, cancellations and restarts.            *)
(***************************************************************************)
EXTENDS SessionCommit, FiniteSetTheorems, TLAPS

USE DEF history, troubles

Live(a)     == ToSet(archives[a].archived)
Retained(a) == ToSet(archives[a].retained)

\* What the root and the newest archive hold at each step of Phase 1.
CommitInv ==
  commit # "idle" =>
    /\ Newest > 0 /\ ~archives[Newest].ready /\ IsInjective(archives[Newest].retained)
    /\ commit # "ready" => ToSet(root) = Live(Newest) \cup Retained(Newest)
    /\ commit = "ready" => root = archives[Newest].retained
    /\ commit \notin {"intent", "raw"} => archives[Newest].raw

ArchInv ==
  \A a \in Existing :
    /\ Live(a) \cap Retained(a) = {} /\ Live(a) # {}
    /\ archives[a].ready => archives[a].raw /\ Live(a) \cap ToSet(root) = {}
    /\ "done" \in archives[a].marks => archives[a].raw

\* A queue message exists only for an archive whose raw file does.
SlotOk(s) ==
  /\ slots[s] # Free => Arch(s) \in Existing /\ archives[Arch(s)].raw
  /\ slots[s].pc = "verifyPrev" => Arch(s) > 1
  /\ slots[s].pc \in {"queued", "verify", "gate", "verifyPrev", "requeue", "extract"}
       => slots[s].summary = "todo"
  /\ slots[s].pc = "done" => slots[s].summary = "ok"

SlotInv == (\A s \in Slots : SlotOk(s)) /\ unwinding \subseteq Existing

Counters == crashes \in Nat /\ faults \in Nat /\ swallowed \in Nat

BaseInv == TypeOK /\ Counters /\ CommitInv /\ ArchInv /\ SlotInv /\ NothingLost

\* No restart, and no error swallowed.
Quiet  == crashes = 0 /\ swallowed = 0

\* A handler before the memory step, and one that may still get there.
Before == {"queued", "verify", "gate", "verifyPrev", "requeue", "extract"}
Active == Before \cup {"busy"}
Ahead(s) == slots[s].pc \in Before \/ (slots[s].pc = "busy" /\ slots[s].memory = "todo")

\* No handler will write memories from archive a, unless it repeats its own attempt.
Consumed(a) == \A s \in Slots : Arch(s) = a => ~Ahead(s)

InCommit(a) == a = Newest /\ commit # "idle"

\* Phase 1 has ended for every archive but the one being committed.
Settled ==
  \A a \in Existing : archives[a].ready \/ "failed" \in archives[a].marks \/ InCommit(a)

Disjoint ==
  \A a, b \in Existing :
    a # b /\ archives[a].ready /\ (archives[b].ready \/ InCommit(b)) => Live(a) \cap Live(b) = {}

\* One handler per archive at a time.
OneHandler ==
  /\ \A s, t \in Slots :
       s # t /\ Arch(s) = Arch(t) => slots[s].pc \notin Active \/ slots[t].pc \notin Active
  /\ commit \in {"intent", "raw", "enqueue"} => ~HasWork(Newest)

\* A handler passes the head of resume_queued_commit only when Phase 1 is ready.
Past == {"gate", "verifyPrev", "requeue", "extract", "busy"}

HandlerKnows ==
  /\ \A s \in Slots :
       /\ slots[s] # Free => archives[Arch(s)].intent
       /\ slots[s].pc \in Past => archives[Arch(s)].ready
  /\ commit \notin {"idle", "intent"} => archives[Newest].intent

TakenOnce ==
  \A m \in Messages :
    /\ taken[m] <= 1 + redone[m]
    /\ taken[m] > redone[m] => \E a \in Existing : archives[a].ready /\ m \in Live(a) /\ Consumed(a)

OnceInv == Quiet => Settled /\ Disjoint /\ OneHandler /\ HandlerKnows /\ TakenOnce

\* No archive has a failed marker or was completed without a new overview.
Clean == (\A a \in Existing : "failed" \notin archives[a].marks) /\ blank = 0

\* The overview of archive a is about everything in the archives up to a.
UpTo(a, X) == \A b \in 1 .. a : RawOf(b) \subseteq X

ChainInv ==
  Clean =>
    /\ \A a \in Existing : "done" \in archives[a].marks => UpTo(a, archives[a].overview)
    /\ \A s \in Slots :
         /\ slots[s].pc \in {"extract", "busy", "done"} /\ Arch(s) > 1
              => "done" \in archives[Arch(s) - 1].marks
         /\ slots[s].pc \in {"busy", "done"} => UpTo(Arch(s) - 1, slots[s].base)
         /\ slots[s].pc \in {"busy", "done"} /\ slots[s].summary = "ok"
              => UpTo(Arch(s), archives[Arch(s)].overview)

-----------------------------------------------------------------------------
(* Sequences and their elements *)

LEMMA SetOf ==
  ASSUME NEW S, NEW q \in Seq(S)
  PROVE  /\ \A x : x \in ToSet(q) <=> \E i \in 1 .. Len(q) : q[i] = x
         /\ ToSet(q) \subseteq S
  BY DEF ToSet

LEMMA AppendSet ==
  ASSUME NEW S, NEW q \in Seq(S), NEW x \in S
  PROVE  /\ Append(q, x) \in Seq(S) /\ ToSet(Append(q, x)) = ToSet(q) \cup {x}
         /\ IsInjective(q) /\ x \notin ToSet(q) => IsInjective(Append(q, x))
  <1> DEFINE r == Append(q, x)
  <1>1. /\ r \in Seq(S) /\ Len(r) = Len(q) + 1 /\ Len(q) \in Nat
        /\ \A i \in 1 .. Len(q) : r[i] = q[i]
        /\ r[Len(q) + 1] = x
        /\ DOMAIN r = 1 .. Len(r) /\ DOMAIN q = 1 .. Len(q)
    OBVIOUS
  <1> HIDE DEF r
  <1>2. ToSet(r) = ToSet(q) \cup {x}
    <2>1. ASSUME NEW y \in ToSet(r) PROVE y \in ToSet(q) \cup {x}
      <3>1. PICK i \in 1 .. Len(r) : r[i] = y
        BY <1>1, <2>1, SetOf
      <3>2. i \in 1 .. Len(q) \/ i = Len(q) + 1
        BY <1>1, <3>1
      <3> QED BY <1>1, <3>1, <3>2, SetOf
    <2>2. ASSUME NEW y \in ToSet(q) \cup {x} PROVE y \in ToSet(r)
      <3>1. CASE y = x
        <4>1. Len(q) + 1 \in 1 .. Len(r)
          BY <1>1
        <4> QED BY <1>1, <3>1, <4>1, SetOf
      <3>2. CASE y \in ToSet(q)
        <4>1. PICK i \in 1 .. Len(q) : q[i] = y
          BY <3>2, SetOf
        <4>2. i \in 1 .. Len(r) /\ r[i] = y
          BY <1>1, <4>1
        <4> QED BY <1>1, <4>2, SetOf
      <3> QED BY <2>2, <3>1, <3>2
    <2> QED BY <2>1, <2>2
  <1>3. ASSUME IsInjective(q), x \notin ToSet(q) PROVE IsInjective(r)
    <2> SUFFICES ASSUME NEW i \in 1 .. Len(r), NEW j \in 1 .. Len(r), r[i] = r[j] PROVE i = j
      BY <1>1 DEF IsInjective
    <2>1. \A k \in 1 .. Len(q) : q[k] # x
      BY <1>3, SetOf
    <2>2. (i \in 1 .. Len(q) \/ i = Len(q) + 1) /\ (j \in 1 .. Len(q) \/ j = Len(q) + 1)
      BY <1>1
    <2> QED BY <1>1, <1>3, <2>1, <2>2 DEF IsInjective
  <1> QED BY <1>1, <1>2, <1>3 DEF r

\* A sequence without repetitions, split in two.
LEMMA SplitSet ==
  ASSUME NEW S, NEW q \in Seq(S), NEW n \in 0 .. Len(q), IsInjective(q)
  PROVE  /\ SubSeq(q, 1, n) \in Seq(S) /\ SubSeq(q, n + 1, Len(q)) \in Seq(S)
         /\ ToSet(SubSeq(q, 1, n)) \cup ToSet(SubSeq(q, n + 1, Len(q))) = ToSet(q)
         /\ ToSet(SubSeq(q, 1, n)) \cap ToSet(SubSeq(q, n + 1, Len(q))) = {}
         /\ IsInjective(SubSeq(q, n + 1, Len(q)))
  <1> DEFINE h == SubSeq(q, 1, n)
             t == SubSeq(q, n + 1, Len(q))
  <1>1. /\ h \in Seq(S) /\ Len(h) = n /\ \A i \in 1 .. n : h[i] = q[i]
        /\ Len(q) \in Nat /\ n \in Nat /\ n <= Len(q) /\ DOMAIN q = 1 .. Len(q)
    OBVIOUS
  <1>2. /\ t \in Seq(S) /\ Len(t) = Len(q) - n
        /\ \A i \in 1 .. (Len(q) - n) : t[i] = q[n + i]
        /\ DOMAIN t = 1 .. Len(t)
    <2>1. t \in Seq(S) /\ Len(t) = Len(q) - n
      BY <1>1
    <2>2. \A i \in 1 .. (Len(q) - n) : t[i] = q[n + i]
      BY <1>1
    <2> QED BY <2>1, <2>2
  <1> HIDE DEF h, t
  <1>3. \A y : y \in ToSet(h) <=> \E i \in 1 .. n : q[i] = y
    BY <1>1, SetOf
  <1>4. \A y : y \in ToSet(t) <=> \E i \in (n + 1) .. Len(q) : q[i] = y
    <2>1. ASSUME NEW i \in (n + 1) .. Len(q) PROVE i - n \in 1 .. Len(t) /\ t[i - n] = q[i]
      BY <1>1, <1>2
    <2>2. ASSUME NEW i \in 1 .. Len(t) PROVE n + i \in (n + 1) .. Len(q) /\ t[i] = q[n + i]
      BY <1>1, <1>2
    <2>3. \A y : y \in ToSet(t) <=> \E i \in 1 .. Len(t) : t[i] = y
      BY <1>2, SetOf
    <2> QED BY <2>1, <2>2, <2>3
  <1>5. ToSet(h) \cup ToSet(t) = ToSet(q)
    <2>1. \A i \in 1 .. Len(q) : i \in 1 .. n \/ i \in (n + 1) .. Len(q)
      BY <1>1
    <2>2. 1 .. n \subseteq 1 .. Len(q) /\ (n + 1) .. Len(q) \subseteq 1 .. Len(q)
      BY <1>1
    <2> QED BY <1>3, <1>4, <2>1, <2>2, SetOf
  <1>6. ToSet(h) \cap ToSet(t) = {}
    <2> SUFFICES ASSUME NEW i \in 1 .. n, NEW j \in (n + 1) .. Len(q), q[i] = q[j] PROVE FALSE
      BY <1>3, <1>4
    <2>1. i \in 1 .. Len(q) /\ j \in 1 .. Len(q) /\ i # j
      BY <1>1
    <2> QED BY <1>1, <2>1 DEF IsInjective
  <1>7. IsInjective(t)
    <2> SUFFICES ASSUME NEW i \in 1 .. Len(t), NEW j \in 1 .. Len(t), t[i] = t[j] PROVE i = j
      BY <1>2 DEF IsInjective
    <2>1. n + i \in 1 .. Len(q) /\ n + j \in 1 .. Len(q) /\ q[n + i] = q[n + j]
      BY <1>1, <1>2
    <2>2. n + i = n + j
      BY <1>1, <2>1 DEF IsInjective
    <2> QED BY <1>1, <2>2
  <1> QED BY <1>1, <1>2, <1>5, <1>6, <1>7 DEF h, t

-----------------------------------------------------------------------------
(* What a step does to the archives and to the queue messages *)

Pcs == {"free", "queued", "verify", "gate", "verifyPrev", "requeue", "extract",
        "busy", "done", "finalize", "ack", "raised"}

LEMMA SlotFacts ==
  /\ Free \in SlotType /\ Queued \in SlotType /\ Queued # Free
  /\ Free.pc = "free" /\ Queued.pc = "queued" /\ Free.summary = "todo" /\ Queued.summary = "todo"
  /\ \A s \in Slots : Arch(s) \in Archives /\ Arch(s) \in Nat /\ Arch(s) > 0
  <1>1. /\ Free.pc = "free" /\ Queued.pc = "queued" /\ Free.summary = "todo" /\ Queued.summary = "todo"
        /\ Queued # Free
    BY DEF Free, Queued
  <1>2. Free \in SlotType
    BY CommitAssumption DEF Free, SlotType
  <1>3. Queued \in SlotType
    BY CommitAssumption DEF Free, Queued, SlotType
  <1>4. \A s \in Slots : Arch(s) \in Archives
    BY DEF Slots, Arch
  <1>5. \A a \in Archives : a \in Nat /\ a > 0
    BY CommitAssumption DEF Archives
  <1> QED BY <1>1, <1>2, <1>3, <1>4, <1>5

LEMMA ArchiveDomain ==
  ASSUME TypeOK
  PROVE  /\ Newest \in Nat /\ Existing = 1 .. Newest /\ Existing \subseteq Archives
         /\ \A a \in Existing : archives[a] \in ArchiveType
         /\ Newest > 0 => Newest \in Existing
  BY CommitAssumption DEF TypeOK, Newest, Existing, Archives

LEMMA Touched ==
  ASSUME TypeOK, NEW a \in Existing, NEW r \in ArchiveType, archives' = [archives EXCEPT ![a] = r]
  PROVE  /\ archives' \in Seq(ArchiveType) /\ Len(archives') = Len(archives)
         /\ \A b \in Existing : archives'[b] = IF b = a THEN r ELSE archives[b]
  BY DEF TypeOK, Existing

LEMMA GotoFacts ==
  ASSUME TypeOK, NEW s \in Slots, NEW pc \in Pcs, Goto(s, pc)
  PROVE  /\ slots' \in [Slots -> SlotType]
         /\ slots'[s].pc = pc /\ slots'[s].summary = slots[s].summary
         /\ slots'[s].base = slots[s].base /\ slots'[s].memory = slots[s].memory
         /\ slots' = [slots EXCEPT ![s] = slots'[s]]
         /\ \A t \in Slots : t # s => slots'[t] = slots[t]
  <1>1. slots[s] \in SlotType
    BY DEF TypeOK
  <1>2. [slots[s] EXCEPT !.pc = pc] \in SlotType
    BY <1>1 DEF SlotType, Pcs
  <1>3. slots' = [slots EXCEPT ![s] = [slots[s] EXCEPT !.pc = pc]]
    BY DEF Goto
  <1> QED BY <1>1, <1>2, <1>3 DEF TypeOK, SlotType

\* The archives keep their messages and their markers, and none becomes ready.
Mild ==
  /\ archives' \in Seq(ArchiveType) /\ Len(archives') = Len(archives)
  /\ \A b \in Existing :
       /\ archives'[b].archived = archives[b].archived /\ archives'[b].retained = archives[b].retained
       /\ archives'[b].raw = archives[b].raw /\ (archives'[b].ready => archives[b].ready)
       /\ "done" \in archives'[b].marks => "done" \in archives[b].marks \/ archives[b].raw
       /\ archives[b].marks \subseteq archives'[b].marks

\* .meta.json keeps its Phase 1.
Firm ==
  \A b \in Existing : archives'[b].ready = archives[b].ready /\ archives'[b].intent = archives[b].intent

LEMMA UnchangedMild ==
  ASSUME TypeOK, UNCHANGED archives
  PROVE  Mild /\ Firm
  BY DEF TypeOK, Mild, Firm

\* A change of one archive's markers, overview or metadata is mild.
LEMMA TouchedMild ==
  ASSUME TypeOK, NEW a \in Existing, NEW r \in ArchiveType, archives' = [archives EXCEPT ![a] = r],
         r.archived = archives[a].archived, r.retained = archives[a].retained, r.raw = archives[a].raw,
         r.ready => archives[a].ready, archives[a].marks \subseteq r.marks,
         "done" \in r.marks => "done" \in archives[a].marks \/ archives[a].raw
  PROVE  Mild /\ (r.ready = archives[a].ready /\ r.intent = archives[a].intent => Firm)
  <1>1. /\ archives' \in Seq(ArchiveType) /\ Len(archives') = Len(archives)
        /\ \A b \in Existing : archives'[b] = IF b = a THEN r ELSE archives[b]
    BY Touched
  <1> QED BY <1>1 DEF Mild, Firm

LEMMA MarkedMild ==
  ASSUME TypeOK, NEW a \in Existing, NEW mark \in {"done", "failed"}, archives' = Marked(a, mark),
         mark = "done" => archives[a].raw
  PROVE  Mild /\ Firm
  <1> DEFINE r == [archives[a] EXCEPT !.marks = archives[a].marks \cup {mark}]
  <1>0. archives[a] \in ArchiveType
    BY ArchiveDomain
  <1>1. /\ r \in ArchiveType /\ r.archived = archives[a].archived /\ r.retained = archives[a].retained
        /\ r.raw = archives[a].raw /\ r.ready = archives[a].ready /\ r.intent = archives[a].intent
        /\ r.marks = archives[a].marks \cup {mark}
    BY <1>0 DEF ArchiveType
  <1>2. archives' = [archives EXCEPT ![a] = r]
    BY DEF Marked
  <1> HIDE DEF r
  <1> QED BY <1>1, <1>2, TouchedMild

\* .done and .failed.json side by side.
LEMMA BothMild ==
  ASSUME TypeOK, NEW a \in Existing, archives[a].raw,
         archives' = [archives EXCEPT ![a].marks = {"done", "failed"}]
  PROVE  Mild /\ Firm /\ "failed" \in archives'[a].marks
  <1> DEFINE r == [archives[a] EXCEPT !.marks = {"done", "failed"}]
  <1>0. archives[a] \in ArchiveType
    BY ArchiveDomain
  <1>1. /\ r \in ArchiveType /\ r.archived = archives[a].archived /\ r.retained = archives[a].retained
        /\ r.raw = archives[a].raw /\ r.ready = archives[a].ready /\ r.intent = archives[a].intent
        /\ r.marks = {"done", "failed"}
    BY <1>0 DEF ArchiveType
  <1>2. archives' = [archives EXCEPT ![a] = r]
    OBVIOUS
  <1> HIDE DEF r
  <1>3. archives[a].marks \subseteq r.marks
    BY <1>0, <1>1 DEF ArchiveType
  <1>4. archives'[a] = r
    BY <1>1, <1>2, Touched
  <1> QED BY <1>1, <1>2, <1>3, <1>4, TouchedMild

LEMMA OverviewMild ==
  ASSUME TypeOK, NEW a \in Existing, NEW X \in SUBSET Messages,
         archives' = [archives EXCEPT ![a].overview = X]
  PROVE  Mild /\ Firm
  <1> DEFINE r == [archives[a] EXCEPT !.overview = X]
  <1>0. archives[a] \in ArchiveType
    BY ArchiveDomain
  <1>1. /\ r \in ArchiveType /\ r.archived = archives[a].archived /\ r.retained = archives[a].retained
        /\ r.raw = archives[a].raw /\ r.ready = archives[a].ready /\ r.marks = archives[a].marks
        /\ r.intent = archives[a].intent
    BY <1>0 DEF ArchiveType
  <1>2. archives' = [archives EXCEPT ![a] = r]
    OBVIOUS
  <1> HIDE DEF r
  <1> QED BY <1>1, <1>2, TouchedMild

LEMMA RecordedMild ==
  ASSUME TypeOK, NEW a \in Existing, archives' = [archives EXCEPT ![a].recorded = TRUE]
  PROVE  Mild /\ Firm
  <1> DEFINE r == [archives[a] EXCEPT !.recorded = TRUE]
  <1>0. archives[a] \in ArchiveType
    BY ArchiveDomain
  <1>1. /\ r \in ArchiveType /\ r.archived = archives[a].archived /\ r.retained = archives[a].retained
        /\ r.raw = archives[a].raw /\ r.ready = archives[a].ready /\ r.marks = archives[a].marks
        /\ r.intent = archives[a].intent
    BY <1>0 DEF ArchiveType
  <1>2. archives' = [archives EXCEPT ![a] = r]
    OBVIOUS
  <1> HIDE DEF r
  <1> QED BY <1>1, <1>2, TouchedMild

\* The merges that lose what they could not read.
LEMMA MergeMild ==
  ASSUME TypeOK, NEW a \in Existing, NEW X \in SUBSET Messages,
         \/ archives' = [archives EXCEPT ![a].overview = X, ![a].intent = FALSE,
                                         ![a].ready = FALSE, ![a].recorded = FALSE]
         \/ archives' = [archives EXCEPT ![a].recorded = TRUE, ![a].intent = FALSE, ![a].ready = FALSE]
  PROVE  /\ Mild
         /\ \A b \in Existing :
              /\ archives'[b].marks = archives[b].marks
              /\ archives'[b].overview = archives[b].overview \/ (b = a /\ archives'[b].overview = X)
  <1>0. archives[a] \in ArchiveType
    BY ArchiveDomain
  <1>1. CASE archives' = [archives EXCEPT ![a].overview = X, ![a].intent = FALSE,
                                          ![a].ready = FALSE, ![a].recorded = FALSE]
    <2> DEFINE r == [archives[a] EXCEPT !.overview = X, !.intent = FALSE, !.ready = FALSE, !.recorded = FALSE]
    <2>1. /\ r \in ArchiveType /\ r.archived = archives[a].archived /\ r.retained = archives[a].retained
          /\ r.raw = archives[a].raw /\ r.ready = FALSE /\ r.marks = archives[a].marks /\ r.overview = X
      BY <1>0 DEF ArchiveType
    <2>2. archives' = [archives EXCEPT ![a] = r]
      BY <1>1 DEF TypeOK, Existing
    <2> HIDE DEF r
    <2>3. \A b \in Existing : archives'[b] = IF b = a THEN r ELSE archives[b]
      BY <2>1, <2>2, Touched
    <2> QED BY <2>1, <2>2, <2>3, TouchedMild
  <1>2. CASE archives' = [archives EXCEPT ![a].recorded = TRUE, ![a].intent = FALSE, ![a].ready = FALSE]
    <2> DEFINE r == [archives[a] EXCEPT !.recorded = TRUE, !.intent = FALSE, !.ready = FALSE]
    <2>1. /\ r \in ArchiveType /\ r.archived = archives[a].archived /\ r.retained = archives[a].retained
          /\ r.raw = archives[a].raw /\ r.ready = FALSE /\ r.marks = archives[a].marks
          /\ r.overview = archives[a].overview
      BY <1>0 DEF ArchiveType
    <2>2. archives' = [archives EXCEPT ![a] = r]
      BY <1>2 DEF TypeOK, Existing
    <2> HIDE DEF r
    <2>3. \A b \in Existing : archives'[b] = IF b = a THEN r ELSE archives[b]
      BY <2>1, <2>2, Touched
    <2> QED BY <2>1, <2>2, <2>3, TouchedMild
  <1> QED BY <1>1, <1>2

\* No archive disappears or goes back.
Kept ==
  /\ archives' \in Seq(ArchiveType) /\ Len(archives) <= Len(archives')
  /\ \A b \in Existing : archives[b].raw => archives'[b].raw

LEMMA SlotFrame ==
  ASSUME TypeOK, Kept, NEW s \in Slots, SlotOk(s), slots'[s] = slots[s]
  PROVE  SlotOk(s)'
  <1>1. Existing \subseteq Existing'
    BY DEF TypeOK, Kept, Existing
  <1>2. slots[s].pc # "free" => slots[s] # Free
    BY SlotFacts
  <1>3. slots[s] # Free =>
          /\ Arch(s) \in Existing /\ Arch(s) \in Existing'
          /\ archives[Arch(s)].raw /\ archives'[Arch(s)].raw
    BY <1>1 DEF SlotOk, Kept
  <1> QED BY <1>3 DEF SlotOk

LEMMA MildKept ==
  ASSUME TypeOK, Mild
  PROVE  Kept /\ Existing' = Existing /\ Newest' = Newest
  BY DEF TypeOK, Mild, Kept, Existing, Newest

Counted == taken \in [Messages -> Nat] /\ redone \in [Messages -> Nat] /\ blank \in Nat
Bounded == crashes + faults + swallowed + blank + Cardinality(cancelled) <= MaxTroubles

LEMMA CancelledFinite ==
  ASSUME TypeOK
  PROVE  /\ IsFiniteSet(cancelled) /\ Cardinality(cancelled) \in Nat
         /\ \A a \in Archives : a \notin cancelled => Cardinality(cancelled \cup {a}) = Cardinality(cancelled) + 1
  <1>1. IsFiniteSet(Archives)
    BY CommitAssumption, FS_Interval DEF Archives
  <1>2. IsFiniteSet(cancelled)
    BY <1>1, FS_Subset DEF TypeOK
  <1> QED BY <1>2, FS_AddElement, FS_CardinalityType

\* Every trouble is counted, and there is room for it.
LEMMA Budget ==
  ASSUME TypeOK, Counters, UNCHANGED cancelled,
         \/ UNCHANGED <<crashes, faults, swallowed, blank>>
         \/ Trouble /\ crashes' = crashes + 1 /\ UNCHANGED <<faults, swallowed, blank>>
         \/ Trouble /\ faults' = faults + 1 /\ UNCHANGED <<crashes, swallowed, blank>>
         \/ Trouble /\ swallowed' = swallowed + 1 /\ UNCHANGED <<crashes, faults, blank>>
         \/ Trouble /\ blank' = blank + 1 /\ UNCHANGED <<crashes, faults, swallowed>>
  PROVE  Counters' /\ Bounded' /\ blank' \in Nat
  <1>1. Cardinality(cancelled) \in Nat /\ blank \in Nat /\ Bounded
    BY CancelledFinite DEF TypeOK, Bounded
  <1> QED BY <1>1, CommitAssumption DEF Counters, Bounded, Trouble

\* A step that leaves the conversation and Phase 1 alone, or interrupts Phase 1.
LEMMA QuietStep ==
  ASSUME BaseInv, Mild, UNCHANGED <<root, sent>>, commit' \in {commit, "idle"},
         slots' \in [Slots -> SlotType], \A s \in Slots : slots'[s] = slots[s] \/ SlotOk(s)',
         unwinding' \subseteq Existing, cancelled' \subseteq Archives, Counted', Counters', Bounded'
  PROVE  BaseInv'
  <1>0. TypeOK /\ CommitInv /\ ArchInv /\ SlotInv /\ NothingLost
    BY DEF BaseInv
  <1>1. Kept /\ Existing' = Existing /\ Newest' = Newest
    BY <1>0, MildKept
  <1>2. TypeOK'
    <2>1. commit' \in {"idle"} \cup Phase1Steps
      BY <1>0 DEF TypeOK
    <2>2. root' \in Seq(Messages) /\ IsInjective(root)' /\ sent' \subseteq Messages
      BY <1>0 DEF TypeOK
    <2>3. archives' \in Seq(ArchiveType) /\ (Newest <= ArchiveCount)' /\ unwinding' \subseteq Archives
      BY <1>0, <1>1, ArchiveDomain DEF TypeOK, Mild
    <2> QED BY <2>1, <2>2, <2>3 DEF TypeOK, Counted, Bounded
  <1>3. CommitInv'
    BY <1>0, <1>1, ArchiveDomain DEF CommitInv, Mild, Live, Retained
  <1>4. ArchInv'
    BY <1>0, <1>1 DEF ArchInv, Mild, Live, Retained
  <1>5. SlotInv'
    BY <1>0, <1>1, SlotFrame DEF SlotInv
  <1>6. NothingLost'
    <2>1. \A a \in Existing : RawOf(a)' = RawOf(a)
      BY DEF RawOf, Mild
    <2> QED BY <1>0, <1>1, <2>1 DEF NothingLost
  <1> QED BY <1>2, <1>3, <1>4, <1>5, <1>6 DEF BaseInv

LEMMA Greatest ==
  ASSUME NEW n \in Nat, NEW S \in SUBSET (1 .. n), S # {}
  PROVE  \E x \in S : \A y \in S : y <= x
  <1> DEFINE U == {u \in Nat : \A y \in S : y <= u}
             R == OpToRel(<, Nat)
  <1>1. n \in U /\ U \subseteq Nat
    OBVIOUS
  <1>2. PICK u \in U : \A v \in U : ~(<<v, u>> \in R)
    <2>1. IsWellFoundedOn(R, Nat)
      BY NatLessThanWellFounded
    <2> HIDE DEF R, U
    <2> QED BY <1>1, <2>1, WFMin
  <1>3. \A v \in U : ~(v < u)
    BY <1>1, <1>2 DEF OpToRel
  <1>4. u \in S
    <2> SUFFICES ASSUME u \notin S PROVE FALSE
      OBVIOUS
    <2>1. PICK z \in S : TRUE
      OBVIOUS
    <2>2. u > 0 /\ u - 1 \in Nat
      BY <2>1
    <2>3. \A y \in S : y <= u - 1
      BY <2>2
    <2>4. u - 1 \in U /\ u - 1 < u
      BY <2>2, <2>3
    <2> QED BY <1>3, <2>4
  <1> QED BY <1>4

LEMMA BaseType ==
  ASSUME TypeOK, NEW a
  PROVE  Base(a) \in SUBSET Messages
  <1> DEFINE finished == {b \in Existing : b < a /\ State(b) = "completed" /\ archives[b].overview # {}}
  <1>1. CASE finished = {}
    BY <1>1 DEF Base
  <1>2. CASE finished # {}
    <2>0. \E b \in finished : \A c \in finished : c <= b
      BY <1>2, ArchiveDomain, Greatest
    <2>1. (CHOOSE b \in finished : \A c \in finished : c <= b) \in Existing
      BY <2>0
    <2> QED BY <1>2, <2>1, ArchiveDomain DEF Base, ArchiveType
  <1> QED BY <1>1, <1>2

\* A slot after its handler's step.
LEMMA SlotMoves ==
  ASSUME TypeOK, SlotInv, Mild, NEW s \in Slots, slots[s] # Free,
         slots'[s].pc = "verifyPrev" => Arch(s) > 1,
         slots'[s].pc \in {"queued", "verify", "gate", "verifyPrev", "requeue", "extract"}
           => slots'[s].summary = "todo",
         slots'[s].pc = "done" => slots'[s].summary = "ok"
  PROVE  SlotOk(s)'
  <1>1. Existing' = Existing
    BY MildKept
  <1>2. Arch(s) \in Existing /\ archives[Arch(s)].raw
    BY DEF SlotInv, SlotOk
  <1>3. archives'[Arch(s)].raw
    BY <1>2 DEF Mild
  <1> QED BY <1>1, <1>2, <1>3 DEF SlotOk

\* What the summary of an archive is about is typed.
LEMMA SummaryType ==
  ASSUME TypeOK, NEW s \in Slots, Arch(s) \in Existing
  PROVE  Summary(s) \in SUBSET Messages
  <1>1. archives[Arch(s)].archived \in Seq(Messages) /\ slots[s].base \in SUBSET Messages
    BY ArchiveDomain DEF TypeOK, ArchiveType, SlotType
  <1> QED BY <1>1, SetOf DEF Summary

\* The steps of a handler that verifies nothing.
LEMMA HandlerBase ==
  ASSUME BaseInv, NEW s \in Slots,
         \/ Dequeue(s) \/ Finalize(s) \/ Gate(s) \/ Requeue(s) \/ StartExtract(s) \/ Summarize(s)
         \/ ExtractMemories(s) \/ RecordMemories(s) \/ SummaryFails(s) \/ MemoryRetried(s)
         \/ MemoryFails(s) \/ Gathered(s) \/ WriteDone(s) \/ FailRun(s) \/ Raise(s) \/ Ack(s)
  PROVE  BaseInv' /\ Mild /\ Firm
  <1>0. TypeOK /\ ArchInv /\ SlotInv /\ Counters
    BY DEF BaseInv
  <1>1. UNCHANGED <<root, sent, commit, cancelled, unwinding, crashes, swallowed>>
    BY DEF Dequeue, Finalize, Gate, Requeue, StartExtract, Summarize, ExtractMemories, RecordMemories,
           SummaryFails, MemoryRetried, MemoryFails, Gathered, WriteDone, FailRun, Raise, Ack
  <1>2. \/ UNCHANGED <<faults, blank>>
        \/ Trouble /\ faults' = faults + 1 /\ UNCHANGED blank
        \/ Trouble /\ blank' = blank + 1 /\ UNCHANGED faults
    BY DEF Dequeue, Finalize, Gate, Requeue, StartExtract, Summarize, ExtractMemories, RecordMemories,
           SummaryFails, MemoryRetried, MemoryFails, Gathered, WriteDone, FailRun, Raise, Ack
  <1>4. Counters' /\ Bounded' /\ blank' \in Nat
    BY <1>0, <1>1, <1>2, Budget
  <1>5. unwinding' \subseteq Existing /\ cancelled' \subseteq Archives /\ commit' \in {commit, "idle"}
    BY <1>0, <1>1 DEF SlotInv, TypeOK
  <1>t. taken' \in [Messages -> Nat]
    <2>1. taken \in [Messages -> Nat]
      BY <1>0 DEF TypeOK
    <2>2. CASE ExtractMemories(s)
      <3>1. taken' = [m \in Messages |-> IF m \in ToSet(archives[Arch(s)].archived) THEN taken[m] + 1 ELSE taken[m]]
        BY <2>2 DEF ExtractMemories
      <3> QED BY <2>1, <3>1
    <2>3. CASE ~ExtractMemories(s)
      BY <2>1, <2>3 DEF Dequeue, Finalize, Gate, Requeue, StartExtract, Summarize, RecordMemories,
           SummaryFails, MemoryRetried, MemoryFails, Gathered, WriteDone, FailRun, Raise, Ack
    <2> QED BY <2>2, <2>3
  <1>r. redone' \in [Messages -> Nat]
    <2>1. redone \in [Messages -> Nat]
      BY <1>0 DEF TypeOK
    <2>2. CASE MemoryRetried(s)
      <3>1. redone' = [m \in Messages |->
                         IF slots[s].memory = "applied" /\ m \in ToSet(archives[Arch(s)].archived)
                         THEN redone[m] + 1 ELSE redone[m]]
        BY <2>2 DEF MemoryRetried
      <3> QED BY <2>1, <3>1
    <2>3. CASE ~MemoryRetried(s)
      BY <2>1, <2>3 DEF Dequeue, Finalize, Gate, Requeue, StartExtract, Summarize, ExtractMemories,
           RecordMemories, SummaryFails, MemoryFails, Gathered, WriteDone, FailRun, Raise, Ack
    <2> QED BY <2>2, <2>3
  <1>6. SUFFICES /\ Mild /\ Firm /\ slots' \in [Slots -> SlotType]
                 /\ \A t \in Slots : slots'[t] = slots[t] \/ SlotOk(t)'
    BY <1>1, <1>4, <1>5, <1>t, <1>r, QuietStep DEF Counted
  <1>7. SlotOk(s) /\ slots[s] \in SlotType /\ (slots[s].pc # "free" => slots[s] # Free)
    BY <1>0, SlotFacts DEF SlotInv, TypeOK
  <1>8. slots[s] # Free => Arch(s) \in Existing /\ archives[Arch(s)].raw /\ archives[Arch(s)] \in ArchiveType
    BY <1>0, <1>7, ArchiveDomain DEF SlotOk
  <1> DEFINE a == Arch(s)
  <1>9. CASE Dequeue(s)
    <2>1. UNCHANGED archives /\ slots[s].pc = "queued"
      BY <1>9 DEF Dequeue, At
    <2>2. PICK pc \in {"finalize", "ack", "gate", "verify"} :
             Goto(s, pc)
      BY <1>9 DEF Dequeue
    <2>3. pc \in Pcs
      BY DEF Pcs
    <2>4. Mild /\ Firm
      BY <1>0, <2>1, UnchangedMild
    <2> QED BY <1>0, <1>7, <2>1, <2>2, <2>3, <2>4, GotoFacts, SlotMoves DEF TypeOK, SlotOk
  <1>10. CASE Finalize(s) \/ FailRun(s)
    <2>1. /\ \/ archives' = Marked(a, "failed") \/ archives' = [archives EXCEPT ![a].marks = {"done", "failed"}]
          /\ slots[s].pc \in {"finalize", "extract", "done"} /\ Goto(s, "ack") /\ "ack" \in Pcs
      BY <1>10 DEF Finalize, FailRun, At, Pcs
    <2>2. Mild /\ Firm
      BY <1>0, <1>7, <1>8, <2>1, MarkedMild, BothMild
    <2> QED BY <1>0, <1>7, <2>1, <2>2, GotoFacts, SlotMoves DEF TypeOK
  <1>11. CASE Gate(s)
    <2>1. slots[s].pc = "gate" /\ slots[s].summary = "todo"
      BY <1>7, <1>11 DEF Gate, At, SlotOk
    <2>2. PICK pc \in {"extract", "verifyPrev", "requeue"} : Goto(s, pc) /\ (pc = "verifyPrev" => a > 1)
      BY <1>11, SlotFacts DEF Gate
    <2>3. Mild /\ Firm
      <3>1. CASE UNCHANGED archives
        BY <1>0, <3>1, UnchangedMild
      <3>2. CASE a - 1 > 0 /\ archives' = Marked(a - 1, "failed")
        <4>1. a \in Existing
          BY <1>7, <1>8, <2>1
        <4>2. a - 1 \in Existing
          BY <1>0, <3>2, <4>1, ArchiveDomain
        <4> QED BY <1>0, <3>2, <4>2, MarkedMild
      <3> QED BY <1>11, <3>1, <3>2 DEF Gate
    <2>4. pc \in Pcs
      BY DEF Pcs
    <2> QED BY <1>0, <1>7, <2>1, <2>2, <2>3, <2>4, GotoFacts, SlotMoves DEF TypeOK
  <1>12. CASE Requeue(s)
    <2>1. UNCHANGED archives /\ slots[s].pc = "requeue"
      BY <1>12 DEF Requeue, At
    <2>2. Mild /\ Firm
      BY <1>0, <2>1, UnchangedMild
    <2>3. CASE \E t \in Slots : Vacant(t, a) /\ slots' = [slots EXCEPT ![t] = Queued, ![s].pc = "ack"]
      <3>1. PICK t \in Slots : Vacant(t, a) /\ slots' = [slots EXCEPT ![t] = Queued, ![s].pc = "ack"]
        BY <2>3
      <3>2. t # s /\ Arch(t) = a
        BY <1>7, <2>1, <3>1 DEF Vacant
      <3>3. [slots[s] EXCEPT !.pc = "ack"] \in SlotType /\ [slots[s] EXCEPT !.pc = "ack"].pc = "ack"
        BY <1>7 DEF SlotType
      <3>4. slots' = [slots EXCEPT ![t] = Queued, ![s] = [slots[s] EXCEPT !.pc = "ack"]]
        BY <3>1, <3>2, <1>0 DEF TypeOK
      <3>5. /\ slots' \in [Slots -> SlotType] /\ slots'[t] = Queued /\ slots'[s].pc = "ack"
            /\ \A u \in Slots : u # t /\ u # s => slots'[u] = slots[u]
        BY <1>0, <3>2, <3>3, <3>4, SlotFacts DEF TypeOK
      <3>6. SlotOk(s)'
        BY <1>0, <1>7, <2>1, <2>2, <3>5, SlotMoves
      <3>7. SlotOk(t)'
        <4>1. Arch(t) \in Existing' /\ archives'[Arch(t)].raw
          BY <1>7, <1>8, <2>1, <3>2 DEF Existing
        <4> QED BY <3>5, <4>1, SlotFacts DEF SlotOk
      <3> QED BY <1>0, <2>1, <2>2, <3>5, <3>6, <3>7 DEF TypeOK
    <2>4. CASE slots' = [slots EXCEPT ![s] = Queued]
      <3>1. slots' \in [Slots -> SlotType] /\ slots'[s] = Queued /\ \A u \in Slots : u # s => slots'[u] = slots[u]
        BY <1>0, <2>4, SlotFacts DEF TypeOK
      <3>2. SlotOk(s)'
        BY <1>0, <1>7, <2>1, <2>2, <3>1, SlotMoves, SlotFacts
      <3> QED BY <1>0, <2>1, <2>2, <3>1, <3>2 DEF TypeOK
    <2> QED BY <1>12, <2>3, <2>4 DEF Requeue
  <1>13. CASE StartExtract(s)
    <2>0. slots[s].pc = "extract" /\ archives[a].raw
      BY <1>7, <1>8, <1>13 DEF StartExtract, At, SlotOk
    <2>1. /\ UNCHANGED archives
          /\ slots' = [slots EXCEPT ![s].pc = "busy", ![s].base = Base(a),
                                    ![s].memory = IF archives[a].recorded THEN "ok" ELSE "todo"]
      BY <1>13, <2>0 DEF StartExtract
    <2>2. Base(a) \in SUBSET Messages
      BY <1>0, BaseType
    <2>3. PICK memo \in {"ok", "todo"} : memo = IF archives[a].recorded THEN "ok" ELSE "todo"
      OBVIOUS
    <2> DEFINE r == [slots[s] EXCEPT !.pc = "busy", !.base = Base(a), !.memory = memo]
    <2>4. r \in SlotType /\ r.pc = "busy"
      BY <1>7, <2>2 DEF SlotType
    <2>5. slots' = [slots EXCEPT ![s] = r]
      BY <2>1, <2>3
    <2> HIDE DEF r
    <2>6. slots' \in [Slots -> SlotType] /\ slots'[s] = r /\ \A u \in Slots : u # s => slots'[u] = slots[u]
      BY <1>0, <2>4, <2>5 DEF TypeOK
    <2>7. Mild /\ Firm
      BY <1>0, <2>1, UnchangedMild
    <2>8. SlotOk(s)'
      BY <1>0, <1>7, <2>0, <2>4, <2>6, <2>7, SlotMoves
    <2> QED BY <1>0, <2>0, <2>6, <2>7, <2>8 DEF TypeOK
  <1>14. CASE \/ Summarize(s) \/ ExtractMemories(s) \/ RecordMemories(s) \/ SummaryFails(s)
              \/ MemoryRetried(s) \/ MemoryFails(s)
    <2>0. slots[s].pc = "busy" /\ a \in Existing /\ slots[s] # Free
      BY <1>7, <1>8, <1>14 DEF Summarize, ExtractMemories, RecordMemories, SummaryFails, MemoryRetried,
           MemoryFails, At, SlotOk
    <2>1. PICK r \in SlotType : slots' = [slots EXCEPT ![s] = r] /\ r.pc = "busy"
      <3>1. CASE \E x \in {"ok", "error"} : slots' = [slots EXCEPT ![s].summary = x]
        <4>1. PICK x \in {"ok", "error"} : slots' = [slots EXCEPT ![s].summary = x]
          BY <3>1
        <4>2. /\ [slots[s] EXCEPT !.summary = x] \in SlotType
              /\ [slots[s] EXCEPT !.summary = x].pc = "busy"
          BY <1>7, <2>0 DEF SlotType
        <4>3. slots' = [slots EXCEPT ![s] = [slots[s] EXCEPT !.summary = x]]
          BY <4>1
        <4> QED BY <4>2, <4>3
      <3>2. CASE \E x \in {"ok", "error", "applied"} : slots' = [slots EXCEPT ![s].memory = x]
        <4>1. PICK x \in {"ok", "error", "applied"} : slots' = [slots EXCEPT ![s].memory = x]
          BY <3>2
        <4>2. /\ [slots[s] EXCEPT !.memory = x] \in SlotType
              /\ [slots[s] EXCEPT !.memory = x].pc = "busy"
          BY <1>7, <2>0 DEF SlotType
        <4>3. slots' = [slots EXCEPT ![s] = [slots[s] EXCEPT !.memory = x]]
          BY <4>1
        <4> QED BY <4>2, <4>3
      <3>3. CASE /\ slots[s].summaryTries < MaxRetries
                 /\ slots' = [slots EXCEPT ![s].summaryTries = @ + 1]
        <4>0. slots[s].summaryTries + 1 \in 0 .. MaxRetries
          BY <1>7, <3>3, CommitAssumption DEF SlotType
        <4> DEFINE q == [slots[s] EXCEPT !.summaryTries = slots[s].summaryTries + 1]
        <4>2. q \in SlotType /\ q.pc = "busy"
          BY <1>7, <2>0, <4>0 DEF SlotType
        <4>3. slots' = [slots EXCEPT ![s] = q]
          BY <3>3
        <4> HIDE DEF q
        <4> QED BY <4>2, <4>3
      <3>4. CASE MemoryRetried(s)
        <4>0. slots[s].memoryTries + 1 \in 0 .. MaxRetries
          BY <1>7, <3>4, CommitAssumption DEF SlotType, MemoryRetried
        <4> DEFINE q == [slots[s] EXCEPT !.memory = "todo", !.memoryTries = slots[s].memoryTries + 1]
        <4>2. q \in SlotType /\ q.pc = "busy"
          BY <1>7, <2>0, <4>0 DEF SlotType
        <4>3. slots' = [slots EXCEPT ![s] = q]
          BY <1>0, <3>4 DEF MemoryRetried, TypeOK
        <4> HIDE DEF q
        <4> QED BY <4>2, <4>3
      <3> QED BY <1>14, <3>1, <3>2, <3>3, <3>4
              DEF Summarize, ExtractMemories, RecordMemories, SummaryFails, MemoryFails
    <2>2. slots' \in [Slots -> SlotType] /\ slots'[s] = r /\ \A u \in Slots : u # s => slots'[u] = slots[u]
      BY <1>0, <2>1 DEF TypeOK
    <2>3. Mild /\ Firm
      <3>1. CASE UNCHANGED archives
        BY <1>0, <3>1, UnchangedMild
      <3>2. CASE archives' = [archives EXCEPT ![a].overview = Summary(s)]
        <4>1. Summary(s) \in SUBSET Messages
          BY <1>0, <2>0, SummaryType
        <4> QED BY <1>0, <2>0, <3>2, <4>1, OverviewMild
      <3>3. CASE RecordMemories(s)
        BY <1>0, <2>0, <3>3, RecordedMild DEF RecordMemories
      <3> QED BY <1>14, <3>1, <3>2, <3>3
              DEF Summarize, ExtractMemories, SummaryFails, MemoryRetried, MemoryFails
    <2>5. SlotOk(s)'
      BY <1>0, <2>0, <2>1, <2>2, <2>3, SlotMoves
    <2> QED BY <2>2, <2>3, <2>5
  <1>15. CASE Gathered(s)
    <2>1. slots[s].pc = "busy" /\ a \in Existing /\ slots[s] # Free
      BY <1>7, <1>8, <1>15 DEF Gathered, At, SlotOk
    <2>2. PICK pc \in {"ack", "done"} : Goto(s, pc) /\ (pc = "done" => slots[s].summary = "ok")
      BY <1>7, <1>15 DEF Gathered, SlotType
    <2>3. Mild /\ Firm
      BY <1>0, <1>15, <2>1, UnchangedMild, MarkedMild DEF Gathered
    <2>4. pc \in Pcs
      BY DEF Pcs
    <2> QED BY <1>0, <2>1, <2>2, <2>3, <2>4, GotoFacts, SlotMoves DEF TypeOK
  <1>16. CASE WriteDone(s)
    <2>1. /\ archives' = Marked(a, "done") /\ slots[s].pc = "done"
          /\ Goto(s, "ack") /\ "ack" \in Pcs
      BY <1>16 DEF WriteDone, At, Pcs
    <2>2. Mild /\ Firm
      BY <1>0, <1>7, <1>8, <2>1, MarkedMild
    <2> QED BY <1>0, <1>7, <2>1, <2>2, GotoFacts, SlotMoves DEF TypeOK
  <1>17. CASE Raise(s)
    <2>1. UNCHANGED archives /\ slots[s].pc # "free" /\ Goto(s, "raised") /\ "raised" \in Pcs
      BY <1>17 DEF Raise, Pcs
    <2>2. Mild /\ Firm
      BY <1>0, <2>1, UnchangedMild
    <2> QED BY <1>0, <1>7, <2>1, <2>2, GotoFacts, SlotMoves DEF TypeOK
  <1>18. CASE Ack(s)
    <2>1. UNCHANGED archives /\ slots' = [slots EXCEPT ![s] = Free]
      BY <1>18 DEF Ack
    <2>2. Mild /\ Firm
      BY <1>0, <2>1, UnchangedMild
    <2>3. slots' \in [Slots -> SlotType] /\ slots'[s] = Free /\ \A u \in Slots : u # s => slots'[u] = slots[u]
      BY <1>0, <2>1, SlotFacts DEF TypeOK
    <2>4. SlotOk(s)'
      BY <2>3, SlotFacts DEF SlotOk
    <2> QED BY <1>0, <2>1, <2>2, <2>3, <2>4 DEF TypeOK
  <1> QED BY <1>9, <1>10, <1>11, <1>12, <1>13, <1>14, <1>15, <1>16, <1>17, <1>18

\* A commit that fails, a cancellation, the marker of an interrupted extraction and
\* a restart.
LEMMA TroubleBase ==
  ASSUME BaseInv, FailCommit \/ FailUnmarked \/ Crash \/ \E a \in Archives : Cancel(a) \/ Unwind(a)
  PROVE  BaseInv'
  <1>0. TypeOK /\ ArchInv /\ SlotInv /\ Counters /\ CommitInv
    BY DEF BaseInv
  <1>1. /\ Cardinality(cancelled) \in Nat /\ crashes \in Nat /\ faults \in Nat
        /\ swallowed \in Nat /\ blank \in Nat
    BY <1>0, CancelledFinite DEF Counters, TypeOK
  <1>2. UNCHANGED <<root, sent, taken, redone, blank>>
    BY DEF FailCommit, FailUnmarked, Crash, Cancel, Unwind
  <1>3. Counted'
    BY <1>0, <1>2 DEF TypeOK, Counted
  <1>4. CASE FailCommit
    <2>1. Mild
      BY <1>0, <1>4, ArchiveDomain, MarkedMild DEF FailCommit, CommitInv
    <2>2. Counters' /\ Bounded'
      BY <1>0, <1>2, <1>4, Budget DEF FailCommit
    <2> QED BY <1>0, <1>2, <1>3, <1>4, <2>1, <2>2, QuietStep DEF FailCommit, TypeOK, SlotInv
  <1>5. CASE FailUnmarked
    <2>1. Mild
      BY <1>0, <1>5, UnchangedMild DEF FailUnmarked
    <2>2. Counters' /\ Bounded'
      BY <1>1, <1>2, <1>5, CommitAssumption DEF FailUnmarked, Counters, Bounded
    <2> QED BY <1>0, <1>2, <1>3, <1>5, <2>1, <2>2, QuietStep DEF FailUnmarked, TypeOK, SlotInv
  <1>6. CASE Crash
    <2>1. Mild
      BY <1>0, <1>6, UnchangedMild DEF Crash
    <2>2. Counters' /\ Bounded'
      BY <1>0, <1>2, <1>6, Budget DEF Crash
    <2>3. /\ slots' \in [Slots -> SlotType]
          /\ \A s \in Slots : slots'[s] = IF slots[s] = Free THEN Free ELSE Queued
      BY <1>0, <1>6, SlotFacts DEF Crash, TypeOK
    <2>4. \A s \in Slots : slots'[s] = slots[s] \/ SlotOk(s)'
      BY <1>0, <2>1, <2>3, SlotFacts, SlotMoves
    <2> QED BY <1>0, <1>2, <1>3, <1>6, <2>1, <2>2, <2>3, <2>4, QuietStep DEF Crash, TypeOK
  <1>7. ASSUME NEW a \in Archives, Cancel(a) PROVE BaseInv'
    <2>1. Mild
      BY <1>0, <1>7, UnchangedMild DEF Cancel
    <2>2. Counters' /\ Bounded'
      BY <1>0, <1>1, <1>2, <1>7, CancelledFinite, CommitAssumption DEF Cancel, Trouble, Counters, Bounded
    <2>3. \A s \in Slots : slots'[s] = slots[s] \/ slots'[s] = Free
      BY <1>7 DEF Cancel
    <2>4. slots' \in [Slots -> SlotType]
      BY <1>0, <1>7, SlotFacts DEF Cancel, TypeOK
    <2>5. \A s \in Slots : slots'[s] = slots[s] \/ SlotOk(s)'
      BY <2>3, SlotFacts DEF SlotOk
    <2>6. unwinding' \subseteq Existing /\ cancelled' \subseteq Archives /\ commit' = commit
      BY <1>0, <1>7 DEF Cancel, SlotInv, TypeOK
    <2> QED BY <1>0, <1>2, <1>3, <2>1, <2>2, <2>4, <2>5, <2>6, QuietStep
  <1>8. ASSUME NEW a \in Archives, Unwind(a) PROVE BaseInv'
    <2>1. a \in Existing
      BY <1>0, <1>8 DEF Unwind, SlotInv
    <2>2. Mild
      BY <1>0, <1>8, <2>1, MarkedMild DEF Unwind
    <2>3. unwinding' \subseteq Existing /\ cancelled' \subseteq Archives /\ commit' = commit
      BY <1>0, <1>8 DEF Unwind, SlotInv, TypeOK
    <2>4. Counters' /\ Bounded'
      BY <1>0, <1>2, <1>8, Budget DEF Unwind
    <2> QED BY <1>0, <1>2, <1>3, <1>8, <2>2, <2>3, <2>4, QuietStep DEF Unwind, TypeOK
  <1> QED BY <1>4, <1>5, <1>6, <1>7, <1>8

\* An accepted message joins the live conversation.
LEMMA AppendBase ==
  ASSUME BaseInv, NEW m \in Messages, Append1(m)
  PROVE  BaseInv'
  <1>0. TypeOK /\ ArchInv /\ SlotInv /\ Counters /\ NothingLost
    BY DEF BaseInv
  <1>1. /\ commit = "idle" /\ m \notin Delivered /\ root' = Append(root, m) /\ sent' = sent \cup {m}
        /\ UNCHANGED <<archives, commit, slots, cancelled, unwinding, taken, redone, blank, troubles>>
    BY DEF Append1
  <1>2. m \notin ToSet(root) /\ \A a \in Existing : archives[a].raw => m \notin Live(a)
    BY <1>1 DEF Delivered, Live
  <1>3. root' \in Seq(Messages) /\ ToSet(root') = ToSet(root) \cup {m} /\ IsInjective(root')
    BY <1>0, <1>1, <1>2, AppendSet DEF TypeOK
  <1>4. TypeOK' /\ Counters'
    BY <1>0, <1>1, <1>3 DEF TypeOK, Counters, Newest
  <1>5. CommitInv'
    BY <1>1 DEF CommitInv
  <1>6. ArchInv'
    BY <1>0, <1>1, <1>2, <1>3 DEF ArchInv, Live, Retained, Existing
  <1>7. SlotInv'
    BY <1>0, <1>1 DEF SlotInv, SlotOk, Existing
  <1>8. NothingLost'
    BY <1>0, <1>1, <1>3 DEF NothingLost, RawOf, Existing
  <1> QED BY <1>4, <1>5, <1>6, <1>7, <1>8 DEF BaseInv

\* The intent of a commit: a new archive with the head of the conversation.
LEMMA BeginFacts ==
  ASSUME TypeOK, NEW keep \in Keeps, BeginCommit(keep)
  PROVE  \E r \in ArchiveType :
           /\ archives' = Append(archives, r) /\ commit = "idle" /\ commit' = "intent"
           /\ archives' \in Seq(ArchiveType)
           /\ Newest' = Newest + 1 /\ Newest' <= ArchiveCount /\ Existing' = Existing \cup {Newest'}
           /\ Newest' \notin Existing /\ Newest' > 0
           /\ archives'[Newest'] = r /\ \A a \in Existing : archives'[a] = archives[a]
           /\ ~r.ready /\ ~r.raw /\ r.marks = {} /\ ~r.recorded /\ r.overview = {}
           /\ ToSet(r.archived) \cup ToSet(r.retained) = ToSet(root) /\ ToSet(r.archived) # {}
           /\ ToSet(r.archived) \cap ToSet(r.retained) = {} /\ IsInjective(r.retained)
           /\ UNCHANGED <<root, slots, cancelled, unwinding, history, troubles>>
  <1> DEFINE split == IF keep < Len(root) THEN Len(root) - keep ELSE 0
             h == SubSeq(root, 1, split)
             t == SubSeq(root, split + 1, Len(root))
             r == [intent |-> FALSE, ready |-> FALSE, archived |-> h, retained |-> t, raw |-> FALSE,
                   recorded |-> FALSE, overview |-> {}, marks |-> {}]
  <1>1. split \in 0 .. Len(root)
    BY CommitAssumption DEF TypeOK
  <1>0. split > 0
    BY DEF BeginCommit
  <1> HIDE DEF split
  <1>2. /\ h \in Seq(Messages) /\ t \in Seq(Messages)
        /\ ToSet(h) \cup ToSet(t) = ToSet(root) /\ ToSet(h) \cap ToSet(t) = {} /\ IsInjective(t)
    BY <1>1, SplitSet DEF TypeOK
  <1>3. /\ archives' = Append(archives, r) /\ commit = "idle" /\ commit' = "intent" /\ Newest < ArchiveCount
        /\ UNCHANGED <<root, slots, cancelled, unwinding, history, troubles>>
    BY DEF BeginCommit, split
  <1>9. ToSet(h) # {}
    <2>1. root \in Seq(Messages) /\ Len(h) = split /\ split \in Nat
      BY <1>1 DEF TypeOK
    <2>2. 1 \in 1 .. Len(h)
      BY <1>0, <2>1
    <2> HIDE DEF h
    <2> QED BY <1>2, <2>2, SetOf
  <1> HIDE DEF h, t
  <1>4. r \in ArchiveType /\ r.archived = h /\ r.retained = t
    BY <1>2 DEF ArchiveType
  <1>5. ~r.ready /\ ~r.raw /\ r.marks = {} /\ ~r.recorded /\ r.overview = {}
    OBVIOUS
  <1> HIDE DEF r
  <1>6. /\ archives' \in Seq(ArchiveType) /\ Len(archives') = Len(archives) + 1
        /\ DOMAIN archives' = DOMAIN archives \cup {Len(archives) + 1}
        /\ Len(archives) + 1 \notin DOMAIN archives /\ Len(archives) \in Nat
        /\ archives'[Len(archives) + 1] = r /\ \A a \in DOMAIN archives : archives'[a] = archives[a]
    BY <1>3, <1>4 DEF TypeOK
  <1>7. /\ Newest' = Newest + 1 /\ Newest' <= ArchiveCount /\ Existing' = Existing \cup {Newest'}
        /\ Newest' \notin Existing /\ Newest' > 0
        /\ archives'[Newest'] = r /\ \A a \in Existing : archives'[a] = archives[a]
    BY <1>3, <1>6, CommitAssumption DEF Newest, Existing
  <1> QED BY <1>2, <1>3, <1>4, <1>5, <1>6, <1>7, <1>9

LEMMA BeginBase ==
  ASSUME BaseInv, NEW keep \in Keeps, BeginCommit(keep)
  PROVE  BaseInv'
  <1>0. TypeOK /\ ArchInv /\ SlotInv /\ Counters /\ NothingLost
    BY DEF BaseInv
  <1>1. PICK r \in ArchiveType :
           /\ archives' = Append(archives, r) /\ commit = "idle" /\ commit' = "intent"
           /\ archives' \in Seq(ArchiveType)
           /\ Newest' = Newest + 1 /\ Newest' <= ArchiveCount /\ Existing' = Existing \cup {Newest'}
           /\ Newest' \notin Existing /\ Newest' > 0
           /\ archives'[Newest'] = r /\ \A a \in Existing : archives'[a] = archives[a]
           /\ ~r.ready /\ ~r.raw /\ r.marks = {} /\ ~r.recorded /\ r.overview = {}
           /\ ToSet(r.archived) \cup ToSet(r.retained) = ToSet(root) /\ ToSet(r.archived) # {}
           /\ ToSet(r.archived) \cap ToSet(r.retained) = {} /\ IsInjective(r.retained)
           /\ UNCHANGED <<root, slots, cancelled, unwinding, history, troubles>>
    BY <1>0, BeginFacts
  <1>2. TypeOK' /\ Counters'
    BY <1>0, <1>1 DEF TypeOK, Counters, Phase1Steps
  <1>3. CommitInv'
    BY <1>1 DEF CommitInv, Live, Retained
  <1>4. ArchInv'
    BY <1>0, <1>1 DEF ArchInv, Live, Retained
  <1>5. SlotInv'
    <2>1. Kept
      BY <1>0, <1>1, ArchiveDomain DEF Kept, Newest
    <2> QED BY <1>0, <1>1, <2>1, SlotFrame DEF SlotInv
  <1>6. NothingLost'
    <2>1. \A a \in Existing : RawOf(a)' = RawOf(a)
      BY <1>1 DEF RawOf
    <2> QED BY <1>0, <1>1, <2>1 DEF NothingLost
  <1> QED BY <1>2, <1>3, <1>4, <1>5, <1>6 DEF BaseInv

\* The raw file of the archive is written.
LEMMA RawFacts ==
  ASSUME TypeOK, CommitInv, WriteRaw
  PROVE  /\ Newest \in Existing /\ archives' \in Seq(ArchiveType) /\ Len(archives') = Len(archives)
         /\ Existing' = Existing /\ Newest' = Newest /\ commit = "raw" /\ commit' = "enqueue"
         /\ \A a \in Existing :
              /\ archives'[a].archived = archives[a].archived /\ archives'[a].retained = archives[a].retained
              /\ archives'[a].ready = archives[a].ready /\ archives'[a].marks = archives[a].marks
              /\ archives'[a].intent = archives[a].intent
              /\ archives'[a].overview = archives[a].overview
              /\ archives'[a].raw = IF a = Newest THEN TRUE ELSE archives[a].raw
         /\ UNCHANGED <<root, slots, cancelled, unwinding, history, troubles>>
  <1>0. Newest \in Existing /\ archives[Newest] \in ArchiveType
    BY ArchiveDomain DEF CommitInv, WriteRaw
  <1> DEFINE n == Newest
             r == [archives[n] EXCEPT !.raw = TRUE]
  <1>1. /\ r \in ArchiveType /\ r.archived = archives[n].archived /\ r.retained = archives[n].retained
        /\ r.raw = TRUE /\ r.ready = archives[n].ready /\ r.marks = archives[n].marks
        /\ r.intent = archives[n].intent /\ r.overview = archives[n].overview
    BY <1>0 DEF ArchiveType
  <1>2. archives' = [archives EXCEPT ![n] = r]
    BY DEF WriteRaw
  <1> HIDE DEF r, n
  <1>n. n = Newest /\ n \in Existing
    BY <1>0 DEF n
  <1>3. /\ archives' \in Seq(ArchiveType) /\ Len(archives') = Len(archives)
        /\ \A b \in Existing : archives'[b] = IF b = n THEN r ELSE archives[b]
    BY <1>1, <1>2, <1>n, Touched
  <1>4. \A a \in Existing :
              /\ archives'[a].archived = archives[a].archived /\ archives'[a].retained = archives[a].retained
              /\ archives'[a].ready = archives[a].ready /\ archives'[a].marks = archives[a].marks
              /\ archives'[a].intent = archives[a].intent
              /\ archives'[a].overview = archives[a].overview
              /\ archives'[a].raw = IF a = n THEN TRUE ELSE archives[a].raw
    BY <1>1, <1>3
  <1>5. Existing' = Existing /\ Newest' = Newest
    BY <1>3 DEF TypeOK, Existing, Newest
  <1> QED BY <1>0, <1>n, <1>3, <1>4, <1>5 DEF WriteRaw

\* Its directory has been made; .meta.json follows.
LEMMA IntentFacts ==
  ASSUME TypeOK, CommitInv, WriteIntent
  PROVE  /\ Mild /\ Newest \in Existing /\ commit = "intent" /\ commit' = "raw"
         /\ \A a \in Existing :
              /\ archives'[a].ready = archives[a].ready /\ archives'[a].marks = archives[a].marks
              /\ archives'[a].intent = (archives[a].intent \/ a = Newest)
              /\ archives'[a].overview = archives[a].overview
         /\ UNCHANGED <<root, slots, cancelled, unwinding, history, troubles>>
  <1>0. Newest \in Existing /\ archives[Newest] \in ArchiveType
    BY ArchiveDomain DEF CommitInv, WriteIntent
  <1> DEFINE n == Newest
             r == [archives[n] EXCEPT !.intent = TRUE]
  <1>1. /\ r \in ArchiveType /\ r.archived = archives[n].archived /\ r.retained = archives[n].retained
        /\ r.raw = archives[n].raw /\ r.ready = archives[n].ready /\ r.marks = archives[n].marks
        /\ r.intent = TRUE /\ r.overview = archives[n].overview
    BY <1>0 DEF ArchiveType
  <1>2. archives' = [archives EXCEPT ![n] = r]
    BY DEF WriteIntent
  <1> HIDE DEF r, n
  <1>n. n = Newest /\ n \in Existing
    BY <1>0 DEF n
  <1>3. \A b \in Existing : archives'[b] = IF b = n THEN r ELSE archives[b]
    BY <1>1, <1>2, <1>n, Touched
  <1>4. Mild
    BY <1>1, <1>2, <1>n, TouchedMild
  <1>5. ASSUME NEW a \in Existing
        PROVE  /\ archives'[a].ready = archives[a].ready /\ archives'[a].marks = archives[a].marks
               /\ archives'[a].intent = (archives[a].intent \/ a = n)
               /\ archives'[a].overview = archives[a].overview
    <2>1. CASE a = n
      BY <1>1, <1>3, <2>1
    <2>2. CASE a # n
      <3>1. archives[a].intent \in BOOLEAN
        BY ArchiveDomain DEF ArchiveType
      <3> QED BY <1>3, <2>2, <3>1
    <2> QED BY <2>1, <2>2
  <1>6. /\ commit = "intent" /\ commit' = "raw"
        /\ UNCHANGED <<root, slots, cancelled, unwinding, history, troubles>>
    BY DEF WriteIntent
  <1> QED BY <1>n, <1>4, <1>5, <1>6

\* An archive becomes ready; when the merge could not read .meta.json, without the
\* task and the lists.
MadeReady(n) ==
  \/ archives' = [archives EXCEPT ![n].ready = TRUE]
  \/ archives' = [archives EXCEPT ![n].ready = TRUE, ![n].intent = FALSE]

LEMMA ReadyFacts ==
  ASSUME TypeOK, NEW n \in Existing, MadeReady(n)
  PROVE  /\ archives' \in Seq(ArchiveType) /\ Len(archives') = Len(archives)
         /\ Existing' = Existing /\ Newest' = Newest
         /\ \A a \in Existing :
              /\ archives'[a].archived = archives[a].archived /\ archives'[a].retained = archives[a].retained
              /\ archives'[a].raw = archives[a].raw /\ archives'[a].marks = archives[a].marks
              /\ archives'[a].overview = archives[a].overview
              /\ archives'[a].ready = IF a = n THEN TRUE ELSE archives[a].ready
  <1>0. archives[n] \in ArchiveType
    BY ArchiveDomain
  <1>1. PICK r \in ArchiveType :
           /\ archives' = [archives EXCEPT ![n] = r]
           /\ r.archived = archives[n].archived /\ r.retained = archives[n].retained
           /\ r.ready = TRUE /\ r.raw = archives[n].raw /\ r.marks = archives[n].marks
           /\ r.overview = archives[n].overview
    <2>1. CASE archives' = [archives EXCEPT ![n].ready = TRUE]
      <3> DEFINE q == [archives[n] EXCEPT !.ready = TRUE]
      <3>1. /\ q \in ArchiveType /\ q.archived = archives[n].archived /\ q.retained = archives[n].retained
            /\ q.ready = TRUE /\ q.raw = archives[n].raw /\ q.marks = archives[n].marks
            /\ q.overview = archives[n].overview
        BY <1>0 DEF ArchiveType
      <3>2. archives' = [archives EXCEPT ![n] = q]
        BY <2>1
      <3> HIDE DEF q
      <3> QED BY <3>1, <3>2
    <2>2. CASE archives' = [archives EXCEPT ![n].ready = TRUE, ![n].intent = FALSE]
      <3> DEFINE q == [archives[n] EXCEPT !.ready = TRUE, !.intent = FALSE]
      <3>1. /\ q \in ArchiveType /\ q.archived = archives[n].archived /\ q.retained = archives[n].retained
            /\ q.ready = TRUE /\ q.raw = archives[n].raw /\ q.marks = archives[n].marks
            /\ q.overview = archives[n].overview
        BY <1>0 DEF ArchiveType
      <3>2. archives' = [archives EXCEPT ![n] = q]
        BY <2>2 DEF TypeOK, Existing
      <3> HIDE DEF q
      <3> QED BY <3>1, <3>2
    <2> QED BY <2>1, <2>2 DEF MadeReady
  <1>3. /\ archives' \in Seq(ArchiveType) /\ Len(archives') = Len(archives)
        /\ \A b \in Existing : archives'[b] = IF b = n THEN r ELSE archives[b]
    BY <1>1, Touched
  <1>5. Existing' = Existing /\ Newest' = Newest
    BY <1>3 DEF TypeOK, Existing, Newest
  <1>4. ASSUME NEW a \in Existing
        PROVE  /\ archives'[a].archived = archives[a].archived /\ archives'[a].retained = archives[a].retained
               /\ archives'[a].raw = archives[a].raw /\ archives'[a].marks = archives[a].marks
                /\ archives'[a].overview = archives[a].overview
               /\ archives'[a].ready = IF a = n THEN TRUE ELSE archives[a].ready
    <2>1. CASE a = n
      BY <1>1, <1>3, <2>1
    <2>2. CASE a # n
      BY <1>3, <2>2
    <2> QED BY <2>1, <2>2
  <1> QED BY <1>3, <1>4, <1>5

\* Phase 1 goes on.
LEMMA CommitBase ==
  ASSUME BaseInv, WriteIntent \/ WriteRaw \/ Enqueue \/ CreateTask \/ Rewrite
  PROVE  BaseInv'
  <1>0. TypeOK /\ ArchInv /\ SlotInv /\ Counters /\ NothingLost /\ CommitInv
    BY DEF BaseInv
  <1>n. Newest \in Existing /\ archives[Newest] \in ArchiveType
    BY <1>0, ArchiveDomain DEF CommitInv, WriteIntent, WriteRaw, Enqueue, CreateTask, Rewrite
  <1>4. CASE WriteIntent
    <2>1. /\ Mild /\ commit = "intent" /\ commit' = "raw"
          /\ UNCHANGED <<root, slots, cancelled, unwinding, history, troubles>>
      BY <1>0, <1>4, IntentFacts
    <2>2. Kept /\ Existing' = Existing /\ Newest' = Newest
      BY <1>0, <2>1, MildKept
    <2>3. TypeOK' /\ Counters'
      BY <1>0, <2>1, <2>2 DEF TypeOK, Counters, Phase1Steps, Mild
    <2>4. CommitInv'
      BY <1>0, <1>n, <2>1, <2>2 DEF CommitInv, Live, Retained, Mild
    <2>5. ArchInv'
      BY <1>0, <2>1, <2>2 DEF ArchInv, Live, Retained, Mild
    <2>6. SlotInv'
      BY <1>0, <2>1, <2>2, SlotFrame DEF SlotInv
    <2>7. NothingLost'
      <3>1. \A a \in Existing : RawOf(a)' = RawOf(a)
        BY <2>1 DEF RawOf, Mild
      <3> QED BY <1>0, <2>1, <2>2, <3>1 DEF NothingLost
    <2> QED BY <2>3, <2>4, <2>5, <2>6, <2>7 DEF BaseInv
  <1>1. CASE WriteRaw
    <2>1. /\ archives' \in Seq(ArchiveType) /\ Len(archives') = Len(archives)
          /\ Existing' = Existing /\ Newest' = Newest /\ commit = "raw" /\ commit' = "enqueue"
          /\ \A a \in Existing :
               /\ archives'[a].archived = archives[a].archived /\ archives'[a].retained = archives[a].retained
               /\ archives'[a].ready = archives[a].ready /\ archives'[a].marks = archives[a].marks
               /\ archives'[a].raw = IF a = Newest THEN TRUE ELSE archives[a].raw
          /\ UNCHANGED <<root, slots, cancelled, unwinding, history, troubles>>
      BY <1>0, <1>1, RawFacts
    <2>2. TypeOK' /\ Counters'
      BY <1>0, <2>1 DEF TypeOK, Counters, Phase1Steps
    <2>3. CommitInv'
      BY <1>0, <1>n, <2>1 DEF CommitInv, Live, Retained
    <2>4. ArchInv'
      BY <1>0, <2>1 DEF ArchInv, Live, Retained
    <2>5. SlotInv'
      <3>1. \A b \in Existing : archives[b].raw => archives'[b].raw
        BY <2>1
      <3>2. Len(archives) <= Len(archives')
        BY <1>0, <2>1 DEF TypeOK
      <3>3. Kept
        BY <2>1, <3>1, <3>2 DEF Kept
      <3> QED BY <1>0, <2>1, <3>3, SlotFrame DEF SlotInv
    <2>6. NothingLost'
      <3>1. \A a \in Existing : RawOf(a) \subseteq RawOf(a)'
        BY <2>1 DEF RawOf
      <3> QED BY <1>0, <2>1, <3>1 DEF NothingLost
    <2> QED BY <2>2, <2>3, <2>4, <2>5, <2>6 DEF BaseInv
  <1>2. CASE Enqueue \/ CreateTask
    <2>1. /\ commit \in {"enqueue", "create"} /\ commit' \in {"create", "rewrite"}
          /\ UNCHANGED <<root, archives, cancelled, unwinding, history, troubles>>
      BY <1>2 DEF Enqueue, CreateTask
    <2>2. archives[Newest].raw
      BY <1>0, <2>1 DEF CommitInv
    <2>3. /\ slots' \in [Slots -> SlotType]
          /\ \A s \in Slots : slots'[s] = slots[s] \/ (Arch(s) = Newest /\ slots'[s] = Queued)
      BY <1>0, <1>2, SlotFacts DEF Enqueue, CreateTask, Vacant, TypeOK
    <2>4. TypeOK' /\ Counters'
      BY <1>0, <2>1, <2>3 DEF TypeOK, Counters, Phase1Steps, Newest
    <2>5. CommitInv' /\ ArchInv' /\ NothingLost'
      BY <1>0, <2>1 DEF CommitInv, ArchInv, NothingLost, Live, Retained, RawOf, Existing, Newest
    <2>6. SlotInv'
      <3> SUFFICES ASSUME NEW s \in Slots PROVE SlotOk(s)'
        BY <1>0, <2>1 DEF SlotInv, Existing
      <3>1. CASE slots'[s] = slots[s]
        BY <1>0, <2>1, <3>1 DEF SlotInv, SlotOk, Existing
      <3>2. CASE Arch(s) = Newest /\ slots'[s] = Queued
        BY <1>n, <2>1, <2>2, <3>2, SlotFacts DEF SlotOk, Existing
      <3> QED BY <2>3, <3>1, <3>2
    <2> QED BY <2>4, <2>5, <2>6 DEF BaseInv
  <1>3. CASE Rewrite
    <2> DEFINE n == Newest
    <2>1. /\ commit = "rewrite" /\ commit' = "ready" /\ root' = archives[n].retained
          /\ UNCHANGED <<archives, slots, cancelled, unwinding, history, troubles>>
      BY <1>3 DEF Rewrite
    <2>2. /\ ~archives[n].ready /\ IsInjective(archives[n].retained) /\ archives[n].raw
          /\ ToSet(root) = Live(n) \cup Retained(n)
      BY <1>0, <2>1 DEF CommitInv
    <2>3. root' \in Seq(Messages) /\ IsInjective(root') /\ ToSet(root') = Retained(n)
      BY <1>n, <2>1, <2>2 DEF ArchiveType, Retained
    <2>4. TypeOK' /\ Counters'
      BY <1>0, <2>1, <2>3 DEF TypeOK, Counters, Phase1Steps, Newest
    <2>5. CommitInv'
      BY <1>0, <2>1 DEF CommitInv, Newest
    <2>6. ArchInv'
      BY <1>0, <2>1, <2>2, <2>3 DEF ArchInv, Live, Retained, Existing
    <2>7. SlotInv'
      BY <1>0, <2>1 DEF SlotInv, SlotOk, Existing
    <2>8. NothingLost'
      <3>1. \A a \in Existing : RawOf(a)' = RawOf(a)
        BY <2>1 DEF RawOf
      <3>2. Live(n) \subseteq RawOf(n)
        BY <2>2 DEF RawOf, Live
      <3>3. sent' \subseteq ToSet(root') \cup UNION {RawOf(a) : a \in Existing}
        BY <1>0, <1>n, <2>1, <2>2, <2>3, <3>2 DEF NothingLost
      <3> QED BY <2>1, <3>1, <3>3 DEF NothingLost, Existing
    <2> QED BY <2>4, <2>5, <2>6, <2>7, <2>8 DEF BaseInv
  <1> QED BY <1>1, <1>2, <1>3, <1>4

\* Phase 1 of archive n is ready, at its end or because the root shows it.
LEMMA ReadyBase ==
  ASSUME BaseInv, NEW n \in Existing, MadeReady(n),
         archives[n].raw, Live(n) \cap ToSet(root) = {}, commit' = "idle",
         slots' \in [Slots -> SlotType], \A s \in Slots : slots'[s] = slots[s] \/ SlotOk(s)',
         UNCHANGED <<root, cancelled, unwinding, history>>, Counters', Bounded'
  PROVE  BaseInv'
  <1>0. TypeOK /\ ArchInv /\ SlotInv /\ NothingLost
    BY DEF BaseInv
  <1>1. /\ archives' \in Seq(ArchiveType) /\ Len(archives') = Len(archives)
        /\ Existing' = Existing /\ Newest' = Newest
        /\ \A a \in Existing :
             /\ archives'[a].archived = archives[a].archived /\ archives'[a].retained = archives[a].retained
             /\ archives'[a].raw = archives[a].raw /\ archives'[a].marks = archives[a].marks
             /\ archives'[a].ready = IF a = n THEN TRUE ELSE archives[a].ready
    BY <1>0, ReadyFacts
  <1>2. TypeOK'
    BY <1>0, <1>1 DEF TypeOK, Bounded
  <1>3. CommitInv'
    BY DEF CommitInv
  <1>4. ArchInv'
    BY <1>0, <1>1 DEF ArchInv, Live, Retained
  <1>5. SlotInv'
    <2>2. \A b \in Existing : archives'[b].raw = archives[b].raw
      BY <1>1
    <2>3. \A b \in Existing : archives[b].raw => archives'[b].raw
      BY <2>2
    <2>0. (\A b \in Existing : archives[b].raw => archives'[b].raw) /\ Len(archives) \in Nat
      BY <1>0, <2>3 DEF TypeOK
    <2>1. Kept
      BY <1>1, <2>0 DEF Kept
    <2> QED BY <1>0, <1>1, <2>1, SlotFrame DEF SlotInv
  <1>6. NothingLost'
    <2>1. \A a \in Existing : RawOf(a)' = RawOf(a)
      BY <1>1 DEF RawOf
    <2> QED BY <1>0, <1>1, <2>1 DEF NothingLost
  <1> QED BY <1>2, <1>3, <1>4, <1>5, <1>6 DEF BaseInv

LEMMA PublishBase ==
  ASSUME BaseInv, PublishReady \/ MisreadPublish
  PROVE  BaseInv'
  <1>1. TypeOK /\ CommitInv /\ ArchInv /\ Counters
    BY DEF BaseInv
  <1>2. /\ commit = "ready" /\ MadeReady(Newest) /\ commit' = "idle"
        /\ UNCHANGED <<root, slots, cancelled, unwinding, history>>
    BY DEF PublishReady, MisreadPublish, MadeReady
  <1>3. Newest \in Existing /\ archives[Newest].raw /\ root = archives[Newest].retained
    BY <1>1, <1>2, ArchiveDomain DEF CommitInv
  <1>4. Live(Newest) \cap ToSet(root) = {}
    BY <1>1, <1>3 DEF ArchInv, Retained
  <1>5. slots' \in [Slots -> SlotType]
    BY <1>1, <1>2 DEF TypeOK
  <1>6. Counters' /\ Bounded'
    BY <1>1, <1>2, Budget DEF PublishReady, MisreadPublish, Misread
  <1> QED BY <1>2, <1>3, <1>4, <1>5, <1>6, ReadyBase

\* What _ensure_phase1_ready does to archive a.
LEMMA VerifiedCases ==
  ASSUME BaseInv, NEW a \in Existing
  PROVE  \/ Verified(a) = archives /\ (archives[a].ready \/ "failed" \in archives[a].marks)
         \/ /\ Verified(a) = [archives EXCEPT ![a].ready = TRUE]
            /\ ~archives[a].ready /\ "failed" \notin archives[a].marks
            /\ archives[a].raw /\ Live(a) \cap ToSet(root) = {}
         \/ Verified(a) = Marked(a, "failed") /\ ~archives[a].ready /\ "failed" \notin archives[a].marks
  <1>0. ArchInv /\ SlotInv
    BY DEF BaseInv
  <1>1. CASE ~(Ready(a) \/ "failed" \in archives[a].marks) /\ archives[a].intent /\ HasWork(a) /\ Applied(a)
    <2>1. archives[a].raw
      BY <1>0, <1>1 DEF HasWork, SlotInv, SlotOk
    <2>2. Live(a) \cap ToSet(root) = {}
      BY <1>0, <1>1 DEF ArchInv, Applied, Live, Retained
    <2> QED BY <1>1, <2>1, <2>2 DEF Verified, Ready
  <1> QED BY <1>1 DEF Verified, Ready

\* An archive is recovered only when it has a raw file and is out of the root.
LEMMA Recovered ==
  ASSUME BaseInv, NEW a \in Existing, ~Ready(a), Verified(a)[a].ready
  PROVE  archives[a].raw /\ Live(a) \cap ToSet(root) = {}
  <1>1. ~archives[a].ready /\ TypeOK
    BY DEF Ready, BaseInv
  <1>2. Verified(a) # archives
    BY <1>1
  <1>3. CASE Verified(a) = Marked(a, "failed")
    <2>1. a \in DOMAIN archives /\ archives[a] \in ArchiveType
      BY <1>1, ArchiveDomain DEF Existing
    <2>2. Marked(a, "failed")[a].ready = archives[a].ready
      BY <1>1, <2>1 DEF Marked, ArchiveType
    <2> QED BY <1>1, <1>3, <2>2
  <1> QED BY <1>2, <1>3, VerifiedCases

\* A handler that looks at the metadata of archive a under the lock.
LEMMA LookBase ==
  ASSUME BaseInv, NEW s \in Slots, NEW a \in Existing, slots[s].pc \in {"verify", "verifyPrev"},
         UNCHANGED <<root, commit, cancelled, unwinding, history>>, Counters', Bounded',
         NEW pc \in {"gate", "ack", "requeue", "extract"}, Goto(s, pc),
         \/ UNCHANGED archives
         \/ archives' = Marked(a, "failed")
         \/ MadeReady(a) /\ archives[a].raw /\ Live(a) \cap ToSet(root) = {} /\ commit = "idle"
  PROVE  BaseInv'
  <1>0. TypeOK /\ ArchInv /\ SlotInv
    BY DEF BaseInv
  <1>3. slots[s] # Free /\ slots[s].summary = "todo" /\ Arch(s) \in Existing /\ archives[Arch(s)].raw
    BY <1>0, SlotFacts DEF SlotInv, SlotOk
  <1>6. pc \in Pcs
    BY DEF Pcs
  <1>7. /\ slots' \in [Slots -> SlotType] /\ slots'[s].pc = pc /\ slots'[s].summary = slots[s].summary
        /\ \A t \in Slots : t # s => slots'[t] = slots[t]
    BY <1>0, <1>6, GotoFacts
  <1>8. CASE UNCHANGED archives \/ archives' = Marked(a, "failed")
    <2>1. Mild
      BY <1>0, <1>8, UnchangedMild, MarkedMild
    <2>3. SlotOk(s)'
      BY <1>0, <1>3, <1>7, <2>1, SlotMoves
    <2>4. unwinding' \subseteq Existing /\ cancelled' \subseteq Archives /\ Counted'
      BY <1>0 DEF SlotInv, TypeOK, Counted
    <2> QED BY <1>7, <2>1, <2>3, <2>4, QuietStep
  <1>9. CASE MadeReady(a) /\ archives[a].raw /\ Live(a) \cap ToSet(root) = {} /\ commit = "idle"
    <2>1. Existing' = Existing /\ \A b \in Existing : archives'[b].raw = archives[b].raw
      BY <1>0, <1>9, ReadyFacts
    <2>2. archives'[Arch(s)].raw
      BY <1>3, <2>1
    <2>3. SlotOk(s)'
      BY <1>3, <1>7, <2>1, <2>2 DEF SlotOk
    <2> QED BY <1>7, <1>9, <2>3, ReadyBase
  <1> QED BY <1>8, <1>9

LEMMA VerifyBase ==
  ASSUME BaseInv, NEW s \in Slots, Verify(s) \/ VerifyPrev(s)
  PROVE  BaseInv'
  <1> DEFINE a == IF Verify(s) THEN Arch(s) ELSE Arch(s) - 1
  <1>0. TypeOK /\ ArchInv /\ SlotInv /\ Counters
    BY DEF BaseInv
  <1>1. commit = "idle" /\ UNCHANGED <<root, commit, cancelled, unwinding, history, troubles>>
    BY DEF Verify, VerifyPrev
  <1>2. /\ slots[s].pc \in {"verify", "verifyPrev"} /\ archives' = Verified(a)
        /\ (~Verify(s) => slots[s].pc = "verifyPrev")
    BY DEF Verify, VerifyPrev, At
  <1>4. a \in Existing
    BY <1>0, <1>2, SlotFacts, ArchiveDomain DEF SlotInv, SlotOk
  <1>5. PICK pc \in {"gate", "ack", "requeue", "extract"} : Goto(s, pc)
    BY DEF Verify, VerifyPrev
  <1>6. Counters' /\ Bounded'
    BY <1>0, <1>1, Budget
  <1> HIDE DEF a
  <1>7. \/ UNCHANGED archives
        \/ archives' = Marked(a, "failed")
        \/ MadeReady(a) /\ archives[a].raw /\ Live(a) \cap ToSet(root) = {}
    BY <1>2, <1>4, VerifiedCases DEF MadeReady
  <1> QED BY <1>1, <1>2, <1>4, <1>5, <1>6, <1>7, LookBase

LEMMA MergeFacts ==
  ASSUME TypeOK, SlotInv, NEW s \in Slots, MisreadMerge(s)
  PROVE  /\ Arch(s) \in Existing /\ slots[s].pc = "busy" /\ Mild
         /\ \A b \in Existing :
              /\ archives'[b].marks = archives[b].marks
              /\ archives'[b].overview = archives[b].overview \/ (b = Arch(s) /\ archives'[b].overview = Summary(s))
         /\ slots' = [slots EXCEPT ![s].summary = "ok"] => archives'[Arch(s)].overview = Summary(s)
         /\ slots' = [slots EXCEPT ![s].summary = "ok"] \/ slots' = [slots EXCEPT ![s].memory = "ok"]
  <1> DEFINE a == Arch(s)
  <1>1. slots[s].pc = "busy" /\ a \in Existing
    BY SlotFacts DEF MisreadMerge, At, SlotInv, SlotOk
  <1>2. Summary(s) \in SUBSET Messages
    BY <1>1, SummaryType
  <1>3. \/ archives' = [archives EXCEPT ![a].overview = Summary(s), ![a].intent = FALSE,
                                        ![a].ready = FALSE, ![a].recorded = FALSE]
        \/ archives' = [archives EXCEPT ![a].recorded = TRUE, ![a].intent = FALSE, ![a].ready = FALSE]
    BY DEF MisreadMerge
  <1>4. /\ Mild
        /\ \A b \in Existing :
             /\ archives'[b].marks = archives[b].marks
             /\ archives'[b].overview = archives[b].overview \/ (b = a /\ archives'[b].overview = Summary(s))
    BY <1>1, <1>2, <1>3, MergeMild
  <1>5. slots' = [slots EXCEPT ![s].summary = "ok"] => archives'[a].overview = Summary(s)
    <2> SUFFICES ASSUME slots' = [slots EXCEPT ![s].summary = "ok"] PROVE archives'[a].overview = Summary(s)
      OBVIOUS
    <2>1. slots[s] \in SlotType
      BY DEF TypeOK
    <2>2. slots'[s].memory = slots[s].memory
      BY <2>1 DEF TypeOK, SlotType
    <2>3. CASE slots[s].memory = "applied" /\ slots' = [slots EXCEPT ![s].memory = "ok"]
      <3>1. slots'[s].memory = "ok"
        BY <2>1, <2>3 DEF TypeOK, SlotType
      <3> QED BY <2>2, <2>3, <3>1
    <2>4. CASE archives' = [archives EXCEPT ![a].overview = Summary(s), ![a].intent = FALSE,
                                            ![a].ready = FALSE, ![a].recorded = FALSE]
      <3>1. archives[a] \in ArchiveType
        BY <1>1, ArchiveDomain
      <3> QED BY <1>1, <2>4, <3>1 DEF TypeOK, ArchiveType, Existing
    <2> QED BY <2>3, <2>4 DEF MisreadMerge
  <1> QED BY <1>1, <1>4, <1>5 DEF MisreadMerge

\* A handler that reads no metadata.
LEMMA MisreadBase ==
  ASSUME BaseInv, NEW s \in Slots, Misreads(s)
  PROVE  BaseInv'
  <1>0. TypeOK /\ ArchInv /\ SlotInv /\ Counters
    BY DEF BaseInv
  <1>1. UNCHANGED <<root, commit, cancelled, unwinding, history, crashes, faults>> /\ Misread
    BY DEF Misreads, MisreadHead, MisreadVerify, MisreadPrev, MisreadRecord, MisreadMerge
  <1>2. Counters' /\ Bounded'
    BY <1>0, <1>1, Budget DEF Misread
  <1>3. unwinding' \subseteq Existing /\ cancelled' \subseteq Archives /\ Counted' /\ commit' \in {commit, "idle"}
    BY <1>0, <1>1 DEF SlotInv, TypeOK, Counted
  <1>4. SlotOk(s) /\ slots[s] \in SlotType /\ (slots[s].pc # "free" => slots[s] # Free)
    BY <1>0, SlotFacts DEF SlotInv, TypeOK
  <1>5. /\ slots[s] # Free => Arch(s) \in Existing /\ archives[Arch(s)].raw /\ Arch(s) \in Nat
        /\ slots[s].pc = "verifyPrev" => Arch(s) - 1 \in Existing
    BY <1>0, <1>4, ArchiveDomain, SlotFacts DEF SlotOk
  <1>6. CASE MisreadHead(s)
    <2>1. UNCHANGED archives /\ slots[s].pc = "queued" /\ Goto(s, "gate") /\ "gate" \in Pcs
      BY <1>6 DEF MisreadHead, At, Pcs
    <2>2. Mild
      BY <1>0, <2>1, UnchangedMild
    <2>3. slots' \in [Slots -> SlotType] /\ \A t \in Slots : slots'[t] = slots[t] \/ SlotOk(t)'
      BY <1>0, <1>4, <2>1, <2>2, GotoFacts, SlotMoves DEF SlotOk
    <2> QED BY <1>1, <1>2, <1>3, <2>2, <2>3, QuietStep
  <1>7. CASE MisreadVerify(s)
    <2> DEFINE a == Arch(s)
    <2>1. slots[s].pc = "verify" /\ commit = "idle" /\ a \in Existing
      BY <1>4, <1>5, <1>7 DEF MisreadVerify, At
    <2>2. PICK pc \in {"gate", "ack"} : Goto(s, pc)
      BY <1>7 DEF MisreadVerify
    <2>3. archives' = Marked(a, "failed") \/ (MadeReady(a) /\ ~Ready(a) /\ Verified(a)[a].ready)
      BY <1>7 DEF MisreadVerify, MadeReady
    <2>4. archives' = Marked(a, "failed") \/ (MadeReady(a) /\ archives[a].raw /\ Live(a) \cap ToSet(root) = {})
      BY <2>1, <2>3, Recovered
    <2> QED BY <1>1, <1>2, <2>1, <2>2, <2>4, LookBase
  <1>8. CASE MisreadPrev(s)
    <2> DEFINE a == Arch(s) - 1
    <2>1. CASE At(s, "gate")
      <3>1. UNCHANGED archives /\ slots[s].pc = "gate" /\ Goto(s, "requeue") /\ "requeue" \in Pcs
        BY <1>8, <2>1 DEF MisreadPrev, At, Pcs
      <3>2. Mild
        BY <1>0, <3>1, UnchangedMild
      <3>3. slots' \in [Slots -> SlotType] /\ \A t \in Slots : slots'[t] = slots[t] \/ SlotOk(t)'
        BY <1>0, <1>4, <3>1, <3>2, GotoFacts, SlotMoves DEF SlotOk
      <3> QED BY <1>1, <1>2, <1>3, <3>2, <3>3, QuietStep
    <2>2. CASE ~At(s, "gate")
      <3>1. slots[s].pc = "verifyPrev" /\ a \in Existing
        BY <1>5, <1>8, <2>2 DEF MisreadPrev, At
      <3>2. PICK pc \in {"requeue", "extract"} : Goto(s, pc)
        BY <1>8 DEF MisreadPrev
      <3>3. \/ UNCHANGED archives \/ archives' = Marked(a, "failed")
            \/ MadeReady(a) /\ ~Ready(a) /\ Verified(a)[a].ready /\ commit = "idle"
        BY <1>8 DEF MisreadPrev, MadeReady
      <3>4. \/ UNCHANGED archives \/ archives' = Marked(a, "failed")
            \/ MadeReady(a) /\ archives[a].raw /\ Live(a) \cap ToSet(root) = {} /\ commit = "idle"
        BY <3>1, <3>3, Recovered
      <3> HIDE DEF a
      <3> QED BY <1>1, <1>2, <3>1, <3>2, <3>4, LookBase
    <2> QED BY <2>1, <2>2
  <1>9. CASE MisreadRecord(s)
    <2> DEFINE r == [slots[s] EXCEPT !.pc = "busy", !.base = Base(Arch(s)), !.memory = "todo"]
    <2>1. UNCHANGED archives /\ slots[s].pc = "extract"
      BY <1>9 DEF MisreadRecord, At
    <2>2. Base(Arch(s)) \in SUBSET Messages
      BY <1>0, BaseType
    <2>3. r \in SlotType /\ r.pc = "busy"
      BY <1>4, <2>2 DEF SlotType
    <2>4. slots' = [slots EXCEPT ![s] = r]
      BY <1>0, <1>9 DEF MisreadRecord, TypeOK
    <2> HIDE DEF r
    <2>5. slots' \in [Slots -> SlotType] /\ slots'[s] = r /\ \A u \in Slots : u # s => slots'[u] = slots[u]
      BY <1>0, <2>3, <2>4 DEF TypeOK
    <2>6. Mild
      BY <1>0, <2>1, UnchangedMild
    <2>7. SlotOk(s)'
      BY <1>0, <1>4, <2>1, <2>3, <2>5, <2>6, SlotMoves
    <2> QED BY <1>1, <1>2, <1>3, <2>5, <2>6, <2>7, QuietStep
  <1>10. CASE MisreadMerge(s)
    <2> DEFINE a == Arch(s)
    <2>1. slots[s].pc = "busy" /\ a \in Existing
      BY <1>4, <1>5, <1>10 DEF MisreadMerge, At
    <2>2. Summary(s) \in SUBSET Messages
      BY <1>0, <2>1, SummaryType
    <2>3. Mild
      <3>1. \/ archives' = [archives EXCEPT ![a].overview = Summary(s), ![a].intent = FALSE,
                                            ![a].ready = FALSE, ![a].recorded = FALSE]
            \/ archives' = [archives EXCEPT ![a].recorded = TRUE, ![a].intent = FALSE, ![a].ready = FALSE]
        BY <1>10 DEF MisreadMerge
      <3> QED BY <1>0, <2>1, <2>2, <3>1, MergeMild
    <2>4. PICK r \in SlotType : slots' = [slots EXCEPT ![s] = r] /\ r.pc = "busy"
      <3>1. CASE slots' = [slots EXCEPT ![s].summary = "ok"]
        <4>1. /\ [slots[s] EXCEPT !.summary = "ok"] \in SlotType
              /\ [slots[s] EXCEPT !.summary = "ok"].pc = "busy"
          BY <1>4, <2>1 DEF SlotType
        <4> QED BY <3>1, <4>1
      <3>2. CASE slots' = [slots EXCEPT ![s].memory = "ok"]
        <4>1. /\ [slots[s] EXCEPT !.memory = "ok"] \in SlotType
              /\ [slots[s] EXCEPT !.memory = "ok"].pc = "busy"
          BY <1>4, <2>1 DEF SlotType
        <4> QED BY <3>2, <4>1
      <3> QED BY <1>10, <3>1, <3>2 DEF MisreadMerge
    <2>5. slots' \in [Slots -> SlotType] /\ slots'[s] = r /\ \A u \in Slots : u # s => slots'[u] = slots[u]
      BY <1>0, <2>4 DEF TypeOK
    <2>6. SlotOk(s)'
      BY <1>0, <1>4, <2>1, <2>3, <2>4, <2>5, SlotMoves
    <2> QED BY <1>1, <1>2, <1>3, <2>3, <2>5, <2>6, QuietStep
  <1> QED BY <1>6, <1>7, <1>8, <1>9, <1>10 DEF Misreads

LEMMA BaseInit ==
  ASSUME Init
  PROVE  BaseInv
  <1>1. /\ root = <<>> /\ archives = <<>> /\ commit = "idle" /\ cancelled = {} /\ unwinding = {}
        /\ sent = {} /\ blank = 0 /\ crashes = 0 /\ faults = 0 /\ swallowed = 0
        /\ \A s \in Slots : slots[s] = Free
    BY DEF Init
  <1>2. Existing = {} /\ Newest = 0
    BY <1>1 DEF Existing, Newest
  <1>3. root \in Seq(Messages) /\ archives \in Seq(ArchiveType) /\ IsInjective(root)
    BY <1>1 DEF IsInjective
  <1>4. slots \in [Slots -> SlotType] /\ taken \in [Messages -> Nat] /\ redone \in [Messages -> Nat]
    BY SlotFacts DEF Init
  <1>5. crashes + faults + swallowed + blank + Cardinality(cancelled) <= MaxTroubles
    BY <1>1, FS_EmptySet, CommitAssumption
  <1>6. TypeOK
    BY <1>1, <1>2, <1>3, <1>4, <1>5, CommitAssumption DEF TypeOK
  <1> QED BY <1>1, <1>2, <1>6, SlotFacts
          DEF BaseInv, Counters, CommitInv, ArchInv, SlotInv, SlotOk, NothingLost

LEMMA BaseStep ==
  ASSUME BaseInv, [Next]_vars
  PROVE  BaseInv'
  <1>1. CASE \E m \in Messages : Append1(m)
    BY <1>1, AppendBase
  <1>2. CASE \E k \in Keeps : BeginCommit(k)
    BY <1>2, BeginBase
  <1>3. CASE CommitStep
    BY <1>3, CommitBase, PublishBase DEF CommitStep
  <1>7. CASE MisreadPublish
    BY <1>7, PublishBase
  <1>4. CASE FailCommit \/ FailUnmarked \/ Crash \/ \E a \in Archives : Cancel(a) \/ Unwind(a)
    BY <1>4, TroubleBase
  <1>5. ASSUME NEW s \in Slots,
               HandlerStep(s) \/ SummaryStep(s) \/ MemoryStep(s) \/ Fails(s) \/ Misreads(s)
        PROVE  BaseInv'
    BY <1>5, HandlerBase, VerifyBase, MisreadBase DEF HandlerStep, SummaryStep, MemoryStep, Fails
  <1>6. CASE UNCHANGED vars
    <2>1. /\ UNCHANGED <<root, archives, commit, slots, cancelled, unwinding, sent, taken, redone, blank>>
          /\ UNCHANGED <<crashes, faults, swallowed>>
      BY <1>6 DEF vars
    <2>2. TypeOK' /\ Counters'
      BY <2>1 DEF BaseInv, TypeOK, Counters, Newest
    <2>3. CommitInv' /\ ArchInv'
      BY <2>1 DEF BaseInv, CommitInv, ArchInv, Live, Retained, Existing, Newest
    <2>4. SlotInv' /\ NothingLost'
      BY <2>1 DEF BaseInv, SlotInv, SlotOk, NothingLost, RawOf, Existing
    <2> QED BY <2>2, <2>3, <2>4 DEF BaseInv
  <1> QED BY <1>1, <1>2, <1>3, <1>4, <1>5, <1>6, <1>7 DEF Next

LEMMA BaseInvariant == Spec => []BaseInv
  BY BaseInit, BaseStep, PTL DEF Spec

\* Every variable keeps its type; in particular the live conversation never holds a
\* message twice, however often a client repeats it.
THEOREM TypeCorrect == Spec => []TypeOK
  BY BaseInvariant, PTL DEF BaseInv

\* Phase 1 loses no accepted message, wherever an error, a cancellation or a restart
\* cuts it off: the root is rewritten only after the raw file of the archive.
THEOREM NoMessageLost == Spec => []NothingLost
  BY BaseInvariant, PTL DEF BaseInv

\* What Phase 2 may extract is out of the live conversation, also for archives that
\* _ensure_phase1_ready recovers from the root.
THEOREM ReadyIsSettled == Spec => []ExtractedNotLive
  <1>1. BaseInv => ExtractedNotLive
    BY DEF BaseInv, ArchInv, ExtractedNotLive, Live
  <1> QED BY <1>1, BaseInvariant, PTL

-----------------------------------------------------------------------------
(* Memories are extracted once *)

\* The archives keep their messages and their Phase 1, whatever else changes.
Still ==
  /\ Existing' = Existing /\ Newest' = Newest
  /\ \A b \in Existing :
       /\ archives'[b].archived = archives[b].archived /\ archives'[b].ready = archives[b].ready
       /\ archives[b].marks \subseteq archives'[b].marks
       /\ archives[b].intent => archives'[b].intent

LEMMA MildStill ==
  ASSUME TypeOK, Mild, Firm
  PROVE  Still
  BY MildKept DEF Mild, Firm, Still

\* The steps that start no handler, extract nothing and make nothing ready.
LEMMA OnceFrame ==
  ASSUME BaseInv, OnceInv, Quiet, Still, UNCHANGED <<taken, redone>>,
         \/ commit' = commit
         \/ commit' = "idle" /\ "failed" \in archives'[Newest].marks
         \/ commit \notin {"idle", "intent"} /\ commit' \in {"create", "rewrite", "ready"}
         \/ commit = "intent" /\ commit' = "raw" /\ archives'[Newest].intent
         \/ commit = "raw" /\ commit' = "enqueue",
         \A s \in Slots :
           /\ slots'[s].pc \in Active => slots[s].pc \in Active
           /\ slots'[s] # Free => slots[s] # Free
           /\ slots'[s].pc \in Past => slots[s].pc \in Past \/ archives[Arch(s)].ready
           /\ Ahead(s)' => Ahead(s)
  PROVE  OnceInv'
  <1>1. Settled /\ Disjoint /\ OneHandler /\ HandlerKnows /\ TakenOnce /\ TypeOK /\ SlotInv /\ CommitInv
    BY DEF OnceInv, BaseInv
  <1>2. Settled'
    BY <1>1 DEF Settled, Still, InCommit
  <1>3. Disjoint'
    BY <1>1 DEF Disjoint, Still, InCommit, Live
  <1>4. OneHandler'
    BY <1>1 DEF OneHandler, HasWork, Still
  <1>5. HandlerKnows'
    <2>1. ASSUME NEW s \in Slots
          PROVE  /\ slots'[s] # Free => archives'[Arch(s)].intent
                 /\ slots'[s].pc \in Past => archives'[Arch(s)].ready
      <3>1. slots'[s].pc \in Past => slots'[s] # Free
        BY SlotFacts DEF Past
      <3>2. slots'[s] # Free => Arch(s) \in Existing
        BY <1>1 DEF SlotInv, SlotOk
      <3>3. slots'[s] # Free => archives[Arch(s)].intent
        BY <1>1 DEF HandlerKnows
      <3>4. slots'[s].pc \in Past => archives[Arch(s)].ready
        BY <1>1 DEF HandlerKnows
      <3> QED BY <3>1, <3>2, <3>3, <3>4 DEF Still
    <2>2. commit # "idle" => Newest \in Existing
      BY <1>1, ArchiveDomain DEF CommitInv
    <2>3. commit' \notin {"idle", "intent"} => archives'[Newest].intent
      BY <1>1, <2>2 DEF HandlerKnows, Still
    <2> QED BY <2>1, <2>3 DEF HandlerKnows, Still
  <1>6. TakenOnce'
    <2>1. \A a \in Existing : Consumed(a) => Consumed(a)'
      BY DEF Consumed
    <2>2. \A a \in Existing : Live(a)' = Live(a) /\ archives'[a].ready = archives[a].ready
      BY DEF Still, Live
    <2>3. Existing' = Existing
      BY DEF Still
    <2> QED BY <1>1, <2>1, <2>2, <2>3 DEF TakenOnce
  <1> QED BY <1>2, <1>3, <1>4, <1>5, <1>6 DEF OnceInv

\* A step of the memory attempts.
LEMMA OnceRest ==
  ASSUME BaseInv, OnceInv, Quiet, UNCHANGED <<archives, commit>>,
         \A t \in Slots : slots'[t].pc = slots[t].pc /\ (slots'[t] # Free => slots[t] # Free)
  PROVE  Settled' /\ Disjoint' /\ OneHandler' /\ HandlerKnows'
  <1>1. Settled /\ Disjoint /\ OneHandler /\ HandlerKnows
    BY DEF OnceInv
  <1>2. Settled' /\ Disjoint'
    BY <1>1 DEF Settled, Disjoint, Existing, InCommit, Live, Newest
  <1>3. OneHandler'
    BY <1>1 DEF OneHandler, HasWork, Newest
  <1>4. HandlerKnows'
    BY <1>1 DEF HandlerKnows, Newest
  <1> QED BY <1>2, <1>3, <1>4

LEMMA QuietBefore ==
  ASSUME BaseInv, Next, Quiet'
  PROVE  Quiet /\ UNCHANGED <<crashes, swallowed>>
  <1>1. Counters
    BY DEF BaseInv
  <1>2. \/ UNCHANGED <<crashes, swallowed>>
        \/ swallowed' = swallowed + 1
        \/ crashes' = crashes + 1
    <2>1. CASE \E s \in Slots : Misreads(s)
      BY <2>1 DEF Misreads, MisreadHead, MisreadVerify, MisreadPrev, MisreadRecord, MisreadMerge, Misread
    <2>2. CASE \E s \in Slots : HandlerStep(s) \/ SummaryStep(s) \/ MemoryStep(s) \/ Fails(s)
      BY <2>2 DEF HandlerStep, SummaryStep, MemoryStep, Fails, Dequeue, Finalize, Verify,
           Gate, VerifyPrev, Requeue, StartExtract, Summarize, ExtractMemories, RecordMemories,
           SummaryFails, MemoryRetried, MemoryFails, Gathered, WriteDone, FailRun, Raise, Ack
    <2>3. CASE ~\E s \in Slots : HandlerStep(s) \/ SummaryStep(s) \/ MemoryStep(s) \/ Fails(s) \/ Misreads(s)
      BY <2>3 DEF Next, Append1, BeginCommit, CommitStep, WriteIntent, WriteRaw, Enqueue, CreateTask,
           Rewrite, PublishReady, FailCommit, FailUnmarked, MisreadPublish, Misread, Cancel, Unwind, Crash
    <2> QED BY <2>1, <2>2, <2>3
  <1> QED BY <1>1, <1>2 DEF Quiet, Counters

LEMMA HandlerOnce ==
  ASSUME BaseInv, OnceInv, Quiet, NEW s \in Slots,
         \/ Dequeue(s) \/ Finalize(s) \/ Gate(s) \/ StartExtract(s) \/ Summarize(s)
         \/ RecordMemories(s) \/ SummaryFails(s) \/ MemoryFails(s) \/ Gathered(s) \/ WriteDone(s)
         \/ FailRun(s) \/ Raise(s) \/ Ack(s)
  PROVE  OnceInv'
  <1>0. TypeOK /\ SlotInv /\ HandlerKnows /\ Still
    BY HandlerBase, MildStill DEF BaseInv, OnceInv
  <1>1. UNCHANGED <<taken, redone, commit>>
    BY DEF Dequeue, Finalize, Gate, StartExtract, Summarize, RecordMemories, SummaryFails, MemoryFails,
           Gathered, WriteDone, FailRun, Raise, Ack
  <1>2. slots[s] \in SlotType /\ (slots[s].pc # "free" => slots[s] # Free /\ archives[Arch(s)].raw)
    BY <1>0, SlotFacts DEF SlotInv, SlotOk, TypeOK
  <1>a. \A t \in Slots : t # s => slots'[t] = slots[t]
    BY <1>0 DEF TypeOK, Dequeue, Finalize, Gate, StartExtract, Summarize, RecordMemories, SummaryFails,
           MemoryFails, Gathered, WriteDone, FailRun, Raise, Ack, Goto
  <1>b. SUFFICES /\ slots'[s].pc \in Active => slots[s].pc \in Active
                 /\ slots'[s] # Free => slots[s] # Free
                 /\ slots'[s].pc \in Past => slots[s].pc \in Past \/ archives[Arch(s)].ready
                 /\ Ahead(s)' => Ahead(s)
    <2>1. ASSUME NEW t \in Slots
          PROVE  /\ slots'[t].pc \in Active => slots[t].pc \in Active
                 /\ slots'[t] # Free => slots[t] # Free
                 /\ slots'[t].pc \in Past => slots[t].pc \in Past \/ archives[Arch(t)].ready
                 /\ Ahead(t)' => Ahead(t)
      <3>1. CASE t = s
        BY <1>b, <3>1
      <3>2. CASE t # s
        BY <1>a, <3>2 DEF Ahead
      <3> QED BY <3>1, <3>2
    <2> QED BY <1>0, <1>1, <2>1, OnceFrame
  <1>3. CASE Dequeue(s)
    <2>1. slots[s].pc = "queued" /\ archives[Arch(s)].intent
      BY <1>0, <1>2, <1>3 DEF Dequeue, At, HandlerKnows
    <2>2. PICK pc \in {"finalize", "ack", "gate", "verify"} :
             Goto(s, pc) /\ (pc = "gate" => archives[Arch(s)].ready)
      <3>1. CASE Arch(s) \in cancelled
        <4>1. Goto(s, "finalize")
          BY <1>3, <3>1 DEF Dequeue
        <4> QED BY <4>1
      <3>2. CASE Arch(s) \notin cancelled
        BY <1>3, <2>1, <3>2 DEF Dequeue
      <3> QED BY <3>1, <3>2
    <2>3. slots'[s].pc = pc
      BY <1>0, <2>2, GotoFacts DEF Pcs
    <2> QED BY <1>2, <2>1, <2>2, <2>3 DEF Active, Before, Past, Ahead
  <1>4. CASE Finalize(s) \/ WriteDone(s) \/ FailRun(s) \/ Raise(s) \/ Ack(s)
    <2>1. slots'[s].pc \in {"ack", "raised", "free"} /\ slots[s].pc # "free"
      <3>1. CASE Ack(s)
        BY <1>0, <3>1, SlotFacts DEF Ack, At, TypeOK
      <3>2. CASE ~Ack(s)
        <4>1. PICK pc \in {"ack", "raised"} : Goto(s, pc)
          BY <1>4, <3>2 DEF Finalize, WriteDone, FailRun, Raise
        <4>2. slots'[s].pc = pc
          BY <1>0, <4>1, GotoFacts DEF Pcs
        <4> QED BY <1>4, <3>2, <4>2 DEF Finalize, WriteDone, FailRun, Raise, At
      <3> QED BY <3>1, <3>2
    <2> QED BY <1>2, <2>1 DEF Active, Before, Past, Ahead
  <1>5. CASE Gate(s)
    <2>1. PICK pc \in {"extract", "verifyPrev", "requeue"} : Goto(s, pc)
      BY <1>5 DEF Gate
    <2>2. slots'[s].pc = pc /\ slots[s].pc = "gate"
      BY <1>0, <1>5, <2>1, GotoFacts DEF Pcs, Gate, At
    <2> QED BY <1>2, <2>2 DEF Active, Before, Past, Ahead
  <1>6. CASE StartExtract(s)
    <2>0. slots[s].pc = "extract" /\ archives[Arch(s)].raw
      BY <1>2, <1>6 DEF StartExtract, At
    <2>1. slots'[s].pc = "busy"
      BY <1>0, <1>2, <1>6, <2>0 DEF StartExtract, TypeOK, SlotType
    <2> QED BY <1>2, <2>0, <2>1 DEF Active, Before, Past, Ahead
  <1>7. CASE Summarize(s) \/ SummaryFails(s) \/ RecordMemories(s) \/ MemoryFails(s)
    <2>1. /\ slots[s].pc = "busy" /\ slots'[s].pc = "busy"
          /\ (slots'[s].memory = "todo" => slots[s].memory = "todo")
      <3>1. CASE Summarize(s) \/ SummaryFails(s)
        BY <1>0, <1>2, <3>1 DEF Summarize, SummaryFails, TypeOK, SlotType, At
      <3>2. CASE RecordMemories(s) \/ MemoryFails(s)
        BY <1>0, <1>2, <3>2 DEF RecordMemories, MemoryFails, TypeOK, SlotType, At
      <3> QED BY <1>7, <3>1, <3>2
    <2> QED BY <1>2, <2>1 DEF Active, Before, Past, Ahead
  <1>9. CASE Gathered(s)
    <2>1. slots[s].pc = "busy"
      BY <1>9 DEF Gathered, At
    <2>2. PICK pc \in {"ack", "done"} : Goto(s, pc)
      BY <1>9 DEF Gathered
    <2>3. slots'[s].pc = pc
      BY <1>0, <2>2, GotoFacts DEF Pcs
    <2> QED BY <1>2, <2>1, <2>3 DEF Active, Before, Past, Ahead
  <1> QED BY <1>3, <1>4, <1>5, <1>6, <1>7, <1>9

\* A marker changes nothing else.
LEMMA MarkedKeeps ==
  ASSUME TypeOK, NEW a \in Existing, NEW mark \in {"done", "failed"}, archives' = Marked(a, mark)
  PROVE  \A b \in Existing :
           /\ archives'[b].recorded = archives[b].recorded /\ archives'[b].overview = archives[b].overview
           /\ archives'[b].marks = IF b = a THEN archives[b].marks \cup {mark} ELSE archives[b].marks
           /\ archives'[b].raw = archives[b].raw /\ archives'[b].archived = archives[b].archived
  <1>0. archives[a] \in ArchiveType
    BY ArchiveDomain
  <1> DEFINE r == [archives[a] EXCEPT !.marks = archives[a].marks \cup {mark}]
  <1>1. /\ r.recorded = archives[a].recorded /\ r.overview = archives[a].overview
        /\ r.marks = archives[a].marks \cup {mark} /\ r \in ArchiveType
        /\ r.raw = archives[a].raw /\ r.archived = archives[a].archived
    BY <1>0 DEF ArchiveType
  <1>2. archives' = [archives EXCEPT ![a] = r]
    BY DEF Marked
  <1> HIDE DEF r
  <1>3. \A b \in Existing : archives'[b] = IF b = a THEN r ELSE archives[b]
    BY <1>1, <1>2, Touched
  <1> QED BY <1>1, <1>3

LEMMA OverviewKeeps ==
  ASSUME TypeOK, NEW a \in Existing, NEW X \in SUBSET Messages,
         archives' = [archives EXCEPT ![a].overview = X]
  PROVE  \A b \in Existing :
           /\ archives'[b].recorded = archives[b].recorded /\ archives'[b].marks = archives[b].marks
           /\ archives'[b].overview = IF b = a THEN X ELSE archives[b].overview
           /\ archives'[b].raw = archives[b].raw /\ archives'[b].archived = archives[b].archived
  <1>0. archives[a] \in ArchiveType
    BY ArchiveDomain
  <1> DEFINE r == [archives[a] EXCEPT !.overview = X]
  <1>1. /\ r.recorded = archives[a].recorded /\ r.overview = X
        /\ r.marks = archives[a].marks /\ r \in ArchiveType
        /\ r.raw = archives[a].raw /\ r.archived = archives[a].archived
    BY <1>0 DEF ArchiveType
  <1>2. archives' = [archives EXCEPT ![a] = r]
    OBVIOUS
  <1> HIDE DEF r
  <1>3. \A b \in Existing : archives'[b] = IF b = a THEN r ELSE archives[b]
    BY <1>1, <1>2, Touched
  <1>4. ASSUME NEW b \in Existing
        PROVE  /\ archives'[b].recorded = archives[b].recorded /\ archives'[b].marks = archives[b].marks
               /\ archives'[b].overview = IF b = a THEN X ELSE archives[b].overview
               /\ archives'[b].raw = archives[b].raw /\ archives'[b].archived = archives[b].archived
    <2>1. CASE b = a
      BY <1>1, <1>3, <2>1
    <2>2. CASE b # a
      BY <1>3, <2>2
    <2> QED BY <2>1, <2>2
  <1> QED BY <1>4

LEMMA RecordedKeeps ==
  ASSUME TypeOK, NEW a \in Existing, archives' = [archives EXCEPT ![a].recorded = TRUE]
  PROVE  \A b \in Existing :
           /\ archives'[b].overview = archives[b].overview /\ archives'[b].marks = archives[b].marks
           /\ archives'[b].recorded = IF b = a THEN TRUE ELSE archives[b].recorded
           /\ archives'[b].raw = archives[b].raw /\ archives'[b].archived = archives[b].archived
  <1>0. archives[a] \in ArchiveType
    BY ArchiveDomain
  <1> DEFINE r == [archives[a] EXCEPT !.recorded = TRUE]
  <1>1. /\ r.recorded = TRUE /\ r.overview = archives[a].overview
        /\ r.marks = archives[a].marks /\ r \in ArchiveType
        /\ r.raw = archives[a].raw /\ r.archived = archives[a].archived
    BY <1>0 DEF ArchiveType
  <1>2. archives' = [archives EXCEPT ![a] = r]
    OBVIOUS
  <1> HIDE DEF r
  <1>3. \A b \in Existing : archives'[b] = IF b = a THEN r ELSE archives[b]
    BY <1>1, <1>2, Touched
  <1>4. ASSUME NEW b \in Existing
        PROVE  /\ archives'[b].overview = archives[b].overview /\ archives'[b].marks = archives[b].marks
               /\ archives'[b].recorded = IF b = a THEN TRUE ELSE archives[b].recorded
               /\ archives'[b].raw = archives[b].raw /\ archives'[b].archived = archives[b].archived
    <2>1. CASE b = a
      BY <1>1, <1>3, <2>1
    <2>2. CASE b # a
      BY <1>3, <2>2
    <2> QED BY <2>1, <2>2
  <1> QED BY <1>4

\* A message is queued for an archive that is not ready or has a handler ahead.
LEMMA QueuedOnce ==
  ASSUME BaseInv, OnceInv, Quiet, UNCHANGED <<archives, taken, redone>>, NEW t \in Slots,
         slots[t] = Free, slots'[t] = Queued, commit' \in {commit, "create"},
         commit \notin {"idle", "intent"} \/ commit' = commit,
         commit' \in {"intent", "raw", "enqueue"} => Arch(t) # Newest,
         archives[Arch(t)].intent, archives[Arch(t)].ready => ~Consumed(Arch(t)),
         \A u \in Slots : u # t =>
           \/ slots'[u] = slots[u] /\ (Arch(u) = Arch(t) => slots[u].pc \notin Active)
           \/ slots[u].pc = "requeue" /\ slots'[u].pc = "ack"
  PROVE  OnceInv'
  <1>1. Settled /\ Disjoint /\ OneHandler /\ HandlerKnows /\ TakenOnce /\ TypeOK
    BY DEF OnceInv, BaseInv
  <1>2. Settled' /\ Disjoint'
    BY <1>1 DEF Settled, Disjoint, Existing, InCommit, Live, Newest
  <1>a. \A u \in Slots : u # t /\ slots'[u] # Free => slots[u] # Free
    BY SlotFacts
  <1>3. OneHandler'
    <2>1. \A u \in Slots : u # t /\ Arch(u) = Arch(t) => slots'[u].pc \notin Active
      BY DEF Active, Before
    <2>2. \A u \in Slots : u # t /\ slots'[u].pc \in Active => slots[u].pc \in Active
      BY DEF Active, Before
    <2> QED BY <1>1, <1>a, <2>1, <2>2, SlotFacts DEF OneHandler, HasWork, Newest
  <1>4. HandlerKnows'
    <2>1. ASSUME NEW s \in Slots
          PROVE  /\ slots'[s] # Free => archives[Arch(s)].intent
                 /\ slots'[s].pc \in Past => archives[Arch(s)].ready
      <3>1. CASE s = t
        BY <3>1, SlotFacts DEF Past
      <3>2. CASE s # t
        BY <1>1, <1>a, <3>2 DEF HandlerKnows, Past
      <3> QED BY <3>1, <3>2
    <2> QED BY <1>1, <2>1 DEF HandlerKnows, Newest
  <1>5. TakenOnce'
    <2>1. ASSUME NEW a \in Existing, Consumed(a), archives[a].ready PROVE Consumed(a)'
      BY <2>1 DEF Consumed, Ahead, Before
    <2> QED BY <1>1, <2>1 DEF TakenOnce, Live, Existing
  <1> QED BY <1>2, <1>3, <1>4, <1>5 DEF OnceInv

LEMMA RequeueOnce ==
  ASSUME BaseInv, OnceInv, Quiet, NEW s \in Slots, Requeue(s)
  PROVE  OnceInv'
  <1>0. TypeOK /\ SlotInv /\ OneHandler /\ HandlerKnows /\ Still
    BY HandlerBase, MildStill DEF BaseInv, OnceInv
  <1>1. slots[s].pc = "requeue" /\ UNCHANGED <<archives, commit, taken, redone>>
    BY DEF Requeue, At
  <1>2. slots[s] # Free /\ Arch(s) \in Existing /\ archives[Arch(s)].intent /\ ~Consumed(Arch(s))
    BY <1>0, <1>1, SlotFacts DEF SlotInv, SlotOk, HandlerKnows, Consumed, Ahead, Before
  <1>3. \A u \in Slots : u # s /\ Arch(u) = Arch(s) => slots[u].pc \notin Active
    BY <1>0, <1>1 DEF OneHandler, Active, Before
  <1>4. commit \in {"intent", "raw", "enqueue"} => Arch(s) # Newest
    BY <1>0, <1>2 DEF OneHandler, HasWork
  <1>5. CASE \E t \in Slots : Vacant(t, Arch(s)) /\ slots' = [slots EXCEPT ![t] = Queued, ![s].pc = "ack"]
    <2>1. PICK t \in Slots : Vacant(t, Arch(s)) /\ slots' = [slots EXCEPT ![t] = Queued, ![s].pc = "ack"]
      BY <1>5
    <2>2. t # s /\ Arch(t) = Arch(s) /\ slots[t] = Free
      BY <1>2, <2>1 DEF Vacant
    <2>3. slots'[t] = Queued /\ slots'[s].pc = "ack" /\ \A u \in Slots : u # t /\ u # s => slots'[u] = slots[u]
      BY <1>0, <2>1, <2>2 DEF TypeOK, SlotType
    <2> QED BY <1>0, <1>1, <1>2, <1>3, <1>4, <2>2, <2>3, QueuedOnce
  <1>6. CASE slots' = [slots EXCEPT ![s] = Queued]
    <2>1. slots'[s] = Queued /\ \A u \in Slots : u # s => slots'[u] = slots[u]
      BY <1>0, <1>6 DEF TypeOK
    <2>2. ASSUME NEW t \in Slots
          PROVE  /\ slots'[t].pc \in Active => slots[t].pc \in Active
                 /\ slots'[t] # Free => slots[t] # Free
                 /\ slots'[t].pc \in Past => slots[t].pc \in Past \/ archives[Arch(t)].ready
                 /\ Ahead(t)' => Ahead(t)
      <3>1. CASE t = s
        BY <1>1, <1>2, <2>1, <3>1, SlotFacts DEF Active, Before, Past, Ahead
      <3>2. CASE t # s
        BY <2>1, <3>2 DEF Ahead
      <3> QED BY <3>1, <3>2
    <2> QED BY <1>0, <1>1, <2>2, OnceFrame
  <1> QED BY <1>5, <1>6 DEF Requeue

LEMMA VerifyOnce ==
  ASSUME BaseInv, OnceInv, Quiet, NEW s \in Slots, Verify(s) \/ VerifyPrev(s)
  PROVE  OnceInv'
  <1> DEFINE a == IF Verify(s) THEN Arch(s) ELSE Arch(s) - 1
  <1>0. TypeOK /\ SlotInv /\ Settled /\ HandlerKnows
    BY DEF BaseInv, OnceInv
  <1>1. /\ commit = "idle" /\ UNCHANGED <<commit, taken, redone>>
        /\ slots[s].pc \in {"verify", "verifyPrev"} /\ archives' = Verified(a)
        /\ (~Verify(s) => slots[s].pc = "verifyPrev")
    BY DEF Verify, VerifyPrev, At
  <1>2. slots[s] # Free /\ a \in Existing /\ Arch(s) \in Existing
    BY <1>0, <1>1, SlotFacts, ArchiveDomain DEF SlotInv, SlotOk
  <1>3. PICK pc \in {"gate", "ack", "requeue", "extract"} :
           Goto(s, pc) /\ (Verify(s) => pc = "ack" \/ archives'[Arch(s)].ready)
    BY DEF Verify, VerifyPrev
  <1>4. slots'[s].pc = pc /\ \A t \in Slots : t # s => slots'[t] = slots[t]
    BY <1>0, <1>3, GotoFacts DEF Pcs
  <1> HIDE DEF a
  <1>5. UNCHANGED archives
    BY <1>0, <1>1, <1>2, VerifiedCases DEF Settled, InCommit
  <1>6. Still
    BY <1>0, <1>5, UnchangedMild, MildStill
  <1>7. ASSUME NEW t \in Slots
        PROVE  /\ slots'[t].pc \in Active => slots[t].pc \in Active
               /\ slots'[t] # Free => slots[t] # Free
               /\ slots'[t].pc \in Past => slots[t].pc \in Past \/ archives[Arch(t)].ready
               /\ Ahead(t)' => Ahead(t)
    <2>1. CASE t = s
      BY <1>1, <1>2, <1>3, <1>4, <1>5, <2>1 DEF Active, Before, Past, Ahead
    <2>2. CASE t # s
      BY <1>4, <2>2 DEF Ahead
    <2> QED BY <2>1, <2>2
  <1> QED BY <1>1, <1>6, <1>7, OnceFrame

\* The memories of archive a are written: no message of it has been taken before,
\* unless by an attempt that is being repeated.
LEMMA ExtractOnce ==
  ASSUME BaseInv, OnceInv, Quiet, NEW s \in Slots, ExtractMemories(s)
  PROVE  OnceInv'
  <1> DEFINE a == Arch(s)
  <1>0. TypeOK /\ SlotInv /\ Disjoint /\ OneHandler /\ HandlerKnows /\ TakenOnce
    BY DEF BaseInv, OnceInv
  <1>1. /\ slots[s].pc = "busy" /\ slots[s].memory = "todo" /\ UNCHANGED <<archives, commit, redone>>
        /\ slots' = [slots EXCEPT ![s].memory = "applied"]
        /\ taken' = [m \in Messages |-> IF m \in Live(a) THEN taken[m] + 1 ELSE taken[m]]
    BY DEF ExtractMemories, At, Live
  <1>2. slots[s] # Free /\ a \in Existing /\ archives[a].ready
    BY <1>0, <1>1, SlotFacts DEF SlotInv, SlotOk, HandlerKnows, Past
  <1>3. /\ slots'[s].pc = "busy" /\ slots'[s].memory = "applied"
        /\ \A t \in Slots : t # s => slots'[t] = slots[t]
    BY <1>0, <1>1 DEF TypeOK, SlotType
  <1>4. ~Consumed(a)
    BY <1>1 DEF Consumed, Ahead
  <1>5. \A m \in Messages : taken[m] \in Nat /\ redone[m] \in Nat /\ (m \in Live(a) => taken[m] <= redone[m])
    <2>1. \A m \in Messages : taken[m] \in Nat /\ redone[m] \in Nat
      BY <1>0 DEF TypeOK
    <2> SUFFICES ASSUME NEW m \in Messages, m \in Live(a), taken[m] > redone[m] PROVE FALSE
      BY <2>1
    <2>2. PICK b \in Existing : archives[b].ready /\ m \in Live(b) /\ Consumed(b)
      BY <1>0 DEF TakenOnce
    <2> QED BY <1>0, <1>2, <1>4, <2>2 DEF Disjoint
  <1>6. \A t \in Slots : slots'[t].pc = slots[t].pc /\ (slots'[t] # Free => slots[t] # Free)
    BY <1>1, <1>2, <1>3
  <1>7. Settled' /\ Disjoint' /\ OneHandler' /\ HandlerKnows'
    BY <1>1, <1>6, OnceRest
  <1>9. Consumed(a)'
    <2>1. ASSUME NEW t \in Slots, Arch(t) = a PROVE ~Ahead(t)'
      <3>1. CASE t = s
        BY <1>3, <3>1 DEF Ahead, Before
      <3>2. CASE t # s
        BY <1>0, <1>1, <1>3, <2>1, <3>2 DEF OneHandler, Active, Ahead
      <3> QED BY <3>1, <3>2
    <2> QED BY <2>1 DEF Consumed
  <1>10. ASSUME NEW b \in Existing, Consumed(b) PROVE Consumed(b)'
    <2>1. \A t \in Slots : Ahead(t)' => Ahead(t)
      BY <1>1, <1>3 DEF Ahead
    <2> QED BY <1>10, <2>1 DEF Consumed
  <1>11. TakenOnce'
    <2> SUFFICES ASSUME NEW m \in Messages
                 PROVE  /\ taken'[m] <= 1 + redone[m]
                        /\ taken'[m] > redone[m] =>
                             \E b \in Existing : archives[b].ready /\ m \in Live(b) /\ Consumed(b)'
      BY <1>1 DEF TakenOnce, Live, Existing
    <2>1. CASE m \in Live(a)
      BY <1>1, <1>2, <1>5, <1>9, <2>1
    <2>2. CASE m \notin Live(a)
      BY <1>0, <1>1, <1>10, <2>2 DEF TakenOnce
    <2> QED BY <2>1, <2>2
  <1> QED BY <1>7, <1>11 DEF OnceInv

\* An attempt is repeated; if it had written memories, that is counted.
LEMMA RetryOnce ==
  ASSUME BaseInv, OnceInv, Quiet, NEW s \in Slots, MemoryRetried(s)
  PROVE  OnceInv'
  <1> DEFINE a == Arch(s)
             these == IF slots[s].memory = "applied" THEN Live(a) ELSE {}
  <1>0. TypeOK /\ SlotInv /\ TakenOnce
    BY DEF BaseInv, OnceInv
  <1>1. /\ slots[s].pc = "busy" /\ slots[s].memory \in {"todo", "applied"} /\ UNCHANGED <<archives, commit, taken>>
        /\ slots' = [slots EXCEPT ![s].memory = "todo", ![s].memoryTries = @ + 1]
    BY DEF MemoryRetried, At
  <1>r. \A m \in Messages : redone'[m] = IF m \in these THEN redone[m] + 1 ELSE redone[m]
    BY DEF MemoryRetried, Live
  <1>2. slots[s] # Free
    BY <1>1, SlotFacts
  <1>3. slots'[s].pc = "busy" /\ \A t \in Slots : t # s => slots'[t] = slots[t]
    BY <1>0, <1>1 DEF TypeOK, SlotType
  <1>5. \A m \in Messages : taken[m] \in Nat /\ redone[m] \in Nat
    BY <1>0 DEF TypeOK
  <1>6. \A t \in Slots : slots'[t].pc = slots[t].pc /\ (slots'[t] # Free => slots[t] # Free)
    BY <1>1, <1>2, <1>3
  <1>7. Settled' /\ Disjoint' /\ OneHandler' /\ HandlerKnows'
    BY <1>1, <1>6, OnceRest
  <1>10. ASSUME NEW b \in Existing, Consumed(b), b # a \/ slots[s].memory = "todo" PROVE Consumed(b)'
    <2>1. \A t \in Slots : Arch(t) = b /\ Ahead(t)' => Ahead(t)
      BY <1>1, <1>3, <1>10 DEF Ahead
    <2> QED BY <1>10, <2>1 DEF Consumed
  <1> HIDE DEF these
  <1>11. TakenOnce'
    <2> SUFFICES ASSUME NEW m \in Messages
                 PROVE  /\ taken[m] <= 1 + redone'[m]
                        /\ taken[m] > redone'[m] =>
                             \E b \in Existing : archives[b].ready /\ m \in Live(b) /\ Consumed(b)'
      BY <1>1 DEF TakenOnce, Live, Existing
    <2>0. taken[m] <= 1 + redone[m]
      BY <1>0 DEF TakenOnce
    <2>1. CASE m \in these
      BY <1>5, <1>r, <2>0, <2>1
    <2>2. CASE m \notin these
      <3>1. redone'[m] = redone[m]
        BY <1>r, <2>2
      <3>2. ASSUME taken[m] > redone[m]
            PROVE  \E b \in Existing : archives[b].ready /\ m \in Live(b) /\ Consumed(b)'
        <4>1. PICK b \in Existing : archives[b].ready /\ m \in Live(b) /\ Consumed(b)
          BY <1>0, <3>2 DEF TakenOnce
        <4>2. b # a \/ slots[s].memory = "todo"
          BY <1>1, <2>2, <4>1 DEF these
        <4> QED BY <1>10, <4>1, <4>2
      <3> QED BY <2>0, <3>1, <3>2
    <2> QED BY <2>1, <2>2
  <1> QED BY <1>7, <1>11 DEF OnceInv

LEMMA EnvOnce ==
  ASSUME BaseInv, OnceInv, Quiet,
         \/ \E m \in Messages : Append1(m)
         \/ WriteIntent \/ WriteRaw \/ CreateTask \/ Rewrite \/ FailCommit
         \/ \E a \in Archives : Cancel(a) \/ Unwind(a)
  PROVE  OnceInv'
  <1>0. TypeOK /\ SlotInv /\ CommitInv
    BY DEF BaseInv
  <1>n. commit # "idle" => Newest \in Existing
    BY <1>0, ArchiveDomain DEF CommitInv
  <1>k. UNCHANGED slots =>
          \A s \in Slots : /\ slots'[s].pc \in Active => slots[s].pc \in Active
                           /\ slots'[s] # Free => slots[s] # Free
                           /\ slots'[s].pc \in Past => slots[s].pc \in Past \/ archives[Arch(s)].ready
                           /\ Ahead(s)' => Ahead(s)
    BY DEF Ahead
  <1>1. CASE (\E m \in Messages : Append1(m)) \/ CreateTask \/ Rewrite
    <2>1. UNCHANGED <<archives, slots, taken, redone>>
          /\ (commit' = commit \/ (commit \notin {"idle", "intent"} /\ commit' \in {"create", "rewrite", "ready"}))
      BY <1>1 DEF Append1, CreateTask, Rewrite
    <2>2. Still
      BY <1>0, <2>1, UnchangedMild, MildStill
    <2> QED BY <1>k, <2>1, <2>2, OnceFrame
  <1>2. CASE WriteRaw
    <2>1. Still /\ UNCHANGED <<slots, taken, redone>> /\ commit = "raw" /\ commit' = "enqueue"
      BY <1>0, <1>2, RawFacts DEF Still
    <2> QED BY <1>k, <2>1, OnceFrame
  <1>6. CASE WriteIntent
    <2>1. /\ Mild /\ commit = "intent" /\ commit' = "raw" /\ UNCHANGED <<slots, taken, redone>>
          /\ Newest \in Existing
          /\ \A a \in Existing :
               /\ archives'[a].ready = archives[a].ready
               /\ archives'[a].intent = (archives[a].intent \/ a = Newest)
      BY <1>0, <1>6, IntentFacts
    <2>2. Existing' = Existing /\ Newest' = Newest /\ archives'[Newest].intent
      BY <1>0, <2>1, MildKept
    <2>3. Still
      BY <2>1, <2>2 DEF Still, Mild
    <2> QED BY <1>k, <2>1, <2>2, <2>3, OnceFrame
  <1>3. CASE FailCommit
    <2>1. /\ Newest \in Existing /\ archives' = Marked(Newest, "failed") /\ commit' = "idle"
          /\ UNCHANGED <<slots, taken, redone>>
      BY <1>3, <1>n DEF FailCommit
    <2>2. Still /\ "failed" \in archives'[Newest].marks
      BY <1>0, <2>1, MarkedMild, MildStill, MarkedKeeps
    <2> QED BY <1>k, <2>1, <2>2, OnceFrame
  <1>4. ASSUME NEW a \in Archives, Cancel(a) PROVE OnceInv'
    <2>1. /\ UNCHANGED <<archives, commit, taken, redone>>
          /\ \A s \in Slots : slots'[s] = slots[s] \/ slots'[s] = Free
      BY <1>4 DEF Cancel
    <2>2. Still
      BY <1>0, <2>1, UnchangedMild, MildStill
    <2>3. ASSUME NEW s \in Slots
          PROVE  /\ slots'[s].pc \in Active => slots[s].pc \in Active
                 /\ slots'[s] # Free => slots[s] # Free
                 /\ slots'[s].pc \in Past => slots[s].pc \in Past \/ archives[Arch(s)].ready
                 /\ Ahead(s)' => Ahead(s)
      BY <2>1, SlotFacts DEF Active, Before, Past, Ahead
    <2> QED BY <2>1, <2>2, <2>3, OnceFrame
  <1>5. ASSUME NEW a \in Archives, Unwind(a) PROVE OnceInv'
    <2>1. /\ archives' = Marked(a, "failed") /\ a \in Existing
          /\ UNCHANGED <<slots, taken, redone, commit>>
      BY <1>0, <1>5 DEF Unwind, SlotInv
    <2>2. Still
      BY <1>0, <2>1, MarkedMild, MildStill
    <2> QED BY <1>k, <2>1, <2>2, OnceFrame
  <1> QED BY <1>1, <1>2, <1>3, <1>4, <1>5, <1>6

LEMMA EnqueueOnce ==
  ASSUME BaseInv, OnceInv, Quiet, Enqueue
  PROVE  OnceInv'
  <1>0. TypeOK /\ OneHandler /\ HandlerKnows /\ CommitInv
    BY DEF BaseInv, OnceInv
  <1>1. PICK t \in Slots : Vacant(t, Newest) /\ slots' = [slots EXCEPT ![t] = Queued]
    BY DEF Enqueue
  <1>2. commit = "enqueue" /\ commit' = "create" /\ UNCHANGED <<archives, taken, redone>>
    BY DEF Enqueue
  <1>3. \A u \in Slots : Arch(u) = Newest => slots[u] = Free
    BY <1>0, <1>2 DEF OneHandler, HasWork
  <1>4. slots[t] = Free /\ Arch(t) = Newest /\ slots'[t] = Queued
        /\ \A u \in Slots : u # t => slots'[u] = slots[u]
    BY <1>0, <1>1 DEF Vacant, TypeOK
  <1>5. \A u \in Slots : Arch(u) = Newest => slots[u].pc \notin Active
    BY <1>3, SlotFacts DEF Active, Before
  <1>6. archives[Newest].intent /\ ~archives[Newest].ready
    BY <1>0, <1>2 DEF HandlerKnows, CommitInv
  <1> QED BY <1>2, <1>4, <1>5, <1>6, QueuedOnce

LEMMA PublishOnce ==
  ASSUME BaseInv, OnceInv, Quiet, PublishReady
  PROVE  OnceInv'
  <1>0. TypeOK /\ CommitInv /\ SlotInv /\ Settled /\ Disjoint /\ OneHandler /\ HandlerKnows /\ TakenOnce
    BY DEF BaseInv, OnceInv
  <1>1. /\ commit = "ready" /\ commit' = "idle" /\ archives' = [archives EXCEPT ![Newest].ready = TRUE]
        /\ UNCHANGED <<slots, taken, redone>>
    BY DEF PublishReady
  <1>2. Newest \in Existing /\ MadeReady(Newest)
    BY <1>0, <1>1, ArchiveDomain DEF CommitInv, MadeReady
  <1>3. /\ Existing' = Existing /\ Newest' = Newest
        /\ \A a \in Existing :
             /\ archives'[a].archived = archives[a].archived /\ archives'[a].marks = archives[a].marks
             /\ archives'[a].ready = IF a = Newest THEN TRUE ELSE archives[a].ready
    BY <1>0, <1>2, ReadyFacts
  <1>9. \A a \in Existing : archives[a].intent => archives'[a].intent
    <2>1. archives[Newest] \in ArchiveType /\ Newest \in DOMAIN archives
      BY <1>0, <1>2, ArchiveDomain DEF Existing
    <2>2. \A a \in Existing : archives'[a].intent = archives[a].intent
      BY <1>0, <1>1, <2>1 DEF TypeOK, ArchiveType, Existing
    <2> QED BY <2>2
  <1>4. Settled'
    BY <1>0, <1>3 DEF Settled, InCommit
  <1>5. Disjoint'
    <2>1. \A a \in Existing : Live(a)' = Live(a)
      BY <1>3 DEF Live
    <2>2. \A a \in Existing : a # Newest /\ archives[a].ready => Live(a) \cap Live(Newest) = {}
      BY <1>0, <1>1, <1>2 DEF Disjoint, InCommit
    <2> QED BY <1>0, <1>1, <1>3, <2>1, <2>2 DEF Disjoint, InCommit
  <1>6. OneHandler'
    BY <1>0, <1>1 DEF OneHandler
  <1>7. HandlerKnows'
    <2>1. \A s \in Slots : slots[s].pc \in Past => slots[s] # Free
      BY SlotFacts DEF Past
    <2>2. \A s \in Slots : slots[s] # Free => Arch(s) \in Existing
      BY <1>0 DEF SlotInv, SlotOk
    <2> QED BY <1>0, <1>1, <1>3, <1>9, <2>1, <2>2 DEF HandlerKnows
  <1>8. TakenOnce'
    <2>1. \A a \in Existing : Live(a)' = Live(a) /\ (Consumed(a) => Consumed(a)')
      BY <1>1, <1>3 DEF Live, Consumed, Ahead
    <2> QED BY <1>0, <1>1, <1>3, <2>1 DEF TakenOnce
  <1> QED BY <1>4, <1>5, <1>6, <1>7, <1>8 DEF OnceInv

LEMMA BeginOnce ==
  ASSUME BaseInv, OnceInv, Quiet, NEW keep \in Keeps, BeginCommit(keep)
  PROVE  OnceInv'
  <1>0. TypeOK /\ ArchInv /\ SlotInv /\ Settled /\ Disjoint /\ OneHandler /\ HandlerKnows /\ TakenOnce
    BY DEF BaseInv, OnceInv
  <1>1. PICK r \in ArchiveType :
           /\ commit = "idle" /\ commit' = "intent"
           /\ Existing' = Existing \cup {Newest'} /\ Newest' \notin Existing
           /\ archives'[Newest'] = r /\ \A a \in Existing : archives'[a] = archives[a]
           /\ ~r.ready /\ ToSet(r.archived) \subseteq ToSet(root)
           /\ UNCHANGED <<slots, taken, redone>>
    BY <1>0, BeginFacts
  <1>2. \A s \in Slots : slots[s] # Free => Arch(s) \in Existing
    BY <1>0 DEF SlotInv, SlotOk
  <1>3. \A s \in Slots : slots[s].pc \in Past => slots[s] # Free
    BY SlotFacts DEF Past
  <1>4. Settled'
    BY <1>0, <1>1 DEF Settled, InCommit
  <1>5. Disjoint'
    <2>1. \A a \in Existing : Live(a)' = Live(a) /\ (archives[a].ready => Live(a) \cap Live(Newest)' = {})
      BY <1>0, <1>1 DEF Live, ArchInv
    <2> QED BY <1>0, <1>1, <2>1 DEF Disjoint, InCommit
  <1>6. OneHandler'
    BY <1>0, <1>1, <1>2 DEF OneHandler, HasWork
  <1>7. HandlerKnows'
    BY <1>0, <1>1, <1>2, <1>3 DEF HandlerKnows
  <1>8. TakenOnce'
    <2>1. \A a \in Existing : Live(a)' = Live(a) /\ (Consumed(a) => Consumed(a)')
      BY <1>1 DEF Live, Consumed, Ahead
    <2> QED BY <1>0, <1>1, <2>1 DEF TakenOnce
  <1> QED BY <1>4, <1>5, <1>6, <1>7, <1>8 DEF OnceInv

LEMMA OnceStep ==
  ASSUME BaseInv, OnceInv, [Next]_vars
  PROVE  OnceInv'
  <1>1. CASE UNCHANGED vars
    BY <1>1 DEF vars, OnceInv, Quiet, Settled, Disjoint, OneHandler, HandlerKnows, TakenOnce, InCommit,
                Live, Consumed, Ahead, HasWork, Existing, Newest
  <1>2. CASE Next /\ Quiet'
    <2>0. Quiet /\ UNCHANGED <<crashes, swallowed>>
      BY <1>2, QuietBefore
    <2>1. ~Crash /\ ~FailUnmarked /\ ~MisreadPublish /\ \A s \in Slots : ~Misreads(s)
      <3>1. crashes' = 0 /\ swallowed' = 0 /\ crashes = 0 /\ swallowed = 0
        BY <1>2, <2>0 DEF Quiet
      <3>2. ~Crash /\ ~FailUnmarked /\ ~Misread
        BY <3>1 DEF Crash, FailUnmarked, Misread
      <3> QED BY <3>2 DEF MisreadPublish, Misreads, MisreadHead, MisreadVerify, MisreadPrev,
                          MisreadRecord, MisreadMerge
    <2>2. CASE \E s \in Slots : HandlerStep(s) \/ SummaryStep(s) \/ MemoryStep(s) \/ Fails(s)
      BY <2>0, <2>2, HandlerOnce, RequeueOnce, VerifyOnce, ExtractOnce, RetryOnce
         DEF HandlerStep, SummaryStep, MemoryStep, Fails
    <2>3. CASE \/ \E m \in Messages : Append1(m)
               \/ FailCommit \/ \E a \in Archives : Cancel(a) \/ Unwind(a)
      BY <2>0, <2>3, EnvOnce
    <2>4. CASE CommitStep
      BY <2>0, <2>4, EnvOnce, EnqueueOnce, PublishOnce DEF CommitStep
    <2>5. CASE \E k \in Keeps : BeginCommit(k)
      BY <2>0, <2>5, BeginOnce
    <2> QED BY <1>2, <2>1, <2>2, <2>3, <2>4, <2>5 DEF Next
  <1>3. CASE ~Quiet'
    BY <1>3 DEF OnceInv
  <1> QED BY <1>1, <1>2, <1>3

LEMMA OnceInvariant == Spec => []OnceInv
  <1>1. ASSUME Init PROVE OnceInv
    <2>1. Existing = {} /\ commit = "idle" /\ \A s \in Slots : slots[s] = Free
      BY <1>1 DEF Init, Existing
    <2>2. \A m \in Messages : taken[m] = 0 /\ redone[m] = 0
      BY <1>1 DEF Init
    <2>3. Settled /\ Disjoint /\ OneHandler /\ HandlerKnows
      BY <2>1, SlotFacts DEF Settled, Disjoint, OneHandler, HandlerKnows, Active, Before, Past
    <2>4. TakenOnce
      BY <2>2 DEF TakenOnce
    <2> QED BY <2>3, <2>4 DEF OnceInv
  <1> QED BY <1>1, BaseInvariant, OnceStep, PTL DEF Spec

\* Without a restart and a swallowed error, no interleaving of commits, failing
\* steps, requeued messages, recoveries and cancellations extracts a message twice,
\* except that an attempt that had written memories is repeated.
THEOREM ExtractedAtMostOnce == Spec => []ExtractedOnce
  <1>1. OnceInv => ExtractedOnce
    BY DEF OnceInv, Quiet, TakenOnce, ExtractedOnce
  <1> QED BY <1>1, OnceInvariant, PTL

-----------------------------------------------------------------------------
(* The chain of summaries *)

\* What the messages of archive Arch(s) rest on while their handler s is at work.
ChainSlot(s) ==
  /\ slots[s].pc \in {"extract", "busy", "done"} /\ Arch(s) > 1 => "done" \in archives[Arch(s) - 1].marks
  /\ slots[s].pc \in {"busy", "done"} => UpTo(Arch(s) - 1, slots[s].base)
  /\ slots[s].pc \in {"busy", "done"} /\ slots[s].summary = "ok"
       => UpTo(Arch(s), archives[Arch(s)].overview)

ChainArch(a) == "done" \in archives[a].marks => UpTo(a, archives[a].overview)

LEMMA ChainParts ==
  ChainInv <=> (Clean => (\A a \in Existing : ChainArch(a)) /\ (\A s \in Slots : ChainSlot(s)))
  BY DEF ChainInv, ChainArch, ChainSlot

\* The archives a handler's archive rests on exist.
LEMMA Below ==
  ASSUME TypeOK, SlotInv
  PROVE  /\ \A a \in Existing : (a \in Nat /\ a > 0 /\ \A b \in 1 .. a : b \in Existing)
         /\ \A s \in Slots : slots[s].pc # "free" =>
              /\ Arch(s) \in Existing /\ archives[Arch(s)].raw
              /\ \A b \in 1 .. (Arch(s) - 1) : b \in Existing
              /\ Arch(s) > 1 => Arch(s) - 1 \in Existing
  <1>1. \A a \in Existing : (a \in Nat /\ a > 0 /\ \A b \in 1 .. a : b \in Existing)
    BY ArchiveDomain
  <1>2. ASSUME NEW s \in Slots, slots[s].pc # "free"
        PROVE  Arch(s) \in Existing /\ archives[Arch(s)].raw
    BY <1>2, SlotFacts DEF SlotInv, SlotOk
  <1>3. ASSUME NEW a \in Existing
        PROVE  (\A b \in 1 .. (a - 1) : b \in Existing) /\ (a > 1 => a - 1 \in Existing)
    BY ArchiveDomain
  <1> QED BY <1>1, <1>2, <1>3

\* Nothing that the chain is about changes.
ChainStill ==
  /\ Existing' = Existing
  /\ \A b \in Existing :
       /\ RawOf(b)' = RawOf(b) /\ archives'[b].overview = archives[b].overview
       /\ "done" \in archives'[b].marks <=> "done" \in archives[b].marks

LEMMA ChainFrame ==
  ASSUME TypeOK, SlotInv, ChainInv, Clean, ChainStill,
         \A s \in Slots : ChainSlot(s)'
           \/ slots'[s].pc \notin {"extract", "busy", "done"}
           \/ (/\ slots'[s].pc = slots[s].pc /\ slots'[s].base = slots[s].base
               /\ slots'[s].summary = "ok" => slots[s].summary = "ok")
  PROVE  ChainInv'
  <1>0. (\A a \in Existing : ChainArch(a)) /\ (\A s \in Slots : ChainSlot(s))
    BY ChainParts
  <1>1. ASSUME NEW a \in Existing' PROVE ChainArch(a)'
    <2>1. a \in Existing /\ \A b \in 1 .. a : b \in Existing
      BY Below DEF ChainStill
    <2> QED BY <1>0, <2>1 DEF ChainArch, ChainStill, UpTo
  <1>2. ASSUME NEW s \in Slots PROVE ChainSlot(s)'
    <2>1. CASE slots'[s].pc \notin {"extract", "busy", "done"}
      BY <2>1 DEF ChainSlot
    <2>2. CASE /\ slots'[s].pc = slots[s].pc /\ slots'[s].base = slots[s].base
               /\ slots'[s].summary = "ok" => slots[s].summary = "ok"
               /\ slots[s].pc \in {"extract", "busy", "done"}
      <3>1. /\ Arch(s) \in Existing /\ (\A b \in 1 .. (Arch(s) - 1) : b \in Existing)
            /\ (Arch(s) > 1 => Arch(s) - 1 \in Existing)
            /\ \A b \in 1 .. Arch(s) : b \in Existing
        BY <2>2, Below
      <3>2. ChainSlot(s)
        BY <1>0
      <3>3. \A b \in Existing : RawOf(b)' = RawOf(b) /\ archives'[b].overview = archives[b].overview
        BY DEF ChainStill
      <3>4. UpTo(Arch(s) - 1, slots[s].base) => UpTo(Arch(s) - 1, slots[s].base)'
        BY <2>2, <3>1, <3>3 DEF UpTo
      <3>5. UpTo(Arch(s), archives[Arch(s)].overview) => UpTo(Arch(s), archives[Arch(s)].overview)'
        BY <3>1, <3>3 DEF UpTo
      <3>6. Arch(s) > 1 /\ "done" \in archives[Arch(s) - 1].marks => "done" \in archives'[Arch(s) - 1].marks
        BY <3>1 DEF ChainStill
      <3> QED BY <2>2, <3>2, <3>4, <3>5, <3>6 DEF ChainSlot
    <2> QED BY <2>1, <2>2
  <1> QED BY <1>1, <1>2 DEF ChainInv, ChainArch, ChainSlot

LEMMA StillChain ==
  ASSUME TypeOK,
         \/ UNCHANGED archives
         \/ \E a \in Existing : MadeReady(a) \/ archives' = [archives EXCEPT ![a].recorded = TRUE]
  PROVE  ChainStill
  <1>1. CASE UNCHANGED archives
    BY <1>1 DEF ChainStill, Existing, RawOf
  <1>2. ASSUME NEW a \in Existing, MadeReady(a) PROVE ChainStill
    <2>1. /\ Existing' = Existing
          /\ \A b \in Existing :
               /\ archives'[b].archived = archives[b].archived /\ archives'[b].raw = archives[b].raw
               /\ archives'[b].marks = archives[b].marks /\ archives'[b].overview = archives[b].overview
      BY <1>2, ReadyFacts
    <2> QED BY <2>1 DEF ChainStill, RawOf
  <1>3. ASSUME NEW a \in Existing, archives' = [archives EXCEPT ![a].recorded = TRUE] PROVE ChainStill
    <2>1. Existing' = Existing
      BY <1>3, RecordedMild, MildKept DEF Mild
    <2> QED BY <1>3, <2>1, RecordedKeeps DEF ChainStill, RawOf
  <1> QED BY <1>1, <1>2, <1>3

\* A marker stays, and an empty summary is not forgotten.
LEMMA CleanBefore ==
  ASSUME BaseInv, Next, Clean'
  PROVE  Clean
  <1>0. TypeOK /\ CommitInv /\ SlotInv
    BY DEF BaseInv
  <1>b. blank = 0
    <2>1. blank' = blank \/ blank' = blank + 1
      <3>1. CASE \E s \in Slots : Misreads(s)
        BY <3>1 DEF Misreads, MisreadHead, MisreadVerify, MisreadPrev, MisreadRecord, MisreadMerge
      <3>2. CASE \E s \in Slots : HandlerStep(s) \/ SummaryStep(s) \/ MemoryStep(s) \/ Fails(s)
        BY <3>2 DEF HandlerStep, SummaryStep, MemoryStep, Fails, Dequeue, Finalize, Verify,
             Gate, VerifyPrev, Requeue, StartExtract, Summarize, ExtractMemories, RecordMemories,
             SummaryFails, MemoryRetried, MemoryFails, Gathered, WriteDone, FailRun, Raise, Ack
      <3>3. CASE ~\E s \in Slots : HandlerStep(s) \/ SummaryStep(s) \/ MemoryStep(s) \/ Fails(s) \/ Misreads(s)
        BY <3>3 DEF Next, Append1, BeginCommit, CommitStep, WriteIntent, WriteRaw, Enqueue, CreateTask,
             Rewrite, PublishReady, FailCommit, FailUnmarked, MisreadPublish, Cancel, Unwind, Crash
      <3> QED BY <3>1, <3>2, <3>3
    <2> QED BY <1>0, <2>1 DEF Clean, TypeOK
  <1>m. SUFFICES Existing \subseteq Existing' /\ \A a \in Existing : archives[a].marks \subseteq archives'[a].marks
    BY <1>b DEF Clean
  <1>u. UNCHANGED archives =>
          Existing \subseteq Existing' /\ \A a \in Existing : archives[a].marks \subseteq archives'[a].marks
    BY DEF Existing
  <1>v. Mild => Existing \subseteq Existing' /\ \A a \in Existing : archives[a].marks \subseteq archives'[a].marks
    BY <1>0, MildKept DEF Mild
  <1>w. ASSUME NEW a \in Existing, MadeReady(a)
        PROVE  Existing \subseteq Existing' /\ \A b \in Existing : archives[b].marks \subseteq archives'[b].marks
    <2>1. Existing' = Existing /\ \A b \in Existing : archives'[b].marks = archives[b].marks
      BY <1>0, <1>w, ReadyFacts
    <2> QED BY <2>1
  <1>1. CASE \E k \in Keeps : BeginCommit(k)
    <2>1. Existing \subseteq Existing' /\ \A a \in Existing : archives'[a] = archives[a]
      BY <1>0, <1>1, BeginFacts
    <2> QED BY <2>1
  <1>2. CASE \/ \E m \in Messages : Append1(m)
             \/ Enqueue \/ CreateTask \/ Rewrite \/ FailUnmarked \/ Crash \/ \E a \in Archives : Cancel(a)
    <2>1. UNCHANGED archives
      BY <1>2 DEF Append1, Enqueue, CreateTask, Rewrite, FailUnmarked, Crash, Cancel
    <2> QED BY <1>u, <2>1
  <1>3. CASE WriteRaw
    <2>1. Existing' = Existing /\ \A a \in Existing : archives'[a].marks = archives[a].marks
      BY <1>0, <1>3, RawFacts
    <2> QED BY <2>1
  <1>8. CASE WriteIntent
    BY <1>0, <1>8, <1>v, IntentFacts
  <1>4. CASE PublishReady \/ MisreadPublish
    <2>1. Newest \in Existing /\ MadeReady(Newest)
      BY <1>0, <1>4, ArchiveDomain DEF PublishReady, MisreadPublish, CommitInv, MadeReady
    <2> QED BY <1>w, <2>1
  <1>5. CASE FailCommit \/ \E a \in Archives : Unwind(a)
    <2>1. PICK a \in Existing : archives' = Marked(a, "failed")
      BY <1>0, <1>5, ArchiveDomain DEF FailCommit, CommitInv, Unwind, SlotInv
    <2> QED BY <1>0, <1>v, <2>1, MarkedMild
  <1>6. ASSUME NEW s \in Slots, Verify(s) \/ VerifyPrev(s) \/ MisreadVerify(s) \/ MisreadPrev(s)
        PROVE  Existing \subseteq Existing' /\ \A a \in Existing : archives[a].marks \subseteq archives'[a].marks
    <2> DEFINE a == IF Verify(s) \/ MisreadVerify(s) THEN Arch(s) ELSE Arch(s) - 1
    <2>1. CASE UNCHANGED archives
      BY <1>u, <2>1
    <2>2. CASE ~UNCHANGED archives
      <3>1. (Verify(s) \/ MisreadVerify(s) => slots[s].pc = "verify")
            /\ (~(Verify(s) \/ MisreadVerify(s)) => slots[s].pc = "verifyPrev")
        BY <1>6, <2>2 DEF Verify, VerifyPrev, MisreadVerify, MisreadPrev, At
      <3>2. a \in Existing
        BY <1>0, <3>1, SlotFacts, ArchiveDomain DEF SlotInv, SlotOk
      <3>3. archives' = Verified(a) \/ archives' = Marked(a, "failed") \/ MadeReady(a)
        <4>1. CASE Verify(s) \/ MisreadVerify(s)
          BY <4>1 DEF Verify, MisreadVerify, MadeReady
        <4>2. CASE ~(Verify(s) \/ MisreadVerify(s))
          BY <1>6, <2>2, <4>2 DEF VerifyPrev, MisreadPrev, MadeReady
        <4> QED BY <4>1, <4>2
      <3> HIDE DEF a
      <3>4. archives' = Marked(a, "failed") \/ MadeReady(a)
        BY <2>2, <3>2, <3>3, VerifiedCases DEF MadeReady
      <3> QED BY <1>0, <1>v, <1>w, <3>2, <3>4, MarkedMild
    <2> QED BY <2>1, <2>2
  <1>7. ASSUME NEW s \in Slots,
               \/ Dequeue(s) \/ Finalize(s) \/ Gate(s) \/ Requeue(s) \/ StartExtract(s) \/ Summarize(s)
               \/ ExtractMemories(s) \/ RecordMemories(s) \/ SummaryFails(s) \/ MemoryRetried(s)
               \/ MemoryFails(s) \/ Gathered(s) \/ WriteDone(s) \/ FailRun(s) \/ Raise(s) \/ Ack(s)
        PROVE  Existing \subseteq Existing' /\ \A a \in Existing : archives[a].marks \subseteq archives'[a].marks
    <2>1. Mild
      BY <1>7, HandlerBase
    <2> QED BY <1>v, <2>1
  <1>9. ASSUME NEW s \in Slots, MisreadHead(s) \/ MisreadRecord(s) \/ MisreadMerge(s)
        PROVE  Existing \subseteq Existing' /\ \A a \in Existing : archives[a].marks \subseteq archives'[a].marks
    <2>1. CASE MisreadHead(s) \/ MisreadRecord(s)
      BY <1>u, <2>1 DEF MisreadHead, MisreadRecord
    <2>2. CASE MisreadMerge(s)
      <3>1. Arch(s) \in Existing /\ Mild
        BY <1>0, <2>2, MergeFacts
      <3> QED BY <1>v, <3>1
    <2> QED BY <1>9, <2>1, <2>2
  <1>10. ASSUME NEW s \in Slots, HandlerStep(s) \/ SummaryStep(s) \/ MemoryStep(s) \/ Fails(s) \/ Misreads(s)
         PROVE  Existing \subseteq Existing' /\ \A a \in Existing : archives[a].marks \subseteq archives'[a].marks
    BY <1>6, <1>7, <1>9, <1>10 DEF HandlerStep, SummaryStep, MemoryStep, Fails, Misreads
  <1> QED BY <1>1, <1>2, <1>3, <1>4, <1>5, <1>8, <1>10 DEF Next, CommitStep

\* The marker of a failure ends the claim.
LEMMA NotClean ==
  ASSUME TypeOK, NEW a \in Existing,
         archives' = Marked(a, "failed") \/ (archives[a].raw /\ archives' = [archives EXCEPT ![a].marks = {"done", "failed"}])
  PROVE  ~Clean'
  <1>1. Existing' = Existing
    BY MarkedMild, BothMild, MildKept
  <1>2. "failed" \in archives'[a].marks
    BY MarkedKeeps, BothMild
  <1> QED BY <1>1, <1>2 DEF Clean

LEMMA EnvChain ==
  ASSUME BaseInv, ChainInv, Clean, Clean',
         \/ \E m \in Messages : Append1(m)
         \/ CommitStep \/ FailCommit \/ FailUnmarked \/ MisreadPublish \/ Crash
         \/ \E a \in Archives : Cancel(a) \/ Unwind(a)
         \/ \E k \in Keeps : BeginCommit(k)
  PROVE  ChainInv'
  <1>0. TypeOK /\ SlotInv /\ CommitInv /\ ArchInv
    BY DEF BaseInv
  <1>n. commit # "idle" => Newest \in Existing
    BY <1>0, ArchiveDomain DEF CommitInv
  <1>p. (\A a \in Existing : ChainArch(a)) /\ (\A s \in Slots : ChainSlot(s))
    BY ChainParts
  <1>1. CASE \/ \E m \in Messages : Append1(m)
             \/ Enqueue \/ CreateTask \/ Rewrite \/ PublishReady \/ MisreadPublish \/ FailUnmarked \/ Crash
             \/ \E a \in Archives : Cancel(a)
    <2>1. UNCHANGED archives \/ \E a \in Existing : MadeReady(a)
      BY <1>1, <1>n DEF Append1, Enqueue, CreateTask, Rewrite, PublishReady, MisreadPublish, FailUnmarked,
           Crash, Cancel, MadeReady
    <2>2. ChainStill
      BY <1>0, <2>1, StillChain
    <2>3. \A s \in Slots : slots'[s] \in {slots[s], Free, Queued}
      BY <1>0, <1>1 DEF Append1, Enqueue, CreateTask, Rewrite, PublishReady, MisreadPublish, FailUnmarked,
           Crash, Cancel, TypeOK
    <2> QED BY <1>0, <2>2, <2>3, ChainFrame, SlotFacts
  <1>2. CASE FailCommit \/ \E a \in Archives : Unwind(a)
    <2>1. PICK a \in Existing : archives' = Marked(a, "failed")
      BY <1>0, <1>2, <1>n DEF FailCommit, Unwind, SlotInv
    <2> QED BY <1>0, <2>1, NotClean
  <1>3. CASE WriteRaw
    <2>1. /\ Existing' = Existing /\ UNCHANGED slots /\ Newest \in Existing
          /\ \A a \in Existing :
               /\ archives'[a].archived = archives[a].archived
               /\ archives'[a].marks = archives[a].marks /\ archives'[a].overview = archives[a].overview
               /\ archives'[a].raw = IF a = Newest THEN TRUE ELSE archives[a].raw
      BY <1>0, <1>3, RawFacts
    <2>2. CASE archives[Newest].raw
      <3>1. \A a \in Existing : RawOf(a)' = RawOf(a)
        <4> SUFFICES ASSUME NEW a \in Existing PROVE RawOf(a)' = RawOf(a)
          OBVIOUS
        <4>1. archives'[a].raw <=> archives[a].raw
          BY <2>1, <2>2
        <4> QED BY <2>1, <4>1 DEF RawOf
      <3>2. ChainStill
        BY <2>1, <3>1 DEF ChainStill
      <3> QED BY <1>0, <2>1, <3>2, ChainFrame
    <2>3. CASE ~archives[Newest].raw
      <3>1. \A a \in Existing : a # Newest => RawOf(a)' = RawOf(a)
        BY <2>1 DEF RawOf
      <3>2. "done" \notin archives[Newest].marks /\ \A s \in Slots : slots[s].pc # "free" => Arch(s) # Newest
        BY <1>0, <2>1, <2>3, Below DEF ArchInv
      <3>3. ASSUME NEW a \in Existing, a # Newest
            PROVE  /\ \A b \in 1 .. a : b \in Existing /\ b # Newest
                   /\ \A b \in 1 .. (a - 1) : b \in Existing /\ b # Newest
        BY <1>0, <3>3, ArchiveDomain
      <3>4. ASSUME NEW a \in Existing, a # Newest, NEW X
            PROVE  /\ UpTo(a, X) => \A b \in 1 .. a : RawOf(b)' \subseteq X
                   /\ UpTo(a - 1, X) => \A b \in 1 .. (a - 1) : RawOf(b)' \subseteq X
        BY <3>1, <3>3, <3>4 DEF UpTo
      <3>5. \A a \in Existing : ChainArch(a)'
        BY <1>p, <2>1, <3>2, <3>4 DEF ChainArch, UpTo
      <3>6. ASSUME NEW s \in Slots PROVE ChainSlot(s)'
        <4>1. CASE slots[s].pc \notin {"extract", "busy", "done"}
          BY <2>1, <4>1 DEF ChainSlot
        <4>2. CASE slots[s].pc \in {"extract", "busy", "done"}
          <5>1. Arch(s) \in Existing /\ Arch(s) # Newest /\ (Arch(s) > 1 => Arch(s) - 1 \in Existing)
            BY <1>0, <3>2, <4>2, Below
          <5>2. ChainSlot(s)
            BY <1>p
          <5> QED BY <2>1, <3>4, <5>1, <5>2 DEF ChainSlot, UpTo
        <4> QED BY <4>1, <4>2
      <3> QED BY <2>1, <3>5, <3>6 DEF ChainInv, ChainArch, ChainSlot
    <2> QED BY <2>2, <2>3
  <1>4. ASSUME NEW k \in Keeps, BeginCommit(k) PROVE ChainInv'
    <2>1. /\ Existing' = Existing \cup {Newest'} /\ UNCHANGED slots
          /\ archives'[Newest'].marks = {}
          /\ \A a \in Existing : archives'[a] = archives[a]
      BY <1>0, <1>4, BeginFacts
    <2>2. \A a \in Existing : RawOf(a)' = RawOf(a)
      BY <2>1 DEF RawOf
    <2>3. ASSUME NEW a \in Existing' PROVE ChainArch(a)'
      <3>1. CASE a \in Existing
        <4>1. \A b \in 1 .. a : b \in Existing
          BY <1>0, <3>1, Below
        <4> QED BY <1>p, <2>1, <2>2, <3>1, <4>1 DEF ChainArch, UpTo
      <3>2. CASE a = Newest'
        BY <2>1, <3>2 DEF ChainArch
      <3> QED BY <2>1, <3>1, <3>2
    <2>4. ASSUME NEW s \in Slots PROVE ChainSlot(s)'
      <3>1. CASE slots[s].pc \notin {"extract", "busy", "done"}
        BY <2>1, <3>1 DEF ChainSlot
      <3>2. CASE slots[s].pc \in {"extract", "busy", "done"}
        <4>1. /\ Arch(s) \in Existing /\ (Arch(s) > 1 => Arch(s) - 1 \in Existing)
              /\ (\A b \in 1 .. Arch(s) : b \in Existing) /\ (\A b \in 1 .. (Arch(s) - 1) : b \in Existing)
          BY <1>0, <3>2, Below
        <4>2. ChainSlot(s)
          BY <1>p
        <4> QED BY <2>1, <2>2, <4>1, <4>2 DEF ChainSlot, UpTo
      <3> QED BY <3>1, <3>2
    <2> QED BY <2>3, <2>4 DEF ChainInv, ChainArch, ChainSlot
  <1>5. CASE WriteIntent
    <2>1. /\ Mild /\ UNCHANGED slots
          /\ \A a \in Existing :
               archives'[a].marks = archives[a].marks /\ archives'[a].overview = archives[a].overview
      BY <1>0, <1>5, IntentFacts
    <2>2. /\ Existing' = Existing
          /\ \A a \in Existing : archives'[a].raw = archives[a].raw /\ archives'[a].archived = archives[a].archived
      BY <1>0, <2>1, MildKept DEF Mild
    <2>3. ChainStill
      BY <2>1, <2>2 DEF ChainStill, RawOf
    <2> QED BY <1>0, <2>1, <2>3, ChainFrame
  <1> QED BY <1>1, <1>2, <1>3, <1>4, <1>5 DEF CommitStep

\* An archive whose predecessor is completed starts from the predecessor's overview.
LEMMA BaseOf ==
  ASSUME TypeOK, ArchInv, NEW a \in Existing, a - 1 \in Existing, "done" \in archives[a - 1].marks,
         UpTo(a - 1, archives[a - 1].overview)
  PROVE  Base(a) = archives[a - 1].overview
  <1> DEFINE D == {b \in Existing : b < a /\ State(b) = "completed" /\ archives[b].overview # {}}
  <1>1. \A b \in Existing : b \in Nat /\ b > 0
    BY ArchiveDomain
  <1>0. archives[a - 1].overview # {}
    <2>1. RawOf(a - 1) # {}
      BY DEF ArchInv, Live, RawOf
    <2>2. a - 1 \in 1 .. (a - 1)
      BY <1>1
    <2> QED BY <2>1, <2>2 DEF UpTo
  <1>2. a - 1 \in D /\ \A c \in D : c <= a - 1
    BY <1>0, <1>1 DEF State
  <1>3. \A b \in D : (\A c \in D : c <= b) => b = a - 1
    BY <1>1, <1>2
  <1>4. (CHOOSE b \in D : \A c \in D : c <= b) = a - 1
    <2> HIDE DEF D
    <2> QED BY <1>2, <1>3
  <1>5. D # {}
    BY <1>2
  <1> QED BY <1>4, <1>5 DEF Base

\* The steps of a handler that touch neither overviews nor .done.
LEMMA HandlerChain ==
  ASSUME BaseInv, ChainInv, Clean, Clean', NEW s \in Slots,
         \/ Dequeue(s) \/ Finalize(s) \/ Verify(s) \/ Gate(s) \/ VerifyPrev(s) \/ Requeue(s)
         \/ ExtractMemories(s) \/ RecordMemories(s) \/ MemoryRetried(s) \/ MemoryFails(s) \/ Gathered(s)
         \/ FailRun(s) \/ Raise(s) \/ Ack(s) \/ MisreadHead(s) \/ MisreadVerify(s) \/ MisreadPrev(s)
  PROVE  ChainInv'
  <1>0. TypeOK /\ SlotInv /\ ArchInv
    BY DEF BaseInv
  <1>p. (\A a \in Existing : ChainArch(a)) /\ (\A t \in Slots : ChainSlot(t))
    BY ChainParts
  <1>s. slots[s] \in SlotType /\ (slots[s].pc # "free" => Arch(s) \in Existing)
    BY <1>0, Below DEF TypeOK
  <1>1. CASE Dequeue(s) \/ Raise(s) \/ Ack(s) \/ MisreadHead(s)
    <2>1. UNCHANGED archives
      BY <1>1 DEF Dequeue, Raise, Ack, MisreadHead
    <2>2. slots'[s].pc \notin {"extract", "busy", "done"} /\ \A t \in Slots : t # s => slots'[t] = slots[t]
      <3>1. CASE Ack(s)
        BY <1>0, <3>1, SlotFacts DEF Ack, TypeOK
      <3>2. CASE Dequeue(s) \/ Raise(s) \/ MisreadHead(s)
        <4>1. PICK pc \in {"finalize", "ack", "gate", "verify", "raised"} : Goto(s, pc)
          BY <3>2 DEF Dequeue, Raise, MisreadHead
        <4> QED BY <1>0, <4>1, GotoFacts DEF Pcs
      <3> QED BY <1>1, <3>1, <3>2
    <2> QED BY <1>0, <2>1, <2>2, StillChain, ChainFrame
  <1>2. CASE Finalize(s) \/ FailRun(s)
    <2>1. Arch(s) \in Existing /\ archives[Arch(s)].raw
      BY <1>0, <1>2, Below DEF Finalize, FailRun, At
    <2>2. \/ archives' = Marked(Arch(s), "failed")
          \/ archives' = [archives EXCEPT ![Arch(s)].marks = {"done", "failed"}]
      BY <1>2 DEF Finalize, FailRun
    <2> QED BY <1>0, <2>1, <2>2, NotClean
  <1>3. CASE Verify(s) \/ MisreadVerify(s)
    <2>1. Arch(s) \in Existing /\ (archives' = Verified(Arch(s)) \/ archives' = Marked(Arch(s), "failed")
                                   \/ MadeReady(Arch(s)))
      BY <1>3, <1>s DEF Verify, MisreadVerify, MadeReady, At
    <2>2. UNCHANGED archives \/ MadeReady(Arch(s))
      <3>1. ~(archives' = Marked(Arch(s), "failed"))
        BY <1>0, <2>1, NotClean
      <3> QED BY <2>1, <3>1, VerifiedCases DEF MadeReady
    <2>3. PICK pc \in {"gate", "ack"} : Goto(s, pc)
      BY <1>3 DEF Verify, MisreadVerify
    <2>4. slots'[s].pc = pc /\ \A t \in Slots : t # s => slots'[t] = slots[t]
      BY <1>0, <2>3, GotoFacts DEF Pcs
    <2> QED BY <1>0, <2>1, <2>2, <2>4, StillChain, ChainFrame
  <1>4. CASE VerifyPrev(s)
    <2> DEFINE prev == Arch(s) - 1
    <2>1. slots[s].pc = "verifyPrev" /\ archives' = Verified(prev) /\ commit = "idle"
      BY <1>4 DEF VerifyPrev, At
    <2>2. prev \in Existing
      BY <1>0, <2>1, Below DEF SlotInv, SlotOk
    <2>3. (UNCHANGED archives \/ MadeReady(prev)) /\ archives'[prev].ready
      <3>0. ~(archives' = Marked(prev, "failed")) /\ "failed" \notin archives[prev].marks
        BY <1>0, <2>2, NotClean DEF Clean
      <3>1. (UNCHANGED archives /\ archives[prev].ready) \/ MadeReady(prev)
        <4> HIDE DEF prev
        <4> QED BY <2>1, <2>2, <3>0, VerifiedCases DEF MadeReady
      <3>2. CASE UNCHANGED archives /\ archives[prev].ready
        BY <3>2
      <3>3. CASE MadeReady(prev)
        BY <1>0, <2>2, <3>3, ReadyFacts
      <3> QED BY <3>1, <3>2, <3>3
    <2>4. Goto(s, "requeue")
      BY <1>4, <2>3 DEF VerifyPrev
    <2>5. slots'[s].pc = "requeue" /\ \A t \in Slots : t # s => slots'[t] = slots[t]
      BY <1>0, <2>4, GotoFacts DEF Pcs
    <2> QED BY <1>0, <2>2, <2>3, <2>5, StillChain, ChainFrame
  <1>9. CASE MisreadPrev(s)
    <2> DEFINE prev == Arch(s) - 1
    <2>1. \/ UNCHANGED archives /\ Goto(s, "requeue")
          \/ slots[s].pc = "verifyPrev" /\ archives' = Marked(prev, "failed")
          \/ slots[s].pc = "verifyPrev" /\ MadeReady(prev) /\ Goto(s, "requeue")
      <3>1. CASE UNCHANGED archives /\ Goto(s, "requeue")
        BY <3>1
      <3>2. CASE At(s, "verifyPrev") /\ archives' = Marked(prev, "failed")
        BY <3>2 DEF At
      <3>3. CASE At(s, "verifyPrev") /\ archives' = [archives EXCEPT ![prev].ready = TRUE, ![prev].intent = FALSE]
                 /\ Goto(s, "requeue")
        BY <3>3 DEF At, MadeReady
      <3> QED BY <1>9, <3>1, <3>2, <3>3 DEF MisreadPrev
    <2>2. (UNCHANGED archives \/ (prev \in Existing /\ MadeReady(prev))) /\ Goto(s, "requeue")
      <3>1. slots[s].pc = "verifyPrev" => prev \in Existing
        BY <1>0, Below DEF SlotInv, SlotOk
      <3>2. prev \in Existing => ~(archives' = Marked(prev, "failed"))
        BY <1>0, NotClean
      <3> QED BY <2>1, <3>1, <3>2
    <2>3. slots'[s].pc = "requeue" /\ \A t \in Slots : t # s => slots'[t] = slots[t]
      BY <1>0, <2>2, GotoFacts DEF Pcs
    <2> QED BY <1>0, <2>2, <2>3, StillChain, ChainFrame
  <1>5. CASE Gate(s)
    <2> DEFINE prev == Arch(s) - 1
    <2>1. slots[s].pc = "gate" /\ Arch(s) \in Existing /\ Arch(s) \in Nat /\ Arch(s) > 0
          /\ (prev > 0 => prev \in Existing)
      BY <1>0, <1>5, <1>s, Below, SlotFacts DEF Gate, At
    <2>2. UNCHANGED archives
      <3>1. UNCHANGED archives \/ (prev > 0 /\ archives' = Marked(prev, "failed"))
        BY <1>5 DEF Gate
      <3> QED BY <1>0, <2>1, <3>1, NotClean
    <2>3. PICK pc \in {"extract", "verifyPrev", "requeue"} : Goto(s, pc)
      BY <1>5 DEF Gate
    <2>4. slots'[s].pc = pc /\ \A t \in Slots : t # s => slots'[t] = slots[t]
      BY <1>0, <2>3, GotoFacts DEF Pcs
    <2>5. CASE pc = "extract"
      <3>1. prev > 0 => "done" \in archives[prev].marks
        <4> SUFFICES ASSUME prev > 0 PROVE "done" \in archives[prev].marks
          OBVIOUS
        <4>1. ~Goto(s, "verifyPrev") /\ ~Goto(s, "requeue")
          BY <1>0, <2>4, <2>5, GotoFacts DEF Pcs
        <4>2. ~(archives' = Marked(prev, "failed"))
          BY <1>0, <2>1, NotClean
        <4>3. State(prev) # "pending"
          BY <1>5, <2>1, <4>1, <4>2 DEF Gate
        <4>4. "failed" \notin archives[prev].marks
          BY <2>1 DEF Clean
        <4> QED BY <4>3, <4>4 DEF State
      <3>2. ChainSlot(s)'
        BY <2>1, <2>2, <2>4, <2>5, <3>1 DEF ChainSlot
      <3> QED BY <1>0, <2>2, <2>4, <3>2, StillChain, ChainFrame
    <2>6. CASE pc # "extract"
      BY <1>0, <2>2, <2>4, <2>6, StillChain, ChainFrame
    <2> QED BY <2>5, <2>6
  <1>6. CASE Requeue(s)
    <2>1. UNCHANGED archives /\ slots[s].pc = "requeue"
      BY <1>6 DEF Requeue, At
    <2>2. \A t \in Slots : slots'[t] \in {slots[t], Queued} \/ slots'[t].pc = "ack"
      <3>1. CASE slots' = [slots EXCEPT ![s] = Queued]
        BY <1>0, <3>1 DEF TypeOK
      <3>2. ASSUME NEW u \in Slots, slots[u] = Free, slots' = [slots EXCEPT ![u] = Queued, ![s].pc = "ack"]
            PROVE  \A t \in Slots : slots'[t] \in {slots[t], Queued} \/ slots'[t].pc = "ack"
        <4>1. u # s
          BY <2>1, <3>2, SlotFacts
        <4>2. /\ slots'[u] = Queued /\ slots'[s].pc = "ack"
              /\ \A t \in Slots : t # u /\ t # s => slots'[t] = slots[t]
          BY <1>0, <3>2, <4>1 DEF TypeOK, SlotType
        <4> QED BY <4>2
      <3> QED BY <1>6, <3>1, <3>2 DEF Requeue, Vacant
    <2> QED BY <1>0, <2>1, <2>2, StillChain, ChainFrame, SlotFacts
  <1>7. CASE ExtractMemories(s) \/ RecordMemories(s) \/ MemoryRetried(s) \/ MemoryFails(s)
    <2>1. /\ slots'[s].pc = slots[s].pc /\ slots'[s].base = slots[s].base
          /\ (slots'[s].summary = "ok" => slots[s].summary = "ok")
          /\ \A t \in Slots : t # s => slots'[t] = slots[t]
      <3>1. CASE ExtractMemories(s) \/ RecordMemories(s)
        BY <1>0, <1>s, <3>1 DEF ExtractMemories, RecordMemories, TypeOK, SlotType
      <3>2. CASE MemoryRetried(s) \/ MemoryFails(s)
        BY <1>0, <1>s, <3>2 DEF MemoryRetried, MemoryFails, TypeOK, SlotType
      <3> QED BY <1>7, <3>1, <3>2
    <2>2. UNCHANGED archives \/ (Arch(s) \in Existing /\ archives' = [archives EXCEPT ![Arch(s)].recorded = TRUE])
      BY <1>7, <1>s DEF ExtractMemories, RecordMemories, MemoryRetried, MemoryFails, At
    <2> QED BY <1>0, <2>1, <2>2, StillChain, ChainFrame
  <1>8. CASE Gathered(s)
    <2>1. slots[s].pc = "busy" /\ Arch(s) \in Existing
      BY <1>8, <1>s DEF Gathered, At
    <2>2. UNCHANGED archives /\ Goto(s, "done")
      BY <1>0, <1>8, <2>1, NotClean DEF Gathered
    <2>3. /\ slots'[s].pc = "done" /\ slots'[s].base = slots[s].base /\ slots'[s].summary = slots[s].summary
          /\ \A t \in Slots : t # s => slots'[t] = slots[t]
      BY <1>0, <2>2, GotoFacts DEF Pcs
    <2>4. ChainSlot(s)'
      <3>1. ChainSlot(s)
        BY <1>p
      <3> QED BY <2>1, <2>2, <2>3, <3>1 DEF ChainSlot, UpTo, RawOf
    <2> QED BY <1>0, <2>2, <2>3, <2>4, StillChain, ChainFrame
  <1> QED BY <1>1, <1>2, <1>3, <1>4, <1>5, <1>6, <1>7, <1>8, <1>9

LEMMA StartChain ==
  ASSUME BaseInv, ChainInv, Clean, Clean', NEW s \in Slots, StartExtract(s) \/ MisreadRecord(s)
  PROVE  ChainInv'
  <1> DEFINE a == Arch(s)
  <1>0. TypeOK /\ SlotInv /\ ArchInv
    BY DEF BaseInv
  <1>1. slots[s].pc = "extract" /\ slots[s] \in SlotType /\ a \in Existing /\ archives[a].raw
        /\ a \in Nat /\ a > 0 /\ slots[s].summary = "todo" /\ (a > 1 => a - 1 \in Existing)
    BY <1>0, Below, SlotFacts DEF StartExtract, MisreadRecord, At, TypeOK, SlotInv, SlotOk
  <1>2. /\ UNCHANGED archives
        /\ \E mem \in {"ok", "todo"} :
             slots' = [slots EXCEPT ![s].pc = "busy", ![s].base = Base(a), ![s].memory = mem]
    BY <1>1 DEF StartExtract, MisreadRecord
  <1>3. /\ slots'[s].base = Base(a) /\ slots'[s].summary = "todo"
        /\ \A t \in Slots : t # s => slots'[t] = slots[t]
    BY <1>0, <1>1, <1>2 DEF TypeOK, SlotType
  <1>4. (\A b \in Existing : ChainArch(b)) /\ ChainSlot(s)
    BY ChainParts
  <1>5. a > 1 => "done" \in archives[a - 1].marks
    BY <1>1, <1>4 DEF ChainSlot
  <1>6. UpTo(a - 1, Base(a))
    <2>1. CASE a = 1
      BY <2>1 DEF UpTo
    <2>2. CASE a > 1
      BY <1>0, <1>1, <1>4, <1>5, <2>2, BaseOf DEF ChainArch
    <2> QED BY <1>1, <2>1, <2>2
  <1>7. ChainSlot(s)'
    BY <1>2, <1>3, <1>5, <1>6 DEF ChainSlot, UpTo, RawOf
  <1> QED BY <1>0, <1>2, <1>3, <1>7, StillChain, ChainFrame

\* An overview is written, or a summary ends with one: it is about everything up to
\* its archive.
LEMMA OverviewChain ==
  ASSUME BaseInv, ChainInv, Clean, NEW s \in Slots, slots[s].pc = "busy", Existing' = Existing,
         \A b \in Existing :
           /\ archives'[b].marks = archives[b].marks
           /\ archives'[b].overview = archives[b].overview \/ (b = Arch(s) /\ archives'[b].overview = Summary(s))
           /\ archives'[b].raw = archives[b].raw /\ archives'[b].archived = archives[b].archived,
         \A t \in Slots :
           /\ slots'[t].pc = slots[t].pc /\ slots'[t].base = slots[t].base
           /\ slots'[t].summary = "ok" =>
                slots[t].summary = "ok" \/ (t = s /\ archives'[Arch(s)].overview = Summary(s))
  PROVE  ChainInv'
  <1> DEFINE a == Arch(s)
             X == Summary(s)
  <1>0. TypeOK /\ SlotInv
    BY DEF BaseInv
  <1>1. a \in Existing /\ a \in Nat /\ a > 0
    BY <1>0, Below, SlotFacts
  <1>3. (\A b \in Existing : ChainArch(b)) /\ (\A t \in Slots : ChainSlot(t))
    BY ChainParts
  <1>4. UpTo(a, X)
    <2>1. UpTo(a - 1, slots[s].base)
      BY <1>1, <1>3 DEF ChainSlot
    <2>2. RawOf(a) \subseteq X
      BY DEF RawOf, Summary
    <2>3. \A b \in 1 .. a : b = a \/ b \in 1 .. (a - 1)
      BY <1>1
    <2> QED BY <2>1, <2>2, <2>3 DEF UpTo, Summary
  <1> HIDE DEF X
  <1>5. \A b \in Existing :
          /\ archives'[b].marks = archives[b].marks
          /\ archives'[b].overview = archives[b].overview \/ (b = a /\ archives'[b].overview = X)
    BY DEF X
  <1>6. \A b \in Existing : RawOf(b)' = RawOf(b)
    BY DEF RawOf
  <1>7. \A t \in Slots : /\ slots'[t].pc = slots[t].pc /\ slots'[t].base = slots[t].base
                         /\ slots'[t].summary = "ok" => slots[t].summary = "ok"
                                                        \/ (Arch(t) = a /\ archives'[a].overview = X)
    BY DEF X
  <1>8. ASSUME NEW b \in Existing, NEW Y
        PROVE  /\ UpTo(b, Y) => \A c \in 1 .. b : RawOf(c)' \subseteq Y
               /\ UpTo(b - 1, Y) => \A c \in 1 .. (b - 1) : RawOf(c)' \subseteq Y
    <2>1. \A c \in 1 .. b : c \in Existing
      BY <1>0, Below
    <2>2. \A c \in 1 .. (b - 1) : c \in Existing
      BY <1>0, ArchiveDomain
    <2> QED BY <1>6, <2>1, <2>2 DEF UpTo
  <1>9. ASSUME NEW b \in Existing PROVE ChainArch(b)'
    <2>1. CASE b = a /\ archives'[b].overview = X
      BY <1>4, <1>8, <2>1 DEF ChainArch, UpTo
    <2>2. CASE archives'[b].overview = archives[b].overview
      BY <1>3, <1>5, <1>8, <2>2 DEF ChainArch, UpTo
    <2> QED BY <1>5, <2>1, <2>2
  <1>10. ASSUME NEW t \in Slots PROVE ChainSlot(t)'
    <2>1. CASE slots[t].pc \notin {"extract", "busy", "done"}
      BY <1>7, <2>1 DEF ChainSlot
    <2>2. CASE slots[t].pc \in {"extract", "busy", "done"}
      <3>1. Arch(t) \in Existing /\ (Arch(t) > 1 => Arch(t) - 1 \in Existing) /\ ChainSlot(t)
        BY <1>0, <1>3, <2>2, Below
      <3>2. slots'[t].summary = "ok" /\ slots[t].pc \in {"busy", "done"} => UpTo(Arch(t), archives[Arch(t)].overview)'
        <4>1. CASE Arch(t) = a /\ archives'[a].overview = X
          BY <1>1, <1>4, <1>8, <4>1 DEF UpTo
        <4>2. CASE archives'[Arch(t)].overview = archives[Arch(t)].overview
                   /\ (slots'[t].summary = "ok" => slots[t].summary = "ok")
          BY <1>7, <1>8, <3>1, <4>2 DEF UpTo, ChainSlot
        <4> QED BY <1>5, <1>7, <3>1, <4>1, <4>2
      <3>3. slots[t].pc \in {"busy", "done"} => UpTo(Arch(t) - 1, slots[t].base)'
        BY <1>7, <1>8, <3>1 DEF UpTo, ChainSlot
      <3>4. Arch(t) > 1 => "done" \in archives'[Arch(t) - 1].marks
        BY <1>5, <2>2, <3>1 DEF ChainSlot
      <3> QED BY <1>7, <3>2, <3>3, <3>4 DEF ChainSlot
    <2> QED BY <2>1, <2>2
  <1> QED BY <1>5, <1>9, <1>10 DEF ChainInv, ChainArch, ChainSlot

LEMMA SummaryChain ==
  ASSUME BaseInv, ChainInv, Clean, Clean', NEW s \in Slots,
         Summarize(s) \/ SummaryFails(s) \/ MisreadMerge(s)
  PROVE  ChainInv'
  <1> DEFINE a == Arch(s)
  <1>0. TypeOK /\ SlotInv
    BY DEF BaseInv
  <1>1. slots[s].pc = "busy" /\ slots[s] \in SlotType
    BY <1>0 DEF Summarize, SummaryFails, MisreadMerge, At, TypeOK
  <1>2. a \in Existing
    BY <1>0, <1>1, Below
  <1>3. Summary(s) \in SUBSET Messages
    BY <1>0, <1>2, SummaryType
  <1>4. CASE Summarize(s)
    <2>1. archives' = [archives EXCEPT ![a].overview = Summary(s)] /\ slots' = [slots EXCEPT ![s].summary = "ok"]
      <3>1. ~(blank' = blank + 1)
        BY <1>0 DEF Clean, TypeOK
      <3> QED BY <1>4, <3>1 DEF Summarize
    <2>2. Mild
      BY <1>4, HandlerBase
    <2>3. /\ Existing' = Existing
          /\ \A b \in Existing :
               /\ archives'[b].marks = archives[b].marks
               /\ archives'[b].overview = IF b = a THEN Summary(s) ELSE archives[b].overview
               /\ archives'[b].raw = archives[b].raw /\ archives'[b].archived = archives[b].archived
      BY <1>0, <1>2, <1>3, <2>1, <2>2, OverviewKeeps, MildKept
    <2>4. \A t \in Slots : /\ slots'[t].pc = slots[t].pc /\ slots'[t].base = slots[t].base
                           /\ (t # s => slots'[t] = slots[t])
      BY <1>0, <1>1, <2>1 DEF TypeOK, SlotType
    <2> QED BY <1>1, <1>2, <2>3, <2>4, OverviewChain
  <1>5. CASE SummaryFails(s)
    <2>1. UNCHANGED archives \/ archives' = [archives EXCEPT ![a].overview = Summary(s)]
      BY <1>5 DEF SummaryFails
    <2>2. Mild
      BY <1>5, HandlerBase
    <2>3. /\ Existing' = Existing
          /\ \A b \in Existing :
               /\ archives'[b].marks = archives[b].marks
               /\ archives'[b].overview = archives[b].overview \/ (b = a /\ archives'[b].overview = Summary(s))
               /\ archives'[b].raw = archives[b].raw /\ archives'[b].archived = archives[b].archived
      <3>1. CASE UNCHANGED archives
        BY <3>1 DEF Existing
      <3>2. CASE archives' = [archives EXCEPT ![a].overview = Summary(s)]
        BY <1>0, <1>2, <1>3, <2>2, <3>2, OverviewKeeps, MildKept
      <3> QED BY <2>1, <3>1, <3>2
    <2>4. \A t \in Slots : /\ slots'[t].pc = slots[t].pc /\ slots'[t].base = slots[t].base
                           /\ slots'[t].summary = "ok" => slots[t].summary = "ok"
      <3>1. CASE slots' = [slots EXCEPT ![s].summaryTries = slots[s].summaryTries + 1]
        BY <1>0, <1>1, <3>1 DEF TypeOK, SlotType
      <3>2. CASE slots' = [slots EXCEPT ![s].summary = "error"]
        BY <1>0, <1>1, <3>2 DEF TypeOK, SlotType
      <3> QED BY <1>5, <3>1, <3>2 DEF SummaryFails
    <2> QED BY <1>1, <1>2, <2>3, <2>4, OverviewChain
  <1>6. CASE MisreadMerge(s)
    <2>1. /\ Mild
          /\ \A b \in Existing :
               /\ archives'[b].marks = archives[b].marks
               /\ archives'[b].overview = archives[b].overview \/ (b = Arch(s) /\ archives'[b].overview = Summary(s))
          /\ slots' = [slots EXCEPT ![s].summary = "ok"] => archives'[Arch(s)].overview = Summary(s)
          /\ slots' = [slots EXCEPT ![s].summary = "ok"] \/ slots' = [slots EXCEPT ![s].memory = "ok"]
      BY <1>0, <1>6, MergeFacts
    <2>2. /\ Existing' = Existing
          /\ \A b \in Existing : archives'[b].raw = archives[b].raw /\ archives'[b].archived = archives[b].archived
      BY <1>0, <2>1, MildKept DEF Mild
    <2>3. ASSUME NEW t \in Slots
          PROVE  /\ slots'[t].pc = slots[t].pc /\ slots'[t].base = slots[t].base
                 /\ slots'[t].summary = "ok" =>
                      slots[t].summary = "ok" \/ (t = s /\ archives'[Arch(s)].overview = Summary(s))
      <3>1. CASE slots' = [slots EXCEPT ![s].summary = "ok"]
        <4>1. slots'[t].pc = slots[t].pc /\ slots'[t].base = slots[t].base /\ (t # s => slots'[t] = slots[t])
          BY <1>0, <1>1, <3>1 DEF TypeOK, SlotType
        <4>2. archives'[Arch(s)].overview = Summary(s)
          BY <2>1, <3>1
        <4> QED BY <4>1, <4>2
      <3>2. CASE slots' = [slots EXCEPT ![s].memory = "ok"]
        BY <1>0, <1>1, <3>2 DEF TypeOK, SlotType
      <3> QED BY <2>1, <3>1, <3>2
    <2> QED BY <1>1, <2>1, <2>2, <2>3, OverviewChain
  <1> QED BY <1>4, <1>5, <1>6

LEMMA DoneChain ==
  ASSUME BaseInv, ChainInv, Clean, NEW s \in Slots, WriteDone(s)
  PROVE  ChainInv'
  <1> DEFINE a == Arch(s)
  <1>0. TypeOK /\ SlotInv /\ Mild
    BY HandlerBase DEF BaseInv
  <1>1. /\ slots[s].pc = "done" /\ a \in Existing /\ slots[s].summary = "ok"
        /\ archives' = Marked(a, "done") /\ Goto(s, "ack")
    BY <1>0, Below DEF WriteDone, At, SlotInv, SlotOk
  <1>2. (\A b \in Existing : ChainArch(b)) /\ (\A t \in Slots : ChainSlot(t))
    BY ChainParts
  <1>3. UpTo(a, archives[a].overview)
    BY <1>1, <1>2 DEF ChainSlot
  <1>4. /\ Existing' = Existing
        /\ \A b \in Existing :
             /\ archives'[b].overview = archives[b].overview
             /\ archives'[b].marks = IF b = a THEN archives[b].marks \cup {"done"} ELSE archives[b].marks
             /\ archives'[b].raw = archives[b].raw /\ archives'[b].archived = archives[b].archived
    BY <1>0, <1>1, MarkedKeeps, MildKept
  <1>5. \A b \in Existing : RawOf(b)' = RawOf(b)
    BY <1>4 DEF RawOf
  <1>6. slots'[s].pc = "ack" /\ \A t \in Slots : t # s => slots'[t] = slots[t]
    BY <1>0, <1>1, GotoFacts DEF Pcs
  <1>7. ASSUME NEW b \in Existing PROVE ChainArch(b)'
    <2>1. \A c \in 1 .. b : c \in Existing
      BY <1>0, Below
    <2>2. CASE b = a
      BY <1>3, <1>4, <1>5, <2>1, <2>2 DEF ChainArch, UpTo
    <2>3. CASE b # a
      BY <1>2, <1>4, <1>5, <2>1, <2>3 DEF ChainArch, UpTo
    <2> QED BY <2>2, <2>3
  <1>8. ASSUME NEW t \in Slots PROVE ChainSlot(t)'
    <2>1. CASE slots'[t].pc \notin {"extract", "busy", "done"}
      BY <2>1 DEF ChainSlot
    <2>2. CASE slots'[t].pc \in {"extract", "busy", "done"}
      <3>1. slots'[t] = slots[t]
        BY <1>6, <2>2
      <3>2. /\ Arch(t) \in Existing /\ (Arch(t) > 1 => Arch(t) - 1 \in Existing) /\ ChainSlot(t)
            /\ (\A b \in 1 .. Arch(t) : b \in Existing) /\ (\A b \in 1 .. (Arch(t) - 1) : b \in Existing)
        BY <1>0, <1>2, <2>2, <3>1, Below
      <3>3. Arch(t) > 1 => "done" \in archives'[Arch(t) - 1].marks
        BY <1>4, <2>2, <3>1, <3>2 DEF ChainSlot
      <3> QED BY <1>4, <1>5, <3>1, <3>2, <3>3 DEF ChainSlot, UpTo
    <2> QED BY <2>1, <2>2
  <1> QED BY <1>4, <1>7, <1>8 DEF ChainInv, ChainArch, ChainSlot

LEMMA ChainStep ==
  ASSUME BaseInv, ChainInv, [Next]_vars
  PROVE  ChainInv'
  <1>1. CASE UNCHANGED vars
    <2>1. UNCHANGED archives /\ UNCHANGED slots /\ UNCHANGED blank
      BY <1>1 DEF vars
    <2> QED BY <2>1 DEF ChainInv, Clean, UpTo, RawOf, Existing
  <1>2. CASE ~Clean'
    BY <1>2 DEF ChainInv
  <1>3. CASE Next /\ Clean'
    <2>0. Clean
      BY <1>3, CleanBefore
    <2>1. CASE \E s \in Slots : HandlerStep(s) \/ SummaryStep(s) \/ MemoryStep(s) \/ Fails(s) \/ Misreads(s)
      BY <1>3, <2>0, <2>1, HandlerChain, StartChain, SummaryChain, DoneChain
         DEF HandlerStep, SummaryStep, MemoryStep, Fails, Misreads
    <2>2. CASE ~\E s \in Slots : HandlerStep(s) \/ SummaryStep(s) \/ MemoryStep(s) \/ Fails(s) \/ Misreads(s)
      BY <1>3, <2>0, <2>2, EnvChain DEF Next
    <2> QED BY <2>1, <2>2
  <1> QED BY <1>1, <1>2, <1>3

LEMMA ChainInvariant == Spec => []ChainInv
  <1>1. Init => ChainInv
    BY SlotFacts DEF Init, ChainInv, Existing
  <1> QED BY <1>1, BaseInvariant, ChainStep, PTL DEF Spec

LEMMA VisibleFrom ==
  ASSUME TypeOK, Clean
  PROVE  \E t \in Nat :
           /\ Visible = ToSet(root) \cup (UNION {RawOf(a) : a \in {b \in Existing : b > t}})
                        \cup (IF t > 0 /\ State(t) = "completed" THEN archives[t].overview ELSE {})
           /\ t = 0 \/ (t \in Existing /\ "done" \in archives[t].marks /\ State(t) = "completed")
  <1> DEFINE ended == {a \in Existing : State(a) # "pending"}
             Top   == CHOOSE a \in ended : \A b \in ended : b <= a
  <1>1. Existing = 1 .. Newest /\ Newest \in Nat
    BY ArchiveDomain
  <1>2. \A a \in ended : "done" \in archives[a].marks /\ State(a) = "completed"
    BY DEF State, Clean
  <1>3. CASE ended = {}
    <2>1. Visible = ToSet(root) \cup (UNION {RawOf(a) : a \in {b \in Existing : b > 0}})
                    \cup (IF 0 > 0 /\ State(0) = "completed" THEN archives[0].overview ELSE {})
      BY <1>3 DEF Visible
    <2> QED BY <2>1
  <1>4. CASE ended # {}
    <2>1. ended \in SUBSET (1 .. Newest)
      BY <1>1
    <2>2. PICK x \in ended : \A y \in ended : y <= x
      <3> HIDE DEF ended
      <3> QED BY <1>1, <1>4, <2>1, Greatest
    <2>3. Top \in ended
      <3> HIDE DEF ended
      <3> QED BY <2>2
    <2>4. Visible = ToSet(root) \cup (UNION {RawOf(a) : a \in {b \in Existing : b > Top}})
                    \cup (IF Top > 0 /\ State(Top) = "completed" THEN archives[Top].overview ELSE {})
      BY <1>4 DEF Visible
    <2>5. "done" \in archives[Top].marks /\ State(Top) = "completed" /\ Top \in Existing
      BY <1>2, <2>3
    <2>6. Top \in Nat
      <3> HIDE DEF Top
      <3> QED BY <1>1, <2>5
    <2> HIDE DEF Top
    <2> QED BY <2>4, <2>5, <2>6
  <1> QED BY <1>3, <1>4

\* With no archive marked failed and none completed with an empty summary, what a
\* reader is shown covers every message, for any number of commits, workers,
\* retries, restarts, misread metadata and repeated deliveries.
THEOREM ContextIsComplete == Spec => []ContextComplete
  <1>1. ASSUME BaseInv, ChainInv PROVE ContextComplete
    <2> SUFFICES ASSUME Clean PROVE sent \subseteq Visible
      BY DEF ContextComplete, Clean
    <2>0. TypeOK /\ NothingLost
      BY <1>1 DEF BaseInv
    <2>1. Existing = 1 .. Newest /\ Newest \in Nat
      BY <2>0, ArchiveDomain
    <2>2. PICK t \in Nat :
             /\ Visible = ToSet(root) \cup (UNION {RawOf(a) : a \in {b \in Existing : b > t}})
                          \cup (IF t > 0 /\ State(t) = "completed" THEN archives[t].overview ELSE {})
             /\ t = 0 \/ (t \in Existing /\ "done" \in archives[t].marks /\ State(t) = "completed")
      BY <2>0, VisibleFrom
    <2>3. ASSUME NEW a \in Existing PROVE RawOf(a) \subseteq Visible
      <3>1. CASE a > t
        BY <2>2, <3>1
      <3>2. CASE a \in 1 .. t
        <4>1. t > 0 /\ t \in Existing /\ "done" \in archives[t].marks /\ State(t) = "completed"
          BY <2>2, <3>2
        <4>2. RawOf(a) \subseteq archives[t].overview
          BY <1>1, <3>2, <4>1 DEF ChainInv, UpTo
        <4> QED BY <2>2, <4>1, <4>2
      <3> QED BY <2>1, <3>1, <3>2
    <2>4. ToSet(root) \subseteq Visible
      BY <2>2
    <2> QED BY <2>0, <2>3, <2>4 DEF NothingLost
  <1> QED BY <1>1, BaseInvariant, ChainInvariant, PTL
=============================================================================
