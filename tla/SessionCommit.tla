--------------------------- MODULE SessionCommit ---------------------------
(***************************************************************************)
(* The two-phase commit of one session (openviking/session/session.py and  *)
(* SessionCommitProcessor).  Phase 1, under the exact lock of the session  *)
(* directory, moves the head of the live conversation into an archive and  *)
(* queues its extraction; Phase 2, run by up to eight queue workers,       *)
(* recovers an interrupted Phase 1, waits for the preceding archive,       *)
(* summarises the archive and extracts memories from it.                   *)
(*                                                                         *)
(* The lock's holder is the commit in progress: appending, recovery and    *)
(* the merge of the metadata take the lock for one step.  A restart frees  *)
(* the lock and delivers every unacknowledged message again.               *)
(***************************************************************************)
EXTENDS Naturals, Sequences, FiniteSets, SequencesExt

CONSTANTS
  MessageCount, \* bound on the messages of the conversation
  ArchiveCount, \* bound on the commits
  SlotCount,    \* bound on an archive's unacknowledged queue messages
  MaxRetries,   \* _MEMORY_EXTRACTION_MAX_RETRIES
  Keeps,        \* the values of keep_recent_count
  MaxTroubles   \* bound on restarts, errors, cancellations and empty summaries

ASSUME CommitAssumption ==
  /\ MessageCount \in Nat /\ ArchiveCount \in Nat /\ SlotCount \in Nat
  /\ MaxRetries \in Nat /\ Keeps \subseteq Nat
  /\ MaxTroubles \in Nat

Messages == 1..MessageCount
Archives == 1..ArchiveCount
Slots    == Archives \X (1..SlotCount)

VARIABLES
  root,      \* messages.jsonl of the session: the live conversation
  archives,  \* the archive directories, by index
  commit,    \* the next step of the Phase 1 in progress; "idle": lock is free
  slots,     \* the queue messages not acknowledged yet and their handlers
  cancelled, \* archives whose task was cancelled
  unwinding, \* interrupted extractions that have not written their marker
  sent,      \* history: the messages add_message accepted
  taken,     \* history: how often memories were written from a message
  redone,    \* history: how often an attempt that had written them was repeated
  blank,     \* history: summaries that came out empty
  crashes, faults, \* restarts; calls that raised
  swallowed  \* errors that the code catches to go on as if nothing had happened

history  == <<sent, taken, redone, blank>>
troubles == <<crashes, faults, swallowed>>
vars == <<root, archives, commit, slots, cancelled, unwinding, history, troubles>>

\* The directory of one archive: .meta.json (intent: "phase1" with the task and
\* the two id lists; ready: its status; recorded: "completed_memory_steps"),
\* messages.jsonl, the messages its overview is about ({}: no overview), and
\* the markers .done and .failed.json.
ArchiveType ==
  [intent : BOOLEAN, ready : BOOLEAN, archived : Seq(Messages), retained : Seq(Messages), raw : BOOLEAN,
   recorded : BOOLEAN, overview : SUBSET Messages, marks : SUBSET {"done", "failed"}]

\* A queue message of an archive: its handler's next step, the messages the
\* overview it starts from is about, the states of its two concurrent steps
\* and how often each was tried again.
SlotType ==
  [pc : {"free", "queued", "verify", "gate", "verifyPrev", "requeue", "extract",
         "busy", "done", "finalize", "ack", "raised"},
   base : SUBSET Messages,
   summary : {"todo", "ok", "error"},
   memory : {"todo", "applied", "ok", "error"},
   summaryTries : 0..MaxRetries, memoryTries : 0..MaxRetries]

Free   == [pc |-> "free", base |-> {}, summary |-> "todo", memory |-> "todo",
           summaryTries |-> 0, memoryTries |-> 0]
Queued == [Free EXCEPT !.pc = "queued"]

Phase1Steps == {"intent", "raw", "enqueue", "create", "rewrite", "ready"}

Arch(s) == s[1]

Existing == DOMAIN archives
Newest     == Len(archives)

\* _archive_terminal_state: .done is looked for first.
State(a) == CASE "done" \in archives[a].marks -> "completed"
              [] archives[a].marks = {"failed"} -> "failed"
              [] OTHER -> "pending"

\* tracker.has_work: some message of the archive's task is not acknowledged.
HasWork(a) == \E s \in Slots : Arch(s) = a /\ slots[s] # Free

\* The slot that the next message queued for archive a takes.
Vacant(s, a) == Arch(s) = a /\ slots[s] = Free /\ \A k \in 1..(s[2] - 1) : slots[<<a, k>>] # Free

\* Something may still go wrong.
Trouble == crashes + faults + swallowed + blank + Cardinality(cancelled) < MaxTroubles

Marked(a, mark) == [archives EXCEPT ![a].marks = @ \cup {mark}]

Init ==
  /\ root = <<>> /\ archives = <<>> /\ commit = "idle"
  /\ slots = [s \in Slots |-> Free]
  /\ cancelled = {} /\ unwinding = {}
  /\ sent = {} /\ taken = [m \in Messages |-> 0]
  /\ redone = [m \in Messages |-> 0] /\ blank = 0
  /\ crashes = 0 /\ faults = 0 /\ swallowed = 0

-----------------------------------------------------------------------------
(* Appending.                                                              *)

\* Wrong variant: only the live messages are looked at.
DeliveredLive == ToSet(root)

\* Wrong variant: only the archives are looked at.
DeliveredArchived == UNION {ToSet(archives[a].archived) : a \in {b \in Existing : archives[b].raw}}

\* The ids a delivery is compared with: the live ones and those of every
\* archive, failed or not.  The look-up raises at an archive without a raw file.
Delivered == ToSet(root) \cup UNION {ToSet(archives[a].archived) : a \in {b \in Existing : archives[b].raw}}

\* Wrong variant: appending does not take the session's lock.
Append1Unlocked(m) ==
  /\ m = Cardinality(sent) + 1 \/ (m \in sent /\ \A a \in Existing : archives[a].raw)
  /\ m \notin Delivered
  /\ root' = Append(root, m)
  /\ sent' = sent \cup {m}
  /\ UNCHANGED <<archives, commit, slots, cancelled, unwinding, taken, redone, blank, troubles>>

\* add_message: the client's next message, or one with a delivery id that it
\* sends again because it did not see the answer; a message delivered before is
\* dropped.
Append1(m) ==
  /\ commit = "idle"
  /\ m = Cardinality(sent) + 1 \/ (m \in sent /\ \A a \in Existing : archives[a].raw)
  /\ m \notin Delivered
  /\ root' = Append(root, m)
  /\ sent' = sent \cup {m}
  /\ UNCHANGED <<archives, commit, slots, cancelled, unwinding, taken, redone, blank, troubles>>

-----------------------------------------------------------------------------
(* Phase 1.                                                                *)

\* The lock is taken, the root read again and split by count; the archive's
\* directory, the first free one, is made.  An empty head ends the commit at once
\* ("skipped").
BeginCommit(keep) ==
  LET split == IF keep < Len(root) THEN Len(root) - keep ELSE 0 IN
  /\ commit = "idle" /\ Newest < ArchiveCount
  /\ split > 0
  /\ archives' = Append(archives,
       [intent |-> FALSE, ready |-> FALSE, archived |-> SubSeq(root, 1, split),
        retained |-> SubSeq(root, split + 1, Len(root)), raw |-> FALSE,
        recorded |-> FALSE, overview |-> {}, marks |-> {}])
  /\ commit' = "intent"
  /\ UNCHANGED <<root, slots, cancelled, unwinding, history, troubles>>

\* .meta.json is the second store call: the intent is durable before the raw
\* file is written.
WriteIntent ==
  /\ commit = "intent"
  /\ archives' = [archives EXCEPT ![Newest].intent = TRUE]
  /\ commit' = "raw"
  /\ UNCHANGED <<root, slots, cancelled, unwinding, history, troubles>>

WriteRaw ==
  /\ commit = "raw"
  /\ archives' = [archives EXCEPT ![Newest].raw = TRUE]
  /\ commit' = "enqueue"
  /\ UNCHANGED <<root, slots, cancelled, unwinding, history, troubles>>

Enqueue ==
  /\ commit = "enqueue"
  /\ \E s \in Slots : Vacant(s, Newest) /\ slots' = [slots EXCEPT ![s] = Queued]
  /\ commit' = "create"
  /\ UNCHANGED <<root, archives, cancelled, unwinding, history, troubles>>

\* TaskTracker.create: from here on the task can be cancelled.
CreateTask ==
  /\ commit = "create"
  /\ commit' = "rewrite"
  /\ UNCHANGED <<root, archives, slots, cancelled, unwinding, history, troubles>>

Rewrite ==
  /\ commit = "rewrite"
  /\ root' = archives[Newest].retained
  /\ commit' = "ready"
  /\ UNCHANGED <<archives, slots, cancelled, unwinding, history, troubles>>

\* The session's .meta.json is saved, then "phase1" of the archive's.
PublishReady ==
  /\ commit = "ready"
  /\ archives' = [archives EXCEPT ![Newest].ready = TRUE]
  /\ commit' = "idle"
  /\ UNCHANGED <<root, slots, cancelled, unwinding, history, troubles>>

\* Some call of Phase 1 raises: the archive is marked, the error is raised to
\* the caller and the lock released.  What reached the disk stays as it is.
FailCommit ==
  /\ commit # "idle" /\ Trouble
  /\ archives' = Marked(Newest, "failed")
  /\ commit' = "idle"
  /\ faults' = faults + 1
  /\ UNCHANGED <<root, slots, cancelled, unwinding, history, crashes, swallowed>>

\* Writing that marker raises as well, and this error is only logged.
FailUnmarked ==
  /\ commit # "idle"
  /\ crashes + faults + swallowed + blank + Cardinality(cancelled) + 2 <= MaxTroubles
  /\ commit' = "idle"
  /\ faults' = faults + 1 /\ swallowed' = swallowed + 1
  /\ UNCHANGED <<root, archives, slots, cancelled, unwinding, history, crashes>>

-----------------------------------------------------------------------------
(* Phase 2.                                                                *)

Goto(s, pc) == slots' = [slots EXCEPT ![s].pc = pc]

At(s, pc) == slots[s].pc = pc

\* process_dequeued and the head of resume_queued_commit: a cancelled task is
\* only finalised; a terminal archive only ends the task; an archive without
\* "phase1" counts as one of an older version, and as ready.
Dequeue(s) ==
  /\ At(s, "queued")
  /\ Goto(s, IF Arch(s) \in cancelled THEN "finalize"
             ELSE IF State(Arch(s)) # "pending" THEN "ack"
             ELSE IF archives[Arch(s)].ready \/ ~archives[Arch(s)].intent THEN "gate" ELSE "verify")
  /\ UNCHANGED <<root, archives, commit, cancelled, unwinding, history, troubles>>

\* on_cancelled -> finalize_cancelled_commit, without the session's lock.
Finalize(s) ==
  /\ At(s, "finalize")
  /\ archives' = Marked(Arch(s), "failed")
  /\ Goto(s, "ack")
  /\ UNCHANGED <<root, commit, cancelled, unwinding, history, troubles>>

\* Whether the root shows that the archive's rewrite took place.
Applied(a) ==
  LET kept == archives[a].retained IN
  /\ Len(kept) <= Len(root) /\ SubSeq(root, 1, Len(kept)) = kept
  /\ (ToSet(archives[a].archived) \ ToSet(kept)) \cap ToSet(root) = {}

\* What _ensure_phase1_ready is asked for.
Ready(a) == archives[a].ready

\* Wrong variant: .failed.json is not looked for again once the lock is held.
VerifiedBlind(a) ==
  IF Ready(a) THEN archives
  ELSE IF archives[a].intent /\ HasWork(a) /\ Applied(a) THEN [archives EXCEPT ![a].ready = TRUE]
  ELSE Marked(a, "failed")

\* _ensure_phase1_ready once it holds the lock.
Verified(a) ==
  IF Ready(a) \/ "failed" \in archives[a].marks THEN archives
  ELSE IF archives[a].intent /\ HasWork(a) /\ Applied(a) THEN [archives EXCEPT ![a].ready = TRUE]
  ELSE Marked(a, "failed")

\* The handler's own archive: not ready means that it failed.
Verify(s) ==
  /\ At(s, "verify") /\ commit = "idle"
  /\ archives' = Verified(Arch(s))
  /\ Goto(s, IF archives'[Arch(s)].ready THEN "gate" ELSE "ack")
  /\ UNCHANGED <<root, commit, cancelled, unwinding, history, troubles>>

\* Wrong variant: the predecessor is not waited for.
GateOpen(s) ==
  /\ At(s, "gate") /\ Goto(s, "extract")
  /\ UNCHANGED <<root, archives, commit, cancelled, unwinding, history, troubles>>

\* Wrong variant: a predecessor whose message is gone is waited for as well.
GatePatient(s) ==
  LET prev == Arch(s) - 1 IN
  /\ At(s, "gate")
  /\ Goto(s, IF prev = 0 \/ (prev > 0 /\ State(prev) # "pending") THEN "extract"
             ELSE IF Ready(prev) \/ ~archives[prev].intent THEN "requeue" ELSE "verifyPrev")
  /\ UNCHANGED <<root, archives, commit, cancelled, unwinding, history, troubles>>

\* _can_run_archive: the direct predecessor must be terminal.  One without a
\* message left is given up, one still preparing is verified first; one without
\* "phase1", or without the task in it, is waited for.
Gate(s) ==
  LET prev    == Arch(s) - 1
      waiting == prev > 0 /\ State(prev) = "pending"
      known   == waiting /\ archives[prev].intent IN
  /\ At(s, "gate")
  /\ \/ /\ ~waiting
        /\ Goto(s, "extract") /\ UNCHANGED archives
     \/ /\ waiting /\ ~known
        /\ Goto(s, "requeue") /\ UNCHANGED archives
     \/ /\ known /\ ~Ready(prev)
        /\ Goto(s, "verifyPrev") /\ UNCHANGED archives
     \/ /\ known /\ Ready(prev) /\ HasWork(prev)
        /\ Goto(s, "requeue") /\ UNCHANGED archives
     \/ /\ known /\ Ready(prev) /\ ~HasWork(prev)
        /\ Goto(s, "extract") /\ archives' = Marked(prev, "failed")
  /\ UNCHANGED <<root, commit, cancelled, unwinding, history, troubles>>

VerifyPrev(s) ==
  LET prev == Arch(s) - 1 IN
  /\ At(s, "verifyPrev") /\ commit = "idle"
  /\ archives' = Verified(prev)
  /\ Goto(s, IF archives'[prev].ready THEN "requeue" ELSE "extract")
  /\ UNCHANGED <<root, commit, cancelled, unwinding, history, troubles>>

\* The message is queued again before the old one is acknowledged.  When the
\* bound on the messages is reached, nothing comes between the two.
Requeue(s) ==
  /\ At(s, "requeue")
  /\ \/ \E t \in Slots :
          Vacant(t, Arch(s)) /\ slots' = [slots EXCEPT ![t] = Queued, ![s].pc = "ack"]
     \/ /\ \A t \in Slots : ~Vacant(t, Arch(s))
        /\ slots' = [slots EXCEPT ![s] = Queued]
  /\ UNCHANGED <<root, archives, commit, cancelled, unwinding, history, troubles>>

\* The overview of the newest completed archive before a that has one, or nothing.
Base(a) ==
  LET done == {b \in Existing : b < a /\ State(b) = "completed" /\ archives[b].overview # {}} IN
  IF done = {} THEN {} ELSE archives[CHOOSE b \in done : \A c \in done : c <= b].overview

\* The archive's messages and its recorded step are read, the two concurrent
\* steps started.  An archive without messages fails.
StartExtract(s) ==
  LET a == Arch(s) IN
  /\ At(s, "extract")
  /\ \/ /\ archives[a].raw
        /\ slots' = [slots EXCEPT ![s].pc = "busy", ![s].base = Base(a),
                                  ![s].memory = IF archives[a].recorded THEN "ok" ELSE "todo"]
        /\ UNCHANGED archives
     \/ /\ ~archives[a].raw
        /\ archives' = Marked(a, "failed")
        /\ Goto(s, "ack")
  /\ UNCHANGED <<root, commit, cancelled, unwinding, history, troubles>>

\* What the overview that the handler writes is about.
Summary(s) == ToSet(archives[Arch(s)].archived) \cup slots[s].base

\* _run_archive_summary: an overview is written, unless the summary came out
\* empty or Working Memory is switched off.
Summarize(s) ==
  /\ At(s, "busy") /\ slots[s].summary = "todo"
  /\ \/ archives' = [archives EXCEPT ![Arch(s)].overview = Summary(s)] /\ UNCHANGED blank
     \/ Trouble /\ UNCHANGED archives /\ blank' = blank + 1
  /\ slots' = [slots EXCEPT ![s].summary = "ok"]
  /\ UNCHANGED <<root, commit, cancelled, unwinding, sent, taken, redone, troubles>>

\* extract_long_term_memories: user memories are written; training follows ...
ExtractMemories(s) ==
  LET these == ToSet(archives[Arch(s)].archived) IN
  /\ At(s, "busy") /\ slots[s].memory = "todo"
  /\ slots' = [slots EXCEPT ![s].memory = "applied"]
  /\ taken' = [m \in Messages |-> IF m \in these THEN taken[m] + 1 ELSE taken[m]]
  /\ UNCHANGED <<root, archives, commit, cancelled, unwinding, sent, redone, blank, troubles>>

\* ... and then the step is recorded in the archive's .meta.json.
RecordMemories(s) ==
  /\ At(s, "busy") /\ slots[s].memory = "applied"
  /\ slots' = [slots EXCEPT ![s].memory = "ok"]
  /\ archives' = [archives EXCEPT ![Arch(s)].recorded = TRUE]
  /\ UNCHANGED <<root, commit, cancelled, unwinding, history, troubles>>

\* An attempt of the summary raises, before or after the overview is written:
\* retry_async starts another one, or the error is final.
SummaryFails(s) ==
  /\ At(s, "busy") /\ slots[s].summary = "todo" /\ Trouble
  /\ \/ slots[s].summaryTries < MaxRetries
        /\ slots' = [slots EXCEPT ![s].summaryTries = @ + 1]
     \/ slots' = [slots EXCEPT ![s].summary = "error"]
  /\ \/ UNCHANGED archives
     \/ archives' = [archives EXCEPT ![Arch(s)].overview = Summary(s)]
  /\ faults' = faults + 1
  /\ UNCHANGED <<root, commit, cancelled, unwinding, history, crashes, swallowed>>

\* An attempt of the memory step raises before or after the user memories are
\* written.  The next attempt starts from the beginning: it writes them again.
MemoryRetried(s) ==
  LET these == ToSet(archives[Arch(s)].archived) IN
  /\ At(s, "busy") /\ slots[s].memory \in {"todo", "applied"} /\ Trouble
  /\ slots[s].memoryTries < MaxRetries
  /\ slots' = [slots EXCEPT ![s].memory = "todo", ![s].memoryTries = @ + 1]
  /\ redone' = [m \in Messages |-> IF slots[s].memory = "applied" /\ m \in these
                                   THEN redone[m] + 1 ELSE redone[m]]
  /\ faults' = faults + 1
  /\ UNCHANGED <<root, archives, commit, cancelled, unwinding, sent, taken, blank, crashes, swallowed>>

\* The error is not transient, or the last attempt's, or that of the recording.
MemoryFails(s) ==
  /\ At(s, "busy") /\ slots[s].memory \in {"todo", "applied"} /\ Trouble
  /\ slots' = [slots EXCEPT ![s].memory = "error"]
  /\ faults' = faults + 1
  /\ UNCHANGED <<root, archives, commit, cancelled, unwinding, history, crashes, swallowed>>

\* asyncio.gather has both results: any error fails the archive.
Gathered(s) ==
  LET ends == {slots[s].summary, slots[s].memory} IN
  /\ At(s, "busy") /\ ends \subseteq {"ok", "error"}
  /\ IF "error" \in ends
     THEN archives' = Marked(Arch(s), "failed") /\ Goto(s, "ack")
     ELSE Goto(s, "done") /\ UNCHANGED archives
  /\ UNCHANGED <<root, commit, cancelled, unwinding, history, troubles>>

\* _merge_and_save_commit_meta takes the session's lock; .done comes last.
WriteDone(s) ==
  /\ At(s, "done") /\ commit = "idle"
  /\ archives' = Marked(Arch(s), "done")
  /\ Goto(s, "ack")
  /\ UNCHANGED <<root, commit, cancelled, unwinding, history, troubles>>

\* A call before or after the two steps raises (the lock times out, a write
\* fails): the archive is marked failed, beside .done when that was written.
FailRun(s) ==
  /\ slots[s].pc \in {"extract", "done"} /\ Trouble
  /\ \/ archives' = Marked(Arch(s), "failed")
     \/ /\ At(s, "done") /\ commit = "idle"
        /\ archives' = [archives EXCEPT ![Arch(s)].marks = {"done", "failed"}]
  /\ Goto(s, "ack")
  /\ faults' = faults + 1
  /\ UNCHANGED <<root, commit, cancelled, unwinding, history, crashes, swallowed>>

\* An error outside the extraction leaves the handler: the message is not
\* acknowledged and waits for the next start of the process.
Raise(s) ==
  /\ slots[s].pc \in {"verify", "gate", "verifyPrev", "requeue", "extract", "finalize"}
  /\ Trouble
  /\ Goto(s, "raised")
  /\ faults' = faults + 1
  /\ UNCHANGED <<root, archives, commit, cancelled, unwinding, history, crashes, swallowed>>

Ack(s) ==
  /\ At(s, "ack")
  /\ slots' = [slots EXCEPT ![s] = Free]
  /\ UNCHANGED <<root, archives, commit, cancelled, unwinding, history, troubles>>

-----------------------------------------------------------------------------
(* A read of an archive's .meta.json fails: _read_archive_meta returns {}, and *)
(* _merge_archive_meta writes the file without what it could not read.      *)

Misread == Trouble /\ swallowed' = swallowed + 1

\* resume_queued_commit takes the archive for one of an older version.
MisreadHead(s) ==
  /\ At(s, "queued") /\ Arch(s) \notin cancelled /\ State(Arch(s)) = "pending" /\ Misread
  /\ Goto(s, "gate")
  /\ UNCHANGED <<root, archives, commit, cancelled, unwinding, history, crashes, faults>>

\* Under the lock there is no task to look for, or the ready marker that is
\* written over the recovered Phase 1 holds nothing else.
MisreadVerify(s) ==
  LET a == Arch(s) IN
  /\ At(s, "verify") /\ commit = "idle" /\ Misread
  /\ \/ archives' = Marked(a, "failed") /\ Goto(s, "ack")
     \/ /\ ~Ready(a) /\ Verified(a)[a].ready
        /\ archives' = [archives EXCEPT ![a].ready = TRUE, ![a].intent = FALSE]
        /\ Goto(s, "gate")
  /\ UNCHANGED <<root, commit, cancelled, unwinding, history, crashes, faults>>

\* _can_run_archive finds no "phase1" and waits; or the read within the lock
\* fails, and the predecessor is given up.
MisreadPrev(s) ==
  LET prev == Arch(s) - 1 IN
  /\ Misread
  /\ \/ /\ At(s, "gate") /\ prev > 0 /\ State(prev) = "pending"
        /\ Goto(s, "requeue") /\ UNCHANGED archives
     \/ /\ At(s, "verifyPrev")
        /\ Goto(s, "requeue") /\ UNCHANGED archives
     \/ /\ At(s, "verifyPrev") /\ commit = "idle"
        /\ Goto(s, "extract") /\ archives' = Marked(prev, "failed")
     \/ /\ At(s, "verifyPrev") /\ commit = "idle" /\ ~Ready(prev) /\ Verified(prev)[prev].ready
        /\ archives' = [archives EXCEPT ![prev].ready = TRUE, ![prev].intent = FALSE]
        /\ Goto(s, "requeue")
  /\ UNCHANGED <<root, commit, cancelled, unwinding, history, crashes, faults>>

\* The recorded step is not seen.
MisreadRecord(s) ==
  LET a == Arch(s) IN
  /\ At(s, "extract") /\ archives[a].raw /\ archives[a].recorded /\ Misread
  /\ slots' = [slots EXCEPT ![s].pc = "busy", ![s].base = Base(a), ![s].memory = "todo"]
  /\ UNCHANGED <<root, archives, commit, cancelled, unwinding, history, crashes, faults>>

\* The merge at the end of one of the two steps loses "phase1", and that of the
\* summary the recorded step as well.
MisreadMerge(s) ==
  LET a == Arch(s) IN
  /\ At(s, "busy") /\ Misread
  /\ \/ /\ slots[s].summary = "todo"
        /\ archives' = [archives EXCEPT ![a].overview = Summary(s), ![a].intent = FALSE,
                                        ![a].ready = FALSE, ![a].recorded = FALSE]
        /\ slots' = [slots EXCEPT ![s].summary = "ok"]
     \/ /\ slots[s].memory = "applied"
        /\ archives' = [archives EXCEPT ![a].recorded = TRUE, ![a].intent = FALSE, ![a].ready = FALSE]
        /\ slots' = [slots EXCEPT ![s].memory = "ok"]
  /\ UNCHANGED <<root, commit, cancelled, unwinding, history, crashes, faults>>

\* Phase 1 publishes a ready marker without the task and the lists.
MisreadPublish ==
  /\ commit = "ready" /\ Misread
  /\ archives' = [archives EXCEPT ![Newest].ready = TRUE, ![Newest].intent = FALSE]
  /\ commit' = "idle"
  /\ UNCHANGED <<root, slots, cancelled, unwinding, history, crashes, faults>>

-----------------------------------------------------------------------------
(* Cancellation and restart.                                               *)

Running == {"verify", "gate", "verifyPrev", "requeue", "extract", "busy", "done"}

\* TaskTracker.cancel: the request is recorded and the running handlers are
\* interrupted.  The worker acknowledges the message at once; the coroutine on
\* the service loop, if it is past the head of the extraction, still has to
\* write its marker.
Cancel(a) ==
  LET hit == {s \in Slots : Arch(s) = a /\ slots[s].pc \in Running} IN
  /\ a \in Existing /\ a \notin cancelled
  /\ Trouble
  /\ HasWork(a) /\ ~(a = Newest /\ commit = "create")
  /\ State(a) = "pending"
  /\ cancelled' = cancelled \cup {a}
  /\ slots' = [s \in Slots |-> IF s \in hit THEN Free ELSE slots[s]]
  /\ unwinding' = IF \E s \in hit : slots[s].pc \in {"busy", "done"}
                  THEN unwinding \cup {a} ELSE unwinding
  /\ UNCHANGED <<root, archives, commit, history, troubles>>

Unwind(a) ==
  /\ a \in unwinding
  /\ archives' = Marked(a, "failed")
  /\ unwinding' = unwinding \ {a}
  /\ UNCHANGED <<root, commit, slots, cancelled, history, troubles>>

Crash ==
  /\ Trouble
  /\ crashes' = crashes + 1
  /\ commit' = "idle" /\ unwinding' = {}
  /\ slots' = [s \in Slots |-> IF slots[s] = Free THEN Free ELSE Queued]
  /\ UNCHANGED <<root, archives, cancelled, history, faults, swallowed>>

-----------------------------------------------------------------------------

CommitStep ==
  \/ WriteIntent \/ WriteRaw \/ Enqueue \/ CreateTask \/ Rewrite \/ PublishReady

HandlerStep(s) ==
  \/ Dequeue(s) \/ Finalize(s) \/ Verify(s) \/ Gate(s) \/ VerifyPrev(s) \/ Requeue(s)
  \/ StartExtract(s) \/ Gathered(s) \/ WriteDone(s) \/ Ack(s)

SummaryStep(s) == Summarize(s)

MemoryStep(s) == ExtractMemories(s) \/ RecordMemories(s)

Fails(s) == SummaryFails(s) \/ MemoryRetried(s) \/ MemoryFails(s) \/ FailRun(s) \/ Raise(s)

Misreads(s) ==
  \/ MisreadHead(s) \/ MisreadVerify(s) \/ MisreadPrev(s)
  \/ MisreadRecord(s) \/ MisreadMerge(s)

Next ==
  \/ \E m \in Messages : Append1(m)
  \/ \E k \in Keeps : BeginCommit(k)
  \/ CommitStep \/ FailCommit \/ FailUnmarked \/ MisreadPublish
  \/ \E s \in Slots : HandlerStep(s) \/ SummaryStep(s) \/ MemoryStep(s)
                      \/ Fails(s) \/ Misreads(s)
  \/ \E a \in Archives : Cancel(a) \/ Unwind(a)
  \/ Crash

Spec == Init /\ [][Next]_vars

\* The coroutines run to their end once started; the workers poll the queue.
\* Requests, errors, cancellations and restarts are never obliged to happen.
FairSpec ==
  /\ Spec
  /\ WF_vars(CommitStep)
  /\ \A s \in Slots : WF_vars(HandlerStep(s) \/ SummaryStep(s) \/ MemoryStep(s))
  /\ WF_vars(\E a \in Archives : Unwind(a))

-----------------------------------------------------------------------------
(* Properties.                                                             *)

\* Every variable has its type, and no message is twice in the live
\* conversation.
TypeOK ==
  /\ root \in Seq(Messages) /\ IsInjective(root)
  /\ archives \in Seq(ArchiveType) /\ Newest <= ArchiveCount
  /\ commit \in {"idle"} \cup Phase1Steps
  /\ slots \in [Slots -> SlotType]
  /\ cancelled \subseteq Archives /\ unwinding \subseteq Archives
  /\ sent \subseteq Messages /\ taken \in [Messages -> Nat]
  /\ redone \in [Messages -> Nat] /\ blank \in Nat
  /\ crashes + faults + swallowed + blank + Cardinality(cancelled) <= MaxTroubles

RawOf(a) == IF archives[a].raw THEN ToSet(archives[a].archived) ELSE {}

\* No message that add_message accepted is ever lost: it is in the live
\* conversation or in the raw file of an archive, whatever Phase 1 was doing
\* when it failed, was cancelled or was cut off by a restart.
NothingLost == sent \subseteq ToSet(root) \cup UNION {RawOf(a) : a \in Existing}

\* The messages of an archive whose Phase 1 is published or recovered as ready
\* are not live any more: a later commit cannot archive them a second time.
\* Depends on the check of an interrupted Phase 1 and on the ids a repeated
\* delivery is compared with.  This is about retention by count: with a token
\* budget the anchor of a turn is archived and stays live on purpose.
ExtractedNotLive ==
  \A a \in Existing : archives[a].ready => ToSet(archives[a].archived) \cap ToSet(root) = {}

\* As long as the process is not restarted and no error is swallowed, memories
\* are written from a message at most once, and once more only for every attempt
\* of the memory step that raised after it had written them and was repeated:
\* whatever else fails, is requeued or cancelled, and however often the
\* conversation is committed again after an error.
ExtractedOnce ==
  crashes = 0 /\ swallowed = 0 => \A m \in Messages : taken[m] <= 1 + redone[m]

\* What _collect_session_context_components shows of the conversation: the
\* newest terminal archive's overview, the raw messages of the archives after
\* it and the live messages.
Visible ==
  LET ended == {a \in Existing : State(a) # "pending"}
      top   == IF ended = {} THEN 0 ELSE CHOOSE a \in ended : \A b \in ended : b <= a
  IN ToSet(root) \cup (UNION {RawOf(a) : a \in {b \in Existing : b > top}})
     \cup (IF top > 0 /\ State(top) = "completed" THEN archives[top].overview ELSE {})

\* As long as no archive has been marked as failed and none completed without
\* a new overview, a reader of the session sees every message, raw or summarised:
\* the summaries form one chain although up to eight workers process the archives,
\* and neither an interrupted commit nor a restart hides anything.  (An archive
\* completed with an empty summary does hide its messages: the reader stops at
\* it and shows neither its overview nor its raw file.  A failed marker does harm
\* even when .done is written beside it later: the next archive may have started
\* from the overview before.)
ContextComplete ==
  (\A a \in Existing : "failed" \notin archives[a].marks) /\ blank = 0 => sent \subseteq Visible

\* Recovery: "Root is authoritative and proves the rewrite completed."  Were it
\* so, two archives that Phase 2 extracts would never share a message.
ArchivesDisjoint ==
  \A a, b \in Existing :
    a # b /\ archives[a].ready /\ archives[b].ready
      => ToSet(archives[a].archived) \cap ToSet(archives[b].archived) = {}

\* A pending archive that nobody works on and that _can_run_archive waits for all
\* the same: its .meta.json does not name the task.  A restart between the two
\* store calls that begin Phase 1 leaves such a directory.
Abandoned(a) ==
  /\ a \in Existing /\ State(a) = "pending" /\ ~archives[a].intent /\ ~HasWork(a)
  /\ a \notin unwinding /\ ~(a = Newest /\ commit # "idle")

\* Every queued archive becomes terminal, unless its own task is cancelled, a
\* handler of it or of an earlier archive raised and waits for a restart, or an
\* earlier archive was abandoned without "phase1": then it is requeued for ever.
\* An archive that waits for any other predecessor does not wait for ever.
QueuedEnds ==
  \A a \in Archives :
    (a \in Existing /\ HasWork(a))
      ~> (\/ a \in Existing /\ State(a) # "pending"
          \/ a \in cancelled
          \/ \E s \in Slots : At(s, "raised") /\ Arch(s) <= a
          \/ \E b \in Archives : b < a /\ Abandoned(b))
=============================================================================
