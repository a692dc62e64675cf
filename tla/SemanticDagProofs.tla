------------------------- MODULE SemanticDagProofs -------------------------
(***************************************************************************)
(* SemanticDag implements BottomUp for every tree, number of workers and   *)
(* choice of mode, when the caller is cancelled at most once.              *)
(***************************************************************************)
EXTENDS SemanticDag, FiniteSetTheorems, TLAPS

EntryWork(e) == IF e \in Files THEN FileWork(e) ELSE DirWork(e)

\* How far the work of each entry is, and what that says about the entry.
FileInv ==
    \A f \in Files :
      /\ stage[FileWork(f)] \in {"none", "queued", "summary", "vector", "over"}
      /\ stage[FileWork(f)] # "none" => f \in Required
      /\ stage[FileWork(f)] # "over" => f \notin finished

DirInv ==
    \A d \in Dirs :
      /\ stage[DirWork(d)] \in {"none", "queued", "list", "over"}
      /\ stage[DirWork(d)] = "list" => d \in parents
      /\ d # Root /\ ~Recursive => stage[DirWork(d)] = "none"
      /\ d \in nodes => d \in parents
      /\ stage[DirWork(d)] # "over" =>
           /\ d \notin finished /\ d \notin nodes /\ stage[Overview(d)] = "none"
           /\ \A e \in Kids(d) : stage[EntryWork(e)] = "none"

OverviewInv ==
    \A d \in Dirs :
      /\ stage[Overview(d)] \in {"none", "queued", "generate", "write", "dirvector", "over"}
      /\ stage[Overview(d)] # "none" => d \in scheduled
      /\ stage[Overview(d)] \notin {"none", "over"} =>
           d \in nodes /\ d \notin finished /\ Kids(d) \subseteq finished

\* The directories above an entry that has begun and not reported wait for it.
AncInv ==
    \A e \in Entries : stage[EntryWork(e)] # "none" /\ e \notin finished =>
      \A a \in Anc[e] : a \in nodes /\ a \notin finished

CountInv == \A d \in nodes : pending[d] = Cardinality(Kids(d) \ finished)

RunInv ==
    /\ run # "waiting" => closed
    /\ run = "waiting" => result = "ok"
    /\ run = "except" => result # "ok"
    /\ rootDone => failure \/ Root \in finished
    /\ run = "finally" /\ result = "ok" => Root \in finished
    /\ run = "finally" /\ cancels = 0 => Idle
    /\ run = "over" => Idle

Shape == FileInv /\ DirInv /\ OverviewInv /\ AncInv /\ CountInv

Inv == TypeOK /\ Shape /\ RunInv

-----------------------------------------------------------------------------
(* Works and trees *)

\* What the constructors of works give, so that records need not be opened again.
LEMMA WorkForms ==
  /\ \A d \in Dirs : /\ DirWork(d) \in Works /\ DirWork(d).kind = "dir" /\ DirWork(d).node = d
                     /\ Overview(d) \in Works /\ Overview(d).kind = "overview" /\ Overview(d).node = d
  /\ \A f \in Files : FileWork(f) \in Works /\ FileWork(f).kind = "file" /\ FileWork(f).node = f
  /\ \A w \in Works :
       \/ w.kind = "dir" /\ w.node \in Dirs /\ w = DirWork(w.node)
       \/ w.kind = "overview" /\ w.node \in Dirs /\ w = Overview(w.node)
       \/ w.kind = "file" /\ w.node \in Files /\ w = FileWork(w.node)
  BY DEF Works, DirWork, FileWork, Overview

LEMMA KidsFacts ==
  ASSUME NEW d \in Dirs
  PROVE  /\ Kids(d) \subseteq Entries \ {Root}
         /\ \A e \in Kids(d) : Parent[e] = d /\ d \in Anc[e] /\ Anc[e] = Anc[d] \cup {d}
         /\ IsFiniteSet(Kids(d)) /\ Cardinality(Kids(d)) \in Nat
  <1>1. Kids(d) \subseteq Entries \ {Root} /\ \A e \in Kids(d) : Parent[e] = d
    BY TreeAssumption DEF Kids, Entries
  <1>2. \A e \in Kids(d) : d \in Anc[e] /\ Anc[e] = Anc[d] \cup {d}
    BY <1>1, TreeAssumption
  <1>3. IsFiniteSet(Kids(d))
    <2>1. IsFiniteSet(Dirs \cup Files)
      BY TreeAssumption, FS_Union
    <2> QED BY <1>1, <2>1, FS_Subset DEF Entries
  <1> QED BY <1>1, <1>2, <1>3, FS_CardinalityType

LEMMA KidOf ==
  ASSUME NEW e \in Entries \ {Root}, e \in Files => e \in Required, e \in Dirs => Recursive
  PROVE  Parent[e] \in Dirs /\ Parent[e] \in Anc[e] /\ e \in Kids(Parent[e])
  BY TreeAssumption DEF Kids, Entries

LEMMA EntryWorkForms ==
  ASSUME NEW e \in Entries
  PROVE  /\ EntryWork(e) \in Works /\ EntryWork(e).node = e
         /\ EntryWork(e).kind \in {"dir", "file"}
         /\ e \in Files => EntryWork(e) = FileWork(e)
         /\ e \in Dirs => EntryWork(e) = DirWork(e)
  BY WorkForms, TreeAssumption DEF EntryWork, Entries

LEMMA FiniteWorks ==
  /\ IsFiniteSet(Works)
  /\ \A S \in SUBSET Works : IsFiniteSet(S) /\ Cardinality(S) \in Nat
  <1> DEFINE K == {"dir", "overview", "file"}
             f == [w \in Works |-> <<w.kind, w.node>>]
  <1>1. IsFiniteSet(K)
    <2>1. IsFiniteSet({"dir"} \cup {"overview"}) /\ K = ({"dir"} \cup {"overview"}) \cup {"file"}
      BY FS_Singleton, FS_AddElement
    <2> QED BY <2>1, FS_AddElement
  <1>2. IsFiniteSet(Entries)
    BY TreeAssumption, FS_Union DEF Entries
  <1>3. IsFiniteSet(K \X Entries)
    BY <1>1, <1>2, FS_Product
  <1>4. f \in Injection(Works, K \X Entries)
    <2>1. ASSUME NEW w \in Works PROVE f[w] \in K \X Entries
      BY WorkForms DEF Entries
    <2>2. ASSUME NEW v \in Works, NEW w \in Works, f[v] = f[w] PROVE v = w
      <3>1. v.kind = w.kind /\ v.node = w.node
        BY <2>2
      <3> QED BY <3>1, WorkForms
    <2>3. f \in [Works -> K \X Entries]
      BY <2>1
    <2> HIDE DEF f
    <2> QED BY <2>2, <2>3 DEF Injection, IsInjective
  <1>5. IsFiniteSet(Works)
    BY <1>3, <1>4, FS_Injection
  <1> QED BY <1>5, FS_Subset, FS_CardinalityType

-----------------------------------------------------------------------------
(* Type correctness *)

StatsType == [pending : Nat, in_progress : Nat, done : Nat]

LEMMA StartedType ==
  ASSUME NEW st \in StatsType, NEW m \in Nat, NEW n \in Nat, m = Down(st.pending), n = st.in_progress + 1
  PROVE  Started(st) \in StatsType
  <1>1. Started(st) = [st EXCEPT !.pending = m, !.in_progress = n]
    BY DEF Started, StatsType
  <1>2. [st EXCEPT !.pending = m, !.in_progress = n] \in StatsType
    BY DEF StatsType
  <1> QED BY <1>1, <1>2

LEMMA WaitingType ==
  ASSUME NEW st \in StatsType, NEW m \in Nat, NEW n \in Nat, m = st.pending + 1, n = Down(st.in_progress)
  PROVE  Waiting(st) \in StatsType
  <1>1. Waiting(st) = [st EXCEPT !.pending = m, !.in_progress = n]
    BY DEF Waiting, StatsType
  <1>2. [st EXCEPT !.pending = m, !.in_progress = n] \in StatsType
    BY DEF StatsType
  <1> QED BY <1>1, <1>2

LEMMA DoneType ==
  ASSUME NEW st \in StatsType, NEW m \in Nat, NEW n \in Nat, m = st.done + 1, n = Down(st.in_progress)
  PROVE  Done(st) \in StatsType
  <1>1. Done(st) = [st EXCEPT !.done = m, !.in_progress = n]
    BY DEF Done, StatsType
  <1>2. [st EXCEPT !.done = m, !.in_progress = n] \in StatsType
    BY DEF StatsType
  <1> QED BY <1>1, <1>2

LEMMA StatsTypes ==
  ASSUME NEW st \in StatsType, NEW n \in Nat
  PROVE  /\ Scheduled(st, n) \in StatsType /\ Started(st) \in StatsType
         /\ Waiting(st) \in StatsType /\ Done(st) \in StatsType
  <1>1. st.pending \in Nat /\ st.in_progress \in Nat /\ st.done \in Nat
    BY DEF StatsType
  <1>2. /\ Down(st.pending) \in Nat /\ Down(st.in_progress) \in Nat
        /\ st.pending + 1 \in Nat /\ st.in_progress + 1 \in Nat /\ st.done + 1 \in Nat
    BY <1>1 DEF Down
  <1>3. Scheduled(st, n) \in StatsType
    BY <1>1 DEF StatsType, Scheduled
  <1> QED BY <1>2, <1>3, StartedType, WaitingType, DoneType

\* What a worker's submission does to the stages of the works.
LEMMA SubmitEffect ==
  ASSUME NEW w, NEW s, NEW new, Submit(w, s, new)
  PROVE  \E q \in SUBSET new :
           /\ closed => q = {}
           /\ ~closed => q = new
           /\ stage' = [x \in Works |-> IF x = w THEN s ELSE IF x \in q THEN "queued" ELSE stage[x]]
  BY DEF Submit

LEMMA SubmitType ==
  ASSUME TypeOK, NEW w \in Works, NEW s \in Stages, NEW new \in SUBSET Works, Submit(w, s, new)
  PROVE  stage' \in [Works -> Stages] /\ workers' \in 0 .. MaxWorkers
  <1>1. stage' \in [Works -> Stages]
    BY DEF TypeOK, Submit, Stages
  <1>2. PICK q \in SUBSET Works :
          workers' = IF q = {} THEN workers ELSE Ensured(workers, Cardinality((Queued \ {w}) \cup q))
    BY DEF Submit
  <1>3. Cardinality((Queued \ {w}) \cup q) \in Nat
    BY FiniteWorks DEF Queued
  <1> QED BY <1>1, <1>2, <1>3, ConfigAssumption DEF TypeOK, Ensured

\* The types of the variables that reports and ends of works change.
WorkTypes ==
  /\ stage \in [Works -> Stages] /\ workers \in 0 .. MaxWorkers
  /\ nodes \subseteq Dirs /\ parents \subseteq Dirs /\ scheduled \subseteq Dirs
  /\ pending \in [Dirs -> Int] /\ finished \subseteq Entries
  /\ closed \in BOOLEAN /\ failure \in BOOLEAN /\ rootDone \in BOOLEAN
  /\ stats \in StatsType

LEMMA ReportType ==
  ASSUME TypeOK, NEW w \in Works, NEW e \in Entries \ {Root}, NEW st \in StatsType, NEW gone,
         Report(w, e, st, gone)
  PROVE  WorkTypes'
  <1>1. Parent[e] \in Dirs /\ Overview(Parent[e]) \in Works
    BY TreeAssumption, WorkForms
  <1>2. stage' \in [Works -> Stages] /\ workers' \in 0 .. MaxWorkers
    <2>1. "over" \in Stages /\ {} \in SUBSET Works /\ {Overview(Parent[e])} \in SUBSET Works
      BY <1>1 DEF Stages
    <2>2. Submit(w, "over", {}) \/ Submit(w, "over", {Overview(Parent[e])})
      BY DEF Report
    <2> QED BY <2>1, <2>2, SubmitType
  <1>3. pending' \in [Dirs -> Int] /\ scheduled' \subseteq Dirs
    BY <1>1 DEF Report, TypeOK
  <1> QED BY <1>2, <1>3 DEF Report, TypeOK, WorkTypes

LEMMA RootReportType ==
  ASSUME TypeOK, NEW w \in Works, NEW d \in Dirs, NEW st \in StatsType, NEW gone,
         RootReport(w, d, st, gone)
  PROVE  WorkTypes'
  <1>1. stage' \in [Works -> Stages] /\ workers' \in 0 .. MaxWorkers
    <2>1. "over" \in Stages /\ {} \in SUBSET Works
      BY DEF Stages
    <2> QED BY <2>1, SubmitType DEF RootReport
  <1> QED BY <1>1 DEF RootReport, TypeOK, WorkTypes, Entries

LEMMA EndType ==
  ASSUME TypeOK, NEW w \in Works, NEW st \in StatsType, Drop(w, st) \/ Raise(w, st)
  PROVE  WorkTypes'
  <1>1. stage' \in [Works -> Stages] /\ workers' \in 0 .. MaxWorkers
    <2>1. "over" \in Stages /\ {} \in SUBSET Works
      BY DEF Stages
    <2> QED BY <2>1, SubmitType DEF Drop, Raise
  <1> QED BY <1>1 DEF Drop, Raise, fail, dag, TypeOK, WorkTypes

LEMMA StepType ==
  ASSUME TypeOK, NEW w \in Works, NEW s \in Stages, Step(w, s), stats' \in StatsType
  PROVE  WorkTypes'
  BY DEF Step, dag, TypeOK, WorkTypes

\* A file or a directory but the root reports about itself.
LEMMA OverviewDoneType ==
  ASSUME TypeOK, NEW w \in Works, w.node \in Dirs, OverviewDone(w)
  PROVE  WorkTypes'
  <1>1. Done(stats) \in StatsType
    BY StatsTypes DEF TypeOK, StatsType
  <1>2. CASE w.node = Root \/ w.node \notin parents
    BY <1>1, <1>2, RootReportType DEF OverviewDone
  <1>3. CASE ~(w.node = Root \/ w.node \notin parents)
    <2>1. w.node \in Entries \ {Root}
      BY <1>3 DEF Entries
    <2> QED BY <1>1, <1>3, <2>1, ReportType DEF OverviewDone
  <1> QED BY <1>2, <1>3

\* Where a work is, by what it is: needed already for the types of the reports.
LEMMA WorkType ==
  ASSUME TypeOK, DirInv, FileInv, OverviewInv, NEW w \in Works, Work(w)
  PROVE  WorkTypes' /\ UNCHANGED call
  <1>s. /\ stats \in StatsType /\ Started(stats) \in StatsType /\ Done(stats) \in StatsType
        /\ Waiting(stats) \in StatsType /\ Done(Started(stats)) \in StatsType
    <2>1. stats \in StatsType
      BY DEF TypeOK, StatsType
    <2>2. Started(stats) \in StatsType
      BY <2>1, StatsTypes
    <2> QED BY <2>1, <2>2, StatsTypes
  <1>f. /\ w.kind \in {"dir", "overview", "file"}
        /\ w.kind # "file" => w.node \in Dirs
        /\ w.kind = "file" => w.node \in Entries \ {Root}
    BY WorkForms, TreeAssumption DEF Entries
  <1>k. /\ stage[w] = "list" => w.kind = "dir"
        /\ stage[w] \in {"summary", "vector"} => w.kind = "file"
        /\ stage[w] \in {"generate", "write", "dirvector"} => w.kind = "overview"
    BY WorkForms DEF DirInv, FileInv, OverviewInv
  <1>0. UNCHANGED call
    BY DEF Work, Take, Listed, ListFails, Summarised, Vectorised, Generated, Written, DirVectorised
  <1>1. CASE Take(w)
    <2>1. CASE Drop(w, stats) \/ Drop(w, Done(Started(stats))) \/ Drop(w, Started(stats))
      BY <1>0, <1>s, <2>1, EndType
    <2>2. CASE \E s \in {"summary", "generate"} : Step(w, s) /\ stats' = Started(stats)
      BY <1>0, <1>s, <2>2, StepType DEF Stages
    <2>3. CASE RootReport(w, Root, Done(Started(stats)), {Root})
      BY <1>0, <1>s, <2>3, RootReportType, TreeAssumption
    <2>4. CASE /\ w.kind = "dir" /\ parents' = parents \cup {w.node}
               /\ stage' = [stage EXCEPT ![w] = "list"] /\ stats' = Started(stats)
               /\ UNCHANGED <<workers, nodes, pending, scheduled, finished, closed, failure, rootDone>>
      BY <1>0, <1>s, <1>f, <2>4 DEF TypeOK, WorkTypes, Stages
    <2>5. CASE /\ nodes' = nodes \ {w.node} /\ parents' = parents \ {w.node}
               /\ Submit(w, "over", {}) /\ stats' = Done(Started(stats))
               /\ UNCHANGED <<pending, scheduled, finished, closed, failure, rootDone>>
      <3>1. "over" \in Stages /\ {} \in SUBSET Works
        BY DEF Stages
      <3> QED BY <1>0, <1>s, <2>5, <3>1, SubmitType DEF TypeOK, WorkTypes
    <2> QED BY <1>1, <1>f, <2>1, <2>2, <2>3, <2>4, <2>5 DEF Take
  <1>2. CASE Listed(w)
    <2> DEFINE d == w.node
               new == IF Kids(d) = {} THEN {Overview(d)}
                      ELSE {IF e \in Files THEN FileWork(e) ELSE DirWork(e) : e \in Kids(d)}
    <2>1. d \in Dirs
      BY <1>2, <1>f, <1>k DEF Listed
    <2>2. new \in SUBSET Works /\ "over" \in Stages
      BY <2>1, KidsFacts, WorkForms DEF Entries, Stages
    <2>3. stage' \in [Works -> Stages] /\ workers' \in 0 .. MaxWorkers
      BY <1>2, <2>2, SubmitType DEF Listed
    <2>4. Cardinality(Kids(d)) \in Nat
      BY <2>1, KidsFacts
    <2>5. stats' \in StatsType
      BY <1>2, <1>s, <2>4, StatsTypes DEF Listed
    <2> QED BY <1>2, <2>1, <2>3, <2>4, <2>5 DEF Listed, TypeOK, WorkTypes
  <1>3. CASE ListFails(w)
    <2>1. w.node \in Dirs
      BY <1>3, <1>f, <1>k DEF ListFails
    <2>2. CASE w.node = Root
      BY <1>3, <1>s, <2>1, <2>2, RootReportType DEF ListFails
    <2>3. CASE w.node # Root
      BY <1>3, <1>s, <2>1, <2>3, ReportType DEF ListFails, Entries
    <2> QED BY <2>2, <2>3
  <1>4. CASE Summarised(w)
    <2>1. w.node \in Entries \ {Root} /\ "vector" \in Stages
      BY <1>4, <1>f, <1>k DEF Summarised, Stages
    <2> QED BY <1>4, <1>s, <2>1, EndType, StepType, ReportType DEF Summarised
  <1>5. CASE Vectorised(w)
    <2>1. w.node \in Entries \ {Root}
      BY <1>5, <1>f, <1>k DEF Vectorised
    <2> QED BY <1>5, <1>s, <2>1, EndType, ReportType DEF Vectorised
  <1>6. CASE Generated(w)
    <2>1. w.node \in Dirs /\ "write" \in Stages
      BY <1>6, <1>f, <1>k DEF Generated, Stages
    <2> QED BY <1>6, <1>s, <2>1, EndType, StepType, OverviewDoneType DEF Generated
  <1>7. CASE Written(w)
    <2>1. w.node \in Dirs /\ "dirvector" \in Stages
      BY <1>7, <1>f, <1>k DEF Written, Stages
    <2> QED BY <1>7, <1>s, <2>1, EndType, StepType, OverviewDoneType DEF Written
  <1>8. CASE DirVectorised(w)
    <2>1. w.node \in Dirs
      BY <1>8, <1>f, <1>k DEF DirVectorised
    <2> QED BY <1>8, <1>s, <2>1, EndType, OverviewDoneType DEF DirVectorised
  <1> QED BY <1>0, <1>1, <1>2, <1>3, <1>4, <1>5, <1>6, <1>7, <1>8 DEF Work

LEMMA TypeStep ==
  ASSUME TypeOK, DirInv, FileInv, OverviewInv, Next
  PROVE  TypeOK'
  <1>1. CASE \E w \in Works : Work(w)
    BY <1>1, WorkType DEF TypeOK, WorkTypes, StatsType, call
  <1>2. CASE WorkerExits
    <2>1. Cardinality(Running) \in Nat
      BY FiniteWorks DEF Running
    <2> QED BY <1>2, <2>1, ConfigAssumption DEF WorkerExits, TypeOK, dag, call
  <1>3. CASE RootWakes
    BY <1>3 DEF RootWakes, TypeOK, dag
  <1>4. CASE Drained
    BY <1>4 DEF Drained, TypeOK, dag
  <1>5. CASE Cancel
    <2>1. cancels' \in 0 .. MaxCancels
      BY <1>5, ConfigAssumption DEF Cancel, TypeOK
    <2>2. run' \in {"waiting", "except", "finally", "over"}
      BY <1>5 DEF Cancel, TypeOK
    <2> QED BY <1>5, <2>1, <2>2 DEF Cancel, TypeOK, dag
  <1> QED BY <1>1, <1>2, <1>3, <1>4, <1>5 DEF Next

-----------------------------------------------------------------------------
(* The shape of the work in progress *)

\* A work goes on, or ends without a report.
LEMMA MoveShape ==
  ASSUME TypeOK, Shape, NEW w \in Works, NEW s, stage[w] \notin {"none", "over"},
         w.kind = "dir" => s = "over",
         w.kind = "file" => s \in {"summary", "vector", "over"},
         w.kind = "overview" => s \in {"generate", "write", "dirvector", "over"},
         stage' = [stage EXCEPT ![w] = s], UNCHANGED dag
  PROVE  Shape'
  <1>1. FileInv'
    BY WorkForms DEF TypeOK, Shape, FileInv, dag
  <1>2. DirInv'
    BY WorkForms, KidsFacts, EntryWorkForms DEF TypeOK, Shape, DirInv, dag
  <1>3. OverviewInv'
    BY WorkForms DEF TypeOK, Shape, OverviewInv, dag
  <1>4. AncInv'
    BY EntryWorkForms DEF TypeOK, Shape, AncInv, dag
  <1>5. CountInv'
    BY DEF Shape, CountInv, dag, Kids
  <1> QED BY <1>1, <1>2, <1>3, <1>4, <1>5 DEF Shape

\* Work w of entry e is at its last step: e has not reported.
Last(w, e, gone) ==
  /\ e \notin finished /\ stage[EntryWork(e)] # "none"
  /\ stage[w] \notin {"none", "over"}
  /\ \/ w = EntryWork(e) /\ gone = {} /\ (e \in Dirs => stage[w] = "list")
     \/ e \in Dirs /\ w = Overview(e) /\ gone = {e}

\* Nothing below an entry at its last step is under way.
LEMMA NothingBelow ==
  ASSUME TypeOK, Shape, NEW w \in Works, NEW e \in Entries, NEW gone, Last(w, e, gone),
         NEW x \in Entries, stage[EntryWork(x)] # "none", x \notin finished
  PROVE  e \notin Anc[x]
  <1> SUFFICES ASSUME e \in Anc[x] PROVE FALSE
    OBVIOUS
  <1>1. e \in Dirs /\ x # Root
    BY TreeAssumption
  <1>2. PICK c \in (Anc[x] \cup {x}) \ {Root} : Parent[c] = e
    BY <1>1, TreeAssumption
  <1>3. c \in Entries \ {Root} /\ stage[EntryWork(c)] # "none" /\ c \notin finished
    <2>1. CASE c = x
      BY <1>1, <2>1
    <2>2. CASE c \in Anc[x]
      <3>1. c \in Dirs /\ c \in nodes /\ c \notin finished
        BY <2>2, TreeAssumption DEF Shape, AncInv
      <3>2. stage[DirWork(c)] = "over"
        BY <3>1 DEF Shape, DirInv
      <3> QED BY <1>2, <3>1, <3>2, EntryWorkForms DEF Entries
    <2> QED BY <1>2, <2>1, <2>2
  <1>4. c \in Kids(e)
    <2>1. c \in Files => c \in Required
      BY <1>3, EntryWorkForms DEF Shape, FileInv
    <2>2. c \in Dirs => Recursive
      BY <1>3, EntryWorkForms, ConfigAssumption DEF Shape, DirInv
    <2> QED BY <1>2, <1>3, <2>1, <2>2, KidOf
  <1>5. CASE stage[DirWork(e)] = "list"
    BY <1>1, <1>3, <1>4, <1>5 DEF Shape, DirInv
  <1>6. CASE w = Overview(e)
    BY <1>1, <1>3, <1>4, <1>6 DEF Shape, OverviewInv, Last
  <1> QED BY <1>1, <1>5, <1>6, EntryWorkForms DEF Last

\* An entry reports, and the overviews in q are scheduled.
Finishes(w, e, gone, q) ==
  /\ stage' = [x \in Works |-> IF x = w THEN "over" ELSE IF x \in q THEN "queued" ELSE stage[x]]
  /\ finished' = finished \cup {e} /\ nodes' = nodes \ gone /\ parents' = parents \ gone
  /\ scheduled \subseteq scheduled'
  /\ \A x \in q : \E p \in Dirs :
       /\ x = Overview(p) /\ p \in nodes /\ p \notin finished /\ p # e /\ Kids(p) \subseteq finished'
       /\ stage[x] = "none" /\ p \in scheduled'

LEMMA FinishShape ==
  ASSUME TypeOK, Shape, NEW w \in Works, NEW e \in Entries, NEW gone, NEW q, Last(w, e, gone),
         Finishes(w, e, gone, q)
  PROVE  FileInv' /\ DirInv' /\ OverviewInv' /\ AncInv'
  <1>1. /\ \A x \in Works : stage'[x] = IF x = w THEN "over" ELSE IF x \in q THEN "queued" ELSE stage[x]
        /\ \A x \in q : x.kind = "overview"
    BY WorkForms DEF Finishes
  <1>2. w.kind # "overview" => w = EntryWork(e) /\ gone = {}
    BY WorkForms, EntryWorkForms DEF Last, Entries
  <1>3. w.kind = "overview" => e \in Dirs /\ w = Overview(e) /\ gone = {e}
    BY EntryWorkForms DEF Last
  <1>4. FileInv'
    <2> SUFFICES ASSUME NEW f \in Files
                 PROVE  /\ stage'[FileWork(f)] \in {"none", "queued", "summary", "vector", "over"}
                        /\ stage'[FileWork(f)] # "none" => f \in Required
                        /\ stage'[FileWork(f)] # "over" => f \notin finished'
      BY DEF FileInv
    <2>1. f \in Entries /\ EntryWork(f) = FileWork(f) /\ FileWork(f) \in Works /\ FileWork(f).kind = "file"
      BY EntryWorkForms, WorkForms DEF Entries
    <2>2. CASE f = e
      <3>1. w = FileWork(f)
        BY <2>1, <2>2, <1>3, <1>2, TreeAssumption
      <3> QED BY <1>1, <2>1, <3>1 DEF Shape, FileInv, Last
    <2>3. CASE f # e
      <3>1. stage'[FileWork(f)] = "over" \/ stage'[FileWork(f)] = stage[FileWork(f)]
        BY <1>1, <2>1
      <3>2. w # FileWork(f)
        BY <2>1, <2>3, <1>2, WorkForms, EntryWorkForms
      <3>3. stage'[FileWork(f)] = stage[FileWork(f)]
        BY <1>1, <2>1, <3>2
      <3> QED BY <3>3, <2>3 DEF Shape, FileInv, Finishes
    <2> QED BY <2>2, <2>3
  <1>5. DirInv'
    <2> SUFFICES ASSUME NEW d \in Dirs
                 PROVE  /\ stage'[DirWork(d)] \in {"none", "queued", "list", "over"}
                        /\ stage'[DirWork(d)] = "list" => d \in parents'
                        /\ d # Root /\ ~Recursive => stage'[DirWork(d)] = "none"
                        /\ d \in nodes' => d \in parents'
                        /\ stage'[DirWork(d)] # "over" =>
                             /\ d \notin finished' /\ d \notin nodes' /\ stage'[Overview(d)] = "none"
                             /\ \A x \in Kids(d) : stage'[EntryWork(x)] = "none"
      BY DEF DirInv
    <2>1. /\ d \in Entries /\ EntryWork(d) = DirWork(d) /\ DirWork(d) \in Works /\ DirWork(d).kind = "dir"
          /\ Overview(d) \in Works /\ Overview(d).kind = "overview"
      BY EntryWorkForms, WorkForms DEF Entries
    <2>2. d \in nodes' => d \in parents'
      BY DEF Shape, DirInv, Finishes
    <2>3. CASE d = e
      <3>1. stage'[DirWork(d)] = "over" /\ (d # Root => Recursive)
        BY <1>1, <1>2, <1>3, <2>1, <2>3, ConfigAssumption DEF Shape, DirInv, OverviewInv, Last
      <3> QED BY <2>2, <3>1, ConfigAssumption
    <2>4. CASE d # e
      <3>1. w # DirWork(d) /\ w # Overview(d)
        BY <1>2, <1>3, <2>1, <2>4, EntryWorkForms, WorkForms
      <3>2. stage'[DirWork(d)] = stage[DirWork(d)]
        BY <1>1, <2>1, <3>1
      <3>3. stage[DirWork(d)] # "over" => stage'[Overview(d)] = "none"
        <4> SUFFICES ASSUME stage[DirWork(d)] # "over" PROVE stage'[Overview(d)] = "none"
          OBVIOUS
        <4>1. stage[Overview(d)] = "none" /\ d \notin nodes
          BY DEF Shape, DirInv
        <4>2. Overview(d) \notin q
          BY <4>1, WorkForms DEF Finishes
        <4> QED BY <1>1, <2>1, <3>1, <4>1, <4>2
      <3>4. ASSUME stage[DirWork(d)] # "over", NEW x \in Kids(d) PROVE stage'[EntryWork(x)] = "none"
        <4>1. x \in Entries /\ stage[EntryWork(x)] = "none"
          BY <3>4, KidsFacts DEF Shape, DirInv
        <4>2. EntryWork(x) \in Works /\ EntryWork(x).kind # "overview" /\ EntryWork(x) # w
          BY <4>1, EntryWorkForms DEF Last
        <4> QED BY <1>1, <4>1, <4>2
      <3> QED BY <2>2, <2>4, <1>2, <1>3, <3>2, <3>3, <3>4, WorkForms DEF Shape, DirInv, Finishes
    <2> QED BY <2>3, <2>4
  <1>6. OverviewInv'
    <2> SUFFICES ASSUME NEW d \in Dirs
                 PROVE  /\ stage'[Overview(d)] \in {"none", "queued", "generate", "write", "dirvector", "over"}
                        /\ stage'[Overview(d)] # "none" => d \in scheduled'
                        /\ stage'[Overview(d)] \notin {"none", "over"} =>
                             d \in nodes' /\ d \notin finished' /\ Kids(d) \subseteq finished'
      BY DEF OverviewInv, Kids
    <2>1. Overview(d) \in Works /\ Overview(d).kind = "overview" /\ Overview(d).node = d
      BY WorkForms
    <2>2. CASE w = Overview(d)
      BY <1>1, <2>1, <2>2 DEF Shape, OverviewInv, Last, Finishes
    <2>3. CASE w # Overview(d) /\ Overview(d) \in q
      <3>1. stage'[Overview(d)] = "queued"
        BY <1>1, <2>1, <2>3
      <3>2. d \in nodes /\ d \notin finished /\ d # e /\ Kids(d) \subseteq finished' /\ d \in scheduled'
        BY <2>3, WorkForms DEF Finishes
      <3>3. d \in nodes' /\ d \notin finished'
        BY <3>2, <1>2, <1>3 DEF Finishes
      <3> QED BY <3>1, <3>2, <3>3
    <2>4. CASE w # Overview(d) /\ Overview(d) \notin q
      <3>1. stage'[Overview(d)] = stage[Overview(d)]
        BY <1>1, <2>1, <2>4
      <3>2. stage[Overview(d)] \notin {"none", "over"} => d # e
        <4> SUFFICES ASSUME stage[Overview(d)] \notin {"none", "over"}, d = e PROVE FALSE
          OBVIOUS
        <4>1. d \in nodes
          BY DEF Shape, OverviewInv
        <4>2. stage[DirWork(d)] = "over" /\ EntryWork(d) = DirWork(d)
          BY <4>1, EntryWorkForms DEF Shape, DirInv, Entries
        <4> QED BY <2>4, <4>2 DEF Last
      <3> QED BY <3>1, <3>2, <1>2, <1>3 DEF Shape, OverviewInv, Finishes
    <2> QED BY <2>2, <2>3, <2>4
  <1>7. AncInv'
    <2> SUFFICES ASSUME NEW x \in Entries, stage'[EntryWork(x)] # "none", x \notin finished',
                        NEW a \in Anc[x]
                 PROVE  a \in nodes' /\ a \notin finished'
      BY DEF AncInv
    <2>1. EntryWork(x) \in Works /\ EntryWork(x).kind # "overview" /\ x # e /\ x \notin finished
      BY EntryWorkForms DEF Finishes
    <2>2. stage[EntryWork(x)] # "none"
      BY <1>1, <2>1 DEF Last
    <2>3. a \in nodes /\ a \notin finished
      BY <2>1, <2>2 DEF Shape, AncInv
    <2>4. a # e
      BY <2>1, <2>2, NothingBelow
    <2> QED BY <2>3, <2>4, <1>2, <1>3 DEF Finishes
  <1> QED BY <1>4, <1>5, <1>6, <1>7

\* What an entry at its last step knows of its directory.
LEMMA ParentWaits ==
  ASSUME TypeOK, Shape, NEW w \in Works, NEW e \in Entries \ {Root}, NEW gone, Last(w, e, gone)
  PROVE  /\ Parent[e] \in Dirs /\ Parent[e] # e /\ e \in Kids(Parent[e])
         /\ Parent[e] \in nodes /\ Parent[e] \notin finished
         /\ \A d \in Dirs : d # Parent[e] => e \notin Kids(d)
  <1>1. e \in Files => e \in Required
    BY EntryWorkForms DEF Shape, FileInv, Last
  <1>2. e \in Dirs => Recursive
    BY EntryWorkForms, ConfigAssumption DEF Shape, DirInv, Last
  <1>3. Parent[e] \in Dirs /\ Parent[e] \in Anc[e] /\ e \in Kids(Parent[e])
    BY <1>1, <1>2, KidOf
  <1>4. Parent[e] \in nodes /\ Parent[e] \notin finished
    BY <1>3 DEF Shape, AncInv, Last
  <1> QED BY <1>3, <1>4, KidsFacts, TreeAssumption

LEMMA ReportShape ==
  ASSUME TypeOK, Shape, NEW w \in Works, NEW e \in Entries \ {Root}, NEW st, NEW gone,
         Last(w, e, gone), Report(w, e, st, gone)
  PROVE  Shape'
  <1> DEFINE p == Parent[e]
  <1>1. /\ p \in Dirs /\ p # e /\ e \in Kids(p) /\ p \in nodes /\ p \notin finished
        /\ \A d \in Dirs : d # p => e \notin Kids(d)
    BY ParentWaits
  <1>2. /\ finished' = finished \cup {e} /\ nodes' = nodes \ gone /\ parents' = parents \ gone
        /\ pending' = [pending EXCEPT ![p] = @ - 1]
    BY <1>1 DEF Report
  <1>3. /\ IsFiniteSet(Kids(p) \ finished)
        /\ (Kids(p) \ finished) \ {e} = Kids(p) \ finished'
        /\ pending[p] = Cardinality(Kids(p) \ finished)
        /\ Cardinality(Kids(p) \ finished') = pending[p] - 1
    <2>1. IsFiniteSet(Kids(p) \ finished)
      BY <1>1, KidsFacts, FS_Subset
    <2>2. (Kids(p) \ finished) \ {e} = Kids(p) \ finished' /\ e \in Kids(p) \ finished
      BY <1>1, <1>2 DEF Last
    <2>3. pending[p] = Cardinality(Kids(p) \ finished)
      BY <1>1 DEF Shape, CountInv
    <2>4. Cardinality((Kids(p) \ finished) \ {e}) = Cardinality(Kids(p) \ finished) - 1
      BY <2>1, <2>2, FS_RemoveElement
    <2> QED BY <2>1, <2>2, <2>3, <2>4
  <1>4. CountInv'
    <2> SUFFICES ASSUME NEW d \in nodes' PROVE pending'[d] = Cardinality(Kids(d) \ finished')
      BY DEF CountInv, Kids
    <2>1. d \in nodes /\ d \in Dirs
      BY <1>2 DEF TypeOK
    <2>2. CASE d = p
      BY <1>1, <1>2, <1>3, <2>2 DEF TypeOK
    <2>3. CASE d # p
      <3>1. Kids(d) \ finished' = Kids(d) \ finished
        BY <1>1, <1>2, <2>1, <2>3
      <3> QED BY <1>2, <2>1, <2>3, <3>1 DEF TypeOK, Shape, CountInv
    <2> QED BY <2>2, <2>3
  <1>5. PICK q : Finishes(w, e, gone, q)
    <2>1. CASE pending[p] = 1 /\ p \notin scheduled
      <3>1. scheduled' = scheduled \cup {p} /\ Submit(w, "over", {Overview(p)})
        BY <1>1, <2>1 DEF Report
      <3>2. PICK q \in SUBSET {Overview(p)} :
               stage' = [x \in Works |-> IF x = w THEN "over" ELSE IF x \in q THEN "queued" ELSE stage[x]]
        BY <3>1, SubmitEffect
      <3>3. Kids(p) \subseteq finished'
        <4>1. IsFiniteSet(Kids(p) \ finished')
          BY <1>3, FS_RemoveElement
        <4>2. Cardinality(Kids(p) \ finished') = 0
          BY <1>3, <2>1
        <4> QED BY <4>1, <4>2, FS_EmptySet
      <3>4. stage[Overview(p)] = "none"
        BY <1>1, <2>1 DEF Shape, OverviewInv
      <3> QED BY <1>1, <1>2, <3>1, <3>2, <3>3, <3>4 DEF Finishes
    <2>2. CASE ~(pending[p] = 1 /\ p \notin scheduled)
      <3>1. scheduled' = scheduled /\ Submit(w, "over", {})
        BY <1>1, <2>2 DEF Report
      <3>2. stage' = [x \in Works |-> IF x = w THEN "over" ELSE IF x \in {} THEN "queued" ELSE stage[x]]
        BY <3>1, SubmitEffect
      <3>3. Finishes(w, e, gone, {})
        BY <1>2, <3>1, <3>2 DEF Finishes
      <3> QED BY <3>3
    <2> QED BY <2>1, <2>2
  <1>6. FileInv' /\ DirInv' /\ OverviewInv' /\ AncInv'
    BY <1>5, FinishShape
  <1> QED BY <1>4, <1>6 DEF Shape

LEMMA RootReportShape ==
  ASSUME TypeOK, Shape, NEW w \in Works, NEW st, NEW gone,
         Last(w, Root, gone), RootReport(w, Root, st, gone)
  PROVE  Shape'
  <1>1. Root \in Entries /\ Root \in Dirs /\ \A d \in Dirs : Root \notin Kids(d)
    BY TreeAssumption, KidsFacts DEF Entries
  <1>2. /\ finished' = finished \cup {Root} /\ nodes' = nodes \ gone /\ parents' = parents \ gone
        /\ UNCHANGED <<pending, scheduled>> /\ Submit(w, "over", {})
    BY DEF RootReport
  <1>3. stage' = [x \in Works |-> IF x = w THEN "over" ELSE IF x \in {} THEN "queued" ELSE stage[x]]
    BY <1>2, SubmitEffect
  <1>4. Finishes(w, Root, gone, {})
    BY <1>2, <1>3 DEF Finishes
  <1>5. FileInv' /\ DirInv' /\ OverviewInv' /\ AncInv'
    BY <1>1, <1>4, FinishShape
  <1>6. CountInv'
    <2> SUFFICES ASSUME NEW d \in nodes' PROVE pending'[d] = Cardinality(Kids(d) \ finished')
      BY DEF CountInv, Kids
    <2>1. d \in nodes /\ d \in Dirs
      BY <1>2 DEF TypeOK
    <2>2. Kids(d) \ finished' = Kids(d) \ finished
      BY <1>1, <1>2, <2>1
    <2> QED BY <1>2, <2>1, <2>2 DEF Shape, CountInv
  <1> QED BY <1>5, <1>6 DEF Shape

\* A directory is listed: its entries are scheduled, or its overview.
LEMMA ListedShape ==
  ASSUME TypeOK, Shape, NEW w \in Works, Listed(w)
  PROVE  Shape'
  <1> DEFINE d == w.node
             new == IF Kids(d) = {} THEN {Overview(d)}
                    ELSE {IF e \in Files THEN FileWork(e) ELSE DirWork(e) : e \in Kids(d)}
  <1>1. d \in Dirs /\ w = DirWork(d) /\ stage[w] = "list"
    BY WorkForms DEF Listed, Shape, FileInv, OverviewInv
  <1>2. /\ d \in parents /\ d \notin finished /\ d \notin nodes /\ stage[Overview(d)] = "none"
        /\ \A e \in Kids(d) : stage[EntryWork(e)] = "none"
    BY <1>1 DEF Shape, DirInv
  <1>3. /\ nodes' = nodes \cup {d} /\ parents' = parents /\ finished' = finished
        /\ pending' = [pending EXCEPT ![d] = Cardinality(Kids(d))]
        /\ scheduled' = IF Kids(d) = {} THEN scheduled \cup {d} ELSE scheduled \ {d}
        /\ Submit(w, "over", new)
    BY DEF Listed
  <1>4. \A e \in Kids(d) : e \in Entries \ {Root} /\ e \notin finished
    <2> SUFFICES ASSUME NEW e \in Kids(d) PROVE e \in Entries \ {Root} /\ e \notin finished
      OBVIOUS
    <2>1. e \in Entries \ {Root} /\ stage[EntryWork(e)] = "none"
      BY <1>1, <1>2, KidsFacts
    <2> QED BY <2>1, EntryWorkForms DEF Shape, FileInv, DirInv, Entries
  <1>5. PICK q \in SUBSET new :
          stage' = [x \in Works |-> IF x = w THEN "over" ELSE IF x \in q THEN "queued" ELSE stage[x]]
    BY <1>3, SubmitEffect
  <1>6. \A x \in Works : stage'[x] = IF x = w THEN "over" ELSE IF x \in q THEN "queued" ELSE stage[x]
    BY <1>5
  <1>7. /\ \A e \in Entries : EntryWork(e) \in q => e \in Kids(d)
        /\ \A x \in Dirs : Overview(x) \in q => x = d /\ Kids(d) = {}
    <2>1. CASE Kids(d) = {}
      BY <1>1, <2>1, WorkForms, EntryWorkForms
    <2>2. CASE Kids(d) # {}
      <3>1. \A x \in q : \E e \in Kids(d) : x = EntryWork(e)
        BY <2>2 DEF EntryWork
      <3> HIDE DEF new
      <3>2. ASSUME NEW e \in Entries, EntryWork(e) \in q PROVE e \in Kids(d)
        BY <1>4, <3>1, <3>2, EntryWorkForms
      <3>3. ASSUME NEW x \in Dirs, Overview(x) \in q PROVE FALSE
        BY <1>4, <3>1, <3>3, EntryWorkForms, WorkForms
      <3> QED BY <3>2, <3>3
    <2> QED BY <2>1, <2>2
  <1> HIDE DEF new, d
  <1>8. FileInv'
    <2> SUFFICES ASSUME NEW f \in Files
                 PROVE  /\ stage'[FileWork(f)] \in {"none", "queued", "summary", "vector", "over"}
                        /\ stage'[FileWork(f)] # "none" => f \in Required
                        /\ stage'[FileWork(f)] # "over" => f \notin finished'
      BY DEF FileInv
    <2>1. f \in Entries /\ EntryWork(f) = FileWork(f) /\ FileWork(f) \in Works /\ FileWork(f) # w
      BY <1>1, EntryWorkForms, WorkForms DEF Entries
    <2>2. FileWork(f) \in q => f \in Required /\ f \notin finished
      BY <1>4, <1>7, <2>1, TreeAssumption DEF Kids
    <2> QED BY <1>3, <1>6, <2>1, <2>2 DEF Shape, FileInv
  <1>9. DirInv'
    <2> SUFFICES ASSUME NEW x \in Dirs
                 PROVE  /\ stage'[DirWork(x)] \in {"none", "queued", "list", "over"}
                        /\ stage'[DirWork(x)] = "list" => x \in parents'
                        /\ x # Root /\ ~Recursive => stage'[DirWork(x)] = "none"
                        /\ x \in nodes' => x \in parents'
                        /\ stage'[DirWork(x)] # "over" =>
                             /\ x \notin finished' /\ x \notin nodes' /\ stage'[Overview(x)] = "none"
                             /\ \A e \in Kids(x) : stage'[EntryWork(e)] = "none"
      BY DEF DirInv
    <2>1. /\ x \in Entries /\ EntryWork(x) = DirWork(x) /\ DirWork(x) \in Works
          /\ Overview(x) \in Works /\ Overview(x) # w
      BY <1>1, EntryWorkForms, WorkForms DEF Entries
    <2>2. x \in nodes' => x \in parents'
      BY <1>2, <1>3 DEF Shape, DirInv
    <2>3. CASE x = d
      <3>1. stage'[DirWork(x)] = "over" /\ (x # Root => Recursive)
        BY <1>1, <1>6, <2>1, <2>3, ConfigAssumption DEF Shape, DirInv
      <3> QED BY <2>2, <3>1, ConfigAssumption
    <2>4. CASE x # d
      <3>1. DirWork(x) # w /\ Overview(x) \notin q
        BY <1>1, <1>7, <2>4, WorkForms
      <3>2. DirWork(x) \in q => x # Root /\ Recursive /\ stage[DirWork(x)] = "none"
        BY <1>2, <1>4, <1>7, <2>1, TreeAssumption DEF Kids
      <3>3. ASSUME stage[DirWork(x)] # "over", NEW e \in Kids(x) PROVE stage'[EntryWork(e)] = "none"
        <4>1. e \in Entries /\ e \notin Kids(d) /\ stage[EntryWork(e)] = "none"
          BY <1>1, <2>4, <3>3, KidsFacts DEF Shape, DirInv
        <4>2. EntryWork(e) \in Works /\ EntryWork(e) # w /\ EntryWork(e) \notin q
          BY <1>1, <1>7, <4>1, EntryWorkForms
        <4> QED BY <1>6, <4>1, <4>2
      <3> QED BY <1>3, <1>6, <2>1, <2>2, <2>4, <3>1, <3>2, <3>3 DEF Shape, DirInv
    <2> QED BY <2>3, <2>4
  <1>10. OverviewInv'
    <2> SUFFICES ASSUME NEW x \in Dirs
                 PROVE  /\ stage'[Overview(x)] \in {"none", "queued", "generate", "write", "dirvector", "over"}
                        /\ stage'[Overview(x)] # "none" => x \in scheduled'
                        /\ stage'[Overview(x)] \notin {"none", "over"} =>
                             x \in nodes' /\ x \notin finished' /\ Kids(x) \subseteq finished'
      BY DEF OverviewInv, Kids
    <2>1. Overview(x) \in Works /\ Overview(x) # w
      BY <1>1, WorkForms
    <2>2. CASE x = d
      BY <1>2, <1>3, <1>6, <1>7, <2>1, <2>2
    <2>3. CASE x # d
      BY <1>3, <1>6, <1>7, <2>1, <2>3 DEF Shape, OverviewInv
    <2> QED BY <2>2, <2>3
  <1>11. AncInv'
    <2> SUFFICES ASSUME NEW e \in Entries, stage'[EntryWork(e)] # "none", e \notin finished',
                        NEW a \in Anc[e]
                 PROVE  a \in nodes' /\ a \notin finished'
      BY DEF AncInv
    <2>1. CASE stage[EntryWork(e)] # "none"
      BY <1>3, <2>1 DEF Shape, AncInv
    <2>2. CASE stage[EntryWork(e)] = "none"
      <3>1. e \in Kids(d)
        BY <1>1, <1>6, <1>7, <2>2, EntryWorkForms
      <3>2. a \in Anc[d] \cup {d}
        BY <1>1, <3>1, KidsFacts
      <3>3. d \in Entries /\ stage[EntryWork(d)] # "none"
        BY <1>1, EntryWorkForms DEF Entries
      <3> QED BY <1>2, <1>3, <3>2, <3>3 DEF Shape, AncInv
    <2> QED BY <2>1, <2>2
  <1>12. CountInv'
    <2> SUFFICES ASSUME NEW x \in nodes' PROVE pending'[x] = Cardinality(Kids(x) \ finished')
      BY DEF CountInv, Kids
    <2>1. x \in Dirs
      BY <1>1, <1>3 DEF TypeOK
    <2>2. CASE x = d
      <3>1. Kids(d) \ finished' = Kids(d)
        BY <1>3, <1>4
      <3> QED BY <1>3, <2>1, <2>2, <3>1 DEF TypeOK
    <2>3. CASE x # d
      BY <1>3, <2>1, <2>3 DEF TypeOK, Shape, CountInv
    <2> QED BY <2>2, <2>3
  <1> QED BY <1>8, <1>9, <1>10, <1>11, <1>12 DEF Shape

\* A worker begins to list a directory.
LEMMA BeginShape ==
  ASSUME TypeOK, Shape, NEW d \in Dirs, stage[DirWork(d)] = "queued",
         stage' = [stage EXCEPT ![DirWork(d)] = "list"], parents' = parents \cup {d},
         UNCHANGED <<nodes, pending, scheduled, finished>>
  PROVE  Shape'
  <1>0. /\ DirWork(d) \in Works /\ d \in Entries /\ EntryWork(d) = DirWork(d)
        /\ \A x \in Works : stage'[x] = IF x = DirWork(d) THEN "list" ELSE stage[x]
    BY WorkForms, EntryWorkForms DEF TypeOK, Entries
  <1>1. FileInv'
    BY <1>0, WorkForms DEF Shape, FileInv
  <1>2. DirInv'
    <2> SUFFICES ASSUME NEW x \in Dirs
                 PROVE  /\ stage'[DirWork(x)] \in {"none", "queued", "list", "over"}
                        /\ stage'[DirWork(x)] = "list" => x \in parents'
                        /\ x # Root /\ ~Recursive => stage'[DirWork(x)] = "none"
                        /\ x \in nodes' => x \in parents'
                        /\ stage'[DirWork(x)] # "over" =>
                             /\ x \notin finished' /\ x \notin nodes' /\ stage'[Overview(x)] = "none"
                             /\ \A e \in Kids(x) : stage'[EntryWork(e)] = "none"
      BY DEF DirInv
    <2>1. DirWork(x) \in Works /\ Overview(x) \in Works /\ Overview(x) # DirWork(d)
      BY WorkForms
    <2>2. ASSUME stage'[DirWork(x)] # "over", NEW e \in Kids(x) PROVE stage'[EntryWork(e)] = "none"
      <3>1. e \in Entries /\ stage[EntryWork(e)] = "none"
        BY <1>0, <2>1, <2>2, KidsFacts DEF Shape, DirInv
      <3> QED BY <1>0, <3>1, EntryWorkForms
    <2>3. DirWork(x) = DirWork(d) => x = d
      BY WorkForms
    <2> QED BY <1>0, <2>1, <2>2, <2>3, ConfigAssumption DEF Shape, DirInv
  <1>3. OverviewInv'
    BY <1>0, WorkForms DEF Shape, OverviewInv
  <1>4. AncInv'
    BY <1>0, EntryWorkForms DEF Shape, AncInv
  <1>5. CountInv'
    BY DEF Shape, CountInv, Kids
  <1> QED BY <1>1, <1>2, <1>3, <1>4, <1>5 DEF Shape

\* A work ends without a report.
LEMMA EndShape ==
  ASSUME TypeOK, Shape, NEW w \in Works, stage[w] \notin {"none", "over"}, NEW st,
         Drop(w, st) \/ Raise(w, st)
  PROVE  /\ Shape' /\ UNCHANGED finished
         /\ closed => closed'
         /\ failure => failure'
         /\ rootDone' => rootDone \/ failure'
         /\ stage' = [stage EXCEPT ![w] = "over"]
  <1>1. Submit(w, "over", {}) /\ UNCHANGED dag
    BY DEF Drop, Raise
  <1>2. stage' = [x \in Works |-> IF x = w THEN "over" ELSE IF x \in {} THEN "queued" ELSE stage[x]]
    BY <1>1, SubmitEffect
  <1>3. stage' = [stage EXCEPT ![w] = "over"]
    BY <1>2 DEF TypeOK
  <1>4. Shape'
    BY <1>1, <1>3, MoveShape
  <1> QED BY <1>1, <1>3, <1>4 DEF Drop, Raise, fail, dag

\* What a step of a work does: the shape is kept, and when an entry is added to
\* finished it was at its last step.
Effect(w) ==
  /\ Shape'
  /\ closed => closed'
  /\ failure => failure'
  /\ rootDone' => rootDone \/ failure' \/ Root \in finished'
  /\ finished \subseteq finished'
  /\ \/ UNCHANGED finished
     \/ \E e \in Entries, gone \in SUBSET Dirs : Last(w, e, gone) /\ finished' = finished \cup {e}

LEMMA ReportEffect ==
  ASSUME TypeOK, Shape, NEW w \in Works, NEW e \in Entries, NEW st, NEW gone \in SUBSET Dirs,
         Last(w, e, gone),
         \/ e # Root /\ Report(w, e, st, gone)
         \/ e = Root /\ RootReport(w, e, st, gone)
  PROVE  Effect(w)
  <1>1. CASE e # Root /\ Report(w, e, st, gone)
    <2>1. Shape'
      BY <1>1, ReportShape
    <2> QED BY <1>1, <2>1 DEF Effect, Report
  <1>2. CASE e = Root /\ RootReport(w, e, st, gone)
    <2>1. Shape'
      BY <1>2, RootReportShape
    <2> QED BY <1>2, <2>1 DEF Effect, RootReport
  <1> QED BY <1>1, <1>2

LEMMA EndEffect ==
  ASSUME TypeOK, Shape, NEW w \in Works, stage[w] \notin {"none", "over"}, NEW st,
         Drop(w, st) \/ Raise(w, st)
  PROVE  Effect(w)
  BY EndShape DEF Effect

LEMMA StepEffect ==
  ASSUME TypeOK, Shape, NEW w \in Works, stage[w] \notin {"none", "over"}, NEW s, Step(w, s),
         \/ w.kind = "file" /\ s \in {"summary", "vector"}
         \/ w.kind = "overview" /\ s \in {"generate", "write", "dirvector"}
  PROVE  Effect(w)
  <1>1. Shape'
    BY MoveShape DEF Step
  <1> QED BY <1>1 DEF Effect, Step, dag

\* A directory whose overview is under way is at its last step.
LEMMA OverviewLast ==
  ASSUME TypeOK, Shape, NEW d \in Dirs, stage[Overview(d)] \notin {"none", "over"}
  PROVE  d \in nodes /\ d \in parents /\ Last(Overview(d), d, {d}) /\ (d = Root \/ Recursive)
  <1>1. d \in nodes /\ d \notin finished
    BY DEF Shape, OverviewInv
  <1>2. stage[DirWork(d)] = "over" /\ d \in parents /\ EntryWork(d) = DirWork(d)
    BY <1>1, EntryWorkForms DEF Shape, DirInv, Entries
  <1>3. d = Root \/ Recursive
    BY <1>2, ConfigAssumption DEF Shape, DirInv
  <1> QED BY <1>1, <1>2, <1>3 DEF Last

LEMMA OverviewDoneEffect ==
  ASSUME TypeOK, Shape, NEW w \in Works, w.kind = "overview", stage[w] \notin {"none", "over"},
         OverviewDone(w)
  PROVE  Effect(w)
  <1> DEFINE d == w.node
  <1>1. d \in Dirs /\ w = Overview(d) /\ d \in Entries /\ {d} \in SUBSET Dirs
    BY WorkForms DEF Entries
  <1>2. d \in parents /\ Last(w, d, {d})
    BY <1>1, OverviewLast
  <1>3. \/ d # Root /\ Report(w, d, Done(stats), {d})
        \/ d = Root /\ RootReport(w, d, Done(stats), {d})
    BY <1>2 DEF OverviewDone
  <1> HIDE DEF d
  <1> QED BY <1>1, <1>2, <1>3, ReportEffect

LEMMA WorkEffect ==
  ASSUME TypeOK, Shape, NEW w \in Works, Work(w)
  PROVE  Effect(w)
  <1>1. /\ stage[w] = "list" => w.kind = "dir"
        /\ stage[w] \in {"summary", "vector"} => w.kind = "file"
        /\ stage[w] \in {"generate", "write", "dirvector"} => w.kind = "overview"
    BY WorkForms DEF Shape, DirInv, FileInv, OverviewInv
  <1>2. w.kind = "file" => w.node \in Entries /\ w.node # Root /\ w.node \notin Dirs /\ w = EntryWork(w.node)
    BY WorkForms, EntryWorkForms, TreeAssumption DEF Entries
  <1>3. w.kind = "dir" => w.node \in Dirs /\ w.node \in Entries /\ w = DirWork(w.node) /\ w = EntryWork(w.node)
    BY WorkForms, EntryWorkForms DEF Entries
  <1>4. w.kind = "overview" => w.node \in Dirs /\ w = Overview(w.node)
    BY WorkForms
  <1>5. {} \in SUBSET Dirs
    OBVIOUS
  <1>6. ASSUME stage[w] \in {"summary", "vector"} PROVE Last(w, w.node, {})
    <2>1. w.node \notin finished
      BY <1>1, <1>2, <1>6, WorkForms DEF Shape, FileInv
    <2> QED BY <1>1, <1>2, <1>6, <2>1 DEF Last
  <1>7. CASE Take(w)
    <2>0. stage[w] = "queued" /\ stage[w] \notin {"none", "over"}
      BY <1>7 DEF Take
    <2>1. CASE Drop(w, stats) \/ Drop(w, Done(Started(stats))) \/ Drop(w, Started(stats))
      BY <2>0, <2>1, EndEffect
    <2>2. CASE w.kind = "file" /\ Step(w, "summary")
      BY <2>0, <2>2, StepEffect
    <2>3. CASE w.kind = "overview" /\ Step(w, "generate")
      BY <2>0, <2>3, StepEffect
    <2>4. CASE /\ w.kind = "dir" /\ parents' = parents \cup {w.node}
               /\ stage' = [stage EXCEPT ![w] = "list"]
               /\ UNCHANGED <<workers, nodes, pending, scheduled, finished, closed, failure, rootDone>>
      <3>1. Shape'
        BY <1>3, <2>0, <2>4, BeginShape
      <3> QED BY <2>4, <3>1 DEF Effect
    <2>5. CASE w.kind = "overview" /\ w.node = Root /\ RootReport(w, Root, Done(Started(stats)), {Root})
      <3>1. Last(w, Root, {Root}) /\ Root \in Entries /\ {Root} \in SUBSET Dirs
        BY <1>4, <2>0, <2>5, OverviewLast DEF Entries
      <3> QED BY <2>5, <3>1, ReportEffect
    <2>6. CASE w.kind = "overview" /\ w.node # Root /\ ~Aggregate
      BY <1>4, <2>0, <2>6, OverviewLast, ConfigAssumption
    <2> QED BY <1>7, <2>1, <2>2, <2>3, <2>4, <2>5, <2>6 DEF Take
  <1>8. CASE Listed(w)
    <2>1. Shape'
      BY <1>8, ListedShape
    <2> QED BY <1>8, <2>1 DEF Effect, Listed
  <1>9. CASE ListFails(w)
    <2>1. stage[w] = "list" /\ w.kind = "dir"
      BY <1>1, <1>9 DEF ListFails
    <2>2. Last(w, w.node, {})
      BY <1>3, <2>1 DEF Last, Shape, DirInv
    <2>3. \/ w.node # Root /\ Report(w, w.node, Done(stats), {})
          \/ w.node = Root /\ RootReport(w, w.node, Done(stats), {})
      BY <1>9 DEF ListFails
    <2> QED BY <1>3, <1>5, <2>1, <2>2, <2>3, ReportEffect
  <1>10. CASE Summarised(w)
    <2>1. stage[w] = "summary" /\ w.kind = "file" /\ stage[w] \notin {"none", "over"}
      BY <1>1, <1>10 DEF Summarised
    <2>2. CASE Report(w, w.node, Done(stats), {})
      BY <1>2, <1>5, <1>6, <2>1, <2>2, ReportEffect
    <2> QED BY <1>10, <2>1, <2>2, EndEffect, StepEffect DEF Summarised
  <1>11. CASE Vectorised(w)
    <2>1. stage[w] = "vector" /\ w.kind = "file" /\ stage[w] \notin {"none", "over"}
      BY <1>1, <1>11 DEF Vectorised
    <2>2. CASE Report(w, w.node, stats, {})
      BY <1>2, <1>5, <1>6, <2>1, <2>2, ReportEffect
    <2> QED BY <1>11, <2>1, <2>2, EndEffect DEF Vectorised
  <1>12. CASE Generated(w) \/ Written(w) \/ DirVectorised(w)
    <2>1. w.kind = "overview" /\ stage[w] \notin {"none", "over"}
      BY <1>1, <1>12 DEF Generated, Written, DirVectorised
    <2> QED BY <1>12, <2>1, EndEffect, StepEffect, OverviewDoneEffect
            DEF Generated, Written, DirVectorised
  <1> QED BY <1>7, <1>8, <1>9, <1>10, <1>11, <1>12 DEF Work

\* The caller, its cancellation and the scheduler's idle workers leave the work alone.
LEMMA OtherSteps ==
  ASSUME Next
  PROVE  \/ \E w \in Works : Work(w)
         \/ (WorkerExits \/ RootWakes \/ Drained \/ Cancel) /\ UNCHANGED <<stage, dag>>
  BY DEF Next, WorkerExits, RootWakes, Drained, Cancel, dag

LEMMA ShapeStep ==
  ASSUME TypeOK, Shape, [Next]_vars
  PROVE  TypeOK' /\ Shape'
  <1>1. CASE Next
    <2>1. TypeOK'
      BY <1>1, TypeStep DEF Shape
    <2>2. CASE \E w \in Works : Work(w)
      BY <2>1, <2>2, WorkEffect DEF Effect
    <2>3. CASE UNCHANGED <<stage, dag>>
      BY <2>1, <2>3 DEF Shape, FileInv, DirInv, OverviewInv, AncInv, CountInv, dag, Kids
    <2> QED BY <1>1, <2>2, <2>3, OtherSteps
  <1>2. CASE UNCHANGED vars
    BY <1>2 DEF vars, TypeOK, Shape, FileInv, DirInv, OverviewInv, AncInv, CountInv, dag, call, Kids
  <1> QED BY <1>1, <1>2

LEMMA ShapeInit ==
  ASSUME Init
  PROVE  TypeOK /\ Shape
  <1>0. \A x \in Works : stage[x] = IF x = DirWork(Root) THEN "queued" ELSE "none"
    BY DEF Init
  <1>1. TypeOK
    <2>1. workers \in 0 .. MaxWorkers /\ cancels \in 0 .. MaxCancels
      BY ConfigAssumption DEF Init
    <2>2. stage \in [Works -> Stages]
      BY DEF Init, Stages
    <2>3. stats \in [pending : Nat, in_progress : Nat, done : Nat]
      BY DEF Init
    <2>4. pending \in [Dirs -> Int]
      BY DEF Init
    <2>5. /\ nodes \subseteq Dirs /\ parents \subseteq Dirs /\ scheduled \subseteq Dirs /\ finished \subseteq Entries
          /\ closed \in BOOLEAN /\ failure \in BOOLEAN /\ rootDone \in BOOLEAN
      BY DEF Init
    <2>6. run \in {"waiting", "except", "finally", "over"} /\ result \in {"ok", "failed", "cancelled"}
      BY DEF Init
    <2> QED BY <2>1, <2>2, <2>3, <2>4, <2>5, <2>6 DEF TypeOK
  <1>2. FileInv
    BY <1>0, WorkForms, TreeAssumption DEF Init, FileInv
  <1>3. DirInv
    <2> SUFFICES ASSUME NEW d \in Dirs
                 PROVE  /\ stage[DirWork(d)] \in {"none", "queued"}
                        /\ d # Root => stage[DirWork(d)] = "none"
                        /\ stage[Overview(d)] = "none"
                        /\ \A e \in Kids(d) : stage[EntryWork(e)] = "none"
      BY DEF Init, DirInv
    <2>1. \A e \in Kids(d) : stage[EntryWork(e)] = "none"
      BY <1>0, KidsFacts, EntryWorkForms, WorkForms, TreeAssumption
    <2> QED BY <1>0, <2>1, WorkForms, TreeAssumption
  <1>4. OverviewInv
    BY <1>0, WorkForms, TreeAssumption DEF Init, OverviewInv
  <1>5. AncInv
    BY <1>0, EntryWorkForms, WorkForms, TreeAssumption DEF Init, AncInv
  <1>6. CountInv
    BY DEF Init, CountInv
  <1> QED BY <1>1, <1>2, <1>3, <1>4, <1>5, <1>6 DEF Shape

LEMMA ShapeInvariant == Spec => [](TypeOK /\ Shape)
  BY ShapeInit, ShapeStep, PTL DEF Spec

\* Every variable of the executor keeps its type: in particular no statistic goes
\* below zero and there are never more than max_concurrent_llm workers.
THEOREM TypeCorrect == Spec => []TypeOK
  BY ShapeInvariant, PTL

\* DirNode.pending is exact and no overview is begun while a report is missing, for
\* every tree, however often the caller is cancelled.
THEOREM CountsCorrect == Spec => []CountsExact
  <1>1. ASSUME TypeOK, Shape PROVE CountsExact
    <2>1. ASSUME NEW w \in Running, w.kind = "overview" PROVE Kids(w.node) \subseteq finished
      <3>1. w \in Works /\ stage[w] \notin {"none", "over"}
        BY <2>1 DEF Running
      <3>2. w.node \in Dirs /\ w = Overview(w.node)
        BY <2>1, <3>1, WorkForms
      <3> QED BY <1>1, <3>1, <3>2 DEF Shape, OverviewInv
    <2> QED BY <1>1, <2>1 DEF CountsExact, Shape, CountInv
  <1> QED BY <1>1, ShapeInvariant, PTL

-----------------------------------------------------------------------------
(* The caller of run *)

\* The root has reported only when nothing is under way.
LEMMA RootLast ==
  ASSUME TypeOK, Shape, Root \in finished
  PROVE  Idle
  <1> SUFFICES ASSUME NEW w \in Running PROVE FALSE
    BY DEF Idle
  <1>1. w \in Works /\ stage[w] \notin {"none", "queued", "over"}
    BY DEF Running
  <1>2. PICK e \in Entries : stage[EntryWork(e)] # "none" /\ e \notin finished
    <2>1. CASE w.kind = "file"
      <3>1. w.node \in Entries /\ w = EntryWork(w.node) /\ w.node \notin finished
        BY <1>1, <2>1, WorkForms, EntryWorkForms DEF Shape, FileInv, Entries
      <3> QED BY <1>1, <3>1
    <2>2. CASE w.kind = "dir"
      <3>1. w.node \in Entries /\ w = EntryWork(w.node) /\ w.node \notin finished
        BY <1>1, <2>2, WorkForms, EntryWorkForms DEF Shape, DirInv, Entries
      <3> QED BY <1>1, <3>1
    <2>3. CASE w.kind = "overview"
      <3>1. w.node \in Dirs /\ w.node \in Entries /\ Last(w, w.node, {w.node})
        BY <1>1, <2>3, WorkForms, OverviewLast DEF Entries
      <3> QED BY <3>1 DEF Last
    <2> QED BY <1>1, <2>1, <2>2, <2>3, WorkForms
  <1> QED BY <1>2, TreeAssumption DEF Shape, AncInv

\* Once the executor is closed and idle, a worker only throws queued work away.
LEMMA ClosedTake ==
  ASSUME TypeOK, Shape, closed, Idle, NEW w \in Works, Work(w)
  PROVE  Idle' /\ UNCHANGED <<finished, closed, failure, rootDone>>
  <1>1. stage[w] \in {"none", "queued", "over"}
    BY DEF Idle, Running
  <1>2. Take(w) /\ stage[w] = "queued"
    BY <1>1 DEF Work, Take, Listed, ListFails, Summarised, Vectorised, Generated, Written, DirVectorised
  <1>3. Drop(w, stats)
    BY <1>2 DEF Take
  <1>4. stage' = [stage EXCEPT ![w] = "over"]
    BY <1>2, <1>3, EndShape
  <1>5. Idle'
    BY <1>4 DEF Idle, Running, TypeOK
  <1> QED BY <1>3, <1>5 DEF Drop, dag

LEMMA RunStep ==
  ASSUME TypeOK, Shape, RunInv, MaxCancels <= 1, [Next]_vars
  PROVE  RunInv'
  <1>1. ASSUME NEW w \in Works, Work(w) PROVE RunInv'
    <2>1. Effect(w) /\ UNCHANGED call
      BY <1>1, WorkEffect, WorkType DEF Shape
    <2>2. (run = "finally" /\ cancels = 0) \/ run = "over" => Idle'
      BY <1>1, ClosedTake DEF RunInv
    <2> QED BY <2>1, <2>2 DEF RunInv, Effect, call
  <1>2. CASE WorkerExits
    BY <1>2 DEF RunInv, WorkerExits, Idle, Running, dag, call
  <1>3. CASE RootWakes
    <2>1. UNCHANGED <<stage, finished, cancels, rootDone, failure>> /\ closed' /\ run = "waiting" /\ rootDone
      BY <1>3 DEF RootWakes, dag
    <2>2. failure \/ Root \in finished
      BY <2>1 DEF RunInv
    <2>3. CASE failure
      BY <1>3, <2>1, <2>3 DEF RootWakes, RunInv
    <2>4. CASE ~failure
      <3>1. run' = "finally" /\ UNCHANGED result
        BY <1>3, <2>4 DEF RootWakes
      <3>2. Idle'
        BY <2>1, <2>2, <2>4, RootLast DEF Idle, Running
      <3> QED BY <2>1, <2>2, <2>4, <3>1, <3>2 DEF RunInv
    <2> QED BY <2>3, <2>4
  <1>4. CASE Drained
    <2>1. Idle'
      BY <1>4 DEF Drained, Idle, Running
    <2> QED BY <1>4, <2>1 DEF Drained, RunInv, dag
  <1>5. CASE Cancel
    <2>1. cancels = 0 /\ cancels' = 1
      BY <1>5, ConfigAssumption DEF Cancel, TypeOK
    <2>2. Idle' <=> Idle
      BY <1>5 DEF Cancel, Idle, Running
    <2>3. run = "waiting" \/ run = "except" \/ run = "finally"
      BY <1>5 DEF Cancel, TypeOK
    <2>4. CASE run = "waiting"
      BY <1>5, <2>1, <2>2, <2>4 DEF Cancel, RunInv, dag
    <2>5. CASE run = "except"
      BY <1>5, <2>1, <2>2, <2>5 DEF Cancel, RunInv, dag
    <2>6. CASE run = "finally"
      BY <1>5, <2>1, <2>2, <2>6 DEF Cancel, RunInv, dag
    <2> QED BY <2>3, <2>4, <2>5, <2>6
  <1>6. CASE UNCHANGED vars
    BY <1>6 DEF vars, RunInv, Idle, Running, dag, call
  <1> QED BY <1>1, <1>2, <1>3, <1>4, <1>5, <1>6 DEF Next

LEMMA Invariant == MaxCancels <= 1 => (Spec => []Inv)
  <1> SUFFICES ASSUME MaxCancels <= 1 PROVE Spec => []Inv
    OBVIOUS
  <1>1. Init => RunInv
    BY DEF Init, RunInv
  <1>2. TypeOK /\ Shape /\ RunInv /\ [Next]_vars => RunInv'
    BY RunStep
  <1>3. Spec => []RunInv
    BY <1>1, <1>2, ShapeInvariant, PTL DEF Spec
  <1> QED BY <1>3, ShapeInvariant, PTL DEF Inv

-----------------------------------------------------------------------------
(* The refinement *)

Below == [e \in Entries |-> IF e \in Dirs THEN Kids(e) ELSE {}]
outcome == IF run = "over" THEN result ELSE "running"

\* An entry at its last step is open in the abstract specification, and either all
\* entries below it have reported or none has.
LEMMA LastIsOpen ==
  ASSUME TypeOK, Shape, NEW w \in Works, NEW e \in Entries, NEW gone \in SUBSET Dirs, Last(w, e, gone)
  PROVE  /\ e \notin finished
         /\ \A p \in Entries : e \in Below[p] => p \notin finished
         /\ Below[e] \subseteq finished \/ Below[e] \cap finished = {}
  <1>1. e \notin finished
    BY DEF Last
  <1>2. ASSUME NEW p \in Entries, e \in Below[p] PROVE p \notin finished
    <2>1. p \in Dirs /\ e \in Kids(p)
      BY <1>2 DEF Below
    <2>2. p \in Anc[e]
      BY <2>1, KidsFacts
    <2> QED BY <2>2 DEF Shape, AncInv, Last
  <1>3. CASE e \notin Dirs
    BY <1>1, <1>2, <1>3 DEF Below
  <1>4. CASE e \in Dirs /\ w = EntryWork(e) /\ stage[w] = "list"
    <2>1. \A x \in Kids(e) : x \in Entries /\ stage[EntryWork(x)] = "none"
      BY <1>4, EntryWorkForms, KidsFacts DEF Shape, DirInv
    <2>2. \A x \in Kids(e) : x \notin finished
      BY <2>1, EntryWorkForms DEF Shape, FileInv, DirInv, Entries
    <2> QED BY <1>1, <1>2, <1>4, <2>2 DEF Below
  <1>5. CASE e \in Dirs /\ w = Overview(e)
    BY <1>1, <1>2, <1>5 DEF Below, Shape, OverviewInv, Last
  <1> QED BY <1>3, <1>4, <1>5 DEF Last

LEMMA RefinementStep ==
  ASSUME Inv, MaxCancels <= 1, [Next]_vars
  PROVE  Bottom!Next \/ UNCHANGED <<finished, outcome>>
  <1>0. TypeOK /\ Shape /\ RunInv
    BY DEF Inv
  <1>1. ASSUME NEW w \in Works, Work(w) PROVE Bottom!Next \/ UNCHANGED <<finished, outcome>>
    <2>1. Effect(w) /\ UNCHANGED call
      BY <1>0, <1>1, WorkEffect, WorkType DEF Shape
    <2>2. UNCHANGED outcome
      BY <2>1 DEF outcome, call
    <2>3. CASE UNCHANGED finished
      BY <2>2, <2>3
    <2>4. CASE run = "over"
      BY <1>0, <1>1, <2>2, <2>4, ClosedTake DEF RunInv
    <2>5. CASE run # "over" /\ ~UNCHANGED finished
      <3>1. PICK e \in Entries, gone \in SUBSET Dirs : Last(w, e, gone) /\ finished' = finished \cup {e}
        BY <2>1, <2>5 DEF Effect
      <3>2. /\ e \notin finished
            /\ \A p \in Entries : e \in Below[p] => p \notin finished
            /\ Below[e] \subseteq finished \/ Below[e] \cap finished = {}
        BY <1>0, <3>1, LastIsOpen
      <3>3. outcome = "running"
        BY <2>5 DEF outcome
      <3>4. Bottom!Finish(e) \/ Bottom!GiveUp(e)
        BY <2>2, <3>1, <3>2, <3>3 DEF Bottom!Finish, Bottom!GiveUp, Bottom!Open, Below, outcome
      <3> QED BY <3>4 DEF Bottom!Next
    <2> QED BY <2>3, <2>4, <2>5
  <1>2. CASE WorkerExits \/ RootWakes
    BY <1>2 DEF WorkerExits, RootWakes, outcome, dag, call
  <1>3. CASE Drained \/ Cancel
    <2>1. UNCHANGED finished /\ run # "over"
      BY <1>3 DEF Drained, Cancel, dag
    <2>2. CASE run' # "over"
      BY <2>1, <2>2 DEF outcome
    <2>3. CASE run' = "over"
      <3>1. run = "finally" /\ result' \in {"ok", "failed", "cancelled"}
        BY <1>0, <1>3, <2>3 DEF Drained, Cancel, TypeOK
      <3>2. result' = "ok" => Root \in finished
        BY <1>0, <1>3, <3>1 DEF Drained, Cancel, RunInv
      <3>3. Bottom!End
        BY <2>1, <2>3, <3>1, <3>2 DEF Bottom!End
      <3> QED BY <3>3 DEF Bottom!Next
    <2> QED BY <2>2, <2>3
  <1>4. CASE UNCHANGED vars
    BY <1>4 DEF vars, outcome, dag, call
  <1> QED BY <1>1, <1>2, <1>3, <1>4 DEF Next

\* run() keeps its promise to the caller: entries are finished once and bottom-up,
\* a directory that cannot be listed is given up as a whole, success is reported
\* only with the root finished, and nothing is finished after run has returned.
\* The hypothesis is what the code relies on: a second cancellation ends the wait
\* of the finally clause while work is under way.
THEOREM Refinement == MaxCancels <= 1 => (Spec => Implements)
  <1> SUFFICES ASSUME MaxCancels <= 1 PROVE Spec => Implements
    OBVIOUS
  <1>1. Init => Bottom!Init
    BY DEF Init, Bottom!Init
  <1>2. Inv /\ [Next]_vars => [Bottom!Next]_(Bottom!vars)
    BY RefinementStep DEF Bottom!vars, outcome
  <1>3. Spec => []Inv
    BY Invariant
  <1> QED BY <1>1, <1>2, <1>3, PTL DEF Spec, Implements, Bottom!Spec

-----------------------------------------------------------------------------
(* The statistics *)

LEMMA StatsFields ==
  ASSUME NEW st \in StatsType, NEW n \in Nat
  PROVE  /\ Started(st).pending = Down(st.pending) /\ Started(st).in_progress = st.in_progress + 1
         /\ Waiting(st).pending = st.pending + 1 /\ Waiting(st).in_progress = Down(st.in_progress)
         /\ Done(st).pending = st.pending /\ Done(st).in_progress = Down(st.in_progress)
         /\ Scheduled(st, n).pending = st.pending + n /\ Scheduled(st, n).in_progress = st.in_progress
  BY DEF StatsType, Started, Waiting, Done, Scheduled

\* What the statistics count: works with a worker, and directories that wait.
Busy == {w \in Running : stage[w] # "vector"}
Waits == {d \in nodes : stage[Overview(d)] = "none"}

LEMMA CountedSets ==
  ASSUME TypeOK
  PROVE  /\ IsFiniteSet(Queued) /\ IsFiniteSet(Busy) /\ IsFiniteSet(Waits)
         /\ Cardinality(Queued) \in Nat /\ Cardinality(Busy) \in Nat /\ Cardinality(Waits) \in Nat
         /\ \A w \in Queued : Cardinality(Queued) >= 1
         /\ \A w \in Busy : Cardinality(Busy) >= 1
  <1>1. Queued \in SUBSET Works /\ Busy \in SUBSET Works /\ Waits \subseteq Dirs
    BY DEF Queued, Busy, Running, Waits, TypeOK
  <1>2. IsFiniteSet(Queued) /\ IsFiniteSet(Busy) /\ IsFiniteSet(Waits)
    BY <1>1, FiniteWorks, TreeAssumption, FS_Subset
  <1>3. Cardinality(Queued) \in Nat /\ Cardinality(Busy) \in Nat /\ Cardinality(Waits) \in Nat
    BY <1>2, FS_CardinalityType
  <1>4. (Queued # {} => Cardinality(Queued) # 0) /\ (Busy # {} => Cardinality(Busy) # 0)
    BY <1>2, FS_EmptySet
  <1> QED BY <1>2, <1>3, <1>4

\* A worker takes a work.
LEMMA BeginStats ==
  ASSUME TypeOK, StatsExact, ~closed, NEW w \in Works, NEW s \in {"list", "summary", "generate"},
         stage[w] = "queued", stage' = [stage EXCEPT ![w] = s], nodes' = nodes, stats' = Started(stats)
  PROVE  StatsExact'
  <1>1. \A x \in Works : stage'[x] = IF x = w THEN s ELSE stage[x]
    BY DEF TypeOK
  <1>2. Queued' = Queued \ {w} /\ w \in Queued
    BY <1>1 DEF Queued
  <1>3. Busy' = Busy \cup {w} /\ w \notin Busy
    BY <1>1 DEF Busy, Running
  <1>4. Waits' = Waits
    <2>1. \A d \in Dirs : stage'[Overview(d)] = "none" <=> stage[Overview(d)] = "none"
      BY <1>1, WorkForms
    <2> QED BY <2>1 DEF Waits, TypeOK
  <1>5. /\ Cardinality(Queued') = Cardinality(Queued) - 1 /\ Cardinality(Queued) >= 1
        /\ Cardinality(Busy') = Cardinality(Busy) + 1
    BY <1>2, <1>3, CountedSets, FS_AddElement, FS_RemoveElement
  <1>6. /\ stats.in_progress = Cardinality(Busy)
        /\ stats.pending = Cardinality(Queued) + Cardinality(Waits)
        /\ Cardinality(Queued) \in Nat /\ Cardinality(Waits) \in Nat
    BY CountedSets DEF StatsExact, Busy, Waits
  <1>7. stats'.pending = Down(stats.pending) /\ stats'.in_progress = stats.in_progress + 1
    BY StatsFields DEF TypeOK, StatsType
  <1>8. /\ stats'.in_progress = Cardinality(Busy')
        /\ stats'.pending = Cardinality(Queued') + Cardinality(Waits')
    BY <1>4, <1>5, <1>6, <1>7 DEF Down
  <1> QED BY <1>8 DEF StatsExact, Busy, Waits

\* A work ends; gone is its directory when that is forgotten, new the overview that
\* it makes due.
Ends(w, gone, new) ==
  /\ \A x \in Works : stage'[x] = IF x = w THEN "over" ELSE IF x \in new THEN "queued" ELSE stage[x]
  /\ nodes' = nodes \ gone
  /\ gone = {} \/ \E d \in Dirs : w = Overview(d) /\ gone = {d}
  /\ new = {} \/ \E p \in nodes : new = {Overview(p)} /\ stage[Overview(p)] = "none"

LEMMA EndStats ==
  ASSUME TypeOK, NEW w \in Works, stage[w] \notin {"none", "over"}, NEW gone, NEW new, Ends(w, gone, new)
  PROVE  /\ Busy' = Busy \ {w}
         /\ Cardinality(Queued') + Cardinality(Waits') = Cardinality(Queued \ {w}) + Cardinality(Waits)
  <1>1. \A x \in Works : stage'[x] = IF x = w THEN "over" ELSE IF x \in new THEN "queued" ELSE stage[x]
    BY DEF Ends
  <1>2. \A x \in new : stage[x] = "none" /\ x # w
    BY DEF Ends
  <1>3. Busy' = Busy \ {w}
    BY <1>1, <1>2 DEF Busy, Running
  <1>4. CASE new = {}
    <2>1. Queued' = Queued \ {w}
      BY <1>1, <1>4 DEF Queued
    <2>2. Waits' = Waits
      <3>1. \A d \in Dirs : stage'[Overview(d)] = "none" <=> stage[Overview(d)] = "none"
        BY <1>1, <1>4, WorkForms
      <3>2. \A d \in gone : stage[Overview(d)] # "none"
        BY DEF Ends
      <3> QED BY <3>1, <3>2 DEF Waits, TypeOK, Ends
    <2> QED BY <1>3, <2>1, <2>2
  <1>5. ASSUME NEW p \in nodes, new = {Overview(p)}, stage[Overview(p)] = "none"
        PROVE  Cardinality(Queued') + Cardinality(Waits') = Cardinality(Queued \ {w}) + Cardinality(Waits)
    <2>1. p \in Dirs /\ Overview(p) \in Works /\ Overview(p) # w
      BY <1>5, WorkForms DEF TypeOK
    <2>2. Queued' = (Queued \ {w}) \cup {Overview(p)} /\ Overview(p) \notin Queued \ {w}
      BY <1>1, <1>5, <2>1 DEF Queued
    <2>3. Waits' = Waits \ {p} /\ p \in Waits
      <3>1. \A d \in Dirs : stage'[Overview(d)] = "none" <=> stage[Overview(d)] = "none" /\ d # p
        BY <1>1, <1>5, <2>1, WorkForms
      <3>2. \A d \in gone : stage[Overview(d)] # "none"
        BY DEF Ends
      <3> QED BY <1>5, <3>1, <3>2 DEF Waits, TypeOK, Ends
    <2>4. IsFiniteSet(Queued \ {w}) /\ IsFiniteSet(Waits)
      BY CountedSets, FS_RemoveElement
    <2>5. /\ Cardinality(Queued') = Cardinality(Queued \ {w}) + 1 /\ Cardinality(Waits') = Cardinality(Waits) - 1
          /\ Cardinality(Queued \ {w}) \in Nat /\ Cardinality(Waits) \in Nat
      BY <2>2, <2>3, <2>4, FS_AddElement, FS_RemoveElement, FS_CardinalityType
    <2> QED BY <2>5
  <1> QED BY <1>3, <1>4, <1>5 DEF Ends

\* The statistics after the end of a work that was queued, was in a file's vectors,
\* or was in any other step.
LEMMA FinishStats ==
  ASSUME TypeOK, StatsExact, ~closed, NEW w \in Works, stage[w] \notin {"none", "over"}, NEW gone, NEW new,
         Ends(w, gone, new),
         \/ stage[w] = "queued" /\ stats' = Done(Started(stats))
         \/ stage[w] = "vector" /\ stats' = stats
         \/ stage[w] \notin {"queued", "vector"} /\ stats' = Done(stats)
  PROVE  StatsExact'
  <1>1. /\ stats.in_progress = Cardinality(Busy)
        /\ stats.pending = Cardinality(Queued) + Cardinality(Waits)
        /\ Cardinality(Queued) \in Nat /\ Cardinality(Waits) \in Nat /\ Cardinality(Busy) \in Nat
    BY CountedSets DEF StatsExact, Busy, Waits
  <1>2. /\ Cardinality(Busy') = Cardinality(Busy \ {w})
        /\ Cardinality(Queued') + Cardinality(Waits') = Cardinality(Queued \ {w}) + Cardinality(Waits)
    BY EndStats
  <1>3. stats \in StatsType /\ Started(stats) \in StatsType /\ 0 \in Nat
    BY StatsTypes DEF TypeOK, StatsType
  <1>4. /\ stats'.in_progress = Cardinality(Busy \ {w})
        /\ stats'.pending = Cardinality(Queued \ {w}) + Cardinality(Waits)
    <2>1. CASE stage[w] = "queued" /\ stats' = Done(Started(stats))
      <3>1. w \in Queued /\ w \notin Busy
        BY <2>1 DEF Queued, Busy, Running
      <3>2. Cardinality(Queued \ {w}) = Cardinality(Queued) - 1 /\ Cardinality(Queued) >= 1
        BY <3>1, CountedSets, FS_RemoveElement
      <3>3. Busy \ {w} = Busy
        BY <3>1
      <3>4. stats'.pending = Down(stats.pending) /\ stats'.in_progress = Down(stats.in_progress + 1)
        BY <1>3, <2>1, StatsFields
      <3>5. stats'.in_progress = Cardinality(Busy)
        BY <1>1, <3>4 DEF Down
      <3>6. stats'.pending = Cardinality(Queued) + Cardinality(Waits) - 1
        BY <1>1, <3>2, <3>4 DEF Down
      <3>7. stats'.pending = Cardinality(Queued \ {w}) + Cardinality(Waits)
        BY <1>1, <3>2, <3>6
      <3> QED BY <3>3, <3>5, <3>7
    <2>2. CASE stage[w] = "vector" /\ stats' = stats
      <3>1. Queued \ {w} = Queued /\ Busy \ {w} = Busy
        BY <2>2 DEF Queued, Busy, Running
      <3> QED BY <1>1, <2>2, <3>1
    <2>3. CASE stage[w] \notin {"queued", "vector"} /\ stats' = Done(stats)
      <3>1. w \notin Queued /\ w \in Busy
        BY <2>3 DEF Queued, Busy, Running
      <3>2. Cardinality(Busy \ {w}) = Cardinality(Busy) - 1 /\ Cardinality(Busy) >= 1
        BY <3>1, CountedSets, FS_RemoveElement
      <3>3. Queued \ {w} = Queued
        BY <3>1
      <3>4. stats'.pending = stats.pending /\ stats'.in_progress = Down(stats.in_progress)
        BY <1>3, <2>3, StatsFields
      <3>5. stats'.in_progress = Cardinality(Busy \ {w})
        BY <1>1, <3>2, <3>4 DEF Down
      <3> QED BY <1>1, <3>4, <3>3, <3>5
    <2> QED BY <2>1, <2>2, <2>3
  <1>5. /\ stats'.in_progress = Cardinality(Busy')
        /\ stats'.pending = Cardinality(Queued') + Cardinality(Waits')
    BY <1>2, <1>4
  <1> QED BY <1>5 DEF StatsExact, Busy, Waits

\* A directory has as many works for its entries as entries.
LEMMA KidWorks ==
  ASSUME NEW d \in Dirs
  PROVE  LET W == {EntryWork(e) : e \in Kids(d)}
         IN  IsFiniteSet(W) /\ Cardinality(W) = Cardinality(Kids(d))
  <1> DEFINE W == {EntryWork(e) : e \in Kids(d)}
             f == [e \in Kids(d) |-> EntryWork(e)]
  <1>1. \A e \in Kids(d) : e \in Entries
    BY KidsFacts
  <1>2. f \in [Kids(d) -> W] /\ \A x \in W : \E e \in Kids(d) : f[e] = x
    OBVIOUS
  <1>3. \A e, g \in Kids(d) : f[e] = f[g] => e = g
    BY <1>1, EntryWorkForms
  <1> HIDE DEF f, W
  <1>4. f \in Injection(Kids(d), W) /\ f \in Surjection(Kids(d), W)
    BY <1>2, <1>3 DEF Injection, IsInjective, Surjection
  <1>5. ExistsBijection(Kids(d), W)
    BY <1>4 DEF Bijection, ExistsBijection
  <1>6. IsFiniteSet(W) /\ Cardinality(W) = Cardinality(Kids(d))
    BY <1>5, KidsFacts, FS_Bijection
  <1> QED BY <1>6 DEF W

\* A directory is listed: its entries are queued and it waits for them, or its
\* overview is queued.
LEMMA ListedStats ==
  ASSUME TypeOK, Shape, StatsExact, ~closed, NEW w \in Works, Listed(w)
  PROVE  StatsExact'
  <1> DEFINE d == w.node
             W == {EntryWork(e) : e \in Kids(d)}
             new == IF Kids(d) = {} THEN {Overview(d)} ELSE W
  <1>1. d \in Dirs /\ w = DirWork(d) /\ stage[w] = "list"
    BY WorkForms DEF Listed, Shape, FileInv, OverviewInv
  <1>2. /\ d \notin nodes /\ stage[Overview(d)] = "none" /\ Overview(d) \in Works /\ Overview(d) # w
        /\ \A e \in Kids(d) : stage[EntryWork(e)] = "none" /\ EntryWork(e) \in Works /\ EntryWork(e).kind # "overview"
    <2>1. \A e \in Kids(d) : EntryWork(e) \in Works /\ EntryWork(e).kind # "overview"
      BY <1>1, KidsFacts, EntryWorkForms
    <2> QED BY <1>1, <2>1, WorkForms DEF Shape, DirInv
  <1>3. /\ nodes' = nodes \cup {d}
        /\ stats' = Scheduled(Waiting(stats), Cardinality(Kids(d)))
        /\ stage' = [x \in Works |-> IF x = w THEN "over" ELSE IF x \in new THEN "queued" ELSE stage[x]]
    BY DEF Listed, Submit, EntryWork
  <1>4. \A x \in new : x \in Works /\ stage[x] = "none" /\ x # w
    BY <1>1, <1>2
  <1>5. Cardinality(Kids(d)) \in Nat /\ IsFiniteSet(Kids(d)) /\ IsFiniteSet(W) /\ Cardinality(W) = Cardinality(Kids(d))
    BY <1>1, KidsFacts, KidWorks
  <1>6. Kids(d) = {} => Cardinality(Kids(d)) = 0
    BY FS_EmptySet
  <1>7. \A x \in Dirs : Overview(x) \in W => FALSE
    BY <1>2, WorkForms
  <1> HIDE DEF W
  <1>8. \A x \in Works : stage'[x] = IF x = w THEN "over" ELSE IF x \in new THEN "queued" ELSE stage[x]
    BY <1>3
  <1>9. Busy' = Busy \ {w} /\ w \in Busy
    BY <1>1, <1>4, <1>8 DEF Busy, Running
  <1>10. Queued' = Queued \cup new /\ Queued \cap new = {}
    BY <1>1, <1>4, <1>8 DEF Queued
  <1>11. /\ stats.in_progress = Cardinality(Busy)
         /\ stats.pending = Cardinality(Queued) + Cardinality(Waits)
         /\ Cardinality(Queued) \in Nat /\ Cardinality(Waits) \in Nat /\ Cardinality(Busy) \in Nat
    BY CountedSets DEF StatsExact, Busy, Waits
  <1>12. /\ stats'.in_progress = Down(stats.in_progress)
         /\ stats'.pending = stats.pending + 1 + Cardinality(Kids(d))
    <2>1. stats \in StatsType /\ Waiting(stats) \in StatsType
      BY <1>5, StatsTypes DEF TypeOK, StatsType
    <2> QED BY <1>3, <1>5, <2>1, StatsFields
  <1>13. Cardinality(Busy') = Cardinality(Busy) - 1 /\ Cardinality(Busy) >= 1
    BY <1>9, CountedSets, FS_RemoveElement
  <1>14. stats'.in_progress = Cardinality(Busy')
    BY <1>11, <1>12, <1>13 DEF Down
  <1>15. Cardinality(Queued') + Cardinality(Waits') = Cardinality(Queued) + Cardinality(Waits) + 1 + Cardinality(Kids(d))
    <2>1. CASE Kids(d) = {}
      <3>1. Cardinality(Queued') = Cardinality(Queued) + 1
        <4>1. Queued' = Queued \cup {Overview(d)} /\ Overview(d) \notin Queued
          BY <1>10, <2>1
        <4> QED BY <4>1, CountedSets, FS_AddElement
      <3>2. Waits' = Waits
        <4>1. \A x \in Dirs : stage'[Overview(x)] = "none" <=> stage[Overview(x)] = "none" /\ x # d
          BY <1>1, <1>2, <1>8, <2>1, WorkForms
        <4> QED BY <1>1, <1>2, <1>3, <4>1 DEF Waits, TypeOK
      <3> QED BY <1>6, <1>11, <2>1, <3>1, <3>2
    <2>2. CASE Kids(d) # {}
      <3>1. Cardinality(Queued') = Cardinality(Queued) + Cardinality(Kids(d))
        <4>1. Queued' = Queued \cup W /\ Queued \cap W = {}
          BY <1>10, <2>2
        <4>2. Cardinality(Queued \cap W) = 0
          BY <4>1, FS_EmptySet
        <4>3. Cardinality(Queued \cup W) = Cardinality(Queued) + Cardinality(W) - Cardinality(Queued \cap W)
          BY <1>5, CountedSets, FS_Union
        <4> QED BY <1>5, <1>11, <4>1, <4>2, <4>3
      <3>2. Waits' = Waits \cup {d} /\ d \notin Waits
        <4>1. \A x \in Dirs : stage'[Overview(x)] = "none" <=> stage[Overview(x)] = "none"
          BY <1>1, <1>2, <1>7, <1>8, <2>2, WorkForms
        <4> QED BY <1>1, <1>2, <1>3, <4>1 DEF Waits, TypeOK
      <3>3. Cardinality(Waits') = Cardinality(Waits) + 1
        BY <3>2, CountedSets, FS_AddElement
      <3> QED BY <1>5, <1>11, <3>1, <3>3
    <2> QED BY <2>1, <2>2
  <1>16. stats'.pending = Cardinality(Queued') + Cardinality(Waits')
    BY <1>5, <1>11, <1>12, <1>15
  <1> QED BY <1>14, <1>16 DEF StatsExact, Busy, Waits

\* A report of an open executor is an end of its work.
LEMMA ReportEnds ==
  ASSUME TypeOK, Shape, ~closed, NEW w \in Works, NEW e \in Entries, NEW st, NEW gone,
         Last(w, e, gone),
         \/ e # Root /\ Report(w, e, st, gone)
         \/ e = Root /\ RootReport(w, e, st, gone)
  PROVE  stats' = st /\ \E new : Ends(w, gone, new)
  <1>1. nodes' = nodes \ gone /\ stats' = st
    BY DEF Report, RootReport
  <1>2. gone = {} \/ \E d \in Dirs : w = Overview(d) /\ gone = {d}
    BY DEF Last
  <1>3. CASE Submit(w, "over", {})
    <2>1. \A x \in Works : stage'[x] = IF x = w THEN "over" ELSE IF x \in {} THEN "queued" ELSE stage[x]
      BY <1>3 DEF Submit
    <2>2. Ends(w, gone, {})
      BY <1>1, <1>2, <2>1 DEF Ends
    <2> QED BY <1>1, <2>2
  <1>4. CASE /\ e # Root /\ Parent[e] \in nodes /\ Parent[e] \notin scheduled
             /\ Submit(w, "over", {Overview(Parent[e])})
    <2>1. \A x \in Works : stage'[x] = IF x = w THEN "over"
                                       ELSE IF x \in {Overview(Parent[e])} THEN "queued" ELSE stage[x]
      BY <1>4 DEF Submit
    <2>2. stage[Overview(Parent[e])] = "none"
      BY <1>4 DEF Shape, OverviewInv, TypeOK
    <2>3. Ends(w, gone, {Overview(Parent[e])})
      BY <1>1, <1>2, <1>4, <2>1, <2>2 DEF Ends
    <2> QED BY <1>1, <2>3
  <1> QED BY <1>3, <1>4 DEF Report, RootReport

\* A report keeps the statistics exact.
LEMMA ReportStats ==
  ASSUME TypeOK, Shape, StatsExact, ~closed, NEW w \in Works, NEW e \in Entries, NEW st, NEW gone,
         Last(w, e, gone), stage[w] \notin {"none", "over"},
         \/ e # Root /\ Report(w, e, st, gone)
         \/ e = Root /\ RootReport(w, e, st, gone),
         \/ stage[w] = "queued" /\ st = Done(Started(stats))
         \/ stage[w] = "vector" /\ st = stats
         \/ stage[w] \notin {"queued", "vector"} /\ st = Done(stats)
  PROVE  StatsExact'
  <1>1. stats' = st /\ \E new : Ends(w, gone, new)
    BY ReportEnds
  <1>2. PICK new : Ends(w, gone, new)
    BY <1>1
  <1> QED BY <1>1, <1>2, FinishStats

\* A work goes on: a file to its vectors, for which it is no longer counted, an
\* overview to its next await.
LEMMA MoveStats ==
  ASSUME TypeOK, StatsExact, ~closed, NEW w \in Works, NEW s, Step(w, s),
         \/ stage[w] = "summary" /\ s = "vector" /\ stats' = Done(stats)
         \/ stage[w] \in {"generate", "write"} /\ s \in {"write", "dirvector"} /\ stats' = stats
  PROVE  StatsExact'
  <1>1. nodes' = nodes /\ \A x \in Works : stage'[x] = IF x = w THEN s ELSE stage[x]
    BY DEF Step, TypeOK, dag
  <1>2. Queued' = Queued
    BY <1>1 DEF Queued
  <1>3. Waits' = Waits
    <2>1. \A d \in Dirs : stage'[Overview(d)] = "none" <=> stage[Overview(d)] = "none"
      BY <1>1, WorkForms
    <2> QED BY <1>1, <2>1 DEF Waits, TypeOK
  <1>4. /\ stats.in_progress = Cardinality(Busy)
        /\ stats.pending = Cardinality(Queued) + Cardinality(Waits)
        /\ Cardinality(Busy) \in Nat
    BY CountedSets DEF StatsExact, Busy, Waits
  <1>5. CASE stage[w] = "summary" /\ s = "vector" /\ stats' = Done(stats)
    <2>1. Busy' = Busy \ {w} /\ w \in Busy
      BY <1>1, <1>5 DEF Busy, Running
    <2>2. Cardinality(Busy') = Cardinality(Busy) - 1 /\ Cardinality(Busy) >= 1
      BY <2>1, CountedSets, FS_RemoveElement
    <2>3. stats'.pending = stats.pending /\ stats'.in_progress = Down(stats.in_progress)
      BY <1>5, StatsFields DEF TypeOK, StatsType
    <2>4. stats'.in_progress = Cardinality(Busy')
      BY <1>4, <2>2, <2>3 DEF Down
    <2>5. stats'.pending = Cardinality(Queued') + Cardinality(Waits')
      BY <1>2, <1>3, <1>4, <2>3
    <2> QED BY <2>4, <2>5 DEF StatsExact, Busy, Waits
  <1>6. CASE stage[w] \in {"generate", "write"} /\ s \in {"write", "dirvector"} /\ stats' = stats
    <2>1. Busy' = Busy
      BY <1>1, <1>6 DEF Busy, Running
    <2>2. stats'.in_progress = Cardinality(Busy') /\ stats'.pending = Cardinality(Queued') + Cardinality(Waits')
      BY <1>2, <1>3, <1>4, <1>6, <2>1
    <2> QED BY <2>2 DEF StatsExact, Busy, Waits
  <1> QED BY <1>5, <1>6

LEMMA OverviewDoneStats ==
  ASSUME TypeOK, Shape, StatsExact, ~closed, NEW w \in Works,
         stage[w] \in {"generate", "write", "dirvector"}, OverviewDone(w)
  PROVE  StatsExact'
  <1> DEFINE d == w.node
  <1>1. d \in Dirs /\ w = Overview(d) /\ d \in Entries
    BY WorkForms DEF Entries, Shape, FileInv, DirInv
  <1>2. d \in parents /\ Last(w, d, {d})
    BY <1>1, OverviewLast
  <1>3. \/ d # Root /\ Report(w, d, Done(stats), {d})
        \/ d = Root /\ RootReport(w, d, Done(stats), {d})
    BY <1>2 DEF OverviewDone
  <1> HIDE DEF d
  <1> QED BY <1>1, <1>2, <1>3, ReportStats

LEMMA WorkStats ==
  ASSUME TypeOK, Shape, StatsExact, ~closed, ~closed', NEW w \in Works, Work(w)
  PROVE  StatsExact'
  <1>1. /\ stage[w] = "list" => w.kind = "dir"
        /\ stage[w] \in {"summary", "vector"} => w.kind = "file"
    BY WorkForms DEF Shape, DirInv, FileInv, OverviewInv
  <1>2. w.kind = "file" => w.node \in Entries /\ w.node # Root /\ w.node \notin Dirs /\ w = EntryWork(w.node)
    BY WorkForms, EntryWorkForms, TreeAssumption DEF Entries
  <1>3. w.kind = "dir" => w.node \in Dirs /\ w.node \in Entries /\ w = DirWork(w.node) /\ w = EntryWork(w.node)
    BY WorkForms, EntryWorkForms DEF Entries
  <1>4. w.kind = "overview" => w.node \in Dirs /\ w = Overview(w.node)
    BY WorkForms
  <1>5. ASSUME stage[w] \in {"summary", "vector"} PROVE Last(w, w.node, {})
    <2>1. w.node \notin finished
      BY <1>1, <1>2, <1>5, WorkForms DEF Shape, FileInv
    <2> QED BY <1>1, <1>2, <1>5, <2>1 DEF Last
  <1>6. ASSUME NEW st, Raise(w, st) PROVE FALSE
    BY <1>6 DEF Raise, fail
  <1>7. CASE Take(w)
    <2>0. stage[w] = "queued" /\ stage[w] \notin {"none", "over"}
      BY <1>7 DEF Take
    <2>1. (w.kind = "dir" => w.node \notin nodes) /\ (w.kind = "overview" => w.node \in nodes)
      BY <1>3, <1>4, <2>0 DEF Shape, DirInv, OverviewInv
    <2>2. CASE Step(w, "summary") /\ stats' = Started(stats)
      BY <2>0, <2>2, BeginStats DEF Step, dag
    <2>3. CASE Step(w, "generate") /\ stats' = Started(stats)
      BY <2>0, <2>3, BeginStats DEF Step, dag
    <2>4. CASE stage' = [stage EXCEPT ![w] = "list"] /\ stats' = Started(stats) /\ UNCHANGED nodes
      BY <2>0, <2>4, BeginStats
    <2>5. CASE w.kind = "overview" /\ w.node = Root /\ RootReport(w, Root, Done(Started(stats)), {Root})
      <3>1. Last(w, Root, {Root}) /\ Root \in Entries
        BY <1>4, <2>0, <2>5, OverviewLast DEF Entries
      <3> QED BY <2>0, <2>5, <3>1, ReportStats
    <2>6. CASE w.kind = "overview" /\ w.node # Root /\ ~Aggregate
      BY <1>4, <2>0, <2>6, OverviewLast, ConfigAssumption
    <2> QED BY <1>7, <2>1, <2>2, <2>3, <2>4, <2>5, <2>6 DEF Take
  <1>8. CASE Listed(w)
    BY <1>8, ListedStats
  <1>9. CASE ListFails(w)
    <2>1. stage[w] = "list" /\ w.kind = "dir"
      BY <1>1, <1>9 DEF ListFails
    <2>2. Last(w, w.node, {})
      BY <1>3, <2>1 DEF Last, Shape, DirInv
    <2>3. \/ w.node # Root /\ Report(w, w.node, Done(stats), {})
          \/ w.node = Root /\ RootReport(w, w.node, Done(stats), {})
      BY <1>9 DEF ListFails
    <2> QED BY <1>3, <2>1, <2>2, <2>3, ReportStats
  <1>10. CASE Summarised(w)
    <2>1. stage[w] = "summary" /\ w.kind = "file"
      BY <1>1, <1>10 DEF Summarised
    <2>2. CASE Report(w, w.node, Done(stats), {})
      BY <1>2, <1>5, <2>1, <2>2, ReportStats
    <2>3. CASE Step(w, "vector") /\ stats' = Done(stats)
      BY <2>1, <2>3, MoveStats
    <2> QED BY <1>6, <1>10, <2>2, <2>3 DEF Summarised
  <1>11. CASE Vectorised(w)
    <2>1. stage[w] = "vector" /\ w.kind = "file"
      BY <1>1, <1>11 DEF Vectorised
    <2>2. CASE Report(w, w.node, stats, {})
      BY <1>2, <1>5, <2>1, <2>2, ReportStats
    <2> QED BY <1>6, <1>11, <2>2 DEF Vectorised
  <1>12. CASE Generated(w) \/ Written(w) \/ DirVectorised(w)
    <2>1. stage[w] \in {"generate", "write", "dirvector"}
      BY <1>12 DEF Generated, Written, DirVectorised
    <2>2. CASE OverviewDone(w)
      BY <2>1, <2>2, OverviewDoneStats
    <2>3. CASE /\ stage[w] \in {"generate", "write"} /\ stats' = stats
               /\ Step(w, "write") \/ Step(w, "dirvector")
      BY <2>3, MoveStats
    <2> QED BY <1>6, <1>12, <2>2, <2>3 DEF Generated, Written, DirVectorised
  <1> QED BY <1>7, <1>8, <1>9, <1>10, <1>11, <1>12 DEF Work

\* The counters of get_active_stats are exact until the executor closes, for every
\* tree: the clamped decrements of DagStats never hide a miscount.
THEOREM StatsCorrect == Spec => []StatsExact
  <1>1. ASSUME Init PROVE StatsExact
    <2>1. /\ \A x \in Works : stage[x] = IF x = DirWork(Root) THEN "queued" ELSE "none"
          /\ nodes = {} /\ stats.pending = 1 /\ stats.in_progress = 0
      BY <1>1 DEF Init
    <2>2. Queued = {DirWork(Root)} /\ Busy = {} /\ Waits = {}
      BY <2>1, WorkForms, TreeAssumption DEF Queued, Busy, Running, Waits
    <2>3. Cardinality(Queued) = 1 /\ Cardinality(Busy) = 0 /\ Cardinality(Waits) = 0
      BY <2>2, FS_EmptySet, FS_Singleton
    <2> QED BY <2>1, <2>3 DEF StatsExact, Busy, Waits
  <1>2. ASSUME TypeOK, Shape, StatsExact, [Next]_vars PROVE StatsExact'
    <2>1. CASE closed'
      BY <2>1 DEF StatsExact
    <2>2. ASSUME ~closed', NEW w \in Works, Work(w) PROVE StatsExact'
      <3>1. ~closed
        BY <1>2, <2>2, WorkEffect DEF Effect, TypeOK
      <3> QED BY <1>2, <2>2, <3>1, WorkStats
    <2>3. CASE UNCHANGED <<stage, nodes, stats, closed>>
      BY <1>2, <2>3 DEF StatsExact, Running, Queued
    <2>4. ~closed' => (\E w \in Works : Work(w)) \/ UNCHANGED <<stage, nodes, stats, closed>>
      BY <1>2 DEF Next, WorkerExits, RootWakes, Drained, Cancel, vars, dag
    <2> QED BY <2>1, <2>2, <2>3, <2>4
  <1> QED BY <1>1, <1>2, ShapeInvariant, PTL DEF Spec

=============================================================================
