------------------------ MODULE ResourceWatchProofs ------------------------
(***************************************************************************)
(* Proofs about ResourceWatch.  The inductive invariant has five parts:    *)
(* Typed (types, and the arguments a request or a run has at each point),  *)
(* LeaseInv (who holds which lease, and what excludes what), IndexInv (the *)
(* index of the table and of what a rollback restores), FileInv (the file, *)
(* its backup and the table between the steps of a save) and FollowInv     *)
(* (the table and the places of the resources during a move).              *)
(***************************************************************************)
EXTENDS ResourceWatch, SequenceTheorems, TLAPS

\* A move somebody asked for.
Asks(from, to) == \E q \in Requests : q.op = "move" /\ q.from = from /\ q.to = to

\* What a request, a run, a move and a removal know at each point.
Args ==
  /\ \A t \in Tasks : run[t].pc # "off" => run[t].uri \in Uris
  /\ client.pc \in {"lookup", "create", "insert"} => client.uri \in Uris
  /\ client.pc # "off" /\ client.op = "watch" => client.uri \in Uris
  /\ client.pc \in {"insert", "snapshot", "access", "apply"} => client.task \in Tasks
  /\ client.pc \in {"access", "apply"} => client.at \in Uris
  /\ mover.pc # "off" => Asks(mover.from, mover.to)
  /\ remover.pc # "off" => remover.uri \in Uris

\* The actor that saves waits for its save, and a move waits for no other's.
Saver ==
  /\ lock # None =>
       /\ lock.by \in Tasks => run[lock.by].pc = "save"
       /\ lock.by = "client" => client.pc = "save"
       /\ lock.by = "mover" => mover.pc = "save"
       /\ lock.by = "remover" => remover.pc = "save"
  /\ mover.pc = "save" => lock # None /\ lock.by = "mover"

Typed == TypeOK /\ Args /\ Saver

\* A mutation overlaps no other lease.
Exclusive ==
  \A a, b \in Actors :
    a # b /\ held[a] # None /\ held[b] # None /\ held[a].mutation
      => ~Overlap(held[a].uris, held[b].uris)

\* The leases of those who rely on them.
Holds ==
  /\ \A t \in Tasks :
       run[t].pc \notin {"off", "due", "wait"} =>
         held[t] = [mutation |-> FALSE, uris |-> {run[t].uri}]
  /\ client.pc = "insert" => held["client"] # None /\ client.uri \in held["client"].uris
  /\ client.pc = "apply" /\ client.op = "watch" =>
       held["client"] # None /\ client.uri \in held["client"].uris
  /\ mover.pc \notin {"off", "wait"} =>
       held["mover"] = [mutation |-> TRUE, uris |-> {mover.from, mover.to}]

LeaseInv == Exclusive /\ Holds

Exact(tab, ind) ==
  \A t \in Tasks, u \in Uris : ind[u] = t <=> (tab[t] # None /\ tab[t].uri = u)

\* No two tasks of a table have the same target.
Distinct(tab) ==
  \A t, r \in Tasks : tab[t] # None /\ tab[r] # None /\ tab[t].uri = tab[r].uri => t = r

IndexInv ==
  /\ IndexExact
  /\ lock # None /\ lock.by = "mover" => Exact(lock.old, lock.oldIndex)
  /\ main # None => Distinct(main)
  /\ bak # None => Distinct(bak)

\* While a save that has something to fall back on is going on, the file or the
\* backup holds what was stored when it began, and the new file is complete.
FileInv ==
  lock # None /\ lock.stored # None =>
    /\ lock.step \in {"tmp", "rotate", "drop"} => main = lock.stored
    /\ lock.step \in {"drop", "publish", "finish"} => bak = lock.stored
    /\ lock.step = "publish" => main \in {None, lock.stored}
    /\ lock.step = "finish" => main = table

\* Every task of the table names the place of its resource, if that is still a
\* resource.
Follows == \A t \in Tasks : table[t] # None /\ home[t] # None => table[t].uri = home[t]

\* A table that the files have left: they are at the target of the move.
Displaced(tab) ==
  \A t \in Tasks : tab[t] # None /\ home[t] # None =>
    IF Under(tab[t].uri, mover.from)
    THEN t \in mover.plan /\ home[t] = Rewrite(tab[t].uri, mover.from, mover.to)
    ELSE home[t] = tab[t].uri /\ (t \in mover.plan => ~Under(home[t], mover.to))

FollowInv ==
  crashes = 0 /\ halves = 0 =>
    /\ mover.pc \notin {"rewrite", "undo"} => Follows
    /\ mover.pc \in {"rewrite", "undo"} => Displaced(table)
    /\ mover.pc = "save" => Displaced(lock.old)

Inv == Typed /\ LeaseInv /\ IndexInv /\ FileInv /\ FollowInv

-----------------------------------------------------------------------------
(* Prefixes.                                                               *)

LEMMA UriSeq == \A u \in Uris : u \in Seq(STRING)
BY WatchAssumption

\* A name below from, moved to to, is below to.
LEMMA RewriteUnder ==
  ASSUME NEW u \in Seq(STRING), NEW from \in Seq(STRING), NEW to \in Seq(STRING), Under(u, from)
  PROVE  /\ Under(Rewrite(u, from, to), to)
         /\ Rewrite(Rewrite(u, from, to), to, from) = u
<1> DEFINE rest == SubSeq(u, Len(from) + 1, Len(u))
           w == to \o rest
<1>1. Len(from) <= Len(u) /\ SubSeq(from, 1, Len(from)) = SubSeq(u, 1, Len(from))
  BY DEF Under, IsPrefix
<1>2. rest \in Seq(STRING) /\ Len(rest) = Len(u) - Len(from)
  BY <1>1, SubSeqProperties
<1>3. w \in Seq(STRING) /\ Len(w) = Len(to) + Len(rest)
  BY <1>2, ConcatProperties
<1>4. Rewrite(u, from, to) = w
  BY DEF Rewrite
<1>5. SubSeq(w, 1, Len(to)) = SubSeq(to, 1, Len(to))
  BY <1>2, SubSeqOfConcat1
<1>6. Under(w, to)
  BY <1>2, <1>3, <1>5 DEF Under, IsPrefix
<1>7. SubSeq(w, Len(to) + 1, Len(w)) = SubSeq(rest, 1, Len(rest))
  <2> HIDE DEF rest
  <2>1. SubSeq(w, Len(to) + 1, Len(w)) = SubSeq(rest, Len(to) + 1 - Len(to), Len(w) - Len(to))
    BY <1>2, <1>3, SubSeqOfConcat2
  <2>2. Len(to) + 1 - Len(to) = 1 /\ Len(w) - Len(to) = Len(rest)
    BY <1>2, <1>3
  <2> QED BY <2>1, <2>2
<1>8. SubSeq(rest, 1, Len(rest)) = rest /\ SubSeq(from, 1, Len(from)) = from
  BY <1>2, SubSeqFull
<1>9. Rewrite(w, to, from) = SubSeq(u, 1, Len(from)) \o rest
  BY <1>1, <1>7, <1>8 DEF Rewrite
<1>10. SubSeq(u, 1, Len(from)) \o rest = SubSeq(u, 1, Len(u))
  <2>1. /\ 1 \in 1 .. Len(u) + 1 /\ Len(from) \in (1 - 1) .. Len(u)
        /\ Len(u) \in Len(from) .. Len(u)
    BY <1>1
  <2> HIDE DEF rest
  <2>2. SubSeq(u, 1, Len(from)) \o SubSeq(u, Len(from) + 1, Len(u)) = SubSeq(u, 1, Len(u))
    BY <2>1, ConcatAdjacentSubSeq, Zenon
  <2> QED BY <2>2 DEF rest
<1>11. SubSeq(u, 1, Len(u)) = u
  BY SubSeqFull
<1> HIDE DEF rest, w
<1> QED BY <1>4, <1>6, <1>9, <1>10, <1>11

\* The two places of a move that was asked for.
LEMMA AskedMove ==
  ASSUME NEW from, NEW to, Asks(from, to)
  PROVE  /\ from \in Uris /\ to \in Uris
         /\ \A u \in Uris : Under(u, from) =>
              /\ Rewrite(u, from, to) \in Uris /\ Under(Rewrite(u, from, to), to)
              /\ Rewrite(Rewrite(u, from, to), to, from) = u
         /\ \A u \in Uris : Under(u, to) => Rewrite(u, to, from) \in Uris
<1>1. PICK q \in Requests : q.op = "move" /\ q.from = from /\ q.to = to
  BY DEF Asks
<1>2. from \in Uris /\ to \in Uris
  BY <1>1, WatchAssumption
<1>3. \A u \in Uris : Under(u, from) => Rewrite(u, from, to) \in Uris
  BY <1>1, MoveAssumption
<1>4. \A u \in Uris : Under(u, to) => Rewrite(u, to, from) \in Uris
  BY <1>1, MoveAssumption
<1>5. \A u \in Uris : Under(u, from) =>
        Under(Rewrite(u, from, to), to) /\ Rewrite(Rewrite(u, from, to), to, from) = u
  BY <1>2, UriSeq, RewriteUnder
<1> QED BY <1>2, <1>3, <1>4, <1>5

LEMMA OverlapSymmetric ==
  ASSUME NEW us, NEW vs, Overlap(us, vs)
  PROVE  Overlap(vs, us)
BY Zenon DEF Overlap

\* What is at or below a place, or above it, overlaps it.
LEMMA UnderOverlaps ==
  ASSUME NEW us, NEW vs, NEW u \in us, NEW v \in vs, ~Overlap(us, vs)
  PROVE  ~Under(u, v) /\ ~Under(v, u)
BY Zenon DEF Overlap, Under

-----------------------------------------------------------------------------
(* Types.                                                                  *)

LEMMA TableFacts ==
  ASSUME NEW tab \in Tables
  PROVE  /\ tab # None /\ DOMAIN tab = Tasks
         /\ \A t \in Tasks : tab[t] # None =>
              tab[t] \in Entries /\ tab[t].uri \in Uris /\ tab[t].active \in BOOLEAN
BY NoneAssumption DEF Tables, Entries

LEMMA EmptyTable == Empty \in Tables /\ Distinct(Empty)
BY DEF Empty, Tables, Distinct

LEMMA IndexOfType ==
  ASSUME NEW tab \in Tables
  PROVE  IndexOf(tab) \in [Uris -> Tasks \cup {None}]
<1>1. \A u \in Uris : (\E t \in Tasks : tab[t] # None /\ tab[t].uri = u) =>
        (CHOOSE t \in Tasks : tab[t] # None /\ tab[t].uri = u) \in Tasks
  OBVIOUS
<1> QED BY <1>1 DEF IndexOf

\* The index the loader builds is exact.
LEMMA IndexOfExact ==
  ASSUME NEW tab \in Tables, Distinct(tab)
  PROVE  Exact(tab, IndexOf(tab))
<1> SUFFICES ASSUME NEW t \in Tasks, NEW u \in Uris
             PROVE  IndexOf(tab)[u] = t <=> (tab[t] # None /\ tab[t].uri = u)
  BY DEF Exact
<1>1. CASE \E r \in Tasks : tab[r] # None /\ tab[r].uri = u
  <2>1. PICK r \in Tasks : r = IndexOf(tab)[u] /\ tab[r] # None /\ tab[r].uri = u
    BY <1>1 DEF IndexOf
  <2> QED BY <2>1 DEF Distinct
<1>2. CASE ~\E r \in Tasks : tab[r] # None /\ tab[r].uri = u
  <2>1. IndexOf(tab)[u] = None
    BY <1>2 DEF IndexOf
  <2> QED BY <1>2, <2>1, WatchAssumption
<1> QED BY <1>1, <1>2

\* The types of the variables, group by group.
StoreType ==
  /\ table \in Tables /\ index \in [Uris -> Tasks \cup {None}]
  /\ main \in Tables \cup {None} /\ bak \in Tables \cup {None}
  /\ lock \in Saves \cup {None}

LeaseType == held \in [Actors -> Leases \cup {None}]

PlaceType == home \in [Tasks -> Uris \cup {None}]

RunType ==
  run \in [Tasks -> [pc : {"off", "due", "wait", "confirm", "look", "refresh", "touch",
                           "disable", "save", "release"}, uri : Uris \cup {None}]]

ClientType ==
  client \in [pc : {"off", "lookup", "create", "insert", "snapshot", "access", "apply",
                    "save", "release"},
              op : {"watch", "unwatch", "delete"}, task : Tasks \cup {None},
              uri : Uris \cup {None}, at : Uris \cup {None}]

MoverType ==
  mover \in [pc : {"off", "wait", "validate", "move", "rewrite", "save", "undo", "release"},
             from : Uris \cup {None}, to : Uris \cup {None}, plan : SUBSET Tasks]

RemoverType == remover \in [pc : {"off", "wait", "sync", "save", "release"}, uri : Uris \cup {None}]

CountType ==
  /\ requests \in 0..MaxRequests /\ crashes \in 0..MaxTroubles /\ faults \in 0..MaxTroubles
  /\ halves \in Nat

LEMMA TypeGroups ==
  TypeOK <=> /\ StoreType /\ LeaseType /\ PlaceType /\ RunType /\ ClientType /\ MoverType
             /\ RemoverType /\ CountType
BY DEF TypeOK, StoreType, LeaseType, PlaceType, RunType, ClientType, MoverType, RemoverType, CountType

\* The same, with the arguments.
RunArgs    == \A t \in Tasks : run[t].pc # "off" => run[t].uri \in Uris
ClientArgs ==
  /\ client.pc \in {"lookup", "create", "insert"} => client.uri \in Uris
  /\ client.pc # "off" /\ client.op = "watch" => client.uri \in Uris
  /\ client.pc \in {"insert", "snapshot", "access", "apply"} => client.task \in Tasks
  /\ client.pc \in {"access", "apply"} => client.at \in Uris
MoverArgs   == mover.pc # "off" => Asks(mover.from, mover.to)
RemoverArgs == remover.pc # "off" => remover.uri \in Uris

RunOK     == RunType /\ RunArgs
ClientOK  == ClientType /\ ClientArgs
MoverOK   == MoverType /\ MoverArgs
RemoverOK == RemoverType /\ RemoverArgs

LEMMA TypedGroups ==
  Typed <=> /\ StoreType /\ LeaseType /\ PlaceType /\ RunOK /\ ClientOK /\ MoverOK
            /\ RemoverOK /\ CountType /\ Saver
BY TypeGroups DEF Typed, Args, RunOK, ClientOK, MoverOK, RemoverOK, RunArgs, ClientArgs, MoverArgs, RemoverArgs

\* TypedGroups after a step.
LEMMA TypedJoin ==
  (/\ StoreType' /\ LeaseType' /\ PlaceType' /\ RunOK' /\ ClientOK' /\ MoverOK'
   /\ RemoverOK' /\ CountType' /\ Saver') => Typed'
BY DEF Typed, TypeOK, Args, RunOK, ClientOK, MoverOK, RemoverOK, RunArgs, ClientArgs, MoverArgs, RemoverArgs,
   StoreType, LeaseType, PlaceType, RunType, ClientType, MoverType, RemoverType, CountType

\* A task that is switched off.
LEMMA SwitchedOff ==
  ASSUME NEW tab \in Tables, NEW t \in Tasks, tab[t] # None
  PROVE  /\ [tab EXCEPT ![t].active = FALSE] \in Tables
         /\ \A s \in Tasks : LET e == [tab EXCEPT ![t].active = FALSE][s] IN
              /\ e # None <=> tab[s] # None
              /\ e # None => e.uri = tab[s].uri
<1> DEFINE e == [tab[t] EXCEPT !.active = FALSE]
<1>0. tab[t] \in Entries
  BY TableFacts
<1>a. e \in Entries /\ e.uri = tab[t].uri
  BY <1>0 DEF Entries
<1>1. e \in Entries /\ e.uri = tab[t].uri /\ e # None
  BY <1>a, NoneAssumption
<1>2. [tab EXCEPT ![t].active = FALSE] = [tab EXCEPT ![t] = e]
  BY DEF Tables
<1> HIDE DEF e
<1>3. \A s \in Tasks : [tab EXCEPT ![t] = e][s] = IF s = t THEN e ELSE tab[s]
  BY DEF Tables
<1> QED BY <1>1, <1>2, <1>3 DEF Tables

LEMMA AcquireType ==
  ASSUME LeaseType, NEW a \in Actors, NEW us \in SUBSET Uris, NEW m \in BOOLEAN, Acquire(a, us, m)
  PROVE  LeaseType'
BY DEF Acquire, LeaseType, Leases

LEMMA ReleaseType ==
  ASSUME LeaseType, NEW a \in Actors, Release(a)
  PROVE  LeaseType'
BY DEF Release, LeaseType

LEMMA ChangeType ==
  ASSUME StoreType, NEW a \in Actors, NEW tab \in Tables, NEW ind \in [Uris -> Tasks \cup {None}],
         Change(a, tab, ind), UNCHANGED <<main, bak>>
  PROVE  /\ StoreType'
         /\ lock' # None /\ lock'.by = a /\ lock'.step = "tmp"
         /\ lock'.old = table /\ lock'.oldIndex = index /\ lock'.stored = main
<1>1. lock' \in Saves
  BY DEF Change, StoreType, Saves
<1> QED BY <1>1, NoneAssumption DEF Change, StoreType

LEMMA TasksActors ==
  /\ Tasks \subseteq Actors /\ {"client", "mover", "remover", "loader"} \subseteq Actors
  /\ "client" \notin Tasks /\ "mover" \notin Tasks /\ "remover" \notin Tasks /\ "loader" \notin Tasks
BY WatchAssumption DEF Actors

\* One run goes on and everybody else stays; nobody waits for a save of it.
LEMMA RunMoves ==
  ASSUME RunOK, Saver, NEW t \in Tasks, run[t].pc # "save",
         UNCHANGED <<lock, client, mover, remover>>,
         NEW r \in [pc : {"off", "due", "wait", "confirm", "look", "refresh", "touch",
                          "disable", "save", "release"}, uri : Uris \cup {None}],
         r.pc # "off" => r.uri \in Uris,
         run' = [run EXCEPT ![t] = r]
  PROVE  RunOK' /\ Saver'
<1>1. \A s \in Tasks : run'[s] = IF s = t THEN r ELSE run[s]
  BY DEF RunOK, RunType
<1>2. RunType'
  BY DEF RunOK, RunType
<1>3. RunArgs'
  BY <1>1 DEF RunOK, RunArgs
<1>4. Saver'
  BY <1>1 DEF Saver
<1> QED BY <1>2, <1>3, <1>4 DEF RunOK

\* The same for a run that changes the table.
LEMMA RunSaves ==
  ASSUME RunOK, Saver, Unlocked, NEW t \in Tasks, run[t].pc # "off",
         UNCHANGED <<client, mover, remover>>, lock' # None, lock'.by = t,
         RunGoto(t, "save")
  PROVE  RunOK' /\ Saver'
<1> DEFINE r == [run[t] EXCEPT !.pc = "save"]
<1>1. run' = [run EXCEPT ![t] = r] /\ r \in [pc : {"off", "due", "wait", "confirm", "look",
        "refresh", "touch", "disable", "save", "release"}, uri : Uris \cup {None}]
  BY DEF RunGoto, RunOK, RunType
<1>2. r.pc = "save" /\ r.uri = run[t].uri
  BY DEF RunOK, RunType
<1> HIDE DEF r
<1>3. \A s \in Tasks : run'[s] = IF s = t THEN r ELSE run[s]
  BY <1>1 DEF RunOK, RunType
<1>4. RunType'
  BY <1>1 DEF RunOK, RunType
<1>5. RunArgs'
  BY <1>2, <1>3 DEF RunOK, RunArgs
<1>6. Saver'
  <2>1. t \notin {"client", "mover", "remover"}
    BY TasksActors
  <2>2. mover'.pc # "save"
    BY DEF Saver, Unlocked
  <2> QED BY <1>2, <1>3, <2>1, <2>2 DEF Saver
<1> QED BY <1>4, <1>5, <1>6 DEF RunOK

LEMMA GotoRecord ==
  ASSUME RunOK, NEW t \in Tasks, run[t].pc # "off",
         NEW pc \in {"wait", "confirm", "look", "refresh", "touch", "disable", "save", "release"},
         RunGoto(t, pc)
  PROVE  \E r \in [pc : {"off", "due", "wait", "confirm", "look", "refresh", "touch",
                          "disable", "save", "release"}, uri : Uris \cup {None}] :
           run' = [run EXCEPT ![t] = r] /\ r.pc = pc /\ r.uri = run[t].uri /\ r.uri \in Uris
<1> DEFINE r == [run[t] EXCEPT !.pc = pc]
<1>1. run' = [run EXCEPT ![t] = r] /\ r \in [pc : {"off", "due", "wait", "confirm", "look",
        "refresh", "touch", "disable", "save", "release"}, uri : Uris \cup {None}]
  BY DEF RunGoto, RunOK, RunType
<1>2. r.pc = pc /\ r.uri = run[t].uri /\ run[t].uri \in Uris
  BY DEF RunOK, RunType, RunArgs
<1> QED BY <1>1, <1>2

LEMMA RunGoes ==
  ASSUME RunOK, Saver, NEW t \in Tasks, run[t].pc \notin {"off", "save"},
         UNCHANGED <<lock, client, mover, remover>>,
         NEW pc \in {"wait", "confirm", "look", "refresh", "touch", "disable", "save", "release"},
         RunGoto(t, pc)
  PROVE  RunOK' /\ Saver'
BY GotoRecord, RunMoves

\* Groups whose variables do not change.
LEMMA Unmoved ==
  /\ StoreType /\ UNCHANGED <<table, index, main, bak, lock>> => StoreType'
  /\ LeaseType /\ UNCHANGED held => LeaseType'
  /\ PlaceType /\ UNCHANGED home => PlaceType'
  /\ RunOK /\ UNCHANGED run => RunOK'
  /\ ClientOK /\ UNCHANGED client => ClientOK'
  /\ MoverOK /\ UNCHANGED mover => MoverOK'
  /\ RemoverOK /\ UNCHANGED remover => RemoverOK'
  /\ CountType /\ UNCHANGED <<requests, crashes, faults, halves>> => CountType'
<1>1. UNCHANGED mover => (Asks(mover.from, mover.to) => Asks(mover.from, mover.to)')
  BY DEF Asks
<1> QED
BY <1>1 DEF StoreType, LeaseType, PlaceType, RunOK, RunType, RunArgs, ClientOK, ClientType, ClientArgs,
   MoverOK, MoverType, MoverArgs, RemoverOK, RemoverType, RemoverArgs, CountType

LEMMA RunTyped ==
  ASSUME Typed, NEW t \in Tasks, StartRun(t) \/ RunStep(t)
  PROVE  Typed'
<1> USE TypedJoin, Unmoved, TasksActors
<1>0. /\ StoreType /\ LeaseType /\ PlaceType /\ RunOK /\ ClientOK /\ MoverOK /\ RemoverOK
      /\ CountType /\ Saver
  BY TypedGroups
<1>t. table \in Tables /\ index \in [Uris -> Tasks \cup {None}]
  BY <1>0 DEF StoreType
<1>e. table[t] # None => table[t].uri \in Uris
  BY <1>t, TableFacts
<1>i. Idle \in [pc : {"off", "due", "wait", "confirm", "look", "refresh", "touch",
                          "disable", "save", "release"}, uri : Uris \cup {None}]
      /\ Idle.pc = "off"
  BY DEF Idle
<1>g. UNCHANGED RunEnv => UNCHANGED <<main, bak, client, mover, remover, home, requests, crashes, faults, halves>>
  BY DEF RunEnv
<1>1. CASE StartRun(t)
  <2>1. RunOK' /\ Saver'
    <3> DEFINE r == [pc |-> "due", uri |-> table[t].uri]
    <3>1. run' = [run EXCEPT ![t] = r] /\ r.uri \in Uris /\ run[t].pc # "save"
      BY <1>1, <1>e DEF StartRun
    <3>2. r \in [pc : {"off", "due", "wait", "confirm", "look", "refresh", "touch",
                          "disable", "save", "release"}, uri : Uris \cup {None}]
      BY <3>1
    <3> HIDE DEF r
    <3> QED BY <1>0, <1>1, <1>g, <3>1, <3>2, RunMoves DEF StartRun
  <2> QED BY <1>0, <1>1, <1>g, <2>1 DEF StartRun
<1>2. CASE EnterRun(t)
  <2>1. RunOK' /\ Saver'
    BY <1>0, <1>2, <1>g, RunGoes DEF EnterRun
  <2> QED BY <1>0, <1>2, <1>g, <2>1 DEF EnterRun
<1>3. CASE AccessRun(t)
  <2>1. RunOK' /\ Saver'
    BY <1>0, <1>3, <1>g, RunGoes DEF AccessRun
  <2>2. LeaseType'
    <3>1. run[t].uri \in Uris
      BY <1>0, <1>3 DEF AccessRun, RunOK, RunArgs
    <3> QED BY <1>0, <1>3, <3>1, AcquireType DEF AccessRun
  <2> QED BY <1>0, <1>3, <1>g, <2>1, <2>2 DEF AccessRun
<1>4. CASE ConfirmRun(t)
  <2>1. CASE table[t] = None /\ run' = [run EXCEPT ![t] = Idle] /\ Release(t)
    <3>1. RunOK' /\ Saver'
      BY <1>0, <1>4, <1>g, <1>i, <2>1, RunMoves DEF ConfirmRun
    <3> QED BY <1>0, <1>4, <1>g, <2>1, <3>1, ReleaseType DEF ConfirmRun
  <2>2. CASE /\ table[t] # None
             /\ run' = [run EXCEPT ![t] = [pc |-> "wait", uri |-> table[t].uri]] /\ Release(t)
    <3> DEFINE r == [pc |-> "wait", uri |-> table[t].uri]
    <3>1. run' = [run EXCEPT ![t] = r] /\ r.uri \in Uris /\ run[t].pc # "save"
      BY <1>4, <1>e, <2>2 DEF ConfirmRun
    <3>2. r \in [pc : {"off", "due", "wait", "confirm", "look", "refresh", "touch",
                          "disable", "save", "release"}, uri : Uris \cup {None}]
      BY <3>1
    <3> HIDE DEF r
    <3>3. RunOK' /\ Saver'
      BY <1>0, <1>4, <1>g, <3>1, <3>2, RunMoves DEF ConfirmRun
    <3> QED BY <1>0, <1>4, <1>g, <2>2, <3>3, ReleaseType DEF ConfirmRun
  <2>3. CASE RunGoto(t, "look") /\ UNCHANGED held
    <3>1. RunOK' /\ Saver'
      BY <1>0, <1>4, <1>g, <2>3, RunGoes DEF ConfirmRun
    <3> QED BY <1>0, <1>4, <1>g, <2>3, <3>1 DEF ConfirmRun
  <2> QED BY <1>4, <2>1, <2>2, <2>3 DEF ConfirmRun
<1>5. CASE LookRun(t)
  <2>1. RunOK' /\ Saver'
    BY <1>0, <1>5, <1>g, RunGoes DEF LookRun
  <2> QED BY <1>0, <1>5, <1>g, <2>1 DEF LookRun
<1>6. CASE RefreshRun(t)
  <2>1. RunOK' /\ Saver'
    BY <1>0, <1>6, <1>g, RunGoes DEF RefreshRun
  <2> QED BY <1>0, <1>6, <1>g, <2>1 DEF RefreshRun
<1>7. CASE TouchRun(t)
  <2>1. CASE RunGoto(t, "release") /\ UNCHANGED <<table, index, lock>>
    <3>1. RunOK' /\ Saver'
      BY <1>0, <1>7, <1>g, <2>1, RunGoes DEF TouchRun
    <3> QED BY <1>0, <1>7, <1>g, <2>1, <3>1 DEF TouchRun
  <2>2. CASE RunGoto(t, "save") /\ Change(t, table, index)
    <3>1. StoreType' /\ lock' # None /\ lock'.by = t
      BY <1>0, <1>7, <1>g, <1>t, <2>2, ChangeType DEF TouchRun
    <3>2. RunOK' /\ Saver'
      BY <1>0, <1>7, <1>g, <2>2, <3>1, RunSaves DEF TouchRun
    <3> QED BY <1>0, <1>7, <1>g, <3>1, <3>2 DEF TouchRun
  <2> QED BY <1>7, <2>1, <2>2 DEF TouchRun
<1>8. CASE DisableRun(t)
  <2>1. CASE RunGoto(t, "release") /\ UNCHANGED <<table, index, lock>>
    <3>1. RunOK' /\ Saver'
      BY <1>0, <1>8, <1>g, <2>1, RunGoes DEF DisableRun
    <3> QED BY <1>0, <1>8, <1>g, <2>1, <3>1 DEF DisableRun
  <2>2. CASE table[t] # None /\ RunGoto(t, "save") /\ Change(t, [table EXCEPT ![t].active = FALSE], index)
    <3>0. [table EXCEPT ![t].active = FALSE] \in Tables
      BY <1>t, <2>2, SwitchedOff
    <3>1. StoreType' /\ lock' # None /\ lock'.by = t
      BY <1>0, <1>8, <1>g, <1>t, <2>2, <3>0, ChangeType DEF DisableRun
    <3>2. RunOK' /\ Saver'
      BY <1>0, <1>8, <1>g, <2>2, <3>1, RunSaves DEF DisableRun
    <3> QED BY <1>0, <1>8, <1>g, <3>1, <3>2 DEF DisableRun
  <2> QED BY <1>8, <2>1, <2>2 DEF DisableRun
<1>9. CASE EndRun(t)
  <2>1. RunOK' /\ Saver'
    BY <1>0, <1>9, <1>g, <1>i, RunMoves DEF EndRun
  <2> QED BY <1>0, <1>9, <1>g, <2>1, ReleaseType DEF EndRun
<1> QED BY <1>1, <1>2, <1>3, <1>4, <1>5, <1>6, <1>7, <1>8, <1>9 DEF RunStep

\* A client, a move or a removal goes on; nobody waits for a save of it.
LEMMA SaverStays ==
  /\ Saver /\ client.pc # "save" /\ UNCHANGED <<lock, run, mover, remover>> => Saver'
  /\ Saver /\ remover.pc # "save" /\ UNCHANGED <<lock, run, mover, client>> => Saver'
  /\ Saver /\ mover.pc # "save" /\ mover'.pc # "save" /\ UNCHANGED <<lock, run, client, remover>>
       => Saver'
BY DEF Saver

\* The same for one that changes the table.
LEMMA SaverStarts ==
  ASSUME Saver, Unlocked, lock' # None
  PROVE  /\ lock'.by = "client" /\ client'.pc = "save" /\ UNCHANGED <<run, mover, remover>> => Saver'
         /\ lock'.by = "remover" /\ remover'.pc = "save" /\ UNCHANGED <<run, mover, client>> => Saver'
         /\ lock'.by = "mover" /\ mover'.pc = "save" /\ UNCHANGED <<run, client, remover>> => Saver'
BY TasksActors DEF Saver, Unlocked

LEMMA ClientGoes ==
  ASSUME ClientOK, NEW pc \in {"snapshot", "apply", "save", "release"}, ClientGoto(pc),
         pc = "snapshot" => client.task \in Tasks,
         pc = "apply" => client.pc = "access",
         client.pc # "off"
  PROVE  /\ ClientOK' /\ client'.pc = pc
         /\ client'.op = client.op /\ client'.uri = client.uri /\ client'.at = client.at
         /\ client'.task = client.task
BY DEF ClientOK, ClientType, ClientArgs, ClientGoto

LEMMA RetargetedType ==
  ASSUME StoreType, NEW t \in Tasks, NEW u
  PROVE  Retargeted(t, u) \in [Uris -> Tasks \cup {None}]
BY DEF StoreType, Retargeted

\* A task gets a new target.
LEMMA PutType ==
  ASSUME NEW tab \in Tables, NEW t \in Tasks, NEW u \in Uris
  PROVE  [tab EXCEPT ![t] = [uri |-> u, active |-> TRUE]] \in Tables
<1>1. [uri |-> u, active |-> TRUE] \in Entries
  BY DEF Entries
<1> QED BY <1>1 DEF Tables

LEMMA EditedType ==
  ASSUME StoreType, ClientOK, NEW t \in Tasks, table[t] # None, client.pc = "apply"
  PROVE  Edited(t) \in Tables /\ EditedIndex(t) \in [Uris -> Tasks \cup {None}]
<1>t. table \in Tables /\ index \in [Uris -> Tasks \cup {None}]
  BY DEF StoreType
<1>1. CASE client.op = "watch"
  <2>1. client.uri \in Uris
    BY <1>1 DEF ClientOK, ClientArgs
  <2>2. Edited(t) = [table EXCEPT ![t] = [uri |-> client.uri, active |-> TRUE]]
        /\ EditedIndex(t) = Retargeted(t, client.uri)
    BY <1>1 DEF Edited, EditedIndex
  <2>3. [table EXCEPT ![t] = [uri |-> client.uri, active |-> TRUE]] \in Tables
    BY <1>t, <2>1, PutType
  <2>4. Retargeted(t, client.uri) \in [Uris -> Tasks \cup {None}]
    BY RetargetedType
  <2> QED BY <2>2, <2>3, <2>4
<1>2. CASE client.op = "unwatch"
  <2>2. Edited(t) = [table EXCEPT ![t].active = FALSE] /\ EditedIndex(t) = index
    BY <1>2 DEF Edited, EditedIndex
  <2>3. [table EXCEPT ![t].active = FALSE] \in Tables
    BY <1>t, SwitchedOff
  <2> QED BY <1>t, <2>2, <2>3
<1>3. CASE client.op = "delete"
  <2>2. Edited(t) = [table EXCEPT ![t] = None]
        /\ EditedIndex(t) = [u \in Uris |-> IF index[u] = t THEN None ELSE index[u]]
    BY <1>3 DEF Edited, EditedIndex
  <2>3. [table EXCEPT ![t] = None] \in Tables
    BY <1>t DEF Tables
  <2> QED BY <1>t, <2>2, <2>3
<1> QED BY <1>1, <1>2, <1>3 DEF ClientOK, ClientType

LEMMA CountUp ==
  ASSUME CountType, Asked, UNCHANGED <<crashes, faults, halves>>
  PROVE  CountType'
BY WatchAssumption DEF CountType, Asked

LEMMA CountTrouble ==
  ASSUME CountType, Trouble
  PROVE  /\ crashes + 1 \in 0..MaxTroubles /\ faults + 1 \in 0..MaxTroubles
         /\ crashes + 1 # 0 /\ halves + 1 # 0
BY WatchAssumption DEF CountType, Trouble

LEMMA ClientTyped ==
  ASSUME Typed, (\E q \in Requests : BeginWatch(q) \/ BeginDelete(q)) \/ ClientStep
  PROVE  Typed'
<1> USE TypedJoin, Unmoved, TasksActors, SaverStays
<1>0. /\ StoreType /\ LeaseType /\ PlaceType /\ RunOK /\ ClientOK /\ MoverOK /\ RemoverOK
      /\ CountType /\ Saver
  BY TypedGroups
<1>t. table \in Tables /\ index \in [Uris -> Tasks \cup {None}]
  BY <1>0 DEF StoreType
<1>g. UNCHANGED ClientEnv => UNCHANGED <<main, bak, run, mover, remover, crashes, faults, halves>>
  BY DEF ClientEnv
<1>n. client' = NoClient => ClientOK'
  BY DEF NoClient, ClientOK, ClientType, ClientArgs
<1>1. ASSUME NEW q \in Requests, BeginWatch(q) PROVE Typed'
  <2>1. client' = [pc |-> "lookup", op |-> q.op, task |-> None, uri |-> q.uri, at |-> None]
    BY <1>1 DEF BeginWatch, NoClient
  <2>2. q.uri \in Uris /\ q.op \in {"watch", "unwatch"}
    BY <1>1, WatchAssumption DEF BeginWatch
  <2>3. ClientOK'
    BY <2>1, <2>2 DEF ClientOK, ClientType, ClientArgs
  <2> QED BY <1>0, <1>1, <1>g, <2>3, CountUp DEF BeginWatch
<1>2. ASSUME NEW q \in Requests, BeginDelete(q) PROVE Typed'
  <2>1. client' = [pc |-> "snapshot", op |-> "delete", task |-> q.task, uri |-> None, at |-> None]
    BY <1>2 DEF BeginDelete, NoClient
  <2>2. q.task \in Tasks
    BY <1>2, WatchAssumption DEF BeginDelete
  <2>3. ClientOK'
    BY <2>1, <2>2 DEF ClientOK, ClientType, ClientArgs
  <2> QED BY <1>0, <1>2, <1>g, <2>3, CountUp DEF BeginDelete
<1>3. CASE Lookup
  <2>1. client.uri \in Uris
    BY <1>0, <1>3 DEF Lookup, ClientOK, ClientArgs
  <2>2. index[client.uri] # None => index[client.uri] \in Tasks
    BY <1>t, <2>1
  <2>3. ClientOK'
    <3>1. CASE index[client.uri] # None
      BY <1>0, <1>3, <2>1, <2>2, <3>1 DEF Lookup, ClientOK, ClientType, ClientArgs
    <3>2. CASE index[client.uri] = None /\ client.op = "watch"
      BY <1>0, <1>3, <2>1, <3>2 DEF Lookup, ClientOK, ClientType, ClientArgs
    <3>3. CASE index[client.uri] = None /\ client.op # "watch"
      BY <1>3, <1>n, <3>3 DEF Lookup
    <3> QED BY <3>1, <3>2, <3>3
  <2> QED BY <1>0, <1>3, <1>g, <2>3 DEF Lookup
<1>4. CASE AccessCreate
  <2>1. client.uri \in Uris
    BY <1>0, <1>4 DEF AccessCreate, ClientOK, ClientArgs
  <2>2. ClientOK'
    BY <1>0, <1>4, <2>1 DEF AccessCreate, ClientOK, ClientType, ClientArgs
  <2>3. LeaseType'
    BY <1>0, <1>4, <2>1, AcquireType DEF AccessCreate
  <2> QED BY <1>0, <1>4, <1>g, <2>2, <2>3 DEF AccessCreate
<1>5. CASE Insert
  <2>1. client.uri \in Uris /\ client.task \in Tasks
    BY <1>0, <1>5 DEF Insert, ClientOK, ClientArgs
  <2>2. CASE ClientGoto("release") /\ UNCHANGED <<table, index, lock, home>>
    <3>1. ClientOK'
      BY <1>0, <1>5, <2>2, ClientGoes DEF Insert
    <3> QED BY <1>0, <1>5, <1>g, <2>2, <3>1 DEF Insert
  <2>3. CASE /\ Change("client", [table EXCEPT ![client.task] = [uri |-> client.uri, active |-> TRUE]],
                       Retargeted(client.task, client.uri))
             /\ home' = [home EXCEPT ![client.task] = client.uri]
             /\ ClientGoto("save")
    <3>1. StoreType' /\ lock' # None /\ lock'.by = "client"
      <4>1. /\ [table EXCEPT ![client.task] = [uri |-> client.uri, active |-> TRUE]] \in Tables
            /\ Retargeted(client.task, client.uri) \in [Uris -> Tasks \cup {None}]
        BY <1>0, <1>t, <2>1, PutType, RetargetedType
      <4> QED BY <1>0, <1>5, <1>g, <2>3, <4>1, ChangeType DEF Insert
    <3>2. ClientOK' /\ client'.pc = "save"
      BY <1>0, <1>5, <2>3, ClientGoes DEF Insert
    <3>3. PlaceType'
      BY <1>0, <1>5, <1>g, <2>1, <2>3 DEF Insert, PlaceType
    <3>4. Saver'
      BY <1>0, <1>5, <1>g, <3>1, <3>2, SaverStarts DEF Insert
    <3> QED BY <1>0, <1>5, <1>g, <3>1, <3>2, <3>3, <3>4 DEF Insert
  <2> QED BY <1>5, <2>2, <2>3 DEF Insert
<1>6. CASE Snapshot
  <2>1. client.task \in Tasks
    BY <1>0, <1>6 DEF Snapshot, ClientOK, ClientArgs
  <2>2. ClientOK'
    <3>1. CASE table[client.task] = None
      BY <1>6, <1>n, <3>1 DEF Snapshot
    <3>2. CASE table[client.task] # None
      <4>1. table[client.task].uri \in Uris
        BY <1>t, <2>1, <3>2, TableFacts
      <4> QED BY <1>0, <1>6, <2>1, <3>2, <4>1 DEF Snapshot, ClientOK, ClientType, ClientArgs
    <3> QED BY <3>1, <3>2
  <2> QED BY <1>0, <1>6, <1>g, <2>2 DEF Snapshot
<1>7. CASE AccessEdit
  <2>1. client.at \in Uris /\ (client.op = "watch" => client.uri \in Uris)
    BY <1>0, <1>7 DEF AccessEdit, ClientOK, ClientArgs
  <2>2. ClientOK'
    BY <1>0, <1>7, ClientGoes DEF AccessEdit
  <2>3. LeaseType'
    <3>1. {client.at} \cup (IF client.op = "watch" THEN {client.uri} ELSE {}) \in SUBSET Uris
      BY <2>1
    <3> QED BY <1>0, <1>7, <3>1, AcquireType DEF AccessEdit
  <2> QED BY <1>0, <1>7, <1>g, <2>2, <2>3 DEF AccessEdit
<1>8. CASE Apply
  <2>1. client.task \in Tasks /\ (client.op = "watch" => client.uri \in Uris)
    BY <1>0, <1>8 DEF Apply, ClientOK, ClientArgs
  <2>2. CASE ClientGoto("release") /\ UNCHANGED <<table, index, lock, held, home>>
    <3>1. ClientOK'
      BY <1>0, <1>8, <2>2, ClientGoes DEF Apply
    <3> QED BY <1>0, <1>8, <1>g, <2>2, <3>1 DEF Apply
  <2>3. CASE ClientGoto("snapshot") /\ Release("client") /\ UNCHANGED <<table, index, lock, home>>
    <3>1. ClientOK'
      BY <1>0, <1>8, <2>1, <2>3, ClientGoes DEF Apply
    <3> QED BY <1>0, <1>8, <1>g, <2>3, <3>1, ReleaseType DEF Apply
  <2>4. CASE /\ table[client.task] # None
             /\ Change("client", Edited(client.task), EditedIndex(client.task))
             /\ home' = IF client.op = "watch" THEN [home EXCEPT ![client.task] = client.uri] ELSE home
             /\ ClientGoto("save") /\ UNCHANGED held
    <3>1. StoreType' /\ lock' # None /\ lock'.by = "client"
      <4>1. /\ Edited(client.task) \in Tables
            /\ EditedIndex(client.task) \in [Uris -> Tasks \cup {None}]
        BY <1>0, <1>8, <2>1, <2>4, EditedType DEF Apply
      <4> QED BY <1>0, <1>8, <1>g, <2>4, <4>1, ChangeType DEF Apply
    <3>2. ClientOK' /\ client'.pc = "save"
      BY <1>0, <1>8, <2>4, ClientGoes DEF Apply
    <3>3. PlaceType'
      BY <1>0, <1>8, <1>g, <2>1, <2>4 DEF Apply, PlaceType
    <3>4. Saver'
      BY <1>0, <1>8, <1>g, <3>1, <3>2, SaverStarts DEF Apply
    <3> QED BY <1>0, <1>8, <1>g, <2>4, <3>1, <3>2, <3>3, <3>4 DEF Apply
  <2> QED BY <1>8, <2>2, <2>3, <2>4 DEF Apply
<1>9. CASE EndRequest
  BY <1>0, <1>9, <1>g, <1>n, ReleaseType DEF EndRequest
<1> QED BY <1>1, <1>2, <1>3, <1>4, <1>5, <1>6, <1>7, <1>8, <1>9 DEF ClientStep

LEMMA MoverGoes ==
  ASSUME MoverOK, mover.pc # "off",
         \E pc \in {"validate", "move", "save", "undo", "release"} : MoveGoto(pc)
  PROVE  /\ MoverOK' /\ mover'.from = mover.from /\ mover'.to = mover.to /\ mover'.plan = mover.plan
<1>1. PICK pc \in {"validate", "move", "save", "undo", "release"} : MoveGoto(pc)
  OBVIOUS
<1>2. /\ MoverType' /\ mover'.from = mover.from /\ mover'.to = mover.to /\ mover'.plan = mover.plan
  BY <1>1 DEF MoverOK, MoverType, MoveGoto
<1>3. Asks(mover.from, mover.to) => Asks(mover'.from, mover'.to)
  BY <1>2 DEF Asks
<1> QED BY <1>2, <1>3 DEF MoverOK, MoverArgs, Asks

\* What a move carries stays among the URIs.
LEMMA CarriedType ==
  ASSUME PlaceType, NEW from, NEW to, NEW tasks \in SUBSET Residents(from),
         \A u \in Uris : Under(u, from) => Rewrite(u, from, to) \in Uris
  PROVE  Carried(tasks, from, to) \in [Tasks -> Uris \cup {None}]
<1>1. \A t \in tasks : t \in Tasks /\ home[t] \in Uris /\ Under(home[t], from)
  BY DEF Residents, PlaceType
<1>2. \A t \in tasks : Rewrite(home[t], from, to) \in Uris
  BY <1>1
<1> QED BY <1>2 DEF Carried, PlaceType

LEMMA RewrittenType ==
  ASSUME StoreType, NEW from, NEW to, Asks(from, to)
  PROVE  LET plan == Planned(from)
             at(t) == Rewrite(table[t].uri, from, to) IN
         /\ [t \in Tasks |-> IF t \in plan THEN [table[t] EXCEPT !.uri = at(t)] ELSE table[t]] \in Tables
         /\ [u \in Uris |-> IF \E t \in plan : u = at(t) THEN CHOOSE t \in plan : u = at(t)
                            ELSE IF index[u] \in plan THEN None ELSE index[u]]
              \in [Uris -> Tasks \cup {None}]
<1> DEFINE plan == Planned(from)
           at(t) == Rewrite(table[t].uri, from, to)
<1>t. table \in Tables /\ index \in [Uris -> Tasks \cup {None}]
  BY DEF StoreType
<1>1. plan \subseteq Tasks /\ \A t \in plan : table[t] # None /\ Under(table[t].uri, from)
  BY DEF Planned
<1>2. \A t \in plan : table[t] \in Entries /\ at(t) \in Uris
  BY <1>t, <1>1, TableFacts, AskedMove
<1>3. \A t \in plan : [table[t] EXCEPT !.uri = at(t)] \in Entries
  BY <1>2 DEF Entries
<1>4. \A u \in Uris : (\E t \in plan : u = at(t)) => (CHOOSE t \in plan : u = at(t)) \in plan
  OBVIOUS
<1> HIDE DEF plan, at
<1>5. [t \in Tasks |-> IF t \in plan THEN [table[t] EXCEPT !.uri = at(t)] ELSE table[t]] \in Tables
  BY <1>t, <1>3 DEF Tables
<1>6. [u \in Uris |-> IF \E t \in plan : u = at(t) THEN CHOOSE t \in plan : u = at(t)
                      ELSE IF index[u] \in plan THEN None ELSE index[u]] \in [Uris -> Tasks \cup {None}]
  BY <1>t, <1>1, <1>4
<1> QED BY <1>5, <1>6 DEF plan, at

LEMMA MoveTyped ==
  ASSUME Typed, (\E q \in Requests : BeginMove(q) \/ MoveOut(q)) \/ LeaseMove \/ MoveStep
  PROVE  Typed'
<1> USE TypedJoin, Unmoved, TasksActors, SaverStays
<1>0. /\ StoreType /\ LeaseType /\ PlaceType /\ RunOK /\ ClientOK /\ MoverOK /\ RemoverOK
      /\ CountType /\ Saver
  BY TypedGroups
<1>a. mover.pc # "off" => Asks(mover.from, mover.to)
  BY <1>0 DEF MoverOK, MoverArgs
<1>g. UNCHANGED MoveEnv => UNCHANGED <<main, bak, run, client, remover, crashes>>
  BY DEF MoveEnv
<1>1. ASSUME NEW q \in Requests, BeginMove(q) PROVE Typed'
  <2>1. mover' = [pc |-> "wait", from |-> q.from, to |-> q.to, plan |-> {}]
    BY <1>1 DEF BeginMove, NoMove
  <2>2. q.from \in Uris /\ q.to \in Uris
    BY <1>1, WatchAssumption DEF BeginMove
  <2>3. Asks(q.from, q.to)
    BY <1>1 DEF BeginMove, Asks
  <2>4. MoverOK'
    BY <2>1, <2>2, <2>3 DEF MoverOK, MoverType, MoverArgs, Asks
  <2> QED BY <1>0, <1>1, <1>g, <2>1, <2>4, CountUp DEF BeginMove
<1>2. CASE LeaseMove
  <2>1. MoverOK' /\ mover'.pc # "save"
    BY <1>0, <1>2, MoverGoes DEF LeaseMove, MoveGoto, MoverOK, MoverType
  <2>2. LeaseType'
    <3>1. {mover.from, mover.to} \in SUBSET Uris
      BY <1>2, <1>a, AskedMove DEF LeaseMove
    <3> QED BY <1>0, <1>2, <3>1, AcquireType DEF LeaseMove
  <2> QED BY <1>0, <1>2, <1>g, <2>1, <2>2 DEF LeaseMove
<1>3. CASE ValidateMove
  <2>1. MoverOK' /\ mover'.pc # "save"
    BY <1>0, <1>3, MoverGoes DEF ValidateMove, MoveGoto, MoverOK, MoverType
  <2> QED BY <1>0, <1>3, <1>g, <2>1 DEF ValidateMove
<1>4. CASE MoveFiles
  <2> DEFINE plan == Residents(mover.from)
  <2>0. Asks(mover.from, mover.to) /\ plan \subseteq Tasks
    BY <1>4, <1>a DEF MoveFiles, Residents
  <2>1. CASE /\ home' = Carried(plan, mover.from, mover.to)
             /\ mover' = [mover EXCEPT !.pc = "rewrite", !.plan = plan]
             /\ UNCHANGED halves
    <3>1. PlaceType'
      BY <1>0, <2>0, <2>1, CarriedType, AskedMove DEF PlaceType
    <3> HIDE DEF plan
    <3>3. MoverType' /\ mover'.from = mover.from /\ mover'.to = mover.to /\ mover'.pc = "rewrite"
      BY <1>0, <2>0, <2>1 DEF MoverOK, MoverType
    <3>4. MoverOK'
      BY <2>0, <3>3 DEF MoverOK, MoverArgs, Asks
    <3> QED BY <1>0, <1>4, <1>g, <2>1, <3>1, <3>3, <3>4 DEF MoveFiles
  <2>2. CASE MoveGoto("release") /\ UNCHANGED <<home, halves>>
    <3>1. MoverOK' /\ mover'.pc # "save"
      BY <1>0, <1>4, <2>2, MoverGoes DEF MoveFiles, MoveGoto, MoverOK, MoverType
    <3> QED BY <1>0, <1>4, <1>g, <2>2, <3>1 DEF MoveFiles
  <2>3. CASE /\ halves' = halves + 1 /\ MoveGoto("release")
             /\ \E gone \in SUBSET plan : home' = Carried(gone, mover.from, mover.to)
    <3>1. MoverOK' /\ mover'.pc # "save"
      BY <1>0, <1>4, <2>3, MoverGoes DEF MoveFiles, MoveGoto, MoverOK, MoverType
    <3>2. PlaceType'
      BY <1>0, <2>0, <2>3, CarriedType, AskedMove DEF PlaceType
    <3>3. CountType'
      BY <1>0, <1>4, <1>g, <2>3 DEF CountType, MoveFiles
    <3> QED BY <1>0, <1>4, <1>g, <2>3, <3>1, <3>2, <3>3 DEF MoveFiles
  <2> QED BY <1>4, <2>1, <2>2, <2>3 DEF MoveFiles
<1>5. CASE RewriteTargets
  <2>1. CASE (MoveGoto("release") \/ MoveGoto("undo")) /\ UNCHANGED <<table, index, lock>>
    <3>1. MoverOK' /\ mover'.pc # "save"
      BY <1>0, <1>5, <2>1, MoverGoes DEF RewriteTargets, MoveGoto, MoverOK, MoverType
    <3> QED BY <1>0, <1>5, <1>g, <2>1, <3>1 DEF RewriteTargets
  <2>2. CASE /\ Change("mover",
                  [t \in Tasks |-> IF t \in Planned(mover.from)
                                   THEN [table[t] EXCEPT !.uri = Rewrite(table[t].uri, mover.from, mover.to)]
                                   ELSE table[t]],
                  [u \in Uris |->
                     IF \E t \in Planned(mover.from) : u = Rewrite(table[t].uri, mover.from, mover.to)
                     THEN CHOOSE t \in Planned(mover.from) : u = Rewrite(table[t].uri, mover.from, mover.to)
                     ELSE IF index[u] \in Planned(mover.from) THEN None ELSE index[u]])
             /\ MoveGoto("save")
    <3>0. Asks(mover.from, mover.to)
      BY <1>5, <1>a DEF RewriteTargets
    <3>1. MoverOK' /\ mover'.pc = "save"
      BY <1>0, <1>5, <2>2, MoverGoes DEF RewriteTargets, MoveGoto, MoverOK, MoverType
    <3>2. StoreType' /\ lock' # None /\ lock'.by = "mover"
      <4> DEFINE tab == [t \in Tasks |-> IF t \in Planned(mover.from)
                                   THEN [table[t] EXCEPT !.uri = Rewrite(table[t].uri, mover.from, mover.to)]
                                   ELSE table[t]]
                 ind == [u \in Uris |->
                     IF \E t \in Planned(mover.from) : u = Rewrite(table[t].uri, mover.from, mover.to)
                     THEN CHOOSE t \in Planned(mover.from) : u = Rewrite(table[t].uri, mover.from, mover.to)
                     ELSE IF index[u] \in Planned(mover.from) THEN None ELSE index[u]]
      <4>1. tab \in Tables /\ ind \in [Uris -> Tasks \cup {None}]
        BY <1>0, <3>0, RewrittenType
      <4>2. Change("mover", tab, ind)
        BY <2>2
      <4> HIDE DEF tab, ind
      <4> QED BY <1>0, <1>5, <1>g, <4>1, <4>2, ChangeType DEF RewriteTargets
    <3>3. Saver'
      BY <1>0, <1>5, <1>g, <3>1, <3>2, SaverStarts DEF RewriteTargets
    <3> QED BY <1>0, <1>5, <1>g, <3>1, <3>2, <3>3 DEF RewriteTargets
  <2> QED BY <1>5, <2>1, <2>2 DEF RewriteTargets
<1>6. CASE UndoMove
  <2>0. Asks(mover.from, mover.to)
    BY <1>6, <1>a DEF UndoMove
  <2>1. MoverOK' /\ mover'.pc # "save"
    BY <1>0, <1>6, MoverGoes DEF UndoMove, MoveGoto, MoverOK, MoverType
  <2>2. PICK back \in SUBSET Residents(mover.to) : home' = Carried(back, mover.to, mover.from)
    BY <1>6 DEF UndoMove
  <2>3. PlaceType'
    BY <1>0, <2>0, <2>2, CarriedType, AskedMove DEF PlaceType
  <2>4. CountType'
    BY <1>0, <1>6, <1>g DEF UndoMove, CountType
  <2> QED BY <1>0, <1>6, <1>g, <2>1, <2>3, <2>4 DEF UndoMove
<1>7. CASE EndMove
  <2>1. MoverOK' /\ mover'.pc = "off"
    BY <1>7 DEF EndMove, NoMove, MoverOK, MoverType, MoverArgs
  <2> QED BY <1>0, <1>7, <1>g, <2>1, ReleaseType DEF EndMove
<1>8. CASE \E q \in Requests : MoveOut(q)
  <2>1. UNCHANGED <<table, index, lock, held, mover, faults, halves>> /\ UNCHANGED MoveEnv /\ Asked
    BY <1>8 DEF MoveOut
  <2>2. PlaceType'
    BY <1>0, <1>8 DEF MoveOut, PlaceType
  <2>3. CountType' /\ Saver'
    BY <1>0, <1>g, <2>1, CountUp DEF Saver
  <2> QED BY <1>0, <1>g, <2>1, <2>2, <2>3
<1> QED BY <1>1, <1>2, <1>3, <1>4, <1>5, <1>6, <1>7, <1>8 DEF MoveStep

\* The watches below a removed resource are switched off.
LEMMA DeactivatedFacts ==
  ASSUME NEW tab \in Tables, NEW hit \in SUBSET Tasks, \A t \in hit : tab[t] # None
  PROVE  LET new == [t \in Tasks |-> IF t \in hit THEN [tab[t] EXCEPT !.active = FALSE] ELSE tab[t]] IN
         /\ new \in Tables
         /\ \A s \in Tasks : (new[s] # None <=> tab[s] # None) /\ (new[s] # None => new[s].uri = tab[s].uri)
<1>1. \A t \in hit : tab[t] \in Entries
  BY TableFacts
<1>2. \A t \in hit : [tab[t] EXCEPT !.active = FALSE] \in Entries /\ [tab[t] EXCEPT !.active = FALSE].uri = tab[t].uri
  BY <1>1 DEF Entries
<1>3. \A t \in hit : [tab[t] EXCEPT !.active = FALSE] # None
  BY <1>2, NoneAssumption
<1> DEFINE new == [t \in Tasks |-> IF t \in hit THEN [tab[t] EXCEPT !.active = FALSE] ELSE tab[t]]
<1>4. new \in Tables
  BY <1>2 DEF Tables
<1>5. ASSUME NEW s \in Tasks
      PROVE  (new[s] # None <=> tab[s] # None) /\ (new[s] # None => new[s].uri = tab[s].uri)
  BY <1>2, <1>3
<1> QED BY <1>4, <1>5

LEMMA RemoveTyped ==
  ASSUME Typed, (\E q \in Requests : RemoveFiles(q)) \/ RemoveStep
  PROVE  Typed'
<1> USE TypedJoin, Unmoved, TasksActors, SaverStays
<1>0. /\ StoreType /\ LeaseType /\ PlaceType /\ RunOK /\ ClientOK /\ MoverOK /\ RemoverOK
      /\ CountType /\ Saver
  BY TypedGroups
<1>g. UNCHANGED RemoveEnv => UNCHANGED <<index, main, bak, run, client, mover, home, crashes, faults, halves>>
  BY DEF RemoveEnv
<1>1. ASSUME NEW q \in Requests, RemoveFiles(q) PROVE Typed'
  <2>1. q.uri \in Uris
    BY <1>1, WatchAssumption DEF RemoveFiles
  <2>2. RemoverOK'
    BY <1>1, <2>1 DEF RemoveFiles, RemoverOK, RemoverType, RemoverArgs
  <2> QED BY <1>0, <1>1, <1>g, <2>2, CountUp DEF RemoveFiles
<1>2. CASE AccessRemoved
  <2>1. remover.uri \in Uris
    BY <1>0, <1>2 DEF AccessRemoved, RemoverOK, RemoverArgs
  <2>2. RemoverOK'
    BY <1>0, <1>2, <2>1 DEF AccessRemoved, RemoverOK, RemoverType, RemoverArgs
  <2>3. LeaseType'
    BY <1>0, <1>2, <2>1, AcquireType DEF AccessRemoved
  <2> QED BY <1>0, <1>2, <1>g, <2>2, <2>3 DEF AccessRemoved
<1>3. CASE Deactivate
  <2>1. CASE remover' = [remover EXCEPT !.pc = "release"] /\ UNCHANGED <<table, lock>>
    <3>1. RemoverOK'
      BY <1>0, <1>3, <2>1 DEF Deactivate, RemoverOK, RemoverType, RemoverArgs
    <3> QED BY <1>0, <1>3, <2>1, <3>1 DEF Deactivate
  <2>2. CASE /\ Change("remover",
                  [t \in Tasks |-> IF t \in Planned(remover.uri) THEN [table[t] EXCEPT !.active = FALSE]
                                   ELSE table[t]], index)
             /\ remover' = [remover EXCEPT !.pc = "save"]
    <3> DEFINE tab == [t \in Tasks |-> IF t \in Planned(remover.uri) THEN [table[t] EXCEPT !.active = FALSE]
                                   ELSE table[t]]
    <3>1. table \in Tables /\ index \in [Uris -> Tasks \cup {None}]
      BY <1>0 DEF StoreType
    <3>2. Planned(remover.uri) \in SUBSET Tasks /\ \A t \in Planned(remover.uri) : table[t] # None
      BY DEF Planned
    <3>3. tab \in Tables
      BY <3>1, <3>2, DeactivatedFacts
    <3>4. Change("remover", tab, index)
      BY <2>2
    <3> HIDE DEF tab
    <3>5. StoreType' /\ lock' # None /\ lock'.by = "remover"
      BY <1>0, <1>3, <3>1, <3>3, <3>4, ChangeType DEF Deactivate
    <3>6. RemoverOK' /\ remover'.pc = "save"
      BY <1>0, <1>3, <2>2 DEF Deactivate, RemoverOK, RemoverType, RemoverArgs
    <3>7. Saver'
      BY <1>0, <1>3, <3>5, <3>6, SaverStarts DEF Deactivate
    <3> QED BY <1>0, <1>3, <3>5, <3>6, <3>7 DEF Deactivate
  <2> QED BY <1>3, <2>1, <2>2 DEF Deactivate
<1>4. CASE EndRemove
  <2>1. RemoverOK'
    BY <1>4 DEF EndRemove, Idle, RemoverOK, RemoverType, RemoverArgs
  <2> QED BY <1>0, <1>4, <1>g, <2>1, ReleaseType DEF EndRemove
<1> QED BY <1>1, <1>2, <1>3, <1>4 DEF RemoveStep

\* A save in progress.
LEMMA SaveFacts ==
  ASSUME StoreType, lock # None
  PROVE  /\ lock \in Saves /\ lock.by \in Actors /\ lock.old \in Tables
         /\ lock.oldIndex \in [Uris -> Tasks \cup {None}] /\ lock.stored \in Tables \cup {None}
BY DEF StoreType, Saves

\* The steps of a save but for its last one.
Writes == SaveTmp \/ SaveBackup \/ SaveDrop \/ SavePublish \/ SaveSlips

LEMMA StepOfSave ==
  ASSUME StoreType, lock # None, NEW step \in {"rotate", "drop", "publish", "finish"}, SaveGoto(step)
  PROVE  /\ lock' \in Saves /\ lock' # None /\ lock'.step = step /\ lock'.stored = lock.stored
         /\ lock'.by = lock.by /\ lock'.old = lock.old /\ lock'.oldIndex = lock.oldIndex
<1>1. lock \in Saves
  BY SaveFacts
<1>2. lock' \in Saves /\ lock'.step = step /\ lock'.stored = lock.stored
      /\ lock'.by = lock.by /\ lock'.old = lock.old /\ lock'.oldIndex = lock.oldIndex
  BY <1>1 DEF Saves, SaveGoto
<1> QED BY <1>2, NoneAssumption

\* A save that goes on without what was stored.
LEMMA SlipOfSave ==
  ASSUME StoreType, lock # None, lock' = [lock EXCEPT !.step = "publish", !.stored = None]
  PROVE  /\ lock' \in Saves /\ lock' # None /\ lock'.stored = None
         /\ lock'.by = lock.by /\ lock'.old = lock.old /\ lock'.oldIndex = lock.oldIndex
<1>1. lock \in Saves
  BY SaveFacts
<1>2. lock' \in Saves /\ lock'.stored = None
      /\ lock'.by = lock.by /\ lock'.old = lock.old /\ lock'.oldIndex = lock.oldIndex
  BY <1>1 DEF Saves
<1> QED BY <1>2, NoneAssumption

LEMMA SlipCases ==
  ASSUME SaveSlips
  PROVE  \/ SaveGoto("rotate") /\ UNCHANGED bak /\ lock.step = "tmp"
         \/ SaveGoto("publish") /\ UNCHANGED bak /\ lock.step = "drop"
         \/ lock' = [lock EXCEPT !.step = "publish", !.stored = None] /\ (UNCHANGED bak \/ bak' = None)
BY DEF SaveSlips

\* Such a step writes the file or the backup and leaves everybody else alone.
LEMMA WriteFacts ==
  ASSUME StoreType, Writes
  PROVE  /\ UNCHANGED <<table, index, held, home, requests, crashes, halves, run, client, mover, remover>>
         /\ StoreType' /\ lock # None /\ lock' # None
         /\ lock'.by = lock.by /\ lock'.old = lock.old /\ lock'.oldIndex = lock.oldIndex
<1>1. UNCHANGED SaveRest /\ lock # None
  BY DEF Writes, SaveTmp, SaveBackup, SaveDrop, SavePublish, SaveSlips
<1>2. UNCHANGED <<table, index, held, home, requests, crashes, halves, run, client, mover, remover>>
  BY <1>1 DEF SaveRest, SaveEnv
<1>3. /\ lock' \in Saves /\ lock' # None
      /\ lock'.by = lock.by /\ lock'.old = lock.old /\ lock'.oldIndex = lock.oldIndex
  <2>1. CASE SaveTmp \/ SaveBackup \/ SaveDrop \/ SavePublish
    <3>1. \E step \in {"rotate", "drop", "publish", "finish"} : SaveGoto(step)
      BY <2>1 DEF SaveTmp, SaveBackup, SaveDrop, SavePublish
    <3> QED BY <1>1, <3>1, StepOfSave
  <2>2. CASE SaveSlips
    BY <1>1, <2>2, SlipCases, StepOfSave, SlipOfSave
  <2> QED BY <2>1, <2>2 DEF Writes
<1>4. main' \in Tables \cup {None} /\ bak' \in Tables \cup {None}
  <2>1. table \in Tables /\ main \in Tables \cup {None} /\ bak \in Tables \cup {None}
    BY DEF StoreType
  <2>2. (main' = main \/ main' = None \/ main' = table) /\ (bak' = bak \/ bak' = None \/ bak' = main)
    BY DEF Writes, SaveTmp, SaveBackup, SaveDrop, SavePublish, SaveSlips
  <2> QED BY <2>1, <2>2
<1> QED BY <1>1, <1>2, <1>3, <1>4 DEF StoreType

\* The actor whose save ended goes on; no save is left.
LEMMA Resumed ==
  ASSUME RunOK, ClientOK, MoverOK, RemoverOK, Saver, lock # None, lock.by \in Actors, lock' = None,
         NEW ok \in BOOLEAN, Resume(lock.by, ok)
  PROVE  /\ RunOK' /\ ClientOK' /\ MoverOK' /\ RemoverOK' /\ Saver'
         /\ \A t \in Tasks : run'[t].uri = run[t].uri /\
              (run'[t].pc = run[t].pc \/ (run[t].pc = "save" /\ run'[t].pc = "release"))
         /\ client' = client \/ (client.pc = "save" /\ client'.pc = "release")
         /\ mover'.from = mover.from /\ mover'.to = mover.to /\ mover'.plan = mover.plan
         /\ IF lock.by = "mover" THEN mover.pc = "save" /\ mover'.pc = IF ok THEN "release" ELSE "undo"
            ELSE mover' = mover /\ mover.pc # "save"
<1>1. /\ RunOK'
      /\ \A t \in Tasks : run'[t].uri = run[t].uri /\
              (run'[t].pc = run[t].pc \/ (run[t].pc = "save" /\ run'[t].pc = "release"))
  <2>1. CASE lock.by \in Tasks
    <3>1. run' = [run EXCEPT ![lock.by].pc = "release"] /\ run[lock.by].pc = "save"
      BY <2>1 DEF Resume, Saver
    <3>2. PICK r \in [pc : {"off", "due", "wait", "confirm", "look", "refresh", "touch",
                          "disable", "save", "release"}, uri : Uris \cup {None}] :
            run' = [run EXCEPT ![lock.by] = r] /\ r.pc = "release" /\ r.uri = run[lock.by].uri /\ r.uri \in Uris
      BY <2>1, <3>1, GotoRecord DEF RunGoto
    <3>3. \A s \in Tasks : run'[s] = IF s = lock.by THEN r ELSE run[s]
      BY <3>2 DEF RunOK, RunType
    <3>4. RunType'
      BY <2>1, <3>2 DEF RunOK, RunType
    <3> QED BY <3>1, <3>2, <3>3, <3>4 DEF RunOK, RunArgs
  <2>2. CASE lock.by \notin Tasks
    BY <2>2, Unmoved DEF Resume
  <2> QED BY <2>1, <2>2
<1>2. ClientOK' /\ (client' = client \/ (client.pc = "save" /\ client'.pc = "release"))
  <2>1. CASE lock.by = "client"
    BY <2>1 DEF Resume, Saver, ClientOK, ClientType, ClientArgs
  <2>2. CASE lock.by # "client"
    BY <2>2, Unmoved DEF Resume
  <2> QED BY <2>1, <2>2
<1>3. /\ MoverOK' /\ mover'.from = mover.from /\ mover'.to = mover.to /\ mover'.plan = mover.plan
      /\ IF lock.by = "mover" THEN mover.pc = "save" /\ mover'.pc = IF ok THEN "release" ELSE "undo"
            ELSE mover' = mover /\ mover.pc # "save"
  <2>1. CASE lock.by = "mover"
    <3>1. mover.pc = "save"
      BY <2>1 DEF Saver
    <3>2. MoveGoto(IF ok THEN "release" ELSE "undo")
      BY <2>1 DEF Resume, MoveGoto
    <3>3. MoverOK' /\ mover'.from = mover.from /\ mover'.to = mover.to /\ mover'.plan = mover.plan
      <4>1. CASE ok
        BY <3>1, <3>2, <4>1, MoverGoes
      <4>2. CASE ~ok
        BY <3>1, <3>2, <4>2, MoverGoes
      <4> QED BY <4>1, <4>2
    <3>4. mover'.pc = IF ok THEN "release" ELSE "undo"
      BY <3>2 DEF MoveGoto, MoverOK, MoverType
    <3> QED BY <2>1, <3>1, <3>3, <3>4
  <2>2. CASE lock.by # "mover"
    BY <2>2, Unmoved DEF Resume, Saver
  <2> QED BY <2>1, <2>2
<1>4. RemoverOK'
  <2>1. CASE lock.by = "remover"
    BY <2>1 DEF Resume, Saver, RemoverOK, RemoverType, RemoverArgs
  <2>2. CASE lock.by # "remover"
    BY <2>2, Unmoved DEF Resume
  <2> QED BY <2>1, <2>2
<1>5. mover'.pc # "save"
  BY <1>3
<1>6. Saver'
  BY <1>5 DEF Saver
<1> QED BY <1>1, <1>2, <1>3, <1>4, <1>6

LEMMA SaveTyped ==
  ASSUME Typed, SaveStep \/ SaveSlips \/ SaveFails
  PROVE  Typed'
<1> USE TypedJoin, Unmoved, TasksActors
<1>0. /\ StoreType /\ LeaseType /\ PlaceType /\ RunOK /\ ClientOK /\ MoverOK /\ RemoverOK
      /\ CountType /\ Saver
  BY TypedGroups
<1>1. CASE Writes
  <2>1. /\ UNCHANGED <<table, index, held, home, requests, crashes, halves, run, client, mover, remover>>
        /\ StoreType' /\ lock # None /\ lock' # None /\ lock'.by = lock.by
    BY <1>0, <1>1, WriteFacts
  <2>2. Saver'
    BY <1>0, <2>1 DEF Saver
  <2>3. faults' \in 0..MaxTroubles
    <3>1. CASE SaveSlips
      BY <1>0, <3>1, CountTrouble DEF SaveSlips
    <3>2. CASE UNCHANGED faults
      BY <1>0, <3>2 DEF CountType
    <3> QED BY <1>1, <3>1, <3>2 DEF Writes, SaveTmp, SaveBackup, SaveDrop, SavePublish
  <2>4. CountType'
    BY <1>0, <2>1, <2>3 DEF CountType
  <2> QED BY <1>0, <2>1, <2>2, <2>4
<1>2. CASE SaveEnds
  <2>0. UNCHANGED <<table, index, held, home, requests, crashes, halves, main, bak, faults>>
    BY <1>2 DEF SaveEnds, SaveEnv
  <2>1. RunOK' /\ ClientOK' /\ MoverOK' /\ RemoverOK' /\ Saver'
    BY <1>0, <1>2, SaveFacts, Resumed DEF SaveEnds
  <2>2. StoreType'
    BY <1>0, <1>2, <2>0 DEF SaveEnds, StoreType
  <2> QED BY <1>0, <2>0, <2>1, <2>2
<1>3. CASE SaveFails
  <2>1. RunOK' /\ ClientOK' /\ MoverOK' /\ RemoverOK' /\ Saver'
    BY <1>0, <1>3, SaveFacts, Resumed DEF SaveFails
  <2>2. StoreType'
    BY <1>0, <1>3, SaveFacts DEF SaveFails, StoreType
  <2>3. CountType'
    <3>1. UNCHANGED <<requests, crashes, halves>> /\ faults' \in 0..MaxTroubles
      BY <1>0, <1>3, CountTrouble DEF SaveFails
    <3> QED BY <1>0, <3>1 DEF CountType
  <2> QED BY <1>0, <1>3, <2>1, <2>2, <2>3 DEF SaveFails
<1> QED BY <1>1, <1>2, <1>3 DEF SaveStep, Writes

LEMMA LoadType ==
  ASSUME NEW file \in Tables \cup {None}, NEW backup \in Tables \cup {None},
         file # None => Distinct(file), backup # None => Distinct(backup)
  PROVE  Load(file, backup) \in Tables /\ Distinct(Load(file, backup))
BY EmptyTable DEF Load

\* What a restart finds, and the save it begins with.
LEMMA CrashFacts ==
  ASSUME StoreType, IndexInv, Crash
  PROVE  /\ StoreType' /\ IndexInv' /\ FileInv'
         /\ lock' = None \/ lock'.by = "loader"
<1>1. /\ main' \in Tables \cup {None} /\ bak' \in Tables \cup {None}
      /\ main' # None => Distinct(main')
      /\ bak' # None => Distinct(bak')
  <2>1. (main' = main \/ main' = None) /\ (bak' = bak \/ bak' = None)
    BY DEF Crash
  <2> QED BY <2>1 DEF StoreType, IndexInv
<1>2. PICK file \in {main', None}, backup \in {bak', None} :
        /\ table' = Load(file, backup) /\ index' = IndexOf(Load(file, backup))
        /\ lock' = IF file # None \/ backup = None THEN None
                   ELSE [by |-> "loader", step |-> "tmp", old |-> Load(file, backup),
                         oldIndex |-> IndexOf(Load(file, backup)), stored |-> main']
  BY DEF Crash
<1> DEFINE found == Load(file, backup)
<1>3. found \in Tables /\ Distinct(found)
  BY <1>1, LoadType
<1> HIDE DEF found
<1>4. IndexOf(found) \in [Uris -> Tasks \cup {None}] /\ Exact(found, IndexOf(found))
  BY <1>3, IndexOfType, IndexOfExact
<1>5. \/ lock' = None
      \/ /\ lock' \in Saves /\ lock'.by = "loader" /\ lock'.step = "tmp" /\ lock'.stored = main'
  <2>1. [by |-> "loader", step |-> "tmp", old |-> found, oldIndex |-> IndexOf(found), stored |-> main'] \in Saves
    BY <1>1, <1>3, <1>4, TasksActors DEF Saves
  <2> QED BY <1>2, <2>1 DEF found
<1>6. table' = found /\ index' = IndexOf(found)
  BY <1>2 DEF found
<1>7. StoreType'
  BY <1>1, <1>3, <1>4, <1>5, <1>6 DEF StoreType
<1>8. lock' = None \/ lock'.by = "loader"
  BY <1>5
<1>9. Exact(table', index')
  BY <1>4, <1>6
<1>10. IndexInv'
  BY <1>1, <1>8, <1>9 DEF IndexInv, IndexExact, Exact, Distinct
<1>11. FileInv'
  BY <1>5 DEF FileInv
<1> QED BY <1>7, <1>8, <1>10, <1>11

LEMMA CrashTyped ==
  ASSUME Typed, IndexInv, Crash
  PROVE  Typed'
<1>0. StoreType /\ PlaceType /\ CountType
  BY TypedGroups
<1>2. StoreType' /\ (lock' = None \/ lock'.by = "loader")
  BY <1>0, CrashFacts
<1>3. LeaseType' /\ PlaceType'
  BY <1>0 DEF Crash, LeaseType, PlaceType
<1>4. RunOK' /\ RemoverOK'
  BY DEF Crash, RunOK, RunType, RunArgs, RemoverOK, RemoverType, RemoverArgs, Idle
<1>5. ClientOK'
  BY DEF Crash, ClientOK, ClientType, ClientArgs, NoClient
<1>6. MoverOK' /\ mover'.pc # "save"
  BY DEF Crash, MoverOK, MoverType, MoverArgs, NoMove
<1>7. CountType'
  <2>1. UNCHANGED <<requests, faults, halves>> /\ crashes' \in 0..MaxTroubles
    BY <1>0, CountTrouble DEF Crash
  <2> QED BY <1>0, <2>1 DEF CountType
<1>8. Saver'
  BY <1>2, <1>6, TasksActors DEF Saver
<1> QED BY <1>2, <1>3, <1>4, <1>5, <1>6, <1>7, <1>8, TypedJoin

LEMMA InitTyped ==
  ASSUME Init
  PROVE  Typed
<1>1. PICK s \in Starts :
        /\ table = s /\ index = IndexOf(s) /\ main = s
        /\ home = [t \in Tasks |-> IF s[t] = None THEN None ELSE s[t].uri]
  BY DEF Init
<1>2. s \in Tables
  BY StartAssumption
<1>3. StoreType
  BY <1>1, <1>2, IndexOfType DEF Init, StoreType
<1>4. PlaceType
  <2>1. \A t \in Tasks : s[t] # None => s[t].uri \in Uris
    BY <1>2, TableFacts
  <2> QED BY <1>1, <1>2, <2>1 DEF PlaceType
<1>5. LeaseType
  BY DEF Init, LeaseType
<1>6. RunOK /\ RemoverOK
  BY DEF Init, RunOK, RunType, RunArgs, RemoverOK, RemoverType, RemoverArgs, Idle
<1>7. ClientOK
  BY DEF Init, ClientOK, ClientType, ClientArgs, NoClient
<1>8. MoverOK /\ mover.pc # "save"
  BY DEF Init, MoverOK, MoverType, MoverArgs, NoMove
<1>9. CountType /\ Saver
  BY <1>8, WatchAssumption DEF Init, CountType, Saver
<1> QED BY <1>3, <1>4, <1>5, <1>6, <1>7, <1>8, <1>9, TypedGroups

-----------------------------------------------------------------------------
(* Leases.                                                                 *)

LEMMA AcquireExclusive ==
  ASSUME LeaseType, Exclusive, NEW a \in Actors, NEW us, NEW m \in BOOLEAN, Acquire(a, us, m)
  PROVE  /\ Exclusive'
         /\ held'[a] = [mutation |-> m, uris |-> us]
         /\ \A b \in Actors : b # a => held'[b] = held[b]
<1>1. \A b \in Actors : held'[b] = IF b = a THEN [mutation |-> m, uris |-> us] ELSE held[b]
  BY DEF Acquire, LeaseType
<1>2. \A b \in Actors : held[b] # None /\ (m \/ held[b].mutation) => ~Overlap(us, held[b].uris)
  BY DEF Acquire, HasBlocker
<1>3. ASSUME NEW b \in Actors, NEW c \in Actors, b # c, held'[b] # None, held'[c] # None, held'[b].mutation
      PROVE  ~Overlap(held'[b].uris, held'[c].uris)
  <2>1. CASE b = a
    <3>1. held'[b].uris = us /\ m /\ held'[c] = held[c]
      BY <1>1, <1>3, <2>1
    <3> QED BY <1>2, <1>3, <3>1
  <2>2. CASE c = a
    <3>1. held'[c].uris = us /\ held'[b] = held[b]
      BY <1>1, <1>3, <2>2
    <3>2. ~Overlap(us, held[b].uris)
      BY <1>2, <1>3, <3>1
    <3> QED BY <3>1, <3>2, OverlapSymmetric
  <2>3. CASE b # a /\ c # a
    BY <1>1, <1>3, <2>3 DEF Exclusive
  <2> QED BY <2>1, <2>2, <2>3
<1>4. Exclusive'
  BY <1>3 DEF Exclusive, Overlap
<1> QED BY <1>1, <1>4

LEMMA ReleaseExclusive ==
  ASSUME LeaseType, Exclusive, NEW a \in Actors, Release(a)
  PROVE  Exclusive' /\ \A b \in Actors : b # a => held'[b] = held[b]
<1>1. \A b \in Actors : held'[b] = IF b = a THEN None ELSE held[b]
  BY DEF Release, LeaseType
<1>2. ASSUME NEW b \in Actors, NEW c \in Actors, b # c, held'[b] # None, held'[c] # None, held'[b].mutation
      PROVE  ~Overlap(held'[b].uris, held'[c].uris)
  BY <1>1, <1>2 DEF Exclusive
<1> QED BY <1>1, <1>2 DEF Exclusive, Overlap

LEMMA SameExclusive ==
  ASSUME Exclusive, UNCHANGED held
  PROVE  Exclusive'
BY DEF Exclusive, Overlap

RunHolds ==
  \A t \in Tasks :
    run[t].pc \notin {"off", "due", "wait"} => held[t] = [mutation |-> FALSE, uris |-> {run[t].uri}]
ClientHolds ==
  /\ client.pc = "insert" => held["client"] # None /\ client.uri \in held["client"].uris
  /\ client.pc = "apply" /\ client.op = "watch" =>
       held["client"] # None /\ client.uri \in held["client"].uris
MoverHolds ==
  mover.pc \notin {"off", "wait"} =>
    held["mover"] = [mutation |-> TRUE, uris |-> {mover.from, mover.to}]

LEMMA HoldsGroups == Holds <=> RunHolds /\ ClientHolds /\ MoverHolds
BY DEF Holds, RunHolds, ClientHolds, MoverHolds

LEMMA HoldsJoin == RunHolds' /\ ClientHolds' /\ MoverHolds' => Holds'
BY DEF Holds, RunHolds, ClientHolds, MoverHolds

\* Who did not move and whose lease did not change.
LEMMA HoldsStay ==
  /\ RunHolds /\ UNCHANGED run /\ (\A t \in Tasks : held'[t] = held[t]) => RunHolds'
  /\ ClientHolds /\ UNCHANGED client /\ held'["client"] = held["client"] => ClientHolds'
  /\ MoverHolds /\ UNCHANGED mover /\ held'["mover"] = held["mover"] => MoverHolds'
BY DEF RunHolds, ClientHolds, MoverHolds

\* A run that goes on with its lease.
LEMMA RunKeeps ==
  ASSUME RunOK, RunHolds, NEW t \in Tasks, UNCHANGED held,
         NEW pc \in {"wait", "confirm", "look", "refresh", "touch", "disable", "save", "release"},
         RunGoto(t, pc), pc = "wait" \/ run[t].pc \notin {"off", "due", "wait"}
  PROVE  RunHolds'
<1>1. \A s \in Tasks : run'[s].uri = run[s].uri /\ run'[s].pc = IF s = t THEN pc ELSE run[s].pc
  BY DEF RunGoto, RunOK, RunType
<1> QED BY <1>1 DEF RunHolds

\* A run that gives its lease back, or starts.
LEMMA RunDrops ==
  ASSUME RunOK, RunHolds, NEW t \in Tasks, \A b \in Actors : b # t => held'[b] = held[b],
         run' = [run EXCEPT ![t] = run'[t]], run'[t].pc \in {"off", "due", "wait"}
  PROVE  RunHolds'
<1>1. \A s \in Tasks : s # t => run'[s] = run[s]
  BY DEF RunOK, RunType
<1> QED BY <1>1, TasksActors DEF RunHolds

LEMMA RunLease ==
  ASSUME Typed, LeaseInv, NEW t \in Tasks, StartRun(t) \/ RunStep(t)
  PROVE  LeaseInv'
<1> USE HoldsJoin, HoldsStay, TasksActors, SameExclusive
<1>0. LeaseType /\ RunOK /\ Exclusive /\ RunHolds /\ ClientHolds /\ MoverHolds
  BY TypedGroups, HoldsGroups DEF LeaseInv
<1>g. UNCHANGED RunEnv => UNCHANGED <<client, mover>>
  BY DEF RunEnv
<1> SUFFICES Exclusive' /\ RunHolds' /\ ClientHolds' /\ MoverHolds'
  BY DEF LeaseInv
<1>1. CASE StartRun(t)
  <2>1. run' = [run EXCEPT ![t] = run'[t]] /\ run'[t].pc = "due" /\ UNCHANGED held
    BY <1>0, <1>1 DEF StartRun, RunOK, RunType
  <2>2. RunHolds'
    BY <1>0, <2>1, RunDrops
  <2> QED BY <1>0, <1>1, <1>g, <2>1, <2>2 DEF StartRun
<1>2. CASE EnterRun(t)
  BY <1>0, <1>2, <1>g, RunKeeps DEF EnterRun
<1>3. CASE AccessRun(t)
  <2>1. Acquire(t, {run[t].uri}, FALSE) /\ RunGoto(t, "confirm") /\ UNCHANGED <<client, mover>>
    BY <1>3, <1>g DEF AccessRun
  <2>2. Exclusive' /\ held'[t] = [mutation |-> FALSE, uris |-> {run[t].uri}]
        /\ \A b \in Actors : b # t => held'[b] = held[b]
    BY <1>0, <2>1, AcquireExclusive
  <2>3. \A s \in Tasks : run'[s].uri = run[s].uri /\ run'[s].pc = IF s = t THEN "confirm" ELSE run[s].pc
    BY <1>0, <2>1 DEF RunGoto, RunOK, RunType
  <2>4. RunHolds'
    BY <1>0, <2>2, <2>3 DEF RunHolds
  <2> QED BY <1>0, <2>1, <2>2, <2>4
<1>4. CASE ConfirmRun(t)
  <2>1. CASE run' = [run EXCEPT ![t] = Idle] /\ Release(t)
    <3>1. Exclusive' /\ \A b \in Actors : b # t => held'[b] = held[b]
      BY <1>0, <2>1, ReleaseExclusive
    <3>2. RunHolds'
      <4>1. run' = [run EXCEPT ![t] = run'[t]] /\ run'[t].pc = "off"
        BY <1>0, <2>1 DEF Idle, RunOK, RunType
      <4> QED BY <1>0, <3>1, <4>1, RunDrops
    <3> QED BY <1>0, <1>4, <1>g, <3>1, <3>2 DEF ConfirmRun
  <2>2. CASE run' = [run EXCEPT ![t] = [pc |-> "wait", uri |-> table[t].uri]] /\ Release(t)
    <3>0. run' = [run EXCEPT ![t] = run'[t]] /\ run'[t].pc = "wait"
      BY <1>0, <2>2 DEF RunOK, RunType
    <3>1. Exclusive' /\ \A b \in Actors : b # t => held'[b] = held[b]
      BY <1>0, <2>2, ReleaseExclusive
    <3>2. RunHolds'
      BY <1>0, <3>0, <3>1, RunDrops
    <3> QED BY <1>0, <1>4, <1>g, <3>1, <3>2 DEF ConfirmRun
  <2>3. CASE RunGoto(t, "look") /\ UNCHANGED held
    <3>1. RunHolds'
      BY <1>0, <1>4, <2>3, RunKeeps DEF ConfirmRun
    <3> QED BY <1>0, <1>4, <1>g, <2>3, <3>1 DEF ConfirmRun
  <2> QED BY <1>4, <2>1, <2>2, <2>3 DEF ConfirmRun
<1>5. CASE LookRun(t)
  BY <1>0, <1>5, <1>g, RunKeeps DEF LookRun
<1>6. CASE RefreshRun(t)
  BY <1>0, <1>6, <1>g, RunKeeps DEF RefreshRun
<1>7. CASE TouchRun(t)
  BY <1>0, <1>7, <1>g, RunKeeps DEF TouchRun
<1>8. CASE DisableRun(t)
  BY <1>0, <1>8, <1>g, RunKeeps DEF DisableRun
<1>9. CASE EndRun(t)
  <2>1. Exclusive' /\ \A b \in Actors : b # t => held'[b] = held[b]
    BY <1>0, <1>9, ReleaseExclusive DEF EndRun
  <2>2. RunHolds'
    <3>1. run' = [run EXCEPT ![t] = run'[t]] /\ run'[t].pc = "off"
      BY <1>0, <1>9 DEF EndRun, Idle, RunOK, RunType
    <3> QED BY <1>0, <2>1, <3>1, RunDrops
  <2> QED BY <1>0, <1>9, <1>g, <2>1, <2>2 DEF EndRun
<1> QED BY <1>1, <1>2, <1>3, <1>4, <1>5, <1>6, <1>7, <1>8, <1>9 DEF RunStep

LEMMA ClientLease ==
  ASSUME Typed, LeaseInv, (\E q \in Requests : BeginWatch(q) \/ BeginDelete(q)) \/ ClientStep
  PROVE  LeaseInv'
<1> USE HoldsJoin, HoldsStay, TasksActors, SameExclusive
<1>0. LeaseType /\ ClientOK /\ Exclusive /\ RunHolds /\ ClientHolds /\ MoverHolds
  BY TypedGroups, HoldsGroups DEF LeaseInv
<1>g. UNCHANGED ClientEnv => UNCHANGED <<run, mover>>
  BY DEF ClientEnv
<1> SUFFICES Exclusive' /\ RunHolds' /\ ClientHolds' /\ MoverHolds'
  BY DEF LeaseInv
<1>c. client'.pc \notin {"insert", "apply"} => ClientHolds'
  BY DEF ClientHolds
<1>1. ASSUME NEW q \in Requests, BeginWatch(q) PROVE Exclusive' /\ RunHolds' /\ ClientHolds' /\ MoverHolds'
  <2>1. client'.pc = "lookup" /\ UNCHANGED held
    BY <1>1 DEF BeginWatch, NoClient
  <2> QED BY <1>0, <1>1, <1>g, <1>c, <2>1 DEF BeginWatch
<1>2. ASSUME NEW q \in Requests, BeginDelete(q) PROVE Exclusive' /\ RunHolds' /\ ClientHolds' /\ MoverHolds'
  <2>1. client'.pc = "snapshot" /\ UNCHANGED held
    BY <1>2 DEF BeginDelete, NoClient
  <2> QED BY <1>0, <1>2, <1>g, <1>c, <2>1 DEF BeginDelete
<1>3. CASE Lookup
  <2>1. client'.pc \notin {"insert", "apply"} /\ UNCHANGED held
    BY <1>0, <1>3 DEF Lookup, NoClient, ClientOK, ClientType
  <2> QED BY <1>0, <1>3, <1>g, <1>c, <2>1 DEF Lookup
<1>4. CASE AccessCreate
  <2>1. Acquire("client", {client.uri}, FALSE) /\ UNCHANGED <<run, mover>>
    BY <1>4, <1>g DEF AccessCreate
  <2>2. Exclusive' /\ held'["client"] = [mutation |-> FALSE, uris |-> {client.uri}]
        /\ \A b \in Actors : b # "client" => held'[b] = held[b]
    BY <1>0, <2>1, AcquireExclusive
  <2>3. client'.uri = client.uri /\ client'.pc = "insert" /\ client.uri \in Uris
    BY <1>0, <1>4 DEF AccessCreate, ClientOK, ClientType, ClientArgs
  <2>4. held'["client"] \in Leases
    BY <2>2, <2>3 DEF Leases
  <2>5. ClientHolds'
    <3>1. held'["client"] # None
      BY <2>4, NoneAssumption, Zenon
    <3>2. client'.uri \in held'["client"].uris
      BY <2>2, <2>3
    <3> QED BY <3>1, <3>2 DEF ClientHolds
  <2> QED BY <1>0, <2>1, <2>2, <2>5
<1>5. CASE Insert
  <2>1. client'.pc \notin {"insert", "apply"} /\ UNCHANGED held
    BY <1>0, <1>5 DEF Insert, ClientGoto, ClientOK, ClientType
  <2> QED BY <1>0, <1>5, <1>g, <1>c, <2>1 DEF Insert
<1>6. CASE Snapshot
  <2>1. client'.pc \notin {"insert", "apply"} /\ UNCHANGED held
    BY <1>0, <1>6 DEF Snapshot, NoClient, ClientOK, ClientType
  <2> QED BY <1>0, <1>6, <1>g, <1>c, <2>1 DEF Snapshot
<1>7. CASE AccessEdit
  <2> DEFINE us == {client.at} \cup (IF client.op = "watch" THEN {client.uri} ELSE {})
  <2>1. Acquire("client", us, FALSE) /\ UNCHANGED <<run, mover>>
    BY <1>7, <1>g DEF AccessEdit
  <2>a. us \in SUBSET Uris /\ (client.op = "watch" => client.uri \in us)
    BY <1>0, <1>7 DEF AccessEdit, ClientOK, ClientType, ClientArgs
  <2> HIDE DEF us
  <2>2. Exclusive' /\ held'["client"] = [mutation |-> FALSE, uris |-> us]
        /\ \A b \in Actors : b # "client" => held'[b] = held[b]
    BY <1>0, <2>1, AcquireExclusive
  <2>3. client'.uri = client.uri /\ client'.op = client.op /\ client'.pc = "apply"
    BY <1>0, <1>7 DEF AccessEdit, ClientGoto, ClientOK, ClientType
  <2>4. held'["client"] \in Leases
    BY <2>2, <2>a DEF Leases
  <2>5. ClientHolds'
    <3>1. held'["client"] # None
      BY <2>4, NoneAssumption, Zenon
    <3>2. client'.op = "watch" => client'.uri \in held'["client"].uris
      BY <2>a, <2>2, <2>3
    <3> QED BY <2>3, <3>1, <3>2 DEF ClientHolds
  <2> QED BY <1>0, <2>1, <2>2, <2>5
<1>8. CASE Apply
  <2>1. client'.pc \notin {"insert", "apply"}
    BY <1>0, <1>8 DEF Apply, ClientGoto, ClientOK, ClientType
  <2>2. CASE UNCHANGED held
    BY <1>0, <1>8, <1>g, <1>c, <2>1, <2>2 DEF Apply
  <2>3. CASE Release("client")
    <3>1. Exclusive' /\ \A b \in Actors : b # "client" => held'[b] = held[b]
      BY <1>0, <2>3, ReleaseExclusive
    <3> QED BY <1>0, <1>8, <1>g, <1>c, <2>1, <3>1 DEF Apply
  <2> QED BY <1>8, <2>2, <2>3 DEF Apply
<1>9. CASE EndRequest
  <2>1. client'.pc \notin {"insert", "apply"}
    BY <1>9 DEF EndRequest, NoClient
  <2>2. Exclusive' /\ \A b \in Actors : b # "client" => held'[b] = held[b]
    BY <1>0, <1>9, ReleaseExclusive DEF EndRequest
  <2> QED BY <1>0, <1>9, <1>g, <1>c, <2>1, <2>2 DEF EndRequest
<1> QED BY <1>1, <1>2, <1>3, <1>4, <1>5, <1>6, <1>7, <1>8, <1>9 DEF ClientStep

LEMMA MoveLease ==
  ASSUME Typed, LeaseInv, (\E q \in Requests : BeginMove(q) \/ MoveOut(q)) \/ LeaseMove \/ MoveStep
  PROVE  LeaseInv'
<1> USE HoldsJoin, HoldsStay, TasksActors, SameExclusive
<1>0. LeaseType /\ MoverOK /\ Exclusive /\ RunHolds /\ ClientHolds /\ MoverHolds
  BY TypedGroups, HoldsGroups DEF LeaseInv
<1>g. UNCHANGED MoveEnv => UNCHANGED <<run, client>>
  BY DEF MoveEnv
<1> SUFFICES Exclusive' /\ RunHolds' /\ ClientHolds' /\ MoverHolds'
  BY DEF LeaseInv
<1>m. ASSUME mover'.from = mover.from, mover'.to = mover.to, mover.pc \notin {"off", "wait"}, UNCHANGED held
      PROVE  MoverHolds'
  BY <1>0, <1>m DEF MoverHolds
<1>1. ASSUME NEW q \in Requests, BeginMove(q) PROVE Exclusive' /\ RunHolds' /\ ClientHolds' /\ MoverHolds'
  <2>1. mover'.pc = "wait" /\ UNCHANGED held
    BY <1>1 DEF BeginMove, NoMove
  <2>2. MoverHolds'
    BY <2>1 DEF MoverHolds
  <2> QED BY <1>0, <1>1, <1>g, <2>1, <2>2 DEF BeginMove
<1>2. CASE LeaseMove
  <2>1. Acquire("mover", {mover.from, mover.to}, TRUE) /\ UNCHANGED <<run, client>>
    BY <1>2, <1>g DEF LeaseMove
  <2>2. Exclusive' /\ held'["mover"] = [mutation |-> TRUE, uris |-> {mover.from, mover.to}]
        /\ \A b \in Actors : b # "mover" => held'[b] = held[b]
    BY <1>0, <2>1, AcquireExclusive
  <2>3. mover'.from = mover.from /\ mover'.to = mover.to
    BY <1>0, <1>2 DEF LeaseMove, MoveGoto, MoverOK, MoverType
  <2>4. MoverHolds'
    BY <2>2, <2>3 DEF MoverHolds
  <2> QED BY <1>0, <2>1, <2>2, <2>4
<1>3. CASE ValidateMove
  <2>1. mover'.from = mover.from /\ mover'.to = mover.to
    BY <1>0, <1>3 DEF ValidateMove, MoveGoto, MoverOK, MoverType
  <2> QED BY <1>0, <1>3, <1>g, <1>m, <2>1 DEF ValidateMove
<1>4. CASE MoveFiles
  <2>1. mover'.from = mover.from /\ mover'.to = mover.to
    BY <1>0, <1>4 DEF MoveFiles, MoveGoto, MoverOK, MoverType
  <2> QED BY <1>0, <1>4, <1>g, <1>m, <2>1 DEF MoveFiles
<1>5. CASE RewriteTargets
  <2>1. mover'.from = mover.from /\ mover'.to = mover.to
    BY <1>0, <1>5 DEF RewriteTargets, MoveGoto, MoverOK, MoverType
  <2> QED BY <1>0, <1>5, <1>g, <1>m, <2>1 DEF RewriteTargets
<1>6. CASE UndoMove
  <2>1. mover'.from = mover.from /\ mover'.to = mover.to
    BY <1>0, <1>6 DEF UndoMove, MoveGoto, MoverOK, MoverType
  <2> QED BY <1>0, <1>6, <1>g, <1>m, <2>1 DEF UndoMove
<1>7. CASE EndMove
  <2>1. MoverHolds'
    BY <1>7 DEF EndMove, NoMove, MoverHolds
  <2>2. Exclusive' /\ \A b \in Actors : b # "mover" => held'[b] = held[b]
    BY <1>0, <1>7, ReleaseExclusive DEF EndMove
  <2> QED BY <1>0, <1>7, <1>g, <2>1, <2>2 DEF EndMove
<1>8. CASE \E q \in Requests : MoveOut(q)
  <2>1. UNCHANGED <<held, mover>> /\ UNCHANGED MoveEnv
    BY <1>8 DEF MoveOut
  <2> QED BY <1>0, <1>g, <2>1
<1> QED BY <1>1, <1>2, <1>3, <1>4, <1>5, <1>6, <1>7, <1>8 DEF MoveStep

LEMMA RemoveLease ==
  ASSUME Typed, LeaseInv, (\E q \in Requests : RemoveFiles(q)) \/ RemoveStep
  PROVE  LeaseInv'
<1> USE HoldsJoin, HoldsStay, TasksActors, SameExclusive
<1>0. LeaseType /\ Exclusive /\ RunHolds /\ ClientHolds /\ MoverHolds
  BY TypedGroups, HoldsGroups DEF LeaseInv
<1>g. UNCHANGED RemoveEnv => UNCHANGED <<run, client, mover>>
  BY DEF RemoveEnv
<1> SUFFICES Exclusive' /\ RunHolds' /\ ClientHolds' /\ MoverHolds'
  BY DEF LeaseInv
<1>1. ASSUME NEW q \in Requests, RemoveFiles(q) PROVE Exclusive' /\ RunHolds' /\ ClientHolds' /\ MoverHolds'
  BY <1>0, <1>1, <1>g DEF RemoveFiles
<1>2. CASE AccessRemoved
  <2>1. Acquire("remover", {remover.uri}, FALSE) /\ UNCHANGED <<run, client, mover>>
    BY <1>2, <1>g DEF AccessRemoved
  <2>2. Exclusive' /\ \A b \in Actors : b # "remover" => held'[b] = held[b]
    BY <1>0, <2>1, AcquireExclusive
  <2> QED BY <1>0, <2>1, <2>2
<1>3. CASE Deactivate
  BY <1>0, <1>3 DEF Deactivate
<1>4. CASE EndRemove
  <2>1. Exclusive' /\ \A b \in Actors : b # "remover" => held'[b] = held[b]
    BY <1>0, <1>4, ReleaseExclusive DEF EndRemove
  <2> QED BY <1>0, <1>4, <1>g, <2>1 DEF EndRemove
<1> QED BY <1>1, <1>2, <1>3, <1>4 DEF RemoveStep

LEMMA SaveLease ==
  ASSUME Typed, LeaseInv, SaveStep \/ SaveSlips \/ SaveFails
  PROVE  LeaseInv'
<1> USE HoldsJoin, HoldsStay, TasksActors, SameExclusive
<1>0. /\ LeaseType /\ Exclusive /\ RunHolds /\ ClientHolds /\ MoverHolds
      /\ StoreType /\ RunOK /\ ClientOK /\ MoverOK /\ RemoverOK /\ Saver
  BY TypedGroups, HoldsGroups DEF LeaseInv
<1> SUFFICES Exclusive' /\ RunHolds' /\ ClientHolds' /\ MoverHolds'
  BY DEF LeaseInv
<1>1. CASE Writes
  <2>1. UNCHANGED <<held, run, client, mover>>
    BY <1>0, <1>1, WriteFacts
  <2> QED BY <1>0, <2>1
<1>3. CASE SaveEnds \/ SaveFails
  <2>1. PICK ok \in BOOLEAN : Resume(lock.by, ok) /\ lock # None /\ lock' = None /\ UNCHANGED held
    BY <1>3 DEF SaveEnds, SaveFails, SaveEnv
  <2>2. /\ \A t \in Tasks : run'[t].uri = run[t].uri /\
              (run'[t].pc = run[t].pc \/ (run[t].pc = "save" /\ run'[t].pc = "release"))
        /\ client' = client \/ (client.pc = "save" /\ client'.pc = "release")
        /\ mover'.from = mover.from /\ mover'.to = mover.to
        /\ mover' = mover \/ mover.pc = "save"
    BY <1>0, <2>1, SaveFacts, Resumed
  <2>3. RunHolds'
    BY <1>0, <2>1, <2>2 DEF RunHolds
  <2>4. ClientHolds'
    BY <1>0, <2>1, <2>2 DEF ClientHolds
  <2>5. MoverHolds'
    BY <1>0, <2>1, <2>2 DEF MoverHolds
  <2> QED BY <1>0, <2>1, <2>3, <2>4, <2>5
<1> QED BY <1>1, <1>3 DEF SaveStep, Writes

LEMMA CrashLease ==
  ASSUME Crash
  PROVE  LeaseInv'
<1>1. \A a \in Actors : held'[a] = None
  BY DEF Crash
<1>2. Exclusive'
  BY <1>1 DEF Exclusive, Overlap
<1>3. Holds'
  BY DEF Crash, Holds, Idle, NoClient, NoMove
<1> QED BY <1>2, <1>3 DEF LeaseInv

LEMMA InitLease ==
  ASSUME Init
  PROVE  LeaseInv
<1>1. \A a \in Actors : held[a] = None
  BY DEF Init
<1>2. Exclusive
  BY <1>1 DEF Exclusive
<1>3. Holds
  BY DEF Init, Holds, Idle, NoClient, NoMove
<1> QED BY <1>2, <1>3 DEF LeaseInv

-----------------------------------------------------------------------------
(* The index and the file.                                                 *)

\* Tables with the same tasks and targets.
SameTargets(tab, new) ==
  \A s \in Tasks : (new[s] # None <=> tab[s] # None) /\ (new[s] # None => new[s].uri = tab[s].uri)

LEMMA ExactSame ==
  ASSUME NEW tab, NEW new, NEW ind, SameTargets(tab, new), Exact(tab, ind)
  PROVE  Exact(new, ind)
BY DEF SameTargets, Exact

LEMMA ExactPut ==
  ASSUME StoreType, IndexExact, NEW t \in Tasks, NEW u \in Uris, index[u] \in {None, t}
  PROVE  Exact([table EXCEPT ![t] = [uri |-> u, active |-> TRUE]], Retargeted(t, u))
<1> DEFINE e == [uri |-> u, active |-> TRUE]
           new == [table EXCEPT ![t] = e]
<1>1. e \in Entries /\ e.uri = u
  BY DEF Entries
<1>2. e # None
  BY <1>1, NoneAssumption
<1> HIDE DEF e
<1>3. \A s \in Tasks : new[s] = IF s = t THEN e ELSE table[s]
  BY DEF StoreType, Tables
<1>4. \A v \in Uris : Retargeted(t, u)[v] = IF v = u THEN t ELSE IF index[v] = t THEN None ELSE index[v]
  BY DEF Retargeted
<1> HIDE DEF new
<1>5. ASSUME NEW s \in Tasks, NEW v \in Uris
      PROVE  Retargeted(t, u)[v] = s <=> (new[s] # None /\ new[s].uri = v)
  <2>1. index[v] = s <=> (table[s] # None /\ table[s].uri = v)
    BY DEF IndexExact
  <2>2. index[u] = s <=> (table[s] # None /\ table[s].uri = u)
    BY DEF IndexExact
  <2>3. s # None /\ t # None
    BY WatchAssumption
  <2>4. CASE s = t
    BY <1>1, <1>2, <1>3, <1>4, <2>3, <2>4
  <2>5. CASE s # t
    <3>1. new[s] = table[s]
      BY <1>3, <2>5
    <3>2. CASE v = u
      BY <1>4, <2>2, <2>3, <2>5, <3>1, <3>2
    <3>3. CASE v # u
      BY <1>4, <2>1, <2>3, <2>5, <3>1, <3>3
    <3> QED BY <3>2, <3>3
  <2> QED BY <2>4, <2>5
<1>6. Exact(new, Retargeted(t, u))
  BY <1>5 DEF Exact
<1> QED BY <1>6 DEF new, e

LEMMA ExactDelete ==
  ASSUME StoreType, IndexExact, NEW t \in Tasks
  PROVE  Exact([table EXCEPT ![t] = None], [u \in Uris |-> IF index[u] = t THEN None ELSE index[u]])
<1> DEFINE new == [table EXCEPT ![t] = None]
           ind == [u \in Uris |-> IF index[u] = t THEN None ELSE index[u]]
<1>1. \A s \in Tasks : new[s] = IF s = t THEN None ELSE table[s]
  BY DEF StoreType, Tables
<1>2. \A v \in Uris : ind[v] = IF index[v] = t THEN None ELSE index[v]
  OBVIOUS
<1> HIDE DEF new, ind
<1>3. \A s \in Tasks : s # None
  BY WatchAssumption
<1>4. \A s \in Tasks, v \in Uris : ind[v] = s <=> (new[s] # None /\ new[s].uri = v)
  BY <1>1, <1>2, <1>3 DEF IndexExact
<1>5. Exact(new, ind)
  BY <1>4 DEF Exact
<1> QED BY <1>5 DEF new, ind

\* The prefix rewrite: every task below the source goes to the counterpart of its
\* target, and no two meet there.
LEMMA ExactRewrite ==
  ASSUME StoreType, IndexExact, NEW from, NEW to, Asks(from, to), ~Conflict(from, to)
  PROVE  Exact([t \in Tasks |-> IF t \in Planned(from)
                                THEN [table[t] EXCEPT !.uri = Rewrite(table[t].uri, from, to)]
                                ELSE table[t]],
               [u \in Uris |->
                  IF \E t \in Planned(from) : u = Rewrite(table[t].uri, from, to)
                  THEN CHOOSE t \in Planned(from) : u = Rewrite(table[t].uri, from, to)
                  ELSE IF index[u] \in Planned(from) THEN None ELSE index[u]])
<1> DEFINE plan == Planned(from)
           at(t) == Rewrite(table[t].uri, from, to)
           new == [t \in Tasks |-> IF t \in plan THEN [table[t] EXCEPT !.uri = at(t)] ELSE table[t]]
           ind == [u \in Uris |-> IF \E t \in plan : u = at(t) THEN CHOOSE t \in plan : u = at(t)
                                  ELSE IF index[u] \in plan THEN None ELSE index[u]]
<1>t. table \in Tables /\ index \in [Uris -> Tasks \cup {None}]
  BY DEF StoreType
<1>1. plan \subseteq Tasks /\ \A t \in plan : table[t] # None /\ Under(table[t].uri, from)
  BY DEF Planned
<1>2. \A t \in plan : table[t] \in Entries /\ table[t].uri \in Uris /\ at(t) \in Uris
  BY <1>t, <1>1, TableFacts, AskedMove
<1>3. \A t \in plan : Rewrite(at(t), to, from) = table[t].uri
  BY <1>1, <1>2, AskedMove
<1>4. \A t, s \in plan : at(t) = at(s) => t = s
  <2>1. \A t, s \in plan : at(t) = at(s) => table[t].uri = table[s].uri
    BY <1>3
  <2>2. \A t \in plan : index[table[t].uri] = t
    BY <1>1, <1>2 DEF IndexExact
  <2> QED BY <2>1, <2>2
<1>5. \A t \in plan : index[at(t)] \in {None, t}
  BY DEF Conflict
<1>6. \A t \in plan : [table[t] EXCEPT !.uri = at(t)] \in Entries /\ [table[t] EXCEPT !.uri = at(t)].uri = at(t)
  BY <1>2 DEF Entries
<1>7. \A t \in plan : new[t] # None /\ new[t].uri = at(t)
  BY <1>1, <1>6, NoneAssumption
<1>8. \A t \in Tasks : t \notin plan => new[t] = table[t]
  OBVIOUS
<1>9. \A t \in plan : ind[at(t)] = t
  <2> SUFFICES ASSUME NEW t \in plan PROVE ind[at(t)] = t
    OBVIOUS
  <2>1. \E s \in plan : at(t) = at(s)
    OBVIOUS
  <2>2. ind[at(t)] = CHOOSE s \in plan : at(t) = at(s)
    BY <1>2, <2>1
  <2>3. PICK s \in plan : ind[at(t)] = s /\ at(t) = at(s)
    BY <2>1, <2>2
  <2> HIDE DEF at, ind, plan
  <2> QED BY <1>4, <2>3
<1>10. \A u \in Uris : (\A t \in plan : u # at(t)) => ind[u] = IF index[u] \in plan THEN None ELSE index[u]
  OBVIOUS
<1>p. \A t \in Tasks : t # None
  BY WatchAssumption
<1> HIDE DEF plan, at, new, ind
<1>11. ASSUME NEW s \in Tasks, NEW v \in Uris
       PROVE  ind[v] = s <=> (new[s] # None /\ new[s].uri = v)
  <2>1. index[v] = s <=> (table[s] # None /\ table[s].uri = v)
    BY DEF IndexExact
  <2>2. CASE \E t \in plan : v = at(t)
    <3>1. PICK t \in plan : v = at(t)
      BY <2>2
    <3>2. ind[v] = t /\ index[v] \in {None, t}
      BY <1>5, <1>9, <3>1
    <3>3. CASE s = t
      BY <1>7, <3>1, <3>2, <3>3
    <3>4. CASE s # t /\ s \in plan
      BY <1>4, <1>7, <3>1, <3>2, <3>4
    <3>5. CASE s # t /\ s \notin plan
      BY <1>8, <1>p, <2>1, <3>2, <3>5
    <3> QED BY <3>3, <3>4, <3>5
  <2>3. CASE \A t \in plan : v # at(t)
    <3>1. ind[v] = IF index[v] \in plan THEN None ELSE index[v]
      BY <1>10, <2>3
    <3>2. CASE s \in plan
      BY <1>7, <1>p, <2>3, <3>1, <3>2
    <3>3. CASE s \notin plan
      BY <1>8, <1>p, <2>1, <3>1, <3>3
    <3> QED BY <3>2, <3>3
  <2> QED BY <2>2, <2>3
<1>12. Exact(new, ind)
  BY <1>11 DEF Exact
<1> QED BY <1>12 DEF plan, at, new, ind

LEMMA ExactDistinct ==
  ASSUME NEW tab \in Tables, NEW ind, Exact(tab, ind)
  PROVE  Distinct(tab)
BY TableFacts DEF Exact, Distinct

StoreInv == IndexInv /\ FileInv

LEMMA QuietStore ==
  ASSUME StoreInv, UNCHANGED <<table, index, main, bak, lock>>
  PROVE  StoreInv'
BY DEF StoreInv, IndexInv, IndexExact, Exact, Distinct, FileInv

\* A change of the table, and the save that follows it.
LEMMA ChangeStore ==
  ASSUME StoreType, StoreInv, Unlocked, NEW a \in Actors, NEW tab \in Tables,
         NEW ind \in [Uris -> Tasks \cup {None}],
         Change(a, tab, ind), UNCHANGED <<main, bak>>, Exact(tab, ind)
  PROVE  StoreInv'
<1>1. /\ lock' # None /\ lock'.by = a /\ lock'.step = "tmp"
      /\ lock'.old = table /\ lock'.oldIndex = index /\ lock'.stored = main
  BY ChangeType
<1>2. IndexExact'
  BY DEF Change, IndexExact, Exact
<1>3. Exact(lock'.old, lock'.oldIndex)
  BY <1>1 DEF StoreInv, IndexInv, IndexExact, Exact
<1>4. IndexInv'
  BY <1>2, <1>3 DEF StoreInv, IndexInv, Exact, Distinct
<1>5. FileInv'
  BY <1>1 DEF FileInv
<1> QED BY <1>4, <1>5 DEF StoreInv

LEMMA RunStore ==
  ASSUME Typed, StoreInv, NEW t \in Tasks, StartRun(t) \/ RunStep(t)
  PROVE  StoreInv'
<1>0. StoreType /\ IndexExact /\ Exact(table, index)
  BY TypedGroups DEF StoreInv, IndexInv, IndexExact, Exact
<1>t. table \in Tables /\ index \in [Uris -> Tasks \cup {None}]
  BY <1>0 DEF StoreType
<1>g. UNCHANGED RunEnv => UNCHANGED <<main, bak>>
  BY DEF RunEnv
<1>1. CASE StartRun(t) \/ EnterRun(t) \/ AccessRun(t) \/ ConfirmRun(t) \/ LookRun(t) \/ RefreshRun(t) \/ EndRun(t)
  <2>1. UNCHANGED <<table, index, main, bak, lock>>
    BY <1>1, <1>g DEF StartRun, EnterRun, AccessRun, ConfirmRun, LookRun, RefreshRun, EndRun
  <2> QED BY <2>1, QuietStore
<1>2. CASE TouchRun(t)
  <2>1. CASE UNCHANGED <<table, index, lock>>
    BY <1>2, <1>g, <2>1, QuietStore DEF TouchRun
  <2>2. CASE Change(t, table, index)
    BY <1>0, <1>2, <1>g, <1>t, <2>2, ChangeStore, TasksActors DEF TouchRun
  <2> QED BY <1>2, <2>1, <2>2 DEF TouchRun
<1>3. CASE DisableRun(t)
  <2>1. CASE UNCHANGED <<table, index, lock>>
    BY <1>3, <1>g, <2>1, QuietStore DEF DisableRun
  <2>2. CASE table[t] # None /\ Change(t, [table EXCEPT ![t].active = FALSE], index)
    <3> DEFINE new == [table EXCEPT ![t].active = FALSE]
    <3>1. new \in Tables /\ SameTargets(table, new)
      BY <1>t, <2>2, SwitchedOff DEF SameTargets
    <3>2. Change(t, new, index)
      BY <2>2
    <3> HIDE DEF new
    <3>3. Exact(new, index)
      BY <1>0, <3>1, ExactSame
    <3> QED BY <1>0, <1>3, <1>g, <1>t, <3>1, <3>2, <3>3, ChangeStore, TasksActors DEF DisableRun
  <2> QED BY <1>3, <2>1, <2>2 DEF DisableRun
<1> QED BY <1>1, <1>2, <1>3 DEF RunStep

LEMMA ClientStore ==
  ASSUME Typed, StoreInv, (\E q \in Requests : BeginWatch(q) \/ BeginDelete(q)) \/ ClientStep
  PROVE  StoreInv'
<1>0. StoreType /\ IndexExact /\ Exact(table, index) /\ ClientOK
  BY TypedGroups DEF StoreInv, IndexInv, IndexExact, Exact
<1>t. table \in Tables /\ index \in [Uris -> Tasks \cup {None}]
  BY <1>0 DEF StoreType
<1>g. UNCHANGED ClientEnv => UNCHANGED <<main, bak>>
  BY DEF ClientEnv
<1>1. CASE (\E q \in Requests : BeginWatch(q) \/ BeginDelete(q)) \/ Lookup \/ AccessCreate \/ Snapshot
           \/ AccessEdit \/ EndRequest
  <2>1. UNCHANGED <<table, index, main, bak, lock>>
    BY <1>1, <1>g DEF BeginWatch, BeginDelete, Lookup, AccessCreate, Snapshot, AccessEdit, EndRequest
  <2> QED BY <2>1, QuietStore
<1>2. CASE Insert
  <2>1. CASE UNCHANGED <<table, index, lock>>
    BY <1>2, <1>g, <2>1, QuietStore DEF Insert
  <2>2. CASE /\ index[client.uri] = None
             /\ Change("client", [table EXCEPT ![client.task] = [uri |-> client.uri, active |-> TRUE]],
                       Retargeted(client.task, client.uri))
    <3> DEFINE new == [table EXCEPT ![client.task] = [uri |-> client.uri, active |-> TRUE]]
               ind == Retargeted(client.task, client.uri)
    <3>1. client.uri \in Uris /\ client.task \in Tasks
      BY <1>0, <1>2 DEF Insert, ClientOK, ClientArgs
    <3>2. new \in Tables /\ ind \in [Uris -> Tasks \cup {None}] /\ Exact(new, ind)
      BY <1>0, <1>t, <2>2, <3>1, PutType, RetargetedType, ExactPut
    <3>3. Change("client", new, ind)
      BY <2>2
    <3> HIDE DEF new, ind
    <3> QED BY <1>0, <1>2, <1>g, <3>2, <3>3, ChangeStore, TasksActors DEF Insert
  <2> QED BY <1>2, <2>1, <2>2 DEF Insert
<1>3. CASE Apply
  <2>1. CASE UNCHANGED <<table, index, lock>>
    BY <1>3, <1>g, <2>1, QuietStore DEF Apply
  <2>2. CASE /\ table[client.task] # None
             /\ client.op = "watch" => index[client.uri] \in {None, client.task}
             /\ Change("client", Edited(client.task), EditedIndex(client.task))
    <3> DEFINE t == client.task
    <3>1. t \in Tasks /\ client.pc = "apply" /\ (client.op = "watch" => client.uri \in Uris)
      BY <1>0, <1>3 DEF Apply, ClientOK, ClientArgs
    <3>2. Edited(t) \in Tables /\ EditedIndex(t) \in [Uris -> Tasks \cup {None}]
      BY <1>0, <2>2, <3>1, EditedType
    <3>3. Exact(Edited(t), EditedIndex(t))
      <4>1. CASE client.op = "watch"
        <5>1. Exact([table EXCEPT ![t] = [uri |-> client.uri, active |-> TRUE]], Retargeted(t, client.uri))
          BY <1>0, <2>2, <3>1, <4>1, ExactPut
        <5> QED BY <4>1, <5>1 DEF Edited, EditedIndex
      <4>2. CASE client.op = "unwatch"
        <5>1. SameTargets(table, [table EXCEPT ![t].active = FALSE])
          BY <1>t, <2>2, <3>1, SwitchedOff DEF SameTargets
        <5>2. Exact([table EXCEPT ![t].active = FALSE], index)
          BY <1>0, <5>1, ExactSame
        <5> QED BY <4>2, <5>2 DEF Edited, EditedIndex
      <4>3. CASE client.op = "delete"
        <5>1. Exact([table EXCEPT ![t] = None], [u \in Uris |-> IF index[u] = t THEN None ELSE index[u]])
          BY <1>0, <3>1, ExactDelete
        <5> QED BY <4>3, <5>1 DEF Edited, EditedIndex
      <4> QED BY <1>0, <4>1, <4>2, <4>3 DEF ClientOK, ClientType
    <3> QED BY <1>0, <1>3, <1>g, <2>2, <3>2, <3>3, ChangeStore, TasksActors DEF Apply
  <2> QED BY <1>3, <2>1, <2>2 DEF Apply
<1> QED BY <1>1, <1>2, <1>3 DEF ClientStep

LEMMA MoveStore ==
  ASSUME Typed, StoreInv, (\E q \in Requests : BeginMove(q) \/ MoveOut(q)) \/ LeaseMove \/ MoveStep
  PROVE  StoreInv'
<1>0. StoreType /\ IndexExact /\ MoverOK
  BY TypedGroups DEF StoreInv, IndexInv
<1>g. UNCHANGED MoveEnv => UNCHANGED <<main, bak>>
  BY DEF MoveEnv
<1>1. CASE (\E q \in Requests : BeginMove(q) \/ MoveOut(q)) \/ LeaseMove \/ ValidateMove \/ MoveFiles \/ UndoMove \/ EndMove
  <2>1. UNCHANGED <<table, index, main, bak, lock>>
    BY <1>1, <1>g DEF BeginMove, MoveOut, LeaseMove, ValidateMove, MoveFiles, UndoMove, EndMove
  <2> QED BY <2>1, QuietStore
<1>2. CASE RewriteTargets
  <2>1. CASE UNCHANGED <<table, index, lock>>
    BY <1>2, <1>g, <2>1, QuietStore DEF RewriteTargets
  <2> DEFINE new == [t \in Tasks |-> IF t \in Planned(mover.from)
                                   THEN [table[t] EXCEPT !.uri = Rewrite(table[t].uri, mover.from, mover.to)]
                                   ELSE table[t]]
             ind == [u \in Uris |->
                     IF \E t \in Planned(mover.from) : u = Rewrite(table[t].uri, mover.from, mover.to)
                     THEN CHOOSE t \in Planned(mover.from) : u = Rewrite(table[t].uri, mover.from, mover.to)
                     ELSE IF index[u] \in Planned(mover.from) THEN None ELSE index[u]]
  <2>2. CASE ~Conflict(mover.from, mover.to) /\ Change("mover", new, ind)
    <3>1. Asks(mover.from, mover.to)
      BY <1>0, <1>2 DEF RewriteTargets, MoverOK, MoverArgs
    <3>2. new \in Tables /\ ind \in [Uris -> Tasks \cup {None}]
      BY <1>0, <3>1, RewrittenType
    <3>3. Exact(new, ind)
      BY <1>0, <2>2, <3>1, ExactRewrite
    <3> HIDE DEF new, ind
    <3> QED BY <1>0, <1>2, <1>g, <2>2, <3>2, <3>3, ChangeStore, TasksActors DEF RewriteTargets
  <2> QED BY <1>2, <2>1, <2>2 DEF RewriteTargets
<1> QED BY <1>1, <1>2 DEF MoveStep

LEMMA RemoveStore ==
  ASSUME Typed, StoreInv, (\E q \in Requests : RemoveFiles(q)) \/ RemoveStep
  PROVE  StoreInv'
<1>0. StoreType /\ IndexExact /\ Exact(table, index)
  BY TypedGroups DEF StoreInv, IndexInv, IndexExact, Exact
<1>g. UNCHANGED RemoveEnv => UNCHANGED <<index, main, bak>>
  BY DEF RemoveEnv
<1>1. CASE (\E q \in Requests : RemoveFiles(q)) \/ AccessRemoved \/ EndRemove
  <2>1. UNCHANGED <<table, index, main, bak, lock>>
    BY <1>1, <1>g DEF RemoveFiles, AccessRemoved, EndRemove
  <2> QED BY <2>1, QuietStore
<1>2. CASE Deactivate
  <2>1. CASE UNCHANGED <<table, lock>>
    BY <1>2, <2>1, QuietStore DEF Deactivate
  <2> DEFINE new == [t \in Tasks |-> IF t \in Planned(remover.uri) THEN [table[t] EXCEPT !.active = FALSE]
                                   ELSE table[t]]
  <2>2. CASE Change("remover", new, index)
    <3>1. table \in Tables /\ index \in [Uris -> Tasks \cup {None}]
      BY <1>0 DEF StoreType
    <3>2. Planned(remover.uri) \in SUBSET Tasks /\ \A t \in Planned(remover.uri) : table[t] # None
      BY DEF Planned
    <3>3. new \in Tables /\ SameTargets(table, new)
      BY <3>1, <3>2, DeactivatedFacts DEF SameTargets
    <3> HIDE DEF new
    <3>4. Exact(new, index)
      BY <1>0, <3>3, ExactSame
    <3> QED BY <1>0, <1>2, <2>2, <3>1, <3>3, <3>4, ChangeStore, TasksActors DEF Deactivate
  <2> QED BY <1>2, <2>1, <2>2 DEF Deactivate
<1> QED BY <1>1, <1>2 DEF RemoveStep

LEMMA WriteFile ==
  ASSUME StoreType, FileInv, Writes
  PROVE  FileInv'
<1>0. UNCHANGED table /\ lock # None
  BY WriteFacts
<1>1. CASE SaveTmp
  <2>1. lock'.step = "rotate" /\ lock'.stored = lock.stored /\ lock.step = "tmp" /\ UNCHANGED main
    BY <1>0, <1>1, StepOfSave DEF SaveTmp
  <2> QED BY <1>0, <2>1 DEF FileInv
<1>2. CASE SaveBackup
  <2>1. CASE main # None
    <3>1. /\ lock'.step = "drop" /\ lock'.stored = lock.stored /\ lock.step = "rotate"
          /\ UNCHANGED main /\ bak' = main
      BY <1>0, <1>2, <2>1, StepOfSave DEF SaveBackup
    <3> QED BY <1>0, <3>1 DEF FileInv
  <2>2. CASE main = None
    <3>1. lock'.stored = lock.stored /\ lock.step = "rotate"
      BY <1>0, <1>2, <2>2, StepOfSave DEF SaveBackup
    <3> QED BY <1>0, <2>2, <3>1 DEF FileInv
  <2> QED BY <2>1, <2>2
<1>3. CASE SaveDrop
  <2>1. lock'.step = "publish" /\ lock'.stored = lock.stored /\ lock.step = "drop" /\ main' = None /\ UNCHANGED bak
    BY <1>0, <1>3, StepOfSave DEF SaveDrop
  <2> QED BY <1>0, <2>1 DEF FileInv
<1>4. CASE SavePublish
  <2>1. /\ lock'.step = "finish" /\ lock'.stored = lock.stored /\ lock.step = "publish"
        /\ main' = table /\ UNCHANGED bak
    BY <1>0, <1>4, StepOfSave DEF SavePublish
  <2> QED BY <1>0, <2>1 DEF FileInv
<1>5. CASE SaveSlips
  <2>0. UNCHANGED main
    BY <1>5 DEF SaveSlips
  <2>1. CASE SaveGoto("rotate") /\ lock.step = "tmp"
    <3>1. lock'.step = "rotate" /\ lock'.stored = lock.stored
      BY <1>0, <2>1, StepOfSave
    <3> QED BY <1>0, <2>0, <2>1, <3>1 DEF FileInv
  <2>2. CASE SaveGoto("publish") /\ UNCHANGED bak /\ lock.step = "drop"
    <3>1. lock'.step = "publish" /\ lock'.stored = lock.stored
      BY <1>0, <2>2, StepOfSave
    <3> QED BY <1>0, <2>0, <2>2, <3>1 DEF FileInv
  <2>3. CASE lock' = [lock EXCEPT !.step = "publish", !.stored = None]
    <3>1. lock'.stored = None
      BY <1>0, <2>3, SlipOfSave
    <3> QED BY <3>1 DEF FileInv
  <2> QED BY <1>5, <2>1, <2>2, <2>3, SlipCases
<1> QED BY <1>1, <1>2, <1>3, <1>4, <1>5 DEF Writes

LEMMA SaveStore ==
  ASSUME Typed, StoreInv, SaveStep \/ SaveSlips \/ SaveFails
  PROVE  StoreInv'
<1>0. StoreType /\ IndexExact /\ Exact(table, index) /\ IndexInv /\ FileInv
  BY TypedGroups DEF StoreInv, IndexInv, IndexExact, Exact
<1>1. CASE Writes
  <2>1. /\ UNCHANGED <<table, index>> /\ lock # None /\ lock' # None
        /\ lock'.by = lock.by /\ lock'.old = lock.old /\ lock'.oldIndex = lock.oldIndex
    BY <1>0, <1>1, WriteFacts
  <2>2. Distinct(table)
    BY <1>0, ExactDistinct DEF StoreType
  <2>3. (main' = main \/ main' = None \/ main' = table) /\ (bak' = bak \/ bak' = None \/ bak' = main)
    BY <1>1 DEF Writes, SaveTmp, SaveBackup, SaveDrop, SavePublish, SaveSlips
  <2>4. (main' # None => Distinct(main')) /\ (bak' # None => Distinct(bak'))
    BY <1>0, <2>2, <2>3 DEF IndexInv
  <2>5. IndexInv'
    BY <1>0, <2>1, <2>4 DEF IndexInv, IndexExact, Exact, Distinct
  <2> QED BY <1>0, <1>1, <2>5, WriteFile DEF StoreInv
<1>2. CASE SaveEnds
  <2>1. lock' = None /\ UNCHANGED <<table, index, main, bak>>
    BY <1>2 DEF SaveEnds, SaveEnv
  <2> QED BY <1>0, <2>1 DEF StoreInv, IndexInv, IndexExact, Distinct, FileInv
<1>3. CASE SaveFails
  <2>1. lock' = None /\ (main' = main \/ main' = None) /\ UNCHANGED bak
    BY <1>3 DEF SaveFails
  <2>2. IndexExact'
    BY <1>0, <1>3 DEF SaveFails, IndexInv, IndexExact, Exact
  <2> QED BY <1>0, <2>1, <2>2 DEF StoreInv, IndexInv, Distinct, FileInv
<1> QED BY <1>1, <1>2, <1>3 DEF SaveStep, Writes

LEMMA CrashStore ==
  ASSUME Typed, StoreInv, Crash
  PROVE  StoreInv'
BY TypedGroups, CrashFacts DEF StoreInv

LEMMA InitStore ==
  ASSUME Init
  PROVE  StoreInv
<1>1. PICK s \in Starts : table = s /\ index = IndexOf(s) /\ main = s
  BY DEF Init
<1>2. s \in Tables /\ Distinct(s)
  BY StartAssumption DEF Distinct
<1>3. Exact(table, index)
  BY <1>1, <1>2, IndexOfExact
<1>4. IndexInv
  BY <1>1, <1>2, <1>3 DEF Init, IndexInv, IndexExact, Exact
<1>5. FileInv
  BY DEF Init, FileInv
<1> QED BY <1>4, <1>5 DEF StoreInv

-----------------------------------------------------------------------------
(* Watches and the places of their resources.                              *)

LEMMA FollowSame ==
  ASSUME FollowInv, SameTargets(table, table'), UNCHANGED <<home, mover, crashes, halves>>,
         mover.pc = "save" => lock'.old = lock.old
  PROVE  FollowInv'
BY DEF FollowInv, Follows, Displaced, SameTargets

LEMMA TargetsUnchanged ==
  ASSUME UNCHANGED table
  PROVE  SameTargets(table, table')
BY DEF SameTargets

LEMMA RunFollow ==
  ASSUME Typed, FollowInv, NEW t \in Tasks, StartRun(t) \/ RunStep(t)
  PROVE  FollowInv'
<1>0. table \in Tables /\ Saver
  BY TypedGroups DEF StoreType
<1>g. UNCHANGED RunEnv => UNCHANGED <<home, mover, crashes, halves>>
  BY DEF RunEnv
<1>u. Unlocked => mover.pc # "save"
  BY <1>0 DEF Saver, Unlocked
<1>1. UNCHANGED <<home, mover, crashes, halves>> /\ (mover.pc = "save" => lock'.old = lock.old)
  BY <1>g, <1>u DEF RunStep, StartRun, EnterRun, AccessRun, ConfirmRun, LookRun, RefreshRun, TouchRun,
     DisableRun, EndRun
<1>2. SameTargets(table, table')
  <2>1. CASE DisableRun(t) /\ table[t] # None /\ table' = [table EXCEPT ![t].active = FALSE]
    BY <1>0, <2>1, SwitchedOff DEF SameTargets
  <2>2. CASE UNCHANGED table
    BY <2>2, TargetsUnchanged
  <2>3. CASE DisableRun(t)
    BY <2>1, <2>2, <2>3 DEF DisableRun, Change
  <2> QED BY <2>2, <2>3 DEF RunStep, StartRun, EnterRun, AccessRun, ConfirmRun, LookRun, RefreshRun, TouchRun,
     EndRun, Change
<1> QED BY <1>1, <1>2, FollowSame

\* A watch gets a target nobody is moving.
LEMMA FollowPut ==
  ASSUME Typed, LeaseInv, FollowInv, Unlocked, NEW t \in Tasks, NEW u \in Uris,
         held["client"] # None, u \in held["client"].uris,
         table' = [table EXCEPT ![t] = [uri |-> u, active |-> TRUE]],
         home' = [home EXCEPT ![t] = u], UNCHANGED <<mover, crashes, halves>>
  PROVE  FollowInv'
<1>0. StoreType /\ PlaceType /\ MoverOK /\ Saver /\ Exclusive /\ MoverHolds
  BY TypedGroups, HoldsGroups DEF LeaseInv
<1>1. \A s \in Tasks : table'[s] = IF s = t THEN [uri |-> u, active |-> TRUE] ELSE table[s]
  BY <1>0 DEF StoreType, Tables
<1>2. \A s \in Tasks : home'[s] = IF s = t THEN u ELSE home[s]
  BY <1>0 DEF PlaceType
<1>3. [uri |-> u, active |-> TRUE].uri = u
  OBVIOUS
<1>4. mover.pc # "save"
  BY <1>0 DEF Saver, Unlocked
<1>5. mover.pc \in {"rewrite", "undo"} => ~Under(u, mover.from) /\ ~Under(u, mover.to)
  <2> SUFFICES ASSUME mover.pc \in {"rewrite", "undo"} PROVE ~Under(u, mover.from) /\ ~Under(u, mover.to)
    OBVIOUS
  <2>1. held["mover"] = [mutation |-> TRUE, uris |-> {mover.from, mover.to}]
    BY <1>0 DEF MoverHolds
  <2>2. mover.from \in Uris /\ mover.to \in Uris
    BY <1>0, AskedMove DEF MoverOK, MoverArgs
  <2>3. held["mover"] \in Leases
    BY <2>1, <2>2 DEF Leases
  <2>4. held["mover"] # None
    BY <2>3, NoneAssumption, Zenon
  <2>5. held["mover"].mutation /\ held["mover"].uris = {mover.from, mover.to}
    BY <2>1
  <2>6. ~Overlap(held["mover"].uris, held["client"].uris)
    BY <1>0, <2>4, <2>5, TasksActors DEF Exclusive
  <2>7. mover.from \in held["mover"].uris /\ mover.to \in held["mover"].uris
    BY <2>5
  <2> QED BY <2>6, <2>7, UnderOverlaps
<1>6. Follows => Follows'
  BY <1>1, <1>2, <1>3 DEF Follows
<1>7. mover.pc \in {"rewrite", "undo"} /\ Displaced(table) => Displaced(table)'
  <2> SUFFICES ASSUME mover.pc \in {"rewrite", "undo"}, Displaced(table), NEW s \in Tasks, table'[s] # None, home'[s] # None
               PROVE  IF Under(table'[s].uri, mover.from)
                      THEN s \in mover.plan /\ home'[s] = Rewrite(table'[s].uri, mover.from, mover.to)
                      ELSE home'[s] = table'[s].uri /\ (s \in mover.plan => ~Under(home'[s], mover.to))
    BY DEF Displaced
  <2>1. CASE s = t
    <3>1. table'[s].uri = u /\ home'[s] = u
      BY <1>1, <1>2, <1>3, <2>1
    <3> QED BY <1>5, <3>1
  <2>2. CASE s # t
    <3>1. table'[s] = table[s] /\ home'[s] = home[s]
      BY <1>1, <1>2, <2>2
    <3> QED BY <3>1 DEF Displaced
  <2> QED BY <2>1, <2>2
<1> QED BY <1>4, <1>6, <1>7 DEF FollowInv

LEMMA ClientFollow ==
  ASSUME Typed, LeaseInv, FollowInv, (\E q \in Requests : BeginWatch(q) \/ BeginDelete(q)) \/ ClientStep
  PROVE  FollowInv'
<1>0. table \in Tables /\ Saver /\ ClientOK /\ ClientHolds
  BY TypedGroups, HoldsGroups DEF StoreType, LeaseInv
<1>g. UNCHANGED ClientEnv => UNCHANGED <<mover, crashes, halves>>
  BY DEF ClientEnv
<1>u. Unlocked => mover.pc # "save"
  BY <1>0 DEF Saver, Unlocked
<1>1. CASE (\E q \in Requests : BeginWatch(q) \/ BeginDelete(q)) \/ Lookup \/ AccessCreate \/ Snapshot
           \/ AccessEdit \/ EndRequest
  <2>1. UNCHANGED <<table, lock, home, mover, crashes, halves>>
    BY <1>1, <1>g DEF BeginWatch, BeginDelete, Lookup, AccessCreate, Snapshot, AccessEdit, EndRequest
  <2> QED BY <2>1, TargetsUnchanged, FollowSame
<1>2. CASE Insert
  <2>1. CASE UNCHANGED <<table, index, lock, home>>
    BY <1>2, <1>g, <2>1, TargetsUnchanged, FollowSame DEF Insert
  <2>2. CASE /\ table' = [table EXCEPT ![client.task] = [uri |-> client.uri, active |-> TRUE]]
             /\ home' = [home EXCEPT ![client.task] = client.uri]
    <3>1. client.uri \in Uris /\ client.task \in Tasks /\ held["client"] # None
          /\ client.uri \in held["client"].uris
      BY <1>0, <1>2 DEF Insert, ClientOK, ClientArgs, ClientHolds
    <3> QED BY <1>2, <1>g, <2>2, <3>1, FollowPut DEF Insert
  <2> QED BY <1>2, <2>1, <2>2 DEF Insert, Change
<1>3. CASE Apply
  <2>1. CASE UNCHANGED <<table, index, lock, home>>
    BY <1>3, <1>g, <2>1, TargetsUnchanged, FollowSame DEF Apply
  <2>2. CASE /\ table[client.task] # None /\ table' = Edited(client.task)
             /\ home' = IF client.op = "watch" THEN [home EXCEPT ![client.task] = client.uri] ELSE home
    <3>0. client.task \in Tasks
      BY <1>0, <1>3 DEF Apply, ClientOK, ClientArgs
    <3>1. CASE client.op = "watch"
      <4>1. client.uri \in Uris /\ held["client"] # None /\ client.uri \in held["client"].uris
        BY <1>0, <1>3, <3>1 DEF Apply, ClientOK, ClientArgs, ClientHolds
      <4>2. /\ table' = [table EXCEPT ![client.task] = [uri |-> client.uri, active |-> TRUE]]
            /\ home' = [home EXCEPT ![client.task] = client.uri]
        BY <2>2, <3>1 DEF Edited
      <4> QED BY <1>3, <1>g, <3>0, <4>1, <4>2, FollowPut DEF Apply
    <3>2. CASE client.op = "unwatch"
      <4>1. table' = [table EXCEPT ![client.task].active = FALSE] /\ home' = home
        BY <2>2, <3>2 DEF Edited
      <4>2. SameTargets(table, table')
        BY <1>0, <2>2, <3>0, <4>1, SwitchedOff DEF SameTargets
      <4> QED BY <1>3, <1>g, <1>u, <4>1, <4>2, FollowSame DEF Apply
    <3>3. CASE client.op = "delete"
      <4>1. table' = [table EXCEPT ![client.task] = None] /\ UNCHANGED <<home, mover, crashes, halves>> /\ mover.pc # "save"
        BY <1>3, <1>g, <1>u, <2>2, <3>3 DEF Edited, Apply
      <4>2. \A s \in Tasks : table'[s] # None => table'[s] = table[s]
        BY <1>0, <4>1 DEF Tables
      <4> QED BY <4>1, <4>2 DEF FollowInv, Follows, Displaced
    <3> QED BY <1>0, <3>1, <3>2, <3>3 DEF ClientOK, ClientType
  <2> QED BY <1>3, <2>1, <2>2 DEF Apply, Change
<1> QED BY <1>1, <1>2, <1>3 DEF ClientStep

LEMMA MoveFollow ==
  ASSUME Typed, FollowInv, (\E q \in Requests : BeginMove(q) \/ MoveOut(q)) \/ LeaseMove \/ MoveStep
  PROVE  FollowInv'
<1>0. StoreType /\ PlaceType /\ MoverOK /\ Saver /\ CountType
  BY TypedGroups
<1>t. table \in Tables /\ \A t \in Tasks : table[t] # None => table[t] \in Entries /\ table[t].uri \in Uris
  BY <1>0, TableFacts DEF StoreType
<1>a. mover.pc # "off" => Asks(mover.from, mover.to)
  BY <1>0 DEF MoverOK, MoverArgs
<1>g. UNCHANGED MoveEnv => crashes' = crashes
  BY DEF MoveEnv
\* Outside the move proper nothing is displaced.
<1>q. ASSUME UNCHANGED <<table, home, crashes, halves>>, mover.pc \notin {"rewrite", "undo", "save"},
             mover'.pc \notin {"rewrite", "undo", "save"}
      PROVE  FollowInv'
  BY <1>q DEF FollowInv, Follows
<1>1. CASE \E q \in Requests : BeginMove(q)
  <2>1. mover.pc = "off" /\ mover'.pc = "wait" /\ UNCHANGED <<table, home, crashes, halves>>
    BY <1>1, <1>g DEF BeginMove, NoMove
  <2> QED BY <1>q, <2>1
<1>2. CASE LeaseMove
  <2>1. mover.pc = "wait" /\ mover'.pc = "validate" /\ UNCHANGED <<table, home, crashes, halves>>
    BY <1>0, <1>2, <1>g DEF LeaseMove, MoveGoto, MoverOK, MoverType
  <2> QED BY <1>q, <2>1
<1>3. CASE ValidateMove
  <2>1. mover.pc = "validate" /\ mover'.pc \in {"release", "move"} /\ UNCHANGED <<table, home, crashes, halves>>
    BY <1>0, <1>3, <1>g DEF ValidateMove, MoveGoto, MoverOK, MoverType
  <2> QED BY <1>q, <2>1
<1>4. CASE MoveFiles
  <2> DEFINE plan == Residents(mover.from)
  <2>0. mover.pc = "move" /\ UNCHANGED <<table, crashes>>
    BY <1>4, <1>g DEF MoveFiles
  <2>1. CASE MoveGoto("release") /\ UNCHANGED <<home, halves>>
    <3>1. mover'.pc = "release"
      BY <1>0, <2>1 DEF MoveGoto, MoverOK, MoverType
    <3> QED BY <1>q, <2>0, <2>1, <3>1
  <2>2. CASE /\ home' = Carried(plan, mover.from, mover.to)
             /\ mover' = [mover EXCEPT !.pc = "rewrite", !.plan = plan]
             /\ UNCHANGED halves
    <3>1. /\ mover'.pc = "rewrite" /\ mover'.plan = plan
          /\ mover'.from = mover.from /\ mover'.to = mover.to
      BY <1>0, <2>2 DEF MoverOK, MoverType
    <3>2. \A t \in Tasks : home'[t] = IF t \in plan THEN Rewrite(home[t], mover.from, mover.to) ELSE home[t]
      BY <2>2 DEF Carried
    <3>3. ASSUME crashes' = 0, halves' = 0, NEW t \in Tasks, table'[t] # None, home'[t] # None
          PROVE  IF Under(table'[t].uri, mover'.from)
                 THEN t \in mover'.plan /\ home'[t] = Rewrite(table'[t].uri, mover'.from, mover'.to)
                 ELSE home'[t] = table'[t].uri /\ (t \in mover'.plan => ~Under(home'[t], mover'.to))
      <4>0. home[t] # None
        BY <3>2, <3>3 DEF Residents
      <4>1. home[t] = table[t].uri
        BY <2>0, <2>2, <3>3, <4>0 DEF FollowInv, Follows
      <4>2. CASE Under(home[t], mover.from)
        <5>1. t \in plan
          BY <4>0, <4>2 DEF Residents
        <5> HIDE DEF plan
        <5> QED BY <2>0, <3>1, <3>2, <4>1, <4>2, <5>1
      <4>3. CASE ~Under(home[t], mover.from)
        <5>1. t \notin plan
          BY <4>3 DEF Residents
        <5> HIDE DEF plan
        <5> QED BY <2>0, <3>1, <3>2, <4>1, <4>3, <5>1
      <4> QED BY <4>2, <4>3
    <3>4. crashes' = 0 /\ halves' = 0 => Displaced(table)'
      BY <3>3 DEF Displaced
    <3> QED BY <3>1, <3>4 DEF FollowInv
  <2>3. CASE halves' = halves + 1
    BY <1>0, <2>3 DEF FollowInv, CountType
  <2> QED BY <1>4, <2>1, <2>2, <2>3 DEF MoveFiles
<1>5. CASE RewriteTargets
  <2>0. mover.pc = "rewrite" /\ UNCHANGED <<home, crashes, halves>> /\ Unlocked
    BY <1>5, <1>g DEF RewriteTargets
  <2>1. CASE Planned(mover.from) = {} /\ MoveGoto("release") /\ UNCHANGED table
    <3>1. mover'.pc = "release"
      BY <1>0, <2>1 DEF MoveGoto, MoverOK, MoverType
    <3>2. \A t \in Tasks : table[t] # None => ~Under(table[t].uri, mover.from)
      BY <2>1 DEF Planned
    <3>3. crashes = 0 /\ halves = 0 =>
            \A t \in Tasks : table[t] # None /\ home[t] # None => home[t] = table[t].uri
      BY <2>0, <3>2 DEF FollowInv, Displaced
    <3> QED BY <2>0, <2>1, <3>1, <3>3 DEF FollowInv, Follows
  <2>2. CASE MoveGoto("undo") /\ UNCHANGED table
    <3>1. mover'.pc = "undo" /\ mover'.from = mover.from /\ mover'.to = mover.to /\ mover'.plan = mover.plan
      BY <1>0, <2>2 DEF MoveGoto, MoverOK, MoverType
    <3> QED BY <2>0, <2>2, <3>1 DEF FollowInv, Displaced
  <2> DEFINE new == [t \in Tasks |-> IF t \in Planned(mover.from)
                                   THEN [table[t] EXCEPT !.uri = Rewrite(table[t].uri, mover.from, mover.to)]
                                   ELSE table[t]]
  <2>3. CASE table' = new /\ lock'.old = table /\ MoveGoto("save")
    <3>1. mover'.pc = "save" /\ mover'.from = mover.from /\ mover'.to = mover.to /\ mover'.plan = mover.plan
      BY <1>0, <2>3 DEF MoveGoto, MoverOK, MoverType
    <3>2. crashes = 0 /\ halves = 0 => Displaced(lock.old)'
      BY <2>0, <2>3, <3>1 DEF FollowInv, Displaced
    <3>3. ASSUME crashes = 0, halves = 0, NEW t \in Tasks, table'[t] # None, home'[t] # None
          PROVE  table'[t].uri = home'[t]
      <4>1. CASE t \in Planned(mover.from)
        <5>1. table[t] # None /\ Under(table[t].uri, mover.from)
          BY <4>1 DEF Planned
        <5>2. table'[t] = [table[t] EXCEPT !.uri = Rewrite(table[t].uri, mover.from, mover.to)]
          BY <2>3, <4>1
        <5>3. table'[t].uri = Rewrite(table[t].uri, mover.from, mover.to)
          BY <1>t, <5>1, <5>2 DEF Entries
        <5> QED BY <2>0, <3>3, <5>1, <5>3 DEF FollowInv, Displaced
      <4>2. CASE t \notin Planned(mover.from)
        <5>1. table'[t] = table[t]
          BY <2>3, <4>2
        <5>2. ~Under(table[t].uri, mover.from)
          BY <3>3, <4>2, <5>1 DEF Planned
        <5> QED BY <2>0, <3>3, <5>1, <5>2 DEF FollowInv, Displaced
      <4> QED BY <4>1, <4>2
    <3>4. crashes = 0 /\ halves = 0 => Follows'
      BY <3>3 DEF Follows
    <3> QED BY <2>0, <3>1, <3>2, <3>4 DEF FollowInv
  <2> QED BY <1>5, <2>1, <2>2, <2>3 DEF RewriteTargets, Change
<1>6. CASE UndoMove
  <2> DEFINE back == Residents(mover.to)
  <2>0. mover.pc = "undo" /\ UNCHANGED <<table, crashes>> /\ mover'.pc = "release"
    BY <1>0, <1>6, <1>g DEF UndoMove, MoveGoto, MoverOK, MoverType
  <2>1. CASE halves' = halves + 1
    BY <1>0, <2>1 DEF FollowInv, CountType
  <2>2. CASE /\ home' = Carried(back, mover.to, mover.from)
             /\ back \subseteq mover.plan /\ UNCHANGED halves
    <3>0. \A t \in Tasks : home'[t] = IF t \in back THEN Rewrite(home[t], mover.to, mover.from) ELSE home[t]
      BY <2>2 DEF Carried
    <3>1. ASSUME crashes = 0, halves = 0, NEW t \in Tasks, table[t] # None, home'[t] # None
          PROVE  table[t].uri = home'[t]
      <4>0. home[t] # None
        BY <3>0, <3>1 DEF Residents
      <4>1. t \in back <=> Under(home[t], mover.to)
        BY <4>0 DEF Residents
      <4>2. IF Under(table[t].uri, mover.from)
            THEN t \in mover.plan /\ home[t] = Rewrite(table[t].uri, mover.from, mover.to)
            ELSE home[t] = table[t].uri /\ (t \in mover.plan => ~Under(home[t], mover.to))
        BY <2>0, <3>1, <4>0 DEF FollowInv, Displaced
      <4>3. CASE Under(table[t].uri, mover.from)
        <5>1. Under(home[t], mover.to) /\ Rewrite(home[t], mover.to, mover.from) = table[t].uri
          BY <1>a, <1>t, <2>0, <3>1, <4>2, <4>3, AskedMove
        <5> HIDE DEF back
        <5> QED BY <3>0, <4>1, <5>1
      <4>4. CASE ~Under(table[t].uri, mover.from)
        <5> HIDE DEF back
        <5> QED BY <2>2, <3>0, <4>1, <4>2, <4>4
      <4> QED BY <4>3, <4>4
    <3> QED BY <2>0, <2>2, <3>1 DEF FollowInv, Follows
  <2> QED BY <1>6, <2>1, <2>2 DEF UndoMove
<1>7. CASE EndMove
  <2>1. mover.pc = "release" /\ mover'.pc = "off" /\ UNCHANGED <<table, home, crashes, halves>>
    BY <1>7, <1>g DEF EndMove, NoMove
  <2> QED BY <1>q, <2>1
<1>8. CASE \E q \in Requests : MoveOut(q)
  <2>1. UNCHANGED <<table, lock, mover, crashes, halves>>
    BY <1>8, <1>g DEF MoveOut
  <2>2. \A t \in Tasks : home'[t] # None => home'[t] = home[t]
    BY <1>8 DEF MoveOut
  <2> QED BY <2>1, <2>2 DEF FollowInv, Follows, Displaced
<1> QED BY <1>1, <1>2, <1>3, <1>4, <1>5, <1>6, <1>7, <1>8 DEF MoveStep

LEMMA RemoveFollow ==
  ASSUME Typed, FollowInv, (\E q \in Requests : RemoveFiles(q)) \/ RemoveStep
  PROVE  FollowInv'
<1>0. table \in Tables /\ Saver
  BY TypedGroups DEF StoreType
<1>g. UNCHANGED RemoveEnv => UNCHANGED <<home, mover, crashes, halves>>
  BY DEF RemoveEnv
<1>u. Unlocked => mover.pc # "save"
  BY <1>0 DEF Saver, Unlocked
<1>1. CASE (\E q \in Requests : RemoveFiles(q)) \/ AccessRemoved \/ EndRemove
  <2>1. UNCHANGED <<table, lock, home, mover, crashes, halves>>
    BY <1>1, <1>g DEF RemoveFiles, AccessRemoved, EndRemove
  <2> QED BY <2>1, TargetsUnchanged, FollowSame
<1>2. CASE Deactivate
  <2>0. UNCHANGED <<home, mover, crashes, halves>> /\ mover.pc # "save"
    BY <1>2, <1>u DEF Deactivate
  <2> DEFINE new == [t \in Tasks |-> IF t \in Planned(remover.uri) THEN [table[t] EXCEPT !.active = FALSE]
                                   ELSE table[t]]
  <2>1. CASE UNCHANGED table
    BY <2>0, <2>1, TargetsUnchanged, FollowSame
  <2>2. CASE table' = new
    <3>1. Planned(remover.uri) \in SUBSET Tasks /\ \A t \in Planned(remover.uri) : table[t] # None
      BY DEF Planned
    <3>2. SameTargets(table, new)
      BY <1>0, <3>1, DeactivatedFacts DEF SameTargets
    <3> HIDE DEF new
    <3> QED BY <2>0, <2>2, <3>2, FollowSame
  <2> QED BY <1>2, <2>1, <2>2 DEF Deactivate, Change
<1> QED BY <1>1, <1>2 DEF RemoveStep

LEMMA SaveFollow ==
  ASSUME Typed, FollowInv, SaveStep \/ SaveSlips \/ SaveFails
  PROVE  FollowInv'
<1>0. StoreType /\ RunOK /\ ClientOK /\ MoverOK /\ RemoverOK /\ Saver
  BY TypedGroups
<1>1. CASE Writes
  <2>1. lock'.old = lock.old /\ UNCHANGED <<table, home, mover, crashes, halves>>
    BY <1>0, <1>1, WriteFacts
  <2> QED BY <2>1, TargetsUnchanged, FollowSame
<1>3. CASE SaveEnds
  <2>1. /\ mover'.from = mover.from /\ mover'.to = mover.to /\ mover'.plan = mover.plan
        /\ IF lock.by = "mover" THEN mover.pc = "save" /\ mover'.pc = "release"
           ELSE mover' = mover /\ mover.pc # "save"
    BY <1>0, <1>3, SaveFacts, Resumed DEF SaveEnds
  <2>2. UNCHANGED <<table, home, crashes, halves>>
    BY <1>3 DEF SaveEnds, SaveEnv
  <2>3. CASE lock.by = "mover"
    BY <2>1, <2>2, <2>3 DEF FollowInv, Follows
  <2>4. CASE lock.by # "mover"
    BY <2>1, <2>2, <2>4, TargetsUnchanged, FollowSame
  <2> QED BY <2>3, <2>4
<1>4. CASE SaveFails
  <2>1. /\ mover'.from = mover.from /\ mover'.to = mover.to /\ mover'.plan = mover.plan
        /\ IF lock.by = "mover" THEN mover.pc = "save" /\ mover'.pc = "undo"
           ELSE mover' = mover /\ mover.pc # "save"
    BY <1>0, <1>4, SaveFacts, Resumed DEF SaveFails
  <2>2. UNCHANGED <<home, crashes, halves>>
    BY <1>4 DEF SaveFails
  <2>3. CASE lock.by = "mover"
    <3>1. table' = lock.old
      BY <1>4, <2>3 DEF SaveFails
    <3> QED BY <2>1, <2>2, <2>3, <3>1 DEF FollowInv, Displaced
  <2>4. CASE lock.by # "mover"
    <3>1. UNCHANGED table
      BY <1>4, <2>4 DEF SaveFails
    <3> QED BY <2>1, <2>2, <2>4, <3>1, TargetsUnchanged, FollowSame
  <2> QED BY <2>3, <2>4
<1> QED BY <1>1, <1>3, <1>4 DEF SaveStep, Writes

-----------------------------------------------------------------------------
(* The invariant and what follows from it.                                 *)

LEMMA InvInit ==
  ASSUME Init
  PROVE  Inv
<1>1. Typed /\ LeaseInv /\ StoreInv
  BY InitTyped, InitLease, InitStore
<1>2. Follows
  <2>1. PICK s \in Starts :
          /\ table = s
          /\ home = [t \in Tasks |-> IF s[t] = None THEN None ELSE s[t].uri]
    BY DEF Init
  <2> QED BY <2>1 DEF Follows
<1>3. FollowInv
  BY <1>2 DEF Init, FollowInv, NoMove
<1> QED BY <1>1, <1>3 DEF Inv, StoreInv

LEMMA InvStutter ==
  ASSUME Inv, UNCHANGED vars
  PROVE  Inv'
<1>1. UNCHANGED <<table, index, main, bak, lock, held, run, client, mover, remover,
                  home, requests, crashes, faults, halves>>
  BY DEF vars
<1>2. Typed'
  <2>1. Saver'
    BY <1>1 DEF Inv, Typed, Saver
  <2> QED BY <1>1, <2>1, TypedGroups, TypedJoin, Unmoved DEF Inv
<1>3. LeaseInv'
  <2>1. Exclusive' /\ RunHolds' /\ ClientHolds' /\ MoverHolds'
    BY <1>1, SameExclusive, HoldsGroups, HoldsStay DEF Inv, LeaseInv
  <2> QED BY <2>1, HoldsJoin DEF LeaseInv
<1>4. StoreInv'
  BY <1>1, QuietStore DEF Inv, StoreInv
<1>5. FollowInv'
  BY <1>1, TargetsUnchanged, FollowSame DEF Inv
<1> QED BY <1>2, <1>3, <1>4, <1>5 DEF Inv, StoreInv

LEMMA InvStep ==
  ASSUME Inv, [Next]_vars
  PROVE  Inv'
<1>0. Typed /\ LeaseInv /\ StoreInv /\ FollowInv
  BY DEF Inv, StoreInv
<1> SUFFICES ASSUME Next PROVE Typed' /\ LeaseInv' /\ StoreInv' /\ FollowInv'
  BY InvStutter DEF Inv, StoreInv
<1>1. CASE SaveStep \/ SaveSlips \/ SaveFails
  BY <1>0, <1>1, SaveTyped, SaveLease, SaveStore, SaveFollow
<1>2. CASE \E t \in Tasks : StartRun(t) \/ RunStep(t)
  BY <1>0, <1>2, RunTyped, RunLease, RunStore, RunFollow
<1>3. CASE (\E q \in Requests : BeginWatch(q) \/ BeginDelete(q)) \/ ClientStep
  BY <1>0, <1>3, ClientTyped, ClientLease, ClientStore, ClientFollow
<1>4. CASE (\E q \in Requests : BeginMove(q) \/ MoveOut(q)) \/ LeaseMove \/ MoveStep
  BY <1>0, <1>4, MoveTyped, MoveLease, MoveStore, MoveFollow
<1>5. CASE (\E q \in Requests : RemoveFiles(q)) \/ RemoveStep
  BY <1>0, <1>5, RemoveTyped, RemoveLease, RemoveStore, RemoveFollow
<1>6. CASE Crash
  <2>1. crashes' # 0
    BY <1>0, <1>6, TypedGroups, CountTrouble DEF Crash
  <2>2. FollowInv'
    BY <2>1 DEF FollowInv
  <2> QED BY <1>0, <1>6, <2>2, CrashTyped, CrashLease, CrashStore DEF StoreInv
<1> QED BY <1>1, <1>2, <1>3, <1>4, <1>5, <1>6 DEF Next

LEMMA Invariant == Spec => []Inv
<1>1. Init => Inv
  BY InvInit
<1>2. Inv /\ [Next]_vars => Inv'
  BY InvStep
<1> QED BY <1>1, <1>2, PTL DEF Spec

\* Every variable keeps its type: leases, tables, files and arguments of
\* requests name only URIs and tasks, through failed saves and restarts.
THEOREM TypeCorrect == Spec => []TypeOK
<1>1. Inv => TypeOK
  BY DEF Inv, Typed
<1> QED BY <1>1, Invariant, PTL

\* WatchManager._uri_to_task is exact after every edit, prefix rewrite,
\* rollback and load: no URI is watched twice, no entry points to a task that
\* is gone or has another target.
THEOREM IndexIsExact == Spec => []IndexExact
<1>1. Inv => IndexExact
  BY DEF Inv, IndexInv
<1> QED BY <1>1, Invariant, PTL

\* As long as the process does not restart and no move ends half way, a move of a
\* resource and of its watches, the rollback when the watches cannot be saved, the
\* edits that wait meanwhile and moves out of the resource scope leave every watch
\* at its resource.
THEOREM WatchesFollow == Spec => []WatchFollows
<1>1. Inv => WatchFollows
  BY DEF Inv, FollowInv, Follows, WatchFollows
<1> QED BY <1>1, Invariant, PTL

\* A run between the confirmation of its target and the submission of the refresh
\* works at the place of the resource: the mutation lease of a move keeps away from
\* it, and the files it has displaced are those of others.
THEOREM RunsUndisturbed == Spec => []RunUndisturbed
<1>1. Inv => RunUndisturbed
  <2> SUFFICES ASSUME Inv, crashes = 0, halves = 0, NEW t \in Tasks, run[t].pc \in {"look", "refresh"},
                      table[t] # None, table[t].uri = run[t].uri, home[t] # None
               PROVE  home[t] = run[t].uri
    BY DEF RunUndisturbed
  <2>1. RunHolds /\ MoverHolds /\ Exclusive /\ RunOK /\ MoverOK /\ FollowInv
    BY TypedGroups, HoldsGroups DEF Inv, LeaseInv
  <2>2. CASE mover.pc \notin {"rewrite", "undo"}
    BY <2>1, <2>2 DEF FollowInv, Follows
  <2>3. CASE mover.pc \in {"rewrite", "undo"}
    <3>2. held[t] = [mutation |-> FALSE, uris |-> {run[t].uri}]
      BY <2>1 DEF RunHolds
    <3>3. held["mover"] = [mutation |-> TRUE, uris |-> {mover.from, mover.to}]
      BY <2>1, <2>3 DEF MoverHolds
    <3>4. run[t].uri \in Uris /\ mover.from \in Uris /\ mover.to \in Uris
      BY <2>1, <2>3, AskedMove DEF RunOK, RunArgs, MoverOK, MoverArgs
    <3>5. held[t] \in Leases /\ held["mover"] \in Leases
      BY <3>2, <3>3, <3>4 DEF Leases
    <3>6. held[t] # None /\ held["mover"] # None
      BY <3>5, NoneAssumption, Zenon
    <3>7. held[t].uris = {run[t].uri} /\ held["mover"].uris = {mover.from, mover.to} /\ held["mover"].mutation
      BY <3>2, <3>3
    <3>8. ~Overlap(held["mover"].uris, held[t].uris)
      BY <2>1, <3>6, <3>7, TasksActors DEF Exclusive
    <3>9. ~Under(run[t].uri, mover.from)
      <4>1. mover.from \in held["mover"].uris /\ run[t].uri \in held[t].uris
        BY <3>7
      <4> QED BY <3>8, <4>1, UnderOverlaps
    <3> QED BY <2>1, <2>3, <3>9 DEF FollowInv, Displaced
  <2> QED BY <2>2, <2>3
<1> QED BY <1>1, Invariant, PTL

\* In the middle of a save that has something to fall back on, the file or its
\* backup is complete.
LEMMA Recoverable ==
  ASSUME Inv, lock # None, lock.stored # None
  PROVE  Loadable \in {lock.stored, table}
<1>1. lock.step \in {"tmp", "rotate", "drop", "publish", "finish"} /\ table # None
  BY TypedGroups, TableFacts DEF Inv, StoreType, Saves
<1> QED BY <1>1 DEF Inv, FileInv, Loadable, Load

\* Whatever step of _save_tasks comes next, its failure, the cleanup of a failing
\* update of the vector store and a restart within a write included, the next start can load
\* the table that was stored or the new one, as long as the save began with the file
\* in place and did not fail to copy it to the backup.
THEOREM SavesAreAtomic == Spec => SaveAtomic
<1>1. Inv /\ [Next]_vars =>
        [lock # None /\ lock.stored # None => Loadable' \in {lock.stored, table}]_vars
  <2> SUFFICES ASSUME Inv, Next, lock # None, lock.stored # None
               PROVE  Loadable' \in {lock.stored, table}
    OBVIOUS
  <2>0. StoreType /\ FileInv /\ Loadable \in {lock.stored, table} /\ table # None
    BY Recoverable, TypedGroups, TableFacts DEF Inv, StoreType
  <2>q. ASSUME UNCHANGED <<main, bak>> PROVE Loadable' \in {lock.stored, table}
    <3>1. Loadable' = Loadable
      BY <2>q DEF Loadable, Load, Empty
    <3> QED BY <2>0, <3>1
  <2>m. ASSUME main' = lock.stored PROVE Loadable' \in {lock.stored, table}
    BY <2>m DEF Loadable, Load
  <2>b. ASSUME main' = None, bak' = lock.stored PROVE Loadable' \in {lock.stored, table}
    BY <2>b DEF Loadable, Load
  <2>1. CASE SaveTmp \/ SaveBackup \/ SaveSlips
    <3>1. UNCHANGED main /\ lock.step \in {"tmp", "rotate", "drop"}
      BY <2>1 DEF SaveTmp, SaveBackup, SaveSlips
    <3> QED BY <2>0, <2>m, <3>1 DEF FileInv
  <2>2. CASE SaveDrop
    BY <2>0, <2>2, <2>b DEF SaveDrop, FileInv
  <2>3. CASE SavePublish
    <3>1. main' = table
      BY <2>3 DEF SavePublish
    <3> QED BY <2>0, <3>1 DEF Loadable, Load
  <2>4. CASE SaveEnds \/ SaveFails
    <3>1. UNCHANGED bak /\ (UNCHANGED main \/ (lock.step = "finish" /\ main' = None))
      BY <2>4 DEF SaveEnds, SaveFails
    <3> QED BY <2>0, <2>q, <2>b, <3>1 DEF FileInv
  <2>5. CASE Crash
    <3>1. /\ UNCHANGED main \/ (lock.step = "publish" /\ main' = None)
          /\ UNCHANGED bak \/ (lock.step = "rotate" /\ bak' = None)
      BY <2>5 DEF Crash
    <3>2. CASE UNCHANGED <<main, bak>>
      BY <2>q, <3>2
    <3>3. CASE lock.step = "publish" /\ main' = None
      BY <2>0, <2>b, <3>1, <3>3 DEF FileInv
    <3>4. CASE lock.step = "rotate"
      BY <2>0, <2>m, <3>1, <3>4 DEF FileInv
    <3> QED BY <3>1, <3>2, <3>3, <3>4
  <2>6. CASE \E t \in Tasks : StartRun(t) \/ RunStep(t)
    BY <2>6, <2>q DEF RunStep, StartRun, EnterRun, AccessRun, ConfirmRun, LookRun, RefreshRun, TouchRun,
       DisableRun, EndRun, RunEnv
  <2>7. CASE (\E q \in Requests : BeginWatch(q) \/ BeginDelete(q)) \/ ClientStep
    BY <2>7, <2>q DEF ClientStep, BeginWatch, BeginDelete, Lookup, AccessCreate, Insert, Snapshot,
       AccessEdit, Apply, EndRequest, ClientEnv
  <2>8. CASE (\E q \in Requests : BeginMove(q) \/ MoveOut(q)) \/ LeaseMove \/ MoveStep
    BY <2>8, <2>q DEF MoveStep, BeginMove, MoveOut, LeaseMove, ValidateMove, MoveFiles, RewriteTargets,
       UndoMove, EndMove, MoveEnv
  <2>9. CASE (\E q \in Requests : RemoveFiles(q)) \/ RemoveStep
    BY <2>9, <2>q DEF RemoveStep, RemoveFiles, AccessRemoved, Deactivate, EndRemove, RemoveEnv
  <2> QED BY <2>1, <2>2, <2>3, <2>4, <2>5, <2>6, <2>7, <2>8, <2>9 DEF Next, SaveStep
<1> QED BY <1>1, Invariant, PTL DEF Spec, SaveAtomic

=============================================================================
