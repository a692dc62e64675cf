--------------------------- MODULE PathLockProofs ---------------------------
(***************************************************************************)
(* Write exclusion of the path lock and the match of its tokens with the   *)
(* leases, for any number of owners, any tree of paths and any batches.    *)
(***************************************************************************)
EXTENDS PathLock, TLAPS

\* What the proof asks of an instance: a stale token is removed atomically (the
\* memory provider), or there are none (no owner dies holding one); and a TREE
\* request is never made for a file that its holder then deletes.
SafeInstance ==
  /\ Provider = "memory" \/ Crashable = {}
  /\ \A R \in Batches : \A r \in R : r.kind = "tree" => r.path \notin Removable

Attempting == {"check", "one", "takeover", "create", "write"}
Writing    == {"one", "takeover", "create", "write"}
GivenBack  == {"failed", "cleanup", "retry"}

Req(c) == [path |-> c.path, kind |-> c.kind]

\* Who is dead, and whose tokens may be stale.
DeadInv ==
  /\ \A o \in expired : pc[o] = "dead"
  /\ \A o \in Owners : pc[o] = "dead" => o \in Crashable /\ held[o] = {} /\ granted[o] = {}

\* The program counter and the local variables of one operation.
ControlOf(o) ==
  /\ pc[o] \in {"idle", "dead"} <=> cur[o] = None
  /\ cur[o] \notin granted[o]
  /\ pc[o] \in Attempting => at[o] \in want[o] /\ left[o] \subseteq want[o] \ {at[o]}
  /\ \A r, q \in want[o] : r.path = q.path => r = q
  /\ \A r \in want[o] : r.kind = "tree" => r.path \notin Removable
  /\ pc[o] \in Writing => acq[o] # None /\ pass[o] = "acquire"
  /\ acq[o] # None => at[o] # None /\ acq[o].at = at[o].path
  /\ pc[o] \in {"rollback", "failed", "cleanup"} => err[o] # None
  /\ pc[o] \in {"takeover", "cleanup"} => seen[o] # None /\ seen[o].owner \in expired
  /\ pc[o] \notin {"unlink_takeover", "unlink_cleanup"}

ControlInv == \A o \in Owners : ControlOf(o)

\* Between the two halves of creating a token, the file is there and empty.
WriteInv ==
  \A o \in Owners : pc[o] = "write" =>
    token[acq[o]] = [owner |-> o, kind |-> at[o].kind, body |-> "empty"]

\* A claim lies in one of the two lock files of its path, belongs to a granted
\* lease or to the operation under way, and stands for one request of it.
ClaimOf(o, c) ==
  /\ c.lock.at = c.path
  /\ c.lease \in granted[o] \/ c.lease = cur[o]
  /\ c.lease = cur[o] =>
       /\ pc[o] \notin GivenBack
       /\ pc[o] \in Attempting => Req(c) \in want[o]
       /\ pc[o] \in Attempting /\ pass[o] = "acquire" => Req(c) \notin left[o] \cup {at[o]}

ClaimInv == \A o \in Owners : \A c \in held[o] : ClaimOf(o, c)

\* A claim is backed by its owner's token, at least as strong as the claim.
Backed(o, c) ==
  /\ token[c.lock] # None /\ token[c.lock].body = "full" /\ token[c.lock].owner = o
  /\ c.kind = "tree" => token[c.lock].kind = "tree"

BackedInv == \A o \in Owners : \A c \in held[o] : Backed(o, c)

\* A claim an attempt may still undo is undone without harm to other claims.
UndoOf(o, c) ==
  c.lease = cur[o] /\ pc[o] # "release" =>
    /\ c.change = "created"  => \A d \in held[o] : d.lock = c.lock => d = c
    /\ c.change = "upgraded" => \A d \in held[o] : d.lock = c.lock /\ d.kind = "tree" => d = c

UndoInv == \A o \in Owners : \A c \in held[o] : UndoOf(o, c)

\* Lock files live in existing directories; a TREE token beside its path stands
\* for a file, which stays one.
InDirs(l)     == \A q \in LockDirs(l) : node[q] = "dir"
Sited(r, l)   == r.kind = "tree" /\ l.form = "exact" =>
                   node[r.path] = "file" /\ r.path \notin Removable

SiteInv ==
  \A o \in Owners :
    /\ \A c \in held[o] : InDirs(c.lock) /\ Sited(c, c.lock)
    /\ pc[o] \in Writing => InDirs(acq[o])
    /\ pc[o] \in Attempting /\ acq[o] # None => Sited(at[o], acq[o])

\* The lock files o has read for claim c, in the verify pass, since it wrote all
\* of its tokens.
Verified(o, c, l) ==
  \/ c.lease \in granted[o]
  \/ /\ pc[o] = "check" /\ pass[o] = "verify"
     /\ Req(c) \notin left[o]
     /\ Req(c) = at[o] => l \notin todo[o]

\* The heart: of two conflicting claims at least one has not yet been verified
\* against the other's token.
ExclusionInv ==
  \A o, w \in Owners : o # w =>
    \A c \in held[o], d \in held[w] :
      Conflicting(c, d) => ~Verified(o, c, d.lock) \/ ~Verified(w, d, c.lock)

Inv == TypeOK /\ DeadInv /\ ControlInv /\ WriteInv /\ ClaimInv /\ BackedInv /\ UndoInv
         /\ SiteInv /\ ExclusionInv

-----------------------------------------------------------------------------
USE NoneAssumption

\* What a request reads are lock files.
LEMMA ToCheckType == \A r \in Requests : ToCheck(r) \subseteq LockFiles
  BY PathAssumption DEF ToCheck, AncestorLocks, resolve_exact_conflict_paths,
     scan_descendant_locks, path_lock_path, prefixed_exact_lock_path, LockFiles, Requests

\* The lock file chosen for a request is one of the two of its path.
LEMMA ResolveType == \A r \in Requests :
  resolve_lock_path(r) \in resolve_exact_conflict_paths(r.path)
    /\ resolve_lock_path(r) \in LockFiles
  BY DEF resolve_lock_path, resolve_exact_conflict_paths, path_lock_path,
     prefixed_exact_lock_path, LockFiles, Requests

\* The local variables an operation reads are set when it reads them.
LEMMA LocalTypes ==
  ASSUME TypeOK, ControlInv, NEW o \in Owners
  PROVE  /\ pc[o] \in Attempting => at[o] \in Requests
         /\ pc[o] \in Writing => acq[o] \in LockFiles
         /\ pc[o] \in Attempting \cup {"release", "rollback"} => cur[o] \in LeaseIds
         /\ pc[o] \in {"rollback", "failed", "cleanup"} => err[o] \in Errors
  <1>1. pc[o] \in Attempting => at[o] \in Requests
    BY DEF TypeOK, ControlInv, ControlOf
  <1>2. pc[o] \in Writing => acq[o] \in LockFiles
    BY DEF TypeOK, ControlInv, ControlOf
  <1>3. pc[o] \in Attempting \cup {"release", "rollback"} => cur[o] \in LeaseIds
    BY DEF TypeOK, ControlInv, ControlOf, Attempting
  <1>4. pc[o] \in {"rollback", "failed", "cleanup"} => err[o] \in Errors
    BY DEF TypeOK, ControlInv, ControlOf
  <1> QED BY <1>1, <1>2, <1>3, <1>4

\* A token that is there has an owner and a kind.
LEMMA TokenFields ==
  ASSUME TypeOK, NEW l \in LockFiles, token[l] # None
  PROVE  token[l].owner \in Owners /\ token[l].kind \in Kinds
  BY DEF TypeOK, Tokens

\* The token an owner writes for its current request is a token.
LEMMA NewTokenType ==
  ASSUME NEW o \in Owners, at[o] \in Requests
  PROVE  \A b \in {"empty", "full"} : NewToken(o, b) \in Tokens
  BY DEF NewToken, Tokens, Requests

\* Upgrading or weakening a token leaves a token.
LEMMA SetKindType ==
  ASSUME TypeOK, NEW l \in LockFiles, token[l] # None, NEW k \in Kinds
  PROVE  [token EXCEPT ![l].kind = k] \in [LockFiles -> Tokens \cup {None}]
  BY DEF TypeOK, Tokens

\* Recording a failure keeps the types of pc and err.
LEMMA FailType ==
  ASSUME TypeOK, NEW o \in Owners, NEW why \in {"conflict", "empty", "fatal"},
         NEW l \in LockFiles, Fail(o, why, l)
  PROVE  err' \in [Owners -> Errors \cup {None}] /\ pc' \in [Owners -> PCs]
  <1>1. [why |-> why, lock |-> l, during |-> pass[o]] \in Errors
    BY DEF Errors, TypeOK
  <1> QED BY <1>1 DEF TypeOK, Fail, PCs

\* Entering a request keeps the types of the locals it sets.
LEMMA EnterType ==
  ASSUME TypeOK, NEW o \in Owners, NEW S \in SUBSET Requests,
         NEW which \in {"acquire", "verify"}, EnterRequest(o, S, which)
  PROVE  /\ at' \in [Owners -> Requests \cup {None}]
         /\ left' \in [Owners -> SUBSET Requests]
         /\ todo' \in [Owners -> SUBSET LockFiles]
         /\ acq' \in [Owners -> LockFiles \cup {None}]
         /\ pass' \in [Owners -> {"acquire", "verify"}]
         /\ pc' \in [Owners -> PCs]
  BY ToCheckType DEF TypeOK, EnterRequest, IsFirst, PCs

\* Taking a claim keeps the types of held and of the locals.
LEMMA TakeType ==
  ASSUME TypeOK, NEW o \in Owners, at[o] \in Requests, acq[o] \in LockFiles,
         cur[o] \in LeaseIds, NEW ch \in Changes, Take(o, ch)
  PROVE  /\ held' \in [Owners -> SUBSET Claims]
         /\ at' \in [Owners -> Requests \cup {None}]
         /\ left' \in [Owners -> SUBSET Requests]
         /\ todo' \in [Owners -> SUBSET LockFiles]
         /\ acq' \in [Owners -> LockFiles \cup {None}]
         /\ pass' \in [Owners -> {"acquire", "verify"}]
         /\ pc' \in [Owners -> PCs]
  <1>1. [lease |-> cur[o], path |-> at[o].path, kind |-> at[o].kind,
         lock |-> acq[o], change |-> ch] \in Claims
    BY DEF Claims, Requests
  <1>2. held' \in [Owners -> SUBSET Claims]
    BY <1>1 DEF TypeOK, Take
  <1>3. left[o] \in SUBSET Requests /\ want[o] \in SUBSET Requests
    BY DEF TypeOK
  <1> QED BY <1>2, <1>3, EnterType DEF Take

\* Ending an operation keeps the types of the locals it clears.
LEMMA FinishType ==
  ASSUME TypeOK, NEW o \in Owners, Finish(o)
  PROVE  /\ pc' \in [Owners -> PCs]
         /\ pass' \in [Owners -> {"acquire", "verify"}]
         /\ want' \in [Owners -> SUBSET Requests]
         /\ left' \in [Owners -> SUBSET Requests]
         /\ at' \in [Owners -> Requests \cup {None}]
         /\ todo' \in [Owners -> SUBSET LockFiles]
         /\ acq' \in [Owners -> LockFiles \cup {None}]
         /\ seen' \in [Owners -> Tokens \cup {None}]
         /\ err' \in [Owners -> Errors \cup {None}]
         /\ cur' \in [Owners -> LeaseIds \cup {None}]
  BY DEF TypeOK, Finish, PCs

\* Every step of the protocol keeps TypeOK.
LEMMA TypeStep == TypeOK /\ ControlInv /\ [Next]_vars => TypeOK'
  <1> SUFFICES ASSUME TypeOK, ControlInv, [Next]_vars PROVE TypeOK'
    OBVIOUS
  <1>1. CASE UNCHANGED vars
    BY <1>1 DEF TypeOK, vars
  <1>2. ASSUME NEW o \in Owners, \E R \in Batches : acquire_batch(o, R) PROVE TypeOK'
    <2>1. PICK R \in Batches : acquire_batch(o, R)
      BY <1>2
    <2>2. normalize_requests(R) \in SUBSET Requests
      BY InputAssumption DEF normalize_requests
    <2> QED BY <2>1, <2>2, EnterType DEF TypeOK, acquire_batch
  <1>3. ASSUME NEW o \in Owners, Resolve(o) PROVE TypeOK'
    BY <1>3, LocalTypes, ResolveType DEF TypeOK, Resolve, Attempting
  <1>4. ASSUME NEW o \in Owners, \E l \in LockFiles : CheckLock(o, l) PROVE TypeOK'
    <2>1. PICK l \in LockFiles : CheckLock(o, l)
      BY <1>4
    <2>2. CASE Fail(o, "empty", l) \/ (HasToken(l) /\ Fail(o, "conflict", l))
      <3>1. pc' \in [Owners -> PCs] /\ err' \in [Owners -> Errors \cup {None}]
        BY <2>2, FailType, TokenFields DEF HasToken
      <3> QED BY <2>1, <3>1 DEF CheckLock, TypeOK
    <2>3. CASE UNCHANGED <<pc, err>>
      BY <2>1, <2>3 DEF CheckLock, TypeOK
    <2> QED BY <2>1, <2>2, <2>3 DEF CheckLock, Blocks
  <1>5. ASSUME NEW o \in Owners, ensure_lock_dir(o) PROVE TypeOK'
    <2>1. acq[o] \in LockFiles
      BY <1>5 DEF TypeOK, ensure_lock_dir
    <2>2. node' \in [Paths -> NodeKinds]
      BY <1>5 DEF TypeOK, ensure_lock_dir, NodeKinds
    <2>3. pc' \in [Owners -> PCs] /\ err' \in [Owners -> Errors \cup {None}]
      <3>1. CASE Fail(o, "fatal", acq[o])
        BY <2>1, <3>1, FailType
      <3>2. CASE pc' = [pc EXCEPT ![o] = "one"] /\ UNCHANGED err
        BY <3>2 DEF TypeOK, PCs
      <3> QED BY <1>5, <3>1, <3>2 DEF ensure_lock_dir
    <2> QED BY <1>5, <2>2, <2>3 DEF TypeOK, ensure_lock_dir
  <1>6. ASSUME NEW o \in Owners, TryReuse(o) PROVE TypeOK'
    <2>1. at[o] \in Requests /\ acq[o] \in LockFiles /\ cur[o] \in LeaseIds
      BY <1>6, LocalTypes DEF TryReuse, Writing, Attempting
    <2>2. token' \in [LockFiles -> Tokens \cup {None}]
      <3>1. token[acq[o]] # None
        BY <1>6 DEF TryReuse, HasToken
      <3>2. token' = [token EXCEPT ![acq[o]].kind = "tree"] \/ token' = token
        BY <1>6 DEF TryReuse
      <3>3. [token EXCEPT ![acq[o]].kind = "tree"] \in [LockFiles -> Tokens \cup {None}]
        BY <2>1, <3>1, SetKindType DEF Kinds
      <3> QED BY <3>2, <3>3 DEF TypeOK
    <2>3. Take(o, "upgraded") \/ Take(o, "reentrant")
      BY <1>6 DEF TryReuse
    <2>4. /\ held' \in [Owners -> SUBSET Claims]
          /\ at' \in [Owners -> Requests \cup {None}]
          /\ left' \in [Owners -> SUBSET Requests]
          /\ todo' \in [Owners -> SUBSET LockFiles]
          /\ acq' \in [Owners -> LockFiles \cup {None}]
          /\ pass' \in [Owners -> {"acquire", "verify"}]
          /\ pc' \in [Owners -> PCs]
      BY <2>1, <2>3, TakeType DEF Changes
    <2> QED BY <1>6, <2>2, <2>4 DEF TryReuse, TypeOK
  <1>7. ASSUME NEW o \in Owners, TryRead(o) PROVE TypeOK'
    <2>1. acq[o] \in LockFiles
      BY <1>7, LocalTypes DEF TryRead, Writing
    <2>2. CASE \/ Fail(o, "empty", acq[o])
               \/ HasToken(acq[o]) /\ Fail(o, "conflict", acq[o])
      <3>1. pc' \in [Owners -> PCs] /\ err' \in [Owners -> Errors \cup {None}]
        BY <2>1, <2>2, FailType, TokenFields DEF HasToken
      <3>2. seen' \in [Owners -> Tokens \cup {None}]
        BY <1>7, <2>1 DEF TryRead, TypeOK, HasToken
      <3> QED BY <1>7, <3>1, <3>2 DEF TryRead, TypeOK
    <2>3. CASE UNCHANGED err /\ \E q \in {"takeover", "create"} : pc' = [pc EXCEPT ![o] = q]
      BY <1>7, <2>1, <2>3 DEF TryRead, TypeOK, HasToken, PCs
    <2> QED BY <1>7, <2>2, <2>3 DEF TryRead
  <1>8. ASSUME NEW o \in Owners, TakeOver(o) PROVE TypeOK'
    BY <1>8, LocalTypes, FailType DEF TypeOK, TakeOver, ForceRemove, Writing, PCs
  <1>9. ASSUME NEW o \in Owners, Unlink(o) PROVE TypeOK'
    BY <1>9, LocalTypes DEF TypeOK, Unlink, attempt, PCs
  <1>10. ASSUME NEW o \in Owners, try_create_token(o) PROVE TypeOK'
    <2>1. at[o] \in Requests /\ acq[o] \in LockFiles /\ cur[o] \in LeaseIds
      BY <1>10, LocalTypes DEF try_create_token, Writing, Attempting
    <2>2. token' \in [LockFiles -> Tokens \cup {None}]
      BY <1>10, <2>1, NewTokenType DEF try_create_token, TypeOK
    <2>3. CASE Take(o, "created") /\ UNCHANGED err
      BY <1>10, <2>1, <2>2, <2>3, TakeType DEF try_create_token, TypeOK, Changes
    <2>4. CASE /\ UNCHANGED <<pass, left, at, todo, acq, held>>
               /\ \/ Fail(o, "empty", acq[o])
                  \/ HasToken(acq[o]) /\ Fail(o, "conflict", acq[o])
      <3>1. pc' \in [Owners -> PCs] /\ err' \in [Owners -> Errors \cup {None}]
        BY <2>1, <2>4, FailType, TokenFields DEF HasToken
      <3> QED BY <1>10, <2>2, <2>4, <3>1 DEF try_create_token, TypeOK
    <2>5. CASE /\ UNCHANGED <<pass, left, at, todo, acq, held, err>>
               /\ pc' = [pc EXCEPT ![o] = "write"]
      BY <1>10, <2>2, <2>5 DEF try_create_token, TypeOK, PCs
    <2> QED BY <1>10, <2>3, <2>4, <2>5 DEF try_create_token
  <1>11. ASSUME NEW o \in Owners, WriteToken(o) PROVE TypeOK'
    BY <1>11, LocalTypes, NewTokenType, TakeType DEF TypeOK, WriteToken, Writing, Attempting, Changes
  <1>12. ASSUME NEW o \in Owners, VerifyNext(o) PROVE TypeOK'
    BY <1>12, EnterType DEF TypeOK, VerifyNext
  <1>13. ASSUME NEW o \in Owners, Grant(o) PROVE TypeOK'
    BY <1>13, LocalTypes, FinishType DEF TypeOK, Grant, Attempting
  <1>14. ASSUME NEW o \in Owners, \E c \in held[o] : rollback_acquisitions(o, c) PROVE TypeOK'
    <2>1. PICK c \in held[o] : rollback_acquisitions(o, c)
      BY <1>14
    <2>2. c.lock \in LockFiles /\ c.change \in Changes
      BY DEF TypeOK, Claims
    <2>3. token' \in [LockFiles -> Tokens \cup {None}]
      <3>1. \/ token' = token
            \/ token' = [token EXCEPT ![c.lock] = None]
            \/ token[c.lock] # None /\ token' = [token EXCEPT ![c.lock].kind = "exact"]
        BY <2>1 DEF rollback_acquisitions, HasToken
      <3>2. token[c.lock] # None =>
              [token EXCEPT ![c.lock].kind = "exact"] \in [LockFiles -> Tokens \cup {None}]
        BY <2>2, SetKindType DEF Kinds
      <3> QED BY <2>2, <3>1, <3>2 DEF TypeOK
    <2>4. err[o] \in Errors
      BY <2>1, LocalTypes DEF rollback_acquisitions
    <2>5. [err EXCEPT ![o].why = "fatal"] \in [Owners -> Errors \cup {None}]
      BY <2>4 DEF TypeOK, Errors
    <2> QED BY <2>1, <2>3, <2>5 DEF rollback_acquisitions, TypeOK
  <1>15. ASSUME NEW o \in Owners, RolledBack(o) PROVE TypeOK'
    BY <1>15, FinishType DEF TypeOK, RolledBack, attempt, PCs
  <1>16. ASSUME NEW o \in Owners, ReadConflict(o) PROVE TypeOK'
    BY <1>16, LocalTypes, FinishType DEF TypeOK, ReadConflict, HasToken, Errors, attempt, PCs
  <1>17. ASSUME NEW o \in Owners, Cleanup(o) PROVE TypeOK'
    BY <1>17, LocalTypes, FailType DEF TypeOK, Cleanup, ForceRemove, Errors, PCs
  <1>18. ASSUME NEW o \in Owners, Retry(o) PROVE TypeOK'
    BY <1>18, EnterType DEF TypeOK, Retry
  <1>19. ASSUME NEW o \in Owners, \E c \in held[o] : release_lease_paths(o, c) PROVE TypeOK'
    <2>1. PICK c \in held[o] : release_lease_paths(o, c)
      BY <1>19
    <2>2. c.lock \in LockFiles
      BY DEF TypeOK, Claims
    <2>3. token' \in [LockFiles -> Tokens \cup {None}]
      BY <2>1, <2>2, SetKindType DEF release_lease_paths, TypeOK, HasToken, Kinds
    <2> QED BY <2>1, <2>3 DEF release_lease_paths, TypeOK, attempt
  <1>20. ASSUME NEW o \in Owners, Released(o) PROVE TypeOK'
    BY <1>20, FinishType DEF TypeOK, Released
  <1>21. ASSUME NEW o \in Owners, \E k \in LeaseIds : release(o, k) PROVE TypeOK'
    BY <1>21 DEF TypeOK, release, PCs
  <1>22. ASSUME NEW o \in Owners, \E p \in Paths : CreateFile(o, p) \/ RemoveFile(o, p) PROVE TypeOK'
    BY <1>22 DEF TypeOK, CreateFile, RemoveFile, NodeKinds, attempt
  <1>23. ASSUME NEW o \in Owners, Timeout(o) PROVE TypeOK'
    BY <1>23, FinishType DEF TypeOK, Timeout
  <1>24. ASSUME NEW o \in Owners, Crash(o) PROVE TypeOK'
    BY <1>24 DEF TypeOK, Crash, PCs
  <1>25. ASSUME NEW o \in Owners, Expire(o) PROVE TypeOK'
    BY <1>25 DEF TypeOK, Expire, attempt
  <1>26. ASSUME NEW p \in Paths, Mkdir(p) PROVE TypeOK'
    BY <1>26 DEF TypeOK, Mkdir, attempt, NodeKinds
  <1> QED BY <1>1, <1>2, <1>3, <1>4, <1>5, <1>6, <1>7, <1>8, <1>9, <1>10, <1>11, <1>12, <1>13, <1>14, <1>15, <1>16, <1>17, <1>18, <1>19, <1>20, <1>21, <1>22, <1>23, <1>24, <1>25, <1>26 DEF Next, Step, Call

\* The steps one owner takes.
OwnerStep(o) == Step(o) \/ Call(o) \/ Timeout(o) \/ Crash(o) \/ Expire(o)

\* A step of one owner leaves the local variables of the others alone.
SameLocals(w) ==
  /\ pc'[w] = pc[w] /\ pass'[w] = pass[w] /\ want'[w] = want[w] /\ left'[w] = left[w]
  /\ at'[w] = at[w] /\ todo'[w] = todo[w] /\ acq'[w] = acq[w] /\ seen'[w] = seen[w]
  /\ err'[w] = err[w] /\ cur'[w] = cur[w] /\ held'[w] = held[w] /\ granted'[w] = granted[w]

\* A step of one owner leaves the locals and claims of the others alone.
LEMMA LocalFrame ==
  ASSUME TypeOK, NEW o \in Owners, NEW w \in Owners \ {o}, OwnerStep(o)
  PROVE  SameLocals(w)
  <1>1. CASE \E R \in Batches : acquire_batch(o, R)
    BY <1>1 DEF TypeOK, SameLocals, acquire_batch, EnterRequest, IsFirst
  <1>2. CASE Resolve(o)
    BY <1>2 DEF TypeOK, SameLocals, Resolve
  <1>3. CASE \E l \in LockFiles : CheckLock(o, l)
    BY <1>3 DEF TypeOK, SameLocals, CheckLock, Fail
  <1>4. CASE ensure_lock_dir(o)
    BY <1>4 DEF TypeOK, SameLocals, ensure_lock_dir, Fail
  <1>5. CASE TryReuse(o)
    BY <1>5 DEF TypeOK, SameLocals, TryReuse, Take, EnterRequest
  <1>6. CASE TryRead(o)
    BY <1>6 DEF TypeOK, SameLocals, TryRead, Fail
  <1>7. CASE TakeOver(o)
    BY <1>7 DEF TypeOK, SameLocals, TakeOver, ForceRemove, Fail
  <1>8. CASE Unlink(o)
    BY <1>8 DEF TypeOK, SameLocals, Unlink, attempt
  <1>9. CASE try_create_token(o)
    BY <1>9 DEF TypeOK, SameLocals, try_create_token, Take, EnterRequest, Fail
  <1>10. CASE WriteToken(o)
    BY <1>10 DEF TypeOK, SameLocals, WriteToken, Take, EnterRequest
  <1>11. CASE VerifyNext(o)
    BY <1>11 DEF TypeOK, SameLocals, VerifyNext, EnterRequest
  <1>12. CASE Grant(o)
    BY <1>12 DEF TypeOK, SameLocals, Grant, Finish
  <1>13. CASE \E c \in held[o] : rollback_acquisitions(o, c)
    BY <1>13 DEF TypeOK, SameLocals, rollback_acquisitions
  <1>14. CASE RolledBack(o)
    BY <1>14 DEF TypeOK, SameLocals, RolledBack, Finish, attempt
  <1>15. CASE ReadConflict(o)
    BY <1>15 DEF TypeOK, SameLocals, ReadConflict, Finish, attempt
  <1>16. CASE Cleanup(o)
    BY <1>16 DEF TypeOK, SameLocals, Cleanup, ForceRemove, Fail
  <1>17. CASE Retry(o)
    BY <1>17 DEF TypeOK, SameLocals, Retry, EnterRequest
  <1>18. CASE \E c \in held[o] : release_lease_paths(o, c)
    BY <1>18 DEF TypeOK, SameLocals, release_lease_paths, attempt
  <1>19. CASE Released(o)
    BY <1>19 DEF TypeOK, SameLocals, Released, Finish
  <1>20. CASE \E k \in LeaseIds : release(o, k)
    BY <1>20 DEF TypeOK, SameLocals, release
  <1>21. CASE \E p \in Paths : CreateFile(o, p) \/ RemoveFile(o, p)
    BY <1>21 DEF TypeOK, SameLocals, CreateFile, RemoveFile, attempt
  <1>22. CASE Timeout(o)
    BY <1>22 DEF TypeOK, SameLocals, Timeout, Finish
  <1>23. CASE Crash(o)
    BY <1>23 DEF TypeOK, SameLocals, Crash
  <1>24. CASE Expire(o)
    BY <1>24 DEF TypeOK, SameLocals, Expire, attempt
  <1> QED BY <1>1, <1>2, <1>3, <1>4, <1>5, <1>6, <1>7, <1>8, <1>9, <1>10, <1>11, <1>12, <1>13, <1>14, <1>15, <1>16, <1>17, <1>18, <1>19, <1>20, <1>21, <1>22, <1>23, <1>24 DEF OwnerStep, Step, Call

\* Expiry is never taken back.
LEMMA ExpiredGrows ==
  ASSUME NEW o \in Owners, OwnerStep(o)
  PROVE  expired \subseteq expired'
  <1>1. CASE \E R \in Batches : acquire_batch(o, R)
    BY <1>1 DEF acquire_batch, EnterRequest, IsFirst
  <1>2. CASE Resolve(o)
    BY <1>2 DEF Resolve
  <1>3. CASE \E l \in LockFiles : CheckLock(o, l)
    BY <1>3 DEF CheckLock, Fail
  <1>4. CASE ensure_lock_dir(o)
    BY <1>4 DEF ensure_lock_dir, Fail
  <1>5. CASE TryReuse(o)
    BY <1>5 DEF TryReuse, Take, EnterRequest
  <1>6. CASE TryRead(o)
    BY <1>6 DEF TryRead, Fail
  <1>7. CASE TakeOver(o)
    BY <1>7 DEF TakeOver, ForceRemove, Fail
  <1>8. CASE Unlink(o)
    BY <1>8 DEF Unlink, attempt
  <1>9. CASE try_create_token(o)
    BY <1>9 DEF try_create_token, Take, EnterRequest, Fail
  <1>10. CASE WriteToken(o)
    BY <1>10 DEF WriteToken, Take, EnterRequest
  <1>11. CASE VerifyNext(o)
    BY <1>11 DEF VerifyNext, EnterRequest
  <1>12. CASE Grant(o)
    BY <1>12 DEF Grant, Finish
  <1>13. CASE \E c \in held[o] : rollback_acquisitions(o, c)
    BY <1>13 DEF rollback_acquisitions
  <1>14. CASE RolledBack(o)
    BY <1>14 DEF RolledBack, Finish, attempt
  <1>15. CASE ReadConflict(o)
    BY <1>15 DEF ReadConflict, Finish, attempt
  <1>16. CASE Cleanup(o)
    BY <1>16 DEF Cleanup, ForceRemove, Fail
  <1>17. CASE Retry(o)
    BY <1>17 DEF Retry, EnterRequest
  <1>18. CASE \E c \in held[o] : release_lease_paths(o, c)
    BY <1>18 DEF release_lease_paths, attempt
  <1>19. CASE Released(o)
    BY <1>19 DEF Released, Finish
  <1>20. CASE \E k \in LeaseIds : release(o, k)
    BY <1>20 DEF release
  <1>21. CASE \E p \in Paths : CreateFile(o, p) \/ RemoveFile(o, p)
    BY <1>21 DEF CreateFile, RemoveFile, attempt
  <1>22. CASE Timeout(o)
    BY <1>22 DEF Timeout, Finish
  <1>23. CASE Crash(o)
    BY <1>23 DEF Crash
  <1>24. CASE Expire(o)
    BY <1>24 DEF Expire, attempt
  <1> QED BY <1>1, <1>2, <1>3, <1>4, <1>5, <1>6, <1>7, <1>8, <1>9, <1>10, <1>11, <1>12, <1>13, <1>14, <1>15, <1>16, <1>17, <1>18, <1>19, <1>20, <1>21, <1>22, <1>23, <1>24 DEF OwnerStep, Step, Call

\* Entering a request leaves the owner's control state consistent.
LEMMA EnterControl ==
  ASSUME TypeOK, NEW o \in Owners, NEW S \in SUBSET Requests,
         NEW which \in {"acquire", "verify"}, EnterRequest(o, S, which)
  PROVE  /\ pc'[o] = "check" /\ pass'[o] = which /\ acq'[o] = None
         /\ at'[o] \in S /\ left'[o] = S \ {at'[o]} /\ todo'[o] = ToCheck(at'[o])
  BY DEF TypeOK, EnterRequest, IsFirst

\* Where Take leaves the program counter: in the next check.
LEMMA TakeControl ==
  ASSUME TypeOK, NEW o \in Owners, NEW ch, Take(o, ch)
  PROVE  /\ pc'[o] = "check" /\ acq'[o] = None
         /\ left[o] # {} => /\ pass'[o] = "acquire" /\ at'[o] \in left[o]
                             /\ left'[o] = left[o] \ {at'[o]}
         /\ left[o] = {} => /\ pass'[o] = "verify" /\ at'[o] \in want[o]
                             /\ left'[o] = want[o] \ {at'[o]}
                             /\ todo'[o] = ToCheck(at'[o])
  <1>1. left[o] \in SUBSET Requests /\ want[o] \in SUBSET Requests
    BY DEF TypeOK
  <1> QED BY <1>1, EnterControl DEF Take

\* A normalized batch names each path once and keeps SafeInstance's promise.
LEMMA NormalizedBatch ==
  ASSUME NEW R \in Batches, SafeInstance
  PROVE  /\ \A r, q \in normalize_requests(R) : r.path = q.path => r = q
         /\ \A r \in normalize_requests(R) : r.kind = "tree" => r.path \notin Removable
  <1>1. ASSUME NEW r \in normalize_requests(R), NEW q \in normalize_requests(R),
               r.path = q.path
        PROVE  r = q
    <2>1. r \in Requests /\ q \in Requests
      BY InputAssumption DEF normalize_requests
    <2>2. ASSUME NEW x \in Requests, NEW y \in Requests, x.path = y.path, x.kind = "exact",
                 y.kind = "tree"
          PROVE  y = [x EXCEPT !.kind = "tree"]
      BY <2>2 DEF Requests
    <2>3. r.kind = "exact" /\ q.kind = "tree" => FALSE
      BY <1>1, <2>1, <2>2 DEF normalize_requests
    <2>4. q.kind = "exact" /\ r.kind = "tree" => FALSE
      BY <1>1, <2>1, <2>2 DEF normalize_requests
    <2> QED BY <1>1, <2>1, <2>3, <2>4 DEF Requests, Kinds
  <1>2. \A r \in normalize_requests(R) : r.kind = "tree" => r.path \notin Removable
    BY DEF normalize_requests, SafeInstance
  <1> QED BY <1>1, <1>2

\* A failed attempt goes to its rollback with its error recorded.
LEMMA FailControl ==
  ASSUME TypeOK, NEW o \in Owners, NEW why \in {"conflict", "empty", "fatal"},
         NEW l \in LockFiles, Fail(o, why, l)
  PROVE  pc'[o] = "rollback" /\ err'[o] # None
  <1>1. [why |-> why, lock |-> l, during |-> pass[o]] \in Errors
    BY DEF Errors, TypeOK
  <1> QED BY <1>1 DEF TypeOK, Fail

\* An owner's step keeps its own control state consistent.
LEMMA ControlOwn ==
  ASSUME SafeInstance, TypeOK, DeadInv, ControlInv, NEW o \in Owners, OwnerStep(o)
  PROVE  ControlOf(o)'
  <1> USE DEF ControlOf, Attempting, Writing
  <1>a. ControlOf(o)
    BY DEF ControlInv
  <1>1. CASE \E R \in Batches : acquire_batch(o, R)
    <2>1. PICK R \in Batches : acquire_batch(o, R)
      BY <1>1
    <2>2. normalize_requests(R) \in SUBSET Requests
      BY InputAssumption DEF normalize_requests
    <2>3. EnterRequest(o, normalize_requests(R), "acquire")
      BY <2>1 DEF acquire_batch
    <2>4. want'[o] = normalize_requests(R) /\ cur'[o] \in LeaseIds \ granted[o]
          /\ UNCHANGED granted
      BY <2>1 DEF acquire_batch, TypeOK
    <2> QED BY <2>2, <2>3, <2>4, EnterControl, NormalizedBatch
  <1>2. CASE Resolve(o)
    BY <1>2, <1>a, LocalTypes, ResolveType DEF TypeOK, Resolve, resolve_exact_conflict_paths, path_lock_path, prefixed_exact_lock_path
  <1>3. CASE \E l \in LockFiles : CheckLock(o, l)
    <2>1. PICK l \in LockFiles : CheckLock(o, l)
      BY <1>3
    <2>2. CASE UNCHANGED <<pc, err>>
      BY <1>a, <2>1, <2>2 DEF TypeOK, CheckLock
    <2>3. CASE \/ Fail(o, "empty", l)
               \/ HasToken(l) /\ Fail(o, "conflict", l)
      <3>1. pc'[o] = "rollback" /\ err'[o] # None
        BY <2>3, FailControl, TokenFields DEF HasToken
      <3> QED BY <1>a, <2>1, <3>1 DEF CheckLock
    <2> QED BY <2>1, <2>2, <2>3 DEF CheckLock, Blocks
  <1>4. CASE ensure_lock_dir(o)
    <2>1. acq[o] \in LockFiles
      BY <1>4 DEF TypeOK, ensure_lock_dir
    <2>2. CASE Fail(o, "fatal", acq[o])
      BY <1>4, <1>a, <2>1, <2>2, FailControl DEF ensure_lock_dir
    <2>3. CASE pc' = [pc EXCEPT ![o] = "one"] /\ UNCHANGED err
      BY <1>4, <1>a, <2>3 DEF TypeOK, ensure_lock_dir
    <2> QED BY <1>4, <2>2, <2>3 DEF ensure_lock_dir
  <1>5. CASE TryReuse(o)
    <2>1. \E ch \in Changes : Take(o, ch)
      BY <1>5 DEF TryReuse, Changes
    <2> QED BY <1>5, <1>a, <2>1, TakeControl DEF TryReuse
  <1>6. CASE TryRead(o)
    <2>1. acq[o] \in LockFiles
      BY <1>6, LocalTypes DEF TryRead
    <2>2. CASE \/ Fail(o, "empty", acq[o])
               \/ HasToken(acq[o]) /\ Fail(o, "conflict", acq[o])
      <3>1. pc'[o] = "rollback" /\ err'[o] # None
        BY <2>1, <2>2, FailControl, TokenFields DEF HasToken
      <3> QED BY <1>6, <1>a, <3>1 DEF TryRead
    <2>3. CASE /\ HasToken(acq[o]) /\ is_stale(token[acq[o]])
               /\ seen' = [seen EXCEPT ![o] = token[acq[o]]]
               /\ pc' = [pc EXCEPT ![o] = "takeover"] /\ UNCHANGED err
      BY <1>6, <1>a, <2>3 DEF TypeOK, TryRead, HasToken, is_stale
    <2>4. CASE pc' = [pc EXCEPT ![o] = "create"] /\ UNCHANGED <<seen, err>>
      BY <1>6, <1>a, <2>4 DEF TypeOK, TryRead
    <2> QED BY <1>6, <2>2, <2>3, <2>4 DEF TryRead
  <1>7. CASE TakeOver(o)
    <2>1. acq[o] \in LockFiles /\ Provider = "memory"
      BY <1>7, <1>a, LocalTypes DEF TakeOver, DeadInv, SafeInstance, TypeOK
    <2>2. CASE Fail(o, "fatal", acq[o])
      BY <1>7, <1>a, <2>1, <2>2, FailControl DEF TakeOver
    <2>3. CASE pc' = [pc EXCEPT ![o] = "create"] /\ UNCHANGED err
      BY <1>7, <1>a, <2>3 DEF TypeOK, TakeOver
    <2> QED BY <1>7, <2>1, <2>2, <2>3 DEF TakeOver, ForceRemove
  <1>8. CASE Unlink(o)
    BY <1>8, <1>a DEF TypeOK, Unlink, attempt
  <1>9. CASE try_create_token(o)
    <2>1. CASE Take(o, "created")
      BY <1>9, <1>a, <2>1, TakeControl DEF try_create_token
    <2>2. acq[o] \in LockFiles
      BY <1>9, LocalTypes DEF try_create_token
    <2>3. CASE /\ UNCHANGED <<pass, left, at, todo, acq, held>>
               /\ \/ Fail(o, "empty", acq[o])
                  \/ HasToken(acq[o]) /\ Fail(o, "conflict", acq[o])
      <3>1. pc'[o] = "rollback" /\ err'[o] # None
        BY <2>2, <2>3, FailControl, TokenFields DEF HasToken
      <3> QED BY <1>9, <1>a, <2>3, <3>1 DEF try_create_token
    <2>4. CASE /\ UNCHANGED <<pass, left, at, todo, acq, held, err>>
               /\ pc' = [pc EXCEPT ![o] = "write"]
      BY <1>9, <1>a, <2>4 DEF TypeOK, try_create_token
    <2> QED BY <1>9, <2>1, <2>3, <2>4 DEF try_create_token
  <1>10. CASE WriteToken(o)
    BY <1>10, <1>a, TakeControl DEF WriteToken
  <1>11. CASE VerifyNext(o)
    <2>1. left[o] \in SUBSET Requests
      BY DEF TypeOK
    <2> QED BY <1>11, <1>a, <2>1, EnterControl DEF VerifyNext
  <1>12. CASE Grant(o)
    BY <1>12, <1>a DEF TypeOK, Grant, Finish
  <1>13. CASE \E c \in held[o] : rollback_acquisitions(o, c)
    <2>1. err[o] \in Errors
      BY <1>13, LocalTypes DEF rollback_acquisitions
    <2>2. [err[o] EXCEPT !.why = "fatal"] \in Errors
      BY <2>1 DEF Errors
    <2>3. err'[o] # None
      BY <1>13, <2>1, <2>2 DEF TypeOK, rollback_acquisitions
    <2> QED BY <1>13, <1>a, <2>3 DEF rollback_acquisitions
  <1>14. CASE RolledBack(o)
    BY <1>14, <1>a DEF TypeOK, RolledBack, Finish, attempt
  <1>15. CASE ReadConflict(o)
    BY <1>15, <1>a, LocalTypes DEF TypeOK, ReadConflict, Finish, attempt, HasToken, is_stale, Errors
  <1>16. CASE Cleanup(o)
    <2>1. err[o].lock \in LockFiles /\ Provider = "memory"
      BY <1>16, <1>a, LocalTypes DEF Cleanup, DeadInv, SafeInstance, TypeOK, Errors
    <2>2. CASE Fail(o, "fatal", err[o].lock)
      BY <1>16, <1>a, <2>1, <2>2, FailControl DEF Cleanup
    <2>3. CASE pc' = [pc EXCEPT ![o] = "retry"] /\ UNCHANGED err
      BY <1>16, <1>a, <2>3 DEF TypeOK, Cleanup
    <2> QED BY <1>16, <2>1, <2>2, <2>3 DEF Cleanup, ForceRemove
  <1>17. CASE Retry(o)
    <2>1. want[o] \in SUBSET Requests
      BY DEF TypeOK
    <2> QED BY <1>17, <1>a, <2>1, EnterControl DEF Retry
  <1>18. CASE \E c \in held[o] : release_lease_paths(o, c)
    BY <1>18, <1>a DEF TypeOK, release_lease_paths, attempt
  <1>19. CASE Released(o)
    BY <1>19, <1>a DEF TypeOK, Released, Finish
  <1>20. CASE \E k \in LeaseIds : release(o, k)
    BY <1>20, <1>a DEF TypeOK, release
  <1>21. CASE \E p \in Paths : CreateFile(o, p) \/ RemoveFile(o, p)
    BY <1>21, <1>a DEF TypeOK, CreateFile, RemoveFile, attempt
  <1>22. CASE Timeout(o)
    BY <1>22, <1>a DEF TypeOK, Timeout, Finish
  <1>23. CASE Crash(o)
    BY <1>23, <1>a DEF TypeOK, Crash
  <1>24. CASE Expire(o)
    BY <1>24, <1>a DEF TypeOK, Expire, attempt
  <1> QED BY <1>1, <1>2, <1>3, <1>4, <1>5, <1>6, <1>7, <1>8, <1>9, <1>10, <1>11, <1>12, <1>13, <1>14, <1>15, <1>16, <1>17, <1>18, <1>19, <1>20, <1>21, <1>22, <1>23, <1>24 DEF OwnerStep, Step, Call

\* An owner's step keeps everybody's control state consistent.
LEMMA ControlStep ==
  ASSUME SafeInstance, TypeOK, DeadInv, ControlInv, NEW o \in Owners, OwnerStep(o)
  PROVE  ControlInv'
  <1> SUFFICES ASSUME NEW w \in Owners, w # o PROVE ControlOf(w)'
    BY ControlOwn DEF ControlInv
  <1> QED BY LocalFrame, ExpiredGrows DEF ControlInv, ControlOf, SameLocals

\* Only owners that may crash are dead, they hold nothing, and only they expire.
LEMMA DeadStep ==
  ASSUME TypeOK, DeadInv, NEW o \in Owners, OwnerStep(o)
  PROVE  DeadInv'
  <1>1. CASE \E R \in Batches : acquire_batch(o, R)
    BY <1>1 DEF TypeOK, DeadInv, Alive, acquire_batch, EnterRequest, IsFirst
  <1>2. CASE Resolve(o)
    BY <1>2 DEF TypeOK, DeadInv, Alive, Resolve
  <1>3. CASE \E l \in LockFiles : CheckLock(o, l)
    BY <1>3 DEF TypeOK, DeadInv, Alive, CheckLock, Fail
  <1>4. CASE ensure_lock_dir(o)
    BY <1>4 DEF TypeOK, DeadInv, Alive, ensure_lock_dir, Fail
  <1>5. CASE TryReuse(o)
    BY <1>5, LocalFrame, TakeControl DEF TypeOK, DeadInv, TryReuse, SameLocals, OwnerStep, Step
  <1>6. CASE TryRead(o)
    BY <1>6 DEF TypeOK, DeadInv, Alive, TryRead, Fail
  <1>7. CASE TakeOver(o)
    BY <1>7 DEF TypeOK, DeadInv, Alive, TakeOver, ForceRemove, Fail
  <1>8. CASE Unlink(o)
    BY <1>8 DEF TypeOK, DeadInv, Alive, Unlink, attempt
  <1>9. CASE try_create_token(o)
    BY <1>9 DEF TypeOK, DeadInv, Alive, try_create_token, Take, EnterRequest, Fail
  <1>10. CASE WriteToken(o)
    BY <1>10 DEF TypeOK, DeadInv, Alive, WriteToken, Take, EnterRequest
  <1>11. CASE VerifyNext(o)
    BY <1>11 DEF TypeOK, DeadInv, Alive, VerifyNext, EnterRequest
  <1>12. CASE Grant(o)
    BY <1>12 DEF TypeOK, DeadInv, Alive, Grant, Finish
  <1>13. CASE \E c \in held[o] : rollback_acquisitions(o, c)
    BY <1>13 DEF TypeOK, DeadInv, Alive, rollback_acquisitions
  <1>14. CASE RolledBack(o)
    BY <1>14 DEF TypeOK, DeadInv, Alive, RolledBack, Finish, attempt
  <1>15. CASE ReadConflict(o)
    BY <1>15 DEF TypeOK, DeadInv, Alive, ReadConflict, Finish, attempt
  <1>16. CASE Cleanup(o)
    BY <1>16 DEF TypeOK, DeadInv, Alive, Cleanup, ForceRemove, Fail
  <1>17. CASE Retry(o)
    BY <1>17 DEF TypeOK, DeadInv, Alive, Retry, EnterRequest
  <1>18. CASE \E c \in held[o] : release_lease_paths(o, c)
    BY <1>18 DEF TypeOK, DeadInv, Alive, release_lease_paths, attempt
  <1>19. CASE Released(o)
    BY <1>19 DEF TypeOK, DeadInv, Alive, Released, Finish
  <1>20. CASE \E k \in LeaseIds : release(o, k)
    BY <1>20 DEF TypeOK, DeadInv, Alive, release
  <1>21. CASE \E p \in Paths : CreateFile(o, p) \/ RemoveFile(o, p)
    BY <1>21 DEF TypeOK, DeadInv, Alive, CreateFile, RemoveFile, attempt
  <1>22. CASE Timeout(o)
    BY <1>22 DEF TypeOK, DeadInv, Alive, Timeout, Finish
  <1>23. CASE Crash(o)
    BY <1>23 DEF TypeOK, DeadInv, Alive, Crash
  <1>24. CASE Expire(o)
    BY <1>24 DEF TypeOK, DeadInv, Alive, Expire, attempt
  <1> QED BY <1>1, <1>2, <1>3, <1>4, <1>5, <1>6, <1>7, <1>8, <1>9, <1>10, <1>11, <1>12, <1>13, <1>14, <1>15, <1>16, <1>17, <1>18, <1>19, <1>20, <1>21, <1>22, <1>23, <1>24 DEF OwnerStep, Step, Call

\* A step of one owner leaves every token of another owner alone, unless that
\* owner is dead and its tokens are stale.
LEMMA TokenFrame ==
  ASSUME SafeInstance, TypeOK, DeadInv, ControlInv, NEW o \in Owners, OwnerStep(o),
         NEW l \in LockFiles, token[l] # None, token[l].owner # o, token[l].owner \notin expired
  PROVE  token'[l] = token[l]
  <1>a. ControlOf(o)
    BY DEF ControlInv
  <1>1. CASE \E R \in Batches : acquire_batch(o, R)
    BY <1>1 DEF acquire_batch, EnterRequest, IsFirst
  <1>2. CASE Resolve(o)
    BY <1>2 DEF Resolve
  <1>3. CASE \E lf \in LockFiles : CheckLock(o, lf)
    BY <1>3 DEF CheckLock, Fail
  <1>4. CASE ensure_lock_dir(o)
    BY <1>4 DEF ensure_lock_dir, Fail
  <1>5. CASE TryReuse(o)
    BY <1>5, LocalTypes DEF TryReuse, Writing, TypeOK
  <1>6. CASE TryRead(o)
    BY <1>6 DEF TryRead, Fail
  <1>7. CASE TakeOver(o)
    BY <1>7, <1>a DEF TakeOver, ForceRemove, ControlOf, TypeOK
  <1>8. CASE Unlink(o)
    BY <1>8, <1>a DEF Unlink, ControlOf
  <1>9. CASE try_create_token(o)
    BY <1>9 DEF try_create_token, is_stale, TypeOK
  <1>10. CASE WriteToken(o)
    BY <1>10 DEF WriteToken, NewToken, TypeOK
  <1>11. CASE VerifyNext(o)
    BY <1>11 DEF VerifyNext, EnterRequest
  <1>12. CASE Grant(o)
    BY <1>12 DEF Grant, Finish
  <1>13. CASE \E c \in held[o] : rollback_acquisitions(o, c)
    BY <1>13 DEF rollback_acquisitions, HasToken, TypeOK
  <1>14. CASE RolledBack(o)
    BY <1>14 DEF RolledBack, Finish, attempt
  <1>15. CASE ReadConflict(o)
    BY <1>15 DEF ReadConflict, Finish, attempt
  <1>16. CASE Cleanup(o)
    BY <1>16, <1>a DEF Cleanup, ForceRemove, ControlOf, TypeOK
  <1>17. CASE Retry(o)
    BY <1>17 DEF Retry, EnterRequest
  <1>18. CASE \E c \in held[o] : release_lease_paths(o, c)
    BY <1>18 DEF release_lease_paths, HasToken, TypeOK
  <1>19. CASE Released(o)
    BY <1>19 DEF Released, Finish
  <1>20. CASE \E k \in LeaseIds : release(o, k)
    BY <1>20 DEF release
  <1>21. CASE \E p \in Paths : CreateFile(o, p) \/ RemoveFile(o, p)
    BY <1>21 DEF CreateFile, RemoveFile, attempt
  <1>22. CASE Timeout(o)
    BY <1>22 DEF Timeout, Finish
  <1>23. CASE Crash(o)
    BY <1>23 DEF Crash
  <1>24. CASE Expire(o)
    BY <1>24 DEF Expire, attempt
  <1> QED BY <1>1, <1>2, <1>3, <1>4, <1>5, <1>6, <1>7, <1>8, <1>9, <1>10, <1>11, <1>12, <1>13, <1>14, <1>15, <1>16, <1>17, <1>18, <1>19, <1>20, <1>21, <1>22, <1>23, <1>24 DEF OwnerStep, Step, Call

\* Nobody touches a token file between its creation and the write of its text.
LEMMA WriteStep ==
  ASSUME SafeInstance, TypeOK, DeadInv, ControlInv, WriteInv, NEW o \in Owners, OwnerStep(o)
  PROVE  WriteInv'
  <1> SUFFICES ASSUME NEW w \in Owners, pc'[w] = "write"
               PROVE  token'[acq'[w]] = [owner |-> w, kind |-> at'[w].kind, body |-> "empty"]
    BY DEF WriteInv
  <1>1. CASE w # o
    <2>1. SameLocals(w)
      BY <1>1, LocalFrame
    <2>2. acq[w] \in LockFiles /\ token[acq[w]] = [owner |-> w, kind |-> at[w].kind, body |-> "empty"]
      BY <2>1, LocalTypes DEF SameLocals, Writing, WriteInv
    <2>3. token[acq[w]] # None /\ token[acq[w]].owner = w /\ w \notin expired
      <3>1. token[acq[w]] \in Tokens
        BY <2>1, <2>2, LocalTypes DEF SameLocals, Attempting, Tokens, Requests
      <3> QED BY <2>1, <2>2, <3>1 DEF DeadInv, SameLocals
    <2>4. token'[acq[w]] = token[acq[w]]
      BY <1>1, <2>2, <2>3, TokenFrame
    <2> QED BY <2>1, <2>2, <2>4 DEF SameLocals
  <1>2. CASE w = o
    <2>1. try_create_token(o) \/ \E p \in Paths : CreateFile(o, p) \/ RemoveFile(o, p)
      <3>1. CASE \E R \in Batches : acquire_batch(o, R)
        BY <3>1, <1>2 DEF TypeOK, acquire_batch, EnterRequest, IsFirst
      <3>2. CASE Resolve(o)
        BY <3>2, <1>2 DEF TypeOK, Resolve
      <3>3. CASE \E l \in LockFiles : CheckLock(o, l)
        BY <3>3, <1>2 DEF TypeOK, CheckLock, Fail
      <3>4. CASE ensure_lock_dir(o)
        BY <3>4, <1>2 DEF TypeOK, ensure_lock_dir, Fail
      <3>5. CASE TryReuse(o)
        BY <3>5, <1>2, TakeControl DEF TryReuse
      <3>6. CASE TryRead(o)
        BY <3>6, <1>2 DEF TypeOK, TryRead, Fail
      <3>7. CASE TakeOver(o)
        BY <3>7, <1>2 DEF TypeOK, TakeOver, ForceRemove, Fail
      <3>8. CASE Unlink(o)
        BY <3>8, <1>2 DEF TypeOK, Unlink, attempt
      <3>9. CASE try_create_token(o)
        BY <3>9
      <3>10. CASE WriteToken(o)
        BY <3>10, <1>2, TakeControl DEF WriteToken
      <3>11. CASE VerifyNext(o)
        BY <3>11, <1>2 DEF TypeOK, VerifyNext, EnterRequest
      <3>12. CASE Grant(o)
        BY <3>12, <1>2 DEF TypeOK, Grant, Finish
      <3>13. CASE \E c \in held[o] : rollback_acquisitions(o, c)
        BY <3>13, <1>2 DEF TypeOK, rollback_acquisitions
      <3>14. CASE RolledBack(o)
        BY <3>14, <1>2 DEF TypeOK, RolledBack, Finish, attempt
      <3>15. CASE ReadConflict(o)
        BY <3>15, <1>2 DEF TypeOK, ReadConflict, Finish, attempt
      <3>16. CASE Cleanup(o)
        BY <3>16, <1>2 DEF TypeOK, Cleanup, ForceRemove, Fail
      <3>17. CASE Retry(o)
        BY <3>17, <1>2 DEF TypeOK, Retry, EnterRequest
      <3>18. CASE \E c \in held[o] : release_lease_paths(o, c)
        BY <3>18, <1>2 DEF TypeOK, release_lease_paths, attempt
      <3>19. CASE Released(o)
        BY <3>19, <1>2 DEF TypeOK, Released, Finish
      <3>20. CASE \E k \in LeaseIds : release(o, k)
        BY <3>20, <1>2 DEF TypeOK, release
      <3>21. CASE \E p \in Paths : CreateFile(o, p) \/ RemoveFile(o, p)
        BY <3>21
      <3>22. CASE Timeout(o)
        BY <3>22, <1>2 DEF TypeOK, Timeout, Finish
      <3>23. CASE Crash(o)
        BY <3>23, <1>2 DEF TypeOK, Crash
      <3>24. CASE Expire(o)
        BY <3>24, <1>2 DEF Expire, Alive
      <3> QED BY <3>1, <3>2, <3>3, <3>4, <3>5, <3>6, <3>7, <3>8, <3>9, <3>10, <3>11, <3>12, <3>13, <3>14, <3>15, <3>16, <3>17, <3>18, <3>19, <3>20, <3>21, <3>22, <3>23, <3>24 DEF OwnerStep, Step, Call
    <2>a. CASE \E p \in Paths : CreateFile(o, p) \/ RemoveFile(o, p)
      BY <1>2, <2>a DEF CreateFile, RemoveFile, attempt, WriteInv
    <2> SUFFICES ASSUME try_create_token(o)
                 PROVE  token'[acq'[o]] = [owner |-> o, kind |-> at'[o].kind, body |-> "empty"]
      BY <1>2, <2>1, <2>a
    <2>2. ~Take(o, "created")
      BY <1>2, TakeControl
    <2>3. acq[o] \in LockFiles
      BY LocalTypes DEF try_create_token, Writing
    <2>4. /\ token' = [token EXCEPT ![acq[o]] = NewToken(o, "empty")]
          /\ UNCHANGED <<acq, at>>
      BY <1>2, <2>2 DEF try_create_token, Fail, TypeOK
    <2> QED BY <2>3, <2>4 DEF TypeOK, NewToken
  <1> QED BY <1>1, <1>2

\* The step that gives a request of the acquire pass its token.
Takes(o, ch) == pc[o] \in Writing /\ Take(o, ch) /\ UNCHANGED <<cur, granted, want>>

\* A step adds a claim only by Take, in the attempt's acquire pass.
LEMMA HeldFrame ==
  ASSUME TypeOK, NEW o \in Owners, OwnerStep(o), \A ch \in Changes : ~Takes(o, ch)
  PROVE  held'[o] \subseteq held[o]
  <1>1. CASE \E R \in Batches : acquire_batch(o, R)
    BY <1>1 DEF TypeOK, acquire_batch, EnterRequest, IsFirst
  <1>2. CASE Resolve(o)
    BY <1>2 DEF TypeOK, Resolve
  <1>3. CASE \E l \in LockFiles : CheckLock(o, l)
    BY <1>3 DEF TypeOK, CheckLock, Fail
  <1>4. CASE ensure_lock_dir(o)
    BY <1>4 DEF TypeOK, ensure_lock_dir, Fail
  <1>5. CASE TryReuse(o)
    BY <1>5 DEF TryReuse, Writing, Changes, Takes
  <1>6. CASE TryRead(o)
    BY <1>6 DEF TypeOK, TryRead, Fail
  <1>7. CASE TakeOver(o)
    BY <1>7 DEF TypeOK, TakeOver, ForceRemove, Fail
  <1>8. CASE Unlink(o)
    BY <1>8 DEF TypeOK, Unlink, attempt
  <1>9. CASE try_create_token(o)
    BY <1>9 DEF try_create_token, Writing, Changes, Takes
  <1>10. CASE WriteToken(o)
    BY <1>10 DEF WriteToken, Writing, Changes, Takes
  <1>11. CASE VerifyNext(o)
    BY <1>11 DEF TypeOK, VerifyNext, EnterRequest
  <1>12. CASE Grant(o)
    BY <1>12 DEF TypeOK, Grant, Finish
  <1>13. CASE \E c \in held[o] : rollback_acquisitions(o, c)
    BY <1>13 DEF TypeOK, rollback_acquisitions
  <1>14. CASE RolledBack(o)
    BY <1>14 DEF TypeOK, RolledBack, Finish, attempt
  <1>15. CASE ReadConflict(o)
    BY <1>15 DEF TypeOK, ReadConflict, Finish, attempt
  <1>16. CASE Cleanup(o)
    BY <1>16 DEF TypeOK, Cleanup, ForceRemove, Fail
  <1>17. CASE Retry(o)
    BY <1>17 DEF TypeOK, Retry, EnterRequest
  <1>18. CASE \E c \in held[o] : release_lease_paths(o, c)
    BY <1>18 DEF TypeOK, release_lease_paths, attempt
  <1>19. CASE Released(o)
    BY <1>19 DEF TypeOK, Released, Finish
  <1>20. CASE \E k \in LeaseIds : release(o, k)
    BY <1>20 DEF TypeOK, release
  <1>21. CASE \E p \in Paths : CreateFile(o, p) \/ RemoveFile(o, p)
    BY <1>21 DEF TypeOK, CreateFile, RemoveFile, attempt
  <1>22. CASE Timeout(o)
    BY <1>22 DEF TypeOK, Timeout, Finish
  <1>23. CASE Crash(o)
    BY <1>23 DEF TypeOK, Crash
  <1>24. CASE Expire(o)
    BY <1>24 DEF TypeOK, Expire, attempt
  <1> QED BY <1>1, <1>2, <1>3, <1>4, <1>5, <1>6, <1>7, <1>8, <1>9, <1>10, <1>11, <1>12, <1>13, <1>14, <1>15, <1>16, <1>17, <1>18, <1>19, <1>20, <1>21, <1>22, <1>23, <1>24 DEF OwnerStep, Step, Call

\* That claim, and where it leaves the attempt.
LEMMA TakesClaim ==
  ASSUME TypeOK, ControlInv, NEW o \in Owners, NEW ch \in Changes, Takes(o, ch)
  PROVE  \E n \in Claims :
           /\ held'[o] = held[o] \cup {n}
           /\ n.lease = cur[o] /\ n.lock = acq[o] /\ n.change = ch
           /\ Req(n) = at[o] /\ n.path = at[o].path /\ n.kind = at[o].kind
  <1>1. at[o] \in Requests /\ acq[o] \in LockFiles /\ cur[o] \in LeaseIds
    BY LocalTypes DEF Writing, Attempting, Takes
  <1>2. [lease |-> cur[o], path |-> at[o].path, kind |-> at[o].kind,
         lock |-> acq[o], change |-> ch] \in Claims
    BY <1>1 DEF Claims, Requests
  <1> QED BY <1>1, <1>2 DEF Takes, Take, TypeOK, Requests, Req

\* The attempt before and after the step that takes a token.
LEMMA TakesControl ==
  ASSUME TypeOK, ControlInv, NEW o \in Owners, NEW ch \in Changes, Takes(o, ch)
  PROVE  /\ pass[o] = "acquire" /\ at[o] \in want[o] /\ left[o] \subseteq want[o] \ {at[o]}
         /\ acq[o].at = at[o].path /\ acq[o] \in LockFiles /\ cur[o] \in LeaseIds \ granted[o]
         /\ pc'[o] = "check" /\ cur'[o] = cur[o] /\ granted'[o] = granted[o] /\ want'[o] = want[o]
         /\ left[o] # {} => /\ pass'[o] = "acquire" /\ at'[o] \in left[o]
                             /\ left'[o] = left[o] \ {at'[o]}
         /\ left[o] = {} => /\ pass'[o] = "verify" /\ at'[o] \in want[o]
                             /\ left'[o] = want[o] \ {at'[o]}
                             /\ todo'[o] = ToCheck(at'[o])
  <1>1. ControlOf(o)
    BY DEF ControlInv
  <1>2. acq[o] \in LockFiles /\ cur[o] \in LeaseIds
    BY LocalTypes DEF Takes, Attempting, Writing
  <1> QED BY <1>1, <1>2, TakeControl DEF Takes, ControlOf, Attempting, Writing

\* ClaimInv for the owner that takes a claim.
LEMMA ClaimTakes ==
  ASSUME TypeOK, ControlInv, ClaimInv, NEW o \in Owners, NEW ch \in Changes, Takes(o, ch)
  PROVE  \A c \in held'[o] : ClaimOf(o, c)'
  <1>1. PICK n \in Claims :
          /\ held'[o] = held[o] \cup {n}
          /\ n.lease = cur[o] /\ n.lock = acq[o] /\ Req(n) = at[o] /\ n.path = at[o].path
    BY TakesClaim
  <1>2. ASSUME NEW c \in held[o] PROVE ClaimOf(o, c)'
    <2>1. ClaimOf(o, c)
      BY DEF ClaimInv
    <2>2. pc[o] \in Attempting
      BY DEF Takes, Writing, Attempting
    <2> QED BY <2>1, <2>2, TakesControl DEF ClaimOf, GivenBack, Attempting
  <1>3. ClaimOf(o, n)'
    BY <1>1, TakesControl DEF ClaimOf, GivenBack, Attempting
  <1> QED BY <1>1, <1>2, <1>3

\* Every step of an owner keeps ClaimInv.
LEMMA ClaimStep ==
  ASSUME TypeOK, ControlInv, ClaimInv, NEW o \in Owners, OwnerStep(o)
  PROVE  ClaimInv'
  <1>1. ASSUME NEW w \in Owners, w # o, NEW c \in held'[w] PROVE ClaimOf(w, c)'
    <2>1. SameLocals(w) /\ ClaimOf(w, c)
      BY <1>1, LocalFrame DEF ClaimInv, SameLocals
    <2> QED BY <2>1 DEF SameLocals, ClaimOf
  <1>2. ASSUME NEW ch \in Changes, Takes(o, ch) PROVE \A c \in held'[o] : ClaimOf(o, c)'
    BY <1>2, ClaimTakes
  <1>3. ASSUME \A ch \in Changes : ~Takes(o, ch), NEW c \in held'[o] PROVE ClaimOf(o, c)'
    <2>1. c \in held[o] /\ ClaimOf(o, c) /\ c.lease # None
      BY <1>3, HeldFrame DEF ClaimInv, TypeOK, Claims
    <2>a. ControlOf(o)
      BY DEF ControlInv
    <2> USE DEF ClaimOf, GivenBack, Attempting
    <2>s1. CASE \E R \in Batches : acquire_batch(o, R)
      BY <2>s1, <2>1, <2>a DEF TypeOK, ControlOf, acquire_batch, EnterRequest, IsFirst
    <2>s2. CASE Resolve(o)
      BY <2>s2, <1>3, <2>1, <2>a DEF TypeOK, Req, Changes, Resolve
    <2>s3. CASE \E l \in LockFiles : CheckLock(o, l)
      BY <2>s3, <1>3, <2>1, <2>a DEF TypeOK, Req, Changes, CheckLock, Fail
    <2>s4. CASE ensure_lock_dir(o)
      BY <2>s4, <1>3, <2>1, <2>a DEF TypeOK, Req, Changes, ensure_lock_dir, Fail
    <2>s5. CASE TryReuse(o)
      BY <2>s5, <1>3 DEF TryReuse, Takes, Writing, Changes
    <2>s6. CASE TryRead(o)
      BY <2>s6, <1>3, <2>1, <2>a DEF TypeOK, Req, Changes, TryRead, Fail
    <2>s7. CASE TakeOver(o)
      BY <2>s7, <1>3, <2>1, <2>a DEF TypeOK, Req, Changes, TakeOver, ForceRemove, Fail
    <2>s8. CASE Unlink(o)
      BY <2>s8, <2>a DEF Unlink, ControlOf
    <2>s9. CASE try_create_token(o)
      BY <2>s9, <1>3, <2>1 DEF try_create_token, Takes, Writing, Changes, Fail, TypeOK
    <2>s10. CASE WriteToken(o)
      BY <2>s10, <1>3 DEF WriteToken, Takes, Writing, Changes
    <2>s11. CASE VerifyNext(o)
      <3>1. left[o] \in SUBSET Requests
        BY DEF TypeOK
      <3> QED BY <2>s11, <2>1, <3>1, EnterControl DEF VerifyNext
    <2>s12. CASE Grant(o)
      BY <2>s12, <1>3, <2>1, <2>a DEF TypeOK, Req, Changes, Grant, Finish
    <2>s13. CASE \E cl \in held[o] : rollback_acquisitions(o, cl)
      BY <2>s13, <1>3, <2>1, <2>a DEF TypeOK, Req, Changes, rollback_acquisitions
    <2>s14. CASE RolledBack(o)
      BY <2>s14, <2>1 DEF TypeOK, ClaimsOf, RolledBack, Finish, attempt
    <2>s15. CASE ReadConflict(o)
      BY <2>s15, <1>3, <2>1, <2>a DEF TypeOK, Req, Changes, ReadConflict, Finish, attempt
    <2>s16. CASE Cleanup(o)
      BY <2>s16, <1>3, <2>1, <2>a DEF TypeOK, Req, Changes, Cleanup, ForceRemove, Fail
    <2>s17. CASE Retry(o)
      BY <2>s17, <2>1 DEF TypeOK, Retry
    <2>s18. CASE \E cl \in held[o] : release_lease_paths(o, cl)
      BY <2>s18, <1>3, <2>1, <2>a DEF TypeOK, Req, Changes, release_lease_paths, attempt
    <2>s19. CASE Released(o)
      BY <2>s19, <2>1 DEF TypeOK, ClaimsOf, Released, Finish
    <2>s20. CASE \E k \in LeaseIds : release(o, k)
      <3>1. PICK k \in LeaseIds : release(o, k)
        BY <2>s20
      <3> QED BY <2>1, <2>a, <3>1 DEF TypeOK, release, ControlOf
    <2>s21. CASE \E p \in Paths : CreateFile(o, p) \/ RemoveFile(o, p)
      BY <2>s21, <1>3, <2>1, <2>a DEF TypeOK, Req, Changes, CreateFile, RemoveFile, attempt
    <2>s22. CASE Timeout(o)
      BY <2>s22, <1>3, <2>1, <2>a DEF TypeOK, Req, Changes, Timeout, Finish
    <2>s23. CASE Crash(o)
      BY <2>s23, <1>3, <2>1, <2>a DEF TypeOK, Req, Changes, Crash
    <2>s24. CASE Expire(o)
      BY <2>s24, <1>3, <2>1, <2>a DEF TypeOK, Req, Changes, Expire, attempt
    <2> QED BY <2>s1, <2>s2, <2>s3, <2>s4, <2>s5, <2>s6, <2>s7, <2>s8, <2>s9, <2>s10, <2>s11, <2>s12, <2>s13, <2>s14, <2>s15, <2>s16, <2>s17, <2>s18, <2>s19, <2>s20, <2>s21, <2>s22, <2>s23, <2>s24 DEF OwnerStep, Step, Call
  <1> QED BY <1>1, <1>2, <1>3 DEF ClaimInv

\* What the token store holds where a request takes its token: nothing of the
\* owner's own, or a token of its own that it reuses or strengthens.
LEMMA TakesToken ==
  ASSUME TypeOK, DeadInv, ControlInv, WriteInv, BackedInv, NEW o \in Owners, OwnerStep(o),
         \E ch \in Changes : Takes(o, ch)
  PROVE  \/ /\ Takes(o, "created")
            /\ \A d \in held[o] : d.lock # acq[o]
            /\ token' = [token EXCEPT ![acq[o]] = NewToken(o, "full")]
         \/ /\ Takes(o, "reentrant")
            /\ HasToken(acq[o]) /\ token[acq[o]].owner = o
            /\ at[o].kind = "tree" => token[acq[o]].kind = "tree"
            /\ token' = token
         \/ /\ Takes(o, "upgraded")
            /\ HasToken(acq[o]) /\ token[acq[o]].owner = o
            /\ token[acq[o]].kind = "exact" /\ at[o].kind = "tree"
            /\ token' = [token EXCEPT ![acq[o]].kind = "tree"]
  <1>a. pc'[o] = "check" /\ pc[o] \in Writing
    BY TakesControl DEF Takes
  <1>b. acq[o] \in LockFiles /\ at[o] \in Requests
    BY TakesControl, LocalTypes DEF Takes, Writing, Attempting
  <1>1. CASE \E R \in Batches : acquire_batch(o, R)
    BY <1>1, <1>a DEF TypeOK, Writing, acquire_batch, EnterRequest, IsFirst
  <1>2. CASE Resolve(o)
    BY <1>2, <1>a DEF TypeOK, Writing, Resolve
  <1>3. CASE \E l \in LockFiles : CheckLock(o, l)
    BY <1>3, <1>a DEF TypeOK, Writing, CheckLock, Fail
  <1>4. CASE ensure_lock_dir(o)
    BY <1>4, <1>a DEF TypeOK, Writing, ensure_lock_dir, Fail
  <1>5. CASE TryReuse(o)
    <2>1. token[acq[o]].kind \in Kinds /\ at[o].kind \in Kinds
      BY <1>5, <1>b, TokenFields DEF TryReuse, HasToken, Requests
    <2> QED BY <1>5, <2>1 DEF TryReuse, Takes, Writing, Kinds
  <1>6. CASE TryRead(o)
    BY <1>6, <1>a DEF TypeOK, Writing, TryRead, Fail
  <1>7. CASE TakeOver(o)
    BY <1>7, <1>a DEF TypeOK, Writing, TakeOver, ForceRemove, Fail
  <1>8. CASE Unlink(o)
    BY <1>8, <1>a DEF TypeOK, Writing, Unlink, attempt
  <1>9. CASE try_create_token(o)
    <2>1. Take(o, "created") /\ token' = [token EXCEPT ![acq[o]] = NewToken(o, "full")]
      BY <1>9, <1>a DEF try_create_token, Fail, TypeOK
    <2>2. token[acq[o]] = None \/ token[acq[o]].body = "empty"
      BY <1>9, <1>a DEF try_create_token, Fail, TypeOK
    <2>3. \A d \in held[o] : d.lock # acq[o]
      BY <2>2 DEF BackedInv, Backed
    <2> QED BY <1>9, <2>1, <2>3 DEF try_create_token, Takes, Writing
  <1>10. CASE WriteToken(o)
    <2>1. token[acq[o]] = NewToken(o, "empty")
      BY <1>10 DEF WriteToken, WriteInv, NewToken
    <2>2. \A d \in held[o] : d.lock # acq[o]
      BY <2>1 DEF BackedInv, Backed, NewToken
    <2> QED BY <1>10, <2>1, <2>2 DEF WriteToken, Takes, Writing
  <1>11. CASE VerifyNext(o)
    BY <1>11, <1>a DEF TypeOK, Writing, VerifyNext, EnterRequest
  <1>12. CASE Grant(o)
    BY <1>12, <1>a DEF TypeOK, Writing, Grant, Finish
  <1>13. CASE \E c \in held[o] : rollback_acquisitions(o, c)
    BY <1>13, <1>a DEF TypeOK, Writing, rollback_acquisitions
  <1>14. CASE RolledBack(o)
    BY <1>14, <1>a DEF TypeOK, Writing, RolledBack, Finish, attempt
  <1>15. CASE ReadConflict(o)
    BY <1>15, <1>a DEF TypeOK, Writing, ReadConflict, Finish, attempt
  <1>16. CASE Cleanup(o)
    BY <1>16, <1>a DEF TypeOK, Writing, Cleanup, ForceRemove, Fail
  <1>17. CASE Retry(o)
    BY <1>17, <1>a DEF TypeOK, Writing, Retry, EnterRequest
  <1>18. CASE \E c \in held[o] : release_lease_paths(o, c)
    BY <1>18, <1>a DEF TypeOK, Writing, release_lease_paths, attempt
  <1>19. CASE Released(o)
    BY <1>19, <1>a DEF TypeOK, Writing, Released, Finish
  <1>20. CASE \E k \in LeaseIds : release(o, k)
    BY <1>20, <1>a DEF TypeOK, Writing, release
  <1>21. CASE \E p \in Paths : CreateFile(o, p) \/ RemoveFile(o, p)
    BY <1>21, <1>a DEF CreateFile, RemoveFile, Writing, attempt
  <1>22. CASE Timeout(o)
    BY <1>22, <1>a DEF TypeOK, Writing, Timeout, Finish
  <1>23. CASE Crash(o)
    BY <1>23, <1>a DEF TypeOK, Writing, Crash
  <1>24. CASE Expire(o)
    BY <1>24, <1>a DEF Expire, Writing
  <1> QED BY <1>1, <1>2, <1>3, <1>4, <1>5, <1>6, <1>7, <1>8, <1>9, <1>10, <1>11, <1>12, <1>13, <1>14, <1>15, <1>16, <1>17, <1>18, <1>19, <1>20, <1>21, <1>22, <1>23, <1>24 DEF OwnerStep, Step, Call

\* BackedInv for the owner that takes a claim.
LEMMA BackedTakes ==
  ASSUME TypeOK, DeadInv, ControlInv, WriteInv, BackedInv, NEW o \in Owners, OwnerStep(o),
         \E ch \in Changes : Takes(o, ch), NEW c \in held'[o]
  PROVE  Backed(o, c)'
  <1>a. acq[o] \in LockFiles /\ at[o] \in Requests
    BY TakesControl, LocalTypes DEF Takes, Writing, Attempting
  <1>b. \A d \in held[o] : Backed(o, d) /\ d.lock \in LockFiles
    BY DEF BackedInv, TypeOK, Claims
  <1>c. \A ch \in Changes : Takes(o, ch) =>
          c \in held[o] \/ (c.lock = acq[o] /\ c.kind = at[o].kind)
    BY TakesClaim
  <1>1. CASE /\ Takes(o, "created") /\ \A d \in held[o] : d.lock # acq[o]
             /\ token' = [token EXCEPT ![acq[o]] = NewToken(o, "full")]
    <2>1. token'[acq[o]] = NewToken(o, "full") /\ NewToken(o, "full") # None
      BY <1>1, <1>a, NewTokenType DEF TypeOK
    <2>2. \A l \in LockFiles \ {acq[o]} : token'[l] = token[l]
      BY <1>1 DEF TypeOK
    <2> QED BY <1>1, <1>b, <1>c, <2>1, <2>2 DEF Backed, NewToken, Changes
  <1>2. CASE /\ Takes(o, "reentrant") /\ HasToken(acq[o]) /\ token[acq[o]].owner = o
             /\ at[o].kind = "tree" => token[acq[o]].kind = "tree"
             /\ token' = token
    BY <1>2, <1>b, <1>c DEF Backed, HasToken, Changes
  <1>3. CASE /\ Takes(o, "upgraded") /\ HasToken(acq[o]) /\ token[acq[o]].owner = o
             /\ token' = [token EXCEPT ![acq[o]].kind = "tree"]
    <2>1. /\ token'[acq[o]] # None /\ token'[acq[o]].body = "full"
          /\ token'[acq[o]].owner = o /\ token'[acq[o]].kind = "tree"
      <3>1. token[acq[o]] \in Tokens
        BY <1>3, <1>a DEF HasToken, TypeOK
      <3>2. [token[acq[o]] EXCEPT !.kind = "tree"] \in Tokens
        BY <3>1 DEF Tokens, Kinds
      <3> QED BY <1>3, <1>a, <3>1, <3>2 DEF HasToken, TypeOK, Tokens
    <2>2. \A l \in LockFiles \ {acq[o]} : token'[l] = token[l]
      BY <1>3 DEF TypeOK
    <2> QED BY <1>3, <1>b, <1>c, <2>1, <2>2 DEF Backed, Changes
  <1> QED BY <1>1, <1>2, <1>3, TakesToken

\* Every step of an owner keeps each claim backed by a token.
LEMMA BackedStep ==
  ASSUME SafeInstance, TypeOK, DeadInv, ControlInv, WriteInv, ClaimInv, BackedInv, UndoInv,
         NEW o \in Owners, OwnerStep(o)
  PROVE  BackedInv'
  <1>1. ASSUME NEW w \in Owners, w # o, NEW c \in held'[w] PROVE Backed(w, c)'
    <2>1. c \in held[w] /\ c.lock \in LockFiles
      BY <1>1, LocalFrame DEF SameLocals, TypeOK, Claims
    <2>2. Backed(w, c) /\ w \notin expired
      BY <2>1 DEF BackedInv, DeadInv
    <2>3. token'[c.lock] = token[c.lock]
      BY <1>1, <2>1, <2>2, TokenFrame DEF Backed
    <2> QED BY <2>2, <2>3 DEF Backed
  <1>2. ASSUME \A ch \in Changes : ~Takes(o, ch), NEW c \in held'[o] PROVE Backed(o, c)'
    <2>1. c \in held[o] /\ c.lock \in LockFiles
      BY <1>2, HeldFrame DEF TypeOK, Claims
    <2>2. Backed(o, c) /\ o \notin expired
      BY <2>1 DEF BackedInv, DeadInv
    <2>a. ControlOf(o)
      BY DEF ControlInv
    <2>s1. CASE \E R \in Batches : acquire_batch(o, R)
      BY <2>s1, <2>2 DEF Backed, acquire_batch, EnterRequest, IsFirst
    <2>s2. CASE Resolve(o)
      BY <2>s2, <2>2 DEF Backed, Resolve
    <2>s3. CASE \E l \in LockFiles : CheckLock(o, l)
      BY <2>s3, <2>2 DEF Backed, CheckLock, Fail
    <2>s4. CASE ensure_lock_dir(o)
      BY <2>s4, <2>2 DEF Backed, ensure_lock_dir, Fail
    <2>s5. CASE TryReuse(o)
      BY <2>s5, <1>2 DEF TryReuse, Takes, Writing, Changes
    <2>s6. CASE TryRead(o)
      BY <2>s6, <2>2 DEF Backed, TryRead, Fail
    <2>s7. CASE TakeOver(o)
      <3>1. token'[c.lock] = token[c.lock]
        BY <2>s7, <2>1, <2>2, <2>a DEF TakeOver, ForceRemove, Backed, TypeOK, ControlOf
      <3> QED BY <2>2, <3>1 DEF Backed
    <2>s8. CASE Unlink(o)
      BY <2>s8, <2>a DEF Unlink, ControlOf
    <2>s9. CASE try_create_token(o)
      <3>1. token'[c.lock] = token[c.lock]
        BY <2>s9, <1>2, <2>1, <2>2 DEF try_create_token, Takes, Writing, Changes, Backed, TypeOK
      <3> QED BY <2>2, <3>1 DEF Backed
    <2>s10. CASE WriteToken(o)
      BY <2>s10, <1>2 DEF WriteToken, Takes, Writing, Changes
    <2>s11. CASE VerifyNext(o)
      BY <2>s11, <2>2 DEF Backed, VerifyNext, EnterRequest
    <2>s12. CASE Grant(o)
      BY <2>s12, <2>2 DEF Backed, Grant, Finish
    <2>s13. CASE \E cl \in held[o] : rollback_acquisitions(o, cl)
      <3>1. PICK e \in held[o] : rollback_acquisitions(o, e)
        BY <2>s13
      <3>2. c # e /\ e.lock \in LockFiles /\ e.lease = cur[o] /\ pc[o] # "release"
        BY <3>1, <2>1 DEF rollback_acquisitions, ClaimsOf, TypeOK, Claims
      <3>3. UndoOf(o, e)
        BY DEF UndoInv
      <3>4. CASE c.lock # e.lock
        BY <2>1, <2>2, <3>1, <3>2, <3>4 DEF rollback_acquisitions, Backed, TypeOK
      <3>5. CASE c.lock = e.lock
        <4>1. e.change # "created" /\ (e.change = "upgraded" => c.kind # "tree")
          BY <2>1, <3>2, <3>3, <3>5 DEF UndoOf
        <4>2. CASE e.change = "reentrant"
          BY <2>2, <3>1, <4>2 DEF rollback_acquisitions, Backed
        <4>3. CASE e.change = "upgraded"
          <5>1. token[c.lock] \in Tokens /\ token' = [token EXCEPT ![c.lock].kind = "exact"]
            BY <2>1, <2>2, <3>1, <3>5, <4>3 DEF rollback_acquisitions, Backed, HasToken, TypeOK
          <5>2. [token[c.lock] EXCEPT !.kind = "exact"] \in Tokens
            BY <5>1 DEF Tokens, Kinds
          <5> QED BY <2>1, <2>2, <4>1, <4>3, <5>1, <5>2 DEF Backed, TypeOK, Tokens
        <4> QED BY <3>1, <4>1, <4>2, <4>3 DEF rollback_acquisitions
      <3> QED BY <3>4, <3>5
    <2>s14. CASE RolledBack(o)
      BY <2>s14, <2>2 DEF Backed, RolledBack, Finish, attempt
    <2>s15. CASE ReadConflict(o)
      BY <2>s15, <2>2 DEF Backed, ReadConflict, Finish, attempt
    <2>s16. CASE Cleanup(o)
      <3>1. token'[c.lock] = token[c.lock]
        BY <2>s16, <2>1, <2>2, <2>a DEF Cleanup, ForceRemove, Backed, TypeOK, ControlOf
      <3> QED BY <2>2, <3>1 DEF Backed
    <2>s17. CASE Retry(o)
      BY <2>s17, <2>2 DEF Backed, Retry, EnterRequest
    <2>s18. CASE \E cl \in held[o] : release_lease_paths(o, cl)
      <3>1. PICK e \in held[o] : release_lease_paths(o, e)
        BY <2>s18
      <3>2. c # e /\ e.lock \in LockFiles /\ c.kind \in Kinds
        BY <3>1, <2>1 DEF release_lease_paths, TypeOK, Claims
      <3>3. CASE c.lock # e.lock
        BY <2>1, <2>2, <3>1, <3>2, <3>3 DEF release_lease_paths, Backed, TypeOK
      <3>4. CASE c.lock = e.lock
        <4>1. \/ token' = token
              \/ c.kind = "exact" /\ token' = [token EXCEPT ![c.lock].kind = "exact"]
          BY <2>1, <3>1, <3>2, <3>4 DEF release_lease_paths
        <4>2. token[c.lock] \in Tokens
          BY <2>1, <2>2 DEF Backed, TypeOK
        <4>3. [token[c.lock] EXCEPT !.kind = "exact"] \in Tokens
          BY <4>2 DEF Tokens, Kinds
        <4> QED BY <2>1, <2>2, <4>1, <4>2, <4>3 DEF Backed, TypeOK, Tokens
      <3> QED BY <3>3, <3>4
    <2>s19. CASE Released(o)
      BY <2>s19, <2>2 DEF Backed, Released, Finish
    <2>s20. CASE \E k \in LeaseIds : release(o, k)
      BY <2>s20, <2>2 DEF Backed, release
    <2>s21. CASE \E p \in Paths : CreateFile(o, p) \/ RemoveFile(o, p)
      BY <2>s21, <2>2 DEF Backed, CreateFile, RemoveFile, attempt
    <2>s22. CASE Timeout(o)
      BY <2>s22, <2>2 DEF Backed, Timeout, Finish
    <2>s23. CASE Crash(o)
      BY <2>s23, <2>2 DEF Backed, Crash
    <2>s24. CASE Expire(o)
      BY <2>s24, <2>2 DEF Backed, Expire, attempt
    <2> QED BY <2>s1, <2>s2, <2>s3, <2>s4, <2>s5, <2>s6, <2>s7, <2>s8, <2>s9, <2>s10, <2>s11, <2>s12, <2>s13, <2>s14, <2>s15, <2>s16, <2>s17, <2>s18, <2>s19, <2>s20, <2>s21, <2>s22, <2>s23, <2>s24 DEF OwnerStep, Step, Call
  <1>3. ASSUME \E ch \in Changes : Takes(o, ch), NEW c \in held'[o] PROVE Backed(o, c)'
    BY <1>3, BackedTakes
  <1> QED BY <1>1, <1>2, <1>3 DEF BackedInv

\* UndoInv for the owner that takes a claim.
LEMMA UndoTakes ==
  ASSUME TypeOK, DeadInv, ControlInv, WriteInv, ClaimInv, BackedInv, UndoInv,
         NEW o \in Owners, OwnerStep(o), \E ch \in Changes : Takes(o, ch)
  PROVE  \A c \in held'[o] : UndoOf(o, c)'
  <1>1. PICK ch \in Changes :
          /\ Takes(o, ch)
          /\ ch = "created" => \A d \in held[o] : d.lock # acq[o]
          /\ ch = "upgraded" => token[acq[o]].kind = "exact"
    BY TakesToken DEF Changes
  <1>2. PICK n \in Claims :
          /\ held'[o] = held[o] \cup {n}
          /\ n.lease = cur[o] /\ n.lock = acq[o] /\ n.change = ch
          /\ Req(n) = at[o] /\ n.path = at[o].path
    BY <1>1, TakesClaim
  <1>3. pc[o] \in Attempting /\ pass[o] = "acquire" /\ cur'[o] = cur[o] /\ at[o] \in want[o]
    BY <1>1, TakesControl DEF Takes, Writing, Attempting
  <1>4. ASSUME NEW c \in held[o], c.lease = cur[o] PROVE c.lock # acq[o]
    <2>1. c.lock.at = c.path /\ Req(c) \in want[o] /\ Req(c) # at[o]
      BY <1>3, <1>4 DEF ClaimInv, ClaimOf
    <2>2. acq[o].at = at[o].path
      BY <1>1, TakesControl
    <2>3. c.path # at[o].path
      BY <1>3, <2>1 DEF ControlInv, ControlOf, Req
    <2> QED BY <2>1, <2>2, <2>3
  <1>5. UndoOf(o, n)'
    BY <1>1, <1>2 DEF UndoOf, BackedInv, Backed
  <1>6. ASSUME NEW c \in held[o] PROVE UndoOf(o, c)'
    <2>1. UndoOf(o, c)
      BY DEF UndoInv
    <2>2. pc[o] # "release"
      BY <1>3 DEF Attempting
    <2> QED BY <1>2, <1>3, <1>4, <2>1, <2>2 DEF UndoOf
  <1> QED BY <1>2, <1>5, <1>6

\* Every step of an owner keeps UndoInv.
LEMMA UndoStep ==
  ASSUME TypeOK, DeadInv, ControlInv, WriteInv, ClaimInv, BackedInv, UndoInv,
         NEW o \in Owners, OwnerStep(o)
  PROVE  UndoInv'
  <1>1. ASSUME NEW w \in Owners, w # o, NEW c \in held'[w] PROVE UndoOf(w, c)'
    <2>1. SameLocals(w) /\ UndoOf(w, c)
      BY <1>1, LocalFrame DEF UndoInv, SameLocals
    <2> QED BY <2>1 DEF SameLocals, UndoOf
  <1>2. ASSUME \A ch \in Changes : ~Takes(o, ch), NEW c \in held'[o] PROVE UndoOf(o, c)'
    <2>1. held'[o] \subseteq held[o]
      BY <1>2, HeldFrame
    <2>2. UndoOf(o, c) /\ ClaimOf(o, c) /\ c.lease # None
      BY <1>2, <2>1 DEF UndoInv, ClaimInv, TypeOK, Claims
    <2>a. ControlOf(o)
      BY DEF ControlInv
    <2>3. CASE cur'[o] = cur[o] /\ (pc'[o] = "release" \/ pc[o] # "release")
      BY <2>1, <2>2, <2>3 DEF UndoOf
    <2>4. CASE c.lease # cur'[o]
      BY <2>4 DEF UndoOf
    <2>5. CASE pc'[o] = "release"
      BY <2>5 DEF UndoOf
    <2>6. \/ cur'[o] = cur[o] /\ (pc'[o] = "release" \/ pc[o] # "release")
          \/ c.lease # cur'[o]
          \/ pc'[o] = "release"
      <3>s1. CASE \E R \in Batches : acquire_batch(o, R)
        BY <3>s1, <2>2, <2>a DEF TypeOK, ControlOf, ClaimOf, acquire_batch
      <3>s2. CASE Resolve(o)
        BY <3>s2, <2>2 DEF TypeOK, Resolve
      <3>s3. CASE \E l \in LockFiles : CheckLock(o, l)
        BY <3>s3, <2>2 DEF TypeOK, CheckLock, Fail
      <3>s4. CASE ensure_lock_dir(o)
        BY <3>s4, <2>2 DEF TypeOK, ensure_lock_dir, Fail
      <3>s5. CASE TryReuse(o)
        BY <3>s5 DEF TryReuse
      <3>s6. CASE TryRead(o)
        BY <3>s6, <2>2 DEF TypeOK, TryRead, Fail
      <3>s7. CASE TakeOver(o)
        BY <3>s7, <2>2 DEF TypeOK, TakeOver, ForceRemove, Fail
      <3>s8. CASE Unlink(o)
        BY <3>s8, <2>2 DEF TypeOK, Unlink, attempt
      <3>s9. CASE try_create_token(o)
        BY <3>s9 DEF try_create_token
      <3>s10. CASE WriteToken(o)
        BY <3>s10 DEF WriteToken
      <3>s11. CASE VerifyNext(o)
        BY <3>s11, <2>2 DEF TypeOK, VerifyNext, EnterRequest
      <3>s12. CASE Grant(o)
        BY <3>s12, <2>2 DEF TypeOK, Grant, Finish
      <3>s13. CASE \E cl \in held[o] : rollback_acquisitions(o, cl)
        BY <3>s13, <2>2 DEF TypeOK, rollback_acquisitions
      <3>s14. CASE RolledBack(o)
        BY <3>s14, <2>2 DEF TypeOK, RolledBack, Finish, attempt
      <3>s15. CASE ReadConflict(o)
        BY <3>s15, <2>2 DEF TypeOK, ReadConflict, Finish, attempt
      <3>s16. CASE Cleanup(o)
        BY <3>s16, <2>2 DEF TypeOK, Cleanup, ForceRemove, Fail
      <3>s17. CASE Retry(o)
        BY <3>s17, <2>2 DEF TypeOK, Retry, EnterRequest
      <3>s18. CASE \E cl \in held[o] : release_lease_paths(o, cl)
        BY <3>s18, <2>2 DEF TypeOK, release_lease_paths, attempt
      <3>s19. CASE Released(o)
        BY <3>s19, <2>2 DEF TypeOK, Released, Finish
      <3>s20. CASE \E k \in LeaseIds : release(o, k)
        BY <3>s20, <2>2 DEF TypeOK, release
      <3>s21. CASE \E p \in Paths : CreateFile(o, p) \/ RemoveFile(o, p)
        BY <3>s21, <2>2 DEF TypeOK, CreateFile, RemoveFile, attempt
      <3>s22. CASE Timeout(o)
        BY <3>s22, <2>2 DEF TypeOK, Timeout, Finish
      <3>s23. CASE Crash(o)
        BY <3>s23, <2>2 DEF TypeOK, Crash
      <3>s24. CASE Expire(o)
        BY <3>s24, <2>2 DEF TypeOK, Expire, attempt
      <3> QED BY <3>s1, <3>s2, <3>s3, <3>s4, <3>s5, <3>s6, <3>s7, <3>s8, <3>s9, <3>s10, <3>s11, <3>s12, <3>s13, <3>s14, <3>s15, <3>s16, <3>s17, <3>s18, <3>s19, <3>s20, <3>s21, <3>s22, <3>s23, <3>s24 DEF OwnerStep, Step, Call
    <2> QED BY <2>3, <2>4, <2>5, <2>6
  <1>3. ASSUME \E ch \in Changes : Takes(o, ch), NEW c \in held'[o] PROVE UndoOf(o, c)'
    BY <1>3, UndoTakes
  <1> QED BY <1>1, <1>2, <1>3 DEF UndoInv

\* Directories stay, and so do files nobody may delete.
LEMMA NodeFrame ==
  ASSUME TypeOK, NEW p \in Paths, (\E o \in Owners : OwnerStep(o)) \/ (\E q \in Paths : Mkdir(q))
  PROVE  /\ node[p] = "dir" => node'[p] = "dir"
         /\ node[p] = "file" /\ p \notin Removable => node'[p] = "file"
  <1>1. CASE \E q \in Paths : Mkdir(q)
    BY <1>1 DEF Mkdir, TypeOK
  <1>2. ASSUME NEW o \in Owners, OwnerStep(o)
        PROVE  /\ node[p] = "dir" => node'[p] = "dir"
               /\ node[p] = "file" /\ p \notin Removable => node'[p] = "file"
    <2> USE <1>2
    <2>s1. CASE \E R \in Batches : acquire_batch(o, R)
      BY <2>s1 DEF TypeOK, acquire_batch, EnterRequest, IsFirst
    <2>s2. CASE Resolve(o)
      BY <2>s2 DEF TypeOK, Resolve
    <2>s3. CASE \E l \in LockFiles : CheckLock(o, l)
      BY <2>s3 DEF TypeOK, CheckLock, Fail
    <2>s4. CASE ensure_lock_dir(o)
      BY <2>s4 DEF TypeOK, ensure_lock_dir, Fail
    <2>s5. CASE TryReuse(o)
      BY <2>s5 DEF TypeOK, TryReuse, Take, EnterRequest
    <2>s6. CASE TryRead(o)
      BY <2>s6 DEF TypeOK, TryRead, Fail
    <2>s7. CASE TakeOver(o)
      BY <2>s7 DEF TypeOK, TakeOver, ForceRemove, Fail
    <2>s8. CASE Unlink(o)
      BY <2>s8 DEF TypeOK, Unlink, attempt
    <2>s9. CASE try_create_token(o)
      BY <2>s9 DEF TypeOK, try_create_token, Take, EnterRequest, Fail
    <2>s10. CASE WriteToken(o)
      BY <2>s10 DEF TypeOK, WriteToken, Take, EnterRequest
    <2>s11. CASE VerifyNext(o)
      BY <2>s11 DEF TypeOK, VerifyNext, EnterRequest
    <2>s12. CASE Grant(o)
      BY <2>s12 DEF TypeOK, Grant, Finish
    <2>s13. CASE \E c \in held[o] : rollback_acquisitions(o, c)
      BY <2>s13 DEF TypeOK, rollback_acquisitions
    <2>s14. CASE RolledBack(o)
      BY <2>s14 DEF TypeOK, RolledBack, Finish, attempt
    <2>s15. CASE ReadConflict(o)
      BY <2>s15 DEF TypeOK, ReadConflict, Finish, attempt
    <2>s16. CASE Cleanup(o)
      BY <2>s16 DEF TypeOK, Cleanup, ForceRemove, Fail
    <2>s17. CASE Retry(o)
      BY <2>s17 DEF TypeOK, Retry, EnterRequest
    <2>s18. CASE \E c \in held[o] : release_lease_paths(o, c)
      BY <2>s18 DEF TypeOK, release_lease_paths, attempt
    <2>s19. CASE Released(o)
      BY <2>s19 DEF TypeOK, Released, Finish
    <2>s20. CASE \E k \in LeaseIds : release(o, k)
      BY <2>s20 DEF TypeOK, release
    <2>s21. CASE \E pp \in Paths : CreateFile(o, pp) \/ RemoveFile(o, pp)
      BY <2>s21 DEF TypeOK, CreateFile, RemoveFile, attempt
    <2>s22. CASE Timeout(o)
      BY <2>s22 DEF TypeOK, Timeout, Finish
    <2>s23. CASE Crash(o)
      BY <2>s23 DEF TypeOK, Crash
    <2>s24. CASE Expire(o)
      BY <2>s24 DEF TypeOK, Expire, attempt
    <2> QED BY <2>s1, <2>s2, <2>s3, <2>s4, <2>s5, <2>s6, <2>s7, <2>s8, <2>s9, <2>s10, <2>s11, <2>s12, <2>s13, <2>s14, <2>s15, <2>s16, <2>s17, <2>s18, <2>s19, <2>s20, <2>s21, <2>s22, <2>s23, <2>s24 DEF OwnerStep, Step, Call
  <1> QED BY <1>1, <1>2

\* The directories a lock file needs are paths.
LEMMA LockDirsType == \A l \in LockFiles : LockDirs(l) \subseteq Paths
  BY PathAssumption DEF LockDirs, LockFiles

\* No step removes a directory or a file that may not be removed.
LEMMA SiteKept ==
  ASSUME TypeOK, (\E o \in Owners : OwnerStep(o)) \/ (\E q \in Paths : Mkdir(q))
  PROVE  /\ \A l \in LockFiles : InDirs(l) => InDirs(l)'
         /\ \A c \in Claims \cup Requests : \A l \in LockFiles : Sited(c, l) => Sited(c, l)'
  BY NodeFrame, LockDirsType DEF InDirs, Sited, Claims, Requests

\* Every step of an owner keeps SiteInv.
LEMMA SiteStep ==
  ASSUME SafeInstance, TypeOK, ControlInv, SiteInv, NEW o \in Owners, OwnerStep(o)
  PROVE  SiteInv'
  <1>a. ControlOf(o)
    BY DEF ControlInv
  <1>1. ASSUME NEW w \in Owners, NEW c \in held'[w] PROVE InDirs(c.lock)' /\ Sited(c, c.lock)'
    <2>1. CASE c \in held[w]
      <3>1. c \in Claims /\ c.lock \in LockFiles
        BY <2>1 DEF TypeOK, Claims
      <3> QED BY <2>1, <3>1, SiteKept DEF SiteInv
    <2>2. CASE c \notin held[w]
      <3>1. PICK ch \in Changes : w = o /\ Takes(o, ch)
        BY <1>1, <2>2, LocalFrame, HeldFrame DEF SameLocals
      <3>2. c \in Claims /\ c.lock = acq[o] /\ c.kind = at[o].kind /\ c.path = at[o].path
        BY <1>1, <2>2, <3>1, TakesClaim
      <3>3. c.lock \in LockFiles /\ acq[o] # None /\ pc[o] \in Attempting /\ pc[o] \in Writing
        BY <3>1, <3>2 DEF Claims, Takes, Writing, Attempting
      <3>4. InDirs(c.lock) /\ Sited(c, c.lock)
        BY <3>2, <3>3 DEF SiteInv, Sited
      <3> QED BY <3>2, <3>3, <3>4, SiteKept
    <2> QED BY <2>1, <2>2
  <1>2. ASSUME NEW w \in Owners, pc'[w] \in Writing
        PROVE  \A q \in LockDirs(acq'[w]) : node'[q] = "dir"
    <2>1. \/ pc[w] \in Writing /\ acq'[w] = acq[w]
          \/ w = o /\ ensure_lock_dir(o) /\ pc'[o] = "one"
      <3>1. CASE w # o
        BY <1>2, <3>1, LocalFrame DEF SameLocals
      <3>2. CASE w = o
        <4> USE <1>2, <3>2
        <4>s1. CASE \E R \in Batches : acquire_batch(o, R)
          BY <4>s1 DEF TypeOK, Writing, acquire_batch, EnterRequest, IsFirst
        <4>s2. CASE Resolve(o)
          BY <4>s2 DEF TypeOK, Writing, Resolve
        <4>s3. CASE \E l \in LockFiles : CheckLock(o, l)
          BY <4>s3 DEF TypeOK, Writing, CheckLock, Fail
        <4>s4. CASE ensure_lock_dir(o)
          BY <4>s4 DEF TypeOK, Writing, ensure_lock_dir, Fail
        <4>s5. CASE TryReuse(o)
          BY <4>s5, TakeControl DEF TryReuse, Writing
        <4>s6. CASE TryRead(o)
          BY <4>s6 DEF TryRead, Writing
        <4>s7. CASE TakeOver(o)
          BY <4>s7 DEF TakeOver, Writing
        <4>s8. CASE Unlink(o)
          BY <4>s8, <1>a DEF Unlink, ControlOf
        <4>s9. CASE try_create_token(o)
          <5>1. ~Take(o, "created")
            BY TakeControl DEF Writing
          <5> QED BY <4>s9, <5>1 DEF try_create_token, Writing
        <4>s10. CASE WriteToken(o)
          BY <4>s10, TakeControl DEF WriteToken, Writing
        <4>s11. CASE VerifyNext(o)
          BY <4>s11 DEF TypeOK, Writing, VerifyNext, EnterRequest
        <4>s12. CASE Grant(o)
          BY <4>s12 DEF TypeOK, Writing, Grant, Finish
        <4>s13. CASE \E c \in held[o] : rollback_acquisitions(o, c)
          BY <4>s13 DEF TypeOK, Writing, rollback_acquisitions
        <4>s14. CASE RolledBack(o)
          BY <4>s14 DEF TypeOK, Writing, RolledBack, Finish, attempt
        <4>s15. CASE ReadConflict(o)
          BY <4>s15 DEF TypeOK, Writing, ReadConflict, Finish, attempt
        <4>s16. CASE Cleanup(o)
          BY <4>s16 DEF TypeOK, Writing, Cleanup, ForceRemove, Fail
        <4>s17. CASE Retry(o)
          BY <4>s17 DEF TypeOK, Writing, Retry, EnterRequest
        <4>s18. CASE \E c \in held[o] : release_lease_paths(o, c)
          BY <4>s18 DEF TypeOK, Writing, release_lease_paths, attempt
        <4>s19. CASE Released(o)
          BY <4>s19 DEF TypeOK, Writing, Released, Finish
        <4>s20. CASE \E k \in LeaseIds : release(o, k)
          BY <4>s20 DEF TypeOK, Writing, release
        <4>s21. CASE \E p \in Paths : CreateFile(o, p) \/ RemoveFile(o, p)
          BY <4>s21 DEF TypeOK, Writing, CreateFile, RemoveFile, attempt
        <4>s22. CASE Timeout(o)
          BY <4>s22 DEF TypeOK, Writing, Timeout, Finish
        <4>s23. CASE Crash(o)
          BY <4>s23 DEF TypeOK, Writing, Crash
        <4>s24. CASE Expire(o)
          BY <4>s24 DEF TypeOK, Writing, Expire, attempt
        <4> QED BY <4>s1, <4>s2, <4>s3, <4>s4, <4>s5, <4>s6, <4>s7, <4>s8, <4>s9, <4>s10, <4>s11, <4>s12, <4>s13, <4>s14, <4>s15, <4>s16, <4>s17, <4>s18, <4>s19, <4>s20, <4>s21, <4>s22, <4>s23, <4>s24 DEF OwnerStep, Step, Call
      <3> QED BY <3>1, <3>2
    <2>2. CASE pc[w] \in Writing /\ acq'[w] = acq[w]
      <3>1. acq[w] \in LockFiles
        BY <2>2, LocalTypes
      <3>2. InDirs(acq[w])
        BY <2>2 DEF SiteInv
      <3>3. ASSUME NEW l \in LockFiles, InDirs(l) PROVE \A q \in LockDirs(l) : node'[q] = "dir"
        BY <3>3, SiteKept DEF InDirs
      <3> QED BY <2>2, <3>1, <3>2, <3>3
    <2>3. CASE w = o /\ ensure_lock_dir(o) /\ pc'[o] = "one"
      <3>1. acq'[o] = acq[o] /\ acq[o] \in LockFiles
        BY <2>3 DEF ensure_lock_dir, TypeOK
      <3>2. \A q \in Paths : q \in LockDirs(acq[o]) => node'[q] = "dir"
        BY <2>3 DEF ensure_lock_dir, Fail, TypeOK
      <3> QED BY <2>3, <3>1, <3>2, LockDirsType
    <2> QED BY <2>1, <2>2, <2>3
  <1>3. ASSUME NEW w \in Owners, pc'[w] \in Attempting, acq'[w] # None
        PROVE  at'[w].kind = "tree" /\ acq'[w].form = "exact" =>
                 node'[at'[w].path] = "file" /\ at'[w].path \notin Removable
    <2>1. \/ pc[w] \in Attempting /\ acq'[w] = acq[w] /\ at'[w] = at[w]
          \/ w = o /\ Resolve(o)
      <3>1. CASE w # o
        BY <1>3, <3>1, LocalFrame DEF SameLocals
      <3>2. CASE w = o
        <4> USE <1>3, <3>2
        <4>s1. CASE \E R \in Batches : acquire_batch(o, R)
          BY <4>s1 DEF TypeOK, Attempting, acquire_batch, EnterRequest, IsFirst
        <4>s2. CASE Resolve(o)
          BY <4>s2 DEF TypeOK, Attempting, Resolve
        <4>s3. CASE \E l \in LockFiles : CheckLock(o, l)
          BY <4>s3 DEF TypeOK, Attempting, CheckLock, Fail
        <4>s4. CASE ensure_lock_dir(o)
          BY <4>s4 DEF TypeOK, Attempting, ensure_lock_dir, Fail
        <4>s5. CASE TryReuse(o)
          BY <4>s5, TakeControl DEF TryReuse
        <4>s6. CASE TryRead(o)
          BY <4>s6 DEF TryRead, Attempting
        <4>s7. CASE TakeOver(o)
          BY <4>s7 DEF TakeOver, Attempting
        <4>s8. CASE Unlink(o)
          BY <4>s8, <1>a DEF Unlink, ControlOf
        <4>s9. CASE try_create_token(o)
          <5>1. ~Take(o, "created")
            BY TakeControl
          <5> QED BY <4>s9, <5>1 DEF try_create_token, Attempting
        <4>s10. CASE WriteToken(o)
          BY <4>s10, TakeControl DEF WriteToken
        <4>s11. CASE VerifyNext(o)
          BY <4>s11 DEF TypeOK, Attempting, VerifyNext, EnterRequest
        <4>s12. CASE Grant(o)
          BY <4>s12 DEF TypeOK, Attempting, Grant, Finish
        <4>s13. CASE \E c \in held[o] : rollback_acquisitions(o, c)
          BY <4>s13 DEF TypeOK, Attempting, rollback_acquisitions
        <4>s14. CASE RolledBack(o)
          BY <4>s14 DEF TypeOK, Attempting, RolledBack, Finish, attempt
        <4>s15. CASE ReadConflict(o)
          BY <4>s15 DEF TypeOK, Attempting, ReadConflict, Finish, attempt
        <4>s16. CASE Cleanup(o)
          BY <4>s16 DEF TypeOK, Attempting, Cleanup, ForceRemove, Fail
        <4>s17. CASE Retry(o)
          BY <4>s17 DEF TypeOK, Attempting, Retry, EnterRequest
        <4>s18. CASE \E c \in held[o] : release_lease_paths(o, c)
          BY <4>s18 DEF TypeOK, Attempting, release_lease_paths, attempt
        <4>s19. CASE Released(o)
          BY <4>s19 DEF TypeOK, Attempting, Released, Finish
        <4>s20. CASE \E k \in LeaseIds : release(o, k)
          BY <4>s20 DEF TypeOK, Attempting, release
        <4>s21. CASE \E p \in Paths : CreateFile(o, p) \/ RemoveFile(o, p)
          BY <4>s21 DEF TypeOK, Attempting, CreateFile, RemoveFile, attempt
        <4>s22. CASE Timeout(o)
          BY <4>s22 DEF TypeOK, Attempting, Timeout, Finish
        <4>s23. CASE Crash(o)
          BY <4>s23 DEF TypeOK, Attempting, Crash
        <4>s24. CASE Expire(o)
          BY <4>s24 DEF TypeOK, Attempting, Expire, attempt
        <4> QED BY <4>s1, <4>s2, <4>s3, <4>s4, <4>s5, <4>s6, <4>s7, <4>s8, <4>s9, <4>s10, <4>s11, <4>s12, <4>s13, <4>s14, <4>s15, <4>s16, <4>s17, <4>s18, <4>s19, <4>s20, <4>s21, <4>s22, <4>s23, <4>s24 DEF OwnerStep, Step, Call
      <3> QED BY <3>1, <3>2
    <2>2. CASE pc[w] \in Attempting /\ acq'[w] = acq[w] /\ at'[w] = at[w]
      <3>1. acq[w] \in LockFiles /\ at[w] \in Requests
        BY <1>3, <2>2, LocalTypes DEF TypeOK
      <3>2. Sited(at[w], acq[w])
        BY <1>3, <2>2 DEF SiteInv
      <3>3. ASSUME NEW r \in Requests, NEW l \in LockFiles, Sited(r, l)
            PROVE  r.kind = "tree" /\ l.form = "exact" => node'[r.path] = "file" /\ r.path \notin Removable
        BY <3>3, SiteKept DEF Sited
      <3> QED BY <2>2, <3>1, <3>2, <3>3
    <2>3. CASE w = o /\ Resolve(o)
      <3>1. at'[o] = at[o] /\ node' = node /\ acq'[o] = resolve_lock_path(at[o]) /\ at[o] \in Requests
            /\ at[o] \in want[o]
        BY <2>3, <1>a, LocalTypes DEF Resolve, TypeOK, ControlOf, Attempting
      <3>2. at[o].kind = "tree" => at[o].path \notin Removable
        BY <1>a, <3>1 DEF ControlOf
      <3> QED BY <2>3, <3>1, <3>2 DEF resolve_lock_path, path_lock_path, Requests, Kinds
    <2> QED BY <2>1, <2>2, <2>3
  <1> QED BY <1>1, <1>2, <1>3 DEF SiteInv, InDirs, Sited

\* Where two claims conflict, each one's checks read the other's lock file.
LEMMA Geometry ==
  ASSUME NEW c \in Claims, NEW d \in Claims, NEW n,
         c.lock.at = c.path, d.lock.at = d.path, Conflicting(c, d),
         \A q \in LockDirs(c.lock) : n[q] = "dir",
         d.kind = "tree" /\ d.lock.form = "exact" => n[d.path] = "file"
  PROVE  d.lock \in ToCheck(Req(c))
  <1>a. /\ c.lock \in LockFiles /\ d.lock \in LockFiles
        /\ d.lock = path_lock_path(d.path) \/ d.lock = prefixed_exact_lock_path(d.path)
        /\ Anc[c.path] \subseteq LockDirs(c.lock) /\ c.path \in Paths
    BY DEF Claims, LockFiles, path_lock_path, prefixed_exact_lock_path, LockDirs
  <1>b. Req(c).path = c.path /\ Req(c).kind = c.kind
    BY DEF Req
  <1>1. CASE c.path = d.path
    BY <1>1, <1>a, <1>b DEF ToCheck, resolve_exact_conflict_paths
  <1>2. CASE c.kind = "tree" /\ c.path \in Anc[d.path]
    BY <1>2, <1>a, <1>b DEF ToCheck, scan_descendant_locks
  <1>3. CASE d.kind = "tree" /\ d.path \in Anc[c.path]
    <2>1. n[d.path] = "dir"
      BY <1>3, <1>a
    <2>2. d.lock = path_lock_path(d.path)
      BY <1>3, <1>a, <2>1 DEF prefixed_exact_lock_path
    <2> QED BY <1>3, <1>b, <2>2 DEF ToCheck, AncestorLocks
  <1> QED BY <1>1, <1>2, <1>3 DEF Conflicting

\* A claim whose lock file lets a check pass does not conflict.
LEMMA PassedCheck ==
  ASSUME TypeOK, DeadInv, BackedInv, ClaimInv, NEW o \in Owners, NEW w \in Owners, o # w,
         NEW c \in held[o], NEW d \in held[w], Conflicting(c, d),
         ~Blocks(o, Req(c), d.lock)
  PROVE  FALSE
  <1>1. Backed(w, d) /\ d.lock.at = d.path /\ w \notin expired
    BY DEF BackedInv, ClaimInv, ClaimOf, DeadInv
  <1>2. Req(c).path = c.path /\ c.path \in Paths /\ d.path \in Paths
    BY DEF Req, TypeOK, Claims
  <1>3. d.path \in Anc[c.path] /\ token[d.lock].kind # "tree"
    BY <1>1, <1>2 DEF Blocks, HasToken, is_stale, Backed
  <1>4. d.kind # "tree"
    BY <1>1, <1>3 DEF Backed
  <1>5. c.path # d.path /\ c.path \notin Anc[d.path]
    BY <1>2, <1>3, PathAssumption
  <1> QED BY <1>4, <1>5 DEF Conflicting

\* Only reading a lock file makes it verified.
LEMMA VerifiedBefore ==
  ASSUME TypeOK, ControlInv, ClaimInv, NEW o \in Owners, OwnerStep(o),
         \A ch \in Changes : ~Takes(o, ch), NEW c \in held'[o], NEW l,
         Verified(o, c, l)'
  PROVE  \/ Verified(o, c, l)
         \/ CheckLock(o, l) /\ Req(c) = at[o] /\ ~Blocks(o, at[o], l)
         \/ Req(c) = at'[o] /\ l \notin ToCheck(at'[o])
  <1>c. c \in held[o] /\ ClaimOf(o, c) /\ c.lease # None
    BY HeldFrame DEF ClaimInv, TypeOK, Claims
  <1>a. ControlOf(o)
    BY DEF ControlInv
  <1> USE DEF Verified
  <1>1. CASE \E R \in Batches : acquire_batch(o, R)
    BY <1>1, <1>c, <1>a DEF TypeOK, acquire_batch, EnterRequest, IsFirst, ControlOf, ClaimOf
  <1>2. CASE Resolve(o)
    BY <1>2 DEF Resolve, ResolveDue
  <1>3. CASE \E lf \in LockFiles : CheckLock(o, lf)
    <2>1. PICK m \in LockFiles : CheckLock(o, m)
      BY <1>3
    <2>2. CASE todo' = [todo EXCEPT ![o] = @ \ {m}] /\ UNCHANGED <<pc, err>> /\ ~Blocks(o, at[o], m)
      <3>1. /\ pc'[o] = pc[o] /\ todo'[o] = todo[o] \ {m} /\ pass'[o] = pass[o]
            /\ left'[o] = left[o] /\ at'[o] = at[o] /\ granted'[o] = granted[o]
        BY <2>1, <2>2 DEF CheckLock, TypeOK
      <3> QED BY <2>1, <2>2, <3>1
    <2>3. CASE pc'[o] = "rollback"
      BY <2>1, <2>3 DEF CheckLock
    <2> QED BY <2>1, <2>2, <2>3 DEF CheckLock, Fail, TypeOK
  <1>4. CASE ensure_lock_dir(o)
    BY <1>4, <1>c DEF TypeOK, ensure_lock_dir, Fail
  <1>5. CASE TryReuse(o)
    BY <1>5 DEF TryReuse, Takes, Writing, Changes
  <1>6. CASE TryRead(o)
    BY <1>6, <1>c DEF TypeOK, TryRead, Fail
  <1>7. CASE TakeOver(o)
    BY <1>7, <1>c DEF TypeOK, TakeOver, ForceRemove, Fail
  <1>8. CASE Unlink(o)
    BY <1>8, <1>c DEF TypeOK, Unlink, attempt
  <1>9. CASE try_create_token(o)
    BY <1>9 DEF try_create_token, Takes, Writing, Changes, Fail, TypeOK
  <1>10. CASE WriteToken(o)
    BY <1>10 DEF WriteToken, Takes, Writing, Changes
  <1>11. CASE VerifyNext(o)
    <2>1. left[o] \in SUBSET Requests
      BY DEF TypeOK
    <2>2. /\ pc[o] = "check" /\ pass[o] = "verify" /\ todo[o] = {} /\ granted'[o] = granted[o]
          /\ left'[o] = left[o] \ {at'[o]} /\ todo'[o] = ToCheck(at'[o])
      BY <1>11, <2>1, EnterControl DEF VerifyNext
    <2> QED BY <1>c, <2>2
  <1>12. CASE Grant(o)
    <2>1. granted'[o] = granted[o] \cup {cur[o]} /\ pc'[o] = "idle"
      BY <1>12 DEF Grant, Finish, TypeOK
    <2> QED BY <1>12, <1>c, <2>1 DEF Grant
  <1>13. CASE \E cl \in held[o] : rollback_acquisitions(o, cl)
    BY <1>13, <1>c DEF TypeOK, rollback_acquisitions
  <1>14. CASE RolledBack(o)
    BY <1>14, <1>c DEF TypeOK, RolledBack, Finish, attempt
  <1>15. CASE ReadConflict(o)
    BY <1>15, <1>c DEF TypeOK, ReadConflict, Finish, attempt
  <1>16. CASE Cleanup(o)
    BY <1>16, <1>c DEF TypeOK, Cleanup, ForceRemove, Fail
  <1>17. CASE Retry(o)
    BY <1>17, <1>c, <1>a DEF Retry, EnterRequest, TypeOK
  <1>18. CASE \E cl \in held[o] : release_lease_paths(o, cl)
    BY <1>18, <1>c DEF TypeOK, release_lease_paths, attempt
  <1>19. CASE Released(o)
    BY <1>19, <1>c DEF TypeOK, Released, Finish
  <1>20. CASE \E k \in LeaseIds : release(o, k)
    BY <1>20, <1>c DEF TypeOK, release
  <1>21. CASE \E p \in Paths : CreateFile(o, p) \/ RemoveFile(o, p)
    BY <1>21, <1>c DEF TypeOK, CreateFile, RemoveFile, attempt
  <1>22. CASE Timeout(o)
    BY <1>22, <1>c DEF TypeOK, Timeout, Finish
  <1>23. CASE Crash(o)
    BY <1>23 DEF Crash, TypeOK
  <1>24. CASE Expire(o)
    BY <1>24, <1>c DEF TypeOK, Expire, attempt
  <1> QED BY <1>1, <1>2, <1>3, <1>4, <1>5, <1>6, <1>7, <1>8, <1>9, <1>10, <1>11, <1>12, <1>13, <1>14, <1>15, <1>16, <1>17, <1>18, <1>19, <1>20, <1>21, <1>22, <1>23, <1>24 DEF OwnerStep, Step, Call

\* Every step of an owner keeps the heart of the proof.
LEMMA ExclusionStep ==
  ASSUME TypeOK, DeadInv, ControlInv, ClaimInv, BackedInv, ExclusionInv,
         NEW o \in Owners, OwnerStep(o), TypeOK', ClaimInv', SiteInv'
  PROVE  ExclusionInv'
  <1>1. ASSUME NEW w \in Owners, w # o, NEW c \in held'[o], NEW d \in held'[w], Conflicting(c, d),
               Verified(o, c, d.lock)', Verified(w, d, c.lock)'
        PROVE  FALSE
    <2>1. SameLocals(w) /\ d \in held[w] /\ Verified(w, d, c.lock)
      BY <1>1, LocalFrame DEF SameLocals, Verified
    <2>2. d.lock \in ToCheck(Req(c))
      <3>1. c \in Claims /\ d \in Claims
        BY <1>1 DEF TypeOK
      <3>2. c.lock.at = c.path /\ d.lock.at = d.path
        BY <1>1 DEF ClaimInv, ClaimOf
      <3>3. /\ \A q \in LockDirs(c.lock) : node'[q] = "dir"
            /\ d.kind = "tree" /\ d.lock.form = "exact" => node'[d.path] = "file"
        BY <1>1 DEF SiteInv, InDirs, Sited
      <3> QED BY <1>1, <3>1, <3>2, <3>3, Geometry
    <2>3. CASE \E ch \in Changes : Takes(o, ch)
      <3>1. PICK ch \in Changes : Takes(o, ch)
        BY <2>3
      <3>2. c.lease \notin granted'[o]
        <4>1. PICK n \in Claims : held'[o] = held[o] \cup {n} /\ n.lease = cur[o]
          BY <3>1, TakesClaim
        <4>2. CASE c \in held[o]
          <5>1. CASE Verified(o, c, d.lock)
            BY <1>1, <2>1, <4>2, <5>1 DEF ExclusionInv
          <5>2. CASE ~Verified(o, c, d.lock)
            BY <3>1, <5>2, TakesControl DEF Verified
          <5> QED BY <5>1, <5>2
        <4>3. CASE c = n
          BY <3>1, <4>1, <4>3, TakesControl
        <4> QED BY <1>1, <4>1, <4>2, <4>3
      <3>3. c.lease = cur'[o] /\ pc'[o] = "check" /\ Req(c) \in want'[o]
        BY <1>1, <3>1, <3>2, TakesControl DEF ClaimInv, ClaimOf, Attempting
      <3>4. pass'[o] = "verify" /\ Req(c) \notin left'[o] /\ (Req(c) = at'[o] => d.lock \notin todo'[o])
        BY <1>1, <3>2 DEF Verified
      <3>5. left'[o] = want'[o] \ {at'[o]} /\ todo'[o] = ToCheck(at'[o])
        BY <3>1, <3>4, TakesControl
      <3> QED BY <2>2, <3>3, <3>4, <3>5
    <2>4. CASE \A ch \in Changes : ~Takes(o, ch)
      <3>1. c \in held[o]
        BY <1>1, <2>4, HeldFrame
      <3>2. \/ Verified(o, c, d.lock)
            \/ CheckLock(o, d.lock) /\ Req(c) = at[o] /\ ~Blocks(o, at[o], d.lock)
            \/ Req(c) = at'[o] /\ d.lock \notin ToCheck(at'[o])
        BY <1>1, <2>4, VerifiedBefore
      <3>3. CASE Verified(o, c, d.lock)
        BY <1>1, <2>1, <3>1, <3>3 DEF ExclusionInv
      <3>4. CASE Req(c) = at[o] /\ ~Blocks(o, at[o], d.lock)
        <4>1. ~Blocks(o, Req(c), d.lock)
          BY <3>4
        <4> QED BY <1>1, <2>1, <3>1, <4>1, PassedCheck
      <3> QED BY <2>2, <3>2, <3>3, <3>4
    <2> QED BY <2>3, <2>4
  <1>2. ASSUME NEW w \in Owners, NEW x \in Owners, w # o, x # o, w # x,
               NEW c \in held'[w], NEW d \in held'[x], Conflicting(c, d)
        PROVE  ~Verified(w, c, d.lock)' \/ ~Verified(x, d, c.lock)'
    BY <1>2, LocalFrame DEF SameLocals, Verified, ExclusionInv
  <1>3. \A c, d : Conflicting(c, d) => Conflicting(d, c)
    BY DEF Conflicting
  <1> QED BY <1>1, <1>2, <1>3 DEF ExclusionInv

-----------------------------------------------------------------------------
(* The invariant holds initially and every step keeps it *)

\* The inductive invariant holds initially.
LEMMA InvInit == Init => Inv
  <1> SUFFICES ASSUME Init PROVE Inv
    OBVIOUS
  <1>1. TypeOK
    BY InputAssumption DEF Init, TypeOK, PCs
  <1>2. DeadInv /\ WriteInv /\ ClaimInv /\ BackedInv /\ UndoInv /\ ExclusionInv
    BY DEF Init, DeadInv, WriteInv, ClaimInv, BackedInv, UndoInv, ExclusionInv
  <1>3. ControlInv
    BY DEF Init, ControlInv, ControlOf, Attempting, Writing
  <1>4. SiteInv
    BY DEF Init, SiteInv, Attempting, Writing
  <1> QED BY <1>1, <1>2, <1>3, <1>4 DEF Inv

\* mkdir changes only the file tree, which only SiteInv reads.
LEMMA InvMkdir ==
  ASSUME Inv, NEW q \in Paths, Mkdir(q)
  PROVE  Inv'
  <1>1. TypeOK'
    BY TypeStep DEF Inv, Next
  <1>2. UNCHANGED <<token, expired, pc, pass, want, left, at, todo, acq, seen, err, cur,
                    held, granted>>
    BY DEF Mkdir, attempt
  <1>3. DeadInv' /\ ControlInv'
    BY <1>2 DEF Inv, DeadInv, ControlInv, ControlOf
  <1>4. WriteInv' /\ ClaimInv'
    BY <1>2 DEF Inv, WriteInv, ClaimInv, ClaimOf
  <1>5. BackedInv' /\ UndoInv'
    BY <1>2 DEF Inv, BackedInv, Backed, UndoInv, UndoOf
  <1>6. ExclusionInv'
    BY <1>2 DEF Inv, ExclusionInv, Verified
  <1>7. SiteInv'
    <2>1. ASSUME NEW w \in Owners, NEW c \in held[w] PROVE InDirs(c.lock)' /\ Sited(c, c.lock)'
      <3>1. c \in Claims /\ c.lock \in LockFiles
        BY DEF Inv, TypeOK, Claims
      <3> QED BY <3>1, SiteKept DEF Inv, SiteInv
    <2>2. ASSUME NEW w \in Owners, pc[w] \in Writing
          PROVE  \A p \in LockDirs(acq[w]) : node'[p] = "dir"
      <3>1. acq[w] \in LockFiles
        BY <2>2, LocalTypes DEF Inv
      <3>2. PICK l \in LockFiles : l = acq[w]
        BY <3>1
      <3>3. InDirs(l)
        BY <2>2, <3>2 DEF Inv, SiteInv
      <3> QED BY <3>2, <3>3, SiteKept DEF Inv, InDirs
    <2>3. ASSUME NEW w \in Owners, pc[w] \in Attempting, acq[w] # None,
                 at[w].kind = "tree", acq[w].form = "exact"
          PROVE  node'[at[w].path] = "file" /\ at[w].path \notin Removable
      <3>1. at[w] \in Requests /\ acq[w] \in LockFiles
        BY <2>3, LocalTypes DEF Inv, TypeOK
      <3>2. node[at[w].path] = "file" /\ at[w].path \notin Removable /\ at[w].path \in Paths
        BY <2>3, <3>1 DEF Inv, SiteInv, Sited, Requests
      <3> QED BY <3>2, NodeFrame DEF Inv
    <2> QED BY <1>2, <2>1, <2>2, <2>3 DEF SiteInv, InDirs, Sited
  <1> QED BY <1>1, <1>3, <1>4, <1>5, <1>6, <1>7 DEF Inv

\* Every step of a safe instance keeps the inductive invariant.
LEMMA InvStep == SafeInstance /\ Inv /\ [Next]_vars => Inv'
  <1> SUFFICES ASSUME SafeInstance, Inv, [Next]_vars PROVE Inv'
    OBVIOUS
  <1>1. CASE UNCHANGED vars
    <2>1. TypeOK'
      BY TypeStep DEF Inv
    <2>2. DeadInv' /\ ControlInv' /\ WriteInv'
      BY <1>1 DEF Inv, vars, DeadInv, ControlInv, ControlOf, WriteInv
    <2>3. ClaimInv' /\ BackedInv' /\ UndoInv'
      BY <1>1 DEF Inv, vars, ClaimInv, ClaimOf, BackedInv, Backed, UndoInv, UndoOf
    <2>4. SiteInv' /\ ExclusionInv'
      BY <1>1 DEF Inv, vars, SiteInv, InDirs, Sited, ExclusionInv, Verified
    <2> QED BY <2>1, <2>2, <2>3, <2>4 DEF Inv
  <1>2. ASSUME NEW o \in Owners, OwnerStep(o) PROVE Inv'
    <2>1. TypeOK'
      BY TypeStep DEF Inv
    <2>2. DeadInv' /\ ControlInv' /\ WriteInv' /\ ClaimInv'
      BY <1>2, DeadStep, ControlStep, WriteStep, ClaimStep DEF Inv
    <2>3. BackedInv' /\ UndoInv' /\ SiteInv'
      BY <1>2, BackedStep, UndoStep, SiteStep DEF Inv
    <2>4. ExclusionInv'
      BY <1>2, <2>1, <2>2, <2>3, ExclusionStep DEF Inv
    <2> QED BY <2>1, <2>2, <2>3, <2>4 DEF Inv
  <1> QED BY <1>1, <1>2, InvMkdir DEF Next, OwnerStep

\* Every reachable state of a safe instance satisfies the inductive invariant.
THEOREM Invariance ==
  ASSUME SafeInstance PROVE Spec => []Inv
  <1>1. Inv /\ [Next]_vars => Inv'
    BY InvStep
  <1> QED BY <1>1, InvInit, PTL DEF Spec

\* Type correctness: every variable of the acquisition protocol keeps its type.
THEOREM TypeCorrect ==
  ASSUME SafeInstance PROVE Spec => []TypeOK
  <1>1. Inv => TypeOK
    BY DEF Inv
  <1> QED BY <1>1, Invariance, PTL

\* Write exclusion: in every safe instance, however many owners, paths and
\* batches it has, leases granted by acquire_batch to two live owners never
\* overlap.
THEOREM Exclusion ==
  ASSUME SafeInstance PROVE Spec => []MutualExclusion
  <1>1. Inv => MutualExclusion
    BY DEF Inv, ExclusionInv, Verified, MutualExclusion, GrantedClaims
  <1> QED BY <1>1, Invariance, PTL

-----------------------------------------------------------------------------
(* An action property from the same invariant *)

\* An attempt takes each of its claims once.
LEMMA TakesNew ==
  ASSUME TypeOK, ControlInv, ClaimInv, NEW o \in Owners, NEW ch \in Changes, Takes(o, ch)
  PROVE  held'[o] # held[o]
  <1>1. PICK n \in Claims : held'[o] = held[o] \cup {n} /\ n.lease = cur[o] /\ Req(n) = at[o]
    BY TakesClaim
  <1>2. pc[o] \in Attempting /\ pass[o] = "acquire"
    BY TakesControl DEF Takes, Writing, Attempting
  <1> QED BY <1>1, <1>2 DEF ClaimInv, ClaimOf

\* An owner changes a token of its own only together with a claim.
LEMMA OwnTokenStep ==
  ASSUME SafeInstance, Inv, NEW o \in Owners, OwnerStep(o), NEW l \in LockFiles,
         token[l] # None, token[l].body = "full", token[l].owner = o, o \notin expired,
         token'[l] # token[l]
  PROVE  held'[o] # held[o]
  <1> USE DEF Inv
  <1>a. ControlOf(o)
    BY DEF ControlInv
  <1>b. SUFFICES ASSUME \A ch \in Changes : ~Takes(o, ch) PROVE held'[o] # held[o]
    BY TakesNew
  <1>1. CASE \E R \in Batches : acquire_batch(o, R)
    BY <1>1 DEF acquire_batch, EnterRequest, IsFirst
  <1>2. CASE Resolve(o)
    BY <1>2 DEF Resolve
  <1>3. CASE \E lf \in LockFiles : CheckLock(o, lf)
    BY <1>3 DEF CheckLock, Fail
  <1>4. CASE ensure_lock_dir(o)
    BY <1>4 DEF ensure_lock_dir, Fail
  <1>5. CASE TryReuse(o)
    BY <1>b, <1>5 DEF TryReuse, Takes, Writing, Changes
  <1>6. CASE TryRead(o)
    BY <1>6 DEF TryRead, Fail
  <1>7. CASE TakeOver(o)
    BY <1>7, <1>a DEF TakeOver, ForceRemove, ControlOf, TypeOK
  <1>8. CASE Unlink(o)
    BY <1>8, <1>a DEF Unlink, ControlOf
  <1>9. CASE try_create_token(o)
    BY <1>9 DEF try_create_token, Takes, Writing, Changes, Take, is_stale, TypeOK
  <1>10. CASE WriteToken(o)
    BY <1>b, <1>10 DEF WriteToken, Takes, Writing, Changes
  <1>11. CASE VerifyNext(o)
    BY <1>11 DEF VerifyNext, EnterRequest
  <1>12. CASE Grant(o)
    BY <1>12 DEF Grant, Finish
  <1>13. CASE \E c \in held[o] : rollback_acquisitions(o, c)
    BY <1>13 DEF rollback_acquisitions, TypeOK
  <1>14. CASE RolledBack(o)
    BY <1>14 DEF RolledBack, Finish, attempt
  <1>15. CASE ReadConflict(o)
    BY <1>15 DEF ReadConflict, Finish, attempt
  <1>16. CASE Cleanup(o)
    BY <1>16, <1>a DEF Cleanup, ForceRemove, ControlOf, TypeOK
  <1>17. CASE Retry(o)
    BY <1>17 DEF Retry, EnterRequest
  <1>18. CASE \E c \in held[o] : release_lease_paths(o, c)
    BY <1>18 DEF release_lease_paths, TypeOK
  <1>19. CASE Released(o)
    BY <1>19 DEF Released, Finish
  <1>20. CASE \E k \in LeaseIds : release(o, k)
    BY <1>20 DEF release
  <1>21. CASE \E p \in Paths : CreateFile(o, p) \/ RemoveFile(o, p)
    BY <1>21 DEF CreateFile, RemoveFile, attempt
  <1>22. CASE Timeout(o)
    BY <1>22 DEF Timeout, Finish
  <1>23. CASE Crash(o)
    BY <1>23 DEF Crash
  <1>24. CASE Expire(o)
    BY <1>24 DEF Expire, attempt
  <1> QED BY <1>1, <1>2, <1>3, <1>4, <1>5, <1>6, <1>7, <1>8, <1>9, <1>10, <1>11, <1>12, <1>13, <1>14, <1>15, <1>16, <1>17, <1>18, <1>19, <1>20, <1>21, <1>22, <1>23, <1>24 DEF OwnerStep, Step, Call

\* A step of a safe instance never changes or removes the token of a live owner
\* unless that owner's own claims change: neither another contender's takeover
\* or cleanup of a stale token nor another owner's rollback or release does.
THEOREM OwnersKeepTokens ==
  ASSUME SafeInstance PROVE Spec => OthersTokensKept
  <1>1. ASSUME Inv, [Next]_vars, NEW l \in LockFiles,
               HasToken(l), Alive(token[l].owner), token'[l] # token[l]
        PROVE  held'[token[l].owner] # held[token[l].owner]
    <2>1. PICK w \in Owners : w = token[l].owner
      BY <1>1, TokenFields DEF Inv, HasToken
    <2>2. w \notin expired
      BY <1>1, <2>1 DEF Inv, DeadInv, Alive
    <2>3. ASSUME NEW o \in Owners, OwnerStep(o) PROVE held'[w] # held[w]
      <3>1. w = o
        BY <1>1, <2>1, <2>2, <2>3, TokenFrame DEF Inv, HasToken
      <3> QED BY <1>1, <2>1, <2>2, <2>3, <3>1, OwnTokenStep DEF HasToken
    <2>4. CASE UNCHANGED vars
      BY <1>1, <2>4 DEF vars
    <2>5. CASE \E p \in Paths : Mkdir(p)
      BY <1>1, <2>5 DEF Mkdir
    <2> QED BY <1>1, <2>1, <2>3, <2>4, <2>5 DEF Next, OwnerStep
  <1>2. Inv /\ [Next]_vars =>
          [\A l \in LockFiles :
             HasToken(l) /\ Alive(token[l].owner) /\ token'[l] # token[l]
               => held'[token[l].owner] # held[token[l].owner]]_vars
    BY <1>1
  <1> QED BY <1>2, Invariance, PTL DEF Spec, OthersTokensKept

-----------------------------------------------------------------------------
(* Tokens and leases *)

\* A token of a live owner is the one it is about to write, or is needed by a claim
\* as strong as itself.
OwnedBy(o, l) ==
  token[l] # None /\ token[l].owner = o /\ pc[o] # "dead" =>
    \/ pc[o] = "write" /\ l = acq[o]
    \/ \E c \in held[o] : c.lock = l /\ (token[l].kind = "tree" => c.kind = "tree")

OwnedInv == \A o \in Owners : \A l \in LockFiles : OwnedBy(o, l)

\* A token that the attempt under way found and reused is needed by an earlier
\* lease; as a TREE token, if it was one.
Supports(c, d) == d.lock = c.lock /\ (c.change = "reentrant" /\ c.kind = "tree" => d.kind = "tree")

ReusedOf(o, c) ==
  c.lease = cur[o] /\ pc[o] # "release" /\ c.change # "created" =>
    \E d \in held[o] : d.lease \in granted[o] /\ Supports(c, d)

ReusedInv == \A o \in Owners : \A c \in held[o] : ReusedOf(o, c)

Exact == OwnedInv /\ ReusedInv

\* What a step that takes no claim does to the claims and to the lease under way.
LEMMA AttemptFrame ==
  ASSUME TypeOK, ControlInv, NEW o \in Owners, OwnerStep(o), \A ch \in Changes : ~Takes(o, ch)
  PROVE  \/ cur'[o] = None
         \/ pc'[o] = "release"
         \/ cur[o] = None /\ cur'[o] \notin granted[o]
         \/ /\ cur'[o] = cur[o] /\ granted'[o] = granted[o] /\ pc[o] # "release"
            /\ \A d \in held[o] : d.lease # cur[o] => d \in held'[o]
  <1>a. ControlOf(o)
    BY DEF ControlInv
  <1>1. CASE \E R \in Batches : acquire_batch(o, R)
    BY <1>1, <1>a DEF TypeOK, ControlOf, acquire_batch, EnterRequest, IsFirst
  <1>2. CASE Resolve(o)
    BY <1>2, <1>a DEF TypeOK, ControlOf, Resolve
  <1>3. CASE \E l \in LockFiles : CheckLock(o, l)
    BY <1>3, <1>a DEF TypeOK, ControlOf, CheckLock, Fail
  <1>4. CASE ensure_lock_dir(o)
    BY <1>4, <1>a DEF TypeOK, ControlOf, ensure_lock_dir, Fail
  <1>5. CASE TryReuse(o)
    BY <1>5 DEF TryReuse, Takes, Writing, Changes
  <1>6. CASE TryRead(o)
    BY <1>6, <1>a DEF TypeOK, ControlOf, TryRead, Fail
  <1>7. CASE TakeOver(o)
    BY <1>7, <1>a DEF TypeOK, ControlOf, TakeOver, ForceRemove, Fail
  <1>8. CASE Unlink(o)
    BY <1>8, <1>a DEF Unlink, ControlOf
  <1>9. CASE try_create_token(o)
    BY <1>9, <1>a DEF try_create_token, Takes, Writing, Changes, Fail, TypeOK
  <1>10. CASE WriteToken(o)
    BY <1>10 DEF WriteToken, Takes, Writing, Changes
  <1>11. CASE VerifyNext(o)
    BY <1>11, <1>a DEF TypeOK, ControlOf, VerifyNext, EnterRequest
  <1>12. CASE Grant(o)
    BY <1>12, <1>a DEF TypeOK, ControlOf, Grant, Finish
  <1>13. CASE \E c \in held[o] : rollback_acquisitions(o, c)
    BY <1>13, <1>a DEF TypeOK, ControlOf, rollback_acquisitions, ClaimsOf
  <1>14. CASE RolledBack(o)
    BY <1>14, <1>a DEF TypeOK, ControlOf, RolledBack, Finish, attempt
  <1>15. CASE ReadConflict(o)
    BY <1>15, <1>a DEF TypeOK, ControlOf, ReadConflict, Finish, attempt
  <1>16. CASE Cleanup(o)
    BY <1>16, <1>a DEF TypeOK, ControlOf, Cleanup, ForceRemove, Fail
  <1>17. CASE Retry(o)
    BY <1>17, <1>a DEF TypeOK, ControlOf, Retry, EnterRequest
  <1>18. CASE \E c \in held[o] : release_lease_paths(o, c)
    BY <1>18, <1>a DEF TypeOK, ControlOf, release_lease_paths, attempt
  <1>19. CASE Released(o)
    BY <1>19, <1>a DEF TypeOK, ControlOf, Released, Finish
  <1>20. CASE \E k \in LeaseIds : release(o, k)
    BY <1>20, <1>a DEF TypeOK, ControlOf, release
  <1>21. CASE \E p \in Paths : CreateFile(o, p) \/ RemoveFile(o, p)
    BY <1>21, <1>a DEF TypeOK, ControlOf, CreateFile, RemoveFile, attempt
  <1>22. CASE Timeout(o)
    BY <1>22, <1>a DEF TypeOK, ControlOf, Timeout, Finish
  <1>23. CASE Crash(o)
    BY <1>23, <1>a DEF TypeOK, ControlOf, Crash
  <1>24. CASE Expire(o)
    BY <1>24, <1>a DEF TypeOK, ControlOf, Expire, attempt
  <1> QED BY <1>1, <1>2, <1>3, <1>4, <1>5, <1>6, <1>7, <1>8, <1>9, <1>10, <1>11, <1>12, <1>13, <1>14, <1>15, <1>16, <1>17, <1>18, <1>19, <1>20, <1>21, <1>22, <1>23, <1>24 DEF OwnerStep, Step, Call

\* What a step that takes no claim does to the tokens.
LEMMA TokenSteps ==
  ASSUME TypeOK, ControlInv, NEW o \in Owners, OwnerStep(o), \A ch \in Changes : ~Takes(o, ch)
  PROVE  \/ token' = token /\ pc'[o] = "dead"
         \/ /\ token' = token /\ held'[o] = held[o]
            /\ pc[o] = "write" => pc'[o] = "write" /\ acq'[o] = acq[o]
            /\ pc[o] = "dead" => pc'[o] = "dead"
         \/ /\ held'[o] = held[o] /\ pc[o] \notin {"write", "dead"}
            /\ \A l \in LockFiles : token'[l] = token[l] \/ token'[l] = None
         \/ /\ held'[o] = held[o] /\ pc[o] = "create" /\ pc'[o] = "write" /\ acq'[o] = acq[o]
            /\ token' = [token EXCEPT ![acq[o]] = NewToken(o, "empty")]
         \/ \E c \in held[o] : rollback_acquisitions(o, c)
         \/ \E c \in held[o] : release_lease_paths(o, c)
  <1>a. ControlOf(o)
    BY DEF ControlInv
  <1>1. CASE \E R \in Batches : acquire_batch(o, R)
    BY <1>1, <1>a DEF TypeOK, acquire_batch, EnterRequest, IsFirst
  <1>2. CASE Resolve(o)
    BY <1>2, <1>a DEF TypeOK, Resolve
  <1>3. CASE \E l \in LockFiles : CheckLock(o, l)
    BY <1>3, <1>a DEF TypeOK, CheckLock, Fail
  <1>4. CASE ensure_lock_dir(o)
    BY <1>4, <1>a DEF TypeOK, ensure_lock_dir, Fail
  <1>5. CASE TryReuse(o)
    BY <1>5 DEF TryReuse, Takes, Writing, Changes
  <1>6. CASE TryRead(o)
    BY <1>6, <1>a DEF TypeOK, TryRead, Fail
  <1>7. CASE TakeOver(o)
    BY <1>7, <1>a DEF TypeOK, TakeOver, ForceRemove, Fail
  <1>8. CASE Unlink(o)
    BY <1>8, <1>a DEF Unlink, ControlOf
  <1>9. CASE try_create_token(o)
    BY <1>9 DEF try_create_token, Takes, Writing, Changes, Fail, TypeOK
  <1>10. CASE WriteToken(o)
    BY <1>10 DEF WriteToken, Takes, Writing, Changes
  <1>11. CASE VerifyNext(o)
    BY <1>11, <1>a DEF TypeOK, VerifyNext, EnterRequest
  <1>12. CASE Grant(o)
    BY <1>12, <1>a DEF TypeOK, Grant, Finish
  <1>13. CASE \E c \in held[o] : rollback_acquisitions(o, c)
    BY <1>13
  <1>14. CASE RolledBack(o)
    BY <1>14, <1>a DEF TypeOK, RolledBack, Finish, attempt
  <1>15. CASE ReadConflict(o)
    BY <1>15, <1>a DEF TypeOK, ReadConflict, Finish, attempt
  <1>16. CASE Cleanup(o)
    BY <1>16, <1>a DEF TypeOK, Cleanup, ForceRemove, Fail
  <1>17. CASE Retry(o)
    BY <1>17, <1>a DEF TypeOK, Retry, EnterRequest
  <1>18. CASE \E c \in held[o] : release_lease_paths(o, c)
    BY <1>18
  <1>19. CASE Released(o)
    BY <1>19, <1>a DEF TypeOK, Released, Finish
  <1>20. CASE \E k \in LeaseIds : release(o, k)
    BY <1>20, <1>a DEF TypeOK, release
  <1>21. CASE \E p \in Paths : CreateFile(o, p) \/ RemoveFile(o, p)
    BY <1>21, <1>a DEF TypeOK, CreateFile, RemoveFile, attempt
  <1>22. CASE Timeout(o)
    BY <1>22, <1>a DEF TypeOK, Timeout, Finish
  <1>23. CASE Crash(o)
    BY <1>23, <1>a DEF TypeOK, Crash
  <1>24. CASE Expire(o)
    BY <1>24, <1>a DEF TypeOK, Expire, attempt
  <1> QED BY <1>1, <1>2, <1>3, <1>4, <1>5, <1>6, <1>7, <1>8, <1>9, <1>10, <1>11, <1>12, <1>13, <1>14, <1>15, <1>16, <1>17, <1>18, <1>19, <1>20, <1>21, <1>22, <1>23, <1>24 DEF OwnerStep, Step, Call

\* Where a request reuses a token, an earlier lease needs it.
LEMMA ReusedNew ==
  ASSUME Inv, Exact, NEW o \in Owners, pc[o] \in Writing \ {"write"},
         HasToken(acq[o]), token[acq[o]].owner = o
  PROVE  \E d \in held[o] : /\ d.lease \in granted[o] /\ d.lock = acq[o]
                            /\ token[acq[o]].kind = "tree" => d.kind = "tree"
  <1>1. acq[o] \in LockFiles /\ pc[o] \in Attempting /\ pc[o] \notin {"dead", "write"}
    BY LocalTypes DEF Inv, Writing, Attempting
  <1>2. OwnedBy(o, acq[o])
    BY <1>1 DEF Exact, OwnedInv
  <1>3. PICK d \in held[o] : d.lock = acq[o] /\ (token[acq[o]].kind = "tree" => d.kind = "tree")
    BY <1>1, <1>2 DEF OwnedBy, HasToken
  <1>4. ControlOf(o) /\ ClaimOf(o, d)
    BY DEF Inv, ControlInv, ClaimInv
  <1>5. d.path = at[o].path /\ at[o] \in want[o] /\ pass[o] = "acquire"
    BY <1>1, <1>3, <1>4 DEF ControlOf, ClaimOf
  <1>6. d.lease # cur[o]
    BY <1>1, <1>4, <1>5 DEF ControlOf, ClaimOf, Req
  <1> QED BY <1>3, <1>4, <1>6 DEF ClaimOf

LEMMA WritingEmpty ==
  ASSUME Inv, NEW o \in Owners, pc[o] = "write"
  PROVE  token[acq[o]].body = "empty"
  <1>1. token[acq[o]] = [owner |-> o, kind |-> at[o].kind, body |-> "empty"]
    BY DEF Inv, WriteInv
  <1> QED BY <1>1

\* The tokens of an owner that takes a claim.
LEMMA OwnedTakes ==
  ASSUME Inv, Exact, NEW o \in Owners, OwnerStep(o), \E ch \in Changes : Takes(o, ch), NEW l \in LockFiles
  PROVE  OwnedBy(o, l)'
  <1>a. acq[o] \in LockFiles /\ at[o] \in Requests /\ pc[o] # "dead"
    BY TakesControl, LocalTypes DEF Inv, Takes, Writing, Attempting
  <1>b. PICK n \in Claims : held'[o] = held[o] \cup {n} /\ n.lock = acq[o] /\ n.kind = at[o].kind
    BY TakesClaim DEF Inv
  <1>c. OwnedBy(o, l)
    BY DEF Exact, OwnedInv
  <1>d. pc[o] = "write" => token[acq[o]].body = "empty"
    BY WritingEmpty
  <1>1. CASE l = acq[o]
    <2>1. CASE token' = [token EXCEPT ![acq[o]] = NewToken(o, "full")]
      <3>1. token'[l].kind = at[o].kind
        BY <1>1, <1>a, <2>1 DEF Inv, TypeOK, NewToken
      <3> QED BY <1>1, <1>b, <3>1 DEF OwnedBy
    <2>2. CASE token' = token /\ HasToken(acq[o]) /\ token[acq[o]].owner = o
      <3>1. pc[o] # "write"
        BY <1>d, <2>2 DEF HasToken
      <3> QED BY <1>1, <1>a, <1>b, <1>c, <2>2, <3>1 DEF OwnedBy
    <2>3. CASE at[o].kind = "tree"
      BY <1>1, <1>b, <2>3 DEF OwnedBy
    <2> QED BY <2>1, <2>2, <2>3, TakesToken DEF Inv
  <1>2. CASE l # acq[o]
    <2>1. token'[l] = token[l]
      BY <1>2, <1>a, TakesToken DEF Inv, TypeOK
    <2> QED BY <1>2, <1>a, <1>b, <1>c, <2>1 DEF OwnedBy
  <1> QED BY <1>1, <1>2

LEMMA ReusedTakes ==
  ASSUME Inv, Exact, NEW o \in Owners, OwnerStep(o), \E ch \in Changes : Takes(o, ch), NEW c \in held'[o]
  PROVE  ReusedOf(o, c)'
  <1>1. PICK ch \in Changes :
          /\ Takes(o, ch)
          /\ ch # "created" =>
               /\ HasToken(acq[o]) /\ token[acq[o]].owner = o
               /\ ch = "reentrant" /\ at[o].kind = "tree" => token[acq[o]].kind = "tree"
    BY TakesToken DEF Inv, Changes
  <1>2. PICK n \in Claims : /\ held'[o] = held[o] \cup {n} /\ n.lock = acq[o] /\ n.kind = at[o].kind
                            /\ n.change = ch
    BY <1>1, TakesClaim DEF Inv
  <1>3. cur'[o] = cur[o] /\ granted'[o] = granted[o] /\ pc[o] # "release" /\ pc[o] \in Writing
    BY <1>1, TakesControl DEF Inv, Takes, Writing
  <1>4. CASE c \in held[o]
    <2>1. ReusedOf(o, c)
      BY <1>4 DEF Exact, ReusedInv
    <2> QED BY <1>2, <1>3, <2>1 DEF ReusedOf, Supports
  <1>5. CASE c = n /\ ch # "created"
    <2>1. pc[o] = "write" => token[acq[o]].body = "empty"
      BY WritingEmpty
    <2>2. pc[o] # "write"
      BY <1>1, <1>5, <2>1 DEF HasToken
    <2>3. PICK d \in held[o] : /\ d.lease \in granted[o] /\ d.lock = acq[o]
                               /\ token[acq[o]].kind = "tree" => d.kind = "tree"
      BY <1>1, <1>3, <1>5, <2>2, ReusedNew
    <2>4. Supports(c, d)
      BY <1>1, <1>2, <1>5, <2>3 DEF Supports
    <2> QED BY <1>2, <1>3, <2>3, <2>4 DEF ReusedOf
  <1>6. CASE c = n /\ ch = "created"
    BY <1>2, <1>6 DEF ReusedOf
  <1> QED BY <1>2, <1>4, <1>5, <1>6

\* A claim is undone or given back: what is left of its token is what the owner's
\* other claims need.
LEMMA OwnedRollback ==
  ASSUME Inv, Exact, NEW o \in Owners, NEW e \in held[o], rollback_acquisitions(o, e), NEW l \in LockFiles
  PROVE  OwnedBy(o, l)'
  <1>1. /\ pc[o] = "rollback" /\ pc' = pc /\ held'[o] = held[o] \ {e}
        /\ e.lease = cur[o] /\ e.lock \in LockFiles /\ cur[o] \notin granted[o]
    BY DEF rollback_acquisitions, ClaimsOf, Inv, TypeOK, Claims, ControlInv, ControlOf
  <1>2. OwnedBy(o, l) /\ ReusedOf(o, e) /\ Backed(o, e)
    BY DEF Exact, OwnedInv, ReusedInv, Inv, BackedInv
  <1>3. CASE l # e.lock
    <2>1. token'[l] = token[l]
      BY <1>1, <1>3 DEF rollback_acquisitions, Inv, TypeOK
    <2> QED BY <1>1, <1>2, <1>3, <2>1 DEF OwnedBy
  <1>4. CASE l = e.lock /\ e.change = "created"
    <2>1. token'[l] = None
      BY <1>1, <1>2, <1>4 DEF rollback_acquisitions, Backed, HasToken, Inv, TypeOK
    <2> QED BY <2>1 DEF OwnedBy
  <1>5. CASE l = e.lock /\ e.change # "created"
    <2>1. PICK d \in held[o] : d.lease \in granted[o] /\ Supports(e, d)
      BY <1>1, <1>2, <1>5 DEF ReusedOf
    <2>2. d \in held'[o] /\ d.lock = l
      BY <1>1, <1>5, <2>1 DEF Supports
    <2>3. CASE e.change = "reentrant"
      <3>1. token' = token
        BY <2>3 DEF rollback_acquisitions
      <3> QED BY <1>1, <1>2, <1>5, <2>1, <2>2, <2>3, <3>1 DEF OwnedBy, Supports
    <2>4. CASE e.change = "upgraded"
      <3>1. token[l] \in Tokens /\ token' = [token EXCEPT ![l].kind = "exact"]
        BY <1>1, <1>2, <1>5, <2>4 DEF rollback_acquisitions, Backed, HasToken, Inv, TypeOK
      <3>2. token'[l].kind = "exact"
        BY <1>1, <1>5, <3>1 DEF Inv, TypeOK, Tokens
      <3> QED BY <1>1, <2>2, <3>2 DEF OwnedBy
    <2> QED BY <1>5, <2>3, <2>4 DEF rollback_acquisitions
  <1> QED BY <1>3, <1>4, <1>5

LEMMA OwnedRelease ==
  ASSUME Inv, Exact, NEW o \in Owners, NEW e \in held[o], release_lease_paths(o, e), NEW l \in LockFiles
  PROVE  OwnedBy(o, l)'
  <1> DEFINE rest == {d \in held[o] \ {e} : d.lock = e.lock}
  <1>1. /\ pc[o] = "release" /\ pc' = pc /\ held'[o] = held[o] \ {e} /\ e.lock \in LockFiles
        /\ \A d \in held[o] : d.kind \in Kinds
    BY DEF release_lease_paths, Inv, TypeOK, Claims
  <1>2. OwnedBy(o, l) /\ Backed(o, e)
    BY DEF Exact, OwnedInv, Inv, BackedInv
  <1>3. CASE l # e.lock
    <2>1. token'[l] = token[l]
      BY <1>1, <1>3 DEF release_lease_paths, Inv, TypeOK
    <2> QED BY <1>1, <1>2, <1>3, <2>1 DEF OwnedBy
  <1>4. CASE l = e.lock
    <2>1. HasToken(l) /\ token[l].owner = o /\ token[l] \in Tokens
      BY <1>1, <1>2, <1>4 DEF Backed, HasToken, Inv, TypeOK
    <2>2. CASE rest = {}
      <3>1. token' = [token EXCEPT ![l] = None]
        BY <1>4, <2>1, <2>2 DEF release_lease_paths
      <3> QED BY <3>1 DEF OwnedBy, Inv, TypeOK
    <2>3. CASE rest # {} /\ \A d \in rest : d.kind = "exact"
      <3>1. token' = [token EXCEPT ![l].kind = "exact"]
        BY <1>4, <2>1, <2>3 DEF release_lease_paths
      <3>2. token'[l].kind = "exact"
        BY <2>1, <3>1 DEF Inv, TypeOK, Tokens
      <3> QED BY <1>1, <1>4, <2>3, <3>2 DEF OwnedBy
    <2>4. CASE \E d \in rest : d.kind = "tree"
      BY <1>1, <1>4, <2>4 DEF OwnedBy
    <2> QED BY <1>1, <2>2, <2>3, <2>4 DEF Kinds
  <1> QED BY <1>3, <1>4

\* Nobody writes a token in the name of another owner.
LEMMA ForeignTokens ==
  ASSUME Inv, NEW o \in Owners, OwnerStep(o), NEW l \in LockFiles, token'[l] # None, token'[l].owner # o
  PROVE  token'[l] = token[l]
  <1>1. CASE \E ch \in Changes : Takes(o, ch)
    <2>1. acq[o] \in LockFiles
      BY <1>1, TakesControl DEF Inv
    <2>2. CASE token' = [token EXCEPT ![acq[o]] = NewToken(o, "full")]
      BY <2>1, <2>2 DEF NewToken, Inv, TypeOK
    <2>3. CASE HasToken(acq[o]) /\ token[acq[o]].owner = o /\ token' = [token EXCEPT ![acq[o]].kind = "tree"]
      <3>1. token[acq[o]] \in Tokens
        BY <2>1, <2>3 DEF HasToken, Inv, TypeOK
      <3>2. token'[acq[o]].owner = o
        BY <2>1, <2>3, <3>1 DEF Inv, TypeOK, Tokens
      <3> QED BY <2>1, <2>3, <3>2 DEF Inv, TypeOK
    <2> QED BY <1>1, <2>2, <2>3, TakesToken DEF Inv
  <1>2. CASE \A ch \in Changes : ~Takes(o, ch)
    <2>1. CASE pc[o] = "create" /\ token' = [token EXCEPT ![acq[o]] = NewToken(o, "empty")]
      BY <2>1 DEF NewToken, Inv, TypeOK
    <2>2. ASSUME NEW e \in held[o], rollback_acquisitions(o, e) \/ release_lease_paths(o, e)
          PROVE  token'[l] = token[l]
      <3>1. Backed(o, e) /\ e.lock \in LockFiles /\ token[e.lock] \in Tokens
        BY DEF Inv, BackedInv, Backed, TypeOK, Claims
      <3>2. \/ token' = token \/ token' = [token EXCEPT ![e.lock] = None]
            \/ token' = [token EXCEPT ![e.lock].kind = "exact"]
        BY <2>2 DEF rollback_acquisitions, release_lease_paths
      <3>3. token' = [token EXCEPT ![e.lock].kind = "exact"] => token'[e.lock].owner = o
        BY <3>1 DEF Backed, Inv, TypeOK, Tokens
      <3> QED BY <3>1, <3>2, <3>3 DEF Inv, TypeOK
    <2> QED BY <1>2, <2>1, <2>2, TokenSteps DEF Inv
  <1> QED BY <1>1, <1>2

\* Every step of an owner keeps its tokens and those of the others exact.
LEMMA ExactStep ==
  ASSUME Inv, Exact, NEW o \in Owners, OwnerStep(o)
  PROVE  Exact'
  <1>1. ASSUME NEW w \in Owners, w # o, NEW l \in LockFiles PROVE OwnedBy(w, l)'
    <2>1. SameLocals(w)
      BY <1>1, LocalFrame DEF Inv
    <2>2. CASE token'[l] = token[l]
      <3>1. OwnedBy(w, l)
        BY DEF Exact, OwnedInv
      <3> QED BY <2>1, <2>2, <3>1 DEF SameLocals, OwnedBy
    <2>3. CASE token'[l] # None /\ token'[l].owner = w
      BY <1>1, <2>2, <2>3, ForeignTokens
    <2> QED BY <2>3 DEF OwnedBy
  <1>2. ASSUME NEW w \in Owners, w # o, NEW c \in held'[w] PROVE ReusedOf(w, c)'
    <2>1. SameLocals(w)
      BY <1>2, LocalFrame DEF Inv
    <2>2. ReusedOf(w, c)
      BY <1>2, <2>1 DEF Exact, ReusedInv, SameLocals
    <2> QED BY <2>1, <2>2 DEF SameLocals, ReusedOf, Supports
  <1>3. ASSUME \A ch \in Changes : ~Takes(o, ch), NEW l \in LockFiles PROVE OwnedBy(o, l)'
    <2>1. OwnedBy(o, l)
      BY DEF Exact, OwnedInv
    <2>2. CASE pc'[o] = "dead"
      BY <2>2 DEF OwnedBy
    <2>3. CASE /\ token' = token /\ held'[o] = held[o]
               /\ pc[o] = "write" => pc'[o] = "write" /\ acq'[o] = acq[o]
               /\ pc[o] = "dead" => pc'[o] = "dead"
      BY <2>1, <2>3 DEF OwnedBy
    <2>4. CASE /\ held'[o] = held[o] /\ pc[o] \notin {"write", "dead"}
               /\ \A k \in LockFiles : token'[k] = token[k] \/ token'[k] = None
      BY <2>1, <2>4 DEF OwnedBy
    <2>5. CASE /\ held'[o] = held[o] /\ pc[o] = "create" /\ pc'[o] = "write" /\ acq'[o] = acq[o]
               /\ token' = [token EXCEPT ![acq[o]] = NewToken(o, "empty")]
      <3>1. l # acq[o] => token'[l] = token[l]
        BY <2>5 DEF Inv, TypeOK
      <3> QED BY <2>1, <2>5, <3>1 DEF OwnedBy
    <2> QED BY <1>3, <2>2, <2>3, <2>4, <2>5, TokenSteps, OwnedRollback, OwnedRelease DEF Inv
  <1>4. ASSUME \A ch \in Changes : ~Takes(o, ch), NEW c \in held'[o] PROVE ReusedOf(o, c)'
    <2>1. c \in held[o] /\ c.lease # None
      BY <1>4, HeldFrame DEF Inv, TypeOK, Claims
    <2>2. ReusedOf(o, c) /\ ClaimOf(o, c) /\ ControlOf(o)
      BY <2>1 DEF Exact, ReusedInv, Inv, ClaimInv, ControlInv
    <2>3. CASE cur'[o] = None \/ pc'[o] = "release"
      BY <2>1, <2>3 DEF ReusedOf
    <2>4. CASE cur[o] = None /\ cur'[o] \notin granted[o]
      BY <2>1, <2>2, <2>4 DEF ReusedOf, ClaimOf
    <2>5. CASE /\ cur'[o] = cur[o] /\ granted'[o] = granted[o] /\ pc[o] # "release"
               /\ \A d \in held[o] : d.lease # cur[o] => d \in held'[o]
      <3>1. cur[o] \notin granted[o]
        BY <2>2 DEF ControlOf
      <3> QED BY <2>2, <2>5, <3>1 DEF ReusedOf, Supports
    <2> QED BY <1>4, <2>3, <2>4, <2>5, AttemptFrame DEF Inv
  <1>5. \A w \in Owners : \A l \in LockFiles : OwnedBy(w, l)'
    BY <1>1, <1>3, OwnedTakes
  <1>6. \A w \in Owners : \A c \in held'[w] : ReusedOf(w, c)'
    BY <1>2, <1>4, ReusedTakes
  <1> QED BY <1>5, <1>6 DEF Exact, OwnedInv, ReusedInv

\* All or nothing: in every safe instance a live owner without an operation under
\* way has exactly the tokens its leases need, of the kind they need, whatever
\* batches failed, were rolled back half way, nested, upgraded or were released.
THEOREM TokensExact ==
  ASSUME SafeInstance PROVE Spec => []TokensMatchLeases
  <1>1. ASSUME Init PROVE Exact
    BY <1>1 DEF Init, Exact, OwnedInv, OwnedBy, ReusedInv
  <1>2. ASSUME Inv, Exact, [Next]_vars PROVE Exact'
    <2>1. CASE UNCHANGED vars \/ \E p \in Paths : Mkdir(p)
      <3>1. UNCHANGED <<token, pc, acq, cur, held, granted>>
        BY <2>1 DEF vars, Mkdir, attempt
      <3> QED BY <1>2, <3>1 DEF Exact, OwnedInv, OwnedBy, ReusedInv, ReusedOf, Supports
    <2> QED BY <1>2, <2>1, ExactStep DEF Next, OwnerStep
  <1>3. ASSUME Inv, Exact PROVE TokensMatchLeases
    <2> SUFFICES ASSUME NEW o \in Owners, pc[o] = "idle", NEW l \in LockFiles
                 PROVE  LET cs == {c \in GrantedClaims(o) : c.lock = l}
                        IN  IF cs = {} THEN token[l] = None \/ token[l].owner # o
                            ELSE token[l] = [owner |-> o, body |-> "full",
                                             kind |-> IF \E c \in cs : c.kind = "tree" THEN "tree" ELSE "exact"]
      BY DEF TokensMatchLeases
    <2> DEFINE cs == {c \in GrantedClaims(o) : c.lock = l}
    <2>1. cur[o] = None /\ \A c \in held[o] : c.lease # None /\ ClaimOf(o, c) /\ Backed(o, c)
      BY <1>3 DEF Inv, TypeOK, Claims, ControlInv, ControlOf, ClaimInv, BackedInv
    <2>2. GrantedClaims(o) = held[o]
      BY <2>1 DEF GrantedClaims, ClaimOf
    <2>3. OwnedBy(o, l)
      BY <1>3 DEF Exact, OwnedInv
    <2>4. CASE cs = {}
      BY <2>2, <2>3, <2>4 DEF OwnedBy
    <2>5. CASE cs # {}
      <3>1. token[l] \in Tokens /\ token[l].owner = o /\ token[l].body = "full"
        BY <1>3, <2>1, <2>2, <2>5 DEF Backed, Inv, TypeOK
      <3>2. (\E c \in cs : c.kind = "tree") <=> token[l].kind = "tree"
        BY <2>1, <2>2, <2>3, <3>1 DEF Backed, OwnedBy
      <3>3. token[l].kind = IF \E c \in cs : c.kind = "tree" THEN "tree" ELSE "exact"
        BY <3>1, <3>2 DEF Tokens, Kinds
      <3> HIDE DEF cs
      <3>4. token[l] = [owner |-> o, body |-> "full",
                        kind |-> IF \E c \in cs : c.kind = "tree" THEN "tree" ELSE "exact"]
        BY <3>1, <3>3 DEF Tokens
      <3> QED BY <2>5, <3>4 DEF cs
    <2> QED BY <2>4, <2>5
  <1> QED BY <1>1, <1>2, <1>3, Invariance, PTL DEF Spec

=============================================================================
