------------------------------ MODULE PathLock ------------------------------
(***************************************************************************)
(* The acquisition protocol of the ragfs path lock: several owners, each   *)
(* running PathLockManager::acquire_batch (crates/ragfs/src/lock/manager.rs)*)
(* over one shared token store (provider.rs), interleaved at every call of *)
(* the store.                                                              *)
(*                                                                         *)
(* A lease is a batch of requests; a request locks one path, EXACT (the    *)
(* path itself) or TREE (the path and all below it).  An attempt checks    *)
(* every lock file that could hold a conflicting token, writes its own     *)
(* token, and, once it has a token for every request, checks everything    *)
(* again; any conflict rolls the whole attempt back.                       *)
(*                                                                         *)
(* Time is abstracted to one fact per owner: whether the tokens it left    *)
(* behind are older than lock_expire.  A live owner's tokens are refreshed *)
(* every lock_expire / 3, so only a dead owner's tokens ever expire.       *)
(***************************************************************************)
EXTENDS Naturals

CONSTANTS
  Owners,      \* owner ids: one per chain of reentrant leases
  Paths,       \* the paths requests name; "/" itself is left out
  Anc,         \* Anc[p]: the strict ancestors of p
  Rank,        \* Rank[p]: place of p in the (length, text) order of requests
  Batches,     \* the raw request batches a caller may ask for
  LeaseIds,    \* lease refs an owner may use at a time
  InitNodes,   \* initial file trees, [Paths -> NodeKinds]
  Crashable,   \* owners that may die (process crash or dropped future)
  Removable,   \* files their lock holder may delete
  Provider,    \* "memory" or "filesystem"
  None         \* absence of a token, a lock file, a lease, ...

Kinds     == {"exact", "tree"}
NodeKinds == {"missing", "file", "dir"}
Requests  == [path : Paths, kind : Kinds]

\* form "path": <at>/.path.ovlock; form "exact": the sidecar .exact.ovlock.*
\* of <at> in its parent directory.
LockFiles == [at : Paths, form : {"path", "exact"}]

\* A token file; its body is empty between its creation and the write of its text.
Tokens    == [owner : Owners, kind : Kinds, body : {"empty", "full"}]
Changes   == {"created", "reentrant", "upgraded"}
Claims    == [lease : LeaseIds, path : Paths, kind : Kinds, lock : LockFiles,
              change : Changes]
Errors    == [why : {"conflict", "empty", "fatal"}, lock : LockFiles,
              during : {"acquire", "verify"}]

ASSUME PathAssumption ==
  /\ Anc \in [Paths -> SUBSET Paths]
  /\ \A p \in Paths : p \notin Anc[p] /\ \A q \in Anc[p] : Anc[q] \subseteq Anc[p]
  /\ Rank \in [Paths -> Nat]
  /\ \A p, q \in Paths : Rank[p] = Rank[q] => p = q
  /\ \A p \in Paths : \A q \in Anc[p] : Rank[q] < Rank[p]

ASSUME InputAssumption ==
  /\ Batches \subseteq SUBSET Requests
  /\ InitNodes \subseteq [Paths -> NodeKinds]
  /\ \A n \in InitNodes : \A p \in Paths :
       n[p] # "missing" => \A q \in Anc[p] : n[q] = "dir"
  /\ Crashable \subseteq Owners
  /\ Removable \subseteq Paths
  /\ Provider \in {"memory", "filesystem"}

ASSUME NoneAssumption ==
  None \notin Owners \cup LeaseIds \cup LockFiles \cup Requests \cup Tokens \cup Errors

VARIABLES
  node,     \* node[p]: what the file tree holds at p
  token,    \* token[l]: the token in lock file l, or None
  expired,  \* dead owners whose tokens are older than lock_expire
  pc,       \* pc[o]: where o's operation stands
  pass,     \* pass[o]: "acquire" or "verify", the two passes of an attempt
  want,     \* want[o]: the normalized batch
  left,     \* left[o]: requests of this pass after the current one
  at,       \* at[o]: the current request
  todo,     \* todo[o]: lock files the current request has still to check
  acq,      \* acq[o]: the lock file resolved for the current request
  seen,     \* seen[o]: the stale token a forced removal is aimed at
  err,      \* err[o]: why the attempt failed
  cur,      \* cur[o]: the lease being acquired or released
  held,     \* held[o]: claims with a token taken and not given back
  granted   \* granted[o]: leases returned to the caller and not released

vars == <<node, token, expired, pc, pass, want, left, at, todo, acq, seen, err,
          cur, held, granted>>
attempt == <<pass, want, left, at, todo, acq, seen, err, cur>>

-----------------------------------------------------------------------------
(* Lock files: LockPathResolver and scan_descendant_locks *)

path_lock_path(p)           == [at |-> p, form |-> "path"]
prefixed_exact_lock_path(p) == [at |-> p, form |-> "exact"]

\* Wrong variant: the sidecar of the path is forgotten.
ConflictPathsNoSidecar(p) == {path_lock_path(p)}

resolve_exact_conflict_paths(p) == {path_lock_path(p), prefixed_exact_lock_path(p)}

\* The token a request writes goes into one lock file, chosen by one stat.
resolve_lock_path(r) ==
  IF r.kind = "exact"
    THEN IF node[r.path] = "dir" THEN path_lock_path(r.path)
                                 ELSE prefixed_exact_lock_path(r.path)
    ELSE IF node[r.path] = "file" THEN prefixed_exact_lock_path(r.path)
                                  ELSE path_lock_path(r.path)

AncestorLocks(p) == {path_lock_path(q) : q \in Anc[p]}
scan_descendant_locks(p) ==
  {l \in LockFiles : p \in Anc[l.at] \/ l = path_lock_path(p)}

\* Every lock file a request reads in one pass.
ToCheck(r) ==
  AncestorLocks(r.path) \cup resolve_exact_conflict_paths(r.path)
    \cup IF r.kind = "tree" THEN scan_descendant_locks(r.path) ELSE {}

\* Directories that must exist before lock file l can.
LockDirs(l) == IF l.form = "path" THEN Anc[l.at] \cup {l.at} ELSE Anc[l.at]

normalize_requests(R) ==
  {r \in R : r.kind = "exact" => [r EXCEPT !.kind = "tree"] \notin R}

IsFirst(r, S) == r \in S /\ \A q \in S : Rank[r.path] <= Rank[q.path]

-----------------------------------------------------------------------------
(* What reading a token tells an owner *)

Alive(o) == pc[o] # "dead"

\* Wrong variant: no token ever counts as stale.
is_stale_never(t) == FALSE

\* Wrong variant: a token counts as stale whatever its age.
is_stale_always(t) == TRUE

is_stale(t) == t.owner \in expired

\* read_token fails with EmptyToken until the empty file is old enough.
IsEmptyToken(l) == token[l] # None /\ token[l].body = "empty" /\ ~is_stale(token[l])

\* read_token returns a token
HasToken(l) == token[l] # None /\ token[l].body = "full"

\* A token that makes request r of owner o conflict: another owner's, not stale,
\* and on an ancestor only if it is a TREE token.
Blocks(o, r, l) ==
  /\ HasToken(l)
  /\ token[l].owner # o
  /\ ~is_stale(token[l])
  /\ l.at \in Anc[r.path] => token[l].kind = "tree"

\* Order of the reads of one request: ancestors, nearest first; then the two
\* lock files of the path; then, in directory order, what lies below it.
Stage(r, l) == IF l.at \in Anc[r.path] THEN 0
               ELSE IF l \in resolve_exact_conflict_paths(r.path) THEN 1 ELSE 2

ReadNext(o, l) ==
  /\ l \in todo[o]
  /\ \A m \in todo[o] :
       \/ Stage(at[o], l) < Stage(at[o], m)
       \/ /\ Stage(at[o], l) = Stage(at[o], m)
          /\ Stage(at[o], l) = 0 => Rank[l.at] >= Rank[m.at]

\* When the acquire pass runs stat: a TREE request first of all, an EXACT one
\* after its ancestors were checked.
ResolveDue(o) ==
  /\ pass[o] = "acquire" /\ acq[o] = None
  /\ at[o].kind = "exact" => todo[o] \cap AncestorLocks(at[o].path) = {}

-----------------------------------------------------------------------------
(* The steps of an attempt *)

\* Start a pass, or go on with it, at the first of the requests S.
EnterRequest(o, S, which) ==
  \E r \in S :
    /\ IsFirst(r, S)
    /\ at'   = [at EXCEPT ![o] = r]
    /\ left' = [left EXCEPT ![o] = S \ {r}]
    /\ todo' = [todo EXCEPT ![o] = ToCheck(r)]
    /\ acq'  = [acq EXCEPT ![o] = None]
    /\ pass' = [pass EXCEPT ![o] = which]
    /\ pc'   = [pc EXCEPT ![o] = "check"]

\* Wrong variant: an attempt that fails skips its rollback.
FailNoRollback(o, why, l) ==
  /\ err' = [err EXCEPT ![o] = [why |-> why, lock |-> l, during |-> pass[o]]]
  /\ pc'  = [pc EXCEPT ![o] = "failed"]

Fail(o, why, l) ==
  /\ err' = [err EXCEPT ![o] = [why |-> why, lock |-> l, during |-> pass[o]]]
  /\ pc'  = [pc EXCEPT ![o] = "rollback"]

\* The operation ends and the caller gets its lease, an error or a timeout.
Finish(o) ==
  /\ pc'   = [pc EXCEPT ![o] = "idle"]
  /\ pass' = [pass EXCEPT ![o] = "acquire"]
  /\ want' = [want EXCEPT ![o] = {}]
  /\ left' = [left EXCEPT ![o] = {}]
  /\ at'   = [at EXCEPT ![o] = None]
  /\ todo' = [todo EXCEPT ![o] = {}]
  /\ acq'  = [acq EXCEPT ![o] = None]
  /\ seen' = [seen EXCEPT ![o] = None]
  /\ err'  = [err EXCEPT ![o] = None]
  /\ cur'  = [cur EXCEPT ![o] = None]

\* The current request has its token; go on to the next one or verify them all.
Take(o, change) ==
  /\ held' = [held EXCEPT ![o] = @ \cup
       {[lease |-> cur[o], path |-> at[o].path, kind |-> at[o].kind,
         lock |-> acq[o], change |-> change]}]
  /\ IF left[o] # {} THEN EnterRequest(o, left[o], "acquire")
                     ELSE EnterRequest(o, want[o], "verify")

acquire_batch(o, R) ==
  /\ pc[o] = "idle"
  /\ R \in Batches /\ R # {}
  /\ \E k \in LeaseIds \ granted[o] : cur' = [cur EXCEPT ![o] = k]
  /\ want' = [want EXCEPT ![o] = normalize_requests(R)]
  /\ EnterRequest(o, normalize_requests(R), "acquire")
  /\ UNCHANGED <<node, token, expired, seen, err, held, granted>>

Resolve(o) ==
  /\ pc[o] = "check" /\ ResolveDue(o)
  /\ acq' = [acq EXCEPT ![o] = resolve_lock_path(at[o])]
  /\ UNCHANGED <<node, token, expired, pc, pass, want, left, at, todo, seen, err,
                 cur, held, granted>>

\* check_ancestor_tree_locks, check_lock_paths and check_descendant_locks: one read.
CheckLock(o, l) ==
  /\ pc[o] = "check" /\ ~ResolveDue(o)
  /\ ReadNext(o, l)
  /\ \/ /\ ~IsEmptyToken(l) /\ ~Blocks(o, at[o], l)
        /\ todo' = [todo EXCEPT ![o] = @ \ {l}]
        /\ UNCHANGED <<pc, err>>
     \/ /\ IsEmptyToken(l)
        /\ Fail(o, "empty", l)
        /\ UNCHANGED todo
     \/ /\ Blocks(o, at[o], l)
        /\ Fail(o, "conflict", l)
        /\ UNCHANGED todo
  /\ UNCHANGED <<node, token, expired, pass, want, left, at, acq, seen, cur, held,
                 granted>>

ensure_lock_dir(o) ==
  /\ pc[o] = "check" /\ pass[o] = "acquire" /\ acq[o] # None /\ todo[o] = {}
  /\ \/ /\ \A p \in LockDirs(acq[o]) : node[p] # "file"
        /\ node' = [p \in Paths |-> IF p \in LockDirs(acq[o]) THEN "dir" ELSE node[p]]
        /\ pc' = [pc EXCEPT ![o] = "one"]
        /\ UNCHANGED err
     \/ /\ \E p \in LockDirs(acq[o]) : node[p] = "file"
        /\ Fail(o, "fatal", acq[o])
        /\ UNCHANGED node
  /\ UNCHANGED <<token, expired, pass, want, left, at, todo, acq, seen, cur, held,
                 granted>>

\* Wrong variant: an EXACT token is reused as it is for a TREE request.
TryReuseNoUpgrade(o) ==
  /\ pc[o] = "one"
  /\ HasToken(acq[o]) /\ token[acq[o]].owner = o
  /\ Take(o, "reentrant")
  /\ UNCHANGED <<node, token, expired, want, seen, err, cur, granted>>

\* try_acquire_one up to its first write: the token already in the lock file.
TryReuse(o) ==
  /\ pc[o] = "one"
  /\ HasToken(acq[o]) /\ token[acq[o]].owner = o
  /\ IF token[acq[o]].kind = "exact" /\ at[o].kind = "tree"
       THEN /\ token' = [token EXCEPT ![acq[o]].kind = "tree"]
            /\ Take(o, "upgraded")
       ELSE /\ Take(o, "reentrant")
            /\ UNCHANGED token
  /\ UNCHANGED <<node, expired, want, seen, err, cur, granted>>

TryRead(o) ==
  /\ pc[o] = "one"
  /\ ~(HasToken(acq[o]) /\ token[acq[o]].owner = o)
  /\ \/ /\ IsEmptyToken(acq[o])
        /\ Fail(o, "empty", acq[o])
        /\ UNCHANGED seen
     \/ /\ HasToken(acq[o]) /\ ~is_stale(token[acq[o]])
        /\ Fail(o, "conflict", acq[o])
        /\ UNCHANGED seen
     \/ /\ HasToken(acq[o]) /\ is_stale(token[acq[o]])
        /\ seen' = [seen EXCEPT ![o] = token[acq[o]]]
        /\ pc' = [pc EXCEPT ![o] = "takeover"]
        /\ UNCHANGED err
     \/ /\ ~HasToken(acq[o]) /\ ~IsEmptyToken(acq[o])
        /\ pc' = [pc EXCEPT ![o] = "create"]
        /\ UNCHANGED <<seen, err>>
  /\ UNCHANGED <<node, token, expired, pass, want, left, at, todo, acq, cur, held,
                 granted>>

\* remove_token(lock, stale owner, force): the token is removed if it is still
\* the stale owner's.  The memory provider does this under its write lock; the
\* filesystem provider reads the file and then unlinks whatever is there.
ForceRemove(o, l, unlink, next) ==
  \/ /\ token[l] # None => token[l].body = "full" /\ token[l].owner # seen[o].owner
     /\ pc' = [pc EXCEPT ![o] = next]
     /\ UNCHANGED <<token, err>>
  \/ /\ token[l] # None /\ token[l].body = "full" /\ token[l].owner = seen[o].owner
     /\ IF Provider = "memory"
          THEN /\ token' = [token EXCEPT ![l] = None]
               /\ pc' = [pc EXCEPT ![o] = next]
          ELSE /\ pc' = [pc EXCEPT ![o] = unlink]
               /\ UNCHANGED token
     /\ UNCHANGED err
  \/ /\ token[l] # None /\ token[l].body = "empty"    \* "" does not decode
     /\ Fail(o, "fatal", l)
     /\ UNCHANGED token

TakeOver(o) ==
  /\ pc[o] = "takeover"
  /\ ForceRemove(o, acq[o], "unlink_takeover", "create")
  /\ UNCHANGED <<node, expired, pass, want, left, at, todo, acq, seen, cur, held,
                 granted>>

Unlink(o) ==
  /\ \/ /\ pc[o] = "unlink_takeover"
        /\ token' = [token EXCEPT ![acq[o]] = None]
        /\ pc' = [pc EXCEPT ![o] = "create"]
     \/ /\ pc[o] = "unlink_cleanup"
        /\ token' = [token EXCEPT ![err[o].lock] = None]
        /\ pc' = [pc EXCEPT ![o] = "retry"]
  /\ UNCHANGED <<node, expired, attempt, held, granted>>

NewToken(o, body) == [owner |-> o, kind |-> at[o].kind, body |-> body]

\* try_create_token.  A filesystem creates the file first and writes it after.
try_create_token(o) ==
  /\ pc[o] = "create"
  /\ \/ /\ token[acq[o]] = None
        /\ token' = [token EXCEPT ![acq[o]] = NewToken(o, IF Provider = "memory" THEN "full" ELSE "empty")]
        /\ IF Provider = "memory"
             THEN Take(o, "created")
             ELSE /\ pc' = [pc EXCEPT ![o] = "write"]
                  /\ UNCHANGED <<pass, left, at, todo, acq, held>>
        /\ UNCHANGED err
     \/ /\ token[acq[o]] # None /\ token[acq[o]].body = "empty" /\ is_stale(token[acq[o]])
        /\ token' = [token EXCEPT ![acq[o]] = NewToken(o, "full")]
        /\ Take(o, "created")
        /\ UNCHANGED err
     \/ /\ HasToken(acq[o])
        /\ Fail(o, "conflict", acq[o])
        /\ UNCHANGED <<token, pass, left, at, todo, acq, held>>
     \/ /\ IsEmptyToken(acq[o])
        /\ Fail(o, "empty", acq[o])
        /\ UNCHANGED <<token, pass, left, at, todo, acq, held>>
  /\ UNCHANGED <<node, expired, want, seen, cur, granted>>

\* The write goes to the open file, which may no longer be linked at the path.
WriteToken(o) ==
  /\ pc[o] = "write"
  /\ token' = IF token[acq[o]] = NewToken(o, "empty")
                THEN [token EXCEPT ![acq[o]] = NewToken(o, "full")]
                ELSE token
  /\ Take(o, "created")
  /\ UNCHANGED <<node, expired, want, seen, err, cur, granted>>

VerifyNext(o) ==
  /\ pc[o] = "check" /\ pass[o] = "verify" /\ todo[o] = {} /\ left[o] # {}
  /\ EnterRequest(o, left[o], "verify")
  /\ UNCHANGED <<node, token, expired, want, seen, err, cur, held, granted>>

\* Wrong variant: the lease is recorded after the attempt's state was reset.
GrantAfterReset(o) ==
  /\ pc[o] = "check" /\ pass[o] = "verify" /\ todo[o] = {} /\ left[o] = {}
  /\ Finish(o)
  /\ granted' = [granted EXCEPT ![o] = @ \cup {cur'[o]}]
  /\ UNCHANGED <<node, token, expired, held>>

\* The lease enters the registry and goes to the caller.
Grant(o) ==
  /\ pc[o] = "check" /\ pass[o] = "verify" /\ todo[o] = {} /\ left[o] = {}
  /\ granted' = [granted EXCEPT ![o] = @ \cup {cur[o]}]
  /\ Finish(o)
  /\ UNCHANGED <<node, token, expired, held>>

-----------------------------------------------------------------------------
(* Failure: roll back, clear a stale token out of the way, wait, try again *)

ClaimsOf(o, k) == {c \in held[o] : c.lease = k}

\* Wrong variant: an upgraded token is left as it is.
RollbackKeepsUpgrade(o, c) ==
  /\ pc[o] = "rollback"
  /\ c \in ClaimsOf(o, cur[o])
  /\ \A d \in ClaimsOf(o, cur[o]) : Rank[d.path] <= Rank[c.path]
  /\ held' = [held EXCEPT ![o] = @ \ {c}]
  /\ token' = IF c.change = "created" /\ HasToken(c.lock) /\ token[c.lock].owner = o
                THEN [token EXCEPT ![c.lock] = None] ELSE token
  /\ UNCHANGED <<node, expired, pc, pass, want, left, at, todo, acq, seen, err, cur, granted>>

\* rollback_acquisitions, one claim, last one first.
rollback_acquisitions(o, c) ==
  /\ pc[o] = "rollback"
  /\ c \in ClaimsOf(o, cur[o])
  /\ \A d \in ClaimsOf(o, cur[o]) : Rank[d.path] <= Rank[c.path]
  /\ held' = [held EXCEPT ![o] = @ \ {c}]
  /\ LET mine == HasToken(c.lock) /\ token[c.lock].owner = o
     IN  \/ /\ c.change = "created"
            /\ token' = IF mine THEN [token EXCEPT ![c.lock] = None] ELSE token
            /\ UNCHANGED err
         \/ /\ c.change = "reentrant"
            /\ UNCHANGED <<token, err>>
         \/ /\ c.change = "upgraded"
            /\ token' = IF mine THEN [token EXCEPT ![c.lock].kind = "exact"] ELSE token
            /\ err' = IF mine THEN err ELSE [err EXCEPT ![o].why = "fatal"]
  /\ UNCHANGED <<node, expired, pc, pass, want, left, at, todo, acq, seen, cur, granted>>

RolledBack(o) ==
  /\ pc[o] = "rollback" /\ ClaimsOf(o, cur[o]) = {}
  /\ IF err[o].why = "fatal"
       THEN Finish(o)
       ELSE /\ pc' = [pc EXCEPT ![o] = "failed"]
            /\ UNCHANGED attempt
  /\ UNCHANGED <<node, token, expired, held, granted>>

\* A conflict found before the tokens were verified may be a token that has
\* become stale by now.
ReadConflict(o) ==
  /\ pc[o] = "failed"
  /\ IF err[o].during = "acquire" /\ err[o].why = "conflict"
       THEN \/ /\ IsEmptyToken(err[o].lock)      \* this read's error ends the call
               /\ Finish(o)
            \/ /\ ~IsEmptyToken(err[o].lock)
               /\ IF HasToken(err[o].lock) /\ is_stale(token[err[o].lock])
                    THEN /\ seen' = [seen EXCEPT ![o] = token[err[o].lock]]
                         /\ pc' = [pc EXCEPT ![o] = "cleanup"]
                    ELSE /\ pc' = [pc EXCEPT ![o] = "retry"]
                         /\ UNCHANGED seen
               /\ UNCHANGED <<pass, want, left, at, todo, acq, err, cur>>
       ELSE /\ pc' = [pc EXCEPT ![o] = "retry"]
            /\ UNCHANGED attempt
  /\ UNCHANGED <<node, token, expired, held, granted>>

Cleanup(o) ==
  /\ pc[o] = "cleanup"
  /\ ForceRemove(o, err[o].lock, "unlink_cleanup", "retry")
  /\ UNCHANGED <<node, expired, pass, want, left, at, todo, acq, seen, cur, held,
                 granted>>

Retry(o) ==
  /\ pc[o] = "retry"
  /\ EnterRequest(o, want[o], "acquire")
  /\ err'  = [err EXCEPT ![o] = None]
  /\ seen' = [seen EXCEPT ![o] = None]
  /\ UNCHANGED <<node, token, expired, want, cur, held, granted>>

Timeout(o) ==
  /\ pc[o] \in {"failed", "cleanup", "retry"}
  /\ Finish(o)
  /\ UNCHANGED <<node, token, expired, held, granted>>

-----------------------------------------------------------------------------
(* Release, and the world outside the lock manager *)

release(o, k) ==
  /\ pc[o] = "idle" /\ k \in granted[o]
  /\ granted' = [granted EXCEPT ![o] = @ \ {k}]
  /\ cur' = [cur EXCEPT ![o] = k]
  /\ pc'  = [pc EXCEPT ![o] = "release"]
  /\ UNCHANGED <<node, token, expired, pass, want, left, at, todo, acq, seen, err, held>>

\* One lock path of the lease: the token goes with its last claim, and is
\* weakened to EXACT with its last TREE claim.
release_lease_paths(o, c) ==
  /\ pc[o] = "release"
  /\ c \in ClaimsOf(o, cur[o])
  /\ \A d \in ClaimsOf(o, cur[o]) : Rank[c.path] <= Rank[d.path]
  /\ held' = [held EXCEPT ![o] = @ \ {c}]
  /\ LET rest == {d \in held[o] \ {c} : d.lock = c.lock}
         mine == HasToken(c.lock) /\ token[c.lock].owner = o
     IN  token' = IF mine /\ rest = {} THEN [token EXCEPT ![c.lock] = None]
                  ELSE IF mine /\ \A d \in rest : d.kind = "exact"
                    THEN [token EXCEPT ![c.lock].kind = "exact"]
                  ELSE token
  /\ UNCHANGED <<node, expired, pc, attempt, granted>>

Released(o) ==
  /\ pc[o] = "release" /\ ClaimsOf(o, cur[o]) = {}
  /\ Finish(o)
  /\ UNCHANGED <<node, token, expired, held, granted>>

\* The caller's own writes, made under a lease that covers the path.
Covers(c, p) == c.path = p \/ (c.kind = "tree" /\ c.path \in Anc[p])
GrantedClaims(o) == {c \in held[o] : c.lease \in granted[o]}

CreateFile(o, p) ==
  /\ \E c \in GrantedClaims(o) : Covers(c, p)
  /\ node[p] = "missing" /\ \A q \in Anc[p] : node[q] = "dir"
  /\ node' = [node EXCEPT ![p] = "file"]
  /\ UNCHANGED <<token, expired, pc, attempt, held, granted>>

RemoveFile(o, p) ==
  /\ p \in Removable
  /\ \E c \in GrantedClaims(o) : Covers(c, p)
  /\ node[p] = "file"
  /\ node' = [node EXCEPT ![p] = "missing"]
  /\ UNCHANGED <<token, expired, pc, attempt, held, granted>>

\* mkdir takes no lock.
Mkdir(p) ==
  /\ node[p] = "missing" /\ \A q \in Anc[p] : node[q] = "dir"
  /\ node' = [node EXCEPT ![p] = "dir"]
  /\ UNCHANGED <<token, expired, pc, attempt, held, granted>>

\* The process dies, or the future of a first acquisition is dropped.  Memory
\* tokens die with the process, so only the second leaves any behind.
Crash(o) ==
  /\ o \in Crashable /\ Alive(o)
  /\ Provider = "memory" => granted[o] = {} /\ pc[o] # "release"
  /\ pc'      = [pc EXCEPT ![o] = "dead"]
  /\ held'    = [held EXCEPT ![o] = {}]
  /\ granted' = [granted EXCEPT ![o] = {}]
  /\ pass' = [pass EXCEPT ![o] = "acquire"]
  /\ want' = [want EXCEPT ![o] = {}]
  /\ left' = [left EXCEPT ![o] = {}]
  /\ at'   = [at EXCEPT ![o] = None]
  /\ todo' = [todo EXCEPT ![o] = {}]
  /\ acq'  = [acq EXCEPT ![o] = None]
  /\ seen' = [seen EXCEPT ![o] = None]
  /\ err'  = [err EXCEPT ![o] = None]
  /\ cur'  = [cur EXCEPT ![o] = None]
  /\ UNCHANGED <<node, token, expired>>

Expire(o) ==
  /\ ~Alive(o) /\ o \notin expired
  /\ expired' = expired \cup {o}
  /\ UNCHANGED <<node, token, pc, attempt, held, granted>>

-----------------------------------------------------------------------------
Init ==
  /\ node \in InitNodes
  /\ token   = [l \in LockFiles |-> None]
  /\ expired = {}
  /\ pc      = [o \in Owners |-> "idle"]
  /\ pass    = [o \in Owners |-> "acquire"]
  /\ want    = [o \in Owners |-> {}]
  /\ left    = [o \in Owners |-> {}]
  /\ at      = [o \in Owners |-> None]
  /\ todo    = [o \in Owners |-> {}]
  /\ acq     = [o \in Owners |-> None]
  /\ seen    = [o \in Owners |-> None]
  /\ err     = [o \in Owners |-> None]
  /\ cur     = [o \in Owners |-> None]
  /\ held    = [o \in Owners |-> {}]
  /\ granted = [o \in Owners |-> {}]

\* The steps of an operation under way: the code runs them without waiting for
\* anything but the store.
Step(o) ==
  \/ Resolve(o)
  \/ \E l \in LockFiles : CheckLock(o, l)
  \/ ensure_lock_dir(o)
  \/ TryReuse(o)
  \/ TryRead(o)
  \/ TakeOver(o)
  \/ Unlink(o)
  \/ try_create_token(o)
  \/ WriteToken(o)
  \/ VerifyNext(o)
  \/ Grant(o)
  \/ \E c \in held[o] : rollback_acquisitions(o, c)
  \/ RolledBack(o)
  \/ ReadConflict(o)
  \/ Cleanup(o)
  \/ Retry(o)
  \/ \E c \in held[o] : release_lease_paths(o, c)
  \/ Released(o)

Call(o) ==
  \/ \E R \in Batches : acquire_batch(o, R)
  \/ \E k \in LeaseIds : release(o, k)
  \/ \E p \in Paths : CreateFile(o, p) \/ RemoveFile(o, p)

Next ==
  \/ \E o \in Owners : Step(o) \/ Call(o) \/ Timeout(o) \/ Crash(o) \/ Expire(o)
  \/ \E p \in Paths : Mkdir(p)

Spec == Init /\ [][Next]_vars

\* An operation under way keeps running, and time passes.
Fairness == \A o \in Owners : WF_vars(Step(o)) /\ WF_vars(Expire(o))

FairSpec == Spec /\ Fairness

-----------------------------------------------------------------------------
PCs == {"idle", "check", "one", "takeover", "unlink_takeover", "create", "write",
        "rollback", "failed", "cleanup", "unlink_cleanup", "retry", "release", "dead"}

\* Every variable has its type.
TypeOK ==
  /\ node \in [Paths -> NodeKinds]
  /\ token \in [LockFiles -> Tokens \cup {None}]
  /\ expired \subseteq Owners
  /\ pc \in [Owners -> PCs]
  /\ pass \in [Owners -> {"acquire", "verify"}]
  /\ want \in [Owners -> SUBSET Requests]
  /\ left \in [Owners -> SUBSET Requests]
  /\ at \in [Owners -> Requests \cup {None}]
  /\ todo \in [Owners -> SUBSET LockFiles]
  /\ acq \in [Owners -> LockFiles \cup {None}]
  /\ seen \in [Owners -> Tokens \cup {None}]
  /\ err \in [Owners -> Errors \cup {None}]
  /\ cur \in [Owners -> LeaseIds \cup {None}]
  /\ held \in [Owners -> SUBSET Claims]
  /\ granted \in [Owners -> SUBSET LeaseIds]

Conflicting(c, d) ==
  \/ c.path = d.path
  \/ c.kind = "tree" /\ c.path \in Anc[d.path]
  \/ d.kind = "tree" /\ d.path \in Anc[c.path]

\* Write exclusion: leases that two live owners hold at the same time never
\* overlap, whatever the interleaving of the unlocked checks, creations,
\* takeovers of stale tokens and rollbacks of acquire_batch.
MutualExclusion ==
  \A o, w \in Owners : o # w =>
    \A c \in GrantedClaims(o), d \in GrantedClaims(w) : ~Conflicting(c, d)

\* All or nothing: whenever a live owner has no operation under way, its tokens
\* in the store are exactly those its leases need, each of the strongest kind a
\* lease needs; no failed batch, undone upgrade or nested release leaves a token
\* behind, loses one or leaves one too strong or too weak.
TokensMatchLeases ==
  \A o \in Owners : pc[o] = "idle" =>
    \A l \in LockFiles :
      LET cs == {c \in GrantedClaims(o) : c.lock = l}
      IN  IF cs = {} THEN token[l] = None \/ token[l].owner # o
          ELSE token[l] = [owner |-> o, body |-> "full",
                           kind |-> IF \E c \in cs : c.kind = "tree"
                                      THEN "tree" ELSE "exact"]

\* A live owner's token is changed or removed only in step with that owner's own
\* claims: never by another owner's takeover or cleanup of a stale token, nor by
\* another owner's rollback or release.
OthersTokensKept ==
  [][\A l \in LockFiles :
       HasToken(l) /\ Alive(token[l].owner) /\ token'[l] # token[l]
         => held'[token[l].owner] # held[token[l].owner]]_vars

\* A dead owner's locks do not block for ever: once every other owner is dead,
\* an acquisition that is not cut short by its timeout ends, having retried past
\* every token and every empty lock file the dead left.
DeadLocksYield ==
  \A o \in Owners :
    (\A w \in Owners \ {o} : ~Alive(w)) /\ pc[o] # "dead" ~> pc[o] \in {"idle", "dead"}
=============================================================================
