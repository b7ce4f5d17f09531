------------------------------ MODULE FilesRefs ------------------------------
(***************************************************************************)
(* The "files" reference backend: loose references, one file each, on top  *)
(* of a packed-refs file (refs/files-backend.c, refs/packed-backend.c).    *)
(* Several processes share the directory; each step below is one system    *)
(* call that another process can observe, with the local work around it.   *)
(*                                                                         *)
(*   writer   ref_transaction_commit(): lock every reference, read and     *)
(*            check it under its lock, lock packed-refs when something is  *)
(*            deleted, then rename, rewrite, unlink, unlock                *)
(*   packer   git pack-refs: copy the loose references to packed-refs      *)
(*            under its lock, then prune each loose file in a transaction  *)
(*   reader   refs_read_raw_ref() of one reference, or an iteration        *)
(***************************************************************************)
EXTENDS Naturals, FiniteSets

CONSTANTS
  Writers, Packers, Readers,  \* the processes that may take each role
  Refs, Oids,
  NULL,                       \* the null oid: no such reference
  ANY,                        \* an update without REF_HAVE_OLD
  KEEP,                       \* an update without REF_HAVE_NEW
  Nobody,                     \* owner of a file that does not exist
  Updates,                    \* the [old, new] updates callers queue
  PackModes,                  \* subset of {"all", "auto"}
  Faults                      \* may processes be killed or fail midway

Procs == Writers \cup Packers \cup Readers
OidOrNull == Oids \cup {NULL}
UpdateType == [old : OidOrNull \cup {ANY}, new : OidOrNull \cup {KEEP}]

ASSUME ConstantsAssumption ==
  /\ NULL \notin Oids \cup Refs /\ ANY \notin OidOrNull /\ KEEP \notin OidOrNull
  /\ Nobody \notin Procs
  /\ Updates \subseteq UpdateType
  /\ PackModes \subseteq {"all", "auto"}
  /\ Faults \in BOOLEAN

VARIABLES
  \* the repository
  loose,       \* content of each loose reference file, NULL if there is none
  packed,      \* content of packed-refs
  packedNew,   \* content of packed-refs.new while newBy # Nobody
  newBy,       \* the process that created packed-refs.new
  refLock,     \* owner of each <ref>.lock
  packedLock,  \* owner of packed-refs.lock
  logTip,      \* new oid of the last reflog entry, NULL if there is no reflog
  \* the processes
  alive, pc, op,
  tx,          \* the updates of the transaction, a function on its references
  todo,        \* references the current loop has still to visit
  cur,         \* the reference being read or committed
  old,         \* ref_lock.old_oid, read under the lock
  isPacked,    \* REF_ISPACKED of the same read
  snap,        \* the packed-refs snapshot loaded by packed_refs_lock()
  cache,       \* the loose reference cache; what a reader returns
  broken,      \* entries of the cache with REF_ISBROKEN
  toPrune,     \* refs_to_prune
  tries,       \* remaining_retries
  seen,        \* history: values each reference had since a read began
  warned       \* history: deletions in progress that could not unlink the reflog

repo == <<loose, packed, packedNew, newBy, refLock, packedLock, logTip>>
\* what reading a reference leaves alone, even when it fails under the lock
readOnly == <<loose, packed, packedNew, newBy, packedLock, logTip>>
locals == <<tx, old, isPacked, snap, cache, broken, toPrune, tries>>
vars == <<repo, alive, pc, op, tx, todo, cur, old, isPacked, snap, cache,
          broken, toPrune, tries, seen, warned>>

NoTx == [r \in {} |-> [old |-> ANY, new |-> KEEP]]
AllNull == [r \in Refs |-> NULL]
MaxRetries == 3

-----------------------------------------------------------------------------
(* What the references mean *)

\* A loose file overrides the entry in packed-refs.
Value(r) == IF loose[r] # NULL THEN loose[r] ELSE packed[r]

\* Mutant: packed-refs wins over the loose file.
OverlaySwapped(top, bottom) ==
  [r \in Refs |-> IF bottom[r] # NULL THEN bottom[r] ELSE top[r]]

Overlay(top, bottom) ==
  [r \in Refs |-> IF top[r] # NULL THEN top[r] ELSE bottom[r]]

\* check_old_oid() and the mustexist test of lock_raw_ref()
OldMatches(u, v) == u.old = ANY \/ u.old = v

Deletes(p) == {r \in DOMAIN tx[p] : tx[p][r].new = NULL}

\* REF_NEEDS_COMMIT: a new value was written to the lockfile
NeedsCommit(p) ==
  {r \in DOMAIN tx[p] : tx[p][r].new \in Oids /\ tx[p][r].new # old[p][r]}

-----------------------------------------------------------------------------

\* A repository as files_ref_store_create_on_disk() and earlier calls left it: a
\* reference is loose, packed, both or missing, and nobody is inside a call.
Init ==
  /\ loose \in [Refs -> OidOrNull]
  /\ packed \in [Refs -> OidOrNull]
  /\ packedNew = AllNull
  /\ newBy = Nobody
  /\ refLock = [r \in Refs |-> Nobody]
  /\ packedLock = Nobody
  /\ logTip = [r \in Refs |-> Value(r)]
  /\ alive = [p \in Procs |-> TRUE]
  /\ pc = [p \in Procs |-> "idle"]
  /\ op = [p \in Procs |-> "none"]
  /\ tx = [p \in Procs |-> NoTx]
  /\ todo = [p \in Procs |-> {}]
  /\ cur = [p \in Procs |-> NULL]
  /\ old = [p \in Procs |-> AllNull]
  /\ isPacked = [p \in Procs |-> [r \in Refs |-> FALSE]]
  /\ snap = [p \in Procs |-> AllNull]
  /\ cache = [p \in Procs |-> AllNull]
  /\ broken = [p \in Procs |-> {}]
  /\ toPrune = [p \in Procs |-> {}]
  /\ tries = [p \in Procs |-> 0]
  /\ seen = [p \in Procs |-> [r \in Refs |-> {}]]
  /\ warned = {}

Goto(p, l) == pc' = [pc EXCEPT ![p] = l]

\* The process ends or returns to its caller: its memory is forgotten.
Finish(p) ==
  /\ pc' = [pc EXCEPT ![p] = "idle"]
  /\ op' = [op EXCEPT ![p] = "none"]
  /\ tx' = [tx EXCEPT ![p] = NoTx]
  /\ todo' = [todo EXCEPT ![p] = {}]
  /\ cur' = [cur EXCEPT ![p] = NULL]
  /\ old' = [old EXCEPT ![p] = AllNull]
  /\ isPacked' = [isPacked EXCEPT ![p] = [r \in Refs |-> FALSE]]
  /\ snap' = [snap EXCEPT ![p] = AllNull]
  /\ cache' = [cache EXCEPT ![p] = AllNull]
  /\ broken' = [broken EXCEPT ![p] = {}]
  /\ toPrune' = [toPrune EXCEPT ![p] = {}]
  /\ tries' = [tries EXCEPT ![p] = 0]

-----------------------------------------------------------------------------
(* Preparing a transaction: files_transaction_prepare() *)

\* The caller queues its updates and commits.
TransactionBegin(p) ==
  /\ p \in Writers /\ pc[p] = "idle"
  /\ \E S \in (SUBSET Refs) \ {{}} : \E u \in [S -> Updates] :
       /\ tx' = [tx EXCEPT ![p] = u]
       /\ todo' = [todo EXCEPT ![p] = S]
  /\ op' = [op EXCEPT ![p] = "txn"]
  /\ Goto(p, "lock")
  /\ UNCHANGED <<repo, cur, old, isPacked, snap, cache, broken, toPrune, tries>>

\* Mutant: the lockfile is created without O_EXCL.
LockRefShared(p) ==
  /\ pc[p] = "lock"
  /\ \E r \in todo[p] :
       /\ refLock' = [refLock EXCEPT ![r] = p]
       /\ cur' = [cur EXCEPT ![p] = r]
  /\ tries' = [tries EXCEPT ![p] = MaxRetries]
  /\ Goto(p, "lstat")
  /\ UNCHANGED <<loose, packed, packedNew, newBy, packedLock, logTip, op, tx,
                 todo, old, isPacked, snap, cache, broken, toPrune>>

\* lock_raw_ref(): create <ref>.lock with O_EXCL
LockRef(p) ==
  /\ pc[p] = "lock"
  /\ \E r \in todo[p] :
       /\ refLock[r] = Nobody
       /\ refLock' = [refLock EXCEPT ![r] = p]
       /\ cur' = [cur EXCEPT ![p] = r]
  /\ tries' = [tries EXCEPT ![p] = MaxRetries]
  /\ Goto(p, "lstat")
  /\ UNCHANGED <<loose, packed, packedNew, newBy, packedLock, logTip, op, tx,
                 todo, old, isPacked, snap, cache, broken, toPrune>>

\* Where the loop of files_transaction_prepare() goes, u being the updates and
\* rest the references it has still to visit.
AfterLocking(p, u, rest) ==
  IF rest # {} THEN "lock"
  ELSE IF op[p] = "txn" /\ \E r \in DOMAIN u : u[r].new = NULL THEN "packlock"
  ELSE "prepared"

\* ref_transaction_maybe_set_rejected(), with REF_TRANSACTION_ALLOW_FAILURE: the
\* transaction goes on without the update of r.
Reject(p, r) ==
  LET others == [x \in DOMAIN tx[p] \ {r} |-> tx[p][x]]
      rest == todo[p] \ {r}
  IN  /\ op[p] = "txn"
      /\ tx' = [tx EXCEPT ![p] = others]
      /\ todo' = [todo EXCEPT ![p] = rest]
      /\ Goto(p, AfterLocking(p, others, rest))

\* Mutant: wait without a limit.
LockTimeoutNever(p) ==
  /\ pc[p] = "lock"
  /\ \E r \in todo[p] : refLock[r] # Nobody
  /\ UNCHANGED <<repo, pc, op, todo, cur, locals>>

\* The lock is still held by somebody else when the timeout has elapsed.
LockTimeout(p) ==
  /\ pc[p] = "lock"
  /\ \E r \in todo[p] :
       /\ refLock[r] # Nobody
       /\ \/ Goto(p, "cleanup") /\ UNCHANGED <<tx, todo>>
          \/ Reject(p, r)
  /\ cur' = [cur EXCEPT ![p] = NULL]
  /\ UNCHANGED <<repo, op, old, isPacked, snap, cache, broken, toPrune, tries>>

\* The rest of lock_ref_for_update(), v being what the reference holds.  An
\* update with the wrong old value ends the transaction or is rejected; when
\* the reference should exist and does not, lock_raw_ref() has unlocked it.
LockedReadDone(p, v, ip) ==
  LET r == cur[p]
      rest == todo[p] \ {r}
  IN  /\ tries' = [tries EXCEPT ![p] = 0]
      /\ cur' = [cur EXCEPT ![p] = NULL]
      /\ \/ /\ OldMatches(tx[p][r], v)
            /\ old' = [old EXCEPT ![p][r] = v]
            /\ isPacked' = [isPacked EXCEPT ![p][r] = ip]
            /\ todo' = [todo EXCEPT ![p] = rest]
            /\ Goto(p, AfterLocking(p, tx[p], rest))
            /\ UNCHANGED <<refLock, tx>>
         \/ /\ ~OldMatches(tx[p][r], v)
            /\ (Goto(p, "cleanup") /\ UNCHANGED <<tx, todo>>) \/ Reject(p, r)
            /\ refLock' = IF v = NULL THEN [refLock EXCEPT ![r] = Nobody] ELSE refLock
            /\ UNCHANGED <<old, isPacked>>

-----------------------------------------------------------------------------
(* Reading one reference: read_ref_internal() *)

ReadBegin(p) ==
  /\ p \in Readers /\ pc[p] = "idle"
  /\ \E r \in Refs : cur' = [cur EXCEPT ![p] = r]
  /\ op' = [op EXCEPT ![p] = "read"]
  /\ tries' = [tries EXCEPT ![p] = MaxRetries]
  /\ Goto(p, "lstat")
  /\ UNCHANGED <<repo, todo, tx, old, isPacked, snap, cache, broken, toPrune>>

\* The rest of loose_fill_ref_dir_regular_file(): a file that readdir() has
\* listed and that cannot be resolved is cached as a broken reference.
ScanNext(p, v) ==
  /\ cache' = [cache EXCEPT ![p][cur[p]] = v]
  /\ broken' = [broken EXCEPT ![p] = IF v = NULL THEN @ \cup {cur[p]} ELSE @]
  /\ tries' = [tries EXCEPT ![p] = 0]
  /\ todo' = [todo EXCEPT ![p] = @ \ {cur[p]}]
  /\ cur' = [cur EXCEPT ![p] = NULL]
  /\ Goto(p, "scan")

\* What the caller of read_ref_internal() does with the value
ReadReturn(p, v, ip) ==
  \/ /\ op[p] \in {"txn", "prune"}
     /\ LockedReadDone(p, v, ip)
     /\ UNCHANGED <<cache, broken>>
  \/ /\ op[p] = "read"
     /\ cache' = [cache EXCEPT ![p][cur[p]] = v]
     /\ tries' = [tries EXCEPT ![p] = 0]
     /\ Goto(p, "returned")
     /\ UNCHANGED <<refLock, todo, cur, tx, old, isPacked, broken>>
  \/ /\ op[p] \in {"pack", "list"}
     /\ ScanNext(p, v)
     /\ UNCHANGED <<refLock, tx, old, isPacked>>

\* stat_ref: a missing file means a packed or a missing reference.
ReadLstat(p) ==
  /\ pc[p] = "lstat" /\ tries[p] > 0
  /\ tries' = [tries EXCEPT ![p] = @ - 1]
  /\ Goto(p, IF loose[cur[p]] # NULL THEN "open" ELSE "readpacked")
  /\ UNCHANGED <<repo, op, todo, cur, tx, old, isPacked, snap, cache, broken, toPrune>>

\* remaining_retries is used up: the last errno, ENOENT, is returned.
ReadGiveUp(p) ==
  /\ pc[p] = "lstat" /\ tries[p] = 0
  /\ ReadReturn(p, NULL, FALSE)
  /\ UNCHANGED <<readOnly, op, snap, toPrune>>

\* Mutants: a vanished file is a missing reference; retry without a limit.
ReadOpenOnce(p) ==
  /\ pc[p] = "open"
  /\ ReadReturn(p, loose[cur[p]], FALSE)
  /\ UNCHANGED <<readOnly, op, snap, toPrune>>
ReadOpenForever(p) ==
  /\ pc[p] = "open"
  /\ IF loose[cur[p]] # NULL
     THEN ReadReturn(p, loose[cur[p]], FALSE)
     ELSE /\ Goto(p, "lstat")
          /\ tries' = [tries EXCEPT ![p] = MaxRetries]
          /\ UNCHANGED <<refLock, todo, cur, tx, old, isPacked, cache, broken>>
  /\ UNCHANGED <<readOnly, op, snap, toPrune>>

\* open() and read(); a file that vanished since the lstat() is retried.
ReadOpen(p) ==
  /\ pc[p] = "open"
  /\ IF loose[cur[p]] # NULL
     THEN ReadReturn(p, loose[cur[p]], FALSE)
     ELSE /\ Goto(p, "lstat")
          /\ UNCHANGED <<refLock, todo, cur, tx, old, isPacked, cache, broken, tries>>
  /\ UNCHANGED <<readOnly, op, snap, toPrune>>

\* packed_read_raw_ref(); get_snapshot() has just revalidated the snapshot.
ReadPacked(p) ==
  /\ pc[p] = "readpacked"
  /\ ReadReturn(p, packed[cur[p]], packed[cur[p]] # NULL)
  /\ UNCHANGED <<readOnly, op, snap, toPrune>>

ReadEnd(p) ==
  /\ pc[p] = "returned"
  /\ Finish(p)
  /\ UNCHANGED repo

-----------------------------------------------------------------------------
(* The packed-refs file under its lock *)

\* Mutant: packed-refs.lock is created without O_EXCL.
PackedRefsLockShared(p) ==
  /\ pc[p] = "packlock"
  /\ packedLock' = p
  /\ snap' = [snap EXCEPT ![p] = packed]
  /\ Goto(p, IF op[p] = "pack" THEN "scan" ELSE "packwrite")
  /\ UNCHANGED <<loose, packed, packedNew, newBy, refLock, logTip, op, todo,
                 cur, tx, old, isPacked, cache, broken, toPrune, tries>>

\* packed_refs_lock(): after locking, the snapshot is read afresh.
PackedRefsLock(p) ==
  /\ pc[p] = "packlock" /\ packedLock = Nobody
  /\ packedLock' = p
  /\ snap' = [snap EXCEPT ![p] = packed]
  /\ Goto(p, IF op[p] = "pack" THEN "scan" ELSE "packwrite")
  /\ UNCHANGED <<loose, packed, packedNew, newBy, refLock, logTip, op, todo,
                 cur, tx, old, isPacked, cache, broken, toPrune, tries>>

PackedLockTimeout(p) ==
  /\ pc[p] = "packlock" /\ packedLock # Nobody
  /\ Goto(p, "cleanup")
  /\ UNCHANGED <<repo, op, todo, cur, locals>>

\* Create packed-refs.new with O_EXCL and write content, or fail.
CreatePackedNew(p, content, next) ==
  \/ /\ newBy = Nobody
     /\ newBy' = p /\ packedNew' = content
     /\ Goto(p, next)
  \/ /\ newBy # Nobody
     /\ Goto(p, "cleanup")
     /\ UNCHANGED <<newBy, packedNew>>

\* is_packed_transaction_needed() and write_with_updates() for a deletion.
\* When nothing has to be removed the file stays locked but is not rewritten.
PackedPrepare(p) ==
  /\ pc[p] = "packwrite" /\ op[p] = "txn"
  /\ IF \E r \in Deletes(p) : snap[p][r] # NULL
     THEN CreatePackedNew(p, [r \in Refs |-> IF r \in Deletes(p) THEN NULL
                                             ELSE snap[p][r]], "prepared")
     ELSE Goto(p, "prepared") /\ UNCHANGED <<newBy, packedNew>>
  /\ snap' = [snap EXCEPT ![p] = AllNull]
  /\ UNCHANGED <<loose, packed, refLock, packedLock, logTip, op, todo, cur, tx,
                 old, isPacked, cache, broken, toPrune, tries>>

-----------------------------------------------------------------------------
(* Finishing a transaction: files_transaction_finish().  It is a sequence of
   loops over the updates; each is entered only if it has work to do. *)

\* The references the loop at label l visits
Work(p, l) ==
  {r \in DOMAIN tx[p] :
     \/ l = "commit" /\ r \in NeedsCommit(p)
     \/ l = "dellog" /\ r \in Deletes(p)
     \/ l = "unlink" /\ r \in Deletes(p) /\ ~isPacked[p][r]}

AfterPacked(p) == IF Work(p, "unlink") # {} THEN "unlink" ELSE "cleanup"
\* Mutants: packed-refs.new is never renamed; the reflog stays.
AfterReflogsUnpacked(p) == AfterPacked(p)
AfterReflogs(p) == IF newBy = p THEN "packfinish" ELSE AfterPacked(p)
AfterCommitsLogged(p) == AfterReflogs(p)
AfterCommits(p) ==
  IF op[p] = "txn" /\ Deletes(p) # {} THEN "dellog" ELSE AfterReflogs(p)

Enter(p, l) ==
  /\ Goto(p, l)
  /\ todo' = [todo EXCEPT ![p] = Work(p, l)]

\* r has been visited; l follows the last one.
Visited(p, r, l) ==
  IF todo[p] = {r}
  THEN Enter(p, l)
  ELSE todo' = [todo EXCEPT ![p] = @ \ {r}] /\ UNCHANGED pc

FinishBegin(p) ==
  /\ pc[p] = "prepared"
  /\ Enter(p, IF NeedsCommit(p) # {} THEN "commit" ELSE AfterCommits(p))
  /\ UNCHANGED <<repo, op, cur, locals>>

\* parse_and_write_reflog() of the next update
WriteReflog(p) ==
  /\ pc[p] = "commit" /\ cur[p] = NULL
  /\ \E r \in todo[p] :
       /\ logTip' = [logTip EXCEPT ![r] = tx[p][r].new]
       /\ cur' = [cur EXCEPT ![p] = r]
  /\ UNCHANGED <<loose, packed, packedNew, newBy, refLock, packedLock, pc, op,
                 todo, locals>>

\* commit_ref(): the rename publishes the value and removes the lock.
CommitRef(p) ==
  /\ pc[p] = "commit" /\ cur[p] # NULL
  /\ loose' = [loose EXCEPT ![cur[p]] = tx[p][cur[p]].new]
  /\ refLock' = [refLock EXCEPT ![cur[p]] = Nobody]
  /\ cur' = [cur EXCEPT ![p] = NULL]
  /\ Visited(p, cur[p], AfterCommits(p))
  /\ UNCHANGED <<packed, packedNew, newBy, packedLock, logTip, op, locals>>

\* Mutant: the reflog is left alone.
DeleteReflogNot(p) ==
  /\ pc[p] = "dellog"
  /\ \E r \in todo[p] : Visited(p, r, AfterReflogs(p))
  /\ UNCHANGED <<repo, op, cur, locals>>

\* unlink_or_warn() of the reflog: when that fails the file stays and the
\* deletion goes on.
DeleteReflog(p) ==
  /\ pc[p] = "dellog"
  /\ \E r \in todo[p] :
       /\ \/ logTip' = [logTip EXCEPT ![r] = NULL]
          \/ Faults /\ UNCHANGED logTip
       /\ Visited(p, r, AfterReflogs(p))
  /\ UNCHANGED <<loose, packed, packedNew, newBy, refLock, packedLock, op, cur,
                 locals>>

\* packed_transaction_finish(): rename packed-refs.new, keeping the lock
PackedFinish(p) ==
  /\ pc[p] = "packfinish"
  /\ packed' = packedNew /\ newBy' = Nobody /\ packedNew' = AllNull
  /\ Enter(p, AfterPacked(p))
  /\ UNCHANGED <<loose, refLock, packedLock, logTip, op, cur, locals>>

\* unlink_or_msg() of the loose file, unless the locked read found a packed one
UnlinkLoose(p) ==
  /\ pc[p] = "unlink"
  /\ \E r \in todo[p] :
       /\ loose' = [loose EXCEPT ![r] = NULL]
       /\ Visited(p, r, "cleanup")
  /\ UNCHANGED <<packed, packedNew, newBy, refLock, packedLock, logTip, op, cur,
                 locals>>

-----------------------------------------------------------------------------
(* Releasing everything: files_transaction_cleanup() *)

UnlockRef(p) ==
  /\ pc[p] = "cleanup"
  /\ \E r \in Refs : /\ refLock[r] = p
                     /\ refLock' = [refLock EXCEPT ![r] = Nobody]
  /\ UNCHANGED <<loose, packed, packedNew, newBy, packedLock, logTip, pc, op,
                 todo, cur, locals>>

\* Mutants: packed-refs stays locked; somebody else's lock is removed, too.
CleanupPackedLocked(p) ==
  /\ pc[p] = "cleanup"
  /\ \A r \in Refs : refLock[r] # p
  /\ newBy' = IF newBy = p THEN Nobody ELSE newBy
  /\ packedNew' = IF newBy = p THEN AllNull ELSE packedNew
  /\ \/ /\ op[p] = "prune"
        /\ Goto(p, "prunenext")
        /\ UNCHANGED <<op, todo, cur, locals>>
     \/ op[p] # "prune" /\ Finish(p)
  /\ UNCHANGED <<loose, packed, refLock, packedLock, logTip>>
CleanupPackedAny(p) ==
  /\ pc[p] = "cleanup"
  /\ \A r \in Refs : refLock[r] # p
  /\ newBy' = Nobody /\ packedNew' = AllNull /\ packedLock' = Nobody
  /\ \/ /\ op[p] = "prune"
        /\ Goto(p, "prunenext")
        /\ UNCHANGED <<op, todo, cur, locals>>
     \/ op[p] # "prune" /\ Finish(p)
  /\ UNCHANGED <<loose, packed, refLock, logTip>>

\* Abort the packed transaction, unlock packed-refs; a packer goes on pruning.
CleanupPacked(p) ==
  /\ pc[p] = "cleanup"
  /\ \A r \in Refs : refLock[r] # p
  /\ newBy' = IF newBy = p THEN Nobody ELSE newBy
  /\ packedNew' = IF newBy = p THEN AllNull ELSE packedNew
  /\ packedLock' = IF packedLock = p THEN Nobody ELSE packedLock
  /\ \/ /\ op[p] = "prune"
        /\ Goto(p, "prunenext")
        /\ UNCHANGED <<op, todo, cur, locals>>
     \/ op[p] # "prune" /\ Finish(p)
  /\ UNCHANGED <<loose, packed, refLock, logTip>>

-----------------------------------------------------------------------------
(* Packing: files_pack_refs() *)

\* With --auto, should_pack_refs() counts the loose references first, which
\* fills the loose reference cache before packed-refs is locked.
PackBegin(p) ==
  /\ p \in Packers /\ pc[p] = "idle"
  /\ op' = [op EXCEPT ![p] = "pack"]
  /\ todo' = [todo EXCEPT ![p] = Refs]
  /\ \E m \in PackModes : Goto(p, IF m = "auto" THEN "scan" ELSE "packlock")
  /\ UNCHANGED <<repo, cur, locals>>

\* loose_fill_ref_dir(): readdir() lists a file, which is then read like any
\* reference, or it does not.
ScanLoose(p) ==
  /\ pc[p] = "scan"
  /\ \E r \in todo[p] :
       \/ /\ loose[r] # NULL
          /\ cur' = [cur EXCEPT ![p] = r]
          /\ tries' = [tries EXCEPT ![p] = MaxRetries]
          /\ Goto(p, "lstat")
          /\ UNCHANGED <<todo, cache, broken>>
       \/ /\ loose[r] = NULL
          /\ todo' = [todo EXCEPT ![p] = @ \ {r}]
          /\ UNCHANGED <<pc, cur, cache, broken, tries>>
  /\ UNCHANGED <<repo, op, tx, old, isPacked, snap, toPrune>>

\* should_pack_refs() has decided, perhaps before visiting every reference.
PackDecided(p) ==
  /\ pc[p] = "scan" /\ op[p] = "pack" /\ packedLock # p
  /\ Goto(p, "packlock")
  /\ UNCHANGED <<repo, op, todo, cur, locals>>

PackNotNeeded(p) ==
  /\ pc[p] = "scan" /\ op[p] = "pack" /\ packedLock # p /\ todo[p] = {}
  /\ Finish(p)
  /\ UNCHANGED repo

\* write_with_updates() with every cached loose reference
PackWrite(p) ==
  /\ pc[p] = "scan" /\ op[p] = "pack" /\ packedLock = p /\ todo[p] = {}
  /\ CreatePackedNew(p, Overlay(cache[p], snap[p]), "packcommit")
  /\ \E prune \in BOOLEAN :
       toPrune' = [toPrune EXCEPT ![p] =
                     IF prune THEN {r \in Refs : cache[p][r] # NULL} ELSE {}]
  /\ snap' = [snap EXCEPT ![p] = AllNull]
  /\ UNCHANGED <<loose, packed, refLock, packedLock, logTip, op, todo, cur, tx,
                 old, isPacked, cache, broken, tries>>

\* packed_transaction_finish()
PackCommit(p) ==
  /\ pc[p] = "packcommit"
  /\ packed' = packedNew /\ newBy' = Nobody /\ packedNew' = AllNull
  /\ Goto(p, "packunlock")
  /\ UNCHANGED <<loose, refLock, packedLock, logTip, op, todo, cur, locals>>

PackUnlock(p) ==
  /\ pc[p] = "packunlock"
  /\ packedLock' = Nobody
  /\ Goto(p, "prunenext")
  /\ UNCHANGED <<loose, packed, packedNew, newBy, refLock, logTip, op, todo,
                 cur, locals>>

\* Mutant: the loose file is pruned whatever it holds now.
PruneRefAny(p) ==
  /\ pc[p] = "prunenext"
  /\ \E r \in toPrune[p] :
       /\ toPrune' = [toPrune EXCEPT ![p] = @ \ {r}]
       /\ tx' = [tx EXCEPT ![p] = [x \in {r} |-> [old |-> ANY, new |-> NULL]]]
       /\ todo' = [todo EXCEPT ![p] = {r}]
  /\ op' = [op EXCEPT ![p] = "prune"]
  /\ Goto(p, "lock")
  /\ UNCHANGED <<repo, cur, old, isPacked, snap, cache, broken, tries>>

\* prune_ref(): a transaction that deletes the loose file if the reference
\* still has the packed value (REF_IS_PRUNING)
PruneRef(p) ==
  /\ pc[p] = "prunenext"
  /\ \E r \in toPrune[p] :
       /\ toPrune' = [toPrune EXCEPT ![p] = @ \ {r}]
       /\ tx' = [tx EXCEPT ![p] =
                   [x \in {r} |-> [old |-> cache[p][r], new |-> NULL]]]
       /\ todo' = [todo EXCEPT ![p] = {r}]
  /\ op' = [op EXCEPT ![p] = "prune"]
  /\ Goto(p, "lock")
  /\ UNCHANGED <<repo, cur, old, isPacked, snap, cache, broken, tries>>

PruneDone(p) ==
  /\ pc[p] = "prunenext" /\ toPrune[p] = {}
  /\ Finish(p)
  /\ UNCHANGED repo

-----------------------------------------------------------------------------
(* Iterating: files_ref_iterator_begin(), loose references before packed *)

ListBegin(p) ==
  /\ p \in Readers /\ pc[p] = "idle"
  /\ op' = [op EXCEPT ![p] = "list"]
  /\ todo' = [todo EXCEPT ![p] = Refs]
  /\ Goto(p, "scan")
  /\ UNCHANGED <<repo, cur, locals>>

\* files_ref_iterator_advance() skips a broken reference.
ListPacked(p) ==
  /\ pc[p] = "scan" /\ op[p] = "list" /\ todo[p] = {}
  /\ cache' = [cache EXCEPT ![p] =
                 [r \in Refs |-> IF r \in broken[p] THEN NULL
                                 ELSE Overlay(cache[p], packed)[r]]]
  /\ Goto(p, "returned")
  /\ UNCHANGED <<repo, op, todo, cur, tx, old, isPacked, snap, broken, toPrune,
                 tries>>

-----------------------------------------------------------------------------
(* Failures *)

\* A signal, die(), a hook that says no, or a system call that fails: the
\* process removes the lock and temporary files it owns.  A pruner goes on with
\* the other references if it was only one transaction that failed.
Abort(p) ==
  /\ Faults /\ pc[p] \notin {"idle", "cleanup", "returned"}
  /\ Goto(p, "cleanup")
  /\ \E rest \in {toPrune[p], {}} : toPrune' = [toPrune EXCEPT ![p] = rest]
  /\ UNCHANGED <<repo, op, todo, cur, tx, old, isPacked, snap, cache, broken, tries>>

\* The process is killed or the machine stops; its files stay behind.
Crash(p) ==
  /\ Faults /\ pc[p] # "idle"
  /\ alive' = [alive EXCEPT ![p] = FALSE]
  /\ Finish(p)
  /\ UNCHANGED repo

\* "remove the file manually to continue": the user removes what a dead
\* process left, one file at a time.
RemoveStale(p) ==
  /\ ~alive[p]
  /\ \/ \E r \in Refs : /\ refLock[r] = p
                        /\ refLock' = [refLock EXCEPT ![r] = Nobody]
                        /\ UNCHANGED <<packedLock, newBy, packedNew>>
     \/ /\ packedLock = p /\ packedLock' = Nobody
        /\ UNCHANGED <<refLock, newBy, packedNew>>
     \/ /\ newBy = p /\ newBy' = Nobody /\ packedNew' = AllNull
        /\ UNCHANGED <<refLock, packedLock>>
  /\ UNCHANGED <<loose, packed, logTip, alive, pc, op, todo, cur, locals>>

\* Another process takes the place of a dead one that left nothing behind.
Respawn(p) ==
  /\ ~alive[p]
  /\ \A r \in Refs : refLock[r] # p
  /\ packedLock # p /\ newBy # p
  /\ alive' = [alive EXCEPT ![p] = TRUE]
  /\ UNCHANGED <<repo, pc, op, todo, cur, locals>>

-----------------------------------------------------------------------------

TxnStep(p) ==
  \/ TransactionBegin(p) \/ LockRef(p) \/ LockTimeout(p)
  \/ PackedPrepare(p) \/ FinishBegin(p) \/ WriteReflog(p) \/ CommitRef(p)
  \/ DeleteReflog(p) \/ PackedFinish(p) \/ UnlinkLoose(p)
  \/ UnlockRef(p) \/ CleanupPacked(p)

ReadStep(p) ==
  \/ ReadBegin(p) \/ ReadLstat(p) \/ ReadGiveUp(p) \/ ReadOpen(p)
  \/ ReadPacked(p) \/ ReadEnd(p) \/ ListBegin(p) \/ ListPacked(p)

PackStep(p) ==
  \/ PackBegin(p) \/ PackedRefsLock(p) \/ PackedLockTimeout(p) \/ ScanLoose(p)
  \/ PackDecided(p) \/ PackNotNeeded(p) \/ PackWrite(p) \/ PackCommit(p)
  \/ PackUnlock(p) \/ PruneRef(p) \/ PruneDone(p)

Step(p) ==
  \/ /\ alive[p]
     /\ TxnStep(p) \/ ReadStep(p) \/ PackStep(p) \/ Abort(p)
     /\ UNCHANGED alive
  \/ alive[p] /\ Crash(p)
  \/ RemoveStale(p)
  \/ Respawn(p)

\* Somebody has removed r from packed-refs and is about to unlink its file.
Deleting(r) == \E p \in Procs : pc[p] = "unlink" /\ r \in todo[p] /\ op[p] = "txn"

\* p has found r and lost it again MaxRetries times.
GivesUp(p, r) == pc[p] = "lstat" /\ tries[p] = 0 /\ cur[p] = r

\* p goes on with the deletion of r, whose reflog it could not unlink.
LeavesReflog(p, r) ==
  /\ pc[p] = "dellog" /\ r \in todo[p] /\ logTip'[r] # NULL
  /\ \/ pc'[p] \in {"packfinish", "unlink"}
     \/ pc'[p] = "dellog" /\ r \notin todo'[p]

\* The values a reference takes while somebody is reading it; one that is
\* half deleted, or that the reader cannot get hold of, counts as missing, too.
Observe ==
  /\ seen' = [p \in Procs |-> [r \in Refs |->
                IF op'[p] = "list" \/ (op'[p] = "read" /\ cur'[p] = r)
                THEN seen[p][r] \cup {Value(r), Value(r)'}
                                \cup (IF Deleting(r)' \/ GivesUp(p, r) THEN {NULL} ELSE {})
                ELSE {}]]
  /\ warned' = {r \in Refs : \E p \in Procs :
                  \/ LeavesReflog(p, r)
                  \/ /\ r \in warned /\ r \in Deletes(p)'
                     /\ pc'[p] \in {"dellog", "packfinish", "unlink"}}

Next == (\E p \in Procs : Step(p)) /\ Observe

Spec == Init /\ [][Next]_vars

\* An assumption the code does not enforce: while a packer runs, no reference is
\* set (back) to the value the packer has seen, and no deletion stops between
\* packed-refs and the loose file.
NoReturn ==
  \A p \in Packers, r \in Refs : op[p] \in {"pack", "prune"} =>
    /\ loose'[r] \notin {loose[r], NULL} => loose'[r] # cache[p][r]
    /\ Deleting(r) /\ ~Deleting(r)' => loose'[r] = NULL

SpecNoReturn == Init /\ [][Next /\ NoReturn]_vars

\* The scheduler runs every process that is inside a call.
Running(p) == pc[p] # "idle" /\ Step(p) /\ Observe
FairSpec == Spec /\ \A p \in Procs : WF_vars(Running(p))
-----------------------------------------------------------------------------
(* Properties *)

Labels == {"idle", "lock", "lstat", "open", "readpacked", "returned",
           "packlock", "packwrite", "prepared", "commit", "dellog", "packfinish",
           "unlink", "cleanup", "scan", "packcommit", "packunlock", "prunenext"}

TxType == UNION {[S -> UpdateType] : S \in SUBSET Refs}

TypeRepo ==
  /\ loose \in [Refs -> OidOrNull] /\ packed \in [Refs -> OidOrNull]
  /\ packedNew \in [Refs -> OidOrNull] /\ newBy \in Procs \cup {Nobody}
  /\ refLock \in [Refs -> Procs \cup {Nobody}]
  /\ packedLock \in Procs \cup {Nobody}
  /\ logTip \in [Refs -> OidOrNull]

TypeControl ==
  /\ pc \in [Procs -> Labels]
  /\ op \in [Procs -> {"none", "txn", "prune", "pack", "read", "list"}]
  /\ todo \in [Procs -> SUBSET Refs] /\ cur \in [Procs -> Refs \cup {NULL}]
  /\ toPrune \in [Procs -> SUBSET Refs]
  /\ tries \in [Procs -> 0 .. MaxRetries]

TypeData ==
  /\ old \in [Procs -> [Refs -> OidOrNull]]
  /\ isPacked \in [Procs -> [Refs -> BOOLEAN]]
  /\ snap \in [Procs -> [Refs -> OidOrNull]]
  /\ cache \in [Procs -> [Refs -> OidOrNull]]
  /\ broken \in [Procs -> SUBSET Refs]

TypeOK ==
  /\ TypeRepo /\ TypeControl /\ TypeData
  /\ alive \in [Procs -> BOOLEAN]
  /\ tx \in [Procs -> TxType]
  /\ seen \in [Procs -> [Refs -> SUBSET OidOrNull]]
  /\ warned \subseteq Refs

\* The references p has locked, read and neither changed nor given up.
Settled(p) ==
  {r \in DOMAIN tx[p] :
     /\ refLock[r] = p
     /\ \/ pc[p] \in {"lock", "lstat", "open", "readpacked"} /\ r \notin todo[p]
        \/ pc[p] \in {"packlock", "packwrite", "prepared", "commit", "dellog",
                      "packfinish"}
        \/ pc[p] = "unlink" /\ r \in todo[p]}

\* "Now we hold the lock and can read the reference without fear that its
\* value will change" (lock_raw_ref): from the locked read until the
\* transaction itself changes it, a reference has the value that was read,
\* whatever other writers, packers and pruners do.
LockedValueStable ==
  \A p \in Procs : op[p] \in {"txn", "prune"} =>
    \A r \in Settled(p) : Value(r) = old[p][r]

\* prune_ref(): "make sure nobody touched the ref, and unlink".  The loose file
\* a pruner is about to unlink holds nothing that packed-refs does not.
PrunedIsPacked ==
  \A p \in Procs : op[p] = "prune" /\ pc[p] = "unlink" =>
    \A r \in todo[p] : loose[r] \in {NULL, packed[r]}

\* read_ref_internal() without a lock returns a value the reference had at
\* some moment of the call, although it looks at two files one after the
\* other while references move between them.  Two exceptions: a reference whose
\* deletion is past packed-refs may already be reported missing, and so may one
\* that vanished between lstat() and open() as often as the code retries.
ReadRegular ==
  \A p \in Procs : op[p] = "read" /\ pc[p] = "returned" =>
    cache[p][cur[p]] \in seen[p][cur[p]]

\* files_ref_iterator_begin(): "this avoids a race condition if loose refs are
\* migrated to the packed-refs file by a simultaneous process"; each value
\* listed was current during the iteration, and a reference that existed
\* throughout is not missed, with the same exceptions.
ListConsistent ==
  \A p \in Procs : op[p] = "list" /\ pc[p] = "returned" =>
    \A r \in Refs : cache[p][r] \in seen[p][r]

\* files_transaction_cleanup() on every path: a process that is back in its
\* caller owns no lock and no temporary file.
NothingLeaked ==
  \A p \in Procs : alive[p] /\ pc[p] = "idle" =>
    /\ packedLock # p /\ newBy # p
    /\ \A r \in Refs : refLock[r] # p

\* What each label of a call says of its other local variables.
Control(p) ==
  /\ ~alive[p] => pc[p] = "idle"
  /\ pc[p] \in {"lock", "prepared", "commit", "dellog", "packfinish", "unlink"}
       => op[p] \in {"txn", "prune"}
  /\ pc[p] \in {"lstat", "open", "readpacked"} =>
       /\ op[p] \in {"txn", "prune", "read", "pack", "list"} /\ cur[p] \in Refs
       /\ op[p] # "read" => cur[p] \in todo[p]
  /\ pc[p] = "packwrite" => op[p] = "txn"
  /\ pc[p] \in {"packlock", "packwrite", "prepared"} /\ op[p] # "pack"
       => cur[p] = NULL
  /\ pc[p] \in {"packcommit", "packunlock"} => op[p] = "pack"
  /\ pc[p] = "packlock" => op[p] \in {"txn", "pack"}
  /\ pc[p] = "scan" => op[p] \in {"pack", "list"}
  /\ pc[p] = "returned" => op[p] \in {"read", "list"}
  /\ pc[p] = "prunenext" => op[p] \in {"pack", "prune"}
  /\ pc[p] \in {"lock", "lstat", "open", "readpacked"} /\ op[p] \in {"txn", "prune"}
       => todo[p] \subseteq DOMAIN tx[p]
  /\ pc[p] = "commit" =>
       /\ cur[p] \in todo[p] \cup {NULL}
       /\ \A r \in todo[p] : r \in DOMAIN tx[p] /\ tx[p][r].new \in Oids

\* The references p relies on having locked.
Held(p) ==
  {r \in Refs :
     \/ /\ pc[p] \in {"lock", "lstat", "open", "readpacked"}
        /\ op[p] \in {"txn", "prune"} /\ r \in DOMAIN tx[p] \ todo[p]
     \/ /\ pc[p] \in {"lstat", "open", "readpacked"}
        /\ op[p] \in {"txn", "prune"} /\ r = cur[p]
     \/ /\ pc[p] \in {"packlock", "packwrite", "prepared"} /\ op[p] # "pack"
        /\ r \in DOMAIN tx[p]
     \/ pc[p] \in {"commit", "unlink"} /\ r \in todo[p]
     \/ pc[p] \in {"commit", "dellog", "packfinish"} /\ r \in Deletes(p)}

\* p relies on having locked packed-refs.
HoldsPacked(p) ==
  \/ pc[p] \in {"packwrite", "packfinish", "packcommit", "packunlock"}
  \/ /\ pc[p] \in {"prepared", "commit", "dellog", "unlink"}
     /\ op[p] = "txn" /\ Deletes(p) # {}

\* What p relies on is locked by p, and what p owns it will still clean up.
OwnLocks(p) ==
  /\ \A r \in Held(p) : refLock[r] = p
  /\ HoldsPacked(p) => packedLock = p
  /\ pc[p] \in {"packfinish", "packcommit"} => newBy = p
  /\ alive[p] /\ (\E r \in Refs : refLock[r] = p) =>
       /\ op[p] \in {"txn", "prune"}
       /\ pc[p] \notin {"idle", "prunenext", "returned"}
  /\ alive[p] /\ packedLock = p =>
       /\ op[p] \in {"txn", "pack"}
       /\ pc[p] \notin {"idle", "lock", "prunenext", "returned"}
       /\ op[p] = "txn" => pc[p] \notin {"lstat", "open", "readpacked"}
  /\ alive[p] /\ newBy = p =>
       /\ packedLock = p
       /\ pc[p] \in {"prepared", "commit", "dellog", "packfinish", "packcommit",
                     "cleanup"}

\* Every <ref>.lock and packed-refs.lock a process relies on is its own, at
\* every step between lock_raw_ref() or packed_refs_lock() and the change the
\* lock protects; and whatever a process that has not died owns, a later
\* files_transaction_cleanup() or packed_refs_unlock() of it will release.
LockDiscipline == \A p \in Procs : OwnLocks(p)

\* A loose file changes only while a live process holds its <ref>.lock, and
\* packed-refs only while one holds packed-refs.lock.
ChangesAreLocked ==
  [][/\ \A r \in Refs : loose'[r] # loose[r] =>
          \E p \in Procs : alive[p] /\ refLock[r] = p
     /\ packed' # packed => \E p \in Procs : alive[p] /\ packedLock = p]_vars

\* A reference that is locked cannot vanish between lstat() and open().
LockedRead(p) ==
  op[p] \in {"txn", "prune"} =>
    /\ pc[p] = "lstat" => tries[p] = MaxRetries
    /\ pc[p] = "open" => loose[cur[p]] # NULL

\* So a read under the lock never uses up the retries of read_ref_internal(),
\* which would take an existing reference for a missing one.
LockedReadNeverRetries ==
  \A p \in Procs : op[p] \in {"txn", "prune"} /\ pc[p] = "lstat" =>
    tries[p] = MaxRetries

\* "leaving a reference without a reflog is less bad than leaving a reflog
\* without a reference" (files_transaction_finish): when a reference goes
\* away its reflog is gone, even if the process stops right there; only a
\* deletion that was refused the unlink of the reflog, and has warned of it,
\* takes the reference and leaves the reflog.
ReflogDiesFirst ==
  [][\A r \in Refs : Value(r) # NULL /\ Value(r)' = NULL =>
       logTip[r] = NULL \/ r \in warned]_vars

\* Without failures the last reflog entry of an unlocked reference names the
\* value it has.
ReflogMatches ==
  ~Faults => \A r \in Refs : refLock[r] = Nobody => logTip[r] = Value(r)

\* lock_file_timeout() bounds every wait, read_ref_internal() its retries: every
\* call returns, even when two transactions lock the same references in
\* opposite orders or hold one of the two kinds of lock the other needs.
Returns == \A p \in Procs : pc[p] # "idle" ~> pc[p] = "idle"

\* The updates of p that its prepared transaction has still to apply.
Prepared(p) ==
  IF op[p] = "txn" /\ pc[p] \in {"packlock", "packwrite", "prepared", "commit",
                                 "dellog", "packfinish", "unlink"}
  THEN [r \in Settled(p) |-> tx[p][r]]
  ELSE NoTx

Store == INSTANCE RefStore WITH
           val <- [r \in Refs |-> Value(r)],
           txn <- [p \in Procs |-> Prepared(p)]

\* The backend implements the abstract store: transactions are isolated from
\* the check of the old values to the last change, and packing, pruning,
\* failing and crashing change no value.
ImplementsRefStore == Store!Spec
=============================================================================
