---------------------------- MODULE ReftableStack ----------------------------
(***************************************************************************)
(* The "reftable" reference backend: a stack of immutable table files, the *)
(* names of which, oldest first, are in "tables.list" (reftable/stack.c,   *)
(* refs/reftable-backend.c).  Several processes share the directory; every *)
(* step is one system call another process can observe.                    *)
(*                                                                         *)
(*   addition    lock the list, bring the stack up to date, check the old  *)
(*               values, add a table, replace the list by a rename         *)
(*   compaction  lock the list and the tables of a range, unlock the list, *)
(*               merge, lock the list again, replace the range by one      *)
(*               table, then unlink the tables of the range                *)
(*   cleaning    remove the tables nobody lists                            *)
(*   reading     reload the stack if the list has changed, and look into   *)
(*               the tables that are open                                  *)
(***************************************************************************)
EXTENDS Naturals, Sequences, FiniteSets

CONSTANTS
  Writers, Packers, Readers,  \* the processes that may take each role
  Refs, Oids,
  NULL,                       \* the null oid; in a table, a deletion
  ANY, KEEP,                  \* an update without REF_HAVE_OLD, _NEW
  Nobody,                     \* owner of a lock that does not exist
  Transactions,               \* the transactions callers commit
  InitTables,                 \* the tables of the repository at the start
  MaxTables,                  \* bound on the tables ever written
  MaxTries,                   \* tries before a reload looks at its deadline
  Faulty                      \* the processes that may be killed or fail midway

Procs == Writers \cup Packers \cup Readers
OidOrNull == Oids \cup {NULL}
UpdateType == [old : OidOrNull \cup {ANY}, new : OidOrNull \cup {KEEP}]
TxType == UNION {[S -> UpdateType] : S \in SUBSET Refs}
Records == UNION {[S -> OidOrNull] : S \in SUBSET Refs}
Table == [min : Nat, max : Nat, recs : Records]

ASSUME ConstantsAssumption ==
  /\ NULL \notin Oids \cup Refs /\ ANY \notin OidOrNull /\ KEEP \notin OidOrNull
  /\ Nobody \notin Procs
  /\ Transactions \subseteq TxType
  /\ MaxTables \in Nat /\ MaxTries \in Nat \ {0}
  /\ InitTables \in Seq(Table) /\ Len(InitTables) <= MaxTables
  /\ \A i \in DOMAIN InitTables : InitTables[i].min <= InitTables[i].max
  /\ \A i, j \in DOMAIN InitTables : i < j => InitTables[i].max < InitTables[j].min
  /\ Faulty \subseteq Procs

VARIABLES
  \* the repository
  tab,         \* every table written so far; a table is known by its index
  files,       \* the tables that are in the directory
  list,        \* content of tables.list
  listLock,    \* owner of tables.list.lock
  tabLock,     \* owner of each <table>.lock
  \* the processes
  alive, pc, op,
  open,        \* reftable_new_stack() has returned a stack
  st,          \* st->tables
  names,       \* the list as a reload has read it
  tries,
  ret,         \* where a reload returns to
  dead,        \* tables to unlink
  tx,          \* the updates of the transaction, a function on its references
  new,         \* the table an addition or compaction writes, 0 if none
  first, last, \* the range of st to compact
  idx,         \* the next table of the range to lock, counting down
  lists        \* history: the lists there were since a reload began

repo == <<tab, files, list, listLock, tabLock>>
reloading == <<names, tries, ret>>
compacting == <<first, last, idx>>
vars == <<repo, alive, pc, op, open, st, reloading, dead, tx, new, compacting,
          lists>>

NoTx == [r \in {} |-> [old |-> ANY, new |-> KEEP]]
Listed(s) == {s[i] : i \in DOMAIN s}

-----------------------------------------------------------------------------
(* What a stack of tables means *)

\* The positions in s of the tables with a record for r
Holders(s, r) == {i \in DOMAIN s : r \in DOMAIN tab[s[i]].recs}

\* merged_iter_next_entry(), pq_less(): of several records with one key the one
\* of the newest table is returned and the others are skipped.
Newest(I) == CHOOSE i \in I : \A j \in I : j <= i

\* reftable_stack_read_ref(): a deletion is a missing reference.
View(s) ==
  [r \in Refs |-> IF Holders(s, r) = {} THEN NULL
                  ELSE tab[s[Newest(Holders(s, r))]].recs[r]]

\* Mutant: the index of the newest table is used again.
NextUpdateIndexSame(s) == IF s = <<>> THEN 1 ELSE tab[s[Len(s)]].max

NextUpdateIndex(s) == IF s = <<>> THEN 1 ELSE tab[s[Len(s)]].max + 1

\* check_old_oid of prepare_single_update()
OldMatches(u, v) == u.old = ANY \/ u.old = v

\* The records write_transaction_table() writes: an update that changes
\* nothing, or deletes what is not there, is not queued.
Written(u, v) ==
  [r \in {x \in DOMAIN u : u[x].new # KEEP /\ u[x].new # v[x]} |-> u[r].new]

-----------------------------------------------------------------------------

Init ==
  /\ tab = InitTables
  /\ files = DOMAIN InitTables
  /\ list = [i \in DOMAIN InitTables |-> i]
  /\ listLock = Nobody
  /\ tabLock = [t \in 1 .. MaxTables |-> Nobody]
  /\ alive = [p \in Procs |-> TRUE]
  /\ pc = [p \in Procs |-> "idle"]
  /\ op = [p \in Procs |-> "none"]
  /\ open = [p \in Procs |-> FALSE]
  /\ st = [p \in Procs |-> <<>>]
  /\ names = [p \in Procs |-> <<>>]
  /\ tries = [p \in Procs |-> 0]
  /\ ret = [p \in Procs |-> "idle"]
  /\ dead = [p \in Procs |-> {}]
  /\ tx = [p \in Procs |-> NoTx]
  /\ new = [p \in Procs |-> 0]
  /\ first = [p \in Procs |-> 0]
  /\ last = [p \in Procs |-> 0]
  /\ idx = [p \in Procs |-> 0]
  /\ lists = [p \in Procs |-> {}]

Goto(p, l) == pc' = [pc EXCEPT ![p] = l]

\* The call returns; the stack stays loaded.
Finish(p) ==
  /\ pc' = [pc EXCEPT ![p] = "idle"]
  /\ op' = [op EXCEPT ![p] = "none"]
  /\ names' = [names EXCEPT ![p] = <<>>]
  /\ tries' = [tries EXCEPT ![p] = 0]
  /\ ret' = [ret EXCEPT ![p] = "idle"]
  /\ dead' = [dead EXCEPT ![p] = {}]
  /\ tx' = [tx EXCEPT ![p] = NoTx]
  /\ new' = [new EXCEPT ![p] = 0]
  /\ first' = [first EXCEPT ![p] = 0]
  /\ last' = [last EXCEPT ![p] = 0]
  /\ idx' = [idx EXCEPT ![p] = 0]

\* An error: what l has still to undo is undone, then the call returns.
Fail(p, l) ==
  /\ Goto(p, l)
  /\ ret' = [ret EXCEPT ![p] = "end"]

-----------------------------------------------------------------------------
(* Reloading: reftable_stack_reload_maybe_reuse() *)

\* Start a reload that returns to l.
Reload(p, l) ==
  /\ Goto(p, "readlist")
  /\ ret' = [ret EXCEPT ![p] = l]
  /\ tries' = [tries EXCEPT ![p] = 0]
  /\ UNCHANGED names

\* Read tables.list.
ReadList(p) ==
  /\ pc[p] = "readlist"
  /\ names' = [names EXCEPT ![p] = list]
  /\ tries' = [tries EXCEPT ![p] = IF @ < MaxTries THEN @ + 1 ELSE @]
  /\ Goto(p, "opentables")
  /\ UNCHANGED <<repo, op, open, st, ret, dead, tx, new, compacting>>

\* The deadline has passed; err is still 0 and the stack is what it was.  A new
\* stack has no merged table then, and its first use ends the process.
ReloadDeadline(p) ==
  /\ pc[p] = "readlist" /\ tries[p] = MaxTries
  /\ IF open[p]
     THEN /\ Goto(p, ret[p])
          /\ UNCHANGED <<op, names, tries, ret, dead, tx, new, compacting>>
     ELSE Finish(p)
  /\ UNCHANGED <<repo, open, st>>

\* The files of D have still to be unlinked before the reload returns.
Unlinking(p, D) ==
  /\ dead' = [dead EXCEPT ![p] = D]
  /\ IF D = {}
     THEN /\ Goto(p, ret[p])
          /\ names' = [names EXCEPT ![p] = <<>>]
          /\ tries' = [tries EXCEPT ![p] = 0]
     ELSE Goto(p, "unlinkold") /\ UNCHANGED <<names, tries>>

\* Mutant: every table that was open is unlinked, listed or not.
ReloadOnceUnlinksAll(p) ==
  /\ pc[p] = "opentables"
  /\ IF Listed(names[p]) \subseteq files \cup Listed(st[p])
     THEN /\ st' = [st EXCEPT ![p] = names[p]]
          /\ open' = [open EXCEPT ![p] = TRUE]
          /\ Unlinking(p, Listed(st[p]))
     ELSE Goto(p, "recheck") /\ UNCHANGED <<open, st, names, tries, dead>>
  /\ UNCHANGED <<repo, op, ret, tx, new, compacting>>

\* reftable_stack_reload_once(): reuse the tables that are open, open the
\* others; a file that does not exist fails the whole reload.
ReloadOnce(p) ==
  /\ pc[p] = "opentables"
  /\ IF Listed(names[p]) \subseteq files \cup Listed(st[p])
     THEN /\ st' = [st EXCEPT ![p] = names[p]]
          /\ open' = [open EXCEPT ![p] = TRUE]
          /\ Unlinking(p, Listed(st[p]) \ Listed(names[p]))
     ELSE Goto(p, "recheck") /\ UNCHANGED <<open, st, names, tries, dead>>
  /\ UNCHANGED <<repo, op, ret, tx, new, compacting>>

\* "Close the old, non-reused tables and proactively try to unlink them."
UnlinkOld(p) ==
  /\ pc[p] = "unlinkold"
  /\ \E t \in dead[p] : files' = files \ {t} /\ Unlinking(p, dead[p] \ {t})
  /\ UNCHANGED <<tab, list, listLock, tabLock, op, open, st, ret, tx, new,
                 compacting>>

\* "REFTABLE_NOT_EXIST_ERROR can be caused by a concurrent writer.  Check if
\* there was one by checking if the name list changed."
Recheck(p) ==
  /\ pc[p] = "recheck"
  /\ IF names[p] = list THEN Fail(p, "release") ELSE Goto(p, "readlist") /\ UNCHANGED ret
  /\ UNCHANGED <<repo, op, open, st, names, tries, dead, tx, new, compacting>>

-----------------------------------------------------------------------------
(* Adding a table: reftable_be_transaction_prepare(), _finish() *)

TransactionBegin(p) ==
  /\ p \in Writers /\ pc[p] = "idle" /\ open[p]
  /\ \E u \in Transactions : tx' = [tx EXCEPT ![p] = u]
  /\ op' = [op EXCEPT ![p] = "txn"]
  /\ Goto(p, "lock")
  /\ UNCHANGED <<repo, open, st, reloading, dead, new, compacting>>

\* reftable_stack_init_addition() with REFTABLE_STACK_NEW_ADDITION_RELOAD:
\* lock tables.list, reload the stack unless stack_uptodate().
InitAddition(p) ==
  /\ pc[p] = "lock" /\ listLock = Nobody
  /\ listLock' = p
  /\ \/ st[p] = list /\ Goto(p, "locked") /\ UNCHANGED reloading
     \/ st[p] # list /\ Reload(p, "locked")
  /\ UNCHANGED <<tab, files, list, tabLock, op, open, st, dead, tx, new,
                 compacting>>

\* prepare_single_update() for every update: each old value is checked in the
\* loaded stack; with REF_TRANSACTION_ALLOW_FAILURE those that do not match are
\* rejected, otherwise the first of them ends the transaction.
PrepareUpdates(p) ==
  LET good == {r \in DOMAIN tx[p] : OldMatches(tx[p][r], View(st[p])[r])}
  IN  /\ pc[p] = "locked"
      /\ \/ /\ tx' = [tx EXCEPT ![p] = [r \in good |-> tx[p][r]]]
            /\ Goto(p, "prepared")
            /\ UNCHANGED ret
         \/ good # DOMAIN tx[p] /\ Fail(p, "release") /\ UNCHANGED tx
      /\ UNCHANGED <<repo, op, open, st, names, tries, dead, new, compacting>>

\* Write t into a file of its own and move it into place.
AddTable(p, t) ==
  /\ Len(tab) < MaxTables
  /\ tab' = Append(tab, t)
  /\ files' = files \cup {Len(tab) + 1}
  /\ new' = [new EXCEPT ![p] = Len(tab) + 1]

\* reftable_addition_add(), write_transaction_table(); an empty table is not kept,
\* and on a disk that is full (MaxTables) the addition fails.
AdditionAdd(p) ==
  LET recs == Written(tx[p], View(st[p]))
      n == NextUpdateIndex(st[p])
  IN  /\ pc[p] = "prepared"
      /\ \/ /\ DOMAIN recs # {}
            /\ AddTable(p, [min |-> n, max |-> n, recs |-> recs])
            /\ Goto(p, "commit")
            /\ UNCHANGED ret
         \/ /\ DOMAIN recs = {} \/ Len(tab) = MaxTables
            /\ Fail(p, "release")
            /\ UNCHANGED <<tab, files, new>>
      /\ UNCHANGED <<list, listLock, tabLock, op, open, st, names, tries, dead,
                     tx, compacting>>

\* reftable_addition_commit(): the rename publishes the list and removes the
\* lock; the stack is reloaded.
AdditionCommit(p) ==
  /\ pc[p] = "commit"
  /\ list' = Append(st[p], new[p])
  /\ listLock' = Nobody
  /\ tx' = [tx EXCEPT ![p] = NoTx]
  /\ new' = [new EXCEPT ![p] = 0]
  /\ Reload(p, "compact")
  /\ UNCHANGED <<tab, files, tabLock, op, open, st, dead, compacting>>

\* Mutant: wait without a limit.
LockTimeoutNever(p) ==
  /\ pc[p] \in {"lock", "compact", "relock", "clean"} /\ listLock # Nobody
  /\ pc[p] = "compact" => Len(st[p]) >= 2
  /\ UNCHANGED <<repo, pc, op, open, st, reloading, dead, tx, new, compacting>>

\* The lock is still held by somebody else when the timeout has elapsed.
LockTimeout(p) ==
  /\ pc[p] \in {"lock", "compact", "relock", "clean"} /\ listLock # Nobody
  /\ pc[p] = "compact" => Len(st[p]) >= 2
  /\ Fail(p, "release")
  /\ UNCHANGED <<repo, op, open, st, names, tries, dead, tx, new, compacting>>

\* reftable_addition_close() and the end of stack_compact_range(): a table that
\* did not get listed is removed, then the locks are.
UndoTable(p) ==
  /\ pc[p] = "undo"
  /\ files' = files \ {new[p]}
  /\ new' = [new EXCEPT ![p] = 0]
  /\ Goto(p, "release")
  /\ UNCHANGED <<tab, list, listLock, tabLock, op, open, st, reloading, dead, tx,
                 compacting>>

ReleaseList(p) ==
  /\ pc[p] = "release" /\ listLock = p
  /\ listLock' = Nobody
  /\ UNCHANGED <<tab, files, list, tabLock, pc, op, open, st, reloading, dead, tx,
                 new, compacting>>

ReleaseTable(p) ==
  /\ pc[p] = "release" /\ listLock # p
  /\ \E t \in 1 .. MaxTables : /\ tabLock[t] = p
                               /\ tabLock' = [tabLock EXCEPT ![t] = Nobody]
  /\ UNCHANGED <<tab, files, list, listLock, pc, op, open, st, reloading, dead,
                 tx, new, compacting>>

\* Mutant: the locks of the tables stay.
ReleasedListOnly(p) ==
  /\ pc[p] = "release" /\ listLock # p
  /\ \/ /\ ret[p] = "clean" /\ Goto(p, "clean")
        /\ UNCHANGED <<op, reloading, dead, tx, new, compacting>>
     \/ ret[p] # "clean" /\ Finish(p)
  /\ UNCHANGED <<repo, open, st>>

\* Nothing is locked any more; git pack-refs goes on with the cleaning.
Released(p) ==
  /\ pc[p] = "release" /\ listLock # p
  /\ \A t \in 1 .. MaxTables : tabLock[t] # p
  /\ \/ /\ ret[p] = "clean" /\ Goto(p, "clean")
        /\ UNCHANGED <<op, reloading, dead, tx, new, compacting>>
     \/ ret[p] # "clean" /\ Finish(p)
  /\ UNCHANGED <<repo, open, st>>

-----------------------------------------------------------------------------
(* Compacting: stack_compact_range() *)

\* git pack-refs: reftable_be_pack_refs() compacts everything, or with --auto
\* what reftable_stack_auto_compact() suggests, as an addition does in the end.
PackBegin(p) ==
  /\ p \in Packers /\ pc[p] = "idle" /\ open[p]
  /\ \E m \in {"all", "auto"} : op' = [op EXCEPT ![p] = m]
  /\ Goto(p, "compact")
  /\ UNCHANGED <<repo, open, st, reloading, dead, tx, new, compacting>>

\* What follows a compaction: git pack-refs goes on with the cleaning.
Compacted(p) ==
  /\ Goto(p, "release")
  /\ ret' = [ret EXCEPT ![p] = IF op[p] = "txn" THEN "end" ELSE "clean"]

\* There are fewer than two tables, or suggest_compaction_segment() finds nothing.
CompactNothing(p) ==
  /\ pc[p] = "compact"
  /\ op[p] = "all" => Len(st[p]) < 2
  /\ Compacted(p)
  /\ UNCHANGED <<repo, op, open, st, names, tries, dead, tx, new, compacting>>

\* Lock tables.list; "we unfortunately cannot handle the situation gracefully in
\* case it's not up-to-date".  The range has at least two tables.  The sizes that
\* suggest_compaction_segment() looks at are not modelled here: it may suggest
\* any range.
CompactLock(p) ==
  /\ pc[p] = "compact" /\ Len(st[p]) >= 2 /\ listLock = Nobody
  /\ listLock' = p
  /\ \/ \E f, l \in DOMAIN st[p] :
          /\ st[p] = list
          /\ f < l
          /\ op[p] = "all" => f = 1 /\ l = Len(st[p])
          /\ first' = [first EXCEPT ![p] = f]
          /\ last' = [last EXCEPT ![p] = l]
          /\ idx' = [idx EXCEPT ![p] = l]
          /\ Goto(p, "locktables")
          /\ UNCHANGED ret
     \/ st[p] # list /\ Fail(p, "release") /\ UNCHANGED compacting
  /\ UNCHANGED <<tab, files, list, tabLock, op, open, st, names, tries, dead, tx, new>>

\* Mutant: a table that is locked does not stop the loop.
LockTableAny(p) ==
  /\ pc[p] = "locktables" /\ idx[p] >= first[p]
  /\ tabLock' = [tabLock EXCEPT ![st[p][idx[p]]] = p]
  /\ idx' = [idx EXCEPT ![p] = @ - 1]
  /\ UNCHANGED <<tab, files, list, listLock, pc, op, open, st, reloading, dead,
                 tx, new, first, last>>

\* "We lock tables in reverse order from last to first", without waiting.
LockTable(p) ==
  /\ pc[p] = "locktables" /\ idx[p] >= first[p]
  /\ tabLock[st[p][idx[p]]] = Nobody
  /\ tabLock' = [tabLock EXCEPT ![st[p][idx[p]]] = p]
  /\ idx' = [idx EXCEPT ![p] = @ - 1]
  /\ UNCHANGED <<tab, files, list, listLock, pc, op, open, st, reloading, dead,
                 tx, new, first, last>>

\* A table of the range is locked by somebody else.  With
\* STACK_COMPACT_RANGE_BEST_EFFORT the tables locked so far are compacted if
\* there are two.
TableIsLocked(p) ==
  /\ pc[p] = "locktables" /\ idx[p] >= first[p]
  /\ tabLock[st[p][idx[p]]] # Nobody
  /\ IF op[p] # "all" /\ last[p] - idx[p] >= 2
     THEN first' = [first EXCEPT ![p] = idx[p] + 1] /\ UNCHANGED <<pc, ret>>
     ELSE Fail(p, "release") /\ UNCHANGED first
  /\ UNCHANGED <<repo, op, open, st, names, tries, dead, tx, new, last, idx>>

\* "We have locked all tables in our range and can thus release the tables.list
\* lock while compacting the locked tables."
CompactUnlock(p) ==
  /\ pc[p] = "locktables" /\ idx[p] < first[p]
  /\ listLock' = Nobody
  /\ Goto(p, "relock")
  /\ UNCHANGED <<tab, files, list, tabLock, op, open, st, reloading, dead, tx,
                 new, compacting>>

Segment(p) == SubSeq(st[p], first[p], last[p])

\* Where s has the range p has compacted: the offset of its first table, if the
\* tables that follow are the same, too.
Offsets(p, s) ==
  {i \in DOMAIN s : /\ i + last[p] - first[p] <= Len(s)
                    /\ SubSeq(s, i, i + last[p] - first[p]) = Segment(p)}

\* stack_compact_locked() has merged the range into a temporary file; lock
\* tables.list again and look for the range in it.
CompactRelock(p) ==
  /\ pc[p] = "relock" /\ listLock = Nobody
  /\ listLock' = p
  /\ names' = [names EXCEPT ![p] = list]
  /\ IF Offsets(p, list) # {} THEN Goto(p, "rename") /\ UNCHANGED ret
     ELSE Fail(p, "release")
  /\ UNCHANGED <<tab, files, list, tabLock, op, open, st, tries, dead, tx, new,
                 compacting>>

\* Mutant: deletions are dropped although older tables stay.
MergedNoTombstones(p) ==
  LET s == Segment(p)
      keep == {r \in Refs : Holders(s, r) # {} /\ View(s)[r] # NULL}
  IN  [min |-> tab[st[p][first[p]]].min, max |-> tab[st[p][last[p]]].max,
       recs |-> [r \in keep |-> View(s)[r]]]

\* stack_write_compact(): the newest record of each reference; deletions only
\* where there are older tables.
Merged(p) ==
  LET s == Segment(p)
      keep == {r \in Refs : /\ Holders(s, r) # {}
                            /\ first[p] = 1 => View(s)[r] # NULL}
  IN  [min |-> tab[st[p][first[p]]].min, max |-> tab[st[p][last[p]]].max,
       recs |-> [r \in keep |-> View(s)[r]]]

\* Move the new table into place, unless it is empty.
CompactRename(p) ==
  /\ pc[p] = "rename"
  /\ \/ /\ \/ DOMAIN Merged(p).recs # {} /\ AddTable(p, Merged(p))
           \/ DOMAIN Merged(p).recs = {} /\ UNCHANGED <<tab, files, new>>
        /\ Goto(p, "replace")
        /\ UNCHANGED ret
     \/ /\ DOMAIN Merged(p).recs # {} /\ Len(tab) = MaxTables
        /\ Fail(p, "release")
        /\ UNCHANGED <<tab, files, new>>
  /\ UNCHANGED <<list, listLock, tabLock, op, open, st, names, tries, dead, tx,
                 compacting>>

\* The list with the range replaced by the new table
Replaced(p) ==
  LET o == CHOOSE i \in Offsets(p, names[p]) : TRUE
  IN  SubSeq(names[p], 1, o - 1)
      \o (IF new[p] = 0 THEN <<>> ELSE <<new[p]>>)
      \o SubSeq(names[p], o + last[p] - first[p] + 1, Len(names[p]))

\* Publish the list, which removes the lock, and reload the stack.
CompactCommit(p) ==
  /\ pc[p] = "replace"
  /\ list' = Replaced(p)
  /\ listLock' = Nobody
  /\ new' = [new EXCEPT ![p] = 0]
  /\ Reload(p, "compacted")
  /\ UNCHANGED <<tab, files, tabLock, op, open, st, dead, tx, compacting>>

\* "Delete the old tables", which are those that were locked.  The reload has
\* already unlinked them, unless it ran into its deadline.
CompactUnlink(p) ==
  /\ pc[p] = "compacted"
  /\ files' = {t \in files : tabLock[t] # p}
  /\ Compacted(p)
  /\ UNCHANGED <<tab, list, listLock, tabLock, op, open, st, names, tries, dead,
                 tx, new, compacting>>

-----------------------------------------------------------------------------
(* Cleaning: reftable_stack_clean() *)

\* Mutant: the directory is cleaned without the lock.
CleanLockNot(p) ==
  /\ pc[p] = "clean"
  /\ IF st[p] = list THEN Goto(p, "cleaning") /\ UNCHANGED ret ELSE Fail(p, "release")
  /\ UNCHANGED <<repo, op, open, st, names, tries, dead, tx, new, compacting>>

\* reftable_stack_new_addition() without the flag to reload
CleanLock(p) ==
  /\ pc[p] = "clean" /\ listLock = Nobody
  /\ listLock' = p
  /\ \/ st[p] = list /\ Goto(p, "cleaning") /\ UNCHANGED ret
     \/ st[p] # list /\ Fail(p, "release")
  /\ UNCHANGED <<tab, files, list, tabLock, op, open, st, names, tries, dead, tx,
                 new, compacting>>

\* remove_maybe_stale_table() for what is in the directory and not in the stack
Stale(p) == {t \in files \ Listed(st[p]) : tab[t].max < NextUpdateIndex(st[p])}

CleanUnlink(p) ==
  /\ pc[p] = "cleaning"
  /\ \/ \E t \in Stale(p) : files' = files \ {t} /\ UNCHANGED <<pc, ret>>
     \/ Stale(p) = {} /\ Fail(p, "release") /\ UNCHANGED files
  /\ UNCHANGED <<tab, list, listLock, tabLock, op, open, st, names, tries, dead,
                 tx, new, compacting>>

-----------------------------------------------------------------------------
(* Opening, reading and closing *)

OpenBegin(p) ==
  /\ pc[p] = "idle" /\ ~open[p]
  /\ op' = [op EXCEPT ![p] = "open"]
  /\ Reload(p, "release")
  /\ UNCHANGED <<repo, open, st, dead, tx, new, compacting>>

\* Mutant: the stack is not reloaded.
ReadBeginStale(p) ==
  /\ p \in Readers /\ pc[p] = "idle" /\ open[p]
  /\ op' = [op EXCEPT ![p] = "read"]
  /\ Goto(p, "read")
  /\ UNCHANGED <<repo, open, st, reloading, dead, tx, new, compacting>>

\* reftable_stack_reload(), as backend_for() calls it before every read
ReadBegin(p) ==
  /\ p \in Readers /\ pc[p] = "idle" /\ open[p]
  /\ op' = [op EXCEPT ![p] = "read"]
  /\ \/ st[p] = list /\ Goto(p, "read") /\ UNCHANGED reloading
     \/ st[p] # list /\ Reload(p, "read")
  /\ UNCHANGED <<repo, open, st, dead, tx, new, compacting>>

ReadEnd(p) ==
  /\ pc[p] = "read"
  /\ Finish(p)
  /\ UNCHANGED <<repo, open, st>>

\* reftable_stack_destroy(): what is loaded and not listed any more is unlinked.
Close(p) ==
  /\ pc[p] = "idle" /\ open[p]
  /\ op' = [op EXCEPT ![p] = "close"]
  /\ dead' = [dead EXCEPT ![p] = Listed(st[p]) \ Listed(list)]
  /\ st' = [st EXCEPT ![p] = <<>>]
  /\ open' = [open EXCEPT ![p] = FALSE]
  /\ ret' = [ret EXCEPT ![p] = "release"]
  /\ Goto(p, IF Listed(st[p]) \subseteq Listed(list) THEN "release" ELSE "unlinkold")
  /\ UNCHANGED <<repo, names, tries, tx, new, compacting>>

-----------------------------------------------------------------------------
(* Failures *)

\* A system call fails or a hook says no: the call undoes what it did.
Abort(p) ==
  /\ p \in Faulty
  /\ pc[p] \in {"readlist", "locked", "prepared", "commit", "locktables",
                "relock", "rename", "replace"}
  /\ Fail(p, IF new[p] # 0 THEN "undo" ELSE "release")
  /\ UNCHANGED <<repo, op, open, st, names, tries, dead, tx, new, compacting>>

\* The process is killed; its lock files and tables stay behind.
Crash(p) ==
  /\ p \in Faulty /\ pc[p] # "idle"
  /\ alive' = [alive EXCEPT ![p] = FALSE]
  /\ open' = [open EXCEPT ![p] = FALSE]
  /\ st' = [st EXCEPT ![p] = <<>>]
  /\ Finish(p)
  /\ UNCHANGED repo

\* The user, or the handler of a signal that was not SIGKILL, removes a lock a
\* dead process left.
RemoveStale(p) ==
  /\ ~alive[p]
  /\ \/ listLock = p /\ listLock' = Nobody /\ UNCHANGED tabLock
     \/ \E t \in 1 .. MaxTables : /\ tabLock[t] = p
                                  /\ tabLock' = [tabLock EXCEPT ![t] = Nobody]
                                  /\ UNCHANGED listLock
  /\ UNCHANGED <<tab, files, list, alive, pc, op, open, st, reloading, dead, tx,
                 new, compacting>>

\* Another process takes the place of a dead one that left no lock behind.
Respawn(p) ==
  /\ ~alive[p]
  /\ listLock # p /\ \A t \in 1 .. MaxTables : tabLock[t] # p
  /\ alive' = [alive EXCEPT ![p] = TRUE]
  /\ UNCHANGED <<repo, pc, op, open, st, reloading, dead, tx, new, compacting>>

-----------------------------------------------------------------------------

ReloadStep(p) ==
  \/ ReadList(p) \/ ReloadDeadline(p) \/ ReloadOnce(p) \/ UnlinkOld(p)
  \/ Recheck(p)

AdditionStep(p) ==
  \/ TransactionBegin(p) \/ InitAddition(p) \/ PrepareUpdates(p) \/ AdditionAdd(p)
  \/ AdditionCommit(p) \/ LockTimeout(p) \/ UndoTable(p) \/ ReleaseList(p)
  \/ ReleaseTable(p) \/ Released(p)

CompactStep(p) ==
  \/ PackBegin(p) \/ CompactNothing(p) \/ CompactLock(p) \/ LockTable(p)
  \/ TableIsLocked(p) \/ CompactUnlock(p) \/ CompactRelock(p) \/ CompactRename(p)
  \/ CompactCommit(p) \/ CompactUnlink(p) \/ CleanLock(p) \/ CleanUnlink(p)

ReadStep(p) == OpenBegin(p) \/ ReadBegin(p) \/ ReadEnd(p) \/ Close(p)

Step(p) ==
  \/ /\ alive[p]
     /\ ReloadStep(p) \/ AdditionStep(p) \/ CompactStep(p) \/ ReadStep(p) \/ Abort(p)
     /\ UNCHANGED alive
  \/ alive[p] /\ Crash(p)
  \/ RemoveStale(p)
  \/ Respawn(p)

\* The lists there are while p reads
Observe ==
  lists' = [p \in Procs |-> IF op'[p] = "read" THEN lists[p] \cup {list, list'} ELSE {}]

Next == (\E p \in Procs : Step(p)) /\ Observe

Spec == Init /\ [][Next]_vars

\* The scheduler runs every process that is inside a call.
Running(p) == pc[p] # "idle" /\ Step(p) /\ Observe
FairSpec == Spec /\ \A p \in Procs : WF_vars(Running(p))

-----------------------------------------------------------------------------
(* Properties *)

Labels == {"idle", "readlist", "opentables", "unlinkold", "recheck", "lock",
           "locked", "prepared", "commit", "undo", "release", "compact", "locktables",
           "relock", "rename", "replace", "compacted",
           "clean", "cleaning", "read"}

TypeRepo ==
  /\ tab \in Seq(Table) /\ Len(tab) <= MaxTables
  /\ files \subseteq 1 .. Len(tab)
  /\ list \in Seq(1 .. Len(tab))
  /\ listLock \in Procs \cup {Nobody}
  /\ tabLock \in [1 .. MaxTables -> Procs \cup {Nobody}]

TypeControl ==
  /\ alive \in [Procs -> BOOLEAN] /\ open \in [Procs -> BOOLEAN]
  /\ pc \in [Procs -> Labels]
  /\ op \in [Procs -> {"none", "txn", "all", "auto", "read", "open", "close"}]
  /\ tries \in [Procs -> 0 .. MaxTries]
  /\ ret \in [Procs -> {"idle", "end", "locked", "compact", "compacted", "clean",
                        "read", "release"}]
  /\ first \in [Procs -> Nat] /\ last \in [Procs -> Nat] /\ idx \in [Procs -> Nat]

TypeData ==
  /\ st \in [Procs -> Seq(1 .. Len(tab))]
  /\ names \in [Procs -> Seq(1 .. Len(tab))]
  /\ dead \in [Procs -> SUBSET (1 .. Len(tab))]
  /\ new \in [Procs -> 0 .. Len(tab)]
  /\ tx \in [Procs -> TxType]

TypeOK ==
  /\ TypeRepo /\ TypeControl /\ TypeData
  /\ \A p \in Procs : lists[p] \subseteq Seq(1 .. Len(tab))

\* Every table tables.list names is in the directory, at every moment, although
\* compactions, cleanings, reloads and closing processes all unlink tables
\* without holding the lock of the list or knowing of each other.
ListedTablesExist == Listed(list) \subseteq files

\* A reload that misses a table always finds that the list has changed, so
\* reftable_stack_reload_maybe_reuse() never returns REFTABLE_NOT_EXIST_ERROR.
MissingMeansChanged == \A p \in Procs : pc[p] = "recheck" => names[p] # list

\* A process that has locked tables.list reloads at the first try: it never
\* reaches the deadline, after which it would write a list without the tables
\* others have added.
LockedReloadSucceeds == \A p \in Procs : pc[p] = "recheck" => listLock # p

\* "This shouldn't ever happen because we have locked the tables we are
\* compacting": the range is found in the list after it was unlocked and locked.
LockedRangeStays ==
  \A p \in Procs : pc[p] \in {"relock", "rename", "replace"} => Offsets(p, list) # {}

\* The update indices of the tables of the list increase and do not overlap, so
\* that reftable_stack_next_update_index() is greater than all of them.
IndicesIncrease ==
  \A i, j \in DOMAIN list : i < j => tab[list[i]].max < tab[list[j]].min

\* The list is a stack of existing tables, each with later updates than the ones
\* below it.
StackWellFormed == ListedTablesExist /\ IndicesIncrease

\* What a process looks for is there: a reload never fails for good, under the
\* lock of the list not even once, and a compaction finds its range again.
NothingMissing == MissingMeansChanged /\ LockedReloadSucceeds /\ LockedRangeStays

\* What a read sees is one of the lists there were since it began to reload, as
\* a whole, unless the reload ran into its deadline.
ReadIsSnapshot ==
  \A p \in Procs : pc[p] = "read" => st[p] \in lists[p] \/ tries[p] = MaxTries

\* A call that has returned, on whichever path, has released tables.list.lock and
\* the locks of all tables it meant to compact.
NothingLeaked ==
  \A p \in Procs : alive[p] /\ pc[p] = "idle" =>
    listLock # p /\ \A t \in 1 .. MaxTables : tabLock[t] # p

\* Waiting for a lock is bounded, and so is retrying a reload.
Returns == \A p \in Procs : pc[p] # "idle" ~> pc[p] = "idle"

Prepared(p) == IF pc[p] \in {"prepared", "commit"} THEN tx[p] ELSE NoTx

Store == INSTANCE RefStore WITH
           val <- View(list),
           txn <- [p \in Procs |-> Prepared(p)]

\* The stack implements the abstract store: an addition makes all its changes at
\* once, on the values it has checked, and compacting, cleaning, reloading,
\* failing and crashing change no value.
ImplementsRefStore == Store!Spec
=============================================================================
