------------------------ MODULE ReftableStackSteps -------------------------
(***************************************************************************)
(* What a step of a process changes of its own state and of the locks, and *)
(* what it leaves alone of the others.                                     *)
(***************************************************************************)
EXTENDS ReftableStackInvariant, TLAPS

\* Most leaves are first-order; SMT is named where numbers, sequences or function
\* updates need it.
USE ZenonT(30)

-----------------------------------------------------------------------------
(* What a step changes *)

\* Which steps change which part of the repository
LEMMA StepRepo ==
  ASSUME NEW p \in Procs, Step(p)
  PROVE  /\ UNCHANGED tab \/ AdditionAdd(p) \/ CompactRename(p)
         /\ \/ UNCHANGED files \/ AdditionAdd(p) \/ CompactRename(p)
            \/ UnlinkOld(p) \/ UndoTable(p) \/ CompactUnlink(p) \/ CleanUnlink(p)
         /\ UNCHANGED list \/ AdditionCommit(p) \/ CompactCommit(p)
         /\ \/ UNCHANGED listLock \/ InitAddition(p) \/ AdditionCommit(p)
            \/ ReleaseList(p) \/ CompactLock(p) \/ CompactUnlock(p)
            \/ CompactRelock(p) \/ CompactCommit(p) \/ CleanLock(p)
            \/ RemoveStale(p)
         /\ UNCHANGED tabLock \/ ReleaseTable(p) \/ LockTable(p) \/ RemoveStale(p)
<1>1. CASE ReloadStep(p)
  BY <1>1 DEF ReloadStep, ReadList, ReloadDeadline, ReloadOnce, UnlinkOld,
     Recheck, repo
<1>2. CASE AdditionStep(p)
  BY <1>2 DEF AdditionStep, TransactionBegin, InitAddition, PrepareUpdates,
     AdditionAdd, AdditionCommit, LockTimeout, UndoTable, ReleaseList, ReleaseTable,
     Released, repo
<1>3. CASE CompactStep(p)
  BY <1>3 DEF CompactStep, PackBegin, CompactNothing, CompactLock, LockTable,
     TableIsLocked, CompactUnlock, CompactRelock, CompactRename, CompactCommit,
     CompactUnlink, CleanLock, CleanUnlink, repo
<1>4. CASE ReadStep(p) \/ Abort(p) \/ Crash(p) \/ Respawn(p) \/ RemoveStale(p)
  BY <1>4 DEF ReadStep, OpenBegin, ReadBegin, ReadEnd, Close, Abort, Crash,
     Respawn, RemoveStale, repo
<1> QED BY <1>1, <1>2, <1>3, <1>4 DEF Step

\* A function changes at p only.
OnlyAt(f, g, p) == g = f \/ \E e : g = [f EXCEPT ![p] = e]

\* A step of p changes its own local variables only.
LEMMA StepShape ==
  ASSUME NEW p \in Procs, Step(p)
  PROVE  /\ OnlyAt(alive, alive', p) /\ OnlyAt(pc, pc', p) /\ OnlyAt(op, op', p)
         /\ OnlyAt(open, open', p) /\ OnlyAt(st, st', p) /\ OnlyAt(names, names', p)
         /\ OnlyAt(tries, tries', p) /\ OnlyAt(ret, ret', p) /\ OnlyAt(dead, dead', p)
         /\ OnlyAt(tx, tx', p) /\ OnlyAt(new, new', p) /\ OnlyAt(first, first', p)
         /\ OnlyAt(last, last', p) /\ OnlyAt(idx, idx', p)
<1>1. CASE UNCHANGED alive /\ ReloadStep(p)
  BY <1>1 DEF ReloadStep, ReadList, ReloadDeadline, ReloadOnce, UnlinkOld,
     Recheck, Unlinking, Fail, Finish, Goto, reloading, compacting, OnlyAt
<1>2. CASE UNCHANGED alive /\ AdditionStep(p)
  BY <1>2 DEF AdditionStep, TransactionBegin, InitAddition, PrepareUpdates,
     AdditionAdd, AdditionCommit, LockTimeout, UndoTable, ReleaseList, ReleaseTable,
     Released, AddTable, Reload, Fail, Finish, Goto, reloading, compacting, OnlyAt
<1>3. CASE UNCHANGED alive /\ CompactStep(p)
  BY <1>3 DEF CompactStep, PackBegin, CompactNothing, CompactLock, LockTable,
     TableIsLocked, CompactUnlock, CompactRelock, CompactRename, CompactCommit,
     CompactUnlink, CleanLock, CleanUnlink, AddTable, Reload, Fail, Goto, Compacted,
     reloading, compacting, OnlyAt
<1>4. CASE UNCHANGED alive /\ (ReadStep(p) \/ Abort(p) \/ RemoveStale(p))
  BY <1>4 DEF ReadStep, OpenBegin, ReadBegin, ReadEnd, Close, Abort,
     RemoveStale, Reload, Fail, Finish, Goto, reloading, compacting, OnlyAt
<1>5. CASE Crash(p) \/ Respawn(p)
  BY <1>5 DEF Crash, Respawn, Finish, reloading, compacting, OnlyAt
<1>6. RemoveStale(p) => UNCHANGED alive
  BY DEF RemoveStale
<1> QED BY <1>1, <1>2, <1>3, <1>4, <1>5, <1>6 DEF Step

\* A function changed at p only keeps its type if the new value has it.
LEMMA FrameAt ==
  ASSUME NEW S, NEW T, NEW f \in [S -> T], NEW g, NEW p \in S, OnlyAt(f, g, p)
  PROVE  /\ \A q \in S : q # p => g[q] = f[q]
         /\ g[p] \in T => g \in [S -> T]
BY DEF OnlyAt

\* A step of p leaves the variables of the other processes alone.
LEMMA StepFrame ==
  ASSUME TypeControl, TypeData, NEW p \in Procs, Step(p), NEW q \in Procs, q # p
  PROVE  /\ alive'[q] = alive[q] /\ pc'[q] = pc[q] /\ op'[q] = op[q]
         /\ open'[q] = open[q] /\ st'[q] = st[q] /\ names'[q] = names[q]
         /\ tries'[q] = tries[q] /\ ret'[q] = ret[q] /\ dead'[q] = dead[q]
         /\ tx'[q] = tx[q] /\ new'[q] = new[q]
         /\ first'[q] = first[q] /\ last'[q] = last[q] /\ idx'[q] = idx[q]
<1>1. /\ alive'[q] = alive[q] /\ pc'[q] = pc[q] /\ op'[q] = op[q]
      /\ open'[q] = open[q] /\ tries'[q] = tries[q] /\ ret'[q] = ret[q]
      /\ first'[q] = first[q] /\ last'[q] = last[q] /\ idx'[q] = idx[q]
  BY StepShape, SMTT(30) DEF TypeControl, OnlyAt
<1>2. /\ st'[q] = st[q] /\ names'[q] = names[q] /\ dead'[q] = dead[q]
      /\ tx'[q] = tx[q] /\ new'[q] = new[q]
  <2>1. /\ DOMAIN st = Procs /\ DOMAIN names = Procs /\ DOMAIN dead = Procs
        /\ DOMAIN tx = Procs /\ DOMAIN new = Procs
    BY DEF TypeData
  <2> QED BY <2>1, StepShape, SMTT(30) DEF OnlyAt
<1> QED BY <1>1, <1>2

-----------------------------------------------------------------------------
(* The moves of a process: what a step makes of its local variables *)

Kept(p) ==
  alive'[p] = alive[p] /\ open'[p] = open[p] /\ st'[p] = st[p] /\ dead'[p] = dead[p]

\* p goes on at l.
Went(p, l) == pc'[p] = l /\ ret'[p] = ret[p]

Failed(p, l) == pc'[p] = l /\ ret'[p] = "end"

\* p starts a reload that returns to l.
Reloads(p, l) == pc'[p] = "readlist" /\ ret'[p] = l /\ names'[p] = names[p] /\ tries'[p] = 0

\* The call of p returns.
Ended(p) ==
  /\ pc'[p] = "idle" /\ op'[p] = "none" /\ ret'[p] = "idle" /\ names'[p] = <<>>
  /\ tries'[p] = 0 /\ dead'[p] = {} /\ new'[p] = 0

\* p has the files of D still to unlink.
Unlinks(p, D) ==
  /\ dead'[p] = D
  /\ \/ D = {} /\ pc'[p] = ret[p] /\ names'[p] = <<>> /\ tries'[p] = 0
     \/ D # {} /\ pc'[p] = "unlinkold" /\ names'[p] = names[p] /\ tries'[p] = tries[p]

ReloadMove(p) ==
  /\ alive[p] /\ alive'[p] = alive[p] /\ listLock' = listLock
  /\ \/ /\ ReadList(p) /\ pc[p] = "readlist" /\ Kept(p) /\ Went(p, "opentables")
        /\ op'[p] = op[p] /\ new'[p] = new[p] /\ names'[p] = list
        /\ tries'[p] = IF tries[p] < MaxTries THEN tries[p] + 1 ELSE tries[p]
     \/ /\ ReloadDeadline(p) /\ pc[p] = "readlist" /\ tries[p] = MaxTries
        /\ open'[p] = open[p] /\ st'[p] = st[p]
        /\ \/ /\ open[p] /\ Went(p, ret[p]) /\ op'[p] = op[p] /\ new'[p] = new[p]
              /\ names'[p] = names[p] /\ tries'[p] = tries[p] /\ dead'[p] = dead[p]
           \/ ~open[p] /\ Ended(p)
     \/ /\ ReloadOnce(p) /\ pc[p] = "opentables" /\ op'[p] = op[p] /\ new'[p] = new[p]
        /\ Listed(names[p]) \subseteq files \cup Listed(st[p])
        /\ ret'[p] = ret[p] /\ open'[p] = TRUE /\ st'[p] = names[p]
        /\ Unlinks(p, Listed(st[p]) \ Listed(names[p]))
     \/ /\ ReloadOnce(p) /\ pc[p] = "opentables" /\ op'[p] = op[p] /\ new'[p] = new[p]
        /\ ~(Listed(names[p]) \subseteq files \cup Listed(st[p]))
        /\ Kept(p) /\ Went(p, "recheck") /\ names'[p] = names[p] /\ tries'[p] = tries[p]
     \/ /\ UnlinkOld(p) /\ pc[p] = "unlinkold" /\ op'[p] = op[p] /\ new'[p] = new[p]
        /\ open'[p] = open[p] /\ st'[p] = st[p] /\ ret'[p] = ret[p]
        /\ \E t \in dead[p] : Unlinks(p, dead[p] \ {t})
     \/ /\ Recheck(p) /\ pc[p] = "recheck" /\ op'[p] = op[p] /\ new'[p] = new[p]
        /\ Kept(p) /\ names'[p] = names[p] /\ tries'[p] = tries[p]
        /\ \/ names[p] = list /\ Failed(p, "release")
           \/ names[p] # list /\ Went(p, "readlist")

\* Where the steps of a reload lead.
LEMMA ReloadMoves ==
  ASSUME TypeControl, TypeData, NEW p \in Procs, alive[p], ReloadStep(p), UNCHANGED alive
  PROVE  ReloadMove(p)
<1>1. /\ DOMAIN pc = Procs /\ DOMAIN op = Procs /\ DOMAIN open = Procs /\ DOMAIN st = Procs
      /\ DOMAIN names = Procs /\ DOMAIN tries = Procs /\ DOMAIN ret = Procs
      /\ DOMAIN dead = Procs /\ DOMAIN new = Procs
  BY DEF TypeControl, TypeData
<1>2. CASE ReadList(p)
  BY <1>1, <1>2 DEF ReadList, Goto, repo, ReloadMove, Kept, Went
<1>3. CASE ReloadDeadline(p)
  BY <1>1, <1>3 DEF ReloadDeadline, repo, Finish, Goto, ReloadMove, Kept, Went, Ended
<1>4. CASE ReloadOnce(p)
  BY <1>1, <1>4 DEF ReloadOnce, repo, Unlinking, Goto, ReloadMove, Unlinks, Kept, Went
<1>5. CASE UnlinkOld(p)
  BY <1>1, <1>5 DEF UnlinkOld, Unlinking, Goto, ReloadMove, Unlinks, Kept, Went
<1>6. CASE Recheck(p)
  BY <1>1, <1>6 DEF Recheck, repo, Goto, Fail, ReloadMove, Failed, Kept, Went
<1> QED BY <1>2, <1>3, <1>4, <1>5, <1>6 DEF ReloadStep

AdditionMove(p) ==
  /\ alive[p] /\ alive'[p] = alive[p] /\ Kept(p)
  /\ \/ /\ TransactionBegin(p) /\ pc[p] = "idle" /\ open[p] /\ Went(p, "lock") /\ op'[p] = "txn"
        /\ listLock' = listLock /\ new'[p] = new[p] /\ names'[p] = names[p] /\ tries'[p] = tries[p]
     \/ /\ op'[p] = op[p]
        /\ \/ /\ InitAddition(p) /\ pc[p] = "lock" /\ listLock' = p /\ new'[p] = new[p]
              /\ \/ /\ st[p] = list /\ Went(p, "locked")
                    /\ names'[p] = names[p] /\ tries'[p] = tries[p]
                 \/ st[p] # list /\ Reloads(p, "locked")
           \/ /\ names'[p] = names[p] /\ tries'[p] = tries[p]
              /\ \/ /\ PrepareUpdates(p) /\ pc[p] = "locked" /\ new'[p] = new[p]
                    /\ listLock' = listLock
                    /\ Went(p, "prepared") \/ Failed(p, "release")
                 \/ /\ AdditionAdd(p) /\ pc[p] = "prepared" /\ new'[p] = Len(tab) + 1
                    /\ Went(p, "commit") /\ listLock' = listLock
                 \/ /\ AdditionAdd(p) /\ pc[p] = "prepared" /\ new'[p] = new[p]
                    /\ Failed(p, "release") /\ listLock' = listLock
                 \/ /\ LockTimeout(p) /\ pc[p] \in {"lock", "compact", "relock", "clean"}
                    /\ new'[p] = new[p] /\ Failed(p, "release") /\ listLock' = listLock
                 \/ /\ UndoTable(p) /\ pc[p] = "undo" /\ new'[p] = 0 /\ Went(p, "release")
                    /\ listLock' = listLock
                 \/ /\ ReleaseList(p) \/ ReleaseTable(p)
                    /\ pc[p] = "release" /\ Went(p, "release") /\ new'[p] = new[p]
                 \/ /\ Released(p) /\ pc[p] = "release" /\ listLock # p
                    /\ \A t \in 1 .. MaxTables : tabLock[t] # p
                    /\ Went(p, "clean") /\ new'[p] = new[p] /\ listLock' = listLock
           \/ /\ AdditionCommit(p) /\ pc[p] = "commit" /\ Reloads(p, "compact") /\ new'[p] = 0
              /\ listLock' = Nobody

ReleasedMove(p) ==
  /\ alive[p] /\ alive'[p] = alive[p] /\ Released(p) /\ pc[p] = "release" /\ Ended(p)
  /\ open'[p] = open[p] /\ st'[p] = st[p]
  /\ listLock # p /\ listLock' = listLock /\ \A t \in 1 .. MaxTables : tabLock[t] # p

\* Where the steps of an addition lead.
LEMMA AdditionMoves ==
  ASSUME TypeControl, TypeData, NEW p \in Procs, alive[p], AdditionStep(p), UNCHANGED alive
  PROVE  AdditionMove(p) \/ ReleasedMove(p)
<1>1. /\ DOMAIN pc = Procs /\ DOMAIN op = Procs /\ DOMAIN open = Procs /\ DOMAIN st = Procs
      /\ DOMAIN names = Procs /\ DOMAIN tries = Procs /\ DOMAIN ret = Procs
      /\ DOMAIN dead = Procs /\ DOMAIN new = Procs
  BY DEF TypeControl, TypeData
<1>2. CASE TransactionBegin(p)
  BY <1>1, <1>2 DEF TransactionBegin, Goto, reloading, repo, AdditionMove, Kept, Went
<1>3. CASE InitAddition(p)
  BY <1>1, <1>3 DEF InitAddition, Reload, Goto, reloading, AdditionMove, Reloads, Kept, Went
<1>4. CASE PrepareUpdates(p)
  BY <1>1, <1>4 DEF PrepareUpdates, repo, Fail, Goto, AdditionMove, Failed, Kept, Went
<1>5. CASE AdditionAdd(p)
  BY <1>1, <1>5 DEF AdditionAdd, AddTable, Fail, Goto, AdditionMove, Failed, Kept, Went
<1>6. CASE AdditionCommit(p)
  BY <1>1, <1>6 DEF AdditionCommit, Reload, Goto, AdditionMove, Reloads, Kept
<1>7. CASE LockTimeout(p)
  BY <1>1, <1>7 DEF LockTimeout, repo, Fail, Goto, AdditionMove, Failed, Kept
<1>8. CASE UndoTable(p)
  BY <1>1, <1>8 DEF UndoTable, Goto, reloading, repo, AdditionMove, Kept, Went
<1>9. CASE ReleaseList(p) \/ ReleaseTable(p)
  BY <1>1, <1>9 DEF ReleaseList, ReleaseTable, reloading, AdditionMove, Kept, Went
<1>10. CASE Released(p)
  BY <1>1, <1>10 DEF Released, repo, Finish, Goto, reloading, AdditionMove, ReleasedMove,
     Kept, Went, Ended
<1> QED BY <1>2, <1>3, <1>4, <1>5, <1>6, <1>7, <1>8, <1>9, <1>10 DEF AdditionStep

CompactMove(p) ==
  /\ alive[p] /\ alive'[p] = alive[p] /\ Kept(p)
  /\ \/ /\ PackBegin(p) /\ pc[p] = "idle" /\ open[p] /\ Went(p, "compact")
        /\ op'[p] \in {"all", "auto"} /\ listLock' = listLock
        /\ new'[p] = new[p] /\ names'[p] = names[p] /\ tries'[p] = tries[p]
     \/ /\ op'[p] = op[p] /\ tries'[p] = tries[p]
        /\ \/ /\ names'[p] = names[p] /\ new'[p] = new[p]
              /\ \/ /\ CompactNothing(p) /\ pc[p] = "compact" /\ pc'[p] = "release"
                    /\ ret'[p] \in {"end", "clean"} /\ listLock' = listLock
                 \/ /\ CompactLock(p) /\ pc[p] = "compact" /\ listLock' = p
                    /\ \/ st[p] = list /\ Went(p, "locktables")
                       \/ st[p] # list /\ Failed(p, "release")
                 \/ /\ LockTable(p) \/ TableIsLocked(p)
                    /\ pc[p] = "locktables" /\ Went(p, "locktables") /\ listLock' = listLock
                 \/ /\ TableIsLocked(p) /\ pc[p] = "locktables" /\ Failed(p, "release")
                    /\ listLock' = listLock
                 \/ /\ CompactUnlock(p) /\ pc[p] = "locktables" /\ Went(p, "relock")
                    /\ listLock' = Nobody
                 \/ /\ CompactUnlink(p) /\ pc[p] = "compacted" /\ pc'[p] = "release"
                    /\ ret'[p] \in {"end", "clean"} /\ listLock' = listLock
                 \/ /\ CleanLock(p) /\ pc[p] = "clean" /\ listLock' = p
                    /\ \/ st[p] = list /\ Went(p, "cleaning")
                       \/ st[p] # list /\ Failed(p, "release")
                 \/ /\ CleanUnlink(p) /\ pc[p] = "cleaning" /\ listLock' = listLock
                    /\ Went(p, "cleaning") \/ Failed(p, "release")
           \/ /\ CompactRelock(p) /\ pc[p] = "relock" /\ listLock' = p /\ new'[p] = new[p]
              /\ names'[p] = list /\ (Went(p, "rename") \/ Failed(p, "release"))
           \/ /\ CompactRename(p) /\ pc[p] = "rename" /\ names'[p] = names[p]
              /\ listLock' = listLock
              /\ \/ Went(p, "replace") /\ new'[p] \in {new[p], Len(tab) + 1}
                 \/ Failed(p, "release") /\ new'[p] = new[p]
     \/ /\ CompactCommit(p) /\ pc[p] = "replace" /\ Reloads(p, "compacted")
        /\ op'[p] = op[p] /\ new'[p] = 0 /\ listLock' = Nobody

\* Where the steps of a compaction lead.
LEMMA CompactMoves ==
  ASSUME TypeControl, TypeData, NEW p \in Procs, alive[p], CompactStep(p), UNCHANGED alive
  PROVE  CompactMove(p)
<1>1. /\ DOMAIN pc = Procs /\ DOMAIN op = Procs /\ DOMAIN open = Procs /\ DOMAIN st = Procs
      /\ DOMAIN names = Procs /\ DOMAIN tries = Procs /\ DOMAIN ret = Procs
      /\ DOMAIN dead = Procs /\ DOMAIN new = Procs
  BY DEF TypeControl, TypeData
<1>2. CASE PackBegin(p)
  BY <1>1, <1>2 DEF PackBegin, repo, Goto, reloading, CompactMove, Kept, Went
<1>3. CASE CompactNothing(p)
  BY <1>1, <1>3 DEF CompactNothing, repo, Compacted, Goto, CompactMove, Kept
<1>4. CASE CompactLock(p)
  BY <1>1, <1>4 DEF CompactLock, Fail, Goto, CompactMove, Failed, Kept, Went
<1>5. CASE LockTable(p)
  BY <1>1, <1>5 DEF LockTable, reloading, CompactMove, Kept, Went
<1>6. CASE TableIsLocked(p)
  BY <1>1, <1>6 DEF TableIsLocked, repo, Fail, Goto, CompactMove, Failed, Kept, Went
<1>7. CASE CompactUnlock(p)
  BY <1>1, <1>7 DEF CompactUnlock, Goto, reloading, CompactMove, Kept, Went
<1>8. CASE CompactRelock(p)
  BY <1>1, <1>8 DEF CompactRelock, Fail, Goto, CompactMove, Failed, Kept, Went
<1>9. CASE CompactRename(p)
  BY <1>1, <1>9 DEF CompactRename, AddTable, Fail, Goto, CompactMove, Failed, Kept, Went
<1>10. CASE CompactCommit(p)
  BY <1>1, <1>10 DEF CompactCommit, Reload, Goto, CompactMove, Reloads, Kept
<1>11. CASE CompactUnlink(p)
  BY <1>1, <1>11 DEF CompactUnlink, Compacted, Goto, CompactMove, Kept
<1>12. CASE CleanLock(p)
  BY <1>1, <1>12 DEF CleanLock, Fail, Goto, CompactMove, Failed, Kept, Went
<1>13. CASE CleanUnlink(p)
  BY <1>1, <1>13 DEF CleanUnlink, Fail, Goto, CompactMove, Failed, Kept, Went
<1> QED BY <1>2, <1>3, <1>4, <1>5, <1>6, <1>7, <1>8, <1>9, <1>10, <1>11, <1>12, <1>13
        DEF CompactStep

ReadMove(p) ==
  /\ alive[p] /\ alive'[p] = alive[p] /\ listLock' = listLock
  /\ \/ /\ OpenBegin(p) /\ pc[p] = "idle" /\ ~open[p] /\ op'[p] = "open" /\ Kept(p)
        /\ Reloads(p, "release") /\ new'[p] = new[p]
     \/ /\ ReadBegin(p) /\ pc[p] = "idle" /\ open[p] /\ op'[p] = "read" /\ Kept(p)
        /\ new'[p] = new[p]
        /\ \/ Went(p, "read") /\ names'[p] = names[p] /\ tries'[p] = tries[p]
           \/ Reloads(p, "read")
     \/ ReadEnd(p) /\ pc[p] = "read" /\ Ended(p) /\ open'[p] = open[p] /\ st'[p] = st[p]
     \/ /\ Close(p) /\ pc[p] = "idle" /\ op'[p] = "close" /\ open'[p] = FALSE /\ st'[p] = <<>>
        /\ dead'[p] = Listed(st[p]) \ Listed(list) /\ ret'[p] = "release"
        /\ new'[p] = new[p] /\ names'[p] = names[p] /\ tries'[p] = tries[p]
        /\ \/ Listed(st[p]) \subseteq Listed(list) /\ pc'[p] = "release"
           \/ ~(Listed(st[p]) \subseteq Listed(list)) /\ pc'[p] = "unlinkold"
     \/ /\ Abort(p) /\ Kept(p) /\ op'[p] = op[p] /\ new'[p] = new[p]
        /\ pc[p] \in {"readlist", "locked", "prepared", "commit", "locktables",
                      "relock", "rename", "replace"}
        /\ names'[p] = names[p] /\ tries'[p] = tries[p]
        /\ \/ new[p] # 0 /\ Failed(p, "undo")
           \/ new[p] = 0 /\ Failed(p, "release")

CrashMove(p) ==
  \/ /\ Crash(p) /\ alive[p] /\ alive'[p] = FALSE /\ listLock' = listLock /\ open'[p] = FALSE /\ st'[p] = <<>> /\ Ended(p)
  \/ /\ ~alive[p] /\ Went(p, pc[p]) /\ op'[p] = op[p] /\ new'[p] = new[p]
     /\ open'[p] = open[p] /\ st'[p] = st[p] /\ dead'[p] = dead[p]
     /\ names'[p] = names[p] /\ tries'[p] = tries[p]
     /\ \/ RemoveStale(p) /\ alive'[p] = alive[p]
        \/ /\ Respawn(p) /\ alive'[p] = TRUE /\ listLock # p /\ listLock' = listLock
           /\ \A t \in 1 .. MaxTables : tabLock[t] # p

\* Where the steps of a read, a close and a crash lead.
LEMMA ReadMoves ==
  ASSUME TypeControl, TypeData, NEW p \in Procs, alive[p], ReadStep(p) \/ Abort(p),
         UNCHANGED alive
  PROVE  ReadMove(p)
<1>1. /\ DOMAIN pc = Procs /\ DOMAIN op = Procs /\ DOMAIN open = Procs /\ DOMAIN st = Procs
      /\ DOMAIN names = Procs /\ DOMAIN tries = Procs /\ DOMAIN ret = Procs
      /\ DOMAIN dead = Procs /\ DOMAIN new = Procs
  BY DEF TypeControl, TypeData
<1>2. CASE OpenBegin(p)
  BY <1>1, <1>2 DEF OpenBegin, repo, Reload, Goto, ReadMove, Reloads, Kept
<1>3. CASE ReadBegin(p)
  BY <1>1, <1>3 DEF ReadBegin, repo, Reload, Goto, reloading, ReadMove, Reloads, Kept, Went
<1>4. CASE ReadEnd(p)
  BY <1>1, <1>4 DEF ReadEnd, repo, Finish, ReadMove, Ended
<1>5. CASE Close(p)
  BY <1>1, <1>5 DEF Close, repo, Goto, ReadMove
<1>6. CASE Abort(p)
  BY <1>1, <1>6 DEF Abort, repo, Fail, Goto, ReadMove, Failed, Kept
<1> QED BY <1>2, <1>3, <1>4, <1>5, <1>6 DEF ReadStep

\* Every step of p is one of these moves.
LEMMA StepMoves ==
  ASSUME TypeControl, TypeData, NEW p \in Procs, Step(p)
  PROVE  \/ ReloadMove(p) \/ AdditionMove(p) \/ ReleasedMove(p) \/ CompactMove(p)
         \/ ReadMove(p) \/ CrashMove(p)
<1>1. /\ DOMAIN pc = Procs /\ DOMAIN op = Procs /\ DOMAIN open = Procs /\ DOMAIN st = Procs
      /\ DOMAIN names = Procs /\ DOMAIN tries = Procs /\ DOMAIN ret = Procs
      /\ DOMAIN dead = Procs /\ DOMAIN new = Procs /\ DOMAIN alive = Procs
  BY DEF TypeControl, TypeData
<1>2. CASE alive[p] /\ Crash(p)
  BY <1>1, <1>2 DEF Crash, repo, Finish, CrashMove, Ended
<1>3. CASE RemoveStale(p)
  BY <1>1, <1>3 DEF RemoveStale, reloading, CrashMove, Went
<1>4. CASE Respawn(p)
  BY <1>1, <1>4 DEF Respawn, repo, reloading, CrashMove, Went
<1> QED BY <1>2, <1>3, <1>4, ReloadMoves, AdditionMoves, CompactMoves, ReadMoves
        DEF Step

\* The bounds are numbers.
LEMMA Bounds == MaxTables \in Nat /\ MaxTries \in Nat /\ 0 \in 0 .. MaxTries
BY ConstantsAssumption, SMTT(30)

\* The label of p tells what it told.
LEMMA StepControl ==
  ASSUME TypeControl, TypeData, NEW p \in Procs, Step(p), Control(p)
  PROVE  Control(p)'
<1> USE DEF Control, Reloading, Compacting, Kept, Went, Failed, Reloads, Ended, Unlinks
<1>0. ret[p] \in {"idle", "end", "locked", "compact", "compacted", "clean", "read", "release"}
  BY DEF TypeControl
<1>1. CASE ReloadMove(p)
  BY <1>0, <1>1 DEF ReloadMove
<1>a. Len(tab) + 1 # 0
  BY SMTT(30) DEF TypeData
<1>2. CASE AdditionMove(p)
  BY <1>a, <1>2 DEF AdditionMove
<1>3. CASE ReleasedMove(p)
  BY <1>3 DEF ReleasedMove
<1>4. CASE CompactMove(p)
  BY <1>4 DEF CompactMove
<1>5. CASE ReadMove(p)
  BY <1>5 DEF ReadMove
<1>6. CASE CrashMove(p)
  BY <1>6 DEF CrashMove
<1> QED BY <1>1, <1>2, <1>3, <1>4, <1>5, <1>6, StepMoves

\* Which steps change the range to compact
LEMMA StepCompacting ==
  ASSUME NEW p \in Procs, Step(p)
  PROVE  \/ UNCHANGED compacting \/ CompactLock(p) \/ LockTable(p) \/ TableIsLocked(p)
         \/ Finish(p)
<1>1. CASE ReloadStep(p)
  BY <1>1 DEF ReloadStep, ReadList, ReloadDeadline, ReloadOnce, UnlinkOld, Recheck
<1>2. CASE AdditionStep(p)
  BY <1>2 DEF AdditionStep, TransactionBegin, InitAddition, PrepareUpdates,
     AdditionAdd, AdditionCommit, LockTimeout, UndoTable, ReleaseList, ReleaseTable,
     Released
<1>3. CASE CompactStep(p)
  BY <1>3 DEF CompactStep, PackBegin, CompactNothing, CompactUnlock,
     CompactRelock, CompactRename, CompactCommit, CompactUnlink, CleanLock, CleanUnlink
<1>4. CASE ReadStep(p) \/ Abort(p) \/ Crash(p) \/ Respawn(p) \/ RemoveStale(p)
  BY <1>4 DEF ReadStep, OpenBegin, ReadBegin, ReadEnd, Close, Abort, Crash,
     Respawn, RemoveStale
<1> QED BY <1>1, <1>2, <1>3, <1>4 DEF Step

\* What a step writes into the local variables has their types.
LEMMA MoveTypes ==
  ASSUME TypeControl, NEW p \in Procs, Control(p),
         \/ ReloadMove(p) \/ AdditionMove(p) \/ ReleasedMove(p) \/ CompactMove(p)
         \/ ReadMove(p) \/ CrashMove(p)
  PROVE  /\ pc'[p] \in Labels /\ alive'[p] \in BOOLEAN /\ open'[p] \in BOOLEAN
         /\ op'[p] \in {"none", "txn", "all", "auto", "read", "open", "close"}
         /\ tries'[p] \in 0 .. MaxTries
         /\ ret'[p] \in {"idle", "end", "locked", "compact", "compacted", "clean",
                         "read", "release"}
<1> DEFINE Ops == {"none", "txn", "all", "auto", "read", "open", "close"}
           Rets == {"idle", "end", "locked", "compact", "compacted", "clean", "read",
                    "release"}
<1> SUFFICES /\ pc'[p] \in Labels /\ alive'[p] \in BOOLEAN /\ open'[p] \in BOOLEAN
             /\ op'[p] \in Ops /\ tries'[p] \in 0 .. MaxTries /\ ret'[p] \in Rets
  OBVIOUS
<1>1. /\ pc[p] \in Labels /\ alive[p] \in BOOLEAN /\ open[p] \in BOOLEAN /\ op[p] \in Ops
      /\ tries[p] \in 0 .. MaxTries /\ ret[p] \in Rets
  BY DEF TypeControl
<1>2. /\ 0 \in 0 .. MaxTries
      /\ (IF tries[p] < MaxTries THEN tries[p] + 1 ELSE tries[p]) \in 0 .. MaxTries
  BY <1>1, Bounds, SMTT(30)
<1>3. Reloading(p) => ret[p] \in Labels
  BY DEF Control, Labels
<1>4. /\ "none" \in Ops /\ "txn" \in Ops /\ "all" \in Ops /\ "auto" \in Ops
      /\ "read" \in Ops /\ "open" \in Ops /\ "close" \in Ops
      /\ "idle" \in Rets /\ "end" \in Rets /\ "locked" \in Rets /\ "compact" \in Rets
      /\ "compacted" \in Rets /\ "clean" \in Rets /\ "read" \in Rets
      /\ "release" \in Rets
  OBVIOUS
<1>5. \A l \in {"idle", "readlist", "opentables", "unlinkold", "recheck", "lock",
                "locked", "prepared", "commit", "undo", "release", "compact",
                "locktables", "relock", "rename", "replace", "compacted", "clean",
                "cleaning", "read"} : l \in Labels
  BY DEF Labels
<1> HIDE DEF Ops, Rets
<1>6. CASE ReloadMove(p)
  BY <1>1, <1>2, <1>3, <1>4, <1>5, <1>6
     DEF ReloadMove, Reloading, Kept, Went, Failed, Ended, Unlinks
<1>7. CASE AdditionMove(p)
  BY <1>1, <1>2, <1>4, <1>5, <1>7 DEF AdditionMove, Kept, Went, Failed, Reloads
<1>8. CASE ReleasedMove(p) \/ CrashMove(p)
  BY <1>1, <1>2, <1>4, <1>5, <1>8 DEF ReleasedMove, CrashMove, Went, Ended
<1>9. CASE CompactMove(p)
  BY <1>1, <1>2, <1>4, <1>5, <1>9 DEF CompactMove, Kept, Went, Failed, Reloads
<1>10. CASE ReadMove(p)
  BY <1>1, <1>2, <1>4, <1>5, <1>10
     DEF ReadMove, Kept, Went, Failed, Reloads, Ended
<1> QED BY <1>6, <1>7, <1>8, <1>9, <1>10

\* The control state keeps its type.
LEMMA StepTypeControl ==
  ASSUME TypeOK, NEW p \in Procs, Step(p), Control(p), InRange(p)
  PROVE  TypeControl'
<1> USE DEF TypeOK
<1>1. /\ pc'[p] \in Labels /\ alive'[p] \in BOOLEAN /\ open'[p] \in BOOLEAN
      /\ op'[p] \in {"none", "txn", "all", "auto", "read", "open", "close"}
      /\ tries'[p] \in 0 .. MaxTries
      /\ ret'[p] \in {"idle", "end", "locked", "compact", "compacted", "clean",
                      "read", "release"}
  BY StepMoves, MoveTypes
<1>2. first'[p] \in Nat /\ last'[p] \in Nat /\ idx'[p] \in Nat
  <2>1. first[p] \in Nat /\ last[p] \in Nat /\ idx[p] \in Nat
    BY DEF TypeControl
  <2>2. CASE CompactLock(p)
    <3>1. \A i \in DOMAIN st[p] : i \in Nat
      BY SMTT(30) DEF TypeData
    <3>2. DOMAIN first = Procs /\ DOMAIN last = Procs /\ DOMAIN idx = Procs
      BY DEF TypeControl
    <3> QED BY <2>1, <2>2, <3>1, <3>2, SMTT(30) DEF CompactLock, compacting
  <2>3. CASE LockTable(p)
    BY <2>1, <2>3, SMTT(30) DEF LockTable, TypeControl, InRange, Compacting
  <2>4. CASE TableIsLocked(p)
    BY <2>1, <2>4, SMTT(30) DEF TableIsLocked, TypeControl
  <2>5. CASE Finish(p)
    BY <2>5 DEF Finish, TypeControl
  <2> QED BY <2>1, <2>2, <2>3, <2>4, <2>5, StepCompacting, SMTT(30) DEF compacting
<1> QED BY <1>1, <1>2, StepShape, FrameAt DEF TypeControl

\* What a step makes of the tables p knows
LEMMA StepKnown ==
  ASSUME TypeOK, NEW p \in Procs, Step(p)
  PROVE  /\ st'[p] \in {st[p], names[p], <<>>}
         /\ names'[p] \in {names[p], list, <<>>}
         /\ dead'[p] \subseteq dead[p] \cup Listed(st[p])
<1> USE DEF Kept, Reloads, Ended, Unlinks
<1>1. CASE ReloadMove(p)
  BY <1>1 DEF ReloadMove
<1>2. CASE AdditionMove(p)
  BY <1>2 DEF AdditionMove
<1>3. CASE ReleasedMove(p)
  BY <1>3 DEF ReleasedMove
<1>4. CASE CompactMove(p)
  BY <1>4 DEF CompactMove
<1>5. CASE CrashMove(p)
  BY <1>5 DEF CrashMove
<1>6. CASE ReadMove(p)
  BY <1>6 DEF ReadMove
<1> QED BY <1>1, <1>2, <1>3, <1>4, <1>5, <1>6, StepMoves DEF TypeOK

\* What brings p to a label
Arrives(p) ==
  /\ pc'[p] = "opentables" => ReadList(p)
  /\ pc'[p] = "unlinkold" => ReloadOnce(p) \/ UnlinkOld(p) \/ Close(p)
  /\ pc'[p] = "recheck" => ReloadOnce(p)
  /\ pc'[p] = "prepared" => PrepareUpdates(p)
  /\ pc'[p] = "commit" => AdditionAdd(p)
  /\ pc'[p] = "locktables" => CompactLock(p) \/ LockTable(p) \/ TableIsLocked(p)
  /\ pc'[p] = "relock" => CompactUnlock(p)
  /\ pc'[p] = "rename" => CompactRelock(p)
  /\ pc'[p] = "replace" => CompactRename(p)
  /\ pc'[p] = "undo" => Abort(p)
  /\ pc'[p] = "read" => ReadBegin(p) \/ ReloadStep(p)
  /\ Replacing(p)' => CompactCommit(p) \/ (Replacing(p) /\ ReloadStep(p))

\* Which steps lead to a label.
LEMMA StepArrives ==
  ASSUME TypeControl, TypeData, NEW p \in Procs, Step(p), Control(p)
  PROVE  Arrives(p)
<1> USE DEF Control, Reloading, Replacing, Went, Failed, Reloads, Ended, Unlinks, Arrives
<1>1. CASE ReloadMove(p)
  BY <1>1 DEF ReloadMove, ReloadStep
<1>2. CASE AdditionMove(p)
  BY <1>2 DEF AdditionMove
<1>3. CASE ReleasedMove(p) \/ CrashMove(p)
  BY <1>3 DEF ReleasedMove, CrashMove
<1>4. CASE CompactMove(p)
  BY <1>4 DEF CompactMove
<1>5. CASE ReadMove(p)
  BY <1>5 DEF ReadMove
<1> QED BY <1>1, <1>2, <1>3, <1>4, <1>5, StepMoves

\* The range to compact stays in the stack, and is locked from the end.
LEMMA StepInRange ==
  ASSUME TypeOK, NEW p \in Procs, Step(p), Control(p), InRange(p)
  PROVE  InRange(p)'
<1>1. /\ first[p] \in Nat /\ last[p] \in Nat /\ idx[p] \in Nat /\ Len(st[p]) \in Nat
      /\ DOMAIN first = Procs /\ DOMAIN last = Procs /\ DOMAIN idx = Procs /\ DOMAIN pc = Procs
      /\ DOMAIN st[p] = 1 .. Len(st[p])
  BY SMTT(30) DEF TypeOK, TypeControl, TypeData
<1> USE DEF InRange, Compacting
<1>2. CASE CompactLock(p)
  <2>1. CASE Fail(p, "release")
    BY <1>1, <2>1 DEF Fail, Goto
  <2>2. CASE ~Fail(p, "release")
    <3>1. PICK f, l \in DOMAIN st[p] :
            /\ f < l /\ first' = [first EXCEPT ![p] = f] /\ last' = [last EXCEPT ![p] = l]
            /\ idx' = [idx EXCEPT ![p] = l] /\ Goto(p, "locktables")
      BY <1>2, <2>2 DEF CompactLock
    <3>2. first'[p] = f /\ last'[p] = l /\ idx'[p] = l /\ pc'[p] = "locktables" /\ st' = st
      BY <1>1, <1>2, <3>1 DEF Goto, CompactLock
    <3> QED BY <1>1, <3>1, <3>2, SMTT(30)
  <2> QED BY <2>1, <2>2
<1>3. CASE LockTable(p)
  BY <1>1, <1>3, SMTT(30) DEF LockTable
<1>4. CASE TableIsLocked(p)
  <2>1. CASE Fail(p, "release")
    BY <1>1, <2>1, SMTT(30) DEF Fail, Goto
  <2>2. CASE ~Fail(p, "release")
    <3>1. /\ first' = [first EXCEPT ![p] = idx[p] + 1] /\ pc[p] = "locktables"
          /\ UNCHANGED <<pc, last, idx, st>> /\ last[p] - idx[p] >= 2
      BY <1>4, <2>2 DEF TableIsLocked
    <3>2. first'[p] = idx[p] + 1 /\ last' = last /\ idx' = idx /\ pc' = pc /\ st' = st
      BY <1>1, <3>1
    <3> QED BY <1>1, <3>1, <3>2, SMTT(30)
  <2> QED BY <2>1, <2>2
<1>5. CASE CompactUnlock(p)
  BY <1>1, <1>5, SMTT(30) DEF CompactUnlock, Goto, compacting
<1>6. CASE CompactRelock(p) \/ CompactRename(p)
  <2>1. /\ UNCHANGED <<first, last, idx, st>> /\ pc[p] \in {"relock", "rename"}
    BY <1>6 DEF CompactRelock, CompactRename, compacting
  <2> QED BY <1>1, <2>1
<1> QED BY <1>2, <1>3, <1>4, <1>5, <1>6, StepArrives DEF Arrives, TypeOK

\* A process takes a free lock or gives its own back.
LEMMA StepLocks ==
  ASSUME TypeOK, NEW p \in Procs, Step(p), InRange(p), OwnLocks(p)
  PROVE  /\ \/ UNCHANGED listLock
            \/ listLock = Nobody /\ listLock' = p
            \/ listLock = p /\ listLock' = Nobody
         /\ \/ UNCHANGED tabLock
            \/ \E t \in 1 .. MaxTables :
                 \/ tabLock[t] = Nobody /\ tabLock' = [tabLock EXCEPT ![t] = p]
                 \/ tabLock[t] = p /\ tabLock' = [tabLock EXCEPT ![t] = Nobody]
<1>1. ASSUME AdditionCommit(p) \/ CompactUnlock(p) \/ CompactCommit(p)
      PROVE  listLock = p
  BY <1>1 DEF AdditionCommit, CompactUnlock, CompactCommit, OwnLocks, HoldsList
<1>2. ASSUME LockTable(p) PROVE st[p][idx[p]] \in 1 .. MaxTables
  <2>1. idx[p] \in DOMAIN st[p] /\ st[p] \in Seq(1 .. Len(tab))
    BY <1>2, SMTT(30) DEF LockTable, InRange, Compacting, TypeOK, TypeControl, TypeData
  <2>2. Len(tab) \in Nat /\ Len(tab) <= MaxTables /\ MaxTables \in Nat
    BY Bounds, SMTT(30) DEF TypeOK, TypeRepo
  <2>3. st[p][idx[p]] \in 1 .. Len(tab)
    BY <2>1, SMTT(30)
  <2> QED BY <2>2, <2>3, SMTT(30)
<1> QED BY <1>1, <1>2, StepRepo DEF InitAddition, AdditionCommit, ReleaseList,
       CompactLock, CompactUnlock, CompactRelock, CompactCommit, CleanLock,
       RemoveStale, ReleaseTable, LockTable

\* p knows whether it has locked the list.
LEMMA StepOwnList ==
  ASSUME TypeOK, NEW p \in Procs, Step(p), Control(p), OwnLocks(p)
  PROVE  /\ HoldsList(p)' => listLock' = p
         /\ alive'[p] /\ listLock' = p => HoldsList(p)' \/ pc'[p] = "release"
<1> DEFINE Labs == {"locked", "prepared", "commit", "undo", "locktables", "rename",
                    "replace", "cleaning"}
           Loads == {"readlist", "opentables", "unlinkold", "recheck"}
<1>0. /\ p # Nobody
      /\ pc[p] \in Labs \/ (pc[p] \in Loads /\ ret[p] = "locked") => listLock = p
      /\ alive[p] /\ listLock = p =>
           \/ pc[p] \in Labs \/ (pc[p] \in Loads /\ ret[p] = "locked") \/ pc[p] = "release"
  BY ConstantsAssumption DEF OwnLocks, HoldsList, Reloading
<1>c. /\ pc[p] \in Loads => ret[p] \in {"locked", "compact", "compacted", "read", "release"}
      /\ pc[p] \in Loads /\ ret[p] # "release" => open[p]
      /\ ~alive[p] => pc[p] = "idle"
      /\ new[p] # 0 => pc[p] \in {"commit", "replace", "undo"}
  BY DEF Control, Reloading
<1> SUFFICES /\ pc'[p] \in Labs \/ (pc'[p] \in Loads /\ ret'[p] = "locked") => listLock' = p
             /\ alive'[p] /\ listLock' = p =>
                  \/ pc'[p] \in Labs \/ (pc'[p] \in Loads /\ ret'[p] = "locked")
                  \/ pc'[p] = "release"
  BY DEF HoldsList, Reloading
<1> USE DEF Kept, Went, Failed, Reloads, Ended, Unlinks
<1>1. CASE ReloadMove(p)
  <2>1. /\ pc[p] \in Loads /\ listLock' = listLock /\ alive[p]
        /\ \/ pc'[p] \in Loads /\ ret'[p] = ret[p]
           \/ pc'[p] = ret[p] /\ ret'[p] = ret[p]
           \/ pc'[p] = "idle" /\ ~open[p]
           \/ pc'[p] = "release"
    BY <1>1 DEF ReloadMove
  <2>2. CASE pc'[p] = "idle" \/ pc'[p] = "release"
    BY <1>0, <1>c, <2>1, <2>2
  <2>3. CASE pc'[p] \in Loads /\ ret'[p] = ret[p]
    BY <1>0, <2>1, <2>3
  <2>4. CASE pc'[p] = ret[p] /\ ret'[p] = ret[p]
    BY <1>0, <1>c, <2>1, <2>4
  <2> QED BY <2>1, <2>2, <2>3, <2>4
<1>2. CASE AdditionMove(p)
  <2>1. ASSUME ReleaseList(p) \/ ReleaseTable(p) PROVE listLock' = listLock \/ listLock' = Nobody
    BY <2>1 DEF ReleaseList, ReleaseTable
  <2> QED BY <1>0, <1>2, <2>1 DEF AdditionMove
<1>3. CASE ReleasedMove(p)
  BY <1>0, <1>3 DEF ReleasedMove
<1>4. CASE CompactMove(p)
  BY <1>0, <1>4 DEF CompactMove
<1>5. CASE ReadMove(p)
  BY <1>0, <1>c, <1>5 DEF ReadMove
<1>6. CASE CrashMove(p)
  BY <1>0, <1>c, <1>6 DEF CrashMove
<1> QED BY <1>1, <1>2, <1>3, <1>4, <1>5, <1>6, StepMoves DEF TypeOK

\* A process that has locked tables is compacting, or on its way to release them.
LEMMA StepOwnTables ==
  ASSUME TypeOK, NEW p \in Procs, Step(p), Control(p), InRange(p), OwnLocks(p)
  PROVE  alive'[p] /\ (\E t \in 1 .. MaxTables : tabLock'[t] = p) =>
           Compacting(p)' \/ Replacing(p)' \/ pc'[p] \in {"undo", "release"}
<1> DEFINE Has == \E t \in 1 .. MaxTables : tabLock[t] = p
<1>0. alive[p] /\ Has => Compacting(p) \/ Replacing(p) \/ pc[p] \in {"undo", "release"}
  BY DEF OwnLocks
<1>1. SUFFICES ASSUME alive'[p], Has'
               PROVE  Compacting(p)' \/ Replacing(p)' \/ pc'[p] \in {"undo", "release"}
  OBVIOUS
<1>2. CASE LockTable(p)
  BY <1>2 DEF LockTable, Compacting
<1>3. CASE ~LockTable(p)
  <2>1. Has
    <3>1. UNCHANGED tabLock \/ ReleaseTable(p) \/ RemoveStale(p)
      BY <1>3, StepRepo
    <3>2. p # Nobody /\ DOMAIN tabLock = 1 .. MaxTables
      BY ConstantsAssumption DEF TypeOK, TypeRepo
    <3> QED BY <1>1, <3>1, <3>2 DEF ReleaseTable, RemoveStale, repo
  <2> USE DEF Control, Reloading, Replacing, Compacting, Kept, Went, Failed, Reloads, Ended,
              Unlinks
  <2> HIDE DEF Has
  <2>2. CASE ReloadMove(p)
    BY <1>0, <2>1, <2>2 DEF ReloadMove
  <2>3. CASE AdditionMove(p)
    BY <1>0, <2>1, <2>3 DEF AdditionMove, Has
  <2>4. CASE ReleasedMove(p) \/ CrashMove(p)
    BY <1>1, <2>1, <2>4 DEF ReleasedMove, CrashMove, Has
  <2>5. CASE CompactMove(p)
    BY <1>0, <2>1, <2>5 DEF CompactMove
  <2>6. CASE ReadMove(p)
    BY <1>0, <2>1, <2>6 DEF ReadMove
  <2> QED BY <2>2, <2>3, <2>4, <2>5, <2>6, StepMoves DEF TypeOK
<1> QED BY <1>2, <1>3

\* The tables p has locked are those of its range, from the end.
LEMMA StepOwnRange ==
  ASSUME TypeOK, NEW p \in Procs, Step(p), Control(p), InRange(p), OwnLocks(p)
  PROVE  Compacting(p)' =>
           \A t \in 1 .. MaxTables :
             tabLock'[t] = p <=> \E i \in idx'[p] + 1 .. last'[p] : st'[p][i] = t
<1> SUFFICES ASSUME Compacting(p)', NEW t \in 1 .. MaxTables
             PROVE  tabLock'[t] = p <=> \E i \in idx'[p] + 1 .. last'[p] : st'[p][i] = t
  OBVIOUS
<1>1. /\ idx[p] \in Nat /\ last[p] \in Nat /\ first[p] \in Nat /\ p # Nobody
      /\ DOMAIN idx = Procs /\ DOMAIN last = Procs /\ DOMAIN pc = Procs
      /\ DOMAIN tabLock = 1 .. MaxTables
  BY ConstantsAssumption DEF TypeOK, TypeControl, TypeRepo
<1>2. Compacting(p) => (tabLock[t] = p <=> \E i \in idx[p] + 1 .. last[p] : st[p][i] = t)
  BY DEF OwnLocks
<1>3. CASE CompactLock(p)
  <2>1. ~Fail(p, "release")
    BY <1>1 DEF Fail, Goto, Compacting
  <2>2. UNCHANGED <<st, tabLock>> /\ \E l \in Nat : idx'[p] = l /\ last'[p] = l
    BY <1>1, <1>3, <2>1, SMTT(30) DEF CompactLock, TypeOK, TypeData
  <2>3. tabLock[t] # p
    <3>1. alive[p] /\ pc[p] = "compact"
      BY <1>3 DEF CompactLock, Control, TypeOK, TypeControl
    <3> QED BY <3>1 DEF OwnLocks, Compacting, Replacing, Reloading
  <2> QED BY <2>2, <2>3, SMTT(30)
<1>4. CASE LockTable(p)
  <2> DEFINE x == idx[p]
  <2>1. /\ Compacting(p) /\ x >= 1 /\ x <= last[p] /\ x \in Nat
        /\ tabLock[st[p][x]] = Nobody /\ tabLock' = [tabLock EXCEPT ![st[p][x]] = p]
        /\ idx'[p] = x - 1 /\ last'[p] = last[p] /\ st' = st
    BY <1>1, <1>4, SMTT(30) DEF LockTable, Compacting, InRange
  <2> HIDE DEF x
  <2>2. CASE st[p][x] = t
    BY <1>1, <2>1, <2>2, SMTT(30)
  <2>3. CASE st[p][x] # t
    <3>1. tabLock'[t] = tabLock[t]
      BY <1>1, <2>1, <2>3
    <3>2. (\E i \in x + 1 .. last[p] : st[p][i] = t) <=> \E i \in x .. last[p] : st[p][i] = t
      BY <1>1, <2>1, <2>3, SMTT(30)
    <3> QED BY <1>2, <2>1, <3>1, <3>2, SMTT(30) DEF x
  <2> QED BY <2>2, <2>3
<1>5. CASE TableIsLocked(p) \/ CompactUnlock(p) \/ CompactRelock(p) \/ CompactRename(p)
  <2>1. UNCHANGED <<st, idx, last, tabLock>> /\ Compacting(p)
    BY <1>5 DEF TableIsLocked, CompactUnlock, CompactRelock, CompactRename,
       compacting, repo, Compacting
  <2> QED BY <1>2, <2>1
<1> QED BY <1>3, <1>4, <1>5, StepArrives DEF Arrives, Compacting, TypeOK

\* What a step of p does to the locks q relies on
LEMMA OthersLocks ==
  ASSUME TypeOK, NEW p \in Procs, Step(p), InRange(p), OwnLocks(p),
         NEW q \in Procs, q # p, OwnLocks(q)
  PROVE  OwnLocks(q)'
<1>1. /\ alive'[q] = alive[q] /\ pc'[q] = pc[q] /\ ret'[q] = ret[q] /\ st'[q] = st[q]
      /\ last'[q] = last[q] /\ idx'[q] = idx[q]
  BY StepFrame DEF TypeOK
<1>2. listLock' = q <=> listLock = q
  BY StepLocks, ConstantsAssumption, SMTT(30)
<1>3. \A t \in 1 .. MaxTables : tabLock'[t] = q <=> tabLock[t] = q
  <2>1. p # Nobody /\ q # Nobody /\ DOMAIN tabLock = 1 .. MaxTables
    BY ConstantsAssumption DEF TypeOK, TypeRepo
  <2>2. CASE UNCHANGED tabLock
    BY <2>2
  <2>3. ASSUME NEW x \in 1 .. MaxTables,
               \/ tabLock[x] = Nobody /\ tabLock' = [tabLock EXCEPT ![x] = p]
               \/ tabLock[x] = p /\ tabLock' = [tabLock EXCEPT ![x] = Nobody]
        PROVE  \A t \in 1 .. MaxTables : tabLock'[t] = q <=> tabLock[t] = q
    BY <2>1, <2>3
  <2> QED BY <2>2, <2>3, StepLocks, SMTT(30)
<1>4. (HoldsList(q)' <=> HoldsList(q)) /\ (Compacting(q)' <=> Compacting(q))
      /\ (Replacing(q)' <=> Replacing(q))
  BY <1>1, SMTT(30) DEF HoldsList, Compacting, Replacing, Reloading
<1> QED BY <1>1, <1>2, <1>3, <1>4, SMTT(30) DEF OwnLocks

\* p keeps the locks it relies on.
LEMMA StepOwnLocks ==
  ASSUME TypeOK, \A q \in Procs : Control(q) /\ InRange(q) /\ OwnLocks(q),
         NEW p \in Procs, Step(p), NEW q \in Procs
  PROVE  OwnLocks(q)'
<1>1. CASE q # p
  BY <1>1, OthersLocks
<1>2. CASE q = p
  BY <1>2, StepOwnList, StepOwnTables, StepOwnRange DEF OwnLocks
<1> QED BY <1>1, <1>2

\* A process learns of tables only from the list.
LEMMA KnownTables ==
  ASSUME TypeOK, NEW p \in Procs, Step(p), NEW q \in Procs
  PROVE  Listed(st'[q]) \cup Listed(names'[q]) \cup dead'[q]
           \subseteq Listed(st[q]) \cup Listed(names[q]) \cup dead[q] \cup Listed(list)
<1>1. CASE q = p
  <2>1. Listed(<<>>) = {}
    BY SMTT(30) DEF Listed
  <2> QED BY <1>1, <2>1, StepKnown
<1>2. CASE q # p
  BY <1>2, StepFrame DEF TypeOK
<1> QED BY <1>1, <1>2

\* What a stack lists are tables.
LEMMA ListedType ==
  ASSUME NEW S, NEW s \in Seq(S)
  PROVE  Listed(s) \subseteq S
BY SMTT(30) DEF Listed

\* Tables are only added, and stay what they are.
LEMMA TabGrows ==
  ASSUME TypeOK, NEW p \in Procs, Step(p)
  PROVE  /\ Len(tab) \in Nat /\ Len(tab') \in Nat /\ Len(tab) <= Len(tab')
         /\ Len(tab') <= MaxTables
         /\ \A t \in 1 .. Len(tab) : tab'[t] = tab[t] /\ t \in 1 .. Len(tab')
<1>1. tab \in Seq(Table) /\ Len(tab) <= MaxTables /\ MaxTables \in Nat /\ Len(tab) \in Nat
  BY Bounds, SMTT(30) DEF TypeOK, TypeRepo
<1>2. UNCHANGED tab \/ \E t : AddTable(p, t)
  BY StepRepo DEF AdditionAdd, CompactRename
<1>3. ASSUME NEW t, AddTable(p, t)
      PROVE  /\ Len(tab') = Len(tab) + 1 /\ Len(tab) < MaxTables
             /\ \A i \in 1 .. Len(tab) : tab'[i] = tab[i]
  <2> DEFINE S == Table \cup {t}
  <2>1. tab \in Seq(S) /\ t \in S
    BY <1>1, SMTT(30)
  <2> HIDE DEF S
  <2> QED BY <1>3, <2>1, SMTT(30) DEF AddTable
<1>4. CASE UNCHANGED tab
  BY <1>1, <1>4, SMTT(30)
<1>5. CASE \E t : AddTable(p, t)
  <2>1. /\ Len(tab') = Len(tab) + 1 /\ Len(tab) < MaxTables
        /\ \A i \in 1 .. Len(tab) : tab'[i] = tab[i]
    BY <1>3, <1>5
  <2> QED BY <1>1, <2>1, SMTT(30)
<1> QED BY <1>2, <1>4, <1>5

\* A sequence of older tables is one of tables.
LEMMA SeqGrows ==
  ASSUME NEW m \in Nat, NEW n \in Nat, m <= n
  PROVE  Seq(1 .. m) \subseteq Seq(1 .. n)
<1>1. 1 .. m \subseteq 1 .. n
  BY SMTT(30)
<1> QED BY <1>1, SMTT(30)

\* A transaction has updates for references.
LEMMA TxElements ==
  /\ NoTx \in TxType
  /\ \A S \in SUBSET Refs : \A f \in [S -> UpdateType] : f \in TxType
  /\ \A f \in TxType : DOMAIN f \subseteq Refs /\ f \in [DOMAIN f -> UpdateType]
<1>1. NoTx \in [{} -> UpdateType] /\ {} \in SUBSET Refs
  BY DEF NoTx
<1> QED BY <1>1 DEF TxType

\* What a step makes of the updates of a transaction
LEMMA StepTx ==
  ASSUME NEW p \in Procs, Step(p)
  PROVE  \/ UNCHANGED tx \/ tx' = [tx EXCEPT ![p] = NoTx] \/ PrepareUpdates(p)
         \/ \E u \in Transactions : tx' = [tx EXCEPT ![p] = u]
<1>1. CASE ReloadStep(p)
  BY <1>1 DEF ReloadStep, ReadList, ReloadDeadline, ReloadOnce, UnlinkOld,
     Recheck, Finish
<1>2. CASE AdditionStep(p)
  BY <1>2 DEF AdditionStep, TransactionBegin, InitAddition,
     AdditionAdd, AdditionCommit, LockTimeout, UndoTable, ReleaseList, ReleaseTable,
     Released, Finish
<1>3. CASE CompactStep(p)
  BY <1>3 DEF CompactStep, PackBegin, CompactNothing, CompactLock, LockTable,
     TableIsLocked, CompactUnlock, CompactRelock, CompactRename, CompactCommit,
     CompactUnlink, CleanLock, CleanUnlink
<1>4. CASE ReadStep(p) \/ Abort(p) \/ Crash(p) \/ Respawn(p) \/ RemoveStale(p)
  BY <1>4 DEF ReadStep, OpenBegin, ReadBegin, ReadEnd, Close, Abort, Crash,
     Respawn, RemoveStale, Finish
<1> QED BY <1>1, <1>2, <1>3, <1>4 DEF Step

\* The tables a process knows are among those it knew or are listed.
LEMMA StepData ==
  ASSUME TypeOK, NEW p \in Procs, Step(p)
  PROVE  /\ st' \in [Procs -> Seq(1 .. Len(tab))]
         /\ names' \in [Procs -> Seq(1 .. Len(tab))]
         /\ dead' \in [Procs -> SUBSET (1 .. Len(tab))]
         /\ tx' \in [Procs -> TxType]
<1> DEFINE T == 1 .. Len(tab)
<1>1. /\ st \in [Procs -> Seq(T)] /\ names \in [Procs -> Seq(T)]
      /\ dead \in [Procs -> SUBSET T] /\ tx \in [Procs -> TxType]
      /\ list \in Seq(T) /\ <<>> \in Seq(T)
  BY SMTT(30) DEF TypeOK, TypeRepo, TypeData
<1> HIDE DEF T
<1>2. st' \in [Procs -> Seq(T)]
  <2>1. st'[p] \in Seq(T)
    BY <1>1, StepKnown
  <2> QED BY <1>1, <2>1, StepShape, FrameAt
<1>3. names' \in [Procs -> Seq(T)]
  <2>1. names'[p] \in Seq(T)
    BY <1>1, StepKnown
  <2> QED BY <1>1, <2>1, StepShape, FrameAt
<1>4. dead' \in [Procs -> SUBSET T]
  <2>1. st[p] \in Seq(T) /\ dead[p] \subseteq T
    BY <1>1
  <2>2. Listed(st[p]) \subseteq T
    BY <2>1, ListedType
  <2>3. dead'[p] \in SUBSET T
    BY <2>1, <2>2, StepKnown
  <2> QED BY <1>1, <2>3, StepShape, FrameAt
<1>5. tx' \in [Procs -> TxType]
  <2>1. CASE PrepareUpdates(p)
    <3> DEFINE good == {r \in DOMAIN tx[p] : OldMatches(tx[p][r], View(st[p])[r])}
    <3>1. DOMAIN tx[p] \subseteq Refs /\ tx[p] \in [DOMAIN tx[p] -> UpdateType]
      BY <1>1, TxElements
    <3>2. good \in SUBSET Refs /\ [r \in good |-> tx[p][r]] \in [good -> UpdateType]
      BY <3>1
    <3>3. UNCHANGED tx \/ tx' = [tx EXCEPT ![p] = [r \in good |-> tx[p][r]]]
      BY <2>1 DEF PrepareUpdates
    <3> HIDE DEF good
    <3>4. [r \in good |-> tx[p][r]] \in TxType
      BY <3>2, TxElements, SMTT(30)
    <3> QED BY <1>1, <3>3, <3>4
  <2>2. NoTx \in TxType /\ Transactions \subseteq TxType
    BY TxElements, ConstantsAssumption
  <2> QED BY <1>1, <2>1, <2>2, StepTx
<1> QED BY <1>2, <1>3, <1>4, <1>5, SMTT(30) DEF T

\* Which steps change the table that is pending
LEMMA StepNew ==
  ASSUME NEW p \in Procs, Step(p)
  PROVE  \/ UNCHANGED new \/ new' = [new EXCEPT ![p] = 0]
         \/ \E t : AddTable(p, t)
<1>1. CASE ReloadStep(p)
  BY <1>1 DEF ReloadStep, ReadList, ReloadDeadline, ReloadOnce, UnlinkOld,
     Recheck, Finish
<1>2. CASE AdditionStep(p)
  BY <1>2 DEF AdditionStep, TransactionBegin, InitAddition, PrepareUpdates,
     AdditionAdd, AdditionCommit, LockTimeout, UndoTable, ReleaseList, ReleaseTable,
     Released, Finish
<1>3. CASE CompactStep(p)
  BY <1>3 DEF CompactStep, PackBegin, CompactNothing, CompactLock, LockTable,
     TableIsLocked, CompactUnlock, CompactRelock, CompactRename, CompactCommit,
     CompactUnlink, CleanLock, CleanUnlink
<1>4. CASE ReadStep(p) \/ Abort(p) \/ Crash(p) \/ Respawn(p) \/ RemoveStale(p)
  BY <1>4 DEF ReadStep, OpenBegin, ReadBegin, ReadEnd, Close, Abort, Crash,
     Respawn, RemoveStale, Finish
<1> QED BY <1>1, <1>2, <1>3, <1>4 DEF Step

\* What p has read and written keeps its type.
LEMMA StepTypeData ==
  ASSUME TypeOK, NEW p \in Procs, Step(p)
  PROVE  TypeData'
<1>1. Len(tab') \in Nat /\ Len(tab) \in Nat /\ Len(tab) <= Len(tab')
  BY TabGrows
<1>2. new' \in [Procs -> 0 .. Len(tab')]
  <2>1. new \in [Procs -> 0 .. Len(tab')] /\ 0 \in 0 .. Len(tab')
    BY <1>1, SMTT(30) DEF TypeOK, TypeData
  <2>2. ASSUME NEW t, AddTable(p, t) PROVE new' = [new EXCEPT ![p] = Len(tab')]
    <3> DEFINE S == Table \cup {t}
    <3>1. tab \in Seq(S) /\ t \in S
      BY SMTT(30) DEF TypeOK, TypeRepo
    <3> HIDE DEF S
    <3> QED BY <2>2, <3>1, SMTT(30) DEF AddTable
  <2>3. Len(tab') \in 0 .. Len(tab')
    BY <1>1, SMTT(30)
  <2> QED BY <2>1, <2>2, <2>3, StepNew
<1>3. Seq(1 .. Len(tab)) \subseteq Seq(1 .. Len(tab')) /\ 1 .. Len(tab) \subseteq 1 .. Len(tab')
  BY <1>1, SeqGrows, SMTT(30)
<1> QED BY <1>2, <1>3, StepData, SMTT(30) DEF TypeData

\* p knows how its stack compares with the list.
LEMMA StepLoaded ==
  ASSUME IInv, NEW p \in Procs, Step(p)
  PROVE  Loaded(p)'
<1>1. /\ TypeControl /\ TypeData /\ Control(p) /\ Loaded(p) /\ ListedTablesExist
      /\ MaxTries # 0
  BY ConstantsAssumption DEF IInv, Local, TypeOK, Directory
<1>2. CASE AdditionCommit(p) \/ CompactCommit(p)
  <2>1. pc'[p] = "readlist" /\ ret'[p] # "locked"
    BY <1>1, <1>2, SMTT(30) DEF AdditionCommit, CompactCommit, Reload, Goto, TypeControl
  <2> QED BY <2>1 DEF Loaded, Reloading
<1>3. CASE ~(AdditionCommit(p) \/ CompactCommit(p))
  <2>0. list' = list
    BY <1>3, StepRepo
  <2> USE DEF Loaded, Reloading, Kept, Went, Failed, Reloads, Ended, Unlinks
  <2>1. CASE ReloadMove(p)
    <3>1. pc[p] = "recheck" => ret[p] # "locked"
      BY <1>1
    <3>2. pc[p] = "opentables" /\ ret[p] = "locked" => Listed(names[p]) \subseteq files
      BY <1>1 DEF ListedTablesExist
    <3>3. pc[p] = "readlist" /\ ret[p] = "locked" => tries[p] # MaxTries
      BY <1>1
    <3>4. pc[p] \in {"opentables", "unlinkold"} /\ ret[p] = "locked" =>
            IF pc[p] = "opentables" THEN names[p] = list ELSE st[p] = list
      BY <1>1
    <3>5. ret[p] \in {"locked", "compact", "compacted", "read", "release"}
      BY <1>1, <2>1 DEF Control, ReloadMove
    <3> QED BY <2>0, <2>1, <3>1, <3>2, <3>3, <3>4, <3>5 DEF ReloadMove
  <2>2. CASE AdditionMove(p)
    BY <1>1, <1>3, <2>0, <2>2 DEF AdditionMove
  <2>3. CASE ReleasedMove(p)
    BY <2>3 DEF ReleasedMove
  <2>4. CASE CompactMove(p)
    BY <1>1, <1>3, <2>0, <2>4 DEF CompactMove
  <2>5. CASE ReadMove(p)
    BY <1>1, <2>0, <2>5 DEF ReadMove
  <2>6. CASE CrashMove(p)
    <3>1. ~alive[p] => pc[p] = "idle"
      BY <1>1 DEF Control
    <3> QED BY <2>6, <3>1 DEF CrashMove
  <2> QED BY <1>1, <2>1, <2>2, <2>3, <2>4, <2>5, <2>6, StepMoves
<1> QED BY <1>2, <1>3

\* Which tables a step unlinks, and which it writes
LEMMA StepFiles ==
  ASSUME IInv, NEW p \in Procs, Step(p)
  PROVE  /\ \A t \in files \ files' :
              \/ pc[p] = "unlinkold" /\ t \in dead[p]
              \/ pc[p] = "undo" /\ new[p] # 0 /\ t = new[p]
              \/ pc[p] = "compacted" /\ t \in 1 .. MaxTables /\ tabLock[t] = p
              \/ pc[p] = "cleaning" /\ t \notin Listed(list)
         /\ files' \ files \subseteq {Len(tab) + 1}
<1>1. CASE UnlinkOld(p)
  BY <1>1 DEF UnlinkOld
<1>2. CASE UndoTable(p)
  BY <1>2 DEF UndoTable, IInv, Local, Control
<1>3. CASE CompactUnlink(p)
  <2>1. files \subseteq 1 .. Len(tab) /\ tab \in Seq(Table) /\ Len(tab) <= MaxTables
    BY DEF IInv, TypeOK, TypeRepo
  <2>2. 1 .. Len(tab) \subseteq 1 .. MaxTables
    BY <2>1, Bounds, SMTT(30)
  <2> QED BY <1>3, <2>1, <2>2 DEF CompactUnlink
<1>4. CASE CleanUnlink(p)
  <2>1. pc[p] = "cleaning" /\ st[p] = list
    BY <1>4 DEF CleanUnlink, IInv, Local, Loaded
  <2>2. files' \subseteq files /\ files \ files' \subseteq Stale(p)
    BY <1>4 DEF CleanUnlink
  <2>3. \A t \in Stale(p) : t \notin Listed(list)
    BY <2>1 DEF Stale
  <2> QED BY <2>1, <2>2, <2>3
<1>5. CASE AdditionAdd(p) \/ CompactRename(p)
  <2>1. UNCHANGED files \/ \E t : AddTable(p, t)
    BY <1>5 DEF AdditionAdd, CompactRename
  <2> QED BY <2>1 DEF AddTable
<1>6. CASE UNCHANGED files
  BY <1>6
<1> QED BY <1>1, <1>2, <1>3, <1>4, <1>5, <1>6, StepRepo

\* No step unlinks a table that is listed.
LEMMA UnlinkedNotListed ==
  ASSUME IInv, NEW p \in Procs, Step(p), NEW t \in files \ files'
  PROVE  t \notin Listed(list)
<1>1. Control(p) /\ Unlisted(p) /\ Pending(p)
  BY DEF IInv, Local
<1>2. CASE pc[p] = "unlinkold" /\ t \in dead[p]
  BY <1>1, <1>2 DEF Unlisted
<1>3. CASE pc[p] = "undo" /\ new[p] # 0 /\ t = new[p]
  BY <1>1, <1>3 DEF Pending
<1>4. CASE pc[p] = "compacted" /\ t \in 1 .. MaxTables /\ tabLock[t] = p
  BY <1>1, <1>4 DEF Unlisted, Replacing
<1> QED BY <1>2, <1>3, <1>4, StepFiles, SMTT(30)

=============================================================================
