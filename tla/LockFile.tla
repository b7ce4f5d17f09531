------------------------------ MODULE LockFile ------------------------------
(***************************************************************************)
(* Lock files and the temporary files under them (lockfile.c, tempfile.c). *)
(* Processes update <path> by creating <path>.lock with O_EXCL, writing it *)
(* and renaming it.  A process remembers the file it created on            *)
(* tempfile_list, so that an atexit() handler or a signal handler can      *)
(* remove it; a forked child inherits the list, but not the ownership.     *)
(***************************************************************************)
EXTENDS FiniteSets

CONSTANTS
  Procs, Values,
  Nobody,   \* owner of a lock file that does not exist, or not yet set
  Partial   \* what a file holds that is not completely written

ASSUME LockFileAssumption == Nobody \notin Procs /\ Partial \notin Values

VARIABLES
  file,     \* content of <path>
  lock,     \* <path>.lock: who created it, and its content
  pc,
  list,     \* the owner field of each entry of the tempfile_list of a process
  base,     \* what the process read from <path> under the lock
  killed    \* processes that ended without running a handler

vars == <<file, lock, pc, list, base, killed>>

Unlocked == [by |-> Nobody, data |-> Partial]
Goto(p, l) == pc' = [pc EXCEPT ![p] = l]

Init ==
  /\ file \in Values
  /\ lock = Unlocked
  /\ pc = [p \in Procs |-> "idle"]
  /\ list = [p \in Procs |-> {}]
  /\ base = [p \in Procs |-> file]
  /\ killed = {}

-----------------------------------------------------------------------------
(* hold_lock_file_for_update(): create_tempfile_mode() *)

\* Mutant: open() without O_EXCL
CreateShared(p) ==
  /\ pc[p] = "idle"
  /\ lock' = [by |-> p, data |-> Partial]
  /\ Goto(p, "created")
  /\ UNCHANGED <<file, list, base, killed>>

\* open(O_CREAT | O_EXCL)
Create(p) ==
  /\ pc[p] = "idle" /\ lock.by = Nobody
  /\ lock' = [by |-> p, data |-> Partial]
  /\ Goto(p, "created")
  /\ UNCHANGED <<file, list, base, killed>>

\* activate_tempfile(): volatile_list_add(), and only then the owner
Activate(p) ==
  /\ pc[p] = "created"
  /\ list' = [list EXCEPT ![p] = @ \cup {Nobody}]
  /\ Goto(p, "listed")
  /\ UNCHANGED <<file, lock, base, killed>>

SetOwner(p) ==
  /\ pc[p] = "listed"
  /\ list' = [list EXCEPT ![p] = (@ \ {Nobody}) \cup {p}]
  /\ Goto(p, "held")
  /\ UNCHANGED <<file, lock, base, killed>>

-----------------------------------------------------------------------------
(* The caller reads <path>, writes the new content, commits or rolls back. *)

ReadFile(p) ==
  /\ pc[p] = "held"
  /\ base' = [base EXCEPT ![p] = file]
  /\ Goto(p, "read")
  /\ UNCHANGED <<file, lock, list, killed>>

\* Writes go to the file that p created, even if it has been unlinked since.
WriteLock(p) ==
  /\ pc[p] = "read"
  /\ \E v \in Values : lock' = IF lock.by = p THEN [lock EXCEPT !.data = v] ELSE lock
  /\ Goto(p, "written")
  /\ UNCHANGED <<file, list, base, killed>>

\* rename_tempfile(): rename() moves whatever <path>.lock is now; when it is
\* gone, delete_tempfile() has nothing left to unlink.
RenameLock(p) ==
  /\ pc[p] = "written"
  /\ file' = IF lock.by # Nobody THEN lock.data ELSE file
  /\ lock' = Unlocked
  /\ Goto(p, "gone")
  /\ UNCHANGED <<list, base, killed>>

\* rollback_lock_file(), or a failed close(): delete_tempfile() unlinks
DeleteLock(p) ==
  /\ pc[p] \in {"held", "read", "written"}
  /\ lock' = Unlocked
  /\ Goto(p, "gone")
  /\ UNCHANGED <<file, list, base, killed>>

\* deactivate_tempfile(): the file is gone, now forget it.
Deactivate(p) ==
  /\ pc[p] = "gone"
  /\ list' = [list EXCEPT ![p] = @ \ {p}]
  /\ Goto(p, "idle")
  /\ UNCHANGED <<file, lock, base, killed>>

-----------------------------------------------------------------------------
(* The end of a process, and its beginning *)

\* Mutants: the owner is not compared; nothing is removed.
RemoveTempfilesAny(p) == lock' = IF list[p] # {} THEN Unlocked ELSE lock
RemoveTempfilesNot(p) == lock' = lock

\* remove_tempfiles(): unlink the files on the list that p itself created.
RemoveTempfiles(p) == lock' = IF p \in list[p] THEN Unlocked ELSE lock

\* exit() or die(), between two calls of the API
Exit(p) ==
  /\ pc[p] \in {"idle", "held", "read", "written"}
  /\ RemoveTempfiles(p)
  /\ Goto(p, "dead")
  /\ list' = [list EXCEPT ![p] = {}]
  /\ UNCHANGED <<file, base, killed>>

\* remove_tempfiles_on_signal(), which can run at any time
Signal(p) ==
  /\ pc[p] # "dead"
  /\ RemoveTempfiles(p)
  /\ Goto(p, "dead")
  /\ list' = [list EXCEPT ![p] = {}]
  /\ UNCHANGED <<file, base, killed>>

\* SIGKILL, or the machine stops
Kill(p) ==
  /\ pc[p] # "dead"
  /\ Goto(p, "dead")
  /\ list' = [list EXCEPT ![p] = {}]
  /\ killed' = killed \cup {p}
  /\ UNCHANGED <<file, lock, base>>

\* unable_to_lock_message(): "remove the file manually to continue", once the
\* process that created it has been terminated
RemoveManually(p) ==
  /\ pc[p] = "dead" /\ lock.by = p
  /\ lock' = Unlocked
  /\ UNCHANGED <<file, pc, list, base, killed>>

\* A new process; a process id is not reused while its lock file is there.
Start(p) ==
  /\ pc[p] = "dead" /\ lock.by # p
  /\ Goto(p, "idle")
  /\ killed' = killed \ {p}
  /\ UNCHANGED <<file, lock, list, base>>

\* fork() between two calls: the child c has the list of its parent.  Nor is
\* a process id reused while the list of its parent names it.
Fork(p, c) ==
  /\ pc[p] \in {"idle", "held", "read", "written"}
  /\ pc[c] = "dead" /\ lock.by # c /\ c \notin list[p]
  /\ Goto(c, "idle")
  /\ list' = [list EXCEPT ![c] = list[p]]
  /\ killed' = killed \ {c}
  /\ UNCHANGED <<file, lock, base>>

-----------------------------------------------------------------------------

CallerStep(p) ==
  \/ Create(p) \/ Activate(p) \/ SetOwner(p) \/ ReadFile(p) \/ WriteLock(p)
  \/ RenameLock(p) \/ DeleteLock(p) \/ Deactivate(p)

LifeStep(p) ==
  \/ Exit(p) \/ Kill(p) \/ RemoveManually(p) \/ Start(p)
  \/ \E c \in Procs : Fork(p, c)

Next == \E p \in Procs : CallerStep(p) \/ LifeStep(p) \/ Signal(p)

Spec == Init /\ [][Next]_vars

\* Where a signal finds tempfile_list and the directory in disagreement: the file
\* exists and is not on the list, or it is on the list and no longer exists.
InWindow(p) == pc[p] \in {"created", "listed", "gone"}
SignalOutside(p) == ~InWindow(p) /\ Signal(p)

NextOutside == \E p \in Procs : CallerStep(p) \/ LifeStep(p) \/ SignalOutside(p)

\* An assumption the code does not enforce: no signal arrives in a window.
SpecOutside == Init /\ [][NextOutside]_vars

-----------------------------------------------------------------------------
(* Properties *)

TypeOK ==
  /\ file \in Values \cup {Partial}
  /\ lock \in [by : Procs \cup {Nobody}, data : Values \cup {Partial}]
  /\ pc \in [Procs -> {"idle", "created", "listed", "held", "read", "written",
                       "gone", "dead"}]
  /\ list \in [Procs -> SUBSET (Procs \cup {Nobody})]
  /\ base \in [Procs -> Values \cup {Partial}]
  /\ killed \subseteq Procs

\* p has created <path>.lock and has neither renamed nor removed it.
Critical(p) == pc[p] \in {"created", "listed", "held", "read", "written"}

\* "Mutual exclusion" (lockfile.h): at most one process at a time is between
\* creating <path>.lock and renaming or removing it, whichever processes exit,
\* are killed and cleaned up after, or fork with the lock held.
MutualExclusion ==
  \A p, q \in Procs : Critical(p) /\ Critical(q) => p = q

\* No update is lost: what the holder read from <path> is still what <path>
\* holds when it commits the content it computed from that.
NoLostUpdate ==
  \A p \in Procs : pc[p] \in {"read", "written"} => file = base[p]

\* "guaranteed to see either the old contents of the file or the new contents"
\* (lockfile.h): a reader of <path> never meets a half-written file.
NeverTorn == file # Partial

\* "Mutual exclusion and atomic file updates" (lockfile.h): no update gets lost
\* and none is seen half-way, whatever forks, dies or is signalled meanwhile.
AtomicUpdates == NoLostUpdate /\ NeverTorn

\* "This mechanism ensures that outstanding lockfiles are cleaned up if the
\* program exits (including when die() is called) or if the program is
\* terminated by a signal" (lockfile.h)
CruftRemoved ==
  \A p \in Procs : pc[p] = "dead" /\ lock.by = p => p \in killed
=============================================================================
