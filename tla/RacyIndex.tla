------------------------------ MODULE RacyIndex ------------------------------
(***************************************************************************)
(* The stat cache of the index (read-cache.c, statinfo.c): an entry whose  *)
(* recorded time and size match the file is taken for unchanged without    *)
(* reading the file.  A file can be edited twice in one tick of the clock, *)
(* so an entry as young as the index itself is compared by content, and is *)
(* smudged (its size set to 0) if it is stale when the index is rewritten. *)
(*                                                                         *)
(* Regular files whose content is not converted; the mode, owner and inode *)
(* fields and the assume-unchanged, skip-worktree and fsmonitor bits are   *)
(* left out.  index.lock admits one writer at a time (module LockFile), so *)
(* there is one command.  Commands that only look evaluate ie_match_stat() *)
(* on what is on disk.                                                     *)
(***************************************************************************)
EXTENDS Integers

CONSTANTS
  Paths,
  Contents,   \* what a file can hold
  Size,       \* the size of each content
  Head,       \* what a reader gets of a content that is longer than they ask for
  Empty,      \* the content of size 0
  Absent,     \* in place of a content: there is no file
  NoEntry,    \* in place of an index entry
  NoStat,     \* no lstat() result is pending
  MaxClock    \* bound on the time

VARIABLES
  clock,      \* the time, in units of the file system's timestamps
  content, mtime,   \* the work tree
  disk,       \* the index file: its own mtime, and the entries
  cmd,        \* what the command does: idle, open, write, closed
  core,       \* its struct index_state: timestamp and entries
  upToDate,   \* the paths with CE_UPTODATE
  written,    \* the paths do_write_index() has written to index.lock
  st          \* struct stat of the path add_to_index() or refresh_index() is at

indexVars == <<clock, content, mtime, disk, cmd, core, upToDate, written, st>>

tree == <<clock, content, mtime>>

\* What the constants stand for
IndexConstants ==
  /\ Size \in [Contents -> Nat]
  /\ Empty \in Contents
  /\ \A c \in Contents : Size[c] = 0 <=> c = Empty
  /\ Absent \notin Contents
  /\ \A c, d \in Contents : Size[d] <= Size[c] =>
       /\ Head[c][Size[d]] \in Contents
       /\ Size[d] = Size[c] => Head[c][Size[d]] = c
  /\ MaxClock \in Nat /\ MaxClock > 0

ASSUME IndexAssumption == IndexConstants

Entries == [oid : Contents, mtime : 0 .. MaxClock, size : {0} \cup {Size[c] : c \in Contents}]

IndexInit ==
  /\ clock = 1
  /\ content = [f \in Paths |-> Absent]
  /\ mtime = [f \in Paths |-> 0]
  /\ disk = [time |-> 0, entry |-> [f \in Paths |-> NoEntry]]
  /\ cmd = "idle"
  /\ core = disk
  /\ upToDate = {} /\ written = {}
  /\ st = NoStat

-----------------------------------------------------------------------------
(* Comparing an entry with a file *)

\* lstat(), and fill_stat_data() of its result
Stat(f) == [mtime |-> mtime[f], size |-> Size[content[f]]]

\* match_stat_data(): no field differs.
MatchStatData(e, s) == e.mtime = s.mtime /\ e.size = s.size

\* "Racily smudged entry?"
Smudged(e) == e.size = 0 /\ e.oid # Empty

\* ce_match_stat_basic() finds no change.
MatchStatBasic(e, s) == MatchStatData(e, s) /\ ~Smudged(e)

\* Mutant: only an entry younger than the index is suspected.
IsRacyYounger(time, e) == time # 0 /\ time < e.mtime

\* is_racy_stat(); the time of an index that was not read from a file is 0.
IsRacy(time, e) == time # 0 /\ time <= e.mtime

\* index_fd() reads as many bytes as lstat() has said there are, later than
\* lstat(): there may be no file any more, a short one, or a longer one.
Read(f, s) ==
  IF content[f] = Absent \/ Size[content[f]] < s.size
  THEN Absent
  ELSE Head[content[f]][s.size]

\* ce_compare_data()
SameData(f, e, s) == Read(f, s) = e.oid

\* ie_match_stat() finds no change.
MatchStat(time, f, e, s) ==
  MatchStatBasic(e, s) /\ (IsRacy(time, e) => SameData(f, e, s))

\* ie_match_stat() says DATA_CHANGED.
DataChanged(time, f, e, s) ==
  \/ e.size # s.size
  \/ Smudged(e)
  \/ MatchStatBasic(e, s) /\ IsRacy(time, e) /\ ~SameData(f, e, s)

\* ie_modified(): a size of 0 says nothing, the content decides.
Modified(time, f, e, s) ==
  ~MatchStat(time, f, e, s) /\
  ((DataChanged(time, f, e, s) /\ e.size # 0) \/ ~SameData(f, e, s))

-----------------------------------------------------------------------------
(* The work tree *)

Tick ==
  /\ clock < MaxClock
  /\ clock' = clock + 1
  /\ UNCHANGED <<content, mtime, disk, cmd, core, upToDate, written, st>>

\* Assumption: the running command has verified the entry in this very tick and
\* has not yet written the index; nobody edits the file before it has.
JustVerified(f) ==
  /\ cmd \in {"open", "write"}
  /\ f \in upToDate \cup written
  /\ core.entry[f] # NoEntry
  /\ core.entry[f].mtime = clock

\* Somebody writes or removes the file, in place.
Edit(f) ==
  /\ ~JustVerified(f)
  /\ \E c \in Contents \cup {Absent} : content' = [content EXCEPT ![f] = c]
  /\ mtime' = [mtime EXCEPT ![f] = clock]
  /\ UNCHANGED <<clock, disk, cmd, core, upToDate, written, st>>

-----------------------------------------------------------------------------
(* The command *)

\* repo_hold_locked_index() and do_read_index()
ReadIndex ==
  /\ cmd = "idle"
  /\ cmd' = "open"
  /\ core' = disk
  /\ UNCHANGED <<tree, disk, upToDate, written, st>>

\* The command works on one path after the other.
AtRest == cmd = "open" /\ st = NoStat

SetEntry(f, e) == core' = [core EXCEPT !.entry[f] = e]

\* add_to_index(), with CE_MATCH_RACY_IS_DIRTY: "Nothing changed, really", or
\* the file has to be hashed.
AddStat(f) ==
  /\ AtRest /\ content[f] # Absent
  /\ IF /\ core.entry[f] # NoEntry
        /\ MatchStatBasic(core.entry[f], Stat(f))
        /\ ~IsRacy(core.time, core.entry[f])
     THEN upToDate' = upToDate \cup {f} /\ UNCHANGED st
     ELSE /\ st' = [op |-> "add", path |-> f, data |-> Stat(f)]
          /\ UNCHANGED upToDate
  /\ UNCHANGED <<tree, disk, cmd, core, written>>

\* index_path() fails or names what it reads; add_index_entry().
AddHash ==
  /\ st # NoStat /\ st.op = "add"
  /\ LET f == st.path
         c == Read(f, st.data)
     IN  IF c = Absent
         THEN UNCHANGED <<core, upToDate>>
         ELSE /\ SetEntry(f, [oid |-> c, mtime |-> st.data.mtime, size |-> st.data.size])
              /\ upToDate' = upToDate \cup {f}
  /\ st' = NoStat
  /\ UNCHANGED <<tree, disk, cmd, written>>

\* refresh_cache_ent() calls lstat().
RefreshStat(f) ==
  /\ AtRest /\ core.entry[f] # NoEntry /\ f \notin upToDate
  /\ content[f] # Absent
  /\ st' = [op |-> "refresh", path |-> f, data |-> Stat(f)]
  /\ UNCHANGED <<tree, disk, cmd, core, upToDate, written>>

\* ... and matches, finds that only the stat data are out of date, or gives up.
RefreshCompare ==
  /\ st # NoStat /\ st.op = "refresh"
  /\ LET f == st.path
         e == core.entry[f]
     IN  \/ /\ MatchStat(core.time, f, e, st.data)
            /\ upToDate' = upToDate \cup {f}
            /\ UNCHANGED core
         \/ /\ ~MatchStat(core.time, f, e, st.data)
            /\ ~Modified(core.time, f, e, st.data)
            /\ SetEntry(f, [e EXCEPT !.mtime = st.data.mtime, !.size = st.data.size])
            /\ upToDate' = upToDate \cup {f}
         \/ /\ Modified(core.time, f, e, st.data)
            /\ UNCHANGED <<core, upToDate>>
  /\ st' = NoStat
  /\ UNCHANGED <<tree, disk, cmd, written>>

\* remove_file_from_index()
Remove(f) ==
  /\ AtRest /\ core.entry[f] # NoEntry
  /\ SetEntry(f, NoEntry)
  /\ upToDate' = upToDate \ {f}
  /\ UNCHANGED <<tree, disk, cmd, written, st>>

\* "update-index --cacheinfo" and read-tree: an entry nobody has looked for in
\* the work tree
CacheInfo(f) ==
  /\ AtRest
  /\ \E c \in Contents : SetEntry(f, [oid |-> c, mtime |-> 0, size |-> 0])
  /\ upToDate' = upToDate \ {f}
  /\ UNCHANGED <<tree, disk, cmd, written, st>>

\* write_entry() and update_ce_after_write()
Checkout(f) ==
  /\ AtRest /\ core.entry[f] # NoEntry
  /\ LET c == core.entry[f].oid
     IN  /\ content' = [content EXCEPT ![f] = c]
         /\ SetEntry(f, [oid |-> c, mtime |-> clock, size |-> Size[c]])
  /\ mtime' = [mtime EXCEPT ![f] = clock]
  /\ upToDate' = upToDate \cup {f}
  /\ UNCHANGED <<clock, disk, cmd, written, st>>

-----------------------------------------------------------------------------
(* do_write_index() *)

WriteIndex ==
  /\ AtRest
  /\ cmd' = "write"
  /\ UNCHANGED <<tree, disk, core, upToDate, written, st>>

\* ce_smudge_racily_clean_entry()
Smudge(f, e) ==
  IF content[f] # Absent /\ MatchStatBasic(e, Stat(f)) /\ ~SameData(f, e, Stat(f))
  THEN [e EXCEPT !.size = 0]
  ELSE e

WriteEntry(f) ==
  /\ cmd = "write" /\ f \notin written /\ core.entry[f] # NoEntry
  /\ IF f \notin upToDate /\ IsRacy(core.time, core.entry[f])
     THEN SetEntry(f, Smudge(f, core.entry[f]))
     ELSE UNCHANGED core
  /\ written' = written \cup {f}
  /\ UNCHANGED <<tree, disk, cmd, upToDate, st>>

\* finalize_hashfile() and close: index.lock gets its mtime.
CloseIndex ==
  /\ cmd = "write"
  /\ \A f \in Paths : core.entry[f] # NoEntry => f \in written
  /\ cmd' = "closed"
  /\ core' = [core EXCEPT !.time = clock]
  /\ UNCHANGED <<tree, disk, upToDate, written, st>>

\* The command ends, and its struct index_state with it.
End ==
  /\ cmd' = "idle"
  /\ core' = disk'
  /\ upToDate' = {} /\ written' = {}
  /\ st' = NoStat

\* commit_lock_file()
CommitIndex ==
  /\ cmd = "closed"
  /\ disk' = core
  /\ End
  /\ UNCHANGED tree

\* rollback_lock_file(), or the command had nothing to write
Rollback ==
  /\ cmd \in {"open", "write", "closed"}
  /\ disk' = disk
  /\ End
  /\ UNCHANGED tree

IndexNext ==
  \/ Tick \/ ReadIndex \/ AddHash \/ RefreshCompare
  \/ WriteIndex \/ CloseIndex \/ CommitIndex \/ Rollback
  \/ \E f \in Paths :
       \/ Edit(f) \/ AddStat(f) \/ RefreshStat(f) \/ Remove(f)
       \/ CacheInfo(f) \/ Checkout(f) \/ WriteEntry(f)

IndexSpec == IndexInit /\ [][IndexNext]_indexVars

-----------------------------------------------------------------------------
(* Properties *)

EntryOrNone == Entries \cup {NoEntry}

StatData == [mtime : 0 .. MaxClock, size : {Size[c] : c \in Contents}]

IndexTypeOK ==
  /\ clock \in 1 .. MaxClock
  /\ content \in [Paths -> Contents \cup {Absent}]
  /\ mtime \in [Paths -> 0 .. MaxClock]
  /\ disk \in [time : 0 .. MaxClock, entry : [Paths -> EntryOrNone]]
  /\ cmd \in {"idle", "open", "write", "closed"}
  /\ core \in [time : 0 .. MaxClock, entry : [Paths -> EntryOrNone]]
  /\ upToDate \subseteq Paths /\ written \subseteq Paths
  /\ st \in [op : {"add", "refresh"}, path : Paths, data : StatData] \cup {NoStat}

\* The file of an entry has changed, and its cached stat data do not tell.
LooksClean(f, e) ==
  /\ e # NoEntry /\ content[f] # Absent
  /\ MatchStatBasic(e, Stat(f))

\* What ie_match_stat() says of the index on disk can be believed: a path that is
\* reported unchanged has the content the index records, however often the file
\* was edited in one tick and whenever the index was rewritten.
NotFalselyClean ==
  \A f \in Paths :
    LET e == disk.entry[f]
    IN  LooksClean(f, e) /\ MatchStat(disk.time, f, e, Stat(f)) => content[f] = e.oid

\* CE_UPTODATE spares an entry every later check of the command, smudging
\* included: it must not outlive an edit that the stat data do not show.
UpToDateIsTrue ==
  cmd \in {"open", "write"} =>
    \A f \in upToDate : LooksClean(f, core.entry[f]) => content[f] = core.entry[f].oid

\* No edit of a file is missed by a later command nor by the one that runs, except
\* the one the design cannot see: an edit in the very tick in which the running
\* command has verified or written the file, before it has written the index
\* (JustVerified); Edit leaves those out.
NoEditMissed == NotFalselyClean /\ UpToDateIsTrue
=============================================================================
