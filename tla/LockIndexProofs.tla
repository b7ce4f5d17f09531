-------------------------- MODULE LockIndexProofs ---------------------------
(***************************************************************************)
(* For any number of processes, files, contents and ticks.  A path that    *)
(* the index on disk reports unchanged has the content the index records.  *)
(* Lock files, under which the index and other files are written, exclude  *)
(* each other, lose no update, are never seen half written and are cleaned *)
(* up, as long as no signal arrives in one of the windows of InWindow.     *)
(***************************************************************************)
EXTENDS LockFile, RacyIndex, TLAPS

-----------------------------------------------------------------------------
(* read-cache.c *)

\* Most leaves are set and first-order reasoning; SMT is named where numbers,
\* records or function updates need it.
USE ZenonT(30)

\* Nothing carries a time that has not come yet.
Times ==
  /\ disk.time <= clock /\ core.time <= clock
  /\ \A f \in Paths : mtime[f] <= clock /\ (content[f] # Absent => 1 <= mtime[f])

\* Who looks at what in which phase of the command
Phases ==
  /\ cmd = "idle" => core = disk /\ upToDate = {} /\ written = {}
  /\ cmd = "open" => written = {}
  /\ st # NoStat => cmd = "open" /\ (st.op = "refresh" => core.entry[st.path] # NoEntry)
  /\ cmd = "closed" => core.time # 0
  /\ disk.time = 0 => \A f \in Paths : disk.entry[f] = NoEntry
  /\ core.time = 0 => \A f \in Paths :
       core.entry[f] # NoEntry => f \in upToDate \/ core.entry[f].mtime = 0

\* An entry that looks clean though it is not is at least as young as the index.
Sound(time, f, e) == LooksClean(f, e) => content[f] = e.oid \/ IsRacy(time, e)

\* An entry the command has verified since it read the index
Verified(f) == cmd \in {"open", "write"} /\ f \in upToDate \cup written

\* The stat data are right, or suspected.
Cached ==
  \A f \in Paths :
    /\ Sound(disk.time, f, disk.entry[f])
    /\ ~Verified(f) => Sound(core.time, f, core.entry[f])
    /\ Verified(f) /\ LooksClean(f, core.entry[f]) => content[f] = core.entry[f].oid

IndexInv == IndexTypeOK /\ Times /\ Phases /\ Cached

-----------------------------------------------------------------------------
(* Types and times *)

\* IndexInit establishes the invariant: there is neither a file nor an entry.
LEMMA InitInv == ASSUME IndexConstants PROVE IndexInit => IndexInv
BY SMTT(30) DEF IndexConstants, IndexInit, IndexInv, IndexTypeOK, EntryOrNone, Times, Phases, Cached, Sound,
   Verified, LooksClean

\* What an action that sets one entry of the index in core leaves of it
LEMMA SetEntryIs ==
  ASSUME IndexTypeOK, NEW f \in Paths, NEW e \in EntryOrNone, SetEntry(f, e)
  PROVE  /\ core'.time = core.time
         /\ core'.entry[f] = e
         /\ \A g \in Paths \ {f} : core'.entry[g] = core.entry[g]
         /\ core' \in [time : 0 .. MaxClock, entry : [Paths -> EntryOrNone]]
BY DEF IndexTypeOK, SetEntry

\* An entry is made of an object name, a time and a size.
LEMMA EntryTypes ==
  ASSUME IndexConstants, IndexTypeOK, NEW f \in Paths
  PROVE  /\ content[f] # Absent => Stat(f) \in StatData
         /\ core.entry[f] # NoEntry => core.entry[f] \in Entries
         /\ disk.entry[f] # NoEntry => disk.entry[f] \in Entries
BY SMTT(30) DEF IndexConstants, IndexTypeOK, Stat, StatData, EntryOrNone

\* index_fd() returns a content or fails, and the content of the file if its size
\* is still the one lstat() has seen.
LEMMA ReadIs ==
  ASSUME IndexConstants, IndexTypeOK, NEW f \in Paths, NEW s \in StatData
  PROVE  /\ Read(f, s) \in Contents \cup {Absent}
         /\ content[f] # Absent /\ Size[content[f]] = s.size => Read(f, s) = content[f]
<1>1. PICK d \in Contents : s.size = Size[d]
  BY DEF StatData
<1>2. content[f] \in Contents \cup {Absent}
  BY DEF IndexTypeOK
<1> QED BY <1>1, <1>2, SMTT(30) DEF Read, IndexConstants

\* Every step keeps the types.
LEMMA TypeStep == ASSUME IndexConstants, IndexTypeOK, Phases, [IndexNext]_indexVars PROVE IndexTypeOK'
<1> USE DEF IndexConstants
<1>1. CASE Tick \/ ReadIndex \/ WriteIndex \/ CommitIndex \/ Rollback
  BY <1>1, SMTT(30) DEF IndexTypeOK, Tick, ReadIndex, WriteIndex, CommitIndex, Rollback, End, tree, AtRest
<1>2. CASE CloseIndex
  BY <1>2, SMTT(30) DEF IndexTypeOK, CloseIndex, tree
<1>3. CASE AddHash
  <2> DEFINE f == st.path
             c == Read(f, st.data)
             e == [oid |-> c, mtime |-> st.data.mtime, size |-> st.data.size]
  <2>1. f \in Paths /\ st.data \in StatData
    BY <1>3 DEF AddHash, IndexTypeOK
  <2>2. CASE c = Absent
    BY <1>3, <2>2, SMTT(30) DEF AddHash, IndexTypeOK, tree
  <2>3. CASE c # Absent
    <3>1. e \in EntryOrNone
      BY <2>1, <2>3, ReadIs, SMTT(30) DEF IndexTypeOK, EntryOrNone, Entries, StatData
    <3>2. SetEntry(f, e) /\ upToDate' = upToDate \cup {f}
      BY <1>3, <2>3 DEF AddHash
    <3> QED BY <1>3, <2>1, <3>1, <3>2, SetEntryIs, SMTT(30) DEF AddHash, IndexTypeOK, tree
  <2> QED BY <2>2, <2>3
<1>4. CASE RefreshCompare
  <2> DEFINE f == st.path
             e == [core.entry[f] EXCEPT !.mtime = st.data.mtime, !.size = st.data.size]
  <2>1. f \in Paths /\ st.data \in StatData /\ core.entry[f] \in Entries
    BY <1>4, EntryTypes DEF RefreshCompare, IndexTypeOK, Phases
  <2>2. e \in EntryOrNone
    BY <2>1 DEF EntryOrNone, Entries, StatData
  <2>3. \/ UNCHANGED core
        \/ SetEntry(f, e)
    BY <1>4 DEF RefreshCompare
  <2>4. core' \in [time : 0 .. MaxClock, entry : [Paths -> EntryOrNone]]
    BY <2>1, <2>2, <2>3, SetEntryIs DEF IndexTypeOK
  <2> QED BY <1>4, <2>1, <2>4, SMTT(30) DEF RefreshCompare, IndexTypeOK, tree
<1>5. CASE \E f \in Paths : Edit(f)
  BY <1>5, SMTT(30) DEF Edit, IndexTypeOK
<1>6. CASE \E f \in Paths : AddStat(f) \/ RefreshStat(f)
  <2>1. PICK f \in Paths : AddStat(f) \/ RefreshStat(f)
    BY <1>6
  <2>2. Stat(f) \in StatData
    BY <2>1, EntryTypes DEF AddStat, RefreshStat
  <2> QED BY <2>1, <2>2, SMTT(30) DEF AddStat, RefreshStat, IndexTypeOK, tree
<1>7. CASE \E f \in Paths : Remove(f) \/ CacheInfo(f)
  <2>1. PICK f \in Paths, e \in EntryOrNone :
          /\ SetEntry(f, e)
          /\ upToDate' = upToDate \ {f}
          /\ UNCHANGED <<tree, disk, cmd, written, st>>
    <3>1. \A c \in Contents : [oid |-> c, mtime |-> 0, size |-> 0] \in EntryOrNone
      BY SMTT(30) DEF EntryOrNone, Entries
    <3>2. NoEntry \in EntryOrNone
      BY DEF EntryOrNone
    <3> QED BY <1>7, <3>1, <3>2 DEF Remove, CacheInfo
  <2> QED BY <2>1, SetEntryIs DEF IndexTypeOK, tree
<1>8. CASE \E f \in Paths : Checkout(f)
  <2>1. PICK f \in Paths : Checkout(f)
    BY <1>8
  <2> DEFINE c == core.entry[f].oid
             e == [oid |-> c, mtime |-> clock, size |-> Size[c]]
  <2>2. c \in Contents
    BY <2>1, EntryTypes DEF Checkout, Entries
  <2>3. e \in EntryOrNone
    BY <2>2, SMTT(30) DEF IndexTypeOK, EntryOrNone, Entries
  <2> QED BY <2>1, <2>2, <2>3, SetEntryIs, SMTT(30) DEF Checkout, IndexTypeOK
<1>9. CASE \E f \in Paths : WriteEntry(f)
  <2>1. PICK f \in Paths : WriteEntry(f)
    BY <1>9
  <2>2. Smudge(f, core.entry[f]) \in EntryOrNone
    BY <2>1, EntryTypes, SMTT(30) DEF WriteEntry, Smudge, EntryOrNone, Entries
  <2>3. core' \in [time : 0 .. MaxClock, entry : [Paths -> EntryOrNone]]
    BY <2>1, <2>2, SetEntryIs, SMTT(30) DEF WriteEntry, IndexTypeOK
  <2> QED BY <2>1, <2>3, SMTT(30) DEF WriteEntry, IndexTypeOK, tree
<1>10. CASE UNCHANGED indexVars
  BY <1>10 DEF IndexTypeOK, indexVars
<1> QED BY <1>1, <1>2, <1>3, <1>4, <1>5, <1>6, <1>7, <1>8, <1>9, <1>10 DEF IndexNext

\* Time only goes forward, and every timestamp is taken from the clock.
LEMMA TimesStep == ASSUME IndexConstants, IndexInv, [IndexNext]_indexVars PROVE Times'
<1> USE DEF IndexConstants, IndexInv
<1>1. CASE Tick \/ ReadIndex \/ WriteIndex \/ CommitIndex \/ Rollback \/ CloseIndex
  BY <1>1, SMTT(30) DEF IndexTypeOK, Times, Tick, ReadIndex, WriteIndex, CommitIndex, Rollback, End,
     CloseIndex, tree, AtRest
<1>2. CASE \E f \in Paths : Edit(f)
  BY <1>2, SMTT(30) DEF Edit, IndexTypeOK, Times
<1>3. CASE \E f \in Paths : Checkout(f)
  <2>1. PICK f \in Paths : Checkout(f)
    BY <1>3
  <2>2. core'.time = core.time
    BY <2>1 DEF Checkout, SetEntry, IndexTypeOK
  <2> QED BY <2>1, <2>2, SMTT(30) DEF Checkout, IndexTypeOK, Times
<1>4. CASE AddHash \/ RefreshCompare \/
           \E f \in Paths : AddStat(f) \/ RefreshStat(f) \/ Remove(f) \/ CacheInfo(f) \/ WriteEntry(f)
  <2>1. UNCHANGED <<clock, content, mtime, disk>>
    BY <1>4 DEF AddHash, RefreshCompare, AddStat, RefreshStat, Remove, CacheInfo, WriteEntry, tree
  <2>2. core'.time = core.time
    <3>1. core' = core \/ \E f, e : core' = [core EXCEPT !.entry[f] = e]
      BY <1>4 DEF AddHash, RefreshCompare, AddStat, RefreshStat, Remove, CacheInfo, WriteEntry,
         SetEntry
    <3> QED BY <3>1, SMTT(30) DEF IndexTypeOK
  <2> QED BY <2>1, <2>2 DEF Times
<1>5. CASE UNCHANGED indexVars
  BY <1>5 DEF Times, indexVars
<1> QED BY <1>1, <1>2, <1>3, <1>4, <1>5 DEF IndexNext

-----------------------------------------------------------------------------
(* One lemma per kind of step for the rest of the invariant *)

\* Whether an entry looks clean depends on the file and the entry only.
LEMMA SameLook ==
  ASSUME NEW f, content'[f] = content[f], mtime'[f] = mtime[f]
  PROVE  /\ LooksClean(f, disk.entry[f])' <=> LooksClean(f, disk'.entry[f])
         /\ LooksClean(f, core.entry[f])' <=> LooksClean(f, core'.entry[f])
BY DEF LooksClean, MatchStatBasic, MatchStatData, Smudged, Stat

\* What is known of the index on disk, when neither it nor the file changes
LEMMA DiskKept ==
  ASSUME Cached, NEW f \in Paths, content'[f] = content[f], mtime'[f] = mtime[f], UNCHANGED disk
  PROVE  Sound(disk.time, f, disk.entry[f])'
<1>1. Sound(disk.time, f, disk.entry[f])
  BY DEF Cached
<1>2. LooksClean(f, disk.entry[f])' <=> LooksClean(f, disk.entry[f])
  BY SameLook
<1> QED BY <1>1, <1>2 DEF Sound, IsRacy

\* A step that touches neither the files nor the entries
LEMMA CachedKept ==
  ASSUME Cached, UNCHANGED <<content, mtime, disk, core, cmd, upToDate, written>>
  PROVE  Cached'
<1> SUFFICES ASSUME NEW f \in Paths
             PROVE  /\ Sound(disk.time, f, disk.entry[f])'
                    /\ (~Verified(f) => Sound(core.time, f, core.entry[f]))'
                    /\ (Verified(f) /\ LooksClean(f, core.entry[f]) => content[f] = core.entry[f].oid)'
  BY DEF Cached
<1>1. /\ ~Verified(f) => Sound(core.time, f, core.entry[f])
      /\ Verified(f) /\ LooksClean(f, core.entry[f]) => content[f] = core.entry[f].oid
  BY DEF Cached
<1>2. LooksClean(f, core.entry[f])' <=> LooksClean(f, core.entry[f])
  BY SameLook
<1>3. Verified(f)' <=> Verified(f)
  BY DEF Verified
<1>4. Sound(disk.time, f, disk.entry[f])'
  BY DiskKept
<1> QED BY <1>1, <1>2, <1>3, <1>4 DEF Sound, IsRacy

\* The rest of the invariant says nothing about a step that changes nothing but
\* the clock, or nothing at all.
LEMMA TickStep ==
  ASSUME IndexConstants, IndexInv, Tick \/ UNCHANGED indexVars
  PROVE  Phases' /\ Cached'
<1>1. UNCHANGED <<content, mtime, disk, core, cmd, upToDate, written, st>>
  BY DEF Tick, indexVars
<1>2. Phases'
  BY <1>1 DEF IndexInv, Phases
<1> QED BY <1>1, <1>2, CachedKept DEF IndexInv

\* An edit gives the file the present time: an entry that matches it then is as
\* young as the index, and one the command has verified does not match.
LEMMA EditStep ==
  ASSUME IndexConstants, IndexInv, NEW f \in Paths, Edit(f)
  PROVE  Phases' /\ Cached'
<1>1. Phases'
  BY DEF IndexInv, Edit, Phases
<1>2. ASSUME NEW g \in Paths \ {f}
      PROVE  content'[g] = content[g] /\ mtime'[g] = mtime[g]
  BY DEF IndexInv, IndexTypeOK, Edit
<1>3. mtime'[f] = clock /\ clock >= 1
  BY SMTT(30) DEF IndexInv, IndexTypeOK, Edit
<1>4. UNCHANGED <<disk, core, cmd, upToDate, written>>
  BY DEF Edit
<1>5. ASSUME NEW g \in Paths
      PROVE  /\ Sound(disk.time, g, disk.entry[g])'
             /\ (~Verified(g) => Sound(core.time, g, core.entry[g]))'
             /\ (Verified(g) /\ LooksClean(g, core.entry[g]) => content[g] = core.entry[g].oid)'
  <2>1. CASE g # f
    <3>1. Verified(g)' <=> Verified(g)
      BY <1>4 DEF Verified
    <3>2. LooksClean(g, core.entry[g])' <=> LooksClean(g, core.entry[g])
      BY <1>2, <1>4, <2>1 DEF LooksClean, MatchStatBasic, MatchStatData, Smudged, Stat
    <3>3. LooksClean(g, disk.entry[g])' <=> LooksClean(g, disk.entry[g])
      BY <1>2, <1>4, <2>1 DEF LooksClean, MatchStatBasic, MatchStatData, Smudged, Stat
    <3>4. content'[g] = content[g]
      BY <1>2, <2>1
    <3> QED BY <1>4, <3>1, <3>2, <3>3, <3>4 DEF IndexInv, Cached, Sound, IsRacy
  <2>2. CASE g = f
    <3>1. LooksClean(f, disk.entry[f])' => IsRacy(disk.time, disk.entry[f])
      BY <1>3, <1>4 DEF IndexInv, IndexTypeOK, Times, Phases, LooksClean, MatchStatBasic,
         MatchStatData, Stat, IsRacy
    <3>2. ~Verified(f) /\ LooksClean(f, core.entry[f])' => IsRacy(core.time, core.entry[f])
      BY <1>3, <1>4, SMTT(30) DEF IndexInv, IndexTypeOK, Times, Phases, LooksClean, MatchStatBasic,
         MatchStatData, Stat, IsRacy, Verified
    <3>3. Verified(f) => ~LooksClean(f, core.entry[f])'
      BY <1>3, <1>4 DEF Edit, JustVerified, LooksClean, MatchStatBasic,
         MatchStatData, Stat, Verified
    <3> QED BY <2>2, <3>1, <3>2, <3>3, <1>4 DEF Sound, Verified, IsRacy
  <2> QED BY <2>1, <2>2
<1> QED BY <1>1, <1>5 DEF Cached

\* Reading the index, or leaving it: what the command holds is what is on disk.
LEMMA ReadStep ==
  ASSUME IndexConstants, IndexInv, ReadIndex \/ WriteIndex \/ CommitIndex \/ Rollback
  PROVE  Phases' /\ Cached'
<1>1. CASE ReadIndex
  <2>1. /\ cmd' = "open" /\ upToDate = {} /\ written = {} /\ core = disk
        /\ UNCHANGED <<clock, content, mtime, disk, core, upToDate, written, st>>
    BY <1>1 DEF ReadIndex, IndexInv, Phases, tree
  <2>2. Phases'
    BY <2>1 DEF IndexInv, Phases
  <2>3. ASSUME NEW f, NEW e, NEW t PROVE Sound(t, f, e)' <=> Sound(t, f, e)
    BY <2>1 DEF Sound, LooksClean, MatchStatBasic, MatchStatData, Smudged, Stat, IsRacy, SameData
  <2>4. Cached'
    BY <2>1, <2>3 DEF IndexInv, Cached, Verified
  <2> QED BY <2>2, <2>4
<1>2. CASE WriteIndex
  <2>1. /\ cmd = "open" /\ cmd' = "write" /\ st = NoStat
        /\ UNCHANGED <<content, mtime, disk, core, upToDate, written, st>>
    BY <1>2 DEF WriteIndex, AtRest, tree
  <2>2. Phases'
    BY <2>1 DEF IndexInv, Phases
  <2>3. ASSUME NEW f, NEW e, NEW t PROVE Sound(t, f, e)' <=> Sound(t, f, e)
    BY <2>1 DEF Sound, LooksClean, MatchStatBasic, MatchStatData, Smudged, Stat, IsRacy
  <2>4. ASSUME NEW f, NEW e PROVE LooksClean(f, e)' <=> LooksClean(f, e)
    BY <2>1 DEF LooksClean, MatchStatBasic, MatchStatData, Smudged, Stat
  <2>5. Cached'
    BY <2>1, <2>3, <2>4 DEF IndexInv, Cached, Verified
  <2> QED BY <2>2, <2>5
<1>3. CASE CommitIndex
  BY <1>3 DEF CommitIndex, End, IndexInv, Phases, Cached, Sound, Verified, LooksClean,
     MatchStatBasic, MatchStatData, Smudged, Stat, IsRacy, tree
<1>4. CASE Rollback
  <2>1. /\ cmd' = "idle" /\ core' = disk /\ disk' = disk /\ upToDate' = {} /\ written' = {}
        /\ st' = NoStat /\ UNCHANGED <<content, mtime>>
    BY <1>4 DEF Rollback, End, tree
  <2>2. Phases'
    BY <2>1 DEF IndexInv, Phases
  <2>3. ASSUME NEW f, NEW e, NEW t PROVE Sound(t, f, e)' <=> Sound(t, f, e)
    BY <2>1 DEF Sound, LooksClean, MatchStatBasic, MatchStatData, Smudged, Stat, IsRacy
  <2>4. Cached'
    BY <2>1, <2>3 DEF IndexInv, Cached, Verified
  <2> QED BY <2>2, <2>4
<1> QED BY <1>1, <1>2, <1>3, <1>4

\* A step that works on one path of the index in core keeps what is known of the
\* others.
LEMMA OnePath ==
  ASSUME IndexConstants, IndexInv, NEW f \in Paths,
         UNCHANGED <<disk, cmd>>, core'.time = core.time,
         \A g \in Paths \ {f} :
           /\ core'.entry[g] = core.entry[g]
           /\ content'[g] = content[g] /\ mtime'[g] = mtime[g]
           /\ g \in (upToDate \cup written)' <=> g \in upToDate \cup written,
         Sound(disk.time, f, disk.entry[f])',
         (~Verified(f) => Sound(core.time, f, core.entry[f]))',
         (Verified(f) /\ LooksClean(f, core.entry[f]) => content[f] = core.entry[f].oid)'
  PROVE  Cached'
<1>1. ASSUME NEW g \in Paths \ {f}
      PROVE  /\ Sound(disk.time, g, disk.entry[g])'
             /\ (~Verified(g) => Sound(core.time, g, core.entry[g]))'
             /\ (Verified(g) /\ LooksClean(g, core.entry[g]) => content[g] = core.entry[g].oid)'
  <2>1. Verified(g)' <=> Verified(g)
    BY DEF Verified
  <2>2. LooksClean(g, core.entry[g])' <=> LooksClean(g, core.entry[g])
    BY DEF LooksClean, MatchStatBasic, MatchStatData, Smudged, Stat
  <2>3. LooksClean(g, disk.entry[g])' <=> LooksClean(g, disk.entry[g])
    BY DEF LooksClean, MatchStatBasic, MatchStatData, Smudged, Stat
  <2> QED BY <2>1, <2>2, <2>3 DEF IndexInv, Cached, Sound, IsRacy
<1> QED BY <1>1 DEF Cached

\* add_to_index(): an entry that is believed is sound and too old to be racy; one
\* that is hashed has the content the file has at that moment.
LEMMA AddStep ==
  ASSUME IndexConstants, IndexInv, AddHash \/ \E f \in Paths : AddStat(f)
  PROVE  Phases' /\ Cached'
<1>1. ASSUME NEW f \in Paths, AddStat(f)
      PROVE  Phases' /\ Cached'
  <2>1. Phases'
    <3>1. /\ cmd = "open" /\ UNCHANGED <<disk, cmd, core, written>>
          /\ upToDate \subseteq upToDate'
          /\ st' = st \/ st' = [op |-> "add", path |-> f, data |-> Stat(f)]
      BY <1>1 DEF AddStat, AtRest
    <3>2. st' = st \/ st'.op # "refresh"
      BY <3>1, SMTT(30)
    <3> QED BY <3>1, <3>2 DEF IndexInv, Phases
  <2>2. UNCHANGED <<clock, content, mtime, disk, cmd, core, written>>
    BY <1>1 DEF AddStat, tree
  <2>3. \/ UNCHANGED upToDate
        \/ /\ upToDate' = upToDate \cup {f}
           /\ ~IsRacy(core.time, core.entry[f])
    BY <1>1 DEF AddStat
  <2>4. Sound(disk.time, f, disk.entry[f])'
    BY <2>2, DiskKept DEF IndexInv
  <2>5. LooksClean(f, core.entry[f])' <=> LooksClean(f, core.entry[f])
    BY <2>2 DEF LooksClean, MatchStatBasic, MatchStatData, Smudged, Stat
  <2>6. (~Verified(f) => Sound(core.time, f, core.entry[f]))'
    BY <2>2, <2>3, <2>5 DEF IndexInv, Cached, Sound, Verified, IsRacy
  <2>7. (Verified(f) /\ LooksClean(f, core.entry[f]) => content[f] = core.entry[f].oid)'
    BY <2>2, <2>3, <2>5 DEF IndexInv, Cached, Sound, Verified, IsRacy
  <2> QED BY <2>1, <2>2, <2>3, <2>4, <2>6, <2>7, OnePath
<1>2. CASE AddHash
  <2>0. PICK f \in Paths : f = st.path
    BY <1>2 DEF AddHash, IndexInv, IndexTypeOK
  <2> DEFINE c == Read(f, st.data)
             e == [oid |-> c, mtime |-> st.data.mtime, size |-> st.data.size]
  <2>1. f \in Paths /\ st.data \in StatData /\ cmd = "open" /\ written = {}
    BY <1>2 DEF AddHash, IndexInv, IndexTypeOK, Phases
  <2>2. CASE c = Absent
    <3>1. UNCHANGED <<content, mtime, disk, core, cmd, upToDate, written>> /\ st' = NoStat
      BY <1>2, <2>0, <2>2 DEF AddHash, tree
    <3>2. Phases'
      BY <3>1 DEF IndexInv, Phases
    <3> QED BY <3>1, <3>2, CachedKept DEF IndexInv
  <2>3. CASE c # Absent
    <3>1. SetEntry(f, e) /\ upToDate' = upToDate \cup {f}
      BY <1>2, <2>0, <2>3 DEF AddHash
    <3>2. e \in EntryOrNone
      BY <2>1, <2>3, ReadIs DEF IndexInv, EntryOrNone, Entries, StatData
    <3>3. /\ core'.time = core.time /\ core'.entry[f] = e
          /\ \A g \in Paths \ {f} : core'.entry[g] = core.entry[g]
      BY <2>1, <3>1, <3>2, SetEntryIs DEF IndexInv
    <3>4. UNCHANGED <<clock, content, mtime, disk, cmd, written>> /\ st' = NoStat
      BY <1>2 DEF AddHash, tree
    <3>5. Phases'
      BY <2>1, <3>1, <3>3, <3>4 DEF IndexInv, Phases
    <3>6. Sound(disk.time, f, disk.entry[f])'
      BY <2>1, <3>4, DiskKept DEF IndexInv
    <3>7. Verified(f)'
      BY <2>1, <3>1, <3>4 DEF Verified
    <3>8. LooksClean(f, core.entry[f])' => content'[f] = core'.entry[f].oid
      BY <2>1, <3>3, <3>4, ReadIs, SMTT(30) DEF IndexInv, LooksClean, MatchStatBasic, MatchStatData, Stat
    <3> QED BY <2>1, <3>1, <3>3, <3>4, <3>5, <3>6, <3>7, <3>8, OnePath
  <2> QED BY <2>2, <2>3
<1> QED BY <1>1, <1>2

\* refresh_index(): an entry is believed or brought up to date only if the file
\* has the content it records, or has not changed since the entry was too old to
\* be racy.
LEMMA RefreshStep ==
  ASSUME IndexConstants, IndexInv, RefreshCompare \/ \E f \in Paths : RefreshStat(f)
  PROVE  Phases' /\ Cached'
<1>1. CASE \E f \in Paths : RefreshStat(f)
  <2>1. PICK f \in Paths : RefreshStat(f)
    BY <1>1
  <2>2. /\ UNCHANGED <<content, mtime, disk, core, cmd, upToDate, written>>
        /\ AtRest /\ core.entry[f] # NoEntry
        /\ st' = [op |-> "refresh", path |-> f, data |-> Stat(f)]
    BY <2>1 DEF RefreshStat, tree
  <2>3. Phases'
    BY <2>2 DEF AtRest, IndexInv, Phases
  <2> QED BY <2>2, <2>3, CachedKept DEF IndexInv
<1>2. CASE RefreshCompare
  <2>1. PICK f \in Paths : f = st.path
    BY <1>2 DEF RefreshCompare, IndexInv, IndexTypeOK
  <2> DEFINE e == core.entry[f]
             u == [e EXCEPT !.mtime = st.data.mtime, !.size = st.data.size]
  <2>2. cmd = "open" /\ written = {} /\ e \in Entries /\ e # NoEntry /\ st.data \in StatData
    BY <1>2, <2>1, EntryTypes DEF RefreshCompare, IndexInv, IndexTypeOK, Phases
  <2>3. UNCHANGED <<clock, content, mtime, disk, cmd, written>> /\ st' = NoStat
    BY <1>2 DEF RefreshCompare, tree
  <2>4. Sound(disk.time, f, disk.entry[f])'
    BY <2>1, <2>3, DiskKept DEF IndexInv
  <2>5. CASE MatchStat(core.time, f, e, st.data) /\ upToDate' = upToDate \cup {f} /\ UNCHANGED core
    <3>1. LooksClean(f, e) => content[f] = e.oid
      <4> SUFFICES ASSUME LooksClean(f, e), IsRacy(core.time, e)
                   PROVE  content[f] = e.oid
        BY <2>2 DEF IndexInv, Cached, Sound
      <4>1. Read(f, st.data) = e.oid /\ e.size = st.data.size
        BY <2>5 DEF MatchStat, MatchStatBasic, MatchStatData, SameData
      <4>2. content[f] # Absent /\ Size[content[f]] = e.size
        BY DEF LooksClean, MatchStatBasic, MatchStatData, Stat
      <4> QED BY <2>2, <4>1, <4>2, ReadIs DEF IndexInv
    <3>2. LooksClean(f, core.entry[f])' => LooksClean(f, e)
      BY <2>3, <2>5 DEF LooksClean, MatchStatBasic, MatchStatData, Smudged, Stat
    <3>3. Phases'
      BY <2>2, <2>3, <2>5 DEF IndexInv, Phases
    <3>4. Verified(f)'
      BY <2>2, <2>3, <2>5 DEF Verified
    <3> QED BY <2>3, <2>4, <2>5, <3>1, <3>2, <3>3, <3>4, OnePath
  <2>6. CASE /\ ~MatchStat(core.time, f, e, st.data) /\ ~Modified(core.time, f, e, st.data)
             /\ SetEntry(f, u) /\ upToDate' = upToDate \cup {f}
    <3>1. Read(f, st.data) = e.oid
      BY <2>6 DEF Modified, SameData
    <3>2. u \in EntryOrNone /\ u.oid = e.oid
      BY <1>2, <2>2 DEF RefreshCompare, IndexInv, IndexTypeOK, EntryOrNone, Entries, StatData
    <3>3. /\ core'.time = core.time /\ core'.entry[f] = u
          /\ \A g \in Paths \ {f} : core'.entry[g] = core.entry[g]
      BY <2>6, <3>2, SetEntryIs DEF IndexInv
    <3>4. Phases'
      BY <2>2, <2>3, <2>6, <3>3 DEF IndexInv, Phases
    <3>5. Verified(f)'
      BY <2>2, <2>3, <2>6 DEF Verified
    <3>6. u.size = st.data.size
      BY <2>2 DEF Entries
    <3>7. LooksClean(f, core.entry[f])' => content'[f] = core'.entry[f].oid
      BY SMTT(30), <2>2, <2>3, <3>1, <3>2, <3>3, <3>6, ReadIs
         DEF IndexInv, LooksClean, MatchStatBasic, MatchStatData, Stat
    <3> QED BY <2>3, <2>4, <2>6, <3>3, <3>4, <3>5, <3>7, OnePath
  <2>7. CASE UNCHANGED <<core, upToDate>>
    <3>1. Phases'
      BY <2>2, <2>3, <2>7 DEF IndexInv, Phases
    <3> QED BY <2>3, <2>7, <3>1, CachedKept DEF IndexInv
  <2> QED BY <1>2, <2>1, <2>5, <2>6, <2>7 DEF RefreshCompare
<1> QED BY <1>1, <1>2

\* Entries that are dropped, made up from an object name, or checked out
LEMMA EntryStep ==
  ASSUME IndexConstants, IndexInv, NEW f \in Paths, Remove(f) \/ CacheInfo(f) \/ Checkout(f)
  PROVE  Phases' /\ Cached'
<1>1. cmd = "open" /\ st = NoStat /\ written = {}
  BY DEF Remove, CacheInfo, Checkout, AtRest, IndexInv, Phases
<1>2. UNCHANGED <<clock, disk, cmd, written, st>>
  BY DEF Remove, CacheInfo, Checkout, tree
<1>3. CASE Remove(f) \/ CacheInfo(f)
  <2>1. PICK e \in EntryOrNone :
          SetEntry(f, e) /\ (e # NoEntry => e.mtime = 0)
    <3>1. \A c \in Contents : [oid |-> c, mtime |-> 0, size |-> 0] \in EntryOrNone
      BY SMTT(30) DEF EntryOrNone, Entries, IndexConstants
    <3>2. \A c \in Contents : [oid |-> c, mtime |-> 0, size |-> 0].mtime = 0
      OBVIOUS
    <3>3. NoEntry \in EntryOrNone
      BY DEF EntryOrNone
    <3> QED BY <1>3, <3>1, <3>2, <3>3 DEF Remove, CacheInfo
  <2>2. /\ core'.time = core.time /\ core'.entry[f] = e
        /\ \A g \in Paths \ {f} : core'.entry[g] = core.entry[g]
    BY <2>1, SetEntryIs DEF IndexInv
  <2>3. upToDate' = upToDate \ {f} /\ UNCHANGED <<content, mtime>>
    BY <1>3 DEF Remove, CacheInfo, tree
  <2>4. ~LooksClean(f, core.entry[f])'
    BY <2>1, <2>2, <2>3, SMTT(30) DEF LooksClean, MatchStatBasic, MatchStatData, Stat, IndexInv, Times, IndexTypeOK
  <2>5. Phases'
    BY <1>1, <1>2, <2>1, <2>2, <2>3 DEF IndexInv, Phases
  <2>6. Sound(disk.time, f, disk.entry[f])'
    BY <1>2, <2>3, DiskKept DEF IndexInv
  <2>7. Sound(core.time, f, core.entry[f])'
    BY <2>4 DEF Sound
  <2> QED BY <1>1, <1>2, <2>2, <2>3, <2>4, <2>5, <2>6, <2>7, OnePath
<1>4. CASE Checkout(f)
  <2> DEFINE c == core.entry[f].oid
             e == [oid |-> c, mtime |-> clock, size |-> Size[c]]
  <2>1. c \in Contents
    BY <1>4, EntryTypes DEF Checkout, Entries, IndexInv
  <2>2. e \in EntryOrNone
    BY <2>1, SMTT(30) DEF IndexInv, IndexTypeOK, EntryOrNone, Entries, IndexConstants
  <2>3. /\ core'.time = core.time /\ core'.entry[f] = e
        /\ \A g \in Paths \ {f} : core'.entry[g] = core.entry[g]
    BY <1>4, <2>2, SetEntryIs, SMTT(30) DEF IndexInv, Checkout
  <2>4. /\ content'[f] = c /\ mtime'[f] = clock
        /\ \A g \in Paths \ {f} : content'[g] = content[g] /\ mtime'[g] = mtime[g]
        /\ upToDate' = upToDate \cup {f}
    BY <1>4 DEF Checkout, IndexInv, IndexTypeOK
  <2>5. Phases'
    BY <1>1, <1>2, <2>3, <2>4, SMTT(30) DEF IndexInv, Phases
  <2>6. Sound(disk.time, f, disk.entry[f])'
    <3>1. LooksClean(f, disk.entry[f])' => IsRacy(disk.time, disk.entry[f])'
      BY <1>2, <2>4 DEF IndexInv, IndexTypeOK, Times, Phases, LooksClean, MatchStatBasic,
         MatchStatData, Stat, IsRacy
    <3> QED BY <3>1 DEF Sound
  <2>7. Verified(f)' /\ content'[f] = core'.entry[f].oid
    BY <1>1, <1>2, <2>3, <2>4, SMTT(30) DEF Verified
  <2> QED BY <1>1, <1>2, <2>3, <2>4, <2>5, <2>6, <2>7, OnePath
<1> QED BY <1>3, <1>4

\* A racy entry that is written looks clean only if it is: either its content
\* was compared, or it was smudged and matches nothing but an empty file.
LEMMA WriteEntryStep ==
  ASSUME IndexConstants, IndexInv, NEW f \in Paths, WriteEntry(f)
  PROVE  Phases' /\ Cached'
<1> DEFINE e == core.entry[f]
           w == IF f \notin upToDate /\ IsRacy(core.time, e) THEN Smudge(f, e) ELSE e
<1>1. cmd = "write" /\ st = NoStat /\ f \notin written /\ e # NoEntry /\ e \in Entries
  BY EntryTypes DEF WriteEntry, IndexInv, Phases
<1>2. UNCHANGED <<clock, content, mtime, disk, cmd, upToDate, st>> /\ written' = written \cup {f}
  BY DEF WriteEntry, tree
<1>3. w \in Entries /\ w.oid = e.oid /\ w.mtime = e.mtime
  BY <1>1 DEF Smudge, Entries
<1>4. /\ core'.time = core.time /\ core'.entry[f] = w
      /\ \A g \in Paths \ {f} : core'.entry[g] = core.entry[g]
  BY <1>3, SetEntryIs DEF WriteEntry, IndexInv, EntryOrNone
<1>5. LooksClean(f, w) => content[f] = w.oid
  <2>1. CASE f \in upToDate
    BY <1>1, <2>1 DEF IndexInv, Cached, Verified
  <2>2. CASE f \notin upToDate /\ ~IsRacy(core.time, e)
    BY <1>1, <2>2 DEF IndexInv, Cached, Verified, Sound
  <2>3. CASE f \notin upToDate /\ IsRacy(core.time, e)
    <3>1. CASE content[f] # Absent /\ MatchStatBasic(e, Stat(f)) /\ ~SameData(f, e, Stat(f))
      <4>1. w.size = 0
        BY <1>1, <2>3, <3>1 DEF Smudge, Entries
      <4>2. LooksClean(f, w) => Size[content[f]] = 0 /\ w.oid = Empty
        BY <4>1 DEF LooksClean, MatchStatBasic, MatchStatData, Smudged, Stat
      <4>3. content[f] \in Contents
        BY <3>1 DEF IndexInv, IndexTypeOK
      <4> QED BY <4>2, <4>3 DEF IndexConstants
    <3>2. CASE ~(content[f] # Absent /\ MatchStatBasic(e, Stat(f)) /\ ~SameData(f, e, Stat(f)))
      <4>1. w = e
        BY <3>2 DEF Smudge
      <4>2. content[f] # Absent => Read(f, Stat(f)) = content[f]
        BY EntryTypes, ReadIs DEF IndexInv, Stat
      <4> QED BY <3>2, <4>1, <4>2 DEF LooksClean, SameData
    <3> QED BY <3>1, <3>2
  <2> QED BY <2>1, <2>2, <2>3
<1>6. Phases'
  BY <1>1, <1>2, <1>3, <1>4 DEF IndexInv, Phases
<1>7. Sound(disk.time, f, disk.entry[f])'
  BY <1>2, DiskKept DEF IndexInv
<1>8. LooksClean(f, core.entry[f])' => LooksClean(f, w)
  BY <1>2, <1>4 DEF LooksClean, MatchStatBasic, MatchStatData, Smudged, Stat
<1>9. Verified(f)'
  BY <1>1, <1>2 DEF Verified
<1> QED BY <1>2, <1>4, <1>5, <1>6, <1>7, <1>8, <1>9, OnePath

\* When index.lock is closed every entry has been verified.
LEMMA CloseStep ==
  ASSUME IndexConstants, IndexInv, CloseIndex
  PROVE  Phases' /\ Cached'
<1>1. /\ UNCHANGED <<clock, content, mtime, disk, upToDate, written, st>>
      /\ cmd = "write" /\ cmd' = "closed"
      /\ core'.entry = core.entry /\ core'.time = clock
  BY DEF CloseIndex, tree, IndexInv, IndexTypeOK
<1>2. Phases'
  BY <1>1, SMTT(30) DEF IndexInv, IndexTypeOK, Phases
<1>3. ASSUME NEW f \in Paths
      PROVE  Sound(core.time, f, core.entry[f])' /\ Sound(disk.time, f, disk.entry[f])'
  BY <1>1, SMTT(30) DEF CloseIndex, IndexInv, Cached, Verified, Sound, LooksClean, MatchStatBasic,
     MatchStatData, Smudged, Stat, IsRacy
<1>4. \A f \in Paths : ~Verified(f)'
  BY <1>1 DEF Verified
<1> QED BY <1>2, <1>3, <1>4 DEF Cached

-----------------------------------------------------------------------------
(* Theorems *)

\* The invariant that carries the proof: a cached entry is right, or as young as
\* the index it is in, or verified by the command that holds it.
THEOREM IndexInvHolds == IndexSpec => []IndexInv
<1>1. IndexInit => IndexInv
  BY InitInv, IndexAssumption
<1>2. IndexInv /\ [IndexNext]_indexVars => IndexInv'
  <2> SUFFICES ASSUME IndexInv, [IndexNext]_indexVars
               PROVE  IndexInv'
    OBVIOUS
  <2>1. IndexTypeOK' /\ Times'
    BY TypeStep, TimesStep, IndexAssumption DEF IndexInv
  <2>2. Phases' /\ Cached'
    BY TickStep, EditStep, ReadStep, AddStep, RefreshStep, EntryStep, WriteEntryStep,
       CloseStep, IndexAssumption, ZenonT(30) DEF IndexNext
  <2> QED BY <2>1, <2>2 DEF IndexInv
<1> QED BY <1>1, <1>2, PTL DEF IndexSpec

\* ie_match_stat() on the index on disk never reports a path unchanged whose
\* content is not the one the index records, for any number of files, contents
\* and ticks.
THEOREM CleanIsClean == IndexSpec => []NotFalselyClean
<1>1. IndexInv => NotFalselyClean
  <2> SUFFICES ASSUME IndexInv, NEW f \in Paths,
                      LooksClean(f, disk.entry[f]),
                      MatchStat(disk.time, f, disk.entry[f], Stat(f))
               PROVE  content[f] = disk.entry[f].oid
    BY DEF NotFalselyClean
  <2>1. Read(f, Stat(f)) = content[f]
    BY EntryTypes, ReadIs, IndexAssumption DEF IndexInv, LooksClean, Stat
  <2> QED BY <2>1 DEF IndexInv, Cached, Sound, MatchStat, SameData
<1> QED BY <1>1, IndexInvHolds, PTL

\* CE_UPTODATE never hides a change that the stat data do not show either.
THEOREM UpToDateSound == IndexSpec => []UpToDateIsTrue
<1>1. IndexInv => UpToDateIsTrue
  BY DEF IndexInv, IndexTypeOK, Cached, Verified, UpToDateIsTrue
<1> QED BY <1>1, IndexInvHolds, PTL

\* No edit is missed, neither by a command that reads the index nor by one that
\* has it in memory; edits in the tick in which the running command has verified
\* the file (JustVerified) are left out.
THEOREM EditsAreNoticed == IndexSpec => []NoEditMissed
  BY CleanIsClean, UpToDateSound, PTL DEF NoEditMissed

-----------------------------------------------------------------------------
(* lockfile.c, tempfile.c *)

USE SMTT(30)

\* What tempfile_list says of a process, and <path>.lock of its creator
Owned(p) ==
  /\ p \in list[p] => pc[p] \in {"held", "read", "written", "gone"}
  /\ pc[p] \in {"held", "read", "written"} => p \in list[p]
  /\ Critical(p) => lock.by = p
  /\ lock.by = p => Critical(p) \/ (pc[p] = "dead" /\ p \in killed)

\* What the holder of the lock may rely on
Content(p) ==
  /\ pc[p] \in {"read", "written"} => file = base[p]
  /\ pc[p] = "written" => lock.data # Partial

LockInv ==
  /\ TypeOK /\ NeverTorn
  /\ \A p \in Procs : Owned(p) /\ Content(p)

\* The initial states, in which nobody holds the lock.
LEMMA LockInvInit == Init => LockInv
  BY LockFileAssumption
  DEF Init, LockInv, TypeOK, NeverTorn, Owned, Content, Critical, Unlocked

\* Creating the lock file and putting it on tempfile_list.
LEMMA Acquiring ==
  ASSUME LockInv, NEW p \in Procs, Create(p) \/ Activate(p) \/ SetOwner(p)
  PROVE  LockInv'
  BY LockFileAssumption
  DEF LockInv, TypeOK, NeverTorn, Owned, Content, Critical, Goto, Create, Activate,
      SetOwner

\* Reading <path> and writing the lock file.
LEMMA Working ==
  ASSUME LockInv, NEW p \in Procs, ReadFile(p) \/ WriteLock(p)
  PROVE  LockInv'
  BY LockFileAssumption
  DEF LockInv, TypeOK, NeverTorn, Owned, Content, Critical, Goto, ReadFile, WriteLock

\* Renaming or unlinking the lock file, and forgetting it.
LEMMA Releasing ==
  ASSUME LockInv, NEW p \in Procs, RenameLock(p) \/ DeleteLock(p) \/ Deactivate(p)
  PROVE  LockInv'
  BY LockFileAssumption
  DEF LockInv, TypeOK, NeverTorn, Owned, Content, Critical, Goto, RenameLock,
      DeleteLock, Deactivate, Unlocked

\* The end of a process: remove_tempfiles() removes its own lock and no other.
LEMMA Ending ==
  ASSUME LockInv, NEW p \in Procs,
         Exit(p) \/ SignalOutside(p) \/ Kill(p) \/ RemoveManually(p)
  PROVE  LockInv'
  BY LockFileAssumption
  DEF LockInv, TypeOK, NeverTorn, Owned, Content, Critical, Goto, Exit, SignalOutside,
      Signal, InWindow, Kill, RemoveManually, RemoveTempfiles, Unlocked

\* A new process owns nothing, even if it inherits the list of its parent.
LEMMA Starting ==
  ASSUME LockInv, NEW p \in Procs, Start(p) \/ \E c \in Procs : Fork(p, c)
  PROVE  LockInv'
  BY LockFileAssumption
  DEF LockInv, TypeOK, NeverTorn, Owned, Content, Critical, Goto, Start, Fork

\* Every step of every process preserves the invariant.
LEMMA LockInvKept == LockInv /\ [NextOutside]_vars => LockInv'
<1> SUFFICES ASSUME LockInv, [NextOutside]_vars PROVE LockInv'
  OBVIOUS
<1>1. CASE UNCHANGED vars
  BY <1>1 DEF vars, LockInv, TypeOK, NeverTorn, Owned, Content, Critical
<1>2. ASSUME NEW p \in Procs, CallerStep(p) PROVE LockInv'
  BY <1>2, Acquiring, Working, Releasing DEF CallerStep
<1>3. ASSUME NEW p \in Procs, LifeStep(p) \/ SignalOutside(p) PROVE LockInv'
  BY <1>3, Ending, Starting DEF LifeStep
<1> QED
  BY <1>1, <1>2, <1>3 DEF NextOutside

\* The inductive invariant holds in every behaviour of the lock files.
THEOREM LockInvHolds == SpecOutside => []LockInv
  BY LockInvInit, LockInvKept, PTL DEF SpecOutside

\* At most one process is between creating <path>.lock and removing it.
THEOREM Exclusion == SpecOutside => []MutualExclusion
<1>1. LockInv => MutualExclusion
  BY DEF LockInv, Owned, MutualExclusion
<1> QED
  BY <1>1, LockInvHolds, PTL

\* What the holder has read under the lock is current until it commits.
THEOREM UpdatesSurvive == SpecOutside => []NoLostUpdate
<1>1. LockInv => NoLostUpdate
  BY DEF LockInv, Content, NoLostUpdate
<1> QED
  BY <1>1, LockInvHolds, PTL

\* rename() never publishes a lock file that is not completely written.
THEOREM ReadersSeeWholeFiles == SpecOutside => []NeverTorn
<1>1. LockInv => NeverTorn
  BY DEF LockInv
<1> QED
  BY <1>1, LockInvHolds, PTL

\* Updates of the file are atomic: none is lost, and none is seen half-way.
THEOREM UpdatesAreAtomic == SpecOutside => []AtomicUpdates
  BY UpdatesSurvive, ReadersSeeWholeFiles, PTL DEF AtomicUpdates

\* A process that ends in any way but SIGKILL leaves no lock file.
THEOREM LocksAreCleanedUp == SpecOutside => []CruftRemoved
<1>1. LockInv => CruftRemoved
  BY DEF LockInv, Owned, Critical, CruftRemoved
<1> QED
  BY <1>1, LockInvHolds, PTL
=============================================================================
