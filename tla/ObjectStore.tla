----------------------------- MODULE ObjectStore -----------------------------
(***************************************************************************)
(* Objects are written without a lock and become reachable later, when a   *)
(* ref is updated; `git prune' removes unreachable loose objects meanwhile *)
(* (builtin/prune.c, reachable.c, object-file.c).  What protects an object *)
(* that is not yet reachable is its age: writing one that exists freshens  *)
(* it, and prune spares what is younger than its expiry date, and all that *)
(* such an object refers to.  This "falls short of a complete solution"    *)
(* (git-gc.adoc): an object that a command refers to without writing it,   *)
(* or freshens between prune's lstat() and unlink(), may be lost.          *)
(*                                                                         *)
(* A file is "old" or "fresh" with respect to the expiry date; Age stands  *)
(* for the weeks in which nothing else happens.                            *)
(***************************************************************************)
EXTENDS Naturals, FiniteSets

CONSTANTS
  Objects,
  Links,      \* the objects each object refers to
  Refs,
  Writers,    \* commands that write objects and update a ref
  None        \* in place of an object: a ref that does not exist

VARIABLES
  loose,      \* the loose object files: "none", "old" or "fresh"
  packed, packTime,   \* the objects in the packs, and their mtime
  ref,
  target, wrote,      \* each writer's object to be, and what it has written of it
  prune,      \* what prune does: idle, roots, recent, packs, walk, sweep
  seen,       \* objects that are SEEN, or pending to be
  unvisited,  \* loose files the sweep has yet to look at
  doomed,     \* the loose file that it has found to be expired, or None
  \* history variables:
  spared,     \* what was recent when prune started, and what that referred to
  sound,      \* refs that prune must leave whole
  raced       \* objects that were freshened when they were doomed already

sweep == <<prune, seen, unvisited, doomed>>
store == <<loose, packed, packTime>>
vars == <<store, ref, target, wrote, sweep, spared, sound, raced>>

\* What the objects of S refer to, directly or not, and S itself
RECURSIVE Closure(_)
Closure(S) ==
  LET T == S \cup UNION {Links[o] : o \in S}
  IN  IF T = S THEN S ELSE Closure(T)

Exists(o) == loose[o] # "none" \/ o \in packed

Existing(S) == {o \in S : Exists(o)}

\* What traverse_commit_list() finds from S: a missing object leads no further.
RECURSIVE Traverse(_)
Traverse(S) ==
  LET T == S \cup {x \in UNION {Links[o] : o \in S} : Exists(x)}
  IN  IF T = S THEN S ELSE Traverse(T)

Complete(o) == \A x \in Closure({o}) : Exists(x)

Init ==
  /\ loose \in [Objects -> {"none", "old"}]
  /\ packed \in SUBSET Objects /\ packTime = "old"
  /\ ref = [r \in Refs |-> None]
  /\ target = [w \in Writers |-> None] /\ wrote = [w \in Writers |-> {}]
  /\ prune = "idle" /\ seen = {} /\ unvisited = {} /\ doomed = None
  /\ spared = {} /\ sound = {} /\ raced = {}

-----------------------------------------------------------------------------
(* Writers *)

Begin(w) ==
  /\ target[w] = None
  /\ \E o \in Objects : target' = [target EXCEPT ![w] = o]
  /\ UNCHANGED <<store, ref, wrote, sweep, spared, sound, raced>>

\* write_object_file(): freshen the pack, or the loose file, or write one.  What the
\* object refers to and the command has not written itself (the tree given to
\* commit-tree, say) exists at this moment; it is not freshened, and need not be
\* complete.
WriteObject(w, o) ==
  /\ target[w] # None /\ o \in Closure({target[w]}) \ wrote[w]
  /\ \A x \in Links[o] : x \in wrote[w] \/ Exists(x)
  /\ IF o \in packed
     THEN packTime' = "fresh" /\ UNCHANGED loose
     ELSE loose' = [loose EXCEPT ![o] = "fresh"] /\ UNCHANGED packTime
  /\ wrote' = [wrote EXCEPT ![w] = @ \cup {o}]
  /\ raced' = IF o = doomed /\ o \notin packed THEN raced \cup {o} ELSE raced \ {o}
  /\ UNCHANGED <<packed, ref, target, sweep, spared, sound>>

Quit(w) ==
  /\ target' = [target EXCEPT ![w] = None]
  /\ wrote' = [wrote EXCEPT ![w] = {}]
  /\ raced' = raced \cap UNION {wrote[v] : v \in Writers \ {w}}

\* The ref transaction, which refuses an object that does not exist.  If the command
\* has written all that the object leads to, its age protects the ref.
UpdateRef(w, r) ==
  /\ target[w] # None /\ target[w] \in wrote[w] /\ Exists(target[w])
  /\ ref' = [ref EXCEPT ![r] = target[w]]
  /\ sound' = IF Closure({target[w]}) \subseteq wrote[w] \ raced
              THEN sound \cup {r} ELSE sound \ {r}
  /\ Quit(w)
  /\ UNCHANGED <<store, sweep, spared>>

\* The command fails, or is killed.
Die(w) ==
  /\ target[w] # None
  /\ Quit(w)
  /\ UNCHANGED <<store, ref, sweep, spared, sound>>

DeleteRef(r) ==
  /\ ref[r] # None
  /\ ref' = [ref EXCEPT ![r] = None]
  /\ sound' = sound \ {r}
  /\ UNCHANGED <<store, target, wrote, sweep, spared, raced>>

-----------------------------------------------------------------------------
(* git prune --expire=<date> *)

\* add_recent_loose(), add_recent_packed()
RecentLoose == {o \in Objects : loose[o] = "fresh"}
RecentPacked == IF packTime = "fresh" THEN packed ELSE {}

\* What prune must keep is noted when it starts.
PruneStart ==
  /\ prune = "idle"
  /\ prune' = "roots"
  /\ spared' = Traverse(RecentLoose \cup RecentPacked)
  /\ sound' = {r \in Refs : ref[r] # None /\ Complete(ref[r])}
  /\ UNCHANGED <<store, ref, target, wrote, seen, unvisited, doomed, raced>>

\* mark_reachable_objects(): the refs, broken ones excepted, and what is reachable
\* from them.  A missing object that leads further ends the command: PruneDies.
MarkRoots ==
  /\ prune = "roots"
  /\ seen' = Traverse(Existing({ref[r] : r \in Refs} \ {None}))
  /\ \A o \in seen' : \A x \in Links[o] : Links[x] # {} => Exists(x)
  /\ prune' = "recent"
  /\ UNCHANGED <<store, ref, target, wrote, unvisited, doomed, spared, sound, raced>>

MarkRecentLoose ==
  /\ prune = "recent"
  /\ seen' = seen \cup RecentLoose
  /\ prune' = "packs"
  /\ UNCHANGED <<store, ref, target, wrote, unvisited, doomed, spared, sound, raced>>

MarkRecentPacked ==
  /\ prune = "packs"
  /\ seen' = seen \cup RecentPacked
  /\ prune' = "walk"
  /\ UNCHANGED <<store, ref, target, wrote, unvisited, doomed, spared, sound, raced>>

\* Mutant: the walk does not follow links.
WalkFlat ==
  /\ prune = "walk"
  /\ prune' = "sweep"
  /\ unvisited' = {o \in Objects : loose[o] # "none"}
  /\ UNCHANGED <<store, ref, target, wrote, seen, doomed, spared, sound, raced>>

\* The second traverse_commit_list(), with ignore_missing_links
Walk ==
  /\ prune = "walk"
  /\ seen' = Traverse(Existing(seen))
  /\ prune' = "sweep"
  /\ unvisited' = {o \in Objects : loose[o] # "none"}
  /\ UNCHANGED <<store, ref, target, wrote, doomed, spared, sound, raced>>

\* Mutant: the age of the file is not looked at.
ExpiredAlways(o) == TRUE

\* st.st_mtime <= expire
Expired(o) == loose[o] = "old"

\* prune_object(), as far as the lstat() of the file
PruneObject(o) ==
  /\ prune = "sweep" /\ o \in unvisited /\ doomed = None
  /\ unvisited' = unvisited \ {o}
  /\ doomed' = IF o \notin seen /\ Expired(o) THEN o ELSE None
  /\ UNCHANGED <<store, ref, target, wrote, prune, seen, spared, sound, raced>>

\* unlink_or_warn()
Unlink ==
  /\ doomed # None
  /\ doomed' = None
  /\ \/ loose' = [loose EXCEPT ![doomed] = "none"]
     \/ UNCHANGED loose
  /\ UNCHANGED <<packed, packTime, ref, target, wrote, prune, seen, unvisited,
                 spared, sound, raced>>

\* The end of prune
End == prune' = "idle" /\ seen' = {} /\ unvisited' = {} /\ doomed' = None

\* prune_packed_objects()
PrunePacked ==
  /\ prune = "sweep" /\ unvisited = {} /\ doomed = None
  /\ loose' = [o \in Objects |-> IF o \in packed THEN "none" ELSE loose[o]]
  /\ End
  /\ UNCHANGED <<packed, packTime, ref, target, wrote, spared, sound, raced>>

PruneDies ==
  /\ prune # "idle"
  /\ End
  /\ UNCHANGED <<store, ref, target, wrote, spared, sound, raced>>

\* More time passes than the expiry date allows for; no command runs that long.
Age ==
  /\ prune = "idle" /\ \A w \in Writers : target[w] = None
  /\ loose' = [o \in Objects |-> IF loose[o] = "fresh" THEN "old" ELSE loose[o]]
  /\ packTime' = "old"
  /\ UNCHANGED <<packed, ref, target, wrote, sweep, spared, sound, raced>>

Next ==
  \/ PruneStart \/ MarkRoots \/ MarkRecentLoose \/ MarkRecentPacked \/ Walk
  \/ Unlink \/ PrunePacked \/ PruneDies \/ Age
  \/ \E o \in Objects : PruneObject(o)
  \/ \E r \in Refs : DeleteRef(r)
  \/ \E w \in Writers : \/ Begin(w) \/ Die(w)
                        \/ \E o \in Objects : WriteObject(w, o)
                        \/ \E r \in Refs : UpdateRef(w, r)

Spec == Init /\ [][Next]_vars

-----------------------------------------------------------------------------
(* Properties *)

\* "Any object with modification time newer than the --prune date is kept, along
\* with everything reachable from it": all that was so when prune started exists
\* when it ends, whatever is written, freshened and referred to meanwhile.
RecentKept == \A o \in spared : Exists(o)

\* A ref that was whole when prune started, and has not been changed since, stays
\* whole; and so does one that is set at any moment of prune by a command that has
\* itself written all that the new object leads to, although prune has read the
\* refs before and the objects may have been there, unreachable and expired.
SoundRefsIntact == \A r \in sound : Complete(ref[r])

\* What a command has written, or found and freshened, is there until it ends.  The
\* exception is an object it freshens between prune's lstat() and unlink().
WrittenKept == \A w \in Writers : \A o \in wrote[w] \ raced : Exists(o)
=============================================================================
