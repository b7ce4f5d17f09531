------------------------------ MODULE FsMonitor ------------------------------
(***************************************************************************)
(* The file system monitor daemon (builtin/fsmonitor--daemon.c): a         *)
(* listener thread collects the paths that changed in batches, clients ask *)
(* for the paths that changed since the token they were given last time.   *)
(*                                                                         *)
(* The kernel reports events in order and some time later, so a request    *)
(* first creates a "cookie" file and waits until the listener has seen the *)
(* event of that file.  A critical section under main_lock is one step;    *)
(* waiting for the cookie releases the lock, and the list of batches is    *)
(* read without it, protected by a reference count.  Events the listener   *)
(* has got and not published yet are still in the queue here: they have no *)
(* effect before it takes the lock.                                        *)
(*                                                                         *)
(* A token that is sent to a client is the pair of a token id and of the   *)
(* sequence number of a batch.  Batch number n of a token is element n + 1 *)
(* of its list; the batches below its tail have been freed.                *)
(***************************************************************************)
EXTENDS Integers, Sequences, FiniteSets

CONSTANTS
  Clients,        \* one at a time is served by a worker thread
  Paths,
  Dropped,        \* the event that tells that events were lost
  MaxChanges, MaxRequests, MaxResyncs   \* bounds

ASSUME ConstantsAssumption ==
  /\ IsFiniteSet(Clients)
  /\ Dropped \notin Paths /\ (Paths \cup {Dropped}) \cap Nat = {}
  /\ MaxChanges \in Nat /\ MaxRequests \in Nat /\ MaxResyncs \in Nat

VARIABLES
  tokens,         \* every fsmonitor_token_data so far, in the order of creation
  live,           \* the ones that have not been freed
  current,        \* current_token_data; 0 is NULL
  cookie,         \* what the cookie of each client's request has come to
  name,           \* its name
  queue,          \* events not published yet: paths, cookie names, Dropped
  listening,      \* the listener thread has not ended
  stopping,       \* the IPC server takes no more requests
  pc, kind,       \* per client: where its request is, and what it asks for
  held,           \* the token the client sends
  reply,          \* the token it is sent back
  pos,            \* where the walk through the list is; 0 is NULL
  sent,           \* the paths it was sent so far
  requests, resyncs,
  log,            \* history: the paths that changed, in order
  start,          \* history: how many had changed when the request was made
  known           \* history: the changes the holder of the token has accounted for

data == <<tokens, live, current>>
request == <<pc, kind, held, reply, pos, sent>>
bounds == <<requests, resyncs>>
history == <<log, start, known>>
vars == <<data, cookie, name, queue, listening, stopping, request, bounds, history>>

\* Bound: a resync takes the place of a request.
Budget == MaxRequests - requests - resyncs

NoToken == [id |-> 0, seq |-> 0]
NewBatch(P) == [paths |-> P, pinned |-> FALSE]
NewToken == [list |-> <<NewBatch({})>>, tail |-> 1, refs |-> 0]

Init ==
  /\ tokens = <<NewToken>> /\ live = {1} /\ current = 1
  /\ cookie = [c \in Clients |-> "none"] /\ name = [c \in Clients |-> 0]
  /\ queue = <<>> /\ listening = TRUE /\ stopping = FALSE
  /\ pc = [c \in Clients |-> "idle"] /\ kind = [c \in Clients |-> "since"]
  /\ held = [c \in Clients |-> NoToken] /\ reply = [c \in Clients |-> NoToken]
  /\ pos = [c \in Clients |-> 0] /\ sent = [c \in Clients |-> {}]
  /\ requests = 0 /\ resyncs = 0
  /\ log = <<>> /\ start = [c \in Clients |-> 0] /\ known = [c \in Clients |-> {}]

------------------------------------------------------------------------------
(* The file system and the kernel. *)

Change(p) ==
  /\ Len(log) < MaxChanges
  /\ log' = Append(log, p) /\ queue' = Append(queue, p)
  /\ UNCHANGED <<data, cookie, name, listening, stopping, request, bounds, start, known>>

\* The kernel runs out of room: the last events are replaced by a notice.
Drop ==
  /\ queue # <<>> /\ resyncs < MaxResyncs /\ Budget > 0
  /\ resyncs' = resyncs + 1
  /\ \E n \in 0 .. Len(queue) - 1 : queue' = Append(SubSeq(queue, 1, n), Dropped)
  /\ UNCHANGED <<data, cookie, name, listening, stopping, request, requests, history>>

------------------------------------------------------------------------------
(* The listener thread. *)

\* Mutant: cookies are not aborted.
ResyncKeepsCookies ==
  /\ current' = Len(tokens) + 1
  /\ live' = (IF tokens[current].refs = 0 THEN live \ {current} ELSE live)
               \cup {Len(tokens) + 1}
  /\ UNCHANGED cookie

\* Mutant: the old token is freed under its readers.
ResyncFrees ==
  /\ current' = Len(tokens) + 1
  /\ live' = (live \ {current}) \cup {Len(tokens) + 1}
  /\ cookie' = [c \in Clients |-> IF cookie[c] = "none" THEN "none" ELSE "abort"]

\* with_lock__do_force_resync() without the new table of tokens
Resync ==
  /\ current' = Len(tokens) + 1
  /\ live' = (IF tokens[current].refs = 0 THEN live \ {current} ELSE live)
               \cup {Len(tokens) + 1}
  /\ cookie' = [c \in Clients |-> IF cookie[c] = "none" THEN "none" ELSE "abort"]

Drops == {i \in DOMAIN queue : queue[i] = Dropped}
Before(n) == {queue[i] : i \in 1 .. n}
Rest(n) == SubSeq(queue, n + 1, Len(queue))

\* The list of batches once fsmonitor_publish() has added a batch with paths P to
\* it.  Whether both batches together are above MY_COMBINE_LIMIT is left open.
Combined(list, P) == [list EXCEPT ![Len(list)].paths = @ \cup P]

\* Mutant: a pinned batch is added to.
PublishedPinned(list, P) == {Combined(list, P)}

Published(list, P) ==
  LET prepended == Append(list, NewBatch(P)) IN
  CASE list[Len(list)].pinned -> {prepended}
    [] ~list[Len(list)].pinned /\ Len(list) = 1 -> {list}
    [] ~list[Len(list)].pinned /\ Len(list) > 1 -> {prepended, Combined(list, P)}

\* The listener is given n events, sorts them into paths and cookies, and
\* publishes them.
Publish(n) ==
  LET P == Before(n) \cap Paths IN
  /\ listening /\ \A i \in Drops : n < i
  /\ queue' = Rest(n)
  /\ IF P = {} THEN UNCHANGED tokens
     ELSE \E list \in Published(tokens[current].list, P) :
            tokens' = [tokens EXCEPT ![current].list = list]
  /\ cookie' = [c \in Clients |-> IF cookie[c] # "none" /\ name[c] \in Before(n)
                                  THEN "seen" ELSE cookie[c]]
  /\ UNCHANGED <<live, current, name, listening, stopping, request, bounds, history>>

\* Number n of the events says that some were lost: it forgets those before, too.
ForceResync(n) ==
  /\ listening /\ n \in Drops /\ \A i \in Drops : n <= i
  /\ queue' = Rest(n)
  /\ Resync /\ tokens' = Append(tokens, NewToken)
  /\ UNCHANGED <<name, listening, stopping, request, bounds, history>>

\* The end of fsm_listen__thread_proc().
EndListener ==
  /\ listening' = FALSE
  /\ live' = IF tokens[current].refs = 0 THEN live \ {current} ELSE live
  /\ current' = 0 /\ queue' = <<>>
  /\ UNCHANGED <<tokens, cookie, name, request, bounds, history>>

\* fsmonitor_run_daemon_1() waits for the worker threads before it stops the listener.
StopListener ==
  /\ listening /\ stopping
  /\ \A c \in Clients : pc[c] = "idle"
  /\ EndListener
  /\ UNCHANGED stopping

\* The repository was moved or deleted: the listener forgets its events, stops the
\* IPC server, and does not wait for anybody.
ForceShutdown ==
  /\ listening
  /\ stopping' = TRUE
  /\ EndListener

------------------------------------------------------------------------------
(* do_handle_client(), in the worker thread that serves client c. *)

Goto(c, l) == pc' = [pc EXCEPT ![c] = l]

\* A client sends the token it has, something that is not a token, or "flush".
Request(c) ==
  /\ pc[c] = "idle" /\ ~stopping /\ Budget > 0
  /\ \E k \in {"since", "other", "flush"} :
       /\ k = "flush" => resyncs < MaxResyncs /\ Budget > 1
       /\ kind' = [kind EXCEPT ![c] = k]
       /\ resyncs' = IF k = "flush" THEN resyncs + 1 ELSE resyncs
  /\ requests' = requests + 1
  /\ start' = [start EXCEPT ![c] = Len(log)]
  /\ Goto(c, "begin")
  /\ UNCHANGED <<data, cookie, name, queue, listening, stopping, held, reply, pos, sent,
                 log, known>>

\* The last request, so to speak: a server that stops takes no more.
Quit(c) ==
  /\ pc[c] = "idle" /\ ~stopping /\ Budget = 0
  /\ stopping' = TRUE
  /\ UNCHANGED <<data, cookie, name, queue, listening, request, bounds, history>>

\* The client has its answer, token t and paths P; whether it keeps the token
\* with what it learnt from the answer is its own affair.
Answered(c, t, all, P) ==
  /\ Goto(c, "idle") /\ kind' = [kind EXCEPT ![c] = "since"]
  /\ start' = [start EXCEPT ![c] = 0]
  /\ pos' = [pos EXCEPT ![c] = 0] /\ sent' = [sent EXCEPT ![c] = {}]
  /\ reply' = [reply EXCEPT ![c] = NoToken]
  /\ \/ /\ held' = [held EXCEPT ![c] = t]
        /\ known' = [known EXCEPT ![c] = IF all THEN DOMAIN log
                                         ELSE @ \cup {i \in DOMAIN log : log[i] \in P}]
     \/ UNCHANGED <<held, known>>

\* From pinning the head to the unlock, with the table T of tokens and the
\* current token t.
Respond(c, T, t, trivial) ==
  LET h == Len(T[t].list)
      Pinned == [T EXCEPT ![t].list[h].pinned = TRUE]
      token == [id |-> t, seq |-> h - 1]
      all == trivial \/ held[c].id # t \/ held[c].seq < T[t].tail - 1
  IN /\ IF all
        THEN tokens' = Pinned /\ Answered(c, token, TRUE, {})
        ELSE /\ tokens' = [Pinned EXCEPT ![t].refs = @ + 1]
             /\ reply' = [reply EXCEPT ![c] = token]
             /\ pos' = [pos EXCEPT ![c] = h]
             /\ Goto(c, "walk")
             /\ UNCHANGED <<kind, held, sent, start, known>>
     /\ UNCHANGED <<queue, listening, stopping, bounds, log>>

CreateCookie(c) ==
  /\ pc[c] = "begin" /\ kind[c] # "flush" /\ current # 0
  /\ cookie' = [cookie EXCEPT ![c] = "init"]
  /\ name' = [name EXCEPT ![c] = requests]
  /\ queue' = Append(queue, requests)
  /\ Goto(c, "wait")
  /\ UNCHANGED <<data, listening, stopping, kind, held, reply, pos, sent, bounds, history>>

\* The file cannot be created.
CookieError(c) ==
  /\ pc[c] = "begin" /\ kind[c] # "flush" /\ current # 0
  /\ Respond(c, tokens, current, TRUE)
  /\ UNCHANGED <<live, current, cookie, name>>

WaitForCookie(c) ==
  /\ pc[c] = "wait" /\ cookie[c] # "init" /\ current # 0
  /\ cookie' = [cookie EXCEPT ![c] = "none"]
  /\ name' = [name EXCEPT ![c] = 0]
  /\ Respond(c, tokens, current, cookie[c] # "seen" \/ kind[c] = "other")
  /\ UNCHANGED <<live, current>>

Flush(c) ==
  /\ pc[c] = "begin" /\ kind[c] = "flush" /\ current # 0
  /\ Resync
  /\ Respond(c, Append(tokens, NewToken), Len(tokens) + 1, TRUE)
  /\ UNCHANGED name

\* One batch, without the lock.
WalkBatch(c) ==
  /\ pc[c] = "walk"
  /\ LET t == tokens[reply[c].id] IN
     IF pos[c] # 0 /\ pos[c] - 1 > held[c].seq
     THEN /\ sent' = [sent EXCEPT ![c] = @ \cup t.list[pos[c]].paths]
          /\ pos' = [pos EXCEPT ![c] = IF @ = t.tail THEN 0 ELSE @ - 1]
          /\ UNCHANGED pc
     ELSE Goto(c, "done") /\ UNCHANGED <<sent, pos>>
  /\ UNCHANGED <<data, cookie, name, queue, listening, stopping, kind, held, reply, bounds,
                 history>>

\* Where with_lock__truncate_old_batches() may cut: which batches were pinned
\* long enough ago is up to the clock.
Tails(t, marker) ==
  {t.tail} \cup {n \in t.tail .. marker - 1 : t.list[n].pinned}

\* Mutant: a stale token is not freed by its last reader.
FinishWalkKeeps(c) ==
  /\ pc[c] = "done"
  /\ LET i == reply[c].id
         refs == IF tokens[i].refs > 0 THEN tokens[i].refs - 1 ELSE 0
     IN tokens' = [tokens EXCEPT ![i].refs = refs]
  /\ Answered(c, reply[c], FALSE, sent[c])
  /\ UNCHANGED <<live, current, cookie, name, queue, listening, stopping, bounds, log>>

FinishWalk(c) ==
  /\ pc[c] = "done"
  /\ LET i == reply[c].id
         refs == IF tokens[i].refs > 0 THEN tokens[i].refs - 1 ELSE 0
     IN /\ live' = IF refs = 0 /\ i # current THEN live \ {i} ELSE live
        /\ \E n \in IF refs = 0 /\ i = current THEN Tails(tokens[i], pos[c])
                    ELSE {tokens[i].tail} :
             tokens' = [tokens EXCEPT ![i].refs = refs, ![i].tail = n]
  /\ Answered(c, reply[c], FALSE, sent[c])
  /\ UNCHANGED <<current, cookie, name, queue, listening, stopping, bounds, log>>

------------------------------------------------------------------------------

Listen == \E n \in DOMAIN queue : Publish(n) \/ ForceResync(n)
Handle(c) ==
  \/ CreateCookie(c) \/ CookieError(c) \/ WaitForCookie(c) \/ Flush(c)
  \/ WalkBatch(c) \/ FinishWalk(c)

\* After a forced shutdown a worker may be left waiting for its cookie, or find
\* no token and die with BUG().
Terminated == ~listening /\ UNCHANGED vars

Next ==
  \/ \E p \in Paths : Change(p)
  \/ Drop \/ Listen \/ StopListener \/ ForceShutdown
  \/ \E c \in Clients : Request(c) \/ Quit(c) \/ Handle(c)
  \/ Terminated

Spec == Init /\ [][Next]_vars

------------------------------------------------------------------------------
(* Properties. *)

\* Variables keep their types.
TypeOK ==
  /\ tokens \in Seq([list : Seq([paths : SUBSET Paths, pinned : BOOLEAN]),
                     tail : Nat, refs : Nat])
  /\ live \subseteq DOMAIN tokens
  /\ current \in 0 .. Len(tokens)
  /\ cookie \in [Clients -> {"none", "init", "seen", "abort"}]
  /\ name \in [Clients -> 0 .. MaxRequests]
  /\ queue \in Seq(Paths \cup {Dropped} \cup 0 .. MaxRequests)
  /\ listening \in BOOLEAN /\ stopping \in BOOLEAN
  /\ pc \in [Clients -> {"idle", "begin", "wait", "walk", "done"}]
  /\ kind \in [Clients -> {"since", "other", "flush"}]
  /\ held \in [Clients -> [id : Nat, seq : Nat]]
  /\ reply \in [Clients -> [id : Nat, seq : Nat]]
  /\ pos \in [Clients -> Nat] /\ sent \in [Clients -> SUBSET Paths]
  /\ requests \in 0 .. MaxRequests /\ resyncs \in 0 .. MaxResyncs
  /\ log \in Seq(Paths) /\ start \in [Clients -> Nat]
  /\ known \in [Clients -> SUBSET Nat]

Reading(c) == pc[c] \in {"walk", "done"}

\* A client that is sent a list of paths, and not told to look at everything,
\* is sent each path that changed before its request and that it did not know
\* about when it was given the token it sent.
ResponseComplete ==
  \A c \in Clients : pc[c] = "done" =>
    \A i \in (1 .. start[c]) \ known[c] : log[i] \in sent[c]

\* The list a worker reads without the lock is not freed under it: neither the
\* token, nor the batch it is at.
NoUseAfterFree ==
  \A c \in Clients : Reading(c) =>
    /\ reply[c].id \in live
    /\ pos[c] # 0 => pos[c] \in tokens[reply[c].id].tail .. Len(tokens[reply[c].id].list)

\* client_ref_count is the number of readers, and nobody forgets to free a token
\* that is not current any more.
RefCounts ==
  /\ \A t \in DOMAIN tokens :
       tokens[t].refs = Cardinality({c \in Clients : Reading(c) /\ reply[c].id = t})
  /\ \A t \in live : t = current \/ tokens[t].refs > 0
  /\ current # 0 => current \in live

\* A request that waits for its cookie will be woken up: the event of the cookie
\* is still to come, or the notice that events were lost, which aborts it.
CookieNotLost ==
  \A c \in Clients : pc[c] = "wait" /\ cookie[c] = "init" /\ listening =>
    \E i \in DOMAIN queue : queue[i] \in {name[c], Dropped}

\* What a token stands for never changes: the batches up to one that was pinned
\* keep their paths as long as they exist.
PinnedUnchanged ==
  [][\A t \in DOMAIN tokens : \A n \in DOMAIN tokens[t].list :
       (\E m \in n .. Len(tokens[t].list) : tokens[t].list[m].pinned)
         => tokens'[t].list[n].paths = tokens[t].list[n].paths]_vars

==============================================================================
