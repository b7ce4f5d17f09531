------------------------------- MODULE Fetch --------------------------------
(***************************************************************************)
(* A fetch with protocol version 2: do_fetch_pack_v2() (fetch-pack.c) with *)
(* the default negotiator (negotiator/default.c) on one side, and          *)
(* upload_pack_v2() (upload-pack.c) on the other.  The server keeps no     *)
(* state between requests, and its repository may change between them.     *)
(*                                                                         *)
(* Objects are commits, numbered so that parents come first.  The date of  *)
(* a commit says nothing about its ancestry: clocks may be wrong.          *)
(***************************************************************************)
EXTENDS Integers, FiniteSets, Sequences, SequencesExt

CONSTANTS
  Commits,        \* 1 .. n
  Histories,      \* the histories considered: [parents, date] of each commit
  MaxTips,        \* bound on the number of references of each side
  InitialFlush,   \* INITIAL_FLUSH
  MaxInVain       \* MAX_IN_VAIN

VARIABLES
  history,        \* the commits, the same for both sides
  refs,           \* the references of the client
  objects,        \* what the client has: their history, and perhaps more
  server,         \* what the server has
  shrunk,         \* the server has lost commits since the references were listed
  ref,            \* the references the client asks for, as the server listed them
  state,          \* enum fetch_state
  complete,       \* commits with the flag COMPLETE
  ns,             \* the negotiator
  common,         \* commits the server has acknowledged
  haves,          \* haves_to_send
  inVain, seenAck,
  told,           \* history: the commits the client has told the server about
  request,        \* the request the server has not answered
  response        \* the response the client has not read

client == <<ref, complete, ns, common, haves, inVain, seenAck, told>>
vars == <<history, refs, objects, server, shrunk, state, client, request, response>>

Parents(c) == history.parents[c]
Date(c) == history.date[c]

\* The commits of S and their ancestors.
Ancestry(S) ==
  LET Reach[n \in 0 .. Cardinality(Commits)] ==
        IF n = 0 THEN S
        ELSE Reach[n - 1] \cup UNION {Parents(c) : c \in Reach[n - 1]}
  IN Reach[Cardinality(Commits)]

Ascending(S) == SetToSortSeq(S, <)

------------------------------------------------------------------------------
(* negotiator/default.c.  A commit has the flags of the sets it is in; list *)
(* is the queue rev_list in the order of insertion, n is non_common_revs.    *)

NewNegotiator ==
  [list |-> <<>>, n |-> 0, common |-> {}, commonRef |-> {}, seen |-> {}, popped |-> {}]

RevListPush(s, c, mark) ==
  IF \E f \in mark : c \in s[f] THEN s
  ELSE [f \in DOMAIN s |->
          CASE f = "list" -> Append(s.list, c)
            [] f = "n" -> IF c \in s.common \/ "common" \in mark THEN s.n ELSE s.n + 1
            [] f \in mark -> s[f] \cup {c}
            [] OTHER -> s[f]]

\* Mutant: the count is not adjusted.
SetCommonQuietly(s, S) == [s EXCEPT !.common = @ \cup S]

\* The flag COMMON for the commits of S, and the counter after that.
SetCommon(s, S) ==
  [s EXCEPT !.common = @ \cup S,
            !.n = @ - Cardinality((S \ s.common) \cap (s.seen \ s.popped))]

\* The loop of mark_common(), with the commits of Q in its queue.
RECURSIVE Spread(_, _)
Spread(s, Q) ==
  IF Q = {} THEN s
  ELSE LET c == CHOOSE c \in Q : TRUE
           P == Parents(c) \ s.common
       IN IF c \notin s.seen THEN Spread(RevListPush(s, c, {"seen"}), Q \ {c})
          ELSE Spread(SetCommon(s, P), (Q \ {c}) \cup P)

MarkCommon(s, c, ancestorsOnly) ==
  IF c \in s.common THEN s
  ELSE Spread(IF ancestorsOnly THEN s ELSE SetCommon(s, {c}), {c})

\* The commit prio_queue_get() returns: the newest, the first of equals.
Newest(list) ==
  list[CHOOSE i \in DOMAIN list :
         \A j \in DOMAIN list : Date(list[j]) < Date(list[i])
                                \/ (Date(list[j]) = Date(list[i]) /\ j >= i)]

\* get_rev(): the next commit to send, 0 if there is none, and the negotiator.
RECURSIVE GetRev(_)
GetRev(s) ==
  IF s.list = <<>> \/ s.n = 0 THEN [rev |-> 0, ns |-> s]
  ELSE LET c == Newest(s.list)
           known == c \in s.common
           mark == IF known \/ c \in s.commonRef THEN {"common", "seen"} ELSE {"seen"}
           taken == [s EXCEPT !.list = SelectSeq(@, LAMBDA d : d # c),
                              !.popped = @ \cup {c},
                              !.n = IF known THEN @ ELSE @ - 1]
           Visit(t, p) ==
             LET u == IF p \in t.seen THEN t ELSE RevListPush(t, p, mark)
             IN IF "common" \in mark THEN MarkCommon(u, p, TRUE) ELSE u
           after == FoldLeft(Visit, taken, Ascending(Parents(c)))
       IN IF known THEN GetRev(after) ELSE [rev |-> c, ns |-> after]

\* Mutant: the commit itself is marked at once.
KnownCommonAtOnce(s, c) ==
  IF c \in s.seen THEN s
  ELSE MarkCommon(RevListPush(s, c, {"commonRef", "seen"}), c, FALSE)

KnownCommon(s, c) ==
  IF c \in s.seen THEN s
  ELSE MarkCommon(RevListPush(s, c, {"commonRef", "seen"}), c, TRUE)

AddTip(s, c) == RevListPush(s, c, {"seen"})
Ack(s, c) == MarkCommon(s, c, FALSE)

------------------------------------------------------------------------------
(* fetch-pack.c *)

\* mark_recent_complete_commits(): Q is the queue, C the commits with COMPLETE.
RECURSIVE MarkRecent(_, _, _)
MarkRecent(Q, C, cutoff) ==
  IF \A c \in Q : Date(c) < cutoff THEN C
  ELSE LET c == CHOOSE c \in Q : \A d \in Q : Date(d) <= Date(c)
           P == Parents(c) \ C
       IN MarkRecent((Q \ {c}) \cup P, C \cup P, cutoff)

\* Mutant: what is there is taken for complete.
MarkCompletePresent(R) == refs \cup (R \cap objects)

\* The commits mark_complete_and_common_ref() marks, for the listed references R.
MarkComplete(R) ==
  LET here == {Date(c) : c \in R \cap objects} IN
  IF here = {} THEN refs
  ELSE MarkRecent(refs, refs, CHOOSE d \in here : \A e \in here : e <= d)

\* FETCH_CHECK_LOCAL
CheckLocal ==
  /\ state = "check"
  /\ LET C == MarkComplete(ref)
         known == FoldLeft(KnownCommon, NewNegotiator, Ascending(ref \cap objects \cap C))
     IN /\ complete' = C
        /\ ns' = FoldLeft(AddTip, known, Ascending(refs))
        /\ state' = IF ref \subseteq C THEN "done" ELSE "send"
  /\ UNCHANGED <<history, refs, objects, server, shrunk, ref, common, haves, inVain, seenAck,
                 told, request, response>>

\* add_haves(): up to n commits.
RECURSIVE AddHaves(_, _, _)
AddHaves(s, sent, n) ==
  LET r == GetRev(s) IN
  IF r.rev = 0 THEN [ns |-> r.ns, sent |-> sent]
  ELSE IF Len(sent) + 1 >= n THEN [ns |-> r.ns, sent |-> Append(sent, r.rev)]
  ELSE AddHaves(r.ns, Append(sent, r.rev), n)

NextFlush(n) == 2 * n

\* Mutant: the client goes on without anything to tell.
SendRequestOn ==
  /\ state = "send"
  /\ LET r == AddHaves(ns, <<>>, haves)
         vain == inVain + Len(r.sent)
         done == (r.sent = <<>> /\ common = {}) \/ (seenAck /\ vain >= MaxInVain)
     IN /\ request' = <<[wants |-> ref \ complete,
                         haves |-> Ascending(common) \o r.sent,
                         done |-> done]>>
        /\ ns' = r.ns
        /\ inVain' = vain
        /\ told' = told \cup ToSet(r.sent)
        /\ state' = IF done THEN "pack" ELSE "acks"
  /\ UNCHANGED <<history, refs, objects, server, shrunk, ref, complete, common, haves, seenAck, response>>

\* FETCH_SEND_REQUEST and send_fetch_request()
SendRequest ==
  /\ state = "send"
  /\ LET r == AddHaves(ns, <<>>, haves)
         vain == inVain + Len(r.sent)
         done == r.sent = <<>> \/ (seenAck /\ vain >= MaxInVain)
     IN /\ request' = <<[wants |-> ref \ complete,
                         haves |-> Ascending(common) \o r.sent,
                         done |-> done]>>
        /\ ns' = r.ns
        /\ inVain' = vain
        /\ told' = told \cup ToSet(r.sent)
        /\ state' = IF done THEN "pack" ELSE "acks"
  /\ haves' = NextFlush(haves)
  /\ UNCHANGED <<history, refs, objects, server, shrunk, ref, complete, common, seenAck, response>>

\* FETCH_PROCESS_ACKS; the rest of a response with "ready" is read as the pack.
ProcessAcks ==
  /\ state = "acks" /\ response # <<>> /\ response[1].section = "acknowledgments"
  /\ LET m == response[1] IN
     /\ ns' = FoldLeft(Ack, ns, m.acks)
     /\ common' = common \cup ToSet(m.acks)
     /\ seenAck' = (seenAck \/ m.acks # <<>>)
     /\ inVain' = IF m.acks # <<>> THEN 0 ELSE inVain
     /\ state' = IF m.ready THEN "pack" ELSE "send"
     /\ response' = Tail(response)
  /\ UNCHANGED <<history, refs, objects, server, shrunk, ref, complete, haves, told, request>>

\* FETCH_GET_PACK
GetPack ==
  /\ state = "pack" /\ response # <<>> /\ response[1].section = "packfile"
  /\ objects' = objects \cup response[1].pack
  /\ response' = Tail(response)
  /\ state' = "done"
  /\ UNCHANGED <<history, refs, server, shrunk, client, request>>

\* An error message from the server: the client dies.
Die ==
  /\ response # <<>> /\ response[1].section = "error"
  /\ response' = Tail(response)
  /\ state' = "dead"
  /\ UNCHANGED <<history, refs, objects, server, shrunk, client, request>>

------------------------------------------------------------------------------
(* upload-pack.c *)

\* got_oid(): what the server knows after a "have".
GotOid(d, c) ==
  IF c \notin server THEN d
  ELSE LET they == d.theyHave \cup Parents(c) IN
       [theyHave |-> they \cup {c},
        haveObj |-> IF c \in they THEN d.haveObj ELSE Append(d.haveObj, c),
        oldest |-> IF d.oldest = 0 \/ Date(c) < d.oldest THEN Date(c) ELSE d.oldest]

\* The depth-first walk of can_all_from_reach_with_flag() from c: w.assigned are the
\* commits it need not enter again, w.result those known to lead to one they have.
\* It does not enter commits older than the oldest, and leaves c when it knows.
RECURSIVE Explore(_, _, _)
Explore(w, c, d) ==
  LET Known(v, x) == x \in d.theyHave \cup v.result
      Follow(v, x) == IF Known(v, x) THEN [v EXCEPT !.result = @ \cup {c}] ELSE v
      Visit(v, p) ==
        LET u == [Follow(v.walk, p) EXCEPT !.assigned = @ \cup {p}]
            e == Explore(u, p, d)
        IN  CASE v.left -> v
              [] ~v.left /\ p \in v.walk.assigned -> [v EXCEPT !.walk = Follow(@, p)]
              [] ~v.left /\ p \notin v.walk.assigned /\ Date(p) < d.oldest -> [v EXCEPT !.walk = u]
              [] OTHER -> [walk |-> Follow(e, p), left |-> Known(Follow(e, p), c)]
  IN  IF Known(w, c) THEN w
      ELSE FoldLeft(Visit, [walk |-> w, left |-> FALSE], Ascending(Parents(c))).walk

\* can_all_from_reach_with_flag() without generation numbers: every want, in the
\* order of their dates, leads to a commit they have.  A want is entered whatever its
\* date, and what was found for one counts for the next.
CanAllReach(W, d) ==
  LET byDate == SetToSortSeq(W, LAMBDA x, y : Date(x) < Date(y) \/ (Date(x) = Date(y) /\ x < y))
      walk == FoldLeft(LAMBDA w, c : Explore([w EXCEPT !.assigned = @ \cup {c}], c, d),
                       [assigned |-> {}, result |-> {}], byDate)
  IN  W \subseteq d.theyHave \cup walk.result

OkToGiveUp(W, d) == d.haveObj # <<>> /\ CanAllReach(W, d)

\* create_pack_file(): what pack-objects makes of "<wants> --not <haves>".
PackFile(W, d) ==
  [section |-> "packfile", pack |-> Ancestry(W) \ Ancestry(ToSet(d.haveObj))]

Acknowledgments(d, ready) ==
  [section |-> "acknowledgments", acks |-> d.haveObj, ready |-> ready]

\* Mutant: acknowledgments come before every pack.
UploadPackAcks ==
  /\ request # <<>>
  /\ LET q == request[1]
         d == FoldLeft(GotOid, [theyHave |-> {}, haveObj |-> <<>>, oldest |-> 0], q.haves)
         ready == OkToGiveUp(q.wants, d) \/ q.done
     IN response' =
          CASE ~(q.wants \subseteq server) -> <<[section |-> "error"]>>
            [] q.wants \subseteq server /\ q.wants = {} -> <<>>
            [] q.wants \subseteq server /\ q.wants # {} ->
                 IF q.haves = <<>> THEN <<PackFile(q.wants, d)>>
                 ELSE IF ready THEN <<Acknowledgments(d, TRUE), PackFile(q.wants, d)>>
                 ELSE <<Acknowledgments(d, FALSE)>>
  /\ request' = <<>>
  /\ UNCHANGED <<history, refs, objects, server, shrunk, state, client>>

\* upload_pack_v2(): one request, from process_args() to UPLOAD_DONE.
UploadPack ==
  /\ request # <<>>
  /\ LET q == request[1]
         d == FoldLeft(GotOid, [theyHave |-> {}, haveObj |-> <<>>, oldest |-> 0], q.haves)
         ready == OkToGiveUp(q.wants, d)
     IN response' =
          CASE ~(q.wants \subseteq server) -> <<[section |-> "error"]>>
            [] q.wants \subseteq server /\ q.wants = {} -> <<>>
            [] q.wants \subseteq server /\ q.wants # {} ->
                 IF q.haves = <<>> \/ q.done THEN <<PackFile(q.wants, d)>>
                 ELSE IF ready THEN <<Acknowledgments(d, TRUE), PackFile(q.wants, d)>>
                 ELSE <<Acknowledgments(d, FALSE)>>
  /\ request' = <<>>
  /\ UNCHANGED <<history, refs, objects, server, shrunk, state, client>>

\* A reference of the server is deleted and its commits are pruned.
Forget ==
  /\ ~shrunk /\ state \notin {"done", "dead"}
  /\ \E r \in ref : server' = Ancestry(ref \ {r})
  /\ shrunk' = TRUE
  /\ UNCHANGED <<history, refs, objects, state, client, request, response>>

------------------------------------------------------------------------------

Tips == {S \in SUBSET Commits : Cardinality(S) <= MaxTips}

\* The client has the history of its references.  It may also have one more
\* commit, from a fetch that was interrupted, without the history of it.
Init ==
  /\ history \in Histories
  /\ refs \in Tips
  /\ \E c \in Commits : objects = Ancestry(refs) \cup {c}
  /\ ref \in Tips \ {{}} /\ server = Ancestry(ref) /\ shrunk = FALSE
  /\ state = "check" /\ complete = {} /\ ns = NewNegotiator
  /\ common = {} /\ haves = InitialFlush /\ inVain = 0 /\ seenAck = FALSE /\ told = {}
  /\ request = <<>> /\ response = <<>>

Client == CheckLocal \/ SendRequest \/ ProcessAcks \/ GetPack \/ Die
Terminated == state \in {"done", "dead"} /\ UNCHANGED vars

Next == Client \/ UploadPack \/ Forget \/ Terminated
Spec == Init /\ [][Next]_vars

------------------------------------------------------------------------------
(* Properties. *)

\* Variables keep their types.
TypeOK ==
  /\ refs \subseteq Commits /\ objects \subseteq Commits /\ server \subseteq Commits
  /\ state \in {"check", "send", "acks", "pack", "done", "dead"}
  /\ complete \subseteq Commits /\ common \subseteq Commits /\ told \subseteq Commits
  /\ ns \in [list : Seq(Commits), n : Nat, common : SUBSET Commits,
             commonRef : SUBSET Commits, seen : SUBSET Commits, popped : SUBSET Commits]
  /\ haves \in Nat /\ inVain \in Nat /\ seenAck \in BOOLEAN
  /\ Len(request) <= 1 /\ Len(response) <= 2

\* A fetch that succeeds leaves the client with the whole history of every
\* reference it asked for.
FetchComplete == state = "done" => Ancestry(ref) \subseteq objects

\* The client finds in the response the section it expects there, and reads the
\* whole response: "expected '%s', received '%s'" never happens.
InStep ==
  /\ response # <<>> =>
       \/ response[1].section = "error"
       \/ state = "acks" /\ response[1].section = "acknowledgments"
       \/ state = "pack" /\ response[1].section = "packfile"
  /\ state = "done" => response = <<>>

\* non_common_revs, which decides when to stop, is the number of commits in the
\* queue without the flag COMMON.
CounterExact ==
  ns.n = Cardinality({i \in DOMAIN ns.list : ns.list[i] \notin ns.common})

\* When the client has told everything it wanted to tell and the server has not
\* lost anything, the pack has no commit the client could have told about.
NothingTwice ==
  (state = "pack" /\ ns.n = 0 /\ ~shrunk) =>
    \A i \in DOMAIN response :
      response[i].section = "packfile" => response[i].pack \cap Ancestry(refs) = {}

\* A request that is not the last tells about a commit the server was not told
\* about before, so the negotiation comes to an end.
EveryRequestTells ==
  [][request' # <<>> /\ request' # request => request'[1].done \/ told' # told]_vars

=============================================================================
