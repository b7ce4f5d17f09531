----------------------------- MODULE MCSimpleIpc -----------------------------
EXTENDS SimpleIpc

CONSTANTS w1, w2, c1, c2, c3

\* Workers are numbered in the order in which they are created, connections in the
\* order in which the clients connect.  There are three of them for one worker,
\* which is enough to fill the queue, and two for two workers.
Numbered ==
  /\ client'[c2] # "none" => client[c1] # "none"
  /\ client'[c3] # "none" => client[c2] # "none" /\ pc[w2] = "missing"

MCSpec == Init /\ pc[w1] # "missing" /\ [][Next /\ Numbered]_vars /\ Fairness
=============================================================================
