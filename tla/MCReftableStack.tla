--------------------------- MODULE MCReftableStack ---------------------------
EXTENDS ReftableStack, TLC

CONSTANTS a, b, r1, r2, o1, o2

\* Delete both references if they have the value; move one, verify the other.
DeleteBoth == [r \in Refs |-> [old |-> o1, new |-> NULL]]
MoveOne == (r1 :> [old |-> ANY, new |-> o2]) @@ (r2 :> [old |-> o1, new |-> KEEP])
MCTransactions == {DeleteBoth, MoveOne}

T(n, rs) == [min |-> n, max |-> n, recs |-> rs]
\* One table for each reference
MCInitTables == << T(1, r1 :> o1), T(2, r2 :> o1) >>
=============================================================================
