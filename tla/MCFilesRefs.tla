----------------------------- MODULE MCFilesRefs -----------------------------
EXTENDS FilesRefs, TLC

CONSTANTS w1, w2, k1, d1, r1, r2, a, b

\* Updates of every kind a caller can queue: set, move, create, delete, verify.
FewUpdates == {[old |-> ANY, new |-> a], [old |-> a, new |-> b],
               [old |-> NULL, new |-> b], [old |-> ANY, new |-> NULL],
               [old |-> b, new |-> KEEP]}
\* Delete and create, each only if the other came before
ToggleUpdates == {[old |-> a, new |-> NULL], [old |-> NULL, new |-> a]}
\* Without an old value: git update-ref <ref> <oid>, git update-ref -d <ref>
PlainUpdates == {[old |-> ANY, new |-> a], [old |-> ANY, new |-> NULL]}

\* Neither two writers nor two references are told apart.
Interchangeable == Permutations(Writers) \cup Permutations(Refs)
=============================================================================
