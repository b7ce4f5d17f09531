------------------------------ MODULE RefStore ------------------------------
(***************************************************************************)
(* What a reference store promises its callers, whatever the backend       *)
(* (refs.h, the interface ref_transaction_prepare / _commit / _abort):     *)
(* a transaction is prepared when all the values it expects hold at one    *)
(* moment, no other transaction may touch its references from then on, and *)
(* a reference only ever changes by a prepared update being applied.       *)
(* Nothing else (packing, pruning, compaction, a crash) changes a value.   *)
(***************************************************************************)
CONSTANTS Procs, Refs, Oids, NULL, ANY, KEEP

VARIABLES
  val,   \* the value of each reference, NULL if it does not exist
  txn    \* the updates each process has prepared and not yet applied

OidOrNull == Oids \cup {NULL}
Update == [old : OidOrNull \cup {ANY}, new : OidOrNull \cup {KEEP}]
NoTx == [r \in {} |-> [old |-> ANY, new |-> KEEP]]

Init ==
  /\ val \in [Refs -> OidOrNull]
  /\ txn = [p \in Procs |-> NoTx]

\* ref_transaction_prepare() succeeds: every expected old value holds.
Prepare(p) ==
  /\ txn[p] = NoTx
  /\ \E S \in SUBSET Refs : \E u \in [S -> Update] :
       /\ \A q \in Procs : DOMAIN txn[q] \cap S = {}
       /\ \A r \in S : u[r].old \in {ANY, val[r]}
       /\ txn' = [txn EXCEPT ![p] = u]
  /\ UNCHANGED val

\* Apply the updates of S, and give up those of D (ref_transaction_commit(),
\* ref_transaction_abort(), or the end of a process that did not finish).
Apply(p) ==
  \E S, D \in SUBSET DOMAIN txn[p] :
    /\ \A r \in S : txn[p][r].new # KEEP
    /\ val' = [r \in Refs |-> IF r \in S THEN txn[p][r].new ELSE val[r]]
    /\ txn' = [txn EXCEPT ![p] = [r \in DOMAIN txn[p] \ (S \cup D) |-> txn[p][r]]]

Next == \E p \in Procs : Prepare(p) \/ Apply(p)

Spec == Init /\ [][Next]_<<val, txn>>
=============================================================================
