CONSTANTS
  a = a  b = b  r1 = r1  r2 = r2  o1 = o1  o2 = o2
  NULL = NULL  ANY = ANY  KEEP = KEEP  Nobody = Nobody
  Writers = {a}
  Packers = {b}
  Readers = {a}
  Refs = {r1, r2}
  Oids = {o1, o2}
  Transactions <- MCTransactions
  InitTables <- MCInitTables
  MaxTables = 4
  MaxTries = 1
  Faulty = {b}
SPECIFICATION Spec
INVARIANTS StackWellFormed NothingMissing ReadIsSnapshot NothingLeaked
PROPERTIES ImplementsRefStore
