CONSTANTS
  w1 = w1  w2 = w2  k1 = k1  d1 = d1  r1 = r1  r2 = r2  a = a  b = b
  NULL = NULL  ANY = ANY  KEEP = KEEP  Nobody = Nobody
  Writers = {w1}
  Packers = {k1}
  Readers = {}
  Refs = {r1}
  Oids = {a, b}
  Updates <- FewUpdates
  PackModes = {"auto"}
  Faults = FALSE
SPECIFICATION SpecNoReturn
INVARIANTS LockedValueStable
