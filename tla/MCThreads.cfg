CONSTANTS
  a = a  b = b  r1 = r1  o1 = o1  o2 = o2
  NULL = NULL  ANY = ANY  KEEP = KEEP  Nobody = Nobody
SPECIFICATION PartsSpec
INVARIANTS OutputRight GrepRight DeltaRight
PROPERTIES Ends Returns
