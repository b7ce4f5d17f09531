CONSTANTS
  p1 = p1  p2 = p2  p3 = p3  a = a  b = b
  Procs = {p1, p2, p3}
  Values = {a, b}
  Nobody = Nobody  Partial = Partial
SPECIFICATION Spec
INVARIANTS MutualExclusion
SYMMETRY Interchangeable
