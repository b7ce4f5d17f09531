SPECIFICATION Spec
CONSTANTS
  c1 = c1
  c2 = c2
  p1 = p1
  p2 = p2
  Dropped = Dropped
  Clients = {c1, c2}
  Paths = {p1, p2}
  MaxChanges = 2
  MaxRequests = 5
  MaxResyncs = 1
SYMMETRY MCSymmetry
INVARIANTS ResponseComplete NoUseAfterFree RefCounts CookieNotLost
