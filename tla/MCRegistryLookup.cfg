CONSTANTS
  r1 = r1
  r2 = r2
  d1 = d1
  d2 = d2
  l1 = l1
  l2 = l2
  Lookup = {l1, l2}
  Did = {d1, d2}
  Registry = {r1, r2}
  Lists <- MCLists
  Options <- MCFewOptions
  DEFAULT_TTL_MS = 2
  PARTIAL_RESULT_TTL_MS = 1
  MaxTime = 2
SPECIFICATION Spec
SYMMETRY MCSymmetry
INVARIANT ResultIsWhatHandlersSaid
INVARIANT OutageRetriedSoon
INVARIANT NotRegisteredEstablished
