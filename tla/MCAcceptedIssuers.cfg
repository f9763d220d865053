CONSTANTS
  d1 = d1
  d2 = d2
  a = a
  b = b
  l1 = l1
  l2 = l2
  Lookup = {l1, l2}
  Did = {d1}
  k1 = k1
  k2 = k2
  Entity = {a, b}
  Key = {k1, k2}
  Kid = {1, 2, 3}
  Registry <- MCTwoIssuers
  Configurations <- MCBoth
  Published <- MCOneUrl
  DEFAULT_TTL_MS = 2
  MaxTime = 4
SPECIFICATION Spec
INVARIANT AcceptedIssuersEnforced
