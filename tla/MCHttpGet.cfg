CONSTANTS
  g1 = g1
  g2 = g2
  outside = outside
  inside = inside
  Request = {g1, g2}
  Url = {outside, inside}
  Networks <- MCNetworks
  MAX_REDIRECTS = 2
  maxBytes = 2
  MaxChunk = 2
SPECIFICATION HttpFairSpec
INVARIANT HttpTypeOK
INVARIANT HopsWithinPolicy
INVARIANT DeliveredWithinPolicy
PROPERTY GetSettles
