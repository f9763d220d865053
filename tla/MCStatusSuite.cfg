CONSTANTS
  k1 = k1
  u1 = u1
  u2 = u2
  i1 = i1
  i2 = i2
  none = none
  Context = {k1}
  Url = {u1, u2}
  Issuer = {i1, i2}
  NoIssuer = none
  Plan <- MCPlan
  List <- MCList
SPECIFICATION FairSpec
INVARIANT TypeOK
INVARIANT StatusSound
INVARIANT MismatchReported
INVARIANT ReadsProvenLists
PROPERTY StatusSettles
