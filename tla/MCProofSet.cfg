CONSTANTS
  k1 = k1
  k2 = k2
  Context = {k1, k2}
  Plans <- MCPlans
SPECIFICATION FairSpec
INVARIANT TypeOK
INVARIANT SignatureSound
INVARIANT UncheckedProofsReported
INVARIANT VerdictOfThisRun
PROPERTY ChecksSettle
