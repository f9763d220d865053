CONSTANTS
  Segment <- MCSegment
  Calls <- MCCalls
SPECIFICATION FairSpec
INVARIANT TypeOK
INVARIANT HaltIsFinal
INVARIANT VerifiedMeansChecked
INVARIANT ReportComplete
INVARIANT SummariesAccountForReport
PROPERTY AlwaysResolves
PROPERTY ImplementsVerdict
