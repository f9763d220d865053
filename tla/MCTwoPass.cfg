CONSTANTS
  Segment <- MCSegment
  Calls <- MCCalls
  Worlds <- MCWorlds
SPECIFICATION TSpec
INVARIANTS
  TwoPassVerdict
