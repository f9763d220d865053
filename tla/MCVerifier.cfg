CONSTANTS
  Segment = {"cryptographic", "trust", "recognition", "semantic", "applies", "unknown"}
  Call <- MCCall
  Config <- MCConfig
  Name = {"core", "recognition", "proof", "registry", "status", "openbadges", "custom", "a", "b", "c"}
SPECIFICATION Spec
INVARIANT TypeOK
INVARIANT VerifiedMeansProven
INVARIANT OptionsReachCredentials
