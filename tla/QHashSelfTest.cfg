CONSTANTS
  NFixtures <- MCNFixtures
SPECIFICATION Spec

INVARIANT NameOnlyIfVerified
CHECK_DEADLOCK FALSE
