CONSTANTS
  NFixtures <- MCNFixtures
SPECIFICATION Spec
INVARIANT MissingFixturesTolerated
CHECK_DEADLOCK FALSE
