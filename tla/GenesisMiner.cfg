CONSTANTS
  NonceSpace <- MCNonceSpace
  Hashes <- MCHashes
  nB <- MCnB
  PowLimit <- MCPowLimit
SPECIFICATION Spec
PROPERTY Termination
\* mineNow returns to its caller once it leaves the loop.
CHECK_DEADLOCK FALSE
