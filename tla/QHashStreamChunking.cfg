CONSTANTS
  Chunks <- MCChunks
  MaxLen <- MCMaxLen
  MaxWrites <- MCMaxWrites
  PairCounts <- MCPairCounts
  MaxResets <- MCMaxResets
SPECIFICATION Spec
PROPERTY ImplementsQHashAbs
