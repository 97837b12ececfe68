CONSTANTS
  MaxLen <- MCMaxLen
  Width <- MCWidth
  MixInputs <- MCMixInputs
SPECIFICATION Spec
INVARIANT PaddingIsMD
