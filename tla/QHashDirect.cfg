CONSTANTS
  MaxLen <- MCMaxLen
  Width <- MCWidth
  MixInputs <- MCMixInputs
SPECIFICATION Spec
INVARIANT PaddingDecodable
INVARIANT MixInvertible
