SPECIFICATION Spec
CONSTANTS
  Program <- MCProgram
  Interleaved <- MCInterleaved
  Arrays <- MCArrays
  MaxSends = 3
INVARIANT MessagesFit ResultsAreRight
PROPERTY EveryTaskEnds
