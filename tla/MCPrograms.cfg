CONSTANTS
  OptionalBits = 4
  DataSize = 7
  Bytes = {7, 255}
  MaxSteps = 6
  ProgramImages <- ImageFiles
  Unassigned = {0, 1}
  Blocks = 2
  BlockDim = 3
  NumBins = 2
  Inputs <- HistogramInputs
  Garbage = {7}
  Buffers = {"b1", "b2"}
  ImageObjects = {"image"}
  Arrays = {"array"}
  MaxCalls = 2
  Setups <- CommandLines
  NumberBits = 4
SPECIFICATION ProgramsSpec
INVARIANTS
  TypesOK
  ResultIsHistogram
  PhasesApart
  WordsAccountedFor
  SuccessMeansDone
  
PROPERTIES
  ActsAsStackMachine
