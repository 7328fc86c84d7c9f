CONSTANTS
  SampleRates <- MCSampleRates
  Frequencies <- MCFrequencies
  Unit <- MCUnit
SPECIFICATION Spec
INVARIANT PhaseInRange
