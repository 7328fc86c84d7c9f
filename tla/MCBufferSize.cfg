CONSTANTS
  IntWidth <- MCIntWidth
  CallbackSizes <- MCCallbackSizes
  BurstSizes <- MCBurstSizes
SPECIFICATION Spec
INVARIANT BufferHoldsTwoCallbacks
