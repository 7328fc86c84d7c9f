CONSTANTS
  IntWidth <- MCIntWidth
  CallbackSizes <- MCLargeCallbackSizes
  BurstSizes <- MCBurstSizes
SPECIFICATION Spec
INVARIANT BufferHoldsTwoCallbacks
