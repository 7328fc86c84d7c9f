CONSTANTS
  MaxStreams <- MCSlots
  MaxSineOscillators <- MCMaxSine
  ChannelRequests <- MCChannelRequests
  ActivityTypes <- MCActivities
  MaxConfigures <- MCMaxConfigures
  NoStream = NoStream
SPECIFICATION Spec
INVARIANT BufferFitsStream
