CONSTANTS
  MaxStreams <- MCSlots
  MaxSineOscillators <- MCMaxSine
  ChannelRequests <- MCMonoRequests
  ActivityTypes <- MCActivities
  MaxConfigures <- MCMaxConfigures
  NoStream = NoStream
SPECIFICATION Spec
INVARIANT TypeOK
INVARIANT ThreadResourcesLive
PROPERTY JoinCompletes
