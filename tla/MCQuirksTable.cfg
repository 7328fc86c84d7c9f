CONSTANTS
  SampleRates <- MCSampleRates
  ChannelCounts <- MCChannelCounts
  SdkVersions <- MCSdkVersions
SPECIFICATION Spec
INVARIANT UnspecifiedRateNoConversion
