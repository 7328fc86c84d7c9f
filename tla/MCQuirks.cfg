CONSTANTS
  SampleRates <- MCSampleRates
  ChannelCounts <- MCChannelCounts
  SdkVersions <- MCSdkVersions
SPECIFICATION Spec
INVARIANT ChildIsFixpoint
INVARIANT ConversionExactlyWhenChanged
