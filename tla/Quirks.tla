------------------------------- MODULE Quirks -------------------------------
(***************************************************************************)
(* The device-quirk decision of QuirksManager::isConversionNeeded          *)
(* (QuirksManager.cpp).  Given the builder the application filled in, the *)
(* child builder (a copy that will open the native stream) and the SDK    *)
(* version, it adjusts the child and says whether a conversion stage must *)
(* sit between the native stream and the application.                     *)
(*                                                                         *)
(* The decision is a pure operator; the state machine below only applies  *)
(* it once per openStream() call so that TLC can check it over every      *)
(* builder in the bounded input space.                                     *)
(***************************************************************************)
EXTENDS Integers

CONSTANTS
  SampleRates,    \* sample rates a builder may ask for (0 is oboe::Unspecified)
  ChannelCounts,  \* channel counts a builder may ask for (0 is oboe::Unspecified)
  SdkVersions     \* values getSdkVersion() may return

ASSUME QuirksAssumption ==
  /\ SampleRates \subseteq Nat
  /\ ChannelCounts \subseteq Nat
  /\ SdkVersions \subseteq Int

Unspecified == 0
ApiO == 26   \* __ANDROID_API_O__
ApiP == 28   \* __ANDROID_API_P__

Formats == {"Unspecified", "I16", "Float"}
PerformanceModes == {"None", "PowerSaving", "LowLatency"}
(* SampleRateConversionQuality: only None is told apart from the others.  *)
ConversionQualities == {"None", "Medium"}

(* The AudioStreamBuilder fields isConversionNeeded reads or writes.       *)
Builders ==
  [ direction : {"Input", "Output"},
    format : Formats,
    channelCount : ChannelCounts,
    sampleRate : SampleRates,
    performanceMode : PerformanceModes,
    rateConversion : ConversionQualities,
    formatConversionAllowed : BOOLEAN,
    channelConversionAllowed : BOOLEAN,
    willUseAAudio : BOOLEAN ]

(* The child builder may hold the values the workarounds write into it.  *)
ChildBuilders ==
  [ direction : {"Input", "Output"},
    format : Formats,
    channelCount : ChannelCounts \cup {1, 2},
    sampleRate : SampleRates \cup {Unspecified},
    performanceMode : PerformanceModes,
    rateConversion : ConversionQualities,
    formatConversionAllowed : BOOLEAN,
    channelConversionAllowed : BOOLEAN,
    willUseAAudio : BOOLEAN ]

(* Sample rate: a specified rate under low latency is left to the native  *)
(* API and converted.                                                      *)
RateRule(b) ==
  /\ b.sampleRate # Unspecified
  /\ b.rateConversion # "None"
  /\ b.performanceMode = "LowLatency"

(* Data format: OpenSL ES and AAudio before P have no FAST float capture.  *)
FormatRule(b, sdk) ==
  /\ b.format # "Unspecified"
  /\ b.formatConversionAllowed
  /\ b.direction = "Input"
  /\ (~b.willUseAAudio \/ sdk < ApiP)
  /\ b.performanceMode = "LowLatency"
  /\ b.format = "Float"

(* Channel count, stereo capture on OpenSL ES in O (b/66967812).           *)
StereoInputRule(b, sdk) ==
  /\ b.channelCount # Unspecified /\ b.channelConversionAllowed
  /\ b.channelCount = 2
  /\ b.direction = "Input"
  /\ b.performanceMode = "LowLatency"
  /\ ~b.willUseAAudio /\ sdk = ApiO

(* Channel count, mono output on AAudio before P (no MMAP mono in 8.1).    *)
(* Only tried when the stereo rule does not apply (else if).              *)
MonoOutputRule(b, sdk) ==
  /\ b.channelCount # Unspecified /\ b.channelConversionAllowed
  /\ ~StereoInputRule(b, sdk)
  /\ b.channelCount = 1
  /\ b.direction # "Input"
  /\ b.performanceMode = "LowLatency"
  /\ b.willUseAAudio /\ sdk < ApiP

(* Mutant: the two channel workarounds with their results swapped.       *)
ChildOfSwappedChannels(b, c, sdk) ==
  [ direction |-> c.direction,
    format |-> IF FormatRule(b, sdk) THEN "I16" ELSE c.format,
    channelCount |-> IF StereoInputRule(b, sdk) THEN 2
                     ELSE IF MonoOutputRule(b, sdk) THEN 1
                     ELSE c.channelCount,
    sampleRate |-> IF RateRule(b) THEN Unspecified ELSE c.sampleRate,
    performanceMode |-> c.performanceMode,
    rateConversion |-> c.rateConversion,
    formatConversionAllowed |-> c.formatConversionAllowed,
    channelConversionAllowed |-> c.channelConversionAllowed,
    willUseAAudio |-> c.willUseAAudio ]

(* isConversionNeeded(builder, childBuilder): the child builder after the *)
(* call (each setter writes one field of the copy c), and the returned     *)
(* flag.                                                                    *)
ChildOf(b, c, sdk) ==
  [ direction |-> c.direction,
    format |-> IF FormatRule(b, sdk) THEN "I16" ELSE c.format,
    channelCount |-> IF StereoInputRule(b, sdk) THEN 1
                     ELSE IF MonoOutputRule(b, sdk) THEN 2
                     ELSE c.channelCount,
    sampleRate |-> IF RateRule(b) THEN Unspecified ELSE c.sampleRate,
    performanceMode |-> c.performanceMode,
    rateConversion |-> c.rateConversion,
    formatConversionAllowed |-> c.formatConversionAllowed,
    channelConversionAllowed |-> c.channelConversionAllowed,
    willUseAAudio |-> c.willUseAAudio ]

(* Mutant: the mono-output branch that forgets conversionNeeded = true.   *)
ConversionNeededNoMono(b, sdk) ==
  \/ RateRule(b)
  \/ FormatRule(b, sdk)
  \/ StereoInputRule(b, sdk)

ConversionNeeded(b, sdk) ==
  \/ RateRule(b)
  \/ FormatRule(b, sdk)
  \/ StereoInputRule(b, sdk)
  \/ MonoOutputRule(b, sdk)

-----------------------------------------------------------------------------
VARIABLES
  builder,   \* the application's AudioStreamBuilder
  child,     \* childBuilder
  sdk,       \* getSdkVersion()
  needed,    \* the value isConversionNeeded returned
  decided    \* isConversionNeeded has run for this openStream() call

vars == <<builder, child, sdk, needed, decided>>

(* openStream(): the child builder starts as a copy of the builder.       *)
Init ==
  /\ builder \in Builders
  /\ sdk \in SdkVersions
  /\ child = builder
  /\ needed = FALSE
  /\ decided = FALSE

IsConversionNeeded ==
  /\ ~decided
  /\ child' = ChildOf(builder, child, sdk)
  /\ needed' = ConversionNeeded(builder, sdk)
  /\ decided' = TRUE
  /\ UNCHANGED <<builder, sdk>>

(* The next openStream() call, with any builder.                           *)
OpenStream(b) ==
  /\ decided
  /\ builder' = b
  /\ child' = b
  /\ needed' = FALSE
  /\ decided' = FALSE
  /\ UNCHANGED sdk

Next == IsConversionNeeded \/ \E b \in Builders : OpenStream(b)

Spec == Init /\ [][Next]_vars

-----------------------------------------------------------------------------
TypeOK ==
  /\ builder \in Builders
  /\ child \in ChildBuilders
  /\ sdk \in SdkVersions
  /\ needed \in BOOLEAN
  /\ decided \in BOOLEAN

(* The flag the stream abstraction uses to insert a converter is raised   *)
(* exactly when the child stream is opened with a configuration other     *)
(* than the one the application asked for: no converter is inserted for   *)
(* nothing, and no adjusted child is opened without one.                   *)
ConversionExactlyWhenChanged == decided => (needed <=> child # builder)

(* The child configuration asks for no further conversion: applied to the *)
(* child, isConversionNeeded changes nothing, so opening the child stream *)
(* cannot start another round of conversion.                               *)
ChildIsFixpoint ==
  decided => /\ ~ConversionNeeded(child, sdk)
             /\ ChildOf(child, child, sdk) = child

(* The decision table of the specification: a request that leaves the     *)
(* sample rate unspecified needs no conversion, whatever the other flags.  *)
UnspecifiedRateNoConversion ==
  decided /\ builder.sampleRate = Unspecified => ~needed
=============================================================================
