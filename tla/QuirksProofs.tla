---------------------------- MODULE QuirksProofs ----------------------------
(***************************************************************************)
(* Proofs about QuirksManager::isConversionNeeded (module Quirks), for     *)
(* every set of sample rates, channel counts and SDK versions.             *)
(***************************************************************************)
EXTENDS Quirks, TLAPS

(* The decision taken on a builder b at SDK version sdk.                   *)
Decided(b, v) == ChildOf(b, b, v)

(* Inductive strengthening: before the decision the child is a copy of the *)
(* builder; after it, the child and the flag are what isConversionNeeded   *)
(* computed from that copy.                                                *)
IInv ==
  /\ TypeOK
  /\ ~decided => child = builder
  /\ decided => /\ child = Decided(builder, sdk)
                /\ needed = ConversionNeeded(builder, sdk)

(* A builder is the record of its fields.                                *)
LEMMA BuilderRecord ==
  ASSUME NEW b \in Builders
  PROVE  b = [ direction |-> b.direction, format |-> b.format,
               channelCount |-> b.channelCount, sampleRate |-> b.sampleRate,
               performanceMode |-> b.performanceMode,
               rateConversion |-> b.rateConversion,
               formatConversionAllowed |-> b.formatConversionAllowed,
               channelConversionAllowed |-> b.channelConversionAllowed,
               willUseAAudio |-> b.willUseAAudio ]
BY DEF Builders

(* Each workaround changes the field it tests, so the child differs from  *)
(* the builder exactly when some workaround applied.                       *)
LEMMA ChangedIffNeeded ==
  ASSUME NEW b \in Builders, NEW v \in SdkVersions
  PROVE  ConversionNeeded(b, v) <=> Decided(b, v) # b
<1>1. RateRule(b) => Decided(b, v).sampleRate # b.sampleRate
  BY DEF Decided, ChildOf, RateRule, Unspecified
<1>2. FormatRule(b, v) => Decided(b, v).format # b.format
  BY DEF Decided, ChildOf, FormatRule
<1>3. StereoInputRule(b, v) => Decided(b, v).channelCount # b.channelCount
  BY DEF Decided, ChildOf, StereoInputRule
<1>4. MonoOutputRule(b, v) => Decided(b, v).channelCount # b.channelCount
  BY DEF Decided, ChildOf, MonoOutputRule, StereoInputRule
<1>5. ~ConversionNeeded(b, v) => Decided(b, v) = b
  BY BuilderRecord DEF ConversionNeeded, Decided, ChildOf
<1>. QED  BY <1>1, <1>2, <1>3, <1>4, <1>5 DEF ConversionNeeded

(* The child configuration triggers no workaround of its own.              *)
LEMMA DecidedIsFixpoint ==
  ASSUME NEW b \in Builders, NEW v \in SdkVersions
  PROVE  /\ ~ConversionNeeded(Decided(b, v), v)
         /\ ChildOf(Decided(b, v), Decided(b, v), v) = Decided(b, v)
<1> DEFINE c == Decided(b, v)
<1>1. ~RateRule(c)
  BY DEF Decided, ChildOf, RateRule, Unspecified
<1>2. ~FormatRule(c, v)
  BY DEF Decided, ChildOf, FormatRule
<1>3. ~StereoInputRule(c, v)
  BY DEF Decided, ChildOf, StereoInputRule, MonoOutputRule, Unspecified
<1>4. ~MonoOutputRule(c, v)
  BY DEF Decided, ChildOf, StereoInputRule, MonoOutputRule, Unspecified
<1>5. ~ConversionNeeded(c, v)
  BY <1>1, <1>2, <1>3, <1>4 DEF ConversionNeeded
<1>7. ChildOf(c, c, v) = c
  BY <1>1, <1>2, <1>3, <1>4 DEF ChildOf, Decided
<1>. QED  BY <1>5, <1>7

(* The decided child is a member of ChildBuilders.                          *)
LEMMA DecidedType ==
  ASSUME NEW b \in Builders, NEW v \in SdkVersions
  PROVE  Decided(b, v) \in ChildBuilders
<1> DEFINE c == Decided(b, v)
<1>1. c.channelCount \in ChannelCounts \cup {1, 2}
  BY DEF Decided, ChildOf, Builders
<1>2. c.sampleRate \in SampleRates \cup {Unspecified}
  BY DEF Decided, ChildOf, Builders
<1>3. c.format \in Formats
  BY DEF Decided, ChildOf, Builders, Formats
<1>. QED
  BY <1>1, <1>2, <1>3 DEF Decided, ChildOf, Builders, ChildBuilders

LEMMA BuildersAreChildBuilders ==
  ASSUME NEW b \in Builders
  PROVE  b \in ChildBuilders
BY BuilderRecord DEF Builders, ChildBuilders

(* The strengthening holds initially and is kept by every step.            *)
LEMMA IInvInductive == Spec => []IInv
<1>1. Init => IInv
  BY BuildersAreChildBuilders DEF Init, IInv, TypeOK
<1>2. IInv /\ [Next]_vars => IInv'
  <2> SUFFICES ASSUME IInv, [Next]_vars PROVE IInv'
    OBVIOUS
  <2>1. CASE IsConversionNeeded
    <3>1. child = builder /\ builder \in Builders /\ sdk \in SdkVersions
      BY <2>1 DEF IsConversionNeeded, IInv, TypeOK
    <3>2. child' = Decided(builder, sdk)
      BY <2>1, <3>1 DEF IsConversionNeeded, Decided
    <3>3. child' \in ChildBuilders
      BY <3>1, <3>2, DecidedType
    <3>4. /\ builder' = builder /\ sdk' = sdk /\ decided'
          /\ needed' = ConversionNeeded(builder, sdk)
      BY <2>1 DEF IsConversionNeeded
    <3>5. needed' \in BOOLEAN
      BY <3>4 DEF ConversionNeeded
    <3>. QED
      BY <3>1, <3>2, <3>3, <3>4, <3>5 DEF IInv, TypeOK
  <2>2. ASSUME NEW b \in Builders, OpenStream(b) PROVE IInv'
    BY <2>2, BuildersAreChildBuilders DEF OpenStream, IInv, TypeOK
  <2>3. CASE UNCHANGED vars
    BY <2>3 DEF vars, IInv, TypeOK, Decided
  <2>. QED  BY <2>1, <2>2, <2>3 DEF Next
<1>. QED  BY <1>1, <1>2, PTL DEF Spec

(* isConversionNeeded returns TRUE exactly when it changed the child        *)
(* builder, for every input space (property ConversionExactlyWhenChanged). *)
THEOREM ConversionExactlyWhenChangedHolds == Spec => []ConversionExactlyWhenChanged
<1>1. IInv => ConversionExactlyWhenChanged
  BY ChangedIffNeeded DEF IInv, TypeOK, ConversionExactlyWhenChanged
<1>. QED  BY <1>1, IInvInductive, PTL

(* The child builder that opens the native stream asks for no further      *)
(* conversion, for every input space (property ChildIsFixpoint).           *)
THEOREM ChildIsFixpointHolds == Spec => []ChildIsFixpoint
<1>1. IInv => ChildIsFixpoint
  BY DecidedIsFixpoint DEF IInv, TypeOK, ChildIsFixpoint
<1>. QED  BY <1>1, IInvInductive, PTL

(* The type invariant of the quirks model.                                  *)
THEOREM TypeCorrect == Spec => []TypeOK
<1>1. IInv => TypeOK
  BY DEF IInv
<1>. QED  BY <1>1, IInvInductive, PTL
=============================================================================
