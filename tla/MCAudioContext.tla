--------------------------- MODULE MCAudioContext ---------------------------
(* Model-checking instance of AudioContext: two stream slots, so that an   *)
(* input and an output stream can be open together; channel counts 1 and 2 *)
(* and one sine oscillator, so that a two-channel output stream exceeds    *)
(* sineOscillators; two configurations per behaviour.                      *)
EXTENDS AudioContext

MCSlots == 2
MCMaxSine == 1
MCChannelRequests == {1, 2}
(* The thread and join properties do not depend on channel counts; -1    *)
(* is a request open() must refuse.                                        *)
MCMonoRequests == {-1, 1}
MCActivities == {"Undefined", "TestInput", "TestOutput"}
MCMaxConfigures == 2
=============================================================================
