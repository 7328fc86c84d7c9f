----------------------------- MODULE BufferSize -----------------------------
(***************************************************************************)
(* The buffer size configureForActivityType() asks an output stream for    *)
(* (NativeAudioContext.cpp, lines 342-350): two bursts ("double buffer"),  *)
(* or, when callbackSize exceeds a burst, enough whole bursts for two      *)
(* callbacks.  callbackSize is set over JNI without any check, so the      *)
(* computation is modelled in int32_t arithmetic of IntWidth bits.         *)
(*                                                                         *)
(* Only the variables this computation reads and writes are modelled; the *)
(* rest of open() and start() is module AudioContext.                      *)
(***************************************************************************)
EXTENDS Integers

CONSTANTS
  IntWidth,       \* width of int32_t
  CallbackSizes,  \* values setCallbackSize() may be called with
  BurstSizes      \* frames per burst a backend may report for a stream

IntMin == -(2 ^ (IntWidth - 1))
IntMax == 2 ^ (IntWidth - 1) - 1
Int32 == IntMin .. IntMax

(* The width, the inputs, and the two facts about powers of two the       *)
(* provers do not derive by themselves.                                    *)
ASSUME BufferSizeAssumption ==
  /\ IntWidth \in Nat \ {0, 1}
  /\ 2 ^ (IntWidth - 1) \in Nat \ {0}
  /\ 2 ^ IntWidth = 2 * 2 ^ (IntWidth - 1)
  /\ CallbackSizes \subseteq Int32
  /\ BurstSizes \subseteq 1 .. IntMax

(* Inputs for which no step of the computation leaves int32_t: a burst     *)
(* and two bursts fit, and so does twice a callback plus a burst.          *)
NoOverflow ==
  \A c \in CallbackSizes \cup {0}, f \in BurstSizes :
    /\ 2 * f <= IntMax
    /\ c > f => 2 * c + f <= IntMax

(* Signed overflow is undefined; the build wraps it (two's complement).   *)
Wrap32(x) == ((x - IntMin) % (2 ^ IntWidth)) + IntMin

(* C++ integer division truncates toward zero.                            *)
CDiv(a, b) == IF a >= 0 THEN a \div b ELSE -((-a) \div b)

kDefaultNumBursts == 2

(* numBursts, lines 343-349.                                               *)
NumBurstsFloor(cb, fpb) ==
  IF cb <= fpb THEN kDefaultNumBursts
  ELSE CDiv(Wrap32(cb * kDefaultNumBursts), fpb)

NumBursts(cb, fpb) ==
  IF cb <= fpb THEN kDefaultNumBursts
  ELSE CDiv(Wrap32(Wrap32(Wrap32(cb * kDefaultNumBursts) + fpb) - 1), fpb)

(* The argument of setBufferSizeInFrames(), line 350.                      *)
BufferRequest(cb, fpb) == Wrap32(NumBursts(cb, fpb) * fpb)

NoBurst == 0
NoRequest == [cb |-> 0, fpb |-> NoBurst, frames |-> 0]

VARIABLES
  callbackSize,   \* ActivityContext::callbackSize
  framesPerBurst, \* mFramesPerBurst, NoBurst before the first open()
  request         \* the last buffer-size request: its inputs and its frames

vars == <<callbackSize, framesPerBurst, request>>

Init ==
  /\ callbackSize = 0
  /\ framesPerBurst = NoBurst
  /\ request = NoRequest

(* setCallbackSize() over JNI.                                             *)
SetCallbackSize(c) ==
  /\ callbackSize' = c
  /\ UNCHANGED <<framesPerBurst, request>>

(* A successful open() records the stream's burst size.                    *)
OpenStream(fpb) ==
  /\ framesPerBurst' = fpb
  /\ UNCHANGED <<callbackSize, request>>

(* start() with an output stream open: configureForActivityType() sizes    *)
(* its buffer.                                                             *)
ConfigureBuffer ==
  /\ framesPerBurst # NoBurst
  /\ request' = [cb |-> callbackSize, fpb |-> framesPerBurst,
                 frames |-> BufferRequest(callbackSize, framesPerBurst)]
  /\ UNCHANGED <<callbackSize, framesPerBurst>>

Next ==
  \/ \E c \in CallbackSizes : SetCallbackSize(c)
  \/ \E fpb \in BurstSizes : OpenStream(fpb)
  \/ ConfigureBuffer

Spec == Init /\ [][Next]_vars

-----------------------------------------------------------------------------
TypeOK ==
  /\ callbackSize \in CallbackSizes \cup {0}
  /\ framesPerBurst \in BurstSizes \cup {NoBurst}
  /\ request \in [cb : Int, fpb : BurstSizes \cup {NoBurst}, frames : Int]

(* configureForActivityType() asks for a "double buffer": a whole number  *)
(* of bursts (specification, section 4.2), at least two, large enough for *)
(* two callbacks or blocking writes of callbackSize frames, and the        *)
(* smallest such size.                                                     *)
BufferHoldsTwoCallbacks ==
  request.fpb # NoBurst =>
    LET r == request
        need == IF r.cb > r.fpb THEN 2 * r.cb ELSE 2 * r.fpb
    IN  /\ r.frames % r.fpb = 0
        /\ r.frames >= need
        /\ r.frames - r.fpb < need
=============================================================================
