--------------------------- MODULE BufferSizeProofs ---------------------------
(***************************************************************************)
(* The buffer size configureForActivityType() requests follows the sizing  *)
(* rule for every int32_t width and every set of inputs that do not        *)
(* overflow it.                                                            *)
(***************************************************************************)
EXTENDS BufferSize, TLAPS

USE BufferSizeAssumption

(* The range of int32_t in terms of its half-range H.                     *)
LEMMA RangeFacts ==
  /\ 2 ^ (IntWidth - 1) \in Nat \ {0}
  /\ IntMin = -(2 ^ (IntWidth - 1))
  /\ IntMax = 2 ^ (IntWidth - 1) - 1
  /\ 2 ^ IntWidth = 2 * 2 ^ (IntWidth - 1)
BY DEF IntMin, IntMax

(* A remainder by a larger modulus is the dividend itself.                 *)
LEMMA ModSmall ==
  ASSUME NEW y \in Nat, NEW m \in Nat \ {0}, y < m
  PROVE  y % m = y
OBVIOUS

(* Within int32_t the wrap changes nothing.                                *)
LEMMA WrapId ==
  ASSUME NEW x \in Int32
  PROVE  Wrap32(x) = x
<1> DEFINE H == 2 ^ (IntWidth - 1)
<1>1. H \in Nat \ {0} /\ IntMin = -H /\ IntMax = H - 1 /\ 2 ^ IntWidth = 2 * H
  BY RangeFacts
<1>2. x \in Int /\ -H <= x /\ x <= H - 1
  BY <1>1 DEF Int32
<1>3. x - IntMin \in Nat /\ x - IntMin < 2 * H
  BY <1>1, <1>2
<1>4. (x - IntMin) % (2 * H) = x - IntMin
  BY <1>1, <1>3, ModSmall
<1>. QED  BY <1>1, <1>2, <1>4 DEF Wrap32

(* The wrap always yields an int32_t.                                      *)
LEMMA WrapType ==
  ASSUME NEW x \in Int
  PROVE  Wrap32(x) \in Int32
<1> DEFINE H == 2 ^ (IntWidth - 1)
<1>1. H \in Nat \ {0} /\ IntMin = -H /\ IntMax = H - 1 /\ 2 ^ IntWidth = 2 * H
  BY RangeFacts
<1>2. (x - IntMin) % (2 * H) \in 0 .. 2 * H - 1
  BY <1>1
<1>. QED  BY <1>1, <1>2 DEF Wrap32, Int32

(* Integer division by a positive divisor brackets the dividend.           *)
LEMMA DivBracket ==
  ASSUME NEW a \in Nat, NEW b \in Nat \ {0}
  PROVE  /\ (a \div b) \in Nat
         /\ (a \div b) * b <= a
         /\ a < (a \div b) * b + b
         /\ ((a \div b) * b) % b = 0
OBVIOUS

(* One request: the sizing rule holds when nothing overflows.              *)
LEMMA RequestRule ==
  ASSUME NoOverflow, NEW cb \in CallbackSizes \cup {0}, NEW fpb \in BurstSizes
  PROVE  LET r == BufferRequest(cb, fpb)
             need == IF cb > fpb THEN 2 * cb ELSE 2 * fpb
         IN  /\ r % fpb = 0
             /\ r >= need
             /\ r - fpb < need
<1>1. fpb \in 1 .. IntMax /\ cb \in Int /\ 2 * fpb <= IntMax
  BY DEF NoOverflow, Int32
<1>2. CASE cb <= fpb
  <2>1. 2 * fpb \in Int32
    BY <1>1 DEF Int32, IntMin, IntMax
  <2>2. BufferRequest(cb, fpb) = 2 * fpb
    BY <1>2, <2>1, WrapId DEF BufferRequest, NumBursts, kDefaultNumBursts
  <2>. QED  BY <1>1, <1>2, <2>2
<1>3. CASE cb > fpb
  <2> DEFINE a == 2 * cb + fpb - 1
             q == a \div fpb
  <2>1. 2 * cb + fpb <= IntMax
    BY <1>3 DEF NoOverflow
  <2>2. cb * 2 \in Int32 /\ cb * 2 + fpb \in Int32 /\ a \in Int32 /\ a \in Nat
    BY <1>1, <1>3, <2>1 DEF Int32, IntMin, IntMax
  <2>3. Wrap32(cb * 2) = cb * 2 /\ Wrap32(cb * 2 + fpb) = cb * 2 + fpb
         /\ Wrap32(a) = a
    BY <2>2, WrapId
  <2>4. Wrap32(cb * kDefaultNumBursts) = cb * 2
    BY <2>3 DEF kDefaultNumBursts
  <2>5. Wrap32(Wrap32(cb * kDefaultNumBursts) + fpb) = cb * 2 + fpb
    BY <2>3, <2>4
  <2>6. Wrap32(Wrap32(cb * kDefaultNumBursts) + fpb) - 1 = a
    BY <1>1, <2>5 DEF a
  <2>7. Wrap32(Wrap32(Wrap32(cb * kDefaultNumBursts) + fpb) - 1) = a
    BY <1>1, <2>6, <2>3
  <2>8. NumBursts(cb, fpb)
          = CDiv(Wrap32(Wrap32(Wrap32(cb * kDefaultNumBursts) + fpb) - 1), fpb)
    BY <1>1, <1>3 DEF NumBursts
  <2>9. NumBursts(cb, fpb) = q
    BY <2>2, <2>7, <2>8 DEF CDiv, q
  <2>10. fpb \in Nat \ {0}
    BY <1>1
  <2>11. (a \div fpb) \in Nat /\ (a \div fpb) * fpb <= a
        /\ a < (a \div fpb) * fpb + fpb /\ ((a \div fpb) * fpb) % fpb = 0
    BY <2>2, <2>10, DivBracket
  <2>12. q \in Nat /\ q * fpb <= a /\ a < q * fpb + fpb /\ (q * fpb) % fpb = 0
    BY <2>11 DEF q
  <2>13. q * fpb \in Int32
    BY <1>1, <2>2, <2>12, RangeFacts DEF Int32
  <2>14. BufferRequest(cb, fpb) = q * fpb
    BY <2>9, <2>13, WrapId DEF BufferRequest
  <2>. QED  BY <1>1, <1>3, <2>12, <2>14 DEF a
<1>. QED  BY <1>1, <1>2, <1>3

(* Inductive strengthening: the last request is the computation applied   *)
(* to the inputs it recorded.                                              *)
RequestInv ==
  /\ TypeOK
  /\ request.fpb # NoBurst =>
       /\ request.cb \in CallbackSizes \cup {0}
       /\ request.fpb \in BurstSizes
       /\ request.frames = BufferRequest(request.cb, request.fpb)

LEMMA RequestInvStep ==
  ASSUME RequestInv, [Next]_vars
  PROVE  RequestInv'
<1>1. ASSUME NEW c \in CallbackSizes, SetCallbackSize(c) PROVE RequestInv'
  BY <1>1 DEF SetCallbackSize, RequestInv, TypeOK
<1>2. ASSUME NEW f \in BurstSizes, OpenStream(f) PROVE RequestInv'
  BY <1>2 DEF OpenStream, RequestInv, TypeOK
<1>3. CASE ConfigureBuffer
  <2>1. framesPerBurst \in BurstSizes /\ callbackSize \in CallbackSizes \cup {0}
    BY <1>3 DEF ConfigureBuffer, RequestInv, TypeOK
  <2>2. NumBursts(callbackSize, framesPerBurst) \in Int
    BY <2>1, WrapType, RangeFacts, BufferSizeAssumption
    DEF NumBursts, CDiv, Int32, kDefaultNumBursts
  <2>3. BufferRequest(callbackSize, framesPerBurst) \in Int
    BY <2>1, <2>2, WrapType DEF BufferRequest, Int32
  <2>4. callbackSize \in Int
    BY <2>1, RangeFacts DEF Int32
  <2>. QED  BY <1>3, <2>1, <2>3, <2>4 DEF ConfigureBuffer, RequestInv, TypeOK,
                                         NoBurst
<1>4. CASE UNCHANGED vars
  BY <1>4 DEF vars, RequestInv, TypeOK
<1>. QED  BY <1>1, <1>2, <1>3, <1>4 DEF Next

(* When no input overflows int32_t, every buffer size                      *)
(* configureForActivityType() requests is the smallest whole number of     *)
(* bursts, at least two, that holds two callbacks (property               *)
(* BufferHoldsTwoCallbacks).                                               *)
THEOREM BufferHoldsTwoCallbacksHolds ==
  ASSUME NoOverflow
  PROVE  Spec => []BufferHoldsTwoCallbacks
<1>1. Init => RequestInv
  BY DEF Init, RequestInv, TypeOK, NoRequest, NoBurst
<1>2. RequestInv => BufferHoldsTwoCallbacks
  <2> SUFFICES ASSUME RequestInv, request.fpb # NoBurst
               PROVE  BufferHoldsTwoCallbacks
    BY DEF BufferHoldsTwoCallbacks
  <2>1. request.cb \in CallbackSizes \cup {0} /\ request.fpb \in BurstSizes
        /\ request.frames = BufferRequest(request.cb, request.fpb)
    BY DEF RequestInv
  <2>2. LET r == BufferRequest(request.cb, request.fpb)
            need == IF request.cb > request.fpb THEN 2 * request.cb
                                                ELSE 2 * request.fpb
        IN  /\ r % request.fpb = 0
            /\ r >= need
            /\ r - request.fpb < need
    BY <2>1, RequestRule
  <2>. QED  BY <2>1, <2>2 DEF BufferHoldsTwoCallbacks
<1>3. RequestInv /\ [Next]_vars => RequestInv'
  BY RequestInvStep
<1>. QED  BY <1>1, <1>2, <1>3, PTL DEF Spec
-----------------------------------------------------------------------------
(* At the real width of int32_t, setCallbackSize(1 << 30), a value jint    *)
(* holds, and a burst of 192 frames make configureForActivityType() ask   *)
(* setBufferSizeInFrames() for a negative size: callbackSize *             *)
(* kDefaultNumBursts wraps to INT32_MIN (the overflow run shows the same   *)
(* at 8 bits).                                                             *)
THEOREM NegativeRequestAt32 ==
  ASSUME IntWidth = 32
  PROVE  /\ 2 ^ 30 \in Int32
         /\ BufferRequest(2 ^ 30, 192) = -2147483328
<1> DEFINE H == 2 ^ (IntWidth - 1)
           M == 2 ^ IntWidth
<1>1. 2 ^ 30 = 1073741824 /\ 2 ^ 31 = 2147483648 /\ 2 ^ 32 = 4294967296
  BY SMT
<1>2. IntWidth - 1 = 31
  BY SMT
<1>3. H = 2 ^ 31 /\ M = 2 ^ 32
  BY <1>2, Zenon DEF H, M
<1>4. IntMin = -H /\ IntMax = H - 1 /\ Int32 = -H .. H - 1
      /\ \A x : Wrap32(x) = ((x - IntMin) % M) + IntMin
  BY Zenon DEF IntMin, IntMax, Int32, Wrap32, H, M
<1>5. H = 2147483648 /\ M = 4294967296
  BY <1>1, <1>3, SMT
<1>6. ASSUME NEW x \in Int
      PROVE  Wrap32(x) = ((x + 2147483648) % 4294967296) - 2147483648
  <2>1. Wrap32(x) = ((x - IntMin) % M) + IntMin /\ IntMin = -H
    BY <1>4
  <2>. QED  BY <1>5, <2>1, SMT
<1>7. 2 ^ 30 \in Int32
  <2>1. 2 ^ 30 \in -H .. H - 1
    BY <1>1, <1>5, SMT
  <2>. QED  BY <1>4, <2>1, Zenon
<1>8. Wrap32(2 ^ 30 * kDefaultNumBursts) = -2147483648
  BY <1>1, <1>6, SMT DEF kDefaultNumBursts
<1>9. Wrap32(Wrap32(2 ^ 30 * kDefaultNumBursts) + 192) = -2147483456
  BY <1>6, <1>8, SMT
<1>10. Wrap32(Wrap32(Wrap32(2 ^ 30 * kDefaultNumBursts) + 192) - 1)
         = -2147483457
  BY <1>6, <1>9, SMT
<1>11. CDiv(-2147483457, 192) = -11184809
  BY SMT DEF CDiv
<1>12. NumBursts(2 ^ 30, 192) = -11184809
  BY <1>1, <1>10, <1>11, SMT DEF NumBursts
<1>13. BufferRequest(2 ^ 30, 192) = -2147483328
  BY <1>6, <1>12, SMT DEF BufferRequest
<1>. QED  BY <1>7, <1>13
=============================================================================
