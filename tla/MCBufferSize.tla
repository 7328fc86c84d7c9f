---------------------------- MODULE MCBufferSize ----------------------------
(* BufferSize at an 8-bit width, so that the same overflow boundary as at  *)
(* 32 bits is reached with small numbers: burst sizes 1, 3 and 4, and      *)
(* callback sizes below, at and above a burst, two bursts and the largest  *)
(* size whose doubled value still fits.                                    *)
EXTENDS BufferSize

MCIntWidth == 8
MCBurstSizes == {1, 3, 4}
MCCallbackSizes == {-1, 0, 1, 2, 3, 4, 5, 7, 8, 9, 13, 61}
(* Sizes whose doubled value no longer fits in the width.                  *)
MCLargeCallbackSizes == MCCallbackSizes \cup {62, 64, 100}
=============================================================================
