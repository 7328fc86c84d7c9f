---------------------------- MODULE MCOscillator ----------------------------
(* Model-checking instance of Oscillator: sample rates dividing 12 phase   *)
(* units, so that increments of 1 to 6 units occur, and frequencies up to  *)
(* the Nyquist rate of the largest rate in both directions.                *)
EXTENDS Oscillator

MCSampleRates == {2, 3, 4, 6, 12}
MCFrequencies == -6 .. 6
MCUnit == 12
=============================================================================
