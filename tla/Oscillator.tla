----------------------------- MODULE Oscillator -----------------------------
(***************************************************************************)
(* The phase accumulator of OscillatorBase (OscillatorBase.h), which every *)
(* tone generator of OboeTester is built on.  The phase is a float in      *)
(* [-1.0, +1.0); here it is an exact rational, phase / Unit, so that the   *)
(* phase increment frequency / sampleRate is phase units                   *)
(* frequency * (Unit \div sampleRate) when sampleRate divides Unit.  Float *)
(* rounding is not modelled.                                               *)
(***************************************************************************)
EXTENDS Integers

CONSTANTS
  SampleRates,   \* values setSampleRate() may be called with
  Frequencies,   \* values the frequency port may carry, in Hz
  Unit           \* phase units per 1.0 of phase

ASSUME OscillatorAssumption ==
  /\ SampleRates \subseteq Nat \ {0}
  /\ Frequencies \subseteq Int
  /\ Unit \in Nat \ {0}
  /\ \A sr \in SampleRates : Unit % sr = 0

AbsValue(x) == IF x < 0 THEN -x ELSE x

VARIABLES
  phase,       \* mPhase * Unit
  sampleRate,  \* mSampleRate
  scale        \* mFrequencyToPhaseIncrement * Unit

vars == <<phase, sampleRate, scale>>

(* The members' initialisers: 0.0 for all three.                          *)
Init ==
  /\ phase = 0
  /\ sampleRate = 0
  /\ scale = 0

(* setSampleRate(sr): the scaler 1 / sampleRate; the phase is kept.       *)
SetSampleRate(sr) ==
  /\ sampleRate' = sr
  /\ scale' = Unit \div sr
  /\ UNCHANGED phase

(* The phase after adding an increment and wrapping once into [-1, +1).   *)
Wrap(p) ==
  IF p >= Unit THEN p - 2 * Unit
  ELSE IF p < -Unit THEN p + 2 * Unit
  ELSE p

(* Mutant: the upper wrap test with > in place of >=.                     *)
IncrementPhaseLateWrap(f) ==
  /\ 2 * AbsValue(f) <= sampleRate
  /\ phase' = LET p == phase + f * scale IN
              IF p > Unit THEN p - 2 * Unit
              ELSE IF p < -Unit THEN p + 2 * Unit
              ELSE p
  /\ UNCHANGED <<sampleRate, scale>>

(* incrementPhase(frequency), called once per frame by onProcess().  The  *)
(* caller keeps the frequency within the Nyquist rate, as the comment of  *)
(* incrementPhase asks.                                                    *)
IncrementPhase(f) ==
  /\ 2 * AbsValue(f) <= sampleRate
  /\ phase' = Wrap(phase + f * scale)
  /\ UNCHANGED <<sampleRate, scale>>

Next ==
  \/ \E sr \in SampleRates : SetSampleRate(sr)
  \/ \E f \in Frequencies : IncrementPhase(f)

Spec == Init /\ [][Next]_vars

-----------------------------------------------------------------------------
TypeOK ==
  /\ phase \in Int
  /\ sampleRate \in SampleRates \cup {0}
  /\ scale \in Nat

(* The phase stays in [-1.0, +1.0), the range the waveforms of the        *)
(* subclasses are written for, across any number of frames, frequency     *)
(* changes within the Nyquist rate and sample-rate changes.               *)
PhaseInRange == -Unit <= phase /\ phase < Unit
=============================================================================
