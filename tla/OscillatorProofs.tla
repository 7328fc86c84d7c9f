-------------------------- MODULE OscillatorProofs --------------------------
(***************************************************************************)
(* The phase of OscillatorBase stays in [-1.0, +1.0) for every set of      *)
(* sample rates and frequencies and every phase resolution.                *)
(***************************************************************************)
EXTENDS Oscillator, TLAPS

USE OscillatorAssumption

(* Inductive strengthening: the scaler is 1 / sampleRate once a rate is   *)
(* set, and 0 before.                                                      *)
PhaseInv ==
  /\ TypeOK
  /\ PhaseInRange
  /\ sampleRate = 0 => scale = 0
  /\ sampleRate # 0 => scale * sampleRate = Unit

(* Multiplying both sides of an inequality by a natural number.            *)
LEMMA MulMono ==
  ASSUME NEW a \in Int, NEW b \in Int, NEW c \in Nat, a <= b
  PROVE  a * c <= b * c
OBVIOUS

(* A frequency within the Nyquist rate moves the phase by at most half of  *)
(* its range.                                                              *)
LEMMA IncrementBound ==
  ASSUME PhaseInv, NEW f \in Int, 2 * AbsValue(f) <= sampleRate
  PROVE  2 * AbsValue(f * scale) <= Unit
<1>1. scale \in Nat /\ sampleRate \in Nat
  BY DEF PhaseInv, TypeOK
<1>2. AbsValue(f * scale) = AbsValue(f) * scale
  BY <1>1 DEF AbsValue
<1>3. (2 * AbsValue(f)) * scale <= sampleRate * scale
  BY <1>1, MulMono DEF AbsValue
<1>4. CASE sampleRate = 0
  BY <1>1, <1>4 DEF PhaseInv, AbsValue
<1>5. CASE sampleRate # 0
  <2>1. sampleRate * scale = Unit
    BY <1>1, <1>5 DEF PhaseInv
  <2>2. 2 * (AbsValue(f) * scale) = (2 * AbsValue(f)) * scale
    BY <1>1 DEF AbsValue
  <2>. QED  BY <1>2, <1>3, <2>1, <2>2
<1>. QED  BY <1>4, <1>5

(* One wrap brings a phase that left the range by at most its half back.   *)
LEMMA WrapInRange ==
  ASSUME NEW p \in Int, -Unit - Unit \div 2 <= p, p < Unit + Unit \div 2
  PROVE  -Unit <= Wrap(p) /\ Wrap(p) < Unit
BY DEF Wrap

LEMMA PhaseStep == PhaseInv /\ [Next]_vars => PhaseInv'
<1> SUFFICES ASSUME PhaseInv, [Next]_vars PROVE PhaseInv'
  OBVIOUS
<1>1. ASSUME NEW sr \in SampleRates, SetSampleRate(sr) PROVE PhaseInv'
  <2>1. (Unit \div sr) * sr = Unit
    BY DEF SetSampleRate
  <2>. QED  BY <1>1, <2>1 DEF SetSampleRate, PhaseInv, TypeOK, PhaseInRange
<1>2. ASSUME NEW f \in Frequencies, IncrementPhase(f) PROVE PhaseInv'
  <2>1. 2 * AbsValue(f * scale) <= Unit
    BY <1>2, IncrementBound DEF IncrementPhase
  <2>2. -Unit - Unit \div 2 <= phase + f * scale /\ phase + f * scale < Unit + Unit \div 2
    BY <2>1 DEF PhaseInv, PhaseInRange, TypeOK, AbsValue
  <2>3. -Unit <= phase' /\ phase' < Unit
    BY <1>2, <2>2, WrapInRange DEF IncrementPhase, PhaseInv, TypeOK
  <2>4. phase' \in Int
    BY <1>2, <2>2 DEF IncrementPhase, Wrap, PhaseInv, TypeOK
  <2>5. sampleRate' = sampleRate /\ scale' = scale
    BY <1>2 DEF IncrementPhase
  <2>. QED  BY <2>3, <2>4, <2>5 DEF PhaseInv, TypeOK, PhaseInRange
<1>3. CASE UNCHANGED vars
  BY <1>3 DEF vars, PhaseInv, TypeOK, PhaseInRange
<1>. QED  BY <1>1, <1>2, <1>3 DEF Next

(* incrementPhase keeps the phase in [-1.0, +1.0) (property PhaseInRange)  *)
(* whenever the frequency never exceeds the Nyquist rate.                  *)
THEOREM PhaseInRangeHolds == Spec => []PhaseInRange
<1>1. Init => PhaseInv
  BY DEF Init, PhaseInv, TypeOK, PhaseInRange
<1>2. PhaseInv => PhaseInRange
  BY DEF PhaseInv
<1>. QED  BY <1>1, <1>2, PhaseStep, PTL DEF Spec
=============================================================================
