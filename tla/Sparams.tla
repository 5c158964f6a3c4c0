------------------------------ MODULE Sparams -------------------------------
(***************************************************************************)
(* The six open formulas of metrics/sparams.py, in exact arithmetic.       *)
(*                                                                         *)
(* A sample is a complex number in whole Unit-ths. A coefficient is kept   *)
(* as a numerator and a denominator, so that interpolation stays exact; a  *)
(* level in dB is kept as the squared magnitude it is the logarithm of,    *)
(* with 0 at minus infinity: the logarithm keeps every order, and -10 dB   *)
(* is one tenth. ValueError stands for the exception of that name.         *)
(***************************************************************************)
EXTENDS Values, FiniteSetsExt

CONSTANTS Unit, ValueError

ASSUME UnitAssumption == Unit \in Nat \ {0}

Coefficient == [re : Int, im : Int, den : Int]

Fraction == [num : Int, den : Int]

\* The exception and the non-finite floats are not numbers of any formula.
ASSUME ValueErrorAssumption ==
  \A x \in NonFinite \cup {ValueError} :
    x \notin [hz : Int] \cup Fraction \cup [vswr_of : Coefficient]
             \cup [re : Fraction \cup {NaN}, im : Fraction \cup {NaN}]

ASSUME ErrorAssumption == ValueError \notin NonFinite

Gamma(sample) == [re |-> sample.re, im |-> sample.im, den |-> Unit]

\* Numerator of the squared magnitude; the denominator is den * den.
Magnitude(gamma) == gamma.re * gamma.re + gamma.im * gamma.im

Decibels(gamma) ==
  IF Magnitude(gamma) = 0 THEN NegInf
  ELSE [num |-> Magnitude(gamma), den |-> gamma.den * gamma.den]

AtMostMinus10dB(sample) == 10 * Magnitude(sample) <= Unit * Unit

----------------------------------------------------------------------------
SamplesAreUsable(s11) ==
  /\ s11 # <<>>
  /\ \A i \in DOMAIN s11 : Finite(s11[i].re) /\ Finite(s11[i].im)

SeriesIsUsable(frequencies, s11) ==
  /\ SamplesAreUsable(s11)
  /\ Len(frequencies) = Len(s11)
  /\ \A i \in DOMAIN frequencies : Finite(frequencies[i])
  /\ \A i \in 2..Len(frequencies) : ~ Leq(frequencies[i], frequencies[i - 1])

\* Mutant: the last of equally deep samples wins.
LastResonanceIndex(s11) ==
  LET deepest[i \in DOMAIN s11] ==
        IF i = 1 THEN 1
        ELSE IF Magnitude(s11[i]) <= Magnitude(s11[deepest[i - 1]]) THEN i
             ELSE deepest[i - 1]
  IN deepest[Len(s11)]

\* The scan keeps the first of equally deep samples.
ResonanceIndex(s11) ==
  LET deepest[i \in DOMAIN s11] ==
        IF i = 1 THEN 1
        ELSE IF Magnitude(s11[i]) < Magnitude(s11[deepest[i - 1]]) THEN i
             ELSE deepest[i - 1]
  IN deepest[Len(s11)]

\* At a swept frequency the sample itself; between two, the point on the
\* straight line from one to the other.
InterpolatedGamma(frequencies, s11, target) ==
  LET above == Min({i \in DOMAIN frequencies : target <= frequencies[i]})
      below == above - 1
      step == frequencies[above] - frequencies[below]
      along(low, high) == low * step + (high - low) * (target - frequencies[below])
  IN IF frequencies[above] = target THEN Gamma(s11[above])
     ELSE [re |-> along(s11[below].re, s11[above].re),
           im |-> along(s11[below].im, s11[above].im),
           den |-> Unit * step]

\* What every formula at a target asks for first.
TargetIsUsable(frequencies, s11, target) ==
  /\ SeriesIsUsable(frequencies, s11)
  /\ Leq(frequencies[1], target)
  /\ Leq(target, frequencies[Len(frequencies)])

----------------------------------------------------------------------------
S11Min(s11) ==
  IF ~ SamplesAreUsable(s11) THEN ValueError
  ELSE LET least == Min({Magnitude(s11[i]) : i \in DOMAIN s11})
       IN IF least = 0 THEN NegInf ELSE [num |-> least, den |-> Unit * Unit]

ResonantFrequency(frequencies, s11) ==
  IF ~ SeriesIsUsable(frequencies, s11) THEN ValueError
  ELSE frequencies[ResonanceIndex(s11)]

\* The walk outwards from the resonance, one step at a time.
LowIndex(s11, resonance) ==
  LET walk[i \in DOMAIN s11] ==
        IF i > 1 /\ AtMostMinus10dB(s11[i - 1]) THEN walk[i - 1] ELSE i
  IN walk[resonance]

HighIndex(s11, resonance) ==
  LET walk[i \in DOMAIN s11] ==
        IF i < Len(s11) /\ AtMostMinus10dB(s11[i + 1]) THEN walk[i + 1] ELSE i
  IN walk[resonance]

NoBand == [arm |-> "NoMinus10dBBand"]

Minus10dBBandwidth(frequencies, s11) ==
  IF ~ SeriesIsUsable(frequencies, s11) THEN ValueError
  ELSE LET resonance == ResonanceIndex(s11)
           low == frequencies[LowIndex(s11, resonance)]
           high == frequencies[HighIndex(s11, resonance)]
       IN IF ~ AtMostMinus10dB(s11[resonance]) THEN NoBand
          ELSE [arm |-> "Minus10dBBand", low |-> low, high |-> high,
                width |-> high - low]

S11AtTarget(frequencies, s11, target) ==
  IF ~ TargetIsUsable(frequencies, s11, target) THEN ValueError
  ELSE Decibels(InterpolatedGamma(frequencies, s11, target))

\* A ratio is known by the coefficient it is a function of.
VswrAtTarget(frequencies, s11, target) ==
  IF ~ TargetIsUsable(frequencies, s11, target) THEN ValueError
  ELSE LET gamma == InterpolatedGamma(frequencies, s11, target)
           one == gamma.den * gamma.den
       IN CASE Magnitude(gamma) > one -> ValueError
            [] Magnitude(gamma) = one -> PosInf
            [] Magnitude(gamma) < one -> [vswr_of |-> gamma]

\* A reference impedance that is not finite leaves no part of the product that
\* is; which of the three it becomes is left out.
Ohms(z0, num, den) ==
  IF Finite(z0) THEN [num |-> z0 * num, den |-> den] ELSE NaN

\* Z0 (1 + G) / (1 - G), both parts over the squared magnitude of 1 - G. Nothing
\* is assumed of Z0.
ImpedanceAtTarget(frequencies, s11, target, z0) ==
  IF ~ TargetIsUsable(frequencies, s11, target) THEN ValueError
  ELSE LET gamma == InterpolatedGamma(frequencies, s11, target)
           rest == gamma.den - gamma.re
           square == rest * rest + gamma.im * gamma.im
       IN IF rest = 0 /\ gamma.im = 0 THEN ValueError
          ELSE [re |-> Ohms(z0, gamma.den * gamma.den - Magnitude(gamma), square),
                im |-> Ohms(z0, 2 * gamma.im * gamma.den, square)]
=============================================================================
