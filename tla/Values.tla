------------------------------- MODULE Values -------------------------------
(***************************************************************************)
(* None, and the floats the formulas and gates compare, reduced to what    *)
(* they can tell apart: whole numbers stand for the finite ones, and the   *)
(* three non-finite values compare the way IEEE 754 says. Rounding is left *)
(* out.                                                                    *)
(***************************************************************************)
EXTENDS Integers, Sequences

CONSTANTS None, NaN, PosInf, NegInf

NonFinite == {NaN, PosInf, NegInf}

ASSUME NonFiniteAssumption == \A x \in NonFinite : x \notin Int

ASSUME NoneAssumption == None \notin NonFinite \cup Int

ASSUME InfinitiesAssumption == PosInf # NegInf

Finite(x) == x \notin NonFinite

\* Every comparison with NaN is false.
Leq(a, b) ==
  /\ NaN \notin {a, b}
  /\ \/ a = NegInf
     \/ b = PosInf
     \/ Finite(a) /\ Finite(b) /\ a <= b

Less(a, b) == Leq(a, b) /\ a # b

\* What is at the chosen places of s, in order: a comprehension with an "if".
Kept(s, chosen) ==
  LET upTo[i \in 0..Len(s)] ==
        IF i = 0 THEN <<>>
        ELSE IF i \in chosen THEN Append(upTo[i - 1], s[i]) ELSE upTo[i - 1]
  IN upTo[Len(s)]

\* Python's min and max keep the first value that no later one is strictly
\* below (above), so a NaN wins only when it comes first.
Least(s) ==
  LET upTo[i \in 1..Len(s)] ==
        IF i = 1 THEN s[1]
        ELSE IF Less(s[i], upTo[i - 1]) THEN s[i] ELSE upTo[i - 1]
  IN upTo[Len(s)]

Greatest(s) ==
  LET upTo[i \in 1..Len(s)] ==
        IF i = 1 THEN s[1]
        ELSE IF Less(upTo[i - 1], s[i]) THEN s[i] ELSE upTo[i - 1]
  IN upTo[Len(s)]
=============================================================================
