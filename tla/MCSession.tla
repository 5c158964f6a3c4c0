------------------------------ MODULE MCSession -----------------------------
(* Small instances of Session for TLC. *)
EXTENDS SessionInvariant, TLC

MCName == {"proj", "d1", "d1~", "d2", "set", "swp", "v1", "v2"}
MCVariationHash == {"h1", "h2"}
MCHashOf == [n \in MCName |-> IF n = "v2" THEN "h2" ELSE "h1"]
\* "d1~" is a name with a control character: listed and kept as "d1".
MCClean == [n \in MCName |-> IF n = "d1~" THEN "d1" ELSE n]

\* Every stage, one project: a design name the sanitiser changes, a second one,
\* and two variation tokens.
AllStages ==
    [project |-> {"proj"}, design |-> {"d1", "d1~", "d2"}, setup |-> {"set"},
     sweep |-> {"swp"}, variation |-> {"v1", "v2"}]

\* Two designs, nothing below.
TwoDesigns ==
    [project |-> {"proj"}, design |-> {"d1", "d2"}, setup |-> {},
     sweep |-> {}, variation |-> {}]

ProcessSymmetry == Permutations(Process)
=============================================================================
